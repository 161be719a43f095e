--------------------------------- MODULE Gates ---------------------------------
(***************************************************************************)
(* The three handlers of jobs/run.py as they decide about one job: a       *)
(* pre-call check of a prompt, a gate on a response, or the scan of a      *)
(* completed trace.  The job is scanned, or its scan raises, and is then   *)
(* answered (a trace: stored) with a decision.                             *)
(***************************************************************************)
EXTENDS Scanners

CONSTANTS
  ReportThreshold,  \* SEMANTIC_REPORT_THRESHOLD, 34
  Jobs              \* the jobs considered

(* The policy the API sends with a pre-call check.  No category means all. *)
Categories == {"prompt_injection", "jailbreak", "skeleton_key",
               "semantic_attack", "pii_detected", "secrets_detected"}
Policies == [threshold : {"medium", "high"}, categories : SUBSET Categories]
DefaultPolicy == [threshold |-> "high", categories |-> {}]

Operations == {"security_check_sync", "response_gate_check", "sdk_security"}

(* A job: what the detectors find in its texts (a similarity is a cosine   *)
(* and may be negative), and what came with it.                            *)
HitCounts == [strong : Nat, weak : Nat]

FindingRecords ==
  [injection : HitCounts, jailbreak : HitCounts, skeleton : HitCounts,
   injectionScore : -100 .. 100, jailbreakScore : -100 .. 100,
   classifierScore : 0 .. 100,
   pii : SUBSET Entities, named : BOOLEAN, entropy : BOOLEAN]

ContentFindings == [phrases : BOOLEAN, similarity : -100 .. 100]
InputFindings == [pii : SUBSET Entities, named : BOOLEAN, entropy : BOOLEAN]

(* A text or content, in full and capped.                                  *)
Capped(findings) == [all : findings, head : findings]
TextRecords == Capped(FindingRecords)

TreeOf(contents, inputs) ==
  [toolOutputs : SUBSET contents, contextDocs : SUBSET contents,
   toolInputs : SUBSET inputs,
   toolNames : SUBSET STRING, allowedTools : SUBSET STRING,
   crossAgent : BOOLEAN, images : SUBSET BOOLEAN]

TreeRecords == TreeOf(Capped(ContentFindings), Capped(InputFindings))

JobRecords ==
  [operation : Operations, prompt : TextRecords, response : TextRecords,
   ignore : SUBSET Entities, policy : Policies, gated : BOOLEAN,
   context : TreeRecords]

ASSUME JobAssumption == Jobs \subseteq JobRecords

ASSUME ReportAssumption == ReportThreshold \in 0 .. 100

VARIABLES
  job,      \* the message in work
  status,   \* how far its handler got
  result,   \* what run_scan returned
  blocked,  \* the decision: refuse the call, or flag the trace
  level,    \* the risk level reported with it
  types     \* the attack types reported with it

vars == <<job, status, result, blocked, level, types>>

Nothing == Scan(BlankText, BlankText, {}, NoContext)

Init ==
  /\ job \in Jobs
  /\ status = "received"
  /\ result = Nothing
  /\ blocked = FALSE
  /\ level = Clean
  /\ types = {}

-----------------------------------------------------------------------------
(* What a handler passes to run_scan: the pre-call check the prompt, the   *)
(* gate the response, the trace scan everything except a response that was *)
(* already gated.                                                          *)

(* Mutant of ScanOf: response_gated is inverted.                           *)
ScanOfInverted(j) ==
  CASE j.operation = "security_check_sync" ->
         Scan(j.prompt, BlankText, j.ignore, NoContext)
    [] j.operation = "response_gate_check" ->
         Scan(BlankText, j.response, j.ignore, NoContext)
    [] j.operation = "sdk_security" ->
         Scan(j.prompt, IF j.gated THEN j.response ELSE BlankText, j.ignore,
              j.context)

ScanOf(j) ==
  CASE j.operation = "security_check_sync" ->
         Scan(j.prompt, BlankText, j.ignore, NoContext)
    [] j.operation = "response_gate_check" ->
         Scan(BlankText, j.response, j.ignore, NoContext)
    [] j.operation = "sdk_security" ->
         Scan(j.prompt, IF j.gated THEN BlankText ELSE j.response, j.ignore,
              j.context)

RunScan ==
  /\ status = "received"
  /\ status' = "scanned"
  /\ result' = ScanOf(job)
  /\ UNCHANGED <<job, blocked, level, types>>

ScanRaises ==
  /\ status = "received"
  /\ status' = "failed"
  /\ UNCHANGED <<job, result, blocked, level, types>>

(* The synchronous handlers fail open; a trace gets a clean marker row.    *)
FailOpen ==
  /\ status = "failed"
  /\ status' = "failed open"
  /\ UNCHANGED <<job, result, blocked, level, types>>

Decide(decision, reported) ==
  /\ status = "scanned"
  /\ status' = "answered"
  /\ blocked' = decision
  /\ level' = result.level
  /\ types' = reported
  /\ UNCHANGED <<job, result>>

Named(flag, name) == IF flag THEN {name} ELSE {}

-----------------------------------------------------------------------------
(* sync_security_check: the attack types found, and whether one of those   *)
(* the policy lists blocks at its threshold.                               *)

(* Mutants of PreCallTypes: the single 0.65 constant used before; the      *)
(* scoped name check() reports.                                            *)
PreCallTypesAt65(r) ==
  Named(r.injection, "prompt_injection")
  \union Named(r.jailbreak, "jailbreak")
  \union Named(r.skeleton, "skeleton_key")
  \union Named(r.semanticScore >= 65, "semantic_attack")
  \union Named(r.piiPrompt # {}, "pii_detected")
  \union Named(r.secrets, "secrets_detected")

PreCallTypesScoped(r) ==
  Named(r.injection, "prompt_injection")
  \union Named(r.jailbreak, "jailbreak")
  \union Named(r.skeleton, "skeleton_key")
  \union Named(r.semanticDetected, "semantic_injection")
  \union Named(r.piiPrompt # {}, "pii_detected")
  \union Named(r.secrets, "secrets_detected")

PreCallTypes(r) ==
  Named(r.injection, "prompt_injection")
  \union Named(r.jailbreak, "jailbreak")
  \union Named(r.skeleton, "skeleton_key")
  \union Named(r.semanticScore >= ReportThreshold, "semantic_attack")
  \union Named(r.piiPrompt # {}, "pii_detected")
  \union Named(r.secrets, "secrets_detected")

BlockingTypes(r, policy) ==
  IF policy.categories = {} THEN PreCallTypes(r)
  ELSE PreCallTypes(r) \intersect policy.categories

(* Mutant of PreCallBlocks: the risk must equal the threshold.             *)
PreCallBlocksExactly(r, policy) ==
  /\ BlockingTypes(r, policy) # {}
  /\ r.level = IF policy.threshold = "medium" THEN Medium ELSE High

PreCallBlocks(r, policy) ==
  /\ BlockingTypes(r, policy) # {}
  /\ \/ r.level = High
     \/ r.level = Medium /\ policy.threshold = "medium"

AnswerPreCall ==
  /\ job.operation = "security_check_sync"
  /\ Decide(PreCallBlocks(result, job.policy), PreCallTypes(result))

(* sync_response_gate_check: a concrete detection that scores.             *)
GateTypes(r) ==
  Named(r.piiResponse # {}, "pii_in_response")
  \union Named(r.secrets, "secrets_in_response")

(* Mutant of GateBlocks: a high-entropy string counts as concrete.         *)
GateBlocksEntropy(r) ==
  (r.piiResponse # {} \/ r.secrets) /\ r.score >= 50

GateBlocks(r) ==
  (r.piiResponse # {} \/ r.secretTypes) /\ r.score >= 50

AnswerGate ==
  /\ job.operation = "response_gate_check"
  /\ Decide(GateBlocks(result), GateTypes(result))

(* auto_security_scan: the row's should_block.                             *)
StoreRow ==
  /\ job.operation = "sdk_security"
  /\ Decide(result.level = High, {})

Next ==
  \/ RunScan \/ ScanRaises \/ FailOpen
  \/ AnswerPreCall \/ AnswerGate \/ StoreRow

Spec == Init /\ [][Next]_vars

-----------------------------------------------------------------------------
TypeOK ==
  /\ job.operation \in Operations
  /\ status \in {"received", "scanned", "failed", "failed open", "answered"}
  /\ result.level \in Levels /\ result.score \in 0 .. 100
  /\ blocked \in BOOLEAN
  /\ level \in Levels
  /\ types \subseteq Categories \union {"pii_in_response", "secrets_in_response"}

Answered(operation) == status = "answered" /\ job.operation = operation

Insensitive(text, ignore) ==
  text.pii \subseteq ignore /\ ~text.named /\ ~text.entropy

(* The sync gate runs scan(), not check().  Without sensitive data in it,  *)
(* it decides what check() would decide of the capped prompt, which is the *)
(* prompt itself up to 100,000 characters: there both paths agree, as      *)
(* scanners.py says.  Of a longer one check() reads more: CapHidesNothing. *)
PathsAgree ==
  Answered("security_check_sync") /\ job.policy = DefaultPolicy
  /\ Insensitive(job.prompt.head, job.ignore) =>
    blocked = ~Check(Cap(job.prompt)).allow

(* Under the default policy a prompt is refused exactly when its scan is   *)
(* HIGH: no HIGH finding is without an attack type to block on.            *)
HighBlocks ==
  Answered("security_check_sync") /\ job.policy = DefaultPolicy =>
    (blocked <=> level = High)

(* A stricter policy (lower threshold, more categories) refuses whatever a *)
(* laxer one refuses.                                                      *)
Stricter(a, b) ==
  /\ b.threshold = "medium" => a.threshold = "medium"
  /\ a.categories = {} \/ (b.categories # {} /\ b.categories \subseteq a.categories)

PolicyMonotone ==
  Answered("security_check_sync") /\ blocked =>
    \A policy \in Policies :
      Stricter(policy, job.policy) => PreCallBlocks(result, policy)

(* One ambiguous phrase per detector in the part of a prompt that is       *)
(* scanned never refuses it, under no policy ("weak phrases need           *)
(* corroboration", base.py).                                               *)
WeakNeedsCorroboration ==
  /\ Answered("security_check_sync")
  /\ \A hits \in {job.prompt.head.injection, job.prompt.head.jailbreak,
                  job.prompt.head.skeleton} : hits.strong = 0 /\ hits.weak <= 1
  /\ ~SemanticVerdict(job.prompt.head).detected
  /\ Insensitive(job.prompt.head, job.ignore)
  => ~blocked

(* A response is withheld only with a named secret, or an entity that is   *)
(* not ignored, in what is scanned of it, never for a high-entropy string  *)
(* alone; and always for such a secret or an entity worth 0.5              *)
(* (run_response_gate, "hard-block the response on a CONCRETE detection"). *)
ResponseGateWeighs ==
  Answered("response_gate_check") =>
    LET response == job.response.head
        reported == response.pii \ job.ignore
    IN /\ blocked => response.named \/ reported # {}
       /\ response.named \/ (\E e \in reported : EntityWeight[e] >= 50) => blocked

(* A trace never ranks below what the synchronous gates would have said of *)
(* its prompt and of its response, unless that response was gated already. *)
TraceCoversGates ==
  Answered("sdk_security") =>
    /\ level >= Scan(job.prompt, BlankText, job.ignore, NoContext).level
    /\ ~job.gated =>
         level >= Scan(BlankText, job.response, job.ignore, NoContext).level

(* The run-rollup badge, which ranks a stored score of 0.9 or more HIGH,   *)
(* never overstates the risk level stored beside it                        *)
(* (tests/test_secret_scoring.py), for every combination of findings.      *)
BadgeNeverOverstates ==
  status = "answered" /\ RiskFromScore(result.score) = High => level = High

(* Attack content that reached the agent through a tool or a document      *)
(* flags the trace, in the words of the injection and jailbreak lists or   *)
(* in meaning, whatever the org ignores and whatever else is in the trace. *)
(* Of a content longer than the cap, only the head counts.                 *)
UntrustedContentFlags ==
  Answered("sdk_security")
  /\ (\E c \in job.context.toolOutputs \union job.context.contextDocs :
        c.head.phrases \/ c.head.similarity >= RagPoisonThreshold)
  => blocked

-----------------------------------------------------------------------------
(* What comments and docs say of the decisions and the code does not do.   *)

(* semantic_v2.py: "using each scope's own threshold".                     *)
OwnThresholds ==
  Answered("security_check_sync")
  /\ \/ job.prompt.head.injectionScore >= ThresholdInjection
     \/ job.prompt.head.jailbreakScore >= ThresholdJailbreak
  => result.semanticDetected

(* run.py: "scan() already applied each scope's own threshold";            *)
(* re-deriving it "would silently disagree with the gate that actually     *)
(* ran".                                                                   *)
ReportsWhatScanDetected ==
  Answered("security_check_sync") =>
    ("semantic_attack" \in types <=> result.semanticDetected)

(* run.py: "only listed categories contribute to a block decision".        *)
OnlyListed(findings, categories) ==
  [findings EXCEPT
     !.injection = IF "prompt_injection" \in categories THEN @ ELSE NoHits,
     !.jailbreak = IF "jailbreak" \in categories THEN @ ELSE NoHits,
     !.skeleton = IF "skeleton_key" \in categories THEN @ ELSE NoHits,
     !.injectionScore = If("semantic_attack" \in categories, @),
     !.jailbreakScore = If("semantic_attack" \in categories, @),
     !.pii = IF "pii_detected" \in categories THEN @ ELSE {},
     !.named = @ /\ "secrets_detected" \in categories,
     !.entropy = @ /\ "secrets_detected" \in categories]

OnlyListedContribute ==
  Answered("security_check_sync") /\ job.policy.categories # {} /\ blocked =>
    PreCallBlocks(Detect(OnlyListed(job.prompt.head, job.policy.categories),
                         BlankFindings, job.ignore, NoContext), job.policy)

(* classifier.py: the verdict says "would_block" when MODE is block.       *)
ClassifierCanBlock ==
  Answered("security_check_sync") /\ job.policy = DefaultPolicy
  /\ ClassifierVerdict(job.prompt.head) => blocked

(* README.md: the pre-call check is "Attack patterns only ... No PII or    *)
(* secret scanning".                                                       *)
PreCallSkipsSensitiveData ==
  Answered("security_check_sync")
  /\ job.prompt.head = [BlankFindings EXCEPT !.pii = job.prompt.head.pii,
                                             !.named = job.prompt.head.named]
  => ~blocked

(* scanners.py: "Attack markers live in the first stretch of text, so      *)
(* truncation costs little detection power", and "so both paths agree":    *)
(* the gate refuses what check() refuses, however long the prompt.         *)
CapHidesNothing ==
  Answered("security_check_sync") /\ job.policy = DefaultPolicy
  /\ Insensitive(job.prompt.head, job.ignore) =>
    blocked = ~Check(job.prompt).allow
===============================================================================
