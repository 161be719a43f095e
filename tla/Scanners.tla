------------------------------- MODULE Scanners -------------------------------
(***************************************************************************)
(* The verdicts of jobs/helper: what the detectors found in a text (how    *)
(* many phrases matched, how similar it is to the attacks, which entities  *)
(* it holds) is the input; how scores and risk levels are computed and     *)
(* combined is modelled.  Scores are in hundredths.  A detector that       *)
(* raises reports nothing, which is the same as having found nothing.      *)
(*                                                                         *)
(* A text is [all |-> , head |-> ]: the findings in the whole of it, and   *)
(* those in its first _MAX_SCAN_CHARS characters, which is all of it if it *)
(* is not longer.  Nothing relates the two: cutting may lose a finding,    *)
(* and a word cut short may make one.                                      *)
(***************************************************************************)
EXTENDS Integers, FiniteSetsExt

CONSTANTS
  ThresholdInjection,   \* FLUIQ_SEMANTIC_THRESHOLD_INJECTION, 41
  ThresholdJailbreak,   \* FLUIQ_SEMANTIC_THRESHOLD_JAILBREAK, 46
  RagPoisonThreshold,   \* _RAG_POISON_THRESHOLD, 55
  ClassifierThreshold,  \* FLUIQ_CLASSIFIER_THRESHOLD, 90
  ClassifierBlocks,     \* FLUIQ_CLASSIFIER_MODE = "block"
  SemanticBlocks        \* FLUIQ_SEMANTIC_BLOCKS # "0"

ASSUME ThresholdAssumption ==
  /\ {ThresholdInjection, ThresholdJailbreak, RagPoisonThreshold,
      ClassifierThreshold} \subseteq 0 .. 100
  /\ {ClassifierBlocks, SemanticBlocks} \subseteq BOOLEAN

(* RiskLevel and its order.                                                *)
Clean == 0
Low == 1
Medium == 2
High == 3
Levels == Clean .. High

RiskFromScore(score) ==
  IF score >= 90 THEN High
  ELSE IF score >= 50 THEN Medium
  ELSE IF score >= 30 THEN Low
  ELSE Clean

Highest(numbers) == Max({0} \union numbers)

If(condition, value) == IF condition THEN value ELSE 0

-----------------------------------------------------------------------------
(* _scan_tiered: strong phrases are HIGH, weak ones need corroboration.    *)
Attack(score, level) ==
  [detected |-> level > Clean, score |-> score, level |-> level]

(* Mutant of Tiered: a single weak phrase is enough.                       *)
TieredUncorroborated(hits) ==
  IF hits.strong > 0 THEN Attack(90, High)
  ELSE IF hits.weak >= 1 THEN Attack(60, Medium)
  ELSE Attack(0, Clean)

Tiered(hits) ==
  IF hits.strong > 0 THEN Attack(90, High)
  ELSE IF hits.weak >= 2 THEN Attack(60, Medium)
  ELSE IF hits.weak = 1 THEN Attack(30, Low)
  ELSE Attack(0, Clean)

(* The entity types of _ENTITY_WEIGHTS, one for each weight.               *)
EntityWeight ==
  [US_SSN |-> 100, IBAN_CODE |-> 90, CRYPTO |-> 80, EMAIL_ADDRESS |-> 50,
   PERSON |-> 40, LOCATION |-> 30]

Entities == DOMAIN EntityWeight

(* _PIIScanner.scan; the entity types of the org's policy are ignored.     *)
Pii(found, ignore) ==
  LET score == Highest({EntityWeight[e] : e \in found \ ignore})
  IN [entities |-> found \ ignore, score |-> score,
      level |-> RiskFromScore(score)]

(* Mutant of Secrets: a high-entropy string is listed as a secret type.    *)
SecretsEntropyNamed(text) ==
  [detected |-> text.named \/ text.entropy,
   named |-> text.named \/ text.entropy,
   level |-> IF text.named THEN High ELSE IF text.entropy THEN Medium
             ELSE Clean]

(* _SecretScanner.scan: named patterns, and high-entropy strings.          *)
Secrets(text) ==
  [detected |-> text.named \/ text.entropy,
   named |-> text.named,
   level |-> IF text.named THEN High ELSE IF text.entropy THEN Medium
             ELSE Clean]

(* Mutant of SemanticVerdict: one blended score, one threshold.            *)
SemanticVerdictBlended(text) ==
  LET score == Max({text.injectionScore, text.jailbreakScore})
  IN [detected |-> score >= ThresholdJailbreak, score |-> score]

(* semantic_verdict: the injection scope when it leads, else jailbreak.    *)
SemanticVerdict(text) ==
  LET i == text.injectionScore
      j == text.jailbreakScore
  IN IF i >= ThresholdInjection /\ i >= j
     THEN [detected |-> TRUE, score |-> i]
     ELSE IF j >= ThresholdJailbreak THEN [detected |-> TRUE, score |-> j]
     ELSE [detected |-> FALSE, score |-> Max({i, j})]

ClassifierVerdict(text) ==
  ClassifierBlocks /\ text.classifierScore >= ClassifierThreshold

(* A semantic hit: HIGH, unless the kill switch makes it advisory.         *)
SemanticLevel(detected) == If(detected, IF SemanticBlocks THEN High ELSE Medium)

-----------------------------------------------------------------------------
(* What the detectors find in an empty text.                               *)
NoHits == [strong |-> 0, weak |-> 0]

BlankFindings ==
  [injection |-> NoHits, jailbreak |-> NoHits, skeleton |-> NoHits,
   injectionScore |-> 0, jailbreakScore |-> 0, classifierScore |-> 0,
   pii |-> {}, named |-> FALSE, entropy |-> FALSE]

(* A text that is not longer than the cap; the empty one.                  *)
Short(findings) == [all |-> findings, head |-> findings]
BlankText == Short(BlankFindings)

(* _cap: what is left of a text.                                           *)
Cap(text) == [text EXCEPT !.all = text.head]

(* Mutant of Check: the advisory level a semantic hit had before.          *)
CheckSemanticMedium(text) ==
  LET prompt == text.all
      level == Highest({Tiered(prompt.injection).level,
                        Tiered(prompt.jailbreak).level,
                        Tiered(prompt.skeleton).level,
                        If(SemanticVerdict(prompt).detected, Medium)})
  IN [allow |-> level # High, level |-> level]

(* check: attack patterns and semantics of the prompt only, and all of it. *)
Check(text) ==
  LET prompt == text.all
      level == Highest({Tiered(prompt.injection).level,
                        Tiered(prompt.jailbreak).level,
                        Tiered(prompt.skeleton).level,
                        SemanticLevel(SemanticVerdict(prompt).detected)})
  IN [allow |-> level # High, level |-> level]

(* What the trace tree around an event contributes to its scan.            *)
NoContext ==
  [toolOutputs |-> {}, contextDocs |-> {}, toolInputs |-> {},
   toolNames |-> {}, allowedTools |-> {}, crossAgent |-> FALSE,
   images |-> {}]

(* The contents of the tree are capped like the texts; the texts read from *)
(* images are not.                                                         *)
CapAll(texts) == {Cap(t).all : t \in texts}

CapTree(context) ==
  [context EXCEPT !.toolOutputs = CapAll(@), !.contextDocs = CapAll(@),
                  !.toolInputs = CapAll(@)]

(* The findings in a trace's tool outputs, documents, tool inputs, tool    *)
(* names and images.  A content has attack phrases or not, a similarity to *)
(* the attack centroid, entities and secrets.                              *)
(* Mutant of IndirectInjection: tool outputs are only searched for words.  *)
IndirectInjectionByPhrase(context) ==
  \/ \E o \in context.toolOutputs : o.phrases
  \/ \E d \in context.contextDocs : d.phrases

IndirectInjection(context) ==
  \/ \E o \in context.toolOutputs :
       o.phrases \/ o.similarity >= RagPoisonThreshold
  \/ \E d \in context.contextDocs : d.phrases

RagScore(context) == Highest({d.similarity : d \in context.contextDocs})

RagPoisoning(context) ==
  \E d \in context.contextDocs : d.similarity >= RagPoisonThreshold

ToolExfiltration(context, ignore) ==
  \E t \in context.toolInputs :
    Pii(t.pii, ignore).entities # {} \/ Secrets(t).detected

(* An empty allowlist allows every tool.                                   *)
ToolPolicyViolation(context) ==
  context.allowedTools # {} /\ context.toolNames \ context.allowedTools # {}

ImageInjection(context) == TRUE \in context.images

(* Every detector on prompt, response and context, and the aggregate level *)
(* and score.                                                              *)
Detect(prompt, response, ignore, context) ==
  LET injection == Tiered(prompt.injection)
      jailbreak == Tiered(prompt.jailbreak)
      skeleton == Tiered(prompt.skeleton)
      promptPii == Pii(prompt.pii, ignore)
      responsePii == Pii(response.pii, ignore)
      secrets == {Secrets(prompt), Secrets(response)}
      named == \E s \in secrets : s.named
      leaked == \E s \in secrets : s.detected
      semantic == SemanticVerdict(prompt)
      semanticHit == semantic.detected \/ ClassifierVerdict(prompt)
      indirect == IndirectInjection(context)
      rag == RagPoisoning(context)
      exfiltration == ToolExfiltration(context, ignore)
      violation == ToolPolicyViolation(context)
      image == ImageInjection(context)
      crossAgent == /\ context.crossAgent
                    /\ \/ injection.detected
                       \/ jailbreak.detected
                       \/ semanticHit
  IN [injection |-> injection.detected,
      jailbreak |-> jailbreak.detected,
      skeleton |-> skeleton.detected,
      semanticScore |-> semantic.score,
      semanticDetected |-> semanticHit,
      piiPrompt |-> promptPii.entities,
      piiResponse |-> responsePii.entities,
      secrets |-> leaked,
      secretTypes |-> named,
      level |->
        Highest({injection.level, jailbreak.level, skeleton.level,
                 If(indirect \/ rag \/ violation \/ crossAgent \/ image, High),
                 If(exfiltration, Medium),
                 SemanticLevel(semanticHit),
                 promptPii.level, responsePii.level}
                \union {s.level : s \in secrets}),
      score |->
        Highest({injection.score, jailbreak.score, skeleton.score,
                 If(indirect \/ violation \/ crossAgent \/ image, 100),
                 If(rag, RagScore(context)),
                 If(exfiltration, 50),
                 semantic.score, promptPii.score, responsePii.score,
                 IF named THEN 100 ELSE If(leaked, 50)})]

(* scan: the texts are capped before any detector sees them.               *)
Scan(prompt, response, ignore, context) ==
  Detect(Cap(prompt).all, Cap(response).all, ignore, CapTree(context))
===============================================================================
