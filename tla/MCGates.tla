-------------------------------- MODULE MCGates --------------------------------
(* Jobs for Gates: texts on both sides of every threshold.                 *)
EXTENDS Gates

OneWeak == [strong |-> 0, weak |-> 1]
TwoWeak == [strong |-> 0, weak |-> 2]
OneStrong == [strong |-> 1, weak |-> 0]

(* Scores just below and at the thresholds, in every order of the scopes.  *)
Scores == {0, 36, 42, 43, 47}

EntitySets == {{}, {"PERSON"}, {"EMAIL_ADDRESS"}, {"US_SSN", "LOCATION"}}

AttackFindings ==
  [injection : {NoHits, OneWeak, TwoWeak, OneStrong},
   jailbreak : {NoHits, OneWeak, OneStrong},
   skeleton : {NoHits, OneWeak},
   injectionScore : Scores, jailbreakScore : Scores,
   classifierScore : {0, 95},
   pii : {{}, {"PERSON"}, {"US_SSN"}}, named : {FALSE}, entropy : {FALSE}]

SensitiveFindings ==
  [injection : {NoHits}, jailbreak : {NoHits}, skeleton : {NoHits},
   injectionScore : {0}, jailbreakScore : {0}, classifierScore : {0},
   pii : EntitySets, named : BOOLEAN, entropy : BOOLEAN]

(* Texts up to the cap, and longer ones: findings past the cap, findings   *)
(* only the whole text has, and phrases that only the cut makes.           *)
InEither ==
  {BlankFindings,
   [BlankFindings EXCEPT !.injection = OneStrong],
   [BlankFindings EXCEPT !.jailbreak = OneWeak, !.injection = OneWeak],
   [BlankFindings EXCEPT !.jailbreakScore = 47],
   [BlankFindings EXCEPT !.pii = {"US_SSN"}],
   [BlankFindings EXCEPT !.named = TRUE]}

Shorts(findings) == {Short(f) : f \in findings}

Prompts == Shorts(AttackFindings \union SensitiveFindings) \union Capped(InEither)
Responses == Shorts(SensitiveFindings) \union Capped(InEither)

MCPolicies ==
  [threshold : {"medium", "high"},
   categories : {{}, {"prompt_injection"}, {"semantic_attack", "jailbreak"}}]

PreCallJobs ==
  [operation : {"security_check_sync"}, prompt : Prompts,
   response : {BlankText},
   ignore : {{}}, policy : MCPolicies, gated : {FALSE}, context : {NoContext}]

GateJobs ==
  [operation : {"response_gate_check"}, prompt : {BlankText}, response : Responses,
   ignore : SUBSET {"PERSON", "US_SSN"}, policy : {DefaultPolicy},
   gated : {FALSE}, context : {NoContext}]

Harmless == [phrases |-> FALSE, similarity |-> 54]
Contents ==
  Shorts([phrases : BOOLEAN, similarity : {54, 60}])
  \union {[all |-> [phrases |-> TRUE, similarity |-> 60], head |-> Harmless]}

PlainInput == [pii |-> {"PERSON"}, named |-> FALSE, entropy |-> FALSE]
SecretInput == [PlainInput EXCEPT !.entropy = TRUE]
Inputs ==
  Shorts({PlainInput, SecretInput})
  \union {[all |-> SecretInput, head |-> PlainInput]}

AtMostOne(S) == {{}} \union {{x} : x \in S}

Contexts ==
  [toolOutputs : AtMostOne(Contents), contextDocs : AtMostOne(Contents),
   toolInputs : AtMostOne(Inputs),
   toolNames : {{}, {"shell"}}, allowedTools : {{}, {"search"}},
   crossAgent : BOOLEAN, images : {{}, {TRUE}}]

TracePrompts ==
  Shorts({BlankFindings,
          [BlankFindings EXCEPT !.injection = OneWeak],
          [BlankFindings EXCEPT !.jailbreakScore = 47, !.classifierScore = 95],
          [BlankFindings EXCEPT !.pii = {"PERSON"}, !.entropy = TRUE]})
  \union {[all |-> [BlankFindings EXCEPT !.injection = OneStrong],
           head |-> BlankFindings]}

TraceJobs ==
  [operation : {"sdk_security"}, prompt : TracePrompts,
   response : Shorts({BlankFindings, [BlankFindings EXCEPT !.named = TRUE]}),
   ignore : {{"PERSON"}}, policy : {DefaultPolicy}, gated : BOOLEAN,
   context : Contexts]

AllJobs == PreCallJobs \union GateJobs \union TraceJobs
===============================================================================
