------------------------------ MODULE LazyModels -------------------------------
(***************************************************************************)
(* The four models behind the semantic signals, each of two parts loaded   *)
(* one after the other: the injection and jailbreak scopes (encoder and    *)
(* centroid, semantic_v2.py) and the classifier (tokenizer and network,    *)
(* classifier.py) on first use, the document encoder (semantic.py) when    *)
(* the module is imported.  A load or a forward pass may fail; texts go on *)
(* being scanned, and whatever gives no score gives 0.                     *)
(***************************************************************************)
EXTENDS Scanners, Sequences

CONSTANTS
  Texts,    \* what the models would say of a text, in hundredths:
            \* [documents |-> , injection |-> , jailbreak |-> , classifier |-> ]
  MaxTexts  \* bound: texts considered

(* In the order in which scan() asks them.                                 *)
Order == <<"documents", "injection", "jailbreak", "classifier">>
Scopes == {"injection", "jailbreak"}
Models == Scopes \union {"documents", "classifier"}
Parts == {"first", "second"}

VARIABLES
  imported,  \* init_semantic of semantic.py has run
  holds,     \* holds[m]: the parts of model m that are not None
  failed,    \* _failed: the models that will not be tried again
  prompt,    \* the text being scanned
  score,     \* score[m]: what model m said of it
  todo,      \* the models still to be asked about it
  texts      \* texts so far

allModelsVars == <<imported, holds, failed, prompt, score, todo, texts>>

ModelsInit ==
  /\ imported = FALSE
  /\ holds = [m \in Models |-> {}]
  /\ failed = {}
  /\ prompt \in Texts
  /\ score = [m \in Models |-> 0]
  /\ todo = Order
  /\ texts = 1

-----------------------------------------------------------------------------
(* Whether a model passes for loaded: a scope by its encoder, the          *)
(* classifier by its network; the document encoder looks at both parts.    *)
Ready(m) ==
  CASE m \in Scopes -> "first" \in holds[m]
    [] m = "classifier" -> "second" \in holds[m]
    [] m = "documents" -> holds[m] = Parts

(* Mutant of AfterFailure: what was assigned before the exception stays.   *)
AfterFailureKept(reached) == reached

(* The except branches set both parts to None.                             *)
AfterFailure(reached) == {}

(* The outcomes of loading: both parts, or an exception before the first   *)
(* was assigned, between the two, or (eval, the norm) after the second.    *)
Loads(m) == holds' = [holds EXCEPT ![m] = Parts] /\ UNCHANGED failed

LoadFails(m, reached) ==
  /\ holds' = [holds EXCEPT ![m] = AfterFailure(reached)]
  /\ failed' = IF m = "documents" THEN failed ELSE failed \union {m}

Reached == {{}, {"first"}, Parts}

(* init_semantic of semantic.py: once, as scanners.py is imported.         *)
Import ==
  /\ ~imported
  /\ imported' = TRUE
  /\ \/ Loads("documents")
     \/ \E reached \in Reached : LoadFails("documents", reached)
  /\ UNCHANGED <<prompt, score, todo, texts>>

Gives(m, value) ==
  /\ imported /\ todo # <<>> /\ Head(todo) = m
  /\ todo' = Tail(todo)
  /\ score' = [score EXCEPT ![m] = value]
  /\ UNCHANGED <<imported, prompt, texts>>

(* A loaded model scores the text; with a part missing it raises instead.  *)
Scores(m) ==
  /\ Ready(m)
  /\ Gives(m, If(holds[m] = Parts, prompt[m]))
  /\ UNCHANGED <<holds, failed>>

GivesNothing(m) ==
  /\ Ready(m)
  /\ Gives(m, 0)
  /\ UNCHANGED <<holds, failed>>

(* First use: _ensure loads the model and the text is scored ...           *)
FirstUse(m) ==
  /\ m # "documents" /\ ~Ready(m) /\ m \notin failed
  /\ Loads(m)
  /\ Gives(m, prompt[m])

(* ... or it cannot, and the model gives nothing from then on.             *)
FirstUseFails(m) ==
  /\ m # "documents" /\ ~Ready(m) /\ m \notin failed
  /\ \E reached \in Reached : LoadFails(m, reached)
  /\ Gives(m, 0)

Unavailable(m) ==
  /\ ~Ready(m) /\ (m = "documents" \/ m \in failed)
  /\ Gives(m, 0)
  /\ UNCHANGED <<holds, failed>>

NextText ==
  /\ todo = <<>> /\ texts < MaxTexts
  /\ texts' = texts + 1
  /\ prompt' \in Texts
  /\ todo' = Order
  /\ score' = [m \in Models |-> 0]
  /\ UNCHANGED <<imported, holds, failed>>

ModelsNext ==
  \/ Import \/ NextText
  \/ \E m \in Models :
       \/ Scores(m) \/ GivesNothing(m)
       \/ FirstUse(m) \/ FirstUseFails(m) \/ Unavailable(m)

ModelsSpec == ModelsInit /\ [][ModelsNext]_allModelsVars

-----------------------------------------------------------------------------
(* Between two texts no model passes for loaded that lacks a part: such a  *)
(* model would score every later text 0 and never be loaded again.         *)
ReadyMeansUsable == \A m \in Models : Ready(m) => holds[m] = Parts

Verdict ==
  SemanticVerdict([injectionScore |-> score["injection"],
                   jailbreakScore |-> score["jailbreak"]])

Threshold(s) == IF s = "injection" THEN ThresholdInjection ELSE ThresholdJailbreak

(* When one scope could not be loaded the verdict is the other's alone, at *)
(* its own threshold: a model that will not load never silences the other. *)
DegradedVerdict ==
  todo = <<>> =>
    \A lost \in Scopes \intersect failed : \A other \in Scopes \ {lost} :
      score[other] = prompt[other] =>
        (Verdict.detected <=> prompt[other] >= Threshold(other))
===============================================================================
