---------------------------- MODULE ScanPartsProofs -----------------------------
(***************************************************************************)
(* What is proved of four parts of a scan, each by itself: the windows of  *)
(* the classifier, the loading of the models, the matching of phrases, and *)
(* what a scan is given of its event.                                      *)
(***************************************************************************)
EXTENDS Windows, LazyModels, Patterns, TraceInputs, OrderingProofs

(***************************************************************************)
(* NoPhraseOnASeam for every window, stride and limit.  The invariant says *)
(* what best stands for: one of the windows taken holds the phrase.  When  *)
(* no window is left, the one the phrase starts in is among those taken.   *)
(***************************************************************************)

(* The values the variables range over.                                    *)
WindowsType ==
  /\ length \in Nat /\ fits \in Nat \ {0} /\ taken \in Nat
  /\ phrase \in [at : Nat, size : Nat \ {0}]
  /\ phrase.at + phrase.size <= length

BestSoFar ==
  stage # "failed" => (best <=> \E k \in 1..taken : Holds(k))

Exhausted == stage = "scored" => ~HasWindow(taken + 1)

WindowsInv == WindowsType /\ BestSoFar /\ Exhausted

(* Every position lies in the stride of some window.                       *)
LEMMA StrideOf ==
  ASSUME NEW i \in Nat
  PROVE  \E q \in Nat : q * StrideChars <= i /\ i < (q + 1) * StrideChars
<1> DEFINE q == i \div StrideChars
<1>1. StrideChars \in Nat \ {0}
  BY WindowsAssumption
<1>2. q \in Nat /\ q * StrideChars <= i /\ i < (q + 1) * StrideChars
  BY <1>1, SMTT(30)
<1> QED
  BY <1>2

LEMMA WindowsStart == Init => WindowsInv
<1> SUFFICES ASSUME Init PROVE WindowsInv
  OBVIOUS
<1> USE WindowsAssumption
<1>1. WindowsType
  <2>1. length \in Nat /\ fits \in Nat \ {0} /\ taken \in Nat
    BY DEF Init
  <2>2. phrase \in [at : Nat, size : Nat \ {0}]
    <3>1. phrase \in [at : 0..length, size : Phrases]
      BY DEF Init
    <3>2. phrase = [at |-> phrase.at, size |-> phrase.size]
      BY <3>1
    <3>3. phrase.at \in 0..length /\ phrase.size \in Phrases
      BY <3>1
    <3>4. phrase.at \in Nat
      BY <2>1, <3>3
    <3>5. phrase.size \in Nat \ {0}
      BY <3>3, Phrases \subseteq Nat \ {0}
    <3> QED
      BY <3>2, <3>4, <3>5
  <2> QED
    BY <2>1, <2>2 DEF Init, WindowsType
<1>2. BestSoFar /\ Exhausted
  BY DEF Init, BestSoFar, Exhausted
<1> QED
  BY <1>1, <1>2 DEF WindowsInv

(* Where the phrase stands does not change, so neither does what holds it. *)
LEMMA HoldsUnchanged ==
  ASSUME NEW k \in Nat, UNCHANGED <<length, fits, phrase>>
  PROVE  Holds(k)' <=> Holds(k)
  BY DEF Holds, Seen, Start

LEMMA WindowsStep == WindowsInv /\ [Next]_vars => WindowsInv'
<1> SUFFICES ASSUME WindowsInv, [Next]_vars PROVE WindowsInv'
  OBVIOUS
<1> USE DEF WindowsInv
<1>1. CASE Score
  <2> USE <1>1 DEF Score
  <2>1. WindowsType'
    BY DEF WindowsType
  <2>2. taken \in Nat /\ stage = "scoring" /\ UNCHANGED <<length, fits, phrase>>
    BY DEF WindowsType
  <2>3. \A k \in 1..taken' : Holds(k)' <=> Holds(k)
    BY <2>2, HoldsUnchanged
  <2>4. (\E k \in 1..taken' : Holds(k)')
          <=> (\E k \in 1..taken : Holds(k)) \/ Holds(taken + 1)
    <3>1. 1..taken' = 1..taken \union {taken + 1}
      BY <2>2
    <3> QED
      BY <2>3, <3>1
  <2>5. BestSoFar'
    BY <2>2, <2>4 DEF BestSoFar
  <2>6. Exhausted'
    BY <2>2 DEF Exhausted
  <2> QED
    BY <2>1, <2>5, <2>6
<1>2. CASE Return
  <2> USE <1>2 DEF Return
  <2>1. WindowsType'
    BY DEF WindowsType
  <2>2. \A k \in 1..taken : Holds(k)' <=> Holds(k)
    BY HoldsUnchanged DEF WindowsType
  <2>3. BestSoFar'
    BY <2>2 DEF BestSoFar
  <2>4. Exhausted'
    BY DEF Exhausted, HasWindow, Start
  <2> QED
    BY <2>1, <2>3, <2>4
<1>3. CASE PassFails
  BY <1>3 DEF PassFails, WindowsType, BestSoFar, Exhausted
<1>4. CASE UNCHANGED vars
  <2> USE <1>4 DEF vars
  <2>1. \A k \in 1..taken : Holds(k)' <=> Holds(k)
    BY HoldsUnchanged DEF WindowsType
  <2>2. BestSoFar'
    BY <2>1 DEF BestSoFar
  <2> QED
    BY <2>2 DEF WindowsType, Exhausted, HasWindow, Start
<1> QED
  BY <1>1, <1>2, <1>3, <1>4 DEF Next

(* The window of the stride the phrase starts in holds it.                 *)
LEMMA WindowHolds ==
  ASSUME WindowsType, NEW q \in Nat,
         q * StrideChars <= phrase.at, phrase.at < (q + 1) * StrideChars,
         phrase.size + StrideChars <= WindowChars + 1,
         phrase.size + StrideChars <= fits + 1
  PROVE  Holds(q + 1)
<1> DEFINE edge == q * StrideChars
<1>1. edge \in Nat /\ StrideChars \in Nat /\ WindowChars \in Nat
  BY WindowsAssumption
<1>2. Start(q + 1) = edge
  BY <1>1 DEF Start
<1>3. edge <= phrase.at /\ phrase.at < edge + StrideChars
  BY <1>1
<1> HIDE DEF edge
<1> QED
  BY <1>1, <1>2, <1>3 DEF Holds, Seen, WindowsType

(* When no window is left, the stride the phrase starts in has had its one. *)
LEMMA StrideTaken ==
  ASSUME WindowsType, ~HasWindow(taken + 1), length > WindowChars,
         phrase.at < MaxWindows * StrideChars,
         NEW q \in Nat, q * StrideChars <= phrase.at
  PROVE  q + 1 \in 1..taken
<1> USE WindowsAssumption DEF WindowsType
<1>1. taken >= MaxWindows \/ length <= taken * StrideChars
  BY DEF HasWindow, Start
<1>2. phrase.at < taken * StrideChars
  <2>1. CASE length <= taken * StrideChars
    <3>1. taken * StrideChars \in Nat
      BY SMTT(30)
    <3>2. phrase.at < length
      OBVIOUS
    <3> QED
      BY <2>1, <3>1, <3>2
  <2>2. CASE taken >= MaxWindows
    <3>1. /\ MaxWindows * StrideChars <= taken * StrideChars
          /\ MaxWindows * StrideChars \in Nat /\ taken * StrideChars \in Nat
      BY <2>2, SMTT(30)
    <3> QED
      BY <3>1
  <2> QED
    BY <1>1, <2>1, <2>2
<1>3. q < taken
  <2> SUFFICES ASSUME taken <= q PROVE FALSE
    OBVIOUS
  <2>1. taken * StrideChars <= q * StrideChars
    BY SMTT(30)
  <2>2. q * StrideChars \in Nat /\ taken * StrideChars \in Nat
    BY SMTT(30)
  <2> QED
    BY <1>2, <2>1, <2>2
<1> QED
  BY <1>3

LEMMA SeamsCovered == WindowsInv => NoPhraseOnASeam
<1> SUFFICES ASSUME WindowsInv, stage = "scored",
                    length > WindowChars \/ phrase.at + phrase.size <= fits,
                    phrase.size + StrideChars <= WindowChars + 1,
                    phrase.size + StrideChars <= fits + 1,
                    phrase.at < MaxWindows * StrideChars
             PROVE  \E k \in 1..taken : Holds(k)
  BY DEF NoPhraseOnASeam, WindowsInv, BestSoFar
<1> USE DEF WindowsInv
<1>1. ~HasWindow(taken + 1)
  BY DEF Exhausted
<1>2. CASE length > WindowChars
  <2>1. PICK q \in Nat : q * StrideChars <= phrase.at
                         /\ phrase.at < (q + 1) * StrideChars
    BY StrideOf DEF WindowsType
  <2>2. Holds(q + 1)
    BY <2>1, WindowHolds
  <2>3. q + 1 \in 1..taken
    BY <1>1, <1>2, <2>1, StrideTaken
  <2> QED
    BY <2>2, <2>3
<1>3. CASE ~(length > WindowChars)
  <2>1. 1 \in 1..taken
    <3>1. taken + 1 # 1 \/ 1 > MaxWindows
      BY <1>1, <1>3, WindowsAssumption DEF HasWindow, WindowsType
    <3> QED
      BY <3>1, WindowsAssumption DEF WindowsType
  <2>2. Start(1) = 0
    BY WindowsAssumption DEF Start
  <2>3. Holds(1)
    BY <1>3, <2>2, WindowsAssumption DEF Holds, Seen, WindowsType
  <2> QED
    BY <2>1, <2>3
<1> QED
  BY <1>2, <1>3

(* For every choice of window, stride and limit, no phrase short enough    *)
(* for the overlap is lost on a seam of classifier.py's _windows.          *)
THEOREM NoSeam == Spec => []NoPhraseOnASeam
<1>1. Spec => []WindowsInv
  BY WindowsStart, WindowsStep, PTL DEF Spec
<1> QED
  BY <1>1, SeamsCovered, PTL

-----------------------------------------------------------------------------
(***************************************************************************)
(* ReadyMeansUsable and DegradedVerdict for any texts, any number of them  *)
(* and any thresholds above 0.  What the second needs is that a model that *)
(* failed is out for good: it holds nothing and says 0 of every text.      *)
(***************************************************************************)

(* Similarities are hundredths.                                            *)
TextsType == Texts \subseteq [Models -> Nat]

(* A threshold of 0 would take an unavailable model for a hit.             *)
ThresholdsPositive == ThresholdInjection > 0 /\ ThresholdJailbreak > 0

ModelsType ==
  /\ holds \in [Models -> SUBSET Parts]
  /\ prompt \in [Models -> Nat]
  /\ score \in [Models -> Nat]

(* The document encoder is only loaded once and has no flag of this kind.  *)
FailedIsSilent ==
  /\ failed \subseteq Models \ {"documents"}
  /\ \A m \in failed : holds[m] = {} /\ score[m] = 0

ModelsInv == ModelsType /\ ReadyMeansUsable /\ FailedIsSilent

LEMMA ModelsStart == TextsType /\ ModelsInit => ModelsInv
<1> SUFFICES ASSUME TextsType, ModelsInit PROVE ModelsInv
  OBVIOUS
<1>1. ModelsType /\ FailedIsSilent
  BY DEF ModelsInit, TextsType, ModelsType, FailedIsSilent
<1>2. ReadyMeansUsable
  BY DEF ModelsInit, ReadyMeansUsable, Ready, Models, Parts, Scopes
<1> QED
  BY <1>1, <1>2 DEF ModelsInv

(* An empty model does not pass for loaded, a whole one does.              *)
LEMMA ReadyOfWhole ==
  ASSUME NEW m \in Models
  PROVE  /\ holds[m] = {} => ~Ready(m)
         /\ holds[m] = Parts => Ready(m)
BY DEF Ready, Models, Scopes, Parts

-----------------------------------------------------------------------------
(* Loading a model, wholly or not at all, keeps the invariant, and so does *)
(* whatever it then says of a text, if a failed one says 0.                *)
LEMMA LoadKeeps ==
  ASSUME ModelsInv, NEW m \in Models, ~Ready(m),
         \/ Loads(m) /\ m \notin failed
         \/ \E reached \in Reached : LoadFails(m, reached)
  PROVE  /\ holds' \in [Models -> SUBSET Parts]
         /\ ReadyMeansUsable'
         /\ \A k \in failed' \ {m} : k \in failed /\ holds'[k] = holds[k]
         /\ m \in failed' => holds'[m] = {}
<1>1. holds \in [Models -> SUBSET Parts]
  BY DEF ModelsInv, ModelsType
<1>2. CASE Loads(m) /\ m \notin failed
  <2>1. holds' = [holds EXCEPT ![m] = Parts] /\ failed' = failed
    BY <1>2 DEF Loads
  <2>2. ReadyMeansUsable'
    BY <1>1, <2>1 DEF ModelsInv, ReadyMeansUsable, Ready, Models, Scopes, Parts
  <2> QED
    BY <1>1, <1>2, <2>1, <2>2
<1>3. CASE \E reached \in Reached : LoadFails(m, reached)
  <2>1. holds' = [holds EXCEPT ![m] = {}] /\ failed' \subseteq failed \union {m}
    BY <1>3 DEF LoadFails, AfterFailure
  <2>2. ReadyMeansUsable'
    BY <1>1, <2>1 DEF ModelsInv, ReadyMeansUsable, Ready, Models, Scopes, Parts
  <2> QED
    BY <1>1, <2>1, <2>2
<1> QED
  BY <1>2, <1>3

(* The step that asks a model, by the outcome of the asking.               *)
LEMMA AskKeeps ==
  ASSUME TextsType, ModelsInv, NEW m \in Models,
         Scores(m) \/ GivesNothing(m) \/ FirstUse(m) \/ FirstUseFails(m) \/ Unavailable(m)
  PROVE  ModelsInv'
<1> USE DEF ModelsInv, ModelsType
<1>1. CASE Scores(m)
  <2>1. holds' = holds /\ failed' = failed /\ prompt' = prompt
    BY <1>1 DEF Scores, Gives
  <2>2. score' = [score EXCEPT ![m] = If(holds[m] = Parts, prompt[m])]
    BY <1>1 DEF Scores, Gives
  <2>3. m \notin failed
    BY <1>1, ReadyOfWhole DEF Scores, FailedIsSilent
  <2>4. If(holds[m] = Parts, prompt[m]) \in Nat
    BY DEF If
  <2>5. ModelsType' /\ FailedIsSilent'
    BY <2>1, <2>2, <2>3, <2>4 DEF FailedIsSilent
  <2> QED
    BY <2>1, <2>5 DEF ReadyMeansUsable, Ready
<1>2. CASE GivesNothing(m) \/ Unavailable(m)
  <2>1. holds' = holds /\ failed' = failed /\ prompt' = prompt
    BY <1>2 DEF GivesNothing, Unavailable, Gives
  <2>2. score' = [score EXCEPT ![m] = 0]
    BY <1>2 DEF GivesNothing, Unavailable, Gives
  <2>3. ModelsType' /\ FailedIsSilent'
    BY <2>1, <2>2 DEF FailedIsSilent
  <2> QED
    BY <2>1, <2>3 DEF ReadyMeansUsable, Ready
<1>3. CASE FirstUse(m)
  <2>1. prompt' = prompt /\ score' = [score EXCEPT ![m] = prompt[m]] /\ m \notin failed
    BY <1>3 DEF FirstUse, Gives
  <2>2. /\ holds' \in [Models -> SUBSET Parts] /\ ReadyMeansUsable'
        /\ \A k \in failed' \ {m} : k \in failed /\ holds'[k] = holds[k]
    BY <1>3, LoadKeeps DEF FirstUse
  <2>3. failed' = failed
    BY <1>3 DEF FirstUse, Loads
  <2>4. FailedIsSilent'
    BY <2>1, <2>2, <2>3 DEF FailedIsSilent
  <2> QED
    BY <2>1, <2>2, <2>4
<1>4. CASE FirstUseFails(m)
  <2>1. prompt' = prompt /\ score' = [score EXCEPT ![m] = 0]
    BY <1>4 DEF FirstUseFails, Gives
  <2>2. /\ holds' \in [Models -> SUBSET Parts] /\ ReadyMeansUsable'
        /\ \A k \in failed' \ {m} : k \in failed /\ holds'[k] = holds[k]
        /\ m \in failed' => holds'[m] = {}
    BY <1>4, LoadKeeps DEF FirstUseFails
  <2>3. failed' \subseteq Models \ {"documents"}
    BY <1>4, <2>2 DEF FirstUseFails, FailedIsSilent
  <2>4. \A k \in failed' : holds'[k] = {} /\ score'[k] = 0
    BY <2>1, <2>2, <2>3 DEF FailedIsSilent
  <2>5. FailedIsSilent'
    BY <2>3, <2>4 DEF FailedIsSilent
  <2> QED
    BY <2>1, <2>2, <2>5
<1> QED
  BY <1>1, <1>2, <1>3, <1>4

LEMMA ModelsStep == TextsType /\ ModelsInv /\ [ModelsNext]_allModelsVars => ModelsInv'
<1> SUFFICES ASSUME TextsType, ModelsInv, [ModelsNext]_allModelsVars PROVE ModelsInv'
  OBVIOUS
<1>1. CASE Import
  <2>1. prompt' = prompt /\ score' = score /\ failed' = failed
    BY <1>1 DEF Import, Loads, LoadFails
  <2>2. PICK kept \in {{}, Parts} : holds' = [holds EXCEPT !["documents"] = kept]
    BY <1>1 DEF Import, Loads, LoadFails, AfterFailure
  <2>3. holds \in [Models -> SUBSET Parts]
    BY DEF ModelsInv, ModelsType
  <2>4. ModelsType'
    BY <2>1, <2>2, <2>3 DEF ModelsInv, ModelsType
  <2>5. FailedIsSilent'
    BY <2>1, <2>2, <2>3 DEF ModelsInv, FailedIsSilent
  <2>6. ReadyMeansUsable'
    BY <2>2, <2>3 DEF ModelsInv, ReadyMeansUsable, Ready, Models, Scopes, Parts
  <2> QED
    BY <2>4, <2>5, <2>6 DEF ModelsInv
<1>2. CASE NextText
  <2>1. /\ prompt' \in Texts /\ score' = [m \in Models |-> 0]
        /\ holds' = holds /\ failed' = failed
    BY <1>2 DEF NextText
  <2>2. ModelsType' /\ FailedIsSilent'
    BY <2>1 DEF TextsType, ModelsInv, ModelsType, FailedIsSilent
  <2> QED
    BY <2>1, <2>2 DEF ModelsInv, ReadyMeansUsable, Ready
<1>3. ASSUME NEW m \in Models,
             Scores(m) \/ GivesNothing(m) \/ FirstUse(m) \/ FirstUseFails(m) \/ Unavailable(m)
      PROVE  ModelsInv'
  BY <1>3, AskKeeps
<1>4. CASE UNCHANGED allModelsVars
  BY <1>4 DEF allModelsVars, ModelsInv, ModelsType, FailedIsSilent, ReadyMeansUsable, Ready
<1> QED
  BY <1>1, <1>2, <1>3, <1>4 DEF ModelsNext

-----------------------------------------------------------------------------
(* With one scope silent, the verdict is the other's.                      *)
LEMMA SilentScope ==
  ASSUME ThresholdsPositive, ModelsInv, NEW lost \in Scopes \intersect failed,
         NEW other \in Scopes \ {lost}
  PROVE  Verdict.detected <=> score[other] >= Threshold(other)
<1>1. score[lost] = 0 /\ score[other] \in Nat
  BY DEF ModelsInv, ModelsType, FailedIsSilent, Models
<1>2. ThresholdInjection \in Nat /\ ThresholdJailbreak \in Nat
  BY ThresholdAssumption
<1>3. CASE lost = "injection" /\ other = "jailbreak"
  BY <1>1, <1>2, <1>3 DEF Verdict, SemanticVerdict, Threshold, ThresholdsPositive
<1>4. CASE lost = "jailbreak" /\ other = "injection"
  BY <1>1, <1>2, <1>4 DEF Verdict, SemanticVerdict, Threshold, ThresholdsPositive
<1> QED
  BY <1>3, <1>4 DEF Scopes

(* A half-loaded model never passes for a loaded one (_ensure).            *)
THEOREM LoadedModelsUsable == TextsType => (ModelsSpec => []ReadyMeansUsable)
<1> SUFFICES ASSUME TextsType PROVE ModelsSpec => []ReadyMeansUsable
  OBVIOUS
<1>1. ModelsInit => ModelsInv
  BY ModelsStart
<1>2. ModelsInv /\ [ModelsNext]_allModelsVars => ModelsInv'
  BY ModelsStep
<1>3. ModelsInv => ReadyMeansUsable
  BY DEF ModelsInv
<1> QED
  BY <1>1, <1>2, <1>3, PTL DEF ModelsSpec

(* A scope that failed to load never silences the other                    *)
(* (semantic_verdict).                                                     *)
THEOREM LostScopeHarmless ==
  TextsType /\ ThresholdsPositive => (ModelsSpec => []DegradedVerdict)
<1> SUFFICES ASSUME TextsType, ThresholdsPositive PROVE ModelsSpec => []DegradedVerdict
  OBVIOUS
<1>1. ModelsInit => ModelsInv
  BY ModelsStart
<1>2. ModelsInv /\ [ModelsNext]_allModelsVars => ModelsInv'
  BY ModelsStep
<1>3. ModelsInv => DegradedVerdict
  BY SilentScope DEF DegradedVerdict
<1> QED
  BY <1>1, <1>2, <1>3, PTL DEF ModelsSpec

-----------------------------------------------------------------------------
(***************************************************************************)
(* FoundAsRead for any texts and any lists of phrases.  The expression     *)
(* compares a phrase with a text fragment by fragment, a reader word by    *)
(* word.  Laid over the text from a fragment on, where a word begins, the  *)
(* two agree on where words begin and end exactly when their words are as  *)
(* long, one after the other: both say that the bounds of the phrase, that *)
(* far on, are bounds of the text, with none in between.                   *)
(***************************************************************************)

Fragments == [fragment : STRING, spaced : BOOLEAN]

(* A phrase p laid over a text t from its fragment i on, where word j of t *)
(* begins: edges lie on edges, bounds on bounds, and words are as long.    *)
BeginsAt(t, i, j) == Bounds(t)[j] = i
EdgesAgree(t, p, i) ==
  \A k \in 1..(Len(p) + 1) : k \in Edges(p) <=> i + k - 1 \in Edges(t)
BoundsAgree(t, p, i, j) ==
  \A w \in 1..Cardinality(Edges(p)) :
    /\ j + w - 1 \in 1..Cardinality(Edges(t))
    /\ Bounds(t)[j + w - 1] = i + Bounds(p)[w] - 1
LengthsAgree(t, p, j) ==
  /\ j + Cardinality(Edges(p)) - 1 <= Cardinality(Edges(t))
  /\ \A w \in 1..(Cardinality(Edges(p)) - 1) :
       Bounds(t)[j + w] - Bounds(t)[j + w - 1] = Bounds(p)[w + 1] - Bounds(p)[w]

(* The first edge of a text is 1 and the last one behind its end, and each *)
(* stands where Bounds puts it.                                            *)
LEMMA BoundsAre ==
  ASSUME NEW t \in Seq(Fragments)
  PROVE  /\ Len(t) \in Nat /\ Edges(t) \in SUBSET (1..(Len(t) + 1))
         /\ Edges(t) \in SUBSET Nat
         /\ 1 \in Edges(t) /\ Len(t) + 1 \in Edges(t)
         /\ Cardinality(Edges(t)) \in Nat \ {0}
         /\ Bounds(t) \in [1..Cardinality(Edges(t)) -> Edges(t)]
         /\ Len(Bounds(t)) = Cardinality(Edges(t))
         /\ \A i \in Edges(t) : \E w \in 1..Cardinality(Edges(t)) : Bounds(t)[w] = i
         /\ \A v, w \in 1..Cardinality(Edges(t)) : v < w <=> Bounds(t)[v] < Bounds(t)[w]
         /\ Bounds(t)[1] = 1 /\ Bounds(t)[Cardinality(Edges(t))] = Len(t) + 1
<1> DEFINE S == Edges(t)
           N == Cardinality(S)
           b == Bounds(t)
<1>1. Len(t) \in Nat /\ S \in SUBSET (1..(Len(t) + 1)) /\ 1 \in S /\ Len(t) + 1 \in S
  BY DEF Edges
<1>2. /\ N \in Nat /\ b \in [1..N -> S] /\ Len(b) = N
      /\ \A i \in S : \E w \in 1..N : b[w] = i
      /\ \A v, w \in 1..N : v < w <=> b[v] < b[w]
  <2> HIDE DEF S
  <2>1. Len(t) + 1 \in Nat
    BY <1>1
  <2> QED
    BY <1>1, <2>1, SortedIs DEF Bounds, S
<1> HIDE DEF S, N, b
<1>3. PICK v \in 1..N : b[v] = 1
  BY <1>1, <1>2
<1>4. PICK w \in 1..N : b[w] = Len(t) + 1
  BY <1>1, <1>2
<1>5. N \in Nat \ {0} /\ b[1] = 1
  <2>1. N \in Nat \ {0} /\ 1 \in 1..N
    BY <1>2, <1>3
  <2>2. b[1] \in 1..(Len(t) + 1)
    BY <1>1, <1>2, <2>1
  <2>3. ~(1 < v)
    <3> SUFFICES ASSUME 1 < v PROVE FALSE
      OBVIOUS
    <3>1. b[1] < b[v]
      BY <1>2, <1>3, <2>1
    <3> QED
      BY <1>3, <2>2, <3>1
  <2> QED
    BY <1>3, <2>1, <2>3
<1>6. b[N] = Len(t) + 1
  <2>1. N \in 1..N
    BY <1>5
  <2>2. b[N] \in 1..(Len(t) + 1)
    BY <1>1, <1>2, <2>1
  <2>3. ~(w < N)
    <3> SUFFICES ASSUME w < N PROVE FALSE
      OBVIOUS
    <3>1. b[w] < b[N]
      BY <1>2, <1>4, <2>1
    <3> QED
      BY <1>1, <1>4, <2>2, <3>1
  <2> QED
    BY <1>2, <1>4, <2>3
<1>7. S \in SUBSET Nat
  BY <1>1
<1> QED
  BY <1>1, <1>2, <1>5, <1>6, <1>7 DEF S, N, b

(* The words of a text, by its bounds.                                     *)
LEMMA WordsAre ==
  ASSUME NEW t \in Seq(Fragments)
  PROVE  /\ DOMAIN Words(t) = 1..(Cardinality(Edges(t)) - 1)
         /\ Len(Words(t)) = Cardinality(Edges(t)) - 1
         /\ \A w \in 1..(Cardinality(Edges(t)) - 1) :
              /\ DOMAIN Words(t)[w] = 1..(Bounds(t)[w + 1] - Bounds(t)[w])
              /\ Len(Words(t)[w]) = Bounds(t)[w + 1] - Bounds(t)[w]
              /\ \A k \in 1..(Bounds(t)[w + 1] - Bounds(t)[w]) :
                   Words(t)[w][k] = t[Bounds(t)[w] + k - 1].fragment
<1> DEFINE N == Cardinality(Edges(t))
           b == Bounds(t)
           M == N - 1
<1>1. /\ N \in Nat \ {0} /\ b \in [1..N -> Nat] /\ Len(b) = N
      /\ \A v, w \in 1..N : v < w <=> b[v] < b[w]
  <2>1. Edges(t) \in SUBSET Nat
    BY BoundsAre
  <2> QED
    BY BoundsAre, <2>1
<1>2. Words(t) = [w \in 1..M |->
                   [k \in 1..(b[w + 1] - b[w]) |-> t[b[w] + k - 1].fragment]]
  BY <1>1 DEF Words
<1> HIDE DEF N, b
<1>3. M \in Nat
  BY <1>1
<1>4. DOMAIN Words(t) = 1..M /\ Len(Words(t)) = M
  <2> HIDE DEF M
  <2> QED
    BY <1>2, <1>3
<1>5. ASSUME NEW w \in 1..M
      PROVE  /\ DOMAIN Words(t)[w] = 1..(b[w + 1] - b[w])
             /\ Len(Words(t)[w]) = b[w + 1] - b[w]
             /\ \A k \in 1..(b[w + 1] - b[w]) : Words(t)[w][k] = t[b[w] + k - 1].fragment
  <2> DEFINE L == b[w + 1] - b[w]
  <2>1. w \in 1..N /\ w + 1 \in 1..N /\ w < w + 1
    BY <1>1
  <2>2. b[w] \in Nat /\ b[w + 1] \in Nat /\ b[w] < b[w + 1]
    BY <1>1, <2>1
  <2>3. L \in Nat
    BY <2>2
  <2>4. Words(t)[w] = [k \in 1..L |-> t[b[w] + k - 1].fragment]
    BY <1>2
  <2> HIDE DEF L
  <2>5. DOMAIN Words(t)[w] = 1..L /\ Len(Words(t)[w]) = L
        /\ \A k \in 1..L : Words(t)[w][k] = t[b[w] + k - 1].fragment
    BY <2>3, <2>4
  <2> QED
    BY <2>5 DEF L
<1> QED
  BY <1>4, <1>5 DEF N, b

-----------------------------------------------------------------------------
(* Where a phrase's edges are edges of the text, its bounds are bounds.    *)
LEMMA EdgesToBounds ==
  ASSUME NEW t \in Seq(Fragments), NEW p \in Seq(Fragments),
         NEW j \in 1..Cardinality(Edges(t)), NEW i \in Nat, BeginsAt(t, i, j),
         EdgesAgree(t, p, i)
  PROVE  BoundsAgree(t, p, i, j)
<1> DEFINE S == Edges(t)
           T == Edges(p)
           N == Cardinality(S)
           M == Cardinality(T)
           b == Bounds(t)
           c == Bounds(p)
           n == Len(p)
           Good(w) == j + w - 1 \in 1..N /\ b[j + w - 1] = i + c[w] - 1
           Bad == {w \in 1..M : ~Good(w)}
<1>1. /\ S \in SUBSET Nat /\ N \in Nat \ {0} /\ b \in [1..N -> S]
      /\ \A x \in S : \E w \in 1..N : b[w] = x
      /\ \A v, w \in 1..N : v < w <=> b[v] < b[w]
  <2>1. S \in SUBSET Nat
    BY BoundsAre
  <2>2. /\ N \in Nat \ {0} /\ b \in [1..N -> S]
        /\ \A x \in S : \E w \in 1..N : b[w] = x
        /\ \A v, w \in 1..N : v < w <=> b[v] < b[w]
    BY BoundsAre
  <2> QED
    BY <2>1, <2>2
<1>2. /\ n \in Nat /\ T \in SUBSET (1..(n + 1)) /\ M \in Nat \ {0} /\ c \in [1..M -> T]
      /\ \A x \in T : \E w \in 1..M : c[w] = x
      /\ \A v, w \in 1..M : v < w <=> c[v] < c[w]
      /\ c[1] = 1
  BY BoundsAre
<1>3. \A k \in 1..(n + 1) : k \in T <=> i + k - 1 \in S
  BY DEF EdgesAgree
<1>4. i = b[j] /\ j \in 1..N
  BY DEF BeginsAt
<1> HIDE DEF S, T, N, M, b, c, n
<1> SUFFICES Bad = {}
  BY DEF S, T, N, M, b, c, BoundsAgree
<1> SUFFICES ASSUME Bad # {} PROVE FALSE
  OBVIOUS
<1>5. PICK w \in Bad : \A y \in Bad : w <= y
  <2>1. Bad \in SUBSET Nat
    BY <1>2
  <2> HIDE DEF Bad
  <2> QED
    BY <2>1, LeastOf
<1>6. w \in 1..M /\ ~Good(w) /\ \A y \in 1..M : y < w => Good(y)
  BY <1>2, <1>5
<1>7. w # 1
  BY <1>1, <1>2, <1>4
<1> DEFINE u == w - 1
           g == j + u - 1
<1>8. u \in 1..M /\ u < w /\ w = u + 1 /\ u \in Nat
  BY <1>2, <1>6, <1>7
<1>9. g \in 1..N /\ b[g] = i + c[u] - 1 /\ g + 1 = j + w - 1
  BY <1>1, <1>4, <1>6, <1>8
<1> HIDE DEF u, g
<1>10. c[u] \in 1..(n + 1) /\ c[w] \in 1..(n + 1) /\ c[u] < c[w] /\ c[w] \in T
  BY <1>2, <1>6, <1>8
<1>11. i + c[w] - 1 \in S
  BY <1>3, <1>10
<1>12. PICK q \in 1..N : b[q] = i + c[w] - 1
  BY <1>1, <1>11
<1>13. g < q
  <2> DEFINE d == c[u]
             e == c[w]
  <2>0. d \in Nat /\ e \in Nat /\ d < e
    <3>1. n \in Nat /\ d \in 1..(n + 1) /\ e \in 1..(n + 1) /\ d < e
      BY <1>2, <1>10
    <3> HIDE DEF d, e
    <3> QED
      BY <3>1
  <2>1. b[g] = i + d - 1 /\ b[q] = i + e - 1
    BY <1>9, <1>12
  <2> HIDE DEF d, e
  <2>2. b[g] < b[q]
    BY <2>0, <2>1
  <2> QED
    BY <1>1, <1>9, <1>12, <2>2
<1>14. g + 1 \in 1..N
  BY <1>1, <1>9, <1>13
<1>15. q # g + 1
  BY <1>6, <1>9, <1>12, <1>14
<1>16. g < g + 1 /\ g + 1 < q
  BY <1>1, <1>9, <1>13, <1>15
<1> DEFINE x == b[g + 1]
           k == x - i + 1
<1>17. x \in S /\ x \in Nat /\ b[g] < x /\ x < b[q]
  BY <1>1, <1>9, <1>12, <1>14, <1>16
<1> HIDE DEF x
<1>18. k \in 1..(n + 1) /\ c[u] < k /\ k < c[w] /\ i + k - 1 = x
  <2> DEFINE d == c[u]
             e == c[w]
             y == b[g]
             z == b[q]
  <2>1. /\ n \in Nat /\ d \in 1..(n + 1) /\ e \in 1..(n + 1)
        /\ y = i + d - 1 /\ z = i + e - 1 /\ x \in Nat /\ y < x /\ x < z
    BY <1>2, <1>9, <1>10, <1>12, <1>17
  <2> HIDE DEF d, e, y, z
  <2>2. k \in 1..(n + 1) /\ d < k /\ k < e /\ i + k - 1 = x
    BY <2>1
  <2> QED
    BY <2>2 DEF d, e
<1> HIDE DEF k
<1>19. k \in T
  BY <1>3, <1>17, <1>18
<1>20. PICK v \in 1..M : c[v] = k
  BY <1>2, <1>19
<1>21. u < v /\ v < w
  BY <1>2, <1>6, <1>8, <1>18, <1>20
<1> QED
  BY <1>2, <1>8, <1>20, <1>21

(* Where as many words in a row are as long as the phrase's, the bounds    *)
(* agree ...                                                               *)
LEMMA LengthsToBounds ==
  ASSUME NEW t \in Seq(Fragments), NEW p \in Seq(Fragments),
         NEW j \in 1..Cardinality(Edges(t)), NEW i \in Nat, BeginsAt(t, i, j),
         LengthsAgree(t, p, j)
  PROVE  BoundsAgree(t, p, i, j)
<1> DEFINE N == Cardinality(Edges(t))
           M == Cardinality(Edges(p))
           b == Bounds(t)
           c == Bounds(p)
           Good(w) == b[j + w - 1] = i + c[w] - 1
           Bad == {w \in 1..M : ~Good(w)}
<1>1. N \in Nat \ {0} /\ b \in [1..N -> Nat]
  <2>1. Edges(t) \in SUBSET Nat
    BY BoundsAre
  <2> QED
    BY <2>1, BoundsAre
<1>2. M \in Nat \ {0} /\ c \in [1..M -> Nat] /\ c[1] = 1
  <2>1. Edges(p) \in SUBSET Nat
    BY BoundsAre
  <2> QED
    BY <2>1, BoundsAre
<1>3. /\ i = b[j] /\ j \in 1..N /\ j + M - 1 <= N
      /\ \A w \in 1..(M - 1) : b[j + w] - b[j + w - 1] = c[w + 1] - c[w]
  BY DEF LengthsAgree, BeginsAt
<1> HIDE DEF N, M, b, c
<1> SUFFICES Bad = {}
  <2>1. \A w \in 1..M : j + w - 1 \in 1..N
    BY <1>1, <1>2, <1>3
  <2> QED
    BY <2>1 DEF N, M, b, c, BoundsAgree
<1> SUFFICES ASSUME Bad # {} PROVE FALSE
  OBVIOUS
<1>4. PICK w \in Bad : \A y \in Bad : w <= y
  <2>1. Bad \in SUBSET Nat
    BY <1>2
  <2> HIDE DEF Bad
  <2> QED
    BY <2>1, LeastOf
<1>5. w \in 1..M /\ ~Good(w) /\ \A y \in 1..M : y < w => Good(y)
  BY <1>2, <1>4
<1>6. w # 1
  BY <1>1, <1>2, <1>3, <1>5
<1> DEFINE u == w - 1
<1>7. u \in 1..(M - 1) /\ u < w /\ w = u + 1 /\ u \in 1..M
  BY <1>2, <1>5, <1>6
<1> HIDE DEF u
<1>8. b[j + u - 1] = i + c[u] - 1 /\ b[j + u] - b[j + u - 1] = c[u + 1] - c[u]
  BY <1>3, <1>5, <1>7
<1>9. j + w - 1 = j + u /\ j + u \in 1..N /\ j + u - 1 \in 1..N
  BY <1>1, <1>2, <1>3, <1>7
<1>10. b[j + u] \in Nat /\ b[j + u - 1] \in Nat /\ c[u + 1] \in Nat /\ c[u] \in Nat
  BY <1>1, <1>2, <1>5, <1>7, <1>9
<1>11. b[j + u] = i + c[u + 1] - 1
  <2> DEFINE y == b[j + u]
             x == b[j + u - 1]
             d == c[u]
             e == c[u + 1]
  <2>1. y \in Nat /\ x \in Nat /\ d \in Nat /\ e \in Nat /\ x = i + d - 1 /\ y - x = e - d
    BY <1>8, <1>10
  <2> HIDE DEF y, x, d, e
  <2>2. y = i + e - 1
    BY <2>1
  <2> QED
    BY <2>2 DEF y, e
<1> QED
  BY <1>5, <1>7, <1>9, <1>11

(* ... and the phrase's edges are edges of the text there.                 *)
LEMMA BoundsToEdges ==
  ASSUME NEW t \in Seq(Fragments), NEW p \in Seq(Fragments),
         NEW j \in 1..Cardinality(Edges(t)), NEW i \in Nat, BeginsAt(t, i, j),
         BoundsAgree(t, p, i, j)
  PROVE  EdgesAgree(t, p, i)
<1> DEFINE S == Edges(t)
           T == Edges(p)
           N == Cardinality(S)
           M == Cardinality(T)
           b == Bounds(t)
           c == Bounds(p)
           n == Len(p)
<1>1. /\ S \in SUBSET Nat /\ N \in Nat \ {0} /\ b \in [1..N -> S]
      /\ \A x \in S : \E w \in 1..N : b[w] = x
      /\ \A v, w \in 1..N : v < w <=> b[v] < b[w]
  <2>1. S \in SUBSET Nat
    BY BoundsAre
  <2>2. /\ N \in Nat \ {0} /\ b \in [1..N -> S]
        /\ \A x \in S : \E w \in 1..N : b[w] = x
        /\ \A v, w \in 1..N : v < w <=> b[v] < b[w]
    BY BoundsAre
  <2> QED
    BY <2>1, <2>2
<1>2. /\ n \in Nat /\ T \in SUBSET (1..(n + 1)) /\ M \in Nat \ {0} /\ c \in [1..M -> T]
      /\ \A x \in T : \E w \in 1..M : c[w] = x
      /\ c[1] = 1 /\ c[M] = n + 1
  BY BoundsAre
<1>3. /\ i = b[j] /\ j \in 1..N /\ j + M - 1 <= N
      /\ \A w \in 1..M : b[j + w - 1] = i + c[w] - 1
  <2>1. M \in 1..M
    BY <1>2
  <2>2. \A w \in 1..M : j + w - 1 \in 1..N /\ b[j + w - 1] = i + c[w] - 1
    BY DEF BoundsAgree
  <2> QED
    BY <1>1, <2>1, <2>2 DEF BeginsAt
<1> HIDE DEF S, T, N, M, b, c, n
<1> SUFFICES ASSUME NEW k \in 1..(n + 1) PROVE k \in T <=> i + k - 1 \in S
  BY DEF S, T, n, EdgesAgree
<1>4. ASSUME k \in T PROVE i + k - 1 \in S
  <2>1. PICK w \in 1..M : c[w] = k
    BY <1>2, <1>4
  <2>2. j + w - 1 \in 1..N
    BY <1>1, <1>2, <1>3
  <2> QED
    BY <1>1, <1>3, <2>1, <2>2
<1>5. ASSUME i + k - 1 \in S PROVE k \in T
  <2>1. PICK q \in 1..N : b[q] = i + k - 1
    BY <1>1, <1>5
  <2>2. j <= q
    <3> SUFFICES ASSUME q < j PROVE FALSE
      BY <1>1
    <3>1. b[q] < b[j]
      BY <1>1, <1>3
    <3> QED
      BY <1>2, <1>3, <2>1, <3>1
  <2>3. q <= j + M - 1
    <3> DEFINE e == j + M - 1
    <3>1. e \in 1..N /\ b[e] = i + n
      BY <1>1, <1>2, <1>3
    <3> HIDE DEF e
    <3> SUFFICES ASSUME e < q PROVE FALSE
      BY <1>1, <1>2, <3>1 DEF e
    <3>2. b[e] < b[q]
      BY <1>1, <3>1
    <3> QED
      BY <1>2, <2>1, <3>1, <3>2
  <2> DEFINE w == q - j + 1
  <2>4. w \in 1..M /\ j + w - 1 = q
    BY <1>1, <1>2, <1>3, <2>2, <2>3
  <2> HIDE DEF w
  <2>5. c[w] \in T /\ c[w] \in Nat /\ i + c[w] - 1 = i + k - 1
    <3>1. c[w] \in T /\ T \in SUBSET (1..(n + 1))
      BY <1>2, <2>4
    <3>2. b[j + w - 1] = i + c[w] - 1
      BY <1>3, <2>4
    <3>3. c[w] \in Nat
      <4>1. c[w] \in 1..(n + 1)
        BY <3>1, Zenon
      <4> QED
        BY <4>1
    <3>4. b[q] = i + c[w] - 1
      BY <2>4, <3>2
    <3> QED
      BY <2>1, <3>1, <3>3, <3>4
  <2>6. c[w] = k
    BY <2>5
  <2> QED
    BY <2>5, <2>6
<1> QED
  BY <1>4, <1>5
-----------------------------------------------------------------------------
(* What the expression asks at fragment i, by edges.                       *)
LEMMA MatchesByEdges ==
  ASSUME NEW t \in Seq(Fragments), NEW ph, ph.parts \in Seq(Fragments) \ {<<>>},
         NEW i \in 1..Len(t)
  PROVE  MatchesAt(ph, t, i) <=>
           /\ i + Len(ph.parts) \in Edges(t)
           /\ EdgesAgree(t, ph.parts, i)
           /\ \A k \in 1..Len(ph.parts) :
                SameFragment(ph, ph.parts[k].fragment, t[i + k - 1].fragment)
<1> DEFINE p == ph.parts
           n == Len(p)
           l == Len(t)
           S == Edges(t)
           T == Edges(p)
           Same(k) == SameFragment(ph, p[k].fragment, t[i + k - 1].fragment)
<1>1. n \in Nat /\ l \in Nat /\ n >= 1 /\ i \in 1..l
  OBVIOUS
<1>2. S = {x \in 1..(l + 1) : x = 1 \/ x = l + 1 \/ t[x].spaced}
  BY DEF Edges
<1>3. T = {x \in 1..(n + 1) : x = 1 \/ x = n + 1 \/ p[x].spaced}
  BY DEF Edges
<1>4. EdgesAgree(t, p, i) <=> \A k \in 1..(n + 1) : k \in T <=> i + k - 1 \in S
  BY DEF EdgesAgree
<1>5. MatchesAt(ph, t, i) <=>
        /\ i + n - 1 <= l
        /\ \A k \in 1..n : Same(k)
        /\ \A k \in 2..n : p[k].spaced = t[i + k - 1].spaced
        /\ i = 1 \/ t[i].spaced
        /\ i + n > l \/ t[i + n].spaced
  BY DEF MatchesAt
<1>6. /\ \A x \in 1..l : t[x].spaced \in BOOLEAN
      /\ \A x \in 1..n : p[x].spaced \in BOOLEAN
  <2>1. p \in Seq(Fragments)
    OBVIOUS
  <2> HIDE DEF p
  <2>2. \A x \in 1..n : p[x] \in Fragments
    BY <2>1
  <2>3. \A x \in 1..l : t[x] \in Fragments
    OBVIOUS
  <2>4. \A f \in Fragments : f.spaced \in BOOLEAN
    BY DEF Fragments
  <2> QED
    BY <2>2, <2>3, <2>4
<1> HIDE DEF p, n, l, S, T, Same
<1>7. ASSUME MatchesAt(ph, t, i)
      PROVE  i + n \in S /\ EdgesAgree(t, p, i) /\ \A k \in 1..n : Same(k)
  <2>0. i + n - 1 <= l /\ (i = 1 \/ t[i].spaced) /\ (i + n > l \/ t[i + n].spaced)
    BY <1>5, <1>7
  <2>1. i \in S /\ i + n \in S
    <3>1. i \in S
      BY <1>1, <1>2, <2>0
    <3>2. i + n \in 1..(l + 1) /\ (i + n > l => i + n = l + 1)
      BY <1>1, <2>0
    <3> QED
      BY <1>2, <2>0, <3>1, <3>2
  <2>2. ASSUME NEW k \in 1..(n + 1) PROVE k \in T <=> i + k - 1 \in S
    <3>1. CASE k = 1 \/ k = n + 1
      BY <1>1, <1>3, <2>1, <3>1
    <3>2. CASE k \in 2..n
      <4>1. p[k].spaced = t[i + k - 1].spaced
        BY <1>5, <1>7, <3>2
      <4>2. k \in T <=> p[k].spaced
        BY <1>1, <1>3, <3>2
      <4>3. i + n - 1 <= l
        BY <1>5, <1>7
      <4>4. i + k - 1 \in 2..l
        BY <1>1, <3>2, <4>3
      <4>5. i + k - 1 \in S <=> t[i + k - 1].spaced
        BY <1>1, <1>2, <4>4
      <4> QED
        BY <4>1, <4>2, <4>5
    <3> QED
      BY <1>1, <3>1, <3>2
  <2> QED
    BY <1>4, <1>5, <1>7, <2>1, <2>2
<1>8. ASSUME i + n \in S, EdgesAgree(t, p, i), \A k \in 1..n : Same(k)
      PROVE  MatchesAt(ph, t, i)
  <2>1. i + n - 1 <= l
    BY <1>1, <1>2, <1>8
  <2>2. 1 \in T /\ 1 \in 1..(n + 1)
    BY <1>1, <1>3
  <2>3. i \in S
    BY <1>1, <1>4, <1>8, <2>2
  <2>4. ASSUME NEW k \in 2..n PROVE p[k].spaced = t[i + k - 1].spaced
    <3>1. k \in T <=> p[k].spaced
      BY <1>1, <1>3
    <3>2. i + k - 1 \in 2..l
      BY <1>1, <2>1
    <3>3. i + k - 1 \in S <=> t[i + k - 1].spaced
      BY <1>1, <1>2, <3>2
    <3>4. k \in T <=> i + k - 1 \in S
      BY <1>1, <1>4, <1>8
    <3> QED
      BY <1>1, <1>6, <3>1, <3>2, <3>3, <3>4
  <2>5. i = 1 \/ t[i].spaced
    BY <1>1, <1>2, <2>3
  <2>6. i + n > l \/ t[i + n].spaced
    BY <1>1, <1>2, <1>8
  <2> QED
    BY <1>5, <1>8, <2>1, <2>4, <2>5, <2>6
<1> QED
  BY <1>7, <1>8 DEF p, n, S, Same

(* What a reader asks at word j, by bounds.                                *)
LEMMA ReadsByLengths ==
  ASSUME NEW t \in Seq(Fragments), NEW ph, ph.parts \in Seq(Fragments)
  PROVE  Reads(ph, Words(t)) <=>
           \E j \in 1..(Cardinality(Edges(t)) - 1) :
             /\ LengthsAgree(t, ph.parts, j)
             /\ \A w \in 1..(Cardinality(Edges(ph.parts)) - 1) :
                  \A k \in 1..(Bounds(ph.parts)[w + 1] - Bounds(ph.parts)[w]) :
                    SameFragment(ph, ph.parts[Bounds(ph.parts)[w] + k - 1].fragment,
                                 t[Bounds(t)[j + w - 1] + k - 1].fragment)
<1> DEFINE p == ph.parts
           N == Cardinality(Edges(t))
           M == Cardinality(Edges(p))
           b == Bounds(t)
           c == Bounds(p)
           words == Words(t)
           wanted == Words(p)
           Same(x, y) == SameFragment(ph, x, y)
           Alike(x, y) == Len(x) = Len(y) /\ \A k \in DOMAIN x : Same(x[k], y[k])
<1>1. N \in Nat \ {0} /\ M \in Nat \ {0}
  BY BoundsAre
<1>2. /\ DOMAIN words = 1..(N - 1) /\ Len(words) = N - 1
      /\ \A w \in 1..(N - 1) :
           /\ DOMAIN words[w] = 1..(b[w + 1] - b[w])
           /\ Len(words[w]) = b[w + 1] - b[w]
           /\ \A k \in 1..(b[w + 1] - b[w]) : words[w][k] = t[b[w] + k - 1].fragment
  BY WordsAre
<1>3. /\ DOMAIN wanted = 1..(M - 1) /\ Len(wanted) = M - 1
      /\ \A w \in 1..(M - 1) :
           /\ DOMAIN wanted[w] = 1..(c[w + 1] - c[w])
           /\ Len(wanted[w]) = c[w + 1] - c[w]
           /\ \A k \in 1..(c[w + 1] - c[w]) : wanted[w][k] = p[c[w] + k - 1].fragment
  BY WordsAre
<1>4. Reads(ph, words) <=>
        \E j \in DOMAIN words :
          /\ j + Len(wanted) - 1 <= Len(words)
          /\ \A w \in DOMAIN wanted : Alike(wanted[w], words[j + w - 1])
  BY DEF Reads
<1>5. \A j : LengthsAgree(t, p, j) <=>
        /\ j + M - 1 <= N
        /\ \A w \in 1..(M - 1) : b[j + w] - b[j + w - 1] = c[w + 1] - c[w]
  BY DEF LengthsAgree
<1> HIDE DEF p, N, M, b, c, words, wanted, Same
<1>6. ASSUME NEW j \in 1..(N - 1), NEW w \in 1..(M - 1), j + M - 1 <= N
      PROVE  Alike(wanted[w], words[j + w - 1]) <=>
               /\ b[j + w] - b[j + w - 1] = c[w + 1] - c[w]
               /\ \A k \in 1..(c[w + 1] - c[w]) :
                    Same(p[c[w] + k - 1].fragment, t[b[j + w - 1] + k - 1].fragment)
  <2> DEFINE v == j + w - 1
  <2>1. v \in 1..(N - 1) /\ v + 1 = j + w
    BY <1>1, <1>6
  <2> HIDE DEF v
  <2>2. /\ DOMAIN wanted[w] = 1..(c[w + 1] - c[w])
        /\ Len(wanted[w]) = c[w + 1] - c[w]
        /\ \A k \in 1..(c[w + 1] - c[w]) : wanted[w][k] = p[c[w] + k - 1].fragment
    BY <1>3
  <2>3. /\ Len(words[v]) = b[j + w] - b[v]
        /\ \A k \in 1..(b[j + w] - b[v]) : words[v][k] = t[b[v] + k - 1].fragment
    BY <1>2, <2>1
  <2> DEFINE L == c[w + 1] - c[w]
             K == b[j + w] - b[v]
  <2>4. Alike(wanted[w], words[v]) <=>
          /\ K = L
          /\ \A k \in 1..L : Same(p[c[w] + k - 1].fragment, t[b[v] + k - 1].fragment)
    <3> HIDE DEF L, K
    <3>1. DOMAIN wanted[w] = 1..L /\ Len(wanted[w]) = L /\ Len(words[v]) = K
      BY <2>2, <2>3 DEF L, K
    <3>2. \A k \in 1..L : wanted[w][k] = p[c[w] + k - 1].fragment
      BY <2>2 DEF L
    <3>3. \A k \in 1..K : words[v][k] = t[b[v] + k - 1].fragment
      BY <2>3 DEF K
    <3> QED
      BY <3>1, <3>2, <3>3, Zenon
  <2> QED
    BY <2>4 DEF v
<1>7. Reads(ph, words) <=>
        \E j \in 1..(N - 1) :
          /\ j + M - 1 <= N
          /\ \A w \in 1..(M - 1) : Alike(wanted[w], words[j + w - 1])
  <2> HIDE DEF Alike
  <2>1. \A j \in 1..(N - 1) : j + Len(wanted) - 1 <= Len(words) <=> j + M - 1 <= N
    BY <1>1, <1>2, <1>3
  <2> QED
    BY <1>2, <1>3, <1>4, <2>1
<1> DEFINE Row(j) ==
             \A w \in 1..(M - 1) : \A k \in 1..(c[w + 1] - c[w]) :
               Same(p[c[w] + k - 1].fragment, t[b[j + w - 1] + k - 1].fragment)
<1>8. ASSUME NEW j \in 1..(N - 1)
      PROVE  (/\ j + M - 1 <= N
              /\ \A w \in 1..(M - 1) : Alike(wanted[w], words[j + w - 1]))
             <=> LengthsAgree(t, p, j) /\ Row(j)
  <2> HIDE DEF Alike
  <2> QED
    BY <1>5, <1>6, Zenon
<1>9. Reads(ph, words) <=> \E j \in 1..(N - 1) : LengthsAgree(t, p, j) /\ Row(j)
  <2> HIDE DEF Alike, Row
  <2> QED
    BY <1>7, <1>8, Zenon
<1> QED
  BY <1>9 DEF p, N, M, b, c, words, Same

(* Fragment k of the word between bounds d and e of a phrase of n          *)
(* fragments, and where it lies in a text.                                 *)
LEMMA FragmentOfWord ==
  ASSUME NEW n \in Nat, NEW i \in Nat, NEW d \in 1..(n + 1), NEW e \in 1..(n + 1),
         NEW k \in Nat
  PROVE  /\ k \in 1..(e - d) => d + k - 1 \in 1..n
         /\ (i + d - 1) + k - 1 = i + (d + k - 1) - 1
         /\ d + (k - d + 1) - 1 = k
         /\ (i + d - 1) + (k - d + 1) - 1 = i + k - 1
OBVIOUS

(* The expression matches a phrase exactly where a reader reads it.        *)
LEMMA MatchesAsRead ==
  ASSUME NEW t \in Seq(Fragments), NEW ph, ph.parts \in Seq(Fragments) \ {<<>>}
  PROVE  (\E i \in DOMAIN t : MatchesAt(ph, t, i)) <=> Reads(ph, Words(t))
<1> DEFINE p == ph.parts
           n == Len(p)
           S == Edges(t)
           T == Edges(p)
           N == Cardinality(S)
           M == Cardinality(T)
           b == Bounds(t)
           c == Bounds(p)
           Same(k, x) == SameFragment(ph, p[k].fragment, t[x].fragment)
           Row(j) ==
             \A w \in 1..(M - 1) : \A k \in 1..(c[w + 1] - c[w]) :
               Same(c[w] + k - 1, b[j + w - 1] + k - 1)
<1>1. p \in Seq(Fragments) /\ n \in Nat /\ n >= 1
  OBVIOUS
<1>2. /\ Len(t) \in Nat /\ S \in SUBSET (1..(Len(t) + 1))
      /\ N \in Nat \ {0} /\ b \in [1..N -> S]
      /\ \A x \in S : \E w \in 1..N : b[w] = x
      /\ \A v, w \in 1..N : v < w <=> b[v] < b[w]
      /\ b[N] = Len(t) + 1
  BY BoundsAre
<1>3. /\ T \in SUBSET (1..(n + 1)) /\ M \in Nat \ {0} /\ c \in [1..M -> T]
      /\ \A v, w \in 1..M : v < w <=> c[v] < c[w]
      /\ c[1] = 1 /\ c[M] = n + 1
  <2> HIDE DEF p
  <2> QED
    BY <1>1, BoundsAre
<1>4. \A i \in 1..Len(t) :
        MatchesAt(ph, t, i) <=> /\ i + n \in S /\ EdgesAgree(t, p, i)
                                /\ \A k \in 1..n : Same(k, i + k - 1)
  BY MatchesByEdges
<1>5. Reads(ph, Words(t)) <=>
        \E j \in 1..(N - 1) : LengthsAgree(t, p, j) /\ Row(j)
  BY <1>1, ReadsByLengths
<1>6. DOMAIN t = 1..Len(t)
  OBVIOUS
<1>7. \A i \in Nat : \A j \in 1..N : BeginsAt(t, i, j) =>
        /\ EdgesAgree(t, p, i) <=> BoundsAgree(t, p, i, j)
        /\ LengthsAgree(t, p, j) => BoundsAgree(t, p, i, j)
  BY <1>1, EdgesToBounds, BoundsToEdges, LengthsToBounds
<1>8. M - 1 \in 1..M /\ n + 1 \in Nat
  <2>1. M # 1
    BY <1>1, <1>3
  <2> QED
    BY <1>1, <1>3, <2>1
<1> HIDE DEF p, n, S, T, N, M, b, c, Same
<1>9. \A i \in Nat, j \in 1..N : BoundsAgree(t, p, i, j) <=>
        \A w \in 1..M : j + w - 1 \in 1..N /\ b[j + w - 1] = i + c[w] - 1
  BY DEF BoundsAgree, N, M, b, c, S, T
<1>10. \A j \in 1..N : LengthsAgree(t, p, j) <=>
         /\ j + M - 1 <= N
         /\ \A w \in 1..(M - 1) : b[j + w] - b[j + w - 1] = c[w + 1] - c[w]
  BY DEF LengthsAgree, N, M, b, c, S, T
(* A word of the phrase, and a fragment of it.                             *)
<1>11. ASSUME NEW w \in 1..(M - 1)
       PROVE  /\ w \in 1..M /\ w + 1 \in 1..M
              /\ c[w] \in 1..(n + 1) /\ c[w + 1] \in 1..(n + 1)
  <2>1. w \in 1..M /\ w + 1 \in 1..M
    BY <1>3
  <2>2. c[w] \in T /\ c[w + 1] \in T
    BY <1>3, <2>1
  <2> QED
    BY <1>3, <2>1, <2>2
<1>12. ASSUME NEW k \in 1..n
       PROVE  \E w \in 1..(M - 1) : k - c[w] + 1 \in 1..(c[w + 1] - c[w])
  <2> DEFINE W == {w \in 1..(M - 1) : c[w] <= k}
  <2>1. 1 \in W
    BY <1>3, <1>8
  <2>2. PICK w \in W : \A y \in W : y <= w
    <3>1. W \in SUBSET (1..(M - 1)) /\ M - 1 \in Nat
      BY <1>3, <1>8
    <3> HIDE DEF W
    <3> QED
      BY <2>1, <3>1, Greatest
  <2>3. w \in 1..(M - 1) /\ c[w] <= k
    BY <2>2
  <2>4. c[w] \in 1..(n + 1) /\ c[w + 1] \in 1..(n + 1) /\ w + 1 \in 1..M
    BY <1>11, <2>3
  <2>5. ~(c[w + 1] <= k)
    <3> SUFFICES ASSUME c[w + 1] <= k PROVE FALSE
      OBVIOUS
    <3>1. w + 1 # M
      BY <1>1, <1>3, <2>4
    <3>2. w + 1 \in W
      BY <1>3, <2>4, <3>1
    <3> QED
      BY <2>2, <2>3, <3>2
  <2> DEFINE d == c[w]
             e == c[w + 1]
  <2>6. d \in Nat /\ e \in Nat /\ d <= k /\ ~(e <= k)
    BY <1>1, <2>3, <2>4, <2>5
  <2> HIDE DEF d, e
  <2>7. k - d + 1 \in 1..(e - d)
    BY <2>6
  <2> QED
    BY <2>3, <2>7, Zenon DEF d, e
<1>13. ASSUME NEW i \in 1..Len(t), MatchesAt(ph, t, i)
       PROVE  Reads(ph, Words(t))
  <2>1. /\ i \in Nat /\ i + n \in S /\ EdgesAgree(t, p, i)
        /\ \A k \in 1..n : Same(k, i + k - 1)
    BY <1>2, <1>4, <1>13
  <2>2. i \in S
    <3>1. 1 \in 1..(n + 1) /\ 1 \in T
      BY <1>1, <1>3
    <3>2. 1 \in T <=> i + 1 - 1 \in S
      BY <1>1, <2>1, <3>1 DEF EdgesAgree, n, S, T
    <3> QED
      BY <2>1, <3>1, <3>2
  <2>3. PICK j \in 1..N : b[j] = i
    BY <1>2, <2>2
  <2>4. BoundsAgree(t, p, i, j)
    BY <1>7, <2>1, <2>3 DEF BeginsAt, b
  <2>5. \A w \in 1..M : j + w - 1 \in 1..N /\ b[j + w - 1] = i + c[w] - 1
    BY <1>9, <2>1, <2>4
  <2>6. j \in 1..(N - 1) /\ j + M - 1 <= N
    <3>1. M \in 1..M /\ M > 1
      BY <1>3, <1>8
    <3>2. j + M - 1 \in 1..N
      BY <2>5, <3>1
    <3> QED
      BY <1>2, <1>3, <3>1, <3>2
  <2>7. LengthsAgree(t, p, j)
    <3>1. ASSUME NEW w \in 1..(M - 1) PROVE b[j + w] - b[j + w - 1] = c[w + 1] - c[w]
      <4>1. w \in 1..M /\ w + 1 \in 1..M /\ c[w] \in Nat /\ c[w + 1] \in Nat
        BY <1>1, <1>11
      <4>2. j + (w + 1) - 1 = j + w
        BY <1>2
      <4>3. b[j + w - 1] = i + c[w] - 1 /\ b[j + w] = i + c[w + 1] - 1
        BY <2>5, <4>1, <4>2
      <4> DEFINE d == c[w]
                 e == c[w + 1]
      <4>4. d \in Nat /\ e \in Nat /\ b[j + w - 1] = i + d - 1 /\ b[j + w] = i + e - 1
        BY <4>1, <4>3
      <4> HIDE DEF d, e
      <4>5. (i + e - 1) - (i + d - 1) = e - d
        BY <2>1, <4>4
      <4> QED
        BY <4>4, <4>5 DEF d, e
    <3> QED
      BY <1>10, <2>6, <3>1
  <2>8. Row(j)
    <3> SUFFICES ASSUME NEW w \in 1..(M - 1), NEW k \in 1..(c[w + 1] - c[w])
                 PROVE  Same(c[w] + k - 1, b[j + w - 1] + k - 1)
      OBVIOUS
    <3>1. w \in 1..M /\ c[w] \in 1..(n + 1) /\ c[w + 1] \in 1..(n + 1)
      BY <1>11
    <3> DEFINE h == c[w] + k - 1
    <3>2. h \in 1..n /\ b[j + w - 1] + k - 1 = i + h - 1
      <4>1. b[j + w - 1] = i + c[w] - 1 /\ k \in Nat
        BY <2>5, <3>1
      <4>2. h \in 1..n
        BY <1>1, <2>1, <3>1, <4>1, FragmentOfWord
      <4>3. (i + c[w] - 1) + k - 1 = i + h - 1
        BY <1>1, <2>1, <3>1, <4>1, FragmentOfWord
      <4> QED
        BY <4>1, <4>2, <4>3
    <3> HIDE DEF h
    <3> QED
      BY <2>1, <3>2 DEF h
  <2> QED
    BY <1>5, <2>6, <2>7, <2>8
<1>14. ASSUME Reads(ph, Words(t)) PROVE \E i \in 1..Len(t) : MatchesAt(ph, t, i)
  <2> HIDE DEF Row
  <2>1. PICK j \in 1..(N - 1) : LengthsAgree(t, p, j) /\ Row(j)
    BY <1>5, <1>14
  <2> DEFINE i == b[j]
  <2>2. j \in 1..N /\ j + M - 1 <= N
    BY <1>2, <1>10, <2>1
  <2>3. i \in S /\ i \in Nat /\ i \in 1..(Len(t) + 1)
    <3>1. i \in S
      BY <1>2, <2>2
    <3>2. i \in 1..(Len(t) + 1)
      BY <1>2, <3>1
    <3> HIDE DEF i
    <3> QED
      BY <3>1, <3>2
  <2>4. BeginsAt(t, i, j)
    BY DEF BeginsAt, b
  <2> HIDE DEF i
  <2>5. BoundsAgree(t, p, i, j) /\ EdgesAgree(t, p, i)
    BY <1>7, <2>1, <2>2, <2>3, <2>4
  <2>6. \A w \in 1..M : j + w - 1 \in 1..N /\ b[j + w - 1] = i + c[w] - 1
    BY <1>9, <2>2, <2>3, <2>5
  <2>7. i + n \in S
    <3>1. M \in 1..M
      BY <1>3
    <3>2. j + M - 1 \in 1..N /\ b[j + M - 1] = i + c[M] - 1
      BY <2>6, <3>1
    <3>3. i + c[M] - 1 = i + n
      BY <1>1, <1>3, <2>3
    <3> QED
      BY <1>2, <3>2, <3>3
  <2>8. i \in 1..Len(t)
    <3>1. i + n \in 1..(Len(t) + 1)
      BY <1>2, <2>7
    <3> QED
      BY <1>1, <1>2, <2>3, <3>1
  <2>9. ASSUME NEW k \in 1..n PROVE Same(k, i + k - 1)
    <3>1. PICK w \in 1..(M - 1) : k - c[w] + 1 \in 1..(c[w + 1] - c[w])
      BY <1>12
    <3> DEFINE h == k - c[w] + 1
    <3>2. Same(c[w] + h - 1, b[j + w - 1] + h - 1)
      BY <2>1, <3>1 DEF Row
    <3>3. w \in 1..M /\ c[w] \in 1..(n + 1)
      BY <1>11
    <3>4. c[w] + h - 1 = k /\ b[j + w - 1] + h - 1 = i + k - 1
      <4>1. b[j + w - 1] = i + c[w] - 1 /\ k \in Nat
        BY <1>1, <2>6, <3>3
      <4>2. c[w] + h - 1 = k
        BY <1>1, <2>3, <3>3, <4>1, FragmentOfWord
      <4>3. (i + c[w] - 1) + h - 1 = i + k - 1
        BY <1>1, <2>3, <3>3, <4>1, FragmentOfWord
      <4> QED
        BY <4>1, <4>2, <4>3
    <3> HIDE DEF h
    <3> QED
      BY <3>2, <3>4
  <2> QED
    BY <1>4, <2>5, <2>7, <2>8, <2>9
<1> QED
  BY <1>6, <1>13, <1>14

-----------------------------------------------------------------------------
PatternsInv ==
  /\ passage \in Passages /\ place \in Places
  /\ step = "matched" =>
       hits = [d \in DOMAIN Detectors |->
                Found(Sought(d, place), NormalizeText(passage))]

LEMMA PatternsStart == PatternsInit => PatternsInv
BY DEF PatternsInit, PatternsInv

LEMMA PatternsStep == PatternsInv /\ [PatternsNext]_allPatternsVars => PatternsInv'
<1> SUFFICES ASSUME PatternsInv, [PatternsNext]_allPatternsVars PROVE PatternsInv'
  OBVIOUS
<1>1. CASE MatchPhrases
  BY <1>1 DEF MatchPhrases, PatternsInv
<1>2. CASE RankPassage
  BY <1>2 DEF RankPassage, PatternsInv
<1>3. CASE UNCHANGED allPatternsVars
  BY <1>3 DEF allPatternsVars, PatternsInv
<1> QED
  BY <1>1, <1>2, <1>3 DEF PatternsNext

(* What normalize_text makes of a text, and what a reader takes it for.    *)
LEMMA NormalizedIs ==
  ASSUME NEW t \in Seq([fragment : STRING, gap : SUBSET Characters])
  PROVE  /\ NormalizeText(t) \in Seq(Fragments)
         /\ NormalizeText(t) =
              [k \in DOMAIN t |->
                [fragment |-> t[k].fragment, spaced |-> \E c \in White : c \in t[k].gap]]
<1> DEFINE Read(k) == [fragment |-> t[k].fragment,
                       spaced |-> \E c \in White : c \in t[k].gap]
<1>1. \A k \in DOMAIN t : Read(k) \in Fragments
  <2> TAKE k \in DOMAIN t
  <2> DEFINE Laid == [fragment : STRING, gap : SUBSET Characters]
  <2>0. t \in Seq(Laid)
    OBVIOUS
  <2> HIDE DEF Laid
  <2>1. t[k] \in Laid
    BY <2>0
  <2> USE DEF Laid
  <2>2. t[k].fragment \in STRING
    BY <2>1
  <2>3. (\E c \in White : c \in t[k].gap) \in BOOLEAN
    OBVIOUS
  <2> QED
    BY <2>2, <2>3 DEF Fragments
<1>2. NormalizeText(t) = [k \in DOMAIN t |-> Read(k)]
  <2>1. \A k \in DOMAIN t :
          (t[k].gap \intersect White # {}) = (\E c \in White : c \in t[k].gap)
    OBVIOUS
  <2> QED
    BY <2>1 DEF NormalizeText
<1>3. NormalizeText(t) \in Seq(Fragments)
  <2>1. DOMAIN t = 1..Len(t) /\ Len(t) \in Nat
    OBVIOUS
  <2> HIDE DEF Read
  <2> QED
    BY <1>1, <1>2, <2>1
<1> QED
  BY <1>2, <1>3

LEMMA SoughtIs ==
  ASSUME NEW d \in DOMAIN Detectors, NEW where \in Places, NEW ph \in Sought(d, where)
  PROVE  ph.parts \in Seq(Fragments) \ {<<>>}
<1>1. ph \in Detectors[d].strong \union Detectors[d].weak
  BY DEF Sought, PromptPhrases, SourcePhrases, ImagePhrases, Places
<1>2. ph \in [parts : PhraseParts, exact : BOOLEAN]
  BY <1>1, PatternsAssumption, Zenon
<1>3. ph.parts \in PhraseParts
  BY <1>2
<1> QED
  BY <1>3 DEF PhraseParts, Fragments

LEMMA MatchesFoundAsRead == PatternsInv => FoundAsRead
<1> SUFFICES ASSUME PatternsInv, step = "matched",
                    NEW d \in DOMAIN Detectors, NEW ph \in Sought(d, place)
             PROVE  ph \in hits[d] <=>
                      Reads(ph, Words([k \in DOMAIN passage |->
                        [fragment |-> passage[k].fragment,
                         spaced |-> \E c \in White : c \in passage[k].gap]]))
  BY DEF FoundAsRead
<1> DEFINE t == NormalizeText(passage)
<1>1. passage \in Seq([fragment : STRING, gap : SUBSET Characters]) /\ place \in Places
  BY PatternsAssumption, Zenon DEF PatternsInv
<1>2. /\ t \in Seq(Fragments)
      /\ t = [k \in DOMAIN passage |->
               [fragment |-> passage[k].fragment,
                spaced |-> \E c \in White : c \in passage[k].gap]]
  BY <1>1, NormalizedIs
<1>3. ph \in hits[d] <=> \E i \in DOMAIN t : MatchesAt(ph, t, i)
  BY DEF PatternsInv, Found
<1>4. ph.parts \in Seq(Fragments) \ {<<>>}
  BY <1>1, SoughtIs
<1>5. (\E i \in DOMAIN t : MatchesAt(ph, t, i)) <=> Reads(ph, Words(t))
  <2> HIDE DEF t
  <2> QED
    BY <1>2, <1>4, MatchesAsRead
<1> QED
  BY <1>2, <1>3, <1>5

(* Whatever the texts and the lists of phrases, a phrase is found exactly  *)
(* where a reader reads its words in a row (_compile, normalize_text).     *)
THEOREM PhrasesFoundAsRead == PatternsSpec => []FoundAsRead
<1>1. PatternsSpec => []PatternsInv
  BY PatternsStart, PatternsStep, PTL DEF PatternsSpec
<1> QED
  BY <1>1, MatchesFoundAsRead, PTL

-----------------------------------------------------------------------------
(***************************************************************************)
(* SpanReadsAsNative for any trees and any JSON.  The attributes of a span *)
(* are a dictionary, so a key gives what the span says under it.  The      *)
(* numbers of its messages, sorted, are those that count its conversation  *)
(* off, and the last of them is the greatest, so the messages and the      *)
(* answer collected are the conversation's own; so are the messages in an  *)
(* input that is a JSON list, or a text that is no JSON.  Normalised, the  *)
(* event is then to the scan what its native twin would be, whatever the   *)
(* table adds; of an event with a typed JSON input the answer is.          *)
(***************************************************************************)

(* Reading a key of a dictionary gives what it says.                       *)
LEMMA ValueIs ==
  ASSUME NEW e, e.attributes \in Seq(AttributeType), IsDictionary(e),
         NEW base, NEW index \in Nat, NEW field, field # "other", NEW value,
         Says(e, base, index, field, value)
  PROVE  Value(e, base, index, field) = value
<1> DEFINE at == Keyed(e, base, index, field)
<1>1. CASE value = ""
  BY <1>1 DEF Says, Value
<1>2. CASE value # ""
  <2>1. PICK i \in at : e.attributes[i].value = value
    BY <1>2 DEF Says
  <2>2. \A k \in at : k = i
    BY <2>1 DEF Keyed, Under, IsDictionary
  <2>3. at = {i}
    <3> HIDE DEF at
    <3> QED
      BY <2>1, <2>2
  <2>4. i \in Nat
    BY <2>1 DEF Keyed, Under
  <2>5. Max({i}) = i
    BY <2>4 DEF Max
  <2> QED
    BY <2>1, <2>3, <2>5 DEF Value
<1> QED
  BY <1>1, <1>2

(* A key stands in the span when the span says something under it.         *)
LEMMA HasIs ==
  ASSUME NEW e, NEW base, NEW value, Says(e, base, 0, "", value)
  PROVE  Has(e, base) <=> value # ""
BY DEF Says, Has

LEMMA IndicesAre ==
  ASSUME NEW e, e.attributes \in Seq(AttributeType), NEW base
  PROVE  Indices(e, base) \in SUBSET Nat /\ IsFiniteSet(Indices(e, base))
<1> DEFINE U == Under(e, base)
           S == Indices(e, base)
           indexOf == [i \in U |-> e.attributes[i].index]
<1>1. \A i \in DOMAIN e.attributes : e.attributes[i].index \in Nat
  <2> TAKE i \in DOMAIN e.attributes
  <2>1. e.attributes[i] \in AttributeType
    OBVIOUS
  <2> QED
    BY <2>1 DEF AttributeType
<1>2. U \in SUBSET DOMAIN e.attributes /\ S = {e.attributes[i].index : i \in U}
  BY DEF Under, Indices
<1>3. IsFiniteSet(U)
  <2>1. DOMAIN e.attributes = 1..Len(e.attributes) /\ Len(e.attributes) \in Nat
    OBVIOUS
  <2>2. IsFiniteSet(DOMAIN e.attributes)
    <3> DEFINE l == Len(e.attributes)
    <3>1. DOMAIN e.attributes = 1..l /\ l \in Nat
      BY <2>1
    <3> HIDE DEF l
    <3>2. 1 \in Int /\ l \in Int
      BY <3>1
    <3>3. IsFiniteSet(1..l)
      BY <3>2, FS_Interval, Zenon
    <3> QED
      BY <3>1, <3>3
  <2> QED
    BY <1>2, <2>2, FS_Subset
<1> HIDE DEF U, S
<1>4. indexOf \in Surjection(U, S)
  BY <1>2 DEF Surjection
<1> QED
  BY <1>1, <1>2, <1>3, <1>4, FS_Surjection DEF S

(* An entry is the message it says.                                        *)
LEMMA EntryIs ==
  ASSUME NEW e, e.attributes \in Seq(AttributeType), IsDictionary(e),
         NEW base, NEW index \in Nat, NEW message, SaysMessage(e, base, index, message)
  PROVE  Entry(e, base, index) = message
<1>1. Value(e, base, index, "role") = message.role
  BY ValueIs DEF SaysMessage
<1>2. Value(e, base, index, "content") = TextOf(message.content)
  BY ValueIs DEF SaysMessage
<1> QED
  BY <1>1, <1>2 DEF Entry, SaysMessage

(* Where nothing stands under a key, nothing is collected.                 *)
LEMMA NoneCollected ==
  ASSUME NEW e, NEW base, Under(e, base) = {}
  PROVE  CollectMessages(e, base) = <<>>
<1>1. Indices(e, base) = {}
  BY DEF Indices
<1> QED
  BY <1>1, NoneSorted DEF CollectMessages

(* The input messages of a span are those of the conversation, unless they *)
(* are a text that is JSON ...                                             *)
LEMMA InputIs ==
  ASSUME NEW e, e.attributes \in Seq(AttributeType), IsDictionary(e),
         e.said \in Conversation, SaysInput(e, e.said.messages)
  PROVE  InputMessages(e) = e.said.messages \/ JsonTyped(e)
<1> DEFINE base == "llm.input_messages"
           messages == e.said.messages
           collected == CollectMessages(e, base)
           value == Scalar(e, "input.value")
<1>0. messages \in Seq(MessageType)
  BY DEF Conversation
<1>1. InputMessages(e) =
        IF collected # <<>> THEN collected
        ELSE IF Has(e, "input.value") THEN FromInput(value)
        ELSE <<>>
  BY DEF InputMessages
<1>2. SaysInput(e, messages)
  OBVIOUS
<1> HIDE DEF messages
<1>3. ASSUME NEW number \in [DOMAIN messages -> Indices(e, base)], messages # <<>>,
             \A j, k \in DOMAIN messages : j < k => number[j] < number[k],
             \A index \in Indices(e, base) : \E k \in DOMAIN messages : number[k] = index,
             \A k \in DOMAIN messages : SaysMessage(e, base, number[k], messages[k])
      PROVE  InputMessages(e) = messages
  <2> DEFINE m == Len(messages)
             S == Indices(e, base)
  <2>1. m \in Nat /\ DOMAIN messages = 1..m
    BY <1>0
  <2>2. S \in SUBSET Nat
    BY IndicesAre
  <2>3. Sorted(S) = number
    <3> HIDE DEF m, S
    <3>1. number \in [1..m -> S]
      BY <1>3, <2>1 DEF S
    <3>2. \A j, k \in 1..m : j < k => number[j] < number[k]
      BY <1>3, <2>1
    <3>3. \A i \in S : \E k \in 1..m : number[k] = i
      BY <1>3, <2>1 DEF S
    <3> QED
      BY <2>1, <2>2, <3>1, <3>2, <3>3, CountedOff
  <2>4. \A k \in 1..m : Entry(e, base, number[k]) = messages[k]
    <3> TAKE k \in 1..m
    <3>1. number[k] \in Nat /\ SaysMessage(e, base, number[k], messages[k])
      BY <1>3, <2>1, <2>2
    <3> QED
      BY <3>1, EntryIs
  <2>5. collected = [k \in 1..m |-> Entry(e, base, number[k])]
    BY <2>1, <2>3 DEF CollectMessages
  <2>6. messages = [k \in 1..m |-> messages[k]]
    BY <1>0, <2>1
  <2>7. collected = messages
    <3> HIDE DEF m, collected
    <3> QED
      BY <2>4, <2>5, <2>6
  <2> QED
    BY <1>1, <1>3, <2>7
<1>4. ASSUME messages = <<>>, Under(e, base) = {}, Says(e, "input.value", 0, "", "")
      PROVE  InputMessages(e) = messages
  <2>1. collected = <<>> /\ ~Has(e, "input.value")
    BY <1>4, NoneCollected, HasIs
  <2> QED
    BY <1>1, <1>4, <2>1
<1>5. ASSUME Under(e, base) = {}, NEW said, said # "", Says(e, "input.value", 0, "", said)
      PROVE  value = said /\ InputMessages(e) = FromInput(said)
  <2>1. collected = <<>> /\ value = said /\ Has(e, "input.value")
    BY <1>5, NoneCollected, ValueIs, HasIs DEF Scalar
  <2> QED
    BY <1>1, <2>1
<1>6. ASSUME Under(e, base) = {}, NEW said, said # "", Says(e, "input.value", 0, "", said),
             messages = AsText(said)
      PROVE  InputMessages(e) = messages \/ JsonTyped(e)
  <2>1. value = said /\ InputMessages(e) = FromInput(said)
    BY <1>5, <1>6
  <2>2. CASE said \in DOMAIN JsonLists \union DOMAIN JsonObjects
    BY <1>6, <2>1, <2>2 DEF JsonTyped, messages
  <2>3. CASE said \notin DOMAIN JsonLists \union DOMAIN JsonObjects
    <3>1. FromInput(said) = AsText(said)
      BY <2>3 DEF FromInput
    <3> QED
      BY <1>6, <2>1, <3>1
  <2> QED
    BY <2>2, <2>3
<1>7. ASSUME Under(e, base) = {}, NEW said \in DOMAIN JsonLists,
             messages = JsonLists[said], Says(e, "input.value", 0, "", said)
      PROVE  InputMessages(e) = messages
  <2>1. said # ""
    BY <1>7, JsonAssumption
  <2>2. InputMessages(e) = FromInput(said)
    BY <1>5, <1>7, <2>1
  <2> QED
    BY <1>7, <2>2 DEF FromInput
<1>8. InputMessages(e) = messages \/ JsonTyped(e)
  <2> DEFINE said == TextOf(messages[1].content)
  <2>1. \/ /\ messages # <<>>
           /\ \E number \in [DOMAIN messages -> Indices(e, base)] :
                /\ \A j, k \in DOMAIN messages : j < k => number[j] < number[k]
                /\ \A index \in Indices(e, base) :
                     \E k \in DOMAIN messages : number[k] = index
                /\ \A k \in DOMAIN messages :
                     SaysMessage(e, base, number[k], messages[k])
        \/ messages = <<>> /\ Under(e, base) = {} /\ Says(e, "input.value", 0, "", "")
        \/ /\ Under(e, base) = {} /\ said # "" /\ Says(e, "input.value", 0, "", said)
           /\ messages = AsText(said)
        \/ /\ Under(e, base) = {}
           /\ \E listed \in DOMAIN JsonLists :
                /\ messages = JsonLists[listed]
                /\ Says(e, "input.value", 0, "", listed)
    BY <1>2, Zenon DEF SaysInput
  <2> HIDE DEF said
  <2> QED
    BY <1>3, <1>4, <1>6, <1>7, <2>1, Zenon
<1> QED
  BY <1>8 DEF messages

(* ... and so is its answer.                                               *)
LEMMA OutputIs ==
  ASSUME NEW e, e.attributes \in Seq(AttributeType), IsDictionary(e),
         NEW response, SaysOutput(e, response)
  PROVE  OutputText(e) = response
<1> DEFINE base == "llm.output_messages"
           collected == CollectMessages(e, base)
           value == Scalar(e, "output.value")
           S == Indices(e, base)
<1>1. CASE Says(e, "output.value", 0, "", response) /\ (response # "" \/ Under(e, base) = {})
  <2>1. value = response
    BY <1>1, ValueIs DEF Scalar
  <2>2. Has(e, "output.value") \/ collected = <<>>
    BY <1>1, NoneCollected, HasIs
  <2> QED
    BY <2>1, <2>2 DEF OutputText
<1>2. ASSUME Says(e, "output.value", 0, "", ""), NEW last \in S, \A index \in S : index <= last,
             Says(e, base, last, "content", response)
      PROVE  OutputText(e) = response
  <2>1. ~Has(e, "output.value")
    BY <1>2, HasIs
  <2> DEFINE N == Cardinality(S)
  <2>2. S \in SUBSET Nat /\ IsFiniteSet(S)
    BY IndicesAre
  <2>3. N \in Nat \ {0} /\ DOMAIN Sorted(S) = 1..N /\ Sorted(S)[N] = last
    <3> HIDE DEF S
    <3> QED
      BY <1>2, <2>2, GreatestLast
  <2>4. collected = [k \in 1..N |-> Entry(e, base, Sorted(S)[k])]
    BY <2>3 DEF CollectMessages
  <2> HIDE DEF S, N, collected
  <2>5. Len(collected) = N /\ N \in 1..N /\ collected # <<>>
    BY <2>3, <2>4
  <2>6. Last(collected) = Entry(e, base, last)
    BY <2>3, <2>4, <2>5 DEF Last
  <2>7. Value(e, base, last, "content") = response
    BY <1>2, <2>2, ValueIs
  <2>8. Last(collected).content = Content(response)
    BY <2>6, <2>7 DEF Entry
  <2>9. OutputText(e) = LET parts == Last(collected).content
                        IN IF parts = <<>> THEN "" ELSE parts[1].text
    BY <2>1, <2>5 DEF OutputText, collected
  <2>10. Content(response) = IF response = "" THEN <<>>
                             ELSE <<[text |-> response, image |-> FALSE]>>
    BY DEF Content
  <2>11. CASE response = ""
    BY <2>8, <2>9, <2>10, <2>11
  <2>12. CASE response # ""
    <3> DEFINE part == [text |-> response, image |-> FALSE]
    <3>1. Content(response) = <<part>> /\ <<part>> # <<>>
      BY <2>10, <2>12
    <3>2. <<part>>[1] = part /\ part.text = response
      OBVIOUS
    <3> QED
      BY <2>8, <2>9, <3>1, <3>2
  <2> QED
    BY <2>11, <2>12
<1> QED
  BY <1>1, <1>2 DEF SaysOutput

-----------------------------------------------------------------------------
(* An event, normalised, is to the scan what its native twin would be.     *)
LEMMA NormalizedReads ==
  ASSUME NEW e \in UNION Trees
  PROVE  /\ MessagesOf(NormalizeEvent(e)) = MessagesOf(AsNative(e)) \/ JsonTyped(e)
         /\ ResponseOf(NormalizeEvent(e)) = ResponseOf(AsNative(e))
<1> DEFINE event == NormalizeEvent(e)
           twin == AsNative(e)
<1>1. /\ {"messages", "response", "toolCall"} \subseteq DOMAIN e
      /\ e.attributes \in Seq(AttributeType)
      /\ e.said \in Conversation
      /\ IF IsOpenInference(e)
         THEN /\ IsDictionary(e)
              /\ SaysInput(e, e.said.messages)
              /\ SaysOutput(e, e.said.response)
         ELSE e.said = [messages |-> e.messages, response |-> e.response]
  BY TreesAssumption, Zenon
<1>2. /\ twin.messages = e.said.messages /\ twin.response = e.said.response
      /\ twin.input = e.input /\ twin.output = e.output
  BY <1>1 DEF AsNative
<1>3. /\ event.messages = e.said.messages \/ JsonTyped(e)
      /\ event.response = e.said.response
      /\ event.input = e.input /\ event.output = e.output
  <2>1. CASE IsOpenInference(e)
    <3>1. /\ InputMessages(e) = e.said.messages \/ JsonTyped(e)
          /\ OutputText(e) = e.said.response
      BY <1>1, <2>1, InputIs, OutputIs
    <3> QED
      BY <1>1, <2>1, <3>1 DEF NormalizeEvent
  <2>2. CASE ~IsOpenInference(e)
    BY <1>1, <2>2 DEF NormalizeEvent
  <2> QED
    BY <2>1, <2>2
<1> HIDE DEF event, twin
<1>4. /\ MessagesOf(event) = MessagesOf(twin) \/ JsonTyped(e)
      /\ ResponseOf(event) = ResponseOf(twin)
  BY <1>2, <1>3 DEF MessagesOf, ResponseOf
<1> QED
  BY <1>4 DEF event, twin

(* What a scan is given is what the twin's would be.                       *)
GivenAsNative(e, inputs) ==
  /\ LET asked == ExtractScanPrompt(AsNative(e))
     IN \/ inputs.prompt = asked
        \/ IsBlank(inputs.prompt) /\ IsBlank(asked)
        \/ JsonTyped(e)
  /\ inputs.response = IF e.gated THEN "" ELSE ResponseOf(AsNative(e))

InputsInv ==
  /\ tree \in Trees /\ DOMAIN given \subseteq tree
  /\ \A e \in DOMAIN given : GivenAsNative(e, given[e])

LEMMA InputsStart == InputsInit => InputsInv
BY DEF InputsInit, InputsInv

LEMMA HandToKeeps ==
  ASSUME InputsInv, NEW e \in tree, Pending(e), NEW inputs, HandTo(e, inputs),
         GivenAsNative(e, inputs), UNCHANGED tree
  PROVE  InputsInv'
<1>1. e \notin DOMAIN given
  BY DEF Pending
<1>2. DOMAIN given' = DOMAIN given \union {e}
  BY DEF HandTo
<1>3. given'[e] = inputs /\ \A d \in DOMAIN given : given'[d] = given[d]
  BY <1>1 DEF HandTo
<1>4. \A d \in DOMAIN given' : GivenAsNative(d, given'[d])
  BY <1>2, <1>3 DEF InputsInv
<1> QED
  BY <1>2, <1>4 DEF InputsInv, GivenAsNative

LEMMA ScanKeeps ==
  ASSUME InputsInv, NEW e \in tree, NEW sources,
         {"prompt", "response", "images"} \subseteq DOMAIN sources,
         RunScan(e, sources)
  PROVE  InputsInv'
<1> DEFINE event == NormalizeEvent(e)
           inputs == [sources EXCEPT
                        !.prompt = ExtractScanPrompt(event),
                        !.response = IF e.gated THEN "" ELSE ResponseOf(event),
                        !.images = ExtractImages(event)]
<1>1. Pending(e) /\ HandTo(e, inputs) /\ UNCHANGED tree
  BY DEF RunScan
<1>2. e \in UNION Trees
  BY DEF InputsInv
<1>3. /\ ExtractScanPrompt(event) = ExtractScanPrompt(AsNative(e)) \/ JsonTyped(e)
      /\ ResponseOf(event) = ResponseOf(AsNative(e))
  BY <1>2, NormalizedReads DEF ExtractScanPrompt
<1>4. /\ inputs.prompt = ExtractScanPrompt(event)
      /\ inputs.response = IF e.gated THEN "" ELSE ResponseOf(event)
  <2> HIDE DEF event
  <2> QED
    OBVIOUS
<1>5. GivenAsNative(e, inputs)
  <2> HIDE DEF inputs
  <2> QED
    BY <1>3, <1>4 DEF GivenAsNative
<1> HIDE DEF inputs
<1> QED
  BY <1>1, <1>5, HandToKeeps

LEMMA InputsStep == InputsInv /\ [InputsNext]_allInputsVars => InputsInv'
<1> SUFFICES ASSUME InputsInv, [InputsNext]_allInputsVars PROVE InputsInv'
  OBVIOUS
<1>1. ASSUME NEW e \in tree, Ingest(e) PROVE InputsInv'
  BY <1>1 DEF Ingest, InputsInv
<1>2. ASSUME NEW e \in tree, Skip(e) PROVE InputsInv'
  <2> DEFINE event == NormalizeEvent(e)
  <2>1. /\ Pending(e) /\ HandTo(e, Nothing) /\ UNCHANGED tree
        /\ IsBlank(ExtractScanPrompt(event)) /\ ResponseOf(event) = ""
    BY <1>2 DEF Skip
  <2>2. e \in UNION Trees
    BY DEF InputsInv
  <2>3. /\ ExtractScanPrompt(event) = ExtractScanPrompt(AsNative(e)) \/ JsonTyped(e)
        /\ ResponseOf(event) = ResponseOf(AsNative(e))
    BY <2>2, NormalizedReads DEF ExtractScanPrompt
  <2>4. Nothing.prompt = <<>> /\ Nothing.response = ""
    BY DEF Nothing
  <2>5. GivenAsNative(e, Nothing)
    <3> HIDE DEF event
    <3>1. IsBlank(Nothing.prompt)
      BY <2>4 DEF IsBlank
    <3> QED
      BY <2>1, <2>3, <2>4, <3>1 DEF GivenAsNative
  <2> QED
    BY <2>1, <2>5, HandToKeeps
<1>3. ASSUME NEW e \in tree, ReadAndScan(e) PROVE InputsInv'
  <2>1. PICK seen \in RowsRead(e) : RunScan(e, Sources(seen))
    BY <1>3 DEF ReadAndScan
  <2>2. {"prompt", "response", "images"} \subseteq DOMAIN Sources(seen)
    BY DEF Sources, Nothing
  <2> QED
    BY <2>1, <2>2, ScanKeeps
<1>4. ASSUME NEW e \in tree, ReadFails(e) PROVE InputsInv'
  <2>1. RunScan(e, Nothing)
    BY <1>4 DEF ReadFails
  <2>2. {"prompt", "response", "images"} \subseteq DOMAIN Nothing
    BY DEF Nothing
  <2> QED
    BY <2>1, <2>2, ScanKeeps
<1>5. CASE UNCHANGED allInputsVars
  BY <1>5 DEF allInputsVars, InputsInv
<1> QED
  BY <1>1, <1>2, <1>3, <1>4, <1>5 DEF InputsNext

(* Whatever the attributes of a span, in whatever order, if they say a     *)
(* conversation, it is scanned as its native event would be, and so is its *)
(* answer; only a user's text that stands as the span's input and is       *)
(* itself JSON may be scanned as something else (normalize_event).         *)
THEOREM SpansReadAsNative == InputsSpec => []SpanReadsAsNative
<1>1. InputsSpec => []InputsInv
  BY InputsStart, InputsStep, PTL DEF InputsSpec
<1>2. InputsInv => SpanReadsAsNative
  BY DEF InputsInv, SpanReadsAsNative, SamePrompt, GivenAsNative
<1> QED
  BY <1>1, <1>2, PTL
===============================================================================
