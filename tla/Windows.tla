-------------------------------- MODULE Windows --------------------------------
(***************************************************************************)
(* What the injection classifier gets to see of a long prompt              *)
(* (jobs/helper/classifier.py): overlapping windows of the text, each cut  *)
(* to what the network takes, scored one after the other.  A phrase counts *)
(* as seen by a window only when all of it lies in the part of the window  *)
(* that is not cut; the model then takes the score to be high.             *)
(***************************************************************************)
EXTENDS Integers

CONSTANTS
  WindowChars,  \* _WINDOW_CHARS
  StrideChars,  \* _STRIDE_CHARS
  MaxWindows,   \* _MAX_WINDOWS
  Densities,    \* the characters the tokenizer's 512 tokens can hold: fewer
                \* for a dense script than for English
  Lengths,      \* lengths of a prompt
  Phrases       \* lengths of a phrase in it

ASSUME WindowsAssumption ==
  /\ WindowChars \in Nat \ {0} /\ StrideChars \in Nat \ {0}
  /\ MaxWindows \in Nat \ {0}
  /\ Densities \subseteq Nat \ {0}
  /\ Lengths \subseteq Nat /\ Phrases \subseteq Nat \ {0}

VARIABLES
  length,  \* len(text)
  fits,    \* the characters that fit into one forward pass
  phrase,  \* the phrase in it: [at |-> first character, size |-> ]
  taken,   \* windows scored so far
  best,    \* whether one of them held the phrase: the best score is high
  stage    \* "scoring", "scored" or "failed"

vars == <<length, fits, phrase, taken, best, stage>>

Init ==
  /\ length \in Lengths
  /\ fits \in Densities
  /\ phrase \in [at : 0..length, size : Phrases]
  /\ phrase.at + phrase.size <= length
  /\ taken = 0
  /\ best = FALSE
  /\ stage = "scoring"

-----------------------------------------------------------------------------
(* The k-th window is text[Start(k) : End(k)]; k counts from 1.            *)

(* Mutant of Start: windows are laid end to end.                           *)
StartEndToEnd(k) == (k - 1) * WindowChars

Start(k) == (k - 1) * StrideChars

(* What of the window the tokenizer, which truncates, passes on.           *)
Seen(k, i) ==
  /\ Start(k) <= i
  /\ i < Start(k) + WindowChars
  /\ i < Start(k) + fits

Holds(k) == Seen(k, phrase.at) /\ Seen(k, phrase.at + phrase.size - 1)

(* A text no longer than a window is one window; a longer one is cut at    *)
(* every multiple of the stride, up to the limit.                          *)
HasWindow(k) ==
  /\ k <= MaxWindows
  /\ IF length <= WindowChars THEN k = 1 ELSE Start(k) < length

Score ==
  /\ stage = "scoring" /\ HasWindow(taken + 1)
  /\ taken' = taken + 1
  /\ best' = (best \/ Holds(taken + 1))
  /\ UNCHANGED <<length, fits, phrase, stage>>

Return ==
  /\ stage = "scoring" /\ ~HasWindow(taken + 1)
  /\ stage' = "scored"
  /\ UNCHANGED <<length, fits, phrase, taken, best>>

(* Any window's forward pass may raise; the score is then 0, whatever the  *)
(* windows before it gave.                                                 *)
PassFails ==
  /\ stage = "scoring"
  /\ stage' = "failed"
  /\ best' = FALSE
  /\ UNCHANGED <<length, fits, phrase, taken>>

Next == Score \/ Return \/ PassFails

Spec == Init /\ [][Next]_vars

-----------------------------------------------------------------------------
(* Consecutive windows overlap so that a short phrase is whole in one of   *)
(* them, wherever it stands in the part of the text that is windowed: none *)
(* is lost on a seam.  A text of one window is also cut to what fits.      *)
NoPhraseOnASeam ==
  stage = "scored"
  /\ (length > WindowChars \/ phrase.at + phrase.size <= fits)
  /\ phrase.size + StrideChars <= WindowChars + 1
  /\ phrase.size + StrideChars <= fits + 1
  /\ phrase.at < MaxWindows * StrideChars
  => best

(* classifier.py: "an injection buried at the end of a long benign wall of *)
(* text is exactly the case that matters, and truncating would drop it".   *)
EndOfPromptScored ==
  stage = "scored"
  /\ phrase.at + phrase.size = length
  /\ phrase.size + StrideChars <= WindowChars + 1
  /\ fits >= WindowChars
  => best
===============================================================================
