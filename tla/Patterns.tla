-------------------------------- MODULE Patterns --------------------------------
(***************************************************************************)
(* Which attack phrases a text holds (normalize_text, _compile,            *)
(* _scan_patterns and _scan_tiered of jobs/helper/base.py over the lists   *)
(* of injection.py, jailbreak.py and skeleton_key.py) and how a text ranks *)
(* by them as a prompt, as a tool's output or a document, and as the text  *)
(* in an image (scanners.py).                                              *)
(*                                                                         *)
(* A text is a sequence of fragments of words, each with the set of        *)
(* characters between it and the one before: white space, zero-width       *)
(* characters, page breaks.  An empty set, or one without white space,     *)
(* means that the two belong to one word.  Phrases are made of fragments,  *)
(* too, of which `spaced` says whether a word begins with it.              *)
(***************************************************************************)
EXTENDS Scanners, Sequences, Ordering

CONSTANTS
  Passages,   \* the texts considered
  Detectors,  \* [injection, jailbreak, skeleton |-> [strong |-> , weak |-> ]],
              \* sets of phrases [parts |-> , exact |-> ]
  Upper,      \* the fragments in capitals
  Lower       \* Lower[f]: such a fragment in small letters

White == {"space", "newline"}
Characters == White \union {"zero", "feed"}
Places == {"prompt", "source", "image"}

(* _compile leaves out an empty phrase.                                    *)
PhraseParts == Seq([fragment : STRING, spaced : BOOLEAN]) \ {<<>>}

ASSUME PatternsAssumption ==
  /\ Passages \subseteq Seq([fragment : STRING, gap : SUBSET Characters])
  /\ \A d \in DOMAIN Detectors :
       Detectors[d].strong \union Detectors[d].weak
         \subseteq [parts : PhraseParts, exact : BOOLEAN]

VARIABLES
  passage, \* the text as it arrived
  place,   \* where it was found
  hits,    \* hits[d]: the phrases detector d matched
  level,   \* the risk it contributes
  step     \* "arrived", "matched" or "ranked"

allPatternsVars == <<passage, place, hits, level, step>>

PatternsInit ==
  /\ passage \in Passages
  /\ place \in Places
  /\ hits = [d \in DOMAIN Detectors |-> {}]
  /\ level = Clean
  /\ step = "arrived"

-----------------------------------------------------------------------------
(* normalize_text: zero-width and control characters (among them the page  *)
(* break) go first, then each run of white space becomes one space.        *)
NormalizeText(t) ==
  [k \in DOMAIN t |-> [fragment |-> t[k].fragment,
                       spaced |-> t[k].gap \intersect White # {}]]

(* Case is ignored unless the phrase is a named persona.                   *)
Fold(f) == IF f \in Upper THEN Lower[f] ELSE f
SameFragment(phrase, a, b) == IF phrase.exact THEN a = b ELSE Fold(a) = Fold(b)

(* Mutant of MatchesAt: no \b at the phrase's edges.                       *)
MatchesAtAnyLetter(phrase, t, i) ==
  LET n == Len(phrase.parts)
  IN /\ i + n - 1 <= Len(t)
     /\ \A k \in 1..n : SameFragment(phrase, phrase.parts[k].fragment,
                                     t[i + k - 1].fragment)
     /\ \A k \in 2..n : phrase.parts[k].spaced = t[i + k - 1].spaced

(* The expression _compile builds: the phrase, as whole words.             *)
MatchesAt(phrase, t, i) ==
  LET n == Len(phrase.parts)
  IN /\ i + n - 1 <= Len(t)
     /\ \A k \in 1..n : SameFragment(phrase, phrase.parts[k].fragment,
                                     t[i + k - 1].fragment)
     /\ \A k \in 2..n : phrase.parts[k].spaced = t[i + k - 1].spaced
     /\ i = 1 \/ t[i].spaced
     /\ i + n > Len(t) \/ t[i + n].spaced

Found(phrases, t) ==
  {p \in phrases : \E i \in DOMAIN t : MatchesAt(p, t, i)}

(* scan() looks for every phrase in a prompt; in a source for the strong   *)
(* ones of two detectors; in an image for those of three and the weak ones *)
(* of jailbreak.                                                           *)
PromptPhrases(d) == Detectors[d].strong \union Detectors[d].weak
SourcePhrases(d) == IF d = "skeleton" THEN {} ELSE Detectors[d].strong
ImagePhrases(d) == IF d = "jailbreak" THEN PromptPhrases(d) ELSE Detectors[d].strong

Sought(d, where) ==
  CASE where = "prompt" -> PromptPhrases(d)
    [] where = "source" -> SourcePhrases(d)
    [] where = "image" -> ImagePhrases(d)

(* Every phrase each detector would find.  An image, and a source, is given *)
(* to one detector after the other only until one hits; as any hit ranks   *)
(* the same there, the later ones are kept, too.                           *)
MatchPhrases ==
  /\ step = "arrived"
  /\ hits' = [d \in DOMAIN Detectors |->
               Found(Sought(d, place), NormalizeText(passage))]
  /\ step' = "matched"
  /\ UNCHANGED <<passage, place, level>>

(* A prompt ranks by its tiers; any hit in a source or an image is HIGH.   *)
TierLevel(d) ==
  Tiered([strong |-> Cardinality(hits[d] \intersect Detectors[d].strong),
          weak |-> Cardinality(hits[d] \ Detectors[d].strong)]).level

RankPassage ==
  /\ step = "matched"
  /\ level' = IF place = "prompt" THEN Highest({TierLevel(d) : d \in DOMAIN Detectors})
              ELSE IF \E d \in DOMAIN Detectors : hits[d] # {} THEN High ELSE Clean
  /\ step' = "ranked"
  /\ UNCHANGED <<passage, place, hits>>

PatternsNext == MatchPhrases \/ RankPassage

PatternsSpec == PatternsInit /\ [][PatternsNext]_allPatternsVars

-----------------------------------------------------------------------------
(* A text, or a phrase, as a reader takes it: a sequence of words, each a  *)
(* sequence of fragments.                                                  *)

(* Where its words begin and, behind them, where it ends; in order.        *)
Edges(t) == {i \in 1..(Len(t) + 1) : i = 1 \/ i = Len(t) + 1 \/ t[i].spaced}
Bounds(t) == Sorted(Edges(t))

Words(t) ==
  LET begin == Bounds(t)
  IN [w \in 1..(Len(begin) - 1) |->
       [k \in 1..(begin[w + 1] - begin[w]) |-> t[begin[w] + k - 1].fragment]]

Reads(phrase, words) ==
  LET wanted == Words(phrase.parts)
      same(a, b) == /\ Len(a) = Len(b)
                    /\ \A k \in DOMAIN a : SameFragment(phrase, a[k], b[k])
  IN \E i \in DOMAIN words :
       /\ i + Len(wanted) - 1 <= Len(words)
       /\ \A k \in DOMAIN wanted : same(wanted[k], words[i + k - 1])

(* A phrase is found exactly when a reader finds its words in a row: not   *)
(* inside other words ("guidance" holds no DAN), and whatever white space  *)
(* stands between them or zero-width characters within them.  Page breaks, *)
(* which a reader takes for white space, are dropped and left out here.    *)
FoundAsRead ==
  step = "matched" /\ (\A k \in DOMAIN passage : "feed" \notin passage[k].gap) =>
    \A d \in DOMAIN Detectors : \A p \in Sought(d, place) :
      p \in hits[d] <=>
        Reads(p, Words([k \in DOMAIN passage |->
                  [fragment |-> passage[k].fragment,
                   spaced |-> \E c \in White : c \in passage[k].gap]]))

(* base.py and jailbreak.py: of weak phrases, "one is LOW, two or more is  *)
(* MEDIUM".  A phrase within another one is not a second one.              *)
Distinct(phrases) ==
  {p \in phrases : ~\E q \in phrases \ {p} : Reads(p, Words(q.parts))}

OneWeakIsLow ==
  step = "ranked" /\ place = "prompt"
  /\ (\A d \in DOMAIN Detectors : /\ hits[d] \subseteq Detectors[d].weak
                                  /\ Cardinality(Distinct(hits[d])) <= 1)
  => level <= Low

(* skeleton_key.py: "used for indirect / image scanning, where only the    *)
(* STRONG tier should flag".                                               *)
OnlyStrongFlagsImages ==
  step = "ranked" /\ place = "image" /\ level = High =>
    \E d \in DOMAIN Detectors : hits[d] \intersect Detectors[d].strong # {}
===============================================================================
