------------------------------- MODULE PiiFilter -------------------------------
(***************************************************************************)
(* _PIIScanner.scan (jobs/helper/pii.py) on texts of digits.  Presidio     *)
(* (external) reports spans that may be a phone number, a social security  *)
(* number or a passport number; three passes then drop those that are      *)
(* tariff codes, postal codes or too weak.  What is left is scored as      *)
(* Scanners!Pii says, and redacted.                                        *)
(*                                                                         *)
(* A text is a sequence of runs of digits.  A run has a length, a digit it *)
(* repeats (two runs of one length hold the same number when these agree)  *)
(* and what stands before it: a space, a dash, a dot, or, as "key", the    *)
(* words of a schedule_b field.  A span is a pair of run positions.        *)
(***************************************************************************)
EXTENDS Integers, FiniteSets, SequencesExt

CONSTANTS
  NumberTexts,    \* the texts considered
  Ignores,        \* the entity types an org may ignore
  MaxMatches,     \* bound: matches Presidio reports at once
  MinConfidence   \* _MIN_CONFIDENCE, 30

Runs == [size : Nat, digit : STRING, before : {"space", "dash", "dot", "key"}]

ASSUME FilterAssumption ==  \* the floor is below no phone number's score
  /\ NumberTexts \subseteq Seq(Runs)
  /\ MinConfidence \in 0..40

VARIABLES
  text,
  ignore,   \* pii_ignore
  found,    \* what Presidio reported: a set of matches
  results,  \* the matches not dropped so far
  phase     \* the pass that comes next

allFilterVars == <<text, ignore, found, results, phase>>

FilterInit ==
  /\ text \in NumberTexts
  /\ ignore \in Ignores
  /\ found = {}
  /\ results = {}
  /\ phase = "analyze"

-----------------------------------------------------------------------------
(* Spans of runs, and the digits in them.                                  *)
Spans == {s \in (DOMAIN text) \X (DOMAIN text) : s[1] <= s[2]}
Sizes(span) == [k \in 1..(span[2] - span[1] + 1) |-> text[span[1] + k - 1].size]
Befores(span) == {text[k].before : k \in (span[1] + 1)..span[2]}
Overlap(a, b) == a[1] <= b[2] /\ b[1] <= a[2]

DigitsOf(span) ==
  FlattenSeq([k \in 1..(span[2] - span[1] + 1) |->
    [d \in 1..text[span[1] + k - 1].size |-> text[span[1] + k - 1].digit]])

(* _HTS_CODE_RE: a run of four digits and one to four dotted ones of two   *)
(* to four.                                                                *)

(* Mutant of IsCode: the heading may have three digits.                    *)
IsCodeLooseHeading(span) ==
  /\ span[2] - span[1] \in 1..4
  /\ text[span[1]].size \in 3..4
  /\ \A k \in (span[1] + 1)..span[2] :
       text[k].before = "dot" /\ text[k].size \in 2..4

IsCode(span) ==
  /\ span[2] - span[1] \in 1..4
  /\ text[span[1]].size = 4
  /\ \A k \in (span[1] + 1)..span[2] :
       text[k].before = "dot" /\ text[k].size \in 2..4

(* finditer takes the longest code at the leftmost position and goes on    *)
(* behind it.                                                              *)
Codes == {s \in Spans : IsCode(s)}
Longest(i) == {s \in Codes : s[1] = i /\ \A t \in Codes : t[1] = i => t[2] <= s[2]}
Behind(i) == IF Longest(i) = {} THEN i + 1 ELSE (CHOOSE s \in Longest(i) : TRUE)[2] + 1

DottedSpans ==
  LET from[i \in 1..(Len(text) + 1)] ==
        IF i > Len(text) THEN {} ELSE Longest(i) \union from[Behind(i)]
  IN from[1]

(* _SCHEDULE_B_RE: the ten digits of a schedule_b field.                   *)
ScheduleSpans ==
  {<<i, i>> : i \in {k \in DOMAIN text : text[k].before = "key" /\ text[k].size = 10}}

(* _ZIP4_RE.                                                               *)
ZipSpans ==
  {s \in Spans : Sizes(s) = <<5, 4>> /\ Befores(s) = {"dash"}}

-----------------------------------------------------------------------------
(* What Presidio can report (external).  The pattern for 3-2-4 is this     *)
(* repository's; the bare nine digits and 5-4 are its own weak ones, which *)
(* a keyword nearby lifts; phone numbers are ten digits however grouped.   *)
Matched(entity, span, score) == [entity |-> entity, span |-> span, score |-> score]

SsnForm(span) ==
  Sizes(span) = <<3, 2, 4>> /\ Befores(span) \subseteq {"dash", "space", "dot"}

Recognizable ==
  {Matched("US_SSN", s, 85) : s \in {t \in Spans : SsnForm(t)}}
  \union {Matched("US_SSN", s, score) : s \in ZipSpans, score \in {5, 40}}
  \union {Matched(e, s, score) : e \in {"US_SSN", "US_PASSPORT"}, score \in {5, 40},
                                s \in {t \in Spans : Sizes(t) = <<9>>}}
  \union {Matched("PHONE_NUMBER", s, score) : score \in {40, 75},
                                s \in {t \in Spans : Len(DigitsOf(t)) = 10}}

(* The analyzer is asked for the entity types that are not ignored.        *)
Analyze ==
  /\ phase = "analyze"
  /\ \E matches \in SUBSET {m \in Recognizable : m.entity \notin ignore} :
       /\ Cardinality(matches) <= MaxMatches
       /\ found' = matches
       /\ results' = matches
  /\ phase' = "tariff"
  /\ UNCHANGED <<text, ignore>>

Drop(pass, next, dropped) ==
  /\ phase = pass
  /\ results' = results \ dropped
  /\ phase' = next
  /\ UNCHANGED <<text, ignore, found>>

(* A phone number that overlaps a tariff code or a schedule_b value, or    *)
(* has the digits of a tariff code elsewhere in the text.                  *)
TariffCode(m) ==
  \/ \E s \in DottedSpans \union ScheduleSpans : Overlap(m.span, s)
  \/ DigitsOf(m.span) \in
       {d \in {DigitsOf(s) : s \in DottedSpans} : Len(d) >= 8}

DropTariffCodes ==
  Drop("tariff", "zip",
       {m \in results : m.entity = "PHONE_NUMBER" /\ TariffCode(m)})

ZipCodes ==
  {m \in results :
     m.entity = "US_SSN" /\ \E s \in ZipSpans : Overlap(m.span, s)}
Weak == {m \in results : m.score < MinConfidence}

(* Mutant of DropZipCodes: it is left to the confidence floor.             *)
DropZipCodesWeak == Drop("zip", "weak", ZipCodes \intersect Weak)

DropZipCodes == Drop("zip", "weak", ZipCodes)

DropWeak == Drop("weak", "report", Weak)

FilterNext == Analyze \/ DropTariffCodes \/ DropZipCodes \/ DropWeak

FilterSpec == FilterInit /\ [][FilterNext]_allFilterVars

-----------------------------------------------------------------------------
(* A dot joins the span to a run before or after it.                       *)
Joined(span) ==
  \/ span[1] > 1 /\ text[span[1]].before = "dot"
  \/ span[2] < Len(text) /\ text[span[2] + 1].before = "dot"

DottedBehindFour(span) == Sizes(span)[1] = 4 /\ Befores(span) = {"dot"}

(* What is plainly personal data survives all three passes, whatever else  *)
(* the text holds: a 3-2-4 number; a phone number of a 3-digit lead group  *)
(* (also a dotted one); ten bare digits nothing speaks against.            *)
Genuine(m) ==
  \/ m.entity = "US_SSN" /\ SsnForm(m.span)
  \/ /\ m.entity = "PHONE_NUMBER"
     /\ ~Joined(m.span)
     /\ \/ Sizes(m.span) = <<3, 3, 4>>
        \/ Sizes(m.span) = <<10>> /\ text[m.span[1]].before # "key"
     /\ ~\E s \in Spans : DottedBehindFour(s) /\ DigitsOf(s) = DigitsOf(m.span)

GenuineReported ==
  phase = "report" => \A m \in found : Genuine(m) => m \in results

(* No tariff code that stands free is reported as a phone number and no    *)
(* such ZIP+4 as a social security number, however confident the           *)
(* recognizer was.                                                         *)
LookalikesDropped ==
  phase = "report" => \A m \in results :
    /\ m.entity = "PHONE_NUMBER" =>
         /\ ~(Sizes(m.span) \in {<<4, 2, 2, 2>>, <<4, 2, 4>>} /\ Befores(m.span) = {"dot"}
              /\ ~Joined(m.span))
         /\ ~(Sizes(m.span) = <<10>> /\ text[m.span[1]].before = "key")
    /\ m.entity = "US_SSN" => Sizes(m.span) # <<5, 4>>
===============================================================================
