------------------------------ MODULE PatternTexts ------------------------------
(***************************************************************************)
(* Texts for Patterns: one or two pieces, phrases of every tier or words   *)
(* that hold a persona's name, in several layouts.                         *)
(***************************************************************************)
EXTENDS Sequences

(* A fragment that begins a word, and one that goes on with it.            *)
Begin(fragment) == [fragment |-> fragment, spaced |-> TRUE]
Go(fragment) == [fragment |-> fragment, spaced |-> FALSE]

Ignore == <<Begin("ig"), Go("nore"), Begin("your"), Begin("instructions")>>
ActAs == <<Begin("act"), Begin("as")>>
ActAsIf == ActAs \o <<Begin("if"), Begin("you"), Begin("are")>>
FromNowOn == <<Begin("from"), Begin("now"), Begin("on")>>
Exception == <<Begin("make"), Begin("an"), Begin("exception")>>
Directive == <<Begin("new"), Begin("directive")>>
Dan == <<Begin("DAN")>>

Phrase(parts) == [parts |-> parts, exact |-> FALSE]

PatternDetectors ==
  [injection |-> [strong |-> {Phrase(Ignore)}, weak |-> {Phrase(FromNowOn)}],
   jailbreak |-> [strong |-> {[parts |-> Dan, exact |-> TRUE]},
                  weak |-> {Phrase(ActAs), Phrase(ActAsIf)}],
   skeleton |-> [strong |-> {Phrase(Directive)}, weak |-> {Phrase(Exception)}]]

Capitals == {"DAN", "ACT"}
Small == [DAN |-> "dan", ACT |-> "act"]

Pieces ==
  {Ignore, ActAs, ActAsIf, FromNowOn, Exception, Directive, Dan,
   <<Begin("ACT"), Begin("as")>>,
   <<Begin("gui"), Go("dan"), Go("ce")>>,
   <<Begin("gui"), Go("DAN")>>}

(* The characters between words, within words, and between two pieces.     *)
Layout(piece, between, within, before) ==
  [k \in DOMAIN piece |->
    [fragment |-> piece[k].fragment,
     gap |-> IF k = 1 THEN before
             ELSE IF piece[k].spaced THEN between ELSE within]]

Laid(pieces, befores) ==
  {Layout(piece, between, within, before) :
     piece \in pieces, before \in befores,
     between \in {{"space"}, {"space", "newline"}, {"newline", "zero"}, {"feed"}},
     within \in {{}, {"zero"}}}

PatternTexts ==
  LET first == Laid(Pieces, {{}})
      second == Laid(Pieces, {{}, {"space"}, {"zero"}, {"newline", "zero"}})
  IN {<<>>} \union first \union {a \o b : a \in first, b \in second}
===============================================================================
