------------------------------- MODULE PiiTexts --------------------------------
(***************************************************************************)
(* Texts for PiiFilter: one or two numbers of the shapes that look alike,  *)
(* or a stray group of digits, in every order.                             *)
(***************************************************************************)
EXTENDS Sequences

Number(sizes, digit, inner, before) ==
  [k \in DOMAIN sizes |->
    [size |-> sizes[k], digit |-> digit,
     before |-> IF k = 1 THEN before ELSE inner]]

Shapes == {<<3, 2, 4>>, <<5, 4>>, <<3, 3, 4>>, <<4, 2, 2, 2>>, <<4, 2, 4>>,
           <<9>>, <<10>>, <<2>>, <<4>>}

Numbers(befores) ==
  {Number(sizes, digit, inner, before) :
     sizes \in Shapes, digit \in {"a", "b"}, inner \in {"dash", "dot"},
     before \in befores}

PiiTexts ==
  Numbers({"space", "key"})
  \union {a \o b : a \in Numbers({"space"}), b \in Numbers({"space", "dash", "dot", "key"})}

PiiIgnores == {{}, {"PHONE_NUMBER"}}
===============================================================================
