---------------------------- MODULE MCGateLatency ----------------------------
(***************************************************************************)
(* Backlogs and images for TLC.  In the first instance a tick is four      *)
(* seconds, so that the OCR budget (12 s) is 3 and the requester's timeout *)
(* (8 s) is 2; in the others a tick is a second.                           *)
(***************************************************************************)
EXTENDS GateLatency, TLC

CONSTANTS p1, p2, scan1, scan2, check1, check2

TwoAndTwo == p1 :> <<scan1, check1>> @@ p2 :> <<scan2, check2>>
TwoAndOne == p1 :> <<scan1, check1>> @@ p2 :> <<scan2>>
OneAndOne == p1 :> <<scan1>> @@ p2 :> <<check1>>

Part(ticks, text) == [usable |-> TRUE, ticks |-> ticks, text |-> text]
Hash == [usable |-> FALSE, ticks |-> 1, text |-> TRUE]

(* No image; an unusable part, an image that fails and one with text, and  *)
(* one too many; two that outlast the budget; one that never ends.         *)
SomeAlbums ==
  {<<>>,
   <<Hash, Part(1, FALSE), Part(1, TRUE), Part(1, TRUE)>>,
   <<Part(2, TRUE), Part(2, TRUE)>>,
   <<Part(Forever, TRUE)>>}
NoImages == {<<>>}
SlowImage == {<<Part(Forever, TRUE)>>}
=============================================================================
