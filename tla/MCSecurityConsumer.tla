-------------------------- MODULE MCSecurityConsumer --------------------------
(* Small instances of SecurityConsumer for TLC.                            *)
EXTENDS SecurityConsumer, TLC

CONSTANTS w1, w2, p1, p2

TwoWorkers == {w1, w2}
TwoPartitions == {p1, p2}

(* A topic from the kinds of p1 and of p2, read in order of offset.        *)
Topic(first, second) ==
  [m \in TwoPartitions \X (0 .. LogLen - 1) |->
     IF m[1] = p1 THEN first[m[2] + 1] ELSE second[m[2] + 1]]

(* A trace followed by something that could be committed past it, beside   *)
(* a partition with other kinds: every decodable kind occurs.              *)
MixedBacklogs ==
  {Topic(<<"scan", "request">>, <<"malformed", "scan">>),
   Topic(<<"scan", "blank">>, <<"anonymous", "request">>),
   Topic(<<"request", "unknown">>, <<"scan", "scan">>)}

(* The same with a message that does not decode.                           *)
GarbageBacklogs ==
  {Topic(<<"scan", "garbage">>, <<"malformed", "request">>)}

AllBacklogs == MixedBacklogs \union GarbageBacklogs

Symmetry == Permutations(TwoWorkers)
===============================================================================
