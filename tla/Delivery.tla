------------------------------- MODULE Delivery -------------------------------
(***************************************************************************)
(* What the worker promises about the security topic, and nothing else:    *)
(* at-least-once settlement.  A message is settled once the worker has     *)
(* done something final about it (persisted its scan, answered its         *)
(* requester, or given it up on purpose).  The offset committed for a      *)
(* partition is a claim that everything below it is settled; it may repeat *)
(* or even fall back (a repeated offset costs a duplicate, never a loss).  *)
(***************************************************************************)
EXTENDS Naturals

CONSTANTS
  Partitions,   \* the partitions of the topic
  LogLen        \* how many messages each partition holds

Messages == Partitions \X (0 .. LogLen - 1)

VARIABLES
  settled,      \* the messages something final was done about
  committed     \* committed[p]: the next offset a restarted group reads

vars == <<settled, committed>>

Init ==
  /\ settled = {}
  /\ committed = [p \in Partitions |-> 0]

(* Work on messages: any of them may become settled, none is unsettled.    *)
Settle ==
  /\ settled' \in SUBSET Messages
  /\ settled \subseteq settled'
  /\ UNCHANGED committed

(* Offsets of one or more partitions are committed, each over a prefix     *)
(* that is settled.                                                        *)
Commit ==
  /\ committed' \in [Partitions -> 0 .. LogLen]
  /\ \A m \in Messages : m[2] < committed'[m[1]] => m \in settled
  /\ UNCHANGED settled

Next == Settle \/ Commit

Spec == Init /\ [][Next]_vars

-----------------------------------------------------------------------------

(* Nothing below a committed offset is unsettled.                          *)
NothingLost ==
  \A m \in Messages : m[2] < committed[m[1]] => m \in settled

(* Every message of the topic is settled in the end.                       *)
EverythingSettled == \A m \in Messages : <>(m \in settled)

===============================================================================
