------------------------ MODULE SecurityConsumerProofs ------------------------
(***************************************************************************)
(* Proofs about SecurityConsumer, for every number of workers, partitions, *)
(* messages and failures: type correctness, that no message is lost        *)
(* (CommittedSettled), that partitions are worked through in order         *)
(* (InOrder), that the loop implements the abstract specification          *)
(* Delivery, and what repeated effects cost (RepeatsCostFaults,            *)
(* RequestOnce, FaultFreeExactlyOnce, WithdrawsAtMostOne).                 *)
(*                                                                         *)
(* DeliveryInv is inductive, and EffectsInv is inductive on top of it.     *)
(* Each lemma below shows that one of their parts is preserved by every    *)
(* step; the theorems put them together.                                   *)
(***************************************************************************)
EXTENDS SecurityConsumer, FiniteSetTheorems, TLAPS

(* A message is the pair of its partition and its offset.                  *)
LEMMA MessageParts ==
  /\ \A m \in Messages :
       /\ m[1] \in Partitions
       /\ m[2] \in Nat
       /\ m[2] < LogLen
       /\ m = <<m[1], m[2]>>
  /\ \A p \in Partitions, o \in Nat : o < LogLen =>
       /\ <<p, o>> \in Messages
       /\ <<p, o>>[1] = p
       /\ <<p, o>>[2] = o
BY LogAssumption DEF Messages

(* A worker past its idle states works on a message.                       *)
LEMMA BusyHasMessage ==
  ASSUME TypeOK, BusyWithMessage, NEW w \in Workers, pc[w] \in BusyStates
  PROVE  cur[w] \in Messages /\ cur[w] # NoMessage
BY DEF TypeOK, BusyWithMessage, IdleStates, BusyStates

-----------------------------------------------------------------------------
(* The initial states satisfy the invariant: nothing has been read.        *)
LEMMA InitInvariant == Init => DeliveryInv
<1> SUFFICES ASSUME Init PROVE DeliveryInv
  OBVIOUS
<1> USE DEF Init
<1>1. TypeOK
  <2>1. log \in [Messages -> Kinds]
    BY BacklogAssumption
  <2>2. /\ pos \in [Partitions -> 0 .. LogLen]
        /\ committed \in [Partitions -> 0 .. LogLen]
        /\ copies \in [Messages -> 0 .. MaxFaults + 1]
        /\ faults \in 0 .. MaxFaults
    BY LogAssumption, FaultAssumption
  <2>3. backoff \in [Workers -> RetryInitial .. RetryMax]
    BY RetryAssumption
  <2>4. /\ owner \in [Partitions -> Workers \union {Nobody}]
        /\ pc \in [Workers -> IdleStates \union BusyStates]
        /\ cur \in [Workers -> Messages \union {NoMessage}]
        /\ outcome \in [Messages -> SUBSET Outcomes]
        /\ reassigned \in BOOLEAN
    BY DEF IdleStates
  <2> QED
    BY <2>1, <2>2, <2>3, <2>4 DEF TypeOK
<1>2. CommittedSettled /\ PositionSettled
  BY MessageParts DEF CommittedSettled, PositionSettled
<1>3. InOrder /\ BusyWithMessage /\ DoneSettled
  BY DEF InOrder, BusyWithMessage, IdleStates, DoneSettled, DoneStates
<1> QED
  BY <1>1, <1>2, <1>3 DEF DeliveryInv

-----------------------------------------------------------------------------
(* What the shared pieces of the actions do to the type invariant.         *)
LEMMA GotoType ==
  ASSUME TypeOK, NEW w \in Workers, NEW state \in IdleStates \union BusyStates,
         Goto(w, state)
  PROVE  pc' \in [Workers -> IdleStates \union BusyStates]
BY DEF TypeOK, Goto

LEMMA RecordType ==
  ASSUME TypeOK, NEW m, NEW result \in Outcomes, Record(m, result)
  PROVE  outcome' \in [Messages -> SUBSET Outcomes]
BY DEF TypeOK, Record

LEMMA CountType ==
  ASSUME TypeOK, NEW m, CountCopy(m)
  PROVE  copies' \in [Messages -> 0 .. MaxFaults + 1]
<1>1. \A n \in 0 .. MaxFaults + 1 :
        (IF n > MaxFaults THEN n ELSE n + 1) \in 0 .. MaxFaults + 1
  BY FaultAssumption
<1>2. \A x \in Messages : copies[x] \in 0 .. MaxFaults + 1
  BY DEF TypeOK
<1>3. copies \in [Messages -> 0 .. MaxFaults + 1]
  BY DEF TypeOK
<1>4. copies' = [x \in Messages |->
                   IF x = m THEN IF copies[m] > MaxFaults THEN copies[m]
                                                          ELSE copies[m] + 1
                            ELSE copies[x]]
  BY <1>3 DEF CountCopy
<1>5. \A x \in Messages : copies'[x] \in 0 .. MaxFaults + 1
  BY <1>1, <1>2, <1>4
<1> QED
  BY <1>4, <1>5

LEMMA FaultType ==
  ASSUME TypeOK, Fault \/ NoFault
  PROVE  faults' \in 0 .. MaxFaults
BY FaultAssumption DEF TypeOK, Fault, NoFault

LEMMA CommitType ==
  ASSUME TypeOK, NEW w \in Workers, CommitPositions(w)
  PROVE  committed' \in [Partitions -> 0 .. LogLen]
BY DEF TypeOK, CommitPositions

LEMMA StopType ==
  ASSUME TypeOK, NEW w \in Workers, Stop(w)
  PROVE  /\ log' \in [Messages -> Kinds]
         /\ owner' \in [Partitions -> Workers \union {Nobody}]
         /\ pos' \in [Partitions -> 0 .. LogLen]
         /\ pc' \in [Workers -> IdleStates \union BusyStates]
         /\ cur' \in [Workers -> Messages \union {NoMessage}]
         /\ backoff' \in [Workers -> RetryInitial .. RetryMax]
         /\ outcome' \in [Messages -> SUBSET Outcomes]
         /\ reassigned' \in BOOLEAN
<1>1. pc' \in [Workers -> IdleStates \union BusyStates]
  BY GotoType DEF Stop, IdleStates
<1>2. backoff' \in [Workers -> RetryInitial .. RetryMax]
  BY RetryAssumption DEF TypeOK, Stop
<1> QED
  BY <1>1, <1>2 DEF TypeOK, Stop

LEMMA SeekBackType ==
  ASSUME TypeOK, NEW w \in Workers, cur[w] \in Messages, SeekBack(w)
  PROVE  /\ log' \in [Messages -> Kinds]
         /\ owner' \in [Partitions -> Workers \union {Nobody}]
         /\ pos' \in [Partitions -> 0 .. LogLen]
         /\ pc' \in [Workers -> IdleStates \union BusyStates]
         /\ cur' \in [Workers -> Messages \union {NoMessage}]
         /\ backoff' \in [Workers -> RetryInitial .. RetryMax]
         /\ outcome' \in [Messages -> SUBSET Outcomes]
         /\ reassigned' \in BOOLEAN
<1>1. CASE Stop(w)
  BY <1>1, StopType
<1>2. CASE /\ pos' = [pos EXCEPT ![cur[w][1]] = cur[w][2]]
           /\ cur' = [cur EXCEPT ![w] = NoMessage]
           /\ Goto(w, "backoff")
           /\ UNCHANGED <<log, owner, backoff, outcome, reassigned>>
  <2>1. pc' \in [Workers -> IdleStates \union BusyStates]
    BY <1>2, GotoType DEF IdleStates
  <2>2. cur[w][2] \in 0 .. LogLen
    BY MessageParts, LogAssumption
  <2>3. pos' \in [Partitions -> 0 .. LogLen]
    BY <1>2, <2>2 DEF TypeOK
  <2> QED
    BY <1>2, <2>1, <2>3 DEF TypeOK
<1> QED
  BY <1>1, <1>2 DEF SeekBack

LEMMA NextMessageType ==
  ASSUME TypeOK, NEW w \in Workers, NextMessage(w)
  PROVE  /\ log' \in [Messages -> Kinds]
         /\ owner' \in [Partitions -> Workers \union {Nobody}]
         /\ pos' \in [Partitions -> 0 .. LogLen]
         /\ pc' \in [Workers -> IdleStates \union BusyStates]
         /\ cur' \in [Workers -> Messages \union {NoMessage}]
         /\ backoff' \in [Workers -> RetryInitial .. RetryMax]
         /\ outcome' \in [Messages -> SUBSET Outcomes]
         /\ copies' \in [Messages -> 0 .. MaxFaults + 1]
         /\ reassigned' \in BOOLEAN
<1>1. pc' \in [Workers -> IdleStates \union BusyStates]
  BY GotoType DEF NextMessage, IdleStates
<1>2. backoff' \in [Workers -> RetryInitial .. RetryMax]
  BY RetryAssumption DEF TypeOK, NextMessage
<1> QED
  BY <1>1, <1>2 DEF TypeOK, NextMessage

LEMMA ReceiveType ==
  ASSUME TypeOK, NEW w \in Workers, NEW p \in Partitions, NEW kinds,
         Receive(w, p, kinds)
  PROVE  /\ <<p, pos[p]>> \in Messages
         /\ pos' \in [Partitions -> 0 .. LogLen]
         /\ cur' \in [Workers -> Messages \union {NoMessage}]
<1>1. pos[p] \in 0 .. LogLen /\ pos[p] < LogLen
  BY DEF TypeOK, Receive
<1>2. <<p, pos[p]>> \in Messages /\ pos[p] + 1 \in 0 .. LogLen
  BY <1>1, LogAssumption, MessageParts
<1>3. pos' = [pos EXCEPT ![p] = pos[p] + 1]
  BY DEF Receive
<1> QED
  BY <1>2, <1>3 DEF TypeOK, Receive

-----------------------------------------------------------------------------
(* Every step preserves the types.  SeekBack indexes pos with the message  *)
(* in work, so this needs BusyWithMessage as well.                         *)
LEMMA TypeStep ==
  ASSUME TypeOK, BusyWithMessage, [Next]_vars
  PROVE  TypeOK'
<1> USE DEF IdleStates, BusyStates, Outcomes
<1>1. ASSUME NEW w \in Workers, NEW p \in Partitions, DispatchScan(w, p) PROVE TypeOK'
  BY <1>1, ReceiveType, GotoType, FaultType DEF TypeOK, DispatchScan, Receive
<1>2. ASSUME NEW w \in Workers, NEW p \in Partitions, DispatchCheck(w, p) PROVE TypeOK'
  BY <1>2, ReceiveType, GotoType, FaultType DEF TypeOK, DispatchCheck, Receive
<1>3. ASSUME NEW w \in Workers, NEW p \in Partitions, DispatchNothing(w, p) PROVE TypeOK'
  BY <1>3, ReceiveType, GotoType, RecordType, FaultType
  DEF TypeOK, DispatchNothing, Receive
<1>4. ASSUME NEW w \in Workers, NEW p \in Partitions, DispatchRaises(w, p) PROVE TypeOK'
  BY <1>4, ReceiveType, GotoType, RecordType, FaultType
  DEF TypeOK, DispatchRaises, Receive
<1>5. ASSUME NEW w \in Workers, NEW p \in Partitions, DecodeFails(w, p) PROVE TypeOK'
  BY <1>5, StopType, FaultType DEF TypeOK, DecodeFails
<1>6. ASSUME NEW w \in Workers, ScanOk(w) PROVE TypeOK'
  BY <1>6, GotoType, FaultType DEF TypeOK, ScanOk, topic, effects
<1>7. ASSUME NEW w \in Workers, ScanFails(w) PROVE TypeOK'
  BY <1>7, GotoType, FaultType DEF TypeOK, ScanFails, topic, effects
<1>8. ASSUME NEW w \in Workers, PublishEnriched(w) PROVE TypeOK'
  BY <1>8, GotoType, FaultType DEF TypeOK, PublishEnriched, topic, effects
<1>9. ASSUME NEW w \in Workers, NEW failed \in BOOLEAN, StoreMarker(w, failed)
     PROVE  TypeOK'
  BY <1>9, GotoType, RecordType, FaultType
  DEF TypeOK, StoreMarker, MayFail, topic
<1>10. ASSUME NEW w \in Workers, InsertOk(w) PROVE TypeOK'
  BY <1>10, GotoType, RecordType, CountType, FaultType
  DEF TypeOK, InsertOk, topic
<1>11. ASSUME NEW w \in Workers, ReplySent(w) PROVE TypeOK'
  BY <1>11, GotoType, RecordType, CountType, FaultType
  DEF TypeOK, ReplySent, topic
<1>12. ASSUME NEW w \in Workers, CheckDone(w) PROVE TypeOK'
  BY <1>12, GotoType, RecordType, FaultType
  DEF TypeOK, CheckDone, topic
<1>13. ASSUME NEW w \in Workers, InsertPermanent(w) PROVE TypeOK'
  BY <1>13, GotoType, RecordType, FaultType
  DEF TypeOK, InsertPermanent, topic
<1>14. ASSUME NEW w \in Workers, NEW sent \in BOOLEAN, ReplyFails(w, sent) PROVE TypeOK'
  BY <1>14, GotoType, RecordType, CountType, FaultType
  DEF TypeOK, ReplyFails, topic
<1>15. ASSUME NEW w \in Workers, CommitOk(w) PROVE TypeOK'
  BY <1>15, NextMessageType, CommitType, FaultType DEF TypeOK, CommitOk
<1>16. ASSUME NEW w \in Workers, NEW failed \in BOOLEAN, CommitSkip(w, failed)
     PROVE  TypeOK'
  BY <1>16, NextMessageType, CommitType, FaultType
  DEF TypeOK, CommitSkip, MayFail
<1>17. ASSUME NEW w \in Workers, NEW applied \in BOOLEAN, InsertTransient(w, applied)
     PROVE  TypeOK'
  BY <1>17, BusyHasMessage, SeekBackType, CountType, FaultType
  DEF TypeOK, InsertTransient
<1>18. ASSUME NEW w \in Workers, NEW applied \in BOOLEAN, CommitTransient(w, applied)
     PROVE  TypeOK'
  BY <1>18, BusyHasMessage, SeekBackType, CommitType, FaultType
  DEF TypeOK, CommitTransient
<1>19. ASSUME NEW w \in Workers, NEW applied \in BOOLEAN, CommitPermanent(w, applied)
     PROVE  TypeOK'
  BY <1>19, GotoType, CommitType, FaultType
  DEF TypeOK, CommitPermanent, effects
<1>20. ASSUME NEW w \in Workers, Wake(w) PROVE TypeOK'
  <2>1. backoff' \in [Workers -> RetryInitial .. RetryMax]
    BY <1>20, RetryAssumption DEF TypeOK, Wake
  <2> QED
    BY <1>20, <2>1, GotoType, FaultType DEF TypeOK, Wake, topic, effects
<1>21. ASSUME NEW w \in Workers, Crash(w) PROVE TypeOK'
  BY <1>21, StopType, FaultType DEF TypeOK, Crash
<1>22. ASSUME NEW w \in Workers, Restart(w) PROVE TypeOK'
  BY <1>22, GotoType, FaultType DEF TypeOK, Restart, topic, effects
<1>23. CASE TakeOver \/ Shuffle
  <2>1. faults' \in 0 .. MaxFaults
    BY <1>23, FaultType, FaultAssumption DEF TypeOK, TakeOver, Shuffle
  <2>2. owner' \in [Partitions -> Workers \union {Nobody}]
    BY <1>23 DEF TakeOver, Shuffle, Rebalance
  <2> QED
    BY <1>23, <2>1, <2>2 DEF TypeOK, TakeOver, Shuffle, Rebalance, effects
<1>24. CASE UNCHANGED vars
  BY <1>24 DEF TypeOK, vars
<1> QED
  BY <1>1, <1>2, <1>3, <1>4, <1>5, <1>6, <1>7, <1>8, <1>9, <1>10, <1>11, <1>12, <1>13, <1>14, <1>15, <1>16, <1>17, <1>18, <1>19, <1>20, <1>21, <1>22, <1>23, <1>24
  DEF Next, Step, FailingStep, Environment

-----------------------------------------------------------------------------
(* Seen from the invariant, a step is one of seven kinds.                  *)
MayCommit(w) == UNCHANGED committed \/ (pc[w] \in {"commit", "skip"}
                                          /\ CommitPositions(w))

(* w takes up a message.                                                   *)
Takes(w, p) ==
  /\ pc[w] = "poll"
  /\ owner[p] = w
  /\ pos[p] < LogLen
  /\ pos' = [pos EXCEPT ![p] = pos[p] + 1]
  /\ cur' = [cur EXCEPT ![w] = <<p, pos[p]>>]
  /\ \E state \in BusyStates :
       /\ Goto(w, state)
       /\ state \in DoneStates => outcome'[<<p, pos[p]>>] # {}
  /\ UNCHANGED <<owner, committed>>

(* w goes on with its message.                                             *)
Works(w) ==
  /\ pc[w] \in BusyStates
  /\ \E state \in BusyStates :
       /\ Goto(w, state)
       /\ state \in DoneStates => outcome'[cur[w]] # {}
  /\ MayCommit(w)
  /\ UNCHANGED <<owner, pos, cur>>

(* w is through with its message.                                          *)
Finishes(w) ==
  /\ pc[w] \in {"commit", "skip"}
  /\ Goto(w, "poll")
  /\ cur' = [cur EXCEPT ![w] = NoMessage]
  /\ MayCommit(w)
  /\ UNCHANGED <<owner, pos>>

(* w seeks back to its message.                                            *)
Rewinds(w) ==
  /\ pc[w] \in BusyStates
  /\ owner[cur[w][1]] = w
  /\ pos' = [pos EXCEPT ![cur[w][1]] = cur[w][2]]
  /\ cur' = [cur EXCEPT ![w] = NoMessage]
  /\ Goto(w, "backoff")
  /\ MayCommit(w)
  /\ UNCHANGED owner

(* w's process ends.                                                       *)
Dies(w) ==
  /\ Goto(w, "down")
  /\ cur' = [cur EXCEPT ![w] = NoMessage]
  /\ owner' = [p \in Partitions |-> IF owner[p] = w THEN Nobody ELSE owner[p]]
  /\ MayCommit(w)
  /\ UNCHANGED pos

(* w wakes up or is started again.                                         *)
Resumes(w) ==
  /\ pc[w] \in IdleStates
  /\ Goto(w, "poll")
  /\ UNCHANGED <<owner, pos, cur, committed>>

Quiet == UNCHANGED <<owner, pos, cur, pc, committed>>

LEMMA StepKinds ==
  ASSUME DeliveryInv, [Next]_vars
  PROVE  \/ \E w \in Workers, p \in Partitions : Takes(w, p)
         \/ \E w \in Workers : \/ Works(w) \/ Finishes(w) \/ Rewinds(w)
                               \/ Dies(w) \/ Resumes(w)
         \/ Rebalance
         \/ Quiet
<1> USE DEF BusyStates, DoneStates, IdleStates
<1>0. TypeOK /\ BusyWithMessage /\ DoneSettled
  BY DEF DeliveryInv
<1>1. ASSUME NEW w \in Workers, NEW p \in Partitions, DispatchScan(w, p) PROVE Takes(w, p)
  BY <1>1 DEF Takes, DispatchScan, Receive
<1>2. ASSUME NEW w \in Workers, NEW p \in Partitions, DispatchCheck(w, p) PROVE Takes(w, p)
  BY <1>2 DEF Takes, DispatchCheck, Receive
<1>3. ASSUME NEW w \in Workers, NEW p \in Partitions, DispatchNothing(w, p) PROVE Takes(w, p)
  <2>1. outcome'[<<p, pos[p]>>] # {}
    BY <1>3, <1>0, ReceiveType DEF TypeOK, DispatchNothing, Record, Settled
  <2> QED
    BY <1>3, <2>1 DEF Takes, DispatchNothing, Receive
<1>4. ASSUME NEW w \in Workers, NEW p \in Partitions, DispatchRaises(w, p) PROVE Takes(w, p)
  <2>1. outcome'[<<p, pos[p]>>] # {}
    BY <1>4, <1>0, ReceiveType DEF TypeOK, DispatchRaises, Record, Settled
  <2> QED
    BY <1>4, <2>1 DEF Takes, DispatchRaises, Receive
<1>5. ASSUME NEW w \in Workers, NEW p \in Partitions, DecodeFails(w, p) PROVE Dies(w)
  BY <1>5 DEF Dies, DecodeFails, Stop, MayCommit
<1>6. ASSUME NEW w \in Workers, ScanOk(w) PROVE Works(w)
  BY <1>6 DEF Works, ScanOk, topic, MayCommit
<1>7. ASSUME NEW w \in Workers, ScanFails(w) PROVE Works(w)
  BY <1>7 DEF Works, ScanFails, topic, MayCommit
<1>8. ASSUME NEW w \in Workers, PublishEnriched(w) PROVE Works(w)
  BY <1>8, <1>0
  DEF Works, PublishEnriched, topic, effects, MayCommit, DoneSettled, Settled
<1>9. ASSUME NEW w \in Workers, NEW failed \in BOOLEAN, StoreMarker(w, failed)
     PROVE  Works(w)
  <2>1. cur[w] \in Messages
    BY <1>9, <1>0, BusyHasMessage DEF StoreMarker
  <2> QED
    BY <1>9, <1>0, <2>1
    DEF TypeOK, Works, StoreMarker, Record, Settled, topic, MayCommit
<1>10. ASSUME NEW w \in Workers, InsertOk(w) PROVE Works(w)
  <2>1. cur[w] \in Messages
    BY <1>10, <1>0, BusyHasMessage DEF InsertOk
  <2> QED
    BY <1>10, <1>0, <2>1
    DEF TypeOK, Works, InsertOk, Record, Settled, topic, MayCommit
<1>11. ASSUME NEW w \in Workers, ReplySent(w) PROVE Works(w)
  <2>1. cur[w] \in Messages
    BY <1>11, <1>0, BusyHasMessage DEF ReplySent
  <2> QED
    BY <1>11, <1>0, <2>1
    DEF TypeOK, Works, ReplySent, Record, Settled, topic, MayCommit
<1>12. ASSUME NEW w \in Workers, CheckDone(w) PROVE Works(w)
  <2>1. cur[w] \in Messages
    BY <1>12, <1>0, BusyHasMessage DEF CheckDone
  <2> QED
    BY <1>12, <1>0, <2>1
    DEF TypeOK, Works, CheckDone, Record, Settled, topic, MayCommit
<1>13. ASSUME NEW w \in Workers, InsertPermanent(w) PROVE Works(w)
  <2>1. cur[w] \in Messages
    BY <1>13, <1>0, BusyHasMessage DEF InsertPermanent
  <2> QED
    BY <1>13, <1>0, <2>1
    DEF TypeOK, Works, InsertPermanent, Record, Settled, topic, MayCommit
<1>14. ASSUME NEW w \in Workers, NEW sent \in BOOLEAN, ReplyFails(w, sent)
     PROVE  Works(w)
  <2>1. cur[w] \in Messages
    BY <1>14, <1>0, BusyHasMessage DEF ReplyFails
  <2> QED
    BY <1>14, <1>0, <2>1
    DEF TypeOK, Works, ReplyFails, Record, Settled, topic, MayCommit
<1>15. ASSUME NEW w \in Workers, CommitOk(w) PROVE Finishes(w)
  BY <1>15 DEF Finishes, CommitOk, NextMessage, MayCommit
<1>16. ASSUME NEW w \in Workers, NEW failed \in BOOLEAN, CommitSkip(w, failed)
     PROVE  Finishes(w)
  BY <1>16 DEF Finishes, CommitSkip, NextMessage, MayCommit
<1>17. ASSUME NEW w \in Workers, NEW applied \in BOOLEAN, InsertTransient(w, applied)
     PROVE  Rewinds(w) \/ Dies(w)
  BY <1>17 DEF Rewinds, Dies, InsertTransient, SeekBack, Stop, MayCommit
<1>18. ASSUME NEW w \in Workers, NEW applied \in BOOLEAN, CommitTransient(w, applied)
     PROVE  Rewinds(w) \/ Dies(w)
  BY <1>18 DEF Rewinds, Dies, CommitTransient, SeekBack, Stop, MayCommit
<1>19. ASSUME NEW w \in Workers, NEW applied \in BOOLEAN, CommitPermanent(w, applied)
     PROVE  Works(w)
  BY <1>19, <1>0
  DEF Works, CommitPermanent, effects, MayCommit, DoneSettled, Settled
<1>20. ASSUME NEW w \in Workers, Wake(w) \/ Restart(w) PROVE Resumes(w)
  BY <1>20 DEF Resumes, Wake, Restart, topic
<1>21. ASSUME NEW w \in Workers, Crash(w) PROVE Dies(w)
  BY <1>21 DEF Dies, Crash, Stop, MayCommit
<1>22. CASE TakeOver \/ Shuffle
  BY <1>22 DEF TakeOver, Shuffle
<1>23. CASE UNCHANGED vars
  BY <1>23 DEF vars, Quiet
<1> QED
  BY <1>1, <1>2, <1>3, <1>4, <1>5, <1>6, <1>7, <1>8, <1>9, <1>10, <1>11, <1>12, <1>13, <1>14, <1>15, <1>16, <1>17, <1>18, <1>19, <1>20, <1>21, <1>22, <1>23
  DEF Next, Step, FailingStep, Environment

(* No disposition is ever taken back.                                      *)
LEMMA SettledStays ==
  ASSUME TypeOK, [Next]_vars, NEW m \in Messages, Settled(m)
  PROVE  Settled(m)'
<1>1. ASSUME NEW n, NEW result, Record(n, result) PROVE Settled(m)'
  BY <1>1 DEF TypeOK, Record, Settled
<1>2. CASE UNCHANGED outcome
  BY <1>2 DEF Settled
<1> DEFINE Keeps == UNCHANGED outcome \/ \E n, result : Record(n, result)
<1>3. ASSUME NEW w \in Workers, NEW p \in Partitions, DispatchScan(w, p) PROVE Keeps
  BY <1>3 DEF DispatchScan, effects
<1>4. ASSUME NEW w \in Workers, NEW p \in Partitions, DispatchCheck(w, p) PROVE Keeps
  BY <1>4 DEF DispatchCheck, effects
<1>5. ASSUME NEW w \in Workers, NEW p \in Partitions, DispatchNothing(w, p) PROVE Keeps
  BY <1>5 DEF DispatchNothing, effects
<1>6. ASSUME NEW w \in Workers, NEW p \in Partitions, DispatchRaises(w, p) PROVE Keeps
  BY <1>6 DEF DispatchRaises, effects
<1>7. ASSUME NEW w \in Workers, NEW p \in Partitions, DecodeFails(w, p) PROVE Keeps
  BY <1>7 DEF DecodeFails, effects, Stop
<1>8. ASSUME NEW w \in Workers, ScanOk(w) PROVE Keeps
  BY <1>8 DEF ScanOk, effects
<1>9. ASSUME NEW w \in Workers, ScanFails(w) PROVE Keeps
  BY <1>9 DEF ScanFails, effects
<1>10. ASSUME NEW w \in Workers, NEW failed \in BOOLEAN, StoreMarker(w, failed) PROVE Keeps
  BY <1>10 DEF StoreMarker, effects
<1>11. ASSUME NEW w \in Workers, InsertOk(w) PROVE Keeps
  BY <1>11 DEF InsertOk, effects
<1>12. ASSUME NEW w \in Workers, PublishEnriched(w) PROVE Keeps
  BY <1>12 DEF PublishEnriched, effects
<1>13. ASSUME NEW w \in Workers, CheckDone(w) PROVE Keeps
  BY <1>13 DEF CheckDone, effects
<1>14. ASSUME NEW w \in Workers, ReplySent(w) PROVE Keeps
  BY <1>14 DEF ReplySent, effects
<1>15. ASSUME NEW w \in Workers, CommitOk(w) PROVE Keeps
  BY <1>15 DEF CommitOk, effects, NextMessage
<1>16. ASSUME NEW w \in Workers, NEW failed \in BOOLEAN, CommitSkip(w, failed) PROVE Keeps
  BY <1>16 DEF CommitSkip, effects, NextMessage
<1>17. ASSUME NEW w \in Workers, Wake(w) PROVE Keeps
  BY <1>17 DEF Wake, effects
<1>18. ASSUME NEW w \in Workers, InsertPermanent(w) PROVE Keeps
  BY <1>18 DEF InsertPermanent, effects
<1>19. ASSUME NEW w \in Workers, NEW late \in BOOLEAN, InsertTransient(w, late) PROVE Keeps
  BY <1>19 DEF InsertTransient, effects, SeekBack, Stop
<1>20. ASSUME NEW w \in Workers, NEW late \in BOOLEAN, ReplyFails(w, late) PROVE Keeps
  BY <1>20 DEF ReplyFails, effects
<1>21. ASSUME NEW w \in Workers, NEW late \in BOOLEAN, CommitTransient(w, late) PROVE Keeps
  BY <1>21 DEF CommitTransient, effects, SeekBack, Stop
<1>22. ASSUME NEW w \in Workers, NEW late \in BOOLEAN, CommitPermanent(w, late) PROVE Keeps
  BY <1>22 DEF CommitPermanent, effects, SeekBack, Stop
<1>23. ASSUME Environment PROVE Keeps
  BY <1>23 DEF Environment, TakeOver, Shuffle, Rebalance, Crash, Restart, Stop, effects
<1>24. Keeps
  BY <1>3, <1>4, <1>5, <1>6, <1>7, <1>8, <1>9, <1>10, <1>11, <1>12, <1>13, <1>14, <1>15, <1>16, <1>17, <1>18, <1>19, <1>20, <1>21, <1>22, <1>23
  DEF Next, Step, FailingStep, vars
<1> QED
  BY <1>1, <1>2, <1>24

-----------------------------------------------------------------------------
(* A worker is idle exactly when it has no message.                        *)
LEMMA BusyStep ==
  ASSUME DeliveryInv, [Next]_vars
  PROVE  BusyWithMessage'
<1> USE DEF IdleStates, BusyStates, BusyWithMessage
<1>0. TypeOK /\ BusyWithMessage
  BY DEF DeliveryInv
<1>1. ASSUME NEW w \in Workers, NEW p \in Partitions, Takes(w, p)
      PROVE  BusyWithMessage'
  <2>1. <<p, pos[p]>> # NoMessage
    BY <1>0, <1>1, MessageParts, SentinelAssumption, LogAssumption
    DEF TypeOK, Takes
  <2> QED
    BY <1>0, <1>1, <2>1 DEF TypeOK, Takes, Goto
<1>2. ASSUME NEW w \in Workers,
             Works(w) \/ Finishes(w) \/ Rewinds(w) \/ Dies(w) \/ Resumes(w)
      PROVE  BusyWithMessage'
  BY <1>0, <1>2 DEF TypeOK, Works, Finishes, Rewinds, Dies, Resumes, Goto
<1>3. CASE Rebalance \/ Quiet
  BY <1>0, <1>3 DEF Rebalance, Quiet
<1> QED
  BY <1>1, <1>2, <1>3, StepKinds

(* What a worker commits past is settled when it gets there.               *)
LEMMA DoneStep ==
  ASSUME DeliveryInv, [Next]_vars
  PROVE  DoneSettled'
<1> USE DEF IdleStates, BusyStates, DoneStates
<1>0. TypeOK /\ BusyWithMessage /\ DoneSettled
  BY DEF DeliveryInv
<1> SUFFICES ASSUME NEW v \in Workers, pc'[v] \in DoneStates
             PROVE  outcome'[cur'[v]] # {}
  BY DEF DoneSettled, Settled
<1>1. ASSUME pc'[v] = pc[v], cur'[v] = cur[v] PROVE outcome'[cur'[v]] # {}
  <2>1. cur[v] \in Messages /\ Settled(cur[v])
    BY <1>0, <1>1, BusyHasMessage DEF DoneSettled
  <2> QED
    BY <1>0, <1>1, <2>1, SettledStays DEF Settled
<1>2. ASSUME NEW w \in Workers, NEW p \in Partitions, Takes(w, p)
      PROVE  outcome'[cur'[v]] # {}
  BY <1>0, <1>1, <1>2 DEF TypeOK, Takes, Goto
<1>3. ASSUME NEW w \in Workers,
             Works(w) \/ Finishes(w) \/ Rewinds(w) \/ Dies(w) \/ Resumes(w)
      PROVE  outcome'[cur'[v]] # {}
  BY <1>0, <1>1, <1>3
  DEF TypeOK, Works, Finishes, Rewinds, Dies, Resumes, Goto
<1>4. CASE Rebalance \/ Quiet
  BY <1>1, <1>4 DEF Rebalance, Quiet
<1> QED
  BY <1>2, <1>3, <1>4, StepKinds

(* A commit goes out when everything below the owner's positions is        *)
(* settled: the message in work, the only exception, is by then.           *)
LEMMA CommitCovers ==
  ASSUME DeliveryInv, NEW w \in Workers, MayCommit(w),
         NEW m \in Messages, m[2] < committed'[m[1]]
  PROVE  Settled(m)
<1>0. TypeOK /\ CommittedSettled /\ PositionSettled /\ DoneSettled
  BY DEF DeliveryInv
<1>1. CASE m[2] < committed[m[1]]
  BY <1>0, <1>1 DEF CommittedSettled
<1>2. CASE ~(m[2] < committed[m[1]])
  <2>1. pc[w] \in DoneStates /\ owner[m[1]] = w /\ m[2] < pos[m[1]]
    BY <1>0, <1>2, MessageParts
    DEF TypeOK, MayCommit, CommitPositions, DoneStates
  <2>2. Settled(m) \/ cur[w] = m
    BY <1>0, <2>1 DEF PositionSettled
  <2> QED
    BY <1>0, <2>1, <2>2 DEF DoneSettled
<1> QED
  BY <1>1, <1>2

LEMMA CommittedStep ==
  ASSUME DeliveryInv, [Next]_vars
  PROVE  CommittedSettled'
<1> SUFFICES ASSUME NEW m \in Messages, m[2] < committed'[m[1]]
             PROVE  Settled(m)
  BY SettledStays DEF CommittedSettled, DeliveryInv
<1>0. CommittedSettled
  BY DEF DeliveryInv
<1>1. CASE UNCHANGED committed
  BY <1>0, <1>1 DEF CommittedSettled
<1>2. ASSUME NEW w \in Workers, MayCommit(w) PROVE Settled(m)
  BY <1>2, CommitCovers
<1> QED
  BY <1>1, <1>2, StepKinds
  DEF Takes, Works, Finishes, Rewinds, Dies, Resumes, Rebalance, Quiet

(* An idle owner's position, hence the message it takes up next, has only  *)
(* settled messages below it.                                              *)
LEMMA InOrderStep ==
  ASSUME DeliveryInv, [Next]_vars
  PROVE  InOrder'
<1>0. TypeOK /\ InOrder /\ PositionSettled /\ BusyWithMessage
  BY DEF DeliveryInv
<1> SUFFICES ASSUME NEW v \in Workers, cur'[v] # NoMessage,
                    NEW m \in Messages,
                    m[1] = cur'[v][1], m[2] < cur'[v][2]
             PROVE  Settled(m)
  BY <1>0, SettledStays DEF InOrder
<1>1. CASE cur'[v] = cur[v]
  BY <1>0, <1>1 DEF InOrder
<1>2. CASE \E p \in Partitions : Takes(v, p)
  <2> PICK p \in Partitions : Takes(v, p)
    BY <1>2
  <2>1. cur[v] = NoMessage /\ owner[p] = v
    BY <1>0 DEF Takes, BusyWithMessage, IdleStates
  <2>2. cur'[v] = <<p, pos[p]>>
    BY <1>0 DEF TypeOK, Takes
  <2>3. m[1] = p /\ m[2] < pos[p] /\ m # NoMessage
    BY <2>2, SentinelAssumption
  <2> QED
    BY <1>0, <2>1, <2>3 DEF PositionSettled
<1>3. CASE cur'[v] = NoMessage
  BY <1>3
<1>4. ASSUME NEW w \in Workers, NEW p \in Partitions, Takes(w, p)
      PROVE  cur'[v] = cur[v] \/ w = v
  BY <1>0, <1>4 DEF TypeOK, Takes
<1>5. ASSUME NEW w \in Workers,
             Works(w) \/ Finishes(w) \/ Rewinds(w) \/ Dies(w) \/ Resumes(w)
      PROVE  cur'[v] = cur[v] \/ cur'[v] = NoMessage
  BY <1>0, <1>5 DEF TypeOK, Works, Finishes, Rewinds, Dies, Resumes
<1>6. CASE Rebalance \/ Quiet
  BY <1>1, <1>6 DEF Rebalance, Quiet
<1> QED
  BY <1>1, <1>2, <1>3, <1>4, <1>5, <1>6, StepKinds

(* Positions move past a message only when their owner takes it up, and    *)
(* are otherwise set to the message in work or to the committed offset.    *)
LEMMA PositionStep ==
  ASSUME DeliveryInv, [Next]_vars
  PROVE  PositionSettled'
<1> USE DEF IdleStates, BusyStates, DoneStates
<1>0. /\ TypeOK /\ CommittedSettled /\ InOrder
      /\ PositionSettled /\ BusyWithMessage /\ DoneSettled
  BY DEF DeliveryInv
<1> SUFFICES ASSUME NEW m \in Messages, owner'[m[1]] \in Workers,
                    m[2] < pos'[m[1]]
             PROVE  Settled(m)' \/ cur'[owner'[m[1]]] = m
  BY DEF PositionSettled
<1>M. m[1] \in Partitions /\ m[2] \in Nat /\ m = <<m[1], m[2]>>
  BY MessageParts
<1>S. Settled(m) => Settled(m)'
  BY <1>0, SettledStays
<1>K. ASSUME owner'[m[1]] = owner[m[1]], m[2] < pos[m[1]],
             \/ cur'[owner[m[1]]] = cur[owner[m[1]]]
             \/ cur[owner[m[1]]] = NoMessage
             \/ pc[owner[m[1]]] \in DoneStates
      PROVE  Settled(m)' \/ cur'[owner'[m[1]]] = m
  BY <1>0, <1>S, <1>K, SentinelAssumption DEF PositionSettled, DoneSettled
<1>1. ASSUME NEW w \in Workers, NEW p \in Partitions, Takes(w, p)
      PROVE  Settled(m)' \/ cur'[owner'[m[1]]] = m
  <2>1. CASE m = <<p, pos[p]>>
    BY <1>0, <1>1, <2>1 DEF TypeOK, Takes
  <2>2. CASE m # <<p, pos[p]>>
    <3>1. m[2] < pos[m[1]]
      BY <1>0, <1>1, <1>M, <2>2 DEF TypeOK, Takes
    <3> QED
      BY <1>0, <1>1, <1>K, <3>1 DEF TypeOK, Takes, BusyWithMessage
  <2> QED
    BY <2>1, <2>2
<1>2. ASSUME NEW w \in Workers, Works(w) \/ Finishes(w) \/ Resumes(w)
      PROVE  Settled(m)' \/ cur'[owner'[m[1]]] = m
  BY <1>0, <1>2, <1>K DEF TypeOK, Works, Finishes, Resumes
<1>3. ASSUME NEW w \in Workers, Rewinds(w)
      PROVE  Settled(m)' \/ cur'[owner'[m[1]]] = m
  <2>1. cur[w] \in Messages /\ cur[w] # NoMessage
    BY <1>0, <1>3, BusyHasMessage DEF Rewinds
  <2>2. CASE m[1] = cur[w][1]
    <3>1. m[2] < cur[w][2]
      BY <1>0, <1>3, <2>1, <2>2, <1>M, MessageParts DEF TypeOK, Rewinds
    <3> QED
      BY <1>0, <1>S, <2>1, <2>2, <3>1 DEF InOrder
  <2>3. CASE m[1] # cur[w][1]
    <3>1. m[2] < pos[m[1]] /\ owner'[m[1]] = owner[m[1]]
      BY <1>0, <1>3, <2>3, <1>M DEF TypeOK, Rewinds
    <3>2. Settled(m) \/ cur[owner[m[1]]] = m
      BY <1>0, <3>1 DEF PositionSettled
    <3>3. CASE owner[m[1]] = w
      BY <1>S, <2>3, <3>2, <3>3
    <3>4. CASE owner[m[1]] # w
      BY <1>0, <1>3, <1>K, <3>1, <3>4 DEF TypeOK, Rewinds
    <3> QED
      BY <3>3, <3>4
  <2> QED
    BY <2>2, <2>3
<1>4. ASSUME NEW w \in Workers, Dies(w)
      PROVE  Settled(m)' \/ cur'[owner'[m[1]]] = m
  <2>1. owner[m[1]] # w /\ owner'[m[1]] = owner[m[1]] /\ m[2] < pos[m[1]]
    BY <1>0, <1>4, <1>M, SentinelAssumption DEF TypeOK, Dies
  <2> QED
    BY <1>0, <1>4, <1>K, <2>1 DEF TypeOK, Dies
<1>5. CASE Rebalance
  BY <1>0, <1>5, <1>S DEF Rebalance, CommittedSettled
<1>6. CASE Quiet
  BY <1>6, <1>K DEF Quiet
<1> QED
  BY <1>1, <1>2, <1>3, <1>4, <1>5, <1>6, StepKinds

-----------------------------------------------------------------------------
(* The inductive invariant holds in every reachable state.                 *)
THEOREM DeliveryInvariant == Spec => []DeliveryInv
<1>1. Init => DeliveryInv
  BY InitInvariant
<1>2. DeliveryInv /\ [Next]_vars => DeliveryInv'
  BY TypeStep, BusyStep, DoneStep, CommittedStep, InOrderStep, PositionStep
  DEF DeliveryInv
<1> QED
  BY <1>1, <1>2, PTL DEF Spec

(* The state of the loop and the group keeps its types, for any number of  *)
(* workers, partitions, messages and failures.                             *)
THEOREM TypeCorrect == Spec => []TypeOK
<1>1. DeliveryInv => TypeOK
  BY DEF DeliveryInv
<1> QED
  BY <1>1, DeliveryInvariant, PTL

(* No commit, seek-back, crash, restart or rebalance loses a message.      *)
THEOREM NoMessageLost == Spec => []CommittedSettled
<1>1. DeliveryInv => CommittedSettled
  BY DEF DeliveryInv
<1> QED
  BY <1>1, DeliveryInvariant, PTL

(* A message is taken up only when everything before it is settled.        *)
THEOREM WorkedThroughInOrder == Spec => []InOrder
<1>1. DeliveryInv => InOrder
  BY DEF DeliveryInv
<1> QED
  BY <1>1, DeliveryInvariant, PTL

-----------------------------------------------------------------------------
(* A step settles messages or commits, not both.                           *)
LEMMA SettlesOrCommits ==
  ASSUME TypeOK, [Next]_vars
  PROVE  UNCHANGED committed \/ UNCHANGED outcome
<1>1. ASSUME NEW w \in Workers,
             \/ CommitOk(w)
             \/ \E b \in BOOLEAN : \/ CommitSkip(w, b)
                                   \/ CommitTransient(w, b)
                                   \/ CommitPermanent(w, b)
      PROVE  UNCHANGED outcome
  BY <1>1 DEF CommitOk, CommitSkip, CommitTransient, CommitPermanent, effects,
              NextMessage, SeekBack, Stop
<1>2. ASSUME NEW w \in Workers, NEW p \in Partitions,
             \/ DispatchScan(w, p) \/ DispatchCheck(w, p)
             \/ DispatchNothing(w, p) \/ DispatchRaises(w, p)
             \/ DecodeFails(w, p)
      PROVE  UNCHANGED committed
  BY <1>2 DEF DispatchScan, DispatchCheck, DispatchNothing, DispatchRaises,
              DecodeFails, Receive
<1>3. ASSUME NEW w \in Workers,
             \/ ScanOk(w) \/ ScanFails(w) \/ InsertOk(w) \/ InsertPermanent(w)
             \/ PublishEnriched(w) \/ CheckDone(w) \/ ReplySent(w) \/ Wake(w)
             \/ Crash(w) \/ Restart(w)
             \/ \E b \in BOOLEAN : \/ StoreMarker(w, b) \/ ReplyFails(w, b)
                                   \/ InsertTransient(w, b)
      PROVE  UNCHANGED committed
  BY <1>3 DEF ScanOk, ScanFails, InsertOk, InsertPermanent, PublishEnriched,
              CheckDone, ReplySent, Wake, Crash, Restart, StoreMarker,
              ReplyFails, InsertTransient, topic
<1>4. CASE TakeOver \/ Shuffle \/ UNCHANGED vars
  BY <1>4 DEF TakeOver, Shuffle, Rebalance, vars
<1> QED
  BY <1>1, <1>2, <1>3, <1>4 DEF Next, Step, FailingStep, Environment

(* The consumer loop implements at-least-once delivery: its initial states *)
(* map to Delivery's, and each of its steps to a Settle, to a Commit of a  *)
(* settled prefix, or to nothing.                                          *)
THEOREM ImplementsDelivery == Spec => AtLeastOnce
<1>M. D!Messages = Messages
  BY DEF D!Messages, Messages
<1>1. Init => D!Init
  BY DEF Init, D!Init, Settled
<1>2. DeliveryInv /\ DeliveryInv' /\ [Next]_vars => [D!Next]_D!vars
  <2> SUFFICES ASSUME DeliveryInv, DeliveryInv', [Next]_vars
               PROVE  D!Settle \/ D!Commit \/ UNCHANGED D!vars
    BY DEF D!Next
  <2>0. TypeOK /\ TypeOK' /\ CommittedSettled'
    BY DEF DeliveryInv
  <2>1. CASE UNCHANGED committed
    <3>1. {m \in Messages : Settled(m)} \subseteq
            {m \in Messages : Settled(m)'}
      BY <2>0, SettledStays
    <3>2. D!Settle
      BY <2>1, <3>1, <1>M DEF D!Settle
    <3> QED
      BY <3>2
  <2>2. CASE UNCHANGED outcome
    <3>1. \A m \in Messages : Settled(m)' <=> Settled(m)
      BY <2>2 DEF Settled
    <3>2. D!Commit
      BY <2>0, <2>2, <3>1, <1>M DEF D!Commit, TypeOK, CommittedSettled
    <3> QED
      BY <3>2
  <2> QED
    BY <2>0, <2>1, <2>2, SettlesOrCommits
<1> QED
  BY <1>1, <1>2, DeliveryInvariant, PTL DEF Spec, AtLeastOnce, D!Spec
-----------------------------------------------------------------------------
(* Repeated effects: EffectsInv is inductive beside DeliveryInv.           *)

LEMMA CountOneMore ==
  ASSUME NEW S, IsFiniteSet(S), NEW x, NEW T, T \subseteq S \union {x}
  PROVE  IsFiniteSet(T) /\ Cardinality(T) <= Cardinality(S) + 1
<1>1. IsFiniteSet(S \union {x}) /\ Cardinality(S) \in Nat
  BY FS_AddElement, FS_CardinalityType
<1>2. Cardinality(S \union {x}) <= Cardinality(S) + 1
  BY <1>1, FS_AddElement
<1>3. /\ IsFiniteSet(T) /\ Cardinality(T) \in Nat
      /\ Cardinality(T) <= Cardinality(S \union {x})
  BY <1>1, FS_Subset, FS_CardinalityType
<1>4. Cardinality(S \union {x}) \in Nat
  BY <1>1, FS_CardinalityType
<1> QED
  BY <1>1, <1>2, <1>3, <1>4

LEMMA CountOneLess ==
  ASSUME NEW S, IsFiniteSet(S), NEW x \in S, NEW T, T \subseteq S \ {x}
  PROVE  IsFiniteSet(T) /\ Cardinality(T) + 1 <= Cardinality(S)
<1>1. /\ IsFiniteSet(S \ {x}) /\ Cardinality(S \ {x}) = Cardinality(S) - 1
      /\ Cardinality(S) \in Nat
  BY FS_RemoveElement, FS_CardinalityType
<1>2. /\ IsFiniteSet(T) /\ Cardinality(T) \in Nat
      /\ Cardinality(T) <= Cardinality(S \ {x})
  BY <1>1, FS_Subset, FS_CardinalityType
<1> QED
  BY <1>1, <1>2

PendingStates == {"scan", "insert", "check", "reply"}

(* Seen from the ledger: w goes on, or gives up, and may do something for  *)
(* its message; it may then seek back, which is a disturbance.             *)
GoesOn(w) ==
  /\ \E state \in IdleStates \union BusyStates :
       /\ Goto(w, state)
       /\ \/ /\ copies' = copies
             /\ state \in PendingStates => pc[w] \in PendingStates /\ cur' = cur
          \/ /\ CountCopy(cur[w])
             /\ pc[w] \in PendingStates
             /\ state \notin PendingStates
  /\ cur' = cur \/ cur' = [cur EXCEPT ![w] = NoMessage]
  /\ log' = log

StaysPut(w) == GoesOn(w) /\ pos' = pos /\ faults' \in {faults, faults + 1}

SeeksBack(w) ==
  /\ GoesOn(w)
  /\ pos' = [pos EXCEPT ![cur[w][1]] = cur[w][2]]
  /\ cur[w] \in Messages /\ log[cur[w]] \notin SyncKinds
  /\ faults' = faults + 1

Starts(w, p) ==
  /\ Receive(w, p, Kinds)
  /\ \E state \in BusyStates : Goto(w, state)

HandsOut ==
  /\ Rebalance
  /\ faults' = faults + 1 \/ faults' = MaxFaults

LEMMA EffectKinds ==
  ASSUME DeliveryInv, KindOfWork, [Next]_vars
  PROVE  \/ \E w \in Workers, p \in Partitions : Starts(w, p)
         \/ \E w \in Workers : StaysPut(w) \/ SeeksBack(w)
         \/ HandsOut
         \/ UNCHANGED vars
<1> USE DEF IdleStates, BusyStates, PendingStates, Fault, NoFault
<1>0. TypeOK /\ BusyWithMessage
  BY DEF DeliveryInv
<1>1. ASSUME NEW w \in Workers, NEW p \in Partitions,
             \/ DispatchScan(w, p) \/ DispatchCheck(w, p)
             \/ DispatchNothing(w, p) \/ DispatchRaises(w, p)
      PROVE  Starts(w, p)
  <2>1. /\ \E kinds \in SUBSET Kinds : Receive(w, p, kinds)
        /\ \E state \in BusyStates : Goto(w, state)
    BY <1>1 DEF DispatchScan, DispatchCheck, DispatchNothing, DispatchRaises,
                Kinds, SyncKinds
  <2> QED
    BY <2>1 DEF Starts, Receive
<1>2. ASSUME NEW w \in Workers, NEW p \in Partitions, DecodeFails(w, p)
      PROVE  StaysPut(w)
  BY <1>2 DEF StaysPut, GoesOn, DecodeFails, Stop
<1>3. ASSUME NEW w \in Workers,
             \/ ScanOk(w) \/ ScanFails(w) \/ PublishEnriched(w)
             \/ Wake(w) \/ Restart(w)
      PROVE  StaysPut(w)
  BY <1>3 DEF StaysPut, GoesOn, ScanOk, ScanFails, PublishEnriched, Wake, Restart,
              topic, effects
<1>4. ASSUME NEW w \in Workers, NEW b \in BOOLEAN,
             StoreMarker(w, b) \/ CommitSkip(w, b) \/ CommitPermanent(w, b)
      PROVE  StaysPut(w)
  BY <1>4 DEF StaysPut, GoesOn, StoreMarker, CommitSkip, CommitPermanent, MayFail,
              NextMessage, topic, effects
<1>5. ASSUME NEW w \in Workers, CheckDone(w) \/ CommitOk(w) \/ InsertPermanent(w)
      PROVE  StaysPut(w)
  BY <1>5 DEF StaysPut, GoesOn, CheckDone, CommitOk, InsertPermanent,
              NextMessage, topic
<1>6. ASSUME NEW w \in Workers, InsertOk(w) \/ ReplySent(w) PROVE StaysPut(w)
  BY <1>6 DEF StaysPut, GoesOn, InsertOk, ReplySent, topic
<1>7. ASSUME NEW w \in Workers, NEW sent \in BOOLEAN, ReplyFails(w, sent)
      PROVE  StaysPut(w)
  BY <1>7 DEF StaysPut, GoesOn, ReplyFails, topic
<1>8. ASSUME NEW w \in Workers, NEW applied \in BOOLEAN,
             InsertTransient(w, applied) \/ CommitTransient(w, applied)
      PROVE  StaysPut(w) \/ SeeksBack(w)
  <2>1. cur[w] \in Messages /\ log[cur[w]] \notin SyncKinds
    BY <1>0, <1>8, BusyHasMessage
    DEF InsertTransient, CommitTransient, KindOfWork, SyncKinds
  <2>2. /\ faults' = faults + 1
        /\ \/ CountCopy(cur[w]) /\ pc[w] \in PendingStates
           \/ copies' = copies
    BY <1>8 DEF InsertTransient, CommitTransient
  <2>3. CASE Stop(w)
    BY <2>2, <2>3 DEF StaysPut, GoesOn, Stop
  <2>4. CASE /\ pos' = [pos EXCEPT ![cur[w][1]] = cur[w][2]]
             /\ cur' = [cur EXCEPT ![w] = NoMessage]
             /\ Goto(w, "backoff")
             /\ UNCHANGED <<log, owner, backoff, outcome, reassigned>>
    BY <2>1, <2>2, <2>4 DEF SeeksBack, GoesOn
  <2> QED
    BY <1>8, <2>3, <2>4 DEF InsertTransient, CommitTransient, SeekBack
<1>9. ASSUME NEW w \in Workers, Crash(w) PROVE StaysPut(w)
  BY <1>9 DEF StaysPut, GoesOn, Crash, Stop
<1>10. CASE TakeOver \/ Shuffle
  BY <1>0, <1>10, FaultAssumption DEF TakeOver, Shuffle, HandsOut, TypeOK
<1> QED
  BY <1>1, <1>2, <1>3, <1>4, <1>5, <1>6, <1>7, <1>8, <1>9, <1>10
  DEF Next, Step, FailingStep, Environment

(* A worker that goes on takes up no new work, and what it does for its    *)
(* message ends the work on it.                                            *)
LEMMA WorkLeft ==
  ASSUME TypeOK, BusyWithMessage, NEW w \in Workers, GoesOn(w), NEW m \in Messages
  PROVE  /\ copies'[m] \in Nat /\ copies[m] \in Nat
         /\ \/ copies'[m] = copies[m] /\ AtWork(m)' \subseteq AtWork(m)
            \/ /\ m = cur[w] /\ copies'[m] <= copies[m] + 1
               /\ w \in AtWork(m) /\ AtWork(m)' \subseteq AtWork(m) \ {w}
<1> USE DEF PendingStates
<1>1. copies' \in [Messages -> 0 .. MaxFaults + 1]
  BY CountType DEF GoesOn, TypeOK
<1>2. copies'[m] \in Nat /\ copies[m] \in Nat
  BY <1>1, FaultAssumption DEF TypeOK
<1>3. PICK state \in IdleStates \union BusyStates :
        /\ pc' = [pc EXCEPT ![w] = state]
        /\ \/ copies' = copies /\ (state \in PendingStates => pc[w] \in PendingStates /\ cur' = cur)
           \/ CountCopy(cur[w]) /\ pc[w] \in PendingStates /\ state \notin PendingStates
  BY DEF GoesOn, Goto
<1>4. cur' = cur \/ cur' = [cur EXCEPT ![w] = NoMessage]
  BY DEF GoesOn
<1>5. AtWork(m)' = {v \in Workers : cur'[v] = m /\ pc'[v] \in PendingStates}
  BY DEF AtWork
<1>6. pc'[w] = state /\ \A v \in Workers \ {w} : pc'[v] = pc[v] /\ cur'[v] = cur[v]
  BY <1>3, <1>4 DEF TypeOK
<1>7. state \in PendingStates \/ AtWork(m)' \subseteq AtWork(m) \ {w}
  BY <1>5, <1>6 DEF AtWork
<1>8. CASE copies' = copies
  <2>1. AtWork(m)' \subseteq AtWork(m)
    BY <1>3, <1>5, <1>6, <1>7, <1>8 DEF AtWork
  <2> QED
    BY <1>2, <1>8, <2>1
<1>9. CASE CountCopy(cur[w]) /\ pc[w] \in PendingStates /\ state \notin PendingStates
  <2>1. m # cur[w] => copies'[m] = copies[m]
    BY <1>9 DEF CountCopy, TypeOK
  <2>2. copies'[m] <= copies[m] + 1
    BY <1>2, <1>9 DEF CountCopy, TypeOK
  <2>3. m = cur[w] => w \in AtWork(m)
    BY <1>9 DEF AtWork
  <2> QED
    BY <1>2, <1>7, <1>9, <2>1, <2>2, <2>3
<1> QED
  BY <1>3, <1>8, <1>9

(* In terms of the ledger: such a step leaves no more work than it found.  *)
LEMMA LedgerLeft ==
  ASSUME TypeOK, BusyWithMessage, NEW w \in Workers, GoesOn(w), NEW m \in Messages,
         IsFiniteSet(AtWork(m))
  PROVE  /\ IsFiniteSet(AtWork(m)')
         /\ copies'[m] + Cardinality(AtWork(m)') <= copies[m] + Cardinality(AtWork(m))
<1> DEFINE S == AtWork(m)
           T == AtWork(m)'
<1>1. copies'[m] \in Nat /\ copies[m] \in Nat
  BY WorkLeft
<1>2. \/ copies'[m] = copies[m] /\ T \subseteq S
      \/ copies'[m] <= copies[m] + 1 /\ w \in S /\ T \subseteq S \ {w}
  BY WorkLeft
<1>3. IsFiniteSet(S)
  OBVIOUS
<1> HIDE DEF S, T
<1>4. CASE copies'[m] = copies[m] /\ T \subseteq S
  <2>1. IsFiniteSet(T) /\ Cardinality(T) <= Cardinality(S)
    BY <1>3, <1>4, FS_Subset
  <2>2. Cardinality(T) \in Nat /\ Cardinality(S) \in Nat
    BY <1>3, <2>1, FS_CardinalityType
  <2>3. copies'[m] + Cardinality(T) <= copies[m] + Cardinality(S)
    BY <1>1, <1>4, <2>1, <2>2
  <2> QED
    BY <2>1, <2>3 DEF S, T
<1>5. CASE copies'[m] <= copies[m] + 1 /\ w \in S /\ T \subseteq S \ {w}
  <2>1. IsFiniteSet(T) /\ Cardinality(T) + 1 <= Cardinality(S)
    BY <1>3, <1>5, CountOneLess
  <2>2. Cardinality(T) \in Nat /\ Cardinality(S) \in Nat
    BY <1>3, <2>1, FS_CardinalityType
  <2>3. copies'[m] + Cardinality(T) <= copies[m] + Cardinality(S)
    BY <1>1, <1>5, <2>1, <2>2
  <2> QED
    BY <2>1, <2>3 DEF S, T
<1> QED
  BY <1>2, <1>4, <1>5

(* No step adds more to a ledger than it pays for.                         *)
LEMMA LedgerStep ==
  ASSUME DeliveryInv, KindOfWork, EffectsPaid, [Next]_vars
  PROVE  EffectsPaid'
<1>0. TypeOK /\ BusyWithMessage /\ TypeOK'
  BY TypeStep DEF DeliveryInv
<1> SUFFICES ASSUME faults' < MaxFaults, NEW m \in Messages
             PROVE  /\ IsFiniteSet(AtWork(m)')
                    /\ copies'[m] + Cardinality(AtWork(m)') + Due(m)' <= 1 + faults'
  BY DEF EffectsPaid
<1>1. /\ copies[m] \in Nat /\ copies'[m] \in Nat
      /\ faults \in Nat /\ faults' \in Nat
      /\ MaxFaults \in Nat
  BY <1>0, FaultAssumption DEF TypeOK
<1>2. Due(m) \in {0, 1} /\ Due(m)' \in {0, 1}
  BY DEF Due
<1>3. faults <= faults'
  <2>1. ASSUME NEW w \in Workers, NEW p \in Partitions, Starts(w, p) PROVE faults <= faults'
    BY <1>1, <2>1 DEF Starts, Receive, NoFault
  <2>2. ASSUME NEW w \in Workers, StaysPut(w) \/ SeeksBack(w) PROVE faults <= faults'
    BY <1>1, <2>2 DEF StaysPut, SeeksBack
  <2>3. CASE HandsOut \/ UNCHANGED vars
    BY <1>1, <2>3 DEF HandsOut, vars
  <2> QED
    BY <2>1, <2>2, <2>3, EffectKinds
<1>4. /\ IsFiniteSet(AtWork(m)) /\ Cardinality(AtWork(m)) \in Nat
      /\ copies[m] + Cardinality(AtWork(m)) + Due(m) <= 1 + faults
  BY <1>1, <1>3, FS_CardinalityType DEF EffectsPaid
<1>K. ASSUME IsFiniteSet(AtWork(m)'),
             copies'[m] + Cardinality(AtWork(m)') <= copies[m] + Cardinality(AtWork(m)),
             Due(m)' <= Due(m) \/ faults' = faults + 1
      PROVE  /\ IsFiniteSet(AtWork(m)')
             /\ copies'[m] + Cardinality(AtWork(m)') + Due(m)' <= 1 + faults'
  <2>1. Cardinality(AtWork(m)') \in Nat
    BY <1>K, FS_CardinalityType
  <2> QED
    BY <1>1, <1>2, <1>3, <1>4, <1>K, <2>1
<1>5. ASSUME NEW w \in Workers, NEW p \in Partitions, Starts(w, p)
      PROVE  /\ IsFiniteSet(AtWork(m)')
             /\ copies'[m] + Cardinality(AtWork(m)') + Due(m)' <= 1 + faults'
  <2>1. /\ copies' = copies /\ faults' = faults
        /\ pos' = [pos EXCEPT ![p] = pos[p] + 1]
        /\ cur' = [cur EXCEPT ![w] = <<p, pos[p]>>]
        /\ pc[w] = "poll" /\ \E state : pc' = [pc EXCEPT ![w] = state]
    BY <1>5 DEF Starts, Receive, NoFault, Goto
  <2>2. \A v \in Workers \ {w} : pc'[v] = pc[v] /\ cur'[v] = cur[v]
    BY <1>0, <2>1 DEF TypeOK
  <2>3. CASE m = <<p, pos[p]>>
    <3>1. AtWork(m)' \subseteq AtWork(m) \union {w}
      BY <2>2 DEF AtWork
    <3>2. Due(m) = 1 /\ Due(m)' = 0
      BY <1>0, <2>1, <2>3, MessageParts DEF Due, TypeOK
    <3>3. /\ IsFiniteSet(AtWork(m)') /\ Cardinality(AtWork(m)') \in Nat
          /\ Cardinality(AtWork(m)') <= Cardinality(AtWork(m)) + 1
      BY <1>4, <3>1, CountOneMore, FS_CardinalityType
    <3> QED
      BY <1>1, <1>4, <2>1, <3>2, <3>3
  <2>4. CASE m # <<p, pos[p]>>
    <3>1. AtWork(m)' \subseteq AtWork(m)
      BY <1>0, <2>1, <2>2, <2>4 DEF AtWork, TypeOK
    <3>2. Due(m)' <= Due(m)
      BY <1>0, <2>1, <2>4, MessageParts DEF Due, TypeOK
    <3>3. /\ IsFiniteSet(AtWork(m)') /\ Cardinality(AtWork(m)') \in Nat
          /\ Cardinality(AtWork(m)') <= Cardinality(AtWork(m))
      BY <1>4, <3>1, FS_Subset, FS_CardinalityType
    <3> QED
      BY <1>1, <1>4, <1>K, <2>1, <3>2, <3>3
  <2> QED
    BY <2>3, <2>4
<1>6. ASSUME NEW w \in Workers, StaysPut(w) \/ SeeksBack(w)
      PROVE  /\ IsFiniteSet(AtWork(m)')
             /\ copies'[m] + Cardinality(AtWork(m)') + Due(m)' <= 1 + faults'
  <2>1. GoesOn(w) /\ (pos' = pos \/ faults' = faults + 1)
    BY <1>6 DEF StaysPut, SeeksBack
  <2>2. pos' = pos => Due(m)' = Due(m)
    BY DEF Due
  <2> QED
    BY <1>0, <1>2, <1>4, <1>K, <2>1, <2>2, LedgerLeft
<1>7. CASE HandsOut
  <2>1. AtWork(m)' = AtWork(m) /\ copies' = copies /\ faults' = faults + 1
    BY <1>1, <1>7 DEF HandsOut, Rebalance, AtWork, effects
  <2> QED
    BY <1>1, <1>4, <1>K, <2>1
<1>8. CASE UNCHANGED vars
  <2>1. AtWork(m)' = AtWork(m) /\ copies' = copies /\ Due(m)' = Due(m)
    BY <1>8 DEF vars, AtWork, Due
  <2> QED
    BY <1>1, <1>2, <1>4, <1>K, <2>1
<1> QED
  BY <1>5, <1>6, <1>7, <1>8, EffectKinds

(* A worker turns to the work its message's kind calls for, and kinds do   *)
(* not change.                                                             *)
LEMMA KindStep ==
  ASSUME DeliveryInv, KindOfWork, [Next]_vars
  PROVE  KindOfWork'
<1> USE DEF SyncKinds
<1>0. TypeOK
  BY DEF DeliveryInv
<1>K. ASSUME NEW w \in Workers, NEW state, Goto(w, state), log' = log,
             \/ state \in {"down", "poll", "backoff", "commit", "skip"}
             \/ log[cur'[w]] = "scan" /\ state \in {"scan", "marker", "insert", "publish"}
             \/ log[cur'[w]] \in SyncKinds /\ state = "check"
             \/ log[cur'[w]] = "request" /\ state = "reply",
             \A v \in Workers \ {w} : cur'[v] = cur[v]
      PROVE  KindOfWork'
  <2>1. pc'[w] = state /\ \A v \in Workers \ {w} : pc'[v] = pc[v]
    BY <1>0, <1>K DEF Goto, TypeOK
  <2>2. ASSUME NEW v \in Workers \ {w}
        PROVE  /\ pc'[v] \in {"scan", "marker", "insert", "publish"} => log[cur'[v]] = "scan"
               /\ pc'[v] = "check" => log[cur'[v]] \in SyncKinds
               /\ pc'[v] = "reply" => log[cur'[v]] = "request"
    BY <1>K, <2>1, <2>2 DEF KindOfWork
  <2>3. /\ state \in {"scan", "marker", "insert", "publish"} => log[cur'[w]] = "scan"
        /\ state = "check" => log[cur'[w]] \in SyncKinds
        /\ state = "reply" => log[cur'[w]] = "request"
    BY <1>K
  <2> QED
    BY <1>K, <2>1, <2>2, <2>3 DEF KindOfWork
<1>1. ASSUME NEW w \in Workers, NEW p \in Partitions,
             \/ DispatchScan(w, p) \/ DispatchCheck(w, p)
             \/ DispatchNothing(w, p) \/ DispatchRaises(w, p)
      PROVE  KindOfWork'
  BY <1>0, <1>1, <1>K DEF DispatchScan, DispatchCheck, DispatchNothing,
     DispatchRaises, Receive, TypeOK
<1>2. ASSUME NEW w \in Workers,
             Stop(w) \/ NextMessage(w) \/ Wake(w) \/ Restart(w)
      PROVE  KindOfWork'
  BY <1>0, <1>2, <1>K DEF Stop, NextMessage, Wake, Restart, TypeOK, topic
<1>3. ASSUME NEW w \in Workers, cur[w] \in Messages, SeekBack(w) PROVE KindOfWork'
  <2>1. CASE Stop(w)
    BY <1>2, <2>1
  <2>2. CASE cur' = [cur EXCEPT ![w] = NoMessage] /\ Goto(w, "backoff") /\ log' = log
    BY <1>0, <1>K, <2>2 DEF TypeOK
  <2> QED
    BY <1>3, <2>1, <2>2 DEF SeekBack
<1>4. ASSUME NEW w \in Workers,
             \/ ScanOk(w) \/ ScanFails(w) \/ InsertOk(w) \/ InsertPermanent(w)
             \/ PublishEnriched(w) \/ CheckDone(w) \/ ReplySent(w)
             \/ \E b \in BOOLEAN : \/ StoreMarker(w, b) \/ ReplyFails(w, b)
                                   \/ CommitPermanent(w, b)
      PROVE  KindOfWork'
  <2>1. log' = log /\ cur' = cur
    BY <1>4 DEF ScanOk, ScanFails, InsertOk, InsertPermanent, PublishEnriched,
       CheckDone, ReplySent, StoreMarker, ReplyFails, CommitPermanent, topic
  <2>2. \E state :
          /\ Goto(w, state)
          /\ \/ state \in {"commit", "skip"}
             \/ state \in {"marker", "insert", "publish"} /\ log[cur[w]] = "scan"
             \/ state = "reply" /\ log[cur[w]] = "request"
    BY <1>4 DEF KindOfWork, ScanOk, ScanFails, InsertOk, InsertPermanent,
       PublishEnriched, CheckDone, ReplySent, StoreMarker, ReplyFails, CommitPermanent
  <2> QED
    BY <1>K, <2>1, <2>2
<1>5. CASE TakeOver \/ Shuffle \/ UNCHANGED vars
  BY <1>5 DEF KindOfWork, TakeOver, Shuffle, Rebalance, vars
<1>6. ASSUME NEW w \in Workers, NEW b \in BOOLEAN,
             InsertTransient(w, b) \/ CommitTransient(w, b)
      PROVE  cur[w] \in Messages /\ SeekBack(w)
  BY <1>0, <1>6, BusyHasMessage
  DEF InsertTransient, CommitTransient, BusyStates, DeliveryInv
<1> QED
  BY <1>1, <1>2, <1>3, <1>4, <1>5, <1>6
  DEF Next, Step, FailingStep, Environment, DecodeFails, Crash, CommitOk, CommitSkip

(* Partitions are handed out again only by a rebalance, which commits      *)
(* nothing.                                                                *)
LEMMA RebalanceReassigns ==
  ASSUME [Next]_vars
  PROVE  reassigned' = reassigned \/ (Rebalance /\ committed' = committed)
<1>1. ASSUME NEW w \in Workers, Step(w) PROVE reassigned' = reassigned
  BY <1>1 DEF Step, topic, DispatchScan, DispatchCheck, DispatchNothing,
     DispatchRaises, Receive, DecodeFails, Stop, ScanOk, StoreMarker, InsertOk,
     PublishEnriched, CheckDone, ReplySent, CommitOk, CommitSkip, NextMessage, Wake
<1>2. ASSUME NEW w \in Workers, FailingStep(w) PROVE reassigned' = reassigned
  BY <1>2 DEF FailingStep, topic, ScanFails, StoreMarker, ReplyFails, CommitSkip,
     NextMessage, SeekBack, Stop, InsertTransient, InsertPermanent,
     CommitTransient, CommitPermanent
<1>3. ASSUME NEW w \in Workers, Crash(w) \/ Restart(w) PROVE reassigned' = reassigned
  BY <1>3 DEF Crash, Stop, Restart, topic
<1>4. CASE TakeOver \/ Shuffle
  BY <1>4 DEF TakeOver, Shuffle, Rebalance
<1>5. CASE UNCHANGED vars
  BY <1>5 DEF vars
<1> QED
  BY <1>1, <1>2, <1>3, <1>4, <1>5 DEF Next, Environment

LEMMA StillUndisturbed ==
  ASSUME DeliveryInv, [Next]_vars, ~reassigned'
  PROVE  /\ ~reassigned
         /\ \/ \E w \in Workers, p \in Partitions : Takes(w, p)
            \/ \E w \in Workers : \/ Works(w) \/ Finishes(w) \/ Rewinds(w)
                                  \/ Dies(w) \/ Resumes(w)
            \/ Quiet
<1>1. ~Rebalance
  BY DEF Rebalance
<1> QED
  BY <1>1, RebalanceReassigns, StepKinds

(* The first two parts of Undisturbed, with names.                         *)
InStep ==
  \A w \in Workers : cur[w] # NoMessage =>
    owner[cur[w][1]] = w /\ pos[cur[w][1]] = cur[w][2] + 1

AheadByOne ==
  \A p \in Partitions : committed[p] <= pos[p] + (IF InHand(p) THEN 0 ELSE 1)

LEMMA InStepStep ==
  ASSUME DeliveryInv, [Next]_vars, ~reassigned', InStep
  PROVE  InStep'
<1>0. TypeOK /\ BusyWithMessage
  BY DEF DeliveryInv
<1> SUFFICES ASSUME NEW v \in Workers, cur'[v] # NoMessage
             PROVE  owner'[cur'[v][1]] = v /\ pos'[cur'[v][1]] = cur'[v][2] + 1
  BY DEF InStep
<1>K. ASSUME cur'[v] = cur[v]
      PROVE  /\ owner[cur'[v][1]] = v /\ pos[cur'[v][1]] = cur'[v][2] + 1
             /\ cur'[v][1] \in Partitions
  BY <1>0, <1>K, MessageParts DEF InStep, TypeOK
<1>1. ASSUME NEW w \in Workers, NEW p \in Partitions, Takes(w, p)
      PROVE  owner'[cur'[v][1]] = v /\ pos'[cur'[v][1]] = cur'[v][2] + 1
  <2>1. CASE v = w
    BY <1>0, <1>1, <2>1 DEF Takes, TypeOK
  <2>2. CASE v # w
    BY <1>0, <1>1, <1>K, <2>2 DEF Takes, TypeOK
  <2> QED
    BY <2>1, <2>2
<1>2. ASSUME NEW w \in Workers, Works(w) \/ Finishes(w) \/ Resumes(w)
      PROVE  owner'[cur'[v][1]] = v /\ pos'[cur'[v][1]] = cur'[v][2] + 1
  BY <1>0, <1>2, <1>K DEF Works, Finishes, Resumes, TypeOK
<1>3. ASSUME NEW w \in Workers, Rewinds(w)
      PROVE  owner'[cur'[v][1]] = v /\ pos'[cur'[v][1]] = cur'[v][2] + 1
  <2>1. v # w /\ cur'[v] = cur[v]
    BY <1>0, <1>3 DEF Rewinds, TypeOK
  <2>2. owner[cur[w][1]] = w
    BY <1>3 DEF Rewinds
  <2> QED
    BY <1>0, <1>3, <1>K, <2>1, <2>2 DEF Rewinds, TypeOK
<1>4. ASSUME NEW w \in Workers, Dies(w)
      PROVE  owner'[cur'[v][1]] = v /\ pos'[cur'[v][1]] = cur'[v][2] + 1
  BY <1>0, <1>4, <1>K DEF Dies, TypeOK
<1>5. CASE Quiet
  BY <1>5, <1>K DEF Quiet
<1> QED
  BY <1>1, <1>2, <1>3, <1>4, <1>5, StillUndisturbed

LEMMA CommitAhead ==
  ASSUME DeliveryInv, AheadByOne, NEW w \in Workers, MayCommit(w), NEW p \in Partitions
  PROVE  \/ committed'[p] = committed[p]
         \/ committed'[p] = pos[p] /\ owner[p] = w
BY DEF MayCommit, CommitPositions, DeliveryInv, TypeOK

LEMMA AheadStep ==
  ASSUME DeliveryInv, [Next]_vars, ~reassigned', InStep, AheadByOne
  PROVE  AheadByOne' /\ \A p \in Partitions : committed[p] <= committed'[p] + 1
<1>0. TypeOK /\ TypeOK' /\ BusyWithMessage
  BY TypeStep DEF DeliveryInv
<1> SUFFICES ASSUME NEW p \in Partitions
             PROVE  /\ committed'[p] <= pos'[p] + (IF InHand(p)' THEN 0 ELSE 1)
                    /\ committed[p] <= committed'[p] + 1
  BY DEF AheadByOne
<1>1. /\ committed[p] \in Nat /\ committed'[p] \in Nat
      /\ pos[p] \in Nat /\ pos'[p] \in Nat
  BY <1>0, LogAssumption DEF TypeOK
<1>2. committed[p] <= pos[p] + 1 /\ (InHand(p) => committed[p] <= pos[p])
  BY <1>1 DEF AheadByOne
<1>3. ASSUME NEW w \in Workers, NEW q \in Partitions, Takes(w, q)
      PROVE  /\ committed'[p] <= pos'[p] + (IF InHand(p)' THEN 0 ELSE 1)
             /\ committed[p] <= committed'[p] + 1
  <2>1. committed' = committed
    BY <1>3 DEF Takes
  <2>2. CASE p = q
    BY <1>0, <1>1, <1>2, <1>3, <2>1, <2>2 DEF Takes, TypeOK
  <2>3. CASE p # q
    <3>1. pos'[p] = pos[p]
      BY <1>0, <1>3, <2>3 DEF Takes, TypeOK
    <3>2. InHand(p)' => InHand(p)
      BY <1>0, <1>3, <2>3 DEF Takes, TypeOK, InHand
    <3> QED
      BY <1>1, <1>2, <2>1, <3>1, <3>2
  <2> QED
    BY <2>2, <2>3
<1>4. ASSUME NEW w \in Workers,
             Works(w) \/ Finishes(w) \/ Dies(w) \/ Resumes(w)
      PROVE  /\ committed'[p] <= pos'[p] + (IF InHand(p)' THEN 0 ELSE 1)
             /\ committed[p] <= committed'[p] + 1
  <2>1. pos' = pos /\ MayCommit(w)
    BY <1>4 DEF Works, Finishes, Dies, Resumes, MayCommit
  <2>2. InHand(p)' => InHand(p)
    BY <1>0, <1>4 DEF Works, Finishes, Dies, Resumes, TypeOK, InHand
  <2> QED
    BY <1>1, <1>2, <2>1, <2>2, CommitAhead
<1>5. ASSUME NEW w \in Workers, Rewinds(w)
      PROVE  /\ committed'[p] <= pos'[p] + (IF InHand(p)' THEN 0 ELSE 1)
             /\ committed[p] <= committed'[p] + 1
  <2>1. cur[w] \in Messages /\ cur[w] # NoMessage /\ MayCommit(w)
    BY <1>0, <1>5, BusyHasMessage DEF Rewinds
  <2>2. committed'[p] <= pos[p] + 1 /\ committed[p] <= committed'[p] + 1
    BY <1>1, <1>2, <2>1, CommitAhead
  <2>3. InHand(p) => committed'[p] <= pos[p]
    BY <1>1, <1>2, <2>1, CommitAhead
  <2>4. CASE p = cur[w][1]
    <3>1. pos[p] = cur[w][2] + 1 /\ pos'[p] = cur[w][2] /\ InHand(p)
      BY <1>0, <1>5, <2>1, <2>4 DEF InStep, Rewinds, TypeOK, InHand
    <3>2. ~InHand(p)'
      <4> SUFFICES ASSUME NEW v \in Workers, cur'[v] # NoMessage, cur'[v][1] = p
                   PROVE  FALSE
        BY DEF InHand
      <4>1. v # w /\ cur'[v] = cur[v]
        BY <1>0, <1>5 DEF Rewinds, TypeOK
      <4> QED
        BY <2>1, <2>4, <4>1 DEF InStep
    <3> QED
      BY <1>1, <2>2, <2>3, <3>1, <3>2
  <2>5. CASE p # cur[w][1]
    <3>1. pos'[p] = pos[p]
      BY <1>0, <1>5, <2>5 DEF Rewinds, TypeOK
    <3>2. InHand(p)' => InHand(p)
      BY <1>0, <1>5, <2>5 DEF Rewinds, TypeOK, InHand
    <3> QED
      BY <1>1, <2>2, <2>3, <3>1, <3>2
  <2> QED
    BY <2>4, <2>5
<1>6. CASE Quiet
  BY <1>1, <1>2, <1>6 DEF Quiet, InHand
<1> QED
  BY <1>3, <1>4, <1>5, <1>6, StillUndisturbed

(* The third part of Undisturbed: a synchronous check is answered once.    *)
AnsweredOnce ==
  \A m \in Messages : log[m] \in SyncKinds =>
    /\ copies[m] <= 1
    /\ Due(m) = 1 \/ AtWork(m) # {} => copies[m] = 0

LEMMA AnsweredOnceStep ==
  ASSUME DeliveryInv, KindOfWork, [Next]_vars, ~reassigned', InStep, AnsweredOnce
  PROVE  AnsweredOnce'
<1>0. TypeOK /\ BusyWithMessage /\ TypeOK'
  BY TypeStep DEF DeliveryInv
<1>1. log' = log
  BY EffectKinds DEF Starts, Receive, StaysPut, SeeksBack, GoesOn, HandsOut, Rebalance, vars
<1> SUFFICES ASSUME NEW m \in Messages, log[m] \in SyncKinds
             PROVE  /\ copies'[m] <= 1
                    /\ Due(m)' = 1 \/ AtWork(m)' # {} => copies'[m] = 0
  BY <1>1 DEF AnsweredOnce
<1>2. /\ copies[m] \in Nat /\ copies[m] <= 1
      /\ Due(m) = 1 \/ AtWork(m) # {} => copies[m] = 0
  BY <1>0, FaultAssumption DEF AnsweredOnce, TypeOK
<1>3. /\ m = <<m[1], m[2]>> /\ m[1] \in Partitions /\ m[2] \in Nat
      /\ pos[m[1]] \in Nat
  BY <1>0, MessageParts, LogAssumption DEF TypeOK
<1>K. ASSUME copies'[m] = copies[m], Due(m)' = 1 => Due(m) = 1,
             AtWork(m)' \subseteq AtWork(m)
      PROVE  /\ copies'[m] <= 1
             /\ Due(m)' = 1 \/ AtWork(m)' # {} => copies'[m] = 0
  BY <1>2, <1>K
<1>4. ASSUME NEW w \in Workers, NEW p \in Partitions, Starts(w, p)
      PROVE  /\ copies'[m] <= 1
             /\ Due(m)' = 1 \/ AtWork(m)' # {} => copies'[m] = 0
  <2>1. /\ copies' = copies
        /\ pos' = [pos EXCEPT ![p] = pos[p] + 1]
        /\ cur' = [cur EXCEPT ![w] = <<p, pos[p]>>]
        /\ pc[w] = "poll" /\ \E state : pc' = [pc EXCEPT ![w] = state]
    BY <1>4 DEF Starts, Receive, Goto
  <2>2. CASE m = <<p, pos[p]>>
    <3>1. Due(m) = 1
      BY <1>3, <2>2 DEF Due
    <3> QED
      BY <1>2, <2>1, <3>1
  <2>3. CASE m # <<p, pos[p]>>
    <3>1. \A v \in Workers \ {w} : pc'[v] = pc[v] /\ cur'[v] = cur[v]
      BY <1>0, <2>1 DEF TypeOK
    <3>2. AtWork(m)' \subseteq AtWork(m)
      BY <1>0, <2>1, <2>3, <3>1 DEF AtWork, TypeOK
    <3>3. Due(m)' = 1 => Due(m) = 1
      BY <1>0, <1>3, <2>1, <2>3 DEF Due, TypeOK
    <3> QED
      BY <1>K, <2>1, <3>2, <3>3
  <2> QED
    BY <2>2, <2>3
<1>5. ASSUME NEW w \in Workers, StaysPut(w) \/ SeeksBack(w)
      PROVE  /\ copies'[m] <= 1
             /\ Due(m)' = 1 \/ AtWork(m)' # {} => copies'[m] = 0
  <2>1. GoesOn(w)
    BY <1>5 DEF StaysPut, SeeksBack
  <2>2. CASE copies'[m] = copies[m] /\ AtWork(m)' \subseteq AtWork(m)
    <3>1. CASE StaysPut(w)
      BY <1>K, <2>2, <3>1 DEF StaysPut, Due
    <3>2. CASE SeeksBack(w)
      <4>1. /\ cur[w] \in Messages /\ cur[w] # NoMessage /\ cur[w] # m
            /\ pos' = [pos EXCEPT ![cur[w][1]] = cur[w][2]]
        BY <3>2, SentinelAssumption DEF SeeksBack
      <4>2. pos[cur[w][1]] = cur[w][2] + 1
        BY <4>1 DEF InStep
      <4>3. cur[w] = <<cur[w][1], cur[w][2]>> /\ cur[w][2] \in Nat
        BY <4>1, MessageParts
      <4>4. m[1] = cur[w][1] => m[2] # cur[w][2]
        BY <1>3, <4>1, <4>3
      <4>5. Due(m)' = 1 => Due(m) = 1
        BY <1>0, <1>3, <4>1, <4>2, <4>3, <4>4 DEF Due, TypeOK
      <4> QED
        BY <1>K, <2>2, <4>5
    <3> QED
      BY <1>5, <3>1, <3>2
  <2>3. CASE /\ m = cur[w] /\ copies'[m] <= copies[m] + 1
             /\ w \in AtWork(m) /\ AtWork(m)' \subseteq AtWork(m) \ {w}
    <3>1. copies'[m] <= 1
      BY <1>2, <2>1, <2>3, <1>0, WorkLeft
    <3>2. AtWork(m) \subseteq {w}
      BY <2>3, SentinelAssumption DEF AtWork, InStep
    <3>3. Due(m)' = 0
      BY <1>3, <1>5, <2>3, SentinelAssumption DEF Due, InStep, StaysPut, SeeksBack
    <3> QED
      BY <2>3, <3>1, <3>2, <3>3
  <2> QED
    BY <1>0, <2>1, <2>2, <2>3, WorkLeft
<1>6. CASE HandsOut
  BY <1>6 DEF HandsOut, Rebalance
<1>7. CASE UNCHANGED vars
  BY <1>7, <1>K DEF vars, AtWork, Due
<1> QED
  BY <1>4, <1>5, <1>6, <1>7, EffectKinds

LEMMA UndisturbedParts ==
  Undisturbed <=> (~reassigned => InStep /\ AheadByOne /\ AnsweredOnce)
BY DEF Undisturbed, InStep, AheadByOne, AnsweredOnce

(* Without a failure, outcomes are recorded by the handler that is done,   *)
(* together with the row or the reply.                                     *)
LEMMA CleanStep ==
  ASSUME DeliveryInv, KindOfWork, CleanRun, [Next]_vars
  PROVE  CleanRun'
<1>0. TypeOK /\ BusyWithMessage /\ TypeOK'
  BY TypeStep DEF DeliveryInv
<1> SUFFICES ASSUME faults' = 0
             PROVE  /\ \A w \in Workers : pc'[w] # "marker"
                    /\ \A m \in Messages :
                         /\ log'[m] = "scan" => outcome'[m] \subseteq {"row"}
                         /\ log'[m] = "request" => outcome'[m] \subseteq {"replied"}
                         /\ log'[m] \in {"scan", "request"} /\ outcome'[m] # {} =>
                              copies'[m] >= 1
  BY DEF CleanRun, Settled
<1>1. faults = 0 /\ ~Fault
  <2>1. faults \in Nat /\ MaxFaults \in Nat
    BY <1>0, FaultAssumption DEF TypeOK
  <2>2. ASSUME NEW w \in Workers, NEW p \in Partitions, Starts(w, p) PROVE faults = 0
    BY <2>2 DEF Starts, Receive, NoFault
  <2>3. ASSUME NEW w \in Workers, StaysPut(w) \/ SeeksBack(w) PROVE faults = 0
    BY <2>1, <2>3 DEF StaysPut, SeeksBack
  <2>4. ASSUME HandsOut PROVE faults = 0
    <3>1. faults \in 0 .. MaxFaults
      BY <1>0 DEF TypeOK
    <3> QED
      BY <2>1, <2>4, <3>1 DEF HandsOut
  <2>5. ASSUME UNCHANGED vars PROVE faults = 0
    BY <2>5 DEF vars
  <2>6. faults = 0
    BY <2>2, <2>3, <2>4, <2>5, EffectKinds
  <2> QED
    BY <2>6 DEF Fault
<1>2. /\ log' = log
      /\ \A m \in Messages : copies[m] \in Nat /\ copies'[m] \in Nat
  <2>1. ASSUME NEW w \in Workers, NEW p \in Partitions, Starts(w, p) PROVE log' = log
    BY <2>1 DEF Starts, Receive
  <2>2. ASSUME NEW w \in Workers, StaysPut(w) \/ SeeksBack(w) PROVE log' = log
    BY <2>2 DEF StaysPut, SeeksBack, GoesOn
  <2>3. ASSUME HandsOut \/ UNCHANGED vars PROVE log' = log
    BY <2>3 DEF HandsOut, Rebalance, vars
  <2>4. log' = log
    BY <2>1, <2>2, <2>3, EffectKinds
  <2> QED
    BY <1>0, <2>4, FaultAssumption DEF TypeOK
<1>3. /\ \A w \in Workers : pc[w] # "marker"
      /\ \A m \in Messages :
           /\ log[m] = "scan" => outcome[m] \subseteq {"row"}
           /\ log[m] = "request" => outcome[m] \subseteq {"replied"}
           /\ log[m] \in {"scan", "request"} /\ outcome[m] # {} => copies[m] >= 1
  BY <1>1 DEF CleanRun, Settled
<1>4. \A w \in Workers : pc'[w] # "marker"
  <2>1. ASSUME NEW w \in Workers, NEW state, Goto(w, state), state # "marker"
        PROVE  \A v \in Workers : pc'[v] # "marker"
    BY <1>0, <1>3, <2>1 DEF Goto, TypeOK
  <2>2. \/ \E w \in Workers : \E state : Goto(w, state) /\ state # "marker"
        \/ pc' = pc
    <3>1. ASSUME NEW w \in Workers, Step(w)
          PROVE  \E state : Goto(w, state) /\ state # "marker"
      <4>1. ASSUME NEW p \in Partitions,
                   \/ DispatchScan(w, p) \/ DispatchCheck(w, p) \/ DecodeFails(w, p)
                   \/ DispatchNothing(w, p) \/ DispatchRaises(w, p)
            PROVE  \E state : Goto(w, state) /\ state # "marker"
        BY <4>1 DEF DispatchScan, DispatchCheck, DispatchNothing, DispatchRaises,
           DecodeFails, Stop
      <4>2. ASSUME \/ ScanOk(w) \/ InsertOk(w) \/ PublishEnriched(w) \/ CheckDone(w)
                   \/ ReplySent(w) \/ StoreMarker(w, FALSE)
            PROVE  \E state \in {"insert", "publish", "commit", "reply"} : Goto(w, state)
        BY <4>2 DEF ScanOk, StoreMarker, InsertOk, PublishEnriched, CheckDone, ReplySent
      <4>3. ASSUME CommitOk(w) \/ CommitSkip(w, FALSE) \/ Wake(w)
            PROVE  \E state \in {"poll"} : Goto(w, state)
        BY <4>3 DEF CommitOk, CommitSkip, NextMessage, Wake
      <4>4. (\/ ScanOk(w) \/ InsertOk(w) \/ PublishEnriched(w) \/ CheckDone(w)
             \/ ReplySent(w) \/ StoreMarker(w, FALSE))
              => \E state : Goto(w, state) /\ state # "marker"
        BY <4>2
      <4>5. CommitOk(w) \/ CommitSkip(w, FALSE) \/ Wake(w)
              => \E state : Goto(w, state) /\ state # "marker"
        BY <4>3
      <4> QED
        BY <3>1, <4>1, <4>4, <4>5 DEF Step
    <3>2. ASSUME NEW w \in Workers, Restart(w)
          PROVE  \E state : Goto(w, state) /\ state # "marker"
      BY <3>2 DEF Restart
    <3>3. ASSUME NEW w \in Workers, FailingStep(w) \/ Crash(w) PROVE FALSE
      BY <1>1, <3>3 DEF FailingStep, ScanFails, StoreMarker, MayFail, InsertPermanent,
         CommitSkip, InsertTransient, ReplyFails, CommitTransient, CommitPermanent, Crash
    <3>4. CASE TakeOver \/ Shuffle \/ UNCHANGED vars
      BY <3>4 DEF TakeOver, Shuffle, Rebalance, vars
    <3> QED
      BY <3>1, <3>2, <3>3, <3>4 DEF Next, Environment
  <2> QED
    BY <1>3, <2>1, <2>2
<1> SUFFICES ASSUME NEW m \in Messages, log[m] \in {"scan", "request"}
             PROVE  /\ log[m] = "scan" => outcome'[m] \subseteq {"row"}
                    /\ log[m] = "request" => outcome'[m] \subseteq {"replied"}
                    /\ outcome'[m] # {} => copies'[m] >= 1
  BY <1>2, <1>4
<1>K. ASSUME outcome'[m] = outcome[m], copies'[m] = copies[m]
      PROVE  /\ log[m] = "scan" => outcome'[m] \subseteq {"row"}
             /\ log[m] = "request" => outcome'[m] \subseteq {"replied"}
             /\ outcome'[m] # {} => copies'[m] >= 1
  BY <1>3, <1>K
<1>5. ASSUME NEW n \in Messages, NEW result, Record(n, result),
             \/ log[n] \notin {"scan", "request"} /\ copies' = copies
             \/ log[n] = "scan" /\ result = "row" /\ CountCopy(n)
             \/ log[n] = "request" /\ result = "replied" /\ CountCopy(n)
      PROVE  /\ log[m] = "scan" => outcome'[m] \subseteq {"row"}
             /\ log[m] = "request" => outcome'[m] \subseteq {"replied"}
             /\ outcome'[m] # {} => copies'[m] >= 1
  <2>1. CASE m # n
    <3>1. outcome'[m] = outcome[m] /\ copies'[m] = copies[m]
      BY <1>0, <1>5, <2>1 DEF Record, CountCopy, TypeOK
    <3> QED
      BY <1>K, <3>1
  <2>2. CASE m = n
    <3>1. outcome'[m] = outcome[m] \union {result} /\ CountCopy(m)
      BY <1>0, <1>5, <2>2 DEF Record, TypeOK
    <3>2. copies'[m] >= 1
      BY <1>0, <1>2, <3>1, FaultAssumption DEF CountCopy, TypeOK
    <3> QED
      BY <1>3, <1>5, <2>2, <3>1, <3>2
  <2> QED
    BY <2>1, <2>2
<1>6. ASSUME NEW w \in Workers, NEW p \in Partitions,
             DispatchNothing(w, p) \/ DispatchRaises(w, p)
      PROVE  \E n \in Messages : \E result :
               /\ Record(n, result) /\ copies' = copies
               /\ log[n] \notin {"scan", "request"}
  <2>1. <<p, pos[p]>> \in Messages /\ copies' = copies
    BY <1>0, <1>6, ReceiveType DEF DispatchNothing, DispatchRaises, Receive
  <2> QED
    BY <1>6, <2>1 DEF DispatchNothing, DispatchRaises, Receive
<1>7. ASSUME NEW w \in Workers, InsertOk(w) \/ ReplySent(w)
      PROVE  \E n \in Messages : \E result :
               /\ Record(n, result) /\ CountCopy(n)
               /\ \/ log[n] = "scan" /\ result = "row"
                  \/ log[n] = "request" /\ result = "replied"
  BY <1>0, <1>7, BusyHasMessage DEF InsertOk, ReplySent, KindOfWork, BusyStates
<1>8. ASSUME NEW w \in Workers, CheckDone(w)
      PROVE  \/ outcome' = outcome /\ copies' = copies
             \/ \E n \in Messages : \E result :
                  /\ Record(n, result) /\ copies' = copies
                  /\ log[n] \notin {"scan", "request"}
  BY <1>0, <1>8, BusyHasMessage DEF CheckDone, BusyStates
<1>9. ASSUME NEW w \in Workers, NEW p \in Partitions,
             \/ DispatchScan(w, p) \/ DispatchCheck(w, p) \/ DecodeFails(w, p)
             \/ ScanOk(w) \/ PublishEnriched(w) \/ CommitOk(w)
             \/ CommitSkip(w, FALSE) \/ Wake(w) \/ Restart(w)
      PROVE  outcome' = outcome /\ copies' = copies
  BY <1>9 DEF DispatchScan, DispatchCheck, DecodeFails, Receive, Stop, ScanOk,
     PublishEnriched, CommitOk, CommitSkip, NextMessage, Wake, Restart, effects
<1>10. CASE TakeOver \/ Shuffle \/ UNCHANGED vars
  BY <1>10, <1>K DEF TakeOver, Shuffle, Rebalance, vars, effects
<1>11. ASSUME NEW w \in Workers, StoreMarker(w, FALSE) PROVE FALSE
  BY <1>3, <1>11 DEF StoreMarker
<1>12. ASSUME NEW w \in Workers, FailingStep(w) \/ Crash(w) PROVE FALSE
  BY <1>1, <1>12 DEF FailingStep, ScanFails, StoreMarker, MayFail, InsertPermanent,
     CommitSkip, InsertTransient, ReplyFails, CommitTransient, CommitPermanent, Crash
<1>13. ASSUME NEW w \in Workers, Step(w) \/ Restart(w)
       PROVE  \/ outcome' = outcome /\ copies' = copies
              \/ \E n \in Messages : \E result :
                   /\ Record(n, result)
                   /\ \/ log[n] \notin {"scan", "request"} /\ copies' = copies
                      \/ log[n] = "scan" /\ result = "row" /\ CountCopy(n)
                      \/ log[n] = "request" /\ result = "replied" /\ CountCopy(n)
  <2>1. CASE \E p \in Partitions : DispatchNothing(w, p) \/ DispatchRaises(w, p)
    BY <1>6, <2>1
  <2>2. CASE InsertOk(w) \/ ReplySent(w)
    BY <1>7, <2>2
  <2>3. CASE CheckDone(w)
    BY <1>8, <2>3
  <2>4. CASE \/ \E p \in Partitions :
                  DispatchScan(w, p) \/ DispatchCheck(w, p) \/ DecodeFails(w, p)
             \/ ScanOk(w) \/ PublishEnriched(w) \/ CommitOk(w)
             \/ CommitSkip(w, FALSE) \/ Wake(w) \/ Restart(w)
    BY <2>4 DEF DispatchScan, DispatchCheck, DecodeFails, Receive, Stop, ScanOk,
       PublishEnriched, CommitOk, CommitSkip, NextMessage, Wake, Restart, effects
  <2> QED
    BY <1>11, <1>13, <2>1, <2>2, <2>3, <2>4 DEF Step
<1>14. CASE \E w \in Workers : Step(w) \/ Restart(w)
  BY <1>5, <1>13, <1>14, <1>K
<1> QED
  BY <1>10, <1>12, <1>14 DEF Next, Environment

-----------------------------------------------------------------------------
(* Nothing is in work and nothing was done when the group starts.          *)
LEMMA InitEffects == Init => EffectsInv
<1> SUFFICES ASSUME Init PROVE EffectsInv
  OBVIOUS
<1> USE DEF Init
<1>1. \A m \in Messages : AtWork(m) = {} /\ Due(m) = 1
  BY MessageParts DEF AtWork, Due
<1>2. KindOfWork
  BY DEF KindOfWork
<1>3. EffectsPaid
  <2>1. IsFiniteSet({}) /\ Cardinality({}) = 0
    BY FS_EmptySet
  <2> QED
    BY <1>1, <2>1 DEF EffectsPaid
<1>4. Undisturbed
  BY <1>1 DEF Undisturbed, InHand
<1>5. CleanRun
  BY DEF CleanRun, Settled
<1> QED
  BY <1>2, <1>3, <1>4, <1>5 DEF EffectsInv

(* The ledger is kept, by every step, together with what a worker's state  *)
(* says of its message.                                                    *)
THEOREM EffectsInvariant == Spec => []EffectsInv
<1>1. Init => EffectsInv
  BY InitEffects
<1>2. DeliveryInv /\ EffectsInv /\ [Next]_vars => EffectsInv'
  <2> SUFFICES ASSUME DeliveryInv, EffectsInv, [Next]_vars
               PROVE  EffectsInv'
    OBVIOUS
  <2>1. KindOfWork /\ EffectsPaid /\ CleanRun
    BY DEF EffectsInv
  <2>2. KindOfWork'
    BY <2>1, KindStep
  <2>3. EffectsPaid'
    BY <2>1, LedgerStep
  <2>4. CleanRun'
    BY <2>1, CleanStep
  <2>5. ~reassigned' => InStep' /\ AheadByOne' /\ AnsweredOnce'
    <3> SUFFICES ASSUME ~reassigned'
                 PROVE  InStep' /\ AheadByOne' /\ AnsweredOnce'
      OBVIOUS
    <3>1. InStep /\ AheadByOne /\ AnsweredOnce
      BY StillUndisturbed, UndisturbedParts DEF EffectsInv
    <3> QED
      BY <2>1, <3>1, InStepStep, AheadStep, AnsweredOnceStep
  <2>6. Undisturbed'
    BY <2>5 DEF Undisturbed, InStep, AheadByOne, AnsweredOnce
  <2> QED
    BY <2>2, <2>3, <2>4, <2>6 DEF EffectsInv
<1> QED
  BY <1>1, <1>2, DeliveryInvariant, PTL DEF Spec

(* The inductive invariant of the loop, whole.                             *)
THEOREM LoopInvariant == Spec => []LoopInv
<1>1. DeliveryInv /\ EffectsInv => LoopInv
  BY DEF LoopInv
<1> QED
  BY <1>1, DeliveryInvariant, EffectsInvariant, PTL

(* A row is stored, and a requester answered, at most once more than there *)
(* were failures and rebalances, for any number of them up to MaxFaults.   *)
THEOREM RepeatsPaidFor == Spec => []RepeatsCostFaults
<1>1. DeliveryInv /\ EffectsInv => RepeatsCostFaults
  <2> SUFFICES ASSUME TypeOK, EffectsPaid, NEW m \in Messages
               PROVE  copies[m] <= 1 + faults
    BY DEF DeliveryInv, EffectsInv, RepeatsCostFaults
  <2>1. /\ MaxFaults \in Nat /\ faults \in Nat /\ faults <= MaxFaults
        /\ copies[m] \in Nat /\ copies[m] <= MaxFaults + 1
    BY FaultAssumption DEF TypeOK
  <2>2. CASE faults = MaxFaults
    BY <2>1, <2>2
  <2>3. CASE faults < MaxFaults
    <3>1. /\ IsFiniteSet(AtWork(m))
          /\ copies[m] + Cardinality(AtWork(m)) + Due(m) <= 1 + faults
      BY <2>3 DEF EffectsPaid
    <3>2. Cardinality(AtWork(m)) \in Nat /\ Due(m) \in Nat
      BY <3>1, FS_CardinalityType DEF Due
    <3> QED
      BY <2>1, <3>1, <3>2
  <2> QED
    BY <2>1, <2>2, <2>3
<1> QED
  BY <1>1, DeliveryInvariant, EffectsInvariant, PTL

(* No retry of the loop's own answers a requester a second time.           *)
THEOREM AnsweredAtMostOnce == Spec => []RequestOnce
<1>1. EffectsInv => RequestOnce
  BY DEF EffectsInv, Undisturbed, RequestOnce
<1> QED
  BY <1>1, EffectsInvariant, PTL

(* While nothing fails, a committed trace has exactly one row, a committed *)
(* request exactly one reply.                                              *)
THEOREM ExactlyOnceWithoutFaults == Spec => []FaultFreeExactlyOnce
<1>1. DeliveryInv /\ EffectsInv /\ RepeatsCostFaults => FaultFreeExactlyOnce
  <2> SUFFICES ASSUME DeliveryInv, EffectsInv, RepeatsCostFaults, faults = 0,
                      NEW m \in Messages, m[2] < committed[m[1]]
               PROVE  /\ log[m] = "scan" => outcome[m] = {"row"} /\ copies[m] = 1
                      /\ log[m] = "request" => outcome[m] = {"replied"} /\ copies[m] = 1
    BY DEF FaultFreeExactlyOnce
  <2>1. outcome[m] # {}
    BY DEF DeliveryInv, CommittedSettled, Settled
  <2>2. copies[m] \in Nat /\ copies[m] <= 1
    BY FaultAssumption DEF DeliveryInv, TypeOK, RepeatsCostFaults
  <2>3. /\ log[m] = "scan" => outcome[m] \subseteq {"row"} /\ copies[m] >= 1
        /\ log[m] = "request" => outcome[m] \subseteq {"replied"} /\ copies[m] >= 1
    BY <2>1 DEF EffectsInv, CleanRun, Settled
  <2> QED
    BY <2>1, <2>2, <2>3
<1> QED
  BY <1>1, DeliveryInvariant, EffectsInvariant, RepeatsPaidFor, PTL

(* Until partitions are handed out again, a commit takes back at most the  *)
(* one message in work.                                                    *)
THEOREM CommitsWithdrawOne == Spec => WithdrawsAtMostOne
<1>1. DeliveryInv /\ EffectsInv /\ [Next]_vars =>
        [~reassigned => \A p \in Partitions : committed[p] <= committed'[p] + 1]_vars
  <2> SUFFICES ASSUME DeliveryInv, EffectsInv, [Next]_vars, ~reassigned
               PROVE  \A p \in Partitions : committed[p] <= committed'[p] + 1
    OBVIOUS
  <2>1. CASE ~reassigned'
    BY <2>1, AheadStep, UndisturbedParts DEF EffectsInv
  <2>2. CASE reassigned'
    <3>1. committed' = committed
      BY <2>2, RebalanceReassigns
    <3> QED
      BY <3>1, LogAssumption DEF DeliveryInv, TypeOK
  <2> QED
    BY <2>1, <2>2
<1> QED
  BY <1>1, DeliveryInvariant, EffectsInvariant, PTL DEF Spec, WithdrawsAtMostOne
===============================================================================
