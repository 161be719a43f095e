--------------------------- MODULE SecurityConsumer ---------------------------
(***************************************************************************)
(* The consumer loop of app.py with the three handlers of jobs/run.py it   *)
(* dispatches to, in one Kafka consumer group.                             *)
(*                                                                         *)
(* A worker is one asyncio loop that works on one message at a time; its   *)
(* state names the await it is suspended at.  Between two awaits other     *)
(* workers run, the group may rebalance, stores may fail and the process   *)
(* may die.  Message contents are abstracted to the kinds that drive the   *)
(* control flow; how a verdict is computed is not this module's business.  *)
(***************************************************************************)
EXTENDS Naturals, FiniteSets

CONSTANTS
  Workers,       \* the worker processes of the consumer group
  Partitions,    \* the partitions of the security topic
  LogLen,        \* how many messages each partition holds
  Backlogs,      \* the topics considered: functions from messages to kinds
  RetryInitial,  \* _RETRY_INITIAL_S
  RetryMax,      \* _RETRY_MAX_S
  MaxFaults,     \* bound: failures and rebalances the environment may inject
  Nobody,        \* owner of a partition no live worker holds
  NoMessage      \* what an idle worker works on

Messages == Partitions \X (0 .. LogLen - 1)

(* scan: a trace with text.  blank: a trace with nothing to scan.          *)
(* unknown: an operation with no handler.  request: a synchronous check.   *)
(* anonymous: a synchronous check without correlation_id.  malformed:      *)
(* decodes, but its handler raises on it.  garbage: is not UTF-8 JSON.     *)
Kinds == {"scan", "blank", "unknown", "request", "anonymous",
          "malformed", "garbage"}

SyncKinds == {"request", "anonymous"}

(* What can finally become of a message.                                   *)
Outcomes == {"row", "marker", "marker_lost", "nothing", "replied",
             "reply_lost", "nobody_asked", "skipped"}

IdleStates == {"down", "poll", "backoff"}
BusyStates == {"scan", "marker", "insert", "publish", "check", "reply",
               "commit", "skip"}
(* In these the worker has disposed of its message and must commit it.     *)
DoneStates == {"publish", "commit", "skip"}

ASSUME LogAssumption == LogLen \in Nat
ASSUME BacklogAssumption == Backlogs \subseteq [Messages -> Kinds]
ASSUME RetryAssumption ==
  /\ RetryInitial \in Nat
  /\ RetryMax \in Nat
  /\ RetryInitial <= RetryMax
ASSUME FaultAssumption == MaxFaults \in Nat
ASSUME SentinelAssumption == Nobody \notin Workers /\ NoMessage \notin Messages

VARIABLES
  log,        \* log[m]: the kind of each message; chosen once
  owner,      \* owner[p]: the worker the group assigned partition p to
  pos,        \* pos[p]: the next offset p's owner will be handed
  committed,  \* committed[p]: the offset the group would resume from
  pc,         \* pc[w]: the await worker w is suspended at
  cur,        \* cur[w]: the message w is working on
  backoff,    \* backoff[w]: seconds of the next seek-back pause
  outcome,    \* outcome[m]: every disposition m has had so far
  copies,     \* copies[m]: scan rows stored, or replies sent, for m
  faults,     \* failures and rebalances so far, saturating at MaxFaults
  reassigned  \* whether the group has ever handed out partitions again

topic == <<owner, pos, committed, reassigned>>
effects == <<outcome, copies>>
vars == <<log, owner, pos, committed, pc, cur, backoff, outcome, copies,
          faults, reassigned>>

Settled(m) == outcome[m] # {}

-----------------------------------------------------------------------------
(* The group has formed, each worker is past its start-up, and the topic   *)
(* holds one of the backlogs, unread.                                      *)
Init ==
  /\ log \in Backlogs
  /\ owner \in [Partitions -> Workers]
  /\ pos = [p \in Partitions |-> 0]
  /\ committed = [p \in Partitions |-> 0]
  /\ pc = [w \in Workers |-> "poll"]
  /\ cur = [w \in Workers |-> NoMessage]
  /\ backoff = [w \in Workers |-> RetryInitial]
  /\ outcome = [m \in Messages |-> {}]
  /\ copies = [m \in Messages |-> 0]
  /\ faults = 0
  /\ reassigned = FALSE

(* Something the environment may do only so many times.                    *)
Fault == faults < MaxFaults /\ faults' = faults + 1
NoFault == UNCHANGED faults

(* A store or broker call fails, or does not.                              *)
MayFail(failed) == IF failed THEN Fault ELSE NoFault

Goto(w, state) == pc' = [pc EXCEPT ![w] = state]

Record(m, result) == outcome' = [outcome EXCEPT ![m] = @ \union {result}]

(* copies saturates: more than MaxFaults + 1 are not told apart.           *)
CountCopy(m) ==
  copies' = [copies EXCEPT ![m] = IF @ > MaxFaults THEN @ ELSE @ + 1]

(* The process ends; whatever it was doing is forgotten and, once the      *)
(* group notices, its partitions are nobody's.                             *)
Stop(w) ==
  /\ Goto(w, "down")
  /\ cur' = [cur EXCEPT ![w] = NoMessage]
  /\ backoff' = [backoff EXCEPT ![w] = RetryInitial]
  /\ owner' = [p \in Partitions |-> IF owner[p] = w THEN Nobody ELSE owner[p]]
  /\ UNCHANGED <<log, pos, reassigned, outcome>>

-----------------------------------------------------------------------------
(* The iterator hands w the next message of a partition it owns, one of    *)
(* the given kinds, and the position moves past it.                        *)
Receive(w, p, kinds) ==
  /\ pc[w] = "poll"
  /\ owner[p] = w
  /\ pos[p] < LogLen
  /\ log[<<p, pos[p]>>] \in kinds
  /\ pos' = [pos EXCEPT ![p] = @ + 1]
  /\ cur' = [cur EXCEPT ![w] = <<p, pos[p]>>]
  /\ NoFault
  /\ UNCHANGED <<log, owner, committed, backoff, copies, reassigned>>

DispatchScan(w, p) ==
  /\ Receive(w, p, {"scan"})
  /\ Goto(w, "scan")
  /\ UNCHANGED outcome

DispatchCheck(w, p) ==
  /\ Receive(w, p, SyncKinds)
  /\ Goto(w, "check")
  /\ UNCHANGED outcome

(* No handler, or a trace without prompt and response: dispatch returns.   *)
DispatchNothing(w, p) ==
  /\ Receive(w, p, {"blank", "unknown"})
  /\ Goto(w, "commit")
  /\ Record(<<p, pos[p]>>, "nothing")

(* Mutant of DispatchRaises: every exception is taken for a transient one. *)
DispatchRaisesRetried(w, p) ==
  /\ pc[w] = "poll"
  /\ owner[p] = w
  /\ pos[p] < LogLen
  /\ log[<<p, pos[p]>>] = "malformed"
  /\ Goto(w, "backoff")
  /\ NoFault
  /\ UNCHANGED <<log, topic, cur, backoff, effects>>

(* The handler raises something that is not transient: poison.             *)
DispatchRaises(w, p) ==
  /\ Receive(w, p, {"malformed"})
  /\ Goto(w, "skip")
  /\ Record(<<p, pos[p]>>, "skipped")

(* The deserializer raises inside the iterator, outside the loop's try:    *)
(* the exception leaves consume() and the process ends.                    *)
DecodeFails(w, p) ==
  /\ pc[w] = "poll"
  /\ owner[p] = w
  /\ pos[p] < LogLen
  /\ log[<<p, pos[p]>>] = "garbage"
  /\ NoFault
  /\ Stop(w)
  /\ UNCHANGED <<committed, copies>>

-----------------------------------------------------------------------------
(* auto_security_scan: scan on the executor thread, store the row, then    *)
(* notify.  The history reads before the scan cannot fail the handler.     *)
ScanOk(w) ==
  /\ pc[w] = "scan"
  /\ Goto(w, "insert")
  /\ NoFault
  /\ UNCHANGED <<log, topic, cur, backoff, effects>>

(* Mutant of ScanFails: the handler returns without a marker.              *)
ScanFailsSilently(w) ==
  /\ pc[w] = "scan"
  /\ Goto(w, "commit")
  /\ Fault
  /\ UNCHANGED <<log, topic, cur, backoff, effects>>

ScanFails(w) ==
  /\ pc[w] = "scan"
  /\ Goto(w, "marker")
  /\ Fault
  /\ UNCHANGED <<log, topic, cur, backoff, effects>>

(* The scan_failed marker is stored, or its failure is swallowed; the      *)
(* handler returns normally either way.                                    *)
StoreMarker(w, failed) ==
  /\ pc[w] = "marker"
  /\ MayFail(failed)
  /\ Record(cur[w], IF failed THEN "marker_lost" ELSE "marker")
  /\ Goto(w, "commit")
  /\ UNCHANGED <<log, topic, cur, backoff, copies>>

InsertOk(w) ==
  /\ pc[w] = "insert"
  /\ Record(cur[w], "row")
  /\ CountCopy(cur[w])
  /\ Goto(w, "publish")
  /\ NoFault
  /\ UNCHANGED <<log, topic, cur, backoff>>

(* Mutant of PublishEnriched: a failed notification leaves the handler.    *)
PublishEnrichedRaises(w) ==
  /\ pc[w] = "publish"
  /\ \/ /\ Goto(w, "commit")
        /\ UNCHANGED <<pos, cur>>
     \/ /\ Goto(w, "backoff")
        /\ owner[cur[w][1]] = w
        /\ pos' = [pos EXCEPT ![cur[w][1]] = cur[w][2]]
        /\ cur' = [cur EXCEPT ![w] = NoMessage]
  /\ NoFault
  /\ UNCHANGED <<log, owner, committed, reassigned, backoff, effects>>

(* A trace.enriched notification that cannot be published is dropped.      *)
PublishEnriched(w) ==
  /\ pc[w] = "publish"
  /\ Goto(w, "commit")
  /\ NoFault
  /\ UNCHANGED <<log, topic, cur, backoff, effects>>

-----------------------------------------------------------------------------
(* Mutant of CheckDone: the correlation_id test is inverted.               *)
CheckDoneSilent(w) ==
  /\ pc[w] = "check"
  /\ IF log[cur[w]] = "anonymous"
     THEN Goto(w, "reply") /\ UNCHANGED outcome
     ELSE Goto(w, "commit") /\ Record(cur[w], "nobody_asked")
  /\ NoFault
  /\ UNCHANGED <<log, topic, cur, backoff, copies>>

(* The synchronous handlers: a verdict, or a fail-open one when the scan   *)
(* raises; published only if somebody waits for it.                        *)
CheckDone(w) ==
  /\ pc[w] = "check"
  /\ \/ /\ log[cur[w]] = "request"
        /\ Goto(w, "reply")
        /\ UNCHANGED outcome
     \/ /\ log[cur[w]] = "anonymous"
        /\ Goto(w, "commit")
        /\ Record(cur[w], "nobody_asked")
  /\ NoFault
  /\ UNCHANGED <<log, topic, cur, backoff, copies>>

ReplySent(w) ==
  /\ pc[w] = "reply"
  /\ Record(cur[w], "replied")
  /\ CountCopy(cur[w])
  /\ Goto(w, "commit")
  /\ NoFault
  /\ UNCHANGED <<log, topic, cur, backoff>>

(* send_and_wait fails, before or after the broker took the reply.         *)
ReplyFails(w, sent) ==
  /\ pc[w] = "reply"
  /\ Record(cur[w], "reply_lost")
  /\ IF sent THEN CountCopy(cur[w]) ELSE UNCHANGED copies
  /\ Goto(w, "commit")
  /\ Fault
  /\ UNCHANGED <<log, topic, cur, backoff>>

-----------------------------------------------------------------------------
(* Mutant of CommitPositions: partitions of other workers are included.    *)
CommitAllPositions(w) == committed' = pos

(* commit() commits the position of every partition the worker owns.       *)
CommitPositions(w) ==
  committed' = [p \in Partitions |-> IF owner[p] = w THEN pos[p]
                                                     ELSE committed[p]]

(* The loop is done with its message and asks for the next one.            *)
NextMessage(w) ==
  /\ Goto(w, "poll")
  /\ cur' = [cur EXCEPT ![w] = NoMessage]
  /\ backoff' = [backoff EXCEPT ![w] = RetryInitial]
  /\ UNCHANGED <<log, owner, pos, reassigned, outcome, copies>>

CommitOk(w) ==
  /\ pc[w] = "commit"
  /\ CommitPositions(w)
  /\ NoFault
  /\ NextMessage(w)

(* The second commit(), after a failed message; its failure is swallowed.  *)
CommitSkip(w, failed) ==
  /\ pc[w] = "skip"
  /\ MayFail(failed)
  /\ IF failed THEN UNCHANGED committed ELSE CommitPositions(w)
  /\ NextMessage(w)

(* Mutants of SeekBack: the position stays past the failed message, which  *)
(* is how messages were lost before; or it goes back to the beginning.     *)
SeekBackForgotten(w) ==
  /\ cur' = [cur EXCEPT ![w] = NoMessage]
  /\ Goto(w, "backoff")
  /\ UNCHANGED <<log, owner, pos, backoff, outcome, reassigned>>

SeekBackToBeginning(w) ==
  /\ pos' = [pos EXCEPT ![cur[w][1]] = 0]
  /\ cur' = [cur EXCEPT ![w] = NoMessage]
  /\ Goto(w, "backoff")
  /\ UNCHANGED <<log, owner, backoff, outcome, reassigned>>

(* A transient failure of an asynchronous message: seek back to it and     *)
(* pause.  seek() raises IllegalStateError when the partition was          *)
(* reassigned meanwhile; that ends the process.                            *)
SeekBack(w) ==
  LET p == cur[w][1]
      offset == cur[w][2]
  IN \/ /\ owner[p] = w
        /\ pos' = [pos EXCEPT ![p] = offset]
        /\ cur' = [cur EXCEPT ![w] = NoMessage]
        /\ Goto(w, "backoff")
        /\ UNCHANGED <<log, owner, backoff, outcome, reassigned>>
     \/ /\ owner[p] # w
        /\ Stop(w)

(* A connection-class failure of the insert.  ClickHouse may have stored   *)
(* the row before the connection broke.                                    *)
InsertTransient(w, applied) ==
  /\ pc[w] = "insert"
  /\ IF applied THEN CountCopy(cur[w]) ELSE UNCHANGED copies
  /\ Fault
  /\ UNCHANGED committed
  /\ SeekBack(w)

(* Any other failure of the insert: the message is given up.               *)
InsertPermanent(w) ==
  /\ pc[w] = "insert"
  /\ Record(cur[w], "skipped")
  /\ Goto(w, "skip")
  /\ Fault
  /\ UNCHANGED <<log, topic, cur, backoff, copies>>

(* Mutant of CommitTransient: synchronous messages are retried as well.    *)
CommitTransientForAll(w, applied) ==
  /\ pc[w] = "commit"
  /\ IF applied THEN CommitPositions(w) ELSE UNCHANGED committed
  /\ Fault
  /\ UNCHANGED copies
  /\ SeekBack(w)

(* The commit after a handled message fails, before or after the broker    *)
(* applied it, and the error is transient or not.                          *)
CommitTransient(w, applied) ==
  /\ pc[w] = "commit"
  /\ log[cur[w]] \notin SyncKinds
  /\ IF applied THEN CommitPositions(w) ELSE UNCHANGED committed
  /\ Fault
  /\ UNCHANGED copies
  /\ SeekBack(w)

CommitPermanent(w, applied) ==
  /\ pc[w] = "commit"
  /\ IF applied THEN CommitPositions(w) ELSE UNCHANGED committed
  /\ Goto(w, "skip")
  /\ Fault
  /\ UNCHANGED <<log, owner, pos, reassigned, cur, backoff, effects>>

(* Mutant of Wake: the pause is doubled without a maximum.                 *)
WakeUncapped(w) ==
  /\ pc[w] = "backoff"
  /\ Goto(w, "poll")
  /\ backoff' = [backoff EXCEPT ![w] = 2 * @]
  /\ NoFault
  /\ UNCHANGED <<log, topic, cur, effects>>

(* The pause of a seek-back ends.                                          *)
Wake(w) ==
  /\ pc[w] = "backoff"
  /\ Goto(w, "poll")
  /\ backoff' = [backoff EXCEPT ![w] = IF 2 * @ < RetryMax THEN 2 * @
                                                           ELSE RetryMax]
  /\ NoFault
  /\ UNCHANGED <<log, topic, cur, effects>>

-----------------------------------------------------------------------------
(* The environment: processes die and are restarted, the group rebalances. *)
Crash(w) ==
  /\ pc[w] # "down"
  /\ Fault
  /\ Stop(w)
  /\ UNCHANGED <<committed, copies>>

Restart(w) ==
  /\ pc[w] = "down"
  /\ Goto(w, "poll")
  /\ NoFault
  /\ UNCHANGED <<log, topic, cur, backoff, effects>>

(* The group hands out its partitions again: every position is reset to    *)
(* the committed offset, and a worker in the middle of a message is not    *)
(* told.  It must happen when a partition is orphaned; it may at any time. *)
Rebalance ==
  /\ owner' \in [Partitions -> {w \in Workers : pc[w] # "down"}]
  /\ pos' = committed
  /\ reassigned' = TRUE
  /\ UNCHANGED <<log, committed, pc, cur, backoff, effects>>

TakeOver ==
  /\ \E p \in Partitions : owner[p] = Nobody
  /\ faults' = IF faults < MaxFaults THEN faults + 1 ELSE faults
  /\ Rebalance

Shuffle ==
  /\ \A p \in Partitions : owner[p] # Nobody
  /\ Fault
  /\ Rebalance

-----------------------------------------------------------------------------
(* What a running worker does by itself.                                   *)
Step(w) ==
  \/ \E p \in Partitions : \/ DispatchScan(w, p) \/ DispatchCheck(w, p)
                           \/ DispatchNothing(w, p) \/ DispatchRaises(w, p)
                           \/ DecodeFails(w, p)
  \/ ScanOk(w) \/ StoreMarker(w, FALSE) \/ InsertOk(w) \/ PublishEnriched(w)
  \/ CheckDone(w) \/ ReplySent(w)
  \/ CommitOk(w) \/ CommitSkip(w, FALSE) \/ Wake(w)

(* What a failing store or broker makes it do instead.                     *)
FailingStep(w) ==
  \/ ScanFails(w) \/ StoreMarker(w, TRUE) \/ InsertPermanent(w)
  \/ CommitSkip(w, TRUE)
  \/ \E late \in BOOLEAN : \/ InsertTransient(w, late)
                           \/ ReplyFails(w, late)
                           \/ CommitTransient(w, late)
                           \/ CommitPermanent(w, late)

Environment == TakeOver \/ Shuffle \/ \E w \in Workers : Crash(w) \/ Restart(w)

Next ==
  \/ \E w \in Workers : Step(w) \/ FailingStep(w)
  \/ Environment

Spec == Init /\ [][Next]_vars

(* A running loop keeps running, a dead container is restarted, and the    *)
(* group gives orphaned partitions away.                                   *)
Fairness ==
  /\ \A w \in Workers : WF_vars(Step(w)) /\ WF_vars(Restart(w))
  /\ WF_vars(TakeOver)

FairSpec == Spec /\ Fairness

-----------------------------------------------------------------------------
(* Type correctness of the whole state.                                    *)
TypeOK ==
  /\ log \in [Messages -> Kinds]
  /\ owner \in [Partitions -> Workers \union {Nobody}]
  /\ pos \in [Partitions -> 0 .. LogLen]
  /\ committed \in [Partitions -> 0 .. LogLen]
  /\ pc \in [Workers -> IdleStates \union BusyStates]
  /\ cur \in [Workers -> Messages \union {NoMessage}]
  /\ backoff \in [Workers -> RetryInitial .. RetryMax]
  /\ outcome \in [Messages -> SUBSET Outcomes]
  /\ copies \in [Messages -> 0 .. MaxFaults + 1]
  /\ faults \in 0 .. MaxFaults
  /\ reassigned \in BOOLEAN

(* No message is lost silently: a committed offset never passes a message  *)
(* nothing was done about ("so a later commit() can never advance past     *)
(* it", app.py), whatever fails, dies or is reassigned in between.         *)
CommittedSettled ==
  \A m \in Messages : m[2] < committed[m[1]] => Settled(m)

(* A partition is worked through in order: a worker takes up a message     *)
(* only when everything before it is settled, also after a seek-back or a  *)
(* rebalance moved the position.                                           *)
InOrder ==
  \A w \in Workers : cur[w] # NoMessage =>
    \A m \in Messages :
      m[1] = cur[w][1] /\ m[2] < cur[w][2] => Settled(m)

(* The inductive strengthening: below a position everything is settled,    *)
(* but for the message the owner works on at this moment.                  *)
PositionSettled ==
  \A m \in Messages :
    owner[m[1]] \in Workers /\ m[2] < pos[m[1]] =>
      Settled(m) \/ cur[owner[m[1]]] = m

BusyWithMessage ==
  \A w \in Workers : (cur[w] = NoMessage) <=> (pc[w] \in IdleStates)

DoneSettled ==
  \A w \in Workers : pc[w] \in DoneStates => Settled(cur[w])

DeliveryInv ==
  /\ TypeOK
  /\ CommittedSettled
  /\ InOrder
  /\ PositionSettled
  /\ BusyWithMessage
  /\ DoneSettled

(* Every repeated side effect is paid for by a failure or a rebalance:     *)
(* a scan is stored (a requester answered) at most once more than there    *)
(* were disturbances, not once more per message re-read.                   *)
RepeatsCostFaults == \A m \in Messages : copies[m] <= 1 + faults

(* A live requester is never answered twice by a worker retrying: only a   *)
(* partition handed out again can re-run a synchronous check ("never       *)
(* seek-back-block the partition for these; skip on any failure", app.py). *)
RequestOnce ==
  ~reassigned =>
    \A m \in Messages : log[m] \in SyncKinds => copies[m] <= 1

(* Without failures every committed trace has exactly one row and every    *)
(* committed request exactly one reply.                                    *)
FaultFreeExactlyOnce ==
  faults = 0 =>
    \A m \in Messages : m[2] < committed[m[1]] =>
      /\ log[m] = "scan" => outcome[m] = {"row"} /\ copies[m] = 1
      /\ log[m] = "request" => outcome[m] = {"replied"} /\ copies[m] = 1

(* A commit may withdraw an offset (a commit that failed after it was      *)
(* applied is sought back, then another partition's commit goes out), but  *)
(* unless a partition was handed out again only the one message in work is *)
(* taken back.                                                             *)
WithdrawsAtMostOne ==
  [][~reassigned =>
       \A p \in Partitions : committed[p] <= committed'[p] + 1]_vars

(* What a worker is doing fits the kind of its message.                    *)
KindOfWork ==
  \A w \in Workers :
    /\ pc[w] \in {"scan", "marker", "insert", "publish"} => log[cur[w]] = "scan"
    /\ pc[w] = "check" => log[cur[w]] \in SyncKinds
    /\ pc[w] = "reply" => log[cur[w]] = "request"

(* The workers that may still store a row, or send a reply, for m; and     *)
(* whether m is going to be handed out once more from where its partition  *)
(* stands.                                                                 *)
AtWork(m) ==
  {w \in Workers : cur[w] = m /\ pc[w] \in {"scan", "insert", "check", "reply"}}

Due(m) == IF pos[m[1]] <= m[2] THEN 1 ELSE 0

(* The ledger of a message: what was done for it, is being done and is to  *)
(* be done is paid for by the first delivery and by the disturbances, of   *)
(* which no more than MaxFaults are counted.                               *)
EffectsPaid ==
  faults < MaxFaults =>
    \A m \in Messages :
      /\ IsFiniteSet(AtWork(m))
      /\ copies[m] + Cardinality(AtWork(m)) + Due(m) <= 1 + faults

(* While no partition was handed out again, a message in work is the last  *)
(* one its partition gave out, a commit is at most one message ahead of    *)
(* the position, and only while that message is to be read again; and a    *)
(* synchronous check not yet answered was never answered.                  *)
InHand(p) == \E w \in Workers : cur[w] # NoMessage /\ cur[w][1] = p

Undisturbed ==
  ~reassigned =>
    /\ \A w \in Workers : cur[w] # NoMessage =>
         owner[cur[w][1]] = w /\ pos[cur[w][1]] = cur[w][2] + 1
    /\ \A p \in Partitions :
         committed[p] <= pos[p] + (IF InHand(p) THEN 0 ELSE 1)
    /\ \A m \in Messages : log[m] \in SyncKinds =>
         /\ copies[m] <= 1
         /\ Due(m) = 1 \/ AtWork(m) # {} => copies[m] = 0

(* While nothing failed, what became of a trace or a request is its row or *)
(* its reply.                                                              *)
CleanRun ==
  faults = 0 =>
    /\ \A w \in Workers : pc[w] # "marker"
    /\ \A m \in Messages :
         /\ log[m] = "scan" => outcome[m] \subseteq {"row"}
         /\ log[m] = "request" => outcome[m] \subseteq {"replied"}
         /\ log[m] \in {"scan", "request"} /\ Settled(m) => copies[m] >= 1

EffectsInv == KindOfWork /\ EffectsPaid /\ Undisturbed /\ CleanRun

(* The inductive invariant of the loop.                                    *)
LoopInv == DeliveryInv /\ EffectsInv

(* The loop implements at-least-once delivery.                             *)
D == INSTANCE Delivery WITH settled <- {m \in Messages : Settled(m)}

AtLeastOnce == D!Spec

(* Every message of the topic is settled in the end, whatever the (finite) *)
(* failures: no seek-back, skip or rebalance leaves one behind for good.   *)
EverythingSettled == \A m \in Messages : <>Settled(m)

-----------------------------------------------------------------------------
(* What the comments say of the loop and the code does not do.             *)

(* app.py: "Poison message ... skip DELIBERATELY by committing past it".   *)
PoisonSkipped ==
  \A m \in Messages :
    log[m] \in {"malformed", "garbage"} ~> Settled(m)

(* jobs/run.py: "Don't fail silently: a missing row is indistinguishable   *)
(* from an unscanned/clean trace. Persist a marker so the gap is           *)
(* queryable": a committed trace has a row, or a marker, or was skipped    *)
(* as poison.                                                              *)
NoSilentGap ==
  \A m \in Messages :
    log[m] = "scan" /\ m[2] < committed[m[1]] =>
      outcome[m] \intersect {"row", "marker", "skipped"} # {}
===============================================================================
