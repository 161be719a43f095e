--------------------------- MODULE GateLatencyProofs ---------------------------
(***************************************************************************)
(* How long a check waits, and which texts a scan is given, for every      *)
(* backlog, album, budget and pause.                                       *)
(*                                                                         *)
(* Waiting (LatencyInv).  While the loop is held up, what is left of its   *)
(* timer is owed already: so a check that waits has waited, together with  *)
(* what is left, for no more than it is owed.  Time passes for a waiting   *)
(* check only while the loop is held up, because nobody else uses the      *)
(* thread the scans run on.                                                *)
(*                                                                         *)
(* Texts (ReadingInv).  What the executor is at and what queues behind it  *)
(* is tied to the trace in work, and until some trace's images have        *)
(* outlasted a budget, the images of the awaited job take at least as long *)
(* as the budget has run.                                                  *)
(***************************************************************************)
EXTENDS GateLatency, FiniteSetTheorems, WellFoundedInduction, TLAPS

(* What is left of the timer of the current await.                         *)
Hold == IF stage \in {"ocr", "backoff"} THEN left ELSE 0

NumbersTyped ==
  /\ left \in Nat /\ backoff \in Nat
  /\ arrived \in [Partitions -> Nat]
  /\ \A p \in Partitions : arrived[p] <= Len(Backlog[p])
  /\ pos \in [Partitions -> Nat]
  /\ waited \in [Checks -> 0..Horizon]
  /\ owed \in [Checks -> 0..Horizon]

(* The thread of the scans has no other work.                              *)
ScanThreadFree ==
  /\ stage \in {"idle", "ocr", "scan", "backoff"}
  /\ DOMAIN threads = Executors
  /\ threads["default"].job = None

(* Nothing is counted for a check that has not arrived.                    *)
NotYetCounted ==
  \A p \in Partitions : \A i \in DOMAIN Backlog[p] :
    i > arrived[p] /\ Backlog[p][i] \in Checks =>
      waited[Backlog[p][i]] = 0 /\ owed[Backlog[p][i]] = 0

HoldOwed ==
  \A m \in Checks : Waiting(m) => Least(Horizon, waited[m] + Hold) <= owed[m]

LatencyInv ==
  NumbersTyped /\ ScanThreadFree /\ NotYetCounted /\ WaitsAccounted /\ HoldOwed

LEMMA Bounds ==
  /\ OcrBudget \in Nat /\ RetryInitial \in Nat /\ RetryMax \in Nat /\ Horizon \in Nat
  /\ \A p \in Partitions : Backlog[p] \in Seq(Messages)
BY LatencyAssumption

LEMMA InitInv == Init => LatencyInv
<1> SUFFICES ASSUME Init PROVE LatencyInv
  OBVIOUS
<1>1. NumbersTyped
  BY Bounds DEF Init, NumbersTyped
<1>2. ScanThreadFree
  BY DEF Init, ScanThreadFree, Executors, Idle
<1>3. NotYetCounted
  BY DEF Init, NotYetCounted
<1>4. WaitsAccounted
  BY DEF Init, WaitsAccounted
<1>5. \A m \in Checks : ~Waiting(m)
  BY DEF Init, Waiting
<1> QED
  BY <1>1, <1>2, <1>3, <1>4, <1>5 DEF LatencyInv, HoldOwed

(* A check that waits has arrived, at the one place it stands at.          *)
LEMMA WaitingArrived ==
  ASSUME NumbersTyped, NEW p \in Partitions, NEW i \in DOMAIN Backlog[p],
         i > arrived[p]
  PROVE  ~Waiting(Backlog[p][i])
<1> SUFFICES ASSUME NEW q \in Partitions, NEW j \in (pos[q] + 1)..arrived[q],
                    Backlog[q][j] = Backlog[p][i]
             PROVE  FALSE
  BY DEF Waiting
<1>1. j \in DOMAIN Backlog[q]
  BY Bounds DEF NumbersTyped
<1>2. p = q /\ i = j
  BY <1>1, OnceAssumption
<1> QED
  BY <1>2, Bounds DEF NumbersTyped

-----------------------------------------------------------------------------
(* Steps of the loop and of the threads let no time pass.                  *)

(* A step that changes neither what is waited nor what is owed, does not   *)
(* make a check wait, and does not start a timer.                          *)
LEMMA QuietStep ==
  ASSUME LatencyInv,
         waited' = waited, owed' = owed, arrived' = arrived,
         Hold' \in Nat, Hold' <= Hold,
         \A m \in Checks : Waiting(m)' => Waiting(m)
  PROVE  NotYetCounted' /\ WaitsAccounted' /\ HoldOwed'
<1>1. NotYetCounted' /\ WaitsAccounted'
  BY DEF LatencyInv, NotYetCounted, WaitsAccounted
<1>2. ASSUME NEW m \in Checks, Waiting(m)'
      PROVE  Least(Horizon, waited[m] + Hold') <= owed[m]
  <2>1. Least(Horizon, waited[m] + Hold) <= owed[m]
    BY <1>2 DEF LatencyInv, HoldOwed
  <2>2. waited[m] \in Nat /\ owed[m] \in Nat /\ Hold \in Nat
    BY Bounds DEF LatencyInv, NumbersTyped, Hold
  <2> QED
    BY <2>1, <2>2, Bounds DEF Least
<1> QED
  BY <1>1, <1>2 DEF HoldOwed

(* A step that starts a timer of d ticks and owes them to every check that *)
(* waits.                                                                  *)
LEMMA HoldUpStep ==
  ASSUME LatencyInv, NEW d \in Nat, Hold' = d,
         waited' = waited, arrived' = arrived, pos' = pos, HeldUp(d)
  PROVE  /\ owed' \in [Checks -> 0..Horizon]
         /\ NotYetCounted' /\ WaitsAccounted' /\ HoldOwed'
<1> USE Bounds DEF LatencyInv
<1>1. /\ waited \in [Checks -> 0..Horizon] /\ owed \in [Checks -> 0..Horizon]
      /\ NumbersTyped
  BY DEF NumbersTyped
<1>2. owed' = [m \in Checks |-> IF Waiting(m) THEN Least(Horizon, owed[m] + d) ELSE owed[m]]
  BY DEF HeldUp
<1>3. owed' \in [Checks -> 0..Horizon]
  BY <1>1, <1>2 DEF Least
<1>4. NotYetCounted'
  BY <1>1, <1>2, WaitingArrived DEF NotYetCounted
<1>5. ASSUME NEW m \in Checks
      PROVE  /\ waited[m] <= owed'[m]
             /\ Waiting(m) => Least(Horizon, waited[m] + d) <= owed'[m]
  BY <1>1, <1>2 DEF WaitsAccounted, Least
<1>6. \A m \in Checks : Waiting(m)' <=> Waiting(m)
  BY DEF Waiting
<1> QED
  BY <1>3, <1>4, <1>5, <1>6 DEF WaitsAccounted, HoldOwed

(* The steps of the executor.                                              *)
LEMMA ThreadStep == LatencyInv /\ Thread => LatencyInv'
<1> SUFFICES ASSUME LatencyInv, Thread PROVE LatencyInv'
  OBVIOUS
<1>1. /\ arrived' = arrived /\ pos' = pos /\ loop' = loop
      /\ waited' = waited /\ owed' = owed
  BY DEF Thread, ImageDone, AbandonedDone, history
<1>2. Hold' = Hold /\ Hold \in Nat
  BY <1>1 DEF Hold, loop, LatencyInv, NumbersTyped
<1>3. \A m \in Checks : Waiting(m)' => Waiting(m)
  BY <1>1 DEF Waiting
<1>4. NotYetCounted' /\ WaitsAccounted' /\ HoldOwed'
  BY <1>1, <1>2, <1>3, QuietStep
<1>5. DOMAIN threads' = Executors /\ threads'["default"] = threads["default"]
  BY DEF LatencyInv, ScanThreadFree, Thread, ImageDone, AbandonedDone, NextJob,
         OcrExecutor, Executors
<1>6. NumbersTyped' /\ ScanThreadFree'
  BY <1>1, <1>5 DEF LatencyInv, NumbersTyped, ScanThreadFree, loop
<1> QED
  BY <1>4, <1>6 DEF LatencyInv

(* The next message is fetched: a trace owes its OCR budget.               *)
LEMMA FetchStep ==
  ASSUME LatencyInv, NEW p \in Partitions, Fetch(p)
  PROVE  LatencyInv'
<1> DEFINE m == Backlog[p][pos[p] + 1]
<1>1. /\ arrived' = arrived /\ pos' = pos /\ waited' = waited /\ backoff' = backoff
      /\ stage = "idle"
  BY DEF Fetch
<1>2. \A k \in Checks : Waiting(k)' => Waiting(k)
  BY <1>1 DEF Waiting
<1>3. CASE m \in Checks
  <2>1. stage' = "scan" /\ left' = left /\ threads' = threads /\ owed' = owed
    BY <1>3 DEF Fetch
  <2>2. Hold' = 0 /\ Hold = 0
    BY <1>1, <2>1 DEF Hold
  <2>3. NotYetCounted' /\ WaitsAccounted' /\ HoldOwed'
    BY <1>1, <1>2, <2>1, <2>2, QuietStep
  <2> QED
    BY <1>1, <2>1, <2>3 DEF LatencyInv, NumbersTyped, ScanThreadFree
<1>4. CASE m \notin Checks
  <2>1. stage' = "ocr" /\ left' = OcrBudget /\ HeldUp(OcrBudget)
    BY <1>4 DEF Fetch
  <2>2. Hold' = OcrBudget
    BY <2>1 DEF Hold
  <2>3. owed' \in [Checks -> 0..Horizon] /\ NotYetCounted' /\ WaitsAccounted' /\ HoldOwed'
    BY <1>1, <2>1, <2>2, HoldUpStep, Bounds
  <2>4. DOMAIN threads' = Executors /\ threads'["default"] = threads["default"]
    BY <1>4 DEF Fetch, LatencyInv, ScanThreadFree, OcrExecutor, Executors
  <2> QED
    BY <1>1, <2>1, <2>3, <2>4, Bounds DEF LatencyInv, NumbersTyped, ScanThreadFree
<1> QED
  BY <1>3, <1>4

(* The OCR is over, one way or the other.                                  *)
LEMMA OcrStep == LatencyInv /\ (OcrDone \/ OcrTimeout) => LatencyInv'
<1> SUFFICES ASSUME LatencyInv, OcrDone \/ OcrTimeout PROVE LatencyInv'
  OBVIOUS
<1>1. /\ arrived' = arrived /\ pos' = pos /\ backoff' = backoff
      /\ waited' = waited /\ owed' = owed /\ stage' = "scan" /\ left' \in {0, left}
  BY DEF OcrDone, OcrTimeout
<1>2. Hold' = 0 /\ Hold \in Nat
  BY <1>1 DEF Hold, LatencyInv, NumbersTyped
<1>3. \A m \in Checks : Waiting(m)' => Waiting(m)
  BY <1>1 DEF Waiting
<1>4. NotYetCounted' /\ WaitsAccounted' /\ HoldOwed'
  BY <1>1, <1>2, <1>3, QuietStep
<1>5. DOMAIN threads' = Executors /\ threads'["default"] = threads["default"]
  BY DEF LatencyInv, ScanThreadFree, OcrDone, OcrTimeout, NextJob, OcrExecutor, Executors
<1>6. NumbersTyped' /\ ScanThreadFree'
  BY <1>1, <1>5 DEF LatencyInv, NumbersTyped, ScanThreadFree
<1> QED
  BY <1>4, <1>6 DEF LatencyInv

(* The message is settled, or its partition sought back to it.             *)
LEMMA SettleStep == LatencyInv /\ Settle => LatencyInv'
<1> SUFFICES ASSUME LatencyInv, Settle PROVE LatencyInv'
  OBVIOUS
<1>1. /\ arrived' = arrived /\ pos' = [pos EXCEPT ![current] = @ + 1]
      /\ waited' = waited /\ owed' = owed /\ stage' = "idle" /\ left' = left
      /\ backoff' = RetryInitial /\ threads' = threads
  BY DEF Settle, history
<1>2. Hold' = 0 /\ Hold \in Nat
  BY <1>1 DEF Hold, LatencyInv, NumbersTyped
<1>3. pos' \in [Partitions -> Nat] /\ \A p \in Partitions : pos[p] <= pos'[p]
  <2>1. pos \in [Partitions -> Nat]
    BY DEF LatencyInv, NumbersTyped
  <2>2. pos' = [p \in Partitions |-> IF p = current THEN pos[p] + 1 ELSE pos[p]]
    BY <1>1, <2>1
  <2>3. \A p \in Partitions : pos'[p] \in Nat /\ pos[p] <= pos'[p]
    BY <2>1, <2>2
  <2> QED
    BY <2>2, <2>3
<1>4. \A m \in Checks : Waiting(m)' => Waiting(m)
  BY <1>1, <1>3 DEF Waiting, LatencyInv, NumbersTyped
<1>5. NotYetCounted' /\ WaitsAccounted' /\ HoldOwed'
  BY <1>1, <1>2, <1>4, QuietStep
<1> QED
  BY <1>1, <1>3, <1>5, Bounds DEF LatencyInv, NumbersTyped, ScanThreadFree

LEMMA SeekBackStep == LatencyInv /\ SeekBack => LatencyInv'
<1> SUFFICES ASSUME LatencyInv, SeekBack PROVE LatencyInv'
  OBVIOUS
<1>1. /\ arrived' = arrived /\ pos' = pos /\ waited' = waited /\ threads' = threads
      /\ stage' = "backoff" /\ left' = backoff /\ HeldUp(backoff)
      /\ backoff' = Least(2 * backoff, RetryMax)
  BY DEF SeekBack
<1>2. backoff \in Nat /\ backoff' \in Nat
  BY <1>1, Bounds DEF LatencyInv, NumbersTyped, Least
<1>3. Hold' = backoff
  BY <1>1 DEF Hold
<1>4. owed' \in [Checks -> 0..Horizon] /\ NotYetCounted' /\ WaitsAccounted' /\ HoldOwed'
  BY <1>1, <1>2, <1>3, HoldUpStep
<1> QED
  BY <1>1, <1>2, <1>4 DEF LatencyInv, NumbersTyped, ScanThreadFree

LEMMA WakeStep == LatencyInv /\ Wake => LatencyInv'
<1> SUFFICES ASSUME LatencyInv, Wake PROVE LatencyInv'
  OBVIOUS
<1>1. /\ arrived' = arrived /\ pos' = pos /\ waited' = waited /\ owed' = owed
      /\ stage' = "idle" /\ left' = left /\ backoff' = backoff /\ threads' = threads
  BY DEF Wake, history
<1>2. Hold' = 0 /\ Hold \in Nat
  BY <1>1 DEF Hold, LatencyInv, NumbersTyped
<1>3. \A m \in Checks : Waiting(m)' => Waiting(m)
  BY <1>1 DEF Waiting
<1>4. NotYetCounted' /\ WaitsAccounted' /\ HoldOwed'
  BY <1>1, <1>2, <1>3, QuietStep
<1> QED
  BY <1>1, <1>4 DEF LatencyInv, NumbersTyped, ScanThreadFree

-----------------------------------------------------------------------------
(* A message arrives: a check is owed what is left of the timer.           *)
LEMMA ArriveStep ==
  ASSUME LatencyInv, NEW p \in Partitions, Arrive(p)
  PROVE  LatencyInv'
<1> DEFINE i == arrived[p] + 1
           m == Backlog[p][i]
<1>1. /\ pos' = pos /\ waited' = waited /\ stage' = stage /\ left' = left
      /\ backoff' = backoff /\ threads' = threads
      /\ arrived' = [arrived EXCEPT ![p] = @ + 1]
      /\ arrived[p] < Len(Backlog[p])
      /\ owed' = IF m \in Checks /\ stage \in {"ocr", "backoff"}
                 THEN [owed EXCEPT ![m] = Least(Horizon, left)] ELSE owed
  BY DEF Arrive, loop
<1>2. NumbersTyped /\ Hold' = Hold /\ Hold \in Nat
  BY <1>1 DEF Hold, LatencyInv, NumbersTyped
<1>3. i \in DOMAIN Backlog[p] /\ i > arrived[p]
  BY <1>1, <1>2, Bounds DEF NumbersTyped
<1>4. m \in Checks => waited[m] = 0 /\ owed[m] = 0
  BY <1>3 DEF LatencyInv, NotYetCounted
<1>5. \A k \in Checks : owed[k] \in 0..Horizon /\ waited[k] \in 0..Horizon
  BY <1>2 DEF NumbersTyped
<1>6. \A k \in Checks \ {m} : owed'[k] = owed[k]
  BY <1>1, <1>2 DEF NumbersTyped
<1>7. m \in Checks => owed'[m] = Least(Horizon, Hold)
  BY <1>1, <1>2, <1>4, Bounds DEF NumbersTyped, Hold, Least
<1>8. NumbersTyped'
  <2>1. owed' \in [Checks -> 0..Horizon]
    BY <1>1, <1>2, Bounds DEF NumbersTyped, Least
  <2> QED
    BY <1>1, <1>2, <2>1 DEF NumbersTyped
<1>9. NotYetCounted'
  <2> SUFFICES ASSUME NEW q \in Partitions, NEW j \in DOMAIN Backlog[q],
                      j > arrived'[q], Backlog[q][j] \in Checks
               PROVE  waited'[Backlog[q][j]] = 0 /\ owed'[Backlog[q][j]] = 0
    BY DEF NotYetCounted
  <2>1. j > arrived[q] /\ (q = p => j # i)
    <3>1. CASE q = p
      BY <1>1, <1>2, <3>1, Bounds DEF NumbersTyped
    <3>2. CASE q # p
      BY <1>1, <1>2, <3>2 DEF NumbersTyped
    <3> QED
      BY <3>1, <3>2
  <2>2. Backlog[q][j] # m
    BY <1>3, <2>1, OnceAssumption
  <2> QED
    BY <1>1, <1>6, <2>1, <2>2 DEF LatencyInv, NotYetCounted
<1>10. WaitsAccounted'
  BY <1>1, <1>4, <1>5, <1>6, <1>7, <1>2, Bounds DEF LatencyInv, WaitsAccounted, Least
<1>11. HoldOwed'
  <2> SUFFICES ASSUME NEW k \in Checks, Waiting(k)'
               PROVE  Least(Horizon, waited[k] + Hold) <= owed'[k]
    BY <1>1, <1>2 DEF HoldOwed
  <2>1. CASE k = m
    BY <1>4, <1>7, <1>2, <2>1, Bounds DEF Least
  <2>2. CASE k # m
    <3>1. Waiting(k)
      <4>1. PICK q \in Partitions : \E j \in (pos[q] + 1)..arrived'[q] : Backlog[q][j] = k
        BY <1>1 DEF Waiting
      <4>2. PICK j \in (pos[q] + 1)..arrived'[q] : Backlog[q][j] = k
        BY <4>1
      <4>3. j \in (pos[q] + 1)..arrived[q]
        BY <1>1, <1>2, <2>2, <4>2 DEF NumbersTyped
      <4> QED
        BY <4>2, <4>3 DEF Waiting
    <3> QED
      BY <3>1, <2>2, <1>6 DEF LatencyInv, HoldOwed
  <2> QED
    BY <2>1, <2>2
<1> QED
  BY <1>1, <1>8, <1>9, <1>10, <1>11 DEF LatencyInv, ScanThreadFree

(* Time passes for a check that waits only while a timer runs.             *)
LEMMA TickStep == LatencyInv /\ Tick => LatencyInv'
<1> SUFFICES ASSUME LatencyInv, Tick PROVE LatencyInv'
  OBVIOUS
<1>1. /\ ~Due
      /\ arrived' = arrived /\ pos' = pos /\ stage' = stage /\ backoff' = backoff
      /\ owed' = owed
      /\ left' = IF stage \in {"ocr", "backoff"} THEN left - 1 ELSE left
      /\ waited' = [m \in Checks |->
                    IF Waiting(m) THEN Least(Horizon, waited[m] + 1) ELSE waited[m]]
  BY DEF Tick
<1>2. NumbersTyped /\ ScanThreadFree
  BY DEF LatencyInv
<1>3. stage \in {"ocr", "backoff"} => left > 0
  BY <1>1, <1>2 DEF Due, NumbersTyped
<1>4. DOMAIN threads' = Executors /\ threads'["default"] = threads["default"]
  BY <1>2 DEF Tick, ScanThreadFree, OcrExecutor, Executors
<1>5. NumbersTyped'
  BY <1>1, <1>2, <1>3, Bounds DEF NumbersTyped, Least
<1>6. ASSUME NEW m \in Checks, Waiting(m)
      PROVE  stage \in {"ocr", "backoff"}
  <2>1. \E p \in Partitions : pos[p] < arrived[p]
    BY <1>2, <1>6 DEF Waiting, NumbersTyped
  <2> QED
    BY <1>1, <1>2, <2>1 DEF Due, CanScan, ScanThreadFree
<1>7. NotYetCounted'
  BY <1>1, <1>2, WaitingArrived DEF LatencyInv, NotYetCounted
<1>8. \A m \in Checks : Waiting(m)' <=> Waiting(m)
  BY <1>1 DEF Waiting
<1>9. ASSUME NEW m \in Checks, Waiting(m)
      PROVE  waited'[m] <= owed[m] /\ Least(Horizon, waited'[m] + Hold') <= owed[m]
  <2>1. Least(Horizon, waited[m] + left) <= owed[m] /\ left > 0 /\ Hold' = left - 1
    BY <1>1, <1>3, <1>6, <1>9 DEF LatencyInv, HoldOwed, Hold
  <2>2. waited'[m] = Least(Horizon, waited[m] + 1)
    BY <1>1, <1>9
  <2>3. waited[m] \in 0..Horizon /\ owed[m] \in 0..Horizon /\ left \in Nat
    BY <1>2 DEF NumbersTyped
  <2> QED
    BY <2>1, <2>2, <2>3, Bounds DEF Least
<1>10. WaitsAccounted' /\ HoldOwed'
  BY <1>1, <1>8, <1>9 DEF LatencyInv, WaitsAccounted, HoldOwed
<1> QED
  BY <1>1, <1>2, <1>4, <1>5, <1>7, <1>10 DEF LatencyInv, ScanThreadFree

LEMMA StepInv == LatencyInv /\ [Next]_vars => LatencyInv'
<1> SUFFICES ASSUME LatencyInv, [Next]_vars PROVE LatencyInv'
  OBVIOUS
<1>1. CASE Loop
  BY <1>1, FetchStep, OcrStep, SettleStep, SeekBackStep, WakeStep DEF Loop
<1>2. CASE Thread
  BY <1>2, ThreadStep
<1>3. CASE Tick
  BY <1>3, TickStep
<1>4. CASE \E p \in Partitions : Arrive(p)
  BY <1>4, ArriveStep
<1>5. CASE Outage \/ Recovery \/ UNCHANGED vars
  <2>1. /\ arrived' = arrived /\ pos' = pos /\ waited' = waited /\ owed' = owed
        /\ stage' = stage /\ left' = left /\ backoff' = backoff /\ threads' = threads
    BY <1>5 DEF Outage, Recovery, vars, loop, history
  <2> QED
    BY <2>1 DEF LatencyInv, NumbersTyped, ScanThreadFree, NotYetCounted, WaitsAccounted,
                HoldOwed, Waiting, Hold
<1> QED
  BY <1>1, <1>2, <1>3, <1>4, <1>5 DEF Next

(* A check waits for nothing but the OCR budgets and pauses the loop       *)
(* entered while it waited (_IMAGE_EXECUTOR, _IMAGE_OCR_BUDGET_S).         *)
THEOREM WaitsOnlyForTimers == Spec => []WaitsAccounted
<1>1. LatencyInv => WaitsAccounted
  BY DEF LatencyInv
<1> QED
  BY <1>1, InitInv, StepInv, PTL DEF Spec

-----------------------------------------------------------------------------
(* The time the images of a trace take.  A set of numbers has a least one, *)
(* and the recursion of Total, which takes it away, is well-founded: so    *)
(* Total is what its equation says.                                        *)

LEMMA MinIs ==
  ASSUME NEW T \in SUBSET Nat, T # {}
  PROVE  Min(T) \in T /\ \A y \in T : Min(T) <= y
<1> DEFINE R == {ss \in Nat \X Nat : ss[1] < ss[2]}
<1>1. IsWellFoundedOn(R, Nat)
  BY NatLessThanWellFounded DEF OpToRel
<1>2. PICK x \in T : \A y \in T : ~(<<y, x>> \in R)
  <2> HIDE DEF R
  <2> QED
    BY <1>1, WFMin
<1>3. \A y \in T : ~(y < x)
  BY <1>2
<1>4. \A y \in T : x <= y
  BY <1>3
<1> QED
  BY <1>4 DEF Min

(* A sum over the subsets of S, by taking the least element away.          *)
Sums(f, c, D) ==
  \A T \in D : f[T] = IF T = {} THEN 0 ELSE c[Min(T)] + f[T \ {Min(T)}]

LEMMA SumsExist ==
  ASSUME NEW S \in SUBSET Nat, IsFiniteSet(S), NEW c \in [S -> Nat]
  PROVE  \E f \in [SUBSET S -> Nat] : Sums(f, c, SUBSET S)
<1> DEFINE Upto(n) == {T \in SUBSET S : Cardinality(T) <= n}
           Bad == {n \in Nat : ~\E f \in [Upto(n) -> Nat] : Sums(f, c, Upto(n))}
<1>1. \A T \in SUBSET S : IsFiniteSet(T) /\ Cardinality(T) \in Nat /\ Cardinality(T) <= Cardinality(S)
  BY FS_Subset, FS_CardinalityType
<1>0. \A k, T : T \in Upto(k) <=> T \in SUBSET S /\ Cardinality(T) <= k
  OBVIOUS
<1>2. Bad = {}
  <2> SUFFICES ASSUME Bad # {} PROVE FALSE
    OBVIOUS
  <2>1. Bad \in SUBSET Nat
    OBVIOUS
  <2> DEFINE n == Min(Bad)
  <2>2. n \in Bad /\ \A k \in Bad : n <= k
    <3> HIDE DEF Bad
    <3> QED
      BY <2>1, MinIs
  <2>3. n \in Nat
    BY <2>2
  <2>4. CASE n = 0
    <3>1. \A T \in Upto(0) : T = {}
      BY <1>1, FS_EmptySet
    <3>2. [T \in Upto(0) |-> 0] \in [Upto(0) -> Nat]
      OBVIOUS
    <3>3. Sums([T \in Upto(0) |-> 0], c, Upto(0))
      BY <3>1 DEF Sums
    <3> QED
      BY <2>2, <2>4, <3>2, <3>3
  <2>5. CASE n # 0
    <3>1. n - 1 \in Nat /\ n - 1 \notin Bad
      <4> HIDE DEF Bad
      <4> QED
        BY <2>2, <2>3, <2>5
    <3>2. PICK f \in [Upto(n - 1) -> Nat] : Sums(f, c, Upto(n - 1))
      BY <3>1
    <3>3. \A T \in Upto(n) : T # {} => /\ Min(T) \in T
                                       /\ T \ {Min(T)} \in Upto(n - 1)
      <4> SUFFICES ASSUME NEW T \in Upto(n), T # {}
                   PROVE  Min(T) \in T /\ T \ {Min(T)} \in Upto(n - 1)
        OBVIOUS
      <4>1. Min(T) \in T
        BY MinIs
      <4>2. Cardinality(T \ {Min(T)}) = Cardinality(T) - 1
        BY <1>1, <4>1, FS_RemoveElement
      <4>3. T \in SUBSET S /\ Cardinality(T) <= n
        OBVIOUS
      <4> HIDE DEF Upto
      <4>4. Cardinality(T) - 1 <= n - 1
        BY <1>1, <2>3, <4>3
      <4> QED
        BY <1>0, <4>1, <4>2, <4>3, <4>4
    <3> DEFINE g == [T \in Upto(n) |-> IF T = {} THEN 0 ELSE c[Min(T)] + f[T \ {Min(T)}]]
    <3>4. g \in [Upto(n) -> Nat]
      <4> SUFFICES ASSUME NEW T \in Upto(n), T # {}
                   PROVE  c[Min(T)] + f[T \ {Min(T)}] \in Nat
        OBVIOUS
      <4>1. Min(T) \in S /\ T \ {Min(T)} \in Upto(n - 1)
        BY <3>3
      <4>2. c[Min(T)] \in Nat /\ f[T \ {Min(T)}] \in Nat
        BY <4>1
      <4> QED
        BY <4>2
    <3>5. \A T \in Upto(n - 1) : T \in Upto(n) /\ g[T] = f[T]
      <4> TAKE T \in Upto(n - 1)
      <4>1. T \in SUBSET S /\ Cardinality(T) <= n - 1
        OBVIOUS
      <4>2. Cardinality(T) <= n
        BY <1>1, <2>3, <4>1
      <4>3. T \in Upto(n)
        BY <4>1, <4>2
      <4>4. f[T] = IF T = {} THEN 0 ELSE c[Min(T)] + f[T \ {Min(T)}]
        BY <3>2 DEF Sums
      <4> QED
        BY <4>3, <4>4
    <3>6. Sums(g, c, Upto(n))
      <4> SUFFICES ASSUME NEW T \in Upto(n)
                   PROVE  g[T] = IF T = {} THEN 0 ELSE c[Min(T)] + g[T \ {Min(T)}]
        BY DEF Sums
      <4>1. CASE T = {}
        BY <4>1
      <4>2. CASE T # {}
        <5>1. g[T \ {Min(T)}] = f[T \ {Min(T)}]
          BY <3>3, <3>5, <4>2
        <5> QED
          BY <4>2, <5>1
      <4> QED
        BY <4>1, <4>2
    <3> QED
      BY <2>2, <3>4, <3>6
  <2> QED
    BY <2>4, <2>5
<1>3. Upto(Cardinality(S)) = SUBSET S /\ Cardinality(S) \in Nat
  BY <1>1, FS_CardinalityType
<1>4. Cardinality(S) \notin Bad
  BY <1>2
<1>5. \E f \in [Upto(Cardinality(S)) -> Nat] : Sums(f, c, Upto(Cardinality(S)))
  BY <1>3, <1>4
<1> QED
  BY <1>3, <1>5

LEMMA SumsInNat ==
  ASSUME NEW S \in SUBSET Nat, IsFiniteSet(S), NEW c \in [S -> Nat],
         NEW f, Sums(f, c, SUBSET S)
  PROVE  \A T \in SUBSET S : f[T] \in Nat
<1> DEFINE Bad == {n \in Nat : \E T \in SUBSET S : Cardinality(T) = n /\ f[T] \notin Nat}
<1>1. \A T \in SUBSET S : IsFiniteSet(T) /\ Cardinality(T) \in Nat
  BY FS_Subset, FS_CardinalityType
<1>2. Bad = {}
  <2> SUFFICES ASSUME Bad # {} PROVE FALSE
    OBVIOUS
  <2>1. Min(Bad) \in Bad /\ \A k \in Bad : Min(Bad) <= k
    <3>1. Bad \in SUBSET Nat
      OBVIOUS
    <3> HIDE DEF Bad
    <3> QED
      BY <3>1, MinIs
  <2>2. PICK T \in SUBSET S : Cardinality(T) = Min(Bad) /\ f[T] \notin Nat
    BY <2>1
  <2>3. T # {} /\ f[T] = c[Min(T)] + f[T \ {Min(T)}]
    <3>1. f[T] = IF T = {} THEN 0 ELSE c[Min(T)] + f[T \ {Min(T)}]
      BY DEF Sums
    <3> QED
      BY <2>2, <3>1
  <2>4. Min(T) \in T
    BY <2>3, MinIs
  <2> DEFINE U == T \ {Min(T)}
  <2>5. U \in SUBSET S /\ Cardinality(U) = Cardinality(T) - 1 /\ Cardinality(U) \in Nat
    BY <1>1, <2>4, FS_RemoveElement
  <2>6. f[U] \in Nat
    <3>1. Cardinality(U) \notin Bad
      <4>1. Cardinality(T) \in Nat /\ Cardinality(U) < Cardinality(T)
        BY <1>1, <2>5
      <4>2. ~(Min(Bad) <= Cardinality(U))
        BY <4>1, <2>2, <2>5
      <4> HIDE DEF Bad, U
      <4> QED
        BY <2>1, <4>2
    <3> QED
      BY <2>5, <3>1
  <2>7. c[Min(T)] \in Nat
    BY <2>4
  <2> QED
    BY <2>2, <2>3, <2>6, <2>7
<1> QED
  BY <1>1, <1>2

(* An image of a trace's album is a media part.                            *)
LEMMA ImageTyped ==
  ASSUME album \in [Traces -> Albums], NEW t \in Traces, NEW i \in Images(t)
  PROVE  i \in Nat /\ album[t][i].ticks \in Nat
<1> DEFINE Parts == [usable : BOOLEAN, ticks : Nat, text : BOOLEAN]
<1>1. album[t] \in Seq(Parts)
  BY LatencyAssumption
<1>2. i \in 1..Len(album[t]) /\ Len(album[t]) \in Nat
  BY <1>1 DEF Images, Usable
<1> HIDE DEF Parts
<1>3. album[t][i] \in Parts
  BY <1>1, <1>2
<1> QED
  BY <1>2, <1>3 DEF Parts

LEMMA TotalIs ==
  ASSUME NEW t \in Traces, album \in [Traces -> Albums]
  PROVE  /\ Images(t) \in SUBSET Nat
         /\ Total(t) \in [SUBSET Images(t) -> Nat]
         /\ Sums(Total(t), [i \in Images(t) |-> album[t][i].ticks], SUBSET Images(t))
<1> DEFINE S == Images(t)
           c == [i \in S |-> album[t][i].ticks]
           P(f) == f = [T \in SUBSET S |->
                          IF T = {} THEN 0 ELSE album[t][Min(T)].ticks + f[T \ {Min(T)}]]
<1>1. album[t] \in Seq([usable : BOOLEAN, ticks : Nat, text : BOOLEAN])
  BY LatencyAssumption
<1>2. S \subseteq 1..Len(album[t]) /\ Len(album[t]) \in Nat
  BY <1>1 DEF Images, Usable
<1>3. S \in SUBSET Nat /\ IsFiniteSet(S)
  <2>1. IsFiniteSet(1..Len(album[t]))
    BY <1>2, FS_Interval
  <2>2. S \in SUBSET (1..Len(album[t]))
    BY <1>2
  <2>3. IsFiniteSet(S)
    <3> HIDE DEF S
    <3> QED
      BY <2>1, <2>2, FS_Subset
  <2> QED
    BY <1>2, <2>3
<1>4. c \in [S -> Nat]
  <2>1. \A i \in S : album[t][i].ticks \in Nat
    BY ImageTyped
  <2> QED
    BY <2>1
<1>5. PICK f \in [SUBSET S -> Nat] : Sums(f, c, SUBSET S)
  <2> HIDE DEF S, c
  <2> QED
    BY <1>3, <1>4, SumsExist
<1>6. \A T \in SUBSET S : T # {} => Min(T) \in T
  BY <1>3, MinIs
<1>7. ASSUME NEW h PROVE P(h) <=> /\ DOMAIN h = SUBSET S
                                  /\ h = [T \in SUBSET S |-> h[T]]
                                  /\ Sums(h, c, SUBSET S)
  BY <1>6 DEF Sums
<1>8. P(f)
  BY <1>5, <1>7
<1>9. Total(t) = CHOOSE h : P(h)
  BY DEF Total
<1>10. P(Total(t))
  <2> HIDE DEF P
  <2> QED
    BY <1>8, <1>9
<1>11. /\ DOMAIN Total(t) = SUBSET S
       /\ Total(t) = [T \in SUBSET S |-> Total(t)[T]]
       /\ Sums(Total(t), c, SUBSET S)
  BY <1>7, <1>10
<1>12. Total(t) \in [SUBSET S -> Nat]
  <2> HIDE DEF S, c, P
  <2>1. \A T \in SUBSET S : Total(t)[T] \in Nat
    BY <1>3, <1>4, <1>11, SumsInNat
  <2> QED
    BY <1>11, <2>1
<1> QED
  BY <1>3, <1>11, <1>12

LEMMA AlbumKept ==
  ASSUME album' = album
  PROVE  /\ \A t : Images(t)' = Images(t) /\ Readable(t)' = Readable(t) /\ Total(t)' = Total(t)
         /\ \A t : Ticks(t)' = Ticks(t)
<1>1. \A t : Images(t)' = Images(t)
  BY DEF Images, Usable
<1>2. \A t : Readable(t)' = Readable(t)
  BY <1>1 DEF Readable
<1>3. \A t : Total(t)' = Total(t)
  BY <1>1 DEF Total
<1> QED
  BY <1>1, <1>2, <1>3 DEF Ticks

-----------------------------------------------------------------------------
(* The images of a trace, for every order of the steps.                    *)

Reader == threads[OcrExecutor]

(* Ticks until a thread r has read the last image of its job.              *)
Rest(r) ==
  IF r.todo = {} THEN 0 ELSE r.ticks + Total(r.job)[r.todo \ {Min(r.todo)}]

(* A thread has read the images that are not to do.                        *)
Reads(r) ==
  /\ r = [job |-> r.job, todo |-> r.todo, texts |-> r.texts, ticks |-> r.ticks]
  /\ r.job \in Traces \union {None}
  /\ r.job # None =>
       /\ r.todo \in SUBSET Images(r.job)
       /\ r.ticks \in Nat /\ (r.todo = {} => r.ticks = 0)
       /\ r.texts = {i \in Images(r.job) \ r.todo : album[r.job][i].text}

(* Some trace has images that outlast the budget.                          *)
Late == \E t \in Traces : Ticks(t) >= OcrBudget

Placed ==
  /\ album \in [Traces -> Albums] /\ current \in Partitions
  /\ \A p \in Partitions : pos[p] <= arrived[p]
  /\ stage # "idle" => pos[current] < arrived[current]
  /\ stage = "ocr" => Message \in Traces /\ left <= OcrBudget
  /\ left <= OcrBudget + RetryMax /\ backoff \in RetryInitial..RetryMax
  /\ up \in BOOLEAN /\ outages \in 0..MaxOutages
  /\ found \in [Traces -> SUBSET Nat] /\ \A t \in Traces : found[t] \subseteq Images(t)

(* What queues is the trace in work; what is awaited is its job.           *)
Queued ==
  /\ queue = <<>> \/ (stage = "ocr" /\ queue = <<Message>>)
  /\ Awaited => Reader.job = Message
  /\ stage = "ocr" => Reader.job # None

(* Until images have outlasted a budget, the thread's job is awaited, and  *)
(* its images take at least what the budget is spent for.                  *)
OnTime ==
  \/ Late
  \/ Reader.job = None
  \/ Awaited /\ OcrBudget + Rest(Reader) <= Ticks(Reader.job) + left

TextsDue(t) == found[t] = Readable(t) \/ (found[t] = {} /\ Late)

InTexts == stage = "scan" /\ Message \in Traces => TextsDue(Message)

ReadingInv == Placed /\ Queued /\ Reads(Reader) /\ OnTime /\ InTexts /\ TextsKept

LEMMA ImagesLeft ==
  ASSUME album \in [Traces -> Albums], NEW t \in Traces, NEW todo \in SUBSET Images(t)
  PROVE  /\ todo \in SUBSET Nat
         /\ Total(t)[todo] \in Nat
         /\ todo = {} => Total(t)[todo] = 0
         /\ todo # {} =>
              /\ Min(todo) \in todo
              /\ album[t][Min(todo)].ticks \in Nat
              /\ Total(t)[todo \ {Min(todo)}] \in Nat
              /\ Total(t)[todo] = album[t][Min(todo)].ticks + Total(t)[todo \ {Min(todo)}]
<1>1. /\ Images(t) \in SUBSET Nat
      /\ Total(t) \in [SUBSET Images(t) -> Nat]
      /\ Sums(Total(t), [i \in Images(t) |-> album[t][i].ticks], SUBSET Images(t))
  BY TotalIs
<1>2. todo \in SUBSET Nat /\ Total(t)[todo] \in Nat
  BY <1>1
<1>3. Total(t)[todo] = IF todo = {} THEN 0
                       ELSE [i \in Images(t) |-> album[t][i].ticks][Min(todo)]
                            + Total(t)[todo \ {Min(todo)}]
  BY <1>1 DEF Sums
<1>4. CASE todo = {}
  BY <1>2, <1>3, <1>4
<1>5. CASE todo # {}
  <2>1. Min(todo) \in todo
    BY <1>2, <1>5, MinIs
  <2>2. Total(t)[todo \ {Min(todo)}] \in Nat
    BY <1>1
  <2>3. album[t][Min(todo)].ticks \in Nat
    BY <2>1, ImageTyped
  <2> QED
    BY <1>2, <1>3, <1>5, <2>1, <2>2, <2>3
<1> QED
  BY <1>4, <1>5

(* A thread that takes up images has all of their time before it.          *)
LEMMA AtReads ==
  ASSUME album \in [Traces -> Albums], NEW t \in Traces, NEW todo \in SUBSET Images(t),
         NEW texts, texts = {i \in Images(t) \ todo : album[t][i].text}
  PROVE  /\ Reads(At(t, todo, texts))
         /\ Rest(At(t, todo, texts)) = Total(t)[todo]
         /\ At(t, todo, texts).job = t
         /\ At(t, todo, texts).todo = todo
<1> DEFINE k == IF todo = {} THEN 0 ELSE album[t][Min(todo)].ticks
           r == At(t, todo, texts)
<1>1. r = [job |-> t, todo |-> todo, texts |-> texts, ticks |-> k]
  BY DEF At
<1>2. /\ k \in Nat /\ Total(t)[todo] \in Nat
      /\ todo = {} => k = 0 /\ Total(t)[todo] = 0
      /\ todo # {} => Total(t)[todo] = k + Total(t)[todo \ {Min(todo)}]
  BY ImagesLeft
<1> HIDE DEF k, r
<1>3. r.job = t /\ r.todo = todo /\ r.texts = texts /\ r.ticks = k
  BY <1>1
<1>4. Reads(r)
  BY <1>1, <1>2, <1>3 DEF Reads
<1>5. Rest(r) = Total(t)[todo]
  BY <1>2, <1>3 DEF Rest
<1> QED
  BY <1>3, <1>4, <1>5 DEF r

LEMMA FirstReads ==
  ASSUME album \in [Traces -> Albums], NEW t \in Traces
  PROVE  /\ Reads(At(t, Images(t), {})) /\ At(t, Images(t), {}).job = t
         /\ Rest(At(t, Images(t), {})) = Ticks(t)
         /\ Ticks(t) \in Nat
<1>1. {} = {i \in Images(t) \ Images(t) : album[t][i].text} /\ Images(t) \in SUBSET Images(t)
  OBVIOUS
<1>2. Ticks(t) \in Nat
  BY <1>1, ImagesLeft DEF Ticks
<1> QED
  BY <1>1, <1>2, AtReads DEF Ticks

(* Steps that touch neither the thread nor the await keep what is said of  *)
(* them.                                                                   *)
LEMMA ReaderStep ==
  ASSUME Queued, Reads(Reader), OnTime,
         album' = album, Reader' = Reader, queue' = queue,
         Awaited' <=> Awaited,
         stage = "ocr" => stage' = stage /\ left' = left /\ Message' = Message
  PROVE  Queued' /\ Reads(Reader)' /\ OnTime'
<1>1. /\ \A t : Images(t)' = Images(t) /\ Total(t)' = Total(t)
      /\ \A t : Ticks(t)' = Ticks(t)
  BY AlbumKept
<1>2. Reads(Reader)'
  BY <1>1 DEF Reads
<1>3. Rest(Reader)' = Rest(Reader) /\ (Late' <=> Late)
  BY <1>1 DEF Rest, Late
<1>4. Queued'
  BY DEF Queued, Awaited
<1>5. OnTime'
  BY <1>1, <1>3 DEF OnTime, Awaited
<1> QED
  BY <1>2, <1>4, <1>5

(* The message in work is in the topic, and not settled yet.               *)
LEMMA InWork ==
  ASSUME NumbersTyped, Placed, stage # "idle"
  PROVE  /\ pos[current] + 1 \in DOMAIN Backlog[current]
         /\ Message \in Messages
         /\ \A p \in Partitions : \A i \in 1..pos[p] : Backlog[p][i] # Message
<1>1. /\ current \in Partitions /\ pos[current] < arrived[current]
      /\ pos[current] \in Nat /\ arrived[current] \in Nat
      /\ arrived[current] <= Len(Backlog[current])
      /\ Backlog[current] \in Seq(Messages)
  BY Bounds DEF Placed, NumbersTyped
<1>2. pos[current] + 1 \in DOMAIN Backlog[current] /\ Message \in Messages
  BY <1>1 DEF Message
<1>3. ASSUME NEW p \in Partitions, NEW i \in 1..pos[p] PROVE Backlog[p][i] # Message
  <2>1. i \in DOMAIN Backlog[p] /\ (p = current => i # pos[current] + 1)
    BY Bounds DEF Placed, NumbersTyped
  <2> QED
    BY <1>1, <1>2, <2>1, OnceAssumption DEF Message
<1> QED
  BY <1>2, <1>3

LEMMA TextsStep ==
  ASSUME TextsKept, album' = album, pos' = pos,
         \A p \in Partitions : \A i \in 1..pos[p] :
           Backlog[p][i] \in Traces => found'[Backlog[p][i]] = found[Backlog[p][i]]
  PROVE  TextsKept'
<1>1. \A t : Readable(t)' = Readable(t) /\ Ticks(t)' = Ticks(t)
  BY AlbumKept
<1> QED
  BY <1>1 DEF TextsKept

LEMMA TextsDueStep ==
  ASSUME album' = album, NEW t, found'[t] = found[t]
  PROVE  TextsDue(t)' <=> TextsDue(t)
<1>1. \A u : Readable(u)' = Readable(u) /\ Ticks(u)' = Ticks(u)
  BY AlbumKept
<1> QED
  BY <1>1 DEF TextsDue, Late

(* The thread goes on to the next image, or to the next job.               *)
LEMMA ImageDoneReads ==
  ASSUME LatencyInv, ReadingInv, ImageDone
  PROVE  Queued' /\ Reads(Reader)' /\ OnTime'
<1> DEFINE t == Reader.job
           i == Min(Reader.todo)
           next == Reader.todo \ {i}
           texts == IF album[t][i].text THEN Reader.texts \union {i} ELSE Reader.texts
<1>1. /\ t # None /\ Reader.todo # {} /\ Reader.ticks = 0
      /\ album' = album /\ pos' = pos /\ loop' = loop /\ queue' = queue
      /\ threads' = [threads EXCEPT ![OcrExecutor] = At(t, next, texts)]
  BY DEF ImageDone, Finished, Reader
<1>2. album \in [Traces -> Albums] /\ Reads(Reader) /\ Queued /\ OnTime
  BY DEF ReadingInv, Placed
<1>3. /\ t \in Traces /\ Reader.todo \in SUBSET Images(t)
      /\ Reader.texts = {j \in Images(t) \ Reader.todo : album[t][j].text}
  BY <1>1, <1>2 DEF Reads
<1>4. i \in Reader.todo /\ Total(t)[next] \in Nat
  BY <1>1, <1>2, <1>3, ImagesLeft
<1>5. Reader' = At(t, next, texts)
  BY <1>1 DEF Reader, LatencyInv, ScanThreadFree, Executors, OcrExecutor
<1>6. next \in SUBSET Images(t) /\ texts = {j \in Images(t) \ next : album[t][j].text}
  BY <1>3, <1>4
<1> HIDE DEF t, i, next, texts
<1>7. /\ Reads(Reader') /\ Rest(Reader') = Total(t)[next]
      /\ Reader'.job = t
  BY <1>2, <1>3, <1>5, <1>6, AtReads
<1>8. Rest(Reader) = Total(t)[next]
  BY <1>1, <1>4 DEF Rest, t, i, next
<1>9. /\ \A u : Images(u)' = Images(u) /\ Total(u)' = Total(u)
      /\ \A u : Ticks(u)' = Ticks(u)
  BY <1>1, AlbumKept
<1>10. Reads(Reader)'
  BY <1>1, <1>7, <1>9 DEF Reads
<1>11. Rest(Reader)' = Rest(Reader) /\ Reader'.job = Reader.job /\ (Late' <=> Late)
  BY <1>7, <1>8, <1>9 DEF Rest, Late, t
<1>12. (Awaited' <=> Awaited) /\ Message' = Message /\ left' = left /\ stage' = stage
  BY <1>1 DEF loop, Awaited, Message
<1>13. Queued' /\ OnTime'
  BY <1>1, <1>2, <1>9, <1>11, <1>12 DEF Queued, OnTime
<1> QED
  BY <1>10, <1>13

LEMMA AbandonedReads ==
  ASSUME LatencyInv, ReadingInv, AbandonedDone
  PROVE  Queued' /\ Reads(Reader)' /\ OnTime'
<1>1. /\ Reader.job # None /\ ~Awaited /\ NextJob
      /\ album' = album /\ pos' = pos /\ loop' = loop
  BY DEF AbandonedDone, Finished, Reader
<1>2. /\ \A u : Images(u)' = Images(u) /\ Total(u)' = Total(u)
      /\ \A u : Ticks(u)' = Ticks(u)
  BY <1>1, AlbumKept
<1>3. Late'
  BY <1>1, <1>2 DEF ReadingInv, OnTime, Late
<1>4. Message' = Message /\ stage' = stage
  BY <1>1 DEF loop, Message
<1>5. DOMAIN threads = Executors /\ OcrExecutor \in Executors
  BY DEF LatencyInv, ScanThreadFree, Executors, OcrExecutor
<1>6. CASE queue = <<>>
  <2>1. Reader' = Idle /\ queue' = <<>>
    BY <1>1, <1>5, <1>6 DEF NextJob, Reader
  <2>2. Reads(Reader)'
    BY <2>1 DEF Reads, Idle
  <2> QED
    BY <1>1, <1>3, <1>4, <1>6, <2>1, <2>2 DEF Queued, OnTime, Awaited
<1>7. CASE queue # <<>>
  <2>1. stage = "ocr" /\ queue = <<Message>> /\ Message \in Traces
        /\ album \in [Traces -> Albums]
    BY <1>7 DEF ReadingInv, Queued, Placed
  <2>2. Head(queue) = Message /\ Tail(queue) = <<>>
    BY <2>1
  <2>3. Reader' = At(Message, Images(Message), {}) /\ queue' = <<>>
    BY <1>1, <1>5, <1>7, <2>2 DEF NextJob, Reader
  <2>4. Reads(Reader') /\ Reader'.job = Message
    BY <2>1, <2>3, FirstReads
  <2>5. Reads(Reader)'
    BY <1>1, <1>2, <2>4 DEF Reads
  <2> QED
    BY <1>3, <1>4, <2>1, <2>3, <2>4, <2>5, LatencyAssumption DEF Queued, OnTime, Awaited, Traces
<1> QED
  BY <1>6, <1>7

LEMMA ThreadReads ==
  ASSUME LatencyInv, ReadingInv, Thread
  PROVE  ReadingInv'
<1>1. /\ album' = album /\ arrived' = arrived /\ pos' = pos /\ loop' = loop
      /\ found' = found /\ up' = up /\ outages' = outages
  BY DEF Thread, ImageDone, AbandonedDone, history
<1>2. \A t : Images(t)' = Images(t)
  BY <1>1, AlbumKept
<1>3. Placed'
  BY <1>1, <1>2 DEF ReadingInv, Placed, loop, Message
<1>4. InTexts'
  BY <1>1, TextsDueStep DEF ReadingInv, InTexts, loop, Message
<1>5. TextsKept'
  BY <1>1, TextsStep DEF ReadingInv
<1> QED
  BY <1>3, <1>4, <1>5, ImageDoneReads, AbandonedReads DEF ReadingInv, Thread

LEMMA FetchReads ==
  ASSUME LatencyInv, ReadingInv, NEW p \in Partitions, Fetch(p)
  PROVE  ReadingInv'
<1> DEFINE m == Backlog[p][pos[p] + 1]
<1>1. /\ stage = "idle" /\ pos[p] < arrived[p] /\ current' = p
      /\ album' = album /\ arrived' = arrived /\ pos' = pos /\ backoff' = backoff
      /\ found' = found /\ up' = up /\ outages' = outages
  BY DEF Fetch
<1>2. /\ Placed /\ Reads(Reader) /\ OnTime /\ NumbersTyped
      /\ queue = <<>> /\ ~Awaited
  BY <1>1 DEF ReadingInv, LatencyInv, Queued, Awaited
<1>3. Message' = m /\ m \in Messages
  <2>1. Message' = m
    BY <1>1 DEF Message
  <2>2. Backlog[p] \in Seq(Messages) /\ pos[p] + 1 \in 1..Len(Backlog[p])
    BY <1>1, <1>2, Bounds DEF NumbersTyped
  <2> HIDE DEF m
  <2> QED
    BY <2>1, <2>2 DEF m
<1>4. /\ \A t : Images(t)' = Images(t) /\ Total(t)' = Total(t)
      /\ \A t : Ticks(t)' = Ticks(t)
  BY <1>1, AlbumKept
<1>5. TextsKept'
  BY <1>1, TextsStep DEF ReadingInv
<1>6. OcrBudget \in Nat /\ RetryMax \in Nat
  BY Bounds
<1>7. CASE m \in Checks
  <2>1. stage' = "scan" /\ left' = left /\ threads' = threads /\ queue' = queue
    BY <1>7 DEF Fetch
  <2>2. Queued' /\ Reads(Reader)' /\ OnTime'
    <3>1. Reader' = Reader /\ ~Awaited'
      BY <2>1 DEF Reader, Awaited
    <3> QED
      BY <1>1, <1>2, <2>1, <3>1, ReaderStep DEF ReadingInv
  <2>3. Placed' /\ InTexts'
    BY <1>1, <1>2, <1>3, <1>4, <1>7, <2>1 DEF Placed, InTexts, Traces
  <2> QED
    BY <1>5, <2>2, <2>3 DEF ReadingInv
<1>8. CASE m \notin Checks
  <2>1. /\ stage' = "ocr" /\ left' = OcrBudget /\ m \in Traces
        /\ IF Reader.job = None
           THEN threads' = [threads EXCEPT ![OcrExecutor] = At(m, Images(m), {})] /\ queue' = queue
           ELSE queue' = Append(queue, m) /\ threads' = threads
    BY <1>3, <1>8 DEF Fetch, Reader, Traces
  <2>2. Placed' /\ InTexts'
    <3>1. left' <= OcrBudget /\ left' <= OcrBudget + RetryMax
      BY <1>6, <2>1
    <3> QED
      BY <1>1, <1>2, <1>3, <1>4, <2>1, <3>1 DEF Placed, InTexts
  <2>3. CASE Reader.job = None
    <3>1. Reader' = At(m, Images(m), {}) /\ queue' = <<>>
      BY <1>2, <2>1, <2>3 DEF Reader, LatencyInv, ScanThreadFree, Executors, OcrExecutor
    <3>2. /\ Reads(Reader') /\ Reader'.job = m /\ Rest(Reader') = Ticks(m)
          /\ Ticks(m) \in Nat
      <4> HIDE DEF m
      <4> QED
        BY <1>2, <2>1, <3>1, FirstReads DEF Placed
    <3>3. Reads(Reader)' /\ Rest(Reader)' = Ticks(m)
      BY <1>1, <1>4, <3>2 DEF Reads, Rest
    <3>4. Awaited'
      BY <2>1, <3>1 DEF Awaited
    <3>5. OcrBudget + Rest(Reader)' <= Ticks(Reader.job)' + left'
      BY <1>4, <1>6, <2>1, <3>2, <3>3
    <3>6. Queued' /\ OnTime'
      BY <1>3, <2>1, <3>1, <3>2, <3>4, <3>5, LatencyAssumption DEF Queued, OnTime, Traces
    <3> QED
      BY <1>5, <2>2, <3>3, <3>6 DEF ReadingInv
  <2>4. CASE Reader.job # None
    <3>1. Reader' = Reader /\ queue' = <<m>>
      BY <1>2, <2>1, <2>4 DEF Reader
    <3>2. Reads(Reader)'
      BY <1>1, <1>2, <1>4, <3>1 DEF Reads
    <3>3. Late'
      BY <1>2, <1>4, <2>4 DEF OnTime, Late
    <3>4. Queued' /\ OnTime'
      BY <1>3, <2>1, <2>4, <3>1, <3>3 DEF Queued, OnTime, Awaited
    <3> QED
      BY <1>5, <2>2, <3>2, <3>4 DEF ReadingInv
  <2> QED
    BY <2>3, <2>4
<1> QED
  BY <1>7, <1>8

(* The texts of the trace in work, all of them.                            *)
LEMMA OcrDoneReads ==
  ASSUME LatencyInv, ReadingInv, OcrDone
  PROVE  ReadingInv'
<1>1. /\ Awaited /\ stage = "ocr" /\ queue = <<>> /\ Reader.job # None /\ Reader.todo = {}
      /\ found' = [found EXCEPT ![Message] = Reader.texts]
      /\ stage' = "scan" /\ left' = 0 /\ NextJob
      /\ album' = album /\ arrived' = arrived /\ pos' = pos /\ current' = current
      /\ backoff' = backoff /\ up' = up /\ outages' = outages
  BY DEF OcrDone, Awaited, Finished, Reader
<1>2. /\ Placed /\ NumbersTyped /\ Message \in Traces /\ Reader.job = Message
      /\ found \in [Traces -> SUBSET Nat] /\ Images(Message) \in SUBSET Nat
  BY <1>1, TotalIs DEF ReadingInv, LatencyInv, Placed, Queued
<1>3. Reader.texts = Readable(Message)
  BY <1>1, <1>2 DEF ReadingInv, Reads, Readable
<1>4. Readable(Message) \subseteq Images(Message)
  BY DEF Readable
<1>5. /\ found' \in [Traces -> SUBSET Nat] /\ found'[Message] = Readable(Message)
      /\ \A t \in Traces \ {Message} : found'[t] = found[t]
  BY <1>1, <1>2, <1>3, <1>4
<1>6. Message' = Message /\ \A t : Images(t)' = Images(t) /\ Readable(t)' = Readable(t)
  BY <1>1, AlbumKept DEF Message
<1>7. Reader' = Idle /\ queue' = <<>> /\ ~Awaited'
  BY <1>1 DEF NextJob, Reader, Awaited, LatencyInv, ScanThreadFree, Executors, OcrExecutor
<1>8. Placed'
  <2>1. \A t \in Traces : found'[t] \subseteq Images(t)
    BY <1>2, <1>4, <1>5 DEF Placed
  <2> QED
    BY <1>1, <1>2, <1>5, <1>6, <2>1, Bounds DEF Placed
<1>9. InTexts'
  BY <1>5, <1>6 DEF InTexts, TextsDue
<1>10. TextsKept'
  BY <1>1, <1>2, <1>5, InWork, TextsStep DEF ReadingInv
<1>11. Queued' /\ Reads(Reader)' /\ OnTime'
  <2>1. stage' # "ocr"
    BY <1>1
  <2>2. Reader'.job = None /\ Reads(Reader)'
    BY <1>7 DEF Reads, Idle
  <2> QED
    BY <1>7, <2>1, <2>2 DEF Queued, OnTime
<1> QED
  BY <1>8, <1>9, <1>10, <1>11 DEF ReadingInv

(* The budget is spent: on the images of the job the thread is at, or of   *)
(* one before it.                                                          *)
LEMMA OcrTimeoutReads ==
  ASSUME LatencyInv, ReadingInv, OcrTimeout
  PROVE  ReadingInv'
<1>1. /\ stage = "ocr" /\ left = 0
      /\ found' = [found EXCEPT ![Message] = {}]
      /\ stage' = "scan"
      /\ queue' = IF Awaited THEN queue ELSE Front(queue)
      /\ album' = album /\ arrived' = arrived /\ pos' = pos /\ current' = current
      /\ left' = left /\ backoff' = backoff /\ threads' = threads
      /\ up' = up /\ outages' = outages
  BY DEF OcrTimeout
<1>2. /\ Placed /\ NumbersTyped /\ Message \in Traces /\ Queued /\ Reads(Reader)
      /\ found \in [Traces -> SUBSET Nat]
  BY <1>1 DEF ReadingInv, LatencyInv, Placed
<1>3. /\ found' \in [Traces -> SUBSET Nat] /\ found'[Message] = {}
      /\ \A t \in Traces \ {Message} : found'[t] = found[t]
  BY <1>1, <1>2
<1>4. /\ Message' = Message /\ Reader' = Reader
      /\ \A t : Images(t)' = Images(t) /\ Ticks(t)' = Ticks(t)
  BY <1>1, AlbumKept DEF Message, Reader
<1>5. Reader.job # None => Late
  <2> SUFFICES ASSUME Reader.job # None, ~Late PROVE FALSE
    OBVIOUS
  <2>1. Reader.job \in Traces /\ Reader.todo \in SUBSET Images(Reader.job) /\ Reader.ticks \in Nat
    BY <1>2 DEF Reads
  <2>2. OcrBudget + Rest(Reader) <= Ticks(Reader.job)
    <3>1. Ticks(Reader.job) \in Nat
      BY <1>2, <2>1, FirstReads DEF Placed
    <3> QED
      BY <1>1, <3>1 DEF ReadingInv, OnTime
  <2>3. Rest(Reader) \in Nat
    <3> DEFINE t == Reader.job
               todo == Reader.todo
    <3>1. album \in [Traces -> Albums] /\ t \in Traces /\ todo \in SUBSET Images(t)
      BY <1>2, <2>1 DEF Placed
    <3> HIDE DEF t, todo
    <3>2. todo # {} => Total(t)[todo \ {Min(todo)}] \in Nat
      BY <3>1, ImagesLeft
    <3> QED
      BY <2>1, <3>2 DEF Rest, t, todo
  <2>4. Ticks(Reader.job) \in Nat
    BY <1>2, <2>1, FirstReads DEF Placed
  <2> QED
    BY <2>1, <2>2, <2>3, <2>4, Bounds DEF Late
<1>6. Late
  BY <1>1, <1>2, <1>5 DEF Queued
<1>7. queue' = <<>>
  <2>1. CASE queue = <<>>
    BY <1>1, <2>1 DEF Awaited
  <2>2. CASE queue = <<Message>>
    BY <1>1, <2>2 DEF Awaited, Front
  <2> QED
    BY <1>2, <2>1, <2>2 DEF Queued
<1>8. Placed'
  <2>1. \A t \in Traces : found'[t] \subseteq Images(t)
    BY <1>2, <1>3 DEF Placed
  <2> QED
    BY <1>1, <1>2, <1>3, <1>4, <2>1 DEF Placed
<1>9. Late'
  BY <1>4, <1>6 DEF Late
<1>10. InTexts' /\ Queued' /\ OnTime'
  BY <1>1, <1>3, <1>4, <1>7, <1>9 DEF InTexts, TextsDue, Queued, OnTime, Awaited
<1>11. Reads(Reader)'
  BY <1>1, <1>2, <1>4 DEF Reads
<1>12. TextsKept'
  BY <1>1, <1>2, <1>3, InWork, TextsStep DEF ReadingInv
<1> QED
  BY <1>8, <1>10, <1>11, <1>12 DEF ReadingInv

LEMMA SettleReads ==
  ASSUME LatencyInv, ReadingInv, Settle
  PROVE  ReadingInv'
<1>1. /\ stage = "scan" /\ stage' = "idle"
      /\ pos' = [pos EXCEPT ![current] = @ + 1] /\ backoff' = RetryInitial
      /\ album' = album /\ arrived' = arrived /\ current' = current /\ left' = left
      /\ threads' = threads /\ queue' = queue /\ found' = found
      /\ up' = up /\ outages' = outages
  BY DEF Settle, CanScan, history
<1>2. /\ Placed /\ NumbersTyped /\ InTexts /\ TextsKept /\ Reads(Reader)
      /\ pos \in [Partitions -> Nat] /\ current \in Partitions
  BY DEF ReadingInv, LatencyInv, NumbersTyped, Placed
<1>3. /\ \A t : Images(t)' = Images(t) /\ Readable(t)' = Readable(t)
      /\ \A t : Ticks(t)' = Ticks(t)
  BY <1>1, AlbumKept
<1>4. \A p \in Partitions : pos'[p] = IF p = current THEN pos[p] + 1 ELSE pos[p]
  BY <1>1, <1>2
<1>5. Placed'
  <2>1. RetryInitial \in RetryInitial..RetryMax
    BY LatencyAssumption
  <2>2. \A p \in Partitions : pos'[p] <= arrived[p]
    BY <1>1, <1>2, <1>4 DEF Placed, NumbersTyped
  <2> QED
    BY <1>1, <1>2, <1>3, <2>1, <2>2 DEF Placed
<1>6. Queued' /\ Reads(Reader)' /\ OnTime'
  <2>1. Reader' = Reader /\ ~Awaited /\ ~Awaited' /\ stage # "ocr"
    BY <1>1 DEF Reader, Awaited
  <2> QED
    BY <1>1, <2>1, ReaderStep DEF ReadingInv
<1>7. InTexts'
  BY <1>1 DEF InTexts
<1>8. TextsKept'
  <2> SUFFICES ASSUME NEW p \in Partitions, NEW i \in 1..pos'[p], Backlog[p][i] \in Traces
               PROVE  \/ found[Backlog[p][i]] = Readable(Backlog[p][i])
                      \/ found[Backlog[p][i]] = {} /\ \E u \in Traces : Ticks(u) >= OcrBudget
    BY <1>1, <1>3 DEF TextsKept
  <2>1. CASE i \in 1..pos[p]
    BY <1>2, <2>1 DEF TextsKept
  <2>2. CASE i \notin 1..pos[p]
    <3>1. p = current /\ i = pos[current] + 1
      BY <1>2, <1>4, <2>2
    <3> QED
      BY <1>1, <1>2, <3>1 DEF InTexts, TextsDue, Late, Message
  <2> QED
    BY <2>1, <2>2
<1> QED
  BY <1>5, <1>6, <1>7, <1>8 DEF ReadingInv

(* The pause after a seek-back, and its end.                               *)
LEMMA PauseReads ==
  ASSUME LatencyInv, ReadingInv, SeekBack \/ Wake
  PROVE  ReadingInv'
<1>1. /\ stage \in {"scan", "backoff"} /\ stage' \in {"idle", "backoff"}
      /\ left' \in {left, backoff} /\ backoff' \in {backoff, Least(2 * backoff, RetryMax)}
      /\ album' = album /\ arrived' = arrived /\ pos' = pos /\ current' = current
      /\ threads' = threads /\ queue' = queue /\ found' = found
      /\ up' = up /\ outages' = outages
  BY DEF SeekBack, Wake, CanScan, history
<1>2. Message' = Message /\ \A t : Images(t)' = Images(t)
  BY <1>1, AlbumKept DEF Message
<1>3. Placed'
  <2>1. Placed /\ RetryInitial \in 1..RetryMax /\ RetryMax \in Nat /\ OcrBudget \in Nat
    BY LatencyAssumption DEF ReadingInv
  <2>2. left' <= OcrBudget + RetryMax /\ backoff' \in RetryInitial..RetryMax
    BY <1>1, <2>1 DEF Placed, Least
  <2> QED
    BY <1>1, <1>2, <2>1, <2>2 DEF Placed
<1>4. Queued' /\ Reads(Reader)' /\ OnTime'
  <2>1. Reader' = Reader /\ ~Awaited /\ ~Awaited' /\ stage # "ocr"
    BY <1>1 DEF Reader, Awaited
  <2> QED
    BY <1>1, <2>1, ReaderStep DEF ReadingInv
<1>5. InTexts'
  BY <1>1 DEF InTexts
<1>6. TextsKept'
  BY <1>1, TextsStep DEF ReadingInv
<1> QED
  BY <1>3, <1>4, <1>5, <1>6 DEF ReadingInv

(* The topic and ClickHouse.                                               *)
LEMMA WorldReads ==
  ASSUME LatencyInv, ReadingInv,
         (\E p \in Partitions : Arrive(p)) \/ Outage \/ Recovery \/ UNCHANGED vars
  PROVE  ReadingInv'
<1>1. /\ album' = album /\ pos' = pos /\ loop' = loop
      /\ threads' = threads /\ queue' = queue /\ found' = found
  BY DEF Arrive, Outage, Recovery, vars, loop, history
<1>2. /\ stage' = stage /\ current' = current /\ left' = left /\ backoff' = backoff
      /\ Message' = Message /\ \A t : Images(t)' = Images(t)
  BY <1>1, AlbumKept DEF loop, Message
<1>3. Placed'
  <2>1. Placed /\ NumbersTyped /\ MaxOutages \in Nat
    BY LatencyAssumption DEF ReadingInv, LatencyInv
  <2>2. up' \in BOOLEAN /\ outages' \in 0..MaxOutages
    <3>1. CASE \E p \in Partitions : Arrive(p)
      BY <2>1, <3>1 DEF Arrive, Placed
    <3>2. CASE Outage
      <4>1. up' \in BOOLEAN
        BY <3>2 DEF Outage
      <4>2. outages \in 0..MaxOutages /\ outages < MaxOutages /\ outages' = outages + 1
        BY <2>1, <3>2 DEF Outage, Placed
      <4> QED
        BY <2>1, <4>1, <4>2
    <3>3. CASE Recovery \/ UNCHANGED vars
      BY <2>1, <3>3 DEF Recovery, vars, Placed
    <3> QED
      BY <3>1, <3>2, <3>3
  <2>3. \A p \in Partitions : arrived[p] <= arrived'[p] /\ arrived'[p] \in Nat
    BY <2>1 DEF Arrive, Outage, Recovery, vars, NumbersTyped
  <2>4. /\ \A p \in Partitions : pos[p] <= arrived'[p]
        /\ stage # "idle" => pos[current] < arrived'[current]
    BY <2>1, <2>3 DEF Placed, NumbersTyped
  <2> QED
    BY <1>1, <1>2, <2>1, <2>2, <2>4 DEF Placed
<1>4. Queued' /\ Reads(Reader)' /\ OnTime'
  <2>1. Reader' = Reader /\ (Awaited' <=> Awaited)
    BY <1>1, <1>2 DEF Reader, Awaited
  <2> QED
    BY <1>1, <1>2, <2>1, ReaderStep DEF ReadingInv
<1>5. InTexts'
  BY <1>1, <1>2, TextsDueStep DEF InTexts, ReadingInv
<1>6. TextsKept'
  BY <1>1, TextsStep DEF ReadingInv
<1> QED
  BY <1>3, <1>4, <1>5, <1>6 DEF ReadingInv

(* A tick is spent on the image the thread reads.  One whose fetch never   *)
(* ends outlasts the budget by itself.                                     *)
LEMMA TickReads ==
  ASSUME LatencyInv, ReadingInv, Tick
  PROVE  ReadingInv'
<1>1. /\ ~Due /\ album' = album /\ arrived' = arrived /\ pos' = pos
      /\ stage' = stage /\ current' = current /\ backoff' = backoff
      /\ queue' = queue /\ found' = found /\ up' = up /\ outages' = outages
      /\ left' = IF stage \in {"ocr", "backoff"} THEN left - 1 ELSE left
  BY DEF Tick
<1>2. /\ Placed /\ NumbersTyped /\ Reads(Reader) /\ Queued
      /\ DOMAIN threads = Executors /\ OcrExecutor \in Executors
  BY DEF ReadingInv, LatencyInv, ScanThreadFree, Executors, OcrExecutor
<1>3. /\ \A t : Images(t)' = Images(t) /\ Total(t)' = Total(t)
      /\ \A t : Ticks(t)' = Ticks(t)
      /\ Message' = Message /\ (Late' <=> Late) /\ (Awaited' <=> Awaited)
  BY <1>1, AlbumKept DEF Message, Late, Awaited
<1>4. left \in Nat /\ left' \in Int /\ left' <= left /\ (stage = "ocr" => left' = left - 1)
  BY <1>1, <1>2 DEF NumbersTyped
<1>5. Placed'
  BY <1>1, <1>2, <1>3, <1>4, Bounds DEF Placed
<1>6. InTexts' /\ TextsKept'
  BY <1>1, <1>3, TextsDueStep, TextsStep DEF ReadingInv, InTexts
<1> DEFINE k == IF Reader.ticks \in {0, Forever} THEN Reader.ticks ELSE Reader.ticks - 1
<1>7. Reader' = [job |-> Reader.job, todo |-> Reader.todo, texts |-> Reader.texts, ticks |-> k]
  <2>1. Reader' = [Reader EXCEPT !.ticks = k]
    BY <1>2 DEF Tick, Reader
  <2> QED
    BY <1>2, <2>1 DEF Reads
<1> HIDE DEF k
<1>8. /\ Reader'.job = Reader.job /\ Reader'.todo = Reader.todo
      /\ Reader'.texts = Reader.texts /\ Reader'.ticks = k
  BY <1>7
<1>9. Reader.job # None => k \in Nat /\ (Reader.todo = {} => k = 0)
  BY <1>2 DEF Reads, k
<1>10. Reads(Reader)'
  BY <1>1, <1>2, <1>3, <1>7, <1>8, <1>9 DEF Reads
<1>11. Queued'
  BY <1>1, <1>2, <1>3, <1>8 DEF Queued
<1>12. OnTime'
  <2> SUFFICES ASSUME ~Late, Reader.job # None PROVE OnTime'
    BY <1>3, <1>8 DEF OnTime
  <2> DEFINE t == Reader.job
             rest == Total(t)[Reader.todo \ {Min(Reader.todo)}]
  <2>1. Awaited /\ stage = "ocr" /\ OcrBudget + Rest(Reader) <= Ticks(t) + left
    BY DEF ReadingInv, OnTime, Awaited
  <2>2. t \in Traces /\ Reader.todo \in SUBSET Images(t) /\ Reader.ticks \in Nat
        /\ album \in [Traces -> Albums]
    BY <1>2 DEF Reads, Placed
  <2>3. Reader.ticks # 0
    BY <1>1 DEF Due, Reader
  <2>4. Reader.todo # {}
    BY <1>2, <2>2, <2>3 DEF Reads
  <2>5. rest \in Nat
    <3> DEFINE todo == Reader.todo
    <3> HIDE DEF t, todo
    <3> QED
      BY <2>2, <2>4, ImagesLeft DEF todo
  <2>6. Rest(Reader) = Reader.ticks + rest /\ Rest(Reader)' = k + rest
    BY <1>3, <1>8, <2>4 DEF Rest
  <2>7. Ticks(t) \in Nat /\ OcrBudget \in Nat /\ Forever \in Nat /\ Forever >= OcrBudget
    BY <2>2, FirstReads, LatencyAssumption
  <2>8. left <= OcrBudget
    BY <1>2, <2>1 DEF Placed
  <2> HIDE DEF t, rest
  <2>9. Reader.ticks # Forever
    <3> SUFFICES ASSUME Reader.ticks = Forever PROVE FALSE
      OBVIOUS
    <3>1. Ticks(t) >= OcrBudget
      BY <1>4, <2>1, <2>5, <2>6, <2>7, <2>8
    <3> QED
      BY <2>2, <3>1 DEF Late
  <2>10. k = Reader.ticks - 1
    BY <2>3, <2>9 DEF k
  <2>11. OcrBudget + (k + rest) <= Ticks(t) + (left - 1)
    BY <1>4, <2>1, <2>2, <2>5, <2>6, <2>7, <2>10
  <2> QED
    BY <1>3, <1>4, <1>8, <2>1, <2>6, <2>11 DEF OnTime, t
<1> QED
  BY <1>5, <1>6, <1>10, <1>11, <1>12 DEF ReadingInv

LEMMA InitReads == Init => ReadingInv
<1> SUFFICES ASSUME Init PROVE ReadingInv
  OBVIOUS
<1>1. current \in Partitions
  BY LatencyAssumption DEF Init
<1>2. Reader = Idle /\ queue = <<>> /\ stage = "idle"
  BY DEF Init, Reader, Executors, OcrExecutor
<1>3. Placed
  <2>1. /\ left <= OcrBudget + RetryMax /\ backoff \in RetryInitial..RetryMax
        /\ 0 \in 0..MaxOutages
    BY LatencyAssumption DEF Init
  <2>2. \A p \in Partitions : pos[p] <= arrived[p]
    BY DEF Init
  <2>3. found \in [Traces -> SUBSET Nat] /\ \A t \in Traces : found[t] \subseteq Images(t)
    BY DEF Init
  <2>4. album \in [Traces -> Albums] /\ up \in BOOLEAN /\ outages \in 0..MaxOutages
    BY <2>1 DEF Init
  <2> QED
    BY <1>1, <1>2, <2>1, <2>2, <2>3, <2>4 DEF Placed
<1>4. Reads(Reader) /\ Reader.job = None
  BY <1>2 DEF Reads, Idle
<1>5. Queued /\ OnTime /\ InTexts
  BY <1>2, <1>4 DEF Queued, OnTime, InTexts, Awaited
<1>6. TextsKept
  BY DEF Init, TextsKept
<1> QED
  BY <1>3, <1>4, <1>5, <1>6 DEF ReadingInv

LEMMA StepReads == LatencyInv /\ ReadingInv /\ [Next]_vars => ReadingInv'
<1> SUFFICES ASSUME LatencyInv, ReadingInv, [Next]_vars PROVE ReadingInv'
  OBVIOUS
<1>1. CASE Loop
  BY <1>1, FetchReads, OcrDoneReads, OcrTimeoutReads, SettleReads, PauseReads DEF Loop
<1>2. CASE Thread
  BY <1>2, ThreadReads
<1>3. CASE Tick
  BY <1>3, TickReads
<1>4. CASE (\E p \in Partitions : Arrive(p)) \/ Outage \/ Recovery \/ UNCHANGED vars
  BY <1>4, WorldReads
<1> QED
  BY <1>1, <1>2, <1>3, <1>4 DEF Next

THEOREM ReadingInvariant == Spec => [](LatencyInv /\ ReadingInv)
<1>1. Init => LatencyInv /\ ReadingInv
  BY InitInv, InitReads
<1>2. LatencyInv /\ ReadingInv /\ [Next]_vars => (LatencyInv /\ ReadingInv)'
  BY StepInv, StepReads
<1> QED
  BY <1>1, <1>2, PTL DEF Spec

(* Types of all variables; the images a scan is given texts of are images  *)
(* of its trace.                                                           *)
THEOREM LatencyTypes == Spec => []TypeOK
<1>1. LatencyInv /\ ReadingInv => TypeOK
  <2> SUFFICES ASSUME LatencyInv, ReadingInv PROVE TypeOK
    OBVIOUS
  <2>1. Placed /\ NumbersTyped /\ ScanThreadFree /\ Queued /\ Reads(Reader)
    BY DEF LatencyInv, ReadingInv
  <2>2. \A p \in Partitions :
          arrived[p] \in 0..Len(Backlog[p]) /\ pos[p] \in 0..arrived[p]
    BY <2>1, Bounds DEF NumbersTyped, Placed
  <2>3. left \in 0..(OcrBudget + RetryMax)
    BY <2>1, Bounds DEF NumbersTyped, Placed
  <2>4. \A e \in Executors : threads[e].job \in Traces \union {None}
    BY <2>1 DEF ScanThreadFree, Reads, Reader, Executors, OcrExecutor
  <2>5. queue \in Seq(Traces)
    <3>1. CASE queue = <<>>
      BY <3>1
    <3>2. CASE queue # <<>>
      <4>1. queue = <<Message>> /\ Message \in Traces
        BY <2>1, <3>2 DEF Queued, Placed
      <4> QED
        BY <4>1
    <3> QED
      BY <3>1, <3>2
  <2>6. {waited[m] : m \in Checks} \union {owed[m] : m \in Checks} \subseteq 0..Horizon
    BY <2>1 DEF NumbersTyped
  <2> QED
    BY <2>1, <2>2, <2>3, <2>4, <2>5, <2>6 DEF TypeOK, Placed, ScanThreadFree
<1> QED
  BY <1>1, ReadingInvariant, PTL

(* At most one job that nobody awaits: what queues behind a hung thread is *)
(* the trace in work, and the texts taken are its own (run.py, wait_for).  *)
THEOREM OneGhostAtMost == Spec => []NoGhostJobs
<1>1. ReadingInv => NoGhostJobs
  BY DEF ReadingInv, Queued, NoGhostJobs, Reader
<1> QED
  BY <1>1, ReadingInvariant, PTL

(* A scan is given the texts of all readable images of its trace, or of    *)
(* none, and then only if some trace's images outlast the OCR budget       *)
(* (ocr_event_images, _IMAGE_OCR_BUDGET_S).                                *)
THEOREM NoImageLostInTime == Spec => []TextsKept
<1>1. ReadingInv => TextsKept
  BY DEF ReadingInv
<1> QED
  BY <1>1, ReadingInvariant, PTL
===============================================================================
