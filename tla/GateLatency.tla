------------------------------ MODULE GateLatency ------------------------------
(***************************************************************************)
(* How long a synchronous check waits.  A worker has one loop for all its  *)
(* partitions, and two things hold it up: the OCR of a trace's images,     *)
(* which runs on an executor with one thread and is given up after a       *)
(* budget (jobs/run.py, jobs/helper/image_scan.py), and the pause after a  *)
(* seek-back while ClickHouse is away (app.py).  Everything else takes no  *)
(* time: what the module says about waiting is a lower bound.              *)
(*                                                                         *)
(* Time passes in ticks, and only when nothing is due at once.             *)
(***************************************************************************)
EXTENDS Integers, FiniteSets, SequencesExt

CONSTANTS
  Partitions,    \* the partitions this worker owns
  Checks,        \* synchronous checks
  Backlog,       \* Backlog[p]: the messages of partition p, in order
  Albums,        \* the media parts a trace may hold, each a sequence of
                 \* [usable |-> , ticks |-> , text |-> ]
  Forever,       \* ticks of an image whose fetch never ends
  None,          \* no job
  MaxImages,     \* _MAX_IMAGES
  OcrBudget,     \* _IMAGE_OCR_BUDGET_S, in ticks
  RequesterTimeout,  \* ticks a requester waits for its answer
  RetryInitial,  \* _RETRY_INITIAL_S
  RetryMax,      \* _RETRY_MAX_S
  Horizon,       \* bound: waiting is counted up to here
  MaxOutages     \* bound: outages of ClickHouse considered

Messages == UNION {ToSet(Backlog[p]) : p \in Partitions}
Traces == Messages \ Checks

ASSUME LatencyAssumption ==
  /\ Partitions # {}  \* a worker without one is asked for nothing
  /\ \A p \in Partitions : Backlog[p] \in Seq(Messages)
  /\ None \notin Messages
  /\ {MaxImages, OcrBudget, RequesterTimeout, RetryInitial, RetryMax, Horizon, MaxOutages} \subseteq Nat
  /\ RetryInitial \in 1..RetryMax
  /\ Forever \in Nat /\ Forever >= OcrBudget
  /\ \A album \in Albums : album \in Seq([usable : BOOLEAN, ticks : Nat, text : BOOLEAN])

ASSUME OnceAssumption ==  \* no message stands in two places of the topic
  \A p, q \in Partitions : \A i \in DOMAIN Backlog[p], j \in DOMAIN Backlog[q] :
    Backlog[p][i] = Backlog[q][j] => p = q /\ i = j

VARIABLES
  album,    \* album[t]: the media parts of trace t
  arrived,  \* arrived[p]: messages of partition p in the topic
  pos,      \* pos[p]: messages of partition p settled
  stage,    \* what the loop awaits: "idle", "ocr", "scan" or "backoff"
  current,  \* the partition of the message in work
  left,     \* ticks left of the OCR budget, or of the pause
  backoff,  \* length of the next pause
  threads,  \* threads[e]: what the one thread of executor e does
  queue,    \* the OCR jobs behind it
  found,    \* found[t]: the images whose text the scan of t was given
  up,       \* ClickHouse can be reached
  outages,  \* outages so far
  waited,   \* waited[m]: ticks since check m arrived, until it is answered
  owed      \* owed[m]: ticks the loop was allowed to be held up since then

loop == <<stage, current, left, backoff>>
history == <<found, waited, owed>>
vars == <<album, arrived, pos, stage, current, left, backoff, threads, queue,
          found, up, outages, waited, owed>>

Executors == {"default", "image"}
Idle == [job |-> None, todo |-> {}, ticks |-> 0, texts |-> {}]

Least(a, b) == IF a < b THEN a ELSE b

Message == Backlog[current][pos[current] + 1]
Waiting(m) ==
  \E p \in Partitions : \E i \in (pos[p] + 1)..arrived[p] : Backlog[p][i] = m

Init ==
  /\ album \in [Traces -> Albums]
  /\ arrived = [p \in Partitions |-> 0]
  /\ pos = [p \in Partitions |-> 0]
  /\ stage = "idle"
  /\ current = CHOOSE p \in Partitions : TRUE
  /\ left = 0
  /\ backoff = RetryInitial
  /\ threads = [e \in Executors |-> Idle]
  /\ queue = <<>>
  /\ found = [t \in Traces |-> {}]
  /\ up = TRUE
  /\ outages = 0
  /\ waited = [m \in Checks |-> 0]
  /\ owed = [m \in Checks |-> 0]

-----------------------------------------------------------------------------
(* The images of a trace.                                                  *)

(* extract_images: the parts with a URL or inline data, six at most, here  *)
(* by their places in the album.                                           *)
Usable(t) == {i \in DOMAIN album[t] : album[t][i].usable}
Images(t) == {i \in Usable(t) : Cardinality({j \in Usable(t) : j <= i}) <= MaxImages}

Readable(t) == {i \in Images(t) : album[t][i].text}

(* The executor that runs the OCR; scans run on the default one.           *)
OcrOnScanThread == "default"
OcrExecutor == "image"

(* A thread with the images todo of t to read, the first of them now.      *)
At(t, todo, texts) ==
  [job |-> t, todo |-> todo, texts |-> texts,
   ticks |-> IF todo = {} THEN 0 ELSE album[t][Min(todo)].ticks]

Finished(thread) == thread.job # None /\ thread.todo = {}

(* Mutant of ImageDone: an image that cannot be read ends the loop.        *)
ImageDoneStops ==
  LET thread == threads[OcrExecutor]
      t == thread.job
      i == Min(thread.todo)
  IN /\ t # None /\ ~Finished(thread) /\ thread.ticks = 0
     /\ threads' = [threads EXCEPT ![OcrExecutor] =
          IF album[t][i].text THEN At(t, thread.todo \ {i}, thread.texts \union {i})
          ELSE At(t, {}, thread.texts)]
     /\ UNCHANGED <<album, arrived, pos, loop, queue, history, up, outages>>

(* ocr_event_images: one image after the other; one that cannot be fetched *)
(* or read is skipped.                                                     *)
ImageDone ==
  LET thread == threads[OcrExecutor]
      t == thread.job
      i == Min(thread.todo)
  IN /\ t # None /\ ~Finished(thread) /\ thread.ticks = 0
     /\ threads' = [threads EXCEPT ![OcrExecutor] =
          At(t, thread.todo \ {i},
             IF album[t][i].text THEN thread.texts \union {i} ELSE thread.texts)]
     /\ UNCHANGED <<album, arrived, pos, loop, queue, history, up, outages>>

(* The thread's job is over: it takes up the queued one.                   *)
NextJob ==
  /\ threads' = [threads EXCEPT ![OcrExecutor] =
       IF queue = <<>> THEN Idle ELSE At(Head(queue), Images(Head(queue)), {})]
  /\ queue' = IF queue = <<>> THEN queue ELSE Tail(queue)

(* The loop awaits the job the thread is at, and not one behind it.  The   *)
(* same trace may be both, when an earlier attempt at it was given up.     *)
Awaited == stage = "ocr" /\ queue = <<>>

(* A job the loop has given up ends: nobody takes its texts.               *)
AbandonedDone ==
  /\ Finished(threads[OcrExecutor])
  /\ ~Awaited
  /\ NextJob
  /\ UNCHANGED <<album, arrived, pos, loop, history, up, outages>>

-----------------------------------------------------------------------------
(* The loop.                                                               *)

(* Every check that waits is held up for d ticks more.                     *)
HeldUp(d) ==
  owed' = [m \in Checks |-> IF Waiting(m) THEN Least(Horizon, owed[m] + d) ELSE owed[m]]

(* The next message of a partition: a check is scanned, a trace first has  *)
(* its images read, on the executor's thread or queued behind its job.     *)
Fetch(p) ==
  /\ stage = "idle"
  /\ pos[p] < arrived[p]
  /\ current' = p
  /\ LET m == Backlog[p][pos[p] + 1]
     IN IF m \in Checks
        THEN stage' = "scan" /\ UNCHANGED <<left, threads, queue, owed>>
        ELSE /\ stage' = "ocr"
             /\ left' = OcrBudget
             /\ HeldUp(OcrBudget)
             /\ IF threads[OcrExecutor].job = None
                THEN /\ threads' = [threads EXCEPT ![OcrExecutor] = At(m, Images(m), {})]
                     /\ UNCHANGED queue
                ELSE queue' = Append(queue, m) /\ UNCHANGED threads
  /\ UNCHANGED <<album, arrived, pos, backoff, found, up, outages, waited>>

OcrDone ==
  /\ Awaited
  /\ Finished(threads[OcrExecutor])
  /\ found' = [found EXCEPT ![Message] = threads[OcrExecutor].texts]
  /\ stage' = "scan"
  /\ left' = 0
  /\ NextJob
  /\ UNCHANGED <<album, arrived, pos, current, backoff, up, outages, waited, owed>>

(* Mutant of OcrTimeout: the loop waits for the thread.                    *)
OcrTimeoutNever ==
  /\ left = 0
  /\ OcrDone

(* Mutant of OcrTimeout: the queued job stays in the queue.                *)
OcrTimeoutLeavesJob ==
  /\ stage = "ocr"
  /\ left = 0
  /\ found' = [found EXCEPT ![Message] = {}]
  /\ stage' = "scan"
  /\ UNCHANGED <<album, arrived, pos, current, left, backoff, threads, queue,
                 up, outages, waited, owed>>

(* wait_for gives up: no image text; the job, the last of the queue, is    *)
(* cancelled if it has not begun; if it runs, it goes on.                  *)
OcrTimeout ==
  /\ stage = "ocr"
  /\ left = 0
  /\ found' = [found EXCEPT ![Message] = {}]
  /\ stage' = "scan"
  /\ queue' = IF Awaited THEN queue ELSE Front(queue)
  /\ UNCHANGED <<album, arrived, pos, current, left, backoff, threads,
                 up, outages, waited, owed>>

(* Scans need the one thread of the default executor.                      *)
CanScan == stage = "scan" /\ threads["default"].job = None

Settle ==
  /\ CanScan
  /\ Message \in Checks \/ up
  /\ pos' = [pos EXCEPT ![current] = @ + 1]
  /\ stage' = "idle"
  /\ backoff' = RetryInitial
  /\ UNCHANGED <<album, arrived, current, left, threads, queue, history, up, outages>>

(* Mutant of SeekBack: the pause is doubled without a maximum.             *)
SeekBackUncapped ==
  /\ CanScan
  /\ Message \in Traces /\ ~up
  /\ stage' = "backoff"
  /\ left' = backoff
  /\ backoff' = 2 * backoff
  /\ HeldUp(backoff)
  /\ UNCHANGED <<album, arrived, pos, current, threads, queue, found, up, outages, waited>>

(* The row of a trace cannot be stored: back to its offset, and a pause.   *)
SeekBack ==
  /\ CanScan
  /\ Message \in Traces /\ ~up
  /\ stage' = "backoff"
  /\ left' = backoff
  /\ backoff' = Least(2 * backoff, RetryMax)
  /\ HeldUp(backoff)
  /\ UNCHANGED <<album, arrived, pos, current, threads, queue, found, up, outages, waited>>

Wake ==
  /\ stage = "backoff"
  /\ left = 0
  /\ stage' = "idle"
  /\ UNCHANGED <<album, arrived, pos, current, left, backoff, threads, queue,
                 history, up, outages>>

Loop == (\E p \in Partitions : Fetch(p)) \/ OcrDone \/ OcrTimeout \/ Settle \/ SeekBack \/ Wake
Thread == ImageDone \/ AbandonedDone

-----------------------------------------------------------------------------
(* The world around it.                                                    *)

(* The next message of a partition arrives; a check may find the loop held *)
(* up already.                                                             *)
Arrive(p) ==
  /\ arrived[p] < Len(Backlog[p])
  /\ arrived' = [arrived EXCEPT ![p] = @ + 1]
  /\ LET m == Backlog[p][arrived[p] + 1]
     IN owed' = IF m \in Checks /\ stage \in {"ocr", "backoff"}
                THEN [owed EXCEPT ![m] = Least(Horizon, left)] ELSE owed
  /\ UNCHANGED <<album, pos, loop, threads, queue, found, up, outages, waited>>

Outage ==
  /\ up /\ outages < MaxOutages
  /\ up' = FALSE
  /\ outages' = outages + 1
  /\ UNCHANGED <<album, arrived, pos, loop, threads, queue, history>>

Recovery ==
  /\ ~up
  /\ up' = TRUE
  /\ UNCHANGED <<album, arrived, pos, loop, threads, queue, history, outages>>

(* Something happens before any time passes.                               *)
Due ==
  LET thread == threads[OcrExecutor]
  IN \/ stage = "idle" /\ \E p \in Partitions : pos[p] < arrived[p]
     \/ stage \in {"ocr", "backoff"} /\ left = 0
     \/ CanScan
     \/ thread.job # None /\ thread.ticks = 0

Tick ==
  /\ ~Due
  /\ left' = IF stage \in {"ocr", "backoff"} THEN left - 1 ELSE left
  /\ threads' = [threads EXCEPT ![OcrExecutor].ticks =
                   IF @ \in {0, Forever} THEN @ ELSE @ - 1]
  /\ waited' = [m \in Checks |->
                  IF Waiting(m) THEN Least(Horizon, waited[m] + 1) ELSE waited[m]]
  /\ UNCHANGED <<album, arrived, pos, stage, current, backoff, queue, found,
                 up, outages, owed>>

Next == Loop \/ Thread \/ Tick \/ (\E p \in Partitions : Arrive(p)) \/ Outage \/ Recovery

Spec == Init /\ [][Next]_vars

(* The loop runs when something is due, a thread goes on with its images,  *)
(* time passes, and ClickHouse comes back.                                 *)
FairSpec ==
  Spec /\ WF_vars(Loop) /\ WF_vars(Thread) /\ WF_vars(Tick) /\ WF_vars(Recovery)
-----------------------------------------------------------------------------
(* Properties.                                                             *)

(* Types of all variables.                                                 *)
TypeOK ==
  /\ album \in [Traces -> Albums]
  /\ \A p \in Partitions :
       arrived[p] \in 0..Len(Backlog[p]) /\ pos[p] \in 0..arrived[p]
  /\ stage \in {"idle", "ocr", "scan", "backoff"}
  /\ current \in Partitions
  /\ left \in 0..(OcrBudget + RetryMax)
  /\ backoff \in RetryInitial..RetryMax
  /\ \A e \in Executors : threads[e].job \in Traces \union {None}
  /\ queue \in Seq(Traces)
  /\ found \in [Traces -> SUBSET Nat] /\ \A t \in Traces : found[t] \subseteq Images(t)
  /\ up \in BOOLEAN /\ outages \in 0..MaxOutages
  /\ {waited[m] : m \in Checks} \union {owed[m] : m \in Checks} \subseteq 0..Horizon

(* A check waits for nothing but the OCR budgets and the pauses the loop   *)
(* entered while it waited: images whose fetch never ends cost at most a   *)
(* budget each time, because scans do not share their thread               *)
(* (_IMAGE_EXECUTOR and _IMAGE_OCR_BUDGET_S in run.py).                    *)
WaitsAccounted == \A m \in Checks : waited[m] <= owed[m]

(* The scan of a trace is given the text of every readable image, or of    *)
(* none: an image that fails costs no other image its text, and none at    *)
(* all only if some trace has images that outlast the budget               *)
(* (ocr_event_images, and the fail-open around it).                        *)
Total(t) ==  \* ticks of the images in S, one after the other
  LET total[S \in SUBSET Images(t)] ==
        IF S = {} THEN 0 ELSE album[t][Min(S)].ticks + total[S \ {Min(S)}]
  IN total
Ticks(t) == Total(t)[Images(t)]

TextsKept ==
  \A p \in Partitions : \A i \in 1..pos[p] :
    LET t == Backlog[p][i]
    IN t \in Traces =>
         \/ found[t] = Readable(t)
         \/ found[t] = {} /\ \E u \in Traces : Ticks(u) >= OcrBudget

(* The executor is never asked for more than one job that nobody awaits:   *)
(* what queues behind a hung thread is the trace in work alone, and the    *)
(* texts the loop takes are of its own trace (wait_for cancels a job that  *)
(* has not begun).                                                         *)
NoGhostJobs ==
  /\ queue # <<>> => stage = "ocr" /\ queue = <<Message>>
  /\ Awaited => threads[OcrExecutor].job = Message

(* Whatever the images do, every message that arrived is handled in the    *)
(* end: the OCR gives way and ClickHouse comes back (consume()).           *)
EverythingHandled ==
  \A p \in Partitions : \A i \in 1..Len(Backlog[p]) :
    arrived[p] >= i ~> pos[p] >= i

-----------------------------------------------------------------------------
(* What the comments say, and the code does not do.                        *)

(* run.py of the image executor: "so a slow (or slow-loris) image URL      *)
(* can't stall the sequential consumer and starve the sync pre-call /      *)
(* response gates into their fail-open timeout".  With ClickHouse up and a *)
(* single trace in the topic, no requester waits longer than it does.      *)
GatesNotStarved == \A m \in Checks : waited[m] <= RequesterTimeout

(* app.py of the seek-back: "Blocks the partition until the dependency     *)
(* recovers".  A check does not wait too long for a trace of another       *)
(* partition.                                                              *)
OnlyPartitionBlocked ==
  \A p \in Partitions : \A i \in DOMAIN Backlog[p] :
    LET m == Backlog[p][i]
    IN m \in Checks /\ waited[m] > RequesterTimeout =>
         \E j \in 1..(i - 1) : Backlog[p][j] \in Traces
=============================================================================
