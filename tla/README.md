# A formal model of fluiq-worker-security

TLA+ specifications of the worker in this repository, the TLC runs that check
them on small instances, and proofs, checked by TLAPS, that hold for every
instance. Paths are relative to the repository (`src/`).

## The system

The worker consumes one Kafka topic as a member of a consumer group. A message
is a completed agent trace to scan (asynchronous), or a synchronous check of a
prompt or of a response whose requester waits on a reply topic and goes on
without an answer (fails open) when none comes. Scans are stored in ClickHouse.

| component | state | operations | what makes it correct |
|---|---|---|---|
| consumer loop (`app.py`) | the position and committed offset of each partition, the message in work, the pause after a failure | receive, dispatch, commit, seek back and pause, skip, end | no message committed that nothing was done about; repeated work only for failures; nobody is answered twice by a retry; poison does not block; everything is settled in the end |
| start-up (`app.py`, `db/`) | which dependency is being started, the pause, the instances created | attempt, sleep, next dependency | the worker outlasts its stores; no half-started consumer stays in the group; what counts as started is started |
| trace scan (`jobs/run.py`) | none in the process; the session's rows in the tables | normalise, read history and ancestry, OCR, scan, store row or marker, notify | a failed scan leaves a marker; a failed notification costs nothing; a turn is judged by the past, by its true ancestors and by their trend |
| synchronous gates (`jobs/run.py`) | none | scan, decide, reply | the decision follows the policy; fail open |
| scan and check (`jobs/helper/scanners.py`) | none | aggregate all detectors into a level and a score | both paths agree; level and score agree; no finding is lost in the aggregate |
| detectors (`jobs/helper/*.py`) | lazily loaded models | phrases, entities, secrets, similarities | weak signals need corroboration; a phrase is found as a reader finds it; look-alikes of personal data are dropped and nothing else; one broken model does not silence another |
| ClickHouse and Kafka clients (`db/`) | the connection | start, insert, four reads, publish | reads are best effort; writes report failure |
| image OCR (`jobs/helper/image_scan.py`) | one executor thread and its queue | choose images, fetch, OCR, give up | bounded stall; a bad image costs no other image its text; no texts of another trace |
| OpenInference (`jobs/helper/openinference.py`) | none | reshape an event | a span is scanned as its native twin |

The components interact through calls within one asyncio task: the loop awaits
the handler, the handler awaits the ClickHouse reads, a thread for the scan, the
insert and the publish. Workers interact only through the consumer group, the
broker and the tables. What is hard: between any two awaits another worker may
run, the group may rebalance, a store may fail (also after it applied the call),
or the process may die. The list of hazards, each at its line and with the
properties that would catch it, is in `PROJECT.json`.

## The modules

| module | models | extends / instantiates |
|---|---|---|
| `Delivery` | what the loop promises: at-least-once settlement of a topic | |
| `SecurityConsumer` | the loop, the awaits of the handlers, a group of workers | `Delivery` as `D`, through a refinement mapping |
| `SecurityConsumerProofs` | theorems about `SecurityConsumer` | `SecurityConsumer`, `TLAPS` |
| `MCSecurityConsumer` | small topics and symmetry for TLC | `SecurityConsumer` |
| `Startup` | `consume()` up to the loop | |
| `StartupProofs` | theorems about `Startup` | `Startup`, `TLAPS` |
| `Scanners` | the verdicts of `jobs/helper` as operators | |
| `Gates` | what the three handlers decide about a job | `Scanners` |
| `GatesProofs` | theorems about `Gates` | `Gates`, `WellFoundedInduction`, `TLAPS` |
| `MCGates` | jobs on both sides of every threshold | `Gates` |
| `Ordering` | sets of numbers in ascending order | |
| `OrderingProofs` | lemmas about them, for `TrajectoryProofs` and `ScanPartsProofs` | `Ordering`, `FiniteSetTheorems`, `WellFoundedInduction`, `TLAPS` |
| `Trajectory` | the session history and agent ancestry that scans read and write, and the two verdicts drawn from them | `Ordering` |
| `TrajectoryProofs` | theorems about `Trajectory` | `Trajectory`, `OrderingProofs` |
| `MCTrajectory` | four sessions for TLC | `Trajectory` |
| `GateLatency` | one loop with a clock: the OCR executor, the pause, and a check that waits | |
| `GateLatencyProofs` | theorems about `GateLatency` | `GateLatency`, `WellFoundedInduction`, `TLAPS` |
| `MCGateLatency` | backlogs and images for TLC | `GateLatency` |
| `Windows` | the classifier's windows over a long prompt | |
| `LazyModels` | loading the four models, and what a text scores when one fails | `Scanners` |
| `PiiFilter` | the three passes over what Presidio reports | |
| `PiiFilterProofs` | theorems about `PiiFilter` | `PiiFilter`, `WellFoundedInduction`, `TLAPS` |
| `Patterns` | normalisation and phrase matching, tiers by place | `Scanners`, `Ordering` |
| `TraceInputs` | what a trace scan is given: normalised event, images, siblings | `Ordering` |
| `ScanPartsProofs` | theorems about `Windows`, `LazyModels`, `Patterns` and `TraceInputs`, each by itself | these four, `OrderingProofs` |
| `PiiTexts`, `PatternTexts`, `TraceTrees` | the texts and events of `PiiFilter`, `Patterns`, `TraceInputs` | |
| `MCScanParts` | the five parts of a scan that share no state, side by side | the five, their texts and events |

### SecurityConsumer

A worker is one asyncio loop with one message in work. `pc[w]` is the await it
is suspended at: `poll` (the iterator), `scan`, `insert`, `marker`, `publish`
(the trace handler), `check`, `reply` (the synchronous handlers), `commit`,
`skip` (the two commits of the loop), `backoff` (the pause), or `down`. An
action is what runs from one await to the next.

* `pos[p]` is the consumer's position, `committed[p]` the group's offset,
  `owner[p]` the assignment. `commit()` commits the positions of all partitions
  the worker owns at that moment (`CommitPositions`), as aiokafka does when it
  is called without arguments.
* Messages are of seven kinds, which are what the control flow tells apart:
  `scan`, `blank` (a trace without text), `unknown` (no handler), `request`
  and `anonymous` (synchronous, with and without a correlation id), `malformed`
  (the handler raises) and `garbage` (does not decode).
* `outcome[m]` collects what was done about a message; it is *settled* when
  that is anything at all: a row, a marker, a lost marker, a reply, a lost
  reply, nothing to do, nobody to answer, skipped as poison. `copies[m]` counts
  the rows stored or replies sent. Both are history variables: no guard reads
  them.
* Each store call may succeed, fail, or fail after it was applied (the
  parameter `applied`, `sent`), and the exception may be transient or not; which
  one `_is_transient` says is nondeterministic. `SeekBack` also models `seek()`
  raising when the partition was taken away meanwhile, which ends the process.
* A rebalance (external: the group) assigns all partitions anew and resets
  their positions to the committed offsets; a worker in the middle of a message
  is not told. It may happen at any time, and must when a worker died.

### Startup

`stage` is the dependency being started, `step` whether its attempt is about to
begin, awaits the connection, or failed and pauses. Kafka and ClickHouse go down
and up independently, and the process may die at any step. A consumer instance
is counted when created and discounted when stopped, so that a failed start that
were not cleaned up would show.

### Scanners and Gates

The input of a scan is what the detectors find in a text: the number of strong
and weak phrases, the similarity scores, the entities, secrets. Which characters
produce a finding is left to the modules below. Scores are in hundredths. `scan()`
looks at the first 100,000 characters of every text only (`_MAX_SCAN_CHARS`), `check()` at
all of a prompt; so a text is a pair of findings, `all` of it and of its `head`, `Cap` cuts
it, and nothing is assumed of how the two are related (a phrase may stand behind the cut,
or be made by it). For a text that is not longer both are the same (`Short`). `Scan`, which is
`Detect` on what `Cap` leaves, and `Check` give a level and a score as `scanners.py`
does; `Gates` runs a job through its handler: scan or failure, then the decision of `sync_security_check`,
`sync_response_gate_check` or `auto_security_scan`. A text that is blank is one
in which nothing is found; a detector that raises reports nothing; reads that
failed give an empty context.

### Trajectory

`rows` is the security table in the order of `ingested_at`, and only grows, so a
read is remembered as the number of rows it saw (`view[p].history`,
`view[p].scored`); `events` is the trace table, which other services fill at any
time. A partition's message has its reads pending (`view[p].pending`), which are
answered in any order (`asyncio.gather`) and between which other partitions
store. `History`, `Walk` and `AgentChain` are the queries: the rows a query
selects are a set, `Sorted` puts them in order, `Upward` is one turn of the loop
that walks the ancestry; `SlopeAtLeast` is
`_crescendo_slope(ys) >= bound` with both sides multiplied by the squared number
of values, so that it stays in the integers. `Store` is scan, insert and commit
in one step, as no await between them reads the tables; `StoreFails` leaves the
row or not and delivers the trace again or not. Left out: the rounding of the
float slope at exactly 0.3; rows with equal `ingested_at`. A crash before the
insert leaves nothing, so the trace is as if never begun.

### GateLatency

One worker, a clock, and what can hold its loop up. `stage` is the await the loop
is suspended at (`ocr`, `scan`, `backoff`), `left` the ticks of its timer.
`threads` are the one-thread executors; a job given up goes on in its thread
(`AbandonedDone`), and one not yet begun is cancelled (`OcrTimeout` drops the
last of `queue`, which is the one awaited). An image is a place in its trace's
album; `Images` are the first `MaxImages` usable ones. A job of the thread is the
trace, the images still to do and the places of the texts found so far. An image
takes its `ticks`, or for ever, and has a text or not.
Time passes only when nothing is due at once, so the model's waits are lower
bounds: the scan, the reads and the insert take no time.
`waited[m]` is what a check has waited, `owed[m]` what the budgets and pauses
entered while it waited add up to; both are history variables.

### The parts of a scan

* `Windows`: a prompt is its length, how many characters the 512 tokens of a
  forward pass hold, and where a phrase stands in it. `Score` takes one window;
  a window scores high when it holds the whole phrase. A text of one window is
  cut at 512 tokens like any other, and a forward pass that raises throws away
  what the windows before it gave.
* `LazyModels`: `holds[m]` are the parts (encoder and centroid, tokenizer and
  network) that are assigned, `failed` the models not to be tried again. A load
  may fail before, between or after its two assignments. Missing libraries and a
  model switched off are the same as a load that failed.
* `PiiFilter`: a text is a sequence of runs of digits with what stands between
  them; Presidio (external) reports any two readings its patterns admit, and the
  passes drop some in the order of `_PIIScanner.scan`.
* `Patterns`: a text is a sequence of fragments of words with the characters
  between them, so that zero-width characters within words, white space between
  them and capitals can vary. Full-width letters (NFKC), phrases that begin or end
  with a punctuation mark, and page breaks are left out of the property.
* `TraceInputs`: events of one trace tree are ingested, and scanned, in any
  order. A raw span's attributes stand in any order; `said` is the conversation
  they were exported from, and no action reads it. What an export may look like is
  `TreesAssumption`, and TLC checks it of every tree of the runs. A span's input
  may be JSON: `JsonLists` gives the messages in a text that is a JSON list, `JsonObjects`
  Python's spelling of one that is an object, and `FromInput` is what `_maybe_json` and
  `normalize_event` make of them. `""` stands for an absent field. Sibling rows
  are read as they are: a raw span among them is not normalised, by the code or here.

`MCScanParts` checks the five next to each other in one run: a behaviour belongs to
one part, the variables of the others keep an idle value. They share no state in
the code either, except that one scan calls them all, and each failure is
caught where it happens.

## The runs

| run | bounds | shows |
|---|---|---|
| `consumer_safety` | 2 workers, 2 partitions of 2 messages, 3 faults, pause up to 3; four backlogs that hold every kind | the safety properties; 1.2 million states up to symmetry of the workers |
| `consumer_liveness` | the same with 2 faults and the three decodable backlogs | `AtLeastOnce` (the refinement) and `EverythingSettled` |
| `consumer_poison` | no fault | violated: see Findings |
| `consumer_silent_gap` | 2 faults | violated |
| `startup` | 3 outages or deaths, pause up to 3 | `ReadyToConsume`, `ComesUp` |
| `gates` | 68 thousand jobs | all decisions |
| `gates_scopes` | the pre-call jobs | violated |
| `trajectory` | 3 traces in 2 partitions (agents, a tool between, a cycle), or 6 turns in one; history of 5 rows, ancestry of 2 events; scores 0, 0.5, 1; 1 fault | what verdicts are measured against; 782 thousand states |
| `gate_latency` | 2 traces and a check in 2 partitions, 4 albums, ticks of 4 s (budget 3, timeout 2, pause 1 to 3), 2 outages | waiting, image texts, `EverythingHandled` under fairness; 203 thousand states |
| `gate_latency_pause` | one trace and one check in 2 partitions, no images, ticks of 1 s | violated |
| `scan_parts` | below | seven properties of five parts; 379 thousand states |
| `inputs_tools` | the trace trees of `scan_parts` | violated |

**Why the bounds are enough.** Every property of the loop is about one
message and those before it in its partition, or about one partition's offset
against another's: two partitions of two messages let a commit for one partition
carry (or withdraw) the offset of the other, and two workers let a partition
leave and come back. Three faults admit the longest known chains: a commit that
fails after it was applied, a rebalance in the middle of the seek-back, and a
crash. `MaxFaults` bounds failures and rebalances together; `copies` and
`faults` saturate just above it. `RetryMax` 3 is not a power of two times
`RetryInitial`, as 30 s is not of 1 s, so that the cap cuts a doubling. The
jobs of `gates` have scores just below, at and above each threshold in every
order of the two scopes, zero, one and two weak phrases, entities of each band of
weights and every combination of contexts with at most one item of each kind. Prompts and
responses longer than the cap take every pair of six kinds of findings for the whole
and the head; contents and trace prompts have something only behind the cut.

`trajectory` keeps the limits of the code in proportion: the history holds one
row less than the long session has turns and the ancestry walk ends before
the chain of three closes its cycle, so both limits bite. With scores in 0..1 the
interesting lengths of a trend are three to five, which the six turns pass. One
fault suffices for a second row of one turn, a marker and a lost read. `Horizon`
in `gate_latency` caps the counting of waits, above the longest sum of budgets and
pauses. Its albums have an unusable part, an image
that fails, one with text and one too many; two that outlast the budget together; one
whose fetch never ends. In `scan_parts` prompts lie on both sides of one, two
and all windows, with phrases that fit and that do not fit the overlap; three texts
let a model fail on the first, be skipped on the second and others load on the
third; digit texts hold every pair of the shapes that look alike; phrase texts
every pair of pieces in eight layouts; spans every order of their attributes, and inputs
that are JSON lists of messages, of nothing and of strings, and an object.

**Deadlock.** `CHECK_DEADLOCK FALSE` everywhere: a consumer whose topic is
drained waits, a job is answered once, and a worker that came up stays up with
nothing left to do in its module. That nobody waits for ever is what the liveness
properties say.

**Fairness.** `SecurityConsumer!Fairness` is weak fairness of each worker's own
steps (a running event loop resumes a task whose await ended; the store calls
have timeouts, so they end), of the restart of a dead container (docker's
restart policy, which `app.py:78-80` counts on), and of the group giving away the
partitions of a dead member (its session times out). No fairness is asked of a
failing call or a crash, and they are finitely many by `MaxFaults`.
`Startup!FairSpec` asks the same of the one process, and that no store stays away
for ever. Nothing is asked of outages. `GateLatency!FairSpec` is weak fairness of
the loop's own steps, of the OCR thread (it goes on with its images; an image that
never ends is one whose ticks do not run out, which no fairness touches), of time
passing, and of ClickHouse coming back. Arrivals and outages are not fair.

### What the safety properties say

* `CommittedSettled`: an offset never passes a message nothing was done about.
* `InOrder`: a message is taken up only when all before it are settled.
* `RepeatsCostFaults`: a row is stored, or a reply sent, at most once more than
  there were failures and rebalances.
* `RequestOnce`: as long as no partition is handed out again, a requester is
  answered at most once (synchronous checks are never sought back to).
* `FaultFreeExactlyOnce`: without a failure, delivery is exactly once.
* `WithdrawsAtMostOne`: a committed offset may fall back, but by one only, unless
  a partition was handed out again. This is a behaviour worth knowing: when a
  commit fails after the broker applied it, the loop seeks back below the
  committed offset, and the next commit (for another partition) withdraws it. The
  message will be repeated; nothing is lost. After a partition left and came back,
  a late seek-back may withdraw more.
* `LoopInv`: the invariant of the proofs (below), `DeliveryInv` and `EffectsInv`,
  checked before it was proved.
* `PathsAgree`: the pre-call gate, which runs `scan()`, decides as `check()` would of the
  capped prompt, as long as nothing sensitive is in it. Up to 100,000 characters that is the
  prompt; of a longer one `check()` itself reads more, and may refuse what the gate lets
  through (`CapHidesNothing` below).
* `HighBlocks`, `PolicyMonotone`, `WeakNeedsCorroboration` for the
  pre-call check; `ResponseGateWeighs` for the response gate; `TraceCoversGates`,
  `UntrustedContentFlags` for traces (by words only the injection and jailbreak lists
  count); `BadgeNeverOverstates` for every row. All speak of what is scanned of a text, its
  first 100,000 characters.
* `HistoryIsThePast`: a turn is measured against the other turns' rows, without
  gaps, in order, never against itself however often it was stored, and without a
  failure against the newest it must know of.
* `ChainIsAncestry`: the ancestry read in two racing queries is the true one:
  no event twice, every scanned ancestor within the limit, ancestors before
  descendants, also with cycles and with ancestors that have no row.
* `EscalationCrossesAgents`: an escalation is of a turn prompted by an agent, over at
  least two true ancestors.
* `VerdictsAreTrends`: the integer slope agrees with an independent definition
  of a trend, the mean rise over all pairs of turns; an escalation is a trend of the
  ancestry, whatever the session did.
* `CrescendoOnlyEarly`: what the threshold of 0.3 amounts to: a crescendo is
  possible at the third to fifth known turn only, at a score of 0.6 or more.
* `WaitsAccounted`: a check waits for OCR budgets and pauses only. It fails as soon
  as scans and OCR share a thread.
* `TextsKept`, `NoGhostJobs`: a scan gets all the texts of its images or, if some
  trace's images outlast the budget, none; never those of another trace; behind a
  hung thread at most the trace in work is queued.
* `EverythingHandled`: each message that arrived is handled in the end.
* `NoPhraseOnASeam`: a phrase no longer than the overlap is whole in one window.
* `ReadyMeansUsable`, `DegradedVerdict`: a half-loaded model never passes for a
  loaded one, and a lost scope leaves the other at its own threshold.
* `GenuineReported`, `LookalikesDropped`: the filters drop tariff codes and ZIP+4 that
  stand free of other digits, and nothing that is plainly personal data.
* `FoundAsRead`: a phrase is found exactly when a reader finds its words in a row.
* `SpanReadsAsNative`: a raw span yields the prompt and response of the native
  event it was exported from. One kind of prompt is excepted: a user's text that is the
  span's input and is itself JSON (`TypedJsonReadsAsNative` below).

## Findings

Places where a comment or a document says one thing and the code does another,
each with the run that shows it (quoted in `PROJECT.json`):

1. A message that is not UTF-8 JSON is not skipped as poison: the deserializer
   raises in the iterator, outside the loop's `try`, and the worker dies with it
   again and again (`consumer_poison`).
2. When a scan fails and storing its marker fails too, the trace is committed and
   leaves nothing (`consumer_silent_gap`).
3. The semantic verdict misses prompts over the injection threshold whose
   jailbreak score is higher and under its own (`gates_scopes`).
4. The pause after a seek-back holds up every partition of the worker, checks with
   a waiting requester included, not the one partition it is for
   (`gate_latency_pause`).
5. The tool of a raw OpenInference tool span never reaches the tool policy
   (`inputs_tools`).

### Further configurations

The same for smaller matters. Each of these configurations, run with the module
named, ends in a violation of the property it checks. They show a behaviour of the
code beside a sentence about it; some of the sentences can be read more narrowly.

| configuration | module | property | what the code does | what is said of it |
|---|---|---|---|---|
| `StartupProducer` | `Startup` | `ProducerReady` | `_producer` is assigned before its start is awaited, so the attempt after a failed one returns at once | `app.py:76` |
| `GatesCap` | `MCGates` | `CapHidesNothing` | an attack phrase behind the first 100,000 characters of a prompt is refused by `check()` and allowed by the gate | `jobs/helper/scanners.py:70-71, 315` |
| `GatesReport` | `MCGates` | `ReportsWhatScanDetected` | the pre-call check reports `semantic_attack` from 0.34 up, the scan's thresholds being 0.41 and 0.46 | `jobs/run.py:466-468` |
| `GatesCategories` | `MCGates` | `OnlyListedContribute` | a category the policy does not list contributes its level | `jobs/run.py:478-479` |
| `GatesClassifier` | `MCGates` | `ClassifierCanBlock` | in block mode a classifier-only hit is HIGH and allowed | `jobs/helper/classifier.py:138-140` |
| `GatesSensitive` | `MCGates` | `PreCallSkipsSensitiveData` | the pre-call check refuses a prompt for personal data alone | `README.md:21-23` |
| `TrajectoryRamp` | `MCTrajectory` | `LateRampDetected` | clean turns at the start of a session do dilute a late ramp, up to the 19 rows kept | `db/clickhouse/__init__.py:77-80` |
| `TrajectoryMarker` | `MCTrajectory` | `MarkerNotMisread` | a failed scan's marker counts as a turn with score 0 | `jobs/run.py:214-216` |
| `TrajectoryAncestry` | `MCTrajectory` | `WholeAncestry` | the walk to the root ends at the first ancestor that is no `llm` event | `db/clickhouse/__init__.py:221-223` |
| `GateLatencyOcr` | `MCGateLatency` | `GatesNotStarved` | the OCR budget (12 s) is longer than the requester's timeout (8 s) | `jobs/run.py:25-29` |
| `WindowsEnd` | `MCScanParts` | `EndOfPromptScored` | the end of a prompt of more than 7500 characters is in none of the eight windows | `jobs/helper/classifier.py:74-76` |
| `PatternsWeak` | `MCScanParts` | `OneWeakIsLow` | one weak phrase inside another counts as two, and ranks MEDIUM | `jobs/helper/base.py:133-136` |
| `PatternsImage` | `MCScanParts` | `OnlyStrongFlagsImages` | a weak jailbreak phrase flags an image | `jobs/helper/skeleton_key.py:68-69` |
| `InputsJson` | `MCScanParts` | `TypedJsonReadsAsNative` | a user's text that is a JSON list is taken for messages (a list of strings gives no prompt), one that is a JSON object is scanned in Python's spelling | `jobs/helper/openinference.py:57`, `jobs/run.py:43-47` |
| `InputsImages` | `MCScanParts` | `ImagesScanned` | an event of images without any text is skipped before its images are read | `jobs/run.py:184-186` |

## What is proved

For every value of the constants, from the assumptions the modules name (TLC
evaluates them in the runs that extend the module):

| module | theorem | statement |
|---|---|---|
| `SecurityConsumerProofs` | `LoopInvariant` | `Spec => []LoopInv` |
| | `TypeCorrect` | `Spec => []TypeOK` |
| | `NoMessageLost` | `Spec => []CommittedSettled` |
| | `WorkedThroughInOrder` | `Spec => []InOrder` |
| | `ImplementsDelivery` | `Spec => AtLeastOnce`, that is `D!Spec` |
| | `RepeatsPaidFor` | `Spec => []RepeatsCostFaults` |
| | `AnsweredAtMostOnce` | `Spec => []RequestOnce` |
| | `ExactlyOnceWithoutFaults` | `Spec => []FaultFreeExactlyOnce` |
| | `CommitsWithdrawOne` | `Spec => WithdrawsAtMostOne` (an action property) |
| `StartupProofs` | `StartupTypes` | `Spec => []TypeOK` |
| | `ComesUpReady` | `Spec => []ReadyToConsume` |
| `GatesProofs` | `GatesTypes` | `Spec => []TypeOK` |
| | `HighIsRefused` | `ReportsDetections => (Spec => []HighBlocks)` |
| | `GateAgreesWithCheck` | `ReportsDetections => (Spec => []PathsAgree)` |
| | `StricterRefusesMore` | `Spec => []PolicyMonotone` |
| | `OneWeakPhraseIsNotEnough` | `~ClassifierBlocks => (Spec => []WeakNeedsCorroboration)` |
| | `GateWeighsDetections` | `Spec => []ResponseGateWeighs` |
| | `TraceRanksAbove` | `PositiveThresholds => (Spec => []TraceCoversGates)` |
| | `BadgeIsHonest` | `BadgeConfig => (Spec => []BadgeNeverOverstates)` |
| | `UntrustedContentIsFlagged` | `Spec => []UntrustedContentFlags` |
| `TrajectoryProofs` | `TrajectoryTypes` | `Spec => []TypeOK` |
| | `TurnsJudgedByThePast` | `Spec => []HistoryIsThePast` |
| | `EscalationSeesTheAncestry` | `Spec => []ChainIsAncestry` |
| | `EscalationIsAcrossAgents` | `Spec => []EscalationCrossesAgents` |
| | `VerdictsFollowTrends` | `Spec => []VerdictsAreTrends` |
| | `CrescendoIsEarly` | `Spec => []CrescendoOnlyEarly` |
| `GateLatencyProofs` | `WaitsOnlyForTimers` | `Spec => []WaitsAccounted` |
| | `LatencyTypes` | `Spec => []TypeOK` |
| | `OneGhostAtMost` | `Spec => []NoGhostJobs` |
| | `NoImageLostInTime` | `Spec => []TextsKept` |
| `PiiFilterProofs` | `PersonalDataSurvives` | `FilterSpec => []GenuineReported` |
| | `LookalikesNeverReported` | `FilterSpec => []LookalikesDropped` |
| `ScanPartsProofs` | `NoSeam` | `Spec => []NoPhraseOnASeam` |
| | `LoadedModelsUsable` | `TextsType => (ModelsSpec => []ReadyMeansUsable)` |
| | `LostScopeHarmless` | `TextsType /\ ThresholdsPositive => (ModelsSpec => []DegradedVerdict)` |
| | `PhrasesFoundAsRead` | `PatternsSpec => []FoundAsRead` |
| | `SpansReadAsNative` | `InputsSpec => []SpanReadsAsNative` |

`SecurityConsumerProofs` uses `LogAssumption`, `BacklogAssumption`,
`RetryAssumption`, `FaultAssumption` and `SentinelAssumption`. The others:

* `Startup`: the assumptions on pauses and outages. `Windows`: `WindowsAssumption`.
* `Gates`: `JobAssumption` (the jobs are records of the shape the handlers get) and
  `ReportAssumption`, beside those of `Scanners` on thresholds and weights. Five
  theorems need more, and state it. `ReportsDetections`: the classifier is advisory
  and the threshold above which an attack type is reported is not above the
  scopes' own; then every HIGH comes with a type a policy can name.
  `~ClassifierBlocks` alone is enough for the weak phrases. `BadgeConfig`: a
  semantic hit may block and no scope threshold is above 0.9, where the run badge
  begins to rank HIGH. `PositiveThresholds`: at a threshold of 0 a similarity of 0
  is a hit, so that an absent response would be one. All four hold for the defaults
  the repository ships (0.41 and 0.46 for the scopes, 0.34 for the report, an advisory
  classifier, semantic hits that block); `GatesClassifier` shows what happens outside the first two.
* `Trajectory`: `TrajectoryAssumption` (a session has finitely many events, parents are
  among them; scores lie between 0 and 1, as `scan` and the failure marker have them) and
  `OnceAssumption` (an event is published once).
* `GateLatency`: `LatencyAssumption` (the worker has a partition; an image that never
  ends takes at least the budget) and `OnceAssumption` (no message stands in two
  places of the topic).
* `LazyModels`, whose constants have no assumption: the theorems say what they need,
  that similarities are natural numbers, and that thresholds are above 0 (at 0 an
  unavailable model would count as a hit).
* `Patterns`: `PatternsAssumption` (texts are sequences of fragments, and a phrase has
  at least one; nothing is assumed of where words begin).
* `TraceInputs`: `TreesAssumption`, which says how a conversation becomes a span
  (external): no key twice; each message under a number of its own, in their
  order and not necessarily without gaps, or the only one, a user's, as the span's input,
  or all together as its input in a JSON list; the answer as the span's output or in
  the last of its output messages. Contents are plain texts, except in a JSON list: of a message exported in parts (`message.contents`) the
  code reads nothing, so there the theorem says nothing. Neither does it of a conversation
  exported inside a JSON object (`{"messages": ...}`), which the code scans in Python's
  spelling as one user's text, nor of an attribute that is the empty string. `JsonAssumption`
  only gives the types of `JsonLists` and `JsonObjects`. Nothing is
  assumed of the order of the attributes, of others beside them, or of the sibling rows.
* `PiiFilter`: `FilterAssumption` (texts are sequences of runs; the confidence floor,
  0.3, is at most 0.4, the least score of Presidio's phone numbers).

**The consumer loop.** `CommittedSettled` is not inductive: a commit copies
positions, so it has to be known that what is below a *position* is settled. That
is `PositionSettled`, with one exception: the message its owner is working on. A
commit comes only when that message, too, is settled (`DoneSettled`: in the
states `publish`, `commit`, `skip` the work is disposed of). A seek-back, on the other
hand, may lower a position, and a rebalance sets positions to committed offsets
while some worker still holds an old message: hence `InOrder` and
`BusyWithMessage` (a worker has a message exactly when it is busy). The
conjunction is inductive. The actions fall into seven shapes (`StepKinds`: a
worker takes a message, works on, finishes, rewinds, dies, the group resumes from
the committed offsets, or nothing of interest changes), and each part of the
invariant is preserved per shape, not per action.

**Repeated work.** `EffectsInv` keeps a ledger of each message (`EffectsPaid`): the
copies made, the workers that may still make one (`AtWork`), and the delivery
still due because the position is not past it (`Due`) are together at most one
more than the disturbances so far. A step moves a unit from one to the next; only a
failure or a rebalance adds one, and it is counted. `copies` and `faults` saturate
at their bound, so the ledger is kept below it. `KindOfWork` ties the step a worker
is at to the kind of its message. Until a partition is handed out again
(`Undisturbed`), a worker owns what it works on and the position is just behind it
(`InStep`), the committed offset is ahead of the position by at most the message
to be read again (`AheadByOne`, which is what `WithdrawsAtMostOne` needs), and a
check that is due or in work was not answered (`AnsweredOnce`): no failure of a
synchronous handler seeks back. `CleanRun` says what became of a message while
nothing failed. The actions are grouped once more, by what they do to the copies
(`EffectKinds`).

**Its refinement.** `settled` is mapped to the settled messages. Every step of the
loop is a `Settle` step (it only adds to `settled`), a `Commit` step (which by the
invariant covers settled messages only) or a stutter (`SettlesOrCommits`).

**Start-up.** `ReadyToConsume` is not inductive: `InstancesCounted` follows the number of
consumer instances through an attempt (none before it and after its failure, one
while it awaits its start and from then on), and `ClientFirst` says that the
producer's turn comes after the client connected.

**Waiting.** `WaitsAccounted` compares two counters that move at different times:
`owed` when a timer is set, `waited` tick by tick. The invariant connects them:
for a check that waits, what it has waited *together with what is left of the
timer* is owed (`HoldOwed`). A tick moves one unit from the second to the first;
that time passes for a waiting check only while a timer runs (`TickStep`) rests on
`ScanThreadFree`: nobody but the scan uses the thread the scan runs on.
`NotYetCounted` is for the moment a check arrives. `QuietStep` and `HoldUpStep`
are the two shapes a step of the loop has.

**Image texts.** `ReadingInv` follows the images of the trace in work. The queue
holds at most that trace, so behind a thread that hangs there is at most one job
(`Queued`); whatever job the thread is at, it has read just what it has not to do
any more (`Reads`). `OnTime` is why texts are lost for no other reason than time:
as long as no trace's images outlast a budget, what the awaited job has left is at
most what the budget has left, so the budget cannot end first. An image that never ends
outlasts it by itself. The sum over a set of images is a recursive function,
`Total`; that it is what its equation says is shown by a least counterexample
(`SumsExist`, `TotalIs`).

**The gates.** A job is decided once, from its scan; the inductive `DecisionInv`
only says which operator the decision came from. The work is in the lemmas: level
and score are each the greatest of a set of contributions, one per detector, so a
comparison of two scans, or of the two paths, is a comparison of their
contributions. All of this is about `Detect`, on findings; `CapIs`, `CapTreeIs` and
`JobParts` say what of a job's texts gets there. `Max` of a bounded set is proved to be in it, and above the others.

**The past and the ancestry.** Rows are only appended, so a read is as good as the number
of rows it saw (`PastStays`). `Sorted` of a set of numbers is that set, each once and
ascending (`RankOnto`, `SortedIs`), hence the history is in order and without gaps,
and a row it leaves out is older than a full history (`HistoryIs`). That nothing is
missing is about the order of the steps (`Sequential`): without a failure all rows
are of turns done with, and a history that was read has seen all of its partition.
The walk up the parent links is a recursive function of its length; each of its
stages follows the links without repetition, and one shorter than allowed has come to
its end (`Walked`, kept by `UpwardIs`). Therefore it stays within every set closed
under the links (`WalkStays`), which is what an ancestor is, and one that ended has
passed them all (`WalkIsAll`: otherwise there would be more than `MaxDepth` of
them, counted by a bijection). `AgentChainIs` carries this over to the rows. An escalation is judged when the row is
made, from a chain and a parent's kind read at two moments: `KindRead` ties the kind to
the trace in work, and rows are only appended, so what was true of the chain stays true
of the row (`CrossInv`).

**The slope.** The code takes deviations from the mean, `VerdictsAreTrends` the rises over
all pairs of turns. Both are sums, and `Total` is a recursive function, so nothing is
known of it but its equation. The proof puts the running sums of the turns, of the scores and
of their products in place of the sums over them (`SumsExist`), and shows that each side is
the same polynomial in the three (`CovarianceIs`, `RiseIs`), because both begin alike and
change alike from one turn to the next (`SameSteps`). `SlopeIsRise` is the result for
any history. That a crescendo is early is one inequality on top of it: twice
the distance of a turn from the middle one, times what its score contributes, is at
most a square, and over six turns or more the sum of the squares stays below what a rise
of 0.3 a turn needs (`TooLongToClimb`); up to five turns the cases are few (`ShortTrend`). `TrendInv` says of every
row from which scores its verdicts were taken, and that these are in range.

**Phrases.** The expression compares fragment by fragment, and looks at where words begin
only through the characters between fragments; a reader compares word by word.
A text's words are given by its edges (`Edges`, where a word begins, and the end) and by
these in order (`Bounds`). Laid over a text, a phrase has its edges on edges of the text
exactly when its bounds are consecutive bounds of the text (`EdgesToBounds`,
`BoundsToEdges`), which is the case exactly when its words are as long as the text's, one after
the other (`LengthsToBounds`); and then fragment i of the one is fragment i of the
other on both readings (`MatchesAsRead`). That the text is normalised first does not matter
to where its words begin (`NormalizedIs`).

**Spans.** No key stands twice, so a value read is the value said (`ValueIs`). The indices met,
sorted, are the numbers of the messages, as only one ascending sequence has all of
them (`CountedOff`), and the last is the greatest (`GreatestLast`): what is collected, or else
read from the input, is the conversation, unless that is a text that is JSON (`InputIs`),
and what is taken for the answer is its answer (`OutputIs`). The event normalised gives a scan the same texts as its native twin (`NormalizedReads`), and what
siblings or a failed read add touches neither prompt nor response (`InputsInv`).

**Look-alikes.** What a pass drops depends on the match and the text alone, so the
invariant only says what each pass has dropped (`PiiInv`). The work is in what the scan
for tariff codes finds. A code that begins before a run and reaches it has a dot there
(`Crossing`). Hence a number that no dot joins to its neighbours is touched only by codes
within it (`NoCodeUpon`), and the plain forms of a phone number have room for none
(`GenuineKept`); and hence the scan, which goes on behind each code it takes, passes over
no code that stands free (`DottedIs`, by induction from the end of the text), so that one
standing where a phone number was reported is found (`LookalikeCaught`). Digits that a
code elsewhere repeats are a match's own affair: `Genuine` excludes them.

**Windows.** The invariant says what `best` stands for: one of the windows taken
holds the phrase (`BestSoFar`), and that the scoring ended only when no window was
left (`Exhausted`). The phrase lies in the stride of some window (`StrideOf`), that
window was taken (`StrideTaken`), and holds all of it (`WindowHolds`).

**Lazy models.** A model that failed is out for good: it holds nothing and
says 0 of every text (`FailedIsSilent`). With one score 0 the verdict is the
other's (`SilentScope`).

**Induction.** The library's induction theorems take an operator as a parameter, which
the provers cannot instantiate. Where a set or a function is needed by induction
(`Max`, `Min`, `Rank`, the two `Total`, `Walk`, the scan for codes), the proofs take a least counterexample
instead, from the well-foundedness of `<` on the natural numbers.

**Only model-checked.** Liveness (`EverythingSettled`, `ComesUp`,
`EverythingHandled`): fairness and ENABLED are out of the prover's reach. Every invariant and action
property of the passing runs is stated by a theorem above, some of them under the
hypotheses named with it.

## Not modelled

* What Presidio, the encoders, the classifier network and the OCR engines make of
  a text or an image: external. `PiiFilter` takes any reading Presidio's patterns
  admit; the others' results are inputs.
* The expressions and the entropy of the secret scanner, the entropy of a run of
  characters, exfiltration patterns and the allowlist match of a tool's name: what
  they find is an input of `Scanners`.
* NFKC folding, and the lists of phrases: a few phrases of each tier stand for them.
* How long a scan, a read or an insert takes: waits in `GateLatency` are lower bounds.
* `_is_transient`'s walk over an exception chain: which class a failure falls
  into is nondeterministic in `SecurityConsumer`.
* Fetching an image (with the check of its address), decoding, configuration, the
  image build: I/O without control flow of its own.
* Of an OpenInference span: the list of tools, which the scan does not read; JSON
  parsing itself (which texts are JSON, and what is in them, is an input).
* Where a cut at 100,000 characters falls: the findings of a text's head are an input.
* The retention of the topic: a message is assumed to be there when re-read.
* Which 50 siblings a read returns when there are more: any (`TraceInputs!RowsRead`).

## Plan

Done: every module in the table above. Next:

1. `Transience`: exception chains with causes and contexts (also suppressed ones),
   composed with the loop's decision: a poison message raised while a network error
   is being handled.
2. The start-up composed with the group: a worker that holds partitions while
   ClickHouse is away.
