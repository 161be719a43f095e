-------------------------------- MODULE Startup --------------------------------
(***************************************************************************)
(* How a worker process comes up: consume() in app.py starts the Kafka     *)
(* consumer, the ClickHouse client and the Kafka producer one after the    *)
(* other, each through _start_with_retry.  The stores come and go while it *)
(* does, and the process may die and be restarted by docker.               *)
(***************************************************************************)
EXTENDS Naturals

CONSTANTS
  RetryInitial,  \* _RETRY_INITIAL_S
  RetryMax,      \* _RETRY_MAX_S
  MaxOutages     \* bound: store outages and process deaths considered

ASSUME RetryAssumption ==
  /\ RetryInitial \in Nat
  /\ RetryMax \in Nat
  /\ RetryInitial <= RetryMax
ASSUME OutageAssumption == MaxOutages \in Nat

VARIABLES
  stage,      \* the dependency being started, or "running", or "down"
  step,       \* within a dependency: before, in or after a failed attempt
  backoff,    \* seconds of the next pause
  consumers,  \* consumer instances created and not stopped
  client,     \* clickhouse_security_client._client is set
  producer,   \* kafka_producer._producer: None, or assigned and (not) started
  up,         \* up[s]: whether store s can be reached
  outages     \* outages and deaths so far

process == <<stage, step, backoff, consumers, client, producer>>
vars == <<stage, step, backoff, consumers, client, producer, up, outages>>

Stores == {"kafka", "clickhouse"}
Dependencies == {"consumer", "clickhouse", "producer"}

Init ==
  /\ stage = "consumer"
  /\ step = "attempt"
  /\ backoff = RetryInitial
  /\ consumers = 0
  /\ client = FALSE
  /\ producer = "none"
  /\ up \in [Stores -> BOOLEAN]
  /\ outages = 0

-----------------------------------------------------------------------------
(* _start_with_retry: attempt, and on an exception sleep and try again.    *)
At(dependency, where) == stage = dependency /\ step = where

(* An attempt returned: the next dependency starts with a fresh backoff.   *)
Started(next) ==
  /\ stage' = next
  /\ step' = "attempt"
  /\ backoff' = RetryInitial

Begin == step' = "starting" /\ UNCHANGED <<stage, backoff>>

Raised == step' = "sleep" /\ UNCHANGED <<stage, backoff>>

(* Mutant of Sleep: doubled without a maximum.                             *)
SleepUncapped ==
  /\ step = "sleep"
  /\ step' = "attempt"
  /\ backoff' = 2 * backoff
  /\ UNCHANGED <<stage, consumers, client, producer, up, outages>>

(* Mutant of Sleep: no further attempt after the longest pause.            *)
SleepGivesUp ==
  /\ step = "sleep"
  /\ backoff < RetryMax
  /\ step' = "attempt"
  /\ backoff' = IF 2 * backoff < RetryMax THEN 2 * backoff ELSE RetryMax
  /\ UNCHANGED <<stage, consumers, client, producer, up, outages>>

Sleep ==
  /\ step = "sleep"
  /\ step' = "attempt"
  /\ backoff' = IF 2 * backoff < RetryMax THEN 2 * backoff ELSE RetryMax
  /\ UNCHANGED <<stage, consumers, client, producer, up, outages>>

-----------------------------------------------------------------------------
(* _consumer_attempt: a new instance every time, stopped when its start    *)
(* fails (an exception of that stop is swallowed).                         *)
ConsumerCreate ==
  /\ At("consumer", "attempt")
  /\ consumers' = consumers + 1
  /\ Begin
  /\ UNCHANGED <<client, producer, up, outages>>

ConsumerStarts ==
  /\ At("consumer", "starting")
  /\ up["kafka"]
  /\ Started("clickhouse")
  /\ UNCHANGED <<consumers, client, producer, up, outages>>

(* Mutant of ConsumerFails: the failed instance is left running.           *)
ConsumerFailsUnstopped ==
  /\ At("consumer", "starting")
  /\ ~up["kafka"]
  /\ Raised
  /\ UNCHANGED <<consumers, client, producer, up, outages>>

ConsumerFails ==
  /\ At("consumer", "starting")
  /\ ~up["kafka"]
  /\ consumers' = consumers - 1
  /\ Raised
  /\ UNCHANGED <<client, producer, up, outages>>

(* ClickHouseSecurityClient.start assigns _client only when connected.     *)
ClickhouseConnect ==
  /\ At("clickhouse", "attempt")
  /\ IF client THEN Started("producer") ELSE Begin
  /\ UNCHANGED <<consumers, client, producer, up, outages>>

ClickhouseStarts ==
  /\ At("clickhouse", "starting")
  /\ up["clickhouse"]
  /\ client' = TRUE
  /\ Started("producer")
  /\ UNCHANGED <<consumers, producer, up, outages>>

ClickhouseFails ==
  /\ At("clickhouse", "starting")
  /\ ~up["clickhouse"]
  /\ Raised
  /\ UNCHANGED <<consumers, client, producer, up, outages>>

(* KafkaProducer.start assigns _producer before it awaits its start, and   *)
(* returns at once when _producer is assigned.                             *)
ProducerCreate ==
  /\ At("producer", "attempt")
  /\ IF producer = "none"
     THEN producer' = "unstarted" /\ Begin
     ELSE Started("running") /\ UNCHANGED producer
  /\ UNCHANGED <<consumers, client, up, outages>>

ProducerStarts ==
  /\ At("producer", "starting")
  /\ up["kafka"]
  /\ producer' = "started"
  /\ Started("running")
  /\ UNCHANGED <<consumers, client, up, outages>>

ProducerFails ==
  /\ At("producer", "starting")
  /\ ~up["kafka"]
  /\ Raised
  /\ UNCHANGED <<consumers, client, producer, up, outages>>

-----------------------------------------------------------------------------
(* The environment: stores go down and come back, the process dies and     *)
(* starts again from nothing.                                              *)
Outage(s) ==
  /\ up[s]
  /\ outages < MaxOutages
  /\ outages' = outages + 1
  /\ up' = [up EXCEPT ![s] = FALSE]
  /\ UNCHANGED process

Recovery(s) ==
  /\ ~up[s]
  /\ up' = [up EXCEPT ![s] = TRUE]
  /\ UNCHANGED <<process, outages>>

Die ==
  /\ stage # "down"
  /\ outages < MaxOutages
  /\ outages' = outages + 1
  /\ stage' = "down"
  /\ step' = "attempt"
  /\ backoff' = RetryInitial
  /\ consumers' = 0
  /\ client' = FALSE
  /\ producer' = "none"
  /\ UNCHANGED up

Restart ==
  /\ stage = "down"
  /\ stage' = "consumer"
  /\ UNCHANGED <<step, backoff, consumers, client, producer, up, outages>>

StartUp ==
  \/ Sleep
  \/ ConsumerCreate \/ ConsumerStarts \/ ConsumerFails
  \/ ClickhouseConnect \/ ClickhouseStarts \/ ClickhouseFails
  \/ ProducerCreate \/ ProducerStarts \/ ProducerFails
  \/ Restart

Next == StartUp \/ Die \/ \E s \in Stores : Outage(s) \/ Recovery(s)

Spec == Init /\ [][Next]_vars

(* The event loop runs, docker restarts a dead container, and no store     *)
(* stays away forever.                                                     *)
FairSpec ==
  Spec /\ WF_vars(StartUp) /\ \A s \in Stores : WF_vars(Recovery(s))

-----------------------------------------------------------------------------
TypeOK ==
  /\ stage \in Dependencies \union {"running", "down"}
  /\ step \in {"attempt", "starting", "sleep"}
  /\ backoff \in RetryInitial .. RetryMax
  /\ consumers \in Nat
  /\ client \in BOOLEAN
  /\ producer \in {"none", "unstarted", "started"}
  /\ up \in [Stores -> BOOLEAN]
  /\ outages \in 0 .. MaxOutages

(* The loop runs with exactly one member in the consumer group (a failed   *)
(* instance left behind would hold partitions nobody reads) and with a     *)
(* connected ClickHouse client, through every outage during start-up.      *)
ReadyToConsume == stage = "running" => consumers = 1 /\ client

(* "A worker's job is to outlast its stores, not die with them": once the  *)
(* outages end, the worker comes up and stays up.                          *)
ComesUp == <>[](stage = "running")

(* "Bring up one startup dependency, retrying with backoff until           *)
(* reachable": after start-up the producer is started.  It need not be.    *)
ProducerReady == stage = "running" => producer = "started"
===============================================================================
