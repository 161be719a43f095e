----------------------------- MODULE StartupProofs -----------------------------
(***************************************************************************)
(* ReadyToConsume for every pause and every number of outages.  It is not  *)
(* inductive: what is counted while the consumer is being started, and     *)
(* that the producer's turn comes only after the client connected, has to  *)
(* be known as well.                                                       *)
(***************************************************************************)
EXTENDS Startup, TLAPS

(* Consumer instances in the group: one while an attempt awaits its start, *)
(* and one from then on.                                                   *)
InstancesCounted ==
  /\ stage = "consumer" /\ step # "starting" => consumers = 0
  /\ stage = "consumer" /\ step = "starting" => consumers = 1
  /\ stage \in {"clickhouse", "producer", "running"} => consumers = 1
  /\ stage = "down" => consumers = 0 /\ step = "attempt"

(* The producer is started after the ClickHouse client connected.          *)
ClientFirst == stage \in {"producer", "running"} => client

(* The types of TypeOK in two parts: numbers, and everything else.         *)
NumbersTyped ==
  /\ backoff \in RetryInitial .. RetryMax
  /\ consumers \in Nat
  /\ outages \in 0 .. MaxOutages

ValuesTyped ==
  /\ stage \in Dependencies \union {"running", "down"}
  /\ step \in {"attempt", "starting", "sleep"}
  /\ client \in BOOLEAN
  /\ producer \in {"none", "unstarted", "started"}
  /\ up \in [Stores -> BOOLEAN]

StartupInv == NumbersTyped /\ ValuesTyped /\ InstancesCounted /\ ClientFirst

LEMMA InitInv == Init => StartupInv
<1> SUFFICES ASSUME Init PROVE StartupInv
  OBVIOUS
<1>1. NumbersTyped
  BY RetryAssumption, OutageAssumption DEF Init, NumbersTyped
<1>2. ValuesTyped /\ InstancesCounted /\ ClientFirst
  BY DEF Init, ValuesTyped, Dependencies, InstancesCounted, ClientFirst
<1> QED
  BY <1>1, <1>2 DEF StartupInv

(* The doubled pause stays between its bounds.                             *)
LEMMA PauseBounded ==
  ASSUME NEW b \in RetryInitial .. RetryMax
  PROVE  (IF 2 * b < RetryMax THEN 2 * b ELSE RetryMax) \in RetryInitial .. RetryMax
BY RetryAssumption

-----------------------------------------------------------------------------
(* Every step keeps the types.                                             *)
LEMMA NumbersStep == StartupInv /\ [Next]_vars => NumbersTyped'
<1> SUFFICES ASSUME StartupInv, [Next]_vars PROVE NumbersTyped'
  OBVIOUS
<1> USE RetryAssumption, OutageAssumption DEF StartupInv, NumbersTyped
<1>1. CASE Sleep
  BY <1>1, PauseBounded DEF Sleep
<1>2. CASE ConsumerCreate \/ ConsumerStarts
  BY <1>2 DEF ConsumerCreate, ConsumerStarts, At, Begin, Started
<1>3. CASE ConsumerFails
  BY <1>3 DEF ConsumerFails, At, Raised, InstancesCounted
<1>4. CASE ClickhouseConnect \/ ClickhouseStarts \/ ClickhouseFails
  BY <1>4 DEF ClickhouseConnect, ClickhouseStarts, ClickhouseFails, At, Begin, Started, Raised
<1>5. CASE ProducerCreate \/ ProducerStarts \/ ProducerFails
  BY <1>5 DEF ProducerCreate, ProducerStarts, ProducerFails, At, Begin, Started, Raised
<1>6. CASE Die \/ Restart
  BY <1>6 DEF Die, Restart
<1>7. ASSUME NEW s \in Stores, Outage(s) \/ Recovery(s) PROVE NumbersTyped'
  BY <1>7 DEF Outage, Recovery, process
<1>8. CASE UNCHANGED vars
  BY <1>8 DEF vars
<1> QED
  BY <1>1, <1>2, <1>3, <1>4, <1>5, <1>6, <1>7, <1>8 DEF Next, StartUp

LEMMA ValuesStep == StartupInv /\ [Next]_vars => ValuesTyped'
<1> SUFFICES ASSUME StartupInv, [Next]_vars PROVE ValuesTyped'
  OBVIOUS
<1> USE DEF StartupInv, ValuesTyped, Dependencies
<1>1. CASE Sleep
  BY <1>1 DEF Sleep
<1>2. CASE ConsumerCreate \/ ConsumerStarts
  BY <1>2 DEF ConsumerCreate, ConsumerStarts, At, Begin, Started
<1>3. CASE ConsumerFails
  BY <1>3 DEF ConsumerFails, At, Raised
<1>4. CASE ClickhouseConnect \/ ClickhouseStarts \/ ClickhouseFails
  BY <1>4 DEF ClickhouseConnect, ClickhouseStarts, ClickhouseFails, At, Begin, Started, Raised
<1>5. CASE ProducerCreate \/ ProducerStarts \/ ProducerFails
  BY <1>5 DEF ProducerCreate, ProducerStarts, ProducerFails, At, Begin, Started, Raised
<1>6. CASE Die \/ Restart
  BY <1>6 DEF Die, Restart
<1>7. ASSUME NEW s \in Stores, Outage(s) \/ Recovery(s) PROVE ValuesTyped'
  BY <1>7 DEF Outage, Recovery, process
<1>8. CASE UNCHANGED vars
  BY <1>8 DEF vars
<1> QED
  BY <1>1, <1>2, <1>3, <1>4, <1>5, <1>6, <1>7, <1>8 DEF Next, StartUp

(* An instance is created with each attempt and stopped with its failure.  *)
LEMMA InstancesStep == StartupInv /\ [Next]_vars => InstancesCounted'
<1> SUFFICES ASSUME StartupInv, [Next]_vars PROVE InstancesCounted'
  OBVIOUS
<1> USE DEF StartupInv, InstancesCounted
<1>1. CASE Sleep
  BY <1>1 DEF Sleep
<1>2. CASE ConsumerCreate \/ ConsumerStarts
  BY <1>2 DEF ConsumerCreate, ConsumerStarts, At, Begin, Started
<1>3. CASE ConsumerFails
  BY <1>3 DEF ConsumerFails, At, Raised
<1>4. CASE ClickhouseConnect \/ ClickhouseStarts \/ ClickhouseFails
  BY <1>4 DEF ClickhouseConnect, ClickhouseStarts, ClickhouseFails, At, Begin, Started, Raised
<1>5. CASE ProducerCreate \/ ProducerStarts \/ ProducerFails
  BY <1>5 DEF ProducerCreate, ProducerStarts, ProducerFails, At, Begin, Started, Raised
<1>6. CASE Die \/ Restart
  BY <1>6 DEF Die, Restart
<1>7. ASSUME NEW s \in Stores, Outage(s) \/ Recovery(s) PROVE InstancesCounted'
  BY <1>7 DEF Outage, Recovery, process
<1>8. CASE UNCHANGED vars
  BY <1>8 DEF vars
<1> QED
  BY <1>1, <1>2, <1>3, <1>4, <1>5, <1>6, <1>7, <1>8 DEF Next, StartUp

(* Nothing but the death of the process lets go of the client.             *)
LEMMA ClientStep == StartupInv /\ [Next]_vars => ClientFirst'
<1> SUFFICES ASSUME StartupInv, [Next]_vars PROVE ClientFirst'
  OBVIOUS
<1> USE DEF StartupInv, ClientFirst
<1>1. CASE Sleep
  BY <1>1 DEF Sleep
<1>2. CASE ConsumerCreate \/ ConsumerStarts \/ ConsumerFails
  BY <1>2 DEF ConsumerCreate, ConsumerStarts, ConsumerFails, At, Begin, Started, Raised
<1>3. CASE ClickhouseConnect \/ ClickhouseStarts \/ ClickhouseFails
  BY <1>3 DEF ClickhouseConnect, ClickhouseStarts, ClickhouseFails, At, Begin, Started, Raised
<1>4. CASE ProducerCreate \/ ProducerStarts \/ ProducerFails
  BY <1>4 DEF ProducerCreate, ProducerStarts, ProducerFails, At, Begin, Started, Raised
<1>5. CASE Die \/ Restart
  BY <1>5 DEF Die, Restart
<1>6. ASSUME NEW s \in Stores, Outage(s) \/ Recovery(s) PROVE ClientFirst'
  BY <1>6 DEF Outage, Recovery, process
<1>7. CASE UNCHANGED vars
  BY <1>7 DEF vars
<1> QED
  BY <1>1, <1>2, <1>3, <1>4, <1>5, <1>6, <1>7 DEF Next, StartUp

LEMMA StepInv == StartupInv /\ [Next]_vars => StartupInv'
BY NumbersStep, ValuesStep, InstancesStep, ClientStep DEF StartupInv

-----------------------------------------------------------------------------
(* Start-up keeps its types; the pause stays within its bounds             *)
(* (_start_with_retry).                                                    *)
THEOREM StartupTypes == Spec => []TypeOK
<1>1. StartupInv => TypeOK
  BY DEF StartupInv, NumbersTyped, ValuesTyped, TypeOK
<1> QED
  BY <1>1, InitInv, StepInv, PTL DEF Spec

(* The loop runs with one consumer instance and a connected client, after  *)
(* any outages and deaths (consume, _consumer_attempt).                    *)
THEOREM ComesUpReady == Spec => []ReadyToConsume
<1>1. StartupInv => ReadyToConsume
  BY DEF StartupInv, InstancesCounted, ClientFirst, ReadyToConsume
<1> QED
  BY <1>1, InitInv, StepInv, PTL DEF Spec
===============================================================================
