------------------------------ MODULE Trajectory ------------------------------
(***************************************************************************)
(* The risk trajectory of one session: auto_security_scan (jobs/run.py)    *)
(* reads the scores earlier turns left in ClickHouse, and those of the     *)
(* event's agent ancestry, fits a line through them and stores its verdict *)
(* as one more row, which later turns read in their turn.  Turns of a      *)
(* session lie in several partitions, worked through side by side; reads,  *)
(* scans and inserts fail, and a trace sought back to is scanned again.    *)
(*                                                                         *)
(* Scores are in hundredths.  Rows are only ever appended, so what a read  *)
(* saw is the number of rows there were; a read that failed is one that    *)
(* saw nothing (the code takes [] or "" for its result).                   *)
(***************************************************************************)
EXTENDS Ordering, SequencesExt

CONSTANTS
  Partitions,    \* partitions of the topic; each has one task working on it
  Sessions,      \* the sessions considered: parent_id and type of every event
                 \* [parent |-> , kind |-> , the traces of each partition, in
                 \* order, backlog |-> , the events not in the trace table
                 \* when it begins late |-> , and the risk scores its scans
                 \* can return, in hundredths scores |-> ]
  NoParent,      \* an event without parent_id
  HistoryLimit,  \* LIMIT 19 of get_session_risk_scores
  MaxDepth,      \* max_depth of get_agent_chain_scores
  MaxFaults      \* bound: failures and crashes considered

ASSUME TrajectoryAssumption ==
  /\ \A s \in Sessions :
       LET traces == DOMAIN s.parent
       IN /\ NoParent \notin traces
          /\ IsFiniteSet(traces)
          /\ s.parent \in [traces -> traces \union {NoParent}]
          /\ s.kind \in [traces -> {"llm", "tool"}]
          /\ s.backlog \in [Partitions -> Seq(traces)]
          /\ s.late \subseteq traces
          /\ s.scores \subseteq 0..100
  /\ HistoryLimit \in Nat \ {0}
  /\ MaxDepth \in Nat \ {0}
  /\ MaxFaults \in Nat

ASSUME OnceAssumption ==  \* an event is published once: a message that comes
                          \* again is a delivery repeated, which is a fault
  \A s \in Sessions : \A p, q \in Partitions :
    \A i \in DOMAIN s.backlog[p], j \in DOMAIN s.backlog[q] :
      s.backlog[p][i] = s.backlog[q][j] => p = q /\ i = j

VARIABLES
  session, \* the session at hand
  events,  \* the events already in the trace table
  rows,    \* the rows of the security table, in the order of ingested_at
  next,    \* next[p]: the message of partition p to be worked on
  view,    \* view[p]: which of its reads are pending, what the others saw
  faults   \* failures and crashes so far

vars == <<session, events, rows, next, view, faults>>

Queries == {"history", "kind", "edges", "scores"}

Traces == DOMAIN session.parent
Backlog(p) == session.backlog[p]
Trace(p) == Backlog(p)[next[p]]
Parent(t) == session.parent[t]
InWork(p, position) == position[p] <= Len(Backlog(p))

(* Nothing is known yet; without a parent two of the calls ask nothing.    *)
Fresh(p, position) ==
  [pending |-> IF ~InWork(p, position) THEN {}
               ELSE IF Parent(Backlog(p)[position[p]]) = NoParent THEN {"history"}
               ELSE Queries,
   history |-> 0, kind |-> "", edges |-> {}, scored |-> 0]

Init ==
  /\ session \in Sessions
  /\ events = Traces \ session.late
  /\ rows = <<>>
  /\ next = [p \in Partitions |-> 1]
  /\ view = [p \in Partitions |-> Fresh(p, next)]
  /\ faults = 0

-----------------------------------------------------------------------------
(* What the reads select.                                                  *)

(* Mutant of History: the current trace is not excluded.                   *)
HistoryWithOwn(t, n) == Sorted({i \in 1..n : i > n - HistoryLimit})

(* get_session_risk_scores with n rows in the table: the newest rows of    *)
(* other traces, oldest first.                                             *)
History(t, n) ==
  LET others == {i \in 1..n : rows[i].trace # t}
  IN Sorted({i \in others : Cardinality({j \in others : j >= i}) <= HistoryLimit})

(* parent_of: only llm events of the trace table have an entry.            *)
ParentOf(t, edges) ==
  IF t \in edges /\ session.kind[t] = "llm" THEN Parent(t) ELSE NoParent

(* One turn of the loop of get_agent_chain_scores: nothing is added at a   *)
(* root, at an event not in parent_of, or at one seen before.              *)
Upward(path, edges) ==
  LET node == ParentOf(Last(path), edges)
  IN IF node = NoParent \/ node \in ToSet(path) THEN path ELSE Append(path, node)

(* The walk from the parent upwards, of at most MaxDepth events.           *)
Walk(t, edges) ==
  LET path[k \in 1..MaxDepth] ==
        IF k = 1 THEN <<Parent(t)>> ELSE Upward(path[k - 1], edges)
  IN IF Parent(t) = NoParent THEN <<>> ELSE path[MaxDepth]

Scored(n) == {rows[i].trace : i \in 1..n}

(* score_of with n rows: the query has no ORDER BY, so of a trace stored   *)
(* several times any row may be the last one the dict comprehension sees.  *)
ScoreOf(n) ==
  {pick \in [Scored(n) -> 1..n] : \A t \in Scored(n) : rows[pick[t]].trace = t}

(* Mutant of AgentChain: the walk ends at an ancestor without a score.     *)
AgentChainBroken(t, edges, pick) ==
  LET walk == Walk(t, edges)
      gaps == {k \in DOMAIN walk : walk[k] \notin DOMAIN pick}
      known == IF gaps = {} THEN walk
               ELSE SubSeq(walk, 1, (CHOOSE k \in gaps : \A j \in gaps : k <= j) - 1)
  IN Reverse([k \in DOMAIN known |-> pick[known[k]]])

(* The rows of the scanned events of the walk, oldest ancestor first.      *)
AgentChain(t, edges, pick) ==
  LET walk == Walk(t, edges)
      known == Sorted({k \in DOMAIN walk : walk[k] \in DOMAIN pick})
  IN Reverse([k \in DOMAIN known |-> pick[walk[known[k]]]])

-----------------------------------------------------------------------------
(* The line through the scores.                                            *)

Total(ys) ==
  LET sum[k \in 0..Len(ys)] == IF k = 0 THEN 0 ELSE sum[k - 1] + ys[k]
  IN sum[Len(ys)]

(* Deviations from the mean, times the number of values.                   *)
Deviation(ys) == [i \in DOMAIN ys |-> Len(ys) * ys[i] - Total(ys)]

(* Mutant of SlopeAtLeast: the numerator is not divided by the spread of   *)
(* the turns.                                                              *)
SlopeAtLeastUnscaled(bound, ys) ==
  LET n == Len(ys)
      dx == Deviation([i \in 1..n |-> i - 1])
      dy == Deviation(ys)
  IN n >= 2 /\ Total([i \in 1..n |-> dx[i] * dy[i]]) >= bound * n * n

(* Mutant of SlopeAtLeast: the turns are centred as if counted from one.   *)
SlopeAtLeastOffCentre(bound, ys) ==
  LET n == Len(ys)
      dx == [i \in 1..n |-> n * (i - 1) - Total([k \in 1..n |-> k])]
      dy == Deviation(ys)
  IN n >= 2 /\ Total([i \in 1..n |-> dx[i] * dy[i]])
                 >= bound * Total([i \in 1..n |-> dx[i] * dx[i]])

(* _crescendo_slope(ys) >= bound: numerator and denominator of the least   *)
(* squares slope, each times n * n, which is 0 below two values.           *)
SlopeAtLeast(bound, ys) ==
  LET n == Len(ys)
      dx == Deviation([i \in 1..n |-> i - 1])
      dy == Deviation(ys)
  IN n >= 2 /\ Total([i \in 1..n |-> dx[i] * dy[i]])
                 >= bound * Total([i \in 1..n |-> dx[i] * dx[i]])

ScoresOf(indices) == [k \in DOMAIN indices |-> rows[indices[k]].score]

(* The test that makes a trajectory a crescendo, or an escalation.         *)
Climbs(past, score) ==
  LET all == Append(past, score)
  IN SlopeAtLeast(30, all) /\ Len(all) >= 3 /\ score >= 25

(* trust_boundary_escalation: the parent event is itself an llm call.      *)
Escalates(kind, past, score) == kind = "llm" /\ Climbs(past, score)

-----------------------------------------------------------------------------
(* The handlers.  Asking has no effect of its own, so a trace whose turn   *)
(* it is has its queries pending at once; and a crash before the insert    *)
(* leaves nothing behind, so the trace is as if never begun.               *)

Disturb == faults < MaxFaults /\ faults' = faults + 1

Ingest(t) ==
  /\ t \notin events
  /\ events' = events \union {t}
  /\ UNCHANGED <<session, rows, next, view, faults>>

Answered(p, query, seen) ==
  /\ query \in view[p].pending
  /\ view' = [view EXCEPT ![p] = [seen EXCEPT !.pending = @ \ {query}]]
  /\ UNCHANGED <<session, events, rows, next, faults>>

ReadHistory(p) == Answered(p, "history", [view[p] EXCEPT !.history = Len(rows)])

ReadParentKind(p) ==
  Answered(p, "kind", [view[p] EXCEPT
    !.kind = IF Parent(Trace(p)) \in events THEN session.kind[Parent(Trace(p))] ELSE ""])

(* The two queries of the agent chain are gathered as well.                *)
ReadEdges(p) == Answered(p, "edges", [view[p] EXCEPT !.edges = events])
ReadScores(p) == Answered(p, "scores", [view[p] EXCEPT !.scored = Len(rows)])

(* A failed read leaves its default; of the chain, either query's failure  *)
(* gives up both.                                                          *)
ReadFails(p) ==
  /\ \E query \in view[p].pending :
       view' = [view EXCEPT ![p] =
         IF query \in {"edges", "scores"}
         THEN [view[p] EXCEPT !.pending = @ \ {"edges", "scores"}, !.edges = {}, !.scored = 0]
         ELSE [view[p] EXCEPT !.pending = @ \ {query}]]
  /\ Disturb
  /\ UNCHANGED <<session, events, rows, next>>

AllRead(p) == InWork(p, next) /\ view[p].pending = {}

(* Mutant of Row: escalation is measured on the session.                   *)
RowFlatEscalation(p, score, pick) ==
  LET history == History(Trace(p), view[p].history)
  IN [trace |-> Trace(p), score |-> score, failed |-> FALSE,
      history |-> history, chain |-> history,
      crescendo |-> Climbs(ScoresOf(history), score),
      escalation |-> Escalates(view[p].kind, ScoresOf(history), score)]

(* The row of a scan that returned score: the trajectory it was judged by  *)
(* and the two verdicts.                                                   *)
Row(p, score, pick) ==
  LET history == History(Trace(p), view[p].history)
      chain == AgentChain(Trace(p), view[p].edges, pick)
  IN [trace |-> Trace(p), score |-> score, failed |-> FALSE,
      history |-> history, chain |-> chain,
      crescendo |-> Climbs(ScoresOf(history), score),
      escalation |-> Escalates(view[p].kind, ScoresOf(chain), score)]

(* Mutant of Marker: a sentinel for "no score".                            *)
MarkerSentinel(t) ==
  [trace |-> t, score |-> -1, failed |-> TRUE, history |-> <<>>, chain |-> <<>>,
   crescendo |-> FALSE, escalation |-> FALSE]

(* The marker of a failed scan: clean, with score 0.0 and no trajectory.   *)
Marker(t) ==
  [trace |-> t, score |-> 0, failed |-> TRUE, history |-> <<>>, chain |-> <<>>,
   crescendo |-> FALSE, escalation |-> FALSE]

Insert(p) ==
  \E score \in session.scores, pick \in ScoreOf(view[p].scored) :
    rows' = Append(rows, Row(p, score, pick))

Committed(p) == next' = [next EXCEPT ![p] = @ + 1]

(* The next trace of the partition, or the same one again.                 *)
Proceed(p) ==
  /\ view' = [view EXCEPT ![p] = Fresh(p, next')]
  /\ UNCHANGED <<session, events>>

(* Scan, insert and commit: no await between them reads the tables.        *)
Store(p) ==
  /\ AllRead(p)
  /\ Insert(p)
  /\ Committed(p)
  /\ Proceed(p)
  /\ UNCHANGED faults

(* The insert fails, perhaps after ClickHouse applied it, or the commit    *)
(* after it does, or the process dies: the trace is delivered again, or,   *)
(* when the failure is not transient, skipped.                             *)
StoreFails(p) ==
  /\ AllRead(p)
  /\ Disturb
  /\ Insert(p) \/ UNCHANGED rows
  /\ Committed(p) \/ UNCHANGED next
  /\ Proceed(p)

(* The scan raises: a marker is stored, or lost, and the trace committed.  *)
ScanFails(p) ==
  /\ AllRead(p)
  /\ Disturb
  /\ rows' = Append(rows, Marker(Trace(p))) \/ UNCHANGED rows
  /\ Committed(p)
  /\ Proceed(p)

Next ==
  \/ \E t \in Traces : Ingest(t)
  \/ \E p \in Partitions :
       \/ ReadHistory(p) \/ ReadParentKind(p) \/ ReadEdges(p) \/ ReadScores(p)
       \/ ReadFails(p)
       \/ Store(p) \/ StoreFails(p) \/ ScanFails(p)

Spec == Init /\ [][Next]_vars

-----------------------------------------------------------------------------
(* Properties.                                                             *)

(* Types of all variables.                                                 *)
TypeOK ==
  /\ session \in Sessions
  /\ events \subseteq Traces
  /\ \A i \in DOMAIN rows :
       /\ rows[i].trace \in Traces
       /\ rows[i].score \in session.scores \union {0}
       /\ ToSet(rows[i].history) \union ToSet(rows[i].chain) \subseteq 1..(i - 1)
  /\ \A p \in Partitions :
       /\ next[p] \in 1..(Len(Backlog(p)) + 1)
       /\ view[p].pending \subseteq Queries
       /\ view[p].kind \in {"", "llm", "tool"}
       /\ view[p].edges \subseteq Traces
       /\ {view[p].history, view[p].scored} \subseteq 0..Len(rows)
  /\ faults \in 0..MaxFaults

SamePartition(t, u) ==
  \E p \in Partitions : {t, u} \subseteq ToSet(Backlog(p))

(* A turn is never measured against itself, however often it was scanned   *)
(* and stored before; it is measured against a run of the other turns'     *)
(* rows without gaps, in the order they were stored; and, unless something *)
(* failed, against the newest it must know of: of the earlier turns of its *)
(* own partition only those older than a full history are left out         *)
(* (the SELECT and sort of get_session_risk_scores).                       *)
HistoryIsThePast ==
  \A i \in DOMAIN rows :
    LET history == rows[i].history
        before == {j \in 1..(i - 1) : SamePartition(rows[j].trace, rows[i].trace)}
    IN /\ Len(history) <= HistoryLimit
       /\ \A k \in DOMAIN history : rows[history[k]].trace # rows[i].trace
       /\ \A k \in 1..(Len(history) - 1) :
            /\ history[k] < history[k + 1]
            /\ \A j \in (history[k] + 1)..(history[k + 1] - 1) :
                 rows[j].trace = rows[i].trace
       /\ faults = 0 => \A j \in before :
            j \in ToSet(history) \/ (Len(history) = HistoryLimit /\ j < history[1])

(* The ancestors of t that the walk can know of: the least set that holds  *)
(* its parent and, of every llm event in it that is ingested, the parent.  *)
Ancestors(t, edges) ==
  {a \in Traces : \A S \in SUBSET Traces :
     /\ Parent(t) \in S
     /\ \A b \in S : ParentOf(b, edges) \in S \union {NoParent}
     => a \in S}

(* What escalation is measured on is the ancestry, whatever order events   *)
(* and rows arrived in, with cycles and with ancestors that have no row:   *)
(* no event twice, every scanned ancestor within MaxDepth and nothing      *)
(* else, and each before its descendants (get_agent_chain_scores).         *)
ChainIsAncestry ==
  \A p \in Partitions : AllRead(p) =>
    LET t == Trace(p)
        edges == view[p].edges
        kin == IF Parent(t) = NoParent THEN {} ELSE Ancestors(t, edges)
    IN \A pick \in ScoreOf(view[p].scored) :
         LET chain == AgentChain(t, edges, pick)
             members == [k \in DOMAIN chain |-> rows[chain[k]].trace]
         IN /\ ToSet(members) \subseteq kin
            /\ Cardinality(kin) <= MaxDepth => kin \intersect Scored(view[p].scored) \subseteq ToSet(members)
            /\ \A j, k \in DOMAIN members : j < k =>
                 /\ members[j] # members[k]
                 /\ members[j] \in Ancestors(members[k], edges)

(* The rises from one value to another, over all pairs of values, each     *)
(* weighted by the distance of the two.                                    *)
Rise(ys) ==
  Total([k \in 1..Len(ys) |->
          Total([j \in 1..(k - 1) |-> (k - j) * (ys[k] - ys[j])])])

(* A trend: on that average the values rise by 0.3 a turn or more, as fast *)
(* as the numbers 0, 30, 60 and so on.                                     *)
Rises(ys) ==
  Len(ys) >= 3 /\ Rise(ys) >= 30 * Rise([k \in 1..Len(ys) |-> k])

(* The verdicts are those of a trend, which needs no means; for an         *)
(* escalation it is that of the ancestry, whatever the session does        *)
(* (_crescendo_slope).                                                     *)
VerdictsAreTrends ==
  \A i \in {j \in DOMAIN rows : ~rows[j].failed} :
    LET with(past) == Append(ScoresOf(past), rows[i].score)
    IN /\ rows[i].crescendo <=> Rises(with(rows[i].history))
       /\ rows[i].escalation => Rises(with(rows[i].chain))

(* Scores between 0 and 1 cannot climb by 0.3 a turn for long: a row is a  *)
(* crescendo only as the third to fifth turn it knows of, and only with a  *)
(* score of at least 0.6, and then, unless something failed, after at      *)
(* least two other turns one of which was lower.                           *)
CrescendoOnlyEarly ==
  \A i \in {j \in DOMAIN rows : rows[j].crescendo} :
    LET past == ToSet(rows[i].history)
    IN /\ Cardinality(past) \in 2..4
       /\ rows[i].score >= 60
       /\ \E k \in past : rows[k].score < rows[i].score
       /\ faults = 0 => Cardinality({rows[k].trace : k \in past}) >= 2

(* Escalation is reported only for a turn an agent prompted, and is        *)
(* measured over at least two other events that are truly among its        *)
(* ancestors (cross_agent_source and get_agent_chain_scores).              *)
EscalationCrossesAgents ==
  \A i \in {j \in DOMAIN rows : rows[j].escalation} :
    LET t == rows[i].trace
        members == {rows[k].trace : k \in ToSet(rows[i].chain)}
    IN /\ Parent(t) # NoParent /\ session.kind[Parent(t)] = "llm"
       /\ members \subseteq Ancestors(t, Traces)
       /\ Cardinality(members) >= 2

-----------------------------------------------------------------------------
(* What the comments say, and the code does not do.                        *)

(* get_session_risk_scores: "a slow-burn attack that ramps late in a long  *)
(* session isn't diluted by stale early turns".  A turn that would be a    *)
(* crescendo after the last two turns alone, rising from turn to turn, is  *)
(* one after clean early turns as well.                                    *)
LateRampDetected ==
  \A i \in DOMAIN rows :
    LET past == ScoresOf(rows[i].history)
        n == Len(past)
        early == SubSeq(past, 1, n - 2)
        recent == SubSeq(past, n - 1, n)
    IN /\ n >= 5
       /\ ToSet(early) = {0}
       /\ recent[1] < recent[2] /\ recent[2] < rows[i].score
       /\ Climbs(recent, rows[i].score)
       => rows[i].crescendo

(* auto_security_scan, of the marker of a failed scan: "so the gap is      *)
(* queryable and the trace isn't misread as safe".  No verdict depends on  *)
(* a marker's score having been read as a clean turn.                      *)
MarkerNotMisread ==
  \A i \in {j \in DOMAIN rows : ~rows[j].failed} :
    LET scanned == SelectSeq(rows[i].history, LAMBDA k : ~rows[k].failed)
    IN rows[i].crescendo <=> Climbs(ScoresOf(scanned), rows[i].score)

(* get_agent_chain_scores: "Walks the parent chain up from parent_id to    *)
(* the root, collecting the security score of every ancestor that was      *)
(* itself scanned".  With every event ingested and every row read, no      *)
(* scanned event on the way of an agent's prompt to the root is missing.   *)
Lineage(t) ==
  {a \in Traces : \A S \in SUBSET Traces :
     Parent(t) \in S /\ (\A b \in S : Parent(b) \in S \union {NoParent}) => a \in S}

WholeAncestry ==
  \A p \in Partitions :
    AllRead(p) /\ view[p].kind = "llm" /\ view[p].edges = Traces =>
      \A pick \in ScoreOf(view[p].scored) :
        Lineage(Trace(p)) \intersect Scored(view[p].scored)
          \subseteq {rows[k].trace : k \in ToSet(AgentChain(Trace(p), view[p].edges, pick))}
=============================================================================
