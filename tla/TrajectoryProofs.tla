--------------------------- MODULE TrajectoryProofs ---------------------------
(***************************************************************************)
(* TypeOK, HistoryIsThePast, ChainIsAncestry, EscalationCrossesAgents,     *)
(* VerdictsAreTrends and CrescendoOnlyEarly for every session, history     *)
(* limit, depth of the walk and number of faults.                          *)
(*                                                                         *)
(* Rows are only appended, so what a history was read from does not change *)
(* any more: the clauses about its shape follow from what Sorted makes of  *)
(* a set.  The last, that nothing a turn must know of is missing, is about *)
(* the order of the steps: without a fault the partition's task reads its  *)
(* history after it stored the turn before (Sequential).  The ancestry is  *)
(* a matter of one walk over the parent links that were read: it follows   *)
(* them without repetition, and either comes to an end or is as long as    *)
(* MaxDepth allows (Walked).                                               *)
(*                                                                         *)
(* The slope is a matter of sums: its numerator, taken from deviations,    *)
(* and the rises of a trend, taken over pairs, are the same polynomial in  *)
(* the sums of the turns, of the scores and of their products              *)
(* (CovarianceIs, RiseIs).  Each identity holds because both sides begin   *)
(* alike and change alike from one turn to the next (SameSteps).  That six *)
(* scores in 0..100 or more cannot climb so is one inequality, a square,   *)
(* summed over the turns (TooLongToClimb).                                 *)
(***************************************************************************)
EXTENDS Trajectory, OrderingProofs

-----------------------------------------------------------------------------
(* What a read of the history selects.                                     *)

(* h is the history of a turn t, read when the table had n rows: the       *)
(* newest rows of other turns, without gaps and in order.                  *)
PastOf(table, h, t, n) ==
  /\ h \in Seq(1..n) /\ Len(h) <= HistoryLimit
  /\ \A k \in 1..Len(h) : table[h[k]].trace # t
  /\ \A k \in 1..(Len(h) - 1) :
       /\ h[k] < h[k + 1]
       /\ \A j \in (h[k] + 1)..(h[k + 1] - 1) : table[j].trace = t
  /\ \A j \in 1..n : table[j].trace # t =>
       j \in ToSet(h) \/ (Len(h) = HistoryLimit /\ j < h[1])

LEMMA HistoryIs ==
  ASSUME NEW n \in Nat, NEW t
  PROVE  PastOf(rows, History(t, n), t, n)
<1> DEFINE others == {i \in 1..n : rows[i].trace # t}
           From(i) == {j \in others : j >= i}
           newest == {i \in others : Cardinality(From(i)) <= HistoryLimit}
           h == Sorted(newest)
<1>1. others \in SUBSET (1..n) /\ newest \in SUBSET (1..n) /\ newest \in SUBSET others
  OBVIOUS
<1>2. HistoryLimit \in Nat \ {0}
  BY TrajectoryAssumption
<1>3. History(t, n) = h
  BY DEF History
<1>4. \A i \in others : From(i) \in SUBSET others /\ IsFiniteSet(From(i)) /\ Cardinality(From(i)) \in Nat
  <2> TAKE i \in others
  <2>1. From(i) \in SUBSET others
    OBVIOUS
  <2>2. IsFiniteSet(others)
    <3> HIDE DEF others
    <3> QED
      BY <1>1, RankIs
  <2> HIDE DEF others, From
  <2> QED
    BY <2>1, <2>2, FS_Subset, FS_CardinalityType
<1>5. ASSUME NEW i \in newest, NEW j \in others, j >= i PROVE j \in newest
  <2>1. i \in others /\ Cardinality(From(i)) <= HistoryLimit
    OBVIOUS
  <2>2. From(j) \in SUBSET From(i)
    <3>1. \A x \in others : x >= j => x >= i
      BY <1>5
    <3> HIDE DEF others
    <3> QED
      BY <3>1
  <2>3. Cardinality(From(j)) <= HistoryLimit
    <3> HIDE DEF From, others, newest
    <3>1. Cardinality(From(j)) <= Cardinality(From(i))
      BY <1>4, <2>1, <2>2, FS_Subset
    <3> QED
      BY <1>2, <1>4, <2>1, <3>1
  <2> QED
    BY <2>3
<1>6. /\ IsFiniteSet(newest) /\ Cardinality(newest) \in Nat
      /\ h \in [1..Cardinality(newest) -> newest]
      /\ h \in Seq(newest) /\ Len(h) = Cardinality(newest)
      /\ \A i \in newest : \E k \in 1..Cardinality(newest) : h[k] = i
      /\ \A j, k \in 1..Cardinality(newest) : j < k => h[j] < h[k]
      /\ \A j, k \in 1..Cardinality(newest) : j < k <=> h[j] < h[k]
  <2> HIDE DEF newest
  <2> QED
    BY <1>1, RankIs, SortedIs
<1>7. Len(h) <= HistoryLimit
  <2>1. CASE newest = {}
    <3> HIDE DEF h, newest
    <3>1. Len(h) = 0
      BY <1>6, <2>1, FS_EmptySet
    <3> QED
      BY <1>2, <3>1
  <2>2. CASE newest # {}
    <3> DEFINE m == Min(newest)
    <3>1. m \in newest /\ \A i \in newest : m <= i
      <4>1. newest \in SUBSET Nat
        OBVIOUS
      <4> HIDE DEF newest
      <4> QED
        BY <2>2, <4>1, MinIs
    <3>2. m \in others /\ Cardinality(From(m)) <= HistoryLimit
      BY <3>1
    <3>3. newest \in SUBSET From(m)
      <4>1. \A i \in newest : i \in others /\ i >= m
        BY <3>1
      <4> HIDE DEF newest, others
      <4> QED
        BY <4>1
    <3> HIDE DEF newest, From, others, m
    <3>4. Cardinality(newest) <= Cardinality(From(m))
      BY <1>4, <3>2, <3>3, FS_Subset
    <3> QED
      BY <1>2, <1>4, <1>6, <3>2, <3>4
  <2> QED
    BY <2>1, <2>2
<1>8. ASSUME NEW j \in others, j \notin newest PROVE Len(h) = HistoryLimit /\ j < h[1]
  <2> DEFINE C == Cardinality(others)
             k == C - HistoryLimit + 1
  <2>1. /\ C \in Nat
        /\ \A i \in others : Rank(i, others) \in 1..C
        /\ \A i \in others : Cardinality(From(i)) = C - Rank(i, others) + 1
    <3> HIDE DEF others
    <3> QED
      BY <1>1, RankIs
  <2>2. Cardinality(From(j)) > HistoryLimit
    <3>1. ~(Cardinality(From(j)) <= HistoryLimit)
      BY <1>8
    <3> HIDE DEF From, others
    <3> QED
      BY <1>2, <1>4, <3>1
  <2>3. k \in 1..C
    <3>1. C - Rank(j, others) + 1 > HistoryLimit
      BY <2>1, <2>2
    <3>2. Rank(j, others) \in 1..C
      BY <2>1
    <3> HIDE DEF C
    <3> QED
      BY <1>2, <2>1, <3>1, <3>2
  <2>4. PICK i \in others : Rank(i, others) = k
    <3> HIDE DEF others, k
    <3> QED
      BY <1>1, <2>3, RankOnto
  <2>5. Cardinality(From(i)) = HistoryLimit
    <3>1. Cardinality(From(i)) = C - k + 1
      BY <2>1, <2>4
    <3> HIDE DEF C, From
    <3> QED
      BY <1>2, <2>1, <3>1
  <2>6. i \in newest
    BY <1>2, <2>5
  <2>7. From(i) \in SUBSET newest
    <3>1. \A x \in From(i) : x \in others /\ x >= i
      OBVIOUS
    <3> HIDE DEF From, others, newest
    <3> QED
      BY <1>5, <2>6, <3>1
  <2>8. Cardinality(From(i)) <= Cardinality(newest)
    <3> HIDE DEF From, newest
    <3> QED
      BY <1>6, <2>7, FS_Subset
  <2>9. Len(h) = HistoryLimit
    <3> HIDE DEF From, newest, h
    <3> QED
      BY <1>2, <1>6, <1>7, <2>5, <2>8
  <2>10. h[1] \in newest
    <3> HIDE DEF newest, h
    <3> QED
      BY <1>2, <1>6, <2>9
  <2>11. ~(j >= h[1])
    BY <1>5, <1>8, <2>10
  <2>12. j \in Nat /\ h[1] \in Nat
    <3> HIDE DEF h
    <3> QED
      BY <2>10
  <2> QED
    BY <2>9, <2>11, <2>12
<1>9. ASSUME NEW k \in 1..(Len(h) - 1), NEW j \in (h[k] + 1)..(h[k + 1] - 1)
      PROVE  rows[j].trace = t
  <2> SUFFICES ASSUME rows[j].trace # t PROVE FALSE
    OBVIOUS
  <2>1. k \in 1..Len(h) /\ k + 1 \in 1..Len(h)
    <3> HIDE DEF h, newest
    <3> QED
      BY <1>6
  <2>2. h[k] \in newest /\ h[k + 1] \in newest
    <3> HIDE DEF h, newest
    <3> QED
      BY <1>6, <2>1
  <2>3. h[k] \in 1..n /\ h[k + 1] \in 1..n
    BY <1>1, <2>2
  <2>4. j \in 1..n /\ h[k] < j /\ j < h[k + 1]
    <3> HIDE DEF h
    <3> QED
      BY <2>3
  <2>5. j \in newest
    <3>1. j \in others /\ j >= h[k]
      BY <2>3, <2>4
    <3> HIDE DEF h, newest, others
    <3> QED
      BY <1>5, <2>2, <3>1
  <2>6. PICK l \in 1..Len(h) : h[l] = j
    <3> HIDE DEF h, newest
    <3> QED
      BY <1>6, <2>5
  <2>7. k < l /\ l < k + 1
    <3> HIDE DEF h, newest
    <3> QED
      BY <1>6, <2>1, <2>4, <2>6
  <2> QED
    BY <2>7
<1>10. \A k \in 1..Len(h) : h[k] \in newest
  <2> HIDE DEF h, newest
  <2> QED
    BY <1>6
<1>11. \A k \in 1..Len(h) : rows[h[k]].trace # t
  BY <1>10
<1>12. \A k \in 1..(Len(h) - 1) : h[k] < h[k + 1]
  <2> HIDE DEF h, newest
  <2> QED
    BY <1>6
<1>13. \A j \in 1..n : rows[j].trace # t =>
         j \in ToSet(h) \/ (Len(h) = HistoryLimit /\ j < h[1])
  <2> SUFFICES ASSUME NEW j \in 1..n, rows[j].trace # t, j \in newest PROVE j \in ToSet(h)
    BY <1>8
  <2> HIDE DEF h, newest
  <2> QED
    BY <1>6 DEF ToSet
<1>14. h \in Seq(1..n)
  <2> DEFINE N == Cardinality(newest)
  <2> HIDE DEF h, newest, N
  <2>1. N \in Nat /\ h \in [1..N -> 1..n]
    BY <1>1, <1>6 DEF N
  <2> QED
    BY <2>1
<1> HIDE DEF h
<1> QED
  BY <1>3, <1>7, <1>9, <1>11, <1>12, <1>13, <1>14 DEF PastOf

-----------------------------------------------------------------------------
(* The invariant.                                                          *)

Views == [pending : SUBSET Queries, history : Nat, kind : {"", "llm", "tool"},
          edges : SUBSET Traces, scored : Nat]

Typed ==
  /\ session \in Sessions
  /\ events \subseteq Traces
  /\ Len(rows) \in Nat /\ rows = [i \in 1..Len(rows) |-> rows[i]]
  /\ next \in [Partitions -> Nat]
  /\ \A p \in Partitions : next[p] \in 1..(Len(Backlog(p)) + 1)
  /\ view \in [Partitions -> Views]
  /\ \A p \in Partitions : view[p].history <= Len(rows) /\ view[p].scored <= Len(rows)
  /\ faults \in Nat

(* Row i of the table is of a turn judged by what there was of the past.   *)
JudgedIn(table, i, fault) ==
  /\ table[i].trace \in Traces
  /\ \/ table[i].history = <<>> /\ fault # 0
     \/ \E n \in 0..(i - 1) :
          /\ PastOf(table, table[i].history, table[i].trace, n)
          /\ fault = 0 => \A j \in 1..(i - 1) : SamePartition(table[j].trace, table[i].trace) =>
                            j <= n /\ table[j].trace # table[i].trace

RowsJudged == \A i \in 1..Len(rows) : JudgedIn(rows, i, faults)

(* Without a fault, the rows are of turns done with, and a history that    *)
(* was read has seen all rows of its partition.                            *)
Sequential ==
  faults = 0 =>
    /\ \A i \in 1..Len(rows) : \E p \in Partitions : \E k \in 1..(next[p] - 1) :
         rows[i].trace = Backlog(p)[k]
    /\ \A p \in Partitions : InWork(p, next) /\ "history" \notin view[p].pending =>
         \A i \in 1..Len(rows) : rows[i].trace \in ToSet(Backlog(p)) => i <= view[p].history

PastInv == Typed /\ RowsJudged /\ Sequential

LEMMA SessionIs ==
  ASSUME session \in Sessions
  PROVE  /\ NoParent \notin Traces
         /\ session.parent \in [Traces -> Traces \union {NoParent}]
         /\ session.kind \in [Traces -> {"llm", "tool"}]
         /\ \A p \in Partitions : Backlog(p) \in Seq(Traces)
         /\ \A p, q \in Partitions : \A i \in DOMAIN Backlog(p), j \in DOMAIN Backlog(q) :
              Backlog(p)[i] = Backlog(q)[j] => p = q /\ i = j
BY TrajectoryAssumption, OnceAssumption DEF Traces, Backlog

LEMMA FreshIs ==
  ASSUME NEW p, NEW position
  PROVE  /\ Fresh(p, position) \in Views
         /\ Fresh(p, position).history = 0 /\ Fresh(p, position).scored = 0
         /\ InWork(p, position) => "history" \in Fresh(p, position).pending
<1> DEFINE P == IF ~InWork(p, position) THEN {}
                ELSE IF Parent(Backlog(p)[position[p]]) = NoParent THEN {"history"}
                ELSE Queries
<1>1. Fresh(p, position) = [pending |-> P, history |-> 0, kind |-> "", edges |-> {}, scored |-> 0]
  BY DEF Fresh
<1>2. P \in SUBSET Queries /\ (InWork(p, position) => "history" \in P)
  BY DEF Queries
<1> HIDE DEF P
<1> DEFINE v == Fresh(p, position)
<1> HIDE DEF v
<1>3. v = [pending |-> P, history |-> 0, kind |-> "", edges |-> {}, scored |-> 0]
  BY <1>1 DEF v
<1>4. v.pending = P /\ v.history = 0 /\ v.scored = 0
  BY <1>3
<1>5. v \in Views
  BY <1>2, <1>3 DEF Views
<1> QED
  BY <1>2, <1>4, <1>5 DEF v

LEMMA AppendIs ==
  ASSUME Len(rows) \in Nat, rows = [i \in 1..Len(rows) |-> rows[i]], NEW r
  PROVE  /\ Len(Append(rows, r)) = Len(rows) + 1
         /\ Append(rows, r) = [i \in 1..(Len(rows) + 1) |-> Append(rows, r)[i]]
         /\ \A i \in 1..Len(rows) : Append(rows, r)[i] = rows[i]
         /\ Append(rows, r)[Len(rows) + 1] = r
<1> DEFINE R == {rows[i] : i \in 1..Len(rows)} \union {r}
<1>1. rows \in Seq(R) /\ r \in R
  OBVIOUS
<1> HIDE DEF R
<1> DEFINE s == Append(rows, r)
<1>2. s \in Seq(R) /\ Len(s) = Len(rows) + 1
  BY <1>1
<1>3. \A i \in 1..Len(rows) : s[i] = rows[i]
  BY <1>1
<1>4. s[Len(rows) + 1] = r
  BY <1>1
<1> HIDE DEF s
<1>5. s = [i \in 1..(Len(rows) + 1) |-> s[i]]
  BY <1>2
<1> QED
  BY <1>2, <1>3, <1>4, <1>5 DEF s

(* What is said of the first rows stays true when more are appended.       *)
LEMMA PastStays ==
  ASSUME NEW table, NEW longer, NEW h, NEW t, NEW n \in Nat, PastOf(table, h, t, n),
         \A i \in 1..n : longer[i] = table[i]
  PROVE  PastOf(longer, h, t, n)
<1>1. /\ h \in Seq(1..n) /\ Len(h) <= HistoryLimit /\ Len(h) \in Nat
      /\ \A k \in 1..Len(h) : h[k] \in 1..n
  BY DEF PastOf
<1>2. \A k \in 1..Len(h) : longer[h[k]].trace # t
  BY <1>1 DEF PastOf
<1>3. ASSUME NEW k \in 1..(Len(h) - 1), NEW j \in (h[k] + 1)..(h[k + 1] - 1)
      PROVE  longer[j].trace = t
  <2>1. k \in 1..Len(h) /\ k + 1 \in 1..Len(h)
    BY <1>1
  <2>2. h[k] \in 1..n /\ h[k + 1] \in 1..n
    BY <1>1, <2>1
  <2>3. j \in 1..n
    BY <2>2
  <2> QED
    BY <2>3 DEF PastOf
<1> QED
  BY <1>1, <1>2, <1>3 DEF PastOf

-----------------------------------------------------------------------------
(* The steps.                                                              *)

(* Rows that are there stay judged.                                        *)
LEMMA OldRows ==
  ASSUME NEW table, NEW longer, NEW fault \in Nat, NEW fault2 \in Nat, fault2 >= fault,
         NEW i \in Nat \ {0}, JudgedIn(table, i, fault), \A j \in 1..i : longer[j] = table[j]
  PROVE  JudgedIn(longer, i, fault2)
<1>1. longer[i] = table[i] /\ table[i].trace \in Traces /\ \A j \in 1..(i - 1) : longer[j] = table[j]
  BY DEF JudgedIn
<1>2. CASE table[i].history = <<>> /\ fault # 0
  BY <1>1, <1>2 DEF JudgedIn
<1>3. CASE ~(table[i].history = <<>> /\ fault # 0)
  <2>1. PICK n \in 0..(i - 1) :
            /\ PastOf(table, table[i].history, table[i].trace, n)
            /\ fault = 0 => \A j \in 1..(i - 1) : SamePartition(table[j].trace, table[i].trace) =>
                               j <= n /\ table[j].trace # table[i].trace
    BY <1>3 DEF JudgedIn
  <2>2. n \in Nat /\ \A j \in 1..n : longer[j] = table[j]
    BY <1>1
  <2>3. PastOf(longer, table[i].history, table[i].trace, n)
    BY <2>1, <2>2, PastStays
  <2> QED
    BY <1>1, <2>1, <2>3 DEF JudgedIn
<1> QED
  BY <1>2, <1>3


LEMMA JudgedPrimed ==
  ASSUME session' = session, NEW i, JudgedIn(rows', i, faults')
  PROVE  JudgedIn(rows, i, faults)'
BY DEF JudgedIn, Traces, SamePartition, Backlog, PastOf

LEMMA ReadStep ==
  ASSUME PastInv, UNCHANGED <<session, rows, next>>, events' \subseteq Traces,
         faults' \in Nat, faults' >= faults,
         view' \in [Partitions -> Views],
         \A p \in Partitions : view'[p].history <= Len(rows) /\ view'[p].scored <= Len(rows),
         \A p \in Partitions : "history" \notin view'[p].pending =>
           \/ "history" \notin view[p].pending /\ view'[p].history = view[p].history
           \/ view'[p].history = Len(rows)
           \/ faults' # 0
  PROVE  PastInv'
<1>1. Typed'
  BY DEF PastInv, Typed, Views, Traces, Backlog
<1>2. RowsJudged'
  <2> SUFFICES ASSUME NEW i \in 1..Len(rows) PROVE JudgedIn(rows, i, faults)'
    BY DEF RowsJudged
  <2>1. JudgedIn(rows, i, faults) /\ faults \in Nat /\ i \in Nat \ {0}
    BY DEF PastInv, RowsJudged, Typed
  <2>2. JudgedIn(rows, i, faults')
    BY <2>1, OldRows
  <2> QED
    BY <2>2, JudgedPrimed
<1>3. Sequential'
  <2> SUFFICES ASSUME faults' = 0 PROVE Sequential'
    BY DEF Sequential
  <2>1. faults = 0 /\ Sequential /\ Len(rows) \in Nat
    BY DEF PastInv, Typed
  <2>2. \A i \in 1..Len(rows) : \E p \in Partitions : \E k \in 1..(next[p] - 1) :
          rows[i].trace = Backlog(p)[k]
    BY <2>1 DEF Sequential
  <2>3. ASSUME NEW p \in Partitions, InWork(p, next), "history" \notin view'[p].pending,
               NEW i \in 1..Len(rows), rows[i].trace \in ToSet(Backlog(p))
        PROVE  i <= view'[p].history
    BY <2>1, <2>3 DEF Sequential
  <2> QED
    BY <2>2, <2>3 DEF Sequential, Backlog, InWork
<1> QED
  BY <1>1, <1>2, <1>3 DEF PastInv

LEMMA TableStep ==
  ASSUME PastInv, UNCHANGED <<session, events>>, faults' \in Nat, faults' >= faults,
         NEW p \in Partitions, InWork(p, next), "history" \notin view[p].pending,
         view' = [view EXCEPT ![p] = Fresh(p, next')],
         next' = [next EXCEPT ![p] = @ + 1] \/ (next' = next /\ faults' # 0),
         \/ rows' = rows
         \/ \E r : /\ rows' = Append(rows, r) /\ r.trace = Trace(p)
                   /\ \/ r.history = History(Trace(p), view[p].history)
                      \/ r.history = <<>> /\ faults' # 0
  PROVE  PastInv'
<1> DEFINE N == Len(rows)
           M == Len(rows')
           t == Trace(p)
<1>1. /\ session \in Sessions /\ events \subseteq Traces
      /\ N \in Nat /\ rows = [i \in 1..N |-> rows[i]]
      /\ next \in [Partitions -> Nat]
      /\ \A q \in Partitions : next[q] \in 1..(Len(Backlog(q)) + 1)
      /\ view \in [Partitions -> Views]
      /\ \A q \in Partitions : view[q].history <= N /\ view[q].scored <= N
      /\ \A q \in Partitions : view[q].history \in Nat /\ view[q].scored \in Nat
      /\ faults \in Nat
  BY DEF PastInv, Typed, Views
<1>2. /\ \A q \in Partitions : Backlog(q) \in Seq(Traces) /\ Len(Backlog(q)) \in Nat
      /\ \A q \in Partitions : DOMAIN Backlog(q) = 1..Len(Backlog(q))
      /\ \A q, s \in Partitions : \A i \in DOMAIN Backlog(q), j \in DOMAIN Backlog(s) :
              Backlog(q)[i] = Backlog(s)[j] => q = s /\ i = j
  BY <1>1, SessionIs
<1>3. next[p] \in DOMAIN Backlog(p) /\ t \in Traces /\ t = Backlog(p)[next[p]]
  BY <1>1, <1>2 DEF InWork, Trace
<1>4. /\ M \in Nat /\ M \in {N, N + 1}
      /\ rows' = [i \in 1..M |-> rows'[i]]
      /\ \A i \in 1..N : rows'[i] = rows[i]
      /\ M = N + 1 => /\ rows'[N + 1].trace = t
                      /\ \/ rows'[N + 1].history = History(t, view[p].history)
                         \/ rows'[N + 1].history = <<>> /\ faults' # 0
  <2>1. CASE rows' = rows
    <3>0. M = N
      BY <2>1
    <3>1. M = N /\ N \in Nat /\ N # N + 1
      <4> HIDE DEF M, N
      <4> QED
        BY <1>1, <3>0
    <3> QED
      BY <1>1, <2>1, <3>1
  <2>2. CASE \E r : /\ rows' = Append(rows, r) /\ r.trace = Trace(p)
                    /\ \/ r.history = History(Trace(p), view[p].history)
                       \/ r.history = <<>> /\ faults' # 0
    <3>1. PICK r : /\ rows' = Append(rows, r) /\ r.trace = Trace(p)
                   /\ \/ r.history = History(Trace(p), view[p].history)
                      \/ r.history = <<>> /\ faults' # 0
      BY <2>2
    <3>2. /\ M = N + 1
          /\ rows' = [i \in 1..(N + 1) |-> rows'[i]]
          /\ \A i \in 1..N : rows'[i] = rows[i]
          /\ rows'[N + 1] = r
      BY <1>1, <3>1, AppendIs
    <3> HIDE DEF N, M
    <3> QED
      BY <1>1, <3>1, <3>2
  <2> QED
    BY <2>1, <2>2
<1> HIDE DEF M, N, t
<1>5. /\ view'[p] = Fresh(p, next')
      /\ Fresh(p, next') \in Views
      /\ Fresh(p, next').history = 0 /\ Fresh(p, next').scored = 0
      /\ InWork(p, next') => "history" \in Fresh(p, next').pending
      /\ \A q \in Partitions \ {p} : view'[q] = view[q]
      /\ \A q \in Partitions \ {p} : next'[q] = next[q]
      /\ next'[p] \in next[p]..(next[p] + 1)
      /\ next' \in [Partitions -> Nat]
      /\ faults' = 0 => next'[p] = next[p] + 1
  <2>1. /\ Fresh(p, next') \in Views
        /\ Fresh(p, next').history = 0 /\ Fresh(p, next').scored = 0
        /\ InWork(p, next') => "history" \in Fresh(p, next').pending
    BY FreshIs
  <2>2. view'[p] = Fresh(p, next') /\ \A q \in Partitions \ {p} : view'[q] = view[q]
    BY <1>1
  <2>3. /\ \A q \in Partitions \ {p} : next'[q] = next[q]
        /\ next'[p] \in next[p]..(next[p] + 1)
        /\ next' \in [Partitions -> Nat]
        /\ faults' = 0 => next'[p] = next[p] + 1
    BY <1>1
  <2> QED
    BY <2>1, <2>2, <2>3
<1>6. Typed'
  <2>1. \A q \in Partitions : next'[q] \in 1..(Len(Backlog(q)) + 1)
    <3> TAKE q \in Partitions
    <3>1. CASE q = p
      BY <1>1, <1>2, <1>3, <1>5, <3>1
    <3>2. CASE q # p
      BY <1>1, <1>5, <3>2
    <3> QED
      BY <3>1, <3>2
  <2>2. view' \in [Partitions -> Views]
    BY <1>1, <1>5
  <2>3. \A q \in Partitions : view'[q].history <= M /\ view'[q].scored <= M
    <3> TAKE q \in Partitions
    <3>1. M \in Nat /\ N \in Nat /\ M >= N
      BY <1>1, <1>4
    <3>2. CASE q = p
      BY <1>5, <3>1, <3>2
    <3>3. CASE q # p
      <4>1. view'[q] = view[q]
        BY <1>5, <3>3
      <4>2. view[q] \in Views /\ view[q].history <= N /\ view[q].scored <= N
        BY <1>1
      <4>3. view[q].history \in Nat /\ view[q].scored \in Nat
        BY <4>2 DEF Views
      <4> QED
        BY <3>1, <4>1, <4>2, <4>3
    <3> QED
      BY <3>2, <3>3
  <2>4. M \in Nat
    BY <1>1, <1>4
  <2> QED
    BY <1>1, <1>4, <1>5, <2>1, <2>2, <2>3, <2>4 DEF Typed, Backlog, Views, Traces, M
<1>7. RowsJudged'
  <2> SUFFICES ASSUME NEW i \in 1..M PROVE JudgedIn(rows, i, faults)'
    BY DEF RowsJudged, M
  <2>1. JudgedIn(rows', i, faults')
    <3>1. CASE i \in 1..N
      <4>1. JudgedIn(rows, i, faults)
        BY <3>1 DEF PastInv, RowsJudged, N
      <4>2. i \in Nat \ {0} /\ \A j \in 1..i : rows'[j] = rows[j]
        BY <1>1, <1>4, <3>1
      <4> QED
        BY <1>1, <4>1, <4>2, OldRows
    <3>2. CASE i \notin 1..N
      <4>1. i = N + 1 /\ M = N + 1
        BY <1>1, <1>4, <3>2
      <4> DEFINE n == view[p].history
      <4>2. n \in 0..(i - 1) /\ n \in Nat
        BY <1>1, <4>1
      <4>3. CASE rows'[i].history = <<>> /\ faults' # 0
        BY <1>3, <1>4, <4>1, <4>3 DEF JudgedIn
      <4>4. CASE rows'[i].history = History(t, n)
        <5>1. PastOf(rows, History(t, n), t, n)
          <6> HIDE DEF n
          <6> QED
            BY <4>2, HistoryIs
        <5>2. \A j \in 1..n : rows'[j] = rows[j]
          BY <1>1, <1>4
        <5>3. PastOf(rows', History(t, n), t, n)
          <6> HIDE DEF n
          <6> DEFINE h == History(t, n)
                     table == rows
                     longer == rows'
          <6>1. PastOf(table, h, t, n) /\ \A j \in 1..n : longer[j] = table[j]
            BY <5>1, <5>2
          <6> HIDE DEF h, table, longer
          <6>2. PastOf(longer, h, t, n)
            BY <4>2, <6>1, PastStays
          <6> QED
            BY <6>2 DEF h, longer
        <5>4. ASSUME faults' = 0, NEW j \in 1..(i - 1), SamePartition(rows'[j].trace, t)
              PROVE  j <= n /\ rows'[j].trace # t
          <6>1. j \in 1..N /\ rows'[j] = rows[j] /\ faults = 0
            BY <1>1, <1>4, <4>1, <5>4
          <6>2. PICK q \in Partitions : rows[j].trace \in ToSet(Backlog(q)) /\ t \in ToSet(Backlog(q))
            BY <5>4, <6>1 DEF SamePartition
          <6>3. q = p
            BY <1>2, <1>3, <6>2 DEF ToSet
          <6>4. j <= n
            BY <6>1, <6>2, <6>3 DEF PastInv, Sequential, N
          <6>5. PICK s \in Partitions : \E k \in 1..(next[s] - 1) : rows[j].trace = Backlog(s)[k]
            BY <6>1 DEF PastInv, Sequential, N
          <6>6. PICK k \in 1..(next[s] - 1) : rows[j].trace = Backlog(s)[k]
            BY <6>5
          <6>7. k \in DOMAIN Backlog(s) /\ ~(s = p /\ k = next[p])
            <7>1. next[s] \in 1..(Len(Backlog(s)) + 1) /\ Len(Backlog(s)) \in Nat
              BY <1>1, <1>2
            <7>2. k \in 1..Len(Backlog(s)) /\ k < next[s]
              BY <7>1
            <7> QED
              BY <1>2, <7>1, <7>2
          <6> QED
            BY <1>2, <1>3, <6>1, <6>4, <6>6, <6>7
        <5> QED
          BY <1>3, <1>4, <4>1, <4>2, <4>4, <5>3, <5>4 DEF JudgedIn
      <4> QED
        BY <1>4, <4>1, <4>3, <4>4
    <3> QED
      BY <3>1, <3>2
  <2> QED
    BY <2>1, JudgedPrimed
<1>8. Sequential'
  <2> SUFFICES ASSUME faults' = 0 PROVE Sequential'
    BY DEF Sequential, N
  <2>1. faults = 0 /\ Sequential /\ next'[p] = next[p] + 1
    BY <1>1, <1>5 DEF PastInv
  <2>2. \A i \in 1..M : i \in 1..N \/ (i = N + 1 /\ rows'[i].trace = t)
    BY <1>1, <1>4
  <2>3. ASSUME NEW i \in 1..M
        PROVE  \E q \in Partitions : \E k \in 1..(next'[q] - 1) : rows'[i].trace = Backlog(q)[k]
    <3>1. CASE i \in 1..N
      <4>1. PICK q \in Partitions : \E k \in 1..(next[q] - 1) : rows[i].trace = Backlog(q)[k]
        BY <2>1, <3>1 DEF Sequential, N
      <4>2. next'[q] >= next[q] /\ next[q] \in Nat /\ next'[q] \in Nat
        <5>1. next'[q] = next[q] \/ next'[q] = next[q] + 1
          BY <1>1, <1>5
        <5> QED
          BY <1>1, <5>1
      <4>3. \A k \in 1..(next[q] - 1) : k \in 1..(next'[q] - 1)
        BY <4>2
      <4> QED
        BY <1>4, <3>1, <4>1, <4>3
    <3>2. CASE i = N + 1 /\ rows'[i].trace = t
      <4>1. next[p] \in 1..(next'[p] - 1)
        BY <1>1, <2>1
      <4> QED
        BY <1>3, <3>2, <4>1
    <3> QED
      BY <2>2, <3>1, <3>2
  <2>4. ASSUME NEW q \in Partitions, InWork(q, next'), "history" \notin view'[q].pending,
               NEW i \in 1..M, rows'[i].trace \in ToSet(Backlog(q))
        PROVE  i <= view'[q].history
    <3>1. q # p
      BY <1>5, <2>4
    <3>2. view'[q] = view[q] /\ next'[q] = next[q] /\ InWork(q, next)
      BY <1>5, <2>4, <3>1 DEF InWork
    <3>3. t \notin ToSet(Backlog(q))
      BY <1>2, <1>3, <3>1 DEF ToSet
    <3>4. i \in 1..N /\ rows'[i] = rows[i]
      BY <1>4, <2>2, <2>4, <3>3
    <3> QED
      BY <2>1, <2>4, <3>2, <3>4 DEF Sequential, N
  <2> QED
    BY <2>3, <2>4 DEF Sequential, Backlog, InWork, M
<1> QED
  BY <1>6, <1>7, <1>8 DEF PastInv

-----------------------------------------------------------------------------
(* The invariant holds.                                                    *)

LEMMA PastInit == Init => PastInv
<1> SUFFICES ASSUME Init PROVE PastInv
  OBVIOUS
<1>1. session \in Sessions /\ rows = <<>> /\ faults = 0 /\ next = [p \in Partitions |-> 1]
  BY DEF Init
<1>2. view = [p \in Partitions |-> Fresh(p, next)]
  BY DEF Init
<1>3. /\ \A p \in Partitions : view[p] \in Views /\ view[p].history = 0 /\ view[p].scored = 0
      /\ view \in [Partitions -> Views]
  BY <1>2, FreshIs
<1>4. Len(rows) = 0 /\ rows = [i \in 1..Len(rows) |-> rows[i]]
  BY <1>1
<1>5. \A p \in Partitions : Len(Backlog(p)) \in Nat
  BY <1>1, SessionIs
<1>6. Typed
  BY <1>1, <1>3, <1>4, <1>5 DEF Init, Typed
<1>7. RowsJudged /\ Sequential
  BY <1>4 DEF RowsJudged, Sequential
<1> QED
  BY <1>6, <1>7 DEF PastInv

LEMMA PastStep == PastInv /\ [Next]_vars => PastInv'
<1> SUFFICES ASSUME PastInv, [Next]_vars PROVE PastInv'
  OBVIOUS
<1>1. /\ session \in Sessions /\ events \subseteq Traces /\ Len(rows) \in Nat /\ faults \in Nat
      /\ view \in [Partitions -> Views]
      /\ \A p \in Partitions : view[p].history <= Len(rows) /\ view[p].scored <= Len(rows)
  BY DEF PastInv, Typed
<1> DEFINE View(v) == /\ v \in Views
                      /\ v.history <= Len(rows) /\ v.scored <= Len(rows)
           Seen(v, w) == "history" \notin w.pending =>
             \/ "history" \notin v.pending /\ w.history = v.history
             \/ w.history = Len(rows)
             \/ faults' # 0
<1>2. ASSUME UNCHANGED <<session, rows, next>>, events' = events, faults' \in {faults, faults + 1},
             NEW p \in Partitions, NEW w, view' = [view EXCEPT ![p] = w],
             View(w), Seen(view[p], w)
      PROVE  PastInv'
  <2>1. \A q \in Partitions : View(view'[q]) /\ Seen(view[q], view'[q])
    BY <1>1, <1>2
  <2>2. view' \in [Partitions -> Views]
    BY <1>1, <1>2
  <2>3. faults' \in Nat /\ faults' >= faults
    BY <1>1, <1>2
  <2> QED
    BY <1>1, <1>2, <2>1, <2>2, <2>3, ReadStep
<1>3. ASSUME NEW p \in Partitions, NEW v \in Views, NEW query,
             v.history <= Len(rows) /\ v.scored <= Len(rows)
      PROVE  /\ View([v EXCEPT !.pending = @ \ {query}])
             /\ [v EXCEPT !.pending = @ \ {query}].history = v.history
             /\ [v EXCEPT !.pending = @ \ {query}].pending = v.pending \ {query}
  BY <1>3 DEF Views
<1>4. ASSUME NEW p \in Partitions, NEW query, NEW v,
             Answered(p, query, v), v \in Views,
             v.history <= Len(rows) /\ v.scored <= Len(rows),
             v.pending = view[p].pending,
             v.history = IF query = "history" THEN Len(rows) ELSE view[p].history
      PROVE  PastInv'
  <2> DEFINE w == [v EXCEPT !.pending = @ \ {query}]
  <2>1. view' = [view EXCEPT ![p] = w] /\ UNCHANGED <<session, events, rows, next, faults>>
    BY <1>4 DEF Answered
  <2>2. View(w) /\ w.history = v.history /\ w.pending = v.pending \ {query}
    BY <1>3, <1>4
  <2>3. Seen(view[p], w)
    BY <1>4, <2>2
  <2> HIDE DEF w, View, Seen
  <2> QED
    BY <1>2, <2>1, <2>2, <2>3
<1>5. ASSUME NEW t \in Traces, Ingest(t) PROVE PastInv'
  BY <1>1, <1>5, ReadStep DEF Ingest
<1>6. \A p \in Partitions : view[p] \in Views
  BY <1>1
<1>7. ASSUME NEW p \in Partitions, ReadHistory(p) PROVE PastInv'
  <2> DEFINE v == [view[p] EXCEPT !.history = Len(rows)]
  <2>1. /\ v \in Views /\ v.pending = view[p].pending
        /\ v.history = Len(rows) /\ v.scored = view[p].scored
    BY <1>1, <1>6 DEF Views
  <2>2. Answered(p, "history", v)
    BY <1>7 DEF ReadHistory
  <2> HIDE DEF v
  <2> QED
    BY <1>1, <1>4, <2>1, <2>2
<1>8. ASSUME NEW p \in Partitions, ReadParentKind(p) PROVE PastInv'
  <2> DEFINE kind == IF Parent(Trace(p)) \in events THEN session.kind[Parent(Trace(p))] ELSE ""
             v == [view[p] EXCEPT !.kind = kind]
  <2>1. kind \in {"", "llm", "tool"}
    BY <1>1, SessionIs
  <2>2. Answered(p, "kind", v)
    BY <1>8 DEF ReadParentKind
  <2> HIDE DEF kind
  <2>3. /\ v \in Views /\ v.pending = view[p].pending
        /\ v.history = view[p].history /\ v.scored = view[p].scored
    BY <1>6, <2>1 DEF Views
  <2> HIDE DEF v
  <2> QED
    BY <1>1, <1>4, <2>2, <2>3
<1>9. ASSUME NEW p \in Partitions, ReadEdges(p) PROVE PastInv'
  <2> DEFINE v == [view[p] EXCEPT !.edges = events]
  <2>1. Answered(p, "edges", v)
    BY <1>9 DEF ReadEdges
  <2>2. /\ v \in Views /\ v.pending = view[p].pending
        /\ v.history = view[p].history /\ v.scored = view[p].scored
    BY <1>1, <1>6 DEF Views
  <2> HIDE DEF v
  <2> QED
    BY <1>1, <1>4, <2>1, <2>2
<1>10. ASSUME NEW p \in Partitions, ReadScores(p) PROVE PastInv'
  <2> DEFINE v == [view[p] EXCEPT !.scored = Len(rows)]
  <2>1. Answered(p, "scores", v)
    BY <1>10 DEF ReadScores
  <2>2. /\ v \in Views /\ v.pending = view[p].pending
        /\ v.history = view[p].history /\ v.scored = Len(rows)
    BY <1>1, <1>6 DEF Views
  <2> HIDE DEF v
  <2> QED
    BY <1>1, <1>4, <2>1, <2>2
<1>11. ASSUME NEW p \in Partitions, ReadFails(p) PROVE PastInv'
  <2>1. PICK query \in view[p].pending :
       view' = [view EXCEPT ![p] =
         IF query \in {"edges", "scores"}
         THEN [view[p] EXCEPT !.pending = @ \ {"edges", "scores"}, !.edges = {}, !.scored = 0]
         ELSE [view[p] EXCEPT !.pending = @ \ {query}]]
    BY <1>11 DEF ReadFails
  <2>2. UNCHANGED <<session, rows, next>> /\ events' = events /\ faults' = faults + 1 /\ faults' # 0
    BY <1>1, <1>11 DEF ReadFails, Disturb
  <2> DEFINE w == IF query \in {"edges", "scores"}
                  THEN [view[p] EXCEPT !.pending = @ \ {"edges", "scores"}, !.edges = {}, !.scored = 0]
                  ELSE [view[p] EXCEPT !.pending = @ \ {query}]
  <2>3. view' = [view EXCEPT ![p] = w]
    <3>1. CASE query \in {"edges", "scores"}
      BY <2>1, <3>1
    <3>2. CASE query \notin {"edges", "scores"}
      BY <2>1, <3>2
    <3> QED
      BY <3>1, <3>2
  <2>4. View(w)
    <3>1. CASE query \in {"edges", "scores"}
      <4> DEFINE P == view[p].pending \ {"edges", "scores"}
                 v == [[[view[p] EXCEPT !.pending = P] EXCEPT !.edges = {}] EXCEPT !.scored = 0]
      <4>1. w = v
        BY <3>1
      <4>2. P \in SUBSET Queries /\ {} \in SUBSET Traces /\ 0 \in Nat
        BY <1>6 DEF Views
      <4> HIDE DEF P, w
      <4>3. v \in Views /\ v.history = view[p].history /\ v.scored = 0
        BY <1>6, <4>2 DEF Views
      <4> HIDE DEF v
      <4> QED
        BY <1>1, <4>1, <4>3
    <3>2. CASE query \notin {"edges", "scores"}
      BY <1>1, <1>6, <3>2 DEF Views
    <3> QED
      BY <3>1, <3>2
  <2> HIDE DEF w, View
  <2> QED
    BY <1>2, <2>2, <2>3, <2>4
<1>12. ASSUME NEW score, NEW p, NEW pick
       PROVE  Row(p, score, pick).trace = Trace(p)
              /\ Row(p, score, pick).history = History(Trace(p), view[p].history)
  BY DEF Row
<1>13. ASSUME NEW t PROVE Marker(t).trace = t /\ Marker(t).history = <<>>
  BY DEF Marker
<1>14. ASSUME NEW p \in Partitions, AllRead(p), Insert(p)
       PROVE  \E r : /\ rows' = Append(rows, r) /\ r.trace = Trace(p)
                     /\ r.history = History(Trace(p), view[p].history)
  BY <1>12, <1>14 DEF Insert
<1>15. ASSUME NEW p \in Partitions, AllRead(p)
       PROVE  InWork(p, next) /\ "history" \notin view[p].pending
  BY <1>15 DEF AllRead
<1>16. ASSUME NEW p \in Partitions, Store(p) PROVE PastInv'
  <2>1. AllRead(p) /\ Insert(p) /\ Committed(p) /\ Proceed(p) /\ faults' = faults
    BY <1>16 DEF Store
  <2>2. /\ next' = [next EXCEPT ![p] = @ + 1] /\ view' = [view EXCEPT ![p] = Fresh(p, next')]
        /\ UNCHANGED <<session, events>>
    BY <2>1 DEF Committed, Proceed
  <2>3. faults' \in Nat /\ faults' >= faults
    BY <1>1, <2>1
  <2> QED
    BY <1>14, <1>15, <2>1, <2>2, <2>3, TableStep
<1>17. ASSUME NEW p \in Partitions, StoreFails(p) PROVE PastInv'
  <2>1. AllRead(p) /\ (Insert(p) \/ rows' = rows) /\ (Committed(p) \/ next' = next)
        /\ Proceed(p) /\ faults' = faults + 1
    BY <1>17 DEF StoreFails, Disturb
  <2>2. /\ view' = [view EXCEPT ![p] = Fresh(p, next')]
        /\ next' = [next EXCEPT ![p] = @ + 1] \/ next' = next
        /\ UNCHANGED <<session, events>>
    BY <2>1 DEF Committed, Proceed
  <2>3. faults' \in Nat /\ faults' >= faults /\ faults' # 0
    BY <1>1, <2>1
  <2> QED
    BY <1>14, <1>15, <2>1, <2>2, <2>3, TableStep
<1>18. ASSUME NEW p \in Partitions, ScanFails(p) PROVE PastInv'
  <2>1. AllRead(p) /\ (rows' = Append(rows, Marker(Trace(p))) \/ rows' = rows) /\ Committed(p)
        /\ Proceed(p) /\ faults' = faults + 1
    BY <1>18 DEF ScanFails, Disturb
  <2>2. /\ next' = [next EXCEPT ![p] = @ + 1] /\ view' = [view EXCEPT ![p] = Fresh(p, next')]
        /\ UNCHANGED <<session, events>>
    BY <2>1 DEF Committed, Proceed
  <2>3. faults' \in Nat /\ faults' >= faults /\ faults' # 0
    BY <1>1, <2>1
  <2> QED
    BY <1>13, <1>15, <2>1, <2>2, <2>3, TableStep
<1>19. CASE UNCHANGED vars
  BY <1>1, <1>19, ReadStep DEF vars
<1> QED
  BY <1>5, <1>7, <1>8, <1>9, <1>10, <1>11, <1>16, <1>17, <1>18, <1>19 DEF Next

LEMMA PastInvGives == PastInv => HistoryIsThePast
<1> SUFFICES ASSUME PastInv, NEW i \in DOMAIN rows
    PROVE  LET history == rows[i].history
               before == {j \in 1..(i - 1) : SamePartition(rows[j].trace, rows[i].trace)}
           IN /\ Len(history) <= HistoryLimit
              /\ \A k \in DOMAIN history : rows[history[k]].trace # rows[i].trace
              /\ \A k \in 1..(Len(history) - 1) :
                   /\ history[k] < history[k + 1]
                   /\ \A j \in (history[k] + 1)..(history[k + 1] - 1) :
                        rows[j].trace = rows[i].trace
              /\ faults = 0 => \A j \in before :
                   j \in ToSet(history) \/ (Len(history) = HistoryLimit /\ j < history[1])
  BY DEF HistoryIsThePast
<1> DEFINE h == rows[i].history
           t == rows[i].trace
<1>1. i \in 1..Len(rows) /\ JudgedIn(rows, i, faults)
  BY DEF PastInv, Typed, RowsJudged
<1>2. CASE h = <<>> /\ faults # 0
  <2>1. HistoryLimit \in Nat
    BY TrajectoryAssumption
  <2> QED
    BY <1>2, <2>1
<1>3. CASE ~(h = <<>> /\ faults # 0)
  <2>1. PICK n \in 0..(i - 1) :
          /\ PastOf(rows, h, t, n)
          /\ faults = 0 => \A j \in 1..(i - 1) : SamePartition(rows[j].trace, t) =>
                             j <= n /\ rows[j].trace # t
    BY <1>1, <1>3 DEF JudgedIn
  <2>2. DOMAIN h = 1..Len(h)
    BY <2>1 DEF PastOf
  <2> HIDE DEF h, t
  <2>3. ASSUME faults = 0, NEW j \in 1..(i - 1), SamePartition(rows[j].trace, t)
        PROVE  j \in ToSet(h) \/ (Len(h) = HistoryLimit /\ j < h[1])
    <3>1. j \in 1..n /\ rows[j].trace # t
      BY <2>1, <2>3
    <3> QED
      BY <2>1, <3>1 DEF PastOf
  <2> QED
    BY <2>1, <2>2, <2>3 DEF PastOf, h, t
<1> QED
  BY <1>2, <1>3

-----------------------------------------------------------------------------
(* The walk up the parent links.                                           *)

LEMMA ParentOfIs ==
  ASSUME session \in Sessions, NEW edges \in SUBSET Traces, NEW t \in Traces
  PROVE  /\ ParentOf(t, edges) \in Traces \union {NoParent}
         /\ ParentOf(t, edges) # NoParent => ParentOf(t, edges) = Parent(t)
         /\ Parent(t) \in Traces \union {NoParent}
BY SessionIs DEF ParentOf, Parent

(* A walk of at most k events, without repetition, along the links; a      *)
(* shorter one has come to its end.                                        *)
Walked(s, first, edges, k) ==
  /\ s \in Seq(Traces) /\ Len(s) \in 1..k /\ s[1] = first
  /\ \A i \in 1..(Len(s) - 1) : s[i + 1] = ParentOf(s[i], edges)
  /\ \A i, j \in 1..Len(s) : i # j => s[i] # s[j]
  /\ Len(s) < k => ParentOf(s[Len(s)], edges) \in ToSet(s) \union {NoParent}

LEMMA UpwardIs ==
  ASSUME session \in Sessions, NEW edges \in SUBSET Traces, NEW first,
         NEW k \in Nat \ {0}, NEW s, Walked(s, first, edges, k)
  PROVE  Walked(Upward(s, edges), first, edges, k + 1)
<1> DEFINE N == Len(s)
           node == ParentOf(s[N], edges)
<1>1. /\ s \in Seq(Traces) /\ N \in 1..k /\ N \in Nat /\ s[1] = first
      /\ \A i \in 1..(N - 1) : s[i + 1] = ParentOf(s[i], edges)
      /\ \A i, j \in 1..N : i # j => s[i] # s[j]
      /\ N < k => node \in ToSet(s) \union {NoParent}
  BY DEF Walked
<1>2. s[N] \in Traces /\ node \in Traces \union {NoParent}
  <2>1. s[N] \in Traces
    BY <1>1
  <2> QED
    BY <2>1, ParentOfIs
<1>3. Upward(s, edges) = IF node = NoParent \/ node \in ToSet(s) THEN s ELSE Append(s, node)
  BY DEF Upward, Last
<1>4. CASE node = NoParent \/ node \in ToSet(s)
  <2>1. Upward(s, edges) = s
    BY <1>3, <1>4
  <2>2. Len(s) \in 1..(k + 1)
    BY <1>1
  <2> QED
    BY <1>1, <1>4, <2>1, <2>2 DEF Walked
<1>5. CASE ~(node = NoParent \/ node \in ToSet(s))
  <2> DEFINE r == Append(s, node)
  <2>1. Upward(s, edges) = r
    BY <1>3, <1>5
  <2>2. N = k /\ node \in Traces
    BY <1>1, <1>2, <1>5
  <2> HIDE DEF node
  <2>3. r \in Seq(Traces) /\ Len(r) = N + 1 /\ r[N + 1] = node /\ \A i \in 1..N : r[i] = s[i]
    BY <1>1, <2>2
  <2> HIDE DEF r, N
  <2>4. r[1] = first /\ Len(r) = k + 1 /\ Len(r) \in 1..(k + 1)
    BY <1>1, <2>2, <2>3
  <2>5. ASSUME NEW i \in 1..(Len(r) - 1) PROVE r[i + 1] = ParentOf(r[i], edges)
    <3>1. CASE i = N
      BY <1>1, <2>3, <3>1 DEF node, N
    <3>2. CASE i # N
      <4>1. i \in 1..(N - 1) /\ i + 1 \in 1..N /\ i \in 1..N
        BY <1>1, <2>3, <3>2
      <4> QED
        BY <1>1, <2>3, <4>1
    <3> QED
      BY <3>1, <3>2
  <2>6. \A i \in 1..N : s[i] # node
    BY <1>1, <1>5 DEF ToSet, N
  <2>7. ASSUME NEW i \in 1..Len(r), NEW j \in 1..Len(r), i # j PROVE r[i] # r[j]
    <3>1. (i \in 1..N \/ i = N + 1) /\ (j \in 1..N \/ j = N + 1)
      BY <1>1, <2>3
    <3> QED
      BY <1>1, <2>3, <2>6, <2>7, <3>1
  <2> QED
    BY <1>1, <2>1, <2>2, <2>3, <2>4, <2>5, <2>7 DEF Walked
<1> QED
  BY <1>4, <1>5

LEMMA WalkIs ==
  ASSUME session \in Sessions, NEW edges \in SUBSET Traces, NEW t \in Traces,
         Parent(t) # NoParent
  PROVE  Walked(Walk(t, edges), Parent(t), edges, MaxDepth)
<1> DEFINE Next1(f, k) == IF k = 1 THEN <<Parent(t)>> ELSE Upward(f[k - 1], edges)
           Path(f, m) == f = [k \in 1..m |-> Next1(f, k)]
           Goes(m) == \E f : Path(f, m)
<1>0. MaxDepth \in Nat \ {0} /\ Parent(t) \in Traces
  BY TrajectoryAssumption, ParentOfIs
<1>1. ASSUME NEW m \in Nat \ {0}, Goes(m) PROVE Goes(m + 1)
  <2>1. PICK f : Path(f, m)
    BY <1>1
  <2> DEFINE g == [k \in 1..(m + 1) |-> IF k = m + 1 THEN Upward(f[m], edges) ELSE f[k]]
  <2>2. \A k \in 1..m : g[k] = f[k] /\ f[k] = Next1(f, k)
    BY <2>1
  <2>3. ASSUME NEW k \in 1..(m + 1) PROVE g[k] = Next1(g, k)
    <3>1. CASE k = m + 1
      <4>1. k - 1 = m /\ m \in 1..m /\ k # 1
        BY <3>1
      <4>2. g[k] = Upward(f[m], edges) /\ g[m] = f[m]
        BY <2>2, <3>1, <4>1
      <4> HIDE DEF g
      <4> QED
        BY <4>1, <4>2
    <3>2. CASE k # m + 1
      <4>1. k \in 1..m /\ (k # 1 => k - 1 \in 1..m)
        BY <3>2
      <4> HIDE DEF g
      <4> QED
        BY <2>2, <4>1
    <3> QED
      BY <3>1, <3>2
  <2>4. g = [k \in 1..(m + 1) |-> g[k]]
    OBVIOUS
  <2> HIDE DEF g
  <2>5. g = [k \in 1..(m + 1) |-> Next1(g, k)]
    BY <2>3, <2>4
  <2> QED
    BY <2>5
<1>2. Goes(1)
  <2> DEFINE f == [k \in 1..1 |-> <<Parent(t)>>]
  <2>1. Path(f, 1)
    OBVIOUS
  <2> QED
    BY <2>1
<1>3. Goes(MaxDepth)
  <2> DEFINE Stuck == {m \in Nat \ {0} : ~Goes(m)}
  <2> SUFFICES ASSUME Stuck # {} PROVE FALSE
    BY <1>0
  <2>1. PICK m \in Stuck : \A y \in Stuck : m <= y
    BY LeastOf
  <2> HIDE DEF Goes
  <2>2. m # 1 /\ m - 1 \in Nat \ {0} /\ m - 1 + 1 = m
    BY <1>2, <2>1
  <2>3. m - 1 \notin Stuck
    BY <2>1, <2>2
  <2>4. Goes(m - 1 + 1)
    BY <1>1, <2>2, <2>3
  <2> QED
    BY <2>1, <2>2, <2>4
<1> DEFINE path == CHOOSE f : Path(f, MaxDepth)
<1>4. Path(path, MaxDepth)
  BY <1>3
<1>5. Walk(t, edges) = path[MaxDepth]
  BY DEF Walk
<1> HIDE DEF path
<1>6. \A k \in 1..MaxDepth : path[k] = Next1(path, k)
  BY <1>4
<1>7. ASSUME NEW k \in 1..MaxDepth PROVE Walked(path[k], Parent(t), edges, k)
  <2> DEFINE Bad == {m \in 1..MaxDepth : ~Walked(path[m], Parent(t), edges, m)}
  <2> SUFFICES ASSUME Bad # {} PROVE FALSE
    OBVIOUS
  <2>1. PICK m \in Bad : \A y \in Bad : m <= y
    <3>1. Bad \in SUBSET Nat
      BY <1>0
    <3> QED
      BY <3>1, LeastOf
  <2>2. m # 1
    <3> SUFFICES ASSUME m = 1 PROVE FALSE
      OBVIOUS
    <3>1. path[1] = <<Parent(t)>>
      BY <1>0, <1>6
    <3> DEFINE s == <<Parent(t)>>
    <3>2. s \in Seq(Traces) /\ Len(s) = 1 /\ s[1] = Parent(t)
      BY <1>0
    <3> HIDE DEF s
    <3>3. Walked(s, Parent(t), edges, 1)
      BY <3>2 DEF Walked
    <3> QED
      BY <2>1, <3>1, <3>3 DEF s
  <2>3. m - 1 \in 1..MaxDepth /\ m - 1 \in Nat \ {0} /\ m - 1 + 1 = m /\ m \in 1..MaxDepth
    BY <1>0, <2>1, <2>2
  <2>4. Walked(path[m - 1], Parent(t), edges, m - 1)
    BY <2>1, <2>3
  <2>5. path[m] = Upward(path[m - 1], edges)
    BY <1>6, <2>2, <2>3
  <2>6. Walked(path[m], Parent(t), edges, m - 1 + 1)
    BY <2>3, <2>4, <2>5, UpwardIs
  <2> QED
    BY <2>1, <2>3, <2>6
<1> QED
  BY <1>0, <1>5, <1>7

(* What holds an event of a walk and every parent of what it holds, holds  *)
(* the events after it.                                                    *)
LEMMA WalkStays ==
  ASSUME NEW edges, NEW first, NEW k, NEW s, Walked(s, first, edges, k),
         NEW S, \A b \in S : ParentOf(b, edges) \in S \union {NoParent},
         \A i \in 1..Len(s) : s[i] # NoParent,
         NEW a \in 1..Len(s), s[a] \in S
  PROVE  \A i \in a..Len(s) : s[i] \in S
<1> DEFINE Bad == {i \in a..Len(s) : s[i] \notin S}
<1> SUFFICES ASSUME Bad # {} PROVE FALSE
  OBVIOUS
<1>1. Len(s) \in Nat /\ \A i \in 1..(Len(s) - 1) : s[i + 1] = ParentOf(s[i], edges)
  BY DEF Walked
<1>2. PICK m \in Bad : \A y \in Bad : m <= y
  <2>1. Bad \in SUBSET Nat
    BY <1>1
  <2> QED
    BY <2>1, LeastOf
<1>3. m # a /\ m \in a..Len(s) /\ s[m] \notin S
  OBVIOUS
<1>4. m - 1 \in a..Len(s) /\ m - 1 \in 1..(Len(s) - 1) /\ m \in 1..Len(s) /\ m - 1 + 1 = m
  BY <1>1, <1>3
<1>5. s[m - 1] \in S
  BY <1>2, <1>4
<1>6. s[m] = ParentOf(s[m - 1], edges) /\ s[m] # NoParent
  <2>1. s[m - 1 + 1] = ParentOf(s[m - 1], edges)
    BY <1>1, <1>4
  <2> QED
    BY <1>4, <2>1
<1> QED
  BY <1>3, <1>5, <1>6

LEMMA WalkIsKin ==
  ASSUME session \in Sessions, NEW edges \in SUBSET Traces, NEW t \in Traces,
         Parent(t) # NoParent
  PROVE  LET walk == Walk(t, edges)
         IN /\ walk \in Seq(Traces) /\ Len(walk) \in Nat
            /\ \A i, j \in 1..Len(walk) : i # j => walk[i] # walk[j]
            /\ \A i \in 1..Len(walk) : walk[i] \in Ancestors(t, edges)
            /\ \A b, a \in 1..Len(walk) : b < a => walk[a] \in Ancestors(walk[b], edges)
<1> DEFINE s == Walk(t, edges)
<1>0. Walked(s, Parent(t), edges, MaxDepth)
  BY WalkIs
<1> HIDE DEF s
<1>1. /\ s \in Seq(Traces) /\ Len(s) \in Nat /\ 1 \in 1..Len(s) /\ s[1] = Parent(t)
      /\ \A i \in 1..(Len(s) - 1) : s[i + 1] = ParentOf(s[i], edges)
      /\ \A i, j \in 1..Len(s) : i # j => s[i] # s[j]
  BY <1>0 DEF Walked
<1>2. \A i \in 1..Len(s) : s[i] \in Traces /\ s[i] # NoParent
  BY <1>1, SessionIs
<1>3. ASSUME NEW i \in 1..Len(s) PROVE s[i] \in Ancestors(t, edges)
  <2>1. ASSUME NEW S \in SUBSET Traces, Parent(t) \in S,
               \A b \in S : ParentOf(b, edges) \in S \union {NoParent}
        PROVE  s[i] \in S
    <3>1. s[1] \in S /\ i \in 1..Len(s)
      BY <1>1, <2>1
    <3> QED
      BY <1>0, <1>1, <1>2, <2>1, <3>1, WalkStays
  <2> QED
    BY <1>2, <2>1 DEF Ancestors
<1>4. ASSUME NEW b \in 1..Len(s), NEW a \in 1..Len(s), b < a
      PROVE  s[a] \in Ancestors(s[b], edges)
  <2>0. b \in 1..(Len(s) - 1) /\ b + 1 \in 1..Len(s) /\ a \in (b + 1)..Len(s)
    BY <1>1, <1>4
  <2>1. s[b + 1] = Parent(s[b])
    <3>1. s[b + 1] = ParentOf(s[b], edges) /\ s[b + 1] # NoParent /\ s[b] \in Traces
      BY <1>1, <1>2, <2>0
    <3> QED
      BY <3>1, ParentOfIs
  <2>2. ASSUME NEW S \in SUBSET Traces, Parent(s[b]) \in S,
               \A c \in S : ParentOf(c, edges) \in S \union {NoParent}
        PROVE  s[a] \in S
    <3>1. s[b + 1] \in S
      BY <2>1, <2>2
    <3>2. \A i \in (b + 1)..Len(s) : s[i] \in S
      <4> DEFINE c == b + 1
      <4>1. c \in 1..Len(s) /\ s[c] \in S
        BY <2>0, <3>1
      <4> HIDE DEF c
      <4>2. \A i \in c..Len(s) : s[i] \in S
        BY <1>0, <1>2, <2>2, <4>1, WalkStays
      <4> QED
        BY <4>2 DEF c
    <3> QED
      BY <2>0, <3>2
  <2> QED
    BY <1>2, <2>2 DEF Ancestors
<1> QED
  BY <1>1, <1>3, <1>4 DEF s

(* A walk that MaxDepth did not end has passed all ancestors.              *)
LEMMA WalkIsAll ==
  ASSUME session \in Sessions, NEW edges \in SUBSET Traces, NEW t \in Traces,
         Parent(t) # NoParent, Cardinality(Ancestors(t, edges)) <= MaxDepth
  PROVE  Ancestors(t, edges) \subseteq ToSet(Walk(t, edges))
<1> DEFINE s == Walk(t, edges)
           N == Len(s)
           kin == Ancestors(t, edges)
           node == ParentOf(s[N], edges)
<1>0. Walked(s, Parent(t), edges, MaxDepth)
  BY WalkIs
<1>1. /\ s \in Seq(Traces) /\ N \in Nat /\ N \in 1..MaxDepth /\ s[1] = Parent(t)
      /\ \A i \in 1..(N - 1) : s[i + 1] = ParentOf(s[i], edges)
      /\ \A i, j \in 1..N : i # j => s[i] # s[j]
      /\ N < MaxDepth => node \in ToSet(s) \union {NoParent}
  <2> HIDE DEF s
  <2> QED
    BY <1>0 DEF Walked
<1>2. \A i \in 1..N : s[i] \in kin
  BY WalkIsKin
<1>3. MaxDepth \in Nat
  BY TrajectoryAssumption
<1> HIDE DEF s
<1>4. ToSet(s) \subseteq kin /\ ToSet(s) \subseteq Traces /\ kin \subseteq Traces
  <2>1. \A i \in 1..N : s[i] \in Traces
    BY <1>1
  <2>2. ToSet(s) = {s[i] : i \in 1..N}
    BY <1>1 DEF ToSet
  <2>3. kin \subseteq Traces
    BY DEF Ancestors
  <2> HIDE DEF kin, N
  <2> QED
    BY <1>2, <2>1, <2>2, <2>3
<1>5. node \in ToSet(s) \union {NoParent}
  <2> SUFFICES ASSUME node \notin ToSet(s), node # NoParent PROVE FALSE
    OBVIOUS
  <2>1. N = MaxDepth
    BY <1>1, <1>3
  <2>2. s[N] \in kin /\ s[N] \in Traces
    <3>1. N \in 1..N
      BY <1>1
    <3> QED
      BY <1>1, <1>2, <3>1
  <2>3. node \in kin
    <3>1. node \in Traces
      BY <2>2, ParentOfIs
    <3>2. ASSUME NEW S \in SUBSET Traces, Parent(t) \in S,
                 \A b \in S : ParentOf(b, edges) \in S \union {NoParent}
          PROVE  node \in S
      <4>1. s[N] \in S
        BY <2>2, <3>2 DEF Ancestors
      <4> QED
        BY <3>2, <4>1
    <3> QED
      BY <3>1, <3>2 DEF Ancestors
  <2>4. IsFiniteSet(kin)
    <3>1. IsFiniteSet(Traces)
      BY TrajectoryAssumption DEF Traces
    <3> QED
      BY <1>4, <3>1, FS_Subset
  <2>5. IsFiniteSet(ToSet(s)) /\ Cardinality(ToSet(s)) = N
    <3> DEFINE T == ToSet(s)
    <3>1. s \in [1..N -> T]
      <4>1. DOMAIN s = 1..N /\ s \in [1..N -> Traces]
        BY <1>1
      <4>2. \A i \in 1..N : s[i] \in T
        BY <4>1 DEF ToSet
      <4> HIDE DEF T, N
      <4> QED
        BY <4>1, <4>2
    <3>2. \A y \in T : \E i \in 1..N : s[i] = y
      BY <1>1 DEF ToSet
    <3>3. IsFiniteSet(1..N) /\ Cardinality(1..N) = N
      BY <1>1, FS_Interval
    <3> HIDE DEF T, N
    <3>4. s \in Bijection(1..N, T)
      BY <1>1, <3>1, <3>2 DEF Bijection, Injection, Surjection, IsInjective
    <3> QED
      BY <3>3, <3>4, FS_Bijection DEF T, ExistsBijection
  <2>6. Cardinality(ToSet(s) \union {node}) = N + 1 /\ ToSet(s) \union {node} \subseteq kin
    <3> HIDE DEF node, kin
    <3> QED
      BY <1>4, <2>3, <2>5, FS_AddElement
  <2>7. Cardinality(ToSet(s) \union {node}) <= Cardinality(kin) /\ Cardinality(kin) \in Nat
    <3> HIDE DEF node, kin
    <3> QED
      BY <2>4, <2>6, FS_Subset, FS_CardinalityType
  <2> QED
    BY <1>1, <1>3, <2>1, <2>6, <2>7
<1>6. ASSUME NEW b \in ToSet(s) PROVE ParentOf(b, edges) \in ToSet(s) \union {NoParent}
  <2>1. PICK i \in 1..N : b = s[i]
    BY <1>1 DEF ToSet
  <2>2. CASE i = N
    BY <1>5, <2>1, <2>2
  <2>3. CASE i # N
    <3>1. i \in 1..(N - 1) /\ i + 1 \in DOMAIN s
      BY <1>1, <2>3
    <3>2. ParentOf(b, edges) = s[i + 1]
      BY <1>1, <2>1, <3>1
    <3> QED
      BY <3>1, <3>2 DEF ToSet
  <2> QED
    BY <2>2, <2>3
<1>7. Parent(t) \in ToSet(s)
  <2>1. 1 \in DOMAIN s
    BY <1>1
  <2> QED
    BY <1>1, <2>1 DEF ToSet
<1>8. ASSUME NEW a \in kin PROVE a \in ToSet(s)
  BY <1>4, <1>6, <1>7, <1>8 DEF Ancestors
<1> QED
  BY <1>8 DEF s

(* The chain are rows of the scanned events of the walk, from its end to   *)
(* its beginning.                                                          *)
LEMMA AgentChainIs ==
  ASSUME session \in Sessions, NEW edges \in SUBSET Traces, NEW t \in Traces,
         NEW n \in Nat, NEW pick \in ScoreOf(n)
  PROVE  LET walk == Walk(t, edges)
             chain == AgentChain(t, edges, pick)
         IN /\ chain \in Seq(1..n) /\ Len(walk) \in Nat
            /\ \E at \in [1..Len(chain) -> 1..Len(walk)] :
                 /\ \A j \in 1..Len(chain) : rows[chain[j]].trace = walk[at[j]]
                 /\ \A j, k \in 1..Len(chain) : j < k => at[k] < at[j]
                 /\ \A i \in 1..Len(walk) : walk[i] \in Scored(n) =>
                      \E j \in 1..Len(chain) : at[j] = i
<1> DEFINE walk == Walk(t, edges)
           places == {k \in DOMAIN walk : walk[k] \in DOMAIN pick}
           known == Sorted(places)
           N == Cardinality(places)
           picked == [k \in DOMAIN known |-> pick[walk[known[k]]]]
           chain == AgentChain(t, edges, pick)
           at == [j \in 1..N |-> known[N - j + 1]]
<1>1. Len(walk) \in Nat /\ DOMAIN walk = 1..Len(walk)
  <2>1. CASE Parent(t) = NoParent
    <3>1. walk = <<>>
      BY <2>1 DEF Walk
    <3> HIDE DEF walk
    <3> QED
      BY <3>1
  <2>2. CASE Parent(t) # NoParent
    <3>1. walk \in Seq(Traces) /\ Len(walk) \in Nat
      BY <2>2, WalkIsKin
    <3> HIDE DEF walk
    <3> QED
      BY <3>1
  <2> QED
    BY <2>1, <2>2
<1>2. /\ DOMAIN pick = Scored(n) /\ \A u \in Scored(n) : pick[u] \in 1..n
      /\ \A u \in Scored(n) : rows[pick[u]].trace = u
  BY DEF ScoreOf
<1> HIDE DEF walk
<1>3. chain = Reverse(picked)
  BY DEF AgentChain, walk
<1>4. /\ N \in Nat /\ known \in [1..N -> places]
      /\ \A i \in places : \E k \in 1..N : known[k] = i
      /\ \A j, k \in 1..N : j < k => known[j] < known[k]
  <2>1. places \in SUBSET (1..Len(walk))
    BY <1>1
  <2> HIDE DEF places
  <2> QED
    BY <1>1, <2>1, SortedIs
<1>5. \A k \in 1..N : known[k] \in 1..Len(walk) /\ walk[known[k]] \in Scored(n)
  <2>1. \A k \in 1..N : known[k] \in places
    <3> HIDE DEF places, known, N
    <3> QED
      BY <1>4
  <2> HIDE DEF known, N
  <2> QED
    BY <1>1, <1>2, <2>1
<1>6. DOMAIN known = 1..N
  BY <1>4
<1>7. /\ picked \in Seq(1..n) /\ Len(picked) = N
      /\ \A k \in 1..N : picked[k] = pick[walk[known[k]]]
  <2> HIDE DEF known, N
  <2>1. picked \in [1..N -> 1..n]
    BY <1>2, <1>5, <1>6
  <2>2. \A k \in 1..N : picked[k] = pick[walk[known[k]]]
    BY <1>6
  <2> HIDE DEF picked
  <2> QED
    BY <1>4, <2>1, <2>2
<1>8. /\ chain \in Seq(1..n) /\ Len(chain) = N
      /\ \A j \in 1..N : chain[j] = picked[N - j + 1]
  <2> HIDE DEF picked, N
  <2>1. chain = [j \in 1..N |-> picked[(N - j) + 1]]
    BY <1>3, <1>7 DEF Reverse
  <2>2. \A j \in 1..N : (N - j) + 1 \in 1..N
    BY <1>4
  <2>3. \A k \in 1..N : picked[k] \in 1..n
    BY <1>7
  <2> HIDE DEF chain
  <2>4. chain \in [1..N -> 1..n]
    BY <2>1, <2>2, <2>3
  <2> QED
    BY <1>4, <2>1, <2>4
<1> HIDE DEF chain, picked, known, places, N
<1>9. \A j \in 1..N : N - j + 1 \in 1..N
  BY <1>4
<1>10. at \in [1..N -> 1..Len(walk)] /\ \A j \in 1..N : at[j] = known[N - j + 1]
  BY <1>5, <1>9
<1>11. \A j \in 1..N : rows[chain[j]].trace = walk[at[j]]
  <2> TAKE j \in 1..N
  <2>1. N - j + 1 \in 1..N /\ chain[j] = picked[N - j + 1] /\ at[j] = known[N - j + 1]
    BY <1>8, <1>9, <1>10
  <2>2. picked[N - j + 1] = pick[walk[known[N - j + 1]]] /\ walk[known[N - j + 1]] \in Scored(n)
    BY <1>5, <1>7, <2>1
  <2> HIDE DEF at
  <2> QED
    BY <1>2, <2>1, <2>2
<1>12. ASSUME NEW j \in 1..N, NEW k \in 1..N, j < k PROVE at[k] < at[j]
  <2>1. N - k + 1 < N - j + 1
    BY <1>4, <1>12
  <2> QED
    BY <1>4, <1>9, <1>10, <2>1
<1>13. ASSUME NEW i \in 1..Len(walk), walk[i] \in Scored(n) PROVE \E j \in 1..N : at[j] = i
  <2>1. i \in places
    BY <1>1, <1>2, <1>13 DEF places
  <2>2. PICK k \in 1..N : known[k] = i
    BY <1>4, <2>1
  <2>3. N - k + 1 \in 1..N /\ N - (N - k + 1) + 1 = k
    BY <1>4
  <2> QED
    BY <1>10, <2>2, <2>3
<1> HIDE DEF at
<1>14. \E f \in [1..Len(chain) -> 1..Len(walk)] :
         /\ \A j \in 1..Len(chain) : rows[chain[j]].trace = walk[f[j]]
         /\ \A j, k \in 1..Len(chain) : j < k => f[k] < f[j]
         /\ \A i \in 1..Len(walk) : walk[i] \in Scored(n) => \E j \in 1..Len(chain) : f[j] = i
  <2>1. at \in [1..Len(chain) -> 1..Len(walk)]
    BY <1>8, <1>10
  <2> WITNESS at \in [1..Len(chain) -> 1..Len(walk)]
  <2> QED
    BY <1>8, <1>11, <1>12, <1>13
<1> QED
  BY <1>1, <1>8, <1>14 DEF walk, chain

LEMMA ChainIs ==
  ASSUME session \in Sessions, NEW edges \in SUBSET Traces, NEW t \in Traces,
         NEW n \in Nat, NEW pick \in ScoreOf(n)
  PROVE  LET kin == IF Parent(t) = NoParent THEN {} ELSE Ancestors(t, edges)
             chain == AgentChain(t, edges, pick)
             members == [k \in DOMAIN chain |-> rows[chain[k]].trace]
         IN /\ ToSet(members) \subseteq kin
            /\ Cardinality(kin) <= MaxDepth => kin \intersect Scored(n) \subseteq ToSet(members)
            /\ \A j, k \in DOMAIN members : j < k =>
                 /\ members[j] # members[k]
                 /\ members[j] \in Ancestors(members[k], edges)
<1>0. LET walk == Walk(t, edges)
          chain == AgentChain(t, edges, pick)
      IN /\ chain \in Seq(1..n) /\ Len(walk) \in Nat
         /\ \E at \in [1..Len(chain) -> 1..Len(walk)] :
              /\ \A j \in 1..Len(chain) : rows[chain[j]].trace = walk[at[j]]
              /\ \A j, k \in 1..Len(chain) : j < k => at[k] < at[j]
              /\ \A i \in 1..Len(walk) : walk[i] \in Scored(n) =>
                   \E j \in 1..Len(chain) : at[j] = i
  BY AgentChainIs, ZenonT(60)
<1> DEFINE walk == Walk(t, edges)
           kin == IF Parent(t) = NoParent THEN {} ELSE Ancestors(t, edges)
           chain == AgentChain(t, edges, pick)
           members == [k \in DOMAIN chain |-> rows[chain[k]].trace]
           N == Len(chain)
<1>1. /\ chain \in Seq(1..n) /\ Len(walk) \in Nat
      /\ \E at \in [1..N -> 1..Len(walk)] :
           /\ \A j \in 1..N : rows[chain[j]].trace = walk[at[j]]
           /\ \A j, k \in 1..N : j < k => at[k] < at[j]
           /\ \A i \in 1..Len(walk) : walk[i] \in Scored(n) => \E j \in 1..N : at[j] = i
  BY <1>0
<1>2. PICK at \in [1..N -> 1..Len(walk)] :
           /\ \A j \in 1..N : rows[chain[j]].trace = walk[at[j]]
           /\ \A j, k \in 1..N : j < k => at[k] < at[j]
           /\ \A i \in 1..Len(walk) : walk[i] \in Scored(n) => \E j \in 1..N : at[j] = i
  BY <1>1
<1>3. /\ \A i, j \in 1..Len(walk) : i # j => walk[i] # walk[j]
      /\ \A i \in 1..Len(walk) : walk[i] \in kin
      /\ \A b, a \in 1..Len(walk) : b < a => walk[a] \in Ancestors(walk[b], edges)
  <2>1. CASE Parent(t) = NoParent
    <3>1. walk = <<>>
      BY <2>1 DEF Walk
    <3>2. Len(walk) = 0
      <4> HIDE DEF walk
      <4> QED
        BY <3>1
    <3>3. \A i \in 1..Len(walk) : FALSE
      <4> HIDE DEF walk
      <4> QED
        BY <3>2
    <3> HIDE DEF walk, kin
    <3> QED
      BY <3>3
  <2>2. CASE Parent(t) # NoParent
    BY <2>2, WalkIsKin
  <2> QED
    BY <2>1, <2>2
<1>4. Cardinality(kin) <= MaxDepth => kin \subseteq ToSet(walk)
  BY WalkIsAll
<1>5. ToSet(walk) = {walk[i] : i \in 1..Len(walk)}
  <2>1. DOMAIN walk = 1..Len(walk)
    <3>1. CASE Parent(t) = NoParent
      <4>1. walk = <<>>
        BY <3>1 DEF Walk
      <4> HIDE DEF walk
      <4> QED
        BY <4>1
    <3>2. CASE Parent(t) # NoParent
      <4>1. walk \in Seq(Traces)
        BY <3>2, WalkIsKin
      <4> HIDE DEF walk
      <4> QED
        BY <4>1
    <3> QED
      BY <3>1, <3>2
  <2> QED
    BY <2>1 DEF ToSet
<1> HIDE DEF walk, kin, chain
<1>6. DOMAIN chain = 1..N /\ N \in Nat
  BY <1>1
<1>7. DOMAIN members = 1..N /\ \A j \in 1..N : members[j] = walk[at[j]]
  BY <1>2, <1>6
<1>8. ToSet(members) = {members[j] : j \in 1..N}
  BY <1>7 DEF ToSet
<1> HIDE DEF members, N
<1>9. \A j \in 1..N : at[j] \in 1..Len(walk)
  BY <1>2
<1>10. ToSet(members) \subseteq kin
  BY <1>3, <1>7, <1>8, <1>9
<1>11. ASSUME Cardinality(kin) <= MaxDepth, NEW a \in kin \intersect Scored(n)
       PROVE  a \in ToSet(members)
  <2>1. PICK i \in 1..Len(walk) : walk[i] = a
    BY <1>4, <1>5, <1>11
  <2>2. PICK j \in 1..N : at[j] = i
    BY <1>2, <2>1
  <2> QED
    BY <1>7, <1>8, <2>1, <2>2
<1>12. ASSUME NEW j \in DOMAIN members, NEW k \in DOMAIN members, j < k
       PROVE  /\ members[j] # members[k]
              /\ members[j] \in Ancestors(members[k], edges)
  <2>1. j \in 1..N /\ k \in 1..N
    BY <1>7
  <2>2. at[k] < at[j] /\ at[k] \in 1..Len(walk) /\ at[j] \in 1..Len(walk)
    BY <1>2, <1>9, <1>12, <2>1
  <2>3. at[j] # at[k]
    BY <1>1, <2>2
  <2> QED
    BY <1>3, <1>7, <2>1, <2>2, <2>3
<1> QED
  BY <1>10, <1>11, <1>12 DEF members, chain, kin

LEMMA PastInvGivesAncestry == PastInv => ChainIsAncestry
<1> SUFFICES ASSUME PastInv, NEW p \in Partitions, AllRead(p), NEW pick \in ScoreOf(view[p].scored)
    PROVE  LET t == Trace(p)
               edges == view[p].edges
               kin == IF Parent(t) = NoParent THEN {} ELSE Ancestors(t, edges)
               chain == AgentChain(t, edges, pick)
               members == [k \in DOMAIN chain |-> rows[chain[k]].trace]
           IN /\ ToSet(members) \subseteq kin
              /\ Cardinality(kin) <= MaxDepth =>
                   kin \intersect Scored(view[p].scored) \subseteq ToSet(members)
              /\ \A j, k \in DOMAIN members : j < k =>
                   /\ members[j] # members[k]
                   /\ members[j] \in Ancestors(members[k], edges)
  BY DEF ChainIsAncestry
<1>1. /\ session \in Sessions /\ view[p] \in Views
      /\ next[p] \in 1..(Len(Backlog(p)) + 1)
  BY DEF PastInv, Typed
<1>2. Trace(p) \in Traces
  <2>1. Backlog(p) \in Seq(Traces)
    BY <1>1, SessionIs
  <2>2. next[p] \in 1..Len(Backlog(p))
    BY <1>1, <2>1 DEF AllRead, InWork
  <2> QED
    BY <2>1, <2>2 DEF Trace
<1>3. view[p].edges \in SUBSET Traces /\ view[p].scored \in Nat
  BY <1>1 DEF Views
<1> DEFINE t == Trace(p)
           edges == view[p].edges
           n == view[p].scored
<1>4. t \in Traces /\ edges \in SUBSET Traces /\ n \in Nat /\ pick \in ScoreOf(n)
  BY <1>2, <1>3
<1> HIDE DEF t, edges, n
<1>5. LET kin == IF Parent(t) = NoParent THEN {} ELSE Ancestors(t, edges)
          chain == AgentChain(t, edges, pick)
          members == [k \in DOMAIN chain |-> rows[chain[k]].trace]
      IN /\ ToSet(members) \subseteq kin
         /\ Cardinality(kin) <= MaxDepth => kin \intersect Scored(n) \subseteq ToSet(members)
         /\ \A j, k \in DOMAIN members : j < k =>
              /\ members[j] # members[k]
              /\ members[j] \in Ancestors(members[k], edges)
  BY <1>1, <1>4, ChainIs
<1> QED
  BY <1>5 DEF t, edges, n

-----------------------------------------------------------------------------
(* Types.                                                                  *)

(* A row is of a turn of the session and refers to rows before it.         *)
RowTyped(row, i) ==
  /\ row.trace \in Traces
  /\ row.score \in session.scores \union {0}
  /\ ToSet(row.history) \union ToSet(row.chain) \subseteq 1..(i - 1)

TypeInv ==
  /\ PastInv
  /\ \A i \in 1..Len(rows) : RowTyped(rows[i], i)
  /\ faults <= MaxFaults

LEMMA ToSetIs ==
  ASSUME NEW n \in Nat, NEW m \in Nat, n <= m, NEW s \in Seq(1..n)
  PROVE  ToSet(s) \subseteq 1..m
<1>1. \A k \in DOMAIN s : s[k] \in 1..n
  OBVIOUS
<1>2. \A x \in 1..n : x \in 1..m
  OBVIOUS
<1> QED
  BY <1>1, <1>2 DEF ToSet

LEMMA RowIs ==
  ASSUME PastInv, NEW p \in Partitions, AllRead(p),
         NEW score \in session.scores, NEW pick \in ScoreOf(view[p].scored)
  PROVE  RowTyped(Row(p, score, pick), Len(rows) + 1)
<1> DEFINE t == Trace(p)
           edges == view[p].edges
           n == view[p].history
           m == view[p].scored
           N == Len(rows)
<1>1. /\ session \in Sessions /\ view[p] \in Views
      /\ next[p] \in 1..(Len(Backlog(p)) + 1) /\ N \in Nat
      /\ n <= N /\ m <= N
  BY DEF PastInv, Typed
<1>2. edges \in SUBSET Traces /\ n \in Nat /\ m \in Nat
  BY <1>1 DEF Views
<1>3. t \in Traces
  <2>1. Backlog(p) \in Seq(Traces)
    BY <1>1, SessionIs
  <2>2. next[p] \in 1..Len(Backlog(p))
    BY <1>1, <2>1 DEF AllRead, InWork
  <2> QED
    BY <2>1, <2>2 DEF Trace
<1>4. /\ Row(p, score, pick).trace = t /\ Row(p, score, pick).score = score
      /\ Row(p, score, pick).history = History(t, n)
      /\ Row(p, score, pick).chain = AgentChain(t, edges, pick)
  BY DEF Row
<1>5. pick \in ScoreOf(m)
  OBVIOUS
<1> HIDE DEF t, edges, n, m, N
<1>6. History(t, n) \in Seq(1..n)
  BY <1>2, HistoryIs DEF PastOf
<1>7. AgentChain(t, edges, pick) \in Seq(1..m)
  BY <1>1, <1>2, <1>3, <1>5, AgentChainIs
<1>8. ToSet(History(t, n)) \subseteq 1..N /\ ToSet(AgentChain(t, edges, pick)) \subseteq 1..N
  BY <1>1, <1>2, <1>6, <1>7, ToSetIs
<1>9. N + 1 - 1 = N
  BY <1>1
<1> QED
  BY <1>3, <1>4, <1>8, <1>9 DEF RowTyped, N

LEMMA TypeInit == Init => TypeInv
<1> SUFFICES ASSUME Init PROVE TypeInv
  OBVIOUS
<1>1. PastInv
  BY PastInit
<1>2. \A i \in 1..Len(rows) : FALSE
  <2>1. Len(rows) = 0
    BY DEF Init
  <2> QED
    BY <2>1
<1>3. faults <= MaxFaults
  BY TrajectoryAssumption DEF Init
<1> QED
  BY <1>1, <1>2, <1>3 DEF TypeInv

LEMMA TypeStep == TypeInv /\ [Next]_vars => TypeInv'
<1> SUFFICES ASSUME TypeInv, [Next]_vars PROVE TypeInv'
  OBVIOUS
<1>1. PastInv /\ PastInv'
  BY PastStep DEF TypeInv
<1>2. /\ Len(rows) \in Nat /\ rows = [i \in 1..Len(rows) |-> rows[i]]
      /\ session \in Sessions /\ faults \in Nat /\ faults <= MaxFaults
      /\ \A i \in 1..Len(rows) : RowTyped(rows[i], i)
  BY <1>1 DEF TypeInv, PastInv, Typed
<1>3. session' = session /\ (faults' = faults \/ Disturb)
  BY DEF Next, vars, Ingest, ReadHistory, ReadParentKind, ReadEdges, ReadScores, Answered,
         ReadFails, Store, StoreFails, ScanFails, Proceed
<1>4. faults' <= MaxFaults
  BY <1>2, <1>3, TrajectoryAssumption DEF Disturb
<1>5. \/ rows' = rows
      \/ \E r : rows' = Append(rows, r) /\ RowTyped(r, Len(rows) + 1)
  <2>1. ASSUME NEW p \in Partitions, AllRead(p), Insert(p)
        PROVE  \E r : rows' = Append(rows, r) /\ RowTyped(r, Len(rows) + 1)
    <3>1. PICK score \in session.scores, pick \in ScoreOf(view[p].scored) :
            rows' = Append(rows, Row(p, score, pick))
      BY <2>1 DEF Insert
    <3> QED
      BY <1>1, <2>1, <3>1, RowIs
  <2>2. ASSUME NEW p \in Partitions, ScanFails(p), rows' # rows
        PROVE  \E r : rows' = Append(rows, r) /\ RowTyped(r, Len(rows) + 1)
    <3>1. rows' = Append(rows, Marker(Trace(p))) /\ AllRead(p)
      BY <2>2 DEF ScanFails
    <3>2. Trace(p) \in Traces
      <4>1. Backlog(p) \in Seq(Traces)
        BY <1>2, SessionIs
      <4>2. next[p] \in 1..Len(Backlog(p))
        BY <1>1, <3>1, <4>1 DEF AllRead, InWork, PastInv, Typed
      <4> QED
        BY <4>1, <4>2 DEF Trace
    <3>3. RowTyped(Marker(Trace(p)), Len(rows) + 1)
      BY <3>2 DEF RowTyped, Marker, ToSet
    <3> QED
      BY <3>1, <3>3
  <2>3. ASSUME NEW p \in Partitions, Store(p) \/ StoreFails(p), rows' # rows
        PROVE  AllRead(p) /\ Insert(p)
    BY <2>3 DEF Store, StoreFails
  <2> QED
    BY <2>1, <2>2, <2>3 DEF Next, vars, Ingest, ReadHistory, ReadParentKind, ReadEdges,
       ReadScores, Answered, ReadFails
<1>6. ASSUME NEW i \in 1..Len(rows') PROVE RowTyped(rows[i], i)'
  <2>1. RowTyped(rows'[i], i)
    <3>1. CASE rows' = rows
      BY <1>2, <3>1
    <3>2. CASE \E r : rows' = Append(rows, r) /\ RowTyped(r, Len(rows) + 1)
      <4>1. PICK r : rows' = Append(rows, r) /\ RowTyped(r, Len(rows) + 1)
        BY <3>2
      <4>2. /\ Len(rows') = Len(rows) + 1 /\ rows'[Len(rows) + 1] = r
            /\ \A j \in 1..Len(rows) : rows'[j] = rows[j]
        BY <1>2, <4>1, AppendIs
      <4>3. i \in 1..Len(rows) \/ i = Len(rows) + 1
        BY <1>2, <4>2
      <4> QED
        BY <1>2, <4>1, <4>2, <4>3
    <3> QED
      BY <1>5, <3>1, <3>2
  <2> QED
    BY <1>3, <2>1 DEF RowTyped, Traces
<1> QED
  BY <1>1, <1>4, <1>6 DEF TypeInv

LEMMA TypeInvGives == TypeInv => TypeOK
<1> SUFFICES ASSUME TypeInv PROVE TypeOK
  OBVIOUS
<1>1. Typed /\ faults \in Nat /\ faults <= MaxFaults /\ \A i \in 1..Len(rows) : RowTyped(rows[i], i)
  BY DEF TypeInv, PastInv, Typed
<1>2. DOMAIN rows = 1..Len(rows)
  BY <1>1 DEF Typed
<1>3. ASSUME NEW p \in Partitions
      PROVE  /\ next[p] \in 1..(Len(Backlog(p)) + 1)
             /\ view[p].pending \subseteq Queries
             /\ view[p].kind \in {"", "llm", "tool"}
             /\ view[p].edges \subseteq Traces
             /\ {view[p].history, view[p].scored} \subseteq 0..Len(rows)
  <2>1. view[p] \in Views /\ view[p].history <= Len(rows) /\ view[p].scored <= Len(rows)
        /\ Len(rows) \in Nat
    BY <1>1 DEF Typed
  <2>2. view[p].history \in 0..Len(rows) /\ view[p].scored \in 0..Len(rows)
    <3>1. view[p].history \in Nat /\ view[p].scored \in Nat
      BY <2>1 DEF Views
    <3> QED
      BY <2>1, <3>1
  <2> QED
    BY <1>1, <2>1, <2>2 DEF Typed, Views
<1>4. faults \in 0..MaxFaults
  BY <1>1, TrajectoryAssumption
<1> QED
  BY <1>1, <1>2, <1>3, <1>4 DEF TypeOK, Typed, RowTyped

-----------------------------------------------------------------------------
(* Escalation.                                                             *)

LEMMA TwoMembers ==
  ASSUME NEW S, IsFiniteSet(S), NEW x \in S, NEW y \in S, x # y
  PROVE  Cardinality(S) >= 2
<1>1. Cardinality(S) \in Nat
  BY FS_CardinalityType
<1>2. Cardinality(S) # 0
  BY FS_EmptySet
<1>3. Cardinality(S) # 1
  BY FS_Singleton
<1> QED
  BY <1>1, <1>2, <1>3

(* Who is an ancestor by the events known is one by all events.            *)
LEMMA AncestorsMore ==
  ASSUME NEW edges \in SUBSET Traces, NEW t
  PROVE  Ancestors(t, edges) \subseteq Ancestors(t, Traces)
<1> SUFFICES ASSUME NEW a \in Ancestors(t, edges), NEW S \in SUBSET Traces,
                    Parent(t) \in S, \A b \in S : ParentOf(b, Traces) \in S \union {NoParent}
             PROVE  a \in S
  BY DEF Ancestors
<1>1. \A b \in S : ParentOf(b, edges) \in S \union {NoParent}
  BY DEF ParentOf
<1> QED
  BY <1>1 DEF Ancestors

(* What an escalation of row i says of the turns it is measured over.      *)
Crosses(table, i) ==
  LET t == table[i].trace
      members == {table[k].trace : k \in ToSet(table[i].chain)}
  IN /\ Parent(t) # NoParent /\ session.kind[Parent(t)] = "llm"
     /\ members \subseteq Ancestors(t, Traces)
     /\ Cardinality(members) >= 2

(* A partition that read "llm" read it of the parent of its trace.         *)
KindRead ==
  \A p \in Partitions : view[p].kind = "llm" =>
    Parent(Trace(p)) \in Traces /\ session.kind[Parent(Trace(p))] = "llm"

CrossInv ==
  /\ TypeInv
  /\ KindRead
  /\ \A i \in 1..Len(rows) : rows[i].escalation => Crosses(rows, i)

LEMMA ChainCrosses ==
  ASSUME PastInv, KindRead, NEW p \in Partitions, AllRead(p),
         NEW score, NEW pick \in ScoreOf(view[p].scored),
         Escalates(view[p].kind, ScoresOf(AgentChain(Trace(p), view[p].edges, pick)), score)
  PROVE  LET t == Trace(p)
             members == {rows[k].trace : k \in ToSet(AgentChain(t, view[p].edges, pick))}
         IN /\ Parent(t) # NoParent /\ session.kind[Parent(t)] = "llm"
            /\ members \subseteq Ancestors(t, Traces)
            /\ Cardinality(members) >= 2
<1> DEFINE t == Trace(p)
           edges == view[p].edges
           n == view[p].scored
           chain == AgentChain(t, edges, pick)
           members == {rows[k].trace : k \in ToSet(chain)}
<1>1. session \in Sessions /\ view[p] \in Views
  BY DEF PastInv, Typed
<1>2. edges \in SUBSET Traces /\ n \in Nat
  BY <1>1 DEF Views
<1>3. view[p].kind = "llm" /\ Climbs(ScoresOf(chain), score)
  BY DEF Escalates
<1>4. Parent(t) \in Traces /\ Parent(t) # NoParent /\ session.kind[Parent(t)] = "llm"
  BY <1>1, <1>3, SessionIs DEF KindRead
<1>5. t \in Traces
  <2>1. Backlog(p) \in Seq(Traces)
    BY <1>1, SessionIs
  <2>2. next[p] \in 1..Len(Backlog(p))
    BY <2>1 DEF AllRead, InWork, PastInv, Typed
  <2> QED
    BY <2>1, <2>2 DEF Trace
<1>6. pick \in ScoreOf(n)
  OBVIOUS
<1> HIDE DEF t, edges, n
<1>7. chain \in Seq(1..n)
  BY <1>1, <1>2, <1>5, <1>6, AgentChainIs
<1>8. LET kin == IF Parent(t) = NoParent THEN {} ELSE Ancestors(t, edges)
          those == [k \in DOMAIN chain |-> rows[chain[k]].trace]
      IN /\ ToSet(those) \subseteq kin
         /\ Cardinality(kin) <= MaxDepth => kin \intersect Scored(n) \subseteq ToSet(those)
         /\ \A j, k \in DOMAIN those : j < k =>
              /\ those[j] # those[k]
              /\ those[j] \in Ancestors(those[k], edges)
  BY <1>1, <1>2, <1>5, <1>6, ChainIs
<1> HIDE DEF chain
<1>9. \A k \in DOMAIN chain : rows[chain[k]].trace \in Ancestors(t, edges)
  BY <1>4, <1>8 DEF ToSet
<1>10. \A j, k \in DOMAIN chain : j < k => rows[chain[j]].trace # rows[chain[k]].trace
  BY <1>8
<1>11. members \subseteq Ancestors(t, Traces)
  BY <1>2, <1>9, AncestorsMore DEF ToSet
<1>12. Len(chain) >= 2
  <2> DEFINE s == ScoresOf(chain)
             R == {rows[k].score : k \in 1..n}
  <2>1. s = [k \in 1..Len(chain) |-> rows[chain[k]].score] /\ Len(chain) \in Nat
    BY <1>7 DEF ScoresOf
  <2>2. s \in Seq(R)
    <3>1. \A k \in 1..Len(chain) : rows[chain[k]].score \in R
      <4> HIDE DEF s, members
      <4>1. \A k \in 1..Len(chain) : chain[k] \in 1..n
        BY <1>2, <1>7
      <4> QED
        BY <4>1
    <3> HIDE DEF R
    <3> QED
      BY <2>1, <3>1
  <2>3. Len(s) = Len(chain)
    BY <2>1
  <2>4. Len(Append(s, score)) >= 3
    BY <1>3 DEF Climbs
  <2>5. Len(Append(s, score)) = Len(s) + 1
    <3> HIDE DEF s, R
    <3>1. s \in Seq(R \union {score})
      BY <2>2
    <3> QED
      BY <3>1
  <2> HIDE DEF s
  <2> QED
    BY <2>1, <2>3, <2>4, <2>5
<1>13. 1 \in DOMAIN chain /\ 2 \in DOMAIN chain
  BY <1>7, <1>12
<1>14. Cardinality(members) >= 2
  <2>1. rows[chain[1]].trace \in members /\ rows[chain[2]].trace \in members
    BY <1>13 DEF ToSet
  <2>2. rows[chain[1]].trace # rows[chain[2]].trace
    BY <1>10, <1>13
  <2>3. IsFiniteSet(members)
    <3>1. IsFiniteSet(Traces)
      BY <1>1, TrajectoryAssumption DEF Traces
    <3>2. members \subseteq Traces
      BY <1>11 DEF Ancestors
    <3> QED
      BY <3>1, <3>2, FS_Subset
  <2> HIDE DEF members
  <2> QED
    BY <2>1, <2>2, <2>3, TwoMembers
<1> QED
  BY <1>4, <1>11, <1>14 DEF t, edges, chain

LEMMA CrossInit == Init => CrossInv
<1> SUFFICES ASSUME Init PROVE CrossInv
  OBVIOUS
<1>1. \A i \in 1..Len(rows) : FALSE
  <2>1. Len(rows) = 0
    BY DEF Init
  <2> QED
    BY <2>1
<1>2. \A p \in Partitions : view[p].kind = ""
  BY DEF Init, Fresh
<1> QED
  BY <1>1, <1>2, TypeInit DEF CrossInv, KindRead

(* A read, or a next trace, leaves KindRead true.                          *)
LEMMA KindStep ==
  ASSUME PastInv, KindRead, [Next]_vars
  PROVE  KindRead'
<1>1. /\ session \in Sessions /\ view \in [Partitions -> Views] /\ events \subseteq Traces
      /\ next \in [Partitions -> Nat]
  BY DEF PastInv, Typed
<1>2. session' = session
  BY DEF Next, vars, Ingest, ReadHistory, ReadParentKind, ReadEdges, ReadScores, Answered,
         ReadFails, Store, StoreFails, ScanFails, Proceed
<1> DEFINE Known(t) == Parent(t) \in Traces /\ session.kind[Parent(t)] = "llm"
<1>3. ASSUME NEW p \in Partitions, NEW w, view' = [view EXCEPT ![p] = w],
             \A q \in Partitions \ {p} : next'[q] = next[q],
             w.kind = "llm" => Known(Trace(p)) /\ next' = next
      PROVE  KindRead'
  <2> SUFFICES ASSUME NEW q \in Partitions, view'[q].kind = "llm"
               PROVE  Known(Backlog(q)[next'[q]])
    BY <1>2 DEF KindRead, Trace, Backlog, Traces, Parent
  <2>1. CASE q = p
    BY <1>1, <1>3, <2>1 DEF Trace
  <2>2. CASE q # p
    BY <1>1, <1>3, <2>2 DEF KindRead, Trace
  <2> QED
    BY <2>1, <2>2
<1>4. ASSUME NEW t, Ingest(t) \/ UNCHANGED vars PROVE KindRead'
  BY <1>4, <1>2 DEF Ingest, vars, KindRead, Trace, Backlog, Traces, Parent
<1>5. ASSUME NEW p \in Partitions, ReadHistory(p) \/ ReadEdges(p) \/ ReadScores(p) \/ ReadFails(p)
      PROVE  KindRead'
  <2>1. next' = next /\ \E w : view' = [view EXCEPT ![p] = w] /\ w.kind = view[p].kind
    BY <1>1, <1>5 DEF ReadHistory, ReadEdges, ReadScores, ReadFails, Answered, Views
  <2> QED
    BY <1>3, <2>1 DEF KindRead
<1>6. ASSUME NEW p \in Partitions, ReadParentKind(p) PROVE KindRead'
  <2> DEFINE kind == IF Parent(Trace(p)) \in events THEN session.kind[Parent(Trace(p))] ELSE ""
  <2> DEFINE seen == [view[p] EXCEPT !.kind = kind]
             w == [seen EXCEPT !.pending = @ \ {"kind"}]
  <2>1. next' = next /\ view' = [view EXCEPT ![p] = w]
    BY <1>6 DEF ReadParentKind, Answered
  <2>2. w.kind = kind
    <3>1. view[p] \in Views
      BY <1>1
    <3> HIDE DEF kind
    <3> QED
      BY <3>1 DEF Views
  <2>3. kind = "llm" => Known(Trace(p))
    BY <1>1
  <2> HIDE DEF kind, Known, w
  <2> QED
    BY <1>3, <2>1, <2>2, <2>3
<1>7. ASSUME NEW p \in Partitions, Store(p) \/ StoreFails(p) \/ ScanFails(p) PROVE KindRead'
  <2>1. /\ view' = [view EXCEPT ![p] = Fresh(p, next')]
        /\ next' = next \/ next' = [next EXCEPT ![p] = @ + 1]
    BY <1>7 DEF Store, StoreFails, ScanFails, Proceed, Committed
  <2>2. \A q \in Partitions \ {p} : next'[q] = next[q]
    BY <1>1, <2>1
  <2>3. Fresh(p, next').kind = ""
    BY DEF Fresh
  <2> QED
    BY <1>3, <2>1, <2>2, <2>3
<1> QED
  BY <1>4, <1>5, <1>6, <1>7 DEF Next

LEMMA CrossStep == CrossInv /\ [Next]_vars => CrossInv'
<1> SUFFICES ASSUME CrossInv, [Next]_vars PROVE CrossInv'
  OBVIOUS
<1>1. TypeInv /\ TypeInv' /\ PastInv /\ KindRead
  BY TypeStep DEF CrossInv, TypeInv
<1>2. /\ Len(rows) \in Nat /\ rows = [i \in 1..Len(rows) |-> rows[i]]
      /\ \A i \in 1..Len(rows) : ToSet(rows[i].chain) \subseteq 1..(i - 1)
  BY <1>1 DEF TypeInv, PastInv, Typed, RowTyped
<1>3. session' = session
  BY DEF Next, vars, Ingest, ReadHistory, ReadParentKind, ReadEdges, ReadScores, Answered,
         ReadFails, Store, StoreFails, ScanFails, Proceed
<1>4. KindRead'
  BY <1>1, KindStep
<1> DEFINE Over(r) ==
             LET members == {rows[k].trace : k \in ToSet(r.chain)}
             IN /\ Parent(r.trace) # NoParent /\ session.kind[Parent(r.trace)] = "llm"
                /\ members \subseteq Ancestors(r.trace, Traces)
                /\ Cardinality(members) >= 2
<1>5. \/ rows' = rows
      \/ \E r : /\ rows' = Append(rows, r)
                /\ ToSet(r.chain) \subseteq 1..Len(rows)
                /\ r.escalation => Over(r)
  <2>1. ASSUME NEW p \in Partitions, AllRead(p), Insert(p)
        PROVE  \E r : /\ rows' = Append(rows, r)
                      /\ ToSet(r.chain) \subseteq 1..Len(rows)
                      /\ r.escalation => Over(r)
    <3>1. PICK score \in session.scores, pick \in ScoreOf(view[p].scored) :
            rows' = Append(rows, Row(p, score, pick))
      BY <2>1 DEF Insert
    <3> DEFINE r == Row(p, score, pick)
    <3>2. RowTyped(r, Len(rows) + 1)
      BY <1>1, <2>1, RowIs
    <3>3. ToSet(r.chain) \subseteq 1..Len(rows)
      BY <1>2, <3>2 DEF RowTyped
    <3>4. /\ r.trace = Trace(p) /\ r.chain = AgentChain(Trace(p), view[p].edges, pick)
          /\ r.escalation =
               Escalates(view[p].kind, ScoresOf(AgentChain(Trace(p), view[p].edges, pick)), score)
      BY DEF Row
    <3>5. ASSUME r.escalation PROVE Over(r)
      BY <1>1, <2>1, <3>4, <3>5, ChainCrosses
    <3> QED
      BY <3>1, <3>3, <3>5
  <2>2. ASSUME NEW p \in Partitions, ScanFails(p), rows' # rows
        PROVE  \E r : /\ rows' = Append(rows, r)
                      /\ ToSet(r.chain) \subseteq 1..Len(rows)
                      /\ r.escalation => Over(r)
    <3>1. rows' = Append(rows, Marker(Trace(p)))
      BY <2>2 DEF ScanFails
    <3>2. ToSet(Marker(Trace(p)).chain) \subseteq 1..Len(rows) /\ ~Marker(Trace(p)).escalation
      BY DEF Marker, ToSet
    <3> QED
      BY <3>1, <3>2
  <2>3. ASSUME NEW p \in Partitions, Store(p) \/ StoreFails(p), rows' # rows
        PROVE  AllRead(p) /\ Insert(p)
    BY <2>3 DEF Store, StoreFails
  <2> QED
    BY <2>1, <2>2, <2>3 DEF Next, vars, Ingest, ReadHistory, ReadParentKind, ReadEdges,
       ReadScores, Answered, ReadFails
<1>6. ASSUME NEW i \in 1..Len(rows'), rows'[i].escalation PROVE Crosses(rows', i)
  <2>1. CASE rows' = rows
    BY <1>6, <2>1 DEF CrossInv
  <2>2. CASE \E r : /\ rows' = Append(rows, r)
                    /\ ToSet(r.chain) \subseteq 1..Len(rows)
                    /\ r.escalation => Over(r)
    <3>1. PICK r : /\ rows' = Append(rows, r)
                   /\ ToSet(r.chain) \subseteq 1..Len(rows)
                   /\ r.escalation => Over(r)
      BY <2>2
    <3> HIDE DEF Over
    <3>2. /\ Len(rows') = Len(rows) + 1 /\ rows'[Len(rows) + 1] = r
          /\ \A j \in 1..Len(rows) : rows'[j] = rows[j]
      BY <1>2, <3>1, AppendIs
    <3>3. CASE i = Len(rows) + 1
      <4>1. rows'[i] = r /\ Over(r)
        BY <1>6, <3>1, <3>2, <3>3
      <4>2. {rows'[k].trace : k \in ToSet(r.chain)} = {rows[k].trace : k \in ToSet(r.chain)}
        BY <3>1, <3>2
      <4> QED
        BY <4>1, <4>2 DEF Crosses, Over
    <3>4. CASE i # Len(rows) + 1
      <4>1. i \in 1..Len(rows)
        BY <1>2, <3>2, <3>4
      <4>2. rows'[i] = rows[i] /\ Crosses(rows, i)
        BY <1>6, <3>2, <4>1 DEF CrossInv
      <4>3. \A k \in ToSet(rows[i].chain) : rows'[k] = rows[k]
        <5>1. \A k \in 1..(i - 1) : k \in 1..Len(rows)
          BY <1>2, <4>1
        <5> QED
          BY <1>2, <3>2, <4>1, <5>1
      <4>4. {rows'[k].trace : k \in ToSet(rows[i].chain)} = {rows[k].trace : k \in ToSet(rows[i].chain)}
        BY <4>3
      <4> QED
        BY <4>2, <4>4 DEF Crosses
    <3> QED
      BY <3>3, <3>4
  <2> QED
    BY <1>5, <2>1, <2>2
<1>7. ASSUME NEW i \in 1..Len(rows'), rows'[i].escalation PROVE Crosses(rows, i)'
  BY <1>3, <1>6, <1>7 DEF Crosses, Parent, Traces, Ancestors, ParentOf
<1> QED
  BY <1>1, <1>4, <1>7 DEF CrossInv

-----------------------------------------------------------------------------
(* Sums.                                                                   *)

(* s[k] is the sum of the first k of the n numbers f.                      *)
Accumulates(s, f, n) ==
  /\ s \in [0..n -> Int]
  /\ s[0] = 0
  /\ \A k \in 1..n : s[k] = s[k - 1] + f[k]

LEMMA Ascends ==
  ASSUME NEW n \in Nat, NEW g \in [0..n -> Int], \A k \in 1..n : g[k - 1] <= g[k]
  PROVE  \A k \in 0..n : g[0] <= g[k]
<1> DEFINE Bad == {k \in 0..n : ~(g[0] <= g[k])}
<1> SUFFICES ASSUME Bad # {} PROVE FALSE
  OBVIOUS
<1>1. PICK m \in Bad : \A y \in Bad : m <= y
  <2>1. Bad \in SUBSET Nat
    OBVIOUS
  <2> QED
    BY <2>1, LeastOf
<1>2. g[0] \in Int
  OBVIOUS
<1>3. m \in 1..n /\ m - 1 \in 0..n
  BY <1>1, <1>2
<1>4. g[0] <= g[m - 1]
  BY <1>1, <1>3
<1>5. g[m - 1] \in Int /\ g[m] \in Int /\ g[m - 1] <= g[m]
  BY <1>3
<1> QED
  BY <1>1, <1>2, <1>4, <1>5

(* What starts alike and changes alike stays alike.                        *)
LEMMA SameSteps ==
  ASSUME NEW n \in Nat, NEW g \in [0..n -> Int], NEW h \in [0..n -> Int], g[0] = h[0],
         \A k \in 1..n : g[k] - g[k - 1] = h[k] - h[k - 1]
  PROVE  \A k \in 0..n : g[k] = h[k]
<1> DEFINE up == [k \in 0..n |-> g[k] - h[k]]
           down == [k \in 0..n |-> h[k] - g[k]]
<1>1. \A k \in 1..n : k - 1 \in 0..n /\ k \in 0..n
  OBVIOUS
<1>2. \A k \in 0..n : g[k] \in Int /\ h[k] \in Int
  OBVIOUS
<1>3. /\ up \in [0..n -> Int] /\ down \in [0..n -> Int]
      /\ \A k \in 0..n : up[k] = g[k] - h[k] /\ down[k] = h[k] - g[k]
  BY <1>2
<1> HIDE DEF up, down
<1>4. ASSUME NEW k \in 1..n PROVE up[k - 1] <= up[k] /\ down[k - 1] <= down[k]
  <2>1. /\ up[k] = g[k] - h[k] /\ down[k] = h[k] - g[k]
        /\ up[k - 1] = g[k - 1] - h[k - 1] /\ down[k - 1] = h[k - 1] - g[k - 1]
        /\ g[k] \in Int /\ h[k] \in Int /\ g[k - 1] \in Int /\ h[k - 1] \in Int
    BY <1>1, <1>2, <1>3
  <2>2. g[k] - g[k - 1] = h[k] - h[k - 1]
    OBVIOUS
  <2> QED
    BY <2>1, <2>2
<1>5. \A k \in 0..n : up[0] <= up[k] /\ down[0] <= down[k]
  BY <1>3, <1>4, Ascends
<1>6. 0 \in 0..n
  OBVIOUS
<1> QED
  BY <1>2, <1>3, <1>5, <1>6

LEMMA TotalIs ==
  ASSUME NEW n \in Nat, NEW f \in [1..n -> Int]
  PROVE  \E s : Accumulates(s, f, n) /\ Total(f) = s[n]
<1> DEFINE Runs(s, m) == /\ s \in [0..m -> Int] /\ s[0] = 0
                         /\ \A k \in 1..m : s[k] = s[k - 1] + f[k]
           Stuck == {m \in 0..n : ~\E s : Runs(s, m)}
<1>1. Runs([k \in 0..0 |-> 0], 0)
  OBVIOUS
<1>2. ASSUME NEW m \in 1..n, NEW s, Runs(s, m - 1)
      PROVE  \E r : Runs(r, m)
  <2> DEFINE r == [k \in 0..m |-> IF k = m THEN s[m - 1] + f[m] ELSE s[k]]
  <2>1. s[m - 1] \in Int /\ f[m] \in Int /\ \A k \in 0..(m - 1) : s[k] \in Int /\ k \in 0..m /\ k # m
    BY <1>2
  <2>2. r \in [0..m -> Int]
    BY <2>1
  <2>3. r[m] = s[m - 1] + f[m] /\ \A k \in 0..(m - 1) : r[k] = s[k]
    BY <2>1
  <2> HIDE DEF r
  <2>4. r[0] = 0
    BY <1>2, <2>3
  <2>5. ASSUME NEW k \in 1..m PROVE r[k] = r[k - 1] + f[k]
    <3>1. k - 1 \in 0..(m - 1)
      OBVIOUS
    <3>2. CASE k = m
      BY <2>3, <3>1, <3>2
    <3>3. CASE k # m
      <4>1. k \in 1..(m - 1) /\ k \in 0..(m - 1)
        BY <3>3
      <4> QED
        BY <1>2, <2>3, <3>1, <4>1
    <3> QED
      BY <3>2, <3>3
  <2>6. Runs(r, m)
    BY <2>2, <2>4, <2>5
  <2> HIDE DEF Runs
  <2> QED
    BY <2>6
<1>3. \E s : Runs(s, n)
  <2> HIDE DEF Runs
  <2> SUFFICES ASSUME Stuck # {} PROVE FALSE
    <3>1. n \in 0..n
      OBVIOUS
    <3> QED
      BY <3>1
  <2>1. PICK m \in Stuck : \A y \in Stuck : m <= y
    <3>1. Stuck \in SUBSET Nat
      OBVIOUS
    <3> QED
      BY <3>1, LeastOf
  <2>2. m \in 1..n /\ m - 1 \in 0..n /\ ~(m <= m - 1)
    BY <1>1, <2>1
  <2> QED
    BY <1>2, <2>1, <2>2
<1> DEFINE Step(s, k) == IF k = 0 THEN 0 ELSE s[k - 1] + f[k]
           Fits(s) == s = [k \in 0..n |-> Step(s, k)]
           sum == CHOOSE s : Fits(s)
<1>4. ASSUME NEW s, Runs(s, n) PROVE Fits(s)
  <2>1. \A k \in 0..n : k = 0 \/ k \in 1..n
    OBVIOUS
  <2>2. \A k \in 0..n : s[k] = Step(s, k)
    BY <1>4, <2>1
  <2>3. s = [k \in 0..n |-> s[k]]
    BY <1>4
  <2> HIDE DEF Step
  <2> QED
    BY <2>2, <2>3
<1>5. Fits(sum)
  <2> HIDE DEF Fits, Runs
  <2> QED
    BY <1>3, <1>4
<1>6. Len(f) = n
  OBVIOUS
<1>7. Total(f) = sum[n]
  BY <1>6 DEF Total
<1> HIDE DEF sum
<1>8. /\ 0 \in 0..n /\ sum[0] = 0
      /\ \A k \in 1..n : k - 1 \in 0..n /\ sum[k] = sum[k - 1] + f[k]
  <2>1. \A k \in 0..n : sum[k] = Step(sum, k)
    BY <1>5
  <2>2. 0 \in 0..n /\ \A k \in 1..n : k \in 0..n /\ k - 1 \in 0..n /\ k # 0
    OBVIOUS
  <2> QED
    BY <2>1, <2>2
<1>9. \A k \in 0..n : sum[k] \in Int
  <2> DEFINE Bad == {k \in 0..n : sum[k] \notin Int}
  <2> SUFFICES ASSUME Bad # {} PROVE FALSE
    OBVIOUS
  <2>1. PICK m \in Bad : \A y \in Bad : m <= y
    <3>1. Bad \in SUBSET Nat
      OBVIOUS
    <3> QED
      BY <3>1, LeastOf
  <2>2. m # 0
    BY <1>8, <2>1
  <2>3. m - 1 \in 0..n /\ ~(m <= m - 1) /\ m \in 1..n
    BY <2>1, <2>2
  <2>4. sum[m - 1] \in Int /\ f[m] \in Int
    BY <2>1, <2>3
  <2>5. sum[m] = sum[m - 1] + f[m]
    BY <1>8, <2>3
  <2>6. sum[m] \in Int
    BY <2>4, <2>5
  <2> QED
    BY <2>1, <2>6
<1>10. sum \in [0..n -> Int]
  <2>1. sum = [k \in 0..n |-> Step(sum, k)]
    BY <1>5
  <2>2. \A k \in 0..n : Step(sum, k) \in Int
    <3>1. \A k \in 0..n : sum[k] = Step(sum, k)
      BY <2>1
    <3> QED
      BY <1>9, <3>1
  <2> HIDE DEF Step
  <2> QED
    BY <2>1, <2>2
<1>11. Accumulates(sum, f, n)
  BY <1>8, <1>10 DEF Accumulates
<1> QED
  BY <1>7, <1>11

LEMMA TotalBy ==
  ASSUME NEW n \in Nat, NEW f \in [1..n -> Int], NEW g, Accumulates(g, f, n)
  PROVE  Total(f) = g[n]
<1>1. PICK s : Accumulates(s, f, n) /\ Total(f) = s[n]
  BY TotalIs
<1>2. \A k \in 1..n : k - 1 \in 0..n /\ k \in 0..n /\ f[k] \in Int
  OBVIOUS
<1>3. \A k \in 0..n : g[k] \in Int /\ s[k] \in Int
  BY <1>1 DEF Accumulates
<1>4. ASSUME NEW k \in 1..n PROVE g[k] - g[k - 1] = s[k] - s[k - 1]
  <2>1. g[k] = g[k - 1] + f[k] /\ s[k] = s[k - 1] + f[k]
    BY <1>1 DEF Accumulates
  <2>2. g[k - 1] \in Int /\ s[k - 1] \in Int /\ f[k] \in Int
    BY <1>2, <1>3
  <2> QED
    BY <2>1, <2>2
<1>5. g \in [0..n -> Int] /\ s \in [0..n -> Int] /\ g[0] = s[0] /\ n \in 0..n
  BY <1>1 DEF Accumulates
<1>6. \A k \in 0..n : g[k] = s[k]
  BY <1>4, <1>5, SameSteps
<1> QED
  BY <1>1, <1>5, <1>6

(* What is summed for the slope: the turns, the values and their products. *)
Sums(K, Y, A, ys, n) ==
  /\ Accumulates(K, [i \in 1..n |-> i - 1], n)
  /\ Accumulates(Y, ys, n)
  /\ Accumulates(A, [i \in 1..n |-> (i - 1) * ys[i]], n)

LEMMA SumsExist ==
  ASSUME NEW n \in Nat, NEW ys \in [1..n -> Int]
  PROVE  \E K, Y, A : Sums(K, Y, A, ys, n)
<1> DEFINE xs == [i \in 1..n |-> i - 1]
           zs == [i \in 1..n |-> (i - 1) * ys[i]]
<1>1. \A i \in 1..n : i - 1 \in Int /\ (i - 1) * ys[i] \in Int
  OBVIOUS
<1>2. xs \in [1..n -> Int] /\ zs \in [1..n -> Int]
  BY <1>1
<1>3. PICK K : Accumulates(K, xs, n)
  BY <1>2, TotalIs
<1>4. PICK Y : Accumulates(Y, ys, n)
  BY TotalIs
<1>5. PICK A : Accumulates(A, zs, n)
  BY <1>2, TotalIs
<1> QED
  BY <1>3, <1>4, <1>5 DEF Sums

(* The weighted rises to the k-th value, and to all, in terms of the sums. *)
RiseTo(ys, k) == Total([j \in 1..(k - 1) |-> (k - j) * (ys[k] - ys[j])])

RiseBySums(ys, K, Y, A, k) ==
  (k - 1) * ((k - 1) * ys[k]) - ys[k] * K[k - 1] - (k - 1) * Y[k - 1] + A[k - 1]

LEMMA RisesTo ==
  ASSUME NEW n \in Nat, NEW ys \in [1..n -> Int], NEW K, NEW Y, NEW A, Sums(K, Y, A, ys, n),
         NEW k \in 1..n
  PROVE  RiseTo(ys, k) = RiseBySums(ys, K, Y, A, k)
<1> DEFINE f == [j \in 1..(k - 1) |-> (k - j) * (ys[k] - ys[j])]
           g == [j \in 0..(k - 1) |->
                  (k - 1) * (j * ys[k]) - ys[k] * K[j] - (k - 1) * Y[j] + A[j]]
<1>0. /\ K[0] = 0 /\ Y[0] = 0 /\ A[0] = 0
      /\ \A i \in 0..n : K[i] \in Int /\ Y[i] \in Int /\ A[i] \in Int
      /\ \A i \in 1..n : /\ K[i] = K[i - 1] + (i - 1)
                         /\ Y[i] = Y[i - 1] + ys[i]
                         /\ A[i] = A[i - 1] + (i - 1) * ys[i]
  <2> HIDE DEF f, g
  <2> QED
    BY DEF Sums, Accumulates
<1>1. k - 1 \in Nat /\ ys[k] \in Int /\ k \in Int
  OBVIOUS
<1>2. \A j \in 1..(k - 1) : j \in 1..n /\ ys[j] \in Int
  OBVIOUS
<1>3. \A j \in 0..(k - 1) : j \in 0..n /\ K[j] \in Int /\ Y[j] \in Int /\ A[j] \in Int
  <2>1. \A j \in 0..(k - 1) : j \in 0..n
    OBVIOUS
  <2> QED
    BY <1>0, <2>1
<1>4. f \in [1..(k - 1) -> Int]
  <2>1. \A j \in 1..(k - 1) : (k - j) * (ys[k] - ys[j]) \in Int
    BY <1>1, <1>2
  <2> QED
    BY <2>1
<1>5. g \in [0..(k - 1) -> Int]
  <2>1. \A j \in 0..(k - 1) :
          (k - 1) * (j * ys[k]) - ys[k] * K[j] - (k - 1) * Y[j] + A[j] \in Int
    BY <1>1, <1>3
  <2> QED
    BY <2>1
<1>6. g[0] = 0
  <2>1. g[0] = (k - 1) * (0 * ys[k]) - ys[k] * K[0] - (k - 1) * Y[0] + A[0]
    OBVIOUS
  <2>2. K[0] = 0 /\ Y[0] = 0 /\ A[0] = 0
    BY <1>0
  <2> QED
    BY <1>1, <2>1, <2>2
<1>7. ASSUME NEW j \in 1..(k - 1) PROVE g[j] = g[j - 1] + f[j]
  <2>1. j \in 0..(k - 1) /\ j - 1 \in 0..(k - 1) /\ j \in 1..n
    OBVIOUS
  <2>2. /\ g[j] = (k - 1) * (j * ys[k]) - ys[k] * K[j] - (k - 1) * Y[j] + A[j]
        /\ g[j - 1] = (k - 1) * ((j - 1) * ys[k]) - ys[k] * K[j - 1] - (k - 1) * Y[j - 1] + A[j - 1]
        /\ f[j] = (k - j) * (ys[k] - ys[j])
    BY <2>1
  <2>3. /\ K[j] = K[j - 1] + (j - 1)
        /\ Y[j] = Y[j - 1] + ys[j]
        /\ A[j] = A[j - 1] + (j - 1) * ys[j]
    BY <1>0, <2>1
  <2>4. K[j - 1] \in Int /\ Y[j - 1] \in Int /\ A[j - 1] \in Int /\ ys[j] \in Int
    BY <1>2, <1>3, <2>1
  <2> DEFINE K0 == K[j - 1]
             Y0 == Y[j - 1]
             A0 == A[j - 1]
             y == ys[k]
             z == ys[j]
  <2>5. /\ K0 \in Int /\ Y0 \in Int /\ A0 \in Int /\ y \in Int /\ z \in Int
        /\ k \in Int /\ j \in Int
    BY <1>1, <2>4
  <2>6. /\ g[j] = (k - 1) * (j * y) - y * (K0 + (j - 1)) - (k - 1) * (Y0 + z) + (A0 + (j - 1) * z)
        /\ g[j - 1] = (k - 1) * ((j - 1) * y) - y * K0 - (k - 1) * Y0 + A0
        /\ f[j] = (k - j) * (y - z)
    <3> HIDE DEF f, g
    <3> QED
      BY <2>2, <2>3
  <2> HIDE DEF f, g, K0, Y0, A0, y, z
  <2> QED
    BY <2>5, <2>6
<1>8. Accumulates(g, f, k - 1)
  BY <1>5, <1>6, <1>7 DEF Accumulates
<1>9. g[k - 1] = (k - 1) * ((k - 1) * ys[k]) - ys[k] * K[k - 1] - (k - 1) * Y[k - 1] + A[k - 1]
  <2>1. k - 1 \in 0..(k - 1)
    OBVIOUS
  <2> QED
    BY <2>1
<1> HIDE DEF f, g
<1>10. Total(f) = g[k - 1]
  BY <1>1, <1>4, <1>8, TotalBy
<1> QED
  BY <1>9, <1>10 DEF f, RiseTo, RiseBySums

LEMMA RiseIs ==
  ASSUME NEW n \in Nat, NEW ys \in [1..n -> Int], NEW K, NEW Y, NEW A, Sums(K, Y, A, ys, n)
  PROVE  Rise(ys) = n * A[n] - K[n] * Y[n]
<1> DEFINE f == [k \in 1..n |-> Total([j \in 1..(k - 1) |-> (k - j) * (ys[k] - ys[j])])]
           g == [k \in 0..n |-> k * A[k] - K[k] * Y[k]]
<1>1. /\ K[0] = 0 /\ Y[0] = 0 /\ A[0] = 0
      /\ \A k \in 0..n : K[k] \in Int /\ Y[k] \in Int /\ A[k] \in Int
      /\ \A i \in 1..n : /\ K[i] = K[i - 1] + (i - 1)
                         /\ Y[i] = Y[i - 1] + ys[i]
                         /\ A[i] = A[i - 1] + (i - 1) * ys[i]
  <2> HIDE DEF f, g
  <2> QED
    BY DEF Sums, Accumulates
<1>2. \A k \in 1..n : k \in 0..n /\ k - 1 \in 0..n /\ ys[k] \in Int /\ k \in Int
  OBVIOUS
<1>3. ASSUME NEW k \in 1..n
      PROVE  f[k] = (k - 1) * ((k - 1) * ys[k]) - ys[k] * K[k - 1] - (k - 1) * Y[k - 1] + A[k - 1]
  <2>1. f[k] = RiseTo(ys, k)
    BY DEF RiseTo
  <2>2. RiseTo(ys, k) = RiseBySums(ys, K, Y, A, k)
    <3> HIDE DEF f, g
    <3> QED
      BY RisesTo
  <2> HIDE DEF f, g
  <2> QED
    BY <2>1, <2>2 DEF RiseBySums
<1>4. f \in [1..n -> Int]
  <2>1. f = [k \in 1..n |-> f[k]]
    OBVIOUS
  <2> HIDE DEF f
  <2>2. ASSUME NEW k \in 1..n PROVE f[k] \in Int
    <3>1. K[k - 1] \in Int /\ Y[k - 1] \in Int /\ A[k - 1] \in Int /\ ys[k] \in Int /\ k \in Int
      BY <1>1, <1>2
    <3>2. f[k] = (k - 1) * ((k - 1) * ys[k]) - ys[k] * K[k - 1] - (k - 1) * Y[k - 1] + A[k - 1]
      BY <1>3
    <3> QED
      BY <3>1, <3>2
  <2> QED
    BY <2>1, <2>2
<1>5. g \in [0..n -> Int]
  <2>1. \A k \in 0..n : k * A[k] - K[k] * Y[k] \in Int
    BY <1>1
  <2> QED
    BY <2>1
<1>6. g[0] = 0 /\ g[n] = n * A[n] - K[n] * Y[n]
  <2>1. 0 \in 0..n /\ n \in 0..n
    OBVIOUS
  <2>2. g[0] = 0 * A[0] - K[0] * Y[0] /\ g[n] = n * A[n] - K[n] * Y[n]
    BY <2>1
  <2> QED
    BY <1>1, <2>2
<1>7. ASSUME NEW k \in 1..n PROVE g[k] = g[k - 1] + f[k]
  <2>1. g[k] = k * A[k] - K[k] * Y[k] /\ g[k - 1] = (k - 1) * A[k - 1] - K[k - 1] * Y[k - 1]
    BY <1>2
  <2>2. /\ K[k] = K[k - 1] + (k - 1)
        /\ Y[k] = Y[k - 1] + ys[k]
        /\ A[k] = A[k - 1] + (k - 1) * ys[k]
    BY <1>1
  <2>3. f[k] = (k - 1) * ((k - 1) * ys[k]) - ys[k] * K[k - 1] - (k - 1) * Y[k - 1] + A[k - 1]
    BY <1>3
  <2>4. k \in Int /\ K[k - 1] \in Int /\ Y[k - 1] \in Int /\ A[k - 1] \in Int /\ ys[k] \in Int
    BY <1>1, <1>2
  <2> DEFINE K0 == K[k - 1]
             Y0 == Y[k - 1]
             A0 == A[k - 1]
             y == ys[k]
  <2>5. K0 \in Int /\ Y0 \in Int /\ A0 \in Int /\ y \in Int /\ k \in Int
    BY <2>4
  <2>6. /\ g[k] = k * (A0 + (k - 1) * y) - (K0 + (k - 1)) * (Y0 + y)
        /\ g[k - 1] = (k - 1) * A0 - K0 * Y0
        /\ f[k] = (k - 1) * ((k - 1) * y) - y * K0 - (k - 1) * Y0 + A0
    <3> HIDE DEF f, g
    <3> QED
      BY <2>1, <2>2, <2>3
  <2> HIDE DEF f, g, K0, Y0, A0, y
  <2> QED
    BY <2>5, <2>6
<1> HIDE DEF f, g
<1>8. Accumulates(g, f, n)
  BY <1>5, <1>6, <1>7 DEF Accumulates
<1>9. Total(f) = g[n]
  BY <1>4, <1>8, TotalBy
<1>10. Rise(ys) = Total(f)
  <2>1. Len(ys) = n
    OBVIOUS
  <2> QED
    BY <2>1 DEF Rise, f
<1> QED
  BY <1>6, <1>9, <1>10

LEMMA DeviationIs ==
  ASSUME NEW n \in Nat, NEW ys \in [1..n -> Int], NEW Y, Accumulates(Y, ys, n)
  PROVE  /\ DOMAIN Deviation(ys) = 1..n
         /\ \A i \in 1..n : Deviation(ys)[i] = n * ys[i] - Y[n]
<1>1. Total(ys) = Y[n]
  BY TotalBy
<1>2. Len(ys) = n /\ DOMAIN ys = 1..n
  OBVIOUS
<1> QED
  BY <1>1, <1>2 DEF Deviation

(* The products of the deviations, in terms of the sums.                   *)
Covariance(ys) ==
  LET n == Len(ys)
      dx == Deviation([i \in 1..n |-> i - 1])
      dy == Deviation(ys)
  IN Total([i \in 1..n |-> dx[i] * dy[i]])

LEMMA CovarianceIs ==
  ASSUME NEW n \in Nat, NEW ys \in [1..n -> Int], NEW K, NEW Y, NEW A, Sums(K, Y, A, ys, n)
  PROVE  Covariance(ys) = n * (n * A[n] - K[n] * Y[n])
<1> DEFINE xs == [i \in 1..n |-> i - 1]
           dx == Deviation(xs)
           dy == Deviation(ys)
           f == [i \in 1..n |-> dx[i] * dy[i]]
           T == K[n]
           U == Y[n]
           g == [k \in 0..n |-> n * (n * A[k]) - n * (U * K[k]) - n * (T * Y[k]) + k * (T * U)]
<1>1. /\ K[0] = 0 /\ Y[0] = 0 /\ A[0] = 0
      /\ \A k \in 0..n : K[k] \in Int /\ Y[k] \in Int /\ A[k] \in Int
      /\ \A i \in 1..n : /\ K[i] = K[i - 1] + (i - 1)
                         /\ Y[i] = Y[i - 1] + ys[i]
                         /\ A[i] = A[i - 1] + (i - 1) * ys[i]
  <2> HIDE DEF f, g
  <2> QED
    BY DEF Sums, Accumulates
<1>2. \A k \in 1..n : k \in 0..n /\ k - 1 \in 0..n /\ ys[k] \in Int /\ k \in Int
  OBVIOUS
<1>3. n \in 0..n /\ 0 \in 0..n /\ T \in Int /\ U \in Int /\ n \in Int
  BY <1>1
<1>4. ASSUME NEW i \in 1..n PROVE dx[i] = n * (i - 1) - T /\ dy[i] = n * ys[i] - U
  <2>1. xs \in [1..n -> Int] /\ xs[i] = i - 1
    OBVIOUS
  <2>2. Accumulates(K, xs, n) /\ Accumulates(Y, ys, n)
    BY DEF Sums
  <2> HIDE DEF xs, f, g
  <2>3. \A k \in 1..n : dx[k] = n * xs[k] - T
    BY <2>1, <2>2, DeviationIs
  <2>4. \A k \in 1..n : dy[k] = n * ys[k] - U
    BY <2>2, DeviationIs
  <2> HIDE DEF dx, dy, T, U
  <2> QED
    BY <2>1, <2>3, <2>4
<1> HIDE DEF dx, dy, T, U
<1>5. f \in [1..n -> Int]
  <2>1. ASSUME NEW i \in 1..n PROVE dx[i] * dy[i] \in Int
    <3>1. dx[i] \in Int /\ dy[i] \in Int
      BY <1>2, <1>3, <1>4
    <3> QED
      BY <3>1
  <2> QED
    BY <2>1
<1>6. g \in [0..n -> Int]
  <2>1. ASSUME NEW k \in 0..n
        PROVE  n * (n * A[k]) - n * (U * K[k]) - n * (T * Y[k]) + k * (T * U) \in Int
    <3>1. A[k] \in Int /\ K[k] \in Int /\ Y[k] \in Int /\ k \in Int
      BY <1>1
    <3>2. n * (n * A[k]) \in Int /\ n * (U * K[k]) \in Int /\ n * (T * Y[k]) \in Int /\ k * (T * U) \in Int
      BY <1>3, <3>1
    <3> QED
      BY <3>2
  <2> QED
    BY <2>1
<1>7. g[0] = 0
  <2>1. g[0] = n * (n * A[0]) - n * (U * K[0]) - n * (T * Y[0]) + 0 * (T * U)
    BY <1>3
  <2> HIDE DEF g
  <2> QED
    BY <1>1, <1>3, <2>1
<1>8. g[n] = n * (n * A[n] - T * U)
  <2>1. g[n] = n * (n * A[n]) - n * (U * K[n]) - n * (T * Y[n]) + n * (T * U)
    BY <1>3
  <2>2. K[n] = T /\ Y[n] = U
    BY DEF T, U
  <2> DEFINE A0 == A[n]
  <2>3. A0 \in Int /\ g[n] = n * (n * A0) - n * (U * T) - n * (T * U) + n * (T * U)
    <3> HIDE DEF g
    <3> QED
      BY <1>1, <1>3, <2>1, <2>2
  <2> HIDE DEF g, A0
  <2>4. g[n] = n * (n * A0 - T * U)
    BY <1>3, <2>3
  <2> QED
    BY <2>4 DEF A0
<1>9. ASSUME NEW k \in 1..n PROVE g[k] = g[k - 1] + f[k]
  <2>1. /\ g[k] = n * (n * A[k]) - n * (U * K[k]) - n * (T * Y[k]) + k * (T * U)
        /\ g[k - 1] = n * (n * A[k - 1]) - n * (U * K[k - 1]) - n * (T * Y[k - 1]) + (k - 1) * (T * U)
    BY <1>2
  <2>2. f[k] = (n * (k - 1) - T) * (n * ys[k] - U)
    <3>1. f[k] = dx[k] * dy[k]
      OBVIOUS
    <3> HIDE DEF f, g
    <3> QED
      BY <1>4, <3>1
  <2>3. /\ K[k] = K[k - 1] + (k - 1)
        /\ Y[k] = Y[k - 1] + ys[k]
        /\ A[k] = A[k - 1] + (k - 1) * ys[k]
    BY <1>1
  <2> DEFINE K0 == K[k - 1]
             Y0 == Y[k - 1]
             A0 == A[k - 1]
             y == ys[k]
  <2>4. K0 \in Int /\ Y0 \in Int /\ A0 \in Int /\ y \in Int /\ k \in Int
    BY <1>1, <1>2
  <2>5. /\ g[k] = n * (n * (A0 + (k - 1) * y)) - n * (U * (K0 + (k - 1))) - n * (T * (Y0 + y)) + k * (T * U)
        /\ g[k - 1] = n * (n * A0) - n * (U * K0) - n * (T * Y0) + (k - 1) * (T * U)
        /\ f[k] = (n * (k - 1) - T) * (n * y - U)
    <3> HIDE DEF f, g
    <3> QED
      BY <2>1, <2>2, <2>3
  <2> HIDE DEF f, g, K0, Y0, A0, y
  <2> QED
    BY <1>3, <2>4, <2>5
<1> HIDE DEF f, g
<1>10. Total(f) = g[n]
  <2>1. Accumulates(g, f, n)
    BY <1>6, <1>7, <1>9 DEF Accumulates
  <2> QED
    BY <1>5, <2>1, TotalBy
<1>11. Covariance(ys) = Total(f)
  <2>1. Len(ys) = n
    OBVIOUS
  <2> QED
    BY <2>1 DEF Covariance, f, dx, dy
<1> QED
  BY <1>8, <1>10, <1>11 DEF T, U

(* The sums over the turns themselves.                                     *)
LEMMA TurnSums ==
  ASSUME NEW n \in Nat, NEW K, NEW Q, Sums(K, K, Q, [i \in 1..n |-> i - 1], n)
  PROVE  /\ 2 * K[n] = n * (n - 1)
         /\ 6 * Q[n] = n * ((n - 1) * (2 * n - 1))
<1> DEFINE xs == [i \in 1..n |-> i - 1]
           g == [k \in 0..n |-> 2 * K[k]]
           h == [k \in 0..n |-> k * (k - 1)]
           p == [k \in 0..n |-> 6 * Q[k]]
           q == [k \in 0..n |-> k * ((k - 1) * (2 * k - 1))]
<1>1. /\ K[0] = 0 /\ Q[0] = 0
      /\ \A k \in 0..n : K[k] \in Int /\ Q[k] \in Int
      /\ \A i \in 1..n : K[i] = K[i - 1] + (i - 1) /\ Q[i] = Q[i - 1] + (i - 1) * xs[i]
  <2> HIDE DEF xs, g, h, p, q
  <2>1. Sums(K, K, Q, xs, n)
    BY DEF xs
  <2> QED
    BY <2>1 DEF Sums, Accumulates
<1>2. \A i \in 1..n : xs[i] = i - 1 /\ i \in 0..n /\ i - 1 \in 0..n /\ i \in Int
  OBVIOUS
<1> HIDE DEF xs
<1>3. g \in [0..n -> Int] /\ h \in [0..n -> Int] /\ p \in [0..n -> Int] /\ q \in [0..n -> Int]
  <2>1. \A k \in 0..n : /\ 2 * K[k] \in Int /\ k * (k - 1) \in Int
                        /\ 6 * Q[k] \in Int /\ k * ((k - 1) * (2 * k - 1)) \in Int
    BY <1>1
  <2> QED
    BY <2>1
<1>4. g[0] = h[0] /\ p[0] = q[0]
  <2>1. 0 \in 0..n
    OBVIOUS
  <2>2. /\ g[0] = 2 * K[0] /\ h[0] = 0 * (0 - 1)
        /\ p[0] = 6 * Q[0] /\ q[0] = 0 * ((0 - 1) * (2 * 0 - 1))
    BY <2>1
  <2> HIDE DEF g, h, p, q
  <2> QED
    BY <1>1, <2>2
<1>5. ASSUME NEW k \in 1..n
      PROVE  g[k] - g[k - 1] = h[k] - h[k - 1] /\ p[k] - p[k - 1] = q[k] - q[k - 1]
  <2>1. /\ g[k] = 2 * K[k] /\ g[k - 1] = 2 * K[k - 1]
        /\ h[k] = k * (k - 1) /\ h[k - 1] = (k - 1) * (k - 1 - 1)
        /\ p[k] = 6 * Q[k] /\ p[k - 1] = 6 * Q[k - 1]
        /\ q[k] = k * ((k - 1) * (2 * k - 1))
        /\ q[k - 1] = (k - 1) * ((k - 1 - 1) * (2 * (k - 1) - 1))
    BY <1>2
  <2> DEFINE K0 == K[k - 1]
             Q0 == Q[k - 1]
  <2>2. K0 \in Int /\ Q0 \in Int /\ k \in Int
    BY <1>1, <1>2
  <2>3. K[k] = K0 + (k - 1) /\ Q[k] = Q0 + (k - 1) * (k - 1)
    BY <1>1, <1>2
  <2>4. /\ g[k] = 2 * (K0 + (k - 1)) /\ g[k - 1] = 2 * K0
        /\ p[k] = 6 * (Q0 + (k - 1) * (k - 1)) /\ p[k - 1] = 6 * Q0
    <3> HIDE DEF g, h, p, q
    <3> QED
      BY <2>1, <2>3
  <2> HIDE DEF g, h, p, q, K0, Q0
  <2> QED
    BY <2>1, <2>2, <2>4
<1>6. n \in 0..n /\ g[n] = 2 * K[n] /\ h[n] = n * (n - 1) /\ p[n] = 6 * Q[n]
      /\ q[n] = n * ((n - 1) * (2 * n - 1))
  <2>1. n \in 0..n
    OBVIOUS
  <2> QED
    BY <2>1
<1> HIDE DEF g, h, p, q
<1>7. g[n] = h[n] /\ p[n] = q[n]
  BY <1>3, <1>4, <1>5, <1>6, SameSteps
<1> QED
  BY <1>6, <1>7

(* Numerator and denominator of the slope are the weighted rises, of the   *)
(* values and of the turns, each as many times as there are values.        *)
Turns(n) == [i \in 1..n |-> i - 1]

LEMMA TurnRise ==
  ASSUME NEW n \in Nat
  PROVE  \E K, Q : /\ Sums(K, K, Q, Turns(n), n)
                   /\ K[n] \in Int /\ Q[n] \in Int
                   /\ Covariance(Turns(n)) = n * (n * Q[n] - K[n] * K[n])
                   /\ Rise([k \in 1..n |-> k]) = n * Q[n] - K[n] * K[n]
<1> DEFINE xs == Turns(n)
           ks == [k \in 1..n |-> k]
<1>1. xs \in [1..n -> Int] /\ ks \in [1..n -> Int] /\ \A k \in 1..n : xs[k] = k - 1 /\ ks[k] = k
  <2>1. \A k \in 1..n : k - 1 \in Int
    OBVIOUS
  <2> QED
    BY <2>1 DEF Turns
<1> HIDE DEF xs, ks
<1>2. PICK K, Y, Q : Sums(K, Y, Q, xs, n)
  BY <1>1, SumsExist
<1>3. Accumulates(K, xs, n)
  BY <1>2 DEF Sums, xs, Turns
<1>4. Sums(K, K, Q, xs, n)
  BY <1>2, <1>3 DEF Sums
<1>5. Covariance(xs) = n * (n * Q[n] - K[n] * K[n])
  BY <1>1, <1>4, CovarianceIs
<1>6. /\ K[0] = 0 /\ Q[0] = 0
      /\ \A k \in 0..n : K[k] \in Int /\ Q[k] \in Int
      /\ \A i \in 1..n : K[i] = K[i - 1] + (i - 1) /\ Q[i] = Q[i - 1] + (i - 1) * xs[i]
  BY <1>4 DEF Sums, Accumulates
<1> DEFINE L == [k \in 0..n |-> K[k] + k]
           R == [k \in 0..n |-> Q[k] + K[k]]
<1>7. \A k \in 1..n : k \in 0..n /\ k - 1 \in 0..n /\ k \in Int
  OBVIOUS
<1>8. n \in 0..n /\ 0 \in 0..n /\ n \in Int
  OBVIOUS
<1>9. L \in [0..n -> Int] /\ R \in [0..n -> Int] /\ \A k \in 0..n : L[k] = K[k] + k /\ R[k] = Q[k] + K[k]
  <2>1. \A k \in 0..n : K[k] + k \in Int /\ Q[k] + K[k] \in Int
    BY <1>6
  <2> QED
    BY <2>1
<1> HIDE DEF L, R
<1>10. Sums(K, L, R, ks, n)
  <2>1. Accumulates(K, [i \in 1..n |-> i - 1], n)
    BY <1>3 DEF xs, Turns
  <2>2. Accumulates(L, ks, n)
    <3>1. L[0] = 0
      BY <1>6, <1>8, <1>9
    <3>2. ASSUME NEW k \in 1..n PROVE L[k] = L[k - 1] + ks[k]
      <4>1. /\ L[k] = K[k] + k /\ L[k - 1] = K[k - 1] + (k - 1) /\ ks[k] = k
            /\ K[k] = K[k - 1] + (k - 1) /\ K[k - 1] \in Int
        BY <1>1, <1>6, <1>7, <1>9
      <4> QED
        BY <4>1
    <3> QED
      BY <1>9, <3>1, <3>2 DEF Accumulates
  <2>3. Accumulates(R, [i \in 1..n |-> (i - 1) * ks[i]], n)
    <3> DEFINE f == [i \in 1..n |-> (i - 1) * ks[i]]
    <3>1. R[0] = 0
      BY <1>6, <1>8, <1>9
    <3>2. ASSUME NEW k \in 1..n PROVE R[k] = R[k - 1] + f[k]
      <4> DEFINE K0 == K[k - 1]
                 Q0 == Q[k - 1]
      <4>1. f[k] = (k - 1) * k
        BY <1>1
      <4>2. /\ R[k] = Q[k] + K[k] /\ R[k - 1] = Q0 + K0 /\ K0 \in Int /\ Q0 \in Int
            /\ K[k] = K0 + (k - 1) /\ Q[k] = Q0 + (k - 1) * (k - 1)
        BY <1>1, <1>6, <1>7, <1>9
      <4>3. R[k] = Q0 + (k - 1) * (k - 1) + (K0 + (k - 1))
        BY <4>2
      <4> HIDE DEF f, K0, Q0
      <4> QED
        BY <1>7, <4>1, <4>2, <4>3
    <3> HIDE DEF f
    <3>3. Accumulates(R, f, n)
      BY <1>9, <3>1, <3>2 DEF Accumulates
    <3> QED
      BY <3>3 DEF f
  <2> QED
    BY <2>1, <2>2, <2>3 DEF Sums
<1>11. Rise(ks) = n * R[n] - K[n] * L[n]
  BY <1>1, <1>10, RiseIs
<1> DEFINE T == K[n]
           S == Q[n]
<1>12. T \in Int /\ S \in Int /\ L[n] = T + n /\ R[n] = S + T
  BY <1>6, <1>8, <1>9
<1>13. Rise(ks) = n * (S + T) - T * (T + n)
  BY <1>11, <1>12
<1>14. Rise(ks) = n * S - T * T
  <2> HIDE DEF T, S
  <2>1. n * (S + T) - T * (T + n) = n * S - T * T
    BY <1>8, <1>12
  <2> QED
    BY <1>13, <2>1
<1> QED
  BY <1>4, <1>5, <1>12, <1>14 DEF xs, ks

(* _crescendo_slope >= 0.3 says of three values or more that they rise so. *)
LEMMA SlopeIsRise ==
  ASSUME NEW n \in Nat, NEW ys \in [1..n -> Int]
  PROVE  SlopeAtLeast(30, ys) /\ n >= 3 <=> Rises(ys)
<1>1. Len(ys) = n
  OBVIOUS
<1>2. PICK K, Y, A : Sums(K, Y, A, ys, n)
  BY SumsExist
<1>3. PICK L, Q : /\ L[n] \in Int /\ Q[n] \in Int
                  /\ Covariance(Turns(n)) = n * (n * Q[n] - L[n] * L[n])
                  /\ Rise([k \in 1..n |-> k]) = n * Q[n] - L[n] * L[n]
  BY TurnRise
<1> DEFINE rise == n * A[n] - K[n] * Y[n]
           spread == n * Q[n] - L[n] * L[n]
<1>4. Covariance(ys) = n * rise /\ Rise(ys) = rise
  BY <1>2, CovarianceIs, RiseIs
<1>5. rise \in Int /\ spread \in Int
  <2>1. A[n] \in Int /\ K[n] \in Int /\ Y[n] \in Int
    <3>1. n \in 0..n
      OBVIOUS
    <3> QED
      BY <1>2, <3>1 DEF Sums, Accumulates
  <2> DEFINE a == A[n]
             k == K[n]
             y == Y[n]
             q == Q[n]
             l == L[n]
  <2>2. /\ a \in Int /\ k \in Int /\ y \in Int /\ q \in Int /\ l \in Int
        /\ rise = n * a - k * y /\ spread = n * q - l * l
    BY <1>3, <2>1
  <2> HIDE DEF rise, spread, a, k, y, q, l
  <2> QED
    BY <2>2
<1>6. Covariance(Turns(n)) = n * spread /\ Rise([k \in 1..n |-> k]) = spread
  BY <1>3
<1> HIDE DEF rise, spread
<1>7. SlopeAtLeast(30, ys) <=> n >= 2 /\ Covariance(ys) >= 30 * Covariance(Turns(n))
  <2>1. Len(Turns(n)) = n
    BY DEF Turns
  <2> QED
    BY <1>1, <2>1 DEF SlopeAtLeast, Covariance, Turns
<1>8. Rises(ys) <=> n >= 3 /\ rise >= 30 * spread
  BY <1>1, <1>4, <1>6 DEF Rises
<1>9. n >= 3 => (n * rise >= 30 * (n * spread) <=> rise >= 30 * spread)
  <2> SUFFICES ASSUME n >= 3 PROVE n * rise >= 30 * (n * spread) <=> rise >= 30 * spread
    OBVIOUS
  <2> DEFINE d == rise - 30 * spread
  <2>1. d \in Int /\ n * rise - 30 * (n * spread) = n * d
    BY <1>5
  <2>2. n * d >= 0 <=> d >= 0
    <3> HIDE DEF d
    <3> QED
      BY <2>1
  <2>3. n * rise \in Int /\ n * spread \in Int
    BY <1>5
  <2> QED
    BY <1>5, <2>1, <2>2, <2>3
<1> QED
  BY <1>4, <1>6, <1>7, <1>8, <1>9

(* Of six values between 0 and 100, or more, the slope is below 30: with c *)
(* for twice a turn's distance from the middle one, its part of the        *)
(* numerator is bounded by a square in c (over), and those squares add up. *)
LEMMA TooLongToClimb ==
  ASSUME NEW n \in Nat, n >= 6, NEW ys \in [1..n -> 0..100]
  PROVE  ~Rises(ys)
<1>0. ys \in [1..n -> Int] /\ \A i \in 1..n : ys[i] \in 0..100
  <2>1. \A i \in 1..n : ys[i] \in 0..100
    OBVIOUS
  <2>2. \A i \in 1..n : ys[i] \in Int
    <3>1. \A x \in 0..100 : x \in Int
      OBVIOUS
    <3> QED
      BY <2>1, <3>1
  <2>3. ys = [i \in 1..n |-> ys[i]]
    OBVIOUS
  <2> QED
    BY <2>1, <2>2, <2>3
<1>1. PICK K, Q : /\ Sums(K, K, Q, Turns(n), n)
                  /\ K[n] \in Int /\ Q[n] \in Int
                  /\ Rise([k \in 1..n |-> k]) = n * Q[n] - K[n] * K[n]
  BY TurnRise
<1>2. PICK L, Y, A : Sums(L, Y, A, ys, n)
  BY <1>0, SumsExist
<1>3. Sums(K, Y, A, ys, n)
  BY <1>1, <1>2 DEF Sums
<1>4. 2 * K[n] = n * (n - 1) /\ 6 * Q[n] = n * ((n - 1) * (2 * n - 1))
  BY <1>1, TurnSums DEF Turns
<1> DEFINE xs == Turns(n)
           m == n - 1
           over == [k \in 0..n |->
                     150 * (2 * K[k] - m * k) + 25 * (4 * Q[k] - 4 * (m * K[k]) + m * (m * k))
                       + 225 * k - 6 * A[k] + 3 * (m * Y[k])]
<1>5. /\ K[0] = 0 /\ Q[0] = 0 /\ Y[0] = 0 /\ A[0] = 0
      /\ \A k \in 0..n : K[k] \in Int /\ Q[k] \in Int /\ Y[k] \in Int /\ A[k] \in Int
      /\ \A i \in 1..n : /\ K[i] = K[i - 1] + (i - 1)
                         /\ Q[i] = Q[i - 1] + (i - 1) * xs[i]
                         /\ Y[i] = Y[i - 1] + ys[i]
                         /\ A[i] = A[i - 1] + (i - 1) * ys[i]
  <2> HIDE DEF xs, over
  <2>1. Sums(K, K, Q, xs, n)
    BY <1>1 DEF xs
  <2> QED
    BY <1>3, <2>1 DEF Sums, Accumulates
<1>6. \A i \in 1..n : xs[i] = i - 1 /\ i \in 0..n /\ i - 1 \in 0..n /\ i \in Int
  BY DEF Turns
<1> HIDE DEF xs
<1>7. m \in Int /\ n \in Int /\ n \in 0..n /\ 0 \in 0..n
  OBVIOUS
<1> HIDE DEF m
<1>8. over \in [0..n -> Int]
  <2>1. ASSUME NEW k \in 0..n
        PROVE  150 * (2 * K[k] - m * k) + 25 * (4 * Q[k] - 4 * (m * K[k]) + m * (m * k))
                       + 225 * k - 6 * A[k] + 3 * (m * Y[k]) \in Int
    <3> DEFINE a == K[k]
               b == Q[k]
               c == A[k]
               d == Y[k]
    <3>1. a \in Int /\ b \in Int /\ c \in Int /\ d \in Int /\ k \in Int
      BY <1>5
    <3> HIDE DEF over, a, b, c, d
    <3>2. 150 * (2 * a - m * k) + 25 * (4 * b - 4 * (m * a) + m * (m * k))
                       + 225 * k - 6 * c + 3 * (m * d) \in Int
      BY <1>7, <3>1
    <3> QED
      BY <3>2 DEF a, b, c, d
  <2> QED
    BY <2>1
<1>9. ASSUME NEW k \in 1..n PROVE over[k - 1] <= over[k]
  <2> DEFINE K0 == K[k - 1]
             Q0 == Q[k - 1]
             Y0 == Y[k - 1]
             A0 == A[k - 1]
             y == ys[k]
             j == k - 1
  <2>1. /\ K0 \in Int /\ Q0 \in Int /\ Y0 \in Int /\ A0 \in Int
        /\ y \in 0..100 /\ j \in Int /\ k = j + 1
    <3> HIDE DEF over
    <3>1. k - 1 \in 0..n /\ k \in Int
      BY <1>6
    <3>2. K0 \in Int /\ Q0 \in Int /\ Y0 \in Int /\ A0 \in Int
      BY <1>5, <3>1
    <3> QED
      BY <1>0, <3>1, <3>2
  <2>2. /\ over[k] = 150 * (2 * K[k] - m * k) + 25 * (4 * Q[k] - 4 * (m * K[k]) + m * (m * k))
                       + 225 * k - 6 * A[k] + 3 * (m * Y[k])
        /\ over[k - 1] = 150 * (2 * K0 - m * j) + 25 * (4 * Q0 - 4 * (m * K0) + m * (m * j))
                       + 225 * j - 6 * A0 + 3 * (m * Y0)
    BY <1>6
  <2> HIDE DEF over
  <2>3. K[k] = K0 + j /\ Q[k] = Q0 + j * j /\ Y[k] = Y0 + y /\ A[k] = A0 + j * y
    BY <1>5, <1>6
  <2>4. over[k] = 150 * (2 * (K0 + j) - m * (j + 1))
                    + 25 * (4 * (Q0 + j * j) - 4 * (m * (K0 + j)) + m * (m * (j + 1)))
                    + 225 * (j + 1) - 6 * (A0 + j * y) + 3 * (m * (Y0 + y))
    BY <2>1, <2>2, <2>3
  <2> HIDE DEF K0, Q0, Y0, A0, y, j
  <2> DEFINE c == 2 * j - m
  <2>5. c \in Int /\ over[k] - over[k - 1] = 150 * c + 25 * (c * c) + 225 - 3 * (c * y)
    BY <1>7, <2>1, <2>2, <2>4
  <2>6. 150 * c + 25 * (c * c) + 225 - 3 * (c * y) >= 0
    <3> HIDE DEF c
    <3> QED
      BY <2>1, <2>5
  <2>7. over[k] \in Int /\ over[k - 1] \in Int
    BY <1>6, <1>8
  <2> HIDE DEF c
  <2> QED
    BY <2>1, <2>5, <2>6, <2>7
<1>10. over[n] >= over[0]
  <2> HIDE DEF over
  <2> QED
    BY <1>7, <1>8, <1>9, Ascends
<1> DEFINE T == K[n]
           S == Q[n]
           U == Y[n]
           B == A[n]
<1>11. /\ over[0] = 0
       /\ over[n] = 150 * (2 * T - m * n) + 25 * (4 * S - 4 * (m * T) + m * (m * n))
                       + 225 * n - 6 * B + 3 * (m * U)
  <2>1. /\ over[0] = 150 * (2 * K[0] - m * 0) + 25 * (4 * Q[0] - 4 * (m * K[0]) + m * (m * 0))
                       + 225 * 0 - 6 * A[0] + 3 * (m * Y[0])
        /\ over[n] = 150 * (2 * T - m * n) + 25 * (4 * S - 4 * (m * T) + m * (m * n))
                       + 225 * n - 6 * B + 3 * (m * U)
    BY <1>7
  <2> HIDE DEF over
  <2> QED
    BY <1>5, <1>7, <2>1
<1>12. T \in Int /\ S \in Int /\ U \in Int /\ B \in Int
  BY <1>5, <1>7
<1>13. 2 * T = n * m /\ 6 * S = n * (m * (2 * n - 1))
  BY <1>4 DEF m
<1>14. Rise(ys) = n * B - T * U /\ Rise([k \in 1..n |-> k]) = n * S - T * T
  <2>1. Rise(ys) = n * B - T * U
    BY <1>0, <1>3, RiseIs
  <2> QED
    BY <1>1, <2>1
<1> HIDE DEF over, T, S, U, B
<1> DEFINE C == 4 * S - 4 * (m * T) + m * (m * n)
<1>15. 0 <= 25 * C + 225 * n - 6 * B + 3 * (m * U)
  BY <1>7, <1>10, <1>11, <1>12, <1>13
<1>16. 3 * C = n * (n * n - 1) /\ C \in Int
  BY <1>7, <1>12, <1>13 DEF m
<1>17. 4 * (n * S - T * T) = n * C
  BY <1>7, <1>12, <1>13 DEF m
<1>18. 6 * (n * B - T * U) = n * (6 * B - 3 * (m * U))
  BY <1>7, <1>12, <1>13
<1> QED
  <2> SUFFICES ASSUME n * B - T * U >= 30 * (n * S - T * T) PROVE FALSE
    <3>1. Len(ys) = n
      OBVIOUS
    <3> QED
      BY <1>14, <3>1 DEF Rises
  <2> DEFINE E == 6 * B - 3 * (m * U)
  <2>1. n * E >= 45 * (n * C)
    <3>1. n * B - T * U \in Int /\ n * S - T * T \in Int
      BY <1>7, <1>12
    <3> DEFINE r == n * B - T * U
               s == n * S - T * T
    <3>2. r >= 30 * s /\ 4 * s = n * C /\ 6 * r = n * E /\ r \in Int /\ s \in Int
      BY <1>17, <1>18, <3>1
    <3> DEFINE nC == n * C
               nE == n * E
    <3>3. r >= 30 * s /\ 4 * s = nC /\ 6 * r = nE /\ r \in Int /\ s \in Int
      BY <3>2
    <3> HIDE DEF r, s, C, E, nC, nE
    <3>4. nE >= 45 * nC
      BY <3>3
    <3> QED
      BY <3>4 DEF nC, nE
  <2>2. E <= 25 * C + 225 * n /\ E \in Int
    BY <1>7, <1>12, <1>15, <1>16
  <2> HIDE DEF C, E
  <2>3. n * (25 * C + 225 * n) >= 45 * (n * C)
    BY <1>7, <1>16, <2>1, <2>2
  <2>4. 25 * C + 225 * n >= 45 * C
    BY <1>7, <1>16, <2>3
  <2> QED
    BY <1>7, <1>16, <2>4

(* Three to five values between 0 and 100 that rise so end with 60 or      *)
(* more, after a lower one.                                                *)
LEMMA ShortTrend ==
  ASSUME NEW n \in 3..5, NEW ys \in [1..n -> 0..100], Rises(ys)
  PROVE  ys[n] >= 60 /\ \E k \in 1..(n - 1) : ys[k] < ys[n]
<1>1. PICK K, Q : /\ Sums(K, K, Q, Turns(n), n)
                  /\ Rise([k \in 1..n |-> k]) = n * Q[n] - K[n] * K[n]
  BY TurnRise
<1>2. ys \in [1..n -> Int] /\ \A i \in 1..n : ys[i] \in 0..100
  <2>1. \A i \in 1..n : ys[i] \in 0..100
    OBVIOUS
  <2>2. \A i \in 1..n : ys[i] \in Int
    <3>1. \A x \in 0..100 : x \in Int
      OBVIOUS
    <3> QED
      BY <2>1, <3>1
  <2>3. ys = [i \in 1..n |-> ys[i]]
    OBVIOUS
  <2> QED
    BY <2>1, <2>2, <2>3
<1>3. PICK L, Y, A : Sums(L, Y, A, ys, n)
  BY <1>2, SumsExist
<1>4. Sums(K, Y, A, ys, n)
  BY <1>1, <1>3 DEF Sums
<1>5. 2 * K[n] = n * (n - 1) /\ 6 * Q[n] = n * ((n - 1) * (2 * n - 1))
  BY <1>1, TurnSums DEF Turns
<1>6. Rise(ys) = n * A[n] - K[n] * Y[n]
  BY <1>2, <1>4, RiseIs
<1>7. n * A[n] - K[n] * Y[n] >= 30 * (n * Q[n] - K[n] * K[n])
  BY <1>1, <1>6 DEF Rises
<1>8. /\ Y[0] = 0 /\ A[0] = 0
      /\ \A k \in 1..n : Y[k] = Y[k - 1] + ys[k] /\ A[k] = A[k - 1] + (k - 1) * ys[k]
      /\ K[n] \in Int /\ Q[n] \in Int
  <2>1. n \in 0..n
    OBVIOUS
  <2> QED
    BY <1>1, <1>4, <2>1 DEF Sums, Accumulates
<1> DEFINE y1 == ys[1]
           y2 == ys[2]
           y3 == ys[3]
           y4 == ys[4]
           y5 == ys[5]
<1>9. /\ 1 \in 1..n /\ 2 \in 1..n /\ 3 \in 1..n
      /\ n >= 4 => 4 \in 1..n
      /\ n >= 5 => 5 \in 1..n
  OBVIOUS
<1>10. /\ y1 \in 0..100 /\ y2 \in 0..100 /\ y3 \in 0..100
       /\ n >= 4 => y4 \in 0..100
       /\ n >= 5 => y5 \in 0..100
  BY <1>2, <1>9
<1>11. /\ Y[1] = Y[0] + y1 /\ Y[2] = Y[1] + y2 /\ Y[3] = Y[2] + y3
       /\ A[1] = A[0] + 0 * y1 /\ A[2] = A[1] + 1 * y2 /\ A[3] = A[2] + 2 * y3
       /\ n >= 4 => Y[4] = Y[3] + y4 /\ A[4] = A[3] + 3 * y4
       /\ n >= 5 => Y[5] = Y[4] + y5 /\ A[5] = A[4] + 4 * y5
  <2>1. 1 - 1 = 0 /\ 2 - 1 = 1 /\ 3 - 1 = 2 /\ 4 - 1 = 3 /\ 5 - 1 = 4
    OBVIOUS
  <2> QED
    BY <1>8, <1>9, <2>1
<1> HIDE DEF y1, y2, y3, y4, y5
<1>12. Y[3] = y1 + y2 + y3 /\ A[3] = y2 + 2 * y3
  BY <1>8, <1>10, <1>11
<1>13. CASE n = 3
  <2>1. K[3] = 3 /\ Q[3] = 5
    BY <1>5, <1>8, <1>13
  <2>2. 3 * (y2 + 2 * y3) - 3 * (y1 + y2 + y3) >= 180
    BY <1>7, <1>12, <1>13, <2>1
  <2>3. y3 >= 60 /\ y1 < y3
    BY <1>10, <2>2
  <2> QED
    BY <1>13, <2>3 DEF y1, y3
<1>14. CASE n = 4
  <2>1. K[4] = 6 /\ Q[4] = 14
    BY <1>5, <1>8, <1>14
  <2>2. y4 \in 0..100 /\ Y[4] = y1 + y2 + y3 + y4 /\ A[4] = y2 + 2 * y3 + 3 * y4
    BY <1>10, <1>11, <1>12, <1>14
  <2>3. 4 * (y2 + 2 * y3 + 3 * y4) - 6 * (y1 + y2 + y3 + y4) >= 600
    BY <1>7, <1>14, <2>1, <2>2
  <2>4. y4 >= 60 /\ y1 < y4
    BY <1>10, <2>2, <2>3
  <2> QED
    BY <1>14, <2>4 DEF y1, y4
<1>15. CASE n = 5
  <2>1. K[5] = 10 /\ Q[5] = 30
    BY <1>5, <1>8, <1>15
  <2>2. /\ y4 \in 0..100 /\ y5 \in 0..100
        /\ Y[5] = y1 + y2 + y3 + y4 + y5 /\ A[5] = y2 + 2 * y3 + 3 * y4 + 4 * y5
    BY <1>10, <1>11, <1>12, <1>15
  <2>3. 5 * (y2 + 2 * y3 + 3 * y4 + 4 * y5) - 10 * (y1 + y2 + y3 + y4 + y5) >= 1500
    BY <1>7, <1>15, <2>1, <2>2
  <2>4. y5 >= 60 /\ y1 < y5
    BY <1>10, <2>2, <2>3
  <2> QED
    BY <1>15, <2>4 DEF y1, y5
<1> QED
  BY <1>13, <1>14, <1>15

(* The verdict on a turn is that of a trend, which is a short one.         *)
LEMMA ClimbIs ==
  ASSUME NEW past \in Seq(0..100), NEW score \in 0..100
  PROVE  /\ Climbs(past, score) <=> Rises(Append(past, score))
         /\ Climbs(past, score) => /\ Len(past) \in 2..4
                                  /\ score >= 60
                                  /\ \E k \in 1..Len(past) : past[k] < score
<1> DEFINE all == Append(past, score)
           n == Len(past) + 1
<1>1. /\ n \in Nat /\ Len(past) \in Nat /\ Len(all) = n /\ all \in [1..n -> 0..100]
      /\ all[n] = score /\ \A k \in 1..Len(past) : all[k] = past[k]
  <2>1. Len(past) \in Nat /\ n \in Nat
    OBVIOUS
  <2>2. all \in Seq(0..100) /\ Len(all) = n
    OBVIOUS
  <2>3. all[n] = score /\ \A k \in 1..Len(past) : all[k] = past[k]
    OBVIOUS
  <2> HIDE DEF all, n
  <2>4. all \in [1..n -> 0..100]
    <3> DEFINE R == 0..100
    <3> HIDE DEF R
    <3>1. all \in Seq(R) /\ Len(all) = n
      BY <2>2 DEF R
    <3>2. all \in [1..n -> R]
      BY <3>1
    <3> QED
      BY <3>2 DEF R
  <2> QED
    BY <2>1, <2>2, <2>3, <2>4
<1>2. Climbs(past, score) <=> SlopeAtLeast(30, all) /\ n >= 3 /\ score >= 25
  BY <1>1 DEF Climbs
<1> HIDE DEF all, n
<1>3. all \in [1..n -> Int]
  <2>1. \A x \in 0..100 : x \in Int
    OBVIOUS
  <2> QED
    BY <1>1, <2>1
<1>4. SlopeAtLeast(30, all) /\ n >= 3 <=> Rises(all)
  BY <1>1, <1>3, SlopeIsRise
<1>5. ASSUME Rises(all)
      PROVE  /\ Len(past) \in 2..4
             /\ score >= 60
             /\ \E k \in 1..Len(past) : past[k] < score
  <2>1. n \in 3..5
    <3>1. ~(n >= 6)
      BY <1>1, <1>5, TooLongToClimb
    <3> QED
      BY <1>1, <1>4, <1>5, <3>1
  <2>2. all[n] >= 60 /\ \E k \in 1..(n - 1) : all[k] < all[n]
    BY <1>1, <1>5, <2>1, ShortTrend
  <2>3. Len(past) \in 2..4 /\ n - 1 = Len(past)
    <3> DEFINE L == Len(past)
    <3>1. n = L + 1 /\ L \in Nat
      BY <1>1 DEF n
    <3>2. L \in 2..4 /\ n - 1 = L
      <4> HIDE DEF L
      <4> QED
        BY <2>1, <3>1
    <3> QED
      BY <3>2
  <2> QED
    BY <1>1, <2>2, <2>3
<1>6. score \in Int
  OBVIOUS
<1> QED
  BY <1>2, <1>4, <1>5, <1>6 DEF all

-----------------------------------------------------------------------------
(* The verdicts.                                                           *)

Score(table, past) == [k \in DOMAIN past |-> table[past[k]].score]

(* Row i of the table holds the verdicts its scores lead to.               *)
Verdict(table, i) ==
  /\ table[i].history \in Seq(1..(i - 1)) /\ table[i].chain \in Seq(1..(i - 1))
  /\ table[i].failed => ~table[i].crescendo
  /\ ~table[i].failed =>
       /\ table[i].crescendo <=> Climbs(Score(table, table[i].history), table[i].score)
       /\ table[i].escalation => Climbs(Score(table, table[i].chain), table[i].score)

TrendInv == TypeInv /\ \A i \in 1..Len(rows) : Verdict(rows, i)

LEMMA SeqFits ==
  ASSUME NEW n \in Nat, NEW m \in 0..n, NEW s \in Seq(1..m)
  PROVE  s \in Seq(1..n)
<1> DEFINE M == 1..m
           N == 1..n
<1>1. M \subseteq N
  OBVIOUS
<1>2. s \in Seq(M)
  OBVIOUS
<1> HIDE DEF M, N
<1>3. s \in Seq(N)
  BY <1>1, <1>2
<1> QED
  BY <1>3 DEF N

(* What was measured does not change when rows are appended.               *)
LEMMA ScoreStays ==
  ASSUME NEW table, NEW longer, NEW n \in Nat, \A j \in 1..n : longer[j] = table[j],
         NEW past \in Seq(1..n)
  PROVE  Score(longer, past) = Score(table, past)
<1>1. \A k \in DOMAIN past : past[k] \in 1..n
  OBVIOUS
<1>2. \A k \in DOMAIN past : longer[past[k]].score = table[past[k]].score
  BY <1>1
<1> QED
  BY <1>2 DEF Score

LEMMA ScoresFit ==
  ASSUME TypeInv, NEW past \in Seq(1..Len(rows))
  PROVE  Score(rows, past) \in Seq(0..100) /\ Len(Score(rows, past)) = Len(past)
<1>1. /\ Len(rows) \in Nat /\ session \in Sessions
      /\ \A i \in 1..Len(rows) : rows[i].score \in session.scores \union {0}
  BY DEF TypeInv, PastInv, Typed, RowTyped
<1>2. \A i \in 1..Len(rows) : rows[i].score \in 0..100
  <2>1. session.scores \subseteq 0..100
    BY <1>1, TrajectoryAssumption, Zenon
  <2>2. 0 \in 0..100
    OBVIOUS
  <2> QED
    BY <1>1, <2>1, <2>2
<1>3. \A k \in 1..Len(past) : past[k] \in 1..Len(rows)
  OBVIOUS
<1>4. \A k \in 1..Len(past) : rows[past[k]].score \in 0..100
  BY <1>2, <1>3
<1>5. Len(past) \in Nat /\ DOMAIN past = 1..Len(past)
  OBVIOUS
<1> DEFINE R == 0..100
<1> HIDE DEF R
<1>6. [k \in 1..Len(past) |-> rows[past[k]].score] \in [1..Len(past) -> R]
  BY <1>4 DEF R
<1>7. Score(rows, past) \in [1..Len(past) -> R]
  BY <1>5, <1>6 DEF Score
<1>8. Score(rows, past) \in Seq(R) /\ Len(Score(rows, past)) = Len(past)
  BY <1>5, <1>7
<1> QED
  BY <1>8 DEF R

LEMMA TrendInit == Init => TrendInv
<1> SUFFICES ASSUME Init PROVE TrendInv
  OBVIOUS
<1>1. \A i \in 1..Len(rows) : FALSE
  <2>1. Len(rows) = 0
    BY DEF Init
  <2> QED
    BY <2>1
<1> QED
  BY <1>1, TypeInit DEF TrendInv

LEMMA RowVerdict ==
  ASSUME PastInv, NEW p \in Partitions, AllRead(p),
         NEW score \in session.scores, NEW pick \in ScoreOf(view[p].scored),
         NEW table, table[Len(rows) + 1] = Row(p, score, pick),
         \A i \in 1..Len(rows) : table[i] = rows[i]
  PROVE  Verdict(table, Len(rows) + 1)
<1> DEFINE t == Trace(p)
           edges == view[p].edges
           n == view[p].history
           m == view[p].scored
           N == Len(rows)
           r == Row(p, score, pick)
           history == History(t, n)
           chain == AgentChain(t, edges, pick)
<1>1. /\ session \in Sessions /\ view[p] \in Views
      /\ next[p] \in 1..(Len(Backlog(p)) + 1) /\ N \in Nat
      /\ rows = [i \in 1..N |-> rows[i]]
      /\ n <= N /\ m <= N
  BY DEF PastInv, Typed
<1>2. edges \in SUBSET Traces /\ n \in Nat /\ m \in Nat
  BY <1>1 DEF Views
<1>3. t \in Traces
  <2>1. Backlog(p) \in Seq(Traces)
    BY <1>1, SessionIs
  <2>2. next[p] \in 1..Len(Backlog(p))
    BY <1>1, <2>1 DEF AllRead, InWork
  <2> QED
    BY <2>1, <2>2 DEF Trace
<1>4. /\ r.score = score /\ r.failed = FALSE /\ r.history = history /\ r.chain = chain
      /\ r.crescendo = Climbs(ScoresOf(history), score)
      /\ r.escalation = Escalates(view[p].kind, ScoresOf(chain), score)
  BY DEF Row
<1>5. pick \in ScoreOf(m)
  OBVIOUS
<1> DEFINE i == N + 1
<1>6. table[i] = r /\ (\A j \in 1..N : table[j] = rows[j]) /\ i - 1 = N
  BY <1>1
<1> HIDE DEF t, edges, n, m, N, r, i
<1>7. history \in Seq(1..n)
  BY <1>2, HistoryIs DEF PastOf
<1>8. chain \in Seq(1..m)
  BY <1>1, <1>2, <1>3, <1>5, AgentChainIs
<1> HIDE DEF history, chain
<1>9. n \in 0..N /\ m \in 0..N
  BY <1>1, <1>2
<1>10. history \in Seq(1..N) /\ chain \in Seq(1..N)
  BY <1>1, <1>7, <1>8, <1>9, SeqFits
<1>11. Score(table, history) = ScoresOf(history) /\ Score(table, chain) = ScoresOf(chain)
  <2>0. N \in Nat /\ \A j \in 1..N : table[j] = rows[j]
    BY <1>1, <1>6
  <2>1. Score(table, history) = Score(rows, history)
    BY <1>10, <2>0, ScoreStays
  <2>2. Score(table, chain) = Score(rows, chain)
    BY <1>10, <2>0, ScoreStays
  <2> QED
    BY <2>1, <2>2 DEF Score, ScoresOf
<1>12. r.escalation => Climbs(ScoresOf(chain), score)
  BY <1>4 DEF Escalates
<1>13. /\ table[i].history = history /\ table[i].chain = chain /\ table[i].score = score
       /\ table[i].failed = FALSE
       /\ table[i].crescendo = Climbs(ScoresOf(history), score)
       /\ table[i].escalation => Climbs(ScoresOf(chain), score)
  BY <1>4, <1>6, <1>12
<1>14. /\ table[i].history \in Seq(1..(i - 1)) /\ table[i].chain \in Seq(1..(i - 1))
       /\ ~table[i].failed
       /\ table[i].crescendo <=> Climbs(Score(table, table[i].history), table[i].score)
       /\ table[i].escalation => Climbs(Score(table, table[i].chain), table[i].score)
  BY <1>6, <1>10, <1>11, <1>13
<1>15. Verdict(table, i)
  BY <1>14 DEF Verdict
<1> QED
  BY <1>15 DEF i, N

LEMMA MarkerVerdict ==
  ASSUME PastInv, NEW t, NEW table, table = Append(rows, Marker(t))
  PROVE  Verdict(table, Len(rows) + 1)
<1>1. Len(rows) \in Nat /\ rows = [i \in 1..Len(rows) |-> rows[i]]
  BY DEF PastInv, Typed
<1>2. table[Len(rows) + 1] = Marker(t)
  BY <1>1, AppendIs
<1>3. /\ Marker(t).history = <<>> /\ Marker(t).chain = <<>>
      /\ Marker(t).failed = TRUE /\ Marker(t).crescendo = FALSE
  BY DEF Marker
<1>4. <<>> \in Seq(1..(Len(rows) + 1 - 1))
  OBVIOUS
<1> QED
  BY <1>2, <1>3, <1>4 DEF Verdict

LEMMA TrendStep == TrendInv /\ [Next]_vars => TrendInv'
<1> SUFFICES ASSUME TrendInv, [Next]_vars PROVE TrendInv'
  OBVIOUS
<1>1. TypeInv /\ TypeInv' /\ PastInv
  BY TypeStep DEF TrendInv, TypeInv
<1>2. Len(rows) \in Nat /\ rows = [i \in 1..Len(rows) |-> rows[i]]
  BY <1>1 DEF PastInv, Typed
<1>3. \/ rows' = rows
      \/ (\E r : rows' = Append(rows, r)) /\ Verdict(rows', Len(rows) + 1)
  <2>1. ASSUME NEW p \in Partitions, AllRead(p), Insert(p)
        PROVE  (\E r : rows' = Append(rows, r)) /\ Verdict(rows', Len(rows) + 1)
    <3>1. PICK score \in session.scores, pick \in ScoreOf(view[p].scored) :
            rows' = Append(rows, Row(p, score, pick))
      BY <2>1 DEF Insert
    <3>2. /\ rows'[Len(rows) + 1] = Row(p, score, pick)
          /\ \A i \in 1..Len(rows) : rows'[i] = rows[i]
      BY <1>2, <3>1, AppendIs
    <3> QED
      BY <1>1, <2>1, <3>1, <3>2, RowVerdict
  <2>2. ASSUME NEW p \in Partitions, ScanFails(p), rows' # rows
        PROVE  (\E r : rows' = Append(rows, r)) /\ Verdict(rows', Len(rows) + 1)
    <3>1. rows' = Append(rows, Marker(Trace(p)))
      BY <2>2 DEF ScanFails
    <3> QED
      BY <1>1, <3>1, MarkerVerdict
  <2>3. ASSUME NEW p \in Partitions, Store(p) \/ StoreFails(p), rows' # rows
        PROVE  AllRead(p) /\ Insert(p)
    BY <2>3 DEF Store, StoreFails
  <2> QED
    BY <2>1, <2>2, <2>3 DEF Next, vars, Ingest, ReadHistory, ReadParentKind, ReadEdges,
       ReadScores, Answered, ReadFails
<1>4. ASSUME NEW i \in 1..Len(rows') PROVE Verdict(rows', i)
  <2>1. CASE rows' = rows
    BY <1>4, <2>1 DEF TrendInv
  <2>2. CASE (\E r : rows' = Append(rows, r)) /\ Verdict(rows', Len(rows) + 1)
    <3>1. PICK r : rows' = Append(rows, r)
      BY <2>2
    <3>2. Len(rows') = Len(rows) + 1 /\ \A j \in 1..Len(rows) : rows'[j] = rows[j]
      BY <1>2, <3>1, AppendIs
    <3>3. CASE i = Len(rows) + 1
      BY <2>2, <3>3
    <3>4. CASE i # Len(rows) + 1
      <4>1. i \in 1..Len(rows) /\ i - 1 \in 0..Len(rows)
        BY <1>2, <3>2, <3>4
      <4>2. rows'[i] = rows[i] /\ Verdict(rows, i)
        BY <3>2, <4>1 DEF TrendInv
      <4>3. rows[i].history \in Seq(1..(i - 1)) /\ rows[i].chain \in Seq(1..(i - 1))
        BY <4>2 DEF Verdict
      <4>4. rows[i].history \in Seq(1..Len(rows)) /\ rows[i].chain \in Seq(1..Len(rows))
        BY <1>2, <4>1, <4>3, SeqFits
      <4>5. Score(rows', rows[i].history) = Score(rows, rows[i].history)
        BY <1>2, <3>2, <4>4, ScoreStays
      <4>6. Score(rows', rows[i].chain) = Score(rows, rows[i].chain)
        BY <1>2, <3>2, <4>4, ScoreStays
      <4> QED
        BY <4>2, <4>5, <4>6 DEF Verdict
    <3> QED
      BY <3>3, <3>4
  <2> QED
    BY <1>3, <2>1, <2>2
<1> QED
  BY <1>1, <1>4 DEF TrendInv

LEMMA VerdictScores ==
  ASSUME TrendInv, NEW i \in 1..Len(rows), NEW past \in Seq(1..(i - 1))
  PROVE  /\ past \in Seq(1..Len(rows))
         /\ Score(rows, past) \in Seq(0..100) /\ Len(Score(rows, past)) = Len(past)
         /\ Score(rows, past) = ScoresOf(past)
         /\ rows[i].score \in 0..100
<1>1. /\ TypeInv /\ Len(rows) \in Nat /\ session \in Sessions
      /\ rows[i].score \in session.scores \union {0}
  BY DEF TrendInv, TypeInv, PastInv, Typed, RowTyped
<1>2. i - 1 \in 0..Len(rows)
  BY <1>1
<1>3. past \in Seq(1..Len(rows))
  BY <1>1, <1>2, SeqFits
<1>4. Score(rows, past) \in Seq(0..100) /\ Len(Score(rows, past)) = Len(past)
  BY <1>1, <1>3, ScoresFit
<1>5. session.scores \subseteq 0..100
  BY <1>1, TrajectoryAssumption, Zenon
<1>6. 0 \in 0..100
  OBVIOUS
<1>7. rows[i].score \in 0..100
  BY <1>1, <1>5, <1>6
<1> QED
  BY <1>3, <1>4, <1>7 DEF Score, ScoresOf

LEMMA TrendInvGivesTrends == TrendInv => VerdictsAreTrends
<1> SUFFICES ASSUME TrendInv, NEW i \in DOMAIN rows, ~rows[i].failed
             PROVE  /\ rows[i].crescendo <=> Rises(Append(ScoresOf(rows[i].history), rows[i].score))
                    /\ rows[i].escalation => Rises(Append(ScoresOf(rows[i].chain), rows[i].score))
  BY DEF VerdictsAreTrends
<1>1. i \in 1..Len(rows)
  BY DEF TrendInv, TypeInv, PastInv, Typed
<1>2. /\ rows[i].history \in Seq(1..(i - 1)) /\ rows[i].chain \in Seq(1..(i - 1))
      /\ rows[i].crescendo <=> Climbs(Score(rows, rows[i].history), rows[i].score)
      /\ rows[i].escalation => Climbs(Score(rows, rows[i].chain), rows[i].score)
  BY <1>1 DEF TrendInv, Verdict
<1>3. ASSUME NEW past \in Seq(1..(i - 1))
      PROVE  Climbs(Score(rows, past), rows[i].score) <=> Rises(Append(ScoresOf(past), rows[i].score))
  <2>1. /\ Score(rows, past) \in Seq(0..100) /\ Score(rows, past) = ScoresOf(past)
        /\ rows[i].score \in 0..100
    BY <1>1, VerdictScores
  <2> QED
    BY <2>1, ClimbIs
<1> QED
  BY <1>2, <1>3

LEMMA ShortAscent ==
  ASSUME NEW n \in Nat, NEW h \in Seq(1..n), Len(h) \in 2..4,
         \A k \in 1..(Len(h) - 1) : h[k] < h[k + 1]
  PROVE  /\ IsFiniteSet(ToSet(h)) /\ Cardinality(ToSet(h)) = Len(h)
         /\ 1 \in 1..Len(h) /\ 2 \in 1..Len(h) /\ h[1] < h[2]
<1> DEFINE L == Len(h)
<1>1. L \in 2..4 /\ \A k \in 1..L : h[k] \in Nat
  OBVIOUS
<1>2. ToSet(h) = {h[k] : k \in 1..L}
  BY DEF ToSet
<1>3. \A k \in 1..(L - 1) : h[k] < h[k + 1]
  OBVIOUS
<1> HIDE DEF L
<1>4. /\ 1 \in 1..L /\ 2 \in 1..L /\ h[1] < h[2]
      /\ L >= 3 => 3 \in 1..L /\ h[2] < h[3]
      /\ L >= 4 => 4 \in 1..L /\ h[3] < h[4]
  <2>1. 1 + 1 = 2 /\ 2 + 1 = 3 /\ 3 + 1 = 4
    OBVIOUS
  <2>2. 1 \in 1..(L - 1) /\ (L >= 3 => 2 \in 1..(L - 1)) /\ (L >= 4 => 3 \in 1..(L - 1))
    BY <1>1
  <2> QED
    BY <1>1, <1>3, <2>1, <2>2
<1>5. \A j, k \in 1..L : h[j] = h[k] => j = k
  <2> DEFINE h1 == h[1]
             h2 == h[2]
             h3 == h[3]
             h4 == h[4]
  <2>1. \A k \in 1..L : k = 1 \/ k = 2 \/ (k = 3 /\ L >= 3) \/ (k = 4 /\ L >= 4)
    BY <1>1
  <2>2. /\ h1 \in Nat /\ h2 \in Nat /\ h1 < h2
        /\ L >= 3 => h3 \in Nat /\ h2 < h3
        /\ L >= 4 => h4 \in Nat /\ h3 < h4
    BY <1>1, <1>4
  <2>3. \A k \in 1..L :
          \/ k = 1 /\ h[k] = h1
          \/ k = 2 /\ h[k] = h2
          \/ k = 3 /\ L >= 3 /\ h[k] = h3
          \/ k = 4 /\ L >= 4 /\ h[k] = h4
    BY <2>1
  <2>4. L \in Nat
    BY <1>1
  <2> HIDE DEF h1, h2, h3, h4
  <2>5. /\ h1 # h2
        /\ L >= 3 => h1 # h3 /\ h2 # h3
        /\ L >= 4 => h1 # h4 /\ h2 # h4 /\ h3 # h4
    BY <2>2, <2>4
  <2> QED
    BY <2>3, <2>4, <2>5
<1>6. L \in Nat /\ h \in [1..L -> ToSet(h)]
  <2>1. h \in Seq(ToSet(h)) /\ L = Len(h)
    BY DEF ToSet, L
  <2> QED
    BY <1>1, <2>1
<1>7. h \in Bijection(1..L, ToSet(h))
  BY <1>2, <1>5, <1>6 DEF Bijection, Injection, Surjection, IsInjective
<1>8. IsFiniteSet(ToSet(h)) /\ Cardinality(ToSet(h)) = L
  BY <1>6, <1>7, FS_NatBijection, FS_CountingElements DEF ExistsBijection
<1> QED
  BY <1>4, <1>8 DEF L

LEMMA TrendInvGivesEarly == TrendInv => CrescendoOnlyEarly
<1> SUFFICES ASSUME TrendInv, NEW i \in DOMAIN rows, rows[i].crescendo
             PROVE  LET past == ToSet(rows[i].history)
                    IN /\ Cardinality(past) \in 2..4
                       /\ rows[i].score >= 60
                       /\ \E k \in past : rows[k].score < rows[i].score
                       /\ faults = 0 => Cardinality({rows[k].trace : k \in past}) >= 2
  BY DEF CrescendoOnlyEarly
<1> DEFINE h == rows[i].history
           past == ToSet(h)
<1>1. /\ Len(rows) \in Nat /\ i \in 1..Len(rows) /\ PastInv /\ session \in Sessions
      /\ \A p \in Partitions : next[p] \in 1..(Len(Backlog(p)) + 1)
  BY DEF TrendInv, TypeInv, PastInv, Typed
<1>2. /\ h \in Seq(1..(i - 1))
      /\ Climbs(Score(rows, h), rows[i].score)
  BY <1>1 DEF TrendInv, Verdict
<1> HIDE DEF h
<1>3. /\ h \in Seq(1..Len(rows))
      /\ Score(rows, h) \in Seq(0..100) /\ Len(Score(rows, h)) = Len(h)
      /\ rows[i].score \in 0..100
  BY <1>1, <1>2, VerdictScores
<1>4. /\ Len(h) \in 2..4
      /\ rows[i].score >= 60
      /\ \E k \in 1..Len(h) : Score(rows, h)[k] < rows[i].score
  BY <1>2, <1>3, ClimbIs
<1>5. \E k \in past : rows[k].score < rows[i].score
  <2>1. PICK k \in 1..Len(h) : Score(rows, h)[k] < rows[i].score
    BY <1>4
  <2>2. k \in DOMAIN h
    BY <1>3
  <2> QED
    BY <2>1, <2>2 DEF Score, ToSet
<1>6. \A k \in 1..(Len(h) - 1) : h[k] < h[k + 1]
  <2>1. h # <<>>
    BY <1>4
  <2>2. JudgedIn(rows, i, faults)
    BY <1>1 DEF PastInv, RowsJudged
  <2> QED
    BY <2>1, <2>2 DEF JudgedIn, PastOf, h
<1>7. /\ IsFiniteSet(past) /\ Cardinality(past) = Len(h)
      /\ 1 \in 1..Len(h) /\ 2 \in 1..Len(h) /\ h[1] < h[2]
  BY <1>1, <1>3, <1>4, <1>6, ShortAscent
<1>8. ASSUME faults = 0 PROVE Cardinality({rows[k].trace : k \in past}) >= 2
  <2> DEFINE T == {rows[k].trace : k \in past}
             j == h[1]
             l == h[2]
  <2>1. j \in past /\ l \in past
    <3>1. 1 \in DOMAIN h /\ 2 \in DOMAIN h
      BY <1>3, <1>7
    <3> QED
      BY <3>1 DEF ToSet
  <2>2. j \in 1..Len(rows) /\ l \in 1..Len(rows) /\ j < l
    BY <1>3, <1>7
  <2> HIDE DEF past, j, l
  <2>3. rows[j].trace # rows[l].trace
    <3>0. PICK p \in Partitions : \E k \in 1..(next[p] - 1) : rows[l].trace = Backlog(p)[k]
      BY <1>1, <1>8, <2>2 DEF PastInv, Sequential
    <3>1. PICK k \in 1..(next[p] - 1) : rows[l].trace = Backlog(p)[k]
      BY <3>0
    <3>2. rows[l].trace \in ToSet(Backlog(p))
      <4>1. Backlog(p) \in Seq(Traces)
        BY <1>1, SessionIs
      <4>2. k \in 1..Len(Backlog(p))
        BY <1>1, <4>1
      <4> QED
        BY <3>1, <4>1, <4>2 DEF ToSet
    <3>3. SamePartition(rows[l].trace, rows[l].trace)
      BY <3>2 DEF SamePartition
    <3>4. j \in 1..(l - 1)
      BY <1>1, <2>2
    <3>5. \A m \in 1..(l - 1) : SamePartition(rows[m].trace, rows[l].trace) =>
            rows[m].trace # rows[l].trace
      <4>1. JudgedIn(rows, l, faults)
        BY <1>1, <2>2 DEF PastInv, RowsJudged
      <4> QED
        BY <1>8, <4>1 DEF JudgedIn
    <3> QED
      BY <3>3, <3>4, <3>5
  <2>4. IsFiniteSet(T)
    <3>1. IsFiniteSet(Traces)
      BY <1>1, TrajectoryAssumption DEF Traces
    <3>2. \A k \in past : k \in 1..Len(rows)
      BY <1>3 DEF past, ToSet
    <3>3. \A k \in 1..Len(rows) : rows[k].trace \in Traces
      BY DEF TrendInv, TypeInv, RowTyped
    <3>4. T \subseteq Traces
      BY <3>2, <3>3
    <3> QED
      BY <3>1, <3>4, FS_Subset
  <2>5. rows[j].trace \in T /\ rows[l].trace \in T
    BY <2>1
  <2> HIDE DEF T
  <2>6. Cardinality(T) >= 2
    BY <2>3, <2>4, <2>5, TwoMembers
  <2> QED
    BY <2>6 DEF T
<1>9. Cardinality(past) \in 2..4
  BY <1>4, <1>7
<1> QED
  BY <1>4, <1>5, <1>8, <1>9 DEF h

-----------------------------------------------------------------------------
(* The theorems.                                                           *)

(* For every session, the rows judge by rows before them, and what a read  *)
(* saw is never more than there is.                                        *)
THEOREM TrajectoryTypes == Spec => []TypeOK
<1>1. Init => TypeInv
  BY TypeInit
<1>2. TypeInv /\ [Next]_vars => TypeInv'
  BY TypeStep
<1>3. TypeInv => TypeOK
  BY TypeInvGives
<1> QED
  BY <1>1, <1>2, <1>3, PTL DEF Spec

(* Whatever order the turns of a session are worked through in, however    *)
(* often one is scanned again and whichever reads, scans and inserts fail, *)
(* a turn is measured against a gapless run of other turns' rows, and      *)
(* without a failure against the newest of all it must know of             *)
(* (get_session_risk_scores as auto_security_scan calls it).               *)
THEOREM TurnsJudgedByThePast == Spec => []HistoryIsThePast
<1>1. Init => PastInv
  BY PastInit
<1>2. PastInv /\ [Next]_vars => PastInv'
  BY PastStep
<1>3. PastInv => HistoryIsThePast
  BY PastInvGives
<1> QED
  BY <1>1, <1>2, <1>3, PTL DEF Spec

(* What escalation is measured on is the ancestry, for every shape of the  *)
(* parent links, cycles among them, every depth of the walk, and whatever  *)
(* events and rows had arrived when they were read                         *)
(* (get_agent_chain_scores).                                               *)
THEOREM EscalationSeesTheAncestry == Spec => []ChainIsAncestry
<1>1. Init => PastInv
  BY PastInit
<1>2. PastInv /\ [Next]_vars => PastInv'
  BY PastStep
<1>3. PastInv => ChainIsAncestry
  BY PastInvGivesAncestry
<1> QED
  BY <1>1, <1>2, <1>3, PTL DEF Spec

(* An escalation is reported of a turn an agent prompted, over at least    *)
(* two other events that are truly its ancestors, whichever reads, scans   *)
(* and inserts failed or raced (cross_agent_source,                        *)
(* get_agent_chain_scores).                                                *)
THEOREM EscalationIsAcrossAgents == Spec => []EscalationCrossesAgents
<1>1. Init => CrossInv
  BY CrossInit
<1>2. CrossInv /\ [Next]_vars => CrossInv'
  BY CrossStep
<1>3. CrossInv => EscalationCrossesAgents
  <2>1. CrossInv => DOMAIN rows = 1..Len(rows)
    BY DEF CrossInv, TypeInv, PastInv, Typed
  <2> QED
    BY <2>1 DEF CrossInv, Crosses, EscalationCrossesAgents
<1> QED
  BY <1>1, <1>2, <1>3, PTL DEF Spec

(* For every session, history limit and depth of the walk, the verdicts a  *)
(* row holds are those of a trend: the slope that _crescendo_slope takes   *)
(* through the deviations from two means is at least 0.3 exactly when the  *)
(* scores rise so on the weighted average of all their pairs, and from an  *)
(* escalation the same follows for the ancestry.                           *)
THEOREM VerdictsFollowTrends == Spec => []VerdictsAreTrends
<1>1. Init => TrendInv
  BY TrendInit
<1>2. TrendInv /\ [Next]_vars => TrendInv'
  BY TrendStep
<1>3. TrendInv => VerdictsAreTrends
  BY TrendInvGivesTrends
<1> QED
  BY <1>1, <1>2, <1>3, PTL DEF Spec

(* Scores between 0 and 1 cannot climb by 0.3 a turn over six turns or     *)
(* more: however long the sessions and the history limit are, a crescendo  *)
(* is found of a third to fifth turn alone, one with a score of at least   *)
(* 0.6 (auto_security_scan, _crescendo_slope).                             *)
THEOREM CrescendoIsEarly == Spec => []CrescendoOnlyEarly
<1>1. Init => TrendInv
  BY TrendInit
<1>2. TrendInv /\ [Next]_vars => TrendInv'
  BY TrendStep
<1>3. TrendInv => CrescendoOnlyEarly
  BY TrendInvGivesEarly
<1> QED
  BY <1>1, <1>2, <1>3, PTL DEF Spec
===============================================================================
