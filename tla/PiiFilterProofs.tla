---------------------------- MODULE PiiFilterProofs ----------------------------
(***************************************************************************)
(* GenuineReported and LookalikesDropped for every text and everything     *)
(* Presidio may report of it.                                              *)
(*                                                                         *)
(* What a pass drops depends on the text and on the match alone, so the    *)
(* invariant is simple; the work is in what the passes recognize.  A code  *)
(* that begins before a place and reaches it has a dot there (Crossing),   *)
(* and from that follow both directions: no code can touch a number that   *)
(* no dot joins to its neighbours, and the scan for codes, which takes the *)
(* leftmost and goes on behind it, passes over none of them (DottedIs).    *)
(***************************************************************************)
EXTENDS PiiFilter, WellFoundedInduction, TLAPS

(* What holds of a place when it holds of all places behind it, holds of   *)
(* every place: otherwise there would be a last one without it.            *)
LEMMA Downward ==
  ASSUME NEW n \in Nat, NEW B \in SUBSET (1..n),
         \A i \in 1..n : (\A j \in (i + 1)..n : j \in B) => i \in B
  PROVE  1..n \subseteq B
<1> DEFINE R == {ss \in Nat \X Nat : ss[1] < ss[2]}
           U == {u \in Nat : n - u \in (1..n) \ B}
<1>1. IsWellFoundedOn(R, Nat)
  BY NatLessThanWellFounded DEF OpToRel
<1> SUFFICES ASSUME NEW b \in (1..n) \ B PROVE FALSE
  OBVIOUS
<1>2. U # {} /\ U \in SUBSET Nat
  <2>1. n - b \in Nat /\ n - (n - b) = b
    OBVIOUS
  <2> QED
    BY <2>1
<1>3. PICK x \in U : \A y \in U : ~(<<y, x>> \in R)
  <2> HIDE DEF R, U
  <2> QED
    BY <1>1, <1>2, WFMin
<1>4. \A y \in U : ~(y < x)
  BY <1>2, <1>3
<1>5. n - x \in (1..n) \ B
  OBVIOUS
<1>6. ASSUME NEW j \in (n - x + 1)..n PROVE j \in B
  <2>1. j \in 1..n /\ n - j \in Nat /\ n - j < x /\ n - (n - j) = j
    BY <1>5
  <2>2. n - j \notin U
    BY <1>4, <2>1
  <2> QED
    BY <2>1, <2>2
<1> QED
  BY <1>5, <1>6

LEMMA HighestOf ==
  ASSUME NEW n \in Nat, NEW T \in SUBSET (1..n), T # {}
  PROVE  \E x \in T : \A y \in T : y <= x
<1> SUFFICES ASSUME \A x \in T : \E y \in T : ~(y <= x) PROVE FALSE
  OBVIOUS
<1> DEFINE B == (1..n) \ T
<1>1. ASSUME NEW i \in 1..n, \A j \in (i + 1)..n : j \in B PROVE i \in B
  BY <1>1
<1>2. 1..n \subseteq B
  <2> HIDE DEF B
  <2>1. B \in SUBSET (1..n)
    BY DEF B
  <2> QED
    BY <1>1, <2>1, Downward
<1> QED
  BY <1>2

-----------------------------------------------------------------------------
(* Spans and codes.                                                        *)

LEMMA SpanIs ==
  ASSUME text \in Seq(Runs), NEW s \in Spans
  PROVE  /\ Len(text) \in Nat /\ s = <<s[1], s[2]>>
         /\ s[1] \in 1..Len(text) /\ s[2] \in 1..Len(text) /\ s[1] <= s[2]
BY DEF Spans

LEMMA SizesAre ==
  ASSUME text \in Seq(Runs), NEW s \in Spans
  PROVE  /\ Len(Sizes(s)) = s[2] - s[1] + 1
         /\ \A k \in 1..(s[2] - s[1] + 1) : Sizes(s)[k] = text[s[1] + k - 1].size
<1> DEFINE n == s[2] - s[1] + 1
           f == [k \in 1..n |-> text[s[1] + k - 1].size]
<1>1. n \in Nat
  BY SpanIs
<1>2. Sizes(s) = f
  BY DEF Sizes
<1> HIDE DEF n
<1>3. DOMAIN f = 1..n /\ \A k \in 1..n : f[k] = text[s[1] + k - 1].size
  OBVIOUS
<1>4. Len(f) = n
  BY <1>1
<1> QED
  BY <1>2, <1>3, <1>4 DEF n

(* Where the runs of a span of known sizes are.                            *)
LEMMA SizedIs ==
  ASSUME text \in Seq(Runs), NEW s \in Spans,
         NEW n \in Nat, Len(Sizes(s)) = n
  PROVE  /\ s[1] \in Nat /\ s[2] \in Nat
         /\ s[2] = s[1] + n - 1
         /\ \A k \in 0..(n - 1) : text[s[1] + k].size = Sizes(s)[k + 1]
<1> DEFINE a == s[1]
           b == s[2]
           z == Sizes(s)
<1>1. /\ a \in Nat /\ b \in Nat /\ a <= b
      /\ a \in DOMAIN text /\ b \in DOMAIN text /\ DOMAIN text = 1..Len(text) /\ Len(text) \in Nat
  BY SpanIs
<1>2. n = b - a + 1 /\ \A k \in 1..(b - a + 1) : z[k] = text[a + k - 1].size
  BY SizesAre
<1> HIDE DEF a, b, z
<1>3. b = a + n - 1
  BY <1>1, <1>2
<1>4. ASSUME NEW k \in 0..(n - 1) PROVE text[a + k].size = z[k + 1]
  <2>1. k + 1 \in 1..(b - a + 1)
    BY <1>1, <1>2
  <2>2. a + (k + 1) - 1 = a + k
    BY <1>1
  <2> QED
    BY <1>2, <2>1, <2>2
<1> QED
  BY <1>1, <1>3, <1>4 DEF a, b, z

LEMMA CodeIs ==
  ASSUME text \in Seq(Runs), NEW s \in Codes
  PROVE  /\ s \in Spans /\ s[1] < s[2]
         /\ text[s[1]].size = 4
         /\ \A k \in (s[1] + 1)..s[2] : text[k].before = "dot"
BY SpanIs DEF Codes, IsCode

(* A code that begins before a place and reaches it has a dot there.       *)
LEMMA Crossing ==
  ASSUME text \in Seq(Runs), NEW s \in Codes, NEW a \in 1..Len(text), s[1] < a, a <= s[2]
  PROVE  text[a].before = "dot"
<1>1. s[1] \in 1..Len(text) /\ s[2] \in 1..Len(text)
  BY CodeIs, SpanIs
<1>2. a \in (s[1] + 1)..s[2]
  BY <1>1
<1> QED
  BY <1>2, CodeIs

LEMMA LongestIs ==
  ASSUME text \in Seq(Runs), NEW i \in 1..Len(text)
  PROVE  /\ Longest(i) \subseteq Codes
         /\ \A s \in Longest(i) : s[1] = i
         /\ \A s \in Codes : s[1] = i => \E t \in Longest(i) : s[2] <= t[2]
<1> SUFFICES ASSUME NEW s \in Codes, s[1] = i PROVE \E t \in Longest(i) : s[2] <= t[2]
  BY DEF Longest
<1> DEFINE E == {t[2] : t \in {u \in Codes : u[1] = i}}
<1>1. \A t \in Codes : t[2] \in 1..Len(text)
  BY CodeIs, SpanIs
<1>2. E \in SUBSET (1..Len(text)) /\ E # {} /\ s[2] \in E
  BY <1>1
<1>3. PICK x \in E : \A y \in E : y <= x
  <2>1. Len(text) \in Nat
    OBVIOUS
  <2> HIDE DEF E
  <2> QED
    BY <1>2, <2>1, HighestOf
<1>4. PICK t \in Codes : t[1] = i /\ t[2] = x
  OBVIOUS
<1>5. \A u \in Codes : u[1] = i => u[2] <= t[2]
  BY <1>3, <1>4
<1> QED
  BY <1>4, <1>5 DEF Longest

(* The scan goes forward, and over no place without a dot.                 *)
LEMMA BehindIs ==
  ASSUME text \in Seq(Runs), NEW i \in 1..Len(text)
  PROVE  /\ Behind(i) \in (i + 1)..(Len(text) + 1)
         /\ \A a \in 1..Len(text) : i < a /\ text[a].before # "dot" => Behind(i) <= a
<1>0. Len(text) \in Nat
  OBVIOUS
<1>1. CASE Longest(i) = {}
  BY <1>0, <1>1 DEF Behind
<1>2. CASE Longest(i) # {}
  <2> DEFINE s == CHOOSE t \in Longest(i) : TRUE
  <2>1. s \in Longest(i)
    BY <1>2
  <2>2. Behind(i) = s[2] + 1
    BY <1>2 DEF Behind
  <2> HIDE DEF s
  <2>3. s \in Codes /\ s[1] = i
    BY <2>1, LongestIs
  <2>4. s[1] < s[2] /\ s[2] \in 1..Len(text)
    BY <2>3, CodeIs, SpanIs
  <2>5. ASSUME NEW a \in 1..Len(text), i < a, text[a].before # "dot" PROVE Behind(i) <= a
    <3>1. ~(a <= s[2])
      BY <2>3, <2>5, Crossing
    <3> QED
      BY <2>2, <2>4, <3>1
  <2> QED
    BY <1>0, <2>2, <2>3, <2>4, <2>5
<1> QED
  BY <1>1, <1>2

(* The codes found from a place on.                                        *)
Scan(f, i) == IF i > Len(text) THEN {} ELSE Longest(i) \union f[Behind(i)]

LEMMA ScanExists ==
  ASSUME text \in Seq(Runs)
  PROVE  \E f : f = [i \in 1..(Len(text) + 1) |-> Scan(f, i)]
<1> DEFINE N == Len(text)
           Good(f, k) == /\ f = [i \in 1..(N + 1) |-> f[i]]
                         /\ \A i \in k..(N + 1) : f[i] = Scan(f, i)
           B == {k \in 1..(N + 1) : \E f : Good(f, k)}
<1>0. N \in Nat
  OBVIOUS
<1>1. ASSUME NEW k \in 1..(N + 1), \A j \in (k + 1)..(N + 1) : j \in B PROVE k \in B
  <2>1. CASE k = N + 1
    <3> DEFINE f == [i \in 1..(N + 1) |-> {}]
    <3>1. Good(f, N + 1)
      BY <1>0 DEF Scan
    <3> QED
      BY <2>1, <3>1
  <2>2. CASE k # N + 1
    <3>1. k + 1 \in B /\ k \in 1..N
      BY <1>0, <1>1, <2>2
    <3>2. PICK f : Good(f, k + 1)
      BY <3>1
    <3> DEFINE g == [i \in 1..(N + 1) |-> IF i = k THEN Scan(f, k) ELSE f[i]]
    <3>3. ASSUME NEW i \in k..(N + 1) PROVE g[i] = Scan(g, i)
      <4>1. CASE i = N + 1
        <5>1. i \in 1..(N + 1) /\ i # k /\ i \in (k + 1)..(N + 1) /\ i > N
          BY <1>0, <2>2, <4>1
        <5>2. g[i] = f[i]
          BY <5>1
        <5>3. f[i] = Scan(f, i)
          BY <3>2, <5>1
        <5> HIDE DEF g
        <5> QED
          BY <5>1, <5>2, <5>3 DEF Scan
      <4>2. CASE i # N + 1
        <5>1. i \in 1..N
          BY <1>0, <4>2
        <5>2. Behind(i) \in (i + 1)..(N + 1)
          BY <5>1, BehindIs
        <5>3. Behind(i) \in 1..(N + 1) /\ Behind(i) # k
          BY <1>0, <5>1, <5>2
        <5>4. g[Behind(i)] = f[Behind(i)]
          BY <5>3
        <5>5. g[i] = Scan(f, i)
          <6>1. CASE i = k
            BY <1>0, <6>1
          <6>2. CASE i # k
            <7>1. i \in (k + 1)..(N + 1) /\ i \in 1..(N + 1)
              BY <1>0, <6>2
            <7> QED
              BY <3>2, <6>2, <7>1
          <6> QED
            BY <6>1, <6>2
        <5> HIDE DEF g
        <5> QED
          BY <5>4, <5>5 DEF Scan
      <4> QED
        BY <4>1, <4>2
    <3>4. g = [i \in 1..(N + 1) |-> g[i]]
      OBVIOUS
    <3> HIDE DEF g
    <3>5. Good(g, k)
      BY <3>3, <3>4
    <3> QED
      BY <3>5
  <2> QED
    BY <2>1, <2>2
<1>2. 1..(N + 1) \subseteq B
  <2> DEFINE n == N + 1
  <2>1. n \in Nat /\ B \in SUBSET (1..n)
    BY <1>0
  <2>2. \A k \in 1..n : (\A j \in (k + 1)..n : j \in B) => k \in B
    BY <1>1
  <2> HIDE DEF n, B
  <2>3. 1..n \subseteq B
    BY <2>1, <2>2, Downward
  <2> QED
    BY <2>3 DEF n
<1>3. 1 \in B
  BY <1>0, <1>2
<1>4. PICK f : Good(f, 1)
  BY <1>3
<1>5. f = [i \in 1..(N + 1) |-> f[i]] /\ \A i \in 1..(N + 1) : f[i] = Scan(f, i)
  BY <1>4
<1>6. f = [i \in 1..(N + 1) |-> Scan(f, i)]
  BY <1>5
<1> QED
  BY <1>6

(* The scan finds codes only, and the longest of every place no code       *)
(* reaches from before.                                                    *)
LEMMA DottedIs ==
  ASSUME text \in Seq(Runs)
  PROVE  /\ DottedSpans \subseteq Codes
         /\ \A a \in 1..Len(text) : (a > 1 => text[a].before # "dot") =>
              Longest(a) \subseteq DottedSpans
<1> DEFINE N == Len(text)
           f == CHOOSE g : g = [i \in 1..(N + 1) |-> Scan(g, i)]
<1>0. N \in Nat
  OBVIOUS
<1>1. f = [i \in 1..(N + 1) |-> Scan(f, i)]
  BY ScanExists
<1>2. DottedSpans = f[1]
  BY DEF DottedSpans, Scan
<1> HIDE DEF f
<1>3. \A i \in 1..(N + 1) : f[i] = Scan(f, i)
  BY <1>1
<1>4. f[N + 1] = {}
  <2>1. N + 1 \in 1..(N + 1) /\ N + 1 > Len(text)
    BY <1>0
  <2>2. f[N + 1] = Scan(f, N + 1)
    BY <1>3, <2>1
  <2> QED
    BY <2>1, <2>2 DEF Scan
<1>5. \A i \in 1..N : f[i] = Longest(i) \union f[Behind(i)] /\ Behind(i) \in (i + 1)..(N + 1)
  <2> TAKE i \in 1..N
  <2>1. i \in 1..(N + 1) /\ ~(i > Len(text))
    BY <1>0
  <2>2. f[i] = Scan(f, i)
    BY <1>3, <2>1
  <2>3. Behind(i) \in (i + 1)..(N + 1)
    BY BehindIs
  <2> QED
    BY <2>1, <2>2, <2>3 DEF Scan
<1>6. \A i \in 1..(N + 1) : f[i] \subseteq Codes
  <2> DEFINE n == N + 1
             B == {i \in 1..n : f[i] \subseteq Codes}
  <2>1. n \in Nat /\ B \in SUBSET (1..n)
    BY <1>0
  <2>2. ASSUME NEW i \in 1..n, \A j \in (i + 1)..n : j \in B PROVE i \in B
    <3>1. CASE i = N + 1
      BY <1>4, <3>1
    <3>2. CASE i # N + 1
      <4>1. i \in 1..N
        BY <1>0, <3>2
      <4>2. f[Behind(i)] \subseteq Codes
        BY <1>5, <2>2, <4>1
      <4> QED
        BY <1>5, <4>1, <4>2, LongestIs
    <3> QED
      BY <3>1, <3>2
  <2>3. 1..n \subseteq B
    <3> HIDE DEF n, B
    <3> QED
      BY <2>1, <2>2, Downward
  <2> QED
    BY <2>3
<1>7. ASSUME NEW a \in 1..N, a > 1 => text[a].before # "dot" PROVE Longest(a) \subseteq DottedSpans
  <2> DEFINE B == {i \in 1..a : Longest(a) \subseteq f[i]}
  <2>1. a \in Nat /\ B \in SUBSET (1..a)
    OBVIOUS
  <2>2. ASSUME NEW i \in 1..a, \A j \in (i + 1)..a : j \in B PROVE i \in B
    <3>1. CASE i = a
      BY <1>5, <3>1
    <3>2. CASE i # a
      <4>1. i \in 1..N /\ i < a /\ a > 1
        BY <1>0, <3>2
      <4>2. Behind(i) \in (i + 1)..a
        <5>1. Behind(i) <= a
          BY <1>7, <4>1, BehindIs
        <5> QED
          BY <1>5, <4>1, <5>1
      <4>3. Longest(a) \subseteq f[Behind(i)]
        BY <2>2, <4>2
      <4> QED
        BY <1>5, <4>1, <4>3
    <3> QED
      BY <3>1, <3>2
  <2>3. 1..a \subseteq B
    <3> HIDE DEF B
    <3> QED
      BY <2>1, <2>2, Downward
  <2>4. 1 \in 1..a
    BY <1>0
  <2> QED
    BY <1>2, <2>3, <2>4
<1> QED
  BY <1>0, <1>2, <1>6, <1>7

-----------------------------------------------------------------------------
(* What the passes recognize.                                              *)

LEMMA ZipIs ==
  ASSUME text \in Seq(Runs), NEW s \in ZipSpans
  PROVE  /\ s \in Spans /\ s[1] \in Nat /\ s[2] = s[1] + 1
         /\ text[s[1]].size = 5 /\ text[s[2]].size = 4
<1>1. s \in Spans /\ Sizes(s) = <<5, 4>>
  BY DEF ZipSpans
<1>2. Len(Sizes(s)) = 2 /\ Sizes(s)[0 + 1] = 5 /\ Sizes(s)[1 + 1] = 4
  BY <1>1
<1> DEFINE a == s[1]
           b == s[2]
<1>3. /\ a \in Nat /\ b \in Nat
      /\ b = a + 2 - 1
      /\ \A k \in 0..(2 - 1) : text[a + k].size = Sizes(s)[k + 1]
  BY <1>1, <1>2, SizedIs
<1> HIDE DEF a, b
<1>4. b = a + 1 /\ a + 0 = a
  BY <1>3
<1>5. text[a + 0].size = Sizes(s)[0 + 1] /\ text[a + 1].size = Sizes(s)[1 + 1]
  BY <1>3
<1> QED
  BY <1>1, <1>2, <1>3, <1>4, <1>5 DEF a, b

(* The runs of a number of three, and of one.                              *)
LEMMA ThreeAre ==
  ASSUME text \in Seq(Runs), NEW s \in Spans,
         NEW x, NEW y, NEW z, Sizes(s) = <<x, y, z>>
  PROVE  /\ s[1] \in Nat /\ s[2] = s[1] + 2
         /\ text[s[1]].size = x /\ text[s[1] + 1].size = y /\ text[s[1] + 2].size = z
<1>1. /\ Len(Sizes(s)) = 3
      /\ Sizes(s)[0 + 1] = x /\ Sizes(s)[1 + 1] = y /\ Sizes(s)[2 + 1] = z
  OBVIOUS
<1> DEFINE a == s[1]
           b == s[2]
<1>2. /\ a \in Nat /\ b \in Nat
      /\ b = a + 3 - 1
      /\ \A k \in 0..(3 - 1) : text[a + k].size = Sizes(s)[k + 1]
  BY <1>1, SizedIs
<1> HIDE DEF a, b
<1>3. b = a + 2 /\ a + 0 = a
  BY <1>2
<1>4. /\ text[a + 0].size = Sizes(s)[0 + 1] /\ text[a + 1].size = Sizes(s)[1 + 1]
      /\ text[a + 2].size = Sizes(s)[2 + 1]
  BY <1>2
<1> QED
  BY <1>1, <1>2, <1>3, <1>4 DEF a, b

LEMMA OneIs ==
  ASSUME text \in Seq(Runs), NEW s \in Spans, NEW x, Sizes(s) = <<x>>
  PROVE  s[1] \in Nat /\ s[2] = s[1] /\ text[s[1]].size = x
<1>1. Len(Sizes(s)) = 1 /\ Sizes(s)[0 + 1] = x
  OBVIOUS
<1> DEFINE a == s[1]
           b == s[2]
<1>2. /\ a \in Nat /\ b \in Nat
      /\ b = a + 1 - 1
      /\ \A k \in 0..(1 - 1) : text[a + k].size = Sizes(s)[k + 1]
  BY <1>1, SizedIs
<1> HIDE DEF a, b
<1>3. b = a /\ a + 0 = a
  BY <1>2
<1>4. text[a + 0].size = Sizes(s)[0 + 1]
  BY <1>2
<1> QED
  BY <1>1, <1>2, <1>3, <1>4 DEF a, b

(* A number whose last run no dot follows, and whose first no dot joins to *)
(* what is before it, has no code upon it, unless one begins within it and *)
(* ends there.                                                             *)
LEMMA NoCodeUpon ==
  ASSUME text \in Seq(Runs), NEW s \in Spans, ~Joined(s), NEW c \in Codes, Overlap(s, c)
  PROVE  /\ s[1] <= c[1] /\ c[2] <= s[2]
         /\ c[1] < c[2] /\ c[1] \in s[1]..s[2]
<1>1. /\ s[1] \in 1..Len(text) /\ s[2] \in 1..Len(text) /\ s[1] <= s[2]
      /\ c[1] \in 1..Len(text) /\ c[2] \in 1..Len(text) /\ c[1] < c[2]
      /\ Len(text) \in Nat
  BY CodeIs, SpanIs
<1>2. s[1] <= c[2] /\ c[1] <= s[2]
  BY DEF Overlap
<1>3. s[1] <= c[1]
  <2> SUFFICES ASSUME c[1] < s[1] PROVE FALSE
    BY <1>1
  <2>1. text[s[1]].before = "dot"
    BY <1>1, <1>2, Crossing
  <2>2. s[1] > 1
    BY <1>1
  <2> QED
    BY <2>1, <2>2 DEF Joined
<1>4. c[2] <= s[2]
  <2> SUFFICES ASSUME s[2] < c[2] PROVE FALSE
    BY <1>1
  <2>1. s[2] + 1 \in 1..Len(text) /\ c[1] < s[2] + 1 /\ s[2] + 1 <= c[2] /\ s[2] < Len(text)
    BY <1>1, <1>2
  <2>2. text[s[2] + 1].before = "dot"
    BY <2>1, Crossing
  <2> QED
    BY <2>1, <2>2 DEF Joined
<1> QED
  BY <1>1, <1>2, <1>3, <1>4

LEMMA RecognizedIs ==
  ASSUME NEW m \in Recognizable
  PROVE  /\ m.span \in Spans
         /\ m.entity = "US_SSN" =>
              \/ SsnForm(m.span) /\ m.score = 85
              \/ m.span \in ZipSpans
              \/ Sizes(m.span) = <<9>>
         /\ m.entity = "PHONE_NUMBER" => m.score \in {40, 75}
BY DEF Recognizable, Matched, ZipSpans

LEMMA BehindFour ==
  ASSUME text \in Seq(Runs), NEW s \in Spans, s[1] < s[2], text[s[1]].size = 4,
         \A k \in (s[1] + 1)..s[2] : text[k].before = "dot"
  PROVE  DottedBehindFour(s)
<1> DEFINE a == s[1]
           b == s[2]
<1>1. /\ a \in Nat /\ b \in Nat /\ a < b
      /\ text[a].size = 4
      /\ \A k \in (a + 1)..b : text[k].before = "dot"
      /\ \A k \in 1..(b - a + 1) : Sizes(s)[k] = text[a + k - 1].size
      /\ Befores(s) = {text[k].before : k \in (a + 1)..b}
  BY SpanIs, SizesAre DEF Befores
<1> HIDE DEF a, b
<1>2. 1 \in 1..(b - a + 1) /\ a + 1 - 1 = a
  BY <1>1
<1>3. Sizes(s)[1] = 4
  BY <1>1, <1>2
<1>4. b \in (a + 1)..b
  BY <1>1
<1>5. Befores(s) = {"dot"}
  BY <1>1, <1>4
<1> QED
  BY <1>3, <1>5 DEF DottedBehindFour

(* Nothing that is plainly personal data is dropped by a pass.             *)
LEMMA GenuineKept ==
  ASSUME text \in Seq(Runs), NEW m \in Recognizable, Genuine(m)
  PROVE  /\ ~(m.entity = "PHONE_NUMBER" /\ TariffCode(m))
         /\ ~(m.entity = "US_SSN" /\ \E s \in ZipSpans : Overlap(m.span, s))
         /\ ~(m.score < MinConfidence)
<1> DEFINE a == m.span[1]
           b == m.span[2]
<1>0. /\ m.span \in Spans /\ a \in Nat /\ b \in Nat /\ a <= b
  BY RecognizedIs, SpanIs
<1>3. \A score \in {40, 75, 85} : ~(score < MinConfidence)
  <2>1. MinConfidence \in 0..40
    BY FilterAssumption
  <2> QED
    BY <2>1
<1>1. CASE m.entity = "US_SSN" /\ SsnForm(m.span)
  <2>1. Sizes(m.span) = <<3, 2, 4>>
    BY <1>1 DEF SsnForm
  <2>2. /\ b = a + 2
        /\ text[a].size = 3 /\ text[a + 1].size = 2 /\ text[a + 2].size = 4
    BY <1>0, <2>1, ThreeAre
  <2>3. ASSUME NEW s \in ZipSpans, Overlap(m.span, s) PROVE FALSE
    <3> DEFINE c == s[1]
               d == s[2]
    <3>1. c \in Nat /\ d = c + 1 /\ text[c].size = 5 /\ text[d].size = 4
      BY ZipIs
    <3>2. a <= d /\ c <= b
      BY <2>3 DEF Overlap
    <3> HIDE DEF a, b, c, d
    <3>3. d = a \/ c = a \/ c = a + 1 \/ c = a + 2
      BY <1>0, <2>2, <3>1, <3>2
    <3> QED
      BY <2>2, <3>1, <3>3
  <2>4. m.score = 85
    <3>1. Sizes(m.span) # <<5, 4>> /\ Sizes(m.span) # <<9>>
      <4>1. Len(<<3, 2, 4>>) = 3 /\ Len(<<5, 4>>) = 2 /\ Len(<<9>>) = 1
        OBVIOUS
      <4> QED
        BY <2>1, <4>1
    <3> QED
      BY <1>1, <3>1, RecognizedIs DEF ZipSpans
  <2>5. ~(m.score < MinConfidence)
    BY <1>3, <2>4
  <2> QED
    BY <1>1, <2>3, <2>5
<1>2. CASE /\ m.entity = "PHONE_NUMBER"
           /\ ~Joined(m.span)
           /\ \/ Sizes(m.span) = <<3, 3, 4>>
              \/ Sizes(m.span) = <<10>> /\ text[m.span[1]].before # "key"
           /\ ~\E s \in Spans : DottedBehindFour(s) /\ DigitsOf(s) = DigitsOf(m.span)
  <2>1. \/ /\ b = a + 2
           /\ text[a].size = 3 /\ text[a + 1].size = 3 /\ text[a + 2].size = 4
        \/ b = a /\ text[a].size = 10 /\ text[a].before # "key"
    <3>1. CASE Sizes(m.span) = <<3, 3, 4>>
      BY <1>0, <3>1, ThreeAre
    <3>2. CASE Sizes(m.span) = <<10>> /\ text[m.span[1]].before # "key"
      BY <1>0, <3>2, OneIs
    <3> QED
      BY <1>2, <3>1, <3>2
  <2>2. ASSUME NEW s \in DottedSpans, Overlap(m.span, s) PROVE FALSE
    <3> DEFINE c == s[1]
               d == s[2]
    <3>1. s \in Codes /\ text[c].size = 4
      BY DottedIs, CodeIs
    <3>2. a <= c /\ d <= b /\ c < d
      BY <1>0, <1>2, <2>2, <3>1, NoCodeUpon
    <3>3. c \in Nat /\ d \in Nat
      BY <3>1, CodeIs, SpanIs
    <3> HIDE DEF a, b, c, d
    <3>4. b = a + 2 => c = a \/ c = a + 1
      BY <1>0, <3>2, <3>3
    <3>5. b # a
      BY <1>0, <3>2, <3>3
    <3> QED
      BY <2>1, <3>1, <3>4, <3>5
  <2>3. ASSUME NEW s \in ScheduleSpans, Overlap(m.span, s) PROVE FALSE
    <3>1. PICK i \in DOMAIN text : text[i].before = "key" /\ text[i].size = 10 /\ s = <<i, i>>
      BY DEF ScheduleSpans
    <3>2. i \in Nat /\ a <= i /\ i <= b
      BY <2>3, <3>1 DEF Overlap
    <3> HIDE DEF a, b
    <3>3. /\ b = a + 2 => i = a \/ i = a + 1 \/ i = a + 2
          /\ b = a => i = a
      BY <1>0, <3>2
    <3> QED
      BY <2>1, <3>1, <3>3
  <2>4. ASSUME NEW s \in DottedSpans, DigitsOf(m.span) = DigitsOf(s) PROVE FALSE
    <3>1. /\ s \in Codes /\ s \in Spans /\ s[1] < s[2] /\ text[s[1]].size = 4
          /\ \A k \in (s[1] + 1)..s[2] : text[k].before = "dot"
      BY DottedIs, CodeIs
    <3>2. DottedBehindFour(s)
      BY <3>1, BehindFour
    <3> QED
      BY <1>2, <2>4, <3>1, <3>2
  <2>5. ~TariffCode(m)
    BY <2>2, <2>3, <2>4 DEF TariffCode
  <2>6. m.score \in {40, 75}
    BY <1>2, RecognizedIs
  <2>7. ~(m.score < MinConfidence)
    BY <1>3, <2>6
  <2> QED
    BY <1>2, <2>5, <2>7
<1> QED
  BY <1>1, <1>2 DEF Genuine


LEMMA FourAre ==
  ASSUME text \in Seq(Runs), NEW s \in Spans,
         NEW w, NEW x, NEW y, NEW z, Sizes(s) = <<w, x, y, z>>
  PROVE  /\ s[1] \in Nat /\ s[2] = s[1] + 3
         /\ text[s[1]].size = w /\ text[s[1] + 1].size = x
         /\ text[s[1] + 2].size = y /\ text[s[1] + 3].size = z
<1>1. /\ Len(Sizes(s)) = 4
      /\ Sizes(s)[0 + 1] = w /\ Sizes(s)[1 + 1] = x
      /\ Sizes(s)[2 + 1] = y /\ Sizes(s)[3 + 1] = z
  OBVIOUS
<1> DEFINE a == s[1]
           b == s[2]
<1>2. /\ a \in Nat /\ b \in Nat
      /\ b = a + 4 - 1
      /\ \A k \in 0..(4 - 1) : text[a + k].size = Sizes(s)[k + 1]
  BY <1>1, SizedIs
<1> HIDE DEF a, b
<1>3. b = a + 3 /\ a + 0 = a
  BY <1>2
<1>4. /\ text[a + 0].size = Sizes(s)[0 + 1] /\ text[a + 1].size = Sizes(s)[1 + 1]
      /\ text[a + 2].size = Sizes(s)[2 + 1] /\ text[a + 3].size = Sizes(s)[3 + 1]
  BY <1>2
<1> QED
  BY <1>1, <1>2, <1>3, <1>4 DEF a, b

(* A dotted 4-2-2-2 or 4-2-4 is a code.                                    *)
LEMMA CodeShape ==
  ASSUME text \in Seq(Runs), NEW s \in Spans,
         Sizes(s) \in {<<4, 2, 2, 2>>, <<4, 2, 4>>}, Befores(s) = {"dot"}
  PROVE  s \in Codes
<1> DEFINE a == s[1]
           b == s[2]
<1>1. /\ a \in Nat /\ b \in Nat
      /\ \A k \in (a + 1)..b : text[k].before = "dot"
  <2>1. {text[k].before : k \in (a + 1)..b} = {"dot"}
    BY DEF Befores
  <2>2. a \in Nat /\ b \in Nat
    BY SpanIs
  <2> HIDE DEF a, b
  <2> QED
    BY <2>1, <2>2
<1>2. \/ /\ b = a + 3 /\ text[a].size = 4
         /\ text[a + 1].size = 2 /\ text[a + 2].size = 2 /\ text[a + 3].size = 2
      \/ /\ b = a + 2 /\ text[a].size = 4
         /\ text[a + 1].size = 2 /\ text[a + 2].size = 4
  BY FourAre, ThreeAre
<1> HIDE DEF a, b
<1>3. b - a \in 1..4 /\ text[a].size = 4
  BY <1>1, <1>2
<1>4. ASSUME NEW k \in (a + 1)..b PROVE text[k].size \in 2..4
  <2>1. \/ b = a + 3 /\ (k = a + 1 \/ k = a + 2 \/ k = a + 3)
        \/ b = a + 2 /\ (k = a + 1 \/ k = a + 2)
    BY <1>1, <1>2
  <2>2. text[k].size = 2 \/ text[k].size = 4
    BY <1>1, <1>2, <2>1
  <2> QED
    BY <2>2
<1>5. IsCode(s)
  BY <1>1, <1>3, <1>4 DEF IsCode, a, b
<1> QED
  BY <1>5 DEF Codes

(* What is reported as a phone number and is a tariff code, or as a social *)
(* security number and is a ZIP+4, is caught by the pass for it.           *)
LEMMA LookalikeCaught ==
  ASSUME text \in Seq(Runs), NEW m \in Recognizable
  PROVE  /\ m.entity = "PHONE_NUMBER" /\ ~TariffCode(m) =>
              /\ ~(Sizes(m.span) \in {<<4, 2, 2, 2>>, <<4, 2, 4>>} /\ Befores(m.span) = {"dot"}
                   /\ ~Joined(m.span))
              /\ ~(Sizes(m.span) = <<10>> /\ text[m.span[1]].before = "key")
         /\ m.entity = "US_SSN" /\ (~\E s \in ZipSpans : Overlap(m.span, s)) =>
              Sizes(m.span) # <<5, 4>>
<1> DEFINE s == m.span
           a == m.span[1]
           b == m.span[2]
<1>0. s \in Spans /\ a \in 1..Len(text) /\ b \in 1..Len(text) /\ a <= b /\ Len(text) \in Nat
  BY RecognizedIs, SpanIs
<1>1. ASSUME Sizes(s) \in {<<4, 2, 2, 2>>, <<4, 2, 4>>}, Befores(s) = {"dot"}, ~Joined(s)
      PROVE  TariffCode(m)
  <2>1. s \in Codes
    BY <1>0, <1>1, CodeShape
  <2>2. a > 1 => text[a].before # "dot"
    BY <1>1 DEF Joined
  <2>3. PICK t \in Longest(a) : b <= t[2]
    BY <1>0, <2>1, LongestIs
  <2>4. t \in DottedSpans /\ t[1] = a
    BY <1>0, <2>2, LongestIs, DottedIs
  <2>5. t[2] \in Nat /\ t[1] <= t[2]
    BY <2>4, DottedIs, CodeIs, SpanIs
  <2>6. Overlap(s, t)
    BY <1>0, <2>3, <2>4, <2>5 DEF Overlap
  <2> QED
    BY <2>4, <2>6 DEF TariffCode
<1>2. Sizes(s) = <<10>> /\ text[a].before = "key" => TariffCode(m)
  <2> HAVE Sizes(s) = <<10>> /\ text[a].before = "key"
  <2>1. text[a].size = 10 /\ a \in DOMAIN text
    BY <1>0, OneIs
  <2>2. <<a, a>> \in ScheduleSpans
    BY <2>1 DEF ScheduleSpans
  <2>3. Overlap(s, <<a, a>>)
    BY <1>0 DEF Overlap
  <2> QED
    BY <2>2, <2>3 DEF TariffCode
<1>3. ASSUME m.entity = "US_SSN", Sizes(s) = <<5, 4>> PROVE \E t \in ZipSpans : Overlap(s, t)
  <2>1. <<5, 4>> # <<3, 2, 4>> /\ <<5, 4>> # <<9>>
    <3>1. Len(<<3, 2, 4>>) = 3 /\ Len(<<5, 4>>) = 2 /\ Len(<<9>>) = 1
      OBVIOUS
    <3> QED
      BY <3>1
  <2>2. s \in ZipSpans
    BY <1>3, <2>1, RecognizedIs DEF SsnForm
  <2>3. Overlap(s, s)
    BY <1>0 DEF Overlap
  <2> QED
    BY <2>2, <2>3
<1> QED
  BY <1>1, <1>2, <1>3

-----------------------------------------------------------------------------
(* The invariant: only what a pass drops is missing from what was found,   *)
(* and after a pass nothing of what it drops is left.                      *)
PiiInv ==
  /\ text \in Seq(Runs)
  /\ phase \in {"analyze", "tariff", "zip", "weak", "report"}
  /\ phase = "analyze" => found = {}
  /\ found \subseteq Recognizable
  /\ results \subseteq found
  /\ \A m \in found : Genuine(m) => m \in results
  /\ phase \in {"zip", "weak", "report"} =>
       \A m \in results : ~(m.entity = "PHONE_NUMBER" /\ TariffCode(m))
  /\ phase \in {"weak", "report"} =>
       \A m \in results : ~(m.entity = "US_SSN" /\ \E s \in ZipSpans : Overlap(m.span, s))

(* The text does not change, and with it nothing that is read from it.     *)
LEMMA TextStays ==
  ASSUME text' = text
  PROVE  /\ Spans' = Spans /\ ZipSpans' = ZipSpans /\ Recognizable' = Recognizable
         /\ \A m : Genuine(m)' <=> Genuine(m)
         /\ \A m : TariffCode(m)' <=> TariffCode(m)
<1>1. Spans' = Spans
  BY DEF Spans
<1>2. \A s : Sizes(s)' = Sizes(s)
  BY DEF Sizes
<1>3. \A s : Befores(s)' = Befores(s)
  BY DEF Befores
<1>4. \A s : DigitsOf(s)' = DigitsOf(s)
  BY DEF DigitsOf
<1>5. \A s : IsCode(s)' <=> IsCode(s)
  BY DEF IsCode
<1>6. Codes' = Codes
  BY <1>1, <1>5 DEF Codes
<1>7. \A i : Longest(i)' = Longest(i)
  BY <1>6 DEF Longest
<1>8. \A i : Behind(i)' = Behind(i)
  <2> TAKE i
  <2> DEFINE last(S) == IF S = {} THEN i + 1 ELSE (CHOOSE s \in S : TRUE)[2] + 1
  <2>1. Longest(i)' = Longest(i)
    BY <1>7
  <2>2. Behind(i) = last(Longest(i)) /\ Behind(i)' = last(Longest(i)')
    BY DEF Behind
  <2> HIDE DEF last
  <2> QED
    BY <2>1, <2>2
<1>9. DottedSpans' = DottedSpans
  BY <1>7, <1>8 DEF DottedSpans
<1>10. ScheduleSpans' = ScheduleSpans
  BY DEF ScheduleSpans
<1>11. ZipSpans' = ZipSpans
  BY <1>1, <1>2, <1>3 DEF ZipSpans
<1>12. \A s : SsnForm(s)' <=> SsnForm(s)
  BY <1>2, <1>3 DEF SsnForm
<1>13. \A s : Joined(s)' <=> Joined(s)
  BY DEF Joined
<1>14. \A s : DottedBehindFour(s)' <=> DottedBehindFour(s)
  BY <1>2, <1>3 DEF DottedBehindFour
<1>15. Recognizable' = Recognizable
  BY <1>1, <1>2, <1>4, <1>11, <1>12 DEF Recognizable, Matched
<1>16. \A m : Genuine(m)' <=> Genuine(m)
  BY <1>1, <1>2, <1>4, <1>12, <1>13, <1>14 DEF Genuine
<1>17. \A m : TariffCode(m)' <=> TariffCode(m)
  BY <1>4, <1>9, <1>10 DEF TariffCode, Overlap
<1> QED
  BY <1>1, <1>11, <1>15, <1>16, <1>17

LEMMA PiiInvInductive == FilterSpec => []PiiInv
<1>1. FilterInit => PiiInv
  BY FilterAssumption DEF FilterInit, PiiInv
<1>2. ASSUME PiiInv, [FilterNext]_allFilterVars PROVE PiiInv'
  <2>1. text' = text
    BY <1>2 DEF FilterNext, Analyze, DropTariffCodes, DropZipCodes, DropWeak, Drop, allFilterVars
  <2>2. /\ ZipSpans' = ZipSpans /\ Recognizable' = Recognizable
        /\ \A m : Genuine(m)' <=> Genuine(m)
        /\ \A m : TariffCode(m)' <=> TariffCode(m)
    BY <2>1, TextStays
  <2>3. text \in Seq(Runs)
    BY <1>2 DEF PiiInv
  <2>4. \A m \in Recognizable : Genuine(m) =>
          /\ ~(m.entity = "PHONE_NUMBER" /\ TariffCode(m))
          /\ ~(m.entity = "US_SSN" /\ \E s \in ZipSpans : Overlap(m.span, s))
          /\ ~(m.score < MinConfidence)
    BY <2>3, GenuineKept
  <2>5. CASE Analyze
    <3>1. found' = results' /\ found' \subseteq Recognizable /\ phase' = "tariff"
      BY <2>5 DEF Analyze
    <3> QED
      BY <2>1, <2>2, <2>3, <3>1 DEF PiiInv
  <2>6. CASE DropTariffCodes
    <3>1. /\ phase = "tariff" /\ phase' = "zip" /\ found' = found
          /\ results' = results \ {m \in results : m.entity = "PHONE_NUMBER" /\ TariffCode(m)}
      BY <2>6 DEF DropTariffCodes, Drop
    <3>2. \A m \in found : Genuine(m) => m \in results'
      BY <1>2, <2>4, <3>1 DEF PiiInv
    <3>3. \A m \in results' : ~(m.entity = "PHONE_NUMBER" /\ TariffCode(m))
      BY <3>1
    <3> QED
      BY <1>2, <2>1, <2>2, <3>1, <3>2, <3>3 DEF PiiInv
  <2>7. CASE DropZipCodes
    <3>1. /\ phase = "zip" /\ phase' = "weak" /\ found' = found
          /\ results' = results \ ZipCodes
      BY <2>7 DEF DropZipCodes, Drop
    <3>2. \A m \in found : Genuine(m) => m \in results'
      BY <1>2, <2>4, <3>1 DEF PiiInv, ZipCodes
    <3>3. \A m \in results' :
            ~(m.entity = "US_SSN" /\ \E s \in ZipSpans : Overlap(m.span, s))
      BY <3>1 DEF ZipCodes
    <3>4. ASSUME NEW m \in results', m.entity = "US_SSN", NEW s \in ZipSpans' PROVE ~Overlap(m.span, s)
      BY <2>2, <3>3, <3>4
    <3> QED
      BY <1>2, <2>1, <2>2, <3>1, <3>2, <3>4 DEF PiiInv, Overlap
  <2>8. CASE DropWeak
    <3>1. /\ phase = "weak" /\ phase' = "report" /\ found' = found
          /\ results' = results \ Weak
      BY <2>8 DEF DropWeak, Drop
    <3>2. \A m \in found : Genuine(m) => m \in results'
      BY <1>2, <2>4, <3>1 DEF PiiInv, Weak
    <3> QED
      BY <1>2, <2>1, <2>2, <3>1, <3>2 DEF PiiInv, Overlap
  <2>9. CASE UNCHANGED allFilterVars
    BY <1>2, <2>1, <2>2, <2>9 DEF PiiInv, Overlap, allFilterVars
  <2> QED
    BY <1>2, <2>5, <2>6, <2>7, <2>8, <2>9 DEF FilterNext
<1> QED
  BY <1>1, <1>2, PTL DEF FilterSpec

-----------------------------------------------------------------------------
(* What is plainly personal data, of all that Presidio reports, is         *)
(* reported: whatever else the text holds, none of the three passes drops  *)
(* it.                                                                     *)
THEOREM PersonalDataSurvives == FilterSpec => []GenuineReported
<1>1. PiiInv => GenuineReported
  BY DEF PiiInv, GenuineReported
<1> QED
  BY <1>1, PiiInvInductive, PTL

(* No tariff code is reported as a phone number and no ZIP+4 as a social   *)
(* security number, wherever in a text it stands.                          *)
THEOREM LookalikesNeverReported == FilterSpec => []LookalikesDropped
<1>1. PiiInv => LookalikesDropped
  <2> SUFFICES ASSUME PiiInv, phase = "report", NEW m \in results
               PROVE  /\ m.entity = "PHONE_NUMBER" =>
                           /\ ~(Sizes(m.span) \in {<<4, 2, 2, 2>>, <<4, 2, 4>>}
                                /\ Befores(m.span) = {"dot"} /\ ~Joined(m.span))
                           /\ ~(Sizes(m.span) = <<10>> /\ text[m.span[1]].before = "key")
                      /\ m.entity = "US_SSN" => Sizes(m.span) # <<5, 4>>
    BY DEF LookalikesDropped
  <2>1. /\ text \in Seq(Runs) /\ m \in Recognizable
        /\ ~(m.entity = "PHONE_NUMBER" /\ TariffCode(m))
        /\ ~(m.entity = "US_SSN" /\ \E s \in ZipSpans : Overlap(m.span, s))
    BY DEF PiiInv
  <2> QED
    BY <2>1, LookalikeCaught
<1> QED
  BY <1>1, PiiInvInductive, PTL

===============================================================================
