---------------------------- MODULE PacedLoadProofs ----------------------------
(***************************************************************************)
(* Theorems about the load of one node: the limiter that paces its workers   *)
(* and the profiles the rate comes from, for any number of workers and any    *)
(* profile of intervals; then a fixed-concurrency run, for any number of      *)
(* worker tasks and of requests.                                             *)
(***************************************************************************)
EXTENDS LoadRun, ShapedLoad, FoldTheorems, TLAPS

-------------------------------------------------------------------------------
(* A CSV file: its points are in the order of their times, and the binary     *)
(* search finds the two around a moment.  Both recursions are on numbers.     *)

\* g is the recursive function of Points, on the first n rows.
Reading(rows, n, g) ==
  g = [i \in 0..n |->
         IF i = 0 THEN <<>>
         ELSE IF rows[i].kind = "pair" THEN Append(g[i - 1], rows[i]) ELSE g[i - 1]]

LEMMA ReadingExists ==
  ASSUME NEW rows, NEW n \in Nat
  PROVE  \E g : Reading(rows, n, g)
<1> DEFINE C == {k \in Nat : ~\E g : Reading(rows, k, g)}
<1>1. SUFFICES ASSUME C # {} PROVE FALSE
  OBVIOUS
<1>2. PICK m \in C : \A k \in C : m <= k
  <2>1. C \subseteq Nat
    OBVIOUS
  <2> HIDE DEF C
  <2>2. QED
    BY <1>1, <2>1, LeastNumber
<1>3. m # 0
  <2> DEFINE g == [i \in 0..0 |-> <<>>]
  <2>1. Reading(rows, 0, g)
    BY DEF Reading
  <2>2. QED
    BY <2>1
<1>4. PICK g : Reading(rows, m - 1, g)
  BY <1>2, <1>3
<1> DEFINE body(f, i) == IF i = 0 THEN <<>>
                         ELSE IF rows[i].kind = "pair" THEN Append(f[i - 1], rows[i]) ELSE f[i - 1]
           h == [i \in 0..m |-> IF i = m THEN body(g, m) ELSE g[i]]
<1>5. \A i \in 0..(m - 1) : g[i] = body(g, i)
  BY <1>4 DEF Reading
<1>6. \A i \in 0..m : h[i] = body(h, i)
  <2> SUFFICES ASSUME NEW i \in 0..m PROVE h[i] = body(h, i)
    OBVIOUS
  <2>1. i > 0 => h[i - 1] = g[i - 1]
    OBVIOUS
  <2>2. CASE i = m
    BY <1>3, <2>1, <2>2
  <2>3. CASE i # m
    <3>1. h[i] = g[i] /\ g[i] = body(g, i)
      BY <1>5, <2>3
    <3> HIDE DEF h
    <3>2. QED
      BY <2>1, <3>1
  <2>4. QED
    BY <2>2, <2>3
<1>7. h = [i \in 0..m |-> h[i]]
  OBVIOUS
<1>8. Reading(rows, m, h)
  <2> HIDE DEF h
  <2> QED BY <1>6, <1>7 DEF Reading
<1>9. QED
  BY <1>8

\* What is read of a file is a sequence of rows.
LEMMA PointsAreRows ==
  ASSUME NEW rows \in Seq(Row)
  PROVE  Points(rows) \in Seq(Row)
<1> DEFINE n == Len(rows)
           g == CHOOSE f : Reading(rows, n, f)
           C == {k \in Nat : k <= n /\ g[k] \notin Seq(Row)}
<1>1. Points(rows) = g[n]
  BY DEF Points, Reading
<1>2. n \in Nat /\ Reading(rows, n, g)
  BY ReadingExists
<1> HIDE DEF g
<1>3. \A k \in 0..n : g[k] = IF k = 0 THEN <<>>
                             ELSE IF rows[k].kind = "pair" THEN Append(g[k - 1], rows[k]) ELSE g[k - 1]
  BY <1>2 DEF Reading
<1>4. ASSUME C # {} PROVE FALSE
  <2>1. C \subseteq Nat
    OBVIOUS
  <2>2. PICK m \in C : \A k \in C : m <= k
    <3> HIDE DEF C
    <3> QED BY <1>4, <2>1, LeastNumber
  <2>3. m \in 0..n
    BY <1>2
  <2>4. CASE m = 0
    <3>1. g[m] = <<>> /\ <<>> \in Seq(Row)
      BY <1>3, <2>3, <2>4
    <3>2. QED
      BY <2>2, <3>1
  <2>5. CASE m # 0
    <3>1. m - 1 \in 0..n /\ g[m - 1] \in Seq(Row) /\ rows[m] \in Row
      BY <1>2, <2>2, <2>3, <2>5
    <3>2. Append(g[m - 1], rows[m]) \in Seq(Row)
      BY <3>1
    <3>3. QED
      BY <1>3, <2>3, <2>5, <3>1, <3>2
  <2>6. QED
    BY <2>4, <2>5
<1>5. QED
  BY <1>1, <1>2, <1>4

\* What a loaded file is known to be.
Curve(points) ==
  /\ points \in Seq(Row) /\ points # <<>>
  /\ \A i \in 2..Len(points) : points[i - 1].time <= points[i].time

LEMMA LoadedIsCurve ==
  ASSUME NEW rows \in Seq(Row), Loaded(rows) # Refused
  PROVE  /\ Loaded(rows).kind = "csv" /\ Curve(Loaded(rows).points)
         /\ Loaded(rows).multiplier \in BOOLEAN
<1> DEFINE headed == rows # <<>> /\ rows[1].kind \in {"multiplier", "rate"}
           body == IF headed THEN Tail(rows) ELSE rows
           points == Points(body)
<1>1. body \in Seq(Row)
  OBVIOUS
<1>2. points \in Seq(Row)
  <2> HIDE DEF body
  <2> QED BY <1>1, PointsAreRows
<1>3. ~(points = <<>> \/ \E i \in 2..Len(points) : points[i].time < points[i - 1].time)
  BY DEF Loaded
<1>4. Loaded(rows) = [kind |-> "csv", points |-> points,
                      multiplier |-> headed /\ rows[1].kind = "multiplier"]
  BY DEF Loaded
<1>5. \A i \in 2..Len(points) : points[i - 1].time <= points[i].time
  <2> HIDE DEF points
  <2> SUFFICES ASSUME NEW i \in 2..Len(points) PROVE points[i - 1].time <= points[i].time
    OBVIOUS
  <2>1. points[i] \in Row /\ points[i - 1] \in Row
    BY <1>2
  <2>2. points[i].time \in Int /\ points[i - 1].time \in Int
    BY <2>1 DEF Row
  <2>3. QED
    BY <1>3, <2>2
<1> HIDE DEF points
<1>6. QED
  BY <1>2, <1>3, <1>4, <1>5 DEF Curve

LEMMA RowsOfCurve ==
  ASSUME NEW points, Curve(points)
  PROVE  /\ Len(points) \in Nat \ {0} /\ DOMAIN points = 1..Len(points)
         /\ \A i \in 1..Len(points) : points[i].time \in Int /\ points[i].value \in Int
<1>1. points \in Seq(Row) /\ points # <<>>
  BY DEF Curve
<1>2. \A i \in 1..Len(points) : points[i] \in Row
  BY <1>1
<1>3. QED
  BY <1>1, <1>2 DEF Row

LEMMA TimesGrow ==
  ASSUME NEW points, Curve(points),
         NEW i \in 1..Len(points), NEW j \in 1..Len(points), i <= j
  PROVE  points[i].time <= points[j].time
<1> DEFINE n == Len(points)
           t(k) == points[k].time
           C == {k \in Nat : \E a, b \in 1..n : b - a = k /\ t(a) > t(b)}
<1>1. n \in Nat /\ \A k \in 1..n : t(k) \in Int
  BY RowsOfCurve
<1>2. \A k \in 2..n : t(k - 1) <= t(k)
  BY DEF Curve
<1>3. ASSUME C # {} PROVE FALSE
  <2>1. C \subseteq Nat
    OBVIOUS
  <2>2. PICK m \in C : \A k \in C : m <= k
    <3> HIDE DEF C
    <3> QED BY <1>3, <2>1, LeastNumber
  <2>3. PICK a, b \in 1..n : b - a = m /\ t(a) > t(b)
    BY <2>2
  <2> HIDE DEF t
  <2>4. m \in Nat /\ a # b /\ m # 0 /\ m - 1 \in Nat
    <3>1. m \in Nat
      BY <2>2
    <3> HIDE DEF C
    <3>2. a # b
      BY <1>1, <2>3
    <3>3. QED
      BY <1>1, <2>3, <3>1, <3>2
  <2>5. b \in 2..n /\ b - 1 \in 1..n /\ (b - 1) - a = m - 1
    BY <1>1, <2>3, <2>4
  <2>6. ~(t(a) > t(b - 1))
    <3>1. m - 1 \notin C
      <4> HIDE DEF C
      <4> QED BY <2>2, <2>4
    <3>2. QED
      BY <2>4, <2>5, <3>1
  <2>7. t(b - 1) <= t(b)
    BY <1>2, <2>5
  <2>8. QED
    BY <1>1, <2>3, <2>5, <2>6, <2>7, SMTT(30)
<1>4. j - i \notin C
  BY <1>3
<1>5. j - i \in Nat /\ ~(t(i) > t(j))
  BY <1>1, <1>4
<1>6. QED
  BY <1>1, <1>5

-------------------------------------------------------------------------------
(* The binary search, which stops when its bounds are neighbours.             *)

\* The half of the window w that holds the moment.
Half(points, elapsed, w) ==
  LET mid == (w[1] + w[2]) \div 2
  IN  IF points[mid].time <= elapsed THEN <<mid, w[2]>> ELSE <<w[1], mid>>

\* g is the recursive function of Segment.
Halving(points, elapsed, g) ==
  g = [w \in Windows(points) |->
         IF w[1] >= w[2] - 1 THEN w ELSE g[Half(points, elapsed, w)]]

\* What there is to search.
Width(w) == w[2] - w[1]

LEMMA HalfIsSmaller ==
  ASSUME NEW points, NEW elapsed, NEW n \in Nat, NEW w \in (1..n) \X (1..n), ~(w[1] >= w[2] - 1)
  PROVE  /\ Half(points, elapsed, w) \in (1..n) \X (1..n)
         /\ Width(Half(points, elapsed, w)) < Width(w)
         /\ w[1] <= Half(points, elapsed, w)[1] /\ Half(points, elapsed, w)[2] <= w[2]
         /\ Half(points, elapsed, w)[1] < Half(points, elapsed, w)[2]
         /\ Width(Half(points, elapsed, w)) \in Nat /\ Width(w) \in Nat
<1> DEFINE mid == (w[1] + w[2]) \div 2
<1>1. w[1] \in 1..n /\ w[2] \in 1..n
  OBVIOUS
<1>2. mid \in 1..n /\ w[1] < mid /\ mid < w[2]
  BY <1>1
<1> HIDE DEF mid
<1>3. Half(points, elapsed, w) = IF points[mid].time <= elapsed THEN <<mid, w[2]>> ELSE <<w[1], mid>>
  BY DEF Half, mid
<1>4. CASE points[mid].time <= elapsed
  BY <1>1, <1>2, <1>3, <1>4 DEF Width
<1>5. CASE ~(points[mid].time <= elapsed)
  BY <1>1, <1>2, <1>3, <1>5 DEF Width
<1>6. QED
  BY <1>4, <1>5

\* It is built up from the narrowest windows.
LEMMA HalvingExists ==
  ASSUME NEW points, Curve(points), NEW elapsed
  PROVE  \E g : Halving(points, elapsed, g)
<1> DEFINE n == Len(points)
           D == Windows(points)
           Body(g, w) == IF w[1] >= w[2] - 1 THEN w ELSE g[Half(points, elapsed, w)]
           Upto(k, g) == \A w \in D : Width(w) <= k => g[w] = Body(g, w)
           C == {k \in Nat : ~\E g : Upto(k, g)}
<1>1. n \in Nat \ {0} /\ D = (1..n) \X (1..n)
  BY RowsOfCurve DEF Windows
<1>2. ASSUME C # {} PROVE FALSE
  <2>1. C \subseteq Nat
    OBVIOUS
  <2>2. PICK m \in C : \A k \in C : m <= k
    <3> HIDE DEF C
    <3> QED BY <1>2, <2>1, LeastNumber
  <2>3. m \in Nat /\ ~\E g : Upto(m, g)
    <3> HIDE DEF Upto
    <3> QED BY <2>2
  <2>4. CASE m = 0
    <3> DEFINE g == [w \in D |-> w]
    <3>1. \A w \in D : g[w] = w
      OBVIOUS
    <3> HIDE DEF g
    <3>2. \A w \in D : Width(w) <= 0 => w[1] >= w[2] - 1
      BY <1>1 DEF Width
    <3>3. Upto(m, g)
      BY <2>4, <3>1, <3>2
    <3>4. QED
      BY <2>3, <3>3
  <2>5. CASE m # 0
    <3>1. m - 1 \in Nat /\ m - 1 \notin C
      <4> HIDE DEF C
      <4> QED BY <2>2, <2>3, <2>5
    <3>2. PICK g : Upto(m - 1, g)
      <4> HIDE DEF Upto
      <4> QED BY <3>1
    <3> DEFINE h == [w \in D |-> IF Width(w) <= m - 1 THEN g[w] ELSE Body(g, w)]
    <3>3. \A w \in D : h[w] = IF Width(w) <= m - 1 THEN g[w] ELSE Body(g, w)
      OBVIOUS
    <3> HIDE DEF h
    <3>4. ASSUME NEW w \in D, Width(w) <= m
          PROVE  h[w] = Body(h, w)
      <4>1. h[w] = Body(g, w)
        BY <3>2, <3>3
      <4>2. CASE w[1] >= w[2] - 1
        BY <4>1, <4>2
      <4>3. CASE ~(w[1] >= w[2] - 1)
        <5> DEFINE v == Half(points, elapsed, w)
        <5>1. v \in D /\ Width(v) < Width(w) /\ Width(v) \in Nat /\ Width(w) \in Nat
          BY <1>1, <4>3, HalfIsSmaller
        <5> HIDE DEF v
        <5>2. Width(v) <= m - 1
          BY <2>3, <3>4, <5>1
        <5>3. h[v] = g[v]
          BY <3>3, <5>1, <5>2
        <5>4. QED
          BY <4>1, <4>3, <5>3 DEF v
      <4>4. QED
        BY <4>2, <4>3
    <3>5. Upto(m, h)
      BY <3>4
    <3>6. QED
      <4> HIDE DEF Upto
      <4> QED BY <2>3, <3>5
  <2>6. QED
    BY <2>4, <2>5
<1>3. PICK g : Upto(n, g)
  <2>1. n \notin C
    BY <1>2
  <2> HIDE DEF Upto
  <2>2. QED
    BY <1>1, <2>1
<1> DEFINE f == [w \in D |-> g[w]]
<1>4. \A w \in D : f[w] = Body(f, w)
  <2> SUFFICES ASSUME NEW w \in D PROVE f[w] = Body(f, w)
    OBVIOUS
  <2>1. Width(w) <= n
    BY <1>1 DEF Width
  <2>2. f[w] = g[w] /\ g[w] = Body(g, w)
    BY <1>3, <2>1
  <2>3. ~(w[1] >= w[2] - 1) => f[Half(points, elapsed, w)] = g[Half(points, elapsed, w)]
    BY <1>1, HalfIsSmaller
  <2> HIDE DEF f
  <2>4. QED
    BY <2>2, <2>3
<1>5. f = [w \in D |-> f[w]]
  OBVIOUS
<1> HIDE DEF f
<1>6. Halving(points, elapsed, f)
  <2>1. f = [w \in D |-> Body(f, w)]
    BY <1>4, <1>5
  <2>2. QED
    BY <2>1, Zenon DEF Halving
<1>7. QED
  BY <1>6

LEMMA SegmentFound ==
  ASSUME NEW points, Curve(points), NEW elapsed \in Int,
         points[1].time <= elapsed, elapsed < points[Len(points)].time
  PROVE  \E i \in 1..(Len(points) - 1) :
           /\ Segment(points, elapsed) = <<i, i + 1>>
           /\ points[i].time <= elapsed /\ elapsed < points[i + 1].time
<1> DEFINE n == Len(points)
           D == Windows(points)
           t(k) == points[k].time
           g == CHOOSE f : Halving(points, elapsed, f)
           Found(w) == \E i \in 1..(n - 1) : g[w] = <<i, i + 1>> /\ t(i) <= elapsed /\ elapsed < t(i + 1)
           Around(w) == w[1] < w[2] /\ t(w[1]) <= elapsed /\ elapsed < t(w[2])
           C == {k \in Nat : \E w \in D : Width(w) = k /\ Around(w) /\ ~Found(w)}
<1>1. n \in Nat \ {0} /\ D = (1..n) \X (1..n) /\ \A k \in 1..n : t(k) \in Int
  BY RowsOfCurve DEF Windows
<1>2. Segment(points, elapsed) = g[<<1, n>>]
  BY DEF Segment, Halving, Half
<1>3. \A w \in D : g[w] = IF w[1] >= w[2] - 1 THEN w ELSE g[Half(points, elapsed, w)]
  <2>1. Halving(points, elapsed, g)
    BY HalvingExists
  <2> HIDE DEF g
  <2>2. QED
    BY <2>1, Zenon DEF Halving
<1> HIDE DEF g
<1>4. ASSUME C # {} PROVE FALSE
  <2>1. C \subseteq Nat
    OBVIOUS
  <2>2. PICK m \in C : \A k \in C : m <= k
    <3> HIDE DEF C
    <3> QED BY <1>4, <2>1, LeastNumber
  <2>3. m \in Nat /\ \E w \in D : Width(w) = m /\ Around(w) /\ ~Found(w)
    <3> HIDE DEF Around, Found
    <3> QED BY <2>2
  <2>4. PICK w \in D : Width(w) = m /\ Around(w) /\ ~Found(w)
    BY <2>3
  <2>5. w[1] \in 1..n /\ w[2] \in 1..n /\ w = <<w[1], w[2]>> /\ w[1] < w[2]
    BY <1>1, <2>4
  <2>6. CASE w[1] >= w[2] - 1
    <3>1. w[2] = w[1] + 1 /\ w[1] \in 1..(n - 1)
      BY <1>1, <2>5, <2>6
    <3>2. g[w] = <<w[1], w[1] + 1>>
      BY <1>3, <2>5, <2>6, <3>1
    <3>3. QED
      BY <2>4, <3>1, <3>2
  <2>7. CASE ~(w[1] >= w[2] - 1)
    <3> DEFINE v == Half(points, elapsed, w)
               mid == (w[1] + w[2]) \div 2
    <3>1. /\ v \in D /\ v[1] < v[2] /\ g[w] = g[v]
          /\ Width(v) < Width(w) /\ Width(v) \in Nat /\ Width(w) \in Nat
      BY <1>1, <1>3, <2>7, HalfIsSmaller
    <3>2. v = IF t(mid) <= elapsed THEN <<mid, w[2]>> ELSE <<w[1], mid>>
      BY DEF Half
    <3>3. mid \in 1..n
      BY <1>1, <2>5
    <3> HIDE DEF mid
    <3>4. t(v[1]) <= elapsed /\ elapsed < t(v[2])
      <4>1. CASE t(mid) <= elapsed
        BY <2>4, <3>2, <4>1
      <4>2. CASE ~(t(mid) <= elapsed)
        BY <1>1, <2>4, <3>2, <3>3, <4>2, SMTT(30)
      <4>3. QED
        BY <4>1, <4>2
    <3> HIDE DEF v
    <3>5. Around(v)
      BY <3>1, <3>4
    <3>6. Width(v) \in Nat /\ Width(v) < m
      BY <2>4, <3>1
    <3>7. ~Found(v)
      BY <2>4, <3>1
    <3>8. Width(v) \in C
      <4> HIDE DEF Around, Found
      <4> QED BY <3>1, <3>5, <3>6, <3>7
    <3>9. QED
      <4> HIDE DEF C
      <4> QED BY <2>2, <2>3, <3>6, <3>8
  <2>8. QED
    BY <2>6, <2>7
<1>5. n > 1
  BY <1>1
<1>6. Found(<<1, n>>)
  <2>1. <<1, n>> \in D /\ Width(<<1, n>>) \in Nat /\ Around(<<1, n>>)
    BY <1>1, <1>5 DEF Width
  <2>2. Width(<<1, n>>) \notin C
    BY <1>4
  <2> HIDE DEF Found, Around
  <2>3. QED
    BY <2>1, <2>2
<1>7. QED
  BY <1>2, <1>6

\* The two ways to write a point of the line through (s, a) and (t, b).
LEMMA Interpolation ==
  ASSUME NEW a \in Int, NEW b \in Int, NEW s \in Int, NEW t \in Int, NEW e \in Int
  PROVE  a * (t - s) + (b - a) * (e - s) = a * (t - e) + b * (e - s)
<1>1. a * (t - s) = a * (t - e) + a * (e - s)
  OBVIOUS
<1>2. (b - a) * (e - s) = b * (e - s) - a * (e - s)
  OBVIOUS
<1>3. a * (e - s) \in Int /\ a * (t - e) \in Int /\ b * (e - s) \in Int
  OBVIOUS
<1>4. QED
  BY <1>1, <1>2, <1>3

LEMMA CsvIsOnTheLine ==
  ASSUME NEW points, Curve(points), NEW elapsed \in Int
  PROVE  /\ OnTheLine(points, elapsed, CsvValue(points, elapsed))
         /\ CsvValue(points, elapsed) \in Int \X Int
<1> DEFINE n == Len(points)
           t(k) == points[k].time
           v(k) == points[k].value
           x == CsvValue(points, elapsed)
<1>1. /\ n \in Nat \ {0} /\ 1 \in 1..n /\ n \in 1..n
      /\ \A k \in 1..n : t(k) \in Int /\ v(k) \in Int
  BY RowsOfCurve
<1>2. CASE elapsed <= t(1)
  <2>1. x = <<v(1), 1>>
    BY <1>2 DEF CsvValue
  <2> HIDE DEF x
  <2>2. QED
    BY <1>1, <1>2, <2>1 DEF OnTheLine, Equal, x
<1>3. CASE elapsed > t(1) /\ elapsed >= t(n)
  <2>1. x = <<v(n), 1>>
    BY <1>1, <1>3 DEF CsvValue
  <2>2. \A i \in 1..(n - 1) : ~(elapsed < t(i + 1))
    <3> SUFFICES ASSUME NEW i \in 1..(n - 1), elapsed < t(i + 1) PROVE FALSE
      OBVIOUS
    <3>1. i + 1 \in 1..n /\ i + 1 <= n
      BY <1>1
    <3>2. t(i + 1) <= t(n)
      BY <1>1, <3>1, TimesGrow
    <3>3. QED
      BY <1>1, <1>3, <3>1, <3>2
  <2> HIDE DEF x
  <2>3. QED
    BY <1>1, <1>3, <2>1, <2>2 DEF OnTheLine, Equal, x
<1>4. CASE elapsed > t(1) /\ elapsed < t(n)
  <2>1. t(1) <= elapsed
    BY <1>1, <1>4
  <2>2. PICK i \in 1..(n - 1) : Segment(points, elapsed) = <<i, i + 1>> /\ t(i) <= elapsed /\ elapsed < t(i + 1)
    BY <1>4, <2>1, SegmentFound
  <2>3. i \in 1..n /\ i + 1 \in 1..n
    BY <1>1
  <2>4. x = <<v(i) * (t(i + 1) - t(i)) + (v(i + 1) - v(i)) * (elapsed - t(i)), t(i + 1) - t(i)>>
    <3>1. ~(elapsed <= t(1)) /\ ~(elapsed >= t(n)) /\ t(i) # t(i + 1)
      BY <1>1, <1>4, <2>2, <2>3
    <3>2. Segment(points, elapsed)[1] = i /\ Segment(points, elapsed)[2] = i + 1
      BY <2>2
    <3>3. QED
      BY <3>1, <3>2 DEF CsvValue
  <2>5. \A j \in 1..(n - 1) : t(j) <= elapsed /\ elapsed < t(j + 1) => j = i
    <3> SUFFICES ASSUME NEW j \in 1..(n - 1), t(j) <= elapsed, elapsed < t(j + 1), j # i PROVE FALSE
      OBVIOUS
    <3>1. j \in 1..n /\ j + 1 \in 1..n
      BY <1>1
    <3>2. CASE j < i
      <4>1. t(j + 1) <= t(i)
        BY <2>3, <3>1, <3>2, TimesGrow
      <4>2. QED
        BY <1>1, <2>2, <2>3, <3>1, <4>1
    <3>3. CASE i < j
      <4>1. t(i + 1) <= t(j)
        BY <2>3, <3>1, <3>3, TimesGrow
      <4>2. QED
        BY <1>1, <2>2, <2>3, <3>1, <4>1
    <3>4. QED
      BY <2>3, <3>1, <3>2, <3>3
  <2> DEFINE d == t(i + 1) - t(i)
             y == v(i) * (t(i + 1) - elapsed) + v(i + 1) * (elapsed - t(i))
  <2>6. d \in Int /\ y \in Int /\ x = <<y, d>>
    <3>1. t(i) \in Int /\ t(i + 1) \in Int /\ v(i) \in Int /\ v(i + 1) \in Int
      BY <1>1, <2>3
    <3> HIDE DEF t, v
    <3>2. QED
      BY <2>4, <3>1, Interpolation, SMTT(30)
  <2>7. Equal(Product(x, <<d, 1>>), <<y, 1>>)
    <3> HIDE DEF d, y, x
    <3> QED BY <2>6 DEF Equal, Product
  <2>8. \A j \in 1..(n - 1) :
          t(1) < elapsed /\ t(j) <= elapsed /\ elapsed < t(j + 1) =>
            Equal(Product(x, <<t(j + 1) - t(j), 1>>),
                  <<v(j) * (t(j + 1) - elapsed) + v(j + 1) * (elapsed - t(j)), 1>>)
    <3> HIDE DEF x
    <3> QED BY <2>5, <2>7
  <2>9. x \in Int \X Int
    <3> HIDE DEF d, y, x
    <3> QED BY <2>6
  <2>10. ~(elapsed <= t(1)) /\ ~(elapsed >= t(n))
    BY <1>1, <1>4
  <2> HIDE DEF x
  <2>11. OnTheLine(points, elapsed, x)
    BY <2>8, <2>10 DEF OnTheLine
  <2>12. QED
    BY <2>9, <2>11 DEF x
<1>5. QED
  BY <1>1, <1>2, <1>3, <1>4

-------------------------------------------------------------------------------
(* A profile that is a part of --rate is linear in it.                        *)

Rational == Int \X Int

LEMMA ProductIsRational ==
  ASSUME NEW x \in Rational, NEW y \in Rational
  PROVE  Product(x, y) \in Rational /\ Total(x, y) \in Rational /\ Rest(x) \in Rational
  BY DEF Product, Total, Rest, Rational

LEMMA CyclePositionIsRational ==
  ASSUME NEW cycles \in Fraction, NEW elapsed \in Nat, NEW duration \in Nat \ {0}
  PROVE  CyclePosition(cycles, elapsed, duration) \in Rational
<1>1. cycles[1] \in Int /\ cycles[2] \in Nat \ {0}
  BY DEF Fraction
<1> DEFINE m == duration * cycles[2]
           a == elapsed * cycles[1]
<1>2. m \in Nat \ {0} /\ a \in Int
  BY <1>1
<1> HIDE DEF m, a
<1>3. a % m \in Int
  BY <1>2
<1>4. QED
  BY <1>2, <1>3 DEF CyclePosition, Rational, m, a

\* What the parser makes of a specification, and that a node makes the same of it.
ProfileKind(p) ==
  \/ p.kind = "csv" /\ Curve(p.points) /\ p.multiplier \in BOOLEAN
  \/ p.kind = "step"
  \/ p.kind \in {"sawtooth", "square", "spike"} /\ \A k \in DOMAIN Defaults[p.kind] : p.value[k] \in Fraction

LEMMA BuiltIsKnown ==
  ASSUME NEW s, s.name \in {"sawtooth", "square", "spike"}, Built(s) # Refused,
         \A k \in DOMAIN s.params : s.params[k] = Refused \/ s.params[k] \in Fraction
  PROVE  /\ Built(s).kind = s.name /\ Built(s).spec = s
         /\ \A k \in DOMAIN Defaults[s.name] : Built(s).value[k] \in Fraction
<1> DEFINE known == Defaults[s.name]
           names(key) == {k \in DOMAIN s.params : Alias(k) = key}
           value == [key \in DOMAIN known |->
                       IF names(key) = {} THEN known[key] ELSE s.params[CHOOSE k \in names(key) : TRUE]]
<1>1. /\ \A k \in DOMAIN s.params : s.params[k] # Refused
      /\ Built(s) = [kind |-> s.name, spec |-> s, value |-> value]
  BY DEF Built
<1>2. ASSUME NEW key \in DOMAIN known PROVE value[key] \in Fraction
  <2>1. known[key] \in Fraction
    BY DEF Defaults, Fraction
  <2>2. names(key) # {} => (CHOOSE k \in names(key) : TRUE) \in DOMAIN s.params
    OBVIOUS
  <2> HIDE DEF known, names
  <2>3. QED
    BY <1>1, <2>1, <2>2
<1> HIDE DEF value
<1>3. QED
  BY <1>1, <1>2

LEMMA ParsedKind ==
  ASSUME NEW s \in Specs, Parsed(s) # Refused
  PROVE  ProfileKind(Parsed(s)) /\ Received(Sent(Parsed(s))) = Parsed(s)
<1>1. SpecKind(s)
  BY ShapedAssumption
<1>2. CASE s.name = "csv"
  <2>0. s.name # "step" /\ s.name \notin DOMAIN Defaults
    BY <1>2 DEF Defaults
  <2>1. Parsed(s) = Loaded(s.file) /\ s.file \in Seq(Row)
    <3>1. Parsed(s) = Loaded(s.file)
      BY <1>2, <2>0, Zenon DEF Parsed
    <3>2. s.file \in Seq(Row)
      BY <1>1, <1>2, <2>0, Zenon DEF SpecKind
    <3>3. QED
      BY <3>1, <3>2
  <2>2. ProfileKind(Parsed(s)) /\ Parsed(s).kind = "csv"
    BY <2>1, LoadedIsCurve DEF ProfileKind
  <2>3. QED
    BY <2>2 DEF Sent, Received
<1>3. CASE s.name = "step"
  <2>1. Parsed(s) = Stepped(s)
    <3>1. s.name # "csv" /\ s.name \notin DOMAIN Defaults
      BY <1>3 DEF Defaults
    <3>2. QED
      BY <1>3, <3>1, Zenon DEF Parsed
  <2>2. Parsed(s).kind = "step" /\ Parsed(s).spec = s
    BY <2>1 DEF Stepped
  <2>3. QED
    BY <2>2 DEF Sent, Received, ProfileKind
<1>4. CASE s.name \notin {"csv", "step"}
  <2>1. s.name \in {"sawtooth", "square", "spike"} /\ Parsed(s) = Built(s)
    BY <1>4 DEF Parsed, Defaults
  <2>2. \A k \in DOMAIN s.params : s.params[k] = Refused \/ s.params[k] \in Fraction
    BY <1>1, <1>4 DEF SpecKind
  <2>3. /\ Parsed(s).kind = s.name /\ Parsed(s).spec = s
        /\ \A k \in DOMAIN Defaults[s.name] : Parsed(s).value[k] \in Fraction
    BY <2>1, <2>2, BuiltIsKnown
  <2>4. QED
    BY <2>1, <2>3 DEF Sent, Received, ProfileKind
<1>5. QED
  BY <1>2, <1>3, <1>4

\* The rate of such a profile is --rate times a factor.
LEMMA RelativeIsLinear ==
  ASSUME NEW p, ProfileKind(p), Relative(p), NEW elapsed \in Nat, NEW duration \in Nat
  PROVE  \E f \in Rational : \A base \in Rational : RateAt(p, elapsed, duration, base) = Product(base, f)
<1>0. \A base \in Rational : base = Product(base, <<1, 1>>)
  BY DEF Product, Rational
<1>1. CASE p.kind = "csv"
  <2>1. Curve(p.points) /\ p.multiplier
    BY <1>1 DEF ProfileKind, Relative
  <2>2. CsvValue(p.points, elapsed) \in Rational
    BY <2>1, CsvIsOnTheLine DEF Rational
  <2>3. \A base : RateAt(p, elapsed, duration, base) = Product(base, CsvValue(p.points, elapsed))
    BY <1>1, <2>1 DEF RateAt
  <2>4. QED
    BY <2>2, <2>3
<1>2. CASE p.kind = "spike"
  <2> DEFINE f == IF Less(<<(elapsed * p.value.interval[2]) % p.value.interval[1], p.value.interval[2]>>, p.value.spike_dur)
                  THEN p.value.multiplier ELSE p.value.baseline
  <2>1. p.value.multiplier \in Rational /\ p.value.baseline \in Rational
    BY <1>2 DEF ProfileKind, Defaults, Fraction, Rational
  <2>2. f \in Rational
    BY <2>1
  <2>3. \A base : RateAt(p, elapsed, duration, base) = Product(base, f)
    BY <1>2 DEF RateAt, SpikeRate
  <2>4. QED
    BY <2>2, <2>3
<1>3. CASE p.kind \in {"square", "sawtooth"} /\ duration <= 0
  <2>1. \A base : RateAt(p, elapsed, duration, base) = base
    BY <1>3 DEF RateAt
  <2>2. <<1, 1>> \in Rational
    BY DEF Rational
  <2>3. QED
    BY <1>0, <2>1, <2>2
<1>4. CASE p.kind = "square" /\ ~(duration <= 0)
  <2> DEFINE high == Less(CyclePosition(p.value.cycles, elapsed, duration), <<1, 2>>)
             f == IF high THEN <<1, 1>> ELSE p.value.low_factor
  <2>1. f \in Rational
    BY <1>4 DEF ProfileKind, Defaults, Fraction, Rational
  <2>2. \A base : RateAt(p, elapsed, duration, base) = IF high THEN base ELSE Product(base, p.value.low_factor)
    BY <1>4 DEF RateAt, SquareRate
  <2> HIDE DEF high
  <2>3. QED
    BY <1>0, <2>1, <2>2
<1>5. CASE p.kind = "sawtooth" /\ ~(duration <= 0)
  <2> DEFINE position == CyclePosition(p.value.cycles, elapsed, duration)
             f == Total(p.value.min_factor, Product(Rest(p.value.min_factor), position))
  <2>1. p.value.cycles \in Fraction /\ p.value.min_factor \in Rational
    BY <1>5 DEF ProfileKind, Defaults, Fraction, Rational
  <2>2. position \in Rational
    BY <1>5, <2>1, CyclePositionIsRational
  <2>3. f \in Rational
    <3> HIDE DEF position
    <3> QED BY <2>1, <2>2, ProductIsRational
  <2>4. \A base : RateAt(p, elapsed, duration, base) = Product(base, f)
    BY <1>5 DEF RateAt, SawtoothRate
  <2>5. QED
    BY <2>3, <2>4
<1>6. QED
  BY <1>1, <1>2, <1>3, <1>4, <1>5 DEF ProfileKind, Relative


\* N nodes that each follow the same curve at their part of --rate.
LEMMA PartsAddUp ==
  ASSUME NEW b \in Int, NEW N \in Nat \ {0}, NEW f \in Rational
  PROVE  Equal(Product(<<N, 1>>, Product(<<b, 1 * N>>, f)), Product(<<b, 1>>, f))
<1>1. f[1] \in Int /\ f[2] \in Int
  BY DEF Rational
<1> DEFINE w == b * f[1]
           d == f[2]
<1>2. w \in Int /\ d \in Int
  BY <1>1
<1>3. Product(<<N, 1>>, Product(<<b, 1 * N>>, f)) = <<N * w, N * d>> /\ Product(<<b, 1>>, f) = <<w, d>>
  BY <1>1 DEF Product
<1> HIDE DEF w, d
<1>4. (N * w) * d = w * (N * d)
  BY <1>2
<1>5. QED
  BY <1>3, <1>4 DEF Equal

LEMMA RampsAddUp ==
  ASSUME NEW b \in Int, NEW c \in Int, NEW N \in Nat \ {0}, NEW f \in Rational, NEW g \in Rational
  PROVE  Equal(Product(<<N, 1>>, Total(Product(<<b, 1 * N>>, f), Product(<<c, 1 * N>>, g))),
               Total(Product(<<b, 1>>, f), Product(<<c, 1>>, g)))
<1>1. f[1] \in Int /\ f[2] \in Int /\ g[1] \in Int /\ g[2] \in Int
  BY DEF Rational
<1> DEFINE v == b * f[1]
           w == c * g[1]
           x == f[2]
           y == g[2]
           one == Total(Product(<<b, 1>>, f), Product(<<c, 1>>, g))
           all == Product(<<N, 1>>, Total(Product(<<b, 1 * N>>, f), Product(<<c, 1 * N>>, g)))
<1>2. v \in Int /\ w \in Int /\ x \in Int /\ y \in Int
  BY <1>1
<1>3. /\ one = <<v * y + w * x, x * y>>
      /\ all = <<N * (v * (N * y) + w * (N * x)), (N * x) * (N * y)>>
  BY <1>1 DEF Product, Total
<1> HIDE DEF v, w, x, y, one, all
<1> DEFINE s == v * y + w * x
           d == x * y
<1>4. v * (N * y) + w * (N * x) = N * s /\ (N * x) * (N * y) = N * (N * d)
  <2>1. v * (N * y) = N * (v * y) /\ w * (N * x) = N * (w * x)
    BY <1>2
  <2>2. v * y \in Int /\ w * x \in Int
    BY <1>2
  <2>3. N * (v * y) + N * (w * x) = N * (v * y + w * x)
    BY <2>2
  <2>4. (N * x) * (N * y) = N * (N * (x * y))
    BY <1>2
  <2>5. QED
    BY <2>1, <2>3, <2>4
<1>5. s \in Int /\ d \in Int
  BY <1>2
<1>6. one = <<s, d>> /\ all = <<N * (N * s), N * (N * d)>>
  BY <1>3, <1>4
<1> HIDE DEF s, d
<1>7. (N * (N * s)) * d = s * (N * (N * d))
  BY <1>5
<1>8. Equal(all, one)
  BY <1>6, <1>7 DEF Equal
<1>9. QED
  BY <1>8 DEF all, one

LEMMA ProfilesAddUp ==
  ASSUME NEW p, p # Refused, ProfileKind(p), Relative(p), Received(Sent(p)) = p,
         NEW elapsed \in Nat
  PROVE  Equal(ClusterRate(Shaped(p), elapsed, Nodes), CurrentRate(Shaped(p), elapsed))
<1>1. Duration \in Nat /\ Base \in Nat /\ Nodes \in Nat \ {0}
  BY ShapedAssumption, LimiterAssumption
<1>2. PICK f \in Rational : \A base \in Rational : RateAt(p, elapsed, Duration, base) = Product(base, f)
  BY <1>1, RelativeIsLinear
<1>3. CurrentRate(Shaped(p), elapsed) = RateAt(p, elapsed, Duration, <<Base, 1>>)
  BY Zenon DEF CurrentRate, Shaped
<1> DEFINE mine == NodeLimiter(Shaped(p), Nodes)
<1>4. mine.rate = <<Base, 1 * Nodes>> /\ mine.profile = p /\ mine.duration = Duration
  <2>1. <<Base, 1>> # Refused
    BY DEF Refused
  <2>2. QED
    BY <2>1 DEF NodeLimiter, Shaped
<1>5. CurrentRate(mine, elapsed) = RateAt(p, elapsed, Duration, <<Base, 1 * Nodes>>)
  <2> HIDE DEF mine
  <2> QED BY <1>4, Zenon DEF CurrentRate
<1>6. <<Base, 1>> \in Rational /\ <<Base, 1 * Nodes>> \in Rational
  BY <1>1 DEF Rational
<1>7. ClusterRate(Shaped(p), elapsed, Nodes) = Product(<<Nodes, 1>>, CurrentRate(mine, elapsed))
  BY DEF ClusterRate
<1> HIDE DEF mine
<1>8. /\ ClusterRate(Shaped(p), elapsed, Nodes) = Product(<<Nodes, 1>>, Product(<<Base, 1 * Nodes>>, f))
      /\ CurrentRate(Shaped(p), elapsed) = Product(<<Base, 1>>, f)
  BY <1>2, <1>3, <1>5, <1>6, <1>7
<1>9. QED
  BY <1>1, <1>8, PartsAddUp

LEMMA RampAddsUp ==
  ASSUME NEW end \in Nat, NEW elapsed \in Nat
  PROVE  Equal(ClusterRate(Ramped(end), elapsed, Nodes), CurrentRate(Ramped(end), elapsed))
<1>1. Duration \in Nat /\ Base \in Nat /\ Nodes \in Nat \ {0}
  BY ShapedAssumption, LimiterAssumption
<1> DEFINE mine == NodeLimiter(Ramped(end), Nodes)
           whole == Ramped(end)
           progress == IF elapsed < Duration THEN <<elapsed, Duration>> ELSE <<1, 1>>
<1>2. <<Base, 1>> # Refused /\ <<end, 1>> # Refused /\ <<end, 1 * Nodes>> # Refused
  BY DEF Refused
<1>3. /\ mine.rate = <<Base, 1 * Nodes>> /\ mine.end = <<end, 1 * Nodes>>
      /\ mine.profile = Refused /\ mine.duration = Duration
      /\ whole.rate = <<Base, 1>> /\ whole.end = <<end, 1>>
      /\ whole.profile = Refused /\ whole.duration = Duration
  BY <1>2 DEF NodeLimiter, Ramped
<1>4. ClusterRate(whole, elapsed, Nodes) = Product(<<Nodes, 1>>, CurrentRate(mine, elapsed))
  BY DEF ClusterRate
<1>5. progress \in Rational /\ Rest(progress) \in Rational
  BY <1>1 DEF Rational, Rest
<1> HIDE DEF mine, whole
<1>6. CASE Duration > 0
  <2>1. /\ CurrentRate(whole, elapsed) = Total(Product(<<Base, 1>>, Rest(progress)), Product(<<end, 1>>, progress))
        /\ CurrentRate(mine, elapsed) = Total(Product(<<Base, 1 * Nodes>>, Rest(progress)),
                                              Product(<<end, 1 * Nodes>>, progress))
    BY <1>2, <1>3, <1>6, Zenon DEF CurrentRate
  <2> HIDE DEF progress
  <2>2. QED
    BY <1>1, <1>4, <1>5, <2>1, RampsAddUp DEF whole
<1>7. CASE ~(Duration > 0)
  <2>1. CurrentRate(whole, elapsed) = <<Base, 1>> /\ CurrentRate(mine, elapsed) = <<Base, 1 * Nodes>>
    BY <1>3, <1>7, Zenon DEF CurrentRate
  <2>2. <<Base, 1>> = Product(<<Base, 1>>, <<1, 1>>) /\ <<Base, 1 * Nodes>> = Product(<<Base, 1 * Nodes>>, <<1, 1>>)
    BY <1>1 DEF Product
  <2>3. <<1, 1>> \in Rational
    BY DEF Rational
  <2>4. QED
    BY <1>1, <1>4, <2>1, <2>2, <2>3, PartsAddUp DEF whole
<1>8. QED
  BY <1>6, <1>7

LEMMA ClockIsEnough == LimiterTypeOK => RateIsAsDrawn
<1> SUFFICES ASSUME LimiterTypeOK, start # NotStarted PROVE RateIsAsDrawn
  BY DEF RateIsAsDrawn
<1>1. Elapsed \in Nat
  BY DEF Elapsed, LimiterTypeOK
<1>2. ASSUME NEW p \in Profiles
      PROVE  /\ p.kind = "csv" => OnTheLine(p.points, Elapsed, CsvValue(p.points, Elapsed))
             /\ Relative(p) => Equal(ClusterRate(Shaped(p), Elapsed, Nodes), CurrentRate(Shaped(p), Elapsed))
  <2>1. p # Refused /\ ProfileKind(p) /\ Received(Sent(p)) = p
    BY ParsedKind DEF Profiles
  <2>2. p.kind = "csv" => Curve(p.points)
    BY <2>1 DEF ProfileKind
  <2>3. QED
    BY <1>1, <2>1, <2>2, CsvIsOnTheLine, ProfilesAddUp
<1>3. ASSUME NEW end \in {0, Base, 3 * Base}
      PROVE  Equal(ClusterRate(Ramped(end), Elapsed, Nodes), CurrentRate(Ramped(end), Elapsed))
  <2>1. end \in Nat
    BY ShapedAssumption
  <2>2. QED
    BY <1>1, <2>1, RampAddsUp
<1>4. QED
  BY <1>2, <1>3 DEF RateIsAsDrawn

-------------------------------------------------------------------------------
(* The clock and the slots.                                                   *)

USE LimiterAssumption

\* The three ways a caller gets its turn, as effects on the state.
LEMMA AcquireCases ==
  ASSUME LimiterTypeOK, NEW c \in Caller, Acquire(c)
  PROVE  \/ First(c)
         \/ PauseAtZero(c)
         \/ \E interval \in 1..MaxInterval :
              ClaimSlot(c, interval) /\ start # NotStarted /\ UNCHANGED <<now, start, strays>>
<1>1. CASE Reserve(c)
  <2>1. now - start \in 0..(Duration - 1)
    BY <1>1 DEF Reserve, Acquire, LimiterTypeOK, NotStarted
  <2>2. Interval[now - start] \in 1..MaxInterval
    BY <1>1, <2>1 DEF Reserve
  <2>3. QED
    BY <1>1, <2>2 DEF Reserve
<1>2. QED
  BY <1>1 DEF Acquire

-------------------------------------------------------------------------------
(* Type correctness.                                                          *)

LEMMA SendTyped ==
  ASSUME LimiterTypeOK, NEW interval \in 0..MaxInterval, Send(interval)
  PROVE  sends' \in Seq([at : Nat, gap : 0..MaxInterval])
<1> DEFINE Entry == [at : Nat, gap : 0..MaxInterval]
<1>1. sends \in Seq(Entry) /\ [at |-> now, gap |-> interval] \in Entry
  BY DEF LimiterTypeOK
<1>2. sends' = Append(sends, [at |-> now, gap |-> interval])
  BY DEF Send
<1> HIDE DEF Entry
<1>3. sends' \in Seq(Entry)
  BY <1>1, <1>2
<1>4. QED
  BY <1>3 DEF Entry

LEMMA AcquireTypeOK ==
  ASSUME LimiterTypeOK, NEW c \in Caller, Acquire(c)
  PROVE  LimiterTypeOK'
<1>1. CASE First(c)
  <2>1. sends' \in Seq([at : Nat, gap : 0..MaxInterval])
    <3>1. 0 \in 0..MaxInterval /\ Send(0)
      BY <1>1 DEF First
    <3>2. QED
      BY <3>1, SendTyped
  <2>2. QED
    BY <1>1, <2>1 DEF First, LimiterTypeOK
<1>2. CASE PauseAtZero(c)
  <2>1. start \in 0..now
    BY <1>2 DEF PauseAtZero, LimiterTypeOK
  <2>2. QED
    BY <1>2, <2>1 DEF PauseAtZero, Sleep, LimiterTypeOK
<1>3. ASSUME NEW interval \in 1..MaxInterval, ClaimSlot(c, interval), UNCHANGED <<now, start, strays>>
      PROVE  LimiterTypeOK'
  <2>0. interval \in 0..MaxInterval
    OBVIOUS
  <2>1. CASE lastTime + interval > now
    <3>1. /\ lastTime' = lastTime + interval /\ UNCHANGED sends
          /\ Sleep(c, "slot", lastTime + interval, interval)
      BY <1>3, <2>1 DEF ClaimSlot, LimiterTypeOK
    <3>2. lastTime + interval \in Nat
      BY DEF LimiterTypeOK
    <3>3. QED
      BY <1>3, <2>0, <3>1, <3>2 DEF Sleep, LimiterTypeOK
  <2>2. CASE lastTime + interval <= now
    <3>1. sends' = Append(sends, [at |-> now, gap |-> interval]) /\ lastTime' = now
          /\ UNCHANGED <<mode, until, gap>>
      BY <1>3, <2>2 DEF ClaimSlot, Send, LimiterTypeOK
    <3>2. sends' \in Seq([at : Nat, gap : 0..MaxInterval])
      BY <2>0, <3>1, SendTyped DEF Send
    <3>3. QED
      BY <1>3, <3>1, <3>2 DEF LimiterTypeOK
  <2>3. QED
    BY <2>1, <2>2 DEF LimiterTypeOK
<1>4. QED
  BY <1>1, <1>2, <1>3, AcquireCases

\* Every reachable state of the limiter is well typed.
THEOREM LimiterTypeCorrect == LimiterSpec => []LimiterTypeOK
<1>1. LimiterInit => LimiterTypeOK
  BY DEF LimiterInit, LimiterTypeOK
<1>2. LimiterTypeOK /\ [LimiterNext]_limiterVars => LimiterTypeOK'
  <2> SUFFICES ASSUME LimiterTypeOK, [LimiterNext]_limiterVars PROVE LimiterTypeOK'
    OBVIOUS
  <2>1. ASSUME NEW c \in Caller, Wake(c) PROVE LimiterTypeOK'
    <3>1. /\ sends' \in Seq([at : Nat, gap : 0..MaxInterval])
          /\ strays' \in [Caller -> Seq(Nat)]
      <4>1. CASE mode[c] = "slot"
        <5>1. gap[c] \in 0..MaxInterval
          BY DEF LimiterTypeOK
        <5>2. QED
          BY <2>1, <4>1, <5>1, SendTyped DEF Wake, LimiterTypeOK
      <4>2. CASE mode[c] # "slot"
        <5>1. UNCHANGED sends /\ SendStray(c)
          BY <2>1, <4>2 DEF Wake
        <5>2. Append(strays[c], now) \in Seq(Nat)
          BY DEF LimiterTypeOK
        <5>3. QED
          BY <5>1, <5>2 DEF SendStray, LimiterTypeOK
      <4>3. QED
        BY <4>1, <4>2
    <3>2. QED
      BY <2>1, <3>1 DEF Wake, LimiterTypeOK
  <2>2. CASE Tick
    BY <2>2 DEF Tick, LimiterTypeOK
  <2>3. CASE UNCHANGED limiterVars
    BY <2>3 DEF limiterVars, LimiterTypeOK
  <2>4. QED
    BY <2>1, <2>2, <2>3, AcquireTypeOK DEF LimiterNext
<1>3. QED
  BY <1>1, <1>2, PTL DEF LimiterSpec

-------------------------------------------------------------------------------
(* The slots are apart: those still slept for, and the last one used.         *)

LastSend == sends[Len(sends)].at

Unstarted == start = NotStarted => sends = <<>> /\ Asleep = {}

\* No slot is overdue, and the last one claimed is the latest.
Due == \A c \in Asleep : now <= until[c] /\ until[c] <= lastTime

Apart(c, d) == until[d] - until[c] >= gap[d] /\ until[c] < until[d]

SlotsApart == \A c, d \in Asleep : c # d => Apart(c, d) \/ Apart(d, c)

AfterLast ==
  sends # <<>> => /\ LastSend \in Nat /\ LastSend <= now /\ LastSend <= lastTime
                  /\ \A c \in Asleep : until[c] - LastSend >= gap[c]

SlotInv == Unstarted /\ Due /\ SlotsApart /\ AfterLast /\ SlotsSpaced

\* A request sent the interval after the last one keeps them spaced.
LEMMA SendKeepsSpaced ==
  ASSUME LimiterTypeOK, SlotsSpaced, NEW interval \in 0..MaxInterval, Send(interval),
         sends # <<>> => now - LastSend >= interval
  PROVE  SlotsSpaced' /\ sends' # <<>> /\ LastSend' = now
<1> DEFINE Entry == [at : Nat, gap : 0..MaxInterval]
<1> DEFINE e == [at |-> now, gap |-> interval]
<1>1. sends' = Append(sends, e) /\ sends \in Seq(Entry) /\ e \in Entry
  BY DEF Send, LimiterTypeOK
<1>2. e.at = now /\ e.gap = interval
  OBVIOUS
<1> HIDE DEF Entry, e
<1>3. /\ Len(sends') = Len(sends) + 1 /\ Len(sends) \in Nat /\ sends' # <<>>
      /\ sends'[Len(sends) + 1] = e
      /\ \A i \in 1..Len(sends) : sends'[i] = sends[i]
      /\ Len(sends) > 0 => sends # <<>>
  <2>1. Len(sends) \in Nat /\ (Len(sends) > 0 => sends # <<>>)
    BY <1>1
  <2>2. /\ Len(sends') = Len(sends) + 1 /\ sends'[Len(sends) + 1] = e
        /\ \A i \in 1..Len(sends) : sends'[i] = sends[i]
    BY <1>1
  <2>3. sends' # <<>>
    <3>1. ASSUME sends' = <<>> PROVE FALSE
      <4>1. Len(sends') = 0
        BY <3>1
      <4>2. QED
        BY <2>1, <2>2, <4>1
    <3>2. QED
      BY <3>1
  <2>4. QED
    BY <2>1, <2>2, <2>3, Zenon
<1>4. ASSUME NEW i \in 1..(Len(sends') - 1)
      PROVE  sends'[i + 1].at - sends'[i].at >= sends'[i + 1].gap
  <2>1. CASE i = Len(sends)
    <3>1. sends # <<>> /\ sends'[i] = sends[Len(sends)] /\ sends'[i + 1] = e
      BY <1>3, <2>1
    <3>2. QED
      BY <1>2, <3>1 DEF LastSend
  <2>2. CASE i # Len(sends)
    <3>1. i \in 1..(Len(sends) - 1) /\ i \in 1..Len(sends) /\ i + 1 \in 1..Len(sends)
      BY <1>3, <2>2
    <3>2. QED
      BY <1>3, <3>1 DEF SlotsSpaced
  <2>3. QED
    BY <2>1, <2>2
<1>5. LastSend' = now
  BY <1>2, <1>3 DEF LastSend
<1>6. QED
  BY <1>3, <1>4, <1>5 DEF SlotsSpaced

\* Going to sleep until a slot, the one after the last.
LEMMA SleepKeepsSlots ==
  ASSUME LimiterTypeOK, SlotInv, NEW c \in Caller, NEW interval \in 1..MaxInterval,
         mode[c] = "awake", start # NotStarted, UNCHANGED <<now, start, sends>>,
         lastTime + interval > now, lastTime' = lastTime + interval,
         Sleep(c, "slot", lastTime + interval, interval)
  PROVE  SlotInv'
<1>1. /\ Asleep' = Asleep \cup {c} /\ c \notin Asleep
      /\ until'[c] = lastTime + interval /\ gap'[c] = interval
      /\ \A d \in Asleep : until'[d] = until[d] /\ gap'[d] = gap[d]
  BY DEF Sleep, Asleep, LimiterTypeOK
<1>2. /\ now \in Nat /\ lastTime \in Nat /\ interval \in Nat /\ interval > 0
      /\ \A d \in Asleep : until[d] \in Nat /\ gap[d] \in Nat
  BY DEF LimiterTypeOK, Asleep
<1>3. \A d \in Asleep : now <= until[d] /\ until[d] <= lastTime
  BY DEF SlotInv, Due
<1>4. Due'
  BY <1>1, <1>2, <1>3 DEF Due
<1>5. SlotsApart'
  <2>1. \A d \in Asleep : Apart(d, c)'
    BY <1>1, <1>2, <1>3 DEF Apart
  <2>2. \A d, e \in Asleep : d # e => Apart(d, e)' \/ Apart(e, d)'
    BY <1>1 DEF SlotInv, SlotsApart, Apart
  <2>3. QED
    BY <1>1, <2>1, <2>2, Zenon DEF SlotsApart
<1>6. AfterLast'
  <2>1. CASE sends # <<>>
    <3>1. /\ LastSend \in Nat /\ LastSend <= now /\ LastSend <= lastTime
          /\ \A d \in Asleep : until[d] - LastSend >= gap[d]
      BY <2>1 DEF SlotInv, AfterLast
    <3>2. LastSend' = LastSend
      BY DEF LastSend
    <3>3. QED
      BY <1>1, <1>2, <3>1, <3>2 DEF AfterLast
  <2>2. QED
    BY <2>1 DEF AfterLast
<1>7. QED
  BY <1>4, <1>5, <1>6 DEF SlotInv, Unstarted, SlotsSpaced

LEMMA AcquireSlots ==
  ASSUME LimiterTypeOK, SlotInv, NEW c \in Caller, Acquire(c)
  PROVE  SlotInv'
<1>0. mode[c] = "awake" /\ now \in Nat /\ lastTime \in Nat
  BY DEF Acquire, LimiterTypeOK
<1>1. CASE First(c)
  <2>1. sends = <<>> /\ Asleep = {} /\ Send(0) /\ 0 \in 0..MaxInterval
    BY <1>1 DEF First, SlotInv, Unstarted
  <2>2. SlotsSpaced' /\ sends' # <<>> /\ LastSend' = now
    BY <2>1, SendKeepsSpaced DEF SlotInv
  <2>3. Asleep' = {} /\ start' = now /\ now' = now /\ lastTime' = now
    BY <1>1, <2>1 DEF First, Asleep
  <2>4. QED
    BY <1>0, <2>2, <2>3 DEF SlotInv, Unstarted, Due, SlotsApart, AfterLast, NotStarted
<1>2. CASE PauseAtZero(c)
  <2>1. UNCHANGED <<now, start, lastTime, sends>> /\ start # NotStarted
    BY <1>2 DEF PauseAtZero
  <2>2. Asleep' = Asleep /\ \A d \in Asleep : until'[d] = until[d] /\ gap'[d] = gap[d]
    BY <1>0, <1>2 DEF PauseAtZero, Sleep, Asleep, LimiterTypeOK
  <2>3. Due' /\ SlotsApart'
    BY <2>1, <2>2 DEF SlotInv, Due, SlotsApart, Apart
  <2>4. AfterLast'
    BY <2>1, <2>2 DEF SlotInv, AfterLast, LastSend
  <2>5. QED
    BY <2>1, <2>3, <2>4 DEF SlotInv, Unstarted, SlotsSpaced
<1>3. ASSUME NEW interval \in 1..MaxInterval, ClaimSlot(c, interval), start # NotStarted,
             UNCHANGED <<now, start>>
      PROVE  SlotInv'
  <2>1. CASE lastTime + interval > now
    BY <1>0, <1>3, <2>1, SleepKeepsSlots DEF ClaimSlot
  <2>2. CASE lastTime + interval <= now
    <3>1. lastTime' = now /\ Send(interval) /\ UNCHANGED <<mode, until, gap>>
      BY <1>0, <1>3, <2>2 DEF ClaimSlot
    <3>2. Asleep = {}
      <4>1. ASSUME NEW d \in Asleep PROVE FALSE
        <5>1. until[d] \in Nat /\ now <= until[d] /\ until[d] <= lastTime
          BY <4>1 DEF SlotInv, Due, LimiterTypeOK, Asleep
        <5>2. QED
          BY <1>0, <2>2, <5>1
      <4>2. QED
        BY <4>1
    <3>3. Asleep' = {}
      BY <3>1, <3>2 DEF Asleep
    <3>4. sends # <<>> => now - LastSend >= interval
      BY <1>0, <2>2 DEF SlotInv, AfterLast
    <3>5. interval \in 0..MaxInterval
      OBVIOUS
    <3>6. SlotsSpaced' /\ sends' # <<>> /\ LastSend' = now
      BY <3>1, <3>4, <3>5, SendKeepsSpaced DEF SlotInv
    <3>7. QED
      BY <1>0, <1>3, <3>1, <3>3, <3>6 DEF SlotInv, Unstarted, Due, SlotsApart, AfterLast
  <2>3. QED
    BY <1>0, <2>1, <2>2
<1>4. QED
  BY <1>1, <1>2, <1>3, AcquireCases

\* A caller that wakes uses its slot at its time, and it was the next one.
LEMMA WakeSlots ==
  ASSUME LimiterTypeOK, SlotInv, NEW c \in Caller, Wake(c)
  PROVE  SlotInv'
<1>0. /\ now \in Nat /\ lastTime \in Nat /\ UNCHANGED <<now, start, lastTime, until, gap>>
      /\ \A d \in Caller : until[d] \in Nat /\ gap[d] \in 0..MaxInterval
  BY DEF Wake, LimiterTypeOK
<1>1. CASE mode[c] = "slot"
  <2>1. c \in Asleep /\ Asleep' = Asleep \ {c} /\ Send(gap[c])
    BY <1>1 DEF Wake, Asleep, LimiterTypeOK
  <2>2. until[c] = now /\ now <= lastTime
    BY <1>0, <2>1 DEF Wake, SlotInv, Due
  <2>3. sends # <<>> => now - LastSend >= gap[c]
    BY <2>1, <2>2 DEF SlotInv, AfterLast
  <2>4. SlotsSpaced' /\ sends' # <<>> /\ LastSend' = now
    BY <1>0, <2>1, <2>3, SendKeepsSpaced DEF SlotInv
  <2>5. ASSUME NEW d \in Asleep, d # c PROVE until[d] - now >= gap[d]
    <3>1. Apart(c, d) \/ Apart(d, c)
      BY <2>1, <2>5 DEF SlotInv, SlotsApart
    <3>2. now <= until[d] /\ d \in Caller
      BY DEF SlotInv, Due, Asleep
    <3>3. QED
      BY <1>0, <2>2, <3>1, <3>2 DEF Apart
  <2>6. AfterLast'
    BY <1>0, <2>1, <2>2, <2>4, <2>5 DEF AfterLast
  <2>7. Unstarted' /\ Due' /\ SlotsApart'
    BY <1>0, <2>1 DEF SlotInv, Unstarted, Due, SlotsApart, Apart
  <2>8. QED
    BY <2>4, <2>6, <2>7 DEF SlotInv
<1>2. CASE mode[c] # "slot"
  <2>1. Asleep' = Asleep /\ sends' = sends
    BY <1>2 DEF Wake, Asleep, LimiterTypeOK
  <2>2. QED
    BY <1>0, <2>1 DEF SlotInv, Unstarted, Due, SlotsApart, Apart, AfterLast, LastSend, SlotsSpaced
<1>3. QED
  BY <1>1, <1>2

LEMMA SlotsCorrect == LimiterSpec => []SlotInv
<1>1. LimiterInit => SlotInv
  BY DEF LimiterInit, SlotInv, Unstarted, Due, SlotsApart, AfterLast, SlotsSpaced, Asleep
<1>2. LimiterTypeOK /\ SlotInv /\ [LimiterNext]_limiterVars => SlotInv'
  <2> SUFFICES ASSUME LimiterTypeOK, SlotInv, [LimiterNext]_limiterVars PROVE SlotInv'
    OBVIOUS
  <2>1. CASE Tick
    <3>1. /\ now' = now + 1 /\ now \in Nat /\ Asleep' = Asleep
          /\ UNCHANGED <<start, lastTime, until, gap, sends>>
      BY <2>1 DEF Tick, LimiterTypeOK, Asleep
    <3>2. \A c \in Asleep : until[c] \in Nat /\ now < until[c]
      BY <2>1 DEF Tick, LimiterTypeOK, Asleep
    <3>3. Due' /\ Unstarted' /\ SlotsApart' /\ SlotsSpaced'
      BY <3>1, <3>2 DEF SlotInv, Unstarted, Due, SlotsApart, Apart, SlotsSpaced
    <3>4. AfterLast'
      BY <3>1 DEF SlotInv, AfterLast, LastSend
    <3>5. QED
      BY <3>3, <3>4 DEF SlotInv
  <2>2. CASE UNCHANGED limiterVars
    BY <2>2 DEF limiterVars, SlotInv, Unstarted, Due, SlotsApart, Apart, AfterLast, LastSend, SlotsSpaced, Asleep
  <2>3. QED
    BY <2>1, <2>2, AcquireSlots, WakeSlots DEF LimiterNext
<1>3. QED
  BY <1>1, <1>2, LimiterTypeCorrect, PTL DEF LimiterSpec

\* The pauses of one caller follow each other: it sleeps through each before it asks
\* again.  A last one that the end of the run cuts short ends with it.
Paused == {c \in Caller : mode[c] = "pause"}

LastStray(c) == strays[c][Len(strays[c])]

FullPause(c, time) ==
  strays[c] # <<>> => time - LastStray(c) >= Pause \/ time = start + Duration

PauseInv ==
  /\ start = NotStarted => \A c \in Caller : strays[c] = <<>>
  /\ \A c \in Caller : strays[c] # <<>> => LastStray(c) \in Nat /\ LastStray(c) <= now
  /\ \A c \in Paused : start # NotStarted /\ now <= until[c] /\ FullPause(c, until[c])
  /\ StraysSpaced

\* A request sent a full pause after the caller's last one keeps them spaced.
LEMMA StrayKeepsSpaced ==
  ASSUME NEW s \in Seq(Nat), NEW time \in Nat, NEW end,
         \A i \in 1..(Len(s) - 1) : s[i + 1] - s[i] >= Pause \/ s[i + 1] = end,
         s # <<>> => time - s[Len(s)] >= Pause \/ time = end
  PROVE  LET t == Append(s, time)
         IN  /\ t # <<>> /\ t[Len(t)] = time
             /\ \A i \in 1..(Len(t) - 1) : t[i + 1] - t[i] >= Pause \/ t[i + 1] = end
<1> DEFINE t == Append(s, time)
<1>1. /\ Len(t) = Len(s) + 1 /\ Len(s) \in Nat /\ t[Len(s) + 1] = time
      /\ \A i \in 1..Len(s) : t[i] = s[i]
      /\ Len(s) > 0 => s # <<>>
      /\ t # <<>>
  OBVIOUS
<1> HIDE DEF t
<1>2. ASSUME NEW i \in 1..(Len(t) - 1)
      PROVE  t[i + 1] - t[i] >= Pause \/ t[i + 1] = end
  <2>1. CASE i = Len(s)
    BY <1>1, <2>1
  <2>2. CASE i # Len(s)
    <3>1. i \in 1..(Len(s) - 1) /\ i \in 1..Len(s) /\ i + 1 \in 1..Len(s)
      BY <1>1, <2>2
    <3>2. QED
      BY <1>1, <3>1
  <2>3. QED
    BY <2>1, <2>2
<1>3. t # <<>> /\ t[Len(t)] = time
  BY <1>1
<1>4. QED
  BY <1>2, <1>3 DEF t

\* Nobody paused and nothing strayed: most steps leave the pauses alone.
LEMMA PausesKept ==
  ASSUME LimiterTypeOK, PauseInv, UNCHANGED <<now, start, strays>>,
         Paused' = Paused, \A c \in Paused : until'[c] = until[c]
  PROVE  PauseInv'
BY DEF PauseInv, FullPause, LastStray, StraysSpaced

LEMMA AcquirePauses ==
  ASSUME LimiterTypeOK, PauseInv, NEW c \in Caller, Acquire(c)
  PROVE  PauseInv'
<1>0. mode[c] = "awake" /\ now \in Nat /\ c \notin Paused
  BY DEF Acquire, LimiterTypeOK, Paused
<1>1. CASE First(c)
  <2>1. /\ UNCHANGED <<now, strays, mode, until>> /\ start = NotStarted
        /\ Paused = {} /\ Paused' = {} /\ \A d \in Caller : strays[d] = <<>>
    BY <1>1 DEF First, PauseInv, Paused
  <2>2. StraysSpaced'
    <3>1. ASSUME NEW d \in Caller PROVE Len(strays'[d]) = 0
      BY <2>1
    <3>2. QED
      BY <3>1 DEF StraysSpaced
  <2>3. QED
    BY <2>1, <2>2 DEF PauseInv
<1>2. CASE PauseAtZero(c)
  <2>1. /\ start # NotStarted /\ start \in Nat /\ start <= now /\ Duration \in Nat /\ now < Duration
        /\ UNCHANGED <<now, start, strays>>
    BY <1>2 DEF PauseAtZero, Acquire, LimiterTypeOK
  <2>2. /\ Paused' = Paused \cup {c} /\ \A d \in Paused : until'[d] = until[d]
        /\ until'[c] = IF now + Pause < start + Duration THEN now + Pause ELSE start + Duration
    BY <1>0, <1>2 DEF PauseAtZero, Sleep, Paused, LimiterTypeOK
  <2>3. now' <= until'[c]
    BY <1>0, <2>1, <2>2
  <2>4. FullPause(c, until[c])'
    <3>1. CASE strays[c] # <<>>
      <4>1. LastStray(c) \in Nat /\ LastStray(c) <= now /\ LastStray(c)' = LastStray(c)
        BY <2>1, <3>1 DEF PauseInv, LastStray
      <4>2. QED
        BY <1>0, <2>1, <2>2, <4>1 DEF FullPause
    <3>2. QED
      BY <2>1, <3>1 DEF FullPause
  <2>5. \A d \in Paused : now' <= until'[d] /\ FullPause(d, until[d])'
    BY <2>1, <2>2 DEF PauseInv, FullPause, LastStray
  <2>6. \A d \in Paused' : start' # NotStarted /\ now' <= until'[d] /\ FullPause(d, until[d])'
    BY <2>1, <2>2, <2>3, <2>4, <2>5
  <2>7. /\ StraysSpaced'
        /\ \A d \in Caller : strays'[d] # <<>> => LastStray(d)' \in Nat /\ LastStray(d)' <= now'
    BY <2>1 DEF PauseInv, StraysSpaced, LastStray
  <2>8. QED
    BY <2>1, <2>6, <2>7 DEF PauseInv
<1>3. ASSUME NEW interval \in 1..MaxInterval, ClaimSlot(c, interval), UNCHANGED <<now, start, strays>>
      PROVE  PauseInv'
  <2>1. Paused' = Paused /\ \A d \in Paused : until'[d] = until[d]
    BY <1>0, <1>3 DEF ClaimSlot, Sleep, Paused, LimiterTypeOK
  <2>2. QED
    BY <1>3, <2>1, PausesKept
<1>4. QED
  BY <1>1, <1>2, <1>3, AcquireCases

LEMMA WakePauses ==
  ASSUME LimiterTypeOK, PauseInv, NEW c \in Caller, Wake(c)
  PROVE  PauseInv'
<1>0. /\ now \in Nat /\ UNCHANGED <<now, start, until>> /\ until[c] \in Nat /\ until[c] <= now
      /\ strays \in [Caller -> Seq(Nat)]
  BY DEF Wake, LimiterTypeOK
<1>1. CASE mode[c] = "slot"
  <2>1. Paused' = Paused /\ UNCHANGED strays
    BY <1>1 DEF Wake, Paused, LimiterTypeOK
  <2>2. QED
    BY <1>0, <2>1, PausesKept
<1>2. CASE mode[c] = "pause"
  <2>1. /\ c \in Paused /\ Paused' = Paused \ {c}
        /\ strays' = [strays EXCEPT ![c] = Append(@, now)]
    BY <1>2 DEF Wake, SendStray, Paused, LimiterTypeOK
  <2>2. until[c] = now /\ start # NotStarted /\ FullPause(c, now)
    BY <1>0, <2>1 DEF PauseInv
  <2>3. /\ strays'[c] # <<>> /\ LastStray(c)' = now
        /\ \A i \in 1..(Len(strays'[c]) - 1) :
             strays'[c][i + 1] - strays'[c][i] >= Pause \/ strays'[c][i + 1] = start + Duration
    <3>1. strays[c] \in Seq(Nat) /\ strays'[c] = Append(strays[c], now)
      BY <1>0, <2>1
    <3>2. \A i \in 1..(Len(strays[c]) - 1) :
            strays[c][i + 1] - strays[c][i] >= Pause \/ strays[c][i + 1] = start + Duration
      BY DEF PauseInv, StraysSpaced
    <3>3. strays[c] # <<>> => now - strays[c][Len(strays[c])] >= Pause \/ now = start + Duration
      BY <2>2 DEF FullPause, LastStray
    <3>4. LET t == Append(strays[c], now)
          IN  /\ t # <<>> /\ t[Len(t)] = now
              /\ \A i \in 1..(Len(t) - 1) : t[i + 1] - t[i] >= Pause \/ t[i + 1] = start + Duration
      <4> DEFINE s == strays[c]
      <4>1. /\ s \in Seq(Nat)
            /\ \A i \in 1..(Len(s) - 1) : s[i + 1] - s[i] >= Pause \/ s[i + 1] = start + Duration
            /\ s # <<>> => now - s[Len(s)] >= Pause \/ now = start + Duration
        BY <3>1, <3>2, <3>3
      <4> HIDE DEF s
      <4>2. LET t == Append(s, now)
            IN  /\ t # <<>> /\ t[Len(t)] = now
                /\ \A i \in 1..(Len(t) - 1) : t[i + 1] - t[i] >= Pause \/ t[i + 1] = start + Duration
        BY <1>0, <4>1, StrayKeepsSpaced
      <4>3. QED
        BY <4>2 DEF s
    <3>5. QED
      BY <3>1, <3>4 DEF LastStray
  <2>4. \A d \in Caller \ {c} : strays'[d] = strays[d]
    BY <1>0, <2>1
  <2>5. \A d \in Caller : strays'[d] # <<>> => LastStray(d)' \in Nat /\ LastStray(d)' <= now'
    <3>1. \A d \in Caller \ {c} : LastStray(d)' = LastStray(d)
      BY <2>4 DEF LastStray
    <3>2. ASSUME NEW d \in Caller \ {c}, strays'[d] # <<>>
          PROVE  LastStray(d)' \in Nat /\ LastStray(d)' <= now'
      <4>1. LastStray(d) \in Nat /\ LastStray(d) <= now
        BY <2>4, <3>2 DEF PauseInv
      <4>2. QED
        BY <1>0, <3>1, <4>1
    <3>3. QED
      BY <1>0, <2>3, <3>2
  <2>6. \A d \in Paused' : now' <= until'[d] /\ FullPause(d, until[d])'
    <3>1. \A d \in Paused \ {c} : d \in Caller \ {c}
      BY DEF Paused
    <3>2. QED
      BY <1>0, <2>1, <2>4, <3>1 DEF PauseInv, FullPause, LastStray
  <2>7. StraysSpaced'
    <3>1. ASSUME NEW d \in Caller
          PROVE  \A i \in 1..(Len(strays'[d]) - 1) :
                   strays'[d][i + 1] - strays'[d][i] >= Pause \/ strays'[d][i + 1] = start + Duration
      <4>1. CASE d = c
        BY <2>3, <4>1
      <4>2. CASE d # c
        <5>1. strays'[d] = strays[d]
          BY <2>4, <4>2
        <5>2. QED
          BY <5>1 DEF PauseInv, StraysSpaced
      <4>3. QED
        BY <4>1, <4>2
    <3>2. start' = start
      BY <1>0
    <3>3. QED
      BY <3>1, <3>2 DEF StraysSpaced
  <2>8. QED
    BY <1>0, <2>2, <2>5, <2>6, <2>7 DEF PauseInv
<1>3. QED
  BY <1>1, <1>2 DEF Wake

LEMMA PausesCorrect == LimiterSpec => []PauseInv
<1>1. LimiterInit => PauseInv
  <2> SUFFICES ASSUME LimiterInit PROVE PauseInv
    OBVIOUS
  <2>1. Paused = {} /\ \A c \in Caller : strays[c] = <<>>
    BY DEF LimiterInit, Paused
  <2>2. \A c \in Caller : Len(strays[c]) = 0
    BY <2>1
  <2>3. QED
    BY <2>1, <2>2 DEF PauseInv, StraysSpaced
<1>2. LimiterTypeOK /\ PauseInv /\ [LimiterNext]_limiterVars => PauseInv'
  <2> SUFFICES ASSUME LimiterTypeOK, PauseInv, [LimiterNext]_limiterVars PROVE PauseInv'
    OBVIOUS
  <2>1. CASE Tick
    <3>1. /\ now' = now + 1 /\ now \in Nat /\ Paused' = Paused
          /\ UNCHANGED <<start, until, strays>>
      BY <2>1 DEF Tick, LimiterTypeOK, Paused
    <3>2. ASSUME NEW c \in Paused PROVE until[c] \in Nat /\ now + 1 <= until[c]
      <4>1. c \in Caller /\ mode[c] # "awake" /\ until[c] \in Nat
        BY DEF Paused, LimiterTypeOK
      <4>2. now < until[c]
        BY <2>1, <4>1 DEF Tick
      <4>3. QED
        BY <3>1, <4>1, <4>2
    <3>3. \A c \in Paused' : start' # NotStarted /\ now' <= until'[c] /\ FullPause(c, until[c])'
      BY <3>1, <3>2 DEF PauseInv, FullPause, LastStray
    <3>4. \A c \in Caller : strays'[c] # <<>> => LastStray(c)' \in Nat /\ LastStray(c)' <= now'
      BY <3>1 DEF PauseInv, LastStray
    <3>5. QED
      BY <3>1, <3>3, <3>4 DEF PauseInv, StraysSpaced
  <2>2. CASE UNCHANGED limiterVars
    <3>1. UNCHANGED <<now, start, strays, until>> /\ Paused' = Paused
      BY <2>2 DEF limiterVars, Paused
    <3>2. QED
      BY <3>1, PausesKept
  <2>3. QED
    BY <2>1, <2>2, AcquirePauses, WakePauses DEF LimiterNext
<1>3. QED
  BY <1>1, <1>2, LimiterTypeCorrect, PTL DEF LimiterSpec

\* Requests that have slots are never closer than the interval of the later one; those
\* let through at a rate of 0 are a pause apart on each worker.
THEOREM AlwaysSpaced == LimiterSpec => []Spaced
<1>1. SlotInv /\ PauseInv => Spaced
  BY DEF SlotInv, PauseInv, Spaced
<1>2. QED
  BY <1>1, SlotsCorrect, PausesCorrect, PTL

-------------------------------------------------------------------------------
(* The wait for a slot is bounded by the slots that are taken.               *)

\* The longest time the slots of S can take.
Room(S) == MaxInterval * Cardinality(S)

Later(c) == {d \in Asleep : until[d] > until[c]}

RoomInv ==
  /\ lastTime <= now + Room(Asleep)
  /\ \A c \in Asleep : lastTime <= until[c] + Room(Later(c))

LEMMA RoomOfSubset ==
  ASSUME NEW S, IsFiniteSet(S), NEW T \in SUBSET S
  PROVE  Room(T) \in Nat /\ Room(S) \in Nat /\ Room(T) <= Room(S)
<1>1. Cardinality(S) \in Nat /\ Cardinality(T) \in Nat /\ Cardinality(T) <= Cardinality(S)
  BY FS_Subset, FS_CardinalityType
<1>2. \A m, n \in Nat : n <= m => MaxInterval * n \in Nat /\ MaxInterval * n <= MaxInterval * m
  OBVIOUS
<1>3. QED
  BY <1>1, <1>2 DEF Room

LEMMA RoomOfOneMore ==
  ASSUME NEW S, IsFiniteSet(S), NEW x, x \notin S
  PROVE  Room(S \cup {x}) = Room(S) + MaxInterval
<1>1. Cardinality(S \cup {x}) = Cardinality(S) + 1 /\ Cardinality(S) \in Nat
  BY FS_AddElement, FS_CardinalityType
<1>2. \A n \in Nat : MaxInterval * (n + 1) = MaxInterval * n + MaxInterval
  OBVIOUS
<1>3. QED
  BY <1>1, <1>2 DEF Room

LEMMA SleepersFinite ==
  /\ IsFiniteSet(Asleep) /\ Asleep \in SUBSET Caller
  /\ \A c : Later(c) \in SUBSET Asleep /\ IsFiniteSet(Later(c))
<1>1. Asleep \in SUBSET Caller /\ \A c : Later(c) \in SUBSET Asleep
  BY DEF Asleep, Later
<1>2. QED
  BY <1>1, FS_Subset

LEMMA SleepKeepsRoom ==
  ASSUME LimiterTypeOK, SlotInv, RoomInv, NEW c \in Caller, NEW interval \in 1..MaxInterval,
         mode[c] = "awake", UNCHANGED now, lastTime' = lastTime + interval,
         Sleep(c, "slot", lastTime + interval, interval)
  PROVE  RoomInv'
<1>1. /\ Asleep' = Asleep \cup {c} /\ c \notin Asleep
      /\ until'[c] = lastTime + interval /\ \A d \in Asleep : until'[d] = until[d]
  BY DEF Sleep, Asleep, LimiterTypeOK
<1>2. /\ now \in Nat /\ lastTime \in Nat /\ interval \in Nat
      /\ interval > 0 /\ interval <= MaxInterval
      /\ \A d \in Asleep : until[d] \in Nat /\ until[d] <= lastTime
  BY DEF LimiterTypeOK, Asleep, SlotInv, Due
<1>3. Room(Asleep \cup {c}) = Room(Asleep) + MaxInterval /\ Room(Asleep) \in Nat
  BY <1>1, SleepersFinite, RoomOfOneMore, RoomOfSubset
<1>4. lastTime' <= now' + Room(Asleep)'
  BY <1>1, <1>2, <1>3 DEF RoomInv, Room
<1>5. ASSUME NEW d \in Asleep
      PROVE  lastTime' <= until'[d] + Room(Later(d))'
  <2>1. Later(d)' = Later(d) \cup {c}
    <3>1. Later(d)' = {x \in Asleep \cup {c} : until'[x] > until'[d]}
      BY <1>1 DEF Later
    <3>2. until'[c] > until'[d] /\ \A x \in Asleep : until'[x] > until'[d] <=> until[x] > until[d]
      BY <1>1, <1>2
    <3>3. QED
      BY <3>1, <3>2 DEF Later
  <2>2. c \notin Later(d)
    BY <1>1 DEF Later
  <2>3. Room(Later(d) \cup {c}) = Room(Later(d)) + MaxInterval /\ Room(Later(d)) \in Nat
    BY <2>2, SleepersFinite, RoomOfOneMore, RoomOfSubset
  <2>4. Room(Later(d))' = Room(Later(d)) + MaxInterval
    BY <2>1, <2>3 DEF Room
  <2>5. lastTime <= until[d] + Room(Later(d))
    BY DEF RoomInv
  <2>6. QED
    BY <1>1, <1>2, <2>3, <2>4, <2>5
<1>6. lastTime' <= until'[c] + Room(Later(c))'
  <2>1. Room(Later(c)') \in Nat
    <3>1. Later(c)' \in SUBSET (Asleep \cup {c}) /\ IsFiniteSet(Asleep \cup {c})
      BY <1>1, SleepersFinite, FS_AddElement DEF Later
    <3>2. QED
      BY <3>1, RoomOfSubset
  <2>2. QED
    BY <1>1, <1>2, <2>1 DEF Room
<1>7. QED
  BY <1>1, <1>4, <1>5, <1>6, Zenon DEF RoomInv

LEMMA AcquireRoom ==
  ASSUME LimiterTypeOK, SlotInv, RoomInv, NEW c \in Caller, Acquire(c)
  PROVE  RoomInv'
<1>0. mode[c] = "awake" /\ now \in Nat /\ lastTime \in Nat /\ Room(Asleep) \in Nat
  BY SleepersFinite, RoomOfSubset DEF Acquire, LimiterTypeOK
<1>1. CASE First(c)
  <2>1. Asleep' = {} /\ now' = now /\ lastTime' = now
    BY <1>1 DEF First, SlotInv, Unstarted, Asleep
  <2>2. Room({}) = 0
    BY FS_EmptySet DEF Room
  <2>3. QED
    BY <1>0, <2>1, <2>2 DEF RoomInv, Room
<1>2. CASE PauseAtZero(c)
  <2>1. UNCHANGED <<now, lastTime>>
    BY <1>2 DEF PauseAtZero
  <2>2. Asleep' = Asleep /\ \A d \in Asleep : until'[d] = until[d]
    BY <1>0, <1>2 DEF PauseAtZero, Sleep, Asleep, LimiterTypeOK
  <2>3. \A d \in Asleep : Later(d)' = Later(d)
    BY <2>2 DEF Later
  <2>4. QED
    BY <2>1, <2>2, <2>3 DEF RoomInv, Room
<1>3. ASSUME NEW interval \in 1..MaxInterval, ClaimSlot(c, interval), UNCHANGED now
      PROVE  RoomInv'
  <2>1. CASE lastTime + interval > now
    BY <1>0, <1>3, <2>1, SleepKeepsRoom DEF ClaimSlot
  <2>2. CASE lastTime + interval <= now
    <3>1. lastTime' = now /\ UNCHANGED <<mode, until>>
      BY <1>0, <1>3, <2>2 DEF ClaimSlot
    <3>2. Asleep' = Asleep /\ \A d : Later(d)' = Later(d)
      BY <3>1 DEF Asleep, Later
    <3>3. \A d \in Asleep : now <= until[d] /\ until[d] \in Nat /\ Room(Later(d)) \in Nat
      BY SleepersFinite, RoomOfSubset DEF SlotInv, Due, LimiterTypeOK, Asleep
    <3>4. QED
      BY <1>0, <1>3, <3>1, <3>2, <3>3 DEF RoomInv, Room
  <2>3. QED
    BY <1>0, <2>1, <2>2
<1>4. QED
  BY <1>1, <1>2, <1>3, AcquireCases

\* The sleeper that wakes had the earliest slot: what is left fits the others.
LEMMA WakeRoom ==
  ASSUME LimiterTypeOK, SlotInv, RoomInv, NEW c \in Caller, Wake(c)
  PROVE  RoomInv'
<1>0. UNCHANGED <<now, lastTime, until>>
  BY DEF Wake
<1>1. CASE mode[c] = "slot"
  <2>1. c \in Asleep /\ Asleep' = Asleep \ {c} /\ until[c] = now
    BY <1>1 DEF Wake, Asleep, LimiterTypeOK, SlotInv, Due
  <2>2. \A d \in Asleep : now <= until[d] /\ until[d] \in Nat /\ now \in Nat /\ lastTime \in Nat
    BY DEF SlotInv, Due, LimiterTypeOK, Asleep
  <2>3. lastTime' <= now' + Room(Asleep)'
    <3>1. Later(c) \in SUBSET (Asleep \ {c}) /\ IsFiniteSet(Asleep \ {c})
      BY <2>1, <2>2, SleepersFinite, FS_RemoveElement DEF Later
    <3>2. /\ Room(Later(c)) \in Nat /\ Room(Asleep \ {c}) \in Nat
          /\ Room(Later(c)) <= Room(Asleep \ {c})
      BY <3>1, RoomOfSubset
    <3>3. lastTime <= now + Room(Later(c))
      BY <2>1 DEF RoomInv
    <3>4. Room(Asleep)' = Room(Asleep \ {c})
      BY <2>1 DEF Room
    <3>5. QED
      BY <1>0, <2>1, <2>2, <3>2, <3>3, <3>4
  <2>4. \A d \in Asleep : Later(d)' = Later(d)
    BY <1>0, <2>1, <2>2 DEF Later
  <2>5. QED
    BY <1>0, <2>1, <2>3, <2>4 DEF RoomInv, Room
<1>2. CASE mode[c] # "slot"
  <2>1. Asleep' = Asleep /\ \A d : Later(d)' = Later(d)
    BY <1>0, <1>2 DEF Wake, Asleep, LimiterTypeOK, Later
  <2>2. QED
    BY <1>0, <2>1 DEF RoomInv, Room
<1>3. QED
  BY <1>1, <1>2

LEMMA RoomIsEnough ==
  ASSUME LimiterTypeOK, SlotInv, RoomInv
  PROVE  BoundedWait
<1>1. /\ Room(Asleep) \in Nat /\ Room(Caller) \in Nat /\ Room(Asleep) <= Room(Caller)
  BY SleepersFinite, RoomOfSubset
<1>2. Room(Caller) = Cardinality(Caller) * MaxInterval
  BY FS_CardinalityType DEF Room
<1>3. /\ now \in Nat /\ lastTime \in Nat /\ lastTime <= now + Room(Asleep)
      /\ \A c \in Asleep : until[c] \in Nat /\ until[c] <= lastTime
  BY DEF LimiterTypeOK, Asleep, SlotInv, Due, RoomInv
<1>4. QED
  BY <1>1, <1>2, <1>3 DEF BoundedWait

\* No caller's slot is further away than one longest interval for each caller.
THEOREM WaitIsBounded == LimiterSpec => []BoundedWait
<1>1. LimiterInit => RoomInv
  <2>1. LimiterInit => Asleep = {}
    BY DEF LimiterInit, Asleep
  <2>2. Room({}) = 0
    BY FS_EmptySet DEF Room
  <2>3. LimiterInit => lastTime <= now + Room(Asleep)
    <3>1. LimiterInit => Room(Asleep) = 0
      BY <2>1, <2>2
    <3>2. QED
      BY <3>1 DEF LimiterInit
  <2>4. QED
    BY <2>1, <2>3 DEF RoomInv
<1>2. LimiterTypeOK /\ SlotInv /\ RoomInv /\ [LimiterNext]_limiterVars => RoomInv'
  <2> SUFFICES ASSUME LimiterTypeOK, SlotInv, RoomInv, [LimiterNext]_limiterVars PROVE RoomInv'
    OBVIOUS
  <2>1. CASE Tick
    <3>1. now' = now + 1 /\ now \in Nat /\ Asleep' = Asleep /\ UNCHANGED <<lastTime, until>>
      BY <2>1 DEF Tick, LimiterTypeOK, Asleep
    <3>2. \A d : Later(d)' = Later(d)
      BY <3>1 DEF Later
    <3>3. Room(Asleep) \in Nat /\ lastTime \in Nat
      BY SleepersFinite, RoomOfSubset DEF LimiterTypeOK
    <3>4. QED
      BY <3>1, <3>2, <3>3 DEF RoomInv, Room
  <2>2. CASE UNCHANGED limiterVars
    BY <2>2 DEF limiterVars, RoomInv, Room, Later, Asleep
  <2>3. QED
    BY <2>1, <2>2, AcquireRoom, WakeRoom DEF LimiterNext
<1>3. QED
  BY <1>1, <1>2, LimiterTypeCorrect, SlotsCorrect, RoomIsEnough, PTL DEF LimiterSpec

-------------------------------------------------------------------------------
(* The clock and the curves.                                                  *)

\* At every moment of every run a limiter asks for the rate that is on the line of the
\* points of its CSV file, whatever their number, and the nodes of a cluster, whatever
\* theirs, together ask for the rate of one process where the profile is a part of --rate.
THEOREM RateIsAlwaysAsDrawn == LimiterSpec => []RateIsAsDrawn
  BY ClockIsEnough, LimiterTypeCorrect, PTL

-------------------------------------------------------------------------------
(* The run that is paced.                                                     *)

HIDE LimiterAssumption
USE LoadAssumption

-------------------------------------------------------------------------------
(* Type correctness.                                                          *)

LEMMA WorkerStepTypeOK ==
  ASSUME TypeOK, NEW w \in Worker, WorkerStep(w)
  PROVE  TypeOK'
<1>1. worker' \in [Worker -> WorkerState]
  BY DEF TypeOK, WorkerStep, Start, Acquired, Answered, Crash, Cancelled, Advance, WorkerState
<1>2. remaining' \in 0..Requests
  <2>1. CASE Advance(w)
    BY <2>1 DEF TypeOK, Advance, MayGoOn
  <2>2. CASE UNCHANGED remaining
    BY <2>2 DEF TypeOK
  <2>3. QED
    BY <2>1, <2>2 DEF WorkerStep, Start, Acquired, Answered, Crash, Cancelled, loadVars
<1>3. requests' \in Nat
  BY DEF TypeOK, WorkerStep, Start, Acquired, Answered, Crash, Cancelled, loadVars
<1>4. UNCHANGED <<config, over, asked, stop, force, signals, runner, grace, report>>
  BY DEF WorkerStep, Start, Acquired, Answered, Crash, Cancelled, loadVars
<1>5. QED
  BY <1>1, <1>2, <1>3, <1>4 DEF TypeOK

LEMMA ExitCodes ==
  ASSUME NEW breached \in BOOLEAN, NEW baseline \in {0, 1, 3}, NEW exported \in BOOLEAN
  PROVE  /\ ExitCode(breached, baseline, exported) \in 0..3
         /\ breached => ExitCode(breached, baseline, exported) = 2
         /\ Crashed => ExitCode(breached, baseline, exported) # 0
BY DEF ExitCode, AtLeast

LEMMA RunnerStepTypeOK ==
  ASSUME TypeOK, RunnerStep
  PROVE  TypeOK'
<1>1. CASE WorkersEnded
  BY <1>1 DEF TypeOK, WorkersEnded, loadVars
<1>2. CASE StopSeen
  BY <1>2 DEF TypeOK, StopSeen, AskToCancel, Pending, loadVars
<1>3. CASE GraceUnneeded
  BY <1>3 DEF TypeOK, GraceUnneeded, loadVars
<1>4. CASE GraceExpires
  BY <1>4 DEF TypeOK, GraceExpires, AskToCancel, Pending, loadVars
<1>5. CASE Teardown
  BY <1>5 DEF TypeOK, Teardown, loadVars
<1>6. CASE Report
  <2>1. report' \in [total : Nat, exit : 0..3, breached : BOOLEAN]
    BY <1>6, ExitCodes DEF Report, TypeOK
  <2>2. QED
    BY <1>6, <2>1 DEF TypeOK, Report, loadVars
<1>7. QED
  BY <1>1, <1>2, <1>3, <1>4, <1>5, <1>6 DEF RunnerStep

\* Every reachable state of a run is well typed.
THEOREM TypeCorrect == Spec => []TypeOK
<1>1. Init => TypeOK
  <2> SUFFICES ASSUME Init PROVE TypeOK
    OBVIOUS
  <2>1. report \in [total : Nat, exit : 0..3, breached : BOOLEAN]
    BY DEF Init, NoReport
  <2>2. worker \in [Worker -> WorkerState] /\ asked \subseteq Worker
    BY DEF Init, WorkerState
  <2>3. remaining \in 0..Requests /\ requests \in Nat /\ signals \in 0..2
    BY DEF Init
  <2>4. QED
    BY <2>1, <2>2, <2>3 DEF Init, TypeOK
<1>2. TypeOK /\ [Next]_vars => TypeOK'
  <2> SUFFICES ASSUME TypeOK, [Next]_vars PROVE TypeOK'
    OBVIOUS
  <2>1. CASE \E w \in Worker : WorkerStep(w)
    BY <2>1, WorkerStepTypeOK
  <2>2. CASE DurationElapses
    BY <2>2 DEF DurationElapses, TypeOK
  <2>3. CASE Signal
    <3>1. stop' \in BOOLEAN /\ force' \in BOOLEAN
      BY <2>3 DEF Signal, TypeOK
    <3>2. signals' \in 0..2
      BY <2>3 DEF Signal, TypeOK
    <3>3. QED
      BY <2>3, <3>1, <3>2 DEF Signal, TypeOK, loadVars
  <2>4. CASE RunnerStep
    BY <2>4, RunnerStepTypeOK
  <2>5. CASE UNCHANGED vars
    BY <2>5 DEF vars, loadVars, TypeOK
  <2>6. QED
    BY <2>1, <2>2, <2>3, <2>4, <2>5 DEF Next
<1>3. QED
  BY <1>1, <1>2, PTL DEF Spec

-------------------------------------------------------------------------------
(* The books of a request-count run: every claim is taken from the counter,   *)
(* and recorded or lost.                                                      *)

Sum == requests + Cardinality(InFlight) + remaining

LEMMA InFlightFinite == IsFiniteSet(InFlight) /\ Cardinality(InFlight) \in Nat
<1>1. InFlight \subseteq Worker
  BY DEF InFlight
<1>2. QED
  BY <1>1, FS_Subset, FS_CardinalityType

\* How the number in flight changes when one worker moves.
LEMMA Moves ==
  ASSUME TypeOK, NEW w \in Worker, NEW x \in WorkerState,
         worker' = [worker EXCEPT ![w] = x]
  PROVE  /\ w \in InFlight /\ x \in {"limited", "sending"} =>
              Cardinality(InFlight') = Cardinality(InFlight)
         /\ w \in InFlight /\ x \notin {"limited", "sending"} =>
              Cardinality(InFlight') = Cardinality(InFlight) - 1
         /\ w \notin InFlight /\ x \in {"limited", "sending"} =>
              Cardinality(InFlight') = Cardinality(InFlight) + 1
         /\ w \notin InFlight /\ x \notin {"limited", "sending"} =>
              Cardinality(InFlight') = Cardinality(InFlight)
<1>1. x \in {"limited", "sending"} => InFlight' = InFlight \cup {w}
  BY DEF InFlight, TypeOK
<1>2. x \notin {"limited", "sending"} => InFlight' = InFlight \ {w}
  BY DEF InFlight, TypeOK
<1>3. /\ Cardinality(InFlight \cup {w}) =
           IF w \in InFlight THEN Cardinality(InFlight) ELSE Cardinality(InFlight) + 1
      /\ Cardinality(InFlight \ {w}) =
           IF w \in InFlight THEN Cardinality(InFlight) - 1 ELSE Cardinality(InFlight)
  BY InFlightFinite, FS_AddElement, FS_RemoveElement
<1>4. QED
  BY <1>1, <1>2, <1>3

\* A step of a worker keeps the sum, or loses the one claim of a crash or a stop.
LEMMA WorkerStepSum ==
  ASSUME TypeOK, NEW w \in Worker, WorkerStep(w), Counted
  PROVE  /\ Sum' <= Sum
         /\ Sum' = Sum \/ Crashed' \/ stop \/ w \in asked
<1>0. /\ Cardinality(InFlight) \in Nat /\ requests \in Nat /\ remaining \in 0..Requests
      /\ w \in InFlight <=> worker[w] \in {"limited", "sending"}
      /\ Cardinality(InFlight') \in Nat /\ remaining' \in 0..Requests
  <2>1. InFlight' \subseteq Worker
    BY DEF InFlight
  <2>2. Cardinality(InFlight') \in Nat
    BY <2>1, FS_Subset, FS_CardinalityType
  <2>3. remaining' \in 0..Requests
    BY WorkerStepTypeOK DEF TypeOK
  <2>4. QED
    BY <2>2, <2>3, InFlightFinite DEF TypeOK, InFlight
<1>1. ASSUME Advance(w)
      PROVE  \/ /\ worker' = [worker EXCEPT ![w] = "done"] /\ remaining' = remaining
             \/ \E x \in {"limited", "sending"} :
                  /\ worker' = [worker EXCEPT ![w] = x] /\ remaining' = remaining - 1
  BY <1>1 DEF Advance
<1>2. CASE Start(w)
  <2>1. Advance(w) /\ w \notin InFlight /\ requests' = requests
    BY <1>2 DEF Start, InFlight
  <2>2. Cardinality(InFlight') + remaining' = Cardinality(InFlight) + remaining
    BY <1>0, <1>1, <2>1, Moves DEF WorkerState
  <2>3. QED
    BY <1>0, <2>1, <2>2 DEF Sum
<1>3. CASE Answered(w)
  <2>1. Advance(w) /\ w \in InFlight /\ requests' = requests + 1
    BY <1>3 DEF Answered, InFlight
  <2>2. Cardinality(InFlight') + remaining' = Cardinality(InFlight) + remaining - 1
    BY <1>0, <1>1, <2>1, Moves DEF WorkerState
  <2>3. QED
    BY <1>0, <2>1, <2>2 DEF Sum
<1>4. CASE Acquired(w)
  <2>1. w \in InFlight /\ requests' = requests /\ remaining' = remaining
    BY <1>4 DEF Acquired, InFlight, loadVars
  <2>2. worker' = [worker EXCEPT ![w] = IF stop THEN "done" ELSE "sending"]
    BY <1>4 DEF Acquired
  <2>3. CASE stop
    <3>1. Cardinality(InFlight') = Cardinality(InFlight) - 1
      BY <2>1, <2>2, <2>3, Moves DEF WorkerState
    <3>2. QED
      BY <1>0, <2>1, <2>3, <3>1 DEF Sum
  <2>4. CASE ~stop
    <3>1. Cardinality(InFlight') = Cardinality(InFlight)
      BY <2>1, <2>2, <2>4, Moves DEF WorkerState
    <3>2. QED
      BY <1>0, <2>1, <3>1 DEF Sum
  <2>5. QED
    BY <2>3, <2>4
<1>5. CASE Crash(w)
  <2>1. worker' = [worker EXCEPT ![w] = "crashed"] /\ remaining' = remaining
    BY <1>5 DEF Crash
  <2>2. worker'[w] = "crashed"
    BY <2>1 DEF TypeOK
  <2>3. Crashed'
    BY <2>2 DEF Crashed
  <2>4. requests' = requests \/ (w \in InFlight /\ requests' = requests + 1)
    BY <1>5 DEF Crash, InFlight
  <2>5. /\ w \in InFlight => Cardinality(InFlight') = Cardinality(InFlight) - 1
        /\ w \notin InFlight => Cardinality(InFlight') = Cardinality(InFlight)
    BY <2>1, Moves DEF WorkerState
  <2>6. QED
    BY <1>0, <2>1, <2>3, <2>4, <2>5 DEF Sum
<1>6. CASE Cancelled(w)
  <2>1. /\ \E x \in {"done", "cancelled"} : worker' = [worker EXCEPT ![w] = x]
        /\ requests' = requests /\ remaining' = remaining /\ w \in asked
    BY <1>6 DEF Cancelled, loadVars
  <2>2. Cardinality(InFlight') \in {Cardinality(InFlight), Cardinality(InFlight) - 1}
    BY <2>1, Moves DEF WorkerState
  <2>3. QED
    BY <1>0, <2>1, <2>2 DEF Sum
<1>7. QED
  BY <1>2, <1>3, <1>4, <1>5, <1>6 DEF WorkerStep

\* Every other step leaves the books alone.
LEMMA OtherStepSum ==
  ASSUME DurationElapses \/ Signal \/ RunnerStep \/ UNCHANGED vars
  PROVE  UNCHANGED <<config, worker, requests, remaining>>
BY DEF DurationElapses, Signal, RunnerStep, WorkersEnded, StopSeen, GraceUnneeded, GraceExpires,
       Teardown, Report, vars, loadVars

Books == Counted => Sum <= Requests

LEMMA BooksInvariant == Spec => []Books
<1>1. Init => Books
  <2> SUFFICES ASSUME Init PROVE Books
    OBVIOUS
  <2>1. InFlight = {}
    BY DEF Init, InFlight
  <2>2. QED
    BY <2>1, FS_EmptySet DEF Init, Books, Sum
<1>2. TypeOK /\ Books /\ [Next]_vars => Books'
  <2> SUFFICES ASSUME TypeOK, Books, [Next]_vars PROVE Books'
    OBVIOUS
  <2>1. CASE \E w \in Worker : WorkerStep(w)
    <3> PICK w \in Worker : WorkerStep(w)
      BY <2>1
    <3>1. config' = config
      BY DEF WorkerStep, Start, Acquired, Answered, Crash, Cancelled, loadVars
    <3>2. TypeOK'
      BY WorkerStepTypeOK
    <3>3. Sum \in Nat
      BY InFlightFinite DEF TypeOK, Sum
    <3>4. Cardinality(InFlight') \in Nat
      <4>1. InFlight' \subseteq Worker
        BY DEF InFlight
      <4>2. QED
        BY <4>1, FS_Subset, FS_CardinalityType
    <3>5. Sum' \in Nat
      BY <3>2, <3>4 DEF TypeOK, Sum
    <3>6. Counted => Sum' <= Sum
      BY WorkerStepSum
    <3>7. QED
      BY <3>1, <3>3, <3>5, <3>6 DEF Books, Counted
  <2>2. CASE DurationElapses \/ Signal \/ RunnerStep \/ UNCHANGED vars
    BY <2>2, OtherStepSum DEF Books, Counted, Sum, InFlight
  <2>3. QED
    BY <2>1, <2>2 DEF Next
<1>3. QED
  BY <1>1, <1>2, TypeCorrect, PTL DEF Spec

\* -n limits the requests made, however many workers race for the counter: what is
\* recorded and on its way never exceeds it.
THEOREM CountIsALimit == Spec => []NeverTooMany
<1>1. TypeOK /\ Books => NeverTooMany
  BY InFlightFinite DEF TypeOK, Books, Sum, NeverTooMany
<1>2. QED
  BY <1>1, TypeCorrect, BooksInvariant, PTL

-------------------------------------------------------------------------------
(* The end of a run: no task is left when the statistics are merged.          *)

Settled ==
  /\ runner \in {"teardown", "reported"} => Pending = {}
  /\ runner = "reported" =>
       /\ report.total = requests
       /\ report.breached => report.exit = 2
       /\ Crashed => report.exit # 0

LEMMA OnlyPendingMove ==
  ASSUME NEW w \in Worker, WorkerStep(w)
  PROVE  Pending # {} /\ UNCHANGED <<config, stop, signals, asked, runner, report>>
BY DEF WorkerStep, Start, Acquired, Answered, Crash, Cancelled, Pending, Ended, loadVars

LEMMA SettledInvariant == Spec => []Settled
<1>1. Init => Settled
  BY DEF Init, Settled
<1>2. TypeOK /\ Settled /\ [Next]_vars => Settled'
  <2> SUFFICES ASSUME TypeOK, Settled, [Next]_vars PROVE Settled'
    OBVIOUS
  <2>1. CASE \E w \in Worker : WorkerStep(w)
    <3>1. Pending # {} /\ UNCHANGED <<runner, report>>
      BY <2>1, OnlyPendingMove
    <3>2. runner \notin {"teardown", "reported"}
      BY <3>1 DEF Settled
    <3>3. QED
      BY <3>1, <3>2 DEF Settled
  <2>2. CASE DurationElapses \/ Signal \/ UNCHANGED vars
    BY <2>2 DEF DurationElapses, Signal, vars, loadVars, Settled, Pending, Ended, Crashed
  <2>3. CASE WorkersEnded \/ StopSeen \/ GraceUnneeded \/ GraceExpires
    <3>1. runner' \in {"grace", "cancelling"}
      BY <2>3 DEF WorkersEnded, StopSeen, GraceUnneeded, GraceExpires, AskToCancel
    <3>2. QED
      BY <3>1 DEF Settled
  <2>4. CASE Teardown
    BY <2>4 DEF Teardown, Settled, Pending, Ended
  <2>5. CASE Report
    <3>1. PICK breached \in BOOLEAN, baseline \in {0, 1, 3}, exported \in BOOLEAN :
            report' = [total |-> requests, exit |-> ExitCode(breached, baseline, exported),
                       breached |-> breached]
      BY <2>5 DEF Report
    <3>2. Pending' = {} /\ Crashed' = Crashed /\ requests' = requests
      BY <2>5 DEF Report, Settled, Pending, Ended, Crashed, loadVars
    <3>3. /\ report'.total = requests
          /\ report'.breached => report'.exit = 2
          /\ Crashed => report'.exit # 0
      BY <3>1, ExitCodes
    <3>4. QED
      BY <3>2, <3>3 DEF Settled
  <2>6. QED
    BY <2>1, <2>2, <2>3, <2>4, <2>5 DEF Next, RunnerStep
<1>3. QED
  BY <1>1, <1>2, TypeCorrect, PTL DEF Spec

\* What is reported is what all tasks together measured: none of them is left to
\* change it.
THEOREM FinalReport == Spec => []ReportIsFinal
<1>1. Settled => ReportIsFinal
  BY DEF Settled, ReportIsFinal
<1>2. QED
  BY <1>1, SettledInvariant, PTL

\* A breached threshold exits 2, whatever crashed, regressed or was not exported.
THEOREM BreachExitsTwo == Spec => []BreachIsTwo
<1>1. Settled => BreachIsTwo
  BY DEF Settled, BreachIsTwo
<1>2. QED
  BY <1>1, SettledInvariant, PTL

-------------------------------------------------------------------------------
(* A run nobody stops.                                                        *)

Undisturbed ==
  signals = 0 =>
    /\ asked = {}
    /\ runner # "grace"
    /\ runner \in {"waiting", "cancelling"} => ~stop
    /\ \A w \in Worker : worker[w] # "cancelled"
    /\ Counted => /\ ~Crashed => Sum = Requests
                  /\ \A w \in Worker : worker[w] = "done" => remaining = 0

LEMMA WorkerStepUndisturbed ==
  ASSUME TypeOK, Settled, Undisturbed, NEW w \in Worker, WorkerStep(w)
  PROVE  Undisturbed'
<1> SUFFICES ASSUME signals = 0 PROVE Undisturbed'
  BY OnlyPendingMove DEF Undisturbed
<1>1. /\ Pending # {} /\ UNCHANGED <<config, stop, signals, asked, runner>>
      /\ asked = {} /\ ~stop
  BY OnlyPendingMove DEF Settled, Undisturbed, TypeOK
<1>2. \A p \in Worker : worker'[p] # "cancelled"
  BY <1>1 DEF WorkerStep, Start, Acquired, Answered, Crash, Cancelled, Advance, Undisturbed, TypeOK
<1>3. ASSUME Counted
      PROVE  /\ ~Crashed' => Sum' = Requests
             /\ \A p \in Worker : worker'[p] = "done" => remaining' = 0
  <2>1. Crashed => Crashed'
    <3>1. \A p \in Worker : worker[p] = "crashed" => worker'[p] = "crashed"
      BY DEF WorkerStep, Start, Acquired, Answered, Crash, Cancelled, Ended, Advance, TypeOK
    <3>2. QED
      BY <3>1 DEF Crashed
  <2>2. ~Crashed' => Sum' = Requests
    BY <1>1, <1>3, <2>1, WorkerStepSum DEF Undisturbed
  <2>3. remaining = 0 => remaining' = 0
    BY <1>3 DEF WorkerStep, Start, Acquired, Answered, Crash, Cancelled, Advance, MayGoOn, loadVars
  <2>4. worker'[w] = "done" => remaining' = 0
    <3>1. CASE Advance(w)
      BY <1>1, <1>3, <3>1 DEF Advance, MayGoOn, TypeOK
    <3>2. CASE Acquired(w) \/ Crash(w) \/ Cancelled(w)
      BY <1>1, <3>2 DEF Acquired, Crash, Cancelled, TypeOK
    <3>3. QED
      BY <3>1, <3>2 DEF WorkerStep, Start, Answered
  <2>5. \A p \in Worker \ {w} : worker'[p] = worker[p]
    BY DEF WorkerStep, Start, Acquired, Answered, Crash, Cancelled, Advance, TypeOK
  <2>6. QED
    BY <1>1, <1>3, <2>2, <2>3, <2>4, <2>5 DEF Undisturbed
<1>4. QED
  BY <1>1, <1>2, <1>3 DEF Undisturbed, Counted

LEMMA UndisturbedInvariant == Spec => []Undisturbed
<1>1. Init => Undisturbed
  <2> SUFFICES ASSUME Init PROVE Undisturbed
    OBVIOUS
  <2>1. InFlight = {}
    BY DEF Init, InFlight
  <2>2. Sum = Requests
    BY <2>1, FS_EmptySet DEF Init, Sum
  <2>3. QED
    BY <2>2 DEF Init, Undisturbed
<1>2. TypeOK /\ Settled /\ Undisturbed /\ [Next]_vars => Undisturbed'
  <2> SUFFICES ASSUME TypeOK, Settled, Undisturbed, [Next]_vars PROVE Undisturbed'
    OBVIOUS
  <2>1. CASE \E w \in Worker : WorkerStep(w)
    BY <2>1, WorkerStepUndisturbed
  <2>2. CASE Signal
    BY <2>2 DEF Signal, Undisturbed, TypeOK
  <2>3. CASE DurationElapses \/ RunnerStep \/ UNCHANGED vars
    <3>1. UNCHANGED <<config, worker, requests, remaining, signals>>
      BY <2>3 DEF DurationElapses, RunnerStep, WorkersEnded, StopSeen, GraceUnneeded,
           GraceExpires, Teardown, Report, vars, loadVars
    <3>2. Sum' = Sum /\ Counted' = Counted /\ Crashed' = Crashed
      BY <3>1 DEF Sum, InFlight, Counted, Crashed
    <3>3. signals = 0 =>
            /\ asked' = {} /\ runner' # "grace"
            /\ runner' \in {"waiting", "cancelling"} => ~stop'
      BY <2>3 DEF DurationElapses, RunnerStep, WorkersEnded, StopSeen, GraceUnneeded,
           GraceExpires, Teardown, Report, vars, loadVars, Undisturbed
    <3>4. QED
      BY <3>1, <3>2, <3>3 DEF Undisturbed
  <2>4. QED
    BY <2>1, <2>2, <2>3 DEF Next
<1>3. QED
  BY <1>1, <1>2, TypeCorrect, SettledInvariant, PTL DEF Spec

\* A run in request-count mode that nobody stopped and that exits 0 has made every
\* request it was asked for; a crashed worker shows in the exit code.
THEOREM WholeLoad == Spec => []DroppedLoadIsReported
<1>1. TypeOK /\ Settled /\ Undisturbed => DroppedLoadIsReported
  <2> SUFFICES ASSUME TypeOK, Settled, Undisturbed,
                      runner = "reported", Counted, signals = 0, report.exit = 0
               PROVE  report.total = Requests
    BY DEF DroppedLoadIsReported
  <2>1. report.total = requests /\ Pending = {} /\ ~Crashed
    BY DEF Settled
  <2>2. \A w \in Worker : worker[w] = "done"
    BY <2>1 DEF Pending, Ended, Crashed, Undisturbed
  <2>3. remaining = 0
    BY <2>2 DEF Undisturbed
  <2>4. InFlight = {}
    BY <2>2 DEF InFlight
  <2>5. requests + 0 + 0 = Requests
    BY <2>1, <2>3, <2>4, FS_EmptySet DEF Undisturbed, Sum
  <2>6. QED
    BY <2>1, <2>5 DEF TypeOK
<1>2. QED
  BY <1>1, TypeCorrect, SettledInvariant, UndisturbedInvariant, PTL

\* After the stop event no request goes out, whichever wait its worker was in.
THEOREM StopIsObeyed == Spec => NoRequestAfterStop
<1>1. TypeOK /\ [Next]_vars =>
        [\A w \in Worker : stop /\ worker'[w] = "sending" => worker[w] = "sending"]_vars
  <2> SUFFICES ASSUME TypeOK, Next, stop, NEW w \in Worker, worker'[w] = "sending"
               PROVE  worker[w] = "sending"
    OBVIOUS
  <2>1. CASE \E p \in Worker : WorkerStep(p)
    BY <2>1 DEF WorkerStep, Start, Acquired, Answered, Crash, Cancelled, Advance, MayGoOn, TypeOK
  <2>2. CASE DurationElapses \/ Signal \/ RunnerStep
    BY <2>2, OtherStepSum
  <2>3. QED
    BY <2>1, <2>2 DEF Next
<1>2. QED
  BY <1>1, TypeCorrect, PTL DEF Spec, NoRequestAfterStop
===============================================================================
