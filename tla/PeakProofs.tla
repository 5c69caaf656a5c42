------------------------------ MODULE PeakProofs ------------------------------
(***************************************************************************)
(* Theorems about the sweep for the highest throughput (module Peak), for  *)
(* every configuration, whatever the server delivers, and for any number   *)
(* of starts.                                                              *)
(*                                                                         *)
(* SearchInv is inductive: what was measured is a ramp of doubling rates,  *)
(* and behind it rates that ascend inside one gap of the ramp.  So no rate *)
(* is measured twice, and what the ramp knew when it ended is still what   *)
(* the points say at the end.                                              *)
(***************************************************************************)
EXTENDS Peak, Lemmas

Point == [rate : Nat \ {0}, throughput : Nat]
First(c) == Smaller(c.start, c.max)

\* The first r points are a ramp.
RampOf(m, c, r) ==
  /\ r \in 0 .. Len(m)
  /\ r > 0 => m[1].rate = First(c)
  /\ \A j \in 2 .. r : m[j].rate = 2 * m[j - 1].rate

\* No gain over the points before.
Flat(m, c, j) ==
  \E i \in 1 .. j - 1 : 100 * m[j].throughput <= m[i].throughput * (100 + c.gain)

\* stale counts the points at the end of the ramp that brought no gain.
Gains(m, c, r, stale) ==
  /\ stale \in 0 .. r
  /\ \A j \in r - stale + 1 .. r : Flat(m, c, j)
  /\ stale = 0 /\ r > 0 => ~Flat(m, c, r)

\* What is measured behind the ramp, and what is still to be drawn, ascends inside
\* the gap below point e of the ramp.
Inside(m, r, e, coming) ==
  /\ \A j \in r + 1 .. Len(m) : m[e - 1].rate < m[j].rate /\ m[j].rate < m[e].rate
  /\ \A j, k \in r + 1 .. Len(m) : j < k => m[j].rate < m[k].rate
  /\ \A i \in DOMAIN coming : m[e - 1].rate < coming[i] /\ coming[i] < m[e].rate
  /\ \A i, k \in DOMAIN coming : i < k => coming[i] < coming[k]
  /\ \A j \in r + 1 .. Len(m) : \A i \in DOMAIN coming : m[j].rate < coming[i]

Drawn(m, r, coming) ==
  \/ Len(m) = r /\ coming = <<>>
  \/ \E e \in 2 .. r : Inside(m, r, e, coming)

Coming(s) == IF s.pending = 0 THEN <<>> ELSE <<s.pending>> \o s.queue

SearchType ==
  [config : Configs, phase : {"ramp", "densify"}, pending : Nat, measured : Seq(Point),
   stale : Nat, queue : Seq(Nat \ {0}), outcome : {"open", "located", "still_rising"}]

SearchOK(s) ==
  /\ s \in SearchType
  /\ \A i \in DOMAIN s.measured : s.measured[i].rate <= s.config.max

RampInv(s) ==
  LET m == s.measured
      n == Len(m)
  IN  /\ RampOf(m, s.config, n) /\ Gains(m, s.config, n, s.stale)
      /\ s.pending # 0 =>
           /\ s.outcome = "open" /\ s.pending <= s.config.max
           /\ s.pending = IF n = 0 THEN First(s.config) ELSE 2 * m[n].rate
      /\ s.pending = 0 =>
           /\ n > 0 /\ 2 * m[n].rate > s.config.max
           /\ s.outcome = IF s.stale = 0 THEN "still_rising" ELSE "located"

DensifyInv(s) ==
  /\ s.stale >= s.config.patience
  /\ s.outcome = IF s.pending = 0 THEN "located" ELSE "open"
  /\ s.pending = 0 => s.queue = <<>>
  /\ \E r \in 1 .. Len(s.measured) :
       /\ RampOf(s.measured, s.config, r) /\ Gains(s.measured, s.config, r, s.stale)
       /\ Drawn(s.measured, r, Coming(s))

SearchInv(s) ==
  /\ SearchOK(s)
  /\ s.phase = "ramp" => RampInv(s)
  /\ s.phase = "densify" => DensifyInv(s)

DiskType == [rate : Nat \ {0}, throughput : {{}} \cup {{t} : t \in Throughputs}]

PeakInv ==
  /\ SearchInv(search)
  /\ resume \in BOOLEAN
  /\ step \in {"running", "failed", "finished"}
  /\ step = "finished" => search.pending = 0
  /\ disk \subseteq DiskType
  /\ starts \in Nat

-----------------------------------------------------------------------------
(* The ramp. *)

LEMMA FirstPositive ==
  ASSUME NEW c \in Configs
  PROVE  /\ First(c) \in Nat \ {0} /\ First(c) <= c.max /\ c.densify < First(c)
         /\ c \in ConfigType
BY PeakAssumption DEF ConfigType, First, Smaller

LEMMA OneMorePoint ==
  ASSUME NEW m \in Seq(Point), NEW x \in Point
  PROVE  /\ Append(m, x) \in Seq(Point) /\ Len(Append(m, x)) = Len(m) + 1
         /\ \A i \in 1 .. Len(m) : Append(m, x)[i] = m[i]
         /\ Append(m, x)[Len(m) + 1] = x
OBVIOUS

\* A ramp ascends, and starts with its lowest rate.
LEMMA RampAscends ==
  ASSUME NEW m \in Seq(Point), NEW c \in Configs, NEW r, RampOf(m, c, r)
  PROVE  /\ \A i, j \in 1 .. r : i < j => m[i].rate < m[j].rate
         /\ \A i \in 1 .. r : First(c) <= m[i].rate
<1>0. /\ r \in Nat /\ r <= Len(m)
      /\ \A i \in 1 .. r : m[i].rate \in Nat /\ m[i].rate > 0
      /\ \A j \in 2 .. r : m[j].rate = 2 * m[j - 1].rate
      /\ r > 0 => m[1].rate = First(c)
  <2>1. \A i \in 1 .. Len(m) : m[i] \in Point
    OBVIOUS
  <2>2. \A i \in 1 .. Len(m) : m[i].rate \in Nat /\ m[i].rate > 0
    BY <2>1 DEF Point
  <2>3. Len(m) \in Nat
    OBVIOUS
  <2> QED
    BY <2>2, <2>3 DEF RampOf
<1>1. ASSUME NEW i \in 1 .. r  PROVE  \A j \in 1 .. r : i < j => m[i].rate < m[j].rate
  <2> DEFINE T == {j \in 1 .. r : i < j /\ ~(m[i].rate < m[j].rate)}
  <2>1. SUFFICES ASSUME T # {}  PROVE  FALSE
    OBVIOUS
  <2>2. T \subseteq Nat
    BY <1>0
  <2>3. PICK j \in T : \A k \in T : j <= k
    BY <2>1, <2>2, LeastNumber
  <2>4. j \in 2 .. r /\ j - 1 \in 1 .. r /\ j - 1 \notin T
    BY <1>0, <2>3
  <2>5. m[j].rate = 2 * m[j - 1].rate
    BY <1>0, <2>4
  <2>6. i = j - 1 \/ m[i].rate < m[j - 1].rate
    BY <1>0, <2>3, <2>4
  <2> QED
    BY <1>0, <2>3, <2>4, <2>5, <2>6
<1>2. \A i \in 1 .. r : First(c) <= m[i].rate
  BY <1>0, <1>1, FirstPositive
<1> QED
  BY <1>1, <1>2

\* What is appended behind a ramp leaves it as it is.
LEMMA RampStays ==
  ASSUME NEW m \in Seq(Point), NEW x \in Point, NEW c, NEW r, NEW stale,
         RampOf(m, c, r), Gains(m, c, r, stale)
  PROVE  RampOf(Append(m, x), c, r) /\ Gains(Append(m, x), c, r, stale)
<1>1. /\ Len(Append(m, x)) = Len(m) + 1 /\ Len(m) \in Nat /\ r \in 0 .. Len(m)
      /\ \A i \in 1 .. r : Append(m, x)[i] = m[i]
  BY OneMorePoint DEF RampOf
<1>2. RampOf(Append(m, x), c, r)
  BY <1>1 DEF RampOf
<1>3. ASSUME NEW j \in 1 .. r  PROVE  Flat(Append(m, x), c, j) <=> Flat(m, c, j)
  BY <1>1, <1>3 DEF Flat
<1>4. Gains(Append(m, x), c, r, stale)
  BY <1>1, <1>3 DEF Gains
<1> QED
  BY <1>2, <1>4

\* A point that doubles the last one continues the ramp, and improved says what
\* it added to the account of gains.
LEMMA RampGrows ==
  ASSUME NEW m \in Seq(Point), NEW c \in Configs, NEW stale, NEW x \in Point,
         NEW improved \in BOOLEAN,
         RampOf(m, c, Len(m)), Gains(m, c, Len(m), stale),
         x.rate = IF Len(m) = 0 THEN First(c) ELSE 2 * m[Len(m)].rate,
         improved <=> ~Flat(Append(m, x), c, Len(m) + 1)
  PROVE  /\ RampOf(Append(m, x), c, Len(m) + 1)
         /\ Gains(Append(m, x), c, Len(m) + 1, IF improved THEN 0 ELSE stale + 1)
<1> DEFINE n == Len(m)
           a == Append(m, x)
<1>1. /\ Len(a) = n + 1 /\ n \in Nat /\ a[n + 1] = x
      /\ \A i \in 1 .. n : a[i] = m[i]
  BY OneMorePoint
<1>2. RampOf(a, c, n + 1)
  BY <1>1 DEF RampOf
<1>3. Gains(a, c, n, stale) /\ stale \in 0 .. n
  BY RampStays DEF Gains
<1> HIDE DEF a
<1>4. CASE improved
  <2>1. \A j \in (n + 1) - 0 + 1 .. n + 1 : FALSE
    BY <1>1
  <2> QED
    BY <1>1, <1>2, <1>4, <2>1 DEF Gains, a
<1>5. CASE ~improved
  <2>1. Flat(a, c, n + 1)
    BY <1>5 DEF a
  <2>2. \A j \in (n + 1) - (stale + 1) + 1 .. n + 1 : j = n + 1 \/ j \in n - stale + 1 .. n
    BY <1>1, <1>3
  <2>3. \A j \in (n + 1) - (stale + 1) + 1 .. n + 1 : Flat(a, c, j)
    BY <1>3, <2>1, <2>2 DEF Gains
  <2>4. stale + 1 \in 0 .. n + 1 /\ stale + 1 # 0
    BY <1>1, <1>3
  <2>5. Gains(a, c, n + 1, stale + 1)
    BY <2>3, <2>4 DEF Gains
  <2> QED
    BY <1>2, <1>5, <2>5 DEF a
<1> QED
  BY <1>4, <1>5

-----------------------------------------------------------------------------
(* The best point and the plateau around it. *)

\* The points of a search that has measured something, each rate once.
Measured(s) ==
  /\ s.measured \in Seq(Point) /\ Len(s.measured) > 0
  /\ s.config \in ConfigType
  /\ \A i, j \in DOMAIN s.measured : i # j => s.measured[i].rate # s.measured[j].rate

LastOfTheBest(m, i) ==
  \A j \in DOMAIN m : /\ m[j].throughput <= m[i].throughput
                      /\ j > i => m[j].throughput < m[i].throughput

LEMMA BestExists ==
  ASSUME NEW m \in Seq(Point), Len(m) > 0
  PROVE  \E i \in DOMAIN m : LastOfTheBest(m, i)
<1> DEFINE n == Len(m)
           Leads(k, i) == \A j \in 1 .. k : /\ m[j].throughput <= m[i].throughput
                                            /\ j > i => m[j].throughput < m[i].throughput
           T == {k \in 1 .. n : ~\E i \in 1 .. k : Leads(k, i)}
<1>0. n \in Nat /\ DOMAIN m = 1 .. n /\ \A i \in 1 .. n : m[i].throughput \in Nat
  <2>1. \A i \in 1 .. n : m[i] \in Point
    OBVIOUS
  <2> QED
    BY <2>1 DEF Point
<1>1. SUFFICES ASSUME T # {}  PROVE  FALSE
  <2>1. SUFFICES ASSUME T = {}  PROVE  \E i \in DOMAIN m : LastOfTheBest(m, i)
    OBVIOUS
  <2>2. n \in 1 .. n
    BY <1>0
  <2>2a. n \notin T
    BY <2>1, Zenon
  <2>3. PICK i \in 1 .. n : Leads(n, i)
    BY <2>2, <2>2a
  <2> QED
    BY <1>0, <2>3 DEF LastOfTheBest
<1>2. PICK k \in T : \A j \in T : k <= j
  <2>1. T \subseteq Nat
    BY <1>0
  <2> QED
    BY <1>1, <2>1, LeastNumber
<1>3. k # 1
  BY <1>0, <1>2
<1>4. k - 1 \in 1 .. n /\ k - 1 \notin T
  <2>1. k \in 1 .. n /\ ~(k <= k - 1) /\ k - 1 \in 1 .. n
    BY <1>0, <1>2, <1>3
  <2> HIDE DEF T
  <2> QED
    BY <1>2, <2>1
<1>5. PICK i \in 1 .. k - 1 : Leads(k - 1, i)
  BY <1>4
<1>6. CASE m[k].throughput < m[i].throughput
  BY <1>0, <1>2, <1>5, <1>6
<1>7. CASE m[i].throughput <= m[k].throughput
  BY <1>0, <1>2, <1>5, <1>7
<1> QED
  BY <1>0, <1>2, <1>5, <1>6, <1>7

LEMMA BestIsLast ==
  ASSUME NEW s, s.measured \in Seq(Point), Len(s.measured) > 0
  PROVE  \E b \in DOMAIN s.measured :
           Best(s) = s.measured[b] /\ LastOfTheBest(s.measured, b)
<1>1. \E i \in DOMAIN s.measured : LastOfTheBest(s.measured, i)
  BY BestExists
<1> QED
  BY <1>1 DEF Best, LastOfTheBest

\* The two loops stop where the run of level points around the best one ends.
DownFrom(s, sorted, f) ==
  f = [i \in DOMAIN sorted |->
        IF i > 1 /\ Level(s, sorted[i - 1].throughput) THEN f[i - 1] ELSE i]

UpFrom(s, sorted, f) ==
  f = [i \in DOMAIN sorted |->
        IF i < Len(sorted) /\ Level(s, sorted[i + 1].throughput) THEN f[i + 1] ELSE i]

\* Where the run of level points that begins at i ends, on either side.
LowEnd(s, sorted, i, k) ==
  /\ k \in 1 .. i
  /\ \A j \in k .. i - 1 : Level(s, sorted[j].throughput)
  /\ k > 1 => ~Level(s, sorted[k - 1].throughput)

HighEnd(s, sorted, i, k) ==
  /\ k \in i .. Len(sorted)
  /\ \A j \in i + 1 .. k : Level(s, sorted[j].throughput)
  /\ k < Len(sorted) => ~Level(s, sorted[k + 1].throughput)

LEMMA LowEndIsUnique ==
  ASSUME NEW s, NEW sorted, NEW i \in Nat,
         NEW k, LowEnd(s, sorted, i, k), NEW j, LowEnd(s, sorted, i, j)
  PROVE  j = k
<1>1. j \in 1 .. i /\ k \in 1 .. i
  BY DEF LowEnd
<1>2. ~(j < k)
  <2>1. SUFFICES ASSUME j < k  PROVE  FALSE
    OBVIOUS
  <2>2. k - 1 \in j .. i - 1 /\ k > 1
    BY <1>1, <2>1
  <2> QED
    BY <2>2 DEF LowEnd
<1>3. ~(k < j)
  <2>1. SUFFICES ASSUME k < j  PROVE  FALSE
    OBVIOUS
  <2>2. j - 1 \in k .. i - 1 /\ j > 1
    BY <1>1, <2>1
  <2> QED
    BY <2>2 DEF LowEnd
<1> QED
  BY <1>1, <1>2, <1>3

LEMMA LowEndExists ==
  ASSUME NEW s, NEW sorted, NEW i \in Nat, i > 0
  PROVE  \E k : LowEnd(s, sorted, i, k)
<1> DEFINE T == {k \in 1 .. i : \A j \in k .. i - 1 : Level(s, sorted[j].throughput)}
<1>1. i \in T /\ T \subseteq Nat
  OBVIOUS
<1>2. PICK k \in T : \A j \in T : k <= j
  BY <1>1, LeastNumber
<1>3. ASSUME k > 1, Level(s, sorted[k - 1].throughput)  PROVE  FALSE
  <2>1. k - 1 \in 1 .. i /\ k \in 1 .. i /\ \A j \in k - 1 .. i - 1 : j = k - 1 \/ j \in k .. i - 1
    BY <1>3
  <2>2. k - 1 \in T
    BY <1>3, <2>1
  <2> QED
    BY <1>2, <2>1, <2>2
<1> QED
  BY <1>2, <1>3 DEF LowEnd

LEMMA LowEndMoves ==
  ASSUME NEW s, NEW sorted, NEW i \in Nat, i > 1, NEW k,
         Level(s, sorted[i - 1].throughput), LowEnd(s, sorted, i - 1, k)
  PROVE  LowEnd(s, sorted, i, k)
<1>1. \A j \in k .. i - 1 : j = i - 1 \/ j \in k .. (i - 1) - 1
  BY DEF LowEnd
<1> QED
  BY <1>1 DEF LowEnd

LEMMA LowEndStays ==
  ASSUME NEW s, NEW sorted, NEW i \in Nat, i > 0,
         i = 1 \/ ~Level(s, sorted[i - 1].throughput)
  PROVE  LowEnd(s, sorted, i, i)
BY DEF LowEnd

LEMMA DownFromEnds ==
  ASSUME NEW s, NEW sorted \in Seq(Point), NEW b \in DOMAIN sorted
  PROVE  LowEnd(s, sorted, b, (CHOOSE f : DownFrom(s, sorted, f))[b])
<1> DEFINE D == 1 .. Len(sorted)
           g == [i \in D |-> CHOOSE k : LowEnd(s, sorted, i, k)]
<1>0. Len(sorted) \in Nat /\ DOMAIN sorted = D /\ D \subseteq Nat
  OBVIOUS
<1>1. \A i \in D : LowEnd(s, sorted, i, g[i])
  <2> SUFFICES ASSUME NEW i \in D  PROVE  LowEnd(s, sorted, i, g[i])
    OBVIOUS
  <2>1. i \in Nat /\ i > 0
    BY <1>0
  <2>2. \E k : LowEnd(s, sorted, i, k)
    BY <2>1, LowEndExists
  <2> QED
    BY <2>2
<1>2. \A i \in D : g[i] = IF i > 1 /\ Level(s, sorted[i - 1].throughput) THEN g[i - 1] ELSE i
  <2> SUFFICES ASSUME NEW i \in D
               PROVE  g[i] = IF i > 1 /\ Level(s, sorted[i - 1].throughput)
                               THEN g[i - 1] ELSE i
    OBVIOUS
  <2> HIDE DEF g
  <2>1. i \in Nat /\ i > 0 /\ LowEnd(s, sorted, i, g[i])
    BY <1>0, <1>1
  <2>2. CASE i > 1 /\ Level(s, sorted[i - 1].throughput)
    <3>1. i - 1 \in D
      BY <1>0, <2>2
    <3>2. LowEnd(s, sorted, i, g[i - 1])
      BY <1>1, <2>1, <2>2, <3>1, LowEndMoves
    <3> QED
      BY <2>1, <2>2, <3>2, LowEndIsUnique
  <2>3. CASE ~(i > 1 /\ Level(s, sorted[i - 1].throughput))
    <3>1. LowEnd(s, sorted, i, i)
      BY <2>1, <2>3, LowEndStays
    <3>2. g[i] = i
      BY <2>1, <3>1, LowEndIsUnique
    <3> QED
      BY <2>3, <3>2
  <2> QED
    BY <2>2, <2>3
<1>3. DownFrom(s, sorted, g)
  <2>1. g = [i \in D |-> g[i]]
    OBVIOUS
  <2> HIDE DEF g
  <2>2. g = [i \in D |-> IF i > 1 /\ Level(s, sorted[i - 1].throughput) THEN g[i - 1] ELSE i]
    BY <1>2, <2>1
  <2> QED
    BY <1>0, <2>2 DEF DownFrom
<1> DEFINE f == CHOOSE h : DownFrom(s, sorted, h)
<1>4. DownFrom(s, sorted, f)
  BY <1>3
<1> HIDE DEF f, g
<1>5. \A i \in D : f[i] = IF i > 1 /\ Level(s, sorted[i - 1].throughput) THEN f[i - 1] ELSE i
  BY <1>0, <1>4 DEF DownFrom
<1>6. \A i \in D : f[i] = g[i]
  <2> DEFINE T == {i \in D : f[i] # g[i]}
  <2>1. SUFFICES ASSUME T # {}  PROVE  FALSE
    OBVIOUS
  <2>2. PICK i \in T : \A j \in T : i <= j
    BY <1>0, <2>1, LeastNumber
  <2>3. ASSUME i > 1  PROVE  f[i - 1] = g[i - 1]
    <3>1. i - 1 \in D /\ ~(i <= i - 1)
      BY <1>0, <2>2, <2>3
    <3> QED
      BY <2>2, <3>1
  <2> QED
    BY <1>2, <1>5, <2>2, <2>3
<1> QED
  BY <1>0, <1>1, <1>6 DEF f

LEMMA HighEndIsUnique ==
  ASSUME NEW s, NEW sorted \in Seq(Point), NEW i \in Nat,
         NEW k, HighEnd(s, sorted, i, k), NEW j, HighEnd(s, sorted, i, j)
  PROVE  j = k
<1>1. j \in i .. Len(sorted) /\ k \in i .. Len(sorted) /\ Len(sorted) \in Nat
  BY DEF HighEnd
<1>2. ~(j < k)
  <2>1. SUFFICES ASSUME j < k  PROVE  FALSE
    OBVIOUS
  <2>2. j + 1 \in i + 1 .. k /\ j < Len(sorted)
    BY <1>1, <2>1
  <2> QED
    BY <2>2 DEF HighEnd
<1>3. ~(k < j)
  <2>1. SUFFICES ASSUME k < j  PROVE  FALSE
    OBVIOUS
  <2>2. k + 1 \in i + 1 .. j /\ k < Len(sorted)
    BY <1>1, <2>1
  <2> QED
    BY <2>2 DEF HighEnd
<1> QED
  BY <1>1, <1>2, <1>3

LEMMA HighEndExists ==
  ASSUME NEW s, NEW sorted \in Seq(Point), NEW i \in DOMAIN sorted
  PROVE  \E k : HighEnd(s, sorted, i, k)
<1> DEFINE n == Len(sorted)
           Run(k) == \A j \in i + 1 .. k : Level(s, sorted[j].throughput)
           T == {d \in 0 .. n - i : Run(n - d)}
<1>0. n \in Nat /\ i \in Nat /\ i <= n
  OBVIOUS
<1>1. n - i \in T /\ T \subseteq Nat
  BY <1>0
<1>2. PICK d \in T : \A e \in T : d <= e
  BY <1>1, LeastNumber
<1>3. n - d \in i .. n /\ Run(n - d)
  BY <1>0, <1>2
<1>4. ASSUME n - d < n, Level(s, sorted[(n - d) + 1].throughput)  PROVE  FALSE
  <2>1. /\ d - 1 \in 0 .. n - i /\ n - (d - 1) = (n - d) + 1 /\ ~(d <= d - 1)
        /\ \A j \in i + 1 .. (n - d) + 1 : j = (n - d) + 1 \/ j \in i + 1 .. n - d
    <3>1. d \in 0 .. n - i
      BY <1>2
    <3>2. 1 <= d /\ d <= n - i /\ d \in Nat
      BY <1>0, <1>4, <3>1
    <3> HIDE DEF n, Run, T
    <3> QED
      BY <1>0, <3>2
  <2>2. Run(n - (d - 1))
    BY <1>3, <1>4, <2>1
  <2>3. d - 1 \in T
    BY <2>1, <2>2
  <2> QED
    BY <1>2, <2>1, <2>3
<1>5. HighEnd(s, sorted, i, n - d)
  BY <1>3, <1>4 DEF HighEnd
<1> QED
  BY <1>5

LEMMA HighEndMoves ==
  ASSUME NEW s, NEW sorted \in Seq(Point), NEW i \in Nat, NEW k,
         Level(s, sorted[i + 1].throughput), HighEnd(s, sorted, i + 1, k)
  PROVE  HighEnd(s, sorted, i, k)
<1>1. k \in i .. Len(sorted) /\ \A j \in i + 1 .. k : j = i + 1 \/ j \in (i + 1) + 1 .. k
  BY DEF HighEnd
<1> QED
  BY <1>1 DEF HighEnd

LEMMA HighEndStays ==
  ASSUME NEW s, NEW sorted \in Seq(Point), NEW i \in DOMAIN sorted,
         ~(i < Len(sorted) /\ Level(s, sorted[i + 1].throughput))
  PROVE  HighEnd(s, sorted, i, i)
BY DEF HighEnd

LEMMA UpFromEnds ==
  ASSUME NEW s, NEW sorted \in Seq(Point), NEW b \in DOMAIN sorted
  PROVE  HighEnd(s, sorted, b, (CHOOSE f : UpFrom(s, sorted, f))[b])
<1> DEFINE n == Len(sorted)
           D == 1 .. n
           g == [i \in D |-> CHOOSE k : HighEnd(s, sorted, i, k)]
<1>0. n \in Nat /\ DOMAIN sorted = D /\ D \subseteq Nat
  OBVIOUS
<1>1. \A i \in D : HighEnd(s, sorted, i, g[i])
  <2> SUFFICES ASSUME NEW i \in D  PROVE  HighEnd(s, sorted, i, g[i])
    OBVIOUS
  <2>1. \E k : HighEnd(s, sorted, i, k)
    BY <1>0, HighEndExists
  <2> QED
    BY <2>1
<1>2. \A i \in D : g[i] = IF i < n /\ Level(s, sorted[i + 1].throughput) THEN g[i + 1] ELSE i
  <2> SUFFICES ASSUME NEW i \in D
               PROVE  g[i] = IF i < n /\ Level(s, sorted[i + 1].throughput)
                               THEN g[i + 1] ELSE i
    OBVIOUS
  <2> HIDE DEF g
  <2>1. i \in Nat /\ i \in DOMAIN sorted /\ HighEnd(s, sorted, i, g[i])
    BY <1>0, <1>1
  <2>2. CASE i < n /\ Level(s, sorted[i + 1].throughput)
    <3>1. i + 1 \in D
      BY <1>0, <2>2
    <3>2. HighEnd(s, sorted, i, g[i + 1])
      BY <1>1, <2>1, <2>2, <3>1, HighEndMoves
    <3> QED
      BY <2>1, <2>2, <3>2, HighEndIsUnique
  <2>3. CASE ~(i < n /\ Level(s, sorted[i + 1].throughput))
    <3>1. HighEnd(s, sorted, i, i)
      BY <2>1, <2>3, HighEndStays
    <3>2. g[i] = i
      BY <2>1, <3>1, HighEndIsUnique
    <3> QED
      BY <2>3, <3>2
  <2> QED
    BY <2>2, <2>3
<1>3. UpFrom(s, sorted, g)
  <2>1. g = [i \in D |-> g[i]]
    OBVIOUS
  <2> HIDE DEF g
  <2>2. g = [i \in D |-> IF i < n /\ Level(s, sorted[i + 1].throughput) THEN g[i + 1] ELSE i]
    BY <1>2, <2>1
  <2> QED
    BY <1>0, <2>2 DEF UpFrom
<1> DEFINE f == CHOOSE h : UpFrom(s, sorted, h)
<1>4. UpFrom(s, sorted, f)
  BY <1>3
<1> HIDE DEF f, g
<1>5. \A i \in D : f[i] = IF i < n /\ Level(s, sorted[i + 1].throughput) THEN f[i + 1] ELSE i
  BY <1>0, <1>4 DEF UpFrom
<1>6. \A d \in 0 .. n - 1 : f[n - d] = g[n - d]
  <2> DEFINE T == {d \in 0 .. n - 1 : f[n - d] # g[n - d]}
  <2>1. SUFFICES ASSUME T # {}  PROVE  FALSE
    OBVIOUS
  <2>2. PICK d \in T : \A e \in T : d <= e
    <3>1. T \subseteq Nat
      BY <1>0
    <3> QED
      BY <2>1, <3>1, LeastNumber
  <2>3. n - d \in D /\ f[n - d] # g[n - d]
    BY <1>0, <2>2
  <2>4. ASSUME n - d < n  PROVE  f[(n - d) + 1] = g[(n - d) + 1]
    <3>1. d - 1 \in 0 .. n - 1 /\ ~(d <= d - 1) /\ n - (d - 1) = (n - d) + 1
      BY <1>0, <2>2, <2>4
    <3> QED
      BY <2>2, <3>1
  <2> QED
    BY <1>2, <1>5, <2>3, <2>4
<1>7. b \in D /\ n - b \in 0 .. n - 1 /\ n - (n - b) = b
  BY <1>0
<1>8. f[b] = g[b]
  BY <1>6, <1>7
<1>9. HighEnd(s, sorted, b, f[b])
  BY <1>1, <1>7, <1>8
<1> QED
  BY <1>9 DEF f

\* Sorted, the points ascend strictly, since no rate comes twice.
LEMMA SortedPoints ==
  ASSUME NEW s, Measured(s)
  PROVE  LET sorted == SortedByRate(s) IN
           /\ sorted \in Seq(Point) /\ Len(sorted) = Len(s.measured)
           /\ \A k \in DOMAIN sorted : \E i \in DOMAIN s.measured : sorted[k] = s.measured[i]
           /\ \A i \in DOMAIN s.measured : \E k \in DOMAIN sorted : sorted[k] = s.measured[i]
           /\ \A a, b \in DOMAIN sorted : a < b => sorted[a].rate < sorted[b].rate
<1> DEFINE m == s.measured
           keys == [i \in DOMAIN m |-> m[i].rate]
           sorted == SortBy(m, keys)
<1>1. /\ m \in Seq(Point) /\ DOMAIN m = 1 .. Len(m) /\ Len(m) \in Nat
      /\ \A i \in DOMAIN m : m[i].rate \in Nat
  <2>1. m \in Seq(Point)
    BY DEF Measured
  <2>2. \A i \in DOMAIN m : m[i] \in Point
    BY <2>1
  <2> QED
    BY <2>1, <2>2 DEF Point
<1>2. keys \in Seq(Nat) /\ Len(keys) = Len(m) /\ DOMAIN keys = DOMAIN m
  <2>1. keys \in [1 .. Len(m) -> Nat]
    BY <1>1
  <2> QED
    BY <1>1, <2>1
<1>3. /\ sorted \in Seq(Point) /\ Len(sorted) = Len(m) /\ DOMAIN sorted = DOMAIN m
      /\ \A k \in DOMAIN m : Order(keys)[k] \in DOMAIN m /\ sorted[k] = m[Order(keys)[k]]
      /\ \A i \in DOMAIN m : \E k \in DOMAIN m : Order(keys)[k] = i
  <2> HIDE DEF m, keys, sorted
  <2>1. /\ DOMAIN SortBy(m, keys) = DOMAIN m
        /\ SortBy(m, keys) = [k \in DOMAIN m |-> m[Order(keys)[k]]]
        /\ \A k \in DOMAIN m : Order(keys)[k] \in DOMAIN m
        /\ \A i \in DOMAIN m : \E k \in DOMAIN m : Order(keys)[k] = i
    BY <1>2, SortByProperties
  <2>2. sorted = [k \in 1 .. Len(m) |-> m[Order(keys)[k]]]
    BY <1>1, <2>1 DEF sorted
  <2>3. sorted \in [1 .. Len(m) -> Point]
    BY <1>1, <2>1, <2>2
  <2>4. sorted \in Seq(Point) /\ Len(sorted) = Len(m)
    BY <1>1, <2>3
  <2> QED
    BY <1>1, <2>1, <2>2, <2>4
<1>4. \A a, b \in DOMAIN m : a < b =>
        /\ keys[Order(keys)[a]] <= keys[Order(keys)[b]] /\ Order(keys)[a] # Order(keys)[b]
  <2>1. Order(keys) \in Bijection(DOMAIN m, DOMAIN m)
    BY <1>2, SortingSorts
  <2>2. \A a, b \in DOMAIN m : Order(keys)[a] = Order(keys)[b] => a = b
    BY <2>1, Fun_BijectionProperties
  <2>3. \A a, b \in DOMAIN m : a < b => keys[Order(keys)[a]] <= keys[Order(keys)[b]]
    BY <1>2, SortingSorts
  <2> HIDE DEF keys
  <2> QED
    BY <1>1, <2>2, <2>3
<1>5. ASSUME NEW a \in DOMAIN m, NEW b \in DOMAIN m, a < b
      PROVE  sorted[a].rate < sorted[b].rate
  <2> DEFINE i == Order(keys)[a]
             j == Order(keys)[b]
  <2>1. /\ i \in DOMAIN m /\ j \in DOMAIN m /\ sorted[a] = m[i] /\ sorted[b] = m[j]
        /\ keys[i] <= keys[j] /\ i # j
    BY <1>3, <1>4, <1>5
  <2> HIDE DEF i, j, sorted
  <2>2. keys[i] = m[i].rate /\ keys[j] = m[j].rate
    BY <2>1
  <2>3. m[i].rate # m[j].rate
    BY <2>1 DEF Measured
  <2>4. m[i].rate \in Nat /\ m[j].rate \in Nat
    BY <1>1, <2>1
  <2> QED
    BY <2>1, <2>2, <2>3, <2>4
<1> HIDE DEF sorted
<1>6. \A i \in DOMAIN m : \E k \in DOMAIN m : sorted[k] = m[i]
  <2> HIDE DEF m, keys
  <2> SUFFICES ASSUME NEW i \in DOMAIN m  PROVE  \E k \in DOMAIN m : sorted[k] = m[i]
    OBVIOUS
  <2>1. PICK k \in DOMAIN m : Order(keys)[k] = i
    BY <1>3
  <2> QED
    BY <1>3, <2>1
<1>7. SortedByRate(s) = sorted
  BY DEF SortedByRate, sorted
<1> QED
  BY <1>3, <1>5, <1>6, <1>7

\* What a peak is made of: the best point and the ends of the level run around it,
\* by their places among the sorted points.
PeakParts(s, sorted, p, lo, hi) ==
  /\ p \in DOMAIN sorted /\ sorted[p] = Best(s)
  /\ LowEnd(s, sorted, p, lo) /\ HighEnd(s, sorted, p, hi)
  /\ lo \in DOMAIN sorted /\ hi \in DOMAIN sorted
  /\ PeakOf(s) = [rate |-> Best(s).rate, throughput |-> Best(s).throughput,
                  low |-> sorted[lo].rate, high |-> sorted[hi].rate,
                  decline |-> Best(s).throughput - sorted[Len(sorted)].throughput]

LEMMA PeakHasParts ==
  ASSUME NEW s, Measured(s)
  PROVE  \E p, lo, hi : PeakParts(s, SortedByRate(s), p, lo, hi)
<1> DEFINE sorted == SortedByRate(s)
           p == CHOOSE i \in DOMAIN sorted : sorted[i].rate = Best(s).rate
           lo == LowEdge(s, sorted)
           hi == HighEdge(s, sorted)
<1>1. /\ sorted \in Seq(Point)
      /\ \A i \in DOMAIN s.measured : \E k \in DOMAIN sorted : sorted[k] = s.measured[i]
      /\ \A a, b \in DOMAIN sorted : a < b => sorted[a].rate < sorted[b].rate
  BY SortedPoints
<1>2. PICK b \in DOMAIN s.measured : Best(s) = s.measured[b]
  BY BestIsLast DEF Measured
<1>3. PICK k \in DOMAIN sorted : sorted[k] = Best(s)
  BY <1>1, <1>2
<1> HIDE DEF sorted
<1>4. p \in DOMAIN sorted /\ sorted[p].rate = Best(s).rate
  BY <1>3
<1> HIDE DEF p
<1>5. p = k
  <2>1. p \in Nat /\ k \in Nat /\ sorted[p] \in Point /\ sorted[k] \in Point
    BY <1>1, <1>3, <1>4
  <2>2. ~(p < k) /\ ~(k < p)
    BY <1>1, <1>3, <1>4, <2>1 DEF Point
  <2> QED
    BY <2>1, <2>2
<1>6. lo = (CHOOSE f : DownFrom(s, sorted, f))[p]
  BY DEF LowEdge, DownFrom, p
<1>7. hi = (CHOOSE f : UpFrom(s, sorted, f))[p]
  BY DEF HighEdge, UpFrom, p
<1> HIDE DEF lo, hi
<1>8. LowEnd(s, sorted, p, lo) /\ HighEnd(s, sorted, p, hi)
  BY <1>1, <1>4, <1>6, <1>7, DownFromEnds, UpFromEnds
<1>9. lo \in DOMAIN sorted /\ hi \in DOMAIN sorted
  BY <1>1, <1>4, <1>8 DEF LowEnd, HighEnd
<1>10. PeakOf(s) = [rate |-> Best(s).rate, throughput |-> Best(s).throughput,
                    low |-> sorted[lo].rate, high |-> sorted[hi].rate,
                    decline |-> Best(s).throughput - sorted[Len(sorted)].throughput]
  BY DEF PeakOf, sorted, lo, hi
<1>11. PeakParts(s, sorted, p, lo, hi)
  BY <1>3, <1>5, <1>8, <1>9, <1>10 DEF PeakParts
<1> QED
  BY <1>11 DEF sorted

LEMMA BestIsLevel ==
  ASSUME NEW t \in Nat, NEW tolerance \in 0 .. 100
  PROVE  100 * t >= t * (100 - tolerance)
<1>1. t * (100 - tolerance) = 100 * t - t * tolerance /\ t * tolerance >= 0
  OBVIOUS
<1> QED
  BY <1>1

\* A fall beyond the tolerance is not level.
LEMMA DeclineIsBelow ==
  ASSUME NEW t \in Nat, NEW u \in Nat, NEW tolerance \in 0 .. 100,
         100 * (t - u) > t * tolerance
  PROVE  ~(100 * u >= t * (100 - tolerance))
<1>1. t * (100 - tolerance) = 100 * t - t * tolerance /\ t * tolerance \in Nat
  OBVIOUS
<1> QED
  BY <1>1

LEMMA AscendingOrder ==
  ASSUME NEW n \in Nat, NEW f \in [1 .. n -> Nat],
         \A a, c \in 1 .. n : a < c => f[a] < f[c]
  PROVE  /\ \A a, c \in 1 .. n : f[a] <= f[c] => a <= c
         /\ \A a, c \in 1 .. n : f[a] < f[c] => a < c
         /\ \A a, c \in 1 .. n : f[a] = f[c] => a = c
         /\ \A a, c \in 1 .. n : a <= c => f[a] <= f[c]
<1>1. \A a, c \in 1 .. n : a < c \/ a = c \/ c < a
  OBVIOUS
<1>2. \A a, c \in 1 .. n : f[a] \in Nat /\ f[c] \in Nat
  OBVIOUS
<1> QED
  BY <1>1, <1>2

\* What the report of a peak says of the points it was read from.
LEMMA ReportOfMeasured ==
  ASSUME Measured(search)
  PROVE  LET peak  == PeakOf(search)
             Ok(i) == 100 * Got(i) >= peak.throughput * (100 - search.config.tolerance)
             Top   == {i \in 1 .. N : \A j \in 1 .. N : Got(j) <= Got(i)}
         IN  /\ \A i \in Top : Got(i) = peak.throughput
             /\ \E i \in Top : RateOf(i) = peak.rate
             /\ peak.low <= peak.rate /\ peak.rate <= peak.high
             /\ \A i \in 1 .. N : RateOf(i) \in peak.low .. peak.high => Ok(i)
             /\ \A i, j \in 1 .. N : Adjacent(i, j) =>
                  (RateOf(j) = peak.low => ~Ok(i)) /\ (RateOf(i) = peak.high => ~Ok(j))
             /\ 100 * peak.decline > peak.throughput * search.config.tolerance =>
                  \E i \in 1 .. N : RateOf(i) > peak.high
<1> DEFINE m == search.measured
           n == Len(m)
           sorted == SortedByRate(search)
           peak == PeakOf(search)
           Flats == {k \in 1 .. n : Level(search, sorted[k].throughput)}
           Top == {i \in 1 .. n : \A j \in 1 .. n : m[j].throughput <= m[i].throughput}
<1>1. /\ m \in Seq(Point) /\ n \in Nat /\ DOMAIN m = 1 .. n
      /\ \A i \in 1 .. n : m[i].rate \in Nat /\ m[i].throughput \in Nat
      /\ search.config.tolerance \in 0 .. 100
  <2>1. m \in Seq(Point) /\ search.config \in ConfigType
    BY DEF Measured
  <2>2. \A i \in 1 .. n : m[i] \in Point
    BY <2>1
  <2>3. search.config.tolerance \in 0 .. 100
    BY <2>1 DEF ConfigType
  <2> QED
    BY <2>1, <2>2, <2>3 DEF Point
<1>2. /\ sorted \in Seq(Point) /\ DOMAIN sorted = 1 .. n /\ Len(sorted) = n
      /\ \A k \in 1 .. n : \E i \in 1 .. n : sorted[k] = m[i]
      /\ \A i \in 1 .. n : \E k \in 1 .. n : sorted[k] = m[i]
      /\ \A a, b \in 1 .. n : a < b => sorted[a].rate < sorted[b].rate
      /\ \A k \in 1 .. n : sorted[k].rate \in Nat /\ sorted[k].throughput \in Nat
  <2> HIDE DEF sorted
  <2>1. /\ sorted \in Seq(Point) /\ Len(sorted) = n
        /\ \A k \in DOMAIN sorted : \E i \in DOMAIN m : sorted[k] = m[i]
        /\ \A i \in DOMAIN m : \E k \in DOMAIN sorted : sorted[k] = m[i]
        /\ \A a, b \in DOMAIN sorted : a < b => sorted[a].rate < sorted[b].rate
    BY SortedPoints DEF sorted
  <2>2. DOMAIN sorted = 1 .. n
    BY <2>1
  <2>3. \A k \in 1 .. n : sorted[k].rate \in Nat /\ sorted[k].throughput \in Nat
    BY <1>1, <2>1, <2>2
  <2> QED
    BY <1>1, <2>1, <2>2, <2>3
<1>3. PICK b \in 1 .. n : Best(search) = m[b] /\ LastOfTheBest(m, b)
  BY <1>1, BestIsLast DEF Measured
<1>4. PICK p, lo, hi : PeakParts(search, sorted, p, lo, hi)
  BY PeakHasParts
<1> HIDE DEF m, n, sorted
<1>5. /\ p \in 1 .. n /\ lo \in 1 .. n /\ hi \in 1 .. n /\ sorted[p] = m[b]
      /\ lo <= p /\ p <= hi
      /\ \A k \in lo .. p - 1 : k \in Flats
      /\ \A k \in p + 1 .. hi : k \in Flats
      /\ lo > 1 => lo - 1 \notin Flats
      /\ hi < n => hi + 1 \notin Flats
  <2>1. /\ p \in 1 .. n /\ lo \in 1 .. n /\ hi \in 1 .. n /\ sorted[p] = m[b]
        /\ lo <= p /\ p <= hi
    BY <1>2, <1>3, <1>4 DEF PeakParts, LowEnd, HighEnd
  <2>2. /\ \A k \in lo .. p - 1 : Level(search, sorted[k].throughput)
        /\ \A k \in p + 1 .. hi : Level(search, sorted[k].throughput)
        /\ lo > 1 => ~Level(search, sorted[lo - 1].throughput)
        /\ hi < n => ~Level(search, sorted[hi + 1].throughput)
    BY <1>2, <1>4 DEF PeakParts, LowEnd, HighEnd
  <2>3. \A k \in lo .. p - 1 : k \in 1 .. n
    BY <1>1, <2>1
  <2>4. \A k \in p + 1 .. hi : k \in 1 .. n
    BY <1>1, <2>1
  <2> QED
    BY <2>1, <2>2, <2>3, <2>4
<1>6. /\ peak.rate = m[b].rate /\ peak.throughput = m[b].throughput
      /\ peak.low = sorted[lo].rate /\ peak.high = sorted[hi].rate
      /\ peak.decline = m[b].throughput - sorted[n].throughput
  BY <1>2, <1>3, <1>4 DEF PeakParts
<1>7. \A k \in 1 .. n : k \in Flats <=>
        100 * sorted[k].throughput >= peak.throughput * (100 - search.config.tolerance)
  BY <1>3, <1>6 DEF Level
<1>8. \A i \in 1 .. n : \A k \in 1 .. n : sorted[k] = m[i] =>
        (k \in Flats <=> 100 * m[i].throughput >= peak.throughput * (100 - search.config.tolerance))
  BY <1>7
<1>9. p \in Flats
  BY <1>1, <1>5, <1>6, <1>7, BestIsLevel
<1>10. /\ \A a, c \in 1 .. n : sorted[a].rate <= sorted[c].rate => a <= c
       /\ \A a, c \in 1 .. n : sorted[a].rate < sorted[c].rate => a < c
       /\ \A a, c \in 1 .. n : sorted[a].rate = sorted[c].rate => a = c
       /\ \A a, c \in 1 .. n : a <= c => sorted[a].rate <= sorted[c].rate
  <2> DEFINE f == [k \in 1 .. n |-> sorted[k].rate]
  <2>1. f \in [1 .. n -> Nat] /\ \A k \in 1 .. n : f[k] = sorted[k].rate
    BY <1>2
  <2>2. \A a, c \in 1 .. n : a < c => f[a] < f[c]
    BY <1>2
  <2> HIDE DEF f
  <2>3. /\ \A a, c \in 1 .. n : f[a] <= f[c] => a <= c
        /\ \A a, c \in 1 .. n : f[a] < f[c] => a < c
        /\ \A a, c \in 1 .. n : f[a] = f[c] => a = c
        /\ \A a, c \in 1 .. n : a <= c => f[a] <= f[c]
    BY <1>1, <2>1, <2>2, AscendingOrder
  <2> QED
    BY <2>1, <2>3
<1> HIDE DEF peak, Flats
<1>11. b \in Top /\ \A i \in Top : m[i].throughput = peak.throughput
  <2>1. \A j \in 1 .. n : /\ m[j].throughput <= m[b].throughput
                          /\ j > b => m[j].throughput < m[b].throughput
    BY <1>1, <1>3 DEF LastOfTheBest
  <2>2. \A i \in Top : m[b].throughput <= m[i].throughput
    OBVIOUS
  <2>3. \A i \in Top : i \in Nat /\ m[i].throughput = m[b].throughput
    BY <1>1, <2>1, <2>2
  <2> QED
    BY <1>1, <1>6, <2>1, <2>3
<1>12. peak.low <= peak.rate /\ peak.rate <= peak.high
  BY <1>5, <1>6, <1>10
<1>13. ASSUME NEW i \in 1 .. n, m[i].rate \in peak.low .. peak.high
       PROVE  100 * m[i].throughput >= peak.throughput * (100 - search.config.tolerance)
  <2>1. PICK k \in 1 .. n : sorted[k] = m[i]
    BY <1>2
  <2>0. sorted[lo].rate <= sorted[k].rate /\ sorted[k].rate <= sorted[hi].rate
    <3>1. sorted[lo].rate \in Nat /\ sorted[hi].rate \in Nat
      BY <1>2, <1>5
    <3> QED
      BY <1>1, <1>6, <1>13, <2>1, <3>1
  <2>2. lo <= k /\ k <= hi
    BY <1>5, <1>10, <2>0
  <2>3. k \in lo .. p - 1 \/ k = p \/ k \in p + 1 .. hi
    BY <1>1, <1>5, <2>2
  <2>4. k \in Flats
    BY <1>5, <1>9, <2>3, Zenon
  <2> QED
    BY <1>8, <2>1, <2>4
<1>14. ASSUME NEW i \in 1 .. n, NEW j \in 1 .. n, m[i].rate < m[j].rate,
              \A q \in 1 .. n : m[q].rate <= m[i].rate \/ m[j].rate <= m[q].rate
       PROVE  \E k \in 1 .. n : k + 1 \in 1 .. n /\ sorted[k] = m[i] /\ sorted[k + 1] = m[j]
  <2>1. PICK k \in 1 .. n : sorted[k] = m[i]
    BY <1>2
  <2>2. PICK l \in 1 .. n : sorted[l] = m[j]
    BY <1>2
  <2>3. k < l
    BY <1>10, <1>14, <2>1, <2>2
  <2>4. k + 1 \in 1 .. n /\ k + 1 <= l
    BY <1>1, <2>3
  <2>5. PICK q \in 1 .. n : sorted[k + 1] = m[q]
    BY <1>2, <2>4
  <2>6. sorted[k].rate < sorted[k + 1].rate
    BY <1>1, <1>2, <2>4
  <2>7. sorted[l].rate <= sorted[k + 1].rate
    BY <1>1, <1>14, <2>1, <2>2, <2>5, <2>6
  <2>8. l = k + 1
    BY <1>1, <1>10, <2>4, <2>7
  <2> QED
    BY <2>1, <2>2, <2>4, <2>8
<1>15. ASSUME NEW i \in 1 .. n, NEW j \in 1 .. n, m[i].rate < m[j].rate,
              \A q \in 1 .. n : m[q].rate <= m[i].rate \/ m[j].rate <= m[q].rate
       PROVE  /\ m[j].rate = peak.low =>
                   ~(100 * m[i].throughput >= peak.throughput * (100 - search.config.tolerance))
              /\ m[i].rate = peak.high =>
                   ~(100 * m[j].throughput >= peak.throughput * (100 - search.config.tolerance))
  <2>1. PICK k \in 1 .. n : k + 1 \in 1 .. n /\ sorted[k] = m[i] /\ sorted[k + 1] = m[j]
    BY <1>14, <1>15
  <2>2. ASSUME m[j].rate = peak.low  PROVE  k \notin Flats
    <3>1. lo = k + 1
      BY <1>5, <1>6, <1>10, <2>1, <2>2
    <3>2. lo > 1 /\ lo - 1 = k
      BY <1>1, <2>1, <3>1
    <3> QED
      BY <1>5, <3>2
  <2>3. ASSUME m[i].rate = peak.high  PROVE  k + 1 \notin Flats
    <3>1. hi = k
      BY <1>5, <1>6, <1>10, <2>1, <2>3
    <3>2. hi < n
      BY <1>1, <2>1, <3>1
    <3> QED
      BY <1>5, <3>1, <3>2
  <2> QED
    BY <1>8, <2>1, <2>2, <2>3
<1>16. ASSUME 100 * peak.decline > peak.throughput * search.config.tolerance
       PROVE  \E i \in 1 .. n : m[i].rate > peak.high
  <2>1. n \in 1 .. n
    BY <1>1, <1>5
  <2>2. n \notin Flats
    <3>1. m[b].throughput \in Nat /\ sorted[n].throughput \in Nat
      BY <1>1, <1>2, <2>1
    <3> QED
      BY <1>1, <1>6, <1>7, <1>16, <2>1, <3>1, DeclineIsBelow
  <2>3. ASSUME hi = n  PROVE  FALSE
    <3>1. n = p \/ n \in p + 1 .. hi
      BY <1>1, <1>5, <2>3
    <3> QED
      BY <1>5, <1>9, <2>2, <3>1, Zenon
  <2>4. hi < n
    BY <1>1, <1>5, <2>3
  <2>5. sorted[hi].rate < sorted[n].rate
    BY <1>2, <1>5, <2>1, <2>4
  <2>6. PICK i \in 1 .. n : sorted[n] = m[i]
    BY <1>2, <2>1
  <2> QED
    BY <1>1, <1>2, <1>5, <1>6, <2>1, <2>5, <2>6
<1> QED
  BY <1>3, <1>6, <1>11, <1>12, <1>13, <1>15, <1>16 DEF N, RateOf, Got, Adjacent, m, n, peak

-----------------------------------------------------------------------------
(* The search keeps its invariant. *)

LEMMA MeasuredTypes ==
  ASSUME NEW m \in Seq(Point)
  PROVE  /\ DOMAIN m = 1 .. Len(m) /\ Len(m) \in Nat
         /\ \A i \in 1 .. Len(m) : /\ m[i] \in Point
                                   /\ m[i].rate \in Nat /\ m[i].rate > 0
                                   /\ m[i].throughput \in Nat
<1>1. \A i \in 1 .. Len(m) : m[i] \in Point
  OBVIOUS
<1> QED
  BY <1>1 DEF Point

\* What is drawn lies between two neighbours of the ramp, and so is none of it.
LEMMA InsideIsApart ==
  ASSUME NEW m \in Seq(Point), NEW c \in Configs, NEW r, RampOf(m, c, r),
         NEW e \in 2 .. r, NEW rate \in Nat, m[e - 1].rate < rate, rate < m[e].rate
  PROVE  \A i \in 1 .. r : m[i].rate # rate
<1>0. /\ r \in Nat /\ r <= Len(m) /\ e - 1 \in 1 .. r /\ e \in 1 .. r
      /\ \A i \in 1 .. r : m[i].rate \in Nat
      /\ \A i, j \in 1 .. r : i < j => m[i].rate < m[j].rate
  <2>1. Len(m) \in Nat /\ \A i \in 1 .. Len(m) : m[i].rate \in Nat
    BY MeasuredTypes
  <2>2. \A i, j \in 1 .. r : i < j => m[i].rate < m[j].rate
    BY RampAscends
  <2>3. r \in 0 .. Len(m)
    BY DEF RampOf
  <2> QED
    BY <2>1, <2>2, <2>3
<1> SUFFICES ASSUME NEW i \in 1 .. r  PROVE  m[i].rate # rate
  OBVIOUS
<1>1. CASE i < e - 1 \/ i = e - 1
  BY <1>0, <1>1
<1>2. CASE i = e \/ e < i
  BY <1>0, <1>2
<1> QED
  BY <1>0, <1>1, <1>2

\* No rate is measured twice.
LEMMA RatesAreApart ==
  ASSUME NEW s, SearchInv(s)
  PROVE  \A i, j \in DOMAIN s.measured : i # j => s.measured[i].rate # s.measured[j].rate
<1> DEFINE m == s.measured
           n == Len(m)
<1>0. m \in Seq(Point) /\ s.config \in Configs /\ s.phase \in {"ramp", "densify"}
  BY DEF SearchInv, SearchOK, SearchType
<1>1. /\ DOMAIN m = 1 .. n /\ n \in Nat /\ \A i \in 1 .. n : m[i].rate \in Nat
  BY <1>0, MeasuredTypes
<1>2. SUFFICES \A i, j \in 1 .. n : i < j => m[i].rate # m[j].rate
  BY <1>1
<1>3. CASE s.phase = "ramp"
  <2>1. RampOf(m, s.config, n)
    BY <1>3 DEF SearchInv, RampInv
  <2> QED
    BY <1>0, <1>1, <2>1, RampAscends
<1>4. CASE s.phase = "densify"
  <2>1. PICK r \in 1 .. n : RampOf(m, s.config, r) /\ Drawn(m, r, Coming(s))
    BY <1>4 DEF SearchInv, DensifyInv
  <2>2. \A i, j \in 1 .. r : i < j => m[i].rate < m[j].rate
    BY <1>0, <2>1, RampAscends
  <2> SUFFICES ASSUME NEW i \in 1 .. n, NEW j \in 1 .. n, i < j
               PROVE  m[i].rate # m[j].rate
    OBVIOUS
  <2>3. CASE j <= r
    BY <1>1, <2>1, <2>2, <2>3
  <2>4. CASE r < j
    <3>1. PICK e \in 2 .. r : Inside(m, r, e, Coming(s))
      BY <1>1, <2>1, <2>4 DEF Drawn
    <3>2. m[e - 1].rate < m[j].rate /\ m[j].rate < m[e].rate /\ j \in r + 1 .. n
      BY <1>1, <2>1, <2>4, <3>1 DEF Inside
    <3>3. CASE i <= r
      <4>1. i \in 1 .. r /\ m[j].rate \in Nat
        BY <1>1, <2>1, <3>3
      <4> QED
        BY <1>0, <2>1, <3>2, <4>1, InsideIsApart
    <3>4. CASE r < i
      <4>1. i \in r + 1 .. n
        BY <1>1, <2>1, <3>4
      <4>2. m[i].rate < m[j].rate
        BY <3>1, <3>2, <4>1 DEF Inside
      <4> QED
        BY <1>1, <4>2
    <3> QED
      BY <1>1, <2>1, <3>3, <3>4
  <2> QED
    BY <1>1, <2>1, <2>3, <2>4
<1> QED
  BY <1>0, <1>3, <1>4

\* The equal parts of a gap that is wider than their number are apart, and apart
\* from its ends.
LEMMA PartsAscend ==
  ASSUME NEW g \in Nat, NEW k \in Nat \ {0}, k <= g, NEW i \in Nat, NEW j \in Nat, i < j
  PROVE  (g * i) \div k < (g * j) \div k
<1> DEFINE q == (g * i) \div k
           p == (g * j) \div k
<1>1. g * i \in Nat /\ g * j \in Nat
  OBVIOUS
<1>2. g * (i + 1) <= g * j
  OBVIOUS
<1>3. g * i + k <= g * j
  BY <1>1, <1>2
<1>4. q \in Nat /\ k * q <= g * i
  BY <1>1
<1>5. p \in Nat /\ g * j < k * (p + 1)
  BY <1>1
<1> HIDE DEF q, p
<1>6. k * (q + 1) < k * (p + 1)
  BY <1>1, <1>3, <1>4, <1>5
<1>7. q < p
  BY <1>4, <1>5, <1>6
<1> QED
  BY <1>7 DEF q, p

LEMMA PartsInside ==
  ASSUME NEW below \in Nat, NEW g \in Nat, NEW n \in Nat, n < g, NEW i \in 1 .. n
  PROVE  /\ below + (g * i) \div (n + 1) \in Nat
         /\ below < below + (g * i) \div (n + 1)
         /\ below + (g * i) \div (n + 1) < below + g
<1>1. (g * 0) \div (n + 1) < (g * i) \div (n + 1)
  BY PartsAscend
<1>2. (g * i) \div (n + 1) < (g * (n + 1)) \div (n + 1)
  BY PartsAscend
<1>3. (g * 0) \div (n + 1) = 0 /\ (g * (n + 1)) \div (n + 1) = g
  OBVIOUS
<1>4. (g * i) \div (n + 1) \in Nat
  OBVIOUS
<1> QED
  BY <1>1, <1>2, <1>3, <1>4

\* What the points of a ramp say of a search that has just ended it.
LEMMA DrawnBehindRamp ==
  ASSUME NEW s, SearchOK(s), NEW n, n = Len(s.measured), n > 0,
         RampOf(s.measured, s.config, n)
  PROVE  /\ DensifyRates(s) \in Seq(Nat \ {0})
         /\ Drawn(s.measured, n, DensifyRates(s))
<1> DEFINE m == s.measured
           c == s.config
           low == PeakOf(s).low
           lower == {q \in Rates(s) : q < low}
           below == CHOOSE q \in lower : \A l \in lower : l <= q
<1>0. /\ m \in Seq(Point) /\ c \in Configs /\ n \in Nat /\ DOMAIN m = 1 .. n
      /\ \A i \in 1 .. n : m[i].rate \in Nat
  BY MeasuredTypes DEF SearchOK, SearchType
<1>1. /\ \A i, j \in 1 .. n : i < j => m[i].rate < m[j].rate
      /\ \A i \in 1 .. n : First(c) <= m[i].rate
  BY <1>0, RampAscends
<1>2. First(c) \in Nat /\ c.densify \in Nat /\ c.densify < First(c) /\ c \in ConfigType
  BY <1>0, FirstPositive DEF ConfigType
<1>3. Measured(s)
  <2>1. \A i, j \in 1 .. n : i # j => m[i].rate # m[j].rate
    <3>1. \A i, j \in 1 .. n : i < j \/ j < i \/ i = j
      BY <1>0
    <3> QED
      BY <1>0, <1>1, <3>1
  <2> QED
    BY <1>0, <1>2, <2>1 DEF Measured
<1>4. PICK e \in 1 .. n : low = m[e].rate
  <2>1. PICK p, lo, hi : PeakParts(s, SortedByRate(s), p, lo, hi)
    BY <1>3, PeakHasParts
  <2>2. lo \in DOMAIN SortedByRate(s) /\ low = SortedByRate(s)[lo].rate
    BY <2>1 DEF PeakParts
  <2>3. \A k \in DOMAIN SortedByRate(s) : \E i \in DOMAIN m : SortedByRate(s)[k] = m[i]
    BY <1>3, SortedPoints
  <2> QED
    BY <1>0, <2>2, <2>3
<1>5. Rates(s) = {m[i].rate : i \in 1 .. n}
  BY <1>0 DEF Rates
<1>6. CASE lower = {}
  <2>1. DensifyRates(s) = <<>>
    BY <1>6 DEF DensifyRates
  <2> QED
    BY <1>0, <2>1 DEF Drawn
<1>7. CASE lower # {}
  <2> DEFINE g == low - below
             d == c.densify
             drawn == [i \in 1 .. d |-> below + (g * i) \div (d + 1)]
  <2>1. PICK j \in 1 .. n : m[j].rate < m[e].rate
    BY <1>4, <1>5, <1>7
  <2>2. \A i, k \in 1 .. n : i = k \/ i < k => m[i].rate <= m[k].rate
    BY <1>0, <1>1
  <2>3. \A i \in 1 .. n : m[i].rate < m[e].rate => i < e
    <3>1. \A i \in 1 .. n : i < e \/ e = i \/ e < i
      BY <1>0
    <3> QED
      BY <1>0, <2>2, <3>1
  <2>4. e \in 2 .. n /\ e - 1 \in 1 .. n
    BY <1>0, <2>1, <2>3
  <2>5. m[e].rate = 2 * m[e - 1].rate
    BY <2>4 DEF RampOf
  <2>6. m[e - 1].rate \in Nat /\ First(c) <= m[e - 1].rate /\ m[e - 1].rate < m[e].rate
    BY <1>0, <1>1, <2>4
  <2>7. m[e - 1].rate \in lower /\ \A l \in lower : l <= m[e - 1].rate
    <3>1. \A i \in 1 .. n : m[i].rate < m[e].rate => i = e - 1 \/ i < e - 1
      BY <1>0, <2>3, <2>4
    <3>2. \A i \in 1 .. n : m[i].rate < m[e].rate => m[i].rate <= m[e - 1].rate
      BY <2>2, <2>4, <3>1
    <3> QED
      BY <1>4, <1>5, <2>4, <2>6, <3>2
  <2>8. below = m[e - 1].rate
    <3>1. \A l \in lower : l \in Nat
      BY <1>0, <1>5
    <3> HIDE DEF lower
    <3>2. below \in lower /\ \A l \in lower : l <= below
      BY <2>7
    <3> QED
      BY <2>7, <3>1, <3>2
  <2>9. g \in Nat /\ d \in Nat /\ d < g /\ below \in Nat /\ below + g = m[e].rate
    <3> HIDE DEF low, below
    <3>1. g = m[e - 1].rate
      BY <1>4, <2>5, <2>6, <2>8
    <3> HIDE DEF g
    <3>2. below + g = m[e].rate
      BY <2>5, <2>6, <2>8, <3>1
    <3> QED
      BY <1>2, <2>6, <2>8, <3>1, <3>2
  <2>10. DensifyRates(s) = drawn
    BY <1>7 DEF DensifyRates
  <2> HIDE DEF low, lower, below, g, d
  <2>11. \A i \in 1 .. d : /\ drawn[i] \in Nat
                           /\ m[e - 1].rate < drawn[i] /\ drawn[i] < m[e].rate
    BY <2>8, <2>9, PartsInside
  <2>12. \A i, k \in 1 .. d : i < k => drawn[i] < drawn[k]
    <3> SUFFICES ASSUME NEW i \in 1 .. d, NEW k \in 1 .. d, i < k
                 PROVE  drawn[i] < drawn[k]
      OBVIOUS
    <3>1. d + 1 \in Nat \ {0} /\ d + 1 <= g /\ i \in Nat /\ k \in Nat
      BY <2>9
    <3>2. (g * i) \div (d + 1) < (g * k) \div (d + 1)
      BY <2>9, <3>1, PartsAscend
    <3>3. (g * i) \div (d + 1) \in Int /\ (g * k) \div (d + 1) \in Int
      BY <2>9, <3>1
    <3> QED
      BY <2>9, <3>2, <3>3
  <2>13. DOMAIN drawn = 1 .. d
    OBVIOUS
  <2> HIDE DEF drawn
  <2>14. drawn \in Seq(Nat \ {0})
    <3>1. \A i \in 1 .. d : drawn[i] \in Nat \ {0}
      BY <2>6, <2>11
    <3>2. drawn \in [1 .. d -> Nat \ {0}]
      BY <2>13, <3>1 DEF drawn
    <3> QED
      BY <2>9, <3>2
  <2>15. Inside(m, n, e, drawn)
    <3>1. \A j1 \in n + 1 .. Len(m) : FALSE
      BY <1>0
    <3> QED
      BY <2>11, <2>12, <2>13, <3>1 DEF Inside
  <2> QED
    BY <2>4, <2>10, <2>14, <2>15 DEF Drawn
<1> QED
  BY <1>6, <1>7

\* The next rate is taken from the queue, or the search is over.
LEMMA NextDensifyKeeps ==
  ASSUME NEW s, SearchOK(s), s.phase = "densify", s.outcome = "open",
         s.stale >= s.config.patience, NEW r \in 1 .. Len(s.measured),
         RampOf(s.measured, s.config, r), Gains(s.measured, s.config, r, s.stale),
         Drawn(s.measured, r, s.queue)
  PROVE  SearchInv(NextDensify(s))
<1> DEFINE u == NextDensify(s)
<1>0. s.queue \in Seq(Nat \ {0})
  BY DEF SearchOK, SearchType
<1>1. CASE s.queue = <<>>
  <2>1. u = [s EXCEPT !.pending = 0, !.outcome = "located"]
    BY <1>1 DEF NextDensify, Finish
  <2> QED
    <3>1. /\ u.config = s.config /\ u.phase = s.phase /\ u.pending = 0
          /\ u.measured = s.measured /\ u.stale = s.stale /\ u.queue = s.queue
          /\ u.outcome = "located"
      BY <2>1 DEF SearchOK
    <3> HIDE DEF u
    <3>0. u \in SearchType
      <4>1. s \in SearchType
        BY DEF SearchOK
      <4> QED
        BY <2>1, <4>1 DEF SearchType
    <3>2. SearchOK(u)
      BY <3>0, <3>1 DEF SearchOK
    <3>3. Coming(u) = s.queue
      BY <1>1, <3>1 DEF Coming
    <3>4. DensifyInv(u)
      BY <1>1, <3>1, <3>3 DEF DensifyInv
    <3>5. SearchInv(u)
      BY <3>1, <3>2, <3>4 DEF SearchInv
    <3> QED
      BY <3>5 DEF u
<1>2. CASE s.queue # <<>>
  <2>1. u = [s EXCEPT !.pending = Head(s.queue), !.queue = Tail(s.queue)]
    BY <1>2 DEF NextDensify
  <2>2. /\ u.config = s.config /\ u.phase = s.phase /\ u.pending = Head(s.queue)
        /\ u.measured = s.measured /\ u.stale = s.stale /\ u.queue = Tail(s.queue)
        /\ u.outcome = "open"
    BY <2>1 DEF SearchOK
  <2>3. /\ Head(s.queue) \in Nat \ {0} /\ Tail(s.queue) \in Seq(Nat \ {0})
        /\ <<Head(s.queue)>> \o Tail(s.queue) = s.queue
    BY <1>0, <1>2
  <2>3a. u \in SearchType
    BY <2>1, <2>3 DEF SearchOK, SearchType
  <2> HIDE DEF u
  <2>4. SearchOK(u)
    BY <2>2, <2>3a DEF SearchOK
  <2>5. Coming(u) = s.queue
    BY <2>2, <2>3 DEF Coming
  <2>6. DensifyInv(u)
    BY <2>2, <2>3, <2>5 DEF DensifyInv
  <2>7. SearchInv(u)
    BY <2>2, <2>4, <2>6 DEF SearchInv
  <2> QED
    BY <2>7 DEF u
<1> QED
  BY <1>1, <1>2

\* Measuring the next of the drawn rates leaves the others to be drawn.
LEMMA DrawnMoves ==
  ASSUME NEW m \in Seq(Point), NEW r, NEW rate \in Nat, NEW x \in Point, x.rate = rate,
         NEW queue \in Seq(Nat \ {0}), r \in 0 .. Len(m), Drawn(m, r, <<rate>> \o queue)
  PROVE  Drawn(Append(m, x), r, queue)
<1> DEFINE coming == <<rate>> \o queue
           n == Len(m)
           a == Append(m, x)
<1>1. /\ coming # <<>> /\ coming[1] = rate /\ 1 \in DOMAIN coming
      /\ \A i \in DOMAIN queue : i + 1 \in DOMAIN coming /\ coming[i + 1] = queue[i]
      /\ \A i \in DOMAIN queue : 1 < i + 1
  OBVIOUS
<1>2. /\ n \in Nat /\ Len(a) = n + 1 /\ a[n + 1] = x /\ \A j \in 1 .. n : a[j] = m[j]
  BY OneMorePoint
<1> HIDE DEF coming, a
<1>3. PICK e \in 2 .. r : Inside(m, r, e, coming)
  BY <1>1 DEF Drawn, coming
<1>4. e - 1 \in 1 .. n /\ e \in 1 .. n /\ a[e - 1] = m[e - 1] /\ a[e] = m[e]
  BY <1>2, <1>3
<1>5. \A j \in r + 1 .. n + 1 : j = n + 1 \/ (j \in r + 1 .. n /\ j \in 1 .. n)
  <2>1. r \in Nat /\ n \in Nat
    BY <1>2
  <2> HIDE DEF n
  <2> QED
    BY <2>1
<1>6. \A j \in r + 1 .. n + 1 : a[e - 1].rate < a[j].rate /\ a[j].rate < a[e].rate
  BY <1>1, <1>2, <1>3, <1>4, <1>5 DEF Inside
<1>7. \A j, k \in r + 1 .. n + 1 : j < k => a[j].rate < a[k].rate
  <2> SUFFICES ASSUME NEW j \in r + 1 .. n + 1, NEW k \in r + 1 .. n + 1, j < k
               PROVE  a[j].rate < a[k].rate
    OBVIOUS
  <2>1. j \in r + 1 .. n /\ a[j] = m[j]
    BY <1>2, <1>5
  <2>2. CASE k = n + 1
    BY <1>1, <1>2, <1>3, <2>1, <2>2 DEF Inside
  <2>3. CASE k \in r + 1 .. n /\ k \in 1 .. n
    BY <1>2, <1>3, <2>1, <2>3 DEF Inside
  <2> QED
    BY <1>5, <2>2, <2>3
<1>8. \A i \in DOMAIN queue : a[e - 1].rate < queue[i] /\ queue[i] < a[e].rate
  BY <1>1, <1>3, <1>4 DEF Inside
<1>9. \A i, k \in DOMAIN queue : i < k => queue[i] < queue[k]
  <2>1. \A i, k \in DOMAIN queue : i < k => i + 1 < k + 1
    OBVIOUS
  <2> QED
    BY <1>1, <1>3, <2>1 DEF Inside
<1>10. \A j \in r + 1 .. n + 1 : \A i \in DOMAIN queue : a[j].rate < queue[i]
  <2> SUFFICES ASSUME NEW j \in r + 1 .. n + 1, NEW i \in DOMAIN queue
               PROVE  a[j].rate < queue[i]
    OBVIOUS
  <2>1. CASE j = n + 1
    BY <1>1, <1>2, <1>3, <2>1 DEF Inside
  <2>2. CASE j \in r + 1 .. n /\ j \in 1 .. n
    BY <1>1, <1>2, <1>3, <2>2 DEF Inside
  <2> QED
    BY <1>5, <2>1, <2>2
<1>11. Inside(a, r, e, queue)
  BY <1>2, <1>6, <1>7, <1>8, <1>9, <1>10 DEF Inside
<1> QED
  BY <1>3, <1>11 DEF Drawn, a

\* Record of a point of the ramp: the ramp grows, or it is over.
LEMMA RecordRampKeeps ==
  ASSUME NEW s, SearchInv(s), s.phase = "ramp", s.pending # 0, NEW throughput \in Nat
  PROVE  SearchInv(RecordPoint(s, s.pending, throughput))
<1> DEFINE m == s.measured
           n == Len(m)
           x == [rate |-> s.pending, throughput |-> throughput]
           a == Append(m, x)
           improved == Improved(s, s.pending, throughput)
           stale == IF improved THEN 0 ELSE s.stale + 1
           t == [s EXCEPT !.measured = a]
           u == [t EXCEPT !.stale = stale]
<1>0. /\ m \in Seq(Point) /\ s.config \in Configs /\ n \in Nat /\ DOMAIN m = 1 .. n
      /\ \A i \in 1 .. n : m[i].rate \in Nat /\ m[i].rate > 0 /\ m[i].throughput \in Nat
      /\ s.pending \in Nat /\ s.stale \in Nat
  BY MeasuredTypes DEF SearchInv, SearchOK, SearchType
<1>1. /\ RampOf(m, s.config, n) /\ Gains(m, s.config, n, s.stale) /\ s.outcome = "open"
      /\ s.pending <= s.config.max
      /\ s.pending = IF n = 0 THEN First(s.config) ELSE 2 * m[n].rate
  BY DEF SearchInv, RampInv
<1>2. x \in Point /\ x.rate = s.pending /\ x.throughput = throughput
  BY <1>0 DEF Point
<1>3. /\ a \in Seq(Point) /\ Len(a) = n + 1 /\ a[n + 1] = x
      /\ \A i \in 1 .. n : a[i] = m[i]
  BY <1>0, <1>2, OneMorePoint
<1>4. Lower(s, s.pending) = 1 .. n
  <2>1. \A i, j \in 1 .. n : i < j => m[i].rate < m[j].rate
    BY <1>0, <1>1, RampAscends
  <2>2. ASSUME NEW i \in 1 .. n  PROVE  m[i].rate < s.pending
    <3>1. n \in 1 .. n /\ n # 0 /\ (i = n \/ i < n)
      BY <1>0
    <3>2. m[i].rate <= m[n].rate
      BY <1>0, <2>1, <3>1
    <3>3. s.pending = 2 * m[n].rate /\ m[n].rate \in Nat /\ m[n].rate > 0
      BY <1>0, <1>1, <3>1
    <3>4. m[i].rate \in Nat
      BY <1>0
    <3> QED
      BY <3>2, <3>3, <3>4
  <2> QED
    BY <1>0, <2>2 DEF Lower
<1>5. s.config.gain \in Nat
  BY <1>0, FirstPositive DEF ConfigType
<1>6. improved \in BOOLEAN
  BY DEF Improved
<1>7. improved <=> ~Flat(a, s.config, n + 1)
  <2>1. (n + 1) - 1 = n
    BY <1>0
  <2>2. Flat(a, s.config, n + 1) <=>
          \E i \in 1 .. n : 100 * throughput <= m[i].throughput * (100 + s.config.gain)
    BY <1>2, <1>3, <2>1 DEF Flat
  <2>3. improved <=>
          \A i \in 1 .. n : 100 * throughput > m[i].throughput * (100 + s.config.gain)
    BY <1>4 DEF Improved
  <2>4. \A i \in 1 .. n : m[i].throughput * (100 + s.config.gain) \in Nat
    BY <1>0, <1>5
  <2> QED
    BY <2>2, <2>3, <2>4
<1> HIDE DEF a, x, improved, n, m
<1>8. RampOf(a, s.config, n + 1) /\ Gains(a, s.config, n + 1, stale)
  BY <1>0, <1>1, <1>2, <1>6, <1>7, RampGrows DEF a, n
<1>9. stale \in Nat
  BY <1>0
<1> HIDE DEF stale
<1>10. t \in SearchType /\ u \in SearchType
  BY <1>3, <1>9 DEF SearchInv, SearchOK, SearchType
<1>11. /\ u.config = s.config /\ u.phase = "ramp" /\ u.pending = s.pending
       /\ u.measured = a /\ u.stale = stale /\ u.queue = s.queue /\ u.outcome = "open"
  BY <1>1 DEF SearchInv, SearchOK, SearchType
<1>12. RecordPoint(s, s.pending, throughput) = RecordRamp(t, s.pending, improved)
  BY DEF RecordPoint, a, x, m, improved
<1>13. t.stale = s.stale
  BY DEF SearchInv, SearchOK, SearchType
<1>14. RecordRamp(t, s.pending, improved) =
         IF u.stale >= u.config.patience THEN BeginDensify(u)
         ELSE IF 2 * s.pending > u.config.max
           THEN [u EXCEPT !.pending = 0,
                          !.outcome = IF u.stale = 0 THEN "still_rising" ELSE "located"]
         ELSE [u EXCEPT !.pending = 2 * s.pending]
  BY <1>13 DEF RecordRamp, stale
<1> HIDE DEF t, u
<1>15. \A i \in DOMAIN a : a[i].rate <= s.config.max
  <2>1. \A i \in 1 .. n : m[i].rate <= s.config.max
    BY <1>0 DEF SearchInv, SearchOK, m
  <2>2. \A i \in DOMAIN a : i \in 1 .. n \/ i = n + 1
    BY <1>0, <1>3
  <2> QED
    BY <1>1, <1>2, <1>3, <2>1, <2>2
<1>16. SearchOK(u)
  BY <1>10, <1>11, <1>15 DEF SearchOK
<1>17. n + 1 = Len(a) /\ n + 1 > 0 /\ a[n + 1].rate = s.pending
  BY <1>0, <1>2, <1>3
<1>18. CASE u.stale >= u.config.patience
  <2> DEFINE v == [u EXCEPT !.phase = "densify", !.queue = DensifyRates(u)]
  <2>1. DensifyRates(u) \in Seq(Nat \ {0}) /\ Drawn(a, n + 1, DensifyRates(u))
    BY <1>8, <1>11, <1>16, <1>17, DrawnBehindRamp
  <2>2. v \in SearchType
    BY <1>10, <2>1 DEF SearchType
  <2>3. /\ v.config = s.config /\ v.phase = "densify" /\ v.measured = a
        /\ v.stale = stale /\ v.queue = DensifyRates(u) /\ v.outcome = "open"
    BY <1>10, <1>11 DEF SearchType
  <2> HIDE DEF v
  <2>4. SearchOK(v)
    BY <1>15, <2>2, <2>3 DEF SearchOK
  <2>5. SearchInv(NextDensify(v))
    <3>1. n + 1 \in 1 .. Len(v.measured) /\ v.stale >= v.config.patience
      BY <1>0, <1>11, <1>17, <1>18, <2>3
    <3> QED
      BY <1>8, <2>1, <2>3, <2>4, <3>1, NextDensifyKeeps
  <2>6. RecordPoint(s, s.pending, throughput) = NextDensify(v)
    BY <1>12, <1>14, <1>18 DEF BeginDensify, v
  <2> QED
    BY <2>5, <2>6
<1>19. CASE ~(u.stale >= u.config.patience) /\ 2 * s.pending > u.config.max
  <2> DEFINE v == [u EXCEPT !.pending = 0,
                            !.outcome = IF u.stale = 0 THEN "still_rising" ELSE "located"]
  <2>1. v \in SearchType
    BY <1>10 DEF SearchType
  <2>2. /\ v.config = s.config /\ v.phase = "ramp" /\ v.measured = a /\ v.pending = 0
        /\ v.stale = stale /\ v.outcome = IF stale = 0 THEN "still_rising" ELSE "located"
    BY <1>10, <1>11 DEF SearchType
  <2> HIDE DEF v
  <2>3. SearchOK(v)
    BY <1>15, <2>1, <2>2 DEF SearchOK
  <2>4. RampInv(v)
    BY <1>8, <1>11, <1>17, <1>19, <2>2 DEF RampInv
  <2>5. SearchInv(v)
    BY <2>2, <2>3, <2>4 DEF SearchInv
  <2> QED
    BY <1>12, <1>14, <1>19, <2>5 DEF v
<1>20. CASE ~(u.stale >= u.config.patience) /\ ~(2 * s.pending > u.config.max)
  <2> DEFINE v == [u EXCEPT !.pending = 2 * s.pending]
  <2>0. 2 * s.pending \in Nat
    BY <1>0
  <2>1. v \in SearchType
    BY <1>10, <2>0 DEF SearchType
  <2>2. /\ v.config = s.config /\ v.phase = "ramp" /\ v.measured = a
        /\ v.pending = 2 * s.pending /\ v.stale = stale /\ v.outcome = "open"
    BY <1>10, <1>11 DEF SearchType
  <2> HIDE DEF v
  <2>3. SearchOK(v)
    BY <1>15, <2>1, <2>2 DEF SearchOK
  <2>4. v.pending # 0 /\ v.pending <= s.config.max
    <3>1. s.config.max \in Nat
      BY <1>0, FirstPositive DEF ConfigType
    <3> QED
      BY <1>0, <1>11, <1>20, <2>2, <3>1
  <2>5. RampInv(v)
    BY <1>8, <1>17, <2>2, <2>4 DEF RampInv
  <2>6. SearchInv(v)
    BY <2>2, <2>3, <2>5 DEF SearchInv
  <2> QED
    BY <1>12, <1>14, <1>20, <2>6 DEF v
<1> QED
  BY <1>18, <1>19, <1>20

\* Record of a drawn point.
LEMMA RecordDrawnKeeps ==
  ASSUME NEW s, SearchInv(s), s.phase = "densify", s.pending # 0, NEW throughput \in Nat
  PROVE  SearchInv(RecordPoint(s, s.pending, throughput))
<1> DEFINE m == s.measured
           n == Len(m)
           x == [rate |-> s.pending, throughput |-> throughput]
           a == Append(m, x)
           t == [s EXCEPT !.measured = a]
<1>0. /\ m \in Seq(Point) /\ s.config \in Configs /\ n \in Nat
      /\ \A i \in 1 .. n : m[i].rate \in Nat /\ m[i].rate > 0 /\ m[i].throughput \in Nat
      /\ s.pending \in Nat /\ s.stale \in Nat /\ s.queue \in Seq(Nat \ {0})
      /\ \A i \in 1 .. n : m[i].rate <= s.config.max
  <2>1. m \in Seq(Point) /\ \A i \in DOMAIN m : m[i].rate <= s.config.max
    BY DEF SearchInv, SearchOK, SearchType
  <2>2. DOMAIN m = 1 .. n /\ n \in Nat /\ \A i \in 1 .. n :
          m[i].rate \in Nat /\ m[i].rate > 0 /\ m[i].throughput \in Nat
    BY <2>1, MeasuredTypes
  <2> QED
    BY <2>1, <2>2 DEF SearchInv, SearchOK, SearchType
<1>1. s.stale >= s.config.patience /\ s.outcome = "open"
  BY DEF SearchInv, DensifyInv
<1>2. PICK r \in 1 .. n : /\ RampOf(m, s.config, r) /\ Gains(m, s.config, r, s.stale)
                          /\ Drawn(m, r, Coming(s))
  BY DEF SearchInv, DensifyInv
<1>3. x \in Point /\ x.rate = s.pending
  BY <1>0 DEF Point
<1>4. /\ a \in Seq(Point) /\ Len(a) = n + 1 /\ a[n + 1] = x
      /\ \A i \in 1 .. n : a[i] = m[i]
  BY <1>0, <1>3, OneMorePoint
<1>5. Coming(s) = <<s.pending>> \o s.queue
  BY DEF Coming
<1> HIDE DEF x, a, n, m
<1>6. RampOf(a, s.config, r) /\ Gains(a, s.config, r, s.stale)
  BY <1>0, <1>2, <1>3, RampStays DEF a
<1>7. r \in 0 .. n /\ r \in 1 .. Len(a)
  BY <1>0, <1>4
<1>8. Drawn(a, r, s.queue)
  BY <1>0, <1>2, <1>3, <1>5, <1>7, DrawnMoves DEF a, n
<1>9. s.pending <= s.config.max
  <2>1. PICK e \in 2 .. r : Inside(m, r, e, <<s.pending>> \o s.queue)
    <3>1. <<s.pending>> \o s.queue # <<>>
      BY <1>0
    <3> QED
      BY <1>2, <1>5, <3>1 DEF Drawn
  <2>2. 1 \in DOMAIN (<<s.pending>> \o s.queue) /\ (<<s.pending>> \o s.queue)[1] = s.pending
    BY <1>0
  <2> DEFINE coming == <<s.pending>> \o s.queue
  <2> HIDE DEF coming
  <2>3. coming[1] < m[e].rate
    BY <2>1, <2>2 DEF Inside, coming
  <2>3a. s.pending < m[e].rate /\ e \in 1 .. n
    BY <1>0, <2>2, <2>3 DEF coming
  <2>4. s.config.max \in Nat
    BY <1>0, FirstPositive DEF ConfigType
  <2> QED
    BY <1>0, <2>3a, <2>4
<1>10. t \in SearchType
  BY <1>4 DEF SearchInv, SearchOK, SearchType
<1>11. /\ t.config = s.config /\ t.phase = "densify" /\ t.measured = a
       /\ t.stale = s.stale /\ t.queue = s.queue /\ t.outcome = "open"
  BY <1>1 DEF SearchInv, SearchOK, SearchType
<1>12. RecordPoint(s, s.pending, throughput) = NextDensify(t)
  BY DEF RecordPoint, a, x, m
<1> HIDE DEF t
<1>13. \A i \in DOMAIN a : a[i].rate <= s.config.max
  <2>1. \A i \in DOMAIN a : i \in 1 .. n \/ i = n + 1
    BY <1>0, <1>4
  <2> QED
    BY <1>0, <1>3, <1>4, <1>9, <2>1
<1>14. SearchOK(t)
  BY <1>10, <1>11, <1>13 DEF SearchOK
<1>15. SearchInv(NextDensify(t))
  BY <1>1, <1>6, <1>7, <1>8, <1>11, <1>14, NextDensifyKeeps
<1> QED
  BY <1>12, <1>15

-----------------------------------------------------------------------------
(* The sweep keeps its invariant. *)

LEMMA NewSearchKeeps ==
  ASSUME NEW c \in Configs
  PROVE  SearchInv(NewSearch(c)) /\ NewSearch(c).config = c
<1> DEFINE s == NewSearch(c)
<1>1. First(c) \in Nat \ {0} /\ First(c) <= c.max
  BY FirstPositive
<1>2. /\ s.config = c /\ s.phase = "ramp" /\ s.pending = First(c) /\ s.measured = <<>>
      /\ s.stale = 0 /\ s.queue = <<>> /\ s.outcome = "open"
  BY DEF NewSearch, First
<1>3. s \in SearchType
  BY <1>1 DEF NewSearch, First, SearchType
<1> HIDE DEF s
<1>4. SearchOK(s)
  BY <1>2, <1>3 DEF SearchOK
<1>5. RampInv(s)
  BY <1>1, <1>2 DEF RampInv, RampOf, Gains
<1> QED
  BY <1>2, <1>4, <1>5 DEF SearchInv, s

LEMMA PeakInit == Init => PeakInv
<1> SUFFICES ASSUME Init  PROVE  PeakInv
  OBVIOUS
<1>1. PICK c \in Configs : search = NewSearch(c)
  BY DEF Init
<1> QED
  BY <1>1, NewSearchKeeps DEF Init, PeakInv

LEMMA RecordKeeps ==
  ASSUME NEW s, SearchInv(s), s.pending # 0, NEW throughput \in Nat
  PROVE  SearchInv(RecordPoint(s, s.pending, throughput))
<1>1. s.phase \in {"ramp", "densify"}
  BY DEF SearchInv, SearchOK, SearchType
<1> QED
  BY <1>1, RecordRampKeeps, RecordDrawnKeeps

LEMMA TakeKeeps ==
  ASSUME PeakInv, step = "running", Offered # 0, NEW throughput, Take(throughput),
         throughput \in {{}} \cup {{t} : t \in Throughputs}
  PROVE  SearchInv(search)' /\ step' \in {"running", "failed"}
<1>1. CASE throughput = {}
  BY <1>1 DEF Take, PeakInv
<1>2. CASE throughput # {}
  <2>1. PICK t \in throughput : search' = RecordPoint(search, search.pending, t)
    BY <1>2 DEF Take, Offered
  <2>2. t \in Nat
    BY <1>2, <2>1, PeakAssumption
  <2>3. SearchInv(RecordPoint(search, search.pending, t))
    BY <2>2, RecordKeeps DEF PeakInv, Offered
  <2> QED
    BY <1>2, <2>1, <2>3 DEF Take
<1> QED
  BY <1>1, <1>2

LEMMA PeakStep == PeakInv /\ [Next]_vars => PeakInv'
<1> SUFFICES ASSUME PeakInv, [Next]_vars  PROVE  PeakInv'
  OBVIOUS
<1> USE DEF PeakInv
<1>1. CASE Reuse
  <2>1. PICK p \in Completed(Offered) : Take(p.throughput)
    BY <1>1 DEF Reuse
  <2>2. p.throughput \in {{}} \cup {{t} : t \in Throughputs}
    BY <2>1 DEF Completed, DiskType
  <2>3. SearchInv(search)' /\ step' \in {"running", "failed"}
    BY <1>1, <2>1, <2>2, TakeKeeps DEF Reuse
  <2> QED
    BY <1>1, <2>3 DEF Reuse
<1>2. CASE Measure
  <2>1. PICK throughput \in {{}} \cup {{t} : t \in Throughputs} :
          /\ Take(throughput)
          /\ disk' = (disk \ Completed(Offered))
                       \cup {[rate |-> Offered, throughput |-> throughput]}
    BY <1>2 DEF Measure
  <2>2. SearchInv(search)' /\ step' \in {"running", "failed"}
    BY <1>2, <2>1, TakeKeeps DEF Measure
  <2>3. Offered \in Nat \ {0}
    BY <1>2 DEF Measure, Offered, SearchInv, SearchOK, SearchType
  <2>4. disk' \subseteq DiskType
    BY <2>1, <2>3 DEF DiskType
  <2> QED
    BY <1>2, <2>2, <2>4 DEF Measure
<1>3. CASE Interrupted
  BY <1>3 DEF Interrupted
<1>4. CASE Assemble
  BY <1>4 DEF Assemble, Offered
<1>5. CASE Restart
  <2>1. search.config \in Configs
    BY DEF SearchInv, SearchOK, SearchType
  <2>2. SearchInv(search)'
    BY <1>5, <2>1, NewSearchKeeps DEF Restart
  <2> QED
    BY <1>5, <2>2 DEF Restart
<1>6. CASE Stop
  BY <1>6 DEF Stop, vars
<1>7. CASE UNCHANGED vars
  BY <1>7 DEF vars
<1> QED
  BY <1>1, <1>2, <1>3, <1>4, <1>5, <1>6, <1>7 DEF Next

THEOREM PeakInvariant == Spec => []PeakInv
<1> QED
  BY PeakInit, PeakStep, PTL DEF Spec

-----------------------------------------------------------------------------
(* The theorems. *)

\* A search that is over has measured something, and no rate twice.
LEMMA EndedIsMeasured ==
  ASSUME PeakInv, search.pending = 0
  PROVE  Measured(search)
<1>0. SearchInv(search) /\ search.measured \in Seq(Point) /\ search.config \in Configs
  BY DEF PeakInv, SearchInv, SearchOK, SearchType
<1>1. search.config \in ConfigType
  BY <1>0, FirstPositive
<1>2. Len(search.measured) > 0
  <2>1. CASE search.phase = "ramp"
    BY <1>0, <2>1 DEF SearchInv, RampInv
  <2>2. CASE search.phase = "densify"
    BY <1>0, <2>2 DEF SearchInv, DensifyInv
  <2>3. search.phase \in {"ramp", "densify"}
    BY <1>0 DEF SearchInv, SearchOK, SearchType
  <2> QED
    BY <2>1, <2>2, <2>3
<1> QED
  BY <1>0, <1>1, <1>2, RatesAreApart DEF Measured

\* Whatever a server delivers at each rate: the peak that is reported is the best
\* that was measured, its plateau is the longest unbroken run of measured rates
\* around it, and what declines lies above the plateau (PeakSearch::peak).
THEOREM PeakReportsTheBest == Spec => []PeakIsTheBest
<1>1. PeakInv => PeakIsTheBest
  <2>1. ASSUME PeakInv, step = "finished"  PROVE  Measured(search)
    BY <2>1, EndedIsMeasured DEF PeakInv
  <2> QED
    BY <2>1, ReportOfMeasured DEF PeakIsTheBest
<1> QED
  BY <1>1, PeakInvariant, PTL

\* The points that the invariant calls the ramp are those that the property finds
\* by looking at the rates.
LEMMA RampIsFound ==
  ASSUME search.measured \in Seq(Point), NEW r \in 1 .. N,
         RampOf(search.measured, search.config, r),
         r = N \/ RateOf(r + 1) # 2 * RateOf(r)
  PROVE  Ramp = 1 .. r /\ RampEnd = r
<1>0. r \in Nat /\ N \in Nat /\ r <= N /\ 1 <= r
  BY DEF N
<1>1. \A j \in 2 .. r : RateOf(j) = 2 * RateOf(j - 1)
  BY DEF RampOf, RateOf
<1>2. \A i \in 1 .. r : i \in Ramp
  <2>1. \A i \in 1 .. r : i \in 1 .. N /\ \A j \in 2 .. i : j \in 2 .. r
    BY <1>0
  <2> QED
    BY <1>1, <2>1 DEF Ramp
<1>3. ASSUME NEW i \in Ramp  PROVE  i \in 1 .. r
  <2>1. i \in 1 .. N /\ \A j \in 2 .. i : RateOf(j) = 2 * RateOf(j - 1)
    BY DEF Ramp
  <2>2. ASSUME r < i  PROVE  FALSE
    <3>1. r + 1 \in 2 .. i /\ (r + 1) - 1 = r /\ r # N
      BY <1>0, <2>1, <2>2
    <3>2. RateOf(r + 1) = 2 * RateOf((r + 1) - 1)
      BY <2>1, <3>1
    <3> QED
      BY <3>1, <3>2
  <2> QED
    BY <1>0, <2>1, <2>2
<1>4. Ramp = 1 .. r
  BY <1>2, <1>3
<1>5. r \in Ramp /\ \A j \in Ramp : j <= r
  BY <1>0, <1>4
<1>6. \A i \in Ramp : (\A j \in Ramp : j <= i) => i = r
  BY <1>0, <1>4
<1> QED
  BY <1>4, <1>5, <1>6 DEF RampEnd

LEMMA FlatIsNoGain ==
  ASSUME search.measured \in Seq(Point), search.config \in Configs, NEW r \in 0 .. N,
         RampOf(search.measured, search.config, r), NEW j \in 1 .. r
  PROVE  /\ Flat(search.measured, search.config, j) => NoGain(j)
         /\ r = N => (NoGain(j) => Flat(search.measured, search.config, j))
<1> DEFINE m == search.measured
           c == search.config
<1>0. N \in Nat /\ r \in Nat /\ r <= N /\ N = Len(m) /\ \A i \in 1 .. N : m[i].rate \in Nat
  BY MeasuredTypes DEF N
<1>1. \A i, k \in 1 .. r : i < k => m[i].rate < m[k].rate
  BY RampAscends
<1>2. ASSUME Flat(m, c, j)  PROVE  NoGain(j)
  <2>1. PICK i \in 1 .. j - 1 : 100 * m[j].throughput <= m[i].throughput * (100 + c.gain)
    BY <1>2 DEF Flat
  <2>2. i \in 1 .. N /\ i \in 1 .. r /\ i < j
    BY <1>0
  <2> QED
    BY <1>1, <2>1, <2>2 DEF NoGain, RateOf, Got
<1>3. ASSUME r = N, NoGain(j)  PROVE  Flat(m, c, j)
  <2>1. PICK i \in 1 .. N : /\ m[i].rate < m[j].rate
                            /\ 100 * m[j].throughput <= m[i].throughput * (100 + c.gain)
    BY <1>3 DEF NoGain, RateOf, Got
  <2>2. ~(j < i) /\ i # j
    BY <1>0, <1>1, <1>3, <2>1
  <2>3. i \in 1 .. j - 1
    BY <1>0, <1>3, <2>2
  <2> QED
    BY <2>1, <2>3 DEF Flat
<1> QED
  BY <1>2, <1>3

LEMMA GainIsMore ==
  ASSUME NEW t \in Nat, NEW u \in Nat, NEW gain \in Nat, t <= u
  PROVE  100 * t <= u * (100 + gain)
<1>1. u * (100 + gain) = 100 * u + u * gain /\ u * gain \in Nat
  OBVIOUS
<1> QED
  BY <1>1

\* Still rising at the ceiling.
LEMMA RisingIsEvidence ==
  ASSUME PeakInv, search.outcome = "still_rising"
  PROVE  /\ N \in Ramp /\ ~NoGain(N) /\ 2 * RateOf(N) > search.config.max
         /\ PeakOf(search).rate = RateOf(N)
<1> DEFINE m == search.measured
           c == search.config
<1>0. SearchInv(search) /\ m \in Seq(Point) /\ c \in Configs /\ search.phase \in {"ramp", "densify"}
  BY DEF PeakInv, SearchInv, SearchOK, SearchType
<1>1. search.phase = "ramp" /\ RampInv(search)
  BY <1>0 DEF SearchInv, DensifyInv
<1>2. /\ RampOf(m, c, N) /\ Gains(m, c, N, search.stale) /\ N > 0
      /\ 2 * m[N].rate > c.max /\ search.stale = 0
  BY <1>1 DEF RampInv, N
<1>3. /\ N \in Nat /\ N = Len(m) /\ N \in 1 .. N /\ N \in 0 .. N
      /\ \A i \in 1 .. N : m[i].throughput \in Nat
  BY <1>0, <1>2, MeasuredTypes DEF N
<1>4. ~Flat(m, c, N)
  BY <1>2 DEF Gains
<1>5. N \in Ramp
  BY <1>0, <1>2, <1>3, RampIsFound
<1>6. ~NoGain(N)
  BY <1>0, <1>2, <1>3, <1>4, FlatIsNoGain
<1>7. PICK b \in 1 .. N : Best(search) = m[b] /\ LastOfTheBest(m, b)
  BY <1>0, <1>2, <1>3, BestIsLast, MeasuredTypes
<1>8. b = N
  <2>1. SUFFICES ASSUME b # N  PROVE  FALSE
    OBVIOUS
  <2>2. b \in 1 .. N - 1
    BY <1>3, <2>1
  <2>3. m[N].throughput <= m[b].throughput
    BY <1>0, <1>3, <1>7, MeasuredTypes DEF LastOfTheBest
  <2>4. c.gain \in Nat
    BY <1>0, FirstPositive DEF ConfigType
  <2>5. 100 * m[N].throughput <= m[b].throughput * (100 + c.gain)
    BY <1>3, <2>3, <2>4, GainIsMore
  <2> QED
    BY <1>4, <2>2, <2>5 DEF Flat
<1>9. PeakOf(search).rate = Best(search).rate
  BY DEF PeakOf
<1> QED
  BY <1>2, <1>5, <1>6, <1>7, <1>8, <1>9 DEF RateOf

\* Located below the ceiling.
LEMMA LocatedHasReason ==
  ASSUME PeakInv, search.outcome = "located", 2 * RateOf(RampEnd) <= search.config.max
  PROVE  OutOfPatience
<1> DEFINE m == search.measured
           c == search.config
           stale == {i \in Ramp : \A j \in i .. RampEnd : NoGain(j)}
<1>0. /\ SearchInv(search) /\ m \in Seq(Point) /\ c \in Configs /\ search.stale \in Nat
      /\ search.phase \in {"ramp", "densify"} /\ N = Len(m) /\ N \in Nat
  BY DEF PeakInv, SearchInv, SearchOK, SearchType, N
<1>1. CASE search.phase = "ramp"
  <2>1. RampInv(search)
    BY <1>0, <1>1 DEF SearchInv
  <2>2. /\ RampOf(m, c, N) /\ Gains(m, c, N, search.stale) /\ N > 0
        /\ 2 * m[N].rate > c.max /\ search.stale # 0
    BY <1>0, <2>1 DEF RampInv
  <2>3. N \in 1 .. N /\ N \in 0 .. N /\ N \in N - search.stale + 1 .. N
    BY <1>0, <2>2
  <2>4. Ramp = 1 .. N /\ RampEnd = N
    BY <1>0, <2>2, <2>3, RampIsFound
  <2>5. m[N].rate \in Nat /\ c.max \in Nat
    BY <1>0, <2>3, MeasuredTypes, FirstPositive DEF ConfigType
  <2> QED
    BY <2>2, <2>4, <2>5 DEF RateOf
<1>2. CASE search.phase = "densify"
  <2>1. DensifyInv(search)
    BY <1>0, <1>2 DEF SearchInv
  <2>2. search.stale >= c.patience
    BY <2>1 DEF DensifyInv
  <2>3. PICK r \in 1 .. N : /\ RampOf(m, c, r) /\ Gains(m, c, r, search.stale)
                            /\ Drawn(m, r, Coming(search))
    BY <1>0, <2>1 DEF DensifyInv
  <2>4. r \in 0 .. N /\ r \in Nat /\ r <= N
    BY <1>0
  <2>5. r = N \/ RateOf(r + 1) # 2 * RateOf(r)
    <3>1. SUFFICES ASSUME r # N  PROVE  RateOf(r + 1) # 2 * RateOf(r)
      OBVIOUS
    <3>2. PICK e \in 2 .. r : Inside(m, r, e, Coming(search))
      BY <1>0, <2>3, <3>1 DEF Drawn
    <3>3. r + 1 \in r + 1 .. Len(m) /\ r + 1 \in 1 .. N /\ e \in 1 .. r
      BY <1>0, <2>4, <3>1
    <3>4. m[r + 1].rate < m[e].rate
      BY <3>2, <3>3 DEF Inside
    <3>4a. \A i \in 1 .. N : m[i].rate \in Nat
      BY <1>0, MeasuredTypes
    <3>4b. r \in 1 .. N /\ e \in 1 .. N /\ r \in 1 .. r
      BY <1>0, <2>4, <3>3
    <3>5. m[e].rate <= m[r].rate
      <4>1. e = r \/ e < r
        BY <2>4
      <4>2. \A i, j \in 1 .. r : i < j => m[i].rate < m[j].rate
        BY <1>0, <2>3, RampAscends
      <4> QED
        BY <3>3, <3>4a, <3>4b, <4>1, <4>2
    <3>6. m[r].rate \in Nat /\ m[e].rate \in Nat /\ m[r + 1].rate \in Nat
      BY <3>3, <3>4a, <3>4b
    <3> QED
      BY <3>4, <3>5, <3>6 DEF RateOf
  <2>6. Ramp = 1 .. r /\ RampEnd = r
    BY <1>0, <2>3, <2>5, RampIsFound
  <2> DEFINE tail == r - search.stale + 1 .. r
  <2>7. search.stale \in 0 .. r /\ \A j \in tail : Flat(m, c, j)
    BY <2>3 DEF Gains
  <2>8. \A j \in tail : j \in 1 .. r /\ \A k \in j .. r : k \in tail
    BY <2>4, <2>7
  <2>9. \A j \in tail : NoGain(j)
    BY <1>0, <2>3, <2>4, <2>7, <2>8, FlatIsNoGain
  <2>10. tail \subseteq stale /\ stale \subseteq 1 .. r
    BY <2>6, <2>8, <2>9
  <2>11. IsFiniteSet(1 .. r)
    BY <2>4, FS_Interval
  <2>12. IsFiniteSet(stale)
    BY <2>10, <2>11, FS_Subset
  <2> HIDE DEF stale
  <2>13. r - search.stale + 1 \in Int /\ r \in Int
    BY <1>0, <2>4
  <2>14. Cardinality(tail) = search.stale
    <3>1. Cardinality(tail) = IF r - search.stale + 1 > r THEN 0
                              ELSE r - (r - search.stale + 1) + 1
      BY <2>13, FS_Interval
    <3> HIDE DEF tail
    <3> QED
      BY <1>0, <2>4, <3>1
  <2>15. Cardinality(tail) <= Cardinality(stale)
    BY <2>10, <2>12, FS_Subset
  <2>16. Cardinality(stale) \in Nat /\ c.patience \in Nat
    BY <1>0, <2>12, FS_CardinalityType, FirstPositive DEF ConfigType
  <2> QED
    BY <1>0, <2>2, <2>14, <2>15, <2>16 DEF stale, OutOfPatience
<1> QED
  BY <1>0, <1>1, <1>2

\* Whatever a server delivers, and through any number of interruptions: a peak is
\* called still rising only at the ceiling and at the highest rate, and located
\* below it only after as many rates without gain as were asked for; no rate is
\* measured twice, the drawn ones included (PeakSearch::record).
THEOREM PeakLocatesByEvidence == Spec => []LocatedIsEvidence
<1>1. PeakInv => LocatedIsEvidence
  <2> SUFFICES ASSUME PeakInv  PROVE  LocatedIsEvidence
    OBVIOUS
  <2>1. /\ SearchInv(search) /\ search.measured \in Seq(Point) /\ DOMAIN search.measured = 1 .. N
        /\ \A i \in DOMAIN search.measured : search.measured[i].rate <= search.config.max
    BY MeasuredTypes DEF PeakInv, SearchInv, SearchOK, SearchType, N
  <2>2. \A i, j \in 1 .. N : i # j => RateOf(i) # RateOf(j)
    BY <2>1, RatesAreApart DEF RateOf
  <2> QED
    BY <2>1, <2>2, RisingIsEvidence, LocatedHasReason DEF LocatedIsEvidence, RateOf
<1> QED
  BY <1>1, PeakInvariant, PTL
===============================================================================
