----------------------------- MODULE ShardsProofs -----------------------------
(***************************************************************************)
(* Proofs about Shards, for every trace, every number of processes and     *)
(* every order in which they load, record, fail and exit: the shards       *)
(* partition the trace, what a run reports agrees with its records in      *)
(* whatever order they came, and what is written over all shards is the    *)
(* sum of complete ones.                                                   *)
(***************************************************************************)
EXTENDS Shards, Lemmas, SequenceTheorems

-----------------------------------------------------------------------------
(* The share of one shard. *)

\* s is what retain_shard has kept of the first n items: every count-th of them,
\* from the one with the ordinal index on.
ShareOf(items, count, index, n, s) ==
  /\ s \in Seq({items[p] : p \in DOMAIN items})
  /\ \A j \in DOMAIN s : /\ (j - 1) * count + index + 1 \in 1 .. n
                         /\ s[j] = items[(j - 1) * count + index + 1]
  /\ n <= Len(s) * count + index

LEMMA DivisionIsUnique ==
  ASSUME NEW c \in Nat \ {0}, NEW a \in Nat, NEW i \in 0 .. c - 1
  PROVE  (a * c + i) % c = i /\ (a * c + i) \div c = a
OBVIOUS

LEMMA ProductsAscend ==
  ASSUME NEW c \in Nat \ {0}, NEW a \in Nat, NEW b \in Nat, a <= b
  PROVE  a * c \in Nat /\ b * c \in Nat /\ a * c <= b * c
<1>1. PICK d \in Nat : b = a + d
  <2>1. b - a \in Nat /\ b = a + (b - a)
    OBVIOUS
  <2> QED
    BY <2>1
<1>2. b * c = a * c + d * c /\ d * c \in Nat /\ a * c \in Nat
  BY <1>1
<1> QED
  BY <1>2

LEMMA QuotientAndRest ==
  ASSUME NEW c \in Nat \ {0}, NEW n \in Nat
  PROVE  \E q \in Nat : n = q * c + (n % c)
<1> DEFINE q == n \div c
           r == n % c
<1>1. q \in Nat /\ r \in Nat
  OBVIOUS
<1>2. n - c * q = r
  OBVIOUS
<1> HIDE DEF q, r
<1>3. n = q * c + r
  BY <1>1, <1>2
<1>4. \E x \in Nat : n = x * c + r
  BY <1>1, <1>3
<1> QED
  BY <1>4 DEF r

\* An ordinal between two of the share is not of the share.
LEMMA OrdinalOfTheShare ==
  ASSUME NEW c \in Nat \ {0}, NEW i \in 0 .. c - 1, NEW a \in Nat, NEW n \in Nat,
         n <= a * c + i, a = 0 \/ (a - 1) * c + i < n
  PROVE  n % c = i <=> n = a * c + i
<1>1. PICK b \in Nat : n = b * c + (n % c)
  BY QuotientAndRest
<1>2. ASSUME n = a * c + i  PROVE  n % c = i
  BY <1>2, DivisionIsUnique
<1>3. ASSUME n % c = i  PROVE  n = a * c + i
  <2>1. b \in Nat /\ n = b * c + i
    BY <1>1, <1>3
  <2>2. ~(b > a)
    <3>1. SUFFICES ASSUME b > a  PROVE  FALSE
      OBVIOUS
    <3>2. PICK d \in Nat : b = a + 1 + d
      <4>1. b - a - 1 \in Nat /\ b = a + 1 + (b - a - 1)
        BY <2>1, <3>1
      <4> QED
        BY <4>1
    <3>3. b * c = a * c + c + d * c /\ d * c \in Nat /\ a * c \in Nat
      BY <3>2
    <3> QED
      BY <2>1, <3>3
  <2>3. ~(b < a)
    <3>1. SUFFICES ASSUME b < a  PROVE  FALSE
      OBVIOUS
    <3>2. PICK d \in Nat : a - 1 = b + d
      <4>1. a - 1 - b \in Nat /\ a - 1 = b + (a - 1 - b)
        BY <2>1, <3>1
      <4> QED
        BY <4>1
    <3>3. (a - 1) * c = b * c + d * c /\ d * c \in Nat /\ b * c \in Nat
      BY <2>1, <3>2
    <3> QED
      BY <2>1, <3>1, <3>3
  <2> QED
    BY <2>1, <2>2, <2>3
<1> QED
  BY <1>2, <1>3

LEMMA ShareIsUnique ==
  ASSUME NEW items, DOMAIN items \subseteq Nat, NEW count \in Nat \ {0}, NEW index \in 0 .. count - 1,
         NEW n \in Nat, NEW s, ShareOf(items, count, index, n, s),
         NEW t, ShareOf(items, count, index, n, t)
  PROVE  s = t
<1>0. s \in Seq({items[p] : p \in DOMAIN items}) /\ t \in Seq({items[p] : p \in DOMAIN items})
  BY DEF ShareOf
<1>1. Len(s) \in Nat /\ Len(t) \in Nat /\ DOMAIN s = 1 .. Len(s) /\ DOMAIN t = 1 .. Len(t)
  BY <1>0
<1>2. ~(Len(s) < Len(t))
  <2>1. SUFFICES ASSUME Len(s) < Len(t)  PROVE  FALSE
    OBVIOUS
  <2>2. Len(s) + 1 \in DOMAIN t /\ (Len(s) + 1) - 1 = Len(s)
    BY <1>1, <2>1
  <2>3. Len(s) * count + index + 1 \in 1 .. n /\ n <= Len(s) * count + index
    BY <2>2 DEF ShareOf
  <2>4. Len(s) * count + index \in Nat
    BY <1>1
  <2> QED
    BY <2>3, <2>4
<1>3. ~(Len(t) < Len(s))
  <2>1. SUFFICES ASSUME Len(t) < Len(s)  PROVE  FALSE
    OBVIOUS
  <2>2. Len(t) + 1 \in DOMAIN s /\ (Len(t) + 1) - 1 = Len(t)
    BY <1>1, <2>1
  <2>3. Len(t) * count + index + 1 \in 1 .. n /\ n <= Len(t) * count + index
    BY <2>2 DEF ShareOf
  <2>4. Len(t) * count + index \in Nat
    BY <1>1
  <2> QED
    BY <2>3, <2>4
<1>4. Len(s) = Len(t)
  <2> DEFINE a == Len(s)
             b == Len(t)
  <2>1. a \in Nat /\ b \in Nat /\ ~(a < b) /\ ~(b < a)
    BY <1>1, <1>2, <1>3
  <2> HIDE DEF a, b
  <2>2. a = b
    BY <2>1
  <2> QED
    BY <2>2 DEF a, b
<1>5. \A j \in 1 .. Len(s) : s[j] = t[j]
  BY <1>1, <1>4 DEF ShareOf
<1> QED
  BY <1>0, <1>4, <1>5

\* Nothing is kept of nothing.
LEMMA ShareStarts ==
  ASSUME NEW items, NEW count \in Nat \ {0}, NEW index \in 0 .. count - 1
  PROVE  ShareOf(items, count, index, 0, <<>>)
<1>1. Len(<<>>) = 0 /\ 0 * count = 0 /\ <<>> \in Seq({items[p] : p \in DOMAIN items})
  OBVIOUS
<1> QED
  BY <1>1 DEF ShareOf

LEMMA ShareGrows ==
  ASSUME NEW items, NEW count \in Nat \ {0}, NEW index \in 0 .. count - 1,
         NEW n \in Nat \ {0}, n \in DOMAIN items,
         NEW s, ShareOf(items, count, index, n - 1, s)
  PROVE  ShareOf(items, count, index, n,
                 IF (n - 1) % count = index THEN Append(s, items[n]) ELSE s)
<1> DEFINE E == {items[p] : p \in DOMAIN items}
           Place(j) == (j - 1) * count + index + 1
<1>0. s \in Seq(E) /\ Len(s) \in Nat /\ DOMAIN s = 1 .. Len(s) /\ items[n] \in E
  BY DEF ShareOf
<1>1. \A j \in DOMAIN s : Place(j) \in 1 .. n - 1 /\ s[j] = items[Place(j)]
  BY DEF ShareOf
<1>2. n - 1 <= Len(s) * count + index /\ n - 1 \in Nat /\ Len(s) * count + index \in Nat
  BY <1>0 DEF ShareOf
<1>3. Len(s) = 0 \/ (Len(s) - 1) * count + index < n - 1
  <2>1. SUFFICES ASSUME Len(s) # 0  PROVE  (Len(s) - 1) * count + index < n - 1
    OBVIOUS
  <2>2. Len(s) \in DOMAIN s /\ (Len(s) - 1) * count + index \in Nat
    BY <1>0, <2>1
  <2>3. Place(Len(s)) \in 1 .. n - 1
    BY <1>1, <2>2
  <2> QED
    BY <1>2, <2>2, <2>3
<1>4. (n - 1) % count = index <=> n - 1 = Len(s) * count + index
  BY <1>0, <1>2, <1>3, OrdinalOfTheShare
<1>5. \A j \in DOMAIN s : Place(j) \in 1 .. n
  BY <1>1, <1>2
<1>6. CASE (n - 1) % count = index
  <2> DEFINE t == Append(s, items[n])
  <2>1. /\ t \in Seq(E) /\ Len(t) = Len(s) + 1 /\ DOMAIN t = 1 .. Len(s) + 1
        /\ t[Len(s) + 1] = items[n] /\ \A j \in 1 .. Len(s) : t[j] = s[j]
    BY <1>0
  <2> HIDE DEF t
  <2>2. Place(Len(s) + 1) = n
    <3>1. (Len(s) + 1) - 1 = Len(s)
      BY <1>0
    <3> QED
      BY <1>2, <1>4, <1>6, <3>1
  <2>3. \A j \in DOMAIN t : Place(j) \in 1 .. n /\ t[j] = items[Place(j)]
    <3>1. SUFFICES ASSUME NEW j \in DOMAIN t
                   PROVE  Place(j) \in 1 .. n /\ t[j] = items[Place(j)]
      OBVIOUS
    <3>2. j = Len(s) + 1 \/ j \in 1 .. Len(s)
      BY <1>0, <2>1
    <3>3. CASE j = Len(s) + 1
      BY <2>1, <2>2, <3>3
    <3>4. CASE j \in 1 .. Len(s)
      BY <1>0, <1>1, <1>5, <2>1, <3>4
    <3> QED
      BY <3>2, <3>3, <3>4
  <2>4. n <= Len(t) * count + index
    <3>1. (Len(s) + 1) * count = Len(s) * count + count /\ Len(s) * count \in Nat
      BY <1>0
    <3> QED
      BY <1>2, <1>4, <1>6, <2>1, <3>1
  <2>5. ShareOf(items, count, index, n, t)
    BY <2>1, <2>3, <2>4 DEF ShareOf
  <2> QED
    BY <1>6, <2>5 DEF t
<1>7. CASE (n - 1) % count # index
  <2>1. n <= Len(s) * count + index
    BY <1>2, <1>4, <1>7
  <2> QED
    BY <1>0, <1>1, <1>5, <1>7, <2>1 DEF ShareOf
<1> QED
  BY <1>6, <1>7

\* The equation of the recursive function in RetainShard.
KeptOf(items, count, index, kept) ==
  kept = [n \in 0 .. Len(items) |->
            IF n = 0 THEN <<>>
            ELSE IF (n - 1) % count = index THEN Append(kept[n - 1], items[n])
            ELSE kept[n - 1]]

LEMMA ShareExists ==
  ASSUME NEW items, NEW count \in Nat \ {0}, NEW index \in 0 .. count - 1,
         Len(items) \in Nat, DOMAIN items = 1 .. Len(items)
  PROVE  \A n \in 0 .. Len(items) : \E s : ShareOf(items, count, index, n, s)
<1> DEFINE T == {n \in 0 .. Len(items) : ~(\E s : ShareOf(items, count, index, n, s))}
<1>1. SUFFICES ASSUME T # {}  PROVE  FALSE
  OBVIOUS
<1>2. T \subseteq Nat
  OBVIOUS
<1>3. PICK n \in T : \A m \in T : n <= m
  BY <1>1, <1>2, LeastNumber
<1>4. n # 0
  BY ShareStarts
<1>5. n - 1 \in 0 .. Len(items) /\ ~(n <= n - 1) /\ n \in Nat \ {0} /\ n \in DOMAIN items
  BY <1>4
<1>6. PICK s : ShareOf(items, count, index, n - 1, s)
  BY <1>3, <1>5
<1> QED
  BY <1>5, <1>6, ShareGrows

THEOREM RetainShardKeepsTheShare ==
  ASSUME NEW items, NEW count \in Nat \ {0}, NEW index \in 0 .. count - 1,
         Len(items) \in Nat, DOMAIN items = 1 .. Len(items)
  PROVE  ShareOf(items, count, index, Len(items), RetainShard(items, count, index))
<1> DEFINE D == 0 .. Len(items)
           Share(n, s) == ShareOf(items, count, index, n, s)
           g == [n \in D |-> CHOOSE s : Share(n, s)]
           turn(f, n) == IF n = 0 THEN <<>>
                         ELSE IF (n - 1) % count = index THEN Append(f[n - 1], items[n])
                         ELSE f[n - 1]
<1>0. \A n \in D : n \in Nat /\ (n # 0 => n - 1 \in D /\ n \in DOMAIN items)
  OBVIOUS
<1>1. \A n \in D : Share(n, g[n])
  BY ShareExists
<1>2. \A n \in D : g[n] = turn(g, n)
  <2> SUFFICES ASSUME NEW n \in D  PROVE  g[n] = turn(g, n)
    OBVIOUS
  <2> HIDE DEF g
  <2>1. CASE n = 0
    <3>1. ShareOf(items, count, index, 0, <<>>) /\ ShareOf(items, count, index, 0, g[0])
      BY <1>1, <2>1, ShareStarts
    <3>2. g[0] = <<>>
      BY <3>1, ShareIsUnique
    <3> QED
      BY <2>1, <3>2
  <2>2. CASE n # 0
    <3>1. ShareOf(items, count, index, n - 1, g[n - 1])
      BY <1>0, <1>1, <2>2
    <3>2. ShareOf(items, count, index, n,
                  IF (n - 1) % count = index THEN Append(g[n - 1], items[n]) ELSE g[n - 1])
      BY <1>0, <2>2, <3>1, ShareGrows
    <3>3. ShareOf(items, count, index, n, g[n])
      BY <1>1
    <3>4. g[n] = IF (n - 1) % count = index THEN Append(g[n - 1], items[n]) ELSE g[n - 1]
      BY <1>0, <3>2, <3>3, ShareIsUnique
    <3> QED
      BY <2>2, <3>4
  <2> QED
    BY <2>1, <2>2
<1>3. KeptOf(items, count, index, g)
  <2>1. g = [n \in D |-> g[n]]
    OBVIOUS
  <2> HIDE DEF g
  <2>2. g = [n \in D |-> turn(g, n)]
    BY <1>2, <2>1
  <2> QED
    BY <2>2 DEF KeptOf
<1> DEFINE f == CHOOSE kept : KeptOf(items, count, index, kept)
<1>4. KeptOf(items, count, index, f)
  BY <1>3
<1>5. RetainShard(items, count, index) = f[Len(items)]
  BY DEF RetainShard, KeptOf
<1> HIDE DEF f, g
<1>6. \A n \in D : f[n] = turn(f, n)
  BY <1>4 DEF KeptOf
<1>7. \A n \in D : f[n] = g[n]
  <2> DEFINE T == {n \in D : f[n] # g[n]}
  <2>1. SUFFICES ASSUME T # {}  PROVE  FALSE
    OBVIOUS
  <2>2. PICK n \in T : \A m \in T : n <= m
    <3>1. T \subseteq Nat
      BY <1>0
    <3> QED
      BY <2>1, <3>1, LeastNumber
  <2>3. ASSUME n # 0  PROVE  f[n - 1] = g[n - 1]
    <3>1. n - 1 \in D /\ ~(n <= n - 1)
      BY <1>0, <2>3
    <3> QED
      BY <2>2, <3>1
  <2> QED
    BY <1>2, <1>6, <2>2, <2>3
<1> QED
  BY <1>1, <1>5, <1>7

-----------------------------------------------------------------------------
(* What every process loads. *)

LEMMA OptionThe ==
  ASSUME NEW S, NEW o \in Option(S), o # {}
  PROVE  The(o) \in S /\ o = {The(o)}
<1>1. The(o) \in o
  BY DEF The
<1> QED
  BY <1>1 DEF Option

LEMMA LaunchTypes ==
  ASSUME launch \in Launches
  PROVE  /\ launch.processes \in Nat \ {0} /\ Indices = 0 .. launch.processes - 1
         /\ launch.max_items \in Option(Nat \ {0})
         /\ launch.dry_run \in BOOLEAN /\ launch.by_hand \in BOOLEAN /\ launch.tag \in BOOLEAN
         /\ launch.flag \in Option(Bounds) /\ launch.sidecar \in Option(Bounds)
BY ShardsAssumption DEF LaunchType, Indices

\* The items are the first units of the trace, each with its place.
LEMMA WorkloadItems ==
  ASSUME trace \in Traces, launch \in Launches
  PROVE  /\ Len(Workload) \in Nat /\ DOMAIN Workload = 1 .. Len(Workload)
         /\ \A i \in DOMAIN Workload :
              /\ i \in DOMAIN trace /\ trace[i] \in Units
              /\ Workload[i] = [place |-> i, unit |-> trace[i]]
<1> DEFINE items == [i \in DOMAIN trace |-> [place |-> i, unit |-> trace[i]]]
<1>1. trace \in Seq(Units)
  BY ShardsAssumption
<1>2. /\ items \in Seq([place : DOMAIN trace, unit : Units])
      /\ Len(items) = Len(trace) /\ DOMAIN items = 1 .. Len(trace) /\ Len(trace) \in Nat
      /\ \A i \in 1 .. Len(trace) : items[i] = [place |-> i, unit |-> trace[i]]
  <2>1. /\ Len(trace) \in Nat /\ DOMAIN trace = 1 .. Len(trace)
        /\ \A i \in DOMAIN trace : trace[i] \in Units
    BY <1>1
  <2>2. items \in [1 .. Len(trace) -> [place : DOMAIN trace, unit : Units]]
    BY <2>1
  <2> QED
    BY <2>1, <2>2
<1>3. Workload = Truncate(items)
  BY DEF Workload
<1> HIDE DEF items
<1>4. CASE launch.max_items = {} \/ Len(items) <= The(launch.max_items)
  <2>1. Workload = items
    BY <1>3, <1>4 DEF Truncate
  <2> QED
    BY <1>1, <1>2, <2>1
<1>5. CASE ~(launch.max_items = {} \/ Len(items) <= The(launch.max_items))
  <2> DEFINE n == The(launch.max_items)
  <2>1. n \in Nat \ {0}
    BY <1>5, LaunchTypes, OptionThe
  <2>2. Workload = SubSeq(items, 1, n)
    BY <1>3, <1>5 DEF Truncate
  <2>3. n < Len(trace)
    BY <1>2, <1>5, <2>1
  <2> HIDE DEF n
  <2>4. Len(Workload) = n /\ DOMAIN Workload = 1 .. n
    BY <1>2, <2>1, <2>2, <2>3
  <2>5. \A i \in 1 .. n : Workload[i] = items[i]
    BY <1>2, <2>1, <2>2, <2>3
  <2> QED
    BY <1>1, <1>2, <2>1, <2>3, <2>4, <2>5
<1> QED
  BY <1>4, <1>5

Mine(k) == RetainShard(Workload, launch.processes, k)

\* The place of the j-th unit of a shard, counted from 0.
OrdinalOf(j, k) == (j - 1) * launch.processes + k

\* The share of a shard: units of the trace whose places are one step of the number
\* of processes apart, and all of those.
LEMMA MineItems ==
  ASSUME trace \in Traces, launch \in Launches, NEW k \in Indices
  PROVE  /\ Len(Mine(k)) \in Nat /\ DOMAIN Mine(k) = 1 .. Len(Mine(k))
         /\ \A j \in DOMAIN Mine(k) :
              /\ Mine(k)[j].place \in DOMAIN Workload
              /\ Mine(k)[j].place = OrdinalOf(j, k) + 1
              /\ Mine(k)[j].unit = trace[Mine(k)[j].place]
              /\ Mine(k)[j].unit \in Units
         /\ \A p \in DOMAIN Workload : (p - 1) % launch.processes = k =>
              \E j \in DOMAIN Mine(k) : Mine(k)[j].place = p
<1> DEFINE c == launch.processes
           m == Mine(k)
<1>0. c \in Nat \ {0} /\ k \in 0 .. c - 1
  BY LaunchTypes
<1>1. /\ Len(Workload) \in Nat /\ DOMAIN Workload = 1 .. Len(Workload)
      /\ \A i \in DOMAIN Workload : /\ i \in DOMAIN trace /\ trace[i] \in Units
                                     /\ Workload[i] = [place |-> i, unit |-> trace[i]]
  BY WorkloadItems
<1>2. ShareOf(Workload, c, k, Len(Workload), m)
  BY <1>0, <1>1, RetainShardKeepsTheShare DEF Mine
<1> HIDE DEF m
<1>3. Len(m) \in Nat /\ DOMAIN m = 1 .. Len(m)
  BY <1>2 DEF ShareOf
<1>4. ASSUME NEW j \in DOMAIN m
      PROVE  /\ m[j].place \in DOMAIN Workload /\ m[j].place = OrdinalOf(j, k) + 1
             /\ m[j].unit = trace[m[j].place] /\ m[j].unit \in Units
  <2> DEFINE p == (j - 1) * c + k + 1
  <2>1. p \in 1 .. Len(Workload) /\ m[j] = Workload[p]
    BY <1>2 DEF ShareOf
  <2>2. p = OrdinalOf(j, k) + 1
    BY DEF OrdinalOf
  <2> HIDE DEF p
  <2>3. m[j] = [place |-> p, unit |-> trace[p]] /\ trace[p] \in Units
    BY <1>1, <2>1
  <2> QED
    BY <1>1, <2>1, <2>2, <2>3
<1>5. ASSUME NEW p \in DOMAIN Workload, (p - 1) % c = k
      PROVE  \E j \in DOMAIN m : m[j].place = p
  <2>1. p \in Nat /\ p - 1 \in Nat /\ p <= Len(Workload)
    BY <1>1
  <2>2. PICK q \in Nat : p - 1 = q * c + k
    BY <1>0, <1>5, <2>1, QuotientAndRest
  <2>3. Len(Workload) <= Len(m) * c + k
    BY <1>2 DEF ShareOf
  <2>4. q < Len(m)
    <3>1. SUFFICES ASSUME ~(q < Len(m))  PROVE  FALSE
      OBVIOUS
    <3>2. /\ Len(m) \in Nat /\ Len(m) <= q
      BY <1>3, <2>2, <3>1
    <3>3. Len(m) * c \in Nat /\ Len(m) * c <= q * c /\ q * c \in Nat
      BY <1>0, <3>2, ProductsAscend
    <3>4. p - 1 >= Len(m) * c + k
      <4> DEFINE a == Len(m) * c
                 b == q * c
      <4>1. a \in Nat /\ b \in Nat /\ a <= b /\ k \in Nat /\ p - 1 = b + k
        BY <1>0, <2>2, <3>3
      <4> HIDE DEF a, b
      <4>2. p - 1 >= a + k
        BY <4>1
      <4> QED
        BY <4>2 DEF a
    <3> QED
      <4>1. Len(Workload) <= (Len(m) * c) + k
        BY <2>3
      <4>2. p <= Len(Workload) /\ p \in Nat /\ k \in Nat
        BY <1>0, <2>1
      <4>3. Len(Workload) \in Nat /\ Len(m) * c \in Nat
        BY <1>1, <3>3
      <4> QED
        BY <3>4, <4>1, <4>2, <4>3
  <2>5. q + 1 \in DOMAIN m /\ (q + 1) - 1 = q
    BY <1>3, <2>2, <2>4
  <2>6. m[q + 1].place = q * c + k + 1
    BY <1>4, <2>5 DEF OrdinalOf
  <2> QED
    BY <2>1, <2>2, <2>5, <2>6
<1> QED
  BY <1>3, <1>4, <1>5 DEF m

-----------------------------------------------------------------------------
(* One record more in a report. *)

Successes == {r \in Records : Succeeded(r)}
WithUsage == {r \in Records : r.usage # {}}

\* The records under an obligation, those that kept all of theirs, and those with
\* something to measure one against.
Held(slo) == {r \in Records : Obligations(slo, r) # {}}
KeptAll(slo) == {r \in Records : /\ Obligations(slo, r) # {} /\ Succeeded(r)
                                 /\ \A o \in Obligations(slo, r) : Kept(r, o)}
Timed(metric) == {r \in Records : Succeeded(r) /\ Clock(r, metric) # {}}

\* How many of the records that a function gives are in A.
Number(recs, A) == Cardinality({at \in DOMAIN recs : recs[at] \in A})

CountsTell(f, recs) ==
  /\ f.attempted = Cardinality(DOMAIN recs)
  /\ f.success + f.failed = f.attempted
  /\ f.success = Number(recs, Successes)
  /\ f.id_steps + f.text_steps = Len(f.ttfts)
  /\ f.measured.steps = Number(recs, WithUsage)
  /\ f.measured.steps <= f.attempted
  /\ f.measured.steps = f.attempted => f.measured.planned = f.planned.prefix

Earliest(recs, a) == \A at \in DOMAIN recs : recs[a].submit <= recs[at].submit
Latest(recs, b) == \A at \in DOMAIN recs : recs[at].complete <= recs[b].complete

InstantsTell(f, recs) ==
  /\ f.first_submit = {} <=> DOMAIN recs = {}
  /\ f.last_complete = {} <=> DOMAIN recs = {}
  /\ DOMAIN recs # {} =>
       /\ \E a \in DOMAIN recs : f.first_submit = {recs[a].submit} /\ Earliest(recs, a)
       /\ \E b \in DOMAIN recs : f.last_complete = {recs[b].complete} /\ Latest(recs, b)

MetricTells(c, recs, metric) ==
  /\ c.evaluated = c.attained + c.violated + c.unmeasured
  /\ c.attained + c.violated <= Number(recs, Timed(metric))

SloTells(slo, recs) ==
  /\ slo.all.evaluated = Number(recs, Held(slo))
  /\ slo.all.attained = Number(recs, KeptAll(slo))
  /\ slo.declared.attained <= slo.declared.evaluated
  /\ \A k \in Metrics : MetricTells(slo.metric[k], recs, k)
  /\ \A k \in Metrics : MetricTells(slo.declared_metric[k], recs, k)
  /\ slo.spec # {} => \A k \in Metrics : slo.all.attained <= slo.metric[k].attained
                                          \/ The(slo.spec)[k] = {}

\* What a report says of the records that were folded into it.
Tells(f, recs) ==
  /\ CountsTell(f, recs)
  /\ InstantsTell(f, recs)
  /\ \A slo \in f.slo : SloTells(slo, recs)

ReportType ==
  [attempted : Nat, success : Nat, failed : Nat, overflow : Nat, media : Nat,
   mismatch : Nat, id_steps : Nat, text_steps : Nat, tokens : Nat,
   totals : Seq(Nat), ttfts : Seq(Nat), outputs : Seq(Nat), tpots : Seq(Nat),
   amortized : Seq(Nat \X Nat),
   first_submit : Option(Nat), last_complete : Option(Nat),
   planned : [prefix : Nat, prompt : Nat],
   measured : [steps : Nat, cached : Nat, prompt : Nat, planned : Nat, planned_prompt : Nat],
   slo : SUBSET SloType]

\* more is recs and one record more.
Grown(recs, at, r, more) ==
  /\ IsFiniteSet(DOMAIN recs) /\ at \notin DOMAIN recs
  /\ DOMAIN more = DOMAIN recs \cup {at}
  /\ more[at] = r /\ \A x \in DOMAIN recs : more[x] = recs[x]

LEMMA NumberGrows ==
  ASSUME NEW recs, NEW at, NEW r, NEW more, Grown(recs, at, r, more), NEW A
  PROVE  /\ Number(recs, A) \in Nat /\ Number(more, A) \in Nat
         /\ r \in A => Number(more, A) = Number(recs, A) + 1
         /\ r \notin A => Number(more, A) = Number(recs, A)
<1> DEFINE S == {x \in DOMAIN recs : recs[x] \in A}
           T == {x \in DOMAIN more : more[x] \in A}
<1>0. Number(recs, A) = Cardinality(S) /\ Number(more, A) = Cardinality(T)
  BY DEF Number
<1>1. IsFiniteSet(S) /\ at \notin S /\ Cardinality(S) \in Nat
  BY FS_Subset, FS_CardinalityType DEF Grown
<1>2. CASE r \in A
  <2>1. T = S \cup {at}
    BY <1>2 DEF Grown
  <2>2. Cardinality(S \cup {at}) = Cardinality(S) + 1 /\ Cardinality(S) \in Nat
    BY <1>1, FS_AddElement, FS_CardinalityType
  <2> QED
    BY <1>0, <1>2, <2>1, <2>2
<1>3. CASE r \notin A
  <2>1. T = S
    BY <1>3 DEF Grown
  <2> QED
    BY <1>0, <1>1, <1>3, <2>1
<1> QED
  BY <1>2, <1>3

LEMMA PushAllTypes ==
  ASSUME NEW S, NEW s \in Seq(S), NEW o \in Option(S)
  PROVE  /\ PushAll(s, o) \in Seq(S)
         /\ o = {} => PushAll(s, o) = s
         /\ o # {} => Len(PushAll(s, o)) = Len(s) + 1
<1>1. CASE o = {}
  BY <1>1 DEF PushAll
<1>2. CASE o # {}
  <2>1. The(o) \in S
    BY <1>2, OptionThe
  <2> QED
    BY <1>2, <2>1 DEF PushAll
<1> QED
  BY <1>1, <1>2

LEMMA AmortizedTypes ==
  ASSUME NEW r \in Records
  PROVE  Amortized(r) \in Option(Nat \X Nat)
<1> DEFINE ttft == FirstOf(r.token, r.token_id)
<1>0. r.total \in Nat /\ r.actual \in Nat /\ ttft \in Option(Nat)
  BY DEF Records, FirstOf
<1> HIDE DEF ttft
<1>1. CASE Succeeded(r) /\ ttft # {} /\ r.actual > 1 /\ r.total >= The(ttft)
  <2>1. The(ttft) \in Nat
    BY <1>0, <1>1, OptionThe
  <2>2. <<r.total - The(ttft), r.actual - 1>> \in Nat \X Nat
    BY <1>0, <1>1, <2>1
  <2>3. Amortized(r) = {<<r.total - The(ttft), r.actual - 1>>}
    BY <1>1 DEF Amortized, ttft
  <2> QED
    BY <2>2, <2>3 DEF Option
<1>2. CASE ~(Succeeded(r) /\ ttft # {} /\ r.actual > 1 /\ r.total >= The(ttft))
  <2>1. Amortized(r) = {}
    BY <1>2 DEF Amortized, ttft
  <2> QED
    BY <2>1 DEF Option
<1> QED
  BY <1>1, <1>2

LEMMA OutcomeFields ==
  ASSUME NEW f \in ReportType, NEW r \in Records
  PROVE  /\ AddOutcome(f, r) \in ReportType
         /\ AddOutcome(f, r).attempted = f.attempted + 1
         /\ AddOutcome(f, r).success = f.success + If(Succeeded(r), 1)
         /\ AddOutcome(f, r).failed = f.failed + If(~Succeeded(r), 1)
         /\ AddOutcome(f, r).id_steps = f.id_steps + If(r.token_id # {}, 1)
         /\ AddOutcome(f, r).text_steps
              = f.text_steps + If(r.token_id = {} /\ r.token # {}, 1)
         /\ AddOutcome(f, r).ttfts = PushAll(f.ttfts, FirstOf(r.token_id, r.token))
         /\ AddOutcome(f, r).first_submit
              = IF f.first_submit = {} \/ r.submit < The(f.first_submit) THEN {r.submit}
                ELSE f.first_submit
         /\ AddOutcome(f, r).last_complete
              = IF f.last_complete = {} \/ r.complete > The(f.last_complete)
                  THEN {r.complete} ELSE f.last_complete
         /\ AddOutcome(f, r).planned = f.planned /\ AddOutcome(f, r).measured = f.measured
         /\ AddOutcome(f, r).slo = f.slo
<1> DEFINE g == AddOutcome(f, r)
           first == IF f.first_submit = {} \/ r.submit < The(f.first_submit) THEN {r.submit}
                    ELSE f.first_submit
           last == IF f.last_complete = {} \/ r.complete > The(f.last_complete)
                     THEN {r.complete} ELSE f.last_complete
           n1 == f.attempted + 1
           n2 == f.success + If(Succeeded(r), 1)
           n3 == f.failed + If(~Succeeded(r), 1)
           n4 == f.overflow + If(r.status = "SKIPPED_CONTEXT_OVERFLOW", 1)
           n5 == f.media + If(r.media, 1)
           n6 == f.mismatch + If(~r.media /\ Succeeded(r) /\ r.actual # r.target, 1)
           n7 == f.id_steps + If(r.token_id # {}, 1)
           n8 == f.text_steps + If(r.token_id = {} /\ r.token # {}, 1)
           n9 == f.tokens + If(Succeeded(r), r.actual)
           s1 == Append(f.totals, r.total)
           s2 == PushAll(f.ttfts, FirstOf(r.token_id, r.token))
           s3 == PushAll(f.outputs, r.output)
           s4 == IF Succeeded(r) THEN PushAll(f.tpots, r.tpot) ELSE f.tpots
           s5 == PushAll(f.amortized, Amortized(r))
<1>1. g = [f EXCEPT !.attempted = n1, !.success = n2, !.failed = n3, !.overflow = n4,
                    !.media = n5, !.mismatch = n6, !.id_steps = n7, !.text_steps = n8,
                    !.tokens = n9, !.totals = s1, !.ttfts = s2, !.outputs = s3, !.tpots = s4,
                    !.amortized = s5, !.first_submit = first, !.last_complete = last]
  BY Zenon DEF AddOutcome
<1>2. /\ r.total \in Nat /\ r.actual \in Nat /\ r.submit \in Nat /\ r.complete \in Nat
      /\ FirstOf(r.token_id, r.token) \in Option(Nat) /\ r.output \in Option(Nat)
      /\ r.tpot \in Option(Nat)
  BY DEF Records, FirstOf
<1>3. \A b : If(b, 1) \in Nat
  BY DEF If
<1>4. If(Succeeded(r), r.actual) \in Nat
  BY <1>2 DEF If
<1>5. /\ f.attempted \in Nat /\ f.success \in Nat /\ f.failed \in Nat /\ f.overflow \in Nat
      /\ f.media \in Nat /\ f.mismatch \in Nat /\ f.id_steps \in Nat /\ f.text_steps \in Nat
      /\ f.tokens \in Nat
  BY DEF ReportType
<1>6. /\ f.totals \in Seq(Nat) /\ f.ttfts \in Seq(Nat) /\ f.outputs \in Seq(Nat)
      /\ f.tpots \in Seq(Nat) /\ f.amortized \in Seq(Nat \X Nat)
  BY DEF ReportType
<1>7. n1 \in Nat
  BY <1>5
<1>8. n2 \in Nat
  BY <1>3, <1>5
<1>9. n3 \in Nat
  BY <1>3, <1>5
<1>10. n4 \in Nat
  BY <1>3, <1>5
<1>11. n5 \in Nat
  BY <1>3, <1>5
<1>12. n6 \in Nat
  BY <1>3, <1>5
<1>13. n7 \in Nat
  BY <1>3, <1>5
<1>14. n8 \in Nat
  BY <1>3, <1>5
<1>15. n9 \in Nat
  BY <1>4, <1>5
<1>16. s1 \in Seq(Nat)
  BY <1>2, <1>6
<1>17. s2 \in Seq(Nat)
  BY <1>2, <1>6, PushAllTypes
<1>18. s3 \in Seq(Nat)
  BY <1>2, <1>6, PushAllTypes
<1>19. s4 \in Seq(Nat)
  BY <1>2, <1>6, PushAllTypes
<1>20. s5 \in Seq(Nat \X Nat)
  BY <1>6, PushAllTypes, AmortizedTypes
<1>21. first \in Option(Nat) /\ last \in Option(Nat)
  BY <1>2 DEF ReportType, Option
<1> HIDE DEF g, n1, n2, n3, n4, n5, n6, n7, n8, n9, s1, s2, s3, s4, s5, first, last
<1>22. g \in ReportType
  BY <1>1, <1>7, <1>8, <1>9, <1>10, <1>11, <1>12, <1>13, <1>14, <1>15, <1>16, <1>17,
     <1>18, <1>19, <1>20, <1>21 DEF ReportType
<1>23. /\ g.attempted = n1 /\ g.success = n2 /\ g.failed = n3 /\ g.id_steps = n7
       /\ g.text_steps = n8 /\ g.ttfts = s2 /\ g.first_submit = first
       /\ g.last_complete = last
       /\ g.planned = f.planned /\ g.measured = f.measured /\ g.slo = f.slo
  BY <1>1 DEF ReportType
<1> QED
  BY <1>22, <1>23, Zenon DEF g, n1, n2, n3, n7, n8, s2, first, last

LEMMA PrefixFields ==
  ASSUME NEW f \in ReportType, NEW r \in Records
  PROVE  /\ AddPrefix(f, r) \in ReportType
         /\ AddPrefix(f, r).planned.prefix = f.planned.prefix + r.prefix
         /\ r.usage = {} => AddPrefix(f, r).measured = f.measured
         /\ r.usage # {} =>
              /\ AddPrefix(f, r).measured.steps = f.measured.steps + 1
              /\ AddPrefix(f, r).measured.planned = f.measured.planned + r.prefix
         /\ \A field \in DOMAIN f \ {"planned", "measured"} :
              AddPrefix(f, r)[field] = f[field]
<1> DEFINE g == AddPrefix(f, r)
           planned == [prefix |-> f.planned.prefix + r.prefix,
                       prompt |-> f.planned.prompt + r.prompt]
           u == The(r.usage)
           m == f.measured
           counted == [steps |-> m.steps + 1,
                       cached |-> m.cached + u.cached, prompt |-> m.prompt + u.prompt,
                       planned |-> m.planned + r.prefix,
                       planned_prompt |-> m.planned_prompt + r.prompt]
           measured == IF ~(r.usage # {}) THEN m ELSE counted
           Measured == [steps : Nat, cached : Nat, prompt : Nat, planned : Nat,
                        planned_prompt : Nat]
<1>1. g = [f EXCEPT !.planned = planned, !.measured = measured]
  BY Zenon DEF AddPrefix
<1>2. /\ r.prefix \in Nat /\ r.prompt \in Nat
      /\ r.usage \in Option([cached : Nat, prompt : Nat])
  BY DEF Records
<1>3. f.planned \in [prefix : Nat, prompt : Nat] /\ m \in Measured
  BY DEF ReportType
<1>4. planned \in [prefix : Nat, prompt : Nat]
  BY <1>2, <1>3
<1>5. measured \in Measured
  <2>1. CASE r.usage # {}
    <3>1. u \in [cached : Nat, prompt : Nat]
      BY <1>2, <2>1, OptionThe
    <3>2. counted \in Measured
      BY <1>2, <1>3, <3>1
    <3> QED
      BY <2>1, <3>2
  <2>2. CASE r.usage = {}
    BY <1>3, <2>2
  <2> QED
    BY <2>1, <2>2
<1>6. /\ planned.prefix = f.planned.prefix + r.prefix
      /\ r.usage = {} => measured = m
      /\ r.usage # {} => /\ measured.steps = m.steps + 1
                         /\ measured.planned = m.planned + r.prefix
  OBVIOUS
<1> HIDE DEF g, planned, measured
<1>7. g \in ReportType /\ g.planned = planned /\ g.measured = measured
  BY <1>1, <1>4, <1>5 DEF ReportType
<1>8. \A field \in DOMAIN f \ {"planned", "measured"} : g[field] = f[field]
  BY <1>1
<1> QED
  BY <1>6, <1>7, <1>8 DEF g

-----------------------------------------------------------------------------
(* One step more under objectives. *)

LEMMA MeasurementFields ==
  ASSUME NEW r \in Records
  PROVE  /\ MeasurementOf(r) \in Measurement
         /\ MeasurementOf(r).succeeded = Succeeded(r)
         /\ MeasurementOf(r).declared = r.declared
         /\ \A k \in Metrics : MeasurementOf(r).measured[k] = Clock(r, k)
<1> DEFINE m == MeasurementOf(r)
           d == [ttft |-> FirstOf(r.token_id, FirstOf(r.token, r.output)),
                 tpot |-> r.tpot, e2e |-> {r.total}]
<1>1. m = [succeeded |-> Succeeded(r), measured |-> d, declared |-> r.declared]
  BY DEF MeasurementOf
<1>2. /\ r.token_id \in Option(Nat) /\ r.token \in Option(Nat) /\ r.output \in Option(Nat)
      /\ r.tpot \in Option(Nat) /\ r.total \in Nat /\ r.declared \in Bounds
  BY DEF Records
<1>3. /\ FirstOf(r.token_id, FirstOf(r.token, r.output)) \in Option(Nat)
      /\ {r.total} \in Option(Nat)
  BY <1>2 DEF FirstOf, Option
<1>4. d \in Bounds
  BY <1>2, <1>3 DEF Bounds, Metrics
<1>5. d["ttft"] = Clock(r, "ttft") /\ d["tpot"] = Clock(r, "tpot") /\ d["e2e"] = Clock(r, "e2e")
  BY DEF Clock, FirstOf
<1>6. \A k \in Metrics : d[k] = Clock(r, k)
  BY <1>5 DEF Metrics
<1>7. Succeeded(r) \in BOOLEAN
  BY DEF Succeeded
<1> HIDE DEF d
<1> QED
  BY <1>1, <1>2, <1>4, <1>6, <1>7 DEF Measurement

\* The bounds on a step by the run and by its row.
RunBounds(slo) == IF slo.spec = {} THEN NoBounds ELSE The(slo.spec)
RowBounds(slo, r) == IF slo.rows THEN r.declared ELSE NoBounds

LEMMA BoundsTypes ==
  ASSUME NEW slo \in SloType, NEW r \in Records
  PROVE  /\ RunBounds(slo) \in Bounds /\ RowBounds(slo, r) \in Bounds
         /\ \A k \in Metrics : \A b :
              <<k, b>> \in Obligations(slo, r) <=>
                b \in RunBounds(slo)[k] \/ b \in RowBounds(slo, r)[k]
<1>1. NoBounds \in Bounds
  BY DEF NoBounds, Bounds, Option
<1>2. slo.spec \in Option(Bounds) /\ slo.rows \in BOOLEAN
  BY DEF SloType
<1>3. RunBounds(slo) \in Bounds
  <2>1. slo.spec # {} => The(slo.spec) \in Bounds
    BY <1>2, OptionThe
  <2> QED
    BY <1>1, <2>1 DEF RunBounds
<1>4. RowBounds(slo, r) \in Bounds
  BY <1>1 DEF RowBounds, Records
<1>5. ASSUME NEW k \in Metrics, NEW b
      PROVE  <<k, b>> \in Obligations(slo, r) <=>
               b \in RunBounds(slo)[k] \/ b \in RowBounds(slo, r)[k]
  <2> DEFINE S == (IF slo.spec = {} THEN {} ELSE The(slo.spec)[k])
                    \cup (IF slo.rows THEN r.declared[k] ELSE {})
  <2>1. NoBounds[k] = {}
    BY DEF NoBounds
  <2>2. b \in S <=> b \in RunBounds(slo)[k] \/ b \in RowBounds(slo, r)[k]
    BY <2>1 DEF RunBounds, RowBounds
  <2>3. <<k, b>> \in Obligations(slo, r) <=> b \in S
    BY DEF Obligations
  <2> QED
    BY <2>2, <2>3
<1> QED
  BY <1>3, <1>4, <1>5

LEMMA VerdictMeaning ==
  ASSUME NEW m \in Measurement, NEW bounds \in Bounds
  PROVE  /\ DOMAIN Verdict(m, bounds) = {k \in Metrics : bounds[k] # {}}
         /\ \A k \in DOMAIN Verdict(m, bounds) :
              /\ Verdict(m, bounds)[k] \in Verdicts
              /\ Verdict(m, bounds)[k] = "attained" <=>
                   /\ m.succeeded
                   /\ \A b \in bounds[k] : \E v \in m.measured[k] : v <= b
              /\ Verdict(m, bounds)[k] # "unmeasured" => m.succeeded /\ m.measured[k] # {}
<1> DEFINE run == Verdict(m, bounds)
           D == {k \in Metrics : bounds[k] # {}}
<1>1. run = [k \in D |-> Judge(m.succeeded, m.measured[k], The(bounds[k]))]
  BY DEF Verdict
<1> HIDE DEF run
<1>2. ASSUME NEW k \in D
      PROVE  /\ run[k] \in Verdicts
             /\ run[k] = "attained" <=>
                  /\ m.succeeded
                  /\ \A b \in bounds[k] : \E v \in m.measured[k] : v <= b
             /\ run[k] # "unmeasured" => m.succeeded /\ m.measured[k] # {}
  <2> DEFINE b == The(bounds[k])
  <2>1. bounds[k] \in Option(Nat) /\ m.measured[k] \in Option(Nat) /\ m.succeeded \in BOOLEAN
    BY DEF Bounds, Measurement
  <2>2. b \in Nat /\ bounds[k] = {b}
    BY <2>1, OptionThe
  <2>3. run[k] = Judge(m.succeeded, m.measured[k], b)
    BY <1>1
  <2> HIDE DEF b
  <2>4. CASE ~m.succeeded \/ m.measured[k] = {}
    <3>1. run[k] = "unmeasured"
      BY <2>3, <2>4 DEF Judge
    <3> QED
      BY <2>2, <2>4, <3>1 DEF Verdicts
  <2>5. CASE m.succeeded /\ m.measured[k] # {}
    <3> DEFINE v == The(m.measured[k])
    <3>1. v \in Nat /\ m.measured[k] = {v}
      BY <2>1, <2>5, OptionThe
    <3>2. run[k] = IF v <= b THEN "attained" ELSE "violated"
      BY <2>3, <2>5 DEF Judge
    <3> HIDE DEF v
    <3> QED
      BY <2>2, <2>5, <3>1, <3>2 DEF Verdicts
  <2> QED
    BY <2>1, <2>4, <2>5
<1>3. DOMAIN run = D
  BY <1>1
<1> QED
  BY <1>2, <1>3 DEF run

LEMMA CountFields ==
  ASSUME NEW c \in Counts, NEW v \in Verdicts
  PROVE  /\ Count(c, v) \in Counts
         /\ Count(c, v).evaluated = c.evaluated + 1
         /\ v = "attained" => /\ Count(c, v).attained = c.attained + 1
                              /\ Count(c, v).violated = c.violated
                              /\ Count(c, v).unmeasured = c.unmeasured
         /\ v = "violated" => /\ Count(c, v).attained = c.attained
                              /\ Count(c, v).violated = c.violated + 1
                              /\ Count(c, v).unmeasured = c.unmeasured
         /\ v = "unmeasured" => /\ Count(c, v).attained = c.attained
                                /\ Count(c, v).violated = c.violated
                                /\ Count(c, v).unmeasured = c.unmeasured + 1
<1> DEFINE d == Count(c, v)
           a == IF v = "attained" THEN c.attained + 1 ELSE c.attained
           l == IF v = "violated" THEN c.violated + 1 ELSE c.violated
           u == IF v = "unmeasured" THEN c.unmeasured + 1 ELSE c.unmeasured
<1>1. d = [c EXCEPT !.evaluated = c.evaluated + 1, !.attained = a, !.violated = l,
                    !.unmeasured = u]
  BY Zenon DEF Count
<1>2. /\ c.evaluated \in Nat /\ c.attained \in Nat /\ c.violated \in Nat
      /\ c.unmeasured \in Nat
  BY DEF Counts
<1>3. a \in Nat /\ l \in Nat /\ u \in Nat /\ c.evaluated + 1 \in Nat
  BY <1>2
<1> HIDE DEF d, a, l, u
<1>4. /\ d \in Counts /\ d.evaluated = c.evaluated + 1 /\ d.attained = a /\ d.violated = l
      /\ d.unmeasured = u
  BY <1>1, <1>3 DEF Counts
<1>5. /\ v = "attained" => a = c.attained + 1 /\ l = c.violated /\ u = c.unmeasured
      /\ v = "violated" => a = c.attained /\ l = c.violated + 1 /\ u = c.unmeasured
      /\ v = "unmeasured" => a = c.attained /\ l = c.violated /\ u = c.unmeasured + 1
  BY DEF a, l, u
<1> QED
  BY <1>4, <1>5 DEF d

\* The counts of each metric after the verdicts of a step on some bounds.
LEMMA MetricsGrow ==
  ASSUME NEW r \in Records, NEW bounds \in Bounds, NEW counts \in [Metrics -> Counts],
         NEW recs, NEW at, NEW more, Grown(recs, at, r, more),
         \A k \in Metrics : MetricTells(counts[k], recs, k)
  PROVE  LET run == Verdict(MeasurementOf(r), bounds)
             new == CountEach(counts, run)
         IN  /\ new \in [Metrics -> Counts]
             /\ \A k \in Metrics : MetricTells(new[k], more, k)
             /\ \A k \in Metrics : new[k].attained >= counts[k].attained
             /\ \A k \in DOMAIN run : run[k] = "attained" =>
                                        new[k].attained = counts[k].attained + 1
<1> DEFINE m == MeasurementOf(r)
           run == Verdict(m, bounds)
           new == CountEach(counts, run)
<1>1. /\ m \in Measurement /\ m.succeeded = Succeeded(r)
      /\ \A k \in Metrics : m.measured[k] = Clock(r, k)
  BY MeasurementFields
<1>2. /\ DOMAIN run \subseteq Metrics
      /\ \A k \in DOMAIN run : /\ run[k] \in Verdicts
                               /\ run[k] # "unmeasured" => Succeeded(r) /\ Clock(r, k) # {}
  <2>1. /\ DOMAIN run \subseteq Metrics
        /\ \A k \in DOMAIN run : run[k] \in Verdicts
        /\ \A k \in DOMAIN run : run[k] # "unmeasured" => m.succeeded /\ m.measured[k] # {}
    <3> HIDE DEF m
    <3>1. m \in Measurement
      BY <1>1
    <3>2. DOMAIN Verdict(m, bounds) = {k \in Metrics : bounds[k] # {}}
      BY <3>1, VerdictMeaning
    <3>3. \A k \in DOMAIN Verdict(m, bounds) :
            /\ Verdict(m, bounds)[k] \in Verdicts
            /\ Verdict(m, bounds)[k] # "unmeasured" => m.succeeded /\ m.measured[k] # {}
      BY <3>1, VerdictMeaning
    <3> QED
      BY <3>2, <3>3, Zenon
  <2> HIDE DEF m, run
  <2> QED
    BY <1>1, <2>1
<1>3. new = [k \in Metrics |-> IF k \in DOMAIN run THEN Count(counts[k], run[k]) ELSE counts[k]]
  BY DEF CountEach
<1> HIDE DEF m, run, new
<1>4. ASSUME NEW k \in Metrics
      PROVE  /\ new[k] \in Counts /\ MetricTells(new[k], more, k)
             /\ new[k].attained >= counts[k].attained
             /\ k \in DOMAIN run /\ run[k] = "attained" =>
                  new[k].attained = counts[k].attained + 1
  <2> DEFINE c == counts[k]
             A == Timed(k)
  <2>1. /\ c \in Counts /\ c.evaluated = c.attained + c.violated + c.unmeasured
        /\ c.attained + c.violated <= Number(recs, A)
    BY DEF MetricTells
  <2>2. /\ c.evaluated \in Nat /\ c.attained \in Nat /\ c.violated \in Nat
        /\ c.unmeasured \in Nat
    BY <2>1 DEF Counts
  <2>3. /\ Number(recs, A) \in Nat /\ Number(more, A) \in Nat
        /\ r \in A => Number(more, A) = Number(recs, A) + 1
        /\ r \notin A => Number(more, A) = Number(recs, A)
    BY NumberGrows
  <2>4. Succeeded(r) /\ Clock(r, k) # {} => r \in A
    BY DEF Timed
  <2> HIDE DEF c, A
  <2>5. CASE k \notin DOMAIN run
    <3>1. new[k] = c
      BY <1>3, <2>5 DEF c
    <3>2. MetricTells(c, more, k)
      BY <2>1, <2>2, <2>3 DEF MetricTells, A
    <3> QED
      BY <2>1, <2>2, <2>5, <3>1, <3>2 DEF c
  <2>6. CASE k \in DOMAIN run
    <3> DEFINE d == Count(c, run[k])
    <3>1. new[k] = d
      BY <1>3, <2>6 DEF c
    <3>2. /\ d \in Counts /\ d.evaluated = c.evaluated + 1
          /\ run[k] = "attained" => /\ d.attained = c.attained + 1 /\ d.violated = c.violated
                                    /\ d.unmeasured = c.unmeasured
          /\ run[k] = "violated" => /\ d.attained = c.attained /\ d.violated = c.violated + 1
                                    /\ d.unmeasured = c.unmeasured
          /\ run[k] = "unmeasured" => /\ d.attained = c.attained /\ d.violated = c.violated
                                      /\ d.unmeasured = c.unmeasured + 1
      BY <1>2, <2>1, <2>6, CountFields
    <3>3. run[k] \in Verdicts /\ (run[k] # "unmeasured" => r \in A)
      BY <1>2, <2>4, <2>6
    <3> HIDE DEF d
    <3>4. d.evaluated = d.attained + d.violated + d.unmeasured
      <4>1. run[k] = "attained" \/ run[k] = "violated" \/ run[k] = "unmeasured"
        BY <3>3 DEF Verdicts
      <4>2. CASE run[k] = "attained"
        BY <2>1, <2>2, <3>2, <4>2
      <4>3. CASE run[k] = "violated"
        BY <2>1, <2>2, <3>2, <4>3
      <4>4. CASE run[k] = "unmeasured"
        BY <2>1, <2>2, <3>2, <4>4
      <4> QED
        BY <4>1, <4>2, <4>3, <4>4
    <3>5. d.attained + d.violated <= Number(more, A)
      BY <2>1, <2>2, <2>3, <3>2, <3>3 DEF Verdicts
    <3>6. MetricTells(d, more, k)
      BY <3>4, <3>5 DEF MetricTells, A
    <3>7. d.attained >= c.attained
      BY <2>2, <3>2, <3>3 DEF Verdicts
    <3> QED
      BY <3>1, <3>2, <3>6, <3>7 DEF c
  <2> QED
    BY <2>5, <2>6
<1>5. new \in [Metrics -> Counts]
  BY <1>3, <1>4
<1> QED
  BY <1>2, <1>4, <1>5, Zenon DEF run, new, m

\* The parts of the objectives after one step.
LEMMA AddFields ==
  ASSUME NEW slo \in SloType, NEW r \in Records
  PROVE  LET m == MeasurementOf(r)
             run == Verdict(m, RunBounds(slo))
             row == Verdict(m, RowBounds(slo, r))
             new == Add(slo, m)
         IN  /\ new \in SloType /\ new.spec = slo.spec /\ new.rows = slo.rows
             /\ new.metric = CountEach(slo.metric, run)
             /\ new.declared_metric = IF DOMAIN row = {} THEN slo.declared_metric
                                      ELSE CountEach(slo.declared_metric, row)
             /\ \/ new.declared = slo.declared
                \/ \E v \in Verdicts : new.declared = Count(slo.declared, v)
             /\ new.all = IF DOMAIN run \cup DOMAIN row = {} THEN slo.all
                          ELSE Count(slo.all, IF Met(run) /\ Met(row) THEN "attained"
                                              ELSE "violated")
<1> DEFINE m == MeasurementOf(r)
           run == Verdict(m, RunBounds(slo))
           row == Verdict(m, RowBounds(slo, r))
           new == Add(slo, m)
           metric == CountEach(slo.metric, run)
           each == CountEach(slo.declared_metric, row)
           v == IF Met(row) THEN "attained"
                ELSE IF \E k \in DOMAIN row : row[k] = "unmeasured" THEN "unmeasured"
                ELSE "violated"
           w == IF Met(run) /\ Met(row) THEN "attained" ELSE "violated"
           count == Count(slo.declared, v)
           whole == Count(slo.all, w)
           first == [slo EXCEPT !.metric = metric]
           folded == IF DOMAIN row = {} THEN first
                     ELSE [first EXCEPT !.declared = count, !.declared_metric = each]
<1>1. m.declared = r.declared
  BY MeasurementFields
<1>2. /\ v \in Verdicts /\ w \in Verdicts
  BY DEF Verdicts
<1>3. /\ slo.all \in Counts /\ slo.declared \in Counts /\ slo.metric \in [Metrics -> Counts]
      /\ slo.declared_metric \in [Metrics -> Counts]
  BY DEF SloType
<1>4. count \in Counts /\ whole \in Counts
  BY <1>2, <1>3, CountFields
<1>5. ASSUME NEW bounds \in Bounds, NEW counts \in [Metrics -> Counts]
      PROVE  CountEach(counts, Verdict(m, bounds)) \in [Metrics -> Counts]
  <2>1. m \in Measurement
    BY MeasurementFields
  <2> HIDE DEF m
  <2>2. \A k \in DOMAIN Verdict(m, bounds) : Verdict(m, bounds)[k] \in Verdicts
    BY <2>1, VerdictMeaning
  <2>3. ASSUME NEW k \in Metrics
        PROVE  (IF k \in DOMAIN Verdict(m, bounds) THEN Count(counts[k], Verdict(m, bounds)[k])
                ELSE counts[k]) \in Counts
    BY <2>2, CountFields
  <2> QED
    BY <2>3 DEF CountEach
<1>6. metric \in [Metrics -> Counts] /\ each \in [Metrics -> Counts]
  BY <1>3, <1>5, BoundsTypes
<1>7. new = IF DOMAIN run \cup DOMAIN row = {} THEN folded ELSE [folded EXCEPT !.all = whole]
  <2>1. run = Verdict(m, IF slo.spec = {} THEN NoBounds ELSE The(slo.spec))
    BY Zenon DEF RunBounds
  <2>2. row = Verdict(m, IF slo.rows THEN m.declared ELSE NoBounds)
    BY <1>1, Zenon DEF RowBounds
  <2>3. folded = AddDeclared(first, row)
    <3>1. first.declared = slo.declared /\ first.declared_metric = slo.declared_metric
      BY DEF SloType
    <3> HIDE DEF first, row, m, run
    <3> QED
      BY <3>1 DEF AddDeclared
  <2>4. slo.all = folded.all
    BY DEF SloType
  <2> HIDE DEF m
  <2> QED
    BY <2>1, <2>2, <2>3, <2>4, Zenon DEF Add
<1>8. /\ v = v /\ count = Count(slo.declared, v)
  OBVIOUS
<1> HIDE DEF m, run, row, new, metric, each, v, w, count, whole
<1>9. /\ folded \in SloType /\ folded.spec = slo.spec /\ folded.rows = slo.rows
      /\ folded.metric = metric /\ folded.all = slo.all
      /\ folded.declared_metric = IF DOMAIN row = {} THEN slo.declared_metric ELSE each
      /\ folded.declared = IF DOMAIN row = {} THEN slo.declared ELSE count
  <2>1. /\ first \in SloType /\ first.spec = slo.spec /\ first.rows = slo.rows
        /\ first.metric = metric /\ first.all = slo.all /\ first.declared = slo.declared
        /\ first.declared_metric = slo.declared_metric
    BY <1>6 DEF SloType
  <2> HIDE DEF first
  <2> QED
    BY <1>4, <1>6, <2>1 DEF SloType
<1> HIDE DEF folded
<1>10. /\ new \in SloType /\ new.spec = folded.spec /\ new.rows = folded.rows
       /\ new.metric = folded.metric /\ new.declared = folded.declared
       /\ new.declared_metric = folded.declared_metric
       /\ new.all = IF DOMAIN run \cup DOMAIN row = {} THEN folded.all ELSE whole
  BY <1>4, <1>7, <1>9 DEF SloType
<1> QED
  BY <1>2, <1>8, <1>9, <1>10, Zenon DEF m, run, row, new, metric, each, w, whole

\* Who is held to something and who kept it, in the words of the verdicts.
LEMMA VerdictsDecide ==
  ASSUME NEW slo \in SloType, NEW r \in Records
  PROVE  LET run == Verdict(MeasurementOf(r), RunBounds(slo))
             row == Verdict(MeasurementOf(r), RowBounds(slo, r))
         IN  /\ r \in Held(slo) <=> DOMAIN run \cup DOMAIN row # {}
             /\ r \in KeptAll(slo) <=> /\ DOMAIN run \cup DOMAIN row # {}
                                       /\ Met(run) /\ Met(row)
<1> DEFINE m == MeasurementOf(r)
           B == RunBounds(slo)
           C == RowBounds(slo, r)
           run == Verdict(m, B)
           row == Verdict(m, C)
           O == Obligations(slo, r)
<1>1. /\ m \in Measurement /\ m.succeeded = Succeeded(r)
      /\ \A k \in Metrics : m.measured[k] = Clock(r, k)
  BY MeasurementFields
<1>2. /\ B \in Bounds /\ C \in Bounds
      /\ \A k \in Metrics : \A b : <<k, b>> \in O <=> b \in B[k] \/ b \in C[k]
  BY BoundsTypes
<1>3. \A o \in O : \E k \in Metrics : \E b : o = <<k, b>>
  BY DEF Obligations
<1> HIDE DEF m, B, C, O
<1>4. /\ DOMAIN run = {k \in Metrics : B[k] # {}}
      /\ \A k \in DOMAIN run : run[k] = "attained" <=>
           m.succeeded /\ \A b \in B[k] : \E v \in m.measured[k] : v <= b
  BY <1>1, <1>2, VerdictMeaning
<1>5. /\ DOMAIN row = {k \in Metrics : C[k] # {}}
      /\ \A k \in DOMAIN row : row[k] = "attained" <=>
           m.succeeded /\ \A b \in C[k] : \E v \in m.measured[k] : v <= b
  BY <1>1, <1>2, VerdictMeaning
<1> HIDE DEF run, row
<1>6. O # {} <=> DOMAIN run \cup DOMAIN row # {}
  <2>1. ASSUME O # {}  PROVE  DOMAIN run \cup DOMAIN row # {}
    <3>0. PICK k \in Metrics : \E b : <<k, b>> \in O
      BY <1>3, <2>1
    <3>1. PICK b : <<k, b>> \in O
      BY <3>0
    <3> QED
      BY <1>2, <1>4, <1>5, <3>1
  <2>2. ASSUME NEW k \in DOMAIN run \cup DOMAIN row  PROVE  O # {}
    <3>1. k \in Metrics /\ (B[k] # {} \/ C[k] # {})
      BY <1>4, <1>5
    <3> QED
      BY <1>2, <3>1
  <2> QED
    BY <2>1, <2>2
<1>7. \A k \in Metrics : \A b : Kept(r, <<k, b>>) <=> \E v \in m.measured[k] : v <= b
  BY <1>1 DEF Kept
<1>8. ASSUME DOMAIN run \cup DOMAIN row # {}
      PROVE  Met(run) /\ Met(row) <=> Succeeded(r) /\ \A o \in O : Kept(r, o)
  <2>1. ASSUME Met(run) /\ Met(row)  PROVE  Succeeded(r) /\ \A o \in O : Kept(r, o)
    <3>1. /\ \A k \in DOMAIN run : m.succeeded /\ \A b \in B[k] : \E v \in m.measured[k] : v <= b
          /\ \A k \in DOMAIN row : m.succeeded /\ \A b \in C[k] : \E v \in m.measured[k] : v <= b
      BY <1>4, <1>5, <2>1 DEF Met
    <3>2. Succeeded(r)
      BY <1>1, <1>8, <3>1
    <3>3. ASSUME NEW o \in O  PROVE  Kept(r, o)
      <4>0. PICK k \in Metrics : \E b : o = <<k, b>>
        BY <1>3
      <4>1. PICK b : o = <<k, b>>
        BY <4>0
      <4>2. b \in B[k] \/ b \in C[k]
        BY <1>2, <4>1
      <4>3. \E v \in m.measured[k] : v <= b
        BY <1>4, <1>5, <3>1, <4>2
      <4> QED
        BY <1>7, <4>1, <4>3
    <3> QED
      BY <3>2, <3>3
  <2>2. ASSUME Succeeded(r), \A o \in O : Kept(r, o)  PROVE  Met(run) /\ Met(row)
    <3>1. \A k \in Metrics : \A b : b \in B[k] \/ b \in C[k] => \E v \in m.measured[k] : v <= b
      BY <1>2, <1>7, <2>2
    <3>2. Met(run)
      BY <1>1, <1>4, <2>2, <3>1 DEF Met
    <3>3. Met(row)
      BY <1>1, <1>5, <2>2, <3>1 DEF Met
    <3> QED
      BY <3>2, <3>3
  <2> QED
    BY <2>1, <2>2
<1>9. r \in Held(slo) <=> O # {}
  BY DEF Held, O
<1>10. r \in KeptAll(slo) <=> O # {} /\ Succeeded(r) /\ \A o \in O : Kept(r, o)
  BY DEF KeptAll, O
<1>11. /\ r \in Held(slo) <=> DOMAIN run \cup DOMAIN row # {}
       /\ r \in KeptAll(slo) <=> DOMAIN run \cup DOMAIN row # {} /\ Met(run) /\ Met(row)
  BY <1>6, <1>8, <1>9, <1>10
<1> QED
  BY <1>11, Zenon DEF run, row, m, B, C

LEMMA SloGrows ==
  ASSUME NEW slo \in SloType, NEW r \in Records, NEW recs, NEW at, NEW more,
         Grown(recs, at, r, more), SloTells(slo, recs)
  PROVE  /\ Add(slo, MeasurementOf(r)) \in SloType
         /\ SloTells(Add(slo, MeasurementOf(r)), more)
<1> DEFINE m == MeasurementOf(r)
           B == RunBounds(slo)
           C == RowBounds(slo, r)
           run == Verdict(m, B)
           row == Verdict(m, C)
           new == Add(slo, m)
           w == IF Met(run) /\ Met(row) THEN "attained" ELSE "violated"
           some == DOMAIN run \cup DOMAIN row # {}
<1>1. /\ new \in SloType /\ new.spec = slo.spec /\ new.rows = slo.rows
      /\ new.metric = CountEach(slo.metric, run)
      /\ new.declared_metric = IF DOMAIN row = {} THEN slo.declared_metric
                               ELSE CountEach(slo.declared_metric, row)
      /\ \/ new.declared = slo.declared
         \/ \E v \in Verdicts : new.declared = Count(slo.declared, v)
      /\ new.all = IF some THEN Count(slo.all, w) ELSE slo.all
  BY AddFields, Zenon
<1>2. /\ r \in Held(slo) <=> some
      /\ r \in KeptAll(slo) <=> some /\ Met(run) /\ Met(row)
  BY VerdictsDecide, Zenon
<1>3. B \in Bounds /\ C \in Bounds
  BY BoundsTypes
<1>4. /\ slo.metric \in [Metrics -> Counts] /\ slo.declared_metric \in [Metrics -> Counts]
      /\ slo.all \in Counts /\ slo.declared \in Counts
  BY DEF SloType
<1>5. /\ slo.all.evaluated = Number(recs, Held(slo))
      /\ slo.all.attained = Number(recs, KeptAll(slo))
      /\ slo.declared.attained <= slo.declared.evaluated
      /\ \A k \in Metrics : MetricTells(slo.metric[k], recs, k)
      /\ \A k \in Metrics : MetricTells(slo.declared_metric[k], recs, k)
      /\ slo.spec # {} => \A k \in Metrics : slo.all.attained <= slo.metric[k].attained
                                              \/ The(slo.spec)[k] = {}
  BY DEF SloTells
<1>6. /\ \A k \in Metrics : MetricTells(CountEach(slo.metric, run)[k], more, k)
      /\ \A k \in Metrics :
           CountEach(slo.metric, run)[k].attained >= slo.metric[k].attained
      /\ \A k \in DOMAIN run : run[k] = "attained" =>
           CountEach(slo.metric, run)[k].attained = slo.metric[k].attained + 1
  BY <1>3, <1>4, <1>5, MetricsGrow, Zenon
<1>7. \A k \in Metrics : MetricTells(new.declared_metric[k], more, k)
  <2>1. \A k \in Metrics : MetricTells(CountEach(slo.declared_metric, row)[k], more, k)
    BY <1>3, <1>4, <1>5, MetricsGrow, Zenon
  <2>2. ASSUME DOMAIN row = {}
        PROVE  \A k \in Metrics : MetricTells(slo.declared_metric[k], more, k)
    <3>1. CountEach(slo.declared_metric, row) = slo.declared_metric
      <4> HIDE DEF row
      <4> QED
        BY <1>4, <2>2 DEF CountEach
    <3> QED
      BY <2>1, <3>1
  <2> HIDE DEF row
  <2> QED
    BY <1>1, <2>1, <2>2
<1>8. DOMAIN run = {k \in Metrics : B[k] # {}}
  <2>1. m \in Measurement
    BY MeasurementFields
  <2> HIDE DEF m, B
  <2> QED
    BY <1>3, <2>1, VerdictMeaning
<1>9. slo.spec # {} => B = The(slo.spec)
  BY DEF RunBounds
<1> HIDE DEF m, B, C, run, row, new, some, w
<1>10. /\ Number(recs, Held(slo)) \in Nat /\ Number(recs, KeptAll(slo)) \in Nat
       /\ r \in Held(slo) => Number(more, Held(slo)) = Number(recs, Held(slo)) + 1
       /\ r \notin Held(slo) => Number(more, Held(slo)) = Number(recs, Held(slo))
       /\ r \in KeptAll(slo) => Number(more, KeptAll(slo)) = Number(recs, KeptAll(slo)) + 1
       /\ r \notin KeptAll(slo) => Number(more, KeptAll(slo)) = Number(recs, KeptAll(slo))
  BY NumberGrows
<1>11. Held(new) = Held(slo) /\ KeptAll(new) = KeptAll(slo)
  BY <1>1 DEF Held, KeptAll, Obligations
<1>12. /\ w \in Verdicts /\ (w = "attained" <=> Met(run) /\ Met(row))
       /\ (w = "attained" \/ w = "violated")
  BY DEF w, Verdicts
<1>13. /\ Count(slo.all, w).evaluated = slo.all.evaluated + 1
       /\ w = "attained" => Count(slo.all, w).attained = slo.all.attained + 1
       /\ w = "violated" => Count(slo.all, w).attained = slo.all.attained
  BY <1>4, <1>12, CountFields
<1>14. new.all.evaluated = Number(more, Held(new))
  BY <1>1, <1>2, <1>5, <1>10, <1>11, <1>13
<1>15. new.all.attained = Number(more, KeptAll(new))
  BY <1>1, <1>2, <1>5, <1>10, <1>11, <1>12, <1>13
<1>16. new.declared.attained <= new.declared.evaluated
  <2>1. slo.declared.attained \in Nat /\ slo.declared.evaluated \in Nat
    BY <1>4 DEF Counts
  <2>2. ASSUME NEW v \in Verdicts
        PROVE  Count(slo.declared, v).attained <= Count(slo.declared, v).evaluated
    <3>1. /\ Count(slo.declared, v).evaluated = slo.declared.evaluated + 1
          /\ \/ Count(slo.declared, v).attained = slo.declared.attained + 1
             \/ Count(slo.declared, v).attained = slo.declared.attained
      BY <1>4, CountFields DEF Verdicts
    <3> QED
      BY <1>5, <2>1, <3>1
  <2> QED
    BY <1>1, <1>5, <2>2
<1>17. ASSUME new.spec # {}, NEW k \in Metrics, The(new.spec)[k] # {}
       PROVE  new.all.attained <= new.metric[k].attained
  <2>1. slo.all.attained <= slo.metric[k].attained /\ k \in DOMAIN run
    BY <1>1, <1>5, <1>8, <1>9, <1>17
  <2>2. /\ slo.all.attained \in Nat /\ slo.metric[k].attained \in Nat
        /\ new.metric[k] \in Counts /\ new.metric[k].attained \in Nat
        /\ new.metric[k].attained >= slo.metric[k].attained
    BY <1>1, <1>4, <1>6 DEF Counts, SloType
  <2>3. CASE some /\ w = "attained"
    <3>1. run[k] = "attained"
      BY <1>12, <2>1, <2>3 DEF Met
    <3>2. /\ new.metric[k].attained = slo.metric[k].attained + 1
          /\ new.all.attained = slo.all.attained + 1
      BY <1>1, <1>6, <1>13, <2>1, <2>3, <3>1
    <3> QED
      BY <2>1, <2>2, <3>2
  <2>4. CASE ~(some /\ w = "attained")
    <3>1. new.all.attained = slo.all.attained
      BY <1>1, <1>12, <1>13, <2>4
    <3> QED
      BY <2>1, <2>2, <3>1
  <2> QED
    BY <2>3, <2>4
<1>18. SloTells(new, more)
  BY <1>1, <1>6, <1>7, <1>14, <1>15, <1>16, <1>17 DEF SloTells
<1> QED
  BY <1>1, <1>18 DEF new, m

LEMMA CountsGrow ==
  ASSUME NEW f \in ReportType, NEW r \in Records, NEW recs, NEW at, NEW more,
         Grown(recs, at, r, more), CountsTell(f, recs)
  PROVE  CountsTell(AddPrefix(AddOutcome(f, r), r), more)
<1> DEFINE o == AddOutcome(f, r)
           g == AddPrefix(o, r)
           t == FirstOf(r.token_id, r.token)
<1>1. /\ o \in ReportType
      /\ o.attempted = f.attempted + 1
      /\ o.success = f.success + If(Succeeded(r), 1)
      /\ o.failed = f.failed + If(~Succeeded(r), 1)
      /\ o.id_steps = f.id_steps + If(r.token_id # {}, 1)
      /\ o.text_steps = f.text_steps + If(r.token_id = {} /\ r.token # {}, 1)
      /\ o.ttfts = PushAll(f.ttfts, t)
      /\ o.planned = f.planned /\ o.measured = f.measured
  BY OutcomeFields
<1> HIDE DEF o
<1>2. /\ g \in ReportType /\ g.planned.prefix = o.planned.prefix + r.prefix
      /\ r.usage = {} => g.measured = o.measured
      /\ r.usage # {} => /\ g.measured.steps = o.measured.steps + 1
                         /\ g.measured.planned = o.measured.planned + r.prefix
      /\ \A field \in DOMAIN o \ {"planned", "measured"} : g[field] = o[field]
  BY <1>1, PrefixFields
<1> HIDE DEF g
<1>3. /\ g.attempted = o.attempted /\ g.success = o.success /\ g.failed = o.failed
      /\ g.id_steps = o.id_steps /\ g.text_steps = o.text_steps /\ g.ttfts = o.ttfts
  BY <1>1, <1>2 DEF ReportType
<1>4. /\ f.attempted \in Nat /\ f.success \in Nat /\ f.failed \in Nat /\ f.id_steps \in Nat
      /\ f.text_steps \in Nat /\ f.measured.steps \in Nat /\ f.measured.planned \in Nat
      /\ f.planned.prefix \in Nat /\ f.ttfts \in Seq(Nat) /\ r.prefix \in Nat
  BY DEF ReportType, Records
<1>5. /\ f.attempted = Cardinality(DOMAIN recs) /\ f.success + f.failed = f.attempted
      /\ f.success = Number(recs, Successes) /\ f.id_steps + f.text_steps = Len(f.ttfts)
      /\ f.measured.steps = Number(recs, WithUsage) /\ f.measured.steps <= f.attempted
      /\ f.measured.steps = f.attempted => f.measured.planned = f.planned.prefix
  BY DEF CountsTell
<1>6. g.attempted = Cardinality(DOMAIN more)
  <2>1. Cardinality(DOMAIN more) = Cardinality(DOMAIN recs) + 1
    BY FS_AddElement DEF Grown
  <2> QED
    BY <1>1, <1>3, <1>5, <2>1
<1>7. g.success + g.failed = g.attempted /\ g.success = Number(more, Successes)
  <2>1. r \in Successes <=> Succeeded(r)
    BY DEF Successes
  <2>2. /\ r \in Successes => Number(more, Successes) = Number(recs, Successes) + 1
        /\ r \notin Successes => Number(more, Successes) = Number(recs, Successes)
    BY NumberGrows
  <2>3. CASE Succeeded(r)
    <3>1. g.success = f.success + 1 /\ g.failed = f.failed + 0 /\ g.attempted = f.attempted + 1
      BY <1>1, <1>3, <2>3 DEF If
    <3> QED
      BY <1>4, <1>5, <2>1, <2>2, <2>3, <3>1
  <2>4. CASE ~Succeeded(r)
    <3>1. g.success = f.success + 0 /\ g.failed = f.failed + 1 /\ g.attempted = f.attempted + 1
      BY <1>1, <1>3, <2>4 DEF If
    <3> QED
      BY <1>4, <1>5, <2>1, <2>2, <2>4, <3>1
  <2> QED
    BY <2>3, <2>4
<1>8. g.id_steps + g.text_steps = Len(g.ttfts)
  <2>1. t \in Option(Nat) /\ (t = {} <=> r.token_id = {} /\ r.token = {})
    BY DEF FirstOf, Records
  <2> HIDE DEF t
  <2>2. /\ t = {} => g.ttfts = f.ttfts
        /\ t # {} => Len(g.ttfts) = Len(f.ttfts) + 1
    <3>1. g.ttfts = PushAll(f.ttfts, t)
      BY <1>1, <1>3
    <3>2. /\ t = {} => PushAll(f.ttfts, t) = f.ttfts
          /\ t # {} => Len(PushAll(f.ttfts, t)) = Len(f.ttfts) + 1
      BY <1>4, <2>1, PushAllTypes
    <3> QED
      BY <3>1, <3>2, Zenon
  <2>3. g.id_steps = f.id_steps + (IF r.token_id # {} THEN 1 ELSE 0)
    BY <1>1, <1>3 DEF If
  <2>4. g.text_steps = f.text_steps + (IF r.token_id = {} /\ r.token # {} THEN 1 ELSE 0)
    BY <1>1, <1>3 DEF If
  <2>5. Len(f.ttfts) \in Nat
    BY <1>4
  <2> DEFINE l == Len(f.ttfts)
             n == Len(g.ttfts)
  <2>5a. l \in Nat /\ f.id_steps + f.text_steps = l /\ (t # {} => n = l + 1)
    BY <1>5, <2>2, <2>5
  <2> HIDE DEF l, n
  <2>6. CASE t = {}
    <3>1. g.id_steps = f.id_steps + 0 /\ g.text_steps = f.text_steps + 0
      BY <2>1, <2>3, <2>4, <2>6
    <3> QED
      BY <1>4, <1>5, <2>2, <2>6, <3>1
  <2>7. CASE t # {}
    <3>1. \/ g.id_steps = f.id_steps + 1 /\ g.text_steps = f.text_steps + 0
          \/ g.id_steps = f.id_steps + 0 /\ g.text_steps = f.text_steps + 1
      BY <2>1, <2>3, <2>4, <2>7
    <3>2. g.id_steps + g.text_steps = n
      BY <1>4, <2>5a, <2>7, <3>1
    <3> QED
      BY <3>2 DEF n
  <2> QED
    BY <2>6, <2>7
<1>9. r \in WithUsage <=> r.usage # {}
  BY DEF WithUsage
<1>10. /\ r \in WithUsage => Number(more, WithUsage) = Number(recs, WithUsage) + 1
       /\ r \notin WithUsage => Number(more, WithUsage) = Number(recs, WithUsage)
  BY NumberGrows
<1>11. /\ g.measured.steps = Number(more, WithUsage) /\ g.measured.steps <= g.attempted
       /\ g.measured.steps = g.attempted => g.measured.planned = g.planned.prefix
  <2>1. CASE r.usage # {}
    <3>1. /\ g.measured.steps = f.measured.steps + 1
          /\ g.measured.planned = f.measured.planned + r.prefix
          /\ g.planned.prefix = f.planned.prefix + r.prefix
          /\ g.attempted = f.attempted + 1
      BY <1>1, <1>2, <1>3, <2>1
    <3> QED
      BY <1>4, <1>5, <1>9, <1>10, <2>1, <3>1
  <2>2. CASE r.usage = {}
    <3>1. g.measured.steps = f.measured.steps /\ g.attempted = f.attempted + 1
      BY <1>1, <1>2, <1>3, <2>2
    <3> QED
      BY <1>4, <1>5, <1>9, <1>10, <2>2, <3>1
  <2> QED
    BY <2>1, <2>2
<1>12. CountsTell(g, more)
  BY <1>6, <1>7, <1>8, <1>11 DEF CountsTell
<1> QED
  BY <1>12 DEF g, o

LEMMA InstantsGrow ==
  ASSUME NEW f \in ReportType, NEW r \in Records, NEW recs, NEW at, NEW more,
         \A x \in DOMAIN recs : recs[x] \in Records,
         Grown(recs, at, r, more), InstantsTell(f, recs)
  PROVE  InstantsTell(AddPrefix(AddOutcome(f, r), r), more)
<1> DEFINE o == AddOutcome(f, r)
           g == AddPrefix(o, r)
<1>1. /\ o \in ReportType
      /\ o.first_submit = IF f.first_submit = {} \/ r.submit < The(f.first_submit)
                            THEN {r.submit} ELSE f.first_submit
      /\ o.last_complete = IF f.last_complete = {} \/ r.complete > The(f.last_complete)
                             THEN {r.complete} ELSE f.last_complete
  BY OutcomeFields
<1> HIDE DEF o
<1>2. \A field \in DOMAIN o \ {"planned", "measured"} : g[field] = o[field]
  BY <1>1, PrefixFields
<1> HIDE DEF g
<1>3. g.first_submit = o.first_submit /\ g.last_complete = o.last_complete
  BY <1>1, <1>2 DEF ReportType
<1>4. /\ DOMAIN more = DOMAIN recs \cup {at} /\ at \notin DOMAIN recs /\ more[at] = r
      /\ \A x \in DOMAIN recs : more[x] = recs[x]
  BY DEF Grown
<1>5. r.submit \in Nat /\ r.complete \in Nat
  BY DEF Records
<1>6. \A x \in DOMAIN recs : recs[x].submit \in Nat /\ recs[x].complete \in Nat
  BY DEF Records
<1>7. /\ f.first_submit = {} <=> DOMAIN recs = {}
      /\ f.last_complete = {} <=> DOMAIN recs = {}
  BY DEF InstantsTell
<1>8. \E a \in DOMAIN more : g.first_submit = {more[a].submit} /\ Earliest(more, a)
  <2>1. CASE f.first_submit = {}
    <3>1. DOMAIN more = {at} /\ g.first_submit = {r.submit}
      BY <1>1, <1>3, <1>4, <1>7, <2>1
    <3> QED
      BY <1>4, <1>5, <3>1 DEF Earliest
  <2>2. CASE f.first_submit # {}
    <3>1. PICK a \in DOMAIN recs : f.first_submit = {recs[a].submit} /\ Earliest(recs, a)
      BY <1>7, <2>2 DEF InstantsTell
    <3>2. The(f.first_submit) = recs[a].submit
      BY <3>1 DEF The
    <3>3. CASE r.submit < recs[a].submit
      <4>1. g.first_submit = {more[at].submit}
        BY <1>1, <1>3, <1>4, <3>2, <3>3
      <4>2. Earliest(more, at)
        BY <1>4, <1>5, <1>6, <3>1, <3>3 DEF Earliest
      <4> QED
        BY <1>4, <4>1, <4>2
    <3>4. CASE ~(r.submit < recs[a].submit)
      <4>1. g.first_submit = {more[a].submit}
        BY <1>1, <1>3, <1>4, <2>2, <3>1, <3>2, <3>4
      <4>2. Earliest(more, a)
        BY <1>4, <1>5, <1>6, <3>1, <3>4 DEF Earliest
      <4> QED
        BY <1>4, <4>1, <4>2
    <3> QED
      BY <3>3, <3>4
  <2> QED
    BY <2>1, <2>2
<1>9. \E b \in DOMAIN more : g.last_complete = {more[b].complete} /\ Latest(more, b)
  <2>1. CASE f.last_complete = {}
    <3>1. DOMAIN more = {at} /\ g.last_complete = {r.complete}
      BY <1>1, <1>3, <1>4, <1>7, <2>1
    <3> QED
      BY <1>4, <1>5, <3>1 DEF Latest
  <2>2. CASE f.last_complete # {}
    <3>1. PICK b \in DOMAIN recs : f.last_complete = {recs[b].complete} /\ Latest(recs, b)
      BY <1>7, <2>2 DEF InstantsTell
    <3>2. The(f.last_complete) = recs[b].complete
      BY <3>1 DEF The
    <3>3. CASE r.complete > recs[b].complete
      <4>1. g.last_complete = {more[at].complete}
        BY <1>1, <1>3, <1>4, <3>2, <3>3
      <4>2. Latest(more, at)
        BY <1>4, <1>5, <1>6, <3>1, <3>3 DEF Latest
      <4> QED
        BY <1>4, <4>1, <4>2
    <3>4. CASE ~(r.complete > recs[b].complete)
      <4>1. g.last_complete = {more[b].complete}
        BY <1>1, <1>3, <1>4, <2>2, <3>1, <3>2, <3>4
      <4>2. Latest(more, b)
        BY <1>4, <1>5, <1>6, <3>1, <3>4 DEF Latest
      <4> QED
        BY <1>4, <4>1, <4>2
    <3> QED
      BY <3>3, <3>4
  <2> QED
    BY <2>1, <2>2
<1>10. InstantsTell(g, more)
  BY <1>4, <1>8, <1>9 DEF InstantsTell
<1> QED
  BY <1>10 DEF g, o

\* Whatever the record and whenever it comes: the report tells of one record more.
THEOREM RecordIsTold ==
  ASSUME NEW f \in ReportType, NEW r \in Records, NEW recs, NEW at, NEW more,
         \A x \in DOMAIN recs : recs[x] \in Records,
         Grown(recs, at, r, more), Tells(f, recs)
  PROVE  AddRecord(f, r) \in ReportType /\ Tells(AddRecord(f, r), more)
<1> DEFINE o == AddOutcome(f, r)
           p == AddPrefix(o, r)
           g == AddRecord(f, r)
           new == {Add(slo, MeasurementOf(r)) : slo \in p.slo}
<1>1. CountsTell(p, more) /\ InstantsTell(p, more)
  BY CountsGrow, InstantsGrow DEF Tells
<1>2. p \in ReportType /\ p.slo = f.slo
  <2>1. o \in ReportType /\ o.slo = f.slo
    BY OutcomeFields
  <2> HIDE DEF o
  <2>2. p \in ReportType /\ \A field \in DOMAIN o \ {"planned", "measured"} : p[field] = o[field]
    BY <2>1, PrefixFields
  <2> HIDE DEF p
  <2> QED
    BY <2>1, <2>2 DEF ReportType
<1>3. g = [p EXCEPT !.slo = new]
  BY Zenon DEF AddRecord, AddSlo
<1> HIDE DEF o, p, g
<1>4. \A s \in new : s \in SloType /\ SloTells(s, more)
  <2>1. \A slo \in p.slo : slo \in SloType /\ SloTells(slo, recs)
    BY <1>2 DEF ReportType, Tells
  <2>2. ASSUME NEW slo \in p.slo
        PROVE  /\ Add(slo, MeasurementOf(r)) \in SloType
               /\ SloTells(Add(slo, MeasurementOf(r)), more)
    BY <2>1, SloGrows
  <2> QED
    BY <2>2
<1> HIDE DEF new
<1>5. g \in ReportType /\ g.slo = new /\ \A field \in DOMAIN p \ {"slo"} : g[field] = p[field]
  BY <1>2, <1>3, <1>4 DEF ReportType
<1>6. /\ g.attempted = p.attempted /\ g.success = p.success /\ g.failed = p.failed
      /\ g.id_steps = p.id_steps /\ g.text_steps = p.text_steps /\ g.ttfts = p.ttfts
      /\ g.measured = p.measured /\ g.planned = p.planned
      /\ g.first_submit = p.first_submit /\ g.last_complete = p.last_complete
  BY <1>2, <1>5 DEF ReportType
<1>7. CountsTell(g, more) /\ InstantsTell(g, more)
  BY <1>1, <1>6 DEF CountsTell, InstantsTell
<1>8. Tells(g, more)
  BY <1>4, <1>5, <1>7 DEF Tells
<1> QED
  BY <1>5, <1>8 DEF g

-----------------------------------------------------------------------------
(* The inductive invariant. *)

Fields == {"pc", "units", "scale", "done", "seeds", "report", "exit", "summary"}

\* The steps of a shard that are recorded, and what is recorded of them.
Steps(s) == UNION {{<<i, n>> : n \in 1 .. s.done[i]} : i \in DOMAIN s.units}
RecordsOf(s) == [at \in Steps(s) |-> s.units[at[1]].unit.steps[at[2]]]

AllDone(s) == \A i \in DOMAIN s.units : s.done[i] = Len(s.units[i].unit.steps)

\* A run that has loaded nothing.
Fresh(s) ==
  /\ s.pc \in {"unborn", "born", "exited"} /\ s.exit # {0}
  /\ s.units = <<>> /\ s.done = <<>> /\ s.seeds = {} /\ s.summary = {}

\* The ordinals that the units of a shard started under, with their places.
Seeds(k, units, done) ==
  {<<OrdinalOf(i, k), units[i].place>> : i \in {j \in DOMAIN units : done[j] > 0}}

\* Of what has been done of the units, the seeds and the report tell.
Progress(k, s) ==
  /\ s.done \in [DOMAIN s.units -> Nat]
  /\ \A i \in DOMAIN s.units : s.done[i] <= Len(s.units[i].unit.steps)
  /\ s.seeds = Seeds(k, s.units, s.done)
  /\ IsFiniteSet(Steps(s))
  /\ Tells(s.report, RecordsOf(s))

Working(k, s) ==
  /\ s.pc \in {"running", "writing", "exited"}
  /\ s.units = Mine(k) /\ s.scale = Scale(Workload)
  /\ Progress(k, s)
  /\ launch.dry_run => s.pc # "running" /\ \A i \in DOMAIN s.units : s.done[i] = 0
  /\ s.pc = "writing" \/ s.exit = {0} => launch.dry_run \/ AllDone(s)
  /\ s.summary = IF s.exit = {0} THEN {Finalize(s.report)} ELSE {}

ShardInv(k, s) ==
  /\ DOMAIN s = Fields /\ s.report \in ReportType
  /\ s.exit \in {{}, {0}, {1}} /\ (s.pc = "exited" <=> s.exit # {})
  /\ Fresh(s) \/ Working(k, s)

LauncherInv ==
  /\ launcher \in {"spawning", "waiting", "done", "failed", "crashed"}
  /\ next \in 0 .. launch.processes
  /\ launcher = "spawning" =>
       /\ codes = <<>>
       /\ \A k \in Indices : k >= next <=> shards[k].pc = "unborn"
  /\ launcher = "waiting" =>
       /\ \A k \in Indices : shards[k].pc # "unborn"
       /\ codes \in Seq({0, 1}) /\ Len(codes) = next
       /\ \A k \in Indices : k < next => shards[k].exit = {codes[k + 1]}
  /\ launcher = "done" =>
       /\ \A k \in Indices : Exited(k)
       /\ launch.processes > 1 /\ ~launch.by_hand => aggregate # {}
  /\ launcher = "failed" => \E k \in Indices : shards[k].exit = {1}
  /\ launcher = "crashed" /\ codes # <<>> =>
       \E k \in Indices : Exited(k) /\ The(shards[k].summary).throughput = {}
  /\ aggregate # {} => /\ launcher = "done" /\ aggregate = {Sum(Indices)}
                       /\ Unaddable(Indices) = {}

ShardsInv ==
  /\ trace \in Traces /\ launch \in Launches
  /\ shards = [k \in Indices |-> shards[k]]
  /\ \A k \in Indices : ShardInv(k, shards[k])
  /\ LauncherInv

LEMMA EmptyReportTells ==
  ASSUME launch \in Launches, NEW recs, DOMAIN recs = {}
  PROVE  LET f == EmptyReport(NewSlo(Resolved(launch.flag, launch.sidecar), launch.tag))
         IN  f \in ReportType /\ Tells(f, recs)
<1> DEFINE objective == Resolved(launch.flag, launch.sidecar)
           slo == NewSlo(objective, launch.tag)
           f == EmptyReport(slo)
           new == [spec |-> objective, all |-> NoCounts, metric |-> [k \in Metrics |-> NoCounts],
                   rows |-> launch.tag, declared |-> NoCounts,
                   declared_metric |-> [k \in Metrics |-> NoCounts]]
<1>1. objective \in Option(Bounds) /\ launch.tag \in BOOLEAN
  BY LaunchTypes DEF Resolved
<1> HIDE DEF objective
<1>2. NoCounts \in Counts
  BY DEF NoCounts, Counts
<1>3. new \in SloType
  <2>1. [k \in Metrics |-> NoCounts] \in [Metrics -> Counts]
    BY <1>2
  <2> QED
    BY <1>1, <1>2, <2>1 DEF SloType
<1>4. slo \subseteq {new}
  BY DEF NewSlo
<1>5. /\ new.all = NoCounts /\ new.declared = NoCounts
      /\ \A k \in Metrics : new.metric[k] = NoCounts /\ new.declared_metric[k] = NoCounts
  OBVIOUS
<1> HIDE DEF slo, new
<1>6. \A A : Number(recs, A) = 0
  <2>1. \A A : {at \in DOMAIN recs : recs[at] \in A} = {}
    OBVIOUS
  <2> QED
    BY <2>1, FS_EmptySet DEF Number
<1>7. SloTells(new, recs)
  <2>1. /\ NoCounts.evaluated = 0 /\ NoCounts.attained = 0 /\ NoCounts.violated = 0
        /\ NoCounts.unmeasured = 0
    BY DEF NoCounts
  <2>2. \A k \in Metrics : MetricTells(NoCounts, recs, k)
    BY <1>6, <2>1 DEF MetricTells
  <2> QED
    BY <1>5, <1>6, <2>1, <2>2 DEF SloTells
<1>8. /\ f.attempted = 0 /\ f.success = 0 /\ f.failed = 0 /\ f.id_steps = 0 /\ f.text_steps = 0
      /\ f.ttfts = <<>> /\ f.measured.steps = 0 /\ f.measured.planned = 0
      /\ f.planned.prefix = 0 /\ f.first_submit = {} /\ f.last_complete = {} /\ f.slo = slo
  BY DEF EmptyReport
<1>9. f \in ReportType
  <2>1. {} \in Option(Nat)
    BY DEF Option
  <2>2. <<>> \in Seq(Nat) /\ <<>> \in Seq(Nat \X Nat)
    OBVIOUS
  <2>3. slo \in SUBSET SloType
    BY <1>3, <1>4
  <2> QED
    BY <2>1, <2>2, <2>3 DEF EmptyReport, ReportType
<1>10. CountsTell(f, recs)
  <2>1. Cardinality(DOMAIN recs) = 0 /\ Len(<<>>) = 0
    BY FS_EmptySet
  <2> HIDE DEF f
  <2> QED
    BY <1>6, <1>8, <2>1 DEF CountsTell
<1>11. InstantsTell(f, recs)
  BY <1>8 DEF InstantsTell
<1>12. \A s \in f.slo : SloTells(s, recs)
  BY <1>4, <1>7, <1>8
<1> HIDE DEF f
<1>13. f \in ReportType /\ Tells(f, recs)
  BY <1>9, <1>10, <1>11, <1>12 DEF Tells
<1> QED
  BY <1>13 DEF f, slo, objective

\* Loading.
LEMMA LoadedIsShard ==
  ASSUME trace \in Traces, launch \in Launches, NEW k \in Indices
  PROVE  ShardInv(k, Loaded(k)) /\ Loaded(k).pc # "unborn"
<1> DEFINE s == Loaded(k)
           f == EmptyReport(NewSlo(Resolved(launch.flag, launch.sidecar), launch.tag))
<1>1. s = [pc |-> IF launch.dry_run THEN "writing" ELSE "running",
           units |-> Mine(k), scale |-> Scale(Workload), done |-> [i \in DOMAIN Mine(k) |-> 0],
           seeds |-> {}, report |-> f, exit |-> {}, summary |-> {}]
  BY DEF Loaded, Mine
<1> HIDE DEF s, f
<1>2. /\ DOMAIN s = Fields /\ s.units = Mine(k) /\ s.scale = Scale(Workload)
      /\ s.done = [i \in DOMAIN Mine(k) |-> 0] /\ s.seeds = {} /\ s.report = f /\ s.exit = {}
      /\ s.summary = {} /\ s.pc = IF launch.dry_run THEN "writing" ELSE "running"
  BY <1>1 DEF Fields
<1>3. \A i \in DOMAIN s.units : s.done[i] = 0
  BY <1>2
<1>4. Steps(s) = {}
  <2>1. 1 .. 0 = {}
    OBVIOUS
  <2> QED
    BY <1>3, <2>1 DEF Steps
<1>5. DOMAIN RecordsOf(s) = {}
  BY <1>4 DEF RecordsOf
<1>6. s.report \in ReportType /\ Tells(s.report, RecordsOf(s))
  <2>1. f \in ReportType /\ Tells(f, RecordsOf(s))
    BY <1>5, EmptyReportTells DEF f
  <2> QED
    BY <1>2, <2>1
<1>7. \A i \in DOMAIN s.units : s.done[i] <= Len(s.units[i].unit.steps)
  <2>1. \A i \in DOMAIN s.units : s.units[i].unit \in Units
    BY <1>2, MineItems
  <2>2. \A u \in Units : Len(u.steps) \in Nat
    BY DEF Units
  <2> QED
    BY <1>3, <2>1, <2>2
<1>8. s.done \in [DOMAIN s.units -> Nat]
  BY <1>2
<1>9. s.seeds = Seeds(k, s.units, s.done)
  BY <1>2, <1>3 DEF Seeds
<1>10. Progress(k, s)
  BY <1>4, <1>6, <1>7, <1>8, <1>9, FS_EmptySet DEF Progress
<1>11. launch.dry_run \in BOOLEAN
  BY LaunchTypes
<1>12. ShardInv(k, s) /\ s.pc # "unborn"
  BY <1>2, <1>3, <1>6, <1>10, <1>11 DEF ShardInv, Working
<1> QED
  BY <1>12 DEF s

LEMMA DeadIsShard ==
  ASSUME NEW k, NEW s, ShardInv(k, s), s.pc \in {"born", "running", "writing"}
  PROVE  ShardInv(k, Dead(s)) /\ Dead(s).pc # "unborn"
<1> DEFINE t == Dead(s)
<1>1. /\ DOMAIN t = Fields /\ t.pc = "exited" /\ t.exit = {1}
      /\ t.units = s.units /\ t.scale = s.scale /\ t.done = s.done /\ t.seeds = s.seeds
      /\ t.report = s.report /\ t.summary = s.summary
  BY DEF Dead, ShardInv, Fields
<1> HIDE DEF t
<1>2. Steps(t) = Steps(s) /\ RecordsOf(t) = RecordsOf(s)
  BY <1>1 DEF Steps, RecordsOf
<1>3. s.exit = {}
  BY DEF ShardInv
<1>4. {0} # {1} /\ {} # {0} /\ {} # {1}
  <2>1. 0 \in {0} /\ 0 \notin {1} /\ 0 \notin {} /\ 1 \in {1} /\ 1 \notin {}
    OBVIOUS
  <2> QED
    BY <2>1
<1>5. CASE Fresh(s)
  <2>1. Fresh(t)
    BY <1>1, <1>4, <1>5 DEF Fresh
  <2> QED
    BY <1>1, <1>4, <2>1 DEF ShardInv, t
<1>6. CASE Working(k, s)
  <2>1. Progress(k, t)
    BY <1>1, <1>2, <1>6 DEF Working, Progress
  <2>2. Working(k, t)
    BY <1>1, <1>3, <1>4, <1>6, <2>1 DEF Working
  <2> QED
    BY <1>1, <1>4, <2>2 DEF ShardInv, t
<1> QED
  BY <1>5, <1>6 DEF ShardInv

-----------------------------------------------------------------------------
(* The steps of one run. *)

LEMMA SeedsGrow ==
  ASSUME NEW k, NEW units, NEW done \in [DOMAIN units -> Nat], NEW i \in DOMAIN units
  PROVE  Seeds(k, units, [done EXCEPT ![i] = done[i] + 1])
           = Seeds(k, units, done) \cup {<<GlobalShardOrdinal(i - 1, k), units[i].place>>}
<1> DEFINE more == [done EXCEPT ![i] = done[i] + 1]
           S == {j \in DOMAIN units : done[j] > 0}
           T == {j \in DOMAIN units : more[j] > 0}
<1>1. T = S \cup {i}
  OBVIOUS
<1>2. GlobalShardOrdinal(i - 1, k) = OrdinalOf(i, k)
  BY DEF GlobalShardOrdinal, OrdinalOf
<1> HIDE DEF S, T
<1>3. {<<OrdinalOf(j, k), units[j].place>> : j \in T}
        = {<<OrdinalOf(j, k), units[j].place>> : j \in S} \cup {<<OrdinalOf(i, k), units[i].place>>}
  BY <1>1
<1> QED
  BY <1>2, <1>3, Zenon DEF Seeds, S, T, more

LEMMA RecordIsShard ==
  ASSUME trace \in Traces, launch \in Launches, NEW k \in Indices,
         NEW s, ShardInv(k, s), s.pc = "running", NEW i \in DOMAIN s.units,
         s.done[i] < Len(s.units[i].unit.steps),
         NEW t,
         t = [s EXCEPT !.report = AddRecord(s.report, s.units[i].unit.steps[s.done[i] + 1]),
                       !.done[i] = s.done[i] + 1,
                       !.seeds = s.seeds \cup {<<GlobalShardOrdinal(i - 1, k), s.units[i].place>>}]
  PROVE  ShardInv(k, t) /\ t.pc = "running"
<1> DEFINE n == s.done[i]
           r == s.units[i].unit.steps[n + 1]
           D == DOMAIN s.units
<1>1. Working(k, s)
  BY DEF ShardInv, Fresh
<1>2. /\ DOMAIN s = Fields /\ s.report \in ReportType /\ s.exit = {} /\ Progress(k, s)
      /\ s.units = Mine(k) /\ s.scale = Scale(Workload) /\ ~launch.dry_run
      /\ s.summary = {}
  <2>1. launch.dry_run \in BOOLEAN /\ {} # {0}
    BY LaunchTypes
  <2> QED
    BY <1>1, <2>1 DEF ShardInv, Working
<1>3. /\ s.done \in [D -> Nat] /\ n \in Nat
      /\ \A j \in D : s.done[j] <= Len(s.units[j].unit.steps)
      /\ s.seeds = Seeds(k, s.units, s.done)
      /\ IsFiniteSet(Steps(s)) /\ Tells(s.report, RecordsOf(s))
  BY <1>2, Zenon DEF Progress
<1>4. /\ t.pc = "running" /\ DOMAIN t = Fields /\ t.units = s.units /\ t.scale = s.scale
      /\ t.exit = {} /\ t.summary = {} /\ t.report = AddRecord(s.report, r)
      /\ t.done = [s.done EXCEPT ![i] = n + 1]
      /\ t.seeds = s.seeds \cup {<<GlobalShardOrdinal(i - 1, k), s.units[i].place>>}
  BY <1>2 DEF Fields
<1>5. /\ t.done \in [D -> Nat] /\ t.done[i] = n + 1
      /\ \A j \in D : j # i => t.done[j] = s.done[j]
  BY <1>3, <1>4
<1>6. \A j \in D : s.units[j].unit \in Units
  BY <1>2, MineItems
<1>7. /\ \A j \in D : /\ s.units[j].unit.steps \in Seq(Records)
                      /\ Len(s.units[j].unit.steps) \in Nat
                      /\ DOMAIN s.units[j].unit.steps = 1 .. Len(s.units[j].unit.steps)
                      /\ \A m \in 1 .. Len(s.units[j].unit.steps) :
                           s.units[j].unit.steps[m] \in Records
  <2>1. \A u \in Units : u.steps \in Seq(Records)
    BY DEF Units
  <2> QED
    BY <1>6, <2>1
<1>8. r \in Records
  BY <1>3, <1>7
<1> HIDE DEF n, r, D
<1>9. \A j \in D : t.done[j] <= Len(t.units[j].unit.steps)
  <2>1. n + 1 <= Len(s.units[i].unit.steps)
    BY <1>3, <1>7 DEF n, D
  <2> QED
    BY <1>3, <1>4, <1>5, <2>1
<1>10. t.seeds = Seeds(k, t.units, t.done)
  <2>1. Seeds(k, s.units, [s.done EXCEPT ![i] = s.done[i] + 1])
          = Seeds(k, s.units, s.done)
              \cup {<<GlobalShardOrdinal(i - 1, k), s.units[i].place>>}
    BY <1>3, SeedsGrow DEF D
  <2>2. t.done = [s.done EXCEPT ![i] = s.done[i] + 1]
    BY <1>4 DEF n
  <2> QED
    BY <1>3, <1>4, <2>1, <2>2
<1> DEFINE at == <<i, n + 1>>
<1>11. Steps(t) = Steps(s) \cup {at} /\ at \notin Steps(s)
  <2>1. 1 .. n + 1 = (1 .. n) \cup {n + 1} /\ n + 1 \notin 1 .. n
    BY <1>3
  <2>2. Steps(s) = UNION {{<<j, m>> : m \in 1 .. s.done[j]} : j \in D}
    BY DEF Steps, D
  <2>3. Steps(t) = UNION {{<<j, m>> : m \in 1 .. t.done[j]} : j \in D}
    BY <1>4 DEF Steps, D
  <2>4. \A j, m : <<j, m>> \in Steps(s) <=> j \in D /\ m \in 1 .. s.done[j]
    BY <2>2
  <2>5. \A j, m : <<j, m>> \in Steps(t) <=> j \in D /\ m \in 1 .. t.done[j]
    BY <2>3
  <2>6. \A x \in Steps(s) \cup Steps(t) : \E j, m : x = <<j, m>>
    BY <2>2, <2>3
  <2>7. i \in D /\ s.done[i] = n
    BY DEF D, n
  <2>8. \A j, m : <<j, m>> \in Steps(t) <=> <<j, m>> \in Steps(s) \/ <<j, m>> = at
    BY <1>5, <2>1, <2>4, <2>5, <2>7
  <2>9. at \notin Steps(s)
    BY <2>1, <2>4, <2>7
  <2>10. \A x : x \in Steps(t) <=> x \in Steps(s) \/ x = at
    <3> HIDE DEF at
    <3>1. at = <<i, n + 1>>
      BY DEF at
    <3> QED
      BY <2>6, <2>8, <3>1
  <2> QED
    BY <2>9, <2>10
<1>12. RecordsOf(t) = [x \in Steps(t) |-> s.units[x[1]].unit.steps[x[2]]]
  BY <1>4 DEF RecordsOf
<1>13. RecordsOf(s) = [x \in Steps(s) |-> s.units[x[1]].unit.steps[x[2]]]
  BY DEF RecordsOf
<1>14. RecordsOf(t)[at] = r
  <2>1. at[1] = i /\ at[2] = n + 1 /\ at \in Steps(t)
    BY <1>11
  <2> HIDE DEF at
  <2> QED
    BY <1>12, <2>1 DEF r
<1> HIDE DEF at
<1>15. Grown(RecordsOf(s), at, r, RecordsOf(t))
  <2>1. DOMAIN RecordsOf(s) = Steps(s) /\ DOMAIN RecordsOf(t) = Steps(t)
    BY <1>12, <1>13
  <2>2. \A x \in Steps(s) : RecordsOf(t)[x] = RecordsOf(s)[x]
    BY <1>11, <1>12, <1>13
  <2> QED
    BY <1>3, <1>11, <1>14, <2>1, <2>2 DEF Grown
<1>16. \A x \in DOMAIN RecordsOf(s) : RecordsOf(s)[x] \in Records
  <2> SUFFICES ASSUME NEW x \in Steps(s)  PROVE  RecordsOf(s)[x] \in Records
    BY <1>13
  <2>1. PICK j \in D : \E m \in 1 .. s.done[j] : x = <<j, m>>
    BY DEF Steps, D
  <2>2. PICK m \in 1 .. s.done[j] : x = <<j, m>>
    BY <2>1
  <2>3. x[1] = j /\ x[2] = m
    BY <2>2
  <2>4. m \in 1 .. Len(s.units[j].unit.steps)
    BY <1>3, <1>7
  <2> QED
    BY <1>7, <1>13, <2>3, <2>4
<1>17. t.report \in ReportType /\ Tells(t.report, RecordsOf(t))
  BY <1>2, <1>3, <1>4, <1>8, <1>15, <1>16, RecordIsTold
<1>18. IsFiniteSet(Steps(t))
  <2>1. IsFiniteSet(Steps(s))
    BY <1>3
  <2>2. IsFiniteSet(Steps(s) \cup {at})
    BY <2>1, FS_AddElement
  <2> QED
    BY <1>11, <2>2
<1>19. Progress(k, t)
  <2>2. t.done \in [DOMAIN t.units -> Nat]
    BY <1>4, <1>5, Zenon DEF D
  <2>3. \A j \in DOMAIN t.units : t.done[j] <= Len(t.units[j].unit.steps)
    BY <1>4, <1>9, Zenon DEF D
  <2> QED
    BY <1>10, <1>17, <1>18, <2>2, <2>3, Zenon DEF Progress
<1>20. Working(k, t)
  <2>1. {} # {0}
    OBVIOUS
  <2> QED
    BY <1>2, <1>4, <1>19, <2>1 DEF Working
<1>21. t.exit = {} /\ t.pc # "exited"
  BY <1>4
<1> QED
  BY <1>4, <1>17, <1>20, <1>21 DEF ShardInv

LEMMA FoldIsShard ==
  ASSUME NEW k, NEW s, ShardInv(k, s), s.pc = "running", AllDone(s)
  PROVE  LET t == [s EXCEPT !.pc = "writing"] IN ShardInv(k, t) /\ t.pc = "writing"
<1> DEFINE t == [s EXCEPT !.pc = "writing"]
<1>1. Working(k, s)
  BY DEF ShardInv, Fresh
<1>2. /\ DOMAIN t = Fields /\ t.pc = "writing" /\ t.exit = s.exit
      /\ t.units = s.units /\ t.scale = s.scale /\ t.done = s.done /\ t.seeds = s.seeds
      /\ t.report = s.report /\ t.summary = s.summary
  BY DEF ShardInv, Fields
<1> HIDE DEF t
<1>3. Steps(t) = Steps(s) /\ RecordsOf(t) = RecordsOf(s) /\ AllDone(t)
  BY <1>2 DEF Steps, RecordsOf, AllDone
<1>4. Progress(k, t)
  BY <1>1, <1>2, <1>3 DEF Working, Progress
<1>5. Working(k, t)
  BY <1>1, <1>2, <1>3, <1>4 DEF Working
<1>6. ShardInv(k, t) /\ t.pc = "writing"
  BY <1>2, <1>5 DEF ShardInv
<1> QED
  BY <1>6 DEF t

LEMMA WriteIsShard ==
  ASSUME NEW k, NEW s, ShardInv(k, s), s.pc = "writing",
         NEW t, t = [s EXCEPT !.pc = "exited", !.exit = {0}, !.summary = {Finalize(s.report)}]
  PROVE  ShardInv(k, t) /\ t.pc = "exited"
<1>1. Working(k, s)
  BY DEF ShardInv, Fresh
<1>2. /\ DOMAIN t = Fields /\ t.pc = "exited" /\ t.exit = {0}
      /\ t.units = s.units /\ t.scale = s.scale /\ t.done = s.done /\ t.seeds = s.seeds
      /\ t.report = s.report /\ t.summary = {Finalize(s.report)}
  BY DEF ShardInv, Fields
<1>3. Steps(t) = Steps(s) /\ RecordsOf(t) = RecordsOf(s) /\ (AllDone(t) <=> AllDone(s))
  BY <1>2 DEF Steps, RecordsOf, AllDone
<1>4. Progress(k, t)
  BY <1>1, <1>2, <1>3 DEF Working, Progress
<1>5. Working(k, t)
  BY <1>1, <1>2, <1>3, <1>4 DEF Working
<1>6. {0} # {}
  OBVIOUS
<1> QED
  BY <1>2, <1>5, <1>6 DEF ShardInv

\* A step of a run leaves the others alone, is one of a run that lives, and leaves
\* one that was started.
LEMMA RunIsShard ==
  ASSUME ShardsInv, NEW k \in Indices, Run(k)
  PROVE  /\ UNCHANGED <<trace, launch, launcher, next, codes, aggregate>>
         /\ shards' = [shards EXCEPT ![k] = shards'[k]]
         /\ shards[k].pc \in {"born", "running", "writing"}
         /\ ShardInv(k, shards'[k]) /\ shards'[k].pc # "unborn"
<1> DEFINE s == shards[k]
<1>0. ShardInv(k, s) /\ k \in DOMAIN shards /\ trace \in Traces /\ launch \in Launches
  BY DEF ShardsInv
<1>1. CASE Load(k)
  <2>1. /\ UNCHANGED <<trace, launch, launcher, next, codes, aggregate>> /\ s.pc = "born"
        /\ \/ shards' = [shards EXCEPT ![k] = Dead(s)]
           \/ shards' = [shards EXCEPT ![k] = Loaded(k)]
    BY <1>1 DEF Load
  <2>2. shards'[k] = Dead(s) \/ shards'[k] = Loaded(k)
    BY <1>0, <2>1
  <2> HIDE DEF s
  <2>3. ShardInv(k, shards'[k]) /\ shards'[k].pc # "unborn"
    BY <1>0, <2>1, <2>2, DeadIsShard, LoadedIsShard
  <2> QED
    BY <1>0, <2>1, <2>2, <2>3 DEF s
<1>2. CASE \E i \in DOMAIN s.units : Record(k, i)
  <2>1. PICK i \in DOMAIN s.units : Record(k, i)
    BY <1>2
  <2> DEFINE r == s.units[i].unit.steps[s.done[i] + 1]
             t == [s EXCEPT !.report = AddRecord(s.report, r),
                            !.done[i] = s.done[i] + 1,
                            !.seeds = s.seeds \cup
                                        {<<GlobalShardOrdinal(i - 1, k), s.units[i].place>>}]
  <2>2. /\ UNCHANGED <<trace, launch, launcher, next, codes, aggregate>> /\ s.pc = "running"
        /\ s.done[i] < Len(s.units[i].unit.steps)
    BY <2>1 DEF Record
  <2>3. DOMAIN s = Fields
    BY <1>0 DEF ShardInv
  <2>4. shards' = [shards EXCEPT ![k] = t]
    BY <1>0, <2>1, <2>3 DEF Record, Fields
  <2>5. shards'[k] = t
    BY <1>0, <2>4
  <2> HIDE DEF s
  <2>6. ShardInv(k, t) /\ t.pc = "running"
    BY <1>0, <2>2, RecordIsShard
  <2> QED
    BY <2>2, <2>4, <2>5, <2>6 DEF s
<1>3. CASE Fold(k)
  <2> DEFINE t == [s EXCEPT !.pc = "writing"]
  <2>1. /\ UNCHANGED <<trace, launch, launcher, next, codes, aggregate>> /\ s.pc = "running"
        /\ AllDone(s) /\ shards' = [shards EXCEPT ![k] = t]
    BY <1>0, <1>3 DEF Fold, AllDone
  <2>2. shards'[k] = t
    BY <1>0, <2>1
  <2> HIDE DEF s
  <2>3. ShardInv(k, t) /\ t.pc = "writing"
    BY <1>0, <2>1, FoldIsShard
  <2> QED
    BY <2>1, <2>2, <2>3 DEF s
<1>4. CASE WriteSummary(k)
  <2> DEFINE t == [s EXCEPT !.pc = "exited", !.exit = {0}, !.summary = {Finalize(s.report)}]
  <2>1. /\ UNCHANGED <<trace, launch, launcher, next, codes, aggregate>> /\ s.pc = "writing"
    BY <1>4 DEF WriteSummary
  <2>2. shards' = [shards EXCEPT ![k] = t]
    BY <1>0, <1>4 DEF WriteSummary, ShardInv, Fields
  <2>3. shards'[k] = t
    BY <1>0, <2>2
  <2> HIDE DEF s
  <2>4. ShardInv(k, t) /\ t.pc = "exited"
    BY <1>0, <2>1, WriteIsShard
  <2> QED
    BY <2>1, <2>2, <2>3, <2>4 DEF s
<1>5. CASE Fail(k)
  <2>1. /\ UNCHANGED <<trace, launch, launcher, next, codes, aggregate>>
        /\ s.pc \in {"born", "running", "writing"}
        /\ shards' = [shards EXCEPT ![k] = Dead(s)]
    BY <1>5 DEF Fail
  <2>2. shards'[k] = Dead(s)
    BY <1>0, <2>1
  <2> HIDE DEF s
  <2>3. ShardInv(k, Dead(s)) /\ Dead(s).pc # "unborn"
    BY <1>0, <2>1, DeadIsShard
  <2> QED
    BY <2>1, <2>2, <2>3 DEF s
<1> QED
  BY <1>1, <1>2, <1>3, <1>4, <1>5 DEF Run

-----------------------------------------------------------------------------
(* The launcher. *)

\* What a run is to be does not change under it.
LEMMA ShardKeeps ==
  ASSUME UNCHANGED <<trace, launch>>, NEW k \in Indices, ShardInv(k, shards'[k])
  PROVE  ShardInv(k, shards[k])'
<1>1. launch' = launch /\ trace' = trace
  OBVIOUS
<1>2. Workload' = Workload
  BY <1>1 DEF Workload, Truncate
<1>3. Mine(k)' = Mine(k)
  BY <1>1, <1>2 DEF Mine
<1>4. Scale(Workload)' = Scale(Workload)
  BY <1>1, <1>2 DEF Scale
<1>5. Progress(k, shards'[k]) <=> Progress(k, shards[k])'
  BY <1>1 DEF Progress, Seeds, OrdinalOf
<1>6. Working(k, shards'[k]) <=> Working(k, shards[k])'
  BY <1>1, <1>3, <1>4, <1>5 DEF Working
<1> QED
  BY <1>6 DEF ShardInv

\* What the launcher knows of a run is of one that has exited, or of one that was
\* never started: no step of a run can change it.
LEMMA RunKeepsLauncher ==
  ASSUME ShardsInv, NEW k \in Indices, Run(k)
  PROVE  ShardsInv'
<1>1. /\ trace' = trace /\ launch' = launch /\ launcher' = launcher /\ next' = next
      /\ codes' = codes /\ aggregate' = aggregate
      /\ shards' = [shards EXCEPT ![k] = shards'[k]]
      /\ shards[k].pc \in {"born", "running", "writing"}
      /\ ShardInv(k, shards'[k]) /\ shards'[k].pc # "unborn"
  BY RunIsShard
<1>2. /\ trace \in Traces /\ launch \in Launches /\ shards = [j \in Indices |-> shards[j]]
      /\ \A j \in Indices : ShardInv(j, shards[j])
      /\ LauncherInv
  BY DEF ShardsInv
<1>3. Indices' = Indices
  BY <1>1 DEF Indices
<1>4. /\ \A j \in Indices : j # k => shards'[j] = shards[j]
      /\ shards' = [j \in Indices |-> shards'[j]]
  BY <1>1, <1>2
<1>5. \A j \in Indices : ShardInv(j, shards'[j])
  BY <1>1, <1>2, <1>4
<1>6. \A j \in Indices : ShardInv(j, shards[j])'
  BY <1>1, <1>3, <1>5, ShardKeeps
<1>7. shards[k].exit = {} /\ shards[k].pc # "exited" /\ shards[k].pc # "unborn"
  BY <1>1, <1>2 DEF ShardInv
<1>8. {} # {0} /\ {} # {1} /\ \A c : {} # {c}
  OBVIOUS
<1>9. LauncherInv'
  <2>1. /\ launcher' \in {"spawning", "waiting", "done", "failed", "crashed"}
        /\ next' \in 0 .. launch'.processes
    BY <1>1, <1>2 DEF LauncherInv
  <2>2. ASSUME launcher = "spawning"
        PROVE  /\ codes' = <<>>
               /\ \A j \in Indices : j >= next' <=> shards'[j].pc = "unborn"
    <3>1. codes = <<>> /\ \A j \in Indices : j >= next <=> shards[j].pc = "unborn"
      BY <1>2, <2>2 DEF LauncherInv
    <3> QED
      BY <1>1, <1>4, <1>7, <3>1
  <2>3. ASSUME launcher = "waiting"
        PROVE  /\ \A j \in Indices : shards'[j].pc # "unborn"
               /\ codes' \in Seq({0, 1}) /\ Len(codes') = next'
               /\ \A j \in Indices : j < next' => shards'[j].exit = {codes'[j + 1]}
    <3>1. /\ \A j \in Indices : shards[j].pc # "unborn"
          /\ codes \in Seq({0, 1}) /\ Len(codes) = next
          /\ \A j \in Indices : j < next => shards[j].exit = {codes[j + 1]}
      BY <1>2, <2>3 DEF LauncherInv
    <3>2. ~(k < next)
      BY <1>7, <1>8, <3>1
    <3> QED
      BY <1>1, <1>4, <3>1, <3>2
  <2>4. launcher # "done"
    BY <1>2, <1>7, <1>8 DEF LauncherInv, Exited
  <2>5. launcher = "failed" => \E j \in Indices : shards'[j].exit = {1}
    <3>1. ASSUME launcher = "failed"  PROVE  \E j \in Indices : shards'[j].exit = {1}
      <4>1. PICK j \in Indices : shards[j].exit = {1}
        BY <1>2, <3>1 DEF LauncherInv
      <4> QED
        BY <1>4, <1>7, <1>8, <4>1
    <3> QED
      BY <3>1
  <2>6. ASSUME launcher = "crashed", codes # <<>>
        PROVE  \E j \in Indices : /\ shards'[j].exit = {0}
                                  /\ The(shards'[j].summary).throughput = {}
    <3>1. PICK j \in Indices : shards[j].exit = {0} /\ The(shards[j].summary).throughput = {}
      BY <1>2, <2>6 DEF LauncherInv, Exited
    <3> QED
      BY <1>4, <1>7, <1>8, <3>1
  <2>7. aggregate = {}
    BY <1>2, <2>4 DEF LauncherInv
  <2> QED
    BY <1>1, <1>3, <2>1, <2>2, <2>3, <2>4, <2>5, <2>6, <2>7 DEF LauncherInv, Exited
<1> QED
  BY <1>1, <1>2, <1>3, <1>4, <1>6, <1>9 DEF ShardsInv

\* Where the runs stand still, what they and the sum of them are does too.
LEMMA SumKeeps ==
  ASSUME UNCHANGED <<trace, launch, shards>>
  PROVE  /\ Indices' = Indices /\ Sum(Indices)' = Sum(Indices)
         /\ Unaddable(Indices)' = Unaddable(Indices)
         /\ \A k \in Indices : Exited(k)' <=> Exited(k)
BY DEF Indices, Sum, Total, Unaddable, Exited

LEMMA ShardsStand ==
  ASSUME ShardsInv, UNCHANGED <<trace, launch, shards>>
  PROVE  /\ Indices' = Indices
         /\ trace' \in Traces /\ launch' \in Launches
         /\ shards' = [k \in Indices |-> shards'[k]]
         /\ \A k \in Indices : ShardInv(k, shards[k])'
<1>1. Indices' = Indices
  BY SumKeeps
<1>2. \A k \in Indices : ShardInv(k, shards'[k])
  BY DEF ShardsInv
<1>3. \A k \in Indices : ShardInv(k, shards[k])'
  BY <1>2, ShardKeeps
<1> QED
  BY <1>1, <1>3 DEF ShardsInv

LEMMA SpawnKeeps ==
  ASSUME ShardsInv, Spawn
  PROVE  ShardsInv'
<1>0. /\ trace \in Traces /\ launch \in Launches /\ shards = [j \in Indices |-> shards[j]]
      /\ \A j \in Indices : ShardInv(j, shards[j])
      /\ LauncherInv
  BY DEF ShardsInv
<1>1. /\ launcher = "spawning" /\ next < launch.processes
      /\ UNCHANGED <<trace, launch, codes, aggregate>>
  BY DEF Spawn
<1>2. /\ next \in 0 .. launch.processes /\ codes = <<>> /\ aggregate = {}
      /\ \A k \in Indices : k >= next <=> shards[k].pc = "unborn"
  BY <1>0, <1>1 DEF LauncherInv
<1>3. launch.processes \in Nat \ {0} /\ Indices = 0 .. launch.processes - 1
  BY <1>0, LaunchTypes
<1>4. next \in Indices
  BY <1>1, <1>2, <1>3
<1>5. Indices' = Indices
  BY <1>1 DEF Indices
<1>6. CASE launcher' = "crashed" /\ UNCHANGED <<next, shards>>
  <2>1. LauncherInv'
    BY <1>1, <1>2, <1>6 DEF LauncherInv
  <2> QED
    BY <1>1, <1>6, <2>1, ShardsStand DEF ShardsInv
<1>7. CASE /\ shards' = [shards EXCEPT ![next].pc = "born"]
           /\ next' = next + 1 /\ launcher' = launcher
  <2> DEFINE s == shards[next]
             t == [s EXCEPT !.pc = "born"]
  <2>1. /\ shards' = [shards EXCEPT ![next] = t] /\ shards'[next] = t
        /\ shards' = [j \in Indices |-> shards'[j]]
        /\ \A j \in Indices : j # next => shards'[j] = shards[j]
    BY <1>0, <1>4, <1>7
  <2>2. ShardInv(next, s) /\ s.pc = "unborn"
    BY <1>0, <1>2, <1>3, <1>4
  <2> HIDE DEF s
  <2>3. Fresh(s) /\ s.exit = {}
    BY <2>2 DEF ShardInv, Working
  <2>4. /\ DOMAIN t = Fields /\ t.pc = "born" /\ t.exit = s.exit /\ t.units = s.units
        /\ t.done = s.done /\ t.seeds = s.seeds /\ t.summary = s.summary
        /\ t.report = s.report
    BY <2>2 DEF ShardInv, Fields
  <2> HIDE DEF t
  <2>5. ShardInv(next, t)
    BY <2>2, <2>3, <2>4 DEF ShardInv, Fresh
  <2>6. \A j \in Indices : ShardInv(j, shards'[j])
    BY <1>0, <2>1, <2>5
  <2>7. \A j \in Indices : ShardInv(j, shards[j])'
    BY <1>1, <2>6, ShardKeeps
  <2>8. \A j \in Indices : j >= next' <=> shards'[j].pc = "unborn"
    <3> SUFFICES ASSUME NEW j \in Indices
                 PROVE  j >= next' <=> shards'[j].pc = "unborn"
      OBVIOUS
    <3>1. CASE j = next
      BY <1>2, <1>3, <1>7, <2>1, <2>4, <3>1
    <3>2. CASE j # next
      <4>1. j >= next' <=> j >= next
        BY <1>2, <1>3, <1>7, <3>2
      <4> QED
        BY <1>2, <2>1, <3>2, <4>1
    <3> QED
      BY <3>1, <3>2
  <2>9. next' \in 0 .. launch.processes
    BY <1>2, <1>3, <1>4, <1>7
  <2>10. LauncherInv'
    BY <1>1, <1>2, <1>5, <1>7, <2>8, <2>9 DEF LauncherInv
  <2> QED
    BY <1>0, <1>1, <1>5, <2>1, <2>7, <2>10 DEF ShardsInv
<1> QED
  BY <1>6, <1>7 DEF Spawn

LEMMA AllSpawnedKeeps ==
  ASSUME ShardsInv, AllSpawned
  PROVE  ShardsInv'
<1>0. launch \in Launches /\ LauncherInv
  BY DEF ShardsInv
<1>1. /\ launcher = "spawning" /\ next = launch.processes /\ launcher' = "waiting" /\ next' = 0
      /\ UNCHANGED <<trace, launch, codes, shards, aggregate>>
  BY DEF AllSpawned
<1>2. codes = <<>> /\ aggregate = {} /\ \A k \in Indices : k >= next <=> shards[k].pc = "unborn"
  BY <1>0, <1>1 DEF LauncherInv
<1>3. launch.processes \in Nat \ {0} /\ Indices = 0 .. launch.processes - 1
  BY <1>0, LaunchTypes
<1>4. \A k \in Indices : shards[k].pc # "unborn" /\ ~(k < 0)
  BY <1>1, <1>2, <1>3
<1>5. /\ Indices' = Indices
      /\ trace' \in Traces /\ launch' \in Launches
      /\ shards' = [k \in Indices |-> shards'[k]]
      /\ \A k \in Indices : ShardInv(k, shards[k])'
  BY <1>1, ShardsStand
<1>6. 0 \in 0 .. launch.processes /\ <<>> \in Seq({0, 1}) /\ Len(<<>>) = 0
  BY <1>3
<1>7. LauncherInv'
  BY <1>1, <1>2, <1>4, <1>5, <1>6 DEF LauncherInv
<1> QED
  BY <1>5, <1>7 DEF ShardsInv

LEMMA WaitKeeps ==
  ASSUME ShardsInv, Wait
  PROVE  ShardsInv'
<1>0. launch \in Launches /\ LauncherInv /\ \A k \in Indices : ShardInv(k, shards[k])
  BY DEF ShardsInv
<1> DEFINE code == The(shards[next].exit)
<1>1. /\ launcher = "waiting" /\ next < launch.processes /\ shards[next].pc = "exited"
      /\ codes' = Append(codes, code) /\ next' = next + 1
      /\ UNCHANGED <<trace, launch, launcher, shards, aggregate>>
  BY DEF Wait
<1>2. /\ next \in 0 .. launch.processes /\ aggregate = {}
      /\ \A k \in Indices : shards[k].pc # "unborn"
      /\ codes \in Seq({0, 1}) /\ Len(codes) = next
      /\ \A k \in Indices : k < next => shards[k].exit = {codes[k + 1]}
  BY <1>0, <1>1 DEF LauncherInv
<1>3. launch.processes \in Nat \ {0} /\ Indices = 0 .. launch.processes - 1
  BY <1>0, LaunchTypes
<1>4. /\ Indices' = Indices
      /\ trace' \in Traces /\ launch' \in Launches
      /\ shards' = [k \in Indices |-> shards'[k]]
      /\ \A k \in Indices : ShardInv(k, shards[k])'
  BY <1>1, ShardsStand
<1>5. next \in Indices
  BY <1>1, <1>2, <1>3
<1>6. shards[next].exit = {code} /\ code \in {0, 1}
  <2>1. shards[next].exit \in {{0}, {1}}
    BY <1>0, <1>1, <1>5 DEF ShardInv
  <2>2. The({0}) = 0 /\ The({1}) = 1
    BY DEF The
  <2> QED
    BY <2>1, <2>2
<1> HIDE DEF code
<1>7. /\ codes' \in Seq({0, 1}) /\ Len(codes') = next + 1 /\ codes'[next + 1] = code
      /\ \A i \in 1 .. next : codes'[i] = codes[i]
  BY <1>1, <1>2, <1>6
<1>8. \A k \in Indices : k < next + 1 => shards[k].exit = {codes'[k + 1]}
  <2> SUFFICES ASSUME NEW k \in Indices, k < next + 1
               PROVE  shards[k].exit = {codes'[k + 1]}
    OBVIOUS
  <2>1. CASE k = next
    BY <1>6, <1>7, <2>1
  <2>2. CASE k # next
    <3>1. k < next /\ k + 1 \in 1 .. next
      BY <1>2, <1>3, <2>2
    <3> QED
      BY <1>2, <1>7, <3>1
  <2> QED
    BY <2>1, <2>2
<1>9. next + 1 \in 0 .. launch.processes
  BY <1>1, <1>2, <1>3
<1>10. LauncherInv'
  BY <1>1, <1>2, <1>4, <1>7, <1>8, <1>9 DEF LauncherInv
<1> QED
  BY <1>4, <1>10 DEF ShardsInv

LEMMA SumUpKeeps ==
  ASSUME ShardsInv, SumUp
  PROVE  ShardsInv'
<1>0. launch \in Launches /\ LauncherInv /\ \A k \in Indices : ShardInv(k, shards[k])
  BY DEF ShardsInv
<1>1. /\ launcher = "waiting" /\ next = launch.processes
      /\ UNCHANGED <<trace, launch, next, codes, shards>>
  BY DEF SumUp
<1>2. /\ next \in 0 .. launch.processes /\ aggregate = {}
      /\ codes \in Seq({0, 1}) /\ Len(codes) = next
      /\ \A k \in Indices : k < next => shards[k].exit = {codes[k + 1]}
  BY <1>0, <1>1 DEF LauncherInv
<1>3. launch.processes \in Nat \ {0} /\ Indices = 0 .. launch.processes - 1
  BY <1>0, LaunchTypes
<1>4. /\ Indices' = Indices
      /\ trace' \in Traces /\ launch' \in Launches
      /\ shards' = [k \in Indices |-> shards'[k]]
      /\ \A k \in Indices : ShardInv(k, shards[k])'
  BY <1>1, ShardsStand
<1>5. \A k \in Indices : k + 1 \in DOMAIN codes /\ shards[k].exit = {codes[k + 1]}
  BY <1>1, <1>2, <1>3
<1>6. CASE \E i \in DOMAIN codes : codes[i] # 0
  <2>1. PICK i \in DOMAIN codes : codes[i] # 0
    BY <1>6
  <2>2. i - 1 \in Indices /\ (i - 1) + 1 = i /\ codes[i] = 1
    BY <1>1, <1>2, <1>3, <2>1
  <2>3. shards[i - 1].exit = {1}
    BY <1>5, <2>2
  <2>4. launcher' = "failed" /\ aggregate' = aggregate
    BY <1>6 DEF SumUp
  <2>5. LauncherInv'
    BY <1>1, <1>2, <1>4, <2>2, <2>3, <2>4 DEF LauncherInv
  <2> QED
    BY <1>4, <2>5 DEF ShardsInv
<1>7. CASE ~(\E i \in DOMAIN codes : codes[i] # 0)
  <2>1. \A k \in Indices : shards[k].exit = {0}
    BY <1>5, <1>7
  <2>2. CASE launch.processes = 1 \/ launch.by_hand
    <3>1. launcher' = "done" /\ aggregate' = aggregate
      BY <1>7, <2>2 DEF SumUp
    <3>2. LauncherInv'
      BY <1>1, <1>2, <1>3, <1>4, <2>1, <2>2, <3>1 DEF LauncherInv, Exited
    <3> QED
      BY <1>4, <3>2 DEF ShardsInv
  <2>3. CASE ~(launch.processes = 1 \/ launch.by_hand) /\ Unaddable(Indices) # {}
    <3>1. launcher' = "crashed" /\ aggregate' = aggregate
      BY <1>7, <2>3 DEF SumUp
    <3>2. PICK k \in Indices : The(shards[k].summary).throughput = {}
      BY <2>3 DEF Unaddable
    <3>3. LauncherInv'
      BY <1>1, <1>2, <1>4, <2>1, <3>1, <3>2 DEF LauncherInv, Exited
    <3> QED
      BY <1>4, <3>3 DEF ShardsInv
  <2>4. CASE ~(launch.processes = 1 \/ launch.by_hand) /\ Unaddable(Indices) = {}
    <3>1. launcher' = "done" /\ aggregate' = {Sum(Indices)}
      BY <1>7, <2>4 DEF SumUp
    <3>2. /\ Sum(Indices)' = Sum(Indices) /\ Unaddable(Indices)' = {}
          /\ \A k \in Indices : Exited(k)' <=> Exited(k)
      BY <1>1, <2>4, SumKeeps
    <3>3. \A k \in Indices : Exited(k)'
      BY <2>1, <3>2 DEF Exited
    <3>4. aggregate' = {Sum(Indices)'} /\ aggregate' # {}
      BY <3>1, <3>2
    <3>5. LauncherInv'
      BY <1>1, <1>2, <1>4, <3>1, <3>2, <3>3, <3>4 DEF LauncherInv
    <3> QED
      BY <1>4, <3>5 DEF ShardsInv
  <2> QED
    BY <2>2, <2>3, <2>4
<1> QED
  BY <1>6, <1>7

LEMMA InitIsShards ==
  ASSUME Init
  PROVE  ShardsInv
<1>1. /\ trace \in Traces /\ launch \in Launches /\ launcher = "spawning" /\ next = 0
      /\ codes = <<>> /\ shards = [k \in Indices |-> Unborn] /\ aggregate = {}
  BY DEF Init
<1>2. launch.processes \in Nat \ {0} /\ Indices = 0 .. launch.processes - 1
  BY <1>1, LaunchTypes
<1>3. /\ DOMAIN Unborn = Fields /\ Unborn.pc = "unborn" /\ Unborn.exit = {}
      /\ Unborn.units = <<>> /\ Unborn.done = <<>> /\ Unborn.seeds = {}
      /\ Unborn.summary = {} /\ Unborn.report = EmptyReport({})
  BY DEF Unborn, Fields
<1>4. EmptyReport({}) \in ReportType
  <2>1. {} \in Option(Nat)
    BY DEF Option
  <2>2. <<>> \in Seq(Nat) /\ <<>> \in Seq(Nat \X Nat)
    OBVIOUS
  <2> QED
    BY <2>1, <2>2 DEF EmptyReport, ReportType
<1>5. \A k \in Indices : ShardInv(k, Unborn)
  <2>1. {} # {0}
    OBVIOUS
  <2> QED
    BY <1>3, <1>4, <2>1 DEF ShardInv, Fresh
<1>6. LauncherInv
  <2>1. \A k \in Indices : k >= 0
    BY <1>2
  <2> QED
    BY <1>1, <1>2, <1>3, <2>1 DEF LauncherInv
<1> QED
  BY <1>1, <1>5, <1>6 DEF ShardsInv

\* The invariant holds of every trace, every launch and every order of the steps.
THEOREM ShardsInvariant == Spec => []ShardsInv
<1>1. Init => ShardsInv
  BY InitIsShards
<1>2. ShardsInv /\ [Next]_vars => ShardsInv'
  <2> SUFFICES ASSUME ShardsInv, [Next]_vars
               PROVE  ShardsInv'
    OBVIOUS
  <2>1. CASE Spawn
    BY <2>1, SpawnKeeps
  <2>2. CASE AllSpawned
    BY <2>2, AllSpawnedKeeps
  <2>3. CASE Wait
    BY <2>3, WaitKeeps
  <2>4. CASE SumUp
    BY <2>4, SumUpKeeps
  <2>5. CASE \E k \in Indices : Run(k)
    BY <2>5, RunKeepsLauncher
  <2>6. CASE UNCHANGED vars
    <3>1. /\ UNCHANGED <<trace, launch, shards>> /\ launcher' = launcher /\ next' = next
          /\ codes' = codes /\ aggregate' = aggregate
      BY <2>6 DEF vars
    <3>2. /\ Indices' = Indices /\ trace' \in Traces /\ launch' \in Launches
          /\ shards' = [k \in Indices |-> shards'[k]]
          /\ \A k \in Indices : ShardInv(k, shards[k])'
      BY <3>1, ShardsStand
    <3>3. /\ Sum(Indices)' = Sum(Indices) /\ Unaddable(Indices)' = Unaddable(Indices)
          /\ \A k \in Indices : Exited(k)' <=> Exited(k)
      BY <3>1, SumKeeps
    <3>4. LauncherInv
      BY DEF ShardsInv
    <3>5. LauncherInv'
      BY <3>1, <3>2, <3>3, <3>4 DEF LauncherInv
    <3> QED
      BY <3>2, <3>5 DEF ShardsInv
  <2>7. CASE Stop
    BY <2>6, <2>7 DEF Stop
  <2> QED
    BY <2>1, <2>2, <2>3, <2>4, <2>5, <2>6, <2>7 DEF Next
<1> QED
  BY <1>1, <1>2, PTL DEF Spec

-----------------------------------------------------------------------------
(* The shards partition the trace. *)

\* The ordinals of a shard are those that leave its index.
LEMMA OrdinalLeaves ==
  ASSUME NEW c \in Nat \ {0}, NEW a \in Nat, NEW k \in 0 .. c - 1
  PROVE  a * c + k \in Nat /\ (a * c + k) % c = k
<1>1. a * c \in Nat
  OBVIOUS
<1>2. (a * c + k) % c = k
  OBVIOUS
<1> QED
  BY <1>1, <1>2

LEMMA SeedsAreOfTheShare ==
  ASSUME ShardsInv, NEW k \in Indices, NEW seed \in shards[k].seeds
  PROVE  /\ seed[1] = seed[2] - 1 /\ seed[2] \in DOMAIN Workload
         /\ (seed[2] - 1) % launch.processes = k
         /\ shards[k].scale = Scale(Workload)
<1> DEFINE s == shards[k]
           c == launch.processes
<1>0. trace \in Traces /\ launch \in Launches /\ ShardInv(k, s)
  BY DEF ShardsInv
<1>1. Working(k, s)
  BY <1>0 DEF ShardInv, Fresh
<1>2. s.units = Mine(k) /\ s.scale = Scale(Workload) /\ s.seeds = Seeds(k, s.units, s.done)
  BY <1>1 DEF Working, Progress
<1>3. PICK i \in DOMAIN s.units : seed = <<OrdinalOf(i, k), s.units[i].place>>
  BY <1>2 DEF Seeds
<1>4. /\ s.units[i].place \in DOMAIN Workload /\ s.units[i].place = OrdinalOf(i, k) + 1
      /\ DOMAIN s.units = 1 .. Len(Mine(k)) /\ Len(Mine(k)) \in Nat
  BY <1>0, <1>2, MineItems
<1>5. c \in Nat \ {0} /\ k \in 0 .. c - 1
  BY <1>0, LaunchTypes
<1>6. i - 1 \in Nat
  BY <1>4
<1>7. OrdinalOf(i, k) \in Nat /\ OrdinalOf(i, k) % c = k
  <2> DEFINE a == i - 1
  <2>1. OrdinalOf(i, k) = a * c + k
    BY DEF OrdinalOf
  <2>2. a \in Nat /\ c \in Nat \ {0} /\ k \in 0 .. c - 1
    BY <1>5, <1>6
  <2> HIDE DEF a, c
  <2> QED
    BY <2>1, <2>2, OrdinalLeaves
<1>8. seed[1] = OrdinalOf(i, k) /\ seed[2] = OrdinalOf(i, k) + 1
  BY <1>3, <1>4
<1>9. (OrdinalOf(i, k) + 1) - 1 = OrdinalOf(i, k)
  BY <1>7
<1> HIDE DEF s, c
<1> QED
  BY <1>2, <1>3, <1>4, <1>7, <1>8, <1>9, Zenon DEF s, c

\* Every unit of a run that has succeeded has started.
LEMMA SuccessStartsAll ==
  ASSUME ShardsInv, NEW k \in Indices, Exited(k), ~launch.dry_run,
         NEW p \in DOMAIN Workload, (p - 1) % launch.processes = k
  PROVE  p \in Places(k)
<1> DEFINE s == shards[k]
<1>0. trace \in Traces /\ launch \in Launches /\ ShardInv(k, s) /\ s.exit = {0}
  BY DEF ShardsInv, Exited
<1>1. Working(k, s)
  BY <1>0 DEF ShardInv, Fresh
<1> HIDE DEF s
<1>2. /\ s.units = Mine(k) /\ s.seeds = Seeds(k, s.units, s.done) /\ AllDone(s)
  BY <1>0, <1>1 DEF Working, Progress
<1>3. PICK i \in DOMAIN s.units : s.units[i].place = p
  BY <1>0, <1>2, MineItems
<1>4. s.units[i].unit \in Units
  BY <1>0, <1>2, MineItems
<1>5. Len(s.units[i].unit.steps) > 0
  <2>1. \A u \in Units : u.steps \in Seq(Records) /\ u.steps # <<>>
    BY DEF Units
  <2> QED
    BY <1>4, <2>1
<1>6. s.done[i] > 0
  BY <1>2, <1>5 DEF AllDone
<1>7. <<OrdinalOf(i, k), p>> \in s.seeds
  BY <1>2, <1>3, <1>6 DEF Seeds
<1>8. <<OrdinalOf(i, k), p>>[2] = p
  OBVIOUS
<1> QED
  BY <1>7, <1>8 DEF Places, s

LEMMA InvPartitions ==
  ASSUME ShardsInv
  PROVE  ShardsPartitionTheTrace
<1>0. trace \in Traces /\ launch \in Launches
  BY DEF ShardsInv
<1>1. launch.processes \in Nat \ {0} /\ Indices = 0 .. launch.processes - 1
  BY <1>0, LaunchTypes
<1>2. \A j, k \in Indices : j # k => Places(j) \cap Places(k) = {}
  <2> SUFFICES ASSUME NEW j \in Indices, NEW k \in Indices, j # k,
                      NEW p \in Places(j), p \in Places(k)
               PROVE  FALSE
    OBVIOUS
  <2>1. PICK a \in shards[j].seeds : p = a[2]
    BY DEF Places
  <2>2. PICK b \in shards[k].seeds : p = b[2]
    BY DEF Places
  <2>3. (p - 1) % launch.processes = j
    BY <2>1, SeedsAreOfTheShare
  <2>4. (p - 1) % launch.processes = k
    BY <2>2, SeedsAreOfTheShare
  <2> QED
    BY <2>3, <2>4
<1>3. \A k \in Indices : \A seed \in shards[k].seeds : seed[1] = seed[2] - 1
  BY SeedsAreOfTheShare
<1>4. \A j, k \in Indices :
        shards[j].seeds # {} /\ shards[k].seeds # {} => shards[j].scale = shards[k].scale
  BY SeedsAreOfTheShare
<1>5. ASSUME \A k \in Indices : Exited(k), ~launch.dry_run
      PROVE  UNION {Places(k) : k \in Indices} = DOMAIN Workload
  <2>1. ASSUME NEW k \in Indices, NEW p \in Places(k)
        PROVE  p \in DOMAIN Workload
    <3>1. PICK a \in shards[k].seeds : p = a[2]
      BY DEF Places
    <3> QED
      BY <3>1, SeedsAreOfTheShare
  <2>2. ASSUME NEW p \in DOMAIN Workload
        PROVE  \E k \in Indices : p \in Places(k)
    <3>1. p - 1 \in Nat
      BY <1>0, WorkloadItems
    <3>2. (p - 1) % launch.processes \in Indices
      BY <1>1, <3>1
    <3> QED
      BY <1>5, <3>2, SuccessStartsAll
  <2> QED
    BY <2>1, <2>2
<1> QED
  BY <1>2, <1>3, <1>4, <1>5 DEF ShardsPartitionTheTrace

\* No unit of the trace runs in two shards, none is left out once all of them have
\* succeeded, each is seeded by its place in the whole, and all run on one clock.
THEOREM ShardsPartition == Spec => []ShardsPartitionTheTrace
BY ShardsInvariant, InvPartitions, PTL

-----------------------------------------------------------------------------
(* What a run reports agrees with its records. *)

\* Around a percentile lie as many values as its name says.
LEMMA Interpolation ==
  ASSUME NEW a \in Nat, NEW b \in Nat, a <= b, NEW part \in 0 .. 9
  PROVE  /\ a * (10 - part) + b * part \in Nat
         /\ 10 * a <= a * (10 - part) + b * part
         /\ a * (10 - part) + b * part <= 10 * b
<1>1. PICK d \in Nat : b = a + d
  <2>1. b - a \in Nat /\ b = a + (b - a)
    OBVIOUS
  <2> QED
    BY <2>1
<1>2. a * (10 - part) + b * part = 10 * a + d * part
  <2>1. b * part = a * part + d * part
    BY <1>1
  <2>2. a * (10 - part) = 10 * a - a * part
    OBVIOUS
  <2>3. a * part \in Nat /\ d * part \in Nat
    BY <1>1
  <2> DEFINE x == a * part
             y == d * part
  <2> HIDE DEF x, y
  <2>4. b * part = x + y /\ a * (10 - part) = 10 * a - x /\ x \in Nat /\ y \in Nat
    BY <2>1, <2>2, <2>3 DEF x, y
  <2>5. a * (10 - part) + b * part = 10 * a + y
    BY <2>4
  <2> QED
    BY <2>5 DEF y
<1>3. d * part \in Nat /\ d * part <= 10 * d
  <2>1. d * part \in Nat /\ d * (10 - part) \in Nat
    BY <1>1
  <2>2. d * (10 - part) = 10 * d - d * part
    BY <1>1
  <2> QED
    BY <1>1, <2>1, <2>2
<1> QED
  BY <1>1, <1>2, <1>3

\* The values at the first, and at the last, places of a sorted sequence.
LEMMA PlacesCount ==
  ASSUME NEW values \in Seq(Nat), NEW n \in 1 .. Len(values), NEW S,
         S \subseteq DOMAIN values,
         (\A k \in 1 .. n : Order(values)[k] \in S)
           \/ (\A k \in Len(values) + 1 - n .. Len(values) : Order(values)[k] \in S)
  PROVE  IsFiniteSet(S) /\ Cardinality(S) \in Nat /\ Cardinality(S) >= n
<1> DEFINE D == DOMAIN values
           order == Order(values)
<1>0. Len(values) \in Nat /\ D = 1 .. Len(values) /\ IsFiniteSet(D)
  BY FS_Interval
<1>1. order \in Bijection(D, D)
  BY SortingSorts
<1>2. order \in [D -> D] /\ \A a, b \in D : order[a] = order[b] => a = b
  BY <1>1, Fun_BijectionProperties, Fun_IsInj
<1> HIDE DEF order
<1>3. IsFiniteSet(S) /\ Cardinality(S) \in Nat
  BY <1>0, FS_Subset, FS_CardinalityType
<1>4. ASSUME NEW A, A \subseteq D, \A k \in A : order[k] \in S
      PROVE  IsFiniteSet(A) /\ Cardinality(A) <= Cardinality(S)
  <2> DEFINE f == [k \in A |-> order[k]]
  <2>1. f \in [A -> S] /\ \A a, b \in A : f[a] = f[b] => a = b
    BY <1>2, <1>4
  <2>2. f \in Injection(A, S)
    BY <2>1, Fun_IsInj
  <2>3. IsFiniteSet(A)
    BY <1>0, <1>4, FS_Subset
  <2> QED
    BY <1>3, <2>2, <2>3, FS_Injection
<1>5. CASE \A k \in 1 .. n : order[k] \in S
  <2>1. Cardinality(1 .. n) = n /\ 1 .. n \subseteq D
    BY <1>0, FS_Interval
  <2> QED
    BY <1>3, <1>4, <1>5, <2>1
<1>6. CASE \A k \in Len(values) + 1 - n .. Len(values) : order[k] \in S
  <2> DEFINE l == Len(values)
             a == l + 1 - n
  <2>1. l \in Nat /\ n \in 1 .. l /\ D = 1 .. l /\ \A k \in a .. l : order[k] \in S
    BY <1>0, <1>6
  <2> HIDE DEF D, l
  <2>2. a \in Int /\ a <= l /\ l - a + 1 = n /\ a .. l \subseteq D
    BY <2>1
  <2> HIDE DEF a
  <2>3. Cardinality(a .. l) = n
    BY <2>1, <2>2, FS_Interval
  <2> QED
    BY <1>3, <1>4, <2>1, <2>2, <2>3
<1> QED
  BY <1>5, <1>6 DEF order

\* The rank that a quantile in tenths falls on, or between which and the next.
LEMMA RankOfQuantile ==
  ASSUME NEW t \in {5, 9}, NEW n \in Nat, NEW lo, NEW part,
         lo = (t * n) \div 10, part = (t * n) % 10
  PROVE  /\ lo \in 0 .. n /\ part \in 0 .. 9 /\ t * n = 10 * lo + part
         /\ part # 0 => lo < n
<1> DEFINE p == t * n
<1>1. p \in Nat /\ p <= 9 * n
  OBVIOUS
<1>2. lo = p \div 10 /\ part = p % 10
  OBVIOUS
<1> HIDE DEF p
<1>3. lo \in Nat /\ part \in 0 .. 9 /\ p = 10 * lo + part
  BY <1>1, <1>2
<1>4. lo <= n /\ (part # 0 => lo < n)
  BY <1>1, <1>3
<1> QED
  BY <1>3, <1>4 DEF p

\* In sorted order: the values, and how many lie on either side of one of them.
LEMMA SortedValues ==
  ASSUME NEW values \in Seq(Nat)
  PROVE  /\ DOMAIN Sorted(values) = DOMAIN values
         /\ Sorted(values) \in Seq(Nat) /\ Len(Sorted(values)) = Len(values)
         /\ \A a, b \in DOMAIN values : a <= b => Sorted(values)[a] <= Sorted(values)[b]
         /\ \A k \in DOMAIN values : Sorted(values)[k] = values[Order(values)[k]]
<1> DEFINE s == Sorted(values)
<1>1. s = [k \in DOMAIN values |-> values[Order(values)[k]]]
  BY SortByProperties DEF Sorted
<1>2. \A k \in DOMAIN values : Order(values)[k] \in DOMAIN values
  BY SortByProperties
<1> HIDE DEF s
<1>3. DOMAIN s = DOMAIN values /\ \A k \in DOMAIN values : s[k] = values[Order(values)[k]]
  BY <1>1
<1>4. \A k \in DOMAIN values : s[k] \in Nat
  BY <1>2, <1>3
<1>5. Len(values) \in Nat /\ DOMAIN values = 1 .. Len(values)
  OBVIOUS
<1>6. s \in Seq(Nat) /\ Len(s) = Len(values)
  <2>1. s = [k \in 1 .. Len(values) |-> s[k]]
    BY <1>1, <1>5
  <2>2. s \in Seq(Nat)
    BY <1>4, <1>5, <2>1, IsASeq
  <2> QED
    BY <1>3, <1>5, <2>2, LenProperties
<1>7. ASSUME NEW a \in DOMAIN values, NEW b \in DOMAIN values, a <= b
      PROVE  s[a] <= s[b]
  <2>1. CASE a = b
    BY <1>4, <2>1
  <2>2. CASE a < b
    BY <1>3, <2>2, SortingSorts
  <2> QED
    BY <1>5, <1>7, <2>1, <2>2
<1> QED
  BY <1>3, <1>6, <1>7 DEF s

\* An interpolated percentile has the values on each side that its name says, and
\* is not above the last of them.
LEMMA PercentileHolds ==
  ASSUME NEW values \in Seq(Nat), values # <<>>, NEW t \in {5, 9}
  PROVE  /\ IsPercentile(Percentile(Sorted(values), t), t, values)
         /\ Percentile(Sorted(values), t) <= 10 * Sorted(values)[Len(Sorted(values))]
<1> DEFINE s == Sorted(values)
           l == Len(values)
           n == l - 1
           lo == (t * n) \div 10
           part == (t * n) % 10
           x == Percentile(s, t)
           Below == {i \in DOMAIN values : 10 * values[i] <= x}
           Above == {i \in DOMAIN values : 10 * values[i] >= x}
<1>1. /\ DOMAIN s = 1 .. l /\ DOMAIN values = 1 .. l /\ Len(s) = l
      /\ \A a, b \in 1 .. l : a <= b => s[a] <= s[b]
      /\ \A k \in 1 .. l : s[k] = values[Order(values)[k]]
      /\ \A k \in 1 .. l : s[k] \in Nat
  <2>1. DOMAIN values = 1 .. l
    OBVIOUS
  <2>2. /\ DOMAIN s = DOMAIN values /\ s \in Seq(Nat) /\ Len(s) = l
        /\ \A a, b \in DOMAIN values : a <= b => s[a] <= s[b]
        /\ \A k \in DOMAIN values : s[k] = values[Order(values)[k]]
    BY SortedValues
  <2> HIDE DEF s
  <2>3. \A k \in DOMAIN s : s[k] \in Nat
    BY <2>2
  <2> HIDE DEF l
  <2> QED
    BY <2>1, <2>2, <2>3
<1>2. \A k \in 1 .. l : Order(values)[k] \in DOMAIN values
  BY SortByProperties
<1>3. l \in Nat \ {0} /\ n \in Nat /\ l = n + 1
  BY EmptySeq
<1>4. x = IF part = 0 THEN 10 * s[lo + 1] ELSE s[lo + 1] * (10 - part) + s[lo + 2] * part
  BY <1>1 DEF Percentile
<1> HIDE DEF s, l, n, x
<1>5. /\ lo \in 0 .. n /\ part \in 0 .. 9 /\ t * n = 10 * lo + part
      /\ part # 0 => lo < n
  BY <1>3, RankOfQuantile
<1> HIDE DEF lo, part
<1>6. lo + 1 \in 1 .. l /\ (part # 0 => lo + 2 \in 1 .. l)
  BY <1>3, <1>5
<1>7. x \in Nat /\ 10 * s[lo + 1] <= x /\ x <= 10 * s[l]
  <2>1. s[lo + 1] \in Nat /\ s[l] \in Nat /\ s[lo + 1] <= s[l]
    BY <1>1, <1>3, <1>6
  <2>2. CASE part = 0
    BY <1>4, <2>1, <2>2
  <2>3. CASE part # 0
    <3>1. /\ s[lo + 2] \in Nat /\ s[lo + 1] <= s[lo + 2] /\ s[lo + 2] <= s[l]
      BY <1>1, <1>3, <1>5, <1>6, <2>3
    <3>2. /\ x = s[lo + 1] * (10 - part) + s[lo + 2] * part
          /\ x \in Nat /\ 10 * s[lo + 1] <= x /\ x <= 10 * s[lo + 2]
      BY <1>4, <1>5, <2>1, <2>3, <3>1, Interpolation
    <3> QED
      BY <2>1, <3>1, <3>2
  <2> QED
    BY <2>2, <2>3
<1>8. Cardinality(Below) \in Nat /\ Cardinality(Below) >= lo + 1
  <2>1. ASSUME NEW k \in 1 .. lo + 1  PROVE  Order(values)[k] \in Below
    <3>1. k \in 1 .. l /\ s[k] <= s[lo + 1] /\ s[k] \in Nat /\ s[lo + 1] \in Nat
      BY <1>1, <1>3, <1>5, <1>6
    <3>2. 10 * s[k] <= x
      BY <1>7, <3>1
    <3> QED
      BY <1>1, <1>2, <3>1, <3>2
  <2>2. lo + 1 \in 1 .. Len(values)
    BY <1>6 DEF l
  <2> HIDE DEF Below
  <2>3. Below \subseteq DOMAIN values
    BY DEF Below
  <2> QED
    BY <2>1, <2>2, <2>3, PlacesCount
<1>9. /\ Cardinality(Above) \in Nat
      /\ Cardinality(Above) >= IF part = 0 THEN l - lo ELSE n - lo
  <2> DEFINE first == IF part = 0 THEN lo + 1 ELSE lo + 2
             m == l + 1 - first
  <2>1. first \in 1 .. l /\ m \in 1 .. l /\ m = IF part = 0 THEN l - lo ELSE n - lo
    BY <1>3, <1>5, <1>6
  <2>2. l + 1 - m = first
    BY <1>3, <2>1
  <2>3. x <= 10 * s[first] /\ s[first] \in Nat
    <3>1. CASE part = 0
      BY <1>1, <1>4, <1>6, <3>1
    <3>2. CASE part # 0
      <4>1. s[lo + 2] \in Nat /\ s[lo + 1] \in Nat /\ s[lo + 1] <= s[lo + 2]
        BY <1>1, <1>5, <1>6, <3>2
      <4> QED
        BY <1>4, <1>5, <3>2, <4>1, Interpolation
    <3> QED
      BY <3>1, <3>2
  <2> HIDE DEF first, m
  <2>4. ASSUME NEW k \in first .. l  PROVE  Order(values)[k] \in Above
    <3>1. k \in 1 .. l /\ s[first] <= s[k] /\ s[k] \in Nat
      BY <1>1, <1>3, <2>1
    <3>2. 10 * s[k] >= x
      BY <1>7, <2>3, <3>1
    <3> QED
      BY <1>1, <1>2, <3>1, <3>2
  <2> HIDE DEF Above
  <2>5. Above \subseteq DOMAIN values
    BY DEF Above
  <2>6. /\ m \in 1 .. Len(values)
        /\ \A k \in Len(values) + 1 - m .. Len(values) : Order(values)[k] \in Above
    BY <2>1, <2>2, <2>4 DEF l
  <2>7. Cardinality(Above) \in Nat /\ Cardinality(Above) >= m
    BY <2>5, <2>6, PlacesCount
  <2> QED
    BY <2>1, <2>7
<1>10. 10 * Cardinality(Below) > t * n /\ 10 * Cardinality(Above) > (10 - t) * n
  <2> HIDE DEF Below, Above
  <2>1. 10 * Cardinality(Below) > 10 * lo + part
    BY <1>5, <1>8
  <2>2. (10 - t) * n = 10 * n - (10 * lo + part)
    <3>1. (10 - t) * n = 10 * n - t * n
      BY <1>3
    <3> QED
      BY <1>5, <3>1
  <2>3. 10 * Cardinality(Above) > 10 * n - (10 * lo + part)
    BY <1>3, <1>5, <1>9
  <2> QED
    BY <1>5, <2>1, <2>2, <2>3
<1>11. IsPercentile(x, t, values) /\ x <= 10 * s[l]
  BY <1>7, <1>10 DEF IsPercentile, n, l
<1> QED
  BY <1>1, <1>11 DEF x, s

LEMMA StatisticsOfValues ==
  ASSUME NEW values \in Seq(Nat)
  PROVE  StatisticsHold(Statistics(values), values)
<1>1. CASE values = <<>>
  BY <1>1 DEF Statistics, StatisticsHold
<1>2. CASE values # <<>>
  <2> DEFINE s == Sorted(values)
             a == Percentile(s, 5)
             b == Percentile(s, 9)
             c == 10 * s[Len(s)]
  <2>1. IsPercentile(a, 5, values) /\ IsPercentile(b, 9, values) /\ b <= c
    BY <1>2, PercentileHolds
  <2>2. Statistics(values) = {[p50 |-> a, p90 |-> b, max |-> c]}
    BY <1>2 DEF Statistics
  <2> HIDE DEF a, b, c
  <2>3. \A x \in Statistics(values) : x.p50 = a /\ x.p90 = b /\ x.max = c
    BY <2>2
  <2> QED
    BY <2>1, <2>3 DEF StatisticsHold
<1> QED
  BY <1>1, <1>2

\* The records that a shard has folded are those that its report is to tell of.
LEMMA RecordsAreFolded ==
  ASSUME ShardsInv, NEW k \in Indices, Working(k, shards[k])
  PROVE  /\ Folded(k) = DOMAIN RecordsOf(shards[k])
         /\ \A at \in Folded(k) : /\ RecordsOf(shards[k])[at] = RecordOf(k, at)
                                  /\ RecordOf(k, at) \in Records
<1> DEFINE s == shards[k]
           recs == RecordsOf(s)
<1>0. trace \in Traces /\ launch \in Launches
  BY DEF ShardsInv
<1>1. Folded(k) = Steps(s)
  BY DEF Folded, Steps
<1>2. DOMAIN recs = Steps(s) /\ \A at \in Steps(s) : recs[at] = RecordOf(k, at)
  BY DEF RecordsOf, RecordOf
<1>3. ASSUME NEW at \in Steps(s)  PROVE  RecordOf(k, at) \in Records
  <2>1. PICK i \in DOMAIN s.units : \E n \in 1 .. s.done[i] : at = <<i, n>>
    BY DEF Steps
  <2>2. PICK n \in 1 .. s.done[i] : at = <<i, n>>
    BY <2>1
  <2>3. s.units = Mine(k) /\ s.done[i] \in Nat /\ s.done[i] <= Len(s.units[i].unit.steps)
    BY <2>1 DEF Working, Progress
  <2>4. s.units[i].unit \in Units
    BY <1>0, <2>1, <2>3, MineItems
  <2> DEFINE steps == s.units[i].unit.steps
  <2>5. steps \in Seq(Records)
    BY <2>4 DEF Units
  <2>6. RecordOf(k, at) = steps[n]
    BY <2>2 DEF RecordOf
  <2>7. n \in 1 .. s.done[i] /\ s.done[i] \in Nat /\ s.done[i] <= Len(steps)
    BY <2>2, <2>3
  <2> HIDE DEF steps
  <2>8. Len(steps) \in Nat /\ n \in 1 .. Len(steps)
    BY <2>5, <2>7
  <2> QED
    BY <2>5, <2>6, <2>8, ElementOfSeq
<1> QED
  BY <1>1, <1>2, <1>3

\* How many of the folded records have a property.
LEMMA HowManyIsNumber ==
  ASSUME ShardsInv, NEW k \in Indices, Working(k, shards[k])
  PROVE  LET recs == RecordsOf(shards[k]) IN
         /\ HowMany(k, Succeeded) = Number(recs, Successes)
         /\ HowMany(k, LAMBDA r : r.usage # {}) = Number(recs, WithUsage)
         /\ \A slo : HowMany(k, LAMBDA r : Obligations(slo, r) # {}) = Number(recs, Held(slo))
         /\ \A slo : HowMany(k, LAMBDA r : /\ Obligations(slo, r) # {} /\ Succeeded(r)
                                          /\ \A o \in Obligations(slo, r) : Kept(r, o))
                       = Number(recs, KeptAll(slo))
         /\ \A m : HowMany(k, LAMBDA r : Succeeded(r) /\ Clock(r, m) # {})
                     = Number(recs, Timed(m))
<1> DEFINE recs == RecordsOf(shards[k])
<1>1. /\ Folded(k) = DOMAIN recs
      /\ \A at \in Folded(k) : recs[at] = RecordOf(k, at) /\ RecordOf(k, at) \in Records
  BY RecordsAreFolded
<1> HIDE DEF recs
<1>2. HowMany(k, Succeeded) = Number(recs, Successes)
  <2>1. {at \in Folded(k) : Succeeded(RecordOf(k, at))}
          = {at \in DOMAIN recs : recs[at] \in Successes}
    BY <1>1 DEF Successes
  <2> QED
    BY <2>1 DEF HowMany, Number
<1>3. HowMany(k, LAMBDA r : r.usage # {}) = Number(recs, WithUsage)
  <2>1. {at \in Folded(k) : RecordOf(k, at).usage # {}}
          = {at \in DOMAIN recs : recs[at] \in WithUsage}
    BY <1>1 DEF WithUsage
  <2> QED
    BY <2>1 DEF HowMany, Number
<1>4. ASSUME NEW slo
      PROVE  HowMany(k, LAMBDA r : Obligations(slo, r) # {}) = Number(recs, Held(slo))
  <2>1. {at \in Folded(k) : Obligations(slo, RecordOf(k, at)) # {}}
          = {at \in DOMAIN recs : recs[at] \in Held(slo)}
    BY <1>1 DEF Held
  <2> QED
    BY <2>1 DEF HowMany, Number
<1>5. ASSUME NEW slo
      PROVE  HowMany(k, LAMBDA r : /\ Obligations(slo, r) # {} /\ Succeeded(r)
                                   /\ \A o \in Obligations(slo, r) : Kept(r, o))
               = Number(recs, KeptAll(slo))
  <2>1. {at \in Folded(k) : /\ Obligations(slo, RecordOf(k, at)) # {}
                            /\ Succeeded(RecordOf(k, at))
                            /\ \A o \in Obligations(slo, RecordOf(k, at)) :
                                 Kept(RecordOf(k, at), o)}
          = {at \in DOMAIN recs : recs[at] \in KeptAll(slo)}
    BY <1>1 DEF KeptAll
  <2> QED
    BY <2>1 DEF HowMany, Number
<1>6. ASSUME NEW m
      PROVE  HowMany(k, LAMBDA r : Succeeded(r) /\ Clock(r, m) # {}) = Number(recs, Timed(m))
  <2>1. {at \in Folded(k) : Succeeded(RecordOf(k, at)) /\ Clock(RecordOf(k, at), m) # {}}
          = {at \in DOMAIN recs : recs[at] \in Timed(m)}
    BY <1>1 DEF Timed
  <2> QED
    BY <2>1 DEF HowMany, Number
<1> QED
  BY <1>2, <1>3, <1>4, <1>5, <1>6 DEF recs

LEMMA InvReports ==
  ASSUME ShardsInv
  PROVE  ReportsAgreeWithRecords
<1> SUFFICES ASSUME NEW k \in Indices, shards[k].units # <<>>
             PROVE  LET f == shards[k].report IN
    /\ f.attempted = Cardinality(Folded(k)) /\ f.success + f.failed = f.attempted
    /\ f.success = HowMany(k, Succeeded)
    /\ f.id_steps + f.text_steps = Len(f.ttfts)
    /\ f.measured.steps = HowMany(k, LAMBDA r : r.usage # {})
    /\ f.measured.steps = f.attempted => f.measured.planned = f.planned.prefix
    /\ \A slo \in f.slo : AttainmentAddsUp(k, slo)
    /\ \A at \in Folded(k) : The(f.first_submit) <= RecordOf(k, at).submit
                            /\ RecordOf(k, at).complete <= The(f.last_complete)
    /\ \A summary \in shards[k].summary :
         /\ StatisticsHold(summary.totals, f.totals)
         /\ StatisticsHold(summary.ttfts, f.ttfts)
         /\ StatisticsHold(summary.tpots, f.tpots)
  BY Zenon DEF ReportsAgreeWithRecords
<1> DEFINE s == shards[k]
           f == s.report
           recs == RecordsOf(s)
<1>1. Working(k, s) /\ f \in ReportType
  BY DEF ShardsInv, ShardInv, Fresh
<1>2. CountsTell(f, recs) /\ InstantsTell(f, recs) /\ \A slo \in f.slo : SloTells(slo, recs)
  BY <1>1 DEF Working, Progress, Tells
<1>3. s.summary = {} \/ s.summary = {Finalize(f)}
  BY <1>1 DEF Working
<1>4. /\ Folded(k) = DOMAIN recs
      /\ \A at \in Folded(k) : recs[at] = RecordOf(k, at)
  BY <1>1, RecordsAreFolded
<1>5. /\ HowMany(k, Succeeded) = Number(recs, Successes)
      /\ HowMany(k, LAMBDA r : r.usage # {}) = Number(recs, WithUsage)
      /\ \A slo : HowMany(k, LAMBDA r : Obligations(slo, r) # {}) = Number(recs, Held(slo))
      /\ \A slo : HowMany(k, LAMBDA r : /\ Obligations(slo, r) # {} /\ Succeeded(r)
                                       /\ \A o \in Obligations(slo, r) : Kept(r, o))
                    = Number(recs, KeptAll(slo))
      /\ \A m : HowMany(k, LAMBDA r : Succeeded(r) /\ Clock(r, m) # {})
                  = Number(recs, Timed(m))
  BY <1>1, HowManyIsNumber
<1> HIDE DEF f, recs, s
<1>6. /\ f.attempted = Cardinality(Folded(k)) /\ f.success + f.failed = f.attempted
      /\ f.success = HowMany(k, Succeeded)
      /\ f.id_steps + f.text_steps = Len(f.ttfts)
      /\ f.measured.steps = HowMany(k, LAMBDA r : r.usage # {})
      /\ f.measured.steps = f.attempted => f.measured.planned = f.planned.prefix
  BY <1>2, <1>4, <1>5 DEF CountsTell
<1>7. ASSUME NEW slo \in f.slo  PROVE  AttainmentAddsUp(k, slo)
  <2>1. SloTells(slo, recs)
    BY <1>2
  <2>2. /\ slo.all.evaluated = HowMany(k, LAMBDA r : Obligations(slo, r) # {})
        /\ slo.all.attained =
             HowMany(k, LAMBDA r : /\ Obligations(slo, r) # {} /\ Succeeded(r)
                                  /\ \A o \in Obligations(slo, r) : Kept(r, o))
    BY <1>5, <2>1 DEF SloTells
  <2>3. /\ slo.declared.attained <= slo.declared.evaluated
        /\ slo.spec # {} => \A m \in Metrics : slo.all.attained <= slo.metric[m].attained
                                                \/ The(slo.spec)[m] = {}
    BY <2>1 DEF SloTells
  <2>4. ASSUME NEW m \in Metrics, NEW c \in {slo.metric[m], slo.declared_metric[m]}
        PROVE  /\ c.evaluated = c.attained + c.violated + c.unmeasured
               /\ c.attained + c.violated
                    <= HowMany(k, LAMBDA r : Succeeded(r) /\ Clock(r, m) # {})
    <3>1. MetricTells(c, recs, m)
      BY <2>1, <2>4 DEF SloTells
    <3> QED
      BY <1>5, <3>1 DEF MetricTells
  <2> QED
    BY <2>2, <2>3, <2>4 DEF AttainmentAddsUp
<1>8. ASSUME NEW at \in Folded(k)
      PROVE  /\ The(f.first_submit) <= RecordOf(k, at).submit
             /\ RecordOf(k, at).complete <= The(f.last_complete)
  <2>1. \A x : The({x}) = x
    BY DEF The
  <2>2. at \in DOMAIN recs /\ recs[at] = RecordOf(k, at)
    BY <1>4
  <2>3. PICK a \in DOMAIN recs : f.first_submit = {recs[a].submit} /\ Earliest(recs, a)
    BY <1>2, <2>2 DEF InstantsTell
  <2>4. PICK b \in DOMAIN recs : f.last_complete = {recs[b].complete} /\ Latest(recs, b)
    BY <1>2, <2>2 DEF InstantsTell
  <2>5. The(f.first_submit) = recs[a].submit /\ The(f.last_complete) = recs[b].complete
    BY <2>1, <2>3, <2>4
  <2> QED
    BY <2>2, <2>3, <2>4, <2>5 DEF Earliest, Latest
<1>9. ASSUME NEW summary \in s.summary
      PROVE  /\ StatisticsHold(summary.totals, f.totals)
             /\ StatisticsHold(summary.ttfts, f.ttfts)
             /\ StatisticsHold(summary.tpots, f.tpots)
  <2>1. f.totals \in Seq(Nat) /\ f.ttfts \in Seq(Nat) /\ f.tpots \in Seq(Nat)
    BY <1>1 DEF ReportType
  <2>2. summary = Finalize(f)
    BY <1>3
  <2>3. /\ summary.totals = Statistics(f.totals) /\ summary.ttfts = Statistics(f.ttfts)
        /\ summary.tpots = Statistics(f.tpots)
    BY <2>2 DEF Finalize
  <2> QED
    BY <2>1, <2>3, StatisticsOfValues
<1> QED
  BY <1>6, <1>7, <1>8, <1>9 DEF f, s

\* In whatever order the records of a run arrive, its report counts every step once,
\* states attainment over the steps that were held to something, compares cache hits
\* with the plan of the same steps, has percentiles that are percentiles and spans
\* every step that was recorded.
THEOREM ShardsReportsAgree == Spec => []ReportsAgreeWithRecords
BY ShardsInvariant, InvReports, PTL

-----------------------------------------------------------------------------
(* Sums. *)

\* A sum counts the cells of a table with f[x] cells in column x.
Column(f, x) == {<<x, n>> : n \in 1 .. f[x]}
Cells(f, s) == UNION {Column(f, x) : x \in s}

LEMMA ColumnCounts ==
  ASSUME NEW f, NEW x, f[x] \in Nat
  PROVE  IsFiniteSet(Column(f, x)) /\ Cardinality(Column(f, x)) = f[x]
<1> DEFINE I == 1 .. f[x]
           b == [n \in I |-> <<x, n>>]
<1>1. IsFiniteSet(I) /\ Cardinality(I) = f[x]
  BY FS_Interval
<1>2. b \in Bijection(I, Column(f, x))
  <2>1. b \in [I -> Column(f, x)]
    BY DEF Column
  <2>2. \A m, n \in I : b[m] = b[n] => m = n
    OBVIOUS
  <2>3. \A c \in Column(f, x) : \E n \in I : b[n] = c
    BY DEF Column
  <2> QED
    BY <2>1, <2>2, <2>3, Fun_IsBij
<1>3. ExistsBijection(I, Column(f, x))
  BY <1>2 DEF ExistsBijection
<1> QED
  BY <1>1, <1>3, FS_Bijection

LEMMA CellsGrow ==
  ASSUME NEW f, NEW s, NEW x, x \notin s, f[x] \in Nat, IsFiniteSet(Cells(f, s))
  PROVE  /\ IsFiniteSet(Cells(f, s \cup {x}))
         /\ Cardinality(Cells(f, s \cup {x})) = Cardinality(Cells(f, s)) + f[x]
<1>1. Cells(f, s \cup {x}) = Cells(f, s) \cup Column(f, x)
  BY DEF Cells
<1>2. Cells(f, s) \cap Column(f, x) = {}
  BY DEF Cells, Column
<1>3. IsFiniteSet(Column(f, x)) /\ Cardinality(Column(f, x)) = f[x]
  BY ColumnCounts
<1>4. Cardinality(Cells(f, s)) \in Nat
  BY FS_CardinalityType
<1> DEFINE A == Cells(f, s)
           B == Column(f, x)
<1> HIDE DEF A, B
<1>5. /\ IsFiniteSet(A \cup B)
      /\ Cardinality(A \cup B) = Cardinality(A) + Cardinality(B) - Cardinality(A \cap B)
  BY <1>3, FS_Union DEF A, B
<1>6. Cardinality(A \cap B) = 0
  BY <1>2, FS_EmptySet DEF A, B
<1>7. Cardinality(A) \in Nat /\ Cardinality(B) = f[x]
  BY <1>3, <1>4 DEF A, B
<1>8. Cardinality(A \cup B) = Cardinality(A) + f[x]
  BY <1>5, <1>6, <1>7
<1> QED
  BY <1>1, <1>5, <1>8, Zenon DEF A, B

LEMMA NoCells == \A f : Cells(f, {}) = {} /\ IsFiniteSet({}) /\ Cardinality({}) = 0
BY FS_EmptySet DEF Cells

LEMMA CellsAreFinite ==
  ASSUME NEW S, IsFiniteSet(S), NEW f, \A x \in S : f[x] \in Nat
  PROVE  \A s \in SUBSET S : IsFiniteSet(Cells(f, s)) /\ Cardinality(Cells(f, s)) \in Nat
<1> DEFINE Good == {s \in SUBSET S : IsFiniteSet(Cells(f, s))}
<1>1. ASSUME NEW s \in SUBSET S, \A x \in s : s \ {x} \in Good
      PROVE  s \in Good
  <2>1. CASE s = {}
    BY <2>1, NoCells
  <2>2. CASE s # {}
    <3>1. PICK x : x \in s
      BY <2>2
    <3>2. s = (s \ {x}) \cup {x} /\ s \ {x} \in Good /\ f[x] \in Nat
      BY <1>1, <3>1
    <3>3. IsFiniteSet(Cells(f, (s \ {x}) \cup {x}))
      BY <3>2, CellsGrow
    <3> QED
      BY <3>2, <3>3
  <2> QED
    BY <2>1, <2>2
<1> HIDE DEF Good
<1>2. \A s \in SUBSET S : s \in Good
  BY <1>1, SetsGrow
<1> QED
  BY <1>2, FS_CardinalityType DEF Good

\* The equation of the recursive function in MapThenFoldSet.
Picked(s) == CHOOSE x \in s : TRUE
AddsUp(f, g) ==
  g = [s \in SUBSET DOMAIN f |-> IF s = {} THEN 0 ELSE f[Picked(s)] + g[s \ {Picked(s)}]]

\* A sum over a finite set counts its cells.
LEMMA SumCountsCells ==
  ASSUME NEW S, IsFiniteSet(S), NEW f \in [S -> Nat]
  PROVE  SumOf(f) = Cardinality(Cells(f, S)) /\ SumOf(f) \in Nat
<1> DEFINE g == [s \in SUBSET S |-> Cardinality(Cells(f, s))]
           turn(h, s) == IF s = {} THEN 0 ELSE f[Picked(s)] + h[s \ {Picked(s)}]
<1>1. DOMAIN f = S /\ \A x \in S : f[x] \in Nat
  OBVIOUS
<1>2. \A s \in SUBSET S : g[s] = turn(g, s)
  <2> SUFFICES ASSUME NEW s \in SUBSET S  PROVE  g[s] = turn(g, s)
    OBVIOUS
  <2>1. CASE s = {}
    BY <2>1, NoCells
  <2>2. CASE s # {}
    <3> DEFINE x == Picked(s)
               r == s \ {x}
    <3>1. x \in s
      BY <2>2 DEF Picked
    <3> HIDE DEF x
    <3>2. s = r \cup {x} /\ x \notin r /\ r \in SUBSET S /\ f[x] \in Nat
      BY <1>1, <3>1
    <3>3. IsFiniteSet(Cells(f, r)) /\ Cardinality(Cells(f, r)) \in Nat
      BY <1>1, <3>2, CellsAreFinite
    <3>4. Cardinality(Cells(f, r \cup {x})) = Cardinality(Cells(f, r)) + f[x]
      BY <3>2, <3>3, CellsGrow
    <3>5. g[s] = Cardinality(Cells(f, r \cup {x})) /\ g[r] = Cardinality(Cells(f, r))
      BY <3>2
    <3>6. g[s] = f[x] + g[r]
      BY <3>2, <3>3, <3>4, <3>5
    <3> HIDE DEF g
    <3> QED
      BY <2>2, <3>6 DEF x
  <2> QED
    BY <2>1, <2>2
<1>3. AddsUp(f, g)
  <2>1. g = [s \in SUBSET S |-> g[s]]
    OBVIOUS
  <2> HIDE DEF g
  <2>2. g = [s \in SUBSET S |-> turn(g, s)]
    BY <1>2, <2>1
  <2> QED
    BY <1>1, <2>2 DEF AddsUp
<1> DEFINE h == CHOOSE u : AddsUp(f, u)
<1>4. AddsUp(f, h)
  BY <1>3
<1>5. SumOf(f) = h[DOMAIN f]
  BY Zenon DEF SumOf, MapThenSumSet, MapThenFoldSet, AddsUp, Picked
<1> HIDE DEF g, h
<1>6. \A s \in SUBSET S : h[s] = turn(h, s)
  BY <1>1, <1>4 DEF AddsUp
<1> DEFINE Good == {s \in SUBSET S : h[s] = g[s]}
<1>7. ASSUME NEW s \in SUBSET S, \A x \in s : s \ {x} \in Good
      PROVE  s \in Good
  <2>1. CASE s = {}
    BY <1>2, <1>6, <2>1
  <2>2. CASE s # {}
    <3> DEFINE x == Picked(s)
    <3>1. x \in s
      BY <2>2 DEF Picked
    <3>2. h[s \ {x}] = g[s \ {x}]
      BY <1>7, <3>1
    <3>3. h[s] = f[x] + h[s \ {x}] /\ g[s] = f[x] + g[s \ {x}]
      BY <1>2, <1>6, <2>2
    <3> QED
      BY <3>2, <3>3
  <2> QED
    BY <2>1, <2>2
<1> HIDE DEF Good
<1>8. \A s \in SUBSET S : s \in Good
  BY <1>7, SetsGrow
<1>9. h[S] = g[S]
  BY <1>8 DEF Good
<1>10. g[S] = Cardinality(Cells(f, S)) /\ Cardinality(Cells(f, S)) \in Nat
  BY <1>1, CellsAreFinite DEF g
<1> QED
  BY <1>1, <1>5, <1>9, <1>10

LEMMA SumsAdd ==
  ASSUME NEW S, IsFiniteSet(S), NEW f \in [S -> Nat], NEW g \in [S -> Nat]
  PROVE  SumOf([x \in S |-> f[x] + g[x]]) = SumOf(f) + SumOf(g)
<1> DEFINE h == [x \in S |-> f[x] + g[x]]
           Size(u, s) == Cardinality(Cells(u, s))
           Good == {s \in SUBSET S : Size(h, s) = Size(f, s) + Size(g, s)}
<1>1. h \in [S -> Nat] /\ \A x \in S : h[x] = f[x] + g[x]
  OBVIOUS
<1> HIDE DEF h
<1>2. /\ \A x \in S : f[x] \in Nat /\ g[x] \in Nat /\ h[x] \in Nat
      /\ SumOf(f) = Size(f, S) /\ SumOf(g) = Size(g, S) /\ SumOf(h) = Size(h, S)
  BY <1>1, SumCountsCells
<1>3. \A s \in SUBSET S : /\ IsFiniteSet(Cells(f, s)) /\ Size(f, s) \in Nat
                          /\ IsFiniteSet(Cells(g, s)) /\ Size(g, s) \in Nat
                          /\ IsFiniteSet(Cells(h, s)) /\ Size(h, s) \in Nat
  BY <1>2, CellsAreFinite
<1>4. ASSUME NEW s \in SUBSET S, \A x \in s : s \ {x} \in Good
      PROVE  s \in Good
  <2>1. CASE s = {}
    BY <2>1, NoCells
  <2>2. CASE s # {}
    <3>1. PICK x : x \in s
      BY <2>2
    <3> DEFINE r == s \ {x}
    <3>2. s = r \cup {x} /\ x \notin r /\ r \in SUBSET S /\ r \in Good /\ x \in S
      BY <1>4, <3>1
    <3> HIDE DEF r
    <3>3. /\ Size(f, r \cup {x}) = Size(f, r) + f[x]
          /\ Size(g, r \cup {x}) = Size(g, r) + g[x]
          /\ Size(h, r \cup {x}) = Size(h, r) + h[x]
      BY <1>2, <1>3, <3>2, CellsGrow
    <3>4. Size(h, r) = Size(f, r) + Size(g, r) /\ h[x] = f[x] + g[x]
      BY <1>1, <3>2
    <3>5. /\ Size(f, r) \in Nat /\ Size(g, r) \in Nat
          /\ f[x] \in Nat /\ g[x] \in Nat
      BY <1>2, <1>3, <3>2
    <3> HIDE DEF Size
    <3>6. Size(h, r \cup {x}) = Size(f, r \cup {x}) + Size(g, r \cup {x})
      BY <3>3, <3>4, <3>5
    <3> QED
      BY <3>2, <3>6
  <2> QED
    BY <2>1, <2>2
<1> HIDE DEF Good
<1>5. \A s \in SUBSET S : s \in Good
  BY <1>4, SetsGrow
<1>6. Size(h, S) = Size(f, S) + Size(g, S)
  BY <1>5 DEF Good
<1> QED
  BY <1>2, <1>6 DEF h

\* f counts the parts that a set falls into.
Counted(S, T, part, f) ==
  /\ part \in [T -> S] /\ f \in [S -> Nat]
  /\ \A x \in S : f[x] = Cardinality({t \in T : part[t] = x})

\* The parts of a set, as many as a sum adds up, make up the whole.
LEMMA PartsAddUp ==
  ASSUME NEW S, IsFiniteSet(S), NEW T, IsFiniteSet(T), NEW part, NEW f,
         Counted(S, T, part, f)
  PROVE  SumOf(f) = Cardinality(T)
<1> DEFINE Of(s) == {t \in T : part[t] \in s}
           Good == {s \in SUBSET S : Cardinality(Cells(f, s)) = Cardinality(Of(s))}
<1>1. /\ part \in [T -> S] /\ f \in [S -> Nat]
      /\ \A x \in S : f[x] \in Nat
  BY DEF Counted
<1>2. SumOf(f) = Cardinality(Cells(f, S))
  BY <1>1, SumCountsCells
<1>3. \A s \in SUBSET S : IsFiniteSet(Cells(f, s)) /\ Cardinality(Cells(f, s)) \in Nat
  BY <1>1, CellsAreFinite
<1>4. ASSUME NEW s \in SUBSET S, \A x \in s : s \ {x} \in Good
      PROVE  s \in Good
  <2>1. CASE s = {}
    <3>1. Of(s) = {}
      BY <2>1
    <3> QED
      BY <2>1, <3>1, NoCells
  <2>2. CASE s # {}
    <3>1. PICK x : x \in s
      BY <2>2
    <3> DEFINE r == s \ {x}
               one == {t \in T : part[t] = x}
    <3>2. s = r \cup {x} /\ x \notin r /\ r \in SUBSET S /\ r \in Good /\ x \in S
      BY <1>4, <3>1
    <3> HIDE DEF r
    <3>3. Of(r \cup {x}) = Of(r) \cup one /\ Of(r) \cap one = {}
      BY <3>2
    <3>4. Cardinality(Cells(f, r \cup {x})) = Cardinality(Cells(f, r)) + f[x]
      BY <1>1, <1>3, <3>2, CellsGrow
    <3>5. /\ IsFiniteSet(Of(r)) /\ IsFiniteSet(one)
          /\ Cardinality(Of(r)) \in Nat /\ Cardinality(one) \in Nat
      BY FS_Subset, FS_CardinalityType
    <3>6. f[x] = Cardinality(one) /\ Cardinality(Cells(f, r)) = Cardinality(Of(r))
      BY <3>2 DEF Counted
    <3> HIDE DEF Of, one
    <3>7. Cardinality(Of(r) \cup one)
            = Cardinality(Of(r)) + Cardinality(one) - Cardinality(Of(r) \cap one)
      BY <3>5, FS_Union
    <3>8. Cardinality(Of(r) \cap one) = 0
      BY <3>3, FS_EmptySet
    <3>9. Cardinality(Of(r) \cup one) = Cardinality(Of(r)) + f[x]
      BY <3>5, <3>6, <3>7, <3>8
    <3>10. Cardinality(Cells(f, r \cup {x})) = Cardinality(Of(r \cup {x}))
      BY <3>3, <3>4, <3>6, <3>9, Zenon
    <3> QED
      BY <3>2, <3>10
  <2> QED
    BY <2>1, <2>2
<1> HIDE DEF Good
<1>5. \A s \in SUBSET S : s \in Good
  BY <1>4, SetsGrow
<1>6. Cardinality(Cells(f, S)) = Cardinality(Of(S))
  BY <1>5 DEF Good
<1>7. Of(S) = T
  BY <1>1
<1> QED
  BY <1>2, <1>6, <1>7

-----------------------------------------------------------------------------
(* What is written over all shards is the sum of complete ones. *)

\* The steps of the workload, by the place of their unit.
StepsOfAll == [i \in DOMAIN Workload |-> Len(trace[i].steps)]
AllSteps == Cells(StepsOfAll, DOMAIN Workload)

LEMMA StepsOfAllTypes ==
  ASSUME trace \in Traces, launch \in Launches
  PROVE  /\ IsFiniteSet(DOMAIN Workload) /\ StepsOfAll \in [DOMAIN Workload -> Nat]
         /\ IsFiniteSet(AllSteps)
         /\ SumOf(StepsOfAll) = Cardinality(AllSteps)
<1>1. IsFiniteSet(DOMAIN Workload)
  BY WorkloadItems, FS_Interval
<1>2. StepsOfAll \in [DOMAIN Workload -> Nat]
  <2>1. \A i \in DOMAIN Workload : trace[i] \in Units
    BY WorkloadItems
  <2>2. \A u \in Units : Len(u.steps) \in Nat
    BY DEF Units
  <2> QED
    BY <2>1, <2>2 DEF StepsOfAll
<1>3. \A i \in DOMAIN Workload : StepsOfAll[i] \in Nat
  BY <1>2
<1> QED
  BY <1>1, <1>2, <1>3, SumCountsCells, CellsAreFinite DEF AllSteps

\* A run that has done all its units has recorded the steps of its share, one for one.
LEMMA StepsOfTheShare ==
  ASSUME ShardsInv, NEW k \in Indices, Working(k, shards[k]), AllDone(shards[k])
  PROVE  Cardinality({t \in AllSteps : (t[1] - 1) % launch.processes = k})
           = Cardinality(Steps(shards[k]))
<1> DEFINE s == shards[k]
           c == launch.processes
           P == {t \in AllSteps : (t[1] - 1) % c = k}
           b == [at \in Steps(s) |-> <<s.units[at[1]].place, at[2]>>]
<1>0. trace \in Traces /\ launch \in Launches /\ c \in Nat \ {0} /\ k \in 0 .. c - 1
  BY LaunchTypes DEF ShardsInv
<1>1. s.units = Mine(k) /\ IsFiniteSet(Steps(s))
  BY DEF Working, Progress
<1>2. \A i \in DOMAIN s.units :
        /\ i - 1 \in Nat
        /\ s.units[i].place \in DOMAIN Workload
        /\ s.units[i].place = OrdinalOf(i, k) + 1
        /\ s.units[i].unit = trace[s.units[i].place]
  BY <1>0, <1>1, MineItems
<1>3. \A p \in DOMAIN Workload : (p - 1) % c = k => \E j \in DOMAIN s.units : s.units[j].place = p
  BY <1>0, <1>1, MineItems
<1>4. \A i \in DOMAIN s.units : s.done[i] = StepsOfAll[s.units[i].place]
  BY <1>2 DEF AllDone, StepsOfAll
<1>5. ASSUME NEW i \in DOMAIN s.units
      PROVE  /\ (s.units[i].place - 1) % c = k
             /\ (s.units[i].place - 1) \div c = i - 1
  <2> DEFINE a == i - 1
             o == a * c + k
  <2>1. s.units[i].place = o + 1 /\ a \in Nat
    BY <1>2 DEF OrdinalOf
  <2> HIDE DEF a, c
  <2>2. o \in Nat /\ o % c = k /\ o \div c = a
    BY <1>0, <2>1, DivisionIsUnique, OrdinalLeaves
  <2> HIDE DEF o
  <2>3. s.units[i].place - 1 = o
    BY <2>1, <2>2
  <2> QED
    BY <2>2, <2>3 DEF a
<1> HIDE DEF s, c
<1>6. \A at \in Steps(s) : /\ at = <<at[1], at[2]>> /\ at[1] \in DOMAIN s.units
                           /\ at[2] \in 1 .. s.done[at[1]]
  BY DEF Steps
<1>7. b \in [Steps(s) -> P]
  <2>1. ASSUME NEW at \in Steps(s)  PROVE  <<s.units[at[1]].place, at[2]>> \in P
    <3> DEFINE i == at[1]
               p == s.units[i].place
    <3>1. i \in DOMAIN s.units /\ at[2] \in 1 .. s.done[i]
      BY <1>6
    <3>2. p \in DOMAIN Workload /\ s.done[i] = StepsOfAll[p] /\ (p - 1) % c = k
      BY <1>2, <1>4, <1>5, <3>1
    <3> HIDE DEF i, p
    <3>3. <<p, at[2]>> \in Column(StepsOfAll, p)
      BY <3>1, <3>2 DEF Column
    <3>4. <<p, at[2]>> \in AllSteps
      BY <3>2, <3>3 DEF AllSteps, Cells
    <3>5. <<p, at[2]>>[1] = p
      OBVIOUS
    <3>6. <<p, at[2]>> \in P
      BY <3>2, <3>4, <3>5
    <3> QED
      BY <3>6 DEF p, i
  <2> QED
    BY <2>1
<1>8. \A x, y \in Steps(s) : b[x] = b[y] => x = y
  <2> SUFFICES ASSUME NEW x \in Steps(s), NEW y \in Steps(s), b[x] = b[y]  PROVE  x = y
    OBVIOUS
  <2>1. s.units[x[1]].place = s.units[y[1]].place /\ x[2] = y[2]
    OBVIOUS
  <2>2. x[1] - 1 = y[1] - 1 /\ x[1] - 1 \in Nat /\ y[1] - 1 \in Nat
    BY <1>2, <1>5, <1>6, <2>1
  <2>3. DOMAIN s.units \subseteq Nat
    BY <1>0, <1>1, MineItems
  <2>4. x[1] = y[1]
    BY <1>6, <2>2, <2>3
  <2> QED
    BY <1>6, <2>1, <2>4
<1>9. \A t \in P : \E at \in Steps(s) : b[at] = t
  <2> SUFFICES ASSUME NEW t \in P  PROVE  \E at \in Steps(s) : b[at] = t
    OBVIOUS
  <2>1. PICK p \in DOMAIN Workload : t \in Column(StepsOfAll, p)
    BY DEF AllSteps, Cells
  <2>2. PICK n \in 1 .. StepsOfAll[p] : t = <<p, n>>
    BY <2>1 DEF Column
  <2>3. (p - 1) % c = k
    BY <2>2
  <2>4. PICK i \in DOMAIN s.units : s.units[i].place = p
    BY <1>3, <2>3
  <2>5. n \in 1 .. s.done[i]
    BY <1>4, <2>4
  <2>6. <<i, n>> \in Steps(s)
    BY <2>5 DEF Steps
  <2>7. b[<<i, n>>] = t
    BY <2>2, <2>4, <2>6
  <2> QED
    BY <2>6, <2>7
<1> HIDE DEF P, b
<1>10. b \in Bijection(Steps(s), P)
  BY <1>7, <1>8, <1>9, Fun_IsBij
<1>11. Cardinality(P) = Cardinality(Steps(s))
  BY <1>1, <1>10, FS_Bijection DEF ExistsBijection, s
<1> QED
  BY <1>11 DEF P, s, c

\* What a run that succeeded and can be added has in its summary.
LEMMA AddableSummary ==
  ASSUME ShardsInv, NEW k \in Indices, Exited(k),
         The(shards[k].summary).throughput # {}
  PROVE  LET s == shards[k]
             summary == The(s.summary)
             quotient == The(summary.throughput)
         IN  /\ Working(k, s) /\ AllDone(s)
             /\ summary.attempted = Cardinality(Steps(s))
             /\ summary.attempted \in Nat /\ summary.success \in Nat /\ summary.failed \in Nat
             /\ summary.success + summary.failed = summary.attempted
             /\ quotient[1] = summary.success
             /\ \E r, t \in AllRecords : quotient[2] <= t.complete - r.submit
<1> DEFINE s == shards[k]
           f == s.report
           recs == RecordsOf(s)
           summary == The(s.summary)
           quotient == The(summary.throughput)
<1>0. \A x : The({x}) = x
  BY DEF The
<1>1. Working(k, s) /\ f \in ReportType /\ s.exit = {0}
  BY DEF ShardsInv, ShardInv, Fresh, Exited
<1>2. CountsTell(f, recs) /\ InstantsTell(f, recs) /\ DOMAIN recs = Steps(s)
  BY <1>1 DEF Working, Progress, Tells, RecordsOf
<1>3. summary = Finalize(f)
  BY <1>0, <1>1 DEF Working
<1>4. /\ Folded(k) = DOMAIN recs
      /\ \A at \in Folded(k) : recs[at] = RecordOf(k, at) /\ RecordOf(k, at) \in Records
  BY <1>1, RecordsAreFolded
<1>5. /\ summary.attempted = f.attempted /\ summary.success = f.success
      /\ summary.failed = f.failed
      /\ summary.throughput = {<<f.success, d>> : d \in Duration(f)}
  BY <1>3 DEF Finalize
<1>6. /\ f.first_submit # {}
      /\ Duration(f) = {The(f.last_complete) - The(f.first_submit)}
  BY <1>5 DEF Duration
<1>7. PICK a \in DOMAIN recs : f.first_submit = {recs[a].submit}
  BY <1>2, <1>6 DEF InstantsTell
<1>8. PICK b \in DOMAIN recs : f.last_complete = {recs[b].complete}
  BY <1>2, <1>6 DEF InstantsTell
<1>9. ~launch.dry_run
  <2>1. SUFFICES ASSUME launch.dry_run  PROVE  FALSE
    OBVIOUS
  <2>2. \A i \in DOMAIN s.units : s.done[i] = 0
    BY <1>1, <2>1 DEF Working
  <2>3. 1 .. 0 = {}
    OBVIOUS
  <2>4. Steps(s) = {}
    BY <2>2, <2>3 DEF Steps
  <2> QED
    BY <1>2, <1>7, <2>4
<1>10. AllDone(s)
  BY <1>1, <1>9 DEF Working
<1> HIDE DEF f, recs, summary
<1>11. /\ summary.attempted = Cardinality(Steps(s))
       /\ summary.attempted \in Nat /\ summary.success \in Nat /\ summary.failed \in Nat
       /\ summary.success + summary.failed = summary.attempted
  BY <1>1, <1>2, <1>5 DEF CountsTell, ReportType
<1>12. quotient = <<f.success, recs[b].complete - recs[a].submit>>
  <2>1. The(f.last_complete) - The(f.first_submit) = recs[b].complete - recs[a].submit
    BY <1>0, <1>7, <1>8
  <2>2. summary.throughput = {<<f.success, recs[b].complete - recs[a].submit>>}
    BY <1>5, <1>6, <2>1
  <2> QED
    BY <1>0, <2>2
<1> HIDE DEF quotient
<1>13. quotient[1] = summary.success /\ quotient[2] = recs[b].complete - recs[a].submit
  BY <1>5, <1>12
<1>14. \E r, t \in AllRecords : quotient[2] <= t.complete - r.submit
  <2>1. recs[a] \in AllRecords /\ recs[b] \in AllRecords
    BY <1>4 DEF AllRecords
  <2>2. recs[a] \in Records /\ recs[b] \in Records
    BY <1>4
  <2>3. recs[a].submit \in Nat /\ recs[b].complete \in Nat
    BY <2>2 DEF Records
  <2>4. quotient[2] <= recs[b].complete - recs[a].submit
    BY <1>13, <2>3
  <2> QED
    BY <2>1, <2>4
<1> HIDE DEF s
<1> QED
  BY <1>1, <1>10, <1>11, <1>13, <1>14, Zenon DEF quotient, summary, s

LEMMA InvAggregate ==
  ASSUME ShardsInv
  PROVE  AggregateIsTheSum
<1>1. ASSUME NEW sum \in aggregate
      PROVE  /\ sum.attempted = SumOf([i \in DOMAIN Workload |-> Len(trace[i].steps)])
             /\ sum.success + sum.failed = sum.attempted
             /\ sum.success = SumOf([k \in Indices |-> sum.throughput[k][1]])
             /\ \A k \in Indices : \E r, s \in AllRecords :
                  sum.throughput[k][2] <= s.complete - r.submit
  <2> DEFINE summary(k) == The(shards[k].summary)
             quotient(k) == The(summary(k).throughput)
             attempted == [k \in Indices |-> summary(k).attempted]
             success == [k \in Indices |-> summary(k).success]
             failed == [k \in Indices |-> summary(k).failed]
             c == launch.processes
  <2>0. /\ trace \in Traces /\ launch \in Launches
        /\ c \in Nat \ {0} /\ Indices = 0 .. c - 1 /\ IsFiniteSet(Indices)
    BY LaunchTypes, FS_Interval DEF ShardsInv
  <2>1. /\ sum = Sum(Indices) /\ Unaddable(Indices) = {} /\ \A k \in Indices : Exited(k)
    BY <1>1 DEF ShardsInv, LauncherInv
  <2>2. \A k \in Indices : summary(k).throughput # {}
    BY <2>1 DEF Unaddable
  <2>3. \A k \in Indices :
          /\ Working(k, shards[k]) /\ AllDone(shards[k])
          /\ summary(k).attempted = Cardinality(Steps(shards[k]))
          /\ summary(k).attempted \in Nat /\ summary(k).success \in Nat
          /\ summary(k).failed \in Nat
          /\ summary(k).success + summary(k).failed = summary(k).attempted
          /\ quotient(k)[1] = summary(k).success
          /\ \E r, t \in AllRecords : quotient(k)[2] <= t.complete - r.submit
    BY <2>1, <2>2, AddableSummary
  <2>4. /\ sum.attempted = SumOf(attempted) /\ sum.success = SumOf(success)
        /\ sum.failed = SumOf(failed)
        /\ sum.throughput = [k \in Indices |-> quotient(k)]
    BY <2>1 DEF Sum, Total
  <2> HIDE DEF summary, quotient
  <2>5. /\ attempted \in [Indices -> Nat] /\ success \in [Indices -> Nat]
        /\ failed \in [Indices -> Nat]
    BY <2>3
  <2>6. sum.attempted = SumOf(StepsOfAll)
    <3> DEFINE part == [t \in AllSteps |-> (t[1] - 1) % c]
    <3>1. /\ IsFiniteSet(AllSteps) /\ SumOf(StepsOfAll) = Cardinality(AllSteps)
      BY <2>0, StepsOfAllTypes
    <3>2. part \in [AllSteps -> Indices]
      <4>1. ASSUME NEW t \in AllSteps  PROVE  (t[1] - 1) % c \in Indices
        <5>1. t[1] \in DOMAIN Workload
          BY DEF AllSteps, Cells, Column
        <5>2. t[1] - 1 \in Nat
          BY <2>0, <5>1, WorkloadItems
        <5> QED
          BY <2>0, <5>2
      <4> QED
        BY <4>1
    <3>3. ASSUME NEW k \in Indices
          PROVE  attempted[k] = Cardinality({t \in AllSteps : part[t] = k})
      <4>1. {t \in AllSteps : part[t] = k} = {t \in AllSteps : (t[1] - 1) % c = k}
        OBVIOUS
      <4>2. Cardinality({t \in AllSteps : (t[1] - 1) % c = k}) = Cardinality(Steps(shards[k]))
        BY <2>3, StepsOfTheShare
      <4>3. attempted[k] = summary(k).attempted
        OBVIOUS
      <4> QED
        BY <2>3, <4>1, <4>2, <4>3
    <3> HIDE DEF part, attempted
    <3>4. Counted(Indices, AllSteps, part, attempted)
      BY <2>5, <3>2, <3>3 DEF Counted
    <3>5. SumOf(attempted) = Cardinality(AllSteps)
      BY <2>0, <3>1, <3>4, PartsAddUp
    <3> QED
      BY <2>4, <3>1, <3>5
  <2>7. sum.success + sum.failed = sum.attempted
    <3>1. attempted = [k \in Indices |-> success[k] + failed[k]]
      BY <2>3
    <3> HIDE DEF attempted, success, failed
    <3>2. SumOf([k \in Indices |-> success[k] + failed[k]]) = SumOf(success) + SumOf(failed)
      BY <2>0, <2>5, SumsAdd
    <3> QED
      BY <2>4, <3>1, <3>2
  <2>8. success = [k \in Indices |-> sum.throughput[k][1]]
    BY <2>3, <2>4
  <2>9. \A k \in Indices : \E r, t \in AllRecords :
          sum.throughput[k][2] <= t.complete - r.submit
    <3>1. \A k \in Indices : sum.throughput[k] = quotient(k)
      BY <2>4
    <3> QED
      BY <2>3, <3>1
  <2> HIDE DEF attempted, success, failed
  <2> QED
    BY <2>4, <2>6, <2>7, <2>8, <2>9 DEF StepsOfAll
<1>2. /\ launcher = "failed" => \E k \in Indices : shards[k].exit = {1}
      /\ launcher = "done" =>
           /\ \A k \in Indices : Exited(k)
           /\ launch.processes > 1 /\ ~launch.by_hand => aggregate # {}
      /\ launcher = "crashed" /\ codes # <<>> =>
           \E k \in Indices : Exited(k) /\ The(shards[k].summary).throughput = {}
  BY DEF ShardsInv, LauncherInv
<1> QED
  BY <1>1, <1>2, Zenon DEF AggregateIsTheSum

\* Whatever fails and when: the launcher writes an aggregate exactly when every shard
\* has succeeded and has a throughput, its counts are those of the whole workload, and
\* the quotients of its throughput together have all its successes over durations none
\* of which is longer than from the first submission to the last completion.
THEOREM ShardsAggregate == Spec => []AggregateIsTheSum
BY ShardsInvariant, InvAggregate, PTL
===============================================================================
