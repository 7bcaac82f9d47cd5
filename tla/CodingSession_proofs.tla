------------------------ MODULE CodingSession_proofs ------------------------
(***************************************************************************)
(* Proofs about CodingSession: whatever is interrupted, compacted,         *)
(* branched or stored in between, what a restart would find keeps up with  *)
(* the transcript in memory, for all values of the constants.              *)
(*                                                                         *)
(* The replay of a file is defined by recursion over its entries. Facts    *)
(* about it are proved by looking at the least entry that breaks them.     *)
(***************************************************************************)
EXTENDS CodingSession, SequenceTheorems, FiniteSetTheorems, WellFoundedInduction, TLAPS

LEMMA Least ==
    ASSUME NEW T, T \subseteq Nat, T # {}
    PROVE  \E x \in T : \A y \in T : x <= y
<1> DEFINE R == {ss \in Nat \X Nat : ss[1] < ss[2]}
<1>1. IsWellFoundedOn(R, Nat)
  BY NatLessThanWellFounded DEF OpToRel
<1>2. \E x \in T : \A y \in T : ~(<<y, x>> \in R)
  <2> HIDE DEF R
  <2> QED
    BY <1>1, WFMin
<1>3. ASSUME NEW x \in T, NEW y \in T, ~(x <= y)
      PROVE  <<y, x>> \in R
  <2>1. y < x
    BY <1>3
  <2> QED
    BY <2>1
<1> QED
  BY <1>2, <1>3
-----------------------------------------------------------------------------
(* Sequences.                                                              *)

\* FlattenSeq does what its recursion says.
LEMMA FlattenSteps ==
    ASSUME NEW q, NEW n \in Nat, n = Len(q), n > 0
    PROVE  \E f : /\ f = [i \in 1..n |-> IF i = 1 THEN q[i] ELSE f[i - 1] \o q[i]]
                  /\ FlattenSeq(q) = f[n]
<1> DEFINE Defines(g, m) == g = [i \in 1..m |-> IF i = 1 THEN q[i] ELSE g[i - 1] \o q[i]]
           Bad == {m \in 1..n : ~ \E g : Defines(g, m)}
<1>1. Bad = {}
  <2> SUFFICES ASSUME Bad # {} PROVE FALSE
    OBVIOUS
  <2>1. PICK m \in Bad : \A y \in Bad : m <= y
    <3> HIDE DEF Defines
    <3>1. Bad \subseteq Nat
      OBVIOUS
    <3> HIDE DEF Bad
    <3> QED
      BY <3>1, Least
  <2>2. CASE m = 1
    <3>1. Defines([i \in 1..1 |-> q[i]], 1)
      OBVIOUS
    <3> HIDE DEF Defines
    <3> QED
      BY <2>2, <3>1
  <2>3. CASE m # 1
    <3>1. m \in 1..n /\ m - 1 \in 1..n /\ m - 1 \notin Bad
      <4> HIDE DEF Defines
      <4>1. m \in 1..n
        OBVIOUS
      <4> HIDE DEF Bad
      <4> QED
        BY <4>1, <2>1, <2>3
    <3>2. PICK g : Defines(g, m - 1)
      <4> HIDE DEF Defines
      <4> QED
        BY <3>1
    <3> DEFINE h == [i \in 1..m |-> IF i = m THEN g[m - 1] \o q[m] ELSE g[i]]
    <3>3. Defines(h, m)
      <4>1. ASSUME NEW i \in 1..m
            PROVE  h[i] = IF i = 1 THEN q[i] ELSE h[i - 1] \o q[i]
        <5>1. CASE i = m
          <6>1. h[m - 1] = g[m - 1]
            BY <2>3, <2>1
          <6> QED
            BY <6>1, <5>1, <2>3
        <5>2. CASE i # m
          <6>1. i \in 1..m - 1 /\ h[i] = g[i]
            BY <5>2
          <6>2. g[i] = IF i = 1 THEN q[i] ELSE g[i - 1] \o q[i]
            BY <6>1, <3>2
          <6>3. i # 1 => h[i - 1] = g[i - 1]
            BY <5>2
          <6> HIDE DEF h
          <6> QED
            BY <6>1, <6>2, <6>3
        <5> QED
          BY <5>1, <5>2
      <4>2. h = [i \in 1..m |-> h[i]]
        OBVIOUS
      <4> HIDE DEF h
      <4> QED
        BY <4>1, <4>2
    <3> HIDE DEF Defines, h
    <3> QED
      BY <3>3
  <2> QED
    BY <2>2, <2>3
<1>2. \E g : Defines(g, n)
  <2> HIDE DEF Defines
  <2>1. n \in 1..n
    OBVIOUS
  <2> QED
    BY ONLY <1>1, <2>1
<1> DEFINE f == CHOOSE g : Defines(g, n)
<1>3. Defines(f, n)
  <2> HIDE DEF Defines
  <2> QED
    BY <1>2
<1>4. FlattenSeq(q) = f[n]
  BY DEF FlattenSeq
<1> HIDE DEF f
<1> QED
  BY <1>3, <1>4

LEMMA FlattenProperties ==
    ASSUME NEW S, NEW q \in Seq(Seq(S))
    PROVE  /\ FlattenSeq(q) \in Seq(S)
           /\ (\A i \in 1..Len(q) : q[i] # <<>>) =>
                 /\ Len(FlattenSeq(q)) >= Len(q)
                 /\ q # <<>> => FlattenSeq(q)[1] = q[1][1]
<1> DEFINE n == Len(q)
           full == \A i \in 1..n : q[i] # <<>>
<1>1. n \in Nat /\ \A i \in 1..n : q[i] \in Seq(S) /\ Len(q[i]) \in Nat
  OBVIOUS
<1>2. CASE n = 0
  <2>1. q = <<>>
    BY <1>2
  <2>2. FlattenSeq(q) = <<>>
    BY <2>1, <1>2 DEF FlattenSeq
  <2>3. FlattenSeq(q) \in Seq(S) /\ Len(FlattenSeq(q)) = 0
    BY <2>2
  <2> QED
    BY <2>1, <2>3, <1>2
<1>3. CASE n > 0
  <2>1. PICK f : /\ f = [i \in 1..n |-> IF i = 1 THEN q[i] ELSE f[i - 1] \o q[i]]
                 /\ FlattenSeq(q) = f[n]
    BY <1>1, <1>3, FlattenSteps
  <2> DEFINE Good(m) == /\ f[m] \in Seq(S)
                        /\ full => Len(f[m]) >= m /\ f[m][1] = q[1][1]
             Bad == {m \in 1..n : ~Good(m)}
  <2>2. f[1] = q[1] /\ \A m \in 1..n : m # 1 => f[m] = f[m - 1] \o q[m]
    <3> HIDE DEF n
    <3>1. \A m \in 1..n : f[m] = IF m = 1 THEN q[m] ELSE f[m - 1] \o q[m]
      BY <2>1
    <3>2. f[1] = q[1]
      <4>1. 1 \in 1..n
        BY <1>1, <1>3
      <4> QED
        BY <3>1, <4>1, Zenon
    <3>3. \A m \in 1..n : m # 1 => f[m] = f[m - 1] \o q[m]
      BY <3>1, Zenon
    <3> QED
      BY <3>2, <3>3
  <2>3. Bad = {}
    <3> SUFFICES ASSUME Bad # {} PROVE FALSE
      OBVIOUS
    <3>1. PICK m \in Bad : \A y \in Bad : m <= y
      <4> HIDE DEF Good
      <4>1. Bad \subseteq Nat
        OBVIOUS
      <4> HIDE DEF Bad
      <4> QED
        BY <4>1, Least
    <3>2. m \in 1..n /\ ~Good(m)
      BY <3>1
    <3>3. CASE m = 1
      <4>1. q[1] \in Seq(S) /\ (full => q[1] # <<>>)
        BY <1>1, <1>3
      <4>2. full => Len(q[1]) >= 1
        BY <4>1, EmptySeq
      <4> HIDE DEF full
      <4> QED
        BY <4>1, <4>2, <3>3, <3>2, <2>2
    <3>4. CASE m # 1
      <4>1. m - 1 \in 1..n /\ Good(m - 1)
        <5> HIDE DEF Good
        <5>1. m - 1 \in 1..n
          BY <3>2, <3>4
        <5>2. m - 1 \notin Bad
          <6> HIDE DEF Bad
          <6> QED
            BY <5>1, <3>1, <3>2
        <5> QED
          BY <5>1, <5>2
      <4>2. f[m] = f[m - 1] \o q[m] /\ f[m - 1] \in Seq(S) /\ q[m] \in Seq(S)
        BY <4>1, <3>2, <3>4, <2>2, <1>1
      <4>3. /\ f[m] \in Seq(S)
            /\ Len(f[m]) = Len(f[m - 1]) + Len(q[m])
            /\ Len(f[m - 1]) >= 1 => f[m][1] = f[m - 1][1]
        <5> DEFINE a == f[m - 1]
                   b == q[m]
        <5>1. a \in Seq(S) /\ b \in Seq(S) /\ f[m] = a \o b
          BY <4>2
        <5> HIDE DEF a, b
        <5> SUFFICES /\ a \o b \in Seq(S) /\ Len(a \o b) = Len(a) + Len(b)
                     /\ Len(a) >= 1 => (a \o b)[1] = a[1]
          BY <5>1 DEF a, b
        <5> QED
          BY <5>1
      <4>4. full => Len(f[m - 1]) >= m - 1 /\ f[m - 1][1] = q[1][1]
        BY <4>1
      <4>5. full => Len(q[m]) >= 1
        BY <4>2, <3>2, EmptySeq
      <4>6. Len(f[m - 1]) \in Nat /\ Len(q[m]) \in Nat
        BY <4>2
      <4>7. Good(m)
        <5> HIDE DEF full
        <5>1. full => Len(f[m - 1]) >= 1 /\ Len(f[m]) >= m
          <6> DEFINE x == Len(f[m - 1])
                     y == Len(q[m])
                     z == Len(f[m])
          <6>1. /\ x \in Nat /\ y \in Nat /\ z = x + y /\ m \in Nat \ {0, 1}
                /\ full => x >= m - 1 /\ y >= 1
            BY <4>3, <4>4, <4>5, <4>6, <3>2, <3>4
          <6> HIDE DEF x, y, z
          <6>2. full => x >= 1 /\ z >= m
            BY <6>1
          <6> QED
            BY <6>2 DEF x, z
        <5> QED
          BY <4>3, <4>4, <5>1
      <4> QED
        BY <4>7, <3>2
    <3> QED
      BY <3>3, <3>4
  <2>4. Good(n)
    <3> HIDE DEF Good
    <3> QED
      BY <2>3, <1>3, <1>1
  <2> QED
    BY <2>4, <2>1
<1> QED
  BY <1>1, <1>2, <1>3
-----------------------------------------------------------------------------
(* The replay of a file.                                                   *)

LEMMA ReplaySteps ==
    ASSUME NEW f \in Seq(Entry), IsTree(f)
    PROVE  \A i \in 0..Len(f) :
              Rows(f, i) = IF i = 0 THEN <<>> ELSE Extended(Rows(f, f[i].parent), i, f[i])
<1> DEFINE n == Len(f)
           Defines(g, m) ==
              g = [i \in 0..m |-> IF i = 0 THEN <<>> ELSE Extended(g[f[i].parent], i, f[i])]
           Bad == {m \in 0..n : ~ \E g : Defines(g, m)}
<1>1. n \in Nat /\ \A i \in 1..n : f[i].parent \in 0..i - 1
  BY DEF IsTree
<1>2. Bad = {}
  <2> SUFFICES ASSUME Bad # {} PROVE FALSE
    OBVIOUS
  <2>1. PICK m \in Bad : \A y \in Bad : m <= y
    <3> HIDE DEF Defines
    <3>1. Bad \subseteq Nat
      BY <1>1
    <3> HIDE DEF Bad
    <3> QED
      BY <3>1, Least
  <2>2. m \in 0..n
    <3> HIDE DEF Defines
    <3> QED
      OBVIOUS
  <2>3. CASE m = 0
    <3>1. Defines([i \in 0..0 |-> <<>>], 0)
      OBVIOUS
    <3> HIDE DEF Defines
    <3> QED
      BY <2>3, <3>1
  <2>4. CASE m # 0
    <3>1. m - 1 \in 0..n /\ m - 1 \notin Bad
      <4> HIDE DEF Defines
      <4> HIDE DEF Bad
      <4> QED
        BY <2>1, <2>2, <2>4, <1>1
    <3>2. PICK g : Defines(g, m - 1)
      <4> HIDE DEF Defines
      <4> QED
        BY <3>1
    <3> DEFINE h == [i \in 0..m |-> IF i = m THEN Extended(g[f[m].parent], m, f[m]) ELSE g[i]]
    <3>3. Defines(h, m)
      <4>1. ASSUME NEW i \in 0..m
            PROVE  h[i] = IF i = 0 THEN <<>> ELSE Extended(h[f[i].parent], i, f[i])
        <5>1. i # 0 => f[i].parent \in 0..i - 1
          BY <1>1, <2>2
        <5>2. i # 0 => h[f[i].parent] = g[f[i].parent]
          BY <5>1, <2>2, <1>1
        <5>3. CASE i = m
          <6>1. h[i] = Extended(g[f[m].parent], m, f[m])
            BY <5>3
          <6> HIDE DEF h
          <6> QED
            BY <6>1, <5>2, <5>3, <2>4
        <5>4. CASE i # m
          <6>1. i \in 0..m - 1 /\ h[i] = g[i]
            BY <5>4, <2>2, <1>1
          <6>2. g[i] = IF i = 0 THEN <<>> ELSE Extended(g[f[i].parent], i, f[i])
            BY <6>1, <3>2
          <6> HIDE DEF h
          <6> QED
            BY <6>1, <6>2, <5>2
        <5> QED
          BY <5>3, <5>4
      <4>2. h = [i \in 0..m |-> h[i]]
        OBVIOUS
      <4> HIDE DEF h
      <4> QED
        BY <4>1, <4>2
    <3> HIDE DEF Defines, h
    <3> QED
      BY <3>3
  <2> QED
    BY <2>3, <2>4
<1>3. \E g : Defines(g, n)
  <2> HIDE DEF Defines
  <2> QED
    BY <1>1, <1>2
<1>4. Replay(f) = CHOOSE g : Defines(g, n)
  BY DEF Replay
<1>5. Defines(Replay(f), n)
  <2> HIDE DEF Defines
  <2> QED
    BY <1>3, <1>4
<1> QED
  BY <1>5, <1>1 DEF Rows

\* The rows at entry i are those of entries up to i.
RowsTo(i) == [id : 1..i, message : Message]

LEMMA CompactedTyped ==
    ASSUME NEW S, NEW rs \in Seq(S), NEW ids, NEW r \in S
    PROVE  Compacted(rs, ids, r) \in Seq(S)
<1> DEFINE gone == {j \in DOMAIN rs : rs[j].id \in ids}
           Now(j) == CASE j \notin gone -> <<rs[j]>>
                       [] j \in gone /\ (\A k \in gone : j <= k) -> <<r>>
                       [] OTHER -> <<>>
           q == [j \in DOMAIN rs |-> Now(j)]
           rest == IF gone = {} THEN <<r>> ELSE <<>>
<1>1. \A j \in 1..Len(rs) : Now(j) \in Seq(S)
  OBVIOUS
<1>2. q \in Seq(Seq(S))
  <2>1. DOMAIN rs = 1..Len(rs) /\ Len(rs) \in Nat
    OBVIOUS
  <2> HIDE DEF Now
  <2> QED
    BY <1>1, <2>1
<1>3. rest \in Seq(S)
  OBVIOUS
<1>4. Compacted(rs, ids, r) = FlattenSeq(q) \o rest
  BY DEF Compacted
<1> HIDE DEF q, rest
<1> QED
  BY <1>2, <1>3, <1>4, FlattenProperties, ConcatProperties

LEMMA ExtendedTyped ==
    ASSUME NEW i \in Nat \ {0}, NEW p \in 0..i - 1, NEW rs \in Seq(RowsTo(p)), NEW e \in Entry
    PROVE  Extended(rs, i, e) \in Seq(RowsTo(i))
<1>1. RowsTo(p) \subseteq RowsTo(i)
  BY DEF RowsTo
<1>2. rs \in Seq(RowsTo(i))
  BY <1>1, SeqMonotonic
<1>3. Row(i, Summary(i)) \in RowsTo(i)
  BY DEF RowsTo, Row, Summary, Message, UserMessages
<1>4. e.type = "message" => Row(i, e.message) \in RowsTo(i)
  BY DEF RowsTo, Row, Entry
<1>5. Compacted(rs, e.replaces, Row(i, Summary(i))) \in Seq(RowsTo(i))
  BY <1>2, <1>3, CompactedTyped
<1>6. CASE e.type = "message"
  BY <1>6, <1>2, <1>4 DEF Extended
<1>7. CASE e.type = "branch_summary"
  BY <1>7, <1>2, <1>3 DEF Extended
<1>8. CASE e.type = "compaction"
  BY <1>8, <1>5 DEF Extended
<1>9. CASE e.type \notin {"message", "branch_summary", "compaction"}
  BY <1>9, <1>2 DEF Extended
<1> QED
  BY <1>6, <1>7, <1>8, <1>9

LEMMA RowsTyped ==
    ASSUME NEW f \in Seq(Entry), IsTree(f)
    PROVE  \A i \in 0..Len(f) : Rows(f, i) \in Seq(RowsTo(i))
<1> DEFINE Bad == {m \in 0..Len(f) : Rows(f, m) \notin Seq(RowsTo(m))}
<1> SUFFICES ASSUME Bad # {} PROVE FALSE
  OBVIOUS
<1>1. PICK m \in Bad : \A y \in Bad : m <= y
  <2>1. Bad \subseteq Nat
    OBVIOUS
  <2> HIDE DEF Bad
  <2> QED
    BY <2>1, Least
<1>2. m \in 0..Len(f) /\ Len(f) \in Nat /\ Rows(f, m) \notin Seq(RowsTo(m))
  BY <1>1
<1>3. m # 0
  <2>1. Rows(f, 0) = <<>>
    BY <1>2, ReplaySteps
  <2>2. Rows(f, 0) \in Seq(RowsTo(0))
    BY <2>1, EmptySeq
  <2> QED
    BY <1>2, <2>2
<1>4. f[m].parent \in 0..m - 1 /\ f[m] \in Entry
  BY <1>2, <1>3 DEF IsTree
<1>5. Rows(f, f[m].parent) \in Seq(RowsTo(f[m].parent))
  <2>1. f[m].parent \in 0..Len(f) /\ ~(m <= f[m].parent)
    BY <1>2, <1>4
  <2> QED
    BY <2>1, <1>1
<1>6. Rows(f, m) = Extended(Rows(f, f[m].parent), m, f[m])
  BY <1>2, <1>3, ReplaySteps
<1>7. m \in Nat \ {0}
  BY <1>2, <1>3
<1>8. Extended(Rows(f, f[m].parent), m, f[m]) \in Seq(RowsTo(m))
  BY ONLY <1>4, <1>5, <1>7, ExtendedTyped
<1> QED
  BY <1>2, <1>6, <1>8

LEMMA Greatest ==
    ASSUME NEW n \in Nat, NEW T, T \subseteq 0..n, T # {}
    PROVE  Max(T) \in T /\ \A y \in T : y <= Max(T)
<1> DEFINE U == {n - y : y \in T}
<1>1. U \subseteq Nat /\ U # {}
  <2>1. \A y \in T : y \in 0..n /\ n - y \in Nat
    OBVIOUS
  <2> QED
    BY <2>1
<1>2. PICK u \in U : \A v \in U : u <= v
  <2> HIDE DEF U
  <2> QED
    BY <1>1, Least
<1>3. PICK x \in T : u = n - x
  BY <1>2
<1>4. \A y \in T : n - y \in U
  OBVIOUS
<1>5. \A y \in T : x >= y
  <2> SUFFICES ASSUME NEW y \in T PROVE x >= y
    OBVIOUS
  <2>1. u <= n - y
    <3> HIDE DEF U
    <3> QED
      BY <1>2, <1>4
  <2>2. x \in 0..n /\ y \in 0..n
    OBVIOUS
  <2> QED
    BY <2>1, <2>2, <1>3
<1>6. \E z \in T : \A y \in T : z >= y
  BY <1>5
<1>7. Max(T) \in T /\ \A y \in T : Max(T) >= y
  BY <1>6 DEF Max
<1> QED
  BY <1>7

LEMMA RowsPrefix ==
    ASSUME NEW f \in Seq(Entry), IsTree(f), NEW g \in Seq(Entry), IsTree(g),
           Len(f) <= Len(g), \A i \in 1..Len(f) : g[i] = f[i]
    PROVE  \A i \in 0..Len(f) : Rows(g, i) = Rows(f, i)
<1> DEFINE Bad == {m \in 0..Len(f) : Rows(g, m) # Rows(f, m)}
<1> SUFFICES ASSUME Bad # {} PROVE FALSE
  OBVIOUS
<1>1. PICK m \in Bad : \A y \in Bad : m <= y
  <2>1. Bad \subseteq Nat
    OBVIOUS
  <2> HIDE DEF Bad
  <2> QED
    BY <2>1, Least
<1>2. m \in 0..Len(f) /\ m \in 0..Len(g) /\ Rows(g, m) # Rows(f, m)
  BY <1>1
<1>3. /\ Rows(f, m) = IF m = 0 THEN <<>> ELSE Extended(Rows(f, f[m].parent), m, f[m])
      /\ Rows(g, m) = IF m = 0 THEN <<>> ELSE Extended(Rows(g, g[m].parent), m, g[m])
  BY <1>2, ReplaySteps
<1>4. m # 0
  BY <1>2, <1>3
<1>5. f[m].parent \in 0..m - 1 /\ g[m] = f[m]
  BY <1>2, <1>4 DEF IsTree
<1>6. Rows(g, f[m].parent) = Rows(f, f[m].parent)
  <2>1. f[m].parent \in 0..Len(f) /\ ~(m <= f[m].parent)
    BY <1>2, <1>5
  <2> QED
    BY <2>1, <1>1
<1> QED
  BY <1>2, <1>3, <1>4, <1>5, <1>6

LEMMA LastLeaf ==
    ASSUME NEW g \in Seq(Entry), Len(g) > 0, g[Len(g)].type = "leaf"
    PROVE  ActiveLeaf(g) = g[Len(g)].target
<1> DEFINE leaves == {i \in DOMAIN g : g[i].type = "leaf"}
<1>1. Len(g) \in Nat /\ DOMAIN g = 1..Len(g)
  OBVIOUS
<1>2. Len(g) \in leaves /\ leaves \subseteq 0..Len(g)
  BY <1>1
<1>3. Max(leaves) \in leaves /\ Len(g) <= Max(leaves)
  <2> HIDE DEF leaves
  <2> QED
    BY <1>1, <1>2, Greatest
<1>4. Max(leaves) = Len(g)
  <2> HIDE DEF leaves
  <2>1. Max(leaves) \in 0..Len(g)
    BY <1>2, <1>3
  <2> QED
    BY <2>1, <1>1, <1>3
<1>5. ActiveLeaf(g) = IF leaves = {} THEN Len(g) ELSE g[Max(leaves)].target
  BY DEF ActiveLeaf
<1> HIDE DEF leaves
<1> QED
  BY <1>2, <1>4, <1>5

LEMMA ActiveLeafType ==
    ASSUME NEW g \in Seq(Entry), IsTree(g)
    PROVE  ActiveLeaf(g) \in 0..Len(g)
<1> DEFINE leaves == {i \in DOMAIN g : g[i].type = "leaf"}
<1>1. Len(g) \in Nat /\ DOMAIN g = 1..Len(g)
  OBVIOUS
<1>2. leaves # {} => Max(leaves) \in leaves
  <2>1. leaves \subseteq 0..Len(g)
    BY <1>1
  <2> HIDE DEF leaves
  <2> QED
    BY <2>1, <1>1, Greatest
<1>3. \A i \in leaves : g[i].target \in 0..Len(g)
  BY <1>1 DEF IsTree
<1>4. ActiveLeaf(g) = IF leaves = {} THEN Len(g) ELSE g[Max(leaves)].target
  BY DEF ActiveLeaf
<1> HIDE DEF leaves
<1> QED
  BY <1>1, <1>2, <1>3, <1>4

LEMMA MessagesTyped ==
    ASSUME NEW i, NEW rs \in Seq(RowsTo(i))
    PROVE  /\ Messages(rs) \in Seq(Message) /\ Len(Messages(rs)) = Len(rs)
           /\ \A k \in 1..Len(rs) : Messages(rs)[k] = rs[k].message
<1>1. Len(rs) \in Nat /\ DOMAIN rs = 1..Len(rs)
  OBVIOUS
<1>2. \A k \in 1..Len(rs) : rs[k].message \in Message
  <2>1. \A k \in 1..Len(rs) : rs[k] \in RowsTo(i)
    BY ElementOfSeq
  <2>2. \A r \in RowsTo(i) : r.message \in Message
    BY DEF RowsTo
  <2> QED
    BY <2>1, <2>2
<1> QED
  BY <1>1, <1>2 DEF Messages

LEMMA TranscriptTyped ==
    ASSUME NEW f \in Seq(Entry), IsTree(f), NEW i \in 0..Len(f)
    PROVE  Transcript(f, i) \in Seq(Message)
<1>1. Rows(f, i) \in Seq(RowsTo(i))
  BY RowsTyped
<1> QED
  BY <1>1, MessagesTyped DEF Transcript

\* What message entries and entries without a message add.
LEMMA MessageRow ==
    ASSUME NEW f \in Seq(Entry), IsTree(f), NEW i \in 1..Len(f), f[i].type = "message"
    PROVE  /\ f[i].parent \in 0..Len(f) /\ f[i].message \in Message
           /\ Transcript(f, i) = Append(Transcript(f, f[i].parent), f[i].message)
<1> DEFINE p == f[i].parent
           rs == Rows(f, p)
           m == f[i].message
<1>1. p \in 0..i - 1 /\ p \in 0..Len(f) /\ f[i] \in Entry
  BY DEF IsTree
<1>2. m \in Message
  BY <1>1 DEF Entry
<1>3. rs \in Seq(RowsTo(p))
  BY <1>1, RowsTyped
<1>4. Rows(f, i) = Append(rs, Row(i, m))
  <2>1. Rows(f, i) = Extended(rs, i, f[i])
    BY ReplaySteps
  <2> QED
    BY <2>1 DEF Extended
<1> HIDE DEF rs, m
<1>5. Append(rs, Row(i, m)) \in Seq(RowsTo(i))
  <2>1. RowsTo(p) \subseteq RowsTo(i) /\ Row(i, m) \in RowsTo(i)
    BY <1>1, <1>2 DEF RowsTo, Row
  <2>2. rs \in Seq(RowsTo(i))
    BY <2>1, <1>3, SeqMonotonic
  <2> QED
    BY <2>1, <2>2
<1> DEFINE new == Append(rs, Row(i, m))
<1>6. /\ Len(rs) \in Nat /\ Len(new) = Len(rs) + 1
      /\ \A k \in 1..Len(rs) : new[k] = rs[k]
      /\ new[Len(rs) + 1] = Row(i, m)
  BY <1>3
<1>7. new \in Seq(RowsTo(i))
  BY <1>5
<1> HIDE DEF new
<1>8. Messages(new) = Append(Messages(rs), m)
  <2>1. /\ Messages(rs) \in Seq(Message) /\ Len(Messages(rs)) = Len(rs)
        /\ \A k \in 1..Len(rs) : Messages(rs)[k] = rs[k].message
    BY <1>3, MessagesTyped
  <2>2. /\ Messages(new) \in Seq(Message) /\ Len(Messages(new)) = Len(rs) + 1
        /\ \A k \in 1..Len(rs) + 1 : Messages(new)[k] = new[k].message
    BY <1>6, <1>7, MessagesTyped
  <2>3. /\ Append(Messages(rs), m) \in Seq(Message)
        /\ Len(Append(Messages(rs), m)) = Len(rs) + 1
        /\ \A k \in 1..Len(rs) : Append(Messages(rs), m)[k] = rs[k].message
        /\ Append(Messages(rs), m)[Len(rs) + 1] = m
    BY <2>1, <1>2, <1>6
  <2>4. \A k \in 1..Len(rs) + 1 : Messages(new)[k] = Append(Messages(rs), m)[k]
    <3> SUFFICES ASSUME NEW k \in 1..Len(rs) + 1
                 PROVE  new[k].message = Append(Messages(rs), m)[k]
      BY <2>2
    <3>1. CASE k \in 1..Len(rs)
      BY <3>1, <2>3, <1>6
    <3>2. CASE k = Len(rs) + 1
      BY <3>2, <2>3, <1>6 DEF Row
    <3>3. k \in 1..Len(rs) \/ k = Len(rs) + 1
      BY <1>6
    <3> QED
      BY <3>1, <3>2, <3>3
  <2> QED
    BY <2>2, <2>3, <2>4, SeqEqual
<1> QED
  BY <1>1, <1>2, <1>4, <1>8 DEF Transcript, rs, m, new

LEMMA SilentRow ==
    ASSUME NEW f \in Seq(Entry), IsTree(f), NEW i \in 1..Len(f), f[i].type \in {"meta", "leaf"}
    PROVE  Rows(f, i) = Rows(f, f[i].parent)
  BY ReplaySteps DEF Extended
-----------------------------------------------------------------------------
(* Writing.                                                                *)

\* Entries that may follow a file of n entries.
Fits(n, es) ==
    /\ es \in Seq(Entry)
    /\ \A k \in 1..Len(es) :
          /\ es[k].parent \in 0..n + k - 1
          /\ es[k].type = "leaf" => es[k].target \in 0..n + k - 1

LEMMA TreeConcat ==
    ASSUME NEW f \in Seq(Entry), IsTree(f), NEW es, Fits(Len(f), es)
    PROVE  /\ f \o es \in Seq(Entry) /\ IsTree(f \o es)
           /\ Len(f \o es) = Len(f) + Len(es)
           /\ \A i \in 1..Len(f) : (f \o es)[i] = f[i]
           /\ \A k \in 1..Len(es) : (f \o es)[Len(f) + k] = es[k]
<1> DEFINE g == f \o es
<1>1. es \in Seq(Entry) /\ Len(f) \in Nat /\ Len(es) \in Nat
  BY DEF Fits
<1>2. /\ g \in Seq(Entry) /\ Len(g) = Len(f) + Len(es)
      /\ \A i \in 1..Len(f) : g[i] = f[i]
      /\ \A k \in 1..Len(es) : g[Len(f) + k] = es[k]
  BY <1>1
<1> HIDE DEF g
<1>3. ASSUME NEW i \in 1..Len(g)
      PROVE  g[i].parent \in 0..i - 1 /\ (g[i].type = "leaf" => g[i].target \in 0..i - 1)
  <2>1. CASE i \in 1..Len(f)
    BY <2>1, <1>2 DEF IsTree
  <2>2. CASE i \notin 1..Len(f)
    <3>1. PICK k \in 1..Len(es) : i = Len(f) + k
      <4>1. i - Len(f) \in 1..Len(es) /\ i = Len(f) + (i - Len(f))
        BY <2>2, <1>1, <1>2
      <4> QED
        BY <4>1
    <3>2. g[i] = es[k]
      BY <3>1, <1>2
    <3> QED
      BY <3>1, <3>2 DEF Fits
  <2> QED
    BY <2>1, <2>2
<1>4. IsTree(g)
  BY <1>2, <1>3 DEF IsTree
<1> QED
  BY <1>1, <1>2, <1>4 DEF g

LEMMA FitsPrefix ==
    ASSUME NEW n \in Nat, NEW es, Fits(n, es), NEW m \in 0..Len(es)
    PROVE  /\ Fits(n, SubSeq(es, 1, m)) /\ Len(SubSeq(es, 1, m)) = m
           /\ m = Len(es) => SubSeq(es, 1, m) = es
<1>1. es \in Seq(Entry) /\ Len(es) \in Nat
  BY DEF Fits
<1>2. /\ SubSeq(es, 1, m) \in Seq(Entry) /\ Len(SubSeq(es, 1, m)) = m
      /\ \A k \in 1..m : SubSeq(es, 1, m)[k] = es[k]
  BY <1>1
<1>3. m = Len(es) => SubSeq(es, 1, m) = es
  BY <1>1, <1>2, SeqEqual
<1> QED
  BY <1>1, <1>2, <1>3 DEF Fits

\* What _persist_messages_since appends to a file of n entries.
Burst(n, p, ms) ==
    [k \in 1..2 * Len(ms) |->
        IF k % 2 = 0 THEN LeafEntry(n + k - 1)
        ELSE MessageEntry(IF k = 1 THEN p ELSE n + k - 2, ms[(k + 1) \div 2])]

LEMMA BurstFits ==
    ASSUME NEW n \in Nat, NEW p \in 0..n, NEW ms \in Seq(Message)
    PROVE  /\ Fits(n, Burst(n, p, ms)) /\ Len(Burst(n, p, ms)) = 2 * Len(ms)
           /\ \A j \in 1..Len(ms) :
                 /\ 2 * j - 1 \in 1..2 * Len(ms)
                 /\ Burst(n, p, ms)[2 * j - 1] =
                       MessageEntry(IF j = 1 THEN p ELSE n + 2 * (j - 1) - 1, ms[j])
           /\ Len(ms) > 0 =>
                 Burst(n, p, ms)[2 * Len(ms)] = LeafEntry(n + 2 * Len(ms) - 1)
<1> DEFINE es == Burst(n, p, ms)
           L == Len(ms)
<1>1. L \in Nat
  OBVIOUS
<1> HIDE DEF L
<1>2. \A k \in 1..2 * L :
         es[k] = IF k % 2 = 0 THEN LeafEntry(n + k - 1)
                 ELSE MessageEntry(IF k = 1 THEN p ELSE n + k - 2, ms[(k + 1) \div 2])
  BY DEF Burst, L
<1>3. DOMAIN es = 1..2 * L
  BY DEF Burst, L
<1>4. \A k \in 1..2 * L : k % 2 # 0 => (k + 1) \div 2 \in 1..L
  BY <1>1
<1>5. \A k \in 1..2 * L :
         /\ es[k] \in Entry /\ es[k].parent \in 0..n + k - 1
         /\ es[k].type = "leaf" => es[k].target \in 0..n + k - 1
  <2> SUFFICES ASSUME NEW k \in 1..2 * L
               PROVE  /\ es[k] \in Entry /\ es[k].parent \in 0..n + k - 1
                      /\ es[k].type = "leaf" => es[k].target \in 0..n + k - 1
    OBVIOUS
  <2>1. CASE k % 2 = 0
    <3>1. es[k] = LeafEntry(n + k - 1)
      BY <2>1, <1>2
    <3>2. n + k - 1 \in Nat /\ n + k - 1 \in 0..n + k - 1
      BY <1>1
    <3> HIDE DEF es
    <3> QED
      BY <3>1, <3>2 DEF LeafEntry, Entry
  <2>2. CASE k % 2 # 0
    <3> DEFINE q == IF k = 1 THEN p ELSE n + k - 2
               m == ms[(k + 1) \div 2]
    <3>1. es[k] = MessageEntry(q, m)
      BY <2>2, <1>2
    <3>2. q \in Nat /\ q \in 0..n + k - 1
      BY <1>1
    <3>3. m \in Message
      BY <1>4, <2>2 DEF L
    <3> HIDE DEF es, q, m
    <3> QED
      BY <3>1, <3>2, <3>3 DEF MessageEntry, Entry
  <2> QED
    BY <2>1, <2>2
<1>6. es \in Seq(Entry) /\ Len(es) = 2 * L
  <2>1. es = [k \in 1..2 * L |-> es[k]]
    BY DEF Burst, L
  <2>2. 2 * L \in Nat
    BY <1>1
  <2> HIDE DEF es
  <2> QED
    BY <2>1, <2>2, <1>5
<1>7. ASSUME NEW j \in 1..L
      PROVE  /\ 2 * j - 1 \in 1..2 * L
             /\ es[2 * j - 1] = MessageEntry(IF j = 1 THEN p ELSE n + 2 * (j - 1) - 1, ms[j])
  <2> DEFINE k == 2 * j - 1
  <2>1. /\ k \in 1..2 * L /\ k % 2 # 0 /\ (k + 1) \div 2 = j
        /\ (k = 1 <=> j = 1) /\ n + k - 2 = n + 2 * (j - 1) - 1
    BY <1>1
  <2> HIDE DEF k
  <2>2. es[k] = MessageEntry(IF k = 1 THEN p ELSE n + k - 2, ms[(k + 1) \div 2])
    BY <2>1, <1>2
  <2> QED
    BY <2>1, <2>2 DEF k
<1>8. L > 0 => es[2 * L] = LeafEntry(n + 2 * L - 1)
  <2> SUFFICES ASSUME L > 0 PROVE es[2 * L] = LeafEntry(n + 2 * L - 1)
    OBVIOUS
  <2>1. 2 * L \in 1..2 * L /\ (2 * L) % 2 = 0
    BY <1>1
  <2> QED
    BY <2>1, <1>2
<1> HIDE DEF es
<1>9. Fits(n, es)
  BY <1>5, <1>6 DEF Fits
<1> QED
  BY <1>6, <1>7, <1>8, <1>9 DEF es, L

\* The transcript at the last of them is the one at the parent with the new
\* messages behind it.
LEMMA BurstTranscript ==
    ASSUME NEW f \in Seq(Entry), IsTree(f), NEW p \in 0..Len(f),
           NEW ms \in Seq(Message), Len(ms) > 0
    PROVE  Transcript(f \o Burst(Len(f), p, ms), Len(f) + 2 * Len(ms) - 1)
              = Transcript(f, p) \o ms
<1> DEFINE n == Len(f)
           L == Len(ms)
           g == f \o Burst(n, p, ms)
           old == Transcript(f, p)
           Good(j) == Transcript(g, n + 2 * j - 1) = old \o SubSeq(ms, 1, j)
           Bad == {j \in 1..L : ~Good(j)}
<1>1. n \in Nat /\ L \in Nat /\ L > 0
  OBVIOUS
<1>2. /\ g \in Seq(Entry) /\ IsTree(g) /\ Len(g) = n + 2 * L
      /\ \A i \in 1..n : g[i] = f[i]
      /\ \A j \in 1..L :
            g[n + 2 * j - 1] = MessageEntry(IF j = 1 THEN p ELSE n + 2 * (j - 1) - 1, ms[j])
  <2> DEFINE es == Burst(n, p, ms)
  <2>1. /\ Fits(n, es) /\ Len(es) = 2 * L
        /\ \A j \in 1..L :
              /\ 2 * j - 1 \in 1..2 * L
              /\ es[2 * j - 1] = MessageEntry(IF j = 1 THEN p ELSE n + 2 * (j - 1) - 1, ms[j])
    BY BurstFits
  <2> HIDE DEF es
  <2>2. /\ f \o es \in Seq(Entry) /\ IsTree(f \o es) /\ Len(f \o es) = n + Len(es)
        /\ \A i \in 1..n : (f \o es)[i] = f[i]
        /\ \A k \in 1..Len(es) : (f \o es)[n + k] = es[k]
    <3> HIDE DEF g, L
    <3> QED
      <4>1. f \in Seq(Entry) /\ IsTree(f) /\ Fits(Len(f), es)
        BY <2>1
      <4> QED
        BY ONLY <4>1, TreeConcat
  <2>3. g = f \o es
    BY DEF es
  <2> HIDE DEF g, n, L
  <2>4. \A j \in 1..L : n + (2 * j - 1) = n + 2 * j - 1
    BY <1>1
  <2> QED
    BY <2>1, <2>2, <2>3, <2>4
<1>3. old \in Seq(Message) /\ Transcript(g, p) = old
  <2>1. Rows(g, p) = Rows(f, p)
    <3>1. n <= Len(g)
      <4> HIDE DEF g, n, L
      <4> QED
        BY <1>1, <1>2
    <3> HIDE DEF g
    <3> QED
      BY <3>1, <1>2, RowsPrefix
  <2>2. Transcript(g, p) = old
    <3> HIDE DEF g
    <3> QED
      BY <2>1 DEF Transcript
  <2> QED
    BY <2>2, TranscriptTyped
<1> HIDE DEF g, old, n, L
<1>4. ASSUME NEW j \in 1..L, j # 1 => Good(j - 1)
      PROVE  Good(j)
  <2> DEFINE i == n + 2 * j - 1
             q == IF j = 1 THEN p ELSE n + 2 * (j - 1) - 1
             done == SubSeq(ms, 1, j - 1)
  <2>1. i \in 1..Len(g)
    BY <1>1, <1>2
  <2>2. g[i] = MessageEntry(q, ms[j])
    BY <1>2
  <2> HIDE DEF i
  <2>3. Transcript(g, i) = Append(Transcript(g, q), ms[j])
    <3>1. g[i].type = "message" /\ g[i].parent = q /\ g[i].message = ms[j]
      BY <2>2 DEF MessageEntry
    <3> HIDE DEF q
    <3> QED
      BY <3>1, <2>1, <1>2, MessageRow
  <2>4. done \in Seq(Message) /\ Append(done, ms[j]) = SubSeq(ms, 1, j) /\ ms[j] \in Message
    <3>1. ms[j] \in Message
      BY DEF L
    <3>2. done \in Seq(Message) /\ Len(done) = j - 1 /\ \A k \in 1..j - 1 : done[k] = ms[k]
      BY <1>1 DEF L
    <3>3. /\ SubSeq(ms, 1, j) \in Seq(Message) /\ Len(SubSeq(ms, 1, j)) = j
          /\ \A k \in 1..j : SubSeq(ms, 1, j)[k] = ms[k]
      BY <1>1 DEF L
    <3> HIDE DEF done
    <3>4. /\ Append(done, ms[j]) \in Seq(Message) /\ Len(Append(done, ms[j])) = j
          /\ \A k \in 1..j - 1 : Append(done, ms[j])[k] = ms[k]
          /\ Append(done, ms[j])[j] = ms[j]
      BY <3>1, <3>2
    <3>5. \A k \in 1..j : Append(done, ms[j])[k] = SubSeq(ms, 1, j)[k]
      <4>1. \A k \in 1..j : k \in 1..j - 1 \/ k = j
        BY <1>1
      <4> QED
        BY <4>1, <3>3, <3>4
    <3>6. Append(done, ms[j]) = SubSeq(ms, 1, j)
      BY <3>3, <3>4, <3>5, SeqEqual
    <3> QED
      BY <3>1, <3>2, <3>6
  <2>5. Transcript(g, q) = old \o done
    <3>1. CASE j = 1
      <4>1. done = <<>>
        BY <3>1
      <4>2. Transcript(g, q) = old
        BY <3>1, <1>3
      <4> HIDE DEF done
      <4> QED
        BY <4>1, <4>2, <1>3, ConcatEmptySeq
    <3>2. CASE j # 1
      BY <3>2, <1>4
    <3> QED
      BY <3>1, <3>2
  <2> HIDE DEF done, q
  <2>6. Append(old \o done, ms[j]) = old \o Append(done, ms[j])
    <3> DEFINE m == ms[j]
    <3>1. m \in Message
      BY <2>4
    <3> HIDE DEF m
    <3>2. Append(old \o done, m) = old \o Append(done, m)
      <4>1. done \in Seq(Message) /\ <<m>> \in Seq(Message) /\ old \o done \in Seq(Message)
        BY <3>1, <2>4, <1>3, ConcatProperties
      <4>2. Append(old \o done, m) = (old \o done) \o <<m>> /\ Append(done, m) = done \o <<m>>
        BY <3>1, <4>1, AppendIsConcat
      <4>3. (old \o done) \o <<m>> = old \o (done \o <<m>>)
        <5>1. /\ old \in Seq(Message) /\ done \in Seq(Message)
              /\ <<m>> \in Seq(Message)
          BY <1>3, <4>1
        <5> QED
          BY ONLY <5>1, ConcatAssociative, SMTT(30)
      <4> QED
        BY <4>2, <4>3
    <3> QED
      BY <3>2 DEF m
  <2> QED
    BY <2>3, <2>4, <2>5, <2>6 DEF i
<1>5. Bad = {}
  <2> SUFFICES ASSUME Bad # {} PROVE FALSE
    OBVIOUS
  <2>1. PICK j \in Bad : \A y \in Bad : j <= y
    <3> HIDE DEF Good
    <3>1. Bad \subseteq Nat
      BY <1>1
    <3> HIDE DEF Bad
    <3> QED
      BY <3>1, Least
  <2>2. j \in 1..L /\ ~Good(j)
    BY <2>1
  <2> HIDE DEF Good
  <2>3. j # 1 => Good(j - 1)
    <3> SUFFICES ASSUME j # 1 PROVE Good(j - 1)
      OBVIOUS
    <3>1. j - 1 \in 1..L /\ ~(j <= j - 1)
      BY <2>2, <1>1
    <3>2. j - 1 \notin Bad
      <4> HIDE DEF Bad
      <4> QED
        BY <3>1, <2>1
    <3> QED
      BY <3>1, <3>2
  <2> QED
    BY <2>2, <2>3, <1>4
<1>6. Good(L)
  <2> HIDE DEF Good
  <2> QED
    BY <1>1, <1>5
<1>7. SubSeq(ms, 1, L) = ms
  BY <1>1 DEF L
<1> QED
  BY <1>6, <1>7 DEF g, n, L, old
\* The messages on disk, and the file with its deferred first entry.
Held(f)  == {f[i].message : i \in {j \in DOMAIN f : f[j].type = "message"}}
Begun(f) == IF f = <<>> THEN <<MetaEntry(0)>> ELSE f

LEMMA BegunTyped ==
    ASSUME NEW f \in Seq(Entry), IsTree(f)
    PROVE  /\ Begun(f) \in Seq(Entry) /\ IsTree(Begun(f))
           /\ Len(f) <= Len(Begun(f)) /\ Len(Begun(f)) > 0
           /\ \A i \in 1..Len(f) : Begun(f)[i] = f[i]
           /\ Saved(Begun(f)) = Saved(f)
           /\ f # <<>> => Begun(f) = f
           /\ f = <<>> => ActiveLeaf(Begun(f)) = 1 /\ \A i \in 0..Len(Begun(f)) : Rows(Begun(f), i) = <<>>
<1>1. CASE f # <<>>
  <2>1. Begun(f) = f /\ Len(f) \in Nat /\ Len(f) > 0
    BY <1>1, EmptySeq DEF Begun
  <2> QED
    BY <2>1, <1>1
<1>2. CASE f = <<>>
  <2> DEFINE g == <<MetaEntry(0)>>
  <2>1. Begun(f) = g /\ Len(f) = 0
    BY <1>2 DEF Begun
  <2>2. MetaEntry(0) \in Entry /\ MetaEntry(0).type = "meta" /\ MetaEntry(0).parent = 0
    BY DEF MetaEntry, Entry
  <2>3. g \in Seq(Entry) /\ Len(g) = 1 /\ g[1] = MetaEntry(0) /\ DOMAIN g = 1..1
    BY <2>2
  <2> HIDE DEF g
  <2>4. \A i \in DOMAIN g : i = 1 /\ g[i].type = "meta" /\ g[i].parent = 0
    BY <2>2, <2>3
  <2>5. IsTree(g)
    BY <2>4 DEF IsTree
  <2>6. Rows(g, 0) = <<>> /\ Rows(g, 1) = <<>>
    <3>1. Rows(g, 0) = <<>>
      BY <2>3, <2>5, ReplaySteps
    <3>2. Rows(g, 1) = Rows(g, 0)
      <4>1. 1 \in 1..Len(g) /\ g[1].type \in {"meta", "leaf"} /\ g[1].parent = 0
        BY <2>2, <2>3
      <4> QED
        BY <4>1, <2>3, <2>5, SilentRow
    <3> QED
      BY <3>1, <3>2
  <2>7. ActiveLeaf(g) = 1
    BY <2>3, <2>4 DEF ActiveLeaf
  <2>8. Rows(f, 0) = <<>>
    <3>1. 0 \in 0..Len(f)
      BY <2>1
    <3> QED
      BY <3>1, ReplaySteps
  <2>9. ActiveLeaf(f) = 0
    BY <1>2, <2>1 DEF ActiveLeaf
  <2>10. Saved(g) = Saved(f)
    BY <2>6, <2>7, <2>8, <2>9 DEF Saved, Transcript
  <2>11. \A i \in 0..Len(g) : Rows(g, i) = <<>>
    <3>1. \A i \in 0..Len(g) : i = 0 \/ i = 1
      BY <2>3
    <3> QED
      BY <3>1, <2>6
  <2>12. Len(f) <= Len(g) /\ Len(g) > 0 /\ \A i \in 1..Len(f) : g[i] = f[i]
    BY <2>1, <2>3
  <2> QED
    BY <1>2, <2>1, <2>3, <2>5, <2>7, <2>10, <2>11, <2>12, Zenon
<1> QED
  BY <1>1, <1>2

LEMMA HeldGrows ==
    ASSUME NEW f \in Seq(Entry), NEW g \in Seq(Entry), Len(f) <= Len(g),
           \A i \in 1..Len(f) : g[i] = f[i]
    PROVE  Held(f) \subseteq Held(g)
  BY DEF Held

\* A write keeps what is there; one that is complete ends in the leaf that makes
\* entry t the active one.
LEMMA StoreProperties ==
    ASSUME file \in Seq(Entry), IsTree(file), crashes \in Nat,
           NEW es, Fits(Len(Base), es), Len(es) > 0,
           NEW t, es[Len(es)] = LeafEntry(t),
           Store(es)
    PROVE  /\ file' \in Seq(Entry) /\ IsTree(file') /\ Len(file) <= Len(file')
           /\ stored' = Saved(file') /\ stored' \in Seq(Message)
           /\ up' \in BOOLEAN /\ crashes' \in Nat
           /\ InFile \subseteq InFile'
           /\ up' => /\ file' = Base \o es /\ Base' = file'
                     /\ ActiveLeaf(Base') = t /\ t \in 0..Len(Base')
                     /\ stored' = Transcript(Base \o es, t)
<1> DEFINE b == Base
<1>1. /\ b \in Seq(Entry) /\ IsTree(b) /\ Len(file) <= Len(b) /\ Len(b) > 0
      /\ \A i \in 1..Len(file) : b[i] = file[i]
  BY BegunTyped DEF Base, Begun
<1>2. PICK n \in 0..Len(es) :
         /\ n < Len(es) => crashes < MaxCrashes
         /\ file' = b \o SubSeq(es, 1, n)
         /\ stored' = Saved(file')
         /\ up' = (n = Len(es))
         /\ crashes' = IF n = Len(es) THEN crashes ELSE crashes + 1
  BY DEF Store
<1>3. Fits(Len(b), es)
  OBVIOUS
<1> HIDE DEF b
<1>4. es \in Seq(Entry) /\ Len(es) \in Nat /\ Len(b) \in Nat
  BY <1>1, <1>3 DEF Fits
<1> DEFINE part == SubSeq(es, 1, n)
<1>5. Fits(Len(b), part) /\ Len(part) = n /\ (n = Len(es) => part = es)
  <2> QED
    BY <1>3, <1>4, FitsPrefix
<1> HIDE DEF part
<1>6. /\ b \o part \in Seq(Entry) /\ IsTree(b \o part)
      /\ Len(b \o part) = Len(b) + Len(part)
      /\ \A i \in 1..Len(b) : (b \o part)[i] = b[i]
      /\ \A k \in 1..Len(part) : (b \o part)[Len(b) + k] = part[k]
  <2>1. b \in Seq(Entry) /\ IsTree(b) /\ Fits(Len(b), part)
    BY <1>1, <1>5
  <2> QED
    BY ONLY <2>1, TreeConcat
<1> DEFINE g == b \o part
<1>7. /\ g \in Seq(Entry) /\ IsTree(g) /\ Len(g) = Len(b) + n
      /\ \A i \in 1..Len(b) : g[i] = b[i]
      /\ \A k \in 1..n : g[Len(b) + k] = part[k]
      /\ file' = g
  BY <1>2, <1>5, <1>6 DEF part
<1> HIDE DEF g
<1>8. Len(file) <= Len(file') /\ \A i \in 1..Len(file) : file'[i] = file[i]
  <2>1. Len(file) \in Nat
    OBVIOUS
  <2>2. \A i \in 1..Len(file) : i \in 1..Len(b)
    BY <1>1, <1>4
  <2>3. Len(file) <= Len(g)
    BY <2>1, <1>1, <1>4, <1>7
  <2> QED
    BY <2>2, <2>3, <1>1, <1>7
<1>9. InFile \subseteq InFile'
  <2>1. Held(file) \subseteq Held(file')
    BY <1>7, <1>8, HeldGrows
  <2> QED
    BY <2>1 DEF InFile, Held
<1>10. stored' \in Seq(Message)
  <2>1. ActiveLeaf(g) \in 0..Len(g)
    BY <1>7, ActiveLeafType
  <2> QED
    BY <2>1, <1>2, <1>7, TranscriptTyped DEF Saved
<1>11. ASSUME n = Len(es)
       PROVE  /\ g = Base \o es /\ Base' = g /\ ActiveLeaf(g) = t /\ t \in 0..Len(g)
              /\ stored' = Transcript(Base \o es, t)
  <2>1. g = b \o es
    BY <1>5, <1>11 DEF g
  <2>2. g # <<>>
    BY <1>1, <1>4, <1>7
  <2>3. Base' = g
    BY <2>2, <1>7 DEF Base
  <2>4. g[Len(g)] = LeafEntry(t) /\ Len(g) > 0
    <3>1. n \in 1..n /\ part[n] = LeafEntry(t)
      BY <1>4, <1>5, <1>11
    <3>2. g[Len(b) + n] = part[n]
      BY <3>1, <1>7
    <3>3. Len(g) > 0
      BY <1>1, <1>4, <1>7
    <3> QED
      BY <3>1, <3>2, <3>3, <1>7
  <2>5. ActiveLeaf(g) = t
    <3>1. g[Len(g)].type = "leaf" /\ g[Len(g)].target = t
      BY <2>4 DEF LeafEntry
    <3> QED
      BY <3>1, <2>4, <1>7, LastLeaf
  <2>6. t \in 0..Len(g)
    BY <2>5, <1>7, ActiveLeafType
  <2>7. stored' = Transcript(g, t)
    BY <1>2, <1>7, <2>5 DEF Saved
  <2> QED
    BY <2>1, <2>3, <2>5, <2>6, <2>7 DEF b
<1>12. up' \in BOOLEAN /\ (up' => n = Len(es)) /\ crashes' \in Nat
  <2>1. up' = (n = Len(es))
    BY <1>2
  <2>2. up' \in BOOLEAN /\ (up' => n = Len(es))
    BY <2>1, Zenon
  <2>3. crashes' \in Nat
    BY <1>2
  <2> QED
    BY <2>2, <2>3, Zenon
<1> QED
  BY <1>2, <1>7, <1>8, <1>9, <1>10, <1>11, <1>12
-----------------------------------------------------------------------------
(* Repairs.                                                                *)

LEMMA AnswersTyped ==
    ASSUME NEW s, NEW m \in Message
    PROVE  Answers(s, m) \in Seq(Message)
<1> DEFINE Answer(c) == IF c \in Open(s) THEN <<Result(c)>> ELSE <<>>
           q == [i \in DOMAIN m.calls |-> Answer(m.calls[i])]
<1>1. CASE m.kind # "assistant"
  BY <1>1 DEF Answers
<1>2. CASE m.kind = "assistant"
  <2>1. m.calls \in Seq(Nat)
    BY <1>2 DEF Message, UserMessages, AssistantMessages, ResultMessages
  <2>2. \A c \in Nat : Answer(c) \in Seq(Message)
    <3>1. \A c \in Nat : Result(c) \in Message
      BY DEF Result, Message, ResultMessages
    <3> QED
      BY <3>1
  <2>3. q \in Seq(Seq(Message))
    <3> DEFINE cs == m.calls
    <3>1. cs \in Seq(Nat)
      BY <2>1
    <3> HIDE DEF cs, Answer
    <3>2. [i \in DOMAIN cs |-> Answer(cs[i])] \in Seq(Seq(Message))
      <4>1. \A i \in DOMAIN cs : Answer(cs[i]) \in Seq(Message)
        <5>1. \A i \in DOMAIN cs : cs[i] \in Nat
          BY <3>1
        <5> QED
          BY <5>1, <2>2
      <4>2. DOMAIN cs = 1..Len(cs) /\ Len(cs) \in Nat
        BY <3>1
      <4> QED
        BY <4>1, <4>2
    <3> QED
      BY <3>2 DEF cs
  <2>4. Answers(s, m) = FlattenSeq(q)
    BY <1>2 DEF Answers
  <2> HIDE DEF q
  <2> QED
    BY <2>3, <2>4, FlattenProperties
<1> QED
  BY <1>1, <1>2

LEMMA RepairedTyped ==
    ASSUME NEW s \in Seq(Message)
    PROVE  /\ Repaired(s) \in Seq(Message) /\ Len(s) <= Len(Repaired(s))
           /\ \A i \in 1..Len(s) : Repaired(s)[i] = s[i]
<1> DEFINE q == [i \in DOMAIN s |-> Answers(s, s[i])]
           more == FlattenSeq(q)
<1>1. q \in Seq(Seq(Message))
  <2>1. \A i \in DOMAIN s : Answers(s, s[i]) \in Seq(Message)
    BY AnswersTyped
  <2> QED
    BY <2>1
<1>2. more \in Seq(Message)
  <2> HIDE DEF q
  <2> QED
    BY <1>1, FlattenProperties
<1>3. Repaired(s) = s \o more
  BY DEF Repaired
<1> HIDE DEF more
<1> QED
  BY <1>2, <1>3

LEMMA RecoveredTyped ==
    ASSUME NEW s \in Seq(Message)
    PROVE  /\ Recovered(s) \in Seq(Message) /\ Len(s) <= Len(Recovered(s))
           /\ s # <<>> => Recovered(s)[1] = s[1]
           /\ s = <<>> => Recovered(s) = s
<1> DEFINE q == [i \in DOMAIN s |-> <<s[i]>> \o Answers(s, s[i])]
<1>1. ASSUME NEW i \in 1..Len(s)
      PROVE  /\ <<s[i]>> \o Answers(s, s[i]) \in Seq(Message)
             /\ <<s[i]>> \o Answers(s, s[i]) # <<>>
             /\ (<<s[i]>> \o Answers(s, s[i]))[1] = s[i]
  <2> DEFINE m == s[i]
             more == Answers(s, m)
  <2>1. m \in Message /\ more \in Seq(Message)
    BY AnswersTyped
  <2> HIDE DEF m, more
  <2>2. /\ <<m>> \o more \in Seq(Message)
        /\ <<m>> \o more # <<>> /\ (<<m>> \o more)[1] = m
    BY <2>1
  <2> QED
    BY <2>2 DEF m, more
<1>2. DOMAIN s = 1..Len(s) /\ Len(s) \in Nat
  OBVIOUS
<1>3. /\ q \in Seq(Seq(Message)) /\ Len(q) = Len(s)
      /\ \A i \in 1..Len(s) : q[i] # <<>> /\ q[i][1] = s[i]
  BY <1>1, <1>2
<1>4. Recovered(s) = FlattenSeq(q)
  BY DEF Recovered
<1> HIDE DEF q
<1>5. /\ Recovered(s) \in Seq(Message) /\ Len(s) <= Len(Recovered(s))
      /\ q # <<>> => Recovered(s)[1] = q[1][1]
  BY <1>2, <1>3, <1>4, FlattenProperties
<1>6. s # <<>> => Recovered(s)[1] = s[1]
  <2> SUFFICES ASSUME s # <<>> PROVE Recovered(s)[1] = s[1]
    OBVIOUS
  <2>1. 1 \in 1..Len(s) /\ q # <<>>
    BY <1>2, <1>3, EmptySeq
  <2> QED
    BY <2>1, <1>3, <1>5
<1>7. s = <<>> => Recovered(s) = s
  <2> SUFFICES ASSUME s = <<>> PROVE Recovered(s) = s
    OBVIOUS
  <2>1. q = <<>>
    BY <1>3, EmptySeq
  <2> QED
    BY <2>1, <1>4 DEF FlattenSeq
<1> QED
  BY <1>5, <1>6, <1>7

\* s and new agree up to place `same' and differ behind it.
Differ(s, new, same) ==
    /\ new # s /\ \A i \in 1..same : s[i] = new[i]
    /\ same = Len(s) \/ s[same + 1] # new[same + 1]

\* Two sequences that begin alike differ first behind their first element.
LEMMA CommonPrefix ==
    ASSUME NEW S, NEW old \in Seq(S), NEW new \in Seq(S), old # <<>>,
           Len(old) <= Len(new), old[1] = new[1], new # old
    PROVE  LET same == CHOOSE n \in 0..Len(old) :
                          /\ SubSeq(old, 1, n) = SubSeq(new, 1, n)
                          /\ n = Len(old) \/ old[n + 1] # new[n + 1]
           IN  same \in 1..Len(old) /\ Differ(old, new, same)
<1> DEFINE Begins(n) == SubSeq(old, 1, n) = SubSeq(new, 1, n)
           Ends(n) == Begins(n) /\ (n = Len(old) \/ old[n + 1] # new[n + 1])
           T == {n \in 0..Len(old) : Begins(n)}
           same == CHOOSE n \in 0..Len(old) : Ends(n)
<1>1. Len(old) \in Nat /\ Len(old) > 0 /\ Len(new) \in Nat
  BY EmptySeq
<1>2. T \subseteq 0..Len(old) /\ 0 \in T
  BY <1>1
<1>3. ASSUME NEW n \in T, n # Len(old), old[n + 1] = new[n + 1]
      PROVE  n + 1 \in T
  <2>1. n \in 0..Len(old) /\ Begins(n) /\ n + 1 \in 0..Len(old)
    BY <1>1, <1>3
  <2>2. ASSUME NEW s \in Seq(S), n + 1 <= Len(s)
        PROVE  /\ SubSeq(s, 1, n + 1) \in Seq(S) /\ Len(SubSeq(s, 1, n + 1)) = n + 1
               /\ \A k \in 1..n + 1 : SubSeq(s, 1, n + 1)[k] = s[k]
               /\ Len(SubSeq(s, 1, n)) = n
               /\ \A k \in 1..n : SubSeq(s, 1, n)[k] = s[k]
    BY <2>1, <2>2
  <2>3. n + 1 <= Len(old) /\ n + 1 <= Len(new)
    BY <2>1, <1>1
  <2>4. /\ SubSeq(old, 1, n + 1) \in Seq(S) /\ Len(SubSeq(old, 1, n + 1)) = n + 1
        /\ \A k \in 1..n + 1 : SubSeq(old, 1, n + 1)[k] = old[k]
        /\ \A k \in 1..n : SubSeq(old, 1, n)[k] = old[k]
    BY <2>2, <2>3
  <2>5. /\ SubSeq(new, 1, n + 1) \in Seq(S) /\ Len(SubSeq(new, 1, n + 1)) = n + 1
        /\ \A k \in 1..n + 1 : SubSeq(new, 1, n + 1)[k] = new[k]
        /\ \A k \in 1..n : SubSeq(new, 1, n)[k] = new[k]
    BY <2>2, <2>3
  <2>6. \A k \in 1..n + 1 : old[k] = new[k]
    <3>1. \A k \in 1..n : old[k] = new[k]
      BY <2>1, <2>4, <2>5
    <3>2. \A k \in 1..n + 1 : k \in 1..n \/ k = n + 1
      BY <2>1
    <3> QED
      BY <3>1, <3>2, <1>3
  <2>7. Begins(n + 1)
    BY <2>4, <2>5, <2>6, SeqEqual
  <2> HIDE DEF Begins
  <2> QED
    BY <2>1, <2>7
<1>4. \E n \in 0..Len(old) : Ends(n)
  <2> DEFINE m == Max(T)
  <2>1. m \in T /\ \A y \in T : y <= m
    <3> HIDE DEF T
    <3> QED
      BY <1>1, <1>2, Greatest
  <2>2. m \in 0..Len(old) /\ Begins(m)
    BY <2>1
  <2> HIDE DEF T, m, Begins
  <2>3. m = Len(old) \/ old[m + 1] # new[m + 1]
    BY <2>1, <2>2, <1>1, <1>3
  <2> QED
    BY <2>2, <2>3
<1>5. ~Ends(0)
  BY <1>1
<1>6. same \in 0..Len(old) /\ Ends(same)
  <2> HIDE DEF Ends
  <2> QED
    BY <1>4
<1>7. same \in 1..Len(old)
  <2> HIDE DEF Ends, same
  <2> QED
    BY <1>1, <1>5, <1>6
<1>8. \A i \in 1..same : old[i] = new[i]
  <2> HIDE DEF same
  <2>1. \A i \in 1..same : SubSeq(old, 1, same)[i] = old[i] /\ SubSeq(new, 1, same)[i] = new[i]
    BY <1>1, <1>7
  <2> QED
    BY <2>1, <1>6
<1>9. Differ(old, new, same)
  <2> HIDE DEF same, Begins
  <2> QED
    BY <1>6, <1>8 DEF Differ
<1> QED
  BY <1>7, <1>9

\* The entries of a repair fit behind the file they repair.
LEMMA RecoveryFits ==
    ASSUME file \in Seq(Entry), IsTree(file), NEW leaf \in 0..Len(file),
           NEW rs, rs = Rows(file, leaf), Recovered(Messages(rs)) # Messages(rs)
    PROVE  /\ Fits(Len(file), RecoveryEntries(rs)) /\ Len(RecoveryEntries(rs)) > 0
           /\ RecoveryEntries(rs)[Len(RecoveryEntries(rs))]
                 = LeafEntry(Len(file) + Len(RecoveryEntries(rs)) - 1)
<1> DEFINE old == Messages(rs)
           new == Recovered(old)
           same == CHOOSE n \in 0..Len(old) :
                      /\ SubSeq(old, 1, n) = SubSeq(new, 1, n)
                      /\ n = Len(old) \/ old[n + 1] # new[n + 1]
           more == SubSeq(new, same + 1, Len(new))
           es == RecoveryEntries(rs)
           L == Len(more)
           n0 == Len(file)
<1>1. n0 \in Nat /\ leaf \in 0..n0 /\ rs \in Seq(RowsTo(leaf))
  BY RowsTyped
<1>2. old \in Seq(Message) /\ Len(old) = Len(rs)
  BY <1>1, MessagesTyped
<1> HIDE DEF old
<1>3. /\ new \in Seq(Message) /\ Len(old) <= Len(new)
      /\ old # <<>> => new[1] = old[1]
      /\ old # <<>> /\ new # old
  <2>1. new # old
    BY DEF old
  <2> QED
    BY <2>1, <1>2, RecoveredTyped
<1> HIDE DEF new
<1>4. same \in 1..Len(old) /\ Differ(old, new, same)
  <2>1. old \in Seq(Message) /\ new \in Seq(Message)
    BY <1>2, <1>3
  <2> QED
    BY <2>1, <1>3, CommonPrefix
<1> HIDE DEF same
<1>5. rs[same] \in RowsTo(leaf) /\ rs[same].id \in 1..n0
  <2>1. rs[same] \in RowsTo(leaf)
    BY <1>1, <1>2, <1>4, ElementOfSeq
  <2> QED
    BY <2>1, <1>1 DEF RowsTo
<1>6. more \in Seq(Message) /\ L \in Nat
  <2>1. Len(old) \in Nat /\ Len(new) \in Nat
    BY <1>2, <1>3
  <2> QED
    BY <2>1, <1>3, <1>4
<1> HIDE DEF more, L, n0
<1> DEFINE E(k) == LET n == n0 + k
                   IN  IF k > L THEN LeafEntry(n - 1)
                       ELSE MessageEntry(IF k = 1 THEN rs[same].id ELSE n - 1, more[k])
<1>7. es = [k \in 1..L + 1 |-> E(k)]
  BY DEF RecoveryEntries, old, new, same, more, L, n0
<1> HIDE DEF es
<1>8. \A k \in 1..L + 1 : es[k] = E(k)
  <2> HIDE DEF E
  <2> QED
    BY <1>7
<1>9. ASSUME NEW k \in 1..L + 1
      PROVE  /\ es[k] \in Entry /\ es[k].parent \in 0..n0 + k - 1
             /\ es[k].type = "leaf" => es[k].target \in 0..n0 + k - 1
  <2>1. CASE k > L
    <3>1. es[k] = LeafEntry(n0 + k - 1) /\ n0 + k - 1 \in Nat
      BY <2>1, <1>1, <1>8
    <3> QED
      BY <3>1 DEF LeafEntry, Entry
  <2>2. CASE ~(k > L)
    <3> DEFINE q == IF k = 1 THEN rs[same].id ELSE n0 + k - 1
               m == more[k]
    <3>1. es[k] = MessageEntry(q, m)
      <4>1. E(k) = MessageEntry(q, m)
        BY <2>2, <1>1, <1>6
      <4>2. es[k] = E(k)
        <5> HIDE DEF E, q, m
        <5> QED
          BY <1>8
      <4> HIDE DEF E, q, m
      <4> QED
        BY <4>1, <4>2
    <3>2. q \in Nat /\ q \in 0..n0 + k - 1
      <4> DEFINE r == rs[same].id
      <4>1. r \in 1..n0
        BY <1>5
      <4> HIDE DEF r
      <4>2. (IF k = 1 THEN r ELSE n0 + k - 1) \in 0..n0 + k - 1
        BY <4>1, <1>1, <1>6
      <4>3. q \in 0..n0 + k - 1
        BY <4>2 DEF r
      <4> HIDE DEF q
      <4> QED
        BY <4>3, <1>1
    <3>3. m \in Message
      BY <2>2, <1>6 DEF L
    <3> HIDE DEF q, m
    <3> QED
      BY <3>1, <3>2, <3>3 DEF MessageEntry, Entry
  <2> QED
    BY <2>1, <2>2
<1>10. es \in Seq(Entry) /\ Len(es) = L + 1
  <2>1. DOMAIN es = 1..L + 1 /\ L + 1 \in Nat
    BY <1>6, <1>7
  <2>2. es = [k \in 1..L + 1 |-> es[k]]
    BY <1>7
  <2> QED
    BY <2>1, <2>2, <1>9
<1>11. es[L + 1] = LeafEntry(n0 + L)
  <2>1. L + 1 \in 1..L + 1 /\ L + 1 > L /\ n0 + (L + 1) - 1 = n0 + L
    BY <1>1, <1>6
  <2>2. es[L + 1] = LeafEntry(n0 + (L + 1) - 1)
    <3>1. E(L + 1) = LeafEntry(n0 + (L + 1) - 1)
      BY <2>1, <1>1, <1>6
    <3>2. es[L + 1] = E(L + 1)
      <4> HIDE DEF E
      <4> QED
        BY <2>1, <1>8
    <3> HIDE DEF E
    <3> QED
      BY <3>1, <3>2
  <2> QED
    BY <2>1, <2>2
<1>12. Fits(n0, es)
  BY <1>9, <1>10 DEF Fits
<1>13. n0 + Len(es) - 1 = n0 + L /\ Len(es) > 0
  BY <1>1, <1>6, <1>10
<1> QED
  BY <1>10, <1>11, <1>12, <1>13 DEF es, n0

-----------------------------------------------------------------------------
(* Compaction plans.                                                       *)

LEMMA NextUserType ==
    ASSUME NEW rs, Len(rs) \in Nat, NEW start \in Nat
    PROVE  NextUser(rs, start) \in 0..Len(rs)
<1> DEFINE after == {i \in start..Len(rs) : rs[i].message.kind = "user"}
<1>1. after \subseteq Nat /\ after \subseteq 0..Len(rs)
  OBVIOUS
<1>2. NextUser(rs, start) = IF after = {} THEN 0 ELSE CHOOSE i \in after : \A j \in after : i <= j
  BY DEF NextUser
<1> HIDE DEF after
<1>3. after # {} => \E i \in after : \A j \in after : i <= j
  BY <1>1, Least
<1>4. CASE after = {}
  BY <1>2, <1>4
<1>5. CASE after # {}
  <2>1. NextUser(rs, start) \in after
    BY <1>2, <1>3, <1>5
  <2> QED
    BY <2>1, <1>1
<1> QED
  BY <1>4, <1>5

LEMMA CutAtType ==
    ASSUME NEW rs, Len(rs) \in Nat, NEW candidate \in 1..Len(rs)
    PROVE  CutAt(rs, candidate) \in Int /\ CutAt(rs, candidate) <= Len(rs)
<1> DEFINE isUser == rs[candidate].message.kind = "user"
           nextUser == NextUser(rs, candidate + 1)
           kept == {i \in candidate..Len(rs) : rs[i].message.kind # "result"}
           first == CHOOSE i \in kept : \A j \in kept : i <= j
<1>1. nextUser \in 0..Len(rs)
  BY NextUserType
<1>2. kept \subseteq 0..Len(rs) /\ kept \subseteq Nat
  OBVIOUS
<1>3. kept # {} => first \in 0..Len(rs)
  <2> HIDE DEF kept
  <2>1. kept # {} => \E i \in kept : \A j \in kept : i <= j
    BY <1>2, Least
  <2> QED
    BY <2>1, <1>2
<1>4. CutAt(rs, candidate) =
         CASE isUser /\ candidate > 1                   -> candidate - 1
           [] ~(isUser /\ candidate > 1) /\ nextUser > 0 -> nextUser - 1
           [] isUser /\ candidate = 1 /\ nextUser = 0     -> 0
           [] ~isUser /\ nextUser = 0 /\ kept = {}        -> Len(rs)
           [] OTHER -> first - 1
  BY DEF CutAt
<1> HIDE DEF isUser, nextUser, kept, first
<1>5. CASE isUser /\ candidate > 1
  <2>1. CutAt(rs, candidate) = candidate - 1
    BY <1>4, <1>5
  <2> QED
    BY <2>1
<1>6. CASE ~(isUser /\ candidate > 1) /\ nextUser > 0
  <2>1. CutAt(rs, candidate) = nextUser - 1
    BY <1>4, <1>6
  <2> QED
    BY <2>1, <1>1
<1>7. CASE isUser /\ candidate = 1 /\ nextUser = 0
  BY <1>4, <1>7
<1>8. CASE ~isUser /\ nextUser = 0 /\ kept = {}
  BY <1>4, <1>8
<1>9. CASE ~isUser /\ nextUser = 0 /\ kept # {}
  <2>1. CutAt(rs, candidate) = first - 1
    BY <1>4, <1>9
  <2> QED
    BY <2>1, <1>3, <1>9
<1>10. nextUser > 0 \/ nextUser = 0
  BY <1>1
<1>11. candidate > 1 \/ candidate = 1
  OBVIOUS
<1> QED
  BY <1>5, <1>6, <1>7, <1>8, <1>9, <1>10, <1>11

LEMMA PlansFit ==
    ASSUME NEW n \in Nat, NEW rs \in Seq(RowsTo(n)), NEW ids \in Plans(rs)
    PROVE  ids \subseteq 1..n /\ rs # <<>>
<1>1. PICK c \in 1..Len(rs) : Len(rs) >= 2 /\ ids = {rs[i].id : i \in 1..CutAt(rs, c)}
  BY DEF Plans
<1>2. Len(rs) \in Nat /\ CutAt(rs, c) \in Int /\ CutAt(rs, c) <= Len(rs)
  BY CutAtType
<1>3. \A i \in 1..CutAt(rs, c) : i \in 1..Len(rs)
  BY <1>2
<1>4. \A i \in 1..Len(rs) : rs[i].id \in 1..n
  <2>1. \A i \in 1..Len(rs) : rs[i] \in RowsTo(n)
    BY ElementOfSeq
  <2> QED
    BY <2>1 DEF RowsTo
<1>5. rs # <<>>
  BY <1>1
<1> QED
  BY <1>1, <1>3, <1>4, <1>5
-----------------------------------------------------------------------------
(* The inductive invariant.                                                *)

\* Outside a run everything that was announced is on disk.
Kept == up /\ ~unwound /\ at \notin RunPlaces => shown \subseteq InFile

Core == /\ TypeOK /\ SettledDurable /\ SavedUpToCount /\ Kept
        /\ SavedBranch /\ UnsavedAhead /\ RunShape

LEMMA Here ==
    ASSUME Core, up
    PROVE  /\ Base \in Seq(Entry) /\ IsTree(Base) /\ Len(Base) \in Nat
           /\ Len(file) \in Nat /\ Len(file) <= Len(Base) /\ Len(Base) > 0
           /\ lastParent \in 0..Len(Base)
           /\ Transcript(Base, lastParent) = stored
           /\ file # <<>> => Base = file
           /\ ContextRows \in Seq(RowsTo(lastParent))
           /\ ContextRows # <<>> => Base = file
<1>1. /\ file \in Seq(Entry) /\ IsTree(file) /\ stored = Saved(file)
      /\ lastParent \in Nat /\ lastParent <= Len(Base)
      /\ lastParent = ActiveLeaf(Base)
  BY DEF Core, TypeOK, SavedBranch
<1>2. /\ Base \in Seq(Entry) /\ IsTree(Base) /\ Len(file) <= Len(Base) /\ Len(Base) > 0
      /\ Saved(Base) = Saved(file)
      /\ file # <<>> => Base = file
      /\ file = <<>> => \A i \in 0..Len(Base) : Rows(Base, i) = <<>>
  BY <1>1, BegunTyped DEF Base, Begun
<1>3. Len(Base) \in Nat /\ Len(file) \in Nat
  BY <1>1, <1>2
<1>4. lastParent \in 0..Len(Base)
  BY <1>1, <1>3
<1>5. Transcript(Base, lastParent) = stored
  BY <1>1, <1>2 DEF Saved
<1>6. ContextRows \in Seq(RowsTo(lastParent))
  BY <1>2, <1>4, RowsTyped DEF ContextRows
<1>7. ContextRows # <<>> => Base = file
  BY <1>2, <1>4 DEF ContextRows
<1> QED
  BY <1>2, <1>3, <1>4, <1>5, <1>6, <1>7

LEMMA PersistProperties ==
    ASSUME Core, up, NEW s \in Seq(Message), count <= Len(s), Persist(s)
    PROVE  /\ file' \in Seq(Entry) /\ IsTree(file') /\ Len(file) <= Len(file')
           /\ stored' = Saved(file') /\ stored' \in Seq(Message)
           /\ up' \in BOOLEAN /\ crashes' \in Nat
           /\ lastParent' \in Nat /\ count' \in Nat /\ count' = Len(s)
           /\ InFile \subseteq InFile'
           /\ up' => lastParent' <= Len(Base') /\ lastParent' = ActiveLeaf(Base')
           /\ up' /\ stored = SubSeq(s, 1, count) => stored' = s
           /\ up' => \A i \in count + 1..Len(s) : s[i] \in InFile'
<1> DEFINE new == NewSince(s, count)
<1>1. /\ file \in Seq(Entry) /\ IsTree(file) /\ stored = Saved(file) /\ stored \in Seq(Message)
      /\ lastParent \in Nat /\ lastParent <= Len(Base) /\ lastParent = ActiveLeaf(Base)
      /\ count \in Nat /\ crashes \in Nat
  BY DEF Core, TypeOK, SavedBranch
<1>2. /\ Base \in Seq(Entry) /\ IsTree(Base) /\ Len(Base) \in Nat
      /\ lastParent \in 0..Len(Base)
      /\ Transcript(Base, lastParent) = stored
  BY Here
<1>3. /\ Len(s) \in Nat /\ new \in Seq(Message) /\ Len(new) = Len(s) - count
      /\ \A j \in 1..Len(s) - count : new[j] = s[count + j]
  BY <1>1 DEF NewSince
<1>4. CASE new = <<>>
  <2>1. UNCHANGED <<disk, up, lastParent, count, crashes>>
    BY <1>4 DEF Persist
  <2>2. Base' = Base /\ InFile' = InFile
    BY <2>1 DEF Base, InFile, disk
  <2>3. count = Len(s)
    BY <1>1, <1>3, <1>4
  <2>4. SubSeq(s, 1, count) = s
    BY <2>3, SubSeqFull
  <2>5. \A i \in count + 1..Len(s) : FALSE
    BY <2>3, <1>3
  <2> QED
    BY <1>1, <2>1, <2>2, <2>3, <2>4, <2>5 DEF disk
<1>5. CASE new # <<>>
  <2> DEFINE es == MessageEntries(lastParent, new)
             L == Len(new)
             t == Len(Base) + 2 * L - 1
  <2>1. /\ Store(es) /\ lastParent' = t /\ count' = Len(s)
    BY <1>5 DEF Persist
  <2>2. es = Burst(Len(Base), lastParent, new)
    BY DEF MessageEntries, Burst
  <2>3. L \in Nat /\ L > 0 /\ t \in Nat
    <3> HIDE DEF new
    <3> QED
      BY <1>2, <1>3, <1>5, EmptySeq
  <2> HIDE DEF es, new
  <2>4. /\ Fits(Len(Base), es) /\ Len(es) = 2 * L
        /\ \A j \in 1..L : 2 * j - 1 \in 1..2 * L
        /\ \A j \in 1..L : es[2 * j - 1].type = "message" /\ es[2 * j - 1].message = new[j]
        /\ es[2 * L] = LeafEntry(t)
    <3>1. /\ Fits(Len(Base), es) /\ Len(es) = 2 * L
          /\ \A j \in 1..L :
                /\ 2 * j - 1 \in 1..2 * L
                /\ es[2 * j - 1] = MessageEntry(IF j = 1 THEN lastParent
                                               ELSE Len(Base) + 2 * (j - 1) - 1, new[j])
          /\ es[2 * L] = LeafEntry(t)
      <4> DEFINE b == Burst(Len(Base), lastParent, new)
      <4>1. Len(Base) \in Nat /\ lastParent \in 0..Len(Base) /\ new \in Seq(Message)
        BY <1>2, <1>3
      <4>2. /\ Fits(Len(Base), b) /\ Len(b) = 2 * L
            /\ \A j \in 1..L :
                  /\ 2 * j - 1 \in 1..2 * L
                  /\ b[2 * j - 1] = MessageEntry(IF j = 1 THEN lastParent
                                               ELSE Len(Base) + 2 * (j - 1) - 1, new[j])
            /\ L > 0 => b[2 * L] = LeafEntry(t)
        BY ONLY <4>1, BurstFits
      <4>3. es = b
        BY <2>2
      <4> HIDE DEF b, L, t
      <4> QED
        BY <4>2, <4>3, <2>3
    <3>2. \A x, y : MessageEntry(x, y).type = "message" /\ MessageEntry(x, y).message = y
      BY DEF MessageEntry
    <3> QED
      BY <3>1, <3>2
  <2>5. Transcript(Base \o es, t) = stored \o new
    <3>1. Transcript(Base \o Burst(Len(Base), lastParent, new), t)
             = Transcript(Base, lastParent) \o new
      BY <1>2, <1>3, <2>3, BurstTranscript
    <3> QED
      BY <3>1, <2>2, <1>2
  <2>6. Len(es) > 0 /\ es[Len(es)] = LeafEntry(t)
    BY <2>3, <2>4
  <2>7. /\ file' \in Seq(Entry) /\ IsTree(file') /\ Len(file) <= Len(file')
        /\ stored' = Saved(file') /\ stored' \in Seq(Message)
        /\ up' \in BOOLEAN /\ crashes' \in Nat
        /\ InFile \subseteq InFile'
        /\ up' => /\ file' = Base \o es /\ Base' = file'
                  /\ ActiveLeaf(Base') = t /\ t \in 0..Len(Base')
                  /\ stored' = Transcript(Base \o es, t)
    <3> HIDE DEF t
    <3> QED
      BY <1>1, <2>1, <2>4, <2>6, StoreProperties
  <2>8. up' => lastParent' <= Len(Base') /\ lastParent' = ActiveLeaf(Base')
    <3> SUFFICES ASSUME up' PROVE lastParent' <= Len(Base') /\ lastParent' = ActiveLeaf(Base')
      OBVIOUS
    <3> HIDE DEF t
    <3>1. t \in 0..Len(Base') /\ ActiveLeaf(Base') = t
      BY <2>7
    <3> QED
      BY <3>1, <2>1
  <2>9. up' /\ stored = SubSeq(s, 1, count) => stored' = s
    <3> SUFFICES ASSUME up', stored = SubSeq(s, 1, count) PROVE stored' = s
      OBVIOUS
    <3>1. stored' = SubSeq(s, 1, count) \o SubSeq(s, count + 1, Len(s))
      BY <2>5, <2>7 DEF new, NewSince
    <3>2. SubSeq(s, 1, count) \o SubSeq(s, count + 1, Len(s)) = SubSeq(s, 1, Len(s))
      <4>1. 1 \in 1..Len(s) + 1 /\ count \in 1 - 1..Len(s) /\ Len(s) \in count..Len(s)
        BY <1>1, <1>3
      <4> QED
        BY <4>1, ConcatAdjacentSubSeq
    <3> QED
      BY <3>1, <3>2, SubSeqFull
  <2>10. up' => \A i \in count + 1..Len(s) : s[i] \in InFile'
    <3> SUFFICES ASSUME up', NEW i \in count + 1..Len(s) PROVE s[i] \in InFile'
      OBVIOUS
    <3> DEFINE j == i - count
               k == Len(Base) + (2 * j - 1)
    <3>1. j \in 1..L /\ j \in 1..Len(s) - count /\ count + j = i
      BY <1>1, <1>3
    <3> HIDE DEF j
    <3>2. new[j] = s[i]
      BY <3>1, <1>3
    <3>3. 2 * j - 1 \in 1..Len(es) /\ es[2 * j - 1].type = "message" /\ es[2 * j - 1].message = s[i]
      BY <3>1, <3>2, <2>4
    <3>4. file' = Base \o es
      BY <2>7
    <3>5. k \in DOMAIN (Base \o es) /\ (Base \o es)[k] = es[2 * j - 1]
      <4> DEFINE x == 2 * j - 1
      <4>1. x \in 1..Len(es) /\ es \in Seq(Entry)
        BY <3>3, <2>4 DEF Fits
      <4> HIDE DEF x
      <4>2. Len(Base) + x \in DOMAIN (Base \o es) /\ (Base \o es)[Len(Base) + x] = es[x]
        BY <4>1, <1>2
      <4> QED
        BY <4>2 DEF x
    <3> HIDE DEF k
    <3>6. k \in DOMAIN file' /\ file'[k].type = "message" /\ file'[k].message = s[i]
      BY <3>3, <3>4, <3>5
    <3> QED
      BY <3>6 DEF InFile
  <2> QED
    BY <2>1, <2>3, <2>7, <2>8, <2>9, <2>10, <1>3
<1> QED
  BY <1>4, <1>5
-----------------------------------------------------------------------------
(* Steps that do not write.                                                *)

LEMMA Rest ==
    ASSUME Core, UNCHANGED <<disk, up, lastParent>>
    PROVE  /\ file' \in Seq(Entry) /\ IsTree(file') /\ stored' \in Seq(Message)
           /\ up' \in BOOLEAN /\ lastParent' \in Nat /\ (up' => lastParent' <= Len(Base'))
           /\ SavedBranch'
           /\ InFile' = InFile /\ Base' = Base /\ DOMAIN file' = DOMAIN file
           /\ Len(file') = Len(file) /\ file' = file /\ stored' = stored /\ up' = up
<1>1. file' = file /\ stored' = stored /\ up' = up /\ lastParent' = lastParent
  BY DEF disk
<1>2. InFile' = InFile /\ Base' = Base
  BY <1>1 DEF InFile, Base
<1>3. SavedBranch'
  BY <1>1, <1>2 DEF Core, SavedBranch
<1> QED
  BY <1>1, <1>2, <1>3 DEF Core, TypeOK

LEMMA SubSeqOfPrefix ==
    ASSUME NEW S, NEW s \in Seq(S), NEW t \in Seq(S), Len(s) <= Len(t),
           \A i \in 1..Len(s) : t[i] = s[i], NEW n \in 0..Len(s)
    PROVE  SubSeq(t, 1, n) = SubSeq(s, 1, n)
<1>1. Len(s) \in Nat /\ Len(t) \in Nat
  OBVIOUS
<1>2. /\ SubSeq(s, 1, n) \in Seq(S) /\ Len(SubSeq(s, 1, n)) = n
      /\ \A k \in 1..n : SubSeq(s, 1, n)[k] = s[k]
  BY <1>1
<1>3. /\ SubSeq(t, 1, n) \in Seq(S) /\ Len(SubSeq(t, 1, n)) = n
      /\ \A k \in 1..n : SubSeq(t, 1, n)[k] = t[k]
  BY <1>1
<1>4. \A k \in 1..n : t[k] = s[k]
  BY <1>1
<1> QED
  BY <1>2, <1>3, <1>4, SeqEqual

\* A step that ends or begins what is no run, and leaves everything else alone.
LEMMA MoveKeeps ==
    ASSUME Core, UNCHANGED <<disk, up, live, lastParent, runVars, history, users, replies, calls,
                             commands, metas, crashes>>,
           at \notin RunPlaces, at' \in Places \ RunPlaces,
           then' \in {"idle", "prompting", "retrying"},
           plan' \subseteq DOMAIN file, branch' \in 0..Len(file),
           branch' # 0 => at' = "idle", rewrites' \in Nat
    PROVE  Core'
<1>1. /\ file' \in Seq(Entry) /\ IsTree(file') /\ stored' \in Seq(Message)
      /\ up' \in BOOLEAN /\ lastParent' \in Nat /\ (up' => lastParent' <= Len(Base'))
      /\ SavedBranch'
      /\ InFile' = InFile /\ Base' = Base /\ DOMAIN file' = DOMAIN file
      /\ Len(file') = Len(file) /\ file' = file /\ stored' = stored /\ up' = up
  BY Rest
<1>2. TypeOK'
  BY <1>1 DEF Core, TypeOK, runVars, history
<1>3. SettledDurable' /\ Kept'
  BY <1>1 DEF Core, SettledDurable, Kept, history
<1>4. SavedUpToCount' /\ UnsavedAhead'
  BY DEF SavedUpToCount, UnsavedAhead
<1>5. RunShape'
  BY DEF RunShape, RunPlaces
<1> QED
  BY <1>1, <1>2, <1>3, <1>4, <1>5 DEF Core

LEMMA StartCompactionKeeps ==
    ASSUME Core, up, branch = 0, at \notin RunPlaces,
           NEW plans, \A ids \in plans : ids \subseteq DOMAIN file,
           NEW next \in {"idle", "prompting", "retrying"},
           StartCompaction(plans, next)
    PROVE  Core'
<1>1. /\ plan' \subseteq DOMAIN file /\ at' = "summarizing" /\ then' = next
      /\ branch' = 0 /\ branch' \in 0..Len(file) /\ rewrites' \in Nat
  BY DEF StartCompaction, Core, TypeOK
<1> QED
  BY <1>1, MoveKeeps DEF StartCompaction, Places, RunPlaces

LEMMA PlansInFile ==
    ASSUME Core, up
    PROVE  \A ids \in Plans(ContextRows) : ids \subseteq DOMAIN file
<1> SUFFICES ASSUME NEW ids \in Plans(ContextRows) PROVE ids \subseteq DOMAIN file
  OBVIOUS
<1>1. /\ lastParent \in 0..Len(Base) /\ Len(Base) \in Nat
      /\ ContextRows \in Seq(RowsTo(lastParent))
      /\ ContextRows # <<>> => Base = file
      /\ file \in Seq(Entry)
  BY Here DEF Core, TypeOK
<1>2. ids \subseteq 1..lastParent /\ ContextRows # <<>>
  BY <1>1, PlansFit
<1> QED
  BY <1>1, <1>2

LEMMA PromptKeeps ==
    ASSUME Core, Prompt PROVE Core'
<1>1. up /\ at = "idle" /\ branch = 0 /\ at \notin RunPlaces
  BY DEF Prompt, RunPlaces
<1>2. CASE StartCompaction(Plans(ContextRows), "prompting")
  BY <1>1, <1>2, PlansInFile, StartCompactionKeeps
<1>3. CASE /\ at' = "prompting"
           /\ UNCHANGED <<disk, up, live, lastParent, then, runVars, plan, branch,
                          history, counters>>
  <2>1. /\ then' \in {"idle", "prompting", "retrying"} /\ plan' \subseteq DOMAIN file
        /\ branch' \in 0..Len(file) /\ branch' = 0
    BY <1>1, <1>3 DEF Core, TypeOK
  <2> QED
    BY <1>1, <1>3, <2>1, MoveKeeps DEF Places, RunPlaces, counters, Core, TypeOK
<1> QED
  BY <1>2, <1>3 DEF Prompt

LEMMA SettledKeeps ==
    ASSUME Core, at \notin RunPlaces, Settled PROVE Core'
<1>1. /\ then' \in {"idle", "prompting", "retrying"} /\ plan' \subseteq DOMAIN file
      /\ branch' \in 0..Len(file)
  BY DEF Core, TypeOK, Settled
<1> QED
  BY <1>1, MoveKeeps DEF Settled, Places, RunPlaces, counters, Core, TypeOK

LEMMA AfterRunKeeps ==
    ASSUME Core, Overflowed \/ Settle PROVE Core'
<1>1. up /\ at \in {"overflowed", "settling"} /\ branch = 0 /\ at \notin RunPlaces
  BY DEF Overflowed, Settle, RunPlaces, Core, RunShape
<1>2. CASE StartCompaction(Plans(ContextRows), "retrying")
  BY <1>1, <1>2, PlansInFile, StartCompactionKeeps
<1>3. CASE StartCompaction(Plans(ContextRows), "idle")
  BY <1>1, <1>3, PlansInFile, StartCompactionKeeps
<1>4. CASE Settled
  BY <1>1, <1>4, SettledKeeps
<1> QED
  BY <1>2, <1>3, <1>4 DEF Overflowed, Settle

LEMMA CompactKeeps ==
    ASSUME Core, Compact PROVE Core'
<1> DEFINE ids == {ContextRows[i].id : i \in DOMAIN ContextRows}
<1>1. /\ up /\ at = "idle" /\ branch = 0 /\ at \notin RunPlaces /\ ContextRows # <<>>
      /\ StartCompaction({ids}, "idle")
  BY DEF Compact, RunPlaces
<1>2. ids \subseteq DOMAIN file
  <2>1. /\ lastParent \in 0..Len(Base) /\ Len(Base) \in Nat
        /\ ContextRows \in Seq(RowsTo(lastParent))
        /\ Base = file /\ file \in Seq(Entry)
    BY <1>1, Here DEF Core, TypeOK
  <2>2. \A i \in DOMAIN ContextRows : ContextRows[i] \in RowsTo(lastParent)
    BY <2>1
  <2>3. \A i \in DOMAIN ContextRows : ContextRows[i].id \in 1..lastParent
    BY <2>2 DEF RowsTo
  <2> QED
    BY <2>1, <2>3
<1> HIDE DEF ids
<1> QED
  BY <1>1, <1>2, StartCompactionKeeps

LEMMA AbandonCompactionKeeps ==
    ASSUME Core, AbandonCompaction PROVE Core'
<1>1. at \notin RunPlaces /\ branch = 0
  BY DEF AbandonCompaction, RunPlaces, Core, RunShape
<1>2. /\ at' \in {"idle", "prompting"} /\ then' = "idle" /\ plan' = {}
      /\ branch' \in 0..Len(file) /\ branch' = 0
  BY <1>1 DEF AbandonCompaction, Core, TypeOK
<1> QED
  BY <1>1, <1>2, MoveKeeps DEF AbandonCompaction, Places, RunPlaces, counters, Core, TypeOK

LEMMA AbandonBranchKeeps ==
    ASSUME Core, AbandonBranch PROVE Core'
<1>1. at = "idle" /\ at \notin RunPlaces
  BY DEF AbandonBranch, RunPlaces, Core, RunShape
<1>2. /\ at' = "idle" /\ then' \in {"idle", "prompting", "retrying"}
      /\ plan' \subseteq DOMAIN file /\ branch' = 0 /\ branch' \in 0..Len(file)
  BY <1>1 DEF AbandonBranch, Core, TypeOK
<1> QED
  BY <1>1, <1>2, MoveKeeps DEF AbandonBranch, Places, RunPlaces, counters, Core, TypeOK
LEMMA StartBranchSummaryKeeps ==
    ASSUME Core, StartBranchSummary PROVE Core'
<1>1. at = "idle" /\ at \notin RunPlaces
  BY DEF StartBranchSummary, RunPlaces
<1>2. /\ at' = "idle" /\ then' \in {"idle", "prompting", "retrying"} /\ rewrites' \in Nat
      /\ plan' \subseteq DOMAIN file /\ branch' \in 0..Len(file)
  BY <1>1 DEF StartBranchSummary, Core, TypeOK
<1> QED
  BY <1>1, <1>2, MoveKeeps DEF StartBranchSummary, Places, RunPlaces

\* A run begins with the transcript that is on disk, repaired.
LEMMA StartRunKeeps ==
    ASSUME Core, up, at \notin RunPlaces, branch = 0,
           NEW prompts \in Seq(Message), NEW isRetry \in BOOLEAN,
           NEW place \in {"injecting", "streaming"},
           place = "injecting" => prompts # <<>>,
           StartRun(prompts, isRetry, place), users' \in Nat
    PROVE  Core'
<1>1. /\ UNCHANGED <<disk, up, lastParent, then, plan, branch, history, replies,
                     calls, commands, metas, rewrites, crashes>>
      /\ count' = Len(live) /\ live' = Repaired(live) \o prompts
      /\ reply' = None /\ todo' = <<>> /\ cancelled' = FALSE /\ retried' = isRetry
      /\ at' = place
  BY DEF StartRun
<1>2. /\ file' \in Seq(Entry) /\ IsTree(file') /\ stored' \in Seq(Message)
      /\ up' \in BOOLEAN /\ lastParent' \in Nat /\ (up' => lastParent' <= Len(Base'))
      /\ SavedBranch'
      /\ InFile' = InFile /\ Base' = Base /\ DOMAIN file' = DOMAIN file
      /\ Len(file') = Len(file) /\ file' = file /\ stored' = stored /\ up' = up
  BY <1>1, Rest
<1>3. /\ live \in Seq(Message) /\ Len(live) \in Nat
      /\ ~unwound => live = stored /\ shown \subseteq InFile
  BY DEF Core, TypeOK, SettledDurable, Kept
<1>4. /\ live' \in Seq(Message) /\ Len(live) <= Len(live')
      /\ prompts # <<>> => Len(live) < Len(live')
      /\ \A i \in 1..Len(live) : live'[i] = live[i]
  <2> DEFINE r == Repaired(live)
  <2>1. r \in Seq(Message) /\ Len(live) <= Len(r) /\ \A i \in 1..Len(live) : r[i] = live[i]
    BY <1>3, RepairedTyped
  <2> HIDE DEF r
  <2>2. prompts # <<>> => Len(prompts) > 0
    BY EmptySeq
  <2>3. /\ r \o prompts \in Seq(Message) /\ Len(r \o prompts) = Len(r) + Len(prompts)
        /\ \A i \in 1..Len(r) : (r \o prompts)[i] = r[i]
        /\ Len(r) \in Nat /\ Len(prompts) \in Nat
    BY <2>1
  <2>4. live' = r \o prompts
    BY <1>1 DEF r
  <2>5. Len(live) <= Len(live') /\ (prompts # <<>> => Len(live) < Len(live'))
    BY <1>3, <2>1, <2>2, <2>3, <2>4
  <2>6. \A i \in 1..Len(live) : live'[i] = live[i]
    BY <1>3, <2>1, <2>3, <2>4
  <2> QED
    BY <2>3, <2>4, <2>5, <2>6
<1>5. SubSeq(live', 1, count') = live
  <2>1. SubSeq(live', 1, Len(live)) = SubSeq(live, 1, Len(live))
    <3>1. Len(live) \in 0..Len(live)
      BY <1>3
    <3> QED
      BY <3>1, <1>3, <1>4, SubSeqOfPrefix
  <2> QED
    BY <2>1, <1>1, <1>3, SubSeqFull
<1>6. TypeOK'
  <2>1. todo' \in Seq(Nat) /\ at' \in Places
    BY <1>1 DEF Places, RunPlaces
  <2>2. count' \in Nat /\ count' <= Len(live')
    BY <1>1, <1>3, <1>4
  <2> QED
    BY <1>1, <1>2, <1>4, <2>1, <2>2 DEF Core, TypeOK, history
<1>7. at' \in RunPlaces /\ at' \notin {"answered", "returned", "tool"}
  BY <1>1 DEF RunPlaces
<1>8. SettledDurable' /\ Kept'
  BY <1>7 DEF SettledDurable, Kept
<1>9. SavedUpToCount'
  BY <1>1, <1>2, <1>3, <1>5 DEF SavedUpToCount, history
<1>10. UnsavedAhead'
  <2>1. up' /\ ~unwound' => Unsaved' = {}
    BY <1>1, <1>2, <1>3 DEF Unsaved, history
  <2> QED
    BY <2>1, <1>7 DEF UnsavedAhead
<1>11. RunShape'
  <2>1. at' = "injecting" => count' < Len(live')
    BY <1>1, <1>4
  <2> QED
    BY <2>1, <1>1, <1>7 DEF RunShape
<1> QED
  BY <1>2, <1>6, <1>8, <1>9, <1>10, <1>11 DEF Core

LEMMA RunBeginsKeeps ==
    ASSUME Core, StartPrompt \/ Continue \/ Retry PROVE Core'
<1>1. up /\ at \in {"prompting", "idle", "retrying"} /\ at \notin RunPlaces /\ branch = 0
  BY DEF StartPrompt, Continue, Retry, RunPlaces, Core, RunShape
<1>2. users \in Nat /\ \A n \in Nat : User(n) \in Message
  BY DEF Core, TypeOK, User, Message, UserMessages
<1>3. CASE StartPrompt
  <2>1. <<User(users + 1)>> \in Seq(Message) /\ <<User(users + 1)>> # <<>>
    BY <1>2
  <2>2. StartRun(<<User(users + 1)>>, FALSE, "injecting")
    BY <1>3, Zenon DEF StartPrompt
  <2>3. users' \in Nat
    BY <1>2, <1>3 DEF StartPrompt
  <2> QED
    BY <1>1, <2>1, <2>2, <2>3, StartRunKeeps, Zenon
<1>4. CASE Continue \/ Retry
  <2>1. <<>> \in Seq(Message)
    BY EmptySeq
  <2>2. CASE Continue
    BY <1>1, <1>2, <2>1, <2>2, StartRunKeeps DEF Continue
  <2>3. CASE Retry
    BY <1>1, <1>2, <2>1, <2>3, StartRunKeeps DEF Retry
  <2> QED
    BY <1>4, <2>2, <2>3
<1> QED
  BY <1>3, <1>4
\* The transcript of a run grows behind what is on disk.
LEMMA RunGrows ==
    ASSUME Core, up, at \in RunPlaces, UNCHANGED <<disk, up, lastParent, count, unwound>>,
           live' \in Seq(Message), Len(live) <= Len(live'),
           \A i \in 1..Len(live) : live'[i] = live[i]
    PROVE  /\ count' \in Nat /\ count' <= Len(live') /\ count <= Len(live)
           /\ Len(live) \in Nat /\ Len(live') \in Nat
           /\ SavedUpToCount'
<1>1. /\ live \in Seq(Message) /\ count \in Nat /\ count <= Len(live) /\ Len(live) \in Nat
      /\ ~unwound => stored = SubSeq(live, 1, count)
  BY DEF Core, TypeOK, SavedUpToCount
<1>2. SubSeq(live', 1, count) = SubSeq(live, 1, count)
  <2>1. count \in 0..Len(live)
    BY <1>1
  <2> QED
    BY <2>1, <1>1, SubSeqOfPrefix
<1>3. Len(live') \in Nat /\ count <= Len(live')
  BY <1>1
<1> QED
  BY <1>1, <1>2, <1>3 DEF SavedUpToCount, disk

\* The announced message joins the transcript.
LEMMA AppendAnnouncedKeeps ==
    ASSUME Core, up, at \in RunPlaces, NEW m \in Message,
           ~unwound => Unsaved \subseteq {m},
           live' = Append(live, m),
           UNCHANGED <<disk, up, lastParent, then, count, reply, cancelled, retried,
                       plan, branch, history, counters>>,
           todo' \in Seq(Nat), at' \in {"closing", "turnEnd", "tool"},
           at' = "tool" => todo' # <<>>
    PROVE  Core'
<1>1. /\ live \in Seq(Message) /\ live' \in Seq(Message) /\ Len(live') = Len(live) + 1
      /\ Len(live) \in Nat /\ Len(live) <= Len(live')
      /\ \A i \in 1..Len(live) : live'[i] = live[i]
      /\ live'[Len(live) + 1] = m
  BY DEF Core, TypeOK
<1>2. /\ count' \in Nat /\ count' <= Len(live') /\ count <= Len(live)
      /\ SavedUpToCount'
  BY <1>1, RunGrows DEF history
<1>3. /\ file' \in Seq(Entry) /\ IsTree(file') /\ stored' \in Seq(Message)
      /\ up' \in BOOLEAN /\ lastParent' \in Nat /\ (up' => lastParent' <= Len(Base'))
      /\ SavedBranch'
      /\ InFile' = InFile /\ Base' = Base /\ DOMAIN file' = DOMAIN file
      /\ Len(file') = Len(file) /\ file' = file /\ stored' = stored /\ up' = up
  BY Rest
<1>4. at' \in RunPlaces /\ at' \in Places /\ at' \notin {"answered", "returned", "injecting", "idle"}
  BY DEF RunPlaces, Places
<1>5. TypeOK'
  BY <1>1, <1>2, <1>3, <1>4 DEF Core, TypeOK, history, counters
<1>6. SettledDurable' /\ Kept'
  BY <1>4 DEF SettledDurable, Kept
<1>7. UnsavedAhead'
  <2>1. Unsaved' = Unsaved
    BY <1>3 DEF Unsaved, history
  <2>2. ~unwound => Unsaved = {} \/ Unsaved = {m}
    OBVIOUS
  <2>3. Len(live) + 1 \in count' + 1..Len(live')
    BY <1>1, <1>2 DEF Core, TypeOK
  <2>4. ~unwound' => Unsaved' = {} \/ \E i \in count' + 1..Len(live') : Unsaved' = {live'[i]}
    BY <2>1, <2>2, <2>3, <1>1 DEF history
  <2> QED
    BY <2>4, <1>4 DEF UnsavedAhead
<1>8. RunShape'
  <2>1. branch' = 0
    BY DEF Core, RunShape, RunPlaces
  <2> QED
    BY <2>1, <1>4 DEF RunShape
<1> QED
  BY <1>2, <1>3, <1>5, <1>6, <1>7, <1>8 DEF Core

LEMMA AppendReplyKeeps ==
    ASSUME Core, AppendReply PROVE Core'
<1>1. at \in RunPlaces /\ at = "answered" /\ up
  BY DEF AppendReply, RunPlaces
<1>2. reply \in AssistantMessages
  BY <1>1 DEF Core, TypeOK, RunShape
<1>3. reply \in Message /\ reply.calls \in Seq(Nat)
  BY <1>2 DEF Message, AssistantMessages
<1>4. ~unwound => Unsaved \subseteq {reply}
  BY <1>1 DEF Core, UnsavedAhead
<1>5. todo' \in Seq(Nat)
  BY <1>3, EmptySeq DEF AppendReply
<1>6. at' \in {"closing", "turnEnd", "tool"} /\ (at' = "tool" => todo' # <<>>)
  BY DEF AppendReply
<1> QED
  BY <1>1, <1>3, <1>4, <1>5, <1>6, AppendAnnouncedKeeps DEF AppendReply

LEMMA ResultType ==
    ASSUME Core, at \in {"tool", "returned"}
    PROVE  /\ Result(Head(todo)) \in Message /\ Tail(todo) \in Seq(Nat)
<1>1. todo \in Seq(Nat) /\ todo # <<>>
  BY DEF Core, TypeOK, RunShape
<1>2. Head(todo) \in Nat /\ Tail(todo) \in Seq(Nat)
  BY <1>1, HeadTailProperties
<1> QED
  BY <1>2 DEF Result, Message, ResultMessages

LEMMA AppendResultKeeps ==
    ASSUME Core, AppendResult PROVE Core'
<1>1. at \in RunPlaces /\ at = "returned" /\ up
  BY DEF AppendResult, RunPlaces
<1>2. Result(Head(todo)) \in Message /\ Tail(todo) \in Seq(Nat)
  BY <1>1, ResultType
<1>3. ~unwound => Unsaved \subseteq {Result(Head(todo))}
  BY <1>1 DEF Core, UnsavedAhead
<1>4. at' \in {"closing", "turnEnd", "tool"} /\ (at' = "tool" => todo' # <<>>) /\ todo' \in Seq(Nat)
  BY <1>2 DEF AppendResult
<1> QED
  BY <1>1, <1>2, <1>3, <1>4, AppendAnnouncedKeeps DEF AppendResult

LEMMA TurnEndKeeps ==
    ASSUME Core, TurnEnd PROVE Core'
<1>1. /\ up /\ at = "turnEnd" /\ at \in RunPlaces
      /\ UNCHANGED <<disk, up, lastParent, then, runVars, plan, branch, history,
                     replies, calls, commands, metas, rewrites, crashes>>
  BY DEF TurnEnd, RunPlaces
<1>2. /\ file' \in Seq(Entry) /\ IsTree(file') /\ stored' \in Seq(Message)
      /\ up' \in BOOLEAN /\ lastParent' \in Nat /\ (up' => lastParent' <= Len(Base'))
      /\ SavedBranch'
      /\ InFile' = InFile /\ Base' = Base /\ DOMAIN file' = DOMAIN file
      /\ Len(file') = Len(file) /\ file' = file /\ stored' = stored /\ up' = up
  BY <1>1, Rest
<1>3. /\ live \in Seq(Message) /\ Len(live) \in Nat /\ users \in Nat /\ User(users + 1) \in Message
  BY DEF Core, TypeOK, User, Message, UserMessages
<1>4. /\ live' \in Seq(Message) /\ Len(live) <= Len(live') /\ users' \in Nat
      /\ \A i \in 1..Len(live) : live'[i] = live[i]
      /\ at' \in {"injecting", "streaming", "closing"}
      /\ at' = "injecting" => Len(live) < Len(live')
  <2>1. CASE live' = Append(live, User(users + 1)) /\ users' = users + 1 /\ at' = "injecting"
    BY <2>1, <1>3
  <2>2. CASE UNCHANGED <<users, live>> /\ at' \in {"streaming", "closing"}
    BY <2>2, <1>3
  <2> QED
    BY <2>1, <2>2 DEF TurnEnd
<1>5. /\ count' \in Nat /\ count' <= Len(live') /\ count <= Len(live)
      /\ SavedUpToCount' /\ Len(live') \in Nat /\ count' = count
  BY <1>1, <1>4, RunGrows DEF history, runVars
<1>6. at' \in RunPlaces /\ at' \in Places /\ at' \notin {"answered", "returned", "tool", "idle"}
  BY <1>4 DEF RunPlaces, Places
<1>7. TypeOK'
  BY <1>1, <1>2, <1>4, <1>5, <1>6 DEF Core, TypeOK, history, runVars
<1>8. SettledDurable' /\ Kept'
  BY <1>6 DEF SettledDurable, Kept
<1>9. UnsavedAhead'
  <2>1. Unsaved' = Unsaved
    BY <1>1, <1>2 DEF Unsaved, history
  <2>2. ~unwound => Unsaved = {} \/ \E i \in count + 1..Len(live) : Unsaved = {live[i]}
    BY <1>1 DEF Core, UnsavedAhead
  <2>3. \A i \in count + 1..Len(live) : i \in count' + 1..Len(live') /\ live'[i] = live[i]
    BY <1>3, <1>4, <1>5
  <2>4. ~unwound' => Unsaved' = {} \/ \E i \in count' + 1..Len(live') : Unsaved' = {live'[i]}
    BY <1>1, <2>1, <2>2, <2>3 DEF history
  <2> QED
    BY <2>4, <1>6 DEF UnsavedAhead
<1>10. RunShape'
  <2>1. branch' = 0
    BY <1>1 DEF Core, RunShape
  <2>2. at' = "injecting" => count' < Len(live')
    BY <1>3, <1>4, <1>5
  <2> QED
    BY <2>1, <2>2, <1>6 DEF RunShape
<1> QED
  BY <1>2, <1>5, <1>7, <1>8, <1>9, <1>10 DEF Core

LEMMA CancelKeeps ==
    ASSUME Core, Cancel PROVE Core'
<1>1. /\ file' \in Seq(Entry) /\ IsTree(file') /\ stored' \in Seq(Message)
      /\ up' \in BOOLEAN /\ lastParent' \in Nat /\ (up' => lastParent' <= Len(Base'))
      /\ SavedBranch'
      /\ InFile' = InFile /\ Base' = Base /\ DOMAIN file' = DOMAIN file
      /\ Len(file') = Len(file) /\ file' = file /\ stored' = stored /\ up' = up
  BY Rest DEF Cancel
<1>2. TypeOK'
  BY <1>1 DEF Core, TypeOK, Cancel, history, counters
<1>3. SettledDurable' /\ Kept' /\ SavedUpToCount'
  BY <1>1 DEF Core, SettledDurable, Kept, SavedUpToCount, Cancel, history
<1>4. UnsavedAhead'
  <2>1. Unsaved' = Unsaved
    BY <1>1 DEF Unsaved, history, Cancel
  <2> QED
    BY <2>1, <1>1 DEF Core, UnsavedAhead, Cancel, history
<1>5. RunShape'
  BY DEF Core, RunShape, Cancel
<1> QED
  BY <1>1, <1>2, <1>3, <1>4, <1>5 DEF Core

LEMMA CancelTaskKeeps ==
    ASSUME Core, CancelTask PROVE Core'
<1>1. /\ file' \in Seq(Entry) /\ IsTree(file') /\ stored' \in Seq(Message)
      /\ up' \in BOOLEAN /\ lastParent' \in Nat /\ (up' => lastParent' <= Len(Base'))
      /\ SavedBranch'
      /\ InFile' = InFile /\ Base' = Base /\ DOMAIN file' = DOMAIN file
      /\ Len(file') = Len(file) /\ file' = file /\ stored' = stored /\ up' = up
  BY Rest DEF CancelTask
<1>2. live' \in Seq(Message)
  BY RepairedTyped DEF CancelTask, Core, TypeOK
<1>3. at' = "idle" /\ at' \notin RunPlaces /\ unwound' = TRUE /\ at' \in Places
  BY DEF CancelTask, RunPlaces, Places
<1>4. TypeOK'
  BY <1>1, <1>2, <1>3 DEF Core, TypeOK, CancelTask, runVars, counters
<1>5. SettledDurable' /\ Kept' /\ SavedUpToCount' /\ UnsavedAhead'
  BY <1>3 DEF SettledDurable, Kept, SavedUpToCount, UnsavedAhead
<1>6. RunShape'
  BY <1>3 DEF RunShape
<1> QED
  BY <1>1, <1>4, <1>5, <1>6 DEF Core

LEMMA CrashKeeps ==
    ASSUME Core, Crash PROVE Core'
<1>1. /\ up' = FALSE /\ crashes' \in Nat
      /\ UNCHANGED <<disk, live, lastParent, at, then, runVars, plan, branch, history,
                     users, replies, calls, commands, metas, rewrites>>
  BY DEF Crash, Core, TypeOK
<1>2. TypeOK'
  BY <1>1 DEF Core, TypeOK, disk, runVars, history
<1>3. SettledDurable' /\ Kept' /\ SavedUpToCount' /\ UnsavedAhead'
  BY <1>1 DEF SettledDurable, Kept, SavedUpToCount, UnsavedAhead
<1>4. SavedBranch'
  BY <1>1 DEF SavedBranch, Core, disk
<1>5. RunShape'
  BY <1>1 DEF RunShape, Core, runVars
<1> QED
  BY <1>2, <1>3, <1>4, <1>5 DEF Core
-----------------------------------------------------------------------------
(* Steps that write.                                                       *)

\* A MessageEnd: everything the transcript holds is on disk by then, and the
\* message announced is in it or the next to be appended.
LEMMA AnnounceKeeps ==
    ASSUME Core, up, at \in RunPlaces, at \notin {"answered", "returned"},
           Persist(live), NEW m \in Message, shown' = shown \cup {m},
           UNCHANGED <<unwound, live, then, todo, cancelled, retried, plan, branch,
                       users, commands, metas, rewrites>>,
           reply' \in AssistantMessages \cup {None}, replies' \in Nat, calls' \in Nat,
           at' \in {"streaming", "answered", "returned"},
           at' = "answered" => reply' # None /\ m = reply',
           at' = "returned" => todo # <<>> /\ m = Result(Head(todo)),
           at' = "streaming" => \E i \in count + 1..Len(live) : m = live[i]
    PROVE  Core'
<1>1. /\ live \in Seq(Message) /\ count <= Len(live) /\ count \in Nat /\ Len(live) \in Nat
      /\ ~unwound => stored = SubSeq(live, 1, count)
      /\ ~unwound => Unsaved = {} \/ \E i \in count + 1..Len(live) : Unsaved = {live[i]}
  <2>1. live \in Seq(Message) /\ count <= Len(live) /\ count \in Nat /\ Len(live) \in Nat
    BY DEF Core, TypeOK
  <2>2. ~unwound => stored = SubSeq(live, 1, count)
    BY DEF Core, SavedUpToCount
  <2>3. at # "answered" /\ at # "returned"
    OBVIOUS
  <2>4. ~unwound => Unsaved = {} \/ \E i \in count + 1..Len(live) : Unsaved = {live[i]}
    BY <2>3 DEF Core, UnsavedAhead
  <2> QED
    BY <2>1, <2>2, <2>4
<1>2. /\ file' \in Seq(Entry) /\ IsTree(file') /\ Len(file) <= Len(file')
      /\ stored' = Saved(file') /\ stored' \in Seq(Message)
      /\ up' \in BOOLEAN /\ crashes' \in Nat
      /\ lastParent' \in Nat /\ count' \in Nat /\ count' = Len(live)
      /\ InFile \subseteq InFile'
      /\ up' => lastParent' <= Len(Base') /\ lastParent' = ActiveLeaf(Base')
      /\ up' /\ stored = SubSeq(live, 1, count) => stored' = live
      /\ up' => \A i \in count + 1..Len(live) : live[i] \in InFile'
  BY <1>1, PersistProperties
<1>3. /\ live' = live /\ todo' = todo /\ unwound' = unwound /\ branch' = 0
      /\ at' \in RunPlaces /\ at' \in Places /\ at' \notin {"injecting", "tool"}
  BY DEF Core, RunShape, RunPlaces, Places
<1>4. TypeOK'
  <2>1. /\ plan \subseteq DOMAIN file /\ shown \subseteq Message /\ unwound \in BOOLEAN
        /\ then \in {"idle", "prompting", "retrying"} /\ cancelled \in BOOLEAN /\ retried \in BOOLEAN
        /\ todo \in Seq(Nat) /\ users \in Nat /\ commands \in Nat /\ metas \in Nat /\ rewrites \in Nat
        /\ file \in Seq(Entry)
    BY ONLY Core DEF Core, TypeOK
  <2>2. plan' \subseteq DOMAIN file' /\ branch' \in 0..Len(file')
    <3>1. DOMAIN file \subseteq DOMAIN file' /\ 0 \in 0..Len(file')
      BY ONLY <1>2, <2>1
    <3> QED
      BY <2>1, <3>1, <1>3
  <2>3. shown' \subseteq Message
    BY <2>1
  <2>4. /\ unwound' \in BOOLEAN /\ then' \in {"idle", "prompting", "retrying"}
        /\ cancelled' \in BOOLEAN /\ retried' \in BOOLEAN /\ todo' \in Seq(Nat)
        /\ users' \in Nat /\ commands' \in Nat /\ metas' \in Nat /\ rewrites' \in Nat
        /\ reply' \in AssistantMessages \cup {None} /\ replies' \in Nat /\ calls' \in Nat
    BY <2>1
  <2>5. /\ file' \in Seq(Entry) /\ IsTree(file') /\ stored' \in Seq(Message) /\ live' \in Seq(Message)
        /\ up' \in BOOLEAN /\ crashes' \in Nat /\ lastParent' \in Nat /\ (up' => lastParent' <= Len(Base'))
        /\ count' \in Nat /\ count' <= Len(live')
    BY ONLY <1>1, <1>2, <1>3
  <2> QED
    BY ONLY <1>3, <2>2, <2>3, <2>4, <2>5 DEF TypeOK
<1>5. SettledDurable' /\ Kept'
  BY <1>3 DEF SettledDurable, Kept
<1>6. SavedUpToCount'
  <2>1. SubSeq(live, 1, Len(live)) = live
    BY <1>1, SubSeqFull
  <2> QED
    BY <2>1, <1>1, <1>2, <1>3 DEF SavedUpToCount
<1>7. SavedBranch'
  BY <1>2 DEF SavedBranch
<1>8. UnsavedAhead'
  <2>1. up' /\ ~unwound => shown \subseteq InFile'
    BY <1>1, <1>2 DEF Unsaved
  <2>2. up' /\ ~unwound => Unsaved' \subseteq {m}
    BY <2>1 DEF Unsaved
  <2>3. at' = "streaming" /\ up' /\ ~unwound => Unsaved' = {}
    BY <2>2, <1>2 DEF Unsaved
  <2> QED
    BY <2>2, <2>3, <1>3 DEF UnsavedAhead
<1>9. RunShape'
  BY <1>3 DEF RunShape
<1> QED
  BY <1>4, <1>5, <1>6, <1>7, <1>8, <1>9 DEF Core

LEMMA UserMessageEndKeeps ==
    ASSUME Core, UserMessageEnd PROVE Core'
<1>1. /\ up /\ at = "injecting" /\ at \in RunPlaces /\ at' = "streaming"
      /\ live \in Seq(Message) /\ count \in Nat /\ Len(live) \in Nat /\ count < Len(live)
  BY DEF UserMessageEnd, RunPlaces, Core, TypeOK, RunShape
<1>2. Len(live) \in count + 1..Len(live) /\ live[Len(live)] \in Message
  BY <1>1
<1>3. /\ reply' \in AssistantMessages \cup {None} /\ replies' \in Nat /\ calls' \in Nat
  BY DEF UserMessageEnd, Core, TypeOK
<1> QED
  BY <1>1, <1>2, <1>3, AnnounceKeeps DEF UserMessageEnd

LEMMA ReplyEndKeeps ==
    ASSUME Core, ReplyEnd PROVE Core'
<1>1. /\ up /\ at = "streaming" /\ at \in RunPlaces /\ at' = "answered"
  BY DEF ReplyEnd, RunPlaces
<1>2. reply' \in AssistantMessages /\ replies' \in Nat /\ calls' \in Nat
  <2>1. replies \in Nat /\ calls \in Nat
    BY DEF Core, TypeOK
  <2>2. PICK n \in 0..MaxBatch, stop \in {"done", "failed", "overflow"} :
          /\ reply' = Assistant(replies + 1, [i \in 1..n |-> calls + i], stop)
          /\ calls' = calls + n
    BY DEF ReplyEnd
  <2>3. [i \in 1..n |-> calls + i] \in Seq(Nat)
    BY <2>1
  <2> DEFINE cs == [i \in 1..n |-> calls + i]
  <2> HIDE DEF cs
  <2>4. reply' \in AssistantMessages
    BY <2>1, <2>2, <2>3 DEF cs, Assistant, AssistantMessages
  <2>5. replies' = replies + 1
    BY DEF ReplyEnd
  <2> QED
    BY <2>1, <2>2, <2>4, <2>5
<1>3. reply' \in Message /\ reply' # None
  BY <1>2 DEF Message, AssistantMessages, None
<1> QED
  BY <1>1, <1>2, <1>3, AnnounceKeeps DEF ReplyEnd

LEMMA ResultEndKeeps ==
    ASSUME Core, ResultEnd PROVE Core'
<1>1. /\ up /\ at = "tool" /\ at \in RunPlaces /\ at' = "returned" /\ todo # <<>>
  BY DEF ResultEnd, RunPlaces, Core, RunShape
<1>2. Result(Head(todo)) \in Message
  BY <1>1, ResultType
<1>3. /\ reply' \in AssistantMessages \cup {None} /\ replies' \in Nat /\ calls' \in Nat
  BY DEF ResultEnd, Core, TypeOK
<1> QED
  BY <1>1, <1>2, <1>3, AnnounceKeeps DEF ResultEnd

LEMMA CloseKeeps ==
    ASSUME Core, Close PROVE Core'
<1> DEFINE s == IF cancelled THEN Repaired(live) ELSE live
<1>1. /\ up /\ at = "closing" /\ at \in RunPlaces
      /\ live' = s /\ Persist(live')
      /\ at' \in {"overflowed", "settling"}
      /\ UNCHANGED <<then, reply, todo, cancelled, retried, plan, branch, history,
                     users, replies, calls, commands, metas, rewrites>>
  BY DEF Close, RunPlaces
<1>2. /\ live \in Seq(Message) /\ count <= Len(live) /\ count \in Nat /\ Len(live) \in Nat
      /\ ~unwound => stored = SubSeq(live, 1, count)
      /\ ~unwound => Unsaved = {} \/ \E i \in count + 1..Len(live) : Unsaved = {live[i]}
  <2>1. live \in Seq(Message) /\ count <= Len(live) /\ count \in Nat /\ Len(live) \in Nat
    BY <1>1 DEF Core, TypeOK
  <2>2. ~unwound => stored = SubSeq(live, 1, count)
    BY <1>1 DEF Core, SavedUpToCount
  <2>3. at # "answered" /\ at # "returned"
    BY <1>1
  <2>4. ~unwound => Unsaved = {} \/ \E i \in count + 1..Len(live) : Unsaved = {live[i]}
    BY <1>1, <2>3 DEF Core, UnsavedAhead
  <2> QED
    BY <2>1, <2>2, <2>4
<1>3. s \in Seq(Message) /\ Len(live) <= Len(s) /\ \A i \in 1..Len(live) : s[i] = live[i]
  BY <1>2, RepairedTyped
<1>4. Persist(s)
  BY <1>1 DEF Persist
<1> HIDE DEF s
<1>5. Len(s) \in Nat /\ count <= Len(s)
  BY <1>2, <1>3
<1>6. /\ file' \in Seq(Entry) /\ IsTree(file') /\ Len(file) <= Len(file')
      /\ stored' = Saved(file') /\ stored' \in Seq(Message)
      /\ up' \in BOOLEAN /\ crashes' \in Nat
      /\ lastParent' \in Nat /\ count' \in Nat /\ count' = Len(s)
      /\ InFile \subseteq InFile'
      /\ up' => lastParent' <= Len(Base') /\ lastParent' = ActiveLeaf(Base')
      /\ up' /\ stored = SubSeq(s, 1, count) => stored' = s
      /\ up' => \A i \in count + 1..Len(s) : s[i] \in InFile'
  BY <1>1, <1>3, <1>4, <1>5, PersistProperties
<1>7. ~unwound => stored = SubSeq(s, 1, count)
  <2>1. count \in 0..Len(live)
    BY <1>2
  <2>2. SubSeq(s, 1, count) = SubSeq(live, 1, count)
    BY <2>1, <1>2, <1>3, SubSeqOfPrefix
  <2> QED
    BY <2>2, <1>2
<1>8. up' /\ ~unwound => shown \subseteq InFile'
  <2>1. \A i \in count + 1..Len(live) : i \in count + 1..Len(s) /\ s[i] = live[i]
    BY <1>2, <1>3, <1>5
  <2>2. up' => \A i \in count + 1..Len(live) : live[i] \in InFile'
    BY <2>1, <1>6
  <2> QED
    BY <2>2, <1>2, <1>6 DEF Unsaved
<1>9. at' \in Places /\ at' \notin RunPlaces /\ at' \notin {"injecting", "answered", "tool", "returned"}
      /\ branch' = 0
  BY <1>1 DEF Places, RunPlaces, Core, RunShape
<1>10. TypeOK'
  <2>1. plan' \subseteq DOMAIN file' /\ branch' \in 0..Len(file')
    BY <1>1, <1>6, <1>9 DEF Core, TypeOK
  <2> QED
    BY <1>1, <1>3, <1>6, <1>9, <2>1 DEF Core, TypeOK, history
<1>11. SettledDurable' /\ Kept'
  BY <1>1, <1>6, <1>7, <1>8 DEF SettledDurable, Kept, history
<1>12. SavedUpToCount' /\ UnsavedAhead'
  BY <1>9 DEF SavedUpToCount, UnsavedAhead
<1>13. SavedBranch' /\ RunShape'
  BY <1>6, <1>9 DEF SavedBranch, RunShape
<1> QED
  BY <1>10, <1>11, <1>12, <1>13 DEF Core

\* Outside a run: what is rewritten is what a load would find.
LEMMA RewriteKeeps ==
    ASSUME Core, up, at \notin RunPlaces,
           NEW es, Fits(Len(Base), es), Len(es) > 0,
           NEW t, es[Len(es)] = LeafEntry(t), Store(es), lastParent' = t,
           live' \in Seq(Message), up' /\ ~unwound => live' = stored',
           at' \in Places \ RunPlaces, then' \in {"idle", "prompting", "retrying"},
           plan' \subseteq plan, branch' \in {0, branch}, branch' # 0 => at' = "idle",
           UNCHANGED <<runVars, history, replies, calls>>, t \in Nat,
           users' \in Nat, commands' \in Nat, metas' \in Nat, rewrites' \in Nat
    PROVE  Core'
<1>1. file \in Seq(Entry) /\ IsTree(file) /\ crashes \in Nat
  BY DEF Core, TypeOK
<1>2. /\ file' \in Seq(Entry) /\ IsTree(file') /\ Len(file) <= Len(file')
      /\ stored' = Saved(file') /\ stored' \in Seq(Message)
      /\ up' \in BOOLEAN /\ crashes' \in Nat
      /\ InFile \subseteq InFile'
      /\ up' => ActiveLeaf(Base') = t /\ t \in 0..Len(Base')
  BY <1>1, StoreProperties
<1>3. up' => lastParent' <= Len(Base') /\ lastParent' = ActiveLeaf(Base')
  BY <1>2
<1>4. TypeOK'
  <2>1. plan' \subseteq DOMAIN file' /\ branch' \in 0..Len(file')
    <3>1. plan \subseteq DOMAIN file /\ branch \in 0..Len(file)
      BY DEF Core, TypeOK
    <3>2. DOMAIN file \subseteq DOMAIN file'
      BY <1>1, <1>2
    <3>3. branch \in 0..Len(file') /\ 0 \in 0..Len(file')
      BY <3>1, <1>1, <1>2, SMTT(30)
    <3>4. plan' \subseteq DOMAIN file'
      BY <3>1, <3>2
    <3> QED
      BY <3>3, <3>4
  <2>2. at' \in Places /\ ~(up' /\ at' \in RunPlaces)
    OBVIOUS
  <2> QED
    BY <1>2, <1>3, <2>1, <2>2 DEF Core, TypeOK, history, runVars
<1>5. SettledDurable' /\ Kept'
  BY <1>2 DEF Core, SettledDurable, Kept, history
<1>6. SavedUpToCount' /\ UnsavedAhead'
  BY DEF SavedUpToCount, UnsavedAhead
<1>7. SavedBranch' /\ RunShape'
  <2>1. at' \notin {"injecting", "answered", "tool", "returned"}
    BY DEF RunPlaces
  <2> QED
    BY <1>2, <1>3, <2>1 DEF SavedBranch, RunShape
<1> QED
  BY <1>4, <1>5, <1>6, <1>7 DEF Core
\* An entry with the leaf behind it.
LEMMA PairFits ==
    ASSUME NEW n \in Nat, NEW e \in Entry, e.parent \in 0..n, e.type # "leaf",
           NEW t \in 0..n + 1
    PROVE  /\ Fits(n, <<e>>) /\ Fits(n, <<e, LeafEntry(t)>>) /\ Len(<<e, LeafEntry(t)>>) = 2
           /\ <<e, LeafEntry(t)>>[2] = LeafEntry(t)
<1> DEFINE l == LeafEntry(t)
<1>1. l \in Entry /\ l.parent = t /\ l.type = "leaf" /\ l.target = t
  BY DEF LeafEntry, Entry
<1> HIDE DEF l
<1>2. <<e>> \in Seq(Entry) /\ <<e, l>> \in Seq(Entry) /\ Len(<<e, l>>) = 2
  BY <1>1
<1>3. \A k \in 1..1 : k = 1 /\ <<e>>[k] = e
  OBVIOUS
<1>4. Fits(n, <<e>>)
  <2>1. Len(<<e>>) = 1 /\ 0..n = 0..n + 1 - 1
    OBVIOUS
  <2> QED
    BY <1>2, <1>3, <2>1 DEF Fits
<1>5. \A k \in 1..2 : (k = 1 /\ <<e, l>>[k] = e) \/ (k = 2 /\ <<e, l>>[k] = l)
  OBVIOUS
<1>6. Fits(n, <<e, l>>)
  <2>1. n + 1 - 1 = n /\ n + 2 - 1 = n + 1
    OBVIOUS
  <2>2. \A k \in 1..2 :
           /\ <<e, l>>[k].parent \in 0..n + k - 1
           /\ <<e, l>>[k].type = "leaf" => <<e, l>>[k].target \in 0..n + k - 1
    BY <1>1, <1>5, <2>1
  <2> QED
    BY <1>2, <2>2 DEF Fits
<1> QED
  BY <1>2, <1>4, <1>6 DEF l

LEMMA FinishCompactionKeeps ==
    ASSUME Core, FinishCompaction PROVE Core'
<1> DEFINE id == Len(Base) + 1
           e == CompactionEntry(lastParent, plan)
           es == <<e, LeafEntry(id)>>
<1>1. /\ up /\ at = "summarizing" /\ at \notin RunPlaces
      /\ Store(es) /\ lastParent' = id /\ live' = Transcript(Base \o es, id)
      /\ plan' = {} /\ at' = then /\ then' = "idle"
      /\ UNCHANGED <<runVars, branch, history, users, replies, calls, commands, metas,
                     rewrites>>
  BY DEF FinishCompaction, RunPlaces
<1>2. /\ Base \in Seq(Entry) /\ IsTree(Base) /\ Len(Base) \in Nat /\ lastParent \in 0..Len(Base)
  BY <1>1, Here
<1>3. e \in Entry /\ e.parent \in 0..Len(Base) /\ e.type # "leaf"
  <2>1. plan \subseteq Nat
    BY DEF Core, TypeOK
  <2> QED
    BY <1>2, <2>1 DEF CompactionEntry, Entry
<1> HIDE DEF e
<1>4. id \in 0..Len(Base) + 1 /\ id \in Nat
  BY <1>2
<1>5. Fits(Len(Base), es) /\ Len(es) = 2 /\ Len(es) > 0 /\ es[Len(es)] = LeafEntry(id)
  <2>1. Fits(Len(Base), es) /\ Len(es) = 2 /\ es[2] = LeafEntry(id)
    BY <1>2, <1>3, <1>4, PairFits
  <2> HIDE DEF es, id
  <2> QED
    BY <2>1
<1> HIDE DEF es, id
<1>6. /\ up' => stored' = Transcript(Base \o es, id)
      /\ live' \in Seq(Message)
  <2>1. file \in Seq(Entry) /\ IsTree(file) /\ crashes \in Nat
    BY DEF Core, TypeOK
  <2>2. up' => stored' = Transcript(Base \o es, id)
    BY <1>1, <1>5, <2>1, StoreProperties
  <2>3. Base \o es \in Seq(Entry) /\ IsTree(Base \o es) /\ Len(Base \o es) = Len(Base) + Len(es)
    <3>1. Base \in Seq(Entry) /\ IsTree(Base) /\ Fits(Len(Base), es)
      BY <1>2, <1>5
    <3> QED
      BY ONLY <3>1, TreeConcat
  <2>4. id \in 0..Len(Base \o es)
    BY <1>2, <1>4, <1>5, <2>3
  <2> QED
    BY <1>1, <2>2, <2>3, <2>4, TranscriptTyped
<1>7. /\ at' \in Places \ RunPlaces /\ then' \in {"idle", "prompting", "retrying"}
      /\ plan' \subseteq plan /\ branch' = 0
      /\ users' \in Nat /\ commands' \in Nat /\ metas' \in Nat /\ rewrites' \in Nat
  BY <1>1 DEF Core, TypeOK, RunShape, Places, RunPlaces
<1> QED
  BY <1>1, <1>4, <1>5, <1>6, <1>7, RewriteKeeps

\* branch_to_entry, with or without a summary: the transcript is what a load would find.
LEMMA ActivateLoads ==
    ASSUME Core, up, NEW entries, NEW target,
           Fits(Len(Base), entries), Fits(Len(Base), Append(entries, LeafEntry(target))),
           target \in 0..Len(Base) + Len(entries),
           Activate(entries, target)
    PROVE  LET es == Append(entries, LeafEntry(target))
           IN  /\ Store(es) /\ lastParent' = target /\ target \in Nat
               /\ Len(es) > 0 /\ es[Len(es)] = LeafEntry(target)
               /\ live' \in Seq(Message) /\ (up' => live' = stored')
<1> DEFINE es == Append(entries, LeafEntry(target))
           short == Base \o entries
           long == Base \o es
<1>1. /\ Store(es) /\ lastParent' = target /\ live' = Transcript(short, target)
  BY DEF Activate
<1>2. /\ Base \in Seq(Entry) /\ IsTree(Base) /\ Len(Base) \in Nat
  BY Here
<1>3. /\ entries \in Seq(Entry) /\ Len(entries) \in Nat /\ Len(es) = Len(entries) + 1
      /\ Len(es) > 0 /\ es[Len(es)] = LeafEntry(target)
      /\ \A k \in 1..Len(entries) : es[k] = entries[k]
  <2> DEFINE l == LeafEntry(target)
  <2>1. entries \in Seq(Entry)
    BY DEF Fits
  <2>2. target \in Nat
    BY <1>2, <2>1
  <2>3. l \in Entry
    BY <2>2 DEF LeafEntry, Entry
  <2> HIDE DEF l
  <2>4. /\ Len(entries) \in Nat /\ Len(Append(entries, l)) = Len(entries) + 1
        /\ Append(entries, l)[Len(entries) + 1] = l
        /\ \A k \in 1..Len(entries) : Append(entries, l)[k] = entries[k]
    BY <2>1, <2>3
  <2> QED
    BY <2>1, <2>4 DEF l
<1>4. Fits(Len(Base), es)
  OBVIOUS
<1> HIDE DEF es
<1>5. /\ short \in Seq(Entry) /\ IsTree(short) /\ Len(short) = Len(Base) + Len(entries)
      /\ \A i \in 1..Len(Base) : short[i] = Base[i]
      /\ \A k \in 1..Len(entries) : short[Len(Base) + k] = entries[k]
  <2>1. Base \in Seq(Entry) /\ IsTree(Base) /\ Fits(Len(Base), entries)
    BY <1>2
  <2> QED
    BY ONLY <2>1, TreeConcat
<1>6. /\ long \in Seq(Entry) /\ IsTree(long) /\ Len(long) = Len(Base) + Len(es)
      /\ \A i \in 1..Len(Base) : long[i] = Base[i]
      /\ \A k \in 1..Len(es) : long[Len(Base) + k] = es[k]
  <2>1. Base \in Seq(Entry) /\ IsTree(Base) /\ Fits(Len(Base), es)
    BY <1>2, <1>4
  <2> QED
    BY ONLY <2>1, TreeConcat
<1> HIDE DEF short, long
<1>7. Len(short) <= Len(long) /\ \A i \in 1..Len(short) : long[i] = short[i]
  <2>1. ASSUME NEW i \in 1..Len(short) PROVE long[i] = short[i]
    <3>1. CASE i \in 1..Len(Base)
      BY <3>1, <1>5, <1>6
    <3>2. CASE i \notin 1..Len(Base)
      <4> DEFINE k == i - Len(Base)
      <4>1. k \in 1..Len(entries) /\ k \in 1..Len(es) /\ i = Len(Base) + k
        BY <3>2, <1>2, <1>3, <1>5
      <4> HIDE DEF k
      <4> QED
        BY <4>1, <1>3, <1>5, <1>6
    <3> QED
      BY <3>1, <3>2
  <2> QED
    BY <2>1, <1>2, <1>3, <1>5, <1>6
<1>8. target \in 0..Len(short) /\ target \in Nat
  BY <1>2, <1>3, <1>5
<1>9. Transcript(long, target) = Transcript(short, target)
  BY <1>5, <1>6, <1>7, <1>8, RowsPrefix DEF Transcript
<1>10. live' \in Seq(Message)
  BY <1>1, <1>5, <1>8, TranscriptTyped
<1>11. up' => stored' = Transcript(long, target)
  <2>1. file \in Seq(Entry) /\ IsTree(file) /\ crashes \in Nat
    BY DEF Core, TypeOK
  <2> QED
    BY <1>1, <1>3, <1>4, <2>1, StoreProperties DEF long
<1>12. up' => live' = stored'
  BY <1>1, <1>9, <1>11
<1> QED
  BY <1>1, <1>3, <1>8, <1>10, <1>12 DEF es

LEMMA ActivateKeeps ==
    ASSUME Core, up, at = "idle", NEW entries, NEW target,
           Fits(Len(Base), entries), Fits(Len(Base), Append(entries, LeafEntry(target))),
           target \in 0..Len(Base) + Len(entries),
           Activate(entries, target),
           branch' \in {0, branch}, rewrites' \in Nat,
           UNCHANGED <<at, then, runVars, plan, history, users, replies, calls, commands,
                       metas>>
    PROVE  Core'
<1> DEFINE es == Append(entries, LeafEntry(target))
<1>1. /\ Store(es) /\ lastParent' = target /\ target \in Nat
      /\ Len(es) > 0 /\ es[Len(es)] = LeafEntry(target)
      /\ live' \in Seq(Message) /\ (up' => live' = stored')
  BY ActivateLoads
<1>2. Fits(Len(Base), es)
  OBVIOUS
<1> HIDE DEF es
<1>3. /\ at \notin RunPlaces /\ at' \in Places \ RunPlaces
      /\ then' \in {"idle", "prompting", "retrying"}
      /\ plan' \subseteq plan /\ (branch' # 0 => at' = "idle")
      /\ users' \in Nat /\ commands' \in Nat /\ metas' \in Nat
  BY DEF Core, TypeOK, Places, RunPlaces
<1> QED
  BY <1>1, <1>2, <1>3, RewriteKeeps

LEMMA BranchFits ==
    ASSUME Core, Branch
    PROVE  \E target \in 0..Len(Base) :
              /\ Activate(<<>>, target) /\ Len(<<>>) = 0
              /\ Fits(Len(Base), <<>>) /\ Fits(Len(Base), Append(<<>>, LeafEntry(target)))
              /\ Append(<<>>, LeafEntry(target)) = <<LeafEntry(target)>>
<1>1. up
  BY DEF Branch
<1>2. PICK i \in DOMAIN file : \E target \in Targets(i) : Activate(<<>>, target)
  BY DEF Branch
<1> PICK target \in Targets(i) : Activate(<<>>, target)
  BY <1>2
<1>3. file \in Seq(Entry) /\ IsTree(file) /\ Base = file /\ Len(file) \in Nat
  <2>1. file \in Seq(Entry) /\ IsTree(file)
    BY DEF Core, TypeOK
  <2>2. file # <<>>
    BY <1>2, <2>1
  <2> QED
    BY <1>1, <2>1, <2>2, Here
<1>4. target \in 0..Len(Base)
  <2>1. target = i \/ target = file[i].parent
    BY <1>2 DEF Targets
  <2>2. i \in 1..Len(file) /\ file[i].parent \in 0..i - 1
    BY <1>2, <1>3 DEF IsTree
  <2> QED
    BY <2>1, <2>2, <1>3
<1>5. /\ Fits(Len(Base), <<>>) /\ Fits(Len(Base), Append(<<>>, LeafEntry(target)))
      /\ Len(<<>>) = 0 /\ Append(<<>>, LeafEntry(target)) = <<LeafEntry(target)>>
  <2> DEFINE l == LeafEntry(target)
  <2>1. /\ l \in Entry /\ l.parent = target /\ l.type = "leaf" /\ l.target = target
    BY <1>3, <1>4 DEF LeafEntry, Entry
  <2> HIDE DEF l
  <2>2. <<>> \in Seq(Entry) /\ Len(<<>>) = 0
    BY EmptySeq
  <2>3. Fits(Len(Base), <<>>)
    BY <2>2 DEF Fits
  <2>4. Append(<<>>, l) = <<l>>
    OBVIOUS
  <2>5. <<l>> \in Seq(Entry) /\ Len(<<l>>) = 1 /\ \A k \in 1..1 : k = 1 /\ <<l>>[k] = l
    BY <2>1
  <2>6. Len(Base) + 1 - 1 = Len(Base)
    BY <1>3
  <2>7. Fits(Len(Base), <<l>>)
    BY <2>1, <2>5, <2>6, <1>4 DEF Fits
  <2> QED
    BY <2>2, <2>3, <2>4, <2>7 DEF l
<1> QED
  BY <1>4, <1>5

LEMMA BranchKeeps ==
    ASSUME Core, Branch PROVE Core'
<1>1. /\ up /\ at = "idle" /\ branch = 0 /\ rewrites' = rewrites + 1
      /\ UNCHANGED <<at, then, runVars, plan, branch, history, users, replies, calls,
                     commands, metas>>
  BY DEF Branch
<1>2. PICK target \in 0..Len(Base) :
         /\ Activate(<<>>, target) /\ Len(<<>>) = 0
         /\ Fits(Len(Base), <<>>) /\ Fits(Len(Base), Append(<<>>, LeafEntry(target)))
  BY BranchFits
<1>3. Len(Base) + Len(<<>>) = Len(Base)
  BY <1>1, <1>2, Here
<1>4. rewrites' \in Nat /\ branch' \in {0, branch}
  BY <1>1 DEF Core, TypeOK
<1> QED
  BY <1>1, <1>2, <1>3, <1>4, ActivateKeeps

LEMMA SummaryFits ==
    ASSUME Core, FinishBranchSummary
    PROVE  LET e == BranchSummaryEntry(branch)
               t == Len(Base) + 1
           IN  /\ e \in Entry /\ e.type = "branch_summary" /\ e.parent \in 0..Len(Base)
               /\ Activate(<<e>>, t) /\ t \in 0..Len(Base) + 1 /\ Len(<<e>>) = 1
               /\ Fits(Len(Base), <<e>>) /\ Fits(Len(Base), <<e, LeafEntry(t)>>)
               /\ Append(<<e>>, LeafEntry(t)) = <<e, LeafEntry(t)>>
<1> DEFINE e == BranchSummaryEntry(branch)
           t == Len(Base) + 1
<1>1. up /\ Activate(<<e>>, t)
  BY DEF FinishBranchSummary
<1>2. Len(Base) \in Nat /\ Len(file) \in Nat /\ Len(file) <= Len(Base)
  BY <1>1, Here
<1>3. branch \in 0..Len(Base)
  BY <1>2 DEF Core, TypeOK
<1>4. e \in Entry /\ e.parent \in 0..Len(Base) /\ e.type = "branch_summary" /\ e.type # "leaf"
  BY <1>2, <1>3 DEF BranchSummaryEntry, Entry
<1> HIDE DEF e
<1>5. t \in 0..Len(Base) + 1
  BY <1>2
<1>6. Fits(Len(Base), <<e>>) /\ Fits(Len(Base), <<e, LeafEntry(t)>>)
  BY <1>2, <1>4, <1>5, PairFits
<1>7. Append(<<e>>, LeafEntry(t)) = <<e, LeafEntry(t)>> /\ Len(<<e>>) = 1
  <2> DEFINE l == LeafEntry(t)
  <2>1. l \in Entry
    BY <1>2 DEF LeafEntry, Entry
  <2> HIDE DEF l
  <2>2. <<e>> \in Seq(Entry) /\ Len(<<e>>) = 1 /\ <<e, l>> \in Seq(Entry) /\ Len(<<e, l>>) = 2
    BY <1>4, <2>1
  <2>3. Append(<<e>>, l) \in Seq(Entry) /\ Len(Append(<<e>>, l)) = 2
    BY <2>1, <2>2
  <2>4. \A k \in 1..2 : Append(<<e>>, l)[k] = <<e, l>>[k]
    <3>1. Append(<<e>>, l)[1] = e /\ Append(<<e>>, l)[2] = l
      BY <2>1, <2>2
    <3>2. \A k \in 1..2 : k = 1 \/ k = 2
      OBVIOUS
    <3> QED
      BY <3>1, <3>2
  <2> QED
    BY <2>2, <2>3, <2>4, SeqEqual DEF l
<1> HIDE DEF t
<1> QED
  BY <1>1, <1>4, <1>5, <1>6, <1>7 DEF e, t

LEMMA FinishBranchSummaryKeeps ==
    ASSUME Core, FinishBranchSummary PROVE Core'
<1> DEFINE e == BranchSummaryEntry(branch)
           t == Len(Base) + 1
<1>1. /\ up /\ branch # 0 /\ branch' = 0
      /\ UNCHANGED <<at, then, runVars, plan, history, users, replies, calls, commands, metas,
                     rewrites>>
  BY DEF FinishBranchSummary
<1>2. at = "idle" /\ rewrites' \in Nat
  BY <1>1 DEF Core, TypeOK, RunShape
<1>3. /\ Activate(<<e>>, t) /\ t \in 0..Len(Base) + 1 /\ Len(<<e>>) = 1
      /\ Fits(Len(Base), <<e>>) /\ Fits(Len(Base), <<e, LeafEntry(t)>>)
      /\ Append(<<e>>, LeafEntry(t)) = <<e, LeafEntry(t)>>
  BY SummaryFits
<1> HIDE DEF e, t
<1> QED
  BY <1>1, <1>2, <1>3, ActivateKeeps

LEMMA TerminalCommandKeeps ==
    ASSUME Core, TerminalCommand PROVE Core'
<1> DEFINE m == User(users + 1)
           ms == <<m>>
           es == MessageEntries(lastParent, ms)
           t == Len(Base) + 1
<1>1. /\ up /\ at \in {"idle", "summarizing"} /\ at \notin RunPlaces
      /\ commands' = commands + 1 /\ users' = users + 1
      /\ live' = Append(live, m) /\ Store(es) /\ lastParent' = t
      /\ UNCHANGED <<at, then, runVars, plan, branch, history, replies, calls, metas, rewrites>>
  BY DEF TerminalCommand, RunPlaces
<1>2. /\ Base \in Seq(Entry) /\ IsTree(Base) /\ Len(Base) \in Nat
      /\ lastParent \in 0..Len(Base)
      /\ Transcript(Base, lastParent) = stored
  BY <1>1, Here
<1>3. /\ users \in Nat /\ m \in Message /\ live \in Seq(Message) /\ stored \in Seq(Message)
      /\ ~unwound => live = stored
      /\ file \in Seq(Entry) /\ IsTree(file) /\ crashes \in Nat
  BY <1>1 DEF Core, TypeOK, SettledDurable, User, Message, UserMessages
<1>4. es = Burst(Len(Base), lastParent, ms)
  BY DEF MessageEntries, Burst
<1> HIDE DEF m, es
<1>5. ms \in Seq(Message) /\ Len(ms) = 1 /\ t \in Nat /\ Len(Base) + 2 * 1 - 1 = t
  BY <1>2, <1>3
<1> DEFINE b == Burst(Len(Base), lastParent, ms)
<1>6. Fits(Len(Base), es) /\ Len(es) = 2 /\ es[2] = LeafEntry(t)
  <2> HIDE DEF ms, t
  <2>1. Len(Base) \in Nat /\ lastParent \in 0..Len(Base) /\ ms \in Seq(Message)
    BY <1>2, <1>5
  <2>2. /\ Fits(Len(Base), b) /\ Len(b) = 2 * Len(ms)
        /\ Len(ms) > 0 => b[2 * Len(ms)] = LeafEntry(Len(Base) + 2 * Len(ms) - 1)
    BY ONLY <2>1, BurstFits
  <2> HIDE DEF b
  <2>3. 2 * Len(ms) = 2 /\ Len(ms) > 0 /\ Len(Base) + 2 * Len(ms) - 1 = t
    BY <1>5
  <2>4. Len(b) = 2 /\ b[2] = LeafEntry(t)
    BY <2>2, <2>3
  <2> QED
    BY <2>2, <2>4, <1>4 DEF b
<1>7. Transcript(Base \o es, t) = Append(stored, m)
  <2>1. Base \in Seq(Entry) /\ IsTree(Base) /\ lastParent \in 0..Len(Base)
        /\ ms \in Seq(Message) /\ Len(ms) > 0
    BY <1>2, <1>5
  <2>2. Transcript(Base \o b, Len(Base) + 2 * Len(ms) - 1) = Transcript(Base, lastParent) \o ms
    BY ONLY <2>1, BurstTranscript
  <2>3. Append(stored, m) = stored \o ms
    BY <1>3, AppendIsConcat
  <2> HIDE DEF b, ms, t
  <2>4. Len(Base) + 2 * Len(ms) - 1 = t
    BY <1>5
  <2> QED
    BY <2>2, <2>3, <2>4, <1>2, <1>4 DEF b
<1> HIDE DEF t, ms
<1>8. Len(es) > 0 /\ es[Len(es)] = LeafEntry(t)
  BY <1>6
<1>9. up' => stored' = Append(stored, m)
  <2>1. up' => stored' = Transcript(Base \o es, t)
    BY <1>1, <1>3, <1>6, <1>8, StoreProperties
  <2> QED
    BY <2>1, <1>7
<1>10. live' \in Seq(Message) /\ (up' /\ ~unwound => live' = stored')
  BY <1>1, <1>3, <1>9
<1>11. /\ at' \in Places \ RunPlaces /\ then' \in {"idle", "prompting", "retrying"}
       /\ plan' \subseteq plan /\ branch' \in {0, branch} /\ (branch' # 0 => at' = "idle")
       /\ metas' \in Nat /\ rewrites' \in Nat
  BY <1>1 DEF Core, TypeOK, RunShape, Places, RunPlaces
<1>12. users' \in Nat /\ commands' \in Nat
  BY <1>1, <1>3 DEF Core, TypeOK
<1> QED
  BY <1>1, <1>5, <1>6, <1>8, <1>10, <1>11, <1>12, RewriteKeeps

\* An entry without a message, at any time.
LEMMA StoreMetaKeeps ==
    ASSUME Core, StoreMeta PROVE Core'
<1> DEFINE e == MetaEntry(lastParent)
           t == Len(Base) + 1
           es == <<e, LeafEntry(t)>>
           g == Base \o es
<1>1. /\ up /\ metas' = metas + 1 /\ Store(es) /\ lastParent' = t
      /\ UNCHANGED <<live, at, then, runVars, plan, branch, history, users, replies,
                     calls, commands, rewrites>>
  BY DEF StoreMeta
<1>2. /\ Base \in Seq(Entry) /\ IsTree(Base) /\ Len(Base) \in Nat
      /\ lastParent \in 0..Len(Base)
      /\ Transcript(Base, lastParent) = stored
  BY <1>1, Here
<1>3. e \in Entry /\ e.parent = lastParent /\ e.type = "meta"
  BY <1>2 DEF MetaEntry, Entry
<1> HIDE DEF e
<1>4. t \in 0..Len(Base) + 1 /\ t \in Nat
  BY <1>2
<1>5. Fits(Len(Base), es) /\ Len(es) = 2 /\ es[2] = LeafEntry(t) /\ es[1] = e
  BY <1>2, <1>3, <1>4, PairFits
<1> HIDE DEF es
<1>6. Len(es) > 0 /\ es[Len(es)] = LeafEntry(t)
  BY <1>5
<1>7. /\ g \in Seq(Entry) /\ IsTree(g) /\ Len(g) = Len(Base) + 2
      /\ \A i \in 1..Len(Base) : g[i] = Base[i]
      /\ g[t] = e
  <2>1. Base \in Seq(Entry) /\ IsTree(Base) /\ Fits(Len(Base), es)
    BY <1>2, <1>5
  <2>2. /\ g \in Seq(Entry) /\ IsTree(g) /\ Len(g) = Len(Base) + Len(es)
        /\ \A i \in 1..Len(Base) : g[i] = Base[i]
        /\ \A k \in 1..Len(es) : g[Len(Base) + k] = es[k]
    BY ONLY <2>1, TreeConcat
  <2>3. 1 \in 1..Len(es)
    BY <1>5
  <2> HIDE DEF g
  <2> QED
    BY <2>2, <2>3, <1>5
<1> HIDE DEF g
<1>8. Transcript(g, t) = stored
  <2>1. t \in 1..Len(g) /\ Len(Base) <= Len(g)
    BY <1>2, <1>7
  <2>2. Rows(g, t) = Rows(g, lastParent)
    BY <2>1, <1>3, <1>7, SilentRow
  <2>3. Rows(g, lastParent) = Rows(Base, lastParent)
    BY <2>1, <1>2, <1>7, RowsPrefix
  <2> QED
    BY <2>2, <2>3, <1>2 DEF Transcript
<1>9. /\ file' \in Seq(Entry) /\ IsTree(file') /\ Len(file) <= Len(file')
      /\ stored' = Saved(file') /\ stored' \in Seq(Message)
      /\ up' \in BOOLEAN /\ crashes' \in Nat
      /\ InFile \subseteq InFile'
      /\ up' => ActiveLeaf(Base') = t /\ t \in 0..Len(Base')
      /\ up' => stored' = Transcript(Base \o es, t)
  <2>1. file \in Seq(Entry) /\ IsTree(file) /\ crashes \in Nat
    BY DEF Core, TypeOK
  <2> HIDE DEF t
  <2>2. Fits(Len(Base), es) /\ Len(es) > 0 /\ es[Len(es)] = LeafEntry(t) /\ Store(es)
    BY <1>1, <1>5, <1>6
  <2>3. /\ file' \in Seq(Entry) /\ IsTree(file') /\ Len(file) <= Len(file')
        /\ stored' = Saved(file') /\ stored' \in Seq(Message)
        /\ up' \in BOOLEAN /\ crashes' \in Nat
        /\ InFile \subseteq InFile'
        /\ up' => /\ file' = Base \o es /\ Base' = file'
                  /\ ActiveLeaf(Base') = t /\ t \in 0..Len(Base')
                  /\ stored' = Transcript(Base \o es, t)
    BY ONLY <2>1, <2>2, StoreProperties
  <2> QED
    BY ONLY <2>3
<1>10. up' => stored' = stored
  BY <1>8, <1>9 DEF g
<1> HIDE DEF t
<1>11. up' => lastParent' <= Len(Base') /\ lastParent' = ActiveLeaf(Base')
  BY <1>1, <1>9
<1>12. TypeOK'
  <2>1. plan' \subseteq DOMAIN file' /\ branch' \in 0..Len(file')
    BY <1>1, <1>9 DEF Core, TypeOK
  <2>2. lastParent' \in Nat /\ metas' \in Nat
    BY <1>1, <1>4 DEF Core, TypeOK
  <2>3. /\ live' \in Seq(Message) /\ shown' \subseteq Message
        /\ unwound' \in BOOLEAN /\ cancelled' \in BOOLEAN /\ retried' \in BOOLEAN
        /\ at' \in Places /\ then' \in {"idle", "prompting", "retrying"}
        /\ count' \in Nat /\ reply' \in AssistantMessages \cup {None} /\ todo' \in Seq(Nat)
        /\ users' \in Nat /\ replies' \in Nat /\ calls' \in Nat
        /\ commands' \in Nat /\ rewrites' \in Nat
    BY <1>1 DEF Core, TypeOK, runVars, history
  <2>4. up' /\ at' \in RunPlaces => count' <= Len(live')
    BY <1>1 DEF Core, TypeOK, runVars
  <2> QED
    BY <1>9, <1>11, <2>1, <2>2, <2>3, <2>4 DEF TypeOK
<1>13. SettledDurable' /\ SavedUpToCount' /\ Kept'
  BY <1>1, <1>9, <1>10 DEF Core, SettledDurable, SavedUpToCount, Kept, runVars, history
<1>14. SavedBranch'
  BY <1>9, <1>11 DEF SavedBranch
<1>15. UnsavedAhead'
  <2>1. /\ Unsaved' \subseteq Unsaved
        /\ live' = live /\ count' = count /\ todo' = todo /\ reply' = reply /\ at' = at
        /\ unwound' = unwound
    BY <1>1, <1>9 DEF Unsaved, history, runVars
  <2>2. CASE at = "answered"
    BY <1>1, <2>1, <2>2 DEF Core, UnsavedAhead
  <2>3. CASE at = "returned"
    BY <1>1, <2>1, <2>3 DEF Core, UnsavedAhead
  <2>4. CASE at \notin {"answered", "returned"}
    <3>1. at \in RunPlaces /\ ~unwound =>
             Unsaved = {} \/ \E i \in count + 1..Len(live) : Unsaved = {live[i]}
      BY <1>1, <2>4 DEF Core, UnsavedAhead
    <3>2. at \in RunPlaces /\ ~unwound =>
             Unsaved' = {} \/ \E i \in count + 1..Len(live) : Unsaved' = {live[i]}
      BY <3>1, <2>1
    <3> QED
      BY <2>1, <2>4, <3>2 DEF UnsavedAhead
  <2> QED
    BY <2>2, <2>3, <2>4
<1>16. RunShape'
  BY <1>1 DEF Core, RunShape, runVars
<1> QED
  BY <1>12, <1>13, <1>14, <1>15, <1>16 DEF Core

\* A load takes over what is on disk, or what its own repair puts there.
LEMMA LoadKeeps ==
    ASSUME Core, Load PROVE Core'
<1> DEFINE leaf == IF file = <<>> THEN 1 ELSE ActiveLeaf(file)
           rs == Rows(Base, leaf)
           more == RecoveryEntries(rs)
           end == Len(file) + Len(more) - 1
<1>1. /\ file \in Seq(Entry) /\ IsTree(file) /\ stored = Saved(file) /\ stored \in Seq(Message)
      /\ crashes \in Nat /\ Len(file) \in Nat
  BY DEF Core, TypeOK, SavedBranch
<1>2. /\ Base \in Seq(Entry) /\ IsTree(Base) /\ Len(file) <= Len(Base) /\ Len(Base) > 0
      /\ Saved(Base) = Saved(file)
      /\ file # <<>> => Base = file
      /\ file = <<>> => ActiveLeaf(Base) = 1 /\ \A i \in 0..Len(Base) : Rows(Base, i) = <<>>
  BY <1>1, BegunTyped DEF Base, Begun
<1>3. leaf = ActiveLeaf(Base) /\ leaf \in 0..Len(Base) /\ Len(Base) \in Nat
  <2>1. leaf = ActiveLeaf(Base)
    BY <1>2
  <2> HIDE DEF leaf
  <2> QED
    BY <2>1, <1>2, ActiveLeafType
<1>4. /\ ~up /\ at' = "idle" /\ then' = "idle"
      /\ count' = 0 /\ reply' = None /\ todo' = <<>>
      /\ cancelled' = FALSE /\ retried' = FALSE
      /\ plan' = {} /\ branch' = 0 /\ shown' = {} /\ unwound' = FALSE
      /\ UNCHANGED <<users, replies, calls, commands, metas, rewrites>>
  BY DEF Load
<1>5. \/ /\ up' = TRUE /\ live' = Messages(rs) /\ lastParent' = leaf
         /\ UNCHANGED <<disk, crashes>>
      \/ /\ Recovered(Messages(rs)) # Messages(rs)
         /\ Store(more) /\ live' = Transcript(file \o more, end) /\ lastParent' = end
  BY DEF Load
<1> HIDE DEF leaf
<1>6. /\ file' \in Seq(Entry) /\ IsTree(file')
      /\ stored' = Saved(file') /\ stored' \in Seq(Message)
      /\ up' \in BOOLEAN /\ crashes' \in Nat /\ lastParent' \in Nat /\ live' \in Seq(Message)
      /\ up' => /\ lastParent' <= Len(Base') /\ lastParent' = ActiveLeaf(Base')
                /\ live' = stored'
  <2>1. CASE /\ up' = TRUE /\ live' = Messages(rs) /\ lastParent' = leaf
             /\ UNCHANGED <<disk, crashes>>
    <3>1. file' = file /\ stored' = stored /\ Base' = Base
      BY <2>1 DEF disk, Base
    <3>2. live' = stored
      BY <2>1, <1>1, <1>2, <1>3 DEF Saved, Transcript
    <3>3. lastParent' \in Nat /\ lastParent' <= Len(Base)
      BY <2>1, <1>3
    <3> HIDE DEF rs
    <3> QED
      BY <2>1, <3>1, <3>2, <3>3, <1>1, <1>3
  <2>2. CASE /\ Recovered(Messages(rs)) # Messages(rs)
             /\ Store(more) /\ live' = Transcript(file \o more, end) /\ lastParent' = end
    <3>1. file # <<>>
      <4> SUFFICES ASSUME file = <<>> PROVE FALSE
        OBVIOUS
      <4>1. rs = <<>>
        BY <1>2, <1>3
      <4>2. Messages(rs) = <<>>
        BY <4>1 DEF Messages
      <4>3. Messages(rs) \in Seq(Message)
        BY <4>2, EmptySeq
      <4> QED
        BY <4>2, <4>3, <2>2, RecoveredTyped
    <3>2. Base = file /\ leaf \in 0..Len(file) /\ rs = Rows(file, leaf)
      BY <3>1, <1>2, <1>3
    <3> HIDE DEF rs
    <3>3. /\ Fits(Len(file), more) /\ Len(more) > 0
          /\ more[Len(more)] = LeafEntry(end)
      BY <3>2, <2>2, <1>1, RecoveryFits
    <3> HIDE DEF more
    <3>4. end \in Nat /\ end <= Len(file) + Len(more)
      <4>1. Len(more) \in Nat
        BY <3>3 DEF Fits
      <4> QED
        BY <4>1, <3>3, <1>1
    <3> HIDE DEF end
    <3>5. Fits(Len(Base), more)
      BY <3>2, <3>3
    <3>6. /\ file' \in Seq(Entry) /\ IsTree(file') /\ Len(file) <= Len(file')
          /\ stored' = Saved(file') /\ stored' \in Seq(Message)
          /\ up' \in BOOLEAN /\ crashes' \in Nat
          /\ up' => /\ ActiveLeaf(Base') = end /\ end \in 0..Len(Base')
                    /\ stored' = Transcript(Base \o more, end)
      BY <2>2, <1>1, <3>3, <3>5, StoreProperties
    <3>7. live' \in Seq(Message)
      <4>1. file \in Seq(Entry) /\ IsTree(file) /\ Fits(Len(file), more)
        BY <1>1, <3>3
      <4>2. /\ file \o more \in Seq(Entry) /\ IsTree(file \o more)
            /\ Len(file \o more) = Len(file) + Len(more)
        BY ONLY <4>1, TreeConcat
      <4>3. end \in 0..Len(file \o more)
        BY <4>2, <3>4
      <4> QED
        BY <2>2, <4>2, <4>3, TranscriptTyped
    <3>8. up' => lastParent' <= Len(Base') /\ lastParent' = ActiveLeaf(Base')
      BY <2>2, <3>6
    <3>9. up' => live' = stored'
      BY <2>2, <3>2, <3>6
    <3> QED
      BY <2>2, <3>4, <3>6, <3>7, <3>8, <3>9
  <2> QED
    BY <2>1, <2>2, <1>5
<1>7. at' \notin RunPlaces /\ at' \in Places /\ todo' \in Seq(Nat)
  BY <1>4, EmptySeq DEF RunPlaces, Places
<1>8. TypeOK'
  <2>1. plan' \subseteq DOMAIN file' /\ branch' \in 0..Len(file')
    BY <1>4, <1>6
  <2> QED
    BY <1>4, <1>6, <1>7, <2>1 DEF Core, TypeOK
<1>9. SettledDurable' /\ Kept' /\ SavedUpToCount' /\ UnsavedAhead'
  BY <1>4, <1>6, <1>7 DEF SettledDurable, Kept, SavedUpToCount, UnsavedAhead
<1>10. SavedBranch' /\ RunShape'
  BY <1>4, <1>6 DEF SavedBranch, RunShape
<1> QED
  BY <1>8, <1>9, <1>10 DEF Core
-----------------------------------------------------------------------------
(* The theorems.                                                           *)

LEMMA InitCore ==
    ASSUME Init PROVE Core
<1>1. <<>> \in Seq(Entry) /\ IsTree(<<>>) /\ Len(<<>>) = 0
  BY EmptySeq DEF IsTree
<1>2. Saved(<<>>) = <<>>
  <2>1. Rows(<<>>, 0) = <<>>
    <3>1. 0 \in 0..Len(<<>>)
      BY <1>1
    <3> QED
      BY <3>1, <1>1, ReplaySteps
  <2>2. ActiveLeaf(<<>>) = 0
    BY <1>1 DEF ActiveLeaf
  <2>3. Messages(<<>>) = <<>>
    BY DEF Messages
  <2> QED
    BY <2>1, <2>2, <2>3 DEF Saved, Transcript
<1>3. TypeOK
  <2>1. <<>> \in Seq(Message) /\ <<>> \in Seq(Nat)
    BY EmptySeq
  <2>2. file \in Seq(Entry) /\ IsTree(file) /\ stored \in Seq(Message) /\ live \in Seq(Message)
        /\ todo \in Seq(Nat)
    BY <1>1, <2>1 DEF Init
  <2>3. lastParent \in Nat /\ (up => lastParent <= Len(Base)) /\ at \in Places
    BY DEF Init, Places
  <2>4. plan \subseteq DOMAIN file /\ branch \in 0..Len(file) /\ count \in Nat
        /\ (up /\ at \in RunPlaces => count <= Len(live))
    BY <1>1 DEF Init
  <2> QED
    BY <2>2, <2>3, <2>4 DEF Init, TypeOK
<1>4. SettledDurable /\ SavedUpToCount /\ Kept /\ UnsavedAhead /\ RunShape
  BY DEF Init, SettledDurable, SavedUpToCount, Kept, UnsavedAhead, RunShape
<1>5. SavedBranch
  BY <1>2 DEF Init, SavedBranch
<1> QED
  BY <1>3, <1>4, <1>5 DEF Core

LEMMA NextCore ==
    ASSUME Core, [Next]_vars PROVE Core'
<1>1. CASE RunStep
  BY <1>1, PromptKeeps, RunBeginsKeeps, UserMessageEndKeeps, ReplyEndKeeps, AppendReplyKeeps,
     ResultEndKeeps, AppendResultKeeps, TurnEndKeeps, CloseKeeps, AfterRunKeeps DEF RunStep
<1>2. CASE Rewriting
  BY <1>2, CompactKeeps, FinishCompactionKeeps, AbandonCompactionKeeps, BranchKeeps,
     StartBranchSummaryKeeps, FinishBranchSummaryKeeps, AbandonBranchKeeps DEF Rewriting
<1>3. CASE Other
  BY <1>3, LoadKeeps, TerminalCommandKeeps, StoreMetaKeeps, CancelKeeps, CancelTaskKeeps,
     CrashKeeps DEF Other
<1>4. CASE UNCHANGED vars
  <2>1. /\ UNCHANGED <<file, stored, up, live, lastParent, at, then, count, reply, todo,
                       cancelled, retried, plan, branch, shown, unwound>>
        /\ UNCHANGED <<users, replies, calls, commands, metas, rewrites, crashes>>
    BY <1>4 DEF vars, disk, runVars, history, counters
  <2>2. Base' = Base /\ InFile' = InFile /\ Unsaved' = Unsaved
    BY <2>1 DEF Base, InFile, Unsaved
  <2>3. TypeOK'
    BY <2>1, <2>2 DEF Core, TypeOK
  <2>4. SettledDurable' /\ SavedUpToCount' /\ Kept'
    BY <2>1, <2>2 DEF Core, SettledDurable, SavedUpToCount, Kept
  <2>5. SavedBranch'
    BY <2>1, <2>2 DEF Core, SavedBranch
  <2>6. UnsavedAhead'
    BY <2>1, <2>2 DEF Core, UnsavedAhead
  <2>7. RunShape'
    BY <2>1 DEF Core, RunShape
  <2> QED
    BY <2>3, <2>4, <2>5, <2>6, <2>7 DEF Core
<1> QED
  BY <1>1, <1>2, <1>3, <1>4 DEF Next

LEMMA CoreAlways == Spec => []Core
<1>1. Init => Core
  BY InitCore
<1>2. Core /\ [Next]_vars => Core'
  BY NextCore
<1> QED
  BY <1>1, <1>2, PTL DEF Spec

LEMMA OneAtMost ==
    ASSUME NEW U, NEW x, U \subseteq {x}
    PROVE  Cardinality(U) <= 1
<1>1. U = {} \/ U = {x}
  OBVIOUS
<1>2. Cardinality({}) = 0 /\ Cardinality({x}) = 1
  BY FS_EmptySet, FS_Singleton
<1> QED
  BY <1>1, <1>2

LEMMA CoreSession == Core => SessionInv
<1> SUFFICES ASSUME Core PROVE SessionInv
  OBVIOUS
<1>1. AtMostOneUnsaved
  <2> SUFFICES ASSUME up, ~unwound
               PROVE  /\ Cardinality(Unsaved) <= 1
                      /\ at \notin RunPlaces => shown \subseteq InFile
    BY DEF AtMostOneUnsaved
  <2>1. \E x : Unsaved \subseteq {x}
    <3>1. CASE at \notin RunPlaces
      BY <3>1 DEF Core, Kept, Unsaved
    <3>2. CASE at \in RunPlaces
      <4>1. CASE at = "answered"
        BY <3>2, <4>1 DEF Core, UnsavedAhead
      <4>2. CASE at = "returned"
        BY <3>2, <4>2 DEF Core, UnsavedAhead
      <4>3. CASE at # "answered" /\ at # "returned"
        <5>1. Unsaved = {} \/ \E i \in count + 1..Len(live) : Unsaved = {live[i]}
          BY <3>2, <4>3 DEF Core, UnsavedAhead
        <5> QED
          BY <5>1
      <4> QED
        BY <4>1, <4>2, <4>3
    <3> QED
      BY <3>1, <3>2
  <2>2. Cardinality(Unsaved) <= 1
    BY <2>1, OneAtMost
  <2> QED
    BY <2>2 DEF Core, Kept
<1> QED
  BY <1>1 DEF Core, SessionInv, SavesKeepUp

\* The inductive invariant of the session holds, for any bounds, with or without
\* cancelled tasks, failed replies and crashes.
THEOREM SessionInvariance == Spec => []SessionInv
  BY CoreAlways, CoreSession, PTL

\* Outside a run a restart finds exactly what the harness holds; during one it
\* finds the transcript up to persisted_count; and of the messages announced to
\* the frontend at most the latest is not on disk.
THEOREM SessionSaves == Spec => []SavesKeepUp
<1>1. SessionInv => SavesKeepUp
  BY DEF SessionInv
<1> QED
  BY <1>1, SessionInvariance, PTL
=============================================================================
