------------------------ MODULE SessionOrder_proofs ------------------------
(***************************************************************************)
(* TLAPS proofs about the file of a session and the transcript in memory.  *)
(* SavedInOrder: what a load would find occurs in the transcript once and  *)
(* in the same order, whatever was cancelled, compacted, branched, lost in *)
(* a crash or repaired. First the paths of the tree and what was said on   *)
(* them, then what a repair and a burst of entries add to a file in order, *)
(* then that every action keeps OrderInv. SavesTranscript: each action is  *)
(* a step of SavedTranscript or leaves it alone. RewritesKeepPairs: where  *)
(* a compaction may cut, and what a branch replays. LoadAnswers: what the  *)
(* file holds is closed (CallsClosed), so the repair of a load answers     *)
(* every call it finds open.                                               *)
(***************************************************************************)
EXTENDS CodingSession_proofs
-----------------------------------------------------------------------------
(* Paths through the file, and what was said on them.                      *)

LEMMA PathSteps ==
    ASSUME NEW f \in Seq(Entry), IsTree(f)
    PROVE  \A i \in 0..Len(f) :
              Path(f, i) = IF i = 0 THEN {} ELSE {i} \cup Path(f, f[i].parent)
<1> DEFINE n == Len(f)
           Defines(g, m) == g = [i \in 0..m |-> IF i = 0 THEN {} ELSE {i} \cup g[f[i].parent]]
           Bad == {m \in 0..n : ~ \E g : Defines(g, m)}
<1>1. n \in Nat /\ \A i \in 1..n : f[i].parent \in 0..i - 1
  BY DEF IsTree
<1>2. Bad = {}
  <2> SUFFICES ASSUME Bad # {} PROVE FALSE
    OBVIOUS
  <2>1. PICK m \in Bad : \A y \in Bad : m <= y
    <3> HIDE DEF Defines
    <3>1. Bad \subseteq Nat
      BY <1>1
    <3> HIDE DEF Bad
    <3> QED
      BY <3>1, Least
  <2>2. m \in 0..n
    <3> HIDE DEF Defines
    <3> QED
      OBVIOUS
  <2>3. CASE m = 0
    <3>1. Defines([i \in 0..0 |-> {}], 0)
      OBVIOUS
    <3> HIDE DEF Defines
    <3> QED
      BY <2>3, <3>1
  <2>4. CASE m # 0
    <3>1. m - 1 \in 0..n /\ m - 1 \notin Bad
      <4> HIDE DEF Defines
      <4> HIDE DEF Bad
      <4> QED
        BY <2>1, <2>2, <2>4, <1>1
    <3>2. PICK g : Defines(g, m - 1)
      <4> HIDE DEF Defines
      <4> QED
        BY <3>1
    <3> DEFINE h == [i \in 0..m |-> IF i = m THEN {m} \cup g[f[m].parent] ELSE g[i]]
    <3>3. Defines(h, m)
      <4>1. ASSUME NEW i \in 0..m
            PROVE  h[i] = IF i = 0 THEN {} ELSE {i} \cup h[f[i].parent]
        <5>1. i # 0 => f[i].parent \in 0..i - 1
          BY <1>1, <2>2
        <5>2. i # 0 => h[f[i].parent] = g[f[i].parent]
          BY <5>1, <2>2, <1>1
        <5>3. CASE i = m
          <6>1. h[i] = {m} \cup g[f[m].parent]
            BY <5>3
          <6> HIDE DEF h
          <6> QED
            BY <6>1, <5>2, <5>3, <2>4
        <5>4. CASE i # m
          <6>1. i \in 0..m - 1 /\ h[i] = g[i]
            BY <5>4, <2>2, <1>1
          <6>2. g[i] = IF i = 0 THEN {} ELSE {i} \cup g[f[i].parent]
            BY <6>1, <3>2
          <6> HIDE DEF h
          <6> QED
            BY <6>1, <6>2, <5>2
        <5> QED
          BY <5>3, <5>4
      <4>2. h = [i \in 0..m |-> h[i]]
        OBVIOUS
      <4> HIDE DEF h
      <4> QED
        BY <4>1, <4>2
    <3> HIDE DEF Defines, h
    <3> QED
      BY <3>3
  <2> QED
    BY <2>3, <2>4
<1>3. \E g : Defines(g, n)
  <2> HIDE DEF Defines
  <2> QED
    BY <1>1, <1>2
<1> DEFINE path == CHOOSE g : Defines(g, n)
<1>4. \A i \in 0..n : Path(f, i) = path[i]
  BY DEF Path
<1>5. Defines(path, n)
  <2> HIDE DEF Defines
  <2> QED
    BY <1>3
<1> HIDE DEF path
<1> QED
  BY <1>1, <1>4, <1>5

\* A path leads down from the first entries, and holds the paths of its entries.
PathShape(f, i) ==
    /\ Path(f, i) \subseteq 1..i
    /\ \A j \in Path(f, i) : Path(f, j) \subseteq Path(f, i)
    /\ \A j, k \in Path(f, i) : j < k => j \in Path(f, f[k].parent)

LEMMA PathFacts ==
    ASSUME NEW f \in Seq(Entry), IsTree(f)
    PROVE  \A i \in 0..Len(f) : PathShape(f, i)
<1> DEFINE Bad == {m \in 0..Len(f) : ~PathShape(f, m)}
<1> SUFFICES ASSUME Bad # {} PROVE FALSE
  OBVIOUS
<1>1. PICK m \in Bad : \A y \in Bad : m <= y
  <2>1. Bad \subseteq Nat
    OBVIOUS
  <2> HIDE DEF Bad
  <2> QED
    BY <2>1, Least
<1>2. m \in 0..Len(f) /\ Len(f) \in Nat /\ ~PathShape(f, m)
  BY <1>1
<1>3. Path(f, m) = IF m = 0 THEN {} ELSE {m} \cup Path(f, f[m].parent)
  BY <1>2, PathSteps
<1>4. m # 0
  BY <1>2, <1>3 DEF PathShape
<1> DEFINE p == f[m].parent
<1>5. p \in 0..m - 1 /\ p \in 0..Len(f)
  BY <1>2, <1>4 DEF IsTree
<1>6. PathShape(f, p)
  <2>1. ~(m <= p)
    BY <1>2, <1>5
  <2> HIDE DEF p
  <2> QED
    BY <2>1, <1>1, <1>5
<1>7. Path(f, m) = {m} \cup Path(f, p)
  BY <1>3, <1>4
<1> HIDE DEF p
<1>8. Path(f, m) \subseteq 1..m
  BY <1>2, <1>4, <1>5, <1>6, <1>7 DEF PathShape
<1>9. \A j \in Path(f, m) : Path(f, j) \subseteq Path(f, m)
  BY <1>6, <1>7 DEF PathShape
<1>10. ASSUME NEW j \in Path(f, m), NEW k \in Path(f, m), j < k
       PROVE  j \in Path(f, f[k].parent)
  <2>1. CASE k = m
    <3>1. j # m
      BY <1>8, <1>10, <2>1
    <3> QED
      BY <3>1, <2>1, <1>7 DEF p
  <2>2. CASE k # m
    <3>1. k \in Path(f, p)
      BY <2>2, <1>7
    <3>2. k \in 1..p
      BY <3>1, <1>6 DEF PathShape
    <3>3. j # m
      BY <3>2, <1>10, <1>5, <1>2, <1>8
    <3>4. j \in Path(f, p)
      BY <3>3, <1>7
    <3> QED
      BY <3>1, <3>4, <1>6, <1>10 DEF PathShape
  <2> QED
    BY <2>1, <2>2
<1> QED
  BY <1>2, <1>8, <1>9, <1>10 DEF PathShape

LEMMA PathPrefix ==
    ASSUME NEW f \in Seq(Entry), IsTree(f), NEW g \in Seq(Entry), IsTree(g),
           Len(f) <= Len(g), \A i \in 1..Len(f) : g[i] = f[i]
    PROVE  \A i \in 0..Len(f) : Path(g, i) = Path(f, i)
<1> DEFINE Bad == {m \in 0..Len(f) : Path(g, m) # Path(f, m)}
<1> SUFFICES ASSUME Bad # {} PROVE FALSE
  OBVIOUS
<1>1. PICK m \in Bad : \A y \in Bad : m <= y
  <2>1. Bad \subseteq Nat
    OBVIOUS
  <2> HIDE DEF Bad
  <2> QED
    BY <2>1, Least
<1>2. m \in 0..Len(f) /\ m \in 0..Len(g) /\ Path(g, m) # Path(f, m)
  BY <1>1
<1>3. /\ Path(f, m) = IF m = 0 THEN {} ELSE {m} \cup Path(f, f[m].parent)
      /\ Path(g, m) = IF m = 0 THEN {} ELSE {m} \cup Path(g, g[m].parent)
  BY <1>2, PathSteps
<1>4. m # 0
  BY <1>2, <1>3
<1>5. f[m].parent \in 0..m - 1 /\ g[m] = f[m]
  BY <1>2, <1>4 DEF IsTree
<1>6. Path(g, f[m].parent) = Path(f, f[m].parent)
  <2>1. f[m].parent \in 0..Len(f) /\ ~(m <= f[m].parent)
    BY <1>2, <1>5
  <2> QED
    BY <2>1, <1>1
<1> QED
  BY <1>2, <1>3, <1>4, <1>5, <1>6

LEMMA SaidSteps ==
    ASSUME NEW f \in Seq(Entry), IsTree(f)
    PROVE  /\ Said(f, 0) = {}
           /\ \A i \in 1..Len(f) :
                 Said(f, i) = Said(f, f[i].parent)
                                \cup IF Speaks(f[i]) THEN {Value(f, i)} ELSE {}
<1>1. Len(f) \in Nat
  OBVIOUS
<1>2. Path(f, 0) = {}
  BY <1>1, PathSteps
<1>3. Said(f, 0) = {}
  BY <1>2 DEF Said
<1>4. ASSUME NEW i \in 1..Len(f)
      PROVE  Said(f, i) = Said(f, f[i].parent) \cup IF Speaks(f[i]) THEN {Value(f, i)} ELSE {}
  <2>1. Path(f, i) = {i} \cup Path(f, f[i].parent)
    BY <1>1, PathSteps
  <2> QED
    BY <2>1 DEF Said
<1> QED
  BY <1>3, <1>4

LEMMA SaidWithin ==
    ASSUME NEW f \in Seq(Entry), IsTree(f), NEW i \in 0..Len(f), NEW j \in Path(f, i)
    PROVE  Said(f, j) \subseteq Said(f, i)
<1>1. Path(f, j) \subseteq Path(f, i)
  BY PathFacts DEF PathShape
<1> QED
  BY <1>1 DEF Said

LEMMA SaidPrefix ==
    ASSUME NEW f \in Seq(Entry), IsTree(f), NEW g \in Seq(Entry), IsTree(g),
           Len(f) <= Len(g), \A i \in 1..Len(f) : g[i] = f[i]
    PROVE  \A i \in 0..Len(f) : Said(g, i) = Said(f, i)
<1> SUFFICES ASSUME NEW i \in 0..Len(f) PROVE Said(g, i) = Said(f, i)
  OBVIOUS
<1>1. Path(g, i) = Path(f, i)
  BY PathPrefix
<1>2. \A k \in Path(f, i) : g[k] = f[k]
  <2>1. Path(f, i) \subseteq 1..i
    BY PathFacts DEF PathShape
  <2> QED
    BY <2>1
<1> QED
  BY <1>1, <1>2 DEF Said, Value

LEMMA EntryPrefix ==
    ASSUME NEW f \in Seq(Entry), IsTree(f), NEW g \in Seq(Entry), IsTree(g),
           Len(f) <= Len(g), \A i \in 1..Len(f) : g[i] = f[i],
           NEW i \in 1..Len(f)
    PROVE  EntryInOrder(g, i) <=> EntryInOrder(f, i)
<1> DEFINE p == f[i].parent
<1>1. g[i] = f[i] /\ p \in 0..Len(f)
  BY DEF IsTree
<1>2. Said(g, p) = Said(f, p) /\ Rows(g, p) = Rows(f, p)
  BY <1>1, SaidPrefix, RowsPrefix
<1>3. Value(g, i) = Value(f, i)
  BY <1>1 DEF Value
<1> QED
  BY <1>1, <1>2, <1>3 DEF EntryInOrder, FirstRows

LEMMA OrderPrefix ==
    ASSUME NEW f \in Seq(Entry), IsTree(f), NEW g \in Seq(Entry), IsTree(g),
           Len(f) <= Len(g), \A i \in 1..Len(f) : g[i] = f[i]
    PROVE  FileInOrder(g) <=> /\ FileInOrder(f)
                              /\ \A i \in Len(f) + 1..Len(g) : EntryInOrder(g, i)
<1>1. \A i \in 1..Len(f) : EntryInOrder(g, i) <=> EntryInOrder(f, i)
  BY EntryPrefix
<1>2. /\ DOMAIN g = 1..Len(g) /\ DOMAIN f = 1..Len(f) /\ Len(f) \in Nat /\ Len(g) \in Nat
      /\ 1..Len(g) = 1..Len(f) \cup (Len(f) + 1..Len(g))
  OBVIOUS
<1> QED
  BY <1>1, <1>2 DEF FileInOrder

-----------------------------------------------------------------------------
(* The rows of a path.                                                     *)

\* Induction up to n, for a set.
LEMMA Climb ==
    ASSUME NEW n \in Nat, NEW T,
           \A m \in 1..n : m = 1 \/ m - 1 \in T => m \in T
    PROVE  1..n \subseteq T
<1> DEFINE Bad == {m \in 1..n : m \notin T}
<1> SUFFICES ASSUME Bad # {} PROVE FALSE
  OBVIOUS
<1>1. PICK m \in Bad : \A y \in Bad : m <= y
  <2>1. Bad \subseteq Nat
    OBVIOUS
  <2> HIDE DEF Bad
  <2> QED
    BY <2>1, Least
<1>2. m \in 1..n /\ m \notin T
  BY <1>1
<1>3. m # 1 => m - 1 \in T
  <2> SUFFICES ASSUME m # 1 PROVE m - 1 \in T
    OBVIOUS
  <2>1. m - 1 \in 1..n /\ ~(m <= m - 1)
    BY <1>2
  <2>2. m - 1 \notin Bad
    <3> HIDE DEF Bad
    <3> QED
      BY <2>1, <1>1
  <2> QED
    BY <2>1, <2>2
<1> QED
  BY <1>2, <1>3

\* The ids are those of the first n rows.
Leading(rs, ids, n) == \A j \in 1..Len(rs) : rs[j].id \in ids <=> j <= n

\* Replacing the first n rows leaves one row and the rest.
LEMMA CompactedRest ==
    ASSUME NEW S, NEW rs \in Seq(S), NEW r \in S, NEW n \in 1..Len(rs),
           NEW ids, Leading(rs, ids, n)
    PROVE  /\ Len(Compacted(rs, ids, r)) = Len(rs) - n + 1
           /\ Compacted(rs, ids, r)[1] = r
           /\ \A k \in 2..Len(rs) - n + 1 : Compacted(rs, ids, r)[k] = rs[k + n - 1]
<1> DEFINE gone == {j \in DOMAIN rs : rs[j].id \in ids}
           Now(j) == CASE j \notin gone -> <<rs[j]>>
                       [] j \in gone /\ (\A k \in gone : j <= k) -> <<r>>
                       [] OTHER -> <<>>
           q == [j \in DOMAIN rs |-> Now(j)]
           L == Len(rs)
<1>1. L \in Nat /\ L > 0 /\ n \in Nat /\ n >= 1 /\ n <= L /\ DOMAIN rs = 1..L
  OBVIOUS
<1>2. gone = 1..n
  <2>1. \A j \in 1..L : rs[j].id \in ids <=> j \in 1..n
    <3>1. \A j \in 1..L : j <= n <=> j \in 1..n
      BY <1>1
    <3> QED
      BY <3>1 DEF Leading
  <2> QED
    BY <2>1, <1>1
<1>3. Compacted(rs, ids, r) = FlattenSeq(q)
  <2>1. gone # {}
    BY <1>1, <1>2
  <2>2. Compacted(rs, ids, r) = FlattenSeq(q) \o <<>>
    <3>1. Compacted(rs, ids, r) = FlattenSeq(q) \o (IF gone = {} THEN <<r>> ELSE <<>>)
      BY DEF Compacted
    <3> HIDE DEF gone, q
    <3> QED
      BY <3>1, <2>1
  <2>3. FlattenSeq(q) \in Seq(S)
    <3>1. \A j \in 1..L : Now(j) \in Seq(S)
      OBVIOUS
    <3>2. q \in Seq(Seq(S))
      <4> HIDE DEF Now
      <4> QED
        BY <3>1, <1>1
    <3> HIDE DEF q
    <3> QED
      BY <3>2, FlattenProperties
  <2> HIDE DEF q
  <2> QED
    BY <2>2, <2>3, ConcatEmptySeq
<1>4. \A j \in 1..L : q[j] = IF j > n THEN <<rs[j]>> ELSE IF j = 1 THEN <<r>> ELSE <<>>
  <2> SUFFICES ASSUME NEW j \in 1..L
               PROVE  Now(j) = IF j > n THEN <<rs[j]>> ELSE IF j = 1 THEN <<r>> ELSE <<>>
    BY <1>1
  <2>1. CASE j > n
    <3>1. j \notin gone
      BY <2>1, <1>1, <1>2
    <3> HIDE DEF gone
    <3> QED
      BY <3>1, <2>1
  <2>2. CASE j = 1
    <3>1. j \in gone /\ \A k \in gone : j <= k
      BY <2>2, <1>1, <1>2
    <3> HIDE DEF gone
    <3> QED
      BY <3>1, <2>2, <1>1
  <2>3. CASE ~(j > n) /\ j # 1
    <3>1. j \in gone /\ 1 \in gone /\ ~(j <= 1)
      BY <2>3, <1>1, <1>2
    <3> HIDE DEF gone
    <3> QED
      BY <3>1, <2>3
  <2> QED
    BY <2>1, <2>2, <2>3
<1>5. Len(q) = L /\ q = [j \in 1..L |-> q[j]]
  BY <1>1
<1> HIDE DEF q, gone, Now
<1>6. PICK f : /\ f = [i \in 1..L |-> IF i = 1 THEN q[i] ELSE f[i - 1] \o q[i]]
               /\ FlattenSeq(q) = f[L]
  <2>1. L = Len(q)
    BY <1>5
  <2> HIDE DEF L
  <2> QED
    BY <2>1, <1>1, FlattenSteps
<1>7. \A m \in 1..L : f[m] = IF m = 1 THEN q[m] ELSE f[m - 1] \o q[m]
  BY <1>6
<1> DEFINE Past(m) == IF m > n THEN m - n ELSE 0
           Good(m) == /\ f[m] \in Seq(S) /\ Len(f[m]) = 1 + Past(m)
                      /\ f[m][1] = r
                      /\ \A k \in 2..1 + Past(m) : f[m][k] = rs[k + n - 1]
           T == {m \in 1..L : Good(m)}
<1> HIDE DEF L
<1>8. ASSUME NEW m \in 1..L, m = 1 \/ m - 1 \in T
      PROVE  Good(m)
  <2>1. CASE m = 1
    <3>1. f[m] = <<r>>
      <4>1. f[m] = q[m]
        BY <2>1, <1>7
      <4>2. q[m] = <<r>>
        <5>1. ~(m > n) /\ m \in 1..L
          BY <2>1, <1>1
        <5> QED
          BY <5>1, <2>1, <1>4, Zenon
      <4> QED
        BY <4>1, <4>2
    <3>2. Past(m) = 0
      BY <2>1, <1>1
    <3> HIDE DEF Past
    <3> QED
      BY <3>1, <3>2
  <2>2. CASE m # 1
    <3>1. m - 1 \in 1..L /\ Good(m - 1) /\ m \in Nat /\ m > 1
      <4>1. m - 1 \in T
        BY <2>2, <1>8
      <4> HIDE DEF Good
      <4> QED
        BY <4>1, <2>2, <1>1
    <3>2. f[m] = f[m - 1] \o q[m]
      BY <2>2, <1>7
    <3>3. CASE m > n
      <4>1. q[m] = <<rs[m]>> /\ rs[m] \in S
        <5>1. q[m] = <<rs[m]>>
          BY <3>3, <1>4, Zenon
        <5>2. rs[m] \in S
          <6>1. m \in 1..Len(rs)
            BY DEF L
          <6> QED
            BY <6>1
        <5> QED
          BY <5>1, <5>2
      <4>2. Past(m) = m - n /\ Past(m - 1) = m - 1 - n
        BY <3>3, <3>1, <1>1
      <4> DEFINE a == f[m - 1]
                 x == rs[m]
      <4>3. /\ a \in Seq(S) /\ Len(a) = m - n /\ a[1] = r
            /\ \A k \in 2..m - n : a[k] = rs[k + n - 1]
        <5>1. 1 + Past(m - 1) = m - n
          BY <4>2, <3>1, <1>1
        <5> HIDE DEF Past
        <5> QED
          BY <3>1, <5>1
      <4>4. f[m] = a \o <<x>> /\ x \in S
        BY <3>2, <4>1
      <4>5. m - n \in Nat /\ m - n >= 1 /\ 1 + (m - n) = m - n + 1 /\ (m - n + 1) + n - 1 = m
        <5>1. m \in Nat /\ n \in Nat /\ m > n
          BY <3>1, <3>3, <1>1
        <5> QED
          BY ONLY <5>1
      <4> HIDE DEF a
      <4>6. /\ f[m] \in Seq(S) /\ Len(f[m]) = m - n + 1 /\ f[m][1] = r
            /\ \A k \in 2..m - n : f[m][k] = rs[k + n - 1]
            /\ f[m][m - n + 1] = x
        <5> HIDE DEF x
        <5>1. a \o <<x>> = Append(a, x)
          BY <4>3, <4>4, AppendIsConcat
        <5>2. /\ Append(a, x) \in Seq(S) /\ Len(Append(a, x)) = Len(a) + 1
              /\ \A k \in 1..Len(a) : Append(a, x)[k] = a[k]
              /\ Append(a, x)[Len(a) + 1] = x
          <6>1. a \in Seq(S) /\ x \in S
            BY <4>3, <4>4
          <6> QED
            BY ONLY <6>1, AppendProperties
        <5>3. f[m] = Append(a, x)
          BY <5>1, <4>4
        <5>4. Len(a) + 1 = m - n + 1 /\ 1 \in 1..Len(a) /\ 2..m - n \subseteq 1..Len(a)
          BY <4>3, <4>5
        <5> QED
          <6>1. f[m] \in Seq(S) /\ Len(f[m]) = m - n + 1 /\ f[m][1] = r /\ f[m][m - n + 1] = x
            BY <5>2, <5>3, <5>4, <4>3
          <6>2. \A k \in 2..m - n : f[m][k] = rs[k + n - 1]
            BY <5>2, <5>3, <5>4, <4>3
          <6> QED
            BY <6>1, <6>2
      <4>7. \A k \in 2..1 + Past(m) : f[m][k] = rs[k + n - 1]
        <5>1. \A k \in 2..1 + (m - n) : k \in 2..m - n \/ k = m - n + 1
          BY <4>5
        <5> QED
          BY <5>1, <4>2, <4>5, <4>6
      <4> HIDE DEF Past, x
      <4> QED
        BY <4>2, <4>5, <4>6, <4>7
    <3>4. CASE ~(m > n)
      <4>1. q[m] = <<>>
        BY <3>4, <2>2, <1>4
      <4>2. Past(m) = 0 /\ Past(m - 1) = 0
        BY <3>4, <3>1, <1>1
      <4>3. f[m] = f[m - 1]
        <5>1. f[m - 1] \in Seq(S)
          BY <3>1
        <5> QED
          BY <5>1, <4>1, <3>2, ConcatEmptySeq
      <4> HIDE DEF Past
      <4> QED
        BY <4>2, <4>3, <3>1
    <3> QED
      BY <3>3, <3>4
  <2> QED
    BY <2>1, <2>2
<1>9. Good(L)
  <2> HIDE DEF Good
  <2>1. \A m \in 1..L : m = 1 \/ m - 1 \in T => m \in T
    BY <1>8
  <2>2. 1..L \subseteq T
    <3> HIDE DEF T
    <3> QED
      BY <2>1, <1>1, Climb
  <2> QED
    BY <2>2, <1>1
<1>10. Past(L) = L - n
  BY <1>1
<1>11. Compacted(rs, ids, r) = f[L]
  BY <1>3, <1>6
<1>12. 1 + Past(L) = L - n + 1
  BY <1>10, <1>1
<1> HIDE DEF Past
<1> QED
  BY <1>9, <1>11, <1>12 DEF L

\* What an entry adds to the rows of its parent.
LEMMA RowsGrow ==
    ASSUME NEW f \in Seq(Entry), IsTree(f), NEW i \in 1..Len(f)
    PROVE  LET rs == Rows(f, f[i].parent)
           IN  /\ f[i].parent \in 0..i - 1 /\ rs \in Seq(RowsTo(f[i].parent))
               /\ Rows(f, i) \in Seq(RowsTo(i))
               /\ ~Speaks(f[i]) => Rows(f, i) = rs
               /\ f[i].type \in {"message", "branch_summary"} =>
                     /\ Len(Rows(f, i)) = Len(rs) + 1
                     /\ \A k \in 1..Len(rs) : Rows(f, i)[k] = rs[k]
                     /\ Rows(f, i)[Len(rs) + 1] = Row(i, Value(f, i))
               /\ f[i].type = "compaction" =>
                     Rows(f, i) = Compacted(rs, f[i].replaces, Row(i, Value(f, i)))
<1> DEFINE p == f[i].parent
           rs == Rows(f, p)
           e == f[i]
<1>1. p \in 0..i - 1 /\ p \in 0..Len(f) /\ Len(f) \in Nat /\ e \in Entry
  BY DEF IsTree
<1>2. rs \in Seq(RowsTo(p)) /\ Rows(f, i) \in Seq(RowsTo(i))
  BY <1>1, RowsTyped
<1>3. Rows(f, i) = Extended(rs, i, e)
  BY <1>1, ReplaySteps
<1>4. e.type \in {"message", "compaction", "branch_summary", "leaf", "meta"}
  BY <1>1 DEF Entry
<1>5. rs \in Seq(RowsTo(i))
  <2>1. RowsTo(p) \subseteq RowsTo(i)
    BY <1>1 DEF RowsTo
  <2> QED
    BY <2>1, <1>2, SeqMonotonic
<1>6. ASSUME e.type \in {"message", "branch_summary"}
      PROVE  /\ Len(Rows(f, i)) = Len(rs) + 1
             /\ \A k \in 1..Len(rs) : Rows(f, i)[k] = rs[k]
             /\ Rows(f, i)[Len(rs) + 1] = Row(i, Value(f, i))
  <2> DEFINE r == Row(i, Value(f, i))
  <2>1. Rows(f, i) = Append(rs, r)
    BY <1>3, <1>6 DEF Extended, Value
  <2>2. rs \in Seq(RowsTo(i)) /\ Append(rs, r) \in Seq(RowsTo(i))
    BY <2>1, <1>2, <1>5
  <2> HIDE DEF rs, r
  <2>3. Len(Append(rs, r)) = Len(rs) + 1 /\ Append(rs, r)[Len(rs) + 1] = r
        /\ \A k \in 1..Len(rs) : Append(rs, r)[k] = rs[k]
    BY <2>2
  <2> QED
    BY <2>1, <2>3 DEF r
<1>7. e.type = "compaction" => Rows(f, i) = Compacted(rs, e.replaces, Row(i, Value(f, i)))
  BY <1>3 DEF Extended, Value
<1>8. ~Speaks(e) => Rows(f, i) = rs
  BY <1>3, <1>4 DEF Extended, Speaks
<1> QED
  BY <1>1, <1>2, <1>6, <1>7, <1>8

\* Each row is an entry of the path and what it says.
RowsSpeak(f, i) ==
    \A k \in 1..Len(Rows(f, i)) :
        /\ Rows(f, i)[k].id \in Path(f, i)
        /\ Speaks(f[Rows(f, i)[k].id])
        /\ Rows(f, i)[k].message = Value(f, Rows(f, i)[k].id)

\* They are in the order of the file, except for a compaction, which comes first.
RowsAscend(f, i) ==
    \A k, l \in 1..Len(Rows(f, i)) : k < l =>
        /\ Rows(f, i)[k].id # Rows(f, i)[l].id
        /\ f[Rows(f, i)[l].id].type # "compaction"
        /\ f[Rows(f, i)[k].id].type = "compaction" \/ Rows(f, i)[k].id < Rows(f, i)[l].id

\* Up to the row of an entry they are the rows of that entry, but for what was
\* compacted since.
Again(f, i, k, h, d) ==
    LET x == Rows(f, i)[k].id
    IN  /\ h = 0 => d = 0
        /\ h = 1 => f[Rows(f, i)[1].id].type = "compaction"
        /\ k + d = Len(Rows(f, x))
        /\ \A l \in h + 1..k : Rows(f, i)[l] = Rows(f, x)[l + d]

RowsAgain(f, i) ==
    \A k \in 1..Len(Rows(f, i)) :
        f[Rows(f, i)[k].id].type # "compaction" =>
            \E h \in 0..1, d \in Nat : Again(f, i, k, h, d)

RowShape(f, i) == RowsSpeak(f, i) /\ RowsAscend(f, i) /\ RowsAgain(f, i)

LEMMA RowShapeAppend ==
    ASSUME NEW f \in Seq(Entry), IsTree(f), NEW i \in 1..Len(f),
           f[i].type \in {"message", "branch_summary"}, RowShape(f, f[i].parent)
    PROVE  RowShape(f, i)
<1> DEFINE p == f[i].parent
           old == Rows(f, p)
           new == Rows(f, i)
           n == Len(old)
<1>1. /\ p \in 0..i - 1 /\ old \in Seq(RowsTo(p)) /\ new \in Seq(RowsTo(i))
      /\ Len(new) = n + 1 /\ \A k \in 1..n : new[k] = old[k]
      /\ new[n + 1] = Row(i, Value(f, i))
  BY RowsGrow
<1>2. n \in Nat /\ i \in Nat /\ i \in 0..Len(f) /\ p \in 0..Len(f) /\ Len(f) \in Nat
  BY <1>1
<1>3. /\ Path(f, i) = {i} \cup Path(f, p)
      /\ Path(f, p) \subseteq 1..p
  BY <1>2, PathSteps, PathFacts DEF PathShape
<1>4. new[n + 1].id = i /\ new[n + 1].message = Value(f, i) /\ Speaks(f[i])
  BY <1>1 DEF Row, Speaks
<1>5. \A k \in 1..n : old[k].id \in Path(f, p) /\ new[k] = old[k]
  BY <1>1 DEF RowShape, RowsSpeak
<1>6. \A k \in 1..Len(new) : k \in 1..n \/ k = n + 1
  BY <1>1, <1>2
<1> HIDE DEF old, new, n, p
<1>7. RowsSpeak(f, i)
  <2> SUFFICES ASSUME NEW k \in 1..Len(new)
               PROVE  /\ new[k].id \in Path(f, i) /\ Speaks(f[new[k].id])
                      /\ new[k].message = Value(f, new[k].id)
    BY DEF RowsSpeak, new
  <2>1. CASE k \in 1..n
    <3>1. /\ old[k].id \in Path(f, p) /\ Speaks(f[old[k].id])
          /\ old[k].message = Value(f, old[k].id)
      BY <2>1 DEF RowShape, RowsSpeak, old, n, p
    <3> QED
      BY <3>1, <2>1, <1>3, <1>5
  <2>2. CASE k = n + 1
    BY <2>2, <1>3, <1>4
  <2> QED
    BY <2>1, <2>2, <1>6
<1>8. RowsAscend(f, i)
  <2> SUFFICES ASSUME NEW k \in 1..Len(new), NEW l \in 1..Len(new), k < l
               PROVE  /\ new[k].id # new[l].id
                      /\ f[new[l].id].type # "compaction"
                      /\ f[new[k].id].type = "compaction" \/ new[k].id < new[l].id
    BY DEF RowsAscend, new
  <2>1. k \in 1..n
    BY <1>1, <1>2
  <2>2. CASE l \in 1..n
    <3>1. /\ old[k].id # old[l].id
          /\ f[old[l].id].type # "compaction"
          /\ f[old[k].id].type = "compaction" \/ old[k].id < old[l].id
      BY <2>1, <2>2 DEF RowShape, RowsAscend, old, n, p
    <3> QED
      BY <3>1, <2>1, <2>2, <1>5
  <2>3. CASE l = n + 1
    <3>1. new[k].id \in 1..p
      BY <2>1, <1>3, <1>5
    <3>2. new[k].id < i
      BY <3>1, <1>1, <1>2
    <3> QED
      BY <3>1, <3>2, <2>3, <1>4, <1>2
  <2> QED
    BY <2>2, <2>3, <1>6
<1>9. RowsAgain(f, i)
  <2> SUFFICES ASSUME NEW k \in 1..Len(new), f[new[k].id].type # "compaction"
               PROVE  \E h \in 0..1, d \in Nat : Again(f, i, k, h, d)
    BY DEF RowsAgain, new
  <2>1. CASE k \in 1..n
    <3>1. f[old[k].id].type # "compaction"
      BY <2>1, <1>5
    <3>2. PICK h \in 0..1, d \in Nat : Again(f, p, k, h, d)
      BY <3>1, <2>1 DEF RowShape, RowsAgain, old, n, p
    <3>3. /\ h = 0 => d = 0
          /\ h = 1 => f[old[1].id].type = "compaction"
          /\ k + d = Len(Rows(f, old[k].id))
          /\ \A l \in h + 1..k : old[l] = Rows(f, old[k].id)[l + d]
      BY <3>2 DEF Again, old
    <3>4. new[k] = old[k] /\ new[1] = old[1] /\ \A l \in h + 1..k : new[l] = old[l]
      <4>1. 1 \in 1..n /\ \A l \in h + 1..k : l \in 1..n
        BY <2>1, <1>2
      <4> QED
        BY <4>1, <2>1, <1>5
    <3>5. Again(f, i, k, h, d)
      BY <3>3, <3>4 DEF Again, new
    <3> QED
      BY <3>5
  <2>2. CASE k = n + 1
    <3>1. new[k].id = i /\ Len(new) = k
      BY <2>2, <1>1, <1>4
    <3>2. k + 0 = Len(new) /\ \A l \in 0 + 1..k : new[l] = new[l + 0]
      BY <3>1, <2>2, <1>2
    <3>3. Again(f, i, k, 0, 0)
      BY <3>1, <3>2 DEF Again, new
    <3> QED
      BY <3>3
  <2> QED
    BY <2>1, <2>2, <1>6
<1> QED
  BY <1>7, <1>8, <1>9 DEF RowShape

\* A compaction of the first n rows.
LEMMA CompactionRows ==
    ASSUME NEW f \in Seq(Entry), IsTree(f), NEW i \in 1..Len(f),
           f[i].type = "compaction", RowShape(f, f[i].parent),
           NEW n \in 1..Len(Rows(f, f[i].parent)),
           f[i].replaces = {Rows(f, f[i].parent)[k].id : k \in 1..n}
    PROVE  /\ Len(Rows(f, i)) = Len(Rows(f, f[i].parent)) - n + 1
           /\ Rows(f, i)[1] = Row(i, Value(f, i))
           /\ \A k \in 2..Len(Rows(f, i)) : Rows(f, i)[k] = Rows(f, f[i].parent)[k + n - 1]
<1> DEFINE p == f[i].parent
           old == Rows(f, p)
           r == Row(i, Value(f, i))
<1>1. p \in 0..i - 1 /\ old \in Seq(RowsTo(p)) /\ Rows(f, i) = Compacted(old, f[i].replaces, r)
  BY RowsGrow
<1>2. \A j, k \in 1..Len(old) : old[j].id = old[k].id => j = k
  <2> SUFFICES ASSUME NEW j \in 1..Len(old), NEW k \in 1..Len(old), j # k
               PROVE  old[j].id # old[k].id
    OBVIOUS
  <2>1. j < k \/ k < j
    OBVIOUS
  <2> QED
    BY <2>1 DEF RowShape, RowsAscend
<1> DEFINE S == RowsTo(p) \cup {r}
<1>3. old \in Seq(S) /\ r \in S
  <2>1. RowsTo(p) \subseteq S
    OBVIOUS
  <2> HIDE DEF S, old
  <2>2. old \in Seq(S)
    BY <2>1, <1>1, SeqMonotonic
  <2> QED
    BY <2>2 DEF S
<1> DEFINE ids == f[i].replaces
<1>4. /\ Len(Compacted(old, ids, r)) = Len(old) - n + 1
      /\ Compacted(old, ids, r)[1] = r
      /\ \A k \in 2..Len(old) - n + 1 : Compacted(old, ids, r)[k] = old[k + n - 1]
  <2>1. n \in 1..Len(old)
    OBVIOUS
  <2>2. Leading(old, ids, n)
    <3>1. ids = {old[k].id : k \in 1..n} /\ Len(old) \in Nat
      BY <1>1
    <3>2. \A j \in 1..Len(old) : j <= n <=> j \in 1..n
      BY <3>1
    <3>3. 1..n \subseteq 1..Len(old)
      BY <3>1
    <3> HIDE DEF old, ids
    <3> QED
      BY <3>1, <3>2, <3>3, <1>2 DEF Leading
  <2>3. old \in Seq(S) /\ r \in S
    BY <1>3
  <2> HIDE DEF old, ids, r, S
  <2> QED
    BY ONLY <2>1, <2>2, <2>3, CompactedRest
<1> HIDE DEF old, r
<1> QED
  BY <1>1, <1>4 DEF old, r

LEMMA RowShapeCompaction ==
    ASSUME NEW f \in Seq(Entry), IsTree(f), NEW i \in 1..Len(f),
           f[i].type = "compaction", RowShape(f, f[i].parent), EntryInOrder(f, i)
    PROVE  RowShape(f, i)
<1> DEFINE p == f[i].parent
           old == Rows(f, p)
           new == Rows(f, i)
<1>1. PICK n \in 1..Len(old) : f[i].replaces = {old[k].id : k \in 1..n}
  BY DEF EntryInOrder, FirstRows
<1>2. /\ Len(new) = Len(old) - n + 1 /\ new[1] = Row(i, Value(f, i))
      /\ \A k \in 2..Len(new) : new[k] = old[k + n - 1]
  BY <1>1, CompactionRows
<1>3. /\ p \in 0..i - 1 /\ old \in Seq(RowsTo(p)) /\ new \in Seq(RowsTo(i))
  BY RowsGrow
<1>4. Len(old) \in Nat /\ Len(new) \in Nat /\ i \in 0..Len(f) /\ p \in 0..Len(f) /\ n \in Nat /\ n >= 1
  BY <1>3
<1>5. /\ Path(f, i) = {i} \cup Path(f, p)
      /\ Path(f, p) \subseteq 1..p
  BY <1>4, PathSteps, PathFacts DEF PathShape
<1>6. new[1].id = i /\ new[1].message = Value(f, i) /\ Speaks(f[i])
  BY <1>2 DEF Row, Speaks
<1> HIDE DEF old, new, p
<1>7. \A k \in 1..Len(new) : k = 1 \/ (k \in 2..Len(new) /\ k + n - 1 \in n + 1..Len(old))
  <2> DEFINE a == Len(new)
             b == Len(old)
  <2>1. a = b - n + 1 /\ a \in Nat /\ b \in Nat /\ n \in Nat
    BY <1>2, <1>4
  <2> HIDE DEF a, b
  <2>2. \A k \in 1..a : k = 1 \/ (k \in 2..a /\ k + n - 1 \in n + 1..b)
    BY <2>1
  <2> QED
    BY <2>2 DEF a, b
<1>8. \A k \in 1..Len(new) : k # 1 => k + n - 1 \in 1..Len(old) /\ new[k] = old[k + n - 1]
  BY <1>2, <1>4, <1>7
<1>9. RowsSpeak(f, i)
  <2> SUFFICES ASSUME NEW k \in 1..Len(new)
               PROVE  /\ new[k].id \in Path(f, i) /\ Speaks(f[new[k].id])
                      /\ new[k].message = Value(f, new[k].id)
    BY DEF RowsSpeak, new
  <2>1. CASE k # 1
    <3> DEFINE j == k + n - 1
    <3>1. j \in 1..Len(old) /\ new[k] = old[j]
      BY <2>1, <1>8
    <3> HIDE DEF j
    <3>2. /\ old[j].id \in Path(f, p) /\ Speaks(f[old[j].id])
          /\ old[j].message = Value(f, old[j].id)
      BY <3>1 DEF RowShape, RowsSpeak, old, p
    <3> QED
      BY <3>1, <3>2, <1>5
  <2>2. CASE k = 1
    BY <2>2, <1>5, <1>6
  <2> QED
    BY <2>1, <2>2
<1>10. RowsAscend(f, i)
  <2> SUFFICES ASSUME NEW k \in 1..Len(new), NEW l \in 1..Len(new), k < l
               PROVE  /\ new[k].id # new[l].id
                      /\ f[new[l].id].type # "compaction"
                      /\ f[new[k].id].type = "compaction" \/ new[k].id < new[l].id
    BY DEF RowsAscend, new
  <2> DEFINE b == l + n - 1
  <2>1. b \in 1..Len(old) /\ new[l] = old[b] /\ n < b /\ l # 1
    BY <1>4, <1>8
  <2>2. CASE k = 1
    <3>1. f[old[b].id].type # "compaction"
      <4>1. 1 \in 1..Len(old) /\ 1 < b
        BY <2>1, <1>4
      <4> HIDE DEF b
      <4> QED
        BY <4>1, <2>1 DEF RowShape, RowsAscend, old, p
    <3>2. old[b].id \in 1..p
      <4> HIDE DEF b
      <4>1. old[b].id \in Path(f, p)
        BY <2>1 DEF RowShape, RowsSpeak, old, p
      <4> QED
        BY <4>1, <1>5
    <3>3. old[b].id # i
      BY <3>2, <1>3
    <3> HIDE DEF b
    <3> QED
      BY <3>1, <3>3, <2>1, <2>2, <1>6
  <2>3. CASE k # 1
    <3> DEFINE a == k + n - 1
    <3>1. a \in 1..Len(old) /\ new[k] = old[a] /\ a < b
      BY <2>3, <1>4, <1>8
    <3> HIDE DEF a, b
    <3> QED
      BY <3>1, <2>1 DEF RowShape, RowsAscend, old, p
  <2> QED
    BY <2>2, <2>3
<1>11. RowsAgain(f, i)
  <2> SUFFICES ASSUME NEW k \in 1..Len(new), f[new[k].id].type # "compaction"
               PROVE  \E h \in 0..1, d \in Nat : Again(f, i, k, h, d)
    BY DEF RowsAgain, new
  <2>1. k # 1
    BY <1>6
  <2> DEFINE a == k + n - 1
  <2>2. a \in 1..Len(old) /\ new[k] = old[a] /\ a \in Nat
    BY <2>1, <1>4, <1>8
  <2>3. PICK h \in 0..1, d \in Nat : Again(f, p, a, h, d)
    <3> HIDE DEF a
    <3> QED
      BY <2>2 DEF RowShape, RowsAgain, old, p
  <2>4. /\ a + d = Len(Rows(f, old[a].id))
        /\ \A l \in h + 1..a : old[l] = Rows(f, old[a].id)[l + d]
    BY <2>3 DEF Again, old
  <2>5. /\ k + (d + n - 1) = Len(Rows(f, new[k].id)) /\ d + n - 1 \in Nat
    <3>1. k + (d + n - 1) = a + d /\ d + n - 1 \in Nat
      BY <1>4
    <3> HIDE DEF a
    <3> QED
      BY <3>1, <2>2, <2>4
  <2>6. ASSUME NEW l \in 1 + 1..k
        PROVE  new[l] = Rows(f, new[k].id)[l + (d + n - 1)]
    <3> DEFINE b == l + n - 1
    <3>1. b \in h + 1..a /\ new[l] = old[b] /\ b + d = l + (d + n - 1)
      <4>1. l \in 1..Len(new) /\ l # 1
        BY <1>4
      <4>2. new[l] = old[b]
        BY <4>1, <1>8
      <4> QED
        BY <4>1, <4>2, <1>4
    <3>2. old[b] = Rows(f, old[a].id)[b + d]
      <4> HIDE DEF b, a
      <4> QED
        BY <3>1, <2>4
    <3> HIDE DEF a, b
    <3> QED
      BY <3>1, <3>2, <2>2
  <2>7. Again(f, i, k, 1, d + n - 1)
    <3> DEFINE e == d + n - 1
    <3>1. k + e = Len(Rows(f, new[k].id)) /\ \A l \in 1 + 1..k : new[l] = Rows(f, new[k].id)[l + e]
      BY <2>5, <2>6
    <3>2. f[new[1].id].type = "compaction"
      BY <1>6
    <3> HIDE DEF e
    <3>3. Again(f, i, k, 1, e)
      BY <3>1, <3>2 DEF Again, new
    <3> QED
      BY <3>3 DEF e
  <2> QED
    BY <2>5, <2>7
<1> QED
  BY <1>9, <1>10, <1>11 DEF RowShape

LEMMA RowShapes ==
    ASSUME NEW f \in Seq(Entry), IsTree(f), FileInOrder(f)
    PROVE  \A i \in 0..Len(f) : RowShape(f, i)
<1> DEFINE Bad == {m \in 0..Len(f) : ~RowShape(f, m)}
<1> SUFFICES ASSUME Bad # {} PROVE FALSE
  OBVIOUS
<1>1. PICK m \in Bad : \A y \in Bad : m <= y
  <2>1. Bad \subseteq Nat
    OBVIOUS
  <2> HIDE DEF Bad
  <2> QED
    BY <2>1, Least
<1>2. m \in 0..Len(f) /\ Len(f) \in Nat /\ ~RowShape(f, m)
  BY <1>1
<1>3. m # 0
  <2>1. Rows(f, 0) = <<>>
    BY <1>2, ReplaySteps
  <2>2. Len(Rows(f, 0)) = 0
    BY <2>1
  <2>3. RowShape(f, 0)
    BY <2>2 DEF RowShape, RowsSpeak, RowsAscend, RowsAgain
  <2> QED
    BY <2>3, <1>2
<1> DEFINE p == f[m].parent
<1>4. p \in 0..m - 1 /\ p \in 0..Len(f) /\ m \in 1..Len(f)
  BY <1>2, <1>3 DEF IsTree
<1>5. RowShape(f, p)
  <2>1. ~(m <= p)
    BY <1>2, <1>4
  <2> HIDE DEF p
  <2> QED
    BY <2>1, <1>1, <1>4
<1>6. EntryInOrder(f, m)
  BY <1>4 DEF FileInOrder
<1>7. CASE f[m].type \in {"message", "branch_summary"}
  BY <1>7, <1>4, <1>5, <1>2, RowShapeAppend
<1>8. CASE f[m].type = "compaction"
  BY <1>8, <1>4, <1>5, <1>6, <1>2, RowShapeCompaction
<1>9. CASE ~Speaks(f[m])
  <2>1. Rows(f, m) = Rows(f, p)
    BY <1>4, <1>9, RowsGrow
  <2>2. Path(f, p) \subseteq Path(f, m)
    <3>1. Path(f, m) = {m} \cup Path(f, p)
      BY <1>2, <1>3, PathSteps
    <3> QED
      BY <3>1
  <2> HIDE DEF p
  <2>3. RowsSpeak(f, m) /\ RowsAscend(f, m)
    BY <2>1, <2>2, <1>5 DEF RowShape, RowsSpeak, RowsAscend
  <2>4. RowsAgain(f, m)
    <3>1. \A k, h, d : Again(f, p, k, h, d) => Again(f, m, k, h, d)
      BY <2>1 DEF Again
    <3> QED
      BY <3>1, <2>1, <1>5 DEF RowShape, RowsAgain
  <2> QED
    BY <2>3, <2>4, <1>2 DEF RowShape
<1> QED
  BY <1>7, <1>8, <1>9 DEF Speaks

-----------------------------------------------------------------------------
(* The transcript of a path.                                               *)

LEMMA Kinds ==
    ASSUME NEW n, NEW c
    PROVE  /\ Summary(n).kind = "user" /\ IsSummary(Summary(n)) /\ CallsOf(Summary(n)) = {}
           /\ Result(c).kind = "result" /\ Result(c).call = c /\ ~IsSummary(Result(c))
           /\ CallsOf(Result(c)) = {} /\ Summary(n) # Result(c)
<1>1. Summary(n).kind = "user" /\ Result(c).kind = "result" /\ Result(c).call = c
  BY DEF Summary, Result
<1>2. IsSummary(Summary(n)) /\ ~IsSummary(Result(c))
  BY DEF Summary, Result, IsSummary
<1>3. CallsOf(Summary(n)) = {} /\ CallsOf(Result(c)) = {}
  BY <1>1 DEF CallsOf
<1>4. Summary(n) # Result(c)
  BY <1>1
<1> QED
  BY <1>1, <1>2, <1>3, <1>4

\* What an entry says is in Said below it.
LEMMA SaidHolds ==
    ASSUME NEW f, NEW i, NEW j \in Path(f, i), Speaks(f[j])
    PROVE  Value(f, j) \in Said(f, i)
  BY DEF Said

\* Entries of one path say different things.
LEMMA ValuesDiffer ==
    ASSUME NEW f \in Seq(Entry), IsTree(f), FileInOrder(f), NEW i \in 0..Len(f),
           NEW y \in Path(f, i), NEW z \in Path(f, i), y < z, Speaks(f[y])
    PROVE  /\ z \in 1..Len(f) /\ Value(f, y) \in Said(f, f[z].parent)
           /\ Speaks(f[z]) => Value(f, y) # Value(f, z)
<1>1. Path(f, i) \subseteq 1..i /\ y \in Path(f, f[z].parent)
  BY PathFacts DEF PathShape
<1>2. z \in 1..Len(f)
  BY <1>1
<1>3. Value(f, y) \in Said(f, f[z].parent)
  BY <1>1, SaidHolds
<1>4. EntryInOrder(f, z)
  BY <1>2 DEF FileInOrder
<1> QED
  BY <1>2, <1>3, <1>4 DEF EntryInOrder

LEMMA TranscriptRows ==
    ASSUME NEW f \in Seq(Entry), IsTree(f), FileInOrder(f), NEW i \in 0..Len(f)
    PROVE  LET rs == Rows(f, i)
               s  == Transcript(f, i)
           IN  /\ rs \in Seq(RowsTo(i)) /\ s \in Seq(Message) /\ Len(s) = Len(rs) /\ Len(s) \in Nat
               /\ \A k \in 1..Len(s) : /\ s[k] = rs[k].message /\ s[k] = Value(f, rs[k].id)
                                       /\ rs[k].id \in 1..i /\ rs[k].id \in Path(f, i)
                                       /\ Speaks(f[rs[k].id]) /\ s[k] \in Said(f, i)
<1> DEFINE rs == Rows(f, i)
           s  == Transcript(f, i)
<1>1. rs \in Seq(RowsTo(i))
  BY RowsTyped
<1>2. /\ s \in Seq(Message) /\ Len(s) = Len(rs)
      /\ \A k \in 1..Len(rs) : s[k] = rs[k].message
  BY <1>1, MessagesTyped DEF Transcript
<1>3. RowsSpeak(f, i)
  BY RowShapes DEF RowShape
<1>4. Path(f, i) \subseteq 1..i
  BY PathFacts DEF PathShape
<1>5. ASSUME NEW k \in 1..Len(s)
      PROVE  /\ s[k] = rs[k].message /\ s[k] = Value(f, rs[k].id)
             /\ rs[k].id \in 1..i /\ rs[k].id \in Path(f, i)
             /\ Speaks(f[rs[k].id]) /\ s[k] \in Said(f, i)
  <2>1. /\ rs[k].id \in Path(f, i) /\ Speaks(f[rs[k].id])
        /\ rs[k].message = Value(f, rs[k].id) /\ s[k] = rs[k].message
    BY <1>2, <1>3 DEF RowsSpeak
  <2>2. s[k] \in Said(f, i)
    BY <2>1, SaidHolds
  <2> QED
    BY <2>1, <2>2, <1>4
<1> QED
  BY <1>1, <1>2, <1>5

LEMMA TranscriptDistinct ==
    ASSUME NEW f \in Seq(Entry), IsTree(f), FileInOrder(f), NEW i \in 0..Len(f)
    PROVE  Distinct(Transcript(f, i))
<1> DEFINE rs == Rows(f, i)
           s  == Transcript(f, i)
<1>1. /\ DOMAIN s = 1..Len(s) /\ Len(s) \in Nat /\ Len(s) = Len(rs)
      /\ \A k \in 1..Len(s) : /\ s[k] = Value(f, rs[k].id) /\ rs[k].id \in Path(f, i)
                              /\ Speaks(f[rs[k].id]) /\ rs[k].id \in 1..i
  BY TranscriptRows
<1>2. RowsAscend(f, i)
  BY RowShapes DEF RowShape
<1>3. ASSUME NEW k \in 1..Len(s), NEW l \in 1..Len(s), k < l
      PROVE  s[k] # s[l]
  <2> DEFINE y == rs[k].id
             z == rs[l].id
  <2>1. y # z /\ y \in Nat /\ z \in Nat
    BY <1>1, <1>2, <1>3 DEF RowsAscend
  <2>2. /\ y \in Path(f, i) /\ z \in Path(f, i) /\ Speaks(f[y]) /\ Speaks(f[z])
        /\ s[k] = Value(f, y) /\ s[l] = Value(f, z)
    BY <1>1
  <2> HIDE DEF y, z, rs, s
  <2>3. CASE y < z
    BY <2>2, <2>3, ValuesDiffer
  <2>4. CASE z < y
    BY <2>2, <2>4, ValuesDiffer
  <2> QED
    BY <2>1, <2>3, <2>4
<1> SUFFICES ASSUME NEW k \in 1..Len(s), NEW l \in 1..Len(s), s[k] = s[l] PROVE k = l
  BY <1>1 DEF Distinct
<1>4. k < l \/ l < k \/ k = l
  BY <1>1
<1> HIDE DEF s
<1> QED
  BY <1>3, <1>4

LEMMA TranscriptResults ==
    ASSUME NEW f \in Seq(Entry), IsTree(f), FileInOrder(f), NEW i \in 0..Len(f)
    PROVE  ResultsAfter(Transcript(f, i))
<1> DEFINE rs == Rows(f, i)
           s  == Transcript(f, i)
<1>1. /\ DOMAIN s = 1..Len(s) /\ Len(s) \in Nat /\ Len(s) = Len(rs)
      /\ \A k \in 1..Len(s) : /\ s[k] = Value(f, rs[k].id) /\ rs[k].id \in Path(f, i)
                              /\ Speaks(f[rs[k].id]) /\ rs[k].id \in 1..i
  BY TranscriptRows
<1>2. RowsAscend(f, i)
  BY RowShapes DEF RowShape
<1> SUFFICES ASSUME NEW a \in 1..Len(s), NEW b \in 1..Len(s), NEW c \in CallsOf(s[a]),
                    s[b] = Result(c), ~(a < b)
             PROVE  FALSE
  BY <1>1 DEF ResultsAfter
<1> DEFINE y == rs[a].id
           x == rs[b].id
<1>3. s[a] = Value(f, y) /\ s[b] = Value(f, x) /\ y \in 1..i /\ x \in 1..i
  BY <1>1
<1>4. f[y].type = "message"
  <2>1. CallsOf(Value(f, y)) # {}
    BY <1>3
  <2>2. CallsOf(Summary(y)) = {}
    BY Kinds
  <2> QED
    BY ONLY <2>1, <2>2 DEF Value
<1>5. f[x].type = "message"
  <2>1. Value(f, x) = Result(c)
    BY <1>3
  <2>2. Summary(x) # Result(c)
    BY Kinds
  <2> QED
    BY ONLY <2>1, <2>2 DEF Value
<1>6. a # b
  BY Kinds
<1>7. b < a
  BY <1>6, <1>1
<1>8. x < y
  <2>1. f[x].type = "compaction" \/ x < y
    BY <1>7, <1>1, <1>2 DEF RowsAscend
  <2> QED
    BY <2>1, <1>5
<1>9. x \in Path(f, i) /\ y \in Path(f, i) /\ Speaks(f[x])
  BY <1>1
<1> HIDE DEF x, y, rs, s
<1>10. y \in 1..Len(f) /\ Value(f, x) \in Said(f, f[y].parent)
  BY <1>8, <1>9, ValuesDiffer
<1>11. EntryInOrder(f, y) /\ Value(f, y) = f[y].message
  BY <1>4, <1>10 DEF FileInOrder, Value
<1> QED
  BY <1>3, <1>4, <1>10, <1>11 DEF EntryInOrder

\* A call whose result is on the path has it in the transcript, if the transcript
\* still holds the call.
RowsStay(f, i) ==
    \A a \in 1..Len(Rows(f, i)) : \A c \in CallsOf(Rows(f, i)[a].message) :
        Result(c) \in Said(f, i) =>
            \E b \in 1..Len(Rows(f, i)) : Rows(f, i)[b].message = Result(c)

LEMMA RowsStayAppend ==
    ASSUME NEW f \in Seq(Entry), IsTree(f), FileInOrder(f), NEW i \in 1..Len(f),
           f[i].type \in {"message", "branch_summary"}, RowsStay(f, f[i].parent)
    PROVE  RowsStay(f, i)
<1> DEFINE p == f[i].parent
           old == Rows(f, p)
           new == Rows(f, i)
           n == Len(old)
           v == Value(f, i)
<1>1. /\ p \in 0..i - 1 /\ old \in Seq(RowsTo(p)) /\ new \in Seq(RowsTo(i))
      /\ Len(new) = n + 1 /\ \A k \in 1..n : new[k] = old[k]
      /\ new[n + 1] = Row(i, v)
  BY RowsGrow
<1>2. n \in Nat /\ n + 1 \in 1..Len(new) /\ 1..n \subseteq 1..Len(new)
  BY <1>1
<1>3. new[n + 1].message = v
  BY <1>1 DEF Row
<1>4. Said(f, i) = Said(f, p) \cup {v}
  BY SaidSteps DEF Speaks
<1>5. EntryInOrder(f, i)
  BY DEF FileInOrder
<1>6. \A a \in 1..n : \A c \in CallsOf(old[a].message) : Result(c) \in Said(f, p) =>
         \E b \in 1..n : old[b].message = Result(c)
  BY DEF RowsStay
<1>7. ASSUME NEW c \in CallsOf(v)
      PROVE  Result(c) \notin Said(f, i)
  <2>1. f[i].type = "message" /\ v = f[i].message
    BY Kinds DEF Value
  <2>2. Result(c) \notin Said(f, p)
    BY <2>1, <1>5 DEF EntryInOrder
  <2>3. Result(c) # v
    <3>1. CallsOf(Result(c)) = {}
      BY Kinds
    <3> QED
      BY <3>1
  <2> QED
    BY <2>2, <2>3, <1>4
<1> HIDE DEF n, old, new, v
<1> SUFFICES ASSUME NEW a \in 1..Len(new), NEW c \in CallsOf(new[a].message),
                    Result(c) \in Said(f, i)
             PROVE  \E b \in 1..Len(new) : new[b].message = Result(c)
  BY DEF RowsStay, new
<1>8. a \in 1..n \/ a = n + 1
  BY <1>1, <1>2
<1>9. a # n + 1
  BY <1>3, <1>7
<1>10. new[a] = old[a] /\ a \in 1..n
  BY <1>8, <1>9, <1>1
<1>11. CASE Result(c) = v
  BY <1>11, <1>2, <1>3
<1>12. CASE Result(c) \in Said(f, p)
  <2>1. PICK b \in 1..n : old[b].message = Result(c)
    BY <1>6, <1>10, <1>12
  <2> QED
    BY <2>1, <1>1, <1>2
<1> QED
  BY <1>4, <1>11, <1>12

LEMMA RowsStayCompaction ==
    ASSUME NEW f \in Seq(Entry), IsTree(f), FileInOrder(f), NEW i \in 1..Len(f),
           f[i].type = "compaction", RowsStay(f, f[i].parent)
    PROVE  RowsStay(f, i)
<1> DEFINE p == f[i].parent
           old == Rows(f, p)
           new == Rows(f, i)
<1>1. EntryInOrder(f, i) /\ p \in 0..Len(f) /\ Len(f) \in Nat
  BY DEF FileInOrder, IsTree
<1>2. PICK n \in 1..Len(old) : f[i].replaces = {old[k].id : k \in 1..n}
  BY <1>1 DEF EntryInOrder, FirstRows
<1>3. RowShape(f, p)
  BY <1>1, RowShapes
<1>4. /\ Len(new) = Len(old) - n + 1 /\ new[1] = Row(i, Value(f, i))
      /\ \A k \in 2..Len(new) : new[k] = old[k + n - 1]
  BY <1>2, <1>3, CompactionRows
<1>5. old \in Seq(RowsTo(p)) /\ new \in Seq(RowsTo(i))
  BY RowsGrow
<1>6. Len(old) \in Nat /\ Len(new) \in Nat /\ n \in Nat /\ n >= 1 /\ n <= Len(old)
  BY <1>5
<1>7. new[1].message = Summary(i)
  BY <1>4 DEF Row, Value
<1>8. Said(f, i) = Said(f, p) \cup {Summary(i)}
  BY SaidSteps DEF Speaks, Value
<1>9. \A a \in 1..Len(old) : \A c \in CallsOf(old[a].message) : Result(c) \in Said(f, p) =>
         \E b \in 1..Len(old) : old[b].message = Result(c)
  BY DEF RowsStay
<1>10. \A a, b \in 1..Len(old) : \A c \in CallsOf(old[a].message) :
          old[b].message = Result(c) => a < b
  <2>1. ResultsAfter(Transcript(f, p))
    BY <1>1, TranscriptResults
  <2>2. /\ Len(Transcript(f, p)) = Len(old) /\ DOMAIN Transcript(f, p) = 1..Len(old)
        /\ \A k \in 1..Len(old) : Transcript(f, p)[k] = old[k].message
    <3> HIDE DEF p
    <3>1. LET rs == Rows(f, p)
              s  == Transcript(f, p)
          IN  /\ rs \in Seq(RowsTo(p)) /\ s \in Seq(Message) /\ Len(s) = Len(rs) /\ Len(s) \in Nat
              /\ \A j \in 1..Len(s) : s[j] = rs[j].message
      BY <1>1, TranscriptRows
    <3> QED
      BY <3>1
  <2> HIDE DEF old
  <2> QED
    BY <2>1, <2>2 DEF ResultsAfter
<1> HIDE DEF old, new
<1> SUFFICES ASSUME NEW a \in 1..Len(new), NEW c \in CallsOf(new[a].message),
                    Result(c) \in Said(f, i)
             PROVE  \E b \in 1..Len(new) : new[b].message = Result(c)
  BY DEF RowsStay, new
<1>11. a # 1
  BY <1>7, Kinds
<1> DEFINE k == a + n - 1
<1>12. k \in 1..Len(old) /\ new[a] = old[k] /\ n < k
  <2>1. a \in 2..Len(new)
    BY <1>11, <1>6
  <2>2. new[a] = old[k]
    BY <2>1, <1>4
  <2>3. Len(new) = Len(old) - n + 1
    BY <1>4
  <2>4. k \in 1..Len(old) /\ n < k
    BY ONLY <2>1, <2>3, <1>6
  <2> QED
    BY <2>2, <2>4
<1> HIDE DEF k
<1>13. Result(c) \in Said(f, p)
  BY <1>8, Kinds
<1>14. PICK b \in 1..Len(old) : old[b].message = Result(c)
  BY <1>9, <1>12, <1>13
<1>15. k < b
  BY <1>10, <1>12, <1>14
<1> DEFINE e == b - n + 1
<1>16. e \in 2..Len(new) /\ e + n - 1 = b
  <2>1. Len(new) = Len(old) - n + 1 /\ k \in Nat /\ b \in 1..Len(old)
    BY <1>4, <1>12, <1>14
  <2> QED
    BY ONLY <2>1, <1>6, <1>12, <1>15
<1>17. new[e] = old[b]
  <2> HIDE DEF e
  <2> QED
    BY <1>4, <1>16
<1>18. e \in 1..Len(new)
  BY <1>16
<1> HIDE DEF e
<1> QED
  BY <1>14, <1>17, <1>18

LEMMA RowsStayAll ==
    ASSUME NEW f \in Seq(Entry), IsTree(f), FileInOrder(f)
    PROVE  \A i \in 0..Len(f) : RowsStay(f, i)
<1> DEFINE Bad == {m \in 0..Len(f) : ~RowsStay(f, m)}
<1> SUFFICES ASSUME Bad # {} PROVE FALSE
  OBVIOUS
<1>1. PICK m \in Bad : \A y \in Bad : m <= y
  <2>1. Bad \subseteq Nat
    OBVIOUS
  <2> HIDE DEF Bad
  <2> QED
    BY <2>1, Least
<1>2. m \in 0..Len(f) /\ Len(f) \in Nat /\ ~RowsStay(f, m)
  BY <1>1
<1>3. m # 0
  <2>1. Rows(f, 0) = <<>>
    BY <1>2, ReplaySteps
  <2>2. Len(Rows(f, 0)) = 0
    BY <2>1
  <2>3. RowsStay(f, 0)
    BY <2>2 DEF RowsStay
  <2> QED
    BY <2>3, <1>2
<1> DEFINE p == f[m].parent
<1>4. p \in 0..m - 1 /\ p \in 0..Len(f) /\ m \in 1..Len(f)
  BY <1>2, <1>3 DEF IsTree
<1>5. RowsStay(f, p)
  <2>1. ~(m <= p)
    BY <1>2, <1>4
  <2> HIDE DEF p
  <2> QED
    BY <2>1, <1>1, <1>4
<1>6. CASE f[m].type \in {"message", "branch_summary"}
  BY <1>6, <1>4, <1>5, <1>2, RowsStayAppend
<1>7. CASE f[m].type = "compaction"
  BY <1>7, <1>4, <1>5, <1>2, RowsStayCompaction
<1>8. CASE ~Speaks(f[m])
  <2>1. Rows(f, m) = Rows(f, p)
    BY <1>4, <1>8, RowsGrow
  <2>2. Said(f, m) = Said(f, p)
    <3>1. Said(f, m) = Said(f, p) \cup IF Speaks(f[m]) THEN {Value(f, m)} ELSE {}
      BY <1>4, SaidSteps
    <3> QED
      BY <3>1, <1>8
  <2> HIDE DEF p
  <2> QED
    BY <2>1, <2>2, <1>5, <1>2 DEF RowsStay
<1> QED
  BY <1>6, <1>7, <1>8 DEF Speaks

\* All of it, for the transcript of an entry.
TranscriptInOrder(s, said) ==
    /\ Distinct(s) /\ ResultsAfter(s)
    /\ \A k \in DOMAIN s : s[k] \in said
    /\ \A c \in Asked(s) : Result(c) \in said => \E b \in DOMAIN s : s[b] = Result(c)

LEMMA TranscriptOrder ==
    ASSUME NEW f \in Seq(Entry), IsTree(f), FileInOrder(f), NEW i \in 0..Len(f)
    PROVE  TranscriptInOrder(Transcript(f, i), Said(f, i))
<1> DEFINE rs == Rows(f, i)
           s  == Transcript(f, i)
<1>1. /\ DOMAIN s = 1..Len(s) /\ Len(s) = Len(rs)
      /\ \A k \in 1..Len(s) : s[k] = rs[k].message /\ s[k] \in Said(f, i)
  BY TranscriptRows
<1>2. Distinct(s) /\ ResultsAfter(s)
  BY TranscriptDistinct, TranscriptResults
<1>3. RowsStay(f, i)
  BY RowsStayAll
<1>4. ASSUME NEW c \in Asked(s), Result(c) \in Said(f, i)
      PROVE  \E b \in DOMAIN s : s[b] = Result(c)
  <2> HIDE DEF s, rs
  <2>1. PICK a \in DOMAIN s : c \in CallsOf(s[a])
    BY DEF Asked
  <2>2. PICK b \in 1..Len(rs) : rs[b].message = Result(c)
    BY <2>1, <1>1, <1>3, <1>4 DEF RowsStay, rs
  <2> QED
    BY <2>2, <1>1
<1> QED
  BY <1>1, <1>2, <1>4 DEF TranscriptInOrder

-----------------------------------------------------------------------------
(* Messages that are written below each other.                             *)

Continues(f, g) ==
    /\ f \in Seq(Entry) /\ IsTree(f) /\ g \in Seq(Entry) /\ IsTree(g)
    /\ Len(f) <= Len(g) /\ \A i \in 1..Len(f) : g[i] = f[i]

\* g is f with the messages ms below entry node[0], each below the one before.
Chained(f, g, node, ms) ==
    /\ Continues(f, g) /\ ms \in Seq(Message) /\ node[0] \in 0..Len(f)
    /\ \A j \in 1..Len(ms) : /\ node[j] \in Len(f) + 1..Len(g)
                             /\ g[node[j]] = MessageEntry(node[j - 1], ms[j])
    /\ \A i \in Len(f) + 1..Len(g) : (\E j \in 1..Len(ms) : i = node[j]) \/ ~Speaks(g[i])

LEMMA ChainLink ==
    ASSUME NEW f, NEW g, NEW node, NEW ms, Chained(f, g, node, ms), NEW j \in 1..Len(ms)
    PROVE  /\ node[j] \in 1..Len(g) /\ node[j] > Len(f) /\ ms[j] \in Message
           /\ g[node[j]].type = "message" /\ g[node[j]].parent = node[j - 1]
           /\ g[node[j]].message = ms[j] /\ Speaks(g[node[j]]) /\ Value(g, node[j]) = ms[j]
           /\ node[j - 1] \in 0..Len(g)
<1>1. /\ f \in Seq(Entry) /\ g \in Seq(Entry) /\ IsTree(g) /\ ms \in Seq(Message)
      /\ Len(f) \in Nat /\ Len(g) \in Nat
  BY DEF Chained, Continues
<1>2. node[j] \in Len(f) + 1..Len(g) /\ g[node[j]] = MessageEntry(node[j - 1], ms[j])
  BY DEF Chained
<1>3. node[j] \in 1..Len(g) /\ node[j] > Len(f) /\ ms[j] \in Message
  BY <1>1, <1>2
<1>4. /\ g[node[j]].type = "message" /\ g[node[j]].parent = node[j - 1]
      /\ g[node[j]].message = ms[j]
  BY <1>2 DEF MessageEntry
<1>5. node[j - 1] \in 0..Len(g)
  BY <1>1, <1>3, <1>4 DEF IsTree
<1> QED
  BY <1>3, <1>4, <1>5 DEF Speaks, Value

LEMMA ChainSaid ==
    ASSUME NEW f, NEW g, NEW node, NEW ms, Chained(f, g, node, ms)
    PROVE  \A j \in 0..Len(ms) : Said(g, node[j]) = Said(f, node[0]) \cup {ms[k] : k \in 1..j}
<1> DEFINE T == {j \in 1..Len(ms) : Said(g, node[j]) = Said(f, node[0]) \cup {ms[k] : k \in 1..j}}
           n == Len(ms)
<1>1. /\ Continues(f, g) /\ n \in Nat /\ node[0] \in 0..Len(f)
  BY DEF Chained
<1>2. Said(g, node[0]) = Said(f, node[0])
  BY <1>1, SaidPrefix DEF Continues
<1>3. ASSUME NEW j \in 1..n
      PROVE  Said(g, node[j]) = Said(g, node[j - 1]) \cup {ms[j]}
  <2>1. /\ node[j] \in 1..Len(g) /\ g[node[j]].parent = node[j - 1]
        /\ Speaks(g[node[j]]) /\ Value(g, node[j]) = ms[j]
    BY ChainLink
  <2>2. g \in Seq(Entry) /\ IsTree(g)
    BY <1>1 DEF Continues
  <2>3. Said(g, node[j]) = Said(g, g[node[j]].parent)
                             \cup IF Speaks(g[node[j]]) THEN {Value(g, node[j])} ELSE {}
    BY <2>1, <2>2, SaidSteps
  <2> QED
    BY <2>1, <2>3
<1> HIDE DEF n
<1>4. ASSUME NEW j \in 1..n, j = 1 \/ j - 1 \in T
      PROVE  Said(g, node[j]) = Said(f, node[0]) \cup {ms[k] : k \in 1..j}
  <2>1. Said(g, node[j - 1]) = Said(f, node[0]) \cup {ms[k] : k \in 1..j - 1}
    <3>1. CASE j = 1
      <4>1. j - 1 = 0 /\ 1..j - 1 = {}
        BY <3>1
      <4> QED
        BY <4>1, <1>2
    <3>2. CASE j # 1
      BY <3>2, <1>4
    <3> QED
      BY <3>1, <3>2
  <2>2. 1..j = 1..j - 1 \cup {j}
    BY <1>1
  <2>3. {ms[k] : k \in 1..j} = {ms[k] : k \in 1..j - 1} \cup {ms[j]}
    BY <2>2
  <2> QED
    BY <2>1, <2>3, <1>3
<1>5. 1..n \subseteq T
  <2>1. \A j \in 1..n : j = 1 \/ j - 1 \in T => j \in T
    BY <1>4 DEF n
  <2> HIDE DEF T
  <2> QED
    BY <2>1, <1>1, Climb
<1> SUFFICES ASSUME NEW j \in 0..n
             PROVE  Said(g, node[j]) = Said(f, node[0]) \cup {ms[k] : k \in 1..j}
  BY DEF n
<1>6. CASE j = 0
  <2>1. 1..j = {}
    BY <1>6
  <2> QED
    BY <2>1, <1>2, <1>6
<1>7. CASE j # 0
  <2>1. j \in T
    BY <1>5, <1>7, <1>1
  <2> QED
    BY <2>1
<1> QED
  BY <1>6, <1>7

LEMMA ChainTranscript ==
    ASSUME NEW f, NEW g, NEW node, NEW ms, Chained(f, g, node, ms)
    PROVE  \A j \in 0..Len(ms) :
              LET old == Transcript(f, node[0])
                  s   == Transcript(g, node[j])
              IN  /\ s \in Seq(Message) /\ Len(s) = Len(old) + j
                  /\ \A k \in 1..Len(old) : s[k] = old[k]
                  /\ \A k \in 1..j : s[Len(old) + k] = ms[k]
<1> DEFINE old == Transcript(f, node[0])
           Good(j) == LET s == Transcript(g, node[j])
                      IN  /\ s \in Seq(Message) /\ Len(s) = Len(old) + j
                          /\ \A k \in 1..Len(old) : s[k] = old[k]
                          /\ \A k \in 1..j : s[Len(old) + k] = ms[k]
           T == {j \in 1..Len(ms) : Good(j)}
           n == Len(ms)
<1>1. /\ Continues(f, g) /\ n \in Nat /\ node[0] \in 0..Len(f)
  BY DEF Chained
<1>2. old \in Seq(Message) /\ Transcript(g, node[0]) = old /\ Len(old) \in Nat
  <2>1. f \in Seq(Entry) /\ IsTree(f)
    BY <1>1 DEF Continues
  <2>2. old \in Seq(Message)
    BY <2>1, <1>1, TranscriptTyped
  <2>3. Rows(g, node[0]) = Rows(f, node[0])
    BY <1>1, RowsPrefix DEF Continues
  <2>4. Transcript(g, node[0]) = old
    BY <2>3 DEF Transcript
  <2> HIDE DEF old
  <2> QED
    BY <2>2, <2>4
<1>3. ASSUME NEW j \in 1..n
      PROVE  Transcript(g, node[j]) = Append(Transcript(g, node[j - 1]), ms[j])
  <2>1. /\ node[j] \in 1..Len(g) /\ g[node[j]].parent = node[j - 1]
        /\ g[node[j]].type = "message" /\ g[node[j]].message = ms[j]
    BY ChainLink
  <2>2. g \in Seq(Entry) /\ IsTree(g)
    BY <1>1 DEF Continues
  <2>3. Transcript(g, node[j]) = Append(Transcript(g, g[node[j]].parent), g[node[j]].message)
    BY <2>1, <2>2, MessageRow
  <2> QED
    BY <2>1, <2>3
<1> HIDE DEF n, old
<1>4. ASSUME NEW j \in 1..n, Good(j - 1)
      PROVE  Good(j)
  <2> DEFINE s == Transcript(g, node[j - 1])
             m == ms[j]
             t == Transcript(g, node[j])
  <2>1. /\ s \in Seq(Message) /\ Len(s) = Len(old) + (j - 1)
        /\ \A k \in 1..Len(old) : s[k] = old[k]
        /\ \A k \in 1..j - 1 : s[Len(old) + k] = ms[k]
    BY <1>4
  <2>2. m \in Message
    BY ChainLink DEF n
  <2>3. t = Append(s, m)
    BY <1>3
  <2> HIDE DEF s, m, t
  <2>4. /\ Append(s, m) \in Seq(Message) /\ Len(Append(s, m)) = Len(s) + 1
        /\ \A k \in 1..Len(s) : Append(s, m)[k] = s[k]
        /\ Append(s, m)[Len(s) + 1] = m
    <3>1. s \in Seq(Message) /\ m \in Message
      BY <2>1, <2>2
    <3> QED
      BY ONLY <3>1, AppendProperties
  <2>5. Len(s) + 1 = Len(old) + j /\ j \in Nat
    BY <2>1, <1>1, <1>2
  <2>6. 1..Len(old) \subseteq 1..Len(s) /\ \A k \in 1..j - 1 : Len(old) + k \in 1..Len(s)
    BY <2>1, <1>1, <1>2
  <2>7. t \in Seq(Message) /\ Len(t) = Len(old) + j
    BY <2>3, <2>4, <2>5
  <2>8. \A k \in 1..Len(old) : t[k] = old[k]
    BY <2>1, <2>3, <2>4, <2>6
  <2>9. \A k \in 1..j : t[Len(old) + k] = ms[k]
    <3> SUFFICES ASSUME NEW k \in 1..j PROVE t[Len(old) + k] = ms[k]
      OBVIOUS
    <3>1. CASE k = j
      BY <3>1, <2>3, <2>4, <2>5 DEF m
    <3>2. CASE k # j
      <4>1. k \in 1..j - 1
        BY <3>2, <2>5
      <4>2. Append(s, m)[Len(old) + k] = s[Len(old) + k]
        BY <4>1, <2>4, <2>6
      <4> QED
        BY <4>1, <4>2, <2>1, <2>3
    <3> QED
      BY <3>1, <3>2
  <2> QED
    BY <2>7, <2>8, <2>9 DEF t
<1>5. Good(0)
  <2>1. 1..0 = {} /\ Len(old) + 0 = Len(old)
    BY <1>2
  <2> QED
    BY <2>1, <1>2
<1>6. 1..n \subseteq T
  <2>1. \A j \in 1..n : j = 1 \/ j - 1 \in T => j \in T
    <3> SUFFICES ASSUME NEW j \in 1..n, j = 1 \/ j - 1 \in T PROVE j \in T
      OBVIOUS
    <3>1. Good(j - 1)
      <4>1. j = 1 => j - 1 = 0
        OBVIOUS
      <4> HIDE DEF Good
      <4> QED
        BY <4>1, <1>5
    <3>2. Good(j)
      <4> HIDE DEF Good
      <4> QED
        BY <3>1, <1>4
    <3> HIDE DEF Good
    <3> QED
      BY <3>2 DEF n
  <2> HIDE DEF T
  <2> QED
    BY <2>1, <1>1, Climb
<1> SUFFICES ASSUME NEW j \in 0..n PROVE Good(j)
  BY DEF n, old
<1>7. j = 0 \/ j \in 1..n
  BY <1>1
<1> HIDE DEF Good
<1> QED
  BY <1>5, <1>6, <1>7

\* What may follow the messages said on a path.
MayFollow(ms, said, n) ==
    /\ Distinct(ms) /\ ResultsAfter(ms)
    /\ \A j \in DOMAIN ms :
          /\ ms[j] \notin said
          /\ \A c \in CallsOf(ms[j]) : Result(c) \notin said
          /\ IsSummary(ms[j]) => ms[j].summarizes \in 1..n

LEMMA ChainOrder ==
    ASSUME NEW f, NEW g, NEW node, NEW ms, Chained(f, g, node, ms),
           FileInOrder(f), MayFollow(ms, Said(f, node[0]), Len(f))
    PROVE  FileInOrder(g)
<1> DEFINE n == Len(ms)
           said == Said(f, node[0])
<1>1. Continues(f, g) /\ DOMAIN ms = 1..n /\ n \in Nat /\ Len(f) \in Nat
  BY DEF Chained, Continues
<1>2. ASSUME NEW j \in 1..n
      PROVE  EntryInOrder(g, node[j])
  <2> DEFINE i == node[j]
             m == ms[j]
  <2>1. /\ i > Len(f) /\ i \in Nat /\ g[i].type = "message" /\ g[i].parent = node[j - 1]
        /\ g[i].message = m /\ Value(g, i) = m
    <3>1. Len(g) \in Nat
      BY <1>1 DEF Continues
    <3> QED
      BY <3>1, ChainLink
  <2>2. Said(g, node[j - 1]) = said \cup {ms[k] : k \in 1..j - 1}
    <3>1. j - 1 \in 0..Len(ms)
      BY <1>1
    <3> QED
      BY <3>1, ChainSaid
  <2>3. /\ m \notin said
        /\ \A c \in CallsOf(m) : Result(c) \notin said
        /\ IsSummary(m) => m.summarizes \in 1..Len(f)
    BY <1>1 DEF MayFollow
  <2>4. \A k \in 1..j - 1 : ms[k] # m /\ \A c \in CallsOf(m) : Result(c) # ms[k]
    <3> SUFFICES ASSUME NEW k \in 1..j - 1
                 PROVE  ms[k] # m /\ \A c \in CallsOf(m) : Result(c) # ms[k]
      OBVIOUS
    <3>1. k \in DOMAIN ms /\ j \in DOMAIN ms /\ k # j /\ ~(j < k)
      BY <1>1
    <3> QED
      BY <3>1 DEF MayFollow, Distinct, ResultsAfter
  <2> HIDE DEF i, m, said
  <2>5. m \notin Said(g, node[j - 1]) /\ \A c \in CallsOf(m) : Result(c) \notin Said(g, node[j - 1])
    BY <2>2, <2>3, <2>4
  <2>6. IsSummary(m) => m.summarizes < i
    BY <2>1, <2>3, <1>1
  <2> QED
    BY <2>1, <2>5, <2>6 DEF EntryInOrder, i
<1>3. ASSUME NEW i \in Len(f) + 1..Len(g)
      PROVE  EntryInOrder(g, i)
  <2>1. CASE Speaks(g[i])
    <3>1. PICK j \in 1..n : i = node[j]
      BY <2>1 DEF Chained
    <3> QED
      BY <3>1, <1>2
  <2>2. CASE ~Speaks(g[i])
    BY <2>2 DEF EntryInOrder, Speaks
  <2> QED
    BY <2>1, <2>2
<1> QED
  BY <1>1, <1>3, OrderPrefix DEF Continues

-----------------------------------------------------------------------------
(* What a repair adds.                                                     *)

\* Block i of q stands in s behind place at[i], and s holds nothing else.
Blocks(q, n, s, start) ==
    /\ \A i \in 1..n : start[i] \in Nat /\ start[i] + Len(q[i]) <= Len(s)
    /\ \A i, j \in 1..n : i < j => start[i] + Len(q[i]) <= start[j]
    /\ \A i \in 1..n : \A k \in 1..Len(q[i]) : s[start[i] + k] = q[i][k]
    /\ \A p \in 1..Len(s) : \E i \in 1..n : \E k \in 1..Len(q[i]) : p = start[i] + k

\* One block more.
LEMMA BlocksGrow ==
    ASSUME NEW S, NEW q \in Seq(Seq(S)), NEW n \in 1..Len(q), NEW s \in Seq(S), NEW start,
           Blocks(q, n - 1, s, start), start[n] = Len(s)
    PROVE  s \o q[n] \in Seq(S) /\ Blocks(q, n, s \o q[n], start)
<1> DEFINE b == q[n]
           t == s \o b
<1>1. /\ b \in Seq(S) /\ Len(s) \in Nat /\ Len(b) \in Nat /\ n \in Nat /\ n > 0
      /\ \A i \in 1..n : Len(q[i]) \in Nat
  <2>1. \A i \in 1..n : i \in 1..Len(q)
    OBVIOUS
  <2>2. \A i \in 1..n : q[i] \in Seq(S)
    BY <2>1
  <2> QED
    BY <2>2
<1>2. /\ t \in Seq(S) /\ Len(t) = Len(s) + Len(b)
      /\ \A k \in 1..Len(s) : t[k] = s[k]
      /\ \A k \in 1..Len(b) : t[Len(s) + k] = b[k]
  <2> HIDE DEF b
  <2>1. s \in Seq(S) /\ b \in Seq(S)
    BY <1>1
  <2> QED
    BY <2>1, <1>1, SMTT(30)
<1> HIDE DEF t
<1>3. \A i \in 1..n : i = n \/ i \in 1..n - 1
  BY <1>1
<1>4. \A i \in 1..n - 1 : start[i] \in Nat /\ start[i] + Len(q[i]) <= Len(s) /\ Len(q[i]) \in Nat
  <2>1. \A i \in 1..n - 1 : i \in 1..n
    BY <1>1
  <2> QED
    BY <2>1, <1>1 DEF Blocks
<1>5. \A i \in 1..n : start[i] \in Nat /\ start[i] + Len(q[i]) <= Len(t)
  <2> SUFFICES ASSUME NEW i \in 1..n PROVE start[i] \in Nat /\ start[i] + Len(q[i]) <= Len(t)
    OBVIOUS
  <2>1. CASE i = n
    BY <2>1, <1>1, <1>2 DEF b
  <2>2. CASE i \in 1..n - 1
    <3>1. start[i] \in Nat /\ start[i] + Len(q[i]) <= Len(s) /\ Len(q[i]) \in Nat
      BY <2>2, <1>4
    <3>2. Len(t) = Len(s) + Len(b) /\ Len(s) \in Nat /\ Len(b) \in Nat
      BY <1>1, <1>2
    <3> QED
      BY ONLY <3>1, <3>2
  <2> QED
    BY <2>1, <2>2, <1>3
<1>6. \A i, j \in 1..n : i < j => start[i] + Len(q[i]) <= start[j]
  <2> SUFFICES ASSUME NEW i \in 1..n, NEW j \in 1..n, i < j
               PROVE  start[i] + Len(q[i]) <= start[j]
    OBVIOUS
  <2>1. i \in 1..n - 1
    BY <1>1
  <2>2. CASE j = n
    BY <2>1, <2>2, <1>4
  <2>3. CASE j \in 1..n - 1
    BY <2>1, <2>3 DEF Blocks
  <2> QED
    BY <2>2, <2>3, <1>3
<1>7. \A i \in 1..n : \A k \in 1..Len(q[i]) : t[start[i] + k] = q[i][k]
  <2> SUFFICES ASSUME NEW i \in 1..n, NEW k \in 1..Len(q[i]) PROVE t[start[i] + k] = q[i][k]
    OBVIOUS
  <2>1. CASE i = n
    BY <2>1, <1>2 DEF b
  <2>2. CASE i \in 1..n - 1
    <3>1. start[i] + k \in 1..Len(s)
      <4>1. start[i] \in Nat /\ start[i] + Len(q[i]) <= Len(s) /\ Len(q[i]) \in Nat
        BY <2>2, <1>4
      <4>2. k \in 1..Len(q[i]) /\ Len(s) \in Nat
        BY <1>1
      <4> QED
        BY ONLY <4>1, <4>2, SMTT(30)
    <3>2. s[start[i] + k] = q[i][k]
      BY <2>2 DEF Blocks
    <3> QED
      BY <3>1, <3>2, <1>2
  <2> QED
    BY <2>1, <2>2, <1>3
<1>8. \A p \in 1..Len(t) : \E i \in 1..n : \E k \in 1..Len(q[i]) : p = start[i] + k
  <2> SUFFICES ASSUME NEW p \in 1..Len(t)
               PROVE  \E i \in 1..n : \E k \in 1..Len(q[i]) : p = start[i] + k
    OBVIOUS
  <2>1. CASE p \in 1..Len(s)
    <3>1. PICK i \in 1..n - 1 : \E k \in 1..Len(q[i]) : p = start[i] + k
      BY <2>1 DEF Blocks
    <3>2. i \in 1..n
      BY <1>1
    <3> QED
      BY <3>1, <3>2
  <2>2. CASE p \notin 1..Len(s)
    <3>1. p - Len(s) \in 1..Len(q[n]) /\ p = start[n] + (p - Len(s)) /\ n \in 1..n
      <4>1. /\ Len(s) \in Nat /\ Len(q[n]) \in Nat /\ n \in Nat /\ n > 0 /\ start[n] = Len(s)
            /\ Len(t) = Len(s) + Len(q[n]) /\ p \in 1..Len(t)
        BY <1>1, <1>2 DEF b
      <4> QED
        BY ONLY <2>2, <4>1
    <3> QED
      BY <3>1
  <2> QED
    BY <2>1, <2>2
<1> QED
  BY <1>2, <1>5, <1>6, <1>7, <1>8 DEF Blocks, t

\* Where the blocks of a flattened sequence are.
LEMMA FlattenBlocks ==
    ASSUME NEW S, NEW q \in Seq(Seq(S))
    PROVE  \E start : Blocks(q, Len(q), FlattenSeq(q), start)
<1> DEFINE L == Len(q)
<1>1. L \in Nat
  OBVIOUS
<1>2. CASE L = 0
  <2>1. q = <<>>
    BY <1>2, EmptySeq
  <2>2. FlattenSeq(q) = <<>>
    BY <2>1 DEF FlattenSeq
  <2>3. Blocks(q, Len(q), FlattenSeq(q), <<>>)
    <3>1. 1..Len(q) = {} /\ 1..Len(FlattenSeq(q)) = {}
      BY <1>2, <2>2
    <3> QED
      BY <3>1 DEF Blocks
  <2> QED
    BY <2>3
<1>3. CASE L > 0
  <2>1. PICK f : /\ f = [i \in 1..L |-> IF i = 1 THEN q[i] ELSE f[i - 1] \o q[i]]
                 /\ FlattenSeq(q) = f[L]
    <3>1. L = Len(q)
      OBVIOUS
    <3> HIDE DEF L
    <3> QED
      BY <3>1, <1>1, <1>3, FlattenSteps
  <2>2. \A m \in 1..L : f[m] = IF m = 1 THEN q[m] ELSE f[m - 1] \o q[m]
    BY <2>1
  <2> DEFINE start == [i \in 1..L |-> IF i = 1 THEN 0 ELSE Len(f[i - 1])]
             Good(m) == f[m] \in Seq(S) /\ Blocks(q, m, f[m], start)
             T == {m \in 1..L : Good(m)}
  <2>3. \A m \in 1..L : start[m] = IF m = 1 THEN 0 ELSE Len(f[m - 1])
    OBVIOUS
  <2> HIDE DEF start
  <2>4. ASSUME NEW m \in 1..L, m = 1 \/ m - 1 \in T
        PROVE  Good(m)
    <3> DEFINE s == IF m = 1 THEN <<>> ELSE f[m - 1]
    <3>1. s \in Seq(S) /\ start[m] = Len(s)
      <4>1. CASE m = 1
        <5>1. s = <<>> /\ start[m] = 0
          BY <4>1, <2>3
        <5> HIDE DEF s
        <5> QED
          BY <5>1
      <4>2. CASE m # 1
        <5>1. s = f[m - 1] /\ start[m] = Len(f[m - 1])
          BY <4>2, <2>3
        <5>2. f[m - 1] \in Seq(S)
          BY <4>2, <2>4
        <5> QED
          BY <5>1, <5>2
      <4> QED
        BY <4>1, <4>2
    <3>2. Blocks(q, m - 1, s, start)
      <4>1. CASE m = 1
        <5>1. 1..m - 1 = {} /\ s = <<>> /\ 1..Len(s) = {}
          BY <4>1
        <5> HIDE DEF s
        <5> QED
          BY <5>1 DEF Blocks
      <4>2. CASE m # 1
        <5>1. Blocks(q, m - 1, f[m - 1], start)
          BY <4>2, <2>4
        <5>2. s = f[m - 1]
          BY <4>2
        <5> QED
          BY <5>1, <5>2
      <4> QED
        BY <4>1, <4>2
    <3>3. f[m] = s \o q[m]
      <4>1. CASE m = 1
        <5>1. q[m] \in Seq(S) /\ s = <<>>
          BY <4>1, <1>1
        <5>2. s \o q[m] = q[m]
          BY <5>1, ConcatEmptySeq
        <5> QED
          BY <5>2, <4>1, <2>2
      <4>2. CASE m # 1
        BY <4>2, <2>2
      <4> QED
        BY <4>1, <4>2
    <3> HIDE DEF s
    <3>4. m \in 1..Len(q)
      OBVIOUS
    <3>5. s \o q[m] \in Seq(S) /\ Blocks(q, m, s \o q[m], start)
      BY <3>1, <3>2, <3>4, BlocksGrow
    <3> QED
      BY <3>3, <3>5
  <2>5. 1..L \subseteq T
    <3>1. \A m \in 1..L : m = 1 \/ m - 1 \in T => m \in T
      <4> SUFFICES ASSUME NEW m \in 1..L, m = 1 \/ m - 1 \in T PROVE m \in T
        OBVIOUS
      <4>1. Good(m)
        BY <2>4
      <4> QED
        BY <4>1
    <3> HIDE DEF T, L
    <3> QED
      BY <3>1, <1>1, Climb
  <2>6. L \in T
    BY <2>5, <1>1, <1>3
  <2>7. Blocks(q, L, f[L], start)
    BY <2>6
  <2> QED
    BY <2>7, <2>1
<1> QED
  BY <1>1, <1>2, <1>3

\* A flattened sequence holds what its blocks hold, and nothing twice when they
\* do not.
LEMMA FlattenDistinct ==
    ASSUME NEW S, NEW q \in Seq(Seq(S)),
           \A i \in 1..Len(q) : Distinct(q[i]),
           \A i, j \in 1..Len(q) : \A k \in DOMAIN q[i] : \A l \in DOMAIN q[j] :
               q[i][k] = q[j][l] => i = j
    PROVE  Distinct(FlattenSeq(q))
<1> DEFINE s == FlattenSeq(q)
<1>1. PICK start : Blocks(q, Len(q), s, start)
  BY FlattenBlocks
<1>2. s \in Seq(S)
  BY FlattenProperties
<1> HIDE DEF s
<1> SUFFICES ASSUME NEW a \in 1..Len(s), NEW b \in 1..Len(s), s[a] = s[b]
             PROVE  a = b
  BY <1>2 DEF Distinct, s
<1>3. PICK i \in 1..Len(q) : \E k \in 1..Len(q[i]) : a = start[i] + k
  BY <1>1 DEF Blocks
<1>4. PICK k \in 1..Len(q[i]) : a = start[i] + k
  BY <1>3
<1>5. PICK j \in 1..Len(q) : \E l \in 1..Len(q[j]) : b = start[j] + l
  BY <1>1 DEF Blocks
<1>6. PICK l \in 1..Len(q[j]) : b = start[j] + l
  BY <1>5
<1>7. s[a] = q[i][k] /\ s[b] = q[j][l]
  BY <1>1, <1>4, <1>6 DEF Blocks
<1>8. q[i] \in Seq(S) /\ q[j] \in Seq(S)
  OBVIOUS
<1>9. k \in DOMAIN q[i] /\ l \in DOMAIN q[j]
  BY <1>8, SMTT(30)
<1>10. i = j
  BY <1>7, <1>9
<1>11. k = l
  BY <1>7, <1>9, <1>10 DEF Distinct
<1> QED
  BY <1>4, <1>6, <1>10, <1>11

LEMMA FlattenHolds ==
    ASSUME NEW S, NEW q \in Seq(Seq(S))
    PROVE  /\ \A p \in 1..Len(FlattenSeq(q)) : \E i \in 1..Len(q) : \E k \in 1..Len(q[i]) :
                 FlattenSeq(q)[p] = q[i][k]
           /\ \A i \in 1..Len(q) : \A k \in 1..Len(q[i]) : \E p \in 1..Len(FlattenSeq(q)) :
                 FlattenSeq(q)[p] = q[i][k]
<1> DEFINE s == FlattenSeq(q)
<1>1. PICK start : Blocks(q, Len(q), s, start)
  BY FlattenBlocks
<1>2. s \in Seq(S) /\ Len(s) \in Nat
  <2>1. s \in Seq(S)
    BY FlattenProperties
  <2> QED
    BY <2>1
<1> HIDE DEF s
<1>3. ASSUME NEW p \in 1..Len(s)
      PROVE  \E i \in 1..Len(q) : \E k \in 1..Len(q[i]) : s[p] = q[i][k]
  <2>1. PICK i \in 1..Len(q) : \E k \in 1..Len(q[i]) : p = start[i] + k
    BY <1>1 DEF Blocks
  <2>2. PICK k \in 1..Len(q[i]) : p = start[i] + k
    BY <2>1
  <2>3. s[start[i] + k] = q[i][k]
    BY <1>1 DEF Blocks
  <2> QED
    BY <2>2, <2>3
<1>4. ASSUME NEW i \in 1..Len(q), NEW k \in 1..Len(q[i])
      PROVE  \E p \in 1..Len(s) : s[p] = q[i][k]
  <2>1. Len(q[i]) \in Nat
    <3>1. q[i] \in Seq(S)
      OBVIOUS
    <3> QED
      BY <3>1
  <2>2. start[i] \in Nat /\ start[i] + Len(q[i]) <= Len(s) /\ s[start[i] + k] = q[i][k]
    BY <1>1 DEF Blocks
  <2>3. start[i] + k \in 1..Len(s)
    BY <2>1, <2>2, <1>2, SMTT(30)
  <2> QED
    BY <2>2, <2>3
<1> QED
  BY <1>3, <1>4 DEF s

\* Each message asks for a call once, and no other asks for it.
Apart(s) ==
    \A i \in DOMAIN s :
        /\ s[i].kind = "assistant" => Distinct(s[i].calls)
        /\ \A j \in DOMAIN s : CallsOf(s[i]) \cap CallsOf(s[j]) # {} => s[i] = s[j]

LEMMA OpenCalls ==
    ASSUME NEW s \in Seq(Message)
    PROVE  /\ Open(s) \subseteq Nat
           /\ \A c \in Open(s) : c \in Asked(s) /\ \A j \in DOMAIN s : s[j] # Result(c)
           /\ \A c \in Asked(s) : (\A j \in DOMAIN s : s[j] # Result(c)) => c \in Open(s)
           /\ \A j \in DOMAIN s : CallsOf(s[j]) \subseteq Asked(s)
<1>1. \A j \in DOMAIN s : s[j] \in Message
  OBVIOUS
<1>2. ASSUME NEW m \in Message
      PROVE  CallsOf(m) \subseteq Nat
  <2>1. CASE m.kind = "assistant"
    <3>1. m.calls \in Seq(Nat)
      BY <2>1 DEF Message, UserMessages, AssistantMessages, ResultMessages
    <3> DEFINE cs == m.calls
    <3>2. Range(cs) \subseteq Nat
      <4>1. cs \in Seq(Nat)
        BY <3>1
      <4> HIDE DEF cs
      <4> QED
        BY <4>1 DEF Range
    <3> QED
      BY <2>1, <3>2 DEF CallsOf
  <2>2. CASE m.kind # "assistant"
    BY <2>2 DEF CallsOf
  <2> QED
    BY <2>1, <2>2
<1>3. ASSUME NEW m \in Message, NEW c, m.kind = "result", m.call = c
      PROVE  m = Result(c)
  <2>1. m \in ResultMessages
    BY <1>3 DEF Message, UserMessages, AssistantMessages
  <2> QED
    BY <2>1, <1>3 DEF ResultMessages, Result
<1>4. Asked(s) \subseteq Nat /\ Open(s) \subseteq Asked(s)
  BY <1>1, <1>2 DEF Asked, Open
<1>5. ASSUME NEW c \in Open(s), NEW j \in DOMAIN s, s[j] = Result(c)
      PROVE  FALSE
  <2>1. s[j].kind = "result" /\ s[j].call = c
    BY <1>5 DEF Result
  <2>2. c \in Returned(s)
    BY <2>1 DEF Returned
  <2> QED
    BY <2>2 DEF Open
<1>6. ASSUME NEW c \in Asked(s), \A j \in DOMAIN s : s[j] # Result(c)
      PROVE  c \in Open(s)
  <2>1. c \notin Returned(s)
    <3> SUFFICES ASSUME c \in Returned(s) PROVE FALSE
      OBVIOUS
    <3>1. PICK j \in DOMAIN s : s[j].kind = "result" /\ s[j].call = c
      BY DEF Returned
    <3>2. s[j] = Result(c)
      BY <3>1, <1>1, <1>3
    <3> QED
      BY <3>2, <1>6
  <2> QED
    BY <2>1 DEF Open
<1>7. \A j \in DOMAIN s : CallsOf(s[j]) \subseteq Asked(s)
  BY DEF Asked
<1> QED
  BY <1>4, <1>5, <1>6, <1>7

\* The answers to a message are the results of its open calls.
LEMMA AnswersShape ==
    ASSUME NEW s \in Seq(Message), NEW m \in Message,
           m.kind = "assistant" => Distinct(m.calls)
    PROVE  /\ Answers(s, m) \in Seq(Message) /\ Distinct(Answers(s, m))
           /\ \A k \in 1..Len(Answers(s, m)) :
                 \E c \in CallsOf(m) \cap Open(s) : Answers(s, m)[k] = Result(c)
           /\ \A c \in CallsOf(m) \cap Open(s) :
                 \E k \in 1..Len(Answers(s, m)) : Answers(s, m)[k] = Result(c)
<1>1. CASE m.kind # "assistant"
  <2>1. Answers(s, m) = <<>> /\ CallsOf(m) = {}
    BY <1>1 DEF Answers, CallsOf
  <2>2. Answers(s, m) \in Seq(Message) /\ 1..Len(Answers(s, m)) = {} /\ DOMAIN Answers(s, m) = {}
    BY <2>1
  <2> QED
    BY <2>1, <2>2 DEF Distinct
<1>2. CASE m.kind = "assistant"
  <2> DEFINE cs == m.calls
             Answer(c) == IF c \in Open(s) THEN <<Result(c)>> ELSE <<>>
             q == [i \in DOMAIN cs |-> Answer(cs[i])]
  <2>1. cs \in Seq(Nat) /\ Distinct(cs)
    BY <1>2 DEF Message, UserMessages, AssistantMessages, ResultMessages
  <2>2. Answers(s, m) = FlattenSeq(q) /\ CallsOf(m) = Range(cs)
    BY <1>2 DEF Answers, CallsOf
  <2> HIDE DEF cs
  <2>3. \A i \in DOMAIN cs : q[i] = IF cs[i] \in Open(s) THEN <<Result(cs[i])>> ELSE <<>>
    OBVIOUS
  <2>4. \A c \in Nat : Answer(c) \in Seq(Message)
    <3>1. \A c \in Nat : Result(c) \in Message
      BY DEF Result, Message, ResultMessages
    <3> QED
      BY <3>1
  <2>5. q \in Seq(Seq(Message)) /\ Len(q) = Len(cs) /\ DOMAIN cs = 1..Len(cs)
    <3>1. \A i \in DOMAIN cs : Answer(cs[i]) \in Seq(Message)
      <4>1. \A i \in DOMAIN cs : cs[i] \in Nat
        BY <2>1
      <4> HIDE DEF Answer
      <4> QED
        BY <4>1, <2>4
    <3>2. DOMAIN cs = 1..Len(cs) /\ Len(cs) \in Nat
      BY <2>1
    <3> HIDE DEF Answer
    <3> QED
      BY <3>1, <3>2
  <2> HIDE DEF q, Answer
  <2>6. ASSUME NEW i \in 1..Len(q)
        PROVE  /\ i \in DOMAIN cs
               /\ cs[i] \in Open(s) => q[i] = <<Result(cs[i])>> /\ Len(q[i]) = 1 /\ DOMAIN q[i] = 1..1
               /\ cs[i] \notin Open(s) => Len(q[i]) = 0 /\ DOMAIN q[i] = 1..0
    <3>1. i \in DOMAIN cs
      BY <2>5
    <3>2. cs[i] \in Open(s) => q[i] = <<Result(cs[i])>>
      BY <3>1, <2>3
    <3>3. cs[i] \notin Open(s) => q[i] = <<>>
      BY <3>1, <2>3
    <3>4. \A x : Len(<<x>>) = 1 /\ DOMAIN <<x>> = 1..1
      OBVIOUS
    <3>5. Len(<<>>) = 0 /\ DOMAIN <<>> = 1..0
      OBVIOUS
    <3> QED
      BY <3>1, <3>2, <3>3, <3>4, <3>5
  <2>7. ASSUME NEW i \in 1..Len(q), NEW k \in DOMAIN q[i]
        PROVE  k = 1 /\ cs[i] \in Open(s) /\ q[i][k] = Result(cs[i]) /\ cs[i] \in Range(cs)
    <3>1. cs[i] \in Open(s)
      <4>1. 1..0 = {}
        OBVIOUS
      <4> QED
        BY <4>1, <2>6
    <3>2. k = 1
      BY <3>1, <2>6
    <3>3. q[i][k] = Result(cs[i])
      BY <3>1, <3>2, <2>6
    <3>4. cs[i] \in Range(cs)
      BY <2>6 DEF Range
    <3> QED
      BY <3>1, <3>2, <3>3, <3>4
  <2>8. Distinct(FlattenSeq(q))
    <3>1. \A i \in 1..Len(q) : Distinct(q[i])
      BY <2>7 DEF Distinct
    <3>2. \A i, j \in 1..Len(q) : \A k \in DOMAIN q[i] : \A l \in DOMAIN q[j] :
              q[i][k] = q[j][l] => i = j
      <4> SUFFICES ASSUME NEW i \in 1..Len(q), NEW j \in 1..Len(q),
                          NEW k \in DOMAIN q[i], NEW l \in DOMAIN q[j], q[i][k] = q[j][l]
                   PROVE  i = j
        OBVIOUS
      <4>1. Result(cs[i]) = Result(cs[j])
        <5>1. q[i][k] = Result(cs[i])
          BY <2>7
        <5>2. q[j][l] = Result(cs[j])
          BY <2>7
        <5> QED
          BY <5>1, <5>2
      <4>2. cs[i] = cs[j]
        BY <4>1 DEF Result
      <4> QED
        BY <4>2, <2>1, <2>6 DEF Distinct
    <3> QED
      BY <3>1, <3>2, <2>5, FlattenDistinct
  <2>9. FlattenSeq(q) \in Seq(Message)
    BY <2>5, FlattenProperties
  <2> DEFINE a == FlattenSeq(q)
  <2>10. /\ \A p \in 1..Len(a) : \E i \in 1..Len(q) : \E k \in 1..Len(q[i]) : a[p] = q[i][k]
         /\ \A i \in 1..Len(q) : \A k \in 1..Len(q[i]) : \E p \in 1..Len(a) : a[p] = q[i][k]
    BY <2>5, FlattenHolds
  <2>11. \A i \in 1..Len(q) : DOMAIN q[i] = 1..Len(q[i])
    <3> SUFFICES ASSUME NEW i \in 1..Len(q) PROVE DOMAIN q[i] = 1..Len(q[i])
      OBVIOUS
    <3>1. q[i] \in Seq(Message)
      BY <2>5
    <3> QED
      BY <3>1
  <2> HIDE DEF a
  <2>12. ASSUME NEW p \in 1..Len(a)
         PROVE  \E c \in Range(cs) \cap Open(s) : a[p] = Result(c)
    <3>1. PICK i \in 1..Len(q) : \E k \in 1..Len(q[i]) : a[p] = q[i][k]
      BY <2>10
    <3>2. PICK k \in 1..Len(q[i]) : a[p] = q[i][k]
      BY <3>1
    <3>3. k \in DOMAIN q[i]
      BY <2>11
    <3> QED
      BY <3>2, <3>3, <2>7
  <2>13. ASSUME NEW c \in Range(cs) \cap Open(s)
         PROVE  \E p \in 1..Len(a) : a[p] = Result(c)
    <3>1. PICK i \in DOMAIN cs : cs[i] = c
      BY DEF Range
    <3>2. i \in 1..Len(q)
      BY <2>5
    <3>3. q[i] = <<Result(c)>> /\ Len(q[i]) = 1
      BY <3>1, <3>2, <2>6
    <3>4. 1 \in 1..Len(q[i]) /\ q[i][1] = Result(c)
      BY <3>3
    <3> QED
      BY <3>2, <3>4, <2>10
  <2> QED
    BY <2>2, <2>8, <2>9, <2>12, <2>13 DEF a
<1> QED
  BY <1>1, <1>2

\* What the harness's repair appends.
LEMMA RepairedShape ==
    ASSUME NEW s \in Seq(Message), Distinct(s), Apart(s)
    PROVE  \E t \in Seq(Message) :
              /\ Repaired(s) = s \o t /\ Distinct(t)
              /\ \A k \in 1..Len(t) : \E c \in Open(s) : t[k] = Result(c)
              /\ \A c \in Open(s) : \E k \in 1..Len(t) : t[k] = Result(c)
<1> DEFINE q == [i \in DOMAIN s |-> Answers(s, s[i])]
           t == FlattenSeq(q)
<1>1. DOMAIN s = 1..Len(s) /\ Len(s) \in Nat
  OBVIOUS
<1>2. ASSUME NEW i \in 1..Len(s)
      PROVE  /\ Answers(s, s[i]) \in Seq(Message) /\ Distinct(Answers(s, s[i]))
             /\ \A k \in 1..Len(Answers(s, s[i])) :
                   \E c \in CallsOf(s[i]) \cap Open(s) : Answers(s, s[i])[k] = Result(c)
             /\ \A c \in CallsOf(s[i]) \cap Open(s) :
                   \E k \in 1..Len(Answers(s, s[i])) : Answers(s, s[i])[k] = Result(c)
  <2>1. s[i] \in Message /\ (s[i].kind = "assistant" => Distinct(s[i].calls))
    BY <1>1 DEF Apart
  <2> QED
    BY <2>1, AnswersShape
<1>3. q \in Seq(Seq(Message)) /\ Len(q) = Len(s) /\ \A i \in 1..Len(s) : q[i] = Answers(s, s[i])
  BY <1>1, <1>2
<1>4. Repaired(s) = s \o t
  BY DEF Repaired
<1> HIDE DEF q
<1>5. t \in Seq(Message)
  BY <1>3, FlattenProperties
<1>6. ASSUME NEW i \in 1..Len(q), NEW k \in DOMAIN q[i]
      PROVE  \E c \in CallsOf(s[i]) \cap Open(s) : q[i][k] = Result(c)
  <2>1. q[i] = Answers(s, s[i]) /\ q[i] \in Seq(Message) /\ i \in 1..Len(s)
    BY <1>2, <1>3
  <2>2. k \in 1..Len(q[i])
    BY <2>1
  <2> QED
    BY <2>1, <2>2, <1>2
<1>7. Distinct(t)
  <2>1. \A i \in 1..Len(q) : Distinct(q[i])
    BY <1>2, <1>3
  <2>2. \A i, j \in 1..Len(q) : \A k \in DOMAIN q[i] : \A l \in DOMAIN q[j] :
            q[i][k] = q[j][l] => i = j
    <3> SUFFICES ASSUME NEW i \in 1..Len(q), NEW j \in 1..Len(q),
                        NEW k \in DOMAIN q[i], NEW l \in DOMAIN q[j], q[i][k] = q[j][l]
                 PROVE  i = j
      OBVIOUS
    <3>1. PICK c \in CallsOf(s[i]) \cap Open(s) : q[i][k] = Result(c)
      BY <1>6
    <3>2. PICK d \in CallsOf(s[j]) \cap Open(s) : q[j][l] = Result(d)
      BY <1>6
    <3>3. c = d
      <4>1. Result(c) = Result(d)
        BY <3>1, <3>2
      <4>2. Result(c).call = c /\ Result(d).call = d
        BY Kinds
      <4> QED
        BY <4>1, <4>2
    <3>4. i \in DOMAIN s /\ j \in DOMAIN s
      BY <1>1, <1>3
    <3>5. s[i] = s[j]
      BY <3>3, <3>4 DEF Apart
    <3> QED
      BY <3>4, <3>5 DEF Distinct
  <2> QED
    BY <2>1, <2>2, <1>3, FlattenDistinct
<1>8. /\ \A p \in 1..Len(t) : \E i \in 1..Len(q) : \E k \in 1..Len(q[i]) : t[p] = q[i][k]
      /\ \A i \in 1..Len(q) : \A k \in 1..Len(q[i]) : \E p \in 1..Len(t) : t[p] = q[i][k]
  BY <1>3, FlattenHolds
<1> HIDE DEF t
<1>9. ASSUME NEW p \in 1..Len(t)
      PROVE  \E c \in Open(s) : t[p] = Result(c)
  <2>1. PICK i \in 1..Len(q) : \E k \in 1..Len(q[i]) : t[p] = q[i][k]
    BY <1>8
  <2>2. PICK k \in 1..Len(q[i]) : t[p] = q[i][k]
    BY <2>1
  <2>3. k \in DOMAIN q[i]
    <3>1. q[i] \in Seq(Message)
      BY <1>3
    <3> QED
      BY <3>1
  <2> QED
    BY <2>2, <2>3, <1>6
<1>10. ASSUME NEW c \in Open(s)
       PROVE  \E p \in 1..Len(t) : t[p] = Result(c)
  <2>1. c \in Asked(s)
    BY OpenCalls
  <2>2. PICK i \in DOMAIN s : c \in CallsOf(s[i])
    BY <2>1 DEF Asked
  <2>3. i \in 1..Len(q) /\ q[i] = Answers(s, s[i]) /\ i \in 1..Len(s)
    BY <1>1, <1>3
  <2>4. PICK k \in 1..Len(q[i]) : q[i][k] = Result(c)
    BY <2>2, <2>3, <1>2
  <2> QED
    BY <2>3, <2>4, <1>8, SMTT(30)
<1> QED
  BY <1>4, <1>5, <1>7, <1>9, <1>10

\* new is s, whose message i stands at w[i], with answers to open calls behind
\* the messages that ask.
Woven(s, new, w) ==
    /\ new \in Seq(Message)
    /\ \A i \in 1..Len(s) : w[i] \in 1..Len(new) /\ new[w[i]] = s[i]
    /\ \A i, j \in 1..Len(s) : i < j => w[i] < w[j]
    /\ \A p \in 1..Len(new) :
          \/ \E i \in 1..Len(s) : p = w[i]
          \/ \E i \in 1..Len(s) : /\ w[i] < p /\ \A j \in 1..Len(s) : i < j => p < w[j]
                                  /\ \E c \in CallsOf(s[i]) \cap Open(s) : new[p] = Result(c)
    /\ \A c \in Open(s) : \E p \in 1..Len(new) : new[p] = Result(c)

LEMMA RecoveredShape ==
    ASSUME NEW s \in Seq(Message), Distinct(s), Apart(s)
    PROVE  Distinct(Recovered(s)) /\ \E w : Woven(s, Recovered(s), w)
<1> DEFINE a(i) == Answers(s, s[i])
           q == [i \in DOMAIN s |-> <<s[i]>> \o Answers(s, s[i])]
           new == FlattenSeq(q)
<1>1. DOMAIN s = 1..Len(s) /\ Len(s) \in Nat
  OBVIOUS
<1>2. ASSUME NEW i \in 1..Len(s)
      PROVE  /\ a(i) \in Seq(Message) /\ Distinct(a(i)) /\ s[i] \in Message
             /\ \A k \in 1..Len(a(i)) : \E c \in CallsOf(s[i]) \cap Open(s) : a(i)[k] = Result(c)
             /\ \A c \in CallsOf(s[i]) \cap Open(s) : \E k \in 1..Len(a(i)) : a(i)[k] = Result(c)
  <2>1. s[i] \in Message /\ (s[i].kind = "assistant" => Distinct(s[i].calls))
    BY <1>1 DEF Apart
  <2> QED
    BY <2>1, AnswersShape
<1>3. ASSUME NEW i \in 1..Len(s)
      PROVE  /\ <<s[i]>> \o a(i) \in Seq(Message) /\ Len(<<s[i]>> \o a(i)) = 1 + Len(a(i))
             /\ Len(a(i)) \in Nat
             /\ (<<s[i]>> \o a(i))[1] = s[i]
             /\ \A k \in 2..1 + Len(a(i)) : (<<s[i]>> \o a(i))[k] = a(i)[k - 1]
  <2> DEFINE m == s[i]
             b == a(i)
  <2>1. m \in Message /\ b \in Seq(Message)
    BY <1>2
  <2> HIDE DEF m, b
  <2>2. /\ <<m>> \o b \in Seq(Message) /\ Len(<<m>> \o b) = 1 + Len(b) /\ Len(b) \in Nat
        /\ (<<m>> \o b)[1] = m
        /\ \A k \in 2..1 + Len(b) : (<<m>> \o b)[k] = b[k - 1]
    BY <2>1
  <2> QED
    BY <2>2 DEF m, b
<1> HIDE DEF a
<1>4. /\ q \in Seq(Seq(Message)) /\ Len(q) = Len(s)
      /\ \A i \in 1..Len(s) : q[i] = <<s[i]>> \o a(i)
  <2>1. \A i \in DOMAIN s : <<s[i]>> \o Answers(s, s[i]) \in Seq(Message)
    BY <1>1, <1>3 DEF a
  <2>2. q \in Seq(Seq(Message)) /\ Len(q) = Len(s)
    BY <1>1, <2>1
  <2>3. \A i \in 1..Len(s) : q[i] = <<s[i]>> \o a(i)
    BY <1>1 DEF a
  <2> QED
    BY <2>2, <2>3
<1>5. Recovered(s) = new
  BY DEF Recovered
<1> HIDE DEF q
<1>6. ASSUME NEW i \in 1..Len(s)
      PROVE  /\ q[i] \in Seq(Message) /\ Len(q[i]) = 1 + Len(a(i)) /\ Len(a(i)) \in Nat
             /\ q[i][1] = s[i] /\ \A k \in 2..1 + Len(a(i)) : q[i][k] = a(i)[k - 1]
  <2>1. q[i] = <<s[i]>> \o a(i)
    BY <1>4
  <2> QED
    BY <2>1, <1>3
<1>7. ASSUME NEW i \in 1..Len(s), NEW k \in 1..Len(q[i])
      PROVE  \/ k = 1 /\ q[i][k] = s[i]
             \/ /\ k \in 2..1 + Len(a(i)) /\ k - 1 \in 1..Len(a(i)) /\ q[i][k] = a(i)[k - 1]
                /\ \E c \in CallsOf(s[i]) \cap Open(s) : q[i][k] = Result(c)
  <2>1. CASE k = 1
    BY <2>1, <1>6
  <2>2. CASE k # 1
    <3>1. Len(q[i]) = 1 + Len(a(i)) /\ Len(a(i)) \in Nat
      BY <1>6
    <3>2. k \in 2..1 + Len(a(i)) /\ k - 1 \in 1..Len(a(i))
      BY <2>2, <3>1
    <3>3. q[i][k] = a(i)[k - 1]
      BY <3>2, <1>6
    <3>4. \E c \in CallsOf(s[i]) \cap Open(s) : a(i)[k - 1] = Result(c)
      BY <3>2, <1>2
    <3> QED
      BY <3>2, <3>3, <3>4
  <2> QED
    BY <2>1, <2>2
<1>8. new \in Seq(Message) /\ Len(new) \in Nat
  <2>1. new \in Seq(Message)
    BY <1>4, FlattenProperties
  <2> QED
    BY <2>1
<1>9. ASSUME NEW i \in 1..Len(s)
      PROVE  DOMAIN q[i] = 1..Len(q[i]) /\ i \in DOMAIN s
  <2>1. q[i] \in Seq(Message)
    BY <1>6
  <2> QED
    BY <2>1, <1>1
<1>10. ASSUME NEW c \in Open(s), NEW j \in 1..Len(s)
       PROVE  s[j] # Result(c)
  BY <1>1, OpenCalls
<1>11. Distinct(new)
  <2>1. ASSUME NEW i \in 1..Len(q)
        PROVE  Distinct(q[i])
    <3> SUFFICES ASSUME NEW k \in DOMAIN q[i], NEW l \in DOMAIN q[i], q[i][k] = q[i][l]
                 PROVE  k = l
      BY DEF Distinct
    <3>0. i \in 1..Len(s)
      BY <1>4
    <3>1. k \in 1..Len(q[i]) /\ l \in 1..Len(q[i])
      BY <3>0, <1>9
    <3>2. CASE k = 1
      BY <3>0, <3>1, <3>2, <1>7, <1>10
    <3>3. CASE l = 1
      BY <3>0, <3>1, <3>3, <1>7, <1>10
    <3>4. CASE k # 1 /\ l # 1
      <4>1. k - 1 \in 1..Len(a(i)) /\ l - 1 \in 1..Len(a(i)) /\ a(i)[k - 1] = a(i)[l - 1]
        BY <3>0, <3>1, <3>4, <1>7
      <4>2. DOMAIN a(i) = 1..Len(a(i)) /\ Distinct(a(i))
        <5>1. a(i) \in Seq(Message) /\ Distinct(a(i))
          BY <3>0, <1>2
        <5> QED
          BY <5>1
      <4>3. k - 1 = l - 1
        BY <4>1, <4>2 DEF Distinct
      <4>4. k \in Int /\ l \in Int
        BY <3>1
      <4> QED
        BY <4>3, <4>4
    <3> QED
      BY <3>2, <3>3, <3>4
  <2>2. \A i, j \in 1..Len(q) : \A k \in DOMAIN q[i] : \A l \in DOMAIN q[j] :
            q[i][k] = q[j][l] => i = j
    <3> SUFFICES ASSUME NEW i \in 1..Len(q), NEW j \in 1..Len(q),
                        NEW k \in DOMAIN q[i], NEW l \in DOMAIN q[j], q[i][k] = q[j][l]
                 PROVE  i = j
      OBVIOUS
    <3>1. /\ i \in 1..Len(s) /\ j \in 1..Len(s) /\ i \in DOMAIN s /\ j \in DOMAIN s
          /\ k \in 1..Len(q[i]) /\ l \in 1..Len(q[j])
      BY <1>4, <1>9
    <3>2. CASE q[i][k] = s[i] /\ q[j][l] = s[j]
      BY <3>1, <3>2 DEF Distinct
    <3>3. ASSUME NEW c \in CallsOf(s[i]) \cap Open(s), q[i][k] = Result(c)
          PROVE  i = j
      <4>1. q[j][l] # s[j]
        BY <3>1, <3>3, <1>10
      <4>2. PICK d \in CallsOf(s[j]) \cap Open(s) : q[j][l] = Result(d)
        BY <4>1, <3>1, <1>7
      <4>3. c = d
        <5>1. Result(c) = Result(d)
          BY <3>3, <4>2
        <5>2. Result(c).call = c /\ Result(d).call = d
          BY Kinds
        <5> QED
          BY <5>1, <5>2
      <4>4. s[i] = s[j]
        BY <4>3, <3>1 DEF Apart
      <4> QED
        BY <4>4, <3>1 DEF Distinct
    <3>4. CASE q[j][l] # s[j] /\ q[i][k] = s[i]
      <4>1. PICK d \in CallsOf(s[j]) \cap Open(s) : q[j][l] = Result(d)
        BY <3>4, <3>1, <1>7
      <4> QED
        BY <4>1, <3>1, <3>4, <1>10
    <3> QED
      BY <3>1, <3>2, <3>3, <3>4, <1>7
  <2> QED
    BY <2>1, <2>2, <1>4, FlattenDistinct
<1>12. PICK start : Blocks(q, Len(q), new, start)
  BY <1>4, FlattenBlocks
<1>13. /\ \A p \in 1..Len(new) : \E i \in 1..Len(q) : \E k \in 1..Len(q[i]) : new[p] = q[i][k]
       /\ \A i \in 1..Len(q) : \A k \in 1..Len(q[i]) : \E p \in 1..Len(new) : new[p] = q[i][k]
  BY <1>4, FlattenHolds
<1> HIDE DEF new
<1> DEFINE w == [i \in 1..Len(s) |-> start[i] + 1]
<1>14. \A i \in 1..Len(s) : w[i] = start[i] + 1
  OBVIOUS
<1> HIDE DEF w
<1>15. ASSUME NEW i \in 1..Len(s)
       PROVE  /\ start[i] \in Nat /\ start[i] + 1 + Len(a(i)) <= Len(new) /\ Len(a(i)) \in Nat
              /\ w[i] \in 1..Len(new) /\ new[w[i]] = s[i]
              /\ \A j \in 1..Len(s) : i < j => start[i] + 1 + Len(a(i)) <= start[j]
  <2>1. i \in 1..Len(q) /\ 1..Len(s) = 1..Len(q)
    BY <1>4
  <2>2. Len(q[i]) = 1 + Len(a(i)) /\ Len(a(i)) \in Nat /\ q[i][1] = s[i]
    BY <1>6
  <2>3. /\ start[i] \in Nat /\ start[i] + Len(q[i]) <= Len(new)
        /\ \A j \in 1..Len(s) : i < j => start[i] + Len(q[i]) <= start[j]
    BY <2>1, <1>12 DEF Blocks
  <2>4. start[i] + Len(q[i]) = start[i] + 1 + Len(a(i))
    <3>1. start[i] \in Nat
      BY <2>3
    <3> QED
      BY ONLY <3>1, <2>2
  <2>5. w[i] \in 1..Len(new)
    BY <2>2, <2>3, <1>8, <1>14
  <2>6. new[w[i]] = s[i]
    <3>1. 1 \in 1..Len(q[i])
      BY <2>2
    <3>2. new[start[i] + 1] = q[i][1]
      BY <3>1, <2>1, <1>12 DEF Blocks
    <3> QED
      BY <3>2, <2>2, <1>14
  <2> QED
    BY <2>2, <2>3, <2>4, <2>5, <2>6
<1>16. ASSUME NEW i \in 1..Len(s), NEW j \in 1..Len(s), i < j
       PROVE  w[i] < w[j]
  <2>1. start[i] \in Nat /\ start[j] \in Nat /\ Len(a(i)) \in Nat
    BY <1>15
  <2>2. start[i] + 1 + Len(a(i)) <= start[j]
    BY <1>15, <1>16
  <2>3. w[i] = start[i] + 1 /\ w[j] = start[j] + 1
    BY <1>14
  <2> QED
    BY ONLY <2>1, <2>2, <2>3
<1>17. ASSUME NEW p \in 1..Len(new)
       PROVE  \/ \E i \in 1..Len(s) : p = w[i]
              \/ \E i \in 1..Len(s) : /\ w[i] < p /\ \A j \in 1..Len(s) : i < j => p < w[j]
                                      /\ \E c \in CallsOf(s[i]) \cap Open(s) : new[p] = Result(c)
  <2>1. PICK i \in 1..Len(q) : \E k \in 1..Len(q[i]) : p = start[i] + k
    BY <1>12 DEF Blocks
  <2>2. PICK k \in 1..Len(q[i]) : p = start[i] + k
    BY <2>1
  <2>3. i \in 1..Len(s) /\ new[p] = q[i][k]
    BY <1>4, <1>12, <2>2 DEF Blocks
  <2>4. CASE k = 1
    BY <2>2, <2>3, <2>4, <1>14
  <2>5. CASE k # 1
    <3>1. /\ k \in 2..1 + Len(a(i))
          /\ \E c \in CallsOf(s[i]) \cap Open(s) : q[i][k] = Result(c)
      BY <2>3, <2>5, <1>7
    <3>2. start[i] \in Nat /\ Len(a(i)) \in Nat /\ w[i] = start[i] + 1
      BY <2>3, <1>14, <1>15
    <3>3. w[i] < p
      BY ONLY <2>2, <3>1, <3>2
    <3>4. ASSUME NEW j \in 1..Len(s), i < j
          PROVE  p < w[j]
      <4> DEFINE l == Len(a(i))
                 b == start[i]
                 e == start[j]
      <4>1. b + 1 + l <= e /\ e \in Nat /\ w[j] = e + 1
        BY <2>3, <3>4, <1>14, <1>15
      <4>2. k \in 2..1 + l /\ b \in Nat /\ l \in Nat /\ p = b + k
        BY ONLY <2>2, <3>1, <3>2
      <4> HIDE DEF l, b, e
      <4> QED
        BY ONLY <4>1, <4>2
    <3> QED
      BY <2>3, <3>1, <3>3, <3>4
  <2> QED
    BY <2>4, <2>5
<1>18. ASSUME NEW c \in Open(s)
       PROVE  \E p \in 1..Len(new) : new[p] = Result(c)
  <2>1. c \in Asked(s)
    BY OpenCalls
  <2>2. PICK i \in DOMAIN s : c \in CallsOf(s[i])
    BY <2>1 DEF Asked
  <2>3. i \in 1..Len(q) /\ i \in 1..Len(s)
    BY <1>1, <1>4
  <2>4. PICK k \in 1..Len(a(i)) : a(i)[k] = Result(c)
    BY <2>2, <2>3, <1>2
  <2>5. k + 1 \in 1..Len(q[i]) /\ q[i][k + 1] = Result(c)
    <3>1. Len(q[i]) = 1 + Len(a(i)) /\ Len(a(i)) \in Nat
      BY <2>3, <1>6
    <3>2. k + 1 \in 2..1 + Len(a(i)) /\ k + 1 \in 1..Len(q[i]) /\ k + 1 - 1 = k
      BY <3>1
    <3>3. q[i][k + 1] = a(i)[k + 1 - 1]
      BY <2>3, <3>2, <1>6
    <3> QED
      BY <3>2, <3>3, <2>4
  <2> QED
    <3>1. \E p \in 1..Len(new) : new[p] = q[i][k + 1]
      BY <2>3, <2>5, <1>13
    <3> QED
      BY <3>1, <2>5
<1>19. Woven(s, new, w)
  BY <1>8, <1>15, <1>16, <1>17, <1>18 DEF Woven
<1> QED
  BY <1>5, <1>11, <1>19

\* The rest of a sequence in order is in order.
LEMMA TailOrder ==
    ASSUME NEW s \in Seq(Message), NEW n \in 0..Len(s), Distinct(s), ResultsAfter(s)
    PROVE  LET t == SubSeq(s, n + 1, Len(s))
           IN  /\ t \in Seq(Message) /\ Len(t) = Len(s) - n
               /\ \A k \in 1..Len(t) : n + k \in n + 1..Len(s) /\ n + k \in 1..Len(s) /\ t[k] = s[n + k]
               /\ Distinct(t) /\ ResultsAfter(t)
<1> DEFINE t == SubSeq(s, n + 1, Len(s))
<1>1. Len(s) \in Nat /\ n \in Nat /\ n <= Len(s)
  OBVIOUS
<1>2. t \in Seq(Message) /\ Len(t) = Len(s) - n
  BY <1>1
<1>3. \A k \in 1..Len(s) - n : n + k \in n + 1..Len(s) /\ n + k \in 1..Len(s) /\ t[k] = s[n + k]
  BY <1>1
<1> HIDE DEF t
<1>4. DOMAIN t = 1..Len(t)
  BY <1>2
<1>5. ASSUME NEW k \in DOMAIN t
      PROVE  n + k \in DOMAIN s /\ t[k] = s[n + k] /\ k \in Int
  <2>1. k \in 1..Len(s) - n
    BY <1>2, <1>4
  <2>2. n + k \in 1..Len(s) /\ t[k] = s[n + k]
    BY <2>1, <1>3
  <2>3. DOMAIN s = 1..Len(s)
    OBVIOUS
  <2> QED
    BY <2>1, <2>2, <2>3
<1>6. Distinct(t)
  <2> SUFFICES ASSUME NEW k \in DOMAIN t, NEW l \in DOMAIN t, t[k] = t[l] PROVE k = l
    BY DEF Distinct
  <2>1. n + k \in DOMAIN s /\ n + l \in DOMAIN s /\ s[n + k] = s[n + l] /\ k \in Int /\ l \in Int
    BY <1>5
  <2>2. n + k = n + l
    BY <2>1 DEF Distinct
  <2> QED
    BY <2>1, <2>2, <1>1
<1>7. ResultsAfter(t)
  <2> SUFFICES ASSUME NEW k \in DOMAIN t, NEW l \in DOMAIN t, NEW c \in CallsOf(t[k]),
                      t[l] = Result(c)
               PROVE  k < l
    BY DEF ResultsAfter
  <2>1. /\ n + k \in DOMAIN s /\ n + l \in DOMAIN s /\ k \in Int /\ l \in Int
        /\ s[n + k] = t[k] /\ s[n + l] = t[l]
    BY <1>5
  <2>2. n + k < n + l
    BY <2>1 DEF ResultsAfter
  <2> QED
    BY <2>1, <2>2, <1>1
<1> QED
  BY <1>2, <1>3, <1>6, <1>7 DEF t

LEMMA RecoveredOrder ==
    ASSUME NEW s \in Seq(Message), Distinct(s), Apart(s), ResultsAfter(s),
           NEW new, NEW w, Woven(s, new, w)
    PROVE  ResultsAfter(new)
<1>1. /\ DOMAIN s = 1..Len(s) /\ DOMAIN new = 1..Len(new)
      /\ new \in Seq(Message)
  BY DEF Woven
<1> SUFFICES ASSUME NEW a \in 1..Len(new), NEW b \in 1..Len(new), NEW c \in CallsOf(new[a]),
                    new[b] = Result(c)
             PROVE  a < b
  BY <1>1 DEF ResultsAfter
<1>2. PICK i \in 1..Len(s) : a = w[i]
  <2>1. \A d : new[a] # Result(d)
    BY Kinds
  <2> QED
    BY <2>1 DEF Woven
<1>3. s[i] = new[a]
  BY <1>2 DEF Woven
<1>4. CASE \E j \in 1..Len(s) : b = w[j]
  <2>1. PICK j \in 1..Len(s) : b = w[j]
    BY <1>4
  <2>2. s[j] = Result(c)
    BY <2>1 DEF Woven
  <2>3. i < j
    BY <1>1, <1>3, <2>2 DEF ResultsAfter
  <2> QED
    BY <1>2, <2>1, <2>3 DEF Woven
<1>5. CASE ~ \E j \in 1..Len(s) : b = w[j]
  <2>1. PICK j \in 1..Len(s) : /\ w[j] < b
                               /\ \E d \in CallsOf(s[j]) \cap Open(s) : new[b] = Result(d)
    BY <1>5 DEF Woven
  <2>2. PICK d \in CallsOf(s[j]) \cap Open(s) : new[b] = Result(d)
    BY <2>1
  <2>3. c = d
    <3>1. Result(c) = Result(d) /\ Result(c).call = c /\ Result(d).call = d
      BY <2>2, Kinds
    <3> QED
      BY <3>1
  <2>4. s[i] = s[j]
    BY <1>1, <1>3, <2>3 DEF Apart
  <2>5. i = j
    BY <2>4, <1>1 DEF Distinct
  <2> QED
    BY <2>1, <2>5, <1>2
<1> QED
  BY <1>4, <1>5

\* The first difference is behind a message with an open call.
LEMMA RecoveredSame ==
    ASSUME NEW s \in Seq(Message), Distinct(s), NEW new, NEW w, Woven(s, new, w), Distinct(new),
           NEW same \in 1..Len(s), Differ(s, new, same)
    PROVE  /\ same < Len(new) /\ same \in Nat
           /\ \A i \in 1..same : w[i] = i
           /\ CallsOf(s[same]) \cap Open(s) # {}
<1>1. /\ new \in Seq(Message) /\ Len(s) \in Nat /\ Len(new) \in Nat
      /\ DOMAIN s = 1..Len(s) /\ DOMAIN new = 1..Len(new) /\ same \in Nat
  BY DEF Woven
<1>2. \A i \in 1..Len(s) : w[i] \in 1..Len(new) /\ new[w[i]] = s[i] /\ w[i] \in Nat
  BY <1>1 DEF Woven
<1>3. \A i, j \in 1..Len(s) : i < j => w[i] < w[j]
  BY DEF Woven
<1>4. \A i \in 1..Len(s) : w[i] >= i
  <2> DEFINE T == {i \in 1..Len(s) : w[i] >= i}
  <2>1. ASSUME NEW m \in 1..Len(s), m = 1 \/ m - 1 \in T
        PROVE  m \in T
    <3>1. CASE m = 1
      <4>1. w[m] \in 1..Len(new)
        BY <1>2
      <4> QED
        BY <3>1, <4>1, <1>1
    <3>2. CASE m # 1
      <4>1. m - 1 \in 1..Len(s) /\ w[m - 1] >= m - 1 /\ m - 1 < m
        BY <3>2, <2>1
      <4>2. w[m - 1] < w[m] /\ w[m] \in Nat /\ w[m - 1] \in Nat
        BY <4>1, <1>2, <1>3
      <4>3. w[m] >= m
        BY <4>1, <4>2
      <4> QED
        BY <4>3
    <3> QED
      BY <3>1, <3>2
  <2>2. 1..Len(s) \subseteq T
    <3>1. \A m \in 1..Len(s) : m = 1 \/ m - 1 \in T => m \in T
      BY <2>1
    <3> HIDE DEF T
    <3> QED
      BY <3>1, <1>1, Climb
  <2> QED
    BY <2>2
<1>5. Len(s) <= Len(new) /\ same <= Len(s) /\ same <= Len(new)
  <2>1. Len(s) \in 1..Len(s)
    BY <1>1
  <2>2. w[Len(s)] >= Len(s) /\ w[Len(s)] \in 1..Len(new)
    BY <2>1, <1>2, <1>4
  <2> QED
    BY <2>2, <1>1
<1>6. \A i \in 1..same : i \in 1..Len(s) /\ i \in 1..Len(new) /\ s[i] = new[i]
  <2> SUFFICES ASSUME NEW i \in 1..same PROVE i \in 1..Len(s) /\ i \in 1..Len(new) /\ s[i] = new[i]
    OBVIOUS
  <2>1. i \in 1..Len(s) /\ i \in 1..Len(new)
    BY <1>1, <1>5
  <2> QED
    BY <2>1 DEF Differ
<1>7. \A i \in 1..same : w[i] = i
  <2> SUFFICES ASSUME NEW i \in 1..same PROVE w[i] = i
    OBVIOUS
  <2>1. new[w[i]] = new[i] /\ w[i] \in DOMAIN new /\ i \in DOMAIN new
    BY <1>1, <1>2, <1>6
  <2> QED
    BY <2>1 DEF Distinct
<1>8. same < Len(new)
  <2>0. /\ Len(s) \in Nat /\ Len(new) \in Nat /\ same \in Nat
        /\ Len(s) <= Len(new) /\ same <= Len(s) /\ same <= Len(new)
    BY <1>1, <1>5
  <2>1. ASSUME same = Len(new)
        PROVE  FALSE
    <3>1. same = Len(s) /\ Len(s) = Len(new)
      BY ONLY <2>0, <2>1
    <3>2. \A i \in 1..Len(s) : s[i] = new[i]
      BY <3>1, <1>6
    <3>3. s = new
      BY <3>1, <3>2, <1>1, SeqEqual
    <3> QED
      BY <3>3 DEF Differ
  <2> QED
    BY ONLY <2>0, <2>1
<1>9. ASSUME NEW j \in 1..Len(s), same + 1 = w[j]
      PROVE  FALSE
  <2>1. j > same
    <3> SUFFICES ASSUME j <= same PROVE FALSE
      BY <1>1
    <3>1. j \in 1..same
      BY <1>1
    <3>2. w[j] = j
      BY <3>1, <1>7
    <3> QED
      BY <3>2, <1>9, <1>1
  <2>2. same + 1 \in 1..Len(s) /\ same # Len(s)
    <3>1. Len(s) \in Nat /\ same \in Nat /\ j \in 1..Len(s)
      BY <1>1
    <3> QED
      BY ONLY <2>1, <3>1
  <2>3. w[same + 1] = same + 1
    <3>1. w[same + 1] >= same + 1 /\ w[same + 1] \in Nat
      BY <2>2, <1>2, <1>4
    <3>2. w[same + 1] <= w[j]
      <4>1. CASE same + 1 = j
        BY <4>1, <3>1, <1>1
      <4>2. CASE same + 1 < j
        BY <4>2, <2>2, <1>2, <1>3
      <4> QED
        BY <4>1, <4>2, <2>1, <1>1
    <3> QED
      BY <3>1, <3>2, <1>9, <1>1
  <2>4. new[same + 1] = s[same + 1]
    BY <2>2, <2>3, <1>2
  <2> QED
    BY <2>2, <2>4 DEF Differ
<1>10. same + 1 \in 1..Len(new)
  BY <1>1, <1>8
<1>11. PICK i \in 1..Len(s) :
          /\ w[i] < same + 1 /\ \A j \in 1..Len(s) : i < j => same + 1 < w[j]
          /\ \E c \in CallsOf(s[i]) \cap Open(s) : new[same + 1] = Result(c)
  BY <1>9, <1>10 DEF Woven
<1>12. i = same
  <2>1. w[i] >= i /\ w[i] \in Nat
    BY <1>2, <1>4
  <2>2. i <= same
    BY <2>1, <1>11, <1>1
  <2>3. ~(i < same)
    <3> SUFFICES ASSUME i < same PROVE FALSE
      OBVIOUS
    <3>1. same + 1 < w[same] /\ w[same] = same
      <4>1. same \in 1..same /\ same \in 1..Len(s)
        BY <1>1, <1>5
      <4> QED
        BY <4>1, <1>7, <1>11
    <3> QED
      BY <3>1, <1>1
  <2> QED
    BY <2>2, <2>3, <1>1
<1> QED
  BY <1>1, <1>7, <1>8, <1>11, <1>12

\* What the entries of a repair are, for the rows rs with the messages old: all
\* behind the first message that changes, and a leaf.
RecoveryFrom(rs, old, new, same) ==
    /\ Differ(old, new, same)
    /\ Len(RecoveryEntries(rs)) = Len(new) - same + 1
    /\ \A k \in 1..Len(new) - same :
          RecoveryEntries(rs)[k] =
             MessageEntry(IF k = 1 THEN rs[same].id ELSE Len(file) + k - 1, new[same + k])
    /\ RecoveryEntries(rs)[Len(new) - same + 1] = LeafEntry(Len(file) + Len(new) - same)

LEMMA RecoveryForm ==
    ASSUME file \in Seq(Entry), IsTree(file), NEW leaf \in 0..Len(file),
           NEW rs, rs = Rows(file, leaf), NEW old, old = Messages(rs),
           NEW new, new = Recovered(old), new # old
    PROVE  /\ old \in Seq(Message) /\ new \in Seq(Message)
           /\ \E same \in 1..Len(old) : RecoveryFrom(rs, old, new, same)
<1> DEFINE same == CHOOSE n \in 0..Len(old) :
                      /\ SubSeq(old, 1, n) = SubSeq(new, 1, n)
                      /\ n = Len(old) \/ old[n + 1] # new[n + 1]
           more == SubSeq(new, same + 1, Len(new))
           es == RecoveryEntries(rs)
           L == Len(more)
           n0 == Len(file)
<1>1. n0 \in Nat /\ leaf \in 0..n0 /\ rs \in Seq(RowsTo(leaf))
  BY RowsTyped
<1>2. old \in Seq(Message) /\ Len(old) = Len(rs)
  BY <1>1, MessagesTyped
<1>3. /\ new \in Seq(Message) /\ Len(old) <= Len(new)
      /\ old # <<>> => new[1] = old[1]
      /\ old # <<>> /\ new # old
  BY <1>2, RecoveredTyped
<1>4. same \in 1..Len(old) /\ Differ(old, new, same)
  <2>1. old \in Seq(Message) /\ new \in Seq(Message)
    BY <1>2, <1>3
  <2> QED
    BY ONLY <2>1, <1>3, CommonPrefix
<1> DEFINE E(k) == LET n == n0 + k
                   IN  IF k > L THEN LeafEntry(n - 1)
                       ELSE MessageEntry(IF k = 1 THEN rs[same].id ELSE n - 1, more[k])
<1>5. es = [k \in 1..L + 1 |-> E(k)]
  BY DEF RecoveryEntries
<1> HIDE DEF same, es
<1>6. more \in Seq(Message) /\ L = Len(new) - same /\ L \in Nat /\ same \in Nat /\ Len(new) \in Nat
  <2>1. Len(old) \in Nat /\ Len(new) \in Nat
    BY <1>2, <1>3
  <2> QED
    BY <2>1, <1>3, <1>4
<1>7. \A k \in 1..L : more[k] = new[same + k]
  BY <1>3, <1>6
<1> HIDE DEF more, L, n0
<1>8. \A k \in 1..L + 1 : es[k] = E(k)
  <2> HIDE DEF E
  <2> QED
    BY <1>5
<1>9. Len(es) = L + 1
  <2>1. DOMAIN es = 1..L + 1 /\ L + 1 \in Nat
    BY <1>5, <1>6
  <2>2. es = [k \in 1..L + 1 |-> es[k]]
    BY <1>5
  <2> HIDE DEF E
  <2> QED
    BY <2>1, <2>2
<1>10. ASSUME NEW k \in 1..L
       PROVE  es[k] = MessageEntry(IF k = 1 THEN rs[same].id ELSE n0 + k - 1, new[same + k])
  <2>1. k \in 1..L + 1 /\ ~(k > L)
    BY <1>6
  <2>2. es[k] = E(k)
    <3> HIDE DEF E
    <3> QED
      BY <2>1, <1>8
  <2>3. E(k) = MessageEntry(IF k = 1 THEN rs[same].id ELSE n0 + k - 1, more[k])
    BY <2>1, <1>1, <1>6
  <2>4. more[k] = new[same + k]
    BY <1>7
  <2> HIDE DEF E
  <2> QED
    BY <2>2, <2>3, <2>4
<1>11. es[L + 1] = LeafEntry(n0 + L)
  <2>1. L + 1 \in 1..L + 1 /\ L + 1 > L /\ n0 + (L + 1) - 1 = n0 + L
    BY <1>1, <1>6
  <2>2. E(L + 1) = LeafEntry(n0 + (L + 1) - 1)
    BY <2>1, <1>1, <1>6
  <2>3. es[L + 1] = E(L + 1)
    <3> HIDE DEF E
    <3> QED
      BY <2>1, <1>8
  <2> HIDE DEF E
  <2> QED
    BY <2>1, <2>2, <2>3
<1>12. L + 1 = Len(new) - same + 1 /\ n0 + L = n0 + Len(new) - same
  BY <1>1, <1>6
<1> HIDE DEF E
<1>13. /\ Len(es) = Len(new) - same + 1
       /\ es[Len(new) - same + 1] = LeafEntry(n0 + Len(new) - same)
  BY <1>9, <1>11, <1>12
<1>14. \A k \in 1..Len(new) - same :
          es[k] = MessageEntry(IF k = 1 THEN rs[same].id ELSE n0 + k - 1, new[same + k])
  BY <1>6, <1>10
<1>15. RecoveryFrom(rs, old, new, same)
  BY <1>4, <1>13, <1>14 DEF es, n0, RecoveryFrom
<1> QED
  BY <1>2, <1>3, <1>4, <1>15

\* What stands behind row k of a path was not said on the path to row k.
LEMMA RowsBehind ==
    ASSUME NEW f \in Seq(Entry), IsTree(f), FileInOrder(f), NEW i \in 0..Len(f),
           NEW k \in 1..Len(Rows(f, i)), NEW l \in 1..Len(Rows(f, i)), k < l,
           f[Rows(f, i)[k].id].type # "compaction"
    PROVE  /\ Transcript(f, i)[l] \notin Said(f, Rows(f, i)[k].id)
           /\ \A c \in CallsOf(Transcript(f, i)[l]) : Result(c) \notin Said(f, Rows(f, i)[k].id)
<1> DEFINE rs == Rows(f, i)
           s == Transcript(f, i)
           x == rs[k].id
           z == rs[l].id
<1>1. /\ Len(s) = Len(rs) /\ Len(rs) \in Nat /\ s[l] = Value(f, z) /\ x \in 1..i /\ z \in 1..i
      /\ x \in Path(f, i) /\ z \in Path(f, i) /\ Speaks(f[z]) /\ 1..i \subseteq 1..Len(f)
  <2>1. 1..i \subseteq 1..Len(f)
    OBVIOUS
  <2> QED
    BY <2>1, TranscriptRows
<1>2. x < z
  BY RowShapes DEF RowShape, RowsAscend
<1>3. PathShape(f, i) /\ PathShape(f, x)
  BY <1>1, PathFacts
<1> HIDE DEF rs, s, x, z
<1>4. ASSUME NEW v \in Said(f, x)
      PROVE  v # s[l] /\ v \in Said(f, f[z].parent)
  <2>1. PICK y \in Path(f, x) : Speaks(f[y]) /\ v = Value(f, y)
    BY DEF Said
  <2>2. y \in Path(f, i) /\ y \in 1..x
    BY <1>1, <1>3 DEF PathShape
  <2>3. y < z
    BY <1>1, <1>2, <2>2
  <2> QED
    BY <1>1, <2>1, <2>2, <2>3, ValuesDiffer
<1>5. ASSUME NEW c \in CallsOf(s[l]), Result(c) \in Said(f, x)
      PROVE  FALSE
  <2>1. f[z].type = "message" /\ f[z].message = s[l]
    <3>1. CASE f[z].type # "message"
      <4>1. s[l] = Summary(z)
        BY <3>1, <1>1 DEF Value
      <4> QED
        BY <4>1, <1>5, Kinds
    <3> QED
      BY <3>1, <1>1 DEF Value
  <2>2. EntryInOrder(f, z)
    <3>1. z \in DOMAIN f
      BY <1>1
    <3> QED
      BY <3>1 DEF FileInOrder
  <2>3. Result(c) \notin Said(f, f[z].parent)
    BY <2>1, <2>2 DEF EntryInOrder
  <2> QED
    BY <2>3, <1>4, <1>5
<1> QED
  BY <1>4, <1>5 DEF s, x, rs

\* The repair of the transcript s of a file, of which new is the result.
Recovers(f, g, end, s, new, same, w, node, h, d) ==
    /\ Woven(s, new, w) /\ Distinct(new) /\ same \in 1..Len(s) /\ same < Len(new)
    /\ \A i \in 1..same : w[i] = i
    /\ Chained(f, g, node, SubSeq(new, same + 1, Len(new))) /\ node[Len(new) - same] = end
    /\ MayFollow(SubSeq(new, same + 1, Len(new)), Said(f, node[0]), Len(f))
    /\ h \in 0..1 /\ d \in Nat /\ (h = 1 => IsSummary(s[1]))
    /\ Len(Transcript(f, node[0])) = same + d
    /\ \A l \in h + 1..same : Transcript(f, node[0])[l + d] = s[l]
    /\ CallsOf(s[same]) \cap Open(s) # {}
    /\ f[node[0]].type = "message" /\ f[node[0]].message = s[same]

\* The rows that the path of row k has, as messages.
LEMMA TranscriptAgain ==
    ASSUME NEW f \in Seq(Entry), IsTree(f), FileInOrder(f), NEW i \in 0..Len(f),
           NEW k \in 1..Len(Rows(f, i)), f[Rows(f, i)[k].id].type # "compaction"
    PROVE  \E h \in 0..1, d \in Nat :
              /\ h = 1 => IsSummary(Transcript(f, i)[1])
              /\ Len(Transcript(f, Rows(f, i)[k].id)) = k + d
              /\ \A l \in h + 1..k :
                    Transcript(f, Rows(f, i)[k].id)[l + d] = Transcript(f, i)[l]
<1> DEFINE x == Rows(f, i)[k].id
<1>1. /\ Len(Transcript(f, i)) = Len(Rows(f, i)) /\ Len(Rows(f, i)) \in Nat
      /\ \A l \in 1..Len(Rows(f, i)) : /\ Transcript(f, i)[l] = Rows(f, i)[l].message
                                       /\ Transcript(f, i)[l] = Value(f, Rows(f, i)[l].id)
      /\ x \in 1..i
  BY TranscriptRows
<1>2. x \in 0..Len(f)
  BY <1>1
<1> HIDE DEF x
<1>3. /\ Len(Transcript(f, x)) = Len(Rows(f, x)) /\ Len(Rows(f, x)) \in Nat
      /\ \A l \in 1..Len(Rows(f, x)) : Transcript(f, x)[l] = Rows(f, x)[l].message
  BY <1>2, TranscriptRows
<1>4. PICK h \in 0..1, d \in Nat : Again(f, i, k, h, d)
  <2>1. RowsAgain(f, i)
    BY RowShapes DEF RowShape
  <2> QED
    BY <2>1 DEF RowsAgain
<1>5. k + d = Len(Rows(f, x)) /\ (h = 1 => f[Rows(f, i)[1].id].type = "compaction")
  BY <1>4 DEF Again, x
<1>6. h = 1 => IsSummary(Transcript(f, i)[1])
  <2> SUFFICES ASSUME h = 1 PROVE IsSummary(Transcript(f, i)[1])
    OBVIOUS
  <2>1. 1 \in 1..Len(Rows(f, i))
    BY <1>1
  <2>2. Transcript(f, i)[1] = Summary(Rows(f, i)[1].id)
    BY <2>1, <1>1, <1>5 DEF Value
  <2> QED
    BY <2>2, Kinds
<1>7. ASSUME NEW l \in h + 1..k
      PROVE  Transcript(f, x)[l + d] = Transcript(f, i)[l]
  <2>1. l \in 1..Len(Rows(f, i)) /\ l + d \in 1..Len(Rows(f, x))
    BY <1>1, <1>3, <1>5
  <2>2. Rows(f, i)[l] = Rows(f, x)[l + d]
    BY <1>4 DEF Again, x
  <2> QED
    BY <2>1, <2>2, <1>1, <1>3
<1> QED
  BY <1>3, <1>5, <1>6, <1>7 DEF x

LEMMA RecoveryFollows ==
    ASSUME NEW f \in Seq(Entry), IsTree(f), FileInOrder(f), NEW leaf \in 0..Len(f),
           NEW s, s = Transcript(f, leaf), Apart(s),
           \A i \in DOMAIN s : IsSummary(s[i]) => s[i].summarizes \in 1..Len(f),
           NEW new, NEW w, Woven(s, new, w), Distinct(new), ResultsAfter(new),
           NEW same \in 1..Len(s), same < Len(new), \A i \in 1..same : w[i] = i,
           f[Rows(f, leaf)[same].id].type # "compaction"
    PROVE  MayFollow(SubSeq(new, same + 1, Len(new)), Said(f, Rows(f, leaf)[same].id), Len(f))
<1> DEFINE x == Rows(f, leaf)[same].id
           ms == SubSeq(new, same + 1, Len(new))
<1>1. /\ s \in Seq(Message) /\ Len(s) \in Nat /\ Len(s) = Len(Rows(f, leaf)) /\ DOMAIN s = 1..Len(s)
      /\ new \in Seq(Message) /\ Len(new) \in Nat /\ DOMAIN new = 1..Len(new)
      /\ same \in Nat /\ same \in 0..Len(new) /\ x \in Path(f, leaf) /\ x \in 0..Len(f)
  <2>1. s \in Seq(Message) /\ Len(s) \in Nat /\ Len(s) = Len(Rows(f, leaf))
    BY TranscriptRows
  <2>2. new \in Seq(Message)
    BY DEF Woven
  <2>3. same \in 1..Len(Rows(f, leaf))
    BY <2>1
  <2>4. x \in Path(f, leaf) /\ x \in 1..leaf
    BY <2>3, <2>1, TranscriptRows
  <2> QED
    BY <2>1, <2>2, <2>4
<1>2. TranscriptInOrder(s, Said(f, leaf)) /\ Said(f, x) \subseteq Said(f, leaf)
  <2>1. TranscriptInOrder(Transcript(f, leaf), Said(f, leaf))
    BY TranscriptOrder
  <2>2. Said(f, x) \subseteq Said(f, leaf)
    BY <1>1, SaidWithin
  <2> QED
    BY <2>1, <2>2
<1>3. /\ ms \in Seq(Message) /\ Len(ms) = Len(new) - same
      /\ \A k \in 1..Len(ms) : same + k \in 1..Len(new) /\ ms[k] = new[same + k]
      /\ Distinct(ms) /\ ResultsAfter(ms)
  <2>1. new \in Seq(Message) /\ same \in 0..Len(new) /\ Distinct(new) /\ ResultsAfter(new)
    BY <1>1
  <2> QED
    BY ONLY <2>1, TailOrder DEF ms
<1> HIDE DEF ms, x
<1>4. ASSUME NEW k \in DOMAIN ms
      PROVE  /\ ms[k] \notin Said(f, x)
             /\ \A c \in CallsOf(ms[k]) : Result(c) \notin Said(f, x)
             /\ IsSummary(ms[k]) => ms[k].summarizes \in 1..Len(f)
  <2>1. same + k \in 1..Len(new) /\ ms[k] = new[same + k] /\ k \in Nat /\ k > 0
    <3>1. k \in 1..Len(ms)
      BY <1>3
    <3> QED
      BY <3>1, <1>3
  <2>2. CASE \E i \in 1..Len(s) : same + k = w[i]
    <3>1. PICK i \in 1..Len(s) : same + k = w[i]
      BY <2>2
    <3>2. ms[k] = s[i]
      BY <2>1, <3>1 DEF Woven
    <3>3. same < i
      <4> SUFFICES ASSUME ~(same < i) PROVE FALSE
        OBVIOUS
      <4>1. i \in 1..same
        BY <1>1
      <4>2. same + k = i
        BY <4>1, <3>1
      <4> QED
        BY <4>1, <4>2, <2>1, <1>1
    <3>4. i \in 1..Len(Rows(f, leaf)) /\ same \in 1..Len(Rows(f, leaf)) /\ i \in DOMAIN s
      BY <1>1
    <3>5. s[i] \notin Said(f, x) /\ \A c \in CallsOf(s[i]) : Result(c) \notin Said(f, x)
      BY <3>3, <3>4, RowsBehind DEF x
    <3> QED
      BY <3>2, <3>4, <3>5
  <2>3. CASE ~ \E i \in 1..Len(s) : same + k = w[i]
    <3>1. PICK i \in 1..Len(s) : \E c \in CallsOf(s[i]) \cap Open(s) : new[same + k] = Result(c)
      BY <2>1, <2>3 DEF Woven
    <3>2. PICK c \in Open(s) : ms[k] = Result(c)
      BY <3>1, <2>1
    <3>3. Result(c) \notin Said(f, leaf)
      <4>1. c \in Asked(s) /\ \A j \in DOMAIN s : s[j] # Result(c)
        BY <1>1, OpenCalls
      <4> QED
        BY <4>1, <1>2 DEF TranscriptInOrder
    <3>4. Result(c) \notin Said(f, x)
      BY <3>3, <1>2
    <3>5. CallsOf(ms[k]) = {} /\ ~IsSummary(ms[k])
      BY <3>2, Kinds
    <3> QED
      BY <3>2, <3>4, <3>5
  <2> QED
    BY <2>2, <2>3
<1> QED
  BY <1>3, <1>4 DEF MayFollow, ms, x

LEMMA RecoveryChain ==
    ASSUME file \in Seq(Entry), IsTree(file), FileInOrder(file), NEW leaf \in 0..Len(file),
           NEW s, s = Transcript(file, leaf), Apart(s), Recovered(s) # s,
           \A i \in DOMAIN s : IsSummary(s[i]) => s[i].summarizes \in 1..Len(file),
           NEW es, es = RecoveryEntries(Rows(file, leaf))
    PROVE  \E same, w, node, h, d :
              Recovers(file, file \o es, Len(file) + Len(es) - 1, s, Recovered(s), same, w, node, h, d)
<1> DEFINE new == Recovered(s)
           rs == Rows(file, leaf)
           n == Len(file)
           g == file \o es
<1>1. /\ s \in Seq(Message) /\ Len(s) \in Nat /\ Len(s) = Len(rs) /\ n \in Nat
      /\ \A k \in 1..Len(s) : /\ s[k] = Value(file, rs[k].id)
                              /\ rs[k].id \in 1..leaf
      /\ s = Messages(rs)
  <2>1. s = Messages(rs)
    BY DEF Transcript
  <2>2. n \in Nat
    OBVIOUS
  <2>3. LET rr == Rows(file, leaf)
            ss == Transcript(file, leaf)
        IN  /\ ss \in Seq(Message) /\ Len(ss) = Len(rr) /\ Len(ss) \in Nat
            /\ \A k \in 1..Len(ss) : ss[k] = Value(file, rr[k].id) /\ rr[k].id \in 1..leaf
    BY TranscriptRows
  <2> QED
    BY <2>1, <2>2, <2>3
<1>2. Distinct(s) /\ ResultsAfter(s)
  BY TranscriptOrder DEF TranscriptInOrder
<1>3. PICK w : Woven(s, new, w) /\ Distinct(new)
  BY <1>1, <1>2, RecoveredShape
<1>4. ResultsAfter(new) /\ new \in Seq(Message) /\ Len(new) \in Nat
  <2>1. ResultsAfter(new)
    BY <1>1, <1>2, <1>3, RecoveredOrder
  <2>2. new \in Seq(Message)
    BY <1>3 DEF Woven
  <2> QED
    BY <2>1, <2>2
<1> HIDE DEF new
<1>5. new = Recovered(s) /\ new # s
  BY DEF new
<1>6. PICK same \in 1..Len(s) :
         /\ Differ(s, new, same) /\ Len(es) = Len(new) - same + 1
         /\ \A k \in 1..Len(new) - same :
               es[k] = MessageEntry(IF k = 1 THEN rs[same].id ELSE n + k - 1, new[same + k])
         /\ es[Len(new) - same + 1] = LeafEntry(n + Len(new) - same)
  <2> DEFINE rr == Rows(file, leaf)
  <2>1. rr = Rows(file, leaf) /\ s = Messages(rr)
    BY <1>1
  <2>2. es = RecoveryEntries(rr)
    OBVIOUS
  <2> HIDE DEF rr
  <2>3. PICK same \in 1..Len(s) : RecoveryFrom(rr, s, new, same)
    BY ONLY <2>1, <1>5, file \in Seq(Entry), IsTree(file), leaf \in 0..Len(file), RecoveryForm
  <2> QED
    BY <2>2, <2>3 DEF rr, RecoveryFrom
<1>7. /\ same < Len(new) /\ same \in Nat /\ \A i \in 1..same : w[i] = i
      /\ CallsOf(s[same]) \cap Open(s) # {}
  BY ONLY <1>1, <1>2, <1>3, <1>5, <1>6, RecoveredSame
<1> DEFINE x == rs[same].id
           ms == SubSeq(new, same + 1, Len(new))
           L == Len(new) - same
           node == [j \in 0..L |-> IF j = 0 THEN x ELSE n + j]
<1>8. /\ same \in 1..Len(rs) /\ x \in 1..leaf /\ x \in 0..n /\ L \in Nat /\ L > 0
      /\ same \in 0..Len(new)
  <2>1. same \in 1..Len(rs)
    BY <1>1
  <2>2. x \in 1..leaf
    BY <1>1
  <2>3. leaf \in 0..n
    OBVIOUS
  <2> HIDE DEF x, rs, n
  <2> QED
    BY <2>1, <2>2, <2>3, <1>1, <1>4, <1>7
<1>9. file[x].type # "compaction" /\ file[x].type = "message" /\ file[x].message = s[same]
  <2>1. s[same] = Value(file, x)
    BY <1>1
  <2> HIDE DEF x
  <2>2. s[same] # Summary(x)
    BY <1>7, Kinds
  <2> QED
    BY <2>1, <2>2 DEF Value
<1>10. /\ ms \in Seq(Message) /\ Len(ms) = L
       /\ \A k \in 1..L : ms[k] = new[same + k]
  BY <1>3, <1>4, <1>8, TailOrder
<1>11. Fits(n, es)
  <2>1. Recovered(Messages(rs)) # Messages(rs)
    BY <1>1
  <2> QED
    BY <2>1, RecoveryFits
<1>12. /\ g \in Seq(Entry) /\ IsTree(g) /\ Len(g) = n + (L + 1)
       /\ \A i \in 1..n : g[i] = file[i]
       /\ \A k \in 1..L + 1 : g[n + k] = es[k]
  <2>1. Len(es) = L + 1
    BY <1>6
  <2>2. /\ file \o es \in Seq(Entry) /\ IsTree(file \o es)
        /\ Len(file \o es) = Len(file) + Len(es)
        /\ \A i \in 1..Len(file) : (file \o es)[i] = file[i]
        /\ \A k \in 1..Len(es) : (file \o es)[Len(file) + k] = es[k]
    BY <1>11, TreeConcat
  <2> HIDE DEF L
  <2> QED
    BY <2>1, <2>2
<1>13. MayFollow(ms, Said(file, x), n)
  BY <1>3, <1>4, <1>7, <1>9, RecoveryFollows
<1>14. PICK h \in 0..1, d \in Nat :
          /\ h = 1 => IsSummary(s[1])
          /\ Len(Transcript(file, x)) = same + d
          /\ \A l \in h + 1..same : Transcript(file, x)[l + d] = s[l]
  BY <1>8, <1>9, TranscriptAgain
<1>15. node[0] = x /\ \A j \in 1..L : node[j] = n + j
  <2> HIDE DEF x, L, n
  <2> QED
    BY <1>8
<1> HIDE DEF node, x, ms, g
<1>16. es[L + 1] = LeafEntry(n + L)
  BY <1>1, <1>4, <1>6, <1>7
<1>17. \A k \in 1..L : es[k] = MessageEntry(IF k = 1 THEN x ELSE n + k - 1, new[same + k])
  BY <1>6 DEF x
<1> HIDE DEF L, n, rs
<1>18. Chained(file, g, node, ms)
  <2>1. Continues(file, g)
    <3>1. Len(file) <= Len(g)
      BY <1>8, <1>12 DEF n
    <3> QED
      BY <3>1, <1>12 DEF Continues, n
  <2>2. ASSUME NEW j \in 1..Len(ms)
        PROVE  node[j] \in Len(file) + 1..Len(g) /\ g[node[j]] = MessageEntry(node[j - 1], ms[j])
    <3>1. j \in 1..L /\ j \in 1..L + 1 /\ node[j] = n + j
      BY <1>8, <1>10, <1>15
    <3>2. g[n + j] = MessageEntry(IF j = 1 THEN x ELSE n + j - 1, ms[j])
      BY <3>1, <1>10, <1>12, <1>17
    <3>3. node[j - 1] = IF j = 1 THEN x ELSE n + j - 1
      <4>1. CASE j = 1
        BY <4>1, <1>15
      <4>2. CASE j # 1
        <5>1. j - 1 \in 1..L /\ n + (j - 1) = n + j - 1
          BY <4>2, <3>1, <1>1, <1>8
        <5> QED
          BY <4>2, <5>1, <1>15
      <4> QED
        BY <4>1, <4>2
    <3>4. n + j \in n + 1..Len(g)
      BY <3>1, <1>1, <1>8, <1>12
    <3> QED
      BY <3>1, <3>2, <3>3, <3>4 DEF n
  <2>3. ASSUME NEW i \in Len(file) + 1..Len(g)
        PROVE  (\E j \in 1..Len(ms) : i = node[j]) \/ ~Speaks(g[i])
    <3>1. i \in n + 1..n + (L + 1)
      BY <1>12 DEF n
    <3>2. CASE i - n \in 1..L
      <4>1. i = n + (i - n)
        BY <3>1, <1>1
      <4>2. node[i - n] = n + (i - n)
        BY <3>2, <1>15
      <4> QED
        BY <3>2, <4>1, <4>2, <1>10
    <3>3. CASE i - n \notin 1..L
      <4>1. i = n + (L + 1) /\ L + 1 \in 1..L + 1
        BY <3>1, <3>3, <1>1, <1>8
      <4>2. g[i] = LeafEntry(n + L)
        BY <4>1, <1>12, <1>16
      <4> QED
        BY <4>2 DEF LeafEntry, Speaks
    <3> QED
      BY <3>2, <3>3
  <2> QED
    BY <2>1, <2>2, <2>3, <1>8, <1>10, <1>15 DEF Chained, n
<1>19. node[Len(new) - same] = Len(file) + Len(es) - 1
  <2>1. L \in 1..L /\ Len(new) - same = L /\ Len(file) + Len(es) - 1 = n + L
    <3>1. Len(es) = Len(new) - same + 1 /\ L = Len(new) - same
      BY <1>6 DEF L
    <3> QED
      BY <3>1, <1>1, <1>8 DEF n
  <2> QED
    BY <2>1, <1>15
<1>20. Recovers(file, g, Len(file) + Len(es) - 1, s, new, same, w, node, h, d)
  BY <1>3, <1>7, <1>9, <1>13, <1>14, <1>15, <1>18, <1>19 DEF Recovers, ms, n
<1> QED
  BY <1>20 DEF new, g

\* What is said on a path is a message of the file or the summary of an entry of it.
LEMMA SaidFrom ==
    ASSUME NEW f \in Seq(Entry), IsTree(f), NEW i \in 0..Len(f), NEW m \in Said(f, i)
    PROVE  \E k \in 1..i : /\ Speaks(f[k]) /\ m = Value(f, k) /\ k \in Path(f, i)
                           /\ k \in 1..Len(f)
                           /\ m \in Held(f) \/ m = Summary(k)
<1>1. PICK k \in Path(f, i) : Speaks(f[k]) /\ m = Value(f, k)
  BY DEF Said
<1>2. Path(f, i) \subseteq 1..i
  BY PathFacts DEF PathShape
<1>3. k \in 1..i /\ k \in 1..Len(f) /\ DOMAIN f = 1..Len(f)
  <2>1. Len(f) \in Nat
    OBVIOUS
  <2> QED
    BY <2>1, <1>1, <1>2
<1>4. m \in Held(f) \/ m = Summary(k)
  BY <1>1, <1>3 DEF Held, Value
<1> QED
  BY <1>1, <1>3, <1>4

\* No path of the file says the summary of an entry that is not in it.
LEMMA SummaryFresh ==
    ASSUME NEW f \in Seq(Entry), IsTree(f), FileInOrder(f), NEW i \in 0..Len(f),
           NEW n \in Nat, n > Len(f)
    PROVE  Summary(n) \notin Said(f, i)
<1> SUFFICES ASSUME Summary(n) \in Said(f, i) PROVE FALSE
  OBVIOUS
<1>1. PICK k \in 1..Len(f) : Speaks(f[k]) /\ Summary(n) = Value(f, k)
  BY SaidFrom
<1>2. EntryInOrder(f, k) /\ k <= Len(f) /\ k \in Nat /\ Len(f) \in Nat
  BY DEF FileInOrder
<1>3. CASE f[k].type = "message"
  <2>1. f[k].message = Summary(n)
    BY <1>1, <1>3 DEF Value
  <2>2. Summary(n).summarizes < k
    BY <2>1, <1>2, <1>3, Kinds DEF EntryInOrder
  <2> QED
    BY <2>2, <1>2 DEF Summary
<1>4. CASE f[k].type # "message"
  <2>1. Summary(n) = Summary(k)
    BY <1>1, <1>4 DEF Value
  <2>2. n = k
    BY <2>1 DEF Summary
  <2> QED
    BY <2>2, <1>2
<1> QED
  BY <1>3, <1>4

\* File g is f with entries behind it, in order too, that hold no messages but new ones.
Adds(f, g, new) ==
    Continues(f, g) /\ FileInOrder(g) /\ Held(g) \subseteq Held(f) \cup new

\* Entries without messages, of which each speaks below an entry of the old file if at
\* all, keep a file in order.
LEMMA QuietOrder ==
    ASSUME NEW f, NEW g, Continues(f, g), FileInOrder(f),
           \A i \in Len(f) + 1..Len(g) :
               /\ g[i].type # "message"
               /\ Speaks(g[i]) => g[i].parent \in 0..Len(f)
               /\ g[i].type = "compaction" => FirstRows(Rows(f, g[i].parent), g[i].replaces)
    PROVE  Adds(f, g, {})
<1>1. /\ f \in Seq(Entry) /\ IsTree(f) /\ g \in Seq(Entry) /\ IsTree(g)
      /\ Len(f) <= Len(g) /\ \A i \in 1..Len(f) : g[i] = f[i]
      /\ Len(f) \in Nat /\ Len(g) \in Nat /\ DOMAIN f = 1..Len(f) /\ DOMAIN g = 1..Len(g)
  BY DEF Continues
<1>2. ASSUME NEW i \in Len(f) + 1..Len(g)
      PROVE  EntryInOrder(g, i)
  <2>1. g[i].type # "message"
    OBVIOUS
  <2>2. CASE Speaks(g[i])
    <3>1. g[i].parent \in 0..Len(f)
      BY <2>2
    <3>2. Said(g, g[i].parent) = Said(f, g[i].parent)
      BY <3>1, <1>1, SaidPrefix
    <3>3. Rows(g, g[i].parent) = Rows(f, g[i].parent)
      BY <3>1, <1>1, RowsPrefix
    <3>4. Value(g, i) = Summary(i)
      BY <2>1 DEF Value
    <3>5. i \in Nat /\ i > Len(f)
      BY <1>1
    <3>6. Summary(i) \notin Said(f, g[i].parent)
      BY <3>1, <3>5, <1>1, SummaryFresh
    <3> QED
      BY <2>1, <3>2, <3>3, <3>4, <3>6 DEF EntryInOrder
  <2>3. CASE ~Speaks(g[i])
    BY <2>3 DEF EntryInOrder, Speaks
  <2> QED
    BY <2>2, <2>3
<1>3. FileInOrder(g)
  BY <1>1, <1>2, OrderPrefix
<1>4. Held(g) \subseteq Held(f)
  <2> SUFFICES ASSUME NEW m \in Held(g) PROVE m \in Held(f)
    OBVIOUS
  <2>1. PICK i \in 1..Len(g) : g[i].type = "message" /\ m = g[i].message
    BY <1>1 DEF Held
  <2>2. i \in 1..Len(f)
    <3>1. i \notin Len(f) + 1..Len(g)
      BY <2>1
    <3> QED
      BY <3>1, <1>1
  <2> QED
    BY <2>1, <2>2, <1>1 DEF Held
<1> QED
  BY <1>3, <1>4 DEF Adds

\* A chain of messages that may follow keeps a file in order.
LEMMA ChainAdds ==
    ASSUME NEW f, NEW g, NEW node, NEW ms, Chained(f, g, node, ms),
           FileInOrder(f), MayFollow(ms, Said(f, node[0]), Len(f))
    PROVE  Adds(f, g, {ms[k] : k \in 1..Len(ms)})
<1>1. Continues(f, g)
  BY DEF Chained
<1>2. FileInOrder(g)
  BY ChainOrder
<1>3. /\ Len(f) \in Nat /\ Len(g) \in Nat /\ DOMAIN f = 1..Len(f) /\ DOMAIN g = 1..Len(g)
      /\ \A i \in 1..Len(f) : g[i] = f[i]
  BY <1>1 DEF Continues
<1>4. Held(g) \subseteq Held(f) \cup {ms[k] : k \in 1..Len(ms)}
  <2> SUFFICES ASSUME NEW m \in Held(g) PROVE m \in Held(f) \cup {ms[k] : k \in 1..Len(ms)}
    OBVIOUS
  <2>1. PICK i \in 1..Len(g) : g[i].type = "message" /\ m = g[i].message
    BY <1>3 DEF Held
  <2>2. CASE i \in 1..Len(f)
    BY <2>1, <2>2, <1>3 DEF Held
  <2>3. CASE i \in Len(f) + 1..Len(g)
    <3>1. PICK k \in 1..Len(ms) : i = node[k]
      BY <2>1, <2>3 DEF Chained, Speaks
    <3>2. g[node[k]].message = ms[k]
      BY ChainLink
    <3> QED
      BY <3>1, <3>2, <2>1
  <2>4. i \in 1..Len(f) \/ i \in Len(f) + 1..Len(g)
    BY <1>3
  <2> QED
    BY <2>2, <2>3, <2>4
<1> QED
  BY <1>1, <1>2, <1>4 DEF Adds

\* A cut of the file that goes beyond f adds no more than the whole.
LEMMA AddsPart ==
    ASSUME NEW f, NEW g, NEW new, Adds(f, g, new), NEW h, Continues(f, h), Continues(h, g)
    PROVE  Adds(f, h, new)
<1>1. FileInOrder(h)
  BY OrderPrefix DEF Adds, Continues
<1>2. Held(h) \subseteq Held(g)
  BY HeldGrows DEF Continues
<1> QED
  BY <1>1, <1>2 DEF Adds

LEMMA AddsBehind ==
    ASSUME NEW f, NEW b, NEW g, NEW new, Adds(f, b, {}), Adds(b, g, new)
    PROVE  Adds(f, g, new)
<1>1. Continues(f, g)
  <2>1. /\ f \in Seq(Entry) /\ IsTree(f) /\ g \in Seq(Entry) /\ IsTree(g)
        /\ Len(f) \in Nat /\ Len(b) \in Nat /\ Len(g) \in Nat
        /\ Len(f) <= Len(b) /\ Len(b) <= Len(g)
        /\ \A i \in 1..Len(f) : b[i] = f[i]
        /\ \A i \in 1..Len(b) : g[i] = b[i]
    BY DEF Adds, Continues
  <2>2. \A i \in 1..Len(f) : i \in 1..Len(b)
    BY <2>1
  <2>3. Len(f) <= Len(g)
    BY <2>1
  <2> QED
    BY <2>1, <2>2, <2>3 DEF Continues
<1> QED
  BY <1>1 DEF Adds

LEMMA BegunAdds ==
    ASSUME NEW f \in Seq(Entry), IsTree(f), FileInOrder(f)
    PROVE  Adds(f, Begun(f), {})
<1>1. Continues(f, Begun(f))
  BY BegunTyped DEF Continues
<1>2. CASE f # <<>>
  <2>1. Begun(f) = f
    BY <1>2 DEF Begun
  <2> QED
    BY <2>1, <1>1 DEF Adds
<1>3. CASE f = <<>>
  <2>1. Begun(f) = <<MetaEntry(0)>> /\ Len(f) = 0
    BY <1>3 DEF Begun
  <2>2. \A i \in Len(f) + 1..Len(Begun(f)) : Begun(f)[i].type = "meta"
    BY <2>1 DEF MetaEntry
  <2> HIDE <1>3
  <2>3. \A i \in Len(f) + 1..Len(Begun(f)) :
               /\ Begun(f)[i].type # "message"
               /\ ~Speaks(Begun(f)[i])
               /\ Begun(f)[i].type # "compaction"
    BY <2>2 DEF Speaks
  <2> QED
    BY <2>3, <1>1, QuietOrder
<1> QED
  BY <1>2, <1>3

\* A burst of message entries is a chain.
LEMMA BurstChain ==
    ASSUME NEW f \in Seq(Entry), IsTree(f), NEW p \in 0..Len(f), NEW ms \in Seq(Message),
           NEW node, node = [j \in 0..Len(ms) |-> IF j = 0 THEN p ELSE Len(f) + 2 * j - 1]
    PROVE  Chained(f, f \o Burst(Len(f), p, ms), node, ms)
<1> DEFINE n == Len(f)
           L == Len(ms)
           es == Burst(n, p, ms)
           g == f \o es
<1>1. /\ Fits(n, es) /\ Len(es) = 2 * L /\ n \in Nat /\ L \in Nat
      /\ \A j \in 1..L : /\ 2 * j - 1 \in 1..2 * L
                         /\ es[2 * j - 1] = MessageEntry(IF j = 1 THEN p ELSE n + 2 * (j - 1) - 1, ms[j])
  <2>1. n \in Nat
    OBVIOUS
  <2>2. p \in 0..n
    OBVIOUS
  <2> HIDE DEF n
  <2> QED
    BY <2>1, <2>2, BurstFits
<1>2. \A k \in 1..2 * L : k % 2 = 0 => es[k] = LeafEntry(n + k - 1)
  BY DEF Burst
<1>3. node[0] = p /\ \A j \in 1..L : node[j] = n + 2 * j - 1
  <2>1. 0 \in 0..L /\ \A j \in 1..L : j \in 0..L /\ j # 0
    BY <1>1
  <2> QED
    BY <2>1
<1> HIDE DEF es
<1>4. /\ g \in Seq(Entry) /\ IsTree(g) /\ Len(g) = n + 2 * L
      /\ \A i \in 1..n : g[i] = f[i]
      /\ \A k \in 1..2 * L : g[n + k] = es[k]
  <2>1. f \in Seq(Entry) /\ IsTree(f) /\ Fits(Len(f), es)
    BY <1>1
  <2>2. /\ g \in Seq(Entry) /\ IsTree(g) /\ Len(g) = Len(f) + Len(es)
        /\ \A i \in 1..Len(f) : g[i] = f[i]
        /\ \A k \in 1..Len(es) : g[Len(f) + k] = es[k]
    BY ONLY <2>1, TreeConcat
  <2> HIDE DEF g
  <2> QED
    BY <1>1, <2>2
<1> HIDE DEF g, n, L
<1>5. Continues(f, g)
  <2>1. n <= Len(g)
    BY <1>1, <1>4
  <2> QED
    BY <1>4, <2>1 DEF Continues, n
<1>6. ASSUME NEW j \in 1..L
      PROVE  node[j] \in n + 1..Len(g) /\ g[node[j]] = MessageEntry(node[j - 1], ms[j])
  <2>1. 2 * j - 1 \in 1..2 * L /\ node[j] = n + (2 * j - 1)
    BY <1>1, <1>3
  <2>2. node[j] \in n + 1..Len(g)
    BY <2>1, <1>1, <1>4
  <2>3. g[node[j]] = MessageEntry(IF j = 1 THEN p ELSE n + 2 * (j - 1) - 1, ms[j])
    BY <2>1, <1>1, <1>4, SMTT(30)
  <2>4. node[j - 1] = IF j = 1 THEN p ELSE n + 2 * (j - 1) - 1
    <3>1. CASE j = 1
      BY <3>1, <1>3
    <3>2. CASE j # 1
      <4>1. j - 1 \in 1..L
        BY <3>2, <1>1
      <4>2. node[j - 1] = n + 2 * (j - 1) - 1
        BY <4>1, <1>3
      <4> QED
        BY <4>2, <3>2
    <3> QED
      BY <3>1, <3>2
  <2> QED
    BY <2>2, <2>3, <2>4
<1>7. ASSUME NEW i \in n + 1..Len(g)
      PROVE  (\E j \in 1..L : i = node[j]) \/ ~Speaks(g[i])
  <2> DEFINE k == i - n
  <2>1. k \in 1..2 * L /\ i = n + k /\ k \in Nat
    BY <1>1, <1>4
  <2> HIDE DEF k
  <2>2. CASE k % 2 = 0
    <3>1. g[i] = LeafEntry(n + k - 1)
      BY <2>1, <2>2, <1>2, <1>4
    <3>2. g[i].type = "leaf"
      BY <3>1 DEF LeafEntry
    <3> QED
      BY <3>2 DEF Speaks
  <2>3. CASE k % 2 # 0
    <3>1. PICK j \in 1..L : k = 2 * j - 1
      <4>1. (k + 1) \div 2 \in 1..L /\ k = 2 * ((k + 1) \div 2) - 1
        <5>1. k % 2 = 1
          BY ONLY <2>1, <2>3, SMT
        <5> QED
          BY ONLY <2>1, <5>1, <1>1, SMT
      <4> QED
        BY <4>1
    <3>2. i = node[j]
      BY <3>1, <2>1, <1>1, <1>3
    <3> QED
      BY <3>2
  <2> QED
    BY <2>2, <2>3
<1>8. node[0] \in 0..n /\ ms \in Seq(Message)
  BY <1>3 DEF n
<1> QED
  BY <1>5, <1>6, <1>7, <1>8 DEF Chained, g, es, n, L

\* What a burst adds to the file, and to what is said on the path of the session.
LEMMA BurstAdds ==
    ASSUME NEW f \in Seq(Entry), IsTree(f), FileInOrder(f), NEW p \in 0..Len(f),
           NEW ms \in Seq(Message), Len(ms) > 0, MayFollow(ms, Said(f, p), Len(f))
    PROVE  /\ Adds(f, f \o Burst(Len(f), p, ms), {ms[k] : k \in 1..Len(ms)})
           /\ Said(f \o Burst(Len(f), p, ms), Len(f) + 2 * Len(ms) - 1)
                 = Said(f, p) \cup {ms[k] : k \in 1..Len(ms)}
<1> DEFINE node == [j \in 0..Len(ms) |-> IF j = 0 THEN p ELSE Len(f) + 2 * j - 1]
           g == f \o Burst(Len(f), p, ms)
<1>1. Chained(f, g, node, ms)
  BY BurstChain
<1>2. Len(ms) \in 0..Len(ms) /\ 0 \in 0..Len(ms) /\ Len(ms) # 0
  OBVIOUS
<1>3. node[0] = p /\ node[Len(ms)] = Len(f) + 2 * Len(ms) - 1
  BY <1>2
<1> HIDE DEF node, g
<1>4. Adds(f, g, {ms[k] : k \in 1..Len(ms)})
  BY <1>1, <1>3, ChainAdds
<1>5. Said(g, node[Len(ms)]) = Said(f, node[0]) \cup {ms[k] : k \in 1..Len(ms)}
  <2>1. \A j \in 0..Len(ms) : Said(g, node[j]) = Said(f, node[0]) \cup {ms[k] : k \in 1..j}
    BY ONLY <1>1, ChainSaid, SMTT(30)
  <2> QED
    BY ONLY <2>1, <1>2
<1> QED
  BY <1>3, <1>4, <1>5 DEF g

\* A store that is cut short adds no more than the entries would.
LEMMA StoreAdds ==
    ASSUME file \in Seq(Entry), IsTree(file), FileInOrder(file),
           NEW es, Fits(Len(Base), es), NEW new,
           Base \in Seq(Entry) /\ IsTree(Base) /\ FileInOrder(Base) => Adds(Base, Base \o es, new),
           Store(es)
    PROVE  Adds(file, file', new)
<1> DEFINE b == Base
<1>1. Adds(file, b, {})
  BY BegunAdds DEF Base, Begun
<1>2. b \in Seq(Entry) /\ IsTree(b) /\ FileInOrder(b) /\ Len(b) \in Nat
  BY <1>1 DEF Adds, Continues
<1>3. Adds(b, b \o es, new)
  BY <1>2
<1>4. PICK n \in 0..Len(es) : file' = b \o SubSeq(es, 1, n)
  BY DEF Store
<1>5. Fits(Len(b), es)
  OBVIOUS
<1> HIDE DEF b
<1>6. es \in Seq(Entry) /\ Len(es) \in Nat
  BY <1>5 DEF Fits
<1> DEFINE part == SubSeq(es, 1, n)
           g == b \o es
           h == b \o part
<1>7. Fits(Len(b), part) /\ Len(part) = n
  BY <1>2, <1>5, FitsPrefix
<1>8. \A k \in 1..n : part[k] = es[k]
  BY <1>6
<1> HIDE DEF part
<1>9. /\ h \in Seq(Entry) /\ IsTree(h) /\ Len(h) = Len(b) + n
      /\ \A i \in 1..Len(b) : h[i] = b[i]
      /\ \A k \in 1..n : h[Len(b) + k] = part[k]
  <2>1. b \in Seq(Entry) /\ IsTree(b) /\ Fits(Len(b), part)
    BY <1>2, <1>7
  <2>2. /\ h \in Seq(Entry) /\ IsTree(h) /\ Len(h) = Len(b) + Len(part)
        /\ \A i \in 1..Len(b) : h[i] = b[i]
        /\ \A k \in 1..Len(part) : h[Len(b) + k] = part[k]
    BY ONLY <2>1, TreeConcat
  <2> HIDE DEF h
  <2> QED
    BY <1>7, <2>2
<1>10. /\ g \in Seq(Entry) /\ IsTree(g) /\ Len(g) = Len(b) + Len(es)
       /\ \A i \in 1..Len(b) : g[i] = b[i]
       /\ \A k \in 1..Len(es) : g[Len(b) + k] = es[k]
  BY <1>2, <1>5, TreeConcat
<1> HIDE DEF g, h
<1>11. Continues(b, h)
  <2>1. Len(b) <= Len(h)
    BY <1>2, <1>9
  <2> QED
    BY <2>1, <1>2, <1>9 DEF Continues
<1>12. Continues(h, g)
  <2>1. Len(h) <= Len(g)
    BY <1>2, <1>6, <1>9, <1>10
  <2>2. ASSUME NEW i \in 1..Len(h)
        PROVE  g[i] = h[i]
    <3>1. CASE i \in 1..Len(b)
      BY <3>1, <1>9, <1>10
    <3>2. CASE i \notin 1..Len(b)
      <4>1. i - Len(b) \in 1..n /\ i - Len(b) \in 1..Len(es) /\ i = Len(b) + (i - Len(b))
        BY <3>2, <1>2, <1>6, <1>9
      <4> DEFINE k == i - Len(b)
      <4> HIDE DEF k
      <4>2. k \in 1..n /\ k \in 1..Len(es) /\ i = Len(b) + k
        BY <4>1 DEF k
      <4> QED
        BY ONLY <4>2, <1>8, <1>9, <1>10
    <3> QED
      BY <3>1, <3>2
  <2> QED
    BY <2>1, <2>2, <1>9, <1>10 DEF Continues
<1>13. Adds(b, h, new)
  BY <1>3, <1>11, <1>12, AddsPart DEF g
<1>14. Adds(file, h, new)
  BY <1>1, <1>13, AddsBehind
<1> QED
  BY <1>4, <1>14 DEF h, part

\* An entry without a message, with a leaf behind it or without one.
LEMMA PairAdds ==
    ASSUME NEW f \in Seq(Entry), IsTree(f), FileInOrder(f), NEW e \in Entry,
           e.type # "message", e.parent \in 0..Len(f),
           e.type = "compaction" => FirstRows(Rows(f, e.parent), e.replaces),
           NEW t, NEW es, es = <<e, LeafEntry(t)>>, Fits(Len(f), es)
    PROVE  Adds(f, f \o es, {})
<1> DEFINE g == f \o es
<1>1. es \in Seq(Entry) /\ Len(es) = 2 /\ es[1] = e /\ es[2] = LeafEntry(t) /\ Len(f) \in Nat
  BY DEF Fits
<1>2. /\ g \in Seq(Entry) /\ IsTree(g) /\ Len(g) = Len(f) + Len(es)
      /\ \A i \in 1..Len(f) : g[i] = f[i]
      /\ \A k \in 1..Len(es) : g[Len(f) + k] = es[k]
  BY TreeConcat
<1> HIDE DEF g
<1>3. Len(g) = Len(f) + 2 /\ g[Len(f) + 1] = e /\ g[Len(f) + 2] = LeafEntry(t)
  <2>1. 1 \in 1..Len(es) /\ 2 \in 1..Len(es)
    BY <1>1
  <2> QED
    BY <2>1, <1>1, <1>2
<1>4. Continues(f, g)
  <2>1. Len(f) <= Len(g)
    BY <1>1, <1>3
  <2> QED
    BY <2>1, <1>2 DEF Continues
<1>5. LeafEntry(t).type = "leaf"
  BY DEF LeafEntry
<1>6. ASSUME NEW i \in Len(f) + 1..Len(g)
      PROVE  /\ g[i].type # "message"
             /\ Speaks(g[i]) => g[i].parent \in 0..Len(f)
             /\ g[i].type = "compaction" => FirstRows(Rows(f, g[i].parent), g[i].replaces)
  <2>1. i = Len(f) + 1 \/ i = Len(f) + 2
    BY <1>1, <1>3
  <2>2. g[i] = e \/ g[i].type = "leaf"
    BY <2>1, <1>3, <1>5
  <2> QED
    BY <2>2 DEF Speaks
<1> QED
  BY <1>4, <1>6, QuietOrder DEF g

LEMMA LeafAdds ==
    ASSUME NEW f \in Seq(Entry), IsTree(f), FileInOrder(f), NEW t, NEW es, es = <<LeafEntry(t)>>,
           Fits(Len(f), es)
    PROVE  Adds(f, f \o es, {})
<1> DEFINE g == f \o es
<1>1. es \in Seq(Entry) /\ Len(es) = 1 /\ es[1] = LeafEntry(t) /\ Len(f) \in Nat
  BY DEF Fits
<1>2. /\ g \in Seq(Entry) /\ IsTree(g) /\ Len(g) = Len(f) + Len(es)
      /\ \A i \in 1..Len(f) : g[i] = f[i]
      /\ \A k \in 1..Len(es) : g[Len(f) + k] = es[k]
  BY TreeConcat
<1> HIDE DEF g
<1>3. Len(g) = Len(f) + 1 /\ g[Len(f) + 1] = LeafEntry(t)
  <2>1. 1 \in 1..Len(es)
    BY <1>1
  <2> QED
    BY <2>1, <1>1, <1>2
<1>4. Continues(f, g)
  <2>1. Len(f) <= Len(g)
    BY <1>1, <1>3
  <2> QED
    BY <2>1, <1>2 DEF Continues
<1>5. \A i \in Len(f) + 1..Len(g) : g[i].type = "leaf"
  <2>1. LeafEntry(t).type = "leaf"
    BY DEF LeafEntry
  <2>2. \A i \in Len(f) + 1..Len(g) : i = Len(f) + 1
    BY <1>1, <1>3
  <2> QED
    BY <2>1, <2>2, <1>3
<1>6. \A i \in Len(f) + 1..Len(g) :
         /\ g[i].type # "message" /\ ~Speaks(g[i]) /\ g[i].type # "compaction"
  BY <1>5 DEF Speaks
<1> QED
  BY <1>4, <1>6, QuietOrder DEF g

\* The places e of the elements of st in s.
Follows(st, s, e) ==
    \A i \in DOMAIN st :
        /\ e[i] \in DOMAIN s /\ s[e[i]] = st[i]
        /\ \A j \in DOMAIN st : i < j => e[i] < e[j]

LEMMA FollowsScattered ==
    ASSUME NEW st \in Seq(Message), NEW s \in Seq(Message), Distinct(s), NEW e, Follows(st, s, e),
           NEW kept, kept \subseteq DOMAIN st
    PROVE  Scattered(st, kept, s)
<1>1. /\ DOMAIN st = 1..Len(st) /\ Len(st) \in Nat /\ DOMAIN s = 1..Len(s) /\ Len(s) \in Nat
  OBVIOUS
<1>2. ASSUME NEW j \in kept, NEW i \in kept, NEW a \in DOMAIN s, st[i] = s[a]
      PROVE  (i < j <=> a < e[j]) /\ (i = j <=> a = e[j])
  <2>1. /\ e[i] \in DOMAIN s /\ s[e[i]] = st[i] /\ e[j] \in DOMAIN s
        /\ i < j => e[i] < e[j]
        /\ j < i => e[j] < e[i]
    BY DEF Follows
  <2>2. a = e[i]
    BY <2>1, <1>2 DEF Distinct
  <2>3. i \in Nat /\ j \in Nat /\ e[i] \in Nat /\ e[j] \in Nat
    BY <1>1, <2>1
  <2> QED
    BY <2>1, <2>2, <2>3
<1>3. \A j \in kept : e[j] \in DOMAIN s /\ s[e[j]] = st[j]
  BY DEF Follows
<1> QED
  BY <1>2, <1>3 DEF Scattered

LEMMA ScatteredFollows ==
    ASSUME NEW st \in Seq(Message), NEW s \in Seq(Message), Scattered(st, DOMAIN st, s)
    PROVE  \E e : Follows(st, s, e)
<1> DEFINE At(j, b) == /\ s[b] = st[j]
                       /\ \A i \in DOMAIN st, a \in DOMAIN s :
                             st[i] = s[a] => (i < j <=> a < b) /\ (i = j <=> a = b)
           e == [j \in DOMAIN st |-> CHOOSE b \in DOMAIN s : At(j, b)]
<1>1. \A j \in DOMAIN st : \E b \in DOMAIN s : At(j, b)
  BY DEF Scattered
<1>2. \A j \in DOMAIN st : e[j] \in DOMAIN s /\ At(j, e[j])
  <2> HIDE DEF At
  <2> QED
    BY <1>1
<1> HIDE DEF e
<1>3. ASSUME NEW i \in DOMAIN st, NEW j \in DOMAIN st, i < j
      PROVE  e[i] < e[j]
  <2>1. e[i] \in DOMAIN s /\ st[i] = s[e[i]]
    BY <1>2
  <2> QED
    BY <2>1, <1>2, <1>3
<1> QED
  BY <1>2, <1>3 DEF Follows

LEMMA ScatteredSame ==
    ASSUME NEW s \in Seq(Message), Distinct(s)
    PROVE  Scattered(s, DOMAIN s, s)
<1> DEFINE e == [i \in DOMAIN s |-> i]
<1>1. Follows(s, s, e)
  BY DEF Follows
<1> HIDE DEF e
<1> QED
  BY <1>1, FollowsScattered

LEMMA ScatteredAppend ==
    ASSUME NEW st \in Seq(Message), NEW s \in Seq(Message), NEW t \in Seq(Message),
           Scattered(st, DOMAIN st, s), Distinct(s \o t)
    PROVE  Scattered(st, DOMAIN st, s \o t)
<1>1. PICK e : Follows(st, s, e)
  BY ScatteredFollows
<1>2. s \o t \in Seq(Message) /\ \A i \in DOMAIN s : i \in DOMAIN (s \o t) /\ (s \o t)[i] = s[i]
  OBVIOUS
<1>3. Follows(st, s \o t, e)
  BY <1>1, <1>2 DEF Follows
<1> QED
  BY <1>2, <1>3, FollowsScattered

\* Storing the elements behind place n, none of which was stored.
LEMMA ScatteredSave ==
    ASSUME NEW st \in Seq(Message), NEW s \in Seq(Message), NEW n \in 0..Len(s),
           Scattered(st, DOMAIN st, s), Distinct(s),
           \A k \in n + 1..Len(s) : \A i \in DOMAIN st : st[i] # s[k]
    PROVE  /\ st \o SubSeq(s, n + 1, Len(s)) \in Seq(Message)
           /\ Scattered(st \o SubSeq(s, n + 1, Len(s)), DOMAIN (st \o SubSeq(s, n + 1, Len(s))), s)
<1>1. PICK e : Follows(st, s, e)
  BY ScatteredFollows
<1> DEFINE t == SubSeq(s, n + 1, Len(s))
           g == st \o t
           l == Len(st)
           d == [i \in 1..Len(g) |-> IF i <= l THEN e[i] ELSE n + i - l]
<1>2. /\ l \in Nat /\ Len(s) \in Nat /\ DOMAIN s = 1..Len(s) /\ DOMAIN st = 1..l
      /\ t \in Seq(Message) /\ Len(t) = Len(s) - n /\ \A k \in 1..Len(t) : t[k] = s[n + k]
  OBVIOUS
<1> HIDE DEF t
<1>3. /\ g \in Seq(Message) /\ Len(g) = l + Len(t) /\ DOMAIN g = 1..Len(g)
      /\ \A i \in 1..l : g[i] = st[i]
      /\ \A k \in 1..Len(t) : g[l + k] = t[k]
  BY <1>2
<1> HIDE DEF g, l
<1>4. ASSUME NEW i \in 1..Len(g)
      PROVE  /\ i <= l => d[i] \in 1..Len(s) /\ d[i] <= n /\ s[d[i]] = g[i] /\ d[i] = e[i] /\ i \in 1..l
             /\ i > l => d[i] \in 1..Len(s) /\ d[i] > n /\ s[d[i]] = g[i] /\ d[i] = n + i - l
  <2>1. i \in Nat
    OBVIOUS
  <2>2. CASE i <= l
    <3>1. i \in 1..l /\ d[i] = e[i]
      BY <2>1, <2>2
    <3>2. e[i] \in 1..Len(s) /\ s[e[i]] = st[i]
      BY <3>1, <1>1, <1>2 DEF Follows
    <3>3. e[i] <= n
      <4> SUFFICES ASSUME ~(e[i] <= n) PROVE FALSE
        OBVIOUS
      <4>1. e[i] \in n + 1..Len(s)
        BY <3>2, <1>2
      <4> QED
        BY <4>1, <3>1, <3>2, <1>2
    <3> HIDE DEF d
    <3> QED
      BY <2>2, <2>1, <3>1, <3>2, <3>3, <1>2, <1>3
  <2>3. CASE i > l
    <3>1. d[i] = n + i - l
      BY <2>1, <2>3, <1>2
    <3>2. i - l \in 1..Len(t) /\ i = l + (i - l) /\ n + (i - l) = n + i - l
      BY <2>1, <2>3, <1>2, <1>3
    <3>3. g[i] = s[n + i - l]
      BY <3>2, <1>2, <1>3
    <3>4. n + i - l \in 1..Len(s) /\ n + i - l > n
      BY <3>2, <1>2
    <3> HIDE DEF d
    <3> QED
      BY <2>1, <2>3, <1>2, <3>1, <3>3, <3>4
  <2>4. i <= l \/ i > l
    BY <2>1, <1>2
  <2> QED
    BY <2>2, <2>3, <2>1, <1>2
<1> HIDE DEF d
<1>5. ASSUME NEW i \in 1..Len(g), NEW j \in 1..Len(g), i < j
      PROVE  d[i] < d[j]
  <2>1. i \in Nat /\ j \in Nat /\ n \in Nat
    BY <1>2
  <2>2. CASE j <= l
    <3>1. i <= l
      BY <2>1, <2>2, <1>2, <1>5
    <3>2. i \in 1..l /\ j \in 1..l /\ d[i] = e[i] /\ d[j] = e[j]
      BY <3>1, <2>2, <1>4
    <3> QED
      BY <3>2, <1>1, <1>2, <1>5 DEF Follows
  <2>3. CASE j > l
    <3>1. d[j] = n + j - l /\ d[j] > n
      BY <2>3, <1>4
    <3>2. CASE i <= l
      <4>1. d[i] <= n /\ d[i] \in Nat /\ d[j] \in Nat
        BY <3>1, <3>2, <1>4, <2>3
      <4> QED
        BY <4>1, <3>1, <2>1
    <3>3. CASE i > l
      <4>1. d[i] = n + i - l
        BY <3>3, <1>4
      <4> QED
        BY <4>1, <3>1, <2>1, <1>2, <1>5
    <3> QED
      BY <3>2, <3>3, <2>1, <1>2
  <2> QED
    BY <2>2, <2>3, <2>1, <1>2
<1>6. \A i \in 1..Len(g) : d[i] \in 1..Len(s) /\ s[d[i]] = g[i]
  <2> SUFFICES ASSUME NEW i \in 1..Len(g) PROVE d[i] \in 1..Len(s) /\ s[d[i]] = g[i]
    OBVIOUS
  <2>1. i <= l \/ i > l
    BY <1>2
  <2> QED
    BY <2>1, <1>4
<1>7. Follows(g, s, d)
  BY <1>2, <1>3, <1>5, <1>6 DEF Follows
<1>8. Scattered(g, DOMAIN g, s)
  BY <1>3, <1>7, FollowsScattered
<1> QED
  BY <1>3, <1>8 DEF g, t

\* A transcript that grows by messages nobody has said or answered stays tidy.
LEMMA TidyAppend ==
    ASSUME NEW s \in Seq(Message), NEW t \in Seq(Message), NEW said, Tidy(s, said), Distinct(t),
           \A k \in DOMAIN t :
              /\ t[k] \notin said /\ \A i \in DOMAIN s : s[i] # t[k]
              /\ \A c \in CallsOf(t[k]) :
                    /\ Result(c) \notin said /\ \A i \in DOMAIN s : s[i] # Result(c)
                    /\ \A l \in DOMAIN t : t[l] # Result(c)
    PROVE  /\ Tidy(s \o t, said)
           /\ Unsaid(s \o t, Len(s), said)
           /\ \A n \in 0..Len(s) : Unsaid(s, n, said) => Unsaid(s \o t, n, said)
<1> DEFINE g == s \o t
           n == Len(s)
<1>1. /\ n \in Nat /\ Len(t) \in Nat /\ DOMAIN s = 1..n /\ DOMAIN t = 1..Len(t)
      /\ g \in Seq(Message) /\ Len(g) = n + Len(t) /\ DOMAIN g = 1..Len(g)
      /\ \A i \in 1..n : g[i] = s[i]
      /\ \A k \in 1..Len(t) : g[n + k] = t[k]
  OBVIOUS
<1>2. Distinct(s) /\ ResultsAfter(s) /\ \A c \in Asked(s) : Result(c) \in said => Result(c) \in Range(s)
  BY DEF Tidy
<1>3. \A c : Result(c) \in Range(s) => \E i \in 1..n : s[i] = Result(c)
  BY <1>1 DEF Range
<1> HIDE DEF g, n
<1>4. ASSUME NEW i \in DOMAIN g
      PROVE  \/ i \in 1..n /\ g[i] = s[i]
             \/ i > n /\ \E k \in 1..Len(t) : i = n + k /\ g[i] = t[k]
  <2>1. CASE i <= n
    BY <2>1, <1>1
  <2>2. CASE i > n
    <3>1. i - n \in 1..Len(t) /\ i = n + (i - n)
      BY <2>2, <1>1
    <3> QED
      BY <3>1, <2>2, <1>1
  <2> QED
    BY <2>1, <2>2, <1>1
<1>5. Distinct(g)
  <2> SUFFICES ASSUME NEW i \in DOMAIN g, NEW j \in DOMAIN g, g[i] = g[j] PROVE i = j
    BY DEF Distinct
  <2>1. CASE i \in 1..n /\ g[i] = s[i]
    <3>1. CASE j \in 1..n /\ g[j] = s[j]
      BY <2>1, <3>1, <1>1, <1>2 DEF Distinct
    <3>2. CASE \E k \in 1..Len(t) : j = n + k /\ g[j] = t[k]
      BY <2>1, <3>2, <1>1
    <3> QED
      BY <3>1, <3>2, <1>4
  <2>2. CASE \E k \in 1..Len(t) : i = n + k /\ g[i] = t[k]
    <3>1. CASE j \in 1..n /\ g[j] = s[j]
      BY <2>2, <3>1, <1>1
    <3>2. CASE \E k \in 1..Len(t) : j = n + k /\ g[j] = t[k]
      BY <2>2, <3>2, <1>1 DEF Distinct
    <3> QED
      BY <3>1, <3>2, <1>4
  <2> QED
    BY <2>1, <2>2, <1>4
<1>6. ResultsAfter(g)
  <2> SUFFICES ASSUME NEW i \in DOMAIN g, NEW j \in DOMAIN g, NEW c \in CallsOf(g[i]), g[j] = Result(c)
               PROVE  i < j
    BY DEF ResultsAfter
  <2>1. CASE i \in 1..n /\ g[i] = s[i]
    <3>1. CASE j \in 1..n /\ g[j] = s[j]
      BY <2>1, <3>1, <1>1, <1>2 DEF ResultsAfter
    <3>2. CASE j > n
      BY <2>1, <3>2, <1>1
    <3> QED
      BY <3>1, <3>2, <1>4
  <2>2. CASE \E k \in 1..Len(t) : i = n + k /\ g[i] = t[k]
    <3>1. CASE j \in 1..n /\ g[j] = s[j]
      BY <2>2, <3>1, <1>1
    <3>2. CASE \E k \in 1..Len(t) : j = n + k /\ g[j] = t[k]
      BY <2>2, <3>2, <1>1
    <3> QED
      BY <3>1, <3>2, <1>4
  <2> QED
    BY <2>1, <2>2, <1>4
<1>7. ASSUME NEW c \in Asked(g), Result(c) \in said
      PROVE  Result(c) \in Range(g)
  <2>1. PICK i \in DOMAIN g : c \in CallsOf(g[i])
    BY DEF Asked
  <2>2. CASE i \in 1..n /\ g[i] = s[i]
    <3>1. c \in Asked(s)
      BY <2>1, <2>2, <1>1 DEF Asked
    <3>2. PICK j \in 1..n : s[j] = Result(c)
      BY <3>1, <1>2, <1>3, <1>7
    <3>3. j \in DOMAIN g /\ g[j] = Result(c)
      BY <3>2, <1>1
    <3> QED
      BY <3>3 DEF Range
  <2>3. CASE \E k \in 1..Len(t) : i = n + k /\ g[i] = t[k]
    BY <2>1, <2>3, <1>1, <1>7
  <2> QED
    BY <2>2, <2>3, <1>4
<1>8. ASSUME NEW m \in 0..n, NEW k \in m + 1..Len(g), k \in 1..n => s[k] \notin said /\ \A c \in CallsOf(s[k]) : Result(c) \notin said
      PROVE  g[k] \notin said /\ \A c \in CallsOf(g[k]) : Result(c) \notin said
  <2>1. k \in DOMAIN g
    BY <1>1
  <2>2. CASE k \in 1..n /\ g[k] = s[k]
    BY <2>2, <1>8
  <2>3. CASE \E l \in 1..Len(t) : k = n + l /\ g[k] = t[l]
    BY <2>3, <1>1
  <2> QED
    BY <2>1, <2>2, <2>3, <1>4
<1>9. Unsaid(g, n, said)
  <2>1. n \in 0..n /\ \A k \in n + 1..Len(g) : k \notin 1..n
    BY <1>1
  <2> QED
    BY <2>1, <1>8 DEF Unsaid
<1>10. ASSUME NEW m \in 0..n, Unsaid(s, m, said)
       PROVE  Unsaid(g, m, said)
  <2>1. \A k \in m + 1..Len(g) : k \in 1..n => k \in m + 1..n
    BY <1>1
  <2> QED
    BY <2>1, <1>8, <1>10 DEF Unsaid, n
<1>11. Tidy(g, said)
  BY <1>5, <1>6, <1>7 DEF Tidy
<1> QED
  BY <1>9, <1>10, <1>11 DEF g, n

IssuedIn(m, n, us, rs, cs) ==
    /\ m.kind = "user" => IF IsSummary(m) THEN m.summarizes \in 1..n ELSE m.id \in 1..us
    /\ m.kind = "assistant" => m.id \in 1..rs /\ CallsOf(m) \subseteq 1..cs
    /\ m.kind = "result" => m.call \in 1..cs

\* New messages N join those there are.
Joins(K, N, n, us, rs, cs) ==
    \A m \in N :
        /\ IssuedIn(m, n, us, rs, cs)
        /\ m.kind = "assistant" =>
              Distinct(m.calls) /\ \A k \in K \cup N : CallsOf(m) \cap CallsOf(k) # {} => m = k

LEMMA KnownGrows ==
    ASSUME TypeOK, KnownInOrder, NEW N, Known' \subseteq Known \cup N,
           Len(file') \in Nat, Len(file) <= Len(file'),
           users' \in Nat, users <= users', replies' \in Nat, replies <= replies',
           calls' \in Nat, calls <= calls',
           Joins(Known, N, Len(file'), users', replies', calls')
    PROVE  KnownInOrder'
<1>1. /\ Len(file) \in Nat /\ users \in Nat /\ replies \in Nat /\ calls \in Nat
  BY DEF TypeOK
<1>2. /\ 1..Len(file) \subseteq 1..Len(file') /\ 1..users \subseteq 1..users'
      /\ 1..replies \subseteq 1..replies' /\ 1..calls \subseteq 1..calls'
  BY <1>1
<1>3. ASSUME NEW m \in Known
      PROVE  IssuedIn(m, Len(file'), users', replies', calls')
  <2>1. Issued(m)
    BY DEF KnownInOrder
  <2> QED
    BY <2>1, <1>2 DEF Issued, IssuedIn
<1>4. ASSUME NEW m \in Known \cup N
      PROVE  /\ IssuedIn(m, Len(file'), users', replies', calls')
             /\ m.kind = "assistant" =>
                   Distinct(m.calls) /\ \A k \in Known \cup N : CallsOf(m) \cap CallsOf(k) # {} => m = k
  <2>1. CASE m \in N
    BY <2>1 DEF Joins
  <2>2. CASE m \in Known
    <3>1. ASSUME m.kind = "assistant", NEW k \in Known \cup N, CallsOf(m) \cap CallsOf(k) # {}
          PROVE  m = k
      <4>1. CASE k \in Known
        BY <2>2, <3>1, <4>1 DEF KnownInOrder
      <4>2. CASE k \in N
        <5>1. k.kind = "assistant"
          BY <3>1 DEF CallsOf
        <5>2. CallsOf(k) \cap CallsOf(m) # {}
          BY <3>1
        <5> QED
          BY <4>2, <5>1, <5>2, <2>2 DEF Joins
      <4> QED
        BY <4>1, <4>2
    <3> QED
      BY <2>2, <1>3, <3>1 DEF KnownInOrder
  <2> QED
    BY <2>1, <2>2
<1>5. \A m : Issued(m)' <=> IssuedIn(m, Len(file'), users', replies', calls')
  BY DEF Issued, IssuedIn
<1> QED
  BY <1>4, <1>5 DEF KnownInOrder

\* Messages that ask for nothing join whatever there is.
LEMMA JoinsQuietly ==
    ASSUME NEW K, NEW N, NEW n, NEW us, NEW rs, NEW cs,
           \A m \in N : m.kind # "assistant" /\ IssuedIn(m, n, us, rs, cs)
    PROVE  Joins(K, N, n, us, rs, cs)
BY DEF Joins

\* What a session finds while it is alive.
LEMMA There ==
    ASSUME Core, OrderInv, up
    PROVE  /\ Base \in Seq(Entry) /\ IsTree(Base) /\ FileInOrder(Base) /\ Len(Base) \in Nat
           /\ Len(file) \in Nat /\ Len(file) <= Len(Base) /\ lastParent \in 0..Len(Base)
           /\ live \in Seq(Message) /\ Tidy(live, Said(Base, lastParent))
           /\ stored = Transcript(Base, lastParent) /\ stored \in Seq(Message)
           /\ \A i \in DOMAIN stored : stored[i] \in Said(Base, lastParent)
           /\ \A m \in Said(Base, lastParent) : m \in InFile \/ \E k \in 1..Len(Base) : m = Summary(k)
           /\ \A i \in DOMAIN live : live[i] \in Known
           /\ \A i \in DOMAIN live : IsSummary(live[i]) => live[i].summarizes \in 1..Len(file)
           /\ Apart(live)
<1>1. /\ Base \in Seq(Entry) /\ IsTree(Base) /\ Len(Base) \in Nat
      /\ Len(file) \in Nat /\ Len(file) <= Len(Base) /\ lastParent \in 0..Len(Base)
      /\ stored = Transcript(Base, lastParent)
  BY Here
<1>2. live \in Seq(Message) /\ stored \in Seq(Message) /\ file \in Seq(Entry) /\ IsTree(file)
  BY DEF Core, TypeOK
<1>3. FileInOrder(file) /\ KnownInOrder /\ LiveInOrder
  BY DEF OrderInv
<1>4. Adds(file, Base, {})
  BY <1>2, <1>3, BegunAdds DEF Base, Begun
<1>5. FileInOrder(Base) /\ Held(Base) \subseteq InFile
  BY <1>4 DEF Adds, Held, InFile
<1>6. Tidy(live, Said(Base, lastParent))
  BY <1>3 DEF LiveInOrder
<1>7. \A i \in DOMAIN stored : stored[i] \in Said(Base, lastParent)
  <2>1. TranscriptInOrder(Transcript(Base, lastParent), Said(Base, lastParent))
    BY <1>1, <1>5, TranscriptOrder
  <2> QED
    BY <2>1, <1>1 DEF TranscriptInOrder
<1>8. ASSUME NEW m \in Said(Base, lastParent)
      PROVE  m \in InFile \/ \E k \in 1..Len(Base) : m = Summary(k)
  <2>1. PICK k \in 1..lastParent : k \in 1..Len(Base) /\ (m \in Held(Base) \/ m = Summary(k))
    BY <1>1, SaidFrom
  <2> QED
    BY <2>1, <1>5
<1>9. \A i \in DOMAIN live : live[i] \in Known
  BY DEF Known, Range
<1>10. \A i \in DOMAIN live : IsSummary(live[i]) => live[i].summarizes \in 1..Len(file)
  <2> SUFFICES ASSUME NEW i \in DOMAIN live, IsSummary(live[i])
               PROVE  live[i].summarizes \in 1..Len(file)
    OBVIOUS
  <2>1. Issued(live[i])
    BY <1>9, <1>3 DEF KnownInOrder
  <2>2. live[i] \in Message
    BY <1>2
  <2>3. live[i].kind = "user"
    BY <2>2 DEF Message, UserMessages, AssistantMessages, ResultMessages, IsSummary
  <2> QED
    BY <2>1, <2>3 DEF Issued
<1>11. Apart(live)
  <2> SUFFICES ASSUME NEW i \in DOMAIN live
               PROVE  /\ live[i].kind = "assistant" => Distinct(live[i].calls)
                      /\ \A j \in DOMAIN live : CallsOf(live[i]) \cap CallsOf(live[j]) # {} => live[i] = live[j]
    BY DEF Apart
  <2>1. CASE live[i].kind = "assistant"
    BY <2>1, <1>9, <1>3 DEF KnownInOrder
  <2>2. CASE live[i].kind # "assistant"
    <3>1. CallsOf(live[i]) = {}
      BY <2>2 DEF CallsOf
    <3> QED
      BY <3>1, <2>2
  <2> QED
    BY <2>1, <2>2
<1> QED
  BY <1>1, <1>2, <1>5, <1>6, <1>7, <1>8, <1>9, <1>10, <1>11

\* Storing messages that may follow.
LEMMA BurstStored ==
    ASSUME Core, OrderInv, up, NEW ms \in Seq(Message), Len(ms) > 0,
           MayFollow(ms, Said(Base, lastParent), Len(Base)),
           Store(MessageEntries(lastParent, ms)), lastParent' = Len(Base) + 2 * Len(ms) - 1
    PROVE  /\ Adds(file, file', {ms[k] : k \in 1..Len(ms)})
           /\ up' => /\ Said(Base', lastParent') = Said(Base, lastParent) \cup {ms[k] : k \in 1..Len(ms)}
                     /\ stored' = stored \o ms
<1> DEFINE es == MessageEntries(lastParent, ms)
           b == Burst(Len(Base), lastParent, ms)
           L == Len(ms)
           t == Len(Base) + 2 * L - 1
           N == {ms[k] : k \in 1..Len(ms)}
<1>1. es = b
  BY DEF MessageEntries, Burst
<1>2. /\ Base \in Seq(Entry) /\ IsTree(Base) /\ FileInOrder(Base) /\ Len(Base) \in Nat
      /\ lastParent \in 0..Len(Base) /\ stored = Transcript(Base, lastParent)
  BY There
<1>3. file \in Seq(Entry) /\ IsTree(file) /\ FileInOrder(file) /\ crashes \in Nat
  BY DEF Core, TypeOK, OrderInv
<1>4. L \in Nat /\ L > 0 /\ t \in Nat
  BY <1>2
<1>5. Fits(Len(Base), b) /\ Len(b) = 2 * L /\ b[2 * L] = LeafEntry(t)
  <2>1. /\ Fits(Len(Base), b) /\ Len(b) = 2 * Len(ms)
        /\ Len(ms) > 0 => b[2 * Len(ms)] = LeafEntry(Len(Base) + 2 * Len(ms) - 1)
    BY ONLY <1>2, ms \in Seq(Message), BurstFits
  <2> QED
    BY <2>1, <1>4
<1>6. /\ Adds(Base, Base \o b, N)
      /\ Said(Base \o b, t) = Said(Base, lastParent) \cup N
  BY ONLY <1>2, ms \in Seq(Message), Len(ms) > 0, MayFollow(ms, Said(Base, lastParent), Len(Base)), BurstAdds
<1>7. Transcript(Base \o b, t) = stored \o ms
  <2>1. Transcript(Base \o b, t) = Transcript(Base, lastParent) \o ms
    BY ONLY <1>2, ms \in Seq(Message), Len(ms) > 0, BurstTranscript
  <2> QED
    BY <2>1, <1>2
<1> HIDE DEF es, b, N, t, L
<1>8. Store(b) /\ lastParent' = t
  BY <1>1 DEF es, t, L
<1>9. Adds(file, file', N)
  BY <1>3, <1>5, <1>6, <1>8, StoreAdds
<1>10. b[Len(b)] = LeafEntry(t) /\ Len(b) > 0
  BY <1>4, <1>5
<1>11. up' => file' = Base \o b /\ Base' = file' /\ stored' = Transcript(Base \o b, t)
  BY ONLY <1>3, <1>5, <1>8, <1>10, StoreProperties
<1> QED
  BY <1>6, <1>7, <1>8, <1>9, <1>11 DEF N

\* Persisting what the transcript s holds behind the count.
LEMMA PersistOrder ==
    ASSUME Core, OrderInv, up, NEW s \in Seq(Message), count <= Len(s), Persist(s),
           Tidy(s, Said(Base, lastParent)), Unsaid(s, count, Said(Base, lastParent)),
           \A i \in DOMAIN s : IsSummary(s[i]) => s[i].summarizes \in 1..Len(file),
           Scattered(stored, DOMAIN stored, s)
    PROVE  /\ FileInOrder(file') /\ Len(file') \in Nat /\ Len(file) <= Len(file')
           /\ InFile' \subseteq InFile \cup Range(s)
           /\ up' => /\ Tidy(s, Said(Base', lastParent'))
                     /\ Unsaid(s, count', Said(Base', lastParent'))
                     /\ Scattered(stored', DOMAIN stored', s)
<1> DEFINE new == NewSince(s, count)
           said == Said(Base, lastParent)
<1>1. /\ Len(s) \in Nat /\ count \in 0..Len(s) /\ DOMAIN s = 1..Len(s)
      /\ file \in Seq(Entry) /\ Len(file) \in Nat /\ FileInOrder(file)
      /\ Distinct(s) /\ ResultsAfter(s)
  <2>1. count \in Nat /\ file \in Seq(Entry)
    BY ONLY Core DEF Core, TypeOK
  <2>2. FileInOrder(file) /\ Distinct(s) /\ ResultsAfter(s)
    BY DEF OrderInv, Tidy
  <2> QED
    BY <2>1, <2>2
<1>2. /\ new \in Seq(Message) /\ Len(new) = Len(s) - count
      /\ \A k \in 1..Len(new) : count + k \in count + 1..Len(s) /\ count + k \in 1..Len(s) /\ new[k] = s[count + k]
      /\ Distinct(new) /\ ResultsAfter(new) /\ new = SubSeq(s, count + 1, Len(s))
  BY <1>1, TailOrder DEF NewSince
<1>3. /\ Len(Base) \in Nat /\ Len(file) <= Len(Base) /\ stored \in Seq(Message)
      /\ \A i \in DOMAIN stored : stored[i] \in said
  BY There
<1>4. CASE new = <<>>
  <2>1. UNCHANGED <<disk, up, lastParent, count, crashes>>
    BY <1>4 DEF Persist
  <2>2. file' = file /\ stored' = stored /\ Base' = Base /\ InFile' = InFile /\ lastParent' = lastParent /\ count' = count
    BY <2>1 DEF disk, Base, InFile
  <2> QED
    BY <2>2, <1>1
<1>5. CASE new # <<>>
  <2>1. /\ Store(MessageEntries(lastParent, new))
        /\ lastParent' = Len(Base) + 2 * Len(new) - 1
        /\ count' = Len(s)
    BY <1>5 DEF Persist
  <2> HIDE DEF new
  <2>2. Len(new) > 0
    BY <1>2, <1>5, EmptySeq
  <2>3. MayFollow(new, said, Len(Base))
    <3>1. DOMAIN new = 1..Len(new)
      BY <1>2
    <3>2. ASSUME NEW k \in 1..Len(new)
          PROVE  /\ new[k] \notin said /\ \A c \in CallsOf(new[k]) : Result(c) \notin said
                 /\ IsSummary(new[k]) => new[k].summarizes \in 1..Len(Base)
      <4>1. new[k] = s[count + k] /\ count + k \in count + 1..Len(s) /\ count + k \in DOMAIN s
        BY <1>1, <1>2
      <4>2. 1..Len(file) \subseteq 1..Len(Base)
        BY <1>1, <1>3
      <4>3. /\ s[count + k] \notin said /\ \A c \in CallsOf(s[count + k]) : Result(c) \notin said
            /\ IsSummary(s[count + k]) => s[count + k].summarizes \in 1..Len(file)
        BY <4>1 DEF Unsaid
      <4> QED
        BY ONLY <4>1, <4>2, <4>3, SMTT(30)
    <3> QED
      BY <3>1, <3>2, <1>2 DEF MayFollow
  <2>4. /\ Adds(file, file', {new[k] : k \in 1..Len(new)})
        /\ up' => /\ Said(Base', lastParent') = said \cup {new[k] : k \in 1..Len(new)}
                  /\ stored' = stored \o new
    <3>1. new \in Seq(Message) /\ MayFollow(new, Said(Base, lastParent), Len(Base))
      BY <1>2, <2>3
    <3> QED
      BY <3>1, <2>1, <2>2, BurstStored
  <2>5. \A k \in 1..Len(new) : new[k] \in Range(s)
    BY <1>1, <1>2 DEF Range
  <2>6. FileInOrder(file') /\ Len(file') \in Nat /\ Len(file) <= Len(file') /\ Held(file') \subseteq Held(file) \cup {new[k] : k \in 1..Len(new)}
    BY <2>4 DEF Adds, Continues
  <2>7. InFile' \subseteq InFile \cup Range(s)
    BY <2>5, <2>6 DEF InFile, Held
  <2>8. ASSUME up'
        PROVE  Tidy(s, Said(Base', lastParent'))
    <3>1. \A c \in Asked(s) : Result(c) \in Said(Base', lastParent') => Result(c) \in Range(s)
      BY <2>4, <2>5, <2>8 DEF Tidy
    <3> QED
      BY <3>1, <1>1 DEF Tidy
  <2>9. Unsaid(s, count', Said(Base', lastParent'))
    <3>1. \A k \in count' + 1..Len(s) : FALSE
      BY <2>1, <1>1
    <3> QED
      BY <3>1 DEF Unsaid
  <2>10. ASSUME up'
         PROVE  Scattered(stored', DOMAIN stored', s)
    <3>1. \A k \in count + 1..Len(s) : \A i \in DOMAIN stored : stored[i] # s[k]
      BY <1>3 DEF Unsaid
    <3>2. Scattered(stored \o SubSeq(s, count + 1, Len(s)), DOMAIN (stored \o SubSeq(s, count + 1, Len(s))), s)
      BY <3>1, <1>1, <1>3, ScatteredSave
    <3> QED
      BY <3>2, <2>4, <2>10, <1>2
  <2> QED
    BY <2>6, <2>7, <2>8, <2>9, <2>10
<1> QED
  BY <1>4, <1>5

\* A step that writes nothing and changes no transcript.
LEMMA MoveOrder ==
    ASSUME Core, OrderInv, SavedInOrder,
           UNCHANGED <<disk, up, live, lastParent, count, users, replies, calls>>,
           at' \in RunPlaces => at \in RunPlaces,
           at' \in {"tool", "returned"} => at \in {"tool", "returned"} /\ todo' = todo,
           at' = "answered" => at = "answered" /\ reply' = reply,
           up /\ at' = "summarizing" => FirstRows(ContextRows, plan')
    PROVE  OrderInv' /\ SavedInOrder'
<1>1. /\ file' = file /\ stored' = stored /\ up' = up /\ live' = live /\ lastParent' = lastParent
      /\ count' = count /\ users' = users /\ replies' = replies /\ calls' = calls
  BY DEF disk
<1>2. Base' = Base /\ InFile' = InFile /\ ContextRows' = ContextRows
  BY <1>1 DEF Base, InFile, ContextRows
<1>3. Known' \subseteq Known
  BY <1>1, <1>2 DEF Known
<1>4. KnownInOrder'
  <2>1. TypeOK /\ KnownInOrder
    BY DEF Core, OrderInv
  <2>2. Joins(Known, {}, Len(file'), users', replies', calls')
    BY DEF Joins
  <2>3. /\ Len(file') \in Nat /\ Len(file) <= Len(file') /\ users' \in Nat /\ users <= users'
        /\ replies' \in Nat /\ replies <= replies' /\ calls' \in Nat /\ calls <= calls'
    BY <2>1, <1>1 DEF TypeOK
  <2> QED
    BY <1>3, <2>1, <2>2, <2>3, KnownGrows
<1>5. FileInOrder(file')
  BY <1>1 DEF OrderInv
<1>6. LiveInOrder'
  <2> SUFFICES ASSUME up' PROVE LiveInOrder'
    BY DEF LiveInOrder
  <2>1. LiveInOrder /\ up
    BY <1>1 DEF OrderInv
  <2> QED
    BY <1>1, <1>2, <1>3, <2>1 DEF LiveInOrder
<1>7. SavedInOrder'
  BY <1>1 DEF SavedInOrder
<1> QED
  BY <1>4, <1>5, <1>6, <1>7 DEF OrderInv

LEMMA DownOrder ==
    ASSUME Core, OrderInv, ~up', UNCHANGED <<file, users, replies, calls>>
    PROVE  OrderInv' /\ SavedInOrder'
<1>1. InFile' = InFile /\ Known' \subseteq Known
  BY DEF InFile, Known
<1>2. KnownInOrder'
  <2>1. TypeOK /\ KnownInOrder
    BY DEF Core, OrderInv
  <2>2. Joins(Known, {}, Len(file'), users', replies', calls')
    BY DEF Joins
  <2>3. /\ Len(file') \in Nat /\ Len(file) <= Len(file') /\ users' \in Nat /\ users <= users'
        /\ replies' \in Nat /\ replies <= replies' /\ calls' \in Nat /\ calls <= calls'
    BY <2>1 DEF TypeOK
  <2> QED
    BY <1>1, <2>1, <2>2, <2>3, KnownGrows
<1> QED
  BY <1>2 DEF OrderInv, LiveInOrder, SavedInOrder

LEMMA PlansFirst ==
    ASSUME Core, up
    PROVE  \A ids \in Plans(ContextRows) : FirstRows(ContextRows, ids)
<1> SUFFICES ASSUME NEW ids \in Plans(ContextRows) PROVE FirstRows(ContextRows, ids)
  OBVIOUS
<1>1. Len(ContextRows) \in Nat
  BY Here
<1>2. PICK c \in 1..Len(ContextRows) :
         /\ CutAt(ContextRows, c) > 0
         /\ ids = {ContextRows[i].id : i \in 1..CutAt(ContextRows, c)}
  BY DEF Plans
<1>3. CutAt(ContextRows, c) \in 1..Len(ContextRows)
  <2>1. CutAt(ContextRows, c) \in Int /\ CutAt(ContextRows, c) <= Len(ContextRows)
    BY <1>1, CutAtType
  <2> QED
    BY <2>1, <1>1, <1>2
<1> QED
  BY <1>2, <1>3 DEF FirstRows

LEMMA StartCompactionOrder ==
    ASSUME Core, OrderInv, SavedInOrder, up, NEW plans, NEW next,
           \A ids \in plans : FirstRows(ContextRows, ids), StartCompaction(plans, next)
    PROVE  OrderInv' /\ SavedInOrder'
<1>1. /\ UNCHANGED <<disk, up, live, lastParent, count, users, replies, calls>>
      /\ at' = "summarizing" /\ plan' \in plans
  BY DEF StartCompaction, runVars
<1>2. at' \notin RunPlaces
  BY <1>1 DEF RunPlaces
<1> QED
  BY <1>1, <1>2, MoveOrder

LEMMA SettledOrder ==
    ASSUME Core, OrderInv, SavedInOrder, Settled
    PROVE  OrderInv' /\ SavedInOrder'
<1>1. /\ UNCHANGED <<disk, up, live, lastParent, count, users, replies, calls>> /\ at' = "idle"
  BY DEF Settled, runVars, counters
<1>2. at' \notin RunPlaces
  BY <1>1 DEF RunPlaces
<1> QED
  BY <1>1, <1>2, MoveOrder

LEMMA QuietStepsOrder ==
    ASSUME Core, OrderInv, SavedInOrder,
           Prompt \/ Overflowed \/ Settle \/ Compact \/ AbandonCompaction \/ StartBranchSummary
              \/ AbandonBranch \/ Cancel \/ Crash
    PROVE  OrderInv' /\ SavedInOrder'
<1>1. CASE Prompt
  <2>1. up
    BY <1>1 DEF Prompt
  <2>2. CASE StartCompaction(Plans(ContextRows), "prompting")
    BY <2>1, <2>2, PlansFirst, StartCompactionOrder
  <2>3. CASE /\ at' = "prompting"
             /\ UNCHANGED <<disk, up, live, lastParent, then, runVars, plan, branch, history, counters>>
    <3>1. UNCHANGED <<disk, up, live, lastParent, count, users, replies, calls>> /\ at' \notin RunPlaces
      BY <2>3 DEF runVars, counters, RunPlaces
    <3> QED
      BY <3>1, <2>3, MoveOrder
  <2> QED
    BY <1>1, <2>2, <2>3 DEF Prompt
<1>2. CASE Overflowed
  <2>1. up
    BY <1>2 DEF Overflowed
  <2> QED
    BY <2>1, <1>2, PlansFirst, StartCompactionOrder, SettledOrder DEF Overflowed
<1>3. CASE Settle
  <2>1. up
    BY <1>3 DEF Settle
  <2> QED
    BY <2>1, <1>3, PlansFirst, StartCompactionOrder, SettledOrder DEF Settle
<1>4. CASE Compact
  <2> DEFINE all == {ContextRows[i].id : i \in DOMAIN ContextRows}
  <2>1. up /\ ContextRows # <<>> /\ StartCompaction({all}, "idle")
    BY <1>4 DEF Compact
  <2>2. ContextRows \in Seq(RowsTo(lastParent))
    BY <2>1, Here
  <2>3. DOMAIN ContextRows = 1..Len(ContextRows) /\ Len(ContextRows) \in 1..Len(ContextRows)
    BY <2>1, <2>2, EmptySeq
  <2>4. FirstRows(ContextRows, all)
    BY <2>3 DEF FirstRows
  <2> HIDE DEF all
  <2> QED
    BY <2>1, <2>4, StartCompactionOrder
<1>5. CASE AbandonCompaction
  <2>1. /\ UNCHANGED <<disk, up, live, lastParent, count, users, replies, calls>>
        /\ at' \in {"idle", "prompting", "retrying"}
    <3>1. then \in {"idle", "prompting", "retrying"}
      BY DEF Core, TypeOK
    <3> QED
      BY <1>5, <3>1 DEF AbandonCompaction, runVars, counters
  <2>2. at' \notin RunPlaces /\ at' # "summarizing"
    BY <2>1 DEF RunPlaces
  <2>3. at' \notin {"tool", "returned"} /\ at' # "answered"
    BY <2>1
  <2> QED
    BY <2>1, <2>2, <2>3, MoveOrder
<1>6. CASE StartBranchSummary \/ AbandonBranch
  <2>1. /\ UNCHANGED <<disk, up, live, lastParent, count, users, replies, calls, at, plan, todo, reply>>
    BY <1>6 DEF StartBranchSummary, AbandonBranch, runVars, counters
  <2>2. up /\ at' = "summarizing" => FirstRows(ContextRows, plan')
    BY <2>1 DEF OrderInv, LiveInOrder
  <2> QED
    BY <2>1, <2>2, MoveOrder
<1>7. CASE Cancel
  <2>1. /\ UNCHANGED <<disk, up, live, lastParent, count, users, replies, calls, at, plan, todo, reply>>
    BY <1>7 DEF Cancel, counters
  <2>2. up /\ at' = "summarizing" => FirstRows(ContextRows, plan')
    BY <2>1 DEF OrderInv, LiveInOrder
  <2> QED
    BY <2>1, <2>2, MoveOrder
<1>8. CASE Crash
  <2>1. ~up' /\ UNCHANGED <<file, users, replies, calls>>
    BY <1>8 DEF Crash, disk
  <2> QED
    BY <2>1, DownOrder
<1> QED
  BY <1>1, <1>2, <1>3, <1>4, <1>5, <1>6, <1>7, <1>8

\* Messages t that may be appended to s.
Behind(s, t, said) ==
    /\ Distinct(t)
    /\ \A k \in DOMAIN t :
          /\ t[k] \notin said /\ \A i \in DOMAIN s : s[i] # t[k]
          /\ \A c \in CallsOf(t[k]) :
                /\ Result(c) \notin said /\ \A i \in DOMAIN s : s[i] # Result(c)
                /\ \A l \in DOMAIN t : t[l] # Result(c)

LEMMA AppendOrder ==
    ASSUME Core, OrderInv, SavedInOrder, up, NEW t \in Seq(Message), live' = live \o t,
           UNCHANGED <<disk, up, lastParent, replies, calls>>, users' \in Nat, users <= users',
           Behind(live, t, Said(Base, lastParent)),
           Joins(Known, {t[k] : k \in DOMAIN t}, Len(file), users', replies, calls),
           count' = count \/ count' = Len(live),
           at' \in RunPlaces /\ count' # Len(live) => at \in RunPlaces,
           at' \notin {"answered", "summarizing"},
           at' \in {"tool", "returned"} =>
              /\ Distinct(todo')
              /\ \A k \in DOMAIN todo' : /\ todo'[k] \in 1..calls /\ Result(todo'[k]) \notin Known
                                         /\ \A l \in DOMAIN t : t[l] # Result(todo'[k])
    PROVE  OrderInv' /\ SavedInOrder'
<1> DEFINE N == {t[k] : k \in DOMAIN t}
           said == Said(Base, lastParent)
<1>1. /\ file' = file /\ stored' = stored /\ up' = up /\ lastParent' = lastParent
      /\ replies' = replies /\ calls' = calls
  BY DEF disk
<1>2. Base' = Base /\ InFile' = InFile
  BY <1>1 DEF Base, InFile
<1>3. TypeOK /\ FileInOrder(file) /\ KnownInOrder /\ LiveInOrder
  BY DEF Core, OrderInv
<1>4. Known' \subseteq Known \cup N
  <2>1. Range(live') \subseteq Range(live) \cup N
    <3> SUFFICES ASSUME NEW m \in Range(live') PROVE m \in Range(live) \cup N
      OBVIOUS
    <3>1. PICK i \in DOMAIN (live \o t) : m = (live \o t)[i]
      BY DEF Range
    <3>2. live \in Seq(Message)
      BY There
    <3>3. \/ i \in DOMAIN live /\ m = live[i]
          \/ i - Len(live) \in DOMAIN t /\ m = t[i - Len(live)]
      BY <3>1, <3>2
    <3> QED
      BY <3>3 DEF Range
  <2> HIDE DEF N
  <2> QED
    BY <2>1, <1>1, <1>2 DEF Known
<1>5. KnownInOrder'
  <2>1. /\ Len(file') \in Nat /\ Len(file) <= Len(file')
        /\ replies' \in Nat /\ replies <= replies' /\ calls' \in Nat /\ calls <= calls'
    BY <1>1, <1>3 DEF TypeOK
  <2>2. Joins(Known, N, Len(file'), users', replies', calls')
    BY <1>1
  <2> HIDE DEF N
  <2> QED
    BY <1>3, <1>4, <2>1, <2>2, KnownGrows
<1>6. /\ live \in Seq(Message) /\ Tidy(live, said) /\ stored \in Seq(Message)
  BY There
<1>7. /\ Tidy(live \o t, said) /\ Unsaid(live \o t, Len(live), said)
      /\ \A n \in 0..Len(live) : Unsaid(live, n, said) => Unsaid(live \o t, n, said)
  BY <1>6, TidyAppend DEF Behind
<1>8. at' \in RunPlaces => Unsaid(live', count', said)
  <2>1. CASE count' = Len(live)
    BY <2>1, <1>7
  <2>2. ASSUME count' # Len(live), at' \in RunPlaces
        PROVE  Unsaid(live', count', said)
    <3>1. count' = count /\ at \in RunPlaces
      BY <2>2
    <3>2. Unsaid(live, count, said)
      BY <3>1, <1>3 DEF LiveInOrder
    <3>3. count \in 0..Len(live)
      BY <3>1, <1>3, <1>6 DEF TypeOK
    <3> QED
      BY <3>1, <3>2, <3>3, <1>7
  <2> QED
    BY <2>1, <2>2
<1>9. at' \in {"tool", "returned"} =>
         \A k \in DOMAIN todo' : todo'[k] \in 1..calls' /\ Result(todo'[k]) \notin Known'
  BY <1>1, <1>4
<1>10. LiveInOrder'
  <2>1. Tidy(live', Said(Base', lastParent'))
    BY <1>1, <1>2, <1>7
  <2>2. at' \in RunPlaces => Unsaid(live', count', Said(Base', lastParent'))
    BY <1>1, <1>2, <1>8
  <2> QED
    BY <2>1, <2>2, <1>9 DEF LiveInOrder
<1>11. SavedInOrder'
  <2>1. Scattered(stored, DOMAIN stored, live)
    BY DEF SavedInOrder
  <2>2. Distinct(live \o t)
    BY <1>7 DEF Tidy
  <2>3. Scattered(stored, DOMAIN stored, live \o t)
    BY <2>1, <2>2, <1>6, ScatteredAppend
  <2> QED
    BY <2>3, <1>1 DEF SavedInOrder
<1> QED
  BY <1>1, <1>3, <1>5, <1>10, <1>11 DEF OrderInv

\* The repair of the transcript in memory.
LEMMA RepairBehind ==
    ASSUME Core, OrderInv, up
    PROVE  \E t \in Seq(Message) :
              /\ Repaired(live) = live \o t
              /\ Behind(live, t, Said(Base, lastParent))
              /\ \A k \in DOMAIN t : \E c \in 1..calls : t[k] = Result(c)
<1> DEFINE said == Said(Base, lastParent)
<1>1. live \in Seq(Message) /\ Tidy(live, said) /\ Apart(live) /\ \A i \in DOMAIN live : live[i] \in Known
  BY There
<1>2. Distinct(live)
  BY <1>1 DEF Tidy
<1>3. PICK t \in Seq(Message) :
         /\ Repaired(live) = live \o t /\ Distinct(t)
         /\ \A k \in 1..Len(t) : \E c \in Open(live) : t[k] = Result(c)
  BY <1>1, <1>2, RepairedShape
<1>4. ASSUME NEW c \in Open(live)
      PROVE  c \in 1..calls /\ Result(c) \notin said /\ \A i \in DOMAIN live : live[i] # Result(c)
  <2>1. c \in Asked(live) /\ \A i \in DOMAIN live : live[i] # Result(c)
    BY <1>1, OpenCalls
  <2>2. PICK i \in DOMAIN live : c \in CallsOf(live[i])
    BY <2>1 DEF Asked
  <2>3. live[i].kind = "assistant"
    BY <2>2 DEF CallsOf
  <2>4. c \in 1..calls
    BY <2>2, <2>3, <1>1 DEF OrderInv, KnownInOrder, Issued
  <2>5. Result(c) \notin Range(live)
    BY <2>1 DEF Range
  <2> QED
    BY <2>1, <2>4, <2>5, <1>1 DEF Tidy
<1>5. ASSUME NEW k \in DOMAIN t
      PROVE  /\ \E c \in 1..calls : t[k] = Result(c)
             /\ t[k] \notin said /\ \A i \in DOMAIN live : live[i] # t[k]
             /\ CallsOf(t[k]) = {}
  <2>1. PICK c \in Open(live) : t[k] = Result(c)
    BY <1>3
  <2> QED
    BY <2>1, <1>4, Kinds
<1>6. Behind(live, t, said)
  BY <1>3, <1>5 DEF Behind
<1> QED
  BY <1>3, <1>5, <1>6

LEMMA FreshUser ==
    ASSUME Core, OrderInv, up
    PROVE  /\ User(users + 1) \in Message /\ ~IsSummary(User(users + 1))
           /\ User(users + 1).kind = "user" /\ User(users + 1).id = users + 1
           /\ User(users + 1) \notin Known /\ User(users + 1) \notin Said(Base, lastParent)
           /\ CallsOf(User(users + 1)) = {}
           /\ \A c : User(users + 1) # Result(c)
<1> DEFINE u == User(users + 1)
<1>1. /\ users \in Nat /\ KnownInOrder
  BY DEF Core, TypeOK, OrderInv
<1>2. /\ u \in Message /\ ~IsSummary(u) /\ u.kind = "user" /\ u.id = users + 1 /\ CallsOf(u) = {}
      /\ \A c : Result(c).kind = "result"
  <2>1. users + 1 \in Nat
    BY <1>1
  <2>2. u = [kind |-> "user", id |-> users + 1]
    BY DEF User
  <2> HIDE DEF u
  <2>3. u \in Message
    BY <2>1, <2>2 DEF Message, UserMessages
  <2>4. ~IsSummary(u)
    BY <2>2 DEF IsSummary
  <2>5. u.kind = "user" /\ u.id = users + 1
    BY <2>2
  <2> QED
    BY <2>3, <2>4, <2>5, Kinds DEF CallsOf
<1> HIDE DEF u
<1>3. u \notin Known
  <2>1. u \in Known => users + 1 \in 1..users
    BY <1>1, <1>2 DEF KnownInOrder, Issued
  <2> QED
    BY <2>1, <1>1
<1>4. u \notin Said(Base, lastParent)
  <2>1. \A m \in Said(Base, lastParent) : m \in InFile \/ \E k \in 1..Len(Base) : m = Summary(k)
    BY There
  <2> QED
    BY <2>1, <1>2, <1>3, Kinds DEF Known
<1> QED
  BY <1>2, <1>3, <1>4 DEF u

LEMMA NotKnownNotSaid ==
    ASSUME Core, OrderInv, up
    PROVE  /\ \A m : m \notin Known /\ ~IsSummary(m) => m \notin Said(Base, lastParent)
           /\ \A m : m \notin InFile /\ ~IsSummary(m) => m \notin Said(Base, lastParent)
           /\ \A m : m \notin Known => m \notin InFile /\ \A i \in DOMAIN live : live[i] # m
<1>1. \A m \in Said(Base, lastParent) : m \in InFile \/ \E k \in 1..Len(Base) : m = Summary(k)
  BY There
<1>2. \A i \in DOMAIN live : live[i] \in Known
  BY There
<1>3. InFile \subseteq Known
  BY DEF Known
<1> QED
  BY <1>1, <1>2, <1>3, Kinds

LEMMA StartRunOrder ==
    ASSUME Core, OrderInv, SavedInOrder, up, NEW isRetry, NEW place \in {"injecting", "streaming"},
           \/ StartRun(<<>>, isRetry, place) /\ users' = users
           \/ StartRun(<<User(users + 1)>>, isRetry, place) /\ users' = users + 1
    PROVE  OrderInv' /\ SavedInOrder'
<1> DEFINE said == Said(Base, lastParent)
           u == User(users + 1)
<1>1. PICK t \in Seq(Message) :
         /\ Repaired(live) = live \o t /\ Behind(live, t, said)
         /\ \A k \in DOMAIN t : \E c \in 1..calls : t[k] = Result(c)
  BY RepairBehind
<1>2. /\ UNCHANGED <<disk, up, lastParent, replies, calls>> /\ count' = Len(live)
      /\ at' \notin {"answered", "summarizing", "tool", "returned"} /\ users \in Nat
  BY DEF StartRun, Core, TypeOK
<1>3. live \in Seq(Message)
  BY There
<1>4. \A c : Result(c).kind = "result" /\ Result(c).call = c
  BY Kinds
<1>5. CASE StartRun(<<>>, isRetry, place) /\ users' = users
  <2>1. live' = live \o t
    BY <1>1, <1>3, <1>5 DEF StartRun
  <2>2. \A m \in {t[k] : k \in DOMAIN t} : m.kind # "assistant" /\ IssuedIn(m, Len(file), users', replies, calls)
    BY <1>1, <1>4 DEF IssuedIn
  <2>3. Joins(Known, {t[k] : k \in DOMAIN t}, Len(file), users', replies, calls)
    BY <2>2, JoinsQuietly
  <2>4. users' \in Nat /\ users <= users'
    BY <1>2, <1>5
  <2> QED
    BY <1>1, <1>2, <2>1, <2>3, <2>4, AppendOrder
<1>6. CASE StartRun(<<u>>, isRetry, place) /\ users' = users + 1
  <2> DEFINE s == Append(t, u)
  <2>1. /\ u \in Message /\ u \notin said /\ CallsOf(u) = {} /\ \A c : u # Result(c)
        /\ \A i \in DOMAIN live : live[i] # u
        /\ u.kind = "user" /\ u.id = users + 1 /\ ~IsSummary(u)
    BY FreshUser, NotKnownNotSaid
  <2>2. live' = (live \o t) \o <<u>>
    BY <1>1, <1>6 DEF StartRun
  <2> HIDE DEF u, said
  <2>3. /\ s \in Seq(Message) /\ DOMAIN s = 1..Len(t) + 1 /\ DOMAIN t = 1..Len(t) /\ Len(t) \in Nat
        /\ \A k \in 1..Len(t) : s[k] = t[k]
        /\ s[Len(t) + 1] = u
    BY <2>1
  <2>4. live' = live \o s
    BY <1>3, <2>1, <2>2
  <2> HIDE DEF s
  <2>5. \A k \in DOMAIN s : s[k] = u \/ \E c \in 1..calls : s[k] = Result(c)
    <3>1. \A k \in DOMAIN s : k \in DOMAIN t \/ k = Len(t) + 1
      BY <2>3
    <3> QED
      BY <3>1, <2>3, <1>1
  <2>6. Behind(live, s, said)
    <3>1. \A k \in DOMAIN s : k \in DOMAIN t \/ k = Len(t) + 1
      BY <2>3
    <3>2. Distinct(s)
      <4> SUFFICES ASSUME NEW i \in DOMAIN s, NEW j \in DOMAIN s, s[i] = s[j] PROVE i = j
        BY DEF Distinct
      <4>1. CASE i \in DOMAIN t /\ j \in DOMAIN t
        BY <4>1, <2>3, <1>1 DEF Behind, Distinct
      <4>2. CASE i \in DOMAIN t /\ j = Len(t) + 1
        BY <4>2, <2>3, <2>1, <1>1
      <4>3. CASE i = Len(t) + 1 /\ j \in DOMAIN t
        BY <4>3, <2>3, <2>1, <1>1
      <4> QED
        BY <4>1, <4>2, <4>3, <3>1
    <3>3. \A k \in DOMAIN s : /\ s[k] \notin said /\ \A i \in DOMAIN live : live[i] # s[k]
                              /\ CallsOf(s[k]) = {}
      <4> SUFFICES ASSUME NEW k \in DOMAIN s
                   PROVE  /\ s[k] \notin said /\ \A i \in DOMAIN live : live[i] # s[k]
                          /\ CallsOf(s[k]) = {}
        OBVIOUS
      <4>1. CASE k \in DOMAIN t
        <5>1. s[k] = t[k]
          BY <4>1, <2>3
        <5>2. PICK c : t[k] = Result(c)
          BY <4>1, <1>1
        <5>3. CallsOf(t[k]) = {}
          BY <5>2, Kinds
        <5>4. t[k] \notin said /\ \A i \in DOMAIN live : live[i] # t[k]
          BY <4>1, <1>1 DEF Behind
        <5> QED
          BY <5>1, <5>3, <5>4
      <4>2. CASE k = Len(t) + 1
        BY <4>2, <2>3, <2>1
      <4> QED
        BY <4>1, <4>2, <3>1
    <3> QED
      BY <3>2, <3>3 DEF Behind
  <2>7. Joins(Known, {s[k] : k \in DOMAIN s}, Len(file), users', replies, calls)
    <3>1. users + 1 \in 1..users + 1
      BY <1>2
    <3>2. IssuedIn(u, Len(file), users', replies, calls)
      BY <3>1, <2>1, <1>6 DEF IssuedIn
    <3>3. \A c \in 1..calls : IssuedIn(Result(c), Len(file), users', replies, calls) /\ Result(c).kind # "assistant"
      BY <1>4 DEF IssuedIn
    <3>4. \A m \in {s[k] : k \in DOMAIN s} : m.kind # "assistant" /\ IssuedIn(m, Len(file), users', replies, calls)
      BY <3>2, <3>3, <2>1, <2>5
    <3> QED
      BY <3>4, JoinsQuietly
  <2>8. users' \in Nat /\ users <= users'
    BY <1>2, <1>6
  <2> QED
    BY <1>2, <2>3, <2>4, <2>6, <2>7, <2>8, AppendOrder DEF said
<1> QED
  BY <1>5, <1>6

\* A single message that may be appended.
LEMMA OneBehind ==
    ASSUME NEW s, NEW said, NEW m \in Message, m \notin said, \A i \in DOMAIN s : s[i] # m,
           \A c \in CallsOf(m) : /\ Result(c) \notin said /\ \A i \in DOMAIN s : s[i] # Result(c)
                                 /\ m # Result(c)
    PROVE  /\ Behind(s, <<m>>, said) /\ <<m>> \in Seq(Message)
           /\ DOMAIN <<m>> = {1} /\ <<m>>[1] = m
<1> DEFINE t == <<m>>
<1>1. t \in Seq(Message) /\ DOMAIN t = {1} /\ t[1] = m
  OBVIOUS
<1> HIDE DEF t
<1>2. Behind(s, t, said)
  BY <1>1 DEF Behind, Distinct
<1> QED
  BY <1>1, <1>2 DEF t

LEMMA AppendOneOrder ==
    ASSUME Core, OrderInv, SavedInOrder, up, NEW m \in Message, live' = Append(live, m),
           UNCHANGED <<disk, up, lastParent, count, replies, calls>>, users' \in Nat, users <= users',
           m \notin Said(Base, lastParent), \A i \in DOMAIN live : live[i] # m,
           \A c \in CallsOf(m) :
               /\ Result(c) \notin Said(Base, lastParent) /\ \A i \in DOMAIN live : live[i] # Result(c)
               /\ m # Result(c),
           Joins(Known, {m}, Len(file), users', replies, calls),
           at \in RunPlaces, at' \notin {"answered", "summarizing"},
           at' \in {"tool", "returned"} =>
              /\ Distinct(todo')
              /\ \A k \in DOMAIN todo' : /\ todo'[k] \in 1..calls /\ Result(todo'[k]) \notin Known
                                         /\ m # Result(todo'[k])
    PROVE  OrderInv' /\ SavedInOrder'
<1> DEFINE t == <<m>>
<1>1. Behind(live, t, Said(Base, lastParent)) /\ t \in Seq(Message) /\ DOMAIN t = {1} /\ t[1] = m
  BY OneBehind
<1>2. live' = live \o t
  <2>1. live \in Seq(Message)
    BY There
  <2> QED
    BY <2>1
<1> HIDE DEF t
<1>3. {t[k] : k \in DOMAIN t} = {m}
  BY <1>1
<1>4. \A l \in DOMAIN t : t[l] = m
  BY <1>1
<1>5. Joins(Known, {t[k] : k \in DOMAIN t}, Len(file), users', replies, calls)
  BY <1>3
<1>6. at' \in {"tool", "returned"} =>
              /\ Distinct(todo')
              /\ \A k \in DOMAIN todo' : /\ todo'[k] \in 1..calls /\ Result(todo'[k]) \notin Known
                                         /\ \A l \in DOMAIN t : t[l] # Result(todo'[k])
  BY <1>4
<1> QED
  BY <1>1, <1>2, <1>5, <1>6, AppendOrder

LEMMA AppendReplyOrder ==
    ASSUME Core, OrderInv, SavedInOrder, AppendReply
    PROVE  OrderInv' /\ SavedInOrder'
<1>1. /\ up /\ at = "answered" /\ live' = Append(live, reply)
      /\ todo' = IF reply.stop = "done" THEN reply.calls ELSE <<>>
      /\ at' = IF reply.stop # "done" THEN "closing"
               ELSE IF reply.calls = <<>> THEN "turnEnd" ELSE "tool"
      /\ UNCHANGED <<disk, up, lastParent, count, users, replies, calls>>
  BY DEF AppendReply, counters
<1>2. /\ reply \in AssistantMessages /\ users \in Nat /\ at \in RunPlaces
      /\ KnownInOrder /\ LiveInOrder
  BY <1>1 DEF Core, TypeOK, RunShape, OrderInv, RunPlaces
<1>3. /\ reply \in Message /\ reply.kind = "assistant" /\ ~IsSummary(reply)
      /\ CallsOf(reply) = Range(reply.calls) /\ reply.calls \in Seq(Nat)
  BY <1>2 DEF Message, AssistantMessages, IsSummary, CallsOf
<1>4. /\ reply \notin InFile \cup Range(live) /\ \A c \in CallsOf(reply) : Result(c) \notin Known
  BY <1>1, <1>2 DEF LiveInOrder
<1>5. reply \notin Said(Base, lastParent) /\ \A i \in DOMAIN live : live[i] # reply
  <2>1. reply \notin Said(Base, lastParent)
    BY <1>1, <1>3, <1>4, NotKnownNotSaid
  <2> QED
    BY <2>1, <1>4 DEF Range
<1>6. \A c \in CallsOf(reply) :
               /\ Result(c) \notin Said(Base, lastParent) /\ \A i \in DOMAIN live : live[i] # Result(c)
               /\ reply # Result(c)
  <2> SUFFICES ASSUME NEW c \in CallsOf(reply)
               PROVE  /\ Result(c) \notin Said(Base, lastParent) /\ \A i \in DOMAIN live : live[i] # Result(c)
                      /\ reply # Result(c)
    OBVIOUS
  <2>1. Result(c) \notin Known /\ ~IsSummary(Result(c)) /\ Result(c).kind = "result"
    BY <1>4, Kinds
  <2> QED
    BY <2>1, <1>1, <1>3, NotKnownNotSaid
<1>7. reply \in Known
  BY <1>1 DEF Known
<1>8. Joins(Known, {reply}, Len(file), users', replies, calls)
  <2>1. IssuedIn(reply, Len(file), users', replies, calls)
    BY <1>1, <1>2, <1>7 DEF KnownInOrder, Issued, IssuedIn
  <2>2. Distinct(reply.calls) /\ \A k \in Known \cup {reply} : CallsOf(reply) \cap CallsOf(k) # {} => reply = k
    BY <1>2, <1>3, <1>7 DEF KnownInOrder
  <2> QED
    BY <2>1, <2>2 DEF Joins
<1>9. at' \in {"tool", "returned"} =>
         /\ Distinct(todo')
         /\ \A k \in DOMAIN todo' : /\ todo'[k] \in 1..calls /\ Result(todo'[k]) \notin Known
                                    /\ reply # Result(todo'[k])
  <2> SUFFICES ASSUME at' \in {"tool", "returned"}
               PROVE  /\ Distinct(todo')
                      /\ \A k \in DOMAIN todo' : /\ todo'[k] \in 1..calls /\ Result(todo'[k]) \notin Known
                                                 /\ reply # Result(todo'[k])
    OBVIOUS
  <2>1. todo' = reply.calls
    BY <1>1
  <2>2. Distinct(reply.calls) /\ CallsOf(reply) \subseteq 1..calls
    BY <1>2, <1>3, <1>7 DEF KnownInOrder, Issued
  <2>3. \A k \in DOMAIN reply.calls : reply.calls[k] \in CallsOf(reply)
    BY <1>3 DEF Range
  <2> QED
    BY <2>1, <2>2, <2>3, <1>4, <1>6
<1>10. at' \notin {"answered", "summarizing"} /\ users <= users' /\ users' \in Nat
  BY <1>1, <1>2
<1> QED
  BY <1>1, <1>2, <1>3, <1>5, <1>6, <1>8, <1>9, <1>10, AppendOneOrder

LEMMA AppendResultOrder ==
    ASSUME Core, OrderInv, SavedInOrder, AppendResult
    PROVE  OrderInv' /\ SavedInOrder'
<1> DEFINE c == Head(todo)
           m == Result(c)
<1>1. /\ up /\ at = "returned" /\ live' = Append(live, m) /\ todo' = Tail(todo)
      /\ at' = IF Tail(todo) = <<>> THEN "turnEnd" ELSE "tool"
      /\ UNCHANGED <<disk, up, lastParent, count, users, replies, calls>>
  BY DEF AppendResult, counters
<1>2. /\ users \in Nat /\ at \in RunPlaces /\ KnownInOrder /\ LiveInOrder
      /\ todo \in Seq(Nat) /\ todo # <<>> /\ m \in Message
  <2>1. m \in Message
    BY <1>1, ResultType
  <2> QED
    BY <2>1, <1>1 DEF Core, TypeOK, RunShape, OrderInv, RunPlaces
<1>3. /\ c = todo[1] /\ 1 \in DOMAIN todo
      /\ \A k \in DOMAIN Tail(todo) : k + 1 \in DOMAIN todo /\ Tail(todo)[k] = todo[k + 1] /\ k + 1 # 1 /\ k \in Nat
  BY <1>2
<1>4. /\ Distinct(todo)
      /\ \A k \in DOMAIN todo : todo[k] \in 1..calls /\ Result(todo[k]) \notin Known
  BY <1>1, <1>2 DEF LiveInOrder
<1> HIDE DEF c
<1>5. /\ m \notin Known /\ c \in 1..calls /\ ~IsSummary(m) /\ CallsOf(m) = {} /\ m.kind = "result" /\ m.call = c
  BY <1>3, <1>4, Kinds
<1>6. m \notin Said(Base, lastParent) /\ \A i \in DOMAIN live : live[i] # m
  BY <1>1, <1>5, NotKnownNotSaid
<1>7. Joins(Known, {m}, Len(file), users', replies, calls)
  <2>1. IssuedIn(m, Len(file), users', replies, calls) /\ m.kind # "assistant"
    BY <1>5 DEF IssuedIn
  <2> QED
    BY <2>1, JoinsQuietly
<1>8. /\ Distinct(todo')
      /\ \A k \in DOMAIN todo' : /\ todo'[k] \in 1..calls /\ Result(todo'[k]) \notin Known
                                 /\ m # Result(todo'[k])
  <2>1. Distinct(todo')
    <3> SUFFICES ASSUME NEW i \in DOMAIN todo', NEW j \in DOMAIN todo', todo'[i] = todo'[j] PROVE i = j
      BY DEF Distinct
    <3>1. i + 1 = j + 1
      BY <1>1, <1>3, <1>4 DEF Distinct
    <3> QED
      BY <3>1, <1>1, <1>3
  <2>2. ASSUME NEW k \in DOMAIN todo'
        PROVE  todo'[k] \in 1..calls /\ Result(todo'[k]) \notin Known /\ todo'[k] # c
    BY <1>1, <1>3, <1>4 DEF Distinct
  <2>3. \A x : Result(x).call = x
    BY Kinds
  <2> QED
    BY <2>1, <2>2, <2>3, <1>5
<1>9. at' \notin {"answered", "summarizing"} /\ users <= users' /\ users' \in Nat
  BY <1>1, <1>2
<1> HIDE DEF m
<1> QED
  BY <1>1, <1>2, <1>5, <1>6, <1>7, <1>8, <1>9, AppendOneOrder

LEMMA TurnEndOrder ==
    ASSUME Core, OrderInv, SavedInOrder, TurnEnd
    PROVE  OrderInv' /\ SavedInOrder'
<1> DEFINE u == User(users + 1)
<1>1. /\ up /\ at = "turnEnd" /\ at \in RunPlaces
      /\ UNCHANGED <<disk, up, lastParent, count, replies, calls>>
  BY DEF TurnEnd, RunPlaces, runVars
<1>2. users \in Nat
  BY DEF Core, TypeOK
<1>3. CASE /\ users' = users + 1 /\ live' = Append(live, u) /\ at' = "injecting"
  <2>1. /\ u \in Message /\ u \notin Said(Base, lastParent) /\ CallsOf(u) = {}
        /\ \A i \in DOMAIN live : live[i] # u
        /\ u.kind = "user" /\ u.id = users + 1 /\ ~IsSummary(u)
    BY <1>1, FreshUser, NotKnownNotSaid
  <2> HIDE DEF u
  <2>2. Joins(Known, {u}, Len(file), users', replies, calls)
    <3>1. users + 1 \in 1..users + 1
      BY <1>2
    <3>2. IssuedIn(u, Len(file), users', replies, calls)
      BY <3>1, <2>1, <1>3 DEF IssuedIn
    <3> QED
      BY <3>2, <2>1, JoinsQuietly
  <2>3. users' \in Nat /\ users <= users'
    BY <1>2, <1>3
  <2> QED
    BY <1>1, <1>3, <2>1, <2>2, <2>3, AppendOneOrder
<1>4. CASE at' \in {"streaming", "closing"} /\ UNCHANGED <<users, live>>
  BY <1>1, <1>4, MoveOrder
<1> QED
  BY <1>3, <1>4 DEF TurnEnd

LEMMA CancelTaskOrder ==
    ASSUME Core, OrderInv, SavedInOrder, CancelTask
    PROVE  OrderInv' /\ SavedInOrder'
<1>1. /\ up /\ at' = "idle" /\ at' \notin RunPlaces
      /\ live' = IF cancelled THEN Repaired(live) ELSE live
      /\ UNCHANGED <<disk, up, lastParent, count, users, replies, calls>>
  BY DEF CancelTask, RunPlaces, runVars, counters
<1>2. CASE cancelled
  <2>1. PICK t \in Seq(Message) :
           /\ Repaired(live) = live \o t /\ Behind(live, t, Said(Base, lastParent))
           /\ \A k \in DOMAIN t : \E c \in 1..calls : t[k] = Result(c)
    BY <1>1, RepairBehind
  <2>2. \A c : Result(c).kind = "result" /\ Result(c).call = c
    BY Kinds
  <2>3. \A m \in {t[k] : k \in DOMAIN t} : m.kind # "assistant" /\ IssuedIn(m, Len(file), users', replies, calls)
    BY <2>1, <2>2 DEF IssuedIn
  <2>4. Joins(Known, {t[k] : k \in DOMAIN t}, Len(file), users', replies, calls)
    BY <2>3, JoinsQuietly
  <2>5. users' \in Nat /\ users <= users'
    BY <1>1 DEF Core, TypeOK
  <2> QED
    BY <1>1, <1>2, <2>1, <2>4, <2>5, AppendOrder
<1>3. CASE ~cancelled
  BY <1>1, <1>3, MoveOrder
<1> QED
  BY <1>2, <1>3

LEMMA PersistStepOrder ==
    ASSUME Core, OrderInv, SavedInOrder, up, at \in RunPlaces,
           NEW s \in Seq(Message), count <= Len(s), Persist(s), live' = s,
           Tidy(s, Said(Base, lastParent)), Unsaid(s, count, Said(Base, lastParent)),
           \A i \in DOMAIN s : IsSummary(s[i]) => s[i].summarizes \in 1..Len(file),
           Scattered(stored, DOMAIN stored, s),
           users' = users, replies' \in Nat, replies <= replies', calls' \in Nat, calls <= calls',
           NEW N, Range(s) \subseteq Known \cup N, \A m \in N : m.kind # "user",
           Joins(Known, N, Len(file), users, replies', calls'),
           at' # "summarizing",
           at' \in {"tool", "returned"} =>
              /\ Distinct(todo')
              /\ \A k \in DOMAIN todo' : todo'[k] \in 1..calls' /\ Result(todo'[k]) \notin Known \cup N,
           at' = "answered" =>
              /\ reply' \in N /\ reply' \notin InFile \cup Range(s)
              /\ \A c \in CallsOf(reply') : Result(c) \notin Known \cup N
    PROVE  OrderInv' /\ SavedInOrder'
<1>1. /\ FileInOrder(file') /\ Len(file') \in Nat /\ Len(file) <= Len(file')
      /\ InFile' \subseteq InFile \cup Range(s)
      /\ up' => /\ Tidy(s, Said(Base', lastParent'))
                /\ Unsaid(s, count', Said(Base', lastParent'))
                /\ Scattered(stored', DOMAIN stored', s)
  BY PersistOrder
<1>2. TypeOK /\ KnownInOrder
  BY DEF Core, OrderInv
<1>3. Known' \subseteq Known \cup N
  <2>1. InFile \subseteq Known
    BY DEF Known
  <2> QED
    BY <1>1, <2>1 DEF Known
<1>4. KnownInOrder'
  <2>1. Joins(Known, N, Len(file'), users', replies', calls')
    BY DEF Joins, IssuedIn
  <2>2. users' \in Nat /\ users <= users'
    BY <1>2 DEF TypeOK
  <2> QED
    BY <1>1, <1>2, <1>3, <2>1, <2>2, KnownGrows
<1>5. LiveInOrder'
  <2> SUFFICES ASSUME up' PROVE LiveInOrder'
    BY DEF LiveInOrder
  <2>1. at' = "answered" => reply' \notin InFile' \cup Range(live')
    BY <1>1
  <2>2. at' \in {"tool", "returned"} => \A k \in DOMAIN todo' : Result(todo'[k]) \notin Known'
    BY <1>3
  <2>3. at' = "answered" => \A c \in CallsOf(reply') : Result(c) \notin Known'
    BY <1>3
  <2>4. Tidy(live', Said(Base', lastParent')) /\ Unsaid(live', count', Said(Base', lastParent'))
    BY <1>1
  <2> QED
    BY <2>1, <2>2, <2>3, <2>4 DEF LiveInOrder
<1>6. SavedInOrder'
  BY <1>1 DEF SavedInOrder
<1> QED
  BY <1>1, <1>4, <1>5, <1>6 DEF OrderInv

\* What a run holds, for the steps that persist it as it is.
LEMMA RunHolds ==
    ASSUME Core, OrderInv, SavedInOrder, up, at \in RunPlaces
    PROVE  /\ live \in Seq(Message) /\ count <= Len(live)
           /\ Tidy(live, Said(Base, lastParent)) /\ Unsaid(live, count, Said(Base, lastParent))
           /\ \A i \in DOMAIN live : IsSummary(live[i]) => live[i].summarizes \in 1..Len(file)
           /\ Scattered(stored, DOMAIN stored, live)
           /\ Range(live) \subseteq Known
           /\ Joins(Known, {}, Len(file), users, replies, calls)
           /\ replies \in Nat /\ calls \in Nat /\ users \in Nat
<1>1. count <= Len(live) /\ replies \in Nat /\ calls \in Nat /\ users \in Nat
  BY DEF Core, TypeOK
<1>2. Unsaid(live, count, Said(Base, lastParent))
  BY DEF OrderInv, LiveInOrder
<1>3. Scattered(stored, DOMAIN stored, live)
  BY DEF SavedInOrder
<1>4. Range(live) \subseteq Known
  BY DEF Known
<1>5. Joins(Known, {}, Len(file), users, replies, calls)
  BY DEF Joins
<1> QED
  BY <1>1, <1>2, <1>3, <1>4, <1>5, There

LEMMA UserMessageEndOrder ==
    ASSUME Core, OrderInv, SavedInOrder, UserMessageEnd
    PROVE  OrderInv' /\ SavedInOrder'
<1>1. /\ up /\ at \in RunPlaces /\ Persist(live) /\ live' = live /\ at' = "streaming"
      /\ users' = users /\ replies' = replies /\ calls' = calls
  BY DEF UserMessageEnd, RunPlaces
<1>2. at' \notin {"tool", "returned", "answered", "summarizing"} /\ \A m \in {} : m.kind # "user"
  BY <1>1
<1>3. replies <= replies' /\ calls <= calls'
  BY <1>1, RunHolds
<1> QED
  BY <1>1, <1>2, <1>3, RunHolds, PersistStepOrder

LEMMA ResultEndOrder ==
    ASSUME Core, OrderInv, SavedInOrder, ResultEnd
    PROVE  OrderInv' /\ SavedInOrder'
<1>1. /\ up /\ at = "tool" /\ at \in RunPlaces /\ Persist(live) /\ live' = live /\ at' = "returned"
      /\ users' = users /\ replies' = replies /\ calls' = calls /\ todo' = todo
  BY DEF ResultEnd, RunPlaces
<1>2. /\ Distinct(todo')
      /\ \A k \in DOMAIN todo' : todo'[k] \in 1..calls' /\ Result(todo'[k]) \notin Known \cup {}
  BY <1>1 DEF OrderInv, LiveInOrder
<1>3. at' # "answered" /\ at' # "summarizing" /\ \A m \in {} : m.kind # "user"
  BY <1>1
<1>4. replies <= replies' /\ calls <= calls'
  BY <1>1, RunHolds
<1> QED
  BY <1>1, <1>2, <1>3, <1>4, RunHolds, PersistStepOrder

LEMMA ReplyEndOrder ==
    ASSUME Core, OrderInv, SavedInOrder, ReplyEnd
    PROVE  OrderInv' /\ SavedInOrder'
<1>1. /\ up /\ at \in RunPlaces /\ Persist(live) /\ live' = live /\ at' = "answered"
      /\ users' = users /\ replies' = replies + 1
  BY DEF ReplyEnd, RunPlaces
<1>2. PICK n \in 0..MaxBatch, stop \in {"done", "failed", "overflow"} :
         /\ reply' = Assistant(replies + 1, [i \in 1..n |-> calls + i], stop)
         /\ calls' = calls + n
  BY DEF ReplyEnd
<1> DEFINE m == reply'
<1>3. /\ replies \in Nat /\ calls \in Nat /\ n \in Nat /\ KnownInOrder
  <2>1. MaxBatch \in Nat
    BY SessionAssumption
  <2> QED
    BY <2>1 DEF Core, TypeOK, OrderInv
<1>4. /\ m.kind = "assistant" /\ m.id = replies + 1 /\ m.calls = [i \in 1..n |-> calls + i]
      /\ \A c : m # Result(c)
  <2>1. m.kind = "assistant" /\ m.id = replies + 1 /\ m.calls = [i \in 1..n |-> calls + i]
    BY <1>2 DEF Assistant
  <2> QED
    BY <2>1, Kinds
<1>5. CallsOf(m) = {calls + i : i \in 1..n}
  BY <1>4 DEF CallsOf, Range
<1>6. \A c \in CallsOf(m) : c \in 1..calls' /\ c > calls /\ c \in Nat
  BY <1>2, <1>3, <1>5
<1> HIDE DEF m
<1>7. m \notin Known
  <2>1. m \in Known => replies + 1 \in 1..replies
    BY <1>3, <1>4 DEF KnownInOrder, Issued
  <2> QED
    BY <2>1, <1>3
<1>8. ASSUME NEW k \in Known, NEW c \in CallsOf(m)
      PROVE  c \notin CallsOf(k) /\ k # Result(c)
  <2>1. c \notin 1..calls
    BY <1>3, <1>6
  <2>2. c \in CallsOf(k) => c \in 1..calls
    BY <1>3 DEF KnownInOrder, Issued, CallsOf
  <2>3. k = Result(c) => c \in 1..calls
    BY <1>3, Kinds DEF KnownInOrder, Issued
  <2> QED
    BY <2>1, <2>2, <2>3
<1>9. Joins(Known, {m}, Len(file), users, replies', calls')
  <2>1. Distinct(m.calls)
    <3> SUFFICES ASSUME NEW i \in 1..n, NEW j \in 1..n, calls + i = calls + j PROVE i = j
      BY <1>4 DEF Distinct
    <3> QED
      BY <1>3
  <2>2. replies + 1 \in 1..replies + 1
    BY <1>3
  <2>3. IssuedIn(m, Len(file), users, replies', calls')
    BY <1>1, <1>4, <1>6, <2>2 DEF IssuedIn
  <2>4. \A k \in Known \cup {m} : CallsOf(m) \cap CallsOf(k) # {} => m = k
    BY <1>8
  <2> QED
    BY <2>1, <2>3, <2>4 DEF Joins
<1>10. /\ m \in {m} /\ m \notin InFile \cup Range(live)
       /\ \A c \in CallsOf(m) : Result(c) \notin Known \cup {m}
  <2>1. m \notin InFile \cup Range(live)
    BY <1>1, <1>7 DEF Known
  <2> QED
    BY <2>1, <1>4, <1>8
<1>11. replies' \in Nat /\ replies <= replies' /\ calls' \in Nat /\ calls <= calls'
  BY <1>1, <1>2, <1>3
<1>12. /\ at' \notin {"tool", "returned"} /\ at' # "summarizing" /\ \A x \in {m} : x.kind # "user"
  BY <1>1, <1>4
<1>13. Range(live) \subseteq Known \cup {m}
  BY <1>1, RunHolds
<1>14. at' = "answered" =>
              /\ reply' \in {m} /\ reply' \notin InFile \cup Range(live)
              /\ \A c \in CallsOf(reply') : Result(c) \notin Known \cup {m}
  BY <1>10 DEF m
<1> QED
  BY <1>1, <1>9, <1>11, <1>12, <1>13, <1>14, RunHolds, PersistStepOrder

LEMMA CloseOrder ==
    ASSUME Core, OrderInv, SavedInOrder, Close
    PROVE  OrderInv' /\ SavedInOrder'
<1>1. /\ up /\ at \in RunPlaces
      /\ live' = IF cancelled THEN Repaired(live) ELSE live
      /\ Persist(live')
      /\ at' \in {"overflowed", "settling"}
      /\ users' = users /\ replies' = replies /\ calls' = calls
  BY DEF Close, RunPlaces
<1>2. at' \notin {"tool", "returned", "answered", "summarizing"}
  BY <1>1
<1>3. replies <= replies' /\ calls <= calls' /\ replies' \in Nat /\ calls' \in Nat
  BY <1>1, RunHolds
<1>4. CASE ~cancelled
  <2>1. live' = live /\ Persist(live) /\ \A m \in {} : m.kind # "user"
    BY <1>1, <1>4
  <2> QED
    BY <1>1, <1>2, <1>3, <2>1, RunHolds, PersistStepOrder
<1>5. CASE cancelled
  <2> DEFINE said == Said(Base, lastParent)
  <2>1. PICK t \in Seq(Message) :
           /\ Repaired(live) = live \o t /\ Behind(live, t, said)
           /\ \A k \in DOMAIN t : \E c \in 1..calls : t[k] = Result(c)
    BY <1>1, RepairBehind
  <2> DEFINE s == live \o t
             N == {t[k] : k \in DOMAIN t}
  <2>2. /\ live \in Seq(Message) /\ count <= Len(live) /\ Tidy(live, said) /\ Unsaid(live, count, said)
        /\ \A i \in DOMAIN live : IsSummary(live[i]) => live[i].summarizes \in 1..Len(file)
        /\ Scattered(stored, DOMAIN stored, live) /\ Range(live) \subseteq Known
    BY <1>1, RunHolds
  <2>3. count \in Nat /\ stored \in Seq(Message)
    BY DEF Core, TypeOK
  <2>4. Tidy(s, said) /\ Unsaid(s, count, said)
    <3>1. count \in 0..Len(live)
      BY <2>2, <2>3
    <3> HIDE DEF said
    <3> QED
      BY <2>1, <2>2, <3>1, TidyAppend DEF Behind
  <2>5. /\ s \in Seq(Message) /\ count <= Len(s)
        /\ \A i \in DOMAIN s : \/ i \in DOMAIN live /\ s[i] = live[i]
                               \/ i - Len(live) \in DOMAIN t /\ s[i] = t[i - Len(live)]
    BY <2>2, <2>3
  <2> HIDE DEF s, N
  <2>6. \A m \in N : \E c \in 1..calls : m = Result(c)
    BY <2>1 DEF N
  <2>7. \A c : Result(c).kind = "result" /\ Result(c).call = c /\ ~IsSummary(Result(c))
    BY Kinds
  <2>8. ASSUME NEW i \in DOMAIN s
        PROVE  /\ s[i] \in Known \cup N
               /\ IsSummary(s[i]) => s[i].summarizes \in 1..Len(file)
    <3>1. CASE i \in DOMAIN live /\ s[i] = live[i]
      BY <3>1, <2>2 DEF Range
    <3>2. CASE i - Len(live) \in DOMAIN t /\ s[i] = t[i - Len(live)]
      <4>1. s[i] \in N
        BY <3>2 DEF N
      <4> QED
        BY <4>1, <2>6, <2>7
    <3> QED
      BY <3>1, <3>2, <2>5
  <2>9. Range(s) \subseteq Known \cup N
    BY <2>8 DEF Range
  <2>10. Scattered(stored, DOMAIN stored, s)
    <3>1. Distinct(live \o t)
      BY <2>4 DEF Tidy, s
    <3> QED
      BY <3>1, <2>2, <2>3, ScatteredAppend DEF s
  <2>11. \A m \in N : m.kind # "user" /\ m.kind # "assistant"
    BY <2>6, <2>7
  <2>12. Joins(Known, N, Len(file), users, replies', calls')
    <3>1. \A m \in N : m.kind # "assistant" /\ IssuedIn(m, Len(file), users, replies', calls')
      BY <2>6, <2>7, <1>1 DEF IssuedIn
    <3> QED
      BY <3>1, JoinsQuietly
  <2>13. live' = s /\ Persist(s)
    BY <1>1, <1>5, <2>1 DEF s
  <2> QED
    BY <1>1, <1>2, <1>3, <2>4, <2>5, <2>8, <2>9, <2>10, <2>11, <2>12, <2>13, PersistStepOrder
<1> QED
  BY <1>4, <1>5

\* A step that replaces the transcript by what a load would find.
LEMMA RewriteOrder ==
    ASSUME Core, TypeOK', SavedBranch', OrderInv, NEW N, Adds(file, file', N),
           \A m \in N : \/ m \in Known
                        \/ \E k \in 1..Len(file') : m = Summary(k)
                        \/ \E c \in 1..calls : m = Result(c),
           up' => live' = stored', at' \notin RunPlaces, at' # "summarizing",
           UNCHANGED <<users, replies, calls>>
    PROVE  OrderInv' /\ SavedInOrder'
<1> DEFINE M == {m \in N : m \in Known} \cup {Summary(k) : k \in 1..Len(file')} \cup {Result(c) : c \in 1..calls}
           new == {Summary(k) : k \in 1..Len(file')} \cup {Result(c) : c \in 1..calls}
           f == file'
           b == Begun(f)
           said == Said(b, lastParent')
<1>1. /\ f \in Seq(Entry) /\ IsTree(f) /\ FileInOrder(f) /\ Len(f) \in Nat /\ Len(file) <= Len(f)
      /\ Held(f) \subseteq Held(file) \cup N
  BY DEF Adds, Continues
<1>2. /\ b \in Seq(Entry) /\ IsTree(b) /\ FileInOrder(b) /\ Held(b) \subseteq Held(f) /\ Base' = b /\ Len(b) \in Nat
  <2>1. Adds(f, b, {})
    BY <1>1, BegunAdds
  <2>2. Base' = b
    BY DEF Base, Begun
  <2> HIDE DEF b
  <2> QED
    BY <2>1, <2>2 DEF Adds, Continues
<1>3. up' => /\ lastParent' \in 0..Len(b) /\ stored' = Transcript(b, lastParent') /\ stored' \in Seq(Message)
  <2>1. up' => /\ lastParent' \in Nat /\ lastParent' <= Len(Base') /\ lastParent' = ActiveLeaf(Base')
               /\ stored' = Saved(f) /\ stored' \in Seq(Message)
    BY DEF TypeOK, SavedBranch
  <2>2. Saved(b) = Saved(f)
    BY <1>1, BegunTyped
  <2> HIDE DEF b
  <2> QED
    BY <2>1, <2>2, <1>2 DEF Saved
<1>4. \A k \in 1..Len(b) : Speaks(b[k]) => b = f
  <2>1. CASE f = <<>>
    <3>1. b = <<MetaEntry(0)>>
      BY <2>1 DEF Begun
    <3>2. \A k \in 1..Len(b) : b[k].type = "meta"
      BY <3>1 DEF MetaEntry
    <3> QED
      BY <3>2 DEF Speaks
  <2>2. CASE f # <<>>
    BY <2>2 DEF Begun
  <2> QED
    BY <2>1, <2>2
<1> HIDE DEF b
<1>5. ASSUME up'
      PROVE  /\ TranscriptInOrder(stored', said)
             /\ \A i \in DOMAIN stored' : stored'[i] \in InFile' \/ \E k \in 1..Len(f) : stored'[i] = Summary(k)
  <2>1. TranscriptInOrder(stored', said)
    BY <1>2, <1>3, <1>5, TranscriptOrder
  <2>2. ASSUME NEW i \in DOMAIN stored'
        PROVE  stored'[i] \in InFile' \/ \E k \in 1..Len(f) : stored'[i] = Summary(k)
    <3>1. stored'[i] \in said
      BY <2>1 DEF TranscriptInOrder
    <3>2. PICK k \in 1..lastParent' : /\ Speaks(b[k]) /\ k \in 1..Len(b)
                                      /\ stored'[i] \in Held(b) \/ stored'[i] = Summary(k)
      BY <3>1, <1>2, <1>3, <1>5, SaidFrom
    <3>3. b = f
      BY <3>2, <1>4
    <3> QED
      BY <3>2, <3>3, <1>2 DEF InFile, Held
  <2> QED
    BY <2>1, <2>2
<1>6. InFile' \subseteq Known \cup new
  <2>1. InFile' = Held(f) /\ InFile = Held(file)
    BY DEF InFile, Held
  <2>2. InFile \subseteq Known
    BY DEF Known
  <2> QED
    BY <2>1, <2>2, <1>1
<1>7. Known' \subseteq Known \cup new
  <2>1. at' # "answered"
    BY DEF RunPlaces
  <2>2. ASSUME up', NEW m \in Range(live')
        PROVE  m \in Known \cup new
    <3>1. PICK i \in DOMAIN stored' : m = stored'[i]
      BY <2>2 DEF Range
    <3> QED
      BY <3>1, <2>2, <1>5, <1>6
  <2> QED
    BY <2>1, <2>2, <1>6 DEF Known
<1>8. KnownInOrder'
  <2>1. TypeOK /\ KnownInOrder
    BY DEF Core, OrderInv
  <2>2. \A m \in new : m.kind # "assistant" /\ IssuedIn(m, Len(f), users', replies', calls')
    <3>1. \A k : Summary(k).kind = "user" /\ IsSummary(Summary(k)) /\ Summary(k).summarizes = k
      BY Kinds DEF Summary
    <3>2. \A c : Result(c).kind = "result" /\ Result(c).call = c
      BY Kinds
    <3> QED
      BY <3>1, <3>2 DEF IssuedIn
  <2>3. Joins(Known, new, Len(f), users', replies', calls')
    BY <2>2, JoinsQuietly
  <2>4. /\ users' \in Nat /\ users <= users' /\ replies' \in Nat /\ replies <= replies'
        /\ calls' \in Nat /\ calls <= calls'
    BY <2>1 DEF TypeOK
  <2> HIDE DEF new
  <2> QED
    BY <2>1, <2>3, <2>4, <1>1, <1>7, KnownGrows
<1>9. LiveInOrder'
  <2> SUFFICES ASSUME up' PROVE LiveInOrder'
    BY DEF LiveInOrder
  <2>1. Tidy(live', Said(Base', lastParent'))
    BY <1>2, <1>5 DEF TranscriptInOrder, Tidy, Range
  <2>2. at' \notin {"tool", "returned"} /\ at' # "answered"
    BY DEF RunPlaces
  <2> QED
    BY <2>1, <2>2 DEF LiveInOrder
<1>10. SavedInOrder'
  <2> SUFFICES ASSUME up' PROVE Scattered(stored', DOMAIN stored', live')
    BY DEF SavedInOrder
  <2>1. Distinct(stored')
    BY <1>5 DEF TranscriptInOrder
  <2> QED
    BY <2>1, <1>3, ScatteredSame
<1> QED
  BY <1>1, <1>8, <1>9, <1>10 DEF OrderInv

LEMMA FinishCompactionOrder ==
    ASSUME Core, Core', OrderInv, FinishCompaction
    PROVE  OrderInv' /\ SavedInOrder'
<1> DEFINE id == Len(Base) + 1
           e == CompactionEntry(lastParent, plan)
           es == <<e, LeafEntry(id)>>
<1>1. /\ up /\ at = "summarizing"
      /\ Store(es) /\ lastParent' = id /\ live' = Transcript(Base \o es, id)
      /\ at' = then /\ UNCHANGED <<users, replies, calls>>
  BY DEF FinishCompaction
<1>2. /\ Base \in Seq(Entry) /\ IsTree(Base) /\ FileInOrder(Base) /\ Len(Base) \in Nat /\ lastParent \in 0..Len(Base)
  BY <1>1, There
<1>3. e \in Entry /\ e.parent = lastParent /\ e.type = "compaction" /\ e.replaces = plan /\ e.type # "leaf" /\ e.type # "message"
  <2>1. plan \subseteq Nat
    <3>1. plan \subseteq DOMAIN file /\ file \in Seq(Entry)
      BY ONLY Core DEF Core, TypeOK
    <3> QED
      BY ONLY <3>1
  <2> QED
    BY <1>2, <2>1 DEF CompactionEntry, Entry
<1>4. FirstRows(Rows(Base, e.parent), e.replaces)
  BY <1>1, <1>3 DEF OrderInv, LiveInOrder, ContextRows
<1> HIDE DEF e
<1>5. id \in 0..Len(Base) + 1 /\ id \in Nat
  BY <1>2
<1>6. Fits(Len(Base), es) /\ Len(es) = 2 /\ Len(es) > 0 /\ es[Len(es)] = LeafEntry(id)
  <2>1. Fits(Len(Base), es) /\ Len(es) = 2 /\ es[2] = LeafEntry(id)
    BY <1>2, <1>3, <1>5, PairFits
  <2> HIDE DEF es, id
  <2> QED
    BY <2>1
<1> HIDE DEF id
<1>7. Adds(Base, Base \o es, {})
  BY <1>2, <1>3, <1>4, <1>6, PairAdds
<1> HIDE DEF es
<1>8. file \in Seq(Entry) /\ IsTree(file) /\ FileInOrder(file) /\ crashes \in Nat
  BY DEF Core, TypeOK, OrderInv
<1>9. Adds(file, file', {})
  BY <1>1, <1>6, <1>7, <1>8, StoreAdds
<1>10. up' => live' = stored'
  BY <1>1, <1>6, <1>8, StoreProperties
<1>11. at' \notin RunPlaces /\ at' # "summarizing"
  BY <1>1 DEF Core, TypeOK, RunPlaces
<1> QED
  BY <1>1, <1>9, <1>10, <1>11, RewriteOrder DEF Core

LEMMA ActivateOrder ==
    ASSUME Core, Core', OrderInv, up, at = "idle", NEW entries, NEW target,
           Fits(Len(Base), entries), Fits(Len(Base), Append(entries, LeafEntry(target))),
           target \in 0..Len(Base) + Len(entries),
           Activate(entries, target),
           Adds(Base, Base \o Append(entries, LeafEntry(target)), {}),
           UNCHANGED <<at, users, replies, calls>>
    PROVE  OrderInv' /\ SavedInOrder'
<1> DEFINE es == Append(entries, LeafEntry(target))
<1>1. Store(es) /\ (up' => live' = stored')
  BY ActivateLoads
<1>2. file \in Seq(Entry) /\ IsTree(file) /\ FileInOrder(file)
  BY DEF Core, TypeOK, OrderInv
<1>3. Adds(file, file', {})
  BY <1>1, <1>2, StoreAdds
<1> HIDE DEF es
<1>4. at' \notin RunPlaces /\ at' # "summarizing"
  BY DEF RunPlaces
<1> QED
  BY <1>1, <1>3, <1>4, RewriteOrder DEF Core

LEMMA BranchOrder ==
    ASSUME Core, Core', OrderInv, Branch
    PROVE  OrderInv' /\ SavedInOrder'
<1>1. /\ up /\ at = "idle" /\ UNCHANGED <<at, users, replies, calls>>
  BY DEF Branch
<1>2. PICK target \in 0..Len(Base) :
         /\ Activate(<<>>, target) /\ Len(<<>>) = 0
         /\ Fits(Len(Base), <<>>) /\ Fits(Len(Base), Append(<<>>, LeafEntry(target)))
         /\ Append(<<>>, LeafEntry(target)) = <<LeafEntry(target)>>
  BY BranchFits
<1>3. /\ Base \in Seq(Entry) /\ IsTree(Base) /\ FileInOrder(Base) /\ Len(Base) \in Nat
  BY <1>1, There
<1>4. Adds(Base, Base \o Append(<<>>, LeafEntry(target)), {})
  BY <1>2, <1>3, LeafAdds
<1>5. target \in 0..Len(Base) + Len(<<>>)
  BY <1>2, <1>3
<1> QED
  BY <1>1, <1>2, <1>4, <1>5, ActivateOrder

LEMMA FinishBranchSummaryOrder ==
    ASSUME Core, Core', OrderInv, FinishBranchSummary
    PROVE  OrderInv' /\ SavedInOrder'
<1> DEFINE e == BranchSummaryEntry(branch)
           t == Len(Base) + 1
<1>1. /\ up /\ branch # 0 /\ UNCHANGED <<at, users, replies, calls>>
  BY DEF FinishBranchSummary
<1>2. at = "idle"
  BY <1>1 DEF Core, RunShape
<1>3. /\ e \in Entry /\ e.type = "branch_summary" /\ e.parent \in 0..Len(Base)
      /\ Activate(<<e>>, t) /\ t \in 0..Len(Base) + 1 /\ Len(<<e>>) = 1
      /\ Fits(Len(Base), <<e>>) /\ Fits(Len(Base), <<e, LeafEntry(t)>>)
      /\ Append(<<e>>, LeafEntry(t)) = <<e, LeafEntry(t)>>
  BY SummaryFits
<1>4. /\ Base \in Seq(Entry) /\ IsTree(Base) /\ FileInOrder(Base)
  BY <1>1, There
<1> HIDE DEF e, t
<1>5. e.type # "message" /\ e.type # "compaction"
  BY <1>3
<1>6. Adds(Base, Base \o <<e, LeafEntry(t)>>, {})
  BY <1>3, <1>4, <1>5, PairAdds
<1> QED
  BY <1>1, <1>2, <1>3, <1>6, ActivateOrder

LEMMA StoreMetaOrder ==
    ASSUME Core, OrderInv, SavedInOrder, StoreMeta
    PROVE  OrderInv' /\ SavedInOrder'
<1> DEFINE e == MetaEntry(lastParent)
           t == Len(Base) + 1
           es == <<e, LeafEntry(t)>>
           g == Base \o es
<1>1. /\ up /\ Store(es) /\ lastParent' = t
      /\ live' = live /\ at' = at /\ count' = count /\ reply' = reply /\ todo' = todo /\ plan' = plan
      /\ users' = users /\ replies' = replies /\ calls' = calls
  BY DEF StoreMeta, runVars
<1>2. /\ Base \in Seq(Entry) /\ IsTree(Base) /\ FileInOrder(Base) /\ Len(Base) \in Nat
      /\ lastParent \in 0..Len(Base)
      /\ stored = Transcript(Base, lastParent)
  BY <1>1, There
<1>3. e \in Entry /\ e.parent = lastParent /\ e.type = "meta" /\ ~Speaks(e)
      /\ e.type # "message" /\ e.type # "compaction" /\ e.type # "leaf"
  BY <1>2 DEF MetaEntry, Entry, Speaks
<1> HIDE DEF e
<1>4. t \in 0..Len(Base) + 1 /\ t \in Nat
  BY <1>2
<1>5. Fits(Len(Base), es) /\ Len(es) = 2 /\ es[2] = LeafEntry(t) /\ es[1] = e
  BY <1>2, <1>3, <1>4, PairFits
<1>6. Adds(Base, g, {})
  BY <1>2, <1>3, <1>5, PairAdds
<1> HIDE DEF es
<1>7. Len(es) > 0 /\ es[Len(es)] = LeafEntry(t)
  BY <1>5
<1>8. /\ g \in Seq(Entry) /\ IsTree(g) /\ Len(g) = Len(Base) + 2
      /\ \A i \in 1..Len(Base) : g[i] = Base[i]
      /\ g[t] = e
  <2>1. Base \in Seq(Entry) /\ IsTree(Base) /\ Fits(Len(Base), es)
    BY <1>2, <1>5
  <2>2. /\ g \in Seq(Entry) /\ IsTree(g) /\ Len(g) = Len(Base) + Len(es)
        /\ \A i \in 1..Len(Base) : g[i] = Base[i]
        /\ \A k \in 1..Len(es) : g[Len(Base) + k] = es[k]
    BY ONLY <2>1, TreeConcat
  <2>3. 1 \in 1..Len(es)
    BY <1>5
  <2> HIDE DEF g
  <2> QED
    BY <2>2, <2>3, <1>5
<1>9. file \in Seq(Entry) /\ IsTree(file) /\ FileInOrder(file) /\ crashes \in Nat
  BY DEF Core, TypeOK, OrderInv
<1>10. Adds(file, file', {})
  BY <1>1, <1>5, <1>6, <1>9, StoreAdds
<1>11. up' => Base' = g /\ stored' = Transcript(g, t)
  <2> HIDE DEF g, t
  <2>1. up' => /\ file' = Base \o es /\ Base' = file' /\ stored' = Transcript(Base \o es, t)
    BY <1>1, <1>5, <1>7, <1>9, StoreProperties
  <2> QED
    BY <2>1 DEF g
<1> HIDE DEF g
<1>12. Rows(g, t) = Rows(Base, lastParent) /\ Said(g, t) = Said(Base, lastParent)
  <2>1. t \in 1..Len(g) /\ Len(Base) <= Len(g)
    BY <1>2, <1>8
  <2>2. Rows(g, t) = Rows(g, lastParent)
    BY <2>1, <1>3, <1>8, SilentRow
  <2>3. Rows(g, lastParent) = Rows(Base, lastParent)
    BY <2>1, <1>2, <1>8, RowsPrefix
  <2>4. Said(g, t) = Said(g, lastParent) \cup IF Speaks(g[t]) THEN {Value(g, t)} ELSE {}
    BY <2>1, <1>3, <1>8, SaidSteps
  <2>5. Said(g, lastParent) = Said(Base, lastParent)
    BY <2>1, <1>2, <1>8, SaidPrefix
  <2> QED
    BY <2>2, <2>3, <2>4, <2>5, <1>3, <1>8
<1> HIDE DEF t
<1>13. /\ FileInOrder(file') /\ Len(file') \in Nat /\ Len(file) <= Len(file') /\ InFile' \subseteq InFile
  <2>1. FileInOrder(file') /\ Len(file') \in Nat /\ Len(file) <= Len(file') /\ Held(file') \subseteq Held(file)
    BY <1>10 DEF Adds, Continues
  <2>2. InFile' = Held(file') /\ InFile = Held(file)
    BY DEF InFile, Held
  <2> QED
    BY <2>1, <2>2
<1>14. Known' \subseteq Known
  BY <1>1, <1>13 DEF Known
<1>15. KnownInOrder'
  <2>1. TypeOK /\ KnownInOrder
    BY DEF Core, OrderInv
  <2>2. Joins(Known, {}, Len(file'), users', replies', calls')
    BY DEF Joins
  <2>3. /\ users' \in Nat /\ users <= users'
        /\ replies' \in Nat /\ replies <= replies' /\ calls' \in Nat /\ calls <= calls'
    BY <2>1, <1>1 DEF TypeOK
  <2> QED
    BY <1>13, <1>14, <2>1, <2>2, <2>3, KnownGrows
<1>16. LiveInOrder'
  <2> SUFFICES ASSUME up' PROVE LiveInOrder'
    BY DEF LiveInOrder
  <2>1. LiveInOrder
    BY DEF OrderInv
  <2>2. Said(Base', lastParent') = Said(Base, lastParent) /\ ContextRows' = ContextRows
    BY <1>1, <1>11, <1>12 DEF ContextRows
  <2>3. /\ Tidy(live', Said(Base', lastParent'))
        /\ at' \in RunPlaces => Unsaid(live', count', Said(Base', lastParent'))
    BY <1>1, <2>1, <2>2 DEF LiveInOrder
  <2>4. at' = "summarizing" => FirstRows(ContextRows', plan')
    BY <1>1, <2>1, <2>2 DEF LiveInOrder
  <2>5. at' \in {"tool", "returned"} =>
           /\ Distinct(todo')
           /\ \A k \in DOMAIN todo' : todo'[k] \in 1..calls' /\ Result(todo'[k]) \notin Known'
    BY <1>1, <1>14, <2>1 DEF LiveInOrder
  <2>6. at' = "answered" =>
           /\ reply' \notin InFile' \cup Range(live')
           /\ \A c \in CallsOf(reply') : Result(c) \notin Known'
    BY <1>1, <1>13, <1>14, <2>1 DEF LiveInOrder
  <2> QED
    BY <2>3, <2>4, <2>5, <2>6 DEF LiveInOrder
<1>17. SavedInOrder'
  <2>1. up' => stored' = stored
    BY <1>2, <1>11, <1>12 DEF Transcript
  <2> QED
    BY <2>1, <1>1 DEF SavedInOrder
<1> QED
  BY <1>13, <1>15, <1>16, <1>17 DEF OrderInv

\* A message behind the rows of the context leaves the plan of a compaction its first rows.
LEMMA PlanStays ==
    ASSUME NEW f, NEW g, NEW node, NEW ms, Chained(f, g, node, ms), Len(ms) = 1,
           NEW ids, FirstRows(Rows(f, node[0]), ids)
    PROVE  FirstRows(Rows(g, node[1]), ids)
<1>1. /\ f \in Seq(Entry) /\ IsTree(f) /\ g \in Seq(Entry) /\ IsTree(g)
      /\ Len(f) <= Len(g) /\ (\A i \in 1..Len(f) : g[i] = f[i]) /\ node[0] \in 0..Len(f)
  BY DEF Chained, Continues
<1>2. /\ node[1] \in 1..Len(g) /\ g[node[1]].type = "message" /\ g[node[1]].parent = node[1 - 1]
  <2>1. 1 \in 1..Len(ms)
    OBVIOUS
  <2> QED
    BY <2>1, ChainLink
<1>3. node[1 - 1] = node[0]
  OBVIOUS
<1> DEFINE rs == Rows(f, node[0])
           rt == Rows(g, node[1])
<1>4. Rows(g, node[0]) = rs
  BY <1>1, RowsPrefix
<1>5. rs \in Seq(RowsTo(node[0]))
  BY <1>1, RowsTyped
<1>6. Len(rt) = Len(rs) + 1 /\ \A k \in 1..Len(rs) : rt[k] = rs[k]
  <2>1. g[node[1]].parent = node[0] /\ g[node[1]].type \in {"message", "branch_summary"}
    BY <1>2, <1>3
  <2>2. LET rr == Rows(g, g[node[1]].parent)
        IN  /\ Len(Rows(g, node[1])) = Len(rr) + 1
            /\ \A k \in 1..Len(rr) : Rows(g, node[1])[k] = rr[k]
    BY ONLY <1>1, <1>2, <2>1, RowsGrow
  <2> QED
    BY <2>1, <2>2, <1>4
<1> HIDE DEF rs, rt
<1>7. PICK n \in 1..Len(rs) : ids = {rs[k].id : k \in 1..n}
  BY DEF FirstRows, rs
<1>8. Len(rs) \in Nat
  BY <1>5
<1>9. n \in 1..Len(rt) /\ \A k \in 1..n : rt[k] = rs[k]
  BY <1>6, <1>7, <1>8
<1>10. ids = {rt[k].id : k \in 1..n}
  BY <1>7, <1>9
<1> QED
  BY <1>9, <1>10 DEF FirstRows, rt

LEMMA TerminalCommandOrder ==
    ASSUME Core, OrderInv, SavedInOrder, TerminalCommand
    PROVE  OrderInv' /\ SavedInOrder'
<1> DEFINE u == User(users + 1)
           ms == <<u>>
           said == Said(Base, lastParent)
           s == live \o ms
<1>1. /\ up /\ at \in {"idle", "summarizing"} /\ at' = at /\ plan' = plan
      /\ users' = users + 1 /\ live' = Append(live, u)
      /\ Store(MessageEntries(lastParent, ms)) /\ lastParent' = Len(Base) + 1
      /\ replies' = replies /\ calls' = calls
  BY DEF TerminalCommand
<1>2. /\ Base \in Seq(Entry) /\ IsTree(Base) /\ Len(Base) \in Nat /\ lastParent \in 0..Len(Base)
      /\ live \in Seq(Message) /\ stored \in Seq(Message) /\ Tidy(live, said)
      /\ \A i \in DOMAIN stored : stored[i] \in said
  BY <1>1, There
<1>3. /\ u \in Message /\ u \notin said /\ CallsOf(u) = {} /\ \A c : u # Result(c)
      /\ \A i \in DOMAIN live : live[i] # u
      /\ u.kind = "user" /\ u.id = users + 1 /\ ~IsSummary(u)
  BY <1>1, FreshUser, NotKnownNotSaid
<1> HIDE DEF u
<1>4. /\ ms \in Seq(Message) /\ Len(ms) = 1 /\ Len(ms) > 0 /\ DOMAIN ms = {1} /\ ms[1] = u
      /\ Len(Base) + 2 * Len(ms) - 1 = Len(Base) + 1
  BY <1>2, <1>3
<1> HIDE DEF ms
<1>5. MayFollow(ms, said, Len(Base))
  BY <1>3, <1>4 DEF MayFollow, Distinct, ResultsAfter
<1>6. {ms[k] : k \in 1..Len(ms)} = {u}
  BY <1>4
<1>7. /\ Adds(file, file', {u})
      /\ up' => /\ Said(Base', lastParent') = said \cup {u}
                /\ stored' = stored \o ms
  BY <1>1, <1>4, <1>5, <1>6, BurstStored
<1>8. Behind(live, ms, said) /\ Distinct(ms)
  BY <1>3, <1>4 DEF Behind, Distinct
<1>9. Tidy(s, said) /\ s \in Seq(Message)
  BY <1>2, <1>4, <1>8, TidyAppend DEF Behind
<1>10. live' = s
  <2>1. Append(live, u) = live \o <<u>>
    BY <1>2, <1>3, SMTT(30)
  <2> QED
    BY <2>1, <1>1 DEF ms
<1>11. /\ FileInOrder(file') /\ Len(file') \in Nat /\ Len(file) <= Len(file') /\ InFile' \subseteq InFile \cup {u}
  <2>1. FileInOrder(file') /\ Len(file') \in Nat /\ Len(file) <= Len(file') /\ Held(file') \subseteq Held(file) \cup {u}
    BY <1>7 DEF Adds, Continues
  <2>2. InFile' = Held(file') /\ InFile = Held(file)
    BY DEF InFile, Held
  <2> QED
    BY <2>1, <2>2
<1>12. Known' \subseteq Known \cup {u}
  <2>1. Range(live') \subseteq Range(live) \cup {u}
    <3> SUFFICES ASSUME NEW m \in Range(live') PROVE m \in Range(live) \cup {u}
      OBVIOUS
    <3>1. PICK i \in DOMAIN live' : m = live'[i]
      BY DEF Range
    <3>2. (i \in DOMAIN live /\ m = live[i]) \/ m = u
      BY <3>1, <1>1, <1>2, <1>3
    <3> QED
      BY <3>2 DEF Range
  <2>2. at' # "answered"
    BY <1>1
  <2> QED
    BY <2>1, <2>2, <1>1, <1>11 DEF Known
<1>13. KnownInOrder'
  <2>1. TypeOK /\ KnownInOrder
    BY DEF Core, OrderInv
  <2>2. users \in Nat /\ users + 1 \in 1..users + 1
    BY <2>1 DEF TypeOK
  <2>3. IssuedIn(u, Len(file'), users', replies', calls')
    BY <2>2, <1>1, <1>3 DEF IssuedIn
  <2>4. Joins(Known, {u}, Len(file'), users', replies', calls')
    BY <2>3, <1>3, JoinsQuietly
  <2>5. /\ users' \in Nat /\ users <= users'
        /\ replies' \in Nat /\ replies <= replies' /\ calls' \in Nat /\ calls <= calls'
    BY <2>1, <2>2, <1>1 DEF TypeOK
  <2> QED
    BY <1>11, <1>12, <2>1, <2>4, <2>5, KnownGrows
<1>14. up' /\ at = "summarizing" => FirstRows(ContextRows', plan')
  <2> SUFFICES ASSUME up', at = "summarizing" PROVE FirstRows(ContextRows', plan')
    OBVIOUS
  <2> DEFINE node == [j \in 0..Len(ms) |-> IF j = 0 THEN lastParent ELSE Len(Base) + 2 * j - 1]
             b == Burst(Len(Base), lastParent, ms)
             g == Base \o b
  <2>1. Chained(Base, g, node, ms)
    BY <1>2, <1>4, BurstChain
  <2>2. node[0] = lastParent /\ node[1] = Len(Base) + 1
    BY <1>2, <1>4
  <2>3. FirstRows(Rows(Base, lastParent), plan)
    BY <1>1 DEF OrderInv, LiveInOrder, ContextRows
  <2> HIDE DEF node
  <2>4. FirstRows(Rows(g, Len(Base) + 1), plan)
    BY <2>1, <2>2, <2>3, <1>4, PlanStays
  <2>5. Base' = g
    <3>1. MessageEntries(lastParent, ms) = b
      BY DEF MessageEntries, Burst
    <3>2. Store(b)
      BY <1>1, <3>1
    <3>3. /\ Fits(Len(Base), b) /\ Len(b) = 2 * Len(ms) /\ b[2 * Len(ms)] = LeafEntry(Len(Base) + 2 * Len(ms) - 1)
      <4>1. /\ Fits(Len(Base), b) /\ Len(b) = 2 * Len(ms)
            /\ Len(ms) > 0 => b[2 * Len(ms)] = LeafEntry(Len(Base) + 2 * Len(ms) - 1)
        <5>1. Len(Base) \in Nat /\ lastParent \in 0..Len(Base) /\ ms \in Seq(Message)
          BY <1>2, <1>4
        <5> QED
          BY ONLY <5>1, BurstFits
      <4> QED
        BY <4>1, <1>4
    <3> HIDE DEF b, g
    <3>4. Len(b) > 0 /\ b[Len(b)] = LeafEntry(Len(Base) + 1)
      BY <3>3, <1>4
    <3>5. file \in Seq(Entry) /\ IsTree(file) /\ crashes \in Nat
      BY DEF Core, TypeOK
    <3>6. file' = Base \o b /\ Base' = file'
      BY <3>2, <3>3, <3>4, <3>5, StoreProperties
    <3> QED
      BY <3>6 DEF g
  <2> QED
    BY <2>4, <2>5, <1>1 DEF ContextRows
<1>15. LiveInOrder'
  <2> SUFFICES ASSUME up' PROVE LiveInOrder'
    BY DEF LiveInOrder
  <2>1. Tidy(live', Said(Base', lastParent'))
    <3>1. \A c : Result(c) \in Said(Base', lastParent') => Result(c) \in said
      BY <1>3, <1>7
    <3> QED
      BY <3>1, <1>9, <1>10 DEF Tidy
  <2>2. at' \notin RunPlaces /\ at' \notin {"tool", "returned"} /\ at' # "answered"
    BY <1>1 DEF RunPlaces
  <2> QED
    BY <2>1, <2>2, <1>1, <1>14 DEF LiveInOrder
<1>16. SavedInOrder'
  <2> SUFFICES ASSUME up' PROVE Scattered(stored', DOMAIN stored', live')
    BY DEF SavedInOrder
  <2>1. Distinct(s)
    BY <1>9 DEF Tidy
  <2>2. Scattered(stored, DOMAIN stored, s)
    BY <2>1, <1>1, <1>2, <1>4, ScatteredAppend DEF SavedInOrder
  <2>3. /\ Len(live) \in 0..Len(s) /\ SubSeq(s, Len(live) + 1, Len(s)) = ms
        /\ \A k \in Len(live) + 1..Len(s) : s[k] = u
    <3>1. Len(live) \in Nat /\ Len(s) = Len(live) + 1 /\ s[Len(live) + 1] = u
      <4>1. /\ Len(live) \in Nat /\ Len(s) = Len(live) + Len(ms)
            /\ \A k \in 1..Len(ms) : s[Len(live) + k] = ms[k]
        <5>1. live \in Seq(Message) /\ ms \in Seq(Message)
          BY <1>2, <1>4
        <5> QED
          BY ONLY <5>1
      <4> HIDE DEF s
      <4>2. 1 \in 1..Len(ms)
        BY <1>4
      <4> QED
        BY <4>1, <4>2, <1>4
    <3> HIDE DEF s
    <3>2. \A k \in Len(live) + 1..Len(s) : k = Len(live) + 1
      BY <3>1
    <3> DEFINE t == SubSeq(s, Len(live) + 1, Len(s))
    <3>3. t \in Seq(Message) /\ Len(t) = 1 /\ t[1] = u
      BY <3>1, <1>9
    <3> HIDE DEF t
    <3>4. \A k \in 1..1 : k = 1
      OBVIOUS
    <3>5. t = ms
      BY <3>3, <3>4, <1>4, SeqEqual
    <3> QED
      BY <3>1, <3>2, <3>5 DEF t
  <2>4. \A k \in Len(live) + 1..Len(s) : \A i \in DOMAIN stored : stored[i] # s[k]
    BY <2>3, <1>2, <1>3
  <2>5. Scattered(stored \o SubSeq(s, Len(live) + 1, Len(s)), DOMAIN (stored \o SubSeq(s, Len(live) + 1, Len(s))), s)
    <3> HIDE DEF s
    <3> QED
      BY <2>1, <2>2, <2>3, <2>4, <1>2, <1>9, ScatteredSave
  <2>6. stored' = stored \o ms
    BY <1>7
  <2> QED
    BY <2>3, <2>5, <2>6, <1>10
<1> QED
  BY <1>11, <1>13, <1>15, <1>16 DEF OrderInv

\* What a load finds: the transcript of the file, and what its repair would store.
LEMMA LoadFinds ==
    ASSUME Core, OrderInv, NEW leaf \in 0..Len(file), NEW s, s = Transcript(file, leaf)
    PROVE  /\ file \in Seq(Entry) /\ IsTree(file) /\ FileInOrder(file) /\ Len(file) \in Nat
           /\ s \in Seq(Message) /\ Apart(s)
           /\ \A i \in DOMAIN s : IsSummary(s[i]) => s[i].summarizes \in 1..Len(file)
           /\ \A i \in DOMAIN s : s[i] \in Known \/ \E k \in 1..Len(file) : s[i] = Summary(k)
           /\ \A c \in Asked(s) : c \in 1..calls
<1>1. file \in Seq(Entry) /\ IsTree(file) /\ FileInOrder(file) /\ Len(file) \in Nat /\ KnownInOrder
  BY DEF Core, TypeOK, OrderInv
<1>2. TranscriptInOrder(s, Said(file, leaf)) /\ s \in Seq(Message)
  BY <1>1, TranscriptOrder, TranscriptTyped
<1>3. ASSUME NEW i \in DOMAIN s
      PROVE  s[i] \in InFile \/ \E k \in 1..Len(file) : s[i] = Summary(k)
  <2>1. s[i] \in Said(file, leaf)
    BY <1>2 DEF TranscriptInOrder
  <2>2. PICK k \in 1..leaf : k \in 1..Len(file) /\ (s[i] \in Held(file) \/ s[i] = Summary(k))
    BY <2>1, <1>1, SaidFrom
  <2> QED
    BY <2>2 DEF InFile, Held
<1>4. InFile \subseteq Known
  BY DEF Known
<1>5. \A i \in DOMAIN s : s[i] \in Known \/ \E k \in 1..Len(file) : s[i] = Summary(k)
  BY <1>3, <1>4
<1>6. ASSUME NEW i \in DOMAIN s, IsSummary(s[i])
      PROVE  s[i].summarizes \in 1..Len(file)
  <2>1. CASE s[i] \in Known
    <3>1. s[i] \in Message
      BY <1>2
    <3>2. s[i].kind = "user"
      BY <3>1, <1>6 DEF Message, UserMessages, AssistantMessages, ResultMessages, IsSummary
    <3> QED
      BY <2>1, <3>2, <1>1, <1>6 DEF KnownInOrder, Issued
  <2>2. CASE \E k \in 1..Len(file) : s[i] = Summary(k)
    BY <2>2 DEF Summary
  <2> QED
    BY <2>1, <2>2, <1>5
<1>7. ASSUME NEW i \in DOMAIN s, s[i].kind = "assistant"
      PROVE  s[i] \in Known
  BY <1>5, <1>7, Kinds
<1>8. Apart(s)
  <2> SUFFICES ASSUME NEW i \in DOMAIN s
               PROVE  /\ s[i].kind = "assistant" => Distinct(s[i].calls)
                      /\ \A j \in DOMAIN s : CallsOf(s[i]) \cap CallsOf(s[j]) # {} => s[i] = s[j]
    BY DEF Apart
  <2>1. CASE s[i].kind = "assistant"
    <3>1. s[i] \in Known
      BY <2>1, <1>7
    <3>2. ASSUME NEW j \in DOMAIN s, CallsOf(s[i]) \cap CallsOf(s[j]) # {}
          PROVE  s[i] = s[j]
      <4>1. s[j].kind = "assistant"
        BY <3>2 DEF CallsOf
      <4>2. s[j] \in Known
        BY <4>1, <1>7
      <4> QED
        BY <2>1, <3>1, <3>2, <4>2, <1>1 DEF KnownInOrder
    <3> QED
      BY <2>1, <3>1, <3>2, <1>1 DEF KnownInOrder
  <2>2. CASE s[i].kind # "assistant"
    <3>1. CallsOf(s[i]) = {}
      BY <2>2 DEF CallsOf
    <3> QED
      BY <3>1, <2>2
  <2> QED
    BY <2>1, <2>2
<1>9. ASSUME NEW c \in Asked(s)
      PROVE  c \in 1..calls
  <2>1. PICK i \in DOMAIN s : c \in CallsOf(s[i])
    BY DEF Asked
  <2>2. s[i].kind = "assistant"
    BY <2>1 DEF CallsOf
  <2>3. s[i] \in Known
    BY <2>2, <1>7
  <2> QED
    BY <2>1, <2>2, <2>3, <1>1 DEF KnownInOrder, Issued
<1> QED
  BY <1>1, <1>2, <1>5, <1>6, <1>8, <1>9

\* What a repair adds to the file: messages of the transcript and failed results.
LEMMA RecoveryAdds ==
    ASSUME Core, OrderInv, NEW leaf \in 0..Len(file), NEW s, s = Transcript(file, leaf),
           Recovered(s) # s, NEW es, es = RecoveryEntries(Rows(file, leaf))
    PROVE  \E N : /\ Adds(file, file \o es, N)
                  /\ \A m \in N : \/ m \in Known
                                  \/ \E k \in 1..Len(file) : m = Summary(k)
                                  \/ \E c \in 1..calls : m = Result(c)
<1>1. /\ file \in Seq(Entry) /\ IsTree(file) /\ FileInOrder(file) /\ Len(file) \in Nat
      /\ s \in Seq(Message) /\ Apart(s)
      /\ \A i \in DOMAIN s : IsSummary(s[i]) => s[i].summarizes \in 1..Len(file)
      /\ \A i \in DOMAIN s : s[i] \in Known \/ \E k \in 1..Len(file) : s[i] = Summary(k)
      /\ \A c \in Asked(s) : c \in 1..calls
  BY LoadFinds
<1> DEFINE new == Recovered(s)
           g == file \o es
           end == Len(file) + Len(es) - 1
<1>2. PICK same, w, node, h, d : Recovers(file, g, end, s, new, same, w, node, h, d)
  BY <1>1, RecoveryChain
<1> HIDE DEF new, g, end
<1> DEFINE ms == SubSeq(new, same + 1, Len(new))
           N == {ms[k] : k \in 1..Len(ms)}
<1>3. /\ Chained(file, g, node, ms) /\ MayFollow(ms, Said(file, node[0]), Len(file))
      /\ Woven(s, new, w) /\ same \in 1..Len(s) /\ same < Len(new)
  BY <1>2 DEF Recovers
<1>4. Adds(file, g, N)
  <2> HIDE DEF ms
  <2> QED
    BY <1>1, <1>3, ChainAdds
<1>5. ASSUME NEW m \in N
      PROVE  \E p \in 1..Len(new) : m = new[p]
  <2>1. new \in Seq(Message) /\ same \in Nat /\ same < Len(new)
    <3>1. Len(s) \in Nat
      BY ONLY <1>1
    <3> QED
      BY ONLY <1>3, <3>1 DEF Woven
  <2>2. Len(ms) = Len(new) - same /\ \A k \in 1..Len(ms) : ms[k] = new[same + k]
    BY ONLY <2>1
  <2>3. Len(new) \in Nat
    BY ONLY <2>1
  <2>4. \A k \in 1..Len(ms) : same + k \in 1..Len(new)
    BY ONLY <2>1, <2>2, <2>3
  <2>5. PICK k \in 1..Len(ms) : m = ms[k]
    BY <1>5
  <2> QED
    BY ONLY <2>2, <2>4, <2>5
<1>6. ASSUME NEW p \in 1..Len(new)
      PROVE  \/ new[p] \in Known
             \/ \E k \in 1..Len(file) : new[p] = Summary(k)
             \/ \E c \in 1..calls : new[p] = Result(c)
  <2>1. CASE \E i \in 1..Len(s) : p = w[i]
    <3>1. PICK i \in 1..Len(s) : p = w[i]
      BY <2>1
    <3>2. new[p] = s[i] /\ i \in DOMAIN s
      BY <3>1, <1>1, <1>3 DEF Woven
    <3> QED
      BY <3>2, <1>1
  <2>2. CASE \E i \in 1..Len(s) : \E c \in CallsOf(s[i]) \cap Open(s) : new[p] = Result(c)
    <3>1. PICK c \in Open(s) : new[p] = Result(c)
      BY <2>2
    <3>2. c \in Asked(s)
      BY DEF Open
    <3> QED
      BY <3>1, <3>2, <1>1
  <2>3. (\E i \in 1..Len(s) : p = w[i]) \/ \E i \in 1..Len(s) : \E c \in CallsOf(s[i]) \cap Open(s) : new[p] = Result(c)
    BY <1>3 DEF Woven
  <2> QED
    BY <2>1, <2>2, <2>3
<1> HIDE DEF N
<1>7. \A m \in N : \/ m \in Known
                   \/ \E k \in 1..Len(file) : m = Summary(k)
                   \/ \E c \in 1..calls : m = Result(c)
  BY <1>5, <1>6
<1> QED
  BY <1>4, <1>7 DEF g

LEMMA LoadOrder ==
    ASSUME Core, Core', OrderInv, Load
    PROVE  OrderInv' /\ SavedInOrder'
<1> DEFINE leaf == IF file = <<>> THEN 1 ELSE ActiveLeaf(file)
           rs == Rows(Base, leaf)
           more == RecoveryEntries(rs)
           end == Len(file) + Len(more) - 1
<1>1. /\ file \in Seq(Entry) /\ IsTree(file) /\ FileInOrder(file) /\ Len(file) \in Nat
  BY DEF Core, TypeOK, OrderInv
<1>2. /\ Base \in Seq(Entry) /\ IsTree(Base) /\ Len(Base) > 0 /\ Len(Base) \in Nat
      /\ file # <<>> => Base = file
      /\ file = <<>> => ActiveLeaf(Base) = 1 /\ \A i \in 0..Len(Base) : Rows(Base, i) = <<>>
  BY <1>1, BegunTyped DEF Base, Begun
<1>3. leaf \in 0..Len(Base) /\ leaf = ActiveLeaf(Base)
  <2>1. leaf = ActiveLeaf(Base)
    BY <1>2
  <2> HIDE DEF leaf
  <2> QED
    BY <2>1, <1>2, ActiveLeafType
<1>4. /\ at' = "idle" /\ UNCHANGED <<users, replies, calls>>
  BY DEF Load
<1>5. at' \notin RunPlaces /\ at' # "summarizing"
  BY <1>4 DEF RunPlaces
<1>6. \/ file' = file
      \/ Recovered(Messages(rs)) # Messages(rs) /\ Store(more)
  BY DEF Load, disk
<1>7. up' => live' = stored'
  <2>1. unwound' = FALSE
    BY DEF Load
  <2> QED
    BY <2>1, <1>5 DEF Core, SettledDurable
<1> HIDE DEF leaf
<1>8. \E N : /\ Adds(file, file', N)
             /\ \A m \in N : \/ m \in Known
                             \/ \E k \in 1..Len(file) : m = Summary(k)
                             \/ \E c \in 1..calls : m = Result(c)
  <2>1. CASE file' = file
    <3>1. Adds(file, file', {})
      BY <2>1, <1>1 DEF Adds, Continues
    <3> QED
      BY <3>1
  <2>2. CASE Recovered(Messages(rs)) # Messages(rs) /\ Store(more)
    <3>1. file # <<>>
      <4> SUFFICES ASSUME file = <<>> PROVE FALSE
        OBVIOUS
      <4>1. rs = <<>>
        BY <1>2, <1>3
      <4>2. Messages(rs) = <<>>
        BY <4>1 DEF Messages
      <4>3. Messages(rs) \in Seq(Message)
        BY <4>2, EmptySeq
      <4> QED
        BY <4>2, <4>3, <2>2, RecoveredTyped
    <3>2. Base = file /\ leaf \in 0..Len(file) /\ rs = Rows(file, leaf)
      BY <3>1, <1>2, <1>3
    <3> HIDE DEF rs
    <3>3. /\ Fits(Len(file), more)
      BY <3>2, <2>2, <1>1, RecoveryFits
    <3>4. Messages(rs) = Transcript(file, leaf) /\ more = RecoveryEntries(Rows(file, leaf))
      BY <3>2 DEF Transcript
    <3> HIDE DEF more
    <3>5. Recovered(Transcript(file, leaf)) # Transcript(file, leaf)
      BY <2>2, <3>4
    <3>6. PICK N : /\ Adds(file, file \o more, N)
                   /\ \A m \in N : \/ m \in Known
                                   \/ \E k \in 1..Len(file) : m = Summary(k)
                                   \/ \E c \in 1..calls : m = Result(c)
      BY <3>2, <3>4, <3>5, RecoveryAdds
    <3>7. Adds(file, file', N)
      BY <3>2, <3>3, <3>6, <2>2, <1>1, StoreAdds
    <3> QED
      BY <3>6, <3>7
  <2> QED
    BY <2>1, <2>2, <1>6
<1>9. PICK N : /\ Adds(file, file', N)
               /\ \A m \in N : \/ m \in Known
                               \/ \E k \in 1..Len(file) : m = Summary(k)
                               \/ \E c \in 1..calls : m = Result(c)
  BY <1>8
<1>10. \A k \in 1..Len(file) : k \in 1..Len(file')
  <2>1. Len(file') \in Nat /\ Len(file) <= Len(file')
    BY <1>9 DEF Adds, Continues
  <2> QED
    BY <2>1, <1>1
<1> QED
  BY <1>4, <1>5, <1>7, <1>9, <1>10, RewriteOrder DEF Core

LEMMA InitOrder ==
    ASSUME Init PROVE OrderInv /\ SavedInOrder
<1>1. file = <<>> /\ up = FALSE
  BY DEF Init
<1>2. DOMAIN file = {}
  BY <1>1
<1>3. FileInOrder(file)
  BY <1>2 DEF FileInOrder
<1>4. Known = {}
  BY <1>1, <1>2 DEF Known, InFile
<1> QED
  BY <1>1, <1>3, <1>4 DEF OrderInv, KnownInOrder, LiveInOrder, SavedInOrder

LEMMA NextOrder ==
    ASSUME Core, Core', OrderInv, SavedInOrder, [Next]_vars
    PROVE  OrderInv' /\ SavedInOrder'
<1>1. CASE RunStep
  <2>1. CASE StartPrompt
    <3>1. up /\ StartRun(<<User(users + 1)>>, FALSE, "injecting") /\ users' = users + 1
      BY <2>1 DEF StartPrompt
    <3> QED
      BY <3>1, StartRunOrder
  <2>2. CASE Continue
    <3>1. up /\ StartRun(<<>>, FALSE, "streaming") /\ users' = users
      BY <2>2 DEF Continue
    <3> QED
      BY <3>1, StartRunOrder
  <2>3. CASE Retry
    <3>1. up /\ StartRun(<<>>, TRUE, "streaming") /\ users' = users
      BY <2>3 DEF Retry
    <3> QED
      BY <3>1, StartRunOrder
  <2> QED
    BY <1>1, <2>1, <2>2, <2>3, QuietStepsOrder, UserMessageEndOrder, ReplyEndOrder, AppendReplyOrder,
       ResultEndOrder, AppendResultOrder, TurnEndOrder, CloseOrder DEF RunStep
<1>2. CASE Rewriting
  BY <1>2, QuietStepsOrder, FinishCompactionOrder, BranchOrder, FinishBranchSummaryOrder DEF Rewriting
<1>3. CASE Other
  BY <1>3, LoadOrder, TerminalCommandOrder, StoreMetaOrder, QuietStepsOrder, CancelTaskOrder DEF Other
<1>4. CASE UNCHANGED vars
  <2>1. UNCHANGED <<disk, up, live, lastParent, count, users, replies, calls, at, todo, reply, plan>>
    BY <1>4 DEF vars, runVars, counters
  <2>2. up /\ at' = "summarizing" => FirstRows(ContextRows, plan')
    BY <2>1 DEF OrderInv, LiveInOrder
  <2> QED
    BY <2>1, <2>2, MoveOrder
<1> QED
  BY <1>1, <1>2, <1>3, <1>4 DEF Next

LEMMA OrderAlways == Spec => [](Core /\ OrderInv /\ SavedInOrder)
<1>1. Init => Core /\ OrderInv /\ SavedInOrder
  BY InitCore, InitOrder
<1>2. Core /\ OrderInv /\ SavedInOrder /\ [Next]_vars => (Core /\ OrderInv /\ SavedInOrder)'
  BY NextCore, NextOrder
<1> QED
  BY <1>1, <1>2, PTL DEF Spec

\* Whatever is compacted, branched, cancelled or interrupted, what a load would find is
\* in memory too, once and in the same order (_persist_messages_since).
THEOREM SessionKeepsOrder == Spec => []SavedInOrder
BY OrderAlways, PTL
-----------------------------------------------------------------------------
(* The saved transcript: each step is a step of SavedTranscript.           *)

LEMMA InitMaps ==
    ASSUME Init PROVE Abstract!Init
BY DEF Init, Abstract!Init

\* What a restart keeps of the stored transcript: everything but summaries.
KeptPlaces == {i \in DOMAIN stored : ~IsSummary(stored[i])}

LEMMA RestartMaps ==
    ASSUME ~up, up' \in BOOLEAN, up' => live' = stored', unwound' = FALSE,
           Scattered(stored, KeptPlaces, stored')
    PROVE  Abstract!Restart
BY DEF Abstract!Restart, Abstract!Occurs, Scattered, KeptPlaces

LEMMA CrashMaps ==
    ASSUME up, ~up', UNCHANGED <<stored, unwound>> PROVE Abstract!Crash
BY DEF Abstract!Crash

\* s is t, or t cut short.
Starts(s, t) ==
    /\ s \in Seq(Message) /\ t \in Seq(Message) /\ Len(s) <= Len(t)
    /\ \A i \in 1..Len(s) : t[i] = s[i]

LEMMA StartsWithin ==
    ASSUME NEW s, NEW t, Starts(s, t) PROVE Abstract!Within(s, t)
<1>1. s \in Seq(Message) /\ t \in Seq(Message) /\ Len(s) <= Len(t) /\ Len(s) \in Nat
  BY DEF Starts
<1>2. SubSeq(s, 1, Len(s)) = SubSeq(t, 1, Len(s))
  BY <1>1, SubSeqOfPrefix DEF Starts
<1> QED
  BY <1>1, <1>2 DEF Abstract!Within, Abstract!IsPrefix

LEMMA GrowMaps ==
    ASSUME up, up' = TRUE, UNCHANGED <<stored, unwound>>, Starts(live, live'), live # live'
    PROVE  Abstract!Grow
<1>1. Abstract!Within(live, live')
  BY StartsWithin
<1> QED
  BY <1>1 DEF Abstract!Grow

LEMMA SaveMaps ==
    ASSUME up, up' \in BOOLEAN, Starts(stored, stored'), stored' # stored, unwound' = unwound,
           up' => Starts(live, live') /\ (~unwound => Starts(stored', live')), SavedInOrder'
    PROVE  Abstract!Save
<1>1. Abstract!Within(stored, stored')
  BY StartsWithin
<1>2. up' => Abstract!Within(live, live') /\ (~unwound => Abstract!Within(stored', live'))
  BY StartsWithin
<1>3. up' => Abstract!Occurs(stored', DOMAIN stored', live')
  BY DEF SavedInOrder, Scattered, Abstract!Occurs
<1> HIDE DEF SavedInOrder
<1> QED
  BY <1>1, <1>2, <1>3 DEF Abstract!Save

LEMMA RewriteMaps ==
    ASSUME up, unwound \/ live = stored, unwound' = unwound, up' \in BOOLEAN,
           up' => live' = stored'
    PROVE  Abstract!Rewrite
BY DEF Abstract!Rewrite

LEMMA UnwindMaps ==
    ASSUME up, up' = TRUE, stored' = stored, unwound' = TRUE, Starts(live, live')
    PROVE  Abstract!Unwind
<1>1. Abstract!Within(live, live')
  BY StartsWithin
<1> QED
  BY <1>1 DEF Abstract!Unwind

\* An entry that is no leaf moves none.
LEMMA LeafStays ==
    ASSUME NEW f, NEW g, Continues(f, g), \A i \in Len(f) + 1..Len(g) : g[i].type # "leaf"
    PROVE  /\ HasLeaf(f) => ActiveLeaf(g) = ActiveLeaf(f)
           /\ ~HasLeaf(f) => ActiveLeaf(g) = Len(g) /\ ActiveLeaf(f) = Len(f)
<1> DEFINE leaves(h) == {i \in DOMAIN h : h[i].type = "leaf"}
<1>1. /\ Len(f) \in Nat /\ Len(g) \in Nat /\ DOMAIN f = 1..Len(f) /\ DOMAIN g = 1..Len(g)
      /\ Len(f) <= Len(g) /\ \A i \in 1..Len(f) : g[i] = f[i]
  BY DEF Continues
<1>2. leaves(g) = leaves(f)
  <2>1. \A i \in 1..Len(g) : i \in 1..Len(f) \/ i \in Len(f) + 1..Len(g)
    BY <1>1
  <2>2. \A i \in 1..Len(f) : i \in 1..Len(g)
    BY <1>1
  <2> QED
    BY <1>1, <2>1, <2>2
<1>3. leaves(f) \subseteq 1..Len(f) /\ leaves(f) \subseteq 0..Len(f)
  BY <1>1
<1>4. /\ ActiveLeaf(f) = IF leaves(f) = {} THEN Len(f) ELSE f[Max(leaves(f))].target
      /\ ActiveLeaf(g) = IF leaves(g) = {} THEN Len(g) ELSE g[Max(leaves(g))].target
  BY DEF ActiveLeaf
<1>5. HasLeaf(f) <=> leaves(f) # {}
  BY DEF HasLeaf
<1> HIDE DEF leaves
<1>6. leaves(f) # {} => Max(leaves(f)) \in leaves(f)
  BY <1>1, <1>3, Greatest
<1>7. CASE leaves(f) = {}
  BY <1>2, <1>4, <1>5, <1>7
<1>8. CASE leaves(f) # {}
  <2>1. Max(leaves(f)) \in 1..Len(f)
    BY <1>3, <1>6, <1>8
  <2>2. g[Max(leaves(f))] = f[Max(leaves(f))]
    BY <2>1, <1>1
  <2> QED
    BY <2>2, <1>2, <1>4, <1>5, <1>8
<1> QED
  BY <1>7, <1>8

\* f with the first n entries of a burst.
Partly(f, p, ms, n, g) == g = f \o SubSeq(Burst(Len(f), p, ms), 1, n)

\* s is old with messages of ms behind it.
Prolongs(s, old, ms) == \E j \in 0..Len(ms) : s = old \o SubSeq(ms, 1, j)

\* A burst that is cut short behind n of its entries.
LEMMA BurstPart ==
    ASSUME NEW f \in Seq(Entry), IsTree(f), NEW p, p = ActiveLeaf(f), NEW ms \in Seq(Message),
           NEW n \in 0..2 * Len(ms),
           NEW g, Partly(f, p, ms, n, g)
    PROVE  Prolongs(Saved(g), Transcript(f, p), ms)
<1> DEFINE b == Burst(Len(f), p, ms)
           L == Len(ms)
           N == Len(f)
           Longer(j) == Saved(g) = Transcript(f, p) \o SubSeq(ms, 1, j)
<1>1. /\ p \in 0..N /\ N \in Nat /\ L \in Nat /\ Transcript(f, p) \in Seq(Message)
      /\ n \in 0..2 * L /\ n \in Nat
  <2>1. p \in 0..Len(f)
    BY ActiveLeafType
  <2> QED
    BY <2>1, TranscriptTyped
<1>2. /\ Fits(N, b) /\ Len(b) = 2 * L
      /\ \A k \in 1..2 * L :
            b[k] = IF k % 2 = 0 THEN LeafEntry(N + k - 1)
                   ELSE MessageEntry(IF k = 1 THEN p ELSE N + k - 2, ms[(k + 1) \div 2])
  BY <1>1, BurstFits DEF Burst
<1>3. Fits(N, SubSeq(b, 1, n)) /\ Len(SubSeq(b, 1, n)) = n
  <2>1. n \in 0..Len(b)
    BY <1>2
  <2> HIDE DEF b, N
  <2> QED
    BY ONLY <1>1, <1>2, <2>1, FitsPrefix
<1>4. \A k \in 1..n : SubSeq(b, 1, n)[k] = b[k]
  <2>1. n \in Nat /\ b \in Seq(Entry) /\ n <= Len(b)
    BY <1>1, <1>2 DEF Fits
  <2> HIDE DEF b
  <2> QED
    BY ONLY <2>1
<1>5. /\ g \in Seq(Entry) /\ IsTree(g) /\ Len(g) = N + n
      /\ \A i \in 1..N : g[i] = f[i]
      /\ \A k \in 1..n : g[N + k] = b[k]
  <2> DEFINE e == SubSeq(b, 1, n)
  <2>1. e = SubSeq(Burst(Len(f), p, ms), 1, n) /\ Fits(Len(f), e) /\ Len(e) = n
    BY <1>3
  <2>2. \A k \in 1..n : e[k] = b[k]
    BY <1>4
  <2>3. g = f \o e
    BY DEF Partly
  <2> HIDE DEF e, b, N
  <2>4. N = Len(f)
    BY DEF N
  <2>5. Fits(Len(f), e) /\ Len(e) = n
    BY <2>1
  <2>6. /\ g \in Seq(Entry) /\ IsTree(g) /\ Len(g) = Len(f) + Len(e)
        /\ \A i \in 1..Len(f) : g[i] = f[i]
        /\ \A k \in 1..Len(e) : g[Len(f) + k] = e[k]
    BY ONLY <2>3, <2>5, f \in Seq(Entry), IsTree(f), TreeConcat
  <2> QED
    BY ONLY <2>2, <2>4, <2>5, <2>6
<1> HIDE DEF b, L, N, Longer
<1>a. Continues(f, g)
  BY <1>1, <1>5 DEF Continues, N
<1>6. PICK k \in 0..L : n = 2 * k \/ (n = 2 * k + 1 /\ k < L)
  <2>1. n \div 2 \in 0..L /\ (n = 2 * (n \div 2) \/ n = 2 * (n \div 2) + 1)
    BY <1>1
  <2>2. n = 2 * (n \div 2) + 1 => n \div 2 < L
    BY <2>1, <1>1
  <2> QED
    BY <2>1, <2>2
<1>7. ASSUME n = 0 PROVE \E j \in 0..L : Longer(j)
  <2>1. /\ \A i \in N + 1..Len(g) : g[i].type # "leaf"
        /\ Len(g) = N
    BY <1>7, <1>1, <1>5
  <2>2. ActiveLeaf(g) = p
    BY <2>1, <1>a, LeafStays DEF N
  <2>3. Transcript(g, p) = Transcript(f, p)
    BY <1>1, <1>5, <2>1, RowsPrefix DEF Transcript, N
  <2>4. Longer(0)
    <3>1. SubSeq(ms, 1, 0) = <<>>
      OBVIOUS
    <3> QED
      BY <3>1, <2>2, <2>3, <1>1 DEF Saved, Longer
  <2> QED
    BY <2>4, <1>1
<1>8. ASSUME n = 1 PROVE \E j \in 0..L : Longer(j)
  <2>1. 1 \in 1..2 * L /\ 1 \in 1..n /\ N + 1 \in 1..Len(g) /\ Len(g) = N + 1 /\ 1 \in 1..L
    BY <1>8, <1>1, <1>5
  <2>2. g[N + 1] = MessageEntry(p, ms[1])
    <3>1. 1 % 2 = 1 /\ (1 + 1) \div 2 = 1
      OBVIOUS
    <3>2. b[1] = MessageEntry(p, ms[1])
      BY <2>1, <3>1, <1>2
    <3> QED
      BY <3>2, <2>1, <1>5
  <2>3. g[N + 1].type = "message" /\ g[N + 1].parent = p /\ g[N + 1].message = ms[1]
    BY <2>2 DEF MessageEntry
  <2>4. \A i \in N + 1..Len(g) : g[i].type # "leaf"
    <3>1. \A i \in N + 1..N + 1 : i = N + 1
      BY <1>1
    <3> QED
      BY <3>1, <2>1, <2>3
  <2>5. \/ ActiveLeaf(g) = p
        \/ ActiveLeaf(g) = N + 1
    <3>1. /\ HasLeaf(f) => ActiveLeaf(g) = ActiveLeaf(f)
          /\ ~HasLeaf(f) => ActiveLeaf(g) = Len(g)
      BY <2>1, <2>4, <1>a, LeafStays DEF N
    <3> QED
      BY <3>1, <2>1
  <2>6. Transcript(g, p) = Transcript(f, p)
    BY <1>1, <1>5, <2>1, RowsPrefix DEF Transcript, N
  <2>7. Transcript(g, N + 1) = Append(Transcript(g, p), ms[1])
    BY <2>1, <2>3, <1>5, MessageRow
  <2>8. /\ Append(Transcript(f, p), ms[1]) = Transcript(f, p) \o SubSeq(ms, 1, 1)
        /\ Transcript(f, p) = Transcript(f, p) \o SubSeq(ms, 1, 0)
    <3>1. SubSeq(ms, 1, 1) = <<ms[1]>> /\ SubSeq(ms, 1, 0) = <<>>
      <4>1. ms \in Seq(Message) /\ 1 <= Len(ms)
        BY <2>1 DEF L
      <4> DEFINE t1 == SubSeq(ms, 1, 1)
                 t0 == SubSeq(ms, 1, 0)
      <4>2. /\ t1 \in Seq(Message) /\ Len(t1) = 1 /\ t1[1] = ms[1]
            /\ t0 \in Seq(Message) /\ Len(t0) = 0
        BY ONLY <4>1
      <4>3. <<ms[1]>> \in Seq(Message) /\ Len(<<ms[1]>>) = 1 /\ <<ms[1]>>[1] = ms[1]
        BY ONLY <4>1
      <4> HIDE DEF t1, t0
      <4>4. \A i \in 1..1 : i = 1
        OBVIOUS
      <4>5. t1 = <<ms[1]>>
        BY <4>2, <4>3, <4>4, SeqEqual
      <4>6. t0 = <<>>
        BY ONLY <4>2
      <4> QED
        BY <4>5, <4>6 DEF t1, t0
    <3>2. ms[1] \in Message
      BY <2>1
    <3> DEFINE t == Transcript(f, p)
    <3>3. t \in Seq(Message)
      BY <1>1
    <3> HIDE DEF t
    <3>4. Append(t, ms[1]) = t \o <<ms[1]>> /\ t \o <<>> = t
      BY ONLY <3>2, <3>3, SMTT(30)
    <3> QED
      BY <3>1, <3>4 DEF t
  <2>9. Longer(0) \/ Longer(1)
    BY <2>5, <2>6, <2>7, <2>8 DEF Saved, Longer
  <2> QED
    BY <2>1, <2>9, <1>1
<1>9. ASSUME n > 1 PROVE \E j \in 0..L : Longer(j)
  <2> DEFINE mk == SubSeq(ms, 1, k)
             bk == Burst(N, p, mk)
             g0 == f \o bk
  <2>1. k > 0 /\ k \in Nat /\ k \in 0..L /\ 2 * k <= n /\ n <= 2 * k + 1
    BY <1>1, <1>6, <1>9
  <2>2. mk \in Seq(Message) /\ Len(mk) = k /\ \A i \in 1..k : mk[i] = ms[i]
    <3>1. ms \in Seq(Message) /\ k <= Len(ms) /\ k \in Nat
      BY <2>1
    <3> QED
      BY ONLY <3>1
  <2> HIDE DEF mk
  <2>3. /\ Fits(N, bk) /\ Len(bk) = 2 * k
        /\ bk[2 * k] = LeafEntry(N + 2 * k - 1)
    <3>1. N \in Nat /\ p \in 0..N /\ mk \in Seq(Message)
      BY <1>1, <2>2
    <3>2. /\ Fits(N, bk) /\ Len(bk) = 2 * Len(mk)
          /\ Len(mk) > 0 => bk[2 * Len(mk)] = LeafEntry(N + 2 * Len(mk) - 1)
      BY ONLY <3>1, BurstFits DEF bk
    <3> HIDE DEF bk
    <3> QED
      BY ONLY <3>2, <2>1, <2>2
  <2>4. \A i \in 1..2 * k : bk[i] = b[i]
    <3> SUFFICES ASSUME NEW i \in 1..2 * k PROVE bk[i] = b[i]
      OBVIOUS
    <3>1. bk[i] = IF i % 2 = 0 THEN LeafEntry(N + i - 1)
                  ELSE MessageEntry(IF i = 1 THEN p ELSE N + i - 2, mk[(i + 1) \div 2])
      BY <2>2 DEF Burst
    <3>2. i \in 1..2 * L /\ (i % 2 # 0 => (i + 1) \div 2 \in 1..k)
      BY <2>1, <1>1
    <3> HIDE DEF bk
    <3> QED
      BY <3>1, <3>2, <1>2, <2>2
  <2> HIDE DEF bk
  <2>5. /\ g0 \in Seq(Entry) /\ IsTree(g0) /\ Len(g0) = N + 2 * k
        /\ \A i \in 1..N : g0[i] = f[i]
        /\ \A i \in 1..2 * k : g0[N + i] = bk[i]
    <3>1. N = Len(f)
      BY DEF N
    <3>2. Fits(Len(f), bk) /\ g0 = f \o bk
      BY <2>3, <3>1
    <3> HIDE DEF g0
    <3>3. /\ g0 \in Seq(Entry) /\ IsTree(g0) /\ Len(g0) = Len(f) + Len(bk)
          /\ \A i \in 1..Len(f) : g0[i] = f[i]
          /\ \A i \in 1..Len(bk) : g0[Len(f) + i] = bk[i]
      BY ONLY <3>2, f \in Seq(Entry), IsTree(f), TreeConcat
    <3> QED
      BY ONLY <2>3, <3>1, <3>3
  <2>6. Transcript(g0, N + 2 * k - 1) = Transcript(f, p) \o mk
    <3>1. Transcript(f \o Burst(Len(f), p, mk), Len(f) + 2 * Len(mk) - 1) = Transcript(f, p) \o mk
      BY <1>1, <2>1, <2>2, BurstTranscript DEF N
    <3> QED
      BY <3>1, <2>2 DEF bk, N, g0
  <2> HIDE DEF g0
  <2>7. Len(g0) <= Len(g) /\ \A i \in 1..Len(g0) : g[i] = g0[i]
    <3>1. Len(g0) <= Len(g)
      BY <2>1, <2>5, <1>1, <1>5
    <3> SUFFICES ASSUME NEW i \in 1..Len(g0) PROVE g[i] = g0[i]
      BY <3>1
    <3>2. CASE i \in 1..N
      BY <3>2, <1>5, <2>5
    <3>3. CASE i \notin 1..N
      <4>1. i - N \in 1..2 * k /\ i - N \in 1..n /\ i = N + (i - N)
        BY <3>3, <2>1, <2>5, <1>1
      <4> QED
        BY <4>1, <2>4, <2>5, <1>5
    <3> QED
      BY <3>2, <3>3
  <2>8. \A i \in Len(g0) + 1..Len(g) : g[i].type # "leaf"
    <3> SUFFICES ASSUME NEW i \in Len(g0) + 1..Len(g) PROVE g[i].type # "leaf"
      OBVIOUS
    <3>1. i = N + n /\ n = 2 * k + 1
      BY <2>1, <2>5, <1>1, <1>5, <1>6
    <3>3. n \in 1..n /\ n \in 1..2 * L
      BY <3>1, <2>1, <1>1
    <3>4. n % 2 # 0
      BY ONLY <3>1, <2>1
    <3>2. g[i] = MessageEntry(IF n = 1 THEN p ELSE N + n - 2, ms[(n + 1) \div 2])
      BY <3>1, <3>3, <3>4, <1>2, <1>5
    <3> QED
      BY <3>2 DEF MessageEntry
  <2>9. HasLeaf(g0) /\ ActiveLeaf(g0) = N + 2 * k - 1
    <3>1. 2 * k \in 1..2 * k /\ Len(g0) > 0 /\ Len(g0) \in 1..Len(g0)
      BY <2>1, <2>5, <1>1
    <3>2. g0[Len(g0)] = LeafEntry(N + 2 * k - 1)
      BY <3>1, <2>3, <2>5
    <3>3. g0[Len(g0)].type = "leaf" /\ g0[Len(g0)].target = N + 2 * k - 1
      BY <3>2 DEF LeafEntry
    <3>4. ActiveLeaf(g0) = N + 2 * k - 1
      BY <3>1, <3>3, <2>5, LastLeaf
    <3>5. Len(g0) \in DOMAIN g0
      BY <3>1, <2>5
    <3> QED
      BY <3>3, <3>4, <3>5 DEF HasLeaf
  <2>10. ActiveLeaf(g) = N + 2 * k - 1
    <3>1. Continues(g0, g)
      BY <2>5, <2>7, <1>5 DEF Continues
    <3> QED
      BY <3>1, <2>8, <2>9, LeafStays
  <2>11. Transcript(g, N + 2 * k - 1) = Transcript(g0, N + 2 * k - 1)
    <3>1. N + 2 * k - 1 \in 0..Len(g0)
      BY <2>1, <2>5, <1>1
    <3> QED
      BY <3>1, <2>5, <2>7, <1>5, RowsPrefix DEF Transcript
  <2>12. Longer(k)
    BY <2>6, <2>10, <2>11 DEF Saved, mk, Longer
  <2> QED
    BY <2>1, <2>12
<1>10. \E j \in 0..L : Longer(j)
  BY <1>1, <1>7, <1>8, <1>9
<1> QED
  BY <1>10 DEF Longer, L, Prolongs

LEMMA StorePart ==
    ASSUME Core, up, NEW ms \in Seq(Message), Len(ms) > 0, Store(MessageEntries(lastParent, ms))
    PROVE  Prolongs(stored', stored, ms)
<1>1. /\ Base \in Seq(Entry) /\ IsTree(Base) /\ Len(Base) \in Nat /\ lastParent \in 0..Len(Base)
      /\ Transcript(Base, lastParent) = stored /\ lastParent = ActiveLeaf(Base)
  BY Here DEF Core, SavedBranch
<1> DEFINE b == Burst(Len(Base), lastParent, ms)
<1>2. MessageEntries(lastParent, ms) = b
  BY DEF MessageEntries, Burst
<1>3. Len(b) = 2 * Len(ms)
  BY <1>1, BurstFits
<1>4. PICK n \in 0..2 * Len(ms) : file' = Base \o SubSeq(b, 1, n) /\ stored' = Saved(file')
  <2> HIDE DEF b
  <2> QED
    BY <1>2, <1>3 DEF Store
<1>5. Partly(Base, lastParent, ms, n, file')
  BY <1>4 DEF Partly
<1> HIDE DEF b
<1>6. Prolongs(Saved(file'), Transcript(Base, lastParent), ms)
  <2>1. lastParent = ActiveLeaf(Base) /\ Base \in Seq(Entry) /\ IsTree(Base)
    BY <1>1
  <2> HIDE DEF Base
  <2> QED
    BY <2>1, <1>5, BurstPart
<1> QED
  BY <1>1, <1>4, <1>6

LEMMA StartsJoin ==
    ASSUME NEW s \in Seq(Message), NEW t \in Seq(Message)
    PROVE  Starts(s, s \o t)
BY DEF Starts

LEMMA StartsSame ==
    ASSUME NEW s \in Seq(Message)
    PROVE  Starts(s, s)
BY DEF Starts

\* The abstract session takes a step, or none.
Memory == IF up THEN live ELSE <<>>
Tracks == Abstract!Next \/ UNCHANGED <<up, Memory, stored, unwound>>

LEMMA GrowTracks ==
    ASSUME up = TRUE, UNCHANGED <<up, stored, unwound>>, Starts(live, live')
    PROVE  Tracks
<1>1. CASE live' = live
  BY <1>1 DEF Tracks, Memory
<1>2. CASE live' # live
  <2>1. Abstract!Grow
    BY <1>2, GrowMaps
  <2> QED
    BY <2>1 DEF Tracks, Abstract!Next
<1> QED
  BY <1>1, <1>2

LEMMA SaveTracks ==
    ASSUME up = TRUE, up' \in BOOLEAN, Starts(stored, stored'), unwound' = unwound,
           up' => Starts(live, live') /\ (~unwound => Starts(stored', live')), SavedInOrder'
    PROVE  Tracks
<1>1. CASE stored' # stored
  <2>1. Abstract!Save
    BY <1>1, SaveMaps
  <2> QED
    BY <2>1 DEF Tracks, Abstract!Next
<1>2. CASE stored' = stored /\ up'
  BY <1>2, GrowTracks
<1>3. CASE stored' = stored /\ ~up'
  <2>1. Abstract!Crash
    BY <1>3, CrashMaps
  <2> QED
    BY <2>1 DEF Tracks, Abstract!Next
<1> QED
  BY <1>1, <1>2, <1>3

LEMMA RewriteTracks ==
    ASSUME up = TRUE, unwound \/ live = stored, unwound' = unwound, up' \in BOOLEAN,
           up' => live' = stored'
    PROVE  Tracks
<1>1. Abstract!Rewrite
  BY RewriteMaps
<1> QED
  BY <1>1 DEF Tracks, Abstract!Next

\* What the process holds, and what SavesKeepUp says until a task is cancelled.
LEMMA InStep ==
    ASSUME Core, up
    PROVE  /\ up = TRUE /\ live \in Seq(Message) /\ stored \in Seq(Message) /\ Starts(live, live)
           /\ at \in RunPlaces => count \in 0..Len(live)
           /\ ~unwound => /\ at \notin RunPlaces => live = stored
                          /\ at \in RunPlaces => stored = SubSeq(live, 1, count)
                          /\ Starts(stored, live)
<1>1. /\ up = TRUE /\ live \in Seq(Message) /\ stored \in Seq(Message)
      /\ at \in RunPlaces => count \in 0..Len(live)
      /\ ~unwound => /\ at \notin RunPlaces => live = stored
                     /\ at \in RunPlaces => stored = SubSeq(live, 1, count)
  <2>1. Len(live) \in Nat
    BY DEF Core, TypeOK
  <2> QED
    BY <2>1 DEF Core, TypeOK, SettledDurable, SavedUpToCount
<1>2. Starts(live, live)
  BY <1>1, StartsSame
<1>3. ASSUME at \in RunPlaces, ~unwound PROVE Starts(stored, live)
  <2>1. count \in 0..Len(live) /\ count \in Nat /\ count <= Len(live) /\ live \in Seq(Message) /\ stored = SubSeq(live, 1, count)
    BY <1>1, <1>3
  <2>2. Len(stored) = count /\ \A i \in 1..count : stored[i] = live[i]
    BY ONLY <2>1
  <2> QED
    BY <2>1, <2>2, <1>1 DEF Starts
<1> QED
  BY <1>1, <1>2, <1>3

\* A stored setting leaves the saved transcript as it is, even when it is cut short.
LEMMA MetaStored ==
    ASSUME Core, up, StoreMeta
    PROVE  stored' = stored
<1> DEFINE e == MetaEntry(lastParent)
           t == Len(Base) + 1
           es == <<e, LeafEntry(t)>>
<1>1. /\ Base \in Seq(Entry) /\ IsTree(Base) /\ Len(Base) \in Nat
      /\ lastParent \in 0..Len(Base) /\ lastParent = ActiveLeaf(Base)
      /\ Transcript(Base, lastParent) = stored
  BY Here DEF Core, SavedBranch
<1>2. e \in Entry /\ e.parent = lastParent /\ e.type = "meta"
  BY <1>1 DEF MetaEntry, Entry
<1> HIDE DEF e
<1>3. t \in 0..Len(Base) + 1 /\ t \in Nat
  BY <1>1
<1>4. Fits(Len(Base), es) /\ Len(es) = 2 /\ es[2] = LeafEntry(t) /\ es[1] = e
  BY <1>1, <1>2, <1>3, PairFits
<1>5. PICK n \in 0..2 : file' = Base \o SubSeq(es, 1, n) /\ stored' = Saved(file')
  BY <1>4 DEF StoreMeta, Store, e
<1> HIDE DEF es
<1> DEFINE ep == SubSeq(es, 1, n)
<1>6. Fits(Len(Base), ep) /\ Len(ep) = n /\ \A k \in 1..n : ep[k] = es[k]
  <2>1. n \in 0..Len(es) /\ es \in Seq(Entry) /\ n \in Nat
    BY <1>4 DEF Fits
  <2>2. Fits(Len(Base), ep) /\ Len(ep) = n
    BY ONLY <1>1, <1>4, <2>1, FitsPrefix DEF ep
  <2>3. \A k \in 1..n : ep[k] = es[k]
    BY ONLY <2>1 DEF ep
  <2> QED
    BY <2>2, <2>3
<1> DEFINE h == Base \o ep
<1>7. file' = h
  BY <1>5
<1> HIDE DEF ep
<1>8. /\ h \in Seq(Entry) /\ IsTree(h) /\ Len(h) = Len(Base) + n
      /\ \A i \in 1..Len(Base) : h[i] = Base[i]
      /\ \A k \in 1..n : h[Len(Base) + k] = es[k]
  <2>1. /\ h \in Seq(Entry) /\ IsTree(h) /\ Len(h) = Len(Base) + Len(ep)
        /\ \A i \in 1..Len(Base) : h[i] = Base[i]
        /\ \A k \in 1..Len(ep) : h[Len(Base) + k] = ep[k]
    BY ONLY <1>1, <1>6, TreeConcat
  <2> HIDE DEF h
  <2> QED
    BY <2>1, <1>6
<1> HIDE DEF h
<1>9. Continues(Base, h)
  BY <1>1, <1>8 DEF Continues
<1>10. Rows(h, lastParent) = Rows(Base, lastParent)
  BY <1>1, <1>8, <1>9, RowsPrefix DEF Continues
<1>11. n > 0 => Rows(h, t) = Rows(h, lastParent)
  <2> SUFFICES ASSUME n > 0 PROVE Rows(h, t) = Rows(h, lastParent)
    OBVIOUS
  <2>1. t \in 1..Len(h) /\ 1 \in 1..n
    BY <1>1, <1>8
  <2>2. h[t] = e
    BY <2>1, <1>4, <1>8
  <2> QED
    BY <2>1, <2>2, <1>2, <1>8, SilentRow
<1>12. ActiveLeaf(h) = lastParent \/ (n > 0 /\ ActiveLeaf(h) = t)
  <2>1. CASE n = 2
    <3>1. Len(h) > 0 /\ 2 \in 1..n /\ Len(h) = Len(Base) + 2
      BY <2>1, <1>1, <1>8
    <3>2. h[Len(h)] = LeafEntry(t)
      BY <3>1, <1>4, <1>8
    <3>3. ActiveLeaf(h) = h[Len(h)].target /\ h[Len(h)].target = t
      BY <3>1, <3>2, <1>8, LastLeaf DEF LeafEntry
    <3> QED
      BY <2>1, <3>3
  <2>2. CASE n # 2
    <3>1. \A i \in Len(Base) + 1..Len(h) : h[i].type # "leaf"
      <4> SUFFICES ASSUME NEW i \in Len(Base) + 1..Len(h) PROVE h[i].type # "leaf"
        OBVIOUS
      <4>1. i = Len(Base) + 1 /\ 1 \in 1..n
        BY <2>2, <1>1, <1>8
      <4>2. h[i] = e
        BY <4>1, <1>4, <1>8
      <4> QED
        BY <4>2, <1>2
    <3>2. /\ HasLeaf(Base) => ActiveLeaf(h) = lastParent
          /\ ~HasLeaf(Base) => ActiveLeaf(h) = Len(h) /\ lastParent = Len(Base)
      BY <3>1, <1>1, <1>9, LeafStays
    <3>3. n = 0 \/ n = 1
      BY <2>2
    <3> QED
      BY <3>2, <3>3, <1>1, <1>8
  <2> QED
    BY <2>1, <2>2
<1> QED
  BY <1>1, <1>5, <1>7, <1>10, <1>11, <1>12 DEF Saved, Transcript

LEMMA PersistTracks ==
    ASSUME Core, up, at \in RunPlaces, NEW s \in Seq(Message), Starts(live, s),
           Persist(s), live' = s, unwound' = unwound, SavedInOrder'
    PROVE  Tracks
<1>1. /\ up = TRUE /\ live \in Seq(Message) /\ stored \in Seq(Message)
      /\ count \in 0..Len(live) /\ (~unwound => stored = SubSeq(live, 1, count))
  BY InStep
<1>2. Len(live) \in Nat /\ Len(s) \in Nat /\ Len(live) <= Len(s) /\ count \in Nat /\ count <= Len(s)
  BY <1>1 DEF Starts
<1> DEFINE new == NewSince(s, count)
<1>3. new \in Seq(Message)
  <2>1. SubSeq(s, count + 1, Len(s)) \in Seq(Message)
    BY <1>2
  <2> QED
    BY <2>1 DEF NewSince
<1>4. CASE new = <<>>
  <2>1. UNCHANGED <<disk, up>>
    BY <1>4 DEF Persist
  <2> QED
    BY <2>1, <1>1, GrowTracks DEF disk
<1>5. CASE new # <<>>
  <2>1. Store(MessageEntries(lastParent, new))
    BY <1>5 DEF Persist
  <2> HIDE DEF new
  <2>2. Len(new) > 0
    BY <1>3, <1>5
  <2>3. PICK j \in 0..Len(new) : stored' = stored \o SubSeq(new, 1, j)
    BY <1>3, <2>1, <2>2, StorePart DEF Prolongs
  <2>4. SubSeq(new, 1, j) \in Seq(Message)
    <3>1. new \in Seq(Message) /\ j \in 0..Len(new) /\ Len(new) \in Nat
      BY <1>3
    <3> QED
      BY ONLY <3>1
  <2>5. Starts(stored, stored') /\ stored' \in Seq(Message)
    <3> DEFINE u == SubSeq(new, 1, j)
    <3>1. u \in Seq(Message) /\ stored' = stored \o u
      BY <2>3, <2>4
    <3> HIDE DEF u
    <3>2. stored \o u \in Seq(Message)
      BY <3>1, <1>1
    <3>3. Starts(stored, stored \o u)
      BY <3>1, <1>1, StartsJoin
    <3> QED
      BY <3>1, <3>2, <3>3
  <2>6. SubSeq(s, 1, count) = SubSeq(live, 1, count)
    BY <1>1, <1>2, SubSeqOfPrefix DEF Starts
  <2>7. up' \in BOOLEAN /\ (up' /\ ~unwound => stored' = s)
    BY <1>1, <1>2, <2>6, PersistProperties
  <2>8. Starts(s, s)
    BY StartsSame
  <2> QED
    BY <1>1, <2>5, <2>7, <2>8, SaveTracks
<1> QED
  BY <1>4, <1>5

LEMMA RunStepTracks ==
    ASSUME Core, SavedInOrder', RunStep PROVE Tracks
<1>0. unwound' = unwound
  BY DEF RunStep, Prompt, StartPrompt, Continue, Retry, UserMessageEnd, ReplyEnd, AppendReply,
     ResultEnd, AppendResult, TurnEnd, Close, Overflowed, Settle, StartCompaction, Settled, StartRun, history
<1>1. up /\ up = TRUE
  <2>1. up
    BY DEF RunStep, Prompt, StartPrompt, Continue, Retry, UserMessageEnd, ReplyEnd, AppendReply,
           ResultEnd, AppendResult, TurnEnd, Close, Overflowed, Settle
  <2> QED
    BY <2>1 DEF Core, TypeOK
<1>2. live \in Seq(Message) /\ Starts(live, live)
  BY <1>1, InStep
<1>3. Repaired(live) \in Seq(Message) /\ Starts(live, Repaired(live))
  BY <1>2, RepairedTyped DEF Starts
<1>4. \A t \in Seq(Message) : Starts(live, live \o t)
  BY <1>2, StartsJoin
<1>5. \A m \in Message : Starts(live, Append(live, m))
  BY <1>2 DEF Starts
<1>6. \A n \in Nat : User(n) \in Message
  BY DEF User, Message, UserMessages
<1>7. users \in Nat /\ users + 1 \in Nat
  BY DEF Core, TypeOK
<1>8. CASE UNCHANGED <<disk, up, live>>
  BY <1>0, <1>1, <1>2, <1>8, GrowTracks DEF disk
<1>9. CASE Prompt \/ Overflowed \/ Settle
  BY <1>8, <1>9 DEF Prompt, Overflowed, Settle, StartCompaction, Settled
<1>10. CASE StartPrompt \/ Continue \/ Retry
  <2>1. PICK prompts \in {<<>>, <<User(users + 1)>>} :
           live' = Repaired(live) \o prompts /\ UNCHANGED <<disk, up>>
    BY <1>10 DEF StartPrompt, Continue, Retry, StartRun
  <2>2. prompts \in Seq(Message)
    <3>1. User(users + 1) \in Message
      BY <1>6, <1>7
    <3> DEFINE u == User(users + 1)
    <3> HIDE DEF u
    <3>2. u \in Message => <<u>> \in Seq(Message)
      OBVIOUS
    <3>3. <<u>> \in Seq(Message) /\ <<>> \in Seq(Message)
      BY <3>1, <3>2 DEF u
    <3>4. prompts = <<>> \/ prompts = <<u>>
      BY <2>1 DEF u
    <3> QED
      BY <3>3, <3>4
  <2>3. Starts(live, Repaired(live) \o prompts)
    <3> DEFINE r == Repaired(live)
    <3>1. r \in Seq(Message) /\ Starts(live, r)
      BY <1>3
    <3> HIDE DEF r
    <3>2. Starts(live, r \o prompts)
      BY <3>1, <2>2 DEF Starts
    <3> QED
      BY <3>2 DEF r
  <2> QED
    BY <1>0, <1>1, <2>1, <2>3, GrowTracks DEF disk
<1>11. CASE UserMessageEnd \/ ReplyEnd \/ ResultEnd
  <2>1. at \in RunPlaces /\ Persist(live) /\ live' = live
    BY <1>11 DEF UserMessageEnd, ReplyEnd, ResultEnd, RunPlaces
  <2> QED
    BY <1>0, <1>1, <1>2, <2>1, PersistTracks
<1>12. CASE AppendReply
  <2>1. at = "answered" /\ live' = Append(live, reply) /\ UNCHANGED <<disk, up>>
    BY <1>12 DEF AppendReply
  <2>2. reply \in Message
    BY <2>1 DEF Core, TypeOK, RunShape, Message
  <2> QED
    BY <1>0, <1>1, <1>5, <2>1, <2>2, GrowTracks DEF disk
<1>13. CASE AppendResult
  <2>1. at = "returned" /\ live' = Append(live, Result(Head(todo))) /\ UNCHANGED <<disk, up>>
    BY <1>13 DEF AppendResult
  <2>2. Result(Head(todo)) \in Message
    BY <2>1, ResultType
  <2> QED
    BY <1>0, <1>1, <1>5, <2>1, <2>2, GrowTracks DEF disk
<1>14. CASE TurnEnd
  <2>1. /\ live' = Append(live, User(users + 1)) \/ live' = live
        /\ UNCHANGED <<disk, up>>
    BY <1>14 DEF TurnEnd
  <2>2. User(users + 1) \in Message
    BY <1>6, <1>7
  <2> QED
    BY <1>0, <1>1, <1>2, <1>5, <2>1, <2>2, GrowTracks DEF disk
<1>15. CASE Close
  <2>1. at \in RunPlaces /\ Persist(live') /\ live' \in {live, Repaired(live)}
    BY <1>15 DEF Close, RunPlaces
  <2>2. live' \in Seq(Message) /\ Starts(live, live')
    BY <2>1, <1>2, <1>3
  <2> QED
    BY <1>0, <1>1, <2>1, <2>2, PersistTracks
<1> QED
  BY <1>9, <1>10, <1>11, <1>12, <1>13, <1>14, <1>15 DEF RunStep

\* FollowsScattered for some places of st.
LEMMA PlacesScattered ==
    ASSUME NEW st \in Seq(Message), NEW s \in Seq(Message), Distinct(s),
           NEW kept, kept \subseteq DOMAIN st, NEW e,
           \A i \in kept : /\ e[i] \in DOMAIN s /\ s[e[i]] = st[i]
                           /\ \A j \in kept : i < j => e[i] < e[j]
    PROVE  Scattered(st, kept, s)
<1>1. /\ DOMAIN st = 1..Len(st) /\ Len(st) \in Nat /\ DOMAIN s = 1..Len(s) /\ Len(s) \in Nat
  OBVIOUS
<1>2. ASSUME NEW j \in kept, NEW i \in kept, NEW a \in DOMAIN s, st[i] = s[a]
      PROVE  (i < j <=> a < e[j]) /\ (i = j <=> a = e[j])
  <2>1. /\ e[i] \in DOMAIN s /\ s[e[i]] = st[i] /\ e[j] \in DOMAIN s
        /\ i < j => e[i] < e[j]
        /\ j < i => e[j] < e[i]
    OBVIOUS
  <2>2. a = e[i]
    BY <2>1, <1>2 DEF Distinct
  <2>3. i \in Nat /\ j \in Nat /\ e[i] \in Nat /\ e[j] \in Nat
    BY <1>1, <2>1
  <2> QED
    BY <2>1, <2>2, <2>3
<1> QED
  BY <1>2 DEF Scattered

\* The repaired transcript new and the transcript s it repairs are found in t, the
\* transcript of the new leaf: d places further, but for a summary that begins s.
RepairPlaces(s, new, same, w, h, d, old, t) ==
    /\ t \in Seq(Message) /\ Len(t) = Len(new) + d /\ Len(old) = same + d
    /\ Len(new) \in Nat /\ same \in Nat /\ same < Len(new) /\ d \in Nat
    /\ \A k \in 1..same + d : t[k] = old[k]
    /\ \A p \in h + 1..Len(new) : p + d \in 1..Len(t) /\ t[p + d] = new[p]
    /\ h \in 0..1 /\ (h = 1 => IsSummary(s[1])) /\ same \in 1..Len(s) /\ Len(s) \in Nat
    /\ \A i \in 1..Len(s) : /\ w[i] \in 1..Len(new) /\ new[w[i]] = s[i]
                            /\ h < i => w[i] \in h + 1..Len(new)
    /\ \A i, j \in 1..Len(s) : i < j => w[i] < w[j]

LEMMA RecoversPlaces ==
    ASSUME NEW f, NEW g, NEW end, NEW s \in Seq(Message), NEW new, NEW same, NEW w, NEW node, NEW h, NEW d,
           Recovers(f, g, end, s, new, same, w, node, h, d)
    PROVE  /\ RepairPlaces(s, new, same, w, h, d, Transcript(f, node[0]), Transcript(g, end))
           /\ end \in 0..Len(g) /\ g \in Seq(Entry) /\ IsTree(g)
<1> DEFINE ms == SubSeq(new, same + 1, Len(new))
           old == Transcript(f, node[0])
           t == Transcript(g, end)
<1>1. /\ new \in Seq(Message) /\ Len(new) \in Nat /\ Len(s) \in Nat
      /\ same \in 1..Len(s) /\ same \in Nat /\ same < Len(new)
      /\ h \in 0..1 /\ d \in Nat /\ (h = 1 => IsSummary(s[1]))
      /\ \A i \in 1..same : w[i] = i
      /\ \A i \in 1..Len(s) : w[i] \in 1..Len(new) /\ new[w[i]] = s[i]
      /\ \A i, j \in 1..Len(s) : i < j => w[i] < w[j]
  <2>1. new \in Seq(Message) /\ Len(s) \in Nat
    BY DEF Recovers, Woven
  <2>2. Len(new) \in Nat
    BY <2>1
  <2>3. same \in 1..Len(s)
    BY DEF Recovers
  <2>4. same \in Nat
    BY <2>1, <2>3
  <2>5. Woven(s, new, w)
    BY DEF Recovers
  <2>6. /\ \A i \in 1..Len(s) : w[i] \in 1..Len(new) /\ new[w[i]] = s[i]
        /\ \A i, j \in 1..Len(s) : i < j => w[i] < w[j]
    BY ONLY <2>5 DEF Woven
  <2>7. /\ same < Len(new) /\ h \in 0..1 /\ d \in Nat /\ (h = 1 => IsSummary(s[1]))
        /\ \A i \in 1..same : w[i] = i
    BY DEF Recovers
  <2> QED
    BY ONLY <2>1, <2>2, <2>3, <2>4, <2>6, <2>7
<1>2. Len(ms) = Len(new) - same /\ \A k \in 1..Len(ms) : ms[k] = new[same + k]
  BY ONLY <1>1
<1>3. /\ Chained(f, g, node, ms) /\ end = node[Len(ms)] /\ Len(old) = same + d
      /\ \A l \in h + 1..same : old[l + d] = s[l]
  BY <1>2 DEF Recovers
<1> HIDE DEF ms, old
<1>4. Len(ms) \in 0..Len(ms) /\ Len(ms) \in 1..Len(ms)
  BY <1>1, <1>2
<1>5. /\ t \in Seq(Message) /\ Len(t) = same + d + Len(ms)
      /\ \A k \in 1..same + d : t[k] = old[k]
      /\ \A k \in 1..Len(ms) : t[same + d + k] = ms[k]
  BY <1>3, <1>4, ChainTranscript DEF old
<1>6. g \in Seq(Entry) /\ IsTree(g) /\ end \in 0..Len(g)
  <2>1. g \in Seq(Entry) /\ IsTree(g)
    BY <1>3 DEF Chained, Continues
  <2>2. end \in 1..Len(g)
    BY <1>3, <1>4, ChainLink DEF Chained, Continues
  <2> QED
    BY <2>1, <2>2
<1> HIDE DEF t
<1>7. ASSUME NEW p \in h + 1..Len(new)
      PROVE  p + d \in 1..Len(t) /\ t[p + d] = new[p]
  <2>1. p + d \in 1..Len(t)
    BY <1>1, <1>2, <1>5
  <2>2. CASE p <= same
    <3>1. p \in h + 1..same /\ p \in 1..same /\ p + d \in 1..same + d /\ p \in 1..Len(s)
      BY <1>1, <2>2
    <3>2. t[p + d] = s[p] /\ w[p] = p
      BY <3>1, <1>1, <1>3, <1>5
    <3> QED
      BY <2>1, <3>1, <3>2, <1>1
  <2>3. CASE p > same
    <3> DEFINE k == p - same
    <3>1. k \in 1..Len(ms) /\ same + d + k = p + d /\ same + k = p
      BY <1>1, <1>2, <2>3
    <3>2. t[p + d] = ms[k]
      BY <3>1, <1>5
    <3>3. ms[k] = new[p]
      BY <3>1, <1>2
    <3> QED
      BY <2>1, <3>2, <3>3
  <2> QED
    BY <2>2, <2>3, <1>1
<1>8. ASSUME NEW i \in 1..Len(s), h < i
      PROVE  w[i] \in h + 1..Len(new)
  <2>1. w[i] \in 1..Len(new)
    BY <1>1
  <2>2. CASE i <= same
    BY <2>1, <2>2, <1>1, <1>8
  <2>3. CASE i > same
    <3>1. w[same] < w[i] /\ w[same] = same
      BY <2>3, <1>1
    <3> QED
      BY <3>1, <2>1, <1>1
  <2> QED
    BY <2>2, <2>3, <1>1
<1>9. Len(t) = Len(new) + d
  BY <1>1, <1>2, <1>5
<1> QED
  BY <1>1, <1>3, <1>5, <1>6, <1>7, <1>8, <1>9 DEF RepairPlaces, t, old

\* The repair of a branch keeps every message of it but a summary, in order.
LEMMA RecoversScattered ==
    ASSUME NEW f, NEW g, NEW end, NEW s \in Seq(Message), NEW new, NEW same, NEW w, NEW node, NEW h, NEW d,
           Recovers(f, g, end, s, new, same, w, node, h, d), FileInOrder(g)
    PROVE  Scattered(s, {i \in DOMAIN s : ~IsSummary(s[i])}, Transcript(g, end))
<1> DEFINE old == Transcript(f, node[0])
           t == Transcript(g, end)
           kept == {i \in DOMAIN s : ~IsSummary(s[i])}
<1>1. RepairPlaces(s, new, same, w, h, d, old, t) /\ end \in 0..Len(g) /\ g \in Seq(Entry) /\ IsTree(g)
  BY RecoversPlaces
<1>2. Distinct(t)
  BY <1>1, TranscriptDistinct
<1> HIDE DEF old, t
<1> DEFINE e == [i \in DOMAIN s |-> w[i] + d]
<1>3. ASSUME NEW i \in kept
      PROVE  /\ i \in 1..Len(s) /\ e[i] = w[i] + d /\ e[i] \in DOMAIN t /\ t[e[i]] = s[i]
  <2>1. i \in 1..Len(s) /\ ~IsSummary(s[i]) /\ i \in DOMAIN s
    OBVIOUS
  <2>2. h < i /\ t \in Seq(Message)
    BY <2>1, <1>1 DEF RepairPlaces
  <2>3. w[i] \in h + 1..Len(new) /\ new[w[i]] = s[i]
    BY <2>1, <2>2, <1>1 DEF RepairPlaces
  <2>4. w[i] + d \in 1..Len(t) /\ t[w[i] + d] = s[i]
    BY <2>3, <1>1 DEF RepairPlaces
  <2> QED
    BY <2>1, <2>2, <2>4
<1>4. ASSUME NEW i \in kept, NEW j \in kept, i < j
      PROVE  e[i] < e[j]
  <2>1. i \in 1..Len(s) /\ j \in 1..Len(s) /\ e[i] = w[i] + d /\ e[j] = w[j] + d
    BY <1>3
  <2>2. w[i] < w[j] /\ w[i] \in Nat /\ w[j] \in Nat /\ d \in Nat
    BY <2>1, <1>4, <1>1 DEF RepairPlaces
  <2> QED
    BY <2>1, <2>2
<1> HIDE DEF e
<1>5. kept \subseteq DOMAIN s /\ t \in Seq(Message)
  BY <1>1 DEF RepairPlaces
<1> HIDE DEF kept
<1>6. Scattered(s, kept, t)
  BY <1>2, <1>3, <1>4, <1>5, PlacesScattered
<1> QED
  BY <1>6 DEF t, kept

\* A repair that is cut short leaves the active entry of a file that has a leaf.
LEMMA RepairCut ==
    ASSUME Core, NEW leaf, file # <<>>, leaf = ActiveLeaf(file), NEW s, s = Transcript(file, leaf),
           Recovered(s) # s, NEW es, es = RecoveryEntries(Rows(file, leaf)), Store(es), ~up', HasLeaf(file)
    PROVE  stored' = stored
<1>1. /\ file \in Seq(Entry) /\ IsTree(file) /\ Len(file) \in Nat /\ Base = file /\ stored = Saved(file)
  BY DEF Core, TypeOK, SavedBranch, Base
<1>2. leaf \in 0..Len(file)
  BY <1>1, ActiveLeafType
<1>3. Messages(Rows(file, leaf)) = s
  BY DEF Transcript
<1>4. Fits(Len(file), es) /\ Len(es) > 0
  BY <1>1, <1>2, <1>3, RecoveryFits
<1>5. PICK same \in 1..Len(s) : RecoveryFrom(Rows(file, leaf), s, Recovered(s), same)
  BY <1>1, <1>2, <1>3, RecoveryForm
<1>6. \A k \in 1..Len(es) - 1 : es[k].type = "message"
  <2>1. Len(es) = Len(Recovered(s)) - same + 1
    BY <1>5 DEF RecoveryFrom
  <2>2. Len(es) \in Nat /\ Len(Recovered(s)) - same \in Int
    <3>1. Len(es) \in Nat
      BY <1>4 DEF Fits
    <3>2. s \in Seq(Message)
      BY <1>1, <1>2, TranscriptTyped
    <3>3. Len(Recovered(s)) \in Nat /\ Len(s) \in Nat
      BY <3>2, RecoveredTyped
    <3> QED
      BY <3>1, <3>3
  <2>3. \A k \in 1..Len(Recovered(s)) - same : es[k].type = "message"
    <3> SUFFICES ASSUME NEW k \in 1..Len(Recovered(s)) - same PROVE es[k].type = "message"
      OBVIOUS
    <3>1. \E p : es[k] = MessageEntry(p, Recovered(s)[same + k])
      BY <1>5 DEF RecoveryFrom
    <3> QED
      BY <3>1 DEF MessageEntry
  <2> QED
    BY ONLY <2>1, <2>2, <2>3
<1>7. PICK n \in 0..Len(es) : file' = file \o SubSeq(es, 1, n) /\ stored' = Saved(file') /\ up' = (n = Len(es))
  BY <1>1 DEF Store
<1> DEFINE ep == SubSeq(es, 1, n)
<1>8. es \in Seq(Entry) /\ n \in Nat /\ n < Len(es) /\ Len(es) \in Nat
  <2>1. es \in Seq(Entry) /\ n \in 0..Len(es) /\ n # Len(es)
    BY <1>4, <1>7 DEF Fits
  <2> QED
    BY ONLY <2>1
<1>9. Fits(Len(file), ep) /\ Len(ep) = n
  BY <1>1, <1>4, <1>7, FitsPrefix
<1>10. \A k \in 1..n : ep[k] = es[k] /\ k \in 1..Len(es) - 1
  BY ONLY <1>8
<1> DEFINE g == file \o ep
<1>11. file' = g
  BY <1>7
<1> HIDE DEF ep
<1>12. /\ g \in Seq(Entry) /\ IsTree(g) /\ Len(g) = Len(file) + n
       /\ \A i \in 1..Len(file) : g[i] = file[i]
       /\ \A k \in 1..n : g[Len(file) + k] = ep[k]
  BY <1>1, <1>9, TreeConcat
<1> HIDE DEF g
<1>13. Continues(file, g)
  BY <1>1, <1>8, <1>12 DEF Continues
<1>14. ASSUME NEW i \in Len(file) + 1..Len(g)
       PROVE  g[i].type # "leaf"
  <2> DEFINE k == i - Len(file)
  <2>1. k \in 1..n /\ i = Len(file) + k
    BY <1>1, <1>8, <1>12
  <2> HIDE DEF k
  <2>2. g[i] = ep[k] /\ ep[k] = es[k] /\ k \in 1..Len(es) - 1
    BY <2>1, <1>10, <1>12
  <2>3. g[i].type = "message"
    BY <2>2, <1>6
  <2> QED
    BY <2>3
<1>15. ActiveLeaf(g) = leaf
  BY <1>13, <1>14, LeafStays
<1>16. Rows(g, leaf) = Rows(file, leaf)
  BY <1>1, <1>2, <1>12, <1>13, RowsPrefix DEF Continues
<1> QED
  BY <1>1, <1>7, <1>11, <1>15, <1>16 DEF Saved, Transcript

\* What the file holds is repaired in g, at end.
RepairStored(g, end) ==
    \E same, w, node, h, d :
        Recovers(file, g, end, stored, Recovered(stored), same, w, node, h, d)

\* The entries of a repair are written, the last of them a leaf that activates `end'.
RepairWritten(more, end) ==
    /\ file # <<>> /\ Base = file /\ RepairStored(file \o more, end)
    /\ more = RecoveryEntries(Rows(file, ActiveLeaf(file))) /\ Recovered(stored) # stored
    /\ Fits(Len(file), more) /\ Len(more) > 0 /\ more[Len(more)] = LeafEntry(end)
    /\ Store(more) /\ (HasLeaf(file) \/ up')

\* A load finds nothing to repair, or writes the repair.
LEMMA LoadForm ==
    ASSUME Core, OrderInv, Load
    PROVE  /\ stored \in Seq(Message) /\ Distinct(stored) /\ stored = Transcript(file, ActiveLeaf(file))
           /\ ActiveLeaf(file) \in 0..Len(file)
           /\ \/ stored' = stored /\ file' = file /\ Recovered(stored) = stored
              \/ \E more, end : RepairWritten(more, end)
<1> DEFINE leaf == IF file = <<>> THEN 1 ELSE ActiveLeaf(file)
           rs == Rows(Base, leaf)
           more == RecoveryEntries(rs)
           end == Len(file) + Len(more) - 1
<1>1. /\ file \in Seq(Entry) /\ IsTree(file) /\ FileInOrder(file) /\ Len(file) \in Nat
      /\ stored = Saved(file) /\ crashes \in Nat
  BY DEF Core, TypeOK, OrderInv, SavedBranch
<1>2. /\ Base \in Seq(Entry) /\ IsTree(Base) /\ Len(Base) > 0 /\ Len(Base) \in Nat
      /\ file # <<>> => Base = file
      /\ file = <<>> => ActiveLeaf(Base) = 1 /\ \A i \in 0..Len(Base) : Rows(Base, i) = <<>>
  BY <1>1, BegunTyped DEF Base, Begun
<1>3. leaf \in 0..Len(Base) /\ leaf = ActiveLeaf(Base)
  <2>1. leaf = ActiveLeaf(Base)
    BY <1>2
  <2> HIDE DEF leaf
  <2> QED
    BY <2>1, <1>2, ActiveLeafType
<1>4. \/ stored' = stored /\ file' = file /\ Recovered(Messages(rs)) = Messages(rs)
      \/ Recovered(Messages(rs)) # Messages(rs) /\ Store(more) /\ (HasLeaf(file) \/ up')
  BY DEF Load, disk
<1> HIDE DEF leaf
<1>5. ActiveLeaf(file) \in 0..Len(file) /\ stored = Transcript(file, ActiveLeaf(file))
  BY <1>1, ActiveLeafType DEF Saved
<1>6. stored \in Seq(Message) /\ Distinct(stored)
  BY <1>1, <1>5, TranscriptTyped, TranscriptDistinct
<1>7. stored = Messages(rs)
  <2>1. CASE file = <<>>
    <3>1. rs = <<>>
      BY <2>1, <1>2, <1>3
    <3>2. stored = Transcript(Base, ActiveLeaf(Base))
      BY <1>1, BegunTyped DEF Base, Begun, Saved
    <3> QED
      BY <3>2, <1>3 DEF Transcript
  <2>2. CASE file # <<>>
    BY <2>2, <1>2, <1>3, <1>5 DEF Transcript
  <2> QED
    BY <2>1, <2>2
<1>8. CASE stored' = stored /\ file' = file /\ Recovered(Messages(rs)) = Messages(rs)
  BY <1>5, <1>6, <1>7, <1>8
<1>9. CASE Recovered(Messages(rs)) # Messages(rs) /\ Store(more) /\ (HasLeaf(file) \/ up')
  <2>1. file # <<>>
    <3> SUFFICES ASSUME file = <<>> PROVE FALSE
      OBVIOUS
    <3>1. rs = <<>>
      BY <1>2, <1>3
    <3>2. Messages(rs) = <<>>
      BY <3>1 DEF Messages
    <3>3. Messages(rs) \in Seq(Message)
      BY <3>2, EmptySeq
    <3> QED
      BY <3>2, <3>3, <1>9, RecoveredTyped
  <2>2. Base = file /\ leaf \in 0..Len(file) /\ rs = Rows(file, leaf) /\ leaf = ActiveLeaf(file)
    BY <2>1, <1>2, <1>3
  <2> HIDE DEF rs
  <2>3. Messages(rs) = Transcript(file, leaf) /\ more = RecoveryEntries(Rows(file, leaf))
    BY <2>2 DEF Transcript
  <2>4. /\ Fits(Len(file), more) /\ Len(more) > 0 /\ more[Len(more)] = LeafEntry(Len(file) + Len(more) - 1)
    BY <2>2, <1>1, <1>9, RecoveryFits
  <2> HIDE DEF more
  <2>5. Recovered(stored) # stored /\ Store(more) /\ (HasLeaf(file) \/ up') /\ stored = Transcript(file, leaf)
    BY <2>3, <1>7, <1>9
  <2>6. /\ Apart(stored)
        /\ \A i \in DOMAIN stored : IsSummary(stored[i]) => stored[i].summarizes \in 1..Len(file)
    BY <2>2, <2>5, LoadFinds
  <2>7. \E same, w, node, h, d :
          Recovers(file, file \o more, end, stored, Recovered(stored), same, w, node, h, d)
    BY <2>2, <2>3, <2>5, <2>6, <1>1, RecoveryChain
  <2> HIDE DEF end
  <2>8. RepairStored(file \o more, end)
    BY <2>7 DEF RepairStored
  <2>9. RepairWritten(more, end)
    BY <2>1, <2>2, <2>3, <2>4, <2>5, <2>8 DEF RepairWritten, end
  <2> QED
    BY <2>9, <1>5, <1>6
<1> QED
  BY <1>4, <1>8, <1>9

\* A load leaves what the file holds, or stores the whole repair of it.
LEMMA LoadStores ==
    ASSUME Core, OrderInv, Load
    PROVE  /\ stored \in Seq(Message) /\ Distinct(stored) /\ stored = Transcript(file, ActiveLeaf(file))
           /\ ActiveLeaf(file) \in 0..Len(file)
           /\ \/ stored' = stored /\ (up' => file' = file /\ Recovered(stored) = stored)
              \/ up' /\ \E end : RepairStored(file', end) /\ stored' = Transcript(file', end)
<1>1. /\ file \in Seq(Entry) /\ IsTree(file) /\ crashes \in Nat
  BY DEF Core, TypeOK
<1>2. ASSUME NEW more, NEW end, RepairWritten(more, end)
      PROVE  IF up' THEN RepairStored(file', end) /\ stored' = Transcript(file', end) ELSE stored' = stored
  <2>1. /\ file # <<>> /\ Base = file /\ RepairStored(file \o more, end)
        /\ more = RecoveryEntries(Rows(file, ActiveLeaf(file))) /\ Recovered(stored) # stored
        /\ Fits(Len(file), more) /\ Len(more) > 0 /\ more[Len(more)] = LeafEntry(end)
        /\ Store(more) /\ (HasLeaf(file) \/ up')
    BY <1>2 DEF RepairWritten
  <2>2. CASE ~up'
    <3>1. stored = Transcript(file, ActiveLeaf(file))
      BY LoadForm
    <3> QED
      BY <2>1, <2>2, <3>1, RepairCut
  <2>3. CASE up'
    <3>1. stored' = Transcript(file \o more, end) /\ file' = file \o more
      BY <2>1, <2>3, <1>1, StoreProperties
    <3> QED
      BY <2>1, <2>3, <3>1
  <2> QED
    BY <2>2, <2>3
<1> QED
  BY <1>2, LoadForm

LEMMA LoadTracks ==
    ASSUME Core, Core', OrderInv, OrderInv', Load
    PROVE  Tracks
<1>1. /\ stored \in Seq(Message) /\ Distinct(stored)
      /\ stored' = stored \/ (up' /\ \E end : RepairStored(file', end) /\ stored' = Transcript(file', end))
  BY LoadStores
<1>2. ~up /\ up' \in BOOLEAN /\ unwound' = FALSE /\ at' = "idle"
  BY DEF Load, Core, TypeOK
<1>3. up' => live' = stored'
  BY <1>2 DEF Core, SettledDurable, RunPlaces
<1>4. Scattered(stored, KeptPlaces, stored')
  <2>1. CASE stored' = stored
    <3> DEFINE e == [i \in DOMAIN stored |-> i]
    <3>1. Follows(stored, stored, e)
      BY DEF Follows
    <3>2. KeptPlaces \subseteq DOMAIN stored
      BY DEF KeptPlaces
    <3> HIDE DEF e
    <3> QED
      BY <3>1, <3>2, <2>1, <1>1, FollowsScattered
  <2>2. CASE \E end : RepairStored(file', end) /\ stored' = Transcript(file', end)
    <3>1. PICK end : RepairStored(file', end) /\ stored' = Transcript(file', end)
      BY <2>2
    <3>2. PICK same, w, node, h, d :
            Recovers(file, file', end, stored, Recovered(stored), same, w, node, h, d)
      BY <3>1 DEF RepairStored
    <3>3. FileInOrder(file')
      BY DEF OrderInv
    <3>4. Scattered(stored, {i \in DOMAIN stored : ~IsSummary(stored[i])}, Transcript(file', end))
      BY <3>2, <3>3, <1>1, RecoversScattered
    <3> QED
      BY <3>1, <3>4 DEF KeptPlaces
  <2> QED
    BY <1>1, <2>1, <2>2
<1>5. Abstract!Restart
  BY <1>2, <1>3, <1>4, RestartMaps
<1> QED
  BY <1>5 DEF Tracks, Abstract!Next

\* A finished compaction leaves in memory what a load would find.
LEMMA FinishLoads ==
    ASSUME Core, FinishCompaction PROVE up' => live' = stored'
<1> DEFINE e == CompactionEntry(lastParent, plan)
           t == Len(Base) + 1
           es == <<e, LeafEntry(t)>>
<1>1. up /\ file \in Seq(Entry) /\ IsTree(file) /\ crashes \in Nat /\ plan \subseteq DOMAIN file
  BY DEF FinishCompaction, Core, TypeOK
<1>2. /\ Base \in Seq(Entry) /\ IsTree(Base) /\ Len(Base) \in Nat /\ lastParent \in 0..Len(Base)
  BY <1>1, Here
<1>3. e \in Entry /\ e.parent \in 0..Len(Base) /\ e.type # "leaf"
  <2>1. plan \in SUBSET Nat
    BY <1>1
  <2> QED
    BY <2>1, <1>2 DEF CompactionEntry, Entry
<1>4. Store(es) /\ live' = Transcript(Base \o es, t)
  BY DEF FinishCompaction
<1> HIDE DEF e
<1>5. t \in 0..Len(Base) + 1
  BY <1>2
<1>6. Fits(Len(Base), es) /\ Len(es) = 2 /\ es[2] = LeafEntry(t)
  BY <1>2, <1>3, <1>5, PairFits
<1>7. Len(es) > 0 /\ es[Len(es)] = LeafEntry(t)
  BY <1>6
<1> HIDE DEF es, t
<1>8. up' => stored' = Transcript(Base \o es, t)
  BY <1>1, <1>4, <1>6, <1>7, StoreProperties
<1> QED
  BY <1>4, <1>8

LEMMA RewritingTracks ==
    ASSUME Core, Rewriting, Core' PROVE Tracks
<1>1. up /\ up = TRUE /\ unwound' = unwound
  <2>1. up
    BY DEF Rewriting, Compact, FinishCompaction, AbandonCompaction, Branch, StartBranchSummary,
           FinishBranchSummary, AbandonBranch
  <2>2. unwound' = unwound
    BY DEF Rewriting, Compact, FinishCompaction, AbandonCompaction, Branch, StartBranchSummary,
           FinishBranchSummary, AbandonBranch, StartCompaction, history
  <2> QED
    BY <2>1, <2>2 DEF Core, TypeOK
<1>2. live \in Seq(Message) /\ Starts(live, live)
  BY <1>1, InStep
<1>3. CASE UNCHANGED <<disk, up, live>>
  BY <1>1, <1>2, <1>3, GrowTracks DEF disk
<1>4. CASE Compact \/ AbandonCompaction \/ StartBranchSummary \/ AbandonBranch
  BY <1>3, <1>4 DEF Compact, StartCompaction, AbandonCompaction, StartBranchSummary, AbandonBranch
<1>5. up' \in BOOLEAN
  BY DEF Core, TypeOK
<1>6. at \notin RunPlaces => unwound \/ live = stored
  BY <1>1, InStep
<1>7. CASE FinishCompaction
  <2>1. at \notin RunPlaces
    BY <1>7 DEF FinishCompaction, RunPlaces
  <2>2. up' => live' = stored'
    BY <1>7, FinishLoads
  <2> QED
    BY <1>1, <1>5, <1>6, <2>1, <2>2, RewriteTracks
<1>8. CASE Branch
  <2>1. at \notin RunPlaces
    BY <1>8 DEF Branch, RunPlaces
  <2>2. PICK target \in 0..Len(Base) :
           /\ Activate(<<>>, target) /\ Len(<<>>) = 0
           /\ Fits(Len(Base), <<>>) /\ Fits(Len(Base), Append(<<>>, LeafEntry(target)))
    BY <1>8, BranchFits
  <2>3. Len(Base) + Len(<<>>) = Len(Base)
    BY <1>1, <2>2, Here
  <2>4. up' => live' = stored'
    BY <1>1, <2>2, <2>3, ActivateLoads
  <2> QED
    BY <1>1, <1>5, <1>6, <2>1, <2>4, RewriteTracks
<1>9. CASE FinishBranchSummary
  <2>1. at \notin RunPlaces
    BY <1>9 DEF FinishBranchSummary, RunPlaces, Core, RunShape
  <2>2. up' => live' = stored'
    BY <1>1, <1>9, SummaryFits, ActivateLoads
  <2> QED
    BY <1>1, <1>5, <1>6, <2>1, <2>2, RewriteTracks
<1> QED
  BY <1>4, <1>7, <1>8, <1>9 DEF Rewriting

LEMMA TerminalTracks ==
    ASSUME Core, Core', SavedInOrder', TerminalCommand PROVE Tracks
<1> DEFINE u == User(users + 1)
<1>1. up /\ up = TRUE /\ unwound' = unwound /\ at' = at /\ at \notin RunPlaces
  BY DEF TerminalCommand, Core, TypeOK, history, RunPlaces
<1>2. u \in Message
  BY DEF User, Message, UserMessages, Core, TypeOK
<1>3. live' = Append(live, u) /\ Store(MessageEntries(lastParent, <<u>>))
  BY DEF TerminalCommand
<1>4. live \in Seq(Message) /\ stored \in Seq(Message)
  BY <1>1, InStep
<1> HIDE DEF u
<1>5. <<u>> \in Seq(Message) /\ Len(<<u>>) = 1
  BY <1>2
<1>6. PICK j \in 0..Len(<<u>>) : stored' = stored \o SubSeq(<<u>>, 1, j)
  <2> DEFINE ms == <<u>>
  <2>1. ms \in Seq(Message) /\ Len(ms) > 0 /\ Store(MessageEntries(lastParent, ms))
    BY <1>3, <1>5
  <2> HIDE DEF ms
  <2>2. Prolongs(stored', stored, ms)
    BY <1>1, <2>1, StorePart
  <2> QED
    BY <2>2 DEF Prolongs, ms
<1>7. SubSeq(<<u>>, 1, j) \in Seq(Message)
  <2>1. <<u>> \in Seq(Message) /\ j \in 0..Len(<<u>>)
    BY <1>5, <1>6
  <2> QED
    BY ONLY <2>1
<1>8. Starts(stored, stored')
  <2> DEFINE t == SubSeq(<<u>>, 1, j)
  <2>1. t \in Seq(Message) /\ stored' = stored \o t
    BY <1>6, <1>7
  <2> HIDE DEF t
  <2> QED
    BY <2>1, <1>4, StartsJoin
<1>9. Starts(live, live')
  BY <1>2, <1>3, <1>4 DEF Starts
<1>10. up' \in BOOLEAN /\ live' \in Seq(Message) /\ (up' /\ ~unwound => live' = stored')
  BY <1>1 DEF Core, TypeOK, SettledDurable
<1>11. up' /\ ~unwound => Starts(stored', live')
  BY <1>10, StartsSame
<1> QED
  BY <1>1, <1>8, <1>9, <1>10, <1>11, SaveTracks

LEMMA OtherTracks ==
    ASSUME Core, Core', OrderInv, OrderInv', SavedInOrder', Other PROVE Tracks
<1>1. CASE Load
  BY <1>1, LoadTracks
<1>2. CASE TerminalCommand
  BY <1>2, TerminalTracks
<1>3. CASE StoreMeta
  <2>1. up /\ live' = live /\ unwound' = unwound
    BY <1>3 DEF StoreMeta, history
  <2>2. up = TRUE /\ up' \in BOOLEAN
    BY <2>1 DEF Core, TypeOK
  <2>3. stored' = stored
    BY <1>3, <2>1, MetaStored
  <2>4. Starts(live, live) /\ (~unwound => Starts(stored, live)) /\ stored \in Seq(Message)
    BY <2>1, InStep
  <2>5. Starts(stored, stored)
    BY <2>4, StartsSame
  <2> QED
    BY <2>1, <2>2, <2>3, <2>4, <2>5, SaveTracks
<1>4. CASE Cancel
  <2>1. up /\ UNCHANGED <<disk, up, live, unwound>>
    BY <1>4 DEF Cancel, history
  <2>2. up = TRUE /\ Starts(live, live)
    BY <2>1, InStep
  <2> QED
    BY <2>1, <2>2, GrowTracks DEF disk
<1>5. CASE CancelTask
  <2>1. up /\ UNCHANGED <<disk, up>> /\ unwound' = TRUE /\ live' \in {live, Repaired(live)}
    BY <1>5 DEF CancelTask
  <2>2. up' = TRUE /\ Starts(live, live) /\ live \in Seq(Message)
    BY <2>1, InStep
  <2>3. Starts(live, Repaired(live))
    BY <2>2, RepairedTyped DEF Starts
  <2>4. Abstract!Unwind
    BY <2>1, <2>2, <2>3, UnwindMaps DEF disk
  <2> QED
    BY <2>4 DEF Tracks, Abstract!Next
<1>6. CASE Crash
  <2>1. Abstract!Crash
    BY <1>6, CrashMaps DEF Crash, disk, history
  <2> QED
    BY <2>1 DEF Tracks, Abstract!Next
<1> QED
  BY <1>1, <1>2, <1>3, <1>4, <1>5, <1>6 DEF Other

LEMMA NextTracks ==
    ASSUME Core, Core', OrderInv, OrderInv', SavedInOrder', [Next]_vars PROVE Tracks
<1>1. CASE UNCHANGED vars
  <2>1. UNCHANGED <<up, Memory, stored, unwound>>
    BY <1>1 DEF vars, disk, Memory, history
  <2> QED
    BY <2>1 DEF Tracks
<1> QED
  BY <1>1, RunStepTracks, RewritingTracks, OtherTracks DEF Next

\* Every step of a session is one of the saved transcript or none, whatever is
\* compacted, branched, cancelled, cut short by a crash or repaired by a load
\* (_persist_messages_since, _append_compaction, branch_to_entry, load).
THEOREM SessionImplements == Spec => SavesTranscript
<1>1. Init => Abstract!Init
  BY InitMaps
<1>2. /\ Core /\ OrderInv /\ SavedInOrder /\ [Next]_vars /\ (Core /\ OrderInv /\ SavedInOrder)'
      => [Abstract!Next]_<<up, IF up THEN live ELSE <<>>, stored, unwound>>
  <2> SUFFICES ASSUME Core, OrderInv, [Next]_vars, Core', OrderInv', SavedInOrder'
               PROVE  Tracks
    BY DEF Tracks, Memory
  <2> QED
    BY NextTracks
<1> QED
  BY <1>1, <1>2, OrderAlways, PTL DEF Spec, SavesTranscript, Abstract!Spec
-----------------------------------------------------------------------------
(* No rewrite leaves a result before its call.                             *)

\* The candidates of a compaction never leave a result right behind the cut.
LEMMA CutAtClean ==
    ASSUME NEW rs, Len(rs) \in Nat, NEW candidate \in 1..Len(rs),
           CutAt(rs, candidate) > 0, CutAt(rs, candidate) < Len(rs)
    PROVE  rs[CutAt(rs, candidate) + 1].message.kind # "result"
<1> DEFINE isUser == rs[candidate].message.kind = "user"
           after == {i \in candidate + 1..Len(rs) : rs[i].message.kind = "user"}
           nextUser == NextUser(rs, candidate + 1)
           kept == {i \in candidate..Len(rs) : rs[i].message.kind # "result"}
           first == CHOOSE i \in kept : \A j \in kept : i <= j
<1>1. nextUser = IF after = {} THEN 0 ELSE CHOOSE i \in after : \A j \in after : i <= j
  BY DEF NextUser
<1>2. after \subseteq Nat /\ kept \subseteq Nat
  OBVIOUS
<1>3. after # {} => nextUser \in after
  <2> HIDE DEF after, nextUser
  <2>1. after # {} => \E i \in after : \A j \in after : i <= j
    BY <1>2, Least
  <2> QED
    BY <2>1, <1>1
<1>4. kept # {} => first \in kept
  <2> HIDE DEF kept
  <2>1. kept # {} => \E i \in kept : \A j \in kept : i <= j
    BY <1>2, Least
  <2> QED
    BY <2>1
<1>5. CutAt(rs, candidate) =
         CASE isUser /\ candidate > 1                   -> candidate - 1
           [] ~(isUser /\ candidate > 1) /\ nextUser > 0 -> nextUser - 1
           [] isUser /\ candidate = 1 /\ nextUser = 0     -> 0
           [] ~isUser /\ nextUser = 0 /\ kept = {}        -> Len(rs)
           [] OTHER -> first - 1
  BY DEF CutAt
<1>6. nextUser > 0 => nextUser \in Nat /\ rs[nextUser].message.kind = "user"
  BY <1>1, <1>3
<1>7. kept # {} => first \in Nat /\ rs[first].message.kind # "result"
  BY <1>4
<1>8. isUser <=> rs[candidate].message.kind = "user"
  OBVIOUS
<1>9. nextUser \in Nat
  BY <1>1, <1>3
<1> HIDE DEF isUser, nextUser, kept, first
<1>10. CASE isUser /\ candidate > 1
  <2>1. CutAt(rs, candidate) + 1 = candidate
    BY <1>5, <1>10
  <2> QED
    BY <2>1, <1>8, <1>10
<1>11. CASE ~(isUser /\ candidate > 1) /\ nextUser > 0
  <2>1. CutAt(rs, candidate) = nextUser - 1
    BY <1>5, <1>11
  <2>2. CutAt(rs, candidate) + 1 = nextUser
    BY <2>1, <1>9
  <2> QED
    BY <2>2, <1>6, <1>11
<1>12. CASE isUser /\ candidate = 1 /\ nextUser = 0
  BY <1>5, <1>12
<1>13. CASE ~isUser /\ nextUser = 0 /\ kept = {}
  BY <1>5, <1>13
<1>14. CASE ~isUser /\ nextUser = 0 /\ kept # {}
  <2>1. CutAt(rs, candidate) = first - 1
    BY <1>5, <1>14
  <2>2. CutAt(rs, candidate) + 1 = first
    BY <2>1, <1>7, <1>14
  <2> QED
    BY <2>2, <1>7, <1>14
<1>15. nextUser > 0 \/ nextUser = 0
  BY <1>9
<1>16. candidate > 1 \/ candidate = 1
  OBVIOUS
<1> QED
  BY <1>10, <1>11, <1>12, <1>13, <1>14, <1>15, <1>16

\* The rows of a transcript have different entries.
LEMMA RowsApart ==
    ASSUME Core, OrderInv, up
    PROVE  /\ ContextRows \in Seq(RowsTo(lastParent)) /\ Len(ContextRows) \in Nat
           /\ \A k, l \in 1..Len(ContextRows) : ContextRows[k].id = ContextRows[l].id => k = l
<1>1. /\ Base \in Seq(Entry) /\ IsTree(Base) /\ FileInOrder(Base) /\ lastParent \in 0..Len(Base)
  BY There
<1>2. ContextRows \in Seq(RowsTo(lastParent)) /\ Len(ContextRows) \in Nat
  BY Here
<1>3. RowsAscend(Base, lastParent)
  BY <1>1, RowShapes DEF RowShape
<1>4. \A k, l \in 1..Len(ContextRows) : k < l => ContextRows[k].id # ContextRows[l].id
  BY <1>3 DEF RowsAscend, ContextRows
<1>5. \A k, l \in 1..Len(ContextRows) : k < l \/ l < k \/ k = l
  BY <1>2
<1> QED
  BY <1>2, <1>4, <1>5

LEMMA PlansClean ==
    ASSUME Core, OrderInv, up, NEW ids \in Plans(ContextRows)
    PROVE  CleanCut(ContextRows, ids)
<1> DEFINE rs == ContextRows
<1>1. Len(rs) \in Nat /\ \A k, l \in 1..Len(rs) : rs[k].id = rs[l].id => k = l
  BY RowsApart
<1>2. PICK c \in 1..Len(rs) : CutAt(rs, c) > 0 /\ ids = {rs[i].id : i \in 1..CutAt(rs, c)}
  BY DEF Plans
<1> DEFINE n == CutAt(rs, c)
<1>3. n \in Int /\ n <= Len(rs) /\ n > 0
  BY <1>1, <1>2, CutAtType
<1>4. n < Len(rs) => rs[n + 1].message.kind # "result"
  BY <1>1, <1>2, CutAtClean
<1>5. ids = {rs[i].id : i \in 1..n}
  BY <1>2
<1> HIDE DEF n, rs
<1>6. ASSUME NEW k \in 2..Len(rs), rs[k - 1].id \in ids, rs[k].id \notin ids
      PROVE  rs[k].message.kind # "result"
  <2>1. PICK i \in 1..n : rs[k - 1].id = rs[i].id
    BY <1>5, <1>6
  <2>2. i \in 1..Len(rs) /\ k - 1 \in 1..Len(rs) /\ k \in 1..Len(rs)
    BY <1>1, <1>3
  <2>3. k - 1 = i
    BY <1>1, <2>1, <2>2
  <2>4. k \notin 1..n
    BY <1>5, <1>6
  <2>5. k = n + 1 /\ n < Len(rs)
    BY <2>2, <2>3, <2>4, <1>1, <1>3
  <2> QED
    BY <2>5, <1>4
<1> QED
  BY <1>6 DEF CleanCut, rs

\* An entry and its leaf are stored: the active branch stays, or the entry joins it.
LEMMA PairStored ==
    ASSUME Core, up, NEW e \in Entry, e.parent \in 0..Len(Base), e.type # "leaf",
           NEW t, t = Len(Base) + 1, NEW es, es = <<e, LeafEntry(t)>>, Store(es)
    PROVE  /\ Base \o es \in Seq(Entry) /\ IsTree(Base \o es) /\ t \in 1..Len(Base \o es)
           /\ (Base \o es)[t] = e /\ \A i \in 0..Len(Base) : Rows(Base \o es, i) = Rows(Base, i)
           /\ e.parent = lastParent => stored' \in {stored, Transcript(Base \o es, t)}
           /\ up' => Base' = Base \o es
<1>1. /\ Base \in Seq(Entry) /\ IsTree(Base) /\ Len(Base) \in Nat
      /\ lastParent \in 0..Len(Base) /\ lastParent = ActiveLeaf(Base)
      /\ Transcript(Base, lastParent) = stored
  BY Here DEF Core, SavedBranch
<1>2. t \in 0..Len(Base) + 1 /\ t \in Nat
  BY <1>1
<1>3. Fits(Len(Base), es) /\ Len(es) = 2 /\ es[2] = LeafEntry(t) /\ es[1] = e
  BY <1>1, <1>2, PairFits
<1>4. PICK n \in 0..2 : file' = Base \o SubSeq(es, 1, n) /\ stored' = Saved(file')
  BY <1>3 DEF Store
<1> DEFINE ep == SubSeq(es, 1, n)
           h == Base \o ep
           g == Base \o es
<1>5. Fits(Len(Base), ep) /\ Len(ep) = n /\ \A k \in 1..n : ep[k] = es[k]
  <2>1. n \in 0..Len(es) /\ es \in Seq(Entry) /\ n \in Nat
    BY <1>3 DEF Fits
  <2>2. Fits(Len(Base), ep) /\ Len(ep) = n
    BY ONLY <1>1, <1>3, <2>1, FitsPrefix DEF ep
  <2>3. \A k \in 1..n : ep[k] = es[k]
    BY ONLY <2>1 DEF ep
  <2> QED
    BY <2>2, <2>3
<1>6. file' = h
  BY <1>4
<1> HIDE DEF ep
<1>7. /\ h \in Seq(Entry) /\ IsTree(h) /\ Len(h) = Len(Base) + n
      /\ \A i \in 1..Len(Base) : h[i] = Base[i]
      /\ \A k \in 1..n : h[Len(Base) + k] = es[k]
  <2>1. /\ h \in Seq(Entry) /\ IsTree(h) /\ Len(h) = Len(Base) + Len(ep)
        /\ \A i \in 1..Len(Base) : h[i] = Base[i]
        /\ \A k \in 1..Len(ep) : h[Len(Base) + k] = ep[k]
    BY ONLY <1>1, <1>5, TreeConcat
  <2> HIDE DEF h
  <2> QED
    BY <2>1, <1>5
<1>8. /\ g \in Seq(Entry) /\ IsTree(g) /\ Len(g) = Len(Base) + 2
      /\ \A i \in 1..Len(Base) : g[i] = Base[i]
      /\ g[t] = e
  <2>1. /\ g \in Seq(Entry) /\ IsTree(g) /\ Len(g) = Len(Base) + Len(es)
        /\ \A i \in 1..Len(Base) : g[i] = Base[i]
        /\ \A k \in 1..Len(es) : g[Len(Base) + k] = es[k]
    <3>1. Base \in Seq(Entry) /\ IsTree(Base) /\ Fits(Len(Base), es)
      BY <1>1, <1>3
    <3> QED
      BY ONLY <3>1, TreeConcat
  <2>2. 1 \in 1..Len(es)
    BY <1>3
  <2> HIDE DEF g
  <2> QED
    BY <2>1, <2>2, <1>3
<1> HIDE DEF h, g
<1>9. Continues(Base, h) /\ Continues(Base, g)
  BY <1>1, <1>7, <1>8 DEF Continues
<1>10. /\ \A i \in 0..Len(Base) : Rows(h, i) = Rows(Base, i)
       /\ \A i \in 0..Len(Base) : Rows(g, i) = Rows(Base, i)
  BY <1>9, RowsPrefix DEF Continues
<1>11. n > 0 => Rows(h, t) = Rows(g, t)
  <2> SUFFICES ASSUME n > 0 PROVE Rows(h, t) = Rows(g, t)
    OBVIOUS
  <2>1. t \in 1..Len(h) /\ t \in 1..Len(g) /\ 1 \in 1..n
    BY <1>1, <1>7, <1>8
  <2>2. h[t] = e
    BY <2>1, <1>3, <1>7
  <2>3. Rows(h, t) = Extended(Rows(h, e.parent), t, e)
    BY <2>1, <2>2, <1>7, ReplaySteps
  <2>4. Rows(g, t) = Extended(Rows(g, e.parent), t, e)
    BY <2>1, <1>8, ReplaySteps
  <2> QED
    BY <2>3, <2>4, <1>10
<1>12. e.parent = lastParent => stored' \in {stored, Transcript(g, t)}
  <2>1. ActiveLeaf(h) = lastParent \/ (n > 0 /\ ActiveLeaf(h) = t)
    <3>1. CASE n = 2
      <4>1. Len(h) > 0 /\ 2 \in 1..n /\ Len(h) = Len(Base) + 2
        BY <3>1, <1>1, <1>7
      <4>2. h[Len(h)] = LeafEntry(t)
        BY <4>1, <1>3, <1>7
      <4>3. ActiveLeaf(h) = h[Len(h)].target /\ h[Len(h)].target = t
        BY <4>1, <4>2, <1>7, LastLeaf DEF LeafEntry
      <4> QED
        BY <3>1, <4>3
    <3>2. CASE n # 2
      <4>1. \A i \in Len(Base) + 1..Len(h) : h[i].type # "leaf"
        <5> SUFFICES ASSUME NEW i \in Len(Base) + 1..Len(h) PROVE h[i].type # "leaf"
          OBVIOUS
        <5>1. i = Len(Base) + 1 /\ 1 \in 1..n
          BY <3>2, <1>1, <1>7
        <5>2. h[i] = e
          BY <5>1, <1>3, <1>7
        <5> QED
          BY <5>2
      <4>2. /\ HasLeaf(Base) => ActiveLeaf(h) = lastParent
            /\ ~HasLeaf(Base) => ActiveLeaf(h) = Len(h) /\ lastParent = Len(Base)
        BY <4>1, <1>1, <1>9, LeafStays
      <4>3. n = 0 \/ n = 1
        BY <3>2
      <4> QED
        BY <4>2, <4>3, <1>1, <1>7
    <3> QED
      BY <3>1, <3>2
  <2> QED
    BY <2>1, <1>1, <1>4, <1>6, <1>10, <1>11 DEF Saved, Transcript
<1>13. up' => Base' = g
  <2>1. file \in Seq(Entry) /\ IsTree(file) /\ crashes \in Nat
    BY DEF Core, TypeOK
  <2>2. Len(es) > 0 /\ es[Len(es)] = LeafEntry(t)
    BY <1>3
  <2>3. up' => file' = Base \o es /\ Base' = file'
    BY <2>1, <2>2, <1>3, StoreProperties
  <2> QED
    BY <2>3 DEF g
<1>14. t \in 1..Len(g)
  BY <1>1, <1>8
<1> QED
  BY <1>8, <1>10, <1>12, <1>13, <1>14 DEF g

\* A message that is stored is one more row of the transcript.
LEMMA TerminalRows ==
    ASSUME Core, up, NEW u \in Message, Store(MessageEntries(lastParent, <<u>>)),
           lastParent' = Len(Base) + 1, up'
    PROVE  /\ Len(ContextRows) \in Nat /\ Len(ContextRows') = Len(ContextRows) + 1
           /\ \A k \in 1..Len(ContextRows) : ContextRows'[k] = ContextRows[k]
           /\ ContextRows'[Len(ContextRows) + 1].message = u
<1> DEFINE ms == <<u>>
<1>1. /\ Base \in Seq(Entry) /\ IsTree(Base) /\ Len(Base) \in Nat /\ lastParent \in 0..Len(Base)
      /\ ContextRows \in Seq(RowsTo(lastParent))
  BY Here
<1>2. /\ ms \in Seq(Message) /\ Len(ms) = 1 /\ ms[1] = u
  OBVIOUS
<1>3. Store(MessageEntries(lastParent, ms))
  OBVIOUS
<1> HIDE DEF ms
<1> DEFINE node == [j \in 0..Len(ms) |-> IF j = 0 THEN lastParent ELSE Len(Base) + 2 * j - 1]
           b == Burst(Len(Base), lastParent, ms)
           g == Base \o b
<1>4. Chained(Base, g, node, ms)
  BY <1>1, <1>2, BurstChain
<1>5. node[0] = lastParent /\ node[1] = Len(Base) + 1 /\ 1 \in 1..Len(ms) /\ node[1 - 1] = lastParent
  BY <1>1, <1>2
<1> HIDE DEF node
<1>6. /\ g \in Seq(Entry) /\ IsTree(g) /\ Len(Base) <= Len(g) /\ \A i \in 1..Len(Base) : g[i] = Base[i]
  BY <1>4 DEF Chained, Continues
<1>7. /\ Len(Base) + 1 \in 1..Len(g) /\ g[Len(Base) + 1].type = "message"
      /\ g[Len(Base) + 1].parent = lastParent /\ Value(g, Len(Base) + 1) = u
  <2> HIDE DEF g
  <2>1. 1 \in 1..Len(ms)
    BY <1>5
  <2>2. /\ node[1] \in 1..Len(g) /\ g[node[1]].type = "message" /\ g[node[1]].parent = node[1 - 1]
        /\ Value(g, node[1]) = ms[1]
    BY ONLY <1>4, <2>1, ChainLink
  <2> QED
    BY <2>2, <1>2, <1>5
<1>8. Base' = g
  <2>1. MessageEntries(lastParent, ms) = b
    BY DEF MessageEntries, Burst
  <2>2. Store(b)
    BY <1>3, <2>1
  <2>3. /\ Fits(Len(Base), b) /\ Len(b) = 2 * Len(ms) /\ b[2 * Len(ms)] = LeafEntry(Len(Base) + 2 * Len(ms) - 1)
    <3>1. /\ Fits(Len(Base), b) /\ Len(b) = 2 * Len(ms)
          /\ Len(ms) > 0 => b[2 * Len(ms)] = LeafEntry(Len(Base) + 2 * Len(ms) - 1)
      <4>1. Len(Base) \in Nat /\ lastParent \in 0..Len(Base) /\ ms \in Seq(Message)
        BY <1>1, <1>2
      <4> QED
        BY ONLY <4>1, BurstFits
    <3> QED
      BY <3>1, <1>2
  <2> HIDE DEF b, g
  <2>4. Len(b) > 0 /\ b[Len(b)] = LeafEntry(Len(Base) + 1)
    BY <2>3, <1>1, <1>2
  <2>5. file \in Seq(Entry) /\ IsTree(file) /\ crashes \in Nat
    BY DEF Core, TypeOK
  <2>6. file' = Base \o b /\ Base' = file'
    BY <2>2, <2>3, <2>4, <2>5, StoreProperties
  <2> QED
    BY <2>6 DEF g
<1> HIDE DEF g
<1> DEFINE n == Len(Base) + 1
           rs == Rows(g, lastParent)
<1>9. rs = ContextRows
  BY <1>1, <1>6, RowsPrefix DEF ContextRows
<1>10. /\ Len(Rows(g, n)) = Len(rs) + 1
       /\ \A k \in 1..Len(rs) : Rows(g, n)[k] = rs[k]
       /\ Rows(g, n)[Len(rs) + 1] = Row(n, u)
  <2>1. g[n].parent = lastParent /\ g[n].type \in {"message", "branch_summary"} /\ Value(g, n) = u /\ n \in 1..Len(g)
    BY <1>7
  <2>2. LET rr == Rows(g, g[n].parent)
        IN  /\ Len(Rows(g, n)) = Len(rr) + 1
            /\ \A k \in 1..Len(rr) : Rows(g, n)[k] = rr[k]
            /\ Rows(g, n)[Len(rr) + 1] = Row(n, Value(g, n))
    BY ONLY <1>6, <2>1, RowsGrow
  <2> QED
    BY <2>1, <2>2
<1>11. ContextRows' = Rows(g, n)
  BY <1>8 DEF ContextRows
<1> HIDE DEF n, rs
<1> QED
  BY <1>1, <1>9, <1>10, <1>11 DEF Row

\* A setting that is stored is no row of the transcript.
LEMMA MetaRows ==
    ASSUME Core, up, StoreMeta, up' PROVE ContextRows' = ContextRows
<1> DEFINE e == MetaEntry(lastParent)
           t == Len(Base) + 1
           es == <<e, LeafEntry(t)>>
           g == Base \o es
<1>1. Store(es) /\ lastParent' = t
  BY DEF StoreMeta
<1>2. Base \in Seq(Entry) /\ Len(Base) \in Nat /\ lastParent \in 0..Len(Base)
  BY Here
<1>3. e \in Entry /\ e.parent = lastParent /\ e.type = "meta" /\ e.type # "leaf"
  BY <1>2 DEF MetaEntry, Entry
<1> HIDE DEF e
<1>4. /\ g \in Seq(Entry) /\ IsTree(g) /\ t \in 1..Len(g) /\ g[t] = e
      /\ \A i \in 0..Len(Base) : Rows(g, i) = Rows(Base, i)
      /\ Base' = g
  BY <1>1, <1>2, <1>3, PairStored
<1> HIDE DEF g, t
<1>5. Rows(g, t) = Rows(g, lastParent)
  BY <1>3, <1>4, SilentRow
<1> QED
  BY <1>1, <1>2, <1>4, <1>5 DEF ContextRows

LEMMA CleanGrows ==
    ASSUME NEW rs, Len(rs) \in Nat, NEW ids, CleanCut(rs, ids),
           NEW rt, Len(rt) = Len(rs) + 1, \A k \in 1..Len(rs) : rt[k] = rs[k],
           rt[Len(rs) + 1].message.kind # "result"
    PROVE  CleanCut(rt, ids)
<1> SUFFICES ASSUME NEW k \in 2..Len(rt), rt[k - 1].id \in ids, rt[k].id \notin ids
             PROVE  rt[k].message.kind # "result"
  BY DEF CleanCut
<1>1. CASE k = Len(rs) + 1
  BY <1>1
<1>2. CASE k # Len(rs) + 1
  <2>1. k \in 2..Len(rs) /\ k \in 1..Len(rs) /\ k - 1 \in 1..Len(rs)
    BY <1>2
  <2>2. rt[k] = rs[k] /\ rt[k - 1] = rs[k - 1]
    BY <2>1
  <2> QED
    BY <2>1, <2>2 DEF CleanCut
<1> QED
  BY <1>1, <1>2

LEMMA StartPlanClean ==
    ASSUME Core, OrderInv, up, NEW next,
           \/ StartCompaction(Plans(ContextRows), next)
           \/ StartCompaction({{ContextRows[i].id : i \in DOMAIN ContextRows}}, next)
    PROVE  PlanClean'
<1>1. /\ file' = file /\ lastParent' = lastParent
      /\ \/ plan' \in Plans(ContextRows)
         \/ plan' = {ContextRows[i].id : i \in DOMAIN ContextRows}
  BY DEF StartCompaction, disk
<1>2. ContextRows' = ContextRows
  BY <1>1 DEF ContextRows, Base
<1>3. CleanCut(ContextRows, plan')
  <2>1. CASE plan' \in Plans(ContextRows)
    BY <2>1, PlansClean
  <2>2. CASE plan' = {ContextRows[i].id : i \in DOMAIN ContextRows}
    <3>1. DOMAIN ContextRows = 1..Len(ContextRows) /\ Len(ContextRows) \in Nat
      BY Here
    <3> QED
      BY <2>2, <3>1 DEF CleanCut
  <2> QED
    BY <1>1, <2>1, <2>2
<1> QED
  BY <1>2, <1>3 DEF PlanClean

LEMMA NextPlanClean ==
    ASSUME Core, OrderInv, PlanClean, [Next]_vars
    PROVE  PlanClean'
<1> SUFFICES ASSUME up', at' = "summarizing" PROVE PlanClean'
  BY DEF PlanClean
<1>1. then \in {"idle", "prompting", "retrying"} /\ (branch # 0 => at = "idle")
  BY DEF Core, TypeOK, RunShape
<1>2. ASSUME UNCHANGED <<file, up, lastParent, at, plan>> PROVE PlanClean'
  <2>1. ContextRows' = ContextRows
    BY <1>2 DEF ContextRows, Base
  <2> QED
    BY <1>2, <2>1 DEF PlanClean
<1>3. CASE RunStep
  <2>1. CASE Prompt
    <3>1. StartCompaction(Plans(ContextRows), "prompting")
      BY <2>1 DEF Prompt
    <3>2. up
      BY <2>1 DEF Prompt
    <3> QED
      BY <3>1, <3>2, StartPlanClean
  <2>2. CASE Overflowed
    <3>1. StartCompaction(Plans(ContextRows), "retrying") /\ up
      BY <2>2 DEF Overflowed, Settled
    <3> QED
      BY <3>1, StartPlanClean
  <2>3. CASE Settle
    <3>1. StartCompaction(Plans(ContextRows), "idle") /\ up
      BY <2>3 DEF Settle, Settled
    <3> QED
      BY <3>1, StartPlanClean
  <2>4. CASE StartPrompt \/ Continue \/ Retry
    BY <2>4 DEF StartPrompt, Continue, Retry, StartRun
  <2>5. CASE UserMessageEnd \/ ReplyEnd \/ AppendReply \/ ResultEnd \/ AppendResult
    BY <2>5 DEF UserMessageEnd, ReplyEnd, AppendReply, ResultEnd, AppendResult
  <2>6. CASE TurnEnd \/ Close
    BY <2>6 DEF TurnEnd, Close
  <2> QED
    BY <1>3, <2>1, <2>2, <2>3, <2>4, <2>5, <2>6 DEF RunStep
<1>4. CASE Rewriting
  <2>1. CASE Compact
    <3>1. StartCompaction({{ContextRows[i].id : i \in DOMAIN ContextRows}}, "idle") /\ up
      BY <2>1 DEF Compact
    <3> QED
      BY <3>1, StartPlanClean
  <2>2. CASE FinishCompaction \/ AbandonCompaction
    BY <2>2, <1>1 DEF FinishCompaction, AbandonCompaction
  <2>3. CASE Branch \/ StartBranchSummary
    BY <2>3 DEF Branch, StartBranchSummary
  <2>4. CASE FinishBranchSummary \/ AbandonBranch
    BY <2>4, <1>1 DEF FinishBranchSummary, AbandonBranch
  <2> QED
    BY <1>4, <2>1, <2>2, <2>3, <2>4 DEF Rewriting
<1>5. CASE Other
  <2>1. CASE Load
    BY <2>1 DEF Load
  <2>2. CASE TerminalCommand
    <3> DEFINE u == User(users + 1)
    <3>1. /\ up /\ at = "summarizing" /\ plan' = plan /\ lastParent' = Len(Base) + 1
          /\ Store(MessageEntries(lastParent, <<u>>))
      BY <2>2 DEF TerminalCommand
    <3>2. u \in Message /\ u.kind # "result"
      BY <3>1, FreshUser
    <3> HIDE DEF u
    <3>3. /\ Len(ContextRows) \in Nat /\ Len(ContextRows') = Len(ContextRows) + 1
          /\ \A k \in 1..Len(ContextRows) : ContextRows'[k] = ContextRows[k]
          /\ ContextRows'[Len(ContextRows) + 1].message = u
      BY <3>1, <3>2, TerminalRows
    <3>4. CleanCut(ContextRows, plan)
      BY <3>1 DEF PlanClean
    <3>5. CleanCut(ContextRows', plan)
      BY <3>2, <3>3, <3>4, CleanGrows
    <3> QED
      BY <3>1, <3>5 DEF PlanClean
  <2>3. CASE StoreMeta
    <3>1. up /\ at = "summarizing" /\ plan' = plan
      BY <2>3 DEF StoreMeta
    <3>2. ContextRows' = ContextRows
      BY <2>3, <3>1, MetaRows
    <3> QED
      BY <3>1, <3>2 DEF PlanClean
  <2>4. CASE Cancel \/ CancelTask \/ Crash
    BY <2>4 DEF Cancel, CancelTask, Crash, RunPlaces
  <2> QED
    BY <1>5, <2>1, <2>2, <2>3, <2>4 DEF Other
<1>6. CASE UNCHANGED vars
  BY <1>2, <1>6 DEF vars, disk
<1> QED
  BY <1>3, <1>4, <1>5, <1>6 DEF Next

\* A result without its call is loose.
LEMMA OrphansLoose ==
    ASSUME NEW s PROVE Orphans(s) \subseteq LooseResults(s)
  BY DEF Orphans, LooseResults, Orphaned, Loose

\* A cut that is not followed by a result leaves each result behind its call that
\* was not loose.
LEMMA CutPairs ==
    ASSUME NEW s \in Seq(Message), NEW n \in 1..Len(s),
           n < Len(s) => s[n + 1].kind # "result",
           NEW t \in Seq(Message), Len(t) = Len(s) - n + 1, t[1].kind # "result",
           \A k \in 2..Len(t) : t[k] = s[k + n - 1]
    PROVE  Orphans(t) \subseteq LooseResults(s)
<1> SUFFICES ASSUME NEW k \in DOMAIN t, Orphaned(t, k)
             PROVE  t[k].call \in LooseResults(s)
  BY DEF Orphans
<1>0. t[k].kind = "result" /\ \A j \in 1..k - 1 : t[k].call \notin CallsOf(t[j])
  BY DEF Orphaned
<1>1. Len(s) \in Nat /\ Len(t) \in Nat /\ k \in 1..Len(t) /\ n \in Nat
  OBVIOUS
<1>2. k # 1
  BY <1>0
<1>3. k \in 2..Len(t)
  BY <1>1, <1>2
<1> DEFINE i == k + n - 1
<1>4. i \in 1..Len(s) /\ i > n /\ i \in DOMAIN s
  BY <1>1, <1>3
<1>5. t[k] = s[i]
  BY <1>3
<1> SUFFICES ASSUME ~Loose(s, i) PROVE FALSE
  BY <1>4, <1>5 DEF LooseResults
<1>6. PICK j \in 1..i - 1 : s[i].call \in CallsOf(s[j]) /\ \A l \in j + 1..i : s[l].kind = "result"
  BY <1>0, <1>5 DEF Loose
<1>10. /\ j \in Nat /\ i \in Nat /\ n \in Nat /\ k \in Nat /\ 1 <= j /\ j < i /\ n < i /\ i <= Len(s)
       /\ i = k + n - 1 /\ Len(s) \in Nat /\ Len(t) = Len(s) - n + 1
  <2>1. /\ k \in Nat /\ n \in Nat /\ i = k + n - 1 /\ Len(s) \in Nat /\ Len(t) = Len(s) - n + 1
        /\ j \in 1..i - 1 /\ n < i /\ i \in 1..Len(s)
    BY <1>1, <1>4, <1>6
  <2> HIDE DEF i
  <2> QED
    BY ONLY <2>1
<1> HIDE DEF i
<1>7. j > n
  <2> SUFFICES ASSUME ~(j > n) PROVE FALSE
    OBVIOUS
  <2>0. ~(j > n)
    OBVIOUS
  <2>1. n + 1 \in j + 1..i /\ n < Len(s)
    BY ONLY <1>10, <2>0
  <2> QED
    BY <2>1, <1>6
<1> DEFINE l == j - n + 1
<1>8. l \in 2..Len(t) /\ l \in 1..k - 1 /\ l + n - 1 = j
  BY ONLY <1>10, <1>7
<1>9. t[l] = s[j]
  BY <1>8
<1> QED
  BY <1>0, <1>5, <1>6, <1>8, <1>9

LEMMA FinishPairs ==
    ASSUME Core, OrderInv, PlanClean, FinishCompaction
    PROVE  Orphans(stored') \subseteq LooseResults(stored)
<1> DEFINE e == CompactionEntry(lastParent, plan)
           t == Len(Base) + 1
           es == <<e, LeafEntry(t)>>
           g == Base \o es
           rs == ContextRows
<1>1. up /\ at = "summarizing" /\ Store(es)
  BY DEF FinishCompaction
<1>2. /\ Base \in Seq(Entry) /\ IsTree(Base) /\ FileInOrder(Base) /\ Len(Base) \in Nat
      /\ lastParent \in 0..Len(Base) /\ stored = Transcript(Base, lastParent) /\ stored \in Seq(Message)
  BY <1>1, There
<1>3. FirstRows(rs, plan) /\ CleanCut(rs, plan) /\ plan \subseteq Nat
  <2>1. plan \subseteq DOMAIN file /\ file \in Seq(Entry)
    BY DEF Core, TypeOK
  <2>2. plan \subseteq Nat
    BY <2>1
  <2> QED
    BY <1>1, <2>2 DEF OrderInv, LiveInOrder, PlanClean
<1>4. PICK n \in 1..Len(rs) : plan = {rs[k].id : k \in 1..n}
  BY <1>3 DEF FirstRows
<1>5. /\ rs \in Seq(RowsTo(lastParent)) /\ Len(rs) \in Nat
      /\ \A k, l \in 1..Len(rs) : rs[k].id = rs[l].id => k = l
  BY <1>1, RowsApart
<1>6. /\ Len(stored) = Len(rs) /\ \A k \in 1..Len(rs) : stored[k] = rs[k].message
  <2>1. stored = Messages(rs)
    BY <1>2 DEF Transcript, ContextRows
  <2> QED
    BY <2>1, <1>5, MessagesTyped
<1>7. e \in Entry /\ e.parent = lastParent /\ e.type = "compaction" /\ e.replaces = plan
      /\ e.type # "leaf" /\ e.type # "message"
  BY <1>2, <1>3 DEF CompactionEntry, Entry
<1> HIDE DEF e
<1>8. /\ g \in Seq(Entry) /\ IsTree(g) /\ t \in 1..Len(g) /\ g[t] = e
      /\ \A i \in 0..Len(Base) : Rows(g, i) = Rows(Base, i)
      /\ stored' \in {stored, Transcript(g, t)}
  <2>1. up /\ Store(es) /\ e \in Entry /\ e.parent \in 0..Len(Base) /\ e.type # "leaf" /\ e.parent = lastParent
    BY <1>1, <1>2, <1>7
  <2> QED
    BY ONLY Core, <2>1, PairStored
<1>9. FileInOrder(g)
  <2>1. t \in 0..Len(Base) + 1 /\ t \in Nat
    BY <1>2
  <2>2. Fits(Len(Base), es)
    BY <2>1, <1>2, <1>7, PairFits
  <2>3. e.type = "compaction" => FirstRows(Rows(Base, e.parent), e.replaces)
    BY <1>3, <1>7 DEF ContextRows
  <2>4. Adds(Base, g, {})
    BY <2>2, <2>3, <1>2, <1>7, PairAdds
  <2> QED
    BY <2>4 DEF Adds
<1> HIDE DEF g, t, rs
<1>10. Rows(g, lastParent) = rs
  BY <1>2, <1>8 DEF rs, ContextRows
<1>11. RowShape(g, lastParent)
  <2>1. g[t].parent \in 0..Len(g)
    BY <1>8, RowsGrow
  <2> QED
    BY <2>1, <1>7, <1>8, <1>9, RowShapes
<1> DEFINE T == Transcript(g, t)
           R == Rows(g, t)
<1>12. /\ Len(R) = Len(rs) - n + 1 /\ R[1] = Row(t, Value(g, t))
       /\ \A k \in 2..Len(R) : R[k] = rs[k + n - 1]
  <2>1. /\ g[t].type = "compaction" /\ g[t].parent = lastParent /\ g[t].replaces = plan
    BY <1>7, <1>8
  <2>2. RowShape(g, g[t].parent) /\ n \in 1..Len(Rows(g, g[t].parent))
        /\ g[t].replaces = {Rows(g, g[t].parent)[k].id : k \in 1..n}
    BY <2>1, <1>4, <1>10, <1>11
  <2>3. /\ Len(R) = Len(Rows(g, g[t].parent)) - n + 1
        /\ R[1] = Row(t, Value(g, t))
        /\ \A k \in 2..Len(R) : R[k] = Rows(g, g[t].parent)[k + n - 1]
    BY <2>1, <2>2, <1>8, CompactionRows
  <2> QED
    BY <2>1, <2>3, <1>10
<1>13. /\ T \in Seq(Message) /\ Len(T) = Len(R) /\ Len(T) \in Nat /\ \A k \in 1..Len(R) : T[k] = R[k].message
  <2>1. R \in Seq(RowsTo(t))
    BY <1>8, RowsTyped
  <2>2. T = Messages(R)
    BY DEF Transcript
  <2> HIDE DEF R
  <2> QED
    BY <2>1, <2>2, MessagesTyped
<1> HIDE DEF T, R
<1>14. T[1].kind # "result"
  <2>1. 1 \in 1..Len(R)
    BY <1>4, <1>5, <1>12
  <2>2. T[1] = Value(g, t) /\ Value(g, t) = Summary(t)
    <3>1. R[1].message = Value(g, t) /\ T[1] = R[1].message
      BY <2>1, <1>12, <1>13 DEF Row
    <3>2. Value(g, t) = Summary(t)
      BY <1>7, <1>8 DEF Value
    <3> QED
      BY <3>1, <3>2
  <2> QED
    BY <2>2, Kinds
<1>15. \A k \in 2..Len(T) : T[k] = stored[k + n - 1]
  <2> SUFFICES ASSUME NEW k \in 2..Len(T) PROVE T[k] = stored[k + n - 1]
    OBVIOUS
  <2>1. k \in 2..Len(R) /\ k \in 1..Len(R) /\ k + n - 1 \in 1..Len(rs)
    BY <1>4, <1>5, <1>12, <1>13
  <2> QED
    BY <2>1, <1>6, <1>12, <1>13
<1>16. n < Len(stored) => stored[n + 1].kind # "result"
  <2> SUFFICES ASSUME n < Len(stored) PROVE stored[n + 1].kind # "result"
    OBVIOUS
  <2>1. n + 1 \in 2..Len(rs) /\ n + 1 \in 1..Len(rs) /\ n \in 1..Len(rs) /\ n \in 1..n /\ n + 1 - 1 = n
    BY <1>4, <1>5, <1>6
  <2>2. rs[n].id \in plan
    BY <2>1, <1>4
  <2>3. rs[n + 1].id \notin plan
    <3> SUFFICES ASSUME rs[n + 1].id \in plan PROVE FALSE
      OBVIOUS
    <3>1. PICK k \in 1..n : rs[n + 1].id = rs[k].id
      BY <1>4
    <3>2. k \in 1..Len(rs)
      BY <2>1
    <3>3. n + 1 = k
      BY <3>1, <3>2, <2>1, <1>5
    <3> QED
      BY <3>3, <2>1
  <2>4. rs[n + 1].message.kind # "result"
    BY <2>1, <2>2, <2>3, <1>3 DEF CleanCut
  <2> QED
    BY <2>1, <2>4, <1>6
<1>17. Orphans(T) \subseteq LooseResults(stored)
  <2>1. n \in 1..Len(stored) /\ Len(T) = Len(stored) - n + 1
    BY <1>4, <1>6, <1>12, <1>13
  <2> QED
    BY <2>1, <1>2, <1>13, <1>14, <1>15, <1>16, CutPairs
<1>18. Orphans(stored) \subseteq LooseResults(stored)
  BY OrphansLoose
<1> QED
  BY <1>8, <1>17, <1>18 DEF T

\* A repair puts no result before its call.
LEMMA RecoversPairs ==
    ASSUME NEW f, NEW g, NEW end, NEW s \in Seq(Message), NEW new, NEW same, NEW w, NEW node, NEW h, NEW d,
           Recovers(f, g, end, s, new, same, w, node, h, d)
    PROVE  Orphans(Transcript(g, end)) \subseteq Orphans(Transcript(f, node[0])) \cup Orphans(s)
<1> DEFINE old == Transcript(f, node[0])
           t == Transcript(g, end)
<1>0. RepairPlaces(s, new, same, w, h, d, old, t)
  BY RecoversPlaces
<1> HIDE DEF old, t
<1>1. /\ t \in Seq(Message) /\ Len(t) = Len(new) + d /\ Len(old) = same + d
      /\ Len(new) \in Nat /\ same \in Nat /\ same < Len(new) /\ d \in Nat
      /\ \A k \in 1..same + d : t[k] = old[k]
      /\ \A p \in h + 1..Len(new) : p + d \in 1..Len(t) /\ t[p + d] = new[p]
      /\ h \in 0..1 /\ (h = 1 => IsSummary(s[1])) /\ same \in 1..Len(s) /\ Len(s) \in Nat
      /\ \A i \in 1..Len(s) : /\ w[i] \in 1..Len(new) /\ new[w[i]] = s[i]
                              /\ h < i => w[i] \in h + 1..Len(new)
      /\ \A i, j \in 1..Len(s) : i < j => w[i] < w[j]
  BY <1>0 DEF RepairPlaces
<1>2. /\ \A i \in 1..same : w[i] = i
      /\ \A p \in 1..Len(new) :
            \/ \E i \in 1..Len(s) : p = w[i]
            \/ \E i \in 1..Len(s) : /\ w[i] < p
                                    /\ \E c \in CallsOf(s[i]) \cap Open(s) : new[p] = Result(c)
  BY DEF Recovers, Woven
<1>4. ASSUME NEW j \in 1..Len(s), NEW c \in CallsOf(s[j])
      PROVE  w[j] \in h + 1..Len(new) /\ w[j] + d \in 1..Len(t) /\ t[w[j] + d] = s[j]
  <2>1. ~IsSummary(s[j])
    <3>1. s[j].kind = "assistant" /\ s[j] \in Message
      BY DEF CallsOf
    <3> QED
      <4>1. s[j] \in AssistantMessages
        BY <3>1 DEF Message, UserMessages, ResultMessages
      <4>2. DOMAIN s[j] = {"kind", "id", "calls", "stop"}
        BY <4>1 DEF AssistantMessages
      <4> QED
        BY <4>2 DEF IsSummary
  <2>2. h < j
    BY <2>1, <1>1
  <2> QED
    BY <2>2, <1>1
<1> SUFFICES ASSUME NEW k \in DOMAIN t, Orphaned(t, k)
             PROVE  t[k].call \in Orphans(old) \cup Orphans(s)
  BY DEF Orphans, old, t
<1>3. t[k].kind = "result" /\ \A j \in 1..k - 1 : t[k].call \notin CallsOf(t[j])
  BY DEF Orphaned
<1>5. k \in 1..Len(t) /\ k \in Nat
  BY <1>1
<1>6. CASE k <= same + d
  <2>1. k \in 1..same + d /\ t[k] = old[k] /\ k \in DOMAIN old
    <3>1. old \in Seq(Message) \/ DOMAIN old = 1..Len(old)
      BY DEF old, Transcript, Messages
    <3> QED
      BY <3>1, <1>1, <1>5, <1>6
  <2>2. ASSUME NEW j \in 1..k - 1 PROVE old[k].call \notin CallsOf(old[j])
    <3>1. j \in 1..same + d
      BY <2>1, <1>1
    <3>2. t[j] = old[j]
      BY <3>1, <1>1
    <3> QED
      BY <2>1, <3>2, <1>3
  <2> QED
    BY <2>1, <2>2, <1>3 DEF Orphans, Orphaned
<1>7. CASE k > same + d
  <2> DEFINE p == k - d
  <2>1. p \in 1..Len(new) /\ p \in h + 1..Len(new) /\ p + d = k /\ p > same /\ p \in Nat
    BY <1>1, <1>5, <1>7
  <2> HIDE DEF p
  <2>2. t[k] = new[p]
    BY <2>1, <1>1
  <2> SUFFICES ASSUME t[k].call \notin Orphans(s) PROVE FALSE
    OBVIOUS
  <2>3. \E j \in 1..Len(s) : w[j] < p /\ new[p].call \in CallsOf(s[j])
    <3>1. CASE \E i \in 1..Len(s) : p = w[i]
      <4>1. PICK i \in 1..Len(s) : p = w[i]
        BY <3>1
      <4>2. new[p] = s[i] /\ i \in DOMAIN s
        BY <4>1, <1>1
      <4>3. PICK j \in 1..i - 1 : s[i].call \in CallsOf(s[j])
        BY <4>2, <2>2, <1>3 DEF Orphans, Orphaned
      <4>4. j \in 1..Len(s) /\ j < i
        BY <4>1, <4>3, <1>1
      <4> QED
        BY <4>1, <4>2, <4>3, <4>4, <1>1
    <3>2. CASE \E i \in 1..Len(s) : /\ w[i] < p
                                    /\ \E c \in CallsOf(s[i]) \cap Open(s) : new[p] = Result(c)
      <4>1. PICK i \in 1..Len(s) : /\ w[i] < p
                                   /\ \E c \in CallsOf(s[i]) \cap Open(s) : new[p] = Result(c)
        BY <3>2
      <4>2. PICK c \in CallsOf(s[i]) : new[p] = Result(c)
        BY <4>1
      <4>3. new[p].call = c
        BY <4>2, Kinds
      <4> QED
        BY <4>1, <4>2, <4>3
    <3> QED
      BY <3>1, <3>2, <2>1, <1>2
  <2>4. PICK j \in 1..Len(s) : w[j] < p /\ new[p].call \in CallsOf(s[j])
    BY <2>3
  <2>5. w[j] \in h + 1..Len(new) /\ w[j] + d \in 1..Len(t) /\ t[w[j] + d] = s[j]
    BY <2>4, <1>4
  <2>6. w[j] + d \in 1..k - 1
    BY <2>1, <2>4, <2>5, <1>1
  <2> QED
    BY <2>2, <2>4, <2>5, <2>6, <1>3
<1> QED
  BY <1>1, <1>5, <1>6, <1>7

\* The results without their call on the branches of the file.
Lost == UNION {Orphans(Transcript(file, i)) : i \in DOMAIN file}

\* A load cuts no other result from its call.
LEMMA LoadPairs ==
    ASSUME Core, OrderInv, Load
    PROVE  Orphans(stored') \subseteq Lost
<1>1. /\ file \in Seq(Entry) /\ IsTree(file) /\ DOMAIN file = 1..Len(file) /\ Len(file) \in Nat
  BY DEF Core, TypeOK
<1>2. ASSUME NEW i \in 0..Len(file) PROVE Orphans(Transcript(file, i)) \subseteq Lost
  <2>1. CASE i = 0
    <3>1. Rows(file, 0) = <<>>
      BY <1>1, ReplaySteps
    <3>2. DOMAIN Transcript(file, 0) = {}
      BY <3>1 DEF Transcript, Messages
    <3> QED
      BY <2>1, <3>2 DEF Orphans
  <2>2. CASE i # 0
    BY <2>2, <1>1 DEF Lost
  <2> QED
    BY <2>1, <2>2
<1>3. /\ stored \in Seq(Message) /\ stored = Transcript(file, ActiveLeaf(file))
      /\ ActiveLeaf(file) \in 0..Len(file)
      /\ stored' = stored \/ \E end : RepairStored(file', end) /\ stored' = Transcript(file', end)
  BY LoadStores
<1>4. Orphans(stored) \subseteq Lost
  BY <1>2, <1>3
<1>5. CASE \E end : RepairStored(file', end) /\ stored' = Transcript(file', end)
  <2>1. PICK end : RepairStored(file', end) /\ stored' = Transcript(file', end)
    BY <1>5
  <2>2. PICK same, w, node, h, d :
          Recovers(file, file', end, stored, Recovered(stored), same, w, node, h, d)
    BY <2>1 DEF RepairStored
  <2>3. node[0] \in 0..Len(file)
    BY <2>2 DEF Recovers, Chained
  <2>4. Orphans(Transcript(file, node[0])) \subseteq Lost
    BY <2>3, <1>2
  <2>5. Orphans(Transcript(file', end)) \subseteq Orphans(Transcript(file, node[0])) \cup Orphans(stored)
    BY <2>2, <1>3, RecoversPairs
  <2> QED
    BY <2>1, <2>4, <2>5, <1>4
<1> QED
  BY <1>3, <1>4, <1>5

\* Messages without calls and results at the end separate nothing.
LEMMA ProlongPairs ==
    ASSUME NEW old \in Seq(Message), NEW ms \in Seq(Message),
           \A k \in 1..Len(ms) : ms[k].kind # "result",
           NEW s, Prolongs(s, old, ms)
    PROVE  Orphans(s) \subseteq Orphans(old)
<1>1. PICK n \in 0..Len(ms) : s = old \o SubSeq(ms, 1, n)
  BY DEF Prolongs
<1> DEFINE ns == SubSeq(ms, 1, n)
<1>2. ns \in Seq(Message) /\ Len(ns) = n /\ (\A k \in 1..n : ns[k] = ms[k]) /\ n \in Nat /\ Len(old) \in Nat
  OBVIOUS
<1>3. s = old \o ns
  BY <1>1
<1> HIDE DEF ns
<1>4. /\ s \in Seq(Message) /\ Len(s) = Len(old) + n
      /\ \A k \in 1..Len(old) : s[k] = old[k]
      /\ \A k \in 1..n : s[Len(old) + k] = ns[k]
  <2>1. old \in Seq(Message) /\ ns \in Seq(Message) /\ Len(ns) = n
    BY <1>2
  <2>2. /\ old \o ns \in Seq(Message) /\ Len(old \o ns) = Len(old) + Len(ns)
        /\ \A k \in 1..Len(old) : (old \o ns)[k] = old[k]
        /\ \A k \in 1..Len(ns) : (old \o ns)[Len(old) + k] = ns[k]
    BY ONLY <2>1
  <2> QED
    BY <2>1, <2>2, <1>3
<1> SUFFICES ASSUME NEW k \in DOMAIN s, Orphaned(s, k)
             PROVE  s[k].call \in Orphans(old)
  BY DEF Orphans
<1>0. s[k].kind = "result" /\ \A j \in 1..k - 1 : s[k].call \notin CallsOf(s[j])
  BY DEF Orphaned
<1>5. k \in 1..Len(s) /\ k \in Nat
  BY <1>4
<1>6. k <= Len(old)
  <2> SUFFICES ASSUME k > Len(old) PROVE FALSE
    BY <1>2, <1>5
  <2> DEFINE l == k - Len(old)
  <2>1. l \in 1..n /\ Len(old) + l = k /\ l \in 1..Len(ms)
    BY <1>1, <1>2, <1>4, <1>5
  <2> HIDE DEF l
  <2>2. s[k] = ms[l]
    BY <2>1, <1>2, <1>4
  <2> QED
    BY <2>1, <2>2, <1>0
<1>7. k \in 1..Len(old) /\ k \in DOMAIN old
  BY <1>2, <1>5, <1>6
<1>8. ASSUME NEW j \in 1..k - 1 PROVE old[k].call \notin CallsOf(old[j])
  <2>1. j \in 1..Len(old)
    BY <1>2, <1>7
  <2> QED
    BY <2>1, <1>0, <1>4, <1>7
<1> QED
  BY <1>0, <1>4, <1>7, <1>8 DEF Orphans, Orphaned

LEMMA NextPairs ==
    ASSUME Core, OrderInv, PlanClean, [Next]_vars
    PROVE  [KeepsPairs]_vars
<1> SUFFICES ASSUME Next PROVE KeepsPairs
  OBVIOUS
<1>1. CASE ~up
  <2>1. Load
    BY <1>1 DEF Next, RunStep, Rewriting, Other, Prompt, StartPrompt, Continue, Retry, UserMessageEnd,
                ReplyEnd, AppendReply, ResultEnd, AppendResult, TurnEnd, Close, Overflowed, Settle,
                Compact, FinishCompaction, AbandonCompaction, Branch, StartBranchSummary,
                FinishBranchSummary, AbandonBranch, TerminalCommand, StoreMeta, Cancel, CancelTask, Crash
  <2> QED
    BY <1>1, <2>1, LoadPairs DEF KeepsPairs, Lost
<1>2. CASE up
  <2> SUFFICES ASSUME at = "summarizing" PROVE Orphans(stored') \subseteq LooseResults(stored)
    BY <1>2 DEF KeepsPairs
  <2>1. branch = 0 /\ Orphans(stored) \subseteq LooseResults(stored) /\ at \notin RunPlaces
    BY <1>2, OrphansLoose DEF Core, RunShape, RunPlaces
  <2>2. FinishCompaction \/ AbandonCompaction \/ TerminalCommand \/ StoreMeta \/ Crash
    BY <1>2, <2>1
       DEF Next, RunStep, Rewriting, Other, Prompt, StartPrompt, Continue, Retry, UserMessageEnd,
           ReplyEnd, AppendReply, ResultEnd, AppendResult, TurnEnd, Close, Overflowed, Settle,
           Compact, Branch, StartBranchSummary, FinishBranchSummary, AbandonBranch, Cancel,
           CancelTask, Load
  <2>3. CASE FinishCompaction
    BY <2>1, <2>3, FinishPairs
  <2>4. CASE AbandonCompaction \/ Crash
    BY <2>1, <2>4 DEF AbandonCompaction, Crash, disk
  <2>5. CASE TerminalCommand
    <3> DEFINE ms == <<User(users + 1)>>
    <3>1. Store(MessageEntries(lastParent, ms))
      BY <2>5 DEF TerminalCommand
    <3>2. User(users + 1) \in Message /\ User(users + 1).kind # "result"
      BY <1>2, FreshUser
    <3>3. ms \in Seq(Message) /\ Len(ms) = 1 /\ \A k \in 1..Len(ms) : ms[k].kind # "result"
      BY <3>2
    <3> HIDE DEF ms
    <3>4. Prolongs(stored', stored, ms)
      BY <1>2, <3>1, <3>3, StorePart
    <3>5. stored \in Seq(Message)
      BY DEF Core, TypeOK
    <3> QED
      BY <2>1, <3>3, <3>4, <3>5, ProlongPairs
  <2>6. CASE StoreMeta
    <3>1. stored' = stored
      BY <1>2, <2>6, MetaStored
    <3> QED
      BY <2>1, <3>1
  <2> QED
    BY <2>2, <2>3, <2>4, <2>5, <2>6
<1> QED
  BY <1>1, <1>2

\* Wherever the automatic cut falls, whatever is written while the summary is awaited
\* and wherever the process dies, a compaction leaves no result without its call that
\* followed it with only results between, and a load none that has its call on every
\* branch of the file (_first_recent_context_index, _apply_compaction, load).
THEOREM PairsKept == Spec => RewritesKeepPairs
<1>1. Init => PlanClean
  BY DEF Init, PlanClean
<1>2. Core /\ OrderInv /\ PlanClean /\ [Next]_vars => PlanClean' /\ [KeepsPairs]_vars
  BY NextPlanClean, NextPairs
<1>3. Spec => [](Core /\ OrderInv /\ SavedInOrder)
  BY OrderAlways
<1> QED
  BY <1>1, <1>2, <1>3, PTL DEF Spec, RewritesKeepPairs
-----------------------------------------------------------------------------
(* A load leaves no call open.                                             *)

\* Each call of s has its result in s.
Answered(s) ==
    \A a \in DOMAIN s : \A c \in CallsOf(s[a]) : \E b \in DOMAIN s : s[b] = Result(c)

LEMMA OpenNone ==
    ASSUME NEW s \in Seq(Message)
    PROVE  Open(s) = {} <=> Answered(s)
<1>1. ASSUME Open(s) = {} PROVE Answered(s)
  <2> SUFFICES ASSUME NEW a \in DOMAIN s, NEW c \in CallsOf(s[a])
               PROVE  \E b \in DOMAIN s : s[b] = Result(c)
    BY DEF Answered
  <2>1. c \in Asked(s)
    BY OpenCalls
  <2> QED
    BY <1>1, <2>1, OpenCalls
<1>2. ASSUME Answered(s) PROVE Open(s) = {}
  <2> SUFFICES ASSUME NEW c \in Open(s) PROVE FALSE
    OBVIOUS
  <2>1. c \in Asked(s) /\ \A j \in DOMAIN s : s[j] # Result(c)
    BY OpenCalls
  <2>2. PICK a \in DOMAIN s : c \in CallsOf(s[a])
    BY <2>1 DEF Asked
  <2> QED
    BY <1>2, <2>1, <2>2 DEF Answered
<1> QED
  BY <1>1, <1>2

LEMMA OpenAppend ==
    ASSUME NEW s \in Seq(Message), NEW m \in Message
    PROVE  /\ Append(s, m) \in Seq(Message)
           /\ Open(Append(s, m)) \subseteq Open(s) \cup CallsOf(m)
           /\ \A c : m = Result(c) => Open(Append(s, m)) \subseteq Open(s) \ {c}
<1> DEFINE t == Append(s, m)
<1>1. /\ t \in Seq(Message) /\ DOMAIN t = 1..Len(s) + 1 /\ DOMAIN s = 1..Len(s) /\ Len(s) \in Nat
      /\ t[Len(s) + 1] = m /\ \A i \in 1..Len(s) : t[i] = s[i]
  OBVIOUS
<1> HIDE DEF t
<1>2. ASSUME NEW c \in Open(t)
      PROVE  c \in Open(s) \cup CallsOf(m) /\ m # Result(c)
  <2>1. c \in Asked(t) /\ \A j \in DOMAIN t : t[j] # Result(c)
    BY <1>1, OpenCalls
  <2>2. m # Result(c) /\ \A j \in DOMAIN s : s[j] # Result(c)
    <3>1. Len(s) + 1 \in DOMAIN t
      BY <1>1
    <3>2. m # Result(c)
      BY <3>1, <2>1, <1>1
    <3>3. \A j \in DOMAIN s : j \in DOMAIN t
      BY <1>1
    <3> QED
      BY <3>2, <3>3, <2>1, <1>1
  <2>3. PICK a \in DOMAIN t : c \in CallsOf(t[a])
    BY <2>1 DEF Asked
  <2>4. CASE a = Len(s) + 1
    BY <2>2, <2>3, <2>4, <1>1
  <2>5. CASE a # Len(s) + 1
    <3>1. a \in DOMAIN s /\ t[a] = s[a]
      BY <2>5, <1>1
    <3>2. c \in Asked(s)
      BY <3>1, <2>3, OpenCalls
    <3> QED
      BY <3>2, <2>2, OpenCalls
  <2> QED
    BY <2>4, <2>5
<1>3. \A c : CallsOf(Result(c)) = {}
  BY Kinds
<1> QED
  BY <1>1, <1>2, <1>3 DEF t

\* Messages without calls leave no call open.
LEMMA OpenJoin ==
    ASSUME NEW s \in Seq(Message), NEW t \in Seq(Message), Open(s) = {},
           \A k \in DOMAIN t : CallsOf(t[k]) = {}
    PROVE  s \o t \in Seq(Message) /\ Open(s \o t) = {}
<1> DEFINE u == s \o t
<1>1. /\ u \in Seq(Message) /\ Len(u) = Len(s) + Len(t) /\ Len(s) \in Nat /\ Len(t) \in Nat
      /\ \A i \in 1..Len(s) : u[i] = s[i]
      /\ \A k \in 1..Len(t) : u[Len(s) + k] = t[k]
      /\ DOMAIN u = 1..Len(u) /\ DOMAIN s = 1..Len(s) /\ DOMAIN t = 1..Len(t)
  BY SMTT(30)
<1> HIDE DEF u
<1>2. Answered(s)
  BY OpenNone
<1>3. Answered(u)
  <2> SUFFICES ASSUME NEW a \in DOMAIN u, NEW c \in CallsOf(u[a])
               PROVE  \E b \in DOMAIN u : u[b] = Result(c)
    BY DEF Answered
  <2>1. a <= Len(s)
    <3> SUFFICES ASSUME a > Len(s) PROVE FALSE
      BY <1>1
    <3> DEFINE k == a - Len(s)
    <3>1. k \in 1..Len(t) /\ Len(s) + k = a
      BY <1>1
    <3> HIDE DEF k
    <3>2. u[a] = t[k]
      BY <3>1, <1>1
    <3> QED
      BY <3>1, <3>2, <1>1
  <2>2. a \in DOMAIN s /\ u[a] = s[a]
    BY <2>1, <1>1
  <2>3. PICK b \in DOMAIN s : s[b] = Result(c)
    BY <2>2, <1>2 DEF Answered
  <2>4. b \in DOMAIN u /\ u[b] = s[b]
    BY <1>1
  <2> QED
    BY <2>3, <2>4
<1> QED
  BY <1>1, <1>3, OpenNone DEF u

LEMMA OpenRepaired ==
    ASSUME NEW s \in Seq(Message), Distinct(s), Apart(s)
    PROVE  Open(Repaired(s)) = {}
<1>1. PICK t \in Seq(Message) :
        /\ Repaired(s) = s \o t
        /\ \A k \in 1..Len(t) : \E c \in Open(s) : t[k] = Result(c)
        /\ \A c \in Open(s) : \E k \in 1..Len(t) : t[k] = Result(c)
  BY RepairedShape
<1> DEFINE u == s \o t
<1>2. /\ u \in Seq(Message) /\ Len(u) = Len(s) + Len(t) /\ Len(s) \in Nat /\ Len(t) \in Nat
      /\ \A i \in 1..Len(s) : u[i] = s[i]
      /\ \A k \in 1..Len(t) : u[Len(s) + k] = t[k]
      /\ DOMAIN u = 1..Len(u) /\ DOMAIN s = 1..Len(s) /\ DOMAIN t = 1..Len(t)
  <2>1. s \in Seq(Message) /\ t \in Seq(Message)
    OBVIOUS
  <2> QED
    BY ONLY <2>1, SMTT(30)
<1> HIDE DEF u
<1>3. Answered(u)
  <2> SUFFICES ASSUME NEW a \in DOMAIN u, NEW c \in CallsOf(u[a])
               PROVE  \E b \in DOMAIN u : u[b] = Result(c)
    BY DEF Answered
  <2>1. a <= Len(s)
    <3> SUFFICES ASSUME a > Len(s) PROVE FALSE
      BY <1>2
    <3> DEFINE k == a - Len(s)
    <3>1. k \in 1..Len(t) /\ Len(s) + k = a
      BY <1>2
    <3> HIDE DEF k
    <3>2. u[a] = t[k] /\ \E d \in Open(s) : t[k] = Result(d)
      BY <3>1, <1>1, <1>2
    <3> QED
      BY <3>2, Kinds
  <2>2. a \in DOMAIN s /\ u[a] = s[a]
    BY <2>1, <1>2
  <2>3. CASE c \in Open(s)
    <3>1. PICK k \in 1..Len(t) : t[k] = Result(c)
      BY <2>3, <1>1
    <3>2. Len(s) + k \in DOMAIN u /\ u[Len(s) + k] = t[k]
      BY <1>2
    <3> QED
      BY <3>1, <3>2
  <2>4. CASE c \notin Open(s)
    <3>1. c \in Asked(s)
      BY <2>2, OpenCalls
    <3>2. PICK b \in DOMAIN s : s[b] = Result(c)
      BY <3>1, <2>4, OpenCalls
    <3>3. b \in DOMAIN u /\ u[b] = s[b]
      BY <1>2
    <3> QED
      BY <3>2, <3>3
  <2> QED
    BY <2>3, <2>4
<1> QED
  BY <1>1, <1>2, <1>3, OpenNone DEF u

\* What is stored of some entries is a file that the rest of them continues.
LEMMA PartContinues ==
    ASSUME NEW b \in Seq(Entry), IsTree(b), NEW es, Fits(Len(b), es), NEW n \in 0..Len(es)
    PROVE  Continues(b, b \o SubSeq(es, 1, n)) /\ Continues(b \o SubSeq(es, 1, n), b \o es)
<1>1. es \in Seq(Entry) /\ Len(es) \in Nat /\ Len(b) \in Nat
  BY DEF Fits
<1> DEFINE part == SubSeq(es, 1, n)
           g == b \o es
           h == b \o part
<1>2. Fits(Len(b), part) /\ Len(part) = n
  BY <1>1, FitsPrefix
<1>3. \A k \in 1..n : part[k] = es[k]
  BY <1>1
<1> HIDE DEF part
<1>4. /\ h \in Seq(Entry) /\ IsTree(h) /\ Len(h) = Len(b) + n
      /\ \A i \in 1..Len(b) : h[i] = b[i]
      /\ \A k \in 1..n : h[Len(b) + k] = part[k]
  <2>1. b \in Seq(Entry) /\ IsTree(b) /\ Fits(Len(b), part)
    BY <1>2
  <2>2. /\ h \in Seq(Entry) /\ IsTree(h) /\ Len(h) = Len(b) + Len(part)
        /\ \A i \in 1..Len(b) : h[i] = b[i]
        /\ \A k \in 1..Len(part) : h[Len(b) + k] = part[k]
    BY ONLY <2>1, TreeConcat
  <2> HIDE DEF h
  <2> QED
    BY <1>2, <2>2
<1>5. /\ g \in Seq(Entry) /\ IsTree(g) /\ Len(g) = Len(b) + Len(es)
      /\ \A i \in 1..Len(b) : g[i] = b[i]
      /\ \A k \in 1..Len(es) : g[Len(b) + k] = es[k]
  BY TreeConcat
<1> HIDE DEF g, h
<1>6. Continues(b, h)
  <2>1. Len(b) <= Len(h)
    BY <1>1, <1>4
  <2> QED
    BY <2>1, <1>4 DEF Continues
<1>7. Continues(h, g)
  <2>1. Len(h) <= Len(g)
    BY <1>1, <1>4, <1>5
  <2>2. ASSUME NEW i \in 1..Len(h)
        PROVE  g[i] = h[i]
    <3>1. CASE i \in 1..Len(b)
      BY <3>1, <1>4, <1>5
    <3>2. CASE i \notin 1..Len(b)
      <4> DEFINE k == i - Len(b)
      <4>1. k \in 1..n /\ k \in 1..Len(es) /\ i = Len(b) + k
        BY <3>2, <1>1, <1>4
      <4> HIDE DEF k
      <4> QED
        BY ONLY <4>1, <1>3, <1>4, <1>5
    <3> QED
      BY <3>1, <3>2
  <2> QED
    BY <2>1, <2>2, <1>4, <1>5 DEF Continues
<1> QED
  BY <1>6, <1>7 DEF g, h, part

LEMMA ClosedPrefix ==
    ASSUME NEW f, NEW g, Continues(f, g)
    PROVE  FileClosed(g) <=> /\ FileClosed(f)
                             /\ \A i \in Len(f) + 1..Len(g) : EntryClosed(g, i)
<1>1. /\ f \in Seq(Entry) /\ IsTree(f) /\ g \in Seq(Entry) /\ IsTree(g)
      /\ Len(f) <= Len(g) /\ (\A i \in 1..Len(f) : g[i] = f[i])
      /\ Len(f) \in Nat /\ Len(g) \in Nat
  BY DEF Continues
<1>2. ASSUME NEW i \in 1..Len(f) PROVE EntryClosed(g, i) <=> EntryClosed(f, i)
  <2>1. g[i] = f[i]
    BY <1>1
  <2>2. f[i].parent \in 0..Len(f)
    <3>1. f[i].parent \in 0..i - 1
      BY <1>1 DEF IsTree
    <3> QED
      BY <3>1, <1>1
  <2>3. Rows(g, f[i].parent) = Rows(f, f[i].parent)
    BY <1>1, <2>2, RowsPrefix
  <2> QED
    BY <2>1, <2>3 DEF EntryClosed, Transcript
<1>3. DOMAIN f = 1..Len(f) /\ DOMAIN g = 1..Len(g)
  BY <1>1
<1>4. \A i : i \in 1..Len(g) <=> i \in 1..Len(f) \/ i \in Len(f) + 1..Len(g)
  BY <1>1
<1> QED
  BY <1>2, <1>3, <1>4 DEF FileClosed

LEMMA QuietClosed ==
    ASSUME NEW f, NEW g, Continues(f, g), FileClosed(f),
           \A i \in Len(f) + 1..Len(g) : g[i].type = "message" => g[i].message.kind # "assistant"
    PROVE  FileClosed(g)
<1>1. \A i \in Len(f) + 1..Len(g) : EntryClosed(g, i)
  BY DEF EntryClosed
<1> QED
  BY <1>1, ClosedPrefix

\* The transcript s is old with the first n of ms after it.
Lengthens(s, old, ms, n) ==
    /\ s \in Seq(Message) /\ Len(s) = Len(old) + n
    /\ \A k \in 1..Len(old) : s[k] = old[k]
    /\ \A k \in 1..n : s[Len(old) + k] = ms[k]

LEMMA ChainLengthens ==
    ASSUME NEW f, NEW g, NEW node, NEW ms, Chained(f, g, node, ms), NEW n \in 0..Len(ms)
    PROVE  Lengthens(Transcript(g, node[n]), Transcript(f, node[0]), ms, n)
BY ChainTranscript DEF Lengthens

LEMMA ChainClosed ==
    ASSUME NEW f, NEW g, NEW node, NEW ms, Chained(f, g, node, ms), FileClosed(f),
           \A j \in 1..Len(ms) : ms[j].kind = "assistant" =>
               Open(Transcript(f, node[0]) \o SubSeq(ms, 1, j - 1)) = {}
    PROVE  FileClosed(g)
<1>1. Continues(f, g) /\ ms \in Seq(Message) /\ Len(ms) \in Nat
      /\ \A i \in Len(f) + 1..Len(g) : (\E j \in 1..Len(ms) : i = node[j]) \/ ~Speaks(g[i])
  BY DEF Chained
<1>2. ASSUME NEW i \in Len(f) + 1..Len(g), g[i].type = "message", g[i].message.kind = "assistant"
      PROVE  Open(Transcript(g, g[i].parent)) = {}
  <2>1. PICK j \in 1..Len(ms) : i = node[j]
    BY <1>1, <1>2 DEF Speaks
  <2>2. g[i].parent = node[j - 1] /\ g[i].message = ms[j]
    BY <2>1, ChainLink
  <2> DEFINE n == j - 1
             old == Transcript(f, node[0])
             s == Transcript(g, node[n])
             part == SubSeq(ms, 1, n)
  <2>3. n \in 0..Len(ms) /\ n \in Nat
    BY <1>1
  <2> HIDE DEF n
  <2>3a. Lengthens(s, old, ms, n)
    BY <2>3, ChainLengthens
  <2>5. old \in Seq(Message)
    BY <1>1, TranscriptTyped DEF Chained, Continues
  <2> HIDE DEF old, s
  <2>4. /\ s \in Seq(Message) /\ Len(s) = Len(old) + n
        /\ \A k \in 1..Len(old) : s[k] = old[k]
        /\ \A k \in 1..n : s[Len(old) + k] = ms[k]
    BY ONLY <2>3a DEF Lengthens
  <2>6. part \in Seq(Message) /\ Len(part) = n /\ \A k \in 1..n : part[k] = ms[k]
    BY ONLY <1>1, <2>3
  <2> HIDE DEF part
  <2> DEFINE t == old \o part
  <2>7. /\ t \in Seq(Message) /\ Len(t) = Len(old) + Len(part) /\ Len(old) \in Nat
        /\ \A k \in 1..Len(old) : t[k] = old[k]
        /\ \A k \in 1..Len(part) : t[Len(old) + k] = part[k]
    <3>1. old \in Seq(Message) /\ part \in Seq(Message)
      BY <2>5, <2>6
    <3> QED
      BY ONLY <3>1, SMTT(30)
  <2> HIDE DEF t
  <2>8. s = t
    <3>1. \A k \in 1..Len(s) : s[k] = t[k]
      <4> SUFFICES ASSUME NEW k \in 1..Len(s) PROVE s[k] = t[k]
        OBVIOUS
      <4>1. CASE k <= Len(old)
        BY <4>1, <2>4, <2>7
      <4>2. CASE k > Len(old)
        <5> DEFINE l == k - Len(old)
        <5>1. l \in 1..n /\ Len(old) + l = k
          BY <4>2, <2>3, <2>4, <2>7
        <5> HIDE DEF l
        <5> QED
          BY ONLY <5>1, <2>4, <2>6, <2>7
      <4> QED
        BY <4>1, <4>2, <2>4, <2>7
    <3> QED
      BY <3>1, <2>4, <2>6, <2>7, SeqEqual
  <2> QED
    BY <1>2, <2>2, <2>8 DEF old, part, n, s, t
<1> QED
  BY <1>1, <1>2, ClosedPrefix DEF EntryClosed

LEMMA BaseClosed ==
    ASSUME file \in Seq(Entry), IsTree(file), FileClosed(file)
    PROVE  Base \in Seq(Entry) /\ IsTree(Base) /\ FileClosed(Base)
<1>1. Base \in Seq(Entry) /\ IsTree(Base) /\ (file # <<>> => Base = file)
  BY BegunTyped DEF Base, Begun
<1>2. file = <<>> => \A i \in DOMAIN Base : Base[i].type = "meta"
  BY DEF Base, MetaEntry
<1> QED
  BY <1>1, <1>2 DEF FileClosed, EntryClosed

LEMMA StoreClosed ==
    ASSUME file \in Seq(Entry), IsTree(file), FileClosed(file),
           NEW es, Fits(Len(Base), es), FileClosed(Base) => FileClosed(Base \o es), Store(es)
    PROVE  FileClosed(file')
<1>1. Base \in Seq(Entry) /\ IsTree(Base) /\ FileClosed(Base)
  BY BaseClosed
<1>2. PICK n \in 0..Len(es) : file' = Base \o SubSeq(es, 1, n)
  BY DEF Store
<1>3. Continues(Base \o SubSeq(es, 1, n), Base \o es)
  BY <1>1, PartContinues
<1> QED
  BY <1>1, <1>2, <1>3, ClosedPrefix

LEMMA Askers ==
    ASSUME NEW m \in Message, NEW c \in CallsOf(m)
    PROVE  m.kind = "assistant" /\ ~IsSummary(m)
<1>1. m.kind = "assistant"
  BY DEF CallsOf
<1>2. m \in AssistantMessages
  BY <1>1 DEF Message, UserMessages, ResultMessages
<1>3. DOMAIN m = {"kind", "id", "calls", "stop"}
  BY <1>2 DEF AssistantMessages
<1> QED
  BY <1>1, <1>3 DEF IsSummary

\* In the transcript of a file in order whose calls are answered before the next
\* assistant message on every path, they are so although rows were compacted away.
LEMMA TranscriptClosed ==
    ASSUME NEW f \in Seq(Entry), IsTree(f), FileInOrder(f), FileClosed(f), NEW i \in 0..Len(f)
    PROVE  ClosedFrom(Transcript(f, i), 0)
<1> DEFINE s == Transcript(f, i)
           rs == Rows(f, i)
<1>1. /\ s \in Seq(Message) /\ Len(s) = Len(rs) /\ Len(s) \in Nat
      /\ \A k \in 1..Len(s) : /\ s[k] = rs[k].message /\ s[k] = Value(f, rs[k].id)
                              /\ rs[k].id \in 1..i /\ Speaks(f[rs[k].id])
  BY TranscriptRows
<1> SUFFICES ASSUME NEW k \in 1..Len(s), s[k].kind = "assistant"
             PROVE  Open(SubSeq(s, 1, k - 1)) = {}
  BY DEF ClosedFrom
<1> DEFINE x == rs[k].id
           p == f[x].parent
           P == Transcript(f, p)
           X == Transcript(f, x)
           t == SubSeq(s, 1, k - 1)
<1>2. x \in 1..Len(f) /\ s[k] = Value(f, x) /\ Speaks(f[x])
  BY <1>1
<1>3. f[x].type = "message" /\ f[x].message = s[k]
  <2>1. Value(f, x) # Summary(x)
    BY <1>2, Kinds
  <2> QED
    BY <2>1, <1>2 DEF Value
<1>4. PICK h \in 0..1, d \in Nat :
        /\ h = 1 => IsSummary(s[1])
        /\ Len(X) = k + d
        /\ \A l \in h + 1..k : X[l + d] = s[l]
  <2>1. f[rs[k].id].type # "compaction" /\ k \in 1..Len(rs)
    BY <1>1, <1>3
  <2> QED
    BY <2>1, TranscriptAgain
<1> HIDE DEF x
<1>5. p \in 0..Len(f) /\ f[x].message \in Message /\ X = Append(P, f[x].message)
  BY <1>2, <1>3, MessageRow
<1>6. Open(P) = {}
  <2>1. EntryClosed(f, x)
    BY <1>2 DEF FileClosed
  <2> QED
    BY <2>1, <1>3 DEF EntryClosed
<1>7. P \in Seq(Message) /\ ResultsAfter(P)
  BY <1>5, TranscriptTyped, TranscriptResults
<1> HIDE DEF P, X, p
<1>8. Len(P) = k + d - 1 /\ \A l \in 1..Len(P) : P[l] = X[l]
  <2>1. Len(X) = Len(P) + 1 /\ \A l \in 1..Len(P) : P[l] = X[l]
    BY <1>5, <1>7
  <2>2. Len(X) = k + d /\ Len(P) \in Nat /\ k \in Nat /\ d \in Nat
    BY <1>1, <1>4, <1>7
  <2> QED
    BY ONLY <2>1, <2>2
<1>9. t \in Seq(Message) /\ DOMAIN t = 1..k - 1 /\ \A l \in 1..k - 1 : t[l] = s[l]
  BY <1>1
<1> HIDE DEF t, s, rs
<1>10. ASSUME NEW l \in h + 1..k - 1
       PROVE  P[l + d] = s[l] /\ l + d \in 1..Len(P)
  <2>1. l + d \in 1..Len(P) /\ l \in h + 1..k
    BY <1>1, <1>4, <1>8
  <2> QED
    BY <2>1, <1>4, <1>8
<1>11. Answered(P)
  BY <1>6, <1>7, OpenNone
<1>12. Answered(t)
  <2> SUFFICES ASSUME NEW a \in 1..k - 1, NEW c \in CallsOf(t[a])
               PROVE  \E b \in 1..k - 1 : t[b] = Result(c)
    BY <1>9 DEF Answered
  <2>1. t[a] = s[a] /\ a \in 1..Len(s) /\ s[a] \in Message /\ c \in CallsOf(s[a])
    BY <1>1, <1>9
  <2>2. ~IsSummary(s[a])
    BY <2>1, Askers
  <2>3. a \in h + 1..k - 1
    BY <2>1, <2>2, <1>4
  <2>4. P[a + d] = s[a] /\ a + d \in 1..Len(P) /\ a + d \in DOMAIN P
    BY <2>3, <1>7, <1>10
  <2>5. PICK e \in DOMAIN P : P[e] = Result(c)
    BY <2>1, <2>4, <1>11 DEF Answered
  <2>6. a + d < e
    BY <2>1, <2>4, <2>5, <1>7 DEF ResultsAfter
  <2> DEFINE b == e - d
  <2>7. e \in 1..Len(P)
    BY <1>7, <2>5
  <2>8. b \in h + 1..k - 1 /\ b \in 1..k - 1 /\ b + d = e
    BY <1>4, <1>8, <2>3, <2>6, <2>7
  <2> HIDE DEF b
  <2>9. t[b] = P[e]
    BY <2>8, <1>9, <1>10
  <2> QED
    BY <2>5, <2>8, <2>9
<1> QED
  BY <1>9, <1>12, OpenNone DEF t, s

\* A repair finds nothing but results to add: no assistant message comes behind the
\* one that has an open call.
LEMMA RepairTail ==
    ASSUME NEW s \in Seq(Message), ClosedFrom(s, 0), NEW same \in 1..Len(s),
           CallsOf(s[same]) \cap Open(s) # {}
    PROVE  \A i \in same + 1..Len(s) : CallsOf(s[i]) = {} /\ s[i].kind # "assistant"
<1>1. Len(s) \in Nat /\ same \in Nat
  OBVIOUS
<1> SUFFICES ASSUME NEW i \in same + 1..Len(s), s[i].kind = "assistant" PROVE FALSE
  BY DEF CallsOf
<1> DEFINE t == SubSeq(s, 1, i - 1)
<1>2. i \in 1..Len(s)
  BY <1>1
<1>3. Open(t) = {}
  BY <1>2 DEF ClosedFrom
<1>4. t \in Seq(Message) /\ DOMAIN t = 1..i - 1 /\ \A l \in 1..i - 1 : t[l] = s[l]
  BY <1>1, <1>2
<1> HIDE DEF t
<1>5. PICK c \in CallsOf(s[same]) : c \in Open(s)
  OBVIOUS
<1>6. same \in 1..i - 1 /\ t[same] = s[same]
  BY <1>1, <1>4
<1>7. PICK b \in 1..i - 1 : t[b] = Result(c)
  <2>1. Answered(t)
    BY <1>3, <1>4, OpenNone
  <2> QED
    BY <2>1, <1>4, <1>5, <1>6 DEF Answered
<1>8. s[b] = Result(c) /\ b \in DOMAIN s
  BY <1>1, <1>2, <1>4, <1>7
<1> QED
  BY <1>5, <1>8, OpenCalls

\* A repair answers every call of the branch it repairs, on the branch it goes back
\* to, and adds no assistant message.
LEMMA RepairAnswers ==
    ASSUME NEW f \in Seq(Entry), IsTree(f), FileClosed(f),
           NEW g, NEW end, NEW s \in Seq(Message), ClosedFrom(s, 0),
           NEW new, NEW same, NEW w, NEW node, NEW h, NEW d,
           Recovers(f, g, end, s, new, same, w, node, h, d)
    PROVE  FileClosed(g) /\ Open(Transcript(g, end)) = {}
<1> DEFINE old == Transcript(f, node[0])
           t == Transcript(g, end)
           ms == SubSeq(new, same + 1, Len(new))
<1>1. RepairPlaces(s, new, same, w, h, d, old, t)
  BY RecoversPlaces
<1>2. /\ \A i \in 1..same : w[i] = i
      /\ \A p \in 1..Len(new) :
            \/ \E i \in 1..Len(s) : p = w[i]
            \/ \E i \in 1..Len(s) : \E c \in CallsOf(s[i]) \cap Open(s) : new[p] = Result(c)
      /\ \A c \in Open(s) : \E p \in 1..Len(new) : new[p] = Result(c)
      /\ new \in Seq(Message)
      /\ CallsOf(s[same]) \cap Open(s) # {}
      /\ f[node[0]].type = "message" /\ f[node[0]].message = s[same]
      /\ Chained(f, g, node, ms) /\ node[0] \in 0..Len(f)
  BY DEF Recovers, Woven, Chained
<1>3. /\ t \in Seq(Message) /\ Len(t) = Len(new) + d /\ Len(old) = same + d
      /\ Len(new) \in Nat /\ same \in Nat /\ same < Len(new) /\ d \in Nat
      /\ \A k \in 1..same + d : t[k] = old[k]
      /\ \A p \in h + 1..Len(new) : p + d \in 1..Len(t) /\ t[p + d] = new[p]
      /\ h \in 0..1 /\ (h = 1 => IsSummary(s[1])) /\ same \in 1..Len(s) /\ Len(s) \in Nat
      /\ \A i \in 1..Len(s) : /\ w[i] \in 1..Len(new) /\ new[w[i]] = s[i]
                              /\ h < i => w[i] \in h + 1..Len(new)
  BY <1>1 DEF RepairPlaces
<1>4. ASSUME NEW p \in same + 1..Len(new)
      PROVE  CallsOf(new[p]) = {} /\ new[p].kind # "assistant"
  <2>1. p \in 1..Len(new) /\ p > same
    BY <1>3
  <2>2. CASE \E i \in 1..Len(s) : p = w[i]
    <3>1. PICK i \in 1..Len(s) : p = w[i]
      BY <2>2
    <3>2. i > same
      <4> SUFFICES ASSUME i <= same PROVE FALSE
        BY <1>3
      <4>1. i \in 1..same /\ same \in Nat
        BY <1>3
      <4>2. w[i] = i
        BY <4>1, <1>2
      <4>3. p = i /\ p > same
        BY <4>2, <3>1, <2>1
      <4> QED
        BY ONLY <4>1, <4>3
    <3>3. i \in same + 1..Len(s) /\ new[p] = s[i]
      BY <3>1, <3>2, <1>3
    <3>4. CallsOf(s[i]) = {} /\ s[i].kind # "assistant"
      BY <3>3, <1>2, <1>3, RepairTail
    <3> QED
      BY <3>3, <3>4
  <2>3. CASE \E i \in 1..Len(s) : \E c \in CallsOf(s[i]) \cap Open(s) : new[p] = Result(c)
    <3>1. PICK c : new[p] = Result(c)
      BY <2>3
    <3> QED
      BY <3>1, Kinds
  <2> QED
    BY <2>1, <2>2, <2>3, <1>2
<1>5. FileClosed(g)
  <2>1. ASSUME NEW j \in 1..Len(ms) PROVE ms[j].kind # "assistant"
    <3>1. same + j \in same + 1..Len(new) /\ ms[j] = new[same + j]
      BY <1>2, <1>3
    <3> QED
      BY <3>1, <1>4
  <2> HIDE DEF ms
  <2> QED
    BY <2>1, <1>2, ChainClosed
<1> HIDE DEF ms, t
<1>6. node[0] \in 1..Len(f)
  <2> SUFFICES ASSUME node[0] = 0 PROVE FALSE
    BY <1>2
  <2>1. Rows(f, 0) = <<>>
    BY ReplaySteps
  <2>2. Messages(<<>>) \in Seq(Message) /\ Len(Messages(<<>>)) = 0
    BY EmptySeq DEF Messages
  <2>3. Len(old) = 0
    BY <2>1, <2>2 DEF Transcript
  <2> HIDE DEF old
  <2>4. Len(old) = same + d /\ same \in Nat /\ same > 0 /\ d \in Nat
    BY <1>3
  <2> QED
    BY ONLY <2>3, <2>4
<1> DEFINE x == node[0]
           P == Transcript(f, f[x].parent)
<1>7. old = Append(P, s[same]) /\ P \in Seq(Message) /\ Open(P) = {}
  <2>1. f[x].parent \in 0..Len(f) /\ old = Append(P, s[same])
    BY <1>2, <1>6, MessageRow
  <2>2. P \in Seq(Message)
    BY <2>1, TranscriptTyped
  <2>3. \E c : c \in CallsOf(s[same])
    BY <1>2
  <2>4. s[same].kind = "assistant"
    BY <2>3 DEF CallsOf
  <2>5. EntryClosed(f, x)
    BY <1>6 DEF FileClosed
  <2> QED
    BY <2>1, <2>2, <2>4, <2>5, <1>2 DEF EntryClosed
<1> HIDE DEF old, P, x
<1>8. /\ Len(P) = same + d - 1 /\ DOMAIN P = 1..Len(P)
      /\ \A k \in 1..Len(P) : old[k] = P[k]
      /\ old[same + d] = s[same]
  <2>1. /\ Len(old) = Len(P) + 1 /\ Len(P) \in Nat /\ (\A k \in 1..Len(P) : old[k] = P[k])
        /\ old[Len(P) + 1] = s[same] /\ DOMAIN P = 1..Len(P)
    BY <1>7
  <2>2. Len(old) = same + d /\ same \in Nat /\ d \in Nat
    BY <1>3
  <2>3. Len(P) = same + d - 1 /\ Len(P) + 1 = same + d
    BY ONLY <2>1, <2>2
  <2> QED
    BY <2>1, <2>3
<1>9. ASSUME NEW c \in CallsOf(s[same])
      PROVE  \E b \in DOMAIN t : t[b] = Result(c)
  <2>1. \E p \in 1..Len(new) : new[p] = Result(c)
    <3>1. CASE c \in Open(s)
      BY <3>1, <1>2
    <3>2. CASE c \notin Open(s)
      <4>1. c \in Asked(s)
        BY <1>3, OpenCalls
      <4>2. PICK b \in DOMAIN s : s[b] = Result(c)
        BY <3>2, <4>1, OpenCalls
      <4>3. b \in 1..Len(s)
        BY <4>2
      <4>4. w[b] \in 1..Len(new) /\ new[w[b]] = s[b]
        BY <4>3, <1>3
      <4> QED
        BY <4>2, <4>4
    <3> QED
      BY <3>1, <3>2
  <2>2. PICK p \in 1..Len(new) : new[p] = Result(c)
    BY <2>1
  <2>3. p \in h + 1..Len(new)
    <3> SUFFICES ASSUME h = 1, p = 1 PROVE FALSE
      BY <1>3
    <3>1. new[1] = s[1] /\ IsSummary(s[1])
      <4>1. 1 \in 1..same /\ 1 \in 1..Len(s)
        BY <1>3
      <4> QED
        BY <4>1, <1>2, <1>3
    <3> QED
      BY <3>1, <2>2, Kinds
  <2>4. p + d \in 1..Len(t) /\ t[p + d] = new[p]
    BY <2>3, <1>3
  <2>5. DOMAIN t = 1..Len(t)
    BY <1>3
  <2>6. p + d \in DOMAIN t /\ t[p + d] = Result(c)
    BY <2>2, <2>4, <2>5
  <2> QED
    BY <2>6
<1>10. Answered(t)
  <2> SUFFICES ASSUME NEW a \in 1..Len(t), NEW c \in CallsOf(t[a])
               PROVE  \E b \in DOMAIN t : t[b] = Result(c)
    BY <1>3 DEF Answered
  <2>1. CASE a < same + d
    <3>1. a \in 1..Len(P) /\ a \in DOMAIN P /\ a \in 1..same + d
      BY <2>1, <1>3, <1>8
    <3>2. t[a] = P[a]
      BY <3>1, <1>3, <1>8
    <3>3. Answered(P)
      BY <1>7, OpenNone
    <3>4. PICK b \in DOMAIN P : P[b] = Result(c)
      BY <3>1, <3>2, <3>3 DEF Answered
    <3>5. b \in 1..Len(P) /\ b \in 1..same + d /\ b \in 1..Len(t)
      BY <3>4, <1>3, <1>8
    <3>6. t[b] = P[b]
      BY <3>5, <1>3, <1>8
    <3> QED
      BY <3>4, <3>5, <3>6, <1>3
  <2>2. CASE a = same + d
    <3>1. a \in 1..same + d
      BY <2>2, <1>3
    <3>2. t[a] = s[same]
      BY <3>1, <2>2, <1>3, <1>8
    <3> QED
      BY <3>2, <1>9
  <2>3. CASE a > same + d
    <3> DEFINE p == a - d
    <3>1. p \in same + 1..Len(new) /\ p \in h + 1..Len(new) /\ p + d = a
      BY <2>3, <1>3
    <3> HIDE DEF p
    <3>2. t[a] = new[p]
      BY <3>1, <1>3
    <3> QED
      BY <3>1, <3>2, <1>4
  <2> QED
    BY <2>1, <2>2, <2>3, <1>3
<1>11. Open(t) = {}
  BY <1>3, <1>10, OpenNone
<1> QED
  BY <1>5, <1>11 DEF t

\* What needs no repair has no open call.
LEMMA NoRepair ==
    ASSUME NEW s \in Seq(Message), Distinct(s), Apart(s), Recovered(s) = s
    PROVE  Open(s) = {}
<1>1. PICK w : Woven(s, Recovered(s), w)
  BY RecoveredShape
<1>2. \A c \in Open(s) : \E p \in 1..Len(s) : s[p] = Result(c)
  BY <1>1 DEF Woven
<1>3. \A c \in Open(s) : \A j \in DOMAIN s : s[j] # Result(c)
  BY OpenCalls
<1>4. DOMAIN s = 1..Len(s)
  OBVIOUS
<1> QED
  BY <1>2, <1>3, <1>4

LEMMA LoadClosed ==
    ASSUME Core, OrderInv, Load, FileClosed(file)
    PROVE  /\ up' => Open(stored') = {} /\ FileClosed(file')
           /\ at' = "idle"
<1>1. /\ file \in Seq(Entry) /\ IsTree(file) /\ FileInOrder(file)
  BY DEF Core, TypeOK, OrderInv
<1>2. /\ stored \in Seq(Message) /\ Distinct(stored) /\ stored = Transcript(file, ActiveLeaf(file))
      /\ ActiveLeaf(file) \in 0..Len(file)
      /\ \/ stored' = stored /\ (up' => file' = file /\ Recovered(stored) = stored)
         \/ up' /\ \E end : RepairStored(file', end) /\ stored' = Transcript(file', end)
  BY LoadStores
<1>3. Apart(stored)
  BY <1>2, LoadFinds
<1>4. CASE stored' = stored /\ (up' => file' = file /\ Recovered(stored) = stored)
  BY <1>2, <1>3, <1>4, NoRepair DEF Load
<1>5. CASE up' /\ \E end : RepairStored(file', end) /\ stored' = Transcript(file', end)
  <2>1. PICK end : RepairStored(file', end) /\ stored' = Transcript(file', end)
    BY <1>5
  <2>2. PICK same, w, node, h, d :
          Recovers(file, file', end, stored, Recovered(stored), same, w, node, h, d)
    BY <2>1 DEF RepairStored
  <2>3. ClosedFrom(stored, 0)
    BY <1>1, <1>2, TranscriptClosed
  <2>4. FileClosed(file') /\ Open(Transcript(file', end)) = {}
    BY <2>2, <2>3, <1>1, <1>2, RepairAnswers
  <2> QED
    BY <2>1, <2>4 DEF Load
<1> QED
  BY <1>2, <1>4, <1>5

LEMMA SplitSeq ==
    ASSUME NEW S, NEW s \in Seq(S), NEW n \in 0..Len(s), NEW j \in 1..Len(s) - n
    PROVE  SubSeq(s, 1, n) \o SubSeq(SubSeq(s, n + 1, Len(s)), 1, j - 1) = SubSeq(s, 1, n + j - 1)
<1> DEFINE a == SubSeq(s, 1, n)
           t == SubSeq(s, n + 1, Len(s))
           b == SubSeq(t, 1, j - 1)
           c == SubSeq(s, 1, n + j - 1)
<1>1. Len(s) \in Nat /\ n \in Nat /\ j \in Nat /\ j > 0 /\ n + j <= Len(s) /\ n <= Len(s)
  OBVIOUS
<1>2. a \in Seq(S) /\ Len(a) = n /\ \A i \in 1..n : a[i] = s[i]
  BY <1>1
<1>3. t \in Seq(S) /\ Len(t) = Len(s) - n /\ \A i \in 1..Len(s) - n : t[i] = s[n + i]
  BY <1>1
<1> HIDE DEF t
<1>4. b \in Seq(S) /\ Len(b) = j - 1 /\ \A i \in 1..j - 1 : b[i] = s[n + i]
  BY <1>1, <1>3
<1>5. c \in Seq(S) /\ Len(c) = n + j - 1 /\ \A i \in 1..n + j - 1 : c[i] = s[i]
  BY <1>1
<1> HIDE DEF a, b, c
<1> DEFINE u == a \o b
<1>6. /\ u \in Seq(S) /\ Len(u) = Len(a) + Len(b)
      /\ \A i \in 1..Len(a) : u[i] = a[i]
      /\ \A i \in 1..Len(b) : u[Len(a) + i] = b[i]
  <2>1. a \in Seq(S) /\ b \in Seq(S)
    BY <1>2, <1>4
  <2> QED
    BY ONLY <2>1
<1> HIDE DEF u
<1>7. \A i \in 1..Len(u) : u[i] = c[i]
  <2> SUFFICES ASSUME NEW i \in 1..Len(u) PROVE u[i] = c[i]
    OBVIOUS
  <2>1. i \in 1..n + j - 1 /\ c[i] = s[i]
    BY <1>1, <1>2, <1>4, <1>5, <1>6
  <2>2. CASE i <= n
    BY <2>1, <2>2, <1>1, <1>2, <1>6
  <2>3. CASE i > n
    <3> DEFINE l == i - n
    <3>1. l \in 1..j - 1 /\ n + l = i /\ l \in 1..Len(b)
      BY <2>1, <2>3, <1>1, <1>4
    <3> HIDE DEF l
    <3>2. u[Len(a) + l] = b[l] /\ b[l] = s[n + l]
      BY <3>1, <1>4, <1>6
    <3> QED
      BY <2>1, <3>1, <3>2, <1>2
  <2> QED
    BY <2>1, <2>2, <2>3, <1>1
<1>8. Len(u) = Len(c)
  BY <1>1, <1>2, <1>4, <1>5, <1>6
<1>9. u = c
  BY <1>5, <1>6, <1>7, <1>8, SeqEqual
<1> QED
  BY <1>9 DEF u, a, b, c, t

\* What a transcript that grows holds behind place n stays closed.
LEMMA ClosedGrows ==
    ASSUME NEW s, NEW t, Starts(s, t), NEW n \in 0..Len(s), ClosedFrom(s, n),
           \A k \in Len(s) + 1..Len(t) : t[k].kind = "assistant" => Open(SubSeq(t, 1, k - 1)) = {}
    PROVE  ClosedFrom(t, n)
<1>1. /\ s \in Seq(Message) /\ t \in Seq(Message) /\ Len(s) \in Nat /\ Len(t) \in Nat
      /\ Len(s) <= Len(t) /\ \A i \in 1..Len(s) : t[i] = s[i]
  BY DEF Starts
<1> SUFFICES ASSUME NEW k \in n + 1..Len(t), t[k].kind = "assistant"
             PROVE  Open(SubSeq(t, 1, k - 1)) = {}
  BY DEF ClosedFrom
<1>2. CASE k <= Len(s)
  <2>1. k \in n + 1..Len(s) /\ k \in 1..Len(s) /\ k - 1 \in 0..Len(s)
    BY <1>1, <1>2
  <2>2. SubSeq(t, 1, k - 1) = SubSeq(s, 1, k - 1)
    BY <1>1, <2>1, SubSeqOfPrefix
  <2> QED
    BY <1>1, <2>1, <2>2 DEF ClosedFrom
<1>3. CASE k > Len(s)
  <2>1. k \in Len(s) + 1..Len(t)
    BY <1>1, <1>3
  <2> QED
    BY <2>1
<1> QED
  BY <1>1, <1>2, <1>3

\* What is persisted of a run keeps the file closed.
LEMMA PersistClosed ==
    ASSUME Core, up, at \in RunPlaces, ~unwound, FileClosed(file),
           NEW s, Starts(live, s), ClosedFrom(s, count), Persist(s)
    PROVE  FileClosed(file') /\ count' = Len(s)
<1>1. /\ s \in Seq(Message) /\ live \in Seq(Message) /\ Len(live) <= Len(s)
      /\ Len(s) \in Nat /\ Len(live) \in Nat
      /\ count \in 0..Len(live) /\ count \in 0..Len(s) /\ count <= Len(s)
      /\ \A i \in 1..Len(live) : s[i] = live[i]
      /\ stored = SubSeq(live, 1, count)
  <2>1. live \in Seq(Message) /\ count \in 0..Len(live) /\ stored = SubSeq(live, 1, count)
    BY InStep
  <2>2. s \in Seq(Message) /\ Len(live) <= Len(s) /\ \A i \in 1..Len(live) : s[i] = live[i]
    BY DEF Starts
  <2>3. Len(live) \in Nat /\ Len(s) \in Nat
    BY <2>1, <2>2
  <2> QED
    BY <2>1, <2>2, <2>3
<1>2. stored = SubSeq(s, 1, count)
  BY <1>1, SubSeqOfPrefix
<1>3. count' = Len(s)
  BY <1>1, PersistProperties
<1> DEFINE new == NewSince(s, count)
<1>4. new = SubSeq(s, count + 1, Len(s)) /\ new \in Seq(Message) /\ Len(new) = Len(s) - count
      /\ \A k \in 1..Len(new) : new[k] = s[count + k]
  BY <1>1 DEF NewSince
<1>5. CASE new = <<>>
  BY <1>3, <1>5 DEF Persist, disk
<1>6. CASE new # <<>>
  <2>1. Store(MessageEntries(lastParent, new))
    BY <1>6 DEF Persist
  <2> HIDE DEF new
  <2>2. /\ Base \in Seq(Entry) /\ IsTree(Base) /\ Len(Base) \in Nat /\ lastParent \in 0..Len(Base)
        /\ Transcript(Base, lastParent) = stored /\ file \in Seq(Entry) /\ IsTree(file)
    BY Here DEF Core, TypeOK
  <2> DEFINE es == Burst(Len(Base), lastParent, new)
             node == [j \in 0..Len(new) |-> IF j = 0 THEN lastParent ELSE Len(Base) + 2 * j - 1]
             g == Base \o es
  <2>3. MessageEntries(lastParent, new) = es
    BY DEF MessageEntries, Burst
  <2>4. Fits(Len(Base), es)
    BY <2>2, <1>4, BurstFits
  <2>5. Chained(Base, g, node, new)
    BY <2>2, <1>4, BurstChain
  <2>6. node[0] = lastParent
    <3>1. 0 \in 0..Len(new)
      BY <1>4
    <3> QED
      BY <3>1
  <2> HIDE DEF es, node, g
  <2>7. ASSUME NEW j \in 1..Len(new), new[j].kind = "assistant"
        PROVE  Open(Transcript(Base, node[0]) \o SubSeq(new, 1, j - 1)) = {}
    <3>1. j \in 1..Len(s) - count /\ count + j \in count + 1..Len(s) /\ count + j - 1 = (count + j) - 1
      BY <1>1, <1>4
    <3>2. SubSeq(s, 1, count) \o SubSeq(SubSeq(s, count + 1, Len(s)), 1, j - 1) = SubSeq(s, 1, count + j - 1)
      BY <3>1, <1>1, SplitSeq
    <3>3. Open(SubSeq(s, 1, (count + j) - 1)) = {}
      <4>1. s[count + j].kind = "assistant"
        BY <2>7, <1>4
      <4> QED
        BY <3>1, <4>1 DEF ClosedFrom
    <3>4. Transcript(Base, node[0]) \o SubSeq(new, 1, j - 1)
            = SubSeq(s, 1, count) \o SubSeq(SubSeq(s, count + 1, Len(s)), 1, j - 1)
      BY <2>2, <2>6, <1>2, <1>4
    <3> QED
      BY <3>1, <3>2, <3>3, <3>4
  <2>8. FileClosed(Base) => FileClosed(g)
    BY <2>5, <2>7, ChainClosed
  <2>9. FileClosed(file')
    <3>1. Store(es) /\ FileClosed(Base) => FileClosed(Base \o es)
      BY <2>1, <2>3, <2>8 DEF g
    <3>2. Store(es)
      BY <2>1, <2>3
    <3> QED
      BY <3>1, <3>2, <2>2, <2>4, <2>8, StoreClosed DEF g
  <2> QED
    BY <1>3, <2>9
<1> QED
  BY <1>5, <1>6

\* Entries without assistant messages keep the file closed.
LEMMA StoreQuiet ==
    ASSUME Core, FileClosed(file), NEW es, Fits(Len(Base), es), Store(es),
           \A k \in 1..Len(es) : es[k].type = "message" => es[k].message.kind # "assistant"
    PROVE  FileClosed(file')
<1>1. file \in Seq(Entry) /\ IsTree(file)
  BY DEF Core, TypeOK
<1>2. Base \in Seq(Entry) /\ IsTree(Base)
  BY <1>1, BaseClosed
<1> DEFINE g == Base \o es
<1>3. /\ g \in Seq(Entry) /\ IsTree(g) /\ Len(g) = Len(Base) + Len(es)
      /\ \A i \in 1..Len(Base) : g[i] = Base[i]
      /\ \A k \in 1..Len(es) : g[Len(Base) + k] = es[k]
  BY ONLY <1>2, TreeConcat, Fits(Len(Base), es)
<1>4. Len(Base) \in Nat /\ Len(es) \in Nat
  BY <1>2 DEF Fits
<1>5. Continues(Base, g)
  BY <1>2, <1>3, <1>4 DEF Continues
<1> HIDE DEF g
<1>6. ASSUME NEW i \in Len(Base) + 1..Len(g), g[i].type = "message"
      PROVE  g[i].message.kind # "assistant"
  <2> DEFINE k == i - Len(Base)
  <2>1. k \in 1..Len(es) /\ Len(Base) + k = i
    BY <1>3, <1>4
  <2> HIDE DEF k
  <2>2. g[i] = es[k]
    BY <2>1, <1>3
  <2> QED
    BY <2>1, <2>2, <1>6
<1>7. FileClosed(Base) => FileClosed(g)
  BY <1>5, <1>6, QuietClosed
<1> QED
  BY <1>1, <1>7, StoreClosed DEF g

\* The invariant, where no task of a run is cancelled.
Answering == ~unwound /\ CallsClosed

LEMMA AtRest ==
    ASSUME Answering, UNCHANGED <<file, unwound>>, at' \notin RunPlaces \/ ~up'
    PROVE  Answering'
BY DEF Answering, CallsClosed, RunClosed, FileClosed, EntryClosed

LEMMA StartRunAnswering ==
    ASSUME Core, OrderInv, Answering, up, NEW prompts \in Seq(Message),
           \A k \in DOMAIN prompts : prompts[k].kind = "user",
           NEW isRetry, NEW place \in {"injecting", "streaming"}, StartRun(prompts, isRetry, place)
    PROVE  Answering'
<1>1. /\ live' = Repaired(live) \o prompts /\ count' = Len(live) /\ at' = place
      /\ file' = file /\ unwound' = unwound
  BY DEF StartRun, disk, history
<1>2. PICK t \in Seq(Message) :
         /\ Repaired(live) = live \o t
         /\ \A k \in DOMAIN t : \E c \in 1..calls : t[k] = Result(c)
  BY RepairBehind
<1>3. live \in Seq(Message) /\ Distinct(live) /\ Apart(live)
  BY There DEF Tidy
<1>4. Repaired(live) \in Seq(Message) /\ Open(Repaired(live)) = {}
  BY <1>3, RepairedTyped, OpenRepaired
<1>5. live' \in Seq(Message) /\ Open(live') = {}
  <2>1. \A k \in DOMAIN prompts : CallsOf(prompts[k]) = {}
    BY DEF CallsOf
  <2> DEFINE s == Repaired(live)
  <2>2. s \in Seq(Message) /\ Open(s) = {}
    BY <1>4
  <2> HIDE DEF s
  <2>3. s \o prompts \in Seq(Message) /\ Open(s \o prompts) = {}
    BY <2>1, <2>2, OpenJoin
  <2> QED
    BY <2>3, <1>1 DEF s
<1> DEFINE u == t \o prompts
<1>6. /\ u \in Seq(Message) /\ Len(u) = Len(t) + Len(prompts) /\ Len(t) \in Nat /\ Len(prompts) \in Nat
      /\ DOMAIN t = 1..Len(t) /\ DOMAIN prompts = 1..Len(prompts)
      /\ \A k \in 1..Len(t) : u[k] = t[k]
      /\ \A k \in 1..Len(prompts) : u[Len(t) + k] = prompts[k]
  <2>1. t \in Seq(Message) /\ prompts \in Seq(Message)
    OBVIOUS
  <2> QED
    BY ONLY <2>1
<1>7. live' = live \o u
  <2>1. live \in Seq(Message) /\ t \in Seq(Message) /\ prompts \in Seq(Message)
    BY <1>3
  <2>2. (live \o t) \o prompts = live \o (t \o prompts)
    BY ONLY <2>1
  <2> QED
    BY <2>2, <1>1, <1>2
<1> HIDE DEF u
<1>8. ASSUME NEW k \in 1..Len(u) PROVE u[k].kind # "assistant"
  <2>1. CASE k <= Len(t)
    <3>1. k \in DOMAIN t /\ u[k] = t[k]
      BY <2>1, <1>6
    <3>2. PICK c : t[k] = Result(c)
      BY <3>1, <1>2
    <3> QED
      BY <3>1, <3>2, Kinds
  <2>2. CASE k > Len(t)
    <3> DEFINE l == k - Len(t)
    <3>1. l \in 1..Len(prompts) /\ Len(t) + l = k
      BY <2>2, <1>6
    <3> HIDE DEF l
    <3> QED
      BY <3>1, <1>6
  <2> QED
    BY <2>1, <2>2, <1>6
<1>9. ClosedFrom(live', count')
  <2>1. /\ Len(live') = Len(live) + Len(u) /\ Len(live) \in Nat /\ Len(u) \in Nat
        /\ \A k \in 1..Len(u) : live'[Len(live) + k] = u[k]
    <3>1. live \in Seq(Message) /\ u \in Seq(Message)
      BY <1>3, <1>6
    <3> QED
      BY <3>1, <1>7
  <2>2. ASSUME NEW k \in Len(live) + 1..Len(live') PROVE live'[k].kind # "assistant"
    <3> DEFINE l == k - Len(live)
    <3>1. l \in 1..Len(u) /\ Len(live) + l = k
      BY <2>1
    <3> HIDE DEF l
    <3> QED
      BY <3>1, <2>1, <1>8
  <2> QED
    BY <2>2, <1>1 DEF ClosedFrom
<1> QED
  BY <1>1, <1>5, <1>9 DEF Answering, CallsClosed, RunClosed, FileClosed, EntryClosed

\* A message joins the transcript of a run.
LEMMA AppendAnswering ==
    ASSUME Core, Answering, up, at \in RunPlaces, NEW m \in Message, live' = Append(live, m),
           m.kind = "assistant" => Open(live) = {}
    PROVE  /\ live \in Seq(Message) /\ ClosedFrom(live', count)
           /\ Open(live') \subseteq Open(live) \cup CallsOf(m)
           /\ \A c : m = Result(c) => Open(live') \subseteq Open(live) \ {c}
<1>1. live \in Seq(Message) /\ count \in 0..Len(live)
  BY InStep
<1>2. /\ Len(live) \in Nat /\ live' \in Seq(Message) /\ Len(live') = Len(live) + 1
      /\ live'[Len(live) + 1] = m /\ \A i \in 1..Len(live) : live'[i] = live[i]
  BY <1>1
<1>3. Starts(live, live')
  BY <1>1, <1>2 DEF Starts
<1>4. ASSUME NEW k \in Len(live) + 1..Len(live'), live'[k].kind = "assistant"
      PROVE  Open(SubSeq(live', 1, k - 1)) = {}
  <2>1. k = Len(live) + 1 /\ k - 1 = Len(live)
    BY <1>2
  <2>2. SubSeq(live', 1, Len(live)) = SubSeq(live, 1, Len(live))
    <3>1. Len(live) \in 0..Len(live) /\ Len(live) <= Len(live')
      BY <1>2
    <3> QED
      BY <3>1, <1>1, <1>2, SubSeqOfPrefix
  <2>3. SubSeq(live, 1, Len(live)) = live
    BY <1>1
  <2>4. m.kind = "assistant"
    BY <2>1, <1>2, <1>4
  <2> QED
    BY <2>1, <2>2, <2>3, <2>4
<1>5. ClosedFrom(live, count)
  BY DEF Answering, CallsClosed, RunClosed
<1>6. ClosedFrom(live', count)
  BY <1>1, <1>3, <1>4, <1>5, ClosedGrows
<1> QED
  BY <1>1, <1>6, OpenAppend

LEMMA RunBeginsAnswering ==
    ASSUME Core, OrderInv, Answering, StartPrompt \/ Continue \/ Retry
    PROVE  Answering'
<1>1. CASE StartPrompt
  <2>1. up /\ StartRun(<<User(users + 1)>>, FALSE, "injecting")
    BY <1>1 DEF StartPrompt
  <2>2. User(users + 1) \in Message /\ User(users + 1).kind = "user"
    BY <2>1, FreshUser
  <2> DEFINE ps == <<User(users + 1)>>
  <2>3. ps \in Seq(Message) /\ \A k \in DOMAIN ps : ps[k].kind = "user"
    BY <2>2
  <2> HIDE DEF ps
  <2>4. StartRun(ps, FALSE, "injecting")
    BY <2>1 DEF ps
  <2> QED
    BY <2>1, <2>3, <2>4, StartRunAnswering
<1>2. CASE Continue \/ Retry
  <2>1. PICK r \in BOOLEAN : up /\ StartRun(<<>>, r, "streaming")
    BY <1>2 DEF Continue, Retry
  <2>2. <<>> \in Seq(Message) /\ DOMAIN <<>> = {}
    BY EmptySeq
  <2> QED
    BY <2>1, <2>2, StartRunAnswering
<1> QED
  BY <1>1, <1>2

\* The steps that persist what the run holds and go on.
LEMMA PersistAnswering ==
    ASSUME Core, Answering, UserMessageEnd \/ ReplyEnd \/ ResultEnd
    PROVE  Answering'
<1>1. up /\ at \in RunPlaces /\ Persist(live) /\ live' = live /\ unwound' = unwound
  BY DEF UserMessageEnd, ReplyEnd, ResultEnd, RunPlaces
<1>2. ~unwound /\ FileClosed(file) /\ ClosedFrom(live, count)
  BY <1>1 DEF Answering, CallsClosed, RunClosed
<1>3. live \in Seq(Message)
  BY <1>1, InStep
<1>4. FileClosed(file') /\ count' = Len(live)
  BY <1>1, <1>2, <1>3, StartsSame, PersistClosed
<1>5. ClosedFrom(live', count')
  <2>1. \A k \in count' + 1..Len(live') : FALSE
    <3>1. Len(live) \in Nat /\ count' = Len(live) /\ live' = live
      BY <1>1, <1>3, <1>4
    <3> QED
      BY <3>1
  <2> QED
    BY <2>1 DEF ClosedFrom
<1>6. /\ at' \in {"injecting", "streaming", "answered", "turnEnd"} => Open(live') = {}
      /\ at' \in {"tool", "returned"} => Open(live') \subseteq Range(todo')
  <2>1. CASE UserMessageEnd \/ ReplyEnd
    <3>1. at \in {"injecting", "streaming"} /\ at' \in {"streaming", "answered"}
      BY <2>1 DEF UserMessageEnd, ReplyEnd
    <3>2. Open(live) = {}
      BY <1>1, <3>1 DEF Answering, CallsClosed, RunClosed
    <3> QED
      BY <1>1, <3>1, <3>2
  <2>2. CASE ResultEnd
    <3>1. at = "tool" /\ at' = "returned" /\ todo' = todo
      BY <2>2 DEF ResultEnd
    <3>2. Open(live) \subseteq Range(todo)
      BY <1>1, <3>1 DEF Answering, CallsClosed, RunClosed
    <3> QED
      BY <1>1, <3>1, <3>2
  <2> QED
    BY <2>1, <2>2
<1> QED
  BY <1>1, <1>2, <1>4, <1>5, <1>6 DEF Answering, CallsClosed, RunClosed, FileClosed, EntryClosed

LEMMA AppendReplyAnswering ==
    ASSUME Core, Answering, AppendReply
    PROVE  Answering'
<1>1. /\ up /\ at = "answered" /\ at \in RunPlaces /\ live' = Append(live, reply)
      /\ todo' = IF reply.stop = "done" THEN reply.calls ELSE <<>>
      /\ at' = IF reply.stop # "done" THEN "closing"
               ELSE IF reply.calls = <<>> THEN "turnEnd" ELSE "tool"
      /\ file' = file /\ count' = count /\ unwound' = unwound
  BY DEF AppendReply, disk, history, RunPlaces
<1>2. reply \in AssistantMessages
  BY <1>1 DEF Core, TypeOK, RunShape
<1>3. reply \in Message /\ reply.kind = "assistant" /\ CallsOf(reply) = Range(reply.calls)
  BY <1>2 DEF Message, AssistantMessages, CallsOf
<1>4. Open(live) = {}
  BY <1>1 DEF Answering, CallsClosed, RunClosed
<1>5. ClosedFrom(live', count) /\ Open(live') \subseteq Range(reply.calls)
  BY <1>1, <1>3, <1>4, AppendAnswering
<1>6. reply.calls = <<>> => Range(reply.calls) = {}
  BY DEF Range
<1> QED
  BY <1>1, <1>5, <1>6 DEF Answering, CallsClosed, RunClosed, FileClosed, EntryClosed

LEMMA AppendResultAnswering ==
    ASSUME Core, Answering, AppendResult
    PROVE  Answering'
<1> DEFINE c == Head(todo)
<1>1. /\ up /\ at = "returned" /\ at \in RunPlaces /\ live' = Append(live, Result(c))
      /\ todo' = Tail(todo)
      /\ at' = IF Tail(todo) = <<>> THEN "turnEnd" ELSE "tool"
      /\ file' = file /\ count' = count /\ unwound' = unwound
  BY DEF AppendResult, disk, history, RunPlaces
<1>2. todo \in Seq(Nat) /\ todo # <<>>
  BY <1>1 DEF Core, TypeOK, RunShape
<1>3. Result(c) \in Message
  BY <1>1, ResultType
<1>4. Result(c).kind = "result"
  BY Kinds
<1>5. Range(todo) \ {c} \subseteq Range(Tail(todo))
  <2> SUFFICES ASSUME NEW k \in DOMAIN todo, todo[k] # Head(todo)
               PROVE  \E l \in DOMAIN Tail(todo) : Tail(todo)[l] = todo[k]
    BY DEF Range
  <2>1. /\ Len(todo) \in Nat /\ Len(todo) > 0 /\ DOMAIN todo = 1..Len(todo) /\ Head(todo) = todo[1]
        /\ DOMAIN Tail(todo) = 1..Len(todo) - 1
        /\ \A l \in 1..Len(todo) - 1 : Tail(todo)[l] = todo[l + 1]
    BY <1>2
  <2>2. k - 1 \in 1..Len(todo) - 1 /\ (k - 1) + 1 = k
    BY <2>1
  <2>3. Tail(todo)[k - 1] = todo[k]
    BY <2>1, <2>2
  <2> QED
    BY <2>1, <2>2, <2>3
<1> HIDE DEF c
<1>6. ClosedFrom(live', count) /\ Open(live') \subseteq Open(live) \ {c}
  BY <1>1, <1>3, <1>4, AppendAnswering
<1>7. Open(live) \subseteq Range(todo)
  BY <1>1 DEF Answering, CallsClosed, RunClosed
<1>8. Open(live') \subseteq Range(todo')
  BY <1>1, <1>5, <1>6, <1>7
<1>9. Tail(todo) = <<>> => Range(Tail(todo)) = {}
  BY DEF Range
<1> QED
  BY <1>1, <1>6, <1>8, <1>9 DEF Answering, CallsClosed, RunClosed, FileClosed, EntryClosed

LEMMA TurnEndAnswering ==
    ASSUME Core, OrderInv, Answering, TurnEnd
    PROVE  Answering'
<1>1. /\ up /\ at = "turnEnd" /\ at \in RunPlaces
      /\ file' = file /\ count' = count /\ unwound' = unwound
      /\ \/ live' = Append(live, User(users + 1)) /\ at' = "injecting"
         \/ live' = live /\ at' \in {"streaming", "closing"}
  BY DEF TurnEnd, disk, history, RunPlaces, runVars
<1>2. Open(live) = {} /\ ClosedFrom(live, count)
  BY <1>1 DEF Answering, CallsClosed, RunClosed
<1>3. CASE live' = Append(live, User(users + 1)) /\ at' = "injecting"
  <2>1. User(users + 1) \in Message /\ User(users + 1).kind = "user" /\ CallsOf(User(users + 1)) = {}
    BY <1>1, FreshUser
  <2>2. ClosedFrom(live', count) /\ Open(live') \subseteq Open(live) \cup CallsOf(User(users + 1))
    BY <1>1, <1>3, <2>1, AppendAnswering
  <2> QED
    BY <1>1, <1>2, <1>3, <2>1, <2>2 DEF Answering, CallsClosed, RunClosed, FileClosed, EntryClosed
<1>4. CASE live' = live /\ at' \in {"streaming", "closing"}
  BY <1>1, <1>2, <1>4 DEF Answering, CallsClosed, RunClosed, FileClosed, EntryClosed
<1> QED
  BY <1>1, <1>3, <1>4

LEMMA CloseAnswering ==
    ASSUME Core, OrderInv, Answering, Close
    PROVE  Answering'
<1>1. /\ up /\ at \in RunPlaces /\ Persist(live') /\ unwound' = unwound
      /\ live' = IF cancelled THEN Repaired(live) ELSE live
      /\ at' \in {"overflowed", "settling"}
  BY DEF Close, RunPlaces, history
<1>2. ~unwound /\ FileClosed(file) /\ ClosedFrom(live, count)
  BY <1>1 DEF Answering, CallsClosed, RunClosed
<1>3. live \in Seq(Message) /\ count \in 0..Len(live)
  BY <1>1, InStep
<1>4. Starts(live, live') /\ ClosedFrom(live', count)
  <2>1. CASE ~cancelled
    BY <2>1, <1>1, <1>2, <1>3, StartsSame
  <2>2. CASE cancelled
    <3>1. PICK t \in Seq(Message) :
             /\ Repaired(live) = live \o t
             /\ \A k \in DOMAIN t : \E c \in 1..calls : t[k] = Result(c)
      BY <1>1, RepairBehind
    <3>2. live' = live \o t
      BY <2>2, <3>1, <1>1
    <3>3. Starts(live, live')
      BY <3>2, <1>3, StartsJoin
    <3>4. /\ Len(live') = Len(live) + Len(t) /\ Len(live) \in Nat /\ Len(t) \in Nat
          /\ DOMAIN t = 1..Len(t) /\ \A k \in 1..Len(t) : live'[Len(live) + k] = t[k]
      BY <3>2, <1>3
    <3>5. ASSUME NEW k \in Len(live) + 1..Len(live') PROVE live'[k].kind # "assistant"
      <4> DEFINE l == k - Len(live)
      <4>1. l \in 1..Len(t) /\ Len(live) + l = k
        BY <3>4
      <4> HIDE DEF l
      <4>2. live'[k] = t[l] /\ \E c \in 1..calls : t[l] = Result(c)
        BY <4>1, <3>1, <3>4
      <4> QED
        BY <4>2, Kinds
    <3> QED
      BY <3>3, <3>5, <1>2, <1>3, ClosedGrows
  <2> QED
    BY <2>1, <2>2
<1>5. FileClosed(file')
  BY <1>1, <1>2, <1>4, PersistClosed
<1>6. at' \notin RunPlaces
  BY <1>1 DEF RunPlaces
<1> QED
  BY <1>1, <1>2, <1>5, <1>6 DEF Answering, CallsClosed, RunClosed, FileClosed, EntryClosed

LEMMA FinishCompactionAnswering ==
    ASSUME Core, Answering, FinishCompaction
    PROVE  FileClosed(file')
<1> DEFINE id == Len(Base) + 1
           e == CompactionEntry(lastParent, plan)
           es == <<e, LeafEntry(id)>>
<1>1. up /\ Store(es)
  BY DEF FinishCompaction
<1>2. Len(Base) \in Nat /\ lastParent \in 0..Len(Base)
  BY <1>1, Here
<1>3. e \in Entry /\ e.parent = lastParent /\ e.type = "compaction" /\ e.type # "leaf" /\ e.type # "message"
  <2>1. plan \subseteq Nat
    <3>1. plan \subseteq DOMAIN file /\ file \in Seq(Entry)
      BY ONLY Core DEF Core, TypeOK
    <3> QED
      BY ONLY <3>1
  <2> QED
    BY <1>2, <2>1 DEF CompactionEntry, Entry
<1> HIDE DEF e
<1>4. id \in 0..Len(Base) + 1
  BY <1>2
<1>5. Fits(Len(Base), es) /\ Len(es) = 2 /\ es[1] = e /\ es[2] = LeafEntry(id)
  BY <1>2, <1>3, <1>4, PairFits
<1>6. LeafEntry(id).type = "leaf"
  BY DEF LeafEntry
<1> HIDE DEF es
<1>7. \A k \in 1..Len(es) : es[k].type # "message"
  BY <1>3, <1>5, <1>6
<1> QED
  BY <1>1, <1>5, <1>7, StoreQuiet DEF Answering, CallsClosed

LEMMA BranchAnswering ==
    ASSUME Core, Answering, Branch \/ FinishBranchSummary
    PROVE  FileClosed(file')
<1>1. \A t : LeafEntry(t).type = "leaf"
  BY DEF LeafEntry
<1>2. CASE Branch
  <2>1. PICK target \in 0..Len(Base) :
           /\ Activate(<<>>, target)
           /\ Fits(Len(Base), Append(<<>>, LeafEntry(target)))
           /\ Append(<<>>, LeafEntry(target)) = <<LeafEntry(target)>>
    BY <1>2, BranchFits
  <2> DEFINE es == <<LeafEntry(target)>>
  <2>2. Fits(Len(Base), es) /\ Store(es)
    BY <2>1 DEF Activate
  <2>3. Len(es) = 1 /\ es[1] = LeafEntry(target)
    OBVIOUS
  <2> HIDE DEF es
  <2>4. \A k \in 1..Len(es) : es[k].type # "message"
    BY <1>1, <2>3
  <2> QED
    BY <2>2, <2>4, StoreQuiet DEF Answering, CallsClosed
<1>3. CASE FinishBranchSummary
  <2> DEFINE e == BranchSummaryEntry(branch)
             t == Len(Base) + 1
             es == <<e, LeafEntry(t)>>
  <2>1. /\ e.type = "branch_summary" /\ Activate(<<e>>, t)
        /\ Fits(Len(Base), es) /\ Append(<<e>>, LeafEntry(t)) = es
    BY <1>3, SummaryFits
  <2>2. Store(es)
    BY <2>1 DEF Activate
  <2> HIDE DEF e, t
  <2>3. Len(es) = 2 /\ es[1] = e /\ es[2] = LeafEntry(t)
    OBVIOUS
  <2> HIDE DEF es
  <2>4. \A k \in 1..Len(es) : es[k].type # "message"
    BY <1>1, <2>1, <2>3
  <2> QED
    BY <2>1, <2>2, <2>4, StoreQuiet DEF Answering, CallsClosed
<1> QED
  BY <1>2, <1>3

LEMMA StoreMetaAnswering ==
    ASSUME Core, Answering, StoreMeta
    PROVE  FileClosed(file')
<1> DEFINE e == MetaEntry(lastParent)
           t == Len(Base) + 1
           es == <<e, LeafEntry(t)>>
<1>1. up /\ Store(es)
  BY DEF StoreMeta
<1>2. Len(Base) \in Nat /\ lastParent \in 0..Len(Base)
  BY <1>1, Here
<1>3. e \in Entry /\ e.parent \in 0..Len(Base) /\ e.type # "message" /\ e.type # "leaf"
  BY <1>2 DEF MetaEntry, Entry
<1> HIDE DEF e
<1>4. t \in 0..Len(Base) + 1
  BY <1>2
<1>5. Fits(Len(Base), es) /\ Len(es) = 2 /\ es[1] = e /\ es[2] = LeafEntry(t)
  BY <1>2, <1>3, <1>4, PairFits
<1>6. LeafEntry(t).type = "leaf"
  BY DEF LeafEntry
<1> HIDE DEF es
<1>7. \A k \in 1..Len(es) : es[k].type # "message"
  BY <1>3, <1>5, <1>6
<1> QED
  BY <1>1, <1>5, <1>7, StoreQuiet DEF Answering, CallsClosed

LEMMA TerminalAnswering ==
    ASSUME Core, OrderInv, Answering, TerminalCommand
    PROVE  FileClosed(file')
<1> DEFINE u == User(users + 1)
           ms == <<u>>
           es == Burst(Len(Base), lastParent, ms)
           node == [j \in 0..Len(ms) |-> IF j = 0 THEN lastParent ELSE Len(Base) + 2 * j - 1]
<1>1. up /\ Store(MessageEntries(lastParent, ms))
  BY DEF TerminalCommand
<1>2. /\ Base \in Seq(Entry) /\ IsTree(Base) /\ Len(Base) \in Nat /\ lastParent \in 0..Len(Base)
      /\ file \in Seq(Entry) /\ IsTree(file)
  BY <1>1, Here DEF Core, TypeOK
<1>3. u \in Message /\ u.kind = "user"
  BY <1>1, FreshUser
<1> HIDE DEF u
<1>4. ms \in Seq(Message) /\ Len(ms) = 1 /\ ms[1] = u
  BY <1>3
<1> HIDE DEF ms
<1>5. MessageEntries(lastParent, ms) = es
  BY DEF MessageEntries, Burst
<1>6. Fits(Len(Base), es) /\ Chained(Base, Base \o es, node, ms)
  BY <1>2, <1>4, BurstFits, BurstChain
<1> HIDE DEF es, node
<1>7. \A j \in 1..Len(ms) : ms[j].kind # "assistant"
  BY <1>3, <1>4
<1>8. FileClosed(Base) => FileClosed(Base \o es)
  BY <1>6, <1>7, ChainClosed
<1> QED
  BY <1>1, <1>2, <1>5, <1>6, <1>8, StoreClosed DEF Answering, CallsClosed

\* A load keeps the file closed, also if it dies while it writes a repair.
LEMMA LoadAnswering ==
    ASSUME Core, OrderInv, Load, FileClosed(file)
    PROVE  FileClosed(file')
<1>1. /\ file \in Seq(Entry) /\ IsTree(file) /\ FileInOrder(file)
  BY DEF Core, TypeOK, OrderInv
<1>2. /\ stored \in Seq(Message) /\ stored = Transcript(file, ActiveLeaf(file))
      /\ ActiveLeaf(file) \in 0..Len(file)
      /\ \/ file' = file
         \/ \E more, end : RepairWritten(more, end)
  BY LoadForm
<1>3. CASE \E more, end : RepairWritten(more, end)
  <2>1. PICK more, end : RepairWritten(more, end)
    BY <1>3
  <2>2. Base = file /\ RepairStored(file \o more, end) /\ Fits(Len(file), more) /\ Store(more)
    BY <2>1 DEF RepairWritten
  <2>3. PICK same, w, node, h, d :
          Recovers(file, file \o more, end, stored, Recovered(stored), same, w, node, h, d)
    BY <2>2 DEF RepairStored
  <2>4. ClosedFrom(stored, 0)
    BY <1>1, <1>2, TranscriptClosed
  <2>5. FileClosed(file \o more)
    BY <2>3, <2>4, <1>1, <1>2, RepairAnswers
  <2> QED
    BY <2>2, <2>5, <1>1, StoreClosed
<1> QED
  BY <1>2, <1>3

LEMMA NextAnswering ==
    ASSUME Core, OrderInv, Answering, ~TaskCancel, [Next]_vars
    PROVE  Answering'
<1>1. CASE RunStep
  <2>1. CASE Prompt \/ Overflowed \/ Settle
    <3>1. UNCHANGED <<file, unwound>> /\ at' \notin RunPlaces
      BY <2>1 DEF Prompt, Overflowed, Settle, Settled, StartCompaction, disk, history, RunPlaces
    <3> QED
      BY <3>1, AtRest
  <2> QED
    BY <1>1, <2>1, RunBeginsAnswering, PersistAnswering, AppendReplyAnswering,
       AppendResultAnswering, TurnEndAnswering, CloseAnswering DEF RunStep
<1>2. CASE Rewriting
  <2>1. FileClosed(file')
    <3>1. CASE Compact \/ AbandonCompaction \/ StartBranchSummary \/ AbandonBranch
      <4>1. file' = file
        BY <3>1 DEF Compact, StartCompaction, AbandonCompaction, StartBranchSummary, AbandonBranch, disk
      <4> QED
        BY <4>1 DEF Answering, CallsClosed
    <3> QED
      BY <1>2, <3>1, FinishCompactionAnswering, BranchAnswering DEF Rewriting
  <2>2. unwound' = unwound
    BY <1>2 DEF Rewriting, Compact, StartCompaction, FinishCompaction, AbandonCompaction, Branch,
                StartBranchSummary, FinishBranchSummary, AbandonBranch, history
  <2>3. at' \notin RunPlaces
    <3>1. then \in {"idle", "prompting", "retrying"} /\ (branch # 0 => at = "idle")
      BY DEF Core, TypeOK, RunShape
    <3>2. CASE Compact \/ FinishCompaction \/ AbandonCompaction
      BY <3>1, <3>2 DEF Compact, StartCompaction, FinishCompaction, AbandonCompaction, RunPlaces
    <3>3. CASE Branch \/ StartBranchSummary \/ FinishBranchSummary \/ AbandonBranch
      BY <3>1, <3>3 DEF Branch, StartBranchSummary, FinishBranchSummary, AbandonBranch, RunPlaces
    <3> QED
      BY <1>2, <3>2, <3>3 DEF Rewriting
  <2> QED
    BY <2>1, <2>2, <2>3 DEF Answering, CallsClosed, RunClosed, FileClosed, EntryClosed
<1>3. CASE Other
  <2>1. CASE Load
    <3>1. FileClosed(file') /\ unwound' = FALSE /\ at' = "idle"
      BY <2>1, LoadAnswering DEF Answering, CallsClosed, Load
    <3> QED
      BY <3>1 DEF Answering, CallsClosed, RunClosed, RunPlaces, FileClosed, EntryClosed
  <2>2. CASE TerminalCommand
    <3>1. FileClosed(file') /\ unwound' = unwound /\ at' \notin RunPlaces
      BY <2>2, TerminalAnswering DEF TerminalCommand, history, RunPlaces
    <3> QED
      BY <3>1 DEF Answering, CallsClosed, RunClosed, FileClosed, EntryClosed
  <2>3. CASE StoreMeta
    <3>1. FileClosed(file') /\ UNCHANGED <<unwound, at, live, count, todo>> /\ up
      BY <2>3, StoreMetaAnswering DEF StoreMeta, history, runVars
    <3> QED
      BY <3>1 DEF Answering, CallsClosed, RunClosed, FileClosed, EntryClosed
  <2>4. CASE Cancel
    <3>1. UNCHANGED <<file, unwound, up, at, live, count, todo>>
      BY <2>4 DEF Cancel, disk, history
    <3> QED
      BY <3>1 DEF Answering, CallsClosed, RunClosed, FileClosed, EntryClosed
  <2>5. CASE Crash
    <3>1. UNCHANGED <<file, unwound>> /\ ~up'
      BY <2>5 DEF Crash, disk, history
    <3> QED
      BY <3>1, AtRest
  <2>6. ~CancelTask
    BY DEF CancelTask
  <2> QED
    BY <1>3, <2>1, <2>2, <2>3, <2>4, <2>5, <2>6 DEF Other
<1>4. CASE UNCHANGED vars
  <2>1. UNCHANGED <<file, unwound, up, at, live, count, todo>>
    BY <1>4 DEF vars, disk, history, runVars
  <2> QED
    BY <2>1 DEF Answering, CallsClosed, RunClosed, FileClosed, EntryClosed
<1> QED
  BY <1>1, <1>2, <1>3, <1>4 DEF Next

LEMMA NextLoads ==
    ASSUME Core, Core', OrderInv, Answering, [Next]_vars, ~up, up'
    PROVE  Open(live') = {}
<1>1. Load
  <2>1. ~UNCHANGED vars
    BY DEF vars
  <2>2. ~RunStep
    BY DEF RunStep, Prompt, StartPrompt, Continue, Retry, UserMessageEnd, ReplyEnd, AppendReply,
           ResultEnd, AppendResult, TurnEnd, Close, Overflowed, Settle
  <2>3. ~Rewriting
    BY DEF Rewriting, Compact, FinishCompaction, AbandonCompaction, Branch, StartBranchSummary,
           FinishBranchSummary, AbandonBranch
  <2> QED
    BY <2>1, <2>2, <2>3 DEF Next, Other, TerminalCommand, StoreMeta, Cancel, CancelTask, Crash
<1>2. Open(stored') = {} /\ at' = "idle"
  BY <1>1, LoadClosed DEF Answering, CallsClosed
<1>3. live' = stored'
  <2>1. unwound' = FALSE
    BY <1>1 DEF Load
  <2>2. SettledDurable'
    BY ONLY Core' DEF Core
  <2> QED
    BY <1>2, <2>1, <2>2 DEF SettledDurable, RunPlaces
<1> QED
  BY <1>2, <1>3

\* As long as no task of a run is cancelled, a session that is loaded leaves no call
\* open, whatever was compacted, branched or cut short by a crash, the writing of an
\* earlier repair included (_persist_loaded_interrupted_tool_repairs).
THEOREM LoadsAnswer == Spec => LoadAnswers
<1>1. Init => Answering
  BY DEF Init, Answering, CallsClosed, RunClosed, FileClosed
<1>2. Core /\ OrderInv /\ (TaskCancel \/ Answering) /\ [Next]_vars => (TaskCancel \/ Answering)'
  BY NextAnswering
<1>3. /\ Core /\ OrderInv /\ (TaskCancel \/ Answering) /\ [Next]_vars /\ Core'
      => [~TaskCancel /\ ~up /\ up' => Open(live') = {}]_vars
  BY NextLoads
<1>4. Spec => [](Core /\ OrderInv /\ SavedInOrder)
  BY OrderAlways
<1> QED
  BY <1>1, <1>2, <1>3, <1>4, PTL DEF Spec, LoadAnswers
=============================================================================
