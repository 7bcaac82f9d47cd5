--------------------------- MODULE WebTrace_proofs ---------------------------
(***************************************************************************)
(* The event trace of a web session, for every limit, number of browsers   *)
(* and number of faults: TraceFaithful is an inductive invariant.          *)
(***************************************************************************)
EXTENDS WebTrace, SequenceTheorems, WellFoundedInduction, TLAPS

USE TraceAssumption

-----------------------------------------------------------------------------
(* The lines that parse.                                                   *)

LEMMA Entries ==
    ASSUME NEW S, NEW q \in Seq(S)
    PROVE  Len(q) \in Nat /\ DOMAIN q = 1 .. Len(q) /\ \A i \in DOMAIN q : q[i] \in S
OBVIOUS

LEMMA Joined ==
    ASSUME NEW S, NEW s \in Seq(S), NEW t \in Seq(S)
    PROVE  s \o t \in Seq(S) /\ Len(s \o t) = Len(s) + Len(t)
OBVIOUS

LEMMA Lowest ==
    ASSUME NEW T, T \subseteq Nat, T # {}
    PROVE  \E x \in T : \A y \in T : x <= y
<1> DEFINE R == {ss \in Nat \X Nat : ss[1] < ss[2]}
<1>1. IsWellFoundedOn(R, Nat)
  BY NatLessThanWellFounded DEF OpToRel
<1>2. \E x \in T : \A y \in T : ~(<<y, x>> \in R)
  <2> HIDE DEF R
  <2> QED
    BY <1>1, WFMin
<1>3. ASSUME NEW x \in T, NEW y \in T, ~(x <= y)
      PROVE  <<y, x>> \in R
  <2>1. y < x
    BY <1>3
  <2> QED
    BY <2>1
<1> QED
  BY <1>2, <1>3

\* The recursion of Readable has a solution.
LEMMA ReadSteps ==
    ASSUME NEW s \in Seq(Nat)
    PROVE  \E read : /\ Readable(s) = read[Len(s)]
                     /\ read[0] = <<>>
                     /\ \A i \in 1 .. Len(s) :
                           read[i] = IF s[i] = Junk THEN read[i - 1] ELSE Append(read[i - 1], s[i])
<1> DEFINE n == Len(s)
           Step(g, i) == IF i = 0 THEN <<>>
                         ELSE IF s[i] = Junk THEN g[i - 1] ELSE Append(g[i - 1], s[i])
           Defines(g, m) == g = [i \in 0 .. m |-> Step(g, i)]
           Bad == {m \in 0 .. n : ~ \E g : Defines(g, m)}
<1>0. n \in Nat
  OBVIOUS
<1>1. Bad = {}
  <2> SUFFICES ASSUME Bad # {} PROVE FALSE
    OBVIOUS
  <2>1. PICK m \in Bad : \A y \in Bad : m <= y
    <3> HIDE DEF Defines
    <3>1. Bad \subseteq Nat
      BY <1>0
    <3> HIDE DEF Bad
    <3> QED
      BY <3>1, Lowest
  <2>2. CASE m = 0
    <3>1. Defines([i \in 0 .. 0 |-> <<>>], 0)
      OBVIOUS
    <3> HIDE DEF Defines
    <3> QED
      BY <2>2, <3>1, <2>1
  <2>3. CASE m # 0
    <3>1. m \in 1 .. n /\ m - 1 \in 0 .. n /\ m - 1 \notin Bad
      <4> HIDE DEF Defines
      <4>1. m \in 0 .. n
        OBVIOUS
      <4> HIDE DEF Bad
      <4> QED
        BY <4>1, <2>1, <2>3, <1>0
    <3>2. PICK g : Defines(g, m - 1)
      <4> HIDE DEF Defines
      <4> QED
        BY <3>1
    <3> DEFINE h == [i \in 0 .. m |-> IF i = m THEN Step(g, m) ELSE g[i]]
    <3>3. ASSUME NEW i \in 0 .. m
          PROVE  h[i] = Step(h, i)
      <4>1. CASE i = m
        <5>1. h[m - 1] = g[m - 1]
          BY <3>1, <1>0
        <5>2. h[i] = Step(g, m)
          BY <4>1
        <5> HIDE DEF h
        <5> QED
          BY <5>1, <5>2, <4>1
      <4>2. CASE i # m
        <5>1. i \in 0 .. m - 1 /\ h[i] = g[i]
          BY <4>2, <3>1, <1>0
        <5>2. g[i] = Step(g, i)
          <6> HIDE DEF Step
          <6> QED
            BY <3>2, <5>1
        <5>3. i # 0 => h[i - 1] = g[i - 1]
          BY <4>2, <3>1, <1>0
        <5> HIDE DEF h
        <5> QED
          BY <5>1, <5>2, <5>3
      <4> QED
        BY <4>1, <4>2
    <3>4. Defines(h, m)
      <4>1. h = [i \in 0 .. m |-> h[i]]
        OBVIOUS
      <4> HIDE DEF h, Step
      <4> QED
        BY <4>1, <3>3
    <3> HIDE DEF Defines, h
    <3> QED
      BY <3>4, <2>1
  <2> QED
    BY <2>2, <2>3
<1>2. \E g : Defines(g, n)
  <2> HIDE DEF Defines
  <2> QED
    BY <1>1, <1>0
<1> DEFINE read == CHOOSE g : Defines(g, n)
<1>3. Defines(read, n)
  <2> HIDE DEF Defines
  <2> QED
    BY <1>2
<1>4. Readable(s) = read[n]
  BY DEF Readable
<1>5. \A i \in 0 .. n : read[i] = Step(read, i)
  <2> HIDE DEF Step
  <2> HIDE DEF read
  <2> QED
    BY <1>3
<1>6. read[0] = <<>>
  <2> HIDE DEF read
  <2> QED
    BY <1>5, <1>0
<1>7. ASSUME NEW i \in 1 .. n
      PROVE  read[i] = IF s[i] = Junk THEN read[i - 1] ELSE Append(read[i - 1], s[i])
  <2> HIDE DEF read
  <2> QED
    BY <1>5, <1>0
<1> HIDE DEF read
<1> QED
  BY <1>4, <1>6, <1>7

\* Events in order, whatever stands between them.
Ordered(s) == \A i, j \in DOMAIN s : i < j /\ s[i] # Junk /\ s[j] # Junk => s[i] < s[j]

LEMMA ReadableProperties ==
    ASSUME NEW s \in Seq(Events \cup {Junk})
    PROVE  /\ Readable(s) \in Seq(Events) /\ Len(Readable(s)) <= Len(s)
           /\ In(Readable(s)) = In(s) \ {Junk}
           /\ Ordered(s) => Ordered(Readable(s))
           /\ Junk \notin In(s) => Len(Readable(s)) = Len(s)
<1> DEFINE n == Len(s)
<1>1. n \in Nat /\ s \in Seq(Nat) /\ DOMAIN s = 1 .. n
  BY DEF Events, Junk
<1>2. PICK read : /\ Readable(s) = read[n]
                  /\ read[0] = <<>>
                  /\ \A i \in 1 .. n :
                        read[i] = IF s[i] = Junk THEN read[i - 1] ELSE Append(read[i - 1], s[i])
  BY <1>1, ReadSteps
<1> DEFINE Good(m) ==
               /\ read[m] \in Seq(Events) /\ Len(read[m]) <= m
               /\ \A k \in 1 .. Len(read[m]) : \E i \in 1 .. m : s[i] # Junk /\ read[m][k] = s[i]
               /\ \A i \in 1 .. m : s[i] # Junk => \E k \in 1 .. Len(read[m]) : read[m][k] = s[i]
               /\ Ordered(s) => \A k, l \in 1 .. Len(read[m]) : k < l => read[m][k] < read[m][l]
               /\ (\A i \in 1 .. m : s[i] # Junk) => Len(read[m]) = m
           Bad == {m \in 0 .. n : ~Good(m)}
<1> HIDE DEF n
<1>3. Bad = {}
  <2> SUFFICES ASSUME Bad # {} PROVE FALSE
    OBVIOUS
  <2>1. PICK m \in Bad : \A y \in Bad : m <= y
    <3> HIDE DEF Good
    <3>1. Bad \subseteq Nat
      BY <1>1
    <3> HIDE DEF Bad
    <3> QED
      BY <3>1, Lowest
  <2>2. m \in 0 .. n /\ ~Good(m)
    BY <2>1
  <2>3. CASE m = 0
    <3>1. read[0] \in Seq(Events) /\ Len(read[0]) = 0
      BY <1>2
    <3> QED
      BY <2>2, <2>3, <3>1
  <2>4. CASE m # 0
    <3>1. m \in 1 .. n /\ m - 1 \in 0 .. n /\ m - 1 \in Nat /\ m \in Nat
      BY <2>2, <2>4, <1>1
    <3>2. Good(m - 1)
      <4>1. m - 1 \notin Bad
        <5> HIDE DEF Good
        <5> HIDE DEF Bad
        <5> QED
          BY <3>1, <2>1
      <4> HIDE DEF Good
      <4> QED
        BY <4>1, <3>1
    <3> DEFINE p == read[m - 1]
               q == read[m]
    <3>3. q = IF s[m] = Junk THEN p ELSE Append(p, s[m])
      BY <1>2, <3>1
    <3>4. /\ p \in Seq(Events) /\ Len(p) <= m - 1 /\ Len(p) \in Nat
          /\ \A k \in 1 .. Len(p) : \E i \in 1 .. m - 1 : s[i] # Junk /\ p[k] = s[i]
          /\ \A i \in 1 .. m - 1 : s[i] # Junk => \E k \in 1 .. Len(p) : p[k] = s[i]
          /\ Ordered(s) => \A k, l \in 1 .. Len(p) : k < l => p[k] < p[l]
          /\ (\A i \in 1 .. m - 1 : s[i] # Junk) => Len(p) = m - 1
      BY <3>2
    <3>5. s[m] \in Events \cup {Junk}
      BY <3>1, <1>1
    <3> HIDE DEF p, q, Good
    <3>6. CASE s[m] = Junk
      <4>1. q = p
        BY <3>3, <3>6
      <4>2. Len(q) <= m
        BY <4>1, <3>1, <3>4
      <4>3. \A k \in 1 .. Len(q) : \E i \in 1 .. m : s[i] # Junk /\ q[k] = s[i]
        <5>1. \A i \in 1 .. m - 1 : i \in 1 .. m
          BY <3>1
        <5> QED
          BY <5>1, <4>1, <3>4
      <4>4. \A i \in 1 .. m : s[i] # Junk => \E k \in 1 .. Len(q) : q[k] = s[i]
        <5>1. \A i \in 1 .. m : i # m => i \in 1 .. m - 1
          BY <3>1
        <5> QED
          BY <5>1, <4>1, <3>4, <3>6
      <4>5. (\A i \in 1 .. m : s[i] # Junk) => Len(q) = m
        BY <3>1, <3>6
      <4> QED
        BY <4>1, <4>2, <4>3, <4>4, <4>5, <3>4, <2>2 DEF Good, q
    <3>7. CASE s[m] # Junk
      <4>1. /\ q \in Seq(Events) /\ Len(q) = Len(p) + 1
            /\ \A k \in 1 .. Len(p) : q[k] = p[k]
            /\ q[Len(p) + 1] = s[m]
        BY <3>3, <3>4, <3>5, <3>7
      <4>2. Len(q) <= m
        BY <4>1, <3>1, <3>4
      <4>3. ASSUME NEW k \in 1 .. Len(q)
            PROVE  \E i \in 1 .. m : s[i] # Junk /\ q[k] = s[i]
        <5>1. CASE k = Len(p) + 1
          BY <5>1, <4>1, <3>1, <3>7
        <5>2. CASE k # Len(p) + 1
          <6>1. k \in 1 .. Len(p) /\ q[k] = p[k]
            BY <5>2, <4>1, <3>4
          <6>2. PICK i \in 1 .. m - 1 : s[i] # Junk /\ p[k] = s[i]
            BY <6>1, <3>4
          <6>3. i \in 1 .. m
            BY <6>2, <3>1
          <6> QED
            BY <6>1, <6>2, <6>3
        <5> QED
          BY <5>1, <5>2
      <4>4. ASSUME NEW i \in 1 .. m, s[i] # Junk
            PROVE  \E k \in 1 .. Len(q) : q[k] = s[i]
        <5>1. CASE i = m
          BY <5>1, <4>1, <3>4
        <5>2. CASE i # m
          <6>1. i \in 1 .. m - 1
            BY <5>2, <3>1
          <6>2. PICK k \in 1 .. Len(p) : p[k] = s[i]
            BY <6>1, <4>4, <3>4
          <6>3. k \in 1 .. Len(q) /\ q[k] = s[i]
            BY <6>2, <4>1, <3>4
          <6> QED
            BY <6>3
        <5> QED
          BY <5>1, <5>2
      <4>5. ASSUME Ordered(s), NEW k \in 1 .. Len(q), NEW l \in 1 .. Len(q), k < l
            PROVE  q[k] < q[l]
        <5>1. k \in 1 .. Len(p) /\ q[k] = p[k]
          BY <4>5, <4>1, <3>4
        <5>2. CASE l = Len(p) + 1
          <6>1. PICK i \in 1 .. m - 1 : s[i] # Junk /\ p[k] = s[i]
            BY <5>1, <3>4
          <6>2. i \in DOMAIN s /\ m \in DOMAIN s /\ i < m
            BY <6>1, <3>1, <1>1
          <6>3. s[i] < s[m]
            BY <6>1, <6>2, <4>5, <3>7 DEF Ordered
          <6> QED
            BY <6>1, <6>3, <5>1, <5>2, <4>1
        <5>3. CASE l # Len(p) + 1
          <6>1. l \in 1 .. Len(p) /\ q[l] = p[l]
            BY <5>3, <4>1, <3>4
          <6> QED
            BY <6>1, <5>1, <4>5, <3>4
        <5> QED
          BY <5>2, <5>3
      <4>6. (\A i \in 1 .. m : s[i] # Junk) => Len(q) = m
        BY <4>1, <3>4, <3>1
      <4> QED
        BY <4>1, <4>2, <4>3, <4>4, <4>5, <4>6, <2>2 DEF Good, q
    <3> QED
      BY <3>6, <3>7
  <2> QED
    BY <2>3, <2>4
<1>4. Good(n)
  <2> HIDE DEF Good
  <2>1. n \notin Bad /\ n \in 0 .. n
    BY <1>3, <1>1
  <2> QED
    BY <2>1
<1> DEFINE r == Readable(s)
<1>5. /\ r \in Seq(Events) /\ Len(r) <= n
      /\ \A k \in 1 .. Len(r) : \E i \in 1 .. n : s[i] # Junk /\ r[k] = s[i]
      /\ \A i \in 1 .. n : s[i] # Junk => \E k \in 1 .. Len(r) : r[k] = s[i]
      /\ Ordered(s) => \A k, l \in 1 .. Len(r) : k < l => r[k] < r[l]
      /\ (\A i \in 1 .. n : s[i] # Junk) => Len(r) = n
  BY <1>4, <1>2
<1> HIDE DEF r
<1>6. DOMAIN r = 1 .. Len(r) /\ Len(r) \in Nat
  BY <1>5
<1>7. In(r) = In(s) \ {Junk}
  <2>1. \A b : b \in In(r) <=> \E k \in 1 .. Len(r) : b = r[k]
    BY <1>6 DEF In
  <2>2. \A b : b \in In(s) <=> \E i \in 1 .. n : b = s[i]
    BY <1>1 DEF In
  <2>3. ASSUME NEW b \in In(r) PROVE b \in In(s) \ {Junk}
    <3>1. PICK k \in 1 .. Len(r) : b = r[k]
      BY <2>1, <2>3
    <3>2. PICK i \in 1 .. n : s[i] # Junk /\ r[k] = s[i]
      BY <1>5
    <3> QED
      BY <3>1, <3>2, <2>2
  <2>4. ASSUME NEW b \in In(s) \ {Junk} PROVE b \in In(r)
    <3>1. PICK i \in 1 .. n : b = s[i]
      BY <2>2, <2>4
    <3>2. PICK k \in 1 .. Len(r) : r[k] = s[i]
      BY <1>5, <3>1, <2>4
    <3> QED
      BY <3>1, <3>2, <2>1
  <2> QED
    BY <2>3, <2>4
<1>8. Ordered(s) => Ordered(r)
  BY <1>5, <1>6 DEF Ordered
<1>9. Junk \notin In(s) => Len(r) = n
  BY <1>1, <1>5 DEF In
<1> QED
  BY <1>5, <1>7, <1>8, <1>9 DEF r, n

LEMMA NewestProperties ==
    ASSUME NEW S, NEW s \in Seq(S), NEW k \in Nat
    PROVE  /\ Newest(s, k) \in Seq(S)
           /\ Len(Newest(s, k)) = Least(k, Len(s)) /\ Len(Newest(s, k)) \in Nat
           /\ \A i \in 1 .. Len(Newest(s, k)) :
                 /\ i + (Len(s) - Least(k, Len(s))) \in 1 .. Len(s)
                 /\ Newest(s, k)[i] = s[i + (Len(s) - Least(k, Len(s)))]
<1>1. Len(s) \in Nat /\ Least(k, Len(s)) \in 0 .. Len(s)
  BY DEF Least
<1> DEFINE d == Len(s) - Least(k, Len(s))
<1>2. d \in 0 .. Len(s) /\ Len(s) - d = Least(k, Len(s))
  BY <1>1
<1>3. Newest(s, k) = SubSeq(s, d + 1, Len(s))
  BY DEF Newest
<1> HIDE DEF d
<1>4. /\ SubSeq(s, d + 1, Len(s)) \in Seq(S)
      /\ Len(SubSeq(s, d + 1, Len(s))) = Len(s) - d
      /\ \A i \in 1 .. Len(s) - d : SubSeq(s, d + 1, Len(s))[i] = s[i + d]
  BY <1>1, <1>2
<1>5. \A i \in 1 .. Len(s) - d : i + d \in 1 .. Len(s)
  BY <1>1, <1>2
<1>6. d = Len(s) - Least(k, Len(s))
  BY DEF d
<1> QED
  BY <1>1, <1>2, <1>3, <1>4, <1>5, <1>6
-----------------------------------------------------------------------------
(* The invariant, by the part of the state it is about.                    *)

ScalarsOK ==
    /\ published \in 0 .. MaxEvents /\ epoch \in 0 .. published
    /\ backfilled \in BOOLEAN /\ early \in BOOLEAN
    /\ counter \in Nat \cup {-1}
    /\ starts \in 1 .. MaxStarts /\ faults \in 0 .. MaxFaults

StreamsOK ==
    /\ connected \subseteq Clients /\ unsent \subseteq Events
    /\ queue \in [Clients -> Seq([kind : Kinds, event : 0 .. MaxEvents])]
    /\ \A c \in Clients : Len(queue[c]) <= QueueItems
    /\ taken \in [Clients -> 0 .. MaxEvents]
    /\ NoSilentGap
    /\ \A c \in Clients : InOrder(queue[c], taken[c], published)

FileOK ==
    /\ lines \in Seq(Events \cup {Junk})
    /\ ended \in BOOLEAN /\ (ended \/ lines # <<>>)
    /\ undecodable \in BOOLEAN
    /\ stored \subseteq 1 .. published
    /\ FileKeepsTail
    /\ Junk \in In(lines) \/ ~ended \/ undecodable => faults > 0

ReplayOK ==
    /\ buffer \in Seq(Events) /\ Len(buffer) <= Limit
    /\ \A b \in In(buffer) : b <= published
    /\ ReplayKeepsTail
    /\ ~backfilled /\ ~early => buffer = <<>> /\ published = epoch

LEMMA Parts == TraceFaithful => ScalarsOK /\ StreamsOK /\ FileOK /\ ReplayOK
BY DEF TraceFaithful, TypeOK, TraceTracked, ScalarsOK, StreamsOK, FileOK, ReplayOK

LEMMA Whole == ScalarsOK' /\ StreamsOK' /\ FileOK' /\ ReplayOK' => TraceFaithful'
<1> SUFFICES ASSUME ScalarsOK', StreamsOK', FileOK', ReplayOK' PROVE TraceFaithful'
  OBVIOUS
<1>1. (stored \subseteq Events)'
  BY DEF ScalarsOK, FileOK, Events
<1> QED
  BY <1>1 DEF TraceFaithful, TypeOK, TraceTracked, ScalarsOK, StreamsOK, FileOK, ReplayOK

-----------------------------------------------------------------------------
(* The queues.                                                             *)

\* An event for every connected browser.
LEMMA ServeKeeps ==
    ASSUME ScalarsOK, StreamsOK, published < MaxEvents,
           published' = published + 1, Serve(published + 1)
    PROVE  StreamsOK'
<1> DEFINE e == published + 1
<1>1. e \in 1 .. MaxEvents /\ e > published /\ published \in Nat /\ MaxEvents \in Nat
  BY DEF ScalarsOK
<1>2. /\ connected' = connected /\ taken' = taken /\ unsent' = unsent
      /\ published' = e
      /\ queue' = [c \in Clients |-> IF c \in connected THEN Served(queue[c], e) ELSE queue[c]]
  BY DEF Serve
<1> DEFINE Items == [kind : Kinds, event : 0 .. MaxEvents]
           live == Item("live", e)
           resync == Item("resync", e)
<1>3. /\ live \in Items /\ live.kind = "live" /\ live.event = e
      /\ resync \in Items /\ resync.kind = "resync" /\ resync.event = e
  BY <1>1 DEF Item, Kinds
<1>4. QueueItems \in Nat /\ 2 <= QueueItems
  BY DEF TraceAssumption
<1> HIDE DEF e, live, resync
<1>5. ASSUME NEW c \in Clients
      PROVE  /\ queue[c] \in Seq(Items) /\ Len(queue[c]) \in Nat
             /\ Len(queue[c]) <= QueueItems
             /\ InOrder(queue[c], taken[c], published) /\ taken[c] \in 0 .. MaxEvents
             /\ DOMAIN queue[c] = 1 .. Len(queue[c])
  <2>1. queue[c] \in Seq(Items)
    BY DEF StreamsOK
  <2> HIDE DEF Items
  <2> QED
    BY <2>1 DEF StreamsOK
<1>6. ASSUME NEW c \in Clients, c \in connected
      PROVE  \/ /\ queue'[c] = Append(queue[c], live)
                /\ queue'[c] \in Seq(Items)
                /\ Len(queue'[c]) = Len(queue[c]) + 1 /\ Len(queue'[c]) <= QueueItems
                /\ \A i \in 1 .. Len(queue[c]) : queue'[c][i] = queue[c][i]
                /\ queue'[c][Len(queue[c]) + 1] = live
             \/ /\ queue'[c] = <<resync, live>>
                /\ queue'[c] \in Seq(Items)
                /\ Len(queue'[c]) = 2 /\ Len(queue'[c]) <= QueueItems
                /\ queue'[c][1] = resync /\ queue'[c][2] = live
  <2>1. queue'[c] = IF Len(queue[c]) < QueueItems THEN Append(queue[c], live) ELSE <<resync, live>>
    BY <1>2, <1>6 DEF Served, live, resync
  <2>2. CASE Len(queue[c]) < QueueItems
    <3>1. queue[c] \in Seq(Items) /\ Len(queue[c]) \in Nat /\ live \in Items
      BY <1>5, <1>3
    <3> DEFINE q == queue[c]
    <3>2. q \in Seq(Items) /\ queue'[c] = Append(q, live) /\ Len(q) < QueueItems /\ Len(q) \in Nat
      BY <3>1, <2>1, <2>2
    <3> HIDE DEF q, Items
    <3>3. /\ Append(q, live) \in Seq(Items) /\ Len(Append(q, live)) = Len(q) + 1
          /\ \A i \in 1 .. Len(q) : Append(q, live)[i] = q[i]
          /\ Append(q, live)[Len(q) + 1] = live
      BY <3>1, <3>2
    <3>4. Len(q) + 1 <= QueueItems
      BY <3>2, <1>4
    <3> QED
      BY <3>2, <3>3, <3>4 DEF q
  <2>3. CASE ~(Len(queue[c]) < QueueItems)
    BY <2>1, <2>3, <1>3, <1>4
  <2> QED
    BY <2>2, <2>3
<1>7. ASSUME NEW c \in Clients, c \notin connected
      PROVE  queue'[c] = queue[c]
  BY <1>2, <1>7
<1>8. ASSUME NEW c \in Clients
      PROVE  queue'[c] \in Seq(Items) /\ Len(queue'[c]) <= QueueItems
  BY <1>5, <1>6, <1>7
<1>9. (queue \in [Clients -> Seq(Items)])'
  <2>1. queue' = [c \in Clients |-> queue'[c]]
    BY <1>2
  <2> HIDE DEF Items
  <2> QED
    BY <2>1, <1>8
<1> HIDE DEF Items
<1>10. ASSUME NEW c \in Clients
       PROVE  InOrder(queue[c], taken[c], published)'
  <2> DEFINE q == queue[c]
             r == queue'[c]
             m == Len(q)
  <2>1. /\ taken'[c] = taken[c] /\ taken[c] \in Nat /\ taken[c] <= published
        /\ \A i \in 1 .. m : Ahead(q[i]) => taken[c] < q[i].event /\ q[i].event <= published
        /\ \A i, j \in 1 .. m : i < j /\ Ahead(q[i]) /\ Ahead(q[j]) =>
              /\ q[i].event <= q[j].event
              /\ q[i].kind = "live" => q[i].event < q[j].event
        /\ m \in Nat
    BY <1>5, <1>2, <1>1 DEF InOrder
  <2>2. \A i \in 1 .. m : q[i].event \in Nat
    <3>1. \A i \in 1 .. m : q[i] \in Items
      BY <1>5
    <3> QED
      BY <3>1 DEF Items
  <2>3. r \in Seq(Items) /\ DOMAIN r = 1 .. Len(r) /\ Len(r) \in Nat
    BY <1>8
  <2>4. CASE c \notin connected
    <3>1. r = q
      BY <1>7, <2>4
    <3>2. DOMAIN r = 1 .. m
      BY <3>1, <1>5
    <3>3. \A i \in 1 .. m : Ahead(r[i]) => taken[c] < r[i].event /\ r[i].event <= e
      BY <3>1, <2>1, <2>2, <1>1
    <3> HIDE DEF q, r, m
    <3>4. taken[c] <= e
      BY <2>1, <1>1
    <3>5. InOrder(r, taken[c], e)
      BY <3>1, <3>2, <3>3, <3>4, <2>1, <1>2 DEF InOrder
    <3> QED
      BY <3>5, <2>1, <1>2 DEF r
  <2>5. CASE c \in connected /\ queue'[c] = Append(queue[c], live)
    <3>1. /\ Len(r) = m + 1 /\ r[m + 1] = live
          /\ \A i \in 1 .. m : r[i] = q[i]
      BY <1>5, <2>5, <1>3
    <3> HIDE DEF q, r, m
    <3>2. \A i \in 1 .. m + 1 : Ahead(r[i]) => taken[c] < r[i].event /\ r[i].event <= e
      <4> SUFFICES ASSUME NEW i \in 1 .. m + 1, Ahead(r[i])
                   PROVE  taken[c] < r[i].event /\ r[i].event <= e
        OBVIOUS
      <4>1. CASE i = m + 1
        BY <4>1, <3>1, <2>1, <1>1, <1>3
      <4>2. CASE i # m + 1
        <5>1. i \in 1 .. m
          BY <4>2, <2>1
        <5> QED
          BY <5>1, <3>1, <2>1, <2>2, <1>1
      <4> QED
        BY <4>1, <4>2
    <3>3. ASSUME NEW i \in 1 .. m + 1, NEW j \in 1 .. m + 1, i < j, Ahead(r[i]), Ahead(r[j])
          PROVE  /\ r[i].event <= r[j].event
                 /\ r[i].kind = "live" => r[i].event < r[j].event
      <4>1. i \in 1 .. m /\ r[i] = q[i]
        BY <3>3, <3>1, <2>1
      <4>2. CASE j = m + 1
        BY <4>1, <4>2, <3>1, <2>1, <2>2, <1>1, <1>3, <3>3
      <4>3. CASE j # m + 1
        <5>1. j \in 1 .. m /\ r[j] = q[j]
          BY <4>3, <3>1, <2>1
        <5> QED
          BY <4>1, <5>1, <2>1, <3>3
      <4> QED
        BY <4>2, <4>3
    <3>4. InOrder(r, taken[c], e)
      BY <3>1, <3>2, <3>3, <2>1, <2>3, <1>1, <1>2 DEF InOrder
    <3> QED
      BY <3>4, <2>1, <1>2 DEF r
  <2>6. CASE c \in connected /\ queue'[c] = <<resync, live>>
    <3>1. Len(r) = 2 /\ r[1] = resync /\ r[2] = live
      BY <2>6
    <3> HIDE DEF r
    <3>2. \A i \in 1 .. 2 : r[i].event = e
      BY <3>1, <1>3
    <3>3. \A i, j \in 1 .. 2 : i < j => r[i].kind = "resync"
      BY <3>1, <1>3
    <3>4. InOrder(r, taken[c], e)
      BY <3>1, <3>2, <3>3, <2>1, <2>3, <1>1, <1>2 DEF InOrder
    <3> QED
      BY <3>4, <2>1, <1>2 DEF r
  <2> QED
    BY <2>4, <2>5, <2>6, <1>6
<1>11. ASSUME NEW c \in connected, NEW x \in (taken[c] + 1 .. e) \ unsent
       PROVE  \E i \in 1 .. Len(queue'[c]) :
                 \/ queue'[c][i] = Item("live", x)
                 \/ queue'[c][i].kind = "resync" /\ x < queue'[c][i].event
  <2>1. c \in Clients /\ taken[c] \in Nat /\ x \in Nat
    BY <1>5, <1>1 DEF StreamsOK
  <2>2. CASE x = e
    <3>1. \E i \in 1 .. Len(queue'[c]) : queue'[c][i] = live
      BY <1>6, <2>1, <1>5
    <3> QED
      BY <3>1, <2>2 DEF live
  <2>3. CASE x # e
    <3>1. x \in (taken[c] + 1 .. published) \ unsent /\ x < e
      BY <2>3, <1>11, <2>1, <1>1 DEF e
    <3>2. CASE queue'[c] = <<resync, live>>
      <4>1. queue'[c][1].kind = "resync" /\ x < queue'[c][1].event /\ 1 \in 1 .. Len(queue'[c])
        BY <3>1, <3>2, <1>3
      <4> QED
        BY <4>1
    <3>3. CASE queue'[c] = Append(queue[c], live)
      <4>1. PICK i \in DOMAIN queue[c] :
                    \/ queue[c][i] = Item("live", x)
                    \/ queue[c][i].kind = "resync" /\ x < queue[c][i].event
        BY <3>1 DEF StreamsOK, NoSilentGap
      <4>2. i \in 1 .. Len(queue[c])
        BY <4>1, <2>1, <1>5
      <4>3. i \in 1 .. Len(queue'[c]) /\ queue'[c][i] = queue[c][i]
        BY <3>3, <4>2, <2>1, <1>5, <1>3
      <4> QED
        BY <4>1, <4>3
    <3> QED
      BY <3>2, <3>3, <1>6, <2>1
  <2> QED
    BY <2>2, <2>3
<1>12. NoSilentGap'
  <2>1. ASSUME NEW c \in connected PROVE DOMAIN queue'[c] = 1 .. Len(queue'[c])
    <3>1. c \in Clients
      BY DEF StreamsOK
    <3> QED
      BY <3>1, <1>8
  <2> QED
    <3> SUFFICES ASSUME NEW c \in connected', NEW x \in ((taken[c] + 1 .. published) \ unsent)'
                 PROVE  \E i \in DOMAIN queue'[c] :
                           \/ queue'[c][i] = Item("live", x)
                           \/ queue'[c][i].kind = "resync" /\ x < queue'[c][i].event
      BY DEF NoSilentGap
    <3>1. c \in connected /\ x \in (taken[c] + 1 .. e) \ unsent
      BY <1>2
    <3> QED
      BY <3>1, <1>11, <2>1
<1> QED
  BY <1>2, <1>8, <1>9, <1>10, <1>12 DEF StreamsOK, Items

\* Nothing for the browsers: no event, or one that is not sent.
LEMMA StreamsStay ==
    ASSUME ScalarsOK, StreamsOK, UNCHANGED streams,
           published' \in Nat, published <= published',
           unsent \subseteq unsent', unsent' \subseteq Events,
           connected' # {} => published + 1 .. published' \subseteq unsent'
    PROVE  StreamsOK'
<1>1. connected' = connected /\ queue' = queue /\ taken' = taken /\ published \in Nat
  BY DEF streams, ScalarsOK
<1>2. ASSUME NEW c \in Clients
      PROVE  InOrder(queue[c], taken[c], published)'
  <2>1. /\ InOrder(queue[c], taken[c], published)
        /\ taken[c] \in 0 .. MaxEvents
        /\ queue[c] \in Seq([kind : Kinds, event : 0 .. MaxEvents])
    BY DEF StreamsOK
  <2>2. \A i \in DOMAIN queue[c] : queue[c][i].event \in Nat
    <3>1. \A i \in DOMAIN queue[c] : queue[c][i] \in [kind : Kinds, event : 0 .. MaxEvents]
      BY <2>1, Entries
    <3> QED
      BY <3>1
  <2> QED
    BY <2>1, <2>2, <1>1 DEF InOrder
<1>3. NoSilentGap'
  <2> SUFFICES ASSUME NEW c \in connected', NEW x \in ((taken[c] + 1 .. published) \ unsent)'
               PROVE  \E i \in DOMAIN queue'[c] :
                         \/ queue'[c][i] = Item("live", x)
                         \/ queue'[c][i].kind = "resync" /\ x < queue'[c][i].event
    BY DEF NoSilentGap
  <2>1. c \in connected /\ taken[c] \in Nat
    BY <1>1 DEF StreamsOK
  <2>2. x \notin published + 1 .. published'
    OBVIOUS
  <2>3. x \in (taken[c] + 1 .. published) \ unsent
    BY <2>1, <2>2, <1>1
  <2> QED
    BY <2>1, <2>3, <1>1 DEF StreamsOK, NoSilentGap
<1> QED
  BY <1>1, <1>2, <1>3 DEF StreamsOK

-----------------------------------------------------------------------------
(* The buffer.                                                             *)

LEMMA RecordKeeps ==
    ASSUME ScalarsOK, ReplayOK, published < MaxEvents, Record(published + 1),
           stored \subseteq 1 .. published,
           stored' \subseteq stored \cup {published + 1},
           faults' \in Nat, faults <= faults'
    PROVE  ReplayOK'
<1> DEFINE e == published + 1
           all == Append(buffer, e)
           d == Len(all) - Least(Limit, Len(all))
<1>1. /\ published \in Nat /\ e \in Events /\ e \in Nat /\ e > published /\ faults \in Nat
      /\ epoch \in 0 .. published
  BY DEF ScalarsOK, Events
<1>2. /\ published' = e /\ buffer' = Newest(all, Limit) /\ backfilled' = backfilled
      /\ early' = (early \/ ~backfilled) /\ epoch' = epoch
  BY DEF Record, Recorded
<1>3. Limit \in Nat /\ 1 <= Limit
  BY DEF TraceAssumption
<1> HIDE DEF e
<1>4. /\ buffer \in Seq(Events) /\ Len(buffer) <= Limit /\ Len(buffer) \in Nat
      /\ DOMAIN buffer = 1 .. Len(buffer)
      /\ \A i \in 1 .. Len(buffer) : buffer[i] \in Events /\ buffer[i] <= published
  <2>1. buffer \in Seq(Events) /\ Len(buffer) <= Limit /\ \A b \in In(buffer) : b <= published
    BY DEF ReplayOK
  <2> QED
    BY <2>1, Entries DEF In
<1>5. /\ all \in Seq(Events) /\ Len(all) = Len(buffer) + 1
      /\ \A i \in 1 .. Len(buffer) : all[i] = buffer[i]
      /\ all[Len(buffer) + 1] = e
  BY <1>1, <1>4
<1> HIDE DEF all
<1>6. d \in 0 .. 1 /\ (d = 1 <=> Len(buffer) = Limit) /\ Len(all) - d <= Limit
  <2> DEFINE n == Len(buffer)
             m == Len(all)
  <2>1. n \in Nat /\ n <= Limit /\ m = n + 1 /\ Limit \in Nat
    BY <1>3, <1>4, <1>5
  <2>2. d = m - (IF Limit <= m THEN Limit ELSE m)
    BY DEF Least
  <2> HIDE DEF n, m, d
  <2>3. d \in 0 .. 1 /\ (d = 1 <=> n = Limit) /\ m - d <= Limit
    BY ONLY <2>1, <2>2
  <2> QED
    BY <2>3 DEF n, m
<1>7. /\ buffer' \in Seq(Events) /\ Len(buffer') = Len(all) - d /\ Len(buffer') \in Nat
      /\ \A i \in 1 .. Len(buffer') : i + d \in 1 .. Len(all) /\ buffer'[i] = all[i + d]
      /\ DOMAIN buffer' = 1 .. Len(buffer')
  <2>1. Len(all) - d = Least(Limit, Len(all))
    BY <1>3, <1>5, <1>4 DEF Least
  <2> QED
    BY <2>1, <1>2, <1>3, <1>5, NewestProperties, Entries
<1> HIDE DEF d
<1> DEFINE n == Len(buffer)
           n2 == Len(buffer')
<1>n. /\ n \in Nat /\ n2 = (n + 1) - d /\ n2 \in Nat
      /\ (d = 0 \/ (d = 1 /\ n = Limit)) /\ n2 \in 1 .. Limit
  <2>1. n \in Nat /\ n <= Limit /\ n2 = (n + 1) - d /\ Limit \in Nat /\ 1 <= Limit
    BY <1>3, <1>4, <1>5, <1>7
  <2>2. d \in 0 .. 1 /\ (d = 1 <=> n = Limit)
    BY <1>6
  <2> HIDE DEF n, n2
  <2> QED
    BY <2>1, <2>2
<1>s. /\ \A i \in 1 .. n2 : i + d \in 1 .. n + 1 /\ buffer'[i] = all[i + d]
      /\ DOMAIN buffer' = 1 .. n2 /\ DOMAIN buffer = 1 .. n
      /\ \A i \in 1 .. n : all[i] = buffer[i] /\ buffer[i] \in Nat /\ buffer[i] <= published
      /\ all[n + 1] = e
  <2>1. \A i \in 1 .. n : buffer[i] \in Nat
    BY <1>4 DEF Events
  <2>2. Len(all) = n + 1
    BY <1>5
  <2> QED
    BY <2>1, <2>2, <1>4, <1>5, <1>7
<1> HIDE DEF n, n2
<1>8. ASSUME NEW b \in In(buffer')
      PROVE  b = e \/ (b \in In(buffer) /\ b <= published)
  <2>1. PICK i \in 1 .. Len(buffer') : b = buffer'[i]
    BY <1>7 DEF In
  <2>2. i + d \in 1 .. Len(buffer) + 1 /\ b = all[i + d]
    BY <2>1, <1>7, <1>5
  <2> QED
    BY <2>2, <1>5, <1>4 DEF In
<1>9. ASSUME NEW b \in In(buffer')
      PROVE  b <= published'
  <2>1. b = e \/ b <= published
    BY <1>8
  <2>2. b \in Nat
    <3>1. \A x \in In(buffer) : x \in Nat
      BY <1>s DEF In
    <3> QED
      BY <3>1, <1>8, <1>1
  <2> QED
    BY <2>1, <2>2, <1>1, <1>2
<1>10. \A x \in In(buffer) : x \in In(buffer') \/ (d = 1 /\ x = buffer[1])
  <2> SUFFICES ASSUME NEW j \in 1 .. n
               PROVE  buffer[j] \in In(buffer') \/ (d = 1 /\ j = 1)
    BY <1>s DEF In
  <2>1. CASE j = 1 /\ d = 1
    BY <2>1
  <2>2. CASE ~(j = 1 /\ d = 1)
    <3>1. j - d \in 1 .. n2 /\ (j - d) + d = j
      BY <2>2, <1>n
    <3>2. buffer'[j - d] = buffer[j]
      BY <3>1, <1>s
    <3> QED
      BY <3>1, <3>2, <1>s DEF In
  <2> QED
    BY <2>1, <2>2
<1>11. e \in In(buffer')
  <2>1. n2 \in 1 .. n2 /\ n2 + d = n + 1
    BY <1>n
  <2> QED
    BY <2>1, <1>s DEF In
<1>12. n = Limit => n2 = Limit
  <2>1. n = Limit => d = 1
    BY <1>6 DEF n
  <2> QED
    BY <2>1, <1>n
<1>13. ReplayKeepsTail'
  <2> SUFFICES ASSUME backfilled', ~early'
               PROVE  /\ \A i, j \in 1 .. n2 : i < j => buffer'[i] < buffer'[j]
                      /\ \A x \in (stored' \cup (epoch' + 1 .. published')) \ In(buffer') :
                            /\ \A b \in In(buffer') : x < b
                            /\ n2 = Limit \/ faults' > 0
    BY <1>s DEF ReplayKeepsTail, n2
  <2>1. backfilled /\ ~early
    BY <1>2
  <2>2. /\ \A i, j \in 1 .. n : i < j => buffer[i] < buffer[j]
        /\ \A x \in (stored \cup (epoch + 1 .. published)) \ In(buffer) :
              /\ \A b \in In(buffer) : x < b
              /\ n = Limit \/ faults > 0
    BY <2>1, <1>s DEF ReplayOK, ReplayKeepsTail, n
  <2>3. ASSUME NEW i \in 1 .. n2, NEW j \in 1 .. n2, i < j
        PROVE  buffer'[i] < buffer'[j]
    <3>1. /\ i + d \in 1 .. n /\ j + d \in 1 .. n + 1 /\ i + d < j + d
          /\ buffer'[i] = buffer[i + d] /\ buffer'[j] = all[j + d]
      <4>1. i + d \in 1 .. n + 1 /\ j + d \in 1 .. n + 1 /\ buffer'[i] = all[i + d] /\ buffer'[j] = all[j + d]
        BY <1>s
      <4>2. i \in Nat /\ j \in Nat /\ d \in Nat /\ n \in Nat /\ i < j
        BY <1>n, <2>3
      <4>3. i + d < j + d /\ i + d \in 1 .. n
        BY ONLY <4>1, <4>2
      <4>4. all[i + d] = buffer[i + d]
        BY <4>3, <1>s
      <4> QED
        BY <4>1, <4>3, <4>4
    <3>2. CASE j + d = n + 1
      BY <3>1, <3>2, <1>s, <1>1
    <3>3. CASE j + d # n + 1
      <4>1. j + d \in 1 .. n /\ all[j + d] = buffer[j + d]
        <5>1. j + d \in 1 .. n
          BY ONLY <3>1, <3>3, <1>n
        <5> QED
          BY <5>1, <1>s
      <4> QED
        BY <4>1, <3>1, <2>2
    <3> QED
      BY <3>2, <3>3
  <2>4. ASSUME NEW x \in (stored' \cup (epoch' + 1 .. published')) \ In(buffer')
        PROVE  /\ \A b \in In(buffer') : x < b
               /\ n2 = Limit \/ faults' > 0
    <3>1. x # e /\ x \in stored \cup (epoch + 1 .. published) /\ x \in 1 .. published
      BY <2>4, <1>11, <1>1, <1>2 DEF e
    <3>2. CASE x \in In(buffer)
      <4>1. d = 1 /\ x = buffer[1]
        BY <3>2, <2>4, <1>10
      <4>2. n = Limit
        BY <4>1, <1>n
      <4>3. ASSUME NEW b \in In(buffer') PROVE x < b
        <5>1. PICK i \in 1 .. n2 : b = buffer'[i]
          BY <1>s DEF In
        <5>2. i + 1 \in 2 .. n + 1 /\ b = all[i + 1]
          BY <5>1, <4>1, <1>n, <1>s
        <5>3. CASE i + 1 = n + 1
          BY <5>2, <5>3, <1>s, <3>1, <1>1
        <5>4. CASE i + 1 # n + 1
          <6>1. i + 1 \in 1 .. n /\ 1 \in 1 .. n /\ 1 < i + 1
            BY <5>2, <5>4, <1>n
          <6>2. b = buffer[i + 1]
            BY <6>1, <5>2, <1>s
          <6> QED
            BY <6>1, <6>2, <4>1, <2>2
        <5> QED
          BY <5>3, <5>4
      <4> QED
        BY <4>2, <4>3, <1>12
    <3>3. CASE x \notin In(buffer)
      <4>1. /\ \A b \in In(buffer) : x < b
            /\ n = Limit \/ faults > 0
        BY <3>1, <3>3, <2>2
      <4>2. x < e
        BY <3>1, <1>1
      <4> QED
        BY <4>1, <4>2, <1>8, <1>12, <1>1
    <3> QED
      BY <3>2, <3>3
  <2> QED
    BY <2>3, <2>4
<1> QED
  <2>1. ~(~backfilled' /\ ~early')
    BY <1>2
  <2>2. Len(buffer') <= Limit
    BY <1>n, <1>3 DEF n2
  <2> QED
    BY <2>1, <2>2, <1>7, <1>9, <1>13 DEF ReplayOK

\* What changes around the buffer while no event is recorded.
LEMMA ReplayStays ==
    ASSUME ScalarsOK, ReplayOK, buffer' = buffer, backfilled' = backfilled, early' = early,
           UNCHANGED <<published, epoch>>, stored' \subseteq stored,
           faults' \in Nat, faults <= faults'
    PROVE  ReplayOK'
<1>1. faults \in Nat
  BY DEF ScalarsOK
<1>2. ReplayKeepsTail'
  <2> SUFFICES ASSUME backfilled', ~early'
               PROVE  /\ \A i, j \in DOMAIN buffer' : i < j => buffer'[i] < buffer'[j]
                      /\ \A x \in (stored' \cup (epoch' + 1 .. published')) \ In(buffer') :
                            /\ \A b \in In(buffer') : x < b
                            /\ Len(buffer') = Limit \/ faults' > 0
    BY DEF ReplayKeepsTail
  <2>1. /\ \A i, j \in DOMAIN buffer : i < j => buffer[i] < buffer[j]
        /\ \A x \in (stored \cup (epoch + 1 .. published)) \ In(buffer) :
              /\ \A b \in In(buffer) : x < b
              /\ Len(buffer) = Limit \/ faults > 0
    BY DEF ReplayOK, ReplayKeepsTail
  <2> QED
    BY <2>1, <1>1
<1> QED
  BY <1>2 DEF ReplayOK

\* A new process has an empty buffer.
LEMMA ReplayEmpty ==
    ASSUME buffer' = <<>>, ~backfilled', epoch' = published'
    PROVE  ReplayOK'
<1>1. buffer' \in Seq(Events) /\ Len(buffer') = 0 /\ DOMAIN buffer' = {}
  OBVIOUS
<1>2. In(buffer') = {}
  BY <1>1 DEF In
<1>3. 0 <= Limit
  BY DEF TraceAssumption
<1> QED
  BY <1>1, <1>2, <1>3 DEF ReplayOK, ReplayKeepsTail

-----------------------------------------------------------------------------
(* The file.                                                               *)

\* What the file's properties say of its text, of the stored events and of Keep.
Sound(text, kept) ==
    /\ Ordered(text)
    /\ In(text) \ {Junk} \subseteq kept
    /\ \A x \in kept \ (In(text) \ {Junk}) :
          Len(text) >= Keep /\ \A k \in In(text) \ {Junk} : x < k

LEMMA FileIsSound == FileKeepsTail <=> Sound(lines, stored)
BY DEF FileKeepsTail, Sound, Kept, Ordered

LEMMA FileIsSoundNext == FileKeepsTail' <=> Sound(lines', stored')
BY DEF FileKeepsTail, Sound, Kept, Ordered

\* Compaction leaves the newest lines.
LEMMA CompactionKeeps ==
    ASSUME NEW text \in Seq(Events \cup {Junk}), NEW kept, Sound(text, kept)
    PROVE  /\ Compacted(text) \in Seq(Events \cup {Junk})
           /\ Sound(Compacted(text), kept)
           /\ In(Compacted(text)) \subseteq In(text)
           /\ Len(Compacted(text)) \in Nat
           /\ text # <<>> => Compacted(text) # <<>>
<1> DEFINE L == Events \cup {Junk}
           n == Len(text)
           c == Compacted(text)
           m == Len(c)
           d == n - Least(Keep, n)
<1>1. Keep \in Nat /\ 1 <= Keep /\ n \in Nat /\ DOMAIN text = 1 .. n
      /\ \A i \in 1 .. n : text[i] \in L
  BY Entries DEF TraceAssumption
<1>2. /\ c \in Seq(L) /\ m \in Nat /\ m = Least(Keep, n) /\ DOMAIN c = 1 .. m
      /\ \A i \in 1 .. m : i + d \in 1 .. n /\ c[i] = text[i + d]
  <2>1. text \in Seq(L)
    OBVIOUS
  <2> HIDE DEF L
  <2>2. Newest(text, Keep) \in Seq(L)
    BY <2>1, <1>1, NewestProperties
  <2> QED
    BY <2>1, <2>2, <1>1, NewestProperties, Entries DEF Compacted
<1>3. d \in Nat /\ n = m + d /\ m <= Keep /\ (d = 0 \/ m = Keep) /\ (n # 0 => m # 0)
  BY <1>1, <1>2 DEF Least
<1>4. \A i \in 1 .. n : text[i] \in Nat
  BY <1>1 DEF Events, Junk
<1> HIDE DEF L, n, c, m, d
<1>5. ASSUME NEW b \in In(c) PROVE b \in In(text)
  <2>1. PICK i \in 1 .. m : b = c[i]
    BY <1>2 DEF In
  <2> QED
    BY <2>1, <1>2, <1>1 DEF In
<1>6. ASSUME NEW i \in DOMAIN c, NEW j \in DOMAIN c, i < j, c[i] # Junk, c[j] # Junk
      PROVE  c[i] < c[j]
  <2>1. /\ i + d \in DOMAIN text /\ j + d \in DOMAIN text
        /\ c[i] = text[i + d] /\ c[j] = text[j + d] /\ i \in Nat /\ j \in Nat
    BY <1>1, <1>2
  <2>2. i + d < j + d
    BY ONLY <1>6, <2>1, <1>3
  <2> QED
    BY <2>1, <2>2, <1>6 DEF Sound, Ordered
<1>7. ASSUME NEW x \in kept \ (In(c) \ {Junk})
      PROVE  Len(c) >= Keep /\ \A k \in In(c) \ {Junk} : x < k
  <2>1. CASE x \in In(text) \ {Junk}
    <3>1. PICK i \in 1 .. n : x = text[i]
      BY <2>1, <1>1 DEF In
    <3>2. i <= d
      <4> SUFFICES ASSUME i > d PROVE FALSE
        BY <1>3
      <4>1. i - d \in 1 .. m /\ (i - d) + d = i
        BY <1>2, <1>3, <3>1
      <4>2. c[i - d] = x
        BY <4>1, <1>2, <3>1
      <4> QED
        BY <4>1, <4>2, <1>2, <1>7, <2>1 DEF In
    <3>3. m = Keep
      BY <3>1, <3>2, <1>3
    <3>4. ASSUME NEW k \in In(c) \ {Junk} PROVE x < k
      <4>1. PICK j \in 1 .. m : k = c[j]
        BY <3>4, <1>2 DEF In
      <4>2. j + d \in DOMAIN text /\ i \in DOMAIN text /\ k = text[j + d] /\ j \in Nat /\ 1 <= j
        BY <4>1, <1>1, <1>2
      <4>3. i < j + d
        BY <4>2, <3>1, <3>2, <1>3
      <4> QED
        BY <4>2, <4>3, <3>1, <2>1, <3>4 DEF Sound, Ordered
    <3> QED
      BY <3>3, <3>4, <1>1 DEF m
  <2>2. CASE x \notin In(text) \ {Junk}
    <3>1. n >= Keep /\ \A k \in In(text) \ {Junk} : x < k
      BY <2>2, <1>7 DEF Sound, n
    <3>2. m >= Keep
      <4>1. n \in Nat /\ Keep \in Nat /\ m \in Nat /\ n >= Keep
        BY <3>1, <1>1, <1>2
      <4> QED
        BY ONLY <4>1, <1>3
    <3> QED
      BY <3>1, <3>2, <1>5 DEF m
  <2> QED
    BY <2>1, <2>2
<1>8. In(c) \ {Junk} \subseteq kept
  BY <1>5 DEF Sound
<1>9. Sound(c, kept)
  BY <1>6, <1>7, <1>8 DEF Sound, Ordered
<1>10. text # <<>> => c # <<>>
  <2>1. text # <<>> => n # 0
    BY DEF n
  <2>2. c = <<>> => m = 0
    BY DEF m
  <2> QED
    BY <2>1, <2>2, <1>3
<1>11. In(c) \subseteq In(text)
  BY <1>5
<1> QED
  BY <1>2, <1>9, <1>10, <1>11 DEF c, L, m

\* What is written ends up behind the file, and on its last line after a crash.
LEMMA WriteKeeps ==
    ASSUME ScalarsOK, FileOK, NEW e, e = published + 1, published < MaxEvents,
           NEW text \in {<<e>>, <<Junk>>, <<Junk, Junk>>}
    PROVE  LET fused == IF ended THEN {} ELSE {lines[Len(lines)]}
               kept  == (stored \ fused) \cup (IF ended /\ text = <<e>> THEN {e} ELSE {})
           IN  /\ Appended(text) \in Seq(Events \cup {Junk}) /\ Appended(text) # <<>>
               /\ Sound(Appended(text), kept)
               /\ kept \subseteq 1 .. e
               /\ Junk \in In(Appended(text)) => faults > 0 \/ text # <<e>>
<1> DEFINE L == Events \cup {Junk}
           fused == IF ended THEN {} ELSE {lines[Len(lines)]}
           whole == ended /\ text = <<e>>
           kept  == (stored \ fused) \cup (IF whole THEN {e} ELSE {})
           n == Len(lines)
           a == Appended(text)
           prefix == SubSeq(lines, 1, n - 1)
           m == Len(a)
           \* the old lines that are still there
           o == IF ended THEN n ELSE n - 1
<1>1. /\ published \in Nat /\ e \in Nat /\ e \in Events /\ e > published /\ e # Junk
      /\ Junk \in L /\ e \in L /\ \A x \in L : x \in Nat
  BY DEF ScalarsOK, Events, Junk
<1>2. /\ lines \in Seq(L) /\ n \in Nat /\ DOMAIN lines = 1 .. n
      /\ \A i \in 1 .. n : lines[i] \in L
      /\ ended \in BOOLEAN /\ (~ended => n >= 1)
      /\ stored \subseteq 1 .. published
      /\ Sound(lines, stored)
      /\ (Junk \in In(lines) \/ ~ended => faults > 0)
  <2>1. lines \in Seq(L) /\ ended \in BOOLEAN /\ (ended \/ lines # <<>>)
        /\ stored \subseteq 1 .. published /\ Sound(lines, stored)
        /\ (Junk \in In(lines) \/ ~ended => faults > 0)
    BY FileIsSound DEF FileOK
  <2> HIDE DEF L
  <2>2. n \in Nat /\ DOMAIN lines = 1 .. n /\ \A i \in 1 .. n : lines[i] \in L
    BY <2>1, Entries
  <2>3. lines # <<>> => n >= 1
    BY <2>1
  <2> QED
    BY <2>1, <2>2, <2>3
<1> HIDE DEF L
<1>3. /\ a \in Seq(L) /\ m \in Nat /\ DOMAIN a = 1 .. m /\ m > o /\ m >= n
      /\ \A i \in 1 .. o : a[i] = lines[i]
      /\ \A i \in o + 1 .. m : a[i] = Junk \/ (whole /\ a[i] = e)
      /\ (whole => m = o + 1 /\ a[o + 1] = e)
  <2>1. CASE ended
    <3>1. a = lines \o text /\ o = n
      BY <2>1 DEF Appended
    <3>2. CASE text = <<e>>
      <4>1. lines \o <<e>> = Append(lines, e)
        BY <1>1, <1>2
      <4> QED
        BY <3>1, <3>2, <4>1, <1>1, <1>2, <2>1
    <3>3. CASE text = <<Junk>>
      <4>1. lines \o <<Junk>> = Append(lines, Junk)
        BY <1>1, <1>2
      <4> QED
        BY <3>1, <3>3, <4>1, <1>1, <1>2, <2>1
    <3>4. CASE text = <<Junk, Junk>>
      <4>1. <<Junk, Junk>> \in Seq(L)
        BY <1>1
      <4> QED
        BY <3>1, <3>4, <4>1, <1>1, <1>2, <2>1
    <3> QED
      BY <3>2, <3>3, <3>4
  <2>2. CASE ~ended
    <3>1. a = prefix \o <<Junk>> \o Tail(text) /\ o = n - 1 /\ ~whole
      BY <2>2 DEF Appended
    <3>2. prefix \in Seq(L) /\ Len(prefix) = o /\ \A i \in 1 .. o : prefix[i] = lines[i]
      BY <1>2, <2>2, <3>1
    <3> HIDE DEF prefix, o
    <3> DEFINE b == prefix \o <<Junk>>
               t == Tail(text)
    <3>3. /\ b \in Seq(L) /\ Len(b) = o + 1
          /\ \A i \in 1 .. o : b[i] = lines[i]
          /\ b[o + 1] = Junk
      <4>1. b = Append(prefix, Junk)
        BY <3>2, <1>1
      <4> HIDE DEF b
      <4> QED
        BY <4>1, <3>2, <1>1
    <3>4. t \in Seq(L) /\ Len(t) \in Nat /\ \A i \in 1 .. Len(t) : t[i] = Junk
      <4>1. CASE text = <<Junk, Junk>>
        BY <4>1, <1>1
      <4>2. CASE Len(text) = 1 /\ text \in Seq(L)
        <5>1. text # <<>>
          <6>1. Len(<<>>) = 0
            OBVIOUS
          <6> QED
            BY ONLY <6>1, <4>2
        <5>2. t \in Seq(L) /\ Len(t) = 0
          BY <4>2, <5>1, HeadTailProperties
        <5> HIDE DEF t
        <5> QED
          BY <5>2
      <4>3. <<e>> \in Seq(L) /\ Len(<<e>>) = 1 /\ <<Junk>> \in Seq(L) /\ Len(<<Junk>>) = 1
        BY <1>1
      <4> QED
        BY <4>1, <4>2, <4>3
    <3>5. o \in Nat /\ n = o + 1
      BY <1>2, <2>2 DEF o
    <3>6. a = b \o t
      BY <3>1
    <3> HIDE DEF a, m, b, t
    <3>7. /\ a \in Seq(L) /\ Len(a) = o + 1 + Len(t)
          /\ \A i \in 1 .. o + 1 : a[i] = b[i]
          /\ \A i \in o + 2 .. o + 1 + Len(t) : a[i] = t[i - (o + 1)] /\ i - (o + 1) \in 1 .. Len(t)
      <4>1. /\ a \in Seq(L) /\ Len(a) = Len(b) + Len(t)
            /\ \A i \in 1 .. Len(b) + Len(t) : a[i] = IF i <= Len(b) THEN b[i] ELSE t[i - Len(b)]
        BY <3>3, <3>4, <3>6, ConcatProperties
      <4> QED
        BY <4>1, <3>3, <3>4, <3>5
    <3>8. m = o + 1 + Len(t) /\ DOMAIN a = 1 .. m
      BY <3>7, Entries DEF m
    <3>9. ASSUME NEW i \in o + 1 .. m PROVE a[i] = Junk
      BY <3>3, <3>4, <3>5, <3>7, <3>8
    <3>10. \A i \in 1 .. o : a[i] = lines[i]
      BY <3>3, <3>5, <3>7
    <3>11. m \in Nat /\ m > o /\ m >= n
      BY ONLY <3>4, <3>5, <3>8
    <3> HIDE DEF whole
    <3> QED
      BY <3>1, <3>7, <3>8, <3>9, <3>10, <3>11
  <2> QED
    BY <2>1, <2>2, <1>2
<1>4. o \in 0 .. n /\ o \in Nat /\ (~ended => n = o + 1 /\ fused = {lines[n]})
      /\ (ended => n = o /\ fused = {})
  <2>1. n \in Nat /\ (~ended => n - 1 \in 0 .. n /\ n = (n - 1) + 1 /\ n - 1 \in Nat)
    BY <1>2
  <2> QED
    BY <2>1
<1> HIDE DEF a, m, o, n, fused, whole
<1>5. \A i, j \in 1 .. n : i < j /\ lines[i] # Junk /\ lines[j] # Junk => lines[i] < lines[j]
  BY <1>2 DEF Sound, Ordered
<1>6. ASSUME NEW i \in DOMAIN a, NEW j \in DOMAIN a, i < j, a[i] # Junk, a[j] # Junk
      PROVE  a[i] < a[j]
  <2>1. i \in 1 .. o /\ a[i] = lines[i] /\ i \in 1 .. n
    <3>1. i \in 1 .. m /\ j \in 1 .. m
      BY <1>3
    <3>2. ~(i \in o + 1 .. m)
      <4> SUFFICES ASSUME i \in o + 1 .. m PROVE FALSE
        OBVIOUS
      <4>1. whole /\ m = o + 1
        BY <1>3, <1>6
      <4> QED
        BY <4>1, <3>1, <1>4, <1>6
    <3>3. i \in 1 .. o
      BY <3>1, <3>2, <1>3, <1>4
    <3> QED
      BY <3>3, <1>3, <1>4
  <2>2. CASE j \in 1 .. o
    <3>1. j \in 1 .. n /\ a[j] = lines[j]
      BY <2>2, <1>3, <1>4
    <3> QED
      BY <3>1, <2>1, <1>5, <1>6
  <2>3. CASE j \notin 1 .. o
    <3>1. j \in o + 1 .. m
      BY <2>3, <1>3, <1>4
    <3>2. a[j] = e
      BY <3>1, <1>3, <1>6
    <3>3. lines[i] \in stored
      <4>1. lines[i] \in In(lines) \ {Junk}
        BY <2>1, <1>2, <1>6 DEF In
      <4> QED
        BY <4>1, <1>2 DEF Sound
    <3>4. lines[i] \in 1 .. published
      BY <3>3, <1>2
    <3>5. lines[i] < e
      BY ONLY <3>4, <1>1
    <3> QED
      BY <3>2, <3>5, <2>1
  <2> QED
    BY <2>2, <2>3
<1>7. ASSUME NEW b \in In(a) \ {Junk}
      PROVE  \/ whole /\ b = e
             \/ b \in In(lines) /\ b \notin fused
  <2>1. PICK i \in 1 .. m : b = a[i]
    BY <1>3 DEF In
  <2>2. CASE i \in o + 1 .. m
    BY <2>1, <2>2, <1>3
  <2>3. CASE i \notin o + 1 .. m
    <3>1. i \in 1 .. o /\ i \in 1 .. n
      BY <2>3, <1>3, <1>4
    <3>2. b = lines[i]
      BY <3>1, <2>1, <1>3
    <3>3. b \notin fused
      <4> SUFFICES ASSUME b \in fused PROVE FALSE
        OBVIOUS
      <4>1. n = o + 1 /\ b = lines[n]
        BY <1>4, <1>2
      <4>2. n \in 1 .. n /\ i < n
        BY <4>1, <3>1, <1>4
      <4>3. lines[i] < lines[n] /\ lines[n] \in Nat
        BY <4>1, <4>2, <3>1, <3>2, <1>5, <1>7, <1>1, <1>2
      <4> QED
        BY <4>1, <4>3, <3>2
    <3> QED
      BY <3>1, <3>2, <3>3, <1>2 DEF In
  <2> QED
    BY <2>2, <2>3
<1>8. ASSUME NEW b \in In(lines), b \notin fused
      PROVE  b \in In(a)
  <2>1. PICK i \in 1 .. n : b = lines[i]
    BY <1>2 DEF In
  <2>2. i \in 1 .. o
    <3>1. ended \/ i # n
      BY <2>1, <1>8, <1>4
    <3> QED
      BY <3>1, <1>2, <1>4
  <2>3. i \in 1 .. m /\ a[i] = b
    BY <2>1, <2>2, <1>3, <1>4
  <2> QED
    BY <2>3, <1>3 DEF In
<1>9. whole => e \in In(a)
  BY <1>3, <1>4 DEF In
<1>10. In(a) \ {Junk} \subseteq kept
  BY <1>7, <1>2 DEF Sound
<1>11. ASSUME NEW x \in kept \ (In(a) \ {Junk})
       PROVE  Len(a) >= Keep /\ \A k \in In(a) \ {Junk} : x < k
  <2>1. x \in stored \ (In(lines) \ {Junk}) /\ x \in 1 .. published
    BY <1>8, <1>9, <1>11, <1>1, <1>2
  <2>2. n >= Keep /\ \A k \in In(lines) \ {Junk} : x < k
    BY <2>1, <1>2 DEF Sound, n
  <2>3. Keep \in Nat
    BY DEF TraceAssumption
  <2>4. m >= Keep
    BY <2>2, <2>3, <1>2, <1>3
  <2>5. x < e
    BY <2>1, <1>1
  <2> QED
    BY <2>2, <2>4, <2>5, <1>7 DEF m
<1>12. Sound(a, kept)
  BY <1>6, <1>10, <1>11 DEF Sound, Ordered
<1>13. kept \subseteq 1 .. e
  <2>1. stored \subseteq 1 .. published
    BY <1>2
  <2>2. 1 .. published \subseteq 1 .. e /\ e \in 1 .. e
    BY ONLY <1>1, e = published + 1
  <2> QED
    BY <2>1, <2>2
<1>14. Junk \in In(a) => faults > 0 \/ text # <<e>>
  <2> SUFFICES ASSUME Junk \in In(a), text = <<e>>, ended PROVE Junk \in In(lines)
    BY <1>2
  <2>1. whole
    BY DEF whole
  <2>2. PICK i \in 1 .. m : a[i] = Junk
    BY <1>3 DEF In
  <2>3. i \in 1 .. o
    <3>1. m = o + 1 /\ i # o + 1
      BY <2>1, <2>2, <1>1, <1>3
    <3> QED
      BY <3>1, <1>4
  <2> QED
    BY <2>2, <2>3, <1>2, <1>3, <1>4 DEF In
<1>15. a # <<>>
  <2>1. a = <<>> => m = 0
    BY DEF m
  <2> QED
    BY <2>1, <1>3, <1>4
<1> QED
  BY <1>3, <1>12, <1>13, <1>14, <1>15 DEF a, L, fused, whole, n

\* The text becomes the file.
LEMMA FileWritten ==
    ASSUME ScalarsOK, FileOK, published < MaxEvents, published' = published + 1,
           NEW text \in {<<published + 1>>, <<Junk>>, <<Junk, Junk>>},
           lines' \in {Appended(text), Compacted(Appended(text))},
           stored' = (stored \ (IF ended THEN {} ELSE {lines[Len(lines)]}))
                     \cup (IF ended /\ text = <<published + 1>> THEN {published + 1} ELSE {}),
           ended' \in BOOLEAN, undecodable' \in BOOLEAN,
           faults' \in Nat, faults <= faults',
           text # <<published + 1>> \/ ~ended' \/ undecodable' # undecodable => faults < faults'
    PROVE  FileOK' /\ stored' \subseteq stored \cup {published + 1}
<1> DEFINE e == published + 1
           a == Appended(text)
<1>1. /\ a \in Seq(Events \cup {Junk}) /\ a # <<>>
      /\ Sound(a, stored')
      /\ stored' \subseteq 1 .. e
      /\ Junk \in In(a) => faults > 0 \/ text # <<e>>
  <2>1. e = published + 1 /\ text \in {<<e>>, <<Junk>>, <<Junk, Junk>>}
    OBVIOUS
  <2>2. stored' = (stored \ (IF ended THEN {} ELSE {lines[Len(lines)]}))
                     \cup (IF ended /\ text = <<e>> THEN {e} ELSE {})
    OBVIOUS
  <2> HIDE DEF e
  <2> QED
    BY <2>1, <2>2, WriteKeeps
<1>2. /\ lines' \in Seq(Events \cup {Junk}) /\ lines' # <<>>
      /\ Sound(lines', stored')
      /\ In(lines') \subseteq In(a)
  <2> HIDE DEF a
  <2>1. CASE lines' = a
    BY <2>1, <1>1
  <2>2. CASE lines' = Compacted(a)
    BY <2>2, <1>1, CompactionKeeps
  <2> QED
    BY <2>1, <2>2 DEF a
<1>3. faults \in Nat
  BY DEF ScalarsOK
<1>4. (Junk \in In(lines) \/ ~ended \/ undecodable => faults > 0)'
  <2>1. Junk \in In(lines') => faults > 0 \/ faults < faults'
    BY <1>1, <1>2
  <2>2. undecodable => faults > 0
    BY DEF FileOK
  <2> QED
    BY <2>1, <2>2, <1>3
<1>5. FileOK'
  BY <1>1, <1>2, <1>4, FileIsSoundNext DEF FileOK
<1> QED
  BY <1>5

\* Part of an event, with a fault.
LEMMA PartKeeps ==
    ASSUME ScalarsOK, FileOK, published < MaxEvents, published' = published + 1,
           WritePart(published + 1)
    PROVE  /\ FileOK' /\ stored' \subseteq stored \cup {published + 1}
           /\ faults' \in 0 .. MaxFaults /\ faults <= faults'
<1>1. faults' = faults + 1 /\ faults \in Nat /\ faults' \in 0 .. MaxFaults
  BY DEF WritePart, Fault, ScalarsOK, TraceAssumption
<1>2. /\ ended' \in BOOLEAN /\ undecodable \in BOOLEAN /\ undecodable' \in BOOLEAN
      /\ ended \in BOOLEAN
  <2>1. undecodable \in BOOLEAN /\ ended \in BOOLEAN
    BY DEF FileOK
  <2>2. ended' = FALSE /\ undecodable' \in {undecodable, TRUE}
    BY DEF WritePart
  <2> QED
    BY <2>1, <2>2
<1>3. \E text \in {<<published + 1>>, <<Junk>>} :
         /\ lines' = Appended(text)
         /\ stored' = (stored \ (IF ended THEN {} ELSE {lines[Len(lines)]}))
                     \cup (IF ended /\ text = <<published + 1>> THEN {published + 1} ELSE {})
  <2>1. CASE /\ lines' = Appended(<<Junk>>)
             /\ stored' = stored \ (IF ended THEN {} ELSE {lines[Len(lines)]})
    <3>1. <<Junk>> # <<published + 1>>
      <4>1. published + 1 # 0
        BY DEF ScalarsOK
      <4> QED
        BY <4>1 DEF Junk
    <3> QED
      BY <2>1, <3>1
  <2>2. CASE /\ lines' = Appended(<<published + 1>>)
             /\ stored' = (stored \ (IF ended THEN {} ELSE {lines[Len(lines)]}))
                           \cup (IF ended THEN {published + 1} ELSE {})
    BY <2>2
  <2> QED
    BY <2>1, <2>2 DEF WritePart
<1>4. PICK text \in {<<published + 1>>, <<Junk>>} :
         /\ lines' = Appended(text)
         /\ stored' = (stored \ (IF ended THEN {} ELSE {lines[Len(lines)]}))
                     \cup (IF ended /\ text = <<published + 1>> THEN {published + 1} ELSE {})
  BY <1>3
<1>5. /\ text \in {<<published + 1>>, <<Junk>>, <<Junk, Junk>>}
      /\ lines' \in {Appended(text), Compacted(Appended(text))}
      /\ faults' \in Nat /\ faults <= faults' /\ faults < faults'
  BY <1>1, <1>4
<1> QED
  BY <1>1, <1>2, <1>4, <1>5, FileWritten

\* A whole event, and perhaps compaction.
LEMMA EventKeeps ==
    ASSUME ScalarsOK, FileOK, published < MaxEvents, published' = published + 1,
           NEW splits \in BOOLEAN, WriteEvent(published + 1, splits),
           NEW text, text = Appended(IF splits THEN <<Junk, Junk>> ELSE <<published + 1>>),
           lines' \in {text, Compacted(text)},
           faults' \in Nat, faults <= faults', splits => faults < faults'
    PROVE  FileOK' /\ stored' \subseteq stored \cup {published + 1}
<1>1. /\ stored' = (stored \ (IF ended THEN {} ELSE {lines[Len(lines)]}))
                   \cup (IF ended /\ ~splits THEN {published + 1} ELSE {})
      /\ ended' = TRUE /\ undecodable' = undecodable
  BY DEF WriteEvent
<1>2. undecodable \in BOOLEAN /\ <<Junk, Junk>> # <<published + 1>>
  BY DEF FileOK
<1>3. CASE splits
  <2>1. /\ stored' = (stored \ (IF ended THEN {} ELSE {lines[Len(lines)]}))
                     \cup (IF ended /\ <<Junk, Junk>> = <<published + 1>> THEN {published + 1} ELSE {})
        /\ lines' \in {Appended(<<Junk, Junk>>), Compacted(Appended(<<Junk, Junk>>))}
    BY <1>1, <1>2, <1>3
  <2> QED
    BY <2>1, <1>1, <1>2, <1>3, FileWritten
<1>4. CASE ~splits
  <2>1. /\ stored' = (stored \ (IF ended THEN {} ELSE {lines[Len(lines)]}))
                     \cup (IF ended /\ <<published + 1>> = <<published + 1>> THEN {published + 1} ELSE {})
        /\ lines' \in {Appended(<<published + 1>>), Compacted(Appended(<<published + 1>>))}
    BY <1>1, <1>4
  <2> QED
    BY <2>1, <1>1, <1>2, FileWritten
<1> QED
  BY <1>3, <1>4

\* The file is not touched.
LEMMA FileStays ==
    ASSUME ScalarsOK, FileOK, UNCHANGED disk, published' \in Nat, published <= published',
           faults' \in Nat, faults <= faults'
    PROVE  FileOK'
<1>1. lines' = lines /\ ended' = ended /\ undecodable' = undecodable /\ stored' = stored
  BY DEF disk
<1>2. published \in Nat /\ faults \in Nat
  BY DEF ScalarsOK
<1>3. stored' \subseteq 1 .. published'
  <2>1. stored \subseteq 1 .. published
    BY DEF FileOK
  <2> QED
    BY <2>1, <1>1, <1>2
<1>4. FileKeepsTail'
  BY <1>1, FileIsSound, FileIsSoundNext DEF FileOK
<1>5. (Junk \in In(lines) \/ ~ended \/ undecodable => faults > 0)'
  BY <1>1, <1>2 DEF FileOK
<1> QED
  BY <1>1, <1>3, <1>4, <1>5 DEF FileOK

-----------------------------------------------------------------------------
(* The first browser: the buffer is filled from the file.                  *)

LEMMA BackfillKeeps ==
    ASSUME ScalarsOK, FileOK, ReplayOK, ~backfilled, backfilled', early' = early,
           buffer' \in {buffer, Backfill(lines)}, UNCHANGED <<published, epoch, stored>>,
           faults' \in Nat, faults <= faults',
           buffer' = buffer => faults' > 0 \/ buffer' = Backfill(lines)
    PROVE  ReplayOK'
<1> DEFINE newest == Newest(lines, Limit)
           r == Readable(newest)
           all == r \o buffer
           n == Len(lines)
           d == n - Least(Limit, n)
<1>1. /\ Limit \in Nat /\ 1 <= Limit /\ Limit <= Keep /\ Keep \in Nat
      /\ published \in Nat /\ faults \in Nat
  BY DEF TraceAssumption, ScalarsOK
<1>2. /\ lines \in Seq(Events \cup {Junk}) /\ n \in Nat /\ DOMAIN lines = 1 .. n
      /\ Sound(lines, stored) /\ stored \subseteq 1 .. published
      /\ (Junk \in In(lines) \/ ~ended \/ undecodable => faults > 0)
  BY FileIsSound, Entries DEF FileOK
<1>3. /\ newest \in Seq(Events \cup {Junk}) /\ Len(newest) = Least(Limit, n)
      /\ DOMAIN newest = 1 .. Len(newest) /\ Len(newest) \in Nat
      /\ \A i \in 1 .. Len(newest) : i + d \in 1 .. n /\ newest[i] = lines[i + d]
  <2>1. newest \in Seq(Events \cup {Junk})
    BY <1>1, <1>2, NewestProperties
  <2> QED
    BY <2>1, <1>1, <1>2, NewestProperties, Entries
<1> DEFINE m == Len(newest)
<1>4. d \in Nat /\ n = m + d /\ m <= Limit /\ (d = 0 \/ m = Limit)
  BY <1>1, <1>2, <1>3 DEF Least
<1>5. /\ r \in Seq(Events) /\ Len(r) <= m /\ In(r) = In(newest) \ {Junk} /\ Len(r) \in Nat
      /\ Ordered(newest) => Ordered(r)
      /\ Junk \notin In(newest) => Len(r) = m
  <2> HIDE DEF newest
  <2>1. r \in Seq(Events)
    BY <1>3, ReadableProperties
  <2> QED
    BY <2>1, <1>3, ReadableProperties, Entries
<1> HIDE DEF newest, r, n, d, m
<1>6. \A b \in In(newest) : b \in In(lines)
  BY <1>2, <1>3 DEF In, m
<1>7. Ordered(newest)
  <2> SUFFICES ASSUME NEW i \in DOMAIN newest, NEW j \in DOMAIN newest, i < j,
                      newest[i] # Junk, newest[j] # Junk
               PROVE  newest[i] < newest[j]
    BY DEF Ordered
  <2>1. /\ i + d \in DOMAIN lines /\ j + d \in DOMAIN lines /\ i \in Nat /\ j \in Nat
        /\ newest[i] = lines[i + d] /\ newest[j] = lines[j + d]
    BY <1>2, <1>3
  <2>2. i + d < j + d
    BY <2>1, <1>4
  <2> QED
    BY <2>1, <2>2, <1>2 DEF Sound, Ordered
<1>8. \A b \in In(r) : b \in In(lines) \ {Junk} /\ b \in stored /\ b <= published
  <2>1. ASSUME NEW b \in In(r) PROVE b \in In(lines) \ {Junk}
    BY <1>5, <1>6
  <2>2. \A b \in In(lines) \ {Junk} : b \in stored
    BY <1>2 DEF Sound
  <2>3. \A b \in stored : b <= published
    BY <1>1, <1>2
  <2> QED
    BY <2>1, <2>2, <2>3
<1>9. ASSUME NEW x \in stored \ In(r)
      PROVE  (\A b \in In(r) : x < b) /\ (Len(r) = Limit \/ faults > 0)
  <2>1. Len(r) = m \/ faults > 0
    BY <1>2, <1>5, <1>6
  <2>2. CASE x \in In(lines) \ {Junk}
    <3>1. PICK i \in 1 .. n : x = lines[i]
      BY <2>2, <1>2 DEF In
    <3>2. i <= d
      <4> SUFFICES ASSUME i > d PROVE FALSE
        BY <1>4, <3>1
      <4>1. i - d \in 1 .. m /\ (i - d) + d = i
        BY <1>2, <1>3, <1>4, <3>1 DEF m
      <4>2. newest[i - d] = x
        BY <4>1, <1>3, <3>1 DEF m
      <4> QED
        BY <4>1, <4>2, <1>3, <1>5, <1>9, <2>2 DEF In, m
    <3>3. m = Limit
      BY <3>1, <3>2, <1>4
    <3>4. ASSUME NEW b \in In(r) PROVE x < b
      <4>1. PICK j \in 1 .. m : b = newest[j]
        BY <1>3, <1>5 DEF In, m
      <4>2. j + d \in DOMAIN lines /\ i \in DOMAIN lines /\ b = lines[j + d] /\ j \in Nat /\ 1 <= j
        BY <4>1, <1>2, <1>3, <3>1 DEF m
      <4>3. i < j + d
        BY <4>2, <3>1, <3>2, <1>4
      <4> QED
        BY <4>2, <4>3, <3>1, <2>2, <1>8, <1>2 DEF Sound, Ordered
    <3> QED
      BY <2>1, <3>3, <3>4
  <2>3. CASE x \notin In(lines) \ {Junk}
    <3>1. n >= Keep /\ \A k \in In(lines) \ {Junk} : x < k
      BY <2>3, <1>2, <1>9 DEF Sound, n
    <3>2. m = Limit
      BY <3>1, <1>1, <1>2, <1>3, <1>4 DEF m
    <3> QED
      BY <2>1, <3>1, <3>2, <1>8
  <2> QED
    BY <2>2, <2>3
<1>10. /\ buffer \in Seq(Events) /\ Len(buffer) <= Limit /\ \A b \in In(buffer) : b <= published
       /\ (~early => buffer = <<>> /\ published = epoch)
       /\ Len(buffer) \in Nat /\ DOMAIN buffer = 1 .. Len(buffer)
  BY Entries DEF ReplayOK
<1>11. all \in Seq(Events) /\ Len(all) \in Nat /\ \A b \in In(all) : b <= published
  <2>1. /\ all \in Seq(Events) /\ Len(all) = Len(r) + Len(buffer) /\ DOMAIN all = 1 .. Len(all)
        /\ \A i \in 1 .. Len(r) + Len(buffer) : all[i] = IF i <= Len(r) THEN r[i] ELSE buffer[i - Len(r)]
    BY <1>5, <1>10, ConcatProperties, Entries
  <2> HIDE DEF all
  <2>2. ASSUME NEW i \in 1 .. Len(all) PROVE all[i] \in In(r) \cup In(buffer)
    <3>1. DOMAIN r = 1 .. Len(r)
      BY <1>5, Entries
    <3>2. CASE i <= Len(r)
      BY <3>1, <3>2, <2>1, <1>5, <1>10 DEF In
    <3>3. CASE ~(i <= Len(r))
      <4>1. i - Len(r) \in 1 .. Len(buffer) /\ all[i] = buffer[i - Len(r)]
        BY <3>3, <2>1, <1>5, <1>10
      <4> QED
        BY <4>1, <1>10 DEF In
    <3> QED
      BY <3>2, <3>3
  <2> QED
    BY <2>1, <2>2, <1>8, <1>10, <1>5 DEF In
<1> DEFINE cut == SubSeq(all, 1, Least(Limit, Len(all)))
<1>12. Backfill(lines) = cut
  BY DEF Backfill, all, r, newest
<1> HIDE DEF all
<1>13. /\ cut \in Seq(Events) /\ Len(cut) <= Limit /\ \A b \in In(cut) : b <= published
  <2>1. Least(Limit, Len(all)) \in 0 .. Len(all) /\ Least(Limit, Len(all)) <= Limit
        /\ Least(Limit, Len(all)) \in Nat
    BY <1>1, <1>11 DEF Least
  <2> DEFINE l == Least(Limit, Len(all))
  <2> HIDE DEF l
  <2>2. /\ SubSeq(all, 1, l) \in Seq(Events) /\ Len(SubSeq(all, 1, l)) = l
        /\ DOMAIN SubSeq(all, 1, l) = 1 .. l
        /\ \A i \in 1 .. l : SubSeq(all, 1, l)[i] = all[i]
    BY <2>1, <1>11 DEF l
  <2>3. \A i \in 1 .. l : all[i] \in In(all)
    BY <2>1, <1>11, Entries DEF In, l
  <2> QED
    BY <2>1, <2>2, <2>3, <1>11 DEF In, l
<1>14. ~early => cut = r
  <2> SUFFICES ASSUME ~early PROVE cut = r
    OBVIOUS
  <2>1. all = r
    BY <1>5, <1>10 DEF all
  <2>2. Least(Limit, Len(r)) = Len(r)
    BY <1>1, <1>4, <1>5, <1>3 DEF Least, m
  <2>3. SubSeq(r, 1, Len(r)) = r
    BY <1>5
  <2> QED
    BY <2>1, <2>2, <2>3
<1> HIDE DEF cut
<1>15. buffer' \in Seq(Events) /\ Len(buffer') <= Limit /\ \A b \in In(buffer') : b <= published'
  BY <1>10, <1>12, <1>13
<1>16. ReplayKeepsTail'
  <2> SUFFICES ASSUME ~early
               PROVE  /\ \A i, j \in DOMAIN buffer' : i < j => buffer'[i] < buffer'[j]
                      /\ \A x \in (stored' \cup (epoch' + 1 .. published')) \ In(buffer') :
                            /\ \A b \in In(buffer') : x < b
                            /\ Len(buffer') = Limit \/ faults' > 0
    BY DEF ReplayKeepsTail
  <2>1. epoch' + 1 .. published' = {}
    <3>1. epoch' = published /\ published' = published
      BY <1>10
    <3> QED
      BY <3>1, <1>1
  <2>2. CASE buffer' = Backfill(lines)
    <3>1. buffer' = r
      BY <2>2, <1>12, <1>14
    <3>2. \A i, j \in DOMAIN r : i < j => r[i] < r[j]
      <4>1. \A i \in DOMAIN r : r[i] # Junk
        BY <1>5, Entries DEF Events, Junk
      <4> QED
        BY <4>1, <1>5, <1>7 DEF Ordered
    <3> QED
      BY <3>1, <3>2, <2>1, <1>1, <1>9
  <2>3. CASE buffer' = buffer /\ faults' > 0
    <3>1. DOMAIN buffer' = {} /\ In(buffer') = {}
      BY <2>3, <1>10 DEF In
    <3> QED
      BY <3>1, <2>3
  <2> QED
    BY <2>2, <2>3
<1> QED
  BY <1>15, <1>16 DEF ReplayOK

-----------------------------------------------------------------------------
(* Every step keeps the invariant.                                         *)

LEMMA InitFaithful == Init => TraceFaithful
<1> SUFFICES ASSUME Init PROVE TraceFaithful
  OBVIOUS
<1>1. /\ buffer \in Seq(Events) /\ Len(buffer) = 0 /\ In(buffer) = {}
      /\ lines \in Seq(Events \cup {Junk}) /\ DOMAIN lines = {} /\ In(lines) = {}
  BY DEF Init, In
<1>2. \A c \in Clients : /\ queue[c] \in Seq([kind : Kinds, event : 0 .. MaxEvents])
                         /\ Len(queue[c]) <= QueueItems
                         /\ InOrder(queue[c], taken[c], published)
  <2>1. 0 <= QueueItems
    BY DEF TraceAssumption
  <2>2. \A c \in Clients : queue[c] = <<>> /\ taken[c] = 0 /\ published = 0
    BY DEF Init
  <2>3. Len(<<>>) = 0 /\ DOMAIN <<>> = {}
    OBVIOUS
  <2>4. InOrder(<<>>, 0, 0)
    BY <2>3 DEF InOrder
  <2>5. <<>> \in Seq([kind : Kinds, event : 0 .. MaxEvents])
    OBVIOUS
  <2> QED
    BY <2>1, <2>2, <2>3, <2>4, <2>5
<1>3. TypeOK
  <2>1. /\ 0 \in 0 .. MaxEvents /\ 0 \in 0 .. 0 /\ 0 <= Limit /\ 0 \in 0 .. MaxFaults
        /\ 0 \in Nat \cup {-1}
    BY DEF TraceAssumption
  <2>2. 1 \in 1 .. MaxStarts
    BY DEF TraceAssumption
  <2>3. /\ queue = [c \in Clients |-> queue[c]] /\ taken = [c \in Clients |-> taken[c]]
        /\ \A c \in Clients : taken[c] \in 0 .. MaxEvents
    BY <2>1 DEF Init
  <2>4. /\ queue \in [Clients -> Seq([kind : Kinds, event : 0 .. MaxEvents])]
        /\ taken \in [Clients -> 0 .. MaxEvents]
    BY <2>3, <1>2
  <2> QED
    BY <2>1, <2>2, <2>4, <1>1, <1>2 DEF Init, TypeOK
<1>4. NoSilentGap /\ FileKeepsTail /\ ReplayKeepsTail
  BY <1>1 DEF Init, NoSilentGap, FileKeepsTail, ReplayKeepsTail, Kept
<1>5. TraceTracked
  BY <1>1, <1>2 DEF Init, TraceTracked
<1> QED
  BY <1>3, <1>4, <1>5 DEF TraceFaithful

LEMMA PublishUnstoredFaithful == TraceFaithful /\ PublishUnstored => TraceFaithful'
<1> SUFFICES ASSUME TraceFaithful, PublishUnstored PROVE TraceFaithful'
  OBVIOUS
<1>1. ScalarsOK /\ StreamsOK /\ FileOK /\ ReplayOK
  BY Parts
<1>2. /\ published < MaxEvents /\ Record(published + 1) /\ Serve(published + 1)
      /\ UNCHANGED <<counter, disk, starts, faults>>
  BY DEF PublishUnstored
<1>3. /\ published' = published + 1 /\ backfilled' = backfilled /\ epoch' = epoch
      /\ early' = (early \/ ~backfilled)
  BY <1>2 DEF Record
<1>4. published \in Nat /\ published + 1 \in 0 .. MaxEvents /\ epoch \in 0 .. published + 1
      /\ faults \in Nat
  BY <1>1, <1>2 DEF ScalarsOK, TraceAssumption
<1>5. ScalarsOK'
  BY <1>1, <1>2, <1>3, <1>4 DEF ScalarsOK
<1>6. StreamsOK'
  BY <1>1, <1>2, <1>3, ServeKeeps
<1>7. FileOK'
  BY <1>1, <1>2, <1>3, <1>4, FileStays
<1>8. ReplayOK'
  <2>1. stored' = stored /\ stored \subseteq 1 .. published
    BY <1>1, <1>2 DEF disk, FileOK
  <2> QED
    BY <2>1, <1>1, <1>2, <1>4, RecordKeeps
<1> QED
  BY <1>5, <1>6, <1>7, <1>8, Whole

LEMMA PublishWriteFailsFaithful == TraceFaithful /\ PublishWriteFails => TraceFaithful'
<1> SUFFICES ASSUME TraceFaithful, PublishWriteFails PROVE TraceFaithful'
  OBVIOUS
<1>1. ScalarsOK /\ StreamsOK /\ FileOK /\ ReplayOK
  BY Parts
<1>2. /\ published < MaxEvents /\ Record(published + 1) /\ Serve(published + 1)
      /\ counter' = -1 /\ starts' = starts
      /\ WritePart(published + 1) \/ (Fault /\ UNCHANGED disk)
  BY DEF PublishWriteFails
<1>3. /\ published' = published + 1 /\ backfilled' = backfilled /\ epoch' = epoch
      /\ early' = (early \/ ~backfilled)
  BY <1>2 DEF Record
<1>4. published \in Nat /\ published + 1 \in 0 .. MaxEvents /\ epoch \in 0 .. published + 1
      /\ faults \in Nat
  BY <1>1, <1>2 DEF ScalarsOK, TraceAssumption
<1>5. /\ FileOK' /\ stored' \subseteq stored \cup {published + 1}
      /\ faults' \in 0 .. MaxFaults /\ faults <= faults'
  <2>1. CASE WritePart(published + 1)
    BY <2>1, <1>1, <1>2, <1>3, PartKeeps
  <2>2. CASE Fault /\ UNCHANGED disk
    <3>1. faults' \in 0 .. MaxFaults /\ faults <= faults' /\ faults' \in Nat
      BY <2>2, <1>4 DEF Fault, TraceAssumption
    <3>2. FileOK'
      BY <3>1, <2>2, <1>1, <1>3, <1>4, FileStays
    <3> QED
      BY <3>1, <3>2, <2>2 DEF disk
  <2> QED
    BY <2>1, <2>2, <1>2
<1>6. ScalarsOK'
  BY <1>1, <1>2, <1>3, <1>4, <1>5 DEF ScalarsOK
<1>7. StreamsOK'
  BY <1>1, <1>2, <1>3, ServeKeeps
<1>8. ReplayOK'
  <2>1. stored \subseteq 1 .. published /\ faults' \in Nat
    BY <1>1, <1>5 DEF FileOK
  <2> QED
    BY <2>1, <1>1, <1>2, <1>5, RecordKeeps
<1> QED
  BY <1>5, <1>6, <1>7, <1>8, Whole

LEMMA PublishStoredFaithful ==
    ASSUME TraceFaithful, NEW splits \in BOOLEAN, PublishStored(splits)
    PROVE  TraceFaithful'
<1> DEFINE e == published + 1
           text == Appended(IF splits THEN <<Junk, Junk>> ELSE <<e>>)
           written == IF splits THEN Fault ELSE UNCHANGED faults
<1>1. ScalarsOK /\ StreamsOK /\ FileOK /\ ReplayOK
  BY Parts
<1>2. /\ published < MaxEvents /\ counter >= 0 /\ Record(e) /\ WriteEvent(e, splits)
      /\ starts' = starts
      /\ \/ counter' = counter + 1 /\ lines' = text /\ Serve(e) /\ written
         \/ lines' = Compacted(text) /\ counter' = Len(Compacted(text)) /\ Serve(e) /\ written
         \/ ~splits /\ Fault /\ counter' = counter + 1 /\ lines' = text /\ Serve(e)
         \/ /\ counter' = counter + 1 /\ lines' = text
            /\ unsent' = unsent \cup {e} /\ UNCHANGED streams /\ written
  BY DEF PublishStored
<1>3. /\ published' = published + 1 /\ backfilled' = backfilled /\ epoch' = epoch
      /\ early' = (early \/ ~backfilled)
  BY <1>2 DEF Record
<1>4. published \in Nat /\ published + 1 \in 0 .. MaxEvents /\ epoch \in 0 .. published + 1
      /\ faults \in 0 .. MaxFaults /\ faults \in Nat /\ published + 1 \in Events
  BY <1>1, <1>2 DEF ScalarsOK, TraceAssumption, Events
<1>5. /\ faults' \in 0 .. MaxFaults /\ faults' \in Nat /\ faults <= faults'
      /\ (splits => faults < faults')
  <2>1. CASE Fault
    BY <2>1, <1>4 DEF Fault, TraceAssumption
  <2>2. CASE ~splits /\ faults' = faults
    BY <2>2, <1>4
  <2>3. Fault \/ (~splits /\ faults' = faults)
    BY <1>2
  <2> QED
    BY <2>1, <2>2, <2>3
<1>6. lines' \in {text, Compacted(text)}
  BY <1>2
<1>7. FileOK' /\ stored' \subseteq stored \cup {published + 1}
  BY <1>1, <1>2, <1>3, <1>5, <1>6, EventKeeps
<1>8. counter' \in Nat
  <2>1. counter \in Nat
    BY <1>1, <1>2 DEF ScalarsOK
  <2>2. CASE counter' = Len(Compacted(text)) /\ lines' = Compacted(text)
    <3>1. lines' \in Seq(Events \cup {Junk})
      BY <1>7 DEF FileOK
    <3> QED
      BY <3>1, <2>2, Entries
  <2>3. CASE counter' = counter + 1
    BY <2>1, <2>3
  <2> QED
    BY <2>2, <2>3, <1>2
<1>9. ScalarsOK'
  BY <1>1, <1>2, <1>3, <1>4, <1>5, <1>8 DEF ScalarsOK
<1>10. StreamsOK'
  <2>1. CASE Serve(e)
    BY <2>1, <1>1, <1>2, <1>3, ServeKeeps
  <2>2. CASE unsent' = unsent \cup {e} /\ UNCHANGED streams
    <3>1. unsent \subseteq Events
      BY <1>1 DEF StreamsOK
    <3>2. published + 1 .. published' = {e}
      BY <1>3, <1>4
    <3>3. /\ published' \in Nat /\ published <= published' /\ unsent \subseteq unsent'
          /\ unsent' \subseteq Events /\ published + 1 .. published' \subseteq unsent'
      BY <2>2, <3>1, <3>2, <1>3, <1>4
    <3> QED
      BY <2>2, <3>3, <1>1, StreamsStay
  <2> QED
    BY <2>1, <2>2, <1>2
<1>11. ReplayOK'
  <2>1. stored \subseteq 1 .. published
    BY <1>1 DEF FileOK
  <2> QED
    BY <2>1, <1>1, <1>2, <1>5, <1>7, RecordKeeps
<1> QED
  BY <1>7, <1>9, <1>10, <1>11, Whole

\* Connecting: what is replayed is not ahead of what was published.
LEMMA ConnectKeeps ==
    ASSUME ScalarsOK, StreamsOK, NEW c \in Clients, published' = published, unsent' = unsent,
           NEW replayed \in Seq(Events), Len(replayed) <= Limit, Connect(c, replayed)
    PROVE  StreamsOK'
<1> DEFINE Items == [kind : Kinds, event : 0 .. MaxEvents]
           a == <<Item("connected", 0)>>
           b == [i \in DOMAIN replayed |-> Item("replay", replayed[i])]
<1>1. PICK k \in 0 .. Snapshots :
        /\ connected' = connected \cup {c}
        /\ queue' = [queue EXCEPT ![c] = a \o b \o [i \in 1 .. k |-> Item("snapshot", 0)]]
        /\ taken' = [taken EXCEPT ![c] = published]
  BY DEF Connect
<1> DEFINE d == [i \in 1 .. k |-> Item("snapshot", 0)]
           q == a \o b \o d
           Calm == {it \in Items : ~Ahead(it)}
<1>2. /\ published \in 0 .. MaxEvents /\ published \in Nat /\ k \in Nat /\ k <= Snapshots
      /\ Limit \in Nat /\ 1 + Limit + Snapshots <= QueueItems /\ QueueItems \in Nat
      /\ Snapshots \in Nat
  BY DEF ScalarsOK, TraceAssumption
<1>3. Item("connected", 0) \in Calm /\ Item("snapshot", 0) \in Calm
      /\ \A x \in Events : Item("replay", x) \in Calm
  BY <1>2 DEF Item, Kinds, Ahead, Events
<1>4. Calm \subseteq Items /\ \A it \in Calm : ~Ahead(it)
  OBVIOUS
<1> HIDE DEF Calm
<1>5. a \in Seq(Calm) /\ Len(a) = 1
  BY <1>3
<1>6. b \in Seq(Calm) /\ Len(b) = Len(replayed) /\ Len(replayed) \in Nat
  BY <1>3, Entries
<1>7. d \in Seq(Calm) /\ Len(d) = k
  BY <1>2, <1>3
<1> HIDE DEF a, b, d
<1>8. q \in Seq(Calm) /\ Len(q) = 1 + Len(replayed) + k
  <2>1. a \o b \in Seq(Calm) /\ Len(a \o b) = Len(a) + Len(b)
    BY ONLY <1>5, <1>6, Joined
  <2>2. (a \o b) \o d \in Seq(Calm) /\ Len((a \o b) \o d) = Len(a \o b) + Len(d)
    BY ONLY <2>1, <1>7, Joined
  <2> QED
    BY <2>1, <2>2, <1>5, <1>6, <1>7
<1>9. Len(q) <= QueueItems
  BY <1>2, <1>6, <1>8
<1> HIDE DEF q
<1>10. queue' = [queue EXCEPT ![c] = q]
  BY <1>1 DEF q, d
<1>11. q \in Seq(Items) /\ \A i \in DOMAIN q : ~Ahead(q[i])
  <2>1. /\ Len(q) \in Nat /\ DOMAIN q = 1 .. Len(q) /\ \A i \in DOMAIN q : q[i] \in Calm
        /\ q = [i \in 1 .. Len(q) |-> q[i]]
    BY <1>8
  <2>2. \A i \in 1 .. Len(q) : q[i] \in Items
    BY <2>1, <1>4
  <2>3. [i \in 1 .. Len(q) |-> q[i]] \in Seq(Items)
    <3> HIDE DEF Items
    <3> QED
      BY <2>1, <2>2
  <2> QED
    BY <2>1, <2>3, <1>4
<1> HIDE DEF Items
<1>12. InOrder(q, published, published)
  BY <1>2, <1>11 DEF InOrder
<1>13. /\ queue \in [Clients -> Seq(Items)] /\ taken \in [Clients -> 0 .. MaxEvents]
       /\ connected \subseteq Clients /\ unsent \subseteq Events
       /\ \A x \in Clients : Len(queue[x]) <= QueueItems /\ InOrder(queue[x], taken[x], published)
  BY DEF StreamsOK, Items
<1>14. /\ queue' \in [Clients -> Seq(Items)] /\ taken' \in [Clients -> 0 .. MaxEvents]
       /\ connected' \subseteq Clients
  BY <1>1, <1>2, <1>10, <1>11, <1>13
<1>15. /\ queue'[c] = q /\ taken'[c] = published
       /\ \A x \in Clients : x # c => queue'[x] = queue[x] /\ taken'[x] = taken[x]
  BY <1>1, <1>10, <1>13
<1>16. ASSUME NEW x \in Clients
       PROVE  Len(queue'[x]) <= QueueItems /\ InOrder(queue'[x], taken'[x], published)
  BY <1>9, <1>12, <1>13, <1>15
<1>17. NoSilentGap'
  <2> SUFFICES ASSUME NEW x \in connected', NEW y \in (taken'[x] + 1 .. published) \ unsent
               PROVE  \E i \in DOMAIN queue'[x] :
                         \/ queue'[x][i] = Item("live", y)
                         \/ queue'[x][i].kind = "resync" /\ y < queue'[x][i].event
    BY DEF NoSilentGap
  <2>1. x # c
    BY <1>2, <1>15
  <2>2. x \in connected /\ x \in Clients /\ queue'[x] = queue[x] /\ taken'[x] = taken[x]
    BY <2>1, <1>1, <1>13, <1>15
  <2> QED
    BY <2>2 DEF StreamsOK, NoSilentGap
<1> QED
  BY <1>13, <1>14, <1>16, <1>17 DEF StreamsOK, Items

LEMMA SubscribeFaithful ==
    ASSUME TraceFaithful, NEW c \in Clients, Subscribe(c)
    PROVE  TraceFaithful'
<1>1. ScalarsOK /\ StreamsOK /\ FileOK /\ ReplayOK
  BY Parts
<1>2. /\ backfilled' = TRUE
      /\ UNCHANGED <<published, counter, early, disk, starts, epoch, unsent>>
      /\ \/ backfilled /\ Connect(c, buffer) /\ UNCHANGED <<buffer, faults>>
         \/ /\ ~backfilled /\ buffer' = Backfill(lines) /\ Connect(c, Backfill(lines))
            /\ UNCHANGED faults
         \/ ~backfilled /\ Fault /\ Connect(c, buffer) /\ UNCHANGED buffer
         \/ ~backfilled /\ undecodable /\ UNCHANGED <<buffer, streams, faults>>
  BY DEF Subscribe
<1>3. published \in Nat /\ faults \in 0 .. MaxFaults /\ faults \in Nat
  BY <1>1 DEF ScalarsOK, TraceAssumption
<1>4. faults' \in 0 .. MaxFaults /\ faults' \in Nat /\ faults <= faults'
  <2>1. Fault \/ faults' = faults
    BY <1>2
  <2> QED
    BY <2>1, <1>3 DEF Fault, TraceAssumption
<1>5. ScalarsOK'
  BY <1>1, <1>2, <1>4 DEF ScalarsOK
<1>6. FileOK'
  BY <1>1, <1>2, <1>3, <1>4, FileStays
<1>7. ReplayOK'
  <2>1. stored' = stored
    BY <1>2 DEF disk
  <2>2. CASE backfilled
    BY <2>1, <2>2, <1>1, <1>2, <1>4, ReplayStays
  <2>3. CASE ~backfilled
    <3>1. buffer' \in {buffer, Backfill(lines)}
      BY <2>3, <1>2
    <3>2. faults' > 0 \/ buffer' = Backfill(lines)
      <4>1. Fault => faults' > 0
        BY <1>3 DEF Fault
      <4>2. undecodable => faults > 0
        BY <1>1 DEF FileOK
      <4>3. undecodable => faults' > 0
        BY <4>2, <1>3, <1>4
      <4> QED
        BY <4>1, <4>3, <2>3, <1>2
    <3> QED
      BY <2>1, <2>3, <3>1, <3>2, <1>1, <1>2, <1>4, BackfillKeeps
  <2> QED
    BY <2>2, <2>3
<1>8. StreamsOK'
  <2>1. CASE Connect(c, buffer')
    <3>1. buffer' \in Seq(Events) /\ Len(buffer') <= Limit
      BY <1>7 DEF ReplayOK
    <3> QED
      BY <2>1, <3>1, <1>1, <1>2, ConnectKeeps
  <2>2. CASE UNCHANGED streams
    <3>1. /\ published' \in Nat /\ published <= published' /\ unsent \subseteq unsent'
          /\ published + 1 .. published' = {}
      BY <1>2, <1>3
    <3>2. unsent' \subseteq Events
      BY <1>1, <1>2 DEF StreamsOK
    <3> QED
      BY <2>2, <3>1, <3>2, <1>1, StreamsStay
  <2> QED
    BY <2>1, <2>2, <1>2
<1> QED
  BY <1>5, <1>6, <1>7, <1>8, Whole

\* What a browser's thread takes is the oldest of what waits.
LEMMA TakeKeeps ==
    ASSUME ScalarsOK, StreamsOK, NEW c \in Clients, Take(c)
    PROVE  StreamsOK'
<1> DEFINE Items == [kind : Kinds, event : 0 .. MaxEvents]
           q == queue[c]
           n == Len(q)
           item == Head(q)
           rest == Tail(q)
           now == CASE item.kind = "live"   -> item.event
                    [] item.kind = "resync" -> item.event - 1
                    [] OTHER                -> taken[c]
<1>1. /\ c \in connected /\ q # <<>> /\ published' = published /\ connected' = connected
      /\ unsent' = unsent
      /\ queue' = [queue EXCEPT ![c] = rest]
      /\ taken' = [taken EXCEPT ![c] = now]
  BY DEF Take
<1>2. published \in Nat /\ published <= MaxEvents /\ MaxEvents \in Nat
  BY DEF ScalarsOK, TraceAssumption
<1>3. /\ queue \in [Clients -> Seq(Items)] /\ taken \in [Clients -> 0 .. MaxEvents]
      /\ connected \subseteq Clients /\ unsent \subseteq Events /\ NoSilentGap
      /\ \A x \in Clients : Len(queue[x]) <= QueueItems /\ InOrder(queue[x], taken[x], published)
  BY DEF StreamsOK
<1>4. taken[c] \in Nat /\ taken[c] <= published
  <2>1. taken[c] \in 0 .. MaxEvents
    BY <1>3
  <2> QED
    BY <2>1, <1>3 DEF InOrder
<1> HIDE DEF Items
<1>5. /\ q \in Seq(Items) /\ n \in Nat /\ DOMAIN q = 1 .. n /\ n >= 1
      /\ \A i \in 1 .. n : q[i] \in Items
      /\ item = q[1] /\ rest \in Seq(Items) /\ Len(rest) = n - 1
      /\ DOMAIN rest = 1 .. n - 1
      /\ \A i \in 1 .. n - 1 : rest[i] = q[i + 1]
  <2>1. q \in Seq(Items)
    BY <1>3
  <2> HIDE DEF q
  <2> QED
    BY <2>1, <1>1, Entries
<1>6. \A i \in 1 .. n : q[i].event \in 0 .. MaxEvents /\ q[i].kind \in Kinds
  BY <1>5 DEF Items
<1>7. /\ \A i \in 1 .. n : Ahead(q[i]) => taken[c] < q[i].event /\ q[i].event <= published
      /\ \A i, j \in 1 .. n : i < j /\ Ahead(q[i]) /\ Ahead(q[j]) =>
            /\ q[i].event <= q[j].event
            /\ q[i].kind = "live" => q[i].event < q[j].event
  BY <1>3, <1>5 DEF InOrder
<1>8. Ahead(item) <=> item.kind = "live" \/ item.kind = "resync"
  BY DEF Ahead
<1> DEFINE ev == item.event
<1>9. /\ ev \in Nat /\ now \in Nat /\ now <= published
      /\ item.kind = "live" => now = ev
      /\ item.kind = "resync" => now = ev - 1
      /\ ~Ahead(item) => now = taken[c]
      /\ taken[c] <= now
  <2>1. 1 \in 1 .. n /\ ev \in Nat
    BY <1>5, <1>6
  <2>2. Ahead(item) => taken[c] < ev /\ ev <= published
    BY <2>1, <1>5, <1>7
  <2>3. CASE item.kind = "live"
    <3>1. now = ev
      BY <2>3
    <3> HIDE DEF now, ev, item
    <3> QED
      BY <2>1, <2>2, <2>3, <3>1, <1>4, <1>8
  <2>4. CASE item.kind = "resync"
    <3>1. now = ev - 1
      BY <2>4
    <3> HIDE DEF now, ev, item
    <3> QED
      BY <2>1, <2>2, <2>4, <3>1, <1>2, <1>4, <1>8
  <2>5. CASE item.kind # "live" /\ item.kind # "resync"
    <3>1. now = taken[c]
      BY <2>5
    <3> HIDE DEF now, ev, item
    <3> QED
      BY <2>1, <2>5, <3>1, <1>4, <1>8
  <2> QED
    BY <2>3, <2>4, <2>5
<1> HIDE DEF q, n, item, rest, now, ev
<1>10. /\ queue'[c] = rest /\ taken'[c] = now
       /\ \A x \in Clients : x # c => queue'[x] = queue[x] /\ taken'[x] = taken[x]
  BY <1>1, <1>3
<1>11. /\ queue' \in [Clients -> Seq(Items)] /\ taken' \in [Clients -> 0 .. MaxEvents]
  <2>1. now \in 0 .. MaxEvents
    BY <1>2, <1>9
  <2> QED
    BY <2>1, <1>1, <1>3, <1>5
<1>12. InOrder(rest, now, published)
  <2>1. ASSUME NEW i \in 1 .. n - 1, Ahead(rest[i])
        PROVE  now < rest[i].event /\ rest[i].event <= published
    <3>1. i + 1 \in 1 .. n /\ 1 \in 1 .. n /\ 1 < i + 1 /\ rest[i] = q[i + 1] /\ Ahead(q[i + 1])
      BY <2>1, <1>5
    <3>2. q[i + 1].event \in Nat /\ taken[c] < q[i + 1].event /\ q[i + 1].event <= published
      BY <3>1, <1>6, <1>7
    <3>3. now < q[i + 1].event
      <4>1. CASE item.kind = "live"
        <5>1. ev < q[i + 1].event
          BY <4>1, <3>1, <1>5, <1>7, <1>8 DEF ev
        <5> QED
          BY <4>1, <5>1, <1>9
      <4>2. CASE item.kind = "resync"
        <5>1. ev <= q[i + 1].event
          BY <4>2, <3>1, <1>5, <1>7, <1>8 DEF ev
        <5> QED
          BY <4>2, <5>1, <3>2, <1>9
      <4>3. CASE ~Ahead(item)
        BY <4>3, <3>2, <1>9
      <4> QED
        BY <4>1, <4>2, <4>3, <1>8
    <3> QED
      BY <3>1, <3>2, <3>3
  <2>2. ASSUME NEW i \in 1 .. n - 1, NEW j \in 1 .. n - 1, i < j, Ahead(rest[i]), Ahead(rest[j])
        PROVE  /\ rest[i].event <= rest[j].event
               /\ rest[i].kind = "live" => rest[i].event < rest[j].event
    <3>1. /\ i + 1 \in 1 .. n /\ j + 1 \in 1 .. n /\ i + 1 < j + 1
          /\ rest[i] = q[i + 1] /\ rest[j] = q[j + 1]
      BY <2>2, <1>5
    <3> QED
      BY <3>1, <2>2, <1>7
  <2> QED
    BY <2>1, <2>2, <1>5, <1>9 DEF InOrder
<1>13. ASSUME NEW x \in Clients
       PROVE  Len(queue'[x]) <= QueueItems /\ InOrder(queue'[x], taken'[x], published)
  <2>1. CASE x = c
    <3>1. Len(rest) <= QueueItems
      <4>1. n <= QueueItems /\ QueueItems \in Nat
        BY <1>3 DEF n, q, TraceAssumption
      <4> QED
        BY <4>1, <1>5
    <3> QED
      BY <2>1, <3>1, <1>10, <1>12
  <2>2. CASE x # c
    BY <2>2, <1>3, <1>10
  <2> QED
    BY <2>1, <2>2
<1>14. NoSilentGap'
  <2> SUFFICES ASSUME NEW x \in connected, NEW y \in (taken'[x] + 1 .. published) \ unsent
               PROVE  \E i \in DOMAIN queue'[x] :
                         \/ queue'[x][i] = Item("live", y)
                         \/ queue'[x][i].kind = "resync" /\ y < queue'[x][i].event
    BY <1>1 DEF NoSilentGap
  <2>1. x \in Clients
    BY <1>3
  <2>2. CASE x # c
    BY <2>1, <2>2, <1>3, <1>10 DEF NoSilentGap
  <2>3. CASE x = c
    <3>1. y \in (taken[c] + 1 .. published) \ unsent /\ now < y /\ y \in Nat
      BY <2>3, <1>2, <1>4, <1>9, <1>10
    <3>2. PICK i \in 1 .. n : \/ q[i] = Item("live", y)
                              \/ q[i].kind = "resync" /\ y < q[i].event
      BY <3>1, <1>1, <1>3, <1>5 DEF NoSilentGap, q
    <3>3. i # 1
      <4> SUFFICES ASSUME i = 1 PROVE FALSE
        OBVIOUS
      <4>1. CASE q[1] = Item("live", y)
        <5>1. item.kind = "live" /\ ev = y
          BY <4>1, <1>5 DEF Item, ev
        <5> QED
          BY <5>1, <3>1, <1>9
      <4>2. CASE q[1].kind = "resync" /\ y < q[1].event
        <5>1. item.kind = "resync" /\ y < ev
          BY <4>2, <1>5 DEF ev
        <5> QED
          BY <5>1, <3>1, <1>9
      <4> QED
        BY <4>1, <4>2, <3>2
    <3>4. i - 1 \in 1 .. n - 1 /\ rest[i - 1] = q[i]
      <4>1. i - 1 \in 1 .. n - 1 /\ (i - 1) + 1 = i
        BY <3>2, <3>3, <1>5
      <4> QED
        BY <4>1, <1>5
    <3> QED
      BY <2>3, <3>2, <3>4, <1>5, <1>10
  <2> QED
    BY <2>2, <2>3
<1> QED
  BY <1>1, <1>3, <1>11, <1>13, <1>14 DEF StreamsOK, Items

LEMMA TakeFaithful ==
    ASSUME TraceFaithful, NEW c \in Clients, Take(c)
    PROVE  TraceFaithful'
<1>1. ScalarsOK /\ StreamsOK /\ FileOK /\ ReplayOK
  BY Parts
<1>2. UNCHANGED <<published, slot, disk, connected, starts, faults, epoch, unsent>>
  BY DEF Take
<1>3. published \in Nat /\ faults \in Nat
  BY <1>1 DEF ScalarsOK
<1>4. ScalarsOK'
  BY <1>1, <1>2 DEF ScalarsOK, slot
<1>5. FileOK'
  BY <1>1, <1>2, <1>3, FileStays
<1>6. ReplayOK'
  BY <1>1, <1>2, <1>3, ReplayStays DEF slot, disk
<1>7. StreamsOK'
  BY <1>1, TakeKeeps
<1> QED
  BY <1>4, <1>5, <1>6, <1>7, Whole

LEMMA UnsubscribeFaithful ==
    ASSUME TraceFaithful, NEW c \in Clients, Unsubscribe(c)
    PROVE  TraceFaithful'
<1> DEFINE Items == [kind : Kinds, event : 0 .. MaxEvents]
<1>1. ScalarsOK /\ StreamsOK /\ FileOK /\ ReplayOK
  BY Parts
<1>2. /\ c \in connected /\ connected' = connected \ {c}
      /\ queue' = [queue EXCEPT ![c] = <<>>] /\ taken' = [taken EXCEPT ![c] = 0]
      /\ \/ UNCHANGED <<published, buffer, backfilled, early, epoch>>
         \/ connected = {c} /\ published < MaxEvents /\ Record(published + 1)
      /\ UNCHANGED <<counter, disk, starts, faults, unsent>>
  BY DEF Unsubscribe
<1>3. published \in Nat /\ faults \in Nat /\ MaxEvents \in Nat /\ epoch \in 0 .. published
      /\ published <= MaxEvents
  BY <1>1 DEF ScalarsOK, TraceAssumption
<1>4. \/ UNCHANGED <<published, buffer, backfilled, early, epoch>>
      \/ /\ published < MaxEvents /\ published' = published + 1 /\ backfilled' = backfilled
         /\ early' = (early \/ ~backfilled) /\ epoch' = epoch /\ connected' = {}
  BY <1>2 DEF Record
<1>5. published' \in 0 .. MaxEvents /\ published' \in Nat /\ published <= published'
      /\ epoch' \in 0 .. published'
  BY <1>3, <1>4
<1>6. ScalarsOK'
  <2>1. backfilled' \in BOOLEAN /\ early' \in BOOLEAN
    BY <1>1, <1>4 DEF ScalarsOK
  <2> QED
    BY <2>1, <1>1, <1>2, <1>5 DEF ScalarsOK
<1>7. FileOK'
  BY <1>1, <1>2, <1>3, <1>5, FileStays
<1>8. ReplayOK'
  <2>1. stored' = stored /\ stored \subseteq 1 .. published
    BY <1>1, <1>2 DEF disk, FileOK
  <2>2. CASE UNCHANGED <<published, buffer, backfilled, early, epoch>>
    BY <2>1, <2>2, <1>1, <1>2, <1>3, ReplayStays
  <2>3. CASE published < MaxEvents /\ Record(published + 1)
    BY <2>1, <2>3, <1>1, <1>2, <1>3, RecordKeeps
  <2> QED
    BY <2>2, <2>3, <1>2
<1>9. StreamsOK'
  <2>1. /\ queue \in [Clients -> Seq(Items)] /\ taken \in [Clients -> 0 .. MaxEvents]
        /\ connected \subseteq Clients /\ unsent \subseteq Events /\ NoSilentGap
        /\ \A x \in Clients : Len(queue[x]) <= QueueItems /\ InOrder(queue[x], taken[x], published)
    BY <1>1 DEF StreamsOK
  <2>2. /\ <<>> \in Seq(Items) /\ Len(<<>>) = 0 /\ DOMAIN <<>> = {} /\ 0 \in 0 .. MaxEvents
        /\ 0 <= QueueItems
    BY <1>3 DEF TraceAssumption
  <2>3. InOrder(<<>>, 0, published')
    BY <2>2, <1>5 DEF InOrder
  <2> HIDE DEF Items
  <2>4. /\ queue'[c] = <<>> /\ taken'[c] = 0
        /\ \A x \in Clients : x # c => queue'[x] = queue[x] /\ taken'[x] = taken[x]
    BY <1>2, <2>1
  <2>5. queue' \in [Clients -> Seq(Items)] /\ taken' \in [Clients -> 0 .. MaxEvents]
    BY <1>2, <2>1, <2>2
  <2>6. ASSUME NEW x \in Clients
        PROVE  Len(queue'[x]) <= QueueItems /\ InOrder(queue'[x], taken'[x], published')
    <3>1. CASE x = c
      BY <3>1, <2>2, <2>3, <2>4
    <3>2. CASE x # c
      <4>1. /\ InOrder(queue[x], taken[x], published) /\ taken[x] \in 0 .. MaxEvents
            /\ queue[x] \in Seq(Items)
        BY <2>1
      <4>2. \A i \in DOMAIN queue[x] : queue[x][i].event \in Nat
        <5>1. \A i \in DOMAIN queue[x] : queue[x][i] \in Items
          BY <4>1, Entries
        <5> QED
          BY <5>1 DEF Items
      <4>3. InOrder(queue[x], taken[x], published')
        BY <4>1, <4>2, <1>3, <1>5 DEF InOrder
      <4> QED
        BY <3>2, <4>3, <2>1, <2>4
    <3> QED
      BY <3>1, <3>2
  <2>7. NoSilentGap'
    <3>1. CASE connected' = {}
      BY <3>1 DEF NoSilentGap
    <3>2. CASE published' = published
      <4> SUFFICES ASSUME NEW x \in connected', NEW y \in (taken'[x] + 1 .. published) \ unsent
                   PROVE  \E i \in DOMAIN queue'[x] :
                             \/ queue'[x][i] = Item("live", y)
                             \/ queue'[x][i].kind = "resync" /\ y < queue'[x][i].event
        BY <3>2, <1>2 DEF NoSilentGap
      <4>1. x \in connected /\ x # c /\ x \in Clients
        BY <1>2, <2>1
      <4> QED
        BY <4>1, <2>1, <2>4 DEF NoSilentGap
    <3> QED
      BY <3>1, <3>2, <1>4
  <2> QED
    BY <1>2, <2>1, <2>5, <2>6, <2>7 DEF StreamsOK, Items
<1> QED
  BY <1>6, <1>7, <1>8, <1>9, Whole

\* A new process: nobody is connected.
LEMMA RestartedKeeps ==
    ASSUME ScalarsOK, StreamsOK, Restarted, published' \in 0 .. MaxEvents
    PROVE  StreamsOK'
<1> DEFINE Items == [kind : Kinds, event : 0 .. MaxEvents]
<1>1. /\ connected' = {} /\ unsent' = unsent
      /\ queue' = [x \in Clients |-> <<>>] /\ taken' = [x \in Clients |-> 0]
  BY DEF Restarted
<1>2. /\ <<>> \in Seq(Items) /\ Len(<<>>) = 0 /\ DOMAIN <<>> = {} /\ 0 \in 0 .. MaxEvents
      /\ 0 <= QueueItems /\ 0 <= published'
  BY DEF TraceAssumption
<1>3. InOrder(<<>>, 0, published')
  BY <1>2 DEF InOrder
<1> HIDE DEF Items
<1>4. queue' \in [Clients -> Seq(Items)] /\ taken' \in [Clients -> 0 .. MaxEvents]
  BY <1>1, <1>2
<1>5. \A x \in Clients : Len(queue'[x]) <= QueueItems /\ InOrder(queue'[x], taken'[x], published')
  BY <1>1, <1>2, <1>3
<1>6. NoSilentGap'
  BY <1>1 DEF NoSilentGap
<1>7. unsent' \subseteq Events
  BY <1>1 DEF StreamsOK
<1> QED
  BY <1>1, <1>4, <1>5, <1>6, <1>7 DEF StreamsOK, Items

LEMMA RestartFaithful == TraceFaithful /\ Restart => TraceFaithful'
<1> SUFFICES ASSUME TraceFaithful, Restart PROVE TraceFaithful'
  OBVIOUS
<1>1. ScalarsOK /\ StreamsOK /\ FileOK /\ ReplayOK
  BY Parts
<1>2. /\ Restarted /\ epoch' = published /\ UNCHANGED <<published, disk, faults>>
      /\ starts < MaxStarts /\ starts' = starts + 1 /\ buffer' = <<>> /\ backfilled' = FALSE
      /\ counter' = 0 /\ early' = FALSE
  BY DEF Restart, Restarted
<1>3. published \in 0 .. MaxEvents /\ published \in Nat /\ faults \in Nat /\ starts \in 1 .. MaxStarts
      /\ MaxStarts \in Nat
  BY <1>1 DEF ScalarsOK, TraceAssumption
<1>4. ScalarsOK'
  <2>1. starts' \in 1 .. MaxStarts /\ epoch' \in 0 .. published' /\ 0 \in Nat
    BY <1>2, <1>3
  <2> QED
    BY <2>1, <1>1, <1>2 DEF ScalarsOK
<1>5. FileOK'
  BY <1>1, <1>2, <1>3, FileStays
<1>6. ReplayOK'
  BY <1>2, ReplayEmpty
<1>7. StreamsOK'
  BY <1>1, <1>2, <1>3, RestartedKeeps
<1> QED
  BY <1>4, <1>5, <1>6, <1>7, Whole

LEMMA CrashInWriteFaithful == TraceFaithful /\ CrashInWrite => TraceFaithful'
<1> SUFFICES ASSUME TraceFaithful, CrashInWrite PROVE TraceFaithful'
  OBVIOUS
<1>1. ScalarsOK /\ StreamsOK /\ FileOK /\ ReplayOK
  BY Parts
<1>2. /\ published < MaxEvents /\ Restarted /\ WritePart(published + 1)
      /\ published' = published + 1 /\ epoch' = published + 1
      /\ starts < MaxStarts /\ starts' = starts + 1 /\ buffer' = <<>> /\ backfilled' = FALSE
      /\ counter' = 0 /\ early' = FALSE
  BY DEF CrashInWrite, Restarted
<1>3. published' \in 0 .. MaxEvents /\ published \in Nat /\ starts \in 1 .. MaxStarts
      /\ MaxStarts \in Nat /\ published' \in 0 .. published'
  BY <1>1, <1>2 DEF ScalarsOK, TraceAssumption
<1>4. FileOK' /\ faults' \in 0 .. MaxFaults
  BY <1>1, <1>2, PartKeeps
<1>5. ScalarsOK'
  <2>1. starts' \in 1 .. MaxStarts /\ epoch' \in 0 .. published' /\ 0 \in Nat
    BY <1>2, <1>3
  <2> QED
    BY <2>1, <1>2, <1>3, <1>4 DEF ScalarsOK
<1>6. ReplayOK'
  BY <1>2, ReplayEmpty
<1>7. StreamsOK'
  BY <1>1, <1>2, <1>3, RestartedKeeps
<1> QED
  BY <1>4, <1>5, <1>6, <1>7, Whole

LEMMA StutterFaithful == TraceFaithful /\ UNCHANGED vars => TraceFaithful'
<1> SUFFICES ASSUME TraceFaithful, UNCHANGED vars PROVE TraceFaithful'
  OBVIOUS
<1>1. ScalarsOK /\ StreamsOK /\ FileOK /\ ReplayOK
  BY Parts
<1>2. UNCHANGED <<published, slot, disk, streams, starts, faults, epoch, unsent>>
  BY DEF vars
<1>3. published \in Nat /\ faults \in Nat
  BY <1>1 DEF ScalarsOK
<1>4. ScalarsOK'
  BY <1>1, <1>2 DEF ScalarsOK, slot
<1>5. FileOK'
  BY <1>1, <1>2, <1>3, FileStays
<1>6. ReplayOK'
  BY <1>1, <1>2, <1>3, ReplayStays DEF slot, disk
<1>7. StreamsOK'
  <2>1. /\ published' \in Nat /\ published <= published' /\ unsent \subseteq unsent'
        /\ published + 1 .. published' = {}
    BY <1>2, <1>3
  <2>2. unsent' \subseteq Events
    BY <1>1, <1>2 DEF StreamsOK
  <2> QED
    BY <2>1, <2>2, <1>1, <1>2, StreamsStay
<1> QED
  BY <1>4, <1>5, <1>6, <1>7, Whole

\* No browser misses an event unannounced, the file has no hole, and what is
\* replayed is the newest of what was stored: over any number of restarts,
\* crashes inside a write, failed writes, compactions and overflowing queues.
THEOREM TraceIsFaithful == Spec => []TraceFaithful
<1>1. Init => TraceFaithful
  BY InitFaithful
<1>2. TraceFaithful /\ [Next]_vars => TraceFaithful'
  <2> SUFFICES ASSUME TraceFaithful, [Next]_vars PROVE TraceFaithful'
    OBVIOUS
  <2>1. CASE PublishUnstored
    BY <2>1, PublishUnstoredFaithful
  <2>2. CASE PublishWriteFails
    BY <2>2, PublishWriteFailsFaithful
  <2>3. ASSUME NEW splits \in BOOLEAN, PublishStored(splits)
        PROVE  TraceFaithful'
    BY <2>3, PublishStoredFaithful
  <2>4. ASSUME NEW c \in Clients, Subscribe(c)
        PROVE  TraceFaithful'
    BY <2>4, SubscribeFaithful
  <2>5. ASSUME NEW c \in Clients, Take(c)
        PROVE  TraceFaithful'
    BY <2>5, TakeFaithful
  <2>6. ASSUME NEW c \in Clients, Unsubscribe(c)
        PROVE  TraceFaithful'
    BY <2>6, UnsubscribeFaithful
  <2>7. CASE Restart
    BY <2>7, RestartFaithful
  <2>8. CASE CrashInWrite
    BY <2>8, CrashInWriteFaithful
  <2>9. CASE UNCHANGED vars
    BY <2>9, StutterFaithful
  <2> QED
    BY <2>1, <2>2, <2>3, <2>4, <2>5, <2>6, <2>7, <2>8, <2>9 DEF Next
<1> QED
  BY <1>1, <1>2, PTL DEF Spec
=============================================================================
