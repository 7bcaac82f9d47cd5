------------------------ MODULE AgentHarness_proofs ------------------------
(***************************************************************************)
(* Proofs about AgentHarness: with fresh call ids, AnswerInv is an         *)
(* inductive invariant, so every provider request is answered and a        *)
(* cancelled run leaves a repaired transcript, for all values of the other *)
(* constants.                                                              *)
(***************************************************************************)
EXTENDS AgentHarness, SequenceTheorems, FiniteSetTheorems, TLAPS

(***************************************************************************)
(* Ascending lists a finite set of numbers completely and in order.        *)
(***************************************************************************)
LEMMA AscendingProperties ==
    ASSUME NEW S, S \subseteq Nat, IsFiniteSet(S)
    PROVE  /\ Cardinality(S) \in Nat
           /\ Ascending(S) \in [1..Cardinality(S) -> S]
           /\ \A x \in S : \E k \in 1..Cardinality(S) : Ascending(S)[k] = x
           /\ \A i, j \in 1..Cardinality(S) :
                 i < j => Ascending(S)[i] < Ascending(S)[j]
           /\ \A k \in 1..Cardinality(S) :
                 Cardinality({y \in S : y <= Ascending(S)[k]}) = k
<1> DEFINE n == Cardinality(S)
           Below(x) == {y \in S : y <= x}
           rank == [x \in S |-> Cardinality(Below(x))]
<1>1. n \in Nat
  BY FS_CardinalityType
<1>2. \A x \in S : /\ IsFiniteSet(Below(x))
                   /\ Cardinality(Below(x)) \in 1..n
  <2> TAKE x \in S
  <2>1. Below(x) \in SUBSET S
    OBVIOUS
  <2>2. IsFiniteSet(Below(x)) /\ Cardinality(Below(x)) <= n
    BY <2>1, FS_Subset
  <2>3. Cardinality(Below(x)) \in Nat
    BY <2>2, FS_CardinalityType
  <2>4. x \in Below(x)
    OBVIOUS
  <2>5. Cardinality(Below(x)) # 0
    BY <2>2, <2>4, FS_EmptySet
  <2> QED
    BY <2>2, <2>3, <2>5, <1>1
<1>3. \A x, y \in S : x < y => rank[x] < rank[y]
  <2> SUFFICES ASSUME NEW x \in S, NEW y \in S, x < y
               PROVE  Cardinality(Below(x)) < Cardinality(Below(y))
    OBVIOUS
  <2>1. x \in Nat /\ y \in Nat /\ \A z \in S : z \in Nat
    OBVIOUS
  <2>2. Below(x) \in SUBSET Below(y) /\ y \in Below(y) /\ y \notin Below(x)
    <3>1. \A z \in S : z <= x => z <= y
      BY <2>1
    <3>2. y <= y /\ ~(y <= x)
      BY <2>1
    <3> QED
      BY <3>1, <3>2
  <2>3. /\ Cardinality(Below(x)) <= Cardinality(Below(y))
        /\ Cardinality(Below(x)) = Cardinality(Below(y)) => Below(x) = Below(y)
    BY <1>2, <2>2, FS_Subset
  <2>4. Cardinality(Below(x)) # Cardinality(Below(y))
    BY <2>2, <2>3
  <2>5. Cardinality(Below(x)) \in Nat /\ Cardinality(Below(y)) \in Nat
    BY <1>2, <1>1
  <2> HIDE DEF Below
  <2> QED
    BY <2>3, <2>4, <2>5
<1>4. rank \in Injection(S, 1..n)
  <2>1. rank \in [S -> 1..n]
    BY <1>2
  <2>2. \A x, y \in S : rank[x] = rank[y] => x = y
    <3> SUFFICES ASSUME NEW x \in S, NEW y \in S, rank[x] = rank[y]
                 PROVE  x = y
      OBVIOUS
    <3>1. rank[x] \in Int /\ rank[y] \in Int
      BY <2>1, <1>1
    <3>2. x \in Nat /\ y \in Nat
      OBVIOUS
    <3> QED
      BY <1>3, <3>1, <3>2
  <2> HIDE DEF rank
  <2> QED
    BY <2>1, <2>2 DEF Injection, IsInjective
<1>5. IsFiniteSet(1..n) /\ Cardinality(1..n) = n
  BY <1>1, FS_Interval
<1>6. rank \in Surjection(S, 1..n)
  <2> HIDE DEF rank
  <2> QED
    BY <1>4, <1>5, FS_Injection
<1>7. \A k \in 1..n : \E x \in S : rank[x] = k
  <2> HIDE DEF rank
  <2> QED
    BY <1>6 DEF Surjection
<1>8. \A k \in 1..n : Ascending(S)[k] \in S /\ rank[Ascending(S)[k]] = k
  <2> TAKE k \in 1..n
  <2>0. \A x \in S : S \cap (0..x) = Below(x)
    <3> TAKE x \in S
    <3>1. \A y \in S : y \in 0..x <=> y <= x
      OBVIOUS
    <3> QED
      BY <3>1
  <2>1. Ascending(S)[k] = CHOOSE x \in S : Cardinality(Below(x)) = k
    <3>1. \A x \in S : Cardinality(S \cap (0..x)) = k <=> Cardinality(Below(x)) = k
      BY <2>0
    <3> HIDE DEF Below
    <3> QED
      BY <3>1 DEF Ascending
  <2>2. \E x \in S : Cardinality(Below(x)) = k
    BY <1>7
  <2> QED
    BY <2>1, <2>2
<1>9. Ascending(S) \in [1..n -> S]
  <2> DEFINE At(k) == CHOOSE x \in S : Cardinality(S \cap (0..x)) = k
  <2>1. Ascending(S) = [k \in 1..n |-> At(k)]
    BY DEF Ascending
  <2> HIDE DEF At
  <2>2. \A k \in 1..n : Ascending(S)[k] = At(k)
    BY <2>1
  <2> QED
    BY <2>1, <2>2, <1>8
<1>10. \A x \in S : \E k \in 1..n : Ascending(S)[k] = x
  <2> TAKE x \in S
  <2>1. rank[x] \in 1..n
    BY <1>2
  <2>2. rank[Ascending(S)[rank[x]]] = rank[x] /\ Ascending(S)[rank[x]] \in S
    BY <1>8, <2>1
  <2>3. Ascending(S)[rank[x]] = x
    <3> HIDE DEF rank
    <3> QED
      BY <1>4, <2>2 DEF Injection, IsInjective
  <2> QED
    BY <2>1, <2>3
<1>11. ASSUME NEW i \in 1..n, NEW j \in 1..n, i < j
       PROVE  Ascending(S)[i] < Ascending(S)[j]
  <2> DEFINE a == Ascending(S)[i]
             b == Ascending(S)[j]
  <2>1. a \in S /\ b \in S /\ rank[a] = i /\ rank[b] = j
    BY <1>8
  <2>2. i \in Int /\ j \in Int
    BY <1>1
  <2> HIDE DEF a, b, rank, n
  <2>3. a \in Nat /\ b \in Nat
    BY <2>1
  <2>4. ~ (b < a)
    BY <1>3, <1>11, <2>1, <2>2
  <2>5. a # b
    BY <1>11, <2>1, <2>2
  <2>6. a < b
    BY <2>3, <2>4, <2>5
  <2> QED
    BY <2>6 DEF a, b
<1>12. \A k \in 1..n : Cardinality(Below(Ascending(S)[k])) = k
  BY <1>8
<1> QED
  BY <1>1, <1>9, <1>10, <1>11, <1>12

-----------------------------------------------------------------------------
(***************************************************************************)
(* What appending does to a list of messages.                              *)
(***************************************************************************)
NoAssistant(t) == \A k \in DOMAIN t : t[k].kind # "assistant"

\* Longer lists answer at least as much.
LEMMA ConcatAnswers ==
    ASSUME NEW s \in Seq(Message), NEW t \in Seq(Message),
           NEW i \in DOMAIN s
    PROVE  /\ i \in DOMAIN (s \o t) /\ (s \o t)[i] = s[i]
           /\ Unanswered(s \o t, i) \subseteq Unanswered(s, i)
<1>1. /\ DOMAIN s = 1..Len(s) /\ Len(s) \in Nat
      /\ DOMAIN (s \o t) = 1..Len(s) + Len(t) /\ Len(t) \in Nat
      /\ \A k \in 1..Len(s) : (s \o t)[k] = s[k]
  BY ConcatProperties, LenProperties
<1>2. i \in DOMAIN (s \o t) /\ (s \o t)[i] = s[i]
  BY <1>1
<1>3. ASSUME NEW c \in Unanswered(s \o t, i)
      PROVE  c \in Unanswered(s, i)
  <2>1. c \in CallsOf(s[i])
    BY <1>2 DEF Unanswered
  <2>2. ASSUME NEW j \in DOMAIN s, j > i, s[j] = Result(c),
               \A k \in (i + 1)..j : s[k].kind # "assistant"
        PROVE  FALSE
    <3>1. j \in DOMAIN (s \o t) /\ (s \o t)[j] = Result(c)
      BY <1>1, <2>2
    <3>2. \A k \in (i + 1)..j : (s \o t)[k].kind # "assistant"
      <4> TAKE k \in (i + 1)..j
      <4>1. k \in 1..Len(s)
        BY <1>1
      <4> QED
        BY <1>1, <2>2, <4>1
    <3> QED
      BY <3>1, <3>2, <2>2 DEF Unanswered
  <2> QED
    BY <2>1, <2>2 DEF Unanswered
<1> QED
  BY <1>2, <1>3

\* User messages and results disturb neither what only the last assistant
\* message may leave open, nor a complete list.
LEMMA ConcatOthers ==
    ASSUME NEW s \in Seq(Message), NEW t \in Seq(Message), NoAssistant(t)
    PROVE  /\ s \o t \in Seq(Message)
           /\ AnsweredBut(s) => AnsweredBut(s \o t)
           /\ AllAnswered(s) => AllAnswered(s \o t)
           /\ Asked(s \o t) = Asked(s)
           /\ Returned(s \o t) = Returned(s) \cup Returned(t)
           /\ ResultsFollow(s) => ResultsFollow(s \o t)
           /\ \A i \in DOMAIN (s \o t) :
                 \/ i \in DOMAIN s
                 \/ Unanswered(s \o t, i) = {}
<1> DEFINE u == s \o t
<1>1. /\ DOMAIN s = 1..Len(s) /\ Len(s) \in Nat
      /\ DOMAIN t = 1..Len(t) /\ Len(t) \in Nat
      /\ DOMAIN u = 1..Len(s) + Len(t)
      /\ \A k \in 1..Len(s) : u[k] = s[k]
      /\ \A k \in 1..Len(t) : u[Len(s) + k] = t[k]
      /\ u \in Seq(Message)
  BY ConcatProperties, LenProperties
<1> HIDE DEF u
<1>2. \A i \in DOMAIN u :
         \/ i \in DOMAIN s /\ u[i] = s[i]
         \/ \E k \in DOMAIN t : i = Len(s) + k /\ u[i] = t[k]
  <2> TAKE i \in DOMAIN u
  <2>1. CASE i <= Len(s)
    BY <1>1, <2>1
  <2>2. CASE i > Len(s)
    <3>1. i - Len(s) \in 1..Len(t) /\ i = Len(s) + (i - Len(s))
      BY <1>1, <2>2
    <3> QED
      BY <1>1, <3>1
  <2> QED
    BY <1>1, <2>1, <2>2
<1>3. \A i \in DOMAIN u : i \notin DOMAIN s =>
         u[i].kind # "assistant" /\ CallsOf(u[i]) = {} /\ Unanswered(u, i) = {}
  BY <1>2 DEF NoAssistant, CallsOf, Unanswered
<1>4. \A i \in DOMAIN s : Unanswered(u, i) \subseteq Unanswered(s, i)
  BY ConcatAnswers DEF u
<1>5. AnsweredBut(s) => AnsweredBut(u)
  <2> SUFFICES ASSUME AnsweredBut(s), NEW i \in DOMAIN u, NEW k \in DOMAIN u,
                      i < k, u[k].kind = "assistant"
               PROVE  Unanswered(u, i) = {}
    BY DEF AnsweredBut
  <2>1. k \in DOMAIN s /\ s[k].kind = "assistant"
    BY <1>2, <1>3, <1>1
  <2>2. i \in DOMAIN s
    BY <2>1, <1>1
  <2> QED
    BY <2>1, <2>2, <1>4 DEF AnsweredBut
<1>6. AllAnswered(s) => AllAnswered(u)
  BY <1>3, <1>4 DEF AllAnswered
<1>7. Asked(u) = Asked(s)
  <2>1. \A i \in DOMAIN s : i \in DOMAIN u /\ u[i] = s[i]
    BY <1>1
  <2> QED
    BY <1>2, <1>3, <2>1 DEF Asked
<1>8. Returned(u) = Returned(s) \cup Returned(t)
  <2>1. \A i \in DOMAIN s : i \in DOMAIN u /\ u[i] = s[i]
    BY <1>1
  <2>2. \A k \in DOMAIN t : Len(s) + k \in DOMAIN u /\ u[Len(s) + k] = t[k]
    BY <1>1
  <2> QED
    BY <1>2, <2>1, <2>2 DEF Returned
<1>9. ResultsFollow(s) => ResultsFollow(u)
  <2> SUFFICES ASSUME ResultsFollow(s), NEW i \in DOMAIN u, NEW j \in DOMAIN u,
                      u[j].kind = "result", u[j].call \in CallsOf(u[i])
               PROVE  i < j
    BY DEF ResultsFollow
  <2>1. i \in DOMAIN s /\ u[i] = s[i]
    BY <1>2, <1>3
  <2>2. CASE j \in DOMAIN s
    BY <2>1, <2>2, <1>1 DEF ResultsFollow
  <2>3. CASE j \notin DOMAIN s
    BY <2>1, <2>3, <1>1
  <2> QED
    BY <2>2, <2>3
<1> QED
  BY <1>1, <1>3, <1>5, <1>6, <1>7, <1>8, <1>9 DEF u

\* A complete list takes a new assistant message whose calls have no result.
LEMMA AppendReply ==
    ASSUME NEW s \in Seq(Message), NEW m \in AssistantMsg,
           AllAnswered(s), ResultsFollow(s), CallsOf(m) \cap Returned(s) = {}
    PROVE  /\ Append(s, m) \in Seq(Message)
           /\ AnsweredBut(Append(s, m))
           /\ ResultsFollow(Append(s, m))
           /\ Asked(Append(s, m)) = Asked(s) \cup CallsOf(m)
           /\ Returned(Append(s, m)) = Returned(s)
           /\ \A i \in DOMAIN Append(s, m) :
                 Unanswered(Append(s, m), i) \subseteq CallsOf(m)
<1> DEFINE u == Append(s, m)
<1>1. m \in Message /\ m.kind = "assistant"
  BY DEF Message, AssistantMsg
<1>2. /\ DOMAIN s = 1..Len(s) /\ Len(s) \in Nat
      /\ DOMAIN u = 1..Len(s) + 1 /\ u \in Seq(Message)
      /\ \A k \in 1..Len(s) : u[k] = s[k]
      /\ u[Len(s) + 1] = m
  BY <1>1, AppendProperties, LenProperties
<1>3. u = s \o <<m>> /\ <<m>> \in Seq(Message)
  BY <1>1, AppendIsConcat
<1>4. \A i \in DOMAIN s : Unanswered(u, i) = {}
  <2> TAKE i \in DOMAIN s
  <2>1. Unanswered(s \o <<m>>, i) \subseteq Unanswered(s, i)
    BY <1>3, ConcatAnswers
  <2> QED
    BY <1>3, <2>1 DEF AllAnswered
<1> HIDE DEF u
<1>5. \A i \in DOMAIN u : i \in DOMAIN s \/ i = Len(s) + 1
  BY <1>2
<1>6. AnsweredBut(u)
  <2> SUFFICES ASSUME NEW i \in DOMAIN u, NEW k \in DOMAIN u, i < k
               PROVE  Unanswered(u, i) = {}
    BY DEF AnsweredBut
  <2>1. i \in DOMAIN s
    BY <1>2
  <2> QED
    BY <2>1, <1>4
<1>7. ResultsFollow(u)
  <2> SUFFICES ASSUME NEW i \in DOMAIN u, NEW j \in DOMAIN u,
                      u[j].kind = "result", u[j].call \in CallsOf(u[i])
               PROVE  i < j
    BY DEF ResultsFollow
  <2>1. j \in DOMAIN s /\ u[j] = s[j]
    BY <1>1, <1>2, <1>5
  <2>2. CASE i \in DOMAIN s
    BY <1>2, <2>1, <2>2 DEF ResultsFollow
  <2>3. CASE i = Len(s) + 1
    <3>1. s[j].call \in Returned(s)
      BY <2>1 DEF Returned
    <3> QED
      BY <1>2, <2>1, <2>3, <3>1
  <2> QED
    BY <1>5, <2>2, <2>3
<1>8. Asked(u) = Asked(s) \cup CallsOf(m)
  <2>1. \A i \in DOMAIN s : i \in DOMAIN u /\ u[i] = s[i]
    BY <1>2
  <2>2. Len(s) + 1 \in DOMAIN u
    BY <1>2
  <2> QED
    BY <1>2, <1>5, <2>1, <2>2 DEF Asked
<1>9. Returned(u) = Returned(s)
  <2>1. \A i \in DOMAIN s : i \in DOMAIN u /\ u[i] = s[i]
    BY <1>2
  <2> QED
    BY <1>1, <1>2, <1>5, <2>1 DEF Returned
<1>10. \A i \in DOMAIN u : Unanswered(u, i) \subseteq CallsOf(m)
  <2> TAKE i \in DOMAIN u
  <2>1. CASE i \in DOMAIN s
    BY <2>1, <1>4
  <2>2. CASE i = Len(s) + 1
    BY <2>2, <1>2 DEF Unanswered
  <2> QED
    BY <1>5, <2>1, <2>2
<1> QED
  BY <1>2, <1>6, <1>7, <1>8, <1>9, <1>10 DEF u

\* The result of a call that may be open, appended where only the last
\* assistant message is incomplete, closes it.
LEMMA AppendResult ==
    ASSUME NEW s \in Seq(Message), NEW c \in CallId,
           AnsweredBut(s), ResultsFollow(s)
    PROVE  /\ Append(s, Result(c)) = s \o <<Result(c)>>
           /\ <<Result(c)>> \in Seq(Message) /\ NoAssistant(<<Result(c)>>)
           /\ Returned(<<Result(c)>>) = {c}
           /\ \A i \in DOMAIN Append(s, Result(c)) :
                 /\ c \notin Unanswered(Append(s, Result(c)), i)
                 /\ \/ i \in DOMAIN s /\ Unanswered(Append(s, Result(c)), i)
                                            \subseteq Unanswered(s, i)
                    \/ Unanswered(Append(s, Result(c)), i) = {}
<1> DEFINE r == Result(c)
           u == Append(s, r)
<1>1. r \in Message /\ r.kind = "result" /\ r.call = c
  BY DEF Message, ResultMsg, Result
<1>2. u = s \o <<r>> /\ <<r>> \in Seq(Message)
  BY <1>1, AppendIsConcat
<1>3. NoAssistant(<<r>>) /\ Returned(<<r>>) = {c}
  BY <1>1 DEF NoAssistant, Returned
<1>4. /\ DOMAIN s = 1..Len(s) /\ Len(s) \in Nat
      /\ DOMAIN u = 1..Len(s) + 1
      /\ \A k \in 1..Len(s) : u[k] = s[k]
      /\ u[Len(s) + 1] = r
  BY <1>1, AppendProperties, LenProperties
<1>5. \A i \in DOMAIN u :
         \/ i \in DOMAIN s /\ Unanswered(u, i) \subseteq Unanswered(s, i)
         \/ Unanswered(u, i) = {}
  <2>1. \A i \in DOMAIN u : i \in DOMAIN s \/ Unanswered(u, i) = {}
    BY <1>2, <1>3, ConcatOthers
  <2>2. \A i \in DOMAIN s : Unanswered(u, i) \subseteq Unanswered(s, i)
    BY <1>2, ConcatAnswers
  <2> QED
    BY <2>1, <2>2
<1> HIDE DEF u, r
<1>6. \A i \in DOMAIN u : c \notin Unanswered(u, i)
  <2> SUFFICES ASSUME NEW i \in DOMAIN u, c \in Unanswered(u, i)
               PROVE  FALSE
    OBVIOUS
  <2>1. i \in DOMAIN s /\ c \in Unanswered(s, i)
    BY <1>5
  <2>2. \A k \in DOMAIN s : k > i => s[k].kind # "assistant"
    BY <2>1, <1>4 DEF AnsweredBut
  <2>3. \A k \in (i + 1)..(Len(s) + 1) : u[k].kind # "assistant"
    BY <2>1, <2>2, <1>1, <1>4
  <2>4. Len(s) + 1 \in DOMAIN u /\ Len(s) + 1 > i /\ u[Len(s) + 1] = Result(c)
    BY <2>1, <1>4 DEF r
  <2> QED
    BY <2>3, <2>4 DEF Unanswered
<1> QED
  BY <1>2, <1>3, <1>5, <1>6 DEF u, r

\* A message whose kind is "result" is the Result of its call.
LEMMA ResultShape ==
    ASSUME NEW m \in Message, m.kind = "result"
    PROVE  m = Result(m.call) /\ m.call \in CallId
BY DEF Message, UserMsg, AssistantMsg, ResultMsg, Result

\* The calls a list asks for are numbers.
LEMMA AskedType ==
    ASSUME NEW s \in Seq(Message)
    PROVE  Asked(s) \subseteq Nat
<1> SUFFICES ASSUME NEW i \in DOMAIN s, NEW c \in CallsOf(s[i])
             PROVE  c \in Nat
  BY DEF Asked
<1>1. s[i] \in Message
  BY LenProperties, ElementOfSeq
<1>2. s[i].kind = "assistant" /\ c \in Range(s[i].calls)
  BY DEF CallsOf
<1>3. s[i] \in AssistantMsg
  BY <1>1, <1>2 DEF Message, UserMsg, ResultMsg
<1>4. s[i].calls \in Seq(Nat)
  BY <1>3 DEF AssistantMsg, CallId
<1> QED
  BY <1>2, <1>4, RangeOfSeq

\* The repair completes a list in which only the last assistant message is
\* incomplete and every result follows its call.
LEMMA RepairCloses ==
    ASSUME NEW s \in Seq(Message), NEW n \in Nat,
           \A c \in Asked(s) : c <= n,
           AnsweredBut(s), ResultsFollow(s)
    PROVE  /\ Repaired(s) \in Seq(Message)
           /\ AllAnswered(Repaired(s))
           /\ AnsweredBut(Repaired(s))
           /\ ResultsFollow(Repaired(s))
           /\ Asked(Repaired(s)) = Asked(s)
           /\ Returned(Repaired(s)) = Returned(s) \cup Open(s)
           /\ Open(Repaired(s)) = {}
<1> DEFINE asc == Ascending(Open(s))
           m == Cardinality(Open(s))
           t == [k \in 1..m |-> Result(asc[k])]
           u == s \o t
<1>1. Open(s) \subseteq Nat /\ IsFiniteSet(Open(s))
  <2>1. Open(s) \subseteq Asked(s)
    BY DEF Open
  <2>2. Open(s) \in SUBSET Nat /\ \A c \in Open(s) : c <= n
    BY <2>1, AskedType
  <2> QED
    BY <2>2, FS_BoundedSetOfNaturals
<1>2. /\ m \in Nat /\ asc \in [1..m -> Open(s)]
      /\ \A c \in Open(s) : \E k \in 1..m : asc[k] = c
  BY <1>1, AscendingProperties
<1> HIDE DEF asc, m
<1>3. \A k \in 1..m : t[k] \in ResultMsg /\ t[k].kind = "result" /\ t[k].call = asc[k]
  BY <1>1, <1>2 DEF ResultMsg, Result, CallId
<1>4. t \in Seq(Message) /\ DOMAIN t = 1..m /\ Len(t) = m
  <2>1. \A k \in 1..m : t[k] \in Message
    BY <1>3 DEF Message
  <2>2. t \in [1..m -> Message]
    BY <2>1
  <2>3. t \in Seq(Message)
    BY <2>2, <1>2, SeqDef
  <2> QED
    BY <2>3, <1>2, LenProperties
<1>5. NoAssistant(t)
  BY <1>3, <1>4 DEF NoAssistant
<1>6. Returned(t) = Open(s)
  <2>1. Returned(t) \subseteq Open(s)
    BY <1>2, <1>3, <1>4 DEF Returned
  <2>2. ASSUME NEW c \in Open(s) PROVE c \in Returned(t)
    <3>1. PICK k \in 1..m : asc[k] = c
      BY <1>2
    <3> QED
      BY <3>1, <1>3, <1>4 DEF Returned
  <2> QED
    BY <2>1, <2>2
<1>7. \A k \in 1..m : t[k] = Result(asc[k])
  OBVIOUS
<1> HIDE DEF t
<1>8. /\ DOMAIN s = 1..Len(s) /\ Len(s) \in Nat
      /\ DOMAIN u = 1..Len(s) + m
      /\ \A k \in 1..Len(s) : u[k] = s[k]
      /\ \A k \in 1..m : u[Len(s) + k] = t[k]
  <2>1. /\ Len(s) \in Nat /\ DOMAIN s = 1..Len(s)
        /\ u \in Seq(Message) /\ Len(u) = Len(s) + m
        /\ \A k \in 1..Len(s) + m :
              u[k] = IF k <= Len(s) THEN s[k] ELSE t[k - Len(s)]
    BY <1>4, ConcatProperties, LenProperties
  <2>2. DOMAIN u = 1..Len(s) + m
    BY <2>1, LenProperties
  <2>3. ASSUME NEW k \in 1..m PROVE u[Len(s) + k] = t[k]
    <3>1. /\ Len(s) + k \in 1..Len(s) + m /\ ~(Len(s) + k <= Len(s))
          /\ (Len(s) + k) - Len(s) = k
      BY <2>1, <1>2
    <3> QED
      BY <2>1, <3>1
  <2>4. \A k \in 1..Len(s) : k \in 1..Len(s) + m /\ k <= Len(s)
    BY <2>1, <1>2
  <2> QED
    BY <2>1, <2>2, <2>3, <2>4
<1>9. /\ u \in Seq(Message) /\ AnsweredBut(u) /\ ResultsFollow(u)
      /\ Asked(u) = Asked(s) /\ Returned(u) = Returned(s) \cup Open(s)
      /\ \A i \in DOMAIN u : i \in DOMAIN s \/ Unanswered(u, i) = {}
  BY <1>4, <1>5, <1>6, ConcatOthers
<1>10. \A i \in DOMAIN s : Unanswered(u, i) \subseteq Unanswered(s, i)
  BY <1>4, ConcatAnswers
<1> HIDE DEF u
<1>11. AllAnswered(u)
  <2> SUFFICES ASSUME NEW i \in DOMAIN u, NEW c \in Unanswered(u, i)
               PROVE  FALSE
    BY DEF AllAnswered
  <2>1. i \in DOMAIN s /\ c \in Unanswered(s, i)
    BY <1>9, <1>10
  <2>2. \A k \in DOMAIN s : k > i => s[k].kind # "assistant"
    BY <2>1, <1>8 DEF AnsweredBut
  <2>3. c \in CallsOf(s[i])
    BY <2>1 DEF Unanswered
  <2>4. CASE c \in Returned(s)
    <3>1. PICK j \in DOMAIN s : s[j].kind = "result" /\ s[j].call = c
      BY <2>4 DEF Returned
    <3>2. s[j] = Result(c)
      BY <3>1, ResultShape, ElementOfSeq, <1>8
    <3>3. i < j
      BY <3>1, <2>1, <2>3 DEF ResultsFollow
    <3>4. \A k \in (i + 1)..j : s[k].kind # "assistant"
      BY <2>1, <2>2, <1>8, <3>3
    <3> QED
      BY <2>1, <3>2, <3>3, <3>4, <1>8 DEF Unanswered
  <2>5. CASE c \notin Returned(s)
    <3>1. c \in Open(s)
      BY <2>1, <2>3, <2>5 DEF Open, Asked
    <3>2. PICK k \in 1..m : asc[k] = c
      BY <3>1, <1>2
    <3>3. /\ Len(s) + k \in DOMAIN u /\ u[Len(s) + k] = Result(c)
          /\ Len(s) + k > i
      <4>1. u[Len(s) + k] = t[k] /\ t[k] = Result(c)
        BY <3>2, <1>7, <1>8
      <4>2. Len(s) + k \in DOMAIN u /\ Len(s) + k > i
        BY <1>8, <1>2, <2>1
      <4> QED
        BY <4>1, <4>2
    <3>4. \A l \in (i + 1)..(Len(s) + k) : u[l].kind # "assistant"
      <4> TAKE l \in (i + 1)..(Len(s) + k)
      <4>1. CASE l <= Len(s)
        BY <4>1, <2>1, <2>2, <1>8
      <4>2. CASE l > Len(s)
        <5>1. l - Len(s) \in 1..m /\ l = Len(s) + (l - Len(s))
          BY <4>2, <1>8, <1>2
        <5>2. u[l] = t[l - Len(s)]
          BY <5>1, <1>8
        <5> QED
          BY <5>1, <5>2, <1>3
      <4> QED
        BY <4>1, <4>2, <1>8, <2>1, <1>2
    <3> QED
      BY <3>3, <3>4 DEF Unanswered
  <2> QED
    BY <2>4, <2>5
<1>12. Open(u) = {}
  BY <1>9 DEF Open
<1>13. u = Repaired(s)
  BY DEF Repaired, u, t, m, asc
<1> QED
  BY <1>9, <1>11, <1>12, <1>13

\* An earlier state of a list is as well ordered as the list.
LEMMA PrefixKeeps ==
    ASSUME NEW s \in Seq(Message), NEW n \in 0..Len(s),
           AnsweredBut(s), ResultsFollow(s)
    PROVE  /\ SubSeq(s, 1, n) \in Seq(Message)
           /\ AnsweredBut(SubSeq(s, 1, n))
           /\ ResultsFollow(SubSeq(s, 1, n))
           /\ Asked(SubSeq(s, 1, n)) \subseteq Asked(s)
           /\ Returned(SubSeq(s, 1, n)) \subseteq Returned(s)
<1> DEFINE u == SubSeq(s, 1, n)
<1>1. /\ DOMAIN s = 1..Len(s) /\ Len(s) \in Nat /\ n \in Nat /\ n <= Len(s)
      /\ \A i \in 1..n : s[i] \in Message
  BY LenProperties, ElementOfSeq
<1>2. /\ u \in Seq(Message) /\ Len(u) = n
      /\ \A i \in 1..n : u[i] = s[i]
  BY <1>1, SubSeqProperties
<1>3. DOMAIN u = 1..n /\ \A i \in 1..n : i \in DOMAIN s
  BY <1>1, <1>2, LenProperties
<1> HIDE DEF u
<1>4. AnsweredBut(u)
  <2> SUFFICES ASSUME NEW i \in DOMAIN u, NEW k \in DOMAIN u,
                      i < k, u[k].kind = "assistant",
                      NEW c \in Unanswered(u, i)
               PROVE  FALSE
    BY DEF AnsweredBut
  <2>1. Unanswered(s, i) = {} /\ s[k].kind = "assistant"
    BY <1>2, <1>3 DEF AnsweredBut
  <2>2. c \in CallsOf(s[i])
    BY <1>2, <1>3 DEF Unanswered
  <2>3. PICK j \in DOMAIN s :
           /\ j > i /\ s[j] = Result(c)
           /\ \A l \in (i + 1)..j : s[l].kind # "assistant"
    BY <2>1, <2>2 DEF Unanswered
  <2>4. j < k
    BY <2>1, <2>3, <1>1, <1>3
  <2>5. j \in DOMAIN u /\ \A l \in (i + 1)..j : u[l] = s[l]
    BY <2>4, <2>3, <1>1, <1>2, <1>3
  <2>6. u[j] = Result(c) /\ \A l \in (i + 1)..j : u[l].kind # "assistant"
    BY <2>3, <2>5, <1>2, <1>3
  <2> QED
    BY <2>3, <2>5, <2>6 DEF Unanswered
<1>5. ResultsFollow(u)
  BY <1>2, <1>3 DEF ResultsFollow
<1>6. Asked(u) \subseteq Asked(s) /\ Returned(u) \subseteq Returned(s)
  BY <1>2, <1>3 DEF Asked, Returned
<1> QED
  BY <1>2, <1>4, <1>5, <1>6 DEF u

\* What the provider is given of a complete list is complete.
LEMMA ContextKeeps ==
    ASSUME NEW s \in Seq(Message), AllAnswered(s)
    PROVE  ProviderContext(s) \in Seq(Message) /\ AllAnswered(ProviderContext(s))
<1> DEFINE K == {i \in DOMAIN s : Replayable(s[i])}
           kept == Ascending(K)
           m == Cardinality(K)
           u == ProviderContext(s)
<1>1. DOMAIN s = 1..Len(s) /\ Len(s) \in Nat /\ \A i \in DOMAIN s : s[i] \in Message
  BY LenProperties, ElementOfSeq
<1>2. K \in SUBSET Nat /\ IsFiniteSet(K)
  <2>1. K \in SUBSET (1..Len(s)) /\ IsFiniteSet(1..Len(s))
    BY <1>1, FS_Interval
  <2>2. 1..Len(s) \subseteq Nat
    BY <1>1
  <2> HIDE DEF K
  <2> QED
    BY <2>1, <2>2, FS_Subset
<1>3. K \subseteq DOMAIN s /\ \A i \in DOMAIN s : Replayable(s[i]) => i \in K
  OBVIOUS
<1> HIDE DEF K
<1>4. /\ m \in Nat /\ kept \in [1..m -> K]
      /\ \A i \in K : \E k \in 1..m : kept[k] = i
      /\ \A k, l \in 1..m : k < l => kept[k] < kept[l]
  BY <1>2, AscendingProperties
<1> HIDE DEF m
<1>5. u = [k \in DOMAIN kept |-> s[kept[k]]]
  BY DEF ProviderContext, Picked, K
<1> HIDE DEF kept, u
<1>6. DOMAIN u = 1..m /\ \A k \in 1..m : u[k] = s[kept[k]] /\ kept[k] \in DOMAIN s
  BY <1>3, <1>4, <1>5
<1>7. u \in Seq(Message)
  <2>1. \A k \in 1..m : u[k] \in Message
    BY <1>1, <1>6
  <2>2. u \in [1..m -> Message]
    BY <1>4, <1>5, <1>6, <2>1
  <2> QED
    BY <2>2, <1>4, SeqDef
<1>8. ASSUME NEW k \in 1..m, NEW l \in 1..m, kept[k] < kept[l]
      PROVE  k < l
  <2>1. kept[k] \in K /\ kept[l] \in K /\ m \in Nat
    BY <1>4
  <2>2. \A i \in K : i \in Nat
    BY <1>2
  <2>3. k \in Nat /\ l \in Nat /\ kept[k] \in Nat /\ kept[l] \in Nat
    BY <2>1, <2>2
  <2>4. ~ (l < k)
    BY <1>4, <1>8, <2>3
  <2>5. l # k
    BY <1>8, <2>3
  <2> QED
    BY <2>3, <2>4, <2>5
<1>9. ASSUME NEW k \in DOMAIN u, NEW c \in Unanswered(u, k)
      PROVE  FALSE
  <2>1. c \in CallsOf(s[kept[k]]) /\ kept[k] \in DOMAIN s
    BY <1>6 DEF Unanswered
  <2>2. PICK j \in DOMAIN s :
           /\ j > kept[k] /\ s[j] = Result(c)
           /\ \A i \in (kept[k] + 1)..j : s[i].kind # "assistant"
    BY <2>1 DEF AllAnswered, Unanswered
  <2>3. Replayable(s[j])
    BY <2>2 DEF Replayable, Result
  <2>4. PICK l \in 1..m : kept[l] = j
    BY <1>3, <1>4, <2>3
  <2>5. k \in 1..m /\ k < l
    BY <1>6, <1>8, <2>2, <2>4
  <2>6. l \in DOMAIN u /\ u[l] = Result(c)
    BY <1>6, <2>2, <2>4
  <2>7. \A i \in (k + 1)..l : u[i].kind # "assistant"
    <3> TAKE i \in (k + 1)..l
    <3>1. i \in 1..m /\ k < i
      BY <1>4, <2>5
    <3>2. kept[k] < kept[i] /\ (i = l \/ kept[i] < kept[l])
      BY <1>4, <2>5, <3>1
    <3>3. /\ kept[k] \in Nat /\ kept[i] \in Nat /\ kept[l] \in Nat
      BY <1>2, <1>4, <2>5, <3>1
    <3>4. kept[i] \in (kept[k] + 1)..j
      BY <2>4, <3>2, <3>3
    <3> QED
      BY <1>6, <2>2, <3>1, <3>4
  <2> QED
    BY <2>5, <2>6, <2>7, <1>9 DEF Unanswered
<1> QED
  BY <1>7, <1>9 DEF u, AllAnswered

-----------------------------------------------------------------------------
(***************************************************************************)
(* Types.                                                                  *)
(***************************************************************************)
LEMMA MessageTypes ==
    /\ UserMsg \subseteq Message /\ AssistantMsg \subseteq Message
    /\ \A q : q \in Seq(UserMsg) => q \in Seq(Message)
    /\ \A n \in Nat, via \in {"prompt", "steer", "follow_up", "append"} :
          User(n, via) \in UserMsg
    /\ \A cs \in Seq(CallId), stop \in {"done", "failed"} :
          Assistant(cs, stop) \in AssistantMsg
    /\ ErrorMessage \in AssistantMsg /\ NoReply \in AssistantMsg
    /\ \A c \in CallId : Result(c) \in Message
<1>1. UserMsg \subseteq Message /\ AssistantMsg \subseteq Message
  BY DEF Message
<1>2. \A q : q \in Seq(UserMsg) => q \in Seq(Message)
  BY <1>1, SeqMonotonic
<1>3. \A cs \in Seq(CallId), stop \in {"done", "failed"} :
         Assistant(cs, stop) \in AssistantMsg
  BY DEF Assistant, AssistantMsg
<1>4. <<>> \in Seq(CallId)
  BY EmptySeq
<1> QED
  BY <1>1, <1>2, <1>3, <1>4
     DEF UserMsg, User, Result, ResultMsg, Message, ErrorMessage, NoReply

LEMMA DrainTypes ==
    ASSUME NEW q \in Seq(UserMsg)
    PROVE  Drained(q) \in Seq(UserMsg) /\ Remaining(q) \in Seq(UserMsg)
BY HeadTailProperties, EmptySeq DEF Drained, Remaining

LEMMA UserLists ==
    ASSUME NEW q \in Seq(UserMsg)
    PROVE  NoAssistant(q) /\ Returned(q) = {} /\ Ids(q) \subseteq Nat
<1>1. \A i \in DOMAIN q : q[i] \in UserMsg
  BY LenProperties, ElementOfSeq
<1> QED
  BY <1>1 DEF NoAssistant, Returned, Ids, UserMsg

LEMMA BatchTypes ==
    ASSUME HarnessAssumption, CallIds = "fresh", calls \in Nat,
           NEW batch \in Batches
    PROVE  /\ batch \in Seq(CallId) /\ Len(batch) \in Nat
           /\ \A c \in Range(batch) : c > calls /\ c <= calls + Len(batch)
<1>1. PICK n \in 0..MaxBatch : batch = [i \in 1..n |-> calls + i]
  BY DEF Batches
<1>2. n \in Nat
  BY DEF HarnessAssumption
<1>3. batch \in [1..n -> Nat] /\ DOMAIN batch = 1..n
  BY <1>1, <1>2
<1>4. batch \in Seq(Nat)
  BY <1>2, <1>3, SeqDef
<1>5. Len(batch) = n
  BY <1>2, <1>3, <1>4, LenProperties
<1>6. \A c \in Range(batch) : c > calls /\ c <= calls + n
  BY <1>1, <1>2, <1>3 DEF Range
<1> QED
  BY <1>2, <1>4, <1>5, <1>6 DEF CallId

-----------------------------------------------------------------------------
(***************************************************************************)
(* The invariant holds initially.                                          *)
(***************************************************************************)
LEMMA InitInv == Init => AnswerInv
<1> SUFFICES ASSUME Init PROVE AnswerInv
  OBVIOUS
<1>1. TypeOK
  BY MessageTypes, EmptySeq DEF Init, TypeOK, Places
<1>2. ListsOrdered
  BY DEF Init, ListsOrdered, AnsweredBut, ResultsFollow, Asked, Returned
<1>3. RunOwes
  BY DEF Init, RunOwes
<1> QED
  BY <1>1, <1>2, <1>3 DEF AnswerInv

-----------------------------------------------------------------------------
(***************************************************************************)
(* Every step preserves the types.                                         *)
(***************************************************************************)
LEMMA ListsRepaired ==
    ASSUME AnswerInv, NEW l \in {1, 2}
    PROVE  /\ lists[l] \in Seq(Message)
           /\ Repaired(lists[l]) \in Seq(Message)
           /\ AllAnswered(Repaired(lists[l]))
           /\ AnsweredBut(Repaired(lists[l]))
           /\ ResultsFollow(Repaired(lists[l]))
           /\ Asked(Repaired(lists[l])) = Asked(lists[l])
           /\ Returned(Repaired(lists[l])) = Returned(lists[l]) \cup Open(lists[l])
           /\ Open(Repaired(lists[l])) = {}
<1>1. lists[l] \in Seq(Message) /\ calls \in Nat
  BY DEF AnswerInv, TypeOK
<1>2. /\ AnsweredBut(lists[l]) /\ ResultsFollow(lists[l])
      /\ \A c \in Asked(lists[l]) : c <= calls
  BY DEF AnswerInv, ListsOrdered
<1> QED
  BY <1>1, <1>2, RepairCloses

LEMMA RecordTypes ==
    ASSUME TypeOK, NEW m \in Message, Record(m)
    PROVE  lists' \in [{1, 2} -> Seq(Message)] /\ newMessages' \in Seq(Message)
<1>1. lists[loop] \in Seq(Message) /\ newMessages \in Seq(Message)
  BY DEF TypeOK
<1>2. /\ Append(lists[loop], m) \in Seq(Message)
      /\ Append(newMessages, m) \in Seq(Message)
  BY <1>1, AppendProperties
<1> QED
  BY <1>2 DEF TypeOK, Record

LEMMA ProceedTypes ==
    ASSUME AnswerInv, NEW batch \in Seq(UserMsg), Proceed(batch),
           AllAnswered(RunList), UNCHANGED loop
    PROVE  /\ lists' \in [{1, 2} -> Seq(Message)]
           /\ newMessages' \in Seq(Message)
           /\ injected' \in Seq(UserMsg)
           /\ pending' \in Seq(UserMsg)
           /\ context' \in Seq(Message)
           /\ at' \in {"injecting", "streaming", "agentEnd"}
<1>1. TypeOK /\ injected \in Seq(UserMsg) /\ RunList \in Seq(Message)
  BY DEF AnswerInv, TypeOK, RunList
<1>2. CASE batch # <<>> /\ Record(Head(batch))
           /\ injected' = Append(injected, Head(batch))
           /\ pending' = Tail(batch) /\ at' = "injecting" /\ UNCHANGED context
  <2>1. Head(batch) \in UserMsg /\ Tail(batch) \in Seq(UserMsg)
    BY <1>2, HeadTailProperties
  <2>2. Head(batch) \in Message
    BY <2>1, MessageTypes
  <2>3. lists' \in [{1, 2} -> Seq(Message)] /\ newMessages' \in Seq(Message)
    BY <1>1, <1>2, <2>2, RecordTypes
  <2> QED
    BY <1>1, <1>2, <2>1, <2>3, AppendProperties DEF TypeOK
<1>3. CASE Record(ErrorMessage) /\ pending' = <<>> /\ at' = "agentEnd"
           /\ UNCHANGED <<context, injected>>
  <2>1. ErrorMessage \in Message
    BY MessageTypes
  <2>2. lists' \in [{1, 2} -> Seq(Message)] /\ newMessages' \in Seq(Message)
    BY <1>1, <1>3, <2>1, RecordTypes
  <2> QED
    BY <1>1, <1>3, <2>2, EmptySeq DEF TypeOK
<1>4. CASE context' = ProviderContext(RunList) /\ pending' = <<>>
           /\ at' = "streaming" /\ UNCHANGED <<lists, newMessages, injected>>
  <2>1. context' \in Seq(Message)
    BY <1>1, <1>4, ContextKeeps
  <2> QED
    BY <1>1, <1>4, <2>1, EmptySeq DEF TypeOK
<1> QED
  BY <1>2, <1>3, <1>4 DEF Proceed

LEMMA StepTypes ==
    ASSUME CallIds = "fresh", HarnessAssumption, AnswerInv, Next
    PROVE  TypeOK'
<1>1. TypeOK
  BY DEF AnswerInv
<1>2. ASSUME NEW prompts \in Seq(UserMsg), StartRun(prompts), users' \in Nat
      PROVE  TypeOK'
  <2>1. Repaired(lists[own]) \in Seq(Message) /\ prompts \in Seq(Message)
    BY <1>1, ListsRepaired, MessageTypes DEF TypeOK
  <2>2. Repaired(lists[own]) \o prompts \in Seq(Message)
    BY <2>1, ConcatProperties
  <2>3. lists' \in [{1, 2} -> Seq(Message)]
    BY <1>1, <1>2, <2>2 DEF TypeOK, StartRun
  <2> QED
    BY <1>1, <1>2, <2>1, <2>3, MessageTypes, EmptySeq
       DEF TypeOK, StartRun, Places, queueVars, history
<1>3. CASE Prompt
  <2>1. <<User(users + 1, "prompt")>> \in Seq(UserMsg) /\ users + 1 \in Nat
    BY <1>1, MessageTypes DEF TypeOK
  <2> QED
    BY <1>2, <1>3, <2>1 DEF Prompt
<1>4. CASE Continue
  BY <1>1, <1>2, <1>4, EmptySeq DEF Continue, TypeOK
<1>5. CASE FirstTurn
  <2>1. AllAnswered(RunList)
    BY <1>5 DEF FirstTurn, AnswerInv, RunOwes
  <2>2. Drained(steering) \in Seq(UserMsg) /\ Remaining(steering) \in Seq(UserMsg)
    BY <1>1, DrainTypes DEF TypeOK
  <2>3. CASE Record(ErrorMessage) /\ at' = "agentEnd"
             /\ UNCHANGED <<steering, pending, context, injected>>
    <3>1. lists' \in [{1, 2} -> Seq(Message)] /\ newMessages' \in Seq(Message)
      BY <1>1, <2>3, MessageTypes, RecordTypes
    <3> QED
      BY <1>1, <1>5, <2>3, <3>1
         DEF FirstTurn, TypeOK, Places, counters
  <2>4. CASE steering' = Remaining(steering) /\ Proceed(Drained(steering))
    BY <1>1, <1>5, <2>1, <2>2, <2>4, ProceedTypes
       DEF FirstTurn, TypeOK, Places, counters
  <2> QED
    BY <1>5, <2>3, <2>4 DEF FirstTurn
<1>6. CASE NextStep
  <2>1. AllAnswered(RunList) /\ pending \in Seq(UserMsg)
    BY <1>1, <1>6 DEF NextStep, AnswerInv, RunOwes, TypeOK
  <2> QED
    BY <1>1, <1>6, <2>1, ProceedTypes
       DEF NextStep, TypeOK, Places, counters, queueVars
<1>7. CASE Respond
  <2>1. PICK batch \in Batches, stop \in {"done", "failed"} :
           reply' = Assistant(batch, stop) /\ calls' = calls + Len(batch)
    BY <1>7 DEF Respond
  <2>2. batch \in Seq(CallId) /\ Len(batch) \in Nat
    BY <1>1, BatchTypes DEF TypeOK
  <2>3. reply' \in AssistantMsg /\ calls' \in Nat
    BY <1>1, <2>1, <2>2, MessageTypes DEF TypeOK
  <2> QED
    BY <1>1, <1>7, <2>3, EmptySeq
       DEF Respond, TypeOK, Places, queueVars, history
<1>8. CASE RecordReply
  <2>1. reply \in Message /\ reply.calls \in Seq(CallId)
    BY <1>1, MessageTypes DEF TypeOK, AssistantMsg
  <2>2. lists' \in [{1, 2} -> Seq(Message)] /\ newMessages' \in Seq(Message)
    BY <1>1, <1>8, <2>1, RecordTypes DEF RecordReply
  <2> QED
    BY <1>1, <1>8, <2>1, <2>2, EmptySeq
       DEF RecordReply, TypeOK, Places, queueVars, history, counters
<1>9. CASE Refuse \/ Execute \/ Return
  BY <1>1, <1>9
     DEF Refuse, Execute, Return, Move, TypeOK, Places, queueVars, history,
         counters
<1>10. CASE RecordResult
  <2>1. todo # <<>> /\ todo \in Seq(CallId)
    BY <1>1, <1>10 DEF RecordResult, AnswerInv, RunOwes, TypeOK
  <2>2. Head(todo) \in CallId /\ Tail(todo) \in Seq(CallId)
    BY <2>1, HeadTailProperties
  <2>3. lists' \in [{1, 2} -> Seq(Message)] /\ newMessages' \in Seq(Message)
    BY <1>1, <1>10, <2>2, MessageTypes, RecordTypes DEF RecordResult
  <2> QED
    BY <1>1, <1>10, <2>2, <2>3
       DEF RecordResult, TypeOK, Places, queueVars, history, counters
<1>11. CASE NextTurn
  <2>1. /\ Drained(steering) \in Seq(UserMsg) /\ Remaining(steering) \in Seq(UserMsg)
        /\ Drained(followUp) \in Seq(UserMsg) /\ Remaining(followUp) \in Seq(UserMsg)
    BY <1>1, DrainTypes DEF TypeOK
  <2>2. /\ turn' = turn + 1 /\ at' \in {"turnStart", "agentEnd"}
        /\ at = "turnEnd" /\ steering' \in Seq(UserMsg)
        /\ pending' \in Seq(UserMsg) /\ followUp' \in Seq(UserMsg)
    BY <1>1, <1>11, <2>1 DEF NextTurn, TypeOK
  <2>3. UNCHANGED <<lists, own, loop, running, signal, reply, todo, context,
                    newMessages, queued, withdrawn, counters, history>>
    BY <1>11 DEF NextTurn
  <2> QED
    BY <1>1, <2>2, <2>3 DEF TypeOK, Places, history, counters
<1>12. CASE Finish \/ Unwind
  <2>1. own \in {1, 2} /\ Repaired(lists[own]) \in Seq(Message)
    BY <1>1, ListsRepaired DEF TypeOK
  <2>2. lists' \in [{1, 2} -> Seq(Message)]
    BY <1>1, <1>12, <2>1 DEF Finish, Unwind, Cleanup, TypeOK
  <2>3. Ids(pending) \subseteq Nat
    BY <1>1, UserLists DEF TypeOK
  <2>4. /\ signal' = "none" /\ running' = FALSE /\ at' = "idle" /\ turn' = 1
        /\ reply' = NoReply /\ pending' = <<>> /\ todo' = <<>>
        /\ context' = <<>> /\ newMessages' = <<>>
        /\ UNCHANGED <<own, loop, queueVars, counters, injected>>
    BY <1>12 DEF Finish, Unwind, Cleanup, Release, history
  <2>5. lost' \subseteq Nat
    BY <1>1, <1>12, <2>3 DEF Finish, Unwind, TypeOK, history
  <2>6. /\ reply' \in AssistantMsg /\ pending' \in Seq(UserMsg)
        /\ todo' \in Seq(CallId) /\ context' \in Seq(Message)
        /\ newMessages' \in Seq(Message)
    BY <2>4, MessageTypes, EmptySeq
  <2> QED
    BY <1>1, <2>2, <2>4, <2>5, <2>6 DEF TypeOK, Places, queueVars, counters
<1>13. CASE Cancel
  BY <1>1, <1>13
     DEF Cancel, TypeOK, queueVars, history, counters
<1>14. CASE Steer \/ FollowUp
  <2>1. /\ users + 1 \in Nat
        /\ User(users + 1, "steer") \in UserMsg
        /\ User(users + 1, "follow_up") \in UserMsg
    BY <1>1, MessageTypes DEF TypeOK
  <2>2. /\ Append(steering, User(users + 1, "steer")) \in Seq(UserMsg)
        /\ Append(followUp, User(users + 1, "follow_up")) \in Seq(UserMsg)
    BY <1>1, <2>1, AppendProperties DEF TypeOK
  <2>3. CASE Steer
    BY <1>1, <2>1, <2>2, <2>3 DEF Steer, TypeOK, runVars, history
  <2>4. CASE FollowUp
    BY <1>1, <2>1, <2>2, <2>4 DEF FollowUp, TypeOK, runVars, history
  <2> QED
    BY <1>14, <2>3, <2>4
<1>15. CASE PopLatestSteering \/ PopLatestFollowUp \/ ClearQueues
  <2>1. ASSUME NEW q \in Seq(UserMsg), q # <<>>
        PROVE  AllButLast(q) \in Seq(UserMsg) /\ q[Len(q)].id \in Nat
    <3>1. Len(q) \in Nat \ {0} /\ \A i \in 1..Len(q) : q[i] \in UserMsg
      BY <2>1, EmptySeq, ElementOfSeq
    <3>2. AllButLast(q) \in Seq(UserMsg)
      BY <3>1, SubSeqProperties DEF AllButLast
    <3> QED
      BY <3>1, <3>2 DEF UserMsg
  <2>2. Ids(steering) \subseteq Nat /\ Ids(followUp) \subseteq Nat
    BY <1>1, UserLists DEF TypeOK
  <2>3. /\ UNCHANGED <<lists, own, runVars, queued, counters, history>>
        /\ steering' \in Seq(UserMsg) /\ followUp' \in Seq(UserMsg)
        /\ withdrawn' \subseteq Nat
    <3>1. steering \in Seq(UserMsg) /\ followUp \in Seq(UserMsg)
          /\ withdrawn \subseteq Nat
      BY <1>1 DEF TypeOK
    <3>2. CASE PopLatestSteering
      BY <2>1, <3>1, <3>2 DEF PopLatestSteering
    <3>3. CASE PopLatestFollowUp
      BY <2>1, <3>1, <3>3 DEF PopLatestFollowUp
    <3>4. CASE ClearQueues
      BY <2>2, <3>1, <3>4, EmptySeq DEF ClearQueues
    <3> QED
      BY <1>15, <3>2, <3>3, <3>4
  <2> QED
    BY <1>1, <2>3 DEF TypeOK, runVars, history, counters
<1>16. CASE AppendMessage
  <2>1. users + 1 \in Nat /\ User(users + 1, "append") \in Message
    BY <1>1, MessageTypes DEF TypeOK
  <2>2. Append(lists[own], User(users + 1, "append")) \in Seq(Message)
    BY <1>1, <2>1, AppendProperties DEF TypeOK
  <2> QED
    BY <1>1, <1>16, <2>1, <2>2
       DEF AppendMessage, TypeOK, runVars, queueVars, history
<1>17. CASE ReplaceMessages
  <2>1. PICK n \in 0..Len(Transcript) - 1 :
           /\ own' = IF running /\ own = loop THEN 3 - own ELSE own
           /\ lists' = [lists EXCEPT ![own'] = SubSeq(Transcript, 1, n)]
    BY <1>17 DEF ReplaceMessages
  <2>2. SubSeq(Transcript, 1, n) \in Seq(Message)
    <3>1. Transcript \in Seq(Message) /\ Len(Transcript) \in Nat
      BY <1>1, LenProperties DEF TypeOK, Transcript
    <3>2. \A i \in 1..n : Transcript[i] \in Message
      BY <3>1, ElementOfSeq
    <3> QED
      BY <3>1, <3>2, SubSeqProperties
  <2>3. own' \in {1, 2}
    BY <1>1, <2>1 DEF TypeOK
  <2> QED
    BY <1>1, <1>17, <2>1, <2>2, <2>3
       DEF ReplaceMessages, TypeOK, runVars, queueVars, history, counters
<1> QED
  BY <1>3, <1>4, <1>5, <1>6, <1>7, <1>8, <1>9, <1>10, <1>11, <1>12, <1>13,
     <1>14, <1>15, <1>16, <1>17 DEF Next, RunStep, Environment

-----------------------------------------------------------------------------
(***************************************************************************)
(* Every step preserves the order of the lists and what the run owes.      *)
(***************************************************************************)
Ordered(s, n) ==
    /\ AnsweredBut(s)
    /\ ResultsFollow(s)
    /\ \A c \in Asked(s) \cup Returned(s) : c <= n

\* User messages and results of issued calls keep a list ordered.
LEMMA ConcatOrdered ==
    ASSUME NEW s \in Seq(Message), NEW t \in Seq(Message), NEW n \in Nat,
           Ordered(s, n), NoAssistant(t), \A c \in Returned(t) : c <= n
    PROVE  Ordered(s \o t, n)
BY ConcatOthers DEF Ordered

LEMMA RepairedOrdered ==
    ASSUME AnswerInv, NEW l \in {1, 2}
    PROVE  Ordered(Repaired(lists[l]), calls)
<1>1. \A c \in Asked(lists[l]) \cup Returned(lists[l]) : c <= calls
  BY DEF AnswerInv, ListsOrdered
<1>2. Open(lists[l]) \subseteq Asked(lists[l])
  BY DEF Open
<1> QED
  BY <1>1, <1>2, ListsRepaired DEF Ordered

\* A step that turns one list into an ordered list keeps the lists ordered.
LEMMA ListStep ==
    ASSUME AnswerInv, NEW l \in {1, 2}, NEW u,
           lists' = [lists EXCEPT ![l] = u], Ordered(u, calls), UNCHANGED calls
    PROVE  ListsOrdered'
<1>1. lists \in [{1, 2} -> Seq(Message)]
  BY DEF AnswerInv, TypeOK
<1>2. \A k \in {1, 2} : Ordered(lists'[k], calls)
  BY <1>1 DEF AnswerInv, ListsOrdered, Ordered
<1> QED
  BY <1>2 DEF ListsOrdered, Ordered

\* One step of the inner loop before the provider answers.
LEMMA ProceedOrder ==
    ASSUME AnswerInv, NEW batch \in Seq(UserMsg), Proceed(batch),
           AllAnswered(RunList), UNCHANGED <<loop, calls>>
    PROVE  ListsOrdered' /\ RunOwes'
<1>1. /\ loop \in {1, 2} /\ lists \in [{1, 2} -> Seq(Message)]
      /\ RunList \in Seq(Message) /\ calls \in Nat /\ Ordered(RunList, calls)
  BY DEF AnswerInv, TypeOK, ListsOrdered, RunList, Ordered
<1>2. ASSUME NEW m \in Message, m.kind = "user", Record(m)
      PROVE  ListsOrdered' /\ AllAnswered(RunList')
  <2>1. /\ <<m>> \in Seq(Message) /\ NoAssistant(<<m>>) /\ Returned(<<m>>) = {}
        /\ Append(RunList, m) = RunList \o <<m>>
    BY <1>1, <1>2, AppendIsConcat DEF NoAssistant, Returned
  <2>2. Ordered(RunList \o <<m>>, calls) /\ AllAnswered(RunList \o <<m>>)
    BY <1>1, <2>1, ConcatOrdered, ConcatOthers
  <2>3. lists' = [lists EXCEPT ![loop] = RunList \o <<m>>]
    BY <1>2, <2>1 DEF Record, RunList
  <2> QED
    BY <1>1, <2>2, <2>3, ListStep DEF RunList
<1>3. CASE batch # <<>> /\ Record(Head(batch)) /\ at' = "injecting"
  <2>1. Head(batch) \in UserMsg
    BY <1>3, HeadTailProperties
  <2>2. Head(batch) \in Message /\ Head(batch).kind = "user"
    BY <2>1, MessageTypes DEF UserMsg
  <2>3. ListsOrdered' /\ AllAnswered(RunList')
    BY <1>2, <1>3, <2>2
  <2> QED
    BY <1>3, <2>3 DEF RunOwes
<1>4. CASE Record(ErrorMessage) /\ at' = "agentEnd"
  <2>1. ErrorMessage \in AssistantMsg /\ CallsOf(ErrorMessage) = {}
    BY MessageTypes DEF CallsOf, ErrorMessage, Assistant, Range
  <2>2. Ordered(Append(RunList, ErrorMessage), calls)
    BY <1>1, <2>1, AppendReply DEF Ordered
  <2>3. lists' = [lists EXCEPT ![loop] = Append(RunList, ErrorMessage)]
    BY <1>4 DEF Record, RunList
  <2>4. ListsOrdered'
    BY <1>1, <2>2, <2>3, ListStep
  <2> QED
    BY <1>4, <2>4 DEF RunOwes
<1>5. CASE context' = ProviderContext(RunList) /\ at' = "streaming"
           /\ UNCHANGED lists
  <2>1. AllAnswered(context')
    BY <1>1, <1>5, ContextKeeps
  <2>2. AllAnswered(RunList') /\ ListsOrdered'
    BY <1>5 DEF RunList, AnswerInv, ListsOrdered
  <2> QED
    BY <1>5, <2>1, <2>2 DEF RunOwes
<1> QED
  BY <1>3, <1>4, <1>5 DEF Proceed

LEMMA StepOrder ==
    ASSUME CallIds = "fresh", HarnessAssumption, AnswerInv, Next
    PROVE  ListsOrdered' /\ RunOwes'
<1>1. /\ TypeOK /\ ListsOrdered /\ RunOwes
      /\ own \in {1, 2} /\ loop \in {1, 2} /\ calls \in Nat /\ users \in Nat
      /\ lists \in [{1, 2} -> Seq(Message)]
      /\ \A l \in {1, 2} : lists[l] \in Seq(Message) /\ Ordered(lists[l], calls)
      /\ RunList \in Seq(Message) /\ Ordered(RunList, calls)
      /\ RunList = lists[loop]
  BY DEF AnswerInv, TypeOK, ListsOrdered, Ordered, RunList
<1>2. ASSUME NEW prompts \in Seq(UserMsg), StartRun(prompts)
      PROVE  ListsOrdered' /\ RunOwes'
  <2> DEFINE r == Repaired(lists[own])
  <2>1. r \in Seq(Message) /\ AllAnswered(r) /\ Ordered(r, calls)
    BY <1>1, ListsRepaired, RepairedOrdered
  <2>2. prompts \in Seq(Message) /\ NoAssistant(prompts) /\ Returned(prompts) = {}
    BY MessageTypes, UserLists
  <2>3. Ordered(r \o prompts, calls) /\ AllAnswered(r \o prompts)
    BY <1>1, <2>1, <2>2, ConcatOrdered, ConcatOthers
  <2>4. /\ lists' = [lists EXCEPT ![own] = r \o prompts]
        /\ loop' = own /\ at' = "opening" /\ calls' = calls
    BY <1>2 DEF StartRun
  <2> HIDE DEF r
  <2>5. ListsOrdered'
    BY <1>1, <2>3, <2>4, ListStep
  <2>6. AllAnswered(RunList')
    BY <1>1, <2>3, <2>4 DEF RunList
  <2> QED
    BY <2>4, <2>5, <2>6 DEF RunOwes
<1>3. CASE Prompt \/ Continue
  <2>1. <<User(users + 1, "prompt")>> \in Seq(UserMsg) /\ <<>> \in Seq(UserMsg)
    BY <1>1, MessageTypes, EmptySeq
  <2> QED
    BY <1>2, <1>3, <2>1 DEF Prompt, Continue
<1>4. CASE FirstTurn
  <2>1. AllAnswered(RunList) /\ Drained(steering) \in Seq(UserMsg)
    BY <1>1, <1>4, DrainTypes DEF FirstTurn, RunOwes, TypeOK
  <2>2. CASE Proceed(Drained(steering))
    BY <1>4, <2>1, <2>2, ProceedOrder DEF FirstTurn, counters
  <2>3. CASE Record(ErrorMessage) /\ at' = "agentEnd"
    <3>1. ErrorMessage \in AssistantMsg /\ CallsOf(ErrorMessage) = {}
      BY MessageTypes DEF CallsOf, ErrorMessage, Assistant, Range
    <3>2. Ordered(Append(RunList, ErrorMessage), calls)
      BY <1>1, <2>1, <3>1, AppendReply DEF Ordered
    <3>3. lists' = [lists EXCEPT ![loop] = Append(RunList, ErrorMessage)]
          /\ calls' = calls
      BY <1>1, <1>4, <2>3 DEF FirstTurn, Record, counters
    <3>4. ListsOrdered'
      BY <1>1, <3>2, <3>3, ListStep
    <3> QED
      BY <2>3, <3>4 DEF RunOwes
  <2> QED
    BY <1>4, <2>2, <2>3 DEF FirstTurn
<1>5. CASE NextStep
  <2>1. AllAnswered(RunList) /\ pending \in Seq(UserMsg)
    BY <1>1, <1>5 DEF NextStep, RunOwes, TypeOK
  <2> QED
    BY <1>5, <2>1, ProceedOrder DEF NextStep, counters
<1>6. CASE Respond
  <2>1. PICK batch \in Batches, stop \in {"done", "failed"} :
           reply' = Assistant(batch, stop) /\ calls' = calls + Len(batch)
    BY <1>6 DEF Respond
  <2>2. /\ batch \in Seq(CallId) /\ Len(batch) \in Nat
        /\ \A c \in Range(batch) : c > calls /\ c <= calls + Len(batch)
    BY <1>1, BatchTypes
  <2>3. Range(batch) \subseteq Nat
    BY <2>2, RangeOfSeq DEF CallId
  <2>4. /\ lists' = lists /\ loop' = loop /\ at = "streaming" /\ at' = "answered"
        /\ reply'.calls = batch
    BY <1>6, <2>1 DEF Respond, Assistant
  <2>5. \A l \in {1, 2} : \A c \in Asked(lists[l]) \cup Returned(lists[l]) :
           c \in Nat /\ c <= calls
    <3> TAKE l \in {1, 2}
    <3>1. Asked(lists[l]) \subseteq Nat
      BY <1>1, AskedType
    <3>2. Returned(lists[l]) \subseteq Nat
      <4>1. \A j \in DOMAIN lists[l] : lists[l][j] \in Message
        BY <1>1, LenProperties, ElementOfSeq
      <4> QED
        BY <4>1, ResultShape DEF Returned, CallId
    <3> QED
      BY <1>1, <3>1, <3>2 DEF Ordered
  <2>6. ListsOrdered'
    <3>1. \A l \in {1, 2} : \A c \in Asked(lists[l]) \cup Returned(lists[l]) :
             c <= calls'
      BY <1>1, <2>1, <2>2, <2>5
    <3> QED
      BY <1>1, <2>4, <3>1 DEF ListsOrdered
  <2>7. AllAnswered(RunList')
    BY <1>1, <1>6, <2>4 DEF RunOwes, RunList
  <2>8. \A c \in Range(batch) :
           c <= calls' /\ \A l \in {1, 2} : c \notin Returned(lists[l])
    BY <1>1, <2>1, <2>2, <2>3, <2>5
  <2> QED
    BY <2>4, <2>6, <2>7, <2>8 DEF RunOwes
<1>7. CASE RecordReply
  <2>1. /\ reply \in AssistantMsg /\ CallsOf(reply) = Range(reply.calls)
        /\ AllAnswered(RunList)
        /\ \A c \in Range(reply.calls) :
              c <= calls /\ c \notin Returned(RunList)
    BY <1>1, <1>7 DEF RecordReply, TypeOK, RunOwes, RunList, CallsOf, AssistantMsg
  <2> DEFINE u == Append(RunList, reply)
  <2>2. /\ Ordered(u, calls)
        /\ \A i \in DOMAIN u : Unanswered(u, i) \subseteq Range(reply.calls)
    BY <1>1, <2>1, AppendReply DEF Ordered
  <2>3. /\ lists' = [lists EXCEPT ![loop] = u] /\ loop' = loop /\ calls' = calls
    BY <1>1, <1>7 DEF RecordReply, Record, counters
  <2> HIDE DEF u
  <2>4. ListsOrdered' /\ RunList' = u
    BY <1>1, <2>2, <2>3, ListStep DEF RunList
  <2>5. CASE at' = "agentEnd"
    BY <2>4, <2>5 DEF RunOwes
  <2>6. CASE at' = "turnEnd" /\ reply.calls = <<>>
    <3>1. Range(reply.calls) = {}
      BY <2>6 DEF Range
    <3> QED
      BY <2>2, <2>4, <2>6, <3>1 DEF RunOwes, AllAnswered
  <2>7. CASE at' = "hook" /\ todo' = reply.calls /\ reply.calls # <<>>
    BY <2>1, <2>2, <2>3, <2>4, <2>7 DEF RunOwes
  <2> QED
    BY <1>7, <2>5, <2>6, <2>7 DEF RecordReply
<1>8. CASE Refuse \/ Execute \/ Return
  <2>1. /\ UNCHANGED <<lists, loop, todo, calls>>
        /\ at \in {"hook", "executing"} /\ at' \in {"executing", "returned"}
    BY <1>8 DEF Refuse, Execute, Return, Move, counters
  <2> QED
    BY <1>1, <2>1 DEF ListsOrdered, RunOwes, RunList
<1>9. CASE RecordResult
  <2> DEFINE c == Head(todo)
             u == Append(RunList, Result(c))
  <2>1. /\ todo # <<>> /\ todo \in Seq(CallId)
        /\ \A i \in DOMAIN RunList : Unanswered(RunList, i) \subseteq Range(todo)
        /\ \A d \in Range(todo) : d <= calls
    BY <1>1, <1>9 DEF RecordResult, RunOwes, TypeOK
  <2>2. c \in CallId /\ Tail(todo) \in Seq(CallId)
    BY <2>1, HeadTailProperties
  <2>3. c \in Range(todo) /\ Range(todo) \subseteq {c} \cup Range(Tail(todo))
        /\ Range(Tail(todo)) \subseteq Range(todo)
    <3>1. /\ Len(todo) \in Nat \ {0} /\ DOMAIN todo = 1..Len(todo) /\ c = todo[1]
      BY <2>1, EmptySeq, LenProperties
    <3>2. /\ DOMAIN Tail(todo) = 1..Len(todo) - 1
          /\ \A i \in 1..Len(todo) - 1 : Tail(todo)[i] = todo[i + 1]
      BY <2>1, <2>2, HeadTailProperties, LenProperties
    <3>3. ASSUME NEW i \in DOMAIN todo
          PROVE  todo[i] = c \/ todo[i] \in Range(Tail(todo))
      <4>1. CASE i = 1
        BY <3>1, <4>1
      <4>2. CASE i # 1
        <5>1. i - 1 \in DOMAIN Tail(todo) /\ (i - 1) + 1 = i
          BY <3>1, <3>2, <4>2
        <5> QED
          BY <3>2, <5>1 DEF Range
      <4> QED
        BY <4>1, <4>2
    <3>4. ASSUME NEW i \in DOMAIN Tail(todo) PROVE Tail(todo)[i] \in Range(todo)
      <4>1. i + 1 \in DOMAIN todo /\ Tail(todo)[i] = todo[i + 1]
        BY <3>1, <3>2
      <4> QED
        BY <4>1 DEF Range
    <3> QED
      BY <3>1, <3>3, <3>4 DEF Range
  <2>4. /\ u = RunList \o <<Result(c)>> /\ <<Result(c)>> \in Seq(Message)
        /\ NoAssistant(<<Result(c)>>) /\ Returned(<<Result(c)>>) = {c}
        /\ \A i \in DOMAIN u :
              /\ c \notin Unanswered(u, i)
              /\ \/ i \in DOMAIN RunList
                      /\ Unanswered(u, i) \subseteq Unanswered(RunList, i)
                 \/ Unanswered(u, i) = {}
    BY <1>1, <2>2, AppendResult DEF Ordered
  <2>5. Ordered(u, calls)
    BY <1>1, <2>1, <2>3, <2>4, ConcatOrdered
  <2>6. \A i \in DOMAIN u : Unanswered(u, i) \subseteq Range(Tail(todo))
    BY <2>1, <2>3, <2>4
  <2>7. /\ lists' = [lists EXCEPT ![loop] = u] /\ loop' = loop /\ calls' = calls
        /\ todo' = Tail(todo)
        /\ at' = IF Tail(todo) = <<>> THEN "turnEnd" ELSE "hook"
    BY <1>1, <1>9 DEF RecordResult, Record, counters
  <2>8. \A d \in Range(Tail(todo)) : d <= calls
    BY <2>1, <2>3
  <2> HIDE DEF u, c
  <2>9. ListsOrdered' /\ RunList' = u
    BY <1>1, <2>5, <2>7, ListStep DEF RunList
  <2>10. CASE Tail(todo) = <<>>
    <3>1. Range(Tail(todo)) = {}
      BY <2>10 DEF Range
    <3> QED
      BY <2>6, <2>7, <2>9, <2>10, <3>1 DEF RunOwes, AllAnswered
  <2>11. CASE Tail(todo) # <<>>
    BY <2>6, <2>7, <2>8, <2>9, <2>11 DEF RunOwes
  <2> QED
    BY <2>10, <2>11
<1>10. CASE NextTurn
  <2>1. /\ UNCHANGED <<lists, loop, calls>> /\ at = "turnEnd"
        /\ at' \in {"turnStart", "agentEnd"}
    BY <1>10 DEF NextTurn, counters
  <2> QED
    BY <1>1, <2>1 DEF ListsOrdered, RunOwes, RunList
<1>11. CASE Finish \/ Unwind
  <2>1. at' = "idle" /\ calls' = calls
    BY <1>11 DEF Finish, Unwind, Cleanup, counters
  <2>2. CASE lists' = lists
    BY <1>1, <2>1, <2>2 DEF ListsOrdered, RunOwes
  <2>3. CASE lists' = [lists EXCEPT ![own] = Repaired(lists[own])]
    <3>1. ListsOrdered'
      BY <1>1, <2>1, <2>3, RepairedOrdered, ListStep
    <3> QED
      BY <2>1, <3>1 DEF RunOwes
  <2> QED
    BY <1>11, <2>2, <2>3 DEF Finish, Unwind, Cleanup
<1>12. CASE \/ Cancel \/ Steer \/ FollowUp
            \/ PopLatestSteering \/ PopLatestFollowUp \/ ClearQueues
  <2>1. UNCHANGED <<lists, loop, at, reply, todo, context, calls>>
    BY <1>12 DEF Cancel, Steer, FollowUp, PopLatestSteering, PopLatestFollowUp,
                 ClearQueues, runVars, counters
  <2> QED
    BY <1>1, <2>1 DEF ListsOrdered, RunOwes, RunList
<1>13. CASE AppendMessage
  <2> DEFINE s == lists[own]
             m == User(users + 1, "append")
             u == Append(s, m)
  <2>1. m \in Message /\ m.kind = "user"
    <3>1. users + 1 \in Nat
      BY <1>1
    <3>2. m \in UserMsg /\ m.kind = "user"
      BY <3>1 DEF User, UserMsg
    <3> QED
      BY <3>2 DEF Message
  <2>2. /\ lists' = [lists EXCEPT ![own] = u]
        /\ UNCHANGED <<loop, at, reply, todo, context, calls>>
    BY <1>13 DEF AppendMessage, runVars, counters
  <2>3. s \in Seq(Message) /\ Ordered(s, calls) /\ s = lists[own]
    BY <1>1
  <2> HIDE DEF m, s
  <2>4. /\ <<m>> \in Seq(Message) /\ NoAssistant(<<m>>) /\ Returned(<<m>>) = {}
        /\ u = s \o <<m>>
    BY <2>3, <2>1, AppendIsConcat DEF NoAssistant, Returned
  <2>5. /\ Ordered(u, calls) /\ Returned(u) = Returned(s)
        /\ AllAnswered(s) => AllAnswered(u)
        /\ \A i \in DOMAIN u : i \in DOMAIN s \/ Unanswered(u, i) = {}
        /\ \A i \in DOMAIN s : Unanswered(u, i) \subseteq Unanswered(s, i)
    <3>1. Ordered(s \o <<m>>, calls)
      BY <1>1, <2>3, <2>4, ConcatOrdered
    <3>2. /\ Returned(s \o <<m>>) = Returned(s)
          /\ AllAnswered(s) => AllAnswered(s \o <<m>>)
          /\ \A i \in DOMAIN (s \o <<m>>) :
                i \in DOMAIN s \/ Unanswered(s \o <<m>>, i) = {}
      <4>1. Returned(s \o <<m>>) = Returned(s) \cup Returned(<<m>>)
        BY <2>3, <2>4, ConcatOthers
      <4>2. AllAnswered(s) => AllAnswered(s \o <<m>>)
        BY <2>3, <2>4, ConcatOthers
      <4>3. \A i \in DOMAIN (s \o <<m>>) :
              i \in DOMAIN s \/ Unanswered(s \o <<m>>, i) = {}
        BY <2>3, <2>4, ConcatOthers
      <4> QED
        BY <2>4, <4>1, <4>2, <4>3
    <3>3. \A i \in DOMAIN s : Unanswered(s \o <<m>>, i) \subseteq Unanswered(s, i)
      BY <2>3, <2>4, ConcatAnswers
    <3> QED
      BY <2>4, <3>1, <3>2, <3>3
  <2> HIDE DEF u
  <2>6. ListsOrdered'
    BY <1>1, <2>5, <2>2, ListStep
  <2>7. \/ RunList' = RunList
        \/ RunList = s /\ RunList' = u
    BY <1>1, <2>2, <2>3 DEF RunList
  <2>8. \A l \in {1, 2} : Returned(lists'[l]) = Returned(lists[l])
    BY <1>1, <2>5, <2>2, <2>3
  <2> QED
    BY <1>1, <2>5, <2>2, <2>6, <2>7, <2>8 DEF RunOwes
<1>14. CASE ReplaceMessages
  <2>1. PICK n \in 0..Len(Transcript) - 1 :
           /\ own' = IF running /\ own = loop THEN 3 - own ELSE own
           /\ lists' = [lists EXCEPT ![own'] = SubSeq(Transcript, 1, n)]
    BY <1>14 DEF ReplaceMessages
  <2> DEFINE u == SubSeq(Transcript, 1, n)
  <2>2. Transcript = lists[own] /\ n \in 0..Len(Transcript)
    <3>1. Len(lists[own]) \in Nat
      BY <1>1, LenProperties
    <3> QED
      BY <3>1 DEF Transcript
  <2>3. /\ AnsweredBut(u) /\ ResultsFollow(u)
        /\ Asked(u) \subseteq Asked(lists[own])
        /\ Returned(u) \subseteq Returned(lists[own])
    BY <1>1, <2>2, PrefixKeeps DEF Ordered
  <2>4. Ordered(u, calls)
    BY <1>1, <2>3 DEF Ordered
  <2>5. UNCHANGED <<loop, at, running, reply, todo, context, calls>>
    BY <1>14 DEF ReplaceMessages, runVars, counters
  <2>6. own' \in {1, 2} /\ lists' = [lists EXCEPT ![own'] = u]
    BY <1>1, <2>1
  <2> HIDE DEF u
  <2>7. ListsOrdered'
    BY <1>1, <2>4, <2>5, <2>6, ListStep
  <2>8. running => RunList' = RunList
    BY <1>1, <2>1, <2>5, <2>6 DEF RunList
  <2>9. \A l \in {1, 2} : Returned(lists'[l]) \subseteq
                           Returned(lists[1]) \cup Returned(lists[2])
    BY <1>1, <2>3, <2>6
  <2>10. ~running => at = "idle"
    BY <1>1 DEF TypeOK
  <2> QED
    BY <1>1, <2>5, <2>7, <2>8, <2>9, <2>10 DEF RunOwes
<1> QED
  BY <1>3, <1>4, <1>5, <1>6, <1>7, <1>8, <1>9, <1>10, <1>11, <1>12, <1>13,
     <1>14 DEF Next, RunStep, Environment

-----------------------------------------------------------------------------
(***************************************************************************)
(* AnswerInv is an invariant.                                              *)
(***************************************************************************)
\* A tool call keeps being answered whatever is cancelled, queued, appended or
\* replaced in between (the conjuncts of AnswerInv).
THEOREM AnswerInvariance ==
    ASSUME CallIds = "fresh"
    PROVE  Spec => []AnswerInv
<1>1. Init => AnswerInv
  BY InitInv
<1>2. AnswerInv /\ [Next]_vars => AnswerInv'
  <2>1. CASE AnswerInv /\ Next
    BY <2>1, HarnessAssumption, StepTypes, StepOrder DEF AnswerInv
  <2>2. CASE AnswerInv /\ UNCHANGED vars
    BY <2>2
       DEF AnswerInv, TypeOK, ListsOrdered, RunOwes, RunList, vars, runVars,
           queueVars, counters, history
  <2> QED
    BY <2>1, <2>2
<1> QED
  BY <1>1, <1>2, PTL DEF Spec

\* The harness always has its type (TypeOK).
THEOREM HarnessTypes ==
    ASSUME CallIds = "fresh"
    PROVE  Spec => []TypeOK
<1>1. AnswerInv => TypeOK
  BY DEF AnswerInv
<1> QED
  BY <1>1, AnswerInvariance, PTL

\* Every provider request answers all of its tool calls, each before the next
\* assistant message (ContextAnswered).
THEOREM RequestsAnswered ==
    ASSUME CallIds = "fresh"
    PROVE  Spec => []ContextAnswered
<1>1. AnswerInv => ContextAnswered
  BY DEF AnswerInv, RunOwes, ContextAnswered, AllAnswered
<1> QED
  BY <1>1, AnswerInvariance, PTL

\* A cancelled run leaves no open call in the transcript, wherever the run was
\* suspended (CancelledRunRepaired; the finally block of AgentHarness._run).
THEOREM CancelledRunsRepaired ==
    ASSUME CallIds = "fresh"
    PROVE  Spec => CancelledRunRepaired
<1>1. AnswerInv /\ [Next]_vars
         => [running /\ ~running' /\ signal = "cancelled"
                => Open(lists'[own']) = {}]_vars
  <2> SUFFICES ASSUME AnswerInv, Next, running, ~running', signal = "cancelled"
               PROVE  Open(lists'[own']) = {}
    BY DEF vars, runVars
  <2>1. Finish \/ Unwind
    BY DEF Next, RunStep, Environment, Prompt, Continue, StartRun, FirstTurn,
           NextStep, Respond, RecordReply, Refuse, Execute, Return, Move,
           RecordResult, NextTurn, Cancel, Steer, FollowUp, PopLatestSteering,
           PopLatestFollowUp, ClearQueues, AppendMessage, ReplaceMessages,
           runVars
  <2>2. own' = own /\ lists' = [lists EXCEPT ![own] = Repaired(lists[own])]
    BY <2>1 DEF Finish, Unwind, Cleanup
  <2>3. own \in {1, 2} /\ lists \in [{1, 2} -> Seq(Message)]
    BY DEF AnswerInv, TypeOK
  <2> QED
    BY <2>2, <2>3, ListsRepaired
<1> QED
  BY <1>1, AnswerInvariance, PTL DEF Spec, CancelledRunRepaired

-----------------------------------------------------------------------------
(***************************************************************************)
(* What the lists hold. First the queues: whatever is cancelled, taken     *)
(* back, drained or unwound, queued messages are delivered in order and    *)
(* none disappears, for all values of the constants (call ids included).   *)
(* Then the transcript: no call is answered twice, and a run reports       *)
(* exactly what it recorded; with them, HarnessInv is an invariant for     *)
(* fresh call ids.                                                         *)
(***************************************************************************)

\* Every message of s that came by `via' is older than every one of t.
Older(s, t, via) ==
    \A i \in DOMAIN s, j \in DOMAIN t :
        (s[i].via = via /\ t[j].via = via) => s[i].id < t[j].id

(***************************************************************************)
(* What concatenation does to ids, ways in and order.                      *)
(***************************************************************************)
LEMMA ConcatPlaces ==
    ASSUME NEW s \in Seq(UserMsg), NEW t \in Seq(UserMsg)
    PROVE  /\ s \o t \in Seq(UserMsg)
           /\ Len(s) \in Nat /\ DOMAIN s = 1..Len(s)
           /\ Len(t) \in Nat /\ DOMAIN t = 1..Len(t)
           /\ DOMAIN (s \o t) = 1..Len(s) + Len(t)
           /\ \A i \in DOMAIN s : i \in DOMAIN (s \o t) /\ (s \o t)[i] = s[i]
           /\ \A j \in DOMAIN t :
                 Len(s) + j \in DOMAIN (s \o t) /\ (s \o t)[Len(s) + j] = t[j]
           /\ \A i \in DOMAIN (s \o t) :
                 \/ i \in DOMAIN s
                 \/ i - Len(s) \in DOMAIN t /\ i = Len(s) + (i - Len(s))
<1>1. /\ s \o t \in Seq(UserMsg)
      /\ Len(s) \in Nat /\ DOMAIN s = 1..Len(s)
      /\ Len(t) \in Nat /\ DOMAIN t = 1..Len(t)
      /\ Len(s \o t) = Len(s) + Len(t)
      /\ \A i \in 1..Len(s) + Len(t) :
            (s \o t)[i] = IF i <= Len(s) THEN s[i] ELSE t[i - Len(s)]
  BY ConcatProperties, LenProperties
<1>2. DOMAIN (s \o t) = 1..Len(s) + Len(t)
  BY <1>1, LenProperties
<1>3. \A i \in DOMAIN s : i \in DOMAIN (s \o t) /\ (s \o t)[i] = s[i]
  BY <1>1, <1>2
<1>4. ASSUME NEW j \in DOMAIN t
      PROVE  Len(s) + j \in DOMAIN (s \o t) /\ (s \o t)[Len(s) + j] = t[j]
  <2>1. /\ Len(s) + j \in 1..Len(s) + Len(t) /\ ~(Len(s) + j <= Len(s))
        /\ (Len(s) + j) - Len(s) = j
    BY <1>1
  <2> QED
    BY <2>1, <1>1, <1>2
<1>5. \A i \in DOMAIN (s \o t) :
         \/ i \in DOMAIN s
         \/ i - Len(s) \in DOMAIN t /\ i = Len(s) + (i - Len(s))
  BY <1>1, <1>2
<1> QED
  BY <1>1, <1>2, <1>3, <1>4, <1>5

LEMMA ConcatFields ==
    ASSUME NEW s \in Seq(UserMsg), NEW t \in Seq(UserMsg)
    PROVE  /\ Ids(s \o t) = Ids(s) \cup Ids(t)
           /\ Vias(s \o t) = Vias(s) \cup Vias(t)
<1> DEFINE u == s \o t
<1>1. /\ \A i \in DOMAIN s : i \in DOMAIN u /\ u[i] = s[i]
      /\ \A j \in DOMAIN t : Len(s) + j \in DOMAIN u /\ u[Len(s) + j] = t[j]
      /\ \A i \in DOMAIN u :
            \/ i \in DOMAIN s
            \/ i - Len(s) \in DOMAIN t /\ i = Len(s) + (i - Len(s))
  BY ConcatPlaces
<1> HIDE DEF u
<1>2. Ids(u) = Ids(s) \cup Ids(t)
  BY <1>1 DEF Ids
<1>3. Vias(u) = Vias(s) \cup Vias(t)
  BY <1>1 DEF Vias
<1> QED
  BY <1>2, <1>3 DEF u

LEMMA ConcatOrder ==
    ASSUME NEW s \in Seq(UserMsg), NEW t \in Seq(UserMsg), NEW via
    PROVE  InOrder(s \o t, via) <=> /\ InOrder(s, via)
                                    /\ InOrder(t, via)
                                    /\ Older(s, t, via)
<1> DEFINE u == s \o t
<1>1. /\ Len(s) \in Nat /\ DOMAIN s = 1..Len(s)
      /\ Len(t) \in Nat /\ DOMAIN t = 1..Len(t)
      /\ \A i \in DOMAIN s : i \in DOMAIN u /\ u[i] = s[i]
      /\ \A j \in DOMAIN t : Len(s) + j \in DOMAIN u /\ u[Len(s) + j] = t[j]
      /\ \A i \in DOMAIN u :
            \/ i \in DOMAIN s
            \/ i - Len(s) \in DOMAIN t /\ i = Len(s) + (i - Len(s))
  BY ConcatPlaces
<1> HIDE DEF u
<1>2. ASSUME InOrder(u, via)
      PROVE  InOrder(s, via) /\ InOrder(t, via) /\ Older(s, t, via)
  <2>1. InOrder(s, via)
    BY <1>1, <1>2 DEF InOrder
  <2>2. InOrder(t, via)
    <3> SUFFICES ASSUME NEW i \in DOMAIN t, NEW j \in DOMAIN t, i < j,
                        t[i].via = via, t[j].via = via
                 PROVE  t[i].id < t[j].id
      BY DEF InOrder
    <3>1. Len(s) + i < Len(s) + j
      BY <1>1
    <3> QED
      BY <3>1, <1>1, <1>2 DEF InOrder
  <2>3. Older(s, t, via)
    <3> SUFFICES ASSUME NEW i \in DOMAIN s, NEW j \in DOMAIN t,
                        s[i].via = via, t[j].via = via
                 PROVE  s[i].id < t[j].id
      BY DEF Older
    <3>1. i < Len(s) + j
      BY <1>1
    <3> QED
      BY <3>1, <1>1, <1>2 DEF InOrder
  <2> QED
    BY <2>1, <2>2, <2>3
<1>3. ASSUME InOrder(s, via), InOrder(t, via), Older(s, t, via)
      PROVE  InOrder(u, via)
  <2> SUFFICES ASSUME NEW i \in DOMAIN u, NEW j \in DOMAIN u, i < j,
                      u[i].via = via, u[j].via = via
               PROVE  u[i].id < u[j].id
    BY DEF InOrder
  <2>1. CASE i \in DOMAIN s /\ j \in DOMAIN s
    BY <1>1, <1>3, <2>1 DEF InOrder
  <2>2. CASE i \in DOMAIN s /\ j \notin DOMAIN s
    BY <1>1, <1>3, <2>2 DEF Older
  <2>3. CASE i \notin DOMAIN s /\ j \notin DOMAIN s
    <3>1. /\ i - Len(s) \in DOMAIN t /\ u[i] = t[i - Len(s)]
          /\ j - Len(s) \in DOMAIN t /\ u[j] = t[j - Len(s)]
      BY <1>1, <2>3
    <3>2. i - Len(s) < j - Len(s)
      BY <1>1, <2>3
    <3> QED
      BY <3>1, <3>2, <1>3 DEF InOrder
  <2>4. ~(i \notin DOMAIN s /\ j \in DOMAIN s)
    BY <1>1
  <2> QED
    BY <2>1, <2>2, <2>3, <2>4
<1> QED
  BY <1>2, <1>3 DEF u

\* The order of a line is the order of its three parts, pair by pair.
LEMMA LineOrder ==
    ASSUME NEW a \in Seq(UserMsg), NEW p \in Seq(UserMsg),
           NEW q \in Seq(UserMsg), NEW via
    PROVE  InOrder(a \o p \o q, via) <=>
              /\ InOrder(a, via) /\ InOrder(p, via) /\ InOrder(q, via)
              /\ Older(a, p, via) /\ Older(a, q, via) /\ Older(p, q, via)
<1>1. a \o p \in Seq(UserMsg)
  BY ConcatProperties
<1>2. InOrder((a \o p) \o q, via) <=>
         InOrder(a \o p, via) /\ InOrder(q, via) /\ Older(a \o p, q, via)
  BY <1>1, ConcatOrder
<1>3. InOrder(a \o p, via) <=>
         InOrder(a, via) /\ InOrder(p, via) /\ Older(a, p, via)
  BY ConcatOrder
<1>4. Older(a \o p, q, via) <=> Older(a, q, via) /\ Older(p, q, via)
  <2> DEFINE u == a \o p
  <2>1. /\ \A i \in DOMAIN a : i \in DOMAIN u /\ u[i] = a[i]
        /\ \A j \in DOMAIN p : Len(a) + j \in DOMAIN u /\ u[Len(a) + j] = p[j]
        /\ \A i \in DOMAIN u :
              \/ i \in DOMAIN a
              \/ i - Len(a) \in DOMAIN p /\ i = Len(a) + (i - Len(a))
    BY ConcatPlaces
  <2> HIDE DEF u
  <2>2. Older(u, q, via) => Older(a, q, via) /\ Older(p, q, via)
    BY <2>1 DEF Older
  <2>3. Older(a, q, via) /\ Older(p, q, via) => Older(u, q, via)
    BY <2>1 DEF Older
  <2> QED
    BY <2>2, <2>3 DEF u
<1> QED
  BY <1>2, <1>3, <1>4

\* Messages that came another way do not matter.
LEMMA Foreign ==
    ASSUME NEW s, NEW via, via \notin Vias(s)
    PROVE  InOrder(s, via) /\ \A t : Older(s, t, via) /\ Older(t, s, via)
BY DEF Vias, InOrder, Older

LEMMA OlderConcat ==
    ASSUME NEW s \in Seq(UserMsg), NEW t \in Seq(UserMsg), NEW r, NEW via
    PROVE  Older(r, s \o t, via) <=> Older(r, s, via) /\ Older(r, t, via)
<1> DEFINE u == s \o t
<1>1. /\ \A i \in DOMAIN s : i \in DOMAIN u /\ u[i] = s[i]
      /\ \A j \in DOMAIN t : Len(s) + j \in DOMAIN u /\ u[Len(s) + j] = t[j]
      /\ \A i \in DOMAIN u :
            \/ i \in DOMAIN s
            \/ i - Len(s) \in DOMAIN t /\ i = Len(s) + (i - Len(s))
  BY ConcatPlaces
<1> HIDE DEF u
<1>2. Older(r, u, via) => Older(r, s, via) /\ Older(r, t, via)
  BY <1>1 DEF Older
<1>3. Older(r, s, via) /\ Older(r, t, via) => Older(r, u, via)
  BY <1>1 DEF Older
<1> QED
  BY <1>2, <1>3 DEF u

-----------------------------------------------------------------------------
(***************************************************************************)
(* What the code does to a queue.                                          *)
(***************************************************************************)
LEMMA Empty ==
    <<>> \in Seq(UserMsg) /\ Ids(<<>>) = {} /\ Vias(<<>>) = {}
BY EmptySeq DEF Ids, Vias

LEMMA Single ==
    ASSUME NEW m \in UserMsg
    PROVE  /\ <<m>> \in Seq(UserMsg)
           /\ Ids(<<m>>) = {m.id} /\ Vias(<<m>>) = {m.via}
           /\ \A via : InOrder(<<m>>, via)
BY DEF Ids, Vias, InOrder

LEMMA HeadFirst ==
    ASSUME NEW q \in Seq(UserMsg), q # <<>>
    PROVE  /\ Head(q) \in UserMsg /\ Tail(q) \in Seq(UserMsg)
           /\ q = <<Head(q)>> \o Tail(q)
<1>1. Len(q) \in Nat \ {0}
  BY EmptySeq
<1>2. Head(q) \in UserMsg /\ Tail(q) \in Seq(UserMsg)
  BY HeadTailProperties
<1>3. SubSeq(q, 1, Len(q)) = <<q[1]>> \o SubSeq(q, 2, Len(q))
  BY <1>1, SubSeqRecursiveFirst
<1>4. SubSeq(q, 1, Len(q)) = q /\ Tail(q) = SubSeq(q, 2, Len(q)) /\ q[1] = Head(q)
  BY SubSeqFull, TailIsSubSeq
<1> QED
  BY <1>2, <1>3, <1>4

LEMMA LastLast ==
    ASSUME NEW q \in Seq(UserMsg), q # <<>>
    PROVE  /\ q[Len(q)] \in UserMsg /\ AllButLast(q) \in Seq(UserMsg)
           /\ q = AllButLast(q) \o <<q[Len(q)]>>
<1>1. Len(q) \in Nat \ {0} /\ \A i \in 1..Len(q) : q[i] \in UserMsg
  BY EmptySeq, ElementOfSeq
<1>2. AllButLast(q) \in Seq(UserMsg)
  BY <1>1, SubSeqProperties DEF AllButLast
<1>3. SubSeq(q, 1, Len(q)) = SubSeq(q, 1, Len(q) - 1) \o <<q[Len(q)]>>
  BY <1>1, SubSeqRecursiveSecond
<1>4. SubSeq(q, 1, Len(q)) = q
  BY SubSeqFull
<1>5. q = AllButLast(q) \o <<q[Len(q)]>>
  BY <1>3, <1>4 DEF AllButLast
<1>6. Len(q) \in 1..Len(q)
  BY <1>1
<1> QED
  BY <1>1, <1>2, <1>5, <1>6

\* A drain splits a queue in two.
LEMMA DrainSplits ==
    ASSUME NEW q \in Seq(UserMsg)
    PROVE  /\ Drained(q) \in Seq(UserMsg) /\ Remaining(q) \in Seq(UserMsg)
           /\ q = Drained(q) \o Remaining(q)
<1>1. CASE q = <<>>
  BY <1>1, Empty, ConcatEmptySeq DEF Drained, Remaining
<1>2. CASE q # <<>> /\ QueueMode = "all"
  BY <1>2, Empty, ConcatEmptySeq DEF Drained, Remaining
<1>3. CASE q # <<>> /\ QueueMode # "all"
  BY <1>3, HeadFirst, Single DEF Drained, Remaining
<1> QED
  BY <1>1, <1>2, <1>3

-----------------------------------------------------------------------------
(***************************************************************************)
(* The arrangement of injected, pending and queued messages, with n the    *)
(* newest id, and how each operation keeps it.                             *)
(***************************************************************************)
Lines(a, p, s, f) ==
    /\ InOrder(a \o p \o s, "steer")
    /\ InOrder(a \o p \o f, "follow_up")

Held(a, p, s, f) == Ids(s) \cup Ids(f) \cup Ids(p) \cup Ids(a)

Arranged(a, p, s, f, n) ==
    /\ a \in Seq(UserMsg) /\ p \in Seq(UserMsg)
    /\ s \in Seq(UserMsg) /\ f \in Seq(UserMsg)
    /\ Vias(s) \subseteq {"steer"} /\ Vias(f) \subseteq {"follow_up"}
    /\ Vias(p) \subseteq {"steer", "follow_up"}
    /\ Held(a, p, s, f) \subseteq 0..n
    /\ Lines(a, p, s, f)

\* What is taken from a queue comes after what was injected, before the rest.
LEMMA TakeLine ==
    ASSUME NEW a \in Seq(UserMsg), NEW q \in Seq(UserMsg), NEW via,
           InOrder(a \o <<>> \o q, via)
    PROVE  InOrder(a \o Drained(q) \o Remaining(q), via)
<1>1. /\ Drained(q) \in Seq(UserMsg) /\ Remaining(q) \in Seq(UserMsg)
      /\ q = Drained(q) \o Remaining(q)
  BY DrainSplits
<1>2. a \o <<>> = a
  BY ConcatEmptySeq
<1>3. a \o Drained(q) \o Remaining(q) = a \o (Drained(q) \o Remaining(q))
  BY <1>1, ConcatAssociative
<1> QED
  BY <1>1, <1>2, <1>3

\* The line of the other queue does not see what is taken from this one.
LEMMA TakeOther ==
    ASSUME NEW a \in Seq(UserMsg), NEW p \in Seq(UserMsg),
           NEW q \in Seq(UserMsg), NEW via,
           InOrder(a \o <<>> \o q, via), via \notin Vias(p)
    PROVE  InOrder(a \o p \o q, via)
<1>1. <<>> \in Seq(UserMsg)
  BY Empty
<1>2. InOrder(a, via) /\ InOrder(q, via) /\ Older(a, q, via)
  BY <1>1, LineOrder
<1>3. InOrder(p, via) /\ Older(a, p, via) /\ Older(p, q, via)
  BY Foreign
<1> QED
  BY <1>2, <1>3, LineOrder

LEMMA TakeSteering ==
    ASSUME NEW a, NEW s, NEW f, NEW n, Arranged(a, <<>>, s, f, n)
    PROVE  /\ Arranged(a, Drained(s), Remaining(s), f, n)
           /\ Held(a, Drained(s), Remaining(s), f) = Held(a, <<>>, s, f)
<1> DEFINE d == Drained(s)
           r == Remaining(s)
<1>1. /\ a \in Seq(UserMsg) /\ s \in Seq(UserMsg) /\ f \in Seq(UserMsg)
      /\ Vias(s) \subseteq {"steer"} /\ Vias(f) \subseteq {"follow_up"}
      /\ Held(a, <<>>, s, f) \subseteq 0..n /\ Lines(a, <<>>, s, f)
  BY DEF Arranged
<1>2. d \in Seq(UserMsg) /\ r \in Seq(UserMsg) /\ s = d \o r
  BY <1>1, DrainSplits
<1>3. Ids(s) = Ids(d) \cup Ids(r) /\ Vias(s) = Vias(d) \cup Vias(r)
  BY <1>2, ConcatFields
<1>4. InOrder(a \o d \o r, "steer")
  BY <1>1, TakeLine DEF Lines
<1> HIDE DEF d, r
<1>5. InOrder(a \o d \o f, "follow_up")
  BY <1>1, <1>2, <1>3, TakeOther DEF Lines
<1>6. Held(a, d, r, f) = Held(a, <<>>, s, f)
  BY <1>3, Empty DEF Held
<1>7. Arranged(a, d, r, f, n)
  BY <1>1, <1>2, <1>3, <1>4, <1>5, <1>6 DEF Arranged, Lines
<1> QED
  BY <1>6, <1>7 DEF d, r

LEMMA TakeFollowUp ==
    ASSUME NEW a, NEW s, NEW f, NEW n, Arranged(a, <<>>, s, f, n)
    PROVE  /\ Arranged(a, Drained(f), s, Remaining(f), n)
           /\ Held(a, Drained(f), s, Remaining(f)) = Held(a, <<>>, s, f)
<1> DEFINE d == Drained(f)
           r == Remaining(f)
<1>1. /\ a \in Seq(UserMsg) /\ s \in Seq(UserMsg) /\ f \in Seq(UserMsg)
      /\ Vias(s) \subseteq {"steer"} /\ Vias(f) \subseteq {"follow_up"}
      /\ Held(a, <<>>, s, f) \subseteq 0..n /\ Lines(a, <<>>, s, f)
  BY DEF Arranged
<1>2. d \in Seq(UserMsg) /\ r \in Seq(UserMsg) /\ f = d \o r
  BY <1>1, DrainSplits
<1>3. Ids(f) = Ids(d) \cup Ids(r) /\ Vias(f) = Vias(d) \cup Vias(r)
  BY <1>2, ConcatFields
<1>4. InOrder(a \o d \o r, "follow_up")
  BY <1>1, TakeLine DEF Lines
<1> HIDE DEF d, r
<1>5. InOrder(a \o d \o s, "steer")
  BY <1>1, <1>2, <1>3, TakeOther DEF Lines
<1>6. Held(a, d, s, r) = Held(a, <<>>, s, f)
  BY <1>3, Empty DEF Held
<1>7. Arranged(a, d, s, r, n)
  BY <1>1, <1>2, <1>3, <1>4, <1>5, <1>6 DEF Arranged, Lines
<1> QED
  BY <1>6, <1>7 DEF d, r

\* The oldest message in hand is injected.
LEMMA Inject ==
    ASSUME NEW a, NEW p, NEW s, NEW f, NEW n, Arranged(a, p, s, f, n), p # <<>>
    PROVE  /\ Arranged(Append(a, Head(p)), Tail(p), s, f, n)
           /\ Held(Append(a, Head(p)), Tail(p), s, f) = Held(a, p, s, f)
<1> DEFINE h == <<Head(p)>>
           b == Append(a, Head(p))
           t == Tail(p)
<1>1. /\ a \in Seq(UserMsg) /\ p \in Seq(UserMsg)
      /\ Vias(p) \subseteq {"steer", "follow_up"}
      /\ Held(a, p, s, f) \subseteq 0..n /\ Lines(a, p, s, f)
  BY DEF Arranged
<1>2. Head(p) \in UserMsg /\ t \in Seq(UserMsg) /\ p = h \o t
  BY <1>1, HeadFirst
<1>3. h \in Seq(UserMsg) /\ b = a \o h /\ b \in Seq(UserMsg)
  BY <1>1, <1>2, Single, AppendIsConcat, AppendProperties
<1>4. b \o t = a \o p
  BY <1>1, <1>2, <1>3, ConcatAssociative
<1> HIDE DEF h, b, t
<1>5. /\ Ids(p) = Ids(h) \cup Ids(t) /\ Vias(p) = Vias(h) \cup Vias(t)
      /\ Ids(b) = Ids(a) \cup Ids(h)
  BY <1>1, <1>2, <1>3, ConcatFields
<1>6. Held(b, t, s, f) = Held(a, p, s, f)
  BY <1>5 DEF Held
<1>7. Lines(b, t, s, f)
  BY <1>1, <1>4 DEF Lines
<1>8. Arranged(b, t, s, f, n)
  BY <1>1, <1>2, <1>3, <1>5, <1>6, <1>7 DEF Arranged
<1> QED
  BY <1>6, <1>8 DEF b, t

\* A run that is unwound drops what it had in hand.
LEMMA Drop ==
    ASSUME NEW a, NEW p, NEW s, NEW f, NEW n, Arranged(a, p, s, f, n)
    PROVE  /\ Arranged(a, <<>>, s, f, n)
           /\ Held(a, p, s, f) = Held(a, <<>>, s, f) \cup Ids(p)
<1>1. Held(a, p, s, f) = Held(a, <<>>, s, f) \cup Ids(p)
  BY Empty DEF Held
<1>2. ASSUME NEW q \in Seq(UserMsg), NEW via, InOrder(a \o p \o q, via)
      PROVE  InOrder(a \o <<>> \o q, via)
  <2>1. InOrder(a, via) /\ InOrder(q, via) /\ Older(a, q, via)
    BY <1>2, LineOrder DEF Arranged
  <2>2. InOrder(<<>>, via) /\ Older(a, <<>>, via) /\ Older(<<>>, q, via)
    BY Empty, Foreign
  <2> QED
    BY <2>1, <2>2, Empty, LineOrder DEF Arranged
<1>3. Lines(a, <<>>, s, f)
  BY <1>2 DEF Arranged, Lines
<1> QED
  BY <1>1, <1>3, Empty DEF Arranged

\* A line takes a message that is newer than all of it.
LEMMA JoinLine ==
    ASSUME NEW a \in Seq(UserMsg), NEW p \in Seq(UserMsg),
           NEW q \in Seq(UserMsg), NEW n \in Nat, NEW m \in UserMsg, NEW via,
           InOrder(a \o p \o q, via), m.id = n + 1,
           Ids(a) \cup Ids(p) \cup Ids(q) \subseteq 0..n
    PROVE  InOrder(a \o p \o Append(q, m), via)
<1>1. <<m>> \in Seq(UserMsg) /\ Append(q, m) = q \o <<m>> /\ InOrder(<<m>>, via)
  BY Single, AppendIsConcat
<1>2. ASSUME NEW s, Ids(s) \subseteq 0..n PROVE Older(s, <<m>>, via)
  <2>1. \A i \in DOMAIN s : s[i].id \in 0..n
    BY <1>2 DEF Ids
  <2> QED
    BY <2>1 DEF Older
<1>3. Older(a, <<m>>, via) /\ Older(p, <<m>>, via) /\ Older(q, <<m>>, via)
  BY <1>2
<1>4. /\ InOrder(a, via) /\ InOrder(p, via) /\ InOrder(q, via)
      /\ Older(a, p, via) /\ Older(a, q, via) /\ Older(p, q, via)
  BY LineOrder
<1>5. InOrder(q \o <<m>>, via)
  BY <1>1, <1>3, <1>4, ConcatOrder
<1>6. Older(a, q \o <<m>>, via) /\ Older(p, q \o <<m>>, via)
  BY <1>1, <1>3, <1>4, OlderConcat
<1>7. q \o <<m>> \in Seq(UserMsg)
  BY <1>1, ConcatProperties
<1> QED
  BY <1>1, <1>4, <1>5, <1>6, <1>7, LineOrder

\* Ids grow.
LEMMA Newer ==
    ASSUME NEW a, NEW p, NEW s, NEW f, NEW n \in Nat, Arranged(a, p, s, f, n)
    PROVE  Arranged(a, p, s, f, n + 1)
<1>1. 0..n \subseteq 0..(n + 1)
  OBVIOUS
<1> QED
  BY <1>1 DEF Arranged

LEMMA JoinSteering ==
    ASSUME NEW a, NEW p, NEW s, NEW f, NEW n \in Nat, Arranged(a, p, s, f, n)
    PROVE  /\ Arranged(a, p, Append(s, User(n + 1, "steer")), f, n + 1)
           /\ Held(a, p, Append(s, User(n + 1, "steer")), f)
                 = Held(a, p, s, f) \cup {n + 1}
<1> DEFINE m == User(n + 1, "steer")
           t == Append(s, m)
<1>1. m \in UserMsg /\ m.id = n + 1 /\ m.via = "steer"
  BY DEF User, UserMsg
<1>2. /\ a \in Seq(UserMsg) /\ p \in Seq(UserMsg) /\ s \in Seq(UserMsg)
      /\ Vias(s) \subseteq {"steer"} /\ Lines(a, p, s, f)
      /\ Held(a, p, s, f) \subseteq 0..n
  BY DEF Arranged
<1> HIDE DEF m
<1>3. <<m>> \in Seq(UserMsg) /\ t = s \o <<m>> /\ t \in Seq(UserMsg)
  BY <1>1, <1>2, Single, AppendIsConcat, AppendProperties
<1>4. InOrder(a \o p \o t, "steer")
  BY <1>1, <1>2, JoinLine DEF Lines, Held
<1> HIDE DEF t
<1>5. Ids(t) = Ids(s) \cup {n + 1} /\ Vias(t) = Vias(s) \cup {"steer"}
  <2>1. Ids(<<m>>) = {n + 1} /\ Vias(<<m>>) = {"steer"}
    BY <1>1, Single
  <2>2. /\ Ids(s \o <<m>>) = Ids(s) \cup Ids(<<m>>)
        /\ Vias(s \o <<m>>) = Vias(s) \cup Vias(<<m>>)
    BY <1>2, <1>3, ConcatFields
  <2> QED
    BY <1>3, <2>1, <2>2
<1>6. Held(a, p, t, f) = Held(a, p, s, f) \cup {n + 1}
  BY <1>5 DEF Held
<1>7. n + 1 \in 0..(n + 1) /\ 0..n \subseteq 0..(n + 1)
  OBVIOUS
<1>8. Held(a, p, t, f) \subseteq 0..(n + 1)
  BY <1>2, <1>6, <1>7
<1>9. Arranged(a, p, t, f, n + 1)
  BY <1>2, <1>3, <1>4, <1>5, <1>8 DEF Arranged, Lines
<1> QED
  BY <1>6, <1>9 DEF t, m

LEMMA JoinFollowUp ==
    ASSUME NEW a, NEW p, NEW s, NEW f, NEW n \in Nat, Arranged(a, p, s, f, n)
    PROVE  /\ Arranged(a, p, s, Append(f, User(n + 1, "follow_up")), n + 1)
           /\ Held(a, p, s, Append(f, User(n + 1, "follow_up")))
                 = Held(a, p, s, f) \cup {n + 1}
<1> DEFINE m == User(n + 1, "follow_up")
           t == Append(f, m)
<1>1. m \in UserMsg /\ m.id = n + 1 /\ m.via = "follow_up"
  BY DEF User, UserMsg
<1>2. /\ a \in Seq(UserMsg) /\ p \in Seq(UserMsg) /\ f \in Seq(UserMsg)
      /\ Vias(f) \subseteq {"follow_up"} /\ Lines(a, p, s, f)
      /\ Held(a, p, s, f) \subseteq 0..n
  BY DEF Arranged
<1> HIDE DEF m
<1>3. <<m>> \in Seq(UserMsg) /\ t = f \o <<m>> /\ t \in Seq(UserMsg)
  BY <1>1, <1>2, Single, AppendIsConcat, AppendProperties
<1>4. InOrder(a \o p \o t, "follow_up")
  BY <1>1, <1>2, JoinLine DEF Lines, Held
<1> HIDE DEF t
<1>5. Ids(t) = Ids(f) \cup {n + 1} /\ Vias(t) = Vias(f) \cup {"follow_up"}
  <2>1. Ids(<<m>>) = {n + 1} /\ Vias(<<m>>) = {"follow_up"}
    BY <1>1, Single
  <2>2. /\ Ids(f \o <<m>>) = Ids(f) \cup Ids(<<m>>)
        /\ Vias(f \o <<m>>) = Vias(f) \cup Vias(<<m>>)
    BY <1>2, <1>3, ConcatFields
  <2> QED
    BY <1>3, <2>1, <2>2
<1>6. Held(a, p, s, t) = Held(a, p, s, f) \cup {n + 1}
  BY <1>5 DEF Held
<1>7. n + 1 \in 0..(n + 1) /\ 0..n \subseteq 0..(n + 1)
  OBVIOUS
<1>8. Held(a, p, s, t) \subseteq 0..(n + 1)
  BY <1>2, <1>6, <1>7
<1>9. Arranged(a, p, s, t, n + 1)
  BY <1>2, <1>3, <1>4, <1>5, <1>8 DEF Arranged, Lines
<1> QED
  BY <1>6, <1>9 DEF t, m

\* A line stays in order when the end of its queue is taken away.
LEMMA ShortLine ==
    ASSUME NEW a \in Seq(UserMsg), NEW p \in Seq(UserMsg),
           NEW r \in Seq(UserMsg), NEW e \in Seq(UserMsg), NEW via,
           InOrder(a \o p \o (r \o e), via)
    PROVE  InOrder(a \o p \o r, via)
<1>1. r \o e \in Seq(UserMsg)
  BY ConcatProperties
<1>2. /\ InOrder(a, via) /\ InOrder(p, via) /\ InOrder(r \o e, via)
      /\ Older(a, p, via) /\ Older(a, r \o e, via) /\ Older(p, r \o e, via)
  BY <1>1, LineOrder
<1>3. InOrder(r, via) /\ Older(a, r, via) /\ Older(p, r, via)
  BY <1>2, ConcatOrder, OlderConcat
<1> QED
  BY <1>2, <1>3, LineOrder

LEMMA ShortSteering ==
    ASSUME NEW a, NEW p, NEW f, NEW n, NEW r \in Seq(UserMsg),
           NEW e \in Seq(UserMsg), Arranged(a, p, r \o e, f, n)
    PROVE  /\ Arranged(a, p, r, f, n)
           /\ Held(a, p, r \o e, f) = Held(a, p, r, f) \cup Ids(e)
<1>1. /\ Ids(r \o e) = Ids(r) \cup Ids(e)
      /\ Vias(r \o e) = Vias(r) \cup Vias(e)
  BY ConcatFields
<1>2. Held(a, p, r \o e, f) = Held(a, p, r, f) \cup Ids(e)
  BY <1>1 DEF Held
<1>3. InOrder(a \o p \o r, "steer")
  BY ShortLine DEF Arranged, Lines
<1> QED
  BY <1>1, <1>2, <1>3 DEF Arranged, Lines

LEMMA ShortFollowUp ==
    ASSUME NEW a, NEW p, NEW s, NEW n, NEW r \in Seq(UserMsg),
           NEW e \in Seq(UserMsg), Arranged(a, p, s, r \o e, n)
    PROVE  /\ Arranged(a, p, s, r, n)
           /\ Held(a, p, s, r \o e) = Held(a, p, s, r) \cup Ids(e)
<1>1. /\ Ids(r \o e) = Ids(r) \cup Ids(e)
      /\ Vias(r \o e) = Vias(r) \cup Vias(e)
  BY ConcatFields
<1>2. Held(a, p, s, r \o e) = Held(a, p, s, r) \cup Ids(e)
  BY <1>1 DEF Held
<1>3. InOrder(a \o p \o r, "follow_up")
  BY ShortLine DEF Arranged, Lines
<1> QED
  BY <1>1, <1>2, <1>3 DEF Arranged, Lines

LEMMA Clear ==
    ASSUME NEW a, NEW p, NEW s, NEW f, NEW n, Arranged(a, p, s, f, n)
    PROVE  /\ Arranged(a, p, <<>>, <<>>, n)
           /\ Held(a, p, s, f)
                 = Held(a, p, <<>>, <<>>) \cup Ids(s) \cup Ids(f)
<1>1. Held(a, p, s, f) = Held(a, p, <<>>, <<>>) \cup Ids(s) \cup Ids(f)
  BY Empty DEF Held
<1>2. ASSUME NEW q \in Seq(UserMsg), NEW via, InOrder(a \o p \o q, via)
      PROVE  InOrder(a \o p \o <<>>, via)
  <2>1. InOrder(a, via) /\ InOrder(p, via) /\ Older(a, p, via)
    BY <1>2, LineOrder DEF Arranged
  <2>2. InOrder(<<>>, via) /\ Older(a, <<>>, via) /\ Older(p, <<>>, via)
    BY Empty, Foreign
  <2> QED
    BY <2>1, <2>2, Empty, LineOrder DEF Arranged
<1>3. Lines(a, p, <<>>, <<>>)
  BY <1>2 DEF Arranged, Lines
<1> QED
  BY <1>1, <1>3, Empty DEF Arranged

-----------------------------------------------------------------------------
(***************************************************************************)
(* The inductive invariant.                                                *)
(***************************************************************************)
QueueInv == QueueTypes /\ QueueOrder /\ NothingVanishes

LEMMA HeldIds ==
    ASSUME NEW a \in Seq(UserMsg), NEW p \in Seq(UserMsg),
           NEW s \in Seq(UserMsg), NEW f \in Seq(UserMsg)
    PROVE  Ids(s \o f \o p \o a) = Held(a, p, s, f)
<1>1. s \o f \in Seq(UserMsg) /\ Ids(s \o f) = Ids(s) \cup Ids(f)
  BY ConcatProperties, ConcatFields
<1>2. /\ s \o f \o p \in Seq(UserMsg)
      /\ Ids(s \o f \o p) = Ids(s \o f) \cup Ids(p)
  BY <1>1, ConcatProperties, ConcatFields
<1>3. Ids(s \o f \o p \o a) = Ids(s \o f \o p) \cup Ids(a)
  BY <1>2, ConcatFields
<1> QED
  BY <1>1, <1>2, <1>3 DEF Held

LEMMA QueueInvParts ==
    ASSUME QueueInv
    PROVE  /\ users \in Nat
           /\ Arranged(injected, pending, steering, followUp, users)
           /\ queued \subseteq Held(injected, pending, steering, followUp)
                               \cup withdrawn \cup lost
           /\ pending # <<>> => at \in {"turnStart", "injecting"}
           /\ at # "idle" => running
<1>1. /\ users \in Nat
      /\ Arranged(injected, pending, steering, followUp, users)
      /\ pending # <<>> => at \in {"turnStart", "injecting"}
      /\ at # "idle" => running
  BY DEF QueueInv, QueueTypes, QueueOrder, Arranged, Lines, Held
<1>2. Ids(steering \o followUp \o pending \o injected)
         = Held(injected, pending, steering, followUp)
  BY HeldIds DEF QueueInv, QueueTypes
<1> QED
  BY <1>1, <1>2 DEF QueueInv, NothingVanishes

LEMMA QueueInvWhole ==
    ASSUME users' \in Nat,
           Arranged(injected', pending', steering', followUp', users'),
           queued' \subseteq Held(injected', pending', steering', followUp')
                             \cup withdrawn' \cup lost',
           pending' # <<>> => at' \in {"turnStart", "injecting"},
           at' # "idle" => running'
    PROVE  QueueInv'
<1>1. /\ injected' \in Seq(UserMsg) /\ pending' \in Seq(UserMsg)
      /\ steering' \in Seq(UserMsg) /\ followUp' \in Seq(UserMsg)
  BY DEF Arranged
<1>2. Ids(steering' \o followUp' \o pending' \o injected')
         = Held(injected', pending', steering', followUp')
  BY <1>1, HeldIds
<1>3. NothingVanishes'
  BY <1>2 DEF NothingVanishes
<1>4. QueueOrder'
  BY DEF Arranged, Lines, QueueOrder
<1>5. QueueTypes'
  BY DEF Arranged, Held, QueueTypes
<1> QED
  BY <1>3, <1>4, <1>5 DEF QueueInv

LEMMA QueueInit == Init => QueueInv
<1> SUFFICES ASSUME Init PROVE QueueInv
  OBVIOUS
<1>1. /\ users = 0 /\ injected = <<>> /\ pending = <<>> /\ steering = <<>>
      /\ followUp = <<>> /\ queued = {} /\ at = "idle"
  BY DEF Init
<1>2. <<>> \in Seq(UserMsg) /\ Ids(<<>>) = {} /\ Vias(<<>>) = {}
  BY Empty
<1>3. <<>> \o <<>> = <<>>
  BY <1>2, ConcatEmptySeq
<1>4. \A via : InOrder(<<>>, via)
  BY DEF InOrder
<1>5. QueueTypes
  BY <1>1, <1>2 DEF QueueTypes
<1>6. QueueOrder
  BY <1>1, <1>3, <1>4 DEF QueueOrder
<1>7. NothingVanishes
  BY <1>1 DEF NothingVanishes
<1> QED
  BY <1>5, <1>6, <1>7 DEF QueueInv

\* The top of the inner loop, with `batch' in hand.
LEMMA ProceedQueues ==
    ASSUME NEW batch, NEW s, NEW f, NEW n,
           Arranged(injected, batch, s, f, n), Proceed(batch)
    PROVE  /\ Arranged(injected', pending', s, f, n)
           /\ Held(injected', pending', s, f) = Held(injected, batch, s, f)
           /\ pending' # <<>> => at' = "injecting"
<1>1. CASE batch # <<>> /\ injected' = Append(injected, Head(batch))
           /\ pending' = Tail(batch) /\ at' = "injecting"
  BY <1>1, Inject
<1>2. CASE batch = <<>> /\ injected' = injected /\ pending' = <<>>
  BY <1>2
<1> QED
  BY <1>1, <1>2 DEF Proceed

LEMMA QueueStep ==
    ASSUME QueueInv, Next
    PROVE  QueueInv'
<1>1. /\ users \in Nat
      /\ Arranged(injected, pending, steering, followUp, users)
      /\ queued \subseteq Held(injected, pending, steering, followUp)
                          \cup withdrawn \cup lost
      /\ pending # <<>> => at \in {"turnStart", "injecting"}
      /\ at # "idle" => running
  BY QueueInvParts
<1>2. users + 1 \in Nat
      /\ Arranged(injected, pending, steering, followUp, users + 1)
  BY <1>1, Newer
<1>3. CASE Prompt \/ Continue
  <2>1. /\ UNCHANGED <<injected, steering, followUp, queued, withdrawn, lost>>
        /\ users' \in {users, users + 1} /\ pending' = <<>> /\ ~running
        /\ running' = TRUE
    BY <1>3 DEF Prompt, Continue, StartRun, queueVars, history
  <2>2. pending = <<>>
    BY <1>1, <2>1
  <2>3. users' \in Nat /\ Arranged(injected, pending, steering, followUp, users')
    BY <1>1, <1>2, <2>1
  <2> QED
    BY <1>1, <2>1, <2>2, <2>3, QueueInvWhole
<1>4. CASE FirstTurn
  <2>1. /\ UNCHANGED <<running, followUp, users, queued, withdrawn, lost>>
        /\ at = "opening"
    BY <1>4 DEF FirstTurn, counters
  <2>2. pending = <<>> /\ running
    BY <1>1, <2>1
  <2>3. CASE UNCHANGED <<steering, pending, injected>>
    BY <1>1, <2>1, <2>2, <2>3, QueueInvWhole
  <2>4. CASE steering' = Remaining(steering) /\ Proceed(Drained(steering))
    <3>1. /\ Arranged(injected, Drained(steering), steering', followUp, users)
          /\ Held(injected, Drained(steering), steering', followUp)
                = Held(injected, pending, steering, followUp)
      BY <1>1, <2>2, <2>4, TakeSteering
    <3>2. /\ Arranged(injected', pending', steering', followUp, users)
          /\ Held(injected', pending', steering', followUp)
                = Held(injected, pending, steering, followUp)
          /\ pending' # <<>> => at' = "injecting"
      BY <2>4, <3>1, ProceedQueues
    <3> QED
      BY <1>1, <2>1, <2>2, <3>2, QueueInvWhole
  <2> QED
    BY <1>4, <2>3, <2>4 DEF FirstTurn
<1>5. CASE NextStep
  <2>1. /\ UNCHANGED <<running, steering, followUp, users, queued, withdrawn, lost>>
        /\ at # "idle" /\ Proceed(pending)
    BY <1>5 DEF NextStep, queueVars, counters
  <2>2. /\ Arranged(injected', pending', steering, followUp, users)
        /\ Held(injected', pending', steering, followUp)
              = Held(injected, pending, steering, followUp)
        /\ pending' # <<>> => at' = "injecting"
    BY <1>1, <2>1, ProceedQueues
  <2> QED
    BY <1>1, <2>1, <2>2, QueueInvWhole
<1>6. CASE Respond \/ RecordReply \/ Refuse \/ Execute \/ Return \/ RecordResult
  <2>1. /\ UNCHANGED <<running, injected, pending, steering, followUp, users,
                       queued, withdrawn, lost>>
        /\ at \in {"streaming", "answered", "hook", "executing", "returned"}
    BY <1>6 DEF Respond, RecordReply, Refuse, Execute, Return, Move,
                RecordResult, queueVars, counters, history
  <2> QED
    BY <1>1, <2>1, QueueInvWhole
<1>7. CASE NextTurn
  <2>1. /\ UNCHANGED <<running, injected, users, queued, withdrawn, lost>>
        /\ at = "turnEnd" /\ steering' = Remaining(steering)
        /\ at' \in {"turnStart", "agentEnd"}
    BY <1>7 DEF NextTurn, counters, history
  <2>2. pending = <<>> /\ running
    BY <1>1, <2>1
  <2>3. CASE /\ pending' = Drained(steering) /\ at' = "turnStart"
             /\ UNCHANGED followUp
    <3>1. /\ Arranged(injected, pending', steering', followUp, users)
          /\ Held(injected, pending', steering', followUp)
                = Held(injected, pending, steering, followUp)
      BY <1>1, <2>1, <2>2, <2>3, TakeSteering
    <3> QED
      BY <1>1, <2>1, <2>2, <2>3, <3>1, QueueInvWhole
  <2>4. CASE /\ steering = <<>>
             /\ pending' = Drained(followUp) /\ followUp' = Remaining(followUp)
             /\ at' = IF followUp # <<>> THEN "turnStart" ELSE "agentEnd"
    <3>1. steering' = steering
      BY <2>1, <2>4 DEF Remaining
    <3>2. /\ Arranged(injected, pending', steering, followUp', users)
          /\ Held(injected, pending', steering, followUp')
                = Held(injected, pending, steering, followUp)
      BY <1>1, <2>2, <2>4, TakeFollowUp
    <3>3. pending' # <<>> => at' = "turnStart"
      BY <2>4 DEF Drained
    <3> QED
      BY <1>1, <2>1, <2>2, <3>1, <3>2, <3>3, QueueInvWhole
  <2> QED
    BY <1>7, <2>3, <2>4 DEF NextTurn
<1>8. CASE Finish \/ Unwind
  <2>1. /\ UNCHANGED <<injected, steering, followUp, users, queued, withdrawn>>
        /\ pending' = <<>> /\ at' = "idle"
        /\ \/ at = "agentEnd" /\ lost' = lost
           \/ lost' = lost \cup Ids(pending)
    BY <1>8 DEF Finish, Unwind, Cleanup, queueVars, counters, history
  <2>2. /\ Arranged(injected, pending', steering, followUp, users)
        /\ Held(injected, pending, steering, followUp)
              = Held(injected, pending', steering, followUp) \cup Ids(pending)
    BY <1>1, <2>1, Drop
  <2>3. at = "agentEnd" => Ids(pending) = {}
    BY <1>1, Empty
  <2>4. queued \subseteq Held(injected, pending', steering, followUp)
                         \cup withdrawn \cup lost'
    BY <1>1, <2>1, <2>2, <2>3
  <2> QED
    BY <1>1, <2>1, <2>2, <2>4, QueueInvWhole
<1>9. CASE Cancel \/ ReplaceMessages
  <2>1. UNCHANGED <<running, at, injected, pending, steering, followUp, users,
                    queued, withdrawn, lost>>
    BY <1>9 DEF Cancel, ReplaceMessages, runVars, queueVars, counters, history
  <2> QED
    BY <1>1, <2>1, QueueInvWhole
<1>10. CASE AppendMessage
  <2>1. /\ UNCHANGED <<running, at, injected, pending, steering, followUp,
                       queued, withdrawn, lost>>
        /\ users' = users + 1
    BY <1>10 DEF AppendMessage, runVars, queueVars, history
  <2> QED
    BY <1>1, <1>2, <2>1, QueueInvWhole
<1>11. CASE Steer
  <2>1. /\ UNCHANGED <<running, at, injected, pending, followUp, withdrawn, lost>>
        /\ users' = users + 1 /\ queued' = queued \cup {users + 1}
        /\ steering' = Append(steering, User(users + 1, "steer"))
    BY <1>11 DEF Steer, runVars, history
  <2>2. /\ Arranged(injected, pending, steering', followUp, users + 1)
        /\ Held(injected, pending, steering', followUp)
              = Held(injected, pending, steering, followUp) \cup {users + 1}
    BY <1>1, <2>1, JoinSteering
  <2> QED
    BY <1>1, <1>2, <2>1, <2>2, QueueInvWhole
<1>12. CASE FollowUp
  <2>1. /\ UNCHANGED <<running, at, injected, pending, steering, withdrawn, lost>>
        /\ users' = users + 1 /\ queued' = queued \cup {users + 1}
        /\ followUp' = Append(followUp, User(users + 1, "follow_up"))
    BY <1>12 DEF FollowUp, runVars, history
  <2>2. /\ Arranged(injected, pending, steering, followUp', users + 1)
        /\ Held(injected, pending, steering, followUp')
              = Held(injected, pending, steering, followUp) \cup {users + 1}
    BY <1>1, <2>1, JoinFollowUp
  <2> QED
    BY <1>1, <1>2, <2>1, <2>2, QueueInvWhole
<1>13. CASE PopLatestSteering
  <2> DEFINE e == <<steering[Len(steering)]>>
  <2>1. /\ UNCHANGED <<running, at, injected, pending, followUp, users, queued, lost>>
        /\ steering # <<>> /\ steering' = AllButLast(steering)
        /\ withdrawn' = withdrawn \cup {steering[Len(steering)].id}
    BY <1>13 DEF PopLatestSteering, runVars, counters, history
  <2>2. steering \in Seq(UserMsg)
    BY <1>1 DEF Arranged
  <2>3. /\ steering' \in Seq(UserMsg) /\ e \in Seq(UserMsg)
        /\ steering = steering' \o e /\ Ids(e) = {steering[Len(steering)].id}
    BY <2>1, <2>2, LastLast, Single
  <2> HIDE DEF e
  <2>4. /\ Arranged(injected, pending, steering', followUp, users)
        /\ Held(injected, pending, steering, followUp)
              = Held(injected, pending, steering', followUp) \cup Ids(e)
    <3>1. Arranged(injected, pending, steering' \o e, followUp, users)
      BY <1>1, <2>3
    <3>2. steering' \in Seq(UserMsg) /\ e \in Seq(UserMsg)
      BY <2>3
    <3>3. /\ Arranged(injected, pending, steering', followUp, users)
          /\ Held(injected, pending, steering' \o e, followUp)
                = Held(injected, pending, steering', followUp) \cup Ids(e)
      BY <3>1, <3>2, ShortSteering
    <3> QED
      BY <2>3, <3>3
  <2>5. queued \subseteq Held(injected, pending, steering', followUp)
                         \cup withdrawn' \cup lost
    BY <1>1, <2>1, <2>3, <2>4
  <2> QED
    BY <1>1, <2>1, <2>4, <2>5, QueueInvWhole
<1>14. CASE PopLatestFollowUp
  <2> DEFINE e == <<followUp[Len(followUp)]>>
  <2>1. /\ UNCHANGED <<running, at, injected, pending, steering, users, queued, lost>>
        /\ followUp # <<>> /\ followUp' = AllButLast(followUp)
        /\ withdrawn' = withdrawn \cup {followUp[Len(followUp)].id}
    BY <1>14 DEF PopLatestFollowUp, runVars, counters, history
  <2>2. followUp \in Seq(UserMsg)
    BY <1>1 DEF Arranged
  <2>3. /\ followUp' \in Seq(UserMsg) /\ e \in Seq(UserMsg)
        /\ followUp = followUp' \o e /\ Ids(e) = {followUp[Len(followUp)].id}
    BY <2>1, <2>2, LastLast, Single
  <2> HIDE DEF e
  <2>4. /\ Arranged(injected, pending, steering, followUp', users)
        /\ Held(injected, pending, steering, followUp)
              = Held(injected, pending, steering, followUp') \cup Ids(e)
    <3>1. Arranged(injected, pending, steering, followUp' \o e, users)
      BY <1>1, <2>3
    <3>2. followUp' \in Seq(UserMsg) /\ e \in Seq(UserMsg)
      BY <2>3
    <3>3. /\ Arranged(injected, pending, steering, followUp', users)
          /\ Held(injected, pending, steering, followUp' \o e)
                = Held(injected, pending, steering, followUp') \cup Ids(e)
      BY <3>1, <3>2, ShortFollowUp
    <3> QED
      BY <2>3, <3>3
  <2>5. queued \subseteq Held(injected, pending, steering, followUp')
                         \cup withdrawn' \cup lost
    BY <1>1, <2>1, <2>3, <2>4
  <2> QED
    BY <1>1, <2>1, <2>4, <2>5, QueueInvWhole
<1>15. CASE ClearQueues
  <2>1. /\ UNCHANGED <<running, at, injected, pending, users, queued, lost>>
        /\ steering' = <<>> /\ followUp' = <<>>
        /\ withdrawn' = withdrawn \cup Ids(steering) \cup Ids(followUp)
    BY <1>15 DEF ClearQueues, runVars, counters, history
  <2>2. /\ Arranged(injected, pending, <<>>, <<>>, users)
        /\ Held(injected, pending, steering, followUp)
              = Held(injected, pending, <<>>, <<>>)
                   \cup Ids(steering) \cup Ids(followUp)
    BY <1>1, Clear
  <2>3. queued \subseteq Held(injected, pending, <<>>, <<>>)
                         \cup withdrawn' \cup lost
    BY <1>1, <2>1, <2>2
  <2> QED
    BY <1>1, <2>1, <2>2, <2>3, QueueInvWhole
<1> QED
  BY <1>3, <1>4, <1>5, <1>6, <1>7, <1>8, <1>9, <1>10, <1>11, <1>12, <1>13,
     <1>14, <1>15 DEF Next, RunStep, Environment

-----------------------------------------------------------------------------
(***************************************************************************)
(* The theorems.                                                           *)
(***************************************************************************)
\* QueueInv is an invariant: it is inductive as it stands.
THEOREM QueueInvariance == Spec => []QueueInv
<1>1. Init => QueueInv
  BY QueueInit
<1>2. QueueInv /\ [Next]_vars => QueueInv'
  <2>1. CASE QueueInv /\ Next
    BY <2>1, QueueStep
  <2>2. CASE QueueInv /\ UNCHANGED vars
    BY <2>2 DEF QueueInv, QueueTypes, QueueOrder, NothingVanishes, vars,
                runVars, queueVars, counters, history
  <2> QED
    BY <2>1, <2>2
<1> QED
  BY <1>1, <1>2, PTL DEF Spec

\* Queued messages are delivered first-in first-out, each once, across runs,
\* cancellations and partial drains (QueueOrder; _drain_queue, pop_latest_*).
THEOREM QueuesInOrder == Spec => []QueueOrder
<1>1. QueueInv => QueueOrder
  BY DEF QueueInv
<1> QED
  BY <1>1, QueueInvariance, PTL

\* No queued message disappears: only the user takes one back, and only a run
\* that is unwound loses what it had in hand (NothingVanishes).
THEOREM NothingDisappears == Spec => []NothingVanishes
<1>1. QueueInv => NothingVanishes
  BY DEF QueueInv
<1> QED
  BY <1>1, QueueInvariance, PTL

(***************************************************************************)
(* No call is answered twice.                                              *)
(***************************************************************************)
NoResult(t) == \A k \in DOMAIN t : t[k].kind # "result"

LEMMA MessagePlaces ==
    ASSUME NEW s \in Seq(Message), NEW t \in Seq(Message)
    PROVE  /\ s \o t \in Seq(Message)
           /\ Len(s) \in Nat /\ DOMAIN s = 1..Len(s)
           /\ Len(t) \in Nat /\ DOMAIN t = 1..Len(t)
           /\ DOMAIN (s \o t) = 1..Len(s) + Len(t)
           /\ \A i \in DOMAIN s : i \in DOMAIN (s \o t) /\ (s \o t)[i] = s[i]
           /\ \A j \in DOMAIN t :
                 Len(s) + j \in DOMAIN (s \o t) /\ (s \o t)[Len(s) + j] = t[j]
           /\ \A i \in DOMAIN (s \o t) :
                 \/ i \in DOMAIN s
                 \/ i - Len(s) \in DOMAIN t /\ i = Len(s) + (i - Len(s))
<1>1. /\ s \o t \in Seq(Message)
      /\ Len(s) \in Nat /\ DOMAIN s = 1..Len(s)
      /\ Len(t) \in Nat /\ DOMAIN t = 1..Len(t)
      /\ Len(s \o t) = Len(s) + Len(t)
      /\ \A i \in 1..Len(s) + Len(t) :
            (s \o t)[i] = IF i <= Len(s) THEN s[i] ELSE t[i - Len(s)]
  BY ConcatProperties, LenProperties
<1>2. DOMAIN (s \o t) = 1..Len(s) + Len(t)
  BY <1>1, LenProperties
<1>3. \A i \in DOMAIN s : i \in DOMAIN (s \o t) /\ (s \o t)[i] = s[i]
  BY <1>1, <1>2
<1>4. ASSUME NEW j \in DOMAIN t
      PROVE  Len(s) + j \in DOMAIN (s \o t) /\ (s \o t)[Len(s) + j] = t[j]
  <2>1. /\ Len(s) + j \in 1..Len(s) + Len(t) /\ ~(Len(s) + j <= Len(s))
        /\ (Len(s) + j) - Len(s) = j
    BY <1>1
  <2> QED
    BY <2>1, <1>1, <1>2
<1>5. \A i \in DOMAIN (s \o t) :
         \/ i \in DOMAIN s
         \/ i - Len(s) \in DOMAIN t /\ i = Len(s) + (i - Len(s))
  BY <1>1, <1>2
<1> QED
  BY <1>1, <1>2, <1>3, <1>4, <1>5

\* Two lists that answer each call once and no call in common make one.
LEMMA OnceConcat ==
    ASSUME NEW s \in Seq(Message), NEW t \in Seq(Message),
           AnsweredOnce(s), AnsweredOnce(t), Returned(s) \cap Returned(t) = {}
    PROVE  AnsweredOnce(s \o t)
<1> DEFINE u == s \o t
<1>1. /\ Len(s) \in Nat /\ DOMAIN s = 1..Len(s)
      /\ Len(t) \in Nat /\ DOMAIN t = 1..Len(t)
      /\ \A i \in DOMAIN s : i \in DOMAIN u /\ u[i] = s[i]
      /\ \A j \in DOMAIN t : Len(s) + j \in DOMAIN u /\ u[Len(s) + j] = t[j]
      /\ \A i \in DOMAIN u :
            \/ i \in DOMAIN s
            \/ i - Len(s) \in DOMAIN t /\ i = Len(s) + (i - Len(s))
  BY MessagePlaces
<1> HIDE DEF u
<1> SUFFICES ASSUME NEW i \in DOMAIN u, NEW j \in DOMAIN u, i < j,
                    u[i].kind = "result", u[j].kind = "result",
                    u[i].call = u[j].call
             PROVE  FALSE
  BY DEF AnsweredOnce, u
<1>2. CASE i \in DOMAIN s /\ j \in DOMAIN s
  BY <1>1, <1>2 DEF AnsweredOnce
<1>3. CASE i \in DOMAIN s /\ j \notin DOMAIN s
  <2>1. u[i].call \in Returned(s)
    BY <1>1, <1>3 DEF Returned
  <2>2. j - Len(s) \in DOMAIN t /\ u[j] = t[j - Len(s)]
    BY <1>1, <1>3
  <2>3. u[j].call \in Returned(t)
    BY <2>2 DEF Returned
  <2> QED
    BY <2>1, <2>3
<1>4. CASE i \notin DOMAIN s /\ j \notin DOMAIN s
  <2>1. /\ i - Len(s) \in DOMAIN t /\ u[i] = t[i - Len(s)]
        /\ j - Len(s) \in DOMAIN t /\ u[j] = t[j - Len(s)]
    BY <1>1, <1>4
  <2>2. i - Len(s) < j - Len(s)
    BY <1>1, <1>4
  <2> QED
    BY <2>1, <2>2 DEF AnsweredOnce
<1>5. ~(i \notin DOMAIN s /\ j \in DOMAIN s)
  BY <1>1
<1> QED
  BY <1>2, <1>3, <1>4, <1>5

\* A message that is no result changes nothing.
LEMMA OnceOther ==
    ASSUME NEW s \in Seq(Message), NEW m \in Message, m.kind # "result"
    PROVE  /\ Append(s, m) = s \o <<m>> /\ <<m>> \in Seq(Message)
           /\ Returned(Append(s, m)) = Returned(s)
           /\ AnsweredOnce(s) => AnsweredOnce(Append(s, m))
<1>1. Append(s, m) = s \o <<m>> /\ <<m>> \in Seq(Message)
  BY AppendIsConcat
<1>2. Returned(<<m>>) = {} /\ AnsweredOnce(<<m>>)
  BY DEF Returned, AnsweredOnce
<1>3. AnsweredOnce(s) => AnsweredOnce(s \o <<m>>)
  BY <1>1, <1>2, OnceConcat
<1> DEFINE u == Append(s, m)
<1>4. /\ DOMAIN s = 1..Len(s) /\ Len(s) \in Nat
      /\ DOMAIN u = 1..Len(s) + 1
      /\ \A k \in 1..Len(s) : u[k] = s[k]
      /\ u[Len(s) + 1] = m
  BY AppendProperties, LenProperties
<1> HIDE DEF u
<1>5. Returned(u) = Returned(s)
  <2>1. \A i \in DOMAIN s : i \in DOMAIN u /\ u[i] = s[i]
    BY <1>4
  <2>2. \A i \in DOMAIN u : i \in DOMAIN s \/ u[i] = m
    BY <1>4
  <2> QED
    BY <2>1, <2>2 DEF Returned
<1> QED
  BY <1>1, <1>3, <1>5 DEF u

\* The result of a call that had none.
LEMMA OnceResult ==
    ASSUME NEW s \in Seq(Message), NEW c \in CallId,
           AnsweredOnce(s), c \notin Returned(s)
    PROVE  /\ AnsweredOnce(Append(s, Result(c)))
           /\ Returned(Append(s, Result(c))) = Returned(s) \cup {c}
<1>1. /\ Result(c) \in Message /\ Result(c).kind = "result" /\ Result(c).call = c
  BY DEF Message, ResultMsg, Result
<1>2. /\ Append(s, Result(c)) = s \o <<Result(c)>>
      /\ <<Result(c)>> \in Seq(Message)
  BY <1>1, AppendIsConcat
<1>3. NoAssistant(<<Result(c)>>) /\ Returned(<<Result(c)>>) = {c}
  BY <1>1 DEF NoAssistant, Returned
<1>4. AnsweredOnce(<<Result(c)>>)
  BY DEF AnsweredOnce
<1>5. AnsweredOnce(s \o <<Result(c)>>)
  BY <1>2, <1>3, <1>4, OnceConcat
<1>6. Returned(s \o <<Result(c)>>) = Returned(s) \cup {c}
  BY <1>2, <1>3, ConcatOthers
<1> QED
  BY <1>2, <1>5, <1>6

LEMMA OncePrefix ==
    ASSUME NEW s \in Seq(Message), NEW n \in 0..Len(s), AnsweredOnce(s)
    PROVE  AnsweredOnce(SubSeq(s, 1, n))
<1> DEFINE u == SubSeq(s, 1, n)
<1>1. /\ DOMAIN s = 1..Len(s) /\ Len(s) \in Nat /\ n \in Nat /\ n <= Len(s)
      /\ \A i \in 1..n : s[i] \in Message
  BY LenProperties, ElementOfSeq
<1>2. /\ u \in Seq(Message) /\ Len(u) = n
      /\ \A i \in 1..n : u[i] = s[i]
  BY <1>1, SubSeqProperties
<1>3. DOMAIN u = 1..n /\ \A i \in 1..n : i \in DOMAIN s
  BY <1>1, <1>2, LenProperties
<1> HIDE DEF u
<1>4. AnsweredOnce(u)
  BY <1>2, <1>3 DEF AnsweredOnce
<1> QED
  BY <1>4 DEF u

-----------------------------------------------------------------------------
(***************************************************************************)
(* Picking places of a list.                                               *)
(***************************************************************************)
LEMMA PlacesFinite ==
    ASSUME NEW s \in Seq(Message), NEW K \in SUBSET (DOMAIN s)
    PROVE  K \subseteq Nat /\ IsFiniteSet(K) /\ Cardinality(K) \in Nat
<1>1. DOMAIN s = 1..Len(s) /\ Len(s) \in Nat
  BY LenProperties
<1>2. K \in SUBSET (1..Len(s)) /\ IsFiniteSet(1..Len(s)) /\ 1..Len(s) \subseteq Nat
  BY <1>1, FS_Interval
<1> QED
  BY <1>2, FS_Subset, FS_CardinalityType

LEMMA PickedPlaces ==
    ASSUME NEW s \in Seq(Message), NEW K \in SUBSET (DOMAIN s)
    PROVE  /\ Cardinality(K) \in Nat
           /\ Ascending(K) \in [1..Cardinality(K) -> K]
           /\ \A k, l \in 1..Cardinality(K) :
                 k < l => Ascending(K)[k] < Ascending(K)[l]
           /\ Picked(s, K) \in Seq(Message)
           /\ Len(Picked(s, K)) = Cardinality(K)
           /\ DOMAIN Picked(s, K) = 1..Cardinality(K)
           /\ \A k \in 1..Cardinality(K) : Picked(s, K)[k] = s[Ascending(K)[k]]
<1> DEFINE n == Cardinality(K)
           kept == Ascending(K)
           u == Picked(s, K)
<1>1. /\ n \in Nat /\ kept \in [1..n -> K]
      /\ \A k, l \in 1..n : k < l => kept[k] < kept[l]
  BY PlacesFinite, AscendingProperties
<1>2. u = [k \in DOMAIN kept |-> s[kept[k]]]
  BY DEF Picked
<1> HIDE DEF n, kept, u
<1>3. /\ DOMAIN u = 1..n /\ \A k \in 1..n : u[k] = s[kept[k]] /\ kept[k] \in DOMAIN s
  BY <1>1, <1>2
<1>4. \A i \in DOMAIN s : s[i] \in Message
  BY LenProperties, ElementOfSeq
<1>5. u \in [1..n -> Message]
  BY <1>1, <1>2, <1>3, <1>4
<1>6. u \in Seq(Message)
  BY <1>1, <1>5, SeqDef
<1>7. Len(u) = n
  <2>1. DOMAIN u = 1..Len(u) /\ Len(u) \in Nat
    BY <1>6, LenProperties
  <2> QED
    BY <1>1, <1>3, <2>1
<1> QED
  BY <1>1, <1>3, <1>6, <1>7 DEF n, kept, u

LEMMA OnceContext ==
    ASSUME NEW s \in Seq(Message), AnsweredOnce(s)
    PROVE  AnsweredOnce(ProviderContext(s))
<1> DEFINE K == {i \in DOMAIN s : Replayable(s[i])}
           n == Cardinality(K)
           kept == Ascending(K)
           u == Picked(s, K)
<1>1. K \in SUBSET (DOMAIN s)
  OBVIOUS
<1> HIDE DEF K
<1>2. /\ n \in Nat /\ kept \in [1..n -> K]
      /\ \A k, l \in 1..n : k < l => kept[k] < kept[l]
      /\ DOMAIN u = 1..n /\ \A k \in 1..n : u[k] = s[kept[k]]
  BY <1>1, PickedPlaces
<1> HIDE DEF n, kept, u
<1>3. \A k \in 1..n : kept[k] \in DOMAIN s
  BY <1>1, <1>2
<1>4. AnsweredOnce(u)
  BY <1>2, <1>3 DEF AnsweredOnce
<1> QED
  BY <1>4 DEF ProviderContext, u, K

\* The repair answers open calls only, each once.
LEMMA OnceRepaired ==
    ASSUME NEW s \in Seq(Message), NEW n \in Nat,
           \A c \in Asked(s) : c <= n, AnsweredOnce(s)
    PROVE  AnsweredOnce(Repaired(s))
<1> DEFINE asc == Ascending(Open(s))
           m == Cardinality(Open(s))
           t == [k \in 1..m |-> Result(asc[k])]
<1>1. Open(s) \subseteq Nat /\ IsFiniteSet(Open(s))
  <2>1. Open(s) \subseteq Asked(s)
    BY DEF Open
  <2>2. Open(s) \in SUBSET Nat /\ \A c \in Open(s) : c <= n
    BY <2>1, AskedType
  <2> QED
    BY <2>2, FS_BoundedSetOfNaturals
<1>2. /\ m \in Nat /\ asc \in [1..m -> Open(s)]
      /\ \A i, j \in 1..m : i < j => asc[i] < asc[j]
  BY <1>1, AscendingProperties
<1> HIDE DEF asc, m
<1>3. \A k \in 1..m : t[k] \in Message /\ t[k].kind = "result" /\ t[k].call = asc[k]
  BY <1>1, <1>2 DEF Message, ResultMsg, Result, CallId
<1>4. t \in Seq(Message) /\ DOMAIN t = 1..m
  <2>1. t \in [1..m -> Message]
    BY <1>3
  <2>2. t \in Seq(Message)
    BY <2>1, <1>2, SeqDef
  <2> QED
    BY <2>2
<1>5. Repaired(s) = s \o t
  BY DEF Repaired, m, asc
<1> HIDE DEF t
<1>6. Returned(t) \cap Returned(s) = {}
  BY <1>2, <1>3, <1>4 DEF Returned, Open
<1>7. AnsweredOnce(t)
  <2> SUFFICES ASSUME NEW i \in 1..m, NEW j \in 1..m, i < j
               PROVE  t[i].call # t[j].call
    BY <1>4 DEF AnsweredOnce
  <2>1. asc[i] < asc[j] /\ asc[i] \in Nat /\ asc[j] \in Nat
    BY <1>1, <1>2
  <2>2. asc[i] # asc[j]
    BY <2>1
  <2> QED
    BY <1>3, <2>2
<1> QED
  BY <1>4, <1>5, <1>6, <1>7, OnceConcat

-----------------------------------------------------------------------------
(***************************************************************************)
(* Every step keeps it.                                                    *)
(***************************************************************************)
LEMMA OnceInit == Init => OnceInv
BY DEF Init, OnceInv, AnsweredOnce

\* A step that turns one list into one that answers each call once.
LEMMA OnceListStep ==
    ASSUME AnswerInv, OnceInv, NEW l \in {1, 2}, NEW u,
           lists' = [lists EXCEPT ![l] = u], AnsweredOnce(u)
    PROVE  \A k \in {1, 2} : AnsweredOnce(lists'[k])
<1>1. lists \in [{1, 2} -> Seq(Message)]
  BY DEF AnswerInv, TypeOK
<1> QED
  BY <1>1 DEF OnceInv

\* Before the provider answers, what is recorded is no result.
LEMMA OnceProceed ==
    ASSUME AnswerInv, OnceInv, NEW batch \in Seq(UserMsg), Proceed(batch)
    PROVE  OnceInv'
<1>1. /\ loop \in {1, 2} /\ lists \in [{1, 2} -> Seq(Message)]
      /\ RunList \in Seq(Message) /\ RunList = lists[loop]
      /\ AnsweredOnce(RunList)
  BY DEF AnswerInv, TypeOK, OnceInv, RunList
<1>2. ASSUME NEW m \in Message, m.kind # "result", Record(m)
      PROVE  \A k \in {1, 2} : AnsweredOnce(lists'[k])
  <2>1. AnsweredOnce(Append(RunList, m))
    BY <1>1, <1>2, OnceOther
  <2>2. lists' = [lists EXCEPT ![loop] = Append(RunList, m)]
    BY <1>2 DEF Record, RunList
  <2> QED
    BY <1>1, <2>1, <2>2, OnceListStep
<1>3. CASE batch # <<>> /\ Record(Head(batch)) /\ at' = "injecting"
  <2>1. Head(batch) \in UserMsg
    BY <1>3, HeadTailProperties
  <2>2. Head(batch) \in Message /\ Head(batch).kind # "result"
    BY <2>1, MessageTypes DEF UserMsg
  <2> QED
    BY <1>2, <1>3, <2>2 DEF OnceInv
<1>4. CASE Record(ErrorMessage) /\ at' = "agentEnd"
  <2>1. ErrorMessage \in Message /\ ErrorMessage.kind # "result"
    BY MessageTypes DEF ErrorMessage, Assistant
  <2> QED
    BY <1>2, <1>4, <2>1 DEF OnceInv
<1>5. CASE context' = ProviderContext(RunList) /\ at' = "streaming"
           /\ UNCHANGED lists
  BY <1>1, <1>5, OnceContext DEF OnceInv
<1> QED
  BY <1>3, <1>4, <1>5 DEF Proceed

LEMMA OnceStep ==
    ASSUME CallIds = "fresh", HarnessAssumption, AnswerInv, OnceInv, Next
    PROVE  OnceInv'
<1>1. /\ own \in {1, 2} /\ loop \in {1, 2} /\ calls \in Nat /\ users \in Nat
      /\ lists \in [{1, 2} -> Seq(Message)]
      /\ \A l \in {1, 2} : lists[l] \in Seq(Message) /\ AnsweredOnce(lists[l])
      /\ RunList = lists[loop]
  BY DEF AnswerInv, TypeOK, OnceInv, RunList
<1>2. AnsweredOnce(Repaired(lists[own]))
  <2>1. \A c \in Asked(lists[own]) : c <= calls
    BY <1>1 DEF AnswerInv, ListsOrdered
  <2> QED
    BY <1>1, <2>1, OnceRepaired
<1>3. ASSUME NEW prompts \in Seq(UserMsg), StartRun(prompts)
      PROVE  OnceInv'
  <2>1. /\ Repaired(lists[own]) \in Seq(Message) /\ prompts \in Seq(Message)
        /\ Returned(prompts) = {} /\ AnsweredOnce(prompts)
    <3>1. \A i \in DOMAIN prompts : prompts[i] \in UserMsg
      BY LenProperties, ElementOfSeq
    <3>2. AnsweredOnce(prompts)
      BY <3>1 DEF AnsweredOnce, UserMsg
    <3> QED
      BY <1>1, <3>2, ListsRepaired, MessageTypes, UserLists
  <2>2. AnsweredOnce(Repaired(lists[own]) \o prompts)
    BY <1>2, <2>1, OnceConcat
  <2>3. /\ lists' = [lists EXCEPT ![own] = Repaired(lists[own]) \o prompts]
        /\ at' = "opening"
    BY <1>3 DEF StartRun
  <2>4. \A k \in {1, 2} : AnsweredOnce(lists'[k])
    BY <1>1, <2>2, <2>3, OnceListStep
  <2> QED
    BY <2>3, <2>4 DEF OnceInv
<1>4. CASE Prompt \/ Continue
  <2>1. <<User(users + 1, "prompt")>> \in Seq(UserMsg) /\ <<>> \in Seq(UserMsg)
    BY <1>1, MessageTypes, EmptySeq
  <2> QED
    BY <1>3, <1>4, <2>1 DEF Prompt, Continue
<1>5. CASE FirstTurn
  <2>1. Drained(steering) \in Seq(UserMsg)
    BY DrainTypes DEF AnswerInv, TypeOK
  <2>2. CASE Proceed(Drained(steering))
    BY <2>1, <2>2, OnceProceed
  <2>3. CASE Record(ErrorMessage) /\ at' = "agentEnd"
    <3>1. ErrorMessage \in Message /\ ErrorMessage.kind # "result"
      BY MessageTypes DEF ErrorMessage, Assistant
    <3>2. AnsweredOnce(Append(lists[loop], ErrorMessage))
      BY <1>1, <3>1, OnceOther
    <3>3. lists' = [lists EXCEPT ![loop] = Append(lists[loop], ErrorMessage)]
      BY <2>3 DEF Record
    <3>4. \A k \in {1, 2} : AnsweredOnce(lists'[k])
      BY <1>1, <3>2, <3>3, OnceListStep
    <3> QED
      BY <2>3, <3>4 DEF OnceInv
  <2> QED
    BY <1>5, <2>2, <2>3 DEF FirstTurn
<1>6. CASE NextStep
  <2>1. pending \in Seq(UserMsg)
    BY DEF AnswerInv, TypeOK
  <2> QED
    BY <1>6, <2>1, OnceProceed DEF NextStep
<1>7. CASE Respond
  <2>1. PICK batch \in Batches, stop \in {"done", "failed"} :
           reply' = Assistant(batch, stop)
    BY <1>7 DEF Respond
  <2>2. PICK n \in 0..MaxBatch : batch = [i \in 1..n |-> calls + i]
    BY DEF Batches
  <2>3. IsInjective(batch)
    <3>1. n \in Nat
      BY DEF HarnessAssumption
    <3>2. \A i, j \in 1..n : calls + i = calls + j => i = j
      BY <1>1, <3>1
    <3> QED
      BY <2>2, <3>2 DEF IsInjective
  <2>4. reply'.calls = batch /\ at' = "answered" /\ lists' = lists
    BY <1>7, <2>1 DEF Respond, Assistant
  <2> QED
    BY <1>1, <2>3, <2>4 DEF OnceInv
<1>8. CASE RecordReply
  <2>1. /\ reply \in AssistantMsg /\ IsInjective(reply.calls)
        /\ \A c \in Range(reply.calls) : c \notin Returned(lists[loop])
    BY <1>1, <1>8 DEF RecordReply, AnswerInv, TypeOK, RunOwes, OnceInv
  <2>2. reply \in Message /\ reply.kind # "result"
    BY <2>1, MessageTypes DEF AssistantMsg
  <2> DEFINE u == Append(lists[loop], reply)
  <2>3. AnsweredOnce(u) /\ Returned(u) = Returned(lists[loop])
    BY <1>1, <2>2, OnceOther
  <2>4. lists' = [lists EXCEPT ![loop] = u] /\ loop' = loop
    BY <1>8 DEF RecordReply, Record
  <2> HIDE DEF u
  <2>5. (\A k \in {1, 2} : AnsweredOnce(lists'[k])) /\ RunList' = u
    BY <1>1, <2>3, <2>4, OnceListStep DEF RunList
  <2>6. CASE at' \in {"agentEnd", "turnEnd"}
    BY <2>5, <2>6 DEF OnceInv
  <2>7. CASE at' = "hook" /\ todo' = reply.calls
    BY <2>1, <2>3, <2>5, <2>7 DEF OnceInv
  <2> QED
    BY <1>8, <2>6, <2>7 DEF RecordReply
<1>9. CASE Refuse \/ Execute \/ Return
  <2>1. /\ UNCHANGED <<lists, loop, todo>>
        /\ at \in {"hook", "executing"} /\ at' \in {"executing", "returned"}
    BY <1>9 DEF Refuse, Execute, Return, Move
  <2> QED
    BY <1>1, <2>1 DEF OnceInv, RunList
<1>10. CASE RecordResult
  <2> DEFINE c == Head(todo)
             u == Append(lists[loop], Result(c))
  <2>1. /\ todo # <<>> /\ todo \in Seq(CallId) /\ IsInjective(todo)
        /\ Range(todo) \cap Returned(lists[loop]) = {}
    BY <1>1, <1>10 DEF RecordResult, AnswerInv, RunOwes, TypeOK, OnceInv
  <2>2. c \in CallId /\ Tail(todo) \in Seq(CallId)
    BY <2>1, HeadTailProperties
  <2>3. /\ Len(todo) \in Nat \ {0} /\ DOMAIN todo = 1..Len(todo) /\ c = todo[1]
        /\ DOMAIN Tail(todo) = 1..Len(todo) - 1
        /\ \A i \in 1..Len(todo) - 1 : Tail(todo)[i] = todo[i + 1]
    <3>1. Len(todo) \in Nat \ {0} /\ DOMAIN todo = 1..Len(todo) /\ c = todo[1]
      BY <2>1, EmptySeq, LenProperties
    <3>2. /\ DOMAIN Tail(todo) = 1..Len(todo) - 1
          /\ \A i \in 1..Len(todo) - 1 : Tail(todo)[i] = todo[i + 1]
      BY <2>1, <2>2, HeadTailProperties, LenProperties
    <3> QED
      BY <3>1, <3>2
  <2>4. IsInjective(Tail(todo))
    <3> SUFFICES ASSUME NEW i \in 1..Len(todo) - 1, NEW j \in 1..Len(todo) - 1,
                        todo[i + 1] = todo[j + 1]
                 PROVE  i = j
      BY <2>3 DEF IsInjective
    <3>1. i + 1 \in DOMAIN todo /\ j + 1 \in DOMAIN todo
      BY <2>3
    <3>2. i + 1 = j + 1
      BY <2>1, <3>1 DEF IsInjective
    <3> QED
      BY <2>3, <3>2
  <2>5. c \in Range(todo) /\ Range(Tail(todo)) \subseteq Range(todo) \ {c}
    <3>1. 1 \in DOMAIN todo
      BY <2>3
    <3>2. ASSUME NEW i \in DOMAIN Tail(todo)
          PROVE  Tail(todo)[i] \in Range(todo) \ {c}
      <4>1. i + 1 \in DOMAIN todo /\ i + 1 # 1 /\ Tail(todo)[i] = todo[i + 1]
        BY <2>3
      <4>2. todo[i + 1] # todo[1]
        BY <2>1, <3>1, <4>1 DEF IsInjective
      <4> QED
        BY <2>3, <4>1, <4>2 DEF Range
    <3> QED
      BY <2>3, <3>1, <3>2 DEF Range
  <2>6. AnsweredOnce(u) /\ Returned(u) = Returned(lists[loop]) \cup {c}
    <3>1. c \notin Returned(lists[loop])
      BY <2>1, <2>5
    <3> QED
      BY <1>1, <2>2, <3>1, OnceResult
  <2>7. /\ lists' = [lists EXCEPT ![loop] = u] /\ loop' = loop
        /\ todo' = Tail(todo) /\ at' \in {"turnEnd", "hook"}
    BY <1>10 DEF RecordResult, Record
  <2> HIDE DEF u, c
  <2>8. (\A k \in {1, 2} : AnsweredOnce(lists'[k])) /\ RunList' = u
    BY <1>1, <2>6, <2>7, OnceListStep DEF RunList
  <2>9. Range(todo') \cap Returned(u) = {}
    BY <2>1, <2>5, <2>6, <2>7
  <2> QED
    BY <2>4, <2>7, <2>8, <2>9 DEF OnceInv
<1>11. CASE NextTurn
  <2>1. UNCHANGED lists /\ at' \in {"turnStart", "agentEnd"}
    BY <1>11 DEF NextTurn
  <2> QED
    BY <1>1, <2>1 DEF OnceInv
<1>12. CASE Finish \/ Unwind
  <2>1. at' = "idle"
    BY <1>12 DEF Finish, Unwind, Cleanup
  <2>2. CASE lists' = lists
    BY <1>1, <2>1, <2>2 DEF OnceInv
  <2>3. CASE lists' = [lists EXCEPT ![own] = Repaired(lists[own])]
    <3>1. \A k \in {1, 2} : AnsweredOnce(lists'[k])
      BY <1>1, <1>2, <2>3, OnceListStep
    <3> QED
      BY <2>1, <3>1 DEF OnceInv
  <2> QED
    BY <1>12, <2>2, <2>3 DEF Finish, Unwind, Cleanup
<1>13. CASE \/ Cancel \/ Steer \/ FollowUp
            \/ PopLatestSteering \/ PopLatestFollowUp \/ ClearQueues
  <2>1. UNCHANGED <<lists, loop, at, reply, todo, context>>
    BY <1>13 DEF Cancel, Steer, FollowUp, PopLatestSteering, PopLatestFollowUp,
                 ClearQueues, runVars
  <2> QED
    BY <2>1 DEF OnceInv, RunList
<1>14. CASE AppendMessage
  <2> DEFINE m == User(users + 1, "append")
             u == Append(lists[own], m)
  <2>1. m \in Message /\ m.kind # "result"
    <3>1. users + 1 \in Nat
      BY <1>1
    <3>2. m \in UserMsg /\ m.kind = "user"
      BY <3>1 DEF User, UserMsg
    <3> QED
      BY <3>2 DEF Message
  <2> HIDE DEF m
  <2>2. AnsweredOnce(u) /\ Returned(u) = Returned(lists[own])
    BY <1>1, <2>1, OnceOther
  <2>3. /\ lists' = [lists EXCEPT ![own] = u]
        /\ UNCHANGED <<loop, at, reply, todo, context>>
    BY <1>14 DEF AppendMessage, runVars, m
  <2> HIDE DEF u
  <2>4. \A k \in {1, 2} : AnsweredOnce(lists'[k])
    BY <1>1, <2>2, <2>3, OnceListStep
  <2>5. Returned(RunList') = Returned(RunList)
    BY <1>1, <2>2, <2>3 DEF RunList
  <2> QED
    BY <2>3, <2>4, <2>5 DEF OnceInv
<1>15. CASE ReplaceMessages
  <2>1. PICK n \in 0..Len(Transcript) - 1 :
           /\ own' = IF running /\ own = loop THEN 3 - own ELSE own
           /\ lists' = [lists EXCEPT ![own'] = SubSeq(Transcript, 1, n)]
    BY <1>15 DEF ReplaceMessages
  <2>2. Transcript = lists[own] /\ n \in 0..Len(Transcript)
    <3>1. Len(lists[own]) \in Nat
      BY <1>1, LenProperties
    <3> QED
      BY <3>1 DEF Transcript
  <2>3. AnsweredOnce(SubSeq(Transcript, 1, n))
    BY <1>1, <2>2, OncePrefix
  <2>4. UNCHANGED <<loop, at, running, reply, todo, context>>
    BY <1>15 DEF ReplaceMessages, runVars
  <2>5. own' \in {1, 2}
    BY <1>1, <2>1
  <2>6. \A k \in {1, 2} : AnsweredOnce(lists'[k])
    BY <2>1, <2>3, <2>5, OnceListStep
  <2>7. running => RunList' = RunList
    BY <1>1, <2>1, <2>4, <2>5 DEF RunList
  <2>8. ~running => at = "idle"
    BY DEF AnswerInv, TypeOK
  <2> QED
    BY <2>4, <2>6, <2>7, <2>8 DEF OnceInv
<1> QED
  BY <1>4, <1>5, <1>6, <1>7, <1>8, <1>9, <1>10, <1>11, <1>12, <1>13, <1>14,
     <1>15 DEF Next, RunStep, Environment

-----------------------------------------------------------------------------
(***************************************************************************)
(* What a run records.                                                     *)
(***************************************************************************)
\* A number above all others comes last.
LEMMA AscendingLast ==
    ASSUME NEW K, NEW x \in Nat, K \subseteq Nat, IsFiniteSet(K),
           \A y \in K : y < x
    PROVE  /\ Cardinality(K) \in Nat
           /\ Cardinality(K \cup {x}) = Cardinality(K) + 1
           /\ \A k \in 1..Cardinality(K) :
                 Ascending(K \cup {x})[k] = Ascending(K)[k]
           /\ Ascending(K \cup {x})[Cardinality(K) + 1] = x
<1> DEFINE L == K \cup {x}
           n == Cardinality(K)
<1>1. x \notin K
  OBVIOUS
<1>2. IsFiniteSet(L) /\ Cardinality(L) = n + 1 /\ n \in Nat /\ L \subseteq Nat
  BY <1>1, FS_AddElement, FS_CardinalityType
<1>3. /\ Ascending(L) \in [1..n + 1 -> L]
      /\ \A y \in L : \E k \in 1..n + 1 : Ascending(L)[k] = y
      /\ \A k \in 1..n + 1 : Cardinality({y \in L : y <= Ascending(L)[k]}) = k
  <2> HIDE DEF L, n
  <2> QED
    BY <1>2, AscendingProperties
<1>4. /\ Ascending(K) \in [1..n -> K]
      /\ \A k \in 1..n : Cardinality({y \in K : y <= Ascending(K)[k]}) = k
  BY AscendingProperties
<1>5. ASSUME NEW y \in L
      PROVE  /\ Cardinality({z \in L : z <= y}) \in 1..n + 1
             /\ Ascending(L)[Cardinality({z \in L : z <= y})] = y
  <2>1. PICK k \in 1..n + 1 : Ascending(L)[k] = y
    BY <1>3
  <2> QED
    BY <1>3, <2>1
<1>6. ASSUME NEW k \in 1..n
      PROVE  Ascending(L)[k] = Ascending(K)[k]
  <2> DEFINE y == Ascending(K)[k]
  <2>1. y \in K /\ y \in L
    BY <1>4
  <2>2. {z \in L : z <= y} = {z \in K : z <= y}
    <3>1. ~(x <= y)
      <4>1. y \in Nat /\ y < x
        BY <2>1
      <4> HIDE DEF y
      <4> QED
        BY <4>1
    <3> QED
      BY <3>1
  <2>3. Cardinality({z \in L : z <= y}) = k
    BY <1>4, <2>2
  <2> QED
    BY <1>5, <2>1, <2>3
<1>7. Ascending(L)[n + 1] = x
  <2>1. \A z \in L : z <= x
    OBVIOUS
  <2>2. {z \in L : z <= x} = L
    BY <2>1
  <2>3. Cardinality({z \in L : z <= x}) = n + 1
    BY <1>2, <2>2
  <2>4. x \in L
    OBVIOUS
  <2> QED
    BY <1>5, <2>3, <2>4
<1> QED
  BY <1>2, <1>6, <1>7

LEMMA RecordedAppend ==
    ASSUME NEW s \in Seq(Message), NEW m \in Message
    PROVE  /\ Recorded(s) \in Seq(Message)
           /\ ByRun(m) => Recorded(Append(s, m)) = Append(Recorded(s), m)
           /\ ~ByRun(m) => Recorded(Append(s, m)) = Recorded(s)
<1> DEFINE u == Append(s, m)
           K == {i \in DOMAIN s : ByRun(s[i])}
           L == {i \in DOMAIN u : ByRun(u[i])}
           n == Len(s)
           c == Cardinality(K)
           p == Picked(s, K)
           q == Picked(u, L)
<1>1. /\ n \in Nat /\ DOMAIN s = 1..n
      /\ u \in Seq(Message) /\ DOMAIN u = 1..n + 1
      /\ \A i \in 1..n : u[i] = s[i]
      /\ u[n + 1] = m
  BY AppendProperties, LenProperties
<1>2. K \in SUBSET (DOMAIN s) /\ L \in SUBSET (DOMAIN u)
  OBVIOUS
<1>3. L = IF ByRun(m) THEN K \cup {n + 1} ELSE K
  <2> HIDE DEF u, n
  <2>1. \A i \in 1..n + 1 : i \in 1..n \/ i = n + 1
    BY <1>1
  <2>2. n + 1 \in 1..n + 1 /\ \A i \in 1..n : i \in 1..n + 1
    BY <1>1
  <2> QED
    BY <1>1, <2>1, <2>2
<1>4. Recorded(s) = p /\ Recorded(u) = q
  BY DEF Recorded
<1> HIDE DEF u, K, L, n
<1>5. /\ c \in Nat /\ p \in Seq(Message) /\ Len(p) = c
      /\ Ascending(K) \in [1..c -> K]
      /\ \A k \in 1..c : p[k] = s[Ascending(K)[k]]
  BY <1>2, PickedPlaces
<1>6. /\ Cardinality(L) \in Nat /\ q \in Seq(Message) /\ Len(q) = Cardinality(L)
      /\ \A k \in 1..Cardinality(L) : q[k] = u[Ascending(L)[k]]
  BY <1>1, <1>2, PickedPlaces
<1>7. \A k \in 1..c : Ascending(K)[k] \in 1..n
  BY <1>1, <1>2, <1>5
<1> HIDE DEF p, q, c
<1>8. CASE ~ByRun(m)
  <2>1. L = K
    BY <1>3, <1>8
  <2>2. Len(q) = Len(p) /\ \A k \in 1..Len(q) : q[k] = p[k]
    <3>1. Cardinality(L) = c
      BY <2>1 DEF c
    <3>2. \A k \in 1..c : q[k] = u[Ascending(K)[k]]
      BY <1>6, <2>1, <3>1
    <3> QED
      BY <1>1, <1>5, <1>6, <1>7, <3>1, <3>2
  <2>3. q = p
    BY <1>5, <1>6, <2>2, SeqEqual
  <2> QED
    BY <1>4, <1>5, <1>8, <2>3 DEF u
<1>9. CASE ByRun(m)
  <2>1. L = K \cup {n + 1}
    BY <1>3, <1>9
  <2>2. /\ K \subseteq Nat /\ IsFiniteSet(K) /\ n + 1 \in Nat
        /\ \A y \in K : y < n + 1
    <3>1. K \subseteq Nat /\ IsFiniteSet(K)
      BY <1>2, PlacesFinite
    <3> QED
      BY <1>1, <1>2, <3>1
  <2>3. /\ Cardinality(L) = c + 1
        /\ \A k \in 1..c : Ascending(L)[k] = Ascending(K)[k]
        /\ Ascending(L)[c + 1] = n + 1
    BY <2>1, <2>2, AscendingLast DEF c
  <2> DEFINE r == Append(p, m)
  <2>4. /\ r \in Seq(Message) /\ Len(r) = c + 1
        /\ \A k \in 1..c : r[k] = p[k]
        /\ r[c + 1] = m
    BY <1>5, AppendProperties
  <2> HIDE DEF r
  <2>5. \A k \in 1..c : q[k] = r[k]
    <3> TAKE k \in 1..c
    <3>1. k \in 1..Cardinality(L)
      BY <1>5, <2>3
    <3>2. q[k] = u[Ascending(K)[k]]
      BY <1>6, <2>3, <3>1
    <3>3. u[Ascending(K)[k]] = s[Ascending(K)[k]]
      BY <1>1, <1>7
    <3> QED
      BY <1>5, <2>4, <3>2, <3>3
  <2>6. q[c + 1] = r[c + 1]
    <3>1. c + 1 \in 1..Cardinality(L)
      BY <1>5, <2>3
    <3> QED
      BY <1>1, <1>6, <2>3, <2>4, <3>1
  <2>7. Len(q) = Len(r) /\ \A k \in 1..Len(q) : q[k] = r[k]
    <3>1. \A k \in 1..c + 1 : k \in 1..c \/ k = c + 1
      BY <1>5
    <3> QED
      BY <1>6, <2>3, <2>4, <2>5, <2>6, <3>1
  <2>8. q = r
    BY <1>6, <2>4, <2>7, SeqEqual
  <2> QED
    BY <1>4, <1>5, <1>9, <2>8 DEF u, r
<1> QED
  BY <1>8, <1>9

LEMMA ReverseProperties ==
    ASSUME NEW s \in Seq(Message)
    PROVE  /\ Reverse(s) \in Seq(Message) /\ Len(Reverse(s)) = Len(s)
           /\ \A i \in 1..Len(s) : Reverse(s)[i] = s[(Len(s) - i) + 1]
<1> DEFINE r == Reverse(s)
           n == Len(s)
<1>1. n \in Nat /\ \A i \in 1..n : s[i] \in Message
  BY LenProperties, ElementOfSeq
<1>2. r = [i \in 1..n |-> s[(n - i) + 1]]
  BY DEF Reverse
<1> HIDE DEF r, n
<1>3. \A i \in 1..n : (n - i) + 1 \in 1..n
  BY <1>1
<1>4. r \in [1..n -> Message]
  BY <1>1, <1>2, <1>3
<1>5. r \in Seq(Message)
  BY <1>1, <1>4, SeqDef
<1>6. Len(r) = n
  <2>1. DOMAIN r = 1..Len(r) /\ Len(r) \in Nat
    BY <1>5, LenProperties
  <2>2. r \in [1..n -> Message] /\ n \in Nat
    BY <1>1, <1>4
  <2> HIDE DEF r, n
  <2>3. \A l \in Nat : 1..l = 1..n => l = n
    BY <2>2
  <2>4. 1..Len(r) = 1..n
    BY <2>1, <2>2
  <2> QED
    BY <2>1, <2>3, <2>4
<1> QED
  BY <1>2, <1>5, <1>6 DEF r, n

LEMMA SuffixMeaning ==
    ASSUME NEW s \in Seq(Message), NEW t \in Seq(Message)
    PROVE  IsSuffix(s, t) <=>
              /\ Len(s) <= Len(t)
              /\ \A i \in 1..Len(s) : s[i] = t[(Len(t) - Len(s)) + i]
<1> DEFINE a == Reverse(s)
           b == Reverse(t)
           m == Len(s)
           n == Len(t)
           c == SubSeq(b, 1, m)
<1>1. /\ m \in Nat /\ n \in Nat
      /\ a \in Seq(Message) /\ Len(a) = m
      /\ \A i \in 1..m : a[i] = s[(m - i) + 1]
      /\ b \in Seq(Message) /\ Len(b) = n
      /\ \A i \in 1..n : b[i] = t[(n - i) + 1]
  BY ReverseProperties, LenProperties
<1>2. SubSeq(a, 1, m) = a
  <2> HIDE DEF a, m
  <2> QED
    BY <1>1, SubSeqFull
<1>3. IsSuffix(s, t) <=> m <= n /\ a = c
  BY <1>1, <1>2 DEF IsSuffix, IsPrefix
<1> HIDE DEF a, b, m, n
<1>4. ASSUME m <= n
      PROVE  /\ c \in Seq(Message) /\ Len(c) = m
             /\ \A i \in 1..m : c[i] = t[(n - i) + 1]
  <2>1. \A i \in 1..m : i \in 1..n /\ b[i] \in Message
    BY <1>1, <1>4, ElementOfSeq
  <2>2. /\ c \in Seq(Message) /\ Len(c) = IF 1 <= m THEN m - 1 + 1 ELSE 0
        /\ \A i \in 1..m - 1 + 1 : c[i] = b[1 + i - 1]
    BY <1>1, <2>1, SubSeqProperties
  <2>3. Len(c) = m
    BY <1>1, <2>2
  <2>4. ASSUME NEW i \in 1..m PROVE c[i] = t[(n - i) + 1]
    <3>1. i \in 1..m - 1 + 1 /\ 1 + i - 1 = i
      BY <1>1
    <3> QED
      BY <1>1, <2>1, <2>2, <3>1
  <2> QED
    BY <2>2, <2>3, <2>4
<1> HIDE DEF c
<1>5. ASSUME m <= n, a = c, NEW i \in 1..m
      PROVE  s[i] = t[(n - m) + i]
  <2> DEFINE j == (m - i) + 1
  <2>1. j \in 1..m /\ (m - j) + 1 = i /\ (n - j) + 1 = (n - m) + i
    BY <1>1
  <2> HIDE DEF j
  <2>2. a[j] = s[(m - j) + 1] /\ c[j] = t[(n - j) + 1]
    BY <1>1, <1>4, <1>5, <2>1
  <2> QED
    BY <1>5, <2>1, <2>2
<1>6. ASSUME m <= n, \A i \in 1..m : s[i] = t[(n - m) + i]
      PROVE  a = c
  <2>1. ASSUME NEW j \in 1..m PROVE a[j] = c[j]
    <3> DEFINE i == (m - j) + 1
    <3>1. i \in 1..m /\ (n - m) + i = (n - j) + 1
      BY <1>1
    <3>2. a[j] = s[i]
      BY <1>1
    <3> HIDE DEF i
    <3>3. s[i] = t[(n - m) + i]
      BY <1>6, <3>1
    <3> QED
      BY <1>4, <1>6, <3>1, <3>2, <3>3
  <2> QED
    BY <1>1, <1>4, <1>6, <2>1, SeqEqual
<1> QED
  BY <1>3, <1>5, <1>6 DEF m, n

LEMMA SuffixGrows ==
    ASSUME NEW s \in Seq(Message), NEW t \in Seq(Message), NEW m \in Message,
           IsSuffix(s, t)
    PROVE  IsSuffix(Append(s, m), Append(t, m))
<1> DEFINE u == Append(s, m)
           v == Append(t, m)
           k == Len(s)
           n == Len(t)
<1>1. /\ k \in Nat /\ n \in Nat
      /\ u \in Seq(Message) /\ Len(u) = k + 1
      /\ \A i \in 1..k : u[i] = s[i]
      /\ u[k + 1] = m
      /\ v \in Seq(Message) /\ Len(v) = n + 1
      /\ \A i \in 1..n : v[i] = t[i]
      /\ v[n + 1] = m
  BY AppendProperties, LenProperties
<1>2. k <= n /\ \A i \in 1..k : s[i] = t[(n - k) + i]
  BY SuffixMeaning
<1> HIDE DEF u, v, k, n
<1>3. ASSUME NEW i \in 1..k + 1
      PROVE  u[i] = v[((n + 1) - (k + 1)) + i]
  <2>1. CASE i \in 1..k
    <3>1. ((n + 1) - (k + 1)) + i = (n - k) + i /\ (n - k) + i \in 1..n
      BY <1>1, <1>2, <2>1
    <3> QED
      BY <1>1, <1>2, <2>1, <3>1
  <2>2. CASE i = k + 1
    <3>1. ((n + 1) - (k + 1)) + i = n + 1
      BY <1>1, <2>2
    <3> QED
      BY <1>1, <2>2, <3>1
  <2> QED
    BY <1>1, <2>1, <2>2
<1>4. k + 1 <= n + 1
  BY <1>1, <1>2
<1> QED
  BY <1>1, <1>3, <1>4, SuffixMeaning DEF u, v

LEMMA SuffixEmpty ==
    ASSUME NEW t \in Seq(Message)
    PROVE  IsSuffix(<<>>, t)
<1>1. <<>> \in Seq(Message) /\ Len(<<>>) = 0 /\ Len(t) \in Nat
  BY EmptySeq, LenProperties
<1>2. /\ Len(<<>>) <= Len(t)
      /\ \A i \in 1..Len(<<>>) : <<>>[i] = t[(Len(t) - Len(<<>>)) + i]
  <2>1. 1..Len(<<>>) = {}
    BY <1>1
  <2> QED
    BY <1>1, <2>1
<1> DEFINE e == <<>>
<1> HIDE DEF e
<1>3. e \in Seq(Message) => IsSuffix(e, t) <=>
         /\ Len(e) <= Len(t)
         /\ \A i \in 1..Len(e) : e[i] = t[(Len(t) - Len(e)) + i]
  BY SuffixMeaning
<1> QED
  BY <1>1, <1>2, <1>3 DEF e

-----------------------------------------------------------------------------
(***************************************************************************)
(* Every step keeps the record.                                            *)
(***************************************************************************)
LEMMA RecordKeeps ==
    ASSUME TypeOK, NEW m \in Message, ByRun(m), Record(m), UNCHANGED loop,
           IsSuffix(newMessages, Recorded(RunList))
    PROVE  IsSuffix(newMessages', Recorded(RunList'))
<1>1. /\ newMessages \in Seq(Message) /\ RunList \in Seq(Message)
      /\ RunList' = Append(RunList, m) /\ newMessages' = Append(newMessages, m)
  BY DEF TypeOK, Record, RunList
<1>2. /\ Recorded(RunList) \in Seq(Message)
      /\ Recorded(Append(RunList, m)) = Append(Recorded(RunList), m)
  BY <1>1, RecordedAppend
<1>3. IsSuffix(Append(newMessages, m), Append(Recorded(RunList), m))
  BY <1>1, <1>2, SuffixGrows
<1> QED
  BY <1>1, <1>2, <1>3

LEMMA RecordProceed ==
    ASSUME TypeOK, NEW batch \in Seq(UserMsg), Proceed(batch), UNCHANGED loop,
           Vias(batch) \subseteq {"steer", "follow_up"},
           IsSuffix(newMessages, Recorded(RunList))
    PROVE  IsSuffix(newMessages', Recorded(RunList'))
<1>1. CASE batch # <<>> /\ Record(Head(batch))
  <2>1. Head(batch) \in UserMsg /\ 1 \in DOMAIN batch /\ Head(batch) = batch[1]
    BY <1>1, HeadTailProperties, EmptySeq, LenProperties
  <2>2. Head(batch) \in Message /\ Head(batch).via \in {"steer", "follow_up"}
    BY <2>1, MessageTypes DEF Vias
  <2>3. ByRun(Head(batch))
    BY <2>2 DEF ByRun
  <2> QED
    BY <1>1, <2>2, <2>3, RecordKeeps
<1>2. CASE Record(ErrorMessage)
  <2>1. ErrorMessage \in Message /\ ByRun(ErrorMessage)
    BY MessageTypes DEF ErrorMessage, Assistant, ByRun
  <2> QED
    BY <1>2, <2>1, RecordKeeps
<1>3. CASE UNCHANGED <<lists, newMessages>>
  BY <1>3 DEF RunList
<1> QED
  BY <1>1, <1>2, <1>3 DEF Proceed

LEMMA RecordStep ==
    ASSUME AnswerInv, QueueInv, RunRecord, Next
    PROVE  RunRecord'
<1>1. /\ TypeOK /\ own \in {1, 2} /\ loop \in {1, 2} /\ users \in Nat
      /\ lists \in [{1, 2} -> Seq(Message)]
      /\ RunList = lists[loop]
      /\ at # "idle" => IsSuffix(newMessages, Recorded(RunList))
      /\ at # "idle" => running
  BY DEF AnswerInv, TypeOK, RunRecord, RunList
<1>2. CASE Prompt \/ Continue
  <2> DEFINE r == Repaired(lists[own])
             m == User(users + 1, "prompt")
  <2>1. r \in Seq(Message)
    BY <1>1, ListsRepaired
  <2>2. Recorded(r) \in Seq(Message)
    <3>1. ErrorMessage \in Message
      BY MessageTypes
    <3> QED
      BY <2>1, <3>1, RecordedAppend
  <2>3. IsSuffix(<<>>, Recorded(r))
    BY <2>2, SuffixEmpty
  <2>4. CASE Continue
    <3>1. lists' = [lists EXCEPT ![own] = r \o <<>>] /\ loop' = own /\ newMessages' = <<>>
      BY <2>4 DEF Continue, StartRun
    <3>2. r \o <<>> = r
      BY <2>1, ConcatEmptySeq
    <3>3. RunList' = r
      BY <1>1, <3>1, <3>2 DEF RunList
    <3> QED
      BY <2>3, <3>1, <3>3 DEF RunRecord
  <2>5. CASE Prompt
    <3>1. /\ lists' = [lists EXCEPT ![own] = r \o <<m>>]
          /\ loop' = own /\ newMessages' = <<m>>
      BY <2>5 DEF Prompt, StartRun
    <3>2. m \in Message /\ ByRun(m)
      <4>1. users + 1 \in Nat
        BY <1>1
      <4>2. m \in UserMsg /\ m.via = "prompt"
        BY <4>1 DEF User, UserMsg
      <4> QED
        BY <4>2, MessageTypes DEF ByRun
    <3> HIDE DEF m, r
    <3>3. /\ r \o <<m>> = Append(r, m) /\ Append(<<>>, m) = <<m>>
          /\ <<>> \in Seq(Message)
      BY <2>1, <3>2, AppendIsConcat, EmptySeq
    <3>4. Recorded(Append(r, m)) = Append(Recorded(r), m)
      BY <2>1, <3>2, RecordedAppend
    <3>5. IsSuffix(Append(<<>>, m), Append(Recorded(r), m))
      BY <2>2, <2>3, <3>2, <3>3, SuffixGrows
    <3>6. RunList' = Append(r, m)
      BY <1>1, <3>1, <3>3 DEF RunList
    <3> QED
      BY <3>1, <3>3, <3>4, <3>5, <3>6 DEF RunRecord
  <2> QED
    BY <1>2, <2>4, <2>5
<1>3. CASE FirstTurn
  <2>1. loop' = loop /\ at = "opening"
    BY <1>3 DEF FirstTurn
  <2>2. steering \in Seq(UserMsg) /\ Vias(steering) \subseteq {"steer"}
    BY DEF QueueInv, QueueTypes
  <2>3. Drained(steering) \in Seq(UserMsg) /\ Vias(Drained(steering)) \subseteq {"steer"}
    <3>1. /\ Drained(steering) \in Seq(UserMsg)
          /\ Remaining(steering) \in Seq(UserMsg)
          /\ steering = Drained(steering) \o Remaining(steering)
      BY <2>2, DrainSplits
    <3>2. Vias(Drained(steering) \o Remaining(steering))
             = Vias(Drained(steering)) \cup Vias(Remaining(steering))
      BY <3>1, ConcatFields
    <3> QED
      BY <2>2, <3>1, <3>2
  <2>4. CASE Proceed(Drained(steering))
    BY <1>1, <2>1, <2>3, <2>4, RecordProceed DEF RunRecord
  <2>5. CASE Record(ErrorMessage)
    <3>1. ErrorMessage \in Message /\ ByRun(ErrorMessage)
      BY MessageTypes DEF ErrorMessage, Assistant, ByRun
    <3> QED
      BY <1>1, <2>1, <2>5, <3>1, RecordKeeps DEF RunRecord
  <2> QED
    BY <1>3, <2>4, <2>5 DEF FirstTurn
<1>4. CASE NextStep
  <2>1. loop' = loop /\ at # "idle" /\ Proceed(pending)
    BY <1>4 DEF NextStep
  <2>2. pending \in Seq(UserMsg) /\ Vias(pending) \subseteq {"steer", "follow_up"}
    BY DEF QueueInv, QueueTypes
  <2> QED
    BY <1>1, <2>1, <2>2, RecordProceed DEF RunRecord
<1>5. CASE RecordReply
  <2>1. loop' = loop /\ at = "answered" /\ Record(reply)
    BY <1>5 DEF RecordReply
  <2>2. reply \in Message /\ ByRun(reply)
    <3>1. reply \in AssistantMsg
      BY <1>1 DEF TypeOK
    <3> QED
      BY <3>1, MessageTypes DEF AssistantMsg, ByRun
  <2> QED
    BY <1>1, <2>1, <2>2, RecordKeeps DEF RunRecord
<1>6. CASE RecordResult
  <2>1. loop' = loop /\ at = "returned" /\ Record(Result(Head(todo)))
    BY <1>6 DEF RecordResult
  <2>2. todo # <<>> /\ todo \in Seq(CallId)
    BY <2>1 DEF AnswerInv, RunOwes, TypeOK
  <2>3. Head(todo) \in CallId
    BY <2>2, HeadTailProperties
  <2>4. Result(Head(todo)) \in Message /\ ByRun(Result(Head(todo)))
    BY <2>3, MessageTypes DEF Result, ByRun
  <2> QED
    BY <1>1, <2>1, <2>4, RecordKeeps DEF RunRecord
<1>7. CASE Respond \/ Refuse \/ Execute \/ Return \/ NextTurn
  <2>1. UNCHANGED <<lists, loop, newMessages>> /\ at # "idle"
    BY <1>7 DEF Respond, Refuse, Execute, Return, NextTurn, Move
  <2> QED
    BY <1>1, <2>1 DEF RunRecord, RunList
<1>8. CASE Finish \/ Unwind
  BY <1>8 DEF Finish, Unwind, Cleanup, RunRecord
<1>9. CASE \/ Cancel \/ Steer \/ FollowUp
           \/ PopLatestSteering \/ PopLatestFollowUp \/ ClearQueues
  <2>1. UNCHANGED <<lists, loop, at, newMessages>>
    BY <1>9 DEF Cancel, Steer, FollowUp, PopLatestSteering, PopLatestFollowUp,
                ClearQueues, runVars
  <2> QED
    BY <2>1 DEF RunRecord, RunList
<1>10. CASE AppendMessage
  <2> DEFINE m == User(users + 1, "append")
  <2>1. /\ lists' = [lists EXCEPT ![own] = Append(lists[own], m)]
        /\ UNCHANGED <<loop, at, newMessages>>
    BY <1>10 DEF AppendMessage, runVars
  <2>2. m \in Message /\ ~ByRun(m)
    <3>1. users + 1 \in Nat
      BY <1>1
    <3>2. m \in UserMsg /\ m.kind = "user" /\ m.via = "append"
      BY <3>1 DEF User, UserMsg
    <3> QED
      BY <3>2, MessageTypes DEF ByRun
  <2> HIDE DEF m
  <2>3. Recorded(RunList') = Recorded(RunList)
    <3>1. CASE own = loop
      <4>1. RunList' = Append(RunList, m) /\ RunList \in Seq(Message)
        BY <1>1, <2>1, <3>1 DEF RunList
      <4> QED
        BY <2>2, <4>1, RecordedAppend
    <3>2. CASE own # loop
      BY <1>1, <2>1, <3>2 DEF RunList
    <3> QED
      BY <3>1, <3>2
  <2> QED
    BY <1>1, <2>1, <2>3 DEF RunRecord
<1>11. CASE ReplaceMessages
  <2>1. PICK n \in 0..Len(Transcript) - 1 :
           /\ own' = IF running /\ own = loop THEN 3 - own ELSE own
           /\ lists' = [lists EXCEPT ![own'] = SubSeq(Transcript, 1, n)]
    BY <1>11 DEF ReplaceMessages
  <2>2. UNCHANGED <<loop, at, running, newMessages>> /\ own' \in {1, 2}
    BY <1>1, <1>11, <2>1 DEF ReplaceMessages, runVars
  <2>3. running => RunList' = RunList
    BY <1>1, <2>1, <2>2 DEF RunList
  <2> QED
    BY <1>1, <2>2, <2>3 DEF RunRecord
<1> QED
  BY <1>2, <1>3, <1>4, <1>5, <1>6, <1>7, <1>8, <1>9, <1>10, <1>11
     DEF Next, RunStep, Environment

-----------------------------------------------------------------------------
(***************************************************************************)
(* The theorems.                                                           *)
(***************************************************************************)
\* The invariant that the others follow from: what every list and the
\* suspended run hold, and where queued messages are (HarnessInv).
THEOREM HarnessInvariance ==
    ASSUME CallIds = "fresh"
    PROVE  Spec => []HarnessInv
<1>1. Init => OnceInv
  BY OnceInit
<1>2. AnswerInv /\ OnceInv /\ [Next]_vars => OnceInv'
  <2>1. CASE AnswerInv /\ OnceInv /\ Next
    BY <2>1, HarnessAssumption, OnceStep
  <2>2. CASE OnceInv /\ UNCHANGED vars
    BY <2>2 DEF OnceInv, RunList, vars, runVars, queueVars, counters, history
  <2> QED
    BY <2>1, <2>2
<1>3. AnswerInv /\ OnceInv /\ QueueInv => HarnessInv
  BY DEF HarnessInv, QueueInv
<1> QED
  BY <1>1, <1>2, <1>3, AnswerInvariance, QueueInvariance, PTL DEF Spec

\* No request answers one tool call twice: a repair never answers a call that
\* the loop answered or will still answer (ContextAnsweredOnce).
THEOREM RequestsAnsweredOnce ==
    ASSUME CallIds = "fresh"
    PROVE  Spec => []ContextAnsweredOnce
<1>1. HarnessInv => ContextAnsweredOnce
  BY DEF HarnessInv, OnceInv, ContextAnsweredOnce
<1> QED
  BY <1>1, HarnessInvariance, PTL

\* AgentEndEvent reports all that the run added to its list, in list order,
\* whoever appended to the list or replaced the harness's own (RunRecord).
THEOREM RunsRecorded ==
    ASSUME CallIds = "fresh"
    PROVE  Spec => []RunRecord
<1>1. Init => RunRecord
  BY DEF Init, RunRecord
<1>2. AnswerInv /\ QueueInv /\ RunRecord /\ [Next]_vars => RunRecord'
  <2>1. CASE AnswerInv /\ QueueInv /\ RunRecord /\ Next
    BY <2>1, RecordStep
  <2>2. CASE RunRecord /\ UNCHANGED vars
    BY <2>2 DEF RunRecord, RunList, vars, runVars, queueVars, counters, history
  <2> QED
    BY <2>1, <2>2
<1> QED
  BY <1>1, <1>2, AnswerInvariance, QueueInvariance, PTL DEF Spec
=============================================================================
