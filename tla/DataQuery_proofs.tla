------------------------- MODULE DataQuery_proofs ---------------------------
(***************************************************************************)
(* The data-query workflow, for any number of runs, bundles, plans and     *)
(* questions: a plan that can be executed rests on evidence of its own     *)
(* run, a run asks the planner at most as often as it may, and asks again  *)
(* only after the database rejected a plan of its latest answer.           *)
(***************************************************************************)
EXTENDS DataQuery, FiniteSetTheorems, TLAPS

USE DataQueryAssumption

\* PlansGrounded and AttemptsBounded follow from the rest of the invariant.
Core ==
    /\ TypeOK /\ LedgerOwn /\ ToolOwn /\ PlannerOwn
    /\ \A p \in plans : Grounded(p)

LEMMA CoreSuffices == Core => TypeOK /\ QueryInv
<1> SUFFICES ASSUME Core PROVE TypeOK /\ QueryInv
  OBVIOUS
<1>1. \A r \in reads : issued[r[1]] = run
  BY DEF Core, LedgerOwn
<1>2. \A p : Grounded(p) =>
          /\ p.run = run
          /\ p.bundle = 0 => p.evidence = {}
          /\ p.bundle # 0 =>
                /\ issued[p.bundle] = run
                /\ p.evidence \subseteq bundles[p.bundle]
                /\ p.template # None =>
                      \E r \in reads : r[2] = p.template /\ issued[r[1]] = run
  BY <1>1 DEF Core, LedgerOwn, Grounded
<1>3. PlansGrounded
  BY <1>2 DEF Core, ToolOwn, PlansGrounded
<1>4. AttemptsBounded
  <2> SUFFICES ASSUME mode = "agent" PROVE Answers <= Attempts
    BY DEF AttemptsBounded, Answers
  <2>1. planner # None => planner.attempt \in 1 .. Attempts
    BY DEF Core, TypeOK, Conversations
  <2> QED
    BY <2>1 DEF Core, PlannerOwn
<1> QED
  BY <1>3, <1>4 DEF Core, QueryInv
-----------------------------------------------------------------------------
(* Bundles.                                                                *)

\* The bundles issued so far, and those of this run.
LEMMA BundlesFinite ==
    ASSUME Core
    PROVE  /\ IsFiniteSet(DOMAIN issued) /\ Cardinality(DOMAIN issued) \in Nat
           /\ IsFiniteSet({b \in DOMAIN issued : issued[b] = run})
           /\ Answers \in Nat
<1>1. DOMAIN issued \subseteq 1 .. MaxBundles
  BY DEF Core, LedgerOwn, BundleIds
<1>2. IsFiniteSet(1 .. MaxBundles)
  BY FS_Interval
<1>3. IsFiniteSet(DOMAIN issued)
  BY <1>1, <1>2, FS_Subset
<1>4. IsFiniteSet({b \in DOMAIN issued : issued[b] = run})
  BY <1>3, FS_Subset
<1> QED
  BY <1>3, <1>4, FS_CardinalityType DEF Answers

\* The ledger after a bundle was registered: the new bundle is the next number,
\* and what the ledger held before is unchanged.
LEMMA RegisterAdds ==
    ASSUME Core, NextBundle \in BundleIds, NEW S \in SUBSET Items, Register(NextBundle, S)
    PROVE  /\ NextBundle \notin DOMAIN issued
           /\ run' = run
           /\ DOMAIN issued' = DOMAIN issued \cup {NextBundle}
           /\ DOMAIN issued' \subseteq BundleIds
           /\ DOMAIN issued' = 1 .. Cardinality(DOMAIN issued')
           /\ issued'[NextBundle] = run
           /\ \A b \in DOMAIN issued : issued'[b] = issued[b]
           /\ DOMAIN bundles' = DOMAIN bundles \cup {NextBundle}
           /\ bundles'[NextBundle] = Named(NextBundle, S)
           /\ \A b \in DOMAIN bundles : bundles'[b] = bundles[b]
           /\ DOMAIN found' = DOMAIN found \cup Named(NextBundle, S)
           /\ \A e \in DOMAIN found' : found'[e] \in DOMAIN bundles'
           /\ Answers' = Answers + 1
<1> DEFINE b == NextBundle
           n == Cardinality(DOMAIN issued)
<1>1. n \in Nat /\ IsFiniteSet(DOMAIN issued) /\ b = n + 1
  BY BundlesFinite DEF NextBundle
<1>2. DOMAIN issued = 1 .. n /\ DOMAIN issued \subseteq BundleIds
  BY DEF Core, LedgerOwn
<1>3. b \notin DOMAIN issued /\ b \notin DOMAIN bundles
  BY <1>1, <1>2 DEF Core, LedgerOwn
<1>4. /\ bundles' = [x \in DOMAIN bundles \cup {b} |-> IF x = b THEN Named(b, S) ELSE bundles[x]]
      /\ found' = [e \in DOMAIN found \cup Named(b, S) |-> IF e \in Named(b, S) THEN b ELSE found[e]]
      /\ issued' = [x \in DOMAIN issued \cup {b} |-> IF x = b THEN run ELSE issued[x]]
      /\ run' = run
  BY DEF Register
<1> HIDE DEF b, n
<1>5. /\ DOMAIN issued' = DOMAIN issued \cup {b} /\ issued'[b] = run
      /\ \A x \in DOMAIN issued : issued'[x] = issued[x]
  BY <1>3, <1>4
<1>6. /\ DOMAIN bundles' = DOMAIN bundles \cup {b} /\ bundles'[b] = Named(b, S)
      /\ \A x \in DOMAIN bundles : bundles'[x] = bundles[x]
  BY <1>3, <1>4
<1>7. /\ DOMAIN found' = DOMAIN found \cup Named(b, S)
      /\ \A e \in DOMAIN found' : found'[e] \in DOMAIN bundles'
  BY <1>4, <1>6 DEF Core, LedgerOwn
<1>8. Cardinality(DOMAIN issued') = n + 1
  BY <1>1, <1>3, <1>5, FS_AddElement DEF n
<1>9. DOMAIN issued' = 1 .. n + 1
  BY <1>1, <1>2, <1>5
<1>10. Answers' = Answers + 1
  <2> DEFINE own == {x \in DOMAIN issued : issued[x] = run}
  <2>1. {x \in DOMAIN issued' : issued'[x] = run'} = own \cup {b}
    BY <1>3, <1>4, <1>5
  <2>2. IsFiniteSet(own) /\ b \notin own
    BY <1>3, BundlesFinite
  <2>3. Cardinality(own \cup {b}) = Cardinality(own) + 1
    <3> HIDE DEF own
    <3> QED
      BY <2>2, FS_AddElement
  <2> QED
    BY <2>1, <2>3 DEF Answers
<1> QED
  BY <1>2, <1>3, <1>4, <1>5, <1>6, <1>7, <1>8, <1>9, <1>10 DEF b

\* A plan that is grounded stays so when a bundle is registered.
LEMMA RegisterKeepsGrounded ==
    ASSUME Core, NextBundle \in BundleIds, NEW S \in SUBSET Items, Register(NextBundle, S),
           reads' = reads, NEW p, Grounded(p)
    PROVE  Grounded(p)'
  BY RegisterAdds DEF Grounded
-----------------------------------------------------------------------------
(* Tools.                                                                  *)

LEMMA ToolKinds ==
    ASSUME tool \in Tools
    PROVE  /\ tool.at = "idle" => tool = Idle
           /\ tool.at = "planning" => tool.question \in Questions /\ tool.attempt \in 1 .. Attempts
           /\ tool.at = "reading" =>
                 /\ tool.bundle \in BundleIds /\ tool.evidence \in Evidence
                 /\ tool.used \in 0 .. BundleBytes
           /\ tool.at \in {"confirming", "executing"} =>
                 tool = [at |-> tool.at, plan |-> tool.plan] /\ tool.plan \in Plan
  BY DEF Tools, Idle

\* A step that lets the tool go and changes nothing else.
LEMMA IdleKeepsCore ==
    ASSUME Core, tool' = Idle,
           UNCHANGED <<mode, ledgerVars, readVars, plans, planner, rejected>>,
           active' \in BOOLEAN
    PROVE  Core'
<1>1. UNCHANGED <<mode, run, bundles, found, issued, spent, reads, plans, planner, rejected>>
  BY DEF ledgerVars, readVars
<1>2. TypeOK'
  BY <1>1 DEF Core, TypeOK, Tools
<1>3. LedgerOwn'
  BY <1>1 DEF Core, LedgerOwn
<1>4. ToolOwn'
  BY DEF ToolOwn, Idle
<1>5. Answers' = Answers
  BY <1>1 DEF Answers
<1>6. PlannerOwn'
  BY <1>1, <1>5 DEF Core, PlannerOwn, Idle
<1>7. (\A p \in plans : Grounded(p))'
  BY <1>1 DEF Core, Grounded
<1> QED
  BY <1>2, <1>3, <1>4, <1>6, <1>7 DEF Core

\* A step that only hands the tool on.
LEMMA ToolKeepsCore ==
    ASSUME Core, tool' \in Tools,
           UNCHANGED <<mode, active, ledgerVars, readVars, plans, planner, rejected>>,
           active,
           tool'.at = "searching" => mode = "legacy",
           tool'.at = "planning" => mode = "agent" /\ tool'.attempt = Answers + 1
               /\ (planner # None => planner.latest \in rejected),
           tool'.at = "reading" => tool'.bundle \in DOMAIN bundles /\ tool'.used < BundleBytes,
           tool'.at \in {"confirming", "executing"} => Grounded(tool'.plan)
    PROVE  Core'
<1>1. UNCHANGED <<mode, active, run, bundles, found, issued, spent, reads, plans, planner, rejected>>
  BY DEF ledgerVars, readVars
<1>2. TypeOK'
  BY <1>1 DEF Core, TypeOK
<1>3. LedgerOwn'
  BY <1>1 DEF Core, LedgerOwn
<1>4. \A p : Grounded(p) => Grounded(p)'
  BY <1>1 DEF Grounded
<1>5. ToolOwn'
  BY <1>1, <1>4 DEF ToolOwn
<1>6. Answers' = Answers
  BY <1>1 DEF Answers
<1>7. PlannerOwn'
  BY <1>1, <1>6 DEF Core, PlannerOwn
<1>8. (\A p \in plans : Grounded(p))'
  BY <1>1, <1>4 DEF Core
<1> QED
  BY <1>2, <1>3, <1>5, <1>7, <1>8 DEF Core
-----------------------------------------------------------------------------
(* The steps.                                                              *)

LEMMA StartCore == Init => Core
<1> SUFFICES ASSUME Init PROVE Core
  OBVIOUS
<1>1. /\ mode \in {"legacy", "agent"} /\ run = 0 /\ active = FALSE
      /\ bundles = <<>> /\ found = <<>> /\ issued = <<>>
      /\ plans = {} /\ spent = <<>> /\ reads = {}
      /\ planner = None /\ tool = Idle /\ rejected = {}
  BY DEF Init
<1>2. DOMAIN bundles = {} /\ DOMAIN found = {} /\ DOMAIN issued = {} /\ DOMAIN spent = {}
  BY <1>1
<1>3. TypeOK
  <2>1. /\ run \in 0 .. MaxRuns /\ active \in BOOLEAN /\ plans = {} /\ reads = {} /\ rejected = {}
        /\ planner = None /\ tool \in Tools
    <3>1. run \in 0 .. MaxRuns
      BY <1>1
    <3>2. active \in BOOLEAN
      BY <1>1
    <3>3. tool \in Tools
      BY <1>1 DEF Tools
    <3> QED
      BY <1>1, <3>1, <3>2, <3>3
  <2> QED
    BY ONLY <1>2, <2>1 DEF TypeOK
<1>4. LedgerOwn
  <2>1. Cardinality(DOMAIN issued) = 0
    BY <1>2, FS_EmptySet
  <2>2. DOMAIN issued = 1 .. Cardinality(DOMAIN issued)
    BY <1>2, <2>1
  <2> QED
    BY <1>1, <1>2, <2>2 DEF LedgerOwn
<1>5. ToolOwn
  BY <1>1 DEF ToolOwn, Idle
<1>6. PlannerOwn
  <2>1. {b \in DOMAIN issued : issued[b] = run} = {}
    BY <1>2
  <2>2. Answers = 0
    BY <2>1, FS_EmptySet DEF Answers
  <2> QED
    BY <1>1, <2>2 DEF PlannerOwn, Idle
<1> QED
  BY <1>1, <1>3, <1>4, <1>5, <1>6 DEF Core

LEMMA RunStartKeepsCore == ASSUME Core, RunStart PROVE Core'
<1>1. /\ ~active /\ run < MaxRuns
      /\ active' = TRUE /\ run' = run + 1
      /\ bundles' = <<>> /\ found' = <<>>
      /\ plans' = {} /\ spent' = <<>> /\ reads' = {} /\ planner' = None
      /\ rejected' = {}
      /\ UNCHANGED <<mode, tool, issued>>
  BY DEF RunStart, ResetLedger
<1>2. DOMAIN bundles' = {} /\ DOMAIN found' = {} /\ DOMAIN spent' = {}
  BY <1>1
<1>3. tool = Idle
  BY <1>1 DEF Core, ToolOwn
<1>4. run \in 0 .. MaxRuns /\ run' \in 0 .. MaxRuns
  BY <1>1 DEF Core, TypeOK
<1>5. TypeOK'
  BY <1>1, <1>2, <1>4 DEF Core, TypeOK
<1>6. LedgerOwn'
  BY <1>1, <1>2, <1>4 DEF Core, LedgerOwn
<1>7. ToolOwn'
  BY <1>1, <1>3 DEF ToolOwn, Idle
<1>8. PlannerOwn'
  <2>1. {b \in DOMAIN issued' : issued'[b] = run'} = {}
    BY <1>1, <1>4 DEF Core, LedgerOwn
  <2>2. Answers' = 0
    BY <2>1, FS_EmptySet DEF Answers
  <2> QED
    BY <1>1, <1>3, <2>2 DEF PlannerOwn, Idle
<1> QED
  BY <1>1, <1>5, <1>6, <1>7, <1>8 DEF Core

LEMMA RunEndKeepsCore == ASSUME Core, RunEnd PROVE Core'
<1>1. /\ active' = FALSE /\ plans' = {} /\ tool = Idle
      /\ UNCHANGED <<mode, run, bundles, found, issued, spent, reads, planner, tool, rejected>>
  BY DEF RunEnd, ledgerVars, readVars
<1>2. TypeOK'
  BY <1>1 DEF Core, TypeOK
<1>3. LedgerOwn'
  BY <1>1 DEF Core, LedgerOwn
<1>4. ToolOwn'
  BY <1>1 DEF ToolOwn, Idle
<1>5. Answers' = Answers
  BY <1>1 DEF Answers
<1>6. PlannerOwn'
  BY <1>1, <1>5 DEF Core, PlannerOwn
<1> QED
  BY <1>1, <1>2, <1>3, <1>4, <1>6 DEF Core

\* What a registration leaves to show: the types of what it adds.
LEMMA RegisterKeepsLedger ==
    ASSUME Core, NextBundle \in BundleIds, NEW S \in SUBSET Items, Register(NextBundle, S),
           UNCHANGED <<spent, reads, mode>>
    PROVE  /\ LedgerOwn'
           /\ DOMAIN bundles' \subseteq BundleIds
           /\ \A b \in DOMAIN bundles' : bundles'[b] \subseteq Evidence
           /\ DOMAIN found' \subseteq Evidence
<1>1. /\ NextBundle \notin DOMAIN issued /\ run' = run
      /\ DOMAIN issued' = DOMAIN issued \cup {NextBundle}
      /\ DOMAIN issued' \subseteq BundleIds
      /\ DOMAIN issued' = 1 .. Cardinality(DOMAIN issued')
      /\ issued'[NextBundle] = run
      /\ \A b \in DOMAIN issued : issued'[b] = issued[b]
      /\ DOMAIN bundles' = DOMAIN bundles \cup {NextBundle}
      /\ bundles'[NextBundle] = Named(NextBundle, S)
      /\ \A b \in DOMAIN bundles : bundles'[b] = bundles[b]
      /\ DOMAIN found' = DOMAIN found \cup Named(NextBundle, S)
      /\ \A e \in DOMAIN found' : found'[e] \in DOMAIN bundles'
  BY RegisterAdds
<1>2. Named(NextBundle, S) \subseteq Evidence
  BY DEF Named, Evidence
<1>3. run \in 0 .. MaxRuns
  BY DEF Core, TypeOK
<1>4. LedgerOwn'
  <2>1. \A b \in DOMAIN issued' : issued'[b] \in 0 .. run'
    BY <1>1, <1>3 DEF Core, LedgerOwn
  <2>2. /\ DOMAIN bundles' \subseteq DOMAIN issued'
        /\ \A b \in DOMAIN bundles' : issued'[b] = run'
    BY <1>1 DEF Core, LedgerOwn
  <2>3. /\ DOMAIN spent' \subseteq DOMAIN bundles'
        /\ \A r \in reads' : r[1] \in DOMAIN bundles'
    BY <1>1 DEF Core, LedgerOwn
  <2> QED
    BY <1>1, <2>1, <2>2, <2>3 DEF LedgerOwn
<1> QED
  BY <1>1, <1>2, <1>4 DEF Core, TypeOK

LEMMA SearchDoneKeepsCore == ASSUME Core, SearchDone PROVE Core'
<1>1. PICK S \in SUBSET Items : Register(NextBundle, S)
  BY DEF SearchDone
<1>2. /\ tool.at = "searching" /\ NextBundle \in BundleIds /\ tool' = Idle
      /\ UNCHANGED <<mode, active, spent, reads, plans, planner, rejected>>
  BY DEF SearchDone, readVars
<1>3. mode = "legacy"
  BY <1>2 DEF Core, ToolOwn
<1>4. /\ LedgerOwn' /\ DOMAIN bundles' \subseteq BundleIds
      /\ \A b \in DOMAIN bundles' : bundles'[b] \subseteq Evidence
      /\ DOMAIN found' \subseteq Evidence
  BY <1>1, <1>2, RegisterKeepsLedger
<1>5. run' = run
  BY <1>1 DEF Register
<1>6. TypeOK'
  BY <1>2, <1>4, <1>5 DEF Core, TypeOK, Tools
<1>7. ToolOwn'
  BY <1>2 DEF ToolOwn, Idle
<1>8. PlannerOwn'
  BY <1>2, <1>3 DEF Core, PlannerOwn, Idle
<1>9. (\A p \in plans : Grounded(p))'
  BY <1>1, <1>2, RegisterKeepsGrounded DEF Core
<1> QED
  BY <1>4, <1>6, <1>7, <1>8, <1>9 DEF Core

LEMMA PlannerAnswersKeepsCore == ASSUME Core, PlannerAnswers PROVE Core'
<1>1. PICK S \in SUBSET Items : Register(NextBundle, S)
  BY DEF PlannerAnswers
<1>2. /\ tool.at = "planning" /\ NextBundle \in BundleIds /\ tool' = Idle
      /\ planner' = Conversation(NextBundle)
      /\ UNCHANGED <<mode, active, spent, reads, plans, rejected>>
  BY DEF PlannerAnswers, readVars
<1>3. mode = "agent" /\ tool.attempt = Answers + 1 /\ tool.attempt \in 1 .. Attempts
      /\ tool.question \in Questions
  BY <1>2, ToolKinds DEF Core, TypeOK, ToolOwn, PlannerOwn
<1>4. /\ planner' \in Conversations /\ planner'.attempt = tool.attempt
      /\ planner'.pending = FALSE
  BY <1>2, <1>3 DEF Conversation, Conversations
<1>5. /\ LedgerOwn' /\ DOMAIN bundles' \subseteq BundleIds
      /\ \A b \in DOMAIN bundles' : bundles'[b] \subseteq Evidence
      /\ DOMAIN found' \subseteq Evidence
  BY <1>1, <1>2, RegisterKeepsLedger
<1>6. run' = run
  BY <1>1 DEF Register
<1>7. TypeOK'
  BY <1>2, <1>4, <1>5, <1>6 DEF Core, TypeOK, Tools
<1>8. ToolOwn'
  BY <1>2 DEF ToolOwn, Idle
<1>9. Answers' = Answers + 1
  BY <1>1, <1>2, RegisterAdds
<1>10. PlannerOwn'
  BY <1>2, <1>3, <1>4, <1>9 DEF PlannerOwn, Idle
<1>11. (\A p \in plans : Grounded(p))'
  BY <1>1, <1>2, RegisterKeepsGrounded DEF Core
<1> QED
  BY <1>5, <1>7, <1>8, <1>10, <1>11 DEF Core

\* Reads only add to what a plan may cite.
LEMMA ReadsKeepGrounded ==
    ASSUME UNCHANGED <<run, bundles>>, reads \subseteq reads', NEW p, Grounded(p)
    PROVE  Grounded(p)'
  BY DEF Grounded

LEMMA ReadDoneKeepsCore == ASSUME Core, ReadDone PROVE Core'
<1>1. PICK n \in 0 .. Share(tool.used) :
          spent' = [b \in DOMAIN spent \cup {tool.bundle} |->
                       IF b = tool.bundle THEN tool.used + n ELSE spent[b]]
  BY DEF ReadDone
<1>2. /\ tool.at = "reading" /\ tool' = Idle
      /\ reads' = reads \cup {<<tool.bundle, tool.evidence>>}
      /\ UNCHANGED <<mode, active, run, bundles, found, issued, plans, planner, rejected>>
  BY DEF ReadDone, ledgerVars
<1>3. /\ tool.bundle \in BundleIds /\ tool.evidence \in Evidence
      /\ tool.used \in 0 .. BundleBytes /\ tool.bundle \in DOMAIN bundles
      /\ tool.used < BundleBytes
  BY <1>2, ToolKinds DEF Core, TypeOK, ToolOwn
<1>4. tool.used + n \in 0 .. BundleBytes
  BY <1>3 DEF Share, Smaller
<1>5. /\ DOMAIN spent' = DOMAIN spent \cup {tool.bundle}
      /\ \A b \in DOMAIN spent' : spent'[b] \in 0 .. BundleBytes
  BY <1>1, <1>4 DEF Core, TypeOK
<1>6. TypeOK'
  <2>1. \A r \in reads' : r[1] \in BundleIds /\ r[2] \in Evidence
    BY <1>2, <1>3 DEF Core, TypeOK
  <2> QED
    BY <1>2, <1>5, <2>1 DEF Core, TypeOK, Tools
<1>7. LedgerOwn'
  BY <1>2, <1>3, <1>5 DEF Core, LedgerOwn
<1>8. ToolOwn'
  BY <1>2 DEF ToolOwn, Idle
<1>9. Answers' = Answers
  BY <1>2 DEF Answers
<1>10. PlannerOwn'
  BY <1>2, <1>9 DEF Core, PlannerOwn, Idle
<1>11. (\A p \in plans : Grounded(p))'
  BY <1>2, ReadsKeepGrounded DEF Core
<1> QED
  BY <1>6, <1>7, <1>8, <1>10, <1>11 DEF Core

\* A plan is grounded when it is frozen.
LEMMA PrepareKeepsCore ==
    ASSUME Core, NEW b \in {0} \cup DOMAIN bundles,
           NEW S \in SUBSET (IF b = 0 THEN {} ELSE bundles[b]),
           NEW t \in {None} \cup S, Prepare(S, b, t)
    PROVE  Core'
<1> DEFINE new == [run |-> run, bundle |-> b, evidence |-> S, template |-> t]
<1>1. /\ plans' = plans \cup {new}
      /\ UNCHANGED <<mode, active, run, bundles, found, issued, spent, reads, planner, tool, rejected>>
  BY DEF Prepare, ledgerVars, readVars
<1>2. /\ DOMAIN bundles \subseteq BundleIds /\ S \subseteq Evidence /\ run \in 0 .. MaxRuns
      /\ b \in {0} \cup BundleIds
  BY DEF Core, TypeOK
<1>3. new \in Plan
  BY <1>2 DEF Plan
<1>4. new.run = run /\ new.bundle = b /\ new.evidence = S /\ new.template = t
  OBVIOUS
<1>5. b # 0 => b \in DOMAIN bundles /\ S \subseteq bundles[b]
  OBVIOUS
<1>6. b # 0 /\ t # None => \E r \in reads : r[2] = t
  <2> SUFFICES ASSUME b # 0, t # None PROVE \E r \in reads : r[2] = t
    OBVIOUS
  <2>1. \E named : Rendered(t, named)
    BY DEF Prepare
  <2>2. PICK x \in DOMAIN bundles : <<x, t>> \in reads
    BY <2>1 DEF Rendered
  <2> QED
    BY <2>2
<1> HIDE DEF new
<1>7. Grounded(new)
  BY <1>4, <1>5, <1>6 DEF Grounded
<1>8. \A p : Grounded(p) => Grounded(p)'
  BY <1>1 DEF Grounded
<1>9. TypeOK'
  BY <1>1, <1>3 DEF Core, TypeOK
<1>10. LedgerOwn'
  BY <1>1 DEF Core, LedgerOwn
<1>11. ToolOwn'
  BY <1>1, <1>8 DEF Core, ToolOwn
<1>12. Answers' = Answers
  BY <1>1 DEF Answers
<1>13. PlannerOwn'
  BY <1>1, <1>12 DEF Core, PlannerOwn
<1>14. (\A p \in plans : Grounded(p))'
  BY <1>1, <1>7, <1>8 DEF Core
<1> QED
  BY <1>9, <1>10, <1>11, <1>13, <1>14 DEF Core

LEMMA RejectedKeepsCore == ASSUME Core, Rejected PROVE Core'
<1>1. /\ tool.at = "executing" /\ tool' = Idle
      /\ rejected' = rejected \cup {tool.plan.bundle}
      /\ planner' = IF mode = "agent" /\ Failed(tool.plan)
                    THEN [planner EXCEPT !.pending = TRUE] ELSE planner
      /\ UNCHANGED <<mode, active, run, bundles, found, issued, spent, reads, plans>>
  BY DEF Rejected, ledgerVars, readVars
<1>2. tool.plan \in Plan /\ tool.plan.bundle \in {0} \cup BundleIds
  BY <1>1, ToolKinds DEF Core, TypeOK, Plan
<1>3. /\ planner' \in Conversations \cup {None}
      /\ planner' # None =>
            /\ planner # None /\ planner'.attempt = planner.attempt
            /\ planner'.latest = planner.latest
            /\ planner'.pending => planner.pending \/ planner.latest = tool.plan.bundle
      /\ planner # None => planner' # None
  <2>1. CASE mode = "agent" /\ Failed(tool.plan)
    <3>1. planner \in Conversations /\ planner.latest = tool.plan.bundle
      BY <2>1 DEF Failed, Core, TypeOK
    <3>2. planner' = [planner EXCEPT !.pending = TRUE]
      BY <1>1, <2>1
    <3>3. /\ planner' \in Conversations /\ planner'.attempt = planner.attempt
          /\ planner'.latest = planner.latest
      BY <3>1, <3>2 DEF Conversations
    <3>4. planner # None /\ planner' # None
      BY <3>1, <3>3
    <3> QED
      BY <3>1, <3>3, <3>4
  <2>2. CASE ~(mode = "agent" /\ Failed(tool.plan))
    BY <1>1, <2>2 DEF Core, TypeOK
  <2> QED
    BY <2>1, <2>2
<1>4. TypeOK'
  BY <1>1, <1>2, <1>3 DEF Core, TypeOK, Tools
<1>5. LedgerOwn'
  BY <1>1 DEF Core, LedgerOwn
<1>6. ToolOwn'
  BY <1>1 DEF ToolOwn, Idle
<1>7. Answers' = Answers
  BY <1>1 DEF Answers
<1>8. PlannerOwn'
  BY <1>1, <1>3, <1>7 DEF Core, PlannerOwn, Idle
<1>9. (\A p \in plans : Grounded(p))'
  BY <1>1 DEF Core, Grounded
<1> QED
  BY <1>4, <1>5, <1>6, <1>8, <1>9 DEF Core

\* Asking the planner: the first time, or after a rejection.
LEMMA AskKeepsCore ==
    ASSUME Core, NEW q \in Questions, AskPlanner(q)
    PROVE  Core'
<1>1. /\ active /\ mode = "agent"
      /\ UNCHANGED <<mode, active, ledgerVars, readVars, plans, planner, rejected>>
      /\ \/ planner = None /\ tool' = [at |-> "planning", question |-> q, attempt |-> 1]
         \/ /\ planner # None /\ planner.pending /\ planner.attempt < Attempts
            /\ tool' = [at |-> "planning", question |-> q, attempt |-> planner.attempt + 1]
  BY DEF AskPlanner, MayCorrect
<1>2. /\ Answers = IF planner = None THEN 0 ELSE planner.attempt
      /\ planner # None => planner.attempt \in 1 .. Attempts
  BY <1>1 DEF Core, TypeOK, PlannerOwn, Conversations
<1>3. /\ tool' = [at |-> "planning", question |-> q, attempt |-> Answers + 1]
      /\ Answers + 1 \in 1 .. Attempts
      /\ planner # None => planner.latest \in rejected
  <2>1. CASE planner = None
    BY <1>1, <1>2, <2>1
  <2>2. CASE planner # None
    BY <1>1, <1>2, <2>2 DEF Core, PlannerOwn
  <2> QED
    BY <2>1, <2>2
<1>4. tool' \in Tools /\ tool'.at = "planning" /\ tool'.attempt = Answers + 1
  BY <1>3 DEF Tools
<1> QED
  BY <1>1, <1>3, <1>4, ToolKeepsCore

LEMMA ReadKeepsCore ==
    ASSUME Core, NEW e \in DOMAIN found, NEW b \in DOMAIN bundles, Read(e, b)
    PROVE  Core'
<1>1. /\ active /\ Spent(b) < BundleBytes
      /\ tool' = [at |-> "reading", bundle |-> b, evidence |-> e, used |-> Spent(b)]
      /\ UNCHANGED <<mode, active, ledgerVars, readVars, plans, planner, rejected>>
  BY DEF Read
<1>2. b \in BundleIds /\ e \in Evidence /\ Spent(b) \in 0 .. BundleBytes
  BY DEF Core, TypeOK, Spent
<1>3. tool' \in Tools /\ tool'.at = "reading" /\ tool'.bundle = b /\ tool'.used = Spent(b)
  BY <1>1, <1>2 DEF Tools
<1> QED
  BY <1>1, <1>3, ToolKeepsCore

LEMMA ShowKeepsCore == ASSUME Core, NEW p \in plans, Show(p) PROVE Core'
<1>1. /\ active /\ tool' = [at |-> "confirming", plan |-> p]
      /\ UNCHANGED <<mode, active, ledgerVars, readVars, plans, planner, rejected>>
  BY DEF Show
<1>2. p \in Plan /\ Grounded(p)
  BY DEF Core, TypeOK
<1>3. tool' \in Tools /\ tool'.at = "confirming" /\ tool'.plan = p
  BY <1>1, <1>2 DEF Tools
<1> QED
  BY <1>1, <1>2, <1>3, ToolKeepsCore

LEMMA ConfirmKeepsCore == ASSUME Core, Confirm PROVE Core'
<1>1. /\ tool.at = "confirming" /\ tool' = [tool EXCEPT !.at = "executing"]
      /\ UNCHANGED <<mode, active, ledgerVars, readVars, plans, planner, rejected>>
  BY DEF Confirm
<1>2. /\ tool = [at |-> tool.at, plan |-> tool.plan] /\ tool.plan \in Plan
      /\ Grounded(tool.plan) /\ active
  <2>1. tool.at # Idle.at
    BY <1>1 DEF Idle
  <2> QED
    BY <1>1, <2>1, ToolKinds DEF Core, TypeOK, ToolOwn
<1>3. tool' = [at |-> "executing", plan |-> tool.plan]
  BY <1>1, <1>2
<1>4. tool' \in Tools /\ tool'.at = "executing" /\ tool'.plan = tool.plan
  BY <1>2, <1>3 DEF Tools
<1> QED
  BY <1>1, <1>2, <1>4, ToolKeepsCore

LEMMA NextKeepsCore == Core /\ [Next]_vars => Core'
<1> SUFFICES ASSUME Core, [Next]_vars PROVE Core'
  OBVIOUS
<1>1. CASE RunStart \/ RunEnd
  BY <1>1, RunStartKeepsCore, RunEndKeepsCore
<1>2. CASE Unwind \/ Fail \/ Executed
  <2>1. /\ tool' = Idle /\ active' \in BOOLEAN
        /\ UNCHANGED <<mode, ledgerVars, readVars, plans, planner, rejected>>
    BY <1>2 DEF Unwind, Fail, Executed, Core, TypeOK
  <2> QED
    BY <2>1, IdleKeepsCore
<1>3. CASE Search
  <2>1. /\ active /\ mode = "legacy" /\ tool' = [at |-> "searching"]
        /\ UNCHANGED <<mode, active, ledgerVars, readVars, plans, planner, rejected>>
    BY <1>3 DEF Search
  <2>2. tool' \in Tools /\ tool'.at = "searching"
    BY <2>1 DEF Tools
  <2> QED
    BY <2>1, <2>2, ToolKeepsCore
<1>4. CASE SearchDone \/ PlannerAnswers
  BY <1>4, SearchDoneKeepsCore, PlannerAnswersKeepsCore
<1>5. CASE \E q \in Questions : AskPlanner(q)
  BY <1>5, AskKeepsCore
<1>6. CASE \E e \in DOMAIN found, b \in DOMAIN bundles : Read(e, b)
  BY <1>6, ReadKeepsCore
<1>7. CASE ReadDone
  BY <1>7, ReadDoneKeepsCore
<1>8. CASE \E b \in {0} \cup DOMAIN bundles :
             \E S \in SUBSET (IF b = 0 THEN {} ELSE bundles[b]) :
                \E t \in {None} \cup S : Prepare(S, b, t)
  BY <1>8, PrepareKeepsCore
<1>9. CASE \E p \in plans : Show(p)
  BY <1>9, ShowKeepsCore
<1>10. CASE Confirm \/ Rejected
  BY <1>10, ConfirmKeepsCore, RejectedKeepsCore
<1>11. CASE UNCHANGED vars
  <2>1. UNCHANGED <<mode, active, run, bundles, found, issued, spent, reads, plans, planner,
                    tool, rejected>>
    BY <1>11 DEF vars, ledgerVars, readVars
  <2>2. TypeOK' /\ LedgerOwn'
    BY <2>1 DEF Core, TypeOK, LedgerOwn
  <2>3. \A p : Grounded(p) => Grounded(p)'
    BY <2>1 DEF Grounded
  <2>4. ToolOwn'
    BY <2>1, <2>3 DEF Core, ToolOwn
  <2>5. Answers' = Answers
    BY <2>1 DEF Answers
  <2>6. PlannerOwn'
    BY <2>1, <2>5 DEF Core, PlannerOwn
  <2> QED
    BY <2>1, <2>2, <2>3, <2>4, <2>6 DEF Core
<1> QED
  BY <1>1, <1>2, <1>3, <1>4, <1>5, <1>6, <1>7, <1>8, <1>9, <1>10, <1>11 DEF Next

LEMMA CoreInvariant == Spec => []Core
<1>1. Init => Core
  BY StartCore
<1>2. Core /\ [Next]_vars => Core'
  BY NextKeepsCore
<1> QED
  BY <1>1, <1>2, PTL DEF Spec

\* What can be executed cites evidence of one bundle that this run was issued,
\* and a template that this run has read; and a run asks the planner at most
\* Attempts times.
THEOREM QueryInvariance == Spec => [](TypeOK /\ QueryInv)
<1>1. Core => TypeOK /\ QueryInv
  BY CoreSuffices
<1> QED
  BY <1>1, CoreInvariant, PTL

\* Each correction was earned: the planner is asked again only for a plan that
\* rests on its latest answer and that the database rejected.
LEMMA AttemptsGrow ==
    ASSUME Core, [Next]_vars, planner # None, planner' # None, planner'.attempt > planner.attempt
    PROVE  planner.latest \in rejected
<1>1. planner' # planner
  BY DEF Core, TypeOK, Conversations
<1>2. CASE PlannerAnswers
  BY <1>2 DEF PlannerAnswers, Core, PlannerOwn
<1>3. CASE Rejected
  <2>1. planner \in Conversations
    BY DEF Core, TypeOK
  <2>2. planner' = [planner EXCEPT !.pending = TRUE]
    BY <1>1, <1>3 DEF Rejected
  <2>3. planner'.attempt = planner.attempt /\ planner.attempt \in 1 .. Attempts
    BY <2>1, <2>2 DEF Conversations
  <2> QED
    BY <2>3
<1>4. CASE RunStart
  BY <1>4 DEF RunStart
<1>5. PlannerAnswers \/ Rejected \/ RunStart
  BY <1>1 DEF Next, RunEnd, Unwind, Fail, Search, SearchDone, AskPlanner, Read, ReadDone,
              Prepare, Show, Confirm, Executed, vars
<1> QED
  BY <1>2, <1>3, <1>4, <1>5

THEOREM PlansAreEarned == Spec => PlansEarned
<1>1. Core /\ [Next]_vars =>
          [planner # None /\ planner' # None /\ planner'.attempt > planner.attempt
              => planner.latest \in rejected]_vars
  BY AttemptsGrow
<1>2. Spec => CorrectionsEarned
  BY <1>1, CoreInvariant, PTL DEF Spec, CorrectionsEarned
<1> QED
  BY <1>2, QueryInvariance, PTL DEF PlansEarned
=============================================================================
