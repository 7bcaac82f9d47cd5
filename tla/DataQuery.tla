----------------------------- MODULE DataQuery ------------------------------
(***************************************************************************)
(* The data-query workflow (tau_coding/dataquery: service.py, ledger.py,   *)
(* extension.py): evidence is searched and read, a query plan is prepared  *)
(* from it and frozen, confirmed by the user and executed; a failed query  *)
(* may be sent back to the planner for correction.                         *)
(*                                                                         *)
(* The agent loop runs one tool at a time; a tool waits for a backend, for *)
(* the planner or for the user, and may fail or be cancelled there. The    *)
(* databases, the knowledge service and the SQL checker are external: any  *)
(* answer is possible.                                                     *)
(***************************************************************************)
EXTENDS Naturals, FiniteSets

CONSTANTS
    Items,        \* what the knowledge service knows
    Questions,
    None,
    BundleBytes,  \* MAX_BUNDLE_BYTES, in some unit
    ReadBytes,    \* MAX_READ_BYTES
    Attempts,     \* how often a run may ask the planner: 3 in the code
    MaxRuns, MaxSearches, MaxBundles, MaxPlans  \* bounds

VARIABLES
    mode,       \* planning_mode: "legacy" or "agent"
    run,        \* ledger.scope
    active,     \* a run is between its start and its end
    bundles,    \* ledger._bundles: the evidence of each
    found,      \* ledger._evidence_to_bundle
    plans,      \* QueryPlanStore._plans
    spent,      \* _bundle_read_bytes
    reads,      \* _template_reads
    planner,    \* _planner_conversation
    tool,       \* the tool at work: what it waits for and what it holds
    issued,     \* history: the run that each bundle was issued in
    rejected    \* history: bundles a plan of which this run saw rejected

ledgerVars == <<run, bundles, found, issued>>
readVars   == <<spent, reads>>
vars       == <<mode, active, ledgerVars, readVars, plans, planner, tool, rejected>>

BundleIds == 1 .. MaxBundles
Idle      == [at |-> "idle"]

\* The planner names evidence afresh each time, the search by its item.
Evidence  == [of : {0} \cup BundleIds, item : Items]
Named(b, S) == {[of |-> IF mode = "agent" THEN b ELSE 0, item |-> i] : i \in S}

Plan == [run : 0 .. MaxRuns, bundle : {0} \cup BundleIds,
         evidence : SUBSET Evidence, template : {None} \cup Evidence]

\* What the planner was asked, how often, and the bundle of its last answer.
Conversations == [question : Questions, attempt : 1 .. Attempts,
                  latest : BundleIds, pending : BOOLEAN]

ASSUME DataQueryAssumption ==
    /\ BundleBytes \in Nat /\ ReadBytes \in Nat /\ Attempts \in Nat \ {0}
    /\ MaxRuns \in Nat /\ MaxSearches \in Nat /\ MaxBundles \in Nat /\ MaxPlans \in Nat
    /\ None \notin Conversations

Smaller(m, n) == IF m <= n THEN m ELSE n
Holding(e)    == IF e \in DOMAIN found THEN found[e] ELSE 0
Spent(b)      == IF b \in DOMAIN spent THEN spent[b] ELSE 0
NextBundle    == Cardinality(DOMAIN issued) + 1
-----------------------------------------------------------------------------
Init ==
    /\ mode \in {"legacy", "agent"}
    /\ run = 0 /\ active = FALSE
    /\ bundles = <<>> /\ found = <<>> /\ issued = <<>>
    /\ plans = {} /\ spent = <<>> /\ reads = {}
    /\ planner = None /\ tool = Idle
    /\ rejected = {}
-----------------------------------------------------------------------------
(* The scope of a run.                                                     *)

\* Fault: the plans of an earlier run go, its evidence stays.
ResetLedger_Not == UNCHANGED <<bundles, found>>

ResetLedger == bundles' = <<>> /\ found' = <<>>

RunStart ==
    /\ ~active /\ run < MaxRuns
    /\ active' = TRUE /\ run' = run + 1
    /\ ResetLedger
    /\ plans' = {} /\ spent' = <<>> /\ reads' = {} /\ planner' = None
    /\ rejected' = {}
    /\ UNCHANGED <<mode, tool, issued>>

\* The loop announces its end ...
RunEnd ==
    /\ active /\ tool = Idle
    /\ active' = FALSE /\ plans' = {}
    /\ UNCHANGED <<mode, ledgerVars, readVars, planner, tool, rejected>>

\* ... unless its task is cancelled, which also ends the tool.
Unwind ==
    /\ active
    /\ active' = FALSE /\ tool' = Idle
    /\ UNCHANGED <<mode, ledgerVars, readVars, plans, planner, rejected>>

\* A backend, the planner or the user says no, or the answer is unusable.
Fail ==
    /\ tool.at \in {"searching", "planning", "reading", "confirming"}
    /\ tool' = Idle
    /\ UNCHANGED <<mode, active, ledgerVars, readVars, plans, planner, rejected>>
-----------------------------------------------------------------------------
(* Searching and planning.                                                 *)

Register(b, S) ==
    /\ bundles' = [x \in DOMAIN bundles \cup {b} |-> IF x = b THEN Named(b, S) ELSE bundles[x]]
    /\ found' = [e \in DOMAIN found \cup Named(b, S) |->
                     IF e \in Named(b, S) THEN b ELSE found[e]]
    /\ issued' = [x \in DOMAIN issued \cup {b} |-> IF x = b THEN run ELSE issued[x]]
    /\ UNCHANGED run

Search ==
    /\ active /\ tool = Idle /\ mode = "legacy"
    /\ tool' = [at |-> "searching"]
    /\ UNCHANGED <<mode, active, ledgerVars, readVars, plans, planner, rejected>>

SearchDone ==
    /\ tool.at = "searching" /\ NextBundle \in BundleIds /\ NextBundle <= MaxSearches
    /\ \E S \in SUBSET Items : Register(NextBundle, S)
    /\ tool' = Idle
    /\ UNCHANGED <<mode, active, readVars, plans, planner, rejected>>

\* Fault: one correction too many.
MayCorrect_Again(q) ==
    planner # None /\ planner.pending /\ q = planner.question /\ planner.attempt <= Attempts

MayCorrect(q) ==
    planner # None /\ planner.pending /\ q = planner.question /\ planner.attempt < Attempts

\* A run asks the planner once, and again with retryContext after a query
\* failed. The planner's lock is free: one tool runs at a time.
AskPlanner(q) ==
    /\ active /\ tool = Idle /\ mode = "agent"
    /\ \/ planner = None /\ tool' = [at |-> "planning", question |-> q, attempt |-> 1]
       \/ MayCorrect(q) /\ tool' = [at |-> "planning", question |-> q, attempt |-> planner.attempt + 1]
    /\ UNCHANGED <<mode, active, ledgerVars, readVars, plans, planner, rejected>>

Conversation(b) ==
    [question |-> tool.question, attempt |-> tool.attempt, latest |-> b, pending |-> FALSE]

PlannerAnswers ==
    /\ tool.at = "planning" /\ NextBundle \in BundleIds
    /\ \E S \in SUBSET Items \ {{}} : Register(NextBundle, S)
    /\ planner' = Conversation(NextBundle)
    /\ tool' = Idle
    /\ UNCHANGED <<mode, active, readVars, plans, rejected>>
-----------------------------------------------------------------------------
(* Reading.                                                                *)

\* The bundle named in the call, or (0) the last one that holds the evidence.
Resolved(b, named, e) ==
    b \in DOMAIN bundles /\ b = IF named = 0 THEN Holding(e) ELSE named

\* The item is one that the knowledge service can expand.
Read(e, b) ==
    /\ active /\ tool = Idle
    /\ e \in bundles[b]
    /\ \E named \in {0, b} : Resolved(b, named, e)
    /\ Spent(b) < BundleBytes
    /\ tool' = [at |-> "reading", bundle |-> b, evidence |-> e, used |-> Spent(b)]
    /\ UNCHANGED <<mode, active, ledgerVars, readVars, plans, planner, rejected>>

\* Fault: a read may take a whole share, however little of the budget is left.
Share_Whole(used) == ReadBytes

Share(used) == Smaller(ReadBytes, BundleBytes - used)

ReadDone ==
    /\ tool.at = "reading"
    /\ \E n \in 0 .. Share(tool.used) :
          spent' = [b \in DOMAIN spent \cup {tool.bundle} |->
                       IF b = tool.bundle THEN tool.used + n ELSE spent[b]]
    /\ reads' = reads \cup {<<tool.bundle, tool.evidence>>}
    /\ tool' = Idle
    /\ UNCHANGED <<mode, active, ledgerVars, plans, planner, rejected>>
-----------------------------------------------------------------------------
(* Preparing and executing.                                                *)

\* A template must have been read. Its bundle is resolved on its own: when the
\* call names no bundle, it need not be the one of the plan.
Rendered(t, named) == \E b \in DOMAIN bundles : Resolved(b, named, t) /\ <<b, t>> \in reads

\* Freeze a plan that cites the evidence S of the bundle that the call names,
\* or else that holds the first item. Without evidence it may only look at the
\* schema.
Prepare(S, b, t) ==
    /\ active /\ tool = Idle /\ Cardinality(plans) < MaxPlans
    /\ \/ S = {} /\ b = 0 /\ t = None
       \/ \E first \in S, named \in {0, b} :
             /\ Resolved(b, named, first)
             /\ S \subseteq bundles[b]
             /\ t = None \/ (t \in S /\ Rendered(t, named))
    /\ plans' = plans \cup {[run |-> run, bundle |-> b, evidence |-> S, template |-> t]}
    /\ UNCHANGED <<mode, active, ledgerVars, readVars, planner, tool, rejected>>

\* Show a plan to the user; without confirmation it is not executed.
Show(p) ==
    /\ active /\ tool = Idle
    /\ p \in plans /\ p.run = run
    /\ tool' = [at |-> "confirming", plan |-> p]
    /\ UNCHANGED <<mode, active, ledgerVars, readVars, plans, planner, rejected>>

Confirm ==
    /\ tool.at = "confirming"
    /\ tool.plan \in plans /\ tool.plan.run = run
    /\ tool' = [tool EXCEPT !.at = "executing"]
    /\ UNCHANGED <<mode, active, ledgerVars, readVars, plans, planner, rejected>>

\* Rows, an infrastructure error, or a cancelled query.
Executed ==
    /\ tool.at = "executing"
    /\ tool' = Idle
    /\ UNCHANGED <<mode, active, ledgerVars, readVars, plans, planner, rejected>>

\* Fault: the failure of any plan asks for a correction.
Failed_Any(p) == planner # None

\* Only a plan from the planner's latest answer does.
Failed(p) == planner # None /\ p.bundle = planner.latest

Rejected ==
    /\ tool.at = "executing"
    /\ tool' = Idle
    /\ rejected' = rejected \cup {tool.plan.bundle}
    /\ planner' = IF mode = "agent" /\ Failed(tool.plan)
                  THEN [planner EXCEPT !.pending = TRUE] ELSE planner
    /\ UNCHANGED <<mode, active, ledgerVars, readVars, plans>>

Next ==
    \/ RunStart \/ RunEnd \/ Unwind \/ Fail
    \/ Search \/ SearchDone \/ PlannerAnswers
    \/ \E q \in Questions : AskPlanner(q)
    \/ \E e \in DOMAIN found, b \in DOMAIN bundles : Read(e, b)
    \/ ReadDone
    \/ \E b \in {0} \cup DOMAIN bundles :
          \E S \in SUBSET (IF b = 0 THEN {} ELSE bundles[b]) :
             \E t \in {None} \cup S : Prepare(S, b, t)
    \/ \E p \in plans : Show(p)
    \/ Confirm \/ Executed \/ Rejected

Spec == Init /\ [][Next]_vars
-----------------------------------------------------------------------------
(* Properties.                                                             *)

\* What a tool waits for, and what it holds meanwhile.
Tools ==
    {Idle} \cup [at : {"searching"}]
    \cup [at : {"planning"}, question : Questions, attempt : 1 .. Attempts]
    \cup [at : {"reading"}, bundle : BundleIds, evidence : Evidence, used : 0 .. BundleBytes]
    \cup [at : {"confirming", "executing"}, plan : Plan]

\* The types of the variables; what one bundle's reads return stays within its
\* budget (service.py: MAX_BUNDLE_BYTES).
TypeOK ==
    /\ run \in 0 .. MaxRuns /\ active \in BOOLEAN
    /\ DOMAIN bundles \subseteq BundleIds
    /\ \A b \in DOMAIN bundles : bundles[b] \subseteq Evidence
    /\ DOMAIN found \subseteq Evidence
    /\ plans \subseteq Plan
    /\ \A b \in DOMAIN spent : spent[b] \in 0 .. BundleBytes
    /\ \A r \in reads : r[1] \in BundleIds /\ r[2] \in Evidence
    /\ rejected \subseteq {0} \cup BundleIds
    /\ planner \in Conversations \cup {None}
    /\ tool \in Tools

\* What can be executed rests on this run alone: a plan of the current scope,
\* stored or at work, cites evidence of one bundle that a search of this run
\* issued, and its template was read in this run, also after runs that were
\* cancelled without an end.
PlansGrounded ==
    LET live == {p \in plans : p.run = run}
                \cup (IF tool.at \in {"confirming", "executing"} THEN {tool.plan} ELSE {})
    IN  \A p \in live :
            /\ p.run = run
            /\ p.bundle = 0 => p.evidence = {}
            /\ p.bundle # 0 =>
                  /\ issued[p.bundle] = run
                  /\ p.evidence \subseteq bundles[p.bundle]
                  /\ p.template # None =>
                        \E r \in reads : r[2] = p.template /\ issued[r[1]] = run

\* A run asks the planner at most three times ("correction limit reached").
AttemptsBounded ==
    mode = "agent" => Cardinality({b \in DOMAIN issued : issued[b] = run}) <= Attempts

\* The planner is asked again only when the database has rejected a plan that
\* rests on its latest answer: each failure buys one correction.
CorrectionsEarned ==
    [][planner # None /\ planner' # None /\ planner'.attempt > planner.attempt
          => planner.latest \in rejected]_vars

-----------------------------------------------------------------------------
(* What TLAPS proves of every reachable state.                             *)

\* Bundles are numbered as they are issued, and the ledger holds those of this
\* run alone.
LedgerOwn ==
    /\ DOMAIN issued \subseteq BundleIds
    /\ DOMAIN issued = 1 .. Cardinality(DOMAIN issued)
    /\ \A b \in DOMAIN issued : issued[b] \in 0 .. run
    /\ DOMAIN bundles \subseteq DOMAIN issued
    /\ \A b \in DOMAIN bundles : issued[b] = run
    /\ \A e \in DOMAIN found : found[e] \in DOMAIN bundles
    /\ DOMAIN spent \subseteq DOMAIN bundles
    /\ \A r \in reads : r[1] \in DOMAIN bundles

Grounded(p) ==
    /\ p.run = run
    /\ p.bundle = 0 => p.evidence = {}
    /\ p.bundle # 0 =>
          /\ p.bundle \in DOMAIN bundles /\ p.evidence \subseteq bundles[p.bundle]
          /\ p.template # None => \E r \in reads : r[2] = p.template

ToolOwn ==
    /\ ~active => tool = Idle
    /\ tool.at = "searching" => mode = "legacy"
    /\ tool.at = "planning" => mode = "agent"
    /\ tool.at = "reading" => tool.bundle \in DOMAIN bundles /\ tool.used < BundleBytes
    /\ tool.at \in {"confirming", "executing"} => Grounded(tool.plan)

\* How often the planner has answered in this run.
Answers == Cardinality({b \in DOMAIN issued : issued[b] = run})

PlannerOwn ==
    /\ mode = "agent" => Answers = IF planner = None THEN 0 ELSE planner.attempt
    /\ tool.at = "planning" => tool.attempt = Answers + 1
    /\ planner # None /\ (planner.pending \/ tool.at = "planning")
          => planner.latest \in rejected

QueryInv ==
    /\ PlansGrounded /\ AttemptsBounded
    /\ LedgerOwn /\ ToolOwn /\ PlannerOwn /\ (\A p \in plans : Grounded(p))

\* A plan rests on evidence of its run, and a turn asks the planner as often as
\* it may and corrects only what was rejected.
PlansEarned == [](TypeOK /\ QueryInv) /\ CorrectionsEarned
=============================================================================
