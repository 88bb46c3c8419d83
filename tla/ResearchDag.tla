---------------------------- MODULE ResearchDag -----------------------------
(***************************************************************************)
(* The Researcher at work on a plan (researcher.py): which tool calls it   *)
(* may make, which tasks the receipts of past calls complete, and what the *)
(* goals come to in the end. AgentTurn counts the steps of this loop; here *)
(* is what they mean.                                                      *)
(*                                                                         *)
(* Nothing but the transcript is remembered: bindings, completed tasks,    *)
(* goal results and the next calls are computed from it at every step      *)
(* (_snapshot). It survives a replan, so that receipts of one plan are     *)
(* read by the next.                                                       *)
(*                                                                         *)
(* The world is what the tools read, fixed for a turn: the matches of a    *)
(* text, the type of an entity, the relations. A receipt holds the call;   *)
(* its records are what that call finds in the world. Receipts of calls    *)
(* that were not executed are read by nothing here and not kept.           *)
(***************************************************************************)
EXTENDS ResearchPlan, SequencesExt

CONSTANTS
    Questions,          \* for each question, the plans the Planner may give
    Worlds,             \* [exact, fuzzy: text -> entities, kind, facts]
    MaxToolCalls,
    MaxReplans,
    RelationLimit       \* relations one call returns at most

ASSUME DagAssumption ==
    /\ \A plans \in Questions : \A p \in plans : LegalPlan(p)
    /\ MaxToolCalls \in Nat /\ MaxReplans \in Nat /\ RelationLimit \in Nat \ {0}

VARIABLES
    world,
    question,           \* the plans of this turn's question
    plan,
    transcript,         \* receipts [call, tasks, refs, success] of executed calls
    run_status,         \* "running", "replan", "finish", "no_results", "failed"
    replan_count,
    contract_retry

vars == <<world, question, plan, transcript, run_status, replan_count, contract_retry>>

IdsOf(tool) == {e \in DOMAIN world.kind : world.kind[e] = tool}

-----------------------------------------------------------------------------
(* The tools. A call is [tool, mode, queries, ids, types]; a query pairs   *)
(* the user's words with the catalogue name that replaces them, if any.    *)

\* MatchMode: the ways of looking a name up.
Modes == {"exact", "fuzzy", "cross_language_exact"}

ASSUME NoneAssumption == None \notin Modes

\* search_entities_page: of the tool's type, an exact match is preferred in
\* every mode.
Search(tool, mode, query) ==
    LET text == IF mode = "cross_language_exact" THEN query.canonical ELSE query.mention
        exact == world.exact[text] \cap IdsOf(tool)
    IN  IF exact # {} \/ mode # "fuzzy" THEN exact ELSE world.fuzzy[text] \cap IdsOf(tool)

\* The entity records of a receipt.
Found(r) ==
    IF r.call.queries = {} THEN r.call.ids \cap IdsOf(r.call.tool)
    ELSE UNION {Search(r.call.tool, r.call.mode, q) : q \in r.call.queries}

\* query_relations; beyond the limit the page is truncated.
Matching(call) ==
    {f \in world.facts : f.source \in call.ids /\ f.type \in call.types}

Truncated(call) == Cardinality(Matching(call)) > RelationLimit

Returned(call) ==
    IF Truncated(call)
    THEN CHOOSE page \in SUBSET Matching(call) : Cardinality(page) = RelationLimit
    ELSE Matching(call)

-----------------------------------------------------------------------------
(* What the entity receipts bind and complete, in their order: a state is  *)
(* [bind, receipts, completed], receipts being pairs of a task and one of  *)
(* its receipts (task_receipts).                                           *)

IsEntity(r) == r.call.tool \in EntityTools

TheOnly(S) == IF Cardinality(S) = 1 THEN CHOOSE e \in S : TRUE ELSE None

\* The entity that receipt r proves reference i to be. A reference that was
\* not queried by itself can be proved by the only entity of the receipt.
Proof(r, i) ==
    LET ref == plan.refs[i]
        own == {q \in r.call.queries : q.mention = ref.mention}
    IN  IF own # {}
        THEN TheOnly(UNION {Search(r.call.tool, r.call.mode, q) : q \in own})
        ELSE IF r.call.ids # {} \/ ref.canonical = None THEN TheOnly(Found(r))
        ELSE None

\* The references a receipt is about: its own, or all of the tool's type.
Candidates(r) ==
    IF r.refs \cap Refs(plan) # {} THEN r.refs \cap Refs(plan)
    ELSE {i \in Refs(plan) : plan.refs[i].tool = r.call.tool}

\* Mutant: the last receipt wins.
MayBind_LastWins(bind, i, e) == e # None

\* A reference once bound is never bound to another entity.
MayBind(bind, i, e) == e # None /\ bind[i] \in {None, e}

\* Every reference of a task needs a receipt of its own entity.
Satisfied(t, bind, receipts) ==
    \A i \in plan.tasks[t].refs :
        /\ bind[i] # None
        /\ \E x \in receipts : x[1] = t /\ bind[i] \in Found(x[2])

AddEntityReceipt(s, r) ==
    LET matched == {i \in Candidates(r) : MayBind(s.bind, i, Proof(r, i))}
        bind == [i \in Refs(plan) |-> IF i \in matched THEN Proof(r, i) ELSE s.bind[i]]
        tasks == IF r.tasks \cap Tasks(plan) # {} THEN r.tasks \cap Tasks(plan)
                 ELSE {t \in Tasks(plan) : /\ plan.tasks[t].tool = r.call.tool
                                           /\ plan.tasks[t].depends \subseteq s.completed
                                           /\ plan.tasks[t].refs \cap matched # {}}
        receipts == s.receipts \cup (tasks \X {r})
    IN  [bind |-> bind, receipts |-> receipts,
         completed |-> s.completed \cup {t \in tasks : Satisfied(t, bind, receipts)}]

EntityPhase(log) ==
    LET phase[n \in 0..Len(log)] ==
            IF n = 0
            THEN [bind |-> [i \in Refs(plan) |-> plan.refs[i].context],
                  receipts |-> {},
                  completed |-> {}]
            ELSE IF log[n].success /\ IsEntity(log[n])
            THEN AddEntityReceipt(phase[n - 1], log[n])
            ELSE phase[n - 1]
    IN  phase[Len(log)]

-----------------------------------------------------------------------------
(* What the goals come to in a state.                                      *)

Facts(s, tasks) ==
    UNION {Returned(x[2].call) : x \in {y \in s.receipts : y[1] \in tasks /\ ~IsEntity(y[2])}}

BoundTo(s, refs) == {s.bind[i] : i \in refs} \ {None}

IsExplicit(p, t) == t \in RelationTasks(p) /\ RelationTypes(p, t) = {"controls"}

ExplicitTasks(g) == {t \in RelationTasks(plan) : plan.tasks[t].goal = g /\ IsExplicit(plan, t)}

\* What relations from the subjects lead to: all of it, or what is common.
Project(goal, subjects, facts) ==
    LET targets(e) == {f.target : f \in {x \in facts : x.source = e}}
        all == UNION {targets(e) : e \in subjects}
    IN  IF goal.aggregation = "intersection"
        THEN {x \in all : \A e \in subjects : x \in targets(e)}
        ELSE all

\* The relation tasks whose facts count: control prefers the explicit ones.
ActiveTasks(s, goal, relations) ==
    LET explicit == {t \in relations : IsExplicit(plan, t)}
    IN  IF goal.intent # "controlled_companies" THEN relations
        ELSE IF Facts(s, explicit) # {} THEN explicit
        ELSE relations \ explicit

\* The result of a goal, from those of the goals it depends on. A profile is
\* that of the goal's references.
GoalResult(s, g, results) ==
    LET goal == plan.goals[g]
        tasks == TasksForGoal(plan, g)
        complete == /\ \A d \in goal.depends : results[d].complete
                    /\ tasks # {} /\ tasks \subseteq s.completed
        bound == BoundTo(s, goal.refs)
        subjects == bound \cup UNION {results[d].entities : d \in goal.inputs}
        relations == tasks \cap RelationTasks(plan)
    IN  [complete |-> complete,
         entities |-> IF ~complete THEN {}
                      ELSE IF relations = {} THEN bound
                      ELSE Project(goal, subjects, Facts(s, ActiveTasks(s, goal, relations)))]

GoalResults(s) ==
    LET result[g \in Goals(plan)] == GoalResult(s, g, result)
    IN  result

\* A task's subjects, once the goals it takes them from are complete.
InputsReady(t, results) ==
    \A d \in plan.goals[plan.tasks[t].goal].inputs : results[d].complete

Subjects(s, t, results) ==
    BoundTo(s, plan.tasks[t].refs)
      \cup UNION {results[d].entities : d \in plan.goals[plan.tasks[t].goal].inputs}

\* Relation tasks that wait for nothing.
Open(s) ==
    {t \in RelationTasks(plan) :
        /\ t \notin s.completed
        /\ plan.tasks[t].depends \subseteq s.completed
        /\ \A i \in plan.tasks[t].refs : s.bind[i] # None}

\* Mutant: a task with an empty input waits for a call nobody may make.
VerifiedEmptyInput_Never(s, t, results) == FALSE

\* An empty input would mean "no filter" to the tool: no call is made.
VerifiedEmptyInput(s, t, results) ==
    /\ plan.goals[plan.tasks[t].goal].inputs # {}
    /\ InputsReady(t, results)
    /\ Subjects(s, t, results) = {}

\* The fallback of a control goal is not needed when control is explicit.
FallbackNotRequired(s, t) ==
    LET g == plan.tasks[t].goal
        explicit == ExplicitTasks(g)
    IN  /\ plan.goals[g].intent = "controlled_companies"
        /\ t \notin explicit
        /\ explicit # {} /\ explicit \subseteq s.completed
        /\ Facts(s, explicit) # {}

RelationCall(s, t, results) ==
    [tool |-> "relations", mode |-> None, queries |-> {},
     ids |-> Subjects(s, t, results), types |-> RelationTypes(plan, t)]

\* A task whose call can be made or recognised.
Callable(s, results) ==
    {t \in Open(s) : InputsReady(t, results) /\ Subjects(s, t, results) # {}}

\* Mutant: a truncated page counts as a complete answer.
Answers_TruncatedToo(s, r, t, results) ==
    /\ r.tasks \cap Tasks(plan) # {} => t \in r.tasks
    /\ r.call = RelationCall(s, t, results)

\* A receipt answers a task if it is the task's own call, in full.
Answers(s, r, t, results) ==
    /\ r.tasks \cap Tasks(plan) # {} => t \in r.tasks
    /\ r.call = RelationCall(s, t, results)
    /\ ~Truncated(r.call)

-----------------------------------------------------------------------------
(* The snapshot of a transcript: the entity receipts in their order, then  *)
(* the relation tasks to a fixed point.                                    *)

Skip(s) ==
    LET results == GoalResults(s)
    IN  [s EXCEPT !.completed = @ \cup
            {t \in Open(s) : FallbackNotRequired(s, t) \/ VerifiedEmptyInput(s, t, results)}]

Match(log, s) ==
    LET results == GoalResults(s)
        callable == Callable(s, results)
        relations == {r \in ToSet(log) : r.success /\ ~IsEntity(r)}
        answers(t) == {r \in relations : Answers(s, r, t, results)}
    IN  [s EXCEPT !.completed = @ \cup {t \in callable : answers(t) # {}},
                  !.receipts = @ \cup UNION {{t} \X answers(t) : t \in callable}]

\* Every round but the last completes a task.
Snapshot(log) ==
    LET round[n \in 0..Cardinality(Tasks(plan))] ==
            IF n = 0 THEN EntityPhase(log) ELSE Match(log, Skip(round[n - 1]))
    IN  round[Cardinality(Tasks(plan))]

AllComplete(s) == s.completed = Tasks(plan)

ResultNonempty(results) == \E g \in Goals(plan) : results[g].complete /\ results[g].entities # {}

-----------------------------------------------------------------------------
(* The contracts of a state: the calls that would advance the plan.        *)

\* The modes in which successful calls have looked reference i up, and the
\* modes that found something.
Attempts(i, tool) ==
    {r \in ToSet(transcript) :
        /\ r.success /\ r.call.tool = tool
        /\ r.refs # {} => i \in r.refs
        /\ \E q \in r.call.queries :
              /\ q.mention = plan.refs[i].mention
              /\ q.canonical \in {None, plan.refs[i].canonical}}

\* Words exactly, words fuzzily, catalogue name exactly: each after a
\* complete, empty outcome of the one before. None when the ladder ends.
NextMode(i, tool) ==
    LET ref == plan.refs[i]
        attempts == Attempts(i, tool)
        tried(mode) == \E r \in attempts : r.call.mode = mode
        empty(mode) == Search(tool, mode, [mention |-> ref.mention, canonical |-> None]) = {}
    IN  IF tried("cross_language_exact") THEN None
        ELSE IF ~tried("exact") THEN "exact"
        ELSE IF ~empty("exact") THEN None
        ELSE IF ~tried("fuzzy") THEN "fuzzy"
        ELSE IF ~empty("fuzzy") THEN None
        ELSE IF ref.canonical \in {None, ref.mention} THEN None
        ELSE "cross_language_exact"

Query(i, mode) ==
    [mention |-> plan.refs[i].mention,
     canonical |-> IF mode = "cross_language_exact" THEN plan.refs[i].canonical ELSE None]

ReadyLookups(s) ==
    {t \in EntityTasks(plan) \ s.completed : plan.tasks[t].depends \subseteq s.completed}

Unresolved(s, t) == {i \in plan.tasks[t].refs : s.bind[i] = None}

\* Unresolved names with the same tool and mode are asked for in one call.
Wanted(s, tool, mode) ==
    {w \in ReadyLookups(s) \X Refs(plan) :
        /\ plan.tasks[w[1]].tool = tool
        /\ w[2] \in Unresolved(s, w[1])
        /\ NextMode(w[2], tool) = mode}

QueryContract(tool, mode, wanted) ==
    [tool |-> tool, mode |-> mode, ids |-> {}, types |-> {},
     queries |-> {Query(w[2], mode) : w \in wanted},
     tasks |-> {w[1] : w \in wanted},
     refs |-> {w[2] : w \in wanted}]

QueryContracts(s) ==
    {QueryContract(tool, mode, Wanted(s, tool, mode)) :
        tool \in EntityTools, mode \in Modes}

\* Names all known, but not every entity has its receipt: ask by id.
IdContract(s, tool, wanting) ==
    LET refs == UNION {plan.tasks[t].refs : t \in wanting}
    IN  [tool |-> tool, mode |-> "exact", ids |-> BoundTo(s, refs), types |-> {},
         queries |-> {}, tasks |-> wanting, refs |-> refs]

IdContracts(s) ==
    {IdContract(s, tool, {t \in ReadyLookups(s) : /\ plan.tasks[t].tool = tool
                                                  /\ Unresolved(s, t) = {}}) :
        tool \in EntityTools}

RelationContract(s, t, results) ==
    [tool |-> "relations", mode |-> None, ids |-> Subjects(s, t, results),
     types |-> RelationTypes(plan, t), queries |-> {},
     tasks |-> {t}, refs |-> plan.tasks[t].refs]

RelationContracts(s, results) == {RelationContract(s, t, results) : t \in Callable(s, results)}

Contracts(s) ==
    {c \in QueryContracts(s) \cup IdContracts(s) : c.tasks # {}}
      \cup RelationContracts(s, GoalResults(s))

\* A call fits an entity contract with any part of its names or ids, a
\* relation contract only as it stands.
Fits(call, c) ==
    /\ call.tool = c.tool /\ call.mode = c.mode /\ call.types = c.types
    /\ IF c.tool = "relations" THEN call.ids = c.ids
       ELSE /\ call.queries \subseteq c.queries /\ call.ids \subseteq c.ids
            /\ call.queries \cup call.ids # {}

CallsOf(c) ==
    IF c.tool = "relations"
    THEN {[tool |-> c.tool, mode |-> c.mode, queries |-> {}, ids |-> c.ids, types |-> c.types]}
    ELSE {[tool |-> c.tool, mode |-> c.mode, queries |-> q, ids |-> i, types |-> {}] :
            q \in SUBSET c.queries, i \in SUBSET c.ids}

Calls(contracts) ==
    {call \in UNION {CallsOf(c) : c \in contracts} : \E c \in contracts : Fits(call, c)}

Receipt(call, contracts, success) ==
    LET matching == {c \in contracts : Fits(call, c)}
    IN  [call |-> call, success |-> success,
         tasks |-> UNION {c.tasks : c \in matching},
         refs |-> UNION {c.refs : c \in matching}]

\* The fingerprints of executed calls, failed ones included.
Executed(call) == \E r \in ToSet(transcript) : r.call = call

-----------------------------------------------------------------------------
Init ==
    /\ world \in Worlds
    /\ question \in Questions
    /\ plan \in question
    /\ transcript = <<>>
    /\ run_status = "running"
    /\ replan_count = 0
    /\ contract_retry = 0

\* A call of a ready contract that was not made before, within the budget;
\* the tool answers, or it fails or times out.
CallTool ==
    /\ run_status = "running"
    /\ Len(transcript) < MaxToolCalls
    /\ LET contracts == Contracts(Snapshot(transcript))
       IN  \E call \in Calls(contracts), success \in BOOLEAN :
              /\ ~Executed(call)
              /\ transcript' = Append(transcript, Receipt(call, contracts, success))
    /\ UNCHANGED <<world, question, plan, run_status, replan_count, contract_retry>>

\* The same call again is not executed and asks for another plan.
Duplicate ==
    /\ run_status = "running"
    /\ Len(transcript) < MaxToolCalls
    /\ \E call \in Calls(Contracts(Snapshot(transcript))) : Executed(call)
    /\ run_status' = "replan"
    /\ UNCHANGED <<world, question, plan, transcript, replan_count, contract_retry>>

\* An answer outside the contracts, or no action to offer because the calls
\* are spent: one retry for the whole turn.
Reject ==
    /\ run_status = "running"
    /\ contract_retry' = contract_retry + 1
    /\ run_status' = IF contract_retry = 0 THEN "running" ELSE "failed"
    /\ UNCHANGED <<world, question, plan, transcript, replan_count>>

\* No contract and no end: the model may only ask for a replan or fail.
GiveUp ==
    /\ run_status = "running"
    /\ LET s == Snapshot(transcript) IN ~AllComplete(s) /\ Contracts(s) = {}
    /\ run_status' \in {"replan", "failed"}
    /\ UNCHANGED <<world, question, plan, transcript, replan_count, contract_retry>>

\* Every task complete: the one action offered follows from the results.
Finish ==
    /\ run_status = "running"
    /\ LET s == Snapshot(transcript)
       IN  /\ AllComplete(s)
           /\ run_status' = IF ResultNonempty(GoalResults(s)) THEN "finish" ELSE "no_results"
    /\ UNCHANGED <<world, question, plan, transcript, replan_count, contract_retry>>

\* The Planner answers a replan with any legal plan, or the turn fails.
Replan ==
    /\ run_status = "replan"
    /\ IF replan_count < MaxReplans
       THEN /\ plan' \in question
            /\ replan_count' = replan_count + 1
            /\ run_status' = "running"
       ELSE /\ run_status' = "failed"
            /\ UNCHANGED <<plan, replan_count>>
    /\ UNCHANGED <<world, question, transcript, contract_retry>>

Next == CallTool \/ Duplicate \/ Reject \/ GiveUp \/ Finish \/ Replan

Spec == Init /\ [][Next]_vars

-----------------------------------------------------------------------------
(* What the researched question really comes to.                           *)

\* The entity a reference stands for: the only match of the first way of
\* looking it up that matches anything.
Meant(ref) ==
    LET words == [mention |-> ref.mention, canonical |-> ref.canonical]
        exact == Search(ref.tool, "exact", words)
        fuzzy == Search(ref.tool, "fuzzy", words)
    IN  IF ref.context # None THEN ref.context
        ELSE IF exact # {} THEN TheOnly(exact)
        ELSE IF fuzzy # {} \/ ref.canonical = None THEN TheOnly(fuzzy)
        ELSE TheOnly(Search(ref.tool, "cross_language_exact", words))

\* The answer to a goal, from those to the goals it takes results of, read off
\* the world without tasks and receipts.
GoalTruth(g, truth) ==
    LET goal == plan.goals[g]
        subjects == {Meant(plan.refs[i]) : i \in goal.refs}
                      \cup UNION {truth[d] : d \in goal.inputs}
        facts(types) == {f \in world.facts : f.source \in subjects /\ f.type \in types}
    IN  IF goal.intent \in Profiles THEN subjects
        ELSE IF goal.intent = "controlled_companies" /\ facts({"controls"}) = {}
        THEN Project(goal, subjects, facts(ControlFallbackTypes))
        ELSE Project(goal, subjects, facts(goal.types))

Truth ==
    LET truth[g \in Goals(plan)] == GoalTruth(g, truth)
    IN  truth

-----------------------------------------------------------------------------
(* What questions are taken to be, beyond what the Planner checks of a     *)
(* plan. Each has a question without it that breaks a property below.      *)

\* The plans of a question give no relation task the id of an entity task.
\* Without it see GoalsAdvanceByTheirReceipts.
TaskIdsAreKept ==
    \A plans \in Questions : \A p, q \in plans : EntityTasks(p) \cap RelationTasks(q) = {}

\* A profile is asked of entities of its kind. Otherwise a lookup of no goal
\* that covers the profile is not counted among its tasks (_tasks_for_goal).
ProfileIsTyped(p) ==
    \A g \in Goals(p) :
        p.goals[g].intent \in Profiles =>
            \A i \in p.goals[g].refs : p.refs[i].tool = ProfileTool(p.goals[g])

ProfilesAreTyped == \A plans \in Questions : \A p \in plans : ProfileIsTyped(p)

\* A profile is asked of references. Of the results of other goals the code
\* makes none (_build_goal_results).
ProfileIsNamed(p) ==
    \A g \in Goals(p) : p.goals[g].intent \in Profiles => p.goals[g].inputs = {}

ProfilesAreNamed == \A plans \in Questions : \A p \in plans : ProfileIsNamed(p)

\* A replan refers to the same entities in the same words and order: receipts
\* of an earlier plan are read by the index of a reference.
RefsAreKept == \A plans \in Questions : \A p, q \in plans : p.refs = q.refs

\* New names of one kind differ in words, and one without a catalogue name is
\* looked up alone: part of a batch is credited to a name by its words, or, if
\* it has no catalogue name, for being all that was found.
NamesApart(p) ==
    \A i, j \in Refs(p) :
        /\ i # j /\ p.refs[i].tool = p.refs[j].tool
        /\ ~FromContext(p, i) /\ ~FromContext(p, j)
        => p.refs[i].mention # p.refs[j].mention /\ p.refs[i].canonical # None

NamesAreApart == \A plans \in Questions : \A p \in plans : NamesApart(p)

\* The tasks of a plan can be done in some order, goals that are consumed being
\* finished first. The Planner asks only that some task of a goal comes before
\* the tasks of a goal that depends on it, and another may come after.
TasksHaveTurns(p) ==
    LET turns == 0..Cardinality(Tasks(p))
    IN  \E turn \in [Tasks(p) -> turns], last \in [Goals(p) -> turns] :
            /\ \A t \in Tasks(p) : \A d \in p.tasks[t].depends : turn[d] < turn[t]
            /\ \A t \in RelationTasks(p) :
                  \A d \in p.goals[p.tasks[t].goal].inputs : last[d] < turn[t]
            /\ \A g \in Goals(p) : /\ \A t \in TasksForGoal(p, g) : turn[t] <= last[g]
                                   /\ \A d \in p.goals[g].depends : last[d] <= last[g]

PlansCanBeDone == \A plans \in Questions : \A p \in plans : TasksHaveTurns(p)

-----------------------------------------------------------------------------
(* Properties.                                                             *)

\* Research ends in finish or no_results only when it has, for every goal,
\* exactly the entities the question asks for, whatever calls failed, were split
\* or were made for an earlier plan, and in the one that this calls for
\* (_snapshot, _build_goal_results, _finish).
FinishedIsTrue ==
    [][run_status = "running" /\ run_status' \in {"finish", "no_results"} =>
          LET results == GoalResults(Snapshot(transcript))
          IN  /\ \A g \in Goals(plan) : results[g].entities = Truth[g]
              /\ run_status' = "finish" <=> \E g \in Goals(plan) : Truth[g] # {}]_vars

\* A legal plan only gets stuck at a name that means no entity, or several: as
\* long as names resolve, there is a call to make or everything is complete
\* (_ready_contracts with the dependency rules of _validate_task_plan).
StuckOnlyOnNames ==
    run_status = "running" =>
        LET s == Snapshot(transcript)
        IN  \/ AllComplete(s) \/ Contracts(s) # {}
            \/ \E i \in Refs(plan) : s.bind[i] = None /\ Meant(plan.refs[i]) = None

\* Whatever plan reads it, a further receipt takes back nothing that the
\* transcript had proved: no binding, no completed task, no goal's result
\* (_bind_entity_receipt, _snapshot, _build_goal_results).
ProgressIsKept ==
    transcript # <<>> =>
        LET before == Snapshot(Front(transcript))
            after == Snapshot(transcript)
            results == GoalResults(before)
            later == GoalResults(after)
        IN  /\ before.completed \subseteq after.completed
            /\ \A i \in Refs(plan) : before.bind[i] \in {None, after.bind[i]}
            /\ \A g \in Goals(plan) : results[g].complete => later[g] = results[g]

\* A relation task is completed by a complete receipt that belongs to it, or
\* needs none: its input is empty, or control was found to be explicit. Said
\* of every goal in the Researcher's prompt (prompts.py:923); it fails after a
\* replan that gives the id of an entity task to a relation task, because
\* _snapshot completes whatever tasks an entity receipt names
\* (researcher.py:921).
GoalsAdvanceByTheirReceipts ==
    LET s == Snapshot(transcript)
        results == GoalResults(s)
    IN  \A t \in RelationTasks(plan) \cap s.completed :
            \/ \E x \in s.receipts : x[1] = t /\ ~IsEntity(x[2])
            \/ FallbackNotRequired(s, t)
            \/ VerifiedEmptyInput(s, t, results)

=============================================================================
