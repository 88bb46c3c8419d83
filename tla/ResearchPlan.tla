---------------------------- MODULE ResearchPlan ----------------------------
(***************************************************************************)
(* Research plans: the goals of a question and the DAG of tool tasks that  *)
(* realises them, and the rules by which the Planner accepts one           *)
(* (planner.py, _validate_task_plan, and the validators of schemas.py).    *)
(*                                                                         *)
(* A plan is a record                                                      *)
(*   refs   a sequence of entity references [mention, tool, canonical,     *)
(*          context]: the user's words, the tool that knows the type, the  *)
(*          catalogue name if any, or the entity of the conversation;      *)
(*   goals  a sequence of [intent, refs, inputs, depends, types,           *)
(*          aggregation], in the order _canonicalize_goals puts them, so   *)
(*          that a goal depends on earlier ones only. inputs are the goals *)
(*          whose results are subjects;                                    *)
(*   tasks  a function from task ids to [tool, goal, refs, scope, depends].*)
(*                                                                         *)
(* Goals have subjects and no objects, and relations are followed from     *)
(* subject to object. Attributes, target types, raw relation types and     *)
(* locations as an intent of their own are left out.                       *)
(***************************************************************************)
EXTENDS Naturals, Sequences, FiniteSets

CONSTANT None        \* an absent goal, catalogue name or context entity

EntityTools == {"persons", "companies"}
Profiles == {"person_profile", "company_profile"}

\* The tool whose answer is the profile.
ProfileTool(goal) == IF goal.intent = "person_profile" THEN "persons" ELSE "companies"

Refs(plan) == DOMAIN plan.refs
Goals(plan) == DOMAIN plan.goals
Tasks(plan) == DOMAIN plan.tasks

FromContext(plan, i) == plan.refs[i].context # None

EntityTasks(plan) == {t \in Tasks(plan) : plan.tasks[t].tool \in EntityTools}
RelationTasks(plan) == {t \in Tasks(plan) : plan.tasks[t].tool = "relations"}

\* What a task depends on, directly or not.
DependencyClosure(plan, t) ==
    LET within[n \in 0..Cardinality(Tasks(plan))] ==
            IF n = 0 THEN plan.tasks[t].depends
            ELSE within[n - 1] \cup UNION {plan.tasks[d].depends : d \in within[n - 1]}
    IN  within[Cardinality(Tasks(plan))]

\* The entity tasks that cover a profile goal: its own, or one of no goal.
Covering(plan, g) ==
    {t \in EntityTasks(plan) : /\ plan.tasks[t].goal \in {None, g}
                               /\ plan.goals[g].refs \subseteq plan.tasks[t].refs}

\* The tasks that realise a goal; profiles may share one lookup of no goal.
TasksForGoal(plan, g) ==
    {t \in Tasks(plan) : plan.tasks[t].goal = g}
      \cup IF plan.goals[g].intent \in Profiles
           THEN {t \in Covering(plan, g) :
                    /\ plan.tasks[t].goal = None
                    /\ plan.tasks[t].tool = ProfileTool(plan.goals[g])}
           ELSE {}

\* The relation types a task asks for, compiled from the goal and the scope.
ControlFallbackTypes == {"founded", "works_at", "owns"}

RelationTypes(plan, t) ==
    LET task == plan.tasks[t]
    IN  IF task.scope = "control_explicit" THEN {"controls"}
        ELSE IF task.scope = "control_fallback" THEN ControlFallbackTypes
        ELSE plan.goals[task.goal].types

-----------------------------------------------------------------------------
(* When the Planner accepts a plan.                                        *)

\* coherent_goal and the order of _canonicalize_goals.
GoalsAreCoherent(plan) ==
    /\ Len(plan.goals) \in Nat /\ Goals(plan) = 1..Len(plan.goals)
    /\ \A g \in Goals(plan) :
           LET goal == plan.goals[g]
           IN  /\ goal.refs \cup goal.inputs # {}
               /\ goal.refs \subseteq Refs(plan)
               /\ goal.inputs \subseteq goal.depends
               /\ goal.depends \subseteq 1..(g - 1)
               /\ goal.intent = "controlled_companies" => goal.types = {"controls"}

\* Finitely many tasks, ids that exist, drafts that are coherent, no cycle.
TasksAreWellFormed(plan) ==
    /\ IsFiniteSet(Tasks(plan))
    /\ \A t \in Tasks(plan) :
           LET task == plan.tasks[t]
           IN  /\ task.goal \in Goals(plan) \cup {None}
               /\ task.tool \in EntityTools \cup {"relations"}
               /\ task.depends \subseteq Tasks(plan)
               /\ t \notin DependencyClosure(plan, t)
               /\ t \in RelationTasks(plan) => /\ task.goal # None
                                               /\ task.scope # "not_applicable"
               /\ t \in EntityTasks(plan) => /\ task.scope = "not_applicable"
                                             /\ task.refs # {}
                                             /\ task.refs \subseteq Refs(plan)

\* Only a profile looks an entity of the conversation up again.
MayLookUp(plan, t, i) ==
    /\ plan.refs[i].tool = plan.tasks[t].tool
    /\ FromContext(plan, i) =>
          \E g \in Goals(plan) : /\ plan.goals[g].intent \in Profiles
                                 /\ i \in plan.goals[g].refs
                                 /\ plan.tasks[t].goal \in {None, g}

\* Each new name is looked up by exactly one task, one task per tool.
LookupsAreBatched(plan) ==
    LET lookups(i) == {t \in EntityTasks(plan) : i \in plan.tasks[t].refs}
        named == {i \in Refs(plan) : ~FromContext(plan, i)}
    IN  /\ \A t \in EntityTasks(plan) :
              \A i \in plan.tasks[t].refs : MayLookUp(plan, t, i)
        /\ \A i \in named : Cardinality(lookups(i)) = 1
        /\ \A tool \in EntityTools :
              Cardinality({t \in UNION {lookups(i) : i \in named} :
                              plan.tasks[t].tool = tool}) <= 1

\* A relation task has its goal's operands and waits for what they need.
RelationsWaitForInputs(plan) ==
    \A t \in RelationTasks(plan) :
        LET goal == plan.goals[plan.tasks[t].goal]
            before == DependencyClosure(plan, t)
        IN  /\ plan.tasks[t].refs = goal.refs
            /\ \A i \in goal.refs :
                  FromContext(plan, i) \/ \E d \in before : i \in plan.tasks[d].refs
                                                     /\ d \in EntityTasks(plan)
            /\ \A d \in goal.depends :
                  TasksForGoal(plan, d) # {} => TasksForGoal(plan, d) \cap before # {}

\* Every goal has exactly the tasks its intent calls for.
GoalsAreRealised(plan) ==
    \A g \in Goals(plan) :
        LET relations == {t \in RelationTasks(plan) : plan.tasks[t].goal = g}
            inScope(s) == {t \in relations : plan.tasks[t].scope = s}
        IN  CASE plan.goals[g].intent \in Profiles ->
                   /\ relations = {}
                   /\ Cardinality(Covering(plan, g)) = 1
              [] plan.goals[g].intent = "controlled_companies" ->
                   \E explicit, fallback \in relations :
                      /\ inScope("control_explicit") = {explicit}
                      /\ inScope("control_fallback") = {fallback}
                      /\ explicit \in DependencyClosure(plan, fallback)
              [] OTHER ->
                   \E t \in relations : /\ relations = {t}
                                        /\ plan.tasks[t].scope = "goal"

LegalPlan(plan) ==
    /\ GoalsAreCoherent(plan)
    /\ TasksAreWellFormed(plan)
    /\ LookupsAreBatched(plan)
    /\ RelationsWaitForInputs(plan)
    /\ GoalsAreRealised(plan)

=============================================================================
