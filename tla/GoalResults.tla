---------------------------- MODULE GoalResults ----------------------------
(***************************************************************************)
(* What a research plan asks for and what the collected facts make of it:  *)
(* typed goals (schemas.py, ResearchGoal), the tasks that realise them     *)
(* (planner.py, _compile_task), the local tools that answer a task, and    *)
(* the result of every goal (researcher.py, _build_goal_results).          *)
(*                                                                         *)
(* Where ResearchDag is about which calls may be made and when they are    *)
(* complete, this module is about what they amount to: it has attributes,  *)
(* target types, objects, directions and all the ways to combine operands, *)
(* and takes from the DAG only that a task waits for what it needs.        *)
(*                                                                         *)
(* A goal is [intent, subjects, objects, subjectGoals, objectGoals,        *)
(* depends, types, direction, targets, attributes, aggregation]. Subjects  *)
(* and objects are references: <<"named", e>> is an entity of the question *)
(* and <<"context", k>> the members of kind k of the last answer, which    *)
(* Expand replaces by <<"context", e>> for each of them. Goals come in the *)
(* order of _canonicalize_goals: they depend on earlier ones. "none" is    *)
(* NOT_APPLICABLE; an empty set of types, targets or objects is no filter. *)
(*                                                                         *)
(* Raw relation words are taken for relation types. The grouping of goals  *)
(* only tells the Planner not to reject a plan, and is left out.           *)
(***************************************************************************)
EXTENDS Naturals, FiniteSets, SequencesExt

CONSTANTS Persons, Companies, Locations, Attributes

ASSUME EntityAssumption ==
    /\ Persons \cap Companies = {}
    /\ (Persons \cup Companies) \cap Locations = {}
    /\ IsFiniteSet(Persons \cup Companies \cup Locations)

Entities == Persons \cup Companies \cup Locations

Kinds == {"person", "company", "location"}
Kind(e) == IF e \in Persons THEN "person"
           ELSE IF e \in Companies THEN "company" ELSE "location"

Profiles == {"person_profile", "company_profile"}
ProfileKind(goal) == IF goal.intent = "person_profile" THEN "person" ELSE "company"

\* ResearchGoal, as the Planner draws it up.
References == ({"named"} \X Entities) \cup ({"context"} \X Kinds)
GoalType ==
    [intent : Profiles \cup {"related_companies", "controlled_companies", "locate"},
     subjects : SUBSET References, objects : SUBSET References,
     subjectGoals : SUBSET Nat, objectGoals : SUBSET Nat, depends : SUBSET Nat,
     types : SUBSET STRING, direction : {"outgoing", "incoming", "any", "none"},
     targets : SUBSET Kinds, attributes : SUBSET Attributes,
     aggregation : {"none", "union", "intersection", "direct"}]

Ids(refs) == {r[2] : r \in refs}
Named(refs) == {r \in refs : r[1] = "named"}
Refs(goal) == goal.subjects \cup goal.objects
Inputs(goal) == goal.subjectGoals \cup goal.objectGoals

Goals(plan) == DOMAIN plan.goals
PlanRefs(plan) == UNION {Refs(plan.goals[g]) : g \in Goals(plan)}

-----------------------------------------------------------------------------
(* Plans. A plan is [goals, shared]: shared says whether the references of *)
(* the conversation that a profile needs join the lookup of the new names  *)
(* or have one of their own.                                               *)

\* coherent_goal
LegalGoal(goal) ==
    LET profile == goal.intent \in Profiles
    IN  /\ goal.subjects # {} \/ goal.subjectGoals # {}
        /\ Inputs(goal) \subseteq goal.depends
        /\ goal.intent = "controlled_companies" => goal.types = {"controls"}
        /\ goal.intent = "locate" => /\ goal.types = {"headquartered_in"}
                                     /\ goal.direction = "outgoing"
                                     /\ "location" \in goal.targets
                                     /\ goal.aggregation = "none"
        /\ profile <=> goal.direction = "none"
        /\ profile => goal.types = {}
        /\ goal.intent \in {"related_companies", "controlled_companies"}
              => goal.aggregation # "none" \/ Cardinality(Refs(goal)) <= 1
        /\ goal.aggregation = "direct" => goal.targets = {}

\* coherent_analysis: a goal whose results are an operand says what they are.
CoherentGoals(goals) ==
    \A g \in DOMAIN goals :
       /\ goals[g].depends \subseteq 1..(g - 1)
       /\ \A h \in Inputs(goals[g]) : goals[h].targets # {}

\* neighbor_goal_operand_overlap
OperandsAreApart(goal) == goal.aggregation = "direct" \/ goal.subjects \cap goal.objects = {}

\* _expand_indexes: the members of the last focus that have the kind.
Expand(refs, focus) ==
    Named(refs)
      \cup {<<"context", e>> : e \in {x \in focus : <<"context", Kind(x)>> \in refs}}

\* _expand_goal: the operands of a direct goal are its subjects and objects.
ExpandGoal(goal, focus) ==
    LET subjects == Expand(goal.subjects, focus)
        objects == Expand(goal.objects, focus)
        direct == goal.aggregation = "direct"
    IN  [goal EXCEPT !.subjects = IF direct THEN subjects \cup objects ELSE subjects,
                     !.objects = IF direct THEN subjects \cup objects ELSE objects]

ExpandPlan(draft, focus) ==
    [goals |-> [g \in Goals(draft) |-> ExpandGoal(draft.goals[g], focus)],
     shared |-> draft.shared]

\* Every set of the conversation that is referred to has a member.
ContextIsKnown(draft, focus) ==
    \A r \in PlanRefs(draft) \ Named(PlanRefs(draft)) :
        \E e \in focus : Kind(e) = r[2]

-----------------------------------------------------------------------------
(* Tasks: [tool, goal, scope, refs, attributes]; goal 0 is no goal.        *)

ProfilesOf(plan, kind) ==
    {g \in Goals(plan) : /\ plan.goals[g].intent \in Profiles
                         /\ ProfileKind(plan.goals[g]) = kind}

\* A profile of nothing but the conversation may have its own lookup.
HasOwnLookup(plan, g) ==
    /\ ~plan.shared
    /\ Refs(plan.goals[g]) # {}
    /\ Named(Refs(plan.goals[g])) = {}

\* The lookup of all new names of a kind and of what profiles ask; its
\* attributes are those of the profiles it covers.
BatchRefs(plan, kind) ==
    LET profiled == {g \in Goals(plan) : /\ plan.goals[g].intent \in Profiles
                                         /\ ~HasOwnLookup(plan, g)}
    IN  {r \in Named(PlanRefs(plan)) \cup UNION {Refs(plan.goals[g]) : g \in profiled} :
            Kind(r[2]) = kind}

Batch(plan, kind) ==
    LET refs == BatchRefs(plan, kind)
        covered == {g \in ProfilesOf(plan, kind) : Refs(plan.goals[g]) \subseteq refs}
    IN  [tool |-> kind, goal |-> 0, scope |-> "lookup", refs |-> refs,
         attributes |-> UNION {plan.goals[g].attributes : g \in covered}]

Lookups(plan) ==
    {b \in {Batch(plan, "person"), Batch(plan, "company")} : b.refs # {}}
      \cup {[tool |-> ProfileKind(plan.goals[g]), goal |-> g, scope |-> "lookup",
             refs |-> Refs(plan.goals[g]), attributes |-> plan.goals[g].attributes] :
               g \in {h \in Goals(plan) : /\ plan.goals[h].intent \in Profiles
                                          /\ HasOwnLookup(plan, h)}}

\* A control goal first asks for explicit control, then for strong ties.
Scopes(goal) ==
    CASE goal.intent \in Profiles -> {}
      [] goal.intent = "controlled_companies" -> {"control_explicit", "control_fallback"}
      [] OTHER -> {"goal"}

RelationTasks(plan, g) ==
    {[tool |-> "relations", goal |-> g, scope |-> s,
      refs |-> Refs(plan.goals[g]), attributes |-> {}] : s \in Scopes(plan.goals[g])}

Tasks(plan) == Lookups(plan) \cup UNION {RelationTasks(plan, g) : g \in Goals(plan)}

\* profile_task_incomplete: one lookup covers a profile, whatever its tool.
\* The tool of a lookup fits its references.
LegalTasks(plan) ==
    /\ \A t \in Lookups(plan) : \A r \in t.refs : Kind(r[2]) = t.tool
    /\ \A r \in Named(PlanRefs(plan)) : \E t \in Lookups(plan) : r \in t.refs
    /\ \A g \in Goals(plan) :
          plan.goals[g].intent \in Profiles =>
             Cardinality({t \in Lookups(plan) : /\ t.goal \in {0, g}
                                                /\ Refs(plan.goals[g]) \subseteq t.refs}) = 1

\* The tasks whose completion completes a goal.
TasksForGoal(plan, g) ==
    LET goal == plan.goals[g]
    IN  IF goal.intent \notin Profiles THEN RelationTasks(plan, g)
        ELSE {t \in Lookups(plan) : \/ t.goal = g
                                    \/ /\ t.goal = 0
                                       /\ t.tool = ProfileKind(goal)
                                       /\ Refs(goal) \subseteq t.refs
                                       /\ goal.attributes \subseteq t.attributes}

ControlFallbackTypes == {"founded", "works_at", "owns"}

AskedTypes(plan, t) ==
    CASE t.scope = "control_explicit" -> {"controls"}
      [] t.scope = "control_fallback" -> ControlFallbackTypes
      [] OTHER -> plan.goals[t.goal].types

\* A control task is compiled to ask outgoing relations.
AskedDirection(plan, t) ==
    IF t.scope = "goal" THEN plan.goals[t.goal].direction ELSE "outgoing"

-----------------------------------------------------------------------------
(* The local tools, on a world [facts, attributes].                        *)

Endpoints(facts) == {f.source : f \in facts} \cup {f.target : f \in facts}

\* _matches_subject_object
Joins(f, direction, subjects, objects) ==
    LET outgoing == f.source \in subjects /\ (objects = {} \/ f.target \in objects)
        incoming == f.target \in subjects /\ (objects = {} \/ f.source \in objects)
    IN  CASE direction = "outgoing" -> outgoing
          [] direction = "incoming" -> incoming
          [] OTHER -> outgoing \/ incoming

QueryRelations(world, types, direction, subjects, objects) ==
    {f \in world.facts : /\ types = {} \/ f.type \in types
                         /\ Joins(f, direction, subjects, objects)}

\* An entity record has the attributes it was asked for (node_record); the
\* end of a relation has them all.
LookupRecords(world, t) ==
    [e \in Ids(t.refs) |-> world.attributes[e] \cap t.attributes]

EndpointRecords(world, facts) == [e \in Endpoints(facts) |-> world.attributes[e]]

\* _deduplicate_records: the last record of an id replaces the others.
Overlay(old, new) ==
    [e \in DOMAIN old \cup DOMAIN new |-> IF e \in DOMAIN new THEN new[e] ELSE old[e]]

-----------------------------------------------------------------------------
(* What the goals come to. Research is [plan, done, found, records]: the   *)
(* tasks called so far, the relations each brought, and the record kept of *)
(* each entity.                                                            *)

FactsOf(research, tasks) == UNION {research.found[t] : t \in tasks \cap research.done}

\* The neighbours of a subject that a relation shows.
Across(f, direction, s) ==
    CASE f.source = s /\ direction \in {"outgoing", "any"} -> {f.target}
      [] f.target = s /\ (direction = "incoming" \/ (direction = "any" /\ f.source # s))
            -> {f.source}
      [] OTHER -> {}

\* _project_goal_relations: the results, and the relations that prove them.
Project(goal, facts, subjects, objects) ==
    LET direct == {f \in facts : {f.source, f.target} \subseteq subjects \cup objects}
        shows(f, s) == {n \in Across(f, goal.direction, s) :
                           /\ objects = {} \/ n \in objects
                           /\ goal.targets = {} \/ Kind(n) \in goal.targets}
        reached(s) == UNION {shows(f, s) : f \in facts}
        all == UNION {reached(s) : s \in subjects}
        results == IF goal.aggregation = "intersection"
                   THEN {n \in all : \A s \in subjects : n \in reached(s)} ELSE all
    IN  IF goal.aggregation = "direct"
        THEN [results |-> Endpoints(direct), facts |-> direct]
        ELSE [results |-> results,
              facts |-> {f \in facts : \E s \in subjects : shows(f, s) \cap results # {}}]

\* The tasks of a goal that are complete without a call once they could be
\* called: their input turned out empty, or explicit control makes the strong
\* ties unnecessary.
Skipped(research, g, subjects, objects, open) ==
    LET goal == research.plan.goals[g]
        relations == RelationTasks(research.plan, g)
        explicit == {t \in relations : t.scope = "control_explicit"}
        waiting == {r \in Named(Refs(goal)) :
                       \A t \in research.done : t.scope # "lookup" \/ r \notin t.refs}
        emptyInput == /\ Inputs(goal) # {}
                      /\ subjects = {} \/ (goal.objectGoals # {} /\ objects = {})
        notRequired(t) == t.scope = "control_fallback" /\ FactsOf(research, explicit) # {}
    IN  IF open /\ waiting = {}
        THEN {t \in relations \ research.done : emptyInput \/ notRequired(t)} ELSE {}

\* The relations a control goal rests on are explicit ones if there are any.
ActiveTasks(research, g) ==
    LET relations == RelationTasks(research.plan, g)
        explicit == {t \in relations : t.scope = "control_explicit"}
    IN  IF explicit = {} THEN relations
        ELSE IF FactsOf(research, explicit) # {} THEN explicit ELSE relations \ explicit

\* What a completed goal is asked to keep in view.
GoalFocus(goal, projected, subjects, objects) ==
    IF goal.intent = "locate" THEN subjects
    ELSE IF goal.aggregation = "direct" \/ projected.results = {} THEN subjects \cup objects
    ELSE projected.results

\* _build_goal_results for one goal, given its operands, whether what its
\* tasks wait for is there (open), and whether every goal it depends on is
\* complete (ready): without that it has no result.
GoalResult(research, g, subjects, objects, open, ready) ==
    LET goal == research.plan.goals[g]
        profile == goal.intent \in Profiles
        tasks == TasksForGoal(research.plan, g)
        skipped == Skipped(research, g, subjects, objects, open)
        called == tasks \subseteq research.done \cup skipped
        complete == ready /\ tasks # {} /\ called
        named == Ids(Refs(goal)) \cap DOMAIN research.records
        projected == Project(goal, FactsOf(research, ActiveTasks(research, g)),
                             subjects, objects)
        result == IF ~complete THEN [results |-> {}, facts |-> {}]
                  ELSE IF profile THEN [results |-> Ids(Refs(goal)), facts |-> {}]
                  ELSE projected
        nonempty == complete /\ IF profile THEN named # {} ELSE result.facts # {}
        focus == IF ~complete THEN {}
                 ELSE IF profile THEN result.results
                 ELSE GoalFocus(goal, projected, subjects, objects)
        keepsAll == goal.intent = "locate" \/ goal.aggregation = "direct"
    IN  [open |-> open,
         ready |-> ready,
         called |-> called,
         complete |-> complete,
         nonempty |-> nonempty,
         skipped |-> Inputs(goal) # {} /\ skipped # {},
         subjects |-> subjects,
         objects |-> objects,
         results |-> result.results,
         facts |-> result.facts,
         entities |-> IF ~nonempty THEN {}
                      ELSE IF profile THEN named
                      ELSE IF keepsAll THEN focus \cap DOMAIN research.records
                      ELSE {},
         focus |-> IF Inputs(goal) # {} /\ skipped # {} /\ ~nonempty THEN {} ELSE focus]

\* The result of a goal, given those of the earlier ones: their results are
\* operands. A task is called after the tasks of the goals that its goal depends
\* on, and when those whose results it takes are complete.
NextResult(research, g, results) ==
    LET goal == research.plan.goals[g]
        from(goals) == UNION {results[h].results : h \in goals}
    IN  GoalResult(research, g,
                   Ids(goal.subjects) \cup from(goal.subjectGoals),
                   Ids(goal.objects) \cup from(goal.objectGoals),
                   /\ \A h \in goal.depends : results[h].called
                   /\ \A h \in Inputs(goal) : results[h].complete,
                   \A h \in goal.depends : results[h].complete)

Results(research) ==
    FoldLeft(LAMBDA results, goal :
                Append(results, NextResult(research, Len(results) + 1, results)),
             <<>>, research.plan.goals)

=============================================================================
