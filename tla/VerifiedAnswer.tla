-------------------------- MODULE VerifiedAnswer ---------------------------
(***************************************************************************)
(* The way of an answer: a question is planned, its tasks are called, the  *)
(* Researcher finishes, the Visualizer shows the result, the answer is     *)
(* remembered and its graph joins the conversation's, which the next       *)
(* question may refer to. AgentTurn has the routing and the counters of    *)
(* this way and ResearchDag the single calls; here is what is carried      *)
(* along it and what the checks on it accept.                              *)
(*                                                                         *)
(* Every lookup finds the entity that was named, and no page of relations  *)
(* is truncated: what happens otherwise is ResearchDag's. Both the         *)
(* Researcher and the Visualizer may be asked a second time after a        *)
(* refusal, on the same records; the last refusal is the one modelled.     *)
(* The failed answer that follows leaves the conversation as it was        *)
(* (SessionMemory). One conversation at a time is open, and rows do not    *)
(* expire (QueryCache).                                                    *)
(***************************************************************************)
EXTENDS AnswerContract

CONSTANTS
    Worlds,         \* what the tools may read: [facts, attributes]
    Questions       \* for each turn, the plans the Planner may draw up

MaxTurns == Len(Questions)

ASSUME WorldAssumption ==
    \A w \in Worlds : /\ DOMAIN w.attributes = Entities
                      /\ \A e \in Entities : w.attributes[e] \subseteq Attributes
                      /\ Endpoints(w.facts) \subseteq Entities

\* coherent_analysis: there is at least one goal.
ASSUME QuestionAssumption ==
    Questions \in Seq(SUBSET [goals : Seq(GoalType) \ {<<>>}, shared : BOOLEAN])

VARIABLES
    world,
    turn,
    phase,          \* "idle", "research", "verified", "refused", "shown", "unshown"
    draft,          \* the question as it was planned
    research,       \* the plan's tasks, relations and entity records
    result,         \* what the Researcher verified: [signature, selected, catalog]
    session,        \* the conversation's graph and focus: [nodes, edges, focus]
    rows            \* the remembered answers

vars == <<world, turn, phase, draft, research, result, session, rows>>

EmptyMap == [e \in {} |-> {}]
NoDraft == [goals |-> <<>>, shared |-> TRUE]
NoResearch == [plan |-> NoDraft, done |-> {}, found |-> EmptyMap, records |-> EmptyMap]
NoResult == [signature |-> <<>>, selected |-> {}, catalog |-> EmptyMap]
NoSession == [nodes |-> EmptyMap, edges |-> {}, focus |-> {}]

\* _trusted_focus_members
TrustedFocus == session.focus \cap DOMAIN session.nodes

ContextIds(plan) == Ids(PlanRefs(plan) \ Named(PlanRefs(plan)))

\* _with_verified_context_records: the conversation's record of an entity it
\* refers to is appended, and so replaces one of this turn.
Catalog ==
    Overlay(research.records,
            [e \in ContextIds(research.plan) \cap DOMAIN session.nodes |-> session.nodes[e]])

-----------------------------------------------------------------------------

Init ==
    /\ world \in Worlds
    /\ turn = 0 /\ phase = "idle"
    /\ draft = NoDraft /\ research = NoResearch /\ result = NoResult
    /\ session = NoSession /\ rows = {}

\* The Planner draws up a plan for the next question.
Ask(q) ==
    LET plan == ExpandPlan(q, TrustedFocus)
    IN  /\ phase = "idle" /\ turn < MaxTurns
        /\ CoherentGoals(q.goals)
        /\ \A g \in Goals(q) : LegalGoal(q.goals[g]) /\ OperandsAreApart(q.goals[g])
        /\ ContextIsKnown(q, TrustedFocus)
        /\ LegalTasks(plan)
        /\ turn' = turn + 1 /\ phase' = "research" /\ draft' = q
        /\ research' = [NoResearch EXCEPT !.plan = plan]
        /\ UNCHANGED <<world, result, session, rows>>

AddReceipt(t, facts, records) ==
    research' = [research EXCEPT
                    !.done = @ \cup {t},
                    !.found = [x \in research.done \cup {t} |->
                                  IF x = t THEN facts ELSE research.found[x]],
                    !.records = Overlay(@, records)]

\* persons or companies, by name or by id.
LookUp(t) ==
    /\ phase = "research" /\ t.scope = "lookup" /\ t \notin research.done
    /\ AddReceipt(t, {}, LookupRecords(world, t))
    /\ UNCHANGED <<world, turn, phase, draft, result, session, rows>>

\* Mutant: a task is called although its goal's input is not there yet.
MayCall_Unready(t, results) == TRUE

\* Mutant: a task waits for a result of every goal its goal depends on.
MayCall_NeedsResult(t, results) ==
    LET goal == research.plan.goals[t.goal]
    IN  /\ \A r \in Named(t.refs) :
              \E l \in research.done : l.scope = "lookup" /\ r \in l.refs
        /\ \A h \in goal.depends : results[h].nonempty
        /\ t.scope = "control_fallback" => [t EXCEPT !.scope = "control_explicit"]
                                              \in research.done

\* A relation task waits for the lookups of its names and for the goals its
\* goal depends on; the strong ties of a control goal for the explicit ones.
MayCall(t, results) ==
    /\ \A r \in Named(t.refs) :
          \E l \in research.done : l.scope = "lookup" /\ r \in l.refs
    /\ results[t.goal].open
    /\ t.scope = "control_fallback" => [t EXCEPT !.scope = "control_explicit"]
                                          \in research.done

\* Neither is it called where the input is empty or explicit control was found.
IsReady(t, results) ==
    LET r == results[t.goal]
    IN  /\ MayCall(t, results)
        /\ t \notin Skipped(research, t.goal, r.subjects, r.objects, TRUE)

\* relations, from the results of earlier goals or from named entities.
FollowRelations(t) ==
    LET results == Results(research)
        r == results[t.goal]
        facts == QueryRelations(world, AskedTypes(research.plan, t),
                                AskedDirection(research.plan, t), r.subjects, r.objects)
    IN  /\ phase = "research" /\ t.scope # "lookup" /\ t \notin research.done
        /\ IsReady(t, results)
        /\ AddReceipt(t, facts, EndpointRecords(world, facts))
        /\ UNCHANGED <<world, turn, phase, draft, result, session, rows>>

Complete ==
    LET results == Results(research)
    IN  /\ Lookups(research.plan) \subseteq research.done
        /\ \A g \in Goals(research.plan) : results[g].called

\* The Researcher finishes, or says that there is no result (_finish). A goal
\* without a result is a KeyError in _derive_signature.
Finish ==
    LET completion == [research EXCEPT !.records = Catalog]
        signature == Signature(completion)
        selected == SelectedEntities(completion, signature)
    IN  /\ phase = "research" /\ Complete
        /\ IF /\ \A g \in Goals(research.plan) : Results(completion)[g].ready
              /\ FinishAccepted(signature, selected, Catalog)
           THEN /\ phase' = "verified" /\ research' = completion
                /\ result' = [signature |-> signature, selected |-> selected,
                              catalog |-> Catalog]
           ELSE phase' = "refused" /\ UNCHANGED <<research, result>>
        /\ UNCHANGED <<world, turn, draft, session, rows>>

Row(r) ==
    [draft |-> draft, signature |-> r.signature, graph |-> ShownGraph(r),
     focus |-> SignedFocus(r.signature), scope |-> Scope(r.signature)]

\* lookup_canonical; a row of the conversation is one of this conversation.
Known == {row \in rows : row.signature = result.signature}

\* The Visualizer's model speaks of the goals told.
Show(told) ==
    /\ phase = "verified" /\ Known = {}
    /\ phase' = IF ShowAccepted(result, told) THEN "shown" ELSE "unshown"
    /\ UNCHANGED <<world, turn, draft, research, result, session, rows>>

\* Mutant: the nodes of the last answer replace the conversation's.
MergedSession_LastNodes(graph, focus) ==
    [nodes |-> graph.nodes, edges |-> session.edges \cup graph.edges, focus |-> focus]

\* merge_graphs: the attributes of a node are united.
MergedSession(graph, focus) ==
    LET old == session.nodes
        both == DOMAIN old \cup DOMAIN graph.nodes
        known(nodes, e) == IF e \in DOMAIN nodes THEN nodes[e] ELSE {}
    IN  [nodes |-> [e \in both |-> known(old, e) \cup known(graph.nodes, e)],
         edges |-> session.edges \cup graph.edges,
         focus |-> focus]

EndTurn ==
    /\ phase' = "idle" /\ draft' = NoDraft
    /\ research' = NoResearch /\ result' = NoResult
    /\ UNCHANGED <<world, turn>>

\* memory_write and merge_session_graph after an answer of this turn.
Remember ==
    LET row == Row(result)
        admitted == PolicyAdmits(row.signature, row.graph, row.focus) /\ RowIsValid(row)
    IN  /\ phase = "shown"
        /\ rows' = IF admitted THEN rows \cup {row} ELSE rows
        /\ session' = MergedSession(row.graph, row.focus)
        /\ EndTurn

\* cache_hydrate: the answer is a remembered one.
Hydrate(row) ==
    /\ RowIsValid(row)
    /\ session' = MergedSession(row.graph, SignedFocus(row.signature))
    /\ EndTurn
    /\ UNCHANGED rows

\* The signature just verified is one that was remembered.
Reuse(row) == phase = "verified" /\ row \in Known /\ Hydrate(row)

\* The question itself was asked before, by whomever.
Replay(row) ==
    /\ phase = "idle" /\ turn < MaxTurns
    /\ row \in rows /\ row.scope = "context_free" /\ row.draft \in Questions[turn + 1]
    /\ RowIsValid(row)
    /\ session' = MergedSession(row.graph, SignedFocus(row.signature))
    /\ turn' = turn + 1
    /\ UNCHANGED <<world, phase, draft, research, result, rows>>

\* The answer is a failure; memory and conversation stay as they were.
Fail ==
    /\ phase \in {"refused", "unshown"}
    /\ EndTurn
    /\ UNCHANGED <<session, rows>>

\* A user starts a conversation; rows of the last one are out of reach.
NewConversation ==
    /\ phase = "idle" /\ turn < MaxTurns /\ session # NoSession
    /\ session' = NoSession
    /\ rows' = {r \in rows : r.scope = "context_free"}
    /\ UNCHANGED <<world, turn, phase, draft, research, result>>

Next ==
    \/ turn < MaxTurns /\ \E q \in Questions[turn + 1] : Ask(q)
    \/ \E t \in Tasks(research.plan) : LookUp(t) \/ FollowRelations(t)
    \/ Finish
    \/ \E told \in SUBSET Goals(research.plan) : Show(told)
    \/ Remember
    \/ \E row \in rows : Reuse(row)
    \/ Fail
    \/ \E row \in rows : Replay(row)
    \/ NewConversation

Spec == Init /\ [][Next]_vars

-----------------------------------------------------------------------------
(* Properties.                                                             *)

(* Why completed research can be refused. Each is a question the Planner   *)
(* may ask and whose tasks all succeed.                                    *)

\* An attribute that the data do not have, that the conversation's record of
\* the entity was not asked for, or that another lookup of it does not ask.
AttributeIsLost(g) ==
    LET goal == research.plan.goals[g]
    IN  /\ goal.intent \in Profiles
        /\ \E e \in Ids(Refs(goal)) : \E a \in goal.attributes :
              \/ a \notin world.attributes[e]
              \/ e \in ContextIds(research.plan) /\ a \notin session.nodes[e]
              \/ \E t \in Lookups(research.plan) : e \in Ids(t.refs) /\ a \notin t.attributes

\* Several subjects with nothing said about how to combine them: a set of the
\* conversation or an earlier result turned out to have several members.
IsUncombined(g) ==
    LET goal == research.plan.goals[g]
    IN  /\ goal.intent \notin Profiles \cup {"locate"}
        /\ goal.aggregation = "none"
        /\ Cardinality(Results(research)[g].subjects) > 1

\* Target types that are alternatives to the search and all required after.
HasAlternatives(g) == Cardinality(research.plan.goals[g].targets) > 1

\* A control goal on an earlier result: its second stage counts as skipped
\* when explicit control was found, whatever became of the first.
LooksSkipped(g) ==
    LET goal == research.plan.goals[g]
    IN  goal.intent = "controlled_companies" /\ Inputs(goal) # {}

\* An intersection one of whose results is a subject, related to itself.
ResultIsSubject(g) ==
    /\ research.plan.goals[g].aggregation = "intersection"
    /\ Results(research)[g].results \cap Results(research)[g].subjects # {}

\* A profile of both a named entity and an earlier result.
MixesProfile(g) ==
    LET goal == research.plan.goals[g]
    IN  goal.intent \in Profiles /\ Inputs(goal) # {} /\ Refs(goal) # {}

\* A profile of a kind that its target types do not name.
AsksAnotherKind(g) ==
    LET goal == research.plan.goals[g]
    IN  goal.intent \in Profiles /\ ~(goal.targets \subseteq {ProfileKind(goal)})

\* A goal that no task completes: a profile that takes its entities from an
\* earlier result only, or that only a lookup of another kind covers.
HasNoTask(g) == TasksForGoal(research.plan, g) = {}

\* More subjects, results or focus members than a signature holds.
IsTooLong(g) ==
    LET r == Results(research)[g]
    IN  \E ids \in {r.subjects, r.objects \cup r.results, r.focus} :
           Cardinality(ids) > MaxSigned

\* Research whose every task is complete is refused for one of nine reasons,
\* all of which the plan, the data and the conversation show: no other check of
\* the signature ever fails on what the tools returned (_finish,
\* validate_signature_records).
RefusedForAReason ==
    phase = "refused" =>
       \E g \in Goals(research.plan) :
          \/ AttributeIsLost(g) \/ IsUncombined(g) \/ HasAlternatives(g)
          \/ LooksSkipped(g) \/ ResultIsSubject(g) \/ MixesProfile(g) \/ IsTooLong(g)
          \/ AsksAnotherKind(g) \/ HasNoTask(g)

\* The goal names no objects and takes none from an earlier goal.
AsksNoObject(goal) == goal.objects = {} /\ goal.objectGoals = {}

\* An empty profile of an earlier result, or one without a task, keeps nothing
\* in view, and an empty search for a location that names one fewer entities
\* than it signs. An object that is named and not reached is selected, but not
\* signed where others are reached.
CannotBeShown(g) ==
    LET goal == research.plan.goals[g]
        r == Results(research)[g]
    IN  \/ goal.intent \in Profiles /\ (Inputs(goal) # {} \/ HasNoTask(g))
        \/ goal.intent = "locate" /\ ~AsksNoObject(goal)
        \/ /\ goal.intent \notin Profiles /\ goal.aggregation # "direct"
           /\ r.results # {} /\ ~(Ids(goal.objects) \subseteq r.results)

\* What the Researcher accepted the Visualizer can show: the two validate the
\* same signature against different catalogues, and some choice of answer
\* records is accepted, but for three forms of goal (visualizer.py, _project).
VerifiedCanBeShown ==
    phase = "verified" =>
       \/ \E told \in SUBSET Goals(research.plan) : ShowAccepted(result, told)
       \/ \E g \in Goals(research.plan) : CannotBeShown(g)

\* A non-empty answer that is shown passes the policy and the store, and the
\* row made of it: no answer is shown and then lost to a check that disagrees
\* (policy.py, chroma_store.py).
ShownIsRemembered ==
    phase = "shown" /\ ~NoMatch(result.signature) =>
       LET row == Row(result)
       IN  PolicyAdmits(row.signature, row.graph, row.focus) /\ RowIsValid(row)

(* What a goal asks of the data, without tasks, receipts or projections.   *)

\* The relation types that decide a goal: explicit control is preferred.
DecidingTypes(goal, subjects, objects) ==
    IF goal.intent # "controlled_companies" THEN goal.types
    ELSE IF \E f \in world.facts : /\ f.type = "controls" /\ f.source \in subjects
                                   /\ AsksNoObject(goal) \/ f.target \in objects
         THEN {"controls"} ELSE ControlFallbackTypes

Related(goal, types, s, n) ==
    \E f \in world.facts :
       /\ types = {} \/ f.type \in types
       /\ \/ goal.direction # "incoming" /\ f.source = s /\ f.target = n
          \/ goal.direction # "outgoing" /\ f.target = s /\ f.source = n

Reached(goal, subjects, objects) ==
    LET types == DecidingTypes(goal, subjects, objects)
        operands == subjects \cup objects
        linked(s, n) == Related(goal, types, s, n)
    IN  IF goal.intent \in Profiles THEN Ids(Refs(goal))
        ELSE IF goal.aggregation = "direct"
        THEN {x \in operands : \E y \in operands : linked(x, y) \/ linked(y, x)}
        ELSE {n \in Entities :
                /\ AsksNoObject(goal) \/ n \in objects
                /\ goal.targets = {} \/ Kind(n) \in goal.targets
                /\ IF goal.aggregation = "intersection"
                   THEN subjects # {} /\ \A s \in subjects : linked(s, n)
                   ELSE \E s \in subjects : linked(s, n)}

\* A union and an intersection ask for neighbours outside of their operands:
\* "union returns the outside neighbours linked to at least one operand,
\* intersection the common outside neighbours" (schemas.py, ResearchGoal;
\* the Planner's prompt in prompts.py says the same).
AsksOutside(goal) ==
    goal.intent \notin Profiles /\ goal.aggregation \in {"union", "intersection"}

TrueResult(goal, subjects, objects) ==
    Reached(goal, subjects, objects) \ (IF AsksOutside(goal) THEN subjects ELSE {})

TrueResults ==
    LET goals == research.plan.goals
        true[g \in Goals(research.plan)] ==
            LET from(hs) == UNION {true[h] : h \in hs}
            IN  TrueResult(goals[g], Ids(goals[g].subjects) \cup from(goals[g].subjectGoals),
                           Ids(goals[g].objects) \cup from(goals[g].objectGoals))
    IN  true

\* Control is only ever asked from the controller to the controlled.
AsksControlBackwards(g) ==
    /\ research.plan.goals[g].intent = "controlled_companies"
    /\ research.plan.goals[g].direction # "outgoing"

\* A direct goal on an earlier result whose operands are not all subjects: its
\* relations are looked for from the subjects to the objects only.
SplitsOperands(g) ==
    LET goal == research.plan.goals[g]
    IN  /\ goal.aggregation = "direct" /\ Inputs(goal) # {}
        /\ Refs(goal) # {} \/ goal.objectGoals # {}

\* A union or an intersection whose operands are tied to each other or to
\* themselves: the code counts them as neighbours, and shows them as results
\* (researcher.py, _project_goal_relations).
ReachesOperand(g) ==
    LET goal == research.plan.goals[g]
        subjects == Ids(goal.subjects) \cup UNION {TrueResults[h] : h \in goal.subjectGoals}
        objects == Ids(goal.objects) \cup UNION {TrueResults[h] : h \in goal.objectGoals}
    IN  AsksOutside(goal) /\ Reached(goal, subjects, objects) \cap subjects # {}

\* The results of an answer that is shown are those the question has in the
\* data, goal after goal, whatever the order of the calls: nothing missing and
\* nothing added by the filters of the tools, the receipts of two control
\* stages or the records of the conversation. Three forms of question are
\* excepted by name.
AnswerIsTrue ==
    phase = "shown" /\ (\A g \in Goals(research.plan) : /\ ~AsksControlBackwards(g)
                                                       /\ ~SplitsOperands(g)
                                                       /\ ~ReachesOperand(g)) =>
       \A g \in Goals(research.plan) : Results(research)[g].results = TrueResults[g]

\* A follow-up can refer to every member of the focus (_trusted_focus_members).
FocusIsKnown == session.focus \subseteq DOMAIN session.nodes

\* A record of the conversation holds only what the data say of its entity.
RecordsAreTrue == \A e \in DOMAIN session.nodes : session.nodes[e] \subseteq world.attributes[e]

\* The conversation's graph has a record, and a true one, of all that a
\* follow-up may refer to, the ends of every relation included: after a
\* remembered answer as after a new one, through lookups, ends of relations
\* and merges.
SessionIsGrounded ==
    FocusIsKnown /\ RecordsAreTrue /\ Endpoints(session.edges) \subseteq DOMAIN session.nodes

\* Research whose names are known is never left with tasks that wait for each
\* other, for a branch that was skipped or for an input that stayed empty: there
\* is a task to call until the last is complete, but for a goal that depends on
\* one without a task (_ready_contracts).
NobodyWaits ==
    phase = "research" =>
       \/ Complete
       \/ \E t \in Tasks(research.plan) \ research.done :
             t.scope = "lookup" \/ IsReady(t, Results(research))
       \/ \E g \in Goals(research.plan) : \E h \in research.plan.goals[g].depends : HasNoTask(h)

(* What the code says of itself and does not do.                           *)

\* A goal is only followed when every goal it depends on is complete: a lookup
\* that profiles share counts as the task of each, so that "downstream goal
\* dependencies cannot silently omit it" (planner.py, task_ids_for_goal).
DependenciesAreKept ==
    [][\A t \in Tasks(research.plan) :
          t.scope # "lookup" /\ FollowRelations(t) =>
             \A h \in research.plan.goals[t.goal].depends :
                Results(research)[h].complete]_vars

=============================================================================
