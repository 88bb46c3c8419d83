------------------------ MODULE VerifiedAnswerProofs ------------------------
(***************************************************************************)
(* The way of an answer, for any data, questions and number of turns, from *)
(* two invariants. GroundedInv says that every place a record can be in    *)
(* holds true ones. AnswerInv says what the calls amount to: the plan is   *)
(* sound; every receipt is what the data have between the operands its     *)
(* goal still has, since those are settled before the call is made; every  *)
(* name and every end of a relation has a record; and the verdict of the   *)
(* Researcher and the Visualizer is what their checks say of that. The     *)
(* properties then are about the goals one by one, in their order.         *)
(***************************************************************************)
EXTENDS VerifiedAnswer, GoalResultsProofs

TrueRecords(nodes) == \A e \in DOMAIN nodes : nodes[e] \subseteq world.attributes[e]

\* Every place a record can be in holds true ones, and what is shown has its
\* focus among its nodes.
GroundedInv ==
    /\ DOMAIN research = {"plan", "done", "found", "records"}
    /\ TrueRecords(research.records)
    /\ TrueRecords(result.catalog)
    /\ TrueRecords(session.nodes)
    /\ \A row \in rows : TrueRecords(row.graph.nodes)
    /\ session.focus \subseteq DOMAIN session.nodes
    /\ phase = "shown" =>
          SignedFocus(result.signature) \subseteq DOMAIN ShownGraph(result).nodes

-----------------------------------------------------------------------------

\* The last of two true records is a true one.
LEMMA OverlayIsTrue ==
  ASSUME NEW old, NEW new, TrueRecords(old), TrueRecords(new)
  PROVE  TrueRecords(Overlay(old, new))
BY DEF TrueRecords, Overlay

\* The catalogue takes records of the conversation.
LEMMA CatalogIsTrue == GroundedInv => TrueRecords(Catalog)
<1> SUFFICES ASSUME GroundedInv PROVE TrueRecords(Catalog)
  OBVIOUS
<1> DEFINE context == [e \in ContextIds(research.plan) \cap DOMAIN session.nodes
                          |-> session.nodes[e]]
<1>1. TrueRecords(context)
  BY DEF GroundedInv, TrueRecords
<1> HIDE DEF context
<1>2. TrueRecords(Overlay(research.records, context))
  BY <1>1, OverlayIsTrue DEF GroundedInv
<1> QED
  BY <1>2 DEF Catalog, context

\* What is shown is part of the catalogue.
LEMMA ShownIsTrue ==
  ASSUME NEW r, TrueRecords(r.catalog)
  PROVE  TrueRecords(ShownGraph(r).nodes)
BY DEF TrueRecords, ShownGraph

\* merge_graphs unites attributes that are all the data's.
LEMMA MergeIsGrounded ==
  ASSUME TrueRecords(session.nodes), NEW graph, NEW focus,
         TrueRecords(graph.nodes), focus \subseteq DOMAIN graph.nodes
  PROVE  LET merged == MergedSession(graph, focus)
         IN  TrueRecords(merged.nodes) /\ merged.focus \subseteq DOMAIN merged.nodes
<1> DEFINE both == DOMAIN session.nodes \cup DOMAIN graph.nodes
           known(nodes, e) == IF e \in DOMAIN nodes THEN nodes[e] ELSE {}
           nodes == [e \in both |-> known(session.nodes, e) \cup known(graph.nodes, e)]
<1>1. MergedSession(graph, focus).nodes = nodes /\ MergedSession(graph, focus).focus = focus
  BY DEF MergedSession
<1>2. TrueRecords(nodes)
  <2> SUFFICES ASSUME NEW e \in both PROVE nodes[e] \subseteq world.attributes[e]
    BY DEF TrueRecords
  <2>1. /\ known(session.nodes, e) \subseteq world.attributes[e]
        /\ known(graph.nodes, e) \subseteq world.attributes[e]
    BY DEF TrueRecords
  <2> QED
    BY <2>1
<1>3. focus \subseteq DOMAIN nodes
  OBVIOUS
<1> HIDE DEF nodes
<1> QED
  BY <1>1, <1>2, <1>3

\* The first conversation knows nothing.
LEMMA GroundedInvInit == Init => GroundedInv
BY DEF Init, GroundedInv, TrueRecords, NoResearch, NoResult, NoSession, EmptyMap

-----------------------------------------------------------------------------
(* Each kind of step keeps the invariant.                                  *)

\* A tool returns records of the data.
LEMMA CallKeeps ==
  ASSUME GroundedInv, NEW t, LookUp(t) \/ FollowRelations(t)
  PROVE  GroundedInv'
<1>1. PICK facts, records : AddReceipt(t, facts, records) /\ TrueRecords(records)
  <2>1. CASE LookUp(t)
    BY <2>1 DEF LookUp, LookupRecords, TrueRecords
  <2>2. CASE FollowRelations(t)
    BY <2>2 DEF FollowRelations, EndpointRecords, TrueRecords
  <2> QED
    BY <2>1, <2>2
<1>2. UNCHANGED <<world, phase, result, session, rows>> /\ phase = "research"
  BY DEF LookUp, FollowRelations
<1>3. /\ DOMAIN research' = DOMAIN research
      /\ research'.records = Overlay(research.records, records)
  BY <1>1 DEF AddReceipt, GroundedInv
<1>4. TrueRecords(research'.records)
  BY <1>1, <1>3, OverlayIsTrue DEF GroundedInv
<1> QED
  BY <1>2, <1>3, <1>4 DEF GroundedInv, TrueRecords

\* The Researcher's result has the catalogue it was checked against.
LEMMA FinishKeeps ==
  ASSUME GroundedInv, Finish
  PROVE  GroundedInv'
<1>1. TrueRecords(Catalog)
  BY CatalogIsTrue
<1>2. UNCHANGED <<world, session, rows>>
  BY DEF Finish
<1>3. CASE phase' = "refused" /\ UNCHANGED <<research, result>>
  BY <1>2, <1>3 DEF GroundedInv, TrueRecords
<1>4. CASE /\ phase' = "verified" /\ research' = [research EXCEPT !.records = Catalog]
           /\ result'.catalog = Catalog
  <2>1. DOMAIN research' = DOMAIN research /\ research'.records = Catalog
    BY <1>4 DEF GroundedInv
  <2> QED
    BY <1>1, <1>2, <1>4, <2>1 DEF GroundedInv, TrueRecords
<1> QED
  BY <1>3, <1>4 DEF Finish

\* The Visualizer shows nothing whose focus has no record.
LEMMA ShowKeeps ==
  ASSUME GroundedInv, NEW told, Show(told)
  PROVE  GroundedInv'
<1>1. UNCHANGED <<world, research, result, session, rows>>
  BY DEF Show
<1>2. phase' = "shown" =>
        SignedFocus(result.signature) \subseteq DOMAIN ShownGraph(result).nodes
  BY DEF Show, ShowAccepted
<1>3. ShownGraph(result)' = ShownGraph(result)
      /\ SignedFocus(result.signature)' = SignedFocus(result.signature)
  BY <1>1 DEF ShownGraph, SignedFocus, SignedFacts, Union
<1> QED
  BY <1>1, <1>2, <1>3 DEF GroundedInv, TrueRecords

\* What joins the conversation at the end of a turn is shown or remembered.
LEMMA AnswerKeeps ==
  ASSUME GroundedInv, NEW graph, NEW focus, TrueRecords(graph.nodes),
         focus \subseteq DOMAIN graph.nodes,
         session' = MergedSession(graph, focus), world' = world,
         research' = NoResearch, result' = NoResult, phase' = "idle",
         \A row \in rows' : TrueRecords(row.graph.nodes)
  PROVE  GroundedInv'
<1>1. TrueRecords(session'.nodes) /\ session'.focus \subseteq DOMAIN session'.nodes
  BY MergeIsGrounded DEF GroundedInv
<1> QED
  BY <1>1 DEF GroundedInv, TrueRecords, NoResearch, NoResult, EmptyMap

\* An answer of this turn is remembered as it is shown.
LEMMA RememberKeeps ==
  ASSUME GroundedInv, Remember
  PROVE  GroundedInv'
<1>1. /\ Row(result).graph = ShownGraph(result)
      /\ Row(result).focus = SignedFocus(result.signature)
  BY DEF Row
<1>2. TrueRecords(Row(result).graph.nodes)
      /\ Row(result).focus \subseteq DOMAIN Row(result).graph.nodes
  BY <1>1, ShownIsTrue DEF GroundedInv, Remember
<1>3. \A row \in rows' : TrueRecords(row.graph.nodes)
  BY <1>2 DEF Remember, GroundedInv
<1> QED
  BY <1>2, <1>3, AnswerKeeps DEF Remember, EndTurn

\* A remembered answer is checked before it is shown.
LEMMA ReuseKeeps ==
  ASSUME GroundedInv, NEW row \in rows, Reuse(row)
  PROVE  GroundedInv'
<1>1. TrueRecords(row.graph.nodes) /\ \A x \in rows : TrueRecords(x.graph.nodes)
  BY DEF GroundedInv
<1>2. SignedFocus(row.signature) \subseteq DOMAIN row.graph.nodes
  BY DEF Reuse, Hydrate, RowIsValid
<1> QED
  BY <1>1, <1>2, AnswerKeeps DEF Reuse, Hydrate, EndTurn

\* So is one that answers the question itself.
LEMMA ReplayKeeps ==
  ASSUME GroundedInv, NEW row \in rows, Replay(row)
  PROVE  GroundedInv'
<1>1. TrueRecords(row.graph.nodes)
  BY DEF GroundedInv
<1>2. SignedFocus(row.signature) \subseteq DOMAIN row.graph.nodes
  BY DEF Replay, RowIsValid
<1>3. TrueRecords(session'.nodes) /\ session'.focus \subseteq DOMAIN session'.nodes
  BY <1>1, <1>2, MergeIsGrounded DEF GroundedInv, Replay
<1>4. UNCHANGED <<world, phase, research, result, rows>> /\ phase = "idle"
  BY DEF Replay
<1> QED
  BY <1>3, <1>4 DEF GroundedInv, TrueRecords

\* The other steps bring no records.
LEMMA RestKeeps ==
  ASSUME GroundedInv,
         (\E q : Ask(q)) \/ Fail \/ NewConversation \/ UNCHANGED vars
  PROVE  GroundedInv'
<1>1. CASE \E q : Ask(q)
  <2>1. PICK q : Ask(q)
    BY <1>1
  <2>2. /\ UNCHANGED <<world, result, session, rows>> /\ phase' = "research"
        /\ DOMAIN research' = {"plan", "done", "found", "records"}
        /\ research'.records = EmptyMap
    BY <2>1 DEF Ask, NoResearch
  <2> QED
    BY <2>2 DEF GroundedInv, TrueRecords, EmptyMap
<1>2. CASE Fail
  BY <1>2 DEF Fail, EndTurn, GroundedInv, TrueRecords, NoResearch, NoResult, EmptyMap
<1>3. CASE NewConversation
  <2>1. /\ UNCHANGED <<world, phase, research, result>> /\ phase = "idle"
        /\ session' = NoSession /\ rows' \subseteq rows
    BY <1>3 DEF NewConversation
  <2> QED
    BY <2>1 DEF GroundedInv, TrueRecords, NoSession, EmptyMap
<1>4. CASE UNCHANGED vars
  <2>1. UNCHANGED <<world, phase, research, result, session, rows>>
    BY <1>4 DEF vars
  <2>2. ShownGraph(result)' = ShownGraph(result)
        /\ SignedFocus(result.signature)' = SignedFocus(result.signature)
    BY <2>1 DEF ShownGraph, SignedFocus, SignedFacts, Union
  <2> QED
    BY <2>1, <2>2 DEF GroundedInv, TrueRecords
<1> QED
  BY <1>1, <1>2, <1>3, <1>4


-----------------------------------------------------------------------------
(* The invariant of an answer's way: what is in the plan, the receipts, the *)
(* records and the verdict. It needs no strengthening by GroundedInv.      *)

\* There is a task to call until the last one is complete.
LEMMA SomethingIsReady ==
  ASSUME InOrder(research.plan), LegalTasks(research.plan)
  PROVE  NobodyWaits
<1> DEFINE plan == research.plan
           R == Results(research)
           Called(t) == t.scope = "lookup" \/ IsReady(t, R)
<1> SUFFICES ASSUME phase = "research", ~Complete,
                    \A t \in Tasks(plan) \ research.done : ~Called(t),
                    \A g \in Goals(plan) : \A h \in plan.goals[g].depends :
                       TasksForGoal(plan, h) # {}
             PROVE  FALSE
  BY DEF NobodyWaits, HasNoTask
<1>1. Lookups(plan) \subseteq research.done
  BY LookupsAre DEF Tasks
<1>2. PICK n \in Nat : Goals(plan) = 1..n
  BY DEF InOrder
<1> DEFINE S == {g \in 1..n : R[g].called}
<1>3. ~(1..n \subseteq S)
  BY <1>1, <1>2 DEF Complete
<1>4. PICK g \in 1..n : g \notin S /\ \A h \in 1..(g - 1) : h \in S
  <2> HIDE DEF S
  <2> QED
    BY <1>3, Smallest
<1> DEFINE goal == plan.goals[g]
           r == R[g]
<1>5. ~r.called /\ g \in Goals(plan) /\ g - 1 \in Nat /\ 1..(g - 1) \subseteq Goals(plan)
  BY <1>2, <1>4
<1>6. goal.depends \subseteq 1..(g - 1) /\ Inputs(goal) \subseteq goal.depends
  BY <1>5 DEF InOrder
<1>7. \A h \in 1..(g - 1) : TasksForGoal(plan, h) # {} => R[h].complete
  <2>1. \A h \in 1..(g - 1) : R[h].called
    BY <1>4
  <2>2. \A h \in 1..(g - 1) : \A k \in plan.goals[h].depends : TasksForGoal(plan, k) # {}
    BY <1>5
  <2> QED
    BY <1>5, <2>1, <2>2, CalledIsComplete
<1>8. \A h \in goal.depends : R[h].called /\ R[h].complete
  BY <1>4, <1>5, <1>6, <1>7
<1>9. r.open = TRUE
  <2>1. r.open = (/\ \A h \in goal.depends : R[h].called
                  /\ \A h \in Inputs(goal) : R[h].complete)
    BY <1>5, ResultParts
  <2> QED
    BY <1>6, <1>8, <2>1
<1>10. PICK t \in TasksForGoal(plan, g) :
          t \notin research.done /\ t \notin SkippedOf(research, g, r)
  BY <1>5, ResultParts DEF IsComplete
<1>11. goal.intent \notin Profiles /\ t \in RelationTasks(plan, g)
  BY <1>1, <1>10 DEF TasksForGoal
<1>12. t.goal = g /\ t.refs = Refs(goal) /\ t.scope # "lookup"
  BY <1>11, RelationTasksAre
<1>13. \A x \in RelationTasks(plan, g) : x \in Tasks(plan)
  BY <1>5 DEF Tasks
<1> DEFINE skipped == Skipped(research, g, r.subjects, r.objects, TRUE)
<1>14. SkippedOf(research, g, r) = skipped
  BY <1>9 DEF SkippedOf
<1>15. ASSUME NEW x \in RelationTasks(plan, g), x \notin research.done, x \notin skipped,
              x.scope = "control_fallback" =>
                 [x EXCEPT !.scope = "control_explicit"] \in research.done
       PROVE  FALSE
  <2>1. x.goal = g /\ x.refs = Refs(goal) /\ x.scope # "lookup"
    BY <1>15, RelationTasksAre
  <2>2. ASSUME NEW ref \in Named(x.refs)
        PROVE  \E l \in research.done : l.scope = "lookup" /\ ref \in l.refs
    <3>1. ref \in Named(PlanRefs(plan))
      BY <1>5, <2>1 DEF Named, PlanRefs
    <3> QED
      BY <1>1, <3>1, LookupsAre DEF LegalTasks
  <2>3. MayCall(x, R)
    BY <1>9, <1>15, <2>1, <2>2 DEF MayCall
  <2>4. IsReady(x, R)
    BY <1>15, <2>1, <2>3 DEF IsReady
  <2> QED
    BY <1>13, <1>15, <2>4
<1>16. t.scope = "control_fallback" /\ [t EXCEPT !.scope = "control_explicit"] \notin research.done
  BY <1>10, <1>11, <1>14, <1>15
<1> DEFINE e == [t EXCEPT !.scope = "control_explicit"]
<1>17. e \in RelationTasks(plan, g) /\ e.scope = "control_explicit"
  <2>1. goal.intent = "controlled_companies"
    BY <1>11, <1>16, RelationTasksAre DEF RelationTask
  <2>2. t = RelationTask(plan, g, "control_fallback")
    BY <1>11, <1>16, RelationTasksAre
  <2>3. e = RelationTask(plan, g, "control_explicit")
    BY <2>2 DEF RelationTask
  <2> QED
    BY <2>1, <2>3, RelationTasksAre DEF RelationTask
<1>18. e \notin skipped
  <2>1. e \in skipped => t \in skipped
    BY <1>10, <1>11, <1>17 DEF Skipped
  <2> QED
    BY <1>10, <1>14, <2>1
<1> HIDE DEF e
<1> QED
  BY <1>15, <1>16, <1>17, <1>18 DEF e

Verified == {"verified", "shown", "unshown"}

\* The calls made are of tasks of a sound plan, which refers to what the
\* conversation knows.
PlanInv ==
    /\ world \in Worlds /\ turn \in Nat
    /\ DOMAIN research = {"plan", "done", "found", "records"}
    /\ phase # "idle" => /\ SoundPlan(research.plan)
                         /\ ContextIds(research.plan) \subseteq DOMAIN session.nodes
                         /\ research.done \subseteq Tasks(research.plan)

\* A call of relations was made where it was due, and brought all that the data
\* have between what the goal's operands still are.
IsReceipt(t) ==
    LET goal == research.plan.goals[t.goal]
        r == Results(research)[t.goal]
    IN  /\ r.open /\ ~HasEmptyInput(goal, r)
        /\ AreLookedUp(research, t.refs)
        /\ research.found[t] =
              QueryRelations(world, AskedTypes(research.plan, t),
                             AskedDirection(research.plan, t), r.subjects, r.objects)

ReceiptsInv ==
    phase # "idle" => \A t \in research.done : t.scope # "lookup" => IsReceipt(t)

\* Whatever was looked up or found has a record; until the Researcher adds those
\* of the conversation, it is one a tool returned.
IsReturned(e) ==
    \/ research.records[e] = world.attributes[e]
    \/ \E t \in research.done :
          /\ t.scope = "lookup" /\ e \in Ids(t.refs)
          /\ research.records[e] = world.attributes[e] \cap t.attributes

RecordsInv ==
    phase # "idle" =>
       /\ \A t \in research.done :
             /\ t.scope = "lookup" => Ids(t.refs) \subseteq DOMAIN research.records
             /\ t.scope # "lookup" => Endpoints(research.found[t]) \subseteq DOMAIN research.records
       /\ phase \in {"research", "refused"} => \A e \in DOMAIN research.records : IsReturned(e)

\* What a graph says of relations is about entities that it knows.
IsGraph(nodes, edges) == DOMAIN nodes \subseteq Entities /\ Endpoints(edges) \subseteq DOMAIN nodes

NodesInv ==
    /\ DOMAIN research.records \subseteq Entities
    /\ IsGraph(session.nodes, session.edges)
    /\ \A row \in rows : IsGraph(row.graph.nodes, row.graph.edges)

\* The research that the Researcher judges, and its verdict.
Completion == [research EXCEPT !.records = Catalog]

FinishPasses ==
    LET signature == Signature(Completion)
    IN  /\ \A g \in Goals(research.plan) : Results(Completion)[g].ready
        /\ FinishAccepted(signature, SelectedEntities(Completion, signature), Catalog)

VerdictInv ==
    /\ phase \notin {"idle", "research"} => Complete
    /\ phase = "refused" => ~FinishPasses
    /\ phase \in Verified =>
          /\ \A g \in Goals(research.plan) : Results(research)[g].ready
          /\ result.signature = Signature(research)
          /\ result.selected = SelectedEntities(research, result.signature)
          /\ result.catalog = research.records
          /\ ContextIds(research.plan) \subseteq DOMAIN research.records
          /\ FinishAccepted(result.signature, result.selected, result.catalog)
    /\ phase = "shown" => \E told : ShowAccepted(result, told)

AnswerInv ==
    PlanInv /\ ReceiptsInv /\ RecordsInv /\ NodesInv /\ VerdictInv

-----------------------------------------------------------------------------
\* Before the first question there is nothing to say.
LEMMA AnswerInvInit == Init => AnswerInv
<1> SUFFICES ASSUME Init PROVE AnswerInv
  OBVIOUS
<1>1. PlanInv /\ ReceiptsInv /\ RecordsInv /\ VerdictInv
  BY DEF Init, PlanInv, ReceiptsInv, RecordsInv, VerdictInv, NoResearch, Verified
<1>2. NodesInv
  BY DEF Init, NodesInv, IsGraph, NoResearch, NoSession, EmptyMap, Endpoints
<1> QED
  BY <1>1, <1>2 DEF AnswerInv

\* What the Planner asks is sound.
LEMMA AskKeeps ==
  ASSUME AnswerInv, turn < MaxTurns, NEW q \in Questions[turn + 1], Ask(q)
  PROVE  AnswerInv'
<1> DEFINE plan == ExpandPlan(q, TrustedFocus)
<1>1. q \in [goals : Seq(GoalType) \ {<<>>}, shared : BOOLEAN]
  <2>1. turn + 1 \in 1..Len(Questions)
    BY QuestionAssumption DEF AnswerInv, PlanInv, MaxTurns
  <2>2. Questions[turn + 1] \in SUBSET [goals : Seq(GoalType) \ {<<>>}, shared : BOOLEAN]
    BY <2>1, QuestionAssumption
  <2> QED
    BY <2>2
<1>2. TrustedFocus \in SUBSET Entities /\ TrustedFocus \subseteq DOMAIN session.nodes
  BY DEF TrustedFocus, AnswerInv, NodesInv, IsGraph
<1>3. SoundPlan(plan) /\ ContextIds(plan) \subseteq DOMAIN session.nodes
  BY <1>1, <1>2, AskedPlanIsSound DEF Ask, ContextIds
<1> HIDE DEF plan
<1>4. /\ research' = [NoResearch EXCEPT !.plan = plan] /\ phase' = "research"
      /\ turn' = turn + 1 /\ UNCHANGED <<world, result, session, rows>>
  BY DEF Ask, plan
<1>5. /\ DOMAIN research' = {"plan", "done", "found", "records"}
      /\ research'.plan = plan /\ research'.done = {} /\ research'.records = EmptyMap
  BY <1>4 DEF NoResearch
<1>6. PlanInv'
  <2>1. SoundPlan(research'.plan)
    BY <1>3, <1>5
  <2>2. ContextIds(research'.plan) \subseteq DOMAIN session'.nodes
    BY <1>3, <1>4, <1>5
  <2>3. world' \in Worlds /\ turn' \in Nat
    BY <1>4 DEF AnswerInv, PlanInv
  <2>4. research'.done \subseteq Tasks(research'.plan)
    BY <1>5
  <2> QED
    BY <1>5, <2>1, <2>2, <2>3, <2>4 DEF PlanInv
<1>7. ReceiptsInv' /\ RecordsInv'
  BY <1>4, <1>5 DEF ReceiptsInv, RecordsInv, EmptyMap
<1>8. NodesInv'
  BY <1>4, <1>5 DEF AnswerInv, NodesInv, EmptyMap
<1>9. VerdictInv'
  BY <1>4 DEF VerdictInv, Verified
<1> QED
  BY <1>6, <1>7, <1>8, <1>9 DEF AnswerInv

-----------------------------------------------------------------------------
(* The calls keep it: a receipt made stays one that is due, whatever is    *)
(* called after it.                                                        *)

\* A receipt stays one while research goes on.
LEMMA ReceiptStays ==
  ASSUME PlanInv, phase # "idle", NEW calls, Continues(research, research', calls),
         world' = world, NEW t \in Tasks(research.plan), t.scope # "lookup",
         IsReceipt(t), research'.found[t] = research.found[t]
  PROVE  IsReceipt(t)'
<1> DEFINE g == t.goal
           goal == research.plan.goals[g]
           r == Results(research)[g]
           s == Results(research')[g]
<1>1. research'.plan = research.plan /\ research'.done = research.done \cup calls
  BY DEF Continues
<1>2. Keeps(r, s)
  <2>1. g \in Goals(research.plan) /\ InOrder(research.plan)
    BY TasksAre, SoundIsInOrder DEF PlanInv
  <2> QED
    BY <2>1, CallsKeep
<1>3. r.open /\ ~HasEmptyInput(goal, r) /\ AreLookedUp(research, t.refs)
  BY DEF IsReceipt
<1>4. s.open /\ s.subjects = r.subjects /\ s.objects = r.objects
  BY <1>2, <1>3 DEF Keeps
<1>5. ~HasEmptyInput(goal, s)
  BY <1>3, <1>4 DEF HasEmptyInput
<1>6. AreLookedUp(research', t.refs)
  BY <1>1, <1>3 DEF AreLookedUp
<1>7. research'.found[t] =
         QueryRelations(world, AskedTypes(research.plan, t),
                        AskedDirection(research.plan, t), s.subjects, s.objects)
  BY <1>4 DEF IsReceipt
<1> QED
  BY <1>1, <1>4, <1>5, <1>6, <1>7 DEF IsReceipt

\* Any call keeps the invariant that answers what was asked of the data.
LEMMA ReceiptKeeps ==
  ASSUME AnswerInv, phase = "research", NEW t \in Tasks(research.plan) \ research.done,
         NEW facts, NEW records, AddReceipt(t, facts, records),
         UNCHANGED <<world, turn, phase, draft, result, session, rows>>,
         DOMAIN records \subseteq Entities,
         \A e \in DOMAIN records :
            \/ records[e] = world.attributes[e]
            \/ /\ t.scope = "lookup" /\ e \in Ids(t.refs)
               /\ records[e] = world.attributes[e] \cap t.attributes,
         t.scope = "lookup" => Ids(t.refs) \subseteq DOMAIN records,
         t.scope # "lookup" =>
            LET r == Results(research)[t.goal]
            IN  /\ r.open /\ ~HasEmptyInput(research.plan.goals[t.goal], r)
                /\ AreLookedUp(research, t.refs)
                /\ t \notin Skipped(research, t.goal, r.subjects, r.objects, TRUE)
                /\ facts = QueryRelations(world, AskedTypes(research.plan, t),
                                          AskedDirection(research.plan, t),
                                          r.subjects, r.objects)
                /\ Endpoints(facts) \subseteq DOMAIN records
  PROVE  AnswerInv'
<1>1. /\ DOMAIN research' = {"plan", "done", "found", "records"}
      /\ research'.plan = research.plan /\ research'.done = research.done \cup {t}
      /\ research'.found[t] = facts
      /\ \A u \in research.done : research'.found[u] = research.found[u]
      /\ research'.records = Overlay(research.records, records)
  BY DEF AddReceipt, AnswerInv, PlanInv
<1>2. /\ SoundPlan(research.plan) /\ InOrder(research.plan)
      /\ research.done \subseteq Tasks(research.plan)
  BY SoundIsInOrder DEF AnswerInv, PlanInv
<1>3. t.scope # "lookup" => t.goal \in Goals(research.plan)
  BY TasksAre
<1>4. Continues(research, research', {t})
  <2>1. ASSUME NEW g \in Goals(research.plan), t \in RelationTasks(research.plan, g)
        PROVE  t \notin Skipped(research, g, Results(research)[g].subjects,
                                Results(research)[g].objects, TRUE)
    <3>1. t.goal = g /\ t.scope # "lookup"
      BY <2>1, RelationTasksAre
    <3> QED
      BY <3>1
  <2> QED
    BY <1>1, <2>1 DEF Continues
<1>5. PlanInv'
  <2>1. SoundPlan(research'.plan) /\ ContextIds(research'.plan) \subseteq DOMAIN session'.nodes
    BY <1>1, <1>2 DEF AnswerInv, PlanInv
  <2>2. research'.done \subseteq Tasks(research'.plan)
    BY <1>1, <1>2
  <2>3. world' \in Worlds /\ turn' \in Nat
    BY DEF AnswerInv, PlanInv
  <2> QED
    BY <1>1, <2>1, <2>2, <2>3 DEF PlanInv
<1>6. ASSUME NEW u \in research'.done, u.scope # "lookup" PROVE IsReceipt(u)'
  <2>1. CASE u \in research.done
    BY <1>1, <1>2, <1>4, <1>6, <2>1, ReceiptStays DEF AnswerInv, ReceiptsInv
  <2>2. CASE u = t
    <3> DEFINE r == Results(research)[t.goal]
               s == Results(research')[t.goal]
               goal == research.plan.goals[t.goal]
    <3>1. r.open /\ ~HasEmptyInput(goal, r) /\ AreLookedUp(research, t.refs)
      BY <1>6, <2>2
    <3>2. facts = QueryRelations(world, AskedTypes(research.plan, t),
                                 AskedDirection(research.plan, t), r.subjects, r.objects)
      BY <1>6, <2>2
    <3>3. Keeps(r, s)
      BY <1>2, <1>3, <1>4, <1>6, <2>2, CallsKeep
    <3>4. s.open /\ s.subjects = r.subjects /\ s.objects = r.objects
      BY <3>1, <3>3 DEF Keeps
    <3>5. ~HasEmptyInput(goal, s)
      BY <3>1, <3>4 DEF HasEmptyInput
    <3>6. AreLookedUp(research', t.refs)
      BY <1>1, <3>1 DEF AreLookedUp
    <3> HIDE DEF r, s
    <3> QED
      BY <1>1, <2>2, <3>2, <3>4, <3>5, <3>6 DEF IsReceipt, s
  <2> QED
    BY <1>1, <2>1, <2>2
<1>7. ReceiptsInv'
  BY <1>6 DEF ReceiptsInv
<1>8. DOMAIN research'.records = DOMAIN research.records \cup DOMAIN records
  BY <1>1 DEF Overlay
<1>9. ASSUME NEW e \in DOMAIN research'.records PROVE IsReturned(e)'
  <2>1. CASE e \in DOMAIN records
    <3>1. research'.records[e] = records[e]
      BY <1>1, <2>1 DEF Overlay
    <3> QED
      BY <1>1, <2>1, <3>1 DEF IsReturned
  <2>2. CASE e \in DOMAIN research.records /\ e \notin DOMAIN records
    <3>1. research'.records[e] = research.records[e]
      BY <1>1, <2>2 DEF Overlay
    <3>2. IsReturned(e)
      BY <2>2 DEF AnswerInv, RecordsInv
    <3> QED
      BY <1>1, <3>1, <3>2 DEF IsReturned
  <2> QED
    BY <1>8, <2>1, <2>2
<1>10. ASSUME NEW u \in research'.done
       PROVE  /\ u.scope = "lookup" => Ids(u.refs) \subseteq DOMAIN research'.records
              /\ u.scope # "lookup" => Endpoints(research'.found[u]) \subseteq DOMAIN research'.records
  <2>1. CASE u = t
    BY <1>1, <1>8, <2>1
  <2>2. CASE u \in research.done
    BY <1>1, <1>8, <2>2 DEF AnswerInv, RecordsInv
  <2> QED
    BY <1>1, <2>1, <2>2
<1>11. RecordsInv'
  BY <1>9, <1>10 DEF RecordsInv
<1>12. NodesInv'
  BY <1>8 DEF AnswerInv, NodesInv
<1>13. VerdictInv'
  BY DEF VerdictInv, Verified
<1> QED
  BY <1>5, <1>7, <1>11, <1>12, <1>13 DEF AnswerInv

\* What a lookup of the plan brings.
LEMMA LookUpKeepsIt ==
  ASSUME AnswerInv, NEW t \in Tasks(research.plan), LookUp(t)
  PROVE  AnswerInv'
<1>1. t \in Lookups(research.plan)
  BY RelationTasksAre DEF Tasks, LookUp
<1>2. Ids(t.refs) \subseteq Entities
  BY <1>1, PlanIds DEF AnswerInv, PlanInv, LookUp
<1>3. /\ DOMAIN LookupRecords(world, t) = Ids(t.refs)
      /\ \A e \in Ids(t.refs) : LookupRecords(world, t)[e] = world.attributes[e] \cap t.attributes
  BY DEF LookupRecords
<1> QED
  BY <1>2, <1>3, ReceiptKeeps DEF LookUp

\* What relations are asked for is there, and is not empty.
LEMMA FollowKeepsIt ==
  ASSUME AnswerInv, NEW t \in Tasks(research.plan), FollowRelations(t)
  PROVE  AnswerInv'
<1> DEFINE r == Results(research)[t.goal]
           goal == research.plan.goals[t.goal]
           facts == QueryRelations(world, AskedTypes(research.plan, t),
                                   AskedDirection(research.plan, t), r.subjects, r.objects)
<1>1. phase = "research" /\ t.scope # "lookup" /\ t \notin research.done
  BY DEF FollowRelations
<1>2. t.goal \in Goals(research.plan) /\ t \in RelationTasks(research.plan, t.goal)
      /\ t.refs = Refs(goal)
  BY <1>1, TasksAre, RelationTasksAre
<1>3. r.open /\ AreLookedUp(research, t.refs)
      /\ t \notin Skipped(research, t.goal, r.subjects, r.objects, TRUE)
  BY DEF FollowRelations, IsReady, MayCall, AreLookedUp
<1>4. r.open = TRUE
  <2>1. InOrder(research.plan)
    BY <1>1, SoundIsInOrder DEF AnswerInv, PlanInv
  <2> QED
    BY <1>2, <1>3, <2>1, ResultParts
<1>5. ~HasEmptyInput(goal, r)
  <2> HIDE DEF r
  <2>1. t \notin Skipped(research, t.goal, r.subjects, r.objects, r.open)
    BY <1>3, <1>4
  <2>2. t \in Skipped(research, t.goal, r.subjects, r.objects, r.open) <=>
           /\ r.open /\ AreLookedUp(research, Refs(goal))
           /\ t \in RelationTasks(research.plan, t.goal) \ research.done
           /\ \/ HasEmptyInput(goal, r)
              \/ /\ t.scope = "control_fallback"
                 /\ FactsOf(research, Explicit(research.plan, t.goal)) # {}
    BY SkippedTasks
  <2>3. AreLookedUp(research, Refs(goal))
    BY <1>2, <1>3
  <2> HIDE DEF goal
  <2> QED
    BY <1>1, <1>2, <1>3, <2>1, <2>2, <2>3
<1>6. AddReceipt(t, facts, EndpointRecords(world, facts))
      /\ UNCHANGED <<world, turn, phase, draft, result, session, rows>>
  BY DEF FollowRelations
<1>7. Endpoints(facts) \subseteq Entities
  BY WorldAssumption DEF QueryRelations, Endpoints, AnswerInv, PlanInv
<1> HIDE DEF facts
<1>8. /\ DOMAIN EndpointRecords(world, facts) = Endpoints(facts)
      /\ \A e \in Endpoints(facts) : EndpointRecords(world, facts)[e] = world.attributes[e]
  BY DEF EndpointRecords
<1> DEFINE records == EndpointRecords(world, facts)
<1>9. /\ DOMAIN records \subseteq Entities /\ Endpoints(facts) \subseteq DOMAIN records
      /\ \A e \in DOMAIN records : records[e] = world.attributes[e]
  BY <1>7, <1>8
<1>10. facts = QueryRelations(world, AskedTypes(research.plan, t),
                              AskedDirection(research.plan, t), r.subjects, r.objects)
  BY DEF facts
<1> HIDE DEF records
<1>11. AddReceipt(t, facts, records)
  BY <1>6 DEF records
<1>12. t \in Tasks(research.plan) \ research.done
  BY <1>1
<1> HIDE DEF goal
<1> QED
  BY <1>1, <1>3, <1>5, <1>6, <1>9, <1>10, <1>11, <1>12, ReceiptKeeps DEF goal

-----------------------------------------------------------------------------
(* The verdicts, the end of a turn and the conversation keep it.           *)

\* A goal that is signed as empty has no relations and no records.
LEMMA EmptyHasNothing ==
  ASSUME NEW rs, InOrder(rs.plan), NEW g \in DOMAIN Signature(rs),
         Signature(rs)[g].status # "nonempty"
  PROVE  Signature(rs)[g].facts = {} /\ Signature(rs)[g].entities = {}
<1> DEFINE r == Results(rs)[g]
<1>1. DOMAIN Results(rs) = Goals(rs.plan)
  BY ResultsUnfold
<1>2. g \in Goals(rs.plan) /\ Signature(rs)[g] = SignedGoal(rs, g, r)
  BY <1>1 DEF Signature
<1>3. IsResult(rs, g, r) /\ IsInView(rs, g, r)
  BY <1>2, ResultParts
<1> HIDE DEF r
<1>4. /\ Signature(rs)[g].facts = r.facts /\ Signature(rs)[g].entities = r.entities
      /\ ~r.nonempty
  BY <1>2 DEF SignedGoal
<1>5. r.facts = {}
  BY <1>3, <1>4 DEF IsResult
<1>6. r.entities = {}
  BY <1>3, <1>4 DEF IsInView
<1> QED
  BY <1>4, <1>5, <1>6

\* Nothing changes but the verdict.
LEMMA ResearchStays ==
  ASSUME AnswerInv, UNCHANGED <<world, turn, research, session, rows>>,
         phase = "idle" => phase' = "idle",
         phase' \in {"research", "refused"} => phase \in {"research", "refused"}
  PROVE  /\ PlanInv' /\ ReceiptsInv' /\ RecordsInv' /\ NodesInv'
         /\ Complete' = Complete /\ FinishPasses' = FinishPasses
<1>1. PlanInv'
  BY DEF AnswerInv, PlanInv, ContextIds
<1>2. ReceiptsInv'
  BY DEF AnswerInv, ReceiptsInv, IsReceipt
<1>3. RecordsInv'
  BY DEF AnswerInv, RecordsInv, IsReturned
<1>4. NodesInv'
  BY DEF AnswerInv, NodesInv
<1>5. Complete' = Complete
  BY DEF Complete
<1>6. Catalog' = Catalog
  BY DEF Catalog, ContextIds
<1>7. Completion' = Completion
  BY <1>6 DEF Completion
<1>8. FinishPasses' = FinishPasses
  BY <1>6, <1>7 DEF FinishPasses
<1> QED
  BY <1>1, <1>2, <1>3, <1>4, <1>5, <1>8

\* The Researcher's verdict is on what its tools returned.
LEMMA FinishKeepsIt ==
  ASSUME AnswerInv, Finish
  PROVE  AnswerInv'
<1>1. phase = "research" /\ Complete /\ UNCHANGED <<world, turn, draft, session, rows>>
  BY DEF Finish
<1>2. \/ FinishPasses /\ phase' = "verified" /\ research' = Completion
         /\ LET signature == Signature(Completion)
            IN  result' = [signature |-> signature,
                           selected |-> SelectedEntities(Completion, signature),
                           catalog |-> Catalog]
      \/ ~FinishPasses /\ phase' = "refused" /\ UNCHANGED <<research, result>>
  BY DEF Finish, FinishPasses, Completion
<1>3. CASE ~FinishPasses /\ phase' = "refused" /\ UNCHANGED <<research, result>>
  <2>1. PlanInv' /\ ReceiptsInv' /\ RecordsInv' /\ NodesInv' /\ Complete' /\ ~FinishPasses'
    BY <1>1, <1>3, ResearchStays
  <2>2. VerdictInv'
    BY <1>3, <2>1 DEF VerdictInv, Verified
  <2> QED
    BY <2>1, <2>2 DEF AnswerInv
<1>4. CASE FinishPasses /\ phase' = "verified" /\ research' = Completion
           /\ LET signature == Signature(Completion)
              IN  result' = [signature |-> signature,
                             selected |-> SelectedEntities(Completion, signature),
                             catalog |-> Catalog]
  <2>1. /\ DOMAIN research' = {"plan", "done", "found", "records"}
        /\ research'.plan = research.plan /\ research'.done = research.done
        /\ research'.found = research.found /\ research'.records = Catalog
    BY <1>4 DEF Completion, AnswerInv, PlanInv
  <2>2. Continues(research, research', {})
    BY <2>1 DEF Continues
  <2>3. /\ SoundPlan(research.plan) /\ InOrder(research.plan)
        /\ research.done \subseteq Tasks(research.plan)
    BY <1>1, SoundIsInOrder DEF AnswerInv, PlanInv
  <2>4. PlanInv'
    BY <1>1, <2>1 DEF AnswerInv, PlanInv, ContextIds
  <2>5. ReceiptsInv'
    <3> SUFFICES ASSUME NEW t \in research.done, t.scope # "lookup" PROVE IsReceipt(t)'
      BY <2>1 DEF ReceiptsInv
    <3> QED
      BY <1>1, <2>1, <2>2, <2>3, ReceiptStays DEF AnswerInv, ReceiptsInv
  <2>6. DOMAIN Catalog = DOMAIN research.records
                           \cup (ContextIds(research.plan) \cap DOMAIN session.nodes)
    BY DEF Catalog, Overlay
  <2>7. RecordsInv'
    BY <1>1, <1>4, <2>1, <2>6 DEF AnswerInv, RecordsInv
  <2>8. NodesInv'
    BY <1>1, <2>1, <2>6 DEF AnswerInv, NodesInv, IsGraph
  <2>9. Complete'
    <3>1. \A g \in Goals(research.plan) : Results(research')[g].called
      BY <1>1, <2>2, <2>3, CallsKeep DEF Complete, Keeps
    <3> QED
      BY <1>1, <2>1, <3>1 DEF Complete
  <2>10. /\ \A g \in Goals(research.plan) : Results(research')[g].ready
         /\ result'.signature = Signature(research')
         /\ result'.selected = SelectedEntities(research', result'.signature)
         /\ result'.catalog = research'.records
         /\ ContextIds(research'.plan) \subseteq DOMAIN research'.records
         /\ FinishAccepted(result'.signature, result'.selected, result'.catalog)
    BY <1>1, <1>4, <2>1, <2>6 DEF FinishPasses, AnswerInv, PlanInv
  <2>11. VerdictInv'
    BY <1>4, <2>1, <2>9, <2>10 DEF VerdictInv
  <2> QED
    BY <2>4, <2>5, <2>7, <2>8, <2>11 DEF AnswerInv
<1> QED
  BY <1>2, <1>3, <1>4

\* The Visualizer shows what it accepts.
LEMMA ShowKeepsIt ==
  ASSUME AnswerInv, NEW told, Show(told)
  PROVE  AnswerInv'
<1>1. /\ phase = "verified" /\ UNCHANGED <<world, turn, draft, research, result, session, rows>>
      /\ phase' = IF ShowAccepted(result, told) THEN "shown" ELSE "unshown"
  BY DEF Show
<1>2. PlanInv' /\ ReceiptsInv' /\ RecordsInv' /\ NodesInv' /\ Complete' = Complete
  BY <1>1, ResearchStays
<1>3. VerdictInv'
  BY <1>1, <1>2 DEF AnswerInv, VerdictInv, Verified, ContextIds
<1> QED
  BY <1>2, <1>3 DEF AnswerInv

\* A step of another component changes nothing here.
LEMMA StutterKeepsIt ==
  ASSUME AnswerInv, UNCHANGED vars
  PROVE  AnswerInv'
<1>1. UNCHANGED <<world, turn, phase, research, result, session, rows>>
  BY DEF vars
<1>2. /\ PlanInv' /\ ReceiptsInv' /\ RecordsInv' /\ NodesInv'
      /\ Complete' = Complete /\ FinishPasses' = FinishPasses
  BY <1>1, ResearchStays
<1>3. VerdictInv'
  BY <1>1, <1>2 DEF AnswerInv, VerdictInv, Verified, ContextIds
<1> QED
  BY <1>2, <1>3 DEF AnswerInv

\* Every relation that is shown has the records of its ends with it.
LEMMA ShownIsGraph ==
  ASSUME AnswerInv, phase = "shown"
  PROVE  IsGraph(ShownGraph(result).nodes, ShownGraph(result).edges)
<1> DEFINE nodes == ShownGraph(result).nodes
           signature == result.signature
<1>1. /\ signature = Signature(research) /\ result.catalog = research.records
      /\ InOrder(research.plan)
  BY SoundIsInOrder DEF AnswerInv, PlanInv, VerdictInv, Verified
<1>2. PICK told : ShowAccepted(result, told)
  BY DEF AnswerInv, VerdictInv
<1>3. DOMAIN nodes \subseteq Entities
  BY <1>1 DEF ShownGraph, AnswerInv, NodesInv
<1>4. ASSUME NEW g \in DOMAIN signature PROVE Endpoints(signature[g].facts) \subseteq DOMAIN nodes
  <2>1. CASE signature[g].status # "nonempty"
    <3>1. signature[g].facts = {}
      BY <1>1, <2>1, EmptyHasNothing
    <3> QED
      BY <3>1 DEF Endpoints
  <2>2. CASE signature[g].status = "nonempty"
    <3>1. ~NoMatch(signature)
      BY <2>2 DEF NoMatch
    <3>2. RecordsProve(signature[g], nodes)
      BY <1>2, <2>2, <3>1 DEF ShowAccepted, SelectionIsProved, GoalIsShown
    <3>3. signature[g].facts # {} => Endpoints(signature[g].facts) \subseteq DOMAIN nodes
      BY <3>2 DEF RecordsProve, RelationsAreProved
    <3>4. Endpoints({}) = {}
      BY DEF Endpoints
    <3> QED
      BY <3>3, <3>4
  <2> QED
    BY <2>1, <2>2
<1>5. ShownGraph(result).edges = SignedFacts(signature)
  BY DEF ShownGraph
<1>6. SignedFacts(signature) = UNION {signature[g].facts : g \in DOMAIN signature}
  BY DEF SignedFacts, Union
<1> HIDE DEF nodes, signature
<1>7. Endpoints(SignedFacts(signature)) \subseteq DOMAIN nodes
  BY <1>4, <1>6 DEF Endpoints
<1> QED
  BY <1>3, <1>5, <1>7 DEF IsGraph, nodes, signature

\* merge_graphs keeps the ends of relations among the nodes.
LEMMA MergeIsGraph ==
  ASSUME IsGraph(session.nodes, session.edges), NEW graph, NEW focus,
         IsGraph(graph.nodes, graph.edges)
  PROVE  LET merged == MergedSession(graph, focus)
         IN  IsGraph(merged.nodes, merged.edges)
<1> DEFINE merged == MergedSession(graph, focus)
<1>1. /\ DOMAIN merged.nodes = DOMAIN session.nodes \cup DOMAIN graph.nodes
      /\ merged.edges = session.edges \cup graph.edges
  BY DEF MergedSession
<1> HIDE DEF merged
<1>2. Endpoints(merged.edges) = Endpoints(session.edges) \cup Endpoints(graph.edges)
  BY <1>1 DEF Endpoints
<1>3. IsGraph(merged.nodes, merged.edges)
  BY <1>1, <1>2 DEF IsGraph
<1> QED
  BY <1>3 DEF merged

\* Between questions there is nothing but the conversation and the rows.
LEMMA IdleKeepsIt ==
  ASSUME PlanInv, NodesInv, world' = world, turn' \in Nat, phase' = "idle",
         research' \in {NoResearch, research}, IsGraph(session'.nodes, session'.edges),
         \A row \in rows' : IsGraph(row.graph.nodes, row.graph.edges)
  PROVE  AnswerInv'
<1>1. PlanInv'
  BY DEF PlanInv, NoResearch
<1>2. ReceiptsInv' /\ RecordsInv' /\ VerdictInv'
  BY DEF ReceiptsInv, RecordsInv, VerdictInv, Verified
<1>3. NodesInv'
  BY DEF NodesInv, NoResearch, EmptyMap
<1> QED
  BY <1>1, <1>2, <1>3 DEF AnswerInv

\* A row holds the graph that was shown, and so does the conversation then.
LEMMA RememberKeepsIt == AnswerInv /\ Remember => AnswerInv'
<1> SUFFICES ASSUME AnswerInv, Remember PROVE AnswerInv'
  OBVIOUS
<1> DEFINE row == Row(result)
<1>1. row.graph = ShownGraph(result)
  BY DEF Row
<1>2. IsGraph(row.graph.nodes, row.graph.edges)
  BY <1>1, ShownIsGraph DEF Remember
<1> HIDE DEF row
<1>3. /\ session' = MergedSession(row.graph, row.focus) /\ rows' \subseteq rows \cup {row}
      /\ phase' = "idle" /\ research' = NoResearch /\ UNCHANGED <<world, turn>>
  BY DEF Remember, EndTurn, row
<1>4. IsGraph(session'.nodes, session'.edges)
  BY <1>2, <1>3, MergeIsGraph DEF AnswerInv, NodesInv
<1>5. \A x \in rows' : IsGraph(x.graph.nodes, x.graph.edges)
  BY <1>2, <1>3 DEF AnswerInv, NodesInv
<1>6. turn' \in Nat
  BY <1>3 DEF AnswerInv, PlanInv
<1> QED
  BY <1>3, <1>4, <1>5, <1>6, IdleKeepsIt DEF AnswerInv

\* A remembered row joins a graph to the conversation that was one when it was
\* remembered.
LEMMA RowKeepsIt ==
  ASSUME AnswerInv, NEW row \in rows, Reuse(row) \/ Replay(row)
  PROVE  AnswerInv'
<1>1. /\ session' = MergedSession(row.graph, SignedFocus(row.signature)) /\ rows' = rows
      /\ phase' = "idle" /\ research' \in {NoResearch, research} /\ world' = world
      /\ turn' \in {turn, turn + 1}
  BY DEF Reuse, Hydrate, EndTurn, Replay
<1>2. IsGraph(session'.nodes, session'.edges)
  BY <1>1, MergeIsGraph DEF AnswerInv, NodesInv
<1>3. turn' \in Nat
  BY <1>1 DEF AnswerInv, PlanInv
<1> QED
  BY <1>1, <1>2, <1>3, IdleKeepsIt DEF AnswerInv, NodesInv

\* A failure and a new conversation leave nothing of the turn.
LEMMA EndKeepsIt ==
  ASSUME AnswerInv, Fail \/ NewConversation
  PROVE  AnswerInv'
<1>1. /\ session' \in {NoSession, session} /\ rows' \subseteq rows
      /\ phase' = "idle" /\ research' \in {NoResearch, research} /\ UNCHANGED <<world, turn>>
  BY DEF Fail, EndTurn, NewConversation
<1>2. IsGraph(NoSession.nodes, NoSession.edges)
  BY DEF NoSession, IsGraph, EmptyMap, Endpoints
<1>3. IsGraph(session'.nodes, session'.edges)
  BY <1>1, <1>2 DEF AnswerInv, NodesInv
<1>4. turn' \in Nat
  BY <1>1 DEF AnswerInv, PlanInv
<1> QED
  BY <1>1, <1>3, <1>4, IdleKeepsIt DEF AnswerInv, NodesInv

\* Every step keeps the invariant.
LEMMA AnswerInvNext == AnswerInv /\ [Next]_vars => AnswerInv'
BY AskKeeps, LookUpKeepsIt, FollowKeepsIt, FinishKeepsIt, ShowKeepsIt, StutterKeepsIt,
   RememberKeepsIt, RowKeepsIt, EndKeepsIt DEF Next

-----------------------------------------------------------------------------
(* What follows of it.                                                     *)

\* While research goes on there is a task to call.
LEMMA Waits == AnswerInv => NobodyWaits
<1> SUFFICES ASSUME AnswerInv, phase = "research" PROVE NobodyWaits
  BY DEF NobodyWaits
<1>1. SoundPlan(research.plan)
  BY DEF AnswerInv, PlanInv
<1> QED
  BY <1>1, SoundIsInOrder, SomethingIsReady DEF SoundPlan

\* What is shown is admitted and valid: the policy and the store ask nothing
\* that the Visualizer did not.
LEMMA Remembered == AnswerInv => ShownIsRemembered
<1> SUFFICES ASSUME AnswerInv, phase = "shown", ~NoMatch(result.signature)
             PROVE  LET row == Row(result)
                    IN  PolicyAdmits(row.signature, row.graph, row.focus) /\ RowIsValid(row)
  BY DEF ShownIsRemembered
<1> DEFINE signature == result.signature
           graph == ShownGraph(result)
           row == Row(result)
<1>1. PICK told : ShowAccepted(result, told)
  BY DEF AnswerInv, VerdictInv
<1>2. /\ result.selected # {} /\ SelectionIsProved(result)
      /\ SignedFocus(signature) \subseteq DOMAIN graph.nodes
  BY <1>1 DEF ShowAccepted
<1>3. result.selected \subseteq DOMAIN result.catalog
  BY DEF AnswerInv, VerdictInv, Verified, SelectedEntities
<1>4. result.selected \subseteq DOMAIN graph.nodes
  BY <1>3 DEF ShownGraph
<1>5. graph.edges = SignedFacts(signature)
  BY DEF ShownGraph
<1>6. ASSUME NEW g \in DOMAIN signature
      PROVE  /\ signature[g].entities \subseteq DOMAIN graph.nodes
             /\ signature[g].facts \subseteq graph.edges
             /\ signature[g].status = "nonempty" /\ IsRelational(signature[g])
                   => signature[g].facts # {}
  <2>1. Union(signature, LAMBDA s : s.entities) \subseteq result.selected
    BY <1>2 DEF SelectionIsProved
  <2>2. signature[g].entities \subseteq result.selected
    BY <2>1 DEF Union
  <2>3. signature[g].facts \subseteq graph.edges
    BY <1>5 DEF SignedFacts, Union
  <2>4. signature[g].status = "nonempty" => RecordsProve(signature[g], graph.nodes)
    BY <1>2 DEF SelectionIsProved, GoalIsShown
  <2>5. signature[g].status = "nonempty" /\ IsRelational(signature[g]) => signature[g].facts # {}
    BY <2>4 DEF RecordsProve
  <2> QED
    BY <1>4, <2>2, <2>3, <2>5
<1>7. /\ row.signature = signature /\ row.graph = graph /\ row.focus = SignedFocus(signature)
      /\ row.scope = Scope(signature)
  BY DEF Row
<1>8. DOMAIN graph.nodes # {}
  BY <1>2, <1>4
<1>9. SignedContext(signature) # {} => row.scope = "conversation"
  BY <1>7 DEF Scope
<1> HIDE DEF signature, graph, row
<1>10. ~NoMatch(signature)
  BY DEF signature
<1>11. PolicyAdmits(signature, graph, SignedFocus(signature))
  BY <1>2, <1>6, <1>8, <1>10 DEF PolicyAdmits, signature, graph
<1>12. SignedFocus(signature) \subseteq DOMAIN graph.nodes
  BY <1>2 DEF signature, graph
<1>13. RowIsValid(row)
  BY <1>6, <1>7, <1>9, <1>12 DEF RowIsValid
<1> QED
  BY <1>7, <1>11, <1>13 DEF row

\* Focus, records and the ends of relations together.
LEMMA Grounded == AnswerInv /\ GroundedInv => SessionIsGrounded
BY DEF AnswerInv, NodesInv, IsGraph, GroundedInv, SessionIsGrounded, FocusIsKnown, RecordsAreTrue,
       TrueRecords

-----------------------------------------------------------------------------
(* The results are those that the data have. First, a search of the        *)
(* projection finds what is related in the data.                           *)

\* The two forms of a true result, given the types that decide it.
SearchResult(goal, types, S, O) ==
    {n \in Entities :
       /\ AsksNoObject(goal) \/ n \in O
       /\ goal.targets = {} \/ Kind(n) \in goal.targets
       /\ IF goal.aggregation = "intersection"
          THEN S # {} /\ \A s \in S : Related(goal, types, s, n)
          ELSE \E s \in S : Related(goal, types, s, n)}

DirectResult(goal, types, S, O) ==
    {x \in S \cup O : \E y \in S \cup O : Related(goal, types, x, y) \/ Related(goal, types, y, x)}

\* A neighbour that the relations show is one that the data have, and the other
\* way round.
LEMMA NeighbourIsRelated ==
  ASSUME NEW goal, NEW types, NEW S, NEW O, world \in Worlds,
         goal.direction \in {"outgoing", "incoming", "any"},
         NEW s \in S, NEW n
  PROVE  (\E f \in QueryRelations(world, types, goal.direction, S, O) :
             /\ n \in Across(f, goal.direction, s)
             /\ O = {} \/ n \in O)
           <=> n \in Entities /\ (O = {} \/ n \in O) /\ Related(goal, types, s, n)
<1> DEFINE facts == QueryRelations(world, types, goal.direction, S, O)
           d == goal.direction
<1>1. \A f \in world.facts : f.source \in Entities /\ f.target \in Entities
  BY WorldAssumption DEF Endpoints
<1>2. ASSUME NEW f \in facts, n \in Across(f, d, s), O = {} \/ n \in O
      PROVE  n \in Entities /\ Related(goal, types, s, n)
  <2>1. f \in world.facts /\ (types = {} \/ f.type \in types)
    BY DEF QueryRelations
  <2>2. \/ f.source = s /\ d \in {"outgoing", "any"} /\ n = f.target
        \/ f.target = s /\ d \in {"incoming", "any"} /\ n = f.source
    BY <1>2 DEF Across
  <2> HIDE DEF facts
  <2> QED
    BY <1>1, <2>1, <2>2 DEF Related
<1>3. ASSUME O = {} \/ n \in O, Related(goal, types, s, n)
      PROVE  \E f \in facts : n \in Across(f, d, s)
  <2>1. PICK f \in world.facts :
           /\ types = {} \/ f.type \in types
           /\ \/ d # "incoming" /\ f.source = s /\ f.target = n
              \/ d # "outgoing" /\ f.target = s /\ f.source = n
    BY <1>3 DEF Related
  <2>2. Joins(f, d, S, O)
    BY <1>3, <2>1 DEF Joins
  <2>3. f \in facts
    BY <2>1, <2>2 DEF QueryRelations
  <2>4. n \in Across(f, d, s)
    BY <2>1 DEF Across
  <2> HIDE DEF facts
  <2> QED
    BY <2>3, <2>4
<1> HIDE DEF facts
<1> QED
  BY <1>2, <1>3 DEF facts

\* The results of a search: the neighbours of a subject, or of all.
LEMMA SearchIsTrue ==
  ASSUME NEW goal, NEW types, NEW S, NEW O, world \in Worlds,
         goal.direction \in {"outgoing", "incoming", "any"}, goal.aggregation # "direct",
         O = {} <=> AsksNoObject(goal)
  PROVE  Project(goal, QueryRelations(world, types, goal.direction, S, O), S, O).results =
           SearchResult(goal, types, S, O)
<1> DEFINE facts == QueryRelations(world, types, goal.direction, S, O)
           shows(f, s) == {n \in Across(f, goal.direction, s) :
                             /\ O = {} \/ n \in O
                             /\ goal.targets = {} \/ Kind(n) \in goal.targets}
           reached(s) == UNION {shows(f, s) : f \in facts}
           Reaches(s, n) == /\ n \in Entities /\ (O = {} \/ n \in O)
                            /\ goal.targets = {} \/ Kind(n) \in goal.targets
                            /\ Related(goal, types, s, n)
           all == UNION {reached(s) : s \in S}
           results == IF goal.aggregation = "intersection"
                      THEN {n \in all : \A s \in S : n \in reached(s)} ELSE all
<1>1. Project(goal, facts, S, O).results = results
  BY DEF Project
<1>2. ASSUME NEW s \in S, NEW n PROVE n \in reached(s) <=> Reaches(s, n)
  <2>1. (\E f \in facts : n \in Across(f, goal.direction, s) /\ (O = {} \/ n \in O))
          <=> n \in Entities /\ (O = {} \/ n \in O) /\ Related(goal, types, s, n)
    BY NeighbourIsRelated
  <2> HIDE DEF facts
  <2>2. n \in reached(s) <=>
          \E f \in facts : /\ n \in Across(f, goal.direction, s)
                           /\ O = {} \/ n \in O
                           /\ goal.targets = {} \/ Kind(n) \in goal.targets
    OBVIOUS
  <2> QED
    BY <2>1, <2>2
<1> HIDE DEF facts, reached
<1>3. \A n : n \in all <=> \E s \in S : Reaches(s, n)
  BY <1>2
<1> HIDE DEF Reaches
<1>4. \A n : n \in results <=>
               IF goal.aggregation = "intersection"
               THEN S # {} /\ \A s \in S : Reaches(s, n)
               ELSE \E s \in S : Reaches(s, n)
  BY <1>2, <1>3
<1> HIDE DEF results
<1> QED
  BY <1>1, <1>4 DEF Reaches, facts, SearchResult

\* The results of a direct goal: the operands that are related to one.
LEMMA DirectIsTrue ==
  ASSUME NEW goal, NEW types, NEW S, NEW O, O = {} \/ O = S,
         goal.direction \in {"outgoing", "incoming", "any"}, goal.aggregation = "direct"
  PROVE  Project(goal, QueryRelations(world, types, goal.direction, S, O), S, O).results =
           DirectResult(goal, types, S, O)
<1> DEFINE facts == QueryRelations(world, types, goal.direction, S, O)
           direct == {f \in facts : {f.source, f.target} \subseteq S \cup O}
           between == {f \in world.facts : /\ types = {} \/ f.type \in types
                                           /\ f.source \in S /\ f.target \in S}
<1>1. Project(goal, facts, S, O).results = Endpoints(direct)
  BY DEF Project
<1>2. S \cup O = S
  OBVIOUS
<1>3. direct = between
  <2>1. \A f : f.source \in S /\ f.target \in S => Joins(f, goal.direction, S, O)
    BY DEF Joins
  <2> QED
    BY <1>2, <2>1 DEF QueryRelations
<1>4. Endpoints(between) =
         {x \in S : \E y \in S : Related(goal, types, x, y) \/ Related(goal, types, y, x)}
  BY DEF Endpoints, Related
<1> HIDE DEF facts, direct, between
<1> QED
  BY <1>1, <1>2, <1>3, <1>4 DEF facts, DirectResult

\* What the tools brought for a complete goal whose input is not empty is what
\* the data have between its operands, of the types that decide it.
LEMMA FactsAreTrue ==
  ASSUME AnswerInv, phase # "idle", NEW g \in Goals(research.plan),
         research.plan.goals[g].intent \notin Profiles, ~AsksControlBackwards(g),
         Results(research)[g].called,
         ~HasEmptyInput(research.plan.goals[g], Results(research)[g])
  PROVE  LET goal == research.plan.goals[g]
             r == Results(research)[g]
         IN  FactsOf(research, ActiveTasks(research, g)) =
                QueryRelations(world, DecidingTypes(goal, r.subjects, r.objects),
                               goal.direction, r.subjects, r.objects)
<1> DEFINE plan == research.plan
           goal == plan.goals[g]
           r == Results(research)[g]
           query(types, d) == QueryRelations(world, types, d, r.subjects, r.objects)
           explicit == Explicit(plan, g)
<1>1. SoundPlan(plan) /\ InOrder(plan) /\ SoundGoal(goal, g)
  BY SoundIsInOrder DEF AnswerInv, PlanInv, SoundPlan
<1>2. IsComplete(research, g, r) /\ r.objects = ObjectsOf(goal, Results(research))
  BY <1>1, ResultParts
<1>3. TasksForGoal(plan, g) = RelationTasks(plan, g)
  BY DEF TasksForGoal
<1>4. r.objects = {} <=> AsksNoObject(goal)
  <2>1. goal.objects = {} /\ goal.objectGoals = {} => r.objects = {}
    BY <1>2 DEF ObjectsOf, Ids
  <2>2. r.objects = {} => goal.objects = {}
    BY <1>2 DEF ObjectsOf, Ids
  <2>3. r.objects = {} => goal.objectGoals = {}
    BY DEF HasEmptyInput, Inputs
  <2> QED
    BY <2>1, <2>2, <2>3 DEF AsksNoObject
<1>5. ASSUME NEW t \in RelationTasks(plan, g), t \notin research.done
      PROVE  t.scope = "control_fallback" /\ FactsOf(research, explicit) # {}
  <2>1. t \in Skipped(research, g, r.subjects, r.objects, r.open)
    BY <1>2, <1>3, <1>5 DEF IsComplete, SkippedOf
  <2> HIDE DEF r
  <2> QED
    BY <2>1, SkippedTasks DEF r
<1>6. ASSUME NEW t \in RelationTasks(plan, g), t \in research.done
      PROVE  FactsOf(research, {t}) = query(AskedTypes(plan, t), AskedDirection(plan, t))
  <2>1. t.goal = g /\ t.scope # "lookup"
    BY <1>6, RelationTasksAre
  <2>2. IsReceipt(t)
    BY <1>6, <2>1 DEF AnswerInv, ReceiptsInv
  <2>3. research.found[t] = query(AskedTypes(plan, t), AskedDirection(plan, t))
    BY <2>1, <2>2 DEF IsReceipt
  <2>4. FactsOf(research, {t}) = research.found[t]
    BY <1>6 DEF FactsOf
  <2> QED
    BY <2>3, <2>4
<1> HIDE DEF query
<1>7. CASE goal.intent # "controlled_companies"
  <2> DEFINE t == RelationTask(plan, g, "goal")
  <2>1. RelationTasks(plan, g) = {t} /\ t.scope = "goal" /\ t.goal = g
    BY <1>7, RelationTasksAre DEF RelationTask
  <2>2. t \in research.done
    BY <1>5, <2>1
  <2>3. ActiveTasks(research, g) = {t}
    BY <2>1 DEF ActiveTasks
  <2>4. AskedTypes(plan, t) = goal.types /\ AskedDirection(plan, t) = goal.direction
    BY <2>1 DEF AskedTypes, AskedDirection
  <2>5. DecidingTypes(goal, r.subjects, r.objects) = goal.types
    BY <1>7 DEF DecidingTypes
  <2> HIDE DEF t
  <2>6. FactsOf(research, {t}) = query(goal.types, goal.direction)
    BY <1>6, <2>1, <2>2, <2>4
  <2> HIDE DEF goal, r
  <2> QED
    BY <2>3, <2>5, <2>6 DEF query, goal, r
<1>8. CASE goal.intent = "controlled_companies"
  <2> DEFINE x == RelationTask(plan, g, "control_explicit")
             y == RelationTask(plan, g, "control_fallback")
  <2>1. /\ RelationTasks(plan, g) = {x, y} /\ x.scope = "control_explicit"
        /\ y.scope = "control_fallback" /\ x.goal = g /\ y.goal = g
    BY <1>8, RelationTasksAre DEF RelationTask
  <2> HIDE DEF x, y
  <2>2. explicit = {x}
    BY <2>1 DEF Explicit
  <2>3. goal.direction = "outgoing"
    BY <1>8 DEF AsksControlBackwards
  <2>4. /\ AskedTypes(plan, x) = {"controls"} /\ AskedDirection(plan, x) = goal.direction
        /\ AskedTypes(plan, y) = ControlFallbackTypes /\ AskedDirection(plan, y) = goal.direction
    BY <2>1, <2>3 DEF AskedTypes, AskedDirection
  <2>5. x \in research.done
    BY <1>5, <2>1
  <2>6. FactsOf(research, explicit) = query({"controls"}, goal.direction)
    BY <1>6, <2>1, <2>2, <2>4, <2>5
  <2>7. FactsOf(research, explicit) # {} <=>
           \E f \in world.facts : /\ f.type = "controls" /\ f.source \in r.subjects
                                  /\ AsksNoObject(goal) \/ f.target \in r.objects
    BY <1>4, <2>3, <2>6 DEF query, QueryRelations, Joins
  <2>8. DecidingTypes(goal, r.subjects, r.objects) =
           IF FactsOf(research, explicit) # {} THEN {"controls"} ELSE ControlFallbackTypes
    BY <1>8, <2>7 DEF DecidingTypes
  <2>9. CASE FactsOf(research, explicit) # {}
    <3>1. ActiveTasks(research, g) = explicit
      BY <2>2, <2>9 DEF ActiveTasks, Explicit
    <3> HIDE DEF goal, r, explicit
    <3> QED
      BY <2>6, <2>8, <2>9, <3>1 DEF query, goal, r
  <2>10. CASE FactsOf(research, explicit) = {}
    <3>1. ActiveTasks(research, g) = {y}
      BY <2>1, <2>2, <2>10 DEF ActiveTasks, Explicit
    <3>2. y \in research.done
      BY <1>5, <2>1, <2>10
    <3>3. FactsOf(research, {y}) = query(ControlFallbackTypes, goal.direction)
      BY <1>6, <2>1, <2>4, <3>2
    <3> HIDE DEF goal, r, explicit
    <3> QED
      BY <2>8, <2>10, <3>1, <3>3 DEF query, goal, r
  <2> QED
    BY <2>9, <2>10
<1> QED
  BY <1>7, <1>8

\* A goal whose input came out empty brought nothing.
LEMMA EmptyInputHasNoFacts ==
  ASSUME AnswerInv, phase # "idle", NEW g \in Goals(research.plan),
         HasEmptyInput(research.plan.goals[g], Results(research)[g])
  PROVE  FactsOf(research, ActiveTasks(research, g)) = {}
<1>1. RelationTasks(research.plan, g) \cap research.done = {}
  <2> SUFFICES ASSUME NEW t \in RelationTasks(research.plan, g), t \in research.done PROVE FALSE
    OBVIOUS
  <2>1. t.goal = g /\ t.scope # "lookup"
    BY RelationTasksAre
  <2> QED
    BY <2>1 DEF AnswerInv, ReceiptsInv, IsReceipt
<1>2. ActiveTasks(research, g) \subseteq RelationTasks(research.plan, g)
  BY DEF ActiveTasks
<1>3. ActiveTasks(research, g) \cap research.done = {}
  BY <1>1, <1>2
<1> QED
  BY <1>3 DEF FactsOf

\* Nothing found shows nothing.
LEMMA NoFactsNoResults ==
  ASSUME NEW goal, NEW S, NEW O
  PROVE  /\ Project(goal, {}, S, O).results = {}
         /\ Project(goal, {}, S, O).facts = {}
BY DEF Project, Endpoints

\* The result of a search is all that its operands reach in the data.
LEMMA ResultIsReached ==
  ASSUME AnswerInv, phase \in Verified, NEW g \in Goals(research.plan),
         research.plan.goals[g].intent \notin Profiles,
         ~AsksControlBackwards(g), ~SplitsOperands(g)
  PROVE  LET r == Results(research)[g]
         IN  r.results = Reached(research.plan.goals[g], r.subjects, r.objects)
<1> DEFINE plan == research.plan
           goal == plan.goals[g]
           r == Results(research)[g]
           S == r.subjects
           O == r.objects
           types == DecidingTypes(goal, S, O)
           facts == FactsOf(research, ActiveTasks(research, g))
<1>1. phase # "idle" /\ SoundPlan(plan) /\ InOrder(plan) /\ SoundGoal(goal, g)
  BY SoundIsInOrder DEF AnswerInv, PlanInv, SoundPlan, Verified
<1>2. /\ IsComplete(research, g, r) /\ IsResult(research, g, r)
      /\ S = SubjectsOf(goal, Results(research)) /\ O = ObjectsOf(goal, Results(research))
  BY <1>1, ResultParts
<1>3. r.called /\ r.ready
  BY DEF AnswerInv, VerdictInv, Complete, Verified
<1>4. RelationTasks(plan, g) # {}
  <2>1. CASE goal.intent = "controlled_companies"
    <3>1. RelationTasks(plan, g) = {RelationTask(plan, g, "control_explicit"),
                                    RelationTask(plan, g, "control_fallback")}
      BY <2>1, RelationTasksAre
    <3> QED
      BY <3>1
  <2>2. CASE goal.intent # "controlled_companies"
    <3>1. goal.intent \notin Profiles \cup {"controlled_companies"}
      BY <2>2
    <3>2. RelationTasks(plan, g) = {RelationTask(plan, g, "goal")}
      BY <3>1, RelationTasksAre
    <3> QED
      BY <3>2
  <2> QED
    BY <2>1, <2>2
<1>5. r.complete
  BY <1>2, <1>3, <1>4 DEF IsComplete, TasksForGoal
<1>6. r.results = Project(goal, facts, S, O).results
  BY <1>2, <1>5 DEF IsResult, Projected
<1>7. goal.direction \in {"outgoing", "incoming", "any"}
  BY <1>1 DEF SoundGoal
<1>8. Inputs(goal) = {} => ~HasEmptyInput(goal, r)
  BY DEF HasEmptyInput
<1>9. goal.aggregation = "direct" => O = {} \/ O = S
  <2>1. ASSUME goal.aggregation = "direct", Inputs(goal) = {} PROVE O = S
    <3>1. goal.subjects = goal.objects /\ goal.subjectGoals = {} /\ goal.objectGoals = {}
      BY <1>1, <2>1 DEF SoundGoal, Inputs
    <3> QED
      BY <1>2, <3>1 DEF SubjectsOf, ObjectsOf
  <2>2. ASSUME goal.aggregation = "direct", Inputs(goal) # {} PROVE O = {}
    <3>1. goal.objects = {} /\ goal.objectGoals = {}
      BY <2>2 DEF SplitsOperands, Refs
    <3> QED
      BY <1>2, <3>1 DEF ObjectsOf, Ids
  <2> QED
    BY <2>1, <2>2
<1>10. ~HasEmptyInput(goal, r) => (O = {} <=> AsksNoObject(goal))
  <2>1. goal.objects = {} /\ goal.objectGoals = {} => O = {}
    BY <1>2 DEF ObjectsOf, Ids
  <2>2. O = {} => goal.objects = {}
    BY <1>2 DEF ObjectsOf, Ids
  <2> QED
    BY <2>1, <2>2 DEF AsksNoObject, HasEmptyInput, Inputs
<1>11. ~HasEmptyInput(goal, r) => facts = QueryRelations(world, types, goal.direction, S, O)
  BY <1>1, <1>3, FactsAreTrue
<1>12. world \in Worlds
  BY DEF AnswerInv, PlanInv
<1>13. HasEmptyInput(goal, r) => r.results = {}
  BY <1>1, <1>6, EmptyInputHasNoFacts, NoFactsNoResults
<1>14. HasEmptyInput(goal, r) =>
          S = {} \/ (O = {} /\ ~AsksNoObject(goal) /\ goal.aggregation # "direct")
  <2>1. ASSUME goal.aggregation = "direct", Inputs(goal) # {} PROVE goal.objectGoals = {}
    BY <2>1 DEF SplitsOperands
  <2> QED
    BY <2>1 DEF HasEmptyInput, AsksNoObject
<1> HIDE DEF goal, S, O, facts, types
<1>15. CASE goal.aggregation = "direct"
  <2>1. Reached(goal, S, O) = DirectResult(goal, types, S, O)
    BY <1>15 DEF Reached, DirectResult, types, goal
  <2>2. CASE HasEmptyInput(goal, r)
    <3>1. S = {} /\ O = {}
      BY <1>9, <1>14, <1>15, <2>2
    <3>2. Reached(goal, S, O) = {}
      BY <2>1, <3>1 DEF DirectResult
    <3> QED
      BY <1>13, <2>2, <3>2 DEF goal, S, O
  <2>3. CASE ~HasEmptyInput(goal, r)
    <3>1. Project(goal, QueryRelations(world, types, goal.direction, S, O), S, O).results =
            DirectResult(goal, types, S, O)
      BY <1>7, <1>9, <1>15, DirectIsTrue
    <3>2. r.results = Reached(goal, S, O)
      BY <1>6, <1>11, <2>1, <2>3, <3>1
    <3> QED
      BY <3>2 DEF goal, S, O
  <2> QED
    BY <2>2, <2>3
<1>16. CASE goal.aggregation # "direct"
  <2>1. Reached(goal, S, O) = SearchResult(goal, types, S, O)
    BY <1>16 DEF Reached, SearchResult, types, goal
  <2>2. CASE HasEmptyInput(goal, r)
    <3>1. Reached(goal, S, O) = {}
      BY <1>14, <1>16, <2>1, <2>2 DEF SearchResult
    <3> QED
      BY <1>13, <2>2, <3>1 DEF goal, S, O
  <2>3. CASE ~HasEmptyInput(goal, r)
    <3>1. Project(goal, QueryRelations(world, types, goal.direction, S, O), S, O).results =
            SearchResult(goal, types, S, O)
      BY <1>7, <1>10, <1>12, <1>16, <2>3, SearchIsTrue
    <3>2. r.results = Reached(goal, S, O)
      BY <1>6, <1>11, <2>1, <2>3, <3>1
    <3> QED
      BY <3>2 DEF goal, S, O
  <2> QED
    BY <2>2, <2>3
<1> QED
  BY <1>15, <1>16

\* A profile that is shown has the entities it names: one without a task could
\* not keep them in view.
LEMMA ProfileIsTrue ==
  ASSUME AnswerInv, phase = "shown", NEW g \in Goals(research.plan),
         research.plan.goals[g].intent \in Profiles
  PROVE  Results(research)[g].results = Ids(Refs(research.plan.goals[g]))
<1> DEFINE plan == research.plan
           goal == plan.goals[g]
           r == Results(research)[g]
           s == result.signature[g]
<1>1. InOrder(plan)
  BY SoundIsInOrder DEF AnswerInv, PlanInv
<1>2. /\ IsComplete(research, g, r) /\ IsResult(research, g, r) /\ IsInView(research, g, r)
      /\ r.subjects = SubjectsOf(goal, Results(research))
      /\ r.objects = ObjectsOf(goal, Results(research))
  BY <1>1, ResultParts
<1>3. CASE r.complete
  BY <1>2, <1>3 DEF IsResult
<1>4. CASE ~r.complete
  <2>1. r.results = {} /\ ~r.nonempty /\ r.focus = {}
    BY <1>2, <1>4 DEF IsResult, IsInView
  <2>2. ~r.skipped
    <3>1. SkippedOf(research, g, r) = {}
      BY RelationTasksAre DEF SkippedOf, Skipped
    <3> QED
      BY <1>2, <3>1 DEF IsComplete
  <2>3. g \in DOMAIN result.signature /\ s = SignedGoal(research, g, r)
    <3>1. result.signature = Signature(research)
      BY DEF AnswerInv, VerdictInv, Verified
    <3>2. DOMAIN Results(research) = Goals(plan)
      BY <1>1, ResultsUnfold
    <3> QED
      BY <3>1, <3>2 DEF Signature
  <2> HIDE DEF r
  <2>4. /\ s.status = "verified_empty" /\ s.focus = {} /\ s.subjects = r.subjects
        /\ s.objects = SignedObjects(goal, r)
    BY <2>1, <2>2, <2>3 DEF SignedGoal
  <2>5. EmptyGoalKeepsFocus(s)
    BY <2>3 DEF AnswerInv, VerdictInv, ShowAccepted
  <2>6. r.subjects = {} /\ r.objects = {}
    BY <2>1, <2>4, <2>5 DEF EmptyGoalKeepsFocus, SignedIds, SignedObjects
  <2> QED
    BY <1>2, <2>1, <2>6 DEF SubjectsOf, ObjectsOf, Ids, Refs, r
<1> QED
  BY <1>3, <1>4

\* The operands of a goal, given results of the goals it takes from.
SubjectsGiven(g, f) ==
    LET goal == research.plan.goals[g]
    IN  Ids(goal.subjects) \cup UNION {f[h] : h \in goal.subjectGoals}

ObjectsGiven(g, f) ==
    LET goal == research.plan.goals[g]
    IN  Ids(goal.objects) \cup UNION {f[h] : h \in goal.objectGoals}

\* They are the same for results that agree on those goals.
LEMMA SameOperands ==
  ASSUME NEW g, NEW f, NEW h,
         \A i \in research.plan.goals[g].subjectGoals \cup research.plan.goals[g].objectGoals :
            f[i] = h[i]
  PROVE  SubjectsGiven(g, f) = SubjectsGiven(g, h) /\ ObjectsGiven(g, f) = ObjectsGiven(g, h)
<1> DEFINE goal == research.plan.goals[g]
<1>1. {f[i] : i \in goal.subjectGoals} = {h[i] : i \in goal.subjectGoals}
  OBVIOUS
<1>2. {f[i] : i \in goal.objectGoals} = {h[i] : i \in goal.objectGoals}
  OBVIOUS
<1> QED
  BY <1>1, <1>2 DEF SubjectsGiven, ObjectsGiven

\* What a goal has in the data, given what the goals it takes from have.
TrueOf(g, f) == TrueResult(research.plan.goals[g], SubjectsGiven(g, f), ObjectsGiven(g, f))

\* Goal after goal, that determines the results of all.
LEMMA TrueResultsUnfold ==
  ASSUME InOrder(research.plan)
  PROVE  \A g \in Goals(research.plan) : TrueResults[g] = TrueOf(g, TrueResults)
<1> DEFINE Are(f, n) == f = [g \in 1..n |-> TrueOf(g, f)]
<1>1. PICK l \in Nat : /\ Goals(research.plan) = 1..l
                       /\ \A g \in 1..l :
                             /\ research.plan.goals[g].subjectGoals \subseteq 1..(g - 1)
                             /\ research.plan.goals[g].objectGoals \subseteq 1..(g - 1)
  BY DEF InOrder, Inputs
<1> DEFINE S == {n \in Nat : n <= l => \E f : Are(f, n)}
<1>2. 0 \in S
  <2> DEFINE f == [g \in 1..0 |-> 0]
  <2>1. Are(f, 0)
    OBVIOUS
  <2> QED
    BY <2>1
<1>3. ASSUME NEW n \in Nat, n \in S PROVE n + 1 \in S
  <2> SUFFICES ASSUME n + 1 <= l PROVE \E f : Are(f, n + 1)
    OBVIOUS
  <2>1. n <= l
    BY <1>1
  <2>2. PICK f : Are(f, n)
    BY <1>3, <2>1
  <2> DEFINE next == [g \in 1..(n + 1) |-> TrueOf(g, f)]
  <2>3. \A g \in 1..n : next[g] = f[g]
    BY <2>2
  <2>4. \A g \in 1..(n + 1) : TrueOf(g, next) = TrueOf(g, f)
    <3> SUFFICES ASSUME NEW g \in 1..(n + 1)
                 PROVE  TrueOf(g, next) = TrueOf(g, f)
      OBVIOUS
    <3>1. g \in 1..l /\ \A i \in 1..(g - 1) : i \in 1..n
      BY <1>1
    <3>2. \A i \in research.plan.goals[g].subjectGoals \cup research.plan.goals[g].objectGoals :
             next[i] = f[i]
      BY <1>1, <2>3, <3>1
    <3> HIDE DEF next
    <3> QED
      BY <3>2, SameOperands DEF TrueOf
  <2>5. Are(next, n + 1)
    BY <2>4
  <2> QED
    BY <2>5
<1>4. l \in S
  BY <1>1, <1>2, <1>3, Induction
<1>5. \E f : Are(f, l)
  BY <1>1, <1>4
<1>6. TrueResults = CHOOSE f : Are(f, l)
  BY <1>1 DEF TrueResults, TrueOf, SubjectsGiven, ObjectsGiven
<1> HIDE DEF Are
<1>7. Are(TrueResults, l)
  BY <1>5, <1>6
<1> DEFINE true == TrueResults
<1>8. true = [g \in 1..l |-> TrueOf(g, true)]
  BY <1>7 DEF Are
<1> HIDE DEF true
<1>9. \A g \in Goals(research.plan) : true[g] = TrueOf(g, true)
  BY <1>1, <1>8
<1> QED
  BY <1>9 DEF true

\* Results that are all that the operands reach are the true ones, where no
\* union or intersection reaches an operand.
LEMMA ReachedIsTrue ==
  ASSUME InOrder(research.plan), NEW f,
         \A g \in Goals(research.plan) :
            /\ f[g] = Reached(research.plan.goals[g], SubjectsGiven(g, f), ObjectsGiven(g, f))
            /\ ~ReachesOperand(g)
  PROVE  \A g \in Goals(research.plan) : TrueResults[g] = f[g]
<1> DEFINE true == TrueResults
<1>1. \A g \in Goals(research.plan) : true[g] = TrueOf(g, true)
  BY TrueResultsUnfold
<1>2. \A g \in Goals(research.plan) :
         LET goal == research.plan.goals[g]
         IN  ~(/\ AsksOutside(goal)
               /\ Reached(goal, SubjectsGiven(g, true), ObjectsGiven(g, true))
                     \cap SubjectsGiven(g, true) # {})
  BY DEF ReachesOperand, SubjectsGiven, ObjectsGiven
<1> HIDE DEF true
<1>3. PICK n \in Nat : Goals(research.plan) = 1..n
  BY DEF InOrder
<1> DEFINE S == {g \in 1..n : true[g] = f[g]}
<1>4. ASSUME NEW g \in 1..n, \A h \in 1..(g - 1) : h \in S PROVE g \in S
  <2> DEFINE goal == research.plan.goals[g]
  <2>1. goal.subjectGoals \subseteq 1..(g - 1) /\ goal.objectGoals \subseteq 1..(g - 1)
    BY <1>3 DEF InOrder, Inputs
  <2>2. SubjectsGiven(g, true) = SubjectsGiven(g, f) /\ ObjectsGiven(g, true) = ObjectsGiven(g, f)
    BY <1>4, <2>1, SameOperands
  <2>3. /\ true[g] = TrueResult(goal, SubjectsGiven(g, f), ObjectsGiven(g, f))
        /\ f[g] = Reached(goal, SubjectsGiven(g, f), ObjectsGiven(g, f))
    BY <1>1, <1>3, <2>2 DEF TrueOf
  <2>4. AsksOutside(goal) => f[g] \cap SubjectsGiven(g, f) = {}
    BY <1>2, <1>3, <2>2, <2>3
  <2> HIDE DEF goal
  <2>5. true[g] = f[g]
    BY <2>3, <2>4 DEF TrueResult
  <2> QED
    BY <2>5
<1> HIDE DEF S
<1>5. 1..n \subseteq S
  BY <1>4, Smallest
<1> QED
  BY <1>3, <1>5 DEF S, true

\* Goal after goal, the results are the true ones.
LEMMA IsTrue == AnswerInv => AnswerIsTrue
<1> DEFINE plan == research.plan
           R == Results(research)
           f == [g \in Goals(plan) |-> R[g].results]
<1> SUFFICES ASSUME AnswerInv, phase = "shown",
                    \A g \in Goals(plan) : /\ ~AsksControlBackwards(g) /\ ~SplitsOperands(g)
                                           /\ ~ReachesOperand(g)
             PROVE  \A g \in Goals(plan) : R[g].results = TrueResults[g]
  BY DEF AnswerIsTrue
<1>1. InOrder(plan)
  BY SoundIsInOrder DEF AnswerInv, PlanInv
<1>2. ASSUME NEW g \in Goals(plan)
      PROVE  f[g] = Reached(plan.goals[g], SubjectsGiven(g, f), ObjectsGiven(g, f))
  <2> DEFINE goal == plan.goals[g]
  <2>1. goal.subjectGoals \subseteq Goals(plan) /\ goal.objectGoals \subseteq Goals(plan)
    BY <1>1 DEF InOrder, Inputs
  <2>2. /\ {f[h] : h \in goal.subjectGoals} = {R[h].results : h \in goal.subjectGoals}
        /\ {f[h] : h \in goal.objectGoals} = {R[h].results : h \in goal.objectGoals}
    BY <2>1
  <2>3. R[g].subjects = SubjectsOf(goal, R) /\ R[g].objects = ObjectsOf(goal, R)
    BY <1>1, ResultParts
  <2>4. R[g].results = Reached(goal, R[g].subjects, R[g].objects)
    <3>1. CASE goal.intent \in Profiles
      BY <3>1, ProfileIsTrue DEF Reached
    <3>2. CASE goal.intent \notin Profiles
      BY <3>2, ResultIsReached DEF Verified
    <3> QED
      BY <3>1, <3>2
  <2> HIDE DEF R
  <2>5. R[g].subjects = SubjectsGiven(g, f) /\ R[g].objects = ObjectsGiven(g, f)
    BY <2>2, <2>3 DEF SubjectsOf, ObjectsOf, SubjectsGiven, ObjectsGiven
  <2> QED
    BY <2>4, <2>5
<1> HIDE DEF f
<1>3. \A g \in Goals(plan) : TrueResults[g] = f[g]
  BY <1>1, <1>2, ReachedIsTrue
<1> QED
  BY <1>3 DEF f

-----------------------------------------------------------------------------
(* What is verified can be shown. The signature and the records of each    *)
(* goal, then the focus of each, then the selection.                       *)

\* A projection keeps the relations that show its results, and no others.
LEMMA ProjectParts ==
  ASSUME NEW goal, NEW facts, NEW S, NEW O
  PROVE  LET p == Project(goal, facts, S, O)
         IN  /\ p.facts \subseteq facts
             /\ p.results \subseteq Endpoints(p.facts)
             /\ p.facts = {} <=> p.results = {}
             /\ goal.aggregation = "direct" => p.results \subseteq S \cup O
<1> DEFINE p == Project(goal, facts, S, O)
           direct == {f \in facts : {f.source, f.target} \subseteq S \cup O}
<1>1. CASE goal.aggregation = "direct"
  <2>1. p.facts = direct /\ p.results = Endpoints(direct)
    BY <1>1 DEF Project
  <2> HIDE DEF p
  <2>2. p.results \subseteq S \cup O
    BY <2>1 DEF Endpoints
  <2>3. p.facts = {} <=> p.results = {}
    BY <2>1 DEF Endpoints
  <2> QED
    BY <2>1, <2>2, <2>3 DEF p
<1>2. CASE goal.aggregation # "direct"
  <2> DEFINE shows(f, s) == {n \in Across(f, goal.direction, s) :
                               /\ O = {} \/ n \in O
                               /\ goal.targets = {} \/ Kind(n) \in goal.targets}
             reached(s) == UNION {shows(f, s) : f \in facts}
             all == UNION {reached(s) : s \in S}
             results == IF goal.aggregation = "intersection"
                        THEN {n \in all : \A s \in S : n \in reached(s)} ELSE all
             shown == {f \in facts : \E s \in S : shows(f, s) \cap results # {}}
  <2>1. p.results = results /\ p.facts = shown
    BY <1>2 DEF Project
  <2>2. ASSUME NEW f, NEW s, NEW n \in shows(f, s) PROVE n \in {f.source, f.target}
    BY DEF Across
  <2> HIDE DEF p, shows
  <2>3. results \subseteq all
    OBVIOUS
  <2>4. \A n \in all : \E s \in S, f \in facts : n \in shows(f, s)
    OBVIOUS
  <2> HIDE DEF results, all
  <2>5. \A n \in results : \E s \in S, f \in shown : n \in shows(f, s)
    BY <2>3, <2>4
  <2>6. results \subseteq Endpoints(shown)
    BY <2>2, <2>5 DEF Endpoints
  <2>7. shown = {} <=> results = {}
    BY <2>5
  <2>8. shown \subseteq facts
    OBVIOUS
  <2> HIDE DEF shown
  <2> QED
    BY <1>2, <2>1, <2>6, <2>7, <2>8 DEF p
<1> QED
  BY <1>1, <1>2

\* What the Researcher judged and the Visualizer is given of one goal.
IsSigned(g) ==
    LET r == Results(research)[g]
    IN  /\ g \in DOMAIN result.signature
        /\ result.signature[g] = SignedGoal(research, g, r)
        /\ r.called /\ r.ready
        /\ r.subjects = SubjectsOf(research.plan.goals[g], Results(research))
        /\ r.objects = ObjectsOf(research.plan.goals[g], Results(research))
        /\ IsComplete(research, g, r) /\ IsResult(research, g, r) /\ IsInView(research, g, r)

\* All goals of what is verified are signed as they were judged.
LEMMA VerifiedIsSigned ==
  ASSUME AnswerInv, phase \in Verified
  PROVE  /\ DOMAIN result.signature = Goals(research.plan)
         /\ \A g \in Goals(research.plan) : IsSigned(g) /\ SoundGoal(research.plan.goals[g], g)
<1>1. SoundPlan(research.plan) /\ InOrder(research.plan)
  BY SoundIsInOrder DEF AnswerInv, PlanInv, Verified
<1>2. DOMAIN Results(research) = Goals(research.plan)
  BY <1>1, ResultsUnfold
<1>3. result.signature = Signature(research)
  BY DEF AnswerInv, VerdictInv
<1>4. \A g \in Goals(research.plan) :
         /\ g \in DOMAIN result.signature
         /\ result.signature[g] = SignedGoal(research, g, Results(research)[g])
  BY <1>2, <1>3 DEF Signature
<1>5. \A g \in Goals(research.plan) : Results(research)[g].called /\ Results(research)[g].ready
  BY DEF AnswerInv, VerdictInv, Complete, Verified
<1> QED
  BY <1>1, <1>2, <1>3, <1>4, <1>5, ResultParts DEF IsSigned, Signature, SoundPlan

\* A name that the plan has and every end of a relation found has a record.
LEMMA CallsLeaveRecords ==
  ASSUME AnswerInv, phase \notin {"idle", "research"}
  PROVE  /\ Ids(PlanRefs(research.plan))
                \subseteq DOMAIN research.records \cup ContextIds(research.plan)
         /\ \A g \in Goals(research.plan) :
               Endpoints(FactsOf(research, ActiveTasks(research, g))) \subseteq DOMAIN research.records
<1> DEFINE plan == research.plan
           refs == PlanRefs(plan)
           ids == DOMAIN research.records \cup ContextIds(plan)
<1>1. phase # "idle" /\ LegalTasks(plan) /\ Lookups(plan) \subseteq research.done
  BY DEF AnswerInv, PlanInv, SoundPlan, VerdictInv, Complete
<1>2. ASSUME NEW r \in refs PROVE r[2] \in ids
  <2>1. CASE r \in Named(refs)
    <3>1. PICK t \in Lookups(plan) : r \in t.refs
      BY <1>1, <2>1 DEF LegalTasks
    <3>2. Ids(t.refs) \subseteq DOMAIN research.records
      BY <1>1, <3>1, LookupsAre DEF AnswerInv, RecordsInv
    <3> QED
      BY <3>1, <3>2 DEF Ids
  <2>2. CASE r \notin Named(refs)
    BY <1>1, <2>2 DEF ContextIds, Ids
  <2> QED
    BY <2>1, <2>2
<1>3. ASSUME NEW g \in Goals(plan)
      PROVE  Endpoints(FactsOf(research, ActiveTasks(research, g))) \subseteq DOMAIN research.records
  <2> DEFINE active == ActiveTasks(research, g)
  <2>1. ASSUME NEW f \in FactsOf(research, active)
        PROVE  f.source \in DOMAIN research.records /\ f.target \in DOMAIN research.records
    <3>1. PICK t \in active \cap research.done : f \in research.found[t]
      BY <2>1 DEF FactsOf
    <3>2. t \in RelationTasks(plan, g)
      BY <3>1 DEF ActiveTasks
    <3>3. Endpoints(research.found[t]) \subseteq DOMAIN research.records
      BY <1>1, <3>1, <3>2, RelationTasksAre DEF AnswerInv, RecordsInv
    <3> QED
      BY <3>1, <3>3 DEF Endpoints
  <2> QED
    BY <2>1 DEF Endpoints
<1> HIDE DEF refs, ids
<1>4. Ids(refs) \subseteq ids
  BY <1>2 DEF Ids
<1> QED
  BY <1>3, <1>4 DEF refs, ids

\* Once the records of the conversation are added, all has one.
LEMMA RefsHaveRecords ==
  ASSUME AnswerInv, phase \in Verified
  PROVE  /\ Ids(PlanRefs(research.plan)) \subseteq DOMAIN research.records
         /\ \A g \in Goals(research.plan) :
               Endpoints(Results(research)[g].facts) \subseteq DOMAIN research.records
<1>1. /\ phase \notin {"idle", "research"}
      /\ ContextIds(research.plan) \subseteq DOMAIN research.records
  BY DEF AnswerInv, VerdictInv, Verified
<1>2. ASSUME NEW g \in Goals(research.plan)
      PROVE  Endpoints(Results(research)[g].facts) \subseteq DOMAIN research.records
  <2>1. IsResult(research, g, Results(research)[g])
    BY VerifiedIsSigned DEF IsSigned
  <2>2. \/ Results(research)[g].facts = {}
        \/ Results(research)[g].facts \subseteq FactsOf(research, ActiveTasks(research, g))
    BY <2>1, ProjectParts DEF IsResult, Projected
  <2>3. Endpoints(FactsOf(research, ActiveTasks(research, g))) \subseteq DOMAIN research.records
    BY <1>1, CallsLeaveRecords
  <2> QED
    BY <2>2, <2>3 DEF Endpoints
<1> QED
  BY <1>1, <1>2, CallsLeaveRecords

\* Records of all that a profile names were asked for by its tasks.
LEMMA ProfileHasRecords ==
  ASSUME AnswerInv, phase \in Verified, NEW g \in Goals(research.plan),
         research.plan.goals[g].intent \in Profiles, ~HasNoTask(g)
  PROVE  LET goal == research.plan.goals[g]
             r == Results(research)[g]
         IN  /\ r.complete /\ r.results = Ids(Refs(goal)) /\ r.facts = {}
             /\ NamedRecords(research, g) = Ids(Refs(goal))
             /\ r.nonempty <=> Refs(goal) # {}
<1> DEFINE goal == research.plan.goals[g]
           r == Results(research)[g]
<1>1. IsComplete(research, g, r) /\ IsResult(research, g, r) /\ r.called /\ r.ready
  BY VerifiedIsSigned DEF IsSigned
<1>2. r.complete
  BY <1>1 DEF IsComplete, HasNoTask
<1>3. Ids(Refs(goal)) \subseteq DOMAIN research.records
  <2>1. Refs(goal) \subseteq PlanRefs(research.plan)
    BY DEF PlanRefs
  <2> QED
    BY <2>1, RefsHaveRecords DEF Ids
<1>4. NamedRecords(research, g) = Ids(Refs(goal))
  BY <1>3 DEF NamedRecords
<1>5. Ids(Refs(goal)) # {} <=> Refs(goal) # {}
  BY DEF Ids
<1> QED
  BY <1>1, <1>2, <1>4, <1>5 DEF IsResult

\* What the Visualizer asks of one goal.
CanShowGoal(g) ==
    LET s == result.signature[g]
        goal == research.plan.goals[g]
    IN  /\ s.status = "nonempty" => /\ s.facts # {} \/ s.entities # {}
                                    /\ s.focus = ExpectedFocus(s)
                                    /\ s.focus \subseteq s.entities \cup Endpoints(s.facts)
        /\ s.status # "nonempty" => /\ IsRelational(s) /\ Results(research)[g].results = {}
                                    /\ s.objects = Results(research)[g].objects
        /\ EmptyGoalKeepsFocus(s)
        /\ Ids(Refs(goal)) \subseteq SignedIds(s)

\* A profile has a task, and so is not empty.
LEMMA CanShowProfile ==
  ASSUME AnswerInv, phase = "verified", NEW g \in Goals(research.plan), ~CannotBeShown(g),
         research.plan.goals[g].intent \in Profiles
  PROVE  CanShowGoal(g)
<1> DEFINE goal == research.plan.goals[g]
           r == Results(research)[g]
           s == result.signature[g]
           refs == Ids(Refs(goal))
<1>1. phase \in Verified
  BY DEF Verified
<1>2. IsSigned(g) /\ SoundGoal(goal, g)
  BY <1>1, VerifiedIsSigned
<1>3. Inputs(goal) = {} /\ ~HasNoTask(g)
  BY DEF CannotBeShown
<1>4. Refs(goal) # {}
  BY <1>2, <1>3 DEF SoundGoal, Inputs, Refs
<1>5. /\ r.complete /\ r.results = refs /\ r.facts = {} /\ r.nonempty
      /\ NamedRecords(research, g) = refs
  BY <1>1, <1>3, <1>4, ProfileHasRecords
<1>6. r.subjects = Ids(goal.subjects) /\ r.objects = Ids(goal.objects)
  BY <1>2, <1>3 DEF IsSigned, SubjectsOf, ObjectsOf, Inputs
<1>7. refs = r.subjects \cup r.objects /\ refs # {}
  BY <1>4, <1>6 DEF Ids, Refs
<1>8. r.entities = refs /\ r.focus = refs
  BY <1>2, <1>5 DEF IsSigned, IsInView, InView
<1>9. s = SignedGoal(research, g, r)
  BY <1>2 DEF IsSigned
<1> HIDE DEF r, refs
<1>10. /\ s.status = "nonempty" /\ s.facts = {} /\ s.entities = refs /\ s.focus = refs
       /\ s.subjects = r.subjects /\ s.objects = SignedObjects(goal, r) /\ s.intent = goal.intent
  BY <1>5, <1>8, <1>9 DEF SignedGoal
<1>11. SignedIds(s) = refs
  BY <1>5, <1>7, <1>10 DEF SignedIds, SignedObjects
<1>12. ExpectedFocus(s) = refs
  <2>1. s.intent # "locate"
    BY <1>10 DEF Profiles
  <2> QED
    BY <1>10, <1>11, <2>1 DEF ExpectedFocus
<1> HIDE DEF s
<1> QED
  BY <1>7, <1>10, <1>11, <1>12 DEF CanShowGoal, EmptyGoalKeepsFocus, s, refs

\* A search keeps its results in view, and its operands where there are none.
LEMMA CanShowSearch ==
  ASSUME AnswerInv, phase = "verified", NEW g \in Goals(research.plan), ~CannotBeShown(g),
         research.plan.goals[g].intent \notin Profiles,
         result.signature[g].status = "nonempty" => GoalIsProved(result.signature, g, result.catalog)
  PROVE  CanShowGoal(g)
<1> DEFINE goal == research.plan.goals[g]
           r == Results(research)[g]
           s == result.signature[g]
           p == Projected(research, g, r)
           O == SignedObjects(goal, r)
<1>1. IsSigned(g) /\ SoundGoal(goal, g)
  BY VerifiedIsSigned DEF Verified
<1>2. r.complete
  <2>1. RelationTasks(research.plan, g) # {}
    <3>1. CASE goal.intent = "controlled_companies"
      <4>1. RelationTasks(research.plan, g) = {RelationTask(research.plan, g, "control_explicit"),
                                               RelationTask(research.plan, g, "control_fallback")}
        BY <3>1, RelationTasksAre
      <4> QED
        BY <4>1
    <3>2. CASE goal.intent # "controlled_companies"
      <4>1. RelationTasks(research.plan, g) = {RelationTask(research.plan, g, "goal")}
        BY <3>2, RelationTasksAre
      <4> QED
        BY <4>1
    <3> QED
      BY <3>1, <3>2
  <2> QED
    BY <1>1, <2>1 DEF IsSigned, IsComplete, TasksForGoal
<1>3. r.results = p.results /\ r.facts = p.facts /\ (r.nonempty <=> p.facts # {})
  BY <1>1, <1>2 DEF IsSigned, IsResult
<1>4. /\ p.results \subseteq Endpoints(p.facts) /\ (p.facts = {} <=> p.results = {})
      /\ goal.aggregation = "direct" => p.results \subseteq r.subjects \cup r.objects
  BY ProjectParts DEF Projected
<1>5. r.focus = IF r.skipped /\ ~r.nonempty THEN {}
                ELSE GoalFocus(goal, p, r.subjects, r.objects)
  BY <1>1, <1>2 DEF IsSigned, IsInView, InView
<1>6. /\ Ids(goal.subjects) \subseteq r.subjects /\ Ids(goal.objects) \subseteq r.objects
      /\ AsksNoObject(goal) => r.objects = {}
  <2>1. r.subjects = SubjectsOf(goal, Results(research)) /\ r.objects = ObjectsOf(goal, Results(research))
    BY <1>1 DEF IsSigned
  <2>2. AsksNoObject(goal) => ObjectsOf(goal, Results(research)) = {}
    BY DEF ObjectsOf, AsksNoObject, Ids
  <2> QED
    BY <2>1, <2>2 DEF SubjectsOf, ObjectsOf
<1>7. s = SignedGoal(research, g, r)
  BY <1>1 DEF IsSigned
<1>8. Ids(Refs(goal)) = Ids(goal.subjects) \cup Ids(goal.objects)
  BY DEF Ids, Refs
<1> HIDE DEF r, p, O
<1>9. /\ s.facts = r.facts /\ s.entities = r.entities /\ s.focus = r.focus /\ s.depends = goal.depends
      /\ s.subjects = r.subjects /\ s.objects = O /\ s.intent = goal.intent
      /\ s.aggregation = goal.aggregation
      /\ s.status = IF r.nonempty THEN "nonempty"
                    ELSE IF r.skipped THEN "skipped_empty_input" ELSE "verified_empty"
  BY <1>7 DEF SignedGoal, O
<1>10. O = r.results \cup IF goal.aggregation = "direct" \/ ~r.nonempty THEN r.objects ELSE {}
  BY DEF SignedObjects, O
<1>11. goal.intent = "locate" => goal.aggregation = "none"
  BY <1>1 DEF SoundGoal
<1>12. CASE r.nonempty
  <2>1. s.status = "nonempty" /\ r.facts # {} /\ r.results # {}
    BY <1>3, <1>4, <1>9, <1>12
  <2>2. r.focus = GoalFocus(goal, p, r.subjects, r.objects)
    BY <1>5, <1>12
  <2>3. /\ goal.aggregation = "direct" => r.subjects \cup O \subseteq r.entities
        /\ goal.intent = "locate" => r.subjects \subseteq r.entities
    <3> HIDE DEF s, goal
    <3>1. GoalIsProved(result.signature, g, result.catalog) /\ s.status = "nonempty"
      BY <2>1 DEF s
    <3>2. /\ s.aggregation = "direct" => SignedIds(s) \subseteq s.entities
          /\ s.intent = "locate" => s.subjects \subseteq s.entities
      BY <3>1 DEF GoalIsProved, s
    <3> QED
      BY <1>9, <3>2 DEF SignedIds
  <2>4. CASE goal.intent = "locate"
    <3>1. r.focus = r.subjects /\ ExpectedFocus(s) = r.subjects
      BY <1>9, <2>2, <2>4 DEF GoalFocus, ExpectedFocus
    <3>2. Ids(goal.objects) = {}
      <4>1. AsksNoObject(goal)
        BY <2>4 DEF CannotBeShown
      <4> QED
        BY <4>1 DEF AsksNoObject, Ids
    <3> QED
      BY <1>6, <1>8, <1>9, <2>1, <2>3, <2>4, <3>1, <3>2 DEF CanShowGoal, EmptyGoalKeepsFocus, SignedIds
  <2>5. CASE goal.intent # "locate" /\ goal.aggregation = "direct"
    <3>1. r.focus = r.subjects \cup r.objects /\ ExpectedFocus(s) = r.subjects \cup O
      BY <1>9, <2>2, <2>5 DEF GoalFocus, ExpectedFocus, SignedIds
    <3>2. r.subjects \cup O = r.subjects \cup r.objects
      BY <1>3, <1>4, <1>10, <2>5
    <3> QED
      BY <1>6, <1>8, <1>9, <2>1, <2>3, <2>5, <3>1, <3>2
      DEF CanShowGoal, EmptyGoalKeepsFocus, SignedIds
  <2>6. CASE goal.intent # "locate" /\ goal.aggregation # "direct"
    <3>1. O = r.results
      BY <1>10, <1>12, <2>6
    <3>2. r.focus = r.results /\ ExpectedFocus(s) = r.results
      BY <1>3, <1>9, <2>1, <2>2, <2>6, <3>1 DEF GoalFocus, ExpectedFocus
    <3>3. Ids(goal.objects) \subseteq r.results
      BY <2>1, <2>6 DEF CannotBeShown, r
    <3> QED
      BY <1>3, <1>4, <1>6, <1>8, <1>9, <2>1, <3>1, <3>2, <3>3
      DEF CanShowGoal, EmptyGoalKeepsFocus, SignedIds
  <2> QED
    BY <2>4, <2>5, <2>6
<1>13. CASE ~r.nonempty
  <2>1. r.results = {} /\ O = r.objects
    BY <1>3, <1>4, <1>10, <1>13
  <2>2. s.status # "nonempty" /\ IsRelational(s)
    BY <1>9, <1>13 DEF IsRelational
  <2>3. s.status = "skipped_empty_input" => s.focus = {}
    BY <1>5, <1>9, <1>13
  <2>4. s.status = "verified_empty" => s.focus = SignedIds(s)
    <3>1. goal.intent = "locate" => r.objects = {}
      BY <1>6 DEF CannotBeShown
    <3>2. GoalFocus(goal, p, r.subjects, r.objects) = r.subjects \cup r.objects
      BY <1>3, <2>1, <3>1 DEF GoalFocus
    <3> QED
      BY <1>5, <1>9, <1>13, <2>1, <3>2 DEF SignedIds
  <2> QED
    BY <1>6, <1>8, <1>9, <2>1, <2>2, <2>3, <2>4 DEF CanShowGoal, EmptyGoalKeepsFocus, SignedIds, r
<1> QED
  BY <1>12, <1>13

\* What the Researcher selected is all that the signature is about.
LEMMA SelectionIsKept ==
  ASSUME AnswerInv, phase = "verified",
         \A g \in Goals(research.plan) : CanShowGoal(g)
  PROVE  LET signature == result.signature
             claimed == Union(signature, LAMBDA s : s.entities)
             facts == SignedFacts(signature)
         IN  /\ claimed \subseteq result.selected /\ Endpoints(facts) \subseteq result.selected
             /\ result.selected \subseteq DOMAIN result.catalog
             /\ Ids(PlanRefs(research.plan)) \subseteq result.selected
             /\ result.selected \subseteq claimed \cup Union(signature, SignedIds)
                                                  \cup Endpoints(facts)
<1> DEFINE plan == research.plan
           signature == result.signature
           claimed == Union(signature, LAMBDA s : s.entities)
           facts == SignedFacts(signature)
           ids == Union(signature, SignedIds)
<1>1. phase \in Verified
  BY DEF Verified
<1>2. DOMAIN signature = Goals(plan) /\ \A g \in Goals(plan) : IsSigned(g)
  BY <1>1, VerifiedIsSigned
<1>3. result.catalog = research.records /\ result.selected = SelectedEntities(research, signature)
  BY <1>1 DEF AnswerInv, VerdictInv
<1>4. Ids(PlanRefs(plan)) \subseteq DOMAIN research.records
  BY <1>1, RefsHaveRecords
<1>5. claimed = UNION {signature[g].entities : g \in Goals(plan)}
  BY <1>2 DEF Union
<1>6. facts = UNION {signature[g].facts : g \in Goals(plan)}
  BY <1>2 DEF SignedFacts, Union
<1>7. ids = UNION {SignedIds(signature[g]) : g \in Goals(plan)}
  BY <1>2 DEF Union
<1>8. \A g \in Goals(plan) : signature[g].entities \subseteq DOMAIN research.records
  <2> SUFFICES ASSUME NEW g \in Goals(plan)
               PROVE  signature[g].entities \subseteq DOMAIN research.records
    OBVIOUS
  <2> DEFINE r == Results(research)[g]
  <2>1. signature[g] = SignedGoal(research, g, r) /\ IsInView(research, g, r)
    BY <1>2 DEF IsSigned
  <2> HIDE DEF r
  <2>2. signature[g].entities = r.entities
    BY <2>1 DEF SignedGoal
  <2>3. r.entities \subseteq DOMAIN research.records
    BY <2>1 DEF IsInView, NamedRecords
  <2> QED
    BY <2>2, <2>3
<1>9. \A g \in Goals(plan) : signature[g].facts = Results(research)[g].facts
  <2> SUFFICES ASSUME NEW g \in Goals(plan)
               PROVE  signature[g].facts = Results(research)[g].facts
    OBVIOUS
  <2> DEFINE r == Results(research)[g]
  <2>1. signature[g] = SignedGoal(research, g, r)
    BY <1>2 DEF IsSigned
  <2> HIDE DEF r
  <2>2. signature[g].facts = r.facts
    BY <2>1 DEF SignedGoal
  <2> QED
    BY <2>2 DEF r
<1>10. Endpoints(facts) \subseteq DOMAIN research.records
  BY <1>1, <1>6, <1>9, RefsHaveRecords DEF Endpoints
<1>11. claimed \subseteq DOMAIN research.records
  BY <1>5, <1>8
<1>12. Ids(PlanRefs(plan)) \subseteq ids
  <2>1. Ids(PlanRefs(plan)) = UNION {Ids(Refs(plan.goals[g])) : g \in Goals(plan)}
    BY DEF Ids, PlanRefs
  <2>2. \A g \in Goals(plan) : Ids(Refs(plan.goals[g])) \subseteq SignedIds(signature[g])
    BY DEF CanShowGoal
  <2> QED
    BY <1>7, <2>1, <2>2
<1>13. result.selected = DOMAIN research.records
                           \cap (Ids(PlanRefs(plan)) \cup Endpoints(facts) \cup claimed)
  BY <1>3 DEF SelectedEntities
<1> HIDE DEF claimed, ids, facts
<1>14. /\ claimed \subseteq result.selected /\ Endpoints(facts) \subseteq result.selected
       /\ result.selected \subseteq DOMAIN result.catalog
       /\ Ids(PlanRefs(plan)) \subseteq result.selected
       /\ result.selected \subseteq claimed \cup ids \cup Endpoints(facts)
  BY <1>3, <1>4, <1>10, <1>11, <1>12, <1>13
<1> QED
  BY <1>14 DEF claimed, ids, facts

\* The records shown prove a goal as all records do.
LEMMA ShownProves ==
  ASSUME NEW s, NEW catalog, NEW nodes, RecordsProve(s, catalog),
         \A e \in DOMAIN nodes : nodes[e] = catalog[e],
         s.entities \subseteq DOMAIN nodes, Endpoints(s.facts) \subseteq DOMAIN nodes
  PROVE  RecordsProve(s, nodes)
BY DEF RecordsProve, RelationsAreProved, ProfileIsProved

\* Where no goal has one of the three forms, the goals to tell of are those that
\* are not empty.
LEMMA CanBeShown == AnswerInv => VerifiedCanBeShown
<1> DEFINE plan == research.plan
           signature == result.signature
           told == {g \in Goals(plan) : signature[g].status = "nonempty"}
           graph == ShownGraph(result)
           selected == result.selected
<1> SUFFICES ASSUME AnswerInv, phase = "verified", \A g \in Goals(plan) : ~CannotBeShown(g)
             PROVE  \E x \in SUBSET Goals(plan) : ShowAccepted(result, x)
  BY DEF VerifiedCanBeShown
<1>1. phase \in Verified
  BY DEF Verified
<1>2. /\ DOMAIN signature = Goals(plan)
      /\ \A g \in Goals(plan) : IsSigned(g) /\ SoundGoal(plan.goals[g], g)
  BY <1>1, VerifiedIsSigned
<1>3. /\ signature = Signature(research) /\ result.catalog = research.records
      /\ InOrder(plan) /\ FinishAccepted(signature, selected, result.catalog)
      /\ SoundPlan(plan)
  BY <1>1, SoundIsInOrder DEF AnswerInv, PlanInv, VerdictInv, Verified
<1>4. ASSUME NEW g \in Goals(plan) PROVE CanShowGoal(g)
  <2>1. CASE plan.goals[g].intent \in Profiles
    BY <2>1, CanShowProfile
  <2>2. CASE plan.goals[g].intent \notin Profiles
    <3>1. signature[g].status = "nonempty" => GoalIsProved(signature, g, result.catalog)
      BY <1>2, <1>3 DEF FinishAccepted, NoMatch
    <3> QED
      BY <2>2, <3>1, CanShowSearch
  <2> QED
    BY <2>1, <2>2
<1> DEFINE claimed == Union(signature, LAMBDA s : s.entities)
           facts == SignedFacts(signature)
<1>5. /\ claimed \subseteq selected /\ Endpoints(facts) \subseteq selected
      /\ selected \subseteq DOMAIN result.catalog /\ Ids(PlanRefs(plan)) \subseteq selected
      /\ selected \subseteq claimed \cup Union(signature, SignedIds) \cup Endpoints(facts)
  BY <1>4, SelectionIsKept
<1>6. /\ DOMAIN graph.nodes = DOMAIN result.catalog \cap (selected \cup Endpoints(facts))
      /\ \A e \in DOMAIN graph.nodes : graph.nodes[e] = result.catalog[e]
  BY DEF ShownGraph
<1> HIDE DEF graph, claimed, facts
<1>7. DOMAIN graph.nodes = selected
  BY <1>5, <1>6
<1>8. SignedFocus(signature) # {} /\ SignedFocus(signature) \subseteq selected
  BY <1>3, <1>5 DEF FinishAccepted, FocusIsComplete, facts
<1>9. ASSUME NEW g \in Goals(plan)
      PROVE  /\ signature[g].entities \subseteq selected
             /\ Endpoints(signature[g].facts) \subseteq selected
  <2>1. signature[g].entities \subseteq claimed /\ signature[g].facts \subseteq facts
    BY <1>2 DEF claimed, facts, SignedFacts, Union
  <2>2. Endpoints(signature[g].facts) \subseteq Endpoints(facts)
    BY <2>1 DEF Endpoints
  <2> QED
    BY <1>5, <2>1, <2>2
<1>10. ~NoMatch(signature) => SelectionIsProved(result)
  <2> SUFFICES ASSUME ~NoMatch(signature), NEW g \in Goals(plan), signature[g].status = "nonempty"
               PROVE  GoalIsShown(signature[g], result)
    BY <1>2, <1>5 DEF SelectionIsProved, claimed, facts
  <2>1. RecordsProve(signature[g], result.catalog)
    BY <1>2, <1>3 DEF FinishAccepted, GoalIsProved
  <2>2. RecordsProve(signature[g], graph.nodes)
    BY <1>6, <1>7, <1>9, <2>1, ShownProves
  <2> QED
    BY <1>4, <2>2 DEF CanShowGoal, GoalIsShown, graph
<1>11. NoMatch(signature) => AbsenceIsProved(result)
  <2> SUFFICES ASSUME NoMatch(signature) PROVE AbsenceIsProved(result)
    OBVIOUS
  <2>1. \A g \in Goals(plan) : signature[g].status # "nonempty"
    BY <1>2 DEF NoMatch
  <2>2. 1 \in Goals(plan)
    BY <1>3 DEF SoundPlan
  <2>3. IsRelational(signature[1])
    BY <1>4, <2>1, <2>2 DEF CanShowGoal
  <2>4. \A g \in Goals(plan) : signature[g].facts = {} /\ signature[g].entities = {}
    BY <1>2, <1>3, <2>1, EmptyHasNothing
  <2>5. claimed = {} /\ facts = {}
    BY <1>2, <2>4 DEF claimed, facts, SignedFacts, Union
  <2>6. ASSUME NEW g \in Goals(plan)
        PROVE  SignedIds(signature[g]) \subseteq Ids(PlanRefs(plan))
    <3> DEFINE goal == plan.goals[g]
               r == Results(research)[g]
    <3>1. signature[g].subjects = r.subjects /\ signature[g].objects = r.objects
      <4>1. signature[g] = SignedGoal(research, g, r)
        BY <1>2 DEF IsSigned
      <4>2. signature[g].objects = r.objects
        BY <1>4, <2>1 DEF CanShowGoal
      <4> HIDE DEF r
      <4>3. signature[g].subjects = r.subjects
        BY <4>1 DEF SignedGoal
      <4> QED
        BY <4>2, <4>3 DEF r
    <3>2. \A h \in Inputs(goal) : h \in Goals(plan)
      BY <1>3 DEF InOrder
    <3>3. \A h \in Inputs(goal) : Results(research)[h].results = {}
      BY <1>4, <2>1, <3>2 DEF CanShowGoal
    <3>4. r.subjects = Ids(goal.subjects) /\ r.objects = Ids(goal.objects)
      <4>1. r.subjects = SubjectsOf(goal, Results(research)) /\ r.objects = ObjectsOf(goal, Results(research))
        BY <1>2 DEF IsSigned
      <4>2. /\ UNION {Results(research)[h].results : h \in goal.subjectGoals} = {}
            /\ UNION {Results(research)[h].results : h \in goal.objectGoals} = {}
        BY <3>3 DEF Inputs
      <4> QED
        BY <4>1, <4>2 DEF SubjectsOf, ObjectsOf
    <3>5. goal.subjects \subseteq PlanRefs(plan) /\ goal.objects \subseteq PlanRefs(plan)
      BY DEF PlanRefs, Refs
    <3> QED
      BY <3>1, <3>4, <3>5 DEF SignedIds, Ids
  <2>7. Union(signature, SignedIds) \subseteq Ids(PlanRefs(plan))
    <3>1. Union(signature, SignedIds) = UNION {SignedIds(signature[g]) : g \in Goals(plan)}
      BY <1>2 DEF Union
    <3> QED
      BY <2>6, <3>1
  <2>8. Ids(PlanRefs(plan)) \subseteq Union(signature, SignedIds)
    <3>1. Union(signature, SignedIds) = UNION {SignedIds(signature[g]) : g \in Goals(plan)}
      BY <1>2 DEF Union
    <3>2. Ids(PlanRefs(plan)) = UNION {Ids(Refs(plan.goals[g])) : g \in Goals(plan)}
      BY DEF Ids, PlanRefs
    <3>3. \A g \in Goals(plan) : Ids(Refs(plan.goals[g])) \subseteq SignedIds(signature[g])
      BY <1>4 DEF CanShowGoal
    <3> QED
      BY <3>1, <3>2, <3>3
  <2>9. Endpoints(facts) = {}
    BY <2>5 DEF Endpoints
  <2>10. selected = Union(signature, SignedIds)
    BY <1>5, <2>5, <2>7, <2>8, <2>9
  <2> QED
    BY <1>2, <2>2, <2>3, <2>10 DEF AbsenceIsProved
<1>12. selected # {}
  BY <1>8
<1>13. \A g \in DOMAIN signature : EmptyGoalKeepsFocus(signature[g])
  BY <1>2, <1>4 DEF CanShowGoal
<1>14. AnswerIsSupported(signature, told) /\ told \in SUBSET Goals(plan)
  BY <1>2 DEF AnswerIsSupported
<1> HIDE DEF told
<1>15. ShowAccepted(result, told)
  BY <1>7, <1>8, <1>10, <1>11, <1>12, <1>13, <1>14 DEF ShowAccepted, graph
<1> QED
  BY <1>14, <1>15

-----------------------------------------------------------------------------
(* What is refused has a reason. Without one, every goal is complete, known, *)
(* of fitting length, and proved.                                          *)

Judged == Results(Completion)

\* The Researcher's records make no difference to what was called and found.
IsJudged(g) ==
    LET goal == research.plan.goals[g]
        c == Judged[g]
        r == Results(research)[g]
    IN  /\ c.complete /\ c.ready
        /\ c.subjects = r.subjects /\ c.objects = r.objects
        /\ c.results = r.results /\ c.focus = r.focus
        /\ c.subjects = SubjectsOf(goal, Judged) /\ c.objects = ObjectsOf(goal, Judged)
        /\ IsComplete(Completion, g, c) /\ IsResult(Completion, g, c)
        /\ IsInView(Completion, g, c)

\* The Researcher's verdict is on the records of the conversation too.
LEMMA CompletionIs ==
  ASSUME AnswerInv
  PROVE  /\ Completion.plan = research.plan /\ Completion.done = research.done
         /\ Completion.found = research.found /\ Completion.records = Catalog
         /\ DOMAIN Catalog = DOMAIN research.records
                               \cup (ContextIds(research.plan) \cap DOMAIN session.nodes)
         /\ \A tasks : FactsOf(Completion, tasks) = FactsOf(research, tasks)
         /\ \A g : ActiveTasks(Completion, g) = ActiveTasks(research, g)
<1>1. /\ Completion.plan = research.plan /\ Completion.done = research.done
      /\ Completion.found = research.found /\ Completion.records = Catalog
  BY DEF Completion, AnswerInv, PlanInv
<1>2. \A tasks : FactsOf(Completion, tasks) = FactsOf(research, tasks)
  BY <1>1 DEF FactsOf
<1>3. ASSUME NEW g PROVE ActiveTasks(Completion, g) = ActiveTasks(research, g)
  BY <1>1, <1>2 DEF ActiveTasks
<1>4. DOMAIN Catalog = DOMAIN research.records
                         \cup (ContextIds(research.plan) \cap DOMAIN session.nodes)
  BY DEF Catalog, Overlay
<1> QED
  BY <1>1, <1>2, <1>3, <1>4

\* Where no goal is without a task, all goals are complete.
LEMMA AllComplete ==
  ASSUME AnswerInv, phase = "refused", \A g \in Goals(research.plan) : ~HasNoTask(g)
  PROVE  \A g \in Goals(research.plan) :
            Results(research)[g].complete /\ Results(research)[g].ready
<1> DEFINE plan == research.plan
           R == Results(research)
<1>1. InOrder(plan) /\ \A g \in Goals(plan) : R[g].called
  BY SoundIsInOrder DEF AnswerInv, PlanInv, VerdictInv, Complete
<1>2. PICK n \in Nat : Goals(plan) = 1..n
  BY <1>1 DEF InOrder
<1>3. \A h \in Goals(plan) : TasksForGoal(plan, h) # {} /\ plan.goals[h].depends \subseteq Goals(plan)
  BY <1>1 DEF HasNoTask, InOrder
<1>4. \A h \in 1..n : R[h].called /\ \A k \in plan.goals[h].depends : TasksForGoal(plan, k) # {}
  BY <1>1, <1>2, <1>3
<1> HIDE DEF R
<1>5. \A h \in 1..n : TasksForGoal(plan, h) # {} => R[h].complete
  BY <1>1, <1>2, <1>4, CalledIsComplete DEF R
<1> QED
  BY <1>1, <1>2, <1>3, <1>5, ResultParts DEF R

\* So is the verdict: the records it adds change no goal's result.
LEMMA AllJudged ==
  ASSUME AnswerInv, phase = "refused", \A g \in Goals(research.plan) : ~HasNoTask(g)
  PROVE  \A g \in Goals(research.plan) : IsJudged(g)
<1> DEFINE plan == research.plan
           R == Results(research)
<1>1. InOrder(plan)
  BY SoundIsInOrder DEF AnswerInv, PlanInv
<1>2. Continues(research, Completion, {})
  BY CompletionIs DEF Continues
<1>3. \A g \in Goals(plan) : Keeps(R[g], Judged[g])
  BY <1>1, <1>2, CallsKeep DEF Judged
<1>4. \A g \in Goals(plan) :
         /\ Judged[g].complete /\ Judged[g].results = R[g].results
         /\ Judged[g].subjects = R[g].subjects /\ Judged[g].objects = R[g].objects
  BY <1>3, AllComplete DEF Keeps
<1>5. ASSUME NEW g \in Goals(plan) PROVE IsJudged(g)
  <2> DEFINE goal == plan.goals[g]
             c == Judged[g]
             r == R[g]
  <2>1. /\ c.subjects = SubjectsOf(goal, Judged) /\ c.objects = ObjectsOf(goal, Judged)
        /\ IsComplete(Completion, g, c) /\ IsResult(Completion, g, c)
        /\ IsInView(Completion, g, c)
    BY <1>1, CompletionIs, ResultParts DEF Judged
  <2>2. IsComplete(research, g, r) /\ IsResult(research, g, r) /\ IsInView(research, g, r)
    BY <1>1, ResultParts
  <2>3. c.complete /\ r.complete /\ c.ready
    BY <1>4, <2>1, AllComplete DEF IsComplete
  <2>4. r.open = TRUE /\ c.open = TRUE
    <3>1. goal.depends \subseteq Goals(plan) /\ Inputs(goal) \subseteq goal.depends
      BY <1>1 DEF InOrder
    <3>2. \A h \in goal.depends : R[h].called /\ R[h].complete
      BY <3>1, AllComplete DEF AnswerInv, VerdictInv, Complete
    <3>3. r.open = TRUE
      BY <1>1, <3>1, <3>2, ResultParts
    <3>4. c.open \in BOOLEAN
      BY <1>1, CompletionIs, ResultParts DEF Judged
    <3> QED
      BY <1>3, <3>3, <3>4 DEF Keeps
  <2>5. c.subjects = r.subjects /\ c.objects = r.objects
    BY <1>4
  <2> HIDE DEF c, r
  <2>6. SkippedOf(Completion, g, c) = SkippedOf(research, g, r)
    <3>1. HasEmptyInput(goal, c) = HasEmptyInput(goal, r)
      BY <2>5 DEF HasEmptyInput
    <3>2. AreLookedUp(Completion, Refs(goal)) = AreLookedUp(research, Refs(goal))
      BY CompletionIs DEF AreLookedUp
    <3> DEFINE explicit == FactsOf(research, Explicit(plan, g)) # {}
    <3>3. ASSUME NEW t PROVE t \in SkippedOf(Completion, g, c) <=> t \in SkippedOf(research, g, r)
      <4>1. t \in SkippedOf(Completion, g, c) <=>
              /\ c.open /\ AreLookedUp(Completion, Refs(Completion.plan.goals[g]))
              /\ t \in RelationTasks(Completion.plan, g) \ Completion.done
              /\ \/ HasEmptyInput(Completion.plan.goals[g], c)
                 \/ /\ t.scope = "control_fallback"
                    /\ FactsOf(Completion, Explicit(Completion.plan, g)) # {}
        BY SkippedTasks DEF SkippedOf
      <4>2. t \in SkippedOf(research, g, r) <=>
              /\ r.open /\ AreLookedUp(research, Refs(goal))
              /\ t \in RelationTasks(plan, g) \ research.done
              /\ HasEmptyInput(goal, r) \/ (t.scope = "control_fallback" /\ explicit)
        BY SkippedTasks DEF SkippedOf
      <4>3. /\ Completion.plan = plan /\ Completion.done = research.done
            /\ (FactsOf(Completion, Explicit(plan, g)) # {}) = explicit
        BY CompletionIs
      <4> HIDE DEF explicit, goal
      <4> QED
        BY <2>4, <3>1, <3>2, <4>1, <4>2, <4>3 DEF goal
    <3>4. SkippedOf(Completion, g, c) = SkippedOf(research, g, r)
      BY <3>3 DEF SkippedOf, Skipped
    <3> QED
      BY <3>4
  <2>7. c.skipped <=> r.skipped
    BY <2>1, <2>2, <2>6, CompletionIs DEF IsComplete
  <2>8. Projected(Completion, g, c) = Projected(research, g, r)
    BY <2>5, CompletionIs DEF Projected
  <2>9. InView(Completion, g, c) = InView(research, g, r)
    <3>1. c.results = r.results
      BY <1>4 DEF c, r
    <3> QED
      BY <2>5, <2>8, <3>1, CompletionIs DEF InView
  <2>10. c.focus = r.focus
    <3>1. CASE goal.intent \in Profiles
      <4>1. SkippedOf(research, g, r) = {}
        BY <3>1, RelationTasksAre DEF SkippedOf, Skipped
      <4>2. ~c.skipped /\ ~r.skipped
        BY <2>2, <2>7, <4>1 DEF IsComplete
      <4> QED
        BY <2>1, <2>2, <2>3, <2>9, <4>2 DEF IsInView
    <3>2. CASE goal.intent \notin Profiles
      <4>1. c.nonempty <=> r.nonempty
        BY <2>1, <2>2, <2>3, <2>8, <3>2, CompletionIs DEF IsResult
      <4> QED
        BY <2>1, <2>2, <2>3, <2>7, <2>9, <4>1 DEF IsInView
    <3> QED
      BY <3>1, <3>2
  <2> QED
    BY <1>4, <2>1, <2>3, <2>10 DEF IsJudged, c, r
<1> QED
  BY <1>5

Proposed == Signature(Completion)

\* What the question names, and what the relations found show.
KnownIds == Ids(PlanRefs(research.plan)) \cup Endpoints(SignedFacts(Proposed))

\* What the Researcher proposes to sign, part by part.
LEMMA ProposedIs ==
  ASSUME AnswerInv, phase = "refused", \A g \in Goals(research.plan) : ~HasNoTask(g)
  PROVE  /\ DOMAIN Proposed = Goals(research.plan)
         /\ \A g \in Goals(research.plan) :
               /\ Proposed[g] = SignedGoal(Completion, g, Judged[g])
               /\ Judged[g].facts \subseteq SignedFacts(Proposed)
               /\ Proposed[g].facts = Judged[g].facts
               /\ Proposed[g].focus = Judged[g].focus
               /\ Proposed[g].entities = Judged[g].entities
               /\ Proposed[g].subjects = Judged[g].subjects
               /\ Proposed[g].depends = research.plan.goals[g].depends
               /\ Proposed[g].intent = research.plan.goals[g].intent
               /\ Proposed[g].targets = research.plan.goals[g].targets
               /\ Proposed[g].attributes = research.plan.goals[g].attributes
               /\ Proposed[g].aggregation = research.plan.goals[g].aggregation
               /\ Proposed[g].types = EffectiveTypes(Completion, g)
               /\ Proposed[g].objects = SignedObjects(research.plan.goals[g], Judged[g])
               /\ Proposed[g].status = IF Judged[g].nonempty THEN "nonempty"
                                       ELSE IF Judged[g].skipped THEN "skipped_empty_input"
                                       ELSE "verified_empty"
<1>1. InOrder(research.plan) /\ Completion.plan = research.plan
  BY SoundIsInOrder, CompletionIs DEF AnswerInv, PlanInv
<1>2. DOMAIN Judged = Goals(research.plan)
  BY <1>1, ResultsUnfold DEF Judged
<1>3. DOMAIN Proposed = Goals(research.plan)
  BY <1>2 DEF Proposed, Signature, Judged
<1>4. ASSUME NEW g \in Goals(research.plan)
      PROVE  Proposed[g] = SignedGoal(Completion, g, Judged[g])
  BY <1>2 DEF Proposed, Signature, Judged
<1>5. ASSUME NEW g \in Goals(research.plan)
      PROVE  Proposed[g].facts = Judged[g].facts /\ Judged[g].facts \subseteq SignedFacts(Proposed)
  <2> DEFINE s == Proposed[g]
             c == Judged[g]
  <2>0. s = SignedGoal(Completion, g, c)
    BY <1>4
  <2> HIDE DEF s, c
  <2>1. s.facts = c.facts
    BY <2>0 DEF SignedGoal
  <2> USE DEF s, c
  <2>2. Proposed[g].facts \subseteq SignedFacts(Proposed)
    BY <1>3 DEF SignedFacts, Union
  <2> QED
    BY <2>1, <2>2
<1>6. ASSUME NEW g \in Goals(research.plan)
      PROVE  LET s == Proposed[g]
                 c == Judged[g]
                 goal == research.plan.goals[g]
             IN  /\ s.focus = c.focus /\ s.entities = c.entities /\ s.subjects = c.subjects
                 /\ s.depends = goal.depends /\ s.intent = goal.intent
                 /\ s.targets = goal.targets /\ s.attributes = goal.attributes
                 /\ s.aggregation = goal.aggregation
                 /\ s.types = EffectiveTypes(Completion, g)
                 /\ s.objects = SignedObjects(goal, c)
                 /\ s.status = IF c.nonempty THEN "nonempty"
                               ELSE IF c.skipped THEN "skipped_empty_input"
                               ELSE "verified_empty"
  <2> DEFINE s == Proposed[g]
             c == Judged[g]
             goal == research.plan.goals[g]
  <2>1. s = SignedGoal(Completion, g, c) /\ Completion.plan.goals[g] = goal
    BY <1>1, <1>4
  <2> HIDE DEF s, c, goal
  <2>2. /\ s.focus = c.focus /\ s.entities = c.entities /\ s.subjects = c.subjects
        /\ s.depends = goal.depends /\ s.intent = goal.intent
        /\ s.targets = goal.targets /\ s.attributes = goal.attributes
        /\ s.aggregation = goal.aggregation
        /\ s.types = EffectiveTypes(Completion, g)
        /\ s.objects = SignedObjects(goal, c)
        /\ s.status = IF c.nonempty THEN "nonempty"
                      ELSE IF c.skipped THEN "skipped_empty_input"
                      ELSE "verified_empty"
    BY <2>1 DEF SignedGoal
  <2> QED
    BY <2>2 DEF s, c, goal
<1> QED
  BY <1>3, <1>4, <1>5, <1>6

\* All that any goal has to do with is known and has a record.
LEMMA AllIsKnown ==
  ASSUME AnswerInv, phase = "refused", \A g \in Goals(research.plan) : ~HasNoTask(g)
  PROVE  /\ KnownIds \subseteq DOMAIN Catalog /\ KnownIds \subseteq Entities
         /\ KnownIds \subseteq SelectedEntities(Completion, Proposed)
         /\ \A g \in Goals(research.plan) :
               /\ Judged[g].results \subseteq KnownIds
               /\ Judged[g].subjects \subseteq KnownIds
               /\ Judged[g].objects \subseteq KnownIds
               /\ Judged[g].focus \subseteq KnownIds
<1> DEFINE plan == research.plan
           facts == SignedFacts(Proposed)
<1>1. /\ InOrder(plan) /\ SoundPlan(plan) /\ phase \notin {"idle", "research"}
      /\ ContextIds(plan) \subseteq DOMAIN session.nodes
  BY SoundIsInOrder DEF AnswerInv, PlanInv
<1>2. \A g \in Goals(plan) : IsJudged(g)
  BY AllJudged
<1>3. ASSUME NEW g \in Goals(plan)
      PROVE  /\ Judged[g].results \subseteq KnownIds
             /\ Endpoints(Judged[g].facts) \subseteq DOMAIN research.records
  <2>1. IsResult(Completion, g, Judged[g]) /\ Judged[g].complete
    BY <1>2 DEF IsJudged
  <2>2. CASE plan.goals[g].intent \in Profiles
    <3>1. Judged[g].results = Ids(Refs(plan.goals[g])) /\ Judged[g].facts = {}
      BY <2>1, <2>2, CompletionIs DEF IsResult
    <3>2. Ids(Refs(plan.goals[g])) \subseteq Ids(PlanRefs(plan))
      BY <1>1, PlanIds
    <3> QED
      BY <3>1, <3>2 DEF KnownIds, Endpoints
  <2>3. CASE plan.goals[g].intent \notin Profiles
    <3> DEFINE found == FactsOf(research, ActiveTasks(research, g))
               p == Project(plan.goals[g], found, Judged[g].subjects, Judged[g].objects)
    <3>1. Judged[g].results = p.results /\ Judged[g].facts = p.facts
      BY <2>1, <2>3, CompletionIs DEF IsResult, Projected
    <3> HIDE DEF found
    <3>2. p.facts \subseteq found /\ p.results \subseteq Endpoints(p.facts)
      BY ProjectParts
    <3>3. Endpoints(found) \subseteq DOMAIN research.records
      BY <1>1, CallsLeaveRecords DEF found
    <3> HIDE DEF p
    <3>4. Judged[g].facts \subseteq facts
      BY ProposedIs
    <3> QED
      BY <3>1, <3>2, <3>3, <3>4 DEF KnownIds, Endpoints
  <2> QED
    BY <2>2, <2>3
<1>4. ASSUME NEW g \in Goals(plan)
      PROVE  Judged[g].subjects \subseteq KnownIds /\ Judged[g].objects \subseteq KnownIds
  <2> DEFINE goal == plan.goals[g]
  <2>1. /\ Judged[g].subjects = SubjectsOf(goal, Judged)
        /\ Judged[g].objects = ObjectsOf(goal, Judged)
    BY <1>2 DEF IsJudged
  <2>2. Ids(goal.subjects) \subseteq KnownIds /\ Ids(goal.objects) \subseteq KnownIds
    BY DEF KnownIds, Ids, PlanRefs, Refs
  <2>3. \A h \in goal.subjectGoals \cup goal.objectGoals : Judged[h].results \subseteq KnownIds
    BY <1>1, <1>3 DEF InOrder, Inputs
  <2> QED
    BY <2>1, <2>2, <2>3 DEF SubjectsOf, ObjectsOf
<1>5. ASSUME NEW g \in Goals(plan) PROVE Judged[g].focus \subseteq KnownIds
  <2>1. IsInView(Completion, g, Judged[g]) /\ IsResult(Completion, g, Judged[g]) /\ Judged[g].complete
    BY <1>2 DEF IsJudged
  <2>2. Judged[g].focus \subseteq InView(Completion, g, Judged[g])
    BY <2>1 DEF IsInView
  <2>3. InView(Completion, g, Judged[g])
           \subseteq Judged[g].results \cup Judged[g].subjects \cup Judged[g].objects
    BY <2>1 DEF InView, GoalFocus, IsResult
  <2> QED
    BY <1>3, <1>4, <2>2, <2>3
<1>6. Endpoints(facts) \subseteq DOMAIN research.records
  <2>1. facts = UNION {Judged[g].facts : g \in Goals(plan)}
    BY ProposedIs DEF SignedFacts, Union
  <2> QED
    BY <1>3, <2>1 DEF Endpoints
<1>7. Ids(PlanRefs(plan)) \subseteq DOMAIN Catalog
  BY <1>1, CallsLeaveRecords, CompletionIs
<1>8. KnownIds \subseteq DOMAIN Catalog
  BY <1>6, <1>7, CompletionIs DEF KnownIds
<1>9. DOMAIN Catalog \subseteq Entities
  BY CompletionIs DEF AnswerInv, NodesInv, IsGraph
<1>10. KnownIds \subseteq SelectedEntities(Completion, Proposed)
  BY <1>8, CompletionIs DEF SelectedEntities, KnownIds
<1> QED
  BY <1>3, <1>4, <1>5, <1>8, <1>9, <1>10

\* No signed set is too long, where none of a goal's is.
LEMMA SignatureFits ==
  ASSUME AnswerInv, phase = "refused", \A g \in Goals(research.plan) : ~HasNoTask(g),
         NEW g \in Goals(research.plan), ~IsTooLong(g)
  PROVE  FitsSignature(Proposed[g])
<1> DEFINE r == Results(research)[g]
           c == Judged[g]
           both == c.objects \cup c.results
           signed == SignedObjects(research.plan.goals[g], c)
<1>1. /\ c.subjects = r.subjects /\ c.objects = r.objects /\ c.results = r.results
      /\ c.focus = r.focus
  BY AllJudged DEF IsJudged
<1>2. IsFiniteSet(Entities)
  BY EntityAssumption DEF Entities
<1>3. c.subjects \subseteq Entities /\ both \subseteq Entities /\ c.focus \subseteq Entities
  BY AllIsKnown
<1> HIDE DEF c, r
<1>4. signed \subseteq both
  BY DEF SignedObjects
<1> HIDE DEF both, signed
<1>5. /\ IsFiniteSet(c.subjects) /\ IsFiniteSet(both) /\ IsFiniteSet(c.focus) /\ IsFiniteSet(signed)
  BY <1>2, <1>3, <1>4, FS_Subset
<1>6. /\ Cardinality(c.subjects) \in Nat /\ Cardinality(both) \in Nat
      /\ Cardinality(c.focus) \in Nat /\ Cardinality(signed) \in Nat
      /\ Cardinality(signed) <= Cardinality(both)
  BY <1>4, <1>5, FS_CardinalityType, FS_Subset
<1>7. /\ ~(Cardinality(c.subjects) > MaxSigned) /\ ~(Cardinality(both) > MaxSigned)
      /\ ~(Cardinality(c.focus) > MaxSigned)
  BY <1>1 DEF IsTooLong, r, both
<1>8. /\ Cardinality(c.subjects) <= MaxSigned /\ Cardinality(signed) <= MaxSigned
      /\ Cardinality(c.focus) <= MaxSigned
  BY <1>6, <1>7, MaxSignedAssumption
<1>9. /\ Proposed[g].subjects = c.subjects /\ Proposed[g].objects = signed
      /\ Proposed[g].focus = c.focus
  BY ProposedIs DEF c, signed
<1> QED
  BY <1>8, <1>9 DEF FitsSignature

\* The relation f leads from s to n, or back.
Links(f, s, n) == (f.source = s /\ f.target = n) \/ (f.target = s /\ f.source = n)

\* What a search keeps are links of a subject to a result; of every subject to
\* every result, in an intersection.
LEMMA ProjectLinks ==
  ASSUME NEW goal, NEW facts, NEW S, NEW O, goal.aggregation # "direct"
  PROVE  LET p == Project(goal, facts, S, O)
         IN  /\ \A f \in p.facts : \E s \in S, n \in p.results : Links(f, s, n)
             /\ goal.aggregation = "intersection" =>
                   \A n \in p.results, s \in S : \E f \in p.facts : Links(f, s, n)
             /\ goal.targets = {} \/ \A n \in p.results : Kind(n) \in goal.targets
<1> DEFINE p == Project(goal, facts, S, O)
           shows(f, s) == {n \in Across(f, goal.direction, s) :
                             /\ O = {} \/ n \in O
                             /\ goal.targets = {} \/ Kind(n) \in goal.targets}
           reached(s) == UNION {shows(f, s) : f \in facts}
           all == UNION {reached(s) : s \in S}
           results == IF goal.aggregation = "intersection"
                      THEN {n \in all : \A s \in S : n \in reached(s)} ELSE all
           shown == {f \in facts : \E s \in S : shows(f, s) \cap results # {}}
<1>1. p.results = results /\ p.facts = shown
  BY DEF Project
<1>2. ASSUME NEW f, NEW s, NEW n \in shows(f, s)
      PROVE  Links(f, s, n) /\ (goal.targets = {} \/ Kind(n) \in goal.targets)
  BY DEF Across, Links
<1> HIDE DEF p, shows
<1>3. results \subseteq all /\ \A n \in all : \E s \in S, f \in facts : n \in shows(f, s)
  OBVIOUS
<1>4. ASSUME goal.aggregation = "intersection", NEW n \in results, NEW s \in S
      PROVE  \E f \in facts : n \in shows(f, s)
  <2>1. n \in reached(s)
    BY <1>4
  <2> QED
    BY <2>1
<1> HIDE DEF results, all
<1>5. ASSUME NEW f \in shown PROVE \E s \in S, n \in results : Links(f, s, n)
  BY <1>2
<1>6. ASSUME goal.aggregation = "intersection", NEW n \in results, NEW s \in S
      PROVE  \E f \in shown : Links(f, s, n)
  <2>1. PICK f \in facts : n \in shows(f, s)
    BY <1>4, <1>6
  <2>2. f \in shown /\ Links(f, s, n)
    BY <1>2, <2>1
  <2> QED
    BY <2>2
<1>7. goal.targets = {} \/ \A n \in results : Kind(n) \in goal.targets
  BY <1>2, <1>3
<1> HIDE DEF shown
<1> QED
  BY <1>1, <1>5, <1>6, <1>7 DEF p

\* The signature of a search proves itself where its facts are such links, no
\* result is a subject of an intersection, and one subject or target is asked
\* where nothing is said of several.
LEMMA LinksProve ==
  ASSUME NEW s, NEW catalog, s.aggregation \in {"none", "union", "intersection"},
         s.facts # {}, Endpoints(s.facts) \subseteq DOMAIN catalog,
         s.types = {} \/ \A f \in s.facts : f.type \in s.types,
         \A f \in s.facts : \E x \in s.subjects, n \in s.objects : Links(f, x, n),
         s.objects \subseteq Endpoints(s.facts),
         s.aggregation = "intersection" =>
            /\ s.objects \cap s.subjects = {}
            /\ \A n \in s.objects, x \in s.subjects : \E f \in s.facts : Links(f, x, n),
         s.intent = "locate" \/ s.aggregation # "none" \/ \A x, y \in s.subjects : x = y,
         \A x, y \in s.targets : x = y,
         s.targets = {} \/ \A n \in s.objects : Kind(n) \in s.targets
  PROVE  RecordsProve(s, catalog)
<1>1. PICK f \in s.facts, x \in s.subjects, n \in s.objects : Links(f, x, n)
  OBVIOUS
<1>2. x \in Endpoints(s.facts) /\ n \in Endpoints(s.facts)
  BY <1>1 DEF Links, Endpoints
<1>3. SubjectsAreProved(s)
  <2>1. CASE s.aggregation = "intersection"
    <3>1. ASSUME NEW y \in s.subjects PROVE y \in Endpoints(s.facts)
      <4>1. PICK e \in s.facts : Links(e, y, n)
        BY <2>1
      <4> QED
        BY <4>1 DEF Links, Endpoints
    <3> QED
      BY <3>1 DEF SubjectsAreProved
  <2>2. CASE s.aggregation = "none"
    BY <1>2, <2>2 DEF SubjectsAreProved
  <2> QED
    BY <2>1, <2>2 DEF SubjectsAreProved
<1>4. OperandsAreJoined(s)
  BY <1>1 DEF OperandsAreJoined, Links
<1>5. AggregationIsProved(s)
  <2>1. ASSUME s.aggregation = "intersection", NEW o \in s.objects
        PROVE  ConnectedSubjects(s, o) = s.subjects
    <3>1. o \notin s.subjects
      BY <2>1
    <3>2. ASSUME NEW y \in s.subjects PROVE y \in ConnectedSubjects(s, o)
      <4>1. PICK e \in s.facts : Links(e, y, o)
        BY <2>1
      <4>2. /\ o \in {e.source, e.target} /\ {e.source, e.target} \cap s.subjects # {}
            /\ y = IF e.target = o THEN e.source ELSE e.target
        BY <3>1, <4>1 DEF Links
      <4> QED
        BY <4>2 DEF ConnectedSubjects
    <3>3. ASSUME NEW y \in ConnectedSubjects(s, o) PROVE y \in s.subjects
      <4>1. PICK e \in s.facts : /\ o \in {e.source, e.target}
                                 /\ {e.source, e.target} \cap s.subjects # {}
                                 /\ y = IF e.target = o THEN e.source ELSE e.target
        BY <3>3 DEF ConnectedSubjects
      <4> QED
        BY <3>1, <4>1
    <3> QED
      BY <3>2, <3>3
  <2> QED
    BY <2>1 DEF AggregationIsProved
<1>6. TargetsAreProved(s)
  <2>1. ASSUME NEW k \in s.targets PROVE k \in {Kind(e) : e \in Endpoints(s.facts)}
    <3>1. Kind(n) \in s.targets
      BY <2>1
    <3>2. k = Kind(n)
      BY <3>1
    <3> QED
      BY <1>2, <3>2
  <2> QED
    BY <2>1 DEF TargetsAreProved
<1>7. RelationsAreProved(s, catalog)
  BY <1>3, <1>4, <1>5, <1>6 DEF RelationsAreProved
<1> QED
  BY <1>1, <1>7 DEF RecordsProve

\* So does that of a direct goal where an end of each relation is a subject.
LEMMA DirectProves ==
  ASSUME NEW s, NEW catalog, s.aggregation = "direct", s.targets = {},
         s.facts # {}, Endpoints(s.facts) \subseteq DOMAIN catalog,
         s.types = {} \/ \A f \in s.facts : f.type \in s.types,
         Endpoints(s.facts) \subseteq s.objects,
         \A f \in s.facts : f.source \in s.subjects \/ f.target \in s.subjects
  PROVE  RecordsProve(s, catalog)
<1>1. PICK f \in s.facts : TRUE
  OBVIOUS
<1>2. f.source \in s.objects /\ f.target \in s.objects
  BY DEF Endpoints
<1>3. OperandsAreJoined(s)
  BY <1>2 DEF OperandsAreJoined
<1>4. AggregationIsProved(s) /\ TargetsAreProved(s) /\ SubjectsAreProved(s)
  BY DEF AggregationIsProved, TargetsAreProved, SubjectsAreProved, SignedIds
<1> QED
  BY <1>1, <1>3, <1>4 DEF RecordsProve, RelationsAreProved

HasReason(g) ==
    \/ AttributeIsLost(g) \/ IsUncombined(g) \/ HasAlternatives(g)
    \/ LooksSkipped(g) \/ ResultIsSubject(g) \/ MixesProfile(g) \/ IsTooLong(g)
    \/ AsksAnotherKind(g) \/ HasNoTask(g)

\* Research is refused although there is no reason.
IsOddlyRefused ==
    AnswerInv /\ phase = "refused" /\ \A g \in Goals(research.plan) : ~HasReason(g)

\* All that is known of research refused without a reason.
LEMMA OddlyRefused ==
  ASSUME IsOddlyRefused
  PROVE  /\ AnswerInv /\ phase = "refused" /\ phase # "idle" /\ InOrder(research.plan)
         /\ \A g \in Goals(research.plan) :
               ~HasNoTask(g) /\ IsJudged(g) /\ SoundGoal(research.plan.goals[g], g)
BY AllJudged, SoundIsInOrder DEF IsOddlyRefused, HasReason, AnswerInv, PlanInv, SoundPlan

\* What the tasks of a goal found was asked for: it has a type that was asked,
\* and an end that is a subject.
LEMMA FactsWereAsked ==
  ASSUME AnswerInv, phase # "idle", NEW g \in Goals(research.plan),
         NEW f \in FactsOf(research, ActiveTasks(research, g))
  PROVE  /\ EffectiveTypes(Completion, g) = {} \/ f.type \in EffectiveTypes(Completion, g)
         /\ \/ f.source \in Results(research)[g].subjects
            \/ f.target \in Results(research)[g].subjects
<1> DEFINE plan == research.plan
           r == Results(research)[g]
           active == ActiveTasks(research, g)
           relations == RelationTasks(plan, g)
           explicit == {t \in relations : t.scope = "control_explicit"}
           stage == IF FactsOf(research, explicit) # {} THEN explicit ELSE relations
           nonempty == {t \in stage : FactsOf(research, {t}) # {}}
           types == EffectiveTypes(Completion, g)
<1>1. PICK t \in active \cap research.done : f \in research.found[t]
  BY DEF FactsOf
<1>2. t \in relations /\ active \subseteq stage
  <2>1. active \subseteq relations
    BY DEF ActiveTasks
  <2>2. active = IF explicit = {} THEN relations
                 ELSE IF FactsOf(research, explicit) # {} THEN explicit ELSE relations \ explicit
    BY DEF ActiveTasks
  <2>3. explicit = {} => FactsOf(research, explicit) = {}
    BY DEF FactsOf
  <2> HIDE DEF explicit, active, relations
  <2>4. explicit \subseteq relations
    BY DEF explicit
  <2> QED
    BY <1>1, <2>1, <2>2, <2>3, <2>4
<1>3. t.scope # "lookup" /\ t.goal = g
  BY <1>2, RelationTasksAre
<1>4. research.found[t] = QueryRelations(world, AskedTypes(plan, t), AskedDirection(plan, t),
                                         r.subjects, r.objects)
  BY <1>1, <1>3 DEF AnswerInv, ReceiptsInv, IsReceipt
<1>5. /\ AskedTypes(plan, t) = {} \/ f.type \in AskedTypes(plan, t)
      /\ f.source \in r.subjects \/ f.target \in r.subjects
  BY <1>1, <1>4 DEF QueryRelations, Joins
<1>6. t \in nonempty
  <2>1. f \in FactsOf(research, {t})
    BY <1>1 DEF FactsOf
  <2> QED
    BY <1>1, <1>2, <2>1
<1>7. types = IF \E x \in nonempty : AskedTypes(plan, x) = {} THEN {}
              ELSE UNION {AskedTypes(plan, x) : x \in nonempty}
  <2>1. Completion.plan = plan /\ \A tasks : FactsOf(Completion, tasks) = FactsOf(research, tasks)
    BY CompletionIs
  <2>2. nonempty = {x \in stage : FactsOf(Completion, {x}) # {}}
    BY <2>1
  <2>3. stage = IF FactsOf(Completion, explicit) # {} THEN explicit
                ELSE RelationTasks(Completion.plan, g)
    BY <2>1
  <2> HIDE DEF nonempty, stage
  <2> QED
    BY <2>1, <2>2, <2>3 DEF EffectiveTypes
<1> HIDE DEF nonempty, types
<1>8. types = {} \/ f.type \in types
  BY <1>5, <1>6, <1>7
<1> QED
  BY <1>5, <1>8 DEF types

\* Two entities are one where there is at most one.
LEMMA OneAtMost ==
  ASSUME NEW S, IsFiniteSet(S), ~(Cardinality(S) > 1)
  PROVE  \A x, y \in S : x = y
<1> SUFFICES ASSUME NEW x \in S, NEW y \in S, x # y PROVE FALSE
  OBVIOUS
<1>1. /\ IsFiniteSet({x}) /\ Cardinality({x}) = 1
  BY FS_Singleton
<1>2. /\ IsFiniteSet({x} \cup {y}) /\ Cardinality({x} \cup {y}) = 2
  <2>1. /\ IsFiniteSet({x} \cup {y})
        /\ Cardinality({x} \cup {y}) =
              IF y \in {x} THEN Cardinality({x}) ELSE Cardinality({x}) + 1
    BY <1>1, FS_AddElement
  <2>2. y \notin {x}
    OBVIOUS
  <2> QED
    BY <1>1, <2>1, <2>2
<1>3. {x} \cup {y} \subseteq S
  OBVIOUS
<1>4. Cardinality({x} \cup {y}) <= Cardinality(S) /\ Cardinality(S) \in Nat
  BY <1>3, FS_Subset, FS_CardinalityType
<1> QED
  BY <1>2, <1>4

\* What a search found proves its signature.
LEMMA SearchIsProved ==
  ASSUME IsOddlyRefused, NEW g \in Goals(research.plan),
         research.plan.goals[g].intent \notin Profiles, Judged[g].nonempty
  PROVE  RecordsProve(Proposed[g], Catalog)
<1> DEFINE plan == research.plan
           goal == plan.goals[g]
           c == Judged[g]
           s == Proposed[g]
           found == FactsOf(research, ActiveTasks(research, g))
           p == Project(goal, found, c.subjects, c.objects)
<1>1. /\ AnswerInv /\ phase = "refused" /\ phase # "idle" /\ IsJudged(g) /\ SoundGoal(goal, g)
      /\ \A h \in Goals(plan) : ~HasNoTask(h)
  BY OddlyRefused
<1>2. c.results = p.results /\ c.facts = p.facts /\ p.facts # {}
  BY <1>1, CompletionIs DEF IsJudged, IsResult, Projected
<1>3. /\ s.facts = c.facts /\ s.subjects = c.subjects /\ s.intent = goal.intent
      /\ s.targets = goal.targets /\ s.aggregation = goal.aggregation
      /\ s.types = EffectiveTypes(Completion, g)
      /\ s.objects = IF goal.aggregation = "direct" THEN c.results \cup c.objects ELSE c.results
      /\ c.facts \subseteq SignedFacts(Proposed)
  BY <1>1, ProposedIs DEF SignedObjects
<1>4. p.facts \subseteq found /\ p.results \subseteq Endpoints(p.facts)
  BY ProjectParts
<1>5. Endpoints(s.facts) \subseteq DOMAIN Catalog
  BY <1>1, <1>3, AllIsKnown DEF KnownIds, Endpoints
<1>6. c.subjects = Results(research)[g].subjects /\ c.results = Results(research)[g].results
  BY <1>1 DEF IsJudged
<1>7. \A f \in s.facts : /\ s.types = {} \/ f.type \in s.types
                         /\ f.source \in s.subjects \/ f.target \in s.subjects
  BY <1>1, <1>2, <1>3, <1>4, <1>6, FactsWereAsked
<1> HIDE DEF found
<1>8. CASE goal.aggregation = "direct"
  <2>1. p.results = Endpoints(p.facts)
    BY <1>8 DEF Project
  <2> HIDE DEF p, c, s
  <2>2. Endpoints(s.facts) \subseteq s.objects
    BY <1>2, <1>3, <1>8, <2>1
  <2>3. goal.targets = {}
    BY <1>1, <1>8 DEF SoundGoal
  <2> QED
    BY <1>2, <1>3, <1>5, <1>7, <1>8, <2>2, <2>3, DirectProves DEF s
<1>9. CASE goal.aggregation # "direct"
  <2>1. /\ \A f \in p.facts : \E x \in c.subjects, n \in p.results : Links(f, x, n)
        /\ goal.aggregation = "intersection" =>
              \A n \in p.results, x \in c.subjects : \E f \in p.facts : Links(f, x, n)
        /\ goal.targets = {} \/ \A n \in p.results : Kind(n) \in goal.targets
    BY <1>9, ProjectLinks
  <2>2. ~IsUncombined(g) /\ ~HasAlternatives(g) /\ ~ResultIsSubject(g)
    BY DEF IsOddlyRefused, HasReason
  <2>3. goal.aggregation = "intersection" => c.results \cap c.subjects = {}
    BY <1>6, <2>2 DEF ResultIsSubject
  <2>4. IsFiniteSet(c.subjects) /\ IsFiniteSet(goal.targets)
    <3>1. IsFiniteSet(Entities) /\ c.subjects \subseteq Entities
      BY <1>1, AllIsKnown, EntityAssumption DEF Entities
    <3>2. IsFiniteSet(Kinds)
      <4>1. IsFiniteSet({}) /\ Kinds = (({} \cup {"person"}) \cup {"company"}) \cup {"location"}
        BY FS_EmptySet DEF Kinds
      <4> QED
        BY <4>1, FS_AddElement
    <3>3. goal.targets \subseteq Kinds
      BY <1>1 DEF SoundGoal
    <3> QED
      BY <3>1, <3>2, <3>3, FS_Subset
  <2>5. \A x, y \in goal.targets : x = y
    BY <2>2, <2>4, OneAtMost DEF HasAlternatives
  <2>6. goal.intent = "locate" \/ goal.aggregation # "none" \/ \A x, y \in c.subjects : x = y
    <3>1. CASE goal.aggregation = "none" /\ goal.intent # "locate"
      <4>1. ~(Cardinality(c.subjects) > 1)
        BY <1>6, <2>2, <3>1 DEF IsUncombined
      <4> QED
        BY <2>4, <4>1, OneAtMost
    <3> QED
      BY <3>1
  <2>7. goal.aggregation \in {"none", "union", "intersection"}
    BY <1>1, <1>9 DEF SoundGoal
  <2> HIDE DEF p, c, goal, s
  <2>8. s.objects = p.results
    BY <1>2, <1>3, <1>9
  <2>9. /\ s.aggregation \in {"none", "union", "intersection"} /\ s.facts # {}
        /\ s.types = {} \/ \A f \in s.facts : f.type \in s.types
        /\ \A f \in s.facts : \E x \in s.subjects, n \in s.objects : Links(f, x, n)
        /\ s.objects \subseteq Endpoints(s.facts)
    BY <1>2, <1>3, <1>4, <1>7, <2>1, <2>7, <2>8
  <2>10. s.aggregation = "intersection" =>
            /\ s.objects \cap s.subjects = {}
            /\ \A n \in s.objects, x \in s.subjects : \E f \in s.facts : Links(f, x, n)
    BY <1>2, <1>3, <2>1, <2>3, <2>8
  <2>11. /\ s.intent = "locate" \/ s.aggregation # "none" \/ \A x, y \in s.subjects : x = y
         /\ \A x, y \in s.targets : x = y
         /\ s.targets = {} \/ \A n \in s.objects : Kind(n) \in s.targets
    BY <1>3, <2>1, <2>5, <2>6, <2>8
  <2>12. RecordsProve(s, Catalog)
    BY <1>5, <2>9, <2>10, <2>11, LinksProve
  <2> QED
    BY <2>12 DEF s
<1> QED
  BY <1>8, <1>9

\* A record that a lookup returned has the attributes it was asked for, and so
\* does the conversation's where nothing is lost.
LEMMA AttributesAreThere ==
  ASSUME IsOddlyRefused, NEW g \in Goals(research.plan),
         research.plan.goals[g].intent \in Profiles,
         NEW e \in Ids(Refs(research.plan.goals[g])), e \in DOMAIN Catalog
  PROVE  research.plan.goals[g].attributes \subseteq Catalog[e]
<1> SUFFICES ASSUME NEW a \in research.plan.goals[g].attributes PROVE a \in Catalog[e]
  OBVIOUS
<1> DEFINE known == ContextIds(research.plan) \cap DOMAIN session.nodes
           records == [x \in known |-> session.nodes[x]]
<1>1. AnswerInv /\ phase = "refused"
  BY OddlyRefused
<1>2. /\ a \in world.attributes[e]
      /\ e \in ContextIds(research.plan) => a \in session.nodes[e]
      /\ \A t \in Lookups(research.plan) : e \in Ids(t.refs) => a \in t.attributes
  BY DEF IsOddlyRefused, HasReason, AttributeIsLost
<1>3. Catalog[e] = IF e \in known THEN session.nodes[e] ELSE research.records[e]
  <2>1. /\ Catalog = Overlay(research.records, records) /\ DOMAIN records = known
        /\ \A x \in known : records[x] = session.nodes[x]
    BY DEF Catalog
  <2>2. e \in DOMAIN research.records \cup known
    BY <1>1, CompletionIs
  <2> HIDE DEF records, known
  <2> QED
    BY <2>1, <2>2 DEF Overlay
<1>4. CASE e \in known
  BY <1>2, <1>3, <1>4
<1>5. CASE e \notin known
  <2>1. e \in DOMAIN research.records
    BY <1>1, <1>5, CompletionIs
  <2>2. IsReturned(e)
    BY <1>1, <2>1 DEF AnswerInv, RecordsInv
  <2>3. CASE research.records[e] = world.attributes[e]
    BY <1>2, <1>3, <1>5, <2>3
  <2>4. ASSUME NEW t \in research.done, t.scope = "lookup", e \in Ids(t.refs),
               research.records[e] = world.attributes[e] \cap t.attributes
        PROVE  a \in Catalog[e]
    <3>1. t \in Tasks(research.plan)
      BY <1>1 DEF AnswerInv, PlanInv
    <3>2. t \in Lookups(research.plan)
      BY <2>4, <3>1, RelationTasksAre DEF Tasks
    <3> QED
      BY <1>2, <1>3, <1>5, <2>4, <3>2
  <2> QED
    BY <2>2, <2>3, <2>4 DEF IsReturned
<1> QED
  BY <1>4, <1>5

\* A profile with a task is one of the kind it is named for.
LEMMA TaskFitsProfile ==
  ASSUME AnswerInv, phase # "idle", NEW g \in Goals(research.plan), ~HasNoTask(g),
         research.plan.goals[g].intent \in Profiles
  PROVE  \A e \in Ids(Refs(research.plan.goals[g])) :
            Kind(e) = ProfileKind(research.plan.goals[g])
<1> DEFINE plan == research.plan
           goal == plan.goals[g]
<1>1. LegalTasks(plan) /\ g # 0
  BY DEF AnswerInv, PlanInv, SoundPlan
<1>2. PICK t \in TasksForGoal(plan, g) : TRUE
  BY DEF HasNoTask
<1>3. t \in Lookups(plan) /\ (t.goal = g \/ (t.tool = ProfileKind(goal) /\ Refs(goal) \subseteq t.refs))
  BY <1>2 DEF TasksForGoal
<1>4. t.tool = ProfileKind(goal) /\ Refs(goal) \subseteq t.refs
  <2>1. CASE t.goal = g
    BY <1>1, <1>3, <2>1 DEF Lookups, Batch
  <2> QED
    BY <1>3, <2>1
<1> QED
  BY <1>1, <1>3, <1>4 DEF LegalTasks, Ids

\* What a profile looked up proves its signature.
LEMMA ProfileIsFound ==
  ASSUME IsOddlyRefused, NEW g \in Goals(research.plan),
         research.plan.goals[g].intent \in Profiles, Judged[g].nonempty
  PROVE  RecordsProve(Proposed[g], Catalog) /\ SignedIds(Proposed[g]) \subseteq Proposed[g].entities
<1> DEFINE plan == research.plan
           goal == plan.goals[g]
           c == Judged[g]
           s == Proposed[g]
           refs == Ids(Refs(goal))
<1>1. /\ AnswerInv /\ phase = "refused" /\ phase # "idle" /\ IsJudged(g) /\ SoundGoal(goal, g)
      /\ \A h \in Goals(plan) : ~HasNoTask(h)
  BY OddlyRefused
<1>2. c.results = refs /\ c.facts = {} /\ NamedRecords(Completion, g) # {}
  BY <1>1, CompletionIs DEF IsJudged, IsResult
<1>3. NamedRecords(Completion, g) = refs /\ refs # {} /\ refs \subseteq DOMAIN Catalog
  <2>1. refs \subseteq DOMAIN Catalog
    BY <1>1, <1>2, AllIsKnown
  <2> QED
    BY <1>1, <1>2, <2>1, CompletionIs DEF NamedRecords
<1>4. Inputs(goal) = {} /\ goal.targets \subseteq {ProfileKind(goal)}
  <2>1. ~MixesProfile(g) /\ ~AsksAnotherKind(g)
    BY DEF IsOddlyRefused, HasReason
  <2>2. Refs(goal) # {}
    BY <1>3 DEF Ids
  <2> QED
    BY <2>1, <2>2 DEF MixesProfile, AsksAnotherKind
<1>5. c.subjects = Ids(goal.subjects) /\ c.objects = Ids(goal.objects)
  BY <1>1, <1>4 DEF IsJudged, SubjectsOf, ObjectsOf, Inputs
<1>6. refs = Ids(goal.subjects) \cup Ids(goal.objects)
  BY DEF Ids, Refs
<1>7. c.entities = refs
  BY <1>1, <1>3, CompletionIs DEF IsJudged, IsInView
<1>8. /\ s.facts = c.facts /\ s.subjects = c.subjects /\ s.intent = goal.intent
      /\ s.targets = goal.targets /\ s.attributes = goal.attributes
      /\ s.entities = c.entities /\ s.objects = SignedObjects(goal, c)
  BY <1>1, ProposedIs
<1>9. \A e \in refs : Kind(e) = ProfileKind(goal) /\ goal.attributes \subseteq Catalog[e]
  BY <1>1, <1>3, TaskFitsProfile, AttributesAreThere
<1> HIDE DEF c, s, refs, goal
<1>10. SignedIds(s) = refs
  BY <1>2, <1>5, <1>6, <1>8 DEF SignedIds, SignedObjects
<1>11. ProfileKind(s) = ProfileKind(goal)
  BY <1>8 DEF ProfileKind
<1>12. ProfileIsProved(s, Catalog)
  BY <1>3, <1>4, <1>7, <1>8, <1>9, <1>10, <1>11 DEF ProfileIsProved
<1>13. ~IsRelational(s) /\ s.facts = {}
  BY <1>2, <1>8 DEF IsRelational, goal
<1>14. RecordsProve(s, Catalog)
  BY <1>12, <1>13 DEF RecordsProve
<1> QED
  BY <1>7, <1>8, <1>10, <1>14 DEF s

\* A goal without results is empty.
LEMMA NoResultsIsEmpty ==
  ASSUME IsOddlyRefused, NEW g \in Goals(research.plan), Judged[g].results = {}
  PROVE  Proposed[g].status # "nonempty"
<1> DEFINE goal == research.plan.goals[g]
           c == Judged[g]
           p == Projected(Completion, g, c)
<1>1. /\ AnswerInv /\ phase = "refused" /\ IsJudged(g)
      /\ \A h \in Goals(research.plan) : ~HasNoTask(h)
  BY OddlyRefused
<1>2. c.complete /\ IsResult(Completion, g, c) /\ Completion.plan.goals[g] = goal
  BY <1>1, CompletionIs DEF IsJudged
<1>3. ~c.nonempty
  <2>1. CASE goal.intent \in Profiles
    BY <1>2, <2>1 DEF IsResult, NamedRecords
  <2>2. CASE goal.intent \notin Profiles
    <3>1. c.results = p.results /\ (c.nonempty <=> p.facts # {})
      BY <1>2, <2>2 DEF IsResult
    <3>2. p.facts = {} <=> p.results = {}
      BY ProjectParts DEF Projected
    <3> QED
      BY <3>1, <3>2
  <2> QED
    BY <2>1, <2>2
<1> QED
  BY <1>1, <1>3, ProposedIs

\* A goal is skipped for a goal that it depends on and that is empty.
LEMMA SkipHasCause ==
  ASSUME IsOddlyRefused, NEW g \in Goals(research.plan), Judged[g].skipped
  PROVE  \E h \in research.plan.goals[g].depends : Proposed[h].status # "nonempty"
<1> DEFINE plan == research.plan
           goal == plan.goals[g]
           c == Judged[g]
<1>1. IsJudged(g) /\ SoundGoal(goal, g) /\ AnswerInv /\ InOrder(plan)
  BY OddlyRefused
<1>2. Inputs(goal) # {} /\ SkippedOf(Completion, g, c) # {} /\ Completion.plan = plan
  BY <1>1, CompletionIs DEF IsJudged, IsComplete
<1>3. PICK t : t \in Skipped(Completion, g, c.subjects, c.objects, c.open)
  BY <1>2 DEF SkippedOf
<1>4. /\ t \in RelationTasks(Completion.plan, g) \ Completion.done
      /\ \/ HasEmptyInput(Completion.plan.goals[g], c)
         \/ t.scope = "control_fallback"
  BY <1>3, SkippedTasks
<1>5. goal.intent # "controlled_companies"
  BY <1>2 DEF IsOddlyRefused, HasReason, LooksSkipped
<1>6. t \in RelationTasks(plan, g)
  BY <1>2, <1>4
<1>7. t.scope = "goal"
  BY <1>5, <1>6, RelationTasksAre DEF RelationTask
<1>8. HasEmptyInput(goal, c)
  BY <1>2, <1>4, <1>7
<1>9. \E h \in Inputs(goal) : Judged[h].results = {}
  <2>1. c.subjects = SubjectsOf(goal, Judged) /\ c.objects = ObjectsOf(goal, Judged)
    BY <1>1 DEF IsJudged
  <2>2. CASE c.subjects = {}
    <3>1. Ids(goal.subjects) = {}
      BY <2>1, <2>2 DEF SubjectsOf
    <3>2. goal.subjects = {}
      BY <3>1 DEF Ids
    <3>3. goal.subjectGoals # {}
      BY <1>1, <3>2 DEF SoundGoal
    <3> QED
      BY <2>1, <2>2, <3>3 DEF SubjectsOf, Inputs
  <2>3. CASE goal.objectGoals # {} /\ c.objects = {}
    BY <2>1, <2>3 DEF ObjectsOf, Inputs
  <2> QED
    BY <1>8, <2>2, <2>3 DEF HasEmptyInput
<1>10. PICK h \in Inputs(goal) : Judged[h].results = {}
  BY <1>9
<1>11. h \in goal.depends /\ h \in Goals(plan)
  BY <1>1 DEF SoundGoal, InOrder
<1> QED
  BY <1>10, <1>11, NoResultsIsEmpty

\* So every goal is proved.
LEMMA GoalsAreProved ==
  ASSUME IsOddlyRefused, NEW g \in Goals(research.plan)
  PROVE  GoalIsProved(Proposed, g, Catalog)
<1> DEFINE plan == research.plan
           goal == plan.goals[g]
           c == Judged[g]
           s == Proposed[g]
<1>1. /\ AnswerInv /\ phase = "refused" /\ IsJudged(g) /\ SoundGoal(goal, g)
      /\ \A h \in Goals(plan) : ~HasNoTask(h)
  BY OddlyRefused
<1>2. /\ s.subjects = c.subjects /\ s.depends = goal.depends
      /\ s.intent = goal.intent /\ s.aggregation = goal.aggregation
      /\ s.entities = c.entities /\ s.objects = SignedObjects(goal, c)
      /\ s.status = IF c.nonempty THEN "nonempty"
                    ELSE IF c.skipped THEN "skipped_empty_input" ELSE "verified_empty"
  BY <1>1, ProposedIs
<1>3. s.subjects \subseteq DOMAIN Catalog /\ c.objects \subseteq DOMAIN Catalog
  BY <1>1, <1>2, AllIsKnown
<1>4. s.status = "skipped_empty_input" => \E h \in s.depends : Proposed[h].status # "nonempty"
  BY <1>2, SkipHasCause
<1>5. ASSUME s.status = "nonempty"
      PROVE  /\ s.aggregation = "direct" => SignedIds(s) \subseteq s.entities
             /\ s.intent = "locate" => s.subjects \subseteq s.entities
             /\ RecordsProve(s, Catalog)
  <2>1. c.nonempty
    BY <1>2, <1>5
  <2>2. CASE goal.intent \in Profiles
    <3>1. s.intent # "locate"
      BY <1>2, <2>2 DEF Profiles
    <3> QED
      BY <2>1, <2>2, <3>1, ProfileIsFound
  <2>3. CASE goal.intent \notin Profiles
    <3> DEFINE p == Projected(Completion, g, c)
    <3>1. c.results = p.results /\ (goal.aggregation = "direct" => p.results \subseteq c.subjects \cup c.objects)
      <4>1. c.results = p.results
        BY <1>1, <2>3, CompletionIs DEF IsJudged, IsResult
      <4> QED
        BY <1>1, <4>1, ProjectParts, CompletionIs DEF Projected
    <3>2. goal.intent = "locate" \/ goal.aggregation = "direct" =>
             c.entities = GoalFocus(goal, p, c.subjects, c.objects) \cap DOMAIN Catalog
      BY <1>1, <2>1, <2>3, CompletionIs DEF IsJudged, IsInView, InView
    <3>3. goal.aggregation = "direct" => goal.intent # "locate"
      BY <1>1 DEF SoundGoal
    <3> HIDE DEF p, c, s, goal
    <3>4. s.aggregation = "direct" => SignedIds(s) \subseteq s.entities
      BY <1>2, <1>3, <3>1, <3>2, <3>3 DEF SignedIds, SignedObjects, GoalFocus
    <3>5. s.intent = "locate" => s.subjects \subseteq s.entities
      BY <1>2, <1>3, <3>2 DEF GoalFocus
    <3>6. RecordsProve(s, Catalog)
      BY <2>1, <2>3, SearchIsProved DEF s, c, goal
    <3> QED
      BY <3>4, <3>5, <3>6
  <2> QED
    BY <2>2, <2>3
<1> HIDE DEF s
<1>6. GoalIsProved(Proposed, g, Catalog)
  BY <1>3, <1>4, <1>5 DEF GoalIsProved, s
<1> QED
  BY <1>6

\* The first goal keeps something in view.
LEMMA SomethingIsInView ==
  ASSUME IsOddlyRefused
  PROVE  FocusIsComplete(Proposed, SelectedEntities(Completion, Proposed))
<1> DEFINE plan == research.plan
           goal == plan.goals[1]
           c == Judged[1]
           focus == SignedFocus(Proposed)
<1>1. /\ AnswerInv /\ phase = "refused" /\ phase # "idle"
      /\ \A h \in Goals(plan) : ~HasNoTask(h) /\ IsJudged(h) /\ SoundGoal(plan.goals[h], h)
  BY OddlyRefused
<1>2. 1 \in Goals(plan)
  BY <1>1 DEF AnswerInv, PlanInv, SoundPlan
<1>3. /\ DOMAIN Proposed = Goals(plan) /\ \A g \in Goals(plan) : Proposed[g].focus = Judged[g].focus
  BY <1>1, ProposedIs
<1>4. Inputs(goal) = {} /\ goal.subjects # {}
  BY <1>1, <1>2 DEF SoundGoal, Inputs
<1>5. c.subjects # {}
  BY <1>1, <1>2, <1>4 DEF IsJudged, SubjectsOf, Ids
<1>6. c.focus = InView(Completion, 1, c)
  <2>1. ~c.skipped
    BY <1>1, <1>2, <1>4, CompletionIs DEF IsJudged, IsComplete
  <2> QED
    BY <1>1, <1>2, <2>1 DEF IsJudged, IsInView
<1>7. c.focus # {}
  <2>1. CASE goal.intent \in Profiles
    <3>1. c.results = Ids(Refs(goal))
      BY <1>1, <1>2, <2>1, CompletionIs DEF IsJudged, IsResult
    <3> QED
      BY <1>1, <1>4, <1>6, <2>1, <3>1, CompletionIs DEF InView, Ids, Refs
  <2>2. CASE goal.intent \notin Profiles
    BY <1>1, <1>5, <1>6, <2>2, CompletionIs DEF InView, GoalFocus
  <2> QED
    BY <2>1, <2>2
<1>8. focus # {}
  BY <1>2, <1>3, <1>7 DEF SignedFocus, Union
<1>9. focus \subseteq SelectedEntities(Completion, Proposed)
  <2>1. \A g \in Goals(plan) : Judged[g].focus \subseteq SelectedEntities(Completion, Proposed)
    BY <1>1, AllIsKnown
  <2> QED
    BY <1>3, <2>1 DEF SignedFocus, Union
<1> QED
  BY <1>8, <1>9 DEF FocusIsComplete

\* The Researcher refuses nothing without one of the nine reasons.
LEMMA HasItsReason == AnswerInv => RefusedForAReason
<1> SUFFICES ASSUME IsOddlyRefused PROVE FALSE
  BY DEF IsOddlyRefused, HasReason, RefusedForAReason
<1> DEFINE goals == Goals(research.plan)
<1>1. /\ AnswerInv /\ phase = "refused"
      /\ \A g \in goals : ~HasNoTask(g) /\ IsJudged(g) /\ ~IsTooLong(g)
  BY OddlyRefused DEF IsOddlyRefused, HasReason
<1>2. DOMAIN Proposed = goals
  BY <1>1, ProposedIs
<1>3. \A g \in goals : FitsSignature(Proposed[g])
  BY <1>1, SignatureFits
<1>4. FinishAccepted(Proposed, SelectedEntities(Completion, Proposed), Catalog)
  BY <1>2, <1>3, GoalsAreProved, SomethingIsInView DEF FinishAccepted
<1>5. \A g \in goals : Results(Completion)[g].ready
  BY <1>1 DEF IsJudged, Judged
<1>6. FinishPasses
  BY <1>4, <1>5 DEF FinishPasses, Proposed
<1> QED
  BY <1>1, <1>6 DEF AnswerInv, VerdictInv

-----------------------------------------------------------------------------
(* The theorems.                                                           *)

\* Both invariants hold throughout.
LEMMA GroundedInvHolds == Spec => []GroundedInv
<1>1. GroundedInv /\ [Next]_vars => GroundedInv'
  BY CallKeeps, FinishKeeps, ShowKeeps, RememberKeeps, ReuseKeeps, ReplayKeeps, RestKeeps
  DEF Next
<1> QED
  BY <1>1, GroundedInvInit, PTL DEF Spec

LEMMA AnswerInvHolds == Spec => []AnswerInv
BY AnswerInvInit, AnswerInvNext, PTL DEF Spec

\* For any data, questions and number of turns: what the conversation's graph
\* says of an entity the data say too, and whatever a follow-up may refer to, the
\* ends of the relations included, has a record there (merge_session_graph).
THEOREM ConversationIsGrounded == Spec => []SessionIsGrounded
<1>1. AnswerInv /\ GroundedInv => SessionIsGrounded
  BY Grounded
<1> QED
  BY <1>1, AnswerInvHolds, GroundedInvHolds, PTL

\* No plan that the checks of the Planner admit leaves research with tasks that
\* wait for each other (_ready_contracts), however many goals depend on however
\* many others.
THEOREM ResearchGoesOn == Spec => []NobodyWaits
BY AnswerInvHolds, Waits, PTL

\* The results of an answer that is shown are those that the data have, for all
\* data, plans and orders of the calls: what the tools filter, what the receipts
\* of two stages of control leave out and what is projected come to the relations
\* that the question asks for (_build_goal_results).
THEOREM AnswersAreTrue == Spec => []AnswerIsTrue
BY AnswerInvHolds, IsTrue, PTL

\* What the Researcher accepts the Visualizer can show, but for the three forms of
\* goal that CannotBeShown names: no other disagreement between the two checks of
\* a signature exists (_finish, _project).
THEOREM VerifiedIsShown == Spec => []VerifiedCanBeShown
BY AnswerInvHolds, CanBeShown, PTL

\* Neither the write policy nor the store refuses an answer that the Visualizer
\* showed (decide_memory_write, _validate_payload).
THEOREM ShownIsStored == Spec => []ShownIsRemembered
BY AnswerInvHolds, Remembered, PTL

\* Research whose tasks are complete is refused for one of the nine reasons only:
\* the list of them is complete, for all questions and data (_finish).
THEOREM RefusalHasReason == Spec => []RefusedForAReason
BY AnswerInvHolds, HasItsReason, PTL
=============================================================================
