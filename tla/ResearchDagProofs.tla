------------------------- MODULE ResearchDagProofs --------------------------
(***************************************************************************)
(* That research keeps its progress, ends with true answers only, and does *)
(* not get stuck but at names, for all plans and worlds. A snapshot        *)
(* is computed from the whole transcript at every step, so nothing but the *)
(* rules of _snapshot keeps a further receipt from undoing what the        *)
(* earlier ones proved: it may bind a name, complete a task in an earlier  *)
(* round, or make a fallback unnecessary that had been researched.         *)
(*                                                                         *)
(* The snapshots of the two transcripts are compared round by round. In    *)
(* each, a completed relation task was either not required or has the      *)
(* facts of the one call that its goal's subjects determine (Settled); so  *)
(* a goal that is complete in both snapshots has the same result in both,  *)
(* in whatever order its tasks were completed.                             *)
(*                                                                         *)
(* That the results are true needs to know what names are bound to.        *)
(* Lookups are asked for in the order in which names are to be looked up   *)
(* (LookupInv), so a snapshot binds a name to what it means (BoundBy) or   *)
(* not at all, and a goal whose tasks are complete has what the world      *)
(* holds of what is meant. A plan whose tasks can be done in turns is      *)
(* stuck at none of them: the first incomplete one waits for no other,     *)
(* and the rounds of a snapshot have completed what needs no call.         *)
(***************************************************************************)
EXTENDS ResearchDag, FiniteSetTheorems, NaturalsInduction, WellFoundedInduction, TLAPS

PlanOK == LegalPlan(plan) /\ ProfileIsTyped(plan)

-----------------------------------------------------------------------------
(* Induction.                                                              *)

\* What holds of a number whenever it holds of all smaller ones holds of all.
LEMMA Smallest ==
  ASSUME NEW n \in Nat, NEW S,
         \A g \in 1..n : (\A h \in 1..(g - 1) : h \in S) => g \in S
  PROVE  1..n \subseteq S
<1> SUFFICES ASSUME (1..n) \ S # {} PROVE FALSE
  OBVIOUS
<1>1. (1..n) \ S \subseteq Nat
  OBVIOUS
<1>2. PICK g \in (1..n) \ S : \A h \in (1..n) \ S : ~(<<h, g>> \in OpToRel(<, Nat))
  BY <1>1, NatLessThanWellFounded, WFMin
<1>3. \A h \in (1..n) \ S : ~(h < g)
  BY <1>1, <1>2 DEF OpToRel
<1>4. \A h \in 1..(g - 1) : h \in 1..n /\ h < g
  BY <1>1
<1> QED
  BY <1>3, <1>4

LEMMA Induction ==
  ASSUME NEW S, 0 \in S, \A n \in Nat : n \in S => n + 1 \in S
  PROVE  Nat \subseteq S
<1> SUFFICES ASSUME Nat \ S # {} PROVE FALSE
  OBVIOUS
<1>1. PICK n \in Nat \ S : \A m \in Nat \ S : ~(<<m, n>> \in OpToRel(<, Nat))
  BY NatLessThanWellFounded, WFMin
<1>2. \A m \in Nat \ S : ~(m < n)
  BY <1>1 DEF OpToRel
<1>3. n # 0 /\ n - 1 \in Nat /\ n - 1 < n /\ (n - 1) + 1 = n
  OBVIOUS
<1> QED
  BY <1>2, <1>3

-----------------------------------------------------------------------------
(* The results of goals, one by one.                                       *)

\* A goal's result needs only those of the goals it depends on.
LEMMA SameInputs ==
  ASSUME NEW s, NEW g, NEW a, NEW b,
         plan.goals[g].inputs \subseteq plan.goals[g].depends,
         \A d \in plan.goals[g].depends : a[d] = b[d]
  PROVE  GoalResult(s, g, a) = GoalResult(s, g, b)
<1>1. {a[d].entities : d \in plan.goals[g].inputs} = {b[d].entities : d \in plan.goals[g].inputs}
  OBVIOUS
<1>2. (\A d \in plan.goals[g].depends : a[d].complete)
         <=> (\A d \in plan.goals[g].depends : b[d].complete)
  OBVIOUS
<1> QED
  BY <1>1, <1>2 DEF GoalResult

LEMMA CompleteGoal ==
  ASSUME NEW s, NEW g, NEW results, GoalResult(s, g, results).complete
  PROVE  /\ \A d \in plan.goals[g].depends : results[d].complete
         /\ TasksForGoal(plan, g) # {} /\ TasksForGoal(plan, g) \subseteq s.completed
<1> DEFINE complete == /\ \A d \in plan.goals[g].depends : results[d].complete
                       /\ TasksForGoal(plan, g) # {} /\ TasksForGoal(plan, g) \subseteq s.completed
<1>1. GoalResult(s, g, results).complete = complete
  BY DEF GoalResult
<1> HIDE DEF complete
<1>2. complete
  BY <1>1
<1> QED
  BY <1>2 DEF complete

\* What the recursion of _build_goal_results comes to.
LEMMA ResultsUnfold ==
  ASSUME PlanOK, NEW s
  PROVE  GoalResults(s) = [g \in Goals(plan) |-> GoalResult(s, g, GoalResults(s))]
<1> DEFINE l == Len(plan.goals)
           Are(f, n) == f = [g \in 1..n |-> GoalResult(s, g, f)]
           S == {n \in Nat : n <= l => \E f : Are(f, n)}
<1>1. /\ l \in Nat /\ Goals(plan) = 1..l
      /\ \A g \in 1..l : /\ plan.goals[g].inputs \subseteq plan.goals[g].depends
                         /\ plan.goals[g].depends \subseteq 1..(g - 1)
  BY DEF PlanOK, LegalPlan, GoalsAreCoherent
<1> HIDE DEF l
<1>2. 0 \in S
  <2> DEFINE f == [g \in 1..0 |-> 0]
  <2>1. Are(f, 0)
    OBVIOUS
  <2> QED
    BY <2>1
<1>3. ASSUME NEW n \in Nat, n \in S PROVE n + 1 \in S
  <2> SUFFICES ASSUME n + 1 <= l PROVE \E f : Are(f, n + 1)
    OBVIOUS
  <2>1. n <= l
    BY <1>1
  <2>2. PICK f : Are(f, n)
    BY <1>3, <2>1
  <2> DEFINE next == [g \in 1..(n + 1) |-> GoalResult(s, g, f)]
  <2>3. \A g \in 1..n : next[g] = f[g]
    BY <2>2
  <2>4. \A g \in 1..(n + 1) : GoalResult(s, g, next) = GoalResult(s, g, f)
    <3> SUFFICES ASSUME NEW g \in 1..(n + 1)
                 PROVE  GoalResult(s, g, next) = GoalResult(s, g, f)
      OBVIOUS
    <3>1. g \in 1..l /\ \A d \in 1..(g - 1) : d \in 1..n
      BY <1>1
    <3>2. \A d \in plan.goals[g].depends : next[d] = f[d]
      BY <1>1, <2>3, <3>1
    <3> HIDE DEF next
    <3> QED
      BY <1>1, <3>1, <3>2, SameInputs
  <2>5. Are(next, n + 1)
    BY <2>4
  <2> QED
    BY <2>5
<1>4. l \in S
  BY <1>1, <1>2, <1>3, Induction
<1>5. \E f : Are(f, l)
  BY <1>1, <1>4
<1>6. GoalResults(s) = CHOOSE f : f = [g \in 1..l |-> GoalResult(s, g, f)]
  BY <1>1 DEF GoalResults
<1>7. GoalResults(s) = CHOOSE f : Are(f, l)
  BY <1>6
<1> HIDE DEF Are
<1>8. Are(GoalResults(s), l)
  BY <1>5, <1>7
<1> QED
  BY <1>1, <1>8 DEF Are

-----------------------------------------------------------------------------
(* What a legal plan says of its tasks and goals.                          *)

RelationsOf(g) == TasksForGoal(plan, g) \cap RelationTasks(plan)

\* A goal with relation tasks has exactly those made for it, with its operands.
LEMMA RelationsOfGoal ==
  ASSUME PlanOK, NEW g \in Goals(plan)
  PROVE  /\ plan.goals[g].refs \subseteq Refs(plan)
         /\ plan.goals[g].inputs \subseteq plan.goals[g].depends
         /\ plan.goals[g].depends \subseteq Goals(plan)
         /\ \A t \in RelationsOf(g) : /\ plan.tasks[t].goal = g
                                      /\ plan.tasks[t].refs = plan.goals[g].refs
         /\ plan.goals[g].intent \notin Profiles =>
              /\ RelationsOf(g) # {}
              /\ RelationsOf(g) = {t \in RelationTasks(plan) : plan.tasks[t].goal = g}
         /\ plan.goals[g].intent \in Profiles => RelationsOf(g) = {}
<1>1. /\ plan.goals[g].refs \subseteq Refs(plan)
      /\ plan.goals[g].inputs \subseteq plan.goals[g].depends
      /\ plan.goals[g].depends \subseteq 1..(g - 1)
      /\ g \in 1..Len(plan.goals) /\ Len(plan.goals) \in Nat /\ Goals(plan) = 1..Len(plan.goals)
  BY DEF PlanOK, LegalPlan, GoalsAreCoherent
<1>2. plan.goals[g].depends \subseteq Goals(plan)
  BY <1>1
<1>3. "relations" \notin EntityTools
  BY DEF EntityTools
<1>4. \A t \in RelationsOf(g) : plan.tasks[t].goal = g
  BY <1>3 DEF RelationsOf, TasksForGoal, Covering, EntityTasks, RelationTasks
<1>5. \A t \in RelationsOf(g) : plan.tasks[t].refs = plan.goals[g].refs
  BY <1>4 DEF PlanOK, LegalPlan, RelationsWaitForInputs, RelationsOf
<1>6. CASE plan.goals[g].intent \notin Profiles
  <2>1. RelationsOf(g) = {t \in RelationTasks(plan) : plan.tasks[t].goal = g}
    BY <1>6 DEF RelationsOf, TasksForGoal, RelationTasks
  <2>2. \E t : t \in {x \in RelationTasks(plan) : plan.tasks[x].goal = g}
    <3>1. CASE plan.goals[g].intent = "controlled_companies"
      BY <1>6, <3>1 DEF PlanOK, LegalPlan, GoalsAreRealised
    <3>2. CASE plan.goals[g].intent # "controlled_companies"
      BY <1>6, <3>2 DEF PlanOK, LegalPlan, GoalsAreRealised
    <3> QED
      BY <3>1, <3>2
  <2> QED
    BY <1>1, <1>2, <1>4, <1>5, <1>6, <2>1, <2>2
<1>7. CASE plan.goals[g].intent \in Profiles
  <2>1. {t \in RelationTasks(plan) : plan.tasks[t].goal = g} = {}
    BY <1>7 DEF PlanOK, LegalPlan, GoalsAreRealised, Profiles
  <2>2. RelationsOf(g) = {}
    BY <1>4, <2>1 DEF RelationsOf
  <2> QED
    BY <1>1, <1>2, <1>4, <1>5, <1>7, <2>2
<1> QED
  BY <1>6, <1>7

\* A goal of a relation task is a goal of the plan, with the task among its own.
LEMMA GoalOfRelation ==
  ASSUME PlanOK, NEW t \in RelationTasks(plan)
  PROVE  /\ plan.tasks[t].goal \in Goals(plan)
         /\ t \in RelationsOf(plan.tasks[t].goal)
         /\ plan.tasks[t].refs = plan.goals[plan.tasks[t].goal].refs
         /\ plan.tasks[t].refs \subseteq Refs(plan)
<1>1. plan.tasks[t].goal \in Goals(plan)
  BY DEF PlanOK, LegalPlan, TasksAreWellFormed, RelationTasks
<1>2. t \in RelationsOf(plan.tasks[t].goal)
  BY DEF RelationsOf, TasksForGoal, RelationTasks
<1> QED
  BY <1>1, <1>2, RelationsOfGoal

\* The lookup that covers a profile is one of the profile's tasks.
LEMMA LookupOfProfile ==
  ASSUME PlanOK, NEW g \in Goals(plan), plan.goals[g].intent \in Profiles,
         plan.goals[g].refs # {}
  PROVE  \E t \in TasksForGoal(plan, g) \cap EntityTasks(plan) :
            plan.goals[g].refs \subseteq plan.tasks[t].refs
<1>1. Cardinality(Covering(plan, g)) = 1
  BY DEF PlanOK, LegalPlan, GoalsAreRealised, Profiles
<1>2. Covering(plan, g) # {}
  BY <1>1, FS_EmptySet
<1>3. PICK t : t \in Covering(plan, g)
  BY <1>2
<1>4. /\ t \in EntityTasks(plan) /\ plan.tasks[t].goal \in {None, g}
      /\ plan.goals[g].refs \subseteq plan.tasks[t].refs /\ t \in Tasks(plan)
  BY <1>3 DEF Covering, EntityTasks
<1>5. PICK i : i \in plan.goals[g].refs
  OBVIOUS
<1>6. plan.refs[i].tool = plan.tasks[t].tool
  BY <1>4, <1>5 DEF PlanOK, LegalPlan, LookupsAreBatched, MayLookUp
<1>7. plan.refs[i].tool = ProfileTool(plan.goals[g])
  BY <1>5 DEF PlanOK, ProfileIsTyped
<1>8. t \in TasksForGoal(plan, g)
  BY <1>3, <1>4, <1>6, <1>7 DEF TasksForGoal
<1> QED
  BY <1>4, <1>8

-----------------------------------------------------------------------------
(* What every round of a snapshot is: a state s, of the fields below.      *)

IsState(s) == DOMAIN s = {"bind", "receipts", "completed"}

IsBound(s, t) == \A i \in plan.tasks[t].refs : s.bind[i] # None

FactsOf(s, t) == Facts(s, {t})

\* A completed relation task has the facts of its call, or needs none.
Settled(s, t) ==
    /\ IsBound(s, t)
    /\ InputsReady(t, GoalResults(s))
    /\ \/ FallbackNotRequired(s, t)
       \/ FactsOf(s, t) = Matching(RelationCall(s, t, GoalResults(s)))

Sound(s) ==
    /\ IsState(s)
    /\ \A t \in EntityTasks(plan) \cap s.completed : IsBound(s, t)
    /\ \A t \in RelationTasks(plan) \cap s.completed : Settled(s, t)
    /\ \A x \in s.receipts : IsEntity(x[2]) \/ x[1] \in s.completed

\* u has all that s has.
Below(s, u) ==
    /\ s.completed \subseteq u.completed
    /\ \A i \in Refs(plan) : s.bind[i] \in {None, u.bind[i]}

\* The complete goals of s have the same results in u.
ResultsKept(s, u) ==
    \A g \in Goals(plan) :
        GoalResults(s)[g].complete => GoalResults(u)[g] = GoalResults(s)[g]

ActiveFacts(s, g) == Facts(s, ActiveTasks(s, plan.goals[g], RelationsOf(g)))

\* The facts of tasks are those of each.
LEMMA FactsOfTasks ==
  ASSUME NEW s, NEW tasks
  PROVE  Facts(s, tasks) = UNION {FactsOf(s, t) : t \in tasks}
  BY DEF Facts, FactsOf

LEMMA SameFacts ==
  ASSUME NEW s, NEW u, NEW tasks, \A t \in tasks : FactsOf(u, t) = FactsOf(s, t)
  PROVE  Facts(u, tasks) = Facts(s, tasks)
<1>1. {FactsOf(u, t) : t \in tasks} = {FactsOf(s, t) : t \in tasks}
  OBVIOUS
<1> QED
  BY <1>1, FactsOfTasks

\* Bound names stay bound to the same entities.
LEMMA SameBound ==
  ASSUME NEW s, NEW u, Below(s, u), NEW refs \in SUBSET Refs(plan),
         \A i \in refs : s.bind[i] # None
  PROVE  /\ BoundTo(s, refs) = BoundTo(u, refs)
         /\ \A i \in refs : u.bind[i] # None
<1>1. \A i \in refs : s.bind[i] = u.bind[i]
  BY DEF Below
<1>2. {s.bind[i] : i \in refs} = {u.bind[i] : i \in refs}
  BY <1>1
<1> QED
  BY <1>1, <1>2 DEF BoundTo

\* The references of a complete goal are bound.
LEMMA GoalIsBound ==
  ASSUME PlanOK, NEW s, Sound(s), NEW g \in Goals(plan), GoalResults(s)[g].complete
  PROVE  \A i \in plan.goals[g].refs : s.bind[i] # None
<1>1. TasksForGoal(plan, g) \subseteq s.completed
  <2>1. GoalResults(s)[g] = GoalResult(s, g, GoalResults(s))
    BY ResultsUnfold
  <2> QED
    BY <2>1 DEF GoalResult
<1>2. CASE plan.goals[g].intent \in Profiles
  BY <1>1, <1>2, LookupOfProfile DEF Sound, IsBound
<1>3. CASE plan.goals[g].intent \notin Profiles
  <2>1. PICK t : t \in RelationsOf(g)
    BY <1>3, RelationsOfGoal
  <2>2. t \in RelationTasks(plan) \cap s.completed /\ plan.tasks[t].refs = plan.goals[g].refs
    BY <1>1, <2>1, RelationsOfGoal DEF RelationsOf
  <2>3. IsBound(s, t)
    BY <2>2 DEF Sound, Settled
  <2> QED
    BY <2>2, <2>3 DEF IsBound
<1> QED
  BY <1>2, <1>3

\* Goal after goal, a complete result is kept if the facts behind it are.
LEMMA ResultsCarry ==
  ASSUME PlanOK, NEW s, NEW u, Sound(s), Below(s, u),
         \A g \in Goals(plan) :
            /\ GoalResults(s)[g].complete
            /\ \A d \in plan.goals[g].inputs : GoalResults(u)[d] = GoalResults(s)[d]
            => ActiveFacts(u, g) = ActiveFacts(s, g)
  PROVE  ResultsKept(s, u)
<1> DEFINE l == Len(plan.goals)
           a == GoalResults(s)
           b == GoalResults(u)
           S == {g \in 1..l : a[g].complete => b[g] = a[g]}
<1>1. /\ l \in Nat /\ Goals(plan) = 1..l
      /\ \A g \in 1..l : plan.goals[g].depends \subseteq 1..(g - 1)
  BY DEF PlanOK, LegalPlan, GoalsAreCoherent
<1> HIDE DEF l
<1>2. /\ \A g \in Goals(plan) : a[g] = GoalResult(s, g, a)
      /\ \A g \in Goals(plan) : b[g] = GoalResult(u, g, b)
  BY ResultsUnfold
<1> HIDE DEF a, b
<1>3. ASSUME NEW g \in 1..l, \A h \in 1..(g - 1) : h \in S, a[g].complete
      PROVE  b[g] = a[g]
  <2> DEFINE goal == plan.goals[g]
  <2>1. /\ goal.refs \subseteq Refs(plan) /\ goal.inputs \subseteq goal.depends
        /\ goal.depends \subseteq 1..(g - 1) /\ g \in Goals(plan)
    BY <1>1, RelationsOfGoal
  <2>2. /\ \A d \in goal.depends : a[d].complete
        /\ TasksForGoal(plan, g) # {} /\ TasksForGoal(plan, g) \subseteq s.completed
    BY <1>2, <1>3, <2>1, CompleteGoal
  <2>3. \A d \in goal.depends : b[d] = a[d]
    BY <1>3, <2>1, <2>2
  <2>4. BoundTo(s, goal.refs) = BoundTo(u, goal.refs)
    <3>1. \A i \in goal.refs : s.bind[i] # None
      BY <1>3, <2>1, GoalIsBound DEF a
    <3> QED
      BY <2>1, <3>1, SameBound
  <2>5. ActiveFacts(u, g) = ActiveFacts(s, g)
    BY <1>3, <2>1, <2>3 DEF a, b
  <2>6. GoalResult(u, g, b) = GoalResult(u, g, a)
    BY <2>1, <2>3, SameInputs
  <2>7. /\ TasksForGoal(plan, g) \subseteq u.completed
    BY <2>2 DEF Below
  <2>8. GoalResult(u, g, a) = GoalResult(s, g, a)
    BY <2>2, <2>4, <2>5, <2>7 DEF GoalResult, ActiveFacts, RelationsOf
  <2> QED
    BY <1>2, <2>1, <2>6, <2>8
<1>4. \A g \in 1..l : (\A h \in 1..(g - 1) : h \in S) => g \in S
  BY <1>3
<1> HIDE DEF S
<1>5. 1..l \subseteq S
  BY <1>1, <1>4, Smallest
<1> QED
  BY <1>1, <1>5 DEF S, ResultsKept, a, b

-----------------------------------------------------------------------------
(* A state that grows, and two states that grow alike.                     *)

LEMMA TaskStaysBound ==
  ASSUME PlanOK, NEW s, NEW u, Below(s, u), NEW t \in RelationTasks(plan), IsBound(s, t)
  PROVE  /\ BoundTo(s, plan.tasks[t].refs) = BoundTo(u, plan.tasks[t].refs)
         /\ IsBound(u, t)
<1> DEFINE refs == plan.tasks[t].refs
<1>1. refs \in SUBSET Refs(plan)
  BY GoalOfRelation
<1>2. \A i \in refs : s.bind[i] # None
  BY DEF IsBound
<1> HIDE DEF refs
<1>3. BoundTo(s, refs) = BoundTo(u, refs) /\ \A i \in refs : u.bind[i] # None
  BY <1>1, <1>2, SameBound
<1> QED
  BY <1>3 DEF refs, IsBound

\* A task's call is determined by its bound names and the results it takes.
LEMMA CallOfInputs ==
  ASSUME PlanOK, NEW s, NEW u, Below(s, u), NEW t \in RelationTasks(plan), IsBound(s, t),
         \A d \in plan.goals[plan.tasks[t].goal].inputs : GoalResults(u)[d] = GoalResults(s)[d]
  PROVE  /\ IsBound(u, t)
         /\ Subjects(u, t, GoalResults(u)) = Subjects(s, t, GoalResults(s))
         /\ RelationCall(u, t, GoalResults(u)) = RelationCall(s, t, GoalResults(s))
<1> DEFINE inputs == plan.goals[plan.tasks[t].goal].inputs
<1>1. /\ BoundTo(s, plan.tasks[t].refs) = BoundTo(u, plan.tasks[t].refs)
      /\ IsBound(u, t)
  BY TaskStaysBound
<1>2. {GoalResults(s)[d].entities : d \in inputs} = {GoalResults(u)[d].entities : d \in inputs}
  OBVIOUS
<1>3. Subjects(u, t, GoalResults(u)) = Subjects(s, t, GoalResults(s))
  BY <1>1, <1>2 DEF Subjects
<1> QED
  BY <1>1, <1>3 DEF RelationCall

\* So the call of a task whose input is known stays the same.
LEMMA SameCall ==
  ASSUME PlanOK, NEW s, NEW u, Below(s, u), ResultsKept(s, u),
         NEW t \in RelationTasks(plan), IsBound(s, t), InputsReady(t, GoalResults(s))
  PROVE  /\ IsBound(u, t) /\ InputsReady(t, GoalResults(u))
         /\ Subjects(u, t, GoalResults(u)) = Subjects(s, t, GoalResults(s))
         /\ RelationCall(u, t, GoalResults(u)) = RelationCall(s, t, GoalResults(s))
<1> DEFINE inputs == plan.goals[plan.tasks[t].goal].inputs
<1>1. inputs \subseteq Goals(plan)
  BY GoalOfRelation, RelationsOfGoal
<1>2. \A d \in inputs : GoalResults(s)[d].complete /\ GoalResults(u)[d] = GoalResults(s)[d]
  BY <1>1 DEF InputsReady, ResultsKept
<1>3. InputsReady(t, GoalResults(u))
  BY <1>2 DEF InputsReady
<1> QED
  BY <1>2, <1>3, CallOfInputs

\* Control that was found to be explicit stays so.
LEMMA FallbackStays ==
  ASSUME NEW s, NEW u, NEW t, s.completed \subseteq u.completed,
         \A x \in ExplicitTasks(plan.tasks[t].goal) \cap s.completed : FactsOf(u, x) = FactsOf(s, x),
         FallbackNotRequired(s, t)
  PROVE  FallbackNotRequired(u, t)
<1> DEFINE g == plan.tasks[t].goal
           explicit == ExplicitTasks(g)
<1>1. /\ plan.goals[g].intent = "controlled_companies" /\ t \notin explicit
      /\ explicit # {} /\ explicit \subseteq s.completed /\ Facts(s, explicit) # {}
  BY DEF FallbackNotRequired
<1>2. Facts(u, explicit) = Facts(s, explicit)
  <2>1. \A x \in explicit : FactsOf(u, x) = FactsOf(s, x)
    BY <1>1
  <2> HIDE DEF explicit
  <2> QED
    BY <2>1, SameFacts
<1>3. explicit \subseteq u.completed /\ Facts(u, explicit) # {}
  BY <1>1, <1>2
<1> QED
  BY <1>1, <1>3 DEF FallbackNotRequired

\* The input of a task that control does not require is known as well.
LEMMA FallbackInputs ==
  ASSUME NEW s, Sound(s), NEW t, FallbackNotRequired(s, t)
  PROVE  InputsReady(t, GoalResults(s))
<1>1. PICK x : x \in ExplicitTasks(plan.tasks[t].goal) /\ x \in s.completed
  BY DEF FallbackNotRequired
<1>2. plan.tasks[x].goal = plan.tasks[t].goal /\ Settled(s, x)
  BY <1>1 DEF ExplicitTasks, Sound
<1> QED
  BY <1>2 DEF Settled, InputsReady

\* What a completed task has is the same in a state that only adds relation
\* tasks, each with the facts of its call or with none needed.
LEMMA Grows ==
  ASSUME PlanOK, NEW s, NEW u, Sound(s), IsState(u), u.bind = s.bind,
         s.completed \subseteq u.completed,
         \A t \in s.completed : FactsOf(u, t) = FactsOf(s, t),
         \A x \in u.receipts : IsEntity(x[2]) \/ x[1] \in u.completed,
         \A t \in u.completed \ s.completed :
            /\ t \in RelationTasks(plan) /\ IsBound(s, t)
            /\ InputsReady(t, GoalResults(s))
            /\ \/ FallbackNotRequired(s, t)
               \/ FactsOf(u, t) = Matching(RelationCall(s, t, GoalResults(s)))
  PROVE  Sound(u) /\ Below(s, u) /\ ResultsKept(s, u)
<1>1. Below(s, u)
  BY DEF Below
<1>2. ResultsKept(s, u)
  <2>1. ASSUME NEW g \in Goals(plan), GoalResults(s)[g].complete
        PROVE  ActiveFacts(u, g) = ActiveFacts(s, g)
    <3>1. RelationsOf(g) \subseteq s.completed
      <4>1. GoalResults(s)[g] = GoalResult(s, g, GoalResults(s))
        BY ResultsUnfold
      <4> QED
        BY <2>1, <4>1, CompleteGoal DEF RelationsOf
    <3> DEFINE explicit == {t \in RelationsOf(g) : IsExplicit(plan, t)}
    <3>2. ASSUME NEW tasks \in SUBSET RelationsOf(g)
          PROVE  Facts(u, tasks) = Facts(s, tasks)
      <4>1. \A t \in tasks : FactsOf(u, t) = FactsOf(s, t)
        BY <3>1
      <4> QED
        BY <4>1, SameFacts
    <3>3. /\ Facts(u, RelationsOf(g)) = Facts(s, RelationsOf(g))
          /\ Facts(u, explicit) = Facts(s, explicit)
          /\ Facts(u, RelationsOf(g) \ explicit) = Facts(s, RelationsOf(g) \ explicit)
      BY <3>2
    <3> QED
      BY <3>3 DEF ActiveFacts, ActiveTasks
  <2> QED
    BY <1>1, <2>1, ResultsCarry
<1>3. ASSUME NEW t \in RelationTasks(plan) \cap u.completed PROVE Settled(u, t)
  <2>1. /\ IsBound(s, t) /\ InputsReady(t, GoalResults(s))
        /\ \/ FallbackNotRequired(s, t)
           \/ FactsOf(u, t) = Matching(RelationCall(s, t, GoalResults(s)))
    BY <1>3 DEF Sound, Settled
  <2>2. FallbackNotRequired(s, t) => FallbackNotRequired(u, t)
    BY FallbackStays
  <2>3. /\ IsBound(u, t) /\ InputsReady(t, GoalResults(u))
        /\ RelationCall(u, t, GoalResults(u)) = RelationCall(s, t, GoalResults(s))
    BY <1>1, <1>2, <2>1, SameCall
  <2> QED
    BY <2>1, <2>2, <2>3 DEF Settled
<1>4. \A t \in EntityTasks(plan) \cap u.completed : IsBound(u, t)
  <2>1. \A t \in EntityTasks(plan) : t \notin RelationTasks(plan)
    BY DEF EntityTasks, RelationTasks, EntityTools
  <2> QED
    BY <2>1 DEF Sound, IsBound
<1> QED
  BY <1>1, <1>2, <1>3, <1>4 DEF Sound

\* A task not completed has no facts.
LEMMA NoFactsYet ==
  ASSUME NEW s, Sound(s), NEW t, t \notin s.completed
  PROVE  FactsOf(s, t) = {}
  BY DEF Sound, Facts, FactsOf

LEMMA SkipGrows ==
  ASSUME PlanOK, NEW s, Sound(s)
  PROVE  Sound(Skip(s)) /\ Below(s, Skip(s)) /\ ResultsKept(s, Skip(s))
<1> DEFINE u == Skip(s)
           new == {t \in Open(s) : \/ FallbackNotRequired(s, t)
                                   \/ VerifiedEmptyInput(s, t, GoalResults(s))}
<1>1. /\ IsState(u) /\ u.bind = s.bind /\ u.receipts = s.receipts
      /\ u.completed = s.completed \cup new
  BY DEF Skip, Sound, IsState
<1> HIDE DEF u, new
<1>2. \A tasks : Facts(u, tasks) = Facts(s, tasks)
  BY <1>1 DEF Facts
<1>3. ASSUME NEW t \in new
      PROVE  /\ t \in RelationTasks(plan) /\ IsBound(s, t)
             /\ InputsReady(t, GoalResults(s))
             /\ \/ FallbackNotRequired(s, t)
                \/ FactsOf(u, t) = Matching(RelationCall(s, t, GoalResults(s)))
  <2>1. /\ t \in RelationTasks(plan) /\ IsBound(s, t) /\ t \notin s.completed
        /\ FallbackNotRequired(s, t) \/ VerifiedEmptyInput(s, t, GoalResults(s))
    BY <1>3 DEF new, Open, IsBound
  <2>2. CASE FallbackNotRequired(s, t)
    BY <2>1, <2>2, FallbackInputs
  <2>3. CASE VerifiedEmptyInput(s, t, GoalResults(s))
    <3>1. FactsOf(u, t) = {}
      BY <1>2, <2>1, NoFactsYet DEF FactsOf
    <3>2. Matching(RelationCall(s, t, GoalResults(s))) = {}
      BY <2>3 DEF VerifiedEmptyInput, RelationCall, Matching
    <3> QED
      BY <2>1, <2>3, <3>1, <3>2 DEF VerifiedEmptyInput
  <2> QED
    BY <2>1, <2>2, <2>3
<1>4. \A x \in u.receipts : IsEntity(x[2]) \/ x[1] \in u.completed
  BY <1>1 DEF Sound
<1>5. s.completed \subseteq u.completed /\ \A t \in u.completed \ s.completed : t \in new
  BY <1>1
<1>6. Sound(u) /\ Below(s, u) /\ ResultsKept(s, u)
  BY <1>1, <1>2, <1>3, <1>4, <1>5, Grows DEF FactsOf
<1> QED
  BY <1>6 DEF u

\* The complete receipts of relation calls in a transcript.
Relations(log) == {r \in ToSet(log) : r.success /\ ~IsEntity(r)}

Answering(log, s, t) == {r \in Relations(log) : Answers(s, r, t, GoalResults(s))}

LEMMA MatchGrows ==
  ASSUME PlanOK, NEW s, Sound(s), NEW log
  PROVE  Sound(Match(log, s)) /\ Below(s, Match(log, s)) /\ ResultsKept(s, Match(log, s))
<1> DEFINE u == Match(log, s)
           callable == Callable(s, GoalResults(s))
           new == {t \in callable : Answering(log, s, t) # {}}
<1>1. /\ IsState(u) /\ u.bind = s.bind /\ u.completed = s.completed \cup new
      /\ u.receipts = s.receipts \cup UNION {{t} \X Answering(log, s, t) : t \in callable}
  BY DEF Match, Sound, IsState, Answering, Relations
<1>2. \A t \in callable : /\ t \in RelationTasks(plan) /\ IsBound(s, t) /\ t \notin s.completed
                          /\ InputsReady(t, GoalResults(s))
  BY DEF Callable, Open, IsBound
<1> HIDE DEF u, callable
<1>3. \A x \in u.receipts :
         \/ x \in s.receipts
         \/ x[1] \in callable /\ x[2] \in Answering(log, s, x[1])
  BY <1>1
<1>4. \A t \in callable : \A r \in Answering(log, s, t) : <<t, r>> \in u.receipts
  BY <1>1
<1>5. s.receipts \subseteq u.receipts
  BY <1>1
<1>6. ASSUME NEW t \in s.completed PROVE FactsOf(u, t) = FactsOf(s, t)
  <2>1. \A x \in u.receipts : x[1] = t => x \in s.receipts
    BY <1>2, <1>3
  <2>2. {y \in u.receipts : y[1] \in {t} /\ ~IsEntity(y[2])}
          = {y \in s.receipts : y[1] \in {t} /\ ~IsEntity(y[2])}
    BY <1>5, <2>1
  <2> QED
    BY <2>2 DEF Facts, FactsOf
<1>7. ASSUME NEW t \in new
      PROVE  FactsOf(u, t) = Matching(RelationCall(s, t, GoalResults(s)))
  <2> DEFINE call == RelationCall(s, t, GoalResults(s))
             mine == {y \in u.receipts : y[1] \in {t} /\ ~IsEntity(y[2])}
  <2>1. t \in callable /\ t \notin s.completed
    BY <1>2
  <2>2. \A r \in Answering(log, s, t) : ~IsEntity(r) /\ r.call = call /\ ~Truncated(call)
    BY DEF Answering, Relations, Answers
  <2>3. \A y \in mine : y[2] \in Answering(log, s, t)
    BY <1>3, <2>1 DEF Sound
  <2>4. PICK r : r \in Answering(log, s, t)
    BY <1>7
  <2>5. <<t, r>> \in mine
    BY <1>4, <2>1, <2>2, <2>4
  <2>6. {Returned(x[2].call) : x \in mine} = {Returned(call)}
    BY <2>2, <2>3, <2>5
  <2>7. FactsOf(u, t) = Returned(call)
    BY <2>6 DEF Facts, FactsOf
  <2> QED
    BY <2>2, <2>4, <2>7 DEF Returned
<1>8. \A x \in u.receipts : IsEntity(x[2]) \/ x[1] \in u.completed
  <2>1. \A x \in u.receipts : x[1] \in callable /\ x[2] \in Answering(log, s, x[1]) => x[1] \in new
    OBVIOUS
  <2> QED
    BY <1>1, <1>3, <2>1 DEF Sound
<1>9. s.completed \subseteq u.completed /\ \A t \in u.completed \ s.completed : t \in new /\ t \in callable
  BY <1>1
<1> HIDE DEF new
<1>10. Sound(u) /\ Below(s, u) /\ ResultsKept(s, u)
  BY <1>1, <1>2, <1>6, <1>7, <1>8, <1>9, Grows
<1> QED
  BY <1>10 DEF u

-----------------------------------------------------------------------------
(* Two sound states, one with all that the other has.                      *)

\* An explicit control task is always needed.
LEMMA ExplicitIsNeeded ==
  ASSUME NEW s, NEW t, t \in ExplicitTasks(plan.tasks[t].goal)
  PROVE  ~FallbackNotRequired(s, t)
  BY DEF FallbackNotRequired

\* The facts of a task needed in both states are those of its call.
LEMMA NeededFacts ==
  ASSUME PlanOK, NEW s, NEW u, Sound(s), Sound(u), Below(s, u),
         NEW t \in RelationTasks(plan), t \in s.completed,
         \A d \in plan.goals[plan.tasks[t].goal].inputs : GoalResults(u)[d] = GoalResults(s)[d],
         ~FallbackNotRequired(s, t), ~FallbackNotRequired(u, t)
  PROVE  FactsOf(u, t) = FactsOf(s, t)
<1>1. t \in u.completed
  BY DEF Below
<1>2. Settled(s, t) /\ Settled(u, t)
  BY <1>1 DEF Sound
<1>3. RelationCall(u, t, GoalResults(u)) = RelationCall(s, t, GoalResults(s))
  BY <1>2, CallOfInputs DEF Settled
<1> QED
  BY <1>2, <1>3 DEF Settled, FactsOf

\* A goal that is complete in both has the same facts in both, although the
\* one may have skipped a fallback that the other researched.
LEMMA SameActiveFacts ==
  ASSUME PlanOK, NEW s, NEW u, Sound(s), Sound(u), Below(s, u),
         NEW g \in Goals(plan), GoalResults(s)[g].complete,
         \A d \in plan.goals[g].inputs : GoalResults(u)[d] = GoalResults(s)[d]
  PROVE  ActiveFacts(u, g) = ActiveFacts(s, g)
<1> DEFINE R == RelationsOf(g)
           explicit == {t \in R : IsExplicit(plan, t)}
<1>1. R \subseteq s.completed
  <2>1. GoalResults(s)[g] = GoalResult(s, g, GoalResults(s))
    BY ResultsUnfold
  <2> QED
    BY <2>1, CompleteGoal DEF RelationsOf
<1>2. \A t \in R : t \in RelationTasks(plan) /\ plan.tasks[t].goal = g
  BY RelationsOfGoal DEF RelationsOf
<1>3. ASSUME NEW t \in R, ~FallbackNotRequired(s, t), ~FallbackNotRequired(u, t)
      PROVE  FactsOf(u, t) = FactsOf(s, t)
  BY <1>1, <1>2, <1>3, NeededFacts
<1>4. CASE plan.goals[g].intent # "controlled_companies"
  <2>1. \A t \in R : ~FallbackNotRequired(s, t) /\ ~FallbackNotRequired(u, t)
    BY <1>2, <1>4 DEF FallbackNotRequired
  <2>2. \A t \in R : FactsOf(u, t) = FactsOf(s, t)
    BY <1>3, <2>1
  <2> HIDE DEF R
  <2>3. Facts(u, R) = Facts(s, R)
    BY <2>2, SameFacts
  <2> QED
    BY <1>4, <2>3 DEF ActiveFacts, ActiveTasks, R
<1>5. CASE plan.goals[g].intent = "controlled_companies"
  <2>1. explicit = ExplicitTasks(g)
    <3>1. R = {t \in RelationTasks(plan) : plan.tasks[t].goal = g}
      BY <1>5, RelationsOfGoal DEF Profiles
    <3> HIDE DEF R
    <3> QED
      BY <3>1 DEF ExplicitTasks
  <2>2. ASSUME NEW t \in explicit PROVE FactsOf(u, t) = FactsOf(s, t)
    <3>1. ~FallbackNotRequired(s, t) /\ ~FallbackNotRequired(u, t)
      BY <1>2, <2>1, ExplicitIsNeeded
    <3> QED
      BY <1>3, <3>1
  <2>3. Facts(u, explicit) = Facts(s, explicit)
    <3>1. \A t \in explicit : FactsOf(u, t) = FactsOf(s, t)
      BY <2>2
    <3> HIDE DEF explicit
    <3> QED
      BY <3>1, SameFacts
  <2>4. CASE Facts(s, explicit) # {}
    BY <1>5, <2>3, <2>4 DEF ActiveFacts, ActiveTasks
  <2>5. CASE Facts(s, explicit) = {}
    <3> DEFINE rest == R \ explicit
    <3>1. ASSUME NEW t \in rest PROVE FactsOf(u, t) = FactsOf(s, t)
      <4>1. plan.tasks[t].goal = g /\ t \in R
        BY <1>2
      <4> HIDE DEF R, explicit
      <4>2. Facts(s, ExplicitTasks(plan.tasks[t].goal)) = {}
              /\ Facts(u, ExplicitTasks(plan.tasks[t].goal)) = {}
        BY <2>1, <2>3, <2>5, <4>1
      <4>3. ~FallbackNotRequired(s, t) /\ ~FallbackNotRequired(u, t)
        BY <4>2 DEF FallbackNotRequired
      <4> QED
        BY <1>3, <4>1, <4>3
    <3>2. Facts(u, rest) = Facts(s, rest)
      <4>1. \A t \in rest : FactsOf(u, t) = FactsOf(s, t)
        BY <3>1
      <4> HIDE DEF rest
      <4> QED
        BY <4>1, SameFacts
    <3> QED
      BY <1>5, <2>3, <2>5, <3>2 DEF ActiveFacts, ActiveTasks
  <2> QED
    BY <2>4, <2>5
<1> QED
  BY <1>4, <1>5

\* In whatever order its tasks were completed, a goal has one result.
LEMMA OneResult ==
  ASSUME PlanOK, NEW s, NEW u, Sound(s), Sound(u), Below(s, u)
  PROVE  ResultsKept(s, u)
<1>1. \A g \in Goals(plan) :
         /\ GoalResults(s)[g].complete
         /\ \A d \in plan.goals[g].inputs : GoalResults(u)[d] = GoalResults(s)[d]
         => ActiveFacts(u, g) = ActiveFacts(s, g)
  BY SameActiveFacts
<1> QED
  BY <1>1, ResultsCarry

\* What was not required in the one is not required in the other.
LEMMA SkippedInBoth ==
  ASSUME PlanOK, NEW s, NEW u, Sound(s), Sound(u), Below(s, u),
         NEW t, FallbackNotRequired(s, t)
  PROVE  FallbackNotRequired(u, t)
<1> DEFINE g == plan.tasks[t].goal
<1>1. ResultsKept(s, u)
  BY OneResult
<1>2. ASSUME NEW x \in ExplicitTasks(g) \cap s.completed
      PROVE  FactsOf(u, x) = FactsOf(s, x)
  <2>1. x \in RelationTasks(plan) /\ plan.tasks[x].goal = g
    BY DEF ExplicitTasks
  <2>2. \A d \in plan.goals[g].inputs : GoalResults(u)[d] = GoalResults(s)[d]
    <3>1. InputsReady(x, GoalResults(s))
      BY <2>1 DEF Sound, Settled
    <3>2. plan.goals[g].inputs \subseteq Goals(plan)
      BY <2>1, GoalOfRelation, RelationsOfGoal
    <3> QED
      BY <1>1, <2>1, <3>1, <3>2 DEF InputsReady, ResultsKept
  <2>3. ~FallbackNotRequired(s, x) /\ ~FallbackNotRequired(u, x)
    BY <2>1, ExplicitIsNeeded
  <2> QED
    BY <2>1, <2>2, <2>3, NeededFacts
<1>3. s.completed \subseteq u.completed
  BY DEF Below
<1>4. \A x \in ExplicitTasks(g) \cap s.completed : FactsOf(u, x) = FactsOf(s, x)
  BY <1>2
<1> QED
  BY <1>3, <1>4, FallbackStays

\* A round completes in the larger state what it completes in the smaller.
LEMMA SkipKeepsBelow ==
  ASSUME PlanOK, NEW s, NEW u, Sound(s), Sound(u), Below(s, u)
  PROVE  Below(Skip(s), Skip(u))
<1>1. ResultsKept(s, u)
  BY OneResult
<1>2. /\ Skip(s).bind = s.bind /\ Skip(u).bind = u.bind
      /\ Skip(s).completed = s.completed \cup
           {t \in Open(s) : FallbackNotRequired(s, t) \/ VerifiedEmptyInput(s, t, GoalResults(s))}
      /\ Skip(u).completed = u.completed \cup
           {t \in Open(u) : FallbackNotRequired(u, t) \/ VerifiedEmptyInput(u, t, GoalResults(u))}
  BY DEF Skip, Sound, IsState
<1>3. ASSUME NEW t \in Open(s), t \notin u.completed,
             FallbackNotRequired(s, t) \/ VerifiedEmptyInput(s, t, GoalResults(s))
      PROVE  /\ t \in Open(u)
             /\ FallbackNotRequired(u, t) \/ VerifiedEmptyInput(u, t, GoalResults(u))
  <2>1. /\ t \in RelationTasks(plan) /\ IsBound(s, t)
        /\ plan.tasks[t].depends \subseteq s.completed
    BY DEF Open, IsBound
  <2>2. IsBound(u, t)
    BY <2>1, TaskStaysBound
  <2>3. t \in Open(u)
    BY <1>3, <2>1, <2>2 DEF Open, IsBound, Below
  <2>4. VerifiedEmptyInput(s, t, GoalResults(s)) => VerifiedEmptyInput(u, t, GoalResults(u))
    BY <1>1, <2>1, SameCall DEF VerifiedEmptyInput
  <2>5. FallbackNotRequired(s, t) => FallbackNotRequired(u, t)
    BY SkippedInBoth
  <2> QED
    BY <1>3, <2>3, <2>4, <2>5
<1>4. Skip(s).completed \subseteq Skip(u).completed
  BY <1>2, <1>3 DEF Below
<1> QED
  BY <1>2, <1>4 DEF Below

LEMMA MatchKeepsBelow ==
  ASSUME PlanOK, NEW s, NEW u, Sound(s), Sound(u), Below(s, u),
         NEW log, NEW longer, ToSet(log) \subseteq ToSet(longer)
  PROVE  Below(Match(log, s), Match(longer, u))
<1>1. ResultsKept(s, u)
  BY OneResult
<1>2. /\ Match(log, s).bind = s.bind /\ Match(longer, u).bind = u.bind
      /\ Match(log, s).completed = s.completed \cup
           {t \in Callable(s, GoalResults(s)) : Answering(log, s, t) # {}}
      /\ Match(longer, u).completed = u.completed \cup
           {t \in Callable(u, GoalResults(u)) : Answering(longer, u, t) # {}}
  BY DEF Match, Sound, IsState, Answering, Relations
<1>3. ASSUME NEW t \in Callable(s, GoalResults(s)), Answering(log, s, t) # {},
             t \notin u.completed
      PROVE  t \in Callable(u, GoalResults(u)) /\ Answering(longer, u, t) # {}
  <2>1. /\ t \in RelationTasks(plan) /\ IsBound(s, t)
        /\ plan.tasks[t].depends \subseteq s.completed
        /\ InputsReady(t, GoalResults(s)) /\ Subjects(s, t, GoalResults(s)) # {}
    BY DEF Callable, Open, IsBound
  <2>2. /\ IsBound(u, t) /\ InputsReady(t, GoalResults(u))
        /\ Subjects(u, t, GoalResults(u)) = Subjects(s, t, GoalResults(s))
        /\ RelationCall(u, t, GoalResults(u)) = RelationCall(s, t, GoalResults(s))
    BY <1>1, <2>1, SameCall
  <2>3. t \in Callable(u, GoalResults(u))
    BY <1>3, <2>1, <2>2 DEF Callable, Open, IsBound, Below
  <2>4. PICK r : r \in Answering(log, s, t)
    BY <1>3
  <2>5. r \in Answering(longer, u, t)
    BY <2>2, <2>4 DEF Answering, Relations, Answers
  <2> QED
    BY <2>3, <2>5
<1>4. Match(log, s).completed \subseteq Match(longer, u).completed
  BY <1>2, <1>3 DEF Below
<1> QED
  BY <1>2, <1>4 DEF Below

-----------------------------------------------------------------------------
(* The entity receipts, in their order.                                    *)

PhaseStart ==
    [bind |-> [i \in Refs(plan) |-> plan.refs[i].context], receipts |-> {}, completed |-> {}]

PhaseStep(s, r) == IF r.success /\ IsEntity(r) THEN AddEntityReceipt(s, r) ELSE s

\* Entity receipts of the transcript name no relation task of the plan.
LogOK(log) ==
    /\ Len(log) \in Nat
    /\ \A n \in 1..Len(log) :
          IsEntity(log[n]) => log[n].tasks \cap Tasks(plan) \subseteq EntityTasks(plan)

\* The phase receipt by receipt.
LEMMA PhaseUnfold ==
  ASSUME NEW log, Len(log) \in Nat
  PROVE  \E f : /\ EntityPhase(log) = f[Len(log)] /\ f[0] = PhaseStart
                /\ \A n \in 1..Len(log) : f[n] = PhaseStep(f[n - 1], log[n])
<1> DEFINE l == Len(log)
           At(f, i) == IF i = 0 THEN PhaseStart ELSE PhaseStep(f[i - 1], log[i])
           Are(f, n) == f = [i \in 0..n |-> At(f, i)]
           S == {n \in Nat : \E f : Are(f, n)}
<1>1. 0 \in S
  <2> DEFINE f == [i \in 0..0 |-> PhaseStart]
  <2>1. Are(f, 0)
    OBVIOUS
  <2> QED
    BY <2>1
<1>2. ASSUME NEW n \in Nat, n \in S PROVE n + 1 \in S
  <2>1. PICK f : Are(f, n)
    BY <1>2
  <2> DEFINE next == [i \in 0..(n + 1) |-> At(f, i)]
  <2>2. \A i \in 0..n : next[i] = f[i]
    BY <2>1
  <2>3. \A i \in 0..(n + 1) : At(next, i) = At(f, i)
    <3>1. \A i \in 0..(n + 1) : i # 0 => i - 1 \in 0..n
      OBVIOUS
    <3>2. \A i \in 0..(n + 1) : i # 0 => next[i - 1] = f[i - 1]
      BY <2>2, <3>1
    <3> HIDE DEF next
    <3> QED
      BY <3>2
  <2>4. Are(next, n + 1)
    BY <2>3
  <2> HIDE DEF next, Are
  <2>5. \E other : Are(other, n + 1)
    BY <2>4
  <2> QED
    BY <2>5
<1>3. l \in S
  BY <1>1, <1>2, Induction
<1> DEFINE it == CHOOSE f : Are(f, l)
<1>4. Are(it, l)
  BY <1>3
<1>5. EntityPhase(log) = it[l]
  BY DEF EntityPhase, PhaseStart, PhaseStep
<1> HIDE DEF it
<1>6. it[0] = PhaseStart /\ \A n \in 1..l : it[n] = PhaseStep(it[n - 1], log[n])
  BY <1>4
<1> QED
  BY <1>5, <1>6

\* The last receipt is read after all others.
LEMMA PhaseOfLonger ==
  ASSUME NEW log, NEW short, Len(short) \in Nat, Len(log) = Len(short) + 1,
         \A i \in 1..Len(short) : short[i] = log[i]
  PROVE  EntityPhase(log) = PhaseStep(EntityPhase(short), log[Len(log)])
<1> DEFINE m == Len(short)
<1>1. PICK f : /\ EntityPhase(short) = f[m] /\ f[0] = PhaseStart
               /\ \A n \in 1..m : f[n] = PhaseStep(f[n - 1], short[n])
  BY PhaseUnfold
<1>2. PICK h : /\ EntityPhase(log) = h[m + 1] /\ h[0] = PhaseStart
               /\ \A n \in 1..(m + 1) : h[n] = PhaseStep(h[n - 1], log[n])
  BY PhaseUnfold
<1> DEFINE S == {n \in Nat : n <= m => h[n] = f[n]}
<1>3. 0 \in S
  BY <1>1, <1>2
<1>4. ASSUME NEW n \in Nat, n \in S PROVE n + 1 \in S
  <2> SUFFICES ASSUME n + 1 <= m PROVE h[n + 1] = f[n + 1]
    OBVIOUS
  <2>1. n + 1 \in 1..m /\ n + 1 \in 1..(m + 1) /\ (n + 1) - 1 = n /\ h[n] = f[n]
    BY <1>4
  <2> QED
    BY <1>1, <1>2, <2>1
<1>5. m \in S
  BY <1>3, <1>4, Induction
<1>6. h[m] = f[m] /\ m + 1 \in 1..(m + 1) /\ (m + 1) - 1 = m
  BY <1>5
<1> QED
  BY <1>1, <1>2, <1>6

\* Of entity receipts only lookups come complete, with their names bound.
EntityOnly(s) ==
    /\ IsState(s)
    /\ s.completed \cap RelationTasks(plan) = {}
    /\ \A t \in EntityTasks(plan) \cap s.completed : IsBound(s, t)
    /\ \A x \in s.receipts : IsEntity(x[2])

LEMMA EntityOnlyIsSound == \A s : EntityOnly(s) => Sound(s)
  BY DEF EntityOnly, Sound

\* A further entity receipt binds what was not bound.
LEMMA EntityReceiptGrows ==
  ASSUME PlanOK, NEW s, EntityOnly(s), NEW r, IsEntity(r),
         r.tasks \cap Tasks(plan) \subseteq EntityTasks(plan)
  PROVE  EntityOnly(AddEntityReceipt(s, r)) /\ Below(s, AddEntityReceipt(s, r))
<1> DEFINE u == AddEntityReceipt(s, r)
           matched == {i \in Candidates(r) : MayBind(s.bind, i, Proof(r, i))}
           tasks == IF r.tasks \cap Tasks(plan) # {} THEN r.tasks \cap Tasks(plan)
                    ELSE {t \in Tasks(plan) : /\ plan.tasks[t].tool = r.call.tool
                                              /\ plan.tasks[t].depends \subseteq s.completed
                                              /\ plan.tasks[t].refs \cap matched # {}}
<1>1. /\ IsState(u)
      /\ u.bind = [i \in Refs(plan) |-> IF i \in matched THEN Proof(r, i) ELSE s.bind[i]]
      /\ u.receipts = s.receipts \cup (tasks \X {r})
      /\ u.completed = s.completed \cup {t \in tasks : Satisfied(t, u.bind, u.receipts)}
  BY DEF AddEntityReceipt, IsState
<1> HIDE DEF u
<1>2. tasks \subseteq EntityTasks(plan)
  BY DEF EntityTasks, IsEntity
<1> HIDE DEF tasks
<1>3. \A i \in Refs(plan) : s.bind[i] \in {None, u.bind[i]}
  BY <1>1 DEF MayBind
<1>4. \A i \in Refs(plan) : s.bind[i] # None => u.bind[i] # None
  BY <1>3
<1>5. \A t \in EntityTasks(plan) : t \notin RelationTasks(plan) /\ plan.tasks[t].refs \subseteq Refs(plan)
  BY DEF EntityTasks, RelationTasks, EntityTools, PlanOK, LegalPlan, TasksAreWellFormed
<1>6. \A t \in EntityTasks(plan) \cap u.completed : IsBound(u, t)
  <2>1. ASSUME NEW t \in EntityTasks(plan), t \in s.completed PROVE IsBound(u, t)
    BY <1>4, <1>5, <2>1 DEF EntityOnly, IsBound
  <2>2. \A t \in tasks : Satisfied(t, u.bind, u.receipts) => IsBound(u, t)
    BY DEF Satisfied, IsBound
  <2> QED
    BY <1>1, <2>1, <2>2
<1>7. u.completed \cap RelationTasks(plan) = {}
  BY <1>1, <1>2, <1>5 DEF EntityOnly
<1>8. \A x \in u.receipts : IsEntity(x[2])
  BY <1>1 DEF EntityOnly
<1>9. EntityOnly(u) /\ Below(s, u)
  BY <1>1, <1>3, <1>6, <1>7, <1>8 DEF EntityOnly, Below
<1> QED
  BY <1>9 DEF u

LEMMA PhaseStepGrows ==
  ASSUME PlanOK, NEW s, EntityOnly(s), NEW r,
         IsEntity(r) => r.tasks \cap Tasks(plan) \subseteq EntityTasks(plan)
  PROVE  EntityOnly(PhaseStep(s, r)) /\ Below(s, PhaseStep(s, r))
<1>1. Below(s, s)
  BY DEF Below
<1> QED
  BY <1>1, EntityReceiptGrows DEF PhaseStep

LEMMA PhaseIsEntityOnly ==
  ASSUME PlanOK, NEW log, LogOK(log)
  PROVE  EntityOnly(EntityPhase(log))
<1> DEFINE l == Len(log)
<1>1. PICK f : /\ EntityPhase(log) = f[l] /\ f[0] = PhaseStart
               /\ \A n \in 1..l : f[n] = PhaseStep(f[n - 1], log[n])
  BY PhaseUnfold DEF LogOK
<1> DEFINE S == {n \in Nat : n <= l => EntityOnly(f[n])}
<1>2. 0 \in S
  BY <1>1 DEF PhaseStart, EntityOnly, IsState
<1>3. ASSUME NEW n \in Nat, n \in S PROVE n + 1 \in S
  <2> SUFFICES ASSUME n + 1 <= l PROVE EntityOnly(f[n + 1])
    OBVIOUS
  <2>1. n + 1 \in 1..l /\ (n + 1) - 1 = n /\ EntityOnly(f[n])
    BY <1>3 DEF LogOK
  <2>2. f[n + 1] = PhaseStep(f[n], log[n + 1])
    BY <1>1, <2>1
  <2>3. IsEntity(log[n + 1]) => log[n + 1].tasks \cap Tasks(plan) \subseteq EntityTasks(plan)
    BY <2>1 DEF LogOK
  <2> QED
    BY <2>1, <2>2, <2>3, PhaseStepGrows
<1>4. l \in S
  BY <1>2, <1>3, Induction DEF LogOK
<1> QED
  BY <1>1, <1>4 DEF LogOK

-----------------------------------------------------------------------------
(* The rounds of two snapshots, one of a longer transcript.                *)

Round(log, s) == Match(log, Skip(s))

Rounds == Cardinality(Tasks(plan))

LEMMA RoundsUnfold ==
  ASSUME PlanOK, NEW log
  PROVE  \E f : /\ Snapshot(log) = f[Rounds] /\ f[0] = EntityPhase(log)
                /\ \A n \in 1..Rounds : f[n] = Round(log, f[n - 1])
<1> DEFINE l == Rounds
           At(f, i) == IF i = 0 THEN EntityPhase(log) ELSE Round(log, f[i - 1])
           Are(f, n) == f = [i \in 0..n |-> At(f, i)]
           S == {n \in Nat : \E f : Are(f, n)}
<1>0. l \in Nat
  BY FS_CardinalityType DEF Rounds, PlanOK, LegalPlan, TasksAreWellFormed
<1>1. 0 \in S
  <2> DEFINE f == [i \in 0..0 |-> EntityPhase(log)]
  <2>1. Are(f, 0)
    OBVIOUS
  <2> QED
    BY <2>1
<1>2. ASSUME NEW n \in Nat, n \in S PROVE n + 1 \in S
  <2>1. PICK f : Are(f, n)
    BY <1>2
  <2> DEFINE next == [i \in 0..(n + 1) |-> At(f, i)]
  <2>2. \A i \in 0..n : next[i] = f[i]
    BY <2>1
  <2>3. \A i \in 0..(n + 1) : At(next, i) = At(f, i)
    <3>1. \A i \in 0..(n + 1) : i # 0 => i - 1 \in 0..n
      OBVIOUS
    <3>2. \A i \in 0..(n + 1) : i # 0 => next[i - 1] = f[i - 1]
      BY <2>2, <3>1
    <3> HIDE DEF next
    <3> QED
      BY <3>2
  <2>4. Are(next, n + 1)
    BY <2>3
  <2> HIDE DEF next, Are
  <2>5. \E other : Are(other, n + 1)
    BY <2>4
  <2> QED
    BY <2>5
<1>3. l \in S
  BY <1>0, <1>1, <1>2, Induction
<1> DEFINE it == CHOOSE f : Are(f, l)
<1>4. Are(it, l)
  BY <1>3
<1>5. Snapshot(log) = it[l]
  BY DEF Snapshot, Round, Rounds
<1> HIDE DEF it, l
<1>6. it[0] = EntityPhase(log) /\ \A n \in 1..l : it[n] = Round(log, it[n - 1])
  BY <1>0, <1>4
<1> QED
  BY <1>5, <1>6 DEF l

LEMMA RoundKeepsBelow ==
  ASSUME PlanOK, NEW s, NEW u, Sound(s), Sound(u), Below(s, u),
         NEW log, NEW longer, ToSet(log) \subseteq ToSet(longer)
  PROVE  /\ Sound(Round(log, s)) /\ Sound(Round(longer, u))
         /\ Below(Round(log, s), Round(longer, u))
<1>1. Sound(Skip(s)) /\ Sound(Skip(u)) /\ Below(Skip(s), Skip(u))
  BY SkipGrows, SkipKeepsBelow
<1> QED
  BY <1>1, MatchGrows, MatchKeepsBelow DEF Round

\* A further receipt takes nothing back.
LEMMA SnapshotGrows ==
  ASSUME PlanOK, NEW log, NEW short, LogOK(log),
         Len(short) \in Nat, Len(log) = Len(short) + 1,
         \A i \in 1..Len(short) : short[i] = log[i],
         ToSet(short) \subseteq ToSet(log)
  PROVE  /\ Below(Snapshot(short), Snapshot(log))
         /\ ResultsKept(Snapshot(short), Snapshot(log))
<1>1. PICK f : /\ Snapshot(short) = f[Rounds] /\ f[0] = EntityPhase(short)
               /\ \A n \in 1..Rounds : f[n] = Round(short, f[n - 1])
  BY RoundsUnfold
<1>2. PICK h : /\ Snapshot(log) = h[Rounds] /\ h[0] = EntityPhase(log)
               /\ \A n \in 1..Rounds : h[n] = Round(log, h[n - 1])
  BY RoundsUnfold
<1>3. Rounds \in Nat
  BY FS_CardinalityType DEF Rounds, PlanOK, LegalPlan, TasksAreWellFormed
<1> DEFINE Alike(n) == Sound(f[n]) /\ Sound(h[n]) /\ Below(f[n], h[n])
           S == {n \in Nat : n <= Rounds => Alike(n)}
<1>4. 0 \in S
  <2>1. LogOK(short)
    BY DEF LogOK
  <2>2. EntityOnly(EntityPhase(short))
    BY <2>1, PhaseIsEntityOnly
  <2>3. EntityPhase(log) = PhaseStep(EntityPhase(short), log[Len(log)])
    BY PhaseOfLonger
  <2>4. IsEntity(log[Len(log)]) => log[Len(log)].tasks \cap Tasks(plan) \subseteq EntityTasks(plan)
    BY DEF LogOK
  <2>5. /\ EntityOnly(EntityPhase(log))
        /\ Below(EntityPhase(short), EntityPhase(log))
    BY <2>2, <2>3, <2>4, PhaseStepGrows
  <2> QED
    BY <1>1, <1>2, <2>2, <2>5, EntityOnlyIsSound
<1>5. ASSUME NEW n \in Nat, n \in S PROVE n + 1 \in S
  <2> SUFFICES ASSUME n + 1 <= Rounds PROVE Alike(n + 1)
    OBVIOUS
  <2>1. n + 1 \in 1..Rounds /\ (n + 1) - 1 = n /\ Alike(n)
    BY <1>3, <1>5
  <2>2. f[n + 1] = Round(short, f[n]) /\ h[n + 1] = Round(log, h[n])
    BY <1>1, <1>2, <2>1
  <2> QED
    BY <2>1, <2>2, RoundKeepsBelow
<1>6. Rounds \in S
  <2> HIDE DEF S
  <2> QED
    BY <1>3, <1>4, <1>5, Induction
<1>7. Alike(Rounds)
  BY <1>3, <1>6
<1> QED
  BY <1>1, <1>2, <1>7, OneResult

-----------------------------------------------------------------------------
(* What a transcript is.                                                   *)

\* Entity receipts name lookups of the plan they were made for.
TranscriptInv ==
    /\ question \in Questions /\ plan \in question
    /\ transcript \in Seq(ToSet(transcript))
    /\ \A r \in ToSet(transcript) :
          IsEntity(r) => r.tasks \subseteq UNION {EntityTasks(p) : p \in question}

LEMMA LookupContracts ==
  ASSUME NEW s, NEW c \in Contracts(s), c.tool \in EntityTools
  PROVE  c.tasks \subseteq EntityTasks(plan)
<1>1. CASE c \in RelationContracts(s, GoalResults(s))
  <2>1. c.tool = "relations"
    BY <1>1 DEF RelationContracts, RelationContract
  <2> QED
    BY <2>1 DEF EntityTools
<1>2. CASE c \in QueryContracts(s)
  <2>1. PICK tool, mode : c = QueryContract(tool, mode, Wanted(s, tool, mode))
    BY <1>2 DEF QueryContracts
  <2>2. \A w \in Wanted(s, tool, mode) : w[1] \in EntityTasks(plan)
    BY DEF Wanted, ReadyLookups
  <2> QED
    BY <2>1, <2>2 DEF QueryContract
<1>3. CASE c \in IdContracts(s)
  <2>1. PICK wanting \in SUBSET ReadyLookups(s), tool \in EntityTools :
           c = IdContract(s, tool, wanting)
    BY <1>3 DEF IdContracts
  <2> QED
    BY <2>1 DEF IdContract, ReadyLookups
<1> QED
  BY <1>1, <1>2, <1>3 DEF Contracts

LEMMA ReceiptOfLookups ==
  ASSUME NEW call, NEW s, NEW success,
         IsEntity(Receipt(call, Contracts(s), success))
  PROVE  Receipt(call, Contracts(s), success).tasks \subseteq EntityTasks(plan)
<1> DEFINE matching == {c \in Contracts(s) : Fits(call, c)}
<1>1. /\ Receipt(call, Contracts(s), success).tasks = UNION {c.tasks : c \in matching}
      /\ call.tool \in EntityTools
  BY DEF Receipt, IsEntity
<1>2. \A c \in matching : c.tasks \subseteq EntityTasks(plan)
  BY <1>1, LookupContracts DEF Fits
<1> QED
  BY <1>1, <1>2

LEMMA ReceiptAppended ==
  ASSUME NEW log, NEW r, log \in Seq(ToSet(log))
  PROVE  /\ ToSet(Append(log, r)) = ToSet(log) \cup {r}
         /\ Append(log, r) \in Seq(ToSet(Append(log, r)))
<1> DEFINE V == ToSet(log) \cup {r}
<1>1. log \in Seq(V) /\ r \in V
  OBVIOUS
<1>2. ToSet(log) = {log[i] : i \in 1..Len(log)} /\ Len(log) \in Nat
  BY DEF ToSet
<1> HIDE DEF V
<1>3. /\ Append(log, r) \in Seq(V) /\ DOMAIN Append(log, r) = 1..(Len(log) + 1)
      /\ \A i \in 1..Len(log) : Append(log, r)[i] = log[i]
      /\ Append(log, r)[Len(log) + 1] = r
  BY <1>1
<1>4. ToSet(Append(log, r)) = V
  BY <1>2, <1>3 DEF ToSet, V
<1> QED
  BY <1>3, <1>4 DEF V

LEMMA TranscriptInvInit == Init => TranscriptInv
  BY DEF Init, TranscriptInv, ToSet

LEMMA TranscriptInvStep == TranscriptInv /\ [Next]_vars => TranscriptInv'
<1> SUFFICES ASSUME TranscriptInv, [Next]_vars PROVE TranscriptInv'
  OBVIOUS
<1>1. CASE CallTool
  <2>1. PICK call, success :
           transcript' = Append(transcript, Receipt(call, Contracts(Snapshot(transcript)), success))
    BY <1>1 DEF CallTool
  <2> DEFINE r == Receipt(call, Contracts(Snapshot(transcript)), success)
  <2>2. IsEntity(r) => r.tasks \subseteq EntityTasks(plan)
    BY ReceiptOfLookups
  <2>3. IsEntity(r) => r.tasks \subseteq UNION {EntityTasks(p) : p \in question}
    BY <2>2 DEF TranscriptInv
  <2> HIDE DEF r
  <2>4. /\ ToSet(transcript') = ToSet(transcript) \cup {r}
        /\ transcript' \in Seq(ToSet(transcript'))
    BY <2>1, ReceiptAppended DEF TranscriptInv, r
  <2> QED
    BY <1>1, <2>3, <2>4 DEF TranscriptInv, CallTool
<1>2. CASE Replan
  BY <1>2 DEF Replan, TranscriptInv
<1>3. CASE Duplicate \/ Reject \/ GiveUp \/ Finish \/ UNCHANGED vars
  BY <1>3 DEF Duplicate, Reject, GiveUp, Finish, vars, TranscriptInv
<1> QED
  BY <1>1, <1>2, <1>3 DEF Next

LEMMA PlanOfQuestion ==
  ASSUME TranscriptInv, ProfilesAreTyped
  PROVE  PlanOK
  BY DagAssumption DEF TranscriptInv, PlanOK, ProfilesAreTyped

\* The transcript names no relation task of the plan as a lookup's.
LEMMA TranscriptIsLog ==
  ASSUME TaskIdsAreKept, ProfilesAreTyped, TranscriptInv
  PROVE  LogOK(transcript)
<1> DEFINE V == ToSet(transcript)
           l == Len(transcript)
<1>1. PlanOK
  BY PlanOfQuestion
<1>2. transcript \in Seq(V) /\ l \in Nat /\ DOMAIN transcript = 1..l
  BY DEF TranscriptInv
<1>3. \A i \in 1..l : transcript[i] \in V
  BY <1>2 DEF ToSet
<1>4. \A p \in question : \A t \in EntityTasks(p) \cap Tasks(plan) : t \in EntityTasks(plan)
  BY <1>1 DEF TranscriptInv, TaskIdsAreKept, PlanOK, LegalPlan, TasksAreWellFormed,
              EntityTasks, RelationTasks
<1>5. \A r \in V : IsEntity(r) => r.tasks \cap Tasks(plan) \subseteq EntityTasks(plan)
  BY <1>4 DEF TranscriptInv
<1> QED
  BY <1>2, <1>3, <1>5 DEF LogOK

LEMMA TranscriptKeepsProgress ==
  ASSUME TaskIdsAreKept, ProfilesAreTyped, TranscriptInv
  PROVE  ProgressIsKept
<1> SUFFICES ASSUME transcript # <<>>
             PROVE  /\ Below(Snapshot(Front(transcript)), Snapshot(transcript))
                    /\ ResultsKept(Snapshot(Front(transcript)), Snapshot(transcript))
  BY DEF ProgressIsKept, Below, ResultsKept
<1>1. PlanOK
  BY PlanOfQuestion
<1> DEFINE V == ToSet(transcript)
           l == Len(transcript)
<1>2. transcript \in Seq(V) /\ l \in Nat /\ l > 0 /\ DOMAIN transcript = 1..l
  BY DEF TranscriptInv
<1>3. \A i \in 1..l : transcript[i] \in V
  BY <1>2 DEF ToSet
<1>4. LogOK(transcript)
  BY TranscriptIsLog
<1>5. /\ Len(Front(transcript)) = l - 1 /\ DOMAIN Front(transcript) = 1..(l - 1)
      /\ \A i \in 1..(l - 1) : Front(transcript)[i] = transcript[i]
  <2> HIDE DEF V
  <2>1. 1 \in Nat /\ l - 1 \in Nat /\ l - 1 <= l
    BY <1>2
  <2>2. Front(transcript) = SubSeq(transcript, 1, l - 1)
    BY DEF Front
  <2> QED
    BY <1>2, <2>1, <2>2
<1>6. ToSet(Front(transcript)) \subseteq V
  <2> DEFINE short == Front(transcript)
  <2>1. \A i \in DOMAIN short : i \in 1..l /\ short[i] = transcript[i]
    BY <1>2, <1>5
  <2> HIDE DEF V, short
  <2>2. \A i \in DOMAIN short : short[i] \in V
    BY <1>3, <2>1
  <2>3. ToSet(short) = {short[i] : i \in DOMAIN short}
    BY DEF ToSet
  <2>4. ToSet(short) \subseteq V
    BY <2>2, <2>3
  <2> QED
    BY <2>4 DEF short
<1> HIDE DEF V
<1> QED
  BY <1>1, <1>2, <1>4, <1>5, <1>6, SnapshotGrows DEF V

\* For all questions, worlds and numbers of calls: whatever calls fail, are
\* split or were made for an earlier plan, a further receipt never takes back a
\* binding, a completed task or the result of a complete goal, unless a replan
\* gives a relation task the id of a lookup (_snapshot, _build_goal_results).
THEOREM ProgressHolds ==
  ASSUME TaskIdsAreKept, ProfilesAreTyped
  PROVE  Spec => []ProgressIsKept
<1>1. TranscriptInv => ProgressIsKept
  BY TranscriptKeepsProgress
<1> QED
  BY <1>1, TranscriptInvInit, TranscriptInvStep, PTL DEF Spec

-----------------------------------------------------------------------------
(* What binds a name.                                                      *)

Words(i) == [mention |-> plan.refs[i].mention, canonical |-> plan.refs[i].canonical]

\* The ways of looking name i up that come before this one find nothing.
Climbed(i, mode) ==
    LET found(m) == Search(plan.refs[i].tool, m, Words(i))
    IN  /\ mode \in Modes
        /\ mode # "exact" => found("exact") = {}
        /\ mode = "cross_language_exact" => found("fuzzy") = {} /\ plan.refs[i].canonical # None

\* What the name is found to be in one way.
Looked(i, mode) == TheOnly(Search(plan.refs[i].tool, mode, Query(i, mode)))

\* A query replaces the words of a name only where its catalogue name counts.
LEMMA SearchByWords ==
  ASSUME NEW i, NEW mode \in Modes
  PROVE  Search(plan.refs[i].tool, mode, Query(i, mode)) = Search(plan.refs[i].tool, mode, Words(i))
<1>1. CASE mode = "cross_language_exact"
  <2>1. Query(i, mode).canonical = Words(i).canonical
    BY <1>1 DEF Query, Words
  <2> QED
    BY <1>1, <2>1 DEF Search
<1>2. CASE mode # "cross_language_exact"
  <2>1. Query(i, mode).mention = Words(i).mention
    BY DEF Query, Words
  <2> QED
    BY <1>2, <2>1 DEF Search
<1> QED
  BY <1>1, <1>2

\* Nothing is the only one of nothing.
LEMMA OnlyOfNone == TheOnly({}) = None
  BY FS_EmptySet DEF TheOnly

\* The first way that finds one entity finds the one that is meant.
LEMMA LookedIsMeant ==
  ASSUME NEW i, ~FromContext(plan, i), NEW mode, Climbed(i, mode)
  PROVE  Looked(i, mode) \in {None, Meant(plan.refs[i])}
<1> DEFINE ref == plan.refs[i]
           found(m) == Search(ref.tool, m, Words(i))
<1>1. Looked(i, mode) = TheOnly(found(mode))
  BY SearchByWords DEF Looked, Climbed
<1>2. ref.context = None
  BY DEF FromContext
<1>3. Meant(ref) = IF found("exact") # {} THEN TheOnly(found("exact"))
                   ELSE IF found("fuzzy") # {} \/ ref.canonical = None THEN TheOnly(found("fuzzy"))
                   ELSE TheOnly(found("cross_language_exact"))
  BY <1>2 DEF Meant, Words
<1>4. /\ mode \in Modes
      /\ mode # "exact" => found("exact") = {}
      /\ mode = "cross_language_exact" => found("fuzzy") = {} /\ ref.canonical # None
  BY DEF Climbed
<1> HIDE DEF found
<1>5. CASE mode = "exact"
  BY <1>1, <1>3, <1>5, OnlyOfNone
<1>6. CASE mode = "fuzzy"
  BY <1>1, <1>3, <1>4, <1>6, OnlyOfNone
<1>7. CASE mode = "cross_language_exact"
  BY <1>1, <1>3, <1>4, <1>7
<1> QED
  BY <1>4, <1>5, <1>6, <1>7 DEF Modes

\* A lookup by name asks for names of its kind, and each in the way it is due.
Asked(r) ==
    /\ r.call.ids = {}
    /\ \A i \in r.refs : /\ ~FromContext(plan, i) /\ plan.refs[i].tool = r.call.tool
                         /\ Climbed(i, r.call.mode)
    /\ \A q \in r.call.queries : \E i \in r.refs : q = Query(i, r.call.mode)

\* A receipt that binds name i.
Proves(r, i) ==
    /\ r.success /\ IsEntity(r)
    /\ i \in r.refs /\ Query(i, r.call.mode) \in r.call.queries
    /\ Looked(i, r.call.mode) # None

IsBoundBy(log, n, i) == FromContext(plan, i) \/ \E m \in 1..n : Proves(log[m], i)

\* What the first n receipts bind i to.
BoundBy(log, n, i) ==
    IF FromContext(plan, i) THEN plan.refs[i].context
    ELSE IF IsBoundBy(log, n, i) THEN Meant(plan.refs[i]) ELSE None

\* What a lookup is when it is made: by name, or by id once all is bound.
LookupOK(log, n) ==
    IsEntity(log[n]) =>
        /\ log[n].refs # {} /\ log[n].refs \subseteq Refs(plan)
        /\ log[n].call.queries # {} => Asked(log[n])
        /\ log[n].call.queries = {} => \A i \in log[n].refs : IsBoundBy(log, n - 1, i)

\* A name is asked for in no words but its own.
LEMMA OwnQueries ==
  ASSUME NamesApart(plan), NEW r, r.refs \subseteq Refs(plan), Asked(r), NEW i \in r.refs
  PROVE  {q \in r.call.queries : q.mention = plan.refs[i].mention}
            = r.call.queries \cap {Query(i, r.call.mode)}
<1>1. ASSUME NEW q \in r.call.queries, q.mention = plan.refs[i].mention
      PROVE  q = Query(i, r.call.mode)
  <2>1. PICK j \in r.refs : q = Query(j, r.call.mode)
    BY DEF Asked
  <2>2. plan.refs[j].mention = plan.refs[i].mention
    BY <1>1, <2>1 DEF Query
  <2>3. /\ plan.refs[j].tool = plan.refs[i].tool
        /\ ~FromContext(plan, i) /\ ~FromContext(plan, j)
    BY DEF Asked
  <2>4. i = j
    BY <2>2, <2>3 DEF NamesApart
  <2> QED
    BY <2>1, <2>4
<1>2. Query(i, r.call.mode).mention = plan.refs[i].mention
  BY DEF Query
<1> QED
  BY <1>1, <1>2

\* So a lookup by name proves its own names, and each as what is meant.
LEMMA ProofByName ==
  ASSUME NamesApart(plan), NEW r, r.refs \subseteq Refs(plan), Asked(r), NEW i \in r.refs,
         r.call.queries # {}
  PROVE  Proof(r, i) = IF Query(i, r.call.mode) \in r.call.queries
                       THEN Looked(i, r.call.mode) ELSE None
<1> DEFINE own == {q \in r.call.queries : q.mention = plan.refs[i].mention}
           mine == Query(i, r.call.mode)
<1>1. own = r.call.queries \cap {mine}
  BY OwnQueries
<1>2. r.call.ids = {} /\ plan.refs[i].tool = r.call.tool
  BY DEF Asked
<1>3. CASE mine \in r.call.queries
  <2>1. own = {mine}
    BY <1>1, <1>3
  <2>2. UNION {Search(r.call.tool, r.call.mode, q) : q \in own}
          = Search(r.call.tool, r.call.mode, mine)
    BY <2>1
  <2> HIDE DEF mine
  <2>3. Proof(r, i) = TheOnly(Search(r.call.tool, r.call.mode, mine))
    BY <2>1, <2>2 DEF Proof
  <2> QED
    BY <1>2, <1>3, <2>3 DEF Looked, mine
<1>4. CASE mine \notin r.call.queries
  <2>1. own = {}
    BY <1>1, <1>4
  <2>2. plan.refs[i].canonical # None
    <3>1. PICK q \in r.call.queries : TRUE
      OBVIOUS
    <3>2. PICK j \in r.refs : q = Query(j, r.call.mode)
      BY DEF Asked
    <3>3. j # i
      BY <1>4, <3>2
    <3> QED
      BY <3>3 DEF Asked, NamesApart
  <2>3. Proof(r, i) = None
    BY <1>2, <2>1, <2>2 DEF Proof
  <2> QED
    BY <1>4, <2>3
<1> QED
  BY <1>3, <1>4

\* A name that is bound is bound to what is meant.
LEMMA BoundIsMeant ==
  ASSUME NEW log, NEW n \in Nat, \A m \in 1..n : LookupOK(log, m), NEW i
  PROVE  /\ IsBoundBy(log, n, i) => Meant(plan.refs[i]) # None
         /\ BoundBy(log, n, i) = IF IsBoundBy(log, n, i) THEN Meant(plan.refs[i]) ELSE None
<1>1. CASE FromContext(plan, i)
  BY <1>1 DEF FromContext, Meant, BoundBy, IsBoundBy
<1>2. ASSUME ~FromContext(plan, i), IsBoundBy(log, n, i)
      PROVE  Meant(plan.refs[i]) # None
  <2>1. PICK m \in 1..n : Proves(log[m], i)
    BY <1>2 DEF IsBoundBy
  <2>2. Asked(log[m]) /\ i \in log[m].refs
    BY <2>1 DEF Proves, LookupOK
  <2>3. Climbed(i, log[m].call.mode)
    BY <2>2 DEF Asked
  <2> QED
    BY <1>2, <2>1, <2>3, LookedIsMeant DEF Proves
<1> QED
  BY <1>1, <1>2 DEF BoundBy, IsBoundBy

\* The n-th receipt binds a name further if it proves it.
LEMMA OneMore ==
  ASSUME NEW log, NEW n \in Nat \ {0}, NEW i
  PROVE  IsBoundBy(log, n, i) <=> IsBoundBy(log, n - 1, i) \/ Proves(log[n], i)
<1>1. 1..n = (1..(n - 1)) \cup {n}
  OBVIOUS
<1> QED
  BY <1>1 DEF IsBoundBy

\* A receipt binds the names it proves, and changes no other.
LEMMA StepBinds ==
  ASSUME NamesApart(plan), NEW log, NEW n \in Nat \ {0}, \A m \in 1..n : LookupOK(log, m),
         NEW s, s.bind = [i \in Refs(plan) |-> BoundBy(log, n - 1, i)]
  PROVE  PhaseStep(s, log[n]).bind = [i \in Refs(plan) |-> BoundBy(log, n, i)]
<1> DEFINE r == log[n]
           matched == {i \in Candidates(r) : MayBind(s.bind, i, Proof(r, i))}
<1>1. LookupOK(log, n) /\ n - 1 \in Nat /\ \A m \in 1..(n - 1) : LookupOK(log, m)
  OBVIOUS
<1>2. \A i \in Refs(plan) :
         s.bind[i] = IF IsBoundBy(log, n - 1, i) THEN Meant(plan.refs[i]) ELSE None
  BY <1>1, BoundIsMeant
<1>3. CASE ~(r.success /\ IsEntity(r))
  <2>1. \A i : ~Proves(r, i)
    BY <1>3 DEF Proves
  <2>2. \A i : BoundBy(log, n, i) = BoundBy(log, n - 1, i)
    BY <2>1, OneMore DEF BoundBy
  <2> QED
    BY <1>3, <2>2 DEF PhaseStep
<1>4. CASE r.success /\ IsEntity(r)
  <2>1. PhaseStep(s, r).bind = [i \in Refs(plan) |-> IF i \in matched THEN Proof(r, i) ELSE s.bind[i]]
    BY <1>4 DEF PhaseStep, AddEntityReceipt
  <2>2. r.refs # {} /\ r.refs \subseteq Refs(plan)
    BY <1>1, <1>4 DEF LookupOK
  <2>3. Candidates(r) = r.refs
    BY <2>2 DEF Candidates
  <2> SUFFICES ASSUME NEW i \in Refs(plan)
               PROVE  (IF i \in matched THEN Proof(r, i) ELSE s.bind[i]) = BoundBy(log, n, i)
    BY <2>1
  <2>4. BoundBy(log, n, i) = IF IsBoundBy(log, n - 1, i) \/ Proves(r, i)
                             THEN Meant(plan.refs[i]) ELSE None
    BY OneMore, BoundIsMeant
  <2>5. i \in matched <=> i \in r.refs /\ Proof(r, i) # None /\ s.bind[i] \in {None, Proof(r, i)}
    BY <2>3 DEF MayBind
  <2> HIDE DEF matched
  <2>6. CASE r.call.queries = {}
    <3>1. ~Proves(r, i)
      BY <2>6 DEF Proves
    <3>2. i \in r.refs => IsBoundBy(log, n - 1, i)
      BY <1>1, <1>4, <2>6 DEF LookupOK
    <3>3. i \in r.refs => s.bind[i] # None
      BY <1>1, <1>2, <3>2, BoundIsMeant
    <3> QED
      BY <1>2, <2>4, <2>5, <3>1, <3>3
  <2>7. CASE r.call.queries # {}
    <3>1. Asked(r)
      BY <1>1, <1>4, <2>7 DEF LookupOK
    <3>2. CASE i \notin r.refs
      BY <1>2, <2>4, <2>5, <3>2 DEF Proves
    <3>3. CASE i \in r.refs
      <4>1. Proof(r, i) = IF Query(i, r.call.mode) \in r.call.queries
                          THEN Looked(i, r.call.mode) ELSE None
        BY <2>2, <2>7, <3>1, <3>3, ProofByName
      <4>2. Looked(i, r.call.mode) \in {None, Meant(plan.refs[i])}
        BY <3>1, <3>3, LookedIsMeant DEF Asked
      <4>3. Proves(r, i) <=> Proof(r, i) # None
        BY <1>4, <3>3, <4>1 DEF Proves
      <4> QED
        BY <1>2, <2>4, <2>5, <3>3, <4>1, <4>2, <4>3
    <3> QED
      BY <3>2, <3>3
  <2> QED
    BY <2>6, <2>7
<1> QED
  BY <1>3, <1>4

LookupsOK(log) == Len(log) \in Nat /\ \A n \in 1..Len(log) : LookupOK(log, n)

\* Receipt after receipt, the phase binds what the receipts so far prove.
LEMMA PhaseBinds ==
  ASSUME NamesApart(plan), NEW log, LookupsOK(log)
  PROVE  EntityPhase(log).bind = [i \in Refs(plan) |-> BoundBy(log, Len(log), i)]
<1> DEFINE l == Len(log)
<1>1. PICK f : /\ EntityPhase(log) = f[l] /\ f[0] = PhaseStart
               /\ \A n \in 1..l : f[n] = PhaseStep(f[n - 1], log[n])
  BY PhaseUnfold DEF LookupsOK
<1> DEFINE Bound(n) == f[n].bind = [i \in Refs(plan) |-> BoundBy(log, n, i)]
           S == {n \in Nat : n <= l => Bound(n)}
<1>2. 0 \in S
  <2>1. \A i \in Refs(plan) : BoundBy(log, 0, i) = plan.refs[i].context
    BY DEF BoundBy, IsBoundBy, FromContext
  <2> QED
    BY <1>1, <2>1 DEF PhaseStart
<1>3. ASSUME NEW n \in Nat, n \in S PROVE n + 1 \in S
  <2> SUFFICES ASSUME n + 1 <= l PROVE Bound(n + 1)
    OBVIOUS
  <2>1. n + 1 \in 1..l /\ n + 1 \in Nat \ {0} /\ (n + 1) - 1 = n /\ Bound(n)
    BY <1>3 DEF LookupsOK
  <2>2. f[n + 1] = PhaseStep(f[n], log[n + 1])
    BY <1>1, <2>1
  <2>3. \A m \in 1..(n + 1) : LookupOK(log, m)
    BY <2>1 DEF LookupsOK
  <2> QED
    BY <2>1, <2>2, <2>3, StepBinds
<1>4. l \in S
  BY <1>2, <1>3, Induction DEF LookupsOK
<1> QED
  BY <1>1, <1>4 DEF LookupsOK

\* So a snapshot binds exactly the names that receipts prove, each to what is
\* meant.
LEMMA SnapshotBinds ==
  ASSUME PlanOK, NamesApart(plan), NEW log, LookupsOK(log), LogOK(log)
  PROVE  /\ Sound(Snapshot(log))
         /\ Snapshot(log).bind = [i \in Refs(plan) |-> BoundBy(log, Len(log), i)]
<1>1. PICK f : /\ Snapshot(log) = f[Rounds] /\ f[0] = EntityPhase(log)
               /\ \A n \in 1..Rounds : f[n] = Round(log, f[n - 1])
  BY RoundsUnfold
<1>2. Rounds \in Nat
  BY FS_CardinalityType DEF Rounds, PlanOK, LegalPlan, TasksAreWellFormed
<1> DEFINE Bound(n) == Sound(f[n]) /\ f[n].bind = f[0].bind
           S == {n \in Nat : n <= Rounds => Bound(n)}
<1>3. 0 \in S
  BY <1>1, PhaseIsEntityOnly, EntityOnlyIsSound
<1>4. ASSUME NEW n \in Nat, n \in S PROVE n + 1 \in S
  <2> SUFFICES ASSUME n + 1 <= Rounds PROVE Bound(n + 1)
    OBVIOUS
  <2>1. n + 1 \in 1..Rounds /\ (n + 1) - 1 = n /\ Bound(n)
    BY <1>2, <1>4
  <2>2. f[n + 1] = Match(log, Skip(f[n]))
    BY <1>1, <2>1 DEF Round
  <2>3. Sound(Skip(f[n])) /\ Sound(Match(log, Skip(f[n])))
    BY <2>1, SkipGrows, MatchGrows
  <2>4. Skip(f[n]).bind = f[n].bind /\ Match(log, Skip(f[n])).bind = Skip(f[n]).bind
    BY <2>1, <2>3 DEF Skip, Match, Sound, IsState
  <2> QED
    BY <2>1, <2>2, <2>3, <2>4
<1>5. Rounds \in S
  <2> HIDE DEF S
  <2> QED
    BY <1>2, <1>3, <1>4, Induction
<1> QED
  BY <1>1, <1>2, <1>5, PhaseBinds

\* Lookups find the same while the world is the same.
LEMMA SameSearch ==
  ASSUME world' = world
  PROVE  \A tool, mode, query : Search(tool, mode, query)' = Search(tool, mode, query)
  BY DEF Search, IdsOf

\* What a transcript proves does not change with a plan of the same words.
LEMMA SameWords ==
  ASSUME world' = world, plan'.refs = plan.refs
  PROVE  \A log : LookupsOK(log)' <=> LookupsOK(log)
<1>1. \A i, mode : Query(i, mode)' = Query(i, mode)
  BY DEF Query
<1>2. \A i, mode : Looked(i, mode)' = Looked(i, mode)
  BY <1>1, SameSearch DEF Looked
<1>3. \A i, mode : Climbed(i, mode)' <=> Climbed(i, mode)
  BY SameSearch DEF Climbed, Words
<1>4. \A r, i : Proves(r, i)' <=> Proves(r, i)
  BY <1>1, <1>2 DEF Proves, IsEntity
<1>5. \A log, n, i : IsBoundBy(log, n, i)' <=> IsBoundBy(log, n, i)
  BY <1>4 DEF IsBoundBy, FromContext
<1>6. \A r : Asked(r)' <=> Asked(r)
  BY <1>1, <1>3 DEF Asked, FromContext
<1>7. \A log, n : LookupOK(log, n)' <=> LookupOK(log, n)
  BY <1>5, <1>6 DEF LookupOK, IsEntity, Refs
<1> QED
  BY <1>7 DEF LookupsOK

\* The mode that is due comes after those that found nothing.
LEMMA NextIsClimbed ==
  ASSUME NEW i, NextMode(i, plan.refs[i].tool) \in Modes
  PROVE  Climbed(i, NextMode(i, plan.refs[i].tool))
<1> DEFINE tool == plan.refs[i].tool
           mode == NextMode(i, tool)
           words == [mention |-> plan.refs[i].mention, canonical |-> None]
           tried(m) == \E r \in Attempts(i, tool) : r.call.mode = m
           empty(m) == Search(tool, m, words) = {}
<1>1. mode = IF tried("cross_language_exact") THEN None
             ELSE IF ~tried("exact") THEN "exact"
             ELSE IF ~empty("exact") THEN None
             ELSE IF ~tried("fuzzy") THEN "fuzzy"
             ELSE IF ~empty("fuzzy") THEN None
             ELSE IF plan.refs[i].canonical \in {None, plan.refs[i].mention} THEN None
             ELSE "cross_language_exact"
  BY DEF NextMode
<1>2. /\ Search(tool, "exact", words) = Search(tool, "exact", Words(i))
      /\ Search(tool, "fuzzy", words) = Search(tool, "fuzzy", Words(i))
  BY DEF Search, Words
<1> HIDE DEF tried, mode
<1>3. mode \in Modes /\ mode # None
  BY NoneAssumption DEF mode
<1>4. /\ mode # "exact" => empty("exact")
      /\ mode = "cross_language_exact" => empty("fuzzy") /\ plan.refs[i].canonical # None
  BY <1>1, <1>3
<1> QED
  BY <1>2, <1>3, <1>4 DEF Climbed, mode

\* What an entity contract asks, once names are bound as receipts prove.
LEMMA EntityContract ==
  ASSUME PlanOK, NEW s, NEW log, NEW n \in Nat, \A m \in 1..n : LookupOK(log, m),
         s.bind = [i \in Refs(plan) |-> BoundBy(log, n, i)],
         NEW c \in Contracts(s), c.tool \in EntityTools
  PROVE  /\ c.refs # {} /\ c.refs \subseteq Refs(plan)
         /\ \/ /\ c.ids = {}
               /\ \A i \in c.refs : /\ ~FromContext(plan, i) /\ plan.refs[i].tool = c.tool
                                    /\ Climbed(i, c.mode)
               /\ \A q \in c.queries : \E i \in c.refs : q = Query(i, c.mode)
            \/ c.queries = {} /\ \A i \in c.refs : IsBoundBy(log, n, i)
<1>1. \A t \in EntityTasks(plan) : plan.tasks[t].refs # {} /\ plan.tasks[t].refs \subseteq Refs(plan)
  BY DEF PlanOK, LegalPlan, TasksAreWellFormed, EntityTasks
<1>2. c \notin RelationContracts(s, GoalResults(s))
  BY DEF RelationContracts, RelationContract, EntityTools
<1>3. CASE c \in QueryContracts(s)
  <2>1. PICK tool \in EntityTools, mode \in Modes : c = QueryContract(tool, mode, Wanted(s, tool, mode))
    BY <1>3 DEF QueryContracts
  <2> DEFINE wanted == Wanted(s, tool, mode)
  <2>2. /\ c.tool = tool /\ c.mode = mode /\ c.ids = {}
        /\ c.queries = {Query(w[2], mode) : w \in wanted}
        /\ c.tasks = {w[1] : w \in wanted} /\ c.refs = {w[2] : w \in wanted}
    BY <2>1 DEF QueryContract
  <2>3. c.tasks # {}
    BY <1>2 DEF Contracts
  <2>4. ASSUME NEW w \in wanted
        PROVE  /\ w[2] \in Refs(plan) /\ ~FromContext(plan, w[2])
               /\ plan.refs[w[2]].tool = tool /\ Climbed(w[2], mode)
    <3>1. /\ w[1] \in EntityTasks(plan) /\ plan.tasks[w[1]].tool = tool
          /\ w[2] \in plan.tasks[w[1]].refs /\ s.bind[w[2]] = None /\ w[2] \in Refs(plan)
          /\ NextMode(w[2], tool) = mode
      BY DEF Wanted, ReadyLookups, Unresolved
    <3>2. plan.refs[w[2]].tool = tool
      BY <3>1 DEF PlanOK, LegalPlan, LookupsAreBatched, MayLookUp
    <3>3. BoundBy(log, n, w[2]) = None
      BY <3>1
    <3>4. ~FromContext(plan, w[2])
      BY <3>3 DEF BoundBy, FromContext
    <3> QED
      BY <3>1, <3>2, <3>4, NextIsClimbed
  <2> HIDE DEF wanted
  <2> QED
    BY <2>2, <2>3, <2>4
<1>4. CASE c \in IdContracts(s)
  <2>1. PICK tool \in EntityTools :
           c = IdContract(s, tool, {t \in ReadyLookups(s) : /\ plan.tasks[t].tool = tool
                                                            /\ Unresolved(s, t) = {}})
    BY <1>4 DEF IdContracts
  <2> DEFINE wanting == {t \in ReadyLookups(s) : plan.tasks[t].tool = tool /\ Unresolved(s, t) = {}}
  <2>2. /\ c.queries = {} /\ c.tasks = wanting
        /\ c.refs = UNION {plan.tasks[t].refs : t \in wanting}
    BY <2>1 DEF IdContract
  <2>3. wanting # {}
    BY <1>2, <2>2 DEF Contracts
  <2>4. ASSUME NEW t \in wanting, NEW i \in plan.tasks[t].refs
        PROVE  IsBoundBy(log, n, i)
    <3>1. t \in EntityTasks(plan) /\ s.bind[i] # None
      BY <2>4 DEF ReadyLookups, Unresolved
    <3>2. i \in Refs(plan)
      BY <1>1, <3>1
    <3>3. BoundBy(log, n, i) # None
      BY <3>1, <3>2
    <3> QED
      BY <3>3, BoundIsMeant
  <2>5. wanting \subseteq EntityTasks(plan)
    BY DEF ReadyLookups
  <2> HIDE DEF wanting
  <2> QED
    BY <1>1, <2>2, <2>3, <2>4, <2>5
<1> QED
  BY <1>2, <1>3, <1>4 DEF Contracts

\* What receipts bind is told by these receipts alone.
LEMMA SamePrefix ==
  ASSUME NEW log, NEW short, NEW n, \A m \in 1..n : log[m] = short[m], NEW i
  PROVE  IsBoundBy(log, n, i) <=> IsBoundBy(short, n, i)
  BY DEF IsBoundBy

\* The receipt of a call that may be made is that of a lookup as it should be.
LEMMA LookupMade ==
  ASSUME PlanOK, NEW s, NEW log, NEW n \in Nat, \A m \in 1..n : LookupOK(log, m),
         s.bind = [i \in Refs(plan) |-> BoundBy(log, n, i)],
         NEW call \in Calls(Contracts(s)), NEW success,
         log[n + 1] = Receipt(call, Contracts(s), success)
  PROVE  LookupOK(log, n + 1)
<1> DEFINE r == log[n + 1]
           matching == {c \in Contracts(s) : Fits(call, c)}
<1>1. /\ r.call = call /\ r.refs = UNION {c.refs : c \in matching}
  BY DEF Receipt
<1>2. matching # {}
  BY DEF Calls
<1> SUFFICES ASSUME IsEntity(r)
             PROVE  /\ r.refs # {} /\ r.refs \subseteq Refs(plan)
                    /\ call.queries # {} => Asked(r)
                    /\ call.queries = {} => \A i \in r.refs : IsBoundBy(log, n, i)
  BY <1>1 DEF LookupOK
<1>3. call.tool \in EntityTools /\ "relations" \notin EntityTools
  BY <1>1 DEF IsEntity, EntityTools
<1>4. ASSUME NEW c \in matching
      PROVE  /\ c.refs # {} /\ c.refs \subseteq Refs(plan)
             /\ call.queries \subseteq c.queries /\ call.ids \subseteq c.ids
             /\ call.queries \cup call.ids # {} /\ call.tool = c.tool /\ call.mode = c.mode
             /\ \/ /\ c.ids = {}
                   /\ \A i \in c.refs : /\ ~FromContext(plan, i) /\ plan.refs[i].tool = c.tool
                                        /\ Climbed(i, c.mode)
                   /\ \A q \in c.queries : \E i \in c.refs : q = Query(i, c.mode)
                \/ c.queries = {} /\ \A i \in c.refs : IsBoundBy(log, n, i)
  <2>1. /\ call.tool = c.tool /\ call.mode = c.mode
        /\ call.queries \subseteq c.queries /\ call.ids \subseteq c.ids
        /\ call.queries \cup call.ids # {}
    BY <1>3 DEF Fits
  <2>2. c \in Contracts(s) /\ c.tool \in EntityTools
    BY <1>3, <2>1
  <2> HIDE DEF matching
  <2> QED
    BY <2>1, <2>2, EntityContract
<1> HIDE DEF matching
<1>5. r.refs # {} /\ r.refs \subseteq Refs(plan)
  BY <1>1, <1>2, <1>4
<1>6. ASSUME call.queries # {} PROVE Asked(r)
  <2>1. \A c \in matching :
           /\ call.ids = {}
           /\ \A i \in c.refs : /\ ~FromContext(plan, i) /\ plan.refs[i].tool = call.tool
                                /\ Climbed(i, call.mode)
           /\ \A q \in call.queries : \E i \in c.refs : q = Query(i, call.mode)
    BY <1>4, <1>6
  <2> QED
    BY <1>1, <1>2, <2>1 DEF Asked
<1>7. ASSUME call.queries = {}, NEW i \in r.refs PROVE IsBoundBy(log, n, i)
  <2>1. PICK c \in matching : i \in c.refs
    BY <1>1, <1>7
  <2> QED
    BY <1>4, <1>7, <2>1
<1> QED
  BY <1>5, <1>6, <1>7

-----------------------------------------------------------------------------
(* What lookups are in a transcript.                                       *)

\* What the loop keeps true of its transcript: entity receipts name lookups, and
\* each was asked for in the order in which names are to be looked up.
LookupInv == TranscriptInv /\ LookupsOK(transcript)

\* LookupInv is inductive: a receipt is that of a contract, and a replan keeps
\* the words of all names.
LEMMA LookupInvInit == Init => LookupInv
<1>1. Init => LookupsOK(transcript)
  BY DEF Init, LookupsOK
<1> QED
  BY <1>1, TranscriptInvInit DEF LookupInv

LEMMA LookupInvStep ==
  ASSUME TaskIdsAreKept, ProfilesAreTyped, RefsAreKept, NamesAreApart
  PROVE  LookupInv /\ [Next]_vars => LookupInv'
<1> SUFFICES ASSUME LookupInv, [Next]_vars PROVE LookupInv'
  OBVIOUS
<1>1. TranscriptInv'
  BY TranscriptInvStep DEF LookupInv
<1>2. PlanOK /\ NamesApart(plan) /\ LogOK(transcript)
  BY PlanOfQuestion, TranscriptIsLog DEF LookupInv, TranscriptInv, NamesAreApart
<1>3. CASE CallTool
  <2> DEFINE s == Snapshot(transcript)
             l == Len(transcript)
  <2>1. PICK call \in Calls(Contracts(s)), success \in BOOLEAN :
           transcript' = Append(transcript, Receipt(call, Contracts(s), success))
    BY <1>3 DEF CallTool
  <2>2. PICK log : log = transcript'
    OBVIOUS
  <2>3. /\ l \in Nat /\ Len(log) = l + 1 /\ \A m \in 1..l : log[m] = transcript[m]
        /\ log[l + 1] = Receipt(call, Contracts(s), success)
    BY <2>1, <2>2 DEF LookupInv, TranscriptInv
  <2>4. \A m \in 1..l : LookupOK(transcript, m)
    BY DEF LookupInv, LookupsOK
  <2>5. \A m \in 0..l : \A i : IsBoundBy(log, m, i) <=> IsBoundBy(transcript, m, i)
    BY <2>3, SamePrefix
  <2>6. \A m \in 1..l : LookupOK(log, m)
    <3> TAKE m \in 1..l
    <3>1. m - 1 \in 0..l /\ log[m] = transcript[m] /\ LookupOK(transcript, m)
      BY <2>3, <2>4
    <3> QED
      BY <2>5, <3>1 DEF LookupOK
  <2>7. s.bind = [i \in Refs(plan) |-> BoundBy(log, l, i)]
    <3>1. s.bind = [i \in Refs(plan) |-> BoundBy(transcript, l, i)]
      BY <1>2, SnapshotBinds DEF LookupInv
    <3>2. \A i : BoundBy(log, l, i) = BoundBy(transcript, l, i)
      BY <2>3, <2>5 DEF BoundBy
    <3> QED
      BY <3>1, <3>2
  <2> HIDE DEF s
  <2>8. LookupOK(log, l + 1)
    BY <1>2, <2>1, <2>3, <2>6, <2>7, LookupMade
  <2>9. LookupsOK(log)
    BY <2>3, <2>6, <2>8 DEF LookupsOK
  <2>10. world' = world /\ plan'.refs = plan.refs
    BY <1>3 DEF CallTool
  <2>11. LookupsOK(log)'
    BY <2>9, <2>10, SameWords
  <2> QED
    BY <1>1, <2>2, <2>11 DEF LookupInv
<1>4. CASE Replan
  <2>1. plan' \in question /\ plan \in question /\ question \in Questions
    BY <1>4 DEF Replan, LookupInv, TranscriptInv
  <2>2. plan'.refs = plan.refs
    BY <2>1 DEF RefsAreKept
  <2>3. world' = world /\ transcript' = transcript
    BY <1>4 DEF Replan
  <2> QED
    BY <1>1, <2>2, <2>3, SameWords DEF LookupInv
<1>5. CASE Duplicate \/ Reject \/ GiveUp \/ Finish \/ UNCHANGED vars
  <2>1. world' = world /\ plan' = plan /\ transcript' = transcript
    BY <1>5 DEF Duplicate, Reject, GiveUp, Finish, vars
  <2> QED
    BY <1>1, <2>1, SameWords DEF LookupInv
<1> QED
  BY <1>3, <1>4, <1>5 DEF Next

-----------------------------------------------------------------------------
(* What a finished plan comes to.                                          *)

\* The answer to a goal needs only those it takes results of.
LEMMA SameTruthInputs ==
  ASSUME NEW g, NEW a, NEW b, \A d \in plan.goals[g].inputs : a[d] = b[d]
  PROVE  GoalTruth(g, a) = GoalTruth(g, b)
<1>1. {a[d] : d \in plan.goals[g].inputs} = {b[d] : d \in plan.goals[g].inputs}
  OBVIOUS
<1> QED
  BY <1>1 DEF GoalTruth

\* What the recursion of Truth comes to.
LEMMA TruthUnfold ==
  ASSUME PlanOK
  PROVE  Truth = [g \in Goals(plan) |-> GoalTruth(g, Truth)]
<1> DEFINE l == Len(plan.goals)
           Are(f, n) == f = [g \in 1..n |-> GoalTruth(g, f)]
           S == {n \in Nat : n <= l => \E f : Are(f, n)}
<1>1. /\ l \in Nat /\ Goals(plan) = 1..l
      /\ \A g \in 1..l : plan.goals[g].inputs \subseteq 1..(g - 1)
  BY DEF PlanOK, LegalPlan, GoalsAreCoherent
<1> HIDE DEF l
<1>2. 0 \in S
  <2> DEFINE f == [g \in 1..0 |-> 0]
  <2>1. Are(f, 0)
    OBVIOUS
  <2> QED
    BY <2>1
<1>3. ASSUME NEW n \in Nat, n \in S PROVE n + 1 \in S
  <2> SUFFICES ASSUME n + 1 <= l PROVE \E f : Are(f, n + 1)
    OBVIOUS
  <2>1. n <= l
    BY <1>1
  <2>2. PICK f : Are(f, n)
    BY <1>3, <2>1
  <2> DEFINE next == [g \in 1..(n + 1) |-> GoalTruth(g, f)]
  <2>3. \A g \in 1..n : next[g] = f[g]
    BY <2>2
  <2>4. \A g \in 1..(n + 1) : GoalTruth(g, next) = GoalTruth(g, f)
    <3> SUFFICES ASSUME NEW g \in 1..(n + 1)
                 PROVE  GoalTruth(g, next) = GoalTruth(g, f)
      OBVIOUS
    <3>1. g \in 1..l /\ \A d \in 1..(g - 1) : d \in 1..n
      BY <1>1
    <3>2. \A d \in plan.goals[g].inputs : next[d] = f[d]
      BY <1>1, <2>3, <3>1
    <3> HIDE DEF next
    <3> QED
      BY <3>2, SameTruthInputs
  <2>5. Are(next, n + 1)
    BY <2>4
  <2> QED
    BY <2>5
<1>4. l \in S
  BY <1>1, <1>2, <1>3, Induction
<1>5. \E f : Are(f, l)
  BY <1>1, <1>4
<1>6. Truth = CHOOSE f : f = [g \in 1..l |-> GoalTruth(g, f)]
  BY <1>1 DEF Truth
<1>7. Truth = CHOOSE f : Are(f, l)
  BY <1>6
<1> HIDE DEF Are
<1>8. Are(Truth, l)
  BY <1>5, <1>7
<1> QED
  BY <1>1, <1>8 DEF Are

\* The relations of some types that the world holds of subjects.
FactsFrom(subjects, types) ==
    {f \in world.facts : f.source \in subjects /\ f.type \in types}

GoalSubjects(s, g) ==
    BoundTo(s, plan.goals[g].refs)
      \cup UNION {GoalResults(s)[d].entities : d \in plan.goals[g].inputs}

\* Tasks that have the same facts have these together.
LEMMA AlikeFacts ==
  ASSUME NEW s, NEW tasks, tasks # {}, NEW F, \A t \in tasks : FactsOf(s, t) = F
  PROVE  Facts(s, tasks) = F
<1>1. {FactsOf(s, t) : t \in tasks} = {F}
  OBVIOUS
<1> QED
  BY <1>1, FactsOfTasks

\* The tasks of a control goal are of two kinds, and there is one of each.
LEMMA ControlTasks ==
  ASSUME PlanOK, NEW g \in Goals(plan), plan.goals[g].intent = "controlled_companies"
  PROVE  /\ plan.goals[g].types = {"controls"}
         /\ ExplicitTasks(g) = {t \in RelationsOf(g) : IsExplicit(plan, t)}
         /\ ExplicitTasks(g) # {} /\ RelationsOf(g) \ ExplicitTasks(g) # {}
         /\ \A t \in ExplicitTasks(g) : RelationTypes(plan, t) = {"controls"}
         /\ \A t \in RelationsOf(g) \ ExplicitTasks(g) : RelationTypes(plan, t) = ControlFallbackTypes
<1>1. plan.goals[g].types = {"controls"}
  BY DEF PlanOK, LegalPlan, GoalsAreCoherent
<1>2. RelationsOf(g) = {t \in RelationTasks(plan) : plan.tasks[t].goal = g}
  BY RelationsOfGoal DEF Profiles
<1>3. ExplicitTasks(g) = {t \in RelationsOf(g) : IsExplicit(plan, t)}
  BY <1>2 DEF ExplicitTasks
<1>4. PICK explicit \in RelationsOf(g), fallback \in RelationsOf(g) :
         plan.tasks[explicit].scope = "control_explicit" /\ plan.tasks[fallback].scope = "control_fallback"
  <2>1. \E explicit, fallback \in {t \in RelationTasks(plan) : plan.tasks[t].goal = g} :
           /\ {t \in {x \in RelationTasks(plan) : plan.tasks[x].goal = g} :
                  plan.tasks[t].scope = "control_explicit"} = {explicit}
           /\ {t \in {x \in RelationTasks(plan) : plan.tasks[x].goal = g} :
                  plan.tasks[t].scope = "control_fallback"} = {fallback}
    BY DEF PlanOK, LegalPlan, GoalsAreRealised, Profiles
  <2> QED
    BY <1>2, <2>1
<1>5. \A t \in RelationsOf(g) : /\ t \in RelationTasks(plan) /\ plan.tasks[t].goal = g
                                /\ RelationTypes(plan, t) \in {{"controls"}, ControlFallbackTypes}
  BY <1>1, <1>2 DEF RelationTypes
<1>6. {"controls"} # ControlFallbackTypes
  BY DEF ControlFallbackTypes
<1>7. explicit \in ExplicitTasks(g) /\ fallback \notin ExplicitTasks(g)
  BY <1>3, <1>4, <1>5, <1>6 DEF IsExplicit, RelationTypes
<1> QED
  BY <1>1, <1>3, <1>4, <1>5, <1>7 DEF IsExplicit

\* What a goal's tasks have found of its subjects, once all are complete.
LEMMA FactsOfGoal ==
  ASSUME PlanOK, NEW s, Sound(s), NEW g \in Goals(plan), plan.goals[g].intent \notin Profiles,
         RelationsOf(g) \subseteq s.completed
  PROVE  ActiveFacts(s, g) =
            IF /\ plan.goals[g].intent = "controlled_companies"
               /\ FactsFrom(GoalSubjects(s, g), {"controls"}) = {}
            THEN FactsFrom(GoalSubjects(s, g), ControlFallbackTypes)
            ELSE FactsFrom(GoalSubjects(s, g), plan.goals[g].types)
<1> DEFINE R == RelationsOf(g)
           subjects == GoalSubjects(s, g)
<1>1. ASSUME NEW t \in R, ~FallbackNotRequired(s, t)
      PROVE  FactsOf(s, t) = FactsFrom(subjects, RelationTypes(plan, t))
  <2>1. t \in RelationTasks(plan) /\ plan.tasks[t].goal = g /\ plan.tasks[t].refs = plan.goals[g].refs
    BY RelationsOfGoal DEF RelationsOf
  <2>2. FactsOf(s, t) = Matching(RelationCall(s, t, GoalResults(s)))
    BY <1>1, <2>1 DEF Sound, Settled
  <2>3. Subjects(s, t, GoalResults(s)) = subjects
    BY <2>1 DEF Subjects, GoalSubjects
  <2>4. Matching(RelationCall(s, t, GoalResults(s))) = FactsFrom(subjects, RelationTypes(plan, t))
    BY <2>3 DEF Matching, RelationCall, FactsFrom
  <2> QED
    BY <2>2, <2>4
<1>2. R # {} /\ \A t \in R : t \in RelationTasks(plan) /\ plan.tasks[t].goal = g
  BY RelationsOfGoal DEF RelationsOf
<1>3. CASE plan.goals[g].intent # "controlled_companies"
  <2>1. \A t \in R : RelationTypes(plan, t) = plan.goals[g].types
    <3>1. PICK t \in RelationTasks(plan) :
             /\ {x \in RelationTasks(plan) : plan.tasks[x].goal = g} = {t}
             /\ plan.tasks[t].scope = "goal"
      BY <1>3 DEF PlanOK, LegalPlan, GoalsAreRealised
    <3>2. \A x \in R : x = t
      BY <1>2, <3>1
    <3> QED
      BY <1>2, <3>1, <3>2 DEF RelationTypes
  <2>2. \A t \in R : ~FallbackNotRequired(s, t)
    BY <1>2, <1>3 DEF FallbackNotRequired
  <2>3. \A t \in R : FactsOf(s, t) = FactsFrom(subjects, plan.goals[g].types)
    BY <1>1, <2>1, <2>2
  <2> HIDE DEF R
  <2>4. Facts(s, R) = FactsFrom(subjects, plan.goals[g].types)
    BY <1>2, <2>3, AlikeFacts
  <2> QED
    BY <1>3, <2>4 DEF ActiveFacts, ActiveTasks, R
<1>4. CASE plan.goals[g].intent = "controlled_companies"
  <2> DEFINE explicit == ExplicitTasks(g)
             rest == R \ explicit
  <2>1. /\ plan.goals[g].types = {"controls"}
        /\ explicit = {t \in R : IsExplicit(plan, t)} /\ explicit # {} /\ rest # {}
        /\ \A t \in explicit : RelationTypes(plan, t) = {"controls"}
        /\ \A t \in rest : RelationTypes(plan, t) = ControlFallbackTypes
    BY <1>4, ControlTasks
  <2> HIDE DEF R, explicit
  <2>2. \A t \in explicit : t \in R /\ ~FallbackNotRequired(s, t)
    BY <1>2, <2>1, ExplicitIsNeeded DEF explicit
  <2>3. \A t \in explicit : FactsOf(s, t) = FactsFrom(subjects, {"controls"})
    BY <1>1, <2>1, <2>2
  <2>4. Facts(s, explicit) = FactsFrom(subjects, {"controls"})
    BY <2>1, <2>3, AlikeFacts
  <2>5. CASE FactsFrom(subjects, {"controls"}) # {}
    <3>1. ActiveFacts(s, g) = Facts(s, explicit)
      BY <1>4, <2>1, <2>4, <2>5 DEF ActiveFacts, ActiveTasks, R
    <3> QED
      BY <2>1, <2>4, <2>5, <3>1
  <2>6. CASE FactsFrom(subjects, {"controls"}) = {}
    <3>1. ActiveFacts(s, g) = Facts(s, rest)
      BY <1>4, <2>1, <2>4, <2>6 DEF ActiveFacts, ActiveTasks, R
    <3>2. \A t \in rest : t \in R /\ ~FallbackNotRequired(s, t)
      BY <1>2, <2>4, <2>6 DEF FallbackNotRequired, explicit
    <3>3. \A t \in rest : FactsOf(s, t) = FactsFrom(subjects, ControlFallbackTypes)
      BY <1>1, <2>1, <3>2
    <3> HIDE DEF rest
    <3>4. Facts(s, rest) = FactsFrom(subjects, ControlFallbackTypes)
      BY <2>1, <3>3, AlikeFacts
    <3> QED
      BY <1>4, <2>6, <3>1, <3>4
  <2> QED
    BY <2>5, <2>6
<1> QED
  BY <1>3, <1>4

\* When every task is complete, every goal has what the question asks for.
LEMMA ResultsAreTrue ==
  ASSUME PlanOK, ProfileIsNamed(plan), NEW s, Sound(s), AllComplete(s),
         \A i \in Refs(plan) : s.bind[i] \in {None, Meant(plan.refs[i])}
  PROVE  \A g \in Goals(plan) : GoalResults(s)[g].complete /\ GoalResults(s)[g].entities = Truth[g]
<1> DEFINE l == Len(plan.goals)
           a == GoalResults(s)
           S == {g \in 1..l : a[g].complete /\ a[g].entities = Truth[g]}
<1>1. /\ l \in Nat /\ Goals(plan) = 1..l
      /\ \A g \in 1..l : /\ plan.goals[g].depends \subseteq 1..(g - 1)
                         /\ plan.goals[g].refs \cup plan.goals[g].inputs # {}
  BY DEF PlanOK, LegalPlan, GoalsAreCoherent
<1> HIDE DEF l
<1>2. ASSUME NEW g \in 1..l, \A h \in 1..(g - 1) : h \in S
      PROVE  g \in S
  <2> DEFINE goal == plan.goals[g]
             subjects == GoalSubjects(s, g)
  <2>1. /\ goal.refs \subseteq Refs(plan) /\ goal.inputs \subseteq goal.depends
        /\ goal.depends \subseteq 1..(g - 1) /\ g \in Goals(plan)
    BY <1>1, RelationsOfGoal
  <2>2. /\ a[g] = GoalResult(s, g, a) /\ Truth[g] = GoalTruth(g, Truth)
    BY <2>1, ResultsUnfold, TruthUnfold
  <2>3. TasksForGoal(plan, g) # {} /\ TasksForGoal(plan, g) \subseteq s.completed
    <3>1. TasksForGoal(plan, g) \subseteq Tasks(plan)
      BY DEF TasksForGoal, Covering, EntityTasks
    <3>2. TasksForGoal(plan, g) # {}
      BY <1>1, <2>1, LookupOfProfile, RelationsOfGoal DEF RelationsOf, ProfileIsNamed
    <3> QED
      BY <3>1, <3>2 DEF AllComplete
  <2>4. a[g].complete
    <3>1. \A d \in goal.depends : a[d].complete
      BY <1>2, <2>1
    <3> QED
      BY <2>2, <2>3, <3>1 DEF GoalResult
  <2>5. subjects = {Meant(plan.refs[i]) : i \in goal.refs} \cup UNION {Truth[d] : d \in goal.inputs}
    <3>1. \A i \in goal.refs : s.bind[i] # None /\ s.bind[i] = Meant(plan.refs[i])
      BY <2>1, <2>4, GoalIsBound DEF a
    <3>2. BoundTo(s, goal.refs) = {Meant(plan.refs[i]) : i \in goal.refs}
      BY <3>1 DEF BoundTo
    <3>3. {a[d].entities : d \in goal.inputs} = {Truth[d] : d \in goal.inputs}
      BY <1>2, <2>1
    <3> QED
      BY <3>2, <3>3 DEF GoalSubjects, a
  <2>6. CASE goal.intent \in Profiles
    <3>1. RelationsOf(g) = {} /\ goal.inputs = {}
      BY <2>1, <2>6, RelationsOfGoal DEF ProfileIsNamed
    <3>2. a[g].entities = BoundTo(s, goal.refs)
      BY <2>2, <2>4, <3>1 DEF GoalResult, RelationsOf
    <3>3. Truth[g] = {Meant(plan.refs[i]) : i \in goal.refs} \cup UNION {Truth[d] : d \in goal.inputs}
      BY <2>2, <2>6 DEF GoalTruth
    <3>4. subjects = BoundTo(s, goal.refs)
      BY <3>1 DEF GoalSubjects
    <3> QED
      BY <2>4, <2>5, <3>2, <3>3, <3>4
  <2>7. CASE goal.intent \notin Profiles
    <3>1. RelationsOf(g) # {} /\ RelationsOf(g) \subseteq s.completed
      BY <2>1, <2>3, <2>7, RelationsOfGoal DEF RelationsOf
    <3>2. a[g].entities = Project(goal, subjects, ActiveFacts(s, g))
      BY <2>2, <2>4, <3>1 DEF GoalResult, RelationsOf, ActiveFacts, GoalSubjects, a
    <3> DEFINE facts(types) == FactsFrom(subjects, types)
    <3>3. Truth[g] = IF goal.intent = "controlled_companies" /\ facts({"controls"}) = {}
                     THEN Project(goal, subjects, facts(ControlFallbackTypes))
                     ELSE Project(goal, subjects, facts(goal.types))
      BY <2>2, <2>5, <2>7 DEF GoalTruth, FactsFrom
    <3>4. ActiveFacts(s, g) = IF goal.intent = "controlled_companies" /\ facts({"controls"}) = {}
                              THEN facts(ControlFallbackTypes) ELSE facts(goal.types)
      BY <2>1, <2>7, <3>1, FactsOfGoal
    <3> HIDE DEF facts, subjects
    <3> QED
      BY <2>4, <3>2, <3>3, <3>4
  <2> QED
    BY <2>6, <2>7
<1>3. \A g \in 1..l : (\A h \in 1..(g - 1) : h \in S) => g \in S
  BY <1>2
<1> HIDE DEF S
<1>4. 1..l \subseteq S
  BY <1>1, <1>3, Smallest
<1> QED
  BY <1>1, <1>4 DEF S, a

\* What the loop knows of the snapshot of its transcript.
LEMMA SnapshotOfTranscript ==
  ASSUME TaskIdsAreKept, ProfilesAreTyped, NamesAreApart, LookupInv
  PROVE  /\ PlanOK /\ plan \in question /\ question \in Questions
         /\ Sound(Snapshot(transcript))
         /\ Snapshot(transcript).bind
               = [i \in Refs(plan) |-> BoundBy(transcript, Len(transcript), i)]
         /\ \A i \in Refs(plan) :
               Snapshot(transcript).bind[i] \in {None, Meant(plan.refs[i])}
<1>1. PlanOK /\ NamesApart(plan) /\ LogOK(transcript) /\ plan \in question /\ question \in Questions
  BY PlanOfQuestion, TranscriptIsLog DEF LookupInv, TranscriptInv, NamesAreApart
<1>2. /\ Sound(Snapshot(transcript))
      /\ Snapshot(transcript).bind = [i \in Refs(plan) |-> BoundBy(transcript, Len(transcript), i)]
  BY <1>1, SnapshotBinds DEF LookupInv
<1>3. Len(transcript) \in Nat /\ \A m \in 1..Len(transcript) : LookupOK(transcript, m)
  BY DEF LookupInv, LookupsOK
<1>4. \A i \in Refs(plan) : BoundBy(transcript, Len(transcript), i) \in {None, Meant(plan.refs[i])}
  BY <1>3, BoundIsMeant
<1> QED
  BY <1>1, <1>2, <1>4

\* A step that ends research in an answer ends it in the true one.
LEMMA FinishStep ==
  ASSUME TaskIdsAreKept, ProfilesAreTyped, ProfilesAreNamed, NamesAreApart,
         LookupInv, Next, run_status = "running", run_status' \in {"finish", "no_results"}
  PROVE  /\ \A g \in Goals(plan) : GoalResults(Snapshot(transcript))[g].entities = Truth[g]
         /\ run_status' = "finish" <=> \E g \in Goals(plan) : Truth[g] # {}
<1> DEFINE s == Snapshot(transcript)
<1>1. Finish
  BY DEF Next, CallTool, Duplicate, Reject, GiveUp, Finish, Replan
<1>2. /\ AllComplete(s)
      /\ run_status' = IF ResultNonempty(GoalResults(s)) THEN "finish" ELSE "no_results"
  BY <1>1 DEF Finish
<1>3. /\ PlanOK /\ plan \in question /\ question \in Questions /\ Sound(s)
      /\ \A i \in Refs(plan) : s.bind[i] \in {None, Meant(plan.refs[i])}
  BY SnapshotOfTranscript
<1>4. ProfileIsNamed(plan)
  BY <1>3 DEF ProfilesAreNamed
<1> HIDE DEF s
<1>5. \A g \in Goals(plan) : GoalResults(s)[g].complete /\ GoalResults(s)[g].entities = Truth[g]
  BY <1>2, <1>3, <1>4, ResultsAreTrue
<1>6. ResultNonempty(GoalResults(s)) <=> \E g \in Goals(plan) : Truth[g] # {}
  BY <1>5 DEF ResultNonempty
<1>7. run_status' = "finish" <=> ResultNonempty(GoalResults(s))
  BY <1>2
<1> QED
  BY <1>5, <1>6, <1>7 DEF s

\* For all questions of this kind, worlds and numbers of calls: research that
\* ends in finish or no_results has found, for every goal, exactly what the
\* question asks for, whatever calls failed, were split or were made for an
\* earlier plan (_snapshot, _build_goal_results, _finish).
THEOREM FinishHolds ==
  ASSUME TaskIdsAreKept, ProfilesAreTyped, ProfilesAreNamed, RefsAreKept, NamesAreApart
  PROVE  Spec => FinishedIsTrue
<1>1. LookupInv /\ [Next]_vars =>
         [run_status = "running" /\ run_status' \in {"finish", "no_results"} =>
             LET results == GoalResults(Snapshot(transcript))
             IN  /\ \A g \in Goals(plan) : results[g].entities = Truth[g]
                 /\ run_status' = "finish" <=> \E g \in Goals(plan) : Truth[g] # {}]_vars
  BY FinishStep
<1> QED
  BY <1>1, LookupInvInit, LookupInvStep, PTL DEF Spec, FinishedIsTrue

-----------------------------------------------------------------------------
(* The rounds of a snapshot end where another changes nothing.             *)

IsRecord(s) ==
    /\ s = [bind |-> s.bind, receipts |-> s.receipts, completed |-> s.completed]
    /\ s.completed \subseteq Tasks(plan)

\* A phase is a record of tasks of the plan.
LEMMA PhaseIsRecord ==
  ASSUME NEW log, Len(log) \in Nat
  PROVE  IsRecord(EntityPhase(log))
<1> DEFINE l == Len(log)
<1>1. PICK f : /\ EntityPhase(log) = f[l] /\ f[0] = PhaseStart
               /\ \A n \in 1..l : f[n] = PhaseStep(f[n - 1], log[n])
  BY PhaseUnfold
<1> DEFINE S == {n \in Nat : n <= l => IsRecord(f[n])}
<1>2. 0 \in S
  BY <1>1 DEF PhaseStart, IsRecord
<1>3. ASSUME NEW s, IsRecord(s), NEW r PROVE IsRecord(PhaseStep(s, r))
  <2> DEFINE u == AddEntityReceipt(s, r)
             matched == {i \in Candidates(r) : MayBind(s.bind, i, Proof(r, i))}
             tasks == IF r.tasks \cap Tasks(plan) # {} THEN r.tasks \cap Tasks(plan)
                      ELSE {t \in Tasks(plan) : /\ plan.tasks[t].tool = r.call.tool
                                                /\ plan.tasks[t].depends \subseteq s.completed
                                                /\ plan.tasks[t].refs \cap matched # {}}
  <2>1. /\ u = [bind |-> u.bind, receipts |-> u.receipts, completed |-> u.completed]
        /\ u.completed = s.completed \cup {t \in tasks : Satisfied(t, u.bind, u.receipts)}
    BY DEF AddEntityReceipt
  <2> HIDE DEF u
  <2>2. u.completed \subseteq Tasks(plan)
    BY <1>3, <2>1 DEF IsRecord
  <2>3. IsRecord(u)
    BY <2>1, <2>2 DEF IsRecord
  <2> QED
    BY <1>3, <2>3 DEF PhaseStep, u
<1>4. ASSUME NEW n \in Nat, n \in S PROVE n + 1 \in S
  <2> SUFFICES ASSUME n + 1 <= l PROVE IsRecord(f[n + 1])
    OBVIOUS
  <2>1. n + 1 \in 1..l /\ (n + 1) - 1 = n /\ IsRecord(f[n])
    BY <1>4
  <2>2. f[n + 1] = PhaseStep(f[n], log[n + 1])
    BY <1>1, <2>1
  <2> QED
    BY <1>3, <2>1, <2>2
<1>5. l \in S
  <2> HIDE DEF S
  <2> QED
    BY <1>2, <1>4, Induction
<1> QED
  BY <1>1, <1>5

\* A round that completes nothing changes nothing.
LEMMA RoundOnlyCompletes ==
  ASSUME NEW log, NEW s, IsRecord(s)
  PROVE  /\ IsRecord(Round(log, s))
         /\ s.completed \subseteq Skip(s).completed
         /\ Skip(s).completed \subseteq Round(log, s).completed
         /\ Round(log, s).completed = s.completed => Round(log, s) = s
<1> DEFINE u == Skip(s)
           v == Match(log, u)
           new == {t \in Open(s) : \/ FallbackNotRequired(s, t)
                                   \/ VerifiedEmptyInput(s, t, GoalResults(s))}
           callable == Callable(u, GoalResults(u))
           done == {t \in callable : Answering(log, u, t) # {}}
           more == UNION {{t} \X Answering(log, u, t) : t \in callable}
<1>1. u = [bind |-> s.bind, receipts |-> s.receipts, completed |-> s.completed \cup new]
  <2>1. u = [s EXCEPT !.completed = @ \cup new]
    BY DEF Skip
  <2>2. s = [bind |-> s.bind, receipts |-> s.receipts, completed |-> s.completed]
    BY DEF IsRecord
  <2> HIDE DEF u, new
  <2> QED
    BY <2>1, <2>2
<1>2. new \subseteq Tasks(plan) /\ callable \subseteq Tasks(plan) \ u.completed
  BY DEF Open, Callable, RelationTasks
<1> HIDE DEF u, new
<1>3. v = [bind |-> u.bind, receipts |-> u.receipts \cup more, completed |-> u.completed \cup done]
  <2>1. v = [u EXCEPT !.completed = @ \cup done, !.receipts = @ \cup more]
    BY DEF Match, Answering, Relations
  <2> HIDE DEF v, done, more
  <2> QED
    BY <1>1, <2>1
<1> HIDE DEF v, callable
<1>4. IsRecord(v)
  BY <1>1, <1>2, <1>3 DEF IsRecord
<1>5. s.completed \subseteq u.completed /\ u.completed \subseteq v.completed
  BY <1>1, <1>3
<1>6. ASSUME v.completed = s.completed PROVE v = s
  <2>1. u = s
    BY <1>1, <1>5, <1>6 DEF IsRecord
  <2>2. done = {}
    BY <1>2, <1>3, <1>6, <2>1
  <2>3. more = {}
    BY <2>2
  <2> HIDE DEF done, more
  <2> QED
    BY <1>3, <2>1, <2>2, <2>3 DEF IsRecord
<1> QED
  BY <1>4, <1>5, <1>6 DEF Round, u, v

\* As many rounds as there are tasks complete what rounds can complete.
LEMMA SnapshotIsDone ==
  ASSUME PlanOK, NEW log, Len(log) \in Nat
  PROVE  /\ IsRecord(Snapshot(log))
         /\ AllComplete(Snapshot(log)) \/ Round(log, Snapshot(log)) = Snapshot(log)
<1>1. PICK f : /\ Snapshot(log) = f[Rounds] /\ f[0] = EntityPhase(log)
               /\ \A n \in 1..Rounds : f[n] = Round(log, f[n - 1])
  BY RoundsUnfold
<1>2. IsFiniteSet(Tasks(plan)) /\ Rounds \in Nat
  BY FS_CardinalityType DEF Rounds, PlanOK, LegalPlan, TasksAreWellFormed
<1> DEFINE Far(n) == /\ IsRecord(f[n])
                     /\ Cardinality(f[n].completed) >= n \/ Round(log, f[n]) = f[n]
           S == {n \in Nat : n <= Rounds => Far(n)}
<1>3. ASSUME NEW n PROVE IsRecord(f[n]) => /\ IsFiniteSet(f[n].completed)
                                           /\ Cardinality(f[n].completed) \in Nat
  BY <1>2, FS_Subset, FS_CardinalityType DEF IsRecord
<1>4. 0 \in S
  BY <1>1, <1>3, PhaseIsRecord
<1>5. ASSUME NEW n \in Nat, n \in S PROVE n + 1 \in S
  <2> SUFFICES ASSUME n + 1 <= Rounds PROVE Far(n + 1)
    OBVIOUS
  <2>1. n + 1 \in 1..Rounds /\ (n + 1) - 1 = n /\ Far(n)
    BY <1>2, <1>5
  <2>2. f[n + 1] = Round(log, f[n])
    BY <1>1, <2>1
  <2>3. /\ IsRecord(f[n + 1]) /\ f[n].completed \subseteq f[n + 1].completed
        /\ f[n + 1].completed = f[n].completed => f[n + 1] = f[n]
    BY <2>1, <2>2, RoundOnlyCompletes
  <2>4. CASE f[n + 1].completed = f[n].completed
    BY <2>2, <2>3, <2>4
  <2>5. CASE f[n + 1].completed # f[n].completed
    <3> DEFINE A == f[n].completed
               B == f[n + 1].completed
    <3>1. /\ IsFiniteSet(B) /\ Cardinality(A) \in Nat /\ Cardinality(B) \in Nat
          /\ A \in SUBSET B /\ A # B
      BY <1>3, <2>1, <2>3, <2>5
    <3> HIDE DEF A, B
    <3>2. Cardinality(A) < Cardinality(B)
      BY <3>1, FS_Subset
    <3>3. Cardinality(A) >= n
      BY <2>1, <2>2, <2>5 DEF A
    <3> QED
      BY <2>3, <3>1, <3>2, <3>3 DEF B
  <2> QED
    BY <2>4, <2>5
<1>6. Rounds \in S
  <2> HIDE DEF S
  <2> QED
    BY <1>2, <1>4, <1>5, Induction
<1>7. Far(Rounds)
  BY <1>2, <1>6
<1>8. ASSUME Cardinality(f[Rounds].completed) >= Rounds PROVE f[Rounds].completed = Tasks(plan)
  <2> DEFINE A == f[Rounds].completed
  <2>1. A \in SUBSET Tasks(plan) /\ Cardinality(A) \in Nat /\ Cardinality(Tasks(plan)) = Rounds
    BY <1>3, <1>7 DEF IsRecord, Rounds
  <2>2. Cardinality(A) <= Cardinality(Tasks(plan))
    BY <1>2, <2>1, FS_Subset
  <2>3. Cardinality(A) = Cardinality(Tasks(plan))
    BY <1>2, <1>8, <2>1, <2>2
  <2> HIDE DEF A
  <2>4. A = Tasks(plan)
    BY <1>2, <2>1, <2>3, FS_Subset
  <2> QED
    BY <2>4 DEF A
<1> QED
  BY <1>1, <1>7, <1>8 DEF AllComplete

-----------------------------------------------------------------------------
(* Why a plan that can be done does not get stuck.                         *)

\* What a task depends on in any number of steps has an earlier turn.
LEMMA ClosureIsEarlier ==
  ASSUME PlanOK, NEW turn, \A t \in Tasks(plan) : turn[t] \in Nat,
         \A t \in Tasks(plan) : \A d \in plan.tasks[t].depends : turn[d] < turn[t],
         NEW t \in Tasks(plan)
  PROVE  \A d \in DependencyClosure(plan, t) : d \in Tasks(plan) /\ turn[d] < turn[t]
<1> DEFINE l == Cardinality(Tasks(plan))
           Next1(w) == w \cup UNION {plan.tasks[d].depends : d \in w}
           At(f, i) == IF i = 0 THEN plan.tasks[t].depends ELSE Next1(f[i - 1])
           Are(f, n) == f = [i \in 0..n |-> At(f, i)]
           S == {n \in Nat : \E f : Are(f, n)}
<1>0. l \in Nat /\ \A d \in Tasks(plan) : plan.tasks[d].depends \subseteq Tasks(plan)
  BY FS_CardinalityType DEF PlanOK, LegalPlan, TasksAreWellFormed
<1>1. 0 \in S
  <2> DEFINE f == [i \in 0..0 |-> plan.tasks[t].depends]
  <2>1. Are(f, 0)
    OBVIOUS
  <2> QED
    BY <2>1
<1>2. ASSUME NEW n \in Nat, n \in S PROVE n + 1 \in S
  <2>1. PICK f : Are(f, n)
    BY <1>2
  <2> DEFINE next == [i \in 0..(n + 1) |-> At(f, i)]
  <2> HIDE DEF At
  <2>2. \A i \in 0..n : next[i] = f[i]
    BY <2>1
  <2>3. \A i \in 0..(n + 1) : At(next, i) = At(f, i)
    <3>1. \A i \in 0..(n + 1) : i # 0 => i - 1 \in 0..n
      OBVIOUS
    <3>2. \A i \in 0..(n + 1) : i # 0 => next[i - 1] = f[i - 1]
      BY <2>2, <3>1
    <3> HIDE DEF next, Next1
    <3> QED
      BY <3>2 DEF At
  <2>4. Are(next, n + 1)
    BY <2>3
  <2> HIDE DEF next, Are
  <2>5. \E other : Are(other, n + 1)
    BY <2>4
  <2> QED
    BY <2>5
<1>3. l \in S
  BY <1>0, <1>1, <1>2, Induction
<1> DEFINE it == CHOOSE f : Are(f, l)
<1>4. Are(it, l)
  BY <1>3
<1>5. DependencyClosure(plan, t) = it[l]
  BY DEF DependencyClosure
<1> HIDE DEF it, l
<1>6. it[0] = plan.tasks[t].depends /\ \A n \in 1..l : it[n] = Next1(it[n - 1])
  BY <1>0, <1>4
<1> DEFINE Early(n) == \A d \in it[n] : d \in Tasks(plan) /\ turn[d] < turn[t]
           E == {n \in Nat : n <= l => Early(n)}
<1>7. 0 \in E
  BY <1>0, <1>6
<1>8. ASSUME NEW n \in Nat, n \in E PROVE n + 1 \in E
  <2> SUFFICES ASSUME n + 1 <= l PROVE Early(n + 1)
    OBVIOUS
  <2>1. n + 1 \in 1..l /\ (n + 1) - 1 = n /\ Early(n)
    BY <1>0, <1>8
  <2>2. it[n + 1] = it[n] \cup UNION {plan.tasks[d].depends : d \in it[n]}
    BY <1>6, <2>1
  <2> SUFFICES ASSUME NEW e \in it[n + 1]
               PROVE  e \in Tasks(plan) /\ turn[e] < turn[t]
    OBVIOUS
  <2>3. CASE e \in it[n]
    BY <2>1, <2>3
  <2>4. CASE e \notin it[n]
    <3>1. PICK d \in it[n] : e \in plan.tasks[d].depends
      BY <2>2, <2>4
    <3>2. d \in Tasks(plan) /\ turn[d] < turn[t]
      BY <2>1
    <3>3. e \in Tasks(plan) /\ turn[e] < turn[d]
      BY <1>0, <3>1, <3>2
    <3> QED
      BY <3>2, <3>3
  <2> QED
    BY <2>3, <2>4
<1>9. l \in E
  <2> HIDE DEF E
  <2> QED
    BY <1>0, <1>7, <1>8, Induction
<1> QED
  BY <1>0, <1>5, <1>9

\* A name that was looked up in some way, and is not bound, was not found in it.
LEMMA AttemptFails ==
  ASSUME NamesApart(plan), LookupInv, NEW i \in Refs(plan), ~FromContext(plan, i),
         plan.refs[i].tool \in EntityTools,
         ~IsBoundBy(transcript, Len(transcript), i),
         NEW r \in Attempts(i, plan.refs[i].tool)
  PROVE  Climbed(i, r.call.mode) /\ Looked(i, r.call.mode) = None
<1> DEFINE l == Len(transcript)
<1>1. /\ r \in ToSet(transcript) /\ r.success /\ r.call.tool = plan.refs[i].tool
      /\ r.refs # {} => i \in r.refs
  BY DEF Attempts
<1>2. PICK q \in r.call.queries : q.mention = plan.refs[i].mention
  BY DEF Attempts
<1>3. PICK m \in 1..l : r = transcript[m]
  <2>1. transcript \in Seq(ToSet(transcript)) /\ DOMAIN transcript = 1..l
    BY DEF LookupInv, TranscriptInv
  <2> QED
    BY <1>1, <2>1 DEF ToSet
<1>4. IsEntity(r) /\ LookupOK(transcript, m)
  BY <1>1 DEF IsEntity, LookupInv, LookupsOK
<1>5. Asked(r) /\ i \in r.refs /\ r.refs \subseteq Refs(plan)
  BY <1>1, <1>2, <1>3, <1>4 DEF LookupOK
<1>6. q \in r.call.queries \cap {Query(i, r.call.mode)}
  BY <1>2, <1>5, OwnQueries
<1>7. ~Proves(r, i)
  BY <1>3 DEF IsBoundBy
<1> QED
  BY <1>1, <1>4, <1>5, <1>6, <1>7 DEF Proves, Asked

\* When the ladder ends at a name that is not bound, the name means nothing.
LEMMA LadderEnds ==
  ASSUME NamesApart(plan), LookupInv, NEW i \in Refs(plan), ~FromContext(plan, i),
         plan.refs[i].tool \in EntityTools,
         ~IsBoundBy(transcript, Len(transcript), i),
         NextMode(i, plan.refs[i].tool) \notin Modes
  PROVE  Meant(plan.refs[i]) = None
<1> DEFINE tool == plan.refs[i].tool
           canonical == plan.refs[i].canonical
           words == [mention |-> plan.refs[i].mention, canonical |-> None]
           tried(m) == \E r \in Attempts(i, tool) : r.call.mode = m
           empty(m) == Search(tool, m, words) = {}
           found(m) == Search(tool, m, Words(i))
<1>1. \/ tried("cross_language_exact")
      \/ tried("exact") /\ ~empty("exact")
      \/ tried("exact") /\ empty("exact") /\ tried("fuzzy") /\ ~empty("fuzzy")
      \/ empty("exact") /\ empty("fuzzy") /\ canonical \in {None, plan.refs[i].mention}
  BY DEF NextMode, Modes
<1>2. /\ Search(tool, "exact", words) = found("exact")
      /\ Search(tool, "fuzzy", words) = found("fuzzy")
  BY DEF Search, Words
<1>3. Meant(plan.refs[i]) =
         IF found("exact") # {} THEN TheOnly(found("exact"))
         ELSE IF found("fuzzy") # {} \/ canonical = None THEN TheOnly(found("fuzzy"))
         ELSE TheOnly(found("cross_language_exact"))
  BY DEF Meant, Words, FromContext
<1>4. ASSUME NEW m \in Modes, tried(m)
      PROVE  Climbed(i, m) /\ TheOnly(found(m)) = None
  <2>1. PICK r \in Attempts(i, tool) : r.call.mode = m
    BY <1>4
  <2>2. Climbed(i, m) /\ Looked(i, m) = None
    BY <2>1, AttemptFails
  <2> QED
    BY <2>2, SearchByWords DEF Looked
<1>5. "exact" \in Modes /\ "fuzzy" \in Modes /\ "cross_language_exact" \in Modes
  BY DEF Modes
<1>6. CASE tried("cross_language_exact")
  <2>1. Climbed(i, "cross_language_exact") /\ TheOnly(found("cross_language_exact")) = None
    BY <1>4, <1>5, <1>6
  <2>2. found("exact") = {} /\ found("fuzzy") = {} /\ canonical # None
    BY <2>1 DEF Climbed
  <2> HIDE DEF found
  <2> QED
    BY <1>3, <2>1, <2>2
<1>7. CASE tried("exact") /\ ~empty("exact")
  <2>1. TheOnly(found("exact")) = None /\ found("exact") # {}
    BY <1>2, <1>4, <1>5, <1>7
  <2> HIDE DEF found
  <2> QED
    BY <1>3, <2>1
<1>8. CASE empty("exact") /\ tried("fuzzy") /\ ~empty("fuzzy")
  <2>1. TheOnly(found("fuzzy")) = None /\ found("exact") = {} /\ found("fuzzy") # {}
    BY <1>2, <1>4, <1>5, <1>8
  <2> HIDE DEF found
  <2> QED
    BY <1>3, <2>1
<1>9. CASE empty("exact") /\ empty("fuzzy") /\ canonical \in {None, plan.refs[i].mention}
  <2>1. found("exact") = {} /\ found("fuzzy") = {}
    BY <1>2, <1>9
  <2>2. canonical # None => found("cross_language_exact") = {}
    <3>1. canonical # None => Words(i).canonical = Words(i).mention
      BY <1>9 DEF Words
    <3> QED
      BY <2>1, <3>1 DEF Search
  <2> HIDE DEF found
  <2> QED
    BY <1>3, <2>1, <2>2, OnlyOfNone
<1> QED
  BY <1>1, <1>6, <1>7, <1>8, <1>9

\* A lookup that is due asks for a call, unless a name of it means nothing.
LEMMA LookupAdvances ==
  ASSUME PlanOK, NamesApart(plan), LookupInv,
         NEW s, s.bind = [i \in Refs(plan) |-> BoundBy(transcript, Len(transcript), i)],
         NEW t \in ReadyLookups(s)
  PROVE  \/ Contracts(s) # {}
         \/ \E i \in Refs(plan) : s.bind[i] = None /\ Meant(plan.refs[i]) = None
<1> DEFINE tool == plan.tasks[t].tool
<1>1. t \in EntityTasks(plan) /\ tool \in EntityTools
  BY DEF ReadyLookups, EntityTasks
<1>2. plan.tasks[t].refs \subseteq Refs(plan)
  BY <1>1 DEF PlanOK, LegalPlan, TasksAreWellFormed, EntityTasks
<1>3. CASE Unresolved(s, t) = {}
  <2> DEFINE wanting == {x \in ReadyLookups(s) : plan.tasks[x].tool = tool /\ Unresolved(s, x) = {}}
             c == IdContract(s, tool, wanting)
  <2>1. c \in IdContracts(s)
    BY <1>1 DEF IdContracts
  <2>2. c.tasks = wanting /\ t \in wanting
    BY <1>3 DEF IdContract
  <2> HIDE DEF c, wanting
  <2>3. c \in Contracts(s)
    BY <2>1, <2>2 DEF Contracts
  <2> QED
    BY <2>3
<1>4. CASE Unresolved(s, t) # {}
  <2>1. PICK i : i \in plan.tasks[t].refs /\ s.bind[i] = None /\ i \in Unresolved(s, t)
    BY <1>4 DEF Unresolved
  <2>2. i \in Refs(plan) /\ plan.refs[i].tool = tool
    BY <1>1, <1>2, <2>1 DEF PlanOK, LegalPlan, LookupsAreBatched, MayLookUp
  <2>3. BoundBy(transcript, Len(transcript), i) = None
    BY <2>1, <2>2
  <2>4. CASE NextMode(i, tool) \in Modes
    <3> DEFINE mode == NextMode(i, tool)
               wanted == Wanted(s, tool, mode)
               c == QueryContract(tool, mode, wanted)
    <3>1. c \in QueryContracts(s)
      BY <1>1, <2>4 DEF QueryContracts
    <3>2. c.tasks = {w[1] : w \in wanted} /\ <<t, i>> \in wanted
      BY <2>1, <2>2 DEF QueryContract, Wanted
    <3> HIDE DEF c, wanted, mode
    <3>3. c.tasks # {}
      BY <3>2
    <3>4. c \in Contracts(s)
      BY <3>1, <3>3 DEF Contracts
    <3> QED
      BY <3>4
  <2>5. CASE NextMode(i, tool) \notin Modes
    <3>1. ~FromContext(plan, i)
      BY <2>3 DEF BoundBy, FromContext
    <3>2. ~IsBoundBy(transcript, Len(transcript), i)
      <4>1. Len(transcript) \in Nat /\ \A m \in 1..Len(transcript) : LookupOK(transcript, m)
        BY DEF LookupInv, LookupsOK
      <4> QED
        BY <2>3, <4>1, BoundIsMeant
    <3>3. Meant(plan.refs[i]) = None
      BY <1>1, <2>2, <2>5, <3>1, <3>2, LadderEnds
    <3> QED
      BY <2>1, <2>2, <3>3
  <2> QED
    BY <2>4, <2>5
<1> QED
  BY <1>3, <1>4

\* A relation task that waits for nothing asks for a call or is completed.
LEMMA RelationAdvances ==
  ASSUME PlanOK, NEW s, IsRecord(s), NEW t \in Open(s), InputsReady(t, GoalResults(s)),
         Skip(s).completed \subseteq s.completed
  PROVE  Contracts(s) # {}
<1> DEFINE results == GoalResults(s)
           g == plan.tasks[t].goal
<1>1. t \in RelationTasks(plan) /\ t \notin s.completed /\ \A i \in plan.tasks[t].refs : s.bind[i] # None
  BY DEF Open
<1>2. CASE Subjects(s, t, results) # {}
  <2>1. RelationContract(s, t, results) \in RelationContracts(s, results)
    BY <1>2 DEF RelationContracts, Callable
  <2> QED
    BY <2>1 DEF Contracts
<1>3. CASE Subjects(s, t, results) = {}
  <2>1. BoundTo(s, plan.tasks[t].refs) = {}
    BY <1>3 DEF Subjects
  <2>2. plan.tasks[t].refs = {}
    BY <1>1, <2>1 DEF BoundTo
  <2>3. plan.goals[g].inputs # {}
    <3>1. g \in Goals(plan) /\ plan.tasks[t].refs = plan.goals[g].refs
      BY <1>1, GoalOfRelation
    <3> QED
      BY <2>2, <3>1 DEF PlanOK, LegalPlan, GoalsAreCoherent
  <2>4. VerifiedEmptyInput(s, t, results)
    BY <1>3, <2>3 DEF VerifiedEmptyInput
  <2>5. t \in Skip(s).completed
    <3> DEFINE new == {x \in Open(s) : \/ FallbackNotRequired(s, x)
                                       \/ VerifiedEmptyInput(s, x, results)}
    <3>1. t \in new
      BY <2>4
    <3>2. Skip(s) = [s EXCEPT !.completed = s.completed \cup new]
      BY DEF Skip
    <3>3. "completed" \in DOMAIN s
      BY DEF IsRecord
    <3> HIDE DEF new
    <3> QED
      BY <3>1, <3>2, <3>3
  <2> QED
    BY <1>1, <2>5
<1> QED
  BY <1>2, <1>3

\* An incomplete task whose turn is not later than any other's.
LEMMA FirstTask ==
  ASSUME NEW X, X # {}, NEW turn, \A t \in X : turn[t] \in Nat
  PROVE  \E t \in X : \A x \in X : turn[t] <= turn[x]
<1> DEFINE T == {turn[t] : t \in X}
<1>1. T # {} /\ T \subseteq Nat
  OBVIOUS
<1>2. PICK n \in T : \A m \in T : ~(<<m, n>> \in OpToRel(<, Nat))
  BY <1>1, NatLessThanWellFounded, WFMin
<1>3. \A m \in T : ~(m < n)
  BY <1>1, <1>2 DEF OpToRel
<1>4. PICK t \in X : turn[t] = n
  BY <1>2
<1> QED
  BY <1>3, <1>4

\* Goals are complete whose tasks and goals all come before one turn.
LEMMA GoalsBefore ==
  ASSUME PlanOK, ProfileIsNamed(plan), NEW s, NEW turn, NEW last, NEW now \in Nat,
         \A t \in Tasks(plan) : turn[t] \in Nat, \A g \in Goals(plan) : last[g] \in Nat,
         \A g \in Goals(plan) : /\ \A t \in TasksForGoal(plan, g) : turn[t] <= last[g]
                                /\ \A d \in plan.goals[g].depends : last[d] <= last[g],
         \A t \in Tasks(plan) : turn[t] < now => t \in s.completed
  PROVE  \A g \in Goals(plan) : last[g] < now => GoalResults(s)[g].complete
<1> DEFINE l == Len(plan.goals)
           S == {g \in 1..l : last[g] < now => GoalResults(s)[g].complete}
<1>1. /\ l \in Nat /\ Goals(plan) = 1..l
      /\ \A g \in 1..l : /\ plan.goals[g].depends \subseteq 1..(g - 1)
                         /\ plan.goals[g].refs \cup plan.goals[g].inputs # {}
  BY DEF PlanOK, LegalPlan, GoalsAreCoherent
<1> HIDE DEF l
<1>2. ASSUME NEW g \in 1..l, \A h \in 1..(g - 1) : h \in S, last[g] < now
      PROVE  GoalResults(s)[g].complete
  <2>1. g \in Goals(plan) /\ plan.goals[g].depends \subseteq Goals(plan)
    BY <1>1, RelationsOfGoal
  <2>2. TasksForGoal(plan, g) # {} /\ TasksForGoal(plan, g) \subseteq Tasks(plan)
    <3>1. TasksForGoal(plan, g) \subseteq Tasks(plan)
      BY DEF TasksForGoal, Covering, EntityTasks
    <3>2. TasksForGoal(plan, g) # {}
      BY <1>1, <2>1, LookupOfProfile, RelationsOfGoal DEF RelationsOf, ProfileIsNamed
    <3> QED
      BY <3>1, <3>2
  <2>3. \A t \in TasksForGoal(plan, g) : turn[t] \in Nat /\ turn[t] <= last[g]
    BY <2>1, <2>2
  <2>4. TasksForGoal(plan, g) \subseteq s.completed
    BY <1>2, <2>1, <2>2, <2>3
  <2>5. \A d \in plan.goals[g].depends : last[d] \in Nat /\ last[d] <= last[g]
    BY <2>1
  <2>6. \A d \in plan.goals[g].depends : GoalResults(s)[d].complete
    BY <1>1, <1>2, <2>1, <2>5
  <2>7. GoalResults(s)[g] = GoalResult(s, g, GoalResults(s))
    BY <2>1, ResultsUnfold
  <2> QED
    BY <2>2, <2>4, <2>6, <2>7 DEF GoalResult
<1>3. \A g \in 1..l : (\A h \in 1..(g - 1) : h \in S) => g \in S
  BY <1>2
<1> HIDE DEF S
<1>4. 1..l \subseteq S
  BY <1>1, <1>3, Smallest
<1> QED
  BY <1>1, <1>4 DEF S

\* A plan with an incomplete task has a call, or a name without a meaning: the
\* task whose turn is first waits for no other.
LEMMA TranscriptAdvances ==
  ASSUME TaskIdsAreKept, ProfilesAreTyped, ProfilesAreNamed, NamesAreApart, PlansCanBeDone,
         LookupInv
  PROVE  StuckOnlyOnNames
<1> DEFINE s == Snapshot(transcript)
           turns == 0..Cardinality(Tasks(plan))
<1>1. /\ PlanOK /\ plan \in question /\ question \in Questions /\ Sound(s)
      /\ s.bind = [i \in Refs(plan) |-> BoundBy(transcript, Len(transcript), i)]
  BY SnapshotOfTranscript
<1>2. NamesApart(plan) /\ TasksHaveTurns(plan) /\ ProfileIsNamed(plan)
  BY <1>1 DEF NamesAreApart, PlansCanBeDone, ProfilesAreNamed
<1>3. IsRecord(s) /\ (AllComplete(s) \/ Round(transcript, s) = s)
  BY <1>1, SnapshotIsDone DEF LookupInv, LookupsOK
<1> HIDE DEF s
<1> SUFFICES ASSUME ~AllComplete(s)
             PROVE  \/ Contracts(s) # {}
                    \/ \E i \in Refs(plan) : s.bind[i] = None /\ Meant(plan.refs[i]) = None
  BY DEF StuckOnlyOnNames, s
<1>4. Skip(s).completed \subseteq s.completed
  BY <1>3, RoundOnlyCompletes
<1>5. PICK turn \in [Tasks(plan) -> turns], last \in [Goals(plan) -> turns] :
         /\ \A t \in Tasks(plan) : \A d \in plan.tasks[t].depends : turn[d] < turn[t]
         /\ \A t \in RelationTasks(plan) :
               \A d \in plan.goals[plan.tasks[t].goal].inputs : last[d] < turn[t]
         /\ \A g \in Goals(plan) : /\ \A t \in TasksForGoal(plan, g) : turn[t] <= last[g]
                                   /\ \A d \in plan.goals[g].depends : last[d] <= last[g]
  BY <1>2 DEF TasksHaveTurns
<1>6. /\ \A t \in Tasks(plan) : turn[t] \in Nat
      /\ \A g \in Goals(plan) : last[g] \in Nat
  OBVIOUS
<1> HIDE DEF turns
<1>7. PICK t \in Tasks(plan) \ s.completed : \A x \in Tasks(plan) \ s.completed : turn[t] <= turn[x]
  <2>1. Tasks(plan) \ s.completed # {}
    BY <1>3 DEF AllComplete, IsRecord
  <2> QED
    BY <1>6, <2>1, FirstTask
<1>8. \A x \in Tasks(plan) : turn[x] < turn[t] => x \in s.completed
  BY <1>6, <1>7
<1>9. \A d \in DependencyClosure(plan, t) : d \in s.completed
  BY <1>1, <1>5, <1>6, <1>8, ClosureIsEarlier
<1>10. plan.tasks[t].depends \subseteq s.completed
  BY <1>1, <1>5, <1>8 DEF PlanOK, LegalPlan, TasksAreWellFormed
<1>11. CASE t \in EntityTasks(plan)
  <2>1. t \in ReadyLookups(s)
    BY <1>7, <1>10, <1>11 DEF ReadyLookups
  <2> QED
    BY <1>1, <1>2, <2>1, LookupAdvances
<1>12. CASE t \in RelationTasks(plan)
  <2> DEFINE g == plan.tasks[t].goal
  <2>1. /\ g \in Goals(plan) /\ plan.tasks[t].refs = plan.goals[g].refs
        /\ plan.tasks[t].refs \subseteq Refs(plan) /\ plan.goals[g].inputs \subseteq Goals(plan)
    BY <1>1, <1>12, GoalOfRelation, RelationsOfGoal
  <2>2. ASSUME NEW i \in plan.tasks[t].refs PROVE s.bind[i] # None
    <3>1. CASE FromContext(plan, i)
      BY <1>1, <2>1, <3>1 DEF BoundBy, FromContext
    <3>2. CASE ~FromContext(plan, i)
      <4>1. PICK d \in DependencyClosure(plan, t) : i \in plan.tasks[d].refs /\ d \in EntityTasks(plan)
        BY <1>1, <1>12, <2>1, <3>2 DEF PlanOK, LegalPlan, RelationsWaitForInputs
      <4>2. IsBound(s, d)
        BY <1>1, <1>9, <4>1 DEF Sound
      <4> QED
        BY <4>1, <4>2 DEF IsBound
    <3> QED
      BY <3>1, <3>2
  <2>3. t \in Open(s)
    BY <1>7, <1>10, <1>12, <2>2 DEF Open
  <2>4. \A h \in Goals(plan) : last[h] < turn[t] => GoalResults(s)[h].complete
    <3> DEFINE now == turn[t]
    <3>1. now \in Nat /\ \A x \in Tasks(plan) : turn[x] < now => x \in s.completed
      BY <1>6, <1>7, <1>8
    <3> HIDE DEF now
    <3>2. \A h \in Goals(plan) : last[h] < now => GoalResults(s)[h].complete
      <4>1. \A h \in Goals(plan) : /\ \A x \in TasksForGoal(plan, h) : turn[x] <= last[h]
                                   /\ \A d \in plan.goals[h].depends : last[d] <= last[h]
        BY <1>5
      <4> QED
        BY <1>1, <1>2, <1>6, <3>1, <4>1, GoalsBefore
    <3> QED
      BY <3>2 DEF now
  <2>5. InputsReady(t, GoalResults(s))
    BY <1>5, <1>12, <2>1, <2>4 DEF InputsReady
  <2> QED
    BY <1>1, <1>3, <1>4, <2>3, <2>5, RelationAdvances
<1> QED
  BY <1>1, <1>7, <1>11, <1>12 DEF PlanOK, LegalPlan, TasksAreWellFormed, EntityTasks, RelationTasks

\* For all questions of this kind, worlds and numbers of calls: as long as the
\* plan has an incomplete task there is a call to make, unless a name that is
\* not bound means no entity or several (_ready_contracts with the rules of
\* _validate_task_plan).
THEOREM StuckHolds ==
  ASSUME TaskIdsAreKept, ProfilesAreTyped, ProfilesAreNamed, RefsAreKept, NamesAreApart,
         PlansCanBeDone
  PROVE  Spec => []StuckOnlyOnNames
<1>1. LookupInv => StuckOnlyOnNames
  BY TranscriptAdvances
<1> QED
  BY <1>1, LookupInvInit, LookupInvStep, PTL DEF Spec
=============================================================================
