-------------------------- MODULE GoalResultsProofs -------------------------
(***************************************************************************)
(* What the results of goals are, for any plan, any data and any calls     *)
(* made: lemmas about the operators of GoalResults. The results are a fold *)
(* over the goals; it is unfolded here, once, into an equation for each    *)
(* goal, and what follows from that goal after goal is proved by taking    *)
(* the first goal for which it did not hold.                               *)
(***************************************************************************)
EXTENDS GoalResults, WellFoundedInduction, FiniteSetTheorems, TLAPS

-----------------------------------------------------------------------------
(* Results, goal after goal.                                               *)

\* What holds of 0, and of the next number whenever it holds of one, holds of
\* all: otherwise a least number were left out.
LEMMA Induction ==
  ASSUME NEW S, 0 \in S, \A n \in Nat : n \in S => n + 1 \in S
  PROVE  Nat \subseteq S
<1> SUFFICES ASSUME Nat \ S # {} PROVE FALSE
  OBVIOUS
<1>1. PICK n \in Nat \ S : \A m \in Nat \ S : ~(<<m, n>> \in OpToRel(<, Nat))
  BY NatLessThanWellFounded, WFMin
<1>2. \A m \in Nat \ S : ~(m < n)
  BY <1>1 DEF OpToRel
<1>3. n # 0 /\ n - 1 \in Nat /\ n - 1 < n /\ (n - 1) + 1 = n
  OBVIOUS
<1> QED
  BY <1>2, <1>3

\* What holds of a number whenever it holds of all smaller ones holds of all.
LEMMA Smallest ==
  ASSUME NEW S, NEW n \in Nat,
         \A g \in 1..n : (\A h \in 1..(g - 1) : h \in S) => g \in S
  PROVE  1..n \subseteq S
<1> DEFINE U == {g \in 1..n : g \notin S}
<1> SUFFICES ASSUME U # {} PROVE FALSE
  OBVIOUS
<1>0. U \subseteq Nat
  OBVIOUS
<1>1. PICK g \in U : \A h \in U : ~(<<h, g>> \in OpToRel(<, Nat))
  BY <1>0, NatLessThanWellFounded, WFMin
<1>2. \A h \in U : ~(h < g)
  BY <1>0, <1>1 DEF OpToRel
<1>3. g \in 1..n /\ g \notin S
  BY <1>1
<1>4. \A h \in 1..(g - 1) : h \in 1..n /\ h < g
  BY <1>3
<1>5. \A h \in 1..(g - 1) : h \in S
  BY <1>2, <1>4
<1> QED
  BY <1>3, <1>5

\* A set of numbers up to n + 1 has a greatest one; the others are up to n.
LEMMA Greatest ==
  ASSUME NEW n \in Nat, NEW t \in SUBSET (1..(n + 1)), t # {}
  PROVE  /\ Max(t) \in t /\ \A y \in t : y <= Max(t)
         /\ t \ {Max(t)} \in SUBSET (1..n)
<1>1. \E x \in t : \A y \in t : y <= x
  <2> DEFINE U == {n + 1 - y : y \in t}
  <2>1. U \subseteq Nat /\ U # {}
    OBVIOUS
  <2>2. PICK u \in U : \A v \in U : ~(<<v, u>> \in OpToRel(<, Nat))
    BY NatLessThanWellFounded, WFMin, <2>1
  <2>3. \A v \in U : ~(v < u)
    BY <2>1, <2>2 DEF OpToRel
  <2>4. PICK x \in t : u = n + 1 - x
    OBVIOUS
  <2>5. ASSUME NEW y \in t PROVE y <= x
    <3>1. n + 1 - y \in U /\ ~(n + 1 - y < n + 1 - x)
      BY <2>3, <2>4
    <3> QED
      BY <3>1
  <2> QED
    BY <2>5
<1>2. Max(t) \in t /\ \A y \in t : Max(t) >= y
  BY <1>1 DEF Max
<1>3. ASSUME NEW y \in t \ {Max(t)} PROVE y \in 1..n
  <2>1. y \in 1..(n + 1) /\ Max(t) \in 1..(n + 1) /\ y <= Max(t) /\ y # Max(t)
    BY <1>2
  <2> QED
    BY <2>1
<1>4. \A y \in t : y <= Max(t)
  BY <1>2
<1> QED
  BY <1>2, <1>3, <1>4

\* The greatest number up to n + 1.
LEMMA GreatestOfInterval ==
  ASSUME NEW n \in Nat
  PROVE  Max(1..(n + 1)) = n + 1 /\ (1..(n + 1)) \ {n + 1} = 1..n
<1> DEFINE t == 1..(n + 1)
<1>1. t \in SUBSET (1..(n + 1)) /\ t # {} /\ n + 1 \in t
  OBVIOUS
<1> HIDE DEF t
<1>2. Max(t) \in t /\ \A y \in t : y <= Max(t)
  BY <1>1, Greatest
<1> QED
  BY <1>1, <1>2 DEF t

Extended(research, results) ==
    Append(results, NextResult(research, Len(results) + 1, results))

\* The fold in steps: each goal's result is appended to those before.
LEMMA ResultsStepwise ==
  ASSUME NEW research, NEW l \in Nat, Goals(research.plan) = 1..l
  PROVE  \E f : /\ Results(research) = f[l] /\ f[0] = <<>>
                /\ \A i \in 1..l : f[i] = Extended(research, f[i - 1])
<1> DEFINE Body(iter, t) ==
             IF t = {} THEN <<>> ELSE Extended(research, iter[t \ {Max(t)}])
           Folds(iter, n) == iter = [t \in SUBSET (1..n) |-> Body(iter, t)]
           S == {n \in Nat : \E iter : Folds(iter, n)}
<1> HIDE DEF Body
<1>1. 0 \in S
  <2> DEFINE iter == [t \in SUBSET (1..0) |-> <<>>]
  <2>1. Folds(iter, 0)
    BY DEF Body
  <2> QED
    BY <2>1
<1>2. ASSUME NEW n \in Nat, n \in S PROVE n + 1 \in S
  <2>1. PICK iter : Folds(iter, n)
    BY <1>2
  <2> DEFINE next == [t \in SUBSET (1..(n + 1)) |-> Body(iter, t)]
  <2>2. \A t \in SUBSET (1..n) : t \in SUBSET (1..(n + 1)) /\ next[t] = iter[t]
    BY <2>1
  <2>3. \A t \in SUBSET (1..(n + 1)) : Body(next, t) = Body(iter, t)
    BY <2>2, Greatest DEF Body
  <2>4. Folds(next, n + 1)
    BY <2>3
  <2> HIDE DEF next, Folds
  <2>5. \E other : Folds(other, n + 1)
    BY <2>4
  <2> QED
    BY <2>5
<1>3. l \in S
  BY <1>1, <1>2, Induction
<1> DEFINE it == CHOOSE iter : Folds(iter, l)
<1>4. Folds(it, l)
  BY <1>3
<1>5. Results(research) = it[1..l]
  BY DEF Results, Goals, FoldLeft, MapThenFoldSet, Body, Extended
<1> HIDE DEF it
<1> DEFINE f == [i \in 0..l |-> it[1..i]]
<1>6. f[0] = <<>>
  BY <1>4 DEF Body
<1>7. ASSUME NEW i \in 1..l PROVE f[i] = Extended(research, f[i - 1])
  <2>1. i - 1 \in Nat /\ i - 1 \in 0..l /\ i \in 0..l /\ (i - 1) + 1 = i
    OBVIOUS
  <2>2. Max(1..i) = i /\ (1..i) \ {i} = 1..(i - 1)
    BY <2>1, GreatestOfInterval
  <2>3. it[1..i] = Body(it, 1..i)
    BY <1>4
  <2>4. f[i] = it[1..i] /\ f[i - 1] = it[1..(i - 1)]
    BY <2>1
  <2>5. 1..i # {}
    BY <2>1, <2>2
  <2> HIDE DEF f
  <2> QED
    BY <2>2, <2>3, <2>4, <2>5 DEF Body
<1>8. Results(research) = f[l]
  BY <1>5
<1> HIDE DEF f
<1> QED
  BY <1>6, <1>7, <1>8

\* The goals come in an order in which they depend on earlier ones.
InOrder(plan) ==
    \E n \in Nat : /\ Goals(plan) = 1..n
                   /\ \A g \in 1..n : /\ plan.goals[g].depends \subseteq 1..(g - 1)
                                      /\ Inputs(plan.goals[g]) \subseteq plan.goals[g].depends

\* Every goal's result comes of those of the goals it depends on.
LEMMA ResultsUnfold ==
  ASSUME NEW research, InOrder(research.plan)
  PROVE  /\ DOMAIN Results(research) = Goals(research.plan)
         /\ \A g \in Goals(research.plan) :
               Results(research)[g] = NextResult(research, g, Results(research))
<1>1. PICK l \in Nat : /\ Goals(research.plan) = 1..l
                       /\ \A g \in 1..l :
                             /\ research.plan.goals[g].depends \subseteq 1..(g - 1)
                             /\ Inputs(research.plan.goals[g]) \subseteq research.plan.goals[g].depends
  BY DEF InOrder
<1>2. PICK f : /\ Results(research) = f[l] /\ f[0] = <<>>
               /\ \A i \in 1..l : f[i] = Extended(research, f[i - 1])
  BY <1>1, ResultsStepwise
<1> DEFINE V == {NextResult(research, Len(f[i]) + 1, f[i]) : i \in 0..l}
           Good(i) == f[i] \in Seq(V) /\ Len(f[i]) = i
           S == {i \in Nat : i <= l => Good(i)}
<1> HIDE DEF V
<1>3. 0 \in S
  <2>1. <<>> \in Seq(V) /\ Len(<<>>) = 0
    OBVIOUS
  <2> QED
    BY <1>2, <2>1
<1>4. ASSUME NEW i \in Nat, i \in S, i + 1 <= l PROVE Good(i + 1)
  <2>1. Good(i) /\ i \in 0..l /\ i + 1 \in 1..l /\ (i + 1) - 1 = i
    BY <1>4
  <2>2. f[i + 1] = Extended(research, f[i])
    BY <1>2, <2>1
  <2> DEFINE v == NextResult(research, Len(f[i]) + 1, f[i])
  <2>3. v \in V
    BY <2>1 DEF V
  <2>4. f[i + 1] = Append(f[i], v)
    BY <2>2 DEF Extended
  <2> HIDE DEF v
  <2> QED
    BY <2>1, <2>3, <2>4
<1>5. \A i \in 0..l : Good(i)
  <2>1. \A i \in Nat : i \in S => i + 1 \in S
    BY <1>4
  <2> HIDE DEF S
  <2>2. Nat \subseteq S
    BY <1>3, <2>1, Induction
  <2> HIDE DEF Good
  <2> QED
    BY <2>2 DEF S
<1>6. ASSUME NEW i \in 1..l
      PROVE  /\ f[i][i] = NextResult(research, i, f[i - 1])
             /\ \A h \in 1..(i - 1) : f[i][h] = f[i - 1][h]
  <2>1. Good(i - 1) /\ i - 1 \in 0..l /\ (i - 1) + 1 = i
    BY <1>5
  <2> DEFINE v == NextResult(research, i, f[i - 1])
  <2>2. f[i] = Append(f[i - 1], v) /\ v \in V
    BY <1>2, <2>1 DEF Extended, V
  <2> HIDE DEF v
  <2>3. f[i][i] = v /\ \A h \in 1..(i - 1) : f[i][h] = f[i - 1][h]
    BY <2>1, <2>2
  <2> QED
    BY <2>3 DEF v
<1> DEFINE T == {i \in Nat : i <= l => \A j \in 0..i : \A h \in 1..j : f[i][h] = f[j][h]}
<1>7. 0 \in T
  OBVIOUS
<1>8. ASSUME NEW i \in Nat, i \in T PROVE i + 1 \in T
  <2> SUFFICES ASSUME i + 1 <= l, NEW j \in 0..(i + 1), NEW h \in 1..j
               PROVE  f[i + 1][h] = f[j][h]
    OBVIOUS
  <2>1. CASE j = i + 1
    BY <2>1
  <2>2. CASE j \in 0..i
    <3>1. i <= l /\ i + 1 \in 1..l /\ h \in 1..((i + 1) - 1) /\ (i + 1) - 1 = i
      BY <2>2
    <3>2. f[i + 1][h] = f[i][h]
      BY <1>6, <3>1
    <3>3. f[i][h] = f[j][h]
      BY <1>8, <2>2, <3>1
    <3> QED
      BY <3>2, <3>3
  <2> QED
    BY <2>1, <2>2
<1>9. \A j \in 0..l : \A h \in 1..j : f[l][h] = f[j][h]
  <2>1. \A i \in Nat : i \in T => i + 1 \in T
    BY <1>8
  <2> HIDE DEF T
  <2>2. Nat \subseteq T
    BY <1>7, <2>1, Induction
  <2> QED
    BY <2>2 DEF T
<1>10. DOMAIN Results(research) = 1..l
  <2>1. f[l] \in Seq(V) /\ Len(f[l]) = l
    BY <1>5
  <2> QED
    BY <1>2, <2>1
<1>11. ASSUME NEW g \in 1..l
       PROVE  Results(research)[g] = NextResult(research, g, Results(research))
  <2>1. g - 1 \in 0..l /\ g \in 0..l /\ g \in 1..g
    OBVIOUS
  <2>2. f[l][g] = NextResult(research, g, f[g - 1])
    BY <1>6, <1>9, <2>1
  <2>3. \A h \in 1..(g - 1) : f[l][h] = f[g - 1][h]
    BY <1>9, <2>1
  <2> DEFINE goal == research.plan.goals[g]
  <2>4. goal.depends \subseteq 1..(g - 1) /\ goal.subjectGoals \subseteq 1..(g - 1)
        /\ goal.objectGoals \subseteq 1..(g - 1)
    BY <1>1 DEF Inputs
  <2> HIDE DEF goal
  <2>5. \A h \in goal.depends \cup goal.subjectGoals \cup goal.objectGoals :
           f[l][h] = f[g - 1][h]
    BY <2>3, <2>4
  <2>6. /\ UNION {f[l][h].results : h \in goal.subjectGoals}
             = UNION {f[g - 1][h].results : h \in goal.subjectGoals}
        /\ UNION {f[l][h].results : h \in goal.objectGoals}
             = UNION {f[g - 1][h].results : h \in goal.objectGoals}
    BY <2>5
  <2>7. /\ (\A h \in goal.depends : f[l][h].called) = (\A h \in goal.depends : f[g - 1][h].called)
        /\ (\A h \in goal.depends : f[l][h].complete)
             = (\A h \in goal.depends : f[g - 1][h].complete)
        /\ (\A h \in Inputs(goal) : f[l][h].complete)
             = (\A h \in Inputs(goal) : f[g - 1][h].complete)
    BY <2>5 DEF Inputs
  <2>8. NextResult(research, g, f[l]) = NextResult(research, g, f[g - 1])
    BY <2>6, <2>7 DEF NextResult, goal
  <2> QED
    BY <1>2, <2>2, <2>8
<1> QED
  BY <1>1, <1>10, <1>11

-----------------------------------------------------------------------------
(* The parts of a result.                                                  *)

\* What a goal takes its operands from, given the results of earlier goals.
SubjectsOf(goal, results) ==
    Ids(goal.subjects) \cup UNION {results[h].results : h \in goal.subjectGoals}
ObjectsOf(goal, results) ==
    Ids(goal.objects) \cup UNION {results[h].results : h \in goal.objectGoals}

\* What the relations of a goal come to, and which of its tasks are skipped.
Projected(research, g, r) ==
    Project(research.plan.goals[g], FactsOf(research, ActiveTasks(research, g)),
            r.subjects, r.objects)

SkippedOf(research, g, r) == Skipped(research, g, r.subjects, r.objects, r.open)

NamedRecords(research, g) == Ids(Refs(research.plan.goals[g])) \cap DOMAIN research.records

InView(research, g, r) ==
    IF research.plan.goals[g].intent \in Profiles THEN r.results
    ELSE GoalFocus(research.plan.goals[g], Projected(research, g, r), r.subjects, r.objects)

\* The parts of a goal's result.
IsComplete(research, g, r) ==
    LET tasks == TasksForGoal(research.plan, g)
    IN  /\ r.called <=> tasks \subseteq research.done \cup SkippedOf(research, g, r)
        /\ r.complete <=> r.ready /\ tasks # {} /\ r.called
        /\ r.skipped <=> Inputs(research.plan.goals[g]) # {} /\ SkippedOf(research, g, r) # {}

IsResult(research, g, r) ==
    LET projected == Projected(research, g, r)
    IN  /\ r.complete /\ research.plan.goals[g].intent \in Profiles =>
              /\ r.results = Ids(Refs(research.plan.goals[g])) /\ r.facts = {}
              /\ r.nonempty <=> NamedRecords(research, g) # {}
        /\ r.complete /\ research.plan.goals[g].intent \notin Profiles =>
              /\ r.results = projected.results /\ r.facts = projected.facts
              /\ r.nonempty <=> projected.facts # {}
        /\ ~r.complete => r.results = {} /\ r.facts = {} /\ ~r.nonempty

IsInView(research, g, r) ==
    LET goal == research.plan.goals[g]
    IN  /\ ~r.complete => r.focus = {}
        /\ r.complete =>
              r.focus = IF r.skipped /\ ~r.nonempty THEN {} ELSE InView(research, g, r)
        /\ ~r.nonempty => r.entities = {}
        /\ r.nonempty =>
              r.entities = IF goal.intent \in Profiles THEN NamedRecords(research, g)
                           ELSE IF goal.intent = "locate" \/ goal.aggregation = "direct"
                                THEN InView(research, g, r) \cap DOMAIN research.records ELSE {}

\* A goal's result has the parts it is made of.
LEMMA GoalResultParts ==
  ASSUME NEW research, NEW g, NEW S, NEW O, NEW open \in BOOLEAN, NEW ready \in BOOLEAN
  PROVE  LET r == GoalResult(research, g, S, O, open, ready)
         IN  /\ IsComplete(research, g, r)
             /\ IsResult(research, g, r)
             /\ IsInView(research, g, r)
<1>1. IsComplete(research, g, GoalResult(research, g, S, O, open, ready))
  BY DEF GoalResult, IsComplete, SkippedOf
<1>2. IsResult(research, g, GoalResult(research, g, S, O, open, ready))
  BY DEF GoalResult, IsResult, Projected, NamedRecords
<1>3. IsInView(research, g, GoalResult(research, g, S, O, open, ready))
  BY DEF GoalResult, IsInView, InView, Projected, NamedRecords
<1> QED
  BY <1>1, <1>2, <1>3

\* A goal's result says what it was made from.
LEMMA GoalResultGiven ==
  ASSUME NEW research, NEW g, NEW S, NEW O, NEW open \in BOOLEAN, NEW ready \in BOOLEAN
  PROVE  LET r == GoalResult(research, g, S, O, open, ready)
         IN  r.subjects = S /\ r.objects = O /\ r.open = open /\ r.ready = ready
<1> DEFINE r == GoalResult(research, g, S, O, open, ready)
<1>1. r.subjects = S
  BY DEF GoalResult
<1>2. r.objects = O
  BY DEF GoalResult
<1>3. r.open = open
  BY DEF GoalResult
<1>4. r.ready = ready
  BY DEF GoalResult
<1> QED
  BY <1>1, <1>2, <1>3, <1>4

\* The result of a goal comes of its tasks and of the goals it depends on.
LEMMA ResultParts ==
  ASSUME NEW research, InOrder(research.plan), NEW g \in Goals(research.plan)
  PROVE  LET results == Results(research)
             r == results[g]
             goal == research.plan.goals[g]
         IN  /\ r.subjects = SubjectsOf(goal, results)
             /\ r.objects = ObjectsOf(goal, results)
             /\ r.open = (/\ \A h \in goal.depends : results[h].called
                          /\ \A h \in Inputs(goal) : results[h].complete)
             /\ r.ready = (\A h \in goal.depends : results[h].complete)
             /\ IsComplete(research, g, r)
             /\ IsResult(research, g, r)
             /\ IsInView(research, g, r)
<1> DEFINE R == Results(research)
           goal == research.plan.goals[g]
           S == SubjectsOf(goal, R)
           O == ObjectsOf(goal, R)
           open == /\ \A h \in goal.depends : R[h].called
                   /\ \A h \in Inputs(goal) : R[h].complete
           ready == \A h \in goal.depends : R[h].complete
<1>1. R[g] = GoalResult(research, g, S, O, open, ready)
  BY ResultsUnfold DEF NextResult, SubjectsOf, ObjectsOf
<1>2. open \in BOOLEAN /\ ready \in BOOLEAN
  OBVIOUS
<1> HIDE DEF S, O, open, ready, R
<1>3. R[g].subjects = S /\ R[g].objects = O /\ R[g].open = open /\ R[g].ready = ready
  BY <1>1, <1>2, GoalResultGiven
<1>4. IsComplete(research, g, R[g]) /\ IsResult(research, g, R[g]) /\ IsInView(research, g, R[g])
  BY <1>1, <1>2, GoalResultParts
<1> QED
  BY <1>3, <1>4 DEF R, S, O, open, ready

-----------------------------------------------------------------------------
(* Tasks.                                                                  *)

\* A goal's relation task of one scope.
RelationTask(plan, g, s) ==
    [tool |-> "relations", goal |-> g, scope |-> s,
     refs |-> Refs(plan.goals[g]), attributes |-> {}]

\* The relation tasks of a goal, by its intent.
LEMMA RelationTasksAre ==
  ASSUME NEW plan, NEW g
  PROVE  /\ plan.goals[g].intent \in Profiles => RelationTasks(plan, g) = {}
         /\ plan.goals[g].intent = "controlled_companies" =>
               RelationTasks(plan, g) = {RelationTask(plan, g, "control_explicit"),
                                         RelationTask(plan, g, "control_fallback")}
         /\ plan.goals[g].intent \notin Profiles \cup {"controlled_companies"} =>
               RelationTasks(plan, g) = {RelationTask(plan, g, "goal")}
         /\ \A t \in RelationTasks(plan, g) :
               /\ t = RelationTask(plan, g, t.scope)
               /\ t.goal = g /\ t.refs = Refs(plan.goals[g]) /\ t.scope # "lookup"
               /\ t.scope \in {"goal", "control_explicit", "control_fallback"}
<1>1. "controlled_companies" \notin Profiles
  BY DEF Profiles
<1>2. \A t \in RelationTasks(plan, g) : \E s \in Scopes(plan.goals[g]) : t = RelationTask(plan, g, s)
  BY DEF RelationTasks, RelationTask
<1>3. Scopes(plan.goals[g]) \subseteq {"goal", "control_explicit", "control_fallback"}
  BY DEF Scopes
<1>4. \A t \in RelationTasks(plan, g) :
               /\ t = RelationTask(plan, g, t.scope)
               /\ t.goal = g /\ t.refs = Refs(plan.goals[g]) /\ t.scope # "lookup"
               /\ t.scope \in {"goal", "control_explicit", "control_fallback"}
  BY <1>2, <1>3 DEF RelationTask
<1>5. /\ plan.goals[g].intent \in Profiles => Scopes(plan.goals[g]) = {}
      /\ plan.goals[g].intent = "controlled_companies" =>
            Scopes(plan.goals[g]) = {"control_explicit", "control_fallback"}
      /\ plan.goals[g].intent \notin Profiles \cup {"controlled_companies"} =>
            Scopes(plan.goals[g]) = {"goal"}
  BY <1>1 DEF Scopes
<1> QED
  BY <1>4, <1>5 DEF RelationTasks, RelationTask

\* Lookups and relation tasks are told apart by their scope.
LEMMA LookupsAre ==
  ASSUME NEW plan, NEW t \in Lookups(plan)
  PROVE  t.scope = "lookup"
BY DEF Lookups, Batch

\* A task that is no lookup is one of its goal's relation tasks.
LEMMA TasksAre ==
  ASSUME NEW plan, NEW t \in Tasks(plan), t.scope # "lookup"
  PROVE  t.goal \in Goals(plan) /\ t \in RelationTasks(plan, t.goal)
BY LookupsAre, RelationTasksAre DEF Tasks

-----------------------------------------------------------------------------

\* Where every goal is called before g, a goal with tasks is complete unless
\* one that it depends on has no task.
LEMMA CalledIsComplete ==
  ASSUME NEW research, InOrder(research.plan), NEW n \in Nat,
         1..n \subseteq Goals(research.plan),
         \A h \in 1..n : Results(research)[h].called,
         \A h \in 1..n : \A k \in research.plan.goals[h].depends :
            TasksForGoal(research.plan, k) # {}
  PROVE  \A h \in 1..n : TasksForGoal(research.plan, h) # {} => Results(research)[h].complete
<1> DEFINE R == Results(research)
           S == {h \in 1..n : TasksForGoal(research.plan, h) # {} => R[h].complete}
<1>1. ASSUME NEW h \in 1..n, \A k \in 1..(h - 1) : k \in S PROVE h \in S
  <2>1. research.plan.goals[h].depends \subseteq 1..(h - 1)
    BY DEF InOrder
  <2>2. \A k \in research.plan.goals[h].depends : R[k].complete
    BY <1>1, <2>1
  <2>3. R[h].ready
    BY <2>2, ResultParts
  <2>4. IsComplete(research, h, R[h])
    BY ResultParts
  <2> QED
    BY <1>1, <2>3, <2>4 DEF IsComplete
<1> HIDE DEF S
<1>2. 1..n \subseteq S
  BY <1>1, Smallest
<1> QED
  BY <1>2 DEF S


-----------------------------------------------------------------------------
(* Plans.                                                                  *)

\* What a planned goal is, its references expanded.
SoundGoal(goal, g) ==
    /\ goal.depends \subseteq 1..(g - 1) /\ Inputs(goal) \subseteq goal.depends
    /\ Refs(goal) \subseteq {"named", "context"} \X Entities
    /\ goal.subjects # {} \/ goal.subjectGoals # {}
    /\ goal.direction \in {"outgoing", "incoming", "any", "none"}
    /\ goal.aggregation \in {"none", "union", "intersection", "direct"}
    /\ goal.targets \subseteq Kinds
    /\ goal.intent = "controlled_companies" => goal.types = {"controls"}
    /\ goal.intent = "locate" => goal.direction = "outgoing" /\ goal.aggregation = "none"
    /\ goal.intent \in Profiles <=> goal.direction = "none"
    /\ goal.aggregation = "direct" => goal.targets = {} /\ goal.subjects = goal.objects

SoundPlan(plan) ==
    /\ \E n \in Nat : n > 0 /\ Goals(plan) = 1..n
    /\ \A g \in Goals(plan) : SoundGoal(plan.goals[g], g)
    /\ LegalTasks(plan)

\* The goals of a sound plan depend on earlier ones.
LEMMA SoundIsInOrder ==
  ASSUME NEW plan, SoundPlan(plan)
  PROVE  InOrder(plan)
BY DEF SoundPlan, SoundGoal, InOrder

\* The references of a goal become entities.
LEMMA ExpandedRefs ==
  ASSUME NEW refs \in SUBSET References, NEW focus \in SUBSET Entities
  PROVE  /\ Expand(refs, focus) \subseteq {"named", "context"} \X Entities
         /\ \A r \in Expand(refs, focus) \ Named(Expand(refs, focus)) : r[2] \in focus
         /\ refs # {} /\ (\A r \in refs \ Named(refs) : \E e \in focus : Kind(e) = r[2])
               => Expand(refs, focus) # {}
<1>1. \A r \in refs : /\ r[1] = "named" => r[2] \in Entities /\ r = <<"named", r[2]>>
                      /\ r[1] # "named" => r[1] = "context" /\ r = <<"context", r[2]>>
  BY DEF References
<1>2. Named(refs) \subseteq {"named", "context"} \X Entities
  BY <1>1 DEF Named
<1> DEFINE members == {<<"context", e>> : e \in {x \in focus : <<"context", Kind(x)>> \in refs}}
<1>3. members \subseteq {"named", "context"} \X Entities /\ \A r \in members : r[2] \in focus
  <2>1. \A e \in focus : /\ <<"context", e>> \in {"named", "context"} \X Entities
                         /\ <<"context", e>>[2] = e
    OBVIOUS
  <2> QED
    BY <2>1
<1>4. Expand(refs, focus) = Named(refs) \cup members
  BY DEF Expand
<1>5. \A r \in Named(refs) : r \in Named(Expand(refs, focus))
  BY <1>4 DEF Named
<1>6. ASSUME NEW r \in refs \ Named(refs), \E e \in focus : Kind(e) = r[2]
      PROVE  members # {}
  <2>1. PICK e \in focus : Kind(e) = r[2]
    BY <1>6
  <2>2. r = <<"context", Kind(e)>>
    BY <1>1, <2>1 DEF Named
  <2>3. <<"context", e>> \in members
    BY <2>1, <2>2
  <2> QED
    BY <2>3
<1> HIDE DEF members
<1> QED
  BY <1>2, <1>3, <1>4, <1>5, <1>6

\* What the Planner may ask becomes a sound plan that refers to the focus.
LEMMA AskedPlanIsSound ==
  ASSUME NEW q \in [goals : Seq(GoalType) \ {<<>>}, shared : BOOLEAN],
         NEW focus \in SUBSET Entities,
         CoherentGoals(q.goals), ContextIsKnown(q, focus),
         \A g \in Goals(q) : LegalGoal(q.goals[g]), LegalTasks(ExpandPlan(q, focus))
  PROVE  /\ SoundPlan(ExpandPlan(q, focus))
         /\ LET refs == PlanRefs(ExpandPlan(q, focus))
            IN  Ids(refs \ Named(refs)) \subseteq focus
<1> DEFINE plan == ExpandPlan(q, focus)
           n == Len(q.goals)
<1>1. n \in Nat /\ n > 0 /\ Goals(q) = 1..n /\ \A g \in 1..n : q.goals[g] \in GoalType
  BY DEF Goals
<1>2. Goals(plan) = 1..n /\ \A g \in 1..n : plan.goals[g] = ExpandGoal(q.goals[g], focus)
  BY <1>1 DEF ExpandPlan, Goals
<1>3. ASSUME NEW g \in 1..n
      PROVE  /\ SoundGoal(plan.goals[g], g)
             /\ \A r \in Refs(plan.goals[g]) \ Named(Refs(plan.goals[g])) : r[2] \in focus
  <2> DEFINE old == q.goals[g]
             new == plan.goals[g]
             subjects == Expand(old.subjects, focus)
             objects == Expand(old.objects, focus)
             direct == old.aggregation = "direct"
  <2>1. old \in GoalType
    BY <1>1
  <2>2. /\ new.subjects = IF direct THEN subjects \cup objects ELSE subjects
        /\ new.objects = IF direct THEN subjects \cup objects ELSE objects
        /\ new.intent = old.intent /\ new.subjectGoals = old.subjectGoals
        /\ new.objectGoals = old.objectGoals /\ new.depends = old.depends
        /\ new.types = old.types /\ new.direction = old.direction
        /\ new.targets = old.targets /\ new.aggregation = old.aggregation
    <3> DEFINE S == IF direct THEN subjects \cup objects ELSE subjects
               O == IF direct THEN subjects \cup objects ELSE objects
    <3>1. new = [old EXCEPT !.subjects = S, !.objects = O]
      BY <1>2 DEF ExpandGoal
    <3> HIDE DEF S, O, old, new
    <3>2. /\ new.subjects = S /\ new.objects = O
          /\ new.intent = old.intent /\ new.subjectGoals = old.subjectGoals
          /\ new.objectGoals = old.objectGoals /\ new.depends = old.depends
          /\ new.types = old.types /\ new.direction = old.direction
          /\ new.targets = old.targets /\ new.aggregation = old.aggregation
      BY <2>1, <3>1 DEF GoalType
    <3> QED
      BY <3>2 DEF S, O
  <2> HIDE DEF new
  <2>3. old.subjects \in SUBSET References /\ old.objects \in SUBSET References
    BY <2>1 DEF GoalType
  <2>4. Refs(new) = subjects \cup objects
    BY <2>2 DEF Refs
  <2>5. Refs(new) \subseteq {"named", "context"} \X Entities
    BY <2>3, <2>4, ExpandedRefs
  <2>6. \A r \in Refs(new) \ Named(Refs(new)) : r[2] \in focus
    BY <2>3, <2>4, ExpandedRefs DEF Named
  <2>7. \A r \in old.subjects \ Named(old.subjects) : \E e \in focus : Kind(e) = r[2]
    <3>1. old.subjects \subseteq PlanRefs(q)
      BY <1>1 DEF PlanRefs, Refs
    <3>2. old.subjects \ Named(old.subjects) \subseteq PlanRefs(q) \ Named(PlanRefs(q))
      BY <3>1 DEF Named
    <3> QED
      BY <3>2 DEF ContextIsKnown
  <2>8. new.subjects # {} \/ new.subjectGoals # {}
    <3>1. old.subjects # {} \/ old.subjectGoals # {}
      BY <1>1 DEF LegalGoal
    <3>2. old.subjects # {} => subjects # {}
      BY <2>3, <2>7, ExpandedRefs
    <3> QED
      BY <2>2, <3>1, <3>2
  <2>9. new.depends \subseteq 1..(g - 1) /\ Inputs(new) \subseteq new.depends
    BY <1>1, <2>2 DEF CoherentGoals, LegalGoal, Inputs, Goals
  <2>10. /\ new.direction \in {"outgoing", "incoming", "any", "none"}
         /\ new.aggregation \in {"none", "union", "intersection", "direct"}
         /\ new.targets \subseteq Kinds
    BY <2>1, <2>2 DEF GoalType
  <2>11. /\ new.intent = "controlled_companies" => new.types = {"controls"}
         /\ new.intent = "locate" => new.direction = "outgoing" /\ new.aggregation = "none"
         /\ new.intent \in Profiles <=> new.direction = "none"
         /\ new.aggregation = "direct" => new.targets = {} /\ new.subjects = new.objects
    BY <1>1, <2>2 DEF LegalGoal
  <2> QED
    BY <2>5, <2>6, <2>8, <2>9, <2>10, <2>11 DEF SoundGoal, new
<1>4. SoundPlan(plan)
  BY <1>1, <1>2, <1>3 DEF SoundPlan
<1>5. Ids(PlanRefs(plan) \ Named(PlanRefs(plan))) \subseteq focus
  <2>1. ASSUME NEW r \in PlanRefs(plan) \ Named(PlanRefs(plan)) PROVE r[2] \in focus
    <3>1. PICK g \in 1..n : r \in Refs(plan.goals[g])
      BY <1>2 DEF PlanRefs
    <3>2. r \notin Named(Refs(plan.goals[g]))
      BY DEF Named
    <3> QED
      BY <1>3, <3>1, <3>2
  <2> HIDE DEF plan
  <2> QED
    BY <2>1 DEF Ids
<1> QED
  BY <1>4, <1>5

\* A lookup asks only for what the plan refers to.
LEMMA LookupRefs ==
  ASSUME NEW plan, NEW t \in Lookups(plan)
  PROVE  t.refs \subseteq PlanRefs(plan)
<1>1. \A kind : BatchRefs(plan, kind) \subseteq PlanRefs(plan)
  BY DEF BatchRefs, PlanRefs, Named
<1>2. \A kind : Batch(plan, kind).refs = BatchRefs(plan, kind)
  BY DEF Batch
<1>3. \A g \in Goals(plan) : Refs(plan.goals[g]) \subseteq PlanRefs(plan)
  BY DEF PlanRefs
<1> QED
  BY <1>1, <1>2, <1>3 DEF Lookups

\* The references of a sound plan are to entities.
LEMMA PlanIds ==
  ASSUME NEW plan, SoundPlan(plan)
  PROVE  /\ Ids(PlanRefs(plan)) \subseteq Entities
         /\ \A t \in Lookups(plan) : Ids(t.refs) \subseteq Entities
         /\ \A g \in Goals(plan) : Ids(Refs(plan.goals[g])) \subseteq Ids(PlanRefs(plan))
<1>1. \A r \in PlanRefs(plan) : r[2] \in Entities
  BY DEF PlanRefs, SoundPlan, SoundGoal
<1>2. \A g \in Goals(plan) : Refs(plan.goals[g]) \subseteq PlanRefs(plan)
  BY DEF PlanRefs
<1> QED
  BY <1>1, <1>2, LookupRefs DEF Ids

-----------------------------------------------------------------------------
(* What calls leave as it is.                                              *)

\* The input of a goal came out empty.
HasEmptyInput(goal, r) ==
    /\ Inputs(goal) # {}
    /\ r.subjects = {} \/ (goal.objectGoals # {} /\ r.objects = {})

AreLookedUp(research, refs) ==
    \A ref \in Named(refs) : \E l \in research.done : l.scope = "lookup" /\ ref \in l.refs

Explicit(plan, g) == {t \in RelationTasks(plan, g) : t.scope = "control_explicit"}

\* Which tasks are skipped, where the goal is open and its names are looked up.
LEMMA SkippedTasks ==
  ASSUME NEW research, NEW g, NEW r, NEW t
  PROVE  t \in Skipped(research, g, r.subjects, r.objects, r.open) <=>
           /\ r.open /\ AreLookedUp(research, Refs(research.plan.goals[g]))
           /\ t \in RelationTasks(research.plan, g) \ research.done
           /\ \/ HasEmptyInput(research.plan.goals[g], r)
              \/ /\ t.scope = "control_fallback"
                 /\ FactsOf(research, Explicit(research.plan, g)) # {}
<1> DEFINE goal == research.plan.goals[g]
           waiting == {ref \in Named(Refs(goal)) :
                         \A x \in research.done : x.scope # "lookup" \/ ref \notin x.refs}
<1>1. waiting = {} <=> AreLookedUp(research, Refs(goal))
  BY DEF AreLookedUp
<1> HIDE DEF waiting
<1> QED
  BY <1>1 DEF Skipped, waiting, HasEmptyInput, Explicit

\* Research goes on from one state to another by calls of tasks.
Continues(research, next, calls) ==
    /\ next.plan = research.plan
    /\ next.done = research.done \cup calls
    /\ calls \cap research.done = {}
    /\ \A t \in research.done : next.found[t] = research.found[t]
    /\ \A t \in calls : \A g \in Goals(research.plan) :
          t \in RelationTasks(research.plan, g) =>
             t \notin Skipped(research, g, Results(research)[g].subjects,
                              Results(research)[g].objects, TRUE)

\* What a call leaves as it is.
Keeps(r, s) ==
    /\ r.open => s.open /\ s.subjects = r.subjects /\ s.objects = r.objects
    /\ r.called => s.called
    /\ r.complete => /\ s.complete /\ s.results = r.results
                     /\ s.subjects = r.subjects /\ s.objects = r.objects

\* The relations of tasks that no call is made of stay the same.
LEMMA FactsStay ==
  ASSUME NEW research, NEW next, NEW calls, Continues(research, next, calls), NEW tasks
  PROVE  /\ FactsOf(research, tasks) \subseteq FactsOf(next, tasks)
         /\ tasks \cap calls = {} => FactsOf(next, tasks) = FactsOf(research, tasks)
<1>1. \A t \in tasks \cap research.done : t \in next.done /\ next.found[t] = research.found[t]
  BY DEF Continues
<1>2. tasks \cap calls = {} => tasks \cap next.done = tasks \cap research.done
  BY DEF Continues
<1> QED
  BY <1>1, <1>2 DEF FactsOf

\* One goal keeps what it has if the goals it depends on do.
LEMMA GoalKeeps ==
  ASSUME NEW research, NEW next, NEW calls, InOrder(research.plan),
         Continues(research, next, calls), NEW g \in Goals(research.plan),
         \A h \in research.plan.goals[g].depends : Keeps(Results(research)[h], Results(next)[h])
  PROVE  Keeps(Results(research)[g], Results(next)[g])
<1> DEFINE R == Results(research)
           N == Results(next)
           r == R[g]
           s == N[g]
           goal == research.plan.goals[g]
<1>1. next.plan = research.plan /\ next.done = research.done \cup calls
  BY DEF Continues
<1>2. /\ goal.depends \subseteq Goals(research.plan) /\ Inputs(goal) \subseteq goal.depends
      /\ goal.subjectGoals \subseteq Inputs(goal) /\ goal.objectGoals \subseteq Inputs(goal)
  BY DEF InOrder, Inputs
<1>3. /\ r.subjects = SubjectsOf(goal, R) /\ r.objects = ObjectsOf(goal, R)
      /\ r.open = (/\ \A h \in goal.depends : R[h].called
                   /\ \A h \in Inputs(goal) : R[h].complete)
      /\ r.ready = (\A h \in goal.depends : R[h].complete)
      /\ IsComplete(research, g, r) /\ IsResult(research, g, r)
  BY ResultParts
<1>4. /\ s.subjects = SubjectsOf(goal, N) /\ s.objects = ObjectsOf(goal, N)
      /\ s.open = (/\ \A h \in goal.depends : N[h].called
                   /\ \A h \in Inputs(goal) : N[h].complete)
      /\ s.ready = (\A h \in goal.depends : N[h].complete)
      /\ IsComplete(next, g, s) /\ IsResult(next, g, s)
  BY <1>1, ResultParts
<1>5. \A h \in goal.depends : Keeps(R[h], N[h])
  OBVIOUS
<1> HIDE DEF R, N
<1>6. ASSUME r.open PROVE s.open /\ s.subjects = r.subjects /\ s.objects = r.objects
  <2>1. \A h \in Inputs(goal) : N[h].results = R[h].results
    BY <1>2, <1>3, <1>5, <1>6 DEF Keeps
  <2>2. SubjectsOf(goal, N) = SubjectsOf(goal, R) /\ ObjectsOf(goal, N) = ObjectsOf(goal, R)
    BY <1>2, <2>1 DEF SubjectsOf, ObjectsOf
  <2>3. s.open
    BY <1>2, <1>3, <1>4, <1>5, <1>6 DEF Keeps
  <2> QED
    BY <1>3, <1>4, <2>2, <2>3
<1>7. ASSUME r.called PROVE s.called
  <2>1. SUFFICES ASSUME NEW t \in SkippedOf(research, g, r), t \notin next.done
                 PROVE  t \in SkippedOf(next, g, s)
    BY <1>1, <1>3, <1>4, <1>7 DEF IsComplete
  <2>2. /\ r.open /\ AreLookedUp(research, Refs(goal))
        /\ t \in RelationTasks(research.plan, g) \ research.done
        /\ \/ HasEmptyInput(goal, r)
           \/ /\ t.scope = "control_fallback"
              /\ FactsOf(research, Explicit(research.plan, g)) # {}
    BY <2>1, SkippedTasks DEF SkippedOf
  <2>3. AreLookedUp(next, Refs(goal))
    BY <1>1, <2>2 DEF AreLookedUp
  <2>4. HasEmptyInput(goal, r) => HasEmptyInput(goal, s)
    BY <1>6, <2>2 DEF HasEmptyInput
  <2>5. FactsOf(research, Explicit(research.plan, g)) # {}
           => FactsOf(next, Explicit(research.plan, g)) # {}
    BY FactsStay
  <2> QED
    BY <1>1, <1>6, <2>1, <2>2, <2>3, <2>4, <2>5, SkippedTasks DEF SkippedOf
<1>8. ASSUME r.complete
      PROVE  s.complete /\ s.results = r.results /\ s.subjects = r.subjects /\ s.objects = r.objects
  <2>1. r.ready /\ r.called /\ TasksForGoal(research.plan, g) # {}
    BY <1>3, <1>8 DEF IsComplete
  <2>2. \A h \in goal.depends : R[h].complete
    BY <1>3, <2>1
  <2>3. \A h \in goal.depends : R[h].called
    BY <1>2, <2>2, ResultParts DEF IsComplete, R
  <2>4. r.open = TRUE
    BY <1>2, <1>3, <2>2, <2>3
  <2>5. s.ready
    BY <1>4, <1>5, <2>2 DEF Keeps
  <2>6. s.complete
    BY <1>1, <1>4, <1>7, <2>1, <2>5 DEF IsComplete
  <2>7. CASE goal.intent \in Profiles
    BY <1>1, <1>3, <1>4, <1>6, <1>8, <2>4, <2>6, <2>7 DEF IsResult
  <2>8. CASE goal.intent \notin Profiles
    <3>1. RelationTasks(research.plan, g) \cap calls = {}
      <4> SUFFICES ASSUME NEW t \in RelationTasks(research.plan, g), t \in calls PROVE FALSE
        OBVIOUS
      <4>1. t \in TasksForGoal(research.plan, g) /\ t \notin research.done
        BY <2>8 DEF TasksForGoal, Continues
      <4>2. t \in SkippedOf(research, g, r)
        BY <1>3, <2>1, <4>1 DEF IsComplete
      <4> QED
        BY <2>4, <4>2 DEF SkippedOf, Continues, R
    <3>2. \A X \in SUBSET RelationTasks(research.plan, g) : FactsOf(next, X) = FactsOf(research, X)
      BY <3>1, FactsStay
    <3>3. /\ FactsOf(next, Explicit(research.plan, g)) = FactsOf(research, Explicit(research.plan, g))
          /\ Explicit(research.plan, g) \in SUBSET RelationTasks(research.plan, g)
      BY <3>2 DEF Explicit
    <3>4. /\ ActiveTasks(next, g) = ActiveTasks(research, g)
          /\ ActiveTasks(research, g) \in SUBSET RelationTasks(research.plan, g)
      BY <1>1, <3>3 DEF ActiveTasks, Explicit
    <3>5. Projected(next, g, s) = Projected(research, g, r)
      BY <1>1, <1>6, <2>4, <3>2, <3>4 DEF Projected
    <3> QED
      BY <1>1, <1>3, <1>4, <1>6, <1>8, <2>4, <2>6, <2>8, <3>5 DEF IsResult
  <2> QED
    BY <2>7, <2>8
<1> QED
  BY <1>6, <1>7, <1>8 DEF Keeps, R, N

\* No call takes anything from any goal.
LEMMA CallsKeep ==
  ASSUME NEW research, NEW next, NEW calls, InOrder(research.plan),
         Continues(research, next, calls)
  PROVE  \A g \in Goals(research.plan) : Keeps(Results(research)[g], Results(next)[g])
<1>1. PICK n \in Nat : Goals(research.plan) = 1..n
  BY DEF InOrder
<1> DEFINE S == {g \in 1..n : Keeps(Results(research)[g], Results(next)[g])}
<1>2. ASSUME NEW g \in 1..n, \A h \in 1..(g - 1) : h \in S PROVE g \in S
  <2>1. research.plan.goals[g].depends \subseteq 1..(g - 1)
    BY <1>1 DEF InOrder
  <2> QED
    BY <1>1, <1>2, <2>1, GoalKeeps
<1> HIDE DEF S
<1>3. 1..n \subseteq S
  BY <1>2, Smallest
<1> QED
  BY <1>1, <1>3 DEF S

=============================================================================
