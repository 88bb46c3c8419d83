-------------------------- MODULE AnswerContract ---------------------------
(***************************************************************************)
(* The verdicts an answer passes on its way out: the signature derived     *)
(* from the goal results (researcher.py, _derive_signature), the checks    *)
(* of the Researcher when it finishes (evidence_contract.py), those of the *)
(* Visualizer on what it is given (visualizer.py, _project), the policy    *)
(* that decides what is remembered (policy.py) and the store's own         *)
(* validation of a row (chroma_store.py, _validate_payload).               *)
(*                                                                         *)
(* A catalogue is a function from entities to the attributes of their      *)
(* record; the facts of a goal carry their ends. Every record has its      *)
(* evidence, and what research was begun at all is AgentTurn's.            *)
(***************************************************************************)
EXTENDS GoalResults

CONSTANT MaxSigned      \* subjects, objects or focus members of a signed goal

ASSUME MaxSignedAssumption == MaxSigned \in Nat

\* requires_explicit_relations; a profile has no relation types.
IsRelational(s) == s.intent \notin Profiles

\* Mutant: the operands of an empty goal are signed as its results are.
SignedObjects_ResultsOnly(goal, result) == result.results

SignedObjects(goal, result) ==
    result.results
      \cup IF goal.aggregation = "direct" \/ ~result.nonempty THEN result.objects ELSE {}

\* The types that brought something, of the stage the goal rests on.
EffectiveTypes(research, g) ==
    LET plan == research.plan
        explicit == {t \in RelationTasks(plan, g) : t.scope = "control_explicit"}
        stage == IF FactsOf(research, explicit) # {} THEN explicit
                 ELSE RelationTasks(plan, g)
        nonempty == {t \in stage : FactsOf(research, {t}) # {}}
    IN  IF \E t \in nonempty : AskedTypes(plan, t) = {} THEN {}
        ELSE UNION {AskedTypes(plan, t) : t \in nonempty}

\* _derive_signature for one goal, given its result.
SignedGoal(research, g, result) ==
    LET goal == research.plan.goals[g]
    IN  [intent |-> goal.intent,
         subjects |-> result.subjects,
         objects |-> SignedObjects(goal, result),
         types |-> EffectiveTypes(research, g),
         targets |-> goal.targets,
         attributes |-> goal.attributes,
         aggregation |-> goal.aggregation,
         depends |-> goal.depends,
         context |-> Ids(Refs(goal) \ Named(Refs(goal))),
         status |-> IF result.nonempty THEN "nonempty"
                    ELSE IF result.skipped THEN "skipped_empty_input" ELSE "verified_empty",
         facts |-> result.facts,
         entities |-> result.entities,
         focus |-> result.focus]

Signature(research) ==
    LET results == Results(research)
    IN  [g \in DOMAIN results |-> SignedGoal(research, g, results[g])]

Union(signature, Part(_)) == UNION {Part(signature[g]) : g \in DOMAIN signature}

SignedIds(s) == s.subjects \cup s.objects
SignedFocus(signature) == Union(signature, LAMBDA s : s.focus)
SignedContext(signature) == Union(signature, LAMBDA s : s.context)
SignedFacts(signature) == Union(signature, LAMBDA s : s.facts)

NoMatch(signature) == \A g \in DOMAIN signature : signature[g].status # "nonempty"

\* _project_goal_results: the entity records the Researcher selects. It
\* selects the relations of all goals.
SelectedEntities(research, signature) ==
    DOMAIN research.records \cap
       (Ids(PlanRefs(research.plan)) \cup Endpoints(SignedFacts(signature))
          \cup Union(signature, LAMBDA s : s.entities))

-----------------------------------------------------------------------------
(* validate_signature_records for the signature s of one goal.             *)

ProfileIsProved(s, catalog) ==
    LET kind == ProfileKind(s)
    IN  /\ SignedIds(s) # {}
        /\ s.entities = SignedIds(s)
        /\ \A e \in s.entities : Kind(e) = kind /\ s.attributes \subseteq catalog[e]
        /\ s.targets \subseteq {kind}

\* The subjects a result object is connected to, seen from the object.
ConnectedSubjects(s, o) ==
    {IF f.target = o THEN f.source ELSE f.target :
        f \in {x \in s.facts : /\ o \in {x.source, x.target}
                               /\ {x.source, x.target} \cap s.subjects # {}}}

\* Mutant: every subject of a goal needs a relation, a union's too.
SubjectsAreProved_UnionToo(s) ==
    s.subjects \subseteq Endpoints(s.facts) \/ s.aggregation = "direct" \/ s.intent = "locate"

SubjectsAreProved(s) ==
    \/ s.subjects \subseteq Endpoints(s.facts)
    \/ s.aggregation \in {"union", "direct"}
    \/ s.intent = "locate"

OperandsAreJoined(s) ==
    s.subjects # {} /\ s.objects # {} =>
       \E f \in s.facts : \/ f.source \in s.subjects /\ f.target \in s.objects
                          \/ f.source \in s.objects /\ f.target \in s.subjects

AggregationIsProved(s) ==
    /\ s.aggregation = "intersection" =>
          \A o \in s.objects : ConnectedSubjects(s, o) = s.subjects
    /\ s.aggregation = "direct" => Endpoints(s.facts) \subseteq SignedIds(s)

TargetsAreProved(s) ==
    /\ s.targets \subseteq {Kind(e) : e \in Endpoints(s.facts)}
    /\ s.targets # {} => \A o \in s.objects : Kind(o) \in s.targets

RelationsAreProved(s, catalog) ==
    /\ s.types = {} \/ \A f \in s.facts : f.type \in s.types
    /\ Endpoints(s.facts) \subseteq DOMAIN catalog
    /\ SubjectsAreProved(s)
    /\ s.objects \subseteq Endpoints(s.facts) \/ s.aggregation = "direct"
    /\ OperandsAreJoined(s)
    /\ AggregationIsProved(s)
    /\ TargetsAreProved(s)

RecordsProve(s, catalog) ==
    IF s.facts # {} THEN s.subjects # {} /\ RelationsAreProved(s, catalog)
    ELSE ~IsRelational(s) /\ ProfileIsProved(s, catalog)

\* expected_focus_entity_ids for one goal that is not empty.
ExpectedFocus(s) ==
    IF s.intent = "locate" THEN s.subjects
    ELSE IF s.facts # {} /\ s.aggregation # "direct" THEN s.objects
    ELSE SignedIds(s)

-----------------------------------------------------------------------------
(* The Researcher finishes (_finish).                                      *)

\* The length limits of QueryGoalSignature.
FitsSignature(s) ==
    \A ids \in {s.subjects, s.objects, s.focus} : Cardinality(ids) <= MaxSigned

\* _validate_goal_signature_records
GoalIsProved(signature, g, catalog) ==
    LET s == signature[g]
    IN  /\ s.subjects \subseteq DOMAIN catalog
        /\ s.status = "skipped_empty_input" =>
              \E h \in s.depends : signature[h].status # "nonempty"
        /\ s.status = "nonempty" =>
              /\ s.aggregation = "direct" => SignedIds(s) \subseteq s.entities
              /\ s.intent = "locate" => s.subjects \subseteq s.entities
              /\ RecordsProve(s, catalog)

FocusIsComplete(signature, selected) ==
    LET focus == SignedFocus(signature)
    IN  focus # {} /\ focus \subseteq selected \cup Endpoints(SignedFacts(signature))

FinishAccepted(signature, selected, catalog) ==
    /\ \A g \in DOMAIN signature : FitsSignature(signature[g])
    /\ NoMatch(signature) \/ \A g \in DOMAIN signature : GoalIsProved(signature, g, catalog)
    /\ FocusIsComplete(signature, selected)

-----------------------------------------------------------------------------
(* The Visualizer shows the result. It is given the selected records and   *)
(* the ends of the selected relations (_verified_catalog), and the model   *)
(* names the records its answer speaks of. A result is [signature,         *)
(* selected, catalog].                                                     *)

ShownGraph(r) ==
    [nodes |-> [e \in DOMAIN r.catalog \cap (r.selected \cup Endpoints(SignedFacts(r.signature)))
                   |-> r.catalog[e]],
     edges |-> SignedFacts(r.signature)]

\* What an empty goal keeps in view.
EmptyGoalKeepsFocus(s) ==
    /\ s.status = "skipped_empty_input" => s.focus = {}
    /\ s.status = "verified_empty" => s.focus = SignedIds(s)

\* _project on a verified empty result.
AbsenceIsProved(r) ==
    /\ \E g \in DOMAIN r.signature : IsRelational(r.signature[g])
    /\ r.selected = Union(r.signature, SignedIds)

\* _validate_goal_records for a goal that is not empty.
GoalIsShown(s, r) ==
    /\ s.facts # {} \/ s.entities # {}
    /\ RecordsProve(s, ShownGraph(r).nodes)
    /\ s.focus = ExpectedFocus(s)
    /\ s.focus \subseteq s.entities \cup Endpoints(s.facts)

SelectionIsProved(r) ==
    LET claimed == Union(r.signature, LAMBDA s : s.entities)
    IN  /\ claimed \subseteq r.selected
        /\ r.selected \subseteq claimed \cup Union(r.signature, SignedIds)
                                        \cup Endpoints(SignedFacts(r.signature))
        /\ \A g \in DOMAIN r.signature :
              r.signature[g].status = "nonempty" => GoalIsShown(r.signature[g], r)

\* _validate_goal_answer_support and the rule that absence cites nothing;
\* told are the goals of which the answer names a record.
AnswerIsSupported(signature, told) ==
    told = {g \in DOMAIN signature : signature[g].status = "nonempty"}

ShowAccepted(r, told) ==
    /\ r.selected # {}
    /\ IF NoMatch(r.signature) THEN AbsenceIsProved(r) ELSE SelectionIsProved(r)
    /\ \A g \in DOMAIN r.signature : EmptyGoalKeepsFocus(r.signature[g])
    /\ AnswerIsSupported(r.signature, told)
    /\ SignedFocus(r.signature) # {}
    /\ SignedFocus(r.signature) \subseteq DOMAIN ShownGraph(r).nodes

-----------------------------------------------------------------------------
(* Memory: what is remembered of a shown answer, and what a row must be.   *)

\* Mutant: a follow-up is remembered for everybody.
Scope_Everybody(signature) == "context_free"

\* A row is [draft, signature, graph, focus, scope].
Scope(signature) == IF SignedContext(signature) = {} THEN "context_free" ELSE "conversation"

\* decide_memory_write on a turn that succeeded.
PolicyAdmits(signature, graph, focus) ==
    /\ ~NoMatch(signature)
    /\ DOMAIN graph.nodes # {}
    /\ SignedFocus(signature) = focus
    /\ focus \subseteq DOMAIN graph.nodes
    /\ \A g \in DOMAIN signature :
          /\ signature[g].entities \subseteq DOMAIN graph.nodes
          /\ signature[g].facts \subseteq graph.edges
          /\ signature[g].status = "nonempty" /\ IsRelational(signature[g])
                => signature[g].facts # {}

\* _validate_payload on the way in and on the way out.
RowIsValid(row) ==
    /\ row.focus \subseteq DOMAIN row.graph.nodes
    /\ \A g \in DOMAIN row.signature :
          /\ row.signature[g].entities \subseteq DOMAIN row.graph.nodes
          /\ row.signature[g].facts \subseteq row.graph.edges
    /\ row.focus = SignedFocus(row.signature)
    /\ SignedContext(row.signature) # {} => row.scope = "conversation"

=============================================================================
