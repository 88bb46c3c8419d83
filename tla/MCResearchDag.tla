--------------------------- MODULE MCResearchDag ----------------------------
(* Small worlds and questions for ResearchDag. *)
EXTENDS ResearchDag

Person(mention, canonical) ==
    [mention |-> mention, tool |-> "persons", canonical |-> canonical, context |-> None]
Known(entity, tool) ==
    [mention |-> "it", tool |-> tool, canonical |-> None, context |-> entity]

Goal(intent, refs, inputs, types, aggregation) ==
    [intent |-> intent, refs |-> refs, inputs |-> inputs, depends |-> inputs,
     types |-> types, aggregation |-> aggregation]
Lookup(goal, refs) ==
    [tool |-> "persons", goal |-> goal, refs |-> refs,
     scope |-> "not_applicable", depends |-> {}]
Relation(goal, refs, scope, depends) ==
    [tool |-> "relations", goal |-> goal, refs |-> refs, scope |-> scope, depends |-> depends]

\* What does Ann control, and what do those companies own? The second
\* plan waits for the explicit stage only.
Controlled ==
    LET draft(last) ==
            [refs |-> <<Person("Ann", "Anna")>>,
             goals |-> <<Goal("controlled_companies", {1}, {}, {"controls"}, "union"),
                         Goal("related_companies", {}, {1}, {"owns"}, "union")>>,
             tasks |-> [t1 |-> Lookup(None, {1}),
                        t2 |-> Relation(1, {1}, "control_explicit", {"t1"}),
                        t3 |-> Relation(1, {1}, "control_fallback", {"t2"}),
                        t4 |-> Relation(2, {}, "goal", {last})]]
    IN  {draft("t2"), draft("t3")}

\* Which companies do Ann and Bob both own? The relation task may have another
\* id, and the question may be taken for what either of them owns.
Common ==
    LET draft(id, aggregation) ==
            [refs |-> <<Person("Ann", "Anna"), Person("Bob", "Rob")>>,
             goals |-> <<Goal("related_companies", {1, 2}, {}, {"owns"}, aggregation)>>,
             tasks |-> ("t1" :> Lookup(None, {1, 2})
                          @@ id :> Relation(1, {1, 2}, "goal", {"t1"}))]
    IN  {draft("t2", "intersection"), draft("t3", "intersection"), draft("t2", "union")}

\* Who are Ann and these two, and what does the first of these control? The
\* ids are the Planner's choice.
Profile ==
    LET draft(lookup, relation) ==
            [refs |-> <<Person("Ann", "Anna"), Known("ann", "persons"), Known("bob", "persons")>>,
             goals |-> <<Goal("person_profile", {2, 3}, {}, {}, "none"),
                         Goal("person_profile", {1}, {}, {}, "none"),
                         Goal("related_companies", {2}, {}, {"controls"}, "union")>>,
             tasks |-> (lookup :> Lookup(None, {1, 2, 3})
                          @@ relation :> Relation(3, {2}, "goal", {}))]
    IN  {draft("t1", "t2"), draft("t2", "t1")}

\* A replan keeps the id of a task that is still what it was ...
IdsKept == {Controlled, Common, {p \in Profile : p.tasks["t1"].tool = "persons"}}
\* ... or numbers its tasks anew.
IdsReused == {Profile}

\* The questions that keep ids are of the kind the theorems are about, the
\* others are not.
ASSUME QuestionsAssumption ==
    /\ Questions = IdsKept =>
          /\ TaskIdsAreKept /\ ProfilesAreTyped /\ ProfilesAreNamed
          /\ RefsAreKept /\ NamesAreApart /\ PlansCanBeDone
    /\ Questions = IdsReused => ~TaskIdsAreKept

-----------------------------------------------------------------------------
Fact(source, type, target) == [source |-> source, type |-> type, target |-> target]

\* Ann's and Bob's names match exactly, by similarity where the exact match
\* is of the other type, under the catalogue name, several entities, or nothing.
Names(ann, bob) ==
    [exact |-> [Ann |-> ann[1], Anna |-> ann[3], Bob |-> bob[1], Rob |-> {"bob"}],
     fuzzy |-> [Ann |-> ann[2], Anna |-> {}, Bob |-> {}, Rob |-> {}]]

AnnNames ==
    {<<{"ann"}, {}, {"ann"}>>, <<{"acme"}, {"ann"}, {"ann"}>>, <<{}, {}, {"ann"}>>,
     <<{"ann", "bob"}, {}, {"ann"}>>}
BobNames == {<<{"bob"}>>, <<{}>>}

Companies == [ann |-> "persons", bob |-> "persons", acme |-> "companies", beta |-> "companies"]

\* Explicit control; only holdings, of which a call returns all but the
\* last; nothing.
SomeFacts ==
    LET holdings == {Fact("ann", "owns", "acme"), Fact("ann", "owns", "beta"),
                     Fact("bob", "owns", "beta")}
    IN  {{Fact("ann", "controls", "acme"), Fact("acme", "owns", "beta"),
          Fact("ann", "owns", "beta")},
         holdings,
         holdings \cup {Fact("bob", "owns", "acme"), Fact("acme", "owns", "beta")},
         {}}

SmallWorlds ==
    {Names(ann, bob) @@ [kind |-> Companies, facts |-> facts] :
        ann \in AnnNames, bob \in BobNames, facts \in SomeFacts}

=============================================================================
