-------------------------- MODULE MCVerifiedAnswer -------------------------
(* Small data and the questions asked of them, in three turns.             *)
EXTENDS VerifiedAnswer

CONSTANTS p1, c1, c2, l1, summary, city

Rel(s, t, e) == [source |-> s, type |-> t, target |-> e]

\* A company known only from a relation has no city.
Full == [e \in Entities |-> IF e = c2 THEN {summary} ELSE {summary, city}]

\* p1 controls one company and owns another; c1 is tied to itself and c2.
MCWorlds ==
    { [attributes |-> Full,
       facts |-> {Rel(p1, "controls", c1), Rel(p1, "owns", c2), Rel(c2, "owns", c1),
                  Rel(c1, "headquartered_in", l1)}],
      [attributes |-> Full,
       facts |-> {Rel(p1, "owns", c1), Rel(p1, "owns", c2), Rel(c1, "owns", c1),
                  Rel(c1, "owns", c2), Rel(c2, "owns", c1), Rel(c2, "headquartered_in", l1)}] }

Name(e) == <<"named", e>>
Names(S) == {Name(e) : e \in S}
Them(kind) == <<"context", kind>>

Goal(intent, subjects, direction) ==
    [intent |-> intent, subjects |-> subjects, objects |-> {},
     subjectGoals |-> {}, objectGoals |-> {}, depends |-> {},
     types |-> CASE intent = "controlled_companies" -> {"controls"}
                 [] intent = "locate" -> {"headquartered_in"}
                 [] OTHER -> {},
     direction |-> direction,
     targets |-> IF intent = "locate" THEN {"location"} ELSE {},
     attributes |-> {}, aggregation |-> "none"]

Ask1(goal) == [goals |-> <<goal>>, shared |-> TRUE]
Ask2(first, second) == [goals |-> <<first, second>>, shared |-> TRUE]

Profile(kind, refs, attributes) ==
    [Goal(IF kind = "person" THEN "person_profile" ELSE "company_profile", refs, "none")
       EXCEPT !.attributes = attributes]

ProfileQuestions ==
    { Ask1(Profile("person", Names({p1}), {a})) : a \in Attributes }
    \cup { Ask1(Profile("company", r, {a})) :
             a \in Attributes, r \in {Names({c1}), Names({c1, c2}), {Them("company")}} }
    \cup { [goals |-> <<Profile("company", Names({c1}), {a}),
                        Profile("company", {Them("company")}, {b})>>, shared |-> s] :
             a \in Attributes, b \in Attributes, s \in BOOLEAN }

Directions == {"outgoing", "incoming", "any"}

RelatedGoals ==
    { [Goal("related_companies", r, d) EXCEPT !.aggregation = a, !.targets = k, !.objects = o] :
        r \in {Names({p1}), Names({c1, c2}), {Them("company")}, {Name(c1), Them("person")}},
        d \in Directions, a \in {"none", "union", "intersection", "direct"},
        k \in {{}, {"company"}, {"company", "person"}},
        o \in {{}, Names({c2}), Names({c1, c2})} }

ControlGoals ==
    { [Goal("controlled_companies", r, d) EXCEPT !.aggregation = a, !.objects = o] :
        r \in {Names({p1}), Names({p1, c1})}, d \in {"outgoing", "incoming"},
        a \in {"none", "union"}, o \in {{}, Names({c2})} }

LocateGoals ==
    { [Goal("locate", r, "outgoing") EXCEPT !.objects = o] :
        r \in {Names({c1}), Names({c1, c2}), {Them("company")}}, o \in {{}, {Them("location")}} }

\* A first goal with company results, and what may be asked of those.
Firsts ==
    { [Goal(i, r, "outgoing") EXCEPT !.targets = {"company"}] :
        i \in {"related_companies", "controlled_companies"}, r \in {Names({p1}), Names({c2})} }

OfResults(goal) == [goal EXCEPT !.subjectGoals = {1}, !.depends = {1}]

Seconds ==
    { OfResults([Goal(i, {}, "outgoing") EXCEPT !.aggregation = a, !.objects = o]) :
        i \in {"related_companies", "controlled_companies"},
        a \in {"none", "union", "intersection"}, o \in {{}, Names({c2})} }
    \cup { OfResults(Goal("locate", {}, "outgoing")),
           OfResults(Profile("company", {}, {})),
           OfResults(Profile("company", Names({c1}), {summary})),
           Profile("person", Names({p1}), {summary}),
           Profile("person", Names({c1}), {}),
           [Profile("company", Names({c1}), {}) EXCEPT !.targets = {"person"}],
           OfResults([Goal("related_companies", Names({c2}), "outgoing")
                        EXCEPT !.aggregation = "direct"]),
           OfResults([Goal("related_companies", {}, "outgoing")
                        EXCEPT !.aggregation = "direct"]),
           [Goal("related_companies", Names({c1}), "incoming") EXCEPT !.depends = {1}],
           [Goal("related_companies", Names({c1}), "incoming")
              EXCEPT !.objectGoals = {1}, !.depends = {1}] }

\* Where the companies are that come of the first goal, the second or both.
Located(inputs) ==
    [Goal("locate", {}, "outgoing") EXCEPT !.subjectGoals = inputs, !.depends = inputs]

Ask3(first, second, third) ==
    [goals |-> <<first, [second EXCEPT !.targets = {"company"}], third>>, shared |-> TRUE]

Chains ==
    { Ask3(f, s, Located(inputs)) :
        f \in Firsts, s \in {x \in Seconds : /\ x.intent \notin Profiles
                                             /\ x.aggregation # "direct"},
        inputs \in {{2}, {1, 2}} }

\* A profile of a result, and a goal that takes its companies or only follows
\* it: where the first goal names no company the profile has no task.
ProfileChains ==
    { Ask3(f, OfResults(Profile("company", {}, {})), g) :
        f \in Firsts,
        g \in {Located({2}),
               [Goal("related_companies", Names({p1}), "any") EXCEPT !.depends = {2}]} }

Questions2 ==
    ProfileQuestions
      \cup { Ask1(g) : g \in RelatedGoals \cup ControlGoals \cup LocateGoals }
      \cup { Ask2(f, s) : f \in Firsts, s \in Seconds }
      \cup Chains \cup ProfileChains

\* First questions that leave different conversations behind.
Questions1 ==
    { Ask1(Profile("company", Names({c1}), {summary})),
      Ask1(Profile("company", Names({c1, c2}), {})),
      Ask1([Goal("related_companies", Names({p1}), "outgoing") EXCEPT !.targets = {"company"}]),
      Ask1([Goal("related_companies", Names({p1, c1}), "any") EXCEPT !.aggregation = "direct"]),
      Ask1([Goal("related_companies", Names({c2}), "any") EXCEPT !.types = {"controls"}]),
      Ask2(Goal("controlled_companies", Names({p1}), "outgoing"),
           Goal("locate", Names({c2}), "outgoing")) }

\* Last questions, about what the second left behind.
Questions3 ==
    { Ask1(Profile("company", {Them("company")}, {city})),
      Ask1(Profile("company", {Them("company"), Name(c1)}, {summary})),
      Ask1([Goal("related_companies", {Them("company")}, "outgoing")
              EXCEPT !.aggregation = "union"]) }

MCQuestions == <<Questions1, Questions2, Questions3>>

\* Questions of one turn, for what the code says of a form of goal.
ProfileChainQuestions == <<ProfileChains>>
=============================================================================
