# Verification of the search agent

TLA+ models of the search agent (`src/backend/app`, `src/frontend/src`), TLC runs
that check them on small instances, and TLAPS proofs of what should hold for every
setting. Paths such as `agents/graph.py` are relative to `src/backend/app`.

Run a model with `tlc -workers 2 -config turn_small.cfg AgentTurn`, check a proof
with `tlapm AgentTurnProofs.tla`.

## 1. The system

A browser posts a question to `POST /chat`. The service runs one *turn* of a
LangGraph state graph for the conversation: look the question up in long-term
memory, plan, research with read-only tools, render a verified answer, remember it.

| component | state it keeps | operations | talks to | what is hard |
|---|---|---|---|---|
| Agent turn `agents/graph.py`, `state.py` | the channels of one turn: status, error logs, counters, decision, cache match | 14 nodes and the routes between them | every component below, by calling it in a node | retries, reviews, replans and corrections that route backwards; budgets compared in three places |
| Planner `agents/planner.py` | retry, review and replan counters | `analyze`, `plan_tasks` | model client, prompt budget | a candidate is held for review; a replan starts a new cycle; two validators reject |
| Researcher `agents/researcher.py` | receipts (tool transcript), contracts, fingerprints, steps, tool calls | one model call and one tool call per step; `ResultGate` | model client, tools | which receipt completes which task; duplicates; budgets; replans |
| Visualizer `agents/visualizer.py` | one contract retry, focus | answer, project, `error_response` | model client | failing late, after research has succeeded; it validates again what the Researcher has validated, by other rules |
| Long-term memory `memory/chroma_store.py`, `canonicalizer.py`, `policy.py` | Chroma rows: document + metadata (status, count, hashes, scope, expiry) | `lookup_raw`, `lookup_canonical`, `_mark_stale`, `touch`, `write` | Chroma (external), the turn | several turns share rows, with no lock; expiry; change of data; any call fails |
| Short-term memory `agents/graph.py` (begin, merge, compact), `memory/compactor.py`, `graph_ops.py`, `checkpoint.py` | recent turns, summary, focus, session graph, latest graph | `begin_turn`, `merge_session_graph`, `compact_session` | LangGraph checkpointer (external) | turns cut off between supersteps; restarts on other data |
| Service `service.py`, `main.py` | a FIFO lock per conversation | `chat`, `get_graph` | the graph, the graph store | timeout, exception, cancellation in the middle of a turn |
| Public graph store `graph_store.py` | SQLite tables payloads and heads, one connection, a write lock | `save`, `get`, `get_latest_for_conversation` | SQLite (external) | readers between two statements; failure or cancellation at each |
| Tools and repository `tools/` | fixtures loaded once | entity search, relation query | files | three search modes that shadow each other; a limit on relations |
| Model client, prompts `llm.py`, `agents/prompts.py` | none | one call | provider (external) | outcomes only |
| Views, schemas, ids, config `state_views.py`, `evidence_contract.py`, `schemas.py`, `ids.py`, `config.py` | none | pure functions and validation | | the bounds of `Settings`; what a validator demands of a signature that another part derived |
| Frontend `App.tsx`, `api.ts`, `components/` | conversation id, messages, graph, query to retry | ask, retry, reset | `POST /chat`, through nginx | three time limits, lost connections, a retry while the first request still runs |

The properties that make each part correct, in a sentence:

* *Turn*: it ends, answered and with a decided status, within its budgets and
  within LangGraph's recursion limit; a failure names its stage and stays a failure.
* *Long-term memory*: a turn is served only an exact, verified, living result of the
  current data, and never another conversation's; the cache never holds a turn up.
* *Short-term memory and service*: turns of a conversation run one at a time in
  order; no remembered turn is lost, and each is counted once while none was cut off; the
  facts that are kept are of one data version; every request ends and releases its
  conversation.
* *Graph store*: a save takes effect at once or not at all, readers never see a head
  without its graph, and a graph_id never changes its meaning.
* *Researcher*: a goal's result is what the data say about it, whatever calls fail,
  are split or were made for an earlier plan; nothing proved is lost again; a legal
  plan only gets stuck at a name that means nothing or several things.
* *Answers* (goal results, signature, the four validations after it): what is shown is
  what the question has in the data; complete research is refused for known reasons
  only; what one validation accepted the next accepts; a follow-up finds a record of
  everything it may refer to, and nothing the data do not say.
* *Frontend*: an answer stands below its question, belongs to the conversation shown and
  is its last turn; nothing runs unseen unless the network lost something; the wait ends.

`PROJECT.json` lists the hazards of this code, each at the line where it bites, with
the properties that would catch it going wrong.

## 2. The modules

| module | models | proofs |
|---|---|---|
| `AgentTurn` | one turn: every node and route of `agents/graph.py`, the control of Planner, Researcher, ResultGate and Visualizer | `AgentTurnProofs` |
| `ResearchPlan` | plans and the rules by which the Planner accepts one (`_validate_task_plan`, `schemas.py`) | |
| `ResearchDag` | what receipts complete and which calls are ready: `Researcher._snapshot` and all it calls, with the entity and relation tools | `ResearchDagProofs` |
| `MCResearchDag` | the questions and worlds of the runs of `ResearchDag` | |
| `GoalResults` | typed goals, the tasks they compile to, the relation query, the results of goals (`schemas.py`, `planner.py`, `tools/`, `_build_goal_results`) | `GoalResultsProofs` |
| `AnswerContract` | the signature and every validation of it: Researcher, Visualizer, write policy, store | |
| `VerifiedAnswer` | a conversation: plan, research, verify, show, remember, reuse, refer back | `VerifiedAnswerProofs` |
| `MCVerifiedAnswer` | the questions and worlds of the runs of `VerifiedAnswer` | |
| `ChatSession` | the browser tab, the proxy and the service's turns (`App.tsx`, `api.ts`, `service.py`) | `ChatSessionProofs` |
| `VerifiedReuse` | abstract: what long-term memory promises | |
| `QueryCache` | `LongTermMemory` call by call, implements `VerifiedReuse` | `QueryCacheProofs` |
| `SessionMemory` | `ApplicationService.chat`, short-term memory, checkpoints | `SessionMemoryProofs` |
| `AtomicGraphStore` | abstract: a save is one step | |
| `GraphStore` | `GraphSnapshotStore.save` statement by statement, implements `AtomicGraphStore` | `GraphStoreProofs` |

How they fit together: a turn of `AgentTurn` is one turn of `QueryCache` (its cache
nodes are the calls there, everything else is `research` and `render`) and the four
nodes `begin_turn`, *agents*, `merge_session_graph`, `compact_session` of
`SessionMemory`, whose `SaveGraph` is the one step of `AtomicGraphStore`. The
Researcher's stay in a turn is `ResearchDag`, which computes what `AgentTurn` keeps as
`snapshot`; step budgets and provider failures are in `AgentTurn` only. `VerifiedAnswer`
composes `GoalResults` and `AnswerContract` along a conversation: it has what
`ResearchDag` leaves out of goals and nothing of its failing and partial calls.
`ChatSession` puts the browser in front of the service; a turn there is an entry of a
history, and the lock is the one of `SessionMemory`. Each module leaves open what the others decide: `AgentTurn` lets the cache and a snapshot be anything,
`QueryCache` lets a turn sign any request, `SessionMemory` lets the agents settle on
any answer. What is proved of one part therefore holds whatever the others do.

Definitions named `X_Word` are mutated forms of `X`, each a plausible bug. Every
property is seen to fail when its mutant takes the place of the definition.

### AgentTurn

A step is one superstep. `node` is the node that runs next, the other variables are
the channels of `AgentState` that control reads: the error logs are kept as "is
anything in it", the transcript as `snapshot` (`task`: a task is ready; `blocked`:
none is, and the plan is not complete; `nonempty`, `empty`: complete). Counters and
limits are the code's own. Each node is one action with all the outcomes its code
distinguishes: a model call that raises, a rejected answer, a candidate, an accepted
answer; a tool call that fails, is a duplicate, or returns. The answers themselves
are not modelled. `"refused"` stands for both `unsupported` and `realtime`, which
control treats alike. `RecursionError` is LangGraph's `GraphRecursionError`, raised
when the limit is reached and a node is still to run; `graph_recursion_limit` is chosen
at the start and fixed.

### ResearchPlan and ResearchDag

A plan has references (the user's words, a catalogue name, or an entity of the
conversation), goals in dependency order and tasks with dependencies. `LegalPlan` is
the Planner's validation; `DagAssumption` makes TLC check it of every plan a run uses,
so the runs never use a plan the program would refuse.

The state of `ResearchDag` is the turn's transcript and a few counters. As in the code
everything else is computed from the transcript at each step: `EntityPhase` folds the
entity receipts into bindings and completed tasks, `Snapshot` alternates `Skip` (tasks
that need no call) and `Match` (receipts that answer a task) to a fixed point, and
`Contracts` are the calls that would advance the plan. The code's loop ends when a
round completes nothing; the module runs one round per task, which is at least as many.
`CallTool` makes any call that fits a contract: a part of a batch of names, or a
relation call as it stands; it succeeds or fails. `Duplicate`, `Reject`, `GiveUp`,
`Finish` and `Replan` are the other ways a step ends. A transcript survives a replan.

The world (which text matches which entities, exactly or by similarity, and the
relations) is chosen at the start. `Meant` and `Truth` (goal after goal, `GoalTruth`) read
the answer to the question off it, without tasks, receipts or contracts; `FinishedIsTrue`, a
property of the step that ends research in an answer, compares.

Left to `GoalResults`: objects of a relation and the DIRECT aggregation, incoming
relations, target types, attributes, the query signature. Receipts of calls that were
not executed count towards no budget and are read by nothing here.

### GoalResults, AnswerContract, VerifiedAnswer

`GoalResults` has no state. A goal is the record of `ResearchGoal` with its intent,
operands (entities named, a set of the conversation, results of earlier goals), types,
direction, targets, attributes and aggregation; `LegalGoal`, `CoherentGoals`,
`OperandsAreApart` and `LegalTasks` are the validators of such plans. `ExpandPlan` puts
the members of the last focus in the place of a set, `Tasks` compiles the goals, the
tools are `LookupRecords` and `QueryRelations`, and `Results` computes goal after goal,
as `_build_goal_results` does, what is complete, skipped, found and kept in focus.

`AnswerContract` derives the signature of those results (`Signature`) and holds the five
verdicts passed on it: `FinishAccepted` (Researcher), `ShowAccepted` (Visualizer),
`PolicyAdmits` (write policy), and `RowIsValid` (store) on the way in and out. Researcher
and Visualizer share `RecordsProve`, on different catalogues.

`VerifiedAnswer` is the conversation. `Ask` plans a question, `LookUp` and
`FollowRelations` call its tasks in any order the Researcher admits, `Finish` verifies
or refuses, `Show` lets the Visualizer's model speak of any subset of the goals,
`Remember`, `Reuse` and `Replay` write and read rows, and each of them merges the answer
into the session graph, to which the next question refers. `TrueResults` reads the
answer off the world by quantifiers over relations, without tasks or projections.

Left out: raw relation words, the grouping of parallel goals (it only keeps the Planner
from rejecting a plan), evidence rows, headquarters expansion.

### VerifiedReuse and QueryCache

`VerifiedReuse` says who may be served what: a result some turn verified, for the
data in use, less than a TTL ago, and either for the same context-free question or
for the request this turn was understood as.

`QueryCache` has one action per Chroma call. A record id hashes signature, owner and
data version and is modelled by the three; a payload hash is modelled by the payload.
A lookup copies the rows it got (`candidates`), parses them one at a time, marks the
invalid ones stale and serves the first sound one; `touch` and `_mark_stale` write
back the *metadata snapshot* of the lookup, as the code does, so that other turns'
expiries, stale marks and upserts come in between. Every call may fail. The clock
ticks and the server restarts on other data at any time. The refinement is direct:
`QueryCache` extends `VerifiedReuse`, its turns, results and clock are the abstract
ones, and `ImplementsReuse` is the abstract specification.

### SessionMemory

`Submit` and `Acquire` are the lock of a conversation. `Step` ends a superstep: the live
channels are copied, and `Checkpoint` saves the copies in order, behind the running
turn. The first copy is of the channels that the turn found. A copy has values of its
own but for the summary: `compact_turns` changes that object in place
(`compactor.py:54`), in the thread of `compact_session`, and `begin_turn` passes on the
object it found unless the data changed. So `CompactTurns` is a step of its own, before
the superstep ends with `CompactSession`, and it changes the summary in every copy not
saved yet that shares it (`SharesSummary`). Of the summary a copy has the number of
turns (`summarized`), the data its fact, evidence and graph ids are of (`confirmed`),
and the data of the turns whose focus it mentions (`mentioned`). `Abort` is everything
that makes `ainvoke` raise (timeout, exception, recursion limit): the copies made so far
are saved, as the thread has left them. `Restart` is the death of the process: the
unsaved copies are lost, the locks are gone, the data may have changed. `SaveGraph` and
`SaveGraphFails` are the public store, the latter with the commit done or not when the
task was cancelled.

`arrivals` and `remembered` are history variables: requests in the order they came,
and turns whose `compact_session` checkpoint was saved.

### ChatSession

`Send`, `Retry` and `Reset` are the handlers of `App.tsx`, `Receive` and `Catch` the two
ends of `runQuery`. A request waits, runs, is saved and is done; `TurnEnds`, `TurnRaises`,
`TurnTimesOut`, `SaveEnds`, `SaveFails` and `Restart` end a stage. The connection breaks
noticed (`LoseConnection`) or not (`Hang`), the proxy and the browser give up at their
limits. `Tick` passes time once everything due has happened, so that a limit is never
missed; what has no limit, the save and the wait for the lock, may take any time.
`disturbed` is a history variable: a connection was lost or a save took its time.

### AtomicGraphStore and GraphStore

`rows` are the tables as the one connection sees them (and with it every reader),
`committed` as they survive a rollback. A save goes through `lock`, `select`,
`insert_payload`, `insert_head`, `commit`; at each it may fail, or be cancelled *after*
the connection's thread has executed the statement; `Reopen` is a crash or `close()`.

## 3. What is checked

| run | bounds | distinct states | what it shows |
|---|---|---|---|
| `turn_small` | step limit 3, ceiling 4, tools 2, replans 1, allowance 1, recursion limit 16 or 27 | 51,886 | within its budgets every turn ends answered; a failure is sticky and explained; with 27 no turn dies of the recursion limit, with 16, the lowest `Settings` accepts, only of that |
| `turn_review` (violation) | | | a terminal decision accepted without its review |
| `dag_answers` | 3 questions with 2, 3 and 1 plans, 32 worlds, 5 calls, 1 replan, 3 relations per page | 272,276 | finished research tells the truth about every goal, keeps its progress, and gets stuck at names only |
| `dag_renumbered` (violation) | 1 question whose plans number their tasks differently, 3 calls | | an entity receipt completes a relation task |
| `answers` | conversations of 3 questions (the legal ones of 6, then 686, then 3 drafts), 2 worlds of 4 and 6 relations, signatures of at most 2 ids | 151,255 | what is shown is true; complete research is refused for nine reasons, a verified result not shown for three forms of goal; follow-ups are grounded; no plan waits for itself |
| `answers_profiles` (violation) | 8 questions of three goals | | a goal is followed before one that it depends on |
| `cache_race` | 2 workers, 2 conversations, 1 question, 1 request, 2 answers, 4 turns, time 0..1, TTL 1 | 532,593 | racing touches, stale marks, rewrites and expiry: only verified, living results are served; every turn ends |
| `cache_questions` | 2 workers, 2 questions, 2 requests, 2 conversations, 2 data versions, 3 turns | 796,320 | scope: nothing leaks between conversations, questions, requests or data; an invalid row never hides a sound one |
| `session` | 2 requests, 2 conversations, 2 data versions, window 2/1/1 | 474,942 | history is kept, in order, with every answered turn, each counted once while none is cut off; the store follows the reply; facts of one data version; every request ends |
| `session_focus` (violation) | | | a cut-off turn leaves its focus behind |
| `graph_store` | 2 conversations, 2 ids, 2 contents | 8,845 | atomic saves, resolvable heads, stable ids |
| `chat` | limits of 1, 2 and 3 ticks for turn, proxy and browser, 2 questions, 3 requests | 187,891 | answers below their questions, of one conversation, its last turn; the wait ends |

Why these bounds are enough. `turn_small`: every limit is reached (two retries at
each validator, both reviews, one replan, the correction, both visualizer attempts),
and the higher recursion limit is one above the longest turn, so the run would find a
turn one superstep longer; with 26 it does. The theorems carry the result to all settings.
`dag_answers`: the questions have two control stages with a goal that consumes their
result, an intersection over two names looked up in one batch, and a profile that looks
a context entity up again; the worlds let a name match exactly, by similarity (where
its exact match is of the other type), under its catalogue name only, or ambiguously, and let control be explicit, a fallback, cut
off at the limit, or nothing. Five calls pay for the whole ladder of one name and two
relation stages, or for failures and a split batch before them; a replan may come
after any of them, and its plan keeps the id of a task that stays what it was. That
last restriction is a real one: `dag_renumbered` shows what happens without it.
`answers`: the questions are all forms of a goal (profiles, related and controlled
companies, locations), over one entity, several or a set of the conversation, in every
direction and aggregation, with and without objects and targets, and a second and third
goal on the results of the first; first questions leave six different conversations
behind, and third ones refer to what the second did. Three companies and persons and
one place give results of none, one and two members, a member related to itself, and a
company whose record has no city; two signed ids are exceeded by three.
`cache_race`: four turns on two workers let a row be written, reused, expire, be
marked stale and be rewritten while another turn still holds the first snapshot.
`cache_questions` has no clock: expiry is the subject of `cache_race`.
`session`: a window of two compacts at the second turn of a conversation, and its two
requests may also be of two conversations or wait for one lock, while the data change
between and within them. One request is cut off before, while and after its summary changes,
and the other compacts what it left. A third request and a second compaction are left to the proofs,
which cover all its safety properties. `graph_store`: a collision needs two
contents under one id, interference two conversations; the proofs cover the rest.
`chat`: three requests let a request that was given up still hold the lock while its
retry waits and a third is sent; the limits keep the order of 590, 600 and 615 seconds,
the largest values that `Settings` and nginx allow. `MaxSends`, `MaxTurns` and `MaxTime`
are bounds of the model, not of the code; all other bounds
are the sizes of constants. Deadlock is not checked where a model really stops: a
turn at `END`, all requests ended or sent, all turns begun.

**Fairness.** `AgentTurn`: weak fairness of `Next`; the Pregel loop starts the next
node when one returns, and each node returns because its model, tool and cache calls
have timeouts. `QueryCache`: weak fairness of each turn's next call, which returns or
raises. `SessionMemory`: weak fairness of what the server does for each request; the
event loop runs ready tasks and `asyncio.timeout` ends the others. Arrivals, restarts
and the clock are never forced. `ChatSession`: weak fairness of `Due` and of `Tick`, that
is, the timers of the browser, the proxy and `asyncio.timeout` fire; no turn, save or
response need ever come. `GraphStore` and `VerifiedAnswer`: none; that no plan of
`VerifiedAnswer` waits for itself is the invariant `NobodyWaits`.

### Where the code and its documents differ

Four violation runs, each a disagreement met while modelling:

* `turn_review`: the prompts promise a review of every terminal candidate; after a
  replan whose first analysis is rejected, the review of the *first* cycle still
  counts (`planner.py:1452`), because the reset of the count is a local variable.
* `dag_renumbered`: the Researcher is told that each goal advances by a complete receipt
  of its own (`prompts.py:923`); an entity receipt completes whatever current tasks its
  recorded task ids name, of any tool (`researcher.py:922-955`). When a replan gives the
  id of an earlier lookup to a relation task, that task is complete without a call and
  its goal verified as empty. The prompts do not ask the Planner to keep or avoid ids.
* `session_focus`: a failed turn is documented to leave the focus; one cut off after
  the Visualizer's answer has already replaced it in a checkpoint (`visualizer.py:204`).
* `answers_profiles`: a lookup that profiles share is to be the task of each, so that a goal
  that depends on one cannot silently omit it (`planner.py:785`). A profile that takes its
  entities from an earlier result only is covered by any entity lookup for one check
  (`planner.py:878`) and, if that is of the other kind, by none for the others
  (`task_ids_for_goal`, `_tasks_for_goal`): without a task it is never complete, the goals
  that depend on it are followed all the same, and those that take its results wait for
  ever. `NobodyWaits` and `RefusedForAReason` except it by name (`HasNoTask`).

Others were seen and are not runs:

* the Researcher's ceiling is the *larger* of `max_research_steps` and
  `agent_max_iterations` (`researcher.py:237`), while `config.py:50` calls the latter the
  absolute ceiling;
* a turn that missed writes WARM over a row that others have meanwhile reused to HOT
  (`chroma_store.py:605`, `src/README.md:28`);
* `touch` is documented to count exact reuse, but writes the count it read at lookup plus
  one (`chroma_store.py:504`, `514`), so concurrent reuses are lost;
* a receipt without an outcome for a reference is to bind it only when it proves the
  entity "for the reference's requested query" (`researcher.py:1130`); a batched call has
  no scalar query, which passes the test when the reference has no catalogue name
  either (`researcher.py:1139`), so the only entity of a partial batch may be bound to
  another reference of the batch. Likewise two references of the same words and different
  catalogue names, which the Planner accepts (`planner.py:536`), are each credited with what
  is found for the other (`NamesAreApart`);
* a receipt is credited to references by their index in the plan (`researcher.py:1094`), also
  to those of a later plan: after a replan that refers to Bob where the earlier plan had an
  entity of the conversation, Bob is bound to that entity, and the answer is about it
  (`RefsAreKept`);
* a profile of persons over references to companies is a legal plan (`planner.py:863`);
  `ResearchDag` excepts it by name (`ProfilesAreTyped`);
* a task must come after *some* task of each goal it depends on (`planner.py:856`). So the
  fallback of a control goal may wait for a task that takes the results of that goal: explicit
  control, then what the controlled companies own, then the fallback. It is a legal plan
  without a cycle of tasks, but the goal is complete only with its fallback, so the second
  task never gets its input, and nothing can be called (`PlansCanBeDone`);
* a timed-out tool call is marked retryable (`researcher.py:653`), but the same call again
  is a duplicate. `dag_answers` contains this; it costs a replan;
* the Researcher is to finish as soon as all goals are complete and one has a fact
  (`prompts.py:927`). `answers` has the plans, legal and with every task complete, whose
  `finish` is refused all the same; `RefusedForAReason` names the conditions, its parts
  are the cases:
  - the conversation's record of an entity replaces the one just looked up
    (`researcher.py:2021`), and so an attribute that only the new one has is lost; so is
    one of an entity that two lookups ask for different attributes, or that the data do
    not have (`AttributeIsLost`);
  - no aggregation, allowed for one subject, over a set of the conversation or of an
    earlier goal that has several members (`IsUncombined`);
  - target types, alternatives for the search, are all required of the result
    (`evidence_contract.py:183`, `HasAlternatives`);
  - a control goal on an earlier result that found explicit control, but none that makes a
    result, is signed as skipped for an empty input, since its second stage was not needed
    (`LooksSkipped`);
  - an intersection with a member that is a subject itself (`ResultIsSubject`);
  - a profile of a named entity and an earlier result together (`MixesProfile`);
  - a relation call returns up to 200 relations, a signature holds 100 ids
    (`schemas.py:791`, `IsTooLong`);
  - a profile of one kind whose target types name another (`AsksAnotherKind`), or that no
    task completes (`HasNoTask`);
* three forms of goal pass the Researcher, but no answer of the Visualizer's is accepted
  (`CannotBeShown`): a profile of an earlier result or without a task, an empty location
  search that names a location or consumes one, and a search that reaches some of the
  objects it names but not all;
* a control goal with the direction INCOMING is admitted and compiled to OUTGOING tasks
  (`planner.py:1136`): what is shown may say that nobody controls a company somebody does.
  `AnswerIsTrue` excepts it (`AsksControlBackwards`);
* a direct goal on an earlier result asks for relations from its subjects to its objects,
  although it is to find those among all its operands; where the two differ relations
  between subjects are missed. `AnswerIsTrue` excepts it (`SplitsOperands`);
* a union and an intersection are described to return the *outside* neighbours of their
  operands (`schemas.py:490`, `prompts.py:666`); `_project_goal_relations` counts every
  neighbour (`researcher.py:1803`), so operands that are tied to each other or to themselves
  are results, verified and shown: asked what two companies have in common, the answer may
  name one of the two. `TrueResult` reads the question as the schema does, and `AnswerIsTrue`
  excepts the questions where that matters (`ReachesOperand`);
* `compact_turns` is to compact "using replacement semantics" (`compactor.py:52`). It raises
  `summarized_turns` (`compactor.py:100`) in an object that earlier copies share, before the
  shorter window is in any copy. A turn cut off in between leaves a checkpoint that counts
  turns still in the window, and the next turn counts them again. In `HistoryIsKept` the
  count is exact only while no turn of the conversation was cut off
  (`TurnsAreCountedOnce`), and otherwise no turn is left out of it (`WindowIsNewest`);
* every failed message of the chat has a button to retry *this* question
  (`ChatWorkspace.tsx:149`), but retry sends the question of the last failure and removes
  all failed messages (`App.tsx:38`). `ChatSession` has one retry, for the last failure;
* `begin_turn` empties the summary's ids when the data have changed (`graph.py:223`), but a
  later compaction takes the focus ids of older turns back in (`compactor.py:87`). Nothing
  reads them from the summary; `OneDataVersion` says so of `mentioned`, and demands one
  version of everything else.

## 4. What is proved

TLAPS proves the following for every value of the constants that satisfies the
module's assumptions.

**AgentTurnProofs**, from `SettingsAssumption` (the lower bounds of `Settings`):
`TypeCorrect`, `ResearcherFunded`, `ReplanAdmitted`, `TurnLength`, `TurnCost`, and
`LimitNeverHit`: a turn whose `graph_recursion_limit` is above `SuperstepBound` never
dies of it. With
the defaults (2 replans, allowance 3, a hard ceiling of 20 steps, recursion limit 64)
`SuperstepBound` is 8 + 5·(2 + 1) + 2·20 = 63: the default limit is exactly enough, and
raising `max_replans` or the ceiling without it is not. `TurnLength` states the bound
itself and belongs to no run; `LimitNeverHit` is the property `turn_small` checks.

The inductive invariant is `TurnInv`:

* `TypeOK`;
* `RetryInv`: which pending flag, retry and review counts go together at each
  Planner node. Without it a retry could be granted again and again;
* `StepInv`: at each node between a gate and the Researcher, how far steps and
  replans are from their limits. It is what carries "the gate refused first" over the
  nodes in between, and implies `ResearcherEnteredWithBudget` and `ReplanAlwaysAdmitted`;
* `LengthInv`: supersteps so far, against a closed form of the counters and of the
  node, the potential function of the turn;
* `CallInv`: the same for model calls.

Each is preserved action by action; `TurnInv` follows, and the theorems by it.

On top of it: `TurnEndsAnswered`, `FailureIsExplained` and
`FailureStays`, the properties `EndsAnswered`, `FailedTurnIsExplained` and
`FailureIsSticky` of `turn_small`. None is inductive: which status a node leaves depends on
the route that led to it. `OutcomeInv` says where a turn can be once it has failed and that
it carries an explanation there (`FailureInv`), and that whoever comes to the tail is
answered and only a success was remembered (`AnswerInv`). `TurnInv` is needed for one step:
a retry the Visualizer grants is one the route follows.

**GraphStoreProofs**, from `StoreAssumption` (`None` is no name):
`StoreTypeCorrect`, `HeadsAlwaysResolve`, `NothingLeftBehind`, `CommittedIdIsStable`
and `StoreIsAtomic` (the refinement of `AtomicGraphStore`). The inductive invariant
`StoreInv` adds to `TypeOK` what a transaction has written before each statement
(`TransactionInv`) and that committed heads resolve.

**QueryCacheProofs**, from `CacheAssumption` (a positive TTL, names that differ):
`CacheImplementsReuse`, the refinement of `VerifiedReuse`, and `SoundRowsAreServed`, the
property `NoShadowing`. Rows say little about themselves: a touch or a stale mark may put
an older snapshot's metadata on a newer document. The inductive invariant `CacheInv` follows
the metadata instead, wherever a snapshot of it is (row, candidate, lookup, draft): it is
`Backed` by one verified result, whose hash, expiry and, if shared, question it bears. A
candidate that passes every check of the parse then *is* that result. `Control` says which
call a turn is at, and `Pending` that candidates are held during a parse only.

**ChatSessionProofs**, from `TimeoutAssumption` (a turn's limit is below the proxy's, the
proxy's below the browser's): `NothingIsLeftRunning`, the property `NothingRunsUnseen` of
run `chat`. The limits alone do not give it: an older request could still be running.
The inductive invariant `ChatInv` therefore says, beside the types of what the clocks
depend on (`ServiceType`), that while nothing was disturbed the one live request is the
one the browser waits for, and that its clock and the browser's agree (`ClocksAgree`).
Then the turn's own limit strikes first (`PatienceSuffices`).

`ChatTypes`, `AnswersFollow`, `OneConversation` and `LastTurn` are the other safety
properties of `chat`, for any number of questions, retries and resets. They relate the
messages to the history and the requests, and are not inductive. `TalkInv` has

* `LockInv`: who holds a conversation's lock has nobody before it, and its turns ran in the
  order in which they were asked for;
* `WaitInv`: the request that the browser waits for goes to the conversation it shows, and an
  answer on its way is the last word of that conversation (`IsFinal`);
* `LastIsPending`, `AnswersInv`, `RestInv`: which message is the question awaited or to be
  retried, that the answers are earlier turns of the conversation, in order, and that the
  last of them is its last word while nothing is awaited.

`Retry` filters the messages with a fold; `Embeds` says where each message kept was before,
by an induction on the smallest counterexample.

**SessionMemoryProofs**, from `SessionAssumption` (what a compaction keeps is below the
boundary that triggers the next one; `None` is no name and no graph): `SessionTypeCorrect`
and `TurnsAreKept` (the property `HistoryIsKept`), for any number of requests and any
window. The checkpoint lags behind the turn, any prefix of the copies still to be saved may
become the checkpoint, and the summary of those copies changes while they wait; so the
invariant cannot speak of the checkpoint alone. `SessionInv` has

* `TurnOK`: every copy is `Sound` (facts of one data version, a window below the boundary) and
  `Holds` the durable history, except the one `compact_session` made, which is the last of
  its turn and holds the history with that turn appended; a turn is not in the history
  before that copy is saved, and is in it when `ainvoke` returns. `Holds` has the window
  exactly and the count of the summary as a lower bound only: that is what survives
  `CompactTurns` in a copy whose window is still the old one (`SummarizedChannels`);
* `QueueOK`: the queue of a lock is the end of the arrivals, and the holder came just
  before it;
* `OrderOK`: remembered turns are among those that had the lock, in that order. With
  `QueueOK` it shows that a turn being appended is the newest (`HistoryGrows`).

The same module proves `ReplyIsPublic` and `ExplanationKeepsFocus`, the properties
`HeadFollowsReply` and `ExplainedTurnKeepsFocus` of `session`.
`ReplyInv` adds that the newest copy of a running turn, saved or not, is `Linked` to its live
channels: it has their focus and graph all the time, and all of them once `compact_session` is
over. This is why the reply, built from the live channels, and the next turn, which
starts from the checkpoint, see the same graph. After a restart the last request of a
conversation may be one that only waited; `QueueOK` shows that it was not replied to.

`FocusIsGrounded` is `FocusIsInSession` of `session`, and `TurnsAreCountedOnce` a part of
`HistoryIsKept`. The agents set the focus one superstep before its nodes are merged, and
`compact_turns` counts turns before they leave the window, so `IntactInv` speaks of
conversations no turn of which was cut off (`Unharmed`): for the running turn (`RunningOK`),
whose summary may be ahead of its window at `compact_session` only (`CountsAhead`), and for
what the next one starts from (`IdleOK`).

`CheckpointHasOneVersion` is `OneDataVersion`. Graph, `latest` and what the summary confirms
follow from `Sound`. For what it mentions, `MentionInv` says that every copy mentions the
focus of remembered turns or of its own data, and that the answer of a running turn is of the
data in use: the data change only with a restart, which ends the turn.
All safety properties of `SessionMemory` that hold are thereby proved.

**GoalResultsProofs**, from `EntityAssumption` (the kinds of entities are apart, and there
are finitely many): what the operators of `GoalResults` compute. `Results` is a fold, and so
a recursion over the goals. `ResultsUnfold` says that it is the one solution of its own
equation, goal after goal; the induction it takes is on the smallest counterexample, from the
well-foundedness of `<` (`Induction`, `Smallest`, `Greatest`). `ResultParts` reads a goal's
result as conditions on its parts. `SoundPlan` is what the validators and the expansion leave
of a plan (`AskedPlanIsSound`), and `CallsKeep` the heart of the matter: a further call of a
task that was due changes neither the operands of a goal that is open nor the result of one
that is complete.

**VerifiedAnswerProofs**, from that and the assumptions on worlds and questions (the data
speak of known entities; goals are of the types that the Planner's schema admits): all six
properties of `answers`, for any data, any questions and any number of turns.

* `ConversationIsGrounded` (`SessionIsGrounded`), `ResearchGoesOn` (`NobodyWaits`),
  `AnswersAreTrue` (`AnswerIsTrue`), `VerifiedIsShown` (`VerifiedCanBeShown`),
  `ShownIsStored` (`ShownIsRemembered`), `RefusalHasReason` (`RefusedForAReason`).

Two invariants carry them. `GroundedInv` says that every place a record can be in (research,
catalogue, remembered row, conversation) holds true ones, and that an answer that is shown
has its focus among its nodes. `AnswerInv` says what has happened on the way to where the
answer is:

* `PlanInv`: the plan is sound and refers to what the conversation knows;
* `ReceiptsInv`: every call was due, and brought what the data have between the operands that
  its goal has *now*. It is inductive because operands are settled before a call is made,
  which is what `CallsKeep` says;
* `RecordsInv`: every name looked up and every end of a relation found has a record, as a tool
  returned it until the Researcher adds those of the conversation;
* `NodesInv`: every graph, in the conversation or remembered, has the ends of its relations;
* `VerdictInv`: what the Researcher refused its checks refuse, what it verified they accept,
  and what was shown the Visualizer's accept.

The properties are then about one goal at a time. For `AnswerIsTrue` a complete goal's active
receipts are one query of the data (`FactsAreTrue`), whose projection is the set the property
describes (`SearchIsTrue`, `DirectIsTrue`); the goals together are the one solution of a
recursive equation. Two of them are compared: the code's results are all that the operands
reach (`ResultIsReached`), the property's only what is outside of them where the goal asks for
that; they agree where no union or intersection reaches an operand (`TrueResultsUnfold`,
`ReachedIsTrue`). For `VerifiedCanBeShown` every record the Visualizer's
checks read is among those it is given. For `RefusedForAReason` the nine reasons are denied
one by one of research whose tasks are complete, and each check of the signature then follows
from the projection (`LinksProve`, `DirectProves`), the lookups (`AttributesAreThere`), or the
goals it depends on (`SkipHasCause`): the list of reasons is complete.

**ResearchDagProofs**, from `DagAssumption` and `NoneAssumption` (no mode of a search is
`None`): all three properties of `dag_answers`, for any plans, worlds and calls, with failing,
split and truncated calls and any replans. `ProgressHolds` (`ProgressIsKept`), `FinishHolds`
(`FinishedIsTrue`) and `StuckHolds` (`StuckOnlyOnNames`) have hypotheses on the questions,
stated in `ResearchDag`. TLC evaluates them on the questions of `dag_answers`
(`QuestionsAssumption`), and found for each a question of legal plans without it that breaks
a property:

* `TaskIdsAreKept`, for all three: no plan of a question gives a relation task the id of
  another plan's lookup. Otherwise the receipt of that lookup completes the relation task
  without its facts, also when an earlier plan's relation receipt had already answered it: a
  result that was there is gone. This is what `dag_renumbered` is about.
* `ProfilesAreTyped`, for all three: the references of a profile are of its kind. The Planner
  does not check it. A lookup of no goal and of the other kind covers the profile, but is not
  counted among its tasks (`_tasks_for_goal`); with another task of the profile's own, the
  goal is complete before its reference is bound.
* `ProfilesAreNamed`, for the other two: profiles are asked of references. The code makes no
  result of a profile of other goals' results.
* `RefsAreKept` and `NamesAreApart`, for the other two: the plans of a question refer to the
  same entities in the same words and order, and new names of one kind differ in their words
  and have catalogue names. Without them a receipt is credited to the wrong name (section 3).
* `PlansCanBeDone`, for `StuckHolds`: the tasks can be given turns such that what a task waits
  for, and the goals whose results it takes, come before it. The counterexample is in
  section 3. That the Planner's other rules suffice, whatever the receipts are, is what the
  theorem adds.

The snapshot is computed anew from the whole transcript, so there is no state to carry an
invariant: the proof compares the snapshots of a transcript and of its front, round by
round. In each, a completed relation task is `Settled`: it has the facts of the one call
its goal's subjects determine, or its input is empty, or it is a fallback that was not
required. With that a goal complete in both has one result (`OneResult`), in whatever
round and order its tasks were completed; then each half of a round keeps the earlier
snapshot below the later one (`SkipKeepsBelow`, `MatchKeepsBelow`). The difficult case is a
fallback that was researched in one snapshot and not required in the other: control is
explicit in both, and its facts do not count. The invariant of the transitions,
`TranscriptInv`, says that entity receipts name lookups of the question's plans only.

For the other two the invariant is `LookupInv`, which adds what every lookup was when it was
made (`LookupOK`): by id when all its names were bound, or by name (`Asked`), each name in a
mode all earlier modes of which find nothing (`Climbed`). TLC checked it on the questions of
`dag_answers` first. It makes the order in which receipts come irrelevant: a snapshot binds a
name to what it means exactly if some receipt proves it (`BoundBy`, `SnapshotBinds`), although
the code binds whatever comes first. And the invariant is kept because bindings are so:
`NextMode` reads attempts, and an attempt that failed to bind was empty or ambiguous.

* `FinishHolds`: with every task complete and names bound to what they mean, the active facts
  of a goal are those the world holds of its subjects (`FactsOfGoal`, from `Settled`), so the
  results solve the equation that `Truth` solves, goal after goal (`ResultsAreTrue`).
* `StuckHolds`: as many rounds as there are tasks reach a fixed point, by counting completed
  tasks (`SnapshotIsDone`). Of the incomplete tasks take the first in turn. If it is a lookup,
  its ids or a name in the mode that is due make a contract, or the ladder of modes has ended
  at a name that means nothing (`LadderEnds`). If it is a relation task, its names are bound
  and its input is complete (`ClosureIsEarlier`, `GoalsBefore`): either the input is not empty,
  which makes a contract, or another round would complete the task.

Only model-checked: liveness (`TurnTerminates`, `EveryTurnEnds`, `EveryRequestEnds`,
`LoadingEnds`), out of the prover's reach. Every other property of a passing run is proved.

## 5. What is left out

* Validation of an analysis against the words of the question (one nondeterministic
  verdict in `AgentTurn`), prompt texts and their budget, the model client, projection of
  records to a graph's layout, reply assembly, logging, readiness and start-up.
* What the lists under ResearchPlan and GoalResults name.
* Failing, split and truncated calls in `VerifiedAnswer`: they are the subject of
  `ResearchDag`, which in turn has only the goals its questions need. A profile that takes
  results of other goals is not among them (`VerifiedAnswer` has it).
* `begin_turn` of an invalid session, `resolved_entities` and `user_goals` in
  `SessionMemory`; the locale, which is part of a question. `compact_turns` changes the fields
  of the summary one after the other; the module has them change in one step, so it does not
  show a checkpoint that has the new ids and the old count.
* Readers of the graph store change no state; the properties speak of the rows they see.
* Several tabs in `ChatSession`: the server sees them as more requests of a conversation,
  which `SessionMemory` has. Rendering of graphs.

## 6. Plan

Done, with their proofs: the turn, the graph store, the browser in front of the service,
long-term memory and its refinement, short-term memory, the way of an answer over a
conversation with the results of all goals and the validations, research plans and the
Researcher's snapshot with failing and partial calls. Next, in this order:

1. A composition of `SessionMemory` and `QueryCache` over one turn.
2. The prompt budget and the bounds of the compactor's lists as pure operators.
