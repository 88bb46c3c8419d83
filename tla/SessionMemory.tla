---------------------------- MODULE SessionMemory ----------------------------
(***************************************************************************)
(* Short-term memory: what one conversation keeps from turn to turn.       *)
(* ApplicationService.chat runs the turns of a conversation one at a time  *)
(* under a FIFO lock; a turn works on a live copy of the tracked channels  *)
(* of AgentState, and the LangGraph SQLite checkpointer saves a copy after *)
(* every superstep, behind the running turn. A turn may be cut off by the  *)
(* chat timeout, by an exception or by the death of the process; only the  *)
(* process's death loses copies not saved yet. The public graph store      *)
(* advances the head of the conversation once the turn has ended.          *)
(*                                                                         *)
(* A turn of AgentTurn is four nodes here: begin_turn, the agents up to    *)
(* the node that settles the answer, merge_session_graph, compact_session. *)
(*                                                                         *)
(* A copy has the values of its channels, but the summary is one object    *)
(* that the copies of a turn refer to and that compact_turns changes, in a *)
(* worker thread: a copy has the summary of the moment when it is saved.   *)
(***************************************************************************)
EXTENDS Integers, Sequences

CONSTANTS
  Requests,             \* calls of POST /chat
  Conversations, Entities, Versions,
  ShortTermMaxTurns,    \* Settings.short_term_max_turns
  CompactOldest,        \* Settings.short_term_compact_oldest
  KeepRecent,           \* Settings.short_term_keep_recent
  None

\* Settings puts no bound on the three; what is left after a compaction must
\* be below the boundary that triggers the next one, as it is with 15/10/5.
ASSUME SessionAssumption ==
  /\ ShortTermMaxTurns \in Nat /\ CompactOldest \in Nat /\ KeepRecent \in Nat
  /\ KeepRecent < ShortTermMaxTurns
  /\ None \notin Requests \cup Conversations \cup Entities \cup Versions
  /\ None \notin [version : Versions, nodes : SUBSET Entities]  \* nor a graph

VARIABLES
  stored,     \* conversation -> the tracked channels of its last checkpoint
  head,       \* conversation -> the graph the public store shows for it
  waiting,    \* conversation -> requests waiting for its lock, first come first
  holder,     \* conversation -> the request that holds its lock, or None
  conv,       \* request -> its conversation, None before it is sent
  stage,      \* request -> what it does next, or how it ended
  live,       \* request -> the tracked channels of its running turn, or None
  unsaved,    \* request -> the copies made after its supersteps, not saved yet
  settled,    \* request -> what the agents made of it, None before
  prior,      \* request -> prior_focus_entity_ids, None before begin_turn
  data_version,
  \* History variables: no action depends on them.
  arrivals,   \* conversation -> every request sent to it, in order
  remembered  \* conversation -> the turns whose compact_session was saved

memoryVars == <<stored, head>>
lockVars == <<waiting, holder>>
requestVars == <<conv, stage, live, unsaved, settled, prior>>
historyVars == <<arrivals, remembered>>
vars == <<memoryVars, lockVars, requestVars, data_version, historyVars>>

\* A graph stands for its own graph_id, the hash of its content.
Graphs == [version : Versions, nodes : SUBSET Entities]
EmptyGraph(v) == [version |-> v, nodes |-> {}]

\* recent, total and latest are the channels recent_turns, total_turn_count and
\* latest_graph_id. Of the summary: summarized is summarized_turns, confirmed
\* the data that its fact, evidence and graph ids are of, and mentioned the
\* data of the turns whose focus its focus_entity_ids are.
Channels ==
  [recent : Seq(Requests), total : Nat,
   summarized : Nat, confirmed : SUBSET Versions, mentioned : SUBSET Versions,
   focus : SUBSET Entities, graph : Graphs \cup {None},
   latest : Graphs \cup {None}, version : Versions \cup {None}]

FirstChannels ==
  [recent |-> <<>>, total |-> 0,
   summarized |-> 0, confirmed |-> {}, mentioned |-> {},
   focus |-> {}, graph |-> None, latest |-> None, version |-> None]

Running ==
  {"begin_turn", "agents", "merge_session_graph", "compact_turns", "compact_session", "return"}
Ended == {"replied", "error", "lost"}
Stages == {"new", "lock", "save"} \cup Running \cup Ended

\* The answer, its focus (turn_focus_entity_ids), and of query_result_graph the
\* nodes and the data_version.
Settlements ==
  [outcome : {"success", "clarification", "failed"},
   focus : SUBSET Entities, nodes : SUBSET Entities, version : Versions]

\* What is to be checkpointed, and the superstep it is of.
Copies == [channels : Channels, node : Running \cup {"input"}]

TypeOK ==
  /\ stored \in [Conversations -> Channels]
  /\ head \in [Conversations -> Graphs \cup {None}]
  /\ waiting \in [Conversations -> Seq(Requests)]
  /\ holder \in [Conversations -> Requests \cup {None}]
  /\ conv \in [Requests -> Conversations \cup {None}]
  /\ stage \in [Requests -> Stages]
  /\ live \in [Requests -> Channels \cup {None}]
  /\ unsaved \in [Requests -> Seq(Copies)]
  /\ settled \in [Requests -> Settlements \cup {None}]
  /\ prior \in [Requests -> (SUBSET Entities) \cup {None}]
  /\ \A r \in Requests :
       /\ conv[r] = None <=> stage[r] = "new"
       /\ stage[r] \in Running \cup {"save"} => holder[conv[r]] = r
       /\ live[r] # None => stage[r] \in Running \cup {"save"}
  /\ data_version \in Versions
  /\ arrivals \in [Conversations -> Seq(Requests)]
  /\ remembered \in [Conversations -> Seq(Requests)]

Init ==
  /\ stored = [c \in Conversations |-> FirstChannels]
  /\ head = [c \in Conversations |-> None]
  /\ waiting = [c \in Conversations |-> <<>>]
  /\ holder = [c \in Conversations |-> None]
  /\ conv = [r \in Requests |-> None]
  /\ stage = [r \in Requests |-> "new"]
  /\ live = [r \in Requests |-> None]
  /\ unsaved = [r \in Requests |-> <<>>]
  /\ settled = [r \in Requests |-> None]
  /\ prior = [r \in Requests |-> None]
  /\ data_version \in Versions
  /\ arrivals = [c \in Conversations |-> <<>>]
  /\ remembered = [c \in Conversations |-> <<>>]

GoTo(r, s) == stage' = [stage EXCEPT ![r] = s]

-----------------------------------------------------------------------------
(* The lock of a conversation. *)

\* asyncio.Lock wakes its waiters in the order they came.
Enqueued(queue, r) == Append(queue, r)

\* POST /chat arrives and queues for _conversation_locks[conversation_id].
Submit(r, c) ==
  /\ conv[r] = None
  /\ conv' = [conv EXCEPT ![r] = c]
  /\ GoTo(r, "lock")
  /\ waiting' = [waiting EXCEPT ![c] = Enqueued(@, r)]
  /\ arrivals' = [arrivals EXCEPT ![c] = Append(@, r)]
  /\ UNCHANGED <<memoryVars, holder, live, unsaved, settled, prior, data_version, remembered>>

\* Mutant: the lock does not keep a second turn out.
Unlocked_Always(c) == TRUE

Unlocked(c) == holder[c] = None

Acquire(r) ==
  LET c == conv[r] IN
  /\ stage[r] = "lock" /\ Unlocked(c) /\ r = Head(waiting[c])
  /\ holder' = [holder EXCEPT ![c] = r]
  /\ waiting' = [waiting EXCEPT ![c] = Tail(@)]
  /\ GoTo(r, "begin_turn")
  /\ UNCHANGED <<memoryVars, conv, live, unsaved, settled, prior, data_version, historyVars>>

\* Mutant: a turn that raises leaves its conversation locked.
End_Locked(r, how) ==
  /\ GoTo(r, how)
  /\ live' = [live EXCEPT ![r] = None]
  /\ unsaved' = [unsaved EXCEPT ![r] = <<>>]
  /\ holder' = [holder EXCEPT ![conv[r]] = IF how = "error" THEN @ ELSE None]

\* The turn of r is over: the channels are dropped and the lock is released.
End(r, how) ==
  /\ GoTo(r, how)
  /\ live' = [live EXCEPT ![r] = None]
  /\ unsaved' = [unsaved EXCEPT ![r] = <<>>]
  /\ holder' = [holder EXCEPT ![conv[r]] = None]

-----------------------------------------------------------------------------
(* The supersteps of a turn. *)

\* A superstep of r is over: its channels are copied for the checkpointer,
\* which comes after the copies there are.
StepAfter(copies, r, channels, next) ==
  /\ live' = [live EXCEPT ![r] = channels]
  /\ unsaved' = [unsaved EXCEPT
       ![r] = Append(copies, [channels |-> channels, node |-> stage[r]])]
  /\ GoTo(r, next)
  /\ UNCHANGED <<memoryVars, lockVars, conv, data_version, historyVars>>

Step(r, channels, next) == StepAfter(unsaved[r], r, channels, next)

\* begin_turn: facts of another data version are forgotten, the turns are not.
Rollover(channels) ==
  \/ channels.version \notin {None, data_version}
  \/ channels.graph # None /\ channels.graph.version # data_version

\* Mutant: the graph's own version is not looked at, only that it is there.
Restored_KeepsGraph(channels) ==
  [channels EXCEPT
     !.focus = IF Rollover(channels) THEN {} ELSE @,
     !.latest = IF Rollover(channels) THEN None ELSE @,
     !.confirmed = IF Rollover(channels) THEN {} ELSE @,
     !.mentioned = IF Rollover(channels) THEN {} ELSE @,
     !.graph = IF @ = None THEN EmptyGraph(data_version) ELSE @,
     !.version = data_version]

\* Mutant: the focus survives a change of the data.
Restored_KeepsFocus(channels) ==
  [channels EXCEPT
     !.latest = IF Rollover(channels) THEN None ELSE @,
     !.confirmed = IF Rollover(channels) THEN {} ELSE @,
     !.mentioned = IF Rollover(channels) THEN {} ELSE @,
     !.graph = IF Rollover(channels) \/ @ = None THEN EmptyGraph(data_version) ELSE @,
     !.version = data_version]

Restored(channels) ==
  [channels EXCEPT
     !.focus = IF Rollover(channels) THEN {} ELSE @,
     !.latest = IF Rollover(channels) THEN None ELSE @,
     !.confirmed = IF Rollover(channels) THEN {} ELSE @,
     !.mentioned = IF Rollover(channels) THEN {} ELSE @,
     !.graph = IF Rollover(channels) \/ @ = None THEN EmptyGraph(data_version) ELSE @,
     !.version = data_version]

\* ainvoke has copied the channels it found with the input of the turn.
BeginTurn(r) ==
  LET found == stored[conv[r]]
      channels == Restored(found)
  IN
  /\ stage[r] = "begin_turn"
  /\ StepAfter(<<[channels |-> found, node |-> "input"]>>, r, channels, "agents")
  /\ prior' = [prior EXCEPT ![r] = channels.focus]
  /\ UNCHANGED settled

\* cache_hydrate or the Visualizer's accepted answer: the focus lies in its graph.
Succeed(r) ==
  /\ stage[r] = "agents"
  /\ \E nodes \in SUBSET Entities : \E focus \in SUBSET nodes :
       /\ settled' = [settled EXCEPT
            ![r] = [outcome |-> "success", focus |-> focus, nodes |-> nodes,
                    version |-> data_version]]
       /\ Step(r, [live[r] EXCEPT !.focus = focus], "merge_session_graph")
  /\ UNCHANGED prior

\* Mutant: a clarification or a failure stores its empty turn focus.
KeptFocus_Emptied(r) == {}

\* focus_entity_ids after a clarification or error_response.
KeptFocus(r) == live[r].focus

Explain(r) ==
  /\ stage[r] = "agents"
  /\ \E outcome \in {"clarification", "failed"} :
       settled' = [settled EXCEPT
         ![r] = [outcome |-> outcome, focus |-> {}, nodes |-> {}, version |-> data_version]]
  /\ Step(r, [live[r] EXCEPT !.focus = KeptFocus(r)], "merge_session_graph")
  /\ UNCHANGED prior

\* merge_graphs: a graph of another data version is not merged with.
MergedNodes(previous, delta) ==
  IF previous = None THEN delta.nodes
  ELSE IF previous.version # delta.version THEN delta.nodes
  ELSE previous.nodes \cup delta.nodes

MergeSessionGraph(r) ==
  LET delta == [version |-> data_version, nodes |-> settled[r].nodes]
      merged == [version |-> data_version, nodes |-> MergedNodes(live[r].graph, delta)]
  IN /\ stage[r] = "merge_session_graph"
     /\ Step(r, [live[r] EXCEPT !.graph = merged, !.latest = merged], "compact_turns")
     /\ UNCHANGED <<settled, prior>>

AtMost(a, b) == IF a < b THEN a ELSE b
AtLeast(a, b) == IF a < b THEN b ELSE a

\* compact_turns: how many of the oldest turns go into the summary.
NumberToCompact(turns) ==
  IF Len(turns) < ShortTermMaxTurns THEN 0
  ELSE AtMost(AtLeast(CompactOldest, Len(turns) - KeepRecent), Len(turns))

\* A copy whose summary is the object that compact_turns changes: begin_turn
\* keeps the object it finds, but for the first turn and after a rollover.
SharesSummary(channels) == channels.version # None /\ ~Rollover(channels)

\* The summary after n turns with a focus of these data were compacted.
Summarized(channels, n, versions) ==
  [channels EXCEPT !.summarized = @ + n,
     !.confirmed = @ \cup {data_version}, !.mentioned = @ \cup versions]

\* The data that the focus of the session and of the first n turns is of.
FocusVersions(focus, turns, n) ==
  (IF focus # {} THEN {data_version} ELSE {})
    \cup {settled[turns[i]].version : i \in {j \in 1..n : settled[turns[j]].focus # {}}}

\* compact_turns, in compact_session: the thread of r changes the summary
\* in place, and with it every copy not saved yet that refers to it.
CompactTurns(r) ==
  LET turns == Append(live[r].recent, r)
      n == NumberToCompact(turns)
      changed(channels) == Summarized(channels, n, FocusVersions(live[r].focus, turns, n))
      shared(copy) ==
        IF SharesSummary(copy.channels)
        THEN [copy EXCEPT !.channels = changed(copy.channels)] ELSE copy
  IN
  /\ stage[r] = "compact_turns"
  /\ live' = [live EXCEPT ![r] = changed(live[r])]
  /\ unsaved' = [unsaved EXCEPT ![r] = [i \in DOMAIN unsaved[r] |-> shared(unsaved[r][i])]]
  /\ GoTo(r, "compact_session")
  /\ UNCHANGED <<memoryVars, lockVars, conv, settled, prior, data_version, historyVars>>

\* Mutant: the newest turns are summarized and the oldest are kept.
Compacted_KeepsOldest(channels, r) ==
  LET turns == Append(channels.recent, r)
      n == NumberToCompact(turns)
  IN [channels EXCEPT !.recent = SubSeq(turns, 1, Len(turns) - n), !.total = @ + 1]

Compacted(channels, r) ==
  LET turns == Append(channels.recent, r)
      n == NumberToCompact(turns)
  IN [channels EXCEPT !.recent = SubSeq(turns, n + 1, Len(turns)), !.total = @ + 1]

\* The superstep of compact_session is over.
CompactSession(r) ==
  /\ stage[r] = "compact_session"
  /\ Step(r, Compacted(live[r], r), "return")
  /\ UNCHANGED <<settled, prior>>

-----------------------------------------------------------------------------
(* The checkpointer, and the ways a turn ends. *)

\* The first n copies of r are in the checkpoint database.
Saved(r, n) ==
  /\ stored' = [stored EXCEPT ![conv[r]] = IF n = 0 THEN @ ELSE unsaved[r][n].channels]
  /\ remembered' = [remembered EXCEPT ![conv[r]] =
       IF \E i \in 1..n : unsaved[r][i].node = "compact_session" THEN Append(@, r) ELSE @]

\* AsyncSqliteSaver saves the copies one by one while the turn goes on.
Checkpoint(r) ==
  /\ unsaved[r] # <<>>
  /\ Saved(r, 1)
  /\ unsaved' = [unsaved EXCEPT ![r] = Tail(@)]
  /\ UNCHANGED <<head, lockVars, conv, stage, live, settled, prior, data_version, arrivals>>

AllSaved(r) == unsaved[r] = <<>>

\* ainvoke returns once every copy is saved; the response is built from the channels.
Return(r) ==
  /\ stage[r] = "return" /\ AllSaved(r)
  /\ GoTo(r, "save")
  /\ UNCHANGED <<memoryVars, lockVars, conv, live, unsaved, settled, prior, data_version, historyVars>>

\* The chat timeout, an exception of a node or the recursion limit: ainvoke
\* saves the copies of the supersteps that are over, then raises. A thread
\* that was at work meanwhile is not stopped.
Abort(r) ==
  /\ stage[r] \in Running
  /\ Saved(r, Len(unsaved[r]))
  /\ End(r, "error")
  /\ UNCHANGED <<head, waiting, conv, settled, prior, data_version, arrivals>>

\* Mutant: the store is given the graph of this turn's answer only.
PublicGraph_OfTurn(r) == [version |-> data_version, nodes |-> settled[r].nodes]

\* _build_response publishes the session graph.
PublicGraph(r) == live[r].graph

\* graph_store.save (atomic: see GraphStore) and the reply.
SaveGraph(r) ==
  /\ stage[r] = "save"
  /\ head' = [head EXCEPT ![conv[r]] = PublicGraph(r)]
  /\ End(r, "replied")
  /\ UNCHANGED <<stored, waiting, conv, settled, prior, data_version, historyVars>>

\* graph_store.save raises, perhaps cancelled during its commit: the turn is
\* remembered, the caller gets an error.
SaveGraphFails(r) ==
  /\ stage[r] = "save"
  /\ head' = head \/ head' = [head EXCEPT ![conv[r]] = PublicGraph(r)]
  /\ End(r, "error")
  /\ UNCHANGED <<stored, waiting, conv, settled, prior, data_version, historyVars>>

\* The process dies and comes back, perhaps on other data: locks, queues and
\* live channels are gone, and so are the copies not saved yet.
Restart ==
  /\ stage' = [r \in Requests |->
       IF stage[r] \in {"new"} \cup Ended THEN stage[r] ELSE "lost"]
  /\ live' = [r \in Requests |-> None]
  /\ unsaved' = [r \in Requests |-> <<>>]
  /\ waiting' = [c \in Conversations |-> <<>>]
  /\ holder' = [c \in Conversations |-> None]
  /\ data_version' \in Versions
  /\ UNCHANGED <<memoryVars, conv, settled, prior, historyVars>>

\* What the server does for r by itself.
Work(r) ==
  \/ Acquire(r) \/ BeginTurn(r) \/ Succeed(r) \/ Explain(r) \/ MergeSessionGraph(r)
  \/ CompactTurns(r) \/ CompactSession(r) \/ Checkpoint(r) \/ Return(r) \/ Abort(r)
  \/ SaveGraph(r) \/ SaveGraphFails(r)

Next ==
  \/ \E r \in Requests, c \in Conversations : Submit(r, c)
  \/ \E r \in Requests : Work(r)
  \/ Restart

\* The event loop runs every turn on, and the timeout ends one that hangs.
Spec == Init /\ [][Next]_vars /\ \A r \in Requests : WF_vars(Work(r))

-----------------------------------------------------------------------------
(* Properties. *)

Elements(seq) == {seq[i] : i \in DOMAIN seq}

\* The turns of a conversation whose lock is free or taken by the last of them:
\* the request that got the lock last, None if there is none.
LastTurn(c) ==
  LET begun == Len(arrivals[c]) - Len(waiting[c])
  IN IF begun = 0 THEN None ELSE arrivals[c][begun]

\* No turn of the conversation was cut off, or lost its place to a restart.
Unharmed(c) == \A r \in Elements(arrivals[c]) : stage[r] \notin {"error", "lost"}

\* The window of a checkpoint is the newest turns in order, total_turn_count
\* counts all turns, and the summary at least those that left the window.
WindowIsNewest ==
  \A c \in Conversations :
    LET s == stored[c]
        older == s.total - Len(s.recent)
    IN  /\ s.total = Len(remembered[c]) /\ older \in 0..s.summarized
        /\ s.recent = SubSeq(remembered[c], older + 1, s.total)

\* The visible context stays below the boundary that triggers compaction, in
\* every checkpoint and in the turn that runs.
WindowIsBounded ==
  /\ \A c \in Conversations : Len(stored[c].recent) < ShortTermMaxTurns
  /\ \A r \in Requests : live[r] # None => Len(live[r].recent) < ShortTermMaxTurns

\* A turn whose answer reached the caller is in the durable history of its
\* conversation, exactly once, and stays there through timeouts and restarts.
RepliedIsRemembered ==
  \A r \in Requests : stage[r] = "replied" =>
    \E i \in DOMAIN remembered[conv[r]] :
      \A j \in DOMAIN remembered[conv[r]] : remembered[conv[r]][j] = r <=> i = j

\* Turns of one conversation are remembered in the order their requests came:
\* position i of the history was sent before position i + 1.
HistoryIsInOrder ==
  \A c \in Conversations : \A i, j \in DOMAIN remembered[c] : i < j =>
    \E m, n \in DOMAIN arrivals[c] :
      m < n /\ arrivals[c][m] = remembered[c][i] /\ arrivals[c][n] = remembered[c][j]

\* While no turn of a conversation was cut off each of its turns is counted
\* once, in the window or by the summary. A turn that is cut off while it
\* compacts leaves a checkpoint that counts turns which are still in the window.
TurnsAreCountedOnce ==
  \A c \in Conversations :
    Unharmed(c) /\ holder[c] = None
      => stored[c].summarized + Len(stored[c].recent) = stored[c].total

\* No turn that was remembered is lost or moved, whatever is cut off or
\* compacted: it is in the window or counted by the summary, and not by both
\* unless a turn of its conversation was cut off. Every turn that was answered
\* is remembered.
HistoryIsKept ==
  /\ WindowIsNewest /\ WindowIsBounded /\ TurnsAreCountedOnce
  /\ RepliedIsRemembered /\ HistoryIsInOrder

\* When the last turn of a conversation was replied to, the public graph store
\* and the checkpoint agree on the conversation's graph: GET /graph shows what
\* the next turn will build on.
HeadFollowsReply ==
  \A c \in Conversations :
    holder[c] = None /\ LastTurn(c) # None /\ stage[LastTurn(c)] = "replied" =>
      head[c] = stored[c].graph /\ head[c] = stored[c].latest

\* The data that the remembered turns of a conversation ran on.
VersionsRun(c) == {settled[r].version : r \in Elements(remembered[c])}

\* The facts of a checkpoint are of one data version: the session graph,
\* latest_graph_id, and what the summary confirms, through changes of the data
\* and copies saved late. Not so the focus ids that the summary mentions:
\* compact_turns takes those of older turns back in, of the data they ran on.
OneDataVersion ==
  \A c \in Conversations :
    LET s == stored[c] IN
    /\ s.graph # None => s.graph.version = s.version
    /\ s.latest # None => s.latest = s.graph
    /\ s.confirmed \subseteq {s.version}
    /\ s.mentioned \subseteq {s.version} \cup VersionsRun(c)

\* The focus can be referred to: unless a turn of the conversation was cut off,
\* the Planner finds every entity of the focus among the session graph's nodes.
FocusIsInSession ==
  \A c \in Conversations :
    Unharmed(c) /\ holder[c] = None /\ stored[c].graph # None
    => stored[c].focus \subseteq stored[c].graph.nodes

\* r ends without a successful answer.
EndsWithout(r) ==
  /\ stage[r] \notin Ended /\ prior[r] # None
  /\ \/ stage'[r] = "error"
     \/ stage'[r] = "replied" /\ settled[r].outcome # "success"

\* A turn that is answered with a clarification or a failure leaves the focus
\* its conversation had before, however the turns around it ended.
ExplainedTurnKeepsFocus ==
  [][\A r \in Requests :
       EndsWithout(r) /\ stage'[r] = "replied" => stored'[conv[r]].focus = prior[r]]_vars

\* The focus r started with is that of an answer its conversation was given.
AfterSuccess(r) ==
  \E q \in Requests : /\ conv[q] = conv[r] /\ stage[q] = "replied"
                      /\ settled[q].outcome = "success" /\ settled[q].focus = prior[r]

\* The README of the repository: a failed turn does not overwrite the focus of
\* the last successful one. A turn cut off after the Visualizer's answer does.
FailureKeepsFocus ==
  [][\A r \in Requests :
       EndsWithout(r) /\ AfterSuccess(r) => stored'[conv[r]].focus = prior[r]]_vars

\* Every request gets the lock and an answer, an error or a dead server.
EveryRequestEnds ==
  \A r \in Requests : stage[r] = "lock" ~> stage[r] \in Ended
=============================================================================
