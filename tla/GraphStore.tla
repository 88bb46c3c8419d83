----------------------------- MODULE GraphStore -----------------------------
(***************************************************************************)
(* GraphSnapshotStore (graph_store.py): one SQLite connection for every    *)
(* conversation's saves and for the readers of GET /graph. A save is four  *)
(* awaited statements under _write_lock; readers take no lock, so their    *)
(* SELECTs run in between and see rows that are not committed yet. A       *)
(* statement may fail, the process may die, and the waiting task may be    *)
(* cancelled: the connection's thread then still executes the statement,   *)
(* and what was not committed is rolled back.                              *)
(*                                                                         *)
(* The service lets a conversation save one graph at a time. A graph's     *)
(* content is what _content_signature compares.                            *)
(***************************************************************************)
CONSTANTS Conversations, GraphIds, Contents, None

\* None is no name of anything.
ASSUME StoreAssumption ==
  None \notin Conversations \cup GraphIds \cup Contents \cup [id : GraphIds, content : Contents]

VARIABLES
  rows,        \* both tables as the connection sees them
  committed,   \* both tables as they survive a rollback or a crash
  step,        \* conversation -> the next statement of its save
  saving,      \* conversation -> the graph it saves: [id, content], or None
  writer       \* the conversation that holds _write_lock, or None

vars == <<rows, committed, step, saving, writer>>

Tables == [payloads : [GraphIds -> Contents \cup {None}],
           heads : [Conversations -> GraphIds \cup {None}]]
Graphs == [id : GraphIds, content : Contents]
Writing == {"select", "insert_payload", "insert_head", "commit", "rollback"}

TypeOK ==
  /\ rows \in Tables /\ committed \in Tables
  /\ step \in [Conversations -> {"idle", "lock"} \cup Writing]
  /\ saving \in [Conversations -> Graphs \cup {None}]
  /\ writer \in Conversations \cup {None}
  /\ \A c \in Conversations :
       /\ step[c] \in Writing <=> writer = c
       /\ saving[c] = None <=> step[c] = "idle"

EmptyTables ==
  [payloads |-> [g \in GraphIds |-> None], heads |-> [c \in Conversations |-> None]]

Init ==
  /\ rows = EmptyTables /\ committed = EmptyTables
  /\ step = [c \in Conversations |-> "idle"]
  /\ saving = [c \in Conversations |-> None]
  /\ writer = None

GoTo(c, s) == step' = [step EXCEPT ![c] = s]

\* save is called and waits for _write_lock.
Save(c) ==
  /\ step[c] = "idle"
  /\ \E graph \in Graphs : saving' = [saving EXCEPT ![c] = graph]
  /\ GoTo(c, "lock")
  /\ UNCHANGED <<rows, committed, writer>>

\* Mutant: saves are not kept apart.
LockIsFree_Always == TRUE

LockIsFree == writer = None

Lock(c) ==
  /\ step[c] = "lock" /\ LockIsFree
  /\ writer' = c
  /\ GoTo(c, "select")
  /\ UNCHANGED <<rows, committed, saving>>

\* Mutant: whatever is stored under the graph_id is overwritten.
Collides_Never(graph) == FALSE

\* The graph_id is taken by a graph of other content.
Collides(graph) == rows.payloads[graph.id] \notin {None, graph.content}

\* Mutant: the head is inserted first.
Select_HeadFirst(c) ==
  /\ step[c] = "select"
  /\ GoTo(c, IF Collides(saving[c]) THEN "rollback" ELSE "insert_head")
  /\ UNCHANGED <<rows, committed, saving, writer>>

\* SELECT payload_json; a collision raises, and the handler rolls back.
Select(c) ==
  /\ step[c] = "select"
  /\ GoTo(c, IF Collides(saving[c]) THEN "rollback" ELSE "insert_payload")
  /\ UNCHANGED <<rows, committed, saving, writer>>

\* Mutant: the connection commits by itself.
InsertPayload_Autocommit(c) ==
  /\ step[c] = "insert_payload"
  /\ rows' = [rows EXCEPT !.payloads[saving[c].id] = saving[c].content]
  /\ committed' = rows'
  /\ GoTo(c, "insert_head")
  /\ UNCHANGED <<saving, writer>>

InsertPayload(c) ==
  /\ step[c] = "insert_payload"
  /\ rows' = [rows EXCEPT !.payloads[saving[c].id] = saving[c].content]
  /\ \E next \in {"insert_head", "rollback"} : GoTo(c, next)
  /\ UNCHANGED <<committed, saving, writer>>

InsertHead(c) ==
  /\ step[c] = "insert_head"
  /\ rows' = [rows EXCEPT !.heads[c] = saving[c].id]
  /\ \E next \in {"commit", "rollback"} : GoTo(c, next)
  /\ UNCHANGED <<committed, saving, writer>>

Leave(c) ==
  /\ GoTo(c, "idle")
  /\ saving' = [saving EXCEPT ![c] = None]
  /\ writer' = None

Commit(c) ==
  /\ step[c] = "commit"
  /\ committed' = rows
  /\ Leave(c)
  /\ UNCHANGED rows

\* Cancelled during the commit: the graph is stored, the caller hears of an error.
CommitCancelled(c) ==
  /\ step[c] = "commit"
  /\ committed' = rows
  /\ GoTo(c, "rollback")
  /\ UNCHANGED <<rows, saving, writer>>

\* A statement fails: except BaseException.
Fail(c) ==
  /\ step[c] \in Writing \ {"rollback"}
  /\ GoTo(c, "rollback")
  /\ UNCHANGED <<rows, committed, saving, writer>>

\* Mutant: the exception leaves the inserted rows in the open transaction.
RolledBack_Nothing == rows

RolledBack == committed

Rollback(c) ==
  /\ step[c] = "rollback"
  /\ rows' = RolledBack
  /\ Leave(c)
  /\ UNCHANGED committed

\* The process dies, or close() drops the connection, and the file is reopened.
Reopen ==
  /\ rows' = committed
  /\ step' = [c \in Conversations |-> "idle"]
  /\ saving' = [c \in Conversations |-> None]
  /\ writer' = None
  /\ UNCHANGED committed

Next ==
  \/ \E c \in Conversations :
       \/ Save(c) \/ Lock(c) \/ Select(c) \/ InsertPayload(c) \/ InsertHead(c)
       \/ Commit(c) \/ CommitCancelled(c) \/ Fail(c) \/ Rollback(c)
  \/ Reopen

Spec == Init /\ [][Next]_vars

-----------------------------------------------------------------------------
(* Properties. *)

\* get_latest_for_conversation: the inner join of a head with its payload.
LatestFor(tables, c) ==
  {tables.payloads[g] : g \in {tables.heads[c]} \ {None}} \ {None}

\* A conversation with a head always has the graph too, in the rows that readers
\* see between two statements of a save as in those that survive a crash: the
\* join of GET /graph never comes back empty for a conversation that was answered.
HeadsResolve ==
  \A c \in Conversations : \A tables \in {rows, committed} :
    tables.heads[c] # None => LatestFor(tables, c) # {}

\* What is not committed belongs to the one save that holds the lock: a failed
\* save leaves nothing behind that a later one would commit.
OnlyTheWriterIsPending ==
  rows # committed =>
    /\ writer # None
    /\ \A g \in GraphIds :
         rows.payloads[g] # committed.payloads[g] => g = saving[writer].id
    /\ \A c \in Conversations : rows.heads[c] # committed.heads[c] => c = writer

\* Once committed, a graph_id stands for the same content for every reader, also
\* while other conversations save under it and when their saves are rolled back.
GraphIdIsStable ==
  [][\A g \in GraphIds :
       committed.payloads[g] # None => rows'.payloads[g] = committed.payloads[g]]_vars

Atomic == INSTANCE AtomicGraphStore
            WITH payloads <- committed.payloads, heads <- committed.heads

\* The four statements of a save take effect together or not at all.
ImplementsAtomicStore == Atomic!StoreSpec
=============================================================================
