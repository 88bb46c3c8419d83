-------------------------- MODULE GraphStoreProofs --------------------------
(***************************************************************************)
(* For any number of conversations and graphs: the rows that are not       *)
(* committed are exactly what the writer has inserted so far, hence the    *)
(* four statements of a save implement one atomic step of AtomicGraphStore.*)
(***************************************************************************)
EXTENDS GraphStore, TLAPS

\* The tables after the first and after both inserts of c.
WithPayload(c) == [committed EXCEPT !.payloads[saving[c].id] = saving[c].content]
WithHead(c) ==
  [committed EXCEPT !.payloads[saving[c].id] = saving[c].content, !.heads[c] = saving[c].id]

\* The SELECT of c found nothing in the way.
Admitted(c) == committed.payloads[saving[c].id] \in {None, saving[c].content}

\* How far the transaction of c has come.
Inserted(c) ==
  /\ step[c] \in {"select", "insert_payload"} => rows = committed
  /\ step[c] \in {"insert_payload", "insert_head", "commit"} => Admitted(c)
  /\ step[c] = "insert_head" => rows = WithPayload(c)
  /\ step[c] = "commit" => rows = WithHead(c)
  /\ step[c] = "rollback" =>
       \/ rows = committed
       \/ rows \in {WithPayload(c), WithHead(c)} /\ Admitted(c)

TransactionInv ==
  /\ writer = None => rows = committed
  /\ \A c \in Conversations : Inserted(c)

CommittedResolves ==
  \A c \in Conversations :
    committed.heads[c] # None => committed.payloads[committed.heads[c]] # None

StoreInv == TypeOK /\ TransactionInv /\ CommittedResolves

\* The transaction of c is described by what only c and its commit change.
LEMMA TablesFacts ==
  ASSUME TypeOK, NEW c \in Conversations, saving[c] # None
  PROVE  /\ saving[c].id \in GraphIds /\ saving[c].content \in Contents
         /\ WithPayload(c) \in Tables /\ WithHead(c) \in Tables
         /\ WithHead(c) = [WithPayload(c) EXCEPT !.heads[c] = saving[c].id]
  BY DEF TypeOK, Tables, Graphs, WithPayload, WithHead

LEMMA StoreInvInit == Init => StoreInv
  BY StoreAssumption DEF Init, StoreInv, TypeOK, Tables, EmptyTables, TransactionInv, Inserted,
     Writing, CommittedResolves

LEMMA TypeStep == TypeOK /\ [Next]_vars => TypeOK'
<1> SUFFICES ASSUME TypeOK, [Next]_vars PROVE TypeOK'
  OBVIOUS
<1> USE DEF TypeOK, Tables, Graphs, Writing
<1>1. ASSUME NEW c \in Conversations, Save(c) PROVE TypeOK'
  BY <1>1, StoreAssumption DEF Save, GoTo
<1>2. ASSUME NEW c \in Conversations, Lock(c) PROVE TypeOK'
  BY <1>2, StoreAssumption DEF Lock, GoTo, LockIsFree
<1>3. ASSUME NEW c \in Conversations, Select(c) PROVE TypeOK'
  BY <1>3 DEF Select, GoTo
<1>4. ASSUME NEW c \in Conversations, InsertPayload(c) PROVE TypeOK'
  BY <1>4 DEF InsertPayload, GoTo
<1>5. ASSUME NEW c \in Conversations, InsertHead(c) PROVE TypeOK'
  BY <1>5 DEF InsertHead, GoTo
<1>6. ASSUME NEW c \in Conversations, Commit(c) PROVE TypeOK'
  BY <1>6, StoreAssumption DEF Commit, Leave, GoTo
<1>7. ASSUME NEW c \in Conversations, Fail(c) PROVE TypeOK'
  BY <1>7 DEF Fail, GoTo
<1>8. ASSUME NEW c \in Conversations, Rollback(c) PROVE TypeOK'
  BY <1>8, StoreAssumption DEF Rollback, RolledBack, Leave, GoTo
<1>9. ASSUME NEW c \in Conversations, CommitCancelled(c) PROVE TypeOK'
  BY <1>9 DEF CommitCancelled, GoTo
<1>10. CASE Reopen
  BY <1>10, StoreAssumption DEF Reopen
<1>11. CASE UNCHANGED vars
  BY <1>11 DEF vars
<1> QED
  BY <1>1, <1>2, <1>3, <1>4, <1>5, <1>6, <1>7, <1>8, <1>9, <1>10, <1>11 DEF Next

\* A step of another conversation's save leaves c's transaction as it was: only
\* the writer is in one.
LEMMA TransactionStep == TypeOK /\ TypeOK' /\ TransactionInv /\ [Next]_vars => TransactionInv'
<1> SUFFICES ASSUME TypeOK, TypeOK', TransactionInv, [Next]_vars PROVE TransactionInv'
  OBVIOUS
<1>1. ASSUME NEW c \in Conversations, Save(c) PROVE TransactionInv'
  <2>1. writer' = writer /\ rows' = rows /\ committed' = committed
    BY <1>1 DEF Save
  <2>2. ASSUME NEW d \in Conversations PROVE Inserted(d)'
    <3>1. CASE d = c
      BY <1>1, <3>1 DEF Save, GoTo, TypeOK, Inserted, Writing
    <3>2. CASE d # c
      <4>1. step'[d] = step[d] /\ saving'[d] = saving[d]
        BY <1>1, <3>2 DEF Save, GoTo, TypeOK
      <4> QED
        BY <2>1, <4>1 DEF TransactionInv, Inserted, Admitted, WithPayload, WithHead
    <3> QED
      BY <3>1, <3>2
  <2> QED
    BY <2>1, <2>2 DEF TransactionInv
<1>2. ASSUME NEW c \in Conversations, Lock(c) PROVE TransactionInv'
  <2>1. rows' = rows /\ committed' = committed /\ saving' = saving /\ rows = committed
    BY <1>2 DEF Lock, LockIsFree, TransactionInv
  <2>2. ASSUME NEW d \in Conversations PROVE Inserted(d)'
    <3>1. CASE d = c
      BY <1>2, <2>1, <3>1 DEF Lock, GoTo, TypeOK, Inserted
    <3>2. CASE d # c
      <4>1. step'[d] = step[d]
        BY <1>2, <3>2 DEF Lock, GoTo, TypeOK
      <4> QED
        BY <2>1, <4>1 DEF TransactionInv, Inserted, Admitted, WithPayload, WithHead
    <3> QED
      BY <3>1, <3>2
  <2>3. writer' # None
    BY <1>2, StoreAssumption DEF Lock
  <2> QED
    BY <2>2, <2>3 DEF TransactionInv
<1>3. ASSUME NEW c \in Conversations,
             step[c] \in Writing, UNCHANGED <<saving, writer>>,
             \A d \in Conversations \ {c} : step'[d] = step[d],
             Inserted(c)'
      PROVE TransactionInv'
  \* A statement of the writer c.
  <2>1. writer = c /\ writer' # None
    BY <1>3, StoreAssumption DEF TypeOK
  <2>2. ASSUME NEW d \in Conversations PROVE Inserted(d)'
    <3>1. CASE d # c
      BY <1>3, <2>1, <3>1 DEF Inserted, TypeOK, Writing
    <3> QED
      BY <1>3, <3>1
  <2> QED
    BY <2>1, <2>2 DEF TransactionInv
<1>4. ASSUME NEW c \in Conversations, Select(c) PROVE TransactionInv'
  <2>1. rows = committed /\ UNCHANGED <<rows, committed, saving, writer>>
    BY <1>4 DEF Select, TransactionInv, Inserted
  <2>2. step' = [step EXCEPT ![c] = IF Collides(saving[c]) THEN "rollback" ELSE "insert_payload"]
    BY <1>4 DEF Select, GoTo
  <2>3. Inserted(c)'
    BY <2>1, <2>2 DEF Inserted, Collides, Admitted, TypeOK
  <2> QED
    BY <1>3, <1>4, <2>1, <2>2, <2>3 DEF Select, Writing, TypeOK
<1>5. ASSUME NEW c \in Conversations, InsertPayload(c) PROVE TransactionInv'
  <2>1. /\ rows = committed /\ Admitted(c)
        /\ rows' = WithPayload(c) /\ UNCHANGED <<committed, saving, writer>>
        /\ \E next \in {"insert_head", "rollback"} : step' = [step EXCEPT ![c] = next]
    BY <1>5 DEF InsertPayload, GoTo, TransactionInv, Inserted, WithPayload
  <2>2. Inserted(c)'
    BY <2>1 DEF Inserted, Admitted, WithPayload, TypeOK
  <2> QED
    BY <1>3, <1>5, <2>1, <2>2 DEF InsertPayload, Writing, TypeOK
<1>6. ASSUME NEW c \in Conversations, InsertHead(c) PROVE TransactionInv'
  <2>1. /\ rows = WithPayload(c) /\ Admitted(c)
        /\ rows' = [rows EXCEPT !.heads[c] = saving[c].id]
        /\ UNCHANGED <<committed, saving, writer>>
        /\ \E next \in {"commit", "rollback"} : step' = [step EXCEPT ![c] = next]
    BY <1>6 DEF InsertHead, GoTo, TransactionInv, Inserted
  <2>2. saving[c] # None
    BY <1>6 DEF InsertHead, TypeOK
  <2>3. rows' = WithHead(c)
    BY <2>1, <2>2, TablesFacts
  <2>4. Inserted(c)'
    BY <2>1, <2>3 DEF Inserted, Admitted, WithHead, TypeOK
  <2> QED
    BY <1>3, <1>6, <2>1, <2>4 DEF InsertHead, Writing, TypeOK
<1>7. ASSUME NEW c \in Conversations, Fail(c) PROVE TransactionInv'
  <2>1. /\ step[c] \in {"select", "insert_payload", "insert_head", "commit"}
        /\ UNCHANGED <<rows, committed, saving, writer>>
        /\ step' = [step EXCEPT ![c] = "rollback"]
    BY <1>7 DEF Fail, GoTo, Writing
  <2>2. Inserted(c)'
    BY <2>1 DEF Inserted, Admitted, WithPayload, WithHead, TypeOK, TransactionInv
  <2> QED
    BY <1>3, <2>1, <2>2 DEF Writing, TypeOK
<1>8. ASSUME NEW c \in Conversations, step[c] \in Writing, Leave(c), rows' = committed'
      PROVE TransactionInv'
  \* The transaction is over, and nobody is in another one.
  <2>1. ASSUME NEW d \in Conversations PROVE step'[d] \notin Writing
    BY <1>8, StoreAssumption DEF Leave, TypeOK
  <2> QED
    BY <1>8, <2>1 DEF TransactionInv, Inserted, Writing
<1>9. ASSUME NEW c \in Conversations, Commit(c) PROVE TransactionInv'
  BY <1>8, <1>9 DEF Commit, Writing
<1>10. ASSUME NEW c \in Conversations, Rollback(c) PROVE TransactionInv'
  BY <1>8, <1>10 DEF Rollback, RolledBack, Writing
<1>11. ASSUME NEW c \in Conversations, CommitCancelled(c) PROVE TransactionInv'
  <2>1. /\ rows' = committed' /\ UNCHANGED <<saving, writer>>
        /\ step' = [step EXCEPT ![c] = "rollback"]
    BY <1>11 DEF CommitCancelled, GoTo
  <2>2. Inserted(c)'
    BY <2>1 DEF Inserted, TypeOK
  <2> QED
    BY <1>3, <1>11, <2>1, <2>2 DEF CommitCancelled, Writing, TypeOK
<1>12. CASE Reopen
  BY <1>12 DEF Reopen, TransactionInv, Inserted
<1>13. CASE UNCHANGED vars
  BY <1>13 DEF vars, TransactionInv, Inserted, Admitted, WithPayload, WithHead
<1> QED
  BY <1>1, <1>2, <1>4, <1>5, <1>6, <1>7, <1>9, <1>10, <1>11, <1>12, <1>13 DEF Next

\* committed changes in the commit only, and then by a whole save.
LEMMA CommitStep ==
  ASSUME StoreInv, [Next]_vars, committed' # committed
  PROVE  \E c \in Conversations :
           /\ saving[c] \in Graphs /\ Admitted(c)
           /\ committed' = WithHead(c)
<1>1. PICK c \in Conversations : step[c] = "commit" /\ committed' = rows
  BY DEF Next, vars, Save, Lock, Select, InsertPayload, InsertHead, Commit, CommitCancelled,
         Fail, Rollback, Reopen
<1>2. saving[c] \in Graphs /\ Admitted(c) /\ rows = WithHead(c)
  BY <1>1 DEF StoreInv, TypeOK, TransactionInv, Inserted
<1> QED
  BY <1>1, <1>2

LEMMA ResolvesStep == StoreInv /\ [Next]_vars => CommittedResolves'
<1> SUFFICES ASSUME StoreInv, [Next]_vars PROVE CommittedResolves'
  OBVIOUS
<1>1. CASE committed' = committed
  BY <1>1 DEF StoreInv, CommittedResolves
<1>2. CASE committed' # committed
  <2>1. PICK c \in Conversations :
          saving[c] \in Graphs /\ committed' = WithHead(c)
    BY <1>2, CommitStep
  <2>2. ASSUME NEW d \in Conversations, committed'.heads[d] # None
        PROVE  committed'.payloads[committed'.heads[d]] # None
    BY <2>1, <2>2, StoreAssumption
       DEF StoreInv, TypeOK, Tables, Graphs, WithHead, CommittedResolves
  <2> QED
    BY <2>2 DEF CommittedResolves
<1> QED
  BY <1>1, <1>2

THEOREM StoreInvHolds == Spec => []StoreInv
<1>1. StoreInv /\ [Next]_vars => StoreInv'
  BY TypeStep, TransactionStep, ResolvesStep DEF StoreInv
<1> QED
  BY <1>1, StoreInvInit, PTL DEF Spec

\* The rows during a save: nothing but the writer's own graph is added.
LEMMA PendingRows ==
  ASSUME StoreInv, rows # committed
  PROVE  /\ writer \in Conversations /\ saving[writer] \in Graphs
         /\ rows \in {WithPayload(writer), WithHead(writer)}
<1>1. writer \in Conversations /\ step[writer] \in Writing
  BY DEF StoreInv, TransactionInv, TypeOK
<1>2. saving[writer] \in Graphs
  BY <1>1 DEF StoreInv, TypeOK, Writing
<1> QED
  BY <1>1, <1>2 DEF StoreInv, TransactionInv, Inserted, Writing

\* What the tables of a transaction hold, table by table.
LEMMA TransactionTables ==
  ASSUME TypeOK, NEW c \in Conversations, saving[c] \in Graphs,
         NEW tables \in {WithPayload(c), WithHead(c)}
  PROVE  /\ saving[c].id \in GraphIds /\ saving[c].content \in Contents
         /\ tables.payloads[saving[c].id] = saving[c].content
         /\ \A g \in GraphIds \ {saving[c].id} : tables.payloads[g] = committed.payloads[g]
         /\ tables.heads[c] \in {committed.heads[c], saving[c].id}
         /\ \A d \in Conversations \ {c} : tables.heads[d] = committed.heads[d]
<1>1. saving[c].id \in GraphIds /\ saving[c].content \in Contents
  BY DEF Graphs
<1>2. CASE tables = WithPayload(c)
  <2>1. tables.payloads = [committed.payloads EXCEPT ![saving[c].id] = saving[c].content]
    BY <1>2 DEF TypeOK, Tables, WithPayload
  <2>2. tables.heads = committed.heads
    BY <1>2 DEF TypeOK, Tables, WithPayload
  <2> QED
    BY <1>1, <2>1, <2>2 DEF TypeOK, Tables
<1>3. CASE tables = WithHead(c)
  <2>1. tables.payloads = [committed.payloads EXCEPT ![saving[c].id] = saving[c].content]
    BY <1>3 DEF TypeOK, Tables, WithHead
  <2>2. tables.heads = [committed.heads EXCEPT ![c] = saving[c].id]
    BY <1>3 DEF TypeOK, Tables, WithHead
  <2> QED
    BY <1>1, <2>1, <2>2 DEF TypeOK, Tables
<1> QED
  BY <1>2, <1>3

\* What the writer inserted had passed its SELECT.
LEMMA PendingPayloads ==
  StoreInv /\ rows # committed =>
    \E c \in Conversations :
      /\ Admitted(c)
      /\ rows.payloads[saving[c].id] = saving[c].content
      /\ \A h \in GraphIds \ {saving[c].id} : rows.payloads[h] = committed.payloads[h]
<1> SUFFICES ASSUME StoreInv, rows # committed
             PROVE  /\ writer \in Conversations /\ Admitted(writer)
                    /\ rows.payloads[saving[writer].id] = saving[writer].content
                    /\ \A h \in GraphIds \ {saving[writer].id} :
                         rows.payloads[h] = committed.payloads[h]
  OBVIOUS
<1>1. /\ writer \in Conversations /\ saving[writer] \in Graphs
      /\ rows \in {WithPayload(writer), WithHead(writer)}
  BY PendingRows
<1>2. step[writer] \in Writing
  BY <1>1 DEF StoreInv, TypeOK
<1>3. Admitted(writer)
  BY <1>1, <1>2 DEF StoreInv, TransactionInv, Inserted, Writing
<1> QED
  BY <1>1, <1>3, TransactionTables DEF StoreInv

\* TypeOK: a save holds the lock exactly while it is in its transaction.
THEOREM StoreTypeCorrect == Spec => []TypeOK
BY StoreInvHolds, PTL DEF StoreInv

\* HeadsResolve: GET /graph never joins a head with a missing payload.
THEOREM HeadsAlwaysResolve == Spec => []HeadsResolve
<1>1. ASSUME StoreInv PROVE HeadsResolve
  <2> SUFFICES ASSUME NEW c \in Conversations, NEW tables \in {rows, committed},
                      tables.heads[c] # None
               PROVE  tables.payloads[tables.heads[c]] # None
    BY DEF HeadsResolve, LatestFor
  <2>1. CASE tables = committed
    BY <1>1, <2>1 DEF StoreInv, CommittedResolves
  <2>2. CASE tables = rows /\ rows # committed
    <3>1. /\ writer \in Conversations /\ saving[writer] \in Graphs
          /\ rows \in {WithPayload(writer), WithHead(writer)}
      BY <1>1, <2>2, PendingRows
    <3>2. /\ rows.payloads[saving[writer].id] \in Contents
          /\ \A g \in GraphIds \ {saving[writer].id} : rows.payloads[g] = committed.payloads[g]
          /\ \A d \in Conversations : rows.heads[d] \in {committed.heads[d], saving[writer].id}
      BY <1>1, <3>1, TransactionTables DEF StoreInv
    <3>3. rows.heads[c] \in GraphIds
      BY <1>1, <2>2 DEF StoreInv, TypeOK, Tables
    <3>4. CASE rows.heads[c] = saving[writer].id
      BY <2>2, <3>2, <3>4, StoreAssumption
    <3>5. CASE rows.heads[c] # saving[writer].id
      BY <1>1, <2>2, <3>2, <3>3, <3>5 DEF StoreInv, CommittedResolves
    <3> QED
      BY <3>4, <3>5
  <2> QED
    BY <2>1, <2>2
<1> QED
  BY <1>1, StoreInvHolds, PTL

\* OnlyTheWriterIsPending: a save that failed leaves nothing to commit.
THEOREM NothingLeftBehind == Spec => []OnlyTheWriterIsPending
<1>1. ASSUME StoreInv, rows # committed PROVE OnlyTheWriterIsPending
  <2>1. /\ writer \in Conversations /\ saving[writer] \in Graphs
        /\ rows \in {WithPayload(writer), WithHead(writer)}
    BY <1>1, PendingRows
  <2>2. /\ \A g \in GraphIds \ {saving[writer].id} : rows.payloads[g] = committed.payloads[g]
        /\ \A d \in Conversations \ {writer} : rows.heads[d] = committed.heads[d]
    BY <1>1, <2>1, TransactionTables DEF StoreInv
  <2> QED
    BY <2>1, <2>2, StoreAssumption DEF OnlyTheWriterIsPending
<1>2. StoreInv => OnlyTheWriterIsPending
  BY <1>1 DEF OnlyTheWriterIsPending
<1> QED
  BY <1>2, StoreInvHolds, PTL

\* GraphIdIsStable: no step changes what a committed graph_id stands for.
THEOREM CommittedIdIsStable == Spec => GraphIdIsStable
<1>1. ASSUME StoreInv, StoreInv', [Next]_vars, NEW g \in GraphIds,
             committed.payloads[g] # None
      PROVE  rows'.payloads[g] = committed.payloads[g]
  <2>1. committed'.payloads[g] = committed.payloads[g]
    <3>1. CASE committed' = committed
      BY <3>1
    <3>2. CASE committed' # committed
      <4>1. PICK c \in Conversations :
              saving[c] \in Graphs /\ Admitted(c) /\ committed' = WithHead(c)
        BY <1>1, <3>2, CommitStep
      <4>2. CASE g = saving[c].id
        BY <1>1, <4>1, <4>2, TransactionTables DEF StoreInv, Admitted
      <4>3. CASE g # saving[c].id
        BY <1>1, <4>1, <4>3, TransactionTables DEF StoreInv
      <4> QED
        BY <4>2, <4>3
    <3> QED
      BY <3>1, <3>2
  <2>2. CASE rows' = committed'
    BY <2>1, <2>2
  <2>3. CASE rows' # committed'
    <3>0. (StoreInv /\ rows # committed =>
             \E c \in Conversations :
               /\ Admitted(c)
               /\ rows.payloads[saving[c].id] = saving[c].content
               /\ \A h \in GraphIds \ {saving[c].id} : rows.payloads[h] = committed.payloads[h])'
      BY PendingPayloads, PTL
    <3>1. PICK c \in Conversations :
            /\ Admitted(c)'
            /\ rows'.payloads[saving[c]'.id] = saving[c]'.content
            /\ \A h \in GraphIds \ {saving[c]'.id} : rows'.payloads[h] = committed'.payloads[h]
      BY <1>1, <2>3, <3>0
    <3>3. CASE g = saving[c]'.id
      BY <1>1, <2>1, <3>1, <3>3 DEF Admitted
    <3>4. CASE g # saving[c]'.id
      BY <1>1, <2>1, <3>1, <3>4
    <3> QED
      BY <3>3, <3>4
  <2> QED
    BY <2>2, <2>3
<1>2. StoreInv /\ StoreInv' /\ [Next]_vars =>
        [\A g \in GraphIds :
           committed.payloads[g] # None => rows'.payloads[g] = committed.payloads[g]]_vars
  BY <1>1
<1> QED
  BY <1>2, StoreInvHolds, PTL DEF Spec, GraphIdIsStable

\* ImplementsAtomicStore: the statements of a save are one atomic step.
THEOREM StoreIsAtomic == Spec => ImplementsAtomicStore
<1>1. Init => Atomic!StoreInit
  BY DEF Init, EmptyTables, Atomic!StoreInit
<1>2. ASSUME StoreInv, [Next]_vars
      PROVE  [\E c \in Conversations, g \in GraphIds, content \in Contents :
                Atomic!SaveAtOnce(c, g, content)]_Atomic!storeVars
  <2>1. CASE committed' = committed
    BY <2>1 DEF Atomic!storeVars
  <2>2. CASE committed' # committed
    <3>1. PICK c \in Conversations :
            saving[c] \in Graphs /\ Admitted(c) /\ committed' = WithHead(c)
      BY <1>2, <2>2, CommitStep
    <3>2. Atomic!SaveAtOnce(c, saving[c].id, saving[c].content)
      BY <1>2, <3>1
         DEF StoreInv, TypeOK, Tables, Graphs, WithHead, Admitted, Atomic!SaveAtOnce
    <3> QED
      BY <3>1, <3>2 DEF Graphs
  <2> QED
    BY <2>1, <2>2
<1> QED
  BY <1>1, <1>2, StoreInvHolds, PTL DEF Spec, ImplementsAtomicStore, Atomic!StoreSpec
=============================================================================
