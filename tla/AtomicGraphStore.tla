-------------------------- MODULE AtomicGraphStore --------------------------
(***************************************************************************)
(* What the public graph store promises: a save takes effect at once or    *)
(* not at all, for its own conversation only, and never changes what a     *)
(* graph_id already stands for.                                            *)
(***************************************************************************)
CONSTANTS Conversations, GraphIds, Contents, None

VARIABLES
  payloads,   \* graph_id -> its content, or None
  heads       \* conversation -> the graph_id of its latest graph, or None

storeVars == <<payloads, heads>>

StoreInit ==
  /\ payloads = [g \in GraphIds |-> None]
  /\ heads = [c \in Conversations |-> None]

SaveAtOnce(c, g, content) ==
  /\ payloads[g] \in {None, content}
  /\ payloads' = [payloads EXCEPT ![g] = content]
  /\ heads' = [heads EXCEPT ![c] = g]

StoreSpec ==
  StoreInit /\ [][\E c \in Conversations, g \in GraphIds, content \in Contents :
                    SaveAtOnce(c, g, content)]_storeVars
=============================================================================
