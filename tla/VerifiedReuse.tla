---------------------------- MODULE VerifiedReuse ----------------------------
(***************************************************************************)
(* What long-term memory promises, without saying how it is stored: a turn *)
(* may be served an earlier result only if some turn verified exactly that *)
(* result less than a TTL ago, for the data version in use, and either for *)
(* the same context-free question or for the request this turn was         *)
(* understood as. QueryCache, with its rows, its metadata snapshots and    *)
(* its racing calls, is checked to implement this.                         *)
(***************************************************************************)
EXTENDS Integers

CONSTANTS
  Workers,        \* turns that can be in progress at once
  Conversations, Queries, Signatures, Answers, Versions,
  Shared,         \* the owner of a context-free result
  TTL,            \* Settings.cache_ttl_hours
  None

VARIABLES
  now, version,
  turn,           \* what each worker is answering: [conv, query] or None
  understood,     \* its request as the Planner and the receipts signed it
  served,         \* the earlier result it was served, or None
  verified        \* every result a turn verified, for which query and when

reuseVars == <<now, version, turn, understood, served, verified>>

Results == [sig : Signatures, owner : Conversations \cup {Shared},
            version : Versions, answer : Answers]

ReuseInit ==
  /\ now = 0 /\ version \in Versions
  /\ turn = [w \in Workers |-> None]
  /\ understood = [w \in Workers |-> None]
  /\ served = [w \in Workers |-> None]
  /\ verified = {}

Fresh(v) == now < v.at + TTL

\* Verified result v fits the turn of w: word for word, or by its signed request.
Fits(w, v) ==
  \/ v.result.owner = Shared /\ v.query = turn[w].query
  \/ understood[w] # None /\ v.result.sig = understood[w].sig
       /\ v.result.owner = understood[w].owner

Start(w) ==
  /\ turn[w] = None
  /\ \E conv \in Conversations, query \in Queries :
       turn' = [turn EXCEPT ![w] = [conv |-> conv, query |-> query]]
  /\ UNCHANGED <<now, version, understood, served, verified>>

Understand(w) ==
  /\ turn[w] # None /\ understood[w] = None
  /\ \E sig \in Signatures, owner \in {Shared, turn[w].conv} :
       understood' = [understood EXCEPT ![w] = [sig |-> sig, owner |-> owner]]
  /\ UNCHANGED <<now, version, turn, served, verified>>

Verify(w) ==
  /\ turn[w] # None /\ understood[w] # None /\ served[w] = None
  /\ \E answer \in Answers :
       LET result == [sig |-> understood[w].sig, owner |-> understood[w].owner,
                      version |-> version, answer |-> answer]
       IN verified' = verified \cup {[result |-> result, query |-> turn[w].query, at |-> now]}
  /\ UNCHANGED <<now, version, turn, understood, served>>

Serve(w) ==
  /\ turn[w] # None /\ served[w] = None
  /\ \E v \in verified :
       /\ Fresh(v) /\ v.result.version = version /\ Fits(w, v)
       /\ served' = [served EXCEPT ![w] = v.result]
  /\ UNCHANGED <<now, version, turn, understood, verified>>

Finish(w) ==
  /\ turn[w] # None
  /\ turn' = [turn EXCEPT ![w] = None]
  /\ understood' = [understood EXCEPT ![w] = None]
  /\ served' = [served EXCEPT ![w] = None]
  /\ UNCHANGED <<now, version, verified>>

Tick == now' = now + 1 /\ UNCHANGED <<version, turn, understood, served, verified>>

\* The server restarts on other data: the turns in progress are gone.
Redeploy ==
  /\ version' \in Versions
  /\ turn' = [w \in Workers |-> None]
  /\ understood' = [w \in Workers |-> None]
  /\ served' = [w \in Workers |-> None]
  /\ UNCHANGED <<now, verified>>

ReuseNext ==
  \/ \E w \in Workers : Start(w) \/ Understand(w) \/ Verify(w) \/ Serve(w) \/ Finish(w)
  \/ Tick \/ Redeploy

ReuseSpec == ReuseInit /\ [][ReuseNext]_reuseVars
=============================================================================
