------------------------------ MODULE QueryCache ------------------------------
(***************************************************************************)
(* LongTermMemory (memory/chroma_store.py) under concurrent turns. Chroma  *)
(* executes each get, update and upsert atomically, but a lookup reads a   *)
(* snapshot and the touch or the stale mark that follows writes that       *)
(* snapshot's metadata back: other turns' calls come in between. Any call  *)
(* may fail; the turn then goes on without the cache.                      *)
(*                                                                         *)
(* A record id is the hash of signature, owner and data version, so a      *)
(* record is addressed by those three. The payload hash of a row is        *)
(* modelled by the payload it was computed from.                           *)
(***************************************************************************)
EXTENDS VerifiedReuse

CONSTANTS MaxTurns, MaxTime

\* A result lives for some time, the owner of a shared result is no conversation,
\* and None is no question, no turn, no signed request and no result.
ASSUME CacheAssumption ==
  /\ TTL \in Nat \ {0} /\ MaxTurns \in Nat /\ MaxTime \in Nat
  /\ Shared \notin Conversations
  /\ None \notin Queries
  /\ None \notin [conv : Conversations, query : Queries]
  /\ None \notin [sig : Signatures, owner : Conversations \cup {Shared}]
  /\ None \notin Results

VARIABLES
  rows,        \* the collection: record id -> [document, metadata] or None
  step,        \* the next call of each turn: "idle", "raw_get", "raw_parse", "research",
               \* "canonical_get", "canonical_parse", "render", "write" or "touch"
  candidates,  \* the rows of the last get that are not parsed yet
  lookup,      \* the CacheLookup of a hit: record id, metadata, match_type
  draft,       \* the row a turn is about to upsert
  started      \* turns begun so far (bounded by MaxTurns)

storeVars == <<rows, step, candidates, lookup, draft, started>>
vars == <<reuseVars, storeVars>>

Owners == Conversations \cup {Shared}
RecordIds == [sig : Signatures, owner : Owners, version : Versions]

\* LongTermMemory.canonical_id
CanonicalId(result) ==
  [sig |-> result.sig, owner |-> result.owner, version |-> result.version]

Init ==
  /\ ReuseInit
  /\ rows = [id \in RecordIds |-> None]
  /\ step = [w \in Workers |-> "idle"]
  /\ candidates = [w \in Workers |-> {}]
  /\ lookup = [w \in Workers |-> None] /\ draft = [w \in Workers |-> None]
  /\ started = 0

GoTo(w, s) == step' = [step EXCEPT ![w] = s]

\* A turn ends; nothing of it stays in flight.
Done(w) ==
  /\ GoTo(w, "idle")
  /\ turn' = [turn EXCEPT ![w] = None]
  /\ understood' = [understood EXCEPT ![w] = None]
  /\ served' = [served EXCEPT ![w] = None]
  /\ lookup' = [lookup EXCEPT ![w] = None]
  /\ draft' = [draft EXCEPT ![w] = None]
  /\ candidates' = [candidates EXCEPT ![w] = {}]

\* One turn at a time per conversation: ApplicationService holds its lock.
BeginTurn(w) ==
  /\ step[w] = "idle" /\ started < MaxTurns
  /\ \E conv \in Conversations, query \in Queries :
       /\ \A other \in Workers : turn[other] # None => turn[other].conv # conv
       /\ turn' = [turn EXCEPT ![w] = [conv |-> conv, query |-> query]]
  /\ started' = started + 1
  /\ GoTo(w, "raw_get")
  /\ UNCHANGED <<now, version, understood, served, verified, rows, candidates,
                 lookup, draft>>

-----------------------------------------------------------------------------
(* Lookup. *)

Stored == {id \in RecordIds : rows[id] # None}
Snapshot(ids) == {[id |-> id, document |-> rows[id].document,
                   metadata |-> rows[id].metadata] : id \in ids}

\* lookup_raw: every row written under this query's hash, of any version.
RawGet(w) ==
  /\ step[w] = "raw_get"
  /\ candidates' = [candidates EXCEPT ![w] =
       Snapshot({id \in Stored : rows[id].metadata.raw_query_hash = turn[w].query})]
  /\ GoTo(w, "raw_parse")
  /\ UNCHANGED <<reuseVars, rows, lookup, draft, started>>

\* lookup_canonical: the one row of the signed request.
RequestedId(w) ==
  CanonicalId([sig |-> understood[w].sig, owner |-> understood[w].owner,
               version |-> version])

CanonicalGet(w) ==
  /\ step[w] = "canonical_get"
  /\ candidates' = [candidates EXCEPT ![w] = Snapshot(Stored \cap {RequestedId(w)})]
  /\ GoTo(w, "canonical_parse")
  /\ UNCHANGED <<reuseVars, rows, lookup, draft, started>>

\* Mutant: a canonical miss is researched once more.
AfterMiss_BackToResearch(w) == "research"

\* _read_failure: an unavailable or failing get is a miss.
AfterMiss(w) == IF step[w] \in {"raw_get", "raw_parse"} THEN "research" ELSE "render"

GetFails(w) ==
  /\ step[w] \in {"raw_get", "canonical_get"}
  /\ GoTo(w, AfterMiss(w))
  /\ UNCHANGED <<reuseVars, rows, candidates, lookup, draft, started>>

\* _invalid_metadata_reason
MetadataValid(md) ==
  /\ md.status \in {"warm", "hot"}
  /\ md.version = version
  /\ now < md.expires_at

\* Mutant: the hash of the payload is not compared.
PayloadValid_NoHash(c) ==
  /\ c.metadata.owner = c.document.owner
  /\ c.document.version = version
  /\ c.id = CanonicalId(c.document)

\* _validate_payload: scope, owner, version, id and hash.
PayloadValid(c) ==
  /\ c.metadata.owner = c.document.owner
  /\ c.document.version = version
  /\ c.id = CanonicalId(c.document)
  /\ c.metadata.payload_hash = c.document

\* What the caller of the lookup expects on top of a sound row.
Expected(w, c) ==
  IF step[w] = "raw_parse"
  THEN c.metadata.owner = Shared /\ c.metadata.raw_query_hash = turn[w].query
  ELSE /\ c.id = RequestedId(w)
       /\ c.document.sig = understood[w].sig /\ c.document.owner = understood[w].owner

Valid(w, c) == MetadataValid(c.metadata) /\ PayloadValid(c) /\ Expected(w, c)

Parsing(w) == step[w] \in {"raw_parse", "canonical_parse"}

\* The first sound candidate is the hit, and cache_hydrate serves it.
ParseHit(w) ==
  /\ Parsing(w)
  /\ \E c \in candidates[w] :
       /\ Valid(w, c)
       /\ lookup' = [lookup EXCEPT ![w] = [id |-> c.id, metadata |-> c.metadata]]
       /\ served' = [served EXCEPT ![w] = c.document]
  /\ candidates' = [candidates EXCEPT ![w] = {}]
  /\ GoTo(w, "touch")
  /\ UNCHANGED <<now, version, turn, understood, verified, rows, draft, started>>

WriteMetadata(id, md) ==
  rows' = [rows EXCEPT ![id] = IF @ = None THEN None ELSE [@ EXCEPT !.metadata = md]]

\* Mutant: the first invalid row ends the lookup.
ParseInvalid_GivesUp(w) ==
  /\ Parsing(w)
  /\ \E c \in candidates[w] :
       /\ ~Valid(w, c)
       /\ candidates' = [candidates EXCEPT ![w] = {}]
       /\ \/ WriteMetadata(c.id, [c.metadata EXCEPT !.status = "stale"])
          \/ UNCHANGED rows
  /\ UNCHANGED <<reuseVars, step, lookup, draft, started>>

\* _mark_stale: the snapshot's metadata, with its status replaced. The update
\* may fail; the candidate is passed over either way.
ParseInvalid(w) ==
  /\ Parsing(w)
  /\ \E c \in candidates[w] :
       /\ ~Valid(w, c)
       /\ candidates' = [candidates EXCEPT ![w] = @ \ {c}]
       /\ \/ WriteMetadata(c.id, [c.metadata EXCEPT !.status = "stale"])
          \/ UNCHANGED rows
  /\ UNCHANGED <<reuseVars, step, lookup, draft, started>>

ParseMiss(w) ==
  /\ Parsing(w) /\ candidates[w] = {}
  /\ GoTo(w, AfterMiss(w))
  /\ UNCHANGED <<reuseVars, rows, candidates, lookup, draft, started>>

\* touch: hit_count + 1 and HOT, on the metadata of the lookup.
Touched(md) == [md EXCEPT !.status = "hot", !.hit_count = @ + 1]

Touch(w) ==
  /\ step[w] = "touch"
  /\ \/ WriteMetadata(lookup[w].id, Touched(lookup[w].metadata))
     \/ UNCHANGED rows
  /\ Done(w)
  /\ UNCHANGED <<now, version, verified, started>>

-----------------------------------------------------------------------------
(* Research and write. *)

\* The Planner and the receipts sign the request, as context-free or as the
\* conversation's own.
Research(w) ==
  /\ step[w] = "research"
  /\ \E sig \in Signatures, owner \in {Shared, turn[w].conv} :
       understood' = [understood EXCEPT ![w] = [sig |-> sig, owner |-> owner]]
  /\ GoTo(w, "canonical_get")
  /\ UNCHANGED <<now, version, turn, served, verified, rows, candidates, lookup,
                 draft, started>>

\* The turn ends before anything may be remembered: clarified, failed, empty,
\* or refused by decide_memory_write.
NothingToRemember(w) ==
  /\ step[w] \in {"research", "render"}
  /\ Done(w)
  /\ UNCHANGED <<now, version, verified, rows, started>>

\* Mutant: the scope of the request is not passed on to write().
FreshRow_Unscoped(result, query) ==
  LET shared == [result EXCEPT !.owner = Shared]
  IN [document |-> shared,
      metadata |-> [status |-> "warm", hit_count |-> 0, payload_hash |-> shared,
                    raw_query_hash |-> query, version |-> result.version,
                    owner |-> Shared, expires_at |-> now + TTL]]

\* write(): the row is prepared, with its expiry, before the call is made.
FreshRow(result, query) ==
  [document |-> result,
   metadata |-> [status |-> "warm", hit_count |-> 0, payload_hash |-> result,
                 raw_query_hash |-> IF result.owner = Shared THEN query ELSE None,
                 version |-> result.version, owner |-> result.owner,
                 expires_at |-> now + TTL]]

Render(w) ==
  /\ step[w] = "render"
  /\ \E answer \in Answers :
       LET result == [sig |-> understood[w].sig, owner |-> understood[w].owner,
                      version |-> version, answer |-> answer]
       IN /\ draft' = [draft EXCEPT ![w] = FreshRow(result, turn[w].query)]
          /\ verified' = verified \cup
               {[result |-> result, query |-> turn[w].query, at |-> now]}
  /\ GoTo(w, "write")
  /\ UNCHANGED <<now, version, turn, understood, served, rows, candidates, lookup,
                 started>>

\* The upsert replaces document and metadata together, or fails.
Write(w) ==
  /\ step[w] = "write"
  /\ \/ rows' = [rows EXCEPT ![CanonicalId(draft[w].document)] = draft[w]]
     \/ UNCHANGED rows
  /\ Done(w)
  /\ UNCHANGED <<now, version, verified, started>>

-----------------------------------------------------------------------------
ClockTicks ==
  /\ now < MaxTime
  /\ now' = now + 1
  /\ UNCHANGED <<version, turn, understood, served, verified, storeVars>>

\* The collection outlives the process; its turns do not.
Restart ==
  /\ version' \in Versions \ {version}
  /\ turn' = [w \in Workers |-> None]
  /\ understood' = [w \in Workers |-> None]
  /\ served' = [w \in Workers |-> None]
  /\ step' = [w \in Workers |-> "idle"]
  /\ candidates' = [w \in Workers |-> {}]
  /\ lookup' = [w \in Workers |-> None] /\ draft' = [w \in Workers |-> None]
  /\ UNCHANGED <<now, verified, rows, started>>

TurnStep(w) ==
  \/ RawGet(w) \/ CanonicalGet(w) \/ GetFails(w) \/ ParseHit(w) \/ ParseInvalid(w)
  \/ ParseMiss(w) \/ Touch(w) \/ Research(w) \/ NothingToRemember(w) \/ Render(w)
  \/ Write(w)

Next ==
  \/ \E w \in Workers : BeginTurn(w) \/ TurnStep(w)
  \/ ClockTicks \/ Restart

\* A call to Chroma returns or raises, and its turn then goes on.
Spec == Init /\ [][Next]_vars /\ \A w \in Workers : WF_vars(TurnStep(w))

-----------------------------------------------------------------------------
(* Properties *)

\* Whatever calls race, a turn is served only what VerifiedReuse allows: the
\* exact answer of its own question or request, verified within the TTL, on the
\* current data, and never another conversation's.
ImplementsReuse == ReuseSpec

\* An invalid row never shadows a sound one: while a lookup holds a sound
\* candidate it goes on until it is served, unless the row expires meanwhile.
NoShadowing ==
  [][\A w \in Workers :
       (\E c \in candidates[w] : Valid(w, c)) /\ now' = now /\ version' = version
         => served'[w] # None \/ \E c \in candidates[w] \cap candidates'[w] : Valid(w, c)]_vars

\* The cache never holds a turn up, whatever fails in Chroma and however many
\* rows it must pass over.
EveryTurnEnds == \A w \in Workers : step[w] # "idle" ~> step[w] = "idle"
=============================================================================
