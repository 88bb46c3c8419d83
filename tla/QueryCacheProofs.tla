-------------------------- MODULE QueryCacheProofs --------------------------
(***************************************************************************)
(* LongTermMemory implements VerifiedReuse, for any number of turns, rows  *)
(* and conversations and any TTL. The calls of other turns come between a  *)
(* read and the write that follows it, so a row may be stale, overwritten  *)
(* or revived by an older snapshot. What all of them keep is that metadata *)
(* belongs to a verified result: its hash, its expiry and, if shared, its  *)
(* question are those of one verification, wherever the metadata is. And a  *)
(* lookup that holds a sound row serves it.                                *)
(***************************************************************************)
EXTENDS QueryCache, TLAPS

Turns == [conv : Conversations, query : Queries]
Requests == [sig : Signatures, owner : Owners]

Metadata ==
  [status : {"warm", "hot", "stale"}, hit_count : Nat, payload_hash : Results,
   raw_query_hash : Queries \cup {None}, version : Versions, owner : Owners,
   expires_at : Nat]

Row == [document : Results, metadata : Metadata]
Candidate == [id : RecordIds, document : Results, metadata : Metadata]
Lookup == [id : RecordIds, metadata : Metadata]

Steps == {"idle", "raw_get", "raw_parse", "research", "canonical_get", "canonical_parse",
          "render", "write", "touch"}

TypeInv ==
  /\ now \in Nat /\ version \in Versions
  /\ turn \in [Workers -> Turns \cup {None}]
  /\ understood \in [Workers -> Requests \cup {None}]
  /\ served \in [Workers -> Results \cup {None}]
  /\ step \in [Workers -> Steps]
  /\ rows \in [RecordIds -> Row \cup {None}]
  /\ candidates \in [Workers -> SUBSET Candidate]
  /\ lookup \in [Workers -> Lookup \cup {None}]
  /\ draft \in [Workers -> Row \cup {None}]

\* What a turn has at each of its calls.
Control(w) ==
  /\ step[w] = "idle" => turn[w] = None /\ understood[w] = None
  /\ step[w] # "idle" => turn[w] \in Turns
  /\ step[w] \in {"raw_get", "raw_parse", "research"} => understood[w] = None
  /\ step[w] \in {"canonical_get", "canonical_parse", "render", "write"}
       => understood[w] \in Requests
  /\ step[w] # "touch" => served[w] = None

\* The metadata was written for a verified result, and is only good for it.
Backed(md) ==
  \E v \in verified :
     /\ md.payload_hash = v.result /\ md.expires_at = v.at + TTL
     /\ v.result.owner = Shared => md.raw_query_hash = v.query

\* What a turn holds of the collection, or is about to write to it.
HeldBacked(w) ==
  /\ \A c \in candidates[w] : Backed(c.metadata)
  /\ step[w] = "touch" => lookup[w] \in Lookup /\ Backed(lookup[w].metadata)
  /\ step[w] = "write" => draft[w] \in Row /\ Backed(draft[w].metadata)

RowsBacked == \A id \in RecordIds : rows[id] # None => Backed(rows[id].metadata)

CacheInv ==
  /\ TypeInv
  /\ \A w \in Workers : Control(w) /\ HeldBacked(w)
  /\ RowsBacked

-----------------------------------------------------------------------------

\* The collection is empty and every worker idle at first.
LEMMA CacheInvInit == Init => CacheInv
<1> SUFFICES ASSUME Init PROVE CacheInv
  OBVIOUS
<1>1. TypeInv
  BY DEF Init, ReuseInit, TypeInv, Steps
<1>2. \A w \in Workers : Control(w) /\ HeldBacked(w)
  BY DEF Init, ReuseInit, Control, HeldBacked
<1>3. RowsBacked
  BY DEF Init, RowsBacked
<1> QED
  BY <1>1, <1>2, <1>3 DEF CacheInv

\* What was verified stays verified, and metadata stays backed with it.
LEMMA BackedStays ==
  ASSUME NEW md, Backed(md), verified \subseteq verified'
  PROVE  Backed(md)'
  BY DEF Backed

\* Writing back a snapshot of metadata, or failing to, leaves rows backed.
LEMMA RowsAfterMetadata ==
  ASSUME TypeInv, RowsBacked, NEW id \in RecordIds, NEW md \in Metadata, Backed(md),
         WriteMetadata(id, md) \/ UNCHANGED rows, UNCHANGED verified
  PROVE  rows' \in [RecordIds -> Row \cup {None}] /\ RowsBacked'
<1>1. CASE UNCHANGED rows
  BY <1>1 DEF TypeInv, RowsBacked, Backed
<1>2. CASE WriteMetadata(id, md)
  <2>1. \A i \in RecordIds : i # id => rows'[i] = rows[i]
    BY <1>2 DEF WriteMetadata, TypeInv
  <2>2. \/ rows'[id] = None
        \/ rows'[id] \in Row /\ rows'[id].metadata = md
    BY <1>2 DEF WriteMetadata, TypeInv, Row
  <2>3. rows' \in [RecordIds -> Row \cup {None}]
    BY <1>2, <2>1, <2>2 DEF WriteMetadata, TypeInv
  <2>4. RowsBacked'
    BY <2>1, <2>2 DEF RowsBacked, Backed
  <2> QED
    BY <2>3, <2>4
<1> QED
  BY <1>1, <1>2

\* A turn that ends leaves nothing in flight.
LEMMA AfterDone ==
  ASSUME TypeInv, \A w \in Workers : Control(w) /\ HeldBacked(w),
         NEW w \in Workers, Done(w), UNCHANGED <<now, version, verified>>
  PROVE  /\ rows' \in [RecordIds -> Row \cup {None}] => TypeInv'
         /\ \A o \in Workers : (Control(o) /\ HeldBacked(o))'
<1>1. rows' \in [RecordIds -> Row \cup {None}] => TypeInv'
  BY DEF TypeInv, Done, GoTo, Steps
<1>2. ASSUME NEW o \in Workers PROVE (Control(o) /\ HeldBacked(o))'
  <2>1. CASE o = w
    BY <2>1 DEF TypeInv, Done, GoTo, Control, HeldBacked
  <2>2. CASE o # w
    BY <2>2 DEF TypeInv, Done, GoTo, Control, HeldBacked, Backed
  <2> QED
    BY <2>1, <2>2
<1> QED
  BY <1>1, <1>2

-----------------------------------------------------------------------------
(* Each step keeps the invariant and is one of VerifiedReuse.              *)

Kept == CacheInv' /\ [ReuseNext]_reuseVars

\* A turn begins.
LEMMA BeginTurnStep ==
  ASSUME CacheInv, NEW w \in Workers, BeginTurn(w)
  PROVE  Kept
<1>1. TypeInv'
  BY DEF CacheInv, TypeInv, BeginTurn, GoTo, Steps, Turns
<1>2. ASSUME NEW o \in Workers PROVE (Control(o) /\ HeldBacked(o))'
  <2>1. CASE o = w
    BY <2>1 DEF CacheInv, TypeInv, BeginTurn, GoTo, Control, HeldBacked, Backed, Turns
  <2>2. CASE o # w
    BY <2>2 DEF CacheInv, TypeInv, BeginTurn, GoTo, Control, HeldBacked, Backed
  <2> QED
    BY <2>1, <2>2
<1>3. RowsBacked'
  BY DEF CacheInv, RowsBacked, BeginTurn, Backed
<1>4. Start(w)
  BY DEF CacheInv, Control, BeginTurn, Start
<1> QED
  BY <1>1, <1>2, <1>3, <1>4 DEF CacheInv, Kept, ReuseNext

\* A get returns snapshots of backed rows; a failed one returns nothing.
LEMMA GetStep ==
  ASSUME CacheInv, NEW w \in Workers, RawGet(w) \/ CanonicalGet(w) \/ GetFails(w)
  PROVE  Kept
<1>1. PICK ids \in SUBSET Stored :
         candidates' = candidates \/ candidates' = [candidates EXCEPT ![w] = Snapshot(ids)]
  BY DEF RawGet, CanonicalGet, GetFails
<1>2. Snapshot(ids) \subseteq Candidate /\ \A c \in Snapshot(ids) : Backed(c.metadata)
  <2> SUFFICES ASSUME NEW id \in ids
               PROVE  /\ rows[id] \in Row /\ Backed(rows[id].metadata)
                      /\ id \in RecordIds
    BY DEF Snapshot, Candidate, Row
  <2> QED
    BY DEF Stored, CacheInv, TypeInv, RowsBacked
<1>3. /\ candidates' \in [Workers -> SUBSET Candidate]
      /\ \A o \in Workers : \A c \in candidates'[o] : Backed(c.metadata)
  BY <1>1, <1>2 DEF CacheInv, TypeInv, HeldBacked
<1>4. /\ \E s \in {"raw_parse", "canonical_parse", "research", "render"} :
            /\ GoTo(w, s)
            /\ s \in {"raw_parse", "research"} => step[w] = "raw_get"
            /\ s \in {"canonical_parse", "render"} => step[w] = "canonical_get"
      /\ UNCHANGED <<reuseVars, rows, lookup, draft>>
  BY DEF RawGet, CanonicalGet, GetFails, AfterMiss
<1>5. TypeInv'
  BY <1>3, <1>4 DEF CacheInv, TypeInv, GoTo, Steps, reuseVars
<1>6. ASSUME NEW o \in Workers PROVE (Control(o) /\ HeldBacked(o))'
  <2>1. Control(o)'
    BY <1>4 DEF CacheInv, TypeInv, GoTo, Control, reuseVars
  <2>2. HeldBacked(o)'
    BY <1>3, <1>4 DEF CacheInv, TypeInv, GoTo, HeldBacked, Backed, reuseVars
  <2> QED
    BY <2>1, <2>2
<1>7. RowsBacked'
  BY <1>4 DEF CacheInv, RowsBacked, Backed, reuseVars
<1> QED
  BY <1>4, <1>5, <1>6, <1>7 DEF CacheInv, Kept

\* The heart of the refinement: a candidate that passes every check was verified
\* less than a TTL ago, on this data, for this question or request.
LEMMA ParseHitStep ==
  ASSUME CacheInv, NEW w \in Workers, ParseHit(w)
  PROVE  Kept
<1>1. PICK c \in candidates[w] :
         /\ Valid(w, c)
         /\ lookup' = [lookup EXCEPT ![w] = [id |-> c.id, metadata |-> c.metadata]]
         /\ served' = [served EXCEPT ![w] = c.document]
  BY DEF ParseHit
<1>2. c \in Candidate /\ Backed(c.metadata)
  BY DEF CacheInv, TypeInv, HeldBacked
<1>3. [id |-> c.id, metadata |-> c.metadata] \in Lookup /\ c.document \in Results
  BY <1>2 DEF Candidate, Lookup
<1>4. TypeInv'
  BY <1>1, <1>3 DEF CacheInv, TypeInv, ParseHit, GoTo, Steps
<1>5. ASSUME NEW o \in Workers PROVE (Control(o) /\ HeldBacked(o))'
  <2>1. CASE o = w
    <3>1. Control(w)'
      BY DEF CacheInv, TypeInv, ParseHit, Parsing, GoTo, Control
    <3>2. candidates'[w] = {} /\ step'[w] = "touch" /\ verified' = verified
      BY DEF CacheInv, TypeInv, ParseHit, GoTo
    <3>3. lookup'[w] \in Lookup /\ lookup'[w].metadata = c.metadata
      BY <1>1, <1>3 DEF CacheInv, TypeInv
    <3> QED
      BY <1>2, <2>1, <3>1, <3>2, <3>3 DEF HeldBacked, Backed
  <2>2. CASE o # w
    BY <1>1, <2>2 DEF CacheInv, TypeInv, ParseHit, GoTo, Control, HeldBacked, Backed
  <2> QED
    BY <2>1, <2>2
<1>6. RowsBacked'
  BY DEF CacheInv, RowsBacked, ParseHit, Backed
<1>7. Serve(w)
  <2>1. PICK v \in verified :
          /\ c.metadata.payload_hash = v.result /\ c.metadata.expires_at = v.at + TTL
          /\ v.result.owner = Shared => c.metadata.raw_query_hash = v.query
    BY <1>2 DEF Backed
  <2>2. c.document = v.result /\ v.result.version = version /\ Fresh(v)
    BY <1>1, <2>1 DEF Valid, PayloadValid, MetadataValid, Fresh
  <2>3. turn[w] # None /\ served[w] = None
    BY CacheAssumption DEF CacheInv, Control, ParseHit, Parsing, Turns
  <2>4. Fits(w, v)
    <3>1. CASE step[w] = "raw_parse"
      BY <1>1, <2>1, <2>2, <3>1 DEF Valid, Expected, PayloadValid, Fits
    <3>2. CASE step[w] = "canonical_parse"
      <4>1. understood[w] # None
        BY <3>2, CacheAssumption DEF CacheInv, Control, Requests, Owners
      <4> QED
        BY <1>1, <2>2, <3>2, <4>1 DEF Valid, Expected, Fits
    <3> QED
      BY <3>1, <3>2 DEF ParseHit, Parsing
  <2> QED
    BY <1>1, <2>2, <2>3, <2>4 DEF Serve, ParseHit
<1> QED
  BY <1>4, <1>5, <1>6, <1>7 DEF CacheInv, Kept, ReuseNext

\* An unsound candidate is passed over and marked with its own metadata.
LEMMA ParseInvalidStep ==
  ASSUME CacheInv, NEW w \in Workers, ParseInvalid(w)
  PROVE  Kept
<1>1. PICK c \in candidates[w] :
         /\ candidates' = [candidates EXCEPT ![w] = @ \ {c}]
         /\ \/ WriteMetadata(c.id, [c.metadata EXCEPT !.status = "stale"])
            \/ UNCHANGED rows
  BY DEF ParseInvalid
<1>2. c \in Candidate /\ Backed(c.metadata)
  BY DEF CacheInv, TypeInv, HeldBacked
<1>3. /\ c.id \in RecordIds
      /\ [c.metadata EXCEPT !.status = "stale"] \in Metadata
  BY <1>2 DEF Candidate, Metadata
<1>4. Backed([c.metadata EXCEPT !.status = "stale"])
  BY <1>2 DEF Backed, Candidate, Metadata
<1>5. UNCHANGED <<reuseVars, step, lookup, draft>>
  BY DEF ParseInvalid
<1>6. rows' \in [RecordIds -> Row \cup {None}] /\ RowsBacked'
  BY <1>1, <1>3, <1>4, <1>5, RowsAfterMetadata DEF CacheInv, reuseVars
<1>7. TypeInv'
  BY <1>1, <1>5, <1>6 DEF CacheInv, TypeInv, reuseVars
<1>8. \A o \in Workers : (Control(o) /\ HeldBacked(o))'
  BY <1>1, <1>5 DEF CacheInv, TypeInv, Control, HeldBacked, Backed, reuseVars
<1> QED
  BY <1>5, <1>6, <1>7, <1>8 DEF CacheInv, Kept

\* No candidate is left.
LEMMA ParseMissStep ==
  ASSUME CacheInv, NEW w \in Workers, ParseMiss(w)
  PROVE  Kept
<1>1. /\ \E s \in {"research", "render"} :
            /\ GoTo(w, s)
            /\ s = "research" => step[w] = "raw_parse"
            /\ s = "render" => step[w] = "canonical_parse"
      /\ UNCHANGED <<reuseVars, rows, candidates, lookup, draft>>
  BY DEF ParseMiss, Parsing, AfterMiss
<1>2. TypeInv'
  BY <1>1 DEF CacheInv, TypeInv, GoTo, Steps, reuseVars
<1>3. ASSUME NEW o \in Workers PROVE (Control(o) /\ HeldBacked(o))'
  BY <1>1 DEF CacheInv, TypeInv, GoTo, Control, HeldBacked, Backed, reuseVars
<1>4. RowsBacked'
  BY <1>1 DEF CacheInv, RowsBacked, Backed, reuseVars
<1> QED
  BY <1>1, <1>2, <1>3, <1>4 DEF CacheInv, Kept

\* A touch writes back the metadata of the lookup, whatever the row is by now.
LEMMA TouchStep ==
  ASSUME CacheInv, NEW w \in Workers, Touch(w)
  PROVE  Kept
<1>1. /\ Done(w) /\ UNCHANGED <<now, version, verified>>
      /\ step[w] = "touch"
      /\ WriteMetadata(lookup[w].id, Touched(lookup[w].metadata)) \/ UNCHANGED rows
  BY DEF Touch
<1>2. lookup[w] \in Lookup /\ Backed(lookup[w].metadata)
  BY <1>1 DEF CacheInv, HeldBacked
<1>3. lookup[w].id \in RecordIds /\ Touched(lookup[w].metadata) \in Metadata
  <2>1. lookup[w].id \in RecordIds /\ lookup[w].metadata \in Metadata
    BY <1>2 DEF Lookup
  <2>2. ASSUME NEW md \in Metadata PROVE Touched(md) \in Metadata
    <3>1. md.hit_count + 1 \in Nat
      BY DEF Metadata
    <3> QED
      BY <3>1 DEF Metadata, Touched
  <2> QED
    BY <2>1, <2>2
<1>4. Backed(Touched(lookup[w].metadata))
  BY <1>2 DEF Backed, Lookup, Metadata, Touched
<1>5. rows' \in [RecordIds -> Row \cup {None}] /\ RowsBacked'
  BY <1>1, <1>3, <1>4, RowsAfterMetadata DEF CacheInv
<1>6. TypeInv' /\ \A o \in Workers : (Control(o) /\ HeldBacked(o))'
  BY <1>1, <1>5, AfterDone DEF CacheInv
<1>7. Finish(w)
  <2>1. turn[w] # None
    BY <1>1, CacheAssumption DEF CacheInv, Control, Turns
  <2> QED
    BY <1>1, <2>1 DEF Finish, Done
<1> QED
  BY <1>5, <1>6, <1>7 DEF CacheInv, Kept, ReuseNext

\* The request is understood.
LEMMA ResearchStep ==
  ASSUME CacheInv, NEW w \in Workers, Research(w)
  PROVE  Kept
<1>1. PICK sig \in Signatures, owner \in {Shared, turn[w].conv} :
         understood' = [understood EXCEPT ![w] = [sig |-> sig, owner |-> owner]]
  BY DEF Research
<1>2. turn[w] \in Turns /\ understood[w] = None
  BY DEF CacheInv, Control, Research
<1>3. [sig |-> sig, owner |-> owner] \in Requests
  BY <1>2 DEF Turns, Requests, Owners
<1>4. TypeInv'
  BY <1>1, <1>3 DEF CacheInv, TypeInv, Research, GoTo, Steps
<1>5. ASSUME NEW o \in Workers PROVE (Control(o) /\ HeldBacked(o))'
  <2>1. Control(o)'
    BY <1>1, <1>2, <1>3 DEF CacheInv, TypeInv, Research, GoTo, Control
  <2>2. HeldBacked(o)'
    BY DEF CacheInv, TypeInv, Research, GoTo, HeldBacked, Backed
  <2> QED
    BY <2>1, <2>2
<1>6. RowsBacked'
  BY DEF CacheInv, RowsBacked, Research, Backed
<1>7. Understand(w)
  <2>1. turn[w] # None
    BY <1>2, CacheAssumption DEF Turns
  <2> QED
    BY <1>1, <1>2, <2>1 DEF Understand, Research
<1> QED
  BY <1>4, <1>5, <1>6, <1>7 DEF CacheInv, Kept, ReuseNext

\* The turn ends without anything to remember.
LEMMA NothingToRememberStep ==
  ASSUME CacheInv, NEW w \in Workers, NothingToRemember(w)
  PROVE  Kept
<1>1. Done(w) /\ UNCHANGED <<now, version, verified, rows>> /\ step[w] # "idle"
  BY DEF NothingToRemember
<1>2. TypeInv' /\ \A o \in Workers : (Control(o) /\ HeldBacked(o))'
  BY <1>1, AfterDone DEF CacheInv, TypeInv
<1>3. RowsBacked'
  BY <1>1 DEF CacheInv, RowsBacked, Backed
<1>4. Finish(w)
  <2>1. turn[w] # None
    BY <1>1, CacheAssumption DEF CacheInv, Control, Turns
  <2> QED
    BY <1>1, <2>1 DEF Finish, Done
<1> QED
  BY <1>2, <1>3, <1>4 DEF CacheInv, Kept, ReuseNext

\* A result is verified, and the row for it prepared.
LEMMA RenderStep ==
  ASSUME CacheInv, NEW w \in Workers, Render(w)
  PROVE  Kept
<1> DEFINE Result(answer) == [sig |-> understood[w].sig, owner |-> understood[w].owner,
                              version |-> version, answer |-> answer]
           Verified(result) == [result |-> result, query |-> turn[w].query, at |-> now]
<1>1. PICK answer \in Answers :
         /\ draft' = [draft EXCEPT ![w] = FreshRow(Result(answer), turn[w].query)]
         /\ verified' = verified \cup {Verified(Result(answer))}
  BY DEF Render
<1>2. turn[w] \in Turns /\ understood[w] \in Requests /\ served[w] = None
  BY DEF CacheInv, Control, Render
<1>3. Result(answer) \in Results
  BY <1>2 DEF CacheInv, TypeInv, Requests, Owners, Results
<1> HIDE DEF Result
<1>r. PICK row : row = FreshRow(Result(answer), turn[w].query)
  OBVIOUS
<1>4. row \in Row
  <2>1. now + TTL \in Nat /\ turn[w].query \in Queries
    BY <1>2, CacheAssumption DEF CacheInv, TypeInv, Turns
  <2>2. Result(answer).version \in Versions /\ Result(answer).owner \in Owners
    BY <1>3 DEF Results, Owners
  <2> QED
    BY <1>r, <1>3, <2>1, <2>2 DEF FreshRow, Row, Metadata
<1>5. Backed(row.metadata)'
  <2>1. PICK v \in verified' : v = Verified(Result(answer))
    BY <1>1
  <2>2. /\ row.metadata.payload_hash = v.result /\ row.metadata.expires_at = v.at + TTL
        /\ v.result.owner = Shared => row.metadata.raw_query_hash = v.query
    BY <1>r, <2>1 DEF FreshRow
  <2> QED
    BY <2>2 DEF Backed
<1>6. TypeInv'
  BY <1>1, <1>r, <1>4 DEF CacheInv, TypeInv, Render, GoTo, Steps
<1>7. \A md : Backed(md) => Backed(md)'
  BY <1>1 DEF Backed
<1>8. ASSUME NEW o \in Workers PROVE (Control(o) /\ HeldBacked(o))'
  <2>1. Control(o)'
    BY DEF CacheInv, TypeInv, Render, GoTo, Control
  <2>2. HeldBacked(o)'
    <3>1. CASE o = w
      <4>1. step'[w] = "write" /\ draft'[w] = row /\ candidates' = candidates
        BY <1>1, <1>r DEF CacheInv, TypeInv, Render, GoTo
      <4> QED
        BY <1>4, <1>5, <1>7, <3>1, <4>1 DEF CacheInv, HeldBacked
    <3>2. CASE o # w
      BY <1>1, <1>7, <3>2 DEF CacheInv, TypeInv, Render, GoTo, HeldBacked
    <3> QED
      BY <3>1, <3>2
  <2> QED
    BY <2>1, <2>2
<1>9. RowsBacked'
  BY <1>7 DEF CacheInv, RowsBacked, Render
<1>10. Verify(w)
  <2>1. turn[w] # None /\ understood[w] # None
    BY <1>2, CacheAssumption DEF Turns, Requests, Owners
  <2> QED
    BY <1>1, <1>2, <2>1 DEF Verify, Render, Result
<1> QED
  BY <1>6, <1>8, <1>9, <1>10 DEF CacheInv, Kept, ReuseNext

\* The upsert puts the prepared row in the place of whatever was there.
LEMMA WriteStep ==
  ASSUME CacheInv, NEW w \in Workers, Write(w)
  PROVE  Kept
<1>1. /\ Done(w) /\ UNCHANGED <<now, version, verified>> /\ step[w] = "write"
      /\ \/ rows' = [rows EXCEPT ![CanonicalId(draft[w].document)] = draft[w]]
         \/ UNCHANGED rows
  BY DEF Write
<1>2. draft[w] \in Row /\ Backed(draft[w].metadata)
  BY <1>1 DEF CacheInv, HeldBacked
<1>3. rows' \in [RecordIds -> Row \cup {None}]
  BY <1>1, <1>2 DEF CacheInv, TypeInv
<1>4. \A id \in RecordIds : rows'[id] = rows[id] \/ rows'[id] = draft[w]
  BY <1>1 DEF CacheInv, TypeInv
<1>5. RowsBacked'
  BY <1>1, <1>2, <1>4 DEF CacheInv, RowsBacked, Backed
<1>6. TypeInv' /\ \A o \in Workers : (Control(o) /\ HeldBacked(o))'
  BY <1>1, <1>3, AfterDone DEF CacheInv
<1>7. Finish(w)
  <2>1. turn[w] # None
    BY <1>1, CacheAssumption DEF CacheInv, Control, Turns
  <2> QED
    BY <1>1, <2>1 DEF Finish, Done
<1> QED
  BY <1>5, <1>6, <1>7 DEF CacheInv, Kept, ReuseNext

\* Time passes: an expiry is compared with the clock when it is read.
LEMMA ClockTicksStep ==
  ASSUME CacheInv, ClockTicks
  PROVE  Kept
<1>1. TypeInv'
  BY DEF CacheInv, TypeInv, ClockTicks, storeVars
<1>2. \A o \in Workers : (Control(o) /\ HeldBacked(o))'
  BY DEF CacheInv, Control, HeldBacked, Backed, ClockTicks, storeVars
<1>3. RowsBacked'
  BY DEF CacheInv, RowsBacked, Backed, ClockTicks, storeVars
<1>4. ReuseNext
  BY DEF ClockTicks, Tick, ReuseNext
<1> QED
  BY <1>1, <1>2, <1>3, <1>4 DEF CacheInv, Kept

\* The process restarts on other data: the rows are still those of before.
LEMMA RestartStep ==
  ASSUME CacheInv, Restart
  PROVE  Kept
<1>1. TypeInv'
  BY DEF CacheInv, TypeInv, Restart, Steps
<1>2. \A o \in Workers : (Control(o) /\ HeldBacked(o))'
  BY DEF CacheInv, Control, HeldBacked, Restart
<1>3. RowsBacked'
  BY DEF CacheInv, RowsBacked, Backed, Restart
<1>4. ReuseNext
  BY DEF Restart, Redeploy, ReuseNext
<1> QED
  BY <1>1, <1>2, <1>3, <1>4 DEF CacheInv, Kept

\* No variable changes.
LEMMA StutterStep ==
  ASSUME CacheInv, UNCHANGED vars
  PROVE  Kept
  BY DEF CacheInv, TypeInv, Control, HeldBacked, RowsBacked, Backed, Kept, vars, reuseVars,
     storeVars

\* Every step keeps the invariant and is a step of VerifiedReuse or a stutter.
LEMMA CacheInvStep == CacheInv /\ [Next]_vars => CacheInv' /\ [ReuseNext]_reuseVars
<1> SUFFICES ASSUME CacheInv, [Next]_vars PROVE Kept
  BY DEF Kept
<1>1. ASSUME NEW w \in Workers, BeginTurn(w) \/ TurnStep(w) PROVE Kept
  BY <1>1, BeginTurnStep, GetStep, ParseHitStep, ParseInvalidStep, ParseMissStep, TouchStep,
     ResearchStep, NothingToRememberStep, RenderStep, WriteStep DEF TurnStep
<1> QED
  BY <1>1, ClockTicksStep, RestartStep, StutterStep DEF Next

-----------------------------------------------------------------------------

\* For any workers, conversations, requests, data versions and TTL: whatever
\* calls race, fail or are cut off by a restart, LongTermMemory serves only what
\* VerifiedReuse allows.
THEOREM CacheImplementsReuse == Spec => ImplementsReuse
<1>1. Init => ReuseInit
  BY DEF Init
<1> QED
  BY <1>1, CacheInvInit, CacheInvStep, PTL DEF Spec, ImplementsReuse, ReuseSpec

-----------------------------------------------------------------------------
(* Sound candidates are not passed over.                                   *)

\* Candidates are held from the get to the end of the parse only.
Pending == \A w \in Workers : candidates[w] # {} => Parsing(w)

\* A get comes after nothing is left of the one before.
LEMMA PendingStep == CacheInv /\ Pending /\ [Next]_vars => Pending'
<1> SUFFICES ASSUME CacheInv, Pending, [Next]_vars, NEW o \in Workers
             PROVE  (candidates[o] # {} => Parsing(o))'
  BY DEF Pending
<1>t. step \in [Workers -> Steps] /\ candidates \in [Workers -> SUBSET Candidate]
  BY DEF CacheInv, TypeInv
<1>o. candidates[o] # {} => Parsing(o)
  BY DEF Pending
<1> USE <1>t, <1>o DEF Parsing, GoTo
<1>1. ASSUME NEW w \in Workers, BeginTurn(w) PROVE (candidates[o] # {} => Parsing(o))'
  BY <1>1 DEF BeginTurn
<1>2. ASSUME NEW w \in Workers, RawGet(w) \/ CanonicalGet(w)
      PROVE (candidates[o] # {} => Parsing(o))'
  BY <1>2 DEF RawGet, CanonicalGet
<1>3. ASSUME NEW w \in Workers, GetFails(w) \/ ParseMiss(w)
      PROVE (candidates[o] # {} => Parsing(o))'
  BY <1>3 DEF GetFails, ParseMiss
<1>4. ASSUME NEW w \in Workers, ParseHit(w) \/ ParseInvalid(w)
      PROVE (candidates[o] # {} => Parsing(o))'
  BY <1>4 DEF ParseHit, ParseInvalid
<1>5. ASSUME NEW w \in Workers, Touch(w) \/ NothingToRemember(w) \/ Write(w)
      PROVE (candidates[o] # {} => Parsing(o))'
  BY <1>5 DEF Touch, NothingToRemember, Write, Done
<1>6. ASSUME NEW w \in Workers, Research(w) \/ Render(w)
      PROVE (candidates[o] # {} => Parsing(o))'
  BY <1>6 DEF Research, Render
<1>7. CASE ClockTicks \/ Restart \/ UNCHANGED vars
  BY <1>7 DEF ClockTicks, Restart, vars, storeVars
<1> QED
  BY <1>1, <1>2, <1>3, <1>4, <1>5, <1>6, <1>7 DEF Next, TurnStep

\* What a step may do with a sound candidate of o.
Unshadowed(o) ==
  (\E c \in candidates[o] : Valid(o, c)) /\ now' = now /\ version' = version
    => served'[o] # None \/ \E c \in candidates[o] \cap candidates'[o] : Valid(o, c)

\* Only its own parse takes candidates from a turn, and it takes unsound ones.
LEMMA UnshadowedStep ==
  ASSUME CacheInv, Pending, [Next]_vars, NEW o \in Workers
  PROVE  Unshadowed(o)
<1> SUFFICES ASSUME NEW c \in candidates[o], Valid(o, c), version' = version
             PROVE  \/ served'[o] # None
                    \/ \E d \in candidates[o] \cap candidates'[o] : Valid(o, d)
  BY DEF Unshadowed
<1>p. Parsing(o)
  BY DEF Pending
<1>k. candidates'[o] = candidates[o] => c \in candidates[o] \cap candidates'[o]
  OBVIOUS
<1>t. /\ candidates \in [Workers -> SUBSET Candidate]
      /\ served \in [Workers -> Results \cup {None}]
  BY DEF CacheInv, TypeInv
<1>1. ASSUME NEW w \in Workers, BeginTurn(w) \/ TurnStep(w), w # o
      PROVE  candidates'[o] = candidates[o]
  BY <1>1, <1>t DEF BeginTurn, TurnStep, RawGet, CanonicalGet, GetFails, ParseHit,
     ParseInvalid, ParseMiss, Touch, Research, NothingToRemember, Render, Write, Done
<1>2. CASE ParseHit(o)
  <2>1. PICK d \in candidates[o] : served' = [served EXCEPT ![o] = d.document]
    BY <1>2 DEF ParseHit
  <2>2. served'[o] \in Results
    BY <1>t, <2>1 DEF Candidate
  <2> QED
    BY <2>2, CacheAssumption
<1>3. CASE ParseInvalid(o)
  <2>1. PICK d \in candidates[o] :
           ~Valid(o, d) /\ candidates' = [candidates EXCEPT ![o] = @ \ {d}]
    BY <1>3 DEF ParseInvalid
  <2>2. c \in candidates'[o]
    BY <1>t, <2>1
  <2> QED
    BY <2>2
<1>4. ~(BeginTurn(o) \/ RawGet(o) \/ CanonicalGet(o) \/ GetFails(o) \/ ParseMiss(o)
          \/ Touch(o) \/ Research(o) \/ NothingToRemember(o) \/ Render(o) \/ Write(o))
  BY <1>p DEF Parsing, BeginTurn, RawGet, CanonicalGet, GetFails, ParseMiss, Touch,
     Research, NothingToRemember, Render, Write
<1>5. CASE ClockTicks \/ UNCHANGED vars
  BY <1>k, <1>5 DEF ClockTicks, vars, storeVars
<1>6. ~Restart
  BY DEF Restart
<1> QED
  BY <1>k, <1>1, <1>2, <1>3, <1>4, <1>5, <1>6 DEF Next, TurnStep

\* For any number of rows and turns: a sound row is served, however many unsound
\* rows the lookup passes over and whatever other turns do to the collection.
THEOREM SoundRowsAreServed == Spec => NoShadowing
<1>1. Init => Pending
  BY DEF Init, Pending
<1>2. CacheInv /\ Pending /\ [Next]_vars =>
        [\A w \in Workers :
           (\E c \in candidates[w] : Valid(w, c)) /\ now' = now /\ version' = version
             => served'[w] # None
                \/ \E c \in candidates[w] \cap candidates'[w] : Valid(w, c)]_vars
  BY UnshadowedStep DEF Unshadowed
<1>3. CacheInv /\ [Next]_vars => CacheInv'
  BY CacheInvStep
<1> QED
  BY <1>1, <1>2, <1>3, CacheInvInit, PendingStep, PTL DEF Spec, NoShadowing

=============================================================================
