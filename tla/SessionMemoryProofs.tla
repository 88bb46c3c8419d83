------------------------ MODULE SessionMemoryProofs ------------------------
(***************************************************************************)
(* What short-term memory keeps, for any number of requests and any        *)
(* window. The checkpoint runs behind the turn, and the turn may be cut    *)
(* off between any two supersteps; so the invariant speaks of every copy   *)
(* that may still become the checkpoint: each is as good as the one it     *)
(* replaces, and exactly the copy made by compact_session adds the turn.   *)
(* compact_turns changes copies that are not saved yet: what they hold is  *)
(* said with a lower bound on summarized, which that change leaves true.   *)
(***************************************************************************)
EXTENDS SessionMemory, SequenceTheorems, TLAPS

\* Facts of one data version, and fewer turns than trigger a compaction.
Sound(s) ==
  /\ s.graph # None => s.graph.version = s.version
  /\ s.latest # None => s.latest = s.graph
  /\ s.confirmed \subseteq {s.version}
  /\ Len(s.recent) < ShortTermMaxTurns

\* How many turns left the window.
Older(s) == s.total - Len(s.recent)

\* The channels s of a conversation whose turns are turns: the summary counts
\* those that left the window, and perhaps some that a lost turn had compacted.
Holds(s, turns) ==
  /\ s.total = Len(turns) /\ Older(s) \in 0..s.summarized
  /\ \A i \in 1..Len(s.recent) : s.recent[i] = turns[Older(s) + i]

Before == {"agents", "merge_session_graph", "compact_turns", "compact_session"}
Holding == Running \cup {"save"}

In(r, turns) == \E i \in DOMAIN turns : turns[i] = r

\* The history of the conversation of r.
Turns(r) == remembered[conv[r]]

\* A copy not saved yet continues the history by r only if compact_session made it.
CopyOK(r, i) ==
  /\ Sound(unsaved[r][i].channels)
  /\ unsaved[r][i].node = "compact_session" =>
       /\ i = Len(unsaved[r]) /\ stage[r] = "return" /\ ~In(r, Turns(r))
       /\ Holds(unsaved[r][i].channels, Append(Turns(r), r))
  /\ unsaved[r][i].node # "compact_session" => Holds(unsaved[r][i].channels, Turns(r))

\* What r has at each of its stages.
TurnOK(r) ==
  /\ \A i \in DOMAIN unsaved[r] : CopyOK(r, i)
  /\ unsaved[r] # <<>> => stage[r] \in Running
  /\ stage[r] = "begin_turn" => unsaved[r] = <<>> /\ live[r] = None
  /\ stage[r] \in Before => Holds(live[r], Turns(r))
  /\ stage[r] \in Before \cup {"begin_turn"} => ~In(r, Turns(r))
  /\ stage[r] \in Before \cup {"return", "save"} =>
       live[r] \in Channels /\ Sound(live[r]) /\ live[r].version = data_version
  /\ stage[r] \in {"merge_session_graph", "compact_turns", "compact_session", "return", "save"}
       => settled[r] \in Settlements
  /\ stage[r] = "compact_session" =>
       Older(live[r]) + NumberToCompact(Append(live[r].recent, r)) <= live[r].summarized
  /\ stage[r] = "return" =>
       \/ In(r, Turns(r))
       \/ unsaved[r] # <<>> /\ unsaved[r][Len(unsaved[r])].node = "compact_session"
  /\ stage[r] = "save" => unsaved[r] = <<>>
  /\ stage[r] \in {"save", "replied"} => In(r, Turns(r))

TurnsOK == \A r \in Requests : conv[r] # None => TurnOK(r)

\* Nothing is made of a request that was not sent.
UnsentOK == \A r \in Requests : conv[r] = None => unsaved[r] = <<>>

\* How many requests of c had the lock, or lost their place to a restart.
Begun(c) == Len(arrivals[c]) - Len(waiting[c])

\* The queue is the end of the arrivals, and the holder came just before it.
QueueOK(c) ==
  /\ \A i, j \in DOMAIN arrivals[c] : arrivals[c][i] = arrivals[c][j] => i = j
  /\ \A i \in DOMAIN arrivals[c] : conv[arrivals[c][i]] = c
  /\ Begun(c) \in Nat
  /\ \A k \in 1..Len(waiting[c]) : waiting[c][k] = arrivals[c][Begun(c) + k]
  /\ holder[c] # None => Begun(c) > 0 /\ holder[c] = arrivals[c][Begun(c)]

LockOK == \A r \in Requests : stage[r] = "lock" => In(r, waiting[conv[r]])

\* The turns that are remembered had the lock, one after the other.
OrderOK(c) ==
  /\ \A i \in DOMAIN remembered[c] :
       \E m \in 1..Begun(c) : arrivals[c][m] = remembered[c][i]
  /\ \A i, j \in DOMAIN remembered[c] : i < j =>
       \E m, n \in DOMAIN arrivals[c] :
         m < n /\ arrivals[c][m] = remembered[c][i] /\ arrivals[c][n] = remembered[c][j]

\* What is remembered was settled.
SettledOK(c) == \A i \in DOMAIN remembered[c] : settled[remembered[c][i]] \in Settlements

ConversationOK(c) ==
  /\ QueueOK(c) /\ OrderOK(c) /\ SettledOK(c)
  /\ Sound(stored[c]) /\ Holds(stored[c], remembered[c])

SessionInv ==
  /\ TypeOK
  /\ TurnsOK /\ UnsentOK /\ LockOK
  /\ \A c \in Conversations : ConversationOK(c)

-----------------------------------------------------------------------------

\* The new server remembers nothing.
LEMMA SessionInvInit == Init => SessionInv
<1> SUFFICES ASSUME Init PROVE SessionInv
  OBVIOUS
<1> USE SessionAssumption
<1>1. FirstChannels \in Channels /\ Sound(FirstChannels) /\ Holds(FirstChannels, <<>>)
  BY DEF FirstChannels, Channels, Sound, Holds, Older
<1>2. TypeOK
  BY <1>1 DEF Init, TypeOK, Stages, Running
<1>3. TurnsOK /\ UnsentOK /\ LockOK
  BY DEF Init, TurnsOK, UnsentOK, LockOK
<1>4. \A c \in Conversations : ConversationOK(c)
  BY <1>1 DEF Init, ConversationOK, QueueOK, OrderOK, SettledOK, Begun
<1> QED
  BY <1>2, <1>3, <1>4 DEF SessionInv

-----------------------------------------------------------------------------
(* What the supersteps do to the channels.                                 *)

\* begin_turn brings the channels to the current data and keeps the turns.
LEMMA RestoredChannels ==
  ASSUME NEW s \in Channels, Sound(s), data_version \in Versions
  PROVE  /\ Restored(s) \in Channels /\ Sound(Restored(s))
         /\ Restored(s).version = data_version
         /\ \A turns : Holds(s, turns) => Holds(Restored(s), turns)
<1>1. EmptyGraph(data_version) \in Graphs
  BY DEF EmptyGraph, Graphs
<1>2. /\ Restored(s).recent = s.recent /\ Restored(s).summarized = s.summarized
      /\ Restored(s).total = s.total /\ Restored(s).version = data_version
      /\ Restored(s).focus = (IF Rollover(s) THEN {} ELSE s.focus)
      /\ Restored(s).latest = (IF Rollover(s) THEN None ELSE s.latest)
      /\ Restored(s).confirmed = (IF Rollover(s) THEN {} ELSE s.confirmed)
      /\ Restored(s).mentioned = (IF Rollover(s) THEN {} ELSE s.mentioned)
      /\ Restored(s).graph =
           (IF Rollover(s) \/ s.graph = None THEN EmptyGraph(data_version) ELSE s.graph)
  BY DEF Restored, Channels
<1>3. Restored(s) \in Channels
  BY <1>1, <1>2 DEF Restored, Channels
<1>4. Restored(s).confirmed \subseteq {data_version}
  <2>1. CASE Rollover(s)
    BY <1>2, <2>1
  <2>2. CASE ~Rollover(s)
    <3>1. s.version \in {None, data_version} /\ s.confirmed \subseteq Versions
      BY <2>2 DEF Rollover, Channels
    <3>2. None \notin s.confirmed
      BY <3>1, SessionAssumption
    <3> QED
      BY <1>2, <2>2, <3>1, <3>2 DEF Sound
  <2> QED
    BY <2>1, <2>2
<1>5. Sound(Restored(s))
  BY <1>1, <1>2, <1>4 DEF Sound, Rollover, EmptyGraph, Channels
<1>6. \A turns : Holds(s, turns) => Holds(Restored(s), turns)
  BY <1>2 DEF Holds, Older
<1> QED
  BY <1>2, <1>3, <1>5, <1>6

\* An answer sets the focus and leaves the rest.
LEMMA FocusedChannels ==
  ASSUME NEW s \in Channels, Sound(s), NEW focus \in SUBSET Entities
  PROVE  LET t == [s EXCEPT !.focus = focus]
         IN  /\ t \in Channels /\ Sound(t) /\ t.version = s.version
             /\ \A turns : Holds(s, turns) => Holds(t, turns)
<1> DEFINE t == [s EXCEPT !.focus = focus]
<1>1. /\ t.recent = s.recent /\ t.summarized = s.summarized /\ t.total = s.total
      /\ t.version = s.version /\ t.latest = s.latest /\ t.graph = s.graph
      /\ t.confirmed = s.confirmed /\ t \in Channels
  BY DEF Channels
<1> HIDE DEF t
<1>2. Sound(t) /\ \A turns : Holds(s, turns) => Holds(t, turns)
  BY <1>1 DEF Sound, Holds, Older
<1> QED
  BY <1>1, <1>2 DEF t

WithGraph(s, graph) == [s EXCEPT !.graph = graph, !.latest = graph]

\* merge_session_graph stores one graph of the current data twice.
LEMMA MergedChannels ==
  ASSUME NEW s \in Channels, Sound(s), NEW graph \in Graphs, graph.version = s.version,
         NEW t, t = WithGraph(s, graph)
  PROVE  /\ t \in Channels /\ Sound(t) /\ t.version = s.version
         /\ \A turns : Holds(s, turns) => Holds(t, turns)
<1>1. /\ t.recent = s.recent /\ t.summarized = s.summarized /\ t.total = s.total
      /\ t.version = s.version /\ t.latest = graph /\ t.graph = graph
      /\ t.confirmed = s.confirmed /\ t \in Channels
  BY DEF Channels, WithGraph
<1>2. Sound(t) /\ \A turns : Holds(s, turns) => Holds(t, turns)
  BY <1>1 DEF Sound, Holds, Older
<1> QED
  BY <1>1, <1>2

\* compact_turns keeps the newest turns, fewer than trigger the next compaction.
LEMMA NumberToCompactBounds ==
  ASSUME NEW turns \in Seq(Requests), Len(turns) <= ShortTermMaxTurns
  PROVE  /\ NumberToCompact(turns) \in 0..Len(turns)
         /\ Len(turns) - NumberToCompact(turns) < ShortTermMaxTurns
<1>1. Len(turns) \in Nat
  OBVIOUS
<1>2. CASE Len(turns) < ShortTermMaxTurns
  BY <1>1, <1>2, SessionAssumption DEF NumberToCompact
<1>3. CASE Len(turns) >= ShortTermMaxTurns
  BY <1>1, <1>3, SessionAssumption DEF NumberToCompact, AtMost, AtLeast
<1> QED
  BY <1>1, <1>2, <1>3, SessionAssumption

\* compact_turns raises the count of the summary and leaves the turns.
LEMMA SummarizedChannels ==
  ASSUME NEW s \in Channels, Sound(s), s.version = data_version, data_version \in Versions,
         NEW n \in Nat, NEW versions \in SUBSET Versions
  PROVE  LET t == Summarized(s, n, versions)
         IN  /\ t \in Channels /\ Sound(t) /\ t.version = s.version
             /\ t.recent = s.recent /\ t.total = s.total
             /\ t.summarized = s.summarized + n
             /\ t.focus = s.focus /\ t.graph = s.graph /\ t.latest = s.latest
             /\ \A turns : Holds(s, turns) => Holds(t, turns)
<1> DEFINE t == Summarized(s, n, versions)
<1>1. /\ t.recent = s.recent /\ t.summarized = s.summarized + n /\ t.total = s.total
      /\ t.version = s.version /\ t.latest = s.latest /\ t.graph = s.graph
      /\ t.focus = s.focus /\ t.confirmed = s.confirmed \cup {data_version}
  BY DEF Summarized, Channels
<1>2. s.summarized \in Nat /\ s.summarized + n \in Nat
  BY DEF Channels
<1>c. t \in Channels
  <2>1. /\ s.confirmed \cup {data_version} \in SUBSET Versions
        /\ s.mentioned \cup versions \in SUBSET Versions
    BY DEF Channels
  <2> QED
    BY <1>2, <2>1 DEF Summarized, Channels
<1> HIDE DEF t
<1>3. Sound(t)
  BY <1>1 DEF Sound
<1>4. ASSUME NEW turns, Holds(s, turns) PROVE Holds(t, turns)
  <2>1. Older(s) \in 0..s.summarized /\ Older(t) = Older(s)
    BY <1>1, <1>4 DEF Holds, Older
  <2>2. Older(t) \in 0..t.summarized
    BY <1>1, <1>2, <2>1
  <2> QED
    BY <1>1, <1>4, <2>1, <2>2 DEF Holds
<1> QED
  BY <1>1, <1>3, <1>4, <1>c DEF t

\* compact_session appends the turn to what the channels hold, and cuts off what
\* compact_turns has counted.
LEMMA CompactedChannels ==
  ASSUME NEW s \in Channels, Sound(s), NEW r \in Requests,
         Older(s) + NumberToCompact(Append(s.recent, r)) <= s.summarized
  PROVE  /\ Compacted(s, r) \in Channels /\ Sound(Compacted(s, r))
         /\ Compacted(s, r).version = s.version
         /\ \A history \in Seq(Requests) :
              Holds(s, history) => Holds(Compacted(s, r), Append(history, r))
         /\ Compacted(s, r).total = s.total + 1
         /\ Compacted(s, r).summarized = s.summarized
         /\ Len(Compacted(s, r).recent)
              = Len(s.recent) + 1 - NumberToCompact(Append(s.recent, r))
<1> DEFINE turns == Append(s.recent, r)
           n == NumberToCompact(turns)
           kept == SubSeq(turns, n + 1, Len(turns))
<1>1. /\ s.recent \in Seq(Requests) /\ s.summarized \in Nat /\ s.total \in Nat
      /\ Len(s.recent) \in Nat
  BY DEF Channels
<1>2. /\ turns \in Seq(Requests) /\ Len(turns) = Len(s.recent) + 1
      /\ \A i \in 1..Len(s.recent) : turns[i] = s.recent[i]
      /\ turns[Len(turns)] = r
  BY <1>1
<1>3. Len(turns) <= ShortTermMaxTurns
  BY <1>1, <1>2, SessionAssumption DEF Sound
<1>4. n \in 0..Len(turns) /\ Len(turns) - n < ShortTermMaxTurns
  BY <1>2, <1>3, NumberToCompactBounds
<1>o. s.total - Len(s.recent) + n <= s.summarized
  BY DEF Older
<1> HIDE DEF turns, n
<1>5. /\ kept \in Seq(Requests) /\ Len(kept) = Len(turns) - n
      /\ \A i \in 1..Len(kept) : kept[i] = turns[n + i]
  <2>1. \A i \in (n + 1)..Len(turns) : turns[i] \in Requests
    BY <1>2, <1>4
  <2>2. /\ SubSeq(turns, n + 1, Len(turns)) \in Seq(Requests)
        /\ Len(SubSeq(turns, n + 1, Len(turns))) =
             IF n + 1 <= Len(turns) THEN Len(turns) - (n + 1) + 1 ELSE 0
        /\ \A i \in 1..(Len(turns) - (n + 1) + 1) :
             SubSeq(turns, n + 1, Len(turns))[i] = turns[n + 1 + i - 1]
    BY <1>1, <1>2, <1>4, <2>1, SubSeqProperties
  <2> QED
    BY <1>1, <1>2, <1>4, <2>2
<1> HIDE DEF kept
<1>6. Compacted(s, r) = [s EXCEPT !.recent = kept, !.total = @ + 1]
  BY DEF Compacted, kept, n, turns
<1>7. /\ Compacted(s, r).recent = kept
      /\ Compacted(s, r).summarized = s.summarized
      /\ Compacted(s, r).total = s.total + 1
      /\ Compacted(s, r).version = s.version
      /\ Compacted(s, r).graph = s.graph /\ Compacted(s, r).latest = s.latest
      /\ Compacted(s, r).confirmed = s.confirmed
  BY <1>6 DEF Channels
<1>8. Compacted(s, r) \in Channels
  <2>1. s.total + 1 \in Nat
    BY <1>1
  <2> QED
    BY <1>5, <1>6, <2>1 DEF Channels
<1>9. Sound(Compacted(s, r))
  <2>1. Len(Compacted(s, r).recent) < ShortTermMaxTurns
    BY <1>4, <1>5, <1>7
  <2> QED
    BY <1>7, <2>1 DEF Sound
<1>10. ASSUME NEW history \in Seq(Requests), Holds(s, history)
       PROVE  Holds(Compacted(s, r), Append(history, r))
  <2>a. PICK old : old = s.total - Len(s.recent)
    OBVIOUS
  <2>h. /\ s.total = Len(history) /\ old \in 0..s.summarized
        /\ \A i \in 1..Len(s.recent) : s.recent[i] = history[old + i]
    BY <1>10, <2>a DEF Holds, Older
  <2>1. /\ s.total = Len(history) /\ s.total = old + Len(s.recent) /\ old \in Nat
        /\ \A i \in 1..Len(s.recent) : s.recent[i] = history[old + i]
    <3>1. old \in Nat
      BY <1>1, <2>h
    <3>2. s.total = old + Len(s.recent)
      BY <1>1, <2>a
    <3> QED
      BY <2>h, <3>1, <3>2
  <2>2. /\ Len(Append(history, r)) = Len(history) + 1
        /\ \A i \in 1..Len(history) : Append(history, r)[i] = history[i]
        /\ Append(history, r)[Len(history) + 1] = r
    OBVIOUS
  <2>3. ASSUME NEW i \in 1..Len(kept)
        PROVE  kept[i] = Append(history, r)[old + n + i]
    <3>1. PICK k \in Nat : k = n + i
      BY <1>2, <1>4
    <3>2. k \in 1..Len(turns) /\ kept[i] = turns[k]
      BY <1>2, <1>4, <1>5, <3>1
    <3>3. old + n + i = old + k
      BY <1>1, <1>4, <2>1, <3>1
    <3>4. k \in 1..Len(s.recent) \/ k = Len(turns)
      BY <1>1, <1>2, <3>2
    <3>5. CASE k \in 1..Len(s.recent)
      <4>1. turns[k] = history[old + k]
        BY <1>2, <2>1, <3>5
      <4>2. old + k \in 1..Len(history)
        BY <1>1, <2>1, <3>5
      <4> QED
        BY <2>2, <3>2, <3>3, <4>1, <4>2
    <3>6. CASE k = Len(turns)
      <4>1. old + k = Len(history) + 1
        <5>1. k = Len(s.recent) + 1
          BY <1>2, <3>6
        <5>2. Len(history) = old + Len(s.recent)
          BY <2>1
        <5> QED
          BY <1>1, <2>1, <5>1, <5>2
      <4> QED
        BY <1>2, <2>2, <3>2, <3>3, <3>6, <4>1
    <3> QED
      BY <3>4, <3>5, <3>6
  <2>4. /\ s.total + 1 = Len(Append(history, r))
        /\ Older(Compacted(s, r)) = old + n /\ old + n \in 0..s.summarized
    <3>a. PICK k \in Nat : k = Len(s.recent)
      BY <1>1
    <3>b. PICK m \in Nat : m = n
      BY <1>2, <1>4
    <3>1. Len(kept) = k + 1 - m /\ s.total = old + k /\ old \in Nat
      BY <1>2, <1>4, <1>5, <2>1, <3>a, <3>b
    <3>2. Older(Compacted(s, r)) = (old + k + 1) - (k + 1 - m)
      BY <1>7, <3>1 DEF Older
    <3>3. old + m <= s.summarized
      BY <1>o, <2>a, <3>b
    <3>4. old + m \in 0..s.summarized /\ (old + k + 1) - (k + 1 - m) = old + m
      BY <1>1, <3>1, <3>3
    <3> QED
      BY <2>1, <2>2, <3>2, <3>4, <3>b
  <2> QED
    BY <1>7, <2>3, <2>4 DEF Holds
<1>11. Len(kept) = Len(s.recent) + 1 - n
  BY <1>1, <1>2, <1>4, <1>5
<1> QED
  <2>1. NumberToCompact(Append(s.recent, r)) = n
    BY DEF turns, n
  <2> QED
    BY <1>7, <1>8, <1>9, <1>10, <1>11, <2>1

-----------------------------------------------------------------------------
(* Members of a sequence.                                                  *)

\* The indices of a sequence and of one that is longer by one.
LEMMA OneMore ==
  ASSUME NEW n \in Nat
  PROVE  \A i \in 1..(n + 1) : i \in 1..n \/ i = n + 1
  OBVIOUS

\* Append adds one member.
LEMMA InAppend ==
  ASSUME NEW S, NEW seq \in Seq(S), NEW x \in S
  PROVE  /\ In(x, Append(seq, x))
         /\ \A q : In(q, seq) => In(q, Append(seq, x))
<1>1. /\ DOMAIN Append(seq, x) = 1..(Len(seq) + 1) /\ Len(seq) \in Nat
      /\ DOMAIN seq = 1..Len(seq)
      /\ \A i \in 1..Len(seq) : Append(seq, x)[i] = seq[i]
      /\ Append(seq, x)[Len(seq) + 1] = x
  OBVIOUS
<1>2. /\ Len(seq) + 1 \in 1..(Len(seq) + 1)
      /\ \A i \in 1..Len(seq) : i \in 1..(Len(seq) + 1)
  BY <1>1
<1>3. In(x, Append(seq, x))
  BY <1>1, <1>2 DEF In
<1>4. ASSUME NEW q, In(q, seq) PROVE In(q, Append(seq, x))
  <2>1. PICK i \in 1..Len(seq) : seq[i] = q
    BY <1>1, <1>4 DEF In
  <2>2. Append(seq, x)[i] = q /\ i \in DOMAIN Append(seq, x)
    BY <1>1, <1>2, <2>1
  <2> QED
    BY <2>2 DEF In
<1> QED
  BY <1>3, <1>4

-----------------------------------------------------------------------------
(* What a step leaves alone.                                               *)

\* A request that was sent has a conversation, with a history.
LEMMA Sent ==
  ASSUME SessionInv, NEW r \in Requests, conv[r] # None
  PROVE  /\ conv[r] \in Conversations /\ Turns(r) \in Seq(Requests) /\ stage[r] # "new"
         /\ TurnOK(r) /\ unsaved[r] \in Seq(Copies)
  BY DEF SessionInv, TypeOK, TurnsOK, Turns

\* Who holds the lock is in a conversation, and alone in it.
LEMMA HolderIsAlone ==
  ASSUME SessionInv, NEW r \in Requests, stage[r] \in Holding
  PROVE  /\ conv[r] # None /\ holder[conv[r]] = r
         /\ \A q \in Requests : q # r /\ conv[q] = conv[r] => stage[q] \notin Holding
<1>1. \A q \in Requests : stage[q] \in Holding => conv[q] # None /\ holder[conv[q]] = q
  BY DEF SessionInv, TypeOK, Holding, Running
<1> QED
  BY <1>1

\* The turn of q stays well when nothing of it changes and its history does not
\* either, or grows while q does not hold the lock.
LEMMA OtherTurn ==
  ASSUME SessionInv, NEW q \in Requests, conv[q] # None,
         stage'[q] = stage[q], live'[q] = live[q], unsaved'[q] = unsaved[q],
         settled'[q] = settled[q], conv'[q] = conv[q], data_version' = data_version,
         \/ Turns(q)' = Turns(q)
         \/ stage[q] \notin Holding /\ \E x \in Requests : Turns(q)' = Append(Turns(q), x)
  PROVE  TurnOK(q)'
<1>1. CASE Turns(q)' = Turns(q)
  <2>1. TurnOK(q)
    BY Sent
  <2>2. \A i \in DOMAIN unsaved[q] : CopyOK(q, i) => CopyOK(q, i)'
    BY <1>1 DEF CopyOK
  <2> QED
    BY <1>1, <2>1, <2>2 DEF TurnOK
<1>2. CASE stage[q] \notin Holding /\ \E x \in Requests : Turns(q)' = Append(Turns(q), x)
  <2>1. TurnOK(q) /\ Turns(q) \in Seq(Requests)
    BY Sent
  <2>2. unsaved'[q] = <<>> /\ DOMAIN unsaved'[q] = {}
    BY <1>2, <2>1 DEF TurnOK, Holding
  <2>3. In(q, Turns(q)) => In(q, Turns(q)')
    BY <1>2, <2>1 DEF In
  <2> QED
    BY <1>2, <2>1, <2>2, <2>3 DEF TurnOK, Holding, Running, Before
<1> QED
  BY <1>1, <1>2

\* A conversation of which nothing changes stays well.
LEMMA ConversationStays ==
  ASSUME SessionInv, NEW c \in Conversations,
         \A q \in Requests : conv[q] = c => conv'[q] = c,
         \A q \in Requests : settled[q] \in Settlements => settled'[q] \in Settlements,
         arrivals'[c] = arrivals[c], waiting'[c] = waiting[c], holder'[c] = holder[c],
         stored'[c] = stored[c], remembered'[c] = remembered[c]
  PROVE  ConversationOK(c)'
<1>1. ConversationOK(c) /\ arrivals[c] \in Seq(Requests) /\ Begun(c)' = Begun(c)
  BY DEF SessionInv, TypeOK, Begun
<1>2. QueueOK(c)'
  <2>1. \A i \in DOMAIN arrivals[c] : arrivals[c][i] \in Requests
    BY <1>1
  <2> QED
    BY <1>1, <2>1 DEF ConversationOK, QueueOK
<1>3. OrderOK(c)'
  BY <1>1 DEF ConversationOK, OrderOK
<1>4. SettledOK(c)'
  <2>1. \A i \in DOMAIN remembered[c] : remembered[c][i] \in Requests
    BY DEF SessionInv, TypeOK
  <2> QED
    BY <1>1, <2>1 DEF ConversationOK, SettledOK
<1> QED
  BY <1>1, <1>2, <1>3, <1>4 DEF ConversationOK

\* A turn that is remembered came after those that are remembered already.
LEMMA HistoryGrows ==
  ASSUME SessionInv, NEW r \in Requests, stage[r] \in Holding, ~In(r, Turns(r)),
         NEW c \in Conversations, c = conv[r],
         remembered'[c] = Append(remembered[c], r), UNCHANGED <<arrivals, waiting>>
  PROVE  OrderOK(c)'
<1> DEFINE turns == remembered[c]
           arrived == arrivals[c]
           last == Begun(c)
<1>1. /\ turns \in Seq(Requests) /\ arrived \in Seq(Requests) /\ Begun(c)' = last
      /\ waiting[c] \in Seq(Requests)
  BY DEF SessionInv, TypeOK, Begun
<1>2. holder[c] = r /\ holder[c] # None
  BY HolderIsAlone, SessionAssumption
<1>3. last \in 1..Len(arrived) /\ arrived[last] = r
  <2>1. last \in Nat /\ last > 0 /\ holder[c] = arrived[last]
    BY <1>2 DEF SessionInv, ConversationOK, QueueOK
  <2>2. last = Len(arrived) - Len(waiting[c])
    BY DEF Begun
  <2>3. Len(arrived) \in Nat /\ Len(waiting[c]) \in Nat
    BY <1>1
  <2> HIDE DEF last, arrived
  <2>4. last \in 1..Len(arrived)
    BY <2>1, <2>2, <2>3
  <2> QED
    BY <1>2, <2>1, <2>4
<1>4. \A i \in DOMAIN turns : \E m \in 1..last : arrived[m] = turns[i]
  BY DEF SessionInv, ConversationOK, OrderOK
<1>5. \A i, j \in DOMAIN turns : i < j =>
        \E m, n \in DOMAIN arrived : m < n /\ arrived[m] = turns[i] /\ arrived[n] = turns[j]
  BY DEF SessionInv, ConversationOK, OrderOK
<1>6. \A i \in DOMAIN turns : turns[i] # r
  BY DEF In, Turns
<1>7. /\ DOMAIN turns = 1..Len(turns) /\ DOMAIN arrived = 1..Len(arrived)
      /\ Len(turns) \in Nat /\ Len(arrived) \in Nat
      /\ DOMAIN Append(turns, r) = 1..(Len(turns) + 1)
      /\ \A i \in DOMAIN turns : Append(turns, r)[i] = turns[i]
      /\ Append(turns, r)[Len(turns) + 1] = r
  BY <1>1
<1>8. last \in Nat
  BY <1>3, <1>7
<1> HIDE DEF turns, arrived, last
<1>9. \A i \in DOMAIN Append(turns, r) : \E m \in 1..last : arrived[m] = Append(turns, r)[i]
  BY <1>3, <1>4, <1>7
<1>10. ASSUME NEW i \in DOMAIN Append(turns, r), NEW j \in DOMAIN Append(turns, r), i < j
       PROVE  \E m, n \in DOMAIN arrived :
                 m < n /\ arrived[m] = Append(turns, r)[i] /\ arrived[n] = Append(turns, r)[j]
  <2>1. i \in DOMAIN turns
    BY <1>7, <1>10
  <2>2. CASE j \in DOMAIN turns
    BY <1>5, <1>7, <1>10, <2>1, <2>2
  <2>3. CASE j = Len(turns) + 1
    <3>1. PICK m \in 1..last : arrived[m] = turns[i]
      BY <1>4, <2>1
    <3>2. m # last
      BY <1>3, <1>6, <2>1, <3>1
    <3>3. m \in DOMAIN arrived /\ last \in DOMAIN arrived /\ m < last
      BY <1>3, <1>7, <1>8, <3>1, <3>2
    <3> QED
      BY <1>3, <1>7, <2>1, <2>3, <3>1, <3>3
  <2> QED
    BY <1>7, <2>2, <2>3
<1>11. /\ remembered'[c] = Append(turns, r) /\ arrivals'[c] = arrived
       /\ Begun(c)' = last
  BY <1>1 DEF turns, arrived, last
<1> QED
  BY <1>9, <1>10, <1>11 DEF OrderOK

-----------------------------------------------------------------------------
(* Each kind of step keeps the invariant.                                  *)

\* Copies of r that are the checkpoint or came before compact_session.
Standing(copies, r) ==
  /\ copies \in Seq(Copies)
  /\ \A i \in DOMAIN copies :
       /\ copies[i].node # "compact_session"
       /\ Sound(copies[i].channels) /\ Holds(copies[i].channels, Turns(r))

\* The copies of a turn are standing while compact_session is not over.
LEMMA CopiesAreStanding ==
  ASSUME SessionInv, NEW r \in Requests, stage[r] \in Before \cup {"begin_turn"}
  PROVE  Standing(unsaved[r], r)
<1>1. stage[r] \in Holding /\ stage[r] # "return"
  BY DEF Before, Holding, Running
<1>2. TurnOK(r) /\ unsaved[r] \in Seq(Copies)
  BY <1>1, HolderIsAlone, Sent
<1> QED
  BY <1>1, <1>2 DEF TurnOK, CopyOK, Standing

\* A superstep leaves channels that hold the same history, or that of
\* compact_session, and the copy of them.
LEMMA StepKeeps ==
  ASSUME SessionInv, NEW r \in Requests, NEW channels \in Channels, NEW next, NEW copies,
         StepAfter(copies, r, channels, next), Standing(copies, r),
         Sound(channels), channels.version = data_version,
         settled' \in [Requests -> Settlements \cup {None}],
         prior' \in [Requests -> (SUBSET Entities) \cup {None}],
         \A q \in Requests : q # r => settled'[q] = settled[q],
         IF next = "agents" THEN settled' = settled ELSE settled'[r] \in Settlements,
         \/ /\ stage[r] \in {"begin_turn", "agents", "merge_session_graph"}
            /\ next \in {"agents", "merge_session_graph", "compact_turns"}
            /\ Holds(channels, Turns(r))
         \/ /\ stage[r] = "compact_session" /\ next = "return"
            /\ Holds(channels, Append(Turns(r), r))
  PROVE  SessionInv'
<1> DEFINE copy == [channels |-> channels, node |-> stage[r]]
<1>1. /\ stage[r] \in Before \cup {"begin_turn"} /\ stage[r] \in Running
      /\ stage[r] \in Holding /\ next \in Before \cup {"return"} /\ next \in Running
      /\ stage[r] # "return" /\ next \notin {"begin_turn", "compact_session"}
  BY DEF Before, Running, Holding
<1>2. /\ conv[r] # None /\ TurnOK(r) /\ copies \in Seq(Copies)
      /\ Turns(r) \in Seq(Requests)
  BY <1>1, HolderIsAlone, Sent DEF Standing
<1>3. /\ stage' = [stage EXCEPT ![r] = next] /\ live' = [live EXCEPT ![r] = channels]
      /\ unsaved' = [unsaved EXCEPT ![r] = Append(copies, copy)]
      /\ UNCHANGED <<stored, head, waiting, holder, conv, data_version, arrivals, remembered>>
  BY DEF StepAfter, GoTo, memoryVars, lockVars, historyVars
<1>4. /\ stage \in [Requests -> Stages] /\ live \in [Requests -> Channels \cup {None}]
      /\ unsaved \in [Requests -> Seq(Copies)]
  BY DEF SessionInv, TypeOK
<1>5. copy \in Copies /\ next \in Stages
  BY <1>1 DEF Copies, Stages
<1>6. /\ stage'[r] = next /\ live'[r] = channels /\ unsaved'[r] = Append(copies, copy)
      /\ \A q \in Requests : q # r =>
           stage'[q] = stage[q] /\ live'[q] = live[q] /\ unsaved'[q] = unsaved[q]
  BY <1>3, <1>4
<1>7. TypeOK'
  <2>1. /\ stage' \in [Requests -> Stages] /\ live' \in [Requests -> Channels \cup {None}]
        /\ unsaved' \in [Requests -> Seq(Copies)]
    <3>1. Append(copies, copy) \in Seq(Copies)
      BY <1>2, <1>5
    <3> HIDE DEF copy
    <3> QED
      BY <1>3, <1>4, <1>5, <3>1
  <2>2. ASSUME NEW q \in Requests
        PROVE  /\ conv'[q] = None <=> stage'[q] = "new"
               /\ stage'[q] \in Running \cup {"save"} => holder'[conv'[q]] = q
               /\ live'[q] # None => stage'[q] \in Running \cup {"save"}
    <3>1. CASE q = r
      BY <1>1, <1>2, <1>3, <1>6, <3>1, HolderIsAlone DEF Running
    <3>2. CASE q # r
      BY <1>3, <1>6, <3>2 DEF SessionInv, TypeOK
    <3> QED
      BY <3>1, <3>2
  <2> QED
    BY <1>3, <2>1, <2>2 DEF SessionInv, TypeOK
<1>8. Turns(r)' = Turns(r) /\ \A q \in Requests : Turns(q)' = Turns(q)
  BY <1>3 DEF Turns
<1>9. TurnOK(r)'
  <2>1. ASSUME NEW i \in DOMAIN unsaved'[r] PROVE CopyOK(r, i)'
    <3>1. CASE i \in DOMAIN copies
      <4>1. unsaved'[r][i] = copies[i]
        BY <1>2, <1>6, <3>1
      <4> QED
        BY <1>8, <3>1, <4>1 DEF CopyOK, Standing
    <3>2. CASE i = Len(copies) + 1
      <4>1. unsaved'[r][i] = copy /\ i = Len(unsaved'[r])
        BY <1>2, <1>5, <1>6, <3>2
      <4>2. ~In(r, Turns(r))
        BY <1>1, <1>2 DEF TurnOK
      <4> QED
        BY <1>6, <1>8, <4>1, <4>2 DEF CopyOK
    <3> QED
      BY <1>2, <1>5, <1>6, <3>1, <3>2
  <2>2. next \in Before => Holds(channels, Turns(r)) /\ ~In(r, Turns(r))
    BY <1>1, <1>2 DEF TurnOK, Before
  <2>3. next = "return" =>
           unsaved'[r] # <<>> /\ unsaved'[r][Len(unsaved'[r])].node = "compact_session"
    <3>1. next = "return" => copy.node = "compact_session"
      OBVIOUS
    <3> HIDE DEF copy
    <3>2. /\ Len(Append(copies, copy)) = Len(copies) + 1 /\ Append(copies, copy) # <<>>
          /\ Append(copies, copy)[Len(copies) + 1] = copy
      BY <1>2
    <3> QED
      BY <1>6, <3>1, <3>2
  <2>4. next \notin {"begin_turn", "compact_session", "save", "replied"}
    BY <1>1 DEF Before
  <2>5. next # "agents" => settled'[r] \in Settlements
    OBVIOUS
  <2> HIDE DEF copy
  <2> QED
    BY <1>1, <1>3, <1>6, <1>8, <2>1, <2>2, <2>3, <2>4, <2>5 DEF TurnOK
<1>10. TurnsOK'
  <2> SUFFICES ASSUME NEW q \in Requests, conv'[q] # None PROVE TurnOK(q)'
    BY DEF TurnsOK
  <2>1. CASE q = r
    BY <1>9, <2>1
  <2>2. CASE q # r
    BY <1>3, <1>6, <1>8, <2>2, OtherTurn
  <2> QED
    BY <2>1, <2>2
<1>11. UnsentOK' /\ LockOK'
  BY <1>1, <1>2, <1>3, <1>6 DEF SessionInv, UnsentOK, LockOK, Before
<1>12. \A c \in Conversations : ConversationOK(c)'
  <2>1. \A q \in Requests : settled[q] \in Settlements => settled'[q] \in Settlements
    OBVIOUS
  <2> QED
    BY <1>3, <2>1, ConversationStays DEF SessionInv
<1> QED
  BY <1>7, <1>10, <1>11, <1>12 DEF SessionInv

\* The nodes make such supersteps.
LEMMA SuperstepKeeps ==
  ASSUME SessionInv, NEW r \in Requests,
         BeginTurn(r) \/ Succeed(r) \/ Explain(r) \/ MergeSessionGraph(r) \/ CompactSession(r)
  PROVE  SessionInv'
<1>1. /\ stage[r] \in Before \cup {"begin_turn"} /\ stage[r] \in Holding
  BY DEF BeginTurn, Succeed, Explain, MergeSessionGraph, CompactSession, Before, Holding,
     Running
<1>2. conv[r] \in Conversations /\ TurnOK(r) /\ Turns(r) \in Seq(Requests)
  BY <1>1, HolderIsAlone, Sent
<1>3. /\ settled \in [Requests -> Settlements \cup {None}]
      /\ prior \in [Requests -> (SUBSET Entities) \cup {None}]
      /\ data_version \in Versions
  BY DEF SessionInv, TypeOK
<1>4. stage[r] \in Before =>
        /\ live[r] \in Channels /\ Sound(live[r]) /\ live[r].version = data_version
        /\ Holds(live[r], Turns(r))
  BY <1>2 DEF TurnOK
<1>s. /\ Standing(unsaved[r], r)
      /\ \A channels, next : Step(r, channels, next) => StepAfter(unsaved[r], r, channels, next)
  BY <1>1, CopiesAreStanding DEF Step
<1>5. CASE BeginTurn(r)
  <2>1. stored[conv[r]] \in Channels /\ Sound(stored[conv[r]])
        /\ Holds(stored[conv[r]], Turns(r))
    BY <1>2 DEF SessionInv, TypeOK, ConversationOK, Turns
  <2>2. PICK channels \in Channels :
           /\ channels = Restored(stored[conv[r]]) /\ Sound(channels)
           /\ channels.version = data_version /\ Holds(channels, Turns(r))
    BY <1>3, <2>1, RestoredChannels
  <2>c. PICK copies : copies = <<[channels |-> stored[conv[r]], node |-> "input"]>>
    OBVIOUS
  <2>3. /\ stage[r] = "begin_turn" /\ StepAfter(copies, r, channels, "agents")
        /\ settled' = settled /\ prior' = [prior EXCEPT ![r] = channels.focus]
    BY <1>5, <2>2, <2>c DEF BeginTurn
  <2>s. Standing(copies, r)
    <3>1. PICK copy : copy = [channels |-> stored[conv[r]], node |-> "input"]
      OBVIOUS
    <3>2. copy \in Copies
      BY <2>1, <3>1 DEF Copies
    <3>3. copies = <<copy>>
      BY <2>c, <3>1
    <3>4. copies \in Seq(Copies) /\ \A i \in DOMAIN copies : copies[i] = copy
      BY <3>2, <3>3
    <3>5. /\ copy.node # "compact_session"
          /\ Sound(copy.channels) /\ Holds(copy.channels, Turns(r))
      BY <2>1, <3>1
    <3> QED
      BY <3>4, <3>5 DEF Standing
  <2>4. prior' \in [Requests -> (SUBSET Entities) \cup {None}]
    BY <1>3, <2>2, <2>3 DEF Channels
  <2> QED
    BY <1>3, <2>2, <2>3, <2>4, <2>s, StepKeeps
<1>6. CASE Succeed(r) \/ Explain(r)
  <2>1. PICK focus \in SUBSET Entities, settlement \in Settlements :
           /\ settled' = [settled EXCEPT ![r] = settlement]
           /\ Step(r, [live[r] EXCEPT !.focus = focus], "merge_session_graph")
           /\ stage[r] = "agents" /\ prior' = prior
    <3>1. CASE Succeed(r)
      BY <1>3, <3>1 DEF Succeed, Settlements
    <3>2. CASE Explain(r)
      <4>1. live[r].focus \in SUBSET Entities
        BY <1>4, <3>2 DEF Explain, Before, Channels
      <4> QED
        BY <1>3, <3>2, <4>1 DEF Explain, KeptFocus, Settlements
    <3> QED
      BY <1>6, <3>1, <3>2
  <2>2. PICK channels \in Channels :
           /\ channels = [live[r] EXCEPT !.focus = focus] /\ Sound(channels)
           /\ channels.version = data_version /\ Holds(channels, Turns(r))
    BY <1>4, <2>1, FocusedChannels DEF Before
  <2>3. settled'[r] \in Settlements /\ \A q \in Requests : q # r => settled'[q] = settled[q]
    BY <1>3, <2>1
  <2> QED
    BY <1>3, <1>s, <2>1, <2>2, <2>3, StepKeeps
<1>7. CASE MergeSessionGraph(r)
  <2> DEFINE delta == [version |-> data_version, nodes |-> settled[r].nodes]
             merged == [version |-> data_version, nodes |-> MergedNodes(live[r].graph, delta)]
  <2>1. /\ stage[r] = "merge_session_graph" /\ settled' = settled /\ prior' = prior
        /\ Step(r, WithGraph(live[r], merged), "compact_turns")
    BY <1>7 DEF MergeSessionGraph, WithGraph
  <2>2. settled[r] \in Settlements
    BY <1>2, <2>1 DEF TurnOK
  <2>3. merged \in Graphs /\ merged.version = data_version
    <3>1. settled[r].nodes \in SUBSET Entities
      BY <2>2 DEF Settlements
    <3>2. live[r].graph \in Graphs \cup {None}
      BY <1>4, <2>1 DEF Before, Channels
    <3>3. MergedNodes(live[r].graph, delta) \in SUBSET Entities
      BY <3>1, <3>2 DEF MergedNodes, Graphs
    <3> QED
      BY <1>3, <3>3 DEF Graphs
  <2> HIDE DEF merged
  <2>4. PICK channels \in Channels :
           /\ channels = WithGraph(live[r], merged)
           /\ Sound(channels)
           /\ channels.version = data_version /\ Holds(channels, Turns(r))
    <3>1. /\ live[r] \in Channels /\ Sound(live[r]) /\ live[r].version = data_version
          /\ Holds(live[r], Turns(r))
      BY <1>4, <2>1 DEF Before
    <3>2. PICK channels : channels = WithGraph(live[r], merged)
      OBVIOUS
    <3>3. /\ channels \in Channels /\ Sound(channels) /\ channels.version = live[r].version
          /\ Holds(channels, Turns(r))
      BY <2>3, <3>1, <3>2, MergedChannels
    <3> QED
      BY <3>1, <3>2, <3>3
  <2> QED
    BY <1>3, <1>s, <2>1, <2>2, <2>4, StepKeeps
<1>8. CASE CompactSession(r)
  <2>1. /\ stage[r] = "compact_session" /\ settled' = settled /\ prior' = prior
        /\ Step(r, Compacted(live[r], r), "return")
    BY <1>8 DEF CompactSession
  <2>c. Older(live[r]) + NumberToCompact(Append(live[r].recent, r)) <= live[r].summarized
    BY <1>2, <2>1 DEF TurnOK
  <2>2. PICK channels \in Channels :
           /\ channels = Compacted(live[r], r) /\ Sound(channels)
           /\ channels.version = data_version /\ Holds(channels, Append(Turns(r), r))
    BY <1>2, <1>4, <2>1, <2>c, CompactedChannels DEF Before
  <2>3. settled[r] \in Settlements
    BY <1>2, <2>1 DEF TurnOK
  <2> QED
    BY <1>3, <1>s, <2>1, <2>2, <2>3, StepKeeps
<1> QED
  BY <1>5, <1>6, <1>7, <1>8

\* What compact_turns compacts is remembered, but for the turn itself.
LEMMA TurnsToCompact ==
  ASSUME SessionInv, NEW r \in Requests, stage[r] = "compact_turns",
         NEW turns, turns = Append(live[r].recent, r)
  PROVE  /\ NumberToCompact(turns) \in Nat
         /\ \A i \in 1..NumberToCompact(turns) :
              turns[i] = r \/ turns[i] \in Elements(Turns(r))
<1>1. /\ stage[r] \in Before /\ stage[r] \in Holding
  BY DEF Before, Holding, Running
<1>2. TurnOK(r) /\ Turns(r) \in Seq(Requests)
  BY <1>1, HolderIsAlone, Sent
<1>3. live[r] \in Channels /\ Sound(live[r]) /\ Holds(live[r], Turns(r))
  BY <1>1, <1>2 DEF TurnOK
<1>4. PICK recent \in Seq(Requests) : recent = live[r].recent
  BY <1>3 DEF Channels
<1>5. PICK k \in Nat : k = Len(recent)
  OBVIOUS
<1>6. /\ turns \in Seq(Requests) /\ Len(turns) = k + 1
      /\ \A i \in 1..k : turns[i] = recent[i]
      /\ turns[k + 1] = r
  BY <1>4, <1>5
<1>7. k < ShortTermMaxTurns
  BY <1>3, <1>4, <1>5 DEF Sound
<1>8. NumberToCompact(turns) \in 0..(k + 1)
  <2>1. Len(turns) <= ShortTermMaxTurns
    BY <1>5, <1>6, <1>7, SessionAssumption
  <2> QED
    BY <1>6, <2>1, NumberToCompactBounds
<1>9. PICK old : old = Older(live[r])
  OBVIOUS
<1>10. /\ Len(Turns(r)) = live[r].total /\ old = live[r].total - k /\ old \in Nat
       /\ \A i \in 1..k : recent[i] = Turns(r)[old + i]
  <2>1. /\ Len(Turns(r)) = live[r].total /\ old = live[r].total - k
        /\ old \in 0..live[r].summarized
        /\ \A i \in 1..k : recent[i] = Turns(r)[old + i]
    BY <1>3, <1>4, <1>5, <1>9 DEF Holds, Older
  <2>2. live[r].summarized \in Nat
    BY <1>3 DEF Channels
  <2> QED
    BY <2>1, <2>2
<1>11. ASSUME NEW i \in 1..k PROVE recent[i] \in Elements(Turns(r))
  <2>1. old + i \in 1..Len(Turns(r)) /\ DOMAIN Turns(r) = 1..Len(Turns(r))
    BY <1>2, <1>10
  <2> QED
    BY <1>10, <2>1 DEF Elements
<1>12. ASSUME NEW i \in 1..NumberToCompact(turns)
       PROVE  turns[i] = r \/ turns[i] \in Elements(Turns(r))
  <2>1. i \in 1..k \/ i = k + 1
    BY <1>8
  <2> QED
    BY <1>6, <1>11, <2>1
<1>13. NumberToCompact(turns) \in Nat
  BY <1>8
<1> QED
  BY <1>12, <1>13

\* The data of the turns that are compacted: the current data, and those that
\* remembered turns ran on.
LEMMA FocusVersionsRun ==
  ASSUME SessionInv, NEW r \in Requests, stage[r] = "compact_turns",
         NEW turns, turns = Append(live[r].recent, r), NEW focus
  PROVE  LET versions == FocusVersions(focus, turns, NumberToCompact(turns))
         IN  /\ versions \in SUBSET Versions
             /\ versions \subseteq {data_version, settled[r].version}
                                     \cup {settled[q].version : q \in Elements(Turns(r))}
<1> DEFINE n == NumberToCompact(turns)
<1>1. stage[r] \in Holding /\ data_version \in Versions
  BY DEF Holding, Running, SessionInv, TypeOK
<1>2. settled[r] \in Settlements /\ conv[r] \in Conversations
  BY <1>1, HolderIsAlone, Sent DEF TurnOK
<1>3. \A q \in Elements(Turns(r)) : settled[q] \in Settlements
  BY <1>2 DEF SessionInv, ConversationOK, SettledOK, Elements, Turns
<1>4. \A i \in 1..n : turns[i] = r \/ turns[i] \in Elements(Turns(r))
  BY TurnsToCompact
<1>5. \A v \in FocusVersions(focus, turns, n) :
        v = data_version \/ \E i \in 1..n : v = settled[turns[i]].version
  BY DEF FocusVersions
<1> HIDE DEF n
<1>6. ASSUME NEW v \in FocusVersions(focus, turns, n)
      PROVE  /\ v \in Versions
             /\ \/ v \in {data_version, settled[r].version}
                \/ \E q \in Elements(Turns(r)) : v = settled[q].version
  <2>1. CASE v = data_version
    BY <1>1, <2>1
  <2>2. ASSUME NEW i \in 1..n, v = settled[turns[i]].version
        PROVE  /\ v \in Versions
               /\ \/ v \in {data_version, settled[r].version}
                  \/ \E q \in Elements(Turns(r)) : v = settled[q].version
    <3>1. settled[turns[i]] \in Settlements
      BY <1>2, <1>3, <1>4
    <3> QED
      BY <1>4, <2>2, <3>1 DEF Settlements
  <2> QED
    BY <1>5, <2>1, <2>2
<1> QED
  BY <1>6 DEF n

\* What compact_turns leaves: the copies there were, some with a new summary.
LEMMA CompactTurnsLeaves ==
  ASSUME SessionInv, NEW r \in Requests, CompactTurns(r),
         NEW n, n = NumberToCompact(Append(live[r].recent, r)),
         NEW versions,
         versions = FocusVersions(live[r].focus, Append(live[r].recent, r), n)
  PROVE  /\ stage[r] = "compact_turns" /\ stage[r] \in Before /\ stage[r] \in Holding
         /\ n \in Nat /\ versions \in SUBSET Versions
         /\ stage' = [stage EXCEPT ![r] = "compact_session"]
         /\ stage'[r] = "compact_session" /\ live'[r] = Summarized(live[r], n, versions)
         /\ unsaved' \in [Requests -> Seq(Copies)] /\ DOMAIN unsaved'[r] = DOMAIN unsaved[r]
         /\ Len(unsaved'[r]) = Len(unsaved[r])
         /\ \A q \in Requests : q # r =>
              stage'[q] = stage[q] /\ live'[q] = live[q] /\ unsaved'[q] = unsaved[q]
         /\ \A i \in DOMAIN unsaved[r] :
              /\ unsaved'[r][i].node = unsaved[r][i].node
              /\ unsaved'[r][i].channels =
                   IF SharesSummary(unsaved[r][i].channels)
                   THEN Summarized(unsaved[r][i].channels, n, versions)
                   ELSE unsaved[r][i].channels
         /\ UNCHANGED <<stored, head, waiting, holder, conv, settled, prior, data_version,
                        arrivals, remembered>>
<1> DEFINE copies == [i \in DOMAIN unsaved[r] |->
             IF SharesSummary(unsaved[r][i].channels)
             THEN [unsaved[r][i] EXCEPT
                     !.channels = Summarized(unsaved[r][i].channels, n, versions)]
             ELSE unsaved[r][i]]
<1>1. stage[r] = "compact_turns" /\ stage[r] \in Before /\ stage[r] \in Holding
  BY DEF CompactTurns, Before, Holding, Running
<1>2. /\ unsaved[r] \in Seq(Copies) /\ Standing(unsaved[r], r) /\ data_version \in Versions
  BY <1>1, HolderIsAlone, Sent, CopiesAreStanding DEF SessionInv, TypeOK
<1>4. n \in Nat /\ versions \in SUBSET Versions
  BY <1>1, TurnsToCompact, FocusVersionsRun
<1>5. /\ live' = [live EXCEPT ![r] = Summarized(live[r], n, versions)]
      /\ unsaved' = [unsaved EXCEPT ![r] = copies]
      /\ stage' = [stage EXCEPT ![r] = "compact_session"]
      /\ UNCHANGED <<stored, head, waiting, holder, conv, settled, prior, data_version,
                     arrivals, remembered>>
  BY Zenon DEF CompactTurns, GoTo, memoryVars, lockVars, historyVars
<1>8. /\ DOMAIN copies = DOMAIN unsaved[r]
      /\ \A i \in DOMAIN unsaved[r] : copies[i] =
           IF SharesSummary(unsaved[r][i].channels)
           THEN [unsaved[r][i] EXCEPT
                   !.channels = Summarized(unsaved[r][i].channels, n, versions)]
           ELSE unsaved[r][i]
      /\ copies = [i \in DOMAIN unsaved[r] |-> copies[i]]
  OBVIOUS
<1> HIDE DEF copies
<1>9. ASSUME NEW i \in DOMAIN unsaved[r]
      PROVE  /\ copies[i] \in Copies /\ copies[i].node = unsaved[r][i].node
             /\ copies[i].channels =
                  IF SharesSummary(unsaved[r][i].channels)
                  THEN Summarized(unsaved[r][i].channels, n, versions)
                  ELSE unsaved[r][i].channels
  <2>1. PICK copy \in Copies : copy = unsaved[r][i]
    BY <1>2
  <2>2. copy.channels \in Channels /\ Sound(copy.channels)
    BY <1>2, <2>1 DEF Standing, Copies
  <2>3. CASE SharesSummary(copy.channels)
    <3>1. copy.channels.version = data_version
      BY <2>3 DEF SharesSummary, Rollover
    <3>2. PICK t : t = Summarized(copy.channels, n, versions)
      OBVIOUS
    <3>3. t \in Channels
      BY <1>2, <1>4, <2>2, <3>1, <3>2, SummarizedChannels
    <3>4. copies[i] = [copy EXCEPT !.channels = t]
      BY <1>8, <2>1, <2>3, <3>2
    <3>5. copies[i] \in Copies /\ copies[i].node = copy.node /\ copies[i].channels = t
      BY <3>3, <3>4 DEF Copies
    <3> QED
      BY <2>1, <2>3, <3>2, <3>5
  <2>4. CASE ~SharesSummary(copy.channels)
    BY <1>8, <2>1, <2>2, <2>4
  <2> QED
    BY <2>1, <2>3, <2>4
<1>10. /\ copies \in Seq(Copies) /\ Len(copies) = Len(unsaved[r])
  <2>1. DOMAIN unsaved[r] = 1..Len(unsaved[r]) /\ Len(unsaved[r]) \in Nat
    BY <1>2
  <2>2. DOMAIN copies = 1..Len(unsaved[r]) /\ \A i \in 1..Len(unsaved[r]) : copies[i] \in Copies
    BY <1>8, <1>9, <2>1
  <2>3. copies = [i \in 1..Len(unsaved[r]) |-> copies[i]]
    BY <1>8, <2>1
  <2>4. copies \in [1..Len(unsaved[r]) -> Copies]
    BY <2>2, <2>3
  <2>5. copies \in Seq(Copies)
    BY <2>1, <2>4, SeqDef
  <2>6. PICK m \in Nat : m = Len(unsaved[r])
    BY <2>1
  <2>7. Len(copies) \in Nat /\ 1..Len(copies) = 1..m
    BY <2>2, <2>5, <2>6
  <2> QED
    BY <2>5, <2>6, <2>7, SMT
<1>11. /\ stage'[r] = "compact_session" /\ live'[r] = Summarized(live[r], n, versions)
       /\ unsaved'[r] = copies /\ unsaved' \in [Requests -> Seq(Copies)]
       /\ \A q \in Requests : q # r =>
            stage'[q] = stage[q] /\ live'[q] = live[q] /\ unsaved'[q] = unsaved[q]
  BY <1>5, <1>10 DEF SessionInv, TypeOK
<1> QED
  BY <1>1, <1>4, <1>5, <1>8, <1>9, <1>10, <1>11

\* The copies whose summary compact_turns changes are of the current data; it
\* leaves the turns they hold.
LEMMA CompactTurnsKeeps ==
  ASSUME SessionInv, NEW r \in Requests, CompactTurns(r)
  PROVE  SessionInv'
<1>n. PICK n : n = NumberToCompact(Append(live[r].recent, r))
  OBVIOUS
<1>v. PICK versions :
         versions = FocusVersions(live[r].focus, Append(live[r].recent, r), n)
  OBVIOUS
<1>c. PICK channels : channels = Summarized(live[r], n, versions)
  OBVIOUS
<1>1. /\ stage[r] = "compact_turns" /\ stage[r] \in Before /\ stage[r] \in Holding
      /\ n \in Nat /\ versions \in SUBSET Versions
      /\ stage' = [stage EXCEPT ![r] = "compact_session"]
      /\ stage'[r] = "compact_session" /\ live'[r] = channels
      /\ unsaved' \in [Requests -> Seq(Copies)] /\ DOMAIN unsaved'[r] = DOMAIN unsaved[r]
      /\ \A q \in Requests : q # r =>
           stage'[q] = stage[q] /\ live'[q] = live[q] /\ unsaved'[q] = unsaved[q]
      /\ \A i \in DOMAIN unsaved[r] :
           /\ unsaved'[r][i].node = unsaved[r][i].node
           /\ unsaved'[r][i].channels =
                IF SharesSummary(unsaved[r][i].channels)
                THEN Summarized(unsaved[r][i].channels, n, versions)
                ELSE unsaved[r][i].channels
      /\ UNCHANGED <<stored, head, waiting, holder, conv, settled, prior, data_version,
                     arrivals, remembered>>
  BY <1>n, <1>v, <1>c, CompactTurnsLeaves
<1>2. /\ conv[r] # None /\ TurnOK(r) /\ unsaved[r] \in Seq(Copies)
      /\ Standing(unsaved[r], r) /\ data_version \in Versions /\ stage[r] \in Running
  BY <1>1, HolderIsAlone, Sent, CopiesAreStanding DEF SessionInv, TypeOK, Running
<1>3. /\ live[r] \in Channels /\ Sound(live[r]) /\ live[r].version = data_version
      /\ Holds(live[r], Turns(r)) /\ ~In(r, Turns(r)) /\ settled[r] \in Settlements
  BY <1>1, <1>2 DEF TurnOK
<1>7. /\ channels \in Channels /\ Sound(channels) /\ channels.version = data_version
      /\ channels.recent = live[r].recent /\ channels.total = live[r].total
      /\ channels.summarized = live[r].summarized + n /\ Holds(channels, Turns(r))
  BY <1>1, <1>2, <1>3, <1>c, SummarizedChannels
<1>9. ASSUME NEW i \in DOMAIN unsaved[r]
      PROVE  /\ unsaved'[r][i].node # "compact_session"
             /\ Sound(unsaved'[r][i].channels) /\ Holds(unsaved'[r][i].channels, Turns(r))
  <2>1. PICK s \in Channels : s = unsaved[r][i].channels
    <3>1. unsaved[r][i] \in Copies
      BY <1>2
    <3>2. unsaved[r][i].channels \in Channels
      BY <3>1 DEF Copies
    <3> QED
      BY <3>2
  <2>2. unsaved[r][i].node # "compact_session" /\ Sound(s) /\ Holds(s, Turns(r))
    BY <1>2, <2>1 DEF Standing
  <2>3. CASE SharesSummary(s)
    <3>1. s.version = data_version
      BY <2>3 DEF SharesSummary, Rollover
    <3>2. PICK t : t = Summarized(s, n, versions)
      OBVIOUS
    <3>3. Sound(t) /\ Holds(t, Turns(r))
      BY <1>1, <1>2, <2>2, <3>1, <3>2, SummarizedChannels
    <3> QED
      BY <1>1, <2>1, <2>2, <2>3, <3>2, <3>3
  <2>4. CASE ~SharesSummary(s)
    BY <1>1, <2>1, <2>2, <2>4
  <2> QED
    BY <2>3, <2>4
<1>12. TypeOK'
  <2>1. /\ stage' \in [Requests -> Stages] /\ live' \in [Requests -> Channels \cup {None}]
    <3>1. /\ stage \in [Requests -> Stages] /\ live \in [Requests -> Channels \cup {None}]
          /\ "compact_session" \in Stages
      BY DEF SessionInv, TypeOK, Stages, Running
    <3>2. live' = [live EXCEPT ![r] = live'[r]]
      BY DEF CompactTurns
    <3> QED
      BY <1>1, <1>7, <3>1, <3>2
  <2>2. ASSUME NEW q \in Requests
        PROVE  /\ conv'[q] = None <=> stage'[q] = "new"
               /\ stage'[q] \in Running \cup {"save"} => holder'[conv'[q]] = q
               /\ live'[q] # None => stage'[q] \in Running \cup {"save"}
    <3>1. CASE q = r
      BY <1>1, <1>2, <3>1, HolderIsAlone DEF Running
    <3>2. CASE q # r
      BY <1>1, <3>2 DEF SessionInv, TypeOK
    <3> QED
      BY <3>1, <3>2
  <2> QED
    BY <1>1, <2>1, <2>2 DEF SessionInv, TypeOK
<1>13. \A q \in Requests : Turns(q)' = Turns(q)
  BY <1>1 DEF Turns
<1>14. TurnOK(r)'
  <2>1. \A i \in DOMAIN unsaved'[r] : CopyOK(r, i)'
    BY <1>1, <1>9, <1>13 DEF CopyOK
  <2>2. Older(channels) + NumberToCompact(Append(channels.recent, r)) <= channels.summarized
    <3>1. NumberToCompact(Append(channels.recent, r)) = n
      BY <1>7, <1>n
    <3>2. Older(channels) = Older(live[r]) /\ Older(live[r]) \in 0..live[r].summarized
      BY <1>3, <1>7 DEF Older, Holds
    <3>3. live[r].summarized \in Nat
      BY <1>3 DEF Channels
    <3> QED
      BY <1>1, <1>7, <3>1, <3>2, <3>3
  <2>3. "compact_session" \in Running /\ "compact_session" \in Before
    BY DEF Running, Before
  <2> QED
    BY <1>1, <1>3, <1>7, <1>13, <2>1, <2>2, <2>3 DEF TurnOK
<1>15. TurnsOK'
  <2> SUFFICES ASSUME NEW q \in Requests, conv'[q] # None PROVE TurnOK(q)'
    BY DEF TurnsOK
  <2>1. CASE q = r
    BY <1>14, <2>1
  <2>2. CASE q # r
    BY <1>1, <1>13, <2>2, OtherTurn
  <2> QED
    BY <2>1, <2>2
<1>16. UnsentOK' /\ LockOK'
  BY <1>1, <1>2 DEF SessionInv, UnsentOK, LockOK
<1>17. \A c \in Conversations : ConversationOK(c)'
  BY <1>1, ConversationStays DEF SessionInv
<1> QED
  BY <1>12, <1>15, <1>16, <1>17 DEF SessionInv

\* A request joins the queue of its conversation.
LEMMA SubmitKeeps ==
  ASSUME SessionInv, NEW r \in Requests, NEW c \in Conversations, Submit(r, c)
  PROVE  SessionInv'
<1>1. /\ conv[r] = None /\ conv' = [conv EXCEPT ![r] = c]
      /\ stage' = [stage EXCEPT ![r] = "lock"]
      /\ waiting' = [waiting EXCEPT ![c] = Append(@, r)]
      /\ arrivals' = [arrivals EXCEPT ![c] = Append(@, r)]
      /\ UNCHANGED <<stored, head, holder, live, unsaved, settled, prior, data_version,
                     remembered>>
  BY DEF Submit, GoTo, Enqueued, memoryVars
<1>2. /\ conv \in [Requests -> Conversations \cup {None}] /\ stage \in [Requests -> Stages]
      /\ waiting \in [Conversations -> Seq(Requests)]
      /\ arrivals \in [Conversations -> Seq(Requests)]
      /\ None \notin Conversations /\ None \notin Requests
  BY SessionAssumption DEF SessionInv, TypeOK
<1>3. /\ conv'[r] = c /\ stage'[r] = "lock" /\ stage[r] = "new" /\ c # None
      /\ \A q \in Requests : q # r => conv'[q] = conv[q] /\ stage'[q] = stage[q]
      /\ waiting'[c] = Append(waiting[c], r) /\ arrivals'[c] = Append(arrivals[c], r)
      /\ \A d \in Conversations : d # c => waiting'[d] = waiting[d] /\ arrivals'[d] = arrivals[d]
  BY <1>1, <1>2 DEF SessionInv, TypeOK
<1>4. TypeOK'
  <2>1. /\ conv' \in [Requests -> Conversations \cup {None}] /\ stage' \in [Requests -> Stages]
        /\ waiting' \in [Conversations -> Seq(Requests)]
        /\ arrivals' \in [Conversations -> Seq(Requests)]
    BY <1>1, <1>2 DEF Stages
  <2>2. ASSUME NEW q \in Requests
        PROVE  /\ conv'[q] = None <=> stage'[q] = "new"
               /\ stage'[q] \in Running \cup {"save"} => holder'[conv'[q]] = q
               /\ live'[q] # None => stage'[q] \in Running \cup {"save"}
    BY <1>1, <1>3 DEF SessionInv, TypeOK, Running
  <2> QED
    BY <1>1, <2>1, <2>2 DEF SessionInv, TypeOK
<1>5. TurnsOK'
  <2> SUFFICES ASSUME NEW q \in Requests, conv'[q] # None PROVE TurnOK(q)'
    BY DEF TurnsOK
  <2>1. CASE q = r
    <3>1. unsaved'[r] = <<>> /\ DOMAIN unsaved'[r] = {}
      BY <1>1 DEF SessionInv, UnsentOK
    <3> QED
      BY <1>3, <2>1, <3>1 DEF TurnOK, Before
  <2>2. CASE q # r
    <3>1. conv'[q] = conv[q] /\ Turns(q)' = Turns(q)
      BY <1>1, <1>3, <2>2 DEF Turns
    <3> QED
      BY <1>1, <1>3, <2>2, <3>1, OtherTurn
  <2> QED
    BY <2>1, <2>2
<1>6. UnsentOK' /\ LockOK'
  <2>1. UnsentOK'
    BY <1>1, <1>3 DEF SessionInv, UnsentOK
  <2>2. waiting[c] \in Seq(Requests)
    BY <1>2
  <2>3. In(r, waiting'[c]) /\ \A q : In(q, waiting[c]) => In(q, waiting'[c])
    BY <1>3, <2>2, InAppend
  <2>4. \A q \in Requests : q # r /\ stage[q] = "lock" => conv[q] \in Conversations
    BY <1>2 DEF SessionInv, TypeOK
  <2> QED
    BY <1>3, <2>1, <2>3, <2>4 DEF SessionInv, LockOK
<1>7. ConversationOK(c)'
  <2> DEFINE old == arrivals[c]
             queue == waiting[c]
             begun == Begun(c)
  <2>1. /\ old \in Seq(Requests) /\ queue \in Seq(Requests)
        /\ Len(old) \in Nat /\ Len(queue) \in Nat
    BY <1>2
  <2>2. /\ \A i, j \in DOMAIN old : old[i] = old[j] => i = j
        /\ \A i \in DOMAIN old : conv[old[i]] = c
        /\ begun \in Nat
        /\ \A k \in 1..Len(queue) : queue[k] = old[begun + k]
        /\ holder[c] # None => begun > 0 /\ holder[c] = old[begun]
    BY DEF SessionInv, ConversationOK, QueueOK
  <2>3. /\ \A i \in DOMAIN remembered[c] : \E m \in 1..begun : old[m] = remembered[c][i]
        /\ \A i, j \in DOMAIN remembered[c] : i < j =>
             \E m, n \in DOMAIN old :
               m < n /\ old[m] = remembered[c][i] /\ old[n] = remembered[c][j]
        /\ Sound(stored[c]) /\ Holds(stored[c], remembered[c]) /\ SettledOK(c)
    BY DEF SessionInv, ConversationOK, OrderOK
  <2>4. begun = Len(old) - Len(queue)
    BY DEF Begun
  <2>5. /\ DOMAIN old = 1..Len(old) /\ DOMAIN Append(old, r) = 1..(Len(old) + 1)
        /\ Len(Append(queue, r)) = Len(queue) + 1
        /\ \A i \in 1..Len(old) : Append(old, r)[i] = old[i]
        /\ Append(old, r)[Len(old) + 1] = r
        /\ \A i \in 1..Len(queue) : Append(queue, r)[i] = queue[i]
        /\ Append(queue, r)[Len(queue) + 1] = r
    BY <2>1
  <2>6. \A i \in 1..Len(old) : old[i] # r /\ old[i] \in Requests
    <3>1. conv[r] # c
      BY <1>1, <1>3
    <3> HIDE DEF old, queue, begun
    <3>2. \A i \in 1..Len(old) : old[i] \in Requests
      BY <2>1
    <3>3. \A i \in 1..Len(old) : conv[old[i]] = c
      BY <2>2, <2>5
    <3> QED
      BY <3>1, <3>2, <3>3
  <2>7. Begun(c)' = begun
    BY <1>3, <2>1, <2>5 DEF Begun
  <2> HIDE DEF old, queue, begun
  <2>8. begun \in Nat /\ begun <= Len(old)
    BY <2>1, <2>2, <2>4
  <2>9. /\ \A i, j \in 1..(Len(old) + 1) : Append(old, r)[i] = Append(old, r)[j] => i = j
        /\ \A i \in 1..(Len(old) + 1) : conv'[Append(old, r)[i]] = c
    <3>1. \A i \in 1..(Len(old) + 1) : i \in 1..Len(old) \/ i = Len(old) + 1
      BY <2>1, OneMore
    <3>2. ASSUME NEW i \in 1..(Len(old) + 1), NEW j \in 1..(Len(old) + 1),
                 Append(old, r)[i] = Append(old, r)[j]
          PROVE  i = j
      <4>1. i \in 1..Len(old) => Append(old, r)[i] = old[i] /\ old[i] # r
        BY <2>5, <2>6
      <4>2. j \in 1..Len(old) => Append(old, r)[j] = old[j] /\ old[j] # r
        BY <2>5, <2>6
      <4>3. i \in 1..Len(old) /\ j \in 1..Len(old) => i = j
        BY <2>2, <2>5, <3>2, <4>1, <4>2
      <4> QED
        BY <2>5, <3>1, <3>2, <4>1, <4>2, <4>3
    <3>3. ASSUME NEW i \in 1..(Len(old) + 1) PROVE conv'[Append(old, r)[i]] = c
      BY <1>3, <2>2, <2>5, <2>6, <3>1
    <3> QED
      BY <3>2, <3>3
  <2>10. \A k \in 1..(Len(queue) + 1) : Append(queue, r)[k] = Append(old, r)[begun + k]
    <3> SUFFICES ASSUME NEW k \in 1..(Len(queue) + 1)
                 PROVE  Append(queue, r)[k] = Append(old, r)[begun + k]
      OBVIOUS
    <3>1. CASE k \in 1..Len(queue)
      <4>1. begun + k \in 1..Len(old)
        BY <2>1, <2>4, <2>8, <3>1
      <4> QED
        BY <2>2, <2>5, <3>1, <4>1
    <3>2. CASE k = Len(queue) + 1
      <4>1. begun + k = Len(old) + 1
        BY <2>1, <2>4, <2>8, <3>2
      <4> QED
        BY <2>5, <3>2, <4>1
    <3> QED
      BY <2>1, <3>1, <3>2, OneMore
  <2>11. holder[c] # None => begun > 0 /\ holder[c] = Append(old, r)[begun]
    BY <2>1, <2>2, <2>5, <2>8
  <2>12. QueueOK(c)'
    <3>1. /\ arrivals'[c] = Append(old, r) /\ waiting'[c] = Append(queue, r)
          /\ holder'[c] = holder[c]
      BY <1>1, <1>3 DEF old, queue
    <3>2. /\ \A i, j \in DOMAIN arrivals'[c] : arrivals'[c][i] = arrivals'[c][j] => i = j
          /\ \A i \in DOMAIN arrivals'[c] : conv'[arrivals'[c][i]] = c
      BY <2>5, <2>9, <3>1
    <3>3. \A k \in 1..Len(waiting'[c]) : waiting'[c][k] = arrivals'[c][Begun(c)' + k]
      BY <2>5, <2>7, <2>10, <3>1
    <3>4. holder'[c] # None => Begun(c)' > 0 /\ holder'[c] = arrivals'[c][Begun(c)']
      BY <2>7, <2>11, <3>1
    <3> QED
      BY <2>7, <2>8, <3>2, <3>3, <3>4 DEF QueueOK
  <2>13. OrderOK(c)'
    <3>1. arrivals'[c] = Append(old, r) /\ remembered'[c] = remembered[c]
      BY <1>1, <1>3 DEF old
    <3>2. \A m \in 1..begun : Append(old, r)[m] = old[m]
      BY <2>1, <2>5, <2>8
    <3>3. \A m \in DOMAIN old : m \in DOMAIN Append(old, r) /\ Append(old, r)[m] = old[m]
      BY <2>1, <2>5
    <3>4. ASSUME NEW i \in DOMAIN remembered'[c]
          PROVE  \E m \in 1..Begun(c)' : arrivals'[c][m] = remembered'[c][i]
      <4>1. PICK m \in 1..begun : old[m] = remembered[c][i]
        BY <2>3, <3>1
      <4>2. m \in 1..Begun(c)' /\ arrivals'[c][m] = remembered'[c][i]
        BY <2>7, <3>1, <3>2, <4>1
      <4> QED
        BY <4>2
    <3>5. ASSUME NEW i \in DOMAIN remembered'[c], NEW j \in DOMAIN remembered'[c], i < j
          PROVE  \E m, n \in DOMAIN arrivals'[c] :
                    /\ m < n
                    /\ arrivals'[c][m] = remembered'[c][i]
                    /\ arrivals'[c][n] = remembered'[c][j]
      <4>1. PICK m \in DOMAIN old, n \in DOMAIN old :
               m < n /\ old[m] = remembered[c][i] /\ old[n] = remembered[c][j]
        BY <2>3, <3>1, <3>5
      <4> QED
        BY <3>1, <3>3, <4>1
    <3> QED
      BY <3>4, <3>5 DEF OrderOK
  <2>14. SettledOK(c)'
    BY <1>1, <2>3 DEF SettledOK
  <2> QED
    BY <1>1, <2>3, <2>12, <2>13, <2>14 DEF ConversationOK
<1>8. ASSUME NEW d \in Conversations, d # c PROVE ConversationOK(d)'
  BY <1>1, <1>2, <1>3, <1>8, ConversationStays
<1> QED
  BY <1>4, <1>5, <1>6, <1>7, <1>8 DEF SessionInv

\* The first of the queue gets the lock; its turn is not remembered yet.
LEMMA AcquireKeeps ==
  ASSUME SessionInv, NEW r \in Requests, Acquire(r)
  PROVE  SessionInv'
<1>c. PICK c : c = conv[r]
  OBVIOUS
<1>1. /\ stage[r] = "lock" /\ holder[c] = None /\ r = Head(waiting[c])
      /\ holder' = [holder EXCEPT ![c] = r]
      /\ waiting' = [waiting EXCEPT ![c] = Tail(@)]
      /\ stage' = [stage EXCEPT ![r] = "begin_turn"]
      /\ UNCHANGED <<stored, head, conv, live, unsaved, settled, prior, data_version,
                     arrivals, remembered>>
  BY <1>c DEF Acquire, Unlocked, GoTo, memoryVars, historyVars
<1>2. /\ stage \in [Requests -> Stages] /\ waiting \in [Conversations -> Seq(Requests)]
      /\ holder \in [Conversations -> Requests \cup {None}]
      /\ arrivals \in [Conversations -> Seq(Requests)]
      /\ None \notin Conversations /\ None \notin Requests
  BY SessionAssumption DEF SessionInv, TypeOK
<1>3. c \in Conversations /\ TurnOK(r) /\ conv[r] # None
  BY <1>1, <1>2, <1>c, Sent DEF SessionInv, TypeOK
<1>4. In(r, waiting[c]) /\ waiting[c] # <<>>
  <2>1. In(r, waiting[c])
    BY <1>1, <1>c DEF SessionInv, LockOK
  <2>2. \E i \in DOMAIN waiting[c] : TRUE
    BY <2>1 DEF In
  <2> QED
    BY <2>1, <2>2
<1>5. /\ stage'[r] = "begin_turn" /\ holder'[c] = r /\ waiting'[c] = Tail(waiting[c])
      /\ \A q \in Requests : q # r => stage'[q] = stage[q]
      /\ \A d \in Conversations : d # c => waiting'[d] = waiting[d] /\ holder'[d] = holder[d]
  BY <1>1, <1>2, <1>3
<1> DEFINE old == arrivals[c]
           queue == waiting[c]
           begun == Begun(c)
<1>6. /\ old \in Seq(Requests) /\ queue \in Seq(Requests) /\ Tail(queue) \in Seq(Requests)
      /\ Len(old) \in Nat /\ Len(queue) \in Nat /\ Len(queue) > 0
      /\ Len(Tail(queue)) = Len(queue) - 1 /\ r = queue[1]
      /\ \A k \in 1..Len(Tail(queue)) : Tail(queue)[k] = queue[k + 1]
  BY <1>1, <1>2, <1>3, <1>4
<1>7. /\ \A i, j \in DOMAIN old : old[i] = old[j] => i = j
      /\ \A i \in DOMAIN old : conv[old[i]] = c
      /\ begun \in Nat
      /\ \A k \in 1..Len(queue) : queue[k] = old[begun + k]
  BY <1>3 DEF SessionInv, ConversationOK, QueueOK
<1>8. /\ \A i \in DOMAIN remembered[c] : \E m \in 1..begun : old[m] = remembered[c][i]
      /\ \A i, j \in DOMAIN remembered[c] : i < j =>
           \E m, n \in DOMAIN old :
             m < n /\ old[m] = remembered[c][i] /\ old[n] = remembered[c][j]
      /\ Sound(stored[c]) /\ Holds(stored[c], remembered[c]) /\ SettledOK(c)
  BY <1>3 DEF SessionInv, ConversationOK, OrderOK
<1>9. begun = Len(old) - Len(queue) /\ DOMAIN old = 1..Len(old)
  BY <1>6 DEF Begun
<1>10. Begun(c)' = Len(old) - (Len(queue) - 1)
  BY <1>1, <1>5, <1>6 DEF Begun
<1> HIDE DEF old, queue, begun
<1>11. Begun(c)' = begun + 1 /\ begun + 1 \in 1..Len(old) /\ old[begun + 1] = r
  BY <1>6, <1>7, <1>9, <1>10
<1>12. ~In(r, remembered[c])
  <2> SUFFICES ASSUME NEW i \in DOMAIN remembered[c], remembered[c][i] = r PROVE FALSE
    BY DEF In
  <2>1. PICK m \in 1..begun : old[m] = r
    BY <1>8
  <2>2. m \in DOMAIN old /\ m # begun + 1
    BY <1>7, <1>9, <1>11, <2>1
  <2> QED
    BY <1>7, <1>9, <1>11, <2>1, <2>2
<1>13. ConversationOK(c)'
  <2>1. QueueOK(c)'
    <3>1. \A k \in 1..Len(Tail(queue)) : Tail(queue)[k] = old[begun + 1 + k]
      <4> SUFFICES ASSUME NEW k \in 1..Len(Tail(queue))
                   PROVE  Tail(queue)[k] = old[begun + 1 + k]
        OBVIOUS
      <4>1. k + 1 \in 1..Len(queue)
        BY <1>6
      <4>2. begun + (k + 1) = begun + 1 + k
        BY <1>6, <1>7
      <4> QED
        BY <1>6, <1>7, <4>1, <4>2
    <3>2. /\ arrivals'[c] = old /\ waiting'[c] = Tail(queue) /\ conv' = conv
          /\ holder'[c] = old[begun + 1]
      BY <1>1, <1>5, <1>11 DEF old, queue
    <3>3. begun + 1 > 0 /\ begun + 1 \in Nat
      BY <1>7
    <3>4. /\ \A i, j \in DOMAIN arrivals'[c] : arrivals'[c][i] = arrivals'[c][j] => i = j
          /\ \A i \in DOMAIN arrivals'[c] : conv'[arrivals'[c][i]] = c
      BY <1>7, <3>2
    <3>5. \A k \in 1..Len(waiting'[c]) : waiting'[c][k] = arrivals'[c][Begun(c)' + k]
      BY <1>11, <3>1, <3>2
    <3> QED
      BY <1>11, <3>2, <3>3, <3>4, <3>5 DEF QueueOK
  <2>2. OrderOK(c)'
    <3>1. arrivals'[c] = old /\ remembered'[c] = remembered[c]
      BY <1>1 DEF old
    <3>2. \A m \in 1..begun : m \in 1..(begun + 1)
      BY <1>7
    <3> QED
      BY <1>8, <1>11, <3>1, <3>2 DEF OrderOK
  <2>3. SettledOK(c)'
    BY <1>1, <1>8 DEF SettledOK
  <2> QED
    BY <1>1, <1>8, <2>1, <2>2, <2>3 DEF ConversationOK
<1>14. ASSUME NEW d \in Conversations, d # c PROVE ConversationOK(d)'
  BY <1>1, <1>5, <1>14, ConversationStays
<1>15. TypeOK'
  <2>1. /\ stage' \in [Requests -> Stages] /\ waiting' \in [Conversations -> Seq(Requests)]
        /\ holder' \in [Conversations -> Requests \cup {None}]
    BY <1>1, <1>2, <1>3, <1>6 DEF Stages, Running, queue
  <2>2. ASSUME NEW q \in Requests
        PROVE  /\ conv'[q] = None <=> stage'[q] = "new"
               /\ stage'[q] \in Running \cup {"save"} => holder'[conv'[q]] = q
               /\ live'[q] # None => stage'[q] \in Running \cup {"save"}
    <3>1. CASE q = r
      BY <1>1, <1>3, <1>5, <1>c, <3>1 DEF Running
    <3>2. CASE q # r
      <4>1. stage[q] \in Holding => conv[q] # c /\ conv[q] \in Conversations
        BY <1>1, <1>2, HolderIsAlone, Sent
      <4> QED
        BY <1>1, <1>5, <3>2, <4>1 DEF SessionInv, TypeOK, Holding
    <3> QED
      BY <3>1, <3>2
  <2> QED
    BY <1>1, <2>1, <2>2 DEF SessionInv, TypeOK
<1>16. TurnsOK'
  <2> SUFFICES ASSUME NEW q \in Requests, conv'[q] # None PROVE TurnOK(q)'
    BY DEF TurnsOK
  <2>1. CASE q = r
    <3>1. unsaved'[r] = <<>> /\ DOMAIN unsaved'[r] = {}
      BY <1>1, <1>3 DEF TurnOK, Running
    <3>2. Turns(r)' = remembered[c] /\ live'[r] = None
      <4>1. live[r] # None => stage[r] \in Running \cup {"save"}
        BY DEF SessionInv, TypeOK
      <4>2. live[r] = None
        BY <1>1, <4>1 DEF Running
      <4>3. live'[r] = None
        BY <1>1, <4>2
      <4>4. remembered' = remembered /\ conv' = conv
        BY <1>1
      <4> QED
        BY <1>c, <4>3, <4>4 DEF Turns
    <3> QED
      BY <1>5, <1>12, <2>1, <3>1, <3>2 DEF TurnOK, Before
  <2>2. CASE q # r
    <3>1. Turns(q)' = Turns(q)
      BY <1>1 DEF Turns
    <3> QED
      BY <1>1, <1>5, <2>2, <3>1, OtherTurn
  <2> QED
    BY <2>1, <2>2
<1>17. UnsentOK' /\ LockOK'
  <2>1. UnsentOK'
    BY <1>1 DEF SessionInv, UnsentOK
  <2>2. ASSUME NEW q \in Requests, q # r, In(q, queue) PROVE In(q, Tail(queue))
    <3>1. PICK k \in DOMAIN queue : queue[k] = q
      BY <2>2 DEF In
    <3>2. k # 1 /\ k \in 1..Len(queue)
      BY <1>6, <2>2, <3>1
    <3>3. k - 1 \in 1..Len(Tail(queue)) /\ (k - 1) + 1 = k
      BY <1>6, <3>2
    <3>4. Tail(queue)[k - 1] = q /\ k - 1 \in DOMAIN Tail(queue)
      BY <1>6, <3>1, <3>3
    <3> QED
      BY <3>4 DEF In
  <2>3. ASSUME NEW q \in Requests, stage'[q] = "lock" PROVE In(q, waiting'[conv'[q]])
    <3>1. q # r /\ stage[q] = "lock" /\ conv[q] \in Conversations
      BY <1>2, <1>5, <2>3, Sent DEF SessionInv, TypeOK
    <3>2. In(q, waiting[conv[q]])
      BY <3>1 DEF SessionInv, LockOK
    <3> QED
      BY <1>1, <1>5, <2>2, <3>1, <3>2 DEF queue
  <2> QED
    BY <2>1, <2>3 DEF LockOK
<1> QED
  BY <1>13, <1>14, <1>15, <1>16, <1>17 DEF SessionInv

\* The first n copies become the checkpoint: a history of r at most one longer.
LEMMA SavedCopies ==
  ASSUME SessionInv, NEW r \in Requests, stage[r] \in Holding,
         NEW n \in 0..Len(unsaved[r]), Saved(r, n), UNCHANGED <<arrivals, waiting, settled>>,
         NEW c \in Conversations, c = conv[r]
  PROVE  /\ stored' \in [Conversations -> Channels]
         /\ remembered' \in [Conversations -> Seq(Requests)]
         /\ \A d \in Conversations : d # c =>
              stored'[d] = stored[d] /\ remembered'[d] = remembered[d]
         /\ Sound(stored'[c]) /\ Holds(stored'[c], remembered'[c]) /\ OrderOK(c)'
         /\ SettledOK(c)'
         /\ \/ /\ remembered'[c] = remembered[c]
               /\ \A i \in 1..n : unsaved[r][i].node # "compact_session"
            \/ /\ remembered'[c] = Append(remembered[c], r)
               /\ n = Len(unsaved[r]) /\ stage[r] = "return"
<1>1. /\ TurnOK(r) /\ Turns(r) = remembered[c] /\ unsaved[r] \in Seq(Copies)
      /\ remembered[c] \in Seq(Requests)
  BY HolderIsAlone, Sent DEF Turns
<1>2. /\ stored \in [Conversations -> Channels]
      /\ remembered \in [Conversations -> Seq(Requests)]
      /\ Sound(stored[c]) /\ Holds(stored[c], remembered[c]) /\ OrderOK(c)
      /\ SettledOK(c)
  BY DEF SessionInv, TypeOK, ConversationOK
<1>3. Len(unsaved[r]) \in Nat /\ DOMAIN unsaved[r] = 1..Len(unsaved[r])
  BY <1>1
<1>4. \A i \in 1..n : i \in DOMAIN unsaved[r] /\ unsaved[r][i] \in Copies /\ CopyOK(r, i)
  BY <1>1, <1>3 DEF TurnOK
<1>5. /\ stored' = [stored EXCEPT ![c] = IF n = 0 THEN @ ELSE unsaved[r][n].channels]
      /\ remembered' = [remembered EXCEPT ![c] =
           IF \E i \in 1..n : unsaved[r][i].node = "compact_session"
           THEN Append(@, r) ELSE @]
  BY DEF Saved
<1>6. /\ stored'[c] = IF n = 0 THEN stored[c] ELSE unsaved[r][n].channels
      /\ \A d \in Conversations : d # c =>
           stored'[d] = stored[d] /\ remembered'[d] = remembered[d]
  BY <1>2, <1>5
<1>7. n # 0 => n \in 1..n
  BY <1>3
<1>8. stored'[c] \in Channels /\ Sound(stored'[c])
  BY <1>2, <1>4, <1>6, <1>7 DEF CopyOK, Copies
<1>9. stored' \in [Conversations -> Channels]
  BY <1>2, <1>5, <1>6, <1>8
<1>10. CASE \E i \in 1..n : unsaved[r][i].node = "compact_session"
  <2>1. PICK i \in 1..n : unsaved[r][i].node = "compact_session"
    BY <1>10
  <2>2. /\ i = Len(unsaved[r]) /\ stage[r] = "return" /\ ~In(r, Turns(r))
        /\ Holds(unsaved[r][i].channels, Append(Turns(r), r))
    BY <1>4, <2>1 DEF CopyOK
  <2>3. n = i /\ n # 0
    BY <1>3, <2>1, <2>2
  <2>4. remembered'[c] = Append(remembered[c], r)
    BY <1>2, <1>5, <1>10
  <2>5. remembered' \in [Conversations -> Seq(Requests)]
    BY <1>1, <1>2, <1>5, <2>4
  <2>6. Holds(stored'[c], remembered'[c])
    BY <1>1, <1>6, <2>2, <2>3, <2>4
  <2>7. OrderOK(c)'
    BY <2>2, <2>4, HistoryGrows
  <2>8. SettledOK(c)'
    <3>1. settled[r] \in Settlements
      BY <1>1, <2>2 DEF TurnOK
    <3>2. /\ DOMAIN Append(remembered[c], r) = 1..(Len(remembered[c]) + 1)
          /\ DOMAIN remembered[c] = 1..Len(remembered[c]) /\ Len(remembered[c]) \in Nat
          /\ \A j \in 1..Len(remembered[c]) :
               Append(remembered[c], r)[j] = remembered[c][j]
          /\ Append(remembered[c], r)[Len(remembered[c]) + 1] = r
      BY <1>1
    <3>3. ASSUME NEW j \in DOMAIN remembered'[c]
          PROVE  settled'[remembered'[c][j]] \in Settlements
      <4>1. j \in 1..Len(remembered[c]) \/ j = Len(remembered[c]) + 1
        BY <2>4, <3>2, OneMore
      <4> QED
        BY <1>2, <2>4, <3>1, <3>2, <4>1 DEF SettledOK
    <3> QED
      BY <3>3 DEF SettledOK
  <2> QED
    BY <1>6, <1>8, <1>9, <2>2, <2>3, <2>4, <2>5, <2>6, <2>7, <2>8
<1>11. CASE ~ \E i \in 1..n : unsaved[r][i].node = "compact_session"
  <2>1. remembered' = remembered
    BY <1>2, <1>5, <1>11
  <2>2. Holds(stored'[c], remembered'[c])
    BY <1>1, <1>2, <1>4, <1>6, <1>7, <1>11, <2>1 DEF CopyOK
  <2>3. OrderOK(c)' /\ SettledOK(c)'
    <3>1. Begun(c)' = Begun(c)
      BY DEF Begun
    <3>2. OrderOK(c)'
      BY <1>2, <2>1, <3>1 DEF OrderOK
    <3>3. SettledOK(c)'
      BY <1>2, <2>1 DEF SettledOK
    <3> QED
      BY <3>2, <3>3
  <2> QED
    BY <1>2, <1>6, <1>8, <1>9, <1>11, <2>1, <2>2, <2>3
<1> QED
  BY <1>10, <1>11

\* The checkpointer saves the oldest copy; the copies after it continue it.
LEMMA CheckpointKeeps ==
  ASSUME SessionInv, NEW r \in Requests, Checkpoint(r)
  PROVE  SessionInv'
<1>1. /\ unsaved[r] # <<>> /\ Saved(r, 1) /\ unsaved' = [unsaved EXCEPT ![r] = Tail(@)]
      /\ UNCHANGED <<head, waiting, holder, conv, stage, live, settled, prior,
                     data_version, arrivals>>
  BY DEF Checkpoint, lockVars
<1>2. conv[r] # None
  BY <1>1 DEF SessionInv, UnsentOK
<1>3. TurnOK(r) /\ unsaved[r] \in Seq(Copies) /\ stage[r] \in Running
  BY <1>1, <1>2, Sent DEF TurnOK
<1>4. PICK c \in Conversations : c = conv[r]
  BY <1>2, Sent
<1>5. /\ Len(unsaved[r]) \in Nat /\ DOMAIN unsaved[r] = 1..Len(unsaved[r])
      /\ 1 \in 0..Len(unsaved[r])
  <2>1. Len(unsaved[r]) # 0 /\ Len(unsaved[r]) \in Nat
    BY <1>1, <1>3
  <2> QED
    BY <1>3, <2>1
<1>6. /\ stored' \in [Conversations -> Channels]
      /\ remembered' \in [Conversations -> Seq(Requests)]
      /\ \A d \in Conversations : d # c =>
           stored'[d] = stored[d] /\ remembered'[d] = remembered[d]
      /\ Sound(stored'[c]) /\ Holds(stored'[c], remembered'[c]) /\ OrderOK(c)'
      /\ SettledOK(c)'
      /\ \/ /\ remembered'[c] = remembered[c]
            /\ \A i \in 1..1 : unsaved[r][i].node # "compact_session"
         \/ /\ remembered'[c] = Append(remembered[c], r)
            /\ 1 = Len(unsaved[r]) /\ stage[r] = "return"
  BY <1>1, <1>3, <1>4, <1>5, SavedCopies DEF Holding
<1>7. unsaved \in [Requests -> Seq(Copies)]
  BY DEF SessionInv, TypeOK
<1>8. /\ unsaved'[r] = Tail(unsaved[r]) /\ Tail(unsaved[r]) \in Seq(Copies)
      /\ \A q \in Requests : q # r => unsaved'[q] = unsaved[q]
      /\ Len(Tail(unsaved[r])) = Len(unsaved[r]) - 1
      /\ DOMAIN Tail(unsaved[r]) = 1..(Len(unsaved[r]) - 1)
      /\ \A i \in 1..(Len(unsaved[r]) - 1) : Tail(unsaved[r])[i] = unsaved[r][i + 1]
  BY <1>1, <1>3, <1>7
<1>9. TypeOK'
  <2>1. unsaved' \in [Requests -> Seq(Copies)]
    BY <1>1, <1>7, <1>8
  <2> QED
    BY <1>1, <1>6, <2>1 DEF SessionInv, TypeOK
<1>10. TurnOK(r)'
  <2>1. Turns(r)' = remembered'[c] /\ Turns(r) = remembered[c]
    BY <1>1, <1>4 DEF Turns
  <2>2. CASE /\ remembered'[c] = remembered[c]
             /\ \A i \in 1..1 : unsaved[r][i].node # "compact_session"
    <3>1. ASSUME NEW i \in DOMAIN unsaved'[r] PROVE CopyOK(r, i)'
      <4>1. i + 1 \in DOMAIN unsaved[r] /\ unsaved'[r][i] = unsaved[r][i + 1]
        BY <1>5, <1>8, <3>1
      <4>2. i + 1 = Len(unsaved[r]) => i = Len(unsaved'[r])
        BY <1>5, <1>8, <3>1
      <4>3. CopyOK(r, i + 1)
        BY <1>3, <4>1 DEF TurnOK
      <4> QED
        BY <1>1, <2>1, <2>2, <4>1, <4>2, <4>3 DEF CopyOK
    <3>2. unsaved[r][Len(unsaved[r])].node = "compact_session" =>
             /\ unsaved'[r] # <<>>
             /\ unsaved'[r][Len(unsaved'[r])].node = "compact_session"
      <4> SUFFICES ASSUME unsaved[r][Len(unsaved[r])].node = "compact_session"
                   PROVE  /\ unsaved'[r] # <<>>
                          /\ unsaved'[r][Len(unsaved'[r])].node = "compact_session"
        OBVIOUS
      <4>1. Len(unsaved[r]) # 1
        BY <2>2
      <4>2. /\ Len(unsaved[r]) - 1 \in 1..(Len(unsaved[r]) - 1)
            /\ (Len(unsaved[r]) - 1) + 1 = Len(unsaved[r])
        <5>1. PICK n \in Nat : n = Len(unsaved[r])
          BY <1>5
        <5>2. n # 1 /\ n # 0
          BY <1>5, <4>1, <5>1
        <5>3. \A k \in Nat : k # 1 /\ k # 0 => k - 1 \in 1..(k - 1) /\ (k - 1) + 1 = k
          OBVIOUS
        <5> QED
          BY <5>1, <5>2, <5>3
      <4>3. unsaved'[r][Len(unsaved'[r])] = unsaved[r][Len(unsaved[r])]
        BY <1>8, <4>2
      <4>4. Tail(unsaved[r]) # <<>>
        <5>1. Len(Tail(unsaved[r])) = Len(unsaved[r]) - 1 /\ Len(unsaved[r]) - 1 # 0
          BY <1>5, <1>8, <4>1
        <5> QED
          BY <1>8, <5>1, EmptySeq
      <4>5. unsaved'[r] # <<>>
        BY <1>8, <4>4
      <4> QED
        BY <4>3, <4>5
    <3>3. stage[r] # "save"
      BY <1>3 DEF Running
    <3>4. stage[r] # "begin_turn"
      BY <1>1, <1>3 DEF TurnOK
    <3> QED
      BY <1>1, <1>3, <2>1, <2>2, <3>1, <3>2, <3>3, <3>4 DEF TurnOK
  <2>3. CASE /\ remembered'[c] = Append(remembered[c], r)
             /\ 1 = Len(unsaved[r]) /\ stage[r] = "return"
    <3>1. DOMAIN unsaved'[r] = {} /\ unsaved'[r] = <<>>
      <4>1. Len(Tail(unsaved[r])) = 0
        BY <1>8, <2>3
      <4>2. Tail(unsaved[r]) = <<>>
        BY <1>8, <4>1, EmptySeq
      <4> QED
        BY <1>8, <4>2
    <3>2. remembered[c] \in Seq(Requests)
      BY DEF SessionInv, TypeOK
    <3>3. In(r, Turns(r)')
      BY <2>1, <2>3, <3>2, InAppend
    <3> QED
      BY <1>1, <1>3, <2>3, <3>1, <3>3 DEF TurnOK, Before
  <2> QED
    BY <1>6, <2>2, <2>3
<1>11. TurnsOK'
  <2> SUFFICES ASSUME NEW q \in Requests, conv'[q] # None PROVE TurnOK(q)'
    BY DEF TurnsOK
  <2>1. CASE q = r
    BY <1>10, <2>1
  <2>2. CASE q # r
    <3>1. conv[q] \in Conversations /\ conv'[q] = conv[q]
      BY <1>1, Sent
    <3>2. conv[q] # c => Turns(q)' = Turns(q)
      BY <1>1, <1>6, <3>1 DEF Turns
    <3>3. conv[q] = c =>
            stage[q] \notin Holding
            /\ (Turns(q)' = Turns(q) \/ Turns(q)' = Append(Turns(q), r))
      BY <1>1, <1>3, <1>4, <1>6, <2>2, HolderIsAlone DEF Turns, Holding
    <3> QED
      BY <1>1, <1>8, <2>2, <3>1, <3>2, <3>3, OtherTurn
  <2> QED
    BY <2>1, <2>2
<1>12. UnsentOK' /\ LockOK'
  BY <1>1, <1>2, <1>8 DEF SessionInv, UnsentOK, LockOK
<1>13. ASSUME NEW d \in Conversations PROVE ConversationOK(d)'
  <2>1. CASE d = c
    <3>1. QueueOK(c)'
      BY <1>1 DEF SessionInv, ConversationOK, QueueOK, Begun
    <3> QED
      BY <1>6, <2>1, <3>1 DEF ConversationOK
  <2>2. CASE d # c
    BY <1>1, <1>6, <2>2, ConversationStays
  <2> QED
    BY <2>1, <2>2
<1> QED
  BY <1>9, <1>11, <1>12, <1>13 DEF SessionInv

\* ainvoke returns once compact_session's copy is saved.
LEMMA ReturnKeeps ==
  ASSUME SessionInv, NEW r \in Requests, Return(r)
  PROVE  SessionInv'
<1>1. /\ stage[r] = "return" /\ unsaved[r] = <<>> /\ stage' = [stage EXCEPT ![r] = "save"]
      /\ UNCHANGED <<stored, head, waiting, holder, conv, live, unsaved, settled, prior,
                     data_version, arrivals, remembered>>
  BY DEF Return, AllSaved, GoTo, memoryVars, lockVars, historyVars
<1>2. conv[r] # None /\ holder[conv[r]] = r /\ TurnOK(r)
  BY <1>1, HolderIsAlone, Sent DEF Holding, Running
<1>3. stage'[r] = "save" /\ \A q \in Requests : q # r => stage'[q] = stage[q]
  BY <1>1 DEF SessionInv, TypeOK
<1>4. \A q \in Requests : Turns(q)' = Turns(q)
  BY <1>1 DEF Turns
<1>5. TypeOK'
  <2>1. stage' \in [Requests -> Stages]
    BY <1>1 DEF SessionInv, TypeOK, Stages
  <2>2. ASSUME NEW q \in Requests
        PROVE  /\ conv'[q] = None <=> stage'[q] = "new"
               /\ stage'[q] \in Running \cup {"save"} => holder'[conv'[q]] = q
               /\ live'[q] # None => stage'[q] \in Running \cup {"save"}
    <3>1. CASE q = r
      BY <1>1, <1>2, <1>3, <3>1
    <3>2. CASE q # r
      BY <1>1, <1>3, <3>2 DEF SessionInv, TypeOK
    <3> QED
      BY <3>1, <3>2
  <2> QED
    BY <1>1, <2>1, <2>2 DEF SessionInv, TypeOK
<1>6. TurnsOK'
  <2> SUFFICES ASSUME NEW q \in Requests, conv'[q] # None PROVE TurnOK(q)'
    BY DEF TurnsOK
  <2>1. CASE q = r
    <3>1. DOMAIN unsaved'[r] = {} /\ unsaved'[r] = <<>>
      BY <1>1
    <3> QED
      BY <1>1, <1>2, <1>3, <1>4, <2>1, <3>1 DEF TurnOK, Before
  <2>2. CASE q # r
    BY <1>1, <1>3, <1>4, <2>2, OtherTurn
  <2> QED
    BY <2>1, <2>2
<1>7. UnsentOK' /\ LockOK'
  BY <1>1, <1>3 DEF SessionInv, UnsentOK, LockOK
<1>8. \A c \in Conversations : ConversationOK(c)'
  BY <1>1, ConversationStays
<1> QED
  BY <1>5, <1>6, <1>7, <1>8 DEF SessionInv

\* A turn that is over releases the lock and keeps what was saved.
LEMMA EndKeeps ==
  ASSUME SessionInv, NEW r \in Requests, stage[r] \in Holding,
         NEW how \in {"replied", "error"}, how = "replied" => stage[r] = "save",
         End(r, how), UNCHANGED <<waiting, conv, settled, prior, data_version, arrivals>>,
         NEW c \in Conversations, c = conv[r],
         head' \in [Conversations -> Graphs \cup {None}],
         stored' \in [Conversations -> Channels],
         remembered' \in [Conversations -> Seq(Requests)],
         \A d \in Conversations : d # c =>
           stored'[d] = stored[d] /\ remembered'[d] = remembered[d],
         Sound(stored'[c]), Holds(stored'[c], remembered'[c]), OrderOK(c)', SettledOK(c)',
         remembered'[c] = remembered[c] \/ remembered'[c] = Append(remembered[c], r)
  PROVE  SessionInv'
<1>1. /\ stage' = [stage EXCEPT ![r] = how] /\ live' = [live EXCEPT ![r] = None]
      /\ unsaved' = [unsaved EXCEPT ![r] = <<>>]
      /\ holder' = [holder EXCEPT ![c] = None]
  BY DEF End, GoTo
<1>2. conv[r] # None /\ holder[c] = r /\ TurnOK(r)
  BY HolderIsAlone, Sent
<1>3. /\ stage \in [Requests -> Stages] /\ live \in [Requests -> Channels \cup {None}]
      /\ unsaved \in [Requests -> Seq(Copies)]
      /\ holder \in [Conversations -> Requests \cup {None}]
  BY DEF SessionInv, TypeOK
<1>4. /\ stage'[r] = how /\ live'[r] = None /\ unsaved'[r] = <<>> /\ holder'[c] = None
      /\ \A q \in Requests : q # r =>
           stage'[q] = stage[q] /\ live'[q] = live[q] /\ unsaved'[q] = unsaved[q]
      /\ \A d \in Conversations : d # c => holder'[d] = holder[d]
  BY <1>1, <1>3
<1>5. TypeOK'
  <2>1. /\ stage' \in [Requests -> Stages] /\ live' \in [Requests -> Channels \cup {None}]
        /\ unsaved' \in [Requests -> Seq(Copies)]
        /\ holder' \in [Conversations -> Requests \cup {None}]
    BY <1>1, <1>3 DEF Stages, Ended
  <2>2. ASSUME NEW q \in Requests
        PROVE  /\ conv'[q] = None <=> stage'[q] = "new"
               /\ stage'[q] \in Running \cup {"save"} => holder'[conv'[q]] = q
               /\ live'[q] # None => stage'[q] \in Running \cup {"save"}
    <3>1. CASE q = r
      BY <1>2, <1>4, <3>1 DEF Running
    <3>2. CASE q # r
      <4>1. stage[q] \in Holding => conv[q] # c /\ conv[q] \in Conversations
        BY <3>2, HolderIsAlone, Sent
      <4> QED
        BY <1>4, <3>2, <4>1 DEF SessionInv, TypeOK, Holding
    <3> QED
      BY <3>1, <3>2
  <2> QED
    BY <2>1, <2>2 DEF SessionInv, TypeOK
<1>6. TurnsOK'
  <2> SUFFICES ASSUME NEW q \in Requests, conv'[q] # None PROVE TurnOK(q)'
    BY DEF TurnsOK
  <2>1. CASE q = r
    <3>1. DOMAIN unsaved'[r] = {} /\ stage'[r] \in {"replied", "error"}
      BY <1>4
    <3>2. stage'[r] = "replied" => In(r, Turns(r)')
      <4>1. stage'[r] = "replied" => In(r, Turns(r))
        BY <1>2, <1>4 DEF TurnOK
      <4>2. Turns(r) \in Seq(Requests) /\ Turns(r) = remembered[c]
            /\ Turns(r)' = remembered'[c]
        BY <1>2, Sent DEF Turns
      <4>3. \A x : In(x, Turns(r)) => In(x, Append(Turns(r), r))
        BY <4>2, InAppend
      <4> QED
        BY <4>1, <4>2, <4>3
    <3> QED
      BY <1>4, <2>1, <3>1, <3>2 DEF TurnOK, Before
  <2>2. CASE q # r
    <3>1. conv[q] \in Conversations
      BY Sent
    <3>2. conv[q] # c => Turns(q)' = Turns(q)
      BY <3>1 DEF Turns
    <3>3. conv[q] = c =>
            stage[q] \notin Holding
            /\ (Turns(q)' = Turns(q) \/ Turns(q)' = Append(Turns(q), r))
      BY <2>2, HolderIsAlone DEF Turns
    <3> QED
      BY <1>4, <2>2, <3>1, <3>2, <3>3, OtherTurn
  <2> QED
    BY <2>1, <2>2
<1>7. UnsentOK' /\ LockOK'
  BY <1>4 DEF SessionInv, UnsentOK, LockOK
<1>8. ASSUME NEW d \in Conversations PROVE ConversationOK(d)'
  <2>1. CASE d = c
    <3>1. QueueOK(c) /\ Begun(c)' = Begun(c)
      BY DEF SessionInv, ConversationOK, Begun
    <3>2. QueueOK(c)'
      BY <1>4, <3>1 DEF QueueOK
    <3> QED
      BY <2>1, <3>2 DEF ConversationOK
  <2>2. CASE d # c
    BY <1>4, <2>2, ConversationStays
  <2> QED
    BY <2>1, <2>2
<1> QED
  BY <1>5, <1>6, <1>7, <1>8 DEF SessionInv

\* The three ways in which a turn is over.
LEMMA EndingKeeps ==
  ASSUME SessionInv, NEW r \in Requests, Abort(r) \/ SaveGraph(r) \/ SaveGraphFails(r)
  PROVE  SessionInv'
<1>1. stage[r] \in Holding
  BY DEF Abort, SaveGraph, SaveGraphFails, Holding
<1>2. PICK c \in Conversations : c = conv[r]
  BY <1>1, HolderIsAlone, Sent
<1>3. TurnOK(r) /\ unsaved[r] \in Seq(Copies)
  BY <1>1, HolderIsAlone, Sent
<1>4. head \in [Conversations -> Graphs \cup {None}]
  BY DEF SessionInv, TypeOK
<1>5. CASE Abort(r)
  <2>1. /\ Saved(r, Len(unsaved[r])) /\ End(r, "error") /\ head' = head
        /\ UNCHANGED <<waiting, conv, settled, prior, data_version, arrivals>>
    BY <1>5 DEF Abort
  <2>2. Len(unsaved[r]) \in 0..Len(unsaved[r])
    BY <1>3
  <2>3. /\ stored' \in [Conversations -> Channels]
        /\ remembered' \in [Conversations -> Seq(Requests)]
        /\ \A d \in Conversations : d # c =>
             stored'[d] = stored[d] /\ remembered'[d] = remembered[d]
        /\ Sound(stored'[c]) /\ Holds(stored'[c], remembered'[c]) /\ OrderOK(c)'
        /\ SettledOK(c)'
        /\ remembered'[c] = remembered[c] \/ remembered'[c] = Append(remembered[c], r)
    BY <1>1, <1>2, <2>1, <2>2, SavedCopies
  <2> QED
    BY <1>1, <1>2, <1>4, <2>1, <2>3, EndKeeps
<1>6. CASE SaveGraph(r) \/ SaveGraphFails(r)
  <2>1. PICK how \in {"replied", "error"} :
           /\ stage[r] = "save" /\ End(r, how)
           /\ head' = head \/ head' = [head EXCEPT ![c] = live[r].graph]
           /\ UNCHANGED <<stored, waiting, conv, settled, prior, data_version, arrivals,
                          remembered>>
    BY <1>2, <1>6 DEF SaveGraph, SaveGraphFails, PublicGraph, historyVars
  <2>2. head' \in [Conversations -> Graphs \cup {None}]
    <3>1. live[r].graph \in Graphs \cup {None}
      BY <1>3, <2>1 DEF TurnOK, Channels
    <3> QED
      BY <1>4, <2>1, <3>1
  <2>3. /\ stored \in [Conversations -> Channels]
        /\ remembered \in [Conversations -> Seq(Requests)]
        /\ Sound(stored[c]) /\ Holds(stored[c], remembered[c]) /\ OrderOK(c)
        /\ SettledOK(c)
    BY DEF SessionInv, TypeOK, ConversationOK
  <2>4. OrderOK(c)' /\ SettledOK(c)'
    <3>1. /\ Begun(c)' = Begun(c) /\ remembered' = remembered /\ arrivals' = arrivals
          /\ settled' = settled
      BY <2>1 DEF Begun
    <3> QED
      BY <2>3, <3>1 DEF OrderOK, SettledOK
  <2> QED
    BY <1>1, <1>2, <2>1, <2>2, <2>3, <2>4, EndKeeps
<1> QED
  BY <1>5, <1>6

\* The death of the process loses turns that run, and nothing that was saved.
LEMMA RestartKeeps ==
  ASSUME SessionInv, Restart
  PROVE  SessionInv'
<1>1. /\ stage' = [r \in Requests |->
           IF stage[r] \in {"new"} \cup Ended THEN stage[r] ELSE "lost"]
      /\ live' = [r \in Requests |-> None] /\ unsaved' = [r \in Requests |-> <<>>]
      /\ waiting' = [c \in Conversations |-> <<>>]
      /\ holder' = [c \in Conversations |-> None] /\ data_version' \in Versions
      /\ UNCHANGED <<stored, head, conv, settled, prior, arrivals, remembered>>
  BY DEF Restart, memoryVars, historyVars
<1>2. \A r \in Requests : /\ stage'[r] \in {"new"} \cup Ended
                          /\ stage'[r] = stage[r] \/ stage'[r] = "lost"
                          /\ stage'[r] = "new" <=> stage[r] = "new"
  BY <1>1 DEF Ended
<1>3. TypeOK'
  <2>1. /\ stage' \in [Requests -> Stages] /\ live' \in [Requests -> Channels \cup {None}]
        /\ unsaved' \in [Requests -> Seq(Copies)]
        /\ waiting' \in [Conversations -> Seq(Requests)]
        /\ holder' \in [Conversations -> Requests \cup {None}]
    BY <1>1 DEF SessionInv, TypeOK, Stages, Ended
  <2>2. ASSUME NEW q \in Requests
        PROVE  /\ conv'[q] = None <=> stage'[q] = "new"
               /\ stage'[q] \notin Running \cup {"save"} /\ live'[q] = None
    BY <1>1, <1>2 DEF SessionInv, TypeOK, Running, Ended
  <2> QED
    BY <1>1, <2>1, <2>2 DEF SessionInv, TypeOK
<1>4. TurnsOK'
  <2> SUFFICES ASSUME NEW q \in Requests, conv'[q] # None PROVE TurnOK(q)'
    BY DEF TurnsOK
  <2>1. TurnOK(q) /\ Turns(q)' = Turns(q)
    BY <1>1, Sent DEF Turns
  <2>2. DOMAIN unsaved'[q] = {} /\ unsaved'[q] = <<>>
    BY <1>1
  <2>3. /\ stage'[q] \notin Before \cup {"begin_turn", "return", "save"}
        /\ stage'[q] = "replied" => In(q, Turns(q)')
    BY <1>2, <2>1 DEF TurnOK, Before, Ended
  <2> QED
    BY <2>2, <2>3 DEF TurnOK, Before
<1>5. UnsentOK' /\ LockOK'
  BY <1>1, <1>2 DEF UnsentOK, LockOK, Ended
<1>6. ASSUME NEW c \in Conversations PROVE ConversationOK(c)'
  <2>1. /\ arrivals[c] \in Seq(Requests) /\ waiting[c] \in Seq(Requests)
        /\ waiting'[c] = <<>> /\ holder'[c] = None /\ arrivals'[c] = arrivals[c]
    BY <1>1 DEF SessionInv, TypeOK
  <2>2. /\ QueueOK(c) /\ OrderOK(c) /\ SettledOK(c)
        /\ Sound(stored[c]) /\ Holds(stored[c], remembered[c])
    BY DEF SessionInv, ConversationOK
  <2>3. /\ Len(arrivals[c]) \in Nat /\ Len(waiting[c]) \in Nat
        /\ Begun(c) = Len(arrivals[c]) - Len(waiting[c])
        /\ Begun(c)' = Len(arrivals[c]) /\ Begun(c) \in Nat
    BY <2>1, <2>2 DEF Begun, QueueOK
  <2>4. QueueOK(c)'
    BY <1>1, <2>1, <2>2, <2>3 DEF QueueOK
  <2>5. \A m \in 1..Begun(c) : m \in 1..Begun(c)'
    BY <2>3
  <2>6. OrderOK(c)'
    <3>1. ASSUME NEW i \in DOMAIN remembered'[c]
          PROVE  \E m \in 1..Begun(c)' : arrivals'[c][m] = remembered'[c][i]
      BY <1>1, <2>1, <2>2, <2>5 DEF OrderOK
    <3>2. \A i, j \in DOMAIN remembered[c] : i < j =>
             \E m, n \in DOMAIN arrivals[c] :
               m < n /\ arrivals[c][m] = remembered[c][i] /\ arrivals[c][n] = remembered[c][j]
      BY <2>2 DEF OrderOK
    <3> QED
      BY <1>1, <3>1, <3>2 DEF OrderOK
  <2>7. SettledOK(c)'
    BY <1>1, <2>2 DEF SettledOK
  <2> QED
    BY <1>1, <2>2, <2>4, <2>6, <2>7 DEF ConversationOK
<1> QED
  BY <1>3, <1>4, <1>5, <1>6 DEF SessionInv

\* Every step keeps the invariant.
LEMMA SessionInvStep == SessionInv /\ [Next]_vars => SessionInv'
<1> SUFFICES ASSUME SessionInv, [Next]_vars PROVE SessionInv'
  OBVIOUS
<1>1. ASSUME NEW r \in Requests, NEW c \in Conversations, Submit(r, c) PROVE SessionInv'
  BY <1>1, SubmitKeeps
<1>2. ASSUME NEW r \in Requests, Work(r) PROVE SessionInv'
  BY <1>2, AcquireKeeps, SuperstepKeeps, CompactTurnsKeeps, CheckpointKeeps, ReturnKeeps,
     EndingKeeps DEF Work
<1>3. CASE Restart
  BY <1>3, RestartKeeps
<1>4. CASE UNCHANGED vars
  <2>1. UNCHANGED <<stored, head, waiting, holder, conv, stage, live, unsaved, settled,
                    prior, data_version, arrivals, remembered>>
    BY <1>4 DEF vars, memoryVars, lockVars, requestVars, historyVars
  <2>2. TypeOK'
    BY <2>1 DEF SessionInv, TypeOK
  <2>3. TurnsOK'
    BY <2>1, OtherTurn DEF TurnsOK, Turns
  <2>4. UnsentOK' /\ LockOK'
    BY <2>1 DEF SessionInv, UnsentOK, LockOK
  <2>5. \A c \in Conversations : ConversationOK(c)'
    BY <2>1, ConversationStays
  <2> QED
    BY <2>2, <2>3, <2>4, <2>5 DEF SessionInv
<1> QED
  BY <1>1, <1>2, <1>3, <1>4 DEF Next

-----------------------------------------------------------------------------
(* What follows from the invariant.                                        *)

\* The checkpoint shows the newest turns of the history.
LEMMA NewestFollows == SessionInv => WindowIsNewest
<1> SUFFICES ASSUME SessionInv, NEW c \in Conversations
             PROVE  LET s == stored[c]
                        older == s.total - Len(s.recent)
                    IN  /\ s.total = Len(remembered[c]) /\ older \in 0..s.summarized
                        /\ s.recent = SubSeq(remembered[c], older + 1, s.total)
  BY DEF WindowIsNewest
<1>a. stored[c] \in Channels
  BY DEF SessionInv, TypeOK
<1>b. PICK recent : recent = stored[c].recent
  OBVIOUS
<1>c. PICK turns : turns = remembered[c]
  OBVIOUS
<1>d. PICK m : m = stored[c].total - Len(stored[c].recent)
  OBVIOUS
<1>e. PICK n \in Nat : n = stored[c].total
  BY <1>a DEF Channels
<1>1. /\ recent = stored[c].recent /\ turns = remembered[c]
      /\ m = n - Len(recent) /\ n = stored[c].total
  BY <1>b, <1>c, <1>d, <1>e
<1>2. recent \in Seq(Requests) /\ turns \in Seq(Requests)
  BY <1>1 DEF SessionInv, TypeOK, Channels
<1>3. /\ n = Len(turns) /\ m \in 0..stored[c].summarized
      /\ \A i \in 1..Len(recent) : recent[i] = turns[m + i]
  BY <1>1 DEF SessionInv, ConversationOK, Holds, Older
<1>4. m \in Nat /\ n = m + Len(recent)
  <2>1. stored[c].summarized \in Nat
    BY <1>a DEF Channels
  <2>2. m \in Nat
    BY <1>3, <2>1
  <2>3. PICK k \in Nat : k = Len(recent)
    BY <1>2
  <2>4. m = n - k
    BY <1>1, <2>3
  <2>5. n = m + k
    BY <1>e, <2>2, <2>4
  <2> QED
    BY <2>2, <2>3, <2>5
<1>5. recent = SubSeq(turns, m + 1, n)
  <2>1. Len(recent) \in Nat /\ Len(turns) \in Nat
    BY <1>2
  <2>2. \A i \in (m + 1)..n : turns[i] \in Requests
    <3> SUFFICES ASSUME NEW i \in (m + 1)..n PROVE turns[i] \in Requests
      OBVIOUS
    <3>1. i \in 1..Len(turns)
      BY <1>3, <1>4
    <3> QED
      BY <1>2, <3>1
  <2>3. /\ SubSeq(turns, m + 1, n) \in Seq(Requests)
        /\ Len(SubSeq(turns, m + 1, n)) = IF m + 1 <= n THEN n - (m + 1) + 1 ELSE 0
        /\ \A i \in 1..(n - (m + 1) + 1) :
             SubSeq(turns, m + 1, n)[i] = turns[m + 1 + i - 1]
    BY <1>2, <1>4, <2>2, SubSeqProperties
  <2>4. PICK kept \in Seq(Requests) : kept = SubSeq(turns, m + 1, n)
    BY <2>3
  <2>5. Len(kept) = Len(recent) /\ n - (m + 1) + 1 = Len(recent)
    <3>1. PICK k \in Nat : k = Len(recent)
      BY <2>1
    <3>2. n = m + k
      BY <1>4, <3>1
    <3>3. n - (m + 1) + 1 = k /\ (IF m + 1 <= n THEN n - (m + 1) + 1 ELSE 0) = k
      BY <1>4, <3>2
    <3> QED
      BY <2>3, <2>4, <3>1, <3>3
  <2>6. \A i \in 1..Len(recent) : kept[i] = recent[i]
    <3> SUFFICES ASSUME NEW i \in 1..Len(recent) PROVE kept[i] = recent[i]
      OBVIOUS
    <3>1. m + 1 + i - 1 = m + i
      BY <1>4, <2>1
    <3> QED
      BY <1>3, <2>3, <2>4, <2>5, <3>1
  <2>7. kept = recent
    BY <1>2, <2>5, <2>6, SeqEqual
  <2> QED
    BY <2>4, <2>7
<1> QED
  BY <1>1, <1>3, <1>5

\* The window is below the boundary in the checkpoint and in the running turn.
LEMMA WindowFollows == SessionInv => WindowIsBounded
<1> SUFFICES ASSUME SessionInv PROVE WindowIsBounded
  OBVIOUS
<1>1. ASSUME NEW r \in Requests, live[r] # None
      PROVE  Len(live[r].recent) < ShortTermMaxTurns
  <2>1. stage[r] \in Holding
    BY <1>1 DEF SessionInv, TypeOK, Holding
  <2>2. TurnOK(r)
    BY <2>1, HolderIsAlone, Sent
  <2>3. stage[r] \in Before \cup {"return", "save"}
    BY <1>1, <2>1, <2>2 DEF TurnOK, Before, Holding, Running
  <2> QED
    BY <2>2, <2>3 DEF TurnOK, Sound
<1>2. \A c \in Conversations : Len(stored[c].recent) < ShortTermMaxTurns
  BY DEF SessionInv, ConversationOK, Sound
<1> QED
  BY <1>1, <1>2 DEF WindowIsBounded

\* No turn is in the history twice.
LEMMA RememberedOnce ==
  ASSUME SessionInv, NEW c \in Conversations, NEW i \in DOMAIN remembered[c],
         NEW j \in DOMAIN remembered[c], remembered[c][i] = remembered[c][j]
  PROVE  i = j
<1>1. remembered[c] \in Seq(Requests) /\ i \in Nat /\ j \in Nat
  BY DEF SessionInv, TypeOK
<1>2. ASSUME NEW a \in DOMAIN remembered[c], NEW b \in DOMAIN remembered[c],
             remembered[c][a] = remembered[c][b], a < b
      PROVE  FALSE
  <2>1. PICK m \in DOMAIN arrivals[c], n \in DOMAIN arrivals[c] :
           /\ m < n /\ arrivals[c][m] = remembered[c][a]
           /\ arrivals[c][n] = remembered[c][b]
    BY <1>2 DEF SessionInv, ConversationOK, OrderOK
  <2>2. m = n
    BY <1>2, <2>1 DEF SessionInv, ConversationOK, QueueOK
  <2>3. arrivals[c] \in Seq(Requests)
    BY DEF SessionInv, TypeOK
  <2>4. m \in Nat /\ n \in Nat
    BY <2>3
  <2> QED
    BY <2>1, <2>2, <2>4
<1>3. ~(i < j) /\ ~(j < i)
  BY <1>2
<1> QED
  BY <1>1, <1>3

\* The history has every turn that was replied to, each once and in order.
LEMMA HistoryFollows == SessionInv => RepliedIsRemembered /\ HistoryIsInOrder
<1> SUFFICES ASSUME SessionInv PROVE RepliedIsRemembered /\ HistoryIsInOrder
  OBVIOUS
<1>1. RepliedIsRemembered
  <2> SUFFICES ASSUME NEW r \in Requests, stage[r] = "replied"
               PROVE  \E i \in DOMAIN remembered[conv[r]] :
                        \A j \in DOMAIN remembered[conv[r]] :
                          remembered[conv[r]][j] = r <=> i = j
    BY DEF RepliedIsRemembered
  <2>1. conv[r] \in Conversations /\ TurnOK(r)
    <3>1. conv[r] # None
      BY DEF SessionInv, TypeOK
    <3> QED
      BY <3>1, Sent
  <2>2. PICK i \in DOMAIN remembered[conv[r]] : remembered[conv[r]][i] = r
    BY <2>1 DEF TurnOK, In, Turns
  <2> QED
    BY <2>1, <2>2, RememberedOnce
<1>2. HistoryIsInOrder
  BY DEF SessionInv, ConversationOK, OrderOK, HistoryIsInOrder
<1> QED
  BY <1>1, <1>2

\* The invariant holds in every behaviour; fairness is not needed for it.
LEMMA SessionInvAlways == Spec => []SessionInv
<1>1. Init => SessionInv
  BY SessionInvInit
<1>2. SessionInv /\ [Next]_vars => SessionInv'
  BY SessionInvStep
<1> QED
  BY <1>1, <1>2, PTL DEF Spec

\* Every variable of short-term memory keeps its type; in particular only the
\* holder of a conversation's lock is inside a turn of it.
THEOREM SessionTypeCorrect == Spec => []TypeOK
<1>1. SessionInv => TypeOK
  BY DEF SessionInv
<1> QED
  BY <1>1, SessionInvAlways, PTL

-----------------------------------------------------------------------------
(* What a reply leaves behind. The response is built from the live         *)
(* channels, the next turn starts from the checkpoint and GET /graph reads *)
(* the public store: a reply promises that the three agree, although the   *)
(* checkpoint is written behind the turn and the store after it.           *)

Begins == Before \cup {"return", "save"}

\* The copy s has what the running turn has, but for a summary that changed since.
Linked(r, s) ==
  /\ s.focus = live[r].focus /\ s.graph = live[r].graph /\ s.latest = live[r].latest
  /\ stage[r] \in {"return", "save"} => s = live[r]

\* The newest copy of the running turn, saved or not, is linked to it.
LinkOK(r) == stage[r] \in Begins =>
  /\ unsaved[r] = <<>> => Linked(r, stored[conv[r]])
  /\ unsaved[r] # <<>> => Linked(r, unsaved[r][Len(unsaved[r])].channels)
  /\ stage[r] \in {"compact_turns", "compact_session", "return", "save"} =>
       live[r].latest = live[r].graph
  /\ stage[r] = "agents" \/ settled[r].outcome # "success" => live[r].focus = prior[r]

\* HeadFollowsReply for one conversation.
ReplyOK(c) ==
  holder[c] = None /\ LastTurn(c) # None /\ stage[LastTurn(c)] = "replied" =>
    head[c] = stored[c].graph /\ head[c] = stored[c].latest

\* A turn releases the lock when it replies.
HolderOK(c) == holder[c] # None => stage[holder[c]] # "replied"

ReplyInv ==
  /\ \A r \in Requests : LinkOK(r)
  /\ \A c \in Conversations : ReplyOK(c) /\ HolderOK(c)

-----------------------------------------------------------------------------

\* The new server has replied to nobody.
LEMMA ReplyInvInit == Init => ReplyInv
<1> SUFFICES ASSUME Init PROVE ReplyInv
  OBVIOUS
<1>1. \A r \in Requests : LinkOK(r)
  BY DEF Init, LinkOK, Begins, Before
<1>2. \A c \in Conversations : ReplyOK(c) /\ HolderOK(c)
  BY DEF Init, ReplyOK, HolderOK, LastTurn
<1> QED
  BY <1>1, <1>2 DEF ReplyInv

\* How many turns began is how many came and do not wait.
LEMMA BegunBounds ==
  ASSUME SessionInv, NEW c \in Conversations
  PROVE  /\ Begun(c) \in Nat /\ DOMAIN arrivals[c] = 1..Len(arrivals[c])
         /\ Begun(c) # 0 => Begun(c) \in 1..Len(arrivals[c])
<1>1. arrivals[c] \in Seq(Requests) /\ waiting[c] \in Seq(Requests)
  BY DEF SessionInv, TypeOK
<1>2. Begun(c) \in Nat /\ Begun(c) = Len(arrivals[c]) - Len(waiting[c])
  BY DEF SessionInv, ConversationOK, QueueOK, Begun
<1>3. PICK a \in Nat : a = Len(arrivals[c])
  BY <1>1
<1>4. PICK w \in Nat : w = Len(waiting[c])
  BY <1>1
<1>5. PICK b \in Nat : b = Begun(c)
  BY <1>2
<1>6. b = a - w
  BY <1>2, <1>3, <1>4, <1>5
<1>7. b # 0 => b \in 1..a
  BY <1>6
<1> QED
  BY <1>1, <1>3, <1>5, <1>7

\* The last turn of a conversation is one of its requests, and the holder if
\* there is one.
LEMMA LastOfConversation ==
  ASSUME SessionInv, NEW c \in Conversations, LastTurn(c) # None
  PROVE  /\ LastTurn(c) \in Requests /\ conv[LastTurn(c)] = c
         /\ Begun(c) \in 1..Len(arrivals[c]) /\ LastTurn(c) = arrivals[c][Begun(c)]
<1>1. arrivals[c] \in Seq(Requests) /\ QueueOK(c)
  BY DEF SessionInv, TypeOK, ConversationOK
<1>2. LastTurn(c) = IF Begun(c) = 0 THEN None ELSE arrivals[c][Begun(c)]
  BY DEF LastTurn, Begun
<1>3. Begun(c) # 0 /\ LastTurn(c) = arrivals[c][Begun(c)]
  BY <1>2
<1>4. Begun(c) \in DOMAIN arrivals[c] /\ Begun(c) \in 1..Len(arrivals[c])
  BY <1>3, BegunBounds
<1>5. arrivals[c][Begun(c)] \in Requests
  BY <1>1, <1>4
<1>6. conv[arrivals[c][Begun(c)]] = c
  BY <1>1, <1>4 DEF QueueOK
<1> QED
  BY <1>3, <1>4, <1>5, <1>6

\* Who holds the lock took it last.
LEMMA HolderIsLast ==
  ASSUME SessionInv, NEW c \in Conversations, holder[c] # None
  PROVE  LastTurn(c) = holder[c] /\ conv[holder[c]] = c
<1>1. Begun(c) > 0 /\ holder[c] = arrivals[c][Begun(c)]
  BY DEF SessionInv, ConversationOK, QueueOK
<1>2. LastTurn(c) = IF Begun(c) = 0 THEN None ELSE arrivals[c][Begun(c)]
  BY DEF LastTurn, Begun
<1>3. Begun(c) # 0
  BY <1>1, BegunBounds
<1>4. LastTurn(c) = holder[c]
  BY <1>1, <1>2, <1>3
<1> QED
  BY <1>4, LastOfConversation

\* The running turn of q is linked as before when nothing of it changes.
LEMMA LinkStays ==
  ASSUME ReplyInv, NEW q \in Requests,
         stage'[q] = stage[q], live'[q] = live[q], unsaved'[q] = unsaved[q],
         settled'[q] = settled[q], prior'[q] = prior[q], conv'[q] = conv[q],
         stage[q] \in Begins => stored'[conv[q]] = stored[conv[q]]
  PROVE  LinkOK(q)'
<1>1. LinkOK(q)
  BY DEF ReplyInv
<1> QED
  BY <1>1 DEF LinkOK, Linked

\* The last reply of c stands when nothing of c changes and nobody in it replies.
LEMMA ReplyStays ==
  ASSUME SessionInv, ReplyInv, NEW c \in Conversations,
         arrivals'[c] = arrivals[c], waiting'[c] = waiting[c], holder'[c] = holder[c],
         stored'[c] = stored[c], head'[c] = head[c],
         \A q \in Requests : conv[q] = c /\ stage'[q] = "replied" => stage[q] = "replied"
  PROVE  ReplyOK(c)' /\ HolderOK(c)'
<1>1. LastTurn(c)' = LastTurn(c)
  BY DEF LastTurn
<1>2. ReplyOK(c) /\ HolderOK(c)
  BY DEF ReplyInv
<1>3. LastTurn(c) # None => LastTurn(c) \in Requests /\ conv[LastTurn(c)] = c
  BY LastOfConversation
<1>4. ReplyOK(c)'
  BY <1>1, <1>2, <1>3 DEF ReplyOK
<1>5. holder[c] # None => holder[c] \in Requests /\ conv[holder[c]] = c
  BY HolderIsLast DEF SessionInv, TypeOK
<1>6. HolderOK(c)'
  BY <1>2, <1>5 DEF HolderOK
<1> QED
  BY <1>4, <1>6

-----------------------------------------------------------------------------
(* Each kind of step keeps the invariant.                                  *)

\* Who joins the queue is not the last of the conversation.
LEMMA SubmitKeepsReply ==
  ASSUME SessionInv, ReplyInv, NEW r \in Requests, NEW c \in Conversations, Submit(r, c)
  PROVE  ReplyInv'
<1>1. /\ conv[r] = None /\ conv' = [conv EXCEPT ![r] = c]
      /\ stage' = [stage EXCEPT ![r] = "lock"]
      /\ waiting' = [waiting EXCEPT ![c] = Append(@, r)]
      /\ arrivals' = [arrivals EXCEPT ![c] = Append(@, r)]
      /\ UNCHANGED <<stored, head, holder, live, unsaved, settled, prior>>
  BY DEF Submit, GoTo, Enqueued, memoryVars
<1>2. /\ stage'[r] = "lock"
      /\ \A q \in Requests : q # r => stage'[q] = stage[q] /\ conv'[q] = conv[q]
      /\ waiting'[c] = Append(waiting[c], r) /\ arrivals'[c] = Append(arrivals[c], r)
      /\ waiting[c] \in Seq(Requests) /\ arrivals[c] \in Seq(Requests)
      /\ \A d \in Conversations : d # c => waiting'[d] = waiting[d] /\ arrivals'[d] = arrivals[d]
  BY <1>1 DEF SessionInv, TypeOK
<1>3. ASSUME NEW q \in Requests PROVE LinkOK(q)'
  <2>1. CASE q = r
    BY <1>2, <2>1 DEF LinkOK, Begins, Before
  <2>2. CASE q # r
    BY <1>1, <1>2, <2>2, LinkStays
  <2> QED
    BY <2>1, <2>2
<1>4. ReplyOK(c)' /\ HolderOK(c)'
  <2>1. ReplyOK(c) /\ HolderOK(c)
    BY DEF ReplyInv
  <2>2. Begun(c)' = Begun(c)
    <3>1. PICK a \in Nat : a = Len(arrivals[c])
      BY <1>2
    <3>2. PICK w \in Nat : w = Len(waiting[c])
      BY <1>2
    <3>3. Len(arrivals'[c]) = a + 1 /\ Len(waiting'[c]) = w + 1
      BY <1>2, <3>1, <3>2
    <3>4. (a + 1) - (w + 1) = a - w
      OBVIOUS
    <3>5. Begun(c)' = (a + 1) - (w + 1) /\ Begun(c) = a - w
      BY <3>1, <3>2, <3>3 DEF Begun
    <3> QED
      BY <3>4, <3>5
  <2>3. LastTurn(c)' = LastTurn(c)
    <3>1. LastTurn(c) = IF Begun(c) = 0 THEN None ELSE arrivals[c][Begun(c)]
      BY DEF LastTurn, Begun
    <3>2. LastTurn(c)' = IF Begun(c)' = 0 THEN None ELSE arrivals'[c][Begun(c)']
      BY DEF LastTurn, Begun
    <3>3. Begun(c) # 0 => Begun(c) \in 1..Len(arrivals[c])
      BY BegunBounds
    <3>4. \A i \in 1..Len(arrivals[c]) : arrivals'[c][i] = arrivals[c][i]
      BY <1>2
    <3> QED
      BY <2>2, <3>1, <3>2, <3>3, <3>4
  <2>4. LastTurn(c) # None => LastTurn(c) \in Requests
    BY LastOfConversation
  <2>5. holder[c] # None => holder[c] \in Requests
    BY DEF SessionInv, TypeOK
  <2>6. \A q \in Requests : stage'[q] = "replied" => stage[q] = "replied"
    BY <1>2
  <2>7. ReplyOK(c)'
    BY <1>1, <2>1, <2>3, <2>4, <2>6 DEF ReplyOK
  <2>8. HolderOK(c)'
    BY <1>1, <2>1, <2>5, <2>6 DEF HolderOK
  <2> QED
    BY <2>7, <2>8
<1>5. ASSUME NEW d \in Conversations, d # c PROVE ReplyOK(d)' /\ HolderOK(d)'
  BY <1>1, <1>2, <1>5, ReplyStays
<1> QED
  BY <1>3, <1>4, <1>5 DEF ReplyInv

\* A turn that gets the lock is not linked yet, and the last reply is the past.
LEMMA AcquireKeepsReply ==
  ASSUME SessionInv, ReplyInv, NEW r \in Requests, Acquire(r)
  PROVE  ReplyInv'
<1>c. PICK c : c = conv[r]
  OBVIOUS
<1>1. /\ stage[r] = "lock" /\ holder[c] = None
      /\ holder' = [holder EXCEPT ![c] = r]
      /\ waiting' = [waiting EXCEPT ![c] = Tail(@)]
      /\ stage' = [stage EXCEPT ![r] = "begin_turn"]
      /\ UNCHANGED <<stored, head, conv, live, unsaved, settled, prior, arrivals>>
  BY <1>c DEF Acquire, Unlocked, GoTo, memoryVars, historyVars
<1>2. c \in Conversations
  BY <1>1, <1>c, Sent DEF SessionInv, TypeOK
<1>3. /\ stage'[r] = "begin_turn" /\ holder'[c] = r
      /\ \A q \in Requests : q # r => stage'[q] = stage[q]
      /\ \A d \in Conversations : d # c => waiting'[d] = waiting[d] /\ holder'[d] = holder[d]
  BY <1>1, <1>2 DEF SessionInv, TypeOK
<1>4. ASSUME NEW q \in Requests PROVE LinkOK(q)'
  <2>1. CASE q = r
    BY <1>3, <2>1 DEF LinkOK, Begins, Before
  <2>2. CASE q # r
    BY <1>1, <1>3, <2>2, LinkStays
  <2> QED
    BY <2>1, <2>2
<1>5. ReplyOK(c)' /\ HolderOK(c)'
  BY <1>3, SessionAssumption DEF ReplyOK, HolderOK
<1>6. ASSUME NEW d \in Conversations, d # c PROVE ReplyOK(d)' /\ HolderOK(d)'
  BY <1>1, <1>3, <1>6, ReplyStays
<1> QED
  BY <1>4, <1>5, <1>6 DEF ReplyInv

\* A superstep of r copies the channels it leaves.
LEMMA StepKeepsReply ==
  ASSUME SessionInv, ReplyInv, NEW r \in Requests, NEW channels, NEW next,
         NEW copies \in Seq(Copies), StepAfter(copies, r, channels, next), conv[r] # None,
         next \in {"agents", "merge_session_graph", "compact_turns", "return"},
         \A q \in Requests : q # r => settled'[q] = settled[q] /\ prior'[q] = prior[q],
         next \in {"compact_turns", "return"} => channels.latest = channels.graph,
         next = "agents" \/ settled'[r].outcome # "success" => channels.focus = prior'[r]
  PROVE  ReplyInv'
<1> DEFINE copy == [channels |-> channels, node |-> stage[r]]
<1>1. /\ stage' = [stage EXCEPT ![r] = next] /\ live' = [live EXCEPT ![r] = channels]
      /\ unsaved' = [unsaved EXCEPT ![r] = Append(copies, copy)]
      /\ UNCHANGED <<stored, head, waiting, holder, conv, arrivals>>
  BY DEF StepAfter, GoTo, memoryVars, lockVars, historyVars
<1>2. /\ stage'[r] = next /\ live'[r] = channels /\ unsaved'[r] = Append(copies, copy)
      /\ \A q \in Requests : q # r =>
           stage'[q] = stage[q] /\ live'[q] = live[q] /\ unsaved'[q] = unsaved[q]
  BY <1>1 DEF SessionInv, TypeOK
<1>3. /\ Len(unsaved'[r]) = Len(copies) + 1 /\ unsaved'[r] # <<>>
      /\ unsaved'[r][Len(copies) + 1] = copy
  <2>1. /\ Len(Append(copies, copy)) = Len(copies) + 1
        /\ Append(copies, copy)[Len(copies) + 1] = copy
        /\ Append(copies, copy) # <<>>
    OBVIOUS
  <2> QED
    BY <1>2, <2>1
<1>4. LinkOK(r)'
  <2>1. unsaved'[r][Len(unsaved'[r])].channels = channels
    BY <1>3
  <2>2. next \notin {"save", "compact_session"}
    OBVIOUS
  <2> QED
    BY <1>2, <1>3, <2>1, <2>2 DEF LinkOK, Linked
<1>5. ASSUME NEW q \in Requests PROVE LinkOK(q)'
  <2>1. CASE q = r
    BY <1>4, <2>1
  <2>2. CASE q # r
    BY <1>1, <1>2, <2>2, LinkStays
  <2> QED
    BY <2>1, <2>2
<1>6. ASSUME NEW c \in Conversations PROVE ReplyOK(c)' /\ HolderOK(c)'
  <2>1. \A q \in Requests : stage'[q] = "replied" => stage[q] = "replied"
    BY <1>2
  <2> QED
    BY <1>1, <2>1, ReplyStays
<1> QED
  BY <1>5, <1>6 DEF ReplyInv

\* The four nodes make such supersteps.
LEMMA SuperstepKeepsReply ==
  ASSUME SessionInv, ReplyInv, NEW r \in Requests,
         BeginTurn(r) \/ Succeed(r) \/ Explain(r) \/ MergeSessionGraph(r) \/ CompactSession(r)
  PROVE  ReplyInv'
<1>1. stage[r] \in Before \cup {"begin_turn"} /\ stage[r] \in Holding
  BY DEF BeginTurn, Succeed, Explain, MergeSessionGraph, CompactSession, Before, Holding,
     Running
<1>2. conv[r] \in Conversations /\ conv[r] # None /\ TurnOK(r) /\ LinkOK(r)
  BY <1>1, HolderIsAlone, Sent DEF ReplyInv
<1>3. stage[r] \in Before => live[r] \in Channels
  BY <1>2 DEF TurnOK
<1>4. /\ settled \in [Requests -> Settlements \cup {None}]
      /\ prior \in [Requests -> (SUBSET Entities) \cup {None}]
  BY DEF SessionInv, TypeOK
<1>s. /\ unsaved[r] \in Seq(Copies)
      /\ \A channels, next : Step(r, channels, next) => StepAfter(unsaved[r], r, channels, next)
  BY <1>2, Sent DEF Step
<1>5. CASE BeginTurn(r)
  <2>c. PICK copies : copies = <<[channels |-> stored[conv[r]], node |-> "input"]>>
    OBVIOUS
  <2>1. PICK channels : /\ channels = Restored(stored[conv[r]])
                        /\ StepAfter(copies, r, channels, "agents")
                        /\ prior' = [prior EXCEPT ![r] = channels.focus]
                        /\ settled' = settled
    BY <1>5, <2>c DEF BeginTurn
  <2>s. copies \in Seq(Copies)
    <3>1. [channels |-> stored[conv[r]], node |-> "input"] \in Copies
      BY <1>2 DEF SessionInv, TypeOK, Copies
    <3> QED
      BY <2>c, <3>1
  <2>2. /\ prior'[r] = channels.focus
        /\ \A q \in Requests : q # r => prior'[q] = prior[q]
    BY <1>4, <2>1
  <2> QED
    BY <1>2, <2>1, <2>2, <2>s, StepKeepsReply
<1>6. CASE Succeed(r)
  <2>1. PICK focus, settlement :
           /\ settled' = [settled EXCEPT ![r] = settlement]
           /\ settlement.outcome = "success"
           /\ Step(r, [live[r] EXCEPT !.focus = focus], "merge_session_graph")
           /\ stage[r] = "agents" /\ prior' = prior
    BY <1>6 DEF Succeed
  <2>2. settled'[r] = settlement /\ \A q \in Requests : q # r => settled'[q] = settled[q]
    BY <1>4, <2>1
  <2> QED
    BY <1>2, <2>1, <2>2, <1>s, StepKeepsReply
<1>7. CASE Explain(r)
  <2>1. PICK settlement :
           /\ settled' = [settled EXCEPT ![r] = settlement]
           /\ Step(r, [live[r] EXCEPT !.focus = live[r].focus], "merge_session_graph")
           /\ stage[r] = "agents" /\ prior' = prior
    BY <1>7 DEF Explain, KeptFocus
  <2>2. \A q \in Requests : q # r => settled'[q] = settled[q]
    BY <1>4, <2>1
  <2>3. PICK channels : channels = [live[r] EXCEPT !.focus = live[r].focus]
    OBVIOUS
  <2>4. channels.focus = prior'[r]
    <3>1. live[r].focus = prior[r]
      BY <1>2, <2>1 DEF LinkOK, Begins, Before
    <3>2. channels.focus = live[r].focus
      BY <1>3, <2>1, <2>3 DEF Before, Channels
    <3> QED
      BY <2>1, <3>1, <3>2
  <2> QED
    BY <1>2, <2>1, <2>2, <2>3, <2>4, <1>s, StepKeepsReply
<1>8. CASE MergeSessionGraph(r)
  <2> DEFINE delta == [version |-> data_version, nodes |-> settled[r].nodes]
             merged == [version |-> data_version, nodes |-> MergedNodes(live[r].graph, delta)]
  <2>m. /\ stage[r] = "merge_session_graph" /\ prior' = prior /\ settled' = settled
        /\ Step(r, WithGraph(live[r], merged), "compact_turns")
    BY <1>8 DEF MergeSessionGraph, WithGraph
  <2> HIDE DEF merged
  <2>1. PICK channels :
           channels = WithGraph(live[r], merged) /\ Step(r, channels, "compact_turns")
    BY <2>m
  <2>2. channels.latest = channels.graph /\ channels.focus = live[r].focus
    BY <1>3, <2>m, <2>1 DEF Before, Channels, WithGraph
  <2>3. settled[r].outcome # "success" => live[r].focus = prior[r]
    BY <1>2, <2>m DEF LinkOK, Begins, Before
  <2> QED
    BY <1>2, <1>s, <2>m, <2>1, <2>2, <2>3, StepKeepsReply
<1>9. CASE CompactSession(r)
  <2>1. PICK channels :
           /\ channels = Compacted(live[r], r) /\ Step(r, channels, "return")
           /\ stage[r] = "compact_session" /\ prior' = prior /\ settled' = settled
    BY <1>9 DEF CompactSession
  <2>2. /\ channels.latest = live[r].latest /\ channels.graph = live[r].graph
        /\ channels.focus = live[r].focus
    BY <1>3, <2>1 DEF Before, Channels, Compacted
  <2>3. /\ live[r].latest = live[r].graph
        /\ settled[r].outcome # "success" => live[r].focus = prior[r]
    BY <1>2, <2>1 DEF LinkOK, Begins, Before
  <2> QED
    BY <1>2, <2>1, <2>2, <2>3, <1>s, StepKeepsReply
<1> QED
  BY <1>5, <1>6, <1>7, <1>8, <1>9

\* compact_turns changes of the newest copy and of the live channels the summary.
LEMMA CompactTurnsKeepsReply ==
  ASSUME SessionInv, ReplyInv, NEW r \in Requests, CompactTurns(r)
  PROVE  ReplyInv'
<1>n. PICK n : n = NumberToCompact(Append(live[r].recent, r))
  OBVIOUS
<1>v. PICK versions :
         versions = FocusVersions(live[r].focus, Append(live[r].recent, r), n)
  OBVIOUS
<1>1. /\ stage[r] = "compact_turns" /\ stage[r] \in Before /\ stage[r] \in Holding
      /\ n \in Nat /\ versions \in SUBSET Versions
      /\ stage'[r] = "compact_session" /\ live'[r] = Summarized(live[r], n, versions)
      /\ DOMAIN unsaved'[r] = DOMAIN unsaved[r] /\ Len(unsaved'[r]) = Len(unsaved[r])
      /\ \A q \in Requests : q # r =>
           stage'[q] = stage[q] /\ live'[q] = live[q] /\ unsaved'[q] = unsaved[q]
      /\ \A i \in DOMAIN unsaved[r] :
           unsaved'[r][i].channels =
             IF SharesSummary(unsaved[r][i].channels)
             THEN Summarized(unsaved[r][i].channels, n, versions)
             ELSE unsaved[r][i].channels
      /\ unsaved' \in [Requests -> Seq(Copies)]
      /\ UNCHANGED <<stored, head, waiting, holder, conv, settled, prior, arrivals>>
  BY <1>n, <1>v, CompactTurnsLeaves
<1>2. /\ unsaved[r] \in Seq(Copies) /\ LinkOK(r) /\ TurnOK(r) /\ live[r] \in Channels
  BY <1>1, HolderIsAlone, Sent DEF ReplyInv, TurnOK
<1>3. \A s \in Channels : /\ Summarized(s, n, versions).focus = s.focus
                          /\ Summarized(s, n, versions).graph = s.graph
                          /\ Summarized(s, n, versions).latest = s.latest
  BY DEF Summarized, Channels
<1>4. ASSUME NEW s \in Channels, Linked(r, s), stage[r] = "compact_turns"
      PROVE  /\ s.focus = live'[r].focus /\ s.graph = live'[r].graph
             /\ s.latest = live'[r].latest
  BY <1>1, <1>2, <1>3, <1>4 DEF Linked
<1>5. LinkOK(r)'
  <2>1. unsaved[r] = <<>> => Linked(r, stored[conv[r]])
    BY <1>1, <1>2 DEF LinkOK, Begins
  <2>2. unsaved[r] # <<>> => Linked(r, unsaved[r][Len(unsaved[r])].channels)
    BY <1>1, <1>2 DEF LinkOK, Begins
  <2>3. unsaved'[r] = <<>> <=> unsaved[r] = <<>>
    <3>1. /\ unsaved'[r] \in Seq(Copies)
          /\ Len(unsaved'[r]) = 0 <=> Len(unsaved[r]) = 0
      BY <1>1
    <3> QED
      BY <1>2, <3>1, EmptySeq
  <2>4. CASE unsaved[r] = <<>>
    <3>1. stored[conv[r]] \in Channels
      BY <1>1, HolderIsAlone, Sent DEF SessionInv, TypeOK
    <3>2. Linked(r, stored[conv[r]])'
      BY <1>1, <1>4, <2>1, <2>4, <3>1 DEF Linked
    <3>3. (live[r].latest = live[r].graph)' /\ (stage[r] \in Begins)
      BY <1>1, <1>2, <1>3 DEF LinkOK, Begins
    <3>4. settled[r].outcome # "success" => live'[r].focus = prior[r]
      BY <1>1, <1>2, <1>3 DEF LinkOK, Begins
    <3> QED
      BY <1>1, <2>3, <2>4, <3>2, <3>3, <3>4 DEF LinkOK
  <2>5. CASE unsaved[r] # <<>>
    <3>1. PICK k \in DOMAIN unsaved[r] : k = Len(unsaved[r])
      BY <1>2, <2>5, EmptySeq
    <3>2. unsaved[r][k] \in Copies
      BY <1>2, <3>1
    <3>3. PICK s \in Channels : s = unsaved[r][k].channels
      BY <3>2 DEF Copies
    <3>4. PICK t : t = unsaved'[r][k].channels
      OBVIOUS
    <3>5. t.focus = s.focus /\ t.graph = s.graph /\ t.latest = s.latest
      BY <1>1, <1>3, <3>1, <3>3, <3>4
    <3>6. Linked(r, t)'
      BY <1>1, <1>4, <2>2, <2>5, <3>1, <3>3, <3>5 DEF Linked
    <3>7. (live[r].latest = live[r].graph)'
      BY <1>1, <1>2, <1>3 DEF LinkOK, Begins
    <3>8. settled[r].outcome # "success" => live'[r].focus = prior[r]
      BY <1>1, <1>2, <1>3 DEF LinkOK, Begins
    <3> QED
      BY <1>1, <2>3, <2>5, <3>1, <3>4, <3>6, <3>7, <3>8 DEF LinkOK, Linked
  <2> QED
    BY <2>4, <2>5
<1>6. ASSUME NEW q \in Requests PROVE LinkOK(q)'
  <2>1. CASE q = r
    BY <1>5, <2>1
  <2>2. CASE q # r
    BY <1>1, <2>2, LinkStays
  <2> QED
    BY <2>1, <2>2
<1>7. ASSUME NEW c \in Conversations PROVE ReplyOK(c)' /\ HolderOK(c)'
  <2>1. \A q \in Requests : stage'[q] = "replied" => stage[q] = "replied"
    BY <1>1
  <2> QED
    BY <1>1, <2>1, ReplyStays
<1> QED
  BY <1>6, <1>7 DEF ReplyInv

\* Saving the oldest copy leaves the newest where it is, or makes it the checkpoint.
LEMMA CheckpointKeepsReply ==
  ASSUME SessionInv, ReplyInv, NEW r \in Requests, Checkpoint(r)
  PROVE  ReplyInv'
<1>1. /\ unsaved[r] # <<>> /\ Saved(r, 1) /\ unsaved' = [unsaved EXCEPT ![r] = Tail(@)]
      /\ UNCHANGED <<head, waiting, holder, conv, stage, live, settled, prior, arrivals>>
  BY DEF Checkpoint, lockVars
<1>2. conv[r] # None
  BY <1>1 DEF SessionInv, UnsentOK
<1>3. stage[r] \in Holding /\ unsaved[r] \in Seq(Copies) /\ LinkOK(r)
  BY <1>1, <1>2, Sent DEF TurnOK, Holding, ReplyInv
<1>4. conv[r] \in Conversations /\ holder[conv[r]] = r
  BY <1>2, <1>3, HolderIsAlone, Sent
<1>5. /\ stored'[conv[r]] = unsaved[r][1].channels
      /\ \A d \in Conversations : d # conv[r] => stored'[d] = stored[d]
  BY <1>1, <1>4 DEF Saved, SessionInv, TypeOK
<1>6. /\ unsaved'[r] = Tail(unsaved[r])
      /\ \A q \in Requests : q # r => unsaved'[q] = unsaved[q]
  BY <1>1 DEF SessionInv, TypeOK
<1>7. LinkOK(r)'
  <2>1. PICK n \in Nat : n = Len(unsaved[r])
    BY <1>3
  <2>2. PICK copies : copies = unsaved[r]
    OBVIOUS
  <2>3. copies \in Seq(Copies) /\ copies # <<>> /\ n = Len(copies)
    BY <1>1, <1>3, <2>1, <2>2
  <2>4. n # 0
    BY <2>3, EmptySeq
  <2>5. CASE n = 1
    <3>1. Tail(copies) \in Seq(Copies) /\ Len(Tail(copies)) = 0
      <4>1. Tail(copies) \in Seq(Copies) /\ Len(Tail(copies)) = Len(copies) - 1
        BY <2>3
      <4>2. Len(copies) = 1
        BY <2>3, <2>5
      <4> QED
        BY <4>1, <4>2
    <3>2. Tail(copies) = <<>>
      BY <3>1, EmptySeq
    <3>3. unsaved'[r] = <<>>
      BY <1>6, <2>2, <3>2
    <3>4. stage[r] \in Begins => Linked(r, stored'[conv[r]])
      BY <1>1, <1>3, <1>5, <2>1, <2>5 DEF LinkOK
    <3> QED
      BY <1>1, <1>3, <3>3, <3>4 DEF LinkOK, Linked
  <2>6. CASE n # 1
    <3>1. n - 1 \in 1..(n - 1) /\ (n - 1) + 1 = n /\ n - 1 # 0
      BY <2>4, <2>6
    <3>2. /\ Len(Tail(copies)) = n - 1
          /\ \A i \in 1..(n - 1) : Tail(copies)[i] = copies[i + 1]
      BY <2>3
    <3>3. Tail(copies) # <<>>
      BY <3>1, <3>2, EmptySeq
    <3>4. Tail(copies)[Len(Tail(copies))] = copies[n]
      BY <3>1, <3>2
    <3>5. /\ unsaved'[r] # <<>>
          /\ unsaved'[r][Len(unsaved'[r])] = unsaved[r][Len(unsaved[r])]
      BY <1>6, <2>1, <2>2, <3>3, <3>4
    <3> QED
      BY <1>1, <1>3, <3>5 DEF LinkOK, Linked
  <2> QED
    BY <2>5, <2>6
<1>8. ASSUME NEW q \in Requests PROVE LinkOK(q)'
  <2>1. CASE q = r
    BY <1>7, <2>1
  <2>2. CASE q # r
    <3>1. stage[q] \in Begins => conv[q] \in Conversations /\ conv[q] # conv[r]
      <4>1. stage[q] \in Begins => stage[q] \in Holding
        BY DEF Begins, Before, Holding, Running
      <4> QED
        BY <1>3, <2>2, <4>1, HolderIsAlone, Sent
    <3> QED
      BY <1>1, <1>5, <1>6, <2>2, <3>1, LinkStays
  <2> QED
    BY <2>1, <2>2
<1>9. ASSUME NEW c \in Conversations PROVE ReplyOK(c)' /\ HolderOK(c)'
  <2>1. CASE c = conv[r]
    <3>1. holder'[c] = r /\ holder'[c] # None /\ stage'[r] # "replied"
      BY <1>1, <1>3, <1>4, <2>1, SessionAssumption DEF Holding, Running
    <3> QED
      BY <3>1 DEF ReplyOK, HolderOK
  <2>2. CASE c # conv[r]
    BY <1>1, <1>5, <2>2, ReplyStays
  <2> QED
    BY <2>1, <2>2
<1> QED
  BY <1>8, <1>9 DEF ReplyInv

\* ainvoke returns the channels of the checkpoint.
LEMMA ReturnKeepsReply ==
  ASSUME SessionInv, ReplyInv, NEW r \in Requests, Return(r)
  PROVE  ReplyInv'
<1>1. /\ stage[r] = "return" /\ stage' = [stage EXCEPT ![r] = "save"]
      /\ UNCHANGED <<stored, head, waiting, holder, conv, live, unsaved, settled, prior,
                     arrivals>>
  BY DEF Return, GoTo, memoryVars, lockVars, historyVars
<1>2. stage'[r] = "save" /\ \A q \in Requests : q # r => stage'[q] = stage[q]
  BY <1>1 DEF SessionInv, TypeOK
<1>3. ASSUME NEW q \in Requests PROVE LinkOK(q)'
  <2>1. CASE q = r
    <3>1. LinkOK(r)
      BY DEF ReplyInv
    <3> QED
      BY <1>1, <1>2, <2>1, <3>1 DEF LinkOK, Linked, Begins
  <2>2. CASE q # r
    BY <1>1, <1>2, <2>2, LinkStays
  <2> QED
    BY <2>1, <2>2
<1>4. ASSUME NEW c \in Conversations PROVE ReplyOK(c)' /\ HolderOK(c)'
  <2>1. \A q \in Requests : stage'[q] = "replied" => stage[q] = "replied"
    BY <1>2
  <2> QED
    BY <1>1, <2>1, ReplyStays
<1> QED
  BY <1>3, <1>4 DEF ReplyInv

\* The turn that ends is the last of its conversation; its reply is the graph of
\* the checkpoint, which was saved before.
LEMMA EndingKeepsReply ==
  ASSUME SessionInv, ReplyInv, NEW r \in Requests,
         Abort(r) \/ SaveGraph(r) \/ SaveGraphFails(r)
  PROVE  ReplyInv'
<1>c. PICK c : c = conv[r]
  OBVIOUS
<1>1. stage[r] \in Holding
  BY DEF Abort, SaveGraph, SaveGraphFails, Holding
<1>2. /\ c \in Conversations /\ holder[c] = r /\ conv[r] # None /\ TurnOK(r) /\ LinkOK(r)
  BY <1>c, <1>1, HolderIsAlone, Sent DEF ReplyInv
<1>3. PICK how \in {"replied", "error"} :
         End(r, how) /\ (how = "replied" => SaveGraph(r))
         /\ UNCHANGED <<waiting, conv, settled, prior, arrivals>>
  BY DEF Abort, SaveGraph, SaveGraphFails, historyVars
<1>4. \A d \in Conversations : d # c => stored'[d] = stored[d] /\ head'[d] = head[d]
  <2>1. /\ stored \in [Conversations -> Channels]
        /\ head \in [Conversations -> Graphs \cup {None}]
    BY DEF SessionInv, TypeOK
  <2>2. CASE Abort(r)
    BY <1>c, <2>1, <2>2 DEF Abort, Saved
  <2>3. CASE SaveGraph(r) \/ SaveGraphFails(r)
    BY <1>c, <2>1, <2>3 DEF SaveGraph, SaveGraphFails
  <2> QED
    BY <2>2, <2>3
<1>5. /\ stage'[r] = how /\ holder'[c] = None
      /\ \A q \in Requests : q # r =>
           stage'[q] = stage[q] /\ live'[q] = live[q] /\ unsaved'[q] = unsaved[q]
      /\ \A d \in Conversations : d # c => holder'[d] = holder[d]
  BY <1>c, <1>2, <1>3 DEF End, GoTo, SessionInv, TypeOK
<1>6. ASSUME NEW q \in Requests PROVE LinkOK(q)'
  <2>1. CASE q = r
    BY <1>5, <2>1 DEF LinkOK, Begins, Before
  <2>2. CASE q # r
    <3>1. stage[q] \in Begins => conv[q] \in Conversations /\ conv[q] # c
      <4>1. stage[q] \in Begins => stage[q] \in Holding
        BY DEF Begins, Before, Holding, Running
      <4> QED
        BY <1>c, <1>1, <2>2, <4>1, HolderIsAlone, Sent
    <3> QED
      BY <1>3, <1>4, <1>5, <2>2, <3>1, LinkStays
  <2> QED
    BY <2>1, <2>2
<1>7. ReplyOK(c)' /\ HolderOK(c)'
  <2>1. LastTurn(c)' = r
    <3>1. LastTurn(c) = r
      BY <1>2, HolderIsLast, SessionAssumption
    <3> QED
      BY <1>3, <3>1 DEF LastTurn
  <2>2. how = "replied" => head'[c] = stored'[c].graph /\ head'[c] = stored'[c].latest
    <3> SUFFICES ASSUME SaveGraph(r)
                 PROVE  head'[c] = stored'[c].graph /\ head'[c] = stored'[c].latest
      BY <1>3
    <3>1. /\ stage[r] = "save" /\ head' = [head EXCEPT ![c] = live[r].graph]
          /\ stored' = stored
      BY <1>c DEF SaveGraph, PublicGraph
    <3>2. head'[c] = live[r].graph
      BY <1>2, <3>1 DEF SessionInv, TypeOK
    <3>3. unsaved[r] = <<>>
      BY <1>2, <3>1 DEF TurnOK
    <3>4. stored[c] = live[r] /\ live[r].latest = live[r].graph
      BY <1>c, <1>2, <3>1, <3>3 DEF LinkOK, Linked, Begins
    <3> QED
      BY <3>1, <3>2, <3>4
  <2> QED
    BY <1>5, <2>1, <2>2 DEF ReplyOK, HolderOK
<1>8. ASSUME NEW d \in Conversations, d # c PROVE ReplyOK(d)' /\ HolderOK(d)'
  <2>1. \A q \in Requests : conv[q] = d /\ stage'[q] = "replied" => stage[q] = "replied"
    BY <1>c, <1>5, <1>8
  <2> QED
    BY <1>3, <1>4, <1>5, <1>8, <2>1, ReplyStays
<1> QED
  BY <1>6, <1>7, <1>8 DEF ReplyInv

\* Nobody in the queue was replied to; so after a restart the last turn is lost
\* or the one that was last before.
LEMMA RestartKeepsReply ==
  ASSUME SessionInv, ReplyInv, Restart
  PROVE  ReplyInv'
<1>1. /\ stage' = [r \in Requests |->
           IF stage[r] \in {"new"} \cup Ended THEN stage[r] ELSE "lost"]
      /\ waiting' = [c \in Conversations |-> <<>>]
      /\ holder' = [c \in Conversations |-> None]
      /\ UNCHANGED <<stored, head, arrivals>>
  BY DEF Restart, memoryVars, historyVars
<1>2. \A r \in Requests : /\ stage'[r] \notin Begins
                          /\ stage'[r] = "replied" => stage[r] = "replied"
  BY <1>1 DEF Begins, Before, Ended
<1>3. \A r \in Requests : LinkOK(r)'
  BY <1>2 DEF LinkOK
<1>4. ASSUME NEW c \in Conversations PROVE ReplyOK(c)' /\ HolderOK(c)'
  <2>1. /\ holder'[c] = None /\ arrivals'[c] = arrivals[c] /\ stored'[c] = stored[c]
        /\ head'[c] = head[c] /\ waiting'[c] = <<>> /\ arrivals[c] \in Seq(Requests)
        /\ waiting[c] \in Seq(Requests)
    BY <1>1 DEF SessionInv, TypeOK
  <2>2. Begun(c)' = Len(arrivals[c]) /\ Len(arrivals[c]) \in Nat
    BY <2>1 DEF Begun
  <2>3. LastTurn(c)' = IF Begun(c)' = 0 THEN None ELSE arrivals'[c][Begun(c)']
    BY DEF LastTurn, Begun
  <2>4. ReplyOK(c)'
    <3> SUFFICES ASSUME LastTurn(c)' # None, stage'[LastTurn(c)'] = "replied"
                 PROVE  head[c] = stored[c].graph /\ head[c] = stored[c].latest
      BY <2>1 DEF ReplyOK
    <3>1. PICK n \in Nat : n = Len(arrivals[c])
      BY <2>2
    <3>2. n \in DOMAIN arrivals[c] /\ LastTurn(c)' = arrivals[c][n]
      BY <2>1, <2>2, <2>3, <3>1
    <3>3. PICK r \in Requests : r = arrivals[c][n]
      BY <2>1, <3>2
    <3>4. stage[r] = "replied" /\ conv[r] = c
      BY <1>2, <3>2, <3>3 DEF SessionInv, ConversationOK, QueueOK
    <3>5. PICK m \in 1..Begun(c) : arrivals[c][m] = r
      <4>1. PICK i \in DOMAIN remembered[c] : remembered[c][i] = r
        BY <3>4, Sent, SessionAssumption DEF TurnOK, Turns, In
      <4> QED
        BY <4>1 DEF SessionInv, ConversationOK, OrderOK
    <3>6. Begun(c) # 0 /\ Begun(c) \in 1..n /\ m \in DOMAIN arrivals[c]
      <4>1. PICK b \in Nat : b = Begun(c)
        BY BegunBounds
      <4>2. m \in 1..b /\ b # 0
        BY <3>5, <4>1
      <4>3. b \in 1..n /\ DOMAIN arrivals[c] = 1..n
        BY <3>1, <4>1, <4>2, BegunBounds
      <4> QED
        BY <4>1, <4>2, <4>3
    <3>7. m = n
      BY <3>2, <3>3, <3>5, <3>6 DEF SessionInv, ConversationOK, QueueOK
    <3>8. Begun(c) = n
      BY <3>5, <3>6, <3>7
    <3>9. LastTurn(c) = r
      BY <3>3, <3>6, <3>8 DEF LastTurn, Begun
    <3>10. holder[c] = None
      BY <3>4, <3>9, HolderIsLast DEF ReplyInv, HolderOK
    <3> QED
      BY <3>4, <3>9, <3>10, SessionAssumption DEF ReplyInv, ReplyOK
  <2>5. HolderOK(c)'
    BY <2>1 DEF HolderOK
  <2> QED
    BY <2>4, <2>5
<1> QED
  BY <1>3, <1>4 DEF ReplyInv

\* Every step keeps the invariant.
LEMMA ReplyInvStep == SessionInv /\ ReplyInv /\ [Next]_vars => ReplyInv'
<1> SUFFICES ASSUME SessionInv, ReplyInv, [Next]_vars PROVE ReplyInv'
  OBVIOUS
<1>1. ASSUME NEW r \in Requests, NEW c \in Conversations, Submit(r, c) PROVE ReplyInv'
  BY <1>1, SubmitKeepsReply
<1>2. ASSUME NEW r \in Requests, Work(r) PROVE ReplyInv'
  BY <1>2, AcquireKeepsReply, SuperstepKeepsReply, CompactTurnsKeepsReply,
     CheckpointKeepsReply, ReturnKeepsReply, EndingKeepsReply DEF Work
<1>3. CASE Restart
  BY <1>3, RestartKeepsReply
<1>4. CASE UNCHANGED vars
  <2>1. UNCHANGED <<stored, head, waiting, holder, conv, stage, live, unsaved, settled,
                    prior, arrivals>>
    BY <1>4 DEF vars, memoryVars, lockVars, requestVars, historyVars
  <2>2. \A r \in Requests : LinkOK(r)'
    BY <2>1, LinkStays
  <2>3. \A c \in Conversations : ReplyOK(c)' /\ HolderOK(c)'
    BY <2>1, ReplyStays
  <2> QED
    BY <2>2, <2>3 DEF ReplyInv
<1> QED
  BY <1>1, <1>2, <1>3, <1>4 DEF Next

\* The invariant holds in every behaviour.
LEMMA ReplyInvAlways == Spec => [](SessionInv /\ ReplyInv)
<1>1. Init => ReplyInv
  BY ReplyInvInit
<1>2. SessionInv /\ ReplyInv /\ [Next]_vars => ReplyInv'
  BY ReplyInvStep
<1> QED
  BY <1>1, <1>2, SessionInvAlways, PTL DEF Spec

-----------------------------------------------------------------------------
(* What a reply promises.                                                  *)

\* For any number of requests: once the last turn of a conversation was replied
\* to, GET /graph shows the graph the next turn will start from.
THEOREM ReplyIsPublic == Spec => []HeadFollowsReply
<1>1. ReplyInv => HeadFollowsReply
  BY DEF ReplyInv, ReplyOK, HeadFollowsReply
<1> QED
  BY <1>1, ReplyInvAlways, PTL

\* A reply that is not a success is one step: the checkpoint it leaves is the
\* turn's live channels, whose focus is the one the turn began with.
LEMMA ExplainedReply ==
  SessionInv /\ ReplyInv /\ [Next]_vars =>
    \A r \in Requests :
      EndsWithout(r) /\ stage'[r] = "replied" => stored'[conv[r]].focus = prior[r]
<1> SUFFICES ASSUME SessionInv, ReplyInv, [Next]_vars, NEW r \in Requests,
                    EndsWithout(r), stage'[r] = "replied"
             PROVE  stored'[conv[r]].focus = prior[r]
  OBVIOUS
<1>1. stage[r] # "replied" /\ settled[r].outcome # "success"
  BY DEF EndsWithout, Ended
<1>2. stage \in [Requests -> Stages]
  BY DEF SessionInv, TypeOK
<1>3. SaveGraph(r)
  <2>1. ASSUME NEW q \in Requests, NEW c \in Conversations, Submit(q, c) PROVE FALSE
    BY <1>1, <1>2, <2>1 DEF Submit, GoTo
  <2>2. ASSUME NEW q \in Requests, Work(q) PROVE SaveGraph(r)
    <3>1. CASE Acquire(q) \/ Return(q) \/ Checkpoint(q)
      BY <1>1, <1>2, <3>1 DEF Acquire, Return, Checkpoint, GoTo
    <3>2. CASE BeginTurn(q) \/ Succeed(q) \/ Explain(q) \/ MergeSessionGraph(q)
               \/ CompactTurns(q) \/ CompactSession(q)
      BY <1>1, <1>2, <3>2
      DEF BeginTurn, Succeed, Explain, MergeSessionGraph, CompactTurns, CompactSession,
          Step, StepAfter, GoTo
    <3>3. CASE Abort(q) \/ SaveGraphFails(q)
      BY <1>1, <1>2, <3>3 DEF Abort, SaveGraphFails, End, GoTo
    <3>4. CASE SaveGraph(q)
      BY <1>1, <1>2, <3>4 DEF SaveGraph, End, GoTo
    <3> QED
      BY <2>2, <3>1, <3>2, <3>3, <3>4 DEF Work
  <2>3. ASSUME Restart PROVE FALSE
    BY <1>1, <2>3 DEF Restart, Ended
  <2>4. ASSUME UNCHANGED vars PROVE FALSE
    BY <1>1, <2>4 DEF vars, requestVars
  <2> QED
    BY <2>1, <2>2, <2>3, <2>4 DEF Next
<1>4. stage[r] = "save" /\ stored' = stored
  BY <1>3 DEF SaveGraph
<1>5. unsaved[r] = <<>> /\ LinkOK(r)
  <2>1. stage[r] \in Holding
    BY <1>4 DEF Holding
  <2>2. TurnOK(r)
    BY <2>1, HolderIsAlone, Sent
  <2> QED
    BY <1>4, <2>2 DEF TurnOK, ReplyInv
<1>6. stored[conv[r]] = live[r] /\ live[r].focus = prior[r]
  BY <1>1, <1>4, <1>5 DEF LinkOK, Linked, Begins
<1> QED
  BY <1>4, <1>6

\* For any number of requests: a turn that is answered with a clarification or a
\* failure leaves the focus its conversation had before.
THEOREM ExplanationKeepsFocus == Spec => ExplainedTurnKeepsFocus
<1>1. SessionInv /\ ReplyInv /\ [Next]_vars =>
        [\A r \in Requests :
           EndsWithout(r) /\ stage'[r] = "replied" => stored'[conv[r]].focus = prior[r]]_vars
  BY ExplainedReply
<1> QED
  BY <1>1, ReplyInvAlways, PTL DEF Spec, ExplainedTurnKeepsFocus

-----------------------------------------------------------------------------
(* The focus and the counts. The agents set the focus before its graph is  *)
(* merged, and compact_turns counts turns before they leave the window: a  *)
(* turn cut off in between leaves one without the other, so the invariant  *)
(* holds for conversations in which no turn was.                           *)

Grounded(s) == s.focus \subseteq IF s.graph = None THEN {} ELSE s.graph.nodes

\* The summary counts the turns that left the window, and no other.
Exact(s) == s.summarized + Len(s.recent) = s.total

\* The summary counts those too that r is about to cut off.
CountsAhead(r) ==
  live[r].summarized + Len(live[r].recent)
    = live[r].total + NumberToCompact(Append(live[r].recent, r))

\* The focus of the running turn is in its graph, or is about to be merged.
RunningOK(r) ==
  stage[r] \in Begins /\ Unharmed(conv[r]) =>
    /\ \/ Grounded(live[r])
       \/ stage[r] = "merge_session_graph" /\ live[r].focus \subseteq settled[r].nodes
    /\ IF stage[r] = "compact_session" THEN CountsAhead(r) ELSE Exact(live[r])

\* So are the focus and the counts a turn starts from.
IdleOK(c) ==
  Unharmed(c) /\ (holder[c] = None \/ stage[holder[c]] = "begin_turn")
    => Grounded(stored[c]) /\ Exact(stored[c])

IntactInv ==
  /\ \A r \in Requests : RunningOK(r)
  /\ \A c \in Conversations : IdleOK(c)

\* The new server refers to nothing and counts nothing.
LEMMA IntactInvInit == Init => IntactInv
<1>1. Grounded(FirstChannels) /\ Exact(FirstChannels)
  BY DEF Grounded, Exact, FirstChannels
<1> QED
  BY <1>1 DEF Init, IntactInv, RunningOK, IdleOK, Begins, Before, Grounded, Exact

\* A turn that was cut off stays so: what is unharmed after a step was before.
LEMMA UnharmedBefore ==
  ASSUME SessionInv, [Next]_vars, NEW c \in Conversations, Unharmed(c)'
  PROVE  Unharmed(c)
<1>1. /\ stage \in [Requests -> Stages]
      /\ \A q \in Requests : conv[q] = None <=> stage[q] = "new"
      /\ arrivals \in [Conversations -> Seq(Requests)]
  BY DEF SessionInv, TypeOK
<1>2. ASSUME NEW r \in Requests, stage[r] \in {"error", "lost"}
      PROVE  stage'[r] \in {"error", "lost"}
  <2>1. ASSUME NEW q \in Requests, NEW d \in Conversations, Submit(q, d)
        PROVE  stage'[r] \in {"error", "lost"}
    BY <1>1, <1>2, <2>1 DEF Submit, GoTo
  <2>2. ASSUME NEW q \in Requests, Work(q) PROVE stage'[r] \in {"error", "lost"}
    <3>1. CASE Acquire(q) \/ Return(q) \/ Checkpoint(q)
      BY <1>1, <1>2, <3>1 DEF Acquire, Return, Checkpoint, GoTo
    <3>2. CASE BeginTurn(q) \/ Succeed(q) \/ Explain(q) \/ MergeSessionGraph(q)
               \/ CompactTurns(q) \/ CompactSession(q)
      BY <1>1, <1>2, <3>2
      DEF BeginTurn, Succeed, Explain, MergeSessionGraph, CompactTurns, CompactSession,
          Step, StepAfter, GoTo
    <3>3. CASE Abort(q) \/ SaveGraph(q) \/ SaveGraphFails(q)
      BY <1>1, <1>2, <3>3 DEF Abort, SaveGraph, SaveGraphFails, End, GoTo, Running
    <3> QED
      BY <2>2, <3>1, <3>2, <3>3 DEF Work
  <2>3. CASE Restart
    BY <1>2, <2>3 DEF Restart, Ended
  <2>4. CASE UNCHANGED vars
    BY <1>2, <2>4 DEF vars, requestVars
  <2> QED
    BY <2>1, <2>2, <2>3, <2>4 DEF Next
<1>3. arrivals'[c] = arrivals[c] \/ \E q \in Requests : arrivals'[c] = Append(arrivals[c], q)
  <2>1. ASSUME NEW q \in Requests, NEW d \in Conversations, Submit(q, d)
        PROVE  arrivals'[c] = arrivals[c] \/ arrivals'[c] = Append(arrivals[c], q)
    BY <1>1, <2>1 DEF Submit
  <2>2. ASSUME NEW q \in Requests, Work(q) PROVE arrivals' = arrivals
    BY <2>2 DEF Work, Acquire, BeginTurn, Succeed, Explain, MergeSessionGraph, CompactTurns,
       CompactSession, Checkpoint, Return, Abort, SaveGraph, SaveGraphFails, Step, StepAfter,
       historyVars
  <2>3. Restart \/ UNCHANGED vars => arrivals' = arrivals
    BY DEF Restart, vars, historyVars
  <2> QED
    BY <2>1, <2>2, <2>3 DEF Next
<1>4. \A r \in Elements(arrivals[c]) : r \in Requests /\ r \in Elements(arrivals'[c])
  <2> SUFFICES ASSUME NEW i \in DOMAIN arrivals[c]
               PROVE  /\ arrivals[c][i] \in Requests
                      /\ arrivals[c][i] \in Elements(arrivals'[c])
    BY DEF Elements
  <2>1. arrivals[c] \in Seq(Requests)
    BY <1>1
  <2>2. i \in DOMAIN arrivals'[c] /\ arrivals'[c][i] = arrivals[c][i]
    <3>1. CASE arrivals'[c] = arrivals[c]
      BY <3>1
    <3>2. ASSUME NEW q \in Requests, arrivals'[c] = Append(arrivals[c], q)
          PROVE  i \in DOMAIN arrivals'[c] /\ arrivals'[c][i] = arrivals[c][i]
      BY <2>1, <3>2
    <3> QED
      BY <1>3, <3>1, <3>2
  <2> QED
    BY <2>1, <2>2 DEF Elements
<1> QED
  BY <1>2, <1>4 DEF Unharmed

\* Nothing of the running turn of q changes.
LEMMA RunningStays ==
  ASSUME SessionInv, IntactInv, [Next]_vars, NEW q \in Requests,
         stage[q] \in Begins => conv[q] \in Conversations,
         stage'[q] = stage[q], live'[q] = live[q], settled'[q] = settled[q],
         conv'[q] = conv[q]
  PROVE  RunningOK(q)'
<1> SUFFICES ASSUME stage[q] \in Begins, Unharmed(conv[q])'
             PROVE  /\ \/ Grounded(live[q])
                       \/ /\ stage[q] = "merge_session_graph"
                          /\ live[q].focus \subseteq settled[q].nodes
                    /\ IF stage[q] = "compact_session" THEN CountsAhead(q) ELSE Exact(live[q])
  BY DEF RunningOK, Grounded, CountsAhead, Exact
<1>1. Unharmed(conv[q])
  <2>1. PICK c \in Conversations : c = conv[q]
    OBVIOUS
  <2>2. Unharmed(c)'
    BY <2>1 DEF Unharmed
  <2> QED
    BY <2>1, <2>2, UnharmedBefore
<1> QED
  BY <1>1 DEF IntactInv, RunningOK

\* The checkpoint and the lock of c do not change and no turn begins.
LEMMA IdleStays ==
  ASSUME SessionInv, IntactInv, [Next]_vars, NEW c \in Conversations,
         stored'[c] = stored[c], holder'[c] = holder[c],
         \A q \in Requests : stage'[q] = "begin_turn" => stage[q] = "begin_turn"
  PROVE  IdleOK(c)'
<1>1. Unharmed(c)' => Unharmed(c)
  BY UnharmedBefore
<1>2. holder[c] # None => holder[c] \in Requests
  BY DEF SessionInv, TypeOK
<1>3. IdleOK(c)
  BY DEF IntactInv
<1> QED
  BY <1>1, <1>2, <1>3 DEF IdleOK, Grounded, Exact

\* A running turn has a conversation.
LEMMA BeginsIsHolding ==
  ASSUME SessionInv, NEW q \in Requests, stage[q] \in Begins
  PROVE  stage[q] \in Holding /\ conv[q] \in Conversations
<1>1. stage[q] \in Holding
  BY DEF Begins, Before, Holding, Running
<1> QED
  BY <1>1, HolderIsAlone, Sent

\* A superstep of r keeps focus and counts if the channels it leaves have them.
LEMMA StepKeepsIntact ==
  ASSUME SessionInv, IntactInv, [Next]_vars, NEW r \in Requests, NEW channels, NEW next,
         NEW copies, StepAfter(copies, r, channels, next), conv[r] \in Conversations,
         next \in {"agents", "merge_session_graph", "compact_turns", "return"},
         \A q \in Requests : q # r => settled'[q] = settled[q],
         Unharmed(conv[r]) =>
           \/ Grounded(channels)
           \/ next = "merge_session_graph" /\ channels.focus \subseteq settled'[r].nodes,
         Unharmed(conv[r]) => Exact(channels)
  PROVE  IntactInv'
<1>1. /\ stage' = [stage EXCEPT ![r] = next] /\ live' = [live EXCEPT ![r] = channels]
      /\ UNCHANGED <<stored, holder, conv>>
  BY DEF StepAfter, GoTo, memoryVars, lockVars
<1>2. /\ stage'[r] = next /\ live'[r] = channels
      /\ \A q \in Requests : q # r => stage'[q] = stage[q] /\ live'[q] = live[q]
  BY <1>1 DEF SessionInv, TypeOK
<1>3. ASSUME NEW q \in Requests PROVE RunningOK(q)'
  <2>1. CASE q = r
    <3>1. PICK c \in Conversations : c = conv[r]
      OBVIOUS
    <3>2. Unharmed(conv[r])' => Unharmed(conv[r])
      <4>1. Unharmed(conv[r])' => Unharmed(c)'
        BY <1>1, <3>1 DEF Unharmed
      <4> QED
        BY <3>1, <4>1, UnharmedBefore
    <3> QED
      BY <1>1, <1>2, <2>1, <3>2 DEF RunningOK, Grounded, Exact
  <2>2. CASE q # r
    BY <1>1, <1>2, <2>2, RunningStays, BeginsIsHolding
  <2> QED
    BY <2>1, <2>2
<1>4. \A q \in Requests : stage'[q] = "begin_turn" => stage[q] = "begin_turn"
  BY <1>2
<1>5. \A c \in Conversations : IdleOK(c)'
  BY <1>1, <1>4, IdleStays
<1> QED
  BY <1>3, <1>5 DEF IntactInv

\* The nodes: begin_turn drops the focus with the graph, an answer's focus is merged
\* with its nodes, compact_session cuts off what compact_turns counted.
LEMMA SuperstepKeepsIntact ==
  ASSUME SessionInv, IntactInv, [Next]_vars, NEW r \in Requests,
         BeginTurn(r) \/ Succeed(r) \/ Explain(r) \/ MergeSessionGraph(r) \/ CompactSession(r)
  PROVE  IntactInv'
<1>1. /\ stage[r] \in Before \cup {"begin_turn"} /\ stage[r] \in Holding
  BY DEF BeginTurn, Succeed, Explain, MergeSessionGraph, CompactSession, Before, Holding,
     Running
<1>2. /\ conv[r] \in Conversations /\ holder[conv[r]] = r /\ TurnOK(r) /\ RunningOK(r)
  BY <1>1, HolderIsAlone, Sent DEF IntactInv
<1>3. stage[r] \in Before =>
        live[r] \in Channels /\ Sound(live[r]) /\ live[r].version = data_version
  BY <1>2 DEF TurnOK
<1>4. settled \in [Requests -> Settlements \cup {None}]
  BY DEF SessionInv, TypeOK
<1>s. \A channels, next : Step(r, channels, next) => StepAfter(unsaved[r], r, channels, next)
  BY DEF Step
<1>e. stage[r] \in {"agents", "merge_session_graph"} /\ Unharmed(conv[r]) => Exact(live[r])
  BY <1>2 DEF RunningOK, Begins, Before
<1>5. CASE BeginTurn(r)
  <2>1. PICK channels, copies : /\ channels = Restored(stored[conv[r]])
                                /\ StepAfter(copies, r, channels, "agents")
                                /\ settled' = settled /\ stage[r] = "begin_turn"
    BY <1>5 DEF BeginTurn
  <2>2. PICK s \in Channels : s = stored[conv[r]]
    BY <1>2 DEF SessionInv, TypeOK
  <2>3. /\ channels.focus = (IF Rollover(s) THEN {} ELSE s.focus)
        /\ channels.graph =
             (IF Rollover(s) \/ s.graph = None THEN EmptyGraph(data_version) ELSE s.graph)
        /\ channels.recent = s.recent /\ channels.total = s.total
        /\ channels.summarized = s.summarized
    BY <2>1, <2>2 DEF Restored, Channels
  <2>4. Unharmed(conv[r]) => Grounded(s) /\ Exact(s)
    BY <1>2, <2>1, <2>2 DEF IntactInv, IdleOK
  <2>5. Unharmed(conv[r]) => Grounded(channels)
    <3>1. CASE Rollover(s)
      BY <2>3, <3>1 DEF Grounded
    <3>2. CASE ~Rollover(s) /\ s.graph = None
      <4>1. Grounded(s) => channels.focus = {}
        BY <2>3, <3>2 DEF Grounded
      <4> QED
        BY <2>4, <4>1 DEF Grounded
    <3>3. CASE ~Rollover(s) /\ s.graph # None
      BY <2>3, <2>4, <3>3 DEF Grounded
    <3> QED
      BY <3>1, <3>2, <3>3
  <2>6. Unharmed(conv[r]) => Exact(channels)
    BY <2>3, <2>4 DEF Exact
  <2> QED
    BY <1>2, <2>1, <2>5, <2>6, StepKeepsIntact
<1>6. CASE Succeed(r)
  <2>1. PICK nodes, focus :
           /\ focus \subseteq nodes
           /\ settled' = [settled EXCEPT
                ![r] = [outcome |-> "success", focus |-> focus, nodes |-> nodes,
                        version |-> data_version]]
           /\ Step(r, [live[r] EXCEPT !.focus = focus], "merge_session_graph")
           /\ stage[r] = "agents"
    BY <1>6 DEF Succeed
  <2>2. /\ settled'[r].nodes = nodes
        /\ \A q \in Requests : q # r => settled'[q] = settled[q]
    BY <1>4, <2>1
  <2>3. PICK channels : channels = [live[r] EXCEPT !.focus = focus]
    OBVIOUS
  <2>4. channels.focus \subseteq settled'[r].nodes
    BY <1>3, <2>1, <2>2, <2>3 DEF Before, Channels
  <2>5. Exact(live[r]) => Exact(channels)
    BY <1>3, <2>1, <2>3 DEF Before, Channels, Exact
  <2>6. /\ StepAfter(unsaved[r], r, channels, "merge_session_graph")
        /\ Unharmed(conv[r]) => Exact(channels)
    BY <1>e, <1>s, <2>1, <2>3, <2>5
  <2> QED
    BY <1>2, <2>2, <2>4, <2>6, StepKeepsIntact
<1>7. CASE Explain(r)
  <2>1. PICK settlement :
           /\ settled' = [settled EXCEPT ![r] = settlement]
           /\ Step(r, [live[r] EXCEPT !.focus = live[r].focus], "merge_session_graph")
           /\ stage[r] = "agents"
    BY <1>7 DEF Explain, KeptFocus
  <2>2. \A q \in Requests : q # r => settled'[q] = settled[q]
    BY <1>4, <2>1
  <2>3. PICK channels : channels = [live[r] EXCEPT !.focus = live[r].focus]
    OBVIOUS
  <2>4. channels.focus = live[r].focus /\ channels.graph = live[r].graph
    BY <1>3, <2>1, <2>3 DEF Before, Channels
  <2>5. Unharmed(conv[r]) => Grounded(channels)
    BY <1>2, <2>1, <2>4 DEF RunningOK, Begins, Before, Grounded
  <2>6. Exact(live[r]) => Exact(channels)
    BY <1>3, <2>1, <2>3 DEF Before, Channels, Exact
  <2> QED
    BY <1>2, <1>e, <1>s, <2>1, <2>2, <2>3, <2>5, <2>6, StepKeepsIntact
<1>d. data_version \in Versions
  BY DEF SessionInv, TypeOK
<1>8. CASE MergeSessionGraph(r)
  <2> DEFINE delta == [version |-> data_version, nodes |-> settled[r].nodes]
             merged == [version |-> data_version, nodes |-> MergedNodes(live[r].graph, delta)]
  <2>1. /\ stage[r] = "merge_session_graph" /\ settled' = settled
        /\ Step(r, WithGraph(live[r], merged), "compact_turns")
    BY <1>8 DEF MergeSessionGraph, WithGraph
  <2>4. merged \in Graphs /\ merged # None
    <3>1. settled[r] \in Settlements
      BY <1>2, <2>1 DEF TurnOK
    <3>2. settled[r].nodes \in SUBSET Entities
      BY <3>1 DEF Settlements
    <3>3. live[r].graph \in Graphs \cup {None}
      BY <1>3, <2>1 DEF Before, Channels
    <3>4. MergedNodes(live[r].graph, delta) \in SUBSET Entities
      BY <3>2, <3>3 DEF MergedNodes, Graphs
    <3> QED
      BY <1>d, <3>4, SessionAssumption DEF Graphs
  <2>5. /\ settled[r].nodes \subseteq merged.nodes
        /\ live[r].graph # None => live[r].graph.nodes \subseteq merged.nodes
    <3>1. live[r].graph # None => live[r].graph.version = data_version
      BY <1>3, <2>1 DEF Before, Sound
    <3> QED
      BY <3>1 DEF MergedNodes
  <2> HIDE DEF merged
  <2>2. PICK channels : channels = WithGraph(live[r], merged)
    OBVIOUS
  <2>3. /\ channels.focus = live[r].focus /\ channels.graph = merged
        /\ Exact(live[r]) => Exact(channels)
    BY <1>3, <2>1, <2>2 DEF Before, Channels, WithGraph, Exact
  <2>6. Unharmed(conv[r]) => Grounded(channels)
    <3>1. Unharmed(conv[r]) =>
            Grounded(live[r]) \/ live[r].focus \subseteq settled[r].nodes
      BY <1>2, <2>1 DEF RunningOK, Begins, Before
    <3> QED
      BY <2>3, <2>4, <2>5, <3>1 DEF Grounded
  <2> QED
    BY <1>2, <1>e, <1>s, <2>1, <2>2, <2>3, <2>6, StepKeepsIntact
<1>9. CASE CompactSession(r)
  <2>1. PICK channels :
           /\ channels = Compacted(live[r], r) /\ Step(r, channels, "return")
           /\ stage[r] = "compact_session" /\ settled' = settled
    BY <1>9 DEF CompactSession
  <2>2. channels.focus = live[r].focus /\ channels.graph = live[r].graph
    BY <1>3, <2>1 DEF Before, Channels, Compacted
  <2>3. Unharmed(conv[r]) => Grounded(channels) /\ CountsAhead(r)
    BY <1>2, <2>1, <2>2 DEF RunningOK, Begins, Before, Grounded
  <2>4. CountsAhead(r) => Exact(channels)
    <3>1. live[r] \in Channels /\ Sound(live[r])
      BY <1>3, <2>1 DEF Before
    <3>2. Older(live[r]) + NumberToCompact(Append(live[r].recent, r)) <= live[r].summarized
      BY <1>2, <2>1 DEF TurnOK
    <3>3. PICK n : n = NumberToCompact(Append(live[r].recent, r))
      OBVIOUS
    <3>4. /\ channels.total = live[r].total + 1 /\ channels.summarized = live[r].summarized
          /\ Len(channels.recent) = Len(live[r].recent) + 1 - n
      BY <2>1, <3>1, <3>2, <3>3, CompactedChannels
    <3>5. n \in Nat
      <4>1. Append(live[r].recent, r) \in Seq(Requests) /\ Len(live[r].recent) \in Nat
            /\ Len(Append(live[r].recent, r)) = Len(live[r].recent) + 1
        BY <3>1 DEF Channels
      <4>2. Len(Append(live[r].recent, r)) <= ShortTermMaxTurns
        BY <3>1, <4>1, SessionAssumption DEF Sound
      <4>3. n \in 0..Len(Append(live[r].recent, r))
        BY <3>3, <4>1, <4>2, NumberToCompactBounds
      <4> QED
        BY <4>3
    <3>6. PICK k \in Nat : k = Len(live[r].recent)
      BY <3>1 DEF Channels
    <3>7. PICK total \in Nat, summarized \in Nat :
             total = live[r].total /\ summarized = live[r].summarized
      BY <3>1 DEF Channels
    <3>8. summarized + k = total + n => summarized + (k + 1 - n) = total + 1
      BY <3>5
    <3> QED
      BY <3>3, <3>4, <3>6, <3>7, <3>8 DEF CountsAhead, Exact
  <2> QED
    BY <1>2, <1>s, <2>1, <2>3, <2>4, StepKeepsIntact
<1> QED
  BY <1>5, <1>6, <1>7, <1>8, <1>9

\* compact_turns counts the turns that are cut off next.
LEMMA CompactTurnsKeepsIntact ==
  ASSUME SessionInv, IntactInv, [Next]_vars, NEW r \in Requests, CompactTurns(r)
  PROVE  IntactInv'
<1>n. PICK n : n = NumberToCompact(Append(live[r].recent, r))
  OBVIOUS
<1>v. PICK versions :
         versions = FocusVersions(live[r].focus, Append(live[r].recent, r), n)
  OBVIOUS
<1>1. /\ stage[r] = "compact_turns" /\ stage[r] \in Before /\ stage[r] \in Holding
      /\ n \in Nat /\ stage'[r] = "compact_session"
      /\ live'[r] = Summarized(live[r], n, versions)
      /\ \A q \in Requests : q # r => stage'[q] = stage[q] /\ live'[q] = live[q]
      /\ UNCHANGED <<stored, holder, conv, settled, arrivals>>
  BY <1>n, <1>v, CompactTurnsLeaves
<1>2. conv[r] \in Conversations /\ live[r] \in Channels /\ RunningOK(r)
  BY <1>1, HolderIsAlone, Sent DEF TurnOK, IntactInv
<1>3. /\ live'[r].focus = live[r].focus /\ live'[r].graph = live[r].graph
      /\ live'[r].recent = live[r].recent /\ live'[r].total = live[r].total
      /\ live'[r].summarized = live[r].summarized + n
  BY <1>1, <1>2 DEF Summarized, Channels
<1>4. Unharmed(conv[r])' => Unharmed(conv[r])
  <2>1. PICK c \in Conversations : c = conv[r]
    BY <1>2
  <2>2. Unharmed(conv[r])' => Unharmed(c)'
    BY <1>1, <2>1 DEF Unharmed
  <2> QED
    BY <2>1, <2>2, UnharmedBefore
<1>5. Unharmed(conv[r]) => Grounded(live[r]) /\ Exact(live[r])
  BY <1>1, <1>2 DEF RunningOK, Begins
<1>6. Exact(live[r]) => CountsAhead(r)'
  <2>1. PICK k \in Nat : k = Len(live[r].recent)
    BY <1>2 DEF Channels
  <2>2. PICK total \in Nat, summarized \in Nat :
           total = live[r].total /\ summarized = live[r].summarized
    BY <1>2 DEF Channels
  <2>3. summarized + k = total => summarized + n + k = total + n
    BY <1>1
  <2>4. CountsAhead(r)' <=> live'[r].summarized + Len(live'[r].recent)
                              = live'[r].total + NumberToCompact(Append(live'[r].recent, r))
    BY DEF CountsAhead
  <2> QED
    BY <1>n, <1>3, <2>1, <2>2, <2>3, <2>4 DEF Exact
<1>7. RunningOK(r)'
  <2>1. Grounded(live[r]) => Grounded(live[r])'
    BY <1>3 DEF Grounded
  <2> QED
    BY <1>1, <1>4, <1>5, <1>6, <2>1 DEF RunningOK
<1>8. ASSUME NEW q \in Requests PROVE RunningOK(q)'
  <2>1. CASE q = r
    BY <1>7, <2>1
  <2>2. CASE q # r
    BY <1>1, <2>2, RunningStays, BeginsIsHolding
  <2> QED
    BY <2>1, <2>2
<1>9. \A q \in Requests : stage'[q] = "begin_turn" => stage[q] = "begin_turn"
  BY <1>1
<1>10. \A c \in Conversations : IdleOK(c)'
  BY <1>1, <1>9, IdleStays
<1> QED
  BY <1>8, <1>10 DEF IntactInv

\* Getting the lock, saving copies and returning leave focus and counts as they are.
LEMMA WaitingKeepsIntact ==
  ASSUME SessionInv, IntactInv, [Next]_vars, NEW r \in Requests,
         Acquire(r) \/ Checkpoint(r) \/ Return(r)
  PROVE  IntactInv'
<1>1. CASE Acquire(r)
  <2>1. /\ stage[r] = "lock" /\ holder[conv[r]] = None
        /\ holder' = [holder EXCEPT ![conv[r]] = r]
        /\ stage' = [stage EXCEPT ![r] = "begin_turn"]
        /\ UNCHANGED <<stored, conv, live, settled, arrivals>>
    BY <1>1 DEF Acquire, Unlocked, GoTo, memoryVars, historyVars
  <2>2. conv[r] \in Conversations
    BY <2>1, Sent DEF SessionInv, TypeOK
  <2>3. /\ stage'[r] = "begin_turn" /\ \A q \in Requests : q # r => stage'[q] = stage[q]
        /\ \A d \in Conversations : d # conv[r] => holder'[d] = holder[d]
    BY <2>1 DEF SessionInv, TypeOK
  <2>4. ASSUME NEW q \in Requests PROVE RunningOK(q)'
    <3>1. CASE q = r
      BY <2>3, <3>1 DEF RunningOK, Begins, Before
    <3>2. CASE q # r
      BY <2>1, <2>3, <3>2, RunningStays, BeginsIsHolding
    <3> QED
      BY <3>1, <3>2
  <2>5. ASSUME NEW d \in Conversations PROVE IdleOK(d)'
    <3>1. Unharmed(d)' => Unharmed(d)
      BY UnharmedBefore
    <3>2. IdleOK(d)
      BY DEF IntactInv
    <3>3. CASE d = conv[r]
      BY <2>1, <3>1, <3>2, <3>3 DEF IdleOK, Grounded, Exact
    <3>4. CASE d # conv[r]
      <4>1. holder[d] # None => holder[d] \in Requests /\ conv[holder[d]] = d
        BY HolderIsLast DEF SessionInv, TypeOK
      <4>2. holder[d] # None => stage'[holder[d]] = stage[holder[d]]
        BY <2>3, <3>4, <4>1
      <4> QED
        BY <2>1, <2>3, <3>1, <3>2, <3>4, <4>2 DEF IdleOK, Grounded, Exact
    <3> QED
      BY <3>3, <3>4
  <2> QED
    BY <2>4, <2>5 DEF IntactInv
<1>2. CASE Checkpoint(r)
  <2>1. /\ unsaved[r] # <<>> /\ Saved(r, 1)
        /\ UNCHANGED <<holder, conv, stage, live, settled, arrivals>>
    BY <1>2 DEF Checkpoint, lockVars
  <2>2. conv[r] # None
    BY <2>1 DEF SessionInv, UnsentOK
  <2>3. stage[r] \in Holding /\ stage[r] # "begin_turn"
    BY <2>1, <2>2, Sent DEF TurnOK, Holding
  <2>4. holder[conv[r]] = r
    BY <2>3, HolderIsAlone
  <2>5. \A d \in Conversations : d # conv[r] => stored'[d] = stored[d]
    BY <2>1 DEF Saved, SessionInv, TypeOK
  <2>6. \A q \in Requests : RunningOK(q)'
    BY <2>1, RunningStays, BeginsIsHolding
  <2>7. ASSUME NEW d \in Conversations PROVE IdleOK(d)'
    <3>1. CASE d = conv[r]
      BY <2>1, <2>3, <2>4, <3>1, SessionAssumption DEF IdleOK
    <3>2. CASE d # conv[r]
      BY <2>1, <2>5, <3>2, IdleStays
    <3> QED
      BY <3>1, <3>2
  <2> QED
    BY <2>6, <2>7 DEF IntactInv
<1>3. CASE Return(r)
  <2>1. /\ stage[r] = "return" /\ stage' = [stage EXCEPT ![r] = "save"]
        /\ UNCHANGED <<stored, holder, conv, live, settled, arrivals>>
    BY <1>3 DEF Return, GoTo, memoryVars, lockVars, historyVars
  <2>2. stage'[r] = "save" /\ \A q \in Requests : q # r => stage'[q] = stage[q]
    BY <2>1 DEF SessionInv, TypeOK
  <2>3. ASSUME NEW q \in Requests PROVE RunningOK(q)'
    <3>1. CASE q = r
      <4>1. PICK c \in Conversations : c = conv[r]
        BY <2>1, BeginsIsHolding DEF Begins
      <4>2. Unharmed(conv[r])' => Unharmed(conv[r])
        <5>1. Unharmed(conv[r])' => Unharmed(c)'
          BY <2>1, <4>1 DEF Unharmed
        <5> QED
          BY <4>1, <5>1, UnharmedBefore
      <4>3. RunningOK(r)
        BY DEF IntactInv
      <4> QED
        BY <2>1, <2>2, <3>1, <4>2, <4>3 DEF RunningOK, Begins, Grounded, Exact
    <3>2. CASE q # r
      BY <2>1, <2>2, <3>2, RunningStays, BeginsIsHolding
    <3> QED
      BY <3>1, <3>2
  <2>4. \A q \in Requests : stage'[q] = "begin_turn" => stage[q] = "begin_turn"
    BY <2>2
  <2>5. \A c \in Conversations : IdleOK(c)'
    BY <2>1, <2>4, IdleStays
  <2> QED
    BY <2>3, <2>5 DEF IntactInv
<1> QED
  BY <1>1, <1>2, <1>3

\* A reply leaves the live channels in the checkpoint; any other end harms the
\* conversation.
LEMMA EndingKeepsIntact ==
  ASSUME SessionInv, ReplyInv, IntactInv, [Next]_vars, NEW r \in Requests,
         Abort(r) \/ SaveGraph(r) \/ SaveGraphFails(r)
  PROVE  IntactInv'
<1>c. PICK c : c = conv[r]
  OBVIOUS
<1>1. stage[r] \in Holding
  BY DEF Abort, SaveGraph, SaveGraphFails, Holding
<1>2. /\ c \in Conversations /\ holder[c] = r /\ conv[r] # None /\ TurnOK(r) /\ LinkOK(r)
  BY <1>c, <1>1, HolderIsAlone, Sent DEF ReplyInv
<1>3. PICK how \in {"replied", "error"} :
         End(r, how) /\ (how = "replied" => SaveGraph(r))
         /\ UNCHANGED <<conv, settled, arrivals>>
  BY DEF Abort, SaveGraph, SaveGraphFails, historyVars
<1>4. \A d \in Conversations : d # c => stored'[d] = stored[d]
  <2>1. CASE Abort(r)
    BY <1>c, <2>1 DEF Abort, Saved, SessionInv, TypeOK
  <2>2. CASE SaveGraph(r) \/ SaveGraphFails(r)
    BY <2>2 DEF SaveGraph, SaveGraphFails
  <2> QED
    BY <2>1, <2>2
<1>5. /\ stage'[r] = how
      /\ \A q \in Requests : q # r => stage'[q] = stage[q] /\ live'[q] = live[q]
      /\ \A d \in Conversations : d # c => holder'[d] = holder[d]
  BY <1>c, <1>3 DEF End, GoTo, SessionInv, TypeOK
<1>6. ASSUME NEW q \in Requests PROVE RunningOK(q)'
  <2>1. CASE q = r
    BY <1>5, <2>1 DEF RunningOK, Begins, Before
  <2>2. CASE q # r
    BY <1>3, <1>5, <2>2, RunningStays, BeginsIsHolding
  <2> QED
    BY <2>1, <2>2
<1>7. IdleOK(c)'
  <2>1. Unharmed(c)' => Unharmed(c)
    BY <1>2, UnharmedBefore
  <2>2. CASE how = "error"
    <3>1. /\ Begun(c) \in DOMAIN arrivals[c] /\ arrivals[c][Begun(c)] = r
      BY <1>2, HolderIsLast, LastOfConversation, BegunBounds, SessionAssumption
    <3>2. r \in Elements(arrivals[c])
      BY <3>1 DEF Elements
    <3>3. r \in Elements(arrivals'[c]) /\ stage'[r] = "error"
      BY <1>3, <1>5, <2>2, <3>2
    <3>4. ~Unharmed(c)'
      BY <3>3 DEF Unharmed
    <3> QED
      BY <3>4 DEF IdleOK
  <2>3. CASE how = "replied"
    <3>1. stage[r] = "save" /\ stored' = stored
      BY <1>3, <2>3 DEF SaveGraph
    <3>2. stored[c] = live[r]
      BY <1>c, <1>2, <3>1 DEF LinkOK, Linked, TurnOK, Begins
    <3>3. Unharmed(c) => Grounded(live[r]) /\ Exact(live[r])
      BY <1>c, <3>1 DEF IntactInv, RunningOK, Begins
    <3> QED
      BY <2>1, <3>1, <3>2, <3>3 DEF IdleOK, Grounded, Exact
  <2> QED
    BY <2>2, <2>3
<1>8. \A q \in Requests : stage'[q] = "begin_turn" => stage[q] = "begin_turn"
  BY <1>5
<1>9. ASSUME NEW d \in Conversations, d # c PROVE IdleOK(d)'
  BY <1>4, <1>5, <1>8, <1>9, IdleStays
<1> QED
  BY <1>6, <1>7, <1>9 DEF IntactInv

\* A restart harms the conversations in which a turn runs or waits.
LEMMA RestartKeepsIntact ==
  ASSUME SessionInv, ReplyInv, IntactInv, [Next]_vars, Restart
  PROVE  IntactInv'
<1>1. /\ stage' = [r \in Requests |->
           IF stage[r] \in {"new"} \cup Ended THEN stage[r] ELSE "lost"]
      /\ holder' = [c \in Conversations |-> None]
      /\ UNCHANGED <<stored, conv, arrivals>>
  BY DEF Restart, memoryVars, historyVars
<1>2. \A r \in Requests : RunningOK(r)'
  BY <1>1 DEF RunningOK, Begins, Before, Ended
<1>3. ASSUME NEW c \in Conversations PROVE IdleOK(c)'
  <2> SUFFICES ASSUME Unharmed(c)' PROVE Grounded(stored[c]) /\ Exact(stored[c])
    BY <1>1 DEF IdleOK, Grounded, Exact
  <2>1. holder[c] = None
    <3> SUFFICES ASSUME holder[c] # None PROVE FALSE
      OBVIOUS
    <3>1. PICK r \in Requests : r = holder[c]
      BY DEF SessionInv, TypeOK
    <3>2. /\ Begun(c) \in DOMAIN arrivals[c] /\ arrivals[c][Begun(c)] = r /\ conv[r] = c
      BY <3>1, HolderIsLast, LastOfConversation, BegunBounds
    <3>3. r \in Elements(arrivals'[c])
      BY <1>1, <3>2 DEF Elements
    <3>4. stage[r] # "new" /\ stage[r] # "replied"
      BY <3>1, <3>2, SessionAssumption DEF SessionInv, TypeOK, ReplyInv, HolderOK
    <3>5. stage'[r] \in {"error", "lost"}
      BY <1>1, <3>4 DEF Ended
    <3> QED
      BY <3>3, <3>5 DEF Unharmed
  <2> QED
    BY <2>1, UnharmedBefore DEF IntactInv, IdleOK
<1> QED
  BY <1>2, <1>3 DEF IntactInv

\* Every step keeps the invariant.
LEMMA IntactInvStep == SessionInv /\ ReplyInv /\ IntactInv /\ [Next]_vars => IntactInv'
<1> SUFFICES ASSUME SessionInv, ReplyInv, IntactInv, [Next]_vars PROVE IntactInv'
  OBVIOUS
<1>1. ASSUME NEW r \in Requests, NEW c \in Conversations, Submit(r, c) PROVE IntactInv'
  <2>1. /\ conv[r] = None /\ conv' = [conv EXCEPT ![r] = c]
        /\ stage' = [stage EXCEPT ![r] = "lock"]
        /\ UNCHANGED <<stored, holder, live, settled>>
    BY <1>1 DEF Submit, GoTo, memoryVars
  <2>2. /\ stage'[r] = "lock"
        /\ \A q \in Requests : q # r => stage'[q] = stage[q] /\ conv'[q] = conv[q]
    BY <2>1 DEF SessionInv, TypeOK
  <2>3. ASSUME NEW q \in Requests PROVE RunningOK(q)'
    <3>1. CASE q = r
      BY <2>2, <3>1 DEF RunningOK, Begins, Before
    <3>2. CASE q # r
      BY <2>1, <2>2, <3>2, RunningStays, BeginsIsHolding
    <3> QED
      BY <3>1, <3>2
  <2>4. \A q \in Requests : stage'[q] = "begin_turn" => stage[q] = "begin_turn"
    BY <2>2
  <2>5. \A d \in Conversations : IdleOK(d)'
    BY <2>1, <2>4, IdleStays
  <2> QED
    BY <2>3, <2>5 DEF IntactInv
<1>2. ASSUME NEW r \in Requests, Work(r) PROVE IntactInv'
  BY <1>2, WaitingKeepsIntact, SuperstepKeepsIntact, CompactTurnsKeepsIntact,
     EndingKeepsIntact DEF Work
<1>3. CASE Restart
  BY <1>3, RestartKeepsIntact
<1>4. CASE UNCHANGED vars
  <2>1. UNCHANGED <<stored, holder, conv, stage, live, settled>>
    BY <1>4 DEF vars, memoryVars, lockVars, requestVars
  <2>2. \A r \in Requests : RunningOK(r)'
    BY <2>1, RunningStays, BeginsIsHolding
  <2>3. \A c \in Conversations : IdleOK(c)'
    BY <2>1, IdleStays
  <2> QED
    BY <2>2, <2>3 DEF IntactInv
<1> QED
  BY <1>1, <1>2, <1>3, <1>4 DEF Next

\* The invariant holds in every behaviour.
LEMMA IntactInvAlways == Spec => []IntactInv
<1>1. Init => IntactInv
  BY IntactInvInit
<1>2. SessionInv /\ ReplyInv /\ IntactInv /\ [Next]_vars => IntactInv'
  BY IntactInvStep
<1> QED
  BY <1>1, <1>2, ReplyInvAlways, PTL DEF Spec

\* For any number of requests and entities: unless a turn of the conversation
\* was cut off, what the user refers to next is among the nodes of its graph,
\* whatever turns failed, asked back or ran on other data.
THEOREM FocusIsGrounded == Spec => []FocusIsInSession
<1>1. IntactInv => FocusIsInSession
  BY DEF IntactInv, IdleOK, Unharmed, Grounded, FocusIsInSession
<1> QED
  BY <1>1, IntactInvAlways, PTL

\* For any number of requests and any window: no turn that was remembered is
\* lost or moved by a timeout, an exception, a restart or a compaction, each is
\* counted once unless a turn of its conversation was cut off, although
\* compact_turns changes copies that are saved later, and every turn that was
\* replied to is remembered, once.
THEOREM TurnsAreKept == Spec => []HistoryIsKept
<1>1. IntactInv => TurnsAreCountedOnce
  BY DEF IntactInv, IdleOK, Exact, TurnsAreCountedOnce
<1>2. SessionInv /\ IntactInv => HistoryIsKept
  BY <1>1, NewestFollows, WindowFollows, HistoryFollows DEF HistoryIsKept
<1> QED
  BY <1>2, SessionInvAlways, IntactInvAlways, PTL

-----------------------------------------------------------------------------
(* What the checkpoint mentions. compact_turns takes the focus of older    *)
(* turns into the summary: that of turns which are remembered, or of its   *)
(* own. A turn runs on one data version from begin_turn to its end.        *)

Mentions(s, c) == s.mentioned \subseteq {s.version} \cup VersionsRun(c)

Answered == {"merge_session_graph", "compact_turns", "compact_session", "return", "save"}

MentionOK(r) ==
  /\ \A i \in DOMAIN unsaved[r] : Mentions(unsaved[r][i].channels, conv[r])
  /\ stage[r] \in Begins => Mentions(live[r], conv[r])
  /\ stage[r] \in Answered => settled[r].version = data_version

MentionInv ==
  /\ \A r \in Requests : conv[r] # None => MentionOK(r)
  /\ \A c \in Conversations : Mentions(stored[c], c)

\* The new server mentions nothing.
LEMMA MentionInvInit == Init => MentionInv
  BY DEF Init, MentionInv, Mentions, FirstChannels

\* What is remembered stays, and so does what was made of it.
LEMMA VersionsRunGrow ==
  ASSUME SessionInv, [Next]_vars, NEW c \in Conversations
  PROVE  VersionsRun(c) \subseteq VersionsRun(c)'
<1>1. /\ remembered \in [Conversations -> Seq(Requests)]
      /\ settled \in [Requests -> Settlements \cup {None}]
  BY DEF SessionInv, TypeOK
<1>2. \/ remembered'[c] = remembered[c]
      \/ \E q \in Requests : remembered'[c] = Append(remembered[c], q)
  <2>1. ASSUME NEW q \in Requests, NEW n, Saved(q, n)
        PROVE  remembered'[c] = remembered[c] \/ remembered'[c] = Append(remembered[c], q)
    BY <1>1, <2>1 DEF Saved
  <2>2. ASSUME NEW q \in Requests, NEW d \in Conversations, Submit(q, d)
        PROVE  remembered' = remembered
    BY <2>2 DEF Submit
  <2>3. ASSUME NEW q \in Requests, Work(q)
        PROVE  remembered' = remembered \/ Saved(q, 1) \/ Saved(q, Len(unsaved[q]))
    BY <2>3 DEF Work, Acquire, BeginTurn, Succeed, Explain, MergeSessionGraph, CompactTurns,
       CompactSession, Checkpoint, Return, Abort, SaveGraph, SaveGraphFails, Step, StepAfter,
       historyVars
  <2>4. Restart \/ UNCHANGED vars => remembered' = remembered
    BY DEF Restart, vars, historyVars
  <2> QED
    BY <2>1, <2>2, <2>3, <2>4 DEF Next
<1>3. ASSUME NEW q \in Elements(remembered[c]) PROVE q \in Elements(remembered'[c])
  <2>1. remembered[c] \in Seq(Requests)
    BY <1>1
  <2>2. PICK i \in DOMAIN remembered[c] : remembered[c][i] = q
    BY <1>3 DEF Elements
  <2>3. i \in DOMAIN remembered'[c] /\ remembered'[c][i] = q
    <3>1. CASE remembered'[c] = remembered[c]
      BY <2>2, <3>1
    <3>2. ASSUME NEW r \in Requests, remembered'[c] = Append(remembered[c], r)
          PROVE  i \in DOMAIN remembered'[c] /\ remembered'[c][i] = q
      BY <2>1, <2>2, <3>2
    <3> QED
      BY <1>2, <3>1, <3>2
  <2> QED
    BY <2>3 DEF Elements
<1>4. ASSUME NEW q \in Elements(remembered[c]) PROVE settled'[q] = settled[q]
  <2>1. PICK i \in DOMAIN remembered[c] : remembered[c][i] = q
    BY <1>4 DEF Elements
  <2>2. q \in Requests
    BY <1>1, <2>1
  <2>3. conv[q] = c
    <3>1. PICK m \in 1..Begun(c) : arrivals[c][m] = q
      BY <2>1 DEF SessionInv, ConversationOK, OrderOK
    <3>2. m \in DOMAIN arrivals[c]
      <4>1. PICK b \in Nat : b = Begun(c)
        BY BegunBounds
      <4>2. m \in 1..b /\ b # 0
        BY <3>1, <4>1
      <4>3. PICK a \in Nat : a = Len(arrivals[c])
        BY DEF SessionInv, TypeOK
      <4>4. b \in 1..a /\ DOMAIN arrivals[c] = 1..a
        BY <4>1, <4>2, <4>3, BegunBounds
      <4> QED
        BY <4>2, <4>4
    <3> QED
      BY <3>1, <3>2 DEF SessionInv, ConversationOK, QueueOK
  <2>4. stage[q] # "agents"
    <3> SUFFICES ASSUME stage[q] = "agents" PROVE FALSE
      OBVIOUS
    <3>1. stage[q] \in Holding /\ stage[q] \in Before
      BY DEF Holding, Running, Before
    <3>2. TurnOK(q)
      BY <2>2, <3>1, HolderIsAlone, Sent
    <3> QED
      BY <2>1, <2>3, <3>1, <3>2 DEF TurnOK, In, Turns
  <2>5. ASSUME NEW r \in Requests, Succeed(r) \/ Explain(r) PROVE settled'[q] = settled[q]
    BY <1>1, <2>2, <2>4, <2>5 DEF Succeed, Explain
  <2>6. ASSUME NEW r \in Requests, Work(r) PROVE settled'[q] = settled[q]
    <3>1. Succeed(r) \/ Explain(r) \/ settled' = settled
      BY <2>6 DEF Work, Acquire, BeginTurn, MergeSessionGraph, CompactTurns,
         CompactSession, Checkpoint, Return, Abort, SaveGraph, SaveGraphFails
    <3> QED
      BY <2>5, <3>1
  <2>7. (\E r \in Requests, d \in Conversations : Submit(r, d)) \/ Restart \/ UNCHANGED vars
          => settled' = settled
    BY DEF Submit, Restart, vars, requestVars
  <2> QED
    BY <2>6, <2>7 DEF Next
<1> QED
  BY <1>3, <1>4 DEF VersionsRun

\* The checkpoint stays, or is a copy that a turn of the conversation had made.
LEMMA StoredIsCopy ==
  ASSUME SessionInv, [Next]_vars, NEW c \in Conversations
  PROVE  \/ stored'[c] = stored[c]
         \/ \E q \in Requests : \E i \in DOMAIN unsaved[q] :
              conv[q] = c /\ stored'[c] = unsaved[q][i].channels
<1>1. stored \in [Conversations -> Channels] /\ unsaved \in [Requests -> Seq(Copies)]
  BY DEF SessionInv, TypeOK
<1>2. ASSUME NEW q \in Requests, NEW n \in 0..Len(unsaved[q]), Saved(q, n)
      PROVE  \/ stored'[c] = stored[c]
             \/ \E i \in DOMAIN unsaved[q] :
                  conv[q] = c /\ stored'[c] = unsaved[q][i].channels
  <2>1. \/ stored'[c] = stored[c]
        \/ conv[q] = c /\ n # 0 /\ stored'[c] = unsaved[q][n].channels
    BY <1>1, <1>2 DEF Saved
  <2>2. n # 0 => n \in DOMAIN unsaved[q]
    BY <1>1
  <2> QED
    BY <2>1, <2>2
<1>3. ASSUME NEW q \in Requests, Work(q)
      PROVE  stored' = stored \/ \E n \in 0..Len(unsaved[q]) : Saved(q, n)
  <2>1. PICK k \in Nat : k = Len(unsaved[q])
    BY <1>1
  <2>2. CASE Checkpoint(q)
    <3>1. k # 0
      BY <1>1, <2>1, <2>2, EmptySeq DEF Checkpoint
    <3> QED
      BY <2>1, <2>2, <3>1 DEF Checkpoint
  <2>3. CASE Abort(q)
    BY <2>1, <2>3 DEF Abort
  <2>4. CASE ~Checkpoint(q) /\ ~Abort(q)
    BY <1>3, <2>4 DEF Work, Acquire, BeginTurn, Succeed, Explain, MergeSessionGraph,
       CompactTurns, CompactSession, Return, SaveGraph, SaveGraphFails, Step, StepAfter,
       memoryVars
  <2> QED
    BY <2>2, <2>3, <2>4
<1>4. (\E q \in Requests, d \in Conversations : Submit(q, d)) \/ Restart \/ UNCHANGED vars
        => stored' = stored
  BY DEF Submit, Restart, vars, memoryVars
<1> QED
  BY <1>2, <1>3, <1>4 DEF Next

\* Nothing is mentioned that was not.
LEMMA MentionStays ==
  ASSUME SessionInv, MentionInv, [Next]_vars, NEW q \in Requests,
         conv[q] \in Conversations, conv'[q] = conv[q],
         \A i \in DOMAIN unsaved'[q] :
           \E j \in DOMAIN unsaved[q] : unsaved'[q][i] = unsaved[q][j],
         stage'[q] \in Begins => stage[q] \in Begins /\ live'[q] = live[q],
         stage'[q] \in Answered =>
           /\ stage[q] \in Answered /\ settled'[q] = settled[q]
           /\ data_version' = data_version
  PROVE  MentionOK(q)'
<1>1. MentionOK(q)
  BY SessionAssumption DEF MentionInv
<1>2. VersionsRun(conv[q]) \subseteq VersionsRun(conv[q])'
  <2>1. PICK c \in Conversations : c = conv[q]
    OBVIOUS
  <2>2. VersionsRun(c)' = VersionsRun(conv[q])'
    BY <2>1 DEF VersionsRun
  <2> QED
    BY <2>1, <2>2, VersionsRunGrow
<1>3. ASSUME NEW i \in DOMAIN unsaved'[q] PROVE Mentions(unsaved[q][i].channels, conv[q])'
  BY <1>1, <1>2 DEF MentionOK, Mentions
<1>4. stage'[q] \in Begins => Mentions(live[q], conv[q])'
  BY <1>1, <1>2 DEF MentionOK, Mentions
<1> QED
  BY <1>1, <1>3, <1>4 DEF MentionOK

\* A superstep mentions no more than the channels did.
LEMMA StepKeepsMentions ==
  ASSUME SessionInv, MentionInv, [Next]_vars, NEW r \in Requests, NEW channels, NEW next,
         NEW copies \in Seq(Copies), StepAfter(copies, r, channels, next),
         conv[r] \in Conversations, Mentions(channels, conv[r]),
         \A i \in DOMAIN copies : Mentions(copies[i].channels, conv[r]),
         next \in Answered => settled'[r].version = data_version,
         \A q \in Requests : q # r => settled'[q] = settled[q],
         NEW p \in Requests, conv[p] \in Conversations
  PROVE  MentionOK(p)'
<1> DEFINE copy == [channels |-> channels, node |-> stage[r]]
<1>1. /\ stage' = [stage EXCEPT ![r] = next] /\ live' = [live EXCEPT ![r] = channels]
      /\ unsaved' = [unsaved EXCEPT ![r] = Append(copies, copy)]
      /\ UNCHANGED <<conv, data_version>>
  BY DEF StepAfter, GoTo
<1>2. /\ stage'[r] = next /\ live'[r] = channels /\ unsaved'[r] = Append(copies, copy)
      /\ \A q \in Requests : q # r =>
           stage'[q] = stage[q] /\ live'[q] = live[q] /\ unsaved'[q] = unsaved[q]
  BY <1>1 DEF SessionInv, TypeOK
<1>3. CASE p # r
  BY <1>1, <1>2, <1>3, MentionStays
<1>4. CASE p = r
  <2>1. VersionsRun(conv[r]) \subseteq VersionsRun(conv[r])'
    <3>1. PICK c \in Conversations : c = conv[r]
      OBVIOUS
    <3>2. VersionsRun(c)' = VersionsRun(conv[r])'
      BY <1>1, <3>1 DEF VersionsRun
    <3> QED
      BY <3>1, <3>2, VersionsRunGrow
  <2>2. channels.mentioned \subseteq {channels.version} \cup VersionsRun(conv[r])'
    BY <2>1 DEF Mentions
  <2>3. copy.channels = channels
    OBVIOUS
  <2> HIDE DEF copy
  <2>4. ASSUME NEW i \in DOMAIN unsaved'[r] PROVE Mentions(unsaved[r][i].channels, conv[r])'
    <3>1. (i \in DOMAIN copies /\ unsaved'[r][i] = copies[i]) \/ unsaved'[r][i] = copy
      BY <1>2
    <3>2. ASSUME i \in DOMAIN copies
          PROVE  copies[i].channels.mentioned
                   \subseteq {copies[i].channels.version} \cup VersionsRun(conv[r])'
      BY <2>1, <3>2 DEF Mentions
    <3> QED
      BY <2>2, <2>3, <3>1, <3>2, <1>1 DEF Mentions
  <2>5. Mentions(live[r], conv[r])'
    BY <1>1, <1>2, <2>2 DEF Mentions
  <2> QED
    BY <1>1, <1>2, <1>4, <2>4, <2>5 DEF MentionOK
<1> QED
  BY <1>3, <1>4

\* The nodes: what they copy is of channels that are there.
LEMMA SuperstepKeepsMentions ==
  ASSUME SessionInv, MentionInv, [Next]_vars, NEW r \in Requests,
         BeginTurn(r) \/ Succeed(r) \/ Explain(r) \/ MergeSessionGraph(r) \/ CompactSession(r),
         NEW p \in Requests, conv[p] \in Conversations
  PROVE  MentionOK(p)'
<1>1. /\ stage[r] \in Before \cup {"begin_turn"} /\ stage[r] \in Holding
      /\ stage[r] # "begin_turn" => stage[r] \in Before /\ stage[r] \in Begins
  BY DEF BeginTurn, Succeed, Explain, MergeSessionGraph, CompactSession, Before, Holding,
     Running, Begins
<1>2. /\ conv[r] \in Conversations /\ conv[r] # None /\ TurnOK(r) /\ MentionOK(r)
      /\ unsaved[r] \in Seq(Copies)
  BY <1>1, HolderIsAlone, Sent DEF MentionInv
<1>3. stage[r] # "begin_turn" => live[r] \in Channels /\ Mentions(live[r], conv[r])
  BY <1>1, <1>2 DEF TurnOK, MentionOK
<1>4. settled \in [Requests -> Settlements \cup {None}]
  BY DEF SessionInv, TypeOK
<1>s. /\ \A channels, next : Step(r, channels, next) => StepAfter(unsaved[r], r, channels, next)
      /\ \A i \in DOMAIN unsaved[r] : Mentions(unsaved[r][i].channels, conv[r])
  BY <1>2 DEF Step, MentionOK
<1>5. CASE BeginTurn(r)
  <2>1. PICK s \in Channels : s = stored[conv[r]]
    BY <1>2 DEF SessionInv, TypeOK
  <2>2. PICK copy : copy = [channels |-> s, node |-> "input"]
    OBVIOUS
  <2>3. StepAfter(<<copy>>, r, Restored(s), "agents") /\ settled' = settled
    BY <1>5, <2>1, <2>2 DEF BeginTurn
  <2>4. Mentions(s, conv[r])
    BY <1>2, <2>1 DEF MentionInv
  <2>5. Mentions(Restored(s), conv[r])
    <3>1. /\ Restored(s).mentioned = (IF Rollover(s) THEN {} ELSE s.mentioned)
          /\ Restored(s).version = data_version
      BY <2>1 DEF Restored, Channels
    <3>2. CASE Rollover(s)
      BY <3>1, <3>2 DEF Mentions
    <3>3. CASE ~Rollover(s)
      <4>1. s.version \in {None, data_version}
        BY <3>3 DEF Rollover
      <4>2. None \notin s.mentioned
        BY <2>1, SessionAssumption DEF Channels
      <4> QED
        BY <2>4, <3>1, <3>3, <4>1, <4>2 DEF Mentions
    <3> QED
      BY <3>2, <3>3
  <2>6. copy \in Copies /\ copy.channels = s
    BY <2>1, <2>2 DEF Copies
  <2>7. /\ <<copy>> \in Seq(Copies)
        /\ \A i \in DOMAIN <<copy>> : Mentions(<<copy>>[i].channels, conv[r])
    BY <2>4, <2>6
  <2>8. "agents" \notin Answered
    BY DEF Answered
  <2> QED
    BY <1>2, <2>3, <2>5, <2>7, <2>8, StepKeepsMentions
<1>6. CASE Succeed(r) \/ Explain(r)
  <2>1. PICK focus, settlement :
           /\ settled' = [settled EXCEPT ![r] = settlement]
           /\ settlement.version = data_version
           /\ Step(r, [live[r] EXCEPT !.focus = focus], "merge_session_graph")
           /\ stage[r] = "agents"
    <3>1. CASE Succeed(r)
      <4>1. PICK nodes \in SUBSET Entities : \E focus \in SUBSET nodes :
               /\ settled' = [settled EXCEPT
                    ![r] = [outcome |-> "success", focus |-> focus, nodes |-> nodes,
                            version |-> data_version]]
               /\ Step(r, [live[r] EXCEPT !.focus = focus], "merge_session_graph")
               /\ stage[r] = "agents"
        BY <3>1 DEF Succeed
      <4>2. PICK focus \in SUBSET nodes :
               /\ settled' = [settled EXCEPT
                    ![r] = [outcome |-> "success", focus |-> focus, nodes |-> nodes,
                            version |-> data_version]]
               /\ Step(r, [live[r] EXCEPT !.focus = focus], "merge_session_graph")
        BY <4>1
      <4>3. PICK settlement :
               settlement = [outcome |-> "success", focus |-> focus, nodes |-> nodes,
                             version |-> data_version]
        OBVIOUS
      <4>4. settlement.version = data_version
        BY <4>3
      <4> QED
        BY <4>1, <4>2, <4>3, <4>4
    <3>2. CASE Explain(r)
      <4>1. PICK outcome :
               /\ settled' = [settled EXCEPT
                    ![r] = [outcome |-> outcome, focus |-> {}, nodes |-> {},
                            version |-> data_version]]
               /\ Step(r, [live[r] EXCEPT !.focus = KeptFocus(r)], "merge_session_graph")
               /\ stage[r] = "agents"
        BY <3>2 DEF Explain
      <4>2. PICK settlement :
               settlement = [outcome |-> outcome, focus |-> {}, nodes |-> {},
                             version |-> data_version]
        OBVIOUS
      <4>3. settlement.version = data_version
        BY <4>2
      <4> QED
        BY <4>1, <4>2, <4>3
    <3> QED
      BY <1>6, <3>1, <3>2
  <2>2. /\ settled'[r].version = data_version
        /\ \A q \in Requests : q # r => settled'[q] = settled[q]
    BY <1>4, <2>1
  <2>3. PICK channels : channels = [live[r] EXCEPT !.focus = focus]
    OBVIOUS
  <2>4. Mentions(channels, conv[r])
    BY <1>3, <2>1, <2>3 DEF Channels, Mentions
  <2> QED
    BY <1>2, <1>s, <2>1, <2>2, <2>3, <2>4, StepKeepsMentions
<1>7. stage[r] \in Answered => settled[r].version = data_version
  BY <1>2 DEF MentionOK
<1>8. CASE MergeSessionGraph(r)
  <2> DEFINE delta == [version |-> data_version, nodes |-> settled[r].nodes]
             merged == [version |-> data_version, nodes |-> MergedNodes(live[r].graph, delta)]
  <2>1. /\ stage[r] = "merge_session_graph" /\ settled' = settled
        /\ Step(r, WithGraph(live[r], merged), "compact_turns")
    BY <1>8 DEF MergeSessionGraph, WithGraph
  <2> HIDE DEF merged
  <2>2. PICK channels : channels = WithGraph(live[r], merged)
    OBVIOUS
  <2>3. Mentions(channels, conv[r])
    BY <1>3, <2>1, <2>2 DEF Channels, WithGraph, Mentions
  <2>4. settled'[r].version = data_version
    BY <1>7, <2>1 DEF Answered
  <2> QED
    BY <1>2, <1>s, <2>1, <2>2, <2>3, <2>4, StepKeepsMentions
<1>9. CASE CompactSession(r)
  <2>1. PICK channels :
           /\ channels = Compacted(live[r], r) /\ Step(r, channels, "return")
           /\ stage[r] = "compact_session" /\ settled' = settled
    BY <1>9 DEF CompactSession
  <2>2. Mentions(channels, conv[r])
    BY <1>3, <2>1 DEF Channels, Compacted, Mentions
  <2>3. settled'[r].version = data_version
    BY <1>7, <2>1 DEF Answered
  <2> QED
    BY <1>2, <1>s, <2>1, <2>2, <2>3, StepKeepsMentions
<1> QED
  BY <1>5, <1>6, <1>8, <1>9

\* What compact_turns takes into the summaries is of the current data, of the turn,
\* and of turns that are remembered.
LEMMA CompactTurnsKeepsMentions ==
  ASSUME SessionInv, MentionInv, [Next]_vars, NEW r \in Requests, CompactTurns(r),
         NEW p \in Requests, conv[p] \in Conversations
  PROVE  MentionOK(p)'
<1>n. PICK n : n = NumberToCompact(Append(live[r].recent, r))
  OBVIOUS
<1>v. PICK versions :
         versions = FocusVersions(live[r].focus, Append(live[r].recent, r), n)
  OBVIOUS
<1>1. /\ stage[r] = "compact_turns" /\ stage[r] \in Before /\ stage[r] \in Holding
      /\ n \in Nat /\ versions \in SUBSET Versions /\ stage'[r] = "compact_session"
      /\ live'[r] = Summarized(live[r], n, versions)
      /\ DOMAIN unsaved'[r] = DOMAIN unsaved[r]
      /\ \A q \in Requests : q # r =>
           stage'[q] = stage[q] /\ live'[q] = live[q] /\ unsaved'[q] = unsaved[q]
      /\ \A i \in DOMAIN unsaved[r] :
           unsaved'[r][i].channels =
             IF SharesSummary(unsaved[r][i].channels)
             THEN Summarized(unsaved[r][i].channels, n, versions)
             ELSE unsaved[r][i].channels
      /\ UNCHANGED <<conv, settled, data_version, remembered>>
  BY <1>n, <1>v, CompactTurnsLeaves
<1>2. CASE p # r
  BY <1>1, <1>2, MentionStays
<1>3. CASE p = r
  <2>1. /\ TurnOK(r) /\ MentionOK(r) /\ unsaved[r] \in Seq(Copies)
        /\ live[r] \in Channels /\ live[r].version = data_version
    BY <1>1, <1>3, HolderIsAlone, Sent DEF MentionInv, TurnOK
  <2>2. settled[r].version = data_version
    BY <1>1, <2>1 DEF MentionOK, Answered
  <2>3. versions \subseteq {data_version} \cup VersionsRun(conv[r])
    <3>1. versions \subseteq {data_version, settled[r].version}
                               \cup {settled[q].version : q \in Elements(Turns(r))}
      BY <1>n, <1>v, <1>1, FocusVersionsRun
    <3> QED
      BY <2>2, <3>1 DEF VersionsRun, Turns
  <2>4. VersionsRun(conv[r])' = VersionsRun(conv[r])
    BY <1>1 DEF VersionsRun
  <2>5. ASSUME NEW s \in Channels, Mentions(s, conv[r]), s.version = data_version
        PROVE  Mentions(Summarized(s, n, versions), conv[r])
    <3>1. /\ Summarized(s, n, versions).version = s.version
          /\ Summarized(s, n, versions).mentioned = s.mentioned \cup versions
      BY DEF Summarized, Channels
    <3> QED
      BY <2>3, <2>5, <3>1 DEF Mentions
  <2>6. Mentions(live'[r], conv[r])
    BY <1>1, <2>1, <2>5 DEF MentionOK, Begins
  <2>7. ASSUME NEW i \in DOMAIN unsaved[r] PROVE Mentions(unsaved'[r][i].channels, conv[r])
    <3>1. unsaved[r][i] \in Copies
      BY <2>1
    <3>2. PICK s \in Channels : s = unsaved[r][i].channels
      BY <3>1 DEF Copies
    <3>3. Mentions(s, conv[r])
      BY <2>1, <3>2 DEF MentionOK
    <3>4. SharesSummary(s) => s.version = data_version
      BY DEF SharesSummary, Rollover
    <3> QED
      BY <1>1, <2>5, <3>2, <3>3, <3>4
  <2>8. Mentions(live[r], conv[r])'
    BY <1>1, <2>4, <2>6 DEF Mentions
  <2>9. \A i \in DOMAIN unsaved'[r] : Mentions(unsaved[r][i].channels, conv[r])'
    BY <1>1, <2>4, <2>7 DEF Mentions
  <2> QED
    BY <1>1, <1>3, <2>2, <2>8, <2>9 DEF MentionOK
<1> QED
  BY <1>2, <1>3

\* Every other step makes no copies.
LEMMA OtherKeepsMentions ==
  ASSUME SessionInv, MentionInv, [Next]_vars, NEW p \in Requests, conv[p] \in Conversations,
         \/ \E r \in Requests, c \in Conversations : Submit(r, c)
         \/ \E r \in Requests : Acquire(r) \/ Checkpoint(r) \/ Return(r)
         \/ \E r \in Requests : Abort(r) \/ SaveGraph(r) \/ SaveGraphFails(r)
         \/ Restart \/ UNCHANGED vars
  PROVE  MentionOK(p)'
<1>t. /\ stage \in [Requests -> Stages] /\ conv \in [Requests -> Conversations \cup {None}]
      /\ unsaved \in [Requests -> Seq(Copies)] /\ live \in [Requests -> Channels \cup {None}]
  BY DEF SessionInv, TypeOK
<1>1. ASSUME NEW r \in Requests, NEW c \in Conversations, Submit(r, c) PROVE MentionOK(p)'
  <2>1. /\ conv[r] = None /\ conv' = [conv EXCEPT ![r] = c]
        /\ stage' = [stage EXCEPT ![r] = "lock"]
        /\ UNCHANGED <<live, unsaved, settled, data_version>>
    BY <1>1 DEF Submit, GoTo
  <2>2. p # r
    BY <2>1, SessionAssumption
  <2>3. conv'[p] = conv[p] /\ stage'[p] = stage[p]
    BY <1>t, <2>1, <2>2
  <2> QED
    BY <2>1, <2>3, MentionStays
<1>2. ASSUME NEW r \in Requests, Acquire(r) PROVE MentionOK(p)'
  <2>1. /\ stage' = [stage EXCEPT ![r] = "begin_turn"]
        /\ UNCHANGED <<conv, live, unsaved, settled, data_version>>
    BY <1>2 DEF Acquire, GoTo
  <2>2. stage'[p] = "begin_turn" \/ stage'[p] = stage[p]
    BY <1>t, <2>1
  <2>3. "begin_turn" \notin Begins \cup Answered
    BY DEF Begins, Before, Answered
  <2> QED
    BY <2>1, <2>2, <2>3, MentionStays
<1>3. ASSUME NEW r \in Requests, Checkpoint(r) PROVE MentionOK(p)'
  <2>1. /\ unsaved[r] # <<>> /\ unsaved' = [unsaved EXCEPT ![r] = Tail(@)]
        /\ UNCHANGED <<conv, stage, live, settled, data_version>>
    BY <1>3 DEF Checkpoint
  <2>2. \A i \in DOMAIN unsaved'[p] :
          \E j \in DOMAIN unsaved[p] : unsaved'[p][i] = unsaved[p][j]
    <3>1. CASE p # r
      BY <1>t, <2>1, <3>1
    <3>2. CASE p = r
      <4>1. PICK copies \in Seq(Copies) : copies = unsaved[r]
        BY <1>t
      <4>2. copies # <<>> /\ unsaved'[r] = Tail(copies)
        BY <1>t, <2>1, <4>1
      <4>3. ASSUME NEW i \in DOMAIN Tail(copies)
            PROVE  \E j \in DOMAIN copies : Tail(copies)[i] = copies[j]
        <5>1. Tail(copies) \in Seq(Copies) /\ Len(Tail(copies)) = Len(copies) - 1
          BY <4>2
        <5>2. i \in 1..(Len(copies) - 1)
          BY <5>1
        <5>3. Tail(copies)[i] = copies[i + 1]
          BY <4>2, <5>2
        <5>4. i + 1 \in DOMAIN copies
          BY <5>2
        <5> QED
          BY <5>3, <5>4
      <4> QED
        BY <3>2, <4>1, <4>2, <4>3
    <3> QED
      BY <3>1, <3>2
  <2> QED
    BY <2>1, <2>2, MentionStays
<1>4. ASSUME NEW r \in Requests, Return(r) PROVE MentionOK(p)'
  <2>1. /\ stage[r] = "return" /\ stage' = [stage EXCEPT ![r] = "save"]
        /\ UNCHANGED <<conv, live, unsaved, settled, data_version>>
    BY <1>4 DEF Return, GoTo
  <2>2. stage[p] \in Begins \cap Answered \/ stage'[p] = stage[p]
    BY <1>t, <2>1 DEF Begins, Answered
  <2> QED
    BY <2>1, <2>2, MentionStays
<1>5. ASSUME NEW r \in Requests, Abort(r) \/ SaveGraph(r) \/ SaveGraphFails(r)
      PROVE  MentionOK(p)'
  <2>1. PICK how \in {"replied", "error"} : /\ End(r, how)
                                            /\ UNCHANGED <<conv, settled, data_version>>
    BY <1>5 DEF Abort, SaveGraph, SaveGraphFails
  <2>2. /\ stage'[p] = how \/ (stage'[p] = stage[p] /\ live'[p] = live[p])
        /\ unsaved'[p] = <<>> \/ unsaved'[p] = unsaved[p]
    <3>1. /\ stage' = [stage EXCEPT ![r] = how] /\ live' = [live EXCEPT ![r] = None]
          /\ unsaved' = [unsaved EXCEPT ![r] = <<>>]
      BY <2>1 DEF End, GoTo
    <3>2. CASE p = r
      <4>1. stage'[r] = how
        BY <1>t, <3>1
      <4>2. unsaved'[r] = <<>>
        BY <1>t, <3>1
      <4> QED
        BY <3>2, <4>1, <4>2
    <3>3. CASE p # r
      BY <1>t, <3>1, <3>3
    <3> QED
      BY <3>2, <3>3
  <2>3. how \notin Begins \cup Answered
    BY DEF Begins, Before, Answered
  <2> QED
    BY <2>1, <2>2, <2>3, MentionStays
<1>6. CASE Restart
  <2>1. /\ stage'[p] \notin Begins \cup Answered /\ unsaved'[p] = <<>> /\ conv' = conv
    BY <1>6 DEF Restart, Ended, Begins, Before, Answered
  <2> QED
    BY <2>1, MentionStays
<1>7. CASE UNCHANGED vars
  BY <1>7, MentionStays DEF vars, requestVars
<1> QED
  BY <1>1, <1>2, <1>3, <1>4, <1>5, <1>6, <1>7

\* Every step keeps the invariant.
LEMMA MentionInvStep == SessionInv /\ MentionInv /\ [Next]_vars => MentionInv'
<1> SUFFICES ASSUME SessionInv, MentionInv, [Next]_vars PROVE MentionInv'
  OBVIOUS
<1>1. ASSUME NEW c \in Conversations PROVE Mentions(stored[c], c)'
  <2>1. Mentions(stored'[c], c)
    <3>1. ASSUME NEW q \in Requests, NEW i \in DOMAIN unsaved[q], conv[q] = c
          PROVE  Mentions(unsaved[q][i].channels, c)
      BY <3>1, SessionAssumption DEF MentionInv, MentionOK
    <3> QED
      BY <3>1, StoredIsCopy DEF MentionInv
  <2> QED
    BY <2>1, VersionsRunGrow DEF Mentions
<1>2. ASSUME NEW p \in Requests, conv[p] \in Conversations PROVE MentionOK(p)'
  <2>1. ASSUME NEW r \in Requests, Work(r) PROVE MentionOK(p)'
    BY <1>2, <2>1, SuperstepKeepsMentions, CompactTurnsKeepsMentions, OtherKeepsMentions
    DEF Work
  <2> QED
    BY <1>2, <2>1, OtherKeepsMentions DEF Next
<1>3. ASSUME NEW p \in Requests, conv[p] = None, conv'[p] # None PROVE MentionOK(p)'
  <2>1. /\ unsaved[p] = <<>> /\ stage \in [Requests -> Stages]
        /\ \A q \in Requests : stage[q] \in Holding => conv[q] # None
    BY <1>3, Sent, HolderIsAlone DEF SessionInv, TypeOK, UnsentOK
  <2>2. ASSUME NEW r \in Requests, NEW c \in Conversations, Submit(r, c)
        PROVE  unsaved' = unsaved /\ (p = r => stage'[p] = "lock") /\ p = r
    BY <1>3, <2>1, <2>2 DEF Submit, GoTo, SessionInv, TypeOK
  <2>3. ASSUME NEW r \in Requests, Work(r) PROVE conv' = conv
    BY <2>3 DEF Work, Acquire, BeginTurn, Succeed, Explain, MergeSessionGraph, CompactTurns,
       CompactSession, Checkpoint, Return, Abort, SaveGraph, SaveGraphFails, Step, StepAfter
  <2>4. Restart \/ UNCHANGED vars => conv' = conv
    BY DEF Restart, vars, requestVars
  <2>5. unsaved'[p] = <<>> /\ stage'[p] = "lock"
    BY <1>3, <2>1, <2>2, <2>3, <2>4 DEF Next
  <2> QED
    BY <2>5 DEF MentionOK, Begins, Before, Answered
<1>4. conv \in [Requests -> Conversations \cup {None}]
  BY DEF SessionInv, TypeOK
<1> QED
  BY <1>1, <1>2, <1>3, <1>4 DEF MentionInv

\* For any number of requests and versions: a checkpoint never has facts of two data
\* versions - its graph, latest_graph_id and what the summary confirms are of one -
\* and what the summary mentions besides is of data that a remembered turn ran on.
THEOREM CheckpointHasOneVersion == Spec => []OneDataVersion
<1>1. Init => MentionInv
  BY MentionInvInit
<1>2. SessionInv /\ MentionInv /\ [Next]_vars => MentionInv'
  BY MentionInvStep
<1>3. SessionInv /\ MentionInv => OneDataVersion
  BY DEF SessionInv, ConversationOK, Sound, MentionInv, Mentions, OneDataVersion
<1> QED
  BY <1>1, <1>2, <1>3, SessionInvAlways, PTL DEF Spec
=============================================================================
