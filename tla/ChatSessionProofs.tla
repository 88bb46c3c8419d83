------------------------- MODULE ChatSessionProofs -------------------------
(***************************************************************************)
(* For any three time limits in the order the deployment keeps: as long as *)
(* the network loses nothing and no save takes its time, the browser gives *)
(* up no request that the service still works on. The argument is about    *)
(* clocks: the one request alive is the one the browser waits for, its     *)
(* turn began in the tick the request was sent, so the two clocks agree    *)
(* and the turn's limit strikes first.                                     *)
(*                                                                         *)
(* And whatever is lost, given up, retried or reset: the chat is one       *)
(* conversation, and its last answer the last word of it. The argument is  *)
(* about the lock: the request awaited is the last one sent, so none of    *)
(* its conversation can come after it, and the lock lets none before it    *)
(* be left. That a retry keeps questions, answers and their order is an    *)
(* induction over the chat, from the well-foundedness of the numbers.      *)
(***************************************************************************)
EXTENDS ChatSession, TLAPS, WellFoundedInduction

Request ==
    [conversation : Nat, query : Queries, stage : Stages, status : Statuses,
     ran : 0..ChatTimeout]

\* A turn to be saved has its verdict, one that waits has not run.
Sound(request) ==
    /\ request.stage = "saving" => request.status \in {"success", "failed"}
    /\ request.stage = "waiting" => request.ran = 0

\* The types of all variables but the messages, the history and the store.
ServiceType ==
    /\ conversationId \in Nat
    /\ inFlight \in 0..Len(requests)
    /\ retryQuery \subseteq Queries
    /\ age \in Nat /\ hung \in BOOLEAN /\ disturbed \in BOOLEAN
    /\ response \in [status : Statuses, request : Nat]
    /\ requests \in Seq(Request)
    /\ \A r \in DOMAIN requests : Sound(requests[r])

\* The clock of the browser and the clock of the turn.
ClocksAgree ==
    /\ requests[inFlight].stage \in {"waiting", "running", "saving"}
    /\ requests[inFlight].stage = "waiting" => age = 0
    /\ requests[inFlight].stage = "running" => age = requests[inFlight].ran
    /\ requests[inFlight].stage = "saving" => age <= ChatTimeout

Undisturbed ==
    /\ ~hung
    /\ \A r \in Live : r = inFlight
    /\ isLoading /\ response = NoResponse => ClocksAgree
    /\ response # NoResponse => Live = {}

ChatInv == ServiceType /\ (~disturbed => Undisturbed)

-----------------------------------------------------------------------------

\* The literals the steps write are of their types.
LEMMA Constants ==
  /\ {"waiting", "running", "saving", "done"} \subseteq Stages
  /\ {"none", "success", "failed", "error"} \subseteq Statuses
  /\ 0 \in 0..ChatTimeout
  /\ NoResponse \in [status : Statuses, request : Nat]
  BY TimeoutAssumption DEF Stages, Statuses, NoResponse

\* A request that is done with keeps its type.
LEMMA DoneIsARequest ==
  ASSUME NEW request \in Request
  PROVE  Done(request) \in Request /\ Done(request).stage = "done" /\ Sound(Done(request))
<1>1. Done(request) \in Request /\ Done(request).stage = "done"
  BY Constants DEF Done, Request
<1> QED
  BY <1>1 DEF Sound

\* The new conversation has no request yet.
LEMMA ChatInvInit == Init => ChatInv
<1> SUFFICES ASSUME Init PROVE ChatInv
  OBVIOUS
<1>1. requests = <<>> /\ requests \in Seq(Request) /\ Len(requests) = 0 /\ DOMAIN requests = {}
  BY DEF Init
<1>2. ServiceType
  <2>1. response \in [status : Statuses, request : Nat]
    BY Constants DEF Init
  <2>2. inFlight \in 0..Len(requests) /\ \A r \in DOMAIN requests : Sound(requests[r])
    BY <1>1 DEF Init
  <2>3. /\ conversationId \in Nat /\ retryQuery \subseteq Queries
        /\ age \in Nat /\ hung \in BOOLEAN /\ disturbed \in BOOLEAN
    BY DEF Init
  <2> QED
    BY <1>1, <2>1, <2>2, <2>3 DEF ServiceType
<1>3. Undisturbed
  BY <1>1 DEF Init, Undisturbed, Live, isLoading
<1> QED
  BY <1>2, <1>3 DEF ChatInv

\* A request is done with: its entry keeps its type, the others do not change.
LEMMA DoneRequest ==
  ASSUME ServiceType, NEW r \in DOMAIN requests,
         requests' = [requests EXCEPT ![r] = Done(@)]
  PROVE  /\ requests' \in Seq(Request)
         /\ Len(requests') = Len(requests)
         /\ \A s \in DOMAIN requests' : Sound(requests'[s])
         /\ Live' = Live \ {r}
<1>1. requests[r] \in Request
  BY DEF ServiceType
<1>2. Done(requests[r]) \in Request /\ Done(requests[r]).stage = "done" /\ Sound(Done(requests[r]))
  BY <1>1, DoneIsARequest
<1>3. /\ DOMAIN requests' = DOMAIN requests
      /\ requests'[r] = Done(requests[r])
      /\ \A s \in DOMAIN requests : s # r => requests'[s] = requests[s]
  BY DEF ServiceType
<1>4. requests' \in Seq(Request) /\ Len(requests') = Len(requests)
  BY <1>2 DEF ServiceType
<1>5. Live' = Live \ {r}
  BY <1>2, <1>3 DEF Live
<1>6. \A s \in DOMAIN requests' : Sound(requests'[s])
  BY <1>2, <1>3 DEF ServiceType
<1> QED
  BY <1>4, <1>5, <1>6

\* A new request is waiting, and the old ones are as they were.
LEMMA PostedRequest ==
  ASSUME ServiceType, NEW query \in Queries, Post(query)
  PROVE  /\ requests' \in Seq(Request)
         /\ inFlight' = Len(requests') /\ inFlight' # 0
         /\ \A s \in DOMAIN requests' : Sound(requests'[s])
         /\ requests'[inFlight'].stage = "waiting"
         /\ Live' = Live \cup {inFlight'}
<1> DEFINE entry == [conversation |-> ConversationSent(Len(requests) + 1), query |-> query,
                     stage |-> "waiting", status |-> "none", ran |-> 0]
<1>1. entry \in Request
  BY TimeoutAssumption DEF Request, ConversationSent, Stages, Statuses, ServiceType
<1>2. requests' = Append(requests, entry) /\ inFlight' = Len(requests) + 1
  BY DEF Post
<1> HIDE DEF entry
<1>3. /\ requests' \in Seq(Request) /\ Len(requests') = Len(requests) + 1
      /\ requests'[Len(requests) + 1] = entry
      /\ \A s \in DOMAIN requests : requests'[s] = requests[s]
      /\ DOMAIN requests' = DOMAIN requests \cup {Len(requests) + 1}
      /\ Len(requests) + 1 \notin DOMAIN requests
  BY <1>1, <1>2 DEF ServiceType
<1>4. entry.stage = "waiting" /\ Sound(entry)
  BY DEF entry, Sound
<1>5. /\ inFlight' = Len(requests') /\ inFlight' # 0
      /\ requests'[inFlight'].stage = "waiting"
  BY <1>2, <1>3, <1>4 DEF ServiceType
<1>6. \A s \in DOMAIN requests' : Sound(requests'[s])
  BY <1>3, <1>4 DEF ServiceType
<1>7. Live' = Live \cup {inFlight'}
  BY <1>2, <1>3, <1>4 DEF Live
<1> QED
  BY <1>3, <1>5, <1>6, <1>7

-----------------------------------------------------------------------------
(* Each kind of step keeps the invariant.                                  *)

\* A request is sent: it is the one awaited, and both clocks are at zero.
LEMMA PostStep ==
  ASSUME ChatInv, NEW query \in Queries, Post(query), ~isLoading
  PROVE  ChatInv'
<1>1. ServiceType'
  <2>1. response' \in [status : Statuses, request : Nat]
    BY Constants DEF Post
  <2>2. inFlight' \in 0..Len(requests')
    BY PostedRequest DEF ChatInv
  <2>3. requests' \in Seq(Request) /\ \A r \in DOMAIN requests' : Sound(requests'[r])
    BY PostedRequest DEF ChatInv
  <2>4. /\ conversationId' \in Nat /\ retryQuery' \subseteq Queries
        /\ age' \in Nat /\ hung' \in BOOLEAN /\ disturbed' \in BOOLEAN
    BY DEF Post, RetryWhilePosted, ChatInv, ServiceType
  <2> QED
    BY <2>1, <2>2, <2>3, <2>4 DEF ServiceType
<1>2. ASSUME ~disturbed' PROVE Undisturbed'
  <2>1. ~disturbed /\ Undisturbed
    BY <1>2 DEF Post, ChatInv
  <2>2. Live = {}
    BY <2>1 DEF Undisturbed, isLoading, Live, ChatInv, ServiceType
  <2> QED
    BY <2>2, PostedRequest DEF ChatInv, Undisturbed, ClocksAgree, Post, NoResponse
<1> QED
  BY <1>1, <1>2 DEF ChatInv

\* The service is done with r and returns a status.
LEMMA ReturnStep ==
  ASSUME ChatInv, NEW r \in Live, NEW status \in {"success", "failed", "error"},
         requests' = [requests EXCEPT ![r] = Done(@)],
         Return(r, status),
         UNCHANGED <<browser, age, hung, disturbed>>
  PROVE  ChatInv'
<1>1. r \in DOMAIN requests
  BY DEF Live
<1>2. response' \in [status : Statuses, request : Nat]
  BY <1>1 DEF Return, ChatInv, ServiceType, Statuses
<1>3. ServiceType'
  BY <1>1, <1>2, DoneRequest DEF ChatInv, ServiceType, browser
<1>4. ASSUME ~disturbed' PROVE Undisturbed'
  <2>1. ~disturbed /\ Undisturbed
    BY <1>4 DEF ChatInv
  <2>2. IsAwaited(r) /\ response = NoResponse /\ Live \subseteq {r}
    BY <2>1 DEF Undisturbed, IsAwaited
  <2>3. response' # NoResponse
    BY <2>2 DEF Return, NoResponse
  <2>4. Live' = {}
    BY <1>1, <2>2, DoneRequest DEF ChatInv
  <2> QED
    BY <2>1, <2>3, <2>4 DEF Undisturbed
<1> QED
  BY <1>3, <1>4 DEF ChatInv

\* A live request comes to its next stage.
LEMMA StageStep ==
  ASSUME ChatInv, NEW r \in Live,
         \/ Acquire(r)
         \/ \E status \in {"success", "failed"} : TurnEnds(r, status)
  PROVE  ChatInv'
<1> DEFINE entry == requests'[r]
<1>1. r \in DOMAIN requests /\ requests[r] \in Request /\ Sound(requests[r])
  BY DEF Live, ChatInv, ServiceType
<1> DEFINE Advanced ==
             /\ requests' \in Seq(Request) /\ Len(requests') = Len(requests)
             /\ DOMAIN requests' = DOMAIN requests
             /\ \A s \in DOMAIN requests : s # r => requests'[s] = requests[s]
             /\ entry.ran = requests[r].ran
             /\ \/ requests[r].stage = "waiting" /\ entry.stage = "running"
                \/ /\ requests[r].stage = "running" /\ entry.stage = "saving"
                   /\ entry.status \in {"success", "failed"}
<1>2. Advanced
  <2>1. CASE Acquire(r)
    <3>1. entry = [requests[r] EXCEPT !.stage = "running"] /\ requests[r].stage = "waiting"
      BY <1>1, <2>1 DEF Acquire, CanAcquire, ChatInv, ServiceType
    <3>2. /\ entry \in Request /\ entry.ran = requests[r].ran /\ entry.stage = "running"
      BY <1>1, <3>1, Constants DEF Request
    <3> QED
      BY <1>1, <2>1, <3>1, <3>2 DEF Acquire, ChatInv, ServiceType
  <2>2. ASSUME NEW status \in {"success", "failed"}, TurnEnds(r, status) PROVE Advanced
    <3>1. /\ entry = [requests[r] EXCEPT !.stage = "saving", !.status = status]
          /\ requests[r].stage = "running"
      BY <1>1, <2>2 DEF TurnEnds, ChatInv, ServiceType
    <3>2. /\ entry \in Request /\ entry.ran = requests[r].ran /\ entry.stage = "saving"
          /\ entry.status = status
      <4>1. status \in Statuses /\ "saving" \in Stages
        BY <2>2, Constants
      <4> QED
        BY <1>1, <3>1, <4>1 DEF Request
    <3>3. requests \in Seq(Request) /\ requests' = [requests EXCEPT ![r] = entry]
      BY <1>1, <2>2 DEF TurnEnds, ChatInv, ServiceType
    <3> HIDE DEF entry
    <3>4. /\ requests' \in Seq(Request) /\ Len(requests') = Len(requests)
          /\ DOMAIN requests' = DOMAIN requests
          /\ \A s \in DOMAIN requests : s # r => requests'[s] = requests[s]
      BY <1>1, <3>2, <3>3
    <3> QED
      BY <2>2, <3>1, <3>2, <3>4
  <2> QED
    BY <2>1, <2>2
<1>3. UNCHANGED <<browser, network, disturbed>>
  BY DEF Acquire, TurnEnds
<1>4. ServiceType'
  BY <1>1, <1>2, <1>3 DEF ChatInv, ServiceType, Sound, browser, network
<1>5. Live' = Live
  BY <1>1, <1>2 DEF Live
<1>6. ASSUME ~disturbed' PROVE Undisturbed'
  BY <1>1, <1>2, <1>3, <1>5, <1>6
     DEF ChatInv, ServiceType, Undisturbed, ClocksAgree, browser, network, isLoading, Sound,
         Request, NoResponse
<1> QED
  BY <1>4, <1>6 DEF ChatInv

\* The process is restarted.
LEMMA RestartStep ==
  ASSUME ChatInv, Restart
  PROVE  ChatInv'
<1>1. \A r \in DOMAIN requests :
         /\ requests[r] \in Request /\ Sound(requests[r])
         /\ Done(requests[r]) \in Request /\ Done(requests[r]).stage = "done"
         /\ Sound(Done(requests[r]))
  BY DoneIsARequest DEF ChatInv, ServiceType
<1>2. /\ requests' \in Seq(Request) /\ Len(requests') = Len(requests)
      /\ DOMAIN requests' = DOMAIN requests
      /\ \A r \in DOMAIN requests : requests'[r] \in {requests[r], Done(requests[r])}
      /\ Live' = {}
  BY <1>1 DEF Restart, ChatInv, ServiceType, Live
<1>3. response' \in [status : Statuses, request : Nat]
  BY DEF Restart, ChatInv, ServiceType, Statuses
<1>4. ServiceType'
  BY <1>1, <1>2, <1>3 DEF Restart, ChatInv, ServiceType, Sound, browser
<1>5. ASSUME ~disturbed' PROVE Undisturbed'
  <2>1. ~disturbed /\ Undisturbed /\ Live # {}
    BY <1>5 DEF ChatInv, Restart
  <2>2. PICK r \in Live : IsAwaited(r) /\ response = NoResponse
    BY <2>1 DEF Undisturbed, IsAwaited
  <2>3. response' # NoResponse
    BY <2>2 DEF Restart, NoResponse
  <2> QED
    BY <1>2, <2>1, <2>3 DEF Restart, Undisturbed
<1> QED
  BY <1>4, <1>5 DEF ChatInv

\* The wait ends with a response, an error or a lost connection.
LEMMA SettledStep ==
  ASSUME ChatInv, isLoading, Settled, conversationId' \in Nat, retryQuery' \subseteq Queries,
         UNCHANGED requests, disturbed' \in BOOLEAN,
         disturbed' \/ (response # NoResponse /\ disturbed' = disturbed)
  PROVE  ChatInv'
<1>1. ServiceType'
  <2>1. response' \in [status : Statuses, request : Nat]
    BY Constants DEF Settled
  <2>2. inFlight' \in 0..Len(requests')
    BY DEF ChatInv, ServiceType, Settled
  <2>3. requests' \in Seq(Request) /\ \A r \in DOMAIN requests' : Sound(requests'[r])
    BY DEF ChatInv, ServiceType
  <2>4. age' \in Nat /\ hung' \in BOOLEAN 
    BY DEF Settled
  <2> QED
    BY <2>1, <2>2, <2>3, <2>4 DEF ServiceType
<1>2. ASSUME ~disturbed' PROVE Undisturbed'
  BY <1>2 DEF ChatInv, Undisturbed, Settled, NoResponse, Live, isLoading
<1> QED
  BY <1>1, <1>2 DEF ChatInv

\* What the browser gives up after an error is a query of its own.
LEMMA InFlightQuery ==
  ASSUME ChatInv, isLoading
  PROVE  requests[inFlight] \in Request
  BY DEF ChatInv, ServiceType, isLoading

\* Undisturbed, neither the proxy nor the browser runs out of patience before
\* the service has returned.
LEMMA PatienceSuffices ==
  ASSUME ChatInv, ~disturbed, isLoading, response = NoResponse
  PROVE  age < ProxyTimeout /\ age < BrowserTimeout
<1>1. ClocksAgree
  BY DEF ChatInv, Undisturbed
<1>2. requests[inFlight].ran <= ChatTimeout /\ requests[inFlight].ran \in Nat
  BY InFlightQuery, TimeoutAssumption DEF Request
<1>3. age \in Nat /\ age <= ChatTimeout
  BY <1>1, <1>2, TimeoutAssumption DEF ClocksAgree, ChatInv, ServiceType
<1> QED
  BY <1>3, TimeoutAssumption

\* A tick moves the browser's clock and those of the running turns alike.
LEMMA TickStep ==
  ASSUME ChatInv, Tick
  PROVE  ChatInv'
<1>1. \A r \in DOMAIN requests :
         /\ requests[r] \in Request /\ Sound(requests[r])
         /\ requests[r].stage = "running" => requests[r].ran + 1 \in 0..ChatTimeout
  <2> SUFFICES ASSUME NEW r \in DOMAIN requests
               PROVE  /\ requests[r] \in Request /\ Sound(requests[r])
                      /\ requests[r].stage = "running" => requests[r].ran + 1 \in 0..ChatTimeout
    OBVIOUS
  <2>1. requests[r] \in Request /\ Sound(requests[r])
    BY DEF ChatInv, ServiceType
  <2>2. requests[r].ran \in 0..ChatTimeout
    BY <2>1 DEF Request
  <2>3. requests[r].stage = "running" => ~(requests[r].ran >= ChatTimeout)
    BY DEF Tick, SomethingIsDue, Expired
  <2> QED
    BY <2>1, <2>2, <2>3, TimeoutAssumption
<1>2. \A r \in DOMAIN requests :
         IF requests[r].stage = "running"
         THEN /\ requests'[r] \in Request
              /\ requests'[r].stage = "running" /\ requests'[r].ran = requests[r].ran + 1
         ELSE requests'[r] = requests[r]
  BY <1>1 DEF Tick, Request
<1>3. /\ requests' \in Seq(Request) /\ Len(requests') = Len(requests)
      /\ DOMAIN requests' = DOMAIN requests
  <2>1. requests \in Seq(Request) /\ Len(requests) \in Nat /\ DOMAIN requests = 1..Len(requests)
    BY DEF ChatInv, ServiceType
  <2>2. DOMAIN requests' = DOMAIN requests /\ requests' = [r \in DOMAIN requests |-> requests'[r]]
    BY DEF Tick
  <2>3. \A r \in DOMAIN requests : requests'[r] \in Request
    BY <1>1, <1>2
  <2> QED
    BY <2>1, <2>2, <2>3
<1>4. Live' = Live
  BY <1>2, <1>3 DEF Live
<1>5. age' \in Nat /\ disturbed' \in BOOLEAN
  BY DEF Tick, ChatInv, ServiceType
<1>6. ServiceType'
  BY <1>1, <1>2, <1>3, <1>5 DEF Tick, ChatInv, ServiceType, Sound, browser
<1>7. ASSUME ~disturbed' PROVE Undisturbed'
  <2>1. /\ ~disturbed /\ Undisturbed /\ response = NoResponse
        /\ \A r \in Live : requests[r].stage # "saving"
    BY <1>7 DEF ChatInv, Tick, SomethingIsDue
  <2>2. ASSUME isLoading PROVE ClocksAgree'
    <3>1. ClocksAgree /\ inFlight \in DOMAIN requests /\ inFlight \in Live
      BY <2>1, <2>2 DEF Undisturbed, ClocksAgree, isLoading, ChatInv, ServiceType, Live
    <3>2. requests[inFlight].stage # "waiting"
      BY <2>1, <3>1 DEF Tick, SomethingIsDue, CanAcquire, AheadOf, Undisturbed, ChatInv,
                        ServiceType
    <3>3. requests[inFlight].stage = "running"
      BY <2>1, <3>1, <3>2 DEF ClocksAgree
    <3>4. age' = age + 1
      BY <1>1, <2>1, <2>2, PatienceSuffices DEF Tick
    <3> QED
      BY <1>2, <3>1, <3>3, <3>4 DEF ClocksAgree, Tick, browser
  <2> QED
    BY <1>4, <2>1, <2>2 DEF Undisturbed, Tick, browser, isLoading
<1> QED
  BY <1>6, <1>7 DEF ChatInv

-----------------------------------------------------------------------------

\* Every step of the browser, the proxy and the service keeps the invariant.
LEMMA ChatInvStep == ChatInv /\ [Next]_vars => ChatInv'
<1> SUFFICES ASSUME ChatInv, [Next]_vars PROVE ChatInv'
  OBVIOUS
<1>1. ASSUME NEW query \in Queries, Send(query) PROVE ChatInv'
  BY <1>1, PostStep DEF Send
<1>2. CASE Retry
  BY <1>2, PostStep DEF Retry, ChatInv, ServiceType
<1>3. CASE Reset
  <2>1. ServiceType'
    BY <1>3 DEF Reset, ChatInv, ServiceType, network, service
  <2> QED
    BY <1>3, <2>1 DEF Reset, ChatInv, Undisturbed, ClocksAgree, Live, isLoading, network, service
<1>4. ASSUME NEW r \in DOMAIN requests, NEW status \in {"success", "failed"},
             TurnEnds(r, status)
      PROVE  ChatInv'
  BY <1>4, StageStep DEF TurnEnds, Live
<1>5. ASSUME NEW r \in DOMAIN requests, TurnRaises(r) \/ SaveFails(r) \/ TurnTimesOut(r)
      PROVE  ChatInv'
  BY <1>5, ReturnStep DEF TurnRaises, SaveFails, TurnTimesOut, Expired, Live
<1>6. ASSUME NEW r \in DOMAIN requests, SaveEnds(r) PROVE ChatInv'
  <2>1. r \in Live /\ requests[r].status \in {"success", "failed"}
    BY <1>6 DEF SaveEnds, Live, ChatInv, ServiceType, Sound
  <2> QED
    BY <1>6, <2>1, ReturnStep DEF SaveEnds
<1>7. CASE Restart
  BY <1>7, RestartStep
<1>8. CASE LoseConnection
  BY <1>8, SettledStep, InFlightQuery DEF LoseConnection, Catch, Request, ChatInv, ServiceType, service
<1>9. CASE Hang
  <2>1. ServiceType'
    BY <1>9 DEF Hang, ChatInv, ServiceType, browser, service, NoResponse, Statuses
  <2> QED
    BY <1>9, <2>1 DEF Hang, ChatInv
<1>10. ASSUME NEW r \in DOMAIN requests, Acquire(r) PROVE ChatInv'
  BY <1>10, StageStep DEF Acquire, CanAcquire, Live
<1>11. CASE ReceiveError
  BY <1>11, SettledStep, InFlightQuery
     DEF ReceiveError, Catch, Request, ChatInv, ServiceType, service, NoResponse
<1>12. CASE Receive
  BY <1>12, SettledStep, InFlightQuery
     DEF Receive, Request, ChatInv, ServiceType, service, NoResponse
<1>13. CASE ProxyGivesUp
  BY <1>13, SettledStep, InFlightQuery, PatienceSuffices, TimeoutAssumption
     DEF ProxyGivesUp, ProxyExpired, Catch, Request, ChatInv, ServiceType, service
<1>14. CASE BrowserAborts
  BY <1>14, SettledStep, InFlightQuery, PatienceSuffices, TimeoutAssumption
     DEF BrowserAborts, BrowserExpired, Catch, Request, ChatInv, ServiceType, service
<1>15. CASE Tick
  BY <1>15, TickStep
<1>16. CASE UNCHANGED vars
  <2>1. ServiceType'
    BY <1>16 DEF vars, browser, network, service, ChatInv, ServiceType
  <2> QED
    BY <1>16, <2>1
       DEF vars, browser, network, service, ChatInv, Undisturbed, ClocksAgree, Live, isLoading
<1> QED
  BY <1>1, <1>2, <1>3, <1>4, <1>5, <1>6, <1>7, <1>8, <1>9, <1>10, <1>11, <1>12, <1>13, <1>14,
     <1>15, <1>16 DEF Next, Due

\* For any time limits in order: the browser never gives up a request that the
\* service still works on, unless a connection was lost or a save took its time
\* (REQUEST_TIMEOUT_MS in api.ts against chat_timeout_seconds in service.py).
THEOREM NothingIsLeftRunning == Spec => []NothingRunsUnseen
<1>1. ChatInv => NothingRunsUnseen
  BY DEF ChatInv, ServiceType, Undisturbed, NothingRunsUnseen, isLoading, Live
<1> QED
  BY <1>1, ChatInvInit, ChatInvStep, PTL DEF Spec

-----------------------------------------------------------------------------
(* The conversation behind the chat.                                       *)

\* The types that TypeOK asks for beyond those of ServiceType, and the
\* messages as a sequence.
TalkType ==
    /\ messages \in Seq(MessageType)
    /\ conversationId \in 0..MaxSends /\ graph \in 0..MaxSends
    /\ age <= BrowserTimeout
    /\ response.request \in 0..MaxSends
    /\ Len(requests) <= MaxSends
    /\ \A r \in DOMAIN requests : requests[r].conversation \in Ids
    /\ saved \in [Ids -> 0..MaxSends]
    /\ history \in [Ids -> Seq(Ids)]
    /\ IF isLoading THEN inFlight = Len(requests) ELSE response = NoResponse

Stage(r) == requests[r].stage
Turns(r) == history[requests[r].conversation]
IsLast(r) == Turns(r) # <<>> /\ Turns(r)[Len(Turns(r))] = r

\* Who holds a lock has nobody before it, and a conversation's turns are run in
\* the order in which they were asked for.
LockInv ==
    /\ \A r \in DOMAIN requests : Stage(r) \in {"running", "saving"} => AheadOf(r) = {}
    /\ \A c \in Ids : \A g, h \in DOMAIN history[c] : g < h => history[c][g] < history[c][h]
    /\ \A c \in Ids : \A h \in DOMAIN history[c] : history[c][h] <= Len(requests)
    /\ \A r \in DOMAIN requests :
          Stage(r) \in {"waiting", "running"} => \A h \in DOMAIN Turns(r) : Turns(r)[h] < r
    /\ \A r \in DOMAIN requests : Stage(r) = "saving" => IsLast(r)

\* The service has done all it does for r, and nothing else in r's conversation.
IsFinal(r) ==
    /\ \A s \in Live : requests[s].conversation # requests[r].conversation
    /\ IsLast(r) /\ saved[requests[r].conversation] = r

AnswerIsDue == response.status \in {"success", "failed"}

\* A request the browser waits for goes to the conversation it shows, and an
\* answer on its way is the last word of that conversation.
WaitInv ==
    isLoading =>
       /\ requests[inFlight].conversation = ConversationSent(inFlight)
       /\ AnswerIsDue => IsFinal(inFlight)

\* A question has a query and nothing else.
Questioned == \A i \in DOMAIN messages :
                 messages[i].role = "user" => messages[i] = User(messages[i].query)

\* The question awaited is the last message; a question to retry is the one
\* above the last message, which is a failure.
LastIsPending ==
    /\ isLoading => /\ messages # <<>> /\ retryQuery = {}
                    /\ messages[Len(messages)] = User(requests[inFlight].query)
    /\ \A query \in retryQuery :
          /\ messages # <<>> /\ messages[Len(messages)].query = query
          /\ messages[Len(messages)].role = "assistant" /\ messages[Len(messages)].failed

\* The answers of the chat are turns of its conversation, before the request
\* awaited, and stand in order.
AnswersInv ==
    /\ \A i \in DOMAIN messages : IsAnswer(messages[i]) =>
          /\ messages[i].request \in DOMAIN requests
          /\ isLoading => messages[i].request < inFlight
          /\ requests[messages[i].request].conversation = conversationId
          /\ \E h \in DOMAIN history[conversationId] :
                history[conversationId][h] = messages[i].request
    /\ \A i, j \in DOMAIN messages :
          i < j /\ IsAnswer(messages[i]) /\ IsAnswer(messages[j]) =>
             messages[i].request < messages[j].request

\* The last answer is the last word of the conversation.
RestInv ==
    ~isLoading /\ messages # <<>> /\ IsAnswer(messages[Len(messages)]) =>
       IsFinal(messages[Len(messages)].request) /\ graph = messages[Len(messages)].request

-----------------------------------------------------------------------------
(* What a step does to the requests and to the stores.                     *)

KeepsRequests ==
    /\ DOMAIN requests' = DOMAIN requests /\ Len(requests') = Len(requests)
    /\ \A r \in DOMAIN requests : /\ requests'[r].conversation = requests[r].conversation
                                  /\ requests'[r].query = requests[r].query

MovesOnly(r, stage) ==
    \A s \in DOMAIN requests : requests'[s].stage = IF s = r THEN stage ELSE requests[s].stage

Still ==
    /\ KeepsRequests /\ \A s \in DOMAIN requests : requests'[s].stage = requests[s].stage
    /\ UNCHANGED <<history, saved>>

Acquired(r) ==
    /\ KeepsRequests /\ MovesOnly(r, "running") /\ CanAcquire(r)
    /\ UNCHANGED <<history, saved>>

Ended(r) ==
    /\ KeepsRequests /\ MovesOnly(r, "saving") /\ Stage(r) = "running"
    /\ history' = [history EXCEPT ![requests[r].conversation] = Append(@, r)]
    /\ UNCHANGED saved

SavedBy(r) ==
    /\ KeepsRequests /\ MovesOnly(r, "done") /\ Stage(r) = "saving"
    /\ saved' = [saved EXCEPT ![requests[r].conversation] = r]
    /\ UNCHANGED history

Dropped(S) ==
    /\ KeepsRequests
    /\ \A s \in DOMAIN requests :
          requests'[s].stage = IF s \in S THEN "done" ELSE requests[s].stage
    /\ UNCHANGED <<history, saved>>

Posted ==
    /\ Len(requests') = Len(requests) + 1
    /\ DOMAIN requests' = DOMAIN requests \cup {Len(requests')}
    /\ \A r \in DOMAIN requests : requests'[r] = requests[r]
    /\ requests'[Len(requests')].stage = "waiting"
    /\ requests'[Len(requests')].conversation = ConversationSent(Len(requests'))
    /\ inFlight' = Len(requests')
    /\ UNCHANGED <<history, saved, conversationId>>

Advances == Still \/ (\E r \in DOMAIN requests : Acquired(r) \/ Ended(r) \/ SavedBy(r))
                  \/ (\E S \in SUBSET Live : Dropped(S))

\* A request under way takes its next stage.
LEMMA StageKinds ==
  ASSUME ServiceType, NEW r \in DOMAIN requests
  PROVE  /\ Acquire(r) => Acquired(r)
         /\ \A status \in {"success", "failed"} : TurnEnds(r, status) => Ended(r)
<1>0. requests \in Seq(Request) /\ requests[r] \in Request
  BY DEF ServiceType
<1>1. ASSUME Acquire(r) PROVE Acquired(r)
  <2>1. requests' = [requests EXCEPT ![r].stage = "running"]
    BY <1>1 DEF Acquire
  <2>2. requests' = [requests EXCEPT ![r] = [requests[r] EXCEPT !.stage = "running"]]
    BY <2>1, <1>0
  <2> DEFINE entry == [requests[r] EXCEPT !.stage = "running"]
  <2>3. /\ entry \in Request /\ entry.stage = "running"
        /\ entry.conversation = requests[r].conversation /\ entry.query = requests[r].query
    BY <1>0, Constants DEF Request
  <2> HIDE DEF entry
  <2>4. /\ DOMAIN requests' = DOMAIN requests /\ Len(requests') = Len(requests)
        /\ \A s \in DOMAIN requests : requests'[s] = IF s = r THEN entry ELSE requests[s]
    BY <1>0, <2>2, <2>3 DEF entry
  <2> QED
    BY <1>1, <2>3, <2>4 DEF Acquire, Acquired, KeepsRequests, MovesOnly
<1>2. ASSUME NEW status \in {"success", "failed"}, TurnEnds(r, status) PROVE Ended(r)
  <2>1. requests' = [requests EXCEPT ![r].stage = "saving", ![r].status = status]
    BY <1>2 DEF TurnEnds
  <2>2. requests' = [requests EXCEPT ![r] = [requests[r] EXCEPT !.stage = "saving",
                                                                !.status = status]]
    BY <2>1, <1>0
  <2> DEFINE entry == [requests[r] EXCEPT !.stage = "saving", !.status = status]
  <2>3. /\ entry \in Request /\ entry.stage = "saving"
        /\ entry.conversation = requests[r].conversation /\ entry.query = requests[r].query
    <3>1. status \in Statuses /\ "saving" \in Stages
      BY <1>2, Constants
    <3> QED
      BY <1>0, <3>1 DEF Request
  <2> HIDE DEF entry
  <2>4. /\ DOMAIN requests' = DOMAIN requests /\ Len(requests') = Len(requests)
        /\ \A s \in DOMAIN requests : requests'[s] = IF s = r THEN entry ELSE requests[s]
    BY <1>0, <2>2, <2>3 DEF entry
  <2> QED
    BY <1>2, <2>3, <2>4 DEF TurnEnds, Ended, KeepsRequests, MovesOnly, Stage
<1> QED
  BY <1>1, <1>2

\* A request is done with.
LEMMA DoneKinds ==
  ASSUME ServiceType, NEW r \in DOMAIN requests
  PROVE  /\ SaveEnds(r) => SavedBy(r)
         /\ TurnTimesOut(r) \/ TurnRaises(r) \/ SaveFails(r) => Dropped({r}) /\ r \in Live
<1>1. requests[r] \in Request /\ requests \in Seq(Request)
  BY DEF ServiceType
<1>2. /\ Done(requests[r]).stage = "done"
      /\ Done(requests[r]).conversation = requests[r].conversation
      /\ Done(requests[r]).query = requests[r].query
  BY <1>1 DEF Done, Request
<1>3. ASSUME requests' = [requests EXCEPT ![r] = Done(@)]
      PROVE  KeepsRequests /\ MovesOnly(r, "done")
  <2>1. Done(requests[r]) \in Request
    BY <1>1, DoneIsARequest
  <2>2. /\ DOMAIN requests' = DOMAIN requests /\ Len(requests') = Len(requests)
        /\ \A s \in DOMAIN requests :
              requests'[s] = IF s = r THEN Done(requests[r]) ELSE requests[s]
    BY <1>1, <1>3, <2>1
  <2> QED
    BY <1>2, <2>2 DEF KeepsRequests, MovesOnly
<1>4. SaveEnds(r) => SavedBy(r)
  BY <1>3 DEF SaveEnds, SavedBy, Stage
<1>5. TurnTimesOut(r) \/ TurnRaises(r) \/ SaveFails(r) => Dropped({r}) /\ r \in Live
  BY <1>3 DEF TurnTimesOut, Expired, TurnRaises, SaveFails, Dropped, MovesOnly, Live
<1> QED
  BY <1>4, <1>5

\* All requests are dropped at once, or their clocks run.
LEMMA MassKinds ==
  ASSUME ServiceType
  PROVE  /\ Restart => Dropped(Live)
         /\ Tick => Still
<1>1. \A r \in DOMAIN requests : requests[r] \in Request /\ requests \in Seq(Request)
  BY DEF ServiceType
<1>2. \A r \in DOMAIN requests : /\ Done(requests[r]).stage = "done"
                                 /\ Done(requests[r]).conversation = requests[r].conversation
                                 /\ Done(requests[r]).query = requests[r].query
                                 /\ Done(requests[r]) \in Request
  BY <1>1, DoneIsARequest DEF Done, Request
<1>3. ASSUME Restart PROVE Dropped(Live)
  <2>1. requests' = [r \in DOMAIN requests |->
                       IF r \in Live THEN Done(requests[r]) ELSE requests[r]]
    BY <1>3 DEF Restart
  <2>2. DOMAIN requests' = DOMAIN requests /\ Len(requests') = Len(requests)
    BY <1>1, <1>2, <2>1 DEF ServiceType
  <2> QED
    BY <1>2, <1>3, <2>1, <2>2 DEF Restart, Dropped, KeepsRequests
<1>4. ASSUME Tick PROVE Still
  <2> DEFINE next(r) == [requests[r] EXCEPT !.ran = @ + 1]
  <2>1. \A r \in DOMAIN requests :
           /\ next(r).stage = requests[r].stage /\ next(r).query = requests[r].query
           /\ next(r).conversation = requests[r].conversation
    BY <1>1 DEF Request
  <2>2. requests' = [r \in DOMAIN requests |->
                       IF requests[r].stage = "running" THEN next(r) ELSE requests[r]]
    BY <1>4 DEF Tick
  <2>3. DOMAIN requests' = DOMAIN requests /\ Len(requests') = Len(requests)
    <3>1. DOMAIN requests = 1..Len(requests) /\ Len(requests) \in Nat
      BY DEF ServiceType
    <3> QED
      BY <2>2, <3>1
  <2> HIDE DEF next
  <2> QED
    BY <1>4, <2>1, <2>2, <2>3 DEF Tick, Still, KeepsRequests
<1> QED
  BY <1>3, <1>4

\* A request is sent.
LEMMA PostKind ==
  ASSUME ServiceType, NEW query \in Queries, Post(query)
  PROVE  Posted /\ requests'[inFlight'].query = query
<1> DEFINE entry == [conversation |-> ConversationSent(Len(requests) + 1), query |-> query,
                     stage |-> "waiting", status |-> "none", ran |-> 0]
<1>1. /\ requests' = Append(requests, entry) /\ inFlight' = Len(requests) + 1
      /\ entry.stage = "waiting" /\ entry.query = query
      /\ entry.conversation = ConversationSent(Len(requests) + 1)
  BY DEF Post
<1> HIDE DEF entry
<1>2. requests \in Seq(Request)
  BY DEF ServiceType
<1>3. /\ Len(requests') = Len(requests) + 1
      /\ DOMAIN requests' = DOMAIN requests \cup {Len(requests) + 1}
      /\ \A r \in DOMAIN requests : requests'[r] = requests[r]
      /\ requests'[Len(requests) + 1] = entry
  BY <1>1, <1>2
<1> QED
  BY <1>1, <1>3 DEF Posted, Post

-----------------------------------------------------------------------------
(* The lock of a conversation.                                             *)

\* The requests alive after each kind of step.
LEMMA LiveAfter ==
  ASSUME ServiceType
  PROVE  /\ Still => Live' = Live
         /\ \A r \in DOMAIN requests : Acquired(r) \/ Ended(r) => Live' = Live /\ r \in Live
         /\ \A r \in DOMAIN requests : SavedBy(r) => Live' = Live \ {r} /\ r \in Live
         /\ \A S \in SUBSET Live : Dropped(S) => Live' = Live \ S
         /\ Posted => Live' = Live \cup {Len(requests')}
BY DEF ServiceType, Still, Acquired, Ended, SavedBy, Dropped, Posted, KeepsRequests, MovesOnly,
       CanAcquire, Stage, Live

\* A history is a sequence of numbers; a turn that ends adds its own.
LEMMA EndedHistory ==
  ASSUME TalkType, NEW r \in DOMAIN requests, r \in Ids, Ended(r)
  PROVE  LET c == requests[r].conversation
         IN  /\ c \in Ids
             /\ Len(history'[c]) = Len(history[c]) + 1 /\ history'[c][Len(history'[c])] = r
             /\ DOMAIN history'[c] = DOMAIN history[c] \cup {Len(history[c]) + 1}
             /\ \A h \in DOMAIN history[c] : /\ history'[c][h] = history[c][h]
                                             /\ h < Len(history[c]) + 1 /\ h \in Nat
             /\ history'[c] # <<>>
             /\ \A d \in Ids : d # c => history'[d] = history[d]
             /\ history' \in [Ids -> Seq(Ids)]
<1> DEFINE c == requests[r].conversation
<1>1. c \in Ids /\ history[c] \in Seq(Ids)
  BY DEF TalkType
<1>2. history' = [history EXCEPT ![c] = Append(history[c], r)]
  BY DEF Ended
<1>3. /\ history'[c] = Append(history[c], r)
      /\ \A d \in Ids : d # c => history'[d] = history[d]
      /\ history' \in [Ids -> Seq(Ids)]
  BY <1>1, <1>2 DEF TalkType
<1>4. /\ Len(history'[c]) = Len(history[c]) + 1 /\ history'[c][Len(history'[c])] = r
      /\ DOMAIN history'[c] = DOMAIN history[c] \cup {Len(history[c]) + 1}
      /\ \A h \in DOMAIN history[c] : /\ history'[c][h] = history[c][h]
                                      /\ h < Len(history[c]) + 1 /\ h \in Nat
      /\ history'[c] # <<>>
  <2> DEFINE old == history[c]
             new == history'[c]
  <2>1. old \in Seq(Ids) /\ new = Append(old, r)
    BY <1>1, <1>3
  <2> HIDE DEF old, new
  <2>2. /\ Len(new) = Len(old) + 1 /\ new[Len(new)] = r
        /\ DOMAIN new = DOMAIN old \cup {Len(old) + 1}
        /\ \A h \in DOMAIN old : new[h] = old[h] /\ h < Len(old) + 1 /\ h \in Nat
        /\ new # <<>>
    BY <2>1
  <2> QED
    BY <2>2 DEF old, new
<1> QED
  BY <1>1, <1>3, <1>4

\* Requests are numbered from 1, up to MaxSends.
LEMMA RequestIds ==
  ASSUME ServiceType, TalkType
  PROVE  /\ DOMAIN requests \subseteq Ids /\ DOMAIN requests = 1..Len(requests)
         /\ Len(requests) \in Nat /\ MaxSends \in Nat
         /\ \A r \in DOMAIN requests : requests[r].conversation \in Ids
         /\ \A c \in Ids : /\ DOMAIN history[c] = 1..Len(history[c]) /\ Len(history[c]) \in Nat
                           /\ \A h \in DOMAIN history[c] : history[c][h] \in Ids
<1>1. /\ DOMAIN requests \subseteq Ids /\ DOMAIN requests = 1..Len(requests)
      /\ Len(requests) \in Nat /\ MaxSends \in Nat
      /\ \A r \in DOMAIN requests : requests[r].conversation \in Ids
  BY TimeoutAssumption DEF ServiceType, TalkType, Ids
<1>2. ASSUME NEW c \in Ids
      PROVE  /\ DOMAIN history[c] = 1..Len(history[c]) /\ Len(history[c]) \in Nat
             /\ \A h \in DOMAIN history[c] : history[c][h] \in Ids
  <2>1. history[c] \in Seq(Ids)
    BY DEF TalkType
  <2> QED
    BY <2>1
<1> QED
  BY <1>1, <1>2

\* A step that moves stages on and appends to no history keeps the lock.
LEMMA LockKeptStill ==
  ASSUME ServiceType, TalkType, LockInv,
         KeepsRequests, UNCHANGED history,
         \A r \in DOMAIN requests :
            \/ requests'[r].stage = requests[r].stage
            \/ requests'[r].stage = "done"
            \/ CanAcquire(r) /\ requests'[r].stage = "running"
  PROVE  LockInv'
<1>1. Live' \subseteq Live
  BY DEF Live, KeepsRequests, CanAcquire
<1>2. \A r \in DOMAIN requests : AheadOf(r)' \subseteq AheadOf(r)
  BY <1>1 DEF AheadOf, KeepsRequests, Live
<1>3. \A r \in DOMAIN requests' : Stage(r)' \in {"running", "saving"} => AheadOf(r)' = {}
  BY <1>2 DEF LockInv, Stage, CanAcquire, KeepsRequests
<1>4. \A r \in DOMAIN requests' :
         Stage(r)' \in {"waiting", "running"} => \A h \in DOMAIN Turns(r)' : Turns(r)'[h] < r
  BY DEF LockInv, Stage, Turns, CanAcquire, KeepsRequests
<1>5. \A r \in DOMAIN requests' : Stage(r)' = "saving" => IsLast(r)'
  BY DEF LockInv, Stage, IsLast, Turns, KeepsRequests
<1> QED
  BY <1>3, <1>4, <1>5 DEF LockInv, KeepsRequests

\* The end of a turn appends to the history and keeps the lock with its request.
LEMMA LockKeptEnded ==
  ASSUME ServiceType, TalkType, LockInv, NEW r \in DOMAIN requests, Ended(r)
  PROVE  LockInv'
<1> DEFINE c == requests[r].conversation
<1>0. /\ DOMAIN requests \subseteq Ids /\ DOMAIN requests = 1..Len(requests)
      /\ Len(requests) \in Nat /\ c \in Ids
  BY RequestIds
<1>1. /\ Len(history'[c]) = Len(history[c]) + 1 /\ history'[c][Len(history'[c])] = r
      /\ DOMAIN history'[c] = DOMAIN history[c] \cup {Len(history[c]) + 1}
      /\ \A h \in DOMAIN history[c] : /\ history'[c][h] = history[c][h]
                                      /\ h < Len(history[c]) + 1 /\ h \in Nat
      /\ history'[c] # <<>>
      /\ \A d \in Ids : d # c => history'[d] = history[d]
  BY <1>0, EndedHistory
<1>2. KeepsRequests /\ MovesOnly(r, "saving") /\ Stage(r) = "running"
  BY DEF Ended
<1>3. /\ \A h \in DOMAIN history[c] : history[c][h] < r
      /\ AheadOf(r) = {}
  BY <1>2 DEF LockInv, Turns
<1>4. Live' = Live
  BY LiveAfter
<1>5. \A s \in DOMAIN requests' : Stage(s)' \in {"running", "saving"} => AheadOf(s)' = {}
  BY <1>2, <1>3, <1>4 DEF LockInv, Stage, AheadOf, KeepsRequests, MovesOnly, Live
<1>6. ASSUME NEW d \in Ids, NEW g \in DOMAIN history'[d], NEW h \in DOMAIN history'[d], g < h
      PROVE  history'[d][g] < history'[d][h]
  <2>1. CASE d # c
    BY <1>1, <1>6, <2>1 DEF LockInv
  <2>2. CASE d = c /\ h \in DOMAIN history[c] /\ g \in DOMAIN history[c]
    BY <1>1, <1>6, <2>2, <1>0 DEF LockInv
  <2>3. CASE d = c /\ h = Len(history[c]) + 1 /\ g \in DOMAIN history[c]
    BY <1>1, <1>3, <2>3
  <2>4. CASE d = c /\ g = Len(history[c]) + 1
    <3>1. Len(history[c]) \in Nat
      BY <1>0, RequestIds
    <3> QED
      BY <1>1, <1>6, <2>4, <3>1
  <2> QED
    BY <1>1, <2>1, <2>2, <2>3, <2>4
<1>7. ASSUME NEW d \in Ids, NEW h \in DOMAIN history'[d]
      PROVE  history'[d][h] <= Len(requests')
  BY <1>0, <1>1, <1>2 DEF LockInv, KeepsRequests
<1>8. ASSUME NEW s \in DOMAIN requests', Stage(s)' \in {"waiting", "running"},
             NEW h \in DOMAIN Turns(s)'
      PROVE  Turns(s)'[h] < s
  <2>1. /\ s \in DOMAIN requests /\ s # r /\ requests'[s].conversation = requests[s].conversation
        /\ Stage(s) \in {"waiting", "running"} /\ s \in Live /\ r \in Live
    BY <1>2, <1>8 DEF KeepsRequests, MovesOnly, Stage, Live
  <2>2. CASE requests[s].conversation = c
    <3>1. r < s
      BY <1>0, <1>3, <2>1, <2>2 DEF AheadOf
    <3>2. \A g \in DOMAIN history[c] : history[c][g] < s
      BY <2>1, <2>2 DEF LockInv, Turns
    <3>3. Turns(s)' = history'[c]
      BY <2>1, <2>2 DEF Turns
    <3>4. h \in DOMAIN history[c] \cup {Len(history[c]) + 1}
      BY <1>1, <1>8, <3>3
    <3>5. CASE h \in DOMAIN history[c]
      <4>1. history'[c][h] = history[c][h]
        BY <1>1, <3>5
      <4> QED
        BY <3>2, <3>3, <3>5, <4>1
    <3>6. CASE h = Len(history[c]) + 1
      <4>1. history'[c][h] = r
        BY <1>1, <3>6
      <4> QED
        BY <3>1, <3>3, <4>1
    <3> QED
      BY <3>4, <3>5, <3>6
  <2>3. CASE requests[s].conversation # c
    <3>1. history'[requests[s].conversation] = history[requests[s].conversation]
      BY <1>1, <2>1, <2>3, RequestIds
    <3> QED
      BY <1>8, <2>1, <3>1 DEF Turns, LockInv
  <2> QED
    BY <2>2, <2>3
<1>9. ASSUME NEW s \in DOMAIN requests', Stage(s)' = "saving"
      PROVE  IsLast(s)'
  <2>1. s \in DOMAIN requests /\ requests'[s].conversation = requests[s].conversation
    BY <1>2 DEF KeepsRequests
  <2>2. CASE s = r
    BY <1>1, <2>1, <2>2 DEF IsLast, Turns
  <2>3. CASE s # r
    <3>1. Stage(s) = "saving" /\ s \in Live /\ r \in Live /\ AheadOf(s) = {}
      BY <1>2, <1>9, <2>1, <2>3 DEF MovesOnly, Stage, Live, LockInv
    <3>2. requests[s].conversation # c
      BY <1>0, <1>3, <2>1, <2>3, <3>1 DEF AheadOf
    <3>3. history'[requests[s].conversation] = history[requests[s].conversation]
      BY <1>1, <2>1, <3>2, RequestIds
    <3> QED
      BY <2>1, <3>1, <3>3 DEF IsLast, Turns, LockInv
  <2> QED
    BY <2>2, <2>3
<1> QED
  BY <1>5, <1>6, <1>7, <1>8, <1>9 DEF LockInv

\* A new request queues behind those before it.
LEMMA LockKeptPosted ==
  ASSUME ServiceType, TalkType, TalkType', LockInv, Posted
  PROVE  LockInv'
<1>0. /\ DOMAIN requests \subseteq Ids /\ DOMAIN requests = 1..Len(requests)
      /\ Len(requests) \in Nat
      /\ \A c \in Ids : \A h \in DOMAIN history[c] : history[c][h] \in Ids
  BY RequestIds
<1> DEFINE n == Len(requests) + 1
<1>1. /\ DOMAIN requests' = DOMAIN requests \cup {n} /\ n \notin DOMAIN requests
      /\ Len(requests') = n /\ n \in Nat /\ \A r \in DOMAIN requests : r < n
      /\ \A r \in DOMAIN requests : requests'[r] = requests[r]
      /\ requests'[n].stage = "waiting" /\ UNCHANGED history
  BY <1>0 DEF Posted
<1>2. Live' = Live \cup {n}
  BY <1>1, LiveAfter
<1>3. \A r \in DOMAIN requests' : Stage(r)' \in {"running", "saving"} => AheadOf(r)' = {}
  <2>1. \A r \in DOMAIN requests : AheadOf(r)' = AheadOf(r)
    BY <1>0, <1>1, <1>2 DEF AheadOf, Live
  <2> QED
    BY <1>1, <2>1 DEF LockInv, Stage
<1>4. ASSUME NEW c \in Ids, NEW h \in DOMAIN history'[c] PROVE history'[c][h] < n
  <2>1. history[c][h] \in Nat /\ history[c][h] <= Len(requests)
    BY <1>0, <1>1 DEF LockInv, Ids
  <2> QED
    BY <1>0, <1>1, <2>1
<1>5. \A r \in DOMAIN requests' :
         Stage(r)' \in {"waiting", "running"} => \A h \in DOMAIN Turns(r)' : Turns(r)'[h] < r
  <2>1. requests'[n].conversation \in Ids
    BY <1>1 DEF TalkType
  <2> QED
    BY <1>1, <1>4, <2>1 DEF LockInv, Stage, Turns
<1>6. \A r \in DOMAIN requests' : Stage(r)' = "saving" => IsLast(r)'
  BY <1>1 DEF LockInv, Stage, IsLast, Turns
<1>7. /\ \A c \in Ids : \A g, h \in DOMAIN history'[c] : g < h => history'[c][g] < history'[c][h]
      /\ \A c \in Ids : \A h \in DOMAIN history'[c] : history'[c][h] <= Len(requests')
  <2>1. \A c \in Ids : \A h \in DOMAIN history[c] : history[c][h] \in Nat
    BY <1>0 DEF Ids
  <2> QED
    BY <1>0, <1>1, <2>1 DEF LockInv
<1> QED
  BY <1>3, <1>5, <1>6, <1>7 DEF LockInv

-----------------------------------------------------------------------------
(* What a retry keeps of the chat. The fold that removes the failed answers *)
(* is unfolded by induction over the length of the chat.                   *)

\* What holds of 0, and of the next number whenever it holds of one, holds of
\* all: otherwise a least number were left out.
LEMMA Induction ==
  ASSUME NEW S, 0 \in S, \A n \in Nat : n \in S => n + 1 \in S
  PROVE  Nat \subseteq S
<1> SUFFICES ASSUME Nat \ S # {} PROVE FALSE
  OBVIOUS
<1>1. PICK n \in Nat \ S : \A m \in Nat \ S : ~(<<m, n>> \in OpToRel(<, Nat))
  BY NatLessThanWellFounded, WFMin
<1>2. \A m \in Nat \ S : ~(m < n)
  BY <1>1 DEF OpToRel
<1>3. n # 0 /\ n - 1 \in Nat /\ n - 1 < n /\ (n - 1) + 1 = n
  OBVIOUS
<1> QED
  BY <1>2, <1>3

\* A set of numbers up to n + 1 has a greatest one; the others are up to n.
LEMMA Greatest ==
  ASSUME NEW n \in Nat, NEW t \in SUBSET (1..(n + 1)), t # {}
  PROVE  /\ Max(t) \in t /\ \A y \in t : y <= Max(t)
         /\ t \ {Max(t)} \in SUBSET (1..n)
<1>1. \E x \in t : \A y \in t : y <= x
  <2> DEFINE U == {n + 1 - y : y \in t}
  <2>1. U \subseteq Nat /\ U # {}
    OBVIOUS
  <2>2. PICK u \in U : \A v \in U : ~(<<v, u>> \in OpToRel(<, Nat))
    BY NatLessThanWellFounded, WFMin, <2>1
  <2>3. \A v \in U : ~(v < u)
    BY <2>1, <2>2 DEF OpToRel
  <2>4. PICK x \in t : u = n + 1 - x
    OBVIOUS
  <2>5. ASSUME NEW y \in t PROVE y <= x
    <3>1. n + 1 - y \in U /\ ~(n + 1 - y < n + 1 - x)
      BY <2>3, <2>4
    <3> QED
      BY <3>1
  <2> QED
    BY <2>5
<1>2. Max(t) \in t /\ \A y \in t : Max(t) >= y
  BY <1>1 DEF Max
<1>3. ASSUME NEW y \in t \ {Max(t)} PROVE y \in 1..n
  <2>1. y \in 1..(n + 1) /\ Max(t) \in 1..(n + 1) /\ y <= Max(t) /\ y # Max(t)
    BY <1>2
  <2> QED
    BY <2>1
<1>4. \A y \in t : y <= Max(t)
  BY <1>2
<1> QED
  BY <1>2, <1>3, <1>4

\* The greatest number up to n + 1.
LEMMA GreatestOfInterval ==
  ASSUME NEW n \in Nat
  PROVE  Max(1..(n + 1)) = n + 1 /\ (1..(n + 1)) \ {n + 1} = 1..n
<1> DEFINE t == 1..(n + 1)
<1>1. t \in SUBSET (1..(n + 1)) /\ t # {} /\ n + 1 \in t
  OBVIOUS
<1> HIDE DEF t
<1>2. Max(t) \in t /\ \A y \in t : y <= Max(t)
  BY <1>1, Greatest
<1> QED
  BY <1>1, <1>2 DEF t

Keep(kept, m) == IF m.failed THEN kept ELSE Append(kept, m)

\* The fold in steps: each message is kept or left out.
LEMMA KeptStepwise ==
  ASSUME NEW chat, NEW l \in Nat, DOMAIN chat = 1..l
  PROVE  \E f : /\ WithoutFailed(chat) = f[l] /\ f[0] = <<>>
                /\ \A i \in 1..l : f[i] = Keep(f[i - 1], chat[i])
<1> DEFINE Body(iter, t) ==
             IF t = {} THEN <<>> ELSE Keep(iter[t \ {Max(t)}], chat[Max(t)])
           Folds(iter, n) == iter = [t \in SUBSET (1..n) |-> Body(iter, t)]
           S == {n \in Nat : \E iter : Folds(iter, n)}
<1> HIDE DEF Body
<1>1. 0 \in S
  <2> DEFINE iter == [t \in SUBSET (1..0) |-> <<>>]
  <2>1. Folds(iter, 0)
    BY DEF Body
  <2> QED
    BY <2>1
<1>2. ASSUME NEW n \in Nat, n \in S PROVE n + 1 \in S
  <2>1. PICK iter : Folds(iter, n)
    BY <1>2
  <2> DEFINE next == [t \in SUBSET (1..(n + 1)) |-> Body(iter, t)]
  <2>2. \A t \in SUBSET (1..n) : t \in SUBSET (1..(n + 1)) /\ next[t] = iter[t]
    BY <2>1
  <2>3. \A t \in SUBSET (1..(n + 1)) : Body(next, t) = Body(iter, t)
    BY <2>2, Greatest DEF Body
  <2>4. Folds(next, n + 1)
    BY <2>3
  <2> HIDE DEF next, Folds
  <2>5. \E other : Folds(other, n + 1)
    BY <2>4
  <2> QED
    BY <2>5
<1>3. l \in S
  BY <1>1, <1>2, Induction
<1> DEFINE it == CHOOSE iter : Folds(iter, l)
<1>4. Folds(it, l)
  BY <1>3
<1>5. WithoutFailed(chat) = it[1..l]
  BY DEF WithoutFailed, FoldLeft, MapThenFoldSet, Body, Keep
<1> HIDE DEF it
<1> DEFINE f == [i \in 0..l |-> it[1..i]]
<1>6. f[0] = <<>>
  BY <1>4 DEF Body
<1>7. ASSUME NEW i \in 1..l PROVE f[i] = Keep(f[i - 1], chat[i])
  <2>1. i - 1 \in Nat /\ i - 1 \in 0..l /\ i \in 0..l /\ (i - 1) + 1 = i
    OBVIOUS
  <2>2. Max(1..i) = i /\ (1..i) \ {i} = 1..(i - 1)
    BY <2>1, GreatestOfInterval
  <2>3. it[1..i] = Body(it, 1..i)
    BY <1>4
  <2>4. f[i] = it[1..i] /\ f[i - 1] = it[1..(i - 1)]
    BY <2>1
  <2>5. 1..i # {}
    OBVIOUS
  <2> HIDE DEF f
  <2> QED
    BY <2>2, <2>3, <2>4, <2>5 DEF Body
<1>8. WithoutFailed(chat) = f[l]
  BY <1>5
<1> HIDE DEF f
<1> QED
  BY <1>6, <1>7, <1>8

\* The place each kept message had in the chat.
Embeds(kept, chat, n, e) ==
    /\ kept \in Seq(MessageType)
    /\ e \in [1..Len(kept) -> 1..n]
    /\ \A j, k \in 1..Len(kept) : j < k => e[j] < e[k]
    /\ \A k \in 1..Len(kept) : kept[k] = chat[e[k]] /\ ~chat[e[k]].failed
    /\ \A i \in 1..n : ~chat[i].failed => \E k \in 1..Len(kept) : e[k] = i

\* What is kept stands in the old order, and nothing but failures is left out.
LEMMA KeptInOrder ==
  ASSUME NEW chat \in Seq(MessageType)
  PROVE  \E e : Embeds(WithoutFailed(chat), chat, Len(chat), e)
<1> DEFINE l == Len(chat)
<1>1. l \in Nat /\ DOMAIN chat = 1..l /\ \A i \in 1..l : chat[i] \in MessageType
  OBVIOUS
<1> HIDE DEF l
<1>2. PICK f : /\ WithoutFailed(chat) = f[l] /\ f[0] = <<>>
               /\ \A i \in 1..l : f[i] = Keep(f[i - 1], chat[i])
  BY <1>1, KeptStepwise
<1> DEFINE S == {n \in Nat : n <= l => \E e : Embeds(f[n], chat, n, e)}
<1>3. 0 \in S
  <2> DEFINE e == [k \in 1..0 |-> 0]
  <2>1. Embeds(<<>>, chat, 0, e)
    BY DEF Embeds
  <2> HIDE DEF e
  <2> QED
    BY <1>2, <2>1
<1>4. ASSUME NEW n \in Nat, n \in S PROVE n + 1 \in S
  <2> SUFFICES ASSUME n + 1 <= l PROVE \E e : Embeds(f[n + 1], chat, n + 1, e)
    OBVIOUS
  <2>1. n <= l /\ n + 1 \in 1..l /\ (n + 1) - 1 = n
    BY <1>1
  <2>2. PICK e : Embeds(f[n], chat, n, e)
    BY <1>4, <2>1
  <2>3. f[n + 1] = Keep(f[n], chat[n + 1])
    BY <1>2, <2>1
  <2> DEFINE kept == f[n]
  <2>4. /\ kept \in Seq(MessageType) /\ e \in [1..Len(kept) -> 1..n]
        /\ \A j, k \in 1..Len(kept) : j < k => e[j] < e[k]
        /\ \A k \in 1..Len(kept) : kept[k] = chat[e[k]] /\ ~chat[e[k]].failed
        /\ \A i \in 1..n : ~chat[i].failed => \E k \in 1..Len(kept) : e[k] = i
    BY <2>2 DEF Embeds
  <2> HIDE DEF kept
  <2>5. CASE chat[n + 1].failed
    <3>1. f[n + 1] = kept
      BY <2>3, <2>5 DEF Keep, kept
    <3>2. Embeds(kept, chat, n + 1, e)
      <4>1. e \in [1..Len(kept) -> 1..(n + 1)]
        BY <2>4
      <4>2. \A i \in 1..(n + 1) : i \in 1..n \/ i = n + 1
        OBVIOUS
      <4> QED
        BY <2>4, <2>5, <4>1, <4>2 DEF Embeds
    <3> QED
      BY <3>1, <3>2
  <2>6. CASE ~chat[n + 1].failed
    <3> DEFINE m == Len(kept)
               longer == Append(kept, chat[n + 1])
               e2 == [k \in 1..(m + 1) |-> IF k = m + 1 THEN n + 1 ELSE e[k]]
    <3>1. f[n + 1] = longer
      BY <2>3, <2>6 DEF Keep, kept
    <3>2. /\ m \in Nat /\ longer \in Seq(MessageType) /\ Len(longer) = m + 1
          /\ longer[m + 1] = chat[n + 1] /\ \A k \in 1..m : longer[k] = kept[k]
      BY <1>1, <2>1, <2>4
    <3> HIDE DEF longer, m
    <3>3. e2 \in [1..(m + 1) -> 1..(n + 1)]
      BY <2>4, <3>2 DEF m
    <3>4. /\ e2[m + 1] = n + 1
          /\ \A k \in 1..m : e2[k] = e[k] /\ e[k] \in 1..n /\ k \in 1..(m + 1)
          /\ \A k \in 1..(m + 1) : k \in 1..m \/ k = m + 1
      <4>1. /\ m + 1 \in 1..(m + 1)
            /\ \A k \in 1..m : k \in 1..(m + 1) /\ k # m + 1
            /\ \A k \in 1..(m + 1) : k \in 1..m \/ k = m + 1
        BY <3>2
      <4>2. \A k \in 1..m : e[k] \in 1..n
        BY <2>4 DEF m
      <4> QED
        BY <4>1, <4>2
    <3> HIDE DEF e2
    <3>5. \A j, k \in 1..(m + 1) : j < k => e2[j] < e2[k]
      <4> SUFFICES ASSUME NEW j \in 1..(m + 1), NEW k \in 1..(m + 1), j < k
                   PROVE  e2[j] < e2[k]
        OBVIOUS
      <4>1. j \in 1..m
        BY <3>2
      <4>2. CASE k \in 1..m
        BY <2>4, <3>4, <4>1, <4>2 DEF m
      <4>3. CASE k = m + 1
        BY <3>4, <4>1, <4>3
      <4> QED
        BY <3>4, <4>2, <4>3
    <3>6. \A k \in 1..(m + 1) : longer[k] = chat[e2[k]] /\ ~chat[e2[k]].failed
      BY <2>4, <2>6, <3>2, <3>4 DEF m
    <3>7. ASSUME NEW i \in 1..(n + 1), ~chat[i].failed
          PROVE  \E k \in 1..(m + 1) : e2[k] = i
      <4>1. CASE i = n + 1
        BY <3>2, <3>4, <4>1
      <4>2. CASE i \in 1..n
        BY <2>4, <3>4, <3>7, <4>2 DEF m
      <4> QED
        BY <4>1, <4>2
    <3>8. Embeds(longer, chat, n + 1, e2)
      BY <3>2, <3>3, <3>5, <3>6, <3>7 DEF Embeds
    <3> QED
      BY <3>1, <3>8
  <2> QED
    BY <2>5, <2>6
<1>5. \E e : Embeds(f[l], chat, l, e)
  <2> HIDE DEF S
  <2>1. l \in S
    BY <1>1, <1>3, <1>4, Induction
  <2> QED
    BY <1>1, <2>1 DEF S
<1> QED
  BY <1>2, <1>5 DEF l

-----------------------------------------------------------------------------
(* The kinds of step.                                                      *)

Sends(query) ==
    /\ Posted /\ ~isLoading /\ Len(requests) < MaxSends
    /\ requests'[inFlight'].query = query
    /\ retryQuery' = {} /\ response' = NoResponse /\ age' = 0 /\ UNCHANGED graph
    /\ \/ messages' = Append(messages, User(query))
       \/ query \in retryQuery /\ messages' = WithoutFailed(messages)

\* The service works, or time passes; the browser may learn of it later.
Serves ==
    /\ UNCHANGED browser /\ Advances
    /\ age' <= BrowserTimeout
    /\ ~isLoading => response' = response
    /\ response'.request \in {response.request, inFlight, 0}
    /\ \/ response' = response \/ response'.status \in {"none", "error"}
       \/ SavedBy(inFlight)

TalkInv ==
    /\ TalkType /\ LockInv /\ WaitInv
    /\ Questioned /\ AnswerFollowsItsQuestion /\ LastIsPending
    /\ AnswersInv /\ RestInv

\* The service's actions and the clock's are steps of the service.
LEMMA ServiceKinds ==
  ASSUME ServiceType, TalkType
  PROVE  /\ \A r \in DOMAIN requests :
               \/ Acquire(r) \/ TurnTimesOut(r) \/ TurnRaises(r) \/ SaveEnds(r) \/ SaveFails(r)
               \/ \E status \in {"success", "failed"} : TurnEnds(r, status)
               => Serves
         /\ Restart \/ Tick \/ Hang \/ UNCHANGED vars => Serves
<1>0. \A r \in DOMAIN requests : r # 0
  BY RequestIds DEF Ids
<1>00. NoResponse.status = "none" /\ NoResponse.request = 0
  BY DEF NoResponse
<1>1. ASSUME NEW r \in DOMAIN requests,
             Acquire(r) \/ \E status \in {"success", "failed"} : TurnEnds(r, status)
      PROVE  Serves
  <2>1. Advances
    BY <1>1, StageKinds DEF Advances
  <2>2. UNCHANGED <<browser, network>>
    BY <1>1 DEF Acquire, TurnEnds
  <2> QED
    BY <2>1, <2>2 DEF Serves, network, TalkType
<1>2. ASSUME NEW r \in DOMAIN requests, NEW status \in {"success", "failed", "error"},
             Return(r, status), UNCHANGED <<browser, age, hung>>, Advances,
             status = "error" \/ SavedBy(r)
      PROVE  Serves
  <2>1. CASE response' = response
    BY <1>2, <2>1 DEF Serves, TalkType
  <2>2. CASE response' = [status |-> status, request |-> r] /\ IsAwaited(r)
    <3>1. inFlight = r /\ isLoading
      BY <1>0, <2>2 DEF IsAwaited, isLoading
    <3>2. response'.request = inFlight /\ response'.status = status
      BY <2>2, <3>1
    <3> QED
      BY <1>2, <3>1, <3>2 DEF Serves, TalkType
  <2> QED
    BY <1>2, <2>1, <2>2 DEF Return
<1>3. ASSUME NEW r \in DOMAIN requests, TurnTimesOut(r) \/ TurnRaises(r) \/ SaveFails(r)
      PROVE  Serves
  <2>1. Advances
    BY <1>3, DoneKinds DEF Advances
  <2> QED
    BY <1>2, <1>3, <2>1 DEF TurnTimesOut, TurnRaises, SaveFails
<1>4. ASSUME NEW r \in DOMAIN requests, SaveEnds(r) PROVE Serves
  <2>1. Advances /\ SavedBy(r)
    BY <1>4, DoneKinds DEF Advances
  <2>2. requests[r].status \in {"success", "failed"}
    BY <1>4 DEF SaveEnds, ServiceType, Sound
  <2> QED
    BY <1>2, <1>4, <2>1, <2>2 DEF SaveEnds
<1>5. ASSUME Restart PROVE Serves
  <2>1. Advances
    BY <1>5, MassKinds DEF Advances
  <2>2. UNCHANGED <<browser, age>>
    BY <1>5 DEF Restart
  <2>3. CASE response' = response
    BY <2>1, <2>2, <2>3 DEF Serves, TalkType
  <2>4. CASE /\ response' = [status |-> "error", request |-> inFlight]
             /\ \E r \in Live : IsAwaited(r)
    <3>1. response'.status = "error" /\ response'.request = inFlight
      BY <2>4
    <3>2. isLoading
      BY <1>0, <2>4 DEF Live, IsAwaited, isLoading
    <3> QED
      BY <2>1, <2>2, <3>1, <3>2 DEF Serves, TalkType
  <2> QED
    BY <1>5, <2>3, <2>4 DEF Restart
<1>6. ASSUME Tick PROVE Serves
  <2>1. Advances
    BY <1>6, MassKinds DEF Advances
  <2>2. UNCHANGED <<browser, response>> /\ age' <= BrowserTimeout
    BY <1>6, TimeoutAssumption DEF Tick, TalkType, ServiceType
  <2> QED
    BY <2>1, <2>2 DEF Serves
<1>7. ASSUME Hang PROVE Serves
  <2>1. Advances
    BY <1>7 DEF Advances, Still, KeepsRequests, Hang, service
  <2> QED
    BY <1>00, <1>7, <2>1 DEF Serves, Hang, TalkType, isLoading
<1>8. ASSUME UNCHANGED vars PROVE Serves
  <2>1. Advances
    BY <1>8 DEF Advances, Still, KeepsRequests, vars, service
  <2> QED
    BY <1>8, <2>1 DEF Serves, vars, network, TalkType
<1> QED
  BY <1>1, <1>3, <1>4, <1>5, <1>6, <1>7, <1>8

\* Every step sends, gives up, receives, resets, or is one of the service.
LEMMA StepKinds ==
  ASSUME ServiceType, TalkType, [Next]_vars
  PROVE  \/ \E query \in Queries : Sends(query)
         \/ isLoading /\ Catch
         \/ Receive
         \/ Reset
         \/ Serves
<1>1. ASSUME NEW query \in Queries, Send(query) PROVE Sends(query)
  BY <1>1, PostKind DEF Send, Sends, Post, RetryWhilePosted
<1>2. ASSUME Retry PROVE \E query \in Queries : Sends(query)
  <2>1. PICK query \in retryQuery : Post(query)
    BY <1>2 DEF Retry
  <2>2. query \in Queries
    BY DEF ServiceType
  <2>3. Sends(query)
    BY <1>2, <2>1, <2>2, PostKind DEF Retry, Sends, Post, RetryWhilePosted
  <2> QED
    BY <2>2, <2>3
<1>3. ASSUME ReceiveError \/ LoseConnection \/ ProxyGivesUp \/ BrowserAborts
      PROVE  isLoading /\ Catch
  BY <1>3 DEF ReceiveError, LoseConnection, ProxyGivesUp, ProxyExpired, BrowserAborts,
              BrowserExpired
<1> QED
  BY <1>1, <1>2, <1>3, ServiceKinds DEF Next, Due

-----------------------------------------------------------------------------
(* Types and the lock.                                                     *)

\* What is added to the chat is a message.
LEMMA MessageTypes ==
  ASSUME ServiceType, TalkType
  PROVE  /\ \A query \in Queries : User(query) \in MessageType
         /\ \A failed \in BOOLEAN : isLoading => Assistant(failed) \in MessageType
<1>1. \A query \in Queries : User(query) \in MessageType
  BY TimeoutAssumption DEF User, MessageType
<1>2. ASSUME isLoading, NEW failed \in BOOLEAN PROVE Assistant(failed) \in MessageType
  <2>1. inFlight \in DOMAIN requests /\ requests[inFlight] \in Request
    BY <1>2 DEF ServiceType, isLoading
  <2>2. inFlight \in 0..MaxSends /\ requests[inFlight].query \in Queries
    BY <2>1, RequestIds DEF Ids, Request
  <2> QED
    BY <2>2 DEF Assistant, MessageType
<1> QED
  BY <1>1, <1>2

\* The parts of the types that the service's steps write.
LEMMA AdvancesKeepsTypes ==
  ASSUME ServiceType, TalkType, Advances
  PROVE  /\ Len(requests') = Len(requests) /\ KeepsRequests
         /\ saved' \in [Ids -> 0..MaxSends] /\ history' \in [Ids -> Seq(Ids)]
<1>1. CASE Still \/ (\E r \in DOMAIN requests : Acquired(r)) \/ (\E S \in SUBSET Live : Dropped(S))
  BY <1>1 DEF Still, Acquired, Dropped, KeepsRequests, TalkType
<1>2. ASSUME NEW r \in DOMAIN requests, Ended(r)
      PROVE  /\ KeepsRequests /\ UNCHANGED saved /\ history' \in [Ids -> Seq(Ids)]
  BY <1>2, EndedHistory, RequestIds DEF Ended
<1>3. ASSUME NEW r \in DOMAIN requests, SavedBy(r)
      PROVE  /\ KeepsRequests /\ UNCHANGED history /\ saved' \in [Ids -> 0..MaxSends]
  <2>1. r \in 0..MaxSends
    BY RequestIds DEF Ids
  <2> QED
    BY <1>3, <2>1 DEF SavedBy, TalkType
<1> QED
  BY <1>1, <1>2, <1>3 DEF Advances, KeepsRequests, TalkType

\* Every step keeps the types.
LEMMA TalkTypeStep ==
  ASSUME ServiceType, TalkType, [Next]_vars, ServiceType'
  PROVE  TalkType'
<1>0. /\ messages \in Seq(MessageType) /\ DOMAIN requests = 1..Len(requests)
      /\ Len(requests) \in Nat /\ MaxSends \in Nat
      /\ \A r \in DOMAIN requests : r \in 0..MaxSends /\ requests[r].conversation \in Ids
      /\ NoResponse.request = 0 /\ 0 \in 0..MaxSends /\ BrowserTimeout \in Nat
  BY RequestIds, TimeoutAssumption DEF TalkType, NoResponse, Ids
<1>1. ASSUME NEW query \in Queries, Sends(query) PROVE TalkType'
  <2>1. messages' \in Seq(MessageType)
    <3>1. CASE messages' = Append(messages, User(query))
      BY <1>0, <3>1, MessageTypes
    <3>2. CASE messages' = WithoutFailed(messages)
      BY <1>0, <3>2, KeptInOrder DEF Embeds
    <3> QED
      BY <1>1, <3>1, <3>2 DEF Sends
  <2>2. ConversationSent(Len(requests')) \in Ids
    BY <1>0, <1>1 DEF Sends, Posted, ConversationSent, TalkType, Ids
  <2>3. \A r \in DOMAIN requests' : requests'[r].conversation \in Ids
    BY <1>0, <1>1, <2>2 DEF Sends, Posted
  <2>4. Len(requests') <= MaxSends /\ isLoading' /\ inFlight' = Len(requests')
    BY <1>0, <1>1 DEF Sends, Posted, isLoading
  <2> QED
    BY <1>0, <1>1, <2>1, <2>3, <2>4 DEF TalkType, Sends, Posted
<1>2. CASE isLoading /\ Catch
  <2>1. PICK m \in MessageType : messages' = Append(messages, m)
    BY <1>2, MessageTypes DEF Catch
  <2>2. messages' \in Seq(MessageType)
    BY <1>0, <2>1
  <2>3. UNCHANGED <<conversationId, graph, requests, saved, history>> /\ inFlight' = 0
    BY <1>2 DEF Catch, service, Settled
  <2>4. response' = NoResponse /\ age' = 0
    BY <1>2 DEF Catch, Settled
  <2> QED
    BY <1>0, <2>2, <2>3, <2>4 DEF TalkType, isLoading
<1>3. CASE Receive
  <2>1. messages' \in Seq(MessageType)
    <3>1. PICK failed \in BOOLEAN : messages' = Append(messages, Assistant(failed))
      BY <1>3 DEF Receive
    <3>2. Assistant(failed) \in MessageType
      BY <1>3, MessageTypes DEF Receive
    <3> QED
      BY <1>0, <3>1, <3>2
  <2>2. inFlight \in DOMAIN requests
    BY <1>3 DEF Receive, isLoading, ServiceType
  <2>3. conversationId' \in 0..MaxSends /\ graph' \in 0..MaxSends
    BY <1>0, <1>3, <2>2 DEF Receive, Ids
  <2>4. UNCHANGED <<requests, saved, history>> /\ inFlight' = 0
    BY <1>3 DEF Receive, service, Settled
  <2>5. response' = NoResponse /\ age' = 0
    BY <1>3 DEF Receive, Settled
  <2> QED
    BY <1>0, <2>1, <2>3, <2>4, <2>5 DEF TalkType, isLoading
<1>4. CASE Reset
  BY <1>0, <1>4 DEF TalkType, Reset, network, service, isLoading, MayReset
<1>5. CASE Serves
  <2>1. /\ Len(requests') = Len(requests) /\ KeepsRequests
        /\ saved' \in [Ids -> 0..MaxSends] /\ history' \in [Ids -> Seq(Ids)]
    BY <1>5, AdvancesKeepsTypes DEF Serves
  <2>2. response'.request \in 0..MaxSends
    <3>1. inFlight \in 0..Len(requests) /\ Len(requests) <= MaxSends
      BY DEF TalkType, ServiceType
    <3>2. inFlight \in 0..MaxSends
      BY <1>0, <3>1
    <3> QED
      BY <1>0, <1>5, <3>2 DEF Serves, TalkType
  <2>3. UNCHANGED <<messages, conversationId, graph, inFlight>> /\ age' <= BrowserTimeout
    BY <1>5 DEF Serves, browser
  <2> QED
    BY <1>0, <1>5, <2>1, <2>2, <2>3 DEF TalkType, KeepsRequests, Serves, isLoading
<1> QED
  BY <1>1, <1>2, <1>3, <1>4, <1>5, StepKinds DEF Sends

\* Every step keeps the order of the conversations.
LEMMA LockStep ==
  ASSUME ServiceType, TalkType, TalkType', LockInv, [Next]_vars
  PROVE  LockInv'
<1>1. ASSUME NEW query \in Queries, Sends(query) PROVE LockInv'
  BY <1>1, LockKeptPosted DEF Sends
<1>2. CASE (isLoading /\ Catch) \/ Receive \/ Reset
  <2>1. UNCHANGED service
    BY <1>2 DEF Catch, Receive, Reset
  <2> QED
    BY <2>1 DEF service, LockInv, Stage, Turns, IsLast, AheadOf, Live
<1>3. CASE Serves
  <2>1. ASSUME Still \/ (\E r \in DOMAIN requests : Acquired(r) \/ SavedBy(r))
               \/ (\E S \in SUBSET Live : Dropped(S))
        PROVE  LockInv'
    <3>1. /\ KeepsRequests /\ UNCHANGED history
          /\ \A r \in DOMAIN requests :
               \/ requests'[r].stage = requests[r].stage
               \/ requests'[r].stage = "done"
               \/ CanAcquire(r) /\ requests'[r].stage = "running"
      BY <2>1 DEF Still, Acquired, SavedBy, Dropped, MovesOnly
    <3> QED
      BY <3>1, LockKeptStill
  <2>2. ASSUME NEW r \in DOMAIN requests, Ended(r) PROVE LockInv'
    BY <2>2, LockKeptEnded
  <2> QED
    BY <1>3, <2>1, <2>2 DEF Serves, Advances
<1> QED
  BY <1>1, <1>2, <1>3, StepKinds

-----------------------------------------------------------------------------
(* What the chat shows.                                                    *)

\* A retry leaves the question it repeats as the last message, every answer
\* below its own question, and all that is kept in its order.
LEMMA RetryKeeps ==
  ASSUME ServiceType, TalkType, Questioned, AnswerFollowsItsQuestion, LastIsPending,
         NEW query \in retryQuery, messages' = WithoutFailed(messages)
  PROVE  /\ messages' # <<>> /\ messages'[Len(messages')] = User(query)
         /\ Questioned' /\ AnswerFollowsItsQuestion'
         /\ \E e \in [DOMAIN messages' -> DOMAIN messages] :
               /\ \A k \in DOMAIN messages' : messages'[k] = messages[e[k]]
               /\ \A j, k \in DOMAIN messages' : j < k => e[j] < e[k]
<1> DEFINE n == Len(messages)
           m == Len(messages')
<1>1. messages \in Seq(MessageType) /\ n \in Nat /\ DOMAIN messages = 1..n
  BY DEF TalkType
<1>2. PICK e : Embeds(messages', messages, n, e)
  BY <1>1, KeptInOrder
<1>3. /\ messages' \in Seq(MessageType) /\ m \in Nat /\ DOMAIN messages' = 1..m
      /\ e \in [1..m -> 1..n]
      /\ \A j, k \in 1..m : j < k => e[j] < e[k]
      /\ \A k \in 1..m : messages'[k] = messages[e[k]] /\ ~messages[e[k]].failed
      /\ \A i \in 1..n : ~messages[i].failed => \E k \in 1..m : e[k] = i
  BY <1>2 DEF Embeds
<1>4. Questioned'
  BY <1>1, <1>3 DEF Questioned, User
<1>5. \A i \in 1..n : messages[i].role = "user" => ~messages[i].failed
  BY <1>1 DEF Questioned, User
<1>6. /\ n \in 1..n /\ messages[n].query = query
      /\ messages[n].role = "assistant" /\ messages[n].failed
  BY <1>1 DEF LastIsPending
<1>7. n > 1 /\ n - 1 \in 1..n /\ messages[n - 1] = User(query)
  BY <1>1, <1>6 DEF AnswerFollowsItsQuestion
<1>8. PICK k \in 1..m : e[k] = n - 1
  BY <1>3, <1>5, <1>7 DEF User
<1> HIDE DEF n, m
<1>9. k = m
  <2>1. k \in 1..m /\ m \in Nat
    BY <1>3
  <2>2. ASSUME k < m PROVE FALSE
    <3>1. k + 1 \in 1..m /\ k < k + 1
      BY <2>1, <2>2
    <3>2. e[k + 1] \in 1..n /\ e[k] < e[k + 1]
      BY <1>3, <2>1, <3>1
    <3>3. e[k + 1] = n
      BY <1>1, <1>7, <1>8, <3>2
    <3> QED
      BY <1>3, <1>6, <3>1, <3>3
  <2> QED
    BY <2>1, <2>2
<1>10. messages' # <<>> /\ messages'[m] = User(query)
  BY <1>3, <1>7, <1>8, <1>9
<1>11. ASSUME NEW i \in DOMAIN messages', messages'[i].role = "assistant"
       PROVE  i > 1 /\ messages'[i - 1] = User(messages'[i].query)
  <2>1. i \in 1..m /\ e[i] \in 1..n /\ messages'[i] = messages[e[i]]
    BY <1>3, <1>11
  <2>2. e[i] > 1 /\ messages[e[i] - 1] = User(messages'[i].query) /\ e[i] - 1 \in 1..n
    BY <1>1, <1>11, <2>1 DEF AnswerFollowsItsQuestion
  <2>3. PICK j \in 1..m : e[j] = e[i] - 1
    BY <1>3, <1>5, <2>2 DEF User
  <2>4. j < i
    <3>1. i # j
      BY <2>1, <2>3
    <3>2. i < j => e[i] < e[j]
      BY <1>3, <2>1
    <3>3. ~(i < j)
      BY <2>1, <2>3, <3>2
    <3> QED
      BY <2>1, <3>1, <3>3
  <2>5. j = i - 1
    <3> SUFFICES ASSUME j + 1 < i PROVE FALSE
      BY <2>1, <2>4
    <3>1. j + 1 \in 1..m /\ e[j] < e[j + 1] /\ e[j + 1] < e[i] /\ e[j + 1] \in 1..n
      BY <1>3, <2>1
    <3> QED
      BY <2>1, <2>3, <3>1
  <2> QED
    BY <1>3, <2>1, <2>2, <2>3, <2>4, <2>5
<1>12. \E g \in [DOMAIN messages' -> DOMAIN messages] :
          /\ \A i \in DOMAIN messages' : messages'[i] = messages[g[i]]
          /\ \A j, i \in DOMAIN messages' : j < i => g[j] < g[i]
  BY <1>1, <1>3
<1>13. AnswerFollowsItsQuestion'
  BY <1>11 DEF AnswerFollowsItsQuestion
<1> QED
  BY <1>3, <1>4, <1>10, <1>12, <1>13 DEF m

\* A question, or a failure or an answer below its question, is added.
LEMMA AppendedKeeps ==
  ASSUME TalkType, Questioned, AnswerFollowsItsQuestion,
         NEW m \in MessageType, messages' = Append(messages, m),
         \/ m = User(m.query)
         \/ m.role = "assistant" /\ messages # <<>> /\ messages[Len(messages)] = User(m.query)
  PROVE  /\ messages' # <<>> /\ messages'[Len(messages')] = m
         /\ Questioned' /\ AnswerFollowsItsQuestion'
<1> DEFINE n == Len(messages)
<1>1. /\ n \in Nat /\ DOMAIN messages = 1..n
      /\ DOMAIN messages' = 1..(n + 1) /\ Len(messages') = n + 1 /\ messages'[n + 1] = m
      /\ \A i \in 1..n : messages'[i] = messages[i]
  BY DEF TalkType
<1>0. messages' # <<>> /\ (messages # <<>> => n > 0)
  BY DEF TalkType
<1> HIDE DEF n
<1>2. \A i \in 1..(n + 1) : i \in 1..n \/ i = n + 1
  BY <1>1
<1>3. Questioned'
  BY <1>1, <1>2 DEF Questioned, User
<1>4. ASSUME NEW i \in DOMAIN messages', messages'[i].role = "assistant"
      PROVE  i > 1 /\ messages'[i - 1] = User(messages'[i].query)
  <2>1. CASE i \in 1..n
    <3>1. i > 1 /\ messages[i - 1] = User(messages[i].query)
      BY <1>1, <1>4, <2>1 DEF AnswerFollowsItsQuestion
    <3>2. i - 1 \in 1..n
      BY <1>1, <2>1, <3>1
    <3> QED
      BY <1>1, <2>1, <3>1, <3>2
  <2>2. CASE i = n + 1
    <3>1. messages # <<>> /\ messages[n] = User(m.query)
      BY <1>1, <1>4, <2>2 DEF User, n
    <3>2. n + 1 > 1 /\ (n + 1) - 1 = n /\ n \in 1..n
      BY <1>0, <1>1, <3>1
    <3> QED
      BY <1>1, <2>2, <3>1, <3>2
  <2> QED
    BY <1>1, <1>2, <1>4, <2>1, <2>2
<1>5. AnswerFollowsItsQuestion'
  BY <1>4 DEF AnswerFollowsItsQuestion
<1> QED
  BY <1>0, <1>1, <1>3, <1>5

\* Questions stay questions, answers below their own; the question that is
\* awaited is the last message, and so is the failure of one to retry.
LEMMA ShownStep ==
  ASSUME ServiceType, TalkType, TalkType', Questioned, AnswerFollowsItsQuestion, LastIsPending,
         [Next]_vars
  PROVE  Questioned' /\ AnswerFollowsItsQuestion' /\ LastIsPending'
<1>1. ASSUME NEW query \in Queries, Sends(query)
      PROVE  Questioned' /\ AnswerFollowsItsQuestion' /\ LastIsPending'
  <2>1. /\ messages' # <<>> /\ messages'[Len(messages')] = User(query)
        /\ Questioned' /\ AnswerFollowsItsQuestion'
    <3>1. CASE messages' = Append(messages, User(query))
      <4>1. User(query) \in MessageType /\ User(query) = User(User(query).query)
        BY MessageTypes DEF User
      <4> QED
        BY <3>1, <4>1, AppendedKeeps
    <3>2. CASE query \in retryQuery /\ messages' = WithoutFailed(messages)
      BY <3>2, RetryKeeps
    <3> QED
      BY <1>1, <3>1, <3>2 DEF Sends
  <2> QED
    BY <1>1, <2>1 DEF LastIsPending, Sends
<1>2. ASSUME isLoading, NEW failed \in BOOLEAN, messages' = Append(messages, Assistant(failed)),
             inFlight' = 0,
             retryQuery' = IF failed THEN {requests[inFlight].query} ELSE retryQuery
      PROVE  Questioned' /\ AnswerFollowsItsQuestion' /\ LastIsPending'
  <2>1. PICK m \in MessageType :
           /\ m = Assistant(failed) /\ m.role = "assistant"
           /\ m.query = requests[inFlight].query /\ m.failed = failed
    BY <1>2, MessageTypes DEF Assistant
  <2>2. messages' # <<>> /\ messages'[Len(messages')] = m
        /\ Questioned' /\ AnswerFollowsItsQuestion'
    BY <1>2, <2>1, AppendedKeeps DEF LastIsPending
  <2> QED
    BY <1>2, <2>1, <2>2 DEF LastIsPending, isLoading
<1>3. CASE isLoading /\ Catch
  BY <1>2, <1>3 DEF Catch, Settled
<1>4. CASE Receive
  <2>1. PICK failed \in BOOLEAN :
           /\ messages' = Append(messages, Assistant(failed))
           /\ retryQuery' = IF failed THEN {requests[inFlight].query} ELSE retryQuery
    BY <1>4 DEF Receive
  <2> QED
    BY <1>2, <1>4, <2>1 DEF Receive, Settled
<1>5. CASE Reset
  <2>1. messages' = <<>> /\ retryQuery' = {} /\ ~isLoading'
    BY <1>5 DEF Reset, MayReset, isLoading
  <2> QED
    BY <2>1 DEF Questioned, AnswerFollowsItsQuestion, LastIsPending
<1>6. CASE Serves
  <2>1. UNCHANGED <<messages, inFlight, retryQuery>> /\ KeepsRequests
    BY <1>6, AdvancesKeepsTypes DEF Serves, browser
  <2>2. isLoading => inFlight \in DOMAIN requests
    BY DEF ServiceType, isLoading
  <2> QED
    BY <2>1, <2>2
       DEF Questioned, AnswerFollowsItsQuestion, LastIsPending, KeepsRequests, isLoading, User
<1> QED
  BY <1>1, <1>3, <1>4, <1>5, <1>6, StepKinds

-----------------------------------------------------------------------------
(* What the service has done for good.                                     *)

\* The last word of a conversation remains it until a new request comes.
LEMMA FinalKept ==
  ASSUME ServiceType, TalkType, Advances, NEW r \in DOMAIN requests, IsFinal(r)
  PROVE  IsFinal(r)'
<1> DEFINE c == requests[r].conversation
<1>1. KeepsRequests /\ requests'[r].conversation = c /\ c \in Ids
  BY AdvancesKeepsTypes, RequestIds DEF KeepsRequests
<1>2. Live' \subseteq Live /\ Live \subseteq DOMAIN requests
  BY LiveAfter DEF Advances, Live
<1>3. \A s \in Live' : requests'[s].conversation # c
  BY <1>1, <1>2 DEF IsFinal, KeepsRequests
<1>4. history'[c] = history[c]
  <2>1. ASSUME NEW s \in DOMAIN requests, Ended(s) PROVE history'[c] = history[c]
    <3>1. requests[s].conversation # c
      BY <2>1, LiveAfter DEF IsFinal
    <3> QED
      BY <1>1, <2>1, <3>1, EndedHistory, RequestIds
  <2> QED
    BY <2>1 DEF Advances, Still, Acquired, SavedBy, Dropped
<1>5. saved'[c] = saved[c]
  <2>1. ASSUME NEW s \in DOMAIN requests, SavedBy(s) PROVE saved'[c] = saved[c]
    <3>1. requests[s].conversation # c
      BY <2>1, LiveAfter DEF IsFinal
    <3> QED
      BY <1>1, <2>1, <3>1 DEF SavedBy, TalkType
  <2> QED
    BY <2>1 DEF Advances, Still, Acquired, Ended, Dropped
<1> QED
  BY <1>1, <1>3, <1>4, <1>5 DEF IsFinal, IsLast, Turns

\* The request that came last is the last word once its graph is saved.
LEMMA SavedIsFinal ==
  ASSUME ServiceType, TalkType, LockInv, isLoading, NEW r, r = inFlight, SavedBy(r)
  PROVE  IsFinal(r)'
<1> DEFINE c == requests[r].conversation
<1>1. /\ r \in DOMAIN requests /\ r = Len(requests) /\ c \in Ids
      /\ \A s \in DOMAIN requests : s \in Nat /\ s <= r
  BY RequestIds DEF TalkType, ServiceType, isLoading
<1>2. KeepsRequests /\ Stage(r) = "saving" /\ requests'[r].conversation = c
      /\ saved'[c] = r /\ history'[c] = history[c]
  BY <1>1 DEF SavedBy, KeepsRequests, TalkType
<1>3. AheadOf(r) = {} /\ IsLast(r)
  BY <1>1, <1>2 DEF LockInv
<1>4. Live' = Live \ {r}
  BY <1>1, LiveAfter
<1>5. ASSUME NEW s \in Live' PROVE requests'[s].conversation # c
  <2>1. s \in Live /\ s \in DOMAIN requests /\ s < r
    BY <1>1, <1>4 DEF Live
  <2> QED
    BY <1>2, <1>3, <2>1 DEF AheadOf, KeepsRequests
<1> QED
  BY <1>1, <1>2, <1>3, <1>5 DEF IsFinal, IsLast, Turns

\* What is awaited goes to the conversation shown, and is the last word of it
\* before its answer is on its way.
LEMMA WaitStep ==
  ASSUME ServiceType, TalkType, TalkType', LockInv, WaitInv, [Next]_vars
  PROVE  WaitInv'
<1>1. ASSUME NEW query \in Queries, Sends(query) PROVE WaitInv'
  BY <1>1 DEF WaitInv, Sends, Posted, AnswerIsDue, NoResponse, ConversationSent
<1>2. CASE (isLoading /\ Catch) \/ Receive \/ Reset
  BY <1>2 DEF WaitInv, Catch, Receive, Reset, MayReset, Settled, isLoading
<1>3. ASSUME Serves, isLoading' PROVE WaitInv'
  <2>1. /\ isLoading /\ inFlight' = inFlight /\ conversationId' = conversationId
        /\ KeepsRequests /\ Advances
    BY <1>3, AdvancesKeepsTypes DEF Serves, browser, isLoading
  <2>2. PICK r \in DOMAIN requests : r = inFlight
    BY <2>1 DEF ServiceType, isLoading
  <2>3. requests'[inFlight'].conversation = ConversationSent(inFlight)'
    BY <2>1, <2>2 DEF WaitInv, KeepsRequests, ConversationSent
  <2>4. ASSUME AnswerIsDue' PROVE IsFinal(r)'
    <3>1. CASE SavedBy(inFlight)
      BY <2>1, <2>2, <3>1, SavedIsFinal
    <3>2. CASE response' = response
      <4>1. IsFinal(r)
        BY <2>1, <2>2, <2>4, <3>2 DEF WaitInv, AnswerIsDue
      <4> QED
        BY <2>1, <4>1, FinalKept
    <3> QED
      BY <1>3, <2>4, <3>1, <3>2 DEF Serves, AnswerIsDue
  <2>5. IsFinal(r)' => IsFinal(inFlight)'
    BY <2>1, <2>2 DEF IsFinal, IsLast, Turns
  <2> QED
    BY <2>3, <2>4, <2>5 DEF WaitInv
<1> QED
  BY <1>1, <1>2, <1>3, StepKinds DEF WaitInv

\* Every answer of the next chat stands in this one, in the same order.
OldAnswers ==
    \E e : /\ \A k \in DOMAIN messages' :
                 IsAnswer(messages'[k]) => /\ e[k] \in DOMAIN messages
                                           /\ messages'[k] = messages[e[k]]
           /\ \A j, k \in DOMAIN messages' :
                 j < k /\ IsAnswer(messages'[j]) /\ IsAnswer(messages'[k]) => e[j] < e[k]

\* The answers a chat keeps, if their requests and their conversation stay.
LEMMA AnswersKept ==
  ASSUME ServiceType, TalkType, TalkType', AnswersInv, OldAnswers,
         UNCHANGED conversationId,
         \A r \in DOMAIN requests : /\ r \in DOMAIN requests'
                                    /\ requests'[r].conversation = requests[r].conversation,
         \A c \in Ids : \A h \in DOMAIN history[c] : /\ h \in DOMAIN history'[c]
                                                     /\ history'[c][h] = history[c][h],
         isLoading' => \/ isLoading /\ inFlight' = inFlight
                       \/ \A r \in DOMAIN requests : r < inFlight'
  PROVE  AnswersInv'
<1>0. PICK e :
         /\ \A k \in DOMAIN messages' :
               IsAnswer(messages'[k]) => /\ e[k] \in DOMAIN messages
                                         /\ messages'[k] = messages[e[k]]
         /\ \A j, k \in DOMAIN messages' :
               j < k /\ IsAnswer(messages'[j]) /\ IsAnswer(messages'[k]) => e[j] < e[k]
  BY DEF OldAnswers
<1>1. ASSUME NEW k \in DOMAIN messages', IsAnswer(messages'[k])
      PROVE  /\ messages'[k].request \in DOMAIN requests'
             /\ isLoading' => messages'[k].request < inFlight'
             /\ requests'[messages'[k].request].conversation = conversationId'
             /\ \E h \in DOMAIN history'[conversationId'] :
                   history'[conversationId'][h] = messages'[k].request
  <2>1. /\ e[k] \in DOMAIN messages /\ IsAnswer(messages[e[k]])
        /\ messages'[k].request = messages[e[k]].request
    BY <1>0, <1>1
  <2> DEFINE q == messages[e[k]].request
  <2>2. /\ q \in DOMAIN requests /\ (isLoading => q < inFlight)
        /\ requests[q].conversation = conversationId
        /\ \E h \in DOMAIN history[conversationId] : history[conversationId][h] = q
    BY <2>1 DEF AnswersInv
  <2>3. conversationId \in Ids
    BY <2>2 DEF TalkType
  <2> HIDE DEF q
  <2>4. messages'[k].request = q
    BY <2>1 DEF q
  <2>5. \E h \in DOMAIN history'[conversationId] : history'[conversationId][h] = q
    BY <2>2, <2>3
  <2> QED
    BY <2>2, <2>4, <2>5
<1>2. ASSUME NEW j \in DOMAIN messages', NEW k \in DOMAIN messages', j < k,
             IsAnswer(messages'[j]), IsAnswer(messages'[k])
      PROVE  messages'[j].request < messages'[k].request
  BY <1>0, <1>2 DEF AnswersInv
<1> QED
  BY <1>1, <1>2 DEF AnswersInv

\* A message that is no answer is added, or nothing is.
LEMMA NoAnswerAdded ==
  ASSUME TalkType,
         \/ UNCHANGED messages
         \/ \E m \in MessageType : ~IsAnswer(m) /\ messages' = Append(messages, m)
  PROVE  OldAnswers
<1> DEFINE n == Len(messages)
           e == [k \in 1..n |-> k]
<1>1. n \in Nat /\ DOMAIN messages = 1..n
  BY DEF TalkType
<1>2. /\ \/ DOMAIN messages' = 1..n
         \/ DOMAIN messages' = 1..(n + 1) /\ ~IsAnswer(messages'[n + 1])
      /\ \A k \in 1..n : messages'[k] = messages[k]
  <2>1. CASE UNCHANGED messages
    BY <1>1, <2>1
  <2>2. ASSUME NEW m \in MessageType, ~IsAnswer(m), messages' = Append(messages, m)
        PROVE  /\ DOMAIN messages' = 1..(n + 1) /\ ~IsAnswer(messages'[n + 1])
               /\ \A k \in 1..n : messages'[k] = messages[k]
    <3>1. /\ DOMAIN messages' = 1..(n + 1) /\ messages'[n + 1] = m
          /\ \A k \in 1..n : messages'[k] = messages[k]
      BY <2>2 DEF TalkType
    <3> QED
      BY <2>2, <3>1
  <2> QED
    BY <2>1, <2>2
<1> HIDE DEF n
<1>3. \A k \in DOMAIN messages' : IsAnswer(messages'[k]) => k \in 1..n
  BY <1>1, <1>2
<1>4. \A k \in 1..n : e[k] = k
  OBVIOUS
<1> HIDE DEF e
<1>5. /\ \A k \in DOMAIN messages' :
            IsAnswer(messages'[k]) => e[k] \in DOMAIN messages /\ messages'[k] = messages[e[k]]
      /\ \A j, k \in DOMAIN messages' :
            j < k /\ IsAnswer(messages'[j]) /\ IsAnswer(messages'[k]) => e[j] < e[k]
  BY <1>1, <1>2, <1>3, <1>4
<1> QED
  BY <1>5 DEF OldAnswers

\* The answers stay in their conversation and in its order.
LEMMA AnswersStep ==
  ASSUME ServiceType, TalkType, TalkType', LockInv, WaitInv, Questioned,
         AnswerFollowsItsQuestion, LastIsPending, AnswersInv, [Next]_vars
  PROVE  AnswersInv'
<1>0. /\ messages \in Seq(MessageType) /\ Len(messages) \in Nat
      /\ DOMAIN messages = 1..Len(messages)
      /\ DOMAIN requests = 1..Len(requests) /\ Len(requests) \in Nat
  BY RequestIds DEF TalkType
<1>1. ASSUME NEW query \in Queries, Sends(query) PROVE AnswersInv'
  <2>1. OldAnswers
    <3>1. CASE messages' = Append(messages, User(query))
      <4>1. User(query) \in MessageType /\ ~IsAnswer(User(query))
        BY MessageTypes DEF User, IsAnswer
      <4> QED
        BY <3>1, <4>1, NoAnswerAdded
    <3>2. CASE query \in retryQuery /\ messages' = WithoutFailed(messages)
      BY <3>2, RetryKeeps DEF OldAnswers
    <3> QED
      BY <1>1, <3>1, <3>2 DEF Sends
  <2>2. /\ \A r \in DOMAIN requests : /\ r \in DOMAIN requests' /\ r < inFlight'
                                     /\ requests'[r].conversation = requests[r].conversation
        /\ UNCHANGED <<history, conversationId>>
    BY <1>0, <1>1 DEF Sends, Posted
  <2> QED
    BY <2>1, <2>2, AnswersKept
<1>2. CASE isLoading /\ Catch
  <2>1. Assistant(TRUE) \in MessageType /\ ~IsAnswer(Assistant(TRUE))
    BY <1>2, MessageTypes DEF Assistant, IsAnswer
  <2>2. OldAnswers
    BY <1>2, <2>1, NoAnswerAdded DEF Catch
  <2>3. UNCHANGED <<requests, history, conversationId>> /\ ~isLoading'
    BY <1>2 DEF Catch, service, Settled, isLoading
  <2> QED
    BY <2>2, <2>3, AnswersKept
<1>3. CASE Receive
  <2>1. /\ UNCHANGED <<requests, history>> /\ ~isLoading' /\ isLoading /\ AnswerIsDue
        /\ conversationId' = requests[inFlight].conversation
    BY <1>3 DEF Receive, service, Settled, isLoading, AnswerIsDue
  <2>2. PICK m \in MessageType : messages' = Append(messages, m) /\ m.request = inFlight
    <3>1. \E failed \in BOOLEAN : messages' = Append(messages, Assistant(failed))
      BY <1>3 DEF Receive
    <3> QED
      BY <2>1, <3>1, MessageTypes DEF Assistant
  <2> DEFINE n == Len(messages)
  <2>3. /\ DOMAIN messages' = 1..(n + 1) /\ messages'[n + 1] = m
        /\ \A i \in 1..n : messages'[i] = messages[i]
    BY <1>0, <2>2
  <2> HIDE DEF n
  <2>4. \A i \in 1..(n + 1) : i \in 1..n \/ i = n + 1
    BY <1>0 DEF n
  <2>5. inFlight \in DOMAIN requests /\ requests[inFlight].conversation \in Ids
    BY <2>1, RequestIds DEF ServiceType, isLoading
  <2>6. /\ IsLast(inFlight) /\ requests[inFlight].conversation = ConversationSent(inFlight)
    BY <2>1 DEF WaitInv, IsFinal
  <2>7. \E h \in DOMAIN history[conversationId'] : history[conversationId'][h] = inFlight
    <3>1. history[conversationId'] \in Seq(Ids)
      BY <2>1, <2>5 DEF TalkType
    <3>2. /\ history[conversationId'] # <<>>
          /\ history[conversationId'][Len(history[conversationId'])] = inFlight
      BY <2>1, <2>6 DEF IsLast, Turns
    <3> QED
      BY <3>1, <3>2
  <2>8. \A i \in 1..n : IsAnswer(messages[i]) =>
           /\ messages[i].request \in DOMAIN requests /\ messages[i].request < inFlight
           /\ requests[messages[i].request].conversation = conversationId'
           /\ \E h \in DOMAIN history[conversationId'] :
                 history[conversationId'][h] = messages[i].request
    <3> SUFFICES ASSUME NEW i \in 1..n, IsAnswer(messages[i])
                 PROVE  /\ messages[i].request \in DOMAIN requests
                        /\ messages[i].request < inFlight
                        /\ requests[messages[i].request].conversation = conversationId'
                        /\ \E h \in DOMAIN history[conversationId'] :
                              history[conversationId'][h] = messages[i].request
      OBVIOUS
    <3>1. /\ messages[i].request \in DOMAIN requests /\ messages[i].request < inFlight
          /\ requests[messages[i].request].conversation = conversationId
          /\ \E h \in DOMAIN history[conversationId] :
                history[conversationId][h] = messages[i].request
      BY <1>0, <2>1 DEF AnswersInv, n
    <3>2. conversationId # 0
      BY <3>1, RequestIds DEF Ids
    <3>3. conversationId' = conversationId
      BY <2>1, <2>6, <3>2 DEF ConversationSent
    <3> QED
      BY <3>1, <3>3
  <2>9. ASSUME NEW i \in DOMAIN messages', IsAnswer(messages'[i])
        PROVE  /\ messages'[i].request \in DOMAIN requests'
               /\ requests'[messages'[i].request].conversation = conversationId'
               /\ \E h \in DOMAIN history'[conversationId'] :
                     history'[conversationId'][h] = messages'[i].request
    <3>1. CASE i \in 1..n
      BY <2>1, <2>3, <2>8, <2>9, <3>1
    <3>2. CASE i = n + 1
      BY <2>1, <2>2, <2>3, <2>5, <2>7, <3>2
    <3> QED
      BY <2>3, <2>4, <3>1, <3>2
  <2>10. ASSUME NEW i \in DOMAIN messages', NEW j \in DOMAIN messages', i < j,
                IsAnswer(messages'[i]), IsAnswer(messages'[j])
         PROVE  messages'[i].request < messages'[j].request
    <3>1. i \in 1..n
      BY <1>0, <2>3, <2>10 DEF n
    <3>2. CASE j \in 1..n
      BY <1>0, <2>3, <2>10, <3>1, <3>2 DEF AnswersInv, n
    <3>3. CASE j = n + 1
      BY <2>2, <2>3, <2>8, <2>10, <3>1, <3>3
    <3> QED
      BY <2>3, <2>4, <3>2, <3>3
  <2> QED
    BY <2>1, <2>9, <2>10 DEF AnswersInv
<1>4. CASE Reset
  BY <1>4 DEF Reset, AnswersInv
<1>5. CASE Serves
  <2>1. /\ UNCHANGED <<messages, inFlight, conversationId>> /\ KeepsRequests /\ Advances
    BY <1>5, AdvancesKeepsTypes DEF Serves, browser
  <2>2. \A c \in Ids : \A h \in DOMAIN history[c] : /\ h \in DOMAIN history'[c]
                                                  /\ history'[c][h] = history[c][h]
    <3>1. ASSUME NEW r \in DOMAIN requests, Ended(r), NEW c \in Ids, NEW h \in DOMAIN history[c]
          PROVE  h \in DOMAIN history'[c] /\ history'[c][h] = history[c][h]
      BY <3>1, EndedHistory, RequestIds
    <3>2. CASE UNCHANGED history
      BY <3>2
    <3> QED
      BY <2>1, <3>1, <3>2 DEF Advances, Still, Acquired, SavedBy, Dropped
  <2>3. OldAnswers
    BY <2>1, NoAnswerAdded
  <2> QED
    BY <2>1, <2>2, <2>3, AnswersKept DEF KeepsRequests, isLoading
<1> QED
  BY <1>1, <1>2, <1>3, <1>4, <1>5, StepKinds

\* After an answer, the conversation stands as it left it until the next question.
LEMMA RestStep ==
  ASSUME ServiceType, TalkType, TalkType', WaitInv, AnswersInv, RestInv, [Next]_vars
  PROVE  RestInv'
<1>0. messages \in Seq(MessageType)
  BY DEF TalkType
<1>1. ASSUME NEW query \in Queries, Sends(query) PROVE RestInv'
  BY <1>1, TimeoutAssumption DEF RestInv, Sends, Posted, isLoading, ServiceType
<1>2. CASE isLoading /\ Catch
  <2>1. Assistant(TRUE) \in MessageType /\ ~IsAnswer(Assistant(TRUE))
    BY <1>2, MessageTypes DEF Assistant, IsAnswer
  <2>2. PICK m \in MessageType : messages' = Append(messages, m) /\ ~IsAnswer(m)
    BY <1>2, <2>1 DEF Catch
  <2>3. messages'[Len(messages')] = m
    BY <1>0, <2>2
  <2> QED
    BY <2>2, <2>3 DEF RestInv
<1>3. CASE Receive
  <2>1. /\ UNCHANGED service /\ isLoading /\ AnswerIsDue /\ graph' = inFlight
    BY <1>3 DEF Receive, AnswerIsDue
  <2>2. PICK r : r = inFlight
    OBVIOUS
  <2>3. PICK m \in MessageType : messages' = Append(messages, m) /\ m.request = r
    <3>1. \E failed \in BOOLEAN : messages' = Append(messages, Assistant(failed))
      BY <1>3 DEF Receive
    <3> QED
      BY <2>1, <2>2, <3>1, MessageTypes DEF Assistant
  <2>4. messages'[Len(messages')] = m
    BY <1>0, <2>3
  <2>5. IsFinal(r)
    BY <2>1, <2>2 DEF WaitInv
  <2>6. IsFinal(r)'
    BY <2>1, <2>5 DEF IsFinal, IsLast, Turns, Live, service
  <2>7. IsFinal(messages[Len(messages)].request)'
    BY <2>3, <2>4, <2>6 DEF IsFinal, IsLast, Turns
  <2> QED
    BY <2>1, <2>2, <2>3, <2>4, <2>7 DEF RestInv
<1>4. CASE Reset
  BY <1>4 DEF Reset, RestInv
<1>5. CASE Serves
  <2>1. UNCHANGED <<messages, inFlight, graph>> /\ Advances
    BY <1>5 DEF Serves, browser
  <2>2. ASSUME ~isLoading', messages' # <<>>, IsAnswer(messages'[Len(messages')])
        PROVE  /\ IsFinal(messages[Len(messages)].request)'
               /\ graph' = messages'[Len(messages')].request
    <3>1. PICK r : r = messages[Len(messages)].request
      OBVIOUS
    <3>2. ~isLoading /\ messages # <<>> /\ IsAnswer(messages[Len(messages)])
      BY <2>1, <2>2 DEF isLoading
    <3>3. IsFinal(r) /\ graph = r
      BY <3>1, <3>2 DEF RestInv
    <3>4. Len(messages) \in DOMAIN messages
      BY <1>0, <3>2
    <3>5. r \in DOMAIN requests
      BY <3>1, <3>2, <3>4 DEF AnswersInv
    <3>6. IsFinal(r)'
      BY <2>1, <3>3, <3>5, FinalKept
    <3> QED
      BY <2>1, <3>1, <3>3, <3>6 DEF IsFinal, IsLast, Turns
  <2> QED
    BY <2>2 DEF RestInv
<1> QED
  BY <1>1, <1>2, <1>3, <1>4, <1>5, StepKinds

-----------------------------------------------------------------------------

\* An empty chat satisfies the invariant.
LEMMA TalkInvInit == Init => TalkInv
<1> SUFFICES ASSUME Init PROVE TalkInv
  OBVIOUS
<1>1. /\ messages = <<>> /\ requests = <<>> /\ inFlight = 0 /\ retryQuery = {} /\ age = 0
      /\ conversationId = 0 /\ graph = 0 /\ response = NoResponse /\ NoResponse.request = 0
      /\ \A c \in Ids : history[c] = <<>>
      /\ history \in [Ids -> Seq(Ids)] /\ saved \in [Ids -> 0..MaxSends]
      /\ MaxSends \in Nat /\ BrowserTimeout \in Nat
  BY TimeoutAssumption DEF Init, NoResponse
<1>2. TalkType
  BY <1>1 DEF TalkType, isLoading
<1>3. LockInv
  BY <1>1 DEF LockInv
<1>4. WaitInv /\ RestInv
  BY <1>1 DEF WaitInv, RestInv, isLoading
<1>5. Questioned /\ AnswerFollowsItsQuestion /\ LastIsPending /\ AnswersInv
  BY <1>1 DEF Questioned, AnswerFollowsItsQuestion, LastIsPending, AnswersInv, isLoading
<1> QED
  BY <1>2, <1>3, <1>4, <1>5 DEF TalkInv

\* Every step keeps the invariant.
LEMMA TalkInvStep == ChatInv /\ TalkInv /\ [Next]_vars /\ ChatInv' => TalkInv'
<1> SUFFICES ASSUME ChatInv, TalkInv, [Next]_vars, ChatInv' PROVE TalkInv'
  OBVIOUS
<1>1. ServiceType /\ ServiceType'
  BY DEF ChatInv
<1>2. TalkType'
  BY <1>1, TalkTypeStep DEF TalkInv
<1> QED
  BY <1>1, <1>2, LockStep, WaitStep, ShownStep, AnswersStep, RestStep DEF TalkInv

\* The invariant holds in every reachable state.
LEMMA TalkInvAlways == Spec => [](ChatInv /\ TalkInv)
  BY ChatInvInit, ChatInvStep, TalkInvInit, TalkInvStep, PTL DEF Spec

\* For any number of requests and any time limits in order: the variables have
\* their types, and no turn runs past chat_timeout_seconds (service.py, chat).
THEOREM ChatTypes == Spec => []TypeOK
<1>1. ChatInv /\ TalkInv => TypeOK
  <2> SUFFICES ASSUME ChatInv, TalkInv PROVE TypeOK
    OBVIOUS
  <2>1. /\ conversationId \in 0..MaxSends /\ graph \in 0..MaxSends
        /\ \A i \in DOMAIN messages : messages[i] \in MessageType
        /\ Len(requests) <= MaxSends /\ \A c \in Ids : saved[c] \in 0..MaxSends
    BY DEF TalkInv, TalkType
  <2>2. /\ inFlight \in 0..Len(requests) /\ retryQuery \subseteq Queries
        /\ age \in 0..BrowserTimeout /\ hung \in BOOLEAN /\ disturbed \in BOOLEAN
    BY TimeoutAssumption DEF ChatInv, ServiceType, TalkInv, TalkType
  <2>3. response \in [status : Statuses, request : 0..MaxSends]
    BY DEF ChatInv, ServiceType, TalkInv, TalkType
  <2>4. \A r \in DOMAIN requests :
           requests[r] \in [conversation : Ids, query : Queries, stage : Stages,
                            status : Statuses, ran : 0..ChatTimeout]
    <3> SUFFICES ASSUME NEW r \in DOMAIN requests
                 PROVE  requests[r] \in [conversation : Ids, query : Queries, stage : Stages,
                                         status : Statuses, ran : 0..ChatTimeout]
      OBVIOUS
    <3>1. requests[r] \in Request
      BY DEF ChatInv, ServiceType
    <3>2. requests[r].conversation \in Ids
      BY DEF TalkInv, TalkType
    <3> QED
      BY <3>1, <3>2 DEF Request
  <2> QED
    BY <2>1, <2>2, <2>3, <2>4 DEF TypeOK
<1> QED
  BY <1>1, TalkInvAlways, PTL

\* For any chat, however often it is reset or its failures are retried: an answer
\* or an error stands below its own question (App.tsx, runQuery and reset).
THEOREM AnswersFollow == Spec => []AnswerFollowsItsQuestion
  BY TalkInvAlways, PTL DEF TalkInv

\* For any interleaving of requests given up, lost and sent again: the answers
\* shown are turns of one conversation, in the order in which it ran them
\* (setConversationId in App.tsx, the conversation lock in service.py).
THEOREM OneConversation == Spec => []ChatIsOneConversation
<1>1. ChatInv /\ TalkInv => ChatIsOneConversation
  <2> SUFFICES ASSUME ChatInv, TalkInv PROVE ChatIsOneConversation
    OBVIOUS
  <2> DEFINE answers == {i \in DOMAIN messages : IsAnswer(messages[i])}
             RanAs(i, h) == history[conversationId][h] = messages[i].request
             turns == DOMAIN history[conversationId]
  <2>1. \A i \in answers :
           /\ messages[i].request \in DOMAIN requests
           /\ requests[messages[i].request].conversation = conversationId
           /\ \E h \in turns : RanAs(i, h)
    BY DEF TalkInv, AnswersInv
  <2>2. ASSUME NEW i \in answers, NEW j \in answers, NEW g \in turns, NEW h \in turns,
               i < j, RanAs(i, g), RanAs(j, h)
        PROVE  g < h
    <3>1. messages[i].request < messages[j].request
      BY <2>2 DEF TalkInv, AnswersInv
    <3>2. conversationId \in Ids
      BY <2>1 DEF TalkInv, TalkType
    <3>3. g \in Nat /\ h \in Nat /\ history[conversationId][g] \in Nat
          /\ history[conversationId][h] \in Nat
      BY <3>2, RequestIds DEF ChatInv, TalkInv, Ids
    <3>4. h < g => history[conversationId][h] < history[conversationId][g]
      BY <3>2 DEF TalkInv, LockInv
    <3> QED
      BY <2>2, <3>1, <3>3, <3>4
  <2> QED
    BY <2>1, <2>2 DEF ChatIsOneConversation
<1> QED
  BY <1>1, TalkInvAlways, PTL

\* After an answer nothing is left to happen in the conversation: the answer is
\* its last turn, and the graph shown is the one the service has saved.
THEOREM LastTurn == Spec => []AnswerIsTheLastTurn
<1>1. ChatInv /\ TalkInv => AnswerIsTheLastTurn
  <2> SUFFICES ASSUME ChatInv, TalkInv, ~isLoading, messages # <<>>,
                      IsAnswer(messages[Len(messages)])
               PROVE  LET last == messages[Len(messages)]
                      IN  /\ \A r \in Live : requests[r].conversation # conversationId
                          /\ history[conversationId][Len(history[conversationId])] = last.request
                          /\ graph = last.request /\ saved[conversationId] = last.request
    BY DEF AnswerIsTheLastTurn
  <2>1. Len(messages) \in DOMAIN messages
    BY DEF TalkInv, TalkType
  <2>2. requests[messages[Len(messages)].request].conversation = conversationId
    BY <2>1 DEF TalkInv, AnswersInv
  <2> QED
    BY <2>2 DEF TalkInv, RestInv, IsFinal, IsLast, Turns
<1> QED
  BY <1>1, TalkInvAlways, PTL

=============================================================================
