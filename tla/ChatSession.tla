---------------------------- MODULE ChatSession ----------------------------
(***************************************************************************)
(* One browser tab, the proxy before the service, and the service's turns: *)
(* what the user sees when a request is slow, is lost on the way or fails, *)
(* and is sent again while the service may still be working on it.         *)
(*                                                                         *)
(* The service holds a conversation's lock for a turn (service.py, chat);  *)
(* the time limit covers the turn, not the wait for the lock nor the save  *)
(* of the public graph. A request the browser has given up runs on. What a *)
(* turn does is AgentTurn's, what it leaves behind SessionMemory's: here a *)
(* turn that was run is an entry of history, and the public graph is the   *)
(* request that was saved last.                                            *)
(*                                                                         *)
(* Requests are numbered as they are sent, and a conversation bears the    *)
(* number of its first request (uuid4). A request has no conversation of   *)
(* the browser's as long as no response has told it one. Time passes in    *)
(* ticks, of which a turn, the proxy and the browser each allow a number.  *)
(***************************************************************************)
EXTENDS Naturals, SequencesExt

CONSTANTS
    Queries,
    ChatTimeout,        \* Settings.chat_timeout_seconds
    ProxyTimeout,       \* proxy_read_timeout
    BrowserTimeout,     \* REQUEST_TIMEOUT_MS
    MaxSends            \* requests the user makes

\* Settings allows at most 590 s, nginx 600 s and the browser 615 s.
ASSUME TimeoutAssumption ==
    /\ ChatTimeout \in Nat \ {0} /\ ProxyTimeout \in Nat /\ BrowserTimeout \in Nat
    /\ ChatTimeout < ProxyTimeout /\ ProxyTimeout < BrowserTimeout
    /\ MaxSends \in Nat \ {0}

VARIABLES
    conversationId,     \* of the last response, 0 if none came yet
    messages,           \* [role, query, failed, request]
    graph,              \* the request whose graph is shown, 0 for the empty graph
    inFlight,           \* the request the browser waits for: isLoading is inFlight # 0
    retryQuery,         \* {} or the query to retry
    age,                \* ticks the browser has waited
    hung,               \* nothing comes back of this request any more
    response,           \* what the browser is about to receive
    requests,           \* [conversation, query, stage, status, ran]
    history,            \* for each conversation, the requests whose turn was run
    saved,              \* for each conversation, the public graph
    disturbed           \* a connection was lost or a save took its time

browser == <<conversationId, messages, graph, inFlight, retryQuery>>
network == <<age, hung, response>>
service == <<requests, history, saved>>
vars == <<browser, network, service, disturbed>>

Ids == 1..MaxSends
NoResponse == [status |-> "none", request |-> 0]
isLoading == inFlight # 0

\* Requests the service has not done with.
Live == {r \in DOMAIN requests : requests[r].stage \in {"waiting", "running", "saving"}}

User(query) == [role |-> "user", query |-> query, failed |-> FALSE, request |-> 0]

Assistant(failed) ==
    [role |-> "assistant", query |-> requests[inFlight].query, failed |-> failed,
     request |-> inFlight]

Init ==
    /\ conversationId = 0 /\ messages = <<>> /\ graph = 0
    /\ inFlight = 0 /\ retryQuery = {}
    /\ age = 0 /\ hung = FALSE /\ response = NoResponse
    /\ requests = <<>>
    /\ history = [c \in Ids |-> <<>>] /\ saved = [c \in Ids |-> 0]
    /\ disturbed = FALSE

-----------------------------------------------------------------------------
(* The user.                                                               *)

\* Mutant: the callback keeps the conversation it was created with.
ConversationSent_Stale(request) == request

\* The conversation of a new request: the service makes one up if none came.
ConversationSent(request) == IF conversationId = 0 THEN request ELSE conversationId

\* setRetryQuery(null)
RetryWhilePosted == {}

\* runQuery up to the call of sendChat.
Post(query) ==
    LET request == Len(requests) + 1
    IN  /\ Len(requests) < MaxSends
        /\ inFlight' = request /\ retryQuery' = RetryWhilePosted
        /\ age' = 0 /\ hung' = FALSE /\ response' = NoResponse
        /\ requests' = Append(requests, [conversation |-> ConversationSent(request),
                                         query |-> query, stage |-> "waiting",
                                         status |-> "none", ran |-> 0])
        /\ UNCHANGED <<conversationId, graph, history, saved, disturbed>>

Send(query) ==
    /\ ~isLoading
    /\ Post(query)
    /\ messages' = Append(messages, User(query))

\* The failed answers go, all of them; the questions stay.
WithoutFailed(chat) ==
    FoldLeft(LAMBDA kept, m : IF m.failed THEN kept ELSE Append(kept, m), <<>>, chat)

Retry ==
    /\ ~isLoading
    /\ \E query \in retryQuery : Post(query)
    /\ messages' = WithoutFailed(messages)

\* Mutant: the button stays enabled while a request is under way.
MayReset_Always == TRUE

MayReset == ~isLoading

Reset ==
    /\ MayReset /\ messages # <<>>
    /\ conversationId' = 0 /\ messages' = <<>> /\ graph' = 0 /\ retryQuery' = {}
    /\ UNCHANGED <<inFlight, network, service, disturbed>>

-----------------------------------------------------------------------------
(* The service.                                                            *)

\* The browser still waits for this request and can be reached.
IsAwaited(r) == inFlight = r /\ ~hung

\* What the service returns, which nobody may be there to receive.
Return(r, status) ==
    response' = IF IsAwaited(r) /\ response = NoResponse
                THEN [status |-> status, request |-> r] ELSE response

Done(request) == [request EXCEPT !.stage = "done", !.status = "none", !.ran = 0]

\* Mutant: a request takes the lock whoever came before.
AheadOf_Nobody(r) == {}

\* The lock is handed on in the order of arrival.
AheadOf(r) == {s \in Live : s < r /\ requests[s].conversation = requests[r].conversation}

CanAcquire(r) == requests[r].stage = "waiting" /\ AheadOf(r) = {}

Acquire(r) ==
    /\ CanAcquire(r)
    /\ requests' = [requests EXCEPT ![r].stage = "running"]
    /\ UNCHANGED <<browser, network, history, saved, disturbed>>

\* The graph returns an answer, or the explanation of a failure.
TurnEnds(r, status) ==
    /\ requests[r].stage = "running"
    /\ requests' = [requests EXCEPT ![r].stage = "saving", ![r].status = status]
    /\ history' = [history EXCEPT ![requests[r].conversation] = Append(@, r)]
    /\ UNCHANGED <<browser, network, saved, disturbed>>

\* Mutant: the limit of a turn is that of the proxy.
Expired_WithProxy(r) == requests[r].stage = "running" /\ requests[r].ran >= ProxyTimeout

Expired(r) == requests[r].stage = "running" /\ requests[r].ran >= ChatTimeout

\* GraphExecutionTimeout (504) and GraphExecutionError (500).
TurnTimesOut(r) ==
    /\ Expired(r)
    /\ requests' = [requests EXCEPT ![r] = Done(@)]
    /\ Return(r, "error")
    /\ UNCHANGED <<browser, age, hung, history, saved, disturbed>>

TurnRaises(r) ==
    /\ requests[r].stage = "running"
    /\ requests' = [requests EXCEPT ![r] = Done(@)]
    /\ Return(r, "error")
    /\ UNCHANGED <<browser, age, hung, history, saved, disturbed>>

\* graph_store.save, then the response.
SaveEnds(r) ==
    /\ requests[r].stage = "saving"
    /\ requests' = [requests EXCEPT ![r] = Done(@)]
    /\ saved' = [saved EXCEPT ![requests[r].conversation] = r]
    /\ Return(r, requests[r].status)
    /\ UNCHANGED <<browser, age, hung, history, disturbed>>

SaveFails(r) ==
    /\ requests[r].stage = "saving"
    /\ requests' = [requests EXCEPT ![r] = Done(@)]
    /\ Return(r, "error")
    /\ UNCHANGED <<browser, age, hung, history, saved, disturbed>>

\* The process is restarted: its requests are gone, the stores are not.
Restart ==
    /\ Live # {}
    /\ requests' = [r \in DOMAIN requests |->
                       IF r \in Live THEN Done(requests[r]) ELSE requests[r]]
    /\ response' = IF \E r \in Live : IsAwaited(r) /\ response = NoResponse
                   THEN [status |-> "error", request |-> inFlight] ELSE response
    /\ UNCHANGED <<browser, age, hung, history, saved, disturbed>>

-----------------------------------------------------------------------------
(* The way back.                                                           *)

\* The finally clauses: no timer, no loading.
Settled == inFlight' = 0 /\ response' = NoResponse /\ age' = 0 /\ hung' = FALSE

\* runQuery after sendChat: the answer, or an explained failure.
Receive ==
    /\ isLoading /\ response.status \in {"success", "failed"}
    /\ LET failed == response.status = "failed"
       IN  /\ conversationId' = requests[inFlight].conversation
           /\ graph' = inFlight
           /\ messages' = Append(messages, Assistant(failed))
           /\ retryQuery' = IF failed THEN {requests[inFlight].query} ELSE retryQuery
    /\ Settled
    /\ UNCHANGED <<service, disturbed>>

\* The catch clause: neither conversation nor graph are learned.
Catch ==
    /\ messages' = Append(messages, Assistant(TRUE))
    /\ retryQuery' = {requests[inFlight].query}
    /\ Settled
    /\ UNCHANGED <<conversationId, graph, service>>

ReceiveError == isLoading /\ response.status = "error" /\ Catch /\ UNCHANGED disturbed

\* The connection breaks and the browser notices.
LoseConnection == isLoading /\ ~hung /\ Catch /\ disturbed' = TRUE

\* The connection breaks and the browser does not notice.
Hang ==
    /\ isLoading /\ ~hung
    /\ hung' = TRUE /\ response' = NoResponse /\ disturbed' = TRUE
    /\ UNCHANGED <<browser, age, service>>

\* The proxy's 504.
ProxyExpired == isLoading /\ ~hung /\ response = NoResponse /\ age >= ProxyTimeout

ProxyGivesUp == ProxyExpired /\ Catch /\ UNCHANGED disturbed

\* Mutant: the browser waits as long as it takes.
BrowserExpired_Never == FALSE

\* AbortController's 408.
BrowserExpired == isLoading /\ age >= BrowserTimeout

BrowserAborts == BrowserExpired /\ Catch /\ UNCHANGED disturbed

-----------------------------------------------------------------------------
(* Time passes once everything that is due has happened.                   *)

SomethingIsDue ==
    \/ \E r \in DOMAIN requests : CanAcquire(r) \/ Expired(r)
    \/ ProxyExpired \/ BrowserExpired \/ response # NoResponse

Tick ==
    /\ ~SomethingIsDue
    /\ isLoading \/ \E r \in Live : requests[r].stage = "running"
    /\ age' = IF isLoading /\ age < BrowserTimeout THEN age + 1 ELSE age
    /\ requests' = [r \in DOMAIN requests |->
                       IF requests[r].stage = "running"
                       THEN [requests[r] EXCEPT !.ran = @ + 1] ELSE requests[r]]
    /\ disturbed' = (disturbed \/ \E r \in Live : requests[r].stage = "saving")
    /\ UNCHANGED <<browser, hung, response, history, saved>>

Due ==
    \/ \E r \in DOMAIN requests : Acquire(r) \/ TurnTimesOut(r)
    \/ ReceiveError \/ Receive \/ ProxyGivesUp \/ BrowserAborts

Next ==
    \/ \E query \in Queries : Send(query)
    \/ Retry
    \/ Reset
    \/ \E r \in DOMAIN requests :
          \/ \E status \in {"success", "failed"} : TurnEnds(r, status)
          \/ TurnRaises(r) \/ SaveEnds(r) \/ SaveFails(r)
    \/ Restart
    \/ LoseConnection
    \/ Hang
    \/ Due
    \/ Tick

\* Clocks run, and what is due happens; a turn or a save need never end by
\* itself, and the user need not do anything.
Spec == Init /\ [][Next]_vars /\ WF_vars(Due) /\ WF_vars(Tick)

-----------------------------------------------------------------------------
(* Properties.                                                             *)

Stages == {"waiting", "running", "saving", "done"}
Statuses == {"none", "success", "failed", "error"}

MessageType ==
    [role : {"user", "assistant"}, query : Queries, failed : BOOLEAN, request : 0..MaxSends]

\* Every variable has its type, and the turn's limit is kept.
TypeOK ==
    /\ conversationId \in 0..MaxSends /\ graph \in 0..MaxSends
    /\ \A i \in DOMAIN messages : messages[i] \in MessageType
    /\ inFlight \in 0..Len(requests) /\ retryQuery \subseteq Queries
    /\ age \in 0..BrowserTimeout /\ hung \in BOOLEAN /\ disturbed \in BOOLEAN
    /\ response \in [status : Statuses, request : 0..MaxSends]
    /\ Len(requests) <= MaxSends
    /\ \A r \in DOMAIN requests :
          requests[r] \in [conversation : Ids, query : Queries, stage : Stages,
                           status : Statuses, ran : 0..ChatTimeout]
    /\ \A c \in Ids : saved[c] \in 0..MaxSends

\* An answer or an error stands below its own question: none arrives in a chat
\* that was reset meanwhile, and none is left below another question by a retry
\* that removes the failed answers (App.tsx, runQuery and reset).
AnswerFollowsItsQuestion ==
    \A i \in DOMAIN messages :
       messages[i].role = "assistant" =>
          i > 1 /\ messages[i - 1] = User(messages[i].query)

IsAnswer(m) == m.role = "assistant" /\ ~m.failed

\* All answers of a chat come from the conversation it continues, in the order
\* in which the service ran them: a follow-up has the context the user sees.
ChatIsOneConversation ==
    LET answers == {i \in DOMAIN messages : IsAnswer(messages[i])}
        RanAs(i, h) == history[conversationId][h] = messages[i].request
        turns == DOMAIN history[conversationId]
    IN  answers # {} =>
          /\ \A i \in answers : /\ requests[messages[i].request].conversation = conversationId
                               /\ \E h \in turns : RanAs(i, h)
          /\ \A i, j \in answers : \A g, h \in turns :
                i < j /\ RanAs(i, g) /\ RanAs(j, h) => g < h

\* After an answer, the conversation stands where the answer left it: no
\* request that was given up still runs or waits in it, the answer is the last
\* turn of its history, and the graph shown is the one GET /graph returns.
AnswerIsTheLastTurn ==
    LET last == messages[Len(messages)]
    IN  ~isLoading /\ messages # <<>> /\ IsAnswer(last) =>
           /\ \A r \in Live : requests[r].conversation # conversationId
           /\ history[conversationId][Len(history[conversationId])] = last.request
           /\ graph = last.request /\ saved[conversationId] = last.request

\* api.ts:3-5: the browser does not give up a request that is still running and
\* invite a duplicate, as long as no connection was lost and no save was slow.
NothingRunsUnseen == ~isLoading /\ ~disturbed => Live = {}

\* Whatever the network and the service do, the wait ends.
LoadingEnds == isLoading ~> ~isLoading

=============================================================================
