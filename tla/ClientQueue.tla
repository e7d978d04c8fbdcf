---------------------------- MODULE ClientQueue ----------------------------
(***************************************************************************)
(* The query queue of one Client (packages/gaussdb-node/lib/client.js) on  *)
(* one connection, with what query.js and connection.js do for it: queries *)
(* are queued, submitted one at a time, answered by messages of the        *)
(* server, by errors, by their read timeout or by the end of the           *)
(* connection.                                                             *)
(*                                                                         *)
(* One action is one run of a handler up to a point where the program's    *)
(* own code is called: between that callback and the rest of the handler   *)
(* (rest) the program may call query and end.  The parser hands over all   *)
(* messages of a chunk in one run (reading); the nextTick queue is emptied *)
(* before the next chunk, timer or socket event.                           *)
(***************************************************************************)
EXTENDS Naturals, Sequences, SequencesExt

CONSTANTS
    NumQueries,     \* how many queries the program makes
    NoQuery,
    Kinds,          \* the kinds of query it makes
    Timeout,        \* query_timeout is set
    MaxEnds         \* how often it calls client.end

ASSUME NumAssumption == NumQueries \in Nat /\ MaxEnds \in Nat
ASSUME TimeoutAssumption == Timeout \in BOOLEAN

\* The queries, in the order they are made.
Query == 1..NumQueries

ASSUME NullAssumption == NoQuery \notin Query

Kind == {"plain",       \* the server answers it without more from the client
         "paged",       \* rows is set: executed in pages, Sync comes last
         "refused",     \* submit returns an error and sends nothing
         "unbindable"}  \* a value mapper throws in bind, after Parse was sent

ASSUME KindsAssumption == Kinds \subseteq Kind

VARIABLES
    query,          \* what each query object is, see QueryRecord
    asked,          \* queries made so far
    queryQueue, activeQuery, readyForQuery,
    queryable,      \* _queryable
    ending,         \* _ending
    ended,          \* _ended
    ticks,          \* callbacks given to process.nextTick
    stream,         \* the socket, see Stream
    connEnding,     \* connection._ending
    connecting,     \* _connecting
    server,         \* what the server does for the client
    reading,        \* the parser is in the middle of a chunk
    rest,           \* what the handler does after the program's callback
    fault,          \* a handler used activeQuery where it was null
    endAsked, endTold   \* client.end calls, and those that were answered

queueVars == <<query, queryQueue, activeQuery, readyForQuery, ticks>>
socketVars == <<stream, connEnding>>
endVars == <<endAsked, endTold, ending>>
vars == <<query, asked, queryQueue, activeQuery, readyForQuery, queryable,
          ending, ended, ticks, stream, connEnding, connecting, server,
          reading, rest, fault, endAsked, endTold>>

QueryRecord ==
    [kind : Kind,
     told : Nat,                    \* calls of the program's callback
     got : {"nothing", "result", "error"},  \* with what it was called last
     timer : BOOLEAN,               \* readTimeoutTimer is armed
     silenced : BOOLEAN,            \* its callback was replaced after a timeout
     canceled : BOOLEAN]            \* _canceledDueToError: a row did not parse

Tick == [do : {"tell", "refuse"}, q : Query] \cup [do : {"end"}]

Stream == {"open",      \* messages pass both ways
           "ending",    \* Terminate was written: the server reads no more
           "closing",   \* destroyed or broken, 'close' has yet to come
           "closed"}

\* The server works on at most one query at a time.
Server == [on : Query \cup {NoQuery},
           at : {"idle",     \* nothing to do
                 "run",      \* executing: rows, completion or an error follow
                 "done",     \* ReadyForQuery follows
                 "waiting",  \* sends nothing before it has read a Sync
                 "gone"}]    \* the session was terminated

Init ==
    /\ query \in [Query -> {[kind |-> k, told |-> 0, got |-> "nothing", timer |-> FALSE,
                             silenced |-> FALSE, canceled |-> FALSE] : k \in Kinds}]
    /\ asked = 0 /\ queryQueue = <<>> /\ activeQuery = NoQuery
    /\ readyForQuery = FALSE /\ queryable = TRUE /\ ending = FALSE /\ ended = FALSE
    /\ ticks = <<>> /\ stream = "open" /\ connEnding = FALSE /\ connecting = TRUE
    /\ server = [on |-> NoQuery, at |-> "done"]
    /\ reading = FALSE /\ rest = "nothing" /\ fault = FALSE
    /\ endAsked = 0 /\ endTold = 0

-----------------------------------------------------------------------------
\* Query: how a query is told.

\* The wrapper of query_timeout clears the timer; after a timeout the
\* callback does nothing.
Told(qs, q, what) ==
    IF qs[q].silenced THEN qs
    ELSE [qs EXCEPT ![q] = [qs[q] EXCEPT !.told = qs[q].told + 1, !.got = what,
                                         !.timer = FALSE]]

HandleError(qs, q) ==
    LET heard == Told(qs, q, "error")
    IN [heard EXCEPT ![q] = [heard[q] EXCEPT !.canceled = FALSE]]

\* Mutation of HandleReady: the row that did not parse is forgotten.
HandleReadyAnyway(qs, q) == Told(qs, q, "result")

HandleReady(qs, q) ==
    IF qs[q].canceled THEN HandleError(qs, q) ELSE Told(qs, q, "result")

-----------------------------------------------------------------------------
\* _pulseQueryQueue, run by a handler that has brought the queue, the flag,
\* the queries and the ticks to que, ready, qs and tk.

\* What the server makes of a message that starts query q: nothing, unless
\* it still reads.
Sent(q, at) == IF stream = "open" /\ server.at # "gone"
               THEN [on |-> q, at |-> at] ELSE server

Submit(q, qs, tk) ==
    \/ /\ qs[q].kind \in {"plain", "paged"}
       /\ server' = Sent(q, "run") /\ query' = qs /\ ticks' = tk
       \* sync(), which a prepared plain query sends at once, sets _ending
       /\ connEnding' \in IF qs[q].kind = "plain" THEN {connEnding, TRUE} ELSE {connEnding}
    \/ /\ qs[q].kind = "unbindable"
       /\ server' = Sent(q, "waiting") /\ query' = HandleError(qs, q) /\ ticks' = tk
       /\ UNCHANGED connEnding
    \/ /\ qs[q].kind = "refused"
       /\ query' = qs /\ ticks' = Append(tk, [do |-> "refuse", q |-> q])
       /\ UNCHANGED <<server, connEnding>>

Pulse(que, ready, qs, tk) ==
    \/ /\ ready /\ que # <<>>
       /\ activeQuery' = Head(que) /\ queryQueue' = Tail(que) /\ readyForQuery' = FALSE
       /\ Submit(Head(que), qs, tk)
    \/ /\ ready /\ que = <<>>
       /\ activeQuery' = NoQuery /\ queryQueue' = que /\ readyForQuery' = TRUE
       /\ query' = qs /\ ticks' = tk /\ UNCHANGED <<server, connEnding>>
    \/ /\ ~ready
       /\ queryQueue' = que /\ readyForQuery' = FALSE
       /\ query' = qs /\ ticks' = tk /\ UNCHANGED <<activeQuery, server, connEnding>>

-----------------------------------------------------------------------------
\* _errorAllQueries and the handlers built on it.

Telling(q) == [do |-> "tell", q |-> q]
Active == IF activeQuery = NoQuery THEN <<>> ELSE <<activeQuery>>

\* Every query that was accepted and not answered is told in a tick of its own.
Unanswered == Active \o queryQueue
ErrorAll == [i \in 1..Len(Unanswered) |-> Telling(Unanswered[i])]

HandleErrorEvent ==
    /\ queryable' = FALSE
    /\ ticks' = ticks \o ErrorAll /\ activeQuery' = NoQuery /\ queryQueue' = <<>>
    /\ UNCHANGED <<query, readyForQuery>>

-----------------------------------------------------------------------------
\* The program's calls, possible at any moment at which its code runs.

\* client.query on a client that accepts queries or not, with a timer or not.
Asks(accepts, timed) ==
    /\ asked < NumQueries /\ asked' = asked + 1
    /\ LET q == asked + 1
           qs == [query EXCEPT ![q] = [query[q] EXCEPT !.timer = timed]]
       IN IF accepts
          THEN Pulse(Append(queryQueue, q), readyForQuery, qs, ticks)
          ELSE /\ query' = qs /\ ticks' = Append(ticks, Telling(q))
               /\ UNCHANGED <<queryQueue, activeQuery, readyForQuery, server, connEnding>>
    /\ UNCHANGED <<queryable, ended, stream, connecting, reading, rest, fault, endVars>>

\* Mutation of Ask: a query that has to wait gets no timer.
AskUntimed == Asks(queryable /\ ~ending, Timeout /\ readyForQuery)

Ask == Asks(queryable /\ ~ending, Timeout)

\* client.end, with the socket forced down or Terminate written.
Ends(forced) ==
    /\ endAsked < MaxEnds /\ ~connecting
    /\ ending' = TRUE /\ endAsked' = endAsked + 1
    /\ endTold' = IF ended THEN endTold + 1 ELSE endTold
    /\ IF forced
       THEN /\ stream' = IF stream = "closed" THEN stream ELSE "closing"
            /\ UNCHANGED connEnding
       ELSE /\ stream' = IF stream = "open" THEN "ending" ELSE stream
            /\ connEnding' = TRUE
    /\ UNCHANGED <<asked, queryable, ended, connecting, server, reading, rest, fault>>

\* Mutations of End: never forced; the queries are given up at once.
EndGently == Ends(FALSE) /\ UNCHANGED queueVars
EndDropping ==
    /\ Ends(activeQuery # NoQuery \/ ~queryable)
    /\ ticks' = ticks \o ErrorAll /\ activeQuery' = NoQuery /\ queryQueue' = <<>>
    /\ UNCHANGED <<query, readyForQuery>>

\* An active query, or a client that is not queryable, forces the socket down.
End == Ends(activeQuery # NoQuery \/ ~queryable) /\ UNCHANGED queueVars

-----------------------------------------------------------------------------
\* The messages of the server.  The rest of a chunk is handed over whatever
\* happens to the socket and to the ticks meanwhile.

Deliverable == reading \/ (stream \in {"open", "ending"} /\ ticks = <<>>)

Message(at) ==
    /\ rest = "nothing" /\ Deliverable /\ server.at = at
    /\ reading' = TRUE
    /\ UNCHANGED <<asked, ended, stream, endVars>>

Becomes(at) == server' = [server EXCEPT !.at = at]

\* dataRow with a value its type parser rejects; other rows change nothing.
BadRow ==
    /\ Message("run")
    /\ IF activeQuery = NoQuery
       THEN fault' = TRUE /\ UNCHANGED query
       ELSE /\ query' = [query EXCEPT ![activeQuery] =
                            [query[activeQuery] EXCEPT !.canceled = TRUE]]
            /\ UNCHANGED fault
    /\ UNCHANGED <<queryQueue, activeQuery, readyForQuery, ticks, queryable,
                   connEnding, connecting, server, rest>>

\* portalSuspended: the next page is asked for, with Flush.
PortalSuspended ==
    /\ Message("run") /\ query[server.on].kind = "paged" /\ activeQuery # NoQuery
    /\ IF stream = "open" THEN UNCHANGED server ELSE Becomes("waiting")
    /\ UNCHANGED <<queueVars, queryable, connEnding, connecting, rest, fault>>

\* commandComplete or emptyQuery of the last statement; a paged query is
\* synced now.
CommandComplete ==
    /\ Message("run")
    /\ IF query[server.on].kind = "paged" /\ (activeQuery = NoQuery \/ stream # "open")
       THEN Becomes("waiting") ELSE Becomes("done")
    /\ IF activeQuery = NoQuery
       THEN HandleErrorEvent /\ UNCHANGED connEnding
       ELSE /\ connEnding' = (connEnding \/ query[activeQuery].kind = "paged")
            /\ UNCHANGED <<queueVars, queryable>>
    /\ UNCHANGED <<connecting, rest, fault>>

\* What _handleErrorMessage does.
ErrorToActive ==
    IF activeQuery = NoQuery THEN HandleErrorEvent
    ELSE /\ activeQuery' = NoQuery
         /\ query' = HandleError(query, activeQuery)
         /\ UNCHANGED <<queryQueue, readyForQuery, ticks, queryable>>

\* errorMessage for the statement the server executes.  A paged query has
\* sent no Sync yet.
ErrorMessage ==
    /\ Message("run")
    /\ Becomes(IF query[server.on].kind = "paged" THEN "waiting" ELSE "done")
    /\ ErrorToActive
    /\ UNCHANGED <<connEnding, connecting, rest, fault>>

\* errorMessage of a server that terminates the session.
FatalMessage ==
    /\ server.at # "gone" /\ Message(server.at) /\ ~connecting
    /\ Becomes("gone")
    /\ ErrorToActive
    /\ UNCHANGED <<connEnding, connecting, rest, fault>>

Ready ==
    /\ Message("done") /\ Becomes("idle")
    /\ connecting' = FALSE
    /\ activeQuery' = NoQuery /\ readyForQuery' = TRUE
    /\ query' = IF activeQuery = NoQuery THEN query ELSE HandleReady(query, activeQuery)
    /\ UNCHANGED <<queryQueue, ticks, queryable, connEnding, fault>>

\* readyForQuery, up to the callback of the query that is done; the first one
\* ends the connection phase.
ReadyForQuery == Ready /\ rest' = "pulse"

EndChunk ==
    /\ reading /\ rest = "nothing" /\ reading' = FALSE
    /\ UNCHANGED <<query, asked, queryQueue, activeQuery, readyForQuery, queryable, ending,
                   ended, ticks, stream, connEnding, connecting, server, rest, fault,
                   endAsked, endTold>>

\* The handler goes on after the program's callback: it pulses, after a
\* refused query with readyForQuery set.
GoOn ==
    /\ rest # "nothing" /\ rest' = "nothing"
    /\ Pulse(queryQueue, readyForQuery \/ rest = "ready", query, ticks)
    /\ UNCHANGED <<asked, queryable, ended, stream, connecting, reading, fault, endVars>>

-----------------------------------------------------------------------------
\* Ticks, timers and socket events.

Between == ~reading /\ rest = "nothing"

RunsTick(after) ==
    /\ Between /\ ticks # <<>> /\ ticks' = Tail(ticks)
    /\ LET t == Head(ticks) IN
       \/ /\ t.do = "tell" /\ query' = HandleError(query, t.q)
          /\ UNCHANGED <<rest, fault>>
       \/ /\ t.do = "refuse" /\ activeQuery # NoQuery
          /\ query' = HandleError(query, activeQuery)
          /\ rest' = after /\ UNCHANGED fault
       \/ /\ t.do = "refuse" /\ activeQuery = NoQuery
          /\ fault' = TRUE /\ UNCHANGED <<query, rest>>
       \/ t.do = "end" /\ UNCHANGED <<query, rest, fault>>
    /\ UNCHANGED <<asked, queryQueue, activeQuery, readyForQuery, queryable, ended,
                   socketVars, connecting, server, reading, endVars>>

\* The next callback of process.nextTick.  The one of a refused query reads
\* activeQuery again.
RunTick == RunsTick("ready")

TimesOut(q, que, ready, qs) ==
    /\ Between /\ ticks = <<>> /\ query[q].timer
    /\ Pulse(que, ready, qs, <<Telling(q)>>)
    /\ UNCHANGED <<asked, queryable, ended, stream, connecting, reading, rest, fault, endVars>>

Silenced(q) ==
    [query EXCEPT ![q] = [Told(query, q, "error")[q] EXCEPT !.silenced = TRUE]]

\* splice at indexOf; a query is on the queue once at most.
Places(q) == {i \in 1..Len(queryQueue) : queryQueue[i] = q}
Without(q) == IF Places(q) = {} THEN queryQueue
              ELSE RemoveAt(queryQueue, CHOOSE i \in Places(q) : TRUE)

\* Mutations of QueryTimeoutFires: the query stays on the queue; its callback
\* is not replaced; an active query is given up.
TimeoutStays(q) == TimesOut(q, queryQueue, readyForQuery, Silenced(q))
TimeoutAloud(q) == TimesOut(q, Without(q), readyForQuery, Told(query, q, "error"))
TimeoutGivesUp(q) == TimesOut(q, Without(q), readyForQuery \/ activeQuery = q, Silenced(q))

\* readTimeoutTimer: the program is told, the callback replaced, the query
\* taken off the queue; an active query stays active.
QueryTimeoutFires(q) == TimesOut(q, Without(q), readyForQuery, Silenced(q))

\* The socket emits 'error'.  While the connection thinks it is ending, a
\* reset is ignored.
StreamError(reset) ==
    /\ Between /\ ticks = <<>> /\ ~connecting
    /\ stream \in {"open", "ending"} /\ stream' = "closing"
    /\ IF connEnding /\ reset THEN UNCHANGED <<queueVars, queryable>> ELSE HandleErrorEvent
    /\ UNCHANGED <<asked, ended, connEnding, connecting, server, reading, rest, fault, endVars>>

\* The socket emits 'close': the client's handler of 'end', then the callbacks
\* of client.end.
StreamClosed ==
    /\ Between /\ ticks = <<>> /\ ~connecting
    /\ stream # "closed" /\ stream' = "closed"
    /\ ended' = TRUE /\ endTold' = endAsked
    /\ queryable' = (queryable /\ ending)
    /\ ticks' = ErrorAll \o <<[do |-> "end"]>>
    /\ activeQuery' = NoQuery /\ queryQueue' = <<>>
    /\ UNCHANGED <<query, asked, readyForQuery, ending, connEnding, connecting, server,
                   reading, rest, fault, endAsked>>

-----------------------------------------------------------------------------
Next ==
    \/ Ask \/ End
    \/ BadRow \/ PortalSuspended \/ CommandComplete \/ ErrorMessage \/ FatalMessage
    \/ ReadyForQuery \/ EndChunk \/ GoOn
    \/ RunTick \/ \E q \in Query : QueryTimeoutFires(q)
    \/ \E reset \in BOOLEAN : StreamError(reset)
    \/ StreamClosed

Spec == Init /\ [][Next]_vars

\* What Node, and the system below it, guarantee: handlers end, ticks run,
\* timers fire between chunks however many come, and a socket closes that was
\* destroyed, or that the server closed, after Terminate too unless it is busy.
Shut == \/ stream = "closing" \/ server.at = "gone"
        \/ stream = "ending" /\ server.at # "run"
LoopFairness ==
    /\ WF_vars(EndChunk) /\ WF_vars(GoOn) /\ WF_vars(RunTick)
    /\ \A q \in Query : SF_vars(QueryTimeoutFires(q))
    /\ WF_vars(Shut /\ StreamClosed)
LoopSpec == Spec /\ LoopFairness

\* A server that ends every statement it runs.
ServerFairness == WF_vars(CommandComplete \/ ErrorMessage) /\ WF_vars(ReadyForQuery)
LiveSpec == LoopSpec /\ ServerFairness

-----------------------------------------------------------------------------
\* Properties.

\* Every variable has its type.
TypeOK ==
    /\ query \in [Query -> QueryRecord] /\ asked \in 0..NumQueries
    /\ queryQueue \in Seq(Query) /\ activeQuery \in Query \cup {NoQuery}
    /\ {readyForQuery, queryable, ending, ended, connEnding, connecting, reading, fault}
          \subseteq BOOLEAN
    /\ ticks \in Seq(Tick) /\ stream \in Stream /\ server \in Server
    /\ rest \in {"nothing", "pulse", "ready"}
    /\ endAsked \in 0..MaxEnds /\ endTold \in 0..MaxEnds

\* Answers go to the query they are for: while messages can still arrive, the
\* query the server executes is the active one, and the client submits only
\* when the server has finished with the query before.
AnswersMatch ==
    /\ Deliverable /\ server.at = "run" => activeQuery = server.on
    /\ Deliverable /\ server.at = "done" => activeQuery \in {server.on, NoQuery}
    /\ readyForQuery => activeQuery = NoQuery /\ (stream = "open" => server.at \in {"idle", "gone"})

\* A client that is ready has nothing on its queue once the handler is over.
QueueMoves == readyForQuery /\ rest = "nothing" => queryQueue = <<>>

Waits(q) == \E i \in 1..Len(queryQueue) : queryQueue[i] = q
ToBeTold(q) == \E i \in 1..Len(ticks) : ticks[i] = Telling(q)

\* No query is dropped: until its callback is called it waits on the queue,
\* is the active one or is to be told by a tick, and only in one of these ways.
\* A query that was answered, by its timeout or otherwise, leaves the queue
\* and is never submitted after that.
OnePlace ==
    \A q \in Query :
        /\ q <= asked /\ query[q].told = 0 =>
              \/ Waits(q) /\ activeQuery # q /\ ~ToBeTold(q)
              \/ ~Waits(q) /\ activeQuery = q /\ ~ToBeTold(q)
              \/ ~Waits(q) /\ activeQuery # q /\ ToBeTold(q)
        /\ Waits(q) => q <= asked /\ query[q].told = 0
        /\ query[q].timer => q <= asked /\ query[q].told = 0

\* The callback of a query is called at most once, whatever its timeout, the
\* server, the socket and client.end do.  (A query whose parameters do not
\* serialise stays active after it was told, and is told again by the end of
\* the connection.)
AnsweredOnce == \A q \in Query : query[q].kind # "unbindable" => query[q].told <= 1

\* A result is reported only if every row could be parsed, and only after the
\* queries made before it were answered.
ResultsInOrder ==
    \A q \in Query : query[q].got = "result" =>
        /\ ~query[q].canceled /\ query[q].kind \in {"plain", "paged"}
        /\ \A p \in 1..(q - 1) : query[p].told > 0

\* A handler finds activeQuery null only after the server terminated the
\* session in the chunk that made the client submit a refused query.
FaultOnlyAtShutdown == fault => server.at = "gone"

\* Once the connection is gone nothing is left on the queue, and nothing that
\* is asked later gets there.
ClosedIsEmpty ==
    ended => /\ queryQueue = <<>> /\ activeQuery = NoQuery
             /\ ending \/ ~queryable
             /\ endTold = endAsked

\* With query_timeout every query is answered, whatever the server does.
QueriesAnswered == asked > 0 ~> \A q \in 1..asked : query[q].told > 0

\* Every call of client.end is answered, although a query may hang.
EndCompletes == endAsked > 0 ~> endTold = endAsked

-----------------------------------------------------------------------------
\* What comments and tests say, and the code does not do.

\* query.js: "need to sync after error during a prepared statement": the
\* server is not left waiting for a Sync.
SyncsAfterError ==
    ~(server.at = "waiting" /\ stream = "open" /\ ~reading /\ rest = "nothing" /\ ticks = <<>>)
=============================================================================
