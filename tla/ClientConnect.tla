---------------------------- MODULE ClientConnect ----------------------------
(***************************************************************************)
(* How one Client (packages/gaussdb-node/lib/client.js) gets connected: it *)
(* tries the hosts the chooser yields one after the other, authenticates,  *)
(* asks the server for its role, falls back to the older protocol, gives   *)
(* up by its timer, and answers connect.                                   *)
(*                                                                         *)
(* One action is one handler.  process.nextTick callbacks (ticks) run      *)
(* before the next message, timer, socket event or settled promise.  Only  *)
(* the current connection is modelled in detail: the streams of earlier    *)
(* ones are destroyed and their events ignored (con !== this.connection),  *)
(* but what was started for them (work, a query sent over them) lives on.  *)
(***************************************************************************)
EXTENDS HostChooser

CONSTANTS
    Targets,        \* the values of targetServerType the program may set
    Modes,          \* the values of loadBalanceMode; "off" is none
    NumQueries,     \* how many queries the program makes
    MaxCalls,       \* how often it calls connect
    Recorded,       \* what other clients may have recorded of the hosts before
    NoHost

ASSUME ConnectAssumption ==
    /\ Targets \subseteq ServerType /\ Modes \subseteq {"off", "roundrobin", "shuffle"}
    /\ NumQueries \in Nat /\ MaxCalls \in Nat /\ Recorded \subseteq HostStatus /\ NoHost \notin Host

VARIABLES
    target, mode,
    provided,           \* _clientProvidedConnection
    role,               \* what each server is
    connecting, connected, connectionError, ending, ended, queryable,
    rolePending,        \* _roleProbePending
    skip,               \* _skipDueToRole
    fallback,           \* _protocolFallbackAttempted
    handler,            \* _connectErrorHandler is set
    timer,              \* connectionTimeoutHandle is armed
    callback, calls,    \* _connectionCallback, as the number of its call of connect
    told,               \* what each call of connect was told, in order
    todo, host,         \* orderedHosts, _activeHostSpec
    conn,               \* this.connection, numbered in the order of creation
    sock, live,         \* its socket; the connections whose socket is up
    srv,                \* what the server does on it, and the query it reads next
    session, work,      \* saslSession, by its connection; promises to be settled
    queue, active, ready,
    sentOn, rows,       \* of the active query: its connection, the role it was told
    asked, got, ran,    \* queries made, how they were told, where they were run
    endOn, endTold,     \* the connection whose end client.end waits for
    ticks

configVars == <<target, mode, provided, role>>
phaseVars == <<connecting, connected, connectionError, handler, timer>>
callVars == <<callback, told>>
connVars == <<conn, sock, live, srv, session>>
queueVars == <<queue, active, ready, sentOn, rows, got>>
endVars == <<ending, endOn, endTold>>
restVars == <<ended, queryable, rolePending, skip, fallback, calls, todo, host, work,
              asked, ran, ticks>>
vars == <<configVars, phaseVars, callVars, connVars, queueVars, endVars, restVars, hostVars>>

Query == 1..NumQueries
Nothing == 0
Probe == NumQueries + 1
Late == NumQueries + 2      \* a probe that its query_timeout has answered
Item == 1..Late

\* The first connection is the constructor's; each host and the fallback may
\* need another.
Conn == 1..(Len(Hosts) + 2)
NoConn == 0

Sock == {"new", "connecting", "open",
         "dropping",        \* connecting, and Terminate is to be sent
         "ending",          \* Terminate was sent
         "failing",         \* destroyed with an error: 'error', then 'close', follow
         "closing",         \* destroyed: 'close' follows
         "closed"}

Stage == {"away", "start", "password", "check", "sasl", "sasl first", "sasl next",
          "sasl last", "accepted", "idle", "run", "row", "done",
          "astray"}         \* it was sent what it had not asked for

NotThere == [at |-> "away", on |-> Nothing, next |-> Nothing]

Role == {"MASTER", "SLAVE"}
NoRole == "none"

Init ==
    /\ target \in Targets /\ mode \in Modes /\ provided \in BOOLEAN
    /\ role \in [Host -> Role]
    \* statuses and counter are as the other clients of the process left them;
    \* they are read only when connect is called, by a client that balances
    /\ status \in [Host -> Recorded \cup {NoEntry}]
    /\ \A h \in Host : status[h] \in Role => status[h] = role[h]
    /\ fresh \in SUBSET {h \in Host : status[h] # NoEntry} /\ counter \in 0..(Cycle - 1)
    /\ mode = "off" => counter = 0 /\ \A h \in Host : status[h] = NoEntry
    /\ connecting = FALSE /\ connected = FALSE /\ connectionError = FALSE
    /\ ending = FALSE /\ ended = FALSE /\ queryable = TRUE /\ rolePending = FALSE
    /\ skip = FALSE /\ fallback = FALSE /\ handler = FALSE /\ timer = FALSE
    /\ callback = Nothing /\ calls = 0 /\ told = [c \in 1..MaxCalls |-> <<>>]
    /\ todo = <<>> /\ host = NoHost
    /\ conn = 1 /\ sock = "new" /\ live = {} /\ srv = NotThere
    /\ session = NoConn /\ work = {}
    /\ queue = <<>> /\ active = Nothing /\ ready = FALSE /\ sentOn = NoConn
    /\ rows = NoRole /\ asked = 0
    /\ got = [q \in Query |-> "nothing"] /\ ran = [q \in Query |-> {}]
    /\ endOn = NoConn /\ endTold = FALSE /\ ticks = <<>>

-----------------------------------------------------------------------------
\* Pieces of the handlers.

Tick(what, arg) == [do |-> what, arg |-> arg]
\* No callback of nextTick is left; the 'error' of destroy is one, too.
Between == ticks = <<>> /\ sock # "failing"

\* this.connection.stream.destroy().
Up == {"connecting", "dropping", "open", "ending"}
Destroys ==
    /\ sock' = IF sock \in Up THEN "closing" ELSE sock
    /\ live' = live \ {conn}

Keeps == UNCHANGED <<conn, srv, session>>

\* new Connection and _startConnection.
Starts(c) == conn' = c /\ sock' = "connecting" /\ srv' = NotThere

\* Calls the callback of connect with what.
Calls(what) ==
    told' = IF callback = Nothing THEN told
            ELSE [told EXCEPT ![callback] = Append(told[callback], what)]
Answers(what) == Calls(what) /\ callback' = Nothing

\* _finalizeConnectSuccess, without the status of the host.
Succeeds ==
    /\ connecting' = FALSE /\ connected' = TRUE /\ handler' = FALSE /\ timer' = FALSE
    /\ Answers("ok") /\ UNCHANGED connectionError

\* _finalizeConnectFailure.
GivesUp ==
    /\ handler' = FALSE /\ connecting' = FALSE /\ connectionError' = TRUE /\ timer' = FALSE
    /\ Answers("error") /\ UNCHANGED connected

\* _connectErrorHandler, for a host that failed (failed) or has the wrong
\* role; it destroys the stream, which its callers say.
LeavesHost(failed) ==
    IF connectionError
    THEN UNCHANGED <<phaseVars, callVars, hostVars, skip, ticks>>
    ELSE /\ skip' = FALSE
         /\ IF failed THEN Records(host, "CONNECT_FAIL") ELSE UNCHANGED hostVars
         /\ IF provided
            THEN GivesUp /\ UNCHANGED ticks
            ELSE /\ connectionError' = TRUE /\ ticks' = Append(ticks, Tick("next", Nothing))
                 /\ UNCHANGED <<connecting, connected, handler, timer, callVars>>

\* _handleErrorWhileConnecting, for any error but that of the protocol; it
\* destroys the stream, too.
Fails ==
    IF connectionError
    THEN UNCHANGED <<phaseVars, callVars>>
    ELSE /\ connectionError' = TRUE /\ connecting' = FALSE /\ timer' = FALSE
         /\ Answers("error") /\ UNCHANGED <<connected, handler>>

\* Mutation of DestroysIfFailing: the stream is left open.
LeavesOpen == UNCHANGED <<sock, live>>
\* What Fails does to the stream.
DestroysIfFailing ==
    IF connecting /\ ~connectionError THEN Destroys ELSE UNCHANGED <<sock, live>>

\* _errorAllQueries.
Unanswered == (IF active = Nothing THEN <<>> ELSE <<active>>) \o queue
ErrorAll == [i \in 1..Len(Unanswered) |-> Tick("fail", Unanswered[i])]
Drops == active' = Nothing /\ queue' = <<>>

\* _handleErrorEvent.
HandleErrorEvent ==
    IF connecting
    THEN Fails /\ UNCHANGED <<queryable, ticks, queueVars>>
    ELSE /\ queryable' = FALSE /\ ticks' = ticks \o ErrorAll /\ Drops
         /\ UNCHANGED <<phaseVars, callVars, ready, sentOn, rows, got>>

\* Written over a socket that still connects, a query is sent before the
\* startup message.
Writable == sock \in {"connecting", "open"}

\* A server in state s is sent query q: it runs it at once, or once it is
\* ready, unless it waits for something else.
Written(s, q) ==
    CASE s.at = "idle" -> [s EXCEPT !.at = "run", !.on = q]
      [] s.at \in {"away", "password", "sasl", "sasl next", "astray"} -> [s EXCEPT !.at = "astray"]
      [] OTHER -> [s EXCEPT !.next = q]

\* The server is ready for a query.
Goes == LET idle == [at |-> "idle", on |-> Nothing, next |-> Nothing]
        IN IF srv.next = Nothing THEN idle ELSE Written(idle, srv.next)

\* _pulseQueryQueue of a client that is ready, with queue que and a server in
\* state s: a query is written if the stream is (up), and active in any case.
Pulses(que, up, s) ==
    /\ IF que = <<>>
       THEN /\ active' = Nothing /\ queue' = que /\ ready' = TRUE /\ srv' = s
            /\ UNCHANGED <<sentOn, rows>>
       ELSE /\ active' = Head(que) /\ queue' = Tail(que) /\ ready' = FALSE
            /\ rows' = NoRole
            /\ sentOn' = IF up THEN conn ELSE NoConn
            /\ srv' = IF up THEN Written(s, Head(que)) ELSE s
    /\ UNCHANGED <<conn, session>>

\* handleReadyForQuery of the active query; a late probe tells nobody.
Finished == IF active \in Query THEN [got EXCEPT ![active] = "result"] ELSE got

-----------------------------------------------------------------------------
\* The program's calls.

\* connect, for a client that is connecting or connected.
ConnectAgain ==
    /\ Between /\ (connecting \/ connected)
    /\ calls \in 1..(MaxCalls - 1) /\ calls' = calls + 1 /\ callback' = calls + 1
    /\ ticks' = <<Tick("refuse", calls + 1)>>
    /\ UNCHANGED <<configVars, phaseVars, told, connVars, queueVars, endVars, hostVars, ended,
                   queryable, rolePending, skip, fallback, todo, host, work, asked, ran>>

\* Sets the active host and starts; a balancing client has an error handler
\* and, unless it was given one, a connection of its own for each host.
TriesHost(h, balances) ==
    /\ host' = h
    /\ LET c == IF balances /\ ~provided THEN conn + 1 ELSE conn
       IN Starts(c) /\ live' = live \cup {c}

ConnectTo(order, balances) ==
    /\ Between /\ calls = 0 /\ MaxCalls > 0 /\ calls' = 1
    /\ IF order = <<>>
       THEN /\ told' = [told EXCEPT ![1] = <<"error">>] /\ callback' = Nothing
            /\ connecting' = FALSE /\ connectionError' = TRUE /\ timer' = FALSE
            /\ handler' = FALSE /\ UNCHANGED <<todo, host, conn, sock, live, srv>>
       ELSE /\ callback' = 1 /\ connecting' = TRUE /\ timer' = TRUE /\ handler' = balances
            /\ connectionError' = FALSE
            /\ TriesHost(Head(order), balances)
            /\ todo' = IF provided \/ ~balances THEN <<>> ELSE Tail(order)
            /\ UNCHANGED told
    /\ UNCHANGED <<configVars, connected, session, queueVars, endVars, ended, queryable,
                   rolePending, skip, fallback, work, asked, ran, ticks>>

\* connect, for the first time: to the first host, or to those the chooser yields.
Connect ==
    \/ mode = "off" /\ ConnectTo(<<Head(Hosts)>>, FALSE) /\ UNCHANGED hostVars
    \/ /\ mode # "off" /\ Counts(target, mode)
       /\ \E order \in Orders(target, mode) : ConnectTo(order, TRUE)

Asks(now) ==
    /\ Between /\ asked < NumQueries /\ ~ending /\ queryable /\ asked' = asked + 1
    /\ IF now
       THEN Pulses(Append(queue, asked'), Writable, srv)
       ELSE queue' = Append(queue, asked')
            /\ UNCHANGED <<active, ready, sentOn, rows, conn, srv, session>>
    /\ UNCHANGED <<configVars, phaseVars, callVars, sock, live, got, endVars, ended, queryable,
                   rolePending, skip, fallback, calls, todo, host, work, ran, ticks,
                   hostVars>>

\* Mutation of Ask: a query is written as soon as the socket is up.
AskEager == Asks(ready \/ (sock = "open" /\ active = Nothing))
\* client.query; ClientQueue has what happens to queries in full.
Ask == Asks(ready)

\* client.end, once connect was called.
End ==
    /\ Between /\ ~ending /\ sock # "new" /\ ~ended
    /\ ending' = TRUE /\ endOn' = conn /\ UNCHANGED endTold
    /\ IF active # Nothing \/ ~queryable
       THEN Destroys
       ELSE /\ sock' = CASE sock = "connecting" -> "dropping"
                         [] sock = "open" -> "ending"
                         [] OTHER -> sock
            /\ UNCHANGED live
    /\ Keeps
    /\ UNCHANGED <<configVars, phaseVars, callVars, queueVars, restVars, hostVars>>

-----------------------------------------------------------------------------
\* Timers and socket events of the current connection.

TimesOut(then) ==
    /\ Between /\ timer /\ timer' = FALSE
    /\ sock' = IF sock \in Up THEN then ELSE sock
    /\ live' = live \ {conn}
    /\ Keeps
    /\ UNCHANGED <<configVars, connecting, connected, connectionError, handler, callVars,
                   queueVars, endVars, restVars, hostVars>>

\* Mutation of ConnectionTimeout: the stream is destroyed without an error.
TimeoutQuietly == TimesOut("closing")
\* The stream is destroyed with an error.
ConnectionTimeout == TimesOut("failing")

\* 'connect': the startup message is sent, and Terminate if end was called.
Connected ==
    /\ Between /\ sock \in {"connecting", "dropping"}
    /\ sock' = IF sock = "connecting" THEN "open" ELSE "ending"
    /\ srv' = IF srv.at = "away" THEN [srv EXCEPT !.at = "start"] ELSE srv
    /\ UNCHANGED <<conn, live, session>>
    /\ UNCHANGED <<configVars, phaseVars, callVars, queueVars, endVars, restVars, hostVars>>

\* The socket emits 'error', and 'close' after it.
SocketError ==
    /\ ticks = <<>> /\ sock \in Up \cup {"failing"}
    /\ HandleErrorEvent
    /\ sock' = "closing" /\ live' = live \ {conn} /\ Keeps
    /\ UNCHANGED <<configVars, endVars, hostVars, ended, rolePending, skip, fallback,
                   calls, todo, host, work, asked, ran>>

\* The handler of 'end' when no other host can be tried.
EndsClient ==
    /\ ended' = TRUE /\ ticks' = ErrorAll /\ Drops
    /\ IF ending \/ connectionError \/ ~connecting
       THEN /\ timer' = FALSE /\ UNCHANGED <<connecting, connected, connectionError, handler>>
            /\ UNCHANGED callVars
       ELSE IF callback # Nothing
       THEN /\ Calls("error") /\ UNCHANGED callback /\ timer' = FALSE
            /\ UNCHANGED <<connecting, connected, connectionError, handler>>
       ELSE /\ connectionError' = TRUE /\ connecting' = FALSE /\ timer' = FALSE
            /\ UNCHANGED <<connected, handler, callVars>>
    /\ queryable' = (queryable /\ (ending \/ connectionError \/ connecting))
    /\ UNCHANGED <<ready, sentOn, rows, got, skip, hostVars>>

\* The socket emits 'close': of a host that closed the connection, or after
\* an error, a timeout or destroy.
SocketClosed ==
    /\ Between /\ sock \in Up \cup {"closing"}
    /\ sock' = "closed" /\ live' = live \ {conn} /\ Keeps
    /\ endTold' = (endTold \/ endOn = conn)
    /\ IF connecting /\ handler
       THEN LeavesHost(~skip) /\ UNCHANGED <<ended, queryable, queueVars>>
       ELSE EndsClient
    /\ UNCHANGED <<configVars, ending, endOn, rolePending, fallback, calls, todo, host,
                   work, asked, ran>>

-----------------------------------------------------------------------------
\* process.nextTick callbacks.

RunsTick(what) == ticks # <<>> /\ Head(ticks).do = what

\* tryNextHost.
TryNextHost ==
    /\ RunsTick("next") /\ ticks' = Tail(ticks)
    /\ IF todo = <<>>
       THEN GivesUp /\ UNCHANGED <<host, todo, conn, sock, live, srv>>
       ELSE /\ TriesHost(Head(todo), TRUE) /\ todo' = Tail(todo)
            /\ connectionError' = FALSE /\ handler' = TRUE
            /\ UNCHANGED <<connecting, connected, timer, callVars>>
    /\ UNCHANGED <<configVars, session, queueVars, endVars, hostVars, ended, queryable,
                   rolePending, skip, fallback, calls, work, asked, ran>>

\* A second call of connect is told that it is one.
Refuse ==
    /\ RunsTick("refuse") /\ ticks' = Tail(ticks)
    /\ LET c == Head(ticks).arg IN told' = [told EXCEPT ![c] = Append(told[c], "error")]
    /\ UNCHANGED <<configVars, phaseVars, callback, connVars, queueVars, endVars, hostVars,
                   ended, queryable, rolePending, skip, fallback, calls, todo, host, work,
                   asked, ran>>

\* _skipToNextHostDuringConnect, with the ticks tk: the stream is destroyed,
\* and the error handler or the failure of connect follows.
SkipsHost(tk) ==
    /\ Destroys
    /\ skip' = (~handler \/ connectionError)
    /\ IF ~handler
       THEN Fails /\ ticks' = tk
       ELSE IF connectionError \/ ~provided
       THEN /\ connecting' = TRUE /\ connectionError' = TRUE
            /\ ticks' = IF connectionError THEN tk ELSE Append(tk, Tick("next", Nothing))
            /\ UNCHANGED <<connected, handler, timer, callVars>>
       ELSE GivesUp /\ ticks' = tk

\* A query is told the error of the connection; the probe skips the host.
FailQuery ==
    /\ RunsTick("fail")
    /\ LET q == Head(ticks).arg IN
       /\ got' = IF q \in Query THEN [got EXCEPT ![q] = "error"] ELSE got
       /\ IF q = Probe
          THEN rolePending' = FALSE /\ SkipsHost(Tail(ticks))
          ELSE /\ ticks' = Tail(ticks)
               /\ UNCHANGED <<rolePending, skip, phaseVars, callVars, sock, live>>
    /\ Keeps
    /\ UNCHANGED <<configVars, queue, active, ready, sentOn, rows, endVars, hostVars,
                   ended, queryable, fallback, calls, todo, host, work, asked, ran>>

-----------------------------------------------------------------------------
\* Authentication.

Message(at) == Between /\ sock \in {"open", "ending"} /\ srv.at = at
Becomes(at) == srv' = [srv EXCEPT !.at = at]

SameClient == UNCHANGED <<configVars, phaseVars, callVars, conn, sock, live, queueVars,
                          endVars, ended, queryable, rolePending, skip, fallback, calls, todo,
                          host, asked, ran, ticks, hostVars>>

\* A query is not what the server asks for.
AsksFor(what) == Becomes(IF srv.next = Nothing THEN what ELSE "astray")

\* The server asks for a password or for SASL: the password may have to be
\* fetched, and hashed, first.
AuthRequest(what) ==
    /\ Message("start") /\ AsksFor(what)
    /\ work' = work \cup {[do |-> what, con |-> conn]}
    /\ UNCHANGED session /\ SameClient

AuthSASLContinue ==
    /\ Message("sasl first") /\ AsksFor("sasl next")
    /\ work' = work \cup {[do |-> "sasl next", con |-> conn]}
    /\ UNCHANGED session /\ SameClient

\* authenticationOk, which no handler minds.
AuthOk ==
    /\ \E at \in {"start", "check"} : Message(at)
    /\ Becomes("accepted")
    /\ UNCHANGED <<work, session>> /\ SameClient

\* What the server makes of an answer to work w.
Expects(at) == CASE at = "password" -> "check" [] at = "sasl" -> "sasl first"
               [] at = "sasl next" -> "sasl last"

\* The answer goes to the connection there is now.
AnswerSent(w) ==
    srv' = IF sock \notin {"connecting", "open"} THEN srv
           ELSE IF w.con = conn /\ srv.at = w.do THEN [srv EXCEPT !.at = Expects(w.do)]
           ELSE [srv EXCEPT !.at = "astray"]

\* The promise of w is fulfilled: the answer is sent.  There must still be a
\* session for the second step of SASL.
WorkDone(w) ==
    /\ Between /\ w \in work /\ (w.do = "sasl next" => session # NoConn)
    /\ work' = work \ {w} /\ AnswerSent(w)
    /\ session' = IF w.do = "sasl" THEN conn ELSE session
    /\ SameClient

ErrorOnly == UNCHANGED <<configVars, conn, srv, session, endVars, hostVars, ended,
                         rolePending, skip, fallback, calls, todo, host, asked, ran>>

\* this.connection emits 'error'.
ConnectionFails ==
    /\ HandleErrorEvent /\ ErrorOnly /\ DestroysIfFailing

\* The promise is rejected: a password function fails for the connection it
\* was called for, SASL for the current one; a failed hash is only emitted by
\* the client.
WorkFails(w) ==
    /\ Between /\ w \in work /\ work' = work \ {w}
    /\ \/ (w.do = "password" => w.con = conn) /\ ConnectionFails
       \/ /\ w.do = "password" \/ (w.do = "sasl" /\ w.con # conn)
          /\ ErrorOnly /\ UNCHANGED <<phaseVars, callVars, queueVars, sock, live, queryable, ticks>>

\* The server's signature is the expected one (good) or not, or there is no
\* session of this connection to compare it with.
AuthSASLFinal(good) ==
    /\ Message("sasl last")
    /\ IF good /\ session = conn
       THEN /\ Becomes("accepted") /\ session' = NoConn /\ UNCHANGED work /\ SameClient
       ELSE /\ UNCHANGED work /\ ConnectionFails

-----------------------------------------------------------------------------
\* The other messages of the server.

\* errorMessage while the client is connecting, or for a query.
ErrorMessage ==
    /\ \E at \in {"start", "check", "sasl first", "astray", "run"} : Message(at)
    /\ IF connecting \/ active = Nothing
       THEN HandleErrorEvent /\ DestroysIfFailing /\ UNCHANGED srv
       ELSE /\ got' = IF active \in Query THEN [got EXCEPT ![active] = "error"] ELSE got
            /\ active' = Nothing /\ Becomes("done")
            /\ UNCHANGED <<phaseVars, callVars, queue, ready, sentOn, rows, queryable, ticks,
                           sock, live>>
    /\ UNCHANGED <<configVars, conn, session, endVars, hostVars, ended, rolePending,
                   skip, fallback, calls, todo, host, work, asked, ran>>

FallsBack(destroyed) ==
    /\ Message("start") /\ connecting
    /\ fallback' = TRUE /\ connectionError' = FALSE /\ session' = NoConn
    /\ Starts(conn + 1) /\ live' = (live \ destroyed) \cup {conn + 1}
    /\ endOn' = IF endOn = conn THEN NoConn ELSE endOn
    /\ UNCHANGED <<configVars, connecting, connected, handler, timer, callVars, queueVars,
                   ending, endTold, hostVars, ended, queryable, rolePending, skip, calls,
                   todo, host, work, asked, ran, ticks>>

\* Mutation of ProtocolFallback: the old stream is left open.
FallbackLeaking == ~fallback /\ FallsBack({})
\* errorMessage of a server that does not know protocol 3.51: once per client
\* the connection is replaced.  (The new one is given protocolMinor 0, which
\* Connection does not read: it asks for 3.51, too.)
ProtocolFallback == ~fallback /\ FallsBack({conn})

\* dataRow of a probe.
ProbeRow ==
    /\ Message("run") /\ srv.on \in {Probe, Late} /\ Becomes("row")
    /\ rows' = IF active = Nothing THEN rows ELSE role[host]
    /\ UNCHANGED <<configVars, phaseVars, callVars, conn, sock, live, session, queue,
                   active, ready, sentOn, got, endVars, restVars, hostVars>>

\* commandComplete.
CommandComplete ==
    /\ \/ Message("row") /\ UNCHANGED ran
       \/ /\ Message("run") /\ srv.on \in Query
          /\ ran' = [ran EXCEPT ![srv.on] = ran[srv.on] \cup {host}]
    /\ Becomes("done")
    /\ UNCHANGED <<configVars, phaseVars, callVars, conn, sock, live, session, queueVars,
                   endVars, hostVars, ended, queryable, rolePending, skip, fallback, calls,
                   todo, host, work, asked, ticks>>

Ready == \E at \in {"accepted", "done"} : Message(at)
NeedsProbe == connecting /\ ~rolePending /\ target # "any"

SameAtReady == UNCHANGED <<configVars, endVars, ended, queryable, fallback, calls, todo, host,
                           work, asked, ran>>

\* client.query refuses the probe, as any query.
Refused == ending \/ ~queryable

\* readyForQuery of a host whose role matters: the probe is put on the queue,
\* or refused.
ReadyProbes ==
    /\ Ready /\ NeedsProbe /\ (~ready \/ Refused)
    /\ Records(host, "CONNECT_OK") /\ rolePending' = TRUE
    /\ ticks' = IF Refused THEN <<Tick("fail", Probe)>> ELSE ticks
    /\ got' = Finished
    /\ Pulses(IF Refused THEN queue ELSE Append(queue, Probe), Writable, Goes)
    /\ UNCHANGED <<phaseVars, callVars, sock, live, skip>> /\ SameAtReady

\* readyForQuery when any role will do.
ReadyConnects ==
    /\ Ready /\ connecting /\ target = "any"
    /\ Records(host, "CONNECT_OK") /\ Succeeds
    /\ got' = Finished /\ Pulses(queue, Writable, Goes)
    /\ UNCHANGED <<sock, live, skip, rolePending, ticks>> /\ SameAtReady

\* readyForQuery after a query other than the probe.
ReadyGoesOn ==
    /\ Ready /\ ~NeedsProbe /\ ~(connecting /\ target = "any") /\ active # Probe
    /\ got' = Finished /\ Pulses(queue, Writable, Goes)
    /\ UNCHANGED <<phaseVars, callVars, sock, live, skip, rolePending, ticks, hostVars>>
    /\ SameAtReady

Acceptable(r) == CASE target = "master" -> r = "MASTER"
                   [] target = "slave" -> r = "SLAVE"
                   [] OTHER -> TRUE

RoleKnown(good) ==
    /\ Ready /\ active = Probe /\ rolePending' = FALSE
    /\ IF rows = NoRole THEN UNCHANGED hostVars ELSE Records(host, rows)
    /\ IF good
       THEN Succeeds /\ Pulses(queue, Writable, Goes) /\ UNCHANGED <<skip, ticks, sock, live>>
       ELSE SkipsHost(ticks) /\ Pulses(queue, FALSE, Goes)
    /\ UNCHANGED got /\ SameAtReady

\* Mutation of ReadyAfterProbe: any role will do.
ReadyWithRole == RoleKnown(rows # NoRole)
\* readyForQuery with the probe active: its callback runs, then the queue
\* goes on, whatever became of the stream.
ReadyAfterProbe == RoleKnown(rows # NoRole /\ Acceptable(rows))

\* readyForQuery of a host whose role matters, with readyForQuery left TRUE by
\* the probe of an earlier host: the probe is submitted at once, and finished,
\* without a row, by the same message.
ReadySkips ==
    /\ Ready /\ NeedsProbe /\ ready /\ ~Refused
    /\ Records(host, "CONNECT_OK") /\ SkipsHost(ticks)
    /\ UNCHANGED <<conn, srv, session, queueVars, rolePending>> /\ SameAtReady

\* splice at indexOf; the probe is on the queue once at most.
Places == {i \in 1..Len(queue) : queue[i] = Probe}
Without == IF Places = {} THEN queue ELSE RemoveAt(queue, CHOOSE i \in Places : TRUE)

\* query_timeout of the probe: it skips the host, and is forgotten if it
\* still waits on the queue.
ProbeTimesOut ==
    /\ Between /\ (active = Probe \/ Places # {})
    /\ rolePending' = FALSE /\ SkipsHost(ticks)
    /\ active' = IF active = Probe THEN Late ELSE active
    /\ queue' = Without
    /\ srv' = IF srv.on = Probe THEN [srv EXCEPT !.on = Late] ELSE srv
    /\ UNCHANGED <<conn, session, ready, sentOn, rows, got, hostVars>> /\ SameAtReady

-----------------------------------------------------------------------------
Next ==
    \/ Connect \/ ConnectAgain \/ Ask \/ End
    \/ ConnectionTimeout \/ Connected \/ SocketError \/ SocketClosed
    \/ TryNextHost \/ Refuse \/ FailQuery
    \/ \E what \in {"password", "sasl"} : AuthRequest(what)
    \/ AuthSASLContinue \/ AuthOk \/ \E good \in BOOLEAN : AuthSASLFinal(good)
    \/ \E w \in work : WorkDone(w) \/ WorkFails(w)
    \/ ErrorMessage \/ ProtocolFallback \/ ProbeRow \/ CommandComplete
    \/ ReadyProbes \/ ReadySkips \/ ReadyConnects \/ ReadyGoesOn
    \/ ReadyAfterProbe \/ ProbeTimesOut

Spec == Init /\ [][Next]_vars

\* Node runs its ticks, fires its timers, and tells of destroyed sockets.
LoopFairness ==
    /\ WF_vars(TryNextHost) /\ WF_vars(Refuse) /\ WF_vars(FailQuery)
    /\ SF_vars(ConnectionTimeout)
    /\ SF_vars(sock = "failing" /\ SocketError) /\ SF_vars(sock = "closing" /\ SocketClosed)
FairSpec == Spec /\ LoopFairness
-----------------------------------------------------------------------------
\* Properties.

\* Every variable has its type.
TypeOK ==
    /\ HostTypeOK /\ target \in Targets /\ mode \in Modes /\ role \in [Host -> Role]
    /\ {provided, connecting, connected, connectionError, ending, ended, queryable,
        rolePending, skip, fallback, handler, timer, ready, endTold} \subseteq BOOLEAN
    /\ calls \in 0..MaxCalls /\ callback \in 0..calls
    /\ told \in [1..MaxCalls -> Seq({"ok", "error"})]
    /\ todo \in Seq(Host) /\ host \in Host \cup {NoHost}
    /\ conn \in Conn /\ sock \in Sock /\ live \subseteq Conn
    /\ srv \in [at : Stage, on : Item \cup {Nothing}, next : Item \cup {Nothing}]
    /\ session \in Conn \cup {NoConn}
    /\ work \subseteq [do : {"password", "sasl", "sasl next"}, con : Conn]
    /\ queue \in Seq(Item) /\ active \in Item \cup {Nothing}
    /\ sentOn \in Conn \cup {NoConn} /\ rows \in Role \cup {NoRole}
    /\ asked \in 0..NumQueries /\ got \in [Query -> {"nothing", "result", "error"}]
    /\ ran \in [Query -> SUBSET Host]
    /\ endOn \in Conn \cup {NoConn}
    /\ ticks \in Seq([do : {"next"}, arg : {Nothing}] \cup [do : {"refuse"}, arg : 1..MaxCalls]
                     \cup [do : {"fail"}, arg : Item])

\* connect succeeds only on a host of the role the program asked for, unless
\* the probe that said so was sent over an earlier connection.
ConnectsToRole ==
    [][~connected /\ connected' => Acceptable(role[host]) \/ sentOn # conn]_vars

\* The timer of connect is armed only while the client is connecting: firing
\* later it would destroy a connection in use.
TimerOnlyConnecting == timer => connecting

\* What connect was told is what happened: the client is connected if and only
\* if its first call was told success, once.  Only a failure is ever told
\* again, when the connection has ended.  The verdict clears the timer.
OneVerdict ==
    /\ TimerOnlyConnecting
    /\ \A c \in 1..MaxCalls :
          /\ Len(told[c]) > 1 => ended \/ c > 1
          /\ calls = 1 => (connected <=> told[1] = <<"ok">>)
          /\ "ok" \in ToSet(told[c]) => connected /\ Last(told[c]) = "ok"

\* The client has at most one socket, and none if connect has failed.
NoLeak ==
    /\ live \subseteq {conn}
    /\ calls > 0 /\ ~connecting /\ ~connected => live = {}

\* A query is told a result only if a server ran it (when hosts need not be
\* left for their role).
ResultsAreReal ==
    target = "any" \/ mode = "off" =>
        \A q \in Query : got[q] = "result" => ran[q] # {}

\* The first call of connect finds no host to try only if every host is known
\* to be down or of another role; otherwise it tries each host nothing is
\* known of, unless a slave is preferred and known.
TriesUnknown ==
    [][calls = 0 /\ calls' = 1 /\ mode # "off" =>
         IF host' = NoHost
         THEN \A h \in Host : h \in fresh /\ status[h] \notin Suiting(target) \cup {"CONNECT_OK"}
         ELSE \A h \in Host : Unknown(h) =>
                 \/ h = host' \/ h \in ToSet(todo') \/ provided
                 \/ target = "preferSlave" /\ KnownSlave(host')]_vars

\* The last call of connect is answered, whatever the servers do, unless the
\* program calls end meanwhile.
ConnectAnswered ==
    \A c \in 1..MaxCalls : calls = c ~> told[c] # <<>> \/ calls > c \/ ending
=============================================================================
