------------------------- MODULE LogicalReplication -------------------------
(***************************************************************************)
(* LogicalReplicationService (packages/gaussdb-node/lib/                   *)
(* logical-replication/logical-replication-service.js): one subscriber of  *)
(* a replication slot.                                                     *)
(*                                                                         *)
(* The log is 1..MaxLsn, one record per position; position 0 stands for    *)
(* "none" too: an acknowledgement of 0 moves no slot.  A 'data' event of   *)
(* the socket hands all its messages over in one step (a chunk); what      *)
(* follows an await is a step of its own.  The program makes one call of   *)
(* subscribe or stop at a time.  The server keeps the slot: it sends what  *)
(* follows both the slot's position and the requested one.                 *)
(***************************************************************************)
EXTENDS Naturals, Sequences, FiniteSets, FiniteSetsExt

CONSTANTS
    MaxLsn,         \* the end of the log
    MaxChunk,       \* records in one chunk of the socket
    MaxSessions,    \* subscriptions
    MaxCrashes

ASSUME ReplicationAssumption ==
    /\ MaxLsn \in Nat \ {0} /\ MaxChunk \in Nat \ {0}
    /\ MaxSessions \in Nat /\ MaxCrashes \in Nat

Lsns == 0..MaxLsn
NoLsn == MaxLsn + 1

VARIABLES
    config,             \* flowControl.enabled, acknowledge.auto, timeoutSeconds > 0;
                        \* manual: the program keeps and reports its own position
    phase, session,     \* where the subscription is, and how many there were
    then,               \* what follows the stop that is under way
    lastLsn, lastReceive, lastFlushed,
    queue, processing,  \* _messageQueue, _processing
    loops,              \* the loops of _processQueue: the record each awaits the handler of
    paused,             \* the socket
    recent,             \* less than timeoutSeconds since _lastStandbyStatusUpdatedTime
    sent, confirmed,    \* the server: the session's position, the slot's
    given,              \* the last record of the session that was given to a handler
    begun, done,        \* the records given to a handler, and those handled without error
    interrupted,        \* stop was called while a handler ran
    crashes

lsnVars == <<lastLsn, lastReceive, lastFlushed>>
queueVars == <<queue, processing, loops, paused>>
serverVars == <<sent, confirmed>>
ghosts == <<given, begun, done, interrupted>>
vars == <<config, phase, session, then, lsnVars, queueVars, recent, serverVars, ghosts, crashes>>

Phases == {"idle",          \* no client
           "ending",        \* stop awaits client.end
           "connecting",    \* subscribe awaits client.connect
           "starting",      \* START_REPLICATION was sent
           "failed",        \* ... and refused
           "streaming",
           "lost"}          \* the connection is gone
Stopped == phase \notin {"streaming", "lost"}                       \* _stop
HasConnection == phase \in {"starting", "failed", "streaming", "lost"}

\* The position up to which the program has handled every record.
Position(handled) == Max({p \in Lsns : 1..p \subseteq handled})

Init ==
    /\ config \in [flow : BOOLEAN, auto : BOOLEAN, timed : BOOLEAN, manual : BOOLEAN]
    /\ phase = "idle" /\ session = 0 /\ then = "none"
    /\ lastLsn = 0 /\ lastReceive = 0
    /\ lastFlushed = IF config.manual THEN 0 ELSE NoLsn
    /\ queue = <<>> /\ processing = FALSE /\ loops = {} /\ paused = FALSE /\ recent = FALSE
    /\ sent = 0 /\ confirmed = 0
    /\ given = 0 /\ begun = {} /\ done = {} /\ interrupted = FALSE /\ crashes = 0

-----------------------------------------------------------------------------
\* Mutations of Flushed: setFlushedLsn is not heeded; it has no default.
FlushedAsReceived(received) == received
FlushedUnset(received) == lastFlushed

\* acknowledge(lsn): the positions received and flushed; the slot moves to the
\* flushed one.
Flushed(received) == IF lastFlushed # NoLsn THEN lastFlushed ELSE received

Acknowledges(lsn) ==
    IF Stopped \/ ~HasConnection THEN UNCHANGED <<confirmed, recent>>
    ELSE LET received == IF lsn # 0 THEN lsn ELSE lastReceive
         IN /\ recent' = TRUE
            /\ confirmed' = IF phase = "lost" THEN confirmed
                            ELSE Max({confirmed, Flushed(received)})

\* _acknowledge: of its own accord.
AutoAcknowledges(lsn) ==
    IF config.auto THEN Acknowledges(lsn) ELSE UNCHANGED <<confirmed, recent>>

\* Mutation of Stops: the queue outlives stop.
StopsWithQueue(next) ==
    /\ processing' = FALSE /\ interrupted' = (interrupted \/ loops # {})
    /\ phase' = IF phase = "idle" THEN (IF next = "subscribe" THEN "connecting" ELSE "idle")
                ELSE "ending"
    /\ then' = IF phase = "idle" THEN "none" ELSE next
    /\ UNCHANGED <<config, lsnVars, queue, loops, paused, recent, serverVars, given, begun, done,
                   crashes>>

\* stop, up to its await.
Stops(next) ==
    /\ queue' = <<>> /\ processing' = FALSE /\ interrupted' = (interrupted \/ loops # {})
    /\ phase' = IF phase = "idle" THEN (IF next = "subscribe" THEN "connecting" ELSE "idle")
                ELSE "ending"
    /\ then' = IF phase = "idle" THEN "none" ELSE next
    /\ UNCHANGED <<config, lsnVars, loops, paused, recent, serverVars, given, begun, done, crashes>>

Quiet == phase \notin {"ending", "connecting"}

-----------------------------------------------------------------------------
\* Calls of the program.

Subscribe ==
    /\ Quiet /\ session < MaxSessions /\ session' = session + 1 /\ Stops("subscribe")

Stop == Quiet /\ phase # "idle" /\ Stops("stop") /\ UNCHANGED session

\* client.end is over; subscribe goes on with a new client.
Ended ==
    /\ phase = "ending" /\ then' = "none"
    /\ phase' = IF then = "subscribe" THEN "connecting" ELSE "idle"
    /\ UNCHANGED <<config, session, lsnVars, queueVars, recent, serverVars, ghosts, crashes>>

\* Mutation of Connected: the program's position is not heeded.
ConnectedAtLast ==
    /\ phase = "connecting" /\ phase' = "starting" /\ paused' = FALSE
    /\ UNCHANGED <<config, session, then, lsnVars, queue, processing, loops, recent, serverVars,
                   ghosts, crashes>>

\* client.connect is over: START_REPLICATION is sent with the program's
\* position, if it names one, or with _lastLsn.
Connected ==
    /\ phase = "connecting" /\ phase' = "starting" /\ paused' = FALSE
    /\ lastLsn' = IF config.manual THEN Position(done) ELSE lastLsn
    /\ UNCHANGED <<config, session, then, lastReceive, lastFlushed, queue, processing, loops,
                   recent, serverVars, ghosts, crashes>>

\* client.connect fails: subscribe stops and throws.
ConnectFails ==
    /\ phase = "connecting" /\ Stops("stop") /\ UNCHANGED session

\* 'replicationStart'
ReplicationStart ==
    /\ phase = "starting" /\ phase' = "streaming"
    /\ sent' = Max({lastLsn, confirmed}) /\ given' = sent'
    /\ UNCHANGED <<config, session, then, lsnVars, queueVars, recent, confirmed, begun, done,
                   interrupted, crashes>>

\* The server refuses: the promise of start is returned, not awaited, so the
\* catch of subscribe does not stop the service.
StartRefused ==
    /\ phase = "starting" /\ phase' = "failed"
    /\ UNCHANGED <<config, session, then, lsnVars, queueVars, recent, serverVars, ghosts, crashes>>

SetFlushedLsn ==
    /\ config.manual /\ lastFlushed' = Position(done) /\ lastFlushed' # lastFlushed
    /\ UNCHANGED <<config, phase, session, then, lastLsn, lastReceive, queueVars, recent,
                   serverVars, ghosts, crashes>>

\* The program acknowledges what it has handled.
ManualAcknowledge ==
    /\ ~config.auto /\ Position(done) > confirmed /\ Acknowledges(Position(done))
    /\ UNCHANGED <<config, phase, session, then, lsnVars, queueVars, sent, ghosts, crashes>>

-----------------------------------------------------------------------------
\* Messages and timers.

\* Records of one chunk, without flow control: 'data' is emitted for each.
EmitsData(n) ==
    /\ ~config.flow /\ given' = sent + n
    /\ begun' = begun \cup (sent + 1)..(sent + n) /\ done' = done \cup (sent + 1)..(sent + n)
    /\ UNCHANGED queueVars

\* With flow control they go on the queue, and a loop is started unless one is
\* processing.
Enqueues(n) ==
    LET all == queue \o [i \in 1..n |-> sent + i]
    IN /\ config.flow
       /\ IF processing
          THEN queue' = all /\ UNCHANGED <<loops, processing, paused, given, begun>>
          ELSE /\ processing' = TRUE /\ paused' = TRUE
               /\ queue' = Tail(all) /\ loops' = loops \cup {<<Head(all), session>>}
               /\ given' = Head(all) /\ begun' = begun \cup {Head(all)}
       /\ UNCHANGED done

\* What the chunk acknowledges: without flow control each record, the last one last;
\* otherwise _lastLsn, at a keepalive behind the k-th record that asks for an answer
\* (k = 0: none does).  The pause of the socket does not hold it back.
Answers(n, k) ==
    IF config.auto /\ ~config.flow THEN Acknowledges(sent + n)
    ELSE IF k > 0 THEN Acknowledges(sent + k) ELSE UNCHANGED <<confirmed, recent>>

\* XLogData, n of them, with the keepalives between and behind them.
XLogData(n, k) ==
    /\ phase = "streaming" /\ ~paused /\ sent + n <= MaxLsn
    /\ sent' = sent + n /\ lastLsn' = sent + n /\ lastReceive' = sent + n
    /\ EmitsData(n) \/ Enqueues(n)
    /\ Answers(n, k)
    /\ UNCHANGED <<config, phase, session, then, lastFlushed, interrupted, crashes>>

\* A keepalive at the head of a chunk, with the server's position, that may ask for an
\* answer: _lastLsn is acknowledged.
Keepalive(shouldRespond) ==
    /\ phase = "streaming" /\ ~paused
    /\ IF sent > lastReceive THEN lastReceive' = sent /\ lastLsn' = sent
       ELSE UNCHANGED <<lastReceive, lastLsn>>
    /\ IF shouldRespond THEN Acknowledges(lastLsn') ELSE UNCHANGED <<confirmed, recent>>
    /\ UNCHANGED <<config, phase, session, then, lastFlushed, queueVars, sent, ghosts, crashes>>

\* Mutation of LoopGoesOn: the end of the loop does not resume the stream.
LoopNeverResumes(loop) ==
    IF queue # <<>> /\ ~Stopped
    THEN /\ loops' = (loops \ {loop}) \cup {<<Head(queue), session>>}
         /\ queue' = Tail(queue) /\ given' = Head(queue) /\ begun' = begun \cup {Head(queue)}
         /\ UNCHANGED <<processing, paused>>
    ELSE /\ loops' = loops \ {loop} /\ processing' = FALSE
         /\ UNCHANGED <<paused, queue, given, begun>>

\* A loop awaits the next handler, or ends.
LoopGoesOn(loop) ==
    IF queue # <<>> /\ ~Stopped
    THEN /\ loops' = (loops \ {loop}) \cup {<<Head(queue), session>>}
         /\ queue' = Tail(queue) /\ given' = Head(queue) /\ begun' = begun \cup {Head(queue)}
         /\ UNCHANGED <<processing, paused>>
    ELSE /\ loops' = loops \ {loop} /\ processing' = FALSE
         /\ paused' = (paused /\ (Stopped \/ ~HasConnection))
         /\ UNCHANGED <<queue, given, begun>>

\* The handler of a loop is over, and its record acknowledged.
Handled(loop) ==
    /\ done' = done \cup {loop[1]} /\ AutoAcknowledges(loop[1]) /\ LoopGoesOn(loop)
    /\ UNCHANGED <<config, phase, session, then, lsnVars, sent, interrupted, crashes>>

\* The handler throws: 'error' is emitted, and the loop goes on.
HandlerThrows(loop) ==
    /\ LoopGoesOn(loop)
    /\ UNCHANGED <<config, phase, session, then, lsnVars, recent, serverVars, done, interrupted,
                   crashes>>

\* Mutation of CheckStandbyStatus: the interval is set for the first subscription
\* only.
CheckStandbyStatusOnce ==
    /\ config.timed /\ ~Stopped /\ lastLsn # 0 /\ ~recent /\ session = 1 /\ Acknowledges(lastLsn)
    /\ UNCHANGED <<config, phase, session, then, lsnVars, queueVars, sent, ghosts, crashes>>

\* The interval of _checkStandbyStatus.
CheckStandbyStatus ==
    /\ config.timed /\ ~Stopped /\ lastLsn # 0 /\ ~recent /\ Acknowledges(lastLsn)
    /\ UNCHANGED <<config, phase, session, then, lsnVars, queueVars, sent, ghosts, crashes>>

TimePasses ==
    /\ recent /\ recent' = FALSE
    /\ UNCHANGED <<config, phase, session, then, lsnVars, queueVars, serverVars, ghosts, crashes>>

-----------------------------------------------------------------------------
\* Faults.

ConnectionLost ==
    /\ phase = "streaming" /\ phase' = "lost"
    /\ UNCHANGED <<config, session, then, lsnVars, queueVars, recent, serverVars, ghosts, crashes>>

\* The process dies; a new one begins with a new service.  The program has kept
\* what it handled, the server its slot.
Crash ==
    /\ crashes < MaxCrashes /\ crashes' = crashes + 1
    /\ phase' = "idle" /\ then' = "none" /\ lastLsn' = 0 /\ lastReceive' = 0
    /\ lastFlushed' = IF config.manual THEN Position(done) ELSE NoLsn
    /\ queue' = <<>> /\ processing' = FALSE /\ loops' = {} /\ paused' = FALSE /\ recent' = FALSE
    /\ interrupted' = FALSE
    /\ UNCHANGED <<config, session, serverVars, given, begun, done>>

Next ==
    \/ Subscribe \/ Stop \/ Ended \/ Connected \/ ConnectFails \/ ReplicationStart \/ StartRefused
    \/ SetFlushedLsn \/ ManualAcknowledge
    \/ \E n \in 1..MaxChunk : \E k \in 0..n : XLogData(n, k)
    \/ \E shouldRespond \in BOOLEAN : Keepalive(shouldRespond)
    \/ \E loop \in loops : Handled(loop) \/ HandlerThrows(loop)
    \/ CheckStandbyStatus \/ TimePasses \/ ConnectionLost \/ Crash

Spec == Init /\ [][Next]_vars

\* The server sends its log, handlers end, and the interval fires.
Fairness ==
    /\ WF_vars(\E n \in 1..MaxChunk : \E k \in 0..n : XLogData(n, k))
    /\ WF_vars(\E loop \in loops : Handled(loop) \/ HandlerThrows(loop))
    /\ WF_vars(CheckStandbyStatus) /\ WF_vars(TimePasses)
FairSpec == Spec /\ Fairness

-----------------------------------------------------------------------------
\* Type invariant.
TypeOK ==
    /\ config \in [flow : BOOLEAN, auto : BOOLEAN, timed : BOOLEAN, manual : BOOLEAN]
    /\ phase \in Phases /\ session \in 0..MaxSessions /\ then \in {"none", "stop", "subscribe"}
    /\ {lastLsn, lastReceive, sent, confirmed, given} \subseteq Lsns
    /\ lastFlushed \in Lsns \cup {NoLsn}
    /\ queue \in Seq(Lsns) /\ loops \subseteq Lsns \X (0..MaxSessions)
    /\ {processing, paused, recent, interrupted} \subseteq BOOLEAN
    /\ begun \subseteq Lsns /\ done \subseteq begun /\ crashes \in 0..MaxCrashes

\* The records of a session reach the handlers in the order of the log, and the
\* ones that wait are exactly those received since, whatever loops there are.
InOrder ==
    phase = "streaming" =>
        /\ given + Len(queue) = sent
        /\ \A i \in DOMAIN queue : queue[i] = given + i

\* "Process messages in the queue sequentially" (_processQueue): no two handlers
\* run at once.
OneAtATime == Cardinality(loops) <= 1

\* It holds while no stop interrupts a handler, and then the stream is paused as
\* long as one runs: what waits is never more than the rest of one chunk.
Backpressure ==
    config.flow /\ ~interrupted =>
        /\ OneAtATime /\ (processing <=> loops # {})
        /\ phase = "streaming" => (paused <=> loops # {})
        /\ Len(queue) < MaxChunk

\* What waits is in the order of the log, complete and bounded (_processQueue,
\* socket.pause and resume).
QueueExact == InOrder /\ Backpressure

\* "If the value is false, acknowledge must be done manually" (acknowledge.auto):
\* nothing is acknowledged that the program has not handled.
AcknowledgedByHand == ~config.auto /\ ~config.timed => confirmed <= Position(done)

\* A program that reports its flushed position is never acknowledged past it, by
\* loops, timer or keepalive, before or after a restart: the server keeps what a
\* crash would lose.
FlushedCovers == config.manual => confirmed <= Position(done)

\* No record is skipped: over stops, lost connections and crashes, every record
\* below one that a handler got was given to a handler.  (Not so with flow
\* control and subscriptions from _lastLsn, which counts records that stop takes
\* off the queue.)
NothingSkipped ==
    (~config.flow \/ config.manual) /\ begun # {} => 1..Max(begun) \subseteq begun

\* A record that is received is given to a handler or the session ends: the
\* stream is resumed after each pause.
RecordsArrive ==
    \A p \in 1..MaxLsn : \A s \in 1..MaxSessions :
        phase = "streaming" /\ session = s ~>
            given >= p \/ phase # "streaming" \/ session # s

\* With the interval on, the slot follows the records, whether handlers throw or
\* not, so the server need not keep its log for ever.
SlotFollows ==
    config.timed /\ ~config.manual =>
        \A p \in 1..MaxLsn : \A s \in 1..MaxSessions :
            phase = "streaming" /\ session = s /\ sent >= p ~>
                confirmed >= p \/ phase # "streaming" \/ session # s
=============================================================================
