-------------------------------- MODULE Pool --------------------------------
(***************************************************************************)
(* The connection pool of packages/gaussdb-pool/index.js: requests for a   *)
(* client, the clients the pool owns, the idle list, the queue of waiting  *)
(* requests, and every timer and listener that refers to them.             *)
(*                                                                         *)
(* One action is one run of a JavaScript handler to its end.  What a       *)
(* handler does last, _pulseQueue included, is part of its action.  Node   *)
(* empties the nextTick queue before it takes the next timer or socket     *)
(* event, so those actions wait for ticks = 0; the program's own calls     *)
(* (connect, release, end) may come at any moment, from inside a callback  *)
(* too.                                                                    *)
(***************************************************************************)
EXTENDS Naturals, FiniteSets, Sequences, SequencesExt

CONSTANTS
    Request,        \* the calls of pool.connect the program makes, each once
    Client,         \* the client objects the pool may ever construct
    Host,           \* the hosts of a load-balanced configuration
    NoHost,         \* no host recorded, or none selected
    NoRequest,      \* nobody waits for, or holds, the client
    MaxSize, MinSize,       \* options.max, options.min
    MaxUses,        \* options.maxUses
    ConnTimeout,    \* options.connectionTimeoutMillis is set
    IdleTimeout,    \* options.idleTimeoutMillis is not 0
    Lifetime,       \* options.maxLifetimeSeconds is not 0
    Verify,         \* options.verify is given
    LoadBalance     \* several hosts and a load-balance mode are configured

ASSUME SizeAssumption == MaxSize \in Nat \ {0} /\ MinSize \in Nat /\ MaxUses \in Nat \ {0}
ASSUME OptionAssumption ==
    {ConnTimeout, IdleTimeout, Lifetime, Verify, LoadBalance} \subseteq BOOLEAN
ASSUME NullAssumption == NoHost \notin Host /\ NoRequest \notin Request
\* newClient runs at most once per request, so this many clients suffice.
ASSUME EnoughClients == 
    IsFiniteSet(Client) => /\ IsFiniteSet(Request)
                           /\ Cardinality(Client) >= Cardinality(Request)

VARIABLES
    clients,        \* _clients: every client that counts against MaxSize
    idle,           \* _idle: the clients nobody holds
    client,         \* what each client object is, see ClientRecord
    pendingQueue,   \* _pendingQueue: the requests waiting for a client
    asked,          \* the requests made so far
    reqTimer,       \* requests whose checkout timer is armed
    timedOut,       \* requests whose checkout timer fired (PendingItem.timedOut)
    calls,          \* how often the callback of each request was called
    ticks,          \* _pulseQueue runs scheduled with process.nextTick
    ending, ended,  \* the pool's two flags
    endCalls        \* how often the callback of pool.end was called

poolVars == <<clients, idle, client, pendingQueue>>
requestVars == <<asked, reqTimer, timedOut, calls>>
endVars == <<ending, ended, endCalls>>
vars == <<clients, idle, client, pendingQueue, asked, reqTimer, timedOut,
          calls, ticks, ending, ended, endCalls>>

Stage == {"none",        \* not constructed yet
          "connecting",  \* constructed, client.connect not answered
          "verifying",   \* connected, options.verify not answered
          "out",         \* checked out by the request in req
          "in",          \* on the idle list
          "gone",        \* removed from the pool
          "failed",      \* not connected; connect may call its callback again
          "refailed"}    \* not connected, and the callback was called again

ClientRecord ==
    [stage : Stage,
     req : Request \cup {NoRequest},  \* the request it is for, or failed
     host : Host \cup {NoHost},       \* _clientHostMap
     live : BOOLEAN,                  \* _queryable and not _ending
     uses : Nat,                      \* _poolUseCount
     expired : BOOLEAN,               \* member of _expired
     idleTimer : BOOLEAN,             \* its idle timer is armed
     lifeTimer : BOOLEAN,             \* its lifetime timer is armed
     connTimer : {"off", "armed", "fired"},
     listeners : Nat]                 \* copies of idleListener attached

Unborn == [stage |-> "none", req |-> NoRequest, host |-> NoHost, live |-> TRUE,
           uses |-> 0, expired |-> FALSE, idleTimer |-> FALSE,
           lifeTimer |-> FALSE, connTimer |-> "off", listeners |-> 0]

Init ==
    /\ clients = {} /\ idle = {} /\ client = [c \in Client |-> Unborn]
    /\ pendingQueue = <<>>
    /\ asked = {} /\ reqTimer = {} /\ timedOut = {}
    /\ calls = [r \in Request |-> 0]
    /\ ticks = 0 /\ ending = FALSE /\ ended = FALSE /\ endCalls = 0

-----------------------------------------------------------------------------
\* What a handler does to the client objects.  A handler changes clients,
\* idle and client several times before it ends: cs, is and cl stand for
\* their values at that point of the handler.

\* Mutation of IsFull: one client too many.
IsOverfull(cs) == Cardinality(cs) > MaxSize

IsFull(cs) == Cardinality(cs) >= MaxSize
IsAboveMin(cs) == Cardinality(cs) > MinSize

\* removeListener('error', idleListener)
Unlistened(n) == IF n = 0 THEN 0 ELSE n - 1

\* The clients of S after _remove: off both lists, their idle timer cleared,
\* client.end() called; the idle listener stays attached.
Removed(cl, S) ==
    [c \in Client |->
        IF c \in S
        THEN [cl[c] EXCEPT !.stage = "gone", !.req = NoRequest, !.host = NoHost,
                           !.live = FALSE, !.idleTimer = FALSE]
        ELSE cl[c]]

\* Mutation of Lent: the idle listener stays on the client.
LentHeard(cl, c, r) ==
    [cl EXCEPT ![c] = [cl[c] EXCEPT !.stage = "out", !.req = r, !.idleTimer = FALSE]]

\* Idle client c acquired for request r.
Lent(cl, c, r) ==
    [cl EXCEPT ![c] = [cl[c] EXCEPT !.stage = "out", !.req = r, !.idleTimer = FALSE,
                                    !.listeners = Unlistened(cl[c].listeners)]]

\* A client constructed for request r, told to connect to host t only when
\* the pool selected one.
Launched(cl, c, r, t) ==
    [cl EXCEPT ![c] = [cl[c] EXCEPT !.stage = "connecting", !.req = r, !.host = t,
                                    !.connTimer = IF ConnTimeout THEN "armed" ELSE "off"]]

\* What getHostIterator may offer first: any host, or none when no host
\* qualifies; without load balancing the pool does not ask.
Target == IF LoadBalance THEN Host \cup {NoHost} ELSE {NoHost}

IdleFor(t, is, cl) == IF t = NoHost THEN is ELSE {c \in is : cl[c].host = t}

\* The callbacks of the requests in R are called; the wrapper of a queued
\* request clears its timer.
Answer(R) ==
    /\ calls' = [r \in Request |-> IF r \in R THEN calls[r] + 1 ELSE calls[r]]
    /\ reqTimer' = reqTimer \ R

-----------------------------------------------------------------------------
\* _pulseQueue, run by a handler that has brought the lists to cs, is, cl and
\* that answers the requests in ans itself.

DrainIdle(cs, is, cl, ans) ==
    /\ clients' = cs \ is /\ idle' = {} /\ client' = Removed(cl, is)
    /\ ended' = (cs \subseteq is)
    /\ endCalls' = IF cs \subseteq is THEN endCalls + 1 ELSE endCalls
    /\ Answer(ans) /\ UNCHANGED pendingQueue

\* Mutation of ServeNext: a full pool without an idle client on the selected
\* host puts the request back instead of lending another client.
ServeNextOnHost(cs, is, cl, ans) ==
    LET r == Head(pendingQueue) IN
    /\ \E t \in Target :
          LET fit == IdleFor(t, is, cl)
          IN \/ \E c \in fit :
                   /\ pendingQueue' = Tail(pendingQueue)
                   /\ clients' = cs /\ idle' = is \ {c}
                   /\ client' = Lent(cl, c, r)
                   /\ Answer(ans \cup {r})
             \/ /\ fit = {} /\ ~IsFull(cs)
                /\ \E c \in Client :
                      /\ cl[c].stage = "none"
                      /\ pendingQueue' = Tail(pendingQueue)
                      /\ clients' = cs \cup {c} /\ idle' = is
                      /\ client' = Launched(cl, c, r, t)
                      /\ Answer(ans)
             \/ /\ fit = {} /\ IsFull(cs)
                /\ clients' = cs /\ idle' = is /\ client' = cl
                /\ Answer(ans) /\ UNCHANGED pendingQueue
    /\ UNCHANGED <<ended, endCalls>>

ServeNext(cs, is, cl, ans) ==
    LET r == Head(pendingQueue) IN
    /\ pendingQueue' = Tail(pendingQueue)
    /\ \E t \in Target :
          LET fit == IdleFor(t, is, cl)
              \* the idle list first, then a new client, then any idle one
              lendable == IF fit # {} THEN fit ELSE IF IsFull(cs) THEN is ELSE {}
          IN \/ \E c \in lendable :
                   /\ clients' = cs /\ idle' = is \ {c}
                   /\ client' = Lent(cl, c, r)
                   /\ Answer(ans \cup {r})
             \/ /\ lendable = {}
                /\ \E c \in Client :
                      /\ cl[c].stage = "none"
                      /\ clients' = cs \cup {c} /\ idle' = is
                      /\ client' = Launched(cl, c, r, t)
                      /\ Answer(ans)
    /\ UNCHANGED <<ended, endCalls>>

\* Mutation of PulseQueue: the check of ended is missing.
PulseQueueAgain(cs, is, cl, ans) ==
    \/ /\ ending /\ DrainIdle(cs, is, cl, ans)
    \/ /\ ~ending /\ pendingQueue # <<>> /\ (is # {} \/ ~IsFull(cs))
       /\ ServeNext(cs, is, cl, ans)
    \/ /\ ~ending /\ (pendingQueue = <<>> \/ (is = {} /\ IsFull(cs)))
       /\ clients' = cs /\ idle' = is /\ client' = cl
       /\ Answer(ans) /\ UNCHANGED <<pendingQueue, ended, endCalls>>

PulseQueue(cs, is, cl, ans) ==
    \/ /\ ~ended /\ ending /\ DrainIdle(cs, is, cl, ans)
    \/ /\ ~ending /\ pendingQueue # <<>> /\ (is # {} \/ ~IsFull(cs))
       /\ ServeNext(cs, is, cl, ans)
    \/ /\ ended \/ (~ending /\ (pendingQueue = <<>> \/ (is = {} /\ IsFull(cs))))
       /\ clients' = cs /\ idle' = is /\ client' = cl
       /\ Answer(ans) /\ UNCHANGED <<pendingQueue, ended, endCalls>>

\* Mutation of MustRemove: an expired client is kept.
MustRemoveButExpired(cl, c, err) ==
    err \/ ending \/ ~cl[c].live \/ cl[c].uses >= MaxUses

\* _release: the client goes back to the idle list or out of the pool.
MustRemove(cl, c, err) ==
    err \/ ending \/ ~cl[c].live \/ cl[c].uses >= MaxUses \/ cl[c].expired

\* The client comes back: one use more, the idle listener attached again.
Returned(cl, c) ==
    [cl EXCEPT ![c] = [cl[c] EXCEPT !.req = NoRequest, !.uses = cl[c].uses + 1,
                                    !.listeners = cl[c].listeners + 1]]

\* The client joins the idle list, with an idle timer or without.
Shelved(cl, c, timer) ==
    [cl EXCEPT ![c] = [cl[c] EXCEPT !.stage = "in", !.idleTimer = timer]]

DoRelease(cs, is, cl, c, err, ans) ==
    LET used == Returned(cl, c) IN
    IF MustRemove(used, c, err)
    THEN PulseQueue(cs \ {c}, is \ {c}, Removed(used, {c}), ans)
    ELSE PulseQueue(cs, is \cup {c}, Shelved(used, c, IdleTimeout /\ IsAboveMin(cs)), ans)

-----------------------------------------------------------------------------
\* The program's calls.

\* pool.connect: refused, queued, or served at once with a new client.
ConnectRefused(r) ==
    /\ r \notin asked /\ ending
    /\ asked' = asked \cup {r} /\ Answer({r})
    /\ UNCHANGED <<poolVars, endVars, timedOut, ticks>>

ConnectQueued(r) ==
    /\ r \notin asked /\ ~ending
    /\ IsFull(clients) \/ idle # {}
    /\ asked' = asked \cup {r}
    /\ pendingQueue' = Append(pendingQueue, r)
    /\ reqTimer' = IF ConnTimeout THEN reqTimer \cup {r} ELSE reqTimer
    /\ ticks' = IF idle # {} THEN ticks + 1 ELSE ticks
    /\ UNCHANGED <<clients, idle, client, endVars, timedOut, calls>>

\* Mutation of ConnectNew: end() is not noticed.
ConnectNewAnyway(r) ==
    /\ r \notin asked
    /\ ~IsFull(clients) /\ idle = {}
    /\ asked' = asked \cup {r}
    /\ \E c \in Client :
          /\ client[c].stage = "none"
          /\ clients' = clients \cup {c}
          /\ client' = Launched(client, c, r, NoHost)
    /\ UNCHANGED <<idle, pendingQueue, endVars, reqTimer, timedOut, calls, ticks>>

ConnectNew(r) ==
    /\ r \notin asked /\ ~ending
    /\ ~IsFull(clients) /\ idle = {}
    /\ asked' = asked \cup {r}
    /\ \E c \in Client :
          /\ client[c].stage = "none"
          /\ clients' = clients \cup {c}
          /\ client' = Launched(client, c, r, NoHost)
    /\ UNCHANGED <<idle, pendingQueue, endVars, reqTimer, timedOut, calls, ticks>>

\* The holder's first call of release, with or without an error.
Release(c, err) ==
    /\ client[c].stage = "out"
    /\ DoRelease(clients, idle, client, c, err, {})
    /\ UNCHANGED <<asked, timedOut, ticks, ending>>

\* client.end() by the holder: the pool learns of it at the release.
EndedByHolder(c) ==
    /\ client[c].stage \in {"verifying", "out"} /\ client[c].live
    /\ client' = [client EXCEPT ![c] = [client[c] EXCEPT !.live = FALSE]]
    /\ UNCHANGED <<clients, idle, pendingQueue, requestVars, ticks, endVars>>

\* Mutation of End: the idle clients are left to the next pulse.
EndUnpulsed ==
    /\ ~ending /\ ending' = TRUE
    /\ UNCHANGED <<poolVars, requestVars, ended, endCalls, ticks>>

End ==
    /\ ~ending /\ ending' = TRUE
    /\ DrainIdle(clients, idle, client, {})
    /\ UNCHANGED <<asked, timedOut, ticks>>

-----------------------------------------------------------------------------
\* What the event loop runs.

RunTick ==
    /\ ticks > 0 /\ ticks' = ticks - 1
    /\ PulseQueue(clients, idle, client, {})
    /\ UNCHANGED <<asked, timedOut, ending>>

\* A client that does its own balancing tries its next host after the
\* connection timer destroyed the first stream.
Balancing(c) == LoadBalance /\ client[c].host = NoHost

\* The client is connected, to host h: its connection timer is cleared, its
\* lifetime timer set.
Opened(cl, c, h) ==
    [cl EXCEPT ![c] = [cl[c] EXCEPT !.host = h, !.connTimer = "off", !.lifeTimer = Lifetime]]

\* The client never connected: it leaves _clients and keeps an idle listener.
\* A client that balances forgets the callback (_finalizeConnectFailure).  The
\* 'end' handler of any other calls it and keeps it, still connecting: what
\* fails after it, the role probe or a late password, calls it again.
Failed(cl, c) ==
    [cl EXCEPT ![c] = [cl[c] EXCEPT !.stage = IF Balancing(c) THEN "gone" ELSE "failed",
                                    !.req = IF Balancing(c) THEN NoRequest ELSE cl[c].req,
                                    !.host = NoHost, !.connTimer = "off",
                                    !.listeners = cl[c].listeners + 1]]

\* Its failure is reported again.
FailedAgain(cl, c) ==
    [cl EXCEPT ![c] = [cl[c] EXCEPT !.stage = "refailed", !.listeners = cl[c].listeners + 1]]

\* The lifetime timer's mark.
Marked(cl, c) ==
    [cl EXCEPT ![c] = [cl[c] EXCEPT !.expired = TRUE, !.lifeTimer = FALSE]]

\* Client c passes to stage s on behalf of request r.
Handed(cl, c, s, r) == [cl EXCEPT ![c] = [cl[c] EXCEPT !.stage = s, !.req = r]]

\* One idle listener less.
Unheard(cl, c) == [cl EXCEPT ![c] = [cl[c] EXCEPT !.listeners = Unlistened(cl[c].listeners)]]

\* The callback of client.connect without an error.  The idle listener is
\* attached and, in _acquireClient, removed again.
Connected(c) ==
    LET r == client[c].req
        up(h) == Opened(client, c, h)
    IN
    /\ ticks = 0 /\ client[c].stage = "connecting"
    /\ client[c].connTimer = "fired" => Balancing(c)
    /\ \E h \in IF Balancing(c) THEN Host ELSE {client[c].host} :
          \/ /\ Verify
             /\ client' = Handed(up(h), c, "verifying", IF r \in timedOut THEN NoRequest ELSE r)
             /\ UNCHANGED <<clients, idle, pendingQueue, calls, reqTimer, ended, endCalls>>
          \/ /\ ~Verify /\ r \notin timedOut
             /\ client' = Handed(up(h), c, "out", r)
             /\ Answer({r})
             /\ UNCHANGED <<clients, idle, pendingQueue, ended, endCalls>>
          \/ /\ ~Verify /\ r \in timedOut
             /\ DoRelease(clients, idle, up(h), c, FALSE, {})
    /\ UNCHANGED <<asked, timedOut, ticks, ending>>

\* The callback of client.connect with an error.
ConnectFailed(c) ==
    LET r == client[c].req IN
    /\ ticks = 0 /\ client[c].stage = "connecting"
    /\ PulseQueue(clients \ {c}, idle, Failed(client, c), {r} \ timedOut)
    /\ UNCHANGED <<asked, timedOut, ticks, ending>>

\* The same callback with an error for the second time, for a client that is
\* on no list any more: it pulses, listens and tells the request again.
ConnectFailsAgain(c) ==
    LET r == client[c].req IN
    /\ client[c].stage = "failed"
    /\ PulseQueue(clients, idle, FailedAgain(client, c), {r} \ timedOut)
    /\ UNCHANGED <<asked, timedOut, ticks, ending>>

\* The timer newClient set: the stream is destroyed, nobody is told yet.
ConnTimerFires(c) ==
    /\ ticks = 0 /\ client[c].connTimer = "armed"
    /\ client' = [client EXCEPT ![c] = [client[c] EXCEPT !.connTimer = "fired"]]
    /\ UNCHANGED <<clients, idle, pendingQueue, requestVars, ticks, endVars>>

\* Mutation of VerifyDone: the request whose client is rejected is not told.
VerifyDoneUntold(c, ok) ==
    LET r == client[c].req IN
    /\ client[c].stage = "verifying"
    /\ IF ok /\ r # NoRequest
       THEN /\ client' = Handed(client, c, "out", r)
            /\ Answer({r})
            /\ UNCHANGED <<clients, idle, pendingQueue, ended, endCalls>>
       ELSE DoRelease(clients, idle, client, c, ~ok, {})
    /\ UNCHANGED <<asked, timedOut, ticks, ending>>

\* The callback given to options.verify.  Without a request (it had timed
\* out) that callback is client.release itself.
VerifyDone(c, ok) ==
    LET r == client[c].req IN
    /\ client[c].stage = "verifying"
    /\ IF ok /\ r # NoRequest
       THEN /\ client' = Handed(client, c, "out", r)
            /\ Answer({r})
            /\ UNCHANGED <<clients, idle, pendingQueue, ended, endCalls>>
       ELSE DoRelease(clients, idle, client, c, ~ok, {r} \ {NoRequest})
    /\ UNCHANGED <<asked, timedOut, ticks, ending>>

\* The timer of _release: _remove and no _pulseQueue.
IdleTimeoutFires(c) ==
    /\ ticks = 0 /\ client[c].idleTimer
    /\ clients' = clients \ {c} /\ idle' = idle \ {c}
    /\ client' = Removed(client, {c})
    /\ UNCHANGED <<pendingQueue, requestVars, ticks, endVars>>

\* The lifetime timer marks the client; an idle one it acquires, without
\* taking it off the idle list, and releases at once.
LifetimeFires(c) ==
    /\ ticks = 0 /\ client[c].lifeTimer
    /\ IF c \in idle
       THEN DoRelease(clients, idle, Unheard(Marked(client, c), c), c, FALSE, {})
       ELSE /\ client' = Marked(client, c)
            /\ UNCHANGED <<clients, idle, pendingQueue, calls, reqTimer, ended, endCalls>>
    /\ UNCHANGED <<asked, timedOut, ticks, ending>>

\* Mutation of ReqTimeoutFires: the request stays on the queue.
ReqTimeoutStays(r) ==
    /\ ticks = 0 /\ r \in reqTimer
    /\ timedOut' = timedOut \cup {r}
    /\ Answer({r})
    /\ UNCHANGED <<poolVars, asked, ticks, endVars>>

\* The timer of a queued request: off the queue if still on it, marked, and
\* told.
ReqTimeoutFires(r) ==
    /\ ticks = 0 /\ r \in reqTimer
    /\ \/ \E i \in 1..Len(pendingQueue) :
             pendingQueue[i] = r /\ pendingQueue' = RemoveAt(pendingQueue, i)
       \/ ~Contains(pendingQueue, r) /\ UNCHANGED pendingQueue
    /\ timedOut' = timedOut \cup {r}
    /\ Answer({r})
    /\ UNCHANGED <<clients, idle, client, asked, ticks, endVars>>

\* The client emits 'error': the connection broke or the server reported a
\* fatal error.  Only where an idle listener is attached does the pool react,
\* with _remove and no _pulseQueue; elsewhere the holder handles it.
ClientError(c) ==
    /\ ticks = 0 /\ client[c].stage \in {"verifying", "out", "in", "gone"}
    /\ IF client[c].listeners > 0
       THEN /\ clients' = clients \ {c} /\ idle' = idle \ {c}
            /\ client' = Removed(Unheard(client, c), {c})
       ELSE /\ client[c].live
            /\ client' = [client EXCEPT ![c] = [client[c] EXCEPT !.live = FALSE]]
            /\ UNCHANGED <<clients, idle>>
    /\ UNCHANGED <<pendingQueue, requestVars, ticks, endVars>>

\* The same of a client that never connected: it is on no list, and each idle
\* listener takes itself off and ends it.
FailedError(c) ==
    /\ ticks = 0 /\ client[c].stage \in {"failed", "refailed"} /\ client[c].listeners > 0
    /\ client' = [client EXCEPT ![c] = [client[c] EXCEPT !.live = FALSE, !.listeners = 0]]
    /\ UNCHANGED <<clients, idle, pendingQueue, requestVars, ticks, endVars>>

\* The client emits 'end', once its connection is closed.
Closed(c) ==
    /\ ticks = 0 /\ client[c].lifeTimer /\ ~client[c].live
    /\ client' = [client EXCEPT ![c] = [client[c] EXCEPT !.lifeTimer = FALSE]]
    /\ UNCHANGED <<clients, idle, pendingQueue, requestVars, ticks, endVars>>

-----------------------------------------------------------------------------
Next ==
    \/ \E r \in Request : ConnectRefused(r) \/ ConnectQueued(r) \/ ConnectNew(r)
                          \/ ReqTimeoutFires(r)
    \/ \E c \in Client :
          \/ \E err \in BOOLEAN : Release(c, err)
          \/ EndedByHolder(c)
          \/ Connected(c) \/ ConnectFailed(c) \/ ConnectFailsAgain(c) \/ ConnTimerFires(c)
          \/ \E ok \in BOOLEAN : VerifyDone(c, ok)
          \/ IdleTimeoutFires(c) \/ LifetimeFires(c)
          \/ ClientError(c) \/ FailedError(c) \/ Closed(c)
    \/ End
    \/ RunTick

Spec == Init /\ [][Next]_vars

-----------------------------------------------------------------------------
\* Properties.

\* Every variable has its type.
TypeOK ==
    /\ clients \subseteq Client /\ idle \subseteq Client
    /\ client \in [Client -> ClientRecord]
    /\ pendingQueue \in Seq(Request)
    /\ asked \subseteq Request /\ reqTimer \subseteq Request /\ timedOut \subseteq Request
    /\ calls \in [Request -> Nat]
    /\ ticks \in Nat /\ ending \in BOOLEAN /\ ended \in BOOLEAN /\ endCalls \in Nat

\* _clients and _idle agree with what happened to each client: no handler
\* loses a client that is still open, or keeps one that was removed.
Accounting ==
    /\ clients = {c \in Client : client[c].stage \in {"connecting", "verifying", "out", "in"}}
    /\ idle = {c \in Client : client[c].stage = "in"}

\* The pool never owns more than options.max clients, whichever of connect,
\* a pulse, a failed connection and a release meet.
SizeBound == Cardinality(clients) <= MaxSize

\* While requests wait, each idle client and each free place in the pool is
\* matched by a scheduled pulse: a request never waits for a client that is
\* there, although idle timeouts, errors and failed connections free places
\* without a pulse of their own, or with only one.
NoLostWakeup ==
    ending \/ ticks >= Len(pendingQueue)
           \/ ticks + Cardinality(clients) >= Cardinality(idle) + MaxSize

\* What _release lets onto the idle list may be lent again: it works, it is
\* within maxUses and its lifetime, it has exactly one idle listener, and
\* end() has not been called.
IdleUsable ==
    \A c \in idle : /\ client[c].live /\ ~client[c].expired
                    /\ client[c].uses < MaxUses /\ client[c].listeners = 1
                    /\ ~ending

\* No listener of the pool hears a client somebody holds, so an error of a
\* borrowed client never removes it behind the borrower's back.
HeldUnheard ==
    \A c \in Client : client[c].stage \in {"connecting", "verifying", "out"} =>
                         client[c].listeners = 0

\* A timer is armed only while what it waits for has not happened: the idle
\* timer on the idle list, the connection timer until the connection is
\* decided, the checkout timer until the request is answered; the lifetime
\* timer of a removed client is cleared when it closes.
TimersMatch ==
    /\ \A c \in Client :
          /\ client[c].idleTimer => c \in idle
          /\ client[c].connTimer # "off" => client[c].stage = "connecting"
          /\ client[c].lifeTimer /\ client[c].stage = "gone" => ~client[c].live
    /\ \A r \in reqTimer : r \in asked \ timedOut /\ calls[r] = 0

\* The clients made or lent for request r, and whether the last one failed twice.
For(r) == {c \in Client : client[c].req = r}
Refailed(r) == \E c \in For(r) : client[c].stage = "refailed"

\* A request is answered once; only the failure of a connection may be told a
\* second time, and no third, and such a request never gets a client.  Until it
\* is answered it waits in the queue at exactly one place or exactly one client
\* is on its way for it; a request that was answered holds at most one client,
\* and none if it timed out.  (A request that timed out while options.verify ran
\* is the exception.)
OneOutcome ==
    \A r \in Request :
        LET places == {i \in 1..Len(pendingQueue) : pendingQueue[i] = r} IN
        /\ Cardinality(For(r)) + Cardinality(places) <= 1
        /\ r \in asked /\ calls[r] = 0 =>
              places # {} \/ \E c \in For(r) : client[c].stage \in {"connecting", "verifying"}
        /\ calls[r] > 0 => places = {}
        /\ (Verify /\ r \in timedOut) \/ calls[r] <= IF Refailed(r) THEN 2 ELSE 1
        /\ ~Verify /\ r \in timedOut =>
              \A c \in For(r) : client[c].stage \in {"connecting", "failed", "refailed"}

\* The callback of end() is called once, when the last client is gone, and
\* never again by a pulse that was scheduled before.
EndsOnce ==
    /\ ended => ending /\ clients = {}
    /\ endCalls = IF ended THEN 1 ELSE 0

\* Once end() was called the pool only shrinks, although requests are queued,
\* pulses are scheduled and connections are being made.
ShrinksOnceEnding == [][ending => clients' \subseteq clients]_vars

\* With load balancing every idle client is on a known host, so it can be
\* found for a request that is sent to that host.
IdleHostKnown == LoadBalance => \A c \in idle : client[c].host # NoHost

-----------------------------------------------------------------------------
\* What the event loop guarantees.

Outcome(c) == Connected(c) \/ ConnectFailed(c)
LoopFairness ==
    /\ WF_vars(RunTick)
    /\ \A c \in Client : WF_vars(Outcome(c))
    /\ \A c \in Client : WF_vars(\E ok \in BOOLEAN : VerifyDone(c, ok))
    /\ \A r \in Request : WF_vars(ReqTimeoutFires(r))

LoopSpec == Spec /\ LoopFairness

\* end() completes.
EndCompletes == ending ~> ended

-----------------------------------------------------------------------------
\* What documents and tests say, and the code does not do.

\* docs/pages/features/pooling.mdx: a query made before end() finishes, then
\* the pool has drained.
EndedAnswersAll == ended => \A r \in asked : calls[r] > 0

\* docs/pages/apis/pool.mdx: idleTimeoutMillis does not destroy the last
\* options.min clients.
KeepsMinimum ==
    [][\A c \in Client : IdleTimeoutFires(c) => Cardinality(clients') >= MinSize]_vars

\* test/connection-timeout.js: the callback of a queued request whose
\* checkout timer fires is only called once.
CalledOnce == \A r \in Request : calls[r] <= 1
=============================================================================
