----------------------------- MODULE Connection -----------------------------
(***************************************************************************)
(* A Connection (packages/gaussdb-node/lib/connection.js) over its socket, *)
(* from connect to 'end': the SSL request, the upgrade of the socket, the  *)
(* errors of either socket and the end, for the two runtimes of stream.js: *)
(* "node", and "cf" with a CloudflareSocket (packages/gaussdb-cloudflare). *)
(* The client's listeners for 'connect' and 'sslconnect', which send the   *)
(* startup message, belong to the steps that emit these events.            *)
(*                                                                         *)
(* Not in this repository: a Node socket emits 'error' for a failure and   *)
(* 'close' after it, and one that was ended here is half closed: its       *)
(* 'close' waits for the server's end or a failure.  A Cloudflare socket's *)
(* closed promise is fulfilled when the peer or close() ends it and        *)
(* rejected, like a pending read, when it fails, and the plain socket's is *)
(* fulfilled by startTls, before the secured one can close.                *)
(***************************************************************************)
EXTENDS Naturals, Sequences, FiniteSets

CONSTANTS
    Runtimes,       \* of {"node", "cf"}
    Answers         \* what the server may answer an SSLRequest with

ASSUME ConnectionAssumption ==
    /\ Runtimes \subseteq {"node", "cf"}
    /\ Answers \subseteq {"S", "N", "E",
                          "S and more"}     \* further bytes in the same chunk

VARIABLES
    runtime, ssl,
    stage,          \* how far the connection has come
    tcp,            \* the socket: "none", "opening", "up", "half", "ended", "reset", "closed"
    writable,       \* stream.writable
    asking,         \* once('data') waits for the answer to SSLRequest
    upgrading,      \* _upgrading: the plain socket's closed promise is not handled yet
    listeners,      \* how often reportStreamError listens to the socket
    ending,         \* _ending
    endCalled,
    finishing,      \* the terminate message is being written, its callback ends the stream
    answer,         \* to SSLRequest
    synced,         \* a query was made
    sent,           \* what was written, and whether secured
    heard,          \* what reached the parser: "plain" or "secured" bytes
    events          \* the events emitted

vars == <<runtime, ssl, stage, tcp, writable, asking, upgrading, listeners, ending, endCalled,
          finishing, answer, synced, sent, heard, events>>
wireVars == <<answer, sent, heard, synced>>

Stages == {"new",
           "importing",     \* cf: await import(...)
           "connecting", "asked", "refused", "started",
           "stranded"}      \* cf: startTls threw, the socket's writer and reader are released
Sockets == {"none", "opening", "up",
            "half",         \* node: ended here, not by the server
            "ended", "reset", "closed"}
Open == {"up", "half"}      \* the server may still send

Init ==
    /\ runtime \in Runtimes /\ ssl \in BOOLEAN
    /\ stage = "new" /\ tcp = "none" /\ writable = (runtime = "node")
    /\ asking = FALSE /\ upgrading = FALSE /\ listeners = 0
    /\ ending = FALSE /\ endCalled = FALSE /\ finishing = FALSE
    /\ answer = "none" /\ synced = FALSE
    /\ sent = <<>> /\ heard = {} /\ events = <<>>

Emits(event) == events' = Append(events, event)
EmitsMany(event, n) == events' = events \o [i \in 1..n |-> event]
Count(event) == Cardinality({i \in DOMAIN events : events[i] = event})
Writes(what, secured) == sent' = Append(sent, [what |-> what, secured |-> secured])

-----------------------------------------------------------------------------
\* connect

Connect ==
    /\ stage = "new" /\ ~endCalled
    /\ IF runtime = "node" THEN stage' = "connecting" /\ tcp' = "opening"
       ELSE stage' = "importing" /\ UNCHANGED tcp
    /\ listeners' = 1 /\ asking' = ssl
    /\ UNCHANGED <<runtime, ssl, writable, upgrading, ending, endCalled, finishing, wireVars,
                   events>>

\* The Cloudflare socket is made, and listened to.
Imported ==
    /\ stage = "importing" /\ stage' = "connecting" /\ tcp' = "opening"
    /\ UNCHANGED <<runtime, ssl, writable, asking, upgrading, listeners, ending, endCalled,
                   finishing, wireVars, events>>

\* The import or the socket's connect fails.
ImportFails ==
    /\ stage = "importing" /\ stage' = "refused" /\ Emits("error")
    /\ UNCHANGED <<runtime, ssl, tcp, writable, asking, upgrading, listeners, ending, endCalled,
                   finishing, wireVars>>

\* 'connect': the client sends SSLRequest or the startup message.  (The Cloudflare
\* socket awaits only its writer, which may be ready although close was called.)
Established ==
    /\ stage = "connecting"
    /\ tcp = "opening" \/ (runtime = "cf" /\ tcp \in {"ended", "closed"})
    /\ tcp' = (IF tcp = "opening" THEN "up" ELSE tcp) /\ writable' = TRUE
    /\ Emits("connect")
    /\ IF ssl THEN Writes("SSLRequest", FALSE) /\ stage' = "asked"
       ELSE Writes("startup", FALSE) /\ stage' = "started"
    /\ UNCHANGED <<runtime, ssl, asking, upgrading, listeners, ending, endCalled, finishing,
                   answer, heard, synced>>

-----------------------------------------------------------------------------
\* The answer to SSLRequest.

\* getSecureStream and attachListeners: on Cloudflare the secured stream is the
\* same object, so reportStreamError listens to it twice; on Node it is a new one.
Upgrades ==
    /\ listeners' = IF runtime = "cf" THEN listeners + 1 ELSE listeners
    /\ upgrading' = (runtime = "cf")
    /\ stage' = "started" /\ Emits("sslconnect") /\ Writes("startup", TRUE)
    /\ writable' = TRUE
    /\ UNCHANGED <<tcp, heard>>

\* getSecureStream throws: nothing listens to the socket's data any more.  On
\* Cloudflare startTls has released the writer and set _upgrading.
UpgradeThrows ==
    /\ stage' = (IF runtime = "cf" THEN "stranded" ELSE "refused")
    /\ upgrading' = (runtime = "cf") /\ Emits("error")
    /\ UNCHANGED <<tcp, writable, listeners, sent, heard>>

\* Any other answer: stream.end.
Refuses ==
    /\ stage' = "refused" /\ Emits("error") /\ writable' = (runtime = "cf")
    /\ tcp' = IF runtime = "node" THEN "half" ELSE "ended"
    /\ UNCHANGED <<upgrading, listeners, sent, heard>>

\* Mutation of Decides: the connection goes on without SSL when the server has none.
FallsBack(a) ==
    CASE a = "S" -> Upgrades \/ UpgradeThrows
      [] a = "N" -> /\ stage' = "started" /\ Emits("sslconnect") /\ Writes("startup", FALSE)
                         /\ UNCHANGED <<tcp, writable, upgrading, listeners, heard>>
      [] OTHER -> Refuses

Decides(a) == IF a = "S" THEN Upgrades \/ UpgradeThrows ELSE Refuses

Answered(a) ==
    /\ stage = "asked" /\ asking /\ tcp \in Open /\ asking' = FALSE /\ answer' = a
    /\ Decides(a)
    /\ UNCHANGED <<runtime, ssl, ending, endCalled, finishing, synced>>

\* Bytes of the server's later messages, to the parser.
Data ==
    /\ stage = "started" /\ tcp \in Open
    /\ heard' = heard \cup {IF ssl THEN "secured" ELSE "plain"} /\ heard' # heard
    /\ UNCHANGED <<runtime, ssl, stage, tcp, writable, asking, upgrading, listeners, ending, endCalled,
                   finishing, answer, sent, synced, events>>

\* A query ends with Sync, and sync sets _ending.
Sync ==
    /\ stage = "started" /\ tcp = "up" /\ ~synced /\ ~endCalled /\ heard # {}
    /\ synced' = TRUE /\ ending' = TRUE
    /\ UNCHANGED <<runtime, ssl, stage, tcp, writable, asking, upgrading, listeners, endCalled,
                   finishing, answer, sent, heard, events>>

-----------------------------------------------------------------------------
\* end: a terminate message and the end of the stream in its callback, which
\* CloudflareSocket.write takes for an encoding and never calls; or the end of
\* the stream at once.  A CloudflareSocket that is not made yet throws, and one
\* whose writer was released writes nothing.

\* Mutation of Terminates: the callback does not end the stream, and nothing is queued for a socket
\* that is still opening.
TerminatesOnly ==
    /\ IF tcp = "up" THEN Writes("terminate", stage = "started" /\ ssl) ELSE UNCHANGED sent
    /\ UNCHANGED <<tcp, writable, finishing>>

Terminates ==
    /\ IF tcp \in {"opening", "up"} /\ stage # "stranded"
       THEN Writes("terminate", stage = "started" /\ ssl)
       ELSE UNCHANGED sent
    /\ finishing' = (runtime = "node") /\ UNCHANGED <<tcp, writable>>

EndsStream ==
    /\ tcp' = (IF tcp \in {"opening", "up"} THEN "ended" ELSE tcp)
    /\ UNCHANGED <<writable, sent, finishing>>

End ==
    /\ ~endCalled /\ stage # "new" /\ endCalled' = TRUE /\ ending' = TRUE
    /\ IF writable THEN Terminates ELSE EndsStream
    /\ UNCHANGED <<runtime, ssl, stage, asking, upgrading, listeners, answer, heard, synced, events>>

\* The terminate message is written.
Finish ==
    /\ finishing /\ tcp # "opening" /\ finishing' = FALSE /\ writable' = FALSE
    /\ tcp' = IF tcp = "up" THEN "half" ELSE tcp
    /\ UNCHANGED <<runtime, ssl, stage, asking, upgrading, listeners, ending, endCalled, wireVars,
                   events>>

-----------------------------------------------------------------------------
\* The socket.

\* The server ends the connection.
PeerEnds ==
    /\ tcp \in Open /\ tcp' = "ended"
    /\ UNCHANGED <<runtime, ssl, stage, writable, asking, upgrading, listeners, ending, endCalled,
                   finishing, wireVars, events>>

\* Mutation of ReportsStreamError: every failure is left out.
ReportsUnended(reset) == IF ending THEN UNCHANGED events ELSE EmitsMany("error", listeners)

\* reportStreamError, for a reset or another failure.
ReportsStreamError(reset) ==
    IF ending /\ reset THEN UNCHANGED events ELSE EmitsMany("error", listeners)

\* The connection fails: on Cloudflare with an error without a code for the promise
\* of closed and one for the pending read, if there is one.
Fails(reset) ==
    /\ tcp \in {"opening", "up", "half"} \/ (tcp = "ended" /\ runtime = "node")
    /\ (tcp = "opening" => ~reset) /\ tcp' = "reset"
    /\ writable' = (writable /\ runtime = "cf")
    /\ IF runtime = "cf" THEN EmitsMany("error", (IF stage = "stranded" THEN 1 ELSE 2) * listeners)
       ELSE ReportsStreamError(reset)
    /\ UNCHANGED <<runtime, ssl, stage, asking, upgrading, listeners, ending, endCalled, finishing,
                   wireVars>>

\* Mutation of PlainClosed: the plain socket's end is the connection's.
PlainClosedEnds ==
    /\ upgrading /\ stage # "stranded" /\ upgrading' = FALSE /\ Emits("end")
    /\ UNCHANGED <<runtime, ssl, stage, tcp, writable, asking, listeners, ending, endCalled,
                   finishing, wireVars>>

\* startTls has closed the plain socket, not the connection.  If it threw, this is
\* the connection's close, taken for the other one.
PlainClosed ==
    /\ upgrading /\ upgrading' = FALSE
    /\ IF stage = "stranded" THEN tcp = "ended" /\ tcp' = "closed" ELSE UNCHANGED tcp
    /\ UNCHANGED <<runtime, ssl, stage, writable, asking, listeners, ending, endCalled,
                   finishing, wireVars, events>>

\* 'close', and with it 'end'.  A pending first read of a Cloudflare socket ends
\* without a value, which is an 'error' before it.
Closed ==
    /\ tcp = "ended" \/ (tcp = "reset" /\ runtime = "node")
    /\ ~upgrading /\ ~finishing
    /\ tcp' = "closed" /\ writable' = (writable /\ runtime = "cf")
    /\ events' = events
                 \o (IF runtime = "cf" /\ asking THEN <<"error">> ELSE <<>>) \o <<"end">>
    /\ asking' = FALSE
    /\ UNCHANGED <<runtime, ssl, stage, upgrading, listeners, ending, endCalled, finishing,
                   wireVars>>

Next ==
    \/ Connect \/ Imported \/ ImportFails \/ Established \/ (\E a \in Answers : Answered(a))
    \/ Data \/ Sync \/ End \/ Finish
    \/ PeerEnds \/ (\E reset \in BOOLEAN : Fails(reset)) \/ PlainClosed \/ Closed

Spec == Init /\ [][Next]_vars

\* Sockets connect or fail, write, and close when both sides have ended; a server ends
\* a connection that it is told to terminate.
Terminated == \E i \in DOMAIN sent : sent[i].what = "terminate"
Fairness ==
    /\ WF_vars(Imported \/ ImportFails) /\ WF_vars(Established) /\ WF_vars(Finish)
    /\ WF_vars(PlainClosed) /\ WF_vars(Closed) /\ WF_vars(Terminated /\ PeerEnds)
FairSpec == Spec /\ Fairness

-----------------------------------------------------------------------------
\* Type invariant.
TypeOK ==
    /\ stage \in Stages /\ tcp \in Sockets
    /\ {ssl, writable, asking, upgrading, ending, endCalled, finishing, synced} \subseteq BOOLEAN
    /\ listeners \in 0..2 /\ answer \in Answers \cup {"none"} /\ heard \subseteq {"plain", "secured"}
    /\ \A i \in DOMAIN sent : sent[i].what \in {"SSLRequest", "startup", "terminate"}
    /\ \A i \in DOMAIN events : events[i] \in {"connect", "sslconnect", "error", "end"}

\* A client that wants SSL starts up over the secured socket or not at all, after
\* exactly the one byte of the server's consent (connect).
OnlySecured ==
    ssl => /\ \A i \in DOMAIN sent : sent[i].what = "startup" => sent[i].secured /\ answer = "S"
           /\ heard \subseteq {"secured"}

\* A connection ends once, and on Node nothing is heard of it after 'end': the
\* client's listeners hear no error of a connection they have done with.
EndIsLast ==
    /\ Count("end") <= 1
    /\ runtime = "node" => \A i \in DOMAIN events : events[i] = "end" => i = Len(events)

\* "errors about disconnections should be ignored during disconnect" (connect): a
\* failure is reported once on Node unless end was called.
Failing == tcp' = "reset" /\ tcp # "reset"
ReportedUnlessEnding ==
    [][Failing /\ runtime = "node" /\ ~endCalled => Count("error")' = Count("error") + 1]_vars

\* It holds before the first query: its Sync sets _ending.  And a failure other
\* than a reset is reported in any case.
FailuresReported ==
    [][Failing /\ runtime = "node" /\ (~ending \/ tcp = "opening")
          => Count("error")' = Count("error") + 1]_vars

\* end leads to 'end' at whatever stage it is called, given a server that hangs up
\* when it is told to terminate (Client._end fears the other kind): on Node only a
\* connection that was refused, whose half closed socket it finds, waits for the
\* server alone.  On Cloudflare it also takes a socket that does not fail, a call
\* after the socket was made and a startTls that did not throw.
EndArrives ==
    /\ endCalled /\ runtime = "node" ~> Count("end") = 1 \/ (tcp = "half" /\ ~Terminated)
    /\ endCalled /\ (Terminated \/ tcp = "ended")
          ~> Count("end") = 1 \/ tcp = "reset" \/ stage = "stranded"
=============================================================================
