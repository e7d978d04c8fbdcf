------------------------------- MODULE Cursor -------------------------------
(***************************************************************************)
(* A Cursor (packages/gaussdb-cursor/index.js): a query whose rows the     *)
(* program reads in pages, from a portal the server keeps open.            *)
(*                                                                         *)
(* One action is one handler, call or setImmediate callback (immediates).  *)
(* A chunk of the socket may end after any message, so callbacks may run   *)
(* between any two.  The server answers requests in the order in which     *)
(* they are sent, so its messages are put on srv.out at once and delivered *)
(* later.                                                                  *)
(*                                                                         *)
(* The program reads again when its last read was told, does not read      *)
(* after close, and closes once.  A QueryStream is such a program          *)
(* (streamed): an error its read is told destroys it, which closes the     *)
(* cursor in the same callback.                                            *)
(***************************************************************************)
EXTENDS Naturals, Sequences, SequencesExt, FiniteSetsExt

CONSTANTS
    Kinds,      \* the kinds of statement the cursor may be made for
    Totals,     \* how many rows the statement may have
    Sizes,      \* the sizes of the program's reads
    MaxReads

Kind == {"rows",        \* a statement with rows
         "no data",     \* one without, as INSERT
         "empty",       \* an empty one
         "bad",         \* one the server does not parse
         "failing"}     \* one that fails when it is executed

ASSUME CursorAssumption ==
    /\ Kinds \subseteq Kind /\ Totals \subseteq Nat /\ Sizes \subseteq Nat \ {0}
    /\ MaxReads \in Nat

Reads == 1..MaxReads
NoRead == 0

VARIABLES
    kind, total, streamed,
    state, queue,       \* state, _queue: the reads that wait, with their sizes
    cb, rows,           \* _cb: the read that is to be told, _rows
    immediates,
    asked,              \* reads made
    told, given,        \* how each read was told, and the rows it got
    closing,            \* "no", "soon" (setImmediate), "waits" (readyForQuery), "told"
    ended,              \* 'end' was emitted
    active,             \* the client's active query is the cursor
    srv                 \* the server's session and the connection to it

readVars == <<told, given>>
cursorVars == <<kind, total, streamed, state, queue, cb, rows, immediates, asked, told, given,
                closing, ended, active, srv>>

State == {"initialized", "submitted", "idle", "busy", "done", "error"}

Init ==
    /\ kind \in Kinds /\ total \in Totals /\ (kind # "rows" => total = 0)
    /\ streamed \in BOOLEAN
    /\ state = "initialized" /\ queue = <<>> /\ cb = NoRead /\ rows = <<>>
    /\ immediates = <<>> /\ asked = 0
    /\ told = [r \in Reads |-> "no"] /\ given = [r \in Reads |-> <<>>]
    /\ closing = "no" /\ ended = FALSE /\ active = FALSE
    /\ srv = [up |-> TRUE, portal |-> FALSE, sent |-> 0, skipping |-> FALSE, syncs |-> 0,
              out |-> <<>>]

-----------------------------------------------------------------------------
\* The server: what it makes of a request in session s.  After an error it
\* skips everything up to Sync; Sync closes the portal.

Message(is, row) == [is |-> is, row |-> row]
Says(s, is) == [s EXCEPT !.out = Append(s.out, Message(is, 0))]
Rejects(s) == [Says(s, "error") EXCEPT !.skipping = TRUE]

Prepared(s) ==
    IF kind = "bad" THEN Rejects(s)
    ELSE [Says(s, IF kind \in {"rows", "failing"} THEN "rowDescription" ELSE "noData")
             EXCEPT !.portal = TRUE]

Page(s, n) ==
    LET k == Min({n, total - s.sent})
        page == [i \in 1..k |-> Message("dataRow", s.sent + i)]
    IN Says([s EXCEPT !.sent = s.sent + k, !.out = s.out \o page],
            IF k = n THEN "portalSuspended" ELSE "commandComplete")

Executed(s, n) ==
    IF s.skipping \/ ~s.up THEN s
    ELSE IF ~s.portal \/ kind = "failing" THEN Rejects(s)
    ELSE CASE kind = "rows" -> Page(s, n)
           [] kind = "no data" -> Says(s, "commandComplete")
           [] kind = "empty" -> Says(s, "emptyQuery")

PortalClosed(s) == IF s.skipping THEN s ELSE [s EXCEPT !.portal = FALSE]
Synced(s) ==
    IF ~s.up THEN s
    ELSE [Says(s, "readyForQuery") EXCEPT !.skipping = FALSE, !.portal = FALSE, !.syncs = @ + 1]

-----------------------------------------------------------------------------
\* Pieces of the cursor's handlers.  s is the server's session before them.

\* _getRows for read r with n rows.
GetRows(s, r, n) == state' = "busy" /\ cb' = r /\ rows' = <<>> /\ srv' = Executed(s, n)

\* The statement is described, with rows or without: the first read that
\* waits, if there is one, is executed (_shiftQueue).
ShiftQueue(s) ==
    IF queue = <<>>
    THEN state' = "idle" /\ srv' = s /\ UNCHANGED <<queue, cb, rows>>
    ELSE queue' = Tail(queue) /\ GetRows(s, Head(queue).read, Head(queue).size)

\* Mutation of ClosePortal: the portal is closed without a Sync.
ClosePortalOnly(s) ==
    state' = "done" /\ srv' = IF state = "done" THEN s ELSE PortalClosed(s)

\* _closePortal: the portal is closed with a Sync, unless an error has
\* already sent one.
ClosePortal(s) ==
    /\ state' = "done"
    /\ CASE state = "done" -> srv' = s
         [] state = "error" -> srv' = PortalClosed(s)
         [] OTHER -> srv' = Synced(PortalClosed(s))

Immediate(do, r) == [do |-> do, read |-> r]

\* The callbacks of reads are told of an error: a stream closes its cursor, which
\* has failed by now.
ErrorCallbacks(reads, pending) ==
    IF streamed /\ reads # {} /\ closing = "no"
    THEN immediates' = Append(pending, Immediate("close", NoRead)) /\ closing' = "soon"
    ELSE immediates' = pending /\ UNCHANGED closing

\* Mutation of HandlesError: an error without a Sync after it.
HandlesErrorUnsynced(s, callbacks) ==
    IF state \in {"done", "error"}
    THEN srv' = s /\ UNCHANGED <<state, cb, queue, told, given, immediates, closing>>
    ELSE /\ state' = "error" /\ cb' = NoRead /\ queue' = <<>> /\ srv' = s
         /\ told' = [r \in Reads |-> IF r \in callbacks THEN "error" ELSE told[r]]
         /\ ErrorCallbacks(callbacks, immediates) /\ UNCHANGED given

\* handleError: the reads of callbacks are told.
HandlesError(s, callbacks) ==
    IF state \in {"done", "error"}
    THEN srv' = s /\ UNCHANGED <<state, cb, queue, told, given, immediates, closing>>
    ELSE /\ state' = "error" /\ cb' = NoRead /\ queue' = <<>>
         /\ srv' = IF state = "initialized" THEN s ELSE Synced(s)
         /\ told' = [r \in Reads |-> IF r \in callbacks THEN "error" ELSE told[r]]
         /\ ErrorCallbacks(callbacks, immediates) /\ UNCHANGED given

\* The reads in the queue are told; the one in _cb is not: what is called in
\* its stead is _rowDescription.
QueuedReads == {queue[i].read : i \in DOMAIN queue}
HandleError(s) == HandlesError(s, QueuedReads)

-----------------------------------------------------------------------------
\* Calls.

\* The client submits the cursor.
Submit ==
    /\ state = "initialized" /\ srv.up
    /\ state' = "submitted" /\ active' = TRUE /\ srv' = Prepared(srv)
    /\ UNCHANGED <<kind, total, streamed, queue, cb, rows, immediates, asked, readVars,
                   closing, ended>>

\* read(n): executed, put on the queue, or answered soon when the cursor is
\* done or has failed.
Read(n) ==
    /\ asked < MaxReads /\ (asked > 0 => told[asked] # "no") /\ closing = "no"
    /\ asked' = asked + 1
    /\ CASE state \in {"idle", "submitted"} ->
                GetRows(srv, asked + 1, n) /\ UNCHANGED <<queue, immediates>>
         [] state \in {"busy", "initialized"} ->
                /\ queue' = Append(queue, [read |-> asked + 1, size |-> n])
                /\ UNCHANGED <<state, cb, rows, immediates, srv>>
         [] state \in {"error", "done"} ->
                /\ immediates' = Append(immediates, Immediate(state, asked + 1))
                /\ UNCHANGED <<state, queue, cb, rows, srv>>
    /\ UNCHANGED <<kind, total, streamed, readVars, closing, ended, active>>

\* close: answered soon, or by the next readyForQuery.
Close ==
    /\ closing = "no"
    /\ IF state \in {"initialized", "done", "error"}
       THEN /\ immediates' = Append(immediates, Immediate("close", NoRead))
            /\ closing' = "soon" /\ UNCHANGED <<state, srv>>
       ELSE closing' = "waits" /\ ClosePortal(srv) /\ UNCHANGED immediates
    /\ UNCHANGED <<kind, total, streamed, queue, cb, rows, asked, readVars, ended, active>>

-----------------------------------------------------------------------------
\* Messages for the cursor.

Receives(is) == srv.out # <<>> /\ Head(srv.out).is = is /\ active
Rest == [srv EXCEPT !.out = Tail(srv.out)]
Untouched == UNCHANGED <<kind, total, streamed, asked, ended>>

\* Mutation of Described: the description does not shift the queue.
DescribedOnly ==
    /\ Receives("rowDescription") \/ Receives("noData")
    /\ state' = (IF state = "submitted" THEN "idle" ELSE state) /\ srv' = Rest
    /\ Untouched /\ UNCHANGED <<queue, cb, rows, immediates, readVars, closing, active>>

\* handleRowDescription, _ifNoData
Described ==
    /\ Receives("rowDescription") \/ Receives("noData")
    /\ ShiftQueue(Rest) /\ Untouched
    /\ UNCHANGED <<immediates, readVars, closing, active>>

DataRow ==
    /\ Receives("dataRow") /\ rows' = Append(rows, Head(srv.out).row) /\ srv' = Rest
    /\ Untouched /\ UNCHANGED <<state, queue, cb, immediates, readVars, closing, active>>

PortalSuspended ==
    /\ Receives("portalSuspended") /\ state' = "idle" /\ srv' = Rest
    /\ immediates' = Append(immediates, Immediate("send", NoRead))
    /\ Untouched /\ UNCHANGED <<queue, cb, rows, readVars, closing, active>>

CommandComplete ==
    /\ Receives("commandComplete") /\ ClosePortal(Rest)
    /\ Untouched /\ UNCHANGED <<queue, cb, rows, immediates, readVars, closing, active>>

EmptyQuery ==
    /\ Receives("emptyQuery") /\ srv' = Synced(Rest)
    /\ Untouched
    /\ UNCHANGED <<state, queue, cb, rows, immediates, readVars, closing, active>>

\* The client takes the cursor off before it tells it of the error.
ErrorMessage ==
    /\ Receives("error") /\ active' = FALSE /\ HandleError(Rest)
    /\ Untouched /\ UNCHANGED rows

\* An error when no query is active is one of the client's own: an error event, not
\* told to the cursor.
StrayError ==
    /\ srv.out # <<>> /\ Head(srv.out).is = "error" /\ ~active /\ srv' = Rest
    /\ Untouched /\ UNCHANGED <<state, queue, cb, rows, immediates, readVars, closing, active>>

\* The cursor is told if it is active; a close that waits is told in any case.
ReadyForQuery ==
    /\ srv.out # <<>> /\ Head(srv.out).is = "readyForQuery" /\ srv' = Rest
    /\ active' = FALSE
    /\ IF active
       THEN /\ state' = "done"
            /\ immediates' = immediates \o <<Immediate("send", NoRead), Immediate("end", NoRead)>>
       ELSE UNCHANGED <<state, immediates>>
    /\ closing' = IF closing = "waits" THEN "told" ELSE closing
    /\ Untouched /\ UNCHANGED <<queue, cb, rows, readVars>>

-----------------------------------------------------------------------------
\* setImmediate callbacks and the end of the connection.

Tells(r, how, page) ==
    told' = [told EXCEPT ![r] = how] /\ given' = [given EXCEPT ![r] = page]

\* The callback _sendRows leaves behind.
SendRows ==
    /\ Head(immediates).do = "send" /\ cb' = NoRead /\ rows' = <<>>
    /\ IF cb = NoRead THEN UNCHANGED readVars ELSE Tells(cb, "rows", rows)
    /\ immediates' = Tail(immediates) /\ UNCHANGED <<closing, ended>>

\* A read of a cursor that is done gets no rows.
AnswerDone ==
    /\ Head(immediates).do = "done" /\ Tells(Head(immediates).read, "rows", <<>>)
    /\ immediates' = Tail(immediates) /\ UNCHANGED <<cb, rows, closing, ended>>

\* A read of a cursor that has failed gets its error.
AnswerError ==
    /\ Head(immediates).do = "error" /\ Tells(Head(immediates).read, "error", <<>>)
    /\ ErrorCallbacks({Head(immediates).read}, Tail(immediates))
    /\ UNCHANGED <<cb, rows, ended>>

EmitEnd ==
    /\ Head(immediates).do = "end" /\ ended' = TRUE
    /\ immediates' = Tail(immediates) /\ UNCHANGED <<cb, rows, readVars, closing>>

CloseSoon ==
    /\ Head(immediates).do = "close" /\ closing' = "told"
    /\ immediates' = Tail(immediates) /\ UNCHANGED <<cb, rows, readVars, ended>>

RunImmediate ==
    /\ immediates # <<>>
    /\ SendRows \/ AnswerDone \/ AnswerError \/ EmitEnd \/ CloseSoon
    /\ UNCHANGED <<kind, total, streamed, state, queue, asked, active, srv>>

\* The client errors its active query and those that wait.
ConnectionLost ==
    /\ srv.up /\ active' = FALSE
    /\ IF active \/ state = "initialized" THEN HandleError([srv EXCEPT !.out = <<>>, !.up = FALSE])
       ELSE /\ srv' = [srv EXCEPT !.out = <<>>, !.up = FALSE]
            /\ UNCHANGED <<state, cb, queue, readVars, immediates, closing>>
    /\ UNCHANGED <<kind, total, streamed, asked, rows, ended>>

Deliver ==
    \/ Described \/ DataRow \/ PortalSuspended \/ CommandComplete \/ EmptyQuery
    \/ ErrorMessage \/ StrayError \/ ReadyForQuery

\* What happens to a cursor whoever reads it.
CursorSteps == Submit \/ Deliver \/ ConnectionLost

-----------------------------------------------------------------------------
\* Type invariant.
CursorTypeOK ==
    /\ kind \in Kinds /\ total \in Totals /\ streamed \in BOOLEAN /\ state \in State
    /\ queue \in Seq([read : Reads, size : Sizes]) /\ cb \in Reads \cup {NoRead}
    /\ rows \in Seq(1..total) /\ asked \in 0..MaxReads
    /\ told \in [Reads -> {"no", "rows", "error"}] /\ given \in [Reads -> Seq(1..total)]
    /\ closing \in {"no", "soon", "waits", "told"}
    /\ {ended, active, srv.up, srv.portal} \subseteq BOOLEAN
    /\ \A i \in DOMAIN immediates :
           /\ immediates[i].do \in {"send", "end", "close", "done", "error"}
           /\ immediates[i].read \in Reads \cup {NoRead}

\* The rows of the reads, one after the other, are the first rows of the
\* statement: no row is lost, repeated or moved to another page, whatever the
\* order of messages, setImmediate callbacks and close; and none is missing at
\* 'end' (handleDataRow, _getRows and _sendRows share _rows and _cb).
RowsExact ==
    LET all == FlattenSeq([r \in Reads |-> given[r]])
    IN /\ \A i \in DOMAIN all : all[i] = i
       /\ ended /\ closing = "no" => Len(all) = total

\* "If we've received an error we already sent a sync message. do not send another
\* sync as it triggers another readyForQuery message" (_closePortal): the
\* readyForQuery of a second Sync would meet the client's next query.
OneSync == srv.syncs <= 1

\* It does hold of a cursor that the program does not close early: none of the
\* orders of error, completion and lost connection sends two.
SyncOnceUnclosed == closing \in {"no", "soon"} => OneSync

\* No cursor that was submitted is done with its portal open on the server and no
\* Sync on the way: a portal left open locks tables (_closePortal).  The Sync that
\* closes it is the only one, if the program does not close early.
PortalClosedAtEnd ==
    /\ ~active /\ srv.up /\ state \in {"done", "error"} /\ srv.out = <<>> => ~srv.portal
    /\ SyncOnceUnclosed

=============================================================================
