---------------------------- MODULE QueryStream ----------------------------
(***************************************************************************)
(* A QueryStream (packages/gaussdb-query-stream/src/index.ts) over its     *)
(* cursor: a Readable whose _read asks the cursor for a page of the size   *)
(* of its high water mark.  A cursor the program reads by itself has the   *)
(* same steps, with reads of its own choice.                               *)
(*                                                                         *)
(* Node's Readable, which is not in this repository: it calls _read while  *)
(* it holds fewer rows than its high water mark, once at a time; it emits  *)
(* 'end' when null was pushed and its rows are taken, and destroys itself  *)
(* then; destroy calls _destroy once and nothing is read or taken after    *)
(* it; 'close' follows the callback of _destroy.                           *)
(***************************************************************************)
EXTENDS Cursor

VARIABLES
    hwm,            \* the high water mark
    buffer,         \* the rows the Readable holds
    nulled,         \* null was pushed
    taken,          \* the rows the consumer has
    early           \* 'end' was emitted although rows were not taken yet

streamVars == <<hwm, buffer, nulled, taken, early>>
vars == <<cursorVars, streamVars>>

StreamInit ==
    /\ Init /\ hwm \in Sizes /\ buffer = <<>> /\ nulled = FALSE /\ taken = <<>>
    /\ early = FALSE

\* The program reads its cursor.
ProgramReads == ~streamed /\ (\E n \in Sizes : Read(n)) /\ UNCHANGED streamVars

\* _read
StreamReads ==
    /\ streamed /\ ~nulled /\ Len(buffer) < hwm /\ Read(hwm) /\ UNCHANGED streamVars

\* The program closes its cursor or destroys the stream (_destroy).
ProgramCloses == Close /\ UNCHANGED streamVars

\* Mutations of Pushes: a full page is taken for the last one; null is never pushed.
PushesNullEarly(page) ==
    IF closing = "no"
    THEN buffer' = buffer \o page /\ nulled' = (Len(page) <= hwm)
    ELSE UNCHANGED <<buffer, nulled>>
PushesRowsOnly(page) ==
    IF closing = "no" THEN buffer' = buffer \o page /\ UNCHANGED nulled
    ELSE UNCHANGED <<buffer, nulled>>

\* The callback of _read: the rows are pushed, and null after them when they are
\* fewer than asked for.  A destroyed stream drops them.
Pushes(page) ==
    IF closing = "no"
    THEN buffer' = buffer \o page /\ nulled' = (Len(page) < hwm)
    ELSE UNCHANGED <<buffer, nulled>>

\* The listener on the cursor's 'end' emits it on the stream.
Immediates ==
    /\ RunImmediate
    /\ IF streamed /\ asked > 0 /\ told[asked] = "no" /\ told'[asked] = "rows"
       THEN Pushes(given'[asked]) ELSE UNCHANGED <<buffer, nulled>>
    /\ early' = (early \/ (streamed /\ ended' /\ ~ended /\ closing = "no" /\ buffer # <<>>))
    /\ UNCHANGED <<hwm, taken>>

\* The consumer takes a row.
Take ==
    /\ streamed /\ closing = "no" /\ buffer # <<>>
    /\ taken' = Append(taken, Head(buffer)) /\ buffer' = Tail(buffer)
    /\ UNCHANGED <<cursorVars, hwm, nulled, early>>

\* 'end' of the Readable: it destroys itself.
StreamEnds == streamed /\ nulled /\ buffer = <<>> /\ Close /\ UNCHANGED streamVars

Next ==
    \/ ProgramReads \/ StreamReads \/ ProgramCloses \/ Immediates \/ Take \/ StreamEnds
    \/ (CursorSteps /\ UNCHANGED streamVars)

Spec == StreamInit /\ [][Next]_vars

\* The client submits the cursor, the server answers, the event loop runs its
\* callbacks, and the Readable reads while its consumer takes rows.
Fairness ==
    /\ WF_vars(Submit /\ UNCHANGED streamVars) /\ WF_vars(Deliver /\ UNCHANGED streamVars)
    /\ WF_vars(Immediates) /\ WF_vars(StreamReads) /\ WF_vars(Take) /\ WF_vars(StreamEnds)
FairSpec == Spec /\ Fairness

-----------------------------------------------------------------------------
\* Type invariant.
TypeOK ==
    /\ CursorTypeOK /\ hwm \in Sizes /\ buffer \in Seq(1..total) /\ taken \in Seq(1..total)
    /\ {nulled, early} \subseteq BOOLEAN

\* A slow consumer never makes the stream hold two pages.
BufferBounded == Len(buffer) < 2 * hwm

\* The reads of a cursor get its rows exactly (RowsExact), and so does the
\* consumer of a stream: none is lost or doubled between the pages and the
\* buffer, which never holds two pages, and all are there when the stream has
\* pushed null (_read).
StreamExact ==
    LET all == taken \o buffer
    IN /\ RowsExact /\ BufferBounded
       /\ \A i \in DOMAIN all : all[i] = i
       /\ nulled => Len(all) = total

\* A read is told of its rows when the connection stays and the server has no
\* error to report, also when the cursor is closed meanwhile.
ReadAnswered ==
    \A r \in Reads : asked = r ~> told[r] # "no" \/ ~srv.up \/ kind \in {"bad", "failing"}

\* close calls back, and a stream is closed in the end, when the connection
\* stays: the Sync that _closePortal leaves to others has been sent.
CloseAnswered == closing # "no" ~> closing = "told" \/ ~srv.up

\* A stream whose statement the server can run reaches its end.
StreamFinishes == streamed /\ kind \notin {"bad", "failing"} ~> closing # "no" \/ ~srv.up

\* A read is told of the error that the server answers it with (handleError: "satisfy any
\* waiting callback").
ErrorAnswered ==
    \A r \in Reads : asked = r /\ kind = "bad" ~> told[r] # "no" \/ ~srv.up \/ closing # "no"

\* The stream's 'end' means that it is finished: its rows were taken.
EndAfterRows == ~early
=============================================================================
