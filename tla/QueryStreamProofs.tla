------------------------- MODULE QueryStreamProofs -------------------------
(***************************************************************************)
(* Proofs about Cursor and the QueryStream over it, for statements with    *)
(* any number of rows, pages of any size and any number of reads.          *)
(***************************************************************************)
EXTENDS QueryStream, SequenceTheorems, WellFoundedInduction, TLAPS

-----------------------------------------------------------------------------
\* Types.  What is kept of a read, in _queue, _cb or a setImmediate callback,
\* is of one that was made.

Plain == {"error", "rowDescription", "noData", "portalSuspended", "commandComplete",
          "emptyQuery", "readyForQuery"}
Msg == [is : Plain, row : {0}] \cup [is : {"dataRow"}, row : 1..total]
Session == [up : BOOLEAN, portal : BOOLEAN, sent : 0..total, skipping : BOOLEAN,
            syncs : Nat, out : Seq(Msg)]
TasksOf(n) == [do : {"send", "end", "close"}, read : {NoRead}]
              \cup [do : {"done", "error"}, read : 1..n]
WaitsOf(n) == [read : 1..n, size : Sizes]
How == {"no", "rows", "error"}

ReadTyped ==
    /\ asked \in 0..MaxReads /\ queue \in Seq(WaitsOf(asked)) /\ cb \in 0..asked
    /\ immediates \in Seq(TasksOf(asked)) /\ rows \in Seq(1..total)
    /\ told \in [Reads -> How] /\ given \in [Reads -> Seq(1..total)]
    /\ \A r \in Reads : r > asked => told[r] = "no"
Typed ==
    /\ kind \in Kinds /\ total \in Totals /\ streamed \in BOOLEAN /\ state \in State
    /\ closing \in {"no", "soon", "waits", "told"} /\ ended \in BOOLEAN /\ active \in BOOLEAN
    /\ srv \in Session /\ ReadTyped
    /\ hwm \in Sizes /\ buffer \in Seq(1..total) /\ taken \in Seq(1..total)
    /\ nulled \in BOOLEAN /\ early \in BOOLEAN

-----------------------------------------------------------------------------
\* What has happened between the cursor and the server: the portal is open only
\* while the cursor is at work, and no answer precedes its request.

Has(s, names) == \E i \in 1..Len(s) : s[i].is \in names
Begun ==
    /\ state = "initialized" => /\ srv.out = <<>> /\ ~srv.skipping /\ ~srv.portal
                                /\ srv.syncs = 0 /\ ~active
    /\ srv.up /\ srv.portal => state \in {"submitted", "idle", "busy"} /\ srv.syncs = 0
    /\ srv.syncs = 0 => ~Has(srv.out, {"readyForQuery"})
    /\ srv.portal => kind # "bad"

\* A cursor that the program does not close before it is done has one request
\* under way at a time, and sends one Sync after the answer that is the last.

Answer == {"portalSuspended", "commandComplete", "emptyQuery"}
Waiting == asked > 0 /\ told[asked] = "no"
Fetching == Waiting /\ cb = asked /\ queue = <<>>
Does(tk, things) == \A i \in 1..Len(tk) : tk[i].do \in things
AnswerLast(s) == \A i \in 1..Len(s) : s[i].is \in Answer \cup {"error"} => i = Len(s)

Running ==
    /\ state \notin {"done", "error"} /\ AnswerLast(srv.out)
    /\ srv.skipping <=> Has(srv.out, {"error"})
    /\ Has(srv.out, Answer) => Fetching /\ Does(immediates, {"end", "close"})
    /\ Does(immediates, {"send", "end", "close"})
    /\ \A i, j \in 1..Len(immediates) :
          immediates[i].do = "send" /\ immediates[j].do = "send" => i = j
    /\ ~Does(immediates, {"end", "close"}) => Fetching /\ state # "busy"
    /\ queue # <<>> => Waiting /\ Len(queue) = 1 /\ queue[1].read = asked
    /\ state = "busy" => Waiting
Over ==
    /\ \A i \in 1..Len(srv.out) : srv.out[i].is = "readyForQuery"
    /\ state \notin {"done", "error"} => Waiting /\ Does(immediates, {"end", "close"})
Unclosed == closing \in {"no", "soon"}
Once ==
    Unclosed => /\ srv.syncs \in {0, 1}
                /\ srv.up => (srv.syncs = 0 => Running) /\ (srv.syncs = 1 => Over)

\* A cursor that is not the client's active query waits to be submitted or is over.
Attended == ~active => state \in {"initialized", "done", "error"}

StreamInv == Typed /\ Begun /\ Once /\ Attended

-----------------------------------------------------------------------------
\* What the server makes of a request.

LEMMA MsgPlain == ASSUME NEW is \in Plain PROVE Message(is, 0) \in Msg /\ Message(is, 0).is = is
  BY DEF Message, Msg

LEMMA SaysSession ==
    ASSUME NEW s \in Session, NEW is \in Plain
    PROVE  /\ Says(s, is) \in Session
           /\ Says(s, is) = [s EXCEPT !.out = Append(s.out, Message(is, 0))]
<1>1. s.out \in Seq(Msg)
  BY DEF Session
<1>2. Append(s.out, Message(is, 0)) \in Seq(Msg)
  BY <1>1, MsgPlain, AppendProperties
<1> QED BY <1>2 DEF Says, Session

\* Sync is answered with ReadyForQuery; it ends what the server skips and closes
\* the portal.
LEMMA SyncedSession ==
    ASSUME NEW s \in Session
    PROVE  /\ Synced(s) \in Session /\ Synced(s).up = s.up /\ Synced(s).sent = s.sent
           /\ ~s.up => Synced(s) = s
           /\ s.up => /\ ~Synced(s).portal /\ ~Synced(s).skipping
                      /\ Synced(s).syncs = s.syncs + 1
                      /\ Synced(s).out = Append(s.out, Message("readyForQuery", 0))
<1>1. CASE ~s.up
  BY <1>1 DEF Synced
<1>2. CASE s.up
  <2> DEFINE t == Says(s, "readyForQuery")
  <2>1. t \in Session /\ t = [s EXCEPT !.out = Append(s.out, Message("readyForQuery", 0))]
    BY SaysSession DEF Plain
  <2>2. Synced(s) = [t EXCEPT !.skipping = FALSE, !.portal = FALSE, !.syncs = t.syncs + 1]
    BY <1>2, <2>1 DEF Synced, Session
  <2> HIDE DEF t
  <2>3. /\ t.up = s.up /\ t.sent = s.sent /\ t.syncs = s.syncs
        /\ t.out = Append(s.out, Message("readyForQuery", 0))
    BY <2>1 DEF Session
  <2>4. t.syncs + 1 \in Nat
    BY <2>1 DEF Session
  <2>5. Synced(s) \in Session
    BY <2>1, <2>2, <2>4 DEF Session
  <2>6. /\ Synced(s).up = t.up /\ Synced(s).sent = t.sent
        /\ Synced(s).portal = FALSE /\ Synced(s).skipping = FALSE
        /\ Synced(s).syncs = t.syncs + 1 /\ Synced(s).out = t.out
    BY <2>1, <2>2 DEF Session
  <2>7. ~Synced(s).portal /\ ~Synced(s).skipping
    BY <2>6
  <2>8. Synced(s).up = s.up /\ Synced(s).sent = s.sent /\ Synced(s).syncs = s.syncs + 1
        /\ Synced(s).out = Append(s.out, Message("readyForQuery", 0))
    BY <2>3, <2>6
  <2> QED BY <1>2, <2>5, <2>7, <2>8
<1> QED BY <1>1, <1>2

LEMMA PortalClosedSession ==
    ASSUME NEW s \in Session
    PROVE  /\ PortalClosed(s) \in Session
           /\ PortalClosed(s).up = s.up /\ PortalClosed(s).sent = s.sent
           /\ PortalClosed(s).skipping = s.skipping
           /\ PortalClosed(s).syncs = s.syncs /\ PortalClosed(s).out = s.out
           /\ PortalClosed(s).portal => s.portal
  BY DEF PortalClosed, Session

\* A statement that is parsed is described, any other gets an error.
LEMMA PreparedSession ==
    ASSUME NEW s \in Session
    PROVE  /\ Prepared(s) \in Session
           /\ Prepared(s).up = s.up /\ Prepared(s).syncs = s.syncs /\ Prepared(s).sent = s.sent
           /\ Prepared(s).portal => s.portal \/ kind # "bad"
           /\ \E m \in Msg : /\ Prepared(s).out = Append(s.out, m)
                             /\ m.is \in {"error", "rowDescription", "noData"}
                             /\ Prepared(s).skipping <=> (m.is = "error" \/ s.skipping)
<1>1. ASSUME NEW is \in {"rowDescription", "noData"},
             Prepared(s) = [Says(s, is) EXCEPT !.portal = TRUE]
      PROVE  /\ Prepared(s) \in Session
             /\ Prepared(s).up = s.up /\ Prepared(s).syncs = s.syncs /\ Prepared(s).sent = s.sent
             /\ Prepared(s).out = Append(s.out, Message(is, 0))
             /\ Prepared(s).skipping = s.skipping
  <2>1. Says(s, is) \in Session
        /\ Says(s, is) = [s EXCEPT !.out = Append(s.out, Message(is, 0))]
    BY SaysSession DEF Plain
  <2> QED BY <1>1, <2>1 DEF Session
<1>2. ASSUME Prepared(s) = [Says(s, "error") EXCEPT !.skipping = TRUE]
      PROVE  /\ Prepared(s) \in Session
             /\ Prepared(s).up = s.up /\ Prepared(s).syncs = s.syncs /\ Prepared(s).sent = s.sent
             /\ Prepared(s).out = Append(s.out, Message("error", 0))
             /\ Prepared(s).skipping = TRUE /\ Prepared(s).portal = s.portal
  <2>1. Says(s, "error") \in Session
        /\ Says(s, "error") = [s EXCEPT !.out = Append(s.out, Message("error", 0))]
    BY SaysSession DEF Plain
  <2> QED BY <1>2, <2>1 DEF Session
<1>3. \A is \in {"error", "rowDescription", "noData"} :
         Message(is, 0) \in Msg /\ Message(is, 0).is = is
  BY MsgPlain DEF Plain
<1>4. s.skipping \in BOOLEAN
  BY DEF Session
<1>5. CASE kind = "bad"
  <2>1. Prepared(s) = [Says(s, "error") EXCEPT !.skipping = TRUE]
    BY <1>5 DEF Prepared, Rejects
  <2>2. /\ Prepared(s) \in Session /\ Prepared(s).up = s.up /\ Prepared(s).syncs = s.syncs
        /\ Prepared(s).out = Append(s.out, Message("error", 0)) /\ Prepared(s).sent = s.sent
        /\ Prepared(s).skipping = TRUE /\ Prepared(s).portal = s.portal
    BY <1>2, <2>1
  <2>3. Message("error", 0) \in Msg /\ Message("error", 0).is = "error"
    BY <1>3
  <2>4. Prepared(s).skipping <=> (Message("error", 0).is = "error" \/ s.skipping)
    BY <2>2, <2>3
  <2> QED BY <2>2, <2>3, <2>4
<1>6. CASE kind # "bad" /\ kind \in {"rows", "failing"}
  BY <1>1, <1>3, <1>4, <1>6 DEF Prepared
<1>7. CASE kind # "bad" /\ kind \notin {"rows", "failing"}
  BY <1>1, <1>3, <1>4, <1>7 DEF Prepared
<1> QED BY <1>5, <1>6, <1>7

\* The page of a request: rows of the statement, and what ends the page.
Row == [is : {"dataRow"}, row : 1..total]
Final == [is : Answer \cup {"error"}, row : {0}]
Answered(s, t) ==
    \E page \in Seq(Row), last \in Final :
        t.out = Append(s.out \o page, last) /\ t.skipping = (last.is = "error")

\* The page has the next rows, and all that are left when it is not full.
PageOf(s, n, t) ==
    \E k \in 0..n :
       /\ t.sent = s.sent + k /\ (k # n => t.sent = total)
       /\ [i \in 1..k |-> Message("dataRow", s.sent + i)] \in Seq(Msg)
       /\ t.out = Append(s.out \o [i \in 1..k |-> Message("dataRow", s.sent + i)],
                         Message(IF k = n THEN "portalSuspended" ELSE "commandComplete", 0))

LEMMA RowsAreMessages == Row \subseteq Msg /\ Final \subseteq Msg
  BY DEF Row, Final, Msg, Answer, Plain

LEMMA PageSession ==
    ASSUME total \in Nat, NEW s \in Session, NEW n \in Nat \ {0}, ~s.skipping
    PROVE  /\ Page(s, n) \in Session /\ Page(s, n).up = s.up /\ Page(s, n).portal = s.portal
           /\ Page(s, n).syncs = s.syncs /\ Answered(s, Page(s, n)) /\ PageOf(s, n, Page(s, n))
<1> DEFINE k == Min({n, total - s.sent})
           page == [i \in 1..k |-> Message("dataRow", s.sent + i)]
           what == IF k = n THEN "portalSuspended" ELSE "commandComplete"
           t == [s EXCEPT !.sent = s.sent + k, !.out = s.out \o page]
<1>1. k \in {n, total - s.sent} /\ k <= n /\ k <= total - s.sent
  <2>1. s.sent \in 0..total
    BY DEF Session
  <2>2. n \in Int /\ total - s.sent \in Int
    BY <2>1
  <2>3. \E x \in {n, total - s.sent} : \A y \in {n, total - s.sent} : x <= y
    BY <2>2
  <2> QED BY <2>3 DEF Min
<1>2. k \in Nat /\ s.sent + k \in 0..total /\ \A i \in 1..k : s.sent + i \in 1..total
  <2> HIDE DEF k
  <2> QED BY <1>1 DEF Session
<1>3. page \in Seq(Row)
  <2> HIDE DEF k
  <2>1. \A i \in 1..k : Message("dataRow", s.sent + i) \in Row
    BY <1>2 DEF Message, Row
  <2> QED BY <1>2, <2>1
<1>4. page \in Seq(Msg) /\ s.out \o page \in Seq(Msg)
  <2> HIDE DEF page
  <2>1. page \in Seq(Msg)
    BY <1>3, RowsAreMessages, SeqMonotonic
  <2>2. s.out \in Seq(Msg)
    BY DEF Session
  <2> QED BY <2>1, <2>2, ConcatProperties
<1>5. t \in Session /\ t.up = s.up /\ t.portal = s.portal /\ t.syncs = s.syncs
      /\ t.skipping = s.skipping /\ t.out = s.out \o page /\ t.sent = s.sent + k
  <2> HIDE DEF k, page
  <2> QED BY <1>2, <1>4 DEF Session
<1>6. what \in {"portalSuspended", "commandComplete"} /\ Page(s, n) = Says(t, what)
  BY DEF Page
<1>11. k \in 0..n /\ (k # n => s.sent + k = total)
  <2>1. s.sent \in 0..total
    BY DEF Session
  <2> HIDE DEF k
  <2> QED BY <1>1, <1>2, <2>1
<1> HIDE DEF k, page, what, t
<1>7. /\ Says(t, what) \in Session
      /\ Says(t, what) = [t EXCEPT !.out = Append(t.out, Message(what, 0))]
  BY <1>5, <1>6, SaysSession DEF Plain
<1>8. Page(s, n).up = t.up /\ Page(s, n).portal = t.portal /\ Page(s, n).syncs = t.syncs
      /\ Page(s, n).skipping = t.skipping /\ Page(s, n).out = Append(t.out, Message(what, 0))
      /\ Page(s, n).sent = t.sent
  BY <1>5, <1>6, <1>7 DEF Session
<1>9. Message(what, 0) \in Final /\ Message(what, 0).is # "error"
  BY <1>6 DEF Final, Message, Answer
<1>10. Page(s, n).skipping = (Message(what, 0).is = "error")
  BY <1>5, <1>8, <1>9 DEF Session
<1>12. PageOf(s, n, Page(s, n))
  BY <1>4, <1>5, <1>8, <1>11 DEF PageOf, page, what
<1> QED BY <1>3, <1>5, <1>6, <1>7, <1>8, <1>9, <1>10, <1>12 DEF Answered

LEMMA ExecutedSession ==
    ASSUME total \in Nat, NEW s \in Session, NEW n \in Nat \ {0}, kind \in Kind,
           s.portal => kind # "bad"
    PROVE  /\ Executed(s, n) \in Session /\ Executed(s, n).up = s.up
           /\ Executed(s, n).portal = s.portal /\ Executed(s, n).syncs = s.syncs
           /\ IF s.skipping \/ ~s.up THEN Executed(s, n) = s ELSE Answered(s, Executed(s, n))
<1> DEFINE t == Executed(s, n)
<1>1. CASE s.skipping \/ ~s.up
  BY <1>1 DEF Executed
<1>2. ASSUME ~(s.skipping \/ ~s.up), NEW is \in Answer \cup {"error"},
             t = IF is = "error" THEN [Says(s, is) EXCEPT !.skipping = TRUE] ELSE Says(s, is)
      PROVE  t \in Session /\ t.up = s.up /\ t.portal = s.portal /\ t.syncs = s.syncs
             /\ Answered(s, t)
  <2> HIDE DEF t
  <2>1. /\ Says(s, is) \in Session
        /\ Says(s, is) = [s EXCEPT !.out = Append(s.out, Message(is, 0))]
    BY SaysSession DEF Plain, Answer
  <2>2. t \in Session /\ t.up = s.up /\ t.portal = s.portal /\ t.syncs = s.syncs
        /\ t.out = Append(s.out, Message(is, 0)) /\ t.skipping = (is = "error")
    BY <1>2, <2>1 DEF Session
  <2>3. Message(is, 0) \in Final /\ Message(is, 0).is = is
    BY DEF Message, Final
  <2>4. s.out \o <<>> = s.out /\ <<>> \in Seq(Row)
    BY ConcatEmptySeq DEF Session
  <2> QED BY <2>2, <2>3, <2>4 DEF Answered
<1>3. CASE ~(s.skipping \/ ~s.up) /\ (~s.portal \/ kind = "failing")
  BY <1>2, <1>3 DEF Executed, Rejects
<1>4. CASE ~(s.skipping \/ ~s.up) /\ ~(~s.portal \/ kind = "failing") /\ kind = "rows"
  <2>1. t = Page(s, n)
    BY <1>4 DEF Executed
  <2> QED BY <1>4, <2>1, PageSession
<1>5. CASE ~(s.skipping \/ ~s.up) /\ ~(~s.portal \/ kind = "failing") /\ kind = "no data"
  <2>1. t = Says(s, "commandComplete")
    BY <1>5 DEF Executed
  <2> QED BY <1>2, <1>5, <2>1 DEF Answer
<1>6. CASE ~(s.skipping \/ ~s.up) /\ ~(~s.portal \/ kind = "failing") /\ kind = "empty"
  <2>1. t = Says(s, "emptyQuery")
    BY <1>6 DEF Executed
  <2> QED BY <1>2, <1>6, <2>1 DEF Answer
<1> QED BY <1>1, <1>3, <1>4, <1>5, <1>6 DEF Kind

-----------------------------------------------------------------------------
\* The pieces of the cursor's handlers.

LEMMA Facts ==
    ASSUME Typed
    PROVE  /\ total \in Nat /\ kind \in Kind /\ srv.out \in Seq(Msg) /\ srv.syncs \in Nat
           /\ srv \in Session /\ MaxReads \in Nat /\ Sizes \subseteq Nat \ {0} /\ asked \in Nat
           /\ srv.up \in BOOLEAN /\ srv.portal \in BOOLEAN /\ srv.skipping \in BOOLEAN
  BY CursorAssumption DEF Typed, Session, ReadTyped

LEMMA SameSession == ASSUME total' = total PROVE Session' = Session
  BY DEF Session, Msg

\* A message is taken from the connection.
LEMMA RestSession ==
    ASSUME Typed, srv.out # <<>>
    PROVE  /\ Rest \in Session /\ Rest.up = srv.up /\ Rest.portal = srv.portal
           /\ Rest.skipping = srv.skipping /\ Rest.syncs = srv.syncs /\ Rest.sent = srv.sent
           /\ Rest.out = Tail(srv.out) /\ Head(srv.out) \in Msg /\ Head(srv.out) = srv.out[1]
           /\ Len(srv.out) \in Nat \ {0} /\ Rest.out \in Seq(Msg)
           /\ Len(Rest.out) = Len(srv.out) - 1
           /\ \A i \in 1..Len(Rest.out) : Rest.out[i] = srv.out[i + 1]
<1>1. srv \in Session /\ srv.out \in Seq(Msg)
  BY Facts
<1>2. Tail(srv.out) \in Seq(Msg) /\ Head(srv.out) \in Msg
      /\ Len(Tail(srv.out)) = Len(srv.out) - 1 /\ Len(srv.out) \in Nat \ {0}
      /\ \A i \in 1..Len(Tail(srv.out)) : Tail(srv.out)[i] = srv.out[i + 1]
  BY <1>1, HeadTailProperties, EmptySeq
<1>3. Rest \in Session /\ Rest.up = srv.up /\ Rest.portal = srv.portal
      /\ Rest.skipping = srv.skipping /\ Rest.syncs = srv.syncs /\ Rest.sent = srv.sent
      /\ Rest.out = Tail(srv.out)
  BY <1>1, <1>2 DEF Rest, Session
<1> QED BY <1>1, <1>2, <1>3

LEMMA MoreReads ==
    ASSUME Typed
    PROVE  queue \in Seq(WaitsOf(asked + 1)) /\ immediates \in Seq(TasksOf(asked + 1))
<1>1. asked \in Nat
  BY Facts
<1>2. WaitsOf(asked) \subseteq WaitsOf(asked + 1) /\ TasksOf(asked) \subseteq TasksOf(asked + 1)
  BY <1>1 DEF WaitsOf, TasksOf
<1> QED BY <1>2, SeqMonotonic DEF Typed, ReadTyped

\* s becomes t by a Sync of a connection that is up.
Syncs(s, t) ==
    /\ t \in Session /\ t.up = s.up /\ t.sent = s.sent
    /\ s.up => /\ ~t.portal /\ ~t.skipping /\ t.syncs = s.syncs + 1
               /\ t.out = Append(s.out, Message("readyForQuery", 0))
    /\ ~s.up => t.syncs = s.syncs /\ t.out = s.out /\ t.skipping = s.skipping
    /\ t.portal => s.portal

LEMMA SyncedSyncs == ASSUME NEW s \in Session PROVE Syncs(s, Synced(s))
  BY SyncedSession DEF Syncs

\* _closePortal: a Sync, but not after an error or a second time.
LEMMA ClosePortalLeaves ==
    ASSUME NEW s \in Session, ClosePortal(s)
    PROVE  /\ state' = "done" /\ srv' \in Session /\ srv'.up = s.up /\ srv'.sent = s.sent
           /\ state \in {"done", "error"} =>
                 /\ srv'.syncs = s.syncs /\ srv'.out = s.out /\ srv'.skipping = s.skipping
                 /\ srv'.portal => s.portal
           /\ state \notin {"done", "error"} => Syncs(s, srv')
<1>1. CASE state = "done"
  BY <1>1 DEF ClosePortal
<1>2. CASE state = "error"
  BY <1>2, PortalClosedSession DEF ClosePortal
<1>3. CASE state \notin {"done", "error"}
  <2> DEFINE c == PortalClosed(s)
  <2>1. srv' = Synced(c) /\ state' = "done"
    BY <1>3 DEF ClosePortal
  <2>2. /\ c \in Session /\ c.up = s.up /\ c.sent = s.sent /\ c.skipping = s.skipping
        /\ c.syncs = s.syncs
        /\ c.out = s.out /\ (c.portal => s.portal)
    BY PortalClosedSession
  <2> HIDE DEF c
  <2>3. Syncs(c, Synced(c))
    BY <2>2, SyncedSyncs
  <2> QED BY <1>3, <2>1, <2>2, <2>3 DEF Syncs
<1> QED BY <1>1, <1>2, <1>3

\* handleError
LEMMA HandleErrorLeaves ==
    ASSUME Typed, NEW s \in Session, HandleError(s), state = "initialized" => ~s.up
    PROVE  /\ srv' \in Session /\ srv'.up = s.up /\ cb' \in 0..asked
           /\ queue' \in Seq(WaitsOf(asked))
           /\ immediates' \in Seq(TasksOf(asked)) /\ given' = given
           /\ told' \in [Reads -> How] /\ \A r \in Reads : r > asked => told'[r] = "no"
           /\ closing' \in {closing, "soon"} /\ (closing' # closing => closing = "no")
           /\ state \in {"done", "error"} => srv' = s /\ state' = state
           /\ state \notin {"done", "error"} => Syncs(s, srv') /\ state' = "error"
<1>1. CASE state \in {"done", "error"}
  BY <1>1 DEF HandleError, HandlesError, Typed, ReadTyped
<1>2. CASE state \notin {"done", "error"}
  <2>1. /\ state' = "error" /\ cb' = NoRead /\ queue' = <<>>
        /\ srv' = IF state = "initialized" THEN s ELSE Synced(s)
        /\ told' = [r \in Reads |-> IF r \in QueuedReads THEN "error" ELSE told[r]]
        /\ ErrorCallbacks(QueuedReads, immediates) /\ given' = given
    BY <1>2 DEF HandleError, HandlesError
  <2>2. Syncs(s, srv')
    <3>1. CASE state = "initialized"
      BY <2>1, <3>1 DEF Syncs
    <3>2. CASE state # "initialized"
      BY <2>1, <3>2, SyncedSyncs
    <3> QED BY <3>1, <3>2
  <2>3. asked \in Nat /\ queue \in Seq(WaitsOf(asked)) /\ immediates \in Seq(TasksOf(asked))
    BY Facts DEF Typed, ReadTyped
  <2>4. \A r \in QueuedReads : r \in 1..asked
    <3>1. \A i \in DOMAIN queue : queue[i] \in WaitsOf(asked)
      BY <2>3, LenProperties, ElementOfSeq
    <3> QED BY <3>1 DEF QueuedReads, WaitsOf
  <2>5. told' \in [Reads -> How] /\ \A r \in Reads : r > asked => told'[r] = "no"
    BY <2>1, <2>3, <2>4 DEF Typed, ReadTyped, How, Reads
  <2>6. immediates' \in Seq(TasksOf(asked)) /\ closing' \in {closing, "soon"}
        /\ (closing' # closing => closing = "no")
    <3>1. Immediate("close", NoRead) \in TasksOf(asked)
      BY DEF Immediate, TasksOf
    <3>2. Append(immediates, Immediate("close", NoRead)) \in Seq(TasksOf(asked))
      BY <2>3, <3>1, AppendProperties
    <3> QED BY <2>1, <2>3, <3>2 DEF ErrorCallbacks
  <2>7. cb' \in 0..asked /\ queue' \in Seq(WaitsOf(asked))
    BY <2>1, <2>3 DEF NoRead
  <2>8. srv' \in Session /\ srv'.up = s.up
    BY <2>2 DEF Syncs
  <2> QED BY <1>2, <2>1, <2>2, <2>5, <2>6, <2>7, <2>8
<1> QED BY <1>1, <1>2

-----------------------------------------------------------------------------
\* Every step keeps the types.

LEMMA TypedInit == StreamInit => Typed
<1> SUFFICES ASSUME StreamInit PROVE Typed
  OBVIOUS
<1>1. total \in Nat /\ MaxReads \in Nat
  BY CursorAssumption DEF StreamInit, Init
<1>2. srv \in Session
  BY <1>1, EmptySeq DEF StreamInit, Init, Session
<1>3. /\ <<>> \in Seq(WaitsOf(0)) /\ <<>> \in Seq(TasksOf(0)) /\ <<>> \in Seq(1..total)
  BY EmptySeq
<1>4. told \in [Reads -> How] /\ given \in [Reads -> Seq(1..total)]
      /\ \A r \in Reads : told[r] = "no"
  BY <1>3 DEF StreamInit, Init, How
<1>5. ReadTyped
  BY <1>1, <1>3, <1>4 DEF StreamInit, Init, ReadTyped, NoRead
<1> QED BY <1>1, <1>2, <1>3, <1>5 DEF StreamInit, Init, Typed, State

LEMMA SubmitTyped == ASSUME Typed, Submit, UNCHANGED streamVars PROVE Typed'
<1>1. Session' = Session /\ srv' \in Session
  BY Facts, PreparedSession, SameSession DEF Submit
<1> QED BY <1>1 DEF Typed, ReadTyped, Submit, readVars, streamVars, State

\* _getRows
LEMMA GetRowsTyped ==
    ASSUME Typed, Begun, NEW s \in Session, NEW r, NEW n \in Sizes, GetRows(s, r, n),
           s.portal => kind # "bad"
    PROVE  srv' \in Session /\ state' = "busy" /\ cb' = r /\ rows' \in Seq(1..total)
  BY Facts, ExecutedSession, EmptySeq DEF GetRows

\* read
LEMMA ReadKeepsTypes ==
    ASSUME Typed, Begun, NEW n \in Sizes, Read(n), UNCHANGED streamVars PROVE Typed'
<1>1. asked' = asked + 1 /\ asked' \in 0..MaxReads /\ asked + 1 \in Reads /\ asked \in Nat
      /\ Session' = Session
  BY Facts, SameSession DEF Read, Reads
<1>2. queue \in Seq(WaitsOf(asked + 1)) /\ immediates \in Seq(TasksOf(asked + 1))
  BY MoreReads
<1>3. \A r \in Reads : r > asked + 1 => told[r] = "no"
  BY <1>1 DEF Typed, ReadTyped, Reads
<1>4. /\ UNCHANGED <<kind, total, streamed, told, given, closing, ended, active, streamVars>>
  BY DEF Read, readVars
<1>5. CASE state \in {"idle", "submitted"}
  <2>1. GetRows(srv, asked + 1, n) /\ UNCHANGED <<queue, immediates>>
    BY <1>5 DEF Read
  <2>2. srv' \in Session /\ state' = "busy" /\ cb' = asked + 1 /\ rows' \in Seq(1..total)
    BY <2>1, Facts, GetRowsTyped DEF Begun
  <2> QED BY <1>1, <1>2, <1>3, <1>4, <2>1, <2>2 DEF Typed, ReadTyped, State, streamVars
<1>6. CASE state \in {"busy", "initialized"}
  <2>1. queue' = Append(queue, [read |-> asked + 1, size |-> n])
        /\ UNCHANGED <<state, cb, rows, immediates, srv>>
    BY <1>6 DEF Read
  <2>2. [read |-> asked + 1, size |-> n] \in WaitsOf(asked + 1)
    BY <1>1 DEF WaitsOf
  <2>3. queue' \in Seq(WaitsOf(asked + 1))
    BY <1>2, <2>1, <2>2, AppendProperties
  <2> QED BY <1>1, <1>2, <1>3, <1>4, <2>1, <2>3 DEF Typed, ReadTyped, streamVars
<1>7. CASE state \in {"error", "done"}
  <2>1. immediates' = Append(immediates, Immediate(state, asked + 1))
        /\ UNCHANGED <<state, queue, cb, rows, srv>>
    BY <1>7 DEF Read
  <2>2. Immediate(state, asked + 1) \in TasksOf(asked + 1)
    BY <1>1, <1>7 DEF TasksOf, Immediate
  <2>3. immediates' \in Seq(TasksOf(asked + 1))
    BY <1>2, <2>1, <2>2, AppendProperties
  <2> QED BY <1>1, <1>2, <1>3, <1>4, <2>1, <2>3 DEF Typed, ReadTyped, streamVars
<1> QED BY <1>5, <1>6, <1>7 DEF Typed, State

\* setImmediate and the tasks without a read
LEMMA MoreTasks ==
    ASSUME Typed, NEW do \in {"send", "end", "close"}
    PROVE  /\ Immediate(do, NoRead) \in TasksOf(asked)
           /\ Append(immediates, Immediate(do, NoRead)) \in Seq(TasksOf(asked))
  BY AppendProperties DEF Typed, ReadTyped, TasksOf, Immediate

LEMMA CloseTyped == ASSUME Typed, Close, UNCHANGED streamVars PROVE Typed'
<1>1. Session' = Session
  BY SameSession DEF Close
<1>2. CASE state \in {"initialized", "done", "error"}
  <2>1. immediates' \in Seq(TasksOf(asked)) /\ closing' = "soon" /\ UNCHANGED <<state, srv>>
    BY <1>2, MoreTasks DEF Close
  <2> QED BY <1>1, <2>1 DEF Typed, ReadTyped, Close, readVars, streamVars
<1>3. CASE state \notin {"initialized", "done", "error"}
  <2>1. closing' = "waits" /\ ClosePortal(srv) /\ UNCHANGED immediates
    BY <1>3 DEF Close
  <2>2. srv' \in Session /\ state' = "done"
    BY <2>1, Facts, ClosePortalLeaves
  <2> QED BY <1>1, <2>1, <2>2 DEF Typed, ReadTyped, Close, readVars, streamVars, State
<1> QED BY <1>2, <1>3

LEMMA DescribedTyped == ASSUME Typed, Begun, Described, UNCHANGED streamVars PROVE Typed'
<1>1. Session' = Session /\ srv.out # <<>>
  BY SameSession DEF Described, Untouched, Receives
<1>2. Rest \in Session /\ Rest.portal = srv.portal
  BY <1>1, RestSession
<1>3. /\ UNCHANGED <<kind, total, streamed, asked, ended, immediates, told, given, closing, active>>
      /\ ShiftQueue(Rest)
  BY DEF Described, Untouched, readVars
<1>4. CASE queue = <<>>
  BY <1>1, <1>2, <1>3, <1>4 DEF ShiftQueue, Typed, ReadTyped, State, streamVars
<1>5. CASE queue # <<>>
  <2>1. Head(queue) \in WaitsOf(asked) /\ queue' = Tail(queue) /\ queue' \in Seq(WaitsOf(asked))
    BY <1>3, <1>5, HeadTailProperties DEF ShiftQueue, Typed, ReadTyped
  <2>2. Head(queue).read \in 1..asked /\ Head(queue).size \in Sizes
    BY <2>1 DEF WaitsOf
  <2>3. GetRows(Rest, Head(queue).read, Head(queue).size)
    BY <1>3, <1>5 DEF ShiftQueue
  <2>4. srv' \in Session /\ state' = "busy" /\ cb' \in 0..asked /\ rows' \in Seq(1..total)
    BY <1>2, <2>2, <2>3, Facts, GetRowsTyped DEF Begun
  <2> QED BY <1>1, <1>3, <2>1, <2>4 DEF Typed, ReadTyped, State, streamVars
<1> QED BY <1>4, <1>5

LEMMA DataRowTyped == ASSUME Typed, DataRow, UNCHANGED streamVars PROVE Typed'
<1>1. Session' = Session /\ srv.out # <<>> /\ Head(srv.out).is = "dataRow"
  BY SameSession DEF DataRow, Untouched, Receives
<1>2. Rest \in Session /\ Head(srv.out) \in Msg
  BY <1>1, RestSession
<1>3. Head(srv.out).row \in 1..total
  BY <1>1, <1>2 DEF Msg, Plain
<1>4. rows' \in Seq(1..total)
  BY <1>3, AppendProperties DEF DataRow, Typed, ReadTyped
<1> QED BY <1>1, <1>2, <1>4 DEF DataRow, Untouched, Typed, ReadTyped, readVars, streamVars

LEMMA PortalSuspendedTyped ==
    ASSUME Typed, PortalSuspended, UNCHANGED streamVars PROVE Typed'
<1>1. Session' = Session /\ srv.out # <<>>
  BY SameSession DEF PortalSuspended, Untouched, Receives
<1>2. Rest \in Session
  BY <1>1, RestSession
<1>3. immediates' \in Seq(TasksOf(asked))
  BY MoreTasks DEF PortalSuspended
<1> QED BY <1>1, <1>2, <1>3
        DEF PortalSuspended, Untouched, Typed, ReadTyped, readVars, State, streamVars

LEMMA CommandCompleteTyped ==
    ASSUME Typed, CommandComplete, UNCHANGED streamVars PROVE Typed'
<1>1. Session' = Session /\ srv.out # <<>>
  BY SameSession DEF CommandComplete, Untouched, Receives
<1>2. srv' \in Session /\ state' = "done"
  BY <1>1, RestSession, ClosePortalLeaves DEF CommandComplete
<1> QED BY <1>1, <1>2 DEF CommandComplete, Untouched, Typed, ReadTyped, readVars, State, streamVars

LEMMA EmptyQueryTyped == ASSUME Typed, EmptyQuery, UNCHANGED streamVars PROVE Typed'
<1>1. Session' = Session /\ srv.out # <<>>
  BY SameSession DEF EmptyQuery, Untouched, Receives
<1>2. srv' \in Session
  BY <1>1, RestSession, SyncedSession DEF EmptyQuery
<1> QED BY <1>1, <1>2 DEF EmptyQuery, Untouched, Typed, ReadTyped, readVars, streamVars

LEMMA ErrorMessageTyped ==
    ASSUME Typed, Begun, ErrorMessage, UNCHANGED streamVars PROVE Typed'
<1>1. Session' = Session /\ srv.out # <<>> /\ active
  BY SameSession DEF ErrorMessage, Untouched, Receives
<1>2. Rest \in Session /\ HandleError(Rest) /\ state # "initialized"
  BY <1>1, RestSession DEF ErrorMessage, Begun
<1>3. /\ srv' \in Session /\ cb' \in 0..asked /\ queue' \in Seq(WaitsOf(asked))
      /\ immediates' \in Seq(TasksOf(asked)) /\ given' = given
      /\ told' \in [Reads -> How] /\ \A r \in Reads : r > asked => told'[r] = "no"
      /\ closing' \in {closing, "soon"} /\ state' \in {state, "error"}
  BY <1>2, HandleErrorLeaves
<1>4. UNCHANGED <<kind, total, streamed, asked, ended, rows>> /\ active' = FALSE
  BY DEF ErrorMessage, Untouched
<1> QED BY <1>1, <1>3, <1>4 DEF Typed, ReadTyped, State, streamVars

LEMMA StrayErrorTyped ==
    ASSUME Typed, StrayError, UNCHANGED streamVars PROVE Typed'
<1>1. Session' = Session /\ srv.out # <<>>
  BY SameSession DEF StrayError, Untouched
<1>2. Rest \in Session
  BY <1>1, RestSession
<1> QED BY <1>1, <1>2 DEF StrayError, Untouched, readVars, Typed, ReadTyped, streamVars

LEMMA ReadyForQueryTyped ==
    ASSUME Typed, ReadyForQuery, UNCHANGED streamVars PROVE Typed'
<1>1. Session' = Session /\ srv.out # <<>>
  BY SameSession DEF ReadyForQuery, Untouched
<1>2. Rest \in Session
  BY <1>1, RestSession
<1>3. <<Immediate("send", NoRead), Immediate("end", NoRead)>> \in Seq(TasksOf(asked))
  BY MoreTasks
<1>4. immediates' \in Seq(TasksOf(asked)) /\ state' \in State
  <2>1. immediates \o <<Immediate("send", NoRead), Immediate("end", NoRead)>>
           \in Seq(TasksOf(asked))
    BY <1>3, ConcatProperties DEF Typed, ReadTyped
  <2> QED BY <2>1 DEF ReadyForQuery, Typed, ReadTyped, State
<1>5. closing' \in {closing, "told"} /\ srv' = Rest /\ active' = FALSE
      /\ UNCHANGED <<kind, total, streamed, asked, ended, queue, cb, rows, told, given>>
  BY DEF ReadyForQuery, Untouched, readVars
<1> QED BY <1>1, <1>2, <1>4, <1>5 DEF Typed, ReadTyped, streamVars

LEMMA ConnectionLostTyped ==
    ASSUME Typed, ConnectionLost, UNCHANGED streamVars PROVE Typed'
<1> DEFINE s == [srv EXCEPT !.out = <<>>, !.up = FALSE]
<1>1. Session' = Session /\ s \in Session /\ ~s.up
  BY SameSession, EmptySeq DEF ConnectionLost, Typed, Session
<1>2. UNCHANGED <<kind, total, streamed, asked, ended, rows>> /\ active' = FALSE
  BY DEF ConnectionLost
<1>3. CASE HandleError(s)
  <2>1. /\ srv' \in Session /\ cb' \in 0..asked /\ queue' \in Seq(WaitsOf(asked))
        /\ immediates' \in Seq(TasksOf(asked)) /\ given' = given
        /\ told' \in [Reads -> How] /\ \A r \in Reads : r > asked => told'[r] = "no"
        /\ closing' \in {closing, "soon"} /\ state' \in {state, "error"}
    <3> HIDE DEF s
    <3> QED BY <1>1, <1>3, HandleErrorLeaves
  <2> HIDE DEF s
  <2> QED BY <1>1, <1>2, <2>1 DEF Typed, ReadTyped, State, streamVars
<1>4. CASE srv' = s /\ UNCHANGED <<state, cb, queue, readVars, immediates, closing>>
  <2> HIDE DEF s
  <2> QED BY <1>1, <1>2, <1>4 DEF Typed, ReadTyped, readVars, streamVars
<1> QED BY <1>3, <1>4 DEF ConnectionLost

\* The setImmediate callbacks: what each changes.
LEMMA ImmediateHead ==
    ASSUME Typed, immediates # <<>>
    PROVE  /\ Head(immediates) \in TasksOf(asked) /\ Tail(immediates) \in Seq(TasksOf(asked))
           /\ Head(immediates) = immediates[1] /\ Len(immediates) \in Nat \ {0}
           /\ Len(Tail(immediates)) = Len(immediates) - 1
           /\ \A i \in 1..Len(Tail(immediates)) : Tail(immediates)[i] = immediates[i + 1]
  BY HeadTailProperties, EmptySeq DEF Typed, ReadTyped

\* A read that was made is told.
LEMMA TellsTyped ==
    ASSUME Typed, NEW r \in 1..asked, NEW how \in How, NEW page \in Seq(1..total),
           Tells(r, how, page)
    PROVE  /\ told' \in [Reads -> How] /\ \A q \in Reads : q > asked => told'[q] = "no"
           /\ given' \in [Reads -> Seq(1..total)]
<1>1. r \in Reads /\ asked \in Nat /\ \A q \in Reads : q > asked => q # r
  BY Facts DEF Typed, ReadTyped, Reads
<1> QED BY <1>1 DEF Tells, Typed, ReadTyped

LEMMA RunImmediateTyped ==
    ASSUME Typed, RunImmediate
    PROVE  /\ immediates' \in Seq(TasksOf(asked)) /\ rows' \in Seq(1..total)
           /\ cb' \in {cb, NoRead} /\ closing' \in {closing, "soon", "told"} /\ ended' \in BOOLEAN
           /\ told' \in [Reads -> How] /\ \A r \in Reads : r > asked => told'[r] = "no"
           /\ given' \in [Reads -> Seq(1..total)]
<1>1. /\ Head(immediates) \in TasksOf(asked) /\ Tail(immediates) \in Seq(TasksOf(asked))
      /\ immediates # <<>>
  BY ImmediateHead DEF RunImmediate
<1>2. /\ told \in [Reads -> How] /\ \A r \in Reads : r > asked => told[r] = "no"
      /\ given \in [Reads -> Seq(1..total)] /\ rows \in Seq(1..total) /\ <<>> \in Seq(1..total)
      /\ ended \in BOOLEAN /\ cb \in 0..asked /\ asked \in Nat
  BY Facts, EmptySeq DEF Typed, ReadTyped
<1>3. CASE SendRows
  <2>1. CASE cb = NoRead
    BY <1>1, <1>2, <1>3, <2>1 DEF SendRows, readVars
  <2>2. CASE cb # NoRead
    <3>1. cb \in 1..asked /\ Tells(cb, "rows", rows)
      BY <1>2, <1>3, <2>2 DEF SendRows, NoRead
    <3> QED BY <1>1, <1>2, <1>3, <3>1, TellsTyped DEF SendRows, How
  <2> QED BY <2>1, <2>2
<1>4. CASE AnswerDone
  <2>1. Head(immediates).read \in 1..asked /\ Tells(Head(immediates).read, "rows", <<>>)
    BY <1>1, <1>4 DEF AnswerDone, TasksOf
  <2> QED BY <1>1, <1>2, <1>4, <2>1, TellsTyped DEF AnswerDone, How
<1>5. CASE AnswerError
  <2>1. Head(immediates).read \in 1..asked /\ Tells(Head(immediates).read, "error", <<>>)
    BY <1>1, <1>5 DEF AnswerError, TasksOf
  <2>2. Append(Tail(immediates), Immediate("close", NoRead)) \in Seq(TasksOf(asked))
    BY <1>1, MoreTasks, AppendProperties
  <2>3. immediates' \in Seq(TasksOf(asked)) /\ closing' \in {closing, "soon"}
    BY <1>1, <1>5, <2>2 DEF AnswerError, ErrorCallbacks
  <2> QED BY <1>2, <1>5, <2>1, <2>3, TellsTyped DEF AnswerError, How
<1>6. CASE EmitEnd
  BY <1>1, <1>2, <1>6 DEF EmitEnd, readVars
<1>7. CASE CloseSoon
  BY <1>1, <1>2, <1>7 DEF CloseSoon, readVars
<1> QED BY <1>3, <1>4, <1>5, <1>6, <1>7 DEF RunImmediate

LEMMA ImmediatesTyped == ASSUME Typed, Immediates PROVE Typed'
<1>1. /\ RunImmediate
      /\ UNCHANGED <<kind, total, streamed, state, queue, asked, active, srv, hwm, taken>>
  BY DEF Immediates, RunImmediate
<1>2. Session' = Session
  BY <1>1, SameSession
<1>3. /\ immediates' \in Seq(TasksOf(asked)) /\ rows' \in Seq(1..total)
      /\ cb' \in {cb, NoRead} /\ closing' \in {closing, "soon", "told"} /\ ended' \in BOOLEAN
      /\ told' \in [Reads -> How] /\ \A r \in Reads : r > asked => told'[r] = "no"
      /\ given' \in [Reads -> Seq(1..total)]
  BY <1>1, RunImmediateTyped
<1>4. cb' \in 0..asked
  BY <1>3, Facts DEF Typed, ReadTyped, NoRead
<1>5. buffer' \in Seq(1..total) /\ nulled' \in BOOLEAN
  <2>1. CASE streamed /\ asked > 0 /\ told[asked] = "no" /\ told'[asked] = "rows"
    <3>1. asked \in Reads /\ Pushes(given'[asked])
      BY <2>1, Facts DEF Typed, ReadTyped, Reads, Immediates
    <3>2. given'[asked] \in Seq(1..total) /\ buffer \o given'[asked] \in Seq(1..total)
      BY <1>3, <3>1, ConcatProperties DEF Typed
    <3>3. buffer' \in Seq(1..total)
      BY <3>1, <3>2 DEF Pushes, Typed
    <3>4. CASE closing = "no"
      <4>1. nulled' = (Len(given'[asked]) < hwm)
        BY <3>1, <3>4 DEF Pushes
      <4> QED BY <3>3, <4>1
    <3>5. CASE closing # "no"
      <4>1. nulled' = nulled
        BY <3>1, <3>5 DEF Pushes
      <4> QED BY <3>3, <4>1 DEF Typed
    <3> QED BY <3>4, <3>5
  <2>2. CASE ~(streamed /\ asked > 0 /\ told[asked] = "no" /\ told'[asked] = "rows")
    <3>1. UNCHANGED <<buffer, nulled>>
      BY <2>2 DEF Immediates
    <3> QED BY <3>1 DEF Typed
  <2> QED BY <2>1, <2>2
<1>6. early' \in BOOLEAN
  BY DEF Immediates, Typed
<1>7. ReadTyped'
  BY <1>1, <1>3, <1>4 DEF Typed, ReadTyped
<1> QED BY <1>1, <1>2, <1>3, <1>5, <1>6, <1>7 DEF Typed

LEMMA TakeTyped == ASSUME Typed, Take PROVE Typed'
<1>1. Session' = Session
  BY SameSession DEF Take, cursorVars
<1>2. buffer' \in Seq(1..total) /\ taken' \in Seq(1..total)
  BY HeadTailProperties, AppendProperties DEF Take, Typed
<1> QED BY <1>1, <1>2 DEF Take, cursorVars, Typed, ReadTyped

LEMMA SameTyped == ASSUME Typed, UNCHANGED vars PROVE Typed'
<1>1. Session' = Session
  BY SameSession DEF vars, cursorVars
<1> QED BY <1>1 DEF vars, cursorVars, streamVars, Typed, ReadTyped

LEMMA TypedStep == ASSUME Typed, Begun, [Next]_vars PROVE Typed'
<1>1. hwm \in Sizes
  BY DEF Typed
<1>2. CASE ProgramReads
  BY <1>2, ReadKeepsTypes DEF ProgramReads
<1>3. CASE StreamReads
  BY <1>1, <1>3, ReadKeepsTypes DEF StreamReads
<1>4. CASE ProgramCloses \/ StreamEnds
  BY <1>4, CloseTyped DEF ProgramCloses, StreamEnds
<1>5. CASE CursorSteps /\ UNCHANGED streamVars
  BY <1>5, SubmitTyped, DescribedTyped, DataRowTyped, PortalSuspendedTyped, CommandCompleteTyped,
     EmptyQueryTyped, ErrorMessageTyped, StrayErrorTyped, ReadyForQueryTyped, ConnectionLostTyped
  DEF CursorSteps, Deliver
<1> QED BY <1>2, <1>3, <1>4, <1>5, ImmediatesTyped, TakeTyped, SameTyped DEF Next

-----------------------------------------------------------------------------
\* Every step keeps Begun.

Ready == {"readyForQuery"}
Clean(s, st) ==
    /\ s.up /\ s.portal => st \in {"submitted", "idle", "busy"} /\ s.syncs = 0
    /\ s.syncs = 0 => ~Has(s.out, Ready)
    /\ s.portal => kind # "bad"

LEMMA HasAppend ==
    ASSUME NEW o \in Seq(Msg), NEW m \in Msg, NEW names
    PROVE  Has(Append(o, m), names) <=> Has(o, names) \/ m.is \in names
<1>1. /\ Append(o, m) \in Seq(Msg) /\ Len(Append(o, m)) = Len(o) + 1 /\ Len(o) \in Nat
      /\ \A i \in 1..Len(o) : Append(o, m)[i] = o[i]
      /\ Append(o, m)[Len(o) + 1] = m
  BY AppendProperties, LenProperties
<1>2. \A i \in 1..(Len(o) + 1) : i \in 1..Len(o) \/ i = Len(o) + 1
  BY <1>1
<1>3. \A i \in 1..Len(o) : i \in 1..(Len(o) + 1)
  BY <1>1
<1>4. Len(o) + 1 \in 1..(Len(o) + 1)
  BY <1>1
<1> QED BY <1>1, <1>2, <1>3, <1>4 DEF Has

LEMMA RestHas ==
    ASSUME Typed, srv.out # <<>>, NEW names
    PROVE  Has(Rest.out, names) => Has(srv.out, names)
<1>1. Len(srv.out) \in Nat \ {0} /\ Len(Rest.out) = Len(srv.out) - 1
      /\ \A i \in 1..Len(Rest.out) : Rest.out[i] = srv.out[i + 1]
  BY RestSession
<1>2. \A i \in 1..Len(Rest.out) : i + 1 \in 1..Len(srv.out)
  BY <1>1
<1> QED BY <1>1, <1>2 DEF Has

\* The answer to a request ends with its last message, which is the only one that
\* is not a row.
LEMMA AnsweredOut ==
    ASSUME NEW s \in Session, NEW t \in Session, Answered(s, t)
    PROVE  /\ Has(t.out, Ready) => Has(s.out, Ready)
           /\ ~Has(s.out, Answer \cup {"error"}) =>
                 /\ AnswerLast(t.out)
                 /\ t.skipping <=> Has(t.out, {"error"})
<1>1. PICK page \in Seq(Row), last \in Final :
         t.out = Append(s.out \o page, last) /\ t.skipping = (last.is = "error")
  BY DEF Answered
<1>2. s.out \in Seq(Msg) /\ page \in Seq(Msg) /\ last \in Msg
  BY RowsAreMessages, SeqMonotonic DEF Session
<1> DEFINE o == s.out \o page
<1>3. o \in Seq(Msg) /\ Len(o) \in Nat
      /\ \A i \in 1..Len(o) : (\E j \in 1..Len(s.out) : o[i] = s.out[j]) \/ o[i].is = "dataRow"
  <2>1. o \in Seq(Msg) /\ Len(o) = Len(s.out) + Len(page) /\ Len(s.out) \in Nat
        /\ Len(page) \in Nat
        /\ \A i \in 1..Len(o) : o[i] = IF i <= Len(s.out) THEN s.out[i] ELSE page[i - Len(s.out)]
    BY <1>2, ConcatProperties, LenProperties
  <2>2. \A i \in 1..Len(page) : page[i].is = "dataRow"
    <3>1. \A i \in 1..Len(page) : page[i] \in Row
      BY ElementOfSeq
    <3> QED BY <3>1 DEF Row
  <2>3. \A i \in 1..Len(o) : i <= Len(s.out) => i \in 1..Len(s.out)
    BY <2>1
  <2>4. \A i \in 1..Len(o) : ~(i <= Len(s.out)) => i - Len(s.out) \in 1..Len(page)
    BY <2>1
  <2> QED BY <2>1, <2>2, <2>3, <2>4
<1>4. /\ Len(t.out) = Len(o) + 1 /\ t.out[Len(o) + 1] = last
      /\ \A i \in 1..Len(o) : t.out[i] = o[i]
  BY <1>1, <1>2, <1>3, AppendProperties
<1>9. t.out = Append(o, last)
  BY <1>1
<1> HIDE DEF o
<1>5. \A names : "dataRow" \notin names => (Has(o, names) => Has(s.out, names))
  BY <1>3 DEF Has
<1>6. Has(t.out, Ready) => Has(s.out, Ready)
  <2>1. Has(t.out, Ready) => Has(o, Ready) \/ last.is \in Ready
    BY <1>2, <1>3, <1>9, HasAppend
  <2>2. last.is \notin Ready /\ "dataRow" \notin Ready
    BY <1>1 DEF Final, Answer, Ready
  <2> QED BY <1>5, <2>1, <2>2
<1>7. ASSUME ~Has(s.out, Answer \cup {"error"})
      PROVE  AnswerLast(t.out) /\ (t.skipping <=> Has(t.out, {"error"}))
  <2>1. ~Has(o, Answer \cup {"error"})
    BY <1>5, <1>7 DEF Answer
  <2>2. \A i \in 1..Len(o) : o[i].is \notin Answer \cup {"error"}
    BY <2>1 DEF Has
  <2>3. \A i \in 1..Len(t.out) : i \in 1..Len(o) \/ i = Len(t.out)
    BY <1>3, <1>4
  <2>4. AnswerLast(t.out)
    BY <1>4, <2>2, <2>3 DEF AnswerLast
  <2>5. ~Has(o, {"error"})
    BY <2>2 DEF Has
  <2>6. Has(t.out, {"error"}) <=> Has(o, {"error"}) \/ last.is \in {"error"}
    BY <1>2, <1>3, <1>9, HasAppend
  <2>7. Has(t.out, {"error"}) <=> last.is = "error"
    BY <2>5, <2>6
  <2> QED BY <1>1, <2>4, <2>7
<1> QED BY <1>6, <1>7

LEMMA RestClean ==
    ASSUME Typed, Begun, srv.out # <<>> PROVE Clean(Rest, state)
  BY RestSession, RestHas DEF Begun, Clean, Ready

LEMMA SyncsClean ==
    ASSUME NEW s \in Session, NEW t, NEW st, NEW st2, Clean(s, st), Syncs(s, t)
    PROVE  Clean(t, st2)
<1>1. CASE s.up
  <2>1. s.syncs \in Nat /\ t.syncs = s.syncs + 1 /\ ~t.portal
    BY <1>1 DEF Syncs, Session
  <2> QED BY <2>1 DEF Clean
<1>2. CASE ~s.up
  BY <1>2 DEF Clean, Syncs
<1> QED BY <1>1, <1>2

LEMMA GetRowsClean ==
    ASSUME Typed, NEW s \in Session, NEW st, Clean(s, st), NEW r, NEW n \in Sizes, GetRows(s, r, n)
    PROVE  Clean(srv', "busy")
<1>1. /\ srv' = Executed(s, n) /\ Executed(s, n) \in Session /\ Executed(s, n).up = s.up
      /\ Executed(s, n).portal = s.portal /\ Executed(s, n).syncs = s.syncs
      /\ Executed(s, n) = s \/ Answered(s, Executed(s, n))
  BY Facts, ExecutedSession DEF GetRows, Clean
<1>2. Has(srv'.out, Ready) => Has(s.out, Ready)
  BY <1>1, AnsweredOut
<1> QED BY <1>1, <1>2 DEF Clean

LEMMA BegunNext ==
    ASSUME kind' = kind, Clean(srv', state'), state' # "initialized" PROVE Begun'
  BY DEF Begun, Clean, Ready

LEMMA BegunSame ==
    ASSUME Begun, UNCHANGED <<kind, state, srv, active>> PROVE Begun'
  BY DEF Begun

LEMMA BegunClean == ASSUME Begun PROVE Clean(srv, state)
  BY DEF Begun, Clean, Ready

LEMMA SubmitBegun == ASSUME Typed, Begun, Submit PROVE Begun'
<1>1. srv \in Session /\ srv.out = <<>> /\ ~srv.portal /\ state' = "submitted" /\ kind' = kind
      /\ srv.syncs = 0 /\ srv' = Prepared(srv)
  BY Facts DEF Submit, Begun
<1>2. PICK m \in Msg : /\ Prepared(srv).out = Append(srv.out, m)
                       /\ m.is \in {"error", "rowDescription", "noData"}
  BY <1>1, PreparedSession
<1>3. ~Has(srv'.out, Ready)
  <2>1. Len(srv.out) = 0 /\ ~Has(srv.out, Ready)
    BY <1>1, EmptySeq DEF Has
  <2>2. srv'.out = Append(srv.out, m) /\ srv.out \in Seq(Msg) /\ m.is \notin Ready
    BY <1>1, <1>2, Facts DEF Ready
  <2> QED BY <2>1, <2>2, HasAppend
<1>4. srv'.syncs = 0 /\ (srv'.portal => kind # "bad")
  BY <1>1, PreparedSession
<1> QED BY <1>1, <1>3, <1>4, BegunNext DEF Clean

LEMMA ReadBegun == ASSUME Typed, Begun, NEW n \in Sizes, Read(n) PROVE Begun'
<1>1. kind' = kind /\ active' = active
  BY DEF Read
<1>2. CASE state \in {"idle", "submitted"}
  <2>1. GetRows(srv, asked + 1, n)
    BY <1>2 DEF Read
  <2>2. Clean(srv', "busy") /\ state' = "busy"
    BY <2>1, Facts, BegunClean, GetRowsClean DEF GetRows
  <2> QED BY <1>1, <2>2, BegunNext
<1>3. CASE state \notin {"idle", "submitted"}
  <2>1. UNCHANGED <<state, srv>>
    BY <1>3 DEF Read, Typed, State
  <2> QED BY <1>1, <2>1, BegunSame
<1> QED BY <1>2, <1>3

LEMMA CloseBegun == ASSUME Typed, Begun, Close PROVE Begun'
<1>1. kind' = kind /\ active' = active
  BY DEF Close
<1>2. CASE state \in {"initialized", "done", "error"}
  <2>1. UNCHANGED <<state, srv>>
    BY <1>2 DEF Close
  <2> QED BY <1>1, <2>1, BegunSame
<1>3. CASE state \notin {"initialized", "done", "error"}
  <2>1. Syncs(srv, srv') /\ state' = "done"
    BY <1>3, Facts, ClosePortalLeaves DEF Close
  <2> QED BY <1>1, <2>1, Facts, BegunClean, SyncsClean, BegunNext
<1> QED BY <1>2, <1>3

LEMMA DeliverBegun == ASSUME Typed, Begun, Deliver PROVE Begun'
<1>1. srv.out # <<>> /\ kind' = kind /\ state # "initialized"
  BY DEF Deliver, Described, DataRow, PortalSuspended, CommandComplete, EmptyQuery,
         ErrorMessage, StrayError, ReadyForQuery, Receives, Untouched, Begun
<1>2. Rest \in Session /\ Clean(Rest, state)
  BY <1>1, RestSession, RestClean
<1>3. CASE Described
  <2>1. CASE queue = <<>>
    <3>1. state' = "idle" /\ srv' = Rest
      BY <1>3, <2>1 DEF Described, ShiftQueue
    <3> QED BY <1>1, <1>2, <3>1, BegunNext DEF Clean
  <2>2. CASE queue # <<>>
    <3>1. Head(queue) \in WaitsOf(asked)
      BY <2>2, HeadTailProperties DEF Typed, ReadTyped
    <3>2. Head(queue).size \in Sizes /\ GetRows(Rest, Head(queue).read, Head(queue).size)
      BY <1>3, <2>2, <3>1 DEF WaitsOf, Described, ShiftQueue
    <3>3. Clean(srv', "busy") /\ state' = "busy"
      BY <1>2, <3>2, GetRowsClean DEF GetRows
    <3> QED BY <1>1, <3>3, BegunNext
  <2> QED BY <2>1, <2>2
<1>4. CASE DataRow
  BY <1>1, <1>2, <1>4, BegunNext DEF DataRow
<1>5. CASE PortalSuspended
  <2>1. state' = "idle" /\ srv' = Rest
    BY <1>5 DEF PortalSuspended
  <2> QED BY <1>1, <1>2, <2>1, BegunNext DEF Clean
<1>6. CASE CommandComplete
  <2>1. ClosePortal(Rest)
    BY <1>6 DEF CommandComplete
  <2>2. CASE state \in {"done", "error"}
    <3>1. /\ state' = "done" /\ srv'.syncs = Rest.syncs /\ srv'.out = Rest.out
          /\ srv'.up = Rest.up /\ (srv'.portal => Rest.portal)
      BY <1>2, <2>1, <2>2, ClosePortalLeaves
    <3>2. Clean(srv', "done")
      BY <1>2, <2>2, <3>1 DEF Clean
    <3> QED BY <1>1, <3>1, <3>2, BegunNext
  <2>3. CASE state \notin {"done", "error"}
    <3>1. state' = "done" /\ Syncs(Rest, srv')
      BY <1>2, <2>1, <2>3, ClosePortalLeaves
    <3> QED BY <1>1, <1>2, <3>1, SyncsClean, BegunNext
  <2> QED BY <2>2, <2>3
<1>7. CASE EmptyQuery
  <2>1. state' = state /\ Syncs(Rest, srv')
    BY <1>2, <1>7, SyncedSyncs DEF EmptyQuery
  <2> QED BY <1>1, <1>2, <2>1, SyncsClean, BegunNext
<1>8. CASE ErrorMessage
  <2>1. /\ state \in {"done", "error"} => srv' = Rest /\ state' = state
        /\ state \notin {"done", "error"} => Syncs(Rest, srv') /\ state' = "error"
    BY <1>1, <1>2, <1>8, HandleErrorLeaves DEF ErrorMessage
  <2>2. CASE state \in {"done", "error"}
    BY <1>1, <1>2, <2>1, <2>2, BegunNext
  <2>3. CASE state \notin {"done", "error"}
    BY <1>1, <1>2, <2>1, <2>3, SyncsClean, BegunNext
  <2> QED BY <2>2, <2>3
<1>9. CASE ReadyForQuery
  <2>1. Has(srv.out, Ready)
    <3>1. Head(srv.out) = srv.out[1] /\ 1 \in 1..Len(srv.out)
      BY <1>1, RestSession
    <3> QED BY <1>9, <3>1 DEF ReadyForQuery, Has, Ready
  <2>2. Rest.syncs # 0 /\ Rest.syncs = srv.syncs
    BY <1>1, <2>1, RestSession DEF Begun, Ready
  <2>3. srv' = Rest /\ state' \in {state, "done"}
    BY <1>9 DEF ReadyForQuery
  <2> QED BY <1>1, <1>2, <2>2, <2>3, BegunNext DEF Clean
<1>10. CASE StrayError
  BY <1>1, <1>2, <1>10, BegunNext DEF StrayError
<1> QED BY <1>3, <1>4, <1>5, <1>6, <1>7, <1>8, <1>9, <1>10 DEF Deliver

LEMMA ConnectionLostBegun == ASSUME Typed, Begun, ConnectionLost PROVE Begun'
<1> DEFINE s == [srv EXCEPT !.out = <<>>, !.up = FALSE]
<1>1. s \in Session /\ ~s.up /\ s.out = <<>> /\ s.portal = srv.portal
  BY EmptySeq DEF Typed, Session
<1>2. Clean(s, state) /\ kind' = kind
  <2>1. ~Has(s.out, Ready)
    BY <1>1, EmptySeq DEF Has
  <2> QED BY <1>1, <2>1 DEF Clean, Begun, ConnectionLost
<1>3. CASE HandleError(s)
  <2>1. /\ state \in {"done", "error"} => srv' = s /\ state' = state
        /\ state \notin {"done", "error"} => Syncs(s, srv') /\ state' = "error"
    <3> HIDE DEF s
    <3> QED BY <1>1, <1>3, HandleErrorLeaves
  <2> HIDE DEF s
  <2>2. CASE state \in {"done", "error"}
    BY <1>2, <2>1, <2>2, BegunNext
  <2>3. CASE state \notin {"done", "error"}
    BY <1>1, <1>2, <2>1, <2>3, SyncsClean, BegunNext
  <2> QED BY <2>2, <2>3
<1>4. CASE state # "initialized" /\ srv' = s /\ state' = state
  <2> HIDE DEF s
  <2> QED BY <1>2, <1>4, BegunNext
<1> QED BY <1>3, <1>4 DEF ConnectionLost

LEMMA BegunStep == ASSUME Typed, Begun, [Next]_vars PROVE Begun'
<1>1. hwm \in Sizes
  BY DEF Typed
<1>2. CASE ProgramReads \/ StreamReads
  BY <1>1, <1>2, ReadBegun DEF ProgramReads, StreamReads
<1>3. CASE ProgramCloses \/ StreamEnds
  BY <1>3, CloseBegun DEF ProgramCloses, StreamEnds
<1>4. CASE Immediates \/ Take \/ UNCHANGED vars
  BY <1>4, BegunSame DEF Immediates, RunImmediate, Take, vars, cursorVars
<1>5. CASE CursorSteps
  BY <1>5, SubmitBegun, DeliverBegun, ConnectionLostBegun DEF CursorSteps
<1> QED BY <1>2, <1>3, <1>4, <1>5 DEF Next

-----------------------------------------------------------------------------
\* Every step keeps Once.

LEMMA AppendDoes ==
    ASSUME Typed, NEW do \in {"send", "end", "close"}, NEW things
    PROVE  LET more == Append(immediates, Immediate(do, NoRead)) IN
           /\ Does(more, things) <=> Does(immediates, things) /\ do \in things
           /\ Len(more) = Len(immediates) + 1 /\ more[Len(immediates) + 1].do = do
           /\ \A i \in 1..Len(immediates) : more[i] = immediates[i]
           /\ Len(immediates) \in Nat
<1> DEFINE more == Append(immediates, Immediate(do, NoRead))
<1>1. /\ Len(more) = Len(immediates) + 1 /\ Len(immediates) \in Nat
      /\ \A i \in 1..Len(immediates) : more[i] = immediates[i]
      /\ more[Len(immediates) + 1] = Immediate(do, NoRead)
  BY MoreTasks, AppendProperties, LenProperties DEF Typed, ReadTyped
<1>2. Immediate(do, NoRead).do = do
  BY DEF Immediate
<1> HIDE DEF more
<1>3. \A i \in 1..Len(more) : i \in 1..Len(immediates) \/ i = Len(immediates) + 1
  BY <1>1
<1>4. \A i \in 1..Len(immediates) : i \in 1..Len(more)
  BY <1>1
<1>5. Len(immediates) + 1 \in 1..Len(more)
  BY <1>1
<1>6. Does(more, things) <=> Does(immediates, things) /\ do \in things
  BY <1>1, <1>2, <1>3, <1>4, <1>5 DEF Does
<1> QED BY <1>1, <1>2, <1>6 DEF more

LEMMA TailDoes ==
    ASSUME Typed, immediates # <<>>, NEW things, Does(immediates, things)
    PROVE  Does(Tail(immediates), things) /\ Head(immediates).do \in things
<1>1. /\ Head(immediates) = immediates[1] /\ Len(immediates) \in Nat \ {0}
      /\ Len(Tail(immediates)) = Len(immediates) - 1
      /\ \A i \in 1..Len(Tail(immediates)) : Tail(immediates)[i] = immediates[i + 1]
  BY ImmediateHead
<1>2. \A i \in 1..Len(Tail(immediates)) : i + 1 \in 1..Len(immediates)
  BY <1>1
<1>3. 1 \in 1..Len(immediates)
  BY <1>1
<1> QED BY <1>1, <1>2, <1>3 DEF Does

LEMMA NothingHas == ASSUME NEW names PROVE ~Has(<<>>, names) /\ AnswerLast(<<>>)
<1>1. Len(<<>>) = 0
  BY EmptySeq
<1> QED BY <1>1 DEF Has, AnswerLast

\* A message that is no answer leaves the others in their order.
LEMMA RestRuns ==
    ASSUME Typed, srv.out # <<>>, AnswerLast(srv.out),
           Head(srv.out).is \notin Answer \cup {"error"}
    PROVE  /\ AnswerLast(Rest.out)
           /\ Has(Rest.out, {"error"}) <=> Has(srv.out, {"error"})
           /\ Has(Rest.out, Answer) => Has(srv.out, Answer)
<1>1. /\ Head(srv.out) = srv.out[1] /\ Len(srv.out) \in Nat \ {0}
      /\ Len(Rest.out) = Len(srv.out) - 1
      /\ \A i \in 1..Len(Rest.out) : Rest.out[i] = srv.out[i + 1]
  BY RestSession
<1>2. \A i \in 1..Len(Rest.out) : i + 1 \in 1..Len(srv.out)
  BY <1>1
<1>3. \A i \in 1..Len(srv.out) : i = 1 \/ (i - 1 \in 1..Len(Rest.out) /\ (i - 1) + 1 = i)
  BY <1>1
<1>4. \A i \in 1..Len(Rest.out) : i + 1 = Len(srv.out) => i = Len(Rest.out)
  BY <1>1
<1>5. AnswerLast(Rest.out)
  BY <1>1, <1>2, <1>4 DEF AnswerLast
<1>6. Has(srv.out, {"error"}) => Has(Rest.out, {"error"})
  BY <1>1, <1>3 DEF Has
<1> QED BY <1>5, <1>6, RestHas

\* An answer is the last message.
LEMMA RestEnds ==
    ASSUME Typed, srv.out # <<>>, AnswerLast(srv.out), Head(srv.out).is \in Answer \cup {"error"}
    PROVE  /\ Rest.out = <<>>
           /\ \A names : Has(srv.out, names) <=> Head(srv.out).is \in names
<1>1. /\ Head(srv.out) = srv.out[1] /\ Len(srv.out) \in Nat \ {0} /\ Rest.out \in Seq(Msg)
      /\ Len(Rest.out) = Len(srv.out) - 1
  BY RestSession
<1>2. 1 \in 1..Len(srv.out)
  BY <1>1
<1>3. Len(srv.out) = 1
  BY <1>1, <1>2 DEF AnswerLast
<1>4. Rest.out = <<>>
  BY <1>1, <1>3, EmptySeq
<1>5. \A i \in 1..Len(srv.out) : i = 1
  BY <1>3
<1> QED BY <1>1, <1>2, <1>4, <1>5 DEF Has

\* _getRows when no other request is under way.
LEMMA ExecutedRuns ==
    ASSUME Typed, NEW s \in Session, NEW r, NEW n \in Sizes, GetRows(s, r, n),
           s.portal => kind # "bad", AnswerLast(s.out), s.skipping <=> Has(s.out, {"error"}),
           ~Has(s.out, Answer)
    PROVE  /\ srv'.up = s.up /\ srv'.syncs = s.syncs
           /\ AnswerLast(srv'.out) /\ (srv'.skipping <=> Has(srv'.out, {"error"}))
<1>1. /\ srv' = Executed(s, n) /\ Executed(s, n) \in Session /\ Executed(s, n).up = s.up
      /\ Executed(s, n).syncs = s.syncs
      /\ IF s.skipping \/ ~s.up THEN Executed(s, n) = s ELSE Answered(s, Executed(s, n))
  BY Facts, ExecutedSession DEF GetRows
<1>2. CASE s.skipping \/ ~s.up
  BY <1>1, <1>2
<1>3. CASE ~(s.skipping \/ ~s.up)
  <2>1. ~Has(s.out, Answer \cup {"error"})
    BY <1>3 DEF Has
  <2> QED BY <1>1, <1>3, <2>1, AnsweredOut
<1> QED BY <1>2, <1>3

\* A Sync after the last answer.
LEMMA SyncOver ==
    ASSUME NEW s \in Session, s.out = <<>>, s.up, s.syncs = 0, Syncs(s, srv')
    PROVE  /\ srv'.syncs = 1
           /\ \A i \in 1..Len(srv'.out) : srv'.out[i].is = "readyForQuery"
<1>1. srv'.syncs = 1 /\ srv'.out = Append(<<>>, Message("readyForQuery", 0))
  BY DEF Syncs
<1>2. Message("readyForQuery", 0) \in Msg /\ Message("readyForQuery", 0).is = "readyForQuery"
  BY MsgPlain DEF Plain
<1>3. Len(srv'.out) = 1 /\ srv'.out[1] = Message("readyForQuery", 0)
  BY <1>1, <1>2, EmptySeq, AppendProperties
<1> QED BY <1>1, <1>2, <1>3

\* A lost connection carries no Sync.
LEMMA OnceDown ==
    ASSUME Once, ~srv'.up, srv'.syncs = srv.syncs, Unclosed' => Unclosed PROVE Once'
  BY DEF Once

LEMMA SubmitOnce == ASSUME Typed, Begun, Once, Submit PROVE Once'
<1>1. /\ srv.up /\ srv.out = <<>> /\ ~srv.skipping /\ srv.syncs = 0 /\ srv' = Prepared(srv)
      /\ state' = "submitted"
      /\ UNCHANGED <<immediates, asked, told, cb, queue, closing>>
  BY DEF Submit, Begun, readVars
<1> SUFFICES ASSUME Unclosed PROVE srv'.syncs = 0 /\ Running'
  BY <1>1 DEF Once, Unclosed
<1>2. PICK m \in Msg : /\ srv'.out = Append(srv.out, m)
                       /\ m.is \in {"error", "rowDescription", "noData"}
                       /\ srv'.skipping <=> (m.is = "error" \/ srv.skipping)
  BY <1>1, Facts, PreparedSession
<1>3. srv'.syncs = 0
  BY <1>1, Facts, PreparedSession
<1>4. Len(srv'.out) = 1 /\ srv'.out[1] = m
  BY <1>1, <1>2, EmptySeq, AppendProperties
<1>5. AnswerLast(srv'.out)
  BY <1>4 DEF AnswerLast
<1>6. \A names : Has(srv'.out, names) <=> m.is \in names
  BY <1>4 DEF Has
<1>7. srv'.skipping <=> Has(srv'.out, {"error"})
  BY <1>1, <1>2, <1>6
<1>8. ~Has(srv'.out, Answer)
  BY <1>2, <1>6 DEF Answer
<1>9. Running
  BY <1>1 DEF Once
<1>10. Waiting' = Waiting /\ Fetching' = Fetching
  BY <1>1 DEF Waiting, Fetching
<1> QED BY <1>1, <1>3, <1>5, <1>7, <1>8, <1>9, <1>10 DEF Running

LEMMA ReadOnce == ASSUME Typed, Begun, Once, NEW n \in Sizes, Read(n) PROVE Once'
<1>1. /\ asked' = asked + 1 /\ told' = told /\ closing' = closing /\ Unclosed
      /\ asked + 1 \in Reads /\ asked \in Nat
  BY Facts DEF Read, readVars, Unclosed, Reads
<1>2. ~Waiting /\ Waiting'
  <2>1. told[asked + 1] = "no"
    BY <1>1 DEF Typed, ReadTyped
  <2> QED BY <1>1, <2>1 DEF Waiting, Read
<1>3. srv.syncs \in {0, 1} /\ (srv.up => (srv.syncs = 0 => Running) /\ (srv.syncs = 1 => Over))
  BY <1>1 DEF Once
<1>4. srv'.up = srv.up /\ srv'.syncs = srv.syncs
  <2>1. CASE state \in {"idle", "submitted"}
    <3>1. srv' = Executed(srv, n)
      BY <2>1 DEF Read, GetRows
    <3> QED BY <3>1, Facts, ExecutedSession DEF Begun
  <2>2. CASE state \notin {"idle", "submitted"}
    BY <2>2 DEF Read, Typed, State
  <2> QED BY <2>1, <2>2
<1>5. ASSUME srv.up, srv.syncs = 0 PROVE Running'
  <2>1. /\ Running /\ queue = <<>> /\ state \notin {"busy", "done", "error"}
        /\ ~Has(srv.out, Answer) /\ Does(immediates, {"end", "close"})
    BY <1>2, <1>3, <1>5 DEF Running, Fetching
  <2>2. CASE state \in {"idle", "submitted"}
    <3>1. GetRows(srv, asked + 1, n) /\ UNCHANGED <<queue, immediates>>
      BY <2>2 DEF Read
    <3>2. AnswerLast(srv'.out) /\ (srv'.skipping <=> Has(srv'.out, {"error"}))
      BY <2>1, <3>1, Facts, ExecutedRuns DEF Begun, Running
    <3>3. Fetching' /\ state' = "busy"
      BY <1>1, <1>2, <2>1, <3>1 DEF Fetching, GetRows
    <3> QED BY <1>2, <2>1, <3>1, <3>2, <3>3 DEF Running
  <2>3. CASE state = "initialized"
    <3>1. queue' = Append(queue, [read |-> asked + 1, size |-> n])
          /\ UNCHANGED <<state, immediates, srv>>
      BY <2>3 DEF Read
    <3>2. Len(queue') = 1 /\ queue'[1].read = asked'
      BY <1>1, <2>1, <3>1, EmptySeq, AppendProperties
    <3> QED BY <1>2, <2>1, <3>1, <3>2 DEF Running
  <2> QED BY <2>1, <2>2, <2>3 DEF Typed, State
<1>6. ASSUME srv.up, srv.syncs = 1 PROVE Over'
  <2>1. Over /\ state \in {"done", "error"}
    BY <1>2, <1>3, <1>6 DEF Over
  <2>2. UNCHANGED <<state, srv>>
    BY <2>1 DEF Read
  <2> QED BY <2>1, <2>2 DEF Over
<1> QED BY <1>3, <1>4, <1>5, <1>6 DEF Once

\* close of a cursor that has no portal
LEMMA CloseOnce == ASSUME Typed, Once, Close PROVE Once'
<1> SUFFICES ASSUME Unclosed' PROVE Once'
  BY DEF Once
<1>1. /\ immediates' = Append(immediates, Immediate("close", NoRead))
      /\ UNCHANGED <<state, srv, queue, cb, asked, told>> /\ Unclosed
  BY DEF Close, Unclosed, readVars
<1>2. \A things : Does(immediates', things) <=> Does(immediates, things) /\ "close" \in things
  BY <1>1, AppendDoes
<1>3. /\ Len(immediates') = Len(immediates) + 1 /\ immediates'[Len(immediates) + 1].do = "close"
      /\ \A i \in 1..Len(immediates) : immediates'[i] = immediates[i]
      /\ Len(immediates) \in Nat
  BY <1>1, AppendDoes
<1>4. \A i \in 1..Len(immediates') : immediates'[i].do = "send" => i \in 1..Len(immediates)
  BY <1>3
<1>5. Waiting' = Waiting /\ Fetching' = Fetching
  BY <1>1 DEF Waiting, Fetching
<1>6. Over => Over'
  BY <1>1, <1>2, <1>5 DEF Over
<1>7. Running => Running'
  <2> SUFFICES ASSUME Running PROVE Running'
    OBVIOUS
  <2>1. \A i, j \in 1..Len(immediates') :
            immediates'[i].do = "send" /\ immediates'[j].do = "send" => i = j
    BY <1>3, <1>4 DEF Running
  <2>2. Does(immediates', {"send", "end", "close"})
        /\ (Does(immediates', {"end", "close"}) <=> Does(immediates, {"end", "close"}))
    BY <1>2 DEF Running
  <2> QED BY <1>1, <1>5, <2>1, <2>2 DEF Running
<1> QED BY <1>1, <1>6, <1>7 DEF Once

\* Whether a read waits does not change in these steps.
LEMMA SameWaiting ==
    ASSUME UNCHANGED <<asked, told>>
    PROVE  /\ Waiting' = Waiting
           /\ UNCHANGED <<cb, queue>> => Fetching' = Fetching
  BY DEF Waiting, Fetching

\* The connection that a message arrives on is not lost, and the messages before
\* ReadyForQuery are those of a cursor that runs.
LEMMA HeardRunning ==
    ASSUME Typed, Once, Unclosed, srv.out # <<>>, srv.up, Head(srv.out).is # "readyForQuery"
    PROVE  srv.syncs = 0 /\ Running
<1>1. Head(srv.out) = srv.out[1] /\ 1 \in 1..Len(srv.out)
  BY RestSession
<1>2. ~Over
  BY <1>1 DEF Over
<1> QED BY <1>2 DEF Once

LEMMA DescribedOnce == ASSUME Typed, Begun, Once, Described PROVE Once'
<1>1. /\ srv.out # <<>> /\ Head(srv.out).is \in {"rowDescription", "noData"}
      /\ ShiftQueue(Rest) /\ UNCHANGED <<asked, told, immediates, closing>>
  BY DEF Described, Receives, Untouched, readVars
<1>2. /\ Rest \in Session /\ Rest.up = srv.up /\ Rest.syncs = srv.syncs
      /\ Rest.skipping = srv.skipping /\ Rest.portal = srv.portal
  BY <1>1, RestSession
<1>3. queue # <<>> => /\ Head(queue) = queue[1] /\ Head(queue).size \in Sizes
                      /\ GetRows(Rest, Head(queue).read, Head(queue).size)
                      /\ queue' = Tail(queue) /\ Len(Tail(queue)) = Len(queue) - 1
                      /\ Tail(queue) \in Seq(WaitsOf(asked))
  <2> SUFFICES ASSUME queue # <<>>
               PROVE  /\ Head(queue) = queue[1] /\ Head(queue).size \in Sizes
                      /\ GetRows(Rest, Head(queue).read, Head(queue).size)
                      /\ queue' = Tail(queue) /\ Len(Tail(queue)) = Len(queue) - 1
                      /\ Tail(queue) \in Seq(WaitsOf(asked))
    OBVIOUS
  <2>1. Head(queue) \in WaitsOf(asked) /\ Len(Tail(queue)) = Len(queue) - 1
        /\ Tail(queue) \in Seq(WaitsOf(asked))
    BY HeadTailProperties DEF Typed, ReadTyped
  <2>2. Head(queue).size \in Sizes
    BY <2>1 DEF WaitsOf
  <2> QED BY <1>1, <2>1, <2>2 DEF ShiftQueue
<1>4. srv'.up = srv.up /\ srv'.syncs = srv.syncs
  <2>1. CASE queue = <<>>
    BY <1>1, <1>2, <2>1 DEF ShiftQueue
  <2>2. CASE queue # <<>>
    <3>1. srv' = Executed(Rest, Head(queue).size)
      BY <1>3, <2>2 DEF GetRows
    <3> QED BY <1>2, <1>3, <2>2, <3>1, Facts, ExecutedSession DEF Begun
  <2> QED BY <2>1, <2>2
<1>5. ASSUME srv.up, Unclosed PROVE srv'.syncs = 0 /\ Running'
  <2>1. srv.syncs = 0 /\ Running
    BY <1>1, <1>5, HeardRunning
  <2>2. /\ AnswerLast(Rest.out) /\ (Rest.skipping <=> Has(Rest.out, {"error"}))
        /\ (Has(Rest.out, Answer) => Has(srv.out, Answer))
    BY <1>1, <1>2, <2>1, RestRuns DEF Running, Answer
  <2>3. CASE queue = <<>>
    <3>1. state' = "idle" /\ srv' = Rest /\ UNCHANGED <<queue, cb>>
      BY <1>1, <2>3 DEF ShiftQueue
    <3>2. Waiting' = Waiting /\ Fetching' = Fetching
      BY <1>1, <3>1, SameWaiting
    <3> QED BY <1>1, <1>4, <2>1, <2>2, <3>1, <3>2 DEF Running
  <2>4. CASE queue # <<>>
    <3>1. ~Fetching /\ Waiting /\ Len(queue) = 1 /\ queue[1].read = asked
      BY <2>1, <2>4 DEF Running, Fetching
    <3>2. ~Has(srv.out, Answer) /\ Does(immediates, {"end", "close"})
      BY <2>1, <3>1 DEF Running
    <3>3. GetRows(Rest, asked, Head(queue).size) /\ queue' = <<>>
      BY <1>3, <2>4, <3>1, EmptySeq
    <3>4. AnswerLast(srv'.out) /\ (srv'.skipping <=> Has(srv'.out, {"error"}))
      BY <1>2, <1>3, <2>2, <2>4, <3>2, <3>3, ExecutedRuns DEF Begun
    <3>5. Fetching' /\ Waiting' /\ state' = "busy"
      BY <1>1, <3>1, <3>3 DEF Fetching, Waiting, GetRows
    <3> QED BY <1>1, <1>4, <2>1, <3>2, <3>3, <3>4, <3>5 DEF Running
  <2> QED BY <2>3, <2>4
<1> QED BY <1>1, <1>4, <1>5 DEF Once, Unclosed

LEMMA DataRowOnce == ASSUME Typed, Once, DataRow PROVE Once'
<1>1. /\ srv.out # <<>> /\ Head(srv.out).is = "dataRow" /\ srv' = Rest
      /\ UNCHANGED <<asked, told, immediates, closing, state, queue, cb>>
  BY DEF DataRow, Receives, Untouched, readVars
<1>2. Rest.up = srv.up /\ Rest.syncs = srv.syncs /\ Rest.skipping = srv.skipping
  BY <1>1, RestSession
<1>3. ASSUME srv.up, Unclosed PROVE srv'.syncs = 0 /\ Running'
  <2>1. srv.syncs = 0 /\ Running
    BY <1>1, <1>3, HeardRunning
  <2>2. /\ AnswerLast(Rest.out) /\ (Rest.skipping <=> Has(Rest.out, {"error"}))
        /\ (Has(Rest.out, Answer) => Has(srv.out, Answer))
    BY <1>1, <1>2, <2>1, RestRuns DEF Running, Answer
  <2>3. Waiting' = Waiting /\ Fetching' = Fetching
    BY <1>1, SameWaiting
  <2> QED BY <1>1, <1>2, <2>1, <2>2, <2>3 DEF Running
<1> QED BY <1>1, <1>2, <1>3 DEF Once, Unclosed

LEMMA PortalSuspendedOnce == ASSUME Typed, Once, PortalSuspended PROVE Once'
<1>1. /\ srv.out # <<>> /\ Head(srv.out).is = "portalSuspended" /\ srv' = Rest /\ state' = "idle"
      /\ immediates' = Append(immediates, Immediate("send", NoRead))
      /\ UNCHANGED <<asked, told, closing, queue, cb>>
  BY DEF PortalSuspended, Receives, Untouched, readVars
<1>2. Rest.up = srv.up /\ Rest.syncs = srv.syncs /\ Rest.skipping = srv.skipping
  BY <1>1, RestSession
<1>3. ASSUME srv.up, Unclosed PROVE srv'.syncs = 0 /\ Running'
  <2>1. srv.syncs = 0 /\ Running
    BY <1>1, <1>3, HeardRunning
  <2>2. Rest.out = <<>> /\ Has(srv.out, Answer) /\ ~Has(srv.out, {"error"})
    BY <1>1, <2>1, RestEnds DEF Running, Answer
  <2>3. ~srv'.skipping /\ AnswerLast(srv'.out) /\ \A names : ~Has(srv'.out, names)
    BY <1>1, <1>2, <2>1, <2>2, NothingHas DEF Running
  <2>4. Fetching' /\ Waiting' /\ queue' = <<>>
    BY <1>1, <2>1, <2>2 DEF Running, Fetching, Waiting
  <2>5. Does(immediates', {"send", "end", "close"})
    BY <1>1, <2>1, AppendDoes DEF Running
  <2>6. \A i \in 1..Len(immediates') : immediates'[i].do = "send" => i = Len(immediates')
    <3>1. Does(immediates, {"end", "close"})
      BY <2>1, <2>2 DEF Running
    <3>2. /\ Len(immediates') = Len(immediates) + 1 /\ Len(immediates) \in Nat
          /\ \A i \in 1..Len(immediates) : immediates'[i] = immediates[i]
      BY <1>1, AppendDoes
    <3>3. \A i \in 1..Len(immediates') : i \in 1..Len(immediates) \/ i = Len(immediates')
      BY <3>2
    <3> QED BY <3>1, <3>2, <3>3 DEF Does
  <2> QED BY <1>1, <1>2, <2>1, <2>3, <2>4, <2>5, <2>6 DEF Running
<1> QED BY <1>1, <1>2, <1>3 DEF Once, Unclosed

LEMMA CommandCompleteOnce == ASSUME Typed, Once, CommandComplete PROVE Once'
<1>1. /\ srv.out # <<>> /\ Head(srv.out).is = "commandComplete" /\ ClosePortal(Rest)
      /\ UNCHANGED <<asked, told, closing, immediates>>
  BY DEF CommandComplete, Receives, Untouched, readVars
<1>2. Rest \in Session /\ Rest.up = srv.up /\ Rest.syncs = srv.syncs
  BY <1>1, RestSession
<1>3. /\ state' = "done" /\ srv'.up = srv.up
      /\ state \in {"done", "error"} => srv'.syncs = srv.syncs
      /\ state \notin {"done", "error"} => Syncs(Rest, srv')
  BY <1>1, <1>2, ClosePortalLeaves
<1>4. CASE ~srv.up
  <2>1. srv'.syncs = srv.syncs
    BY <1>2, <1>3, <1>4 DEF Syncs
  <2> QED BY <1>1, <1>3, <1>4, <2>1, OnceDown DEF Unclosed
<1>5. CASE srv.up /\ Unclosed
  <2>1. srv.syncs = 0 /\ Running
    BY <1>1, <1>5, HeardRunning
  <2>2. Rest.out = <<>> /\ Syncs(Rest, srv')
    BY <1>1, <1>3, <2>1, RestEnds DEF Running, Answer
  <2>3. srv'.syncs = 1 /\ \A i \in 1..Len(srv'.out) : srv'.out[i].is = "readyForQuery"
    BY <1>2, <1>5, <2>1, <2>2, SyncOver
  <2> QED BY <1>3, <2>3 DEF Once, Over
<1> QED BY <1>1, <1>4, <1>5 DEF Once, Unclosed, Typed, Session

LEMMA EmptyQueryOnce == ASSUME Typed, Once, EmptyQuery PROVE Once'
<1>1. /\ srv.out # <<>> /\ Head(srv.out).is = "emptyQuery" /\ srv' = Synced(Rest)
      /\ UNCHANGED <<asked, told, closing, immediates, state>>
  BY DEF EmptyQuery, Receives, Untouched, readVars
<1>2. Rest \in Session /\ Rest.up = srv.up /\ Rest.syncs = srv.syncs /\ Syncs(Rest, srv')
  BY <1>1, RestSession, SyncedSyncs
<1>3. CASE ~srv.up
  <2>1. srv'.syncs = srv.syncs /\ ~srv'.up
    BY <1>2, <1>3 DEF Syncs
  <2> QED BY <1>1, <2>1, OnceDown DEF Unclosed
<1>4. CASE srv.up /\ Unclosed
  <2>1. srv.syncs = 0 /\ Running
    BY <1>1, <1>4, HeardRunning
  <2>2. Rest.out = <<>> /\ Has(srv.out, Answer)
    BY <1>1, <2>1, RestEnds DEF Running, Answer
  <2>3. srv'.syncs = 1 /\ \A i \in 1..Len(srv'.out) : srv'.out[i].is = "readyForQuery"
    BY <1>2, <1>4, <2>1, <2>2, SyncOver
  <2>4. Waiting' /\ Does(immediates', {"end", "close"})
    BY <1>1, <2>1, <2>2 DEF Running, Fetching, Waiting
  <2> QED BY <2>3, <2>4 DEF Once, Over
<1> QED BY <1>1, <1>3, <1>4 DEF Once, Unclosed, Typed, Session

LEMMA ErrorMessageOnce == ASSUME Typed, Begun, Once, ErrorMessage PROVE Once'
<1>1. /\ srv.out # <<>> /\ Head(srv.out).is = "error" /\ HandleError(Rest)
      /\ state # "initialized"
  BY DEF ErrorMessage, Receives, Begun
<1>2. Rest \in Session /\ Rest.up = srv.up /\ Rest.syncs = srv.syncs
  BY <1>1, RestSession
<1>3. /\ srv'.up = srv.up /\ closing' \in {closing, "soon"}
      /\ closing' # closing => closing = "no"
      /\ state \in {"done", "error"} => srv' = Rest /\ state' = state
      /\ state \notin {"done", "error"} => Syncs(Rest, srv') /\ state' = "error"
  BY <1>1, <1>2, HandleErrorLeaves
<1>4. Unclosed' => Unclosed
  BY <1>3 DEF Unclosed
<1>5. CASE ~srv.up
  <2>1. srv'.syncs = srv.syncs
    BY <1>2, <1>3, <1>5 DEF Syncs
  <2> QED BY <1>3, <1>4, <1>5, <2>1, OnceDown
<1>6. CASE srv.up /\ Unclosed
  <2>1. srv.syncs = 0 /\ Running
    BY <1>1, <1>6, HeardRunning
  <2>2. Rest.out = <<>> /\ Syncs(Rest, srv') /\ state' = "error"
    BY <1>1, <1>3, <2>1, RestEnds DEF Running
  <2>3. srv'.syncs = 1 /\ \A i \in 1..Len(srv'.out) : srv'.out[i].is = "readyForQuery"
    BY <1>2, <1>6, <2>1, <2>2, SyncOver
  <2> QED BY <2>2, <2>3 DEF Once, Over
<1> QED BY <1>4, <1>5, <1>6 DEF Once, Typed, Session

LEMMA StrayErrorOnce == ASSUME Typed, Begun, Once, Attended, StrayError PROVE Once'
<1>1. /\ srv.out # <<>> /\ Head(srv.out).is = "error" /\ ~active /\ srv' = Rest
      /\ UNCHANGED <<state, closing>>
  BY DEF StrayError
<1>2. srv'.up = srv.up /\ srv'.syncs = srv.syncs
  BY <1>1, RestSession
<1>3. state \in {"done", "error"}
  BY <1>1 DEF Attended, Begun
<1>4. ~(srv.up /\ Unclosed)
  BY <1>1, <1>3, HeardRunning DEF Running
<1>5. srv.syncs \in Nat
  BY DEF Typed, Session
<1> QED BY <1>1, <1>2, <1>4, <1>5 DEF Once, Unclosed

LEMMA ReadyForQueryOnce == ASSUME Typed, Begun, Once, ReadyForQuery PROVE Once'
<1>1. /\ srv.out # <<>> /\ Head(srv.out).is = "readyForQuery" /\ srv' = Rest
      /\ UNCHANGED <<asked, told>> /\ (Unclosed' => Unclosed)
      /\ state' = "done" \/ UNCHANGED <<state, immediates>>
  BY DEF ReadyForQuery, Untouched, readVars, Unclosed
<1>2. /\ srv'.up = srv.up /\ srv'.syncs = srv.syncs /\ Len(srv.out) \in Nat \ {0}
      /\ Head(srv.out) = srv.out[1] /\ Len(Rest.out) = Len(srv.out) - 1
      /\ \A i \in 1..Len(Rest.out) : Rest.out[i] = srv.out[i + 1]
  BY <1>1, RestSession
<1>3. srv.syncs # 0
  <2>1. 1 \in 1..Len(srv.out)
    BY <1>2
  <2>2. Has(srv.out, {"readyForQuery"})
    BY <1>1, <1>2, <2>1 DEF Has
  <2> QED BY <2>2 DEF Begun
<1>4. ASSUME Over PROVE Over'
  <2>1. \A i \in 1..Len(Rest.out) : i + 1 \in 1..Len(srv.out)
    BY <1>2
  <2>2. \A i \in 1..Len(srv'.out) : srv'.out[i].is = "readyForQuery"
    BY <1>1, <1>2, <1>4, <2>1 DEF Over
  <2>3. Waiting' = Waiting
    BY <1>1, SameWaiting
  <2> QED BY <1>1, <1>4, <2>2, <2>3 DEF Over
<1> QED BY <1>1, <1>2, <1>3, <1>4 DEF Once

LEMMA ConnectionLostOnce == ASSUME Typed, Once, ConnectionLost PROVE Once'
<1> DEFINE s == [srv EXCEPT !.out = <<>>, !.up = FALSE]
<1>1. s \in Session /\ ~s.up /\ s.syncs = srv.syncs
  BY EmptySeq DEF Typed, Session
<1>2. CASE HandleError(s)
  <2> HIDE DEF s
  <2>1. /\ closing' \in {closing, "soon"} /\ (closing' # closing => closing = "no")
        /\ state \in {"done", "error"} => srv' = s
        /\ state \notin {"done", "error"} => Syncs(s, srv')
    BY <1>1, <1>2, HandleErrorLeaves
  <2>2. ~srv'.up /\ srv'.syncs = srv.syncs
    BY <1>1, <2>1 DEF Syncs
  <2> QED BY <2>1, <2>2, OnceDown DEF Unclosed
<1>3. CASE srv' = s /\ UNCHANGED closing
  <2> HIDE DEF s
  <2> QED BY <1>1, <1>3, OnceDown DEF Unclosed
<1> QED BY <1>2, <1>3 DEF ConnectionLost

\* A setImmediate callback tells the read that waits, and then nothing is on its
\* way for it.
LEMMA ImmediatesOnce == ASSUME Typed, Once, RunImmediate PROVE Once'
<1>1. /\ immediates # <<>> /\ UNCHANGED <<state, queue, asked, srv>>
      /\ SendRows \/ AnswerDone \/ AnswerError \/ EmitEnd \/ CloseSoon
  BY DEF RunImmediate
<1>2. Unclosed' => Unclosed /\ ~CloseSoon
  BY <1>1 DEF Unclosed, SendRows, AnswerDone, AnswerError, ErrorCallbacks, EmitEnd, CloseSoon
<1>3. /\ Head(immediates) = immediates[1] /\ Len(immediates) \in Nat \ {0}
      /\ Len(Tail(immediates)) = Len(immediates) - 1
      /\ \A i \in 1..Len(Tail(immediates)) : Tail(immediates)[i] = immediates[i + 1]
  BY <1>1, ImmediateHead
<1>4. \A i \in 1..Len(Tail(immediates)) : i + 1 \in 1..Len(immediates)
  BY <1>3
<1>5. CASE EmitEnd
  <2>1. immediates' = Tail(immediates) /\ UNCHANGED <<cb, told>> /\ Head(immediates).do = "end"
    BY <1>5 DEF EmitEnd, readVars
  <2>2. Waiting' = Waiting /\ Fetching' = Fetching
    BY <1>1, <2>1, SameWaiting
  <2>3. Over => Over'
    BY <1>1, <2>1, <2>2, TailDoes DEF Over
  <2>4. ASSUME Running PROVE Running'
    <3>1. Does(immediates', {"send", "end", "close"})
      BY <1>1, <2>1, <2>4, TailDoes DEF Running
    <3>2. Does(immediates, {"end", "close"}) => Does(immediates', {"end", "close"})
      BY <1>1, <2>1, TailDoes
    <3>3. \A i, j \in 1..Len(immediates') :
             immediates'[i].do = "send" /\ immediates'[j].do = "send" => i = j
      <4> SUFFICES ASSUME NEW i \in 1..Len(immediates'), NEW j \in 1..Len(immediates'),
                          immediates'[i].do = "send", immediates'[j].do = "send"
                   PROVE  i = j
        OBVIOUS
      <4>1. immediates[i + 1].do = "send" /\ immediates[j + 1].do = "send"
            /\ i + 1 \in 1..Len(immediates) /\ j + 1 \in 1..Len(immediates)
        BY <1>3, <1>4, <2>1
      <4>2. i + 1 = j + 1
        BY <2>4, <4>1 DEF Running
      <4> QED BY <4>2
    <3> QED BY <1>1, <2>2, <2>4, <3>1, <3>2, <3>3 DEF Running
  <2> QED BY <1>1, <1>2, <2>3, <2>4 DEF Once
<1>6. CASE SendRows
  <2>1. immediates' = Tail(immediates) /\ Head(immediates).do = "send"
    BY <1>6 DEF SendRows
  <2>2. ~Does(immediates, {"end", "close"})
    BY <1>1, <2>1, TailDoes
  <2>3. Over => Over'
    BY <1>1, <2>2 DEF Over
  <2>4. ASSUME Running PROVE Running'
    <3>1. Fetching /\ state # "busy" /\ ~Has(srv.out, Answer)
      BY <2>2, <2>4 DEF Running
    <3>2. ~Waiting'
      <4>1. cb = asked /\ asked > 0 /\ asked \in Reads
        BY <3>1, Facts DEF Fetching, Waiting, Typed, ReadTyped, Reads
      <4>2. Tells(asked, "rows", rows)
        BY <1>6, <4>1 DEF SendRows, NoRead
      <4>3. told'[asked] = "rows"
        BY <4>1, <4>2 DEF Tells, Typed, ReadTyped
      <4> QED BY <1>1, <4>3 DEF Waiting
    <3>3. \A i \in 1..Len(immediates') : immediates'[i].do \in {"end", "close"}
      <4> SUFFICES ASSUME NEW i \in 1..Len(immediates') PROVE immediates'[i].do \in {"end", "close"}
        OBVIOUS
      <4>1. immediates'[i] = immediates[i + 1] /\ i + 1 \in 1..Len(immediates) /\ i + 1 # 1
            /\ 1 \in 1..Len(immediates)
        BY <1>3, <1>4, <2>1
      <4>2. immediates[i + 1].do # "send"
        BY <1>3, <2>1, <2>4, <4>1 DEF Running
      <4> QED BY <2>4, <4>1, <4>2 DEF Running, Does
    <3>4. /\ Does(immediates', {"end", "close"}) /\ Does(immediates', {"send", "end", "close"})
          /\ \A i \in 1..Len(immediates') : immediates'[i].do # "send"
      BY <3>3 DEF Does
    <3>5. queue = <<>>
      BY <3>1 DEF Fetching
    <3> QED BY <1>1, <2>4, <3>1, <3>2, <3>4, <3>5 DEF Running
  <2> QED BY <1>1, <1>2, <2>3, <2>4 DEF Once
<1>7. CASE AnswerDone \/ AnswerError
  <2>1. Head(immediates).do \in {"done", "error"}
    BY <1>7 DEF AnswerDone, AnswerError
  <2>2. ~Does(immediates, {"end", "close"}) /\ ~Does(immediates, {"send", "end", "close"})
    BY <1>1, <2>1, TailDoes
  <2>3. ~Running /\ (Over => Over')
    BY <1>1, <2>2 DEF Running, Over
  <2> QED BY <1>1, <1>2, <2>3 DEF Once
<1>8. CASE CloseSoon
  BY <1>2, <1>8 DEF Once
<1> QED BY <1>1, <1>5, <1>6, <1>7, <1>8

LEMMA SameOnce ==
    ASSUME Once, UNCHANGED <<closing, srv, state, immediates, asked, told, cb, queue>>
    PROVE  Once'
  BY DEF Once, Unclosed, Running, Over, Waiting, Fetching

\* A cursor that is not active does not go on.
LEMMA AttendedStep == ASSUME Typed, Begun, Attended, [Next]_vars PROVE Attended'
<1>1. ASSUME NEW s, HandlesError(s, QueuedReads) PROVE state' \in {"done", "error"}
  BY <1>1 DEF HandlesError
<1>2. CASE ProgramReads \/ StreamReads
  BY <1>2 DEF ProgramReads, StreamReads, Read, GetRows, Attended
<1>3. CASE ProgramCloses \/ StreamEnds
  BY <1>3 DEF ProgramCloses, StreamEnds, Close, ClosePortal, Attended
<1>4. CASE Immediates \/ Take \/ UNCHANGED vars
  BY <1>4 DEF Immediates, RunImmediate, Take, vars, cursorVars, Attended
<1>5. CASE Submit
  BY <1>5 DEF Submit, Attended
<1>6. CASE Described \/ DataRow \/ PortalSuspended \/ CommandComplete \/ EmptyQuery \/ StrayError
  BY <1>6 DEF Described, DataRow, PortalSuspended, CommandComplete, EmptyQuery, StrayError, Receives,
              Attended
<1>7. CASE ErrorMessage
  BY <1>1, <1>7 DEF ErrorMessage, HandleError, Attended
<1>8. CASE ReadyForQuery
  BY <1>8 DEF ReadyForQuery, Attended
<1>9. CASE ConnectionLost
  BY <1>1, <1>9 DEF ConnectionLost, HandleError, Attended
<1> QED BY <1>2, <1>3, <1>4, <1>5, <1>6, <1>7, <1>8, <1>9 DEF Next, CursorSteps, Deliver

LEMMA OnceStep == ASSUME Typed, Begun, Once, Attended, [Next]_vars PROVE Once'
<1>1. hwm \in Sizes
  BY DEF Typed
<1>2. CASE ProgramReads \/ StreamReads
  BY <1>1, <1>2, ReadOnce DEF ProgramReads, StreamReads
<1>3. CASE ProgramCloses \/ StreamEnds
  BY <1>3, CloseOnce DEF ProgramCloses, StreamEnds
<1>4. CASE Immediates
  BY <1>4, ImmediatesOnce DEF Immediates
<1>5. CASE Take \/ UNCHANGED vars
  BY <1>5, SameOnce DEF Take, vars, cursorVars, readVars
<1>6. CASE CursorSteps
  BY <1>6, SubmitOnce, DescribedOnce, DataRowOnce, PortalSuspendedOnce, CommandCompleteOnce,
     EmptyQueryOnce, ErrorMessageOnce, StrayErrorOnce, ReadyForQueryOnce, ConnectionLostOnce
  DEF CursorSteps, Deliver
<1> QED BY <1>2, <1>3, <1>4, <1>5, <1>6 DEF Next

LEMMA StreamInvInit == StreamInit => StreamInv
<1> SUFFICES ASSUME StreamInit PROVE StreamInv
  OBVIOUS
<1>1. /\ state = "initialized" /\ srv.out = <<>> /\ ~srv.skipping /\ ~srv.portal
      /\ srv.syncs = 0 /\ ~active /\ immediates = <<>> /\ queue = <<>> /\ asked = 0
  BY DEF StreamInit, Init
<1>2. AnswerLast(srv.out) /\ \A names : ~Has(srv.out, names) /\ Does(immediates, names)
  BY <1>1, NothingHas, EmptySeq DEF Does
<1>3. Len(immediates) = 0
  BY <1>1, EmptySeq
<1>4. Running
  BY <1>1, <1>2, <1>3 DEF Running
<1> QED BY <1>1, <1>2, <1>4, TypedInit DEF StreamInv, Begun, Once, Attended

-----------------------------------------------------------------------------
\* The rows in s: c of them, after b messages, from row p + 1.
RowsAt(s, b, c, p) ==
    /\ b + c <= Len(s)
    /\ \A i \in 1..Len(s) : s[i].is = "dataRow" <=> i \in (b + 1)..(b + c)
    /\ \A i \in (b + 1)..(b + c) : s[i].row = p + (i - b)

LEMMA NoRowsAt ==
    ASSUME NEW s \in Seq(Msg), NEW p \in Nat
    PROVE  /\ ~Has(s, {"dataRow"}) => RowsAt(s, 0, 0, p)
           /\ \A b \in Nat : RowsAt(s, b, 0, p) => ~Has(s, {"dataRow"})
<1>1. Len(s) \in Nat
  BY LenProperties
<1>2. \A b \in Nat : (b + 1)..(b + 0) = {}
  OBVIOUS
<1> QED BY <1>1, <1>2 DEF RowsAt, Has

LEMMA RowsAtTail ==
    ASSUME NEW s \in Seq(Msg), s # <<>>, NEW b \in Nat, NEW c \in Nat, NEW p \in Nat,
           RowsAt(s, b, c, p)
    PROVE  /\ Head(s).is # "dataRow" => \E d \in Nat : RowsAt(Tail(s), d, c, p)
           /\ Head(s).is = "dataRow" =>
                 c \in Nat \ {0} /\ Head(s).row = p + 1 /\ RowsAt(Tail(s), 0, c - 1, p + 1)
<1>1. /\ Head(s) = s[1] /\ Len(s) \in Nat \ {0} /\ Len(Tail(s)) = Len(s) - 1
      /\ \A i \in 1..Len(Tail(s)) : Tail(s)[i] = s[i + 1]
  BY HeadTailProperties, EmptySeq
<1> DEFINE t == Tail(s)
<1>2. Len(t) = Len(s) - 1 /\ \A i \in 1..Len(t) : t[i] = s[i + 1] /\ i + 1 \in 1..Len(s)
  BY <1>1
<1> HIDE DEF t
<1>3. ASSUME s[1].is # "dataRow" PROVE \E d \in Nat : RowsAt(t, d, c, p)
  <2>1. CASE c = 0
    <3>1. \A i \in 1..Len(s) : s[i].is # "dataRow"
      BY <2>1 DEF RowsAt
    <3>2. RowsAt(t, 0, c, p)
      BY <1>1, <1>2, <2>1, <3>1 DEF RowsAt
    <3> QED BY <3>2
  <2>2. CASE c # 0
    <3>1. b # 0
      <4>1. 1 \in 1..Len(s)
        BY <1>1
      <4> QED BY <1>3, <2>2, <4>1 DEF RowsAt
    <3>2. PICK d \in Nat : b = d + 1
      BY <3>1
    <3>3. d + c <= Len(t)
      BY <1>1, <1>2, <3>2 DEF RowsAt
    <3>4. \A i \in 1..Len(t) : t[i].is = "dataRow" <=> i \in (d + 1)..(d + c)
      BY <1>1, <1>2, <3>2 DEF RowsAt
    <3>5. ASSUME NEW i \in (d + 1)..(d + c) PROVE t[i].row = p + (i - d)
      <4>1. i \in 1..Len(t) /\ i + 1 \in (b + 1)..(b + c)
        BY <1>1, <1>2, <3>2, <3>3
      <4>2. t[i] = s[i + 1] /\ s[i + 1].row = p + ((i + 1) - b)
        BY <1>2, <4>1 DEF RowsAt
      <4> QED BY <3>2, <4>1, <4>2
    <3> QED BY <3>3, <3>4, <3>5 DEF RowsAt
  <2> QED BY <2>1, <2>2
<1>4. ASSUME s[1].is = "dataRow"
      PROVE  c \in Nat \ {0} /\ s[1].row = p + 1 /\ RowsAt(t, 0, c - 1, p + 1)
  <2>1. 1 \in 1..Len(s)
    BY <1>1
  <2>2. 1 \in (b + 1)..(b + c)
    BY <1>4, <2>1 DEF RowsAt
  <2>3. b = 0 /\ c \in Nat \ {0} /\ s[1].row = p + (1 - b)
    BY <2>2 DEF RowsAt
  <2>4. 0 + (c - 1) <= Len(t)
    BY <1>1, <1>2, <2>3 DEF RowsAt
  <2>5. \A i \in 1..Len(t) : t[i].is = "dataRow" <=> i \in (0 + 1)..(0 + (c - 1))
    BY <1>1, <1>2, <2>3 DEF RowsAt
  <2>6. ASSUME NEW i \in (0 + 1)..(0 + (c - 1)) PROVE t[i].row = (p + 1) + (i - 0)
    <3>1. i \in 1..Len(t) /\ i + 1 \in (b + 1)..(b + c)
      BY <1>1, <1>2, <2>3, <2>4
    <3>2. t[i] = s[i + 1] /\ s[i + 1].row = p + ((i + 1) - b)
      BY <1>2, <3>1 DEF RowsAt
    <3> QED BY <2>3, <3>1, <3>2
  <2>7. RowsAt(t, 0, c - 1, p + 1)
    BY <2>4, <2>5, <2>6 DEF RowsAt
  <2> QED BY <2>3, <2>7
<1> QED BY <1>1, <1>3, <1>4 DEF t

LEMMA RowsAtAppend ==
    ASSUME NEW s \in Seq(Msg), NEW b \in Nat, NEW c \in Nat, NEW p \in Nat, NEW m \in Msg,
           RowsAt(s, b, c, p), m.is # "dataRow"
    PROVE  RowsAt(Append(s, m), b, c, p)
<1> DEFINE t == Append(s, m)
<1>1. /\ Len(t) = Len(s) + 1 /\ Len(s) \in Nat /\ t[Len(s) + 1] = m
      /\ \A i \in 1..Len(s) : t[i] = s[i]
  BY AppendProperties, LenProperties
<1> HIDE DEF t
<1>2. b + c <= Len(t) /\ \A i \in (b + 1)..(b + c) : i \in 1..Len(s)
  BY <1>1 DEF RowsAt
<1>3. \A i \in 1..Len(t) : i \in 1..Len(s) \/ i = Len(s) + 1
  BY <1>1
<1>4. Len(s) + 1 \notin (b + 1)..(b + c)
  BY <1>1 DEF RowsAt
<1>5. RowsAt(t, b, c, p)
  BY <1>1, <1>2, <1>3, <1>4 DEF RowsAt
<1> QED BY <1>5 DEF t

LEMMA RowsAtPage ==
    ASSUME NEW s \in Seq(Msg), ~Has(s, {"dataRow"}), NEW k \in Nat, NEW p \in Nat,
           NEW page \in Seq(Msg), page = [i \in 1..k |-> Message("dataRow", p + i)],
           NEW m \in Msg, m.is # "dataRow"
    PROVE  RowsAt(Append(s \o page, m), Len(s), k, p)
<1> DEFINE t == s \o page
<1>1. /\ Len(s) \in Nat /\ Len(page) = k
      /\ \A i \in 1..k : page[i].is = "dataRow" /\ page[i].row = p + i
  BY LenProperties DEF Message
<1>2. /\ t \in Seq(Msg) /\ Len(t) = Len(s) + k
      /\ \A i \in 1..Len(t) : t[i] = IF i <= Len(s) THEN s[i] ELSE page[i - Len(s)]
  BY <1>1, ConcatProperties
<1> HIDE DEF t
<1>3. ASSUME NEW i \in 1..Len(t), i <= Len(s) PROVE i \in 1..Len(s) /\ t[i].is # "dataRow"
  <2>1. i \in 1..Len(s) /\ t[i] = s[i]
    BY <1>1, <1>2, <1>3
  <2> QED BY <2>1 DEF Has
<1>4. \A i \in 1..Len(t) : ~(i <= Len(s)) => i - Len(s) \in 1..k /\ t[i] = page[i - Len(s)]
  BY <1>1, <1>2
<1>5. ASSUME NEW i \in 1..Len(t) PROVE t[i].is = "dataRow" <=> i \in (Len(s) + 1)..(Len(s) + k)
  <2>1. CASE i <= Len(s)
    BY <1>1, <1>3, <2>1
  <2>2. CASE ~(i <= Len(s))
    <3>1. i - Len(s) \in 1..k /\ t[i] = page[i - Len(s)]
      BY <1>4, <2>2
    <3>2. t[i].is = "dataRow"
      BY <1>1, <3>1
    <3>3. i \in (Len(s) + 1)..(Len(s) + k)
      BY <1>1, <3>1
    <3> QED BY <3>2, <3>3
  <2> QED BY <2>1, <2>2
<1>6. ASSUME NEW i \in (Len(s) + 1)..(Len(s) + k) PROVE t[i].row = p + (i - Len(s))
  <2>1. i \in 1..Len(t) /\ ~(i <= Len(s))
    BY <1>1, <1>2
  <2> QED BY <1>1, <1>4, <2>1
<1>7. RowsAt(t, Len(s), k, p)
  BY <1>1, <1>2, <1>5, <1>6 DEF RowsAt
<1> QED BY <1>1, <1>2, <1>7, RowsAtAppend DEF t

\* Besides rows a page has the message that ends it.
LEMMA PageHas ==
    ASSUME NEW s \in Session, NEW t, NEW k \in Nat, NEW what \in Plain,
           [i \in 1..k |-> Message("dataRow", s.sent + i)] \in Seq(Msg),
           t.out = Append(s.out \o [i \in 1..k |-> Message("dataRow", s.sent + i)],
                          Message(what, 0))
    PROVE  \A names : "dataRow" \notin names =>
              (Has(t.out, names) <=> Has(s.out, names) \/ what \in names)
<1> DEFINE page == [i \in 1..k |-> Message("dataRow", s.sent + i)]
           o == s.out \o page
<1>1. page \in Seq(Msg) /\ Len(page) = k /\ \A i \in 1..k : page[i].is = "dataRow"
  BY DEF Message
<1>2. s.out \in Seq(Msg) /\ Message(what, 0) \in Msg /\ Message(what, 0).is = what
  BY MsgPlain DEF Session
<1>3. t.out = Append(o, Message(what, 0))
  OBVIOUS
<1> HIDE DEF page
<1>4. /\ o \in Seq(Msg) /\ Len(o) = Len(s.out) + k /\ Len(s.out) \in Nat
      /\ \A i \in 1..Len(o) : o[i] = IF i <= Len(s.out) THEN s.out[i] ELSE page[i - Len(s.out)]
  <2>1. Len(page) \in Nat /\ Len(s.out) \in Nat
    BY <1>1, <1>2
  <2>2. /\ o \in Seq(Msg) /\ Len(o) = Len(s.out) + Len(page)
        /\ \A i \in 1..Len(s.out) + Len(page) :
              o[i] = IF i <= Len(s.out) THEN s.out[i] ELSE page[i - Len(s.out)]
    BY <1>1, <1>2, ConcatProperties
  <2> QED BY <1>1, <2>1, <2>2
<1> HIDE DEF o
<1>5. \A i \in 1..Len(o) : i <= Len(s.out) => i \in 1..Len(s.out)
  BY <1>4
<1>6. \A i \in 1..Len(o) : ~(i <= Len(s.out)) => i - Len(s.out) \in 1..k
  BY <1>4
<1>7. \A i \in 1..Len(s.out) : i \in 1..Len(o) /\ o[i] = s.out[i]
  BY <1>4
<1>8. ASSUME NEW names, "dataRow" \notin names PROVE Has(o, names) <=> Has(s.out, names)
  BY <1>1, <1>4, <1>5, <1>6, <1>7, <1>8 DEF Has
<1>9. \A names : Has(t.out, names) <=> Has(o, names) \/ what \in names
  <2>1. \A names : Has(Append(o, Message(what, 0)), names)
                     <=> Has(o, names) \/ Message(what, 0).is \in names
    BY <1>2, <1>4, HasAppend
  <2> QED BY <1>2, <1>3, <2>1
<1> QED BY <1>8, <1>9

\* What the answer to a request for n rows brings when g rows were sent before it.
Brings(s, n, g, t) ==
    \E b, c \in Nat :
       /\ RowsAt(t.out, b, c, g) /\ c <= n
       /\ s.sent = g => t.sent = g + c
       /\ ~Has(s.out, Answer) => /\ Has(t.out, {"commandComplete"}) => t.sent = total
                                 /\ Has(t.out, {"portalSuspended"}) => c = n
                                 /\ c > 0 => Has(t.out, Answer)

LEMMA ExecutedRows ==
    ASSUME total \in Nat, kind = "rows", NEW s \in Session, NEW n \in Nat \ {0},
           ~Has(s.out, {"dataRow"}), NEW g \in Nat, s.up /\ s.portal => s.sent = g
    PROVE  Brings(s, n, g, Executed(s, n))
<1> DEFINE t == Executed(s, n)
<1>1. s.out \in Seq(Msg) /\ s.sent \in Nat /\ RowsAt(s.out, 0, 0, g)
  BY NoRowsAt DEF Session
<1>2. CASE s.skipping \/ ~s.up
  <2>1. t = s
    BY <1>2 DEF Executed
  <2>2. ~Has(s.out, Answer) => ~Has(s.out, {"commandComplete"}) /\ ~Has(s.out, {"portalSuspended"})
    BY DEF Has, Answer
  <2> HIDE DEF t
  <2>3. Brings(s, n, g, t)
    BY <1>1, <2>1, <2>2 DEF Brings
  <2> QED BY <2>3 DEF t
<1>3. CASE ~(s.skipping \/ ~s.up) /\ ~s.portal
  <2>1. /\ Says(s, "error") \in Session
        /\ Says(s, "error") = [s EXCEPT !.out = Append(s.out, Message("error", 0))]
    BY SaysSession DEF Plain
  <2>2. t.out = Append(s.out, Message("error", 0)) /\ t.sent = s.sent
    BY <1>3, <2>1 DEF Executed, Rejects, Session
  <2>3. Message("error", 0) \in Msg /\ Message("error", 0).is = "error"
    BY MsgPlain DEF Plain
  <2> HIDE DEF t
  <2>4. RowsAt(t.out, 0, 0, g)
    BY <1>1, <2>2, <2>3, RowsAtAppend
  <2>5. \A names : "error" \notin names => (Has(t.out, names) <=> Has(s.out, names))
    BY <1>1, <2>2, <2>3, HasAppend
  <2>6. ~Has(s.out, Answer) => ~Has(t.out, {"commandComplete"}) /\ ~Has(t.out, {"portalSuspended"})
    BY <2>5 DEF Has, Answer
  <2>7. Brings(s, n, g, t)
    BY <1>1, <2>2, <2>4, <2>6 DEF Brings
  <2> QED BY <2>7 DEF t
<1>4. CASE ~(s.skipping \/ ~s.up) /\ s.portal
  <2>1. t = Page(s, n) /\ s.sent = g
    BY <1>4 DEF Executed
  <2>2. PageOf(s, n, t)
    BY <1>4, <2>1, PageSession
  <2> HIDE DEF t
  <2>3. PICK k \in 0..n :
         /\ t.sent = s.sent + k /\ (k # n => t.sent = total)
         /\ [i \in 1..k |-> Message("dataRow", s.sent + i)] \in Seq(Msg)
         /\ t.out = Append(s.out \o [i \in 1..k |-> Message("dataRow", s.sent + i)],
                         Message(IF k = n THEN "portalSuspended" ELSE "commandComplete", 0))
    BY <2>2 DEF PageOf
  <2> DEFINE what == IF k = n THEN "portalSuspended" ELSE "commandComplete"
             page == [i \in 1..k |-> Message("dataRow", g + i)]
             o == s.out \o page
  <2>4. what \in Plain \cap Answer /\ Message(what, 0) \in Msg /\ Message(what, 0).is = what
    BY MsgPlain DEF Plain, Answer
  <2>5. page \in Seq(Msg) /\ t.out = Append(o, Message(what, 0)) /\ t.sent = g + k
    BY <2>1, <2>3
  <2>6. k \in Nat /\ k <= n
    BY <2>3
  <2>7. what = "portalSuspended" => k = n
    OBVIOUS
  <2>8. what = "commandComplete" => t.sent = total
    BY <2>3
  <2> HIDE DEF what
  <2>9. RowsAt(t.out, Len(s.out), k, g)
    BY <1>1, <2>4, <2>5, <2>6, RowsAtPage DEF Plain
  <2>10. \A names : "dataRow" \notin names =>
            (Has(t.out, names) <=> Has(s.out, names) \/ what \in names)
    BY <2>1, <2>3, <2>4, <2>6, PageHas DEF what
  <2>13. ~Has(s.out, Answer) =>
            /\ Has(t.out, {"commandComplete"}) => t.sent = total
            /\ Has(t.out, {"portalSuspended"}) => k = n
    <3>1. ~Has(s.out, Answer) =>
             ~Has(s.out, {"commandComplete"}) /\ ~Has(s.out, {"portalSuspended"})
      BY DEF Has, Answer
    <3> QED BY <2>7, <2>8, <2>10, <3>1
  <2>14. Has(t.out, Answer)
    BY <2>4, <2>10 DEF Answer
  <2>15. Brings(s, n, g, t)
    <3>1. Len(s.out) \in Nat
      BY <1>1, LenProperties
    <3> QED BY <2>5, <2>6, <2>9, <2>13, <2>14, <3>1 DEF Brings
  <2> QED BY <2>15 DEF t
<1> QED BY <1>2, <1>3, <1>4

LEMMA ExecutedNotEmpty ==
    ASSUME total \in Nat, kind = "rows", NEW s \in Session, NEW n \in Nat \ {0},
           ~Has(s.out, {"emptyQuery"})
    PROVE  ~Has(Executed(s, n).out, {"emptyQuery"})
<1>1. CASE s.skipping \/ ~s.up
  BY <1>1 DEF Executed
<1>2. CASE ~(s.skipping \/ ~s.up) /\ ~s.portal
  <2>1. /\ Says(s, "error") \in Session
        /\ Says(s, "error") = [s EXCEPT !.out = Append(s.out, Message("error", 0))]
    BY SaysSession DEF Plain
  <2>2. Executed(s, n).out = Append(s.out, Message("error", 0)) /\ s.out \in Seq(Msg)
    BY <1>2, <2>1 DEF Executed, Rejects, Session
  <2>3. Message("error", 0) \in Msg /\ Message("error", 0).is = "error"
    BY MsgPlain DEF Plain
  <2> QED BY <2>2, <2>3, HasAppend
<1>3. CASE ~(s.skipping \/ ~s.up) /\ s.portal
  <2> DEFINE t == Executed(s, n)
  <2>1. t = Page(s, n)
    BY <1>3 DEF Executed
  <2>2. PageOf(s, n, t)
    BY <1>3, <2>1, PageSession
  <2> HIDE DEF t
  <2>3. PICK k \in 0..n :
         /\ [i \in 1..k |-> Message("dataRow", s.sent + i)] \in Seq(Msg)
         /\ t.out = Append(s.out \o [i \in 1..k |-> Message("dataRow", s.sent + i)],
                         Message(IF k = n THEN "portalSuspended" ELSE "commandComplete", 0))
    BY <2>2 DEF PageOf
  <2>4. PICK what \in Plain : /\ what = IF k = n THEN "portalSuspended" ELSE "commandComplete"
                              /\ what # "emptyQuery"
    BY DEF Plain
  <2>5. k \in Nat /\ "dataRow" \notin {"emptyQuery"} /\ what \notin {"emptyQuery"}
        /\ t.out = Append(s.out \o [i \in 1..k |-> Message("dataRow", s.sent + i)],
                          Message(what, 0))
    BY <2>3, <2>4
  <2>6. Has(t.out, {"emptyQuery"}) <=> Has(s.out, {"emptyQuery"}) \/ what \in {"emptyQuery"}
    BY <2>3, <2>5, PageHas
  <2>7. ~Has(t.out, {"emptyQuery"})
    BY <2>5, <2>6
  <2> QED BY <2>7 DEF t
<1> QED BY <1>1, <1>2, <1>3

-----------------------------------------------------------------------------
\* Where the read that was asked last is: in _cb, in _queue or with a setImmediate
\* callback, and nowhere once it was told.

Unread(tk) == \A i \in 1..Len(tk) : tk[i].read = NoRead
OnePlace ==
    /\ cb # NoRead => cb = asked /\ told[asked] = "no" /\ queue = <<>> /\ Unread(immediates)
    /\ queue # <<>> => /\ Len(queue) = 1 /\ queue[1].read = asked
                       /\ told[asked] = "no" /\ Unread(immediates)
    /\ \A i \in 1..Len(immediates) :
          immediates[i].read # NoRead => immediates[i].read = asked /\ told[asked] = "no"
    /\ \A i, j \in 1..Len(immediates) :
          immediates[i].read # NoRead /\ immediates[j].read # NoRead => i = j
    /\ \A r \in Reads : told[r] = "no" => given[r] = <<>>

\* The tasks that have a read move by d places at most.
LEMMA PlaceKept ==
    ASSUME OnePlace, UNCHANGED <<asked, told, given, queue>>, cb' \in {cb, NoRead},
           NEW d \in {0, 1}, Len(immediates') \in Nat,
           \A i \in 1..Len(immediates') : immediates'[i].read # NoRead =>
              i + d \in 1..Len(immediates) /\ immediates'[i] = immediates[i + d]
    PROVE  OnePlace'
<1>1. Unread(immediates) => Unread(immediates')
  BY DEF Unread
<1>2. \A i \in 1..Len(immediates') :
          immediates'[i].read # NoRead => immediates'[i].read = asked /\ told[asked] = "no"
  BY DEF OnePlace
<1>3. ASSUME NEW i \in 1..Len(immediates'), NEW j \in 1..Len(immediates'),
             immediates'[i].read # NoRead, immediates'[j].read # NoRead
      PROVE  i = j
  <2>1. i + d = j + d
    BY <1>3 DEF OnePlace
  <2> QED BY <2>1
<1> QED BY <1>1, <1>2, <1>3 DEF OnePlace

LEMMA PlaceCleared ==
    ASSUME OnePlace, Unread(immediates'), cb' = NoRead, queue' = <<>>, asked' = asked,
           \A r \in Reads : told'[r] = "no" => told[r] = "no" /\ given'[r] = given[r]
    PROVE  OnePlace'
  BY DEF OnePlace, Unread

LEMMA TaskAppended ==
    ASSUME Typed, NEW do \in {"send", "end", "close"},
           immediates' = Append(immediates, Immediate(do, NoRead))
    PROVE  /\ Len(immediates') \in Nat
           /\ \A i \in 1..Len(immediates') : immediates'[i].read # NoRead =>
                 i + 0 \in 1..Len(immediates) /\ immediates'[i] = immediates[i + 0]
<1>1. /\ Len(immediates') = Len(immediates) + 1 /\ Len(immediates) \in Nat
      /\ \A i \in 1..Len(immediates) : immediates'[i] = immediates[i]
      /\ immediates'[Len(immediates) + 1] = Immediate(do, NoRead)
  BY MoreTasks, AppendProperties, LenProperties DEF Typed, ReadTyped
<1>2. Immediate(do, NoRead).read = NoRead
  BY DEF Immediate
<1>3. \A i \in 1..Len(immediates') :
         i \in 1..Len(immediates) \/ immediates'[i] = Immediate(do, NoRead)
  BY <1>1
<1> QED BY <1>1, <1>2, <1>3

LEMMA TaskTaken ==
    ASSUME Typed, immediates # <<>>, immediates' = Tail(immediates)
    PROVE  /\ Len(immediates') \in Nat
           /\ \A i \in 1..Len(immediates') :
                 i + 1 \in 1..Len(immediates) /\ immediates'[i] = immediates[i + 1]
  BY ImmediateHead

\* A program that reads was told of all its reads before.
LEMMA ReadFree ==
    ASSUME Typed, OnePlace, NEW n \in Sizes, Read(n)
    PROVE  /\ cb = NoRead /\ queue = <<>> /\ Unread(immediates) /\ ~Waiting /\ closing = "no"
           /\ asked' = asked + 1 /\ UNCHANGED <<told, given>> /\ asked + 1 \in Reads
           /\ asked \in Nat /\ told[asked + 1] = "no"
<1>1. /\ asked' = asked + 1 /\ UNCHANGED <<told, given>> /\ asked + 1 \in Reads /\ asked \in Nat
      /\ (asked > 0 => told[asked] # "no") /\ closing = "no"
  BY Facts DEF Read, readVars, Reads
<1>2. told[asked + 1] = "no"
  BY <1>1 DEF Typed, ReadTyped
<1>3. CASE asked = 0
  <2>1. queue \in Seq(WaitsOf(0)) /\ immediates \in Seq(TasksOf(0)) /\ cb = NoRead
    BY <1>3 DEF Typed, ReadTyped, NoRead
  <2>2. WaitsOf(0) = {} /\ \A t \in TasksOf(0) : t.read = NoRead
    BY DEF WaitsOf, TasksOf
  <2>3. queue # <<>> => Head(queue) \in WaitsOf(0)
    BY <2>1, HeadTailProperties
  <2>4. \A i \in 1..Len(immediates) : immediates[i] \in TasksOf(0)
    BY <2>1, ElementOfSeq
  <2> QED BY <1>1, <1>2, <1>3, <2>1, <2>2, <2>3, <2>4 DEF Unread, Waiting
<1>4. CASE asked > 0
  BY <1>1, <1>2, <1>4 DEF OnePlace, Unread, Waiting
<1> QED BY <1>1, <1>3, <1>4

LEMMA ReadPlace == ASSUME Typed, OnePlace, NEW n \in Sizes, Read(n) PROVE OnePlace'
<1>1. /\ asked' = asked + 1 /\ UNCHANGED <<told, given>> /\ asked + 1 \in Reads /\ asked \in Nat
  BY ReadFree
<1>2. told[asked + 1] = "no"
  BY ReadFree
<1>4. cb = NoRead /\ queue = <<>> /\ Unread(immediates)
  BY ReadFree
<1>5. \A r \in Reads : told[r] = "no" => given[r] = <<>>
  BY DEF OnePlace
<1>6. CASE state \in {"idle", "submitted"}
  <2>1. cb' = asked + 1 /\ UNCHANGED <<queue, immediates>>
    BY <1>6 DEF Read, GetRows
  <2> QED BY <1>1, <1>2, <1>4, <1>5, <2>1 DEF OnePlace, Unread
<1>7. CASE state \in {"busy", "initialized"}
  <2>1. queue' = Append(queue, [read |-> asked + 1, size |-> n]) /\ UNCHANGED <<cb, immediates>>
    BY <1>7 DEF Read
  <2>2. Len(queue') = 1 /\ queue'[1].read = asked + 1
    BY <1>4, <2>1, EmptySeq, AppendProperties
  <2> QED BY <1>1, <1>2, <1>4, <1>5, <2>1, <2>2 DEF OnePlace, Unread
<1>8. CASE state \in {"error", "done"}
  <2>1. immediates' = Append(immediates, Immediate(state, asked + 1)) /\ UNCHANGED <<cb, queue>>
    BY <1>8 DEF Read
  <2>2. /\ Immediate(state, asked + 1) \in TasksOf(asked + 1)
        /\ Immediate(state, asked + 1).read = asked + 1
    BY <1>1, <1>8 DEF TasksOf, Immediate
  <2>3. /\ Len(immediates') = Len(immediates) + 1 /\ Len(immediates) \in Nat
        /\ \A i \in 1..Len(immediates) : immediates'[i] = immediates[i]
        /\ immediates'[Len(immediates) + 1].read = asked + 1
    BY <2>1, <2>2, MoreReads, AppendProperties, LenProperties
  <2>4. \A i \in 1..Len(immediates') : i \in 1..Len(immediates) \/ i = Len(immediates) + 1
    BY <2>3
  <2>5. \A i \in 1..Len(immediates') :
           /\ immediates'[i].read # NoRead => i = Len(immediates) + 1
           /\ immediates'[i].read \in {NoRead, asked + 1}
    BY <1>4, <2>3, <2>4 DEF Unread
  <2> QED BY <1>1, <1>2, <1>4, <1>5, <2>1, <2>5 DEF OnePlace
<1> QED BY <1>6, <1>7, <1>8 DEF Typed, State

LEMMA ClosePlace == ASSUME Typed, OnePlace, Close PROVE OnePlace'
<1>1. UNCHANGED <<asked, told, given, queue, cb>>
  BY DEF Close, readVars
<1>2. CASE state \in {"initialized", "done", "error"}
  <2>1. immediates' = Append(immediates, Immediate("close", NoRead))
    BY <1>2 DEF Close
  <2> QED BY <1>1, <2>1, TaskAppended, PlaceKept
<1>3. CASE state \notin {"initialized", "done", "error"}
  <2>1. immediates' = immediates
    BY <1>3 DEF Close
  <2> QED BY <1>1, <2>1 DEF OnePlace, Unread
<1> QED BY <1>2, <1>3

LEMMA SamePlace ==
    ASSUME OnePlace, UNCHANGED <<asked, told, given, queue, cb, immediates>> PROVE OnePlace'
  BY DEF OnePlace, Unread

LEMMA HandleErrorPlace ==
    ASSUME Typed, OnePlace, NEW s \in Session, HandleError(s), asked' = asked PROVE OnePlace'
<1>1. CASE state \in {"done", "error"}
  BY <1>1, SamePlace DEF HandleError, HandlesError
<1>2. CASE state \notin {"done", "error"}
  <2>1. /\ cb' = NoRead /\ queue' = <<>> /\ given' = given
        /\ told' = [r \in Reads |-> IF r \in QueuedReads THEN "error" ELSE told[r]]
        /\ ErrorCallbacks(QueuedReads, immediates)
    BY <1>2 DEF HandleError, HandlesError
  <2>2. CASE queue = <<>>
    <3>1. QueuedReads = {}
      BY <2>2, EmptySeq DEF QueuedReads
    <3>2. told' = told /\ immediates' = immediates
      BY <2>1, <3>1 DEF ErrorCallbacks, Typed, ReadTyped
    <3> QED BY <2>1, <2>2, <3>2 DEF OnePlace, Unread
  <2>3. CASE queue # <<>>
    <3>1. Unread(immediates)
      BY <2>3 DEF OnePlace
    <3>2. immediates' = immediates \/ immediates' = Append(immediates, Immediate("close", NoRead))
      BY <2>1 DEF ErrorCallbacks
    <3>3. Unread(immediates')
      BY <3>1, <3>2, TaskAppended DEF Unread
    <3> QED BY <2>1, <3>3, PlaceCleared
  <2> QED BY <2>2, <2>3
<1> QED BY <1>1, <1>2

LEMMA DeliverPlace == ASSUME Typed, OnePlace, Deliver PROVE OnePlace'
<1>1. srv.out # <<>> /\ asked' = asked
  BY DEF Deliver, Described, DataRow, PortalSuspended, CommandComplete, EmptyQuery,
         ErrorMessage, StrayError, ReadyForQuery, Receives, Untouched
<1>2. CASE Described
  <2>1. UNCHANGED <<told, given, immediates>> /\ ShiftQueue(Rest)
    BY <1>2 DEF Described, readVars
  <2>2. CASE queue = <<>>
    BY <1>1, <2>1, <2>2, SamePlace DEF ShiftQueue
  <2>3. CASE queue # <<>>
    <3>1. queue' = Tail(queue) /\ cb' = queue[1].read
      BY <2>1, <2>3, HeadTailProperties DEF ShiftQueue, GetRows, Typed, ReadTyped
    <3>2. Len(queue) = 1 /\ queue[1].read = asked /\ told[asked] = "no" /\ Unread(immediates)
      BY <2>3 DEF OnePlace
    <3>3. queue' = <<>>
      BY <2>3, <3>1, <3>2, HeadTailProperties, EmptySeq DEF Typed, ReadTyped
    <3> QED BY <1>1, <2>1, <3>1, <3>2, <3>3 DEF OnePlace, Unread
  <2> QED BY <2>2, <2>3
<1>3. CASE DataRow \/ CommandComplete \/ EmptyQuery
  BY <1>1, <1>3, SamePlace DEF DataRow, CommandComplete, EmptyQuery, readVars
<1>4. CASE PortalSuspended
  BY <1>1, <1>4, TaskAppended, PlaceKept DEF PortalSuspended, readVars
<1>5. CASE ErrorMessage
  BY <1>1, <1>5, RestSession, HandleErrorPlace DEF ErrorMessage
<1>7. CASE StrayError
  BY <1>1, <1>7, SamePlace DEF StrayError, readVars
<1>6. CASE ReadyForQuery
  <2>1. UNCHANGED <<told, given, queue, cb>>
    BY <1>6 DEF ReadyForQuery, readVars
  <2>2. CASE ~active
    BY <1>1, <1>6, <2>1, <2>2, SamePlace DEF ReadyForQuery
  <2>3. CASE active
    <3> DEFINE two == <<Immediate("send", NoRead), Immediate("end", NoRead)>>
    <3>1. immediates' = immediates \o two
      BY <1>6, <2>3 DEF ReadyForQuery
    <3>2. two \in Seq(TasksOf(asked)) /\ immediates \in Seq(TasksOf(asked)) /\ Len(two) = 2
          /\ two[1].read = NoRead /\ two[2].read = NoRead
      BY MoreTasks DEF Typed, ReadTyped, Immediate
    <3> HIDE DEF two
    <3>3. /\ Len(immediates') = Len(immediates) + 2 /\ Len(immediates) \in Nat
          /\ \A i \in 1..Len(immediates') :
                immediates'[i] = IF i <= Len(immediates) THEN immediates[i]
                                                         ELSE two[i - Len(immediates)]
      <4>1. /\ Len(immediates \o two) = Len(immediates) + Len(two)
            /\ \A i \in 1..Len(immediates) + Len(two) :
                  (immediates \o two)[i] = IF i <= Len(immediates) THEN immediates[i]
                                                                 ELSE two[i - Len(immediates)]
        BY <3>2, ConcatProperties
      <4> QED BY <3>1, <3>2, <4>1, LenProperties
    <3>4. \A i \in 1..Len(immediates') : ~(i <= Len(immediates)) => i - Len(immediates) \in {1, 2}
      BY <3>3
    <3>5. \A i \in 1..Len(immediates') :
             immediates'[i].read # NoRead =>
                i + 0 \in 1..Len(immediates) /\ immediates'[i] = immediates[i + 0]
      BY <3>2, <3>3, <3>4
    <3> QED BY <1>1, <2>1, <3>3, <3>5, PlaceKept
  <2> QED BY <2>2, <2>3
<1> QED BY <1>2, <1>3, <1>4, <1>5, <1>6, <1>7 DEF Deliver

LEMMA ConnectionLostPlace == ASSUME Typed, OnePlace, ConnectionLost PROVE OnePlace'
<1> DEFINE s == [srv EXCEPT !.out = <<>>, !.up = FALSE]
<1>1. s \in Session /\ asked' = asked
  BY EmptySeq DEF Typed, Session, ConnectionLost
<1>2. HandleError(s) \/ UNCHANGED <<told, given, queue, cb, immediates>>
  BY DEF ConnectionLost, readVars
<1> HIDE DEF s
<1> QED BY <1>1, <1>2, HandleErrorPlace, SamePlace

LEMMA RunImmediatePlace == ASSUME Typed, OnePlace, RunImmediate PROVE OnePlace'
<1>1. /\ immediates # <<>> /\ UNCHANGED <<asked, queue>> /\ asked \in Nat
      /\ SendRows \/ AnswerDone \/ AnswerError \/ EmitEnd \/ CloseSoon
  BY Facts DEF RunImmediate
<1>2. /\ Head(immediates) \in TasksOf(asked) /\ Tail(immediates) \in Seq(TasksOf(asked))
      /\ Head(immediates) = immediates[1] /\ Len(immediates) \in Nat \ {0}
      /\ Len(Tail(immediates)) = Len(immediates) - 1 /\ Len(Tail(immediates)) \in Nat
      /\ \A i \in 1..Len(Tail(immediates)) : Tail(immediates)[i] = immediates[i + 1]
  BY <1>1, ImmediateHead
<1>3. \A i \in 1..Len(Tail(immediates)) : i + 1 \in 1..Len(immediates) /\ i + 1 # 1
  BY <1>2
<1>4. 1 \in 1..Len(immediates)
  BY <1>2
<1>5. ASSUME immediates' = Tail(immediates), UNCHANGED <<told, given>>, cb' \in {cb, NoRead}
      PROVE  OnePlace'
  BY <1>1, <1>2, <1>3, <1>5, PlaceKept
<1>6. CASE EmitEnd \/ CloseSoon
  BY <1>5, <1>6 DEF EmitEnd, CloseSoon, readVars
<1>7. CASE SendRows
  <2>1. immediates' = Tail(immediates) /\ cb' = NoRead
    BY <1>7 DEF SendRows
  <2>2. CASE cb = NoRead
    BY <1>5, <1>7, <2>1, <2>2 DEF SendRows, readVars
  <2>3. CASE cb # NoRead
    <3>1. queue = <<>> /\ Unread(immediates) /\ Tells(cb, "rows", rows)
      BY <1>7, <2>3 DEF OnePlace, SendRows
    <3>2. Unread(immediates')
      BY <1>2, <1>3, <2>1, <3>1 DEF Unread
    <3>3. \A r \in Reads : told'[r] = "no" => told[r] = "no" /\ given'[r] = given[r]
      BY <3>1 DEF Tells, Typed, ReadTyped
    <3> QED BY <1>1, <2>1, <3>1, <3>2, <3>3, PlaceCleared
  <2> QED BY <2>2, <2>3
<1>8. CASE AnswerDone \/ AnswerError
  <2> DEFINE r == Head(immediates).read
  <2>1. r \in 1..asked /\ r # NoRead
    <3>1. Head(immediates).do \in {"done", "error"}
      BY <1>8 DEF AnswerDone, AnswerError
    <3> QED BY <1>1, <1>2, <3>1 DEF TasksOf, NoRead
  <2>2. cb = NoRead /\ queue = <<>> /\ Unread(Tail(immediates))
    <3>1. ~Unread(immediates)
      BY <1>2, <1>4, <2>1 DEF Unread
    <3>2. \A i \in 1..Len(Tail(immediates)) : Tail(immediates)[i].read = NoRead
      BY <1>2, <1>3, <1>4, <2>1 DEF OnePlace
    <3> QED BY <3>1, <3>2 DEF OnePlace, Unread
  <2>3. cb' = cb /\ (Tells(r, "rows", <<>>) \/ Tells(r, "error", <<>>))
    BY <1>8 DEF AnswerDone, AnswerError
  <2>4. Unread(immediates')
    <3>1. Append(Tail(immediates), Immediate("close", NoRead)) \in Seq(TasksOf(asked))
          /\ Immediate("close", NoRead).read = NoRead
      BY <1>2, MoreTasks, AppendProperties DEF Immediate
    <3>2. \/ immediates' = Tail(immediates)
          \/ immediates' = Append(Tail(immediates), Immediate("close", NoRead))
      BY <1>8 DEF AnswerDone, AnswerError, ErrorCallbacks
    <3> DEFINE more == Append(Tail(immediates), Immediate("close", NoRead))
    <3>3. /\ Len(more) = Len(Tail(immediates)) + 1
          /\ \A i \in 1..Len(Tail(immediates)) : more[i] = Tail(immediates)[i]
          /\ more[Len(Tail(immediates)) + 1].read = NoRead
      BY <1>2, <3>1, AppendProperties, MoreTasks
    <3>4. Unread(more)
      <4> HIDE DEF more
      <4>1. PICK l \in Nat : l = Len(Tail(immediates))
        BY <1>2
      <4>2. Len(more) = l + 1
        BY <3>3, <4>1
      <4>3. \A i \in 1..Len(more) : i \in 1..l \/ i = l + 1
        BY <4>2
      <4> QED BY <2>2, <3>3, <4>1, <4>3 DEF Unread
    <3> QED BY <2>2, <3>2, <3>4
  <2>5. \A q \in Reads : told'[q] = "no" => told[q] = "no" /\ given'[q] = given[q]
    <3> HIDE DEF r
    <3> QED BY <2>3 DEF Tells, Typed, ReadTyped
  <2> QED BY <1>1, <2>2, <2>3, <2>4, <2>5, PlaceCleared
<1> QED BY <1>1, <1>6, <1>7, <1>8

LEMMA PlaceStep == ASSUME Typed, OnePlace, [Next]_vars PROVE OnePlace'
<1>1. hwm \in Sizes
  BY DEF Typed
<1>2. CASE ProgramReads \/ StreamReads
  BY <1>1, <1>2, ReadPlace DEF ProgramReads, StreamReads
<1>3. CASE ProgramCloses \/ StreamEnds
  BY <1>3, ClosePlace DEF ProgramCloses, StreamEnds
<1>4. CASE Immediates
  BY <1>4, RunImmediatePlace DEF Immediates
<1>5. CASE Take \/ UNCHANGED vars
  BY <1>5, SamePlace DEF Take, vars, cursorVars
<1>6. CASE CursorSteps
  BY <1>6, SamePlace, DeliverPlace, ConnectionLostPlace DEF CursorSteps, Submit, readVars
<1> QED BY <1>2, <1>3, <1>4, <1>5, <1>6 DEF Next

-----------------------------------------------------------------------------
\* The cursor and its connection: what is lost or taken off the client is done or
\* has failed.

Alive ==
    /\ ~srv.up => srv.out = <<>> /\ state \in {"done", "error"}
    /\ ~active => state \in {"initialized", "done", "error"}
    /\ state = "error" => ~active /\ cb = NoRead /\ queue = <<>>
    /\ kind = "rows" => ~Has(srv.out, {"emptyQuery"})

LEMMA SyncsHas ==
    ASSUME NEW s \in Session, NEW t, Syncs(s, t), NEW names, "readyForQuery" \notin names
    PROVE  Has(t.out, names) <=> Has(s.out, names)
<1>1. s.out \in Seq(Msg) /\ Message("readyForQuery", 0) \in Msg
      /\ Message("readyForQuery", 0).is = "readyForQuery"
  BY MsgPlain DEF Session, Plain
<1>2. CASE s.up
  <2>1. t.out = Append(s.out, Message("readyForQuery", 0))
    BY <1>2 DEF Syncs
  <2> QED BY <1>1, <2>1, HasAppend
<1>3. CASE ~s.up
  BY <1>3 DEF Syncs
<1> QED BY <1>2, <1>3

LEMMA SubmitAlive == ASSUME Typed, Begun, Alive, Submit PROVE Alive'
<1>1. /\ srv.up /\ srv' = Prepared(srv) /\ state' = "submitted" /\ active' /\ kind' = kind
  BY DEF Submit
<1>2. PICK m \in Msg : /\ srv'.out = Append(srv.out, m)
                       /\ m.is \in {"error", "rowDescription", "noData"}
  BY <1>1, Facts, PreparedSession
<1>3. srv'.up
  BY <1>1, Facts, PreparedSession
<1>4. Has(srv'.out, {"emptyQuery"}) <=> Has(srv.out, {"emptyQuery"})
  BY <1>2, Facts, HasAppend
<1> QED BY <1>1, <1>3, <1>4 DEF Alive

\* A request leaves the connection and what kinds of answers there are.
LEMMA GetRowsAlive ==
    ASSUME Typed, Alive, NEW s \in Session, s.up, s.portal => kind # "bad", kind' = kind,
           kind = "rows" => ~Has(s.out, {"emptyQuery"}), active, active' = active,
           NEW r, NEW n \in Sizes, GetRows(s, r, n)
    PROVE  Alive'
<1>1. srv' = Executed(s, n) /\ state' = "busy"
  BY DEF GetRows
<1>2. srv'.up
  BY <1>1, Facts, ExecutedSession
<1>3. kind = "rows" => ~Has(srv'.out, {"emptyQuery"})
  BY <1>1, Facts, ExecutedNotEmpty
<1> QED BY <1>1, <1>2, <1>3 DEF Alive

LEMMA ReadAlive == ASSUME Typed, Begun, Alive, NEW n \in Sizes, Read(n) PROVE Alive'
<1>1. kind' = kind /\ active' = active
  BY DEF Read
<1>2. CASE state \in {"idle", "submitted"}
  <2>1. GetRows(srv, asked + 1, n) /\ srv.up /\ active
    BY <1>2 DEF Read, Alive
  <2> QED BY <1>1, <2>1, Facts, GetRowsAlive DEF Alive, Begun
<1>3. CASE state \in {"busy", "initialized"}
  <2>1. UNCHANGED <<state, srv>>
    BY <1>3 DEF Read
  <2> QED BY <1>1, <1>3, <2>1 DEF Alive
<1>4. CASE state \in {"error", "done"}
  <2>1. UNCHANGED <<state, srv, cb, queue>>
    BY <1>4 DEF Read
  <2> QED BY <1>1, <2>1 DEF Alive
<1> QED BY <1>2, <1>3, <1>4 DEF Typed, State

LEMMA CloseAlive == ASSUME Typed, Alive, Close PROVE Alive'
<1>1. UNCHANGED <<kind, active, cb, queue>>
  BY DEF Close
<1>2. CASE state \in {"initialized", "done", "error"}
  BY <1>1, <1>2 DEF Close, Alive
<1>3. CASE state \notin {"initialized", "done", "error"}
  <2>1. state' = "done" /\ Syncs(srv, srv') /\ srv.up
    BY <1>3, Facts, ClosePortalLeaves DEF Close, Alive
  <2>2. Has(srv'.out, {"emptyQuery"}) <=> Has(srv.out, {"emptyQuery"})
    BY <2>1, Facts, SyncsHas
  <2> QED BY <1>1, <2>1, <2>2 DEF Alive, Syncs
<1> QED BY <1>2, <1>3

LEMMA DeliverAlive == ASSUME Typed, Begun, Alive, Deliver PROVE Alive'
<1>1. srv.out # <<>> /\ kind' = kind
  BY DEF Deliver, Described, DataRow, PortalSuspended, CommandComplete, EmptyQuery,
         ErrorMessage, StrayError, ReadyForQuery, Receives, Untouched
<1>2. /\ Rest \in Session /\ Rest.up = srv.up /\ srv.up /\ Rest.portal = srv.portal
      /\ kind = "rows" => ~Has(Rest.out, {"emptyQuery"})
  BY <1>1, RestSession, RestHas DEF Alive
<1>3. CASE Described
  <2>1. active /\ active' = active /\ ShiftQueue(Rest)
    BY <1>3 DEF Described, Receives
  <2>2. CASE queue = <<>>
    <3>1. state' = "idle" /\ srv' = Rest
      BY <2>1, <2>2 DEF ShiftQueue
    <3> QED BY <1>1, <1>2, <2>1, <3>1 DEF Alive
  <2>3. CASE queue # <<>>
    <3>1. Head(queue) \in WaitsOf(asked)
      BY <2>3, HeadTailProperties DEF Typed, ReadTyped
    <3>2. Head(queue).size \in Sizes /\ GetRows(Rest, Head(queue).read, Head(queue).size)
      BY <2>1, <2>3, <3>1 DEF WaitsOf, ShiftQueue
    <3>3. Rest.portal => kind # "bad"
      BY <1>2 DEF Begun
    <3> QED BY <1>1, <1>2, <2>1, <3>2, <3>3, GetRowsAlive
  <2> QED BY <2>2, <2>3
<1>4. CASE DataRow
  <2>1. srv' = Rest /\ UNCHANGED <<state, active, cb, queue>>
    BY <1>4 DEF DataRow
  <2> QED BY <1>1, <1>2, <2>1 DEF Alive
<1>5. CASE PortalSuspended
  <2>1. srv' = Rest /\ active /\ state' = "idle" /\ active' = active
    BY <1>5 DEF PortalSuspended, Receives
  <2> QED BY <1>1, <1>2, <2>1 DEF Alive
<1>6. CASE CommandComplete
  <2>1. ClosePortal(Rest) /\ UNCHANGED <<active, cb, queue>>
    BY <1>6 DEF CommandComplete
  <2>2. state' = "done" /\ srv'.up
    BY <1>2, <2>1, ClosePortalLeaves
  <2>3. Has(srv'.out, {"emptyQuery"}) <=> Has(Rest.out, {"emptyQuery"})
    <3>1. srv'.out = Rest.out \/ Syncs(Rest, srv')
      BY <1>2, <2>1, ClosePortalLeaves
    <3> QED BY <1>2, <3>1, SyncsHas
  <2> QED BY <1>1, <1>2, <2>1, <2>2, <2>3 DEF Alive
<1>7. CASE EmptyQuery
  <2>1. Syncs(Rest, srv') /\ UNCHANGED <<state, active, cb, queue>>
    BY <1>2, <1>7, SyncedSyncs DEF EmptyQuery
  <2>2. Has(srv'.out, {"emptyQuery"}) <=> Has(Rest.out, {"emptyQuery"})
    BY <1>2, <2>1, SyncsHas
  <2> QED BY <1>1, <1>2, <2>1, <2>2 DEF Alive, Syncs
<1>8. CASE ErrorMessage
  <2>1. HandleError(Rest) /\ active /\ ~active' /\ state # "initialized"
    BY <1>8 DEF ErrorMessage, Receives, Begun
  <2>2. /\ state \in {"done", "error"} => srv' = Rest /\ state' = state
        /\ state \notin {"done", "error"} => Syncs(Rest, srv') /\ state' = "error"
    BY <1>2, <2>1, HandleErrorLeaves
  <2>3. state \notin {"done", "error"} => cb' = NoRead /\ queue' = <<>>
    BY <2>1 DEF HandleError, HandlesError
  <2>4. Has(srv'.out, {"emptyQuery"}) <=> Has(Rest.out, {"emptyQuery"})
    BY <1>2, <2>2, SyncsHas
  <2>5. srv'.up /\ state' \in {"done", "error"}
    BY <1>2, <2>2 DEF Syncs
  <2>6. state # "error"
    BY <2>1 DEF Alive
  <2> QED BY <1>1, <1>2, <2>1, <2>2, <2>3, <2>4, <2>5, <2>6 DEF Alive
<1>9. CASE ReadyForQuery
  <2>1. srv' = Rest /\ ~active' /\ UNCHANGED <<cb, queue>>
        /\ (active => state' = "done") /\ (~active => state' = state)
    BY <1>9 DEF ReadyForQuery
  <2> QED BY <1>1, <1>2, <2>1 DEF Alive
<1>10. CASE StrayError
  <2>1. srv' = Rest /\ UNCHANGED <<state, active, cb, queue>>
    BY <1>10 DEF StrayError
  <2> QED BY <1>1, <1>2, <2>1 DEF Alive
<1> QED BY <1>3, <1>4, <1>5, <1>6, <1>7, <1>8, <1>9, <1>10 DEF Deliver

LEMMA ConnectionLostAlive == ASSUME Typed, Alive, ConnectionLost PROVE Alive'
<1> DEFINE s == [srv EXCEPT !.out = <<>>, !.up = FALSE]
<1>1. s \in Session /\ ~s.up /\ s.out = <<>> /\ ~Has(s.out, {"emptyQuery"})
  BY EmptySeq, NothingHas DEF Typed, Session
<1>2. kind' = kind /\ ~active'
  BY DEF ConnectionLost
<1>3. \/ (active \/ state = "initialized") /\ HandleError(s)
      \/ ~(active \/ state = "initialized") /\ srv' = s /\ UNCHANGED <<state, cb, queue>>
  BY DEF ConnectionLost
<1> HIDE DEF s
<1>4. CASE HandleError(s) /\ (active \/ state = "initialized")
  <2>1. /\ state \in {"done", "error"} => srv' = s /\ state' = state
        /\ state \notin {"done", "error"} => Syncs(s, srv') /\ state' = "error"
    BY <1>1, <1>4, HandleErrorLeaves
  <2>2. state \notin {"done", "error"} => cb' = NoRead /\ queue' = <<>>
    BY <1>4 DEF HandleError, HandlesError
  <2>3. ~srv'.up /\ srv'.out = <<>>
    BY <1>1, <2>1 DEF Syncs
  <2>4. state # "error"
    BY <1>4 DEF Alive
  <2> QED BY <1>1, <1>2, <2>1, <2>2, <2>3, <2>4 DEF Alive
<1>5. CASE ~(active \/ state = "initialized") /\ srv' = s /\ UNCHANGED <<state, cb, queue>>
  BY <1>1, <1>2, <1>5 DEF Alive
<1> QED BY <1>3, <1>4, <1>5

LEMMA SameAlive ==
    ASSUME Alive, UNCHANGED <<srv, state, active, kind>>,
           state # "error" \/ (cb' \in {cb, NoRead} /\ queue' = queue)
    PROVE  Alive'
  BY DEF Alive

LEMMA AliveStep == ASSUME Typed, Begun, Alive, [Next]_vars PROVE Alive'
<1>1. hwm \in Sizes
  BY DEF Typed
<1>2. CASE ProgramReads \/ StreamReads
  BY <1>1, <1>2, ReadAlive DEF ProgramReads, StreamReads
<1>3. CASE ProgramCloses \/ StreamEnds
  BY <1>3, CloseAlive DEF ProgramCloses, StreamEnds
<1>4. CASE Immediates
  <2>1. UNCHANGED <<srv, state, active, kind, queue>> /\ cb' \in {cb, NoRead}
    BY <1>4, RunImmediateTyped DEF Immediates, RunImmediate
  <2> QED BY <2>1, SameAlive
<1>5. CASE Take \/ UNCHANGED vars
  BY <1>5, SameAlive DEF Take, vars, cursorVars
<1>6. CASE CursorSteps
  BY <1>6, SubmitAlive, DeliverAlive, ConnectionLostAlive DEF CursorSteps
<1> QED BY <1>2, <1>3, <1>4, <1>5, <1>6 DEF Next

-----------------------------------------------------------------------------
\* A cursor that the program does not close is done when it sent its Sync, and
\* stays so; 'end' comes after the rows that are left.

AtEnd ==
    closing = "no" =>
       /\ kind = "rows" /\ active /\ srv.syncs # 0 => state = "done"
       /\ \A i \in 1..Len(immediates) : immediates[i].do \in {"end", "done"} => state = "done"
       /\ cb # NoRead => \A i \in 1..Len(immediates) : immediates[i].do = "end" =>
                            \E j \in 1..(i - 1) : immediates[j].do = "send"
       /\ ended => state = "done"

\* Nothing is at its end yet when the server has a request to answer.
LEMMA HeardAtEnd ==
    ASSUME Typed, Once, Alive, AtEnd, closing = "no", srv.out # <<>>,
           Head(srv.out).is # "readyForQuery"
    PROVE  /\ srv.up /\ srv.syncs = 0 /\ Running /\ state \notin {"done", "error"} /\ ~ended
           /\ \A i \in 1..Len(immediates) : immediates[i].do \notin {"end", "done"}
<1>1. srv.up /\ Unclosed
  BY DEF Alive, Unclosed
<1>2. srv.syncs = 0 /\ Running
  BY <1>1, HeardRunning
<1> QED BY <1>1, <1>2 DEF Running, AtEnd

LEMMA ReadAtEnd ==
    ASSUME Typed, Begun, Alive, AtEnd, NEW n \in Sizes, Read(n) PROVE AtEnd'
<1>1. /\ UNCHANGED <<kind, active, ended, closing>> /\ closing = "no"
  BY DEF Read
<1>2. CASE state \in {"idle", "submitted"}
  <2>1. srv' = Executed(srv, n) /\ immediates' = immediates /\ state' = "busy"
    BY <1>2 DEF Read, GetRows
  <2>2. srv'.syncs = srv.syncs
    BY <2>1, Facts, ExecutedSession DEF Begun
  <2>3. /\ kind = "rows" /\ active => srv.syncs = 0
        /\ \A i \in 1..Len(immediates) : immediates[i].do \notin {"end", "done"}
        /\ ~ended
    BY <1>1, <1>2 DEF AtEnd
  <2> QED BY <1>1, <2>1, <2>2, <2>3 DEF AtEnd
<1>3. CASE state \in {"busy", "initialized"}
  <2>1. UNCHANGED <<state, srv, cb, immediates>>
    BY <1>3 DEF Read
  <2> QED BY <1>1, <2>1 DEF AtEnd
<1>4. CASE state \in {"error", "done"}
  <2>1. /\ immediates' = Append(immediates, Immediate(state, asked + 1))
        /\ UNCHANGED <<state, cb, srv>>
    BY <1>4 DEF Read
  <2>2. Immediate(state, asked + 1) \in TasksOf(asked + 1) /\ Immediate(state, asked + 1).do = state
    BY <1>4, Facts DEF TasksOf, Immediate
  <2>3. /\ Len(immediates') = Len(immediates) + 1 /\ Len(immediates) \in Nat
        /\ \A i \in 1..Len(immediates) : immediates'[i] = immediates[i]
        /\ immediates'[Len(immediates) + 1].do = state
    BY <2>1, <2>2, MoreReads, AppendProperties, LenProperties
  <2>4. \A i \in 1..Len(immediates') : i \in 1..Len(immediates) \/ i = Len(immediates) + 1
    BY <2>3
  <2>5. \A i \in 1..Len(immediates') : immediates'[i].do \in {"end", "done"} => state = "done"
    <3>1. \A i \in 1..Len(immediates) : immediates[i].do \in {"end", "done"} => state = "done"
      BY <1>1 DEF AtEnd
    <3> QED BY <1>4, <2>3, <2>4, <3>1
  <2>6. ASSUME cb # NoRead, NEW i \in 1..Len(immediates'), immediates'[i].do = "end"
        PROVE  \E j \in 1..(i - 1) : immediates'[j].do = "send"
    <3>1. i \in 1..Len(immediates) /\ immediates[i].do = "end"
      BY <1>4, <2>3, <2>4, <2>6
    <3>2. PICK j \in 1..(i - 1) : immediates[j].do = "send"
      BY <1>1, <2>6, <3>1 DEF AtEnd
    <3>3. j \in 1..Len(immediates)
      BY <2>3, <3>1
    <3> QED BY <2>3, <3>2, <3>3
  <2> QED BY <1>1, <2>1, <2>5, <2>6 DEF AtEnd
<1> QED BY <1>2, <1>3, <1>4 DEF Typed, State

LEMMA DeliverAtEnd ==
    ASSUME Typed, Begun, Once, Alive, AtEnd, Deliver, closing' = "no", closing = "no" PROVE AtEnd'
<1>1. srv.out # <<>> /\ UNCHANGED <<kind, ended>>
  BY DEF Deliver, Described, DataRow, PortalSuspended, CommandComplete, EmptyQuery,
         ErrorMessage, StrayError, ReadyForQuery, Receives, Untouched
<1>2. /\ Rest \in Session /\ Rest.up = srv.up /\ Rest.portal = srv.portal
      /\ Rest.syncs = srv.syncs /\ Head(srv.out) = srv.out[1] /\ 1 \in 1..Len(srv.out)
  BY <1>1, RestSession
<1>3. CASE Described
  <2>1. immediates' = immediates /\ ShiftQueue(Rest) /\ Head(srv.out).is # "readyForQuery"
    BY <1>3 DEF Described, Receives
  <2>2. /\ srv.syncs = 0 /\ ~ended
        /\ \A i \in 1..Len(immediates) : immediates[i].do \notin {"end", "done"}
    BY <1>1, <2>1, HeardAtEnd
  <2>3. srv'.syncs = 0
    <3>1. CASE queue = <<>>
      BY <1>2, <2>1, <2>2, <3>1 DEF ShiftQueue
    <3>2. CASE queue # <<>>
      <4>1. Head(queue) \in WaitsOf(asked)
        BY <3>2, HeadTailProperties DEF Typed, ReadTyped
      <4>2. Head(queue).size \in Sizes /\ srv' = Executed(Rest, Head(queue).size)
        BY <2>1, <3>2, <4>1 DEF WaitsOf, ShiftQueue, GetRows
      <4> QED BY <1>2, <2>2, <4>2, Facts, ExecutedSession DEF Begun
    <3> QED BY <3>1, <3>2
  <2> QED BY <1>1, <2>1, <2>2, <2>3 DEF AtEnd
<1>4. CASE DataRow
  <2>1. srv' = Rest /\ UNCHANGED <<state, active, cb, immediates>>
    BY <1>4 DEF DataRow
  <2> QED BY <1>1, <1>2, <2>1 DEF AtEnd
<1>5. CASE PortalSuspended
  <2>1. /\ srv' = Rest /\ immediates' = Append(immediates, Immediate("send", NoRead))
        /\ Head(srv.out).is # "readyForQuery"
    BY <1>5 DEF PortalSuspended, Receives
  <2>2. /\ srv.syncs = 0 /\ ~ended
        /\ \A i \in 1..Len(immediates) : immediates[i].do \notin {"end", "done"}
    BY <1>1, <2>1, HeardAtEnd
  <2>3. /\ Len(immediates') = Len(immediates) + 1 /\ immediates'[Len(immediates) + 1].do = "send"
        /\ \A i \in 1..Len(immediates) : immediates'[i] = immediates[i]
        /\ Len(immediates) \in Nat
    BY <2>1, AppendDoes
  <2>4. \A i \in 1..Len(immediates') : immediates'[i].do \notin {"end", "done"}
    <3>1. \A i \in 1..Len(immediates') : i \in 1..Len(immediates) \/ i = Len(immediates) + 1
      BY <2>3
    <3> QED BY <2>2, <2>3, <3>1
  <2> QED BY <1>1, <1>2, <2>1, <2>2, <2>4 DEF AtEnd
<1>6. CASE CommandComplete
  <2>1. ClosePortal(Rest) /\ UNCHANGED <<cb, immediates>>
    BY <1>6 DEF CommandComplete
  <2>2. state' = "done"
    BY <1>2, <2>1, ClosePortalLeaves
  <2> QED BY <1>1, <2>1, <2>2 DEF AtEnd
<1>7. CASE EmptyQuery
  <2>1. Head(srv.out).is = "emptyQuery" /\ UNCHANGED <<state, active, cb, immediates>>
    BY <1>7 DEF EmptyQuery, Receives
  <2>2. kind # "rows"
    BY <1>2, <2>1 DEF Alive, Has
  <2> QED BY <1>1, <2>1, <2>2 DEF AtEnd
<1>8. CASE ErrorMessage
  <2>1. HandleError(Rest) /\ ~active' /\ Head(srv.out).is # "readyForQuery"
    BY <1>8 DEF ErrorMessage, Receives
  <2>2. /\ ~ended /\ state \notin {"done", "error"}
        /\ \A i \in 1..Len(immediates) : immediates[i].do \notin {"end", "done"}
    BY <1>1, <2>1, HeardAtEnd
  <2>3. immediates' = immediates
    BY <2>1, <2>2 DEF HandleError, HandlesError, ErrorCallbacks
  <2> QED BY <1>1, <2>1, <2>2, <2>3 DEF AtEnd
<1>9. CASE ReadyForQuery
  <2>1. srv' = Rest /\ ~active' /\ UNCHANGED cb
    BY <1>9 DEF ReadyForQuery
  <2>2. CASE ~active
    BY <1>1, <1>9, <2>1, <2>2 DEF ReadyForQuery, AtEnd
  <2>3. CASE active
    <3> DEFINE two == <<Immediate("send", NoRead), Immediate("end", NoRead)>>
    <3>1. immediates' = immediates \o two /\ state' = "done"
      BY <1>9, <2>3 DEF ReadyForQuery
    <3>2. two \in Seq(TasksOf(asked)) /\ immediates \in Seq(TasksOf(asked)) /\ Len(two) = 2
          /\ two[1].do = "send" /\ two[2].do = "end"
      BY MoreTasks DEF Typed, ReadTyped, Immediate
    <3> HIDE DEF two
    <3>3. /\ Len(immediates') = Len(immediates) + 2 /\ Len(immediates) \in Nat
          /\ \A i \in 1..Len(immediates') :
                immediates'[i] = IF i <= Len(immediates) THEN immediates[i]
                                                         ELSE two[i - Len(immediates)]
      <4>1. /\ Len(immediates \o two) = Len(immediates) + Len(two)
            /\ \A i \in 1..Len(immediates) + Len(two) :
                  (immediates \o two)[i] = IF i <= Len(immediates) THEN immediates[i]
                                                                 ELSE two[i - Len(immediates)]
        BY <3>2, ConcatProperties
      <4> QED BY <3>1, <3>2, <4>1, LenProperties
    <3>4. PICK l \in Nat : l = Len(immediates)
      BY <3>3
    <3>5. /\ \A i \in 1..l : immediates'[i] = immediates[i]
          /\ immediates'[l + 1] = two[1] /\ immediates'[l + 2] = two[2] /\ Len(immediates') = l + 2
      <4>1. \A i \in 1..l : i \in 1..(l + 2) /\ i <= l
        BY <3>4
      <4>2. l + 1 \in 1..(l + 2) /\ ~(l + 1 <= l) /\ (l + 1) - l = 1
            /\ l + 2 \in 1..(l + 2) /\ ~(l + 2 <= l) /\ (l + 2) - l = 2
        BY <3>4
      <4> QED BY <3>3, <3>4, <4>1, <4>2
    <3>6. ASSUME cb # NoRead, NEW i \in 1..Len(immediates'), immediates'[i].do = "end"
          PROVE  \E j \in 1..(i - 1) : immediates'[j].do = "send"
      <4>1. CASE i \in 1..l
        <5>1. PICK j \in 1..(i - 1) : immediates[j].do = "send"
          BY <3>4, <3>5, <3>6, <4>1 DEF AtEnd
        <5>2. j \in 1..l
          BY <4>1
        <5> QED BY <3>5, <5>1, <5>2
      <4>2. CASE i = l + 2
        <5>1. l + 1 \in 1..(i - 1)
          BY <4>2
        <5> QED BY <3>2, <3>5, <5>1
      <4>3. CASE i = l + 1
        BY <3>2, <3>5, <3>6, <4>3
      <4> QED BY <3>5, <4>1, <4>2, <4>3
    <3> QED BY <1>1, <2>1, <3>1, <3>6 DEF AtEnd
  <2> QED BY <2>2, <2>3
<1>10. CASE StrayError
  <2>1. srv' = Rest /\ UNCHANGED <<state, active, cb, immediates>>
    BY <1>10 DEF StrayError
  <2> QED BY <1>1, <1>2, <2>1 DEF AtEnd
<1> QED BY <1>3, <1>4, <1>5, <1>6, <1>7, <1>8, <1>9, <1>10 DEF Deliver

LEMMA SubmitAtEnd == ASSUME Typed, Begun, AtEnd, Submit PROVE AtEnd'
<1>1. /\ state = "initialized" /\ srv' = Prepared(srv) /\ srv.syncs = 0
      /\ UNCHANGED <<immediates, cb, closing, ended, kind>>
  BY DEF Submit, Begun
<1>2. srv'.syncs = 0
  BY <1>1, Facts, PreparedSession
<1> QED BY <1>1, <1>2 DEF AtEnd

LEMMA ConnectionLostAtEnd ==
    ASSUME Typed, AtEnd, ConnectionLost, closing' = "no", closing = "no" PROVE AtEnd'
<1> DEFINE s == [srv EXCEPT !.out = <<>>, !.up = FALSE]
<1>1. ~active' /\ ended' = ended
  BY DEF ConnectionLost
<1>2. HandleError(s) \/ UNCHANGED <<state, cb, immediates>>
  BY DEF ConnectionLost
<1> HIDE DEF s
<1>3. CASE HandleError(s) /\ state \notin {"done", "error"}
  <2>1. immediates' = immediates
    BY <1>3 DEF HandleError, HandlesError, ErrorCallbacks
  <2>2. ~ended /\ \A i \in 1..Len(immediates) : immediates[i].do \notin {"end", "done"}
    BY <1>3 DEF AtEnd
  <2> QED BY <1>1, <2>1, <2>2 DEF AtEnd
<1>4. CASE UNCHANGED <<state, cb, immediates>>
  BY <1>1, <1>4 DEF AtEnd
<1> QED BY <1>2, <1>3, <1>4 DEF HandleError, HandlesError

LEMMA RunImmediateAtEnd ==
    ASSUME Typed, AtEnd, RunImmediate, closing' = "no", closing = "no" PROVE AtEnd'
<1>1. /\ immediates # <<>> /\ UNCHANGED <<kind, state, active, srv>>
      /\ SendRows \/ AnswerDone \/ AnswerError \/ EmitEnd \/ CloseSoon
  BY DEF RunImmediate
<1>2. immediates' = Tail(immediates)
  BY <1>1 DEF SendRows, AnswerDone, AnswerError, ErrorCallbacks, EmitEnd, CloseSoon
<1>3. /\ Head(immediates) = immediates[1] /\ 1 \in 1..Len(immediates) /\ Len(immediates') \in Nat
      /\ \A i \in 1..Len(immediates') :
            i + 1 \in 1..Len(immediates) /\ immediates'[i] = immediates[i + 1]
  BY <1>1, <1>2, ImmediateHead, TaskTaken
<1>4. \A i \in 1..Len(immediates') : immediates'[i].do \in {"end", "done"} => state = "done"
  BY <1>3 DEF AtEnd
<1>5. ended' => state = "done"
  <2>1. CASE EmitEnd
    BY <1>3, <2>1 DEF EmitEnd, AtEnd
  <2>2. CASE ~EmitEnd
    BY <1>1, <2>2 DEF SendRows, AnswerDone, AnswerError, CloseSoon, AtEnd
  <2> QED BY <2>1, <2>2
<1>6. ASSUME cb' # NoRead, NEW i \in 1..Len(immediates'), immediates'[i].do = "end"
      PROVE  \E j \in 1..(i - 1) : immediates'[j].do = "send"
  <2>1. cb' = cb /\ immediates[1].do # "send"
    BY <1>1, <1>3, <1>6 DEF SendRows, AnswerDone, AnswerError, EmitEnd, CloseSoon
  <2>2. i \in Nat /\ i + 1 \in 1..Len(immediates) /\ immediates[i + 1].do = "end"
    BY <1>3, <1>6
  <2>3. PICK j \in 1..((i + 1) - 1) : immediates[j].do = "send"
    BY <1>6, <2>1, <2>2 DEF AtEnd
  <2>4. j # 1
    BY <2>1, <2>3
  <2>5. PICK k \in 1..(i - 1) : j = k + 1
    <3>1. j - 1 \in 1..(i - 1) /\ j = (j - 1) + 1
      BY <2>2, <2>3, <2>4
    <3> QED BY <3>1
  <2>6. k \in 1..Len(immediates')
    BY <1>3, <2>2
  <2> QED BY <1>3, <2>3, <2>5, <2>6
<1> QED BY <1>1, <1>4, <1>5, <1>6 DEF AtEnd

\* The program's close is not undone.
LEMMA StaysClosing == ASSUME Typed, Begun, [Next]_vars, closing' = "no" PROVE closing = "no"
<1>1. ASSUME NEW s \in Session, HandleError(s), state = "initialized" => ~s.up
      PROVE  closing = "no"
  BY <1>1, HandleErrorLeaves
<1>2. CASE CursorSteps
  <2>1. CASE ErrorMessage
    <3>1. HandleError(Rest) /\ Rest \in Session /\ state # "initialized"
      BY <2>1, RestSession DEF ErrorMessage, Receives, Begun
    <3> QED BY <1>1, <3>1
  <2>2. CASE ConnectionLost
    <3> DEFINE s == [srv EXCEPT !.out = <<>>, !.up = FALSE]
    <3>1. s \in Session /\ ~s.up /\ (HandleError(s) \/ closing' = closing)
      BY <2>2, EmptySeq DEF ConnectionLost, Typed, Session
    <3> HIDE DEF s
    <3> QED BY <1>1, <3>1
  <2>3. CASE ReadyForQuery
    BY <2>3 DEF ReadyForQuery
  <2> QED BY <1>2, <2>1, <2>2, <2>3
       DEF CursorSteps, Submit, Deliver, Described, DataRow, PortalSuspended, CommandComplete,
           EmptyQuery, StrayError
<1>3. CASE Immediates
  BY <1>3 DEF Immediates, RunImmediate, SendRows, AnswerDone, AnswerError, ErrorCallbacks, EmitEnd,
              CloseSoon
<1>4. CASE ProgramReads \/ StreamReads \/ ProgramCloses \/ StreamEnds
  BY <1>4 DEF ProgramReads, StreamReads, ProgramCloses, StreamEnds, Read, Close
<1>5. CASE Take \/ UNCHANGED vars
  BY <1>5 DEF Take, vars, cursorVars
<1> QED BY <1>2, <1>3, <1>4, <1>5 DEF Next

LEMMA AtEndStep ==
    ASSUME Typed, Begun, Once, Alive, AtEnd, [Next]_vars PROVE AtEnd'
<1> SUFFICES ASSUME closing' = "no" PROVE AtEnd'
  BY DEF AtEnd
<1>1. hwm \in Sizes /\ closing = "no"
  BY StaysClosing DEF Typed
<1>2. CASE ProgramReads \/ StreamReads
  BY <1>1, <1>2, ReadAtEnd DEF ProgramReads, StreamReads
<1>3. CASE ProgramCloses \/ StreamEnds
  BY <1>3 DEF ProgramCloses, StreamEnds, Close
<1>4. CASE Immediates
  BY <1>1, <1>4, RunImmediateAtEnd DEF Immediates
<1>5. CASE Take \/ UNCHANGED vars
  BY <1>5 DEF Take, vars, cursorVars, AtEnd
<1>6. CASE CursorSteps
  BY <1>1, <1>6, SubmitAtEnd, DeliverAtEnd, ConnectionLostAtEnd DEF CursorSteps
<1> QED BY <1>2, <1>3, <1>4, <1>5, <1>6 DEF Next

-----------------------------------------------------------------------------
\* The rows on their way, when the reads have got g of them.

\* A full page is on its way, or is about to be given to its read.
Sends == Has(srv.out, {"portalSuspended"}) \/ ~Does(immediates, {"end", "close"})

\* The rows of the read that waits: those in _rows and c more in srv.out, all that
\* the server has sent.
Arrives(g, b, c) ==
    /\ RowsAt(srv.out, b, c, g + Len(rows))
    /\ closing = "no" /\ streamed => Len(rows) + c <= hwm
    /\ closing = "no" /\ srv.up /\ srv.syncs = 0 =>
          /\ srv.sent = g + Len(rows) + c
          /\ Has(srv.out, {"commandComplete"}) => srv.sent = total
          /\ streamed /\ Sends => Len(rows) + c = hwm
          /\ c > 0 => Has(srv.out, Answer)
Delivery(g) ==
    /\ cb # NoRead => /\ \A i \in 1..Len(rows) : rows[i] = g + i
                      /\ \E b, c \in Nat : Arrives(g, b, c)
    /\ queue # <<>> => ~Has(srv.out, {"dataRow"})
    /\ streamed => \A i \in 1..Len(queue) : queue[i].size = hwm
    /\ cb = NoRead /\ srv.up /\ srv.syncs = 0 /\ (closing = "no" \/ queue # <<>>) =>
          srv.sent = g /\ ~Has(srv.out, {"dataRow"})

LEMMA SomeRows ==
    ASSUME NEW s \in Seq(Msg), NEW b \in Nat, NEW c \in Nat, NEW p, RowsAt(s, b, c, p)
    PROVE  c > 0 <=> Has(s, {"dataRow"})
<1>1. Len(s) \in Nat
  BY LenProperties
<1>2. c > 0 => b + 1 \in 1..Len(s) /\ b + 1 \in (b + 1)..(b + c)
  BY <1>1 DEF RowsAt
<1>3. c = 0 => (b + 1)..(b + c) = {}
  OBVIOUS
<1> QED BY <1>2, <1>3 DEF RowsAt, Has

\* What the reads wait for stays the same while rows and other messages stay in
\* their order.
LEMMA DeliveryKept ==
    ASSUME Typed, Typed', NEW g \in Nat, Delivery(g),
           UNCHANGED <<cb, rows, queue, streamed, total, hwm>>,
           closing' = "no" => closing = "no",
           \A b, c, p \in Nat :
              RowsAt(srv.out, b, c, p) => \E d \in Nat : RowsAt(srv'.out, d, c, p),
           ~Has(srv.out, {"dataRow"}) => ~Has(srv'.out, {"dataRow"}),
           srv'.up /\ srv'.syncs = 0 /\ (closing' = "no" \/ queue # <<>>) =>
              srv.up /\ srv.syncs = 0 /\ srv'.sent = srv.sent,
           closing' = "no" /\ srv'.up /\ srv'.syncs = 0 =>
              /\ Has(srv'.out, {"commandComplete"}) => Has(srv.out, {"commandComplete"})
              /\ Sends' => Sends
              /\ Has(srv.out, Answer) => Has(srv'.out, Answer) \/ ~Has(srv'.out, {"dataRow"})
    PROVE  Delivery(g)'
<1>1. ASSUME cb # NoRead PROVE \E b, c \in Nat : Arrives(g, b, c)'
  <2>1. PICK b \in Nat, c \in Nat : Arrives(g, b, c)
    BY <1>1 DEF Delivery
  <2>2. Len(rows) \in Nat /\ g + Len(rows) \in Nat
    BY LenProperties DEF Typed, ReadTyped
  <2>3. PICK d \in Nat : RowsAt(srv'.out, d, c, g + Len(rows))
    BY <2>1, <2>2 DEF Arrives
  <2>4. srv'.out \in Seq(Msg')
    BY DEF Typed, Session
  <2>5. Msg' = Msg
    BY DEF Msg
  <2>6. c > 0 => Has(srv'.out, {"dataRow"})
    BY <2>3, <2>4, <2>5, SomeRows
  <2>7. Arrives(g, d, c)'
    BY <2>1, <2>3, <2>6 DEF Arrives
  <2> QED BY <2>7
<1> QED BY <1>1 DEF Delivery

\* A request is made: what it brings are the rows after those the reads have.
LEMMA DeliveryFetched ==
    ASSUME Typed, Typed', kind = "rows", NEW g \in Nat, NEW s \in Session, NEW r, NEW n \in Sizes,
           GetRows(s, r, n), r # NoRead, UNCHANGED <<streamed, total, hwm>>, queue' = <<>>,
           streamed => n = hwm, ~Has(s.out, {"dataRow"}), s.up /\ s.portal => s.sent = g,
           closing' = "no" /\ s.up /\ s.syncs = 0 =>
              s.sent = g /\ ~Has(s.out, Answer) /\ Does(immediates', {"end", "close"})
    PROVE  Delivery(g)'
<1>1. srv' = Executed(s, n) /\ cb' = r /\ rows' = <<>>
  BY DEF GetRows
<1>2. srv'.up = s.up /\ srv'.syncs = s.syncs
  BY <1>1, Facts, ExecutedSession
<1>3. Brings(s, n, g, srv')
  BY <1>1, Facts, ExecutedRows
<1>4. PICK b \in Nat, c \in Nat :
       /\ RowsAt(srv'.out, b, c, g) /\ c <= n
       /\ s.sent = g => srv'.sent = g + c
       /\ ~Has(s.out, Answer) => /\ Has(srv'.out, {"commandComplete"}) => srv'.sent = total
                                 /\ Has(srv'.out, {"portalSuspended"}) => c = n
                                 /\ c > 0 => Has(srv'.out, Answer)
  BY <1>3 DEF Brings
<1>5. Len(rows') = 0 /\ Len(queue') = 0
  BY <1>1, EmptySeq
<1>6. g + 0 = g /\ 0 + c = c /\ (g + 0) + c = g + c
  OBVIOUS
<1>7. ASSUME closing' = "no", srv'.up, srv'.syncs = 0
      PROVE  /\ srv'.sent = g + c
             /\ Has(srv'.out, {"commandComplete"}) => srv'.sent = total
             /\ Has(srv'.out, {"portalSuspended"}) \/ ~Does(immediates', {"end", "close"}) => c = n
             /\ c > 0 => Has(srv'.out, Answer)
  BY <1>2, <1>4, <1>7
<1>8. Arrives(g, b, c)'
  BY <1>4, <1>5, <1>6, <1>7 DEF Arrives, Sends
<1> QED BY <1>1, <1>5, <1>8 DEF Delivery

\* A message that is taken off srv.out takes no other with it.
LEMMA RestKeeps ==
    ASSUME Typed, srv.out # <<>>, NEW names, Head(srv.out).is \notin names
    PROVE  Has(Rest.out, names) <=> Has(srv.out, names)
<1>1. /\ Head(srv.out) = srv.out[1] /\ Len(srv.out) \in Nat \ {0}
      /\ Len(Rest.out) = Len(srv.out) - 1
      /\ \A i \in 1..Len(Rest.out) : Rest.out[i] = srv.out[i + 1]
  BY RestSession
<1>2. \A i \in 1..Len(srv.out) : i = 1 \/ (i - 1 \in 1..Len(Rest.out) /\ (i - 1) + 1 = i)
  BY <1>1
<1>3. Has(srv.out, names) => Has(Rest.out, names)
  BY <1>1, <1>2 DEF Has
<1> QED BY <1>3, RestHas

LEMMA RestRows ==
    ASSUME Typed, srv.out # <<>>, Head(srv.out).is # "dataRow",
           NEW b \in Nat, NEW c \in Nat, NEW p \in Nat, RowsAt(srv.out, b, c, p)
    PROVE  \E d \in Nat : RowsAt(Rest.out, d, c, p)
<1>1. srv.out \in Seq(Msg) /\ Rest.out = Tail(srv.out)
  BY Facts, RestSession
<1> QED BY <1>1, RowsAtTail

LEMMA SyncsRows ==
    ASSUME NEW s \in Session, NEW t, Syncs(s, t), NEW b \in Nat, NEW c \in Nat, NEW p \in Nat,
           RowsAt(s.out, b, c, p)
    PROVE  RowsAt(t.out, b, c, p)
<1>1. s.out \in Seq(Msg) /\ Message("readyForQuery", 0) \in Msg
      /\ Message("readyForQuery", 0).is = "readyForQuery"
  BY MsgPlain DEF Session, Plain
<1>2. CASE s.up
  <2>1. t.out = Append(s.out, Message("readyForQuery", 0))
    BY <1>2 DEF Syncs
  <2> QED BY <1>1, <2>1, RowsAtAppend
<1>3. CASE ~s.up
  BY <1>3 DEF Syncs
<1> QED BY <1>2, <1>3

Ordered == Typed /\ Begun /\ Once /\ OnePlace /\ Alive /\ AtEnd

\* The steps that keep how many rows the reads have.
LEMMA SubmitDelivery ==
    ASSUME Ordered, Typed', NEW g \in Nat, Delivery(g), Submit, hwm' = hwm PROVE Delivery(g)'
<1>1. /\ srv.up /\ srv' = Prepared(srv) /\ srv.syncs = 0
      /\ UNCHANGED <<cb, rows, queue, streamed, total, closing, immediates>>
  BY DEF Submit, Ordered, Begun
<1>2. PICK m \in Msg : /\ srv'.out = Append(srv.out, m)
                       /\ m.is \in {"error", "rowDescription", "noData"}
  BY <1>1, Facts, PreparedSession DEF Ordered
<1>3. srv'.sent = srv.sent /\ srv.out \in Seq(Msg)
  BY <1>1, Facts, PreparedSession DEF Ordered
<1>4. \A names : m.is \notin names => (Has(srv'.out, names) <=> Has(srv.out, names))
  BY <1>2, <1>3, HasAppend
<1>5. m.is \notin {"dataRow"} /\ m.is \notin {"commandComplete"} /\ m.is \notin {"portalSuspended"}
      /\ m.is \notin Answer
  BY <1>2 DEF Answer
<1>6. \A b, c, p \in Nat : RowsAt(srv.out, b, c, p) => RowsAt(srv'.out, b, c, p)
  BY <1>2, <1>3, <1>5, RowsAtAppend
<1>7. /\ Has(srv'.out, {"dataRow"}) <=> Has(srv.out, {"dataRow"})
      /\ Has(srv'.out, {"commandComplete"}) <=> Has(srv.out, {"commandComplete"})
      /\ Has(srv'.out, {"portalSuspended"}) <=> Has(srv.out, {"portalSuspended"})
      /\ Has(srv'.out, Answer) <=> Has(srv.out, Answer)
  BY <1>4, <1>5
<1> QED BY <1>1, <1>3, <1>6, <1>7, DeliveryKept DEF Ordered, Sends

LEMMA ReadDelivery ==
    ASSUME Ordered, Typed', kind = "rows", NEW g \in Nat, Delivery(g), NEW n \in Sizes, Read(n),
           hwm' = hwm, streamed => n = hwm
    PROVE  Delivery(g)'
<1>1. /\ cb = NoRead /\ queue = <<>> /\ ~Waiting /\ closing = "no" /\ closing' = closing
      /\ UNCHANGED <<streamed, total>> /\ asked + 1 # NoRead
  <2>1. Typed /\ OnePlace /\ asked + 1 # NoRead
    BY Facts DEF Ordered, NoRead
  <2>2. cb = NoRead /\ queue = <<>> /\ ~Waiting /\ closing = "no"
    BY <2>1, ReadFree
  <2>3. closing' = closing /\ UNCHANGED <<streamed, total>>
    BY DEF Read
  <2> QED BY <2>1, <2>2, <2>3
<1>2. srv.up /\ srv.syncs = 0 => Running /\ srv.sent = g /\ ~Has(srv.out, {"dataRow"})
  BY <1>1 DEF Ordered, Once, Unclosed, Delivery
<1>3. state \notin {"initialized", "done", "error"} => srv.up /\ srv.syncs = 0
  BY <1>1 DEF Ordered, Alive, AtEnd
<1>4. CASE state \in {"idle", "submitted"}
  <2>1. GetRows(srv, asked + 1, n) /\ UNCHANGED <<queue, immediates>>
    BY <1>4 DEF Read
  <2>2. srv.up /\ srv.syncs = 0 /\ Running /\ srv.sent = g /\ ~Has(srv.out, {"dataRow"})
    BY <1>2, <1>3, <1>4
  <2>3. ~Has(srv.out, Answer) /\ Does(immediates, {"end", "close"})
    BY <1>1, <2>2 DEF Running, Fetching
  <2> QED BY <1>1, <2>1, <2>2, <2>3, Facts, DeliveryFetched DEF Ordered
<1>5. CASE state = "busy"
  BY <1>1, <1>2, <1>3, <1>5 DEF Running
<1>6. CASE state = "initialized"
  <2>1. /\ queue' = Append(queue, [read |-> asked + 1, size |-> n])
        /\ UNCHANGED <<state, cb, rows, immediates, srv>> /\ srv.out = <<>>
    BY <1>6 DEF Read, Ordered, Begun
  <2>2. ~Has(srv.out, {"dataRow"})
    BY <2>1, NothingHas
  <2>3. Len(queue') = 1 /\ queue'[1].size = n
    BY <1>1, <2>1, EmptySeq, AppendProperties
  <2>4. \A i \in 1..Len(queue') : i = 1
    BY <2>3
  <2> QED BY <1>1, <2>1, <2>2, <2>3, <2>4 DEF Delivery
<1>7. CASE state \in {"error", "done"}
  <2>1. UNCHANGED <<state, queue, cb, rows, srv>>
    BY <1>7 DEF Read
  <2>2. ~(srv.up /\ srv.syncs = 0)
    BY <1>2, <1>7 DEF Running
  <2> QED BY <1>1, <2>1, <2>2, DeliveryKept DEF Ordered
<1> QED BY <1>4, <1>5, <1>6, <1>7 DEF Ordered, Typed, State

LEMMA CloseDelivery ==
    ASSUME Ordered, Typed', NEW g \in Nat, Delivery(g), Close, hwm' = hwm PROVE Delivery(g)'
<1>1. closing' # "no" /\ UNCHANGED <<cb, rows, queue, streamed, total>> /\ closing = "no"
  BY DEF Close
<1>2. CASE state \in {"initialized", "done", "error"}
  <2>1. UNCHANGED srv
    BY <1>2 DEF Close
  <2> QED BY <1>1, <2>1, DeliveryKept DEF Ordered
<1>3. CASE state \notin {"initialized", "done", "error"}
  <2>1. Syncs(srv, srv') /\ srv.up
    BY <1>3, Facts, ClosePortalLeaves DEF Close, Ordered, Alive
  <2>2. srv'.syncs # 0
    BY <2>1, Facts DEF Ordered, Syncs
  <2>3. \A b, c, p \in Nat : RowsAt(srv.out, b, c, p) => RowsAt(srv'.out, b, c, p)
    BY <2>1, Facts, SyncsRows DEF Ordered
  <2>4. Has(srv'.out, {"dataRow"}) <=> Has(srv.out, {"dataRow"})
    BY <2>1, Facts, SyncsHas DEF Ordered
  <2> QED BY <1>1, <2>2, <2>3, <2>4, DeliveryKept DEF Ordered
<1> QED BY <1>2, <1>3

\* An error that the cursor handles leaves no read to be told.
LEMMA HandleErrorDelivery ==
    ASSUME Typed, NEW g \in Nat, NEW s \in Session, HandleError(s), state \notin {"done", "error"},
           state = "initialized" => ~s.up
    PROVE  Delivery(g)'
<1>1. cb' = NoRead /\ queue' = <<>> /\ Len(queue') = 0
  BY EmptySeq DEF HandleError, HandlesError
<1>2. Syncs(s, srv') /\ s.syncs \in Nat
  BY HandleErrorLeaves DEF Session
<1>3. ~(srv'.up /\ srv'.syncs = 0)
  BY <1>2 DEF Syncs
<1> QED BY <1>1, <1>3 DEF Delivery

LEMMA ConnectionLostDelivery ==
    ASSUME Ordered, Typed', NEW g \in Nat, Delivery(g), ConnectionLost, hwm' = hwm
    PROVE  Delivery(g)'
<1> DEFINE s == [srv EXCEPT !.out = <<>>, !.up = FALSE]
<1>1. s \in Session /\ ~s.up /\ s.out = <<>> /\ UNCHANGED <<streamed, total, rows>>
  BY EmptySeq DEF Ordered, Typed, Session, ConnectionLost
<1>2. \/ HandleError(s) /\ state \notin {"done", "error"}
      \/ srv' = s /\ UNCHANGED <<cb, queue>>
  BY DEF ConnectionLost, HandleError, HandlesError
<1> HIDE DEF s
<1>3. CASE HandleError(s) /\ state \notin {"done", "error"}
  BY <1>1, <1>3, HandleErrorDelivery DEF Ordered
<1>4. CASE srv' = s /\ UNCHANGED <<cb, queue>>
  <2>1. ~Has(srv'.out, {"dataRow"}) /\ ~srv'.up /\ Len(srv'.out) = 0
    BY <1>1, <1>4, NothingHas, EmptySeq
  <2>2. (closing' = "no" => closing = "no")
    <3>1. CASE HandleError(s) /\ state \notin {"done", "error"}
      BY <1>1, <3>1, HandleErrorLeaves DEF Ordered
    <3>2. CASE UNCHANGED closing
      BY <3>2
    <3> QED BY <3>1, <3>2 DEF ConnectionLost, HandleError, HandlesError, s
  <2>3. ASSUME cb # NoRead PROVE \E b, c \in Nat : Arrives(g, b, c)'
    <3>1. PICK b \in Nat, c \in Nat : Arrives(g, b, c)
      BY <2>3 DEF Delivery
    <3>2. Len(rows) \in Nat /\ g + Len(rows) \in Nat /\ srv'.out \in Seq(Msg) /\ hwm \in Nat
      BY <1>1, <1>4, LenProperties, Facts DEF Ordered, Typed, ReadTyped, Session
    <3>3. RowsAt(srv'.out, 0, 0, g + Len(rows))
      BY <2>1, <3>2, NoRowsAt
    <3>4. closing' = "no" /\ streamed => Len(rows) + 0 <= hwm
      BY <2>2, <3>1, <3>2 DEF Arrives
    <3>5. Arrives(g, 0, 0)'
      BY <1>1, <2>1, <3>3, <3>4 DEF Arrives
    <3> QED BY <3>5
  <2> QED BY <1>1, <1>4, <2>1, <2>3 DEF Delivery
<1> QED BY <1>2, <1>3, <1>4

\* A message is delivered: a row moves from srv.out to _rows.
LEMMA DeliverDelivery ==
    ASSUME Ordered, Typed', kind = "rows", NEW g \in Nat, Delivery(g), Deliver, hwm' = hwm
    PROVE  Delivery(g)'
<1>1. srv.out # <<>> /\ UNCHANGED <<streamed, total>> /\ Typed /\ Begun /\ Once
  BY DEF Deliver, Described, DataRow, PortalSuspended, CommandComplete, EmptyQuery,
         ErrorMessage, StrayError, ReadyForQuery, Receives, Untouched, Ordered
<1>2. /\ Rest \in Session /\ Rest.up = srv.up /\ srv.up /\ Rest.portal = srv.portal
      /\ Rest.syncs = srv.syncs /\ Rest.sent = srv.sent /\ srv.syncs \in Nat
      /\ Head(srv.out) = srv.out[1] /\ 1 \in 1..Len(srv.out)
  BY <1>1, RestSession, Facts DEF Ordered, Alive
<1>3. /\ ~Has(srv.out, {"dataRow"}) => ~Has(Rest.out, {"dataRow"})
      /\ Has(Rest.out, {"commandComplete"}) => Has(srv.out, {"commandComplete"})
      /\ Has(Rest.out, {"portalSuspended"}) => Has(srv.out, {"portalSuspended"})
  BY <1>1, RestHas
<1>4. ASSUME closing = "no", Head(srv.out).is # "readyForQuery"
      PROVE  srv.syncs = 0 /\ Running
  BY <1>1, <1>2, <1>4, HeardRunning DEF Unclosed
<1>5. ASSUME Head(srv.out).is # "dataRow", NEW b \in Nat, NEW c \in Nat, NEW p \in Nat,
             RowsAt(srv.out, b, c, p)
      PROVE  \E d \in Nat : RowsAt(Rest.out, d, c, p)
  BY <1>1, <1>5, RestRows
<1>6. ASSUME Head(srv.out).is # "dataRow", Syncs(Rest, srv')
      PROVE  /\ \A b, c, p \in Nat : RowsAt(srv.out, b, c, p) =>
                   \E d \in Nat : RowsAt(srv'.out, d, c, p)
             /\ ~Has(srv.out, {"dataRow"}) => ~Has(srv'.out, {"dataRow"})
             /\ srv'.syncs # 0
  <2>1. \A d, c, p \in Nat : RowsAt(Rest.out, d, c, p) => RowsAt(srv'.out, d, c, p)
    BY <1>2, <1>6, SyncsRows
  <2>2. Has(srv'.out, {"dataRow"}) <=> Has(Rest.out, {"dataRow"})
    BY <1>2, <1>6, SyncsHas
  <2>3. srv'.syncs # 0
    BY <1>2, <1>6 DEF Syncs
  <2> QED BY <1>3, <1>5, <1>6, <2>1, <2>2, <2>3
<1>7. CASE Described
  <2>1. /\ Head(srv.out).is \in {"rowDescription", "noData"} /\ ShiftQueue(Rest)
        /\ UNCHANGED <<immediates, closing>>
    BY <1>7 DEF Described, Receives
  <2>2. Head(srv.out).is # "dataRow" /\ Head(srv.out).is # "readyForQuery"
        /\ Head(srv.out).is \notin Answer
    BY <2>1 DEF Answer
  <2>3. Has(Rest.out, Answer) <=> Has(srv.out, Answer)
    BY <1>1, <2>2, RestKeeps
  <2>4. CASE queue = <<>>
    <3>1. srv' = Rest /\ UNCHANGED <<queue, cb, rows>>
      BY <2>1, <2>4 DEF ShiftQueue
    <3> QED BY <1>1, <1>2, <1>3, <1>5, <2>1, <2>2, <2>3, <3>1, DeliveryKept DEF Sends
  <2>5. CASE queue # <<>>
    <3>1. /\ Head(queue) = queue[1] /\ Head(queue) \in WaitsOf(asked)
          /\ Len(Tail(queue)) = Len(queue) - 1 /\ Tail(queue) \in Seq(WaitsOf(asked))
      BY <1>1, <2>5, HeadTailProperties DEF Typed, ReadTyped
    <3>2. queue[1].size \in Sizes /\ queue[1].read # NoRead
          /\ GetRows(Rest, queue[1].read, queue[1].size) /\ queue' = Tail(queue)
      BY <2>1, <2>5, <3>1 DEF WaitsOf, ShiftQueue, NoRead
    <3>3. Len(queue) = 1 /\ cb = NoRead /\ 1 \in 1..Len(queue)
      BY <2>5 DEF Ordered, OnePlace
    <3>4. queue' = <<>>
      BY <3>1, <3>2, <3>3, EmptySeq
    <3>5. streamed => queue[1].size = hwm
      BY <3>3 DEF Delivery
    <3>6. ~Has(Rest.out, {"dataRow"}) /\ (srv.up /\ srv.syncs = 0 => srv.sent = g)
      BY <1>3, <2>5, <3>3 DEF Delivery
    <3>7. Rest.up /\ Rest.portal => Rest.sent = g
      BY <1>1, <1>2, <3>6 DEF Begun
    <3>8. ASSUME closing' = "no"
          PROVE  Rest.sent = g /\ ~Has(Rest.out, Answer) /\ Does(immediates', {"end", "close"})
      <4>1. srv.syncs = 0 /\ Running
        BY <1>4, <2>1, <2>2, <3>8
      <4>2. ~Has(srv.out, Answer) /\ Does(immediates, {"end", "close"})
        BY <2>5, <4>1 DEF Running, Fetching
      <4> QED BY <1>2, <2>1, <2>3, <3>6, <4>1, <4>2
    <3> QED BY <1>1, <1>2, <3>2, <3>4, <3>5, <3>6, <3>7, <3>8, DeliveryFetched
  <2> QED BY <2>4, <2>5
<1>8. CASE DataRow
  <2>1. /\ Head(srv.out).is = "dataRow" /\ srv' = Rest /\ rows' = Append(rows, Head(srv.out).row)
        /\ UNCHANGED <<state, queue, cb, immediates, closing>>
    BY <1>8 DEF DataRow, Receives
  <2>2. Has(srv.out, {"dataRow"}) /\ queue = <<>>
    BY <1>2, <2>1 DEF Has, Delivery
  <2>3. CASE cb = NoRead
    BY <1>1, <1>2, <2>1, <2>2, <2>3 DEF Delivery
  <2>4. CASE cb # NoRead
    <3>1. PICK b \in Nat, c \in Nat : Arrives(g, b, c)
      BY <2>4 DEF Delivery
    <3> DEFINE l == Len(rows)
    <3>2. rows \in Seq(1..total) /\ l \in Nat /\ g + l \in Nat /\ srv.out \in Seq(Msg)
          /\ Rest.out = Tail(srv.out) /\ Head(srv.out) \in Msg
      <4>1. rows \in Seq(1..total) /\ srv.out \in Seq(Msg)
        BY <1>1, Facts DEF Typed, ReadTyped
      <4>2. l \in Nat /\ g + l \in Nat
        BY <4>1, LenProperties
      <4>3. Rest.out = Tail(srv.out)
        BY <1>1, RestSession
      <4>4. Head(srv.out) \in Msg
        BY <1>1, <4>1, HeadTailProperties
      <4> QED BY <4>1, <4>2, <4>3, <4>4
    <3>3. c \in Nat \ {0} /\ Head(srv.out).row = (g + l) + 1
          /\ RowsAt(Rest.out, 0, c - 1, (g + l) + 1)
      <4>1. RowsAt(srv.out, b, c, g + l)
        BY <3>1 DEF Arrives
      <4> HIDE DEF l
      <4> QED BY <1>1, <2>1, <3>2, <4>1, RowsAtTail
    <3>4. Head(srv.out).row \in 1..total
      BY <2>1, <3>2 DEF Msg, Plain
    <3>5. Len(rows') = l + 1 /\ rows'[l + 1] = g + (l + 1) /\ \A i \in 1..l : rows'[i] = rows[i]
      BY <2>1, <3>2, <3>3, <3>4, AppendProperties
    <3>6. \A i \in 1..Len(rows') : rows'[i] = g + i
      <4>1. \A i \in 1..Len(rows') : i \in 1..l \/ i = l + 1
        BY <3>2, <3>5
      <4>2. \A i \in 1..l : rows[i] = g + i
        BY <2>4 DEF Delivery
      <4> HIDE DEF l
      <4> QED BY <3>5, <4>1, <4>2
    <3>7. RowsAt(srv'.out, 0, c - 1, g + Len(rows'))
      <4>1. g + (l + 1) = (g + l) + 1
        BY <3>2
      <4> QED BY <2>1, <3>3, <3>5, <4>1
    <3>8. closing = "no" /\ streamed => Len(rows') + (c - 1) <= hwm
      <4>1. closing = "no" /\ streamed => l + c <= hwm
        BY <3>1 DEF Arrives
      <4>2. (l + 1) + (c - 1) = l + c
        BY <3>2, <3>3
      <4> QED BY <3>5, <4>1, <4>2
    <3>9. ASSUME closing = "no", srv.up, srv.syncs = 0
          PROVE  /\ srv'.sent = g + Len(rows') + (c - 1)
                 /\ Has(srv'.out, {"commandComplete"}) => srv'.sent = total
                 /\ streamed /\ Sends' => Len(rows') + (c - 1) = hwm
                 /\ c - 1 > 0 => Has(srv'.out, Answer)
      <4>1. /\ srv.sent = g + l + c
            /\ Has(srv.out, {"commandComplete"}) => srv.sent = total
            /\ streamed /\ Sends => l + c = hwm
            /\ c > 0 => Has(srv.out, Answer)
        BY <3>1, <3>9 DEF Arrives
      <4>2. (l + 1) + (c - 1) = l + c /\ g + (l + 1) + (c - 1) = g + l + c /\ c > 0
        BY <3>2, <3>3
      <4>3. Has(Rest.out, Answer) <=> Has(srv.out, Answer)
        BY <1>1, <2>1, RestKeeps DEF Answer
      <4> HIDE DEF l
      <4> QED BY <1>2, <1>3, <2>1, <3>5, <4>1, <4>2, <4>3 DEF Sends
    <3>10. Arrives(g, 0, c - 1)'
      BY <1>1, <1>2, <2>1, <3>7, <3>8, <3>9 DEF Arrives
    <3>11. c - 1 \in Nat
      BY <3>3
    <3> QED BY <1>1, <2>1, <2>2, <2>4, <3>6, <3>10, <3>11 DEF Delivery
  <2> QED BY <2>3, <2>4
<1>9. CASE PortalSuspended
  <2>1. /\ srv' = Rest /\ Head(srv.out).is = "portalSuspended"
        /\ UNCHANGED <<queue, cb, rows, closing>>
    BY <1>9 DEF PortalSuspended, Receives
  <2>2. Has(srv.out, {"portalSuspended"})
    BY <1>2, <2>1 DEF Has
  <2>3. closing = "no" => ~Has(srv'.out, {"dataRow"})
    <3>1. closing = "no" => Rest.out = <<>>
      BY <1>1, <1>4, <2>1, RestEnds DEF Running, Answer
    <3> QED BY <2>1, <3>1, NothingHas
  <2> QED BY <1>1, <1>2, <1>3, <1>5, <2>1, <2>2, <2>3, DeliveryKept DEF Sends
<1>10. CASE CommandComplete
  <2>1. /\ ClosePortal(Rest) /\ Head(srv.out).is = "commandComplete"
        /\ UNCHANGED <<queue, cb, rows, closing>>
    BY <1>10 DEF CommandComplete, Receives
  <2>2. /\ srv'.up = srv.up
        /\ state \in {"done", "error"} =>
              srv'.syncs = srv.syncs /\ srv'.out = Rest.out /\ srv'.sent = srv.sent
        /\ state \notin {"done", "error"} => Syncs(Rest, srv')
    BY <1>2, <2>1, ClosePortalLeaves
  <2>3. closing = "no" => state \notin {"done", "error"}
    BY <1>4, <2>1 DEF Running
  <2>4. CASE state \in {"done", "error"}
    BY <1>1, <1>2, <1>3, <1>5, <2>1, <2>2, <2>3, <2>4, DeliveryKept
  <2>5. CASE state \notin {"done", "error"}
    BY <1>1, <1>2, <1>6, <2>1, <2>2, <2>5, DeliveryKept
  <2> QED BY <2>4, <2>5
<1>11. CASE EmptyQuery
  <2>1. /\ Head(srv.out).is = "emptyQuery" /\ Syncs(Rest, srv')
        /\ UNCHANGED <<queue, cb, rows, closing>>
    BY <1>2, <1>11, SyncedSyncs DEF EmptyQuery, Receives
  <2> QED BY <1>1, <1>6, <2>1, DeliveryKept
<1>12. CASE ErrorMessage
  <2>1. HandleError(Rest) /\ Head(srv.out).is = "error" /\ state # "initialized" /\ rows' = rows
    BY <1>1, <1>12 DEF ErrorMessage, Receives, Begun
  <2>2. CASE state \notin {"done", "error"}
    BY <1>1, <1>2, <2>1, <2>2, HandleErrorDelivery
  <2>3. CASE state \in {"done", "error"}
    <3>1. srv' = Rest /\ UNCHANGED <<queue, cb, closing>>
      BY <2>1, <2>3 DEF HandleError, HandlesError
    <3>2. closing # "no"
      BY <1>4, <2>1, <2>3 DEF Running
    <3> QED BY <1>1, <1>2, <1>3, <1>5, <2>1, <3>1, <3>2, DeliveryKept
  <2> QED BY <2>2, <2>3
<1>13. CASE ReadyForQuery
  <2>1. /\ srv' = Rest /\ Head(srv.out).is = "readyForQuery" /\ UNCHANGED <<queue, cb, rows>>
        /\ closing' = "no" => closing = "no"
    BY <1>13 DEF ReadyForQuery
  <2>2. Has(srv.out, {"readyForQuery"})
    BY <1>2, <2>1 DEF Has
  <2>3. srv.syncs # 0
    BY <1>1, <2>2 DEF Begun
  <2> QED BY <1>1, <1>2, <1>3, <1>5, <2>1, <2>3, DeliveryKept
<1>14. CASE StrayError
  <2>1. /\ srv' = Rest /\ Head(srv.out).is = "error" /\ ~active
        /\ UNCHANGED <<queue, cb, rows, closing>>
    BY <1>14 DEF StrayError
  <2>2. closing # "no"
    BY <1>1, <1>4, <2>1 DEF Running, Ordered, Alive, Begun
  <2> QED BY <1>1, <1>2, <1>3, <1>5, <2>1, <2>2, DeliveryKept
<1> QED BY <1>7, <1>8, <1>9, <1>10, <1>11, <1>12, <1>13, <1>14 DEF Deliver

\* The callbacks that give a read nothing.
LEMMA RunDelivery ==
    ASSUME Ordered, Typed', NEW g \in Nat, Delivery(g), RunImmediate, hwm' = hwm,
           ~(SendRows /\ cb # NoRead)
    PROVE  Delivery(g)'
<1>1. /\ immediates # <<>> /\ UNCHANGED <<total, streamed, queue, srv>> /\ Typed
      /\ SendRows \/ AnswerDone \/ AnswerError \/ EmitEnd \/ CloseSoon
  BY DEF RunImmediate, Ordered
<1>2. CASE SendRows
  <2>1. cb = NoRead /\ UNCHANGED <<cb, closing>>
    BY <1>2 DEF SendRows
  <2> QED BY <1>1, <2>1 DEF Delivery
<1>3. CASE AnswerDone \/ AnswerError \/ EmitEnd \/ CloseSoon
  <2>1. /\ UNCHANGED <<cb, rows>>
        /\ closing' = "no" => closing = "no" /\ immediates' = Tail(immediates)
    BY <1>3 DEF AnswerDone, AnswerError, EmitEnd, CloseSoon, ErrorCallbacks
  <2>2. closing' = "no" => (Sends' => Sends)
    BY <1>1, <2>1, TailDoes DEF Sends
  <2>3. UNCHANGED <<cb, rows, queue, streamed, total, hwm>> /\ srv' = srv
    BY <1>1, <2>1
  <2>4. \A b, c, p \in Nat : RowsAt(srv.out, b, c, p) => \E d \in Nat : RowsAt(srv'.out, d, c, p)
    BY <2>3
  <2> QED BY <1>1, <2>1, <2>2, <2>3, <2>4, DeliveryKept
<1> QED BY <1>1, <1>2, <1>3

\* The callback that _sendRows leaves behind gives the read its rows.
LEMMA DeliverySent ==
    ASSUME Ordered, Typed', NEW g \in Nat, Delivery(g), RunImmediate, SendRows, cb # NoRead,
           NEW h \in Nat, h = g + Len(rows)
    PROVE  Delivery(h)'
<1>1. /\ immediates # <<>> /\ Head(immediates).do = "send" /\ cb' = NoRead /\ rows' = <<>>
      /\ UNCHANGED <<streamed, queue, srv, closing>> /\ Typed
  BY DEF RunImmediate, SendRows, Ordered
<1>2. queue' = <<>> /\ Len(queue') = 0
  BY <1>1, EmptySeq DEF Ordered, OnePlace
<1>3. ASSUME srv.up, srv.syncs = 0, closing = "no"
      PROVE  srv.sent = g + Len(rows) /\ ~Has(srv.out, {"dataRow"})
  <2>1. Running
    BY <1>3 DEF Ordered, Once, Unclosed
  <2>2. ~Does(immediates, {"end", "close"})
    BY <1>1, ImmediateHead DEF Does
  <2>3. ~Has(srv.out, Answer)
    BY <2>1, <2>2 DEF Running
  <2>4. PICK b \in Nat, c \in Nat : Arrives(g, b, c)
    BY DEF Delivery
  <2>5. c = 0
    BY <1>3, <2>3, <2>4 DEF Arrives
  <2>6. srv.out \in Seq(Msg) /\ rows \in Seq(1..total) /\ Len(rows) \in Nat
    BY <1>1, Facts, LenProperties DEF Typed, ReadTyped
  <2>7. RowsAt(srv.out, b, c, g + Len(rows))
    BY <2>4 DEF Arrives
  <2>8. ~Has(srv.out, {"dataRow"})
    BY <2>5, <2>6, <2>7, SomeRows
  <2>9. srv.sent = g + Len(rows) + c
    BY <1>3, <2>4 DEF Arrives
  <2> QED BY <2>5, <2>6, <2>8, <2>9
<1>4. srv'.up /\ srv'.syncs = 0 /\ (closing' = "no" \/ queue' # <<>>) =>
         srv'.sent = h /\ ~Has(srv'.out, {"dataRow"})
  BY <1>1, <1>2, <1>3
<1> QED BY <1>1, <1>2, <1>4 DEF Delivery

\* The step in which a read gets its rows.
Gives == Immediates /\ SendRows /\ cb # NoRead

LEMMA DeliveryStep ==
    ASSUME Ordered, Typed', kind = "rows", NEW g \in Nat, Delivery(g), [Next]_vars, ~Gives
    PROVE  Delivery(g)'
<1>1. hwm \in Sizes
  BY DEF Ordered, Typed
<1>2. CASE ProgramReads
  BY <1>2, ReadDelivery DEF ProgramReads, streamVars
<1>3. CASE StreamReads
  BY <1>1, <1>3, ReadDelivery DEF StreamReads, streamVars
<1>4. CASE ProgramCloses \/ StreamEnds
  BY <1>4, CloseDelivery DEF ProgramCloses, StreamEnds, streamVars
<1>5. CASE Immediates
  BY <1>5, RunDelivery DEF Gives, Immediates
<1>6. CASE Take \/ UNCHANGED vars
  <2>1. UNCHANGED <<cb, rows, queue, streamed, total, hwm, closing, srv, immediates>>
    BY <1>6 DEF Take, vars, cursorVars, streamVars
  <2>2. \A b, c, p \in Nat : RowsAt(srv.out, b, c, p) => \E d \in Nat : RowsAt(srv'.out, d, c, p)
    BY <2>1
  <2> QED BY <2>1, <2>2, DeliveryKept DEF Ordered, Sends
<1>7. CASE CursorSteps /\ UNCHANGED streamVars
  BY <1>7, SubmitDelivery, DeliverDelivery, ConnectionLostDelivery DEF CursorSteps, streamVars
<1> QED BY <1>2, <1>3, <1>4, <1>5, <1>6, <1>7 DEF Next

\* Otherwise no read gets rows.
LEMMA GivenKept == ASSUME Typed, OnePlace, [Next]_vars, ~Gives PROVE given' = given
<1>1. CASE Immediates
  <2>1. CASE SendRows
    BY <1>1, <2>1 DEF SendRows, Gives, readVars
  <2>2. CASE AnswerDone \/ AnswerError
    <3>1. immediates # <<>> /\ Head(immediates).do \in {"done", "error"}
      BY <1>1, <2>2 DEF Immediates, RunImmediate, AnswerDone, AnswerError
    <3>2. Head(immediates).read # NoRead /\ Head(immediates) = immediates[1]
          /\ 1 \in 1..Len(immediates)
      BY <3>1, ImmediateHead DEF TasksOf, NoRead
    <3>3. Head(immediates).read = asked /\ told[asked] = "no" /\ asked \in Reads
      BY <3>1, <3>2, ImmediateHead DEF OnePlace, Typed, ReadTyped, NoRead, Reads, TasksOf
    <3>4. given[asked] = <<>> /\ given \in [Reads -> Seq(1..total)]
      BY <3>3 DEF OnePlace, Typed, ReadTyped
    <3>5. given' = [given EXCEPT ![asked] = <<>>]
      BY <2>2, <3>3 DEF AnswerDone, AnswerError, Tells
    <3> QED BY <3>3, <3>4, <3>5
  <2>3. CASE EmitEnd \/ CloseSoon
    BY <2>3 DEF EmitEnd, CloseSoon, readVars
  <2> QED BY <1>1, <2>1, <2>2, <2>3 DEF Immediates, RunImmediate
<1>2. CASE ProgramReads \/ StreamReads \/ ProgramCloses \/ StreamEnds \/ Take \/ UNCHANGED vars
  BY <1>2 DEF ProgramReads, StreamReads, ProgramCloses, StreamEnds, Take, vars, cursorVars,
              readVars, Read, Close
<1>3. CASE CursorSteps
  BY <1>3 DEF CursorSteps, Submit, Deliver, Described, DataRow, PortalSuspended, CommandComplete,
           EmptyQuery, ErrorMessage, StrayError, ReadyForQuery, ConnectionLost, HandleError, HandlesError,
           readVars
<1> QED BY <1>1, <1>2, <1>3 DEF Next

LEMMA GivesTells ==
    ASSUME Typed, OnePlace, Gives
    PROVE  /\ given' = [given EXCEPT ![asked] = rows] /\ asked \in Reads /\ cb = asked
           /\ asked' = asked /\ told[asked] = "no" /\ given[asked] = <<>>
<1>1. cb = asked /\ told[asked] = "no" /\ asked \in Reads
  BY DEF Gives, OnePlace, Typed, ReadTyped, NoRead, Reads
<1> QED BY <1>1 DEF Gives, SendRows, Tells, Immediates, RunImmediate, OnePlace

-----------------------------------------------------------------------------
\* A cursor that is done has all rows, in its reads and in _rows, and at 'end' the
\* reads have them.
HeldRows == IF cb = NoRead THEN 0 ELSE Len(rows)
Finish(g) ==
    closing = "no" => /\ state = "done" => g + HeldRows = total
                      /\ ended => g = total

LEMMA FinishSame ==
    ASSUME NEW g, Finish(g), closing' = "no" => closing = "no", state' = "done" => state = "done",
           UNCHANGED <<ended, total>>, state' = "done" => UNCHANGED <<cb, rows>>
    PROVE  Finish(g)'
  BY DEF Finish, HeldRows

LEMMA LastPage ==
    ASSUME Ordered, NEW g \in Nat, Delivery(g), closing = "no", srv.out # <<>>,
           Head(srv.out).is = "commandComplete"
    PROVE  g + HeldRows = total
<1>1. Typed /\ srv.up /\ srv.syncs = 0 /\ Running
  BY HeardAtEnd DEF Ordered
<1>2. AnswerLast(srv.out) /\ srv.out \in Seq(Msg)
  BY <1>1, Facts DEF Running
<1>3. /\ Has(srv.out, {"commandComplete"}) /\ Has(srv.out, Answer) /\ ~Has(srv.out, {"dataRow"})
  BY <1>1, <1>2, RestEnds DEF Answer
<1>4. cb = asked /\ asked > 0
  BY <1>1, <1>3 DEF Running, Fetching, Waiting
<1>5. cb # NoRead
  BY <1>1, <1>4, Facts DEF NoRead
<1>6. PICK b \in Nat, c \in Nat : Arrives(g, b, c)
  BY <1>5 DEF Delivery
<1>7. srv.sent = g + Len(rows) + c /\ srv.sent = total
  BY <1>1, <1>3, <1>6 DEF Arrives
<1>8. RowsAt(srv.out, b, c, g + Len(rows)) /\ Len(rows) \in Nat
  BY <1>1, <1>6, LenProperties DEF Arrives, Typed, ReadTyped
<1>9. c = 0
  BY <1>2, <1>3, <1>8, SomeRows
<1> QED BY <1>5, <1>7, <1>8, <1>9 DEF HeldRows

LEMMA DeliverFinish ==
    ASSUME Ordered, kind = "rows", NEW g \in Nat, Delivery(g), Finish(g), Deliver,
           closing = "no"
    PROVE  Finish(g)'
<1>1. srv.out # <<>> /\ UNCHANGED <<total, ended>>
  BY DEF Deliver, Described, DataRow, PortalSuspended, CommandComplete, EmptyQuery,
         ErrorMessage, StrayError, ReadyForQuery, Receives, Untouched
<1>2. Typed /\ Begun /\ Once /\ Alive /\ AtEnd
  BY DEF Ordered
<1>3. ASSUME Head(srv.out).is # "readyForQuery" PROVE state \notin {"done", "error"} /\ ~ended
  BY <1>1, <1>2, <1>3, HeardAtEnd
<1>4. CASE Described \/ PortalSuspended
  <2>1. state' \in {"busy", "idle"} /\ ~ended
    BY <1>3, <1>4 DEF Described, PortalSuspended, Receives, ShiftQueue, GetRows
  <2> QED BY <1>1, <2>1 DEF Finish
<1>5. CASE DataRow \/ EmptyQuery
  <2>1. state' = state /\ state # "done" /\ ~ended
    BY <1>3, <1>5 DEF DataRow, EmptyQuery, Receives
  <2> QED BY <1>1, <2>1 DEF Finish
<1>6. CASE CommandComplete
  <2>1. Head(srv.out).is = "commandComplete" /\ UNCHANGED <<cb, rows>> /\ ~ended
    BY <1>3, <1>6 DEF CommandComplete, Receives
  <2>2. g + HeldRows = total
    BY <1>1, <2>1, LastPage
  <2> QED BY <1>1, <2>1, <2>2 DEF Finish, HeldRows
<1>7. CASE ErrorMessage
  <2>1. HandleError(Rest) /\ state \notin {"done", "error"} /\ ~ended
    BY <1>3, <1>7 DEF ErrorMessage, Receives
  <2> QED BY <1>1, <2>1 DEF HandleError, HandlesError, Finish
<1>8. CASE ReadyForQuery
  <2>1. /\ UNCHANGED <<cb, rows>> /\ Head(srv.out).is = "readyForQuery"
        /\ active \/ state' = state
    BY <1>8 DEF ReadyForQuery
  <2>2. Has(srv.out, {"readyForQuery"})
    BY <1>1, <1>2, <2>1, RestSession DEF Has
  <2>3. active => state = "done"
    BY <1>2, <2>2 DEF Begun, AtEnd
  <2> QED BY <1>1, <2>1, <2>3, FinishSame
<1>9. CASE StrayError
  <2>1. state' = state /\ state # "done" /\ ~ended
    BY <1>3, <1>9 DEF StrayError
  <2> QED BY <1>1, <2>1 DEF Finish
<1> QED BY <1>4, <1>5, <1>6, <1>7, <1>8, <1>9 DEF Deliver

LEMMA FinishStep ==
    ASSUME Ordered, kind = "rows", NEW g \in Nat, Delivery(g), Finish(g), [Next]_vars, ~Gives
    PROVE  Finish(g)'
<1> SUFFICES ASSUME closing' = "no" PROVE Finish(g)'
  BY DEF Finish
<1>1. /\ Typed /\ AtEnd /\ closing = "no" /\ total \in Nat
      /\ ended => state = "done"
  BY StaysClosing, Facts DEF Ordered, AtEnd
<1>2. CASE ProgramReads \/ StreamReads
  <2>1. PICK n \in Sizes : Read(n)
    BY <1>2 DEF ProgramReads, StreamReads, Ordered, Typed
  <2>2. UNCHANGED <<total, ended>>
    BY <2>1 DEF Read
  <2>3. CASE state \in {"idle", "submitted"}
    <3>1. state' = "busy"
      BY <2>1, <2>3 DEF Read, GetRows
    <3>2. ~ended'
      BY <1>1, <2>2, <2>3
    <3> QED BY <3>1, <3>2 DEF Finish
  <2>4. CASE state \notin {"idle", "submitted"}
    <3>1. UNCHANGED <<state, cb, rows>>
      BY <1>1, <2>1, <2>4 DEF Read, Typed, State
    <3> QED BY <1>1, <2>2, <3>1, FinishSame
  <2> QED BY <2>3, <2>4
<1>3. CASE ProgramCloses \/ StreamEnds
  BY <1>3 DEF ProgramCloses, StreamEnds, Close
<1>4. CASE Immediates
  <2>1. UNCHANGED <<state, total>> /\ immediates # <<>>
    BY <1>4 DEF Immediates, RunImmediate
  <2>2. CASE EmitEnd
    <3>1. UNCHANGED <<cb, rows>> /\ Head(immediates).do = "end"
      BY <2>2 DEF EmitEnd
    <3>2. Head(immediates) = immediates[1] /\ 1 \in 1..Len(immediates)
      BY <1>1, <2>1, ImmediateHead
    <3>3. state = "done" /\ cb = NoRead
      BY <1>1, <3>1, <3>2 DEF AtEnd
    <3> QED BY <1>1, <2>1, <3>1, <3>3 DEF Finish, HeldRows
  <2>3. CASE SendRows
    <3>1. cb = NoRead /\ cb' = NoRead /\ ended' = ended
      BY <1>4, <2>3 DEF SendRows, Gives
    <3> QED BY <1>1, <2>1, <3>1 DEF Finish, HeldRows
  <2>4. CASE AnswerDone \/ AnswerError \/ CloseSoon
    <3>1. UNCHANGED <<cb, rows, ended>>
      BY <2>4 DEF AnswerDone, AnswerError, CloseSoon
    <3> QED BY <1>1, <2>1, <3>1, FinishSame
  <2> QED BY <1>4, <2>2, <2>3, <2>4 DEF Immediates, RunImmediate
<1>5. CASE Take \/ UNCHANGED vars
  BY <1>1, <1>5, FinishSame DEF Take, vars, cursorVars
<1>6. CASE CursorSteps
  <2>1. CASE Submit
    BY <1>1, <2>1 DEF Submit, Finish
  <2>2. CASE Deliver
    BY <1>1, <2>2, DeliverFinish
  <2>3. CASE ConnectionLost
    <3>1. UNCHANGED <<total, ended, rows>> /\ (state' = "done" => UNCHANGED <<state, cb>>)
          /\ (state # state' => state # "done")
      BY <2>3 DEF ConnectionLost, HandleError, HandlesError
    <3> QED BY <1>1, <3>1 DEF Finish, HeldRows
  <2> QED BY <1>6, <2>1, <2>2, <2>3 DEF CursorSteps
<1> QED BY <1>2, <1>3, <1>4, <1>5, <1>6 DEF Next

LEMMA FinishSent ==
    ASSUME Ordered, NEW g \in Nat, Finish(g), Gives, NEW h \in Nat, h = g + Len(rows)
    PROVE  Finish(h)'
<1>1. /\ UNCHANGED <<state, total, closing, ended>> /\ cb # NoRead /\ cb' = NoRead
      /\ closing = "no" /\ ended => state = "done"
  BY DEF Gives, Immediates, RunImmediate, SendRows, Ordered, AtEnd
<1> QED BY <1>1 DEF Finish, HeldRows

-----------------------------------------------------------------------------
\* What the consumer took and the Readable holds are the first rows, all that the
\* reads got unless the stream is being closed.
Held(g) ==
    /\ Len(taken) + Len(buffer) <= g
    /\ \A i \in 1..Len(taken) : taken[i] = i
    /\ \A i \in 1..Len(buffer) : buffer[i] = Len(taken) + i
    /\ streamed /\ closing = "no" => Len(taken) + Len(buffer) = g
    /\ nulled => Len(taken) + Len(buffer) = total
    /\ ~streamed => buffer = <<>> /\ ~nulled
    /\ streamed /\ closing = "no" /\ Waiting => Len(buffer) < hwm
    /\ Len(buffer) < 2 * hwm

LEMMA HeldKept ==
    ASSUME NEW g, Held(g), UNCHANGED <<buffer, taken, nulled, streamed, total, hwm>>,
           closing' = "no" => closing = "no",
           closing' = "no" /\ Waiting' /\ streamed => Waiting \/ Len(buffer) < hwm
    PROVE  Held(g)'
  BY DEF Held

\* A page that is not full is the last one.
LEMMA ShortPage ==
    ASSUME Ordered, NEW g \in Nat, Delivery(g), Finish(g), Gives, streamed, closing = "no"
    PROVE  Len(rows) <= hwm /\ (Len(rows) < hwm => g + Len(rows) = total)
<1>1. /\ Typed /\ cb # NoRead /\ immediates # <<>> /\ Head(immediates).do = "send"
  BY DEF Ordered, Gives, SendRows, Immediates, RunImmediate
<1>2. ~Does(immediates, {"end", "close"})
  BY <1>1, ImmediateHead DEF Does
<1>3. PICK b \in Nat, c \in Nat : Arrives(g, b, c)
  BY <1>1 DEF Delivery
<1>4. Len(rows) + c <= hwm /\ Len(rows) \in Nat /\ hwm \in Nat
  BY <1>1, <1>3, LenProperties, Facts DEF Arrives, Typed, ReadTyped
<1>5. ASSUME Len(rows) < hwm, state \notin {"done", "error"} PROVE FALSE
  <2>1. srv.up /\ srv.syncs \in {0, 1}
    BY <1>5 DEF Ordered, Alive, Once, Unclosed
  <2>2. srv.syncs = 0
    BY <1>2, <1>5, <2>1 DEF Ordered, Once, Unclosed, Over
  <2>3. Running
    BY <2>1, <2>2 DEF Ordered, Once, Unclosed
  <2>4. ~Has(srv.out, Answer)
    BY <1>2, <2>3 DEF Running
  <2>5. Len(rows) + c = hwm /\ ~(c > 0)
    BY <1>2, <1>3, <2>1, <2>2, <2>4 DEF Arrives, Sends
  <2> QED BY <1>4, <1>5, <2>5
<1>6. state # "error"
  BY <1>1 DEF Ordered, Alive
<1>7. state = "done" => g + Len(rows) = total
  BY <1>1 DEF Finish, HeldRows
<1> QED BY <1>4, <1>5, <1>6, <1>7

LEMMA RunHeld ==
    ASSUME Ordered, kind = "rows", NEW g \in Nat, Finish(g), Held(g), Immediates, ~Gives
    PROVE  Held(g)'
<1>1. /\ immediates # <<>> /\ UNCHANGED <<taken, streamed, total, hwm, asked, state>> /\ Typed
      /\ SendRows \/ AnswerDone \/ AnswerError \/ EmitEnd \/ CloseSoon
  BY DEF Immediates, RunImmediate, Ordered
<1>2. closing' = "no" => closing = "no"
  BY <1>1 DEF SendRows, AnswerDone, AnswerError, EmitEnd, CloseSoon, ErrorCallbacks
<1>3. CASE SendRows \/ EmitEnd \/ CloseSoon
  <2>1. told' = told
    BY <1>3 DEF SendRows, EmitEnd, CloseSoon, readVars, Gives, Immediates
  <2>2. UNCHANGED <<buffer, nulled>> /\ Waiting' = Waiting
    BY <1>1, <2>1 DEF Immediates, Waiting
  <2> QED BY <1>1, <1>2, <2>2, HeldKept
<1>4. CASE AnswerDone \/ AnswerError
  <2>1. /\ Head(immediates).do \in {"done", "error"} /\ Head(immediates) = immediates[1]
        /\ 1 \in 1..Len(immediates) /\ Head(immediates).read # NoRead
    BY <1>1, <1>4, ImmediateHead DEF AnswerDone, AnswerError, TasksOf, NoRead
  <2>2. Head(immediates).read = asked /\ told[asked] = "no" /\ asked \in Reads /\ asked > 0
    BY <1>1, <2>1, ImmediateHead DEF Ordered, OnePlace, Typed, ReadTyped, NoRead, Reads, TasksOf
  <2>3. told \in [Reads -> How] /\ given \in [Reads -> Seq(1..total)]
    BY <1>1 DEF Typed, ReadTyped
  <2>4. CASE AnswerError
    <3>1. told'[asked] = "error"
      BY <2>2, <2>3, <2>4 DEF AnswerError, Tells
    <3>2. UNCHANGED <<buffer, nulled>> /\ ~Waiting'
      BY <1>1, <3>1 DEF Immediates, Waiting
    <3> QED BY <1>1, <1>2, <3>2, HeldKept
  <2>5. CASE AnswerDone
    <3>1. told'[asked] = "rows" /\ given'[asked] = <<>> /\ closing' = closing
      BY <2>2, <2>3, <2>5 DEF AnswerDone, Tells
    <3>2. ~Waiting'
      BY <1>1, <3>1 DEF Waiting
    <3>3. CASE streamed /\ closing = "no"
      <4>1. buffer' = buffer \o <<>> /\ nulled' = (Len(<<>>) < hwm)
        BY <2>2, <3>1, <3>3 DEF Immediates, Pushes
      <4>2. buffer' = buffer
        BY <1>1, <4>1, ConcatEmptySeq DEF Typed
      <4>3. state = "done" /\ cb = NoRead
        <5>1. Head(immediates).do = "done"
          BY <2>5 DEF AnswerDone
        <5>2. state = "done"
          BY <2>1, <3>3, <5>1 DEF Ordered, AtEnd
        <5>3. ~Unread(immediates)
          BY <2>1 DEF Unread
        <5> QED BY <5>2, <5>3 DEF Ordered, OnePlace
      <4>4. g = total /\ total \in Nat
        <5>1. g + HeldRows = total /\ HeldRows = 0
          BY <3>3, <4>3 DEF Finish, HeldRows
        <5> QED BY <5>1
      <4>5. Len(taken) + Len(buffer) = total
        BY <3>3, <4>4 DEF Held
      <4> QED BY <1>1, <3>1, <3>2, <3>3, <4>2, <4>5 DEF Held
    <3>4. CASE ~(streamed /\ closing = "no")
      <4>1. UNCHANGED <<buffer, nulled>>
        BY <3>4 DEF Immediates, Pushes
      <4> QED BY <1>1, <1>2, <3>2, <4>1, HeldKept
    <3> QED BY <3>3, <3>4
  <2> QED BY <1>4, <2>4, <2>5
<1> QED BY <1>1, <1>3, <1>4

LEMMA TakeHeld == ASSUME Typed, NEW g, Held(g), Take PROVE Held(g)'
<1>1. /\ buffer # <<>> /\ taken' = Append(taken, Head(buffer)) /\ buffer' = Tail(buffer)
      /\ streamed /\ UNCHANGED <<nulled, streamed, total, hwm, closing, asked, told>>
  BY DEF Take, cursorVars
<1>2. PICK n \in Nat, m \in Nat : n = Len(taken) /\ m = Len(buffer)
  BY LenProperties DEF Typed
<1>3. /\ m # 0 /\ Len(buffer') = m - 1 /\ Head(buffer) = buffer[1]
      /\ \A i \in 1..Len(buffer') : buffer'[i] = buffer[i + 1]
  BY <1>1, <1>2, HeadTailProperties, EmptySeq DEF Typed
<1>4. /\ Len(taken') = n + 1 /\ taken'[n + 1] = Head(buffer)
      /\ \A i \in 1..n : taken'[i] = taken[i]
  <2>1. Head(buffer) \in 1..total
    BY <1>1, HeadTailProperties DEF Typed
  <2> QED BY <1>1, <1>2, <2>1, AppendProperties DEF Typed
<1>5. \A i \in 1..(n + 1) : taken'[i] = i
  <2>1. buffer[1] = n + 1 /\ \A i \in 1..n : taken[i] = i
    BY <1>2, <1>3 DEF Held
  <2> QED BY <1>2, <1>3, <1>4, <2>1
<1>6. \A i \in 1..Len(buffer') : buffer'[i] = (n + 1) + i
  <2>1. \A i \in 1..m : buffer[i] = n + i
    BY <1>2 DEF Held
  <2>2. \A i \in 1..Len(buffer') : i + 1 \in 1..m /\ n + (i + 1) = (n + 1) + i
    BY <1>2, <1>3
  <2> QED BY <1>3, <2>1, <2>2
<1>7. (n + 1) + (m - 1) = n + m /\ m - 1 < m
  OBVIOUS
<1>8. hwm \in Nat
  BY Facts DEF Typed
<1>9. Len(taken') + Len(buffer') = Len(taken) + Len(buffer)
  BY <1>2, <1>3, <1>4, <1>7
<1>10. Waiting' = Waiting
  BY <1>1 DEF Waiting
<1>11. Len(buffer') < 2 * hwm /\ (streamed /\ closing = "no" /\ Waiting => Len(buffer') < hwm)
  BY <1>2, <1>3, <1>8 DEF Held
<1> QED BY <1>1, <1>4, <1>5, <1>6, <1>9, <1>10, <1>11 DEF Held

LEMMA HeldSent ==
    ASSUME Ordered, NEW g \in Nat, Delivery(g), Finish(g), Held(g), Gives,
           NEW h \in Nat, h = g + Len(rows)
    PROVE  Held(h)'
<1>1. /\ UNCHANGED <<taken, streamed, total, hwm, asked, closing>> /\ Typed /\ Typed'
      /\ asked \in Reads /\ cb = asked /\ told[asked] = "no" /\ Waiting
  <2>1. Typed /\ Begun /\ OnePlace /\ [Next]_vars
    BY DEF Ordered, Gives, Next
  <2>2. UNCHANGED <<taken, streamed, total, hwm, asked, closing>>
    BY DEF Gives, Immediates, RunImmediate, SendRows
  <2> QED BY <2>1, <2>2, TypedStep, GivesTells DEF Waiting, Reads
<1>2. told'[asked] = "rows" /\ given'[asked] = rows
  BY <1>1 DEF Gives, SendRows, Tells, Typed, ReadTyped
<1>3. ~Waiting' /\ asked > 0
  BY <1>1, <1>2 DEF Waiting
<1>4. PICK n \in Nat, m \in Nat, k \in Nat : n = Len(taken) /\ m = Len(buffer) /\ k = Len(rows)
  BY <1>1, LenProperties DEF Typed, ReadTyped
<1>5. n + m <= g /\ h = g + k
  BY <1>4 DEF Held
<1>6. CASE ~(streamed /\ closing = "no")
  <2>1. UNCHANGED <<buffer, nulled>>
    BY <1>6 DEF Gives, Immediates, Pushes
  <2>2. n + m <= h
    BY <1>5
  <2> QED BY <1>1, <1>3, <1>4, <1>6, <2>1, <2>2 DEF Held
<1>7. CASE streamed /\ closing = "no"
  <2>1. buffer' = buffer \o rows /\ nulled' = (k < hwm)
    BY <1>1, <1>2, <1>3, <1>4, <1>7 DEF Gives, Immediates, Pushes
  <2>2. Len(buffer') = m + k
        /\ \A i \in 1..(m + k) : buffer'[i] = IF i <= m THEN buffer[i] ELSE rows[i - m]
    BY <1>1, <1>4, <2>1, ConcatProperties DEF Typed, ReadTyped
  <2>3. n + m = g /\ m < hwm /\ hwm \in Nat
    BY <1>1, <1>4, <1>7, Facts DEF Held, Typed
  <2>4. k <= hwm /\ (k < hwm => g + k = total)
    BY <1>4, <1>7, ShortPage
  <2>5. \A i \in 1..(m + k) : buffer'[i] = n + i
    <3>1. \A i \in 1..m : buffer[i] = n + i
      BY <1>4 DEF Held
    <3>2. \A i \in 1..k : rows[i] = g + i
      BY <1>1, <1>4 DEF Delivery, Reads, NoRead
    <3>3. ASSUME NEW i \in 1..(m + k), ~(i <= m) PROVE i - m \in 1..k /\ g + (i - m) = n + i
      BY <2>3, <3>3
    <3>4. ASSUME NEW i \in 1..(m + k), i <= m PROVE i \in 1..m
      BY <3>4
    <3> QED BY <2>2, <3>1, <3>2, <3>3, <3>4
  <2>6. n + (m + k) = h /\ m + k < 2 * hwm /\ (nulled' => n + (m + k) = total)
    <3>1. g \in Nat /\ n + (m + k) = g + k
      BY <2>3
    <3>2. m + k < 2 * hwm
      BY <2>3, <2>4
    <3>3. nulled' => k < hwm
      BY <2>1, Zenon
    <3> QED BY <1>5, <2>4, <3>1, <3>2, <3>3
  <2>7. n + (m + k) <= h
    BY <2>6
  <2> QED BY <1>1, <1>3, <1>4, <1>7, <2>2, <2>5, <2>6, <2>7 DEF Held
<1> QED BY <1>6, <1>7

LEMMA HeldStep ==
    ASSUME Ordered, kind = "rows", NEW g \in Nat, Finish(g), Held(g), [Next]_vars, ~Gives
    PROVE  Held(g)'
<1>1. Typed /\ Begun /\ (closing' = "no" => closing = "no")
  BY StaysClosing DEF Ordered
<1>2. CASE ProgramReads
  <2>1. ~streamed /\ UNCHANGED <<buffer, taken, nulled, streamed, total, hwm>>
    BY <1>2 DEF ProgramReads, Read, streamVars
  <2> QED BY <1>1, <2>1, HeldKept
<1>3. CASE StreamReads
  <2>1. Len(buffer) < hwm /\ UNCHANGED <<buffer, taken, nulled, streamed, total, hwm>>
    BY <1>3 DEF StreamReads, Read, streamVars
  <2> QED BY <1>1, <2>1, HeldKept
<1>4. CASE ProgramCloses \/ StreamEnds
  <2>1. closing' # "no" /\ UNCHANGED <<buffer, taken, nulled, streamed, total, hwm>>
    BY <1>4 DEF ProgramCloses, StreamEnds, Close, streamVars
  <2> QED BY <1>1, <2>1, HeldKept
<1>5. CASE Immediates
  BY <1>5, RunHeld
<1>6. CASE Take
  BY <1>1, <1>6, TakeHeld
<1>7. CASE UNCHANGED vars
  BY <1>1, <1>7, HeldKept DEF vars, cursorVars, streamVars, readVars, Waiting
<1>8. CASE CursorSteps /\ UNCHANGED streamVars
  <2>1. UNCHANGED <<buffer, taken, nulled, streamed, total, hwm, asked>>
    BY <1>8 DEF CursorSteps, Submit, Deliver, Described, DataRow, PortalSuspended, CommandComplete,
            EmptyQuery, ErrorMessage, StrayError, ReadyForQuery, ConnectionLost, Untouched, streamVars
  <2>2. told' = told \/ \E s : HandlesError(s, QueuedReads)
    BY <1>8 DEF CursorSteps, Submit, Deliver, Described, DataRow, PortalSuspended, CommandComplete,
            EmptyQuery, ErrorMessage, StrayError, ReadyForQuery, ConnectionLost, HandleError, readVars
  <2>3. Waiting' => Waiting
    <3>1. \A r \in Reads : told'[r] = "no" => told[r] = "no"
      BY <1>1, <2>2 DEF HandlesError, Typed, ReadTyped
    <3>2. asked > 0 => asked \in Reads
      BY <1>1, Facts DEF Typed, ReadTyped, Reads
    <3> QED BY <2>1, <3>1, <3>2 DEF Waiting
  <2> QED BY <1>1, <2>1, <2>3, HeldKept
<1> QED BY <1>2, <1>3, <1>4, <1>5, <1>6, <1>7, <1>8 DEF Next

-----------------------------------------------------------------------------
\* Pages that follow each other are the first rows, put one after the other.

LEMMA LeastOf == ASSUME NEW S \in SUBSET Nat, S # {} PROVE \E m \in S : \A n \in S : m <= n
<1>1. PICK m \in S : \A n \in S : ~(<<n, m>> \in OpToRel(<, Nat))
  BY NatLessThanWellFounded, WFMin
<1>2. \A n \in S : ~(n < m)
  BY <1>1 DEF OpToRel
<1> QED BY <1>2

FirstRows(n) == [i \in 1..n |-> i]
Follow(N, u, s) ==
    /\ u \in [0..N -> Nat] /\ u[0] = 0
    /\ \A r \in 1..N : /\ u[r - 1] <= u[r] /\ Len(s[r]) = u[r] - u[r - 1]
                       /\ \A i \in 1..Len(s[r]) : s[r][i] = u[r - 1] + i

LEMMA FirstRowsAre ==
    ASSUME NEW n \in Nat
    PROVE  /\ FirstRows(n) \in Seq(Nat) /\ Len(FirstRows(n)) = n
           /\ \A i \in 1..n : FirstRows(n)[i] = i
  BY DEF FirstRows

LEMMA PageAdded ==
    ASSUME NEW N \in Nat, NEW u, NEW s \in [1..N -> Seq(Nat)], Follow(N, u, s), NEW r \in 1..N
    PROVE  FirstRows(u[r - 1]) \o s[r] = FirstRows(u[r])
<1>1. PICK a \in Nat, b \in Nat : a = u[r - 1] /\ b = u[r]
  <2>1. r - 1 \in 0..N /\ r \in 0..N
    OBVIOUS
  <2> QED BY <2>1 DEF Follow
<1>2. a <= b /\ Len(s[r]) = b - a /\ \A i \in 1..Len(s[r]) : s[r][i] = a + i
  BY <1>1 DEF Follow
<1>3. s[r] \in Seq(Nat)
  OBVIOUS
<1>4. /\ FirstRows(a) \in Seq(Nat) /\ Len(FirstRows(a)) = a
      /\ \A i \in 1..a : FirstRows(a)[i] = i
  BY FirstRowsAre
<1>5. /\ FirstRows(b) \in Seq(Nat) /\ Len(FirstRows(b)) = b
      /\ \A i \in 1..b : FirstRows(b)[i] = i
  BY FirstRowsAre
<1> DEFINE t == FirstRows(a) \o s[r]
<1>6. /\ t \in Seq(Nat) /\ Len(t) = Len(FirstRows(a)) + Len(s[r])
      /\ \A i \in 1..(Len(FirstRows(a)) + Len(s[r])) :
            t[i] = IF i <= Len(FirstRows(a)) THEN FirstRows(a)[i]
                                             ELSE s[r][i - Len(FirstRows(a))]
  BY <1>3, <1>4, ConcatProperties
<1> HIDE DEF t
<1>7. Len(FirstRows(a)) + Len(s[r]) = b
  BY <1>2, <1>4
<1>8. Len(t) = b /\ \A i \in 1..b : t[i] = IF i <= a THEN FirstRows(a)[i] ELSE s[r][i - a]
  BY <1>4, <1>6, <1>7
<1>9. \A i \in 1..b : t[i] = i
  <2>1. \A i \in 1..b : i <= a => i \in 1..a
    OBVIOUS
  <2>2. \A i \in 1..b : ~(i <= a) => i - a \in 1..(b - a) /\ a + (i - a) = i
    BY <1>2
  <2> QED BY <1>2, <1>4, <1>8, <2>1, <2>2
<1>10. t = FirstRows(b)
  BY <1>5, <1>6, <1>8, <1>9, SeqEqual
<1> QED BY <1>1, <1>10 DEF t

LEMMA Flattened ==
    ASSUME NEW N \in Nat \ {0}, NEW u, NEW s \in [1..N -> Seq(Nat)], Follow(N, u, s)
    PROVE  FlattenSeq(s) = FirstRows(u[N])
<1> DEFINE Flat(f) == f = [r \in 1..Len(s) |-> IF r = 1 THEN s[r] ELSE f[r - 1] \o s[r]]
           g == [r \in 1..N |-> FirstRows(u[r])]
           flatten == CHOOSE f : Flat(f)
<1>1. Len(s) = N
  OBVIOUS
<1>2. s[1] = FirstRows(u[1])
  <2>1. 1 - 1 = 0 /\ 1 \in 1..N /\ 1 \in 0..N
    OBVIOUS
  <2>2. s[1] \in Seq(Nat) /\ Len(s[1]) = u[1] /\ \A i \in 1..Len(s[1]) : s[1][i] = i
    BY <2>1 DEF Follow
  <2>3. u[1] \in Nat
    BY <2>1 DEF Follow
  <2>4. /\ FirstRows(u[1]) \in Seq(Nat) /\ Len(FirstRows(u[1])) = u[1]
        /\ \A i \in 1..u[1] : FirstRows(u[1])[i] = i
    BY <2>3, FirstRowsAre
  <2> QED BY <2>2, <2>4, SeqEqual
<1>3. Flat(g)
  <2>1. ASSUME NEW r \in 1..N, r # 1 PROVE g[r] = g[r - 1] \o s[r]
    <3>1. r - 1 \in 1..N
      BY <2>1
    <3>2. g[r] = FirstRows(u[r]) /\ g[r - 1] = FirstRows(u[r - 1])
      BY <3>1
    <3>3. FirstRows(u[r - 1]) \o s[r] = FirstRows(u[r])
      BY PageAdded
    <3> QED BY <3>2, <3>3
  <2>2. g[1] = s[1]
    BY <1>2
  <2>3. g = [r \in 1..N |-> g[r]]
    OBVIOUS
  <2> HIDE DEF g
  <2>4. g = [r \in 1..N |-> IF r = 1 THEN s[r] ELSE g[r - 1] \o s[r]]
    BY <2>1, <2>2, <2>3
  <2> QED BY <1>1, <2>4
<1>4. Flat(flatten)
  <2> HIDE DEF g, Flat
  <2> QED BY <1>3
<1>5. FlattenSeq(s) = flatten[N]
  BY <1>1 DEF FlattenSeq
<1> HIDE DEF flatten
<1> DEFINE Bad == {r \in 1..N : flatten[r] # FirstRows(u[r])}
<1>6. Bad = {}
  <2>1. SUFFICES ASSUME Bad # {} PROVE FALSE
    OBVIOUS
  <2>2. PICK m \in Bad : \A r \in Bad : m <= r
    <3>1. Bad \in SUBSET Nat
      OBVIOUS
    <3> HIDE DEF Bad
    <3> QED BY <2>1, <3>1, LeastOf
  <2>3. m \in 1..N /\ m # 1
    BY <1>1, <1>2, <1>4
  <2>4. m - 1 \in 1..N /\ ~(m <= m - 1)
    BY <2>3
  <2>5. flatten[m - 1] = FirstRows(u[m - 1])
    BY <2>2, <2>4
  <2>6. flatten[m] = flatten[m - 1] \o s[m]
    BY <1>1, <1>4, <2>3
  <2>7. flatten[m] = FirstRows(u[m])
    <3>1. FirstRows(u[m - 1]) \o s[m] = FirstRows(u[m])
      BY <2>3, PageAdded
    <3> QED BY <2>5, <2>6, <3>1
  <2> QED BY <2>2, <2>7
<1>7. flatten[N] = FirstRows(u[N])
  BY <1>6
<1> QED BY <1>5, <1>7

-----------------------------------------------------------------------------
\* The invariant: the reads have u[MaxReads] rows, the first r of them u[r].
Pages(u) ==
    /\ Follow(MaxReads, u, given)
    /\ \A r \in asked..MaxReads : u[r] = u[MaxReads]
Exactly(g) == Delivery(g) /\ Finish(g) /\ Held(g)
StreamRows ==
    /\ Ordered
    /\ kind # "rows" => total = 0
    /\ kind = "rows" => \E u \in [0..MaxReads -> Nat] : Pages(u) /\ Exactly(u[MaxReads])

LEMMA PagesKept ==
    ASSUME Typed, Typed', asked <= asked', given' = given, NEW u, Pages(u) PROVE Pages(u)'
<1>1. asked'..MaxReads \subseteq asked..MaxReads
  BY DEF Typed, ReadTyped
<1> QED BY <1>1 DEF Pages, Follow

LEMMA PagesSent ==
    ASSUME Typed, OnePlace, Gives, NEW u \in [0..MaxReads -> Nat], Pages(u),
           Delivery(u[MaxReads]), NEW h, h = u[MaxReads] + Len(rows)
    PROVE  \E w \in [0..MaxReads -> Nat] : Pages(w)' /\ w[MaxReads] = h
<1>1. /\ given' = [given EXCEPT ![asked] = rows] /\ asked \in Reads /\ asked' = asked
      /\ given[asked] = <<>> /\ given \in [Reads -> Seq(1..total)] /\ cb # NoRead
  BY GivesTells DEF Typed, ReadTyped, Gives
<1>2. PICK k \in Nat : k = Len(rows)
  BY LenProperties DEF Typed, ReadTyped
<1>3. PICK g \in Nat : g = u[MaxReads]
  BY Facts
<1>4. \A i \in 1..k : rows[i] = g + i
  BY <1>1, <1>2, <1>3 DEF Delivery
<1>5. PICK w \in [0..MaxReads -> Nat] :
         /\ MaxReads \in Nat /\ asked \in 1..MaxReads
         /\ \A r \in 0..MaxReads : w[r] = IF r < asked THEN u[r] ELSE u[r] + k
  <2> DEFINE v == [r \in 0..MaxReads |-> IF r < asked THEN u[r] ELSE u[r] + k]
  <2>1. v \in [0..MaxReads -> Nat] /\ MaxReads \in Nat /\ asked \in 1..MaxReads
    BY <1>1, Facts DEF Reads
  <2>2. \A r \in 0..MaxReads : v[r] = IF r < asked THEN u[r] ELSE u[r] + k
    OBVIOUS
  <2> HIDE DEF v
  <2> QED BY <2>1, <2>2
<1>6. w[0] = 0 /\ w[MaxReads] = h /\ \A r \in asked..MaxReads : w[r] = w[MaxReads] /\ u[r] = g
  <2>1. 0 \in 0..MaxReads /\ 0 < asked /\ MaxReads \in asked..MaxReads /\ ~(MaxReads < asked)
        /\ \A r \in asked..MaxReads : r \in 0..MaxReads /\ ~(r < asked)
    BY <1>5
  <2> QED BY <1>2, <1>3, <1>5, <2>1 DEF Pages, Follow
<1>7. ASSUME NEW r \in Reads
      PROVE  /\ w[r - 1] <= w[r] /\ Len(given'[r]) = w[r] - w[r - 1]
             /\ \A i \in 1..Len(given'[r]) : given'[r][i] = w[r - 1] + i
  <2>1. /\ r \in 0..MaxReads /\ r - 1 \in 0..MaxReads /\ u[r - 1] \in Nat /\ u[r] \in Nat
        /\ u[r - 1] <= u[r] /\ Len(given[r]) = u[r] - u[r - 1]
        /\ \A i \in 1..Len(given[r]) : given[r][i] = u[r - 1] + i
    <3>1. r \in 1..MaxReads /\ r \in 0..MaxReads /\ r - 1 \in 0..MaxReads
      BY <1>5 DEF Reads
    <3> QED BY <3>1 DEF Pages, Follow
  <2>2. CASE r < asked
    <3>1. given'[r] = given[r] /\ w[r] = u[r] /\ w[r - 1] = u[r - 1]
      BY <1>1, <1>5, <2>1, <2>2 DEF Reads
    <3> QED BY <2>1, <3>1
  <2>3. CASE r = asked
    <3>1. given'[r] = rows /\ w[r] = u[r] + k /\ w[r - 1] = u[r - 1]
      BY <1>1, <1>5, <2>1, <2>3 DEF Reads
    <3>2. u[r] = u[r - 1] /\ u[r] = g
      <4>1. Len(given[r]) = 0
        BY <1>1, <2>3, EmptySeq
      <4>2. r \in asked..MaxReads
        BY <1>5, <2>3
      <4> QED BY <1>6, <2>1, <4>1, <4>2
    <3> QED BY <1>2, <1>4, <2>1, <3>1, <3>2
  <2>4. CASE r > asked
    <3>1. r \in asked..MaxReads /\ r - 1 \in asked..MaxReads
      BY <1>5, <2>1, <2>4
    <3>2. u[r] = g /\ u[r - 1] = g /\ w[r] = w[r - 1] /\ w[r] \in Nat
      BY <1>5, <1>6, <2>1, <3>1
    <3>3. given'[r] = given[r] /\ Len(given[r]) = 0
      BY <1>1, <1>3, <2>1, <2>4, <3>2 DEF Reads
    <3> QED BY <3>2, <3>3
  <2> QED BY <1>5, <2>1, <2>2, <2>3, <2>4
<1>8. Follow(MaxReads, w, given')
  BY <1>5, <1>6, <1>7 DEF Follow, Reads
<1>9. Pages(w)'
  BY <1>1, <1>6, <1>8 DEF Pages, Follow
<1> QED BY <1>5, <1>6, <1>9

LEMMA OrderedStep == ASSUME Ordered, [Next]_vars PROVE Ordered'
<1>1. Attended
  BY DEF Ordered, Alive, Attended
<1> QED BY <1>1, TypedStep, BegunStep, OnceStep, PlaceStep, AliveStep, AtEndStep DEF Ordered

LEMMA KeepsStatement == ASSUME [Next]_vars PROVE UNCHANGED <<kind, total>>
<1>1. CASE ProgramReads \/ StreamReads
  BY <1>1 DEF ProgramReads, StreamReads, Read
<1>2. CASE ~(ProgramReads \/ StreamReads)
  BY <1>2 DEF Next, ProgramCloses, StreamEnds, Immediates, RunImmediate, Take, CursorSteps,
              Close, Submit, ConnectionLost, Deliver, Described, DataRow, PortalSuspended,
              CommandComplete, EmptyQuery, ErrorMessage, StrayError, ReadyForQuery, Untouched, vars, cursorVars
<1> QED BY <1>1, <1>2

LEMMA StreamRowsStep == ASSUME StreamRows, [Next]_vars PROVE StreamRows'
<1>1. Ordered /\ Ordered' /\ Typed /\ Typed' /\ OnePlace
  BY OrderedStep DEF StreamRows, Ordered
<1>2. UNCHANGED <<kind, total>> /\ asked <= asked'
  <2>1. UNCHANGED <<kind, total>>
    BY KeepsStatement
  <2>2. asked' \in {asked, asked + 1} /\ asked \in Nat
    <3>1. CASE ProgramReads \/ StreamReads
      BY <1>1, <3>1, Facts DEF ProgramReads, StreamReads, Read
    <3>2. CASE ~(ProgramReads \/ StreamReads)
      BY <1>1, <3>2, Facts
         DEF Next, ProgramCloses, StreamEnds, Immediates, RunImmediate, Take, CursorSteps,
             Close, Submit, ConnectionLost, Deliver, Described, DataRow, PortalSuspended,
             CommandComplete, EmptyQuery, ErrorMessage, StrayError, ReadyForQuery, Untouched, vars, cursorVars
    <3> QED BY <3>1, <3>2
  <2> QED BY <2>1, <2>2
<1>3. CASE kind # "rows"
  BY <1>1, <1>2, <1>3 DEF StreamRows
<1>4. CASE kind = "rows"
  <2>1. PICK u \in [0..MaxReads -> Nat] : Pages(u) /\ Exactly(u[MaxReads])
    BY <1>4 DEF StreamRows
  <2>2. PICK g \in Nat : g = u[MaxReads]
    BY <1>1, Facts
  <2>3. Delivery(g) /\ Finish(g) /\ Held(g)
    BY <2>1, <2>2 DEF Exactly
  <2>4. CASE ~Gives
    <3>1. Delivery(g)'
      BY <1>1, <1>4, <2>3, <2>4, DeliveryStep
    <3>2. Finish(g)'
      BY <1>1, <1>4, <2>3, <2>4, FinishStep
    <3>3. Held(g)'
      BY <1>1, <1>4, <2>3, <2>4, HeldStep
    <3>4. Pages(u)'
      BY <1>1, <1>2, <2>1, <2>4, GivenKept, PagesKept
    <3>5. Exactly(u[MaxReads])'
      BY <2>2, <3>1, <3>2, <3>3 DEF Exactly
    <3> QED BY <1>1, <1>2, <1>4, <3>4, <3>5 DEF StreamRows
  <2>5. CASE Gives
    <3>1. PICK h \in Nat : h = g + Len(rows)
      BY <1>1, LenProperties DEF Typed, ReadTyped
    <3>2. PICK w \in [0..MaxReads -> Nat] : Pages(w)' /\ w[MaxReads] = h
      BY <1>1, <2>1, <2>2, <2>3, <2>5, <3>1, PagesSent
    <3>3. Delivery(h)'
      BY <1>1, <2>3, <2>5, <3>1, DeliverySent DEF Gives, Immediates
    <3>4. Finish(h)' /\ Held(h)'
      BY <1>1, <2>3, <2>5, <3>1, FinishSent, HeldSent
    <3>5. Exactly(w[MaxReads])'
      BY <3>2, <3>3, <3>4 DEF Exactly
    <3> QED BY <1>1, <1>2, <1>4, <3>2, <3>5 DEF StreamRows
  <2> QED BY <2>4, <2>5
<1> QED BY <1>3, <1>4

LEMMA StreamRowsInit == StreamInit => StreamRows
<1> SUFFICES ASSUME StreamInit PROVE StreamRows
  OBVIOUS
<1>1. /\ Typed /\ cb = NoRead /\ queue = <<>> /\ immediates = <<>> /\ srv.out = <<>>
      /\ srv.up /\ srv.syncs = 0 /\ srv.sent = 0 /\ ~srv.portal /\ ~srv.skipping
      /\ state = "initialized" /\ ~ended /\ ~active /\ asked = 0 /\ buffer = <<>> /\ taken = <<>>
      /\ ~nulled /\ Len(<<>>) = 0 /\ (kind # "rows" => total = 0) /\ MaxReads \in Nat
      /\ \A r \in Reads : given[r] = <<>>
      /\ hwm \in Nat \ {0}
  <2>1. Typed
    BY TypedInit
  <2>2. MaxReads \in Nat /\ hwm \in Nat \ {0}
    BY <2>1, Facts DEF Typed
  <2> QED BY <2>1, <2>2, EmptySeq DEF StreamInit, Init
<1>2. Begun /\ Once
  BY StreamInvInit DEF StreamInv
<1>3. OnePlace
  BY <1>1 DEF OnePlace
<1>4. Alive /\ AtEnd
  BY <1>1, NothingHas DEF Alive, AtEnd
<1>5. ASSUME kind = "rows"
      PROVE  \E u \in [0..MaxReads -> Nat] : Pages(u) /\ Exactly(u[MaxReads])
  <2>1. PICK u \in [0..MaxReads -> Nat] : \A r \in 0..MaxReads : u[r] = 0
    <3>1. [r \in 0..MaxReads |-> 0] \in [0..MaxReads -> Nat]
      OBVIOUS
    <3> QED BY <3>1
  <2>2. u[MaxReads] = 0 /\ u[0] = 0 /\ \A r \in 1..MaxReads : u[r] = 0 /\ u[r - 1] = 0
    BY <1>1, <2>1
  <2>3. Pages(u)
    BY <1>1, <2>1, <2>2 DEF Pages, Follow, Reads
  <2>4. Delivery(0)
    BY <1>1, NothingHas DEF Delivery
  <2>5. Finish(0)
    BY <1>1 DEF Finish
  <2>6. Held(0)
    BY <1>1 DEF Held, Waiting
  <2> QED BY <2>2, <2>3, <2>4, <2>5, <2>6 DEF Exactly
<1> QED BY <1>1, <1>2, <1>3, <1>4, <1>5 DEF StreamRows, Ordered

\* The rows of the reads, in the order of the reads.
LEMMA AllGiven ==
    ASSUME Typed, NEW u \in [0..MaxReads -> Nat], Follow(MaxReads, u, given)
    PROVE  LET all == FlattenSeq([r \in Reads |-> given[r]])
           IN Len(all) = u[MaxReads] /\ \A i \in DOMAIN all : all[i] = i
<1>1. given \in [1..MaxReads -> Seq(1..total)] /\ MaxReads \in Nat
  BY Facts DEF Typed, ReadTyped, Reads
<1>2. [r \in Reads |-> given[r]] = given
  BY <1>1 DEF Reads
<1>3. CASE MaxReads = 0
  <2>1. given = <<>>
    BY <1>1, <1>3
  <2>2. Len(given) = 0 /\ DOMAIN given = {}
    BY <2>1, EmptySeq
  <2>3. FlattenSeq(given) = given
    BY <2>2 DEF FlattenSeq
  <2> QED BY <1>2, <1>3, <2>2, <2>3 DEF Follow
<1>4. CASE MaxReads # 0
  <2>1. given \in [1..MaxReads -> Seq(Nat)]
    <3>1. 1..total \subseteq Nat
      OBVIOUS
    <3>2. Seq(1..total) \subseteq Seq(Nat)
      BY <3>1, SeqMonotonic
    <3> QED BY <1>1, <3>2
  <2>2. FlattenSeq(given) = FirstRows(u[MaxReads]) /\ u[MaxReads] \in Nat
    <3>1. MaxReads \in Nat \ {0} /\ MaxReads \in 0..MaxReads
      BY <1>1, <1>4
    <3> QED BY <2>1, <3>1, Flattened
  <2> QED BY <1>2, <2>2 DEF FirstRows
<1> QED BY <1>3, <1>4

LEMMA NoRowsGiven ==
    ASSUME Typed, total = 0
    PROVE  /\ \E u \in [0..MaxReads -> Nat] : Follow(MaxReads, u, given) /\ u[MaxReads] = 0
           /\ buffer = <<>> /\ taken = <<>>
<1>1. \A s \in Seq(1..total) : s = <<>> /\ Len(s) = 0
  <2> SUFFICES ASSUME NEW s \in Seq(1..total) PROVE s = <<>> /\ Len(s) = 0
    OBVIOUS
  <2>1. s # <<>> => Head(s) \in 1..0
    BY HeadTailProperties
  <2> QED BY <2>1, EmptySeq
<1>2. PICK u \in [0..MaxReads -> Nat] : \A r \in 0..MaxReads : u[r] = 0
  <2>1. [r \in 0..MaxReads |-> 0] \in [0..MaxReads -> Nat]
    OBVIOUS
  <2> QED BY <2>1
<1>3. MaxReads \in Nat /\ given \in [Reads -> Seq(1..total)]
  BY Facts DEF Typed, ReadTyped
<1>4. u[MaxReads] = 0 /\ u[0] = 0 /\ \A r \in 1..MaxReads : u[r] = 0 /\ u[r - 1] = 0
  BY <1>2, <1>3
<1>5. \A r \in Reads : Len(given[r]) = 0
  BY <1>1, <1>3
<1>6. Follow(MaxReads, u, given)
  BY <1>4, <1>5 DEF Follow, Reads
<1> QED BY <1>1, <1>4, <1>6 DEF Typed

LEMMA RowsOfInvariant == StreamRows => StreamExact
<1> SUFFICES ASSUME StreamRows PROVE StreamExact
  OBVIOUS
<1>1. Typed /\ total \in Nat /\ hwm \in Nat \ {0}
  BY Facts DEF StreamRows, Ordered, Typed
<1> DEFINE all == FlattenSeq([r \in Reads |-> given[r]])
           held == taken \o buffer
<1>2. CASE kind # "rows"
  <2>1. total = 0
    BY <1>2 DEF StreamRows
  <2>2. PICK u \in [0..MaxReads -> Nat] : Follow(MaxReads, u, given) /\ u[MaxReads] = 0
    BY <1>1, <2>1, NoRowsGiven
  <2>3. Len(all) = 0 /\ \A i \in DOMAIN all : all[i] = i
    BY <1>1, <2>2, AllGiven
  <2>4. held = <<>> /\ Len(held) = 0 /\ DOMAIN held = {} /\ Len(buffer) = 0
    <3>1. buffer = <<>> /\ taken = <<>>
      BY <1>1, <2>1, NoRowsGiven
    <3>2. <<>> \o <<>> = <<>>
      BY ConcatEmptySeq
    <3> QED BY <3>1, <3>2, EmptySeq
  <2> HIDE DEF held
  <2> QED BY <1>1, <2>1, <2>3, <2>4 DEF StreamExact, RowsExact, BufferBounded, held
<1>3. CASE kind = "rows"
  <2>1. PICK u \in [0..MaxReads -> Nat] : Pages(u) /\ Exactly(u[MaxReads])
    BY <1>3 DEF StreamRows
  <2>2. Len(all) = u[MaxReads] /\ \A i \in DOMAIN all : all[i] = i
    BY <1>1, <2>1, AllGiven DEF Pages
  <2>3. ended /\ closing = "no" => u[MaxReads] = total
    BY <2>1 DEF Exactly, Finish
  <2>4. RowsExact
    BY <2>2, <2>3 DEF RowsExact
  <2>5. /\ BufferBounded /\ (nulled => Len(taken) + Len(buffer) = total)
        /\ \A i \in 1..Len(taken) : taken[i] = i
        /\ \A i \in 1..Len(buffer) : buffer[i] = Len(taken) + i
    BY <2>1 DEF Exactly, Held, BufferBounded
  <2>6. PICK n \in Nat, m \in Nat : n = Len(taken) /\ m = Len(buffer)
    BY <1>1, LenProperties DEF Typed
  <2>7. /\ held \in Seq(1..total) /\ Len(held) = n + m
        /\ \A i \in 1..(n + m) : held[i] = IF i <= n THEN taken[i] ELSE buffer[i - n]
    BY <1>1, <2>6, ConcatProperties DEF Typed
  <2> HIDE DEF held
  <2>8. DOMAIN held = 1..(n + m)
    BY <2>7, LenProperties
  <2>9. \A i \in 1..(n + m) : held[i] = i
    <3>1. ASSUME NEW i \in 1..(n + m), i <= n PROVE held[i] = i
      <4>1. i \in 1..n
        BY <3>1
      <4> QED BY <2>5, <2>6, <2>7, <3>1, <4>1
    <3>2. ASSUME NEW i \in 1..(n + m), ~(i <= n) PROVE held[i] = i
      <4>1. i - n \in 1..m /\ n + (i - n) = i
        BY <3>2
      <4>2. held[i] = buffer[i - n]
        BY <2>7, <3>2
      <4>3. \A j \in 1..m : buffer[j] = n + j
        BY <2>1, <2>6 DEF Exactly, Held
      <4>4. buffer[i - n] = n + (i - n)
        BY <4>1, <4>3
      <4> QED BY <4>1, <4>2, <4>4
    <3> QED BY <3>1, <3>2
  <2> QED BY <2>4, <2>5, <2>6, <2>7, <2>8, <2>9 DEF StreamExact, held
<1> QED BY <1>2, <1>3

-----------------------------------------------------------------------------
\* The theorems.

\* The inductive invariant: types, and the order of what the cursor asks of the
\* server and hears from it, whoever reads it and whenever it is closed.
THEOREM StreamInvariant == Spec => []StreamInv
<1>1. StreamInit => StreamInv
  BY StreamInvInit
<1>2. StreamInv /\ [Next]_vars => StreamInv'
  BY TypedStep, BegunStep, OnceStep, AttendedStep DEF StreamInv
<1> QED BY <1>1, <1>2, PTL DEF Spec

\* Every variable of the cursor and of the stream has its type: the pages that
\* reads are told and the stream's buffer hold rows of the statement.
THEOREM TypeCorrect == Spec => []TypeOK
<1>1. StreamInv => TypeOK
  <2> SUFFICES ASSUME Typed PROVE TypeOK
    BY DEF StreamInv
  <2>1. /\ asked \in Nat /\ MaxReads \in Nat
        /\ 1..asked \subseteq Reads /\ 0..asked \subseteq Reads \cup {NoRead}
    BY Facts DEF Typed, ReadTyped, Reads, NoRead
  <2>2. queue \in Seq([read : Reads, size : Sizes])
    <3>1. WaitsOf(asked) \subseteq [read : Reads, size : Sizes]
      BY <2>1 DEF WaitsOf
    <3> QED BY <3>1, SeqMonotonic DEF Typed, ReadTyped
  <2>3. \A i \in DOMAIN immediates :
           /\ immediates[i].do \in {"send", "end", "close", "done", "error"}
           /\ immediates[i].read \in Reads \cup {NoRead}
    <3>1. \A i \in DOMAIN immediates : immediates[i] \in TasksOf(asked)
      BY LenProperties, ElementOfSeq DEF Typed, ReadTyped
    <3> QED BY <2>1, <3>1 DEF TasksOf
  <2>4. {ended, active, srv.up, srv.portal} \subseteq BOOLEAN /\ {nulled, early} \subseteq BOOLEAN
    BY Facts DEF Typed
  <2>5. CursorTypeOK
    BY <2>1, <2>2, <2>3, <2>4 DEF Typed, ReadTyped, CursorTypeOK, How
  <2> QED BY <2>4, <2>5 DEF Typed, TypeOK
<1> QED BY <1>1, StreamInvariant, PTL

\* A cursor that is done has no portal open on the server, and a program that
\* does not close it early makes it send one Sync at most (_closePortal,
\* handleError, handleEmptyQuery).
THEOREM PortalIsClosed == Spec => []PortalClosedAtEnd
<1>1. StreamInv => PortalClosedAtEnd
  BY DEF StreamInv, Typed, Session, Begun, Once, Unclosed, PortalClosedAtEnd, SyncOnceUnclosed,
         OneSync
<1> QED BY <1>1, StreamInvariant, PTL

\* The inductive invariant of the rows: each row that the server sent is in one
\* place, in its order: with a read that was told, in _rows, or on its way for
\* the one read that waits (_cb); and a stream's rows are those of its reads.
THEOREM StreamRowsInvariant == Spec => []StreamRows
<1>1. StreamInit => StreamRows
  BY StreamRowsInit
<1>2. StreamRows /\ [Next]_vars => StreamRows'
  BY StreamRowsStep
<1> QED BY <1>1, <1>2, PTL DEF Spec

\* The reads of a cursor get the rows of the statement, each once and in their
\* order, whatever the order of messages, setImmediate callbacks, errors and
\* close, and have all of them at 'end'; the consumer of a stream does too, its
\* buffer never holds two pages, and all rows are there when null was pushed
\* (handleDataRow, _getRows, _sendRows, handleReadyForQuery; _read).
THEOREM RowsAreExact == Spec => []StreamExact
<1>1. StreamRows => StreamExact
  BY RowsOfInvariant
<1> QED BY <1>1, StreamRowsInvariant, PTL
=============================================================================
