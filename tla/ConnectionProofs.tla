-------------------------- MODULE ConnectionProofs --------------------------
(***************************************************************************)
(* Proofs about Connection, for both runtimes and every answer of the      *)
(* server to an SSLRequest.                                                *)
(***************************************************************************)
EXTENDS Connection, SequenceTheorems, FiniteSetTheorems, TLAPS

-----------------------------------------------------------------------------
\* The inductive invariant.

Event == {"connect", "sslconnect", "error", "end"}
Packet == [what : {"SSLRequest", "startup", "terminate"}, secured : BOOLEAN]

Typed ==
    /\ runtime \in {"node", "cf"} /\ ssl \in BOOLEAN /\ stage \in Stages
    /\ tcp \in Sockets
    /\ writable \in BOOLEAN /\ asking \in BOOLEAN /\ upgrading \in BOOLEAN
    /\ ending \in BOOLEAN /\ endCalled \in BOOLEAN /\ finishing \in BOOLEAN
    /\ synced \in BOOLEAN /\ listeners \in {0, 1, 2}
    /\ answer \in Answers \cup {"none"} /\ heard \subseteq {"plain", "secured"}
    /\ sent \in Seq(Packet) /\ events \in Seq(Event)

\* Nothing listens before connect, one listener until the socket is upgraded, and
\* on Node never another.
Listened ==
    /\ stage = "new" <=> listeners = 0
    /\ stage \in {"new", "importing"} => tcp = "none"
    /\ listeners = 2 => stage = "started" /\ runtime = "cf"

\* The startup message of a client that wants SSL was sent after the server's
\* consent, over the secured socket.
Secured ==
    ssl => /\ \A i \in 1..Len(sent) : sent[i].what = "startup" =>
                 sent[i].secured /\ answer = "S" /\ stage = "started"
           /\ heard \subseteq {"secured"}

\* The end is told when the socket is closed, and once.
Ended ==
    /\ \A i \in 1..Len(events) : events[i] = "end" =>
          tcp = "closed" /\ (runtime = "node" => i = Len(events))
    /\ \A i, j \in 1..Len(events) : events[i] = "end" /\ events[j] = "end" => i = j

ConnectionInv == Typed /\ Listened /\ Secured /\ Ended

-----------------------------------------------------------------------------
\* The sequences of messages and of events.

LEMMA WritesOne ==
    ASSUME Typed, NEW what \in {"SSLRequest", "startup", "terminate"}, NEW secured \in BOOLEAN,
           Writes(what, secured)
    PROVE  /\ sent' \in Seq(Packet) /\ Len(sent') = Len(sent) + 1 /\ Len(sent) \in Nat
           /\ \A i \in 1..Len(sent) : sent'[i] = sent[i]
           /\ sent'[Len(sent) + 1] = [what |-> what, secured |-> secured]
<1>1. [what |-> what, secured |-> secured] \in Packet
  BY DEF Packet
<1> QED BY <1>1, AppendProperties, LenProperties DEF Typed, Writes

\* Events other than the end change nothing about the end.
LEMMA OtherEvents ==
    ASSUME Typed, NEW s \in Seq(Event), \A i \in 1..Len(s) : s[i] # "end",
           events' = events \o s
    PROVE  /\ events' \in Seq(Event)
           /\ \A i \in 1..Len(events') : events'[i] = "end" => i \in 1..Len(events) /\ events[i] = "end"
<1>1. /\ events' \in Seq(Event) /\ Len(events) \in Nat /\ Len(s) \in Nat
      /\ Len(events') = Len(events) + Len(s)
      /\ \A i \in 1..(Len(events) + Len(s)) :
            events'[i] = IF i <= Len(events) THEN events[i] ELSE s[i - Len(events)]
  BY ConcatProperties, LenProperties DEF Typed
<1>2. ASSUME NEW i \in 1..Len(events'), events'[i] = "end"
      PROVE  i \in 1..Len(events) /\ events[i] = "end"
  <2>1. CASE i <= Len(events)
    BY <1>1, <1>2, <2>1
  <2>2. CASE ~(i <= Len(events))
    <3>1. i - Len(events) \in 1..Len(s) /\ events'[i] = s[i - Len(events)]
      BY <1>1, <2>2
    <3> QED BY <1>2, <3>1
  <2> QED BY <2>1, <2>2
<1> QED BY <1>1, <1>2

LEMMA EmitsOther ==
    ASSUME Typed, NEW event \in Event, event # "end", Emits(event)
    PROVE  /\ events' \in Seq(Event)
           /\ \A i \in 1..Len(events') : events'[i] = "end" => i \in 1..Len(events) /\ events[i] = "end"
<1>1. events' = events \o <<event>> /\ <<event>> \in Seq(Event)
  BY AppendIsConcat DEF Emits, Typed
<1>2. Len(<<event>>) = 1 /\ <<event>>[1] = event
  OBVIOUS
<1>3. \A i \in 1..Len(<<event>>) : <<event>>[i] # "end"
  BY <1>2
<1> QED BY <1>1, <1>3, OtherEvents

LEMMA EmitsErrors ==
    ASSUME Typed, NEW n \in Nat, EmitsMany("error", n)
    PROVE  /\ events' \in Seq(Event)
           /\ \A i \in 1..Len(events') : events'[i] = "end" => i \in 1..Len(events) /\ events[i] = "end"
<1> DEFINE s == [i \in 1..n |-> "error"]
<1>1. s \in [1..n -> Event]
  BY DEF Event
<1>2. s \in Seq(Event) /\ Len(s) = n /\ \A i \in 1..n : s[i] = "error"
  BY <1>1, SeqDef
<1> QED BY <1>2, OtherEvents DEF EmitsMany

\* The number of events of a kind, when one of that kind is added.
LEMMA CountsOne ==
    ASSUME Typed, NEW event, events' = events \o <<event>>, event \in Event
    PROVE  Count(event)' = Count(event) + 1
<1> DEFINE S == {i \in 1..Len(events) : events[i] = event}
           n == Len(events)
<1>1. /\ n \in Nat /\ DOMAIN events = 1..n
      /\ Len(events') = n + 1 /\ DOMAIN events' = 1..(n + 1)
      /\ \A i \in 1..n : events'[i] = events[i]
      /\ events'[n + 1] = event
  <2>1. <<event>> \in Seq(Event) /\ Len(<<event>>) = 1 /\ <<event>>[1] = event
    OBVIOUS
  <2>2. /\ events' \in Seq(Event) /\ Len(events') = n + 1
        /\ \A i \in 1..(n + 1) : events'[i] = IF i <= n THEN events[i] ELSE <<event>>[i - n]
    BY <2>1, ConcatProperties DEF Typed
  <2>3. n \in Nat /\ DOMAIN events = 1..n /\ DOMAIN events' = 1..(n + 1)
    BY <2>2, LenProperties DEF Typed
  <2> QED BY <2>1, <2>2, <2>3
<1>2. /\ {i \in DOMAIN events : events[i] = event} = S
      /\ {i \in DOMAIN events' : events'[i] = event} = S \cup {n + 1}
      /\ n + 1 \notin S
  BY <1>1
<1>3. IsFiniteSet(S)
  <2>1. IsFiniteSet(1..n)
    BY <1>1, FS_Interval
  <2>2. S \subseteq 1..n
    OBVIOUS
  <2> HIDE DEF S
  <2> QED BY <2>1, <2>2, FS_Subset
<1>4. Cardinality(S \cup {n + 1}) = Cardinality(S) + 1
  BY <1>2, <1>3, FS_AddElement
<1> QED BY <1>2, <1>4 DEF Count

-----------------------------------------------------------------------------
\* What keeps the parts of the invariant.

LEMMA EndedStays ==
    ASSUME Ended, events' = events \/ tcp # "closed" \/ runtime # "node",
           \A i \in 1..Len(events') : events'[i] = "end" => i \in 1..Len(events) /\ events[i] = "end",
           runtime' = runtime, tcp = "closed" => tcp' = "closed"
    PROVE  Ended'
  BY DEF Ended

LEMMA SecuredStays ==
    ASSUME Typed, Secured, ssl' = ssl, stage = "started" => stage' = "started" /\ answer' = answer,
           ssl => heard' \subseteq {"secured"},
           \/ sent' = sent
           \/ \E what \in {"SSLRequest", "terminate"}, secured \in BOOLEAN : Writes(what, secured)
    PROVE  Secured'
<1>1. CASE sent' = sent
  BY <1>1 DEF Secured
<1>2. ASSUME NEW what \in {"SSLRequest", "terminate"}, NEW secured \in BOOLEAN, Writes(what, secured)
      PROVE  Secured'
  <2>1. /\ Len(sent') = Len(sent) + 1 /\ Len(sent) \in Nat
        /\ \A i \in 1..Len(sent) : sent'[i] = sent[i]
        /\ sent'[Len(sent) + 1] = [what |-> what, secured |-> secured]
    BY <1>2, WritesOne
  <2>2. \A i \in 1..Len(sent') :
           sent'[i].what = "startup" => i \in 1..Len(sent) /\ sent'[i] = sent[i]
    BY <2>1
  <2> QED BY <2>2 DEF Secured
<1> QED BY <1>1, <1>2

LEMMA TerminatePacket ==
    ASSUME Typed, Writes("terminate", stage = "started" /\ ssl)
    PROVE  /\ sent' \in Seq(Packet)
           /\ \E secured \in BOOLEAN : Writes("terminate", secured)
<1>1. (stage = "started" /\ ssl) \in BOOLEAN
  OBVIOUS
<1> DEFINE secured == stage = "started" /\ ssl
<1>2. secured \in BOOLEAN /\ Writes("terminate", secured)
  BY <1>1
<1> HIDE DEF secured
<1> QED BY <1>2, WritesOne

-----------------------------------------------------------------------------
\* One lemma for each action: it keeps the invariant.

LEMMA InitHolds == Init => ConnectionInv
<1> SUFFICES ASSUME Init PROVE ConnectionInv
  OBVIOUS
<1>1. Typed
  <2>1. writable \in BOOLEAN /\ sent \in Seq(Packet) /\ events \in Seq(Event)
    BY DEF Init
  <2>2. runtime \in {"node", "cf"} /\ ssl \in BOOLEAN
    BY ConnectionAssumption DEF Init
  <2> QED BY <2>1, <2>2 DEF Init, Typed, Stages, Sockets
<1>2. Listened /\ Secured /\ Ended
  BY DEF Init, Listened, Secured, Ended
<1> QED BY <1>1, <1>2 DEF ConnectionInv

\* Steps that write nothing and emit nothing.
LEMMA QuietKeeps ==
    ASSUME ConnectionInv, UNCHANGED <<runtime, ssl, sent, events, answer, heard>>,
           Typed', Listened', stage = "started" => stage' = "started",
           tcp = "closed" => tcp' = "closed"
    PROVE  ConnectionInv'
<1>1. Secured'
  BY SecuredStays DEF ConnectionInv, Secured
<1>2. Ended'
  BY EndedStays DEF ConnectionInv
<1> QED BY <1>1, <1>2 DEF ConnectionInv

LEMMA ConnectKeeps == ASSUME ConnectionInv, Connect PROVE ConnectionInv'
<1>1. Typed'
  BY DEF ConnectionInv, Typed, Connect, wireVars, Stages, Sockets
<1>2. Listened' /\ stage # "started" /\ tcp = "none"
  BY DEF ConnectionInv, Typed, Listened, Connect
<1> QED BY <1>1, <1>2, QuietKeeps DEF Connect, wireVars

LEMMA ImportedKeeps == ASSUME ConnectionInv, Imported PROVE ConnectionInv'
<1>1. Typed'
  BY DEF ConnectionInv, Typed, Imported, wireVars, Stages, Sockets
<1>2. Listened' /\ tcp # "closed"
  BY DEF ConnectionInv, Typed, Listened, Imported
<1> QED BY <1>1, <1>2, QuietKeeps DEF Imported, wireVars

LEMMA ImportFailsKeeps == ASSUME ConnectionInv, ImportFails PROVE ConnectionInv'
<1>1. Typed /\ Listened /\ Secured /\ Ended
  BY DEF ConnectionInv
<1>2. /\ stage = "importing" /\ stage' = "refused" /\ Emits("error") /\ tcp = "none"
      /\ UNCHANGED <<runtime, ssl, tcp, writable, asking, upgrading, listeners, ending, endCalled,
                     finishing, answer, sent, heard, synced>>
  BY <1>1 DEF ImportFails, wireVars, Listened
<1>3. /\ events' \in Seq(Event)
      /\ \A i \in 1..Len(events') : events'[i] = "end" => i \in 1..Len(events) /\ events[i] = "end"
  BY <1>1, <1>2, EmitsOther DEF Event
<1>4. Typed'
  BY <1>1, <1>2, <1>3 DEF Typed, Stages, Sockets
<1>5. Listened'
  BY <1>1, <1>2 DEF Listened
<1>6. Secured'
  BY <1>1, <1>2, SecuredStays DEF Secured
<1>7. Ended'
  BY <1>1, <1>2, <1>3, EndedStays
<1> QED BY <1>4, <1>5, <1>6, <1>7 DEF ConnectionInv

LEMMA EstablishedKeeps == ASSUME ConnectionInv, Established PROVE ConnectionInv'
<1>1. Typed /\ Listened /\ Secured /\ Ended
  BY DEF ConnectionInv
<1>2. /\ stage = "connecting" /\ stage' \in {"asked", "started"} /\ Emits("connect")
      /\ tcp' \in {"up", tcp} /\ tcp \in {"opening", "ended", "closed"}
      /\ tcp = "closed" => tcp' = tcp
      /\ runtime = "node" => tcp = "opening"
      /\ writable' = TRUE
      /\ UNCHANGED <<runtime, ssl, asking, upgrading, listeners, ending, endCalled, finishing,
                     answer, heard, synced>>
  BY DEF Established
<1>3. PICK what \in {"SSLRequest", "startup"} :
         Writes(what, FALSE) /\ (what = "startup" => ~ssl)
  BY DEF Established
<1>4. /\ sent' \in Seq(Packet) /\ events' \in Seq(Event)
      /\ \A i \in 1..Len(events') : events'[i] = "end" => i \in 1..Len(events) /\ events[i] = "end"
  BY <1>1, <1>2, <1>3, WritesOne, EmitsOther DEF Event
<1>5. Typed'
  BY <1>1, <1>2, <1>4 DEF Typed, Stages, Sockets
<1>6. Listened'
  BY <1>1, <1>2 DEF Listened
<1>7. Secured'
  <2>1. CASE ~ssl
    BY <1>2, <2>1 DEF Secured
  <2>2. CASE ssl
    BY <1>1, <1>2, <1>3, <2>2, SecuredStays DEF Secured
  <2> QED BY <2>1, <2>2
<1>8. Ended'
  BY <1>1, <1>2, <1>4, EndedStays
<1> QED BY <1>5, <1>6, <1>7, <1>8 DEF ConnectionInv

LEMMA AnsweredKeeps ==
    ASSUME ConnectionInv, NEW a \in Answers, Answered(a)
    PROVE  ConnectionInv'
<1>1. Typed /\ Listened /\ Secured /\ Ended
  BY DEF ConnectionInv
<1>2. /\ stage = "asked" /\ tcp \in {"up", "half"} /\ asking' = FALSE /\ answer' = a
      /\ Upgrades \/ UpgradeThrows \/ Refuses
      /\ Upgrades => a = "S"
      /\ UNCHANGED <<runtime, ssl, ending, endCalled, finishing, synced>>
  BY DEF Answered, Open, Decides, Upgrades, UpgradeThrows, Refuses
<1>3. listeners = 1
  BY <1>1, <1>2 DEF Typed, Listened
<1>4. CASE Upgrades
  <2>1. /\ listeners' = (IF runtime = "cf" THEN listeners + 1 ELSE listeners)
        /\ upgrading' = (runtime = "cf") /\ stage' = "started"
        /\ Emits("sslconnect") /\ Writes("startup", TRUE) /\ writable' = TRUE
        /\ UNCHANGED <<tcp, heard>>
    BY <1>4 DEF Upgrades
  <2>2. /\ sent' \in Seq(Packet) /\ Len(sent') = Len(sent) + 1 /\ Len(sent) \in Nat
        /\ \A i \in 1..Len(sent) : sent'[i] = sent[i]
        /\ sent'[Len(sent) + 1] = [what |-> "startup", secured |-> TRUE]
    BY <1>1, <2>1, WritesOne
  <2>3. /\ events' \in Seq(Event)
        /\ \A i \in 1..Len(events') : events'[i] = "end" => i \in 1..Len(events) /\ events[i] = "end"
    BY <1>1, <2>1, EmitsOther DEF Event
  <2>4. Typed'
    <3>1. upgrading' \in BOOLEAN /\ listeners' \in {0, 1, 2}
      BY <1>3, <2>1
    <3> QED BY <1>1, <1>2, <2>1, <2>2, <2>3, <3>1 DEF Typed, Stages, Sockets
  <2>5. Listened'
    BY <1>1, <1>2, <1>3, <2>1 DEF Listened, Typed
  <2>6. Secured'
    <3>1. \A i \in 1..Len(sent') : i \in 1..Len(sent) \/ i = Len(sent) + 1
      BY <2>2
    <3>2. ssl => \A i \in 1..Len(sent') : sent'[i].what = "startup" => sent'[i].secured
      BY <1>1, <2>2, <3>1 DEF Secured
    <3> QED BY <1>1, <1>2, <1>4, <2>1, <3>2 DEF Secured
  <2>7. Ended'
    BY <1>1, <1>2, <2>1, <2>3, EndedStays
  <2> QED BY <2>4, <2>5, <2>6, <2>7 DEF ConnectionInv
<1>5. CASE UpgradeThrows \/ Refuses
  <2>1. /\ stage' \in {"refused", "stranded"} /\ Emits("error")
        /\ tcp' \in {"up", "half", "ended"}
        /\ writable' \in BOOLEAN /\ upgrading' \in BOOLEAN
        /\ UNCHANGED <<listeners, sent, heard>>
    BY <1>1, <1>2, <1>5 DEF UpgradeThrows, Refuses, Typed
  <2>2. /\ events' \in Seq(Event)
        /\ \A i \in 1..Len(events') : events'[i] = "end" => i \in 1..Len(events) /\ events[i] = "end"
    BY <1>1, <2>1, EmitsOther DEF Event
  <2>3. Typed'
    BY <1>1, <1>2, <2>1, <2>2 DEF Typed, Stages, Sockets
  <2>4. Listened'
    BY <1>1, <1>2, <1>3, <2>1 DEF Listened
  <2>5. Secured'
    BY <1>1, <1>2, <2>1, SecuredStays DEF Secured
  <2>6. Ended'
    BY <1>1, <1>2, <2>1, <2>2, EndedStays
  <2> QED BY <2>3, <2>4, <2>5, <2>6 DEF ConnectionInv
<1> QED BY <1>2, <1>4, <1>5

LEMMA DataKeeps == ASSUME ConnectionInv, Data PROVE ConnectionInv'
<1>1. Typed /\ Listened /\ Secured /\ Ended
  BY DEF ConnectionInv
<1>2. /\ heard' = heard \cup {IF ssl THEN "secured" ELSE "plain"}
      /\ UNCHANGED <<runtime, ssl, stage, tcp, writable, asking, upgrading, listeners, ending,
                     endCalled, finishing, answer, sent, synced, events>>
  BY DEF Data
<1>3. Typed'
  BY <1>1, <1>2 DEF Typed
<1>4. Listened' /\ Secured' /\ Ended'
  BY <1>1, <1>2 DEF Listened, Secured, Ended
<1> QED BY <1>3, <1>4 DEF ConnectionInv

LEMMA SyncKeeps == ASSUME ConnectionInv, Sync PROVE ConnectionInv'
<1>1. Typed'
  BY DEF ConnectionInv, Typed, Sync
<1>2. Listened'
  BY DEF ConnectionInv, Listened, Sync
<1> QED BY <1>1, <1>2, QuietKeeps DEF Sync

LEMMA EndKeeps == ASSUME ConnectionInv, End PROVE ConnectionInv'
<1>1. Typed /\ Listened /\ Secured /\ Ended
  BY DEF ConnectionInv
<1>2. /\ stage # "new" /\ endCalled' = TRUE /\ ending' = TRUE
      /\ UNCHANGED <<runtime, ssl, stage, asking, upgrading, listeners, answer, heard, synced, events>>
  BY DEF End
<1>3. CASE Terminates
  <2>1. /\ sent' = sent \/ Writes("terminate", stage = "started" /\ ssl)
        /\ finishing' = (runtime = "node") /\ UNCHANGED <<tcp, writable>>
    BY <1>3 DEF Terminates
  <2>2. /\ sent' \in Seq(Packet)
        /\ sent' = sent \/ \E secured \in BOOLEAN : Writes("terminate", secured)
    BY <1>1, <2>1, TerminatePacket DEF Typed
  <2>3. Typed'
    BY <1>1, <1>2, <2>1, <2>2 DEF Typed, Sockets
  <2>4. Listened' /\ Ended'
    BY <1>1, <1>2, <2>1 DEF Listened, Ended
  <2>5. Secured'
    BY <1>1, <1>2, <2>2, SecuredStays DEF Secured
  <2> QED BY <2>3, <2>4, <2>5 DEF ConnectionInv
<1>4. CASE EndsStream
  <2>1. /\ tcp' = (IF tcp \in {"opening", "up"} THEN "ended" ELSE tcp)
        /\ UNCHANGED <<writable, sent, finishing>>
    BY <1>4 DEF EndsStream
  <2>2. Typed'
    BY <1>1, <1>2, <2>1 DEF Typed, Sockets
  <2>3. Listened'
    BY <1>1, <1>2, <2>1 DEF Listened
  <2> QED BY <1>2, <2>1, <2>2, <2>3, QuietKeeps
<1> QED BY <1>3, <1>4 DEF End

LEMMA FinishKeeps == ASSUME ConnectionInv, Finish PROVE ConnectionInv'
<1>1. Typed'
  BY DEF ConnectionInv, Typed, Finish, wireVars, Sockets
<1>2. Listened'
  BY DEF ConnectionInv, Listened, Finish
<1> QED BY <1>1, <1>2, QuietKeeps DEF Finish, wireVars

LEMMA PeerEndsKeeps == ASSUME ConnectionInv, PeerEnds PROVE ConnectionInv'
<1>1. Typed'
  BY DEF ConnectionInv, Typed, PeerEnds, wireVars, Sockets
<1>2. Listened'
  BY DEF ConnectionInv, Listened, PeerEnds, Open
<1> QED BY <1>1, <1>2, QuietKeeps DEF PeerEnds, wireVars, Open

LEMMA FailsKeeps ==
    ASSUME ConnectionInv, NEW reset \in BOOLEAN, Fails(reset)
    PROVE  ConnectionInv'
<1>1. Typed /\ Listened /\ Secured /\ Ended
  BY DEF ConnectionInv
<1>2. /\ tcp \in {"opening", "up", "half", "ended"} /\ tcp' = "reset" /\ writable' \in BOOLEAN
      /\ UNCHANGED <<runtime, ssl, stage, asking, upgrading, listeners, ending, endCalled,
                     finishing, answer, sent, heard, synced>>
  BY <1>1 DEF Fails, wireVars, Typed
<1>3. \/ events' = events
      \/ \E n \in Nat : EmitsMany("error", n)
  <2>1. listeners \in Nat /\ 1 * listeners \in Nat /\ 2 * listeners \in Nat
    BY <1>1 DEF Typed
  <2>2. \/ UNCHANGED events \/ EmitsMany("error", listeners)
        \/ EmitsMany("error", 1 * listeners) \/ EmitsMany("error", 2 * listeners)
    BY DEF Fails, ReportsStreamError
  <2> QED BY <2>1, <2>2
<1>4. /\ events' \in Seq(Event)
      /\ \A i \in 1..Len(events') : events'[i] = "end" => i \in 1..Len(events) /\ events[i] = "end"
  <2>1. CASE events' = events
    BY <1>1, <2>1 DEF Typed
  <2>2. ASSUME NEW n \in Nat, EmitsMany("error", n)
        PROVE  /\ events' \in Seq(Event)
               /\ \A i \in 1..Len(events') : events'[i] = "end" =>
                     i \in 1..Len(events) /\ events[i] = "end"
    BY <1>1, <2>2, EmitsErrors
  <2> QED BY <1>3, <2>1, <2>2
<1>5. Typed'
  BY <1>1, <1>2, <1>4 DEF Typed, Sockets
<1>6. Listened'
  BY <1>1, <1>2 DEF Listened
<1>7. Secured'
  BY <1>1, <1>2, SecuredStays DEF Secured
<1>8. Ended'
  BY <1>1, <1>2, <1>4, EndedStays
<1> QED BY <1>5, <1>6, <1>7, <1>8 DEF ConnectionInv

LEMMA PlainClosedKeeps == ASSUME ConnectionInv, PlainClosed PROVE ConnectionInv'
<1>1. Typed'
  BY DEF ConnectionInv, Typed, PlainClosed, wireVars, Sockets
<1>2. Listened'
  BY DEF ConnectionInv, Listened, PlainClosed
<1> QED BY <1>1, <1>2, QuietKeeps DEF PlainClosed, wireVars

LEMMA ClosedKeeps == ASSUME ConnectionInv, Closed PROVE ConnectionInv'
<1>1. Typed /\ Listened /\ Secured /\ Ended
  BY DEF ConnectionInv
<1>2. /\ tcp \in {"ended", "reset"} /\ tcp' = "closed" /\ writable' \in BOOLEAN /\ asking' = FALSE
      /\ UNCHANGED <<runtime, ssl, stage, upgrading, listeners, ending, endCalled, finishing,
                     answer, sent, heard, synced>>
  BY <1>1 DEF Closed, wireVars, Typed
<1> DEFINE s == IF runtime = "cf" /\ asking THEN <<"error">> ELSE <<>>
           mid == events \o s
<1>3. events' = mid \o <<"end">>
  BY DEF Closed
<1>4. mid \in Seq(Event) /\ \A i \in 1..Len(mid) : mid[i] # "end"
  <2>1. s \in Seq(Event) /\ \A i \in 1..Len(s) : s[i] # "end"
    <3>1. /\ <<"error">> \in Seq(Event) /\ <<>> \in Seq(Event)
          /\ Len(<<"error">>) = 1 /\ <<"error">>[1] = "error" /\ Len(<<>>) = 0
      BY DEF Event
    <3>2. CASE s = <<"error">>
      BY <3>1, <3>2
    <3>3. CASE s = <<>>
      BY <3>1, <3>3
    <3> QED BY <3>2, <3>3
  <2>2. \A i \in 1..Len(events) : events[i] # "end"
    BY <1>1, <1>2 DEF Ended
  <2>3. /\ events \o s \in Seq(Event) /\ Len(events) \in Nat /\ Len(s) \in Nat
        /\ Len(events \o s) = Len(events) + Len(s)
        /\ \A i \in 1..(Len(events) + Len(s)) :
              (events \o s)[i] = IF i <= Len(events) THEN events[i] ELSE s[i - Len(events)]
    BY <1>1, <2>1, ConcatProperties, LenProperties DEF Typed
  <2> HIDE DEF s
  <2>4. ASSUME NEW i \in 1..Len(mid) PROVE mid[i] # "end"
    <3>1. CASE i <= Len(events)
      BY <2>2, <2>3, <3>1
    <3>2. CASE ~(i <= Len(events))
      <4>1. i - Len(events) \in 1..Len(s) /\ mid[i] = s[i - Len(events)]
        BY <2>3, <3>2
      <4> QED BY <2>1, <4>1
    <3> QED BY <3>1, <3>2
  <2> QED BY <2>3, <2>4
<1> HIDE DEF mid
<1>5. /\ events' \in Seq(Event) /\ Len(events') = Len(mid) + 1 /\ Len(mid) \in Nat
      /\ \A i \in 1..Len(mid) : events'[i] = mid[i]
  <2>1. "end" \in Event /\ events' = Append(mid, "end")
    BY <1>3, <1>4, AppendIsConcat DEF Event
  <2> QED BY <1>4, <2>1, AppendProperties, LenProperties
<1>6. \A i \in 1..Len(events') : events'[i] = "end" => i = Len(events')
  BY <1>4, <1>5
<1>7. Ended'
  BY <1>2, <1>6 DEF Ended
<1>8. Typed'
  BY <1>1, <1>2, <1>5 DEF Typed, Sockets
<1>9. Listened'
  BY <1>1, <1>2 DEF Listened
<1>10. Secured'
  BY <1>1, <1>2, SecuredStays DEF Secured
<1> QED BY <1>7, <1>8, <1>9, <1>10 DEF ConnectionInv

LEMMA StutterKeeps == ASSUME ConnectionInv, UNCHANGED vars PROVE ConnectionInv'
  BY DEF ConnectionInv, Typed, Listened, Secured, Ended, vars, wireVars

-----------------------------------------------------------------------------
\* The theorems.

\* The inductive invariant: how many listeners there are, over which socket
\* the startup message went, and when the end was told.
THEOREM ConnectionInvariant == Spec => []ConnectionInv
<1>1. Init => ConnectionInv
  BY InitHolds
<1>2. ConnectionInv /\ [Next]_vars => ConnectionInv'
  BY ConnectKeeps, ImportedKeeps, ImportFailsKeeps, EstablishedKeeps, AnsweredKeeps, DataKeeps, SyncKeeps,
     EndKeeps, FinishKeeps, PeerEndsKeeps, FailsKeeps, PlainClosedKeeps, ClosedKeeps,
     StutterKeeps
  DEF Next
<1> QED BY <1>1, <1>2, PTL DEF Spec

\* Every variable has its type.
THEOREM TypeCorrect == Spec => []TypeOK
<1>1. ConnectionInv => TypeOK
  <2> SUFFICES ASSUME Typed PROVE TypeOK
    BY DEF ConnectionInv
  <2>1. \A i \in DOMAIN sent : sent[i].what \in {"SSLRequest", "startup", "terminate"}
    <3>1. \A i \in DOMAIN sent : sent[i] \in Packet
      BY LenProperties, ElementOfSeq DEF Typed
    <3> QED BY <3>1 DEF Packet
  <2>2. \A i \in DOMAIN events : events[i] \in {"connect", "sslconnect", "error", "end"}
    BY LenProperties, ElementOfSeq DEF Typed, Event
  <2> QED BY <2>1, <2>2 DEF Typed, TypeOK
<1> QED BY <1>1, ConnectionInvariant, PTL

\* A client that wants SSL sends its startup message over the secured socket,
\* after the server's consent, and hears nothing before (connect's once('data')).
THEOREM StartupIsSecured == Spec => []OnlySecured
<1>1. ConnectionInv => OnlySecured
  BY LenProperties DEF ConnectionInv, Typed, Secured, OnlySecured
<1> QED BY <1>1, ConnectionInvariant, PTL

\* 'end' is emitted once, and on Node nothing is emitted after it.
THEOREM EndComesLast == Spec => []EndIsLast
<1>1. ConnectionInv => EndIsLast
  <2> SUFFICES ASSUME Typed, Ended PROVE EndIsLast
    BY DEF ConnectionInv
  <2> DEFINE S == {i \in DOMAIN events : events[i] = "end"}
  <2>1. DOMAIN events = 1..Len(events) /\ Len(events) \in Nat
    BY LenProperties DEF Typed
  <2>2. Cardinality(S) <= 1
    <3>1. CASE S = {}
      BY <3>1, FS_EmptySet
    <3>2. CASE S # {}
      <4>1. PICK i \in S : TRUE
        BY <3>2
      <4>2. S = {i}
        BY <2>1, <4>1 DEF Ended
      <4> QED BY <4>2, FS_Singleton
    <3> QED BY <3>1, <3>2
  <2>3. Count("end") <= 1
    BY <2>2 DEF Count
  <2> QED BY <2>1, <2>3 DEF Ended, EndIsLast
<1> QED BY <1>1, ConnectionInvariant, PTL

\* On Node a failure is reported once, by the one listener, unless the connection
\* thinks it is ending and was reset (reportStreamError).
THEOREM FailuresAreReported == Spec => FailuresReported
<1>1. ConnectionInv /\ [Next]_vars =>
        [Failing /\ runtime = "node" /\ (~ending \/ tcp = "opening")
            => Count("error")' = Count("error") + 1]_vars
  <2> SUFFICES ASSUME ConnectionInv, Next, Failing, runtime = "node",
                      ~ending \/ tcp = "opening"
               PROVE  Count("error")' = Count("error") + 1
    OBVIOUS
  <2>1. PICK reset \in BOOLEAN : Fails(reset)
    BY DEF Next, Failing, Connect, Imported, ImportFails, Established, Answered, Decides, Upgrades, UpgradeThrows,
           Refuses, Data, Sync, End, Terminates, EndsStream, Finish, PeerEnds, PlainClosed, Closed
  <2>2. EmitsMany("error", listeners)
    BY <2>1 DEF Fails, ReportsStreamError
  <2>3. listeners = 1
    BY <2>1 DEF ConnectionInv, Typed, Listened, Fails
  <2>4. [i \in 1..1 |-> "error"] = <<"error">>
    OBVIOUS
  <2>5. events' = events \o <<"error">>
    BY <2>2, <2>3, <2>4 DEF EmitsMany
  <2> QED BY <2>5, CountsOne DEF ConnectionInv, Event
<1> QED BY <1>1, ConnectionInvariant, PTL DEF Spec, FailuresReported
=============================================================================
