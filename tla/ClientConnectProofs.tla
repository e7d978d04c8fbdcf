------------------------ MODULE ClientConnectProofs ------------------------
(***************************************************************************)
(* Proofs about ClientConnect, for any hosts, modes, targets, answers of   *)
(* the servers, number of queries and of calls of connect.                 *)
(***************************************************************************)
EXTENDS ClientConnect, SequenceTheorems, FiniteSetTheorems, WellFoundedInduction, TLAPS

-----------------------------------------------------------------------------
\* The inductive invariant.

TickRecord == [do : {"next"}, arg : {Nothing}] \cup [do : {"refuse"}, arg : 1..MaxCalls]
              \cup [do : {"fail"}, arg : Item]
Verdict == {"ok", "error"}
Session == [at : Stage, on : Item \cup {Nothing}, next : Item \cup {Nothing}]

PhaseTyped ==
    /\ connecting \in BOOLEAN /\ connected \in BOOLEAN /\ connectionError \in BOOLEAN
    /\ handler \in BOOLEAN /\ timer \in BOOLEAN
CallTyped ==
    /\ calls \in 0..MaxCalls /\ callback \in 0..MaxCalls /\ callback \in {Nothing, calls}
    /\ told \in [1..MaxCalls -> Seq(Verdict)]
ConnTyped ==
    /\ conn \in Nat \ {0} /\ sock \in Sock /\ srv \in Session
    /\ work \subseteq [do : {"password", "sasl", "sasl next"}, con : Nat \ {0}]
QueueTyped ==
    /\ queue \in Seq(Item) /\ active \in Item \cup {Nothing} /\ ready \in BOOLEAN
    /\ sentOn \in Nat /\ got \in [Query -> {"nothing", "result", "error"}]
    /\ asked \in 0..NumQueries /\ DOMAIN ran = Query
RestTyped ==
    /\ provided \in BOOLEAN /\ ended \in BOOLEAN /\ rolePending \in BOOLEAN
    /\ ticks \in Seq(TickRecord)
Typed == PhaseTyped /\ CallTyped /\ ConnTyped /\ QueueTyped /\ RestTyped

\* The calls of connect: only the call in callback is still to be answered, and it
\* was told nothing yet, unless the connection has ended; a call that was told "ok"
\* is told no more.
CallsTold(tk) ==
    /\ \A c \in 1..MaxCalls : c > calls => told[c] = <<>>
    /\ \A c \in 1..MaxCalls : \A i \in 1..Len(told[c]) : told[c][i] = "ok" =>
          /\ connected /\ i = Len(told[c]) /\ c # callback
          /\ \A j \in 1..Len(tk) : tk[j] # Tick("refuse", c)
    /\ \A j \in 1..Len(tk) : tk[j].do = "refuse" => tk[j].arg \in 2..calls
    /\ \A c \in 1..MaxCalls : c = 1 => /\ Len(told[c]) > 1 => ended
                                       /\ callback = 1 /\ told[c] # <<>> => ended
    /\ calls = 1 /\ connected => told[1] = <<"ok">>

\* A socket that is up, a host that is to be tried next or a host that may still be
\* left: connect is not answered yet, or the client is connected.
Alive == sock \in Up \cup {"failing"}
NextIn(tk) == \E j \in 1..Len(tk) : tk[j].do = "next"
Hopeful == Alive \/ NextIn(ticks) \/ (connecting /\ handler /\ ~connectionError)
Trying ==
    /\ Hopeful => /\ calls > 0
                  /\ ~connected => /\ connecting /\ callback = calls
                                   /\ calls = 1 => told[1] = <<>>
    /\ sock = "failing" => ticks = <<>>
    /\ connectionError => ~Alive
    /\ connected => calls > 0 /\ ~connecting /\ ~handler
    /\ timer => connecting
    /\ handler => connecting \/ connectionError
    /\ calls = 0 => sock = "new" /\ ~connecting /\ ~handler
    /\ live \subseteq {conn} /\ (live # {} => sock \in Up)

\* At most one callback of nextTick tries the next host.
OneNext(tk) ==
    /\ NextIn(tk) => connectionError /\ handler /\ ~provided /\ ~connected
    /\ \A i, j \in 1..Len(tk) : tk[i].do = "next" /\ tk[j].do = "next" => i = j

\* The probe is in one place at most: active, on the queue or failing.
IsProbe(t) == t = Tick("fail", Probe)
Waits(q) == \E i \in 1..Len(q) : q[i] = Probe
FailsIn(tk) == \E i \in 1..Len(tk) : IsProbe(tk[i])
Probing(a, q, tk) == a = Probe \/ Waits(q) \/ FailsIn(tk)
OncePlaced(a, q, tk) ==
    /\ \A i, j \in 1..Len(q) : q[i] = Probe /\ q[j] = Probe => i = j
    /\ \A i, j \in 1..Len(tk) : IsProbe(tk[i]) /\ IsProbe(tk[j]) => i = j
    /\ a = Probe => ~Waits(q)
    /\ FailsIn(tk) => a # Probe /\ ~Waits(q)
OneProbe ==
    /\ OncePlaced(active, queue, ticks)
    /\ Probing(active, queue, ticks) => rolePending /\ target # "any" /\ ~connected

ConnectInv == Typed /\ CallsTold(ticks) /\ Trying /\ OneNext(ticks) /\ OneProbe

-----------------------------------------------------------------------------
\* Sequences of callbacks.

LEMMA RestOf ==
    ASSUME NEW S, NEW s \in Seq(S), s # <<>>
    PROVE  /\ Head(s) = s[1] /\ Head(s) \in S /\ Tail(s) \in Seq(S) /\ Len(s) \in Nat \ {0}
           /\ Len(Tail(s)) = Len(s) - 1
           /\ \A i \in 1..Len(Tail(s)) : i + 1 \in 1..Len(s) /\ Tail(s)[i] = s[i + 1]
BY HeadTailProperties, EmptySeq, LenProperties

LEMMA OneMore ==
    ASSUME NEW S, NEW s \in Seq(S), NEW x \in S
    PROVE  /\ Append(s, x) \in Seq(S) /\ Len(Append(s, x)) = Len(s) + 1 /\ Len(s) \in Nat
           /\ \A i \in 1..Len(s) : Append(s, x)[i] = s[i]
           /\ Append(s, x)[Len(s) + 1] = x
BY AppendProperties, LenProperties

LEMMA NoItems == 0 \notin Item /\ Nothing \notin Item /\ Probe \in Item /\ Late \in Item /\ Probe # Late
               /\ Query \subseteq Item /\ Probe \notin Query /\ Late \notin Query
BY ConnectAssumption DEF Item, Nothing, Probe, Late, Query

LEMMA TickTyped ==
    /\ Tick("next", Nothing) \in TickRecord
    /\ \A q \in Item : Tick("fail", q) \in TickRecord
    /\ \A c \in 1..MaxCalls : Tick("refuse", c) \in TickRecord
BY DEF Tick, TickRecord

LEMMA ErrorAllTyped ==
    ASSUME QueueTyped
    PROVE  /\ Unanswered \in Seq(Item) /\ ErrorAll \in Seq(TickRecord)
           /\ Len(ErrorAll) = Len(Unanswered)
           /\ \A i \in 1..Len(ErrorAll) : /\ Unanswered[i] \in Item
                                          /\ ErrorAll[i] = Tick("fail", Unanswered[i])
<1>1. Unanswered \in Seq(Item)
  <2>1. (IF active = Nothing THEN <<>> ELSE <<active>>) \in Seq(Item)
    BY DEF QueueTyped
  <2> QED BY <2>1, ConcatProperties DEF Unanswered, QueueTyped
<1>2. Len(Unanswered) \in Nat /\ \A i \in 1..Len(Unanswered) : Unanswered[i] \in Item
  BY <1>1, LenProperties, ElementOfSeq
<1>3. ErrorAll \in [1..Len(Unanswered) -> TickRecord]
  BY <1>2, TickTyped DEF ErrorAll
<1>4. \A i \in 1..Len(Unanswered) : ErrorAll[i] = Tick("fail", Unanswered[i])
  BY DEF ErrorAll
<1> HIDE DEF ErrorAll
<1>5. ErrorAll \in Seq(TickRecord) /\ Len(ErrorAll) = Len(Unanswered)
  BY <1>2, <1>3, SeqDef
<1> QED BY <1>1, <1>2, <1>4, <1>5

\* What becomes of the callbacks when the connection ends between two of them.
LEMMA ErrorAllAlone ==
    ASSUME QueueTyped, ticks = <<>>
    PROVE  ticks \o ErrorAll = ErrorAll
BY ErrorAllTyped, ConcatEmptySeq

LEMMA AppendAlone ==
    ASSUME NEW t \in TickRecord
    PROVE  /\ Append(<<>>, t) = <<t>> /\ <<t>> \in Seq(TickRecord) /\ Len(<<t>>) = 1
           /\ \A i \in 1..Len(<<t>>) : <<t>>[i] = t
OBVIOUS

-----------------------------------------------------------------------------
\* The types after the pieces of the handlers.

LEMMA CallsTyped ==
    ASSUME CallTyped, NEW what \in Verdict, Calls(what)
    PROVE  told' \in [1..MaxCalls -> Seq(Verdict)]
<1>1. CASE callback = Nothing
  BY <1>1 DEF Calls, CallTyped
<1>2. CASE callback # Nothing
  <2>1. callback \in 1..MaxCalls
    BY <1>2, ConnectAssumption DEF CallTyped, Nothing
  <2>2. Append(told[callback], what) \in Seq(Verdict)
    BY <2>1, AppendProperties DEF CallTyped
  <2> QED BY <1>2, <2>1, <2>2 DEF Calls, CallTyped
<1> QED BY <1>1, <1>2

LEMMA AnswersTyped ==
    ASSUME CallTyped, NEW what \in Verdict, Answers(what), calls' = calls
    PROVE  CallTyped'
<1>1. told' \in [1..MaxCalls -> Seq(Verdict)]
  BY CallsTyped DEF Answers
<1> QED BY <1>1, ConnectAssumption DEF CallTyped, Answers, Nothing

LEMMA SameCallTyped ==
    ASSUME CallTyped, UNCHANGED <<callVars, calls>>
    PROVE  CallTyped'
BY DEF CallTyped, callVars

LEMMA SamePhaseTyped ==
    ASSUME PhaseTyped, UNCHANGED phaseVars
    PROVE  PhaseTyped'
BY DEF PhaseTyped, phaseVars

LEMMA FailsTyped ==
    ASSUME PhaseTyped, CallTyped, Fails, calls' = calls
    PROVE  PhaseTyped' /\ CallTyped'
<1>1. CASE connectionError
  BY <1>1, SameCallTyped, SamePhaseTyped DEF Fails
<1>2. CASE ~connectionError
  <2>1. CallTyped'
    BY <1>2, AnswersTyped DEF Fails, Verdict
  <2> QED BY <1>2, <2>1 DEF Fails, PhaseTyped
<1> QED BY <1>1, <1>2

LEMMA GivesUpTyped ==
    ASSUME PhaseTyped, CallTyped, GivesUp, calls' = calls
    PROVE  PhaseTyped' /\ CallTyped'
<1>1. CallTyped'
  BY AnswersTyped DEF GivesUp, Verdict
<1> QED BY <1>1 DEF GivesUp, PhaseTyped

LEMMA SucceedsTyped ==
    ASSUME PhaseTyped, CallTyped, Succeeds, calls' = calls
    PROVE  PhaseTyped' /\ CallTyped'
<1>1. CallTyped'
  BY AnswersTyped DEF Succeeds, Verdict
<1> QED BY <1>1 DEF Succeeds, PhaseTyped

LEMMA LeavesHostTyped ==
    ASSUME PhaseTyped, CallTyped, NEW failed \in BOOLEAN, LeavesHost(failed), calls' = calls,
           ticks \in Seq(TickRecord)
    PROVE  PhaseTyped' /\ CallTyped' /\ ticks' \in Seq(TickRecord)
<1>1. CASE connectionError
  BY <1>1, SameCallTyped, SamePhaseTyped DEF LeavesHost
<1>2. CASE ~connectionError /\ provided
  BY <1>2, GivesUpTyped DEF LeavesHost
<1>3. CASE ~connectionError /\ ~provided
  <2>1. ticks' \in Seq(TickRecord)
    BY <1>3, TickTyped, AppendProperties DEF LeavesHost
  <2>2. CallTyped'
    BY <1>3, SameCallTyped DEF LeavesHost
  <2> QED BY <1>3, <2>1, <2>2 DEF LeavesHost, PhaseTyped
<1> QED BY <1>1, <1>2, <1>3

LEMMA SkipsHostTyped ==
    ASSUME PhaseTyped, CallTyped, NEW tk \in Seq(TickRecord), SkipsHost(tk), calls' = calls
    PROVE  PhaseTyped' /\ CallTyped' /\ ticks' \in Seq(TickRecord)
<1>1. CASE ~handler
  BY <1>1, FailsTyped DEF SkipsHost
<1>2. CASE handler /\ (connectionError \/ ~provided)
  <2>1. /\ connecting' = TRUE /\ connectionError' = TRUE
        /\ ticks' = (IF connectionError THEN tk ELSE Append(tk, Tick("next", Nothing)))
        /\ UNCHANGED <<connected, handler, timer, callVars>>
    BY <1>2 DEF SkipsHost
  <2>2. ticks' \in Seq(TickRecord)
    BY <2>1, TickTyped, AppendProperties
  <2>3. CallTyped'
    BY <2>1, SameCallTyped
  <2> QED BY <2>1, <2>2, <2>3 DEF PhaseTyped
<1>3. CASE handler /\ ~(connectionError \/ ~provided)
  BY <1>3, GivesUpTyped DEF SkipsHost
<1> QED BY <1>1, <1>2, <1>3

LEMMA DropsTyped ==
    ASSUME QueueTyped, Drops, UNCHANGED <<ready, sentOn, got, asked, ran>>
    PROVE  QueueTyped'
<1>1. <<>> \in Seq(Item)
  BY EmptySeq
<1> QED BY <1>1 DEF QueueTyped, Drops

LEMMA HandleErrorEventTyped ==
    ASSUME Typed, HandleErrorEvent, UNCHANGED <<calls, asked, ran>>
    PROVE  PhaseTyped' /\ CallTyped' /\ QueueTyped' /\ ticks' \in Seq(TickRecord)
<1>1. CASE connecting
  BY <1>1, FailsTyped DEF HandleErrorEvent, Typed, RestTyped, QueueTyped, queueVars
<1>2. CASE ~connecting
  <2>1. ticks' \in Seq(TickRecord)
    BY <1>2, ErrorAllTyped, ConcatProperties DEF HandleErrorEvent, Typed, RestTyped
  <2>2. QueueTyped'
    BY <1>2, DropsTyped DEF HandleErrorEvent, Typed
  <2> QED BY <1>2, <2>1, <2>2, SameCallTyped, SamePhaseTyped DEF HandleErrorEvent, Typed
<1> QED BY <1>1, <1>2

LEMMA EndsClientTyped ==
    ASSUME Typed, EndsClient, UNCHANGED <<calls, asked, ran>>
    PROVE  PhaseTyped' /\ CallTyped' /\ QueueTyped' /\ ticks' \in Seq(TickRecord) /\ ended' = TRUE
<1>1. ticks' \in Seq(TickRecord) /\ ended' = TRUE
  BY ErrorAllTyped DEF EndsClient, Typed
<1>2. QueueTyped'
  BY DropsTyped DEF EndsClient, Typed
<1>3. PhaseTyped' /\ CallTyped'
  <2>1. CASE ending \/ connectionError \/ ~connecting
    BY <2>1, SameCallTyped DEF EndsClient, Typed, PhaseTyped
  <2>2. CASE ~(ending \/ connectionError \/ ~connecting) /\ callback # Nothing
    <3>1. Calls("error") /\ callback' = callback
      BY <2>2 DEF EndsClient
    <3>2. CallTyped'
      BY <3>1, CallsTyped DEF Typed, CallTyped, Verdict
    <3> QED BY <2>2, <3>2 DEF EndsClient, Typed, PhaseTyped
  <2>3. CASE ~(ending \/ connectionError \/ ~connecting) /\ callback = Nothing
    BY <2>3, SameCallTyped DEF EndsClient, Typed, PhaseTyped
  <2> QED BY <2>1, <2>2, <2>3
<1> QED BY <1>1, <1>2, <1>3

LEMMA WrittenTyped ==
    ASSUME NEW st \in Session, NEW q \in Item
    PROVE  Written(st, q) \in Session
BY DEF Written, Session, Stage

LEMMA GoesTyped ==
    ASSUME Typed
    PROVE  Goes \in Session
<1> DEFINE idle == [at |-> "idle", on |-> Nothing, next |-> Nothing]
<1>1. idle \in Session
  BY DEF Session, Stage
<1>2. srv.next \in Item \cup {Nothing}
  BY DEF Typed, ConnTyped, Session
<1>3. Goes = (IF srv.next = Nothing THEN idle ELSE Written(idle, srv.next))
  BY DEF Goes
<1> QED BY <1>1, <1>2, <1>3, WrittenTyped

LEMMA PulsesTyped ==
    ASSUME Typed, NEW que \in Seq(Item), NEW up, NEW st \in Session, Pulses(que, up, st),
           conn' = conn, got' = got \/ got' = Finished, ran' = ran, asked' \in 0..NumQueries
    PROVE  QueueTyped' /\ srv' \in Session
<1>1. got' \in [Query -> {"nothing", "result", "error"}]
  BY DEF Finished, Typed, QueueTyped
<1>2. CASE que = <<>>
  <2>1. /\ active' = Nothing /\ queue' = que /\ ready' = TRUE
        /\ srv' = st /\ sentOn' = sentOn
    BY <1>2 DEF Pulses
  <2> QED BY <1>1, <2>1 DEF Typed, QueueTyped
<1>3. CASE que # <<>>
  <2>1. Head(que) \in Item /\ Tail(que) \in Seq(Item)
    BY <1>3, RestOf
  <2>2. /\ active' = Head(que) /\ queue' = Tail(que) /\ ready' = FALSE
        /\ sentOn' = (IF up THEN conn ELSE NoConn)
        /\ srv' = (IF up THEN Written(st, Head(que)) ELSE st)
    BY <1>3 DEF Pulses
  <2>3. sentOn' \in Nat
    BY <2>2 DEF Typed, ConnTyped, NoConn
  <2>4. srv' \in Session
    BY <2>1, <2>2, WrittenTyped
  <2> QED BY <1>1, <2>1, <2>2, <2>3, <2>4 DEF Typed, QueueTyped
<1> QED BY <1>2, <1>3

LEMMA DestroysTyped ==
    ASSUME ConnTyped, Destroys
    PROVE  sock' \in Sock
BY DEF Destroys, ConnTyped, Sock

LEMMA SameQueueTyped ==
    ASSUME QueueTyped, UNCHANGED <<queueVars, asked, ran>>
    PROVE  QueueTyped'
BY DEF QueueTyped, queueVars

LEMMA SameTyped ==
    ASSUME Typed, UNCHANGED <<phaseVars, callVars, calls, conn, queueVars, asked, ran,
                              provided, ended, rolePending, ticks>>,
           sock' \in Sock, srv' \in Session,
           work' \subseteq [do : {"password", "sasl", "sasl next"}, con : Nat \ {0}]
    PROVE  Typed'
<1>1. PhaseTyped' /\ CallTyped' /\ QueueTyped'
  BY SamePhaseTyped, SameCallTyped, SameQueueTyped DEF Typed
<1> QED BY <1>1 DEF Typed, ConnTyped, RestTyped

-----------------------------------------------------------------------------
\* Every step keeps the types.

Work == [do : {"password", "sasl", "sasl next"}, con : Nat \ {0}]

LEMMA MoreWork ==
    ASSUME Typed, NEW what \in {"password", "sasl", "sasl next"},
           work' = work \cup {[do |-> what, con |-> conn]}
    PROVE  work' \subseteq Work
<1>1. [do |-> what, con |-> conn] \in Work
  BY DEF Typed, ConnTyped, Work
<1>2. work \subseteq Work
  BY DEF Typed, ConnTyped, Work
<1> QED BY <1>1, <1>2

LEMMA StartsTyped == NotThere \in Session /\ NotThere.at = "away" /\ NotThere.next = Nothing
BY DEF NotThere, Session, Stage

LEMMA StartedTyped ==
    ASSUME ConnTyped, conn' \in {conn, conn + 1}, sock' = "connecting", work' = work,
           srv' = NotThere
    PROVE  ConnTyped'
<1>1. srv' \in Session
  BY StartsTyped DEF Session
<1>2. sock' \in Sock
  BY DEF Sock
<1>3. conn' \in Nat \ {0}
  <2>1. \A c \in Nat \ {0} : c + 1 \in Nat \ {0}
    OBVIOUS
  <2> QED BY <2>1 DEF ConnTyped
<1> QED BY <1>1, <1>2, <1>3 DEF ConnTyped

LEMMA TypedInit ==
    ASSUME Init
    PROVE  Typed
<1>1. PhaseTyped /\ RestTyped
  BY EmptySeq DEF Init, PhaseTyped, RestTyped
<1>2. CallTyped
  <2>1. told \in [1..MaxCalls -> Seq(Verdict)]
    BY EmptySeq DEF Init
  <2> QED BY <2>1, ConnectAssumption DEF Init, CallTyped, Nothing
<1>3. ConnTyped
  <2>1. srv \in Session
    BY StartsTyped DEF Init, Session
  <2> QED BY <2>1 DEF Init, ConnTyped, Sock
<1>4. QueueTyped
  <2>1. /\ queue = <<>> /\ active = Nothing /\ ready = FALSE /\ sentOn = 0 /\ asked = 0
        /\ got = [q \in Query |-> "nothing"] /\ ran = [q \in Query |-> {}]
    BY DEF Init, NoConn
  <2>2. queue \in Seq(Item) /\ asked \in 0..NumQueries
    BY <2>1, EmptySeq, ConnectAssumption
  <2>3. got \in [Query -> {"nothing", "result", "error"}] /\ DOMAIN ran = Query
    BY <2>1
  <2> QED BY <2>1, <2>2, <2>3 DEF QueueTyped
<1> QED BY <1>1, <1>2, <1>3, <1>4 DEF Typed

LEMMA AnswerSentTyped ==
    ASSUME Typed, NEW w \in work, AnswerSent(w)
    PROVE  srv' \in Session
<1>1. w.do \in {"password", "sasl", "sasl next"}
  BY DEF Typed, ConnTyped
<1>2. Expects(w.do) \in Stage
  BY <1>1 DEF Expects, Stage
<1> QED BY <1>2 DEF AnswerSent, Typed, ConnTyped, Session, Stage

LEMMA ConnectToTyped ==
    ASSUME Typed, NEW order, NEW balances \in BOOLEAN, ConnectTo(order, balances)
    PROVE  Typed'
<1>1. /\ calls = 0 /\ MaxCalls > 0 /\ calls' = 1
      /\ UNCHANGED <<connected, queueVars, asked, ran, provided, ended, rolePending, ticks, work>>
  BY DEF ConnectTo, configVars
<1>2. RestTyped' /\ QueueTyped'
  BY <1>1, SameQueueTyped DEF Typed, RestTyped
<1>3. 1 \in 1..MaxCalls /\ 1 # Nothing
  BY <1>1, ConnectAssumption DEF Nothing
<1>4. CASE order = <<>>
  <2>1. told' \in [1..MaxCalls -> Seq(Verdict)]
    <3>1. <<"error">> \in Seq(Verdict)
      BY DEF Verdict
    <3> QED BY <1>3, <1>4, <3>1 DEF ConnectTo, Typed, CallTyped
  <2>2. CallTyped'
    <3>1. calls' \in 0..MaxCalls /\ callback' \in 0..MaxCalls /\ callback' \in {Nothing, calls'}
      <4>1. callback' = Nothing
        BY <1>4 DEF ConnectTo
      <4> QED BY <1>1, <1>3, <4>1, ConnectAssumption DEF Nothing
    <3> QED BY <2>1, <3>1 DEF CallTyped
  <2>3. PhaseTyped' /\ ConnTyped'
    BY <1>1, <1>4 DEF ConnectTo, Typed, PhaseTyped, ConnTyped
  <2> QED BY <1>2, <2>2, <2>3 DEF Typed
<1>5. CASE order # <<>>
  <2>1. CallTyped'
    BY <1>1, <1>3, <1>5 DEF ConnectTo, Typed, CallTyped
  <2>2. PhaseTyped'
    BY <1>1, <1>5 DEF ConnectTo, Typed, PhaseTyped
  <2>3. /\ conn' \in {conn, conn + 1} /\ sock' = "connecting"
        /\ srv' = NotThere
    BY <1>5 DEF ConnectTo, TriesHost, Starts
  <2>4. ConnTyped'
    BY <1>1, <2>3, StartedTyped DEF Typed
  <2> QED BY <1>2, <2>1, <2>2, <2>4 DEF Typed
<1> QED BY <1>4, <1>5

LEMMA ConnectAgainTyped ==
    ASSUME Typed, ConnectAgain
    PROVE  Typed'
<1>1. /\ calls' = calls + 1 /\ callback' = calls + 1 /\ calls + 1 \in 1..MaxCalls
      /\ ticks' = <<Tick("refuse", calls + 1)>> /\ told' = told
  BY ConnectAssumption DEF ConnectAgain, Typed, CallTyped
<1>2. ticks' \in Seq(TickRecord)
  BY <1>1, TickTyped, AppendAlone
<1>3. CallTyped'
  BY <1>1 DEF Typed, CallTyped
<1>4. RestTyped'
  BY <1>2 DEF ConnectAgain, configVars, Typed, RestTyped
<1>5. PhaseTyped' /\ ConnTyped' /\ QueueTyped'
  BY SamePhaseTyped, SameQueueTyped DEF ConnectAgain, Typed, connVars, ConnTyped
<1> QED BY <1>3, <1>4, <1>5 DEF Typed

LEMMA AskTyped ==
    ASSUME Typed, Ask
    PROVE  Typed'
<1>1. /\ asked' \in Query /\ asked' \in 0..NumQueries
      /\ UNCHANGED <<configVars, phaseVars, callVars, calls, sock, work, got, ran, ended,
                     rolePending, ticks>>
  BY ConnectAssumption DEF Ask, Asks, Typed, QueueTyped, Query
<1>2. Append(queue, asked') \in Seq(Item)
  BY <1>1, NoItems, OneMore DEF Typed, QueueTyped
<1>3. conn' = conn /\ QueueTyped' /\ srv' \in Session
  <2>1. CASE ready
    <3>1. Pulses(Append(queue, asked'), Writable, srv)
      BY <2>1 DEF Ask, Asks
    <3>2. conn' = conn
      BY <3>1 DEF Pulses
    <3> QED BY <1>1, <1>2, <3>1, <3>2, PulsesTyped DEF Typed, ConnTyped
  <2>2. CASE ~ready
    <3>1. queue' = Append(queue, asked') /\ UNCHANGED <<active, ready, sentOn, conn, srv>>
      BY <2>2 DEF Ask, Asks
    <3> QED BY <1>1, <1>2, <3>1 DEF Typed, QueueTyped, ConnTyped, Session
  <2> QED BY <2>1, <2>2
<1>4. PhaseTyped' /\ CallTyped' /\ ConnTyped' /\ RestTyped'
  BY <1>1, <1>3, SamePhaseTyped, SameCallTyped
     DEF Typed, ConnTyped, RestTyped, configVars, Session
<1> QED BY <1>3, <1>4 DEF Typed

LEMMA SocketsTyped ==
    ASSUME Typed, End \/ ConnectionTimeout \/ Connected
    PROVE  Typed'
<1>1. CASE End
  <2>1. sock' \in Sock
    BY <1>1, DestroysTyped DEF End, Typed, ConnTyped, Sock
  <2>2. UNCHANGED <<phaseVars, callVars, calls, conn, queueVars, asked, ran,
                    provided, ended, rolePending, ticks, work, srv>>
    BY <1>1 DEF End, Keeps, restVars, configVars
  <2> QED BY <2>1, <2>2, SameTyped DEF Typed, ConnTyped
<1>2. CASE ConnectionTimeout
  <2>1. sock' \in Sock /\ timer' = FALSE
    BY <1>2 DEF ConnectionTimeout, TimesOut, Typed, ConnTyped, Sock
  <2>2. UNCHANGED <<connecting, connected, connectionError, handler, callVars, calls, conn,
                    queueVars, asked, ran, provided, ended, rolePending, ticks, work, srv>>
    BY <1>2 DEF ConnectionTimeout, TimesOut, Keeps, restVars, configVars
  <2>3. PhaseTyped' /\ CallTyped' /\ QueueTyped'
    BY <2>1, <2>2, SameCallTyped, SameQueueTyped DEF Typed, PhaseTyped
  <2> QED BY <2>1, <2>2, <2>3 DEF Typed, ConnTyped, RestTyped
<1>3. CASE Connected
  <2>1. sock' \in Sock /\ srv' \in Session
    BY <1>3 DEF Connected, Typed, ConnTyped, Sock, Session, Stage
  <2>2. UNCHANGED <<phaseVars, callVars, calls, conn, queueVars, asked, ran,
                    provided, ended, rolePending, ticks, work>>
    BY <1>3 DEF Connected, restVars, configVars
  <2> QED BY <2>1, <2>2, SameTyped DEF Typed, ConnTyped, Session
<1> QED BY <1>1, <1>2, <1>3

\* The socket fails or is closed.
LEMMA SocketEventsTyped ==
    ASSUME Typed, SocketError \/ SocketClosed
    PROVE  Typed'
<1>1. CASE SocketError
  <2>1. PhaseTyped' /\ CallTyped' /\ QueueTyped' /\ ticks' \in Seq(TickRecord)
    BY <1>1, HandleErrorEventTyped DEF SocketError
  <2>2. sock' = "closing" /\ UNCHANGED <<conn, srv, work, provided, ended, rolePending>>
    BY <1>1 DEF SocketError, Keeps, configVars
  <2> QED BY <2>1, <2>2 DEF Typed, ConnTyped, RestTyped, Sock
<1>2. CASE SocketClosed
  <2>1. sock' = "closed" /\ UNCHANGED <<conn, srv, work, provided, rolePending, calls, asked, ran>>
    BY <1>2 DEF SocketClosed, Keeps, configVars
  <2>2. PhaseTyped' /\ CallTyped' /\ QueueTyped' /\ ticks' \in Seq(TickRecord)
        /\ ended' \in BOOLEAN
    <3>1. CASE connecting /\ handler
      <4>1. LeavesHost(~skip) /\ UNCHANGED <<ended, queueVars>>
        BY <1>2, <3>1 DEF SocketClosed
      <4>2. PhaseTyped' /\ CallTyped' /\ ticks' \in Seq(TickRecord)
        BY <2>1, <4>1, LeavesHostTyped DEF Typed, RestTyped
      <4> QED BY <2>1, <4>1, <4>2, SameQueueTyped DEF Typed, RestTyped
    <3>2. CASE ~(connecting /\ handler)
      <4>1. EndsClient
        BY <1>2, <3>2 DEF SocketClosed
      <4> QED BY <2>1, <4>1, EndsClientTyped
    <3> QED BY <3>1, <3>2
  <2> QED BY <2>1, <2>2 DEF Typed, ConnTyped, RestTyped, Sock
<1> QED BY <1>1, <1>2

LEMMA TicksTyped ==
    ASSUME Typed, TryNextHost \/ Refuse \/ FailQuery
    PROVE  Typed'
<1>1. /\ Head(ticks) \in TickRecord /\ Tail(ticks) \in Seq(TickRecord) /\ ticks # <<>>
  BY RestOf DEF TryNextHost, Refuse, FailQuery, RunsTick, Typed, RestTyped
<1>2. CASE TryNextHost
  <2>1. /\ ticks' = Tail(ticks)
        /\ UNCHANGED <<provided, ended, rolePending, queueVars, calls, work, asked, ran>>
    BY <1>2 DEF TryNextHost, configVars
  <2>2. QueueTyped' /\ RestTyped'
    BY <1>1, <2>1, SameQueueTyped DEF Typed, RestTyped
  <2>3. CASE todo = <<>>
    <3>1. GivesUp /\ UNCHANGED <<conn, sock, srv>>
      BY <1>2, <2>3 DEF TryNextHost
    <3> QED BY <2>1, <2>2, <3>1, GivesUpTyped DEF Typed, ConnTyped
  <2>4. CASE todo # <<>>
    <3>1. /\ TriesHost(Head(todo), TRUE) /\ connectionError' = FALSE /\ handler' = TRUE
          /\ UNCHANGED <<connecting, connected, timer, callVars>>
      BY <1>2, <2>4 DEF TryNextHost
    <3>2. PhaseTyped' /\ CallTyped'
      BY <2>1, <3>1, SameCallTyped DEF Typed, PhaseTyped
    <3>3. /\ conn' \in {conn, conn + 1} /\ sock' = "connecting"
          /\ srv' = NotThere
      BY <3>1 DEF TriesHost, Starts
    <3>4. ConnTyped'
      BY <2>1, <3>3, StartedTyped DEF Typed
    <3> QED BY <2>2, <3>2, <3>4 DEF Typed
  <2> QED BY <2>3, <2>4
<1>3. CASE Refuse
  <2> DEFINE c == Head(ticks).arg
  <2>1. /\ ticks' = Tail(ticks) /\ told' = [told EXCEPT ![c] = Append(told[c], "error")]
        /\ UNCHANGED <<configVars, phaseVars, callback, connVars, queueVars, ended, rolePending,
                       calls, work, asked, ran>>
    BY <1>3 DEF Refuse
  <2>2. c \in 1..MaxCalls
    BY <1>1, <1>3 DEF Refuse, RunsTick, TickRecord
  <2>3. told' \in [1..MaxCalls -> Seq(Verdict)]
    <3>1. Append(told[c], "error") \in Seq(Verdict)
      BY <2>2, AppendProperties DEF Typed, CallTyped, Verdict
    <3> QED BY <2>1, <2>2, <3>1 DEF Typed, CallTyped
  <2>4. PhaseTyped' /\ QueueTyped'
    BY <2>1, SamePhaseTyped, SameQueueTyped DEF Typed
  <2> QED BY <1>1, <2>1, <2>3, <2>4 DEF Typed, CallTyped, ConnTyped, RestTyped, connVars, configVars
<1>4. CASE FailQuery
  <2>1. UNCHANGED <<configVars, queue, active, ready, sentOn, ended, calls, work, asked, ran,
                    conn, srv>>
    BY <1>4 DEF FailQuery, Keeps
  <2>2. QueueTyped'
    <3>1. got' \in [Query -> {"nothing", "result", "error"}]
      BY <1>4 DEF FailQuery, Typed, QueueTyped
    <3> QED BY <2>1, <3>1 DEF Typed, QueueTyped
  <2>3. /\ PhaseTyped' /\ CallTyped' /\ ticks' \in Seq(TickRecord) /\ sock' \in Sock
        /\ rolePending' \in BOOLEAN
    <3>1. CASE Head(ticks).arg = Probe
      <4>1. rolePending' = FALSE /\ SkipsHost(Tail(ticks))
        BY <1>4, <3>1 DEF FailQuery
      <4>2. sock' \in Sock
        BY <4>1, DestroysTyped DEF SkipsHost, Typed
      <4> QED BY <1>1, <2>1, <4>1, <4>2, SkipsHostTyped DEF Typed
    <3>2. CASE Head(ticks).arg # Probe
      <4>1. ticks' = Tail(ticks) /\ UNCHANGED <<rolePending, phaseVars, callVars, sock>>
        BY <1>4, <3>2 DEF FailQuery
      <4> QED BY <1>1, <2>1, <4>1, SamePhaseTyped, SameCallTyped DEF Typed, RestTyped, ConnTyped
    <3> QED BY <3>1, <3>2
  <2> QED BY <2>1, <2>2, <2>3 DEF Typed, ConnTyped, RestTyped, configVars
<1> QED BY <1>2, <1>3, <1>4

\* What the server does next, and what it was asked for.
LEMMA BecomesTyped ==
    ASSUME Typed, NEW at \in Stage, Becomes(at)
    PROVE  srv' \in Session
BY DEF Becomes, Typed, ConnTyped, Session

LEMMA AsksForTyped ==
    ASSUME Typed, NEW what \in Stage, AsksFor(what)
    PROVE  srv' \in Session
<1>1. "astray" \in Stage
  BY DEF Stage
<1> QED BY <1>1, BecomesTyped DEF AsksFor

\* A message that only sets work, the stage of the server or the session.
LEMMA SameClientTyped ==
    ASSUME Typed, SameClient, srv' \in Session, work' \subseteq Work
    PROVE  Typed'
<1>1. UNCHANGED <<phaseVars, callVars, calls, conn, queueVars, asked, ran,
                  provided, ended, rolePending, ticks, sock>>
  BY DEF SameClient, configVars
<1>2. sock' \in Sock
  BY <1>1 DEF Typed, ConnTyped
<1> QED BY <1>1, <1>2, SameTyped DEF Session, Work

LEMMA ConnectionFailsTyped ==
    ASSUME Typed, ConnectionFails, work' \subseteq Work
    PROVE  Typed'
<1>1. UNCHANGED <<configVars, conn, srv, ended, rolePending, calls, asked, ran>>
  BY DEF ConnectionFails, ErrorOnly
<1>2. PhaseTyped' /\ CallTyped' /\ QueueTyped' /\ ticks' \in Seq(TickRecord)
  BY <1>1, HandleErrorEventTyped DEF ConnectionFails
<1>3. sock' \in Sock
  BY DestroysTyped DEF ConnectionFails, DestroysIfFailing, Typed, ConnTyped
<1> QED BY <1>1, <1>2, <1>3 DEF Typed, ConnTyped, RestTyped, configVars, Work

LEMMA AuthTyped ==
    ASSUME Typed,
           \/ \E what \in {"password", "sasl"} : AuthRequest(what)
           \/ AuthSASLContinue \/ AuthOk \/ \E good \in BOOLEAN : AuthSASLFinal(good)
           \/ \E w \in work : WorkDone(w) \/ WorkFails(w)
    PROVE  Typed'
<1>0. work \subseteq Work
  BY DEF Typed, ConnTyped, Work
<1>1. ASSUME NEW what \in {"password", "sasl"}, AuthRequest(what) PROVE Typed'
  <2>1. srv' \in Session
    BY <1>1, AsksForTyped DEF AuthRequest, Stage
  <2>2. work' \subseteq Work
    BY <1>1, MoreWork DEF AuthRequest
  <2> QED BY <1>1, <2>1, <2>2, SameClientTyped DEF AuthRequest
<1>2. CASE AuthSASLContinue
  <2>1. srv' \in Session
    BY <1>2, AsksForTyped DEF AuthSASLContinue, Stage
  <2>2. work' \subseteq Work
    BY <1>2, MoreWork DEF AuthSASLContinue
  <2> QED BY <1>2, <2>1, <2>2, SameClientTyped DEF AuthSASLContinue
<1>3. CASE AuthOk
  <2>1. srv' \in Session
    BY <1>3, BecomesTyped DEF AuthOk, Stage
  <2> QED BY <1>0, <1>3, <2>1, SameClientTyped DEF AuthOk
<1>4. ASSUME NEW good \in BOOLEAN, AuthSASLFinal(good) PROVE Typed'
  <2>1. CASE good /\ session = conn
    <3>1. srv' \in Session /\ work' = work /\ SameClient
      BY <1>4, <2>1, BecomesTyped DEF AuthSASLFinal, Stage
    <3> QED BY <1>0, <3>1, SameClientTyped
  <2>2. CASE ~(good /\ session = conn)
    <3>1. work' = work /\ ConnectionFails
      BY <1>4, <2>2 DEF AuthSASLFinal
    <3> QED BY <1>0, <3>1, ConnectionFailsTyped
  <2> QED BY <2>1, <2>2
<1>5. ASSUME NEW w \in work, WorkDone(w) PROVE Typed'
  <2>1. srv' \in Session
    BY <1>5, AnswerSentTyped DEF WorkDone
  <2>2. work' \subseteq Work /\ SameClient
    BY <1>0, <1>5 DEF WorkDone
  <2> QED BY <2>1, <2>2, SameClientTyped
<1>6. ASSUME NEW w \in work, WorkFails(w) PROVE Typed'
  <2>1. work' \subseteq Work
    BY <1>0, <1>6 DEF WorkFails
  <2>2. CASE ConnectionFails
    BY <2>1, <2>2, ConnectionFailsTyped
  <2>3. CASE ErrorOnly /\ UNCHANGED <<phaseVars, callVars, queueVars, sock, live, queryable, ticks>>
    <3>1. UNCHANGED <<phaseVars, callVars, calls, conn, queueVars, asked, ran,
                      provided, ended, rolePending, ticks, sock, srv>>
      BY <2>3 DEF ErrorOnly, configVars
    <3>2. sock' \in Sock /\ srv' \in Session
      BY <3>1 DEF Typed, ConnTyped
    <3> QED BY <2>1, <3>1, <3>2, SameTyped DEF Work
  <2> QED BY <1>6, <2>2, <2>3 DEF WorkFails
<1> QED BY <1>1, <1>2, <1>3, <1>4, <1>5, <1>6

LEMMA ErrorMessageTyped ==
    ASSUME Typed, ErrorMessage
    PROVE  Typed'
<1>1. UNCHANGED <<configVars, conn, ended, rolePending, calls, work, asked, ran>>
  BY DEF ErrorMessage
<1>2. /\ PhaseTyped' /\ CallTyped' /\ QueueTyped' /\ ticks' \in Seq(TickRecord)
      /\ sock' \in Sock /\ srv' \in Session
  <2>1. CASE connecting \/ active = Nothing
    <3>1. HandleErrorEvent /\ DestroysIfFailing /\ srv' = srv
      BY <2>1 DEF ErrorMessage
    <3>2. sock' \in Sock
      BY <3>1, DestroysTyped DEF DestroysIfFailing, Typed, ConnTyped
    <3>3. PhaseTyped' /\ CallTyped' /\ QueueTyped' /\ ticks' \in Seq(TickRecord)
      BY <1>1, <3>1, HandleErrorEventTyped
    <3> QED BY <3>1, <3>2, <3>3 DEF Typed, ConnTyped, Session
  <2>2. CASE ~(connecting \/ active = Nothing)
    <3>1. /\ got' = (IF active \in Query THEN [got EXCEPT ![active] = "error"] ELSE got)
          /\ active' = Nothing /\ Becomes("done")
          /\ UNCHANGED <<phaseVars, callVars, queue, ready, sentOn, ticks, sock>>
      BY <2>2 DEF ErrorMessage
    <3>2. srv' \in Session
      BY <3>1, BecomesTyped DEF Stage
    <3>3. got' \in [Query -> {"nothing", "result", "error"}]
      BY <3>1 DEF Typed, QueueTyped
    <3>4. QueueTyped'
      BY <1>1, <3>1, <3>3 DEF Typed, QueueTyped
    <3>5. PhaseTyped' /\ CallTyped'
      BY <1>1, <3>1, SamePhaseTyped, SameCallTyped DEF Typed
    <3> QED BY <3>1, <3>2, <3>4, <3>5 DEF Typed, RestTyped, ConnTyped
  <2> QED BY <2>1, <2>2
<1> QED BY <1>1, <1>2 DEF Typed, ConnTyped, RestTyped, configVars, Session

LEMMA MessagesTyped ==
    ASSUME Typed, ProtocolFallback \/ ProbeRow \/ CommandComplete
    PROVE  Typed'
<1>1. CASE ProtocolFallback
  <2>1. /\ connectionError' = FALSE /\ Starts(conn + 1)
        /\ UNCHANGED <<configVars, connecting, connected, handler, timer, callVars, queueVars,
                       ended, rolePending, calls, work, asked, ran, ticks>>
    BY <1>1 DEF ProtocolFallback, FallsBack
  <2>2. ConnTyped'
    BY <2>1, StartedTyped DEF Typed, Starts
  <2>3. PhaseTyped' /\ CallTyped' /\ QueueTyped'
    BY <2>1, SameCallTyped, SameQueueTyped DEF Typed, PhaseTyped
  <2> QED BY <2>1, <2>2, <2>3 DEF Typed, RestTyped, configVars
<1>2. CASE ProbeRow
  <2>1. /\ srv' \in Session
        /\ UNCHANGED <<configVars, phaseVars, callVars, conn, sock, queue, active, ready, sentOn,
                       got, restVars>>
    BY <1>2, BecomesTyped DEF ProbeRow, Stage
  <2>2. QueueTyped'
    BY <2>1 DEF Typed, QueueTyped, restVars
  <2>3. PhaseTyped' /\ CallTyped'
    BY <2>1, SamePhaseTyped, SameCallTyped DEF Typed, restVars
  <2> QED BY <2>1, <2>2, <2>3 DEF Typed, ConnTyped, RestTyped, configVars, restVars, Session
<1>3. CASE CommandComplete
  <2>1. /\ srv' \in Session
        /\ UNCHANGED <<configVars, phaseVars, callVars, conn, sock, queueVars, ended, rolePending,
                       calls, work, asked, ticks>>
    BY <1>3, BecomesTyped DEF CommandComplete, Stage
  <2>2. DOMAIN ran' = Query
    <3>1. ran' = ran \/ ran' = [ran EXCEPT ![srv.on] = ran[srv.on] \cup {host}]
      BY <1>3 DEF CommandComplete
    <3> QED BY <3>1 DEF Typed, QueueTyped
  <2>3. QueueTyped'
    BY <2>1, <2>2 DEF Typed, QueueTyped, queueVars
  <2>4. PhaseTyped' /\ CallTyped'
    BY <2>1, SamePhaseTyped, SameCallTyped DEF Typed
  <2> QED BY <2>1, <2>3, <2>4 DEF Typed, ConnTyped, RestTyped, configVars, Session
<1> QED BY <1>1, <1>2, <1>3

LEMMA WithoutTyped ==
    ASSUME Typed
    PROVE  Without \in Seq(Item)
<1>1. CASE Places = {}
  BY <1>1 DEF Without, Typed, QueueTyped
<1>2. CASE Places # {}
  <2>1. PICK i \in Places : Without = RemoveAt(queue, i)
    BY <1>2 DEF Without
  <2>2. i \in 1..Len(queue) /\ queue # <<>> /\ queue \in Seq(Item)
    BY DEF Places, Typed, QueueTyped
  <2>3. SubSeq(queue, 1, i - 1) \in Seq(Item) /\ SubSeq(queue, i + 1, Len(queue)) \in Seq(Item)
    BY <2>2, SubSeqProperties
  <2> QED BY <2>1, <2>3, ConcatProperties DEF RemoveAt
<1> QED BY <1>1, <1>2

LEMMA ReadyTyped ==
    ASSUME Typed, ReadyProbes \/ ReadySkips \/ ReadyConnects \/ ReadyGoesOn \/ ReadyAfterProbe
    PROVE  Typed'
<1> DEFINE Kept == UNCHANGED <<configVars, ended, calls, work, asked, ran, conn>>
<1>1. CASE ReadyProbes
  <2>1. /\ Kept /\ got' = Finished /\ rolePending' = TRUE
        /\ Pulses(IF Refused THEN queue ELSE Append(queue, Probe), Writable, Goes)
        /\ ticks' = (IF Refused THEN <<Tick("fail", Probe)>> ELSE ticks)
        /\ UNCHANGED <<phaseVars, callVars, sock>>
    BY <1>1 DEF ReadyProbes, SameAtReady, Pulses
  <2>2. (IF Refused THEN queue ELSE Append(queue, Probe)) \in Seq(Item)
    BY NoItems, OneMore DEF Typed, QueueTyped
  <2>3. QueueTyped' /\ srv' \in Session
    BY <2>1, <2>2, PulsesTyped, GoesTyped DEF Typed, QueueTyped
  <2>4. ticks' \in Seq(TickRecord)
    BY <2>1, NoItems, TickTyped, AppendAlone DEF Typed, RestTyped
  <2>5. PhaseTyped' /\ CallTyped'
    BY <2>1, SamePhaseTyped, SameCallTyped DEF Typed
  <2> QED BY <2>1, <2>3, <2>4, <2>5 DEF Typed, ConnTyped, RestTyped, configVars, Session
<1>2. CASE ReadyConnects
  <2>1. /\ Kept /\ got' = Finished /\ Succeeds /\ Pulses(queue, Writable, Goes)
        /\ UNCHANGED <<rolePending, ticks, sock>>
    BY <1>2 DEF ReadyConnects, SameAtReady, Pulses
  <2>2. QueueTyped' /\ srv' \in Session
    BY <2>1, PulsesTyped, GoesTyped DEF Typed, QueueTyped
  <2>3. PhaseTyped' /\ CallTyped'
    BY <2>1, SucceedsTyped DEF Typed
  <2> QED BY <2>1, <2>2, <2>3 DEF Typed, ConnTyped, RestTyped, configVars, Session
<1>3. CASE ReadyGoesOn
  <2>1. /\ Kept /\ got' = Finished /\ Pulses(queue, Writable, Goes)
        /\ UNCHANGED <<phaseVars, callVars, rolePending, ticks, sock>>
    BY <1>3 DEF ReadyGoesOn, SameAtReady, Pulses
  <2>2. QueueTyped' /\ srv' \in Session
    BY <2>1, PulsesTyped, GoesTyped DEF Typed, QueueTyped
  <2>3. PhaseTyped' /\ CallTyped'
    BY <2>1, SamePhaseTyped, SameCallTyped DEF Typed
  <2> QED BY <2>1, <2>2, <2>3 DEF Typed, ConnTyped, RestTyped, configVars, Session
<1>4. CASE ReadyAfterProbe
  <2> DEFINE good == rows # NoRole /\ Acceptable(rows)
  <2>1. Kept /\ got' = got /\ rolePending' = FALSE
    BY <1>4 DEF ReadyAfterProbe, RoleKnown, SameAtReady, Pulses
  <2>2. CASE good
    <3>1. Succeeds /\ Pulses(queue, Writable, Goes) /\ UNCHANGED <<ticks, sock>>
      BY <1>4, <2>2 DEF ReadyAfterProbe, RoleKnown
    <3>2. QueueTyped' /\ srv' \in Session
      BY <2>1, <3>1, PulsesTyped, GoesTyped DEF Typed, QueueTyped
    <3>3. PhaseTyped' /\ CallTyped'
      BY <2>1, <3>1, SucceedsTyped DEF Typed
    <3> QED BY <2>1, <3>1, <3>2, <3>3 DEF Typed, ConnTyped, RestTyped, configVars, Session
  <2>3. CASE ~good
    <3>1. SkipsHost(ticks) /\ Pulses(queue, FALSE, Goes)
      BY <1>4, <2>3 DEF ReadyAfterProbe, RoleKnown
    <3>2. QueueTyped' /\ srv' \in Session
      BY <2>1, <3>1, PulsesTyped, GoesTyped DEF Typed, QueueTyped
    <3>3. PhaseTyped' /\ CallTyped' /\ ticks' \in Seq(TickRecord)
      BY <2>1, <3>1, SkipsHostTyped DEF Typed, RestTyped
    <3>4. sock' \in Sock
      BY <3>1, DestroysTyped DEF SkipsHost, Typed
    <3> QED BY <2>1, <3>2, <3>3, <3>4 DEF Typed, ConnTyped, RestTyped, configVars, Session
  <2> QED BY <2>2, <2>3
<1>5. CASE ReadySkips
  <2>1. /\ Kept /\ SkipsHost(ticks) /\ UNCHANGED <<srv, queueVars, rolePending>>
    BY <1>5 DEF ReadySkips, SameAtReady
  <2>2. PhaseTyped' /\ CallTyped' /\ ticks' \in Seq(TickRecord)
    BY <2>1, SkipsHostTyped DEF Typed, RestTyped
  <2>3. sock' \in Sock
    BY <2>1, DestroysTyped DEF SkipsHost, Typed
  <2>4. QueueTyped'
    BY <2>1, SameQueueTyped DEF Typed
  <2> QED BY <2>1, <2>2, <2>3, <2>4 DEF Typed, ConnTyped, RestTyped, configVars
<1> QED BY <1>1, <1>2, <1>3, <1>4, <1>5

LEMMA ProbeTimesOutTyped ==
    ASSUME Typed, ProbeTimesOut
    PROVE  Typed'
<1>1. /\ SkipsHost(ticks) /\ active' = (IF active = Probe THEN Late ELSE active)
      /\ queue' = Without /\ rolePending' = FALSE
      /\ srv' = (IF srv.on = Probe THEN [srv EXCEPT !.on = Late] ELSE srv)
      /\ UNCHANGED <<configVars, conn, ready, sentOn, got, ended, calls, work, asked, ran>>
  BY DEF ProbeTimesOut, SameAtReady
<1>2. QueueTyped'
  BY <1>1, WithoutTyped, NoItems DEF Typed, QueueTyped
<1>3. srv' \in Session
  BY <1>1, NoItems DEF Typed, ConnTyped, Session
<1>4. PhaseTyped' /\ CallTyped' /\ ticks' \in Seq(TickRecord)
  BY <1>1, SkipsHostTyped DEF Typed, RestTyped
<1>5. sock' \in Sock
  BY <1>1, DestroysTyped DEF SkipsHost, Typed
<1> QED BY <1>1, <1>2, <1>3, <1>4, <1>5 DEF Typed, ConnTyped, RestTyped, configVars

LEMMA TypedStep ==
    ASSUME Typed, [Next]_vars
    PROVE  Typed'
<1>1. CASE Connect
  <2>1. mode = "off" => ConnectTo(<<Head(Hosts)>>, FALSE)
    BY <1>1 DEF Connect
  <2>2. mode # "off" => \E order \in Orders(target, mode) : ConnectTo(order, TRUE)
    BY <1>1 DEF Connect
  <2> QED BY <2>1, <2>2, ConnectToTyped
<1>2. CASE UNCHANGED vars
  BY <1>2, SameTyped DEF vars, restVars, connVars, configVars, Typed, ConnTyped
<1> QED
  BY <1>1, <1>2, ConnectAgainTyped, AskTyped, SocketsTyped, SocketEventsTyped, TicksTyped,
     AuthTyped, ErrorMessageTyped, MessagesTyped, ReadyTyped, ProbeTimesOutTyped DEF Next

-----------------------------------------------------------------------------
\* What the calls of connect are told.

\* No call of connect is refused that was not about to be.
Refuses(tk) == {tk[i] : i \in {j \in 1..Len(tk) : tk[j].do = "refuse"}}

LEMMA RefusesRest ==
    ASSUME NEW tk \in Seq(TickRecord), tk # <<>>
    PROVE  Refuses(Tail(tk)) \subseteq Refuses(tk)
BY RestOf DEF Refuses

LEMMA RefusesNext ==
    ASSUME NEW tk \in Seq(TickRecord)
    PROVE  Refuses(Append(tk, Tick("next", Nothing))) \subseteq Refuses(tk)
<1> DEFINE t == Tick("next", Nothing)
           s == Append(tk, t)
<1>1. /\ Len(s) = Len(tk) + 1 /\ Len(tk) \in Nat /\ \A i \in 1..Len(tk) : s[i] = tk[i]
      /\ s[Len(tk) + 1] = t
  BY TickTyped, OneMore
<1>2. t.do # "refuse"
  BY DEF Tick
<1> HIDE DEF s, t
<1>3. ASSUME NEW i \in 1..Len(s), s[i].do = "refuse"
      PROVE  i \in 1..Len(tk) /\ s[i] = tk[i]
  <2>1. i # Len(tk) + 1
    BY <1>1, <1>2, <1>3
  <2>2. i \in 1..Len(tk)
    BY <1>1, <2>1
  <2> QED BY <1>1, <2>2
<1>4. Refuses(s) \subseteq Refuses(tk)
  BY <1>3 DEF Refuses
<1> QED BY <1>4 DEF s, t

LEMMA RefusesErrors ==
    ASSUME QueueTyped
    PROVE  Refuses(ErrorAll) = {}
<1>1. \A q : Tick("fail", q).do = "fail"
  BY DEF Tick
<1>2. \A i \in 1..Len(ErrorAll) : ErrorAll[i] = Tick("fail", Unanswered[i])
  BY ErrorAllTyped
<1>3. \A i \in 1..Len(ErrorAll) : ErrorAll[i].do = "fail"
  BY <1>1, <1>2
<1> QED BY <1>3 DEF Refuses

\* The callback of connect is told an error, once, or nothing.
ErrorOrNothing ==
    /\ connected' = connected /\ calls' = calls
    /\ \/ UNCHANGED callVars
       \/ Answers("error")
       \/ Calls("error") /\ callback' = callback /\ ended'

LEMMA CallsErrorTells ==
    ASSUME Typed, Calls("error")
    PROVE  \A c \in 1..MaxCalls :
              /\ c # callback => told'[c] = told[c]
              /\ c = callback => /\ Len(told[c]) \in Nat /\ Len(told'[c]) = Len(told[c]) + 1
                                 /\ told'[c][Len(told[c]) + 1] = "error"
                                 /\ \A i \in 1..Len(told[c]) : told'[c][i] = told[c][i]
<1>1. CASE callback = Nothing
  BY <1>1, ConnectAssumption DEF Calls, Nothing
<1>2. CASE callback # Nothing
  <2>1. callback \in 1..MaxCalls /\ told \in [1..MaxCalls -> Seq(Verdict)]
    BY <1>2, ConnectAssumption DEF Typed, CallTyped, Nothing
  <2>2. told' = [told EXCEPT ![callback] = Append(told[callback], "error")]
    BY <1>2 DEF Calls
  <2>3. /\ Len(told[callback]) \in Nat
        /\ Len(Append(told[callback], "error")) = Len(told[callback]) + 1
        /\ Append(told[callback], "error")[Len(told[callback]) + 1] = "error"
        /\ \A i \in 1..Len(told[callback]) : Append(told[callback], "error")[i] = told[callback][i]
    BY <2>1, OneMore DEF Verdict
  <2>4. /\ told'[callback] = Append(told[callback], "error")
        /\ \A c \in 1..MaxCalls : c # callback => told'[c] = told[c]
    BY <2>1, <2>2
  <2> QED BY <2>3, <2>4
<1> QED BY <1>1, <1>2

LEMMA SameTold ==
    ASSUME CallsTold(ticks), UNCHANGED <<callVars, calls, connected>>, ended => ended',
           Refuses(ticks') \subseteq Refuses(ticks)
    PROVE  CallsTold(ticks)'
<1>1. \A j \in 1..Len(ticks') : ticks'[j].do = "refuse" =>
         \E i \in 1..Len(ticks) : ticks[i] = ticks'[j] /\ ticks[i].do = "refuse"
  <2> SUFFICES ASSUME NEW j \in 1..Len(ticks'), ticks'[j].do = "refuse"
               PROVE  \E i \in 1..Len(ticks) : ticks[i] = ticks'[j] /\ ticks[i].do = "refuse"
    OBVIOUS
  <2>1. ticks'[j] \in Refuses(ticks)
    BY DEF Refuses
  <2> QED BY <2>1 DEF Refuses
<1>2. \A c : Tick("refuse", c).do = "refuse"
  BY DEF Tick
<1>3. ASSUME NEW c \in 1..MaxCalls, \A j \in 1..Len(ticks) : ticks[j] # Tick("refuse", c)
      PROVE  \A j \in 1..Len(ticks') : ticks'[j] # Tick("refuse", c)
  BY <1>1, <1>2, <1>3
<1>4. told' = told /\ callback' = callback /\ calls' = calls /\ connected' = connected
  BY DEF callVars
<1>5. \A j \in 1..Len(ticks') : ticks'[j].do = "refuse" => ticks'[j].arg \in 2..calls'
  BY <1>1 DEF CallsTold
<1> QED BY <1>3, <1>4, <1>5 DEF CallsTold

LEMMA ErrorTold ==
    ASSUME Typed, CallsTold(ticks), ErrorOrNothing, ended => ended',
           Refuses(ticks') \subseteq Refuses(ticks)
    PROVE  CallsTold(ticks)'
<1>1. CASE UNCHANGED callVars
  BY <1>1, SameTold DEF ErrorOrNothing
<1>2. CASE Calls("error") /\ (callback' = Nothing \/ (callback' = callback /\ ended'))
  <2>1. \A c \in 1..MaxCalls :
              /\ c # callback => told'[c] = told[c]
              /\ c = callback => /\ Len(told[c]) \in Nat /\ Len(told'[c]) = Len(told[c]) + 1
                                 /\ told'[c][Len(told[c]) + 1] = "error"
                                 /\ \A i \in 1..Len(told[c]) : told'[c][i] = told[c][i]
    BY <1>2, CallsErrorTells
  <2>2. connected' = connected /\ calls' = calls
    BY DEF ErrorOrNothing
  <2>3. ASSUME NEW c \in 1..MaxCalls, c > calls'
        PROVE  told'[c] = <<>>
    <3>1. c # callback
      BY <2>2, <2>3, ConnectAssumption DEF Typed, CallTyped, Nothing
    <3> QED BY <2>1, <2>2, <2>3, <3>1 DEF CallsTold
  <2>4. ASSUME NEW c \in 1..MaxCalls, NEW i \in 1..Len(told'[c]), told'[c][i] = "ok"
        PROVE  /\ c # callback /\ told'[c] = told[c] /\ connected' /\ i = Len(told'[c])
               /\ \A j \in 1..Len(ticks) : ticks[j] # Tick("refuse", c)
    <3>1. c # callback
      <4> SUFFICES ASSUME c = callback PROVE FALSE
        OBVIOUS
      <4>1. i \in 1..Len(told[c]) /\ told[c][i] = "ok"
        <5>1. i # Len(told[c]) + 1
          BY <2>1, <2>4
        <5>2. i \in 1..Len(told[c])
          BY <2>1, <5>1
        <5> QED BY <2>1, <2>4, <5>2
      <4> QED BY <4>1 DEF CallsTold
    <3> QED BY <2>1, <2>2, <2>4, <3>1 DEF CallsTold
  <2>5. \A j \in 1..Len(ticks') : ticks'[j].do = "refuse" =>
           \E i \in 1..Len(ticks) : ticks[i] = ticks'[j] /\ ticks[i].do = "refuse"
    <3> SUFFICES ASSUME NEW j \in 1..Len(ticks'), ticks'[j].do = "refuse"
                 PROVE  \E i \in 1..Len(ticks) : ticks[i] = ticks'[j] /\ ticks[i].do = "refuse"
      OBVIOUS
    <3>1. ticks'[j] \in Refuses(ticks)
      BY DEF Refuses
    <3> QED BY <3>1 DEF Refuses
  <2>6. ASSUME NEW c \in 1..MaxCalls, NEW i \in 1..Len(told'[c]), told'[c][i] = "ok"
        PROVE  /\ c # callback'
               /\ \A j \in 1..Len(ticks') : ticks'[j] # Tick("refuse", c)
    <3>1. c # callback'
      BY <1>2, <2>4, <2>6, ConnectAssumption DEF Nothing
    <3>2. \A j \in 1..Len(ticks) : ticks[j] # Tick("refuse", c)
      BY <2>4, <2>6
    <3>3. Tick("refuse", c).do = "refuse"
      BY DEF Tick
    <3> QED BY <2>5, <3>1, <3>2, <3>3
  <2>7. \A j \in 1..Len(ticks') : ticks'[j].do = "refuse" => ticks'[j].arg \in 2..calls'
    BY <2>2, <2>5 DEF CallsTold
  <2>8. ASSUME NEW c \in 1..MaxCalls, c = 1
        PROVE  /\ Len(told'[c]) > 1 => ended'
               /\ callback' = 1 /\ told'[c] # <<>> => ended'
    <3>1. callback' = 1 => ended'
      BY <1>2, ConnectAssumption DEF Nothing
    <3>2. CASE c # callback
      BY <2>1, <2>8, <3>1, <3>2 DEF CallsTold
    <3>3. CASE c = callback
      <4>1. CASE told[c] = <<>>
        <5>1. Len(told[c]) = 0
          BY <4>1
        <5>2. Len(told'[c]) = Len(told[c]) + 1
          BY <2>1, <3>3
        <5>3. Len(told'[c]) = 1
          BY <5>1, <5>2
        <5> QED BY <3>1, <5>3
      <4>2. CASE told[c] # <<>>
        BY <2>8, <3>3, <4>2 DEF CallsTold
      <4> QED BY <4>1, <4>2
    <3> QED BY <3>2, <3>3
  <2>9. calls' = 1 /\ connected' => told'[1] = <<"ok">>
    <3> SUFFICES ASSUME calls = 1, connected PROVE told'[1] = <<"ok">>
      BY <2>2
    <3>1. told[1] = <<"ok">> /\ 1 \in 1..MaxCalls
      BY ConnectAssumption DEF CallsTold, Typed, CallTyped
    <3>2. 1 # callback
      <4>1. 1 \in 1..Len(told[1]) /\ told[1][1] = "ok"
        BY <3>1
      <4> QED BY <3>1, <4>1 DEF CallsTold
    <3> QED BY <2>1, <3>1, <3>2
  <2> QED BY <2>2, <2>3, <2>4, <2>6, <2>7, <2>8, <2>9 DEF CallsTold
<1> QED BY <1>1, <1>2 DEF ErrorOrNothing, Answers


-----------------------------------------------------------------------------
\* Which callbacks are left.

ProbeOnce(tk) == \A i, j \in 1..Len(tk) : IsProbe(tk[i]) /\ IsProbe(tk[j]) => i = j
NextOnce(tk) == \A i, j \in 1..Len(tk) : tk[i].do = "next" /\ tk[j].do = "next" => i = j

LEMMA RestHas ==
    ASSUME NEW tk \in Seq(TickRecord), tk # <<>>
    PROVE  /\ NextIn(Tail(tk)) => NextIn(tk)
           /\ FailsIn(Tail(tk)) => FailsIn(tk)
           /\ ProbeOnce(tk) => ProbeOnce(Tail(tk))
           /\ NextOnce(tk) => NextOnce(Tail(tk))
           /\ NextOnce(tk) /\ Head(tk).do = "next" => ~NextIn(Tail(tk))
           /\ ProbeOnce(tk) /\ IsProbe(Head(tk)) => FailsIn(tk) /\ ~FailsIn(Tail(tk))
           /\ Head(tk).do = "next" => NextIn(tk)
<1> DEFINE r == Tail(tk)
<1>1. /\ Head(tk) = tk[1] /\ Len(tk) \in Nat \ {0} /\ Len(r) = Len(tk) - 1
      /\ \A i \in 1..Len(r) : i + 1 \in 1..Len(tk) /\ r[i] = tk[i + 1]
  BY RestOf
<1> HIDE DEF r
<1>2. 1 \in 1..Len(tk) /\ \A i \in 1..Len(r) : i + 1 # 1
  BY <1>1
<1>3. \A i, j \in 1..Len(r) : i + 1 = j + 1 => i = j
  BY <1>1
<1>4. (NextIn(r) => NextIn(tk)) /\ (FailsIn(r) => FailsIn(tk))
  BY <1>1 DEF NextIn, FailsIn
<1>5. (ProbeOnce(tk) => ProbeOnce(r)) /\ (NextOnce(tk) => NextOnce(r))
  BY <1>1, <1>3 DEF ProbeOnce, NextOnce
<1>6. NextOnce(tk) /\ Head(tk).do = "next" => ~NextIn(r)
  BY <1>1, <1>2 DEF NextOnce, NextIn
<1>7. ProbeOnce(tk) /\ IsProbe(Head(tk)) => FailsIn(tk) /\ ~FailsIn(r)
  BY <1>1, <1>2 DEF ProbeOnce, FailsIn
<1>8. Head(tk).do = "next" => NextIn(tk)
  BY <1>1, <1>2 DEF NextIn
<1> QED BY <1>4, <1>5, <1>6, <1>7, <1>8 DEF r

LEMMA KindsDiffer ==
    /\ ~IsProbe(Tick("next", Nothing)) /\ \A c : ~IsProbe(Tick("refuse", c))
    /\ Tick("next", Nothing).do = "next" /\ \A c : Tick("refuse", c).do = "refuse"
    /\ \A q : Tick("fail", q).do = "fail"
    /\ \A q : IsProbe(Tick("fail", q)) => q = Probe
<1>1. \A a, b : Tick(a, b).do = a /\ Tick(a, b).arg = b
  BY DEF Tick
<1> QED BY <1>1 DEF IsProbe

LEMMA NextAdded ==
    ASSUME NEW tk \in Seq(TickRecord)
    PROVE  LET s == Append(tk, Tick("next", Nothing)) IN
           /\ FailsIn(s) => FailsIn(tk)
           /\ ProbeOnce(tk) => ProbeOnce(s)
           /\ ~NextIn(tk) => NextOnce(s)
<1> DEFINE t == Tick("next", Nothing)
           s == Append(tk, t)
<1>1. /\ Len(s) = Len(tk) + 1 /\ Len(tk) \in Nat /\ \A i \in 1..Len(tk) : s[i] = tk[i]
      /\ s[Len(tk) + 1] = t
  BY TickTyped, OneMore
<1>2. ~IsProbe(t) /\ t.do = "next"
  BY KindsDiffer
<1> HIDE DEF s, t
<1>3. \A i \in 1..Len(s) : i \in 1..Len(tk) \/ i = Len(tk) + 1
  BY <1>1
<1>4. \A i \in 1..Len(s) : IsProbe(s[i]) => i \in 1..Len(tk) /\ IsProbe(tk[i])
  BY <1>1, <1>2, <1>3
<1>5. ~NextIn(tk) => \A i \in 1..Len(s) : s[i].do = "next" => i = Len(tk) + 1
  BY <1>1, <1>3 DEF NextIn
<1>6. FailsIn(s) => FailsIn(tk)
  BY <1>4 DEF FailsIn
<1>7. ProbeOnce(tk) => ProbeOnce(s)
  BY <1>4 DEF ProbeOnce
<1>8. ~NextIn(tk) => NextOnce(s)
  BY <1>5 DEF NextOnce
<1> QED BY <1>6, <1>7, <1>8 DEF s, t

LEMMA NoTicks ==
    ~NextIn(<<>>) /\ ~FailsIn(<<>>) /\ ProbeOnce(<<>>) /\ NextOnce(<<>>)
BY DEF NextIn, FailsIn, ProbeOnce, NextOnce

LEMMA ErrorsHaveNoNext ==
    ASSUME QueueTyped
    PROVE  ~NextIn(ErrorAll)
<1>1. \A i \in 1..Len(ErrorAll) : ErrorAll[i] = Tick("fail", Unanswered[i])
  BY ErrorAllTyped
<1>2. \A i \in 1..Len(ErrorAll) : ErrorAll[i].do = "fail"
  BY <1>1, KindsDiffer
<1> QED BY <1>2 DEF NextIn

LEMMA OneTick ==
    ASSUME NEW t \in TickRecord
    PROVE  /\ NextIn(<<t>>) => t.do = "next"
           /\ FailsIn(<<t>>) => IsProbe(t)
           /\ ProbeOnce(<<t>>) /\ NextOnce(<<t>>)
           /\ Refuses(<<t>>) \subseteq {t}
<1>1. Len(<<t>>) = 1 /\ <<t>>[1] = t
  OBVIOUS
<1>2. \A i \in 1..Len(<<t>>) : i = 1
  BY <1>1
<1> QED BY <1>1, <1>2 DEF NextIn, FailsIn, ProbeOnce, NextOnce, Refuses

LEMMA NoNext ==
    ASSUME NEW tk, ~NextIn(tk)
    PROVE  NextOnce(tk)
BY DEF NextIn, NextOnce

-----------------------------------------------------------------------------
\* What keeps Trying.

LEMMA SameTries ==
    ASSUME Trying, UNCHANGED <<connecting, connected, connectionError, handler, callback, calls>>,
           calls = 1 => told'[1] = told[1], timer' => timer,
           Alive' => Alive, NextIn(ticks') => NextIn(ticks), sock' = "failing" => ticks' = <<>>,
           calls = 0 => sock' = sock,
           live' \subseteq {conn'}, live' # {} => sock' \in Up
    PROVE  Trying'
<1>1. Hopeful' => Hopeful
  BY DEF Hopeful
<1>2. Hopeful' => /\ calls' > 0
                  /\ ~connected' => /\ connecting' /\ callback' = calls'
                                    /\ calls' = 1 => told'[1] = <<>>
  BY <1>1 DEF Trying
<1> QED BY <1>2 DEF Trying, Up, Hopeful

LEMMA HopelessTries ==
    ASSUME Trying, ~Hopeful', connected' = connected, calls' = calls,
           timer' => connecting', handler' => handler /\ (connecting' \/ connectionError'),
           connecting' => ~connected, calls = 0 => sock' = sock /\ ~connecting',
           live' \subseteq {conn'}, live' # {} => sock' \in Up
    PROVE  Trying'
<1>1. ~Alive' /\ sock' # "failing"
  BY DEF Hopeful, Alive
<1> QED BY <1>1 DEF Trying

LEMMA LeavingTries ==
    ASSUME Trying, Hopeful, ~connected, ~Alive',
           connecting' = TRUE, UNCHANGED <<connected, handler, callVars, calls>>,
           live' \subseteq {conn'}, live' # {} => sock' \in Up
    PROVE  Trying'
<1>1. sock' # "failing"
  BY DEF Alive
<1>2. calls' > 0 /\ callback' = calls' /\ (calls' = 1 => told'[1] = <<>>)
  BY DEF Trying, callVars
<1> QED BY <1>1, <1>2, ConnectAssumption DEF Trying

\* destroy.
LEMMA DestroysKills ==
    ASSUME ConnTyped, Trying, Destroys, conn' = conn, sock # "failing"
    PROVE  /\ ~Alive' /\ live' = {}
           /\ calls = 0 => sock' = sock
<1>1. sock' \notin Up \cup {"failing"}
  BY DEF Destroys, Up
<1>2. live' = {}
  BY DEF Destroys, Trying
<1>3. calls = 0 => sock' = sock
  BY DEF Trying, Destroys, Up
<1> QED BY <1>1, <1>2, <1>3 DEF Alive, Up

-----------------------------------------------------------------------------
\* What the pieces of the handlers keep.

LEMMA NextKept ==
    ASSUME ~NextIn(ticks')
    PROVE  OneNext(ticks)'
BY DEF OneNext, NextIn

LEMMA NextStays ==
    ASSUME OneNext(ticks), NextIn(ticks') => NextIn(ticks), NextOnce(ticks'),
           UNCHANGED <<connected, handler, provided>>, connectionError => connectionError'
    PROVE  OneNext(ticks)'
BY DEF OneNext, NextOnce

LEMMA FailsKeeps ==
    ASSUME Typed, Trying, Fails, calls' = calls, ~Alive', ~NextIn(ticks'),
           calls = 0 => sock' = sock, live' \subseteq {conn'}, live' # {} => sock' \in Up
    PROVE  ErrorOrNothing /\ Trying'
<1>1. CASE connectionError
  <2>1. UNCHANGED <<phaseVars, callVars>>
    BY <1>1 DEF Fails
  <2>2. ~Hopeful'
    BY <1>1, <2>1 DEF Hopeful, phaseVars
  <2>3. Trying'
    BY <1>1, <2>1, <2>2, HopelessTries DEF phaseVars, Trying
  <2> QED BY <2>1, <2>3 DEF ErrorOrNothing, phaseVars
<1>2. CASE ~connectionError
  <2>1. /\ connectionError' = TRUE /\ connecting' = FALSE /\ timer' = FALSE
        /\ Answers("error") /\ UNCHANGED <<connected, handler>>
    BY <1>2 DEF Fails
  <2>2. ~Hopeful'
    BY <2>1 DEF Hopeful
  <2>3. Trying'
    BY <2>1, <2>2, HopelessTries
  <2> QED BY <2>1, <2>3 DEF ErrorOrNothing
<1> QED BY <1>1, <1>2

LEMMA GivesUpKeeps ==
    ASSUME Trying, GivesUp, calls' = calls, ~Alive', ~NextIn(ticks'),
           calls = 0 => sock' = sock, live' \subseteq {conn'}, live' # {} => sock' \in Up
    PROVE  ErrorOrNothing /\ Trying'
<1>1. /\ handler' = FALSE /\ connecting' = FALSE /\ connectionError' = TRUE /\ timer' = FALSE
      /\ Answers("error") /\ UNCHANGED connected
  BY DEF GivesUp
<1>2. ~Hopeful'
  BY <1>1 DEF Hopeful
<1>3. Trying'
  BY <1>1, <1>2, HopelessTries
<1> QED BY <1>1, <1>3 DEF ErrorOrNothing

\* The error handler of connect, when the connection has ended.
LEMMA LeavesHostKeeps ==
    ASSUME Typed, Trying, ticks = <<>>, connecting, handler, NEW failed, LeavesHost(failed),
           sock' = "closed", live' = {}, UNCHANGED <<calls, conn, provided>>, calls > 0
    PROVE  /\ ErrorOrNothing /\ Trying' /\ OneNext(ticks)' /\ connected' = connected
           /\ Refuses(ticks') \subseteq Refuses(ticks) /\ ~FailsIn(ticks') /\ ProbeOnce(ticks')
<1>1. ~Alive' /\ ~NextIn(ticks) /\ ~FailsIn(ticks) /\ ProbeOnce(ticks)
  BY NoTicks DEF Alive, Up
<1>2. CASE connectionError
  <2>1. UNCHANGED <<phaseVars, callVars, ticks>>
    BY <1>2 DEF LeavesHost
  <2>2. ~Hopeful'
    BY <1>1, <1>2, <2>1 DEF Hopeful, phaseVars
  <2>3. Trying'
    BY <1>2, <2>1, <2>2, HopelessTries DEF phaseVars, Trying
  <2>4. OneNext(ticks)'
    BY <1>1, <2>1, NextKept
  <2> QED BY <1>1, <2>1, <2>3, <2>4 DEF ErrorOrNothing, phaseVars
<1>3. CASE ~connectionError /\ provided
  <2>1. GivesUp /\ ticks' = ticks
    BY <1>3 DEF LeavesHost
  <2>2. ErrorOrNothing /\ Trying'
    BY <1>1, <2>1, GivesUpKeeps
  <2>3. OneNext(ticks)'
    BY <1>1, <2>1, NextKept
  <2> QED BY <1>1, <2>1, <2>2, <2>3 DEF ErrorOrNothing
<1>4. CASE ~connectionError /\ ~provided
  <2>1. /\ connectionError' = TRUE /\ ticks' = Append(ticks, Tick("next", Nothing))
        /\ UNCHANGED <<connecting, connected, handler, timer, callVars>>
    BY <1>4 DEF LeavesHost
  <2>2. ~connected
    BY DEF Trying
  <2>3. ticks \in Seq(TickRecord)
    BY DEF Typed, RestTyped
  <2>4. /\ ~FailsIn(ticks') /\ ProbeOnce(ticks') /\ NextOnce(ticks')
        /\ Refuses(ticks') \subseteq Refuses(ticks)
    BY <1>1, <2>1, <2>3, NextAdded, RefusesNext
  <2>5. Hopeful
    BY <1>4 DEF Hopeful
  <2>6. Trying'
    BY <1>1, <2>1, <2>2, <2>5, LeavingTries
  <2>7. OneNext(ticks)'
    BY <1>4, <2>1, <2>2, <2>4 DEF OneNext, NextOnce
  <2> QED BY <2>1, <2>4, <2>6, <2>7 DEF ErrorOrNothing
<1> QED BY <1>2, <1>3, <1>4

\* The host is skipped, by a callback of nextTick that was the first one or not.
LEMMA SkipsHostKeeps ==
    ASSUME Typed, Trying, OneNext(ticks), NEW tk \in Seq(TickRecord), SkipsHost(tk),
           NextIn(tk) => NextIn(ticks), NextOnce(tk), ProbeOnce(tk), ~FailsIn(tk),
           Refuses(tk) \subseteq Refuses(ticks), sock # "failing",
           UNCHANGED <<calls, conn, provided>>
    PROVE  /\ ErrorOrNothing /\ Trying' /\ OneNext(ticks)' /\ connected' = connected
           /\ Refuses(ticks') \subseteq Refuses(ticks) /\ ~FailsIn(ticks') /\ ProbeOnce(ticks')
<1>1. ~Alive' /\ live' = {} /\ (calls = 0 => sock' = sock)
  BY DestroysKills DEF SkipsHost, Typed
<1>2. CASE ~handler
  <2>1. Fails /\ ticks' = tk
    BY <1>2 DEF SkipsHost
  <2>2. ~NextIn(tk)
    BY <1>2 DEF OneNext
  <2>3. ErrorOrNothing /\ Trying'
    BY <1>1, <2>1, <2>2, FailsKeeps
  <2>4. OneNext(ticks)'
    BY <2>1, <2>2, NextKept
  <2> QED BY <2>1, <2>3, <2>4 DEF ErrorOrNothing
<1>3. CASE handler /\ connectionError
  <2>1. /\ connecting' = TRUE /\ connectionError' = TRUE /\ ticks' = tk
        /\ UNCHANGED <<connected, handler, timer, callVars>>
    BY <1>3 DEF SkipsHost
  <2>2. ~connected
    BY <1>3 DEF Trying
  <2>3. OneNext(ticks)'
    BY <2>1, NextStays
  <2>4. Trying'
    <3>1. CASE NextIn(tk)
      <4>1. Hopeful
        BY <3>1 DEF Hopeful
      <4> QED BY <1>1, <2>1, <2>2, <4>1, LeavingTries
    <3>2. CASE ~NextIn(tk)
      <4>1. ~Hopeful'
        BY <1>1, <2>1, <3>2 DEF Hopeful
      <4>2. calls # 0
        BY <1>3 DEF Trying
      <4> QED BY <1>1, <1>3, <2>1, <2>2, <4>1, <4>2, HopelessTries
    <3> QED BY <3>1, <3>2
  <2> QED BY <2>1, <2>3, <2>4 DEF ErrorOrNothing
<1>4. CASE handler /\ ~connectionError /\ ~provided
  <2>1. /\ connecting' = TRUE /\ connectionError' = TRUE
        /\ ticks' = Append(tk, Tick("next", Nothing))
        /\ UNCHANGED <<connected, handler, timer, callVars>>
    BY <1>4 DEF SkipsHost
  <2>2. ~connected /\ ~NextIn(tk)
    BY <1>4 DEF Trying, OneNext
  <2>3. /\ ~FailsIn(ticks') /\ ProbeOnce(ticks') /\ NextOnce(ticks')
        /\ Refuses(ticks') \subseteq Refuses(ticks)
    BY <2>1, <2>2, NextAdded, RefusesNext
  <2>4. Hopeful
    BY <1>4 DEF Hopeful, Trying
  <2>5. Trying'
    BY <1>1, <2>1, <2>2, <2>4, LeavingTries
  <2>6. OneNext(ticks)'
    BY <1>4, <2>1, <2>2, <2>3 DEF OneNext, NextOnce
  <2> QED BY <2>1, <2>3, <2>5, <2>6 DEF ErrorOrNothing
<1>5. CASE handler /\ ~connectionError /\ provided
  <2>1. GivesUp /\ ticks' = tk
    BY <1>5 DEF SkipsHost
  <2>2. ~NextIn(tk)
    BY <1>5 DEF OneNext
  <2>3. ErrorOrNothing /\ Trying'
    BY <1>1, <2>1, <2>2, GivesUpKeeps
  <2>4. OneNext(ticks)'
    BY <2>1, <2>2, NextKept
  <2> QED BY <2>1, <2>3, <2>4 DEF ErrorOrNothing
<1> QED BY <1>2, <1>3, <1>4, <1>5

\* An error of the connection, whose stream is left with the socket s' and live'.
LEMMA HandleErrorEventKeeps ==
    ASSUME Typed, Trying, HandleErrorEvent, ticks = <<>>, calls' = calls,
           connecting => ~Alive', Alive' => Alive, sock' # "failing",
           calls = 0 => sock' = sock, live' \subseteq {conn'}, live' # {} => sock' \in Up
    PROVE  /\ ErrorOrNothing /\ Trying' /\ OneNext(ticks)' /\ connected' = connected
           /\ Refuses(ticks') \subseteq Refuses(ticks)
           /\ \/ ticks' = ticks /\ UNCHANGED <<active, queue>>
              \/ ticks' = ErrorAll /\ active' = Nothing /\ queue' = <<>>
<1>1. ~NextIn(ticks)
  BY NoTicks
<1>2. CASE connecting
  <2>1. Fails /\ UNCHANGED <<ticks, queueVars>>
    BY <1>2 DEF HandleErrorEvent
  <2>2. ErrorOrNothing /\ Trying'
    BY <1>1, <1>2, <2>1, FailsKeeps
  <2>3. OneNext(ticks)'
    BY <1>1, <2>1, NextKept
  <2> QED BY <2>1, <2>2, <2>3 DEF ErrorOrNothing, queueVars
<1>3. CASE ~connecting
  <2>1. ticks' = ticks \o ErrorAll /\ Drops /\ UNCHANGED <<phaseVars, callVars>>
    BY <1>3 DEF HandleErrorEvent
  <2>2. ticks' = ErrorAll
    BY <2>1, ErrorAllAlone DEF Typed
  <2>3. ~NextIn(ErrorAll) /\ Refuses(ErrorAll) = {}
    BY ErrorsHaveNoNext, RefusesErrors DEF Typed
  <2>4. Trying'
    BY <2>1, <2>2, <2>3, SameTries DEF phaseVars, callVars
  <2>5. OneNext(ticks)'
    BY <2>2, <2>3, NextKept
  <2> QED BY <2>1, <2>2, <2>3, <2>4, <2>5 DEF ErrorOrNothing, phaseVars, Drops
<1> QED BY <1>2, <1>3

\* The client ends with its connection.
LEMMA EndsClientKeeps ==
    ASSUME Typed, Trying, EndsClient, ticks = <<>>, calls' = calls, sock' = "closed",
           ~(connecting /\ handler), live' = {}, calls > 0
    PROVE  /\ ErrorOrNothing /\ Trying' /\ OneNext(ticks)' /\ connected' = connected
           /\ Refuses(ticks') \subseteq Refuses(ticks)
           /\ ticks' = ErrorAll /\ active' = Nothing /\ queue' = <<>>
<1>1. /\ ticks' = ErrorAll /\ active' = Nothing /\ queue' = <<>> /\ ended' = TRUE
      /\ UNCHANGED <<connected, handler>> /\ timer' = FALSE
  BY DEF EndsClient, Drops
<1>2. ~NextIn(ErrorAll) /\ Refuses(ErrorAll) = {} /\ ~Alive'
  BY ErrorsHaveNoNext, RefusesErrors DEF Typed, Alive, Up
<1>3. OneNext(ticks)'
  BY <1>1, <1>2, NextKept
<1>4. ErrorOrNothing
  <2>1. \/ UNCHANGED callVars
        \/ Calls("error") /\ callback' = callback /\ ended'
    BY <1>1 DEF EndsClient
  <2> QED BY <1>1, <2>1 DEF ErrorOrNothing
<1>5. (connecting' => connecting) /\ (connectionError => connectionError')
  BY DEF EndsClient
<1>6. ~Hopeful'
  BY <1>1, <1>2, <1>5 DEF Hopeful
<1>7. handler' => handler /\ connectionError'
  BY <1>1, <1>5 DEF Trying
<1>8. Trying'
  BY <1>1, <1>5, <1>6, <1>7, HopelessTries DEF Trying
<1> QED BY <1>1, <1>2, <1>3, <1>4, <1>8

-----------------------------------------------------------------------------
\* Where the probe is.

QueueOnce(q) == \A i, j \in 1..Len(q) : q[i] = Probe /\ q[j] = Probe => i = j
MayProbe == rolePending /\ target # "any" /\ ~connected

LEMMA ProbeSame ==
    ASSUME OneProbe, active' = active \/ active' # Probe, queue' = queue,
           FailsIn(ticks') => FailsIn(ticks), ProbeOnce(ticks'),
           UNCHANGED <<rolePending, target, connected>>
    PROVE  OneProbe'
<1>1. OncePlaced(active, queue, ticks)'
  BY DEF OneProbe, OncePlaced, FailsIn, ProbeOnce, Waits
<1>2. Probing(active, queue, ticks)' => Probing(active, queue, ticks)
  BY DEF Probing, Waits, FailsIn
<1> QED BY <1>1, <1>2 DEF OneProbe

LEMMA ProbeGone ==
    ASSUME active' # Probe, ~Waits(queue'), ~FailsIn(ticks')
    PROVE  OneProbe'
BY DEF OneProbe, OncePlaced, Probing, Waits, FailsIn

LEMMA ProbePlaced ==
    ASSUME QueueOnce(queue'), active' = Probe => ~Waits(queue'), ~FailsIn(ticks'),
           active' = Probe \/ Waits(queue') => MayProbe'
    PROVE  OneProbe'
BY DEF OneProbe, OncePlaced, Probing, QueueOnce, Waits, FailsIn, MayProbe

LEMMA ProbePulses ==
    ASSUME NEW que \in Seq(Item), NEW up, NEW st, Pulses(que, up, st), QueueOnce(que), ~FailsIn(ticks'),
           Waits(que) => MayProbe'
    PROVE  OneProbe'
<1>1. CASE que = <<>>
  <2>1. active' = Nothing /\ queue' = <<>>
    BY <1>1 DEF Pulses
  <2>2. ~Waits(<<>>)
    BY DEF Waits
  <2> QED BY <2>1, <2>2, NoItems, ProbeGone
<1>2. CASE que # <<>>
  <2> DEFINE r == Tail(que)
  <2>1. active' = que[1] /\ queue' = r
    BY <1>2, RestOf DEF Pulses
  <2>2. /\ Len(que) \in Nat \ {0} /\ Len(r) = Len(que) - 1
        /\ \A i \in 1..Len(r) : i + 1 \in 1..Len(que) /\ r[i] = que[i + 1]
    BY <1>2, RestOf
  <2> HIDE DEF r
  <2>3. 1 \in 1..Len(que) /\ \A i \in 1..Len(r) : i + 1 # 1
    BY <2>2
  <2>4. \A i, j \in 1..Len(r) : i + 1 = j + 1 => i = j
    BY <2>2
  <2>5. QueueOnce(r)
    BY <2>2, <2>4 DEF QueueOnce
  <2>6. active' = Probe => ~Waits(r)
    BY <2>1, <2>2, <2>3 DEF QueueOnce, Waits
  <2>7. active' = Probe \/ Waits(r) => Waits(que)
    BY <2>1, <2>2, <2>3 DEF Waits
  <2> QED BY <2>1, <2>5, <2>6, <2>7, ProbePlaced
<1> QED BY <1>1, <1>2

LEMMA AskedWaits ==
    ASSUME NEW que \in Seq(Item), NEW q \in Item
    PROVE  /\ q # Probe => /\ Waits(Append(que, q)) => Waits(que)
                           /\ QueueOnce(que) => QueueOnce(Append(que, q))
           /\ ~Waits(que) => QueueOnce(Append(que, q))
           /\ Append(que, q) \in Seq(Item)
<1> DEFINE s == Append(que, q)
<1>1. /\ s \in Seq(Item) /\ Len(s) = Len(que) + 1 /\ Len(que) \in Nat
      /\ \A i \in 1..Len(que) : s[i] = que[i]
      /\ s[Len(que) + 1] = q
  BY OneMore
<1> HIDE DEF s
<1>2. \A i \in 1..Len(s) : i \in 1..Len(que) \/ i = Len(que) + 1
  BY <1>1
<1>3. q # Probe => \A i \in 1..Len(s) : s[i] = Probe => i \in 1..Len(que) /\ que[i] = Probe
  BY <1>1, <1>2
<1>4. ~Waits(que) => \A i \in 1..Len(s) : s[i] = Probe => i = Len(que) + 1
  BY <1>1, <1>2 DEF Waits
<1> QED BY <1>1, <1>3, <1>4 DEF QueueOnce, Waits, s

\* All that was active or waited fails.
LEMMA ProbeErrors ==
    ASSUME Typed, OneProbe, ticks = <<>>, ticks' = ErrorAll, active' = Nothing, queue' = <<>>,
           UNCHANGED <<rolePending, target, connected>>
    PROVE  OneProbe'
<1> DEFINE u == Unanswered
           e == ErrorAll
           a == IF active = Nothing THEN <<>> ELSE <<active>>
<1>1. /\ u \in Seq(Item) /\ Len(e) = Len(u)
      /\ \A i \in 1..Len(e) : e[i] = Tick("fail", u[i])
  BY ErrorAllTyped DEF Typed
<1>2. /\ a \in Seq(Item) /\ Len(a) \in {0, 1} /\ (Len(a) = 1 => a[1] = active)
  BY DEF Typed, QueueTyped
<1>3. queue \in Seq(Item) /\ Len(queue) \in Nat
  BY LenProperties DEF Typed, QueueTyped
<1> HIDE DEF a
<1>4. /\ Len(u) = Len(a) + Len(queue)
      /\ \A i \in 1..Len(u) : u[i] = IF i <= Len(a) THEN a[i] ELSE queue[i - Len(a)]
  BY <1>2, <1>3, ConcatProperties DEF Unanswered, a
<1> HIDE DEF u, e
<1>5. \A i \in 1..Len(e) : IsProbe(e[i]) => u[i] = Probe
  BY <1>1, KindsDiffer
<1>6. ASSUME NEW i \in 1..Len(u), u[i] = Probe
      PROVE  \/ Len(a) = 1 /\ i = 1 /\ active = Probe
             \/ i - Len(a) \in 1..Len(queue) /\ queue[i - Len(a)] = Probe
  <2>1. CASE i <= Len(a)
    BY <1>2, <1>4, <1>6, <2>1
  <2>2. CASE ~(i <= Len(a))
    <3>1. i - Len(a) \in 1..Len(queue)
      BY <1>2, <1>3, <1>4, <2>2
    <3> QED BY <1>4, <1>6, <2>2, <3>1
  <2> QED BY <2>1, <2>2
<1>7. OncePlaced(active, queue, ticks)
  BY DEF OneProbe
<1>8. ASSUME NEW i \in 1..Len(u), NEW j \in 1..Len(u), u[i] = Probe, u[j] = Probe
      PROVE  i = j
  <2>1. CASE active = Probe
    <3>1. ~Waits(queue)
      BY <1>7, <2>1 DEF OncePlaced
    <3>2. i = 1 /\ j = 1
      BY <1>6, <1>8, <3>1 DEF Waits
    <3> QED BY <3>2
  <2>2. CASE active # Probe
    <3>1. /\ i - Len(a) \in 1..Len(queue) /\ queue[i - Len(a)] = Probe
          /\ j - Len(a) \in 1..Len(queue) /\ queue[j - Len(a)] = Probe
      BY <1>6, <1>8, <2>2
    <3>2. i - Len(a) = j - Len(a)
      BY <1>7, <3>1 DEF OncePlaced
    <3> QED BY <1>2, <3>2
  <2> QED BY <2>1, <2>2
<1>9. ProbeOnce(e)
  BY <1>1, <1>5, <1>8 DEF ProbeOnce
<1>10. FailsIn(e) => Probing(active, queue, ticks)
  <2>1. ASSUME NEW i \in 1..Len(e), IsProbe(e[i])
        PROVE  active = Probe \/ Waits(queue)
    BY <1>1, <1>5, <1>6, <2>1 DEF Waits
  <2> QED BY <2>1 DEF FailsIn, Probing
<1>11. ticks' = e /\ ~Waits(<<>>) /\ Nothing # Probe
  BY NoItems DEF e, Waits
<1>12. OncePlaced(active, queue, ticks)'
  BY <1>9, <1>11 DEF OncePlaced, ProbeOnce, Waits, FailsIn
<1>13. Probing(active, queue, ticks)' => FailsIn(e)
  BY <1>11 DEF Probing, Waits, FailsIn
<1> QED BY <1>10, <1>12, <1>13 DEF OneProbe

-----------------------------------------------------------------------------
\* The steps.

OtherInv == CallsTold(ticks) /\ Trying /\ OneNext(ticks) /\ OneProbe

LEMMA LiveStays ==
    ASSUME Trying
    PROVE  /\ UNCHANGED <<conn, sock, live>> => /\ live' \subseteq {conn'}
                                                /\ live' # {} => sock' \in Up
                                                /\ Alive' => Alive
           /\ live \ {conn} = {}
           /\ live' = {} => live' \subseteq {conn'} /\ (live' # {} => sock' \in Up)
BY DEF Trying, Alive, Up

\* Nothing that the calls of connect depend on changes.
LEMMA QuietKeeps ==
    ASSUME Typed, CallsTold(ticks), Trying,
           UNCHANGED <<connecting, connected, connectionError, handler, callVars, calls, ended>>,
           timer' => timer, ~NextIn(ticks'), Refuses(ticks') \subseteq Refuses(ticks),
           Alive' => Alive, sock' = "failing" => ticks' = <<>>, calls = 0 => sock' = sock,
           live' \subseteq {conn'}, live' # {} => sock' \in Up
    PROVE  CallsTold(ticks)' /\ Trying' /\ OneNext(ticks)'
<1>1. CallsTold(ticks)'
  BY SameTold
<1>2. Trying'
  BY SameTries DEF callVars
<1> QED BY <1>1, <1>2, NextKept

LEMMA QuietStep ==
    ASSUME ConnectInv, ticks = <<>>, ticks' = ticks,
           UNCHANGED <<connecting, connected, connectionError, handler, callVars, calls, ended,
                       queue, rolePending, target>>,
           timer' => timer, active' = active \/ active' # Probe,
           Alive' => Alive, calls = 0 => sock' = sock,
           live' \subseteq {conn'}, live' # {} => sock' \in Up
    PROVE  OtherInv'
<1>1. ~NextIn(ticks') /\ ProbeOnce(ticks') /\ Refuses(ticks') \subseteq Refuses(ticks)
  BY NoTicks
<1>2. CallsTold(ticks)' /\ Trying' /\ OneNext(ticks)'
  BY <1>1, QuietKeeps DEF ConnectInv
<1>3. OneProbe'
  BY <1>1, ProbeSame DEF ConnectInv
<1> QED BY <1>2, <1>3 DEF OtherInv

LEMMA FailsStep ==
    ASSUME ConnectInv, HandleErrorEvent, ticks = <<>>,
           UNCHANGED <<calls, ended, rolePending, target>>,
           connecting => ~Alive', Alive' => Alive, sock' # "failing",
           calls = 0 => sock' = sock, live' \subseteq {conn'}, live' # {} => sock' \in Up
    PROVE  OtherInv'
<1>1. /\ ErrorOrNothing /\ Trying' /\ OneNext(ticks)' /\ connected' = connected
      /\ Refuses(ticks') \subseteq Refuses(ticks)
      /\ \/ ticks' = ticks /\ UNCHANGED <<active, queue>>
         \/ ticks' = ErrorAll /\ active' = Nothing /\ queue' = <<>>
  BY HandleErrorEventKeeps DEF ConnectInv
<1>2. CallsTold(ticks)'
  BY <1>1, ErrorTold DEF ConnectInv
<1>3. OneProbe'
  BY <1>1, NoTicks, ProbeSame, ProbeErrors DEF ConnectInv
<1> QED BY <1>1, <1>2, <1>3 DEF OtherInv

LEMMA DestroysIfFailingStep ==
    ASSUME ConnectInv, HandleErrorEvent, DestroysIfFailing, Between,
           UNCHANGED <<calls, ended, rolePending, target, conn>>
    PROVE  OtherInv'
<1>1. ticks = <<>> /\ sock # "failing"
  BY DEF Between
<1>2. CASE connecting /\ ~connectionError
  <2>1. Destroys
    BY <1>2 DEF DestroysIfFailing
  <2>2. /\ ~Alive' /\ live' = {}
        /\ calls = 0 => sock' = sock
    BY <1>1, <2>1, DestroysKills DEF ConnectInv, Typed
  <2>3. sock' # "failing"
    BY <2>2 DEF Alive
  <2> QED BY <1>1, <2>2, <2>3, FailsStep
<1>3. CASE ~(connecting /\ ~connectionError)
  <2>1. UNCHANGED <<sock, live>>
    BY <1>3 DEF DestroysIfFailing
  <2>2. /\ live' \subseteq {conn'}
        /\ live' # {} => sock' \in Up
        /\ Alive' => Alive
    BY <2>1, LiveStays DEF ConnectInv
  <2>3. connectionError => ~Alive'
    BY <2>2 DEF ConnectInv, Trying
  <2>4. connecting => ~Alive'
    BY <1>3, <2>3
  <2> QED BY <1>1, <2>1, <2>2, <2>4, FailsStep
<1> QED BY <1>2, <1>3

LEMMA SucceedsKeeps ==
    ASSUME ConnectInv, Succeeds, ticks = <<>>, ticks' = ticks, ~connected, Alive,
           sock # "failing", UNCHANGED <<calls, ended, conn, sock, live>>
    PROVE  CallsTold(ticks)' /\ Trying' /\ OneNext(ticks)'
<1>1. /\ connecting' = FALSE /\ connected' = TRUE /\ handler' = FALSE /\ timer' = FALSE
      /\ Answers("ok") /\ connectionError' = connectionError
  BY DEF Succeeds
<1>2. calls > 0 /\ callback = calls /\ (calls = 1 => told[1] = <<>>) /\ ~connectionError
  BY DEF ConnectInv, Trying, Hopeful
<1>3. calls \in 1..MaxCalls /\ callback # Nothing /\ told \in [1..MaxCalls -> Seq(Verdict)]
  BY <1>2, ConnectAssumption DEF ConnectInv, Typed, CallTyped, Nothing
<1>4. told' = [told EXCEPT ![calls] = Append(told[calls], "ok")] /\ callback' = Nothing
  BY <1>1, <1>2, <1>3 DEF Answers, Calls
<1> DEFINE s == Append(told[calls], "ok")
<1>5. /\ Len(told[calls]) \in Nat /\ Len(s) = Len(told[calls]) + 1
      /\ \A i \in 1..Len(told[calls]) : s[i] = told[calls][i]
      /\ told[calls] = <<>> => s = <<"ok">> /\ Len(s) = 1
  <2>1. "ok" \in Verdict /\ told[calls] \in Seq(Verdict)
    BY <1>3 DEF Verdict
  <2>2. told[calls] = <<>> => s = <<"ok">> /\ Len(s) = 1
    OBVIOUS
  <2> QED BY <2>1, <2>2, OneMore
<1>6. told'[calls] = s /\ \A c \in 1..MaxCalls : c # calls => told'[c] = told[c]
  BY <1>3, <1>4
<1> HIDE DEF s
<1>7. \A c \in 1..MaxCalls : \A i \in 1..Len(told[c]) : told[c][i] # "ok"
  BY DEF ConnectInv, CallsTold
<1>8. \A j \in 1..Len(ticks') : FALSE
  OBVIOUS
<1>9. CallsTold(ticks)'
  <2>1. \A c \in 1..MaxCalls : c > calls' => told'[c] = <<>>
    BY <1>3, <1>6 DEF ConnectInv, CallsTold
  <2>2. ASSUME NEW c \in 1..MaxCalls, NEW i \in 1..Len(told'[c]), told'[c][i] = "ok"
        PROVE  c = calls /\ i = Len(told'[c])
    <3>1. c = calls
      BY <1>6, <1>7, <2>2
    <3>2. i \notin 1..Len(told[calls])
      BY <1>5, <1>6, <1>7, <2>2, <3>1
    <3> QED BY <1>5, <1>6, <3>1, <3>2
  <2>3. \A c \in 1..MaxCalls : c # callback'
    BY <1>4 DEF Nothing
  <2>4. \A c \in 1..MaxCalls : c = 1 => (Len(told'[c]) > 1 => ended')
    BY <1>2, <1>5, <1>6 DEF ConnectInv, CallsTold
  <2>5. calls' = 1 => told'[1] = <<"ok">>
    BY <1>2, <1>5, <1>6
  <2> QED BY <1>1, <1>8, <2>1, <2>2, <2>3, <2>4, <2>5 DEF CallsTold
<1>10. Trying'
  BY <1>1, <1>2 DEF ConnectInv, Trying
<1>11. OneNext(ticks)'
  BY NoTicks, NextKept
<1> QED BY <1>9, <1>10, <1>11

LEMMA ConnectToStep ==
    ASSUME ConnectInv, NEW order, NEW balances \in BOOLEAN, ConnectTo(order, balances)
    PROVE  OtherInv'
<1>1. /\ ticks = <<>> /\ calls = 0 /\ MaxCalls > 0 /\ calls' = 1 /\ 1 \in 1..MaxCalls
      /\ UNCHANGED <<connected, queueVars, ended, provided, rolePending, target, ticks>>
  BY ConnectAssumption DEF ConnectTo, Between, configVars
<1>2. sock = "new" /\ ~connecting /\ ~handler /\ ~connected /\ live = {}
  BY <1>1 DEF ConnectInv, Trying, Up
<1>3. /\ \A c \in 1..MaxCalls : told[c] = <<>>
      /\ told \in [1..MaxCalls -> Seq(Verdict)]
  BY <1>1 DEF ConnectInv, CallsTold, Typed, CallTyped
<1>4. \A j \in 1..Len(ticks') : FALSE
  BY <1>1
<1>5. OneProbe'
  BY <1>1, NoTicks, ProbeSame DEF ConnectInv, queueVars
<1>6. OneNext(ticks)'
  BY <1>1, NoTicks, NextKept
<1>7. CASE order = <<>>
  <2>1. /\ told' = [told EXCEPT ![1] = <<"error">>] /\ callback' = Nothing
        /\ connecting' = FALSE /\ connectionError' = TRUE /\ timer' = FALSE /\ handler' = FALSE
        /\ UNCHANGED <<conn, sock, live>>
    BY <1>7 DEF ConnectTo
  <2>2. told'[1] = <<"error">> /\ \A c \in 1..MaxCalls : c # 1 => told'[c] = <<>>
    BY <1>1, <1>3, <2>1
  <2>3. Len(<<"error">>) = 1 /\ <<"error">>[1] # "ok"
    OBVIOUS
  <2>4. \A c \in 1..MaxCalls : \A i \in 1..Len(told'[c]) : told'[c][i] # "ok"
    BY <2>2, <2>3
  <2>5. CallsTold(ticks)'
    BY <1>1, <1>2, <1>4, <2>1, <2>2, <2>3, <2>4, ConnectAssumption DEF CallsTold, Nothing
  <2>6. Trying'
    BY <1>1, <1>2, <1>4, <2>1 DEF Trying, Hopeful, Alive, Up, NextIn
  <2> QED BY <1>5, <1>6, <2>5, <2>6 DEF OtherInv
<1>8. CASE order # <<>>
  <2>1. /\ callback' = 1 /\ connecting' = TRUE /\ timer' = TRUE /\ handler' = balances
        /\ connectionError' = FALSE /\ TriesHost(Head(order), balances) /\ told' = told
    BY <1>8 DEF ConnectTo
  <2>2. sock' = "connecting" /\ live' = {conn'}
    BY <1>2, <2>1 DEF TriesHost, Starts
  <2>3. \A c \in 1..MaxCalls : told'[c] = <<>> /\ \A i \in 1..Len(told'[c]) : FALSE
    BY <1>3, <2>1
  <2>4. Len(<<>>) = 0
    OBVIOUS
  <2>5. CallsTold(ticks)'
    BY <1>1, <1>2, <1>4, <2>3, <2>4 DEF CallsTold
  <2>6. Trying'
    BY <1>1, <1>2, <1>4, <2>1, <2>2, <2>3 DEF Trying, Hopeful, Alive, Up, NextIn
  <2> QED BY <1>5, <1>6, <2>5, <2>6 DEF OtherInv
<1> QED BY <1>7, <1>8

LEMMA ConnectAgainStep ==
    ASSUME ConnectInv, ConnectAgain
    PROVE  OtherInv'
<1>1. /\ ticks = <<>> /\ sock # "failing" /\ (connecting \/ connected) /\ calls > 0
      /\ calls' = calls + 1 /\ callback' = calls + 1 /\ calls + 1 \in 1..MaxCalls
      /\ ticks' = <<Tick("refuse", calls + 1)>> /\ told' = told
      /\ UNCHANGED <<phaseVars, conn, sock, live, queueVars, provided, ended, rolePending, target>>
  BY ConnectAssumption
     DEF ConnectAgain, Between, configVars, connVars, ConnectInv, Typed, CallTyped
<1> DEFINE t == Tick("refuse", calls + 1)
<1>2. /\ t \in TickRecord /\ t.do = "refuse" /\ t.arg = calls + 1 /\ ~IsProbe(t)
  BY <1>1, TickTyped, KindsDiffer DEF Tick
<1>3. ticks' = <<t>> /\ Len(ticks') = 1 /\ ticks'[1] = t
  BY <1>1
<1>4. calls \in Nat /\ calls # calls + 1
  BY ConnectAssumption DEF ConnectInv, Typed, CallTyped
<1>5. \A c : Tick("refuse", c).arg = c
  BY DEF Tick
<1>6. \A c : t = Tick("refuse", c) => c = calls + 1
  BY <1>2, <1>5
<1> HIDE DEF t
<1>7. /\ ~NextIn(ticks') /\ ~FailsIn(ticks') /\ ProbeOnce(ticks')
  BY <1>2, <1>3, OneTick
<1>8. \A j \in 1..Len(ticks') : ticks'[j] = t
  BY <1>3
<1>9. told[calls + 1] = <<>> /\ Len(<<>>) = 0
  BY <1>1, <1>4 DEF ConnectInv, CallsTold
<1>10. CallsTold(ticks)'
  <2>1. \A c \in 1..MaxCalls : c > calls' => told'[c] = <<>>
    BY <1>1, <1>4 DEF ConnectInv, CallsTold
  <2>2. ASSUME NEW c \in 1..MaxCalls, NEW i \in 1..Len(told'[c]), told'[c][i] = "ok"
        PROVE  /\ connected' /\ i = Len(told'[c]) /\ c # callback'
               /\ \A j \in 1..Len(ticks') : ticks'[j] # Tick("refuse", c)
    <3>1. connected /\ i = Len(told[c]) /\ i \in 1..Len(told[c])
      BY <1>1, <2>2 DEF ConnectInv, CallsTold
    <3>2. c # calls + 1
      BY <1>9, <3>1
    <3> QED BY <1>1, <1>6, <1>8, <3>1, <3>2 DEF phaseVars
  <2>3. \A j \in 1..Len(ticks') : ticks'[j].arg \in 2..calls'
    BY <1>1, <1>2, <1>4, <1>8
  <2>4. \A c \in 1..MaxCalls : c = 1 => /\ Len(told'[c]) > 1 => ended'
                                        /\ callback' # 1
    BY <1>1, <1>4 DEF ConnectInv, CallsTold
  <2>5. calls' # 1
    BY <1>1, <1>4
  <2> QED BY <2>1, <2>2, <2>3, <2>4, <2>5 DEF CallsTold
<1>11. Trying'
  <2>1. connected => calls > 0 /\ ~connecting /\ ~handler
    BY DEF ConnectInv, Trying
  <2>2. calls' > 0 /\ calls' # 1 /\ callback' = calls'
    BY <1>1, <1>4
  <2> QED BY <1>1, <1>4, <2>1, <2>2 DEF ConnectInv, Trying, Alive, Up, phaseVars
<1>12. OneNext(ticks)'
  BY <1>7, NextKept
<1>13. OneProbe'
  BY <1>1, <1>7, ProbeSame DEF ConnectInv, queueVars, phaseVars
<1> QED BY <1>10, <1>11, <1>12, <1>13 DEF OtherInv

LEMMA AskStep ==
    ASSUME ConnectInv, Ask
    PROVE  OtherInv'
<1>1. /\ ticks = <<>> /\ asked' \in Query
      /\ UNCHANGED <<phaseVars, callVars, calls, sock, live, ended, rolePending, ticks, target>>
  BY ConnectAssumption
     DEF Ask, Asks, Between, configVars, ConnectInv, Typed, QueueTyped, Query
<1>2. /\ queue \in Seq(Item) /\ asked' \in Item /\ asked' # Probe
  BY <1>1, NoItems DEF ConnectInv, Typed, QueueTyped
<1>3. /\ Waits(Append(queue, asked')) => Waits(queue)
      /\ QueueOnce(queue) => QueueOnce(Append(queue, asked'))
      /\ Append(queue, asked') \in Seq(Item)
  BY <1>2, AskedWaits
<1>4. QueueOnce(queue) /\ (active = Probe => ~Waits(queue))
  BY DEF ConnectInv, OneProbe, OncePlaced, QueueOnce
<1>5. active = Probe \/ Waits(queue) => MayProbe'
  BY <1>1 DEF ConnectInv, OneProbe, Probing, MayProbe, phaseVars
<1>6. ~FailsIn(ticks') /\ ~NextIn(ticks') /\ Refuses(ticks') \subseteq Refuses(ticks)
  BY <1>1, NoTicks
<1>7. conn' = conn /\ OneProbe'
  <2>1. CASE ready
    <3>1. Pulses(Append(queue, asked'), Writable, srv)
      BY <2>1 DEF Ask, Asks
    <3>2. conn' = conn
      BY <3>1 DEF Pulses
    <3> QED BY <1>3, <1>4, <1>5, <1>6, <3>1, <3>2, ProbePulses
  <2>2. CASE ~ready
    <3>1. queue' = Append(queue, asked') /\ UNCHANGED <<active, conn>>
      BY <2>2 DEF Ask, Asks
    <3> QED BY <1>3, <1>4, <1>5, <1>6, <3>1, ProbePlaced
  <2> QED BY <2>1, <2>2
<1>8. /\ live' \subseteq {conn'} /\ (live' # {} => sock' \in Up) /\ (Alive' => Alive)
  BY <1>1, <1>7, LiveStays DEF ConnectInv
<1>9. CallsTold(ticks)' /\ Trying' /\ OneNext(ticks)'
  BY <1>1, <1>6, <1>8, QuietKeeps DEF ConnectInv, phaseVars
<1> QED BY <1>7, <1>9 DEF OtherInv

LEMMA SocketsStep ==
    ASSUME ConnectInv, End \/ ConnectionTimeout \/ Connected
    PROVE  OtherInv'
<1>1. CASE End
  <2>1. /\ ticks = <<>> /\ sock # "failing" /\ sock # "new"
        /\ UNCHANGED <<phaseVars, callVars, calls, ended, queue, active, ticks, conn, target,
                       rolePending>>
    BY <1>1 DEF End, Between, Keeps, restVars, queueVars, configVars
  <2>2. /\ Alive' => Alive
        /\ live' \subseteq {conn'} /\ (live' # {} => sock' \in Up)
    <3>1. CASE active # Nothing \/ ~queryable
      <4>1. Destroys
        BY <1>1, <3>1 DEF End
      <4> QED BY <2>1, <4>1, DestroysKills DEF ConnectInv, Typed
    <3>2. CASE ~(active # Nothing \/ ~queryable)
      <4>1. /\ sock' = CASE sock = "connecting" -> "dropping"
                         [] sock = "open" -> "ending"
                         [] OTHER -> sock
            /\ live' = live
        BY <1>1, <3>2 DEF End
      <4>2. sock' \in Up \cup {"failing"} => sock \in Up \cup {"failing"}
        BY <4>1 DEF Up
      <4>3. sock \in Up => sock' \in Up
        BY <4>1 DEF Up
      <4> QED BY <2>1, <4>1, <4>2, <4>3 DEF ConnectInv, Trying, Alive
    <3> QED BY <3>1, <3>2
  <2>3. calls # 0
    BY <2>1 DEF ConnectInv, Trying
  <2> QED BY <2>1, <2>2, <2>3, QuietStep DEF phaseVars
<1>2. CASE ConnectionTimeout
  <2>1. /\ ticks = <<>> /\ sock # "failing" /\ timer
        /\ sock' = (IF sock \in Up THEN "failing" ELSE sock) /\ live' = live \ {conn}
        /\ timer' = FALSE
        /\ UNCHANGED <<connecting, connected, connectionError, handler, callVars, calls, ended,
                       queue, active, ticks, conn, target, rolePending>>
    BY <1>2 DEF ConnectionTimeout, TimesOut, Between, Keeps, restVars, queueVars, configVars
  <2>2. (Alive' => Alive) /\ live' = {} /\ (calls = 0 => sock' = sock)
    BY <2>1 DEF ConnectInv, Trying, Alive, Up
  <2> QED BY <2>1, <2>2, QuietStep
<1>3. CASE Connected
  <2>1. /\ ticks = <<>> /\ sock \in {"connecting", "dropping"} /\ sock' \in {"open", "ending"}
        /\ UNCHANGED <<phaseVars, callVars, calls, ended, queue, active, ticks, conn, live, target,
                       rolePending>>
    BY <1>3 DEF Connected, Between, restVars, queueVars, configVars
  <2>2. /\ (Alive' => Alive) /\ sock' \in Up /\ live' \subseteq {conn'} /\ calls # 0
    BY <2>1 DEF ConnectInv, Trying, Alive, Up
  <2> QED BY <2>1, <2>2, QuietStep DEF phaseVars
<1> QED BY <1>1, <1>2, <1>3

LEMMA SocketEventsStep ==
    ASSUME ConnectInv, SocketError \/ SocketClosed
    PROVE  OtherInv'
<1>1. CASE SocketError
  <2>1. /\ ticks = <<>> /\ sock \in Up \cup {"failing"} /\ HandleErrorEvent
        /\ sock' = "closing" /\ live' = live \ {conn}
        /\ UNCHANGED <<calls, ended, rolePending, target>>
    BY <1>1 DEF SocketError, configVars
  <2>2. /\ ~Alive' /\ live' = {} /\ calls # 0
    BY <2>1 DEF ConnectInv, Trying, Alive, Up
  <2> QED BY <2>1, <2>2, FailsStep
<1>2. CASE SocketClosed
  <2>1. /\ ticks = <<>> /\ sock \in Up \cup {"closing"}
        /\ sock' = "closed" /\ live' = live \ {conn}
        /\ UNCHANGED <<calls, conn, provided, rolePending, target>>
    BY <1>2 DEF SocketClosed, Between, Keeps, configVars
  <2>2. live' = {} /\ calls > 0
    <3>1. sock # "new"
      BY <2>1 DEF Up
    <3>2. calls \in Nat
      BY ConnectAssumption DEF ConnectInv, Typed, CallTyped
    <3> QED BY <2>1, <3>1, <3>2 DEF ConnectInv, Trying
  <2>3. CASE connecting /\ handler
    <3>1. LeavesHost(~skip) /\ UNCHANGED <<ended, queueVars>>
      BY <1>2, <2>3 DEF SocketClosed
    <3>2. /\ ErrorOrNothing /\ Trying' /\ OneNext(ticks)' /\ connected' = connected
          /\ Refuses(ticks') \subseteq Refuses(ticks) /\ ~FailsIn(ticks') /\ ProbeOnce(ticks')
      BY <2>1, <2>2, <2>3, <3>1, LeavesHostKeeps DEF ConnectInv
    <3>3. CallsTold(ticks)'
      BY <3>1, <3>2, ErrorTold DEF ConnectInv
    <3>4. OneProbe'
      BY <2>1, <3>1, <3>2, ProbeSame DEF ConnectInv, queueVars
    <3> QED BY <3>2, <3>3, <3>4 DEF OtherInv
  <2>4. CASE ~(connecting /\ handler)
    <3>1. EndsClient /\ ended'
      BY <1>2, <2>4 DEF SocketClosed, EndsClient
    <3>2. /\ ErrorOrNothing /\ Trying' /\ OneNext(ticks)' /\ connected' = connected
          /\ Refuses(ticks') \subseteq Refuses(ticks)
          /\ ticks' = ErrorAll /\ active' = Nothing /\ queue' = <<>>
      BY <2>1, <2>2, <2>4, <3>1, EndsClientKeeps DEF ConnectInv
    <3>3. CallsTold(ticks)'
      BY <3>1, <3>2, ErrorTold DEF ConnectInv
    <3>4. OneProbe'
      BY <2>1, <3>2, ProbeErrors DEF ConnectInv
    <3> QED BY <3>2, <3>3, <3>4 DEF OtherInv
  <2> QED BY <2>3, <2>4
<1> QED BY <1>1, <1>2

\* Head(ticks) is a second call of connect.
LEMMA RefuseTold ==
    ASSUME ConnectInv, Refuse
    PROVE  CallsTold(ticks)' /\ (calls = 1 => told'[1] = told[1])
<1> DEFINE c == Head(ticks).arg
<1>1. /\ ticks # <<>> /\ Head(ticks).do = "refuse" /\ ticks' = Tail(ticks)
      /\ told' = [told EXCEPT ![c] = Append(told[c], "error")]
      /\ UNCHANGED <<callback, calls, connected, ended>>
  BY DEF Refuse, RunsTick, phaseVars
<1>2. /\ ticks \in Seq(TickRecord) /\ told \in [1..MaxCalls -> Seq(Verdict)]
      /\ calls \in 0..MaxCalls
  BY DEF ConnectInv, Typed, RestTyped, CallTyped
<1>3. /\ Head(ticks) = ticks[1] /\ Head(ticks) \in TickRecord /\ 1 \in 1..Len(ticks)
      /\ \A j \in 1..Len(ticks') : j + 1 \in 1..Len(ticks) /\ ticks'[j] = ticks[j + 1]
  BY <1>1, <1>2, RestOf
<1>4. c \in 2..calls
  BY <1>1, <1>3 DEF ConnectInv, CallsTold
<1>5. c \in 1..MaxCalls /\ c # 1 /\ Head(ticks) = Tick("refuse", c)
  <2>1. c \in 1..MaxCalls /\ c # 1
    BY <1>2, <1>4, ConnectAssumption
  <2>2. Head(ticks) \in [do : {"refuse"}, arg : 1..MaxCalls]
    BY <1>1, <1>3 DEF TickRecord
  <2> QED BY <2>1, <2>2 DEF Tick
<1> HIDE DEF c
<1>6. \A i \in 1..Len(told[c]) : told[c][i] # "ok"
  BY <1>3, <1>5 DEF ConnectInv, CallsTold
<1> DEFINE s == Append(told[c], "error")
<1>7. /\ Len(told[c]) \in Nat /\ Len(s) = Len(told[c]) + 1 /\ s[Len(told[c]) + 1] = "error"
      /\ \A i \in 1..Len(told[c]) : s[i] = told[c][i]
  BY <1>2, <1>5, OneMore DEF Verdict
<1>8. told'[c] = s /\ \A d \in 1..MaxCalls : d # c => told'[d] = told[d]
  BY <1>1, <1>2, <1>5 DEF c
<1> HIDE DEF s
<1>9. \A i \in 1..Len(s) : i \in 1..Len(told[c]) \/ i = Len(told[c]) + 1
  BY <1>7
<1>10. \A i \in 1..Len(s) : s[i] # "ok"
  BY <1>6, <1>7, <1>9
<1>11. CallsTold(ticks)'
  <2>1. \A d \in 1..MaxCalls : d > calls' => told'[d] = <<>>
    BY <1>1, <1>2, <1>4, <1>8 DEF ConnectInv, CallsTold
  <2>2. ASSUME NEW d \in 1..MaxCalls, NEW i \in 1..Len(told'[d]), told'[d][i] = "ok"
        PROVE  /\ connected' /\ i = Len(told'[d]) /\ d # callback'
               /\ \A j \in 1..Len(ticks') : ticks'[j] # Tick("refuse", d)
    <3>1. d # c
      BY <1>8, <1>10, <2>2
    <3>2. /\ connected /\ i = Len(told[d]) /\ d # callback
          /\ \A j \in 1..Len(ticks) : ticks[j] # Tick("refuse", d)
      BY <1>8, <2>2, <3>1 DEF ConnectInv, CallsTold
    <3> QED BY <1>1, <1>3, <1>8, <3>1, <3>2
  <2>3. \A j \in 1..Len(ticks') : ticks'[j].do = "refuse" => ticks'[j].arg \in 2..calls'
    BY <1>1, <1>3 DEF ConnectInv, CallsTold
  <2>4. \A d \in 1..MaxCalls : d = 1 => /\ Len(told'[d]) > 1 => ended'
                                        /\ callback' = 1 /\ told'[d] # <<>> => ended'
    BY <1>1, <1>5, <1>8 DEF ConnectInv, CallsTold
  <2>5. calls' = 1 /\ connected' => told'[1] = <<"ok">>
    BY <1>1, <1>2, <1>4
  <2> QED BY <2>1, <2>2, <2>3, <2>4, <2>5 DEF CallsTold
<1>12. calls = 1 => told'[1] = told[1]
  BY <1>2, <1>4
<1> QED BY <1>11, <1>12

LEMMA TicksStep ==
    ASSUME ConnectInv, TryNextHost \/ Refuse \/ FailQuery
    PROVE  OtherInv'
<1>1. /\ ticks # <<>> /\ ticks \in Seq(TickRecord) /\ Tail(ticks) \in Seq(TickRecord)
      /\ Head(ticks) \in TickRecord
  BY RestOf DEF TryNextHost, Refuse, FailQuery, RunsTick, ConnectInv, Typed, RestTyped
<1>2. /\ sock # "failing" /\ calls \in Nat
  BY <1>1, ConnectAssumption DEF ConnectInv, Trying, Typed, CallTyped
<1>3. ProbeOnce(ticks) /\ NextOnce(ticks)
  BY DEF ConnectInv, OneProbe, OncePlaced, OneNext, ProbeOnce, NextOnce
<1> DEFINE r == Tail(ticks)
<1>4. /\ (NextIn(r) => NextIn(ticks)) /\ (FailsIn(r) => FailsIn(ticks))
      /\ ProbeOnce(r) /\ NextOnce(r) /\ Refuses(r) \subseteq Refuses(ticks)
      /\ Head(ticks).do = "next" => NextIn(ticks) /\ ~NextIn(r)
      /\ IsProbe(Head(ticks)) => FailsIn(ticks) /\ ~FailsIn(r)
  BY <1>1, <1>3, RestHas, RefusesRest
<1> HIDE DEF r
<1>5. CASE TryNextHost
  <2>1. /\ ticks' = r /\ Head(ticks).do = "next"
        /\ UNCHANGED <<provided, target, queueVars, ended, rolePending, calls>>
    BY <1>5 DEF TryNextHost, RunsTick, configVars, r
  <2>2. connectionError /\ handler /\ ~provided /\ ~connected
    BY <1>4, <2>1 DEF ConnectInv, OneNext
  <2>3. Hopeful /\ ~Alive
    BY <1>4, <2>1, <2>2 DEF Hopeful, ConnectInv, Trying
  <2>4. connecting /\ callback = calls /\ calls > 0 /\ (calls = 1 => told[1] = <<>>)
    BY <2>2, <2>3 DEF ConnectInv, Trying
  <2>5. sock \notin Up /\ live = {}
    BY <2>3 DEF Alive, ConnectInv, Trying
  <2>6. OneNext(ticks)'
    BY <1>4, <2>1, NextKept
  <2>7. CASE todo = <<>>
    <3>1. GivesUp /\ UNCHANGED <<conn, sock, live>>
      BY <1>5, <2>7 DEF TryNextHost
    <3>2. ~Alive'
      BY <2>3, <3>1 DEF Alive
    <3>3. ErrorOrNothing /\ Trying' /\ connected' = connected
      BY <1>4, <2>1, <2>5, <3>1, <3>2, GivesUpKeeps DEF ConnectInv, GivesUp
    <3>4. CallsTold(ticks)'
      BY <1>4, <2>1, <3>3, ErrorTold DEF ConnectInv
    <3>5. OneProbe'
      BY <1>4, <2>1, <3>3, ProbeSame DEF ConnectInv, queueVars
    <3> QED BY <2>6, <3>3, <3>4, <3>5 DEF OtherInv
  <2>8. CASE todo # <<>>
    <3>1. /\ TriesHost(Head(todo), TRUE) /\ connectionError' = FALSE /\ handler' = TRUE
          /\ UNCHANGED <<connecting, connected, timer, callVars>>
      BY <1>5, <2>8 DEF TryNextHost
    <3>2. sock' = "connecting" /\ live' = {conn'}
      BY <2>5, <3>1 DEF TriesHost, Starts
    <3>3. Trying'
      BY <2>1, <2>2, <2>4, <3>1, <3>2 DEF ConnectInv, Trying, Up, callVars
    <3>4. CallsTold(ticks)'
      BY <1>4, <2>1, <3>1, SameTold DEF ConnectInv
    <3>5. OneProbe'
      BY <1>4, <2>1, <3>1, ProbeSame DEF ConnectInv, queueVars
    <3> QED BY <2>6, <3>3, <3>4, <3>5 DEF OtherInv
  <2> QED BY <2>7, <2>8
<1>6. CASE Refuse
  <2>1. /\ ticks' = r
        /\ UNCHANGED <<phaseVars, callback, conn, sock, live, queueVars, calls, provided, target,
                       rolePending>>
    BY <1>6 DEF Refuse, connVars, configVars, r
  <2>2. CallsTold(ticks)' /\ (calls = 1 => told'[1] = told[1])
    BY <1>6, RefuseTold
  <2>3. /\ live' \subseteq {conn'} /\ (live' # {} => sock' \in Up) /\ (Alive' => Alive)
    BY <2>1, LiveStays DEF ConnectInv
  <2>4. Trying'
    BY <1>2, <1>4, <2>1, <2>2, <2>3, SameTries DEF ConnectInv, phaseVars
  <2>5. OneNext(ticks)'
    BY <1>4, <2>1, NextStays DEF ConnectInv, phaseVars
  <2>6. OneProbe'
    BY <1>4, <2>1, ProbeSame DEF ConnectInv, queueVars, phaseVars
  <2> QED BY <2>2, <2>4, <2>5, <2>6 DEF OtherInv
<1>7. CASE FailQuery
  <2>1. /\ Head(ticks).do = "fail"
        /\ UNCHANGED <<provided, target, queue, active, conn, ended, calls>>
    BY <1>7 DEF FailQuery, RunsTick, Keeps, configVars
  <2>2. CASE Head(ticks).arg = Probe
    <3>1. SkipsHost(r)
      BY <1>7, <2>2 DEF FailQuery, r
    <3>2. IsProbe(Head(ticks))
      <4>1. Head(ticks) \in [do : {"fail"}, arg : Item]
        BY <1>1, <2>1 DEF TickRecord
      <4> QED BY <2>2, <4>1 DEF IsProbe, Tick
    <3>3. FailsIn(ticks) /\ ~FailsIn(r)
      BY <1>4, <3>2
    <3>4. active # Probe /\ ~Waits(queue)
      BY <3>3 DEF ConnectInv, OneProbe, OncePlaced
    <3>5. r \in Seq(TickRecord)
      BY <1>1 DEF r
    <3>6. /\ ErrorOrNothing /\ Trying' /\ OneNext(ticks)'
          /\ Refuses(ticks') \subseteq Refuses(ticks) /\ ~FailsIn(ticks')
      BY <1>2, <1>4, <2>1, <3>1, <3>3, <3>5, SkipsHostKeeps DEF ConnectInv
    <3>7. CallsTold(ticks)'
      BY <2>1, <3>6, ErrorTold DEF ConnectInv
    <3>8. OneProbe'
      BY <2>1, <3>4, <3>6, ProbeGone
    <3> QED BY <3>6, <3>7, <3>8 DEF OtherInv
  <2>3. CASE Head(ticks).arg # Probe
    <3>1. ticks' = r /\ UNCHANGED <<rolePending, phaseVars, callVars, sock, live>>
      BY <1>7, <2>3 DEF FailQuery, r
    <3>2. /\ live' \subseteq {conn'} /\ (live' # {} => sock' \in Up) /\ (Alive' => Alive)
      BY <2>1, <3>1, LiveStays DEF ConnectInv
    <3>3. Trying'
      BY <1>2, <1>4, <2>1, <3>1, <3>2, SameTries DEF ConnectInv, phaseVars, callVars
    <3>4. OneNext(ticks)'
      BY <1>4, <2>1, <3>1, NextStays DEF ConnectInv, phaseVars
    <3>5. CallsTold(ticks)'
      BY <1>4, <2>1, <3>1, SameTold DEF ConnectInv, phaseVars
    <3>6. OneProbe'
      BY <1>4, <2>1, <3>1, ProbeSame DEF ConnectInv, phaseVars
    <3> QED BY <3>3, <3>4, <3>5, <3>6 DEF OtherInv
  <2> QED BY <2>2, <2>3
<1> QED BY <1>5, <1>6, <1>7

\* A step that changes nothing of the client but the work to be done, its session
\* and what it made of the server.
LEMMA SameClientStep ==
    ASSUME ConnectInv, ticks = <<>>, SameClient
    PROVE  OtherInv'
<1>1. UNCHANGED <<phaseVars, callVars, calls, conn, sock, live, queueVars, ended, rolePending,
                  target, ticks>>
  BY DEF SameClient, configVars
<1>2. /\ live' \subseteq {conn'} /\ (live' # {} => sock' \in Up) /\ (Alive' => Alive)
  BY <1>1, LiveStays DEF ConnectInv
<1> QED BY <1>1, <1>2, QuietStep DEF phaseVars, queueVars

LEMMA ConnectionFailsStep ==
    ASSUME ConnectInv, Between, ConnectionFails
    PROVE  OtherInv'
BY DestroysIfFailingStep DEF ConnectionFails, ErrorOnly, configVars

LEMMA AuthStep ==
    ASSUME ConnectInv,
           \/ \E what \in {"password", "sasl"} : AuthRequest(what)
           \/ AuthSASLContinue \/ AuthOk \/ \E good \in BOOLEAN : AuthSASLFinal(good)
           \/ \E w \in work : WorkDone(w) \/ WorkFails(w)
    PROVE  OtherInv'
<1>1. CASE \E what \in {"password", "sasl"} : AuthRequest(what)
  BY <1>1, SameClientStep DEF AuthRequest, Message, Between
<1>2. CASE AuthSASLContinue
  BY <1>2, SameClientStep DEF AuthSASLContinue, Message, Between
<1>3. CASE AuthOk
  BY <1>3, SameClientStep DEF AuthOk, Message, Between
<1>4. ASSUME NEW good \in BOOLEAN, AuthSASLFinal(good) PROVE OtherInv'
  <2>1. Between /\ ticks = <<>>
    BY <1>4 DEF AuthSASLFinal, Message, Between
  <2> QED BY <1>4, <2>1, SameClientStep, ConnectionFailsStep DEF AuthSASLFinal
<1>5. ASSUME NEW w \in work, WorkDone(w) PROVE OtherInv'
  BY <1>5, SameClientStep DEF WorkDone, Between
<1>6. ASSUME NEW w \in work, WorkFails(w) PROVE OtherInv'
  <2>1. Between /\ ticks = <<>>
    BY <1>6 DEF WorkFails, Between
  <2>2. CASE ConnectionFails
    BY <2>1, <2>2, ConnectionFailsStep
  <2>3. CASE ErrorOnly /\ UNCHANGED <<phaseVars, callVars, queueVars, sock, live, queryable, ticks>>
    <3>1. UNCHANGED <<phaseVars, callVars, calls, conn, sock, live, queueVars, ended,
                      rolePending, target, ticks>>
      BY <2>3 DEF ErrorOnly, configVars
    <3>2. /\ live' \subseteq {conn'} /\ (live' # {} => sock' \in Up) /\ (Alive' => Alive)
      BY <3>1, LiveStays DEF ConnectInv
    <3> QED BY <2>1, <3>1, <3>2, QuietStep DEF phaseVars, queueVars
  <2> QED BY <1>6, <2>2, <2>3 DEF WorkFails
<1> QED BY <1>1, <1>2, <1>3, <1>4, <1>5, <1>6

LEMMA MessagesStep ==
    ASSUME ConnectInv, ErrorMessage \/ ProtocolFallback \/ ProbeRow \/ CommandComplete
    PROVE  OtherInv'
<1>1. CASE ErrorMessage
  <2>1. /\ Between /\ ticks = <<>>
        /\ UNCHANGED <<target, conn, ended, rolePending, calls>>
    BY <1>1 DEF ErrorMessage, Message, Between, configVars
  <2>2. CASE connecting \/ active = Nothing
    <3>1. HandleErrorEvent /\ DestroysIfFailing
      BY <1>1, <2>2 DEF ErrorMessage
    <3> QED BY <2>1, <3>1, DestroysIfFailingStep
  <2>3. CASE ~(connecting \/ active = Nothing)
    <3>1. active' = Nothing /\ UNCHANGED <<phaseVars, callVars, queue, ticks, sock, live>>
      BY <1>1, <2>3 DEF ErrorMessage
    <3>2. active' # Probe
      BY <3>1, NoItems
    <3>3. /\ live' \subseteq {conn'} /\ (live' # {} => sock' \in Up) /\ (Alive' => Alive)
      BY <2>1, <3>1, LiveStays DEF ConnectInv
    <3> QED BY <2>1, <3>1, <3>2, <3>3, QuietStep DEF phaseVars
  <2> QED BY <2>2, <2>3
<1>2. CASE ProtocolFallback
  <2>1. /\ ticks = <<>> /\ connecting /\ sock \in {"open", "ending"}
        /\ connectionError' = FALSE /\ conn' = conn + 1 /\ sock' = "connecting"
        /\ live' = (live \ {conn}) \cup {conn + 1}
        /\ UNCHANGED <<connecting, connected, handler, timer, callVars, queueVars, ended,
                       rolePending, calls, target, ticks>>
    BY <1>2 DEF ProtocolFallback, FallsBack, Starts, Message, Between, configVars
  <2>2. live' = {conn'} /\ sock' \in Up /\ Alive /\ Hopeful
    BY <2>1 DEF ConnectInv, Trying, Up, Alive, Hopeful
  <2>3. ~NextIn(ticks') /\ ProbeOnce(ticks') /\ Refuses(ticks') \subseteq Refuses(ticks)
    BY <2>1, NoTicks
  <2>4. CallsTold(ticks)'
    BY <2>1, <2>3, SameTold DEF ConnectInv
  <2>5. Trying'
    <3>1. /\ calls > 0
          /\ ~connected => connecting /\ callback = calls /\ (calls = 1 => told[1] = <<>>)
      BY <2>2 DEF ConnectInv, Trying
    <3> QED BY <2>1, <2>2, <3>1 DEF ConnectInv, Trying, callVars
  <2>6. OneProbe'
    BY <2>1, <2>3, ProbeSame DEF ConnectInv, queueVars
  <2> QED BY <2>3, <2>4, <2>5, <2>6, NextKept DEF OtherInv
<1>3. CASE ProbeRow \/ CommandComplete
  <2>1. /\ ticks = <<>>
        /\ UNCHANGED <<phaseVars, callVars, calls, conn, sock, live, queue, active, ended,
                       rolePending, target, ticks>>
    BY <1>3 DEF ProbeRow, CommandComplete, Message, Between, configVars, restVars, queueVars
  <2>2. /\ live' \subseteq {conn'} /\ (live' # {} => sock' \in Up) /\ (Alive' => Alive)
    BY <2>1, LiveStays DEF ConnectInv
  <2> QED BY <2>1, <2>2, QuietStep DEF phaseVars
<1> QED BY <1>1, <1>2, <1>3

\* At readyForQuery the socket is up.
LEMMA AtReady ==
    ASSUME ConnectInv, Ready
    PROVE  /\ ticks = <<>> /\ sock \in {"open", "ending"} /\ Alive /\ sock # "failing"
           /\ calls # 0 /\ ~NextIn(ticks) /\ ~FailsIn(ticks) /\ ProbeOnce(ticks) /\ NextOnce(ticks)
           /\ queue \in Seq(Item) /\ QueueOnce(queue) /\ (active = Probe => ~Waits(queue))
           /\ active = Probe \/ Waits(queue) => MayProbe
<1>1. ticks = <<>> /\ sock \in {"open", "ending"}
  BY DEF Ready, Message, Between
<1>2. Alive /\ sock # "failing" /\ calls # 0
  BY <1>1 DEF Alive, Up, ConnectInv, Trying
<1>3. queue \in Seq(Item) /\ QueueOnce(queue) /\ (active = Probe => ~Waits(queue))
  BY DEF ConnectInv, Typed, QueueTyped, OneProbe, OncePlaced, QueueOnce
<1>4. active = Probe \/ Waits(queue) => MayProbe
  BY DEF ConnectInv, OneProbe, Probing, MayProbe
<1> QED BY <1>1, <1>2, <1>3, <1>4, NoTicks

LEMMA ReadyStep ==
    ASSUME ConnectInv,
           ReadyProbes \/ ReadySkips \/ ReadyConnects \/ ReadyGoesOn \/ ReadyAfterProbe
    PROVE  OtherInv'
<1>0. Ready
  BY DEF ReadyProbes, ReadySkips, ReadyConnects, ReadyGoesOn, ReadyAfterProbe, RoleKnown
<1>1. /\ ticks = <<>> /\ sock \in {"open", "ending"} /\ Alive /\ sock # "failing"
      /\ calls # 0 /\ ~NextIn(ticks) /\ ~FailsIn(ticks) /\ ProbeOnce(ticks) /\ NextOnce(ticks)
      /\ queue \in Seq(Item) /\ QueueOnce(queue) /\ (active = Probe => ~Waits(queue))
      /\ active = Probe \/ Waits(queue) => MayProbe
  BY <1>0, AtReady
<1>2. CASE ReadyProbes
  <2>1. /\ connecting /\ ~rolePending /\ target # "any" /\ rolePending' = TRUE
        /\ ticks' = (IF Refused THEN <<Tick("fail", Probe)>> ELSE ticks)
        /\ Pulses(IF Refused THEN queue ELSE Append(queue, Probe), Writable, Goes)
        /\ UNCHANGED <<phaseVars, callVars, sock, live, conn, target, ended, calls>>
    BY <1>2 DEF ReadyProbes, NeedsProbe, SameAtReady, configVars, Pulses
  <2>2. ~connected /\ active # Probe /\ ~Waits(queue)
    BY <1>1, <2>1 DEF MayProbe, ConnectInv, Trying
  <2>3. MayProbe'
    BY <2>1, <2>2 DEF MayProbe, phaseVars
  <2>4. Tick("fail", Probe) \in TickRecord
    BY NoItems, TickTyped
  <2>5. /\ ~NextIn(ticks') /\ Refuses(ticks') \subseteq Refuses(ticks)
    <3>1. CASE Refused
      <4>1. NextIn(<<Tick("fail", Probe)>>) => Tick("fail", Probe).do = "next"
        BY <2>4, OneTick
      <4>2. Tick("fail", Probe).do = "fail"
        BY KindsDiffer
      <4>3. Refuses(<<Tick("fail", Probe)>>) = {}
        <5>1. \A i \in 1..Len(<<Tick("fail", Probe)>>) : <<Tick("fail", Probe)>>[i] = Tick("fail", Probe)
          BY <2>4, AppendAlone
        <5>2. \A i \in 1..Len(<<Tick("fail", Probe)>>) : <<Tick("fail", Probe)>>[i].do # "refuse"
          BY <4>2, <5>1
        <5> QED BY <5>2 DEF Refuses
      <4> QED BY <2>1, <3>1, <4>1, <4>2, <4>3
    <3>2. CASE ~Refused
      BY <1>1, <2>1, <3>2
    <3> QED BY <3>1, <3>2
  <2>6. OneProbe'
    <3>1. CASE Refused
      <4>1. Pulses(queue, Writable, Goes) /\ ticks' = <<Tick("fail", Probe)>>
        BY <2>1, <3>1
      <4>2. active' # Probe /\ ~Waits(queue')
        <5>1. CASE queue = <<>>
          BY <2>2, <4>1, <5>1, NoItems DEF Pulses
        <5>2. CASE queue # <<>>
          <6>1. active' = queue[1] /\ queue' = Tail(queue) /\ 1 \in 1..Len(queue)
            BY <1>1, <4>1, <5>2, RestOf DEF Pulses
          <6>2. \A i \in 1..Len(Tail(queue)) : i + 1 \in 1..Len(queue) /\ Tail(queue)[i] = queue[i + 1]
            BY <1>1, <5>2, RestOf
          <6> QED BY <2>2, <6>1, <6>2 DEF Waits
        <5> QED BY <5>1, <5>2
      <4>3. ProbeOnce(ticks')
        BY <2>4, <4>1, OneTick
      <4>4. OncePlaced(active, queue, ticks)'
        BY <4>2, <4>3 DEF OncePlaced, ProbeOnce, Waits
      <4> QED BY <2>3, <4>4 DEF OneProbe, MayProbe
    <3>2. CASE ~Refused
      <4>1. Pulses(Append(queue, Probe), Writable, Goes) /\ ticks' = ticks
        BY <2>1, <3>2
      <4>2. Append(queue, Probe) \in Seq(Item) /\ QueueOnce(Append(queue, Probe))
        BY <1>1, <2>2, NoItems, AskedWaits
      <4> QED BY <1>1, <2>3, <4>1, <4>2, ProbePulses
    <3> QED BY <3>1, <3>2
  <2>7. /\ live' \subseteq {conn'} /\ (live' # {} => sock' \in Up) /\ (Alive' => Alive)
    BY <2>1, LiveStays DEF ConnectInv
  <2>8. CallsTold(ticks)' /\ Trying' /\ OneNext(ticks)'
    BY <1>1, <2>1, <2>5, <2>7, QuietKeeps DEF ConnectInv, phaseVars
  <2> QED BY <2>6, <2>8 DEF OtherInv
<1>3. CASE ReadyConnects
  <2>1. /\ connecting /\ target = "any" /\ Succeeds /\ Pulses(queue, Writable, Goes)
        /\ UNCHANGED <<sock, live, conn, rolePending, ticks, target, ended, calls>>
    BY <1>3 DEF ReadyConnects, SameAtReady, configVars, Pulses
  <2>2. ~connected /\ ~Waits(queue)
    BY <1>1, <2>1 DEF MayProbe, ConnectInv, Trying
  <2>3. CallsTold(ticks)' /\ Trying' /\ OneNext(ticks)'
    BY <1>1, <2>1, <2>2, SucceedsKeeps
  <2>4. OneProbe'
    BY <1>1, <2>1, <2>2, ProbePulses
  <2> QED BY <2>3, <2>4 DEF OtherInv
<1>4. CASE ReadyGoesOn
  <2>1. /\ Pulses(queue, Writable, Goes)
        /\ UNCHANGED <<phaseVars, callVars, sock, live, conn, rolePending, ticks, target, ended,
                       calls>>
    BY <1>4 DEF ReadyGoesOn, SameAtReady, configVars, Pulses
  <2>2. Waits(queue) => MayProbe'
    BY <1>1, <2>1 DEF MayProbe, phaseVars
  <2>3. OneProbe'
    BY <1>1, <2>1, <2>2, ProbePulses
  <2>4. /\ live' \subseteq {conn'} /\ (live' # {} => sock' \in Up) /\ (Alive' => Alive)
    BY <2>1, LiveStays DEF ConnectInv
  <2>5. CallsTold(ticks)' /\ Trying' /\ OneNext(ticks)'
    BY <1>1, <2>1, <2>4, QuietKeeps DEF ConnectInv, phaseVars
  <2> QED BY <2>3, <2>5 DEF OtherInv
<1>5. CASE ReadyAfterProbe
  <2>1. active = Probe /\ UNCHANGED <<conn, target, provided, ended, calls>>
    BY <1>5 DEF ReadyAfterProbe, RoleKnown, SameAtReady, configVars, Pulses
  <2>2. ~Waits(queue) /\ ~connected
    BY <1>1, <2>1 DEF MayProbe
  <2>3. CASE rows # NoRole /\ Acceptable(rows)
    <3>1. Succeeds /\ Pulses(queue, Writable, Goes) /\ UNCHANGED <<ticks, sock, live>>
      BY <1>5, <2>3 DEF ReadyAfterProbe, RoleKnown
    <3>2. CallsTold(ticks)' /\ Trying' /\ OneNext(ticks)'
      BY <1>1, <2>1, <2>2, <3>1, SucceedsKeeps
    <3>3. OneProbe'
      BY <1>1, <2>2, <3>1, ProbePulses
    <3> QED BY <3>2, <3>3 DEF OtherInv
  <2>4. CASE ~(rows # NoRole /\ Acceptable(rows))
    <3>1. SkipsHost(ticks) /\ Pulses(queue, FALSE, Goes)
      BY <1>5, <2>4 DEF ReadyAfterProbe, RoleKnown
    <3>2. /\ ErrorOrNothing /\ Trying' /\ OneNext(ticks)'
          /\ Refuses(ticks') \subseteq Refuses(ticks) /\ ~FailsIn(ticks')
      BY <1>1, <2>1, <3>1, SkipsHostKeeps DEF ConnectInv, Typed, RestTyped
    <3>3. CallsTold(ticks)'
      BY <2>1, <3>2, ErrorTold DEF ConnectInv
    <3>4. OneProbe'
      BY <1>1, <2>2, <3>1, <3>2, ProbePulses
    <3> QED BY <3>2, <3>3, <3>4 DEF OtherInv
  <2> QED BY <2>3, <2>4
<1>6. CASE ReadySkips
  <2>1. /\ SkipsHost(ticks) /\ ~rolePending
        /\ UNCHANGED <<conn, target, provided, ended, calls, active, queue, rolePending>>
    BY <1>6 DEF ReadySkips, NeedsProbe, SameAtReady, configVars, queueVars
  <2>2. active # Probe /\ ~Waits(queue)
    BY <2>1 DEF ConnectInv, OneProbe, Probing
  <2>3. /\ ErrorOrNothing /\ Trying' /\ OneNext(ticks)'
        /\ Refuses(ticks') \subseteq Refuses(ticks) /\ ~FailsIn(ticks')
    BY <1>1, <2>1, SkipsHostKeeps DEF ConnectInv, Typed, RestTyped
  <2>4. CallsTold(ticks)'
    BY <2>1, <2>3, ErrorTold DEF ConnectInv
  <2>5. active' # Probe /\ ~Waits(queue')
    BY <2>1, <2>2 DEF Waits
  <2>6. OneProbe'
    BY <2>3, <2>5, ProbeGone
  <2> QED BY <2>3, <2>4, <2>6 DEF OtherInv
<1> QED BY <1>2, <1>3, <1>4, <1>5, <1>6

\* The probe is taken off the queue.
LEMMA WithoutGone ==
    ASSUME Typed, OneProbe
    PROVE  ~Waits(Without)
<1>1. CASE Places = {}
  <2>1. \A i \in 1..Len(queue) : queue[i] # Probe
    BY <1>1 DEF Places
  <2> QED BY <1>1, <2>1 DEF Without, Waits
<1>2. CASE Places # {}
  <2>1. PICK i \in Places : Without = RemoveAt(queue, i)
    BY <1>2 DEF Without
  <2>2. /\ i \in 1..Len(queue) /\ queue[i] = Probe /\ queue \in Seq(Item) /\ Len(queue) \in Nat
    BY LenProperties DEF Places, Typed, QueueTyped
  <2>3. \A j \in 1..Len(queue) : queue[j] = Probe => j = i
    BY <2>2 DEF OneProbe, OncePlaced
  <2> DEFINE front == SubSeq(queue, 1, i - 1)
             back == SubSeq(queue, i + 1, Len(queue))
  <2>4. /\ front \in Seq(Item) /\ Len(front) = i - 1
        /\ \A j \in 1..(i - 1) : front[j] = queue[j]
    BY <2>2, SubSeqProperties
  <2>5. /\ back \in Seq(Item) /\ Len(back) = Len(queue) - i
        /\ \A j \in 1..(Len(queue) - i) : back[j] = queue[i + j]
    <3>1. \A j \in 1..(Len(queue) - i) : (i + 1) + j - 1 = i + j
      BY <2>2
    <3>2. Len(queue) - (i + 1) + 1 = Len(queue) - i
      BY <2>2
    <3>3. \A j \in (i + 1)..Len(queue) : queue[j] \in Item
      <4>1. \A j \in (i + 1)..Len(queue) : j \in 1..Len(queue)
        BY <2>2
      <4> QED BY <2>2, <4>1, ElementOfSeq
    <3>4. i + 1 \in Int /\ Len(queue) \in Int /\ i \in Nat /\ i <= Len(queue)
      BY <2>2
    <3> HIDE DEF back
    <3>5. /\ back \in Seq(Item)
          /\ Len(back) = IF i + 1 <= Len(queue) THEN Len(queue) - (i + 1) + 1 ELSE 0
          /\ \A j \in 1..(Len(queue) - (i + 1) + 1) : back[j] = queue[(i + 1) + j - 1]
      BY <3>3, <3>4, SubSeqProperties DEF back
    <3>6. Len(back) = Len(queue) - i
      BY <3>4, <3>5
    <3> QED BY <3>1, <3>2, <3>5, <3>6
  <2> HIDE DEF front, back
  <2>6. ~Waits(front)
    <3>1. \A j \in 1..(i - 1) : j \in 1..Len(queue) /\ j # i
      BY <2>2
    <3> QED BY <2>3, <2>4, <3>1 DEF Waits
  <2>7. ~Waits(back)
    <3>1. \A j \in 1..(Len(queue) - i) : i + j \in 1..Len(queue) /\ i + j # i
      BY <2>2
    <3> QED BY <2>3, <2>5, <3>1 DEF Waits
  <2>8. Without = front \o back
    BY <2>1 DEF RemoveAt, front, back
  <2>9. ASSUME NEW k \in 1..Len(front \o back) PROVE (front \o back)[k] # Probe
    <3>1. /\ Len(front \o back) = Len(front) + Len(back) /\ Len(front) \in Nat /\ Len(back) \in Nat
          /\ (front \o back)[k] = IF k <= Len(front) THEN front[k] ELSE back[k - Len(front)]
      <4>1. Len(front) \in Nat /\ Len(back) \in Nat
        BY <2>4, <2>5, LenProperties
      <4>2. /\ Len(front \o back) = Len(front) + Len(back)
            /\ \A m \in 1..(Len(front) + Len(back)) :
                  (front \o back)[m] = IF m <= Len(front) THEN front[m] ELSE back[m - Len(front)]
        BY <2>4, <2>5, ConcatProperties
      <4> QED BY <2>9, <4>1, <4>2
    <3>2. CASE k <= Len(front)
      <4>1. k \in 1..Len(front)
        BY <2>9, <3>1, <3>2
      <4> QED BY <2>6, <3>1, <3>2, <4>1 DEF Waits
    <3>3. CASE ~(k <= Len(front))
      <4>1. k - Len(front) \in 1..Len(back)
        BY <2>9, <3>1, <3>3
      <4> QED BY <2>7, <3>1, <3>3, <4>1 DEF Waits
    <3> QED BY <3>2, <3>3
  <2> QED BY <2>8, <2>9 DEF Waits
<1> QED BY <1>1, <1>2

LEMMA ProbeTimesOutStep ==
    ASSUME ConnectInv, ProbeTimesOut
    PROVE  OtherInv'
<1>1. /\ ticks = <<>> /\ sock # "failing" /\ SkipsHost(ticks)
      /\ active' = (IF active = Probe THEN Late ELSE active) /\ queue' = Without
      /\ UNCHANGED <<conn, target, provided, ended, calls>>
  BY DEF ProbeTimesOut, Between, SameAtReady, configVars
<1>2. active' # Probe
  BY <1>1, NoItems
<1>3. ~Waits(queue')
  BY <1>1, WithoutGone DEF ConnectInv
<1>4. /\ ErrorOrNothing /\ Trying' /\ OneNext(ticks)'
      /\ Refuses(ticks') \subseteq Refuses(ticks) /\ ~FailsIn(ticks')
  BY <1>1, NoTicks, SkipsHostKeeps DEF ConnectInv, Typed, RestTyped
<1>5. CallsTold(ticks)'
  BY <1>1, <1>4, ErrorTold DEF ConnectInv
<1>6. OneProbe'
  BY <1>2, <1>3, <1>4, ProbeGone
<1> QED BY <1>4, <1>5, <1>6 DEF OtherInv

LEMMA SameStep ==
    ASSUME ConnectInv, UNCHANGED vars
    PROVE  OtherInv'
<1>1. UNCHANGED <<phaseVars, callVars, calls, conn, sock, live, queue, active, ended, rolePending,
                  target, provided, ticks>>
  BY DEF vars, configVars, connVars, queueVars, restVars
<1>2. /\ live' \subseteq {conn'} /\ (live' # {} => sock' \in Up) /\ (Alive' => Alive)
  BY <1>1, LiveStays DEF ConnectInv
<1>3. CallsTold(ticks)'
  BY <1>1, SameTold DEF ConnectInv, phaseVars
<1>4. Trying'
  BY <1>1, <1>2, SameTries DEF ConnectInv, phaseVars, callVars, Trying
<1>5. NextOnce(ticks) /\ ProbeOnce(ticks)
  BY DEF ConnectInv, OneNext, OneProbe, OncePlaced, NextOnce, ProbeOnce
<1>6. OneNext(ticks)'
  BY <1>1, <1>5, NextStays DEF ConnectInv, phaseVars
<1>7. OneProbe'
  BY <1>1, <1>5, ProbeSame DEF ConnectInv, phaseVars
<1> QED BY <1>3, <1>4, <1>6, <1>7 DEF OtherInv

-----------------------------------------------------------------------------
\* The theorems.

LEMMA ConnectInvInit ==
    ASSUME Init
    PROVE  ConnectInv
<1>1. /\ connecting = FALSE /\ connected = FALSE /\ connectionError = FALSE /\ handler = FALSE
      /\ timer = FALSE /\ callback = Nothing /\ calls = 0 /\ sock = "new" /\ live = {}
      /\ queue = <<>> /\ active = Nothing /\ ticks = <<>>
      /\ told = [c \in 1..MaxCalls |-> <<>>]
  BY DEF Init
<1>2. CallsTold(ticks)
  <2>1. \A c \in 1..MaxCalls : told[c] = <<>>
    BY <1>1
  <2>2. Len(<<>>) = 0
    OBVIOUS
  <2> QED BY <1>1, <2>1, <2>2 DEF CallsTold
<1>3. Trying /\ OneNext(ticks)
  BY <1>1, NoTicks DEF Trying, Hopeful, Alive, Up, OneNext, NextOnce
<1>4. OneProbe
  <2>1. ~Waits(<<>>)
    BY DEF Waits
  <2> QED BY <1>1, <2>1, NoItems, NoTicks
          DEF OneProbe, OncePlaced, Probing, Waits, ProbeOnce
<1> QED BY <1>2, <1>3, <1>4, TypedInit DEF ConnectInv

LEMMA ConnectInvStep ==
    ASSUME ConnectInv, [Next]_vars
    PROVE  ConnectInv'
<1>1. Typed'
  BY TypedStep DEF ConnectInv
<1>2. CASE Connect
  <2>1. mode = "off" => ConnectTo(<<Head(Hosts)>>, FALSE)
    BY <1>2 DEF Connect
  <2>2. mode # "off" => \E order \in Orders(target, mode) : ConnectTo(order, TRUE)
    BY <1>2 DEF Connect
  <2>3. OtherInv'
    BY <2>1, <2>2, ConnectToStep
  <2> QED BY <1>1, <2>3 DEF OtherInv, ConnectInv
<1>3. CASE Next /\ ~Connect
  <2>1. OtherInv'
    BY <1>3, ConnectAgainStep, AskStep, SocketsStep, SocketEventsStep, TicksStep, AuthStep,
       MessagesStep, ReadyStep, ProbeTimesOutStep DEF Next
  <2> QED BY <1>1, <2>1 DEF OtherInv, ConnectInv
<1>4. CASE UNCHANGED vars
  <2>1. OtherInv'
    BY <1>4, SameStep
  <2> QED BY <1>1, <2>1 DEF OtherInv, ConnectInv
<1> QED BY <1>2, <1>3, <1>4

\* Every state the client reaches satisfies the invariant, whatever the servers,
\* the timers and the program do (client.js).
THEOREM ConnectInvariant == Spec => []ConnectInv
<1>1. Init => ConnectInv
  BY ConnectInvInit
<1>2. ConnectInv /\ [Next]_vars => ConnectInv'
  BY ConnectInvStep
<1> QED BY <1>1, <1>2, PTL DEF Spec

\* What connect was told is what happened: the first call is told success once, if
\* and only if the client is connected, and a second time only when the connection
\* has ended; the timer of connect is armed only while the client is connecting
\* (client.js, _finalizeConnectSuccess, _finalizeConnectFailure).
THEOREM VerdictIsOne == Spec => []OneVerdict
<1>1. ConnectInv => OneVerdict
  <2> SUFFICES ASSUME ConnectInv PROVE OneVerdict
    OBVIOUS
  <2>1. TimerOnlyConnecting
    BY DEF ConnectInv, Trying, TimerOnlyConnecting
  <2>2. ASSUME NEW c \in 1..MaxCalls PROVE Len(told[c]) > 1 => ended \/ c > 1
    BY DEF ConnectInv, CallsTold
  <2>3. calls = 1 => (connected <=> told[1] = <<"ok">>)
    <3> SUFFICES ASSUME calls = 1, told[1] = <<"ok">> PROVE connected
      BY DEF ConnectInv, CallsTold
    <3>1. 1 \in 1..MaxCalls
      BY ConnectAssumption DEF ConnectInv, Typed, CallTyped
    <3>2. 1 \in 1..Len(told[1]) /\ told[1][1] = "ok"
      OBVIOUS
    <3> QED BY <3>1, <3>2 DEF ConnectInv, CallsTold
  <2>4. ASSUME NEW c \in 1..MaxCalls, "ok" \in ToSet(told[c])
        PROVE  connected /\ Last(told[c]) = "ok"
    <3>1. told[c] \in Seq(Verdict)
      BY DEF ConnectInv, Typed, CallTyped
    <3>2. PICK i \in DOMAIN told[c] : told[c][i] = "ok"
      BY <2>4 DEF ToSet
    <3>3. i \in 1..Len(told[c])
      BY <3>1
    <3>4. connected /\ i = Len(told[c])
      BY <3>2, <3>3 DEF ConnectInv, CallsTold
    <3> QED BY <3>2, <3>4 DEF Last
  <2> QED BY <2>1, <2>2, <2>3, <2>4 DEF OneVerdict
<1> QED BY <1>1, ConnectInvariant, PTL

\* The client has at most one socket that is up, the one of its current connection,
\* and none once connect has failed: no host that was left, timed out or replaced for
\* the older protocol keeps one (client.js, _connectErrorHandler, destroy).
THEOREM NoSocketLeaks == Spec => []NoLeak
<1>1. ConnectInv => NoLeak
  BY DEF ConnectInv, Trying, Hopeful, Alive, NoLeak
<1> QED BY <1>1, ConnectInvariant, PTL

-----------------------------------------------------------------------------
\* The role of the host that connect succeeds on.

\* The row of the probe, if it was asked for over the current connection, is about
\* the host of that connection.
RolesKnown ==
    /\ sentOn <= conn
    /\ rows # NoRole /\ sentOn = conn => rows = role[host]
    /\ calls = 0 => rows = NoRole

LEMMA RolesInit ==
    ASSUME Init
    PROVE  RolesKnown
BY DEF Init, RolesKnown, NoConn

\* A step that leaves the connection and the host alone.
LEMMA SameRoles ==
    ASSUME RolesKnown, UNCHANGED <<conn, host, role, sentOn, rows>>, calls' = 0 => calls = 0
    PROVE  RolesKnown'
BY DEF RolesKnown

LEMMA PulsesRoles ==
    ASSUME Typed, RolesKnown, NEW que, NEW up, NEW st, Pulses(que, up, st),
           UNCHANGED <<role, host, calls>>
    PROVE  RolesKnown'
<1>1. conn' = conn /\ conn \in Nat
  BY DEF Pulses, Typed, ConnTyped
<1>2. CASE que = <<>>
  BY <1>1, <1>2, SameRoles DEF Pulses
<1>3. CASE que # <<>>
  <2>1. rows' = NoRole /\ sentOn' \in {conn, 0}
    BY <1>3 DEF Pulses, NoConn
  <2> QED BY <1>1, <2>1 DEF RolesKnown
<1> QED BY <1>2, <1>3

\* A step to another connection.
LEMMA StartsRoles ==
    ASSUME Typed, RolesKnown, conn' = conn + 1, UNCHANGED <<sentOn, rows>>, calls' # 0
    PROVE  RolesKnown'
<1>1. conn \in Nat /\ sentOn \in Nat
  BY DEF Typed, ConnTyped, QueueTyped
<1> QED BY <1>1 DEF RolesKnown

LEMMA RolesStep ==
    ASSUME ConnectInv, RolesKnown, [Next]_vars
    PROVE  RolesKnown'
<1> USE DEF configVars
<1>0. Typed
  BY DEF ConnectInv
<1>1. ASSUME NEW order, NEW balances, ConnectTo(order, balances) PROVE RolesKnown'
  <2>1. calls = 0 /\ calls' = 1 /\ UNCHANGED <<sentOn, rows, role>>
    BY <1>1 DEF ConnectTo, queueVars
  <2>2. conn' \in {conn, conn + 1}
    BY <1>1 DEF ConnectTo, TriesHost, Starts
  <2>3. rows = NoRole /\ sentOn <= conn /\ conn \in Nat /\ sentOn \in Nat
    BY <1>0, <2>1 DEF RolesKnown, Typed, ConnTyped, QueueTyped
  <2> QED BY <2>1, <2>2, <2>3 DEF RolesKnown
<1>2. CASE Connect
  BY <1>1, <1>2 DEF Connect
<1>3. CASE ConnectAgain
  <2>1. calls' # 0 /\ UNCHANGED <<conn, host, role, sentOn, rows>>
    BY <1>0, <1>3 DEF ConnectAgain, connVars, queueVars, Typed, CallTyped
  <2> QED BY <2>1, SameRoles
<1>4. CASE Ask
  <2>1. UNCHANGED <<role, host, calls>>
    BY <1>4 DEF Ask, Asks
  <2>2. Pulses(Append(queue, asked'), Writable, srv) \/ UNCHANGED <<conn, sentOn, rows>>
    BY <1>4 DEF Ask, Asks
  <2> QED BY <1>0, <2>1, <2>2, PulsesRoles, SameRoles
<1>5. CASE End \/ ConnectionTimeout \/ Connected
  <2>1. UNCHANGED <<conn, host, role, sentOn, rows, calls>>
    BY <1>5 DEF End, ConnectionTimeout, TimesOut, Connected, Keeps, queueVars, restVars
  <2> QED BY <2>1, SameRoles
<1>6. CASE SocketError \/ SocketClosed
  <2>1. UNCHANGED <<conn, host, role, sentOn, rows, calls>>
    BY <1>6 DEF SocketError, SocketClosed, Keeps, HandleErrorEvent, EndsClient, queueVars
  <2> QED BY <2>1, SameRoles
<1>7. CASE TryNextHost
  <2>1. UNCHANGED <<role, sentOn, rows, calls>> /\ Head(ticks).do = "next" /\ ticks # <<>>
    BY <1>7 DEF TryNextHost, RunsTick, queueVars
  <2>2. CASE todo = <<>>
    <3>1. UNCHANGED <<conn, host>>
      BY <1>7, <2>2 DEF TryNextHost
    <3> QED BY <2>1, <3>1, SameRoles
  <2>3. CASE todo # <<>>
    <3>1. NextIn(ticks)
      BY <1>0, <2>1, RestHas DEF Typed, RestTyped
    <3>2. ~provided
      BY <3>1 DEF ConnectInv, OneNext
    <3>3. calls # 0
      BY <3>1 DEF ConnectInv, Trying, Hopeful
    <3>4. conn' = conn + 1
      BY <1>7, <2>3, <3>2 DEF TryNextHost, TriesHost, Starts
    <3> QED BY <1>0, <2>1, <3>3, <3>4, StartsRoles
  <2> QED BY <2>2, <2>3
<1>8. CASE Refuse \/ FailQuery
  <2>1. UNCHANGED <<conn, host, role, sentOn, rows, calls>>
    BY <1>8 DEF Refuse, FailQuery, Keeps, connVars, queueVars
  <2> QED BY <2>1, SameRoles
<1>9. CASE \/ \E what \in {"password", "sasl"} : AuthRequest(what)
           \/ AuthSASLContinue \/ AuthOk
           \/ \E w \in work : WorkDone(w)
  <2>1. UNCHANGED <<conn, host, role, sentOn, rows, calls>>
    BY <1>9 DEF AuthRequest, AuthSASLContinue, AuthOk, WorkDone, SameClient, queueVars
  <2> QED BY <2>1, SameRoles
<1>10. CASE (\E good \in BOOLEAN : AuthSASLFinal(good)) \/ (\E w \in work : WorkFails(w))
  <2>1. \A good : AuthSASLFinal(good) => SameClient \/ ConnectionFails
    BY DEF AuthSASLFinal
  <2>2. \A w : WorkFails(w) => ConnectionFails \/ (ErrorOnly /\ UNCHANGED queueVars)
    BY DEF WorkFails, queueVars
  <2>3. SameClient \/ ConnectionFails \/ (ErrorOnly /\ UNCHANGED queueVars)
    BY <1>10, <2>1, <2>2
  <2>4. UNCHANGED <<conn, host, role, sentOn, rows, calls>>
    BY <2>3 DEF SameClient, ConnectionFails, ErrorOnly, HandleErrorEvent, queueVars
  <2> QED BY <2>4, SameRoles
<1>11. CASE ErrorMessage
  <2>1. UNCHANGED <<conn, host, role, sentOn, rows, calls>>
    BY <1>11 DEF ErrorMessage, HandleErrorEvent, queueVars
  <2> QED BY <2>1, SameRoles
<1>12. CASE ProtocolFallback
  <2>1. conn' = conn + 1 /\ UNCHANGED <<sentOn, rows, calls>> /\ sock \in Up
    BY <1>12 DEF ProtocolFallback, FallsBack, Starts, queueVars, Message, Up
  <2>2. calls # 0
    BY <2>1 DEF ConnectInv, Trying, Up
  <2> QED BY <1>0, <2>1, <2>2, StartsRoles
<1>13. CASE ProbeRow
  <2>1. /\ UNCHANGED <<conn, host, role, sentOn, calls>> /\ sock \in Up
        /\ rows' = rows \/ rows' = role[host]
    BY <1>13 DEF ProbeRow, Message, Up, restVars
  <2>2. calls # 0
    BY <2>1 DEF ConnectInv, Trying, Up
  <2> QED BY <2>1, <2>2 DEF RolesKnown
<1>14. CASE CommandComplete
  <2>1. UNCHANGED <<conn, host, role, sentOn, rows, calls>>
    BY <1>14 DEF CommandComplete, queueVars
  <2> QED BY <2>1, SameRoles
<1>15. CASE ReadyProbes \/ ReadyConnects \/ ReadyGoesOn \/ ReadyAfterProbe
  <2>1. UNCHANGED <<role, host, calls>>
    BY <1>15 DEF ReadyProbes, ReadyConnects, ReadyGoesOn, ReadyAfterProbe, RoleKnown, SameAtReady
  <2>2. \E que, up, st : Pulses(que, up, st)
    BY <1>15 DEF ReadyProbes, ReadyConnects, ReadyGoesOn, ReadyAfterProbe, RoleKnown
  <2> QED BY <1>0, <2>1, <2>2, PulsesRoles
<1>16. CASE ProbeTimesOut \/ ReadySkips
  <2>1. UNCHANGED <<conn, host, role, sentOn, rows, calls>>
    BY <1>16 DEF ProbeTimesOut, ReadySkips, SameAtReady, queueVars
  <2> QED BY <2>1, SameRoles
<1>17. CASE UNCHANGED vars
  <2>1. UNCHANGED <<conn, host, role, sentOn, rows, calls>>
    BY <1>17 DEF vars, connVars, queueVars, restVars
  <2> QED BY <2>1, SameRoles
<1> QED
  BY <1>2, <1>3, <1>4, <1>5, <1>6, <1>7, <1>8, <1>9, <1>10, <1>11, <1>12, <1>13, <1>14, <1>15,
     <1>16, <1>17 DEF Next

\* Only two steps make the client connected.
LEMMA WhoConnects ==
    ASSUME ConnectInv, Next, ~connected, connected'
    PROVE  ReadyConnects \/ (rows # NoRole /\ Acceptable(rows))
<1> USE DEF configVars
<1>1. ASSUME NEW order, NEW balances, ConnectTo(order, balances) PROVE FALSE
  BY <1>1 DEF ConnectTo
<1>2. CASE Connect
  BY <1>1, <1>2 DEF Connect
<1>3. CASE ConnectAgain \/ Ask \/ End \/ ConnectionTimeout \/ Connected
  BY <1>3 DEF ConnectAgain, Ask, Asks, End, ConnectionTimeout, TimesOut, Connected, phaseVars
<1>4. ASSUME Fails \/ GivesUp PROVE FALSE
  BY <1>4 DEF Fails, GivesUp, phaseVars
<1>5. ASSUME NEW tk, SkipsHost(tk) PROVE FALSE
  BY <1>4, <1>5 DEF SkipsHost
<1>6. ASSUME HandleErrorEvent PROVE FALSE
  BY <1>4, <1>6 DEF HandleErrorEvent, phaseVars
<1>7. CASE SocketError
  BY <1>6, <1>7 DEF SocketError
<1>8. CASE SocketClosed
  <2>1. \/ LeavesHost(~skip) \/ EndsClient
    BY <1>8 DEF SocketClosed
  <2>2. CASE LeavesHost(~skip)
    BY <1>4, <2>2 DEF LeavesHost, phaseVars
  <2>3. CASE EndsClient
    BY <2>3 DEF EndsClient
  <2> QED BY <2>1, <2>2, <2>3
<1>9. CASE TryNextHost
  BY <1>4, <1>9 DEF TryNextHost
<1>10. CASE Refuse
  BY <1>10 DEF Refuse, phaseVars
<1>11. CASE FailQuery
  <2>1. SkipsHost(Tail(ticks)) \/ UNCHANGED phaseVars
    BY <1>11 DEF FailQuery
  <2> QED BY <1>5, <2>1 DEF phaseVars
<1>12. CASE \/ \E what \in {"password", "sasl"} : AuthRequest(what)
            \/ AuthSASLContinue \/ AuthOk \/ \E w \in work : WorkDone(w)
  BY <1>12 DEF AuthRequest, AuthSASLContinue, AuthOk, WorkDone, SameClient, phaseVars
<1>13. CASE (\E good \in BOOLEAN : AuthSASLFinal(good)) \/ (\E w \in work : WorkFails(w))
  <2>1. \/ SameClient \/ ConnectionFails \/ UNCHANGED phaseVars
    BY <1>13 DEF AuthSASLFinal, WorkFails
  <2> QED BY <1>6, <2>1 DEF SameClient, ConnectionFails, phaseVars
<1>14. CASE ErrorMessage
  <2>1. HandleErrorEvent \/ UNCHANGED phaseVars
    BY <1>14 DEF ErrorMessage
  <2> QED BY <1>6, <2>1 DEF phaseVars
<1>15. CASE ProtocolFallback \/ ProbeRow \/ CommandComplete
  BY <1>15 DEF ProtocolFallback, FallsBack, ProbeRow, CommandComplete, phaseVars
<1>16. CASE ReadyProbes \/ ReadyGoesOn
  BY <1>16 DEF ReadyProbes, ReadyGoesOn, phaseVars
<1>17. CASE ReadyAfterProbe
  BY <1>5, <1>17 DEF ReadyAfterProbe, RoleKnown
<1>18. CASE ProbeTimesOut \/ ReadySkips
  BY <1>5, <1>18 DEF ProbeTimesOut, ReadySkips
<1>19. CASE ReadyConnects
  BY <1>19
<1>20. \/ Connect \/ ConnectAgain \/ Ask \/ End \/ ConnectionTimeout \/ Connected
       \/ SocketError \/ SocketClosed \/ TryNextHost \/ Refuse \/ FailQuery
       \/ \E what \in {"password", "sasl"} : AuthRequest(what)
       \/ AuthSASLContinue \/ AuthOk \/ (\E good \in BOOLEAN : AuthSASLFinal(good))
       \/ (\E w \in work : WorkDone(w)) \/ (\E w \in work : WorkFails(w))
       \/ ErrorMessage \/ ProtocolFallback \/ ProbeRow \/ CommandComplete
       \/ ReadyProbes \/ ReadySkips \/ ReadyConnects \/ ReadyGoesOn \/ ReadyAfterProbe
       \/ ProbeTimesOut
  BY DEF Next
<1> QED
  BY <1>2, <1>3, <1>7, <1>8, <1>9, <1>10, <1>11, <1>12, <1>13, <1>14, <1>15, <1>16, <1>17, <1>18,
     <1>19, <1>20

\* A step that makes the client connected is taken on a host of the role the program
\* asked for, unless the probe was sent over an earlier connection (client.js,
\* _runRoleProbe and _isRoleAcceptable).
THEOREM RoleIsAcceptable == Spec => ConnectsToRole
<1> DEFINE IInv == ConnectInv /\ RolesKnown
           Step == ~connected /\ connected' => Acceptable(role[host]) \/ sentOn # conn
<1>1. Init => IInv
  BY ConnectInvInit, RolesInit
<1>2. IInv /\ [Next]_vars => IInv'
  BY ConnectInvStep, RolesStep
<1>3. IInv /\ [Next]_vars => [Step]_vars
  <2> SUFFICES ASSUME IInv, Next, ~connected, connected', sentOn = conn
               PROVE  Acceptable(role[host])
    OBVIOUS
  <2>1. CASE ReadyConnects
    BY <2>1 DEF ReadyConnects, Acceptable
  <2>2. CASE rows # NoRole /\ Acceptable(rows)
    BY <2>2 DEF RolesKnown
  <2> QED BY <2>1, <2>2, WhoConnects
<1> QED BY <1>1, <1>2, <1>3, PTL DEF Spec, ConnectsToRole

-----------------------------------------------------------------------------
\* The hosts that are tried.

\* x is an element of the sequence s.
Has(s, x) == \E i \in 1..Len(s) : s[i] = x

\* A set of naturals has a least element.
LEMMA LeastOf == ASSUME NEW S \in SUBSET Nat, S # {} PROVE \E m \in S : \A n \in S : m <= n
<1>1. PICK m \in S : \A n \in S : ~(<<n, m>> \in OpToRel(<, Nat))
  BY NatLessThanWellFounded, WFMin
<1>2. \A n \in S : ~(n < m)
  BY <1>1 DEF OpToRel
<1> QED BY <1>2

\* What has been kept of s after each of its first n elements.
Keeping(s, S, n, f) ==
    \A i \in 0..n : f[i] = IF i = 0 THEN <<>>
                           ELSE IF s[i] \in S THEN Append(f[i - 1], s[i]) ELSE f[i - 1]

LEMMA SomeKeeping ==
    ASSUME NEW T, NEW s \in Seq(T), NEW S
    PROVE  \E f \in [0..Len(s) -> Seq(T)] : Keeping(s, S, Len(s), f)
<1> DEFINE Bad == {m \in 0..Len(s) : ~\E f \in [0..m -> Seq(T)] : Keeping(s, S, m, f)}
<1>0. Len(s) \in Nat /\ \A i \in 1..Len(s) : s[i] \in T
  BY LenProperties, ElementOfSeq
<1>1. SUFFICES Bad = {}
  BY <1>0
<1>2. SUFFICES ASSUME Bad # {} PROVE FALSE
  OBVIOUS
<1>3. PICK m \in Bad : \A n \in Bad : m <= n
  <2>1. Bad \in SUBSET Nat
    BY <1>0
  <2> HIDE DEF Bad
  <2> QED BY <1>2, <2>1, LeastOf
<1>4. m \in 0..Len(s) /\ ~\E f \in [0..m -> Seq(T)] : Keeping(s, S, m, f)
  OBVIOUS
<1>5. m # 0
  <2> DEFINE e == [i \in 0..0 |-> <<>>]
  <2>1. e \in [0..0 -> Seq(T)]
    BY EmptySeq
  <2>2. Keeping(s, S, 0, e)
    BY DEF Keeping
  <2> QED BY <1>4, <2>1, <2>2
<1>6. m \in 1..Len(s) /\ m - 1 \in 0..Len(s) /\ m - 1 \notin Bad
  <2>1. m \in 1..Len(s) /\ m - 1 \in 0..Len(s) /\ ~(m <= m - 1)
    BY <1>0, <1>4, <1>5
  <2> HIDE DEF Bad
  <2> QED BY <1>3, <2>1
<1>7. PICK f \in [0..(m - 1) -> Seq(T)] : Keeping(s, S, m - 1, f)
  BY <1>6
<1> DEFINE last == IF s[m] \in S THEN Append(f[m - 1], s[m]) ELSE f[m - 1]
           g == [i \in 0..m |-> IF i = m THEN last ELSE f[i]]
<1>8. g \in [0..m -> Seq(T)]
  <2>1. f[m - 1] \in Seq(T) /\ s[m] \in T
    BY <1>0, <1>6, <1>7
  <2>2. last \in Seq(T)
    BY <2>1, AppendProperties
  <2>3. \A i \in 0..m : i # m => i \in 0..(m - 1)
    BY <1>0, <1>4
  <2> HIDE DEF last
  <2> QED BY <1>7, <2>2, <2>3
<1>9. Keeping(s, S, m, g)
  <2> SUFFICES ASSUME NEW i \in 0..m
               PROVE  g[i] = IF i = 0 THEN <<>>
                             ELSE IF s[i] \in S THEN Append(g[i - 1], s[i]) ELSE g[i - 1]
    BY DEF Keeping
  <2>1. CASE i = m
    <3>1. m - 1 \in 0..m /\ m - 1 # m
      BY <1>6
    <3>2. g[m] = last /\ g[m - 1] = f[m - 1]
      BY <1>6, <3>1
    <3> HIDE DEF g
    <3> QED BY <1>5, <2>1, <3>2
  <2>2. CASE i # m
    <3>1. i \in 0..(m - 1) /\ (i # 0 => i - 1 \in 0..m /\ i - 1 # m)
      BY <1>6, <2>2
    <3>2. f[i] = IF i = 0 THEN <<>>
                 ELSE IF s[i] \in S THEN Append(f[i - 1], s[i]) ELSE f[i - 1]
      BY <1>7, <3>1 DEF Keeping
    <3>3. g[i] = f[i] /\ (i # 0 => g[i - 1] = f[i - 1])
      BY <2>2, <3>1
    <3> HIDE DEF g
    <3> QED BY <3>2, <3>3
  <2> QED BY <2>1, <2>2
<1> QED BY <1>4, <1>8, <1>9

\* What Only keeps are the elements of the sequence that are in the set.
LEMMA OnlyIs ==
    ASSUME NEW T, NEW s \in Seq(T), NEW S
    PROVE  /\ Only(s, S) \in Seq(T) /\ Len(Only(s, S)) <= Len(s)
           /\ \A x : Has(Only(s, S), x) <=> x \in S /\ Has(s, x)
<1> DEFINE Yields(f) == f = [i \in 0..Len(s) |->
                        IF i = 0 THEN <<>>
                        ELSE IF s[i] \in S THEN Append(f[i - 1], s[i]) ELSE f[i - 1]]
           only == CHOOSE f : Yields(f)
<1>0. Len(s) \in Nat /\ \A i \in 1..Len(s) : s[i] \in T
  BY LenProperties, ElementOfSeq
<1>1. Only(s, S) = only[Len(s)]
  BY DEF Only
<1>2. Yields(only)
  <2>1. PICK f \in [0..Len(s) -> Seq(T)] : Keeping(s, S, Len(s), f)
    BY SomeKeeping
  <2>2. Yields(f)
    <3>1. f = [i \in 0..Len(s) |-> f[i]]
      OBVIOUS
    <3> QED BY <2>1, <3>1 DEF Keeping
  <2> HIDE DEF Yields
  <2> QED BY <2>2
<1> HIDE DEF only
<1>3. only[0] = <<>>
  BY <1>0, <1>2
<1>4. ASSUME NEW i \in 1..Len(s)
      PROVE  only[i] = IF s[i] \in S THEN Append(only[i - 1], s[i]) ELSE only[i - 1]
  <2>1. i \in 0..Len(s) /\ i # 0
    BY <1>0
  <2> QED BY <1>2, <2>1
<1> DEFINE Good(n) == /\ only[n] \in Seq(T) /\ Len(only[n]) <= n
                      /\ \A x : Has(only[n], x) <=> x \in S /\ \E i \in 1..n : s[i] = x
           Bad == {n \in 0..Len(s) : ~Good(n)}
<1>5. Good(0)
  BY <1>3, EmptySeq DEF Has
<1>6. Bad = {}
  <2>1. SUFFICES ASSUME Bad # {} PROVE FALSE
    OBVIOUS
  <2>2. PICK m \in Bad : \A n \in Bad : m <= n
    <3>1. Bad \in SUBSET Nat
      BY <1>0
    <3> HIDE DEF Bad
    <3> QED BY <2>1, <3>1, LeastOf
  <2>3. m # 0 /\ m \in 0..Len(s) /\ ~Good(m)
    BY <1>5, <2>2
  <2>4. m \in 1..Len(s) /\ m - 1 \in 0..Len(s) /\ ~(m <= m - 1)
    BY <1>0, <2>3
  <2>5. Good(m - 1)
    BY <2>2, <2>4
  <2> HIDE DEF Good
  <2>6. PICK o : o = only[m - 1]
    OBVIOUS
  <2>7. /\ o \in Seq(T) /\ Len(o) <= m - 1
        /\ \A x : Has(o, x) <=> x \in S /\ \E i \in 1..(m - 1) : s[i] = x
    BY <2>5, <2>6 DEF Good
  <2>8. s[m] \in T /\ 1..m = 1..(m - 1) \cup {m}
    BY <1>0, <2>4
  <2>9. CASE s[m] \notin S
    <3>1. only[m] = o
      BY <1>4, <2>4, <2>6, <2>9
    <3>2. \A x : (x \in S /\ \E i \in 1..m : s[i] = x)
                 <=> (x \in S /\ \E i \in 1..(m - 1) : s[i] = x)
      BY <2>8, <2>9, Zenon
    <3>3. Len(o) <= m
      BY <2>4, <2>7, LenProperties
    <3> QED BY <2>3, <2>7, <3>1, <3>2, <3>3 DEF Good
  <2>10. CASE s[m] \in S
    <3>1. only[m] = Append(o, s[m])
      BY <1>4, <2>4, <2>6, <2>10
    <3>2. /\ Append(o, s[m]) \in Seq(T) /\ Len(Append(o, s[m])) = Len(o) + 1 /\ Len(o) \in Nat
          /\ \A i \in 1..Len(o) : Append(o, s[m])[i] = o[i]
          /\ Append(o, s[m])[Len(o) + 1] = s[m]
      BY <2>7, <2>8, OneMore
    <3>3. \A x : Has(Append(o, s[m]), x) <=> Has(o, x) \/ x = s[m]
      <4>1. 1..(Len(o) + 1) = 1..Len(o) \cup {Len(o) + 1}
        BY <3>2
      <4> QED BY <3>2, <4>1, Zenon DEF Has
    <3>4. \A x : (x \in S /\ \E i \in 1..m : s[i] = x)
                 <=> (x \in S /\ \E i \in 1..(m - 1) : s[i] = x) \/ x = s[m]
      BY <2>8, <2>10, Zenon
    <3>5. \A x : Has(only[m], x) <=> x \in S /\ \E i \in 1..m : s[i] = x
      BY <2>7, <3>1, <3>3, <3>4, Zenon
    <3>6. Len(Append(o, s[m])) <= m
      BY <2>4, <2>7, <3>2
    <3> QED BY <2>3, <3>1, <3>2, <3>5, <3>6 DEF Good
  <2> QED BY <2>9, <2>10
<1>7. Good(Len(s))
  <2>1. Len(s) \in 0..Len(s)
    BY <1>0
  <2> HIDE DEF Good
  <2> QED BY <1>6, <2>1
<1> QED BY <1>1, <1>7 DEF Has

\* slice(index).concat(slice(0, index)) has the same elements.
LEMMA RoundRobinHas ==
    ASSUME NEW T, NEW s \in Seq(T), s # <<>>, counter \in Nat
    PROVE  /\ RoundRobin(s) \in Seq(T) /\ Len(RoundRobin(s)) = Len(s) /\ Len(s) # 0
           /\ \A x : Has(RoundRobin(s), x) <=> Has(s, x)
<1>1. PICK n \in Nat \ {0} : n = Len(s)
  BY LenProperties, EmptySeq
<1>2. PICK k \in 0..(n - 1) : k = counter % Len(s)
  <2>1. counter % n \in 0..(n - 1)
    BY <1>1
  <2> QED BY <1>1, <2>1
<1>3. \A i \in 1..n : s[i] \in T
  BY <1>1, ElementOfSeq
<1> DEFINE a == SubSeq(s, k + 1, n)
           b == SubSeq(s, 1, k)
<1>4. a \in Seq(T) /\ Len(a) = n - k /\ \A i \in 1..(n - k) : a[i] = s[k + i]
  <2>1. /\ a \in Seq(T) /\ Len(a) = IF k + 1 <= n THEN n - (k + 1) + 1 ELSE 0
        /\ \A i \in 1..(n - (k + 1) + 1) : a[i] = s[(k + 1) + i - 1]
    BY <1>1, <1>3, SubSeqProperties
  <2> HIDE DEF a
  <2>2. n - (k + 1) + 1 = n - k /\ k + 1 <= n
    OBVIOUS
  <2>3. \A i \in 1..(n - k) : (k + 1) + i - 1 = k + i
    OBVIOUS
  <2> QED BY <2>1, <2>2, <2>3
<1>5. b \in Seq(T) /\ Len(b) = k /\ \A i \in 1..k : b[i] = s[i]
  <2>1. /\ b \in Seq(T) /\ Len(b) = IF 1 <= k THEN k - 1 + 1 ELSE 0
        /\ \A i \in 1..(k - 1 + 1) : b[i] = s[1 + i - 1]
    BY <1>1, <1>3, SubSeqProperties
  <2> HIDE DEF b
  <2>2. k - 1 + 1 = k /\ (IF 1 <= k THEN k - 1 + 1 ELSE 0) = k
    OBVIOUS
  <2>3. \A i \in 1..k : 1 + i - 1 = i
    OBVIOUS
  <2> QED BY <2>1, <2>2, <2>3
<1>6. RoundRobin(s) = a \o b
  BY <1>1, <1>2 DEF RoundRobin
<1> HIDE DEF a, b
<1>7. /\ a \o b \in Seq(T) /\ Len(a \o b) = n
      /\ \A i \in 1..n : (a \o b)[i] = IF i <= n - k THEN a[i] ELSE b[i - (n - k)]
  <2>1. /\ a \o b \in Seq(T) /\ Len(a \o b) = Len(a) + Len(b)
        /\ \A i \in 1..Len(a) + Len(b) :
              (a \o b)[i] = IF i <= Len(a) THEN a[i] ELSE b[i - Len(a)]
    BY <1>4, <1>5, ConcatProperties
  <2>2. Len(a) + Len(b) = n
    BY <1>4, <1>5
  <2> QED BY <1>4, <2>1, <2>2
<1>8. PICK c : c = a \o b
  OBVIOUS
<1>9. \A i \in 1..n : \E j \in 1..n : c[i] = s[j]
  <2> TAKE i \in 1..n
  <2>1. CASE i <= n - k
    <3>1. i \in 1..(n - k) /\ k + i \in 1..n
      BY <2>1
    <3> QED BY <1>4, <1>7, <1>8, <2>1, <3>1
  <2>2. CASE ~(i <= n - k)
    <3>1. i - (n - k) \in 1..k /\ i - (n - k) \in 1..n
      BY <2>2
    <3> QED BY <1>5, <1>7, <1>8, <2>2, <3>1
  <2> QED BY <2>1, <2>2
<1>10. \A j \in 1..n : \E i \in 1..n : c[i] = s[j]
  <2> TAKE j \in 1..n
  <2>1. CASE j <= k
    <3>1. j \in 1..k /\ j + (n - k) \in 1..n /\ ~(j + (n - k) <= n - k)
          /\ (j + (n - k)) - (n - k) = j
      BY <2>1
    <3> QED BY <1>5, <1>7, <1>8, <3>1
  <2>2. CASE ~(j <= k)
    <3>1. j - k \in 1..(n - k) /\ j - k \in 1..n /\ k + (j - k) = j /\ j - k <= n - k
      BY <2>2
    <3> QED BY <1>4, <1>7, <1>8, <3>1
  <2> QED BY <2>1, <2>2
<1>11. \A x : Has(c, x) <=> Has(s, x)
  <2>1. Len(c) = n /\ Len(s) = n
    BY <1>1, <1>7, <1>8
  <2> QED BY <1>9, <1>10, <2>1 DEF Has
<1> QED BY <1>1, <1>6, <1>7, <1>8, <1>11

\* A shuffled sequence has the same elements: as many places as there were.
LEMMA ShufflesHave ==
    ASSUME NEW T, NEW s \in Seq(T), s # <<>>, NEW o \in Shuffles(s)
    PROVE  /\ o \in Seq(T) /\ Len(o) = Len(s) /\ Len(s) # 0
           /\ \A x : Has(o, x) <=> Has(s, x)
<1>1. PICK n \in Nat \ {0} : n = Len(s)
  BY LenProperties, EmptySeq
<1>2. s \in [1..n -> T]
  BY <1>1, LenProperties
<1>3. PICK R : R = {s[i] : i \in 1..n}
  OBVIOUS
<1>4. o \in [1..n -> R] /\ \A i, j \in 1..n : o[i] = o[j] => i = j
  BY <1>1, <1>3 DEF Shuffles, IsInjective
<1>5. R \subseteq T
  BY <1>2, <1>3
<1>6. o \in Seq(T) /\ Len(o) = n
  <2>1. o \in [1..n -> T]
    BY <1>4, <1>5
  <2>2. o \in Seq(T)
    BY <2>1, IsASeq
  <2>3. DOMAIN o = 1..n
    BY <1>4
  <2>4. Len(o) = n
    BY <1>1, <2>2, <2>3, LenProperties
  <2> QED BY <2>2, <2>4
<1>7. o \in Injection(1..n, R) /\ s \in Surjection(1..n, R)
  BY <1>2, <1>3, <1>4 DEF Injection, Surjection, IsInjective
<1>8. IsFiniteSet(1..n) /\ Cardinality(1..n) = n
  BY FS_Interval
<1>9. IsFiniteSet(R) /\ Cardinality(R) <= n /\ Cardinality(R) \in Nat
  <2>1. IsFiniteSet(R) /\ Cardinality(R) <= Cardinality(1..n)
    BY <1>7, <1>8, FS_Surjection
  <2> QED BY <1>8, <2>1, FS_CardinalityType
<1>10. n <= Cardinality(R) /\ (n = Cardinality(R) <=> o \in Surjection(1..n, R))
  BY <1>7, <1>8, <1>9, FS_Injection
<1>11. o \in Surjection(1..n, R)
  BY <1>9, <1>10
<1>12. \A x : Has(o, x) <=> x \in R
  BY <1>6, <1>11, <1>4 DEF Surjection, Has
<1>13. \A x : Has(s, x) <=> x \in R
  BY <1>1, <1>3 DEF Has
<1> QED BY <1>1, <1>6, <1>12, <1>13

LEMMA SomeHas ==
    ASSUME NEW T, NEW s \in Seq(T)
    PROVE  s = <<>> <=> \A x : ~Has(s, x)
<1>1. CASE s = <<>>
  BY <1>1, EmptySeq DEF Has
<1>2. CASE s # <<>>
  <2>1. Len(s) \in Nat \ {0}
    BY <1>2, EmptySeq
  <2>2. 1 \in 1..Len(s)
    BY <2>1
  <2>3. Has(s, s[1])
    BY <2>2 DEF Has
  <2> QED BY <1>2, <2>3
<1> QED BY <1>1, <1>2

LEMMA HostsHas == Hosts \in Seq(Host) /\ Hosts # <<>> /\ \A x : Has(Hosts, x) <=> x \in Host
BY HostsAssumption DEF Has, Host

\* No candidate: every host is known to be down or of another role.  A candidate:
\* every host that nothing is known of is one, unless they are the known slaves.
LEMMA CandidatesAre ==
    /\ Candidates(target) \in Seq(Host) /\ Len(Candidates(target)) <= Len(Hosts)
    /\ Candidates(target) = <<>> =>
          \A h \in Host : ~Unknown(h) /\ status[h] \notin Suiting(target) \cup {"CONNECT_OK"}
    /\ \/ \A h \in Host : Unknown(h) => Has(Candidates(target), h)
       \/ /\ target = "preferSlave"
          /\ \A h : Has(Candidates(target), h) => KnownSlave(h)
<1> DEFINE fits == {h \in Host : IsHostSuitable(h, target)}
           probed == {h \in Host : IsHostProbingCandidate(h)}
           known == {h \in Host : KnownSlave(h)}
           suitable == Only(Hosts, fits)
           slaves == Only(suitable, known)
           probing == Only(Hosts, probed)
<1>1. /\ suitable \in Seq(Host) /\ Len(suitable) <= Len(Hosts)
      /\ \A x : Has(suitable, x) <=> x \in fits
  <2> HIDE DEF fits
  <2>1. /\ suitable \in Seq(Host) /\ Len(suitable) <= Len(Hosts)
        /\ \A x : Has(suitable, x) <=> x \in fits /\ Has(Hosts, x)
    BY HostsHas, OnlyIs
  <2>2. fits \subseteq Host
    BY DEF fits
  <2> HIDE DEF suitable
  <2> QED BY <2>1, <2>2, HostsHas
<1>2. /\ probing \in Seq(Host) /\ Len(probing) <= Len(Hosts)
      /\ \A x : Has(probing, x) <=> x \in probed
  <2> HIDE DEF probed
  <2>1. /\ probing \in Seq(Host) /\ Len(probing) <= Len(Hosts)
        /\ \A x : Has(probing, x) <=> x \in probed /\ Has(Hosts, x)
    BY HostsHas, OnlyIs
  <2>2. probed \subseteq Host
    BY DEF probed
  <2> HIDE DEF probing
  <2> QED BY <2>1, <2>2, HostsHas
<1>3. /\ slaves \in Seq(Host) /\ Len(slaves) <= Len(Hosts)
      /\ \A x : Has(slaves, x) => KnownSlave(x)
  <2> HIDE DEF known, suitable
  <2>1. /\ slaves \in Seq(Host) /\ Len(slaves) <= Len(suitable)
        /\ \A x : Has(slaves, x) <=> x \in known /\ Has(suitable, x)
    BY <1>1, OnlyIs
  <2> HIDE DEF slaves
  <2>2. Len(slaves) \in Nat /\ Len(suitable) \in Nat /\ Len(Hosts) \in Nat
    BY <1>1, <2>1, LenProperties, HostsHas
  <2>3. Len(slaves) <= Len(Hosts)
    BY <1>1, <2>1, <2>2
  <2> QED BY <2>1, <2>3 DEF known
<1>4. GetCandidateHosts(target) =
         IF target = "preferSlave" /\ slaves # <<>> THEN slaves ELSE suitable
  BY DEF GetCandidateHosts
<1>5. Candidates(target) =
         IF GetCandidateHosts(target) # <<>> THEN GetCandidateHosts(target)
         ELSE IF target = "any" THEN Hosts ELSE probing
  BY DEF Candidates
<1>6. \A h \in Host : Unknown(h) => h \in fits /\ h \in probed
  BY DEF IsHostSuitable, IsHostProbingCandidate
<1>7. \A h \in Host : h \notin fits /\ h \notin probed =>
         ~Unknown(h) /\ status[h] \notin Suiting(target) \cup {"CONNECT_OK"}
  BY DEF IsHostSuitable, IsHostProbingCandidate
<1>8. suitable = <<>> => \A x : x \notin fits
  <2> HIDE DEF suitable, fits
  <2> QED BY <1>1, SomeHas
<1>9. probing = <<>> => \A x : x \notin probed
  <2> HIDE DEF probing, probed
  <2> QED BY <1>2, SomeHas
<1> HIDE DEF fits, probed, known, suitable, slaves, probing
<1>10. CASE target = "preferSlave" /\ slaves # <<>>
  <2>1. Candidates(target) = slaves
    BY <1>4, <1>5, <1>10
  <2> QED BY <1>3, <1>10, <2>1
<1>11. CASE ~(target = "preferSlave" /\ slaves # <<>>) /\ suitable # <<>>
  <2>1. Candidates(target) = suitable
    BY <1>4, <1>5, <1>11
  <2> QED BY <1>1, <1>6, <1>11, <2>1
<1>12. CASE /\ ~(target = "preferSlave" /\ slaves # <<>>)
            /\ suitable = <<>> /\ target = "any"
  <2>1. Candidates(target) = Hosts
    BY <1>4, <1>5, <1>12
  <2>2. Len(Hosts) <= Len(Hosts)
    BY HostsHas, LenProperties
  <2> QED BY <2>1, <2>2, HostsHas
<1>13. CASE /\ ~(target = "preferSlave" /\ slaves # <<>>)
            /\ suitable = <<>> /\ target # "any"
  <2>1. Candidates(target) = probing
    BY <1>4, <1>5, <1>13
  <2> QED BY <1>2, <1>6, <1>7, <1>8, <1>9, <1>13, <2>1
<1> QED BY <1>10, <1>11, <1>12, <1>13

\* The order in which the candidates are tried loses none and adds none.
LEMMA OrdersHave ==
    ASSUME counter \in Nat, NEW order \in Orders(target, mode)
    PROVE  /\ order \in Seq(Host) /\ (order = <<>> <=> Candidates(target) = <<>>)
           /\ Len(order) <= Len(Hosts)
           /\ \A x : Has(order, x) <=> Has(Candidates(target), x)
<1>1. PICK hosts : /\ hosts = Candidates(target) /\ hosts \in Seq(Host)
                   /\ Len(hosts) <= Len(Hosts)
  BY CandidatesAre
<1>2. order \in IF hosts = <<>> THEN {hosts}
                ELSE IF mode = "roundrobin" THEN {RoundRobin(hosts)} ELSE Shuffles(hosts)
  BY <1>1 DEF Orders
<1>3. CASE hosts = <<>>
  BY <1>1, <1>2, <1>3
<1>4. CASE hosts # <<>> /\ mode = "roundrobin"
  <2>1. order = RoundRobin(hosts)
    BY <1>2, <1>4
  <2>2. /\ order \in Seq(Host) /\ Len(order) = Len(hosts) /\ Len(hosts) # 0
        /\ \A x : Has(order, x) <=> Has(hosts, x)
    BY <1>1, <1>4, <2>1, RoundRobinHas
  <2>3. order # <<>>
    BY <2>2, EmptySeq
  <2> QED BY <1>1, <1>4, <2>2, <2>3
<1>5. CASE hosts # <<>> /\ mode # "roundrobin"
  <2>1. order \in Shuffles(hosts)
    BY <1>2, <1>5
  <2>2. /\ order \in Seq(Host) /\ Len(order) = Len(hosts) /\ Len(hosts) # 0
        /\ \A x : Has(order, x) <=> Has(hosts, x)
    BY <1>1, <1>5, <2>1, ShufflesHave
  <2>3. order # <<>>
    BY <2>2, EmptySeq
  <2> QED BY <1>1, <1>5, <2>2, <2>3
<1> QED BY <1>3, <1>4, <1>5

\* Before connect is called no host is the active one.
Unhosted == counter \in Nat /\ (calls = 0 => host = NoHost)

LEMMA UnhostedInit == ASSUME Init PROVE Unhosted
BY CycleAssumption DEF Init, Unhosted

\* Only the first call of connect counts for the round robin and sets the first host.
LEMMA WhoCalls ==
    ASSUME ConnectInv, [Next]_vars, ~Connect
    PROVE  /\ counter' = counter
           /\ IF calls = 0 THEN calls' = 0 /\ host' = host ELSE calls' # 0
<1> USE DEF configVars
<1>0. Typed
  BY DEF ConnectInv
<1> DEFINE Stays == /\ counter' = counter
                    /\ IF calls = 0 THEN calls' = 0 /\ host' = host ELSE calls' # 0
<1>1. SUFFICES Stays
  OBVIOUS
<1>2. ASSUME UNCHANGED <<counter, calls, host>> PROVE Stays
  BY <1>2
<1>3. \A h, s : Records(h, s) => counter' = counter
  BY DEF Records
<1>4. CASE ConnectAgain
  <2>1. calls # 0 /\ calls' # 0 /\ counter' = counter
    BY <1>0, <1>4 DEF ConnectAgain, hostVars, Typed, CallTyped
  <2> QED BY <2>1
<1>5. CASE Ask
  BY <1>2, <1>5 DEF Ask, Asks, hostVars
<1>6. CASE End \/ ConnectionTimeout \/ Connected
  <2>1. UNCHANGED <<counter, calls, host>>
    BY <1>6 DEF End, ConnectionTimeout, TimesOut, Connected, restVars, hostVars
  <2> QED BY <1>2, <2>1
<1>7. CASE SocketError
  BY <1>2, <1>7 DEF SocketError, hostVars
<1>8. CASE SocketClosed
  <2>1. UNCHANGED <<calls, host>> /\ (LeavesHost(~skip) \/ EndsClient)
    BY <1>8 DEF SocketClosed
  <2>2. LeavesHost(~skip) => counter' = counter
    BY <1>3 DEF LeavesHost, hostVars
  <2>3. EndsClient => counter' = counter
    BY DEF EndsClient, hostVars
  <2> QED BY <1>2, <2>1, <2>2, <2>3
<1>9. CASE TryNextHost
  <2>1. counter' = counter /\ calls' = calls /\ Head(ticks).do = "next" /\ ticks # <<>>
    BY <1>9 DEF TryNextHost, RunsTick, hostVars
  <2>2. NextIn(ticks)
    BY <1>0, <2>1, RestHas DEF Typed, RestTyped
  <2>3. calls # 0
    BY <2>2 DEF ConnectInv, Trying, Hopeful
  <2> QED BY <2>1, <2>3
<1>10. CASE Refuse \/ FailQuery
  <2>1. UNCHANGED <<counter, calls, host>>
    BY <1>10 DEF Refuse, FailQuery, hostVars
  <2> QED BY <1>2, <2>1
<1>11. CASE \/ \E what \in {"password", "sasl"} : AuthRequest(what)
            \/ AuthSASLContinue \/ AuthOk
            \/ \E w \in work : WorkDone(w)
  <2>1. UNCHANGED <<counter, calls, host>>
    BY <1>11 DEF AuthRequest, AuthSASLContinue, AuthOk, WorkDone, SameClient, hostVars
  <2> QED BY <1>2, <2>1
<1>12. CASE (\E good \in BOOLEAN : AuthSASLFinal(good)) \/ (\E w \in work : WorkFails(w))
  <2>1. SameClient \/ ErrorOnly
    BY <1>12 DEF AuthSASLFinal, WorkFails, ConnectionFails
  <2>2. UNCHANGED <<counter, calls, host>>
    BY <2>1 DEF SameClient, ErrorOnly, hostVars
  <2> QED BY <1>2, <2>2
<1>13. CASE ErrorMessage \/ ProtocolFallback \/ CommandComplete
  <2>1. UNCHANGED <<counter, calls, host>>
    BY <1>13 DEF ErrorMessage, ProtocolFallback, FallsBack, CommandComplete, hostVars
  <2> QED BY <1>2, <2>1
<1>14. CASE ProbeRow
  BY <1>2, <1>14 DEF ProbeRow, restVars, hostVars
<1>15. CASE ReadyProbes \/ ReadySkips \/ ReadyConnects \/ ReadyGoesOn \/ ReadyAfterProbe
  <2>1. UNCHANGED <<calls, host>>
    BY <1>15 DEF ReadyProbes, ReadySkips, ReadyConnects, ReadyGoesOn, ReadyAfterProbe, RoleKnown,
                 SameAtReady
  <2>2. (\E s : Records(host, s)) \/ UNCHANGED hostVars
    BY <1>15 DEF ReadyProbes, ReadySkips, ReadyConnects, ReadyGoesOn, ReadyAfterProbe, RoleKnown
  <2> QED BY <1>2, <1>3, <2>1, <2>2 DEF hostVars
<1>16. CASE ProbeTimesOut
  BY <1>2, <1>16 DEF ProbeTimesOut, SameAtReady, hostVars
<1>17. CASE UNCHANGED vars
  BY <1>2, <1>17 DEF vars, restVars, hostVars
<1> QED
  BY <1>4, <1>5, <1>6, <1>7, <1>8, <1>9, <1>10, <1>11, <1>12, <1>13, <1>14, <1>15, <1>16, <1>17
  DEF Next

LEMMA UnhostedStep ==
    ASSUME ConnectInv, Unhosted, [Next]_vars
    PROVE  Unhosted'
<1>1. CASE Connect
  <2>1. ASSUME NEW order, NEW balances, ConnectTo(order, balances) PROVE calls' = 1
    BY <2>1 DEF ConnectTo
  <2>2. calls' = 1
    BY <1>1, <2>1 DEF Connect
  <2>3. UNCHANGED hostVars \/ Counts(target, mode)
    BY <1>1 DEF Connect
  <2>4. counter' \in Nat
    <3>1. (counter + 1) % Cycle \in Nat
      BY CycleAssumption DEF Unhosted
    <3> QED BY <2>3, <3>1 DEF Counts, hostVars, Unhosted
  <2> QED BY <2>2, <2>4 DEF Unhosted
<1>2. CASE ~Connect
  BY <1>2, WhoCalls DEF Unhosted
<1> QED BY <1>1, <1>2

\* The first call of connect finds no host to try only if every host is known to
\* be down or of another role; otherwise it tries each host that nothing is known
\* of, in whatever order, unless a slave is preferred and known (getCandidateHosts,
\* _getCandidateHosts, _roundRobin, _shuffle and _connectWithLoadBalance).
THEOREM UnknownAreTried == Spec => TriesUnknown
<1> DEFINE IInv == ConnectInv /\ Unhosted
           First == calls = 0 /\ calls' = 1 /\ mode # "off"
           Tries ==
              IF host' = NoHost
              THEN \A h \in Host :
                      h \in fresh /\ status[h] \notin Suiting(target) \cup {"CONNECT_OK"}
              ELSE \A h \in Host : Unknown(h) =>
                      \/ h = host' \/ h \in ToSet(todo') \/ provided
                      \/ target = "preferSlave" /\ KnownSlave(host')
<1>1. Init => IInv
  BY ConnectInvInit, UnhostedInit
<1>2. IInv /\ [Next]_vars => IInv'
  BY ConnectInvStep, UnhostedStep
<1>3. IInv /\ [Next]_vars => [First => Tries]_vars
  <2> SUFFICES ASSUME IInv, Next, First PROVE Tries
    OBVIOUS
  <2>1. Connect
    BY WhoCalls
  <2>2. PICK order \in Orders(target, mode) : ConnectTo(order, TRUE)
    BY <2>1 DEF Connect
  <2>3. /\ order \in Seq(Host) /\ (order = <<>> <=> Candidates(target) = <<>>)
        /\ \A x : Has(order, x) <=> Has(Candidates(target), x)
    BY OrdersHave DEF Unhosted
  <2>4. CASE order = <<>>
    <3>1. host' = NoHost
      BY <2>2, <2>4 DEF ConnectTo, Unhosted
    <3>2. \A h \in Host : ~Unknown(h) /\ status[h] \notin Suiting(target) \cup {"CONNECT_OK"}
      BY <2>3, <2>4, CandidatesAre
    <3>3. \A h \in Host : h \in fresh
      BY <3>2 DEF Unknown
    <3> QED BY <3>1, <3>2, <3>3
  <2>5. CASE order # <<>>
    <3>1. /\ host' = Head(order) /\ (provided \/ todo' = Tail(order))
      BY <2>2, <2>5 DEF ConnectTo, TriesHost
    <3>2. /\ Head(order) = order[1] /\ Head(order) \in Host /\ Len(order) \in Nat \ {0}
          /\ Tail(order) \in Seq(Host) /\ Len(Tail(order)) = Len(order) - 1
          /\ \A i \in 1..Len(Tail(order)) : Tail(order)[i] = order[i + 1]
      BY <2>3, <2>5, RestOf
    <3>3. host' # NoHost
      BY <3>1, <3>2, ConnectAssumption
    <3>4. CASE target = "preferSlave" /\ \A h : Has(Candidates(target), h) => KnownSlave(h)
      <4>1. Has(order, Head(order))
        BY <3>2 DEF Has
      <4>2. KnownSlave(Head(order))
        BY <2>3, <3>4, <4>1
      <4>3. KnownSlave(host')
        BY <3>1, <4>2
      <4> QED BY <3>3, <3>4, <4>3
    <3>5. CASE \A h \in Host : Unknown(h) => Has(Candidates(target), h)
      <4>1. ASSUME NEW h \in Host, Unknown(h), ~provided PROVE h = host' \/ h \in ToSet(todo')
        <5>1. PICK i \in 1..Len(order) : order[i] = h
          BY <2>3, <3>5, <4>1 DEF Has
        <5>2. CASE i = 1
          BY <3>1, <3>2, <5>1, <5>2
        <5>3. CASE i # 1
          <6>1. i - 1 \in 1..Len(Tail(order)) /\ (i - 1) + 1 = i
            BY <3>2, <5>3
          <6>2. Tail(order)[i - 1] = h
            BY <3>2, <5>1, <6>1
          <6>3. DOMAIN Tail(order) = 1..Len(Tail(order))
            BY <3>2, LenProperties
          <6>4. h \in ToSet(Tail(order))
            BY <6>1, <6>2, <6>3 DEF ToSet
          <6>5. todo' = Tail(order)
            BY <3>1, <4>1
          <6> QED BY <6>4, <6>5
        <5> QED BY <5>2, <5>3
      <4> QED BY <3>3, <4>1
    <3> QED BY <3>4, <3>5, CandidatesAre
  <2> QED BY <2>4, <2>5
<1> QED BY <1>1, <1>2, <1>3, PTL DEF Spec, TriesUnknown

-----------------------------------------------------------------------------
\* Types: the hosts, and how many connections there are.

ConfigTyped == target \in Targets /\ mode \in Modes /\ role \in [Host -> Role]

FlagsTyped ==
    /\ ending \in BOOLEAN /\ queryable \in BOOLEAN /\ skip \in BOOLEAN
    /\ fallback \in BOOLEAN /\ endTold \in BOOLEAN

\* A client without a host, because connect was not called or found none, does not
\* connect.
Asleep == sock = "new" /\ ~connecting /\ ~handler
HostsTyped ==
    /\ HostTypeOK /\ todo \in Seq(Host) /\ host \in Host \cup {NoHost}
    /\ rows \in Role \cup {NoRole} /\ ran \in [Query -> SUBSET Host]
    /\ host = NoHost => Asleep

\* The connections there are and those that may still come; all that is known of
\* one is known of the last or of one before.
Numbered ==
    /\ conn + Len(todo) + (IF fallback THEN 0 ELSE 1) <= Len(Hosts) + 2
    /\ session \in 0..conn /\ sentOn \in 0..conn /\ endOn \in 0..conn
    /\ \A w \in work : w.con \in 1..conn
    /\ calls = 0 => conn = 1

Shaped == ConfigTyped /\ FlagsTyped /\ HostsTyped /\ Numbered

LEMMA ShapedInit == ASSUME Init PROVE Shaped
<1>1. ConfigTyped /\ FlagsTyped
  BY DEF Init, ConfigTyped, FlagsTyped
<1>2. HostsTyped
  <2>1. HostTypeOK
    <3>1. status \in [Host -> HostStatus \cup {NoEntry}]
      BY ConnectAssumption DEF Init
    <3>2. fresh \subseteq Host /\ counter \in 0..(Cycle - 1)
      BY DEF Init
    <3> QED BY <3>1, <3>2 DEF HostTypeOK
  <2>2. todo \in Seq(Host)
    BY EmptySeq DEF Init
  <2>3. ran \in [Query -> SUBSET Host]
    BY DEF Init
  <2> QED BY <2>1, <2>2, <2>3 DEF Init, HostsTyped, Asleep
<1>3. Numbered
  <2>1. Len(Hosts) \in Nat /\ Len(todo) = 0
    BY HostsHas, LenProperties, EmptySeq DEF Init
  <2> QED BY <2>1 DEF Init, Numbered, NoConn
<1> QED BY <1>1, <1>2, <1>3 DEF Shaped

LEMMA ConfigKept == ASSUME [Next]_vars PROVE UNCHANGED configVars
<1>1. CASE Connect
  BY <1>1 DEF Connect, ConnectTo
<1>2. CASE ConnectAgain \/ Ask \/ End \/ ConnectionTimeout \/ Connected
  BY <1>2 DEF ConnectAgain, Ask, Asks, End, ConnectionTimeout, TimesOut, Connected
<1>3. CASE SocketError \/ SocketClosed \/ TryNextHost \/ Refuse \/ FailQuery
  BY <1>3 DEF SocketError, SocketClosed, TryNextHost, Refuse, FailQuery
<1>4. CASE \/ \E what \in {"password", "sasl"} : AuthRequest(what)
           \/ AuthSASLContinue \/ AuthOk \/ (\E good \in BOOLEAN : AuthSASLFinal(good))
           \/ (\E w \in work : WorkDone(w) \/ WorkFails(w))
  <2>1. SameClient \/ ErrorOnly
    BY <1>4 DEF AuthRequest, AuthSASLContinue, AuthOk, AuthSASLFinal, WorkDone, WorkFails,
                ConnectionFails
  <2> QED BY <2>1 DEF SameClient, ErrorOnly
<1>5. CASE ErrorMessage \/ ProtocolFallback \/ ProbeRow \/ CommandComplete
  BY <1>5 DEF ErrorMessage, ProtocolFallback, FallsBack, ProbeRow, CommandComplete
<1>6. CASE \/ ReadyProbes \/ ReadySkips \/ ReadyConnects \/ ReadyGoesOn \/ ReadyAfterProbe
           \/ ProbeTimesOut
  BY <1>6 DEF ReadyProbes, ReadySkips, ReadyConnects, ReadyGoesOn, ReadyAfterProbe, RoleKnown, SameAtReady,
              ProbeTimesOut
<1>7. CASE UNCHANGED vars
  BY <1>7 DEF vars
<1> QED BY <1>1, <1>2, <1>3, <1>4, <1>5, <1>6, <1>7 DEF Next

\* The flags.
LEMMA FlagsStep ==
    ASSUME FlagsTyped, [Next]_vars
    PROVE  FlagsTyped'
<1> USE DEF connVars, endVars, restVars
<1>0. ASSUME ending' \in BOOLEAN, queryable' \in BOOLEAN, skip' \in BOOLEAN, fallback' \in BOOLEAN,
             endTold' \in BOOLEAN
      PROVE  FlagsTyped'
  BY <1>0 DEF FlagsTyped
<1>1. ASSUME UNCHANGED <<ending, queryable, skip, fallback, endTold>> PROVE FlagsTyped'
  BY <1>1 DEF FlagsTyped
<1>2. ASSUME HandleErrorEvent PROVE queryable' \in BOOLEAN
  BY <1>2 DEF HandleErrorEvent, FlagsTyped
<1>3. ASSUME NEW tk, SkipsHost(tk) PROVE skip' \in BOOLEAN
  <2>1. skip' = (~handler \/ connectionError)
    BY <1>3 DEF SkipsHost
  <2> QED BY <2>1, Zenon
<1>4. CASE Connect
  <2>1. ASSUME NEW order, NEW balances, ConnectTo(order, balances)
        PROVE  UNCHANGED <<ending, queryable, skip, fallback, endTold>>
    BY <2>1 DEF ConnectTo, TriesHost, Starts
  <2>2. UNCHANGED <<ending, queryable, skip, fallback, endTold>>
    BY <1>4, <2>1 DEF Connect
  <2> QED BY <2>2 DEF FlagsTyped
<1>5. CASE ConnectAgain
  BY <1>1, <1>5 DEF ConnectAgain
<1>6. CASE Ask
  <2>1. UNCHANGED <<ending, queryable, skip, fallback, endTold>>
    BY <1>6 DEF Ask, Asks, Pulses
  <2> QED BY <1>1, <2>1
<1>7. CASE End
  <2>1. UNCHANGED <<queryable, skip, fallback, endTold>> /\ ending' = TRUE
    BY <1>7 DEF End, Keeps
  <2> QED BY <2>1 DEF FlagsTyped
<1>8. CASE ConnectionTimeout \/ Connected
  <2>1. UNCHANGED <<ending, queryable, skip, fallback, endTold>>
    BY <1>8 DEF ConnectionTimeout, TimesOut, Connected, Keeps
  <2> QED BY <1>1, <2>1
<1>9. CASE SocketError
  <2>1. UNCHANGED <<ending, skip, fallback, endTold>>
    BY <1>9 DEF SocketError, Keeps
  <2>2. queryable' \in BOOLEAN
    BY <1>2, <1>9 DEF SocketError
  <2> QED BY <1>0, <2>1, <2>2 DEF FlagsTyped
<1>10. CASE SocketClosed
  <2>1. UNCHANGED <<ending, fallback>> /\ endTold' = (endTold \/ endOn = conn)
    BY <1>10 DEF SocketClosed, Keeps
  <2>2. endTold' \in BOOLEAN
    BY <2>1, Zenon
  <2>3. \/ LeavesHost(~skip) /\ queryable' = queryable
        \/ EndsClient
    BY <1>10 DEF SocketClosed
  <2>4. LeavesHost(~skip) => skip' \in {skip, FALSE}
    BY DEF LeavesHost
  <2>5. EndsClient =>
           /\ skip' = skip
           /\ queryable' = (queryable /\ (ending \/ connectionError \/ connecting))
    BY DEF EndsClient
  <2>6. EndsClient => queryable' \in BOOLEAN
    BY <2>5, Zenon
  <2> QED BY <1>0, <2>1, <2>2, <2>3, <2>4, <2>5, <2>6 DEF FlagsTyped
<1>11. CASE TryNextHost
  <2>1. UNCHANGED <<ending, queryable, skip, fallback, endTold>>
    BY <1>11 DEF TryNextHost, TriesHost, Starts
  <2> QED BY <2>1 DEF FlagsTyped
<1>12. CASE Refuse
  BY <1>1, <1>12 DEF Refuse
<1>13. CASE FailQuery
  <2>1. UNCHANGED <<ending, queryable, fallback, endTold>>
    BY <1>13 DEF FailQuery, Keeps
  <2>2. SkipsHost(Tail(ticks)) \/ skip' = skip
    BY <1>13 DEF FailQuery
  <2> QED BY <1>0, <1>3, <2>1, <2>2 DEF FlagsTyped
<1>14. CASE \/ \E what \in {"password", "sasl"} : AuthRequest(what)
            \/ AuthSASLContinue \/ AuthOk \/ (\E good \in BOOLEAN : AuthSASLFinal(good))
            \/ (\E w \in work : WorkDone(w) \/ WorkFails(w))
  <2>1. \/ SameClient \/ ConnectionFails
        \/ ErrorOnly /\ queryable' = queryable
    BY <1>14 DEF AuthRequest, AuthSASLContinue, AuthOk, AuthSASLFinal, WorkDone, WorkFails
  <2>2. SameClient => FlagsTyped'
    BY <1>1 DEF SameClient
  <2>3. ErrorOnly => UNCHANGED <<ending, skip, fallback, endTold>>
    BY DEF ErrorOnly
  <2>4. ConnectionFails => ErrorOnly /\ queryable' \in BOOLEAN
    BY <1>2 DEF ConnectionFails
  <2> QED BY <1>0, <2>1, <2>2, <2>3, <2>4 DEF FlagsTyped
<1>15. CASE ErrorMessage
  <2>1. UNCHANGED <<ending, skip, fallback, endTold>>
    BY <1>15 DEF ErrorMessage
  <2>2. HandleErrorEvent \/ queryable' = queryable
    BY <1>15 DEF ErrorMessage
  <2> QED BY <1>0, <1>2, <2>1, <2>2 DEF FlagsTyped
<1>16. CASE ProtocolFallback
  <2>1. UNCHANGED <<ending, queryable, skip, endTold>> /\ fallback' = TRUE
    BY <1>16 DEF ProtocolFallback, FallsBack, Starts
  <2> QED BY <2>1 DEF FlagsTyped
<1>17. CASE ProbeRow \/ CommandComplete
  <2>1. UNCHANGED <<ending, queryable, skip, fallback, endTold>>
    BY <1>17 DEF ProbeRow, CommandComplete
  <2> QED BY <1>1, <2>1
<1>18. CASE ReadyProbes \/ ReadyConnects \/ ReadyGoesOn \/ ReadyAfterProbe
  <2>1. UNCHANGED <<ending, queryable, fallback, endTold>>
    BY <1>18 DEF ReadyProbes, ReadyConnects, ReadyGoesOn, ReadyAfterProbe, RoleKnown, SameAtReady
  <2>2. SkipsHost(ticks) \/ skip' = skip
    BY <1>18 DEF ReadyProbes, ReadyConnects, ReadyGoesOn, ReadyAfterProbe, RoleKnown
  <2> QED BY <1>0, <1>3, <2>1, <2>2 DEF FlagsTyped
<1>19. CASE ProbeTimesOut \/ ReadySkips
  <2>1. UNCHANGED <<ending, queryable, fallback, endTold>> /\ SkipsHost(ticks)
    BY <1>19 DEF ProbeTimesOut, ReadySkips, SameAtReady
  <2> QED BY <1>0, <1>3, <2>1 DEF FlagsTyped
<1>20. CASE UNCHANGED vars
  <2>1. UNCHANGED <<ending, queryable, skip, fallback, endTold>>
    BY <1>20 DEF vars
  <2> QED BY <1>1, <2>1
<1>21. \/ Connect \/ ConnectAgain \/ Ask \/ End \/ (ConnectionTimeout \/ Connected)
       \/ SocketError \/ SocketClosed \/ TryNextHost \/ Refuse \/ FailQuery
       \/ (\/ \E what \in {"password", "sasl"} : AuthRequest(what)
           \/ AuthSASLContinue \/ AuthOk \/ (\E good \in BOOLEAN : AuthSASLFinal(good))
           \/ (\E w \in work : WorkDone(w) \/ WorkFails(w)))
       \/ ErrorMessage \/ ProtocolFallback \/ (ProbeRow \/ CommandComplete)
       \/ (ReadyProbes \/ ReadyConnects \/ ReadyGoesOn \/ ReadyAfterProbe)
       \/ (ProbeTimesOut \/ ReadySkips) \/ UNCHANGED vars
  BY DEF Next
<1> QED
  BY <1>4, <1>5, <1>6, <1>7, <1>8, <1>9, <1>10, <1>11, <1>12, <1>13, <1>14, <1>15, <1>16, <1>17,
     <1>18, <1>19, <1>20, <1>21

\* What is known of the hosts, and which are tried.
HostChosen == \/ host' = host /\ todo' = todo
              \/ todo # <<>> /\ host' = Head(todo) /\ todo' = Tail(todo)
RowsTold == rows' \in {rows, NoRole} \/ (sock # "new" /\ rows' = role[host])
RanOn == \/ ran' = ran
         \/ sock # "new" /\ \E q \in Query : ran' = [ran EXCEPT ![q] = ran[q] \cup {host}]
StatusTold == \/ UNCHANGED hostVars
              \/ (sock # "new" \/ handler) /\ \E s \in HostStatus : Records(host, s)
HostEffect == HostChosen /\ RowsTold /\ RanOn /\ StatusTold

LEMMA WhatHosts ==
    ASSUME HostsTyped, [Next]_vars, ~Connect
    PROVE  HostEffect
<1> USE DEF restVars, queueVars, Up
<1>1. ASSUME UNCHANGED <<host, todo, rows, ran, status, fresh, counter>> PROVE HostEffect
  BY <1>1 DEF HostEffect, HostChosen, RowsTold, RanOn, StatusTold, hostVars
<1>2. ASSUME UNCHANGED <<host, todo, ran>>, RowsTold, StatusTold PROVE HostEffect
  BY <1>2 DEF HostEffect, HostChosen, RanOn
<1>3. \A que, up, st : Pulses(que, up, st) => RowsTold
  BY DEF Pulses, RowsTold
<1>4. HandleErrorEvent => rows' = rows
  BY DEF HandleErrorEvent
<1>5. CASE ConnectAgain \/ End \/ ConnectionTimeout \/ Connected
  <2>1. UNCHANGED <<host, todo, rows, ran, status, fresh, counter>>
    BY <1>5 DEF ConnectAgain, End, ConnectionTimeout, TimesOut, Connected, hostVars
  <2> QED BY <1>1, <2>1
<1>6. CASE Ask
  <2>1. UNCHANGED <<host, todo, ran, hostVars>>
    BY <1>6 DEF Ask, Asks
  <2>2. RowsTold
    BY <1>3, <1>6 DEF Ask, Asks, RowsTold
  <2> QED BY <1>2, <2>1, <2>2 DEF StatusTold
<1>7. CASE SocketError
  <2>1. UNCHANGED <<host, todo, rows, ran, status, fresh, counter>>
    BY <1>4, <1>7 DEF SocketError, hostVars
  <2> QED BY <1>1, <2>1
<1>8. CASE SocketClosed
  <2>1. UNCHANGED <<host, todo, ran>> /\ sock # "new"
    BY <1>8 DEF SocketClosed
  <2>2. (LeavesHost(~skip) /\ UNCHANGED queueVars) \/ EndsClient
    BY <1>8 DEF SocketClosed
  <2>3. rows' = rows
    BY <2>2 DEF EndsClient
  <2>4. UNCHANGED hostVars \/ Records(host, "CONNECT_FAIL")
    BY <2>2 DEF LeavesHost, EndsClient
  <2> QED BY <1>2, <2>1, <2>3, <2>4 DEF RowsTold, StatusTold, HostStatus
<1>9. CASE TryNextHost
  <2>1. UNCHANGED <<rows, ran, hostVars>>
    BY <1>9 DEF TryNextHost
  <2>2. HostChosen
    BY <1>9 DEF TryNextHost, TriesHost, HostChosen
  <2> QED BY <2>1, <2>2 DEF HostEffect, RowsTold, RanOn, StatusTold
<1>10. CASE Refuse \/ FailQuery
  <2>1. UNCHANGED <<host, todo, rows, ran, status, fresh, counter>>
    BY <1>10 DEF Refuse, FailQuery, hostVars
  <2> QED BY <1>1, <2>1
<1>11. CASE \/ \E what \in {"password", "sasl"} : AuthRequest(what)
            \/ AuthSASLContinue \/ AuthOk \/ (\E good \in BOOLEAN : AuthSASLFinal(good))
            \/ (\E w \in work : WorkDone(w) \/ WorkFails(w))
  <2>1. \/ SameClient \/ ConnectionFails
        \/ ErrorOnly /\ UNCHANGED queueVars
    BY <1>11 DEF AuthRequest, AuthSASLContinue, AuthOk, AuthSASLFinal, WorkDone, WorkFails
  <2>2. SameClient => UNCHANGED <<host, todo, rows, ran, status, fresh, counter>>
    BY DEF SameClient, hostVars
  <2>3. ErrorOnly => UNCHANGED <<host, todo, ran, status, fresh, counter>>
    BY DEF ErrorOnly, hostVars
  <2>4. ConnectionFails => ErrorOnly /\ rows' = rows
    BY <1>4 DEF ConnectionFails
  <2> QED BY <1>1, <2>1, <2>2, <2>3, <2>4
<1>12. CASE ErrorMessage \/ ProtocolFallback
  <2>1. UNCHANGED <<host, todo, rows, ran, status, fresh, counter>>
    BY <1>4, <1>12 DEF ErrorMessage, ProtocolFallback, FallsBack, hostVars
  <2> QED BY <1>1, <2>1
<1>13. CASE ProbeRow
  <2>1. UNCHANGED <<host, todo, ran, hostVars>> /\ RowsTold
    BY <1>13 DEF ProbeRow, Message, RowsTold
  <2> QED BY <1>2, <2>1 DEF StatusTold
<1>14. CASE CommandComplete
  <2>1. UNCHANGED <<host, todo, rows, hostVars>> /\ RanOn
    BY <1>14 DEF CommandComplete, Message, RanOn
  <2> QED BY <2>1 DEF HostEffect, HostChosen, RowsTold, StatusTold
<1>15. CASE ReadyProbes \/ ReadyConnects \/ ReadyGoesOn \/ ReadyAfterProbe
  <2>1. UNCHANGED <<host, todo, ran>> /\ sock # "new"
    BY <1>15 DEF ReadyProbes, ReadyConnects, ReadyGoesOn, ReadyAfterProbe, RoleKnown, SameAtReady,
                 Ready, Message
  <2>2. \E que, up, st : Pulses(que, up, st)
    BY <1>15 DEF ReadyProbes, ReadyConnects, ReadyGoesOn, ReadyAfterProbe, RoleKnown
  <2>3. UNCHANGED hostVars \/ Records(host, "CONNECT_OK") \/ (rows # NoRole /\ Records(host, rows))
    BY <1>15 DEF ReadyProbes, ReadyConnects, ReadyGoesOn, ReadyAfterProbe, RoleKnown
  <2>4. rows # NoRole => rows \in HostStatus
    BY DEF HostsTyped, Role, HostStatus
  <2>5. StatusTold
    BY <2>1, <2>3, <2>4 DEF StatusTold, HostStatus
  <2> QED BY <1>2, <1>3, <2>1, <2>2, <2>5
<1>16. CASE ProbeTimesOut
  <2>1. UNCHANGED <<host, todo, rows, ran, status, fresh, counter>>
    BY <1>16 DEF ProbeTimesOut, SameAtReady, hostVars
  <2> QED BY <1>1, <2>1
<1>17. CASE UNCHANGED vars
  <2>1. UNCHANGED <<host, todo, rows, ran, status, fresh, counter>>
    BY <1>17 DEF vars, hostVars
  <2> QED BY <1>1, <2>1
<1>19. CASE ReadySkips
  <2>1. UNCHANGED <<host, todo, ran, rows>> /\ sock # "new" /\ Records(host, "CONNECT_OK")
    BY <1>19 DEF ReadySkips, SameAtReady, Ready, Message
  <2> QED BY <1>2, <2>1 DEF RowsTold, StatusTold, HostStatus
<1>18. \/ (ConnectAgain \/ End \/ ConnectionTimeout \/ Connected) \/ Ask
       \/ SocketError \/ SocketClosed \/ TryNextHost \/ (Refuse \/ FailQuery)
       \/ (\/ \E what \in {"password", "sasl"} : AuthRequest(what)
           \/ AuthSASLContinue \/ AuthOk \/ (\E good \in BOOLEAN : AuthSASLFinal(good))
           \/ (\E w \in work : WorkDone(w) \/ WorkFails(w)))
       \/ (ErrorMessage \/ ProtocolFallback) \/ ProbeRow \/ CommandComplete
       \/ (ReadyProbes \/ ReadyConnects \/ ReadyGoesOn \/ ReadyAfterProbe)
       \/ ReadySkips \/ ProbeTimesOut \/ UNCHANGED vars
  BY DEF Next
<1> QED
  BY <1>5, <1>6, <1>7, <1>8, <1>9, <1>10, <1>11, <1>12, <1>13, <1>14, <1>15, <1>16, <1>17, <1>18,
     <1>19
\* A client without a host stays as it is until connect is called.
LEMMA AsleepStays ==
    ASSUME ConnectInv, Asleep, [Next]_vars, ~Connect
    PROVE  Asleep'
<1> USE DEF Asleep, connVars
<1>1. ASSUME UNCHANGED <<sock, connecting, handler>> PROVE Asleep'
  BY <1>1
<1>2. ASSUME NEW tk, SkipsHost(tk) PROVE Asleep'
  <2>1. Fails /\ Destroys
    BY <1>2 DEF SkipsHost
  <2>2. connecting' = FALSE /\ handler' = handler
    BY <2>1 DEF Fails, phaseVars
  <2> QED BY <2>1, <2>2 DEF Destroys, Up
<1>3. ASSUME HandleErrorEvent PROVE connecting' = connecting /\ handler' = handler
  BY <1>3 DEF HandleErrorEvent, phaseVars
<1>4. \A at : ~Message(at)
  BY DEF Message
<1>5. CASE ConnectAgain
  BY <1>1, <1>5 DEF ConnectAgain, phaseVars
<1>6. CASE Ask
  BY <1>1, <1>6 DEF Ask, Asks, phaseVars
<1>7. CASE End \/ ConnectionTimeout \/ Connected
  BY <1>7 DEF End, ConnectionTimeout, TimesOut, Connected, ConnectInv, Trying
<1>8. CASE SocketError \/ SocketClosed
  BY <1>8 DEF SocketError, SocketClosed, Up
<1>9. CASE TryNextHost
  <2>1. Head(ticks).do = "next" /\ ticks # <<>>
    BY <1>9 DEF TryNextHost, RunsTick
  <2>2. NextIn(ticks)
    BY <2>1, RestHas DEF ConnectInv, Typed, RestTyped
  <2> QED BY <2>2 DEF ConnectInv, OneNext
<1>10. CASE Refuse
  BY <1>1, <1>10 DEF Refuse, phaseVars
<1>11. CASE FailQuery
  <2>1. SkipsHost(Tail(ticks)) \/ UNCHANGED <<phaseVars, sock>>
    BY <1>11 DEF FailQuery
  <2> QED BY <1>1, <1>2, <2>1 DEF phaseVars
<1>12. CASE \/ \E what \in {"password", "sasl"} : AuthRequest(what)
            \/ AuthSASLContinue \/ AuthOk \/ \E good \in BOOLEAN : AuthSASLFinal(good)
  BY <1>4, <1>12 DEF AuthRequest, AuthSASLContinue, AuthOk, AuthSASLFinal
<1>13. CASE \E w \in work : WorkDone(w) \/ WorkFails(w)
  <2>1. SameClient \/ ConnectionFails \/ UNCHANGED <<phaseVars, sock>>
    BY <1>13 DEF WorkDone, WorkFails
  <2>2. SameClient => UNCHANGED <<sock, connecting, handler>>
    BY DEF SameClient, phaseVars
  <2>3. ConnectionFails => UNCHANGED <<sock, connecting, handler>>
    BY <1>3 DEF ConnectionFails, DestroysIfFailing
  <2> QED BY <1>1, <2>1, <2>2, <2>3 DEF phaseVars
<1>14. CASE ErrorMessage \/ ProtocolFallback \/ ProbeRow \/ CommandComplete
  BY <1>4, <1>14 DEF ErrorMessage, ProtocolFallback, FallsBack, ProbeRow, CommandComplete
<1>15. CASE ReadyProbes \/ ReadySkips \/ ReadyConnects \/ ReadyGoesOn \/ ReadyAfterProbe
  BY <1>4, <1>15 DEF ReadyProbes, ReadySkips, ReadyConnects, ReadyGoesOn, ReadyAfterProbe,
                     RoleKnown, Ready
<1>16. CASE ProbeTimesOut
  BY <1>2, <1>16 DEF ProbeTimesOut
<1>17. CASE UNCHANGED vars
  BY <1>1, <1>17 DEF vars, phaseVars
<1>18. \/ ConnectAgain \/ Ask \/ (End \/ ConnectionTimeout \/ Connected)
       \/ (SocketError \/ SocketClosed) \/ TryNextHost \/ Refuse \/ FailQuery
       \/ (\/ \E what \in {"password", "sasl"} : AuthRequest(what)
           \/ AuthSASLContinue \/ AuthOk \/ \E good \in BOOLEAN : AuthSASLFinal(good))
       \/ (\E w \in work : WorkDone(w) \/ WorkFails(w))
       \/ (ErrorMessage \/ ProtocolFallback \/ ProbeRow \/ CommandComplete)
       \/ (ReadyProbes \/ ReadySkips \/ ReadyConnects \/ ReadyGoesOn \/ ReadyAfterProbe)
       \/ ProbeTimesOut \/ UNCHANGED vars
  BY DEF Next
<1> QED
  BY <1>5, <1>6, <1>7, <1>8, <1>9, <1>10, <1>11, <1>12, <1>13, <1>14, <1>15, <1>16, <1>17, <1>18

\* The hosts that the first call of connect may begin with.
LEMMA FirstOrder ==
    ASSUME counter \in Nat, Connect
    PROVE  \E order \in Seq(Host), balances \in BOOLEAN :
              ConnectTo(order, balances) /\ Len(order) <= Len(Hosts)
<1>0. Len(Hosts) \in Nat \ {0} /\ Head(Hosts) \in Host
  BY HostsHas, RestOf
<1>1. CASE mode = "off"
  <2>1. ConnectTo(<<Head(Hosts)>>, FALSE)
    BY <1>1 DEF Connect
  <2>2. <<Head(Hosts)>> \in Seq(Host) /\ Len(<<Head(Hosts)>>) = 1
    BY <1>0
  <2>3. Len(<<Head(Hosts)>>) <= Len(Hosts)
    BY <1>0, <2>2
  <2> QED BY <2>1, <2>2, <2>3
<1>2. CASE mode # "off"
  <2>1. PICK order \in Orders(target, mode) : ConnectTo(order, TRUE)
    BY <1>2 DEF Connect
  <2>2. order \in Seq(Host) /\ Len(order) <= Len(Hosts)
    BY OrdersHave
  <2> QED BY <2>1, <2>2
<1> QED BY <1>1, <1>2

LEMMA RecordsTyped ==
    ASSUME HostTypeOK, NEW h \in Host, NEW s \in HostStatus, Records(h, s)
    PROVE  HostTypeOK'
BY DEF HostTypeOK, Records

LEMMA HostsStep ==
    ASSUME ConnectInv, ConfigTyped, HostsTyped, [Next]_vars
    PROVE  HostsTyped'
<1>0. counter \in Nat
  BY CycleAssumption DEF HostsTyped, HostTypeOK
<1>1. CASE Connect
  <2>1. PICK order \in Seq(Host), balances \in BOOLEAN : ConnectTo(order, balances)
    BY <1>0, <1>1, FirstOrder
  <2>2. HostTypeOK'
    <3>1. UNCHANGED hostVars \/ Counts(target, mode)
      BY <1>1 DEF Connect
    <3>2. (counter + 1) % Cycle \in 0..(Cycle - 1)
      BY <1>0, CycleAssumption
    <3> QED BY <3>1, <3>2 DEF Counts, hostVars, HostsTyped, HostTypeOK
  <2>3. UNCHANGED <<rows, ran>>
    BY <2>1 DEF ConnectTo, queueVars
  <2>4. CASE order = <<>>
    <3>1. UNCHANGED <<todo, host, sock>> /\ connecting' = FALSE /\ handler' = FALSE
      BY <2>1, <2>4 DEF ConnectTo
    <3> QED BY <2>2, <2>3, <3>1 DEF HostsTyped, Asleep
  <2>5. CASE order # <<>>
    <3>1. Head(order) \in Host /\ Tail(order) \in Seq(Host) /\ <<>> \in Seq(Host)
      BY <2>5, RestOf, EmptySeq
    <3>2. host' = Head(order) /\ todo' \in {<<>>, Tail(order)}
      BY <2>1, <2>5 DEF ConnectTo, TriesHost
    <3> QED BY <2>2, <2>3, <3>1, <3>2, ConnectAssumption DEF HostsTyped
  <2> QED BY <2>4, <2>5
<1>2. CASE ~Connect
  <2>1. HostChosen /\ RowsTold /\ RanOn /\ StatusTold
    BY <1>2, WhatHosts DEF HostEffect
  <2>2. sock # "new" \/ handler => host \in Host
    BY DEF HostsTyped, Asleep
  <2>3. HostTypeOK'
    <3>1. CASE UNCHANGED hostVars
      BY <3>1 DEF hostVars, HostsTyped, HostTypeOK
    <3>2. CASE (sock # "new" \/ handler) /\ \E s \in HostStatus : Records(host, s)
      BY <2>2, <3>2, RecordsTyped DEF HostsTyped
    <3> QED BY <2>1, <3>1, <3>2 DEF StatusTold
  <2>4. rows' \in Role \cup {NoRole}
    BY <2>1, <2>2 DEF RowsTold, HostsTyped, ConfigTyped
  <2>5. ran' \in [Query -> SUBSET Host]
    BY <2>1, <2>2 DEF RanOn, HostsTyped
  <2>6. /\ todo' \in Seq(Host) /\ host' \in Host \cup {NoHost}
        /\ host' = NoHost => host = NoHost
    <3>1. todo # <<>> => Head(todo) \in Host /\ Tail(todo) \in Seq(Host)
      BY RestOf DEF HostsTyped
    <3> QED BY <2>1, <3>1, ConnectAssumption DEF HostChosen, HostsTyped
  <2>7. host = NoHost => Asleep'
    BY <1>2, AsleepStays DEF HostsTyped
  <2> QED BY <2>3, <2>4, <2>5, <2>6, <2>7 DEF HostsTyped
<1> QED BY <1>1, <1>2

\* Which connections there are, and what is known of which.
Total == conn + Len(todo) + (IF fallback THEN 0 ELSE 1)
Moved ==
    /\ conn' \in Nat /\ conn <= conn' /\ Total' <= Total
    /\ session' \in {session, conn, 0} /\ sentOn' \in {sentOn, conn, 0}
    /\ endOn' \in {endOn, conn, 0}
    /\ \A w \in work' : w \in work \/ w.con = conn
    /\ calls' = 0 => conn' = conn

LEMMA MovedNumbers ==
    ASSUME Typed, HostsTyped, Numbered, Moved, HostsTyped', calls' = 0 => calls = 0
    PROVE  Numbered'
<1>1. /\ conn \in Nat \ {0} /\ Len(todo) \in Nat /\ Len(todo') \in Nat /\ Len(Hosts) \in Nat
      /\ conn' \in Nat /\ conn <= conn'
  BY HostsHas, LenProperties DEF Typed, ConnTyped, HostsTyped, Moved
<1>2. Total' <= Len(Hosts) + 2
  <2>1. PICK a \in Nat, b \in Nat : a = Total /\ b = Total'
    BY <1>1 DEF Total
  <2>2. a <= Len(Hosts) + 2 /\ b <= a
    BY <2>1 DEF Numbered, Moved, Total
  <2> QED BY <1>1, <2>1, <2>2
<1>3. session' \in 0..conn' /\ sentOn' \in 0..conn' /\ endOn' \in 0..conn'
  BY <1>1 DEF Moved, Numbered
<1>4. \A w \in work' : w.con \in 1..conn'
  <2>1. \A w \in work' : w.con \in 1..conn
    BY <1>1 DEF Moved, Numbered
  <2> QED BY <1>1, <2>1
<1>5. calls' = 0 => conn' = 1
  BY DEF Moved, Numbered
<1> QED BY <1>2, <1>3, <1>4, <1>5 DEF Numbered, Total

LEMMA WhatNumbers ==
    ASSUME ConnectInv, HostsTyped, FlagsTyped, Numbered, [Next]_vars, ~Connect
    PROVE  Moved
<1> USE DEF connVars, endVars, restVars, queueVars
<1> DEFINE Settled == UNCHANGED <<conn, todo, fallback>>
<1>a. /\ conn \in Nat /\ Len(todo) \in Nat /\ Total \in Nat
      /\ todo # <<>> => Len(Tail(todo)) = Len(todo) - 1
  <2>1. conn \in Nat /\ Len(todo) \in Nat
    BY LenProperties DEF ConnectInv, Typed, ConnTyped, HostsTyped
  <2>2. todo # <<>> => Len(Tail(todo)) = Len(todo) - 1
    BY RestOf DEF HostsTyped
  <2> QED BY <2>1, <2>2 DEF Total
<1>0. ASSUME Settled, session' \in {session, conn, 0}, sentOn' \in {sentOn, conn, 0},
             endOn' \in {endOn, conn, 0}, \A w \in work' : w \in work \/ w.con = conn
      PROVE  Moved
  <2>1. Total' = Total
    BY <1>0 DEF Total
  <2> QED BY <1>a, <1>0, <2>1 DEF Moved
<1>1. ASSUME Settled, UNCHANGED <<session, sentOn, endOn, work>> PROVE Moved
  BY <1>0, <1>1
<1>2. \A que, up, st : Pulses(que, up, st) => /\ sentOn' \in {sentOn, conn, 0}
                                     /\ conn' = conn /\ session' = session
  BY DEF Pulses, NoConn
<1>3. HandleErrorEvent => sentOn' = sentOn
  BY DEF HandleErrorEvent
<1>4. CASE ConnectAgain \/ ConnectionTimeout \/ Connected
  <2>1. Settled /\ UNCHANGED <<session, sentOn, endOn, work>>
    BY <1>4 DEF ConnectAgain, ConnectionTimeout, TimesOut, Connected, Keeps
  <2> QED BY <1>1, <2>1
<1>5. CASE End
  <2>1. Settled /\ UNCHANGED <<session, sentOn, work>> /\ endOn' = conn
    BY <1>5 DEF End, Keeps
  <2> QED BY <1>0, <2>1
<1>6. CASE Ask
  <2>1. UNCHANGED <<todo, fallback, endOn, work>>
    BY <1>6 DEF Ask, Asks
  <2>2. \/ \E que, up, st : Pulses(que, up, st)
        \/ UNCHANGED <<conn, session, sentOn>>
    BY <1>6 DEF Ask, Asks
  <2> QED BY <1>0, <1>2, <2>1, <2>2
<1>7. CASE SocketError
  <2>1. Settled /\ UNCHANGED <<session, sentOn, endOn, work>>
    BY <1>3, <1>7 DEF SocketError, Keeps
  <2> QED BY <1>1, <2>1
<1>8. CASE SocketClosed
  <2>1. Settled /\ UNCHANGED <<session, endOn, work>>
    BY <1>8 DEF SocketClosed, Keeps
  <2>2. UNCHANGED queueVars \/ EndsClient
    BY <1>8 DEF SocketClosed
  <2>3. sentOn' = sentOn
    BY <2>2 DEF EndsClient
  <2> QED BY <1>1, <2>1, <2>3
<1>9. CASE TryNextHost
  <2>1. /\ UNCHANGED <<session, sentOn, endOn, work, fallback, calls>>
        /\ Head(ticks).do = "next" /\ ticks # <<>>
    BY <1>9 DEF TryNextHost, RunsTick
  <2>2. NextIn(ticks)
    BY <2>1, RestHas DEF ConnectInv, Typed, RestTyped
  <2>3. calls # 0 /\ ~provided
    BY <2>2 DEF ConnectInv, Trying, Hopeful, OneNext
  <2>4. CASE todo = <<>>
    <3>1. Settled
      BY <1>9, <2>1, <2>4 DEF TryNextHost
    <3> QED BY <1>1, <2>1, <3>1
  <2>5. CASE todo # <<>>
    <3>1. conn' = conn + 1 /\ todo' = Tail(todo)
      BY <1>9, <2>3, <2>5 DEF TryNextHost, TriesHost, Starts
    <3>2. Len(todo') = Len(todo) - 1
      BY <1>a, <2>5, <3>1
    <3>3. Total' = conn' + Len(todo') + (IF fallback THEN 0 ELSE 1)
      BY <2>1 DEF Total
    <3>4. Total' = Total
      <4>1. PICK last \in {0, 1}, n \in Nat :
               last = (IF fallback THEN 0 ELSE 1) /\ n = Len(todo)
        BY <1>a
      <4>2. Total' = (conn + 1) + (n - 1) + last
        BY <3>1, <3>2, <3>3, <4>1
      <4>3. Total = conn + n + last
        BY <4>1 DEF Total
      <4> QED BY <1>a, <4>2, <4>3
    <3>5. conn' \in Nat /\ conn <= conn'
      BY <1>a, <3>1
    <3> QED BY <1>a, <2>1, <2>3, <3>4, <3>5 DEF Moved
  <2> QED BY <2>4, <2>5
<1>10. CASE Refuse \/ FailQuery
  <2>1. Settled /\ UNCHANGED <<session, sentOn, endOn, work>>
    BY <1>10 DEF Refuse, FailQuery, Keeps
  <2> QED BY <1>1, <2>1
<1>11. CASE (\E what \in {"password", "sasl"} : AuthRequest(what)) \/ AuthSASLContinue
  <2>1. SameClient /\ session' = session
    BY <1>11 DEF AuthRequest, AuthSASLContinue
  <2>2. \E what : work' = work \cup {[do |-> what, con |-> conn]}
    BY <1>11 DEF AuthRequest, AuthSASLContinue
  <2>3. \A w \in work' : w \in work \/ w.con = conn
    BY <2>2
  <2>4. Settled /\ UNCHANGED <<sentOn, endOn>>
    BY <2>1 DEF SameClient
  <2> QED BY <1>0, <2>1, <2>3, <2>4
<1>12. CASE \/ AuthOk \/ (\E good \in BOOLEAN : AuthSASLFinal(good))
            \/ (\E w \in work : WorkDone(w) \/ WorkFails(w))
  <2>1. /\ session' \in {session, conn, 0} \/ ErrorOnly
        /\ work' \subseteq work
        /\ \/ SameClient \/ ConnectionFails
           \/ ErrorOnly /\ UNCHANGED queueVars
    BY <1>12 DEF AuthOk, AuthSASLFinal, WorkDone, WorkFails, ConnectionFails, NoConn
  <2>2. SameClient => Settled /\ UNCHANGED <<sentOn, endOn>>
    BY DEF SameClient
  <2>3. ErrorOnly => Settled /\ UNCHANGED <<session, endOn>>
    BY DEF ErrorOnly
  <2>4. ConnectionFails => ErrorOnly /\ sentOn' = sentOn
    BY <1>3 DEF ConnectionFails
  <2>5. Settled /\ UNCHANGED <<sentOn, endOn>> /\ session' \in {session, conn, 0}
    BY <2>1, <2>2, <2>3, <2>4
  <2> QED BY <1>0, <2>1, <2>5
<1>13. CASE ErrorMessage
  <2>1. Settled /\ UNCHANGED <<session, sentOn, endOn, work>>
    BY <1>3, <1>13 DEF ErrorMessage
  <2> QED BY <1>1, <2>1
<1>14. CASE ProtocolFallback
  <2>1. /\ UNCHANGED <<todo, sentOn, work, calls>> /\ session' = 0 /\ endOn' \in {0, endOn}
        /\ conn' = conn + 1 /\ fallback' = TRUE /\ ~fallback /\ sock \in Up
    BY <1>14 DEF ProtocolFallback, FallsBack, Starts, Message, Up, NoConn
  <2>2. calls # 0
    BY <2>1 DEF ConnectInv, Trying, Up
  <2>3. Total' = conn' + Len(todo) + 0 /\ Total = conn + Len(todo) + 1
    <3>1. Total' = conn' + Len(todo') + (IF fallback' THEN 0 ELSE 1)
      BY DEF Total
    <3>2. (IF fallback' THEN 0 ELSE 1) = 0 /\ (IF fallback THEN 0 ELSE 1) = 1
      BY <2>1
    <3> QED BY <2>1, <3>1, <3>2 DEF Total
  <2>4. Total' = Total
    BY <1>a, <2>1, <2>3
  <2>5. conn' \in Nat /\ conn <= conn'
    BY <1>a, <2>1
  <2> QED BY <1>a, <2>1, <2>2, <2>4, <2>5 DEF Moved
<1>15. CASE ProbeRow \/ CommandComplete
  <2>1. Settled /\ UNCHANGED <<session, sentOn, endOn, work>>
    BY <1>15 DEF ProbeRow, CommandComplete
  <2> QED BY <1>1, <2>1
<1>16. CASE ReadyProbes \/ ReadyConnects \/ ReadyGoesOn \/ ReadyAfterProbe
  <2>1. UNCHANGED <<todo, fallback, endOn, work>>
    BY <1>16 DEF ReadyProbes, ReadyConnects, ReadyGoesOn, ReadyAfterProbe, RoleKnown, SameAtReady
  <2>2. \E que, up, st : Pulses(que, up, st)
    BY <1>16 DEF ReadyProbes, ReadyConnects, ReadyGoesOn, ReadyAfterProbe, RoleKnown
  <2> QED BY <1>0, <1>2, <2>1, <2>2
<1>17. CASE ProbeTimesOut \/ ReadySkips
  <2>1. Settled /\ UNCHANGED <<session, sentOn, endOn, work>>
    BY <1>17 DEF ProbeTimesOut, ReadySkips, SameAtReady
  <2> QED BY <1>1, <2>1
<1>18. CASE UNCHANGED vars
  <2>1. Settled /\ UNCHANGED <<session, sentOn, endOn, work>>
    BY <1>18 DEF vars
  <2> QED BY <1>1, <2>1
<1>19. \/ (ConnectAgain \/ ConnectionTimeout \/ Connected) \/ End \/ Ask
       \/ SocketError \/ SocketClosed \/ TryNextHost \/ (Refuse \/ FailQuery)
       \/ ((\E what \in {"password", "sasl"} : AuthRequest(what)) \/ AuthSASLContinue)
       \/ (\/ AuthOk \/ (\E good \in BOOLEAN : AuthSASLFinal(good))
           \/ (\E w \in work : WorkDone(w) \/ WorkFails(w)))
       \/ ErrorMessage \/ ProtocolFallback \/ (ProbeRow \/ CommandComplete)
       \/ (ReadyProbes \/ ReadyConnects \/ ReadyGoesOn \/ ReadyAfterProbe)
       \/ (ProbeTimesOut \/ ReadySkips) \/ UNCHANGED vars
  BY DEF Next
<1> QED
  BY <1>4, <1>5, <1>6, <1>7, <1>8, <1>9, <1>10, <1>11, <1>12, <1>13, <1>14, <1>15, <1>16, <1>17,
     <1>18, <1>19

LEMMA NumbersStep ==
    ASSUME ConnectInv, ConfigTyped, FlagsTyped, HostsTyped, Numbered, [Next]_vars
    PROVE  Numbered'
<1>1. CASE Connect
  <2>0. counter \in Nat
    BY CycleAssumption DEF HostsTyped, HostTypeOK
  <2>1. PICK order \in Seq(Host), balances \in BOOLEAN :
           ConnectTo(order, balances) /\ Len(order) <= Len(Hosts)
    BY <1>1, <2>0, FirstOrder
  <2>2. /\ UNCHANGED <<session, sentOn, endOn, work, fallback>> /\ calls' = 1 /\ calls = 0
    BY <2>1 DEF ConnectTo, queueVars, endVars
  <2>3. conn = 1 /\ Len(Hosts) \in Nat \ {0} /\ Len(order) \in Nat
    BY <2>2, HostsHas, RestOf, LenProperties DEF Numbered
  <2>4. CASE order = <<>>
    <3>1. UNCHANGED <<conn, todo>>
      BY <2>1, <2>4 DEF ConnectTo
    <3> QED BY <2>2, <3>1 DEF Numbered
  <2>5. CASE order # <<>>
    <3>1. /\ conn' \in {1, 2} /\ todo' \in {<<>>, Tail(order)}
          /\ todo' = <<>> \/ conn' = 2
      BY <2>1, <2>3, <2>5 DEF ConnectTo, TriesHost, Starts
    <3>2. Len(Tail(order)) = Len(order) - 1 /\ Len(<<>>) = 0
      BY <2>5, RestOf, EmptySeq
    <3>3. Len(todo') \in Nat /\ Len(todo') <= Len(Hosts) - 1
      BY <2>1, <2>3, <2>5, <3>1, <3>2, RestOf
    <3>4. conn' + Len(todo') + (IF fallback' THEN 0 ELSE 1) <= Len(Hosts) + 2
      BY <2>3, <3>1, <3>3
    <3>5. session' \in 0..conn' /\ sentOn' \in 0..conn' /\ endOn' \in 0..conn'
      BY <2>2, <2>3, <3>1 DEF Numbered
    <3>6. \A w \in work' : w.con \in 1..conn'
      BY <2>2, <2>3, <3>1 DEF Numbered
    <3> QED BY <2>2, <3>4, <3>5, <3>6 DEF Numbered
  <2> QED BY <2>4, <2>5
<1>2. CASE ~Connect
  <2>1. Moved
    BY <1>2, WhatNumbers
  <2>2. HostsTyped'
    BY HostsStep
  <2>3. calls' = 0 => calls = 0
    BY <1>2, WhoCalls
  <2> QED BY <2>1, <2>2, <2>3, MovedNumbers DEF ConnectInv
<1> QED BY <1>1, <1>2

\* Every variable has its type: no more connections are made than one for each host,
\* the constructor's and that of the fallback (_connectWithLoadBalance,
\* _handleErrorWhileConnecting), and statuses are recorded of the hosts only.
THEOREM TypeCorrect == Spec => []TypeOK
<1> DEFINE IInv == ConnectInv /\ Shaped
<1>1. Init => IInv
  BY ConnectInvInit, ShapedInit
<1>2. IInv /\ [Next]_vars => IInv'
  <2> SUFFICES ASSUME IInv, [Next]_vars PROVE IInv'
    OBVIOUS
  <2>1. ConnectInv'
    BY ConnectInvStep
  <2>2. ConfigTyped'
    BY ConfigKept DEF Shaped, ConfigTyped, configVars
  <2> QED BY <2>1, <2>2, FlagsStep, HostsStep, NumbersStep DEF Shaped
<1>3. IInv => TypeOK
  <2> SUFFICES ASSUME IInv PROVE TypeOK
    OBVIOUS
  <2>1. Typed /\ live \subseteq {conn}
    BY DEF ConnectInv, Trying
  <2>2. /\ conn \in Conn /\ 0..conn \subseteq Conn \cup {NoConn} /\ 1..conn \subseteq Conn
    <3>1. conn \in Nat \ {0} /\ Len(todo) \in Nat /\ Len(Hosts) \in Nat
      BY <2>1, HostsHas, LenProperties DEF Typed, ConnTyped, Shaped, HostsTyped
    <3>2. conn <= Len(Hosts) + 2
      BY <3>1 DEF Shaped, Numbered
    <3> QED BY <3>1, <3>2 DEF Conn, NoConn
  <2>3. work \subseteq [do : {"password", "sasl", "sasl next"}, con : Conn]
    BY <2>1, <2>2 DEF Typed, ConnTyped, Shaped, Numbered
  <2>4. /\ HostTypeOK /\ target \in Targets /\ mode \in Modes /\ role \in [Host -> Role]
        /\ todo \in Seq(Host) /\ host \in Host \cup {NoHost}
        /\ rows \in Role \cup {NoRole} /\ ran \in [Query -> SUBSET Host]
    BY DEF Shaped, ConfigTyped, HostsTyped
  <2>5. {provided, connecting, connected, connectionError, ending, ended, queryable,
         rolePending, skip, fallback, handler, timer, ready, endTold} \subseteq BOOLEAN
    BY <2>1 DEF Typed, PhaseTyped, QueueTyped, RestTyped, Shaped, FlagsTyped
  <2>6. calls \in 0..MaxCalls /\ callback \in 0..calls
    BY <2>1 DEF Typed, CallTyped, Nothing
  <2>7. /\ session \in Conn \cup {NoConn} /\ sentOn \in Conn \cup {NoConn}
        /\ endOn \in Conn \cup {NoConn} /\ live \subseteq Conn
    BY <2>1, <2>2 DEF Shaped, Numbered
  <2> QED BY <2>1, <2>2, <2>3, <2>4, <2>5, <2>6, <2>7
          DEF TypeOK, Typed, CallTyped, ConnTyped, QueueTyped, RestTyped, TickRecord, Verdict,
              Session
<1> QED BY <1>1, <1>2, <1>3, PTL DEF Spec

-----------------------------------------------------------------------------
\* Results are those of queries that were run.

\* The server has not been heard of as ready on this connection.
Early == {"away", "start", "password", "check", "sasl", "sasl first", "sasl next",
          "sasl last", "accepted"}
\* No host is left for its role: the queue only moves on a connection that was
\* ready, and that connection runs the active query.
AnyRole == target = "any" \/ mode = "off"
Matched ==
    /\ srv.at \in Early => active = Nothing /\ ~ready
    /\ srv.at = "done" /\ active \in Query => ran[active] # {}
    /\ srv.at \in {"run", "row"} /\ active \in Query => srv.on = active
    /\ srv.at = "row" => srv.on \in {Probe, Late}
    /\ \A q \in Query : got[q] = "result" => ran[q] # {}
    /\ target = "any" /\ connecting => active = Nothing /\ ~ready
    /\ mode = "off" => ~handler
    /\ calls = 0 => srv.at = "away"
    /\ ready => active = Nothing /\ srv.at \in {"idle", "astray"}
    /\ srv.next = Nothing
Answered == AnyRole => Matched

LEMMA AnsweredInit ==
    ASSUME Init
    PROVE  Answered
<1>1. srv.at = "away" /\ srv.next = Nothing
  BY StartsTyped DEF Init
<1> QED BY <1>1 DEF Init, Answered, Matched, Early

\* A step that leaves the queries to the server alone, or forgets the active one.
LEMMA SameAnswered ==
    ASSUME Matched, UNCHANGED <<target, mode, ready, srv, ran>>, active' \in {active, Nothing},
           \A q \in Query : got'[q] = "result" => got[q] = "result",
           connecting' => connecting, handler' => handler, calls' = 0 => calls = 0
    PROVE  Matched'
<1>1. Nothing \notin Query
  BY NoItems
<1> QED BY <1>1 DEF Matched

\* A step to another stage of the server before it is ready, or astray.
LEMMA EarlyAnswered ==
    ASSUME Matched, srv.at \in Early \/ srv'.at \notin Early, srv'.at \in Early \cup {"astray"},
           srv'.next = srv.next,
           UNCHANGED <<target, mode, active, ready, ran, got, connecting, handler, calls>>,
           calls # 0
    PROVE  Matched'
BY DEF Matched, Early

LEMMA GoesIdle ==
    ASSUME Matched
    PROVE  Goes.at = "idle" /\ Goes.next = Nothing
BY DEF Matched, Goes

\* A query is written to a server that is idle, or astray.
LEMMA WrittenRuns ==
    ASSUME NEW st \in Session, st.at \in {"idle", "astray"}, NEW q
    PROVE  /\ Written(st, q).next = st.next
           /\ \/ Written(st, q).at = "run" /\ Written(st, q).on = q
              \/ Written(st, q).at = "astray"
BY DEF Written, Session

LEMMA PulsesAnswered ==
    ASSUME NEW que \in Seq(Item), NEW up, NEW st \in Session, Pulses(que, up, st),
           st.at \in {"idle", "astray"}, st.next = Nothing, UNCHANGED <<target, mode, ran>>,
           \A q \in Query : got'[q] = "result" => ran[q] # {},
           ~(target = "any" /\ connecting'), mode = "off" => ~handler', calls' # 0
    PROVE  Matched'
<1>1. Nothing \notin Query
  BY NoItems
<1>2. CASE que = <<>>
  <2>1. active' = Nothing /\ srv' = st
    BY <1>2 DEF Pulses
  <2> QED BY <1>1, <2>1 DEF Matched, Early
<1>3. CASE que # <<>>
  <2>1. /\ active' = Head(que) /\ ready' = FALSE
        /\ srv' = (IF up THEN Written(st, Head(que)) ELSE st)
    BY <1>3 DEF Pulses
  <2>2. /\ srv'.next = Nothing
        /\ \/ srv'.at = "run" /\ srv'.on = active'
           \/ srv'.at \in {"idle", "astray"}
    BY <2>1, WrittenRuns
  <2> QED BY <2>1, <2>2 DEF Matched, Early
<1> QED BY <1>2, <1>3

\* What the pieces of the handlers do to connecting and the handler of errors.
Calmer == (connecting' => connecting) /\ (handler' => handler)

LEMMA PiecesCalm ==
    /\ Fails => Calmer
    /\ GivesUp => Calmer
    /\ Succeeds => ~connecting' /\ ~handler'
    /\ \A failed : LeavesHost(failed) => Calmer
    /\ \A tk : SkipsHost(tk) /\ ~handler => Calmer
    /\ EndsClient => Calmer
    /\ HandleErrorEvent => Calmer
<1>1. (Fails => Calmer) /\ (GivesUp => Calmer) /\ (Succeeds => ~connecting' /\ ~handler')
  BY DEF Fails, GivesUp, Succeeds, Calmer, phaseVars
<1>2. \A failed : LeavesHost(failed) => Calmer
  BY <1>1 DEF LeavesHost, Calmer, phaseVars
<1>3. \A tk : SkipsHost(tk) /\ ~handler => Calmer
  BY <1>1 DEF SkipsHost
<1>4. EndsClient => Calmer
  BY DEF EndsClient, Calmer
<1>5. HandleErrorEvent => Calmer
  BY <1>1 DEF HandleErrorEvent, Calmer, phaseVars
<1> QED BY <1>1, <1>2, <1>3, <1>4, <1>5

LEMMA ErrorEventAnswered ==
    ASSUME Matched, HandleErrorEvent, UNCHANGED <<target, mode, srv, ran, calls>>
    PROVE  Matched'
<1>1. Calmer /\ active' \in {active, Nothing} /\ UNCHANGED <<ready, got>>
  BY PiecesCalm DEF HandleErrorEvent, Drops, queueVars
<1> QED BY <1>1, SameAnswered DEF Calmer

\* The probe has an error handler to call only where roles do not matter.
LEMMA ProbeAlone ==
    ASSUME ConnectInv, AnyRole, Matched, active = Probe \/ Waits(queue) \/ FailsIn(ticks)
    PROVE  target # "any" /\ mode = "off" /\ ~handler
BY DEF ConnectInv, OneProbe, Probing, AnyRole, Matched

LEMMA FinishedAnswered ==
    ASSUME Typed, Matched, Ready
    PROVE  \A q \in Query : Finished[q] = "result" => ran[q] # {}
<1>1. srv.at \in {"accepted", "done"}
  BY DEF Ready, Message
<1>2. active \in Query => ran[active] # {}
  <2>1. Nothing \notin Query
    BY NoItems
  <2> QED BY <1>1, <2>1 DEF Matched, Early
<1>3. got \in [Query -> {"nothing", "result", "error"}]
  BY DEF Typed, QueueTyped
<1> QED BY <1>2, <1>3 DEF Finished, Matched

LEMMA AuthAnswered ==
    ASSUME ConnectInv, Matched,
           \/ \E what \in {"password", "sasl"} : AuthRequest(what)
           \/ AuthSASLContinue \/ AuthOk \/ \E good \in BOOLEAN : AuthSASLFinal(good)
           \/ \E w \in work : WorkDone(w) \/ WorkFails(w)
    PROVE  Matched'
<1> USE DEF configVars
<1>0. sock \in {"connecting", "open", "ending"} => calls # 0
  BY DEF ConnectInv, Trying
<1>1. SameClient => /\ UNCHANGED <<target, mode, active, ready, ran, got, connecting, handler, calls>>
  BY DEF SameClient, queueVars, phaseVars
<1>2. /\ \A at : Becomes(at) => srv'.at = at /\ srv'.next = srv.next
      /\ \A at : AsksFor(at) => srv'.at = at /\ srv'.next = srv.next
  <2>1. \A at : Becomes(at) => srv'.at = at /\ srv'.next = srv.next
    BY DEF Becomes, ConnectInv, Typed, ConnTyped, Session
  <2> QED BY <2>1 DEF AsksFor, Matched
<1>3. \A at : Message(at) => sock \in {"open", "ending"} /\ srv.at = at
  BY DEF Message
<1>4. ASSUME NEW what \in {"password", "sasl"}, AuthRequest(what) PROVE Matched'
  <2>1. srv.at = "start" /\ srv'.at = what /\ srv'.next = srv.next /\ SameClient /\ calls # 0
    BY <1>0, <1>2, <1>3, <1>4 DEF AuthRequest
  <2>2. srv.at \in Early /\ srv'.at \in Early
    BY <2>1 DEF Early
  <2> QED BY <1>1, <2>1, <2>2, EarlyAnswered
<1>5. CASE AuthSASLContinue
  <2>1. /\ srv.at = "sasl first" /\ srv'.at = "sasl next" /\ srv'.next = srv.next
        /\ SameClient /\ calls # 0
    BY <1>0, <1>2, <1>3, <1>5 DEF AuthSASLContinue
  <2>2. srv.at \in Early /\ srv'.at \in Early
    BY <2>1 DEF Early
  <2> QED BY <1>1, <2>1, <2>2, EarlyAnswered
<1>6. CASE AuthOk
  <2>1. /\ srv.at \in {"start", "check"} /\ srv'.at = "accepted" /\ srv'.next = srv.next
        /\ SameClient /\ calls # 0
    BY <1>0, <1>2, <1>3, <1>6 DEF AuthOk
  <2>2. srv.at \in Early /\ srv'.at \in Early
    BY <2>1 DEF Early
  <2> QED BY <1>1, <2>1, <2>2, EarlyAnswered
<1>7. ConnectionFails => UNCHANGED <<target, mode, srv, ran, calls>> /\ HandleErrorEvent
  BY DEF ConnectionFails, ErrorOnly
<1>8. ASSUME NEW good \in BOOLEAN, AuthSASLFinal(good) PROVE Matched'
  <2>1. CASE good /\ session = conn
    <3>1. /\ srv.at = "sasl last" /\ srv'.at = "accepted" /\ srv'.next = srv.next
          /\ SameClient /\ calls # 0
      BY <1>0, <1>2, <1>3, <1>8, <2>1 DEF AuthSASLFinal
    <3>2. srv.at \in Early /\ srv'.at \in Early
      BY <3>1 DEF Early
    <3> QED BY <1>1, <3>1, <3>2, EarlyAnswered
  <2>2. CASE ~(good /\ session = conn)
    <3>1. ConnectionFails
      BY <1>8, <2>2 DEF AuthSASLFinal
    <3> QED BY <1>7, <3>1, ErrorEventAnswered
  <2> QED BY <2>1, <2>2
<1>9. ASSUME NEW w \in work, WorkDone(w) PROVE Matched'
  <2>1. AnswerSent(w) /\ SameClient
    BY <1>9 DEF WorkDone
  <2>2. CASE sock \notin {"connecting", "open"}
    <3>1. srv' = srv
      BY <2>1, <2>2 DEF AnswerSent
    <3> QED BY <1>1, <2>1, <3>1, SameAnswered
  <2>3. CASE sock \in {"connecting", "open"} /\ w.con = conn /\ srv.at = w.do
    <3>1. w.do \in {"password", "sasl", "sasl next"}
      BY DEF ConnectInv, Typed, ConnTyped
    <3>2. srv'.at = Expects(w.do) /\ srv'.next = srv.next
      BY <2>1, <2>3 DEF AnswerSent, ConnectInv, Typed, ConnTyped, Session
    <3>3. srv.at \in Early /\ srv'.at \in Early
      BY <2>3, <3>1, <3>2 DEF Early, Expects
    <3> QED BY <1>0, <1>1, <2>1, <2>3, <3>2, <3>3, EarlyAnswered
  <2>4. CASE sock \in {"connecting", "open"} /\ ~(w.con = conn /\ srv.at = w.do)
    <3>1. srv'.at = "astray" /\ srv'.next = srv.next
      BY <2>1, <2>4 DEF AnswerSent, ConnectInv, Typed, ConnTyped, Session
    <3>2. srv'.at \notin Early
      BY <3>1 DEF Early
    <3> QED BY <1>0, <1>1, <2>1, <2>4, <3>1, <3>2, EarlyAnswered
  <2> QED BY <2>2, <2>3, <2>4
<1>10. ASSUME NEW w \in work, WorkFails(w) PROVE Matched'
  <2>1. CASE ConnectionFails
    BY <1>7, <2>1, ErrorEventAnswered
  <2>2. CASE ErrorOnly /\ UNCHANGED <<phaseVars, callVars, queueVars, sock, live, queryable, ticks>>
    <3>1. UNCHANGED <<target, mode, ready, srv, ran, active, got, connecting, handler, calls>>
      BY <2>2 DEF ErrorOnly, phaseVars, queueVars
    <3> QED BY <3>1, SameAnswered
  <2> QED BY <1>10, <2>1, <2>2 DEF WorkFails
<1> QED BY <1>4, <1>5, <1>6, <1>8, <1>9, <1>10

LEMMA MessagesAnswered ==
    ASSUME ConnectInv, AnyRole, Matched,
           ErrorMessage \/ ProtocolFallback \/ ProbeRow \/ CommandComplete
    PROVE  Matched'
<1> USE DEF configVars
<1>0. sock \in {"open", "ending"} => calls # 0
  BY DEF ConnectInv, Trying
<1>1. /\ \A at : Becomes(at) => srv' = [srv EXCEPT !.at = at]
      /\ srv \in Session
      /\ Nothing \notin Query /\ Probe \notin Query /\ Late \notin Query
  BY NoItems DEF Becomes, ConnectInv, Typed, ConnTyped
<1>2. CASE ErrorMessage
  <2>1. UNCHANGED <<target, mode, ran, calls>>
    BY <1>2 DEF ErrorMessage
  <2>2. CASE connecting \/ active = Nothing
    <3>1. HandleErrorEvent /\ srv' = srv
      BY <1>2, <2>2 DEF ErrorMessage
    <3> QED BY <2>1, <3>1, ErrorEventAnswered
  <2>3. CASE ~(connecting \/ active = Nothing)
    <3>1. /\ got' = (IF active \in Query THEN [got EXCEPT ![active] = "error"] ELSE got)
          /\ active' = Nothing /\ Becomes("done") /\ UNCHANGED <<phaseVars, ready>>
      BY <1>2, <2>3 DEF ErrorMessage
    <3>2. srv'.at = "done" /\ srv'.next = srv.next /\ ~ready
      BY <1>1, <2>3, <3>1 DEF Session, Matched
    <3>3. \A q \in Query : got'[q] = "result" => got[q] = "result"
      BY <3>1 DEF ConnectInv, Typed, QueueTyped
    <3>4. calls # 0
      BY <1>0, <1>2 DEF ErrorMessage, Message
    <3>5. UNCHANGED <<target, mode, ran, calls, ready, connecting, handler>>
      BY <2>1, <3>1 DEF phaseVars
    <3>6. /\ active' = Nothing /\ Nothing \notin Query /\ ~ready' /\ calls' # 0
          /\ srv'.at = "done" /\ srv'.next = Nothing
      BY <1>1, <3>1, <3>2, <3>4, <3>5 DEF Matched
    <3>7. \A q \in Query : got'[q] = "result" => ran'[q] # {}
      BY <3>3, <3>5 DEF Matched
    <3>8. mode' = "off" => ~handler'
      BY <3>5 DEF Matched
    <3> QED BY <3>6, <3>7, <3>8 DEF Matched, Early
  <2> QED BY <2>2, <2>3
<1>3. CASE ProtocolFallback
  <2>1. /\ srv.at = "start" /\ sock \in {"open", "ending"}
        /\ srv' = NotThere
        /\ UNCHANGED <<target, mode, active, ready, ran, got, connecting, handler, calls>>
    BY <1>3 DEF ProtocolFallback, FallsBack, Starts, Message, queueVars
  <2>2. srv.at \in Early /\ srv'.at \in Early /\ srv'.next = srv.next
    BY <2>1, StartsTyped DEF Early, Matched
  <2> QED BY <1>0, <2>1, <2>2, EarlyAnswered
<1>4. CASE ProbeRow
  <2>1. /\ srv.at = "run" /\ srv.on \in {Probe, Late} /\ Becomes("row") /\ sock \in {"open", "ending"}
        /\ UNCHANGED <<target, mode, active, ready, ran, got, connecting, handler, calls>>
    BY <1>4 DEF ProbeRow, Message, phaseVars, restVars
  <2>2. srv'.at = "row" /\ srv'.on = srv.on /\ srv'.next = srv.next
    BY <1>1, <2>1 DEF Session
  <2>3. active \notin Query
    BY <1>1, <2>1 DEF Matched
  <2> QED BY <1>0, <2>1, <2>2, <2>3 DEF Matched, Early
<1>5. CASE CommandComplete
  <2>1. /\ srv.at \in {"run", "row"} /\ sock \in {"open", "ending"} /\ Becomes("done")
        /\ UNCHANGED <<target, mode, active, ready, got, connecting, handler, calls>>
    BY <1>5 DEF CommandComplete, Message, phaseVars, queueVars
  <2>2. srv'.at = "done" /\ srv'.next = srv.next
    BY <1>1, <2>1 DEF Session
  <2>3. active \in Query => ran'[active] # {}
    <3>1. CASE srv.at = "row"
      BY <1>1, <3>1 DEF Matched
    <3>2. CASE srv.at = "run"
      <4>1. srv.on \in Query /\ ran' = [ran EXCEPT ![srv.on] = ran[srv.on] \cup {host}]
        BY <1>5, <3>2 DEF CommandComplete, Message
      <4>2. ran'[srv.on] # {}
        BY <4>1 DEF ConnectInv, Typed, QueueTyped
      <4> QED BY <3>2, <4>2 DEF Matched
    <3> QED BY <2>1, <3>1, <3>2
  <2>4. \A q \in Query : ran[q] # {} => ran'[q] # {}
    <3>1. ran' = ran \/ ran' = [ran EXCEPT ![srv.on] = ran[srv.on] \cup {host}]
      BY <1>5 DEF CommandComplete
    <3> QED BY <3>1 DEF ConnectInv, Typed, QueueTyped
  <2> QED BY <1>0, <2>1, <2>2, <2>3, <2>4 DEF Matched, Early
<1> QED BY <1>2, <1>3, <1>4, <1>5

LEMMA ReadyAnswered ==
    ASSUME ConnectInv, AnyRole, Matched,
           ReadyProbes \/ ReadySkips \/ ReadyConnects \/ ReadyGoesOn \/ ReadyAfterProbe
    PROVE  Matched'
<1>0. Ready
  BY DEF ReadyProbes, ReadySkips, ReadyConnects, ReadyGoesOn, ReadyAfterProbe, RoleKnown,
         queueVars
<1>1. /\ calls # 0 /\ queue \in Seq(Item) /\ (mode = "off" => ~handler)
  BY <1>0, AtReady DEF Matched
<1>2. UNCHANGED <<target, mode, ran, calls>>
  BY DEF ReadyProbes, ReadySkips, ReadyConnects, ReadyGoesOn, ReadyAfterProbe, RoleKnown,
         SameAtReady, configVars
<1>3. got' = Finished \/ got' = got
  BY DEF ReadyProbes, ReadySkips, ReadyConnects, ReadyGoesOn, ReadyAfterProbe, RoleKnown,
         queueVars
<1>4. \A q \in Query : got'[q] = "result" => ran[q] # {}
  BY <1>0, <1>3, FinishedAnswered DEF Matched, ConnectInv
<1>5. Append(queue, Probe) \in Seq(Item)
  BY <1>1, NoItems, OneMore
<1>10. Goes \in Session /\ Goes.at = "idle" /\ Goes.next = Nothing
  BY GoesIdle, GoesTyped DEF ConnectInv
<1>6. CASE ReadyProbes
  <2>1. /\ target # "any" /\ UNCHANGED phaseVars
        /\ Pulses(IF Refused THEN queue ELSE Append(queue, Probe), Writable, Goes)
    BY <1>6 DEF ReadyProbes, NeedsProbe
  <2>2. ~(target = "any" /\ connecting') /\ (mode = "off" => ~handler')
    BY <1>1, <2>1 DEF phaseVars
  <2> QED BY <1>1, <1>2, <1>4, <1>5, <2>1, <2>2, <1>10, PulsesAnswered
<1>7. CASE ReadyConnects
  <2>1. Pulses(queue, Writable, Goes) /\ ~connecting' /\ ~handler'
    BY <1>7, PiecesCalm DEF ReadyConnects
  <2> QED BY <1>1, <1>2, <1>4, <2>1, <1>10, PulsesAnswered
<1>8. CASE ReadyGoesOn
  <2>1. ~(connecting /\ target = "any") /\ UNCHANGED phaseVars /\ Pulses(queue, Writable, Goes)
    BY <1>8 DEF ReadyGoesOn
  <2>2. ~(target = "any" /\ connecting') /\ (mode = "off" => ~handler')
    BY <1>1, <2>1 DEF phaseVars
  <2> QED BY <1>1, <1>2, <1>4, <2>1, <2>2, <1>10, PulsesAnswered
<1>9. CASE ReadyAfterProbe
  <2>1. active = Probe
    BY <1>9 DEF ReadyAfterProbe, RoleKnown
  <2>2. target # "any" /\ ~handler
    BY <2>1, ProbeAlone
  <2>3. Calmer
    <3>1. Succeeds \/ SkipsHost(ticks)
      BY <1>9 DEF ReadyAfterProbe, RoleKnown
    <3> QED BY <2>2, <3>1, PiecesCalm DEF Calmer
  <2>4. ~(target = "any" /\ connecting') /\ (mode = "off" => ~handler')
    BY <2>2, <2>3 DEF Calmer
  <2>5. \E up : Pulses(queue, up, Goes)
    BY <1>9 DEF ReadyAfterProbe, RoleKnown
  <2> QED BY <1>1, <1>2, <1>4, <2>4, <2>5, <1>10, PulsesAnswered
<1>11. CASE ReadySkips
  <2>1. /\ SkipsHost(ticks) /\ target # "any" /\ UNCHANGED <<srv, queueVars>>
    BY <1>11 DEF ReadySkips, NeedsProbe
  <2>2. Calmer
    BY <1>1, <2>1, PiecesCalm DEF AnyRole
  <2> QED BY <1>2, <2>1, <2>2, SameAnswered DEF Calmer, queueVars
<1> QED BY <1>6, <1>7, <1>8, <1>9, <1>11

LEMMA AnsweredStep ==
    ASSUME ConnectInv, Answered, [Next]_vars
    PROVE  Answered'
<1> USE DEF configVars
<1>0. UNCHANGED <<target, mode>>
  <2>1. Next => UNCHANGED configVars
    BY DEF Next, Connect, ConnectTo, ConnectAgain, Ask, Asks, End, ConnectionTimeout, TimesOut,
       Connected, SocketError, SocketClosed, TryNextHost, Refuse, FailQuery, AuthRequest,
       AuthSASLContinue, AuthOk, AuthSASLFinal, SameClient, ConnectionFails, ErrorOnly, WorkDone,
       WorkFails, ErrorMessage, ProtocolFallback, FallsBack, ProbeRow, CommandComplete,
       ReadyProbes, ReadySkips, ReadyConnects, ReadyGoesOn, ReadyAfterProbe, RoleKnown,
       ProbeTimesOut,
       SameAtReady
  <2> QED BY <2>1 DEF vars
<1> SUFFICES ASSUME AnyRole PROVE Matched'
  BY <1>0 DEF Answered, AnyRole
<1>1. Matched
  BY DEF Answered
<1>2. ASSUME NEW order, NEW balances \in BOOLEAN, ConnectTo(order, balances),
             mode = "off" => ~balances
      PROVE  Matched'
  <2>1. calls = 0 /\ calls' = 1 /\ UNCHANGED <<active, ready, got, ran>>
    BY <1>2 DEF ConnectTo, queueVars
  <2>2. srv.at = "away" /\ active = Nothing /\ ~ready
    BY <1>1, <2>1 DEF Matched, Early
  <2>3. srv' = srv \/ srv' = NotThere
    BY <1>2 DEF ConnectTo, TriesHost, Starts
  <2>4. srv'.at = "away" /\ srv'.next = Nothing
    BY <1>1, <2>2, <2>3, StartsTyped DEF Matched
  <2>5. mode = "off" => ~handler'
    BY <1>2 DEF ConnectTo
  <2>6. Nothing \notin Query
    BY NoItems
  <2> QED BY <1>0, <1>1, <2>1, <2>2, <2>4, <2>5, <2>6 DEF Matched, Early
<1>3. CASE Connect
  BY <1>2, <1>3 DEF Connect
<1>4. CASE ConnectAgain
  <2>1. calls' # 0 /\ UNCHANGED <<target, mode, ready, srv, ran, active, got, connecting, handler>>
    BY <1>4 DEF ConnectAgain, connVars, queueVars, phaseVars, ConnectInv, Typed, CallTyped
  <2> QED BY <1>1, <2>1, SameAnswered
<1>5. CASE Ask
  <2>1. asked' \in Item /\ UNCHANGED <<target, mode, got, ran, connecting, handler, calls>>
    BY <1>5, ConnectAssumption, NoItems
       DEF Ask, Asks, phaseVars, ConnectInv, Typed, QueueTyped, Query
  <2>2. CASE ready
    <3>1. Pulses(Append(queue, asked'), Writable, srv) /\ Append(queue, asked') \in Seq(Item)
      BY <1>5, <2>1, <2>2, OneMore DEF Ask, Asks, ConnectInv, Typed, QueueTyped
    <3>2. /\ ~(target = "any" /\ connecting) /\ calls # 0 /\ srv \in Session
          /\ srv.at \in {"idle", "astray"} /\ srv.next = Nothing
      BY <1>1, <2>2 DEF Matched, Early, ConnectInv, Typed, ConnTyped
    <3>3. \A q \in Query : got'[q] = "result" => ran[q] # {}
      BY <1>1, <2>1 DEF Matched
    <3>4. mode = "off" => ~handler'
      BY <1>1, <2>1 DEF Matched
    <3> QED BY <2>1, <3>1, <3>2, <3>3, <3>4, PulsesAnswered
  <2>3. CASE ~ready
    <3>1. UNCHANGED <<active, ready, srv>>
      BY <1>5, <2>3 DEF Ask, Asks
    <3> QED BY <1>1, <2>1, <3>1, SameAnswered
  <2> QED BY <2>2, <2>3
<1>6. CASE End \/ ConnectionTimeout
  <2>1. UNCHANGED <<target, mode, ready, srv, ran, active, got, connecting, handler, calls>>
    BY <1>6 DEF End, ConnectionTimeout, TimesOut, Keeps, queueVars, phaseVars, restVars
  <2> QED BY <1>1, <2>1, SameAnswered
<1>7. CASE Connected
  <2>1. /\ UNCHANGED <<target, mode, ready, ran, active, got, connecting, handler, calls>>
        /\ srv' = (IF srv.at = "away" THEN [srv EXCEPT !.at = "start"] ELSE srv)
        /\ sock \in {"connecting", "dropping"}
    BY <1>7 DEF Connected, queueVars, phaseVars, restVars
  <2>2. calls # 0
    BY <2>1 DEF ConnectInv, Trying
  <2>3. CASE srv.at = "away"
    <3>1. srv.at \in Early /\ srv'.at \in Early /\ srv'.next = srv.next
      BY <2>1, <2>3 DEF Early, ConnectInv, Typed, ConnTyped, Session
    <3> QED BY <1>1, <2>1, <2>2, <3>1, EarlyAnswered
  <2>4. CASE srv.at # "away"
    BY <1>1, <2>1, <2>4, SameAnswered
  <2> QED BY <2>3, <2>4
<1>8. CASE SocketError
  <2>1. HandleErrorEvent /\ UNCHANGED <<target, mode, srv, ran, calls>>
    BY <1>8 DEF SocketError, Keeps
  <2> QED BY <1>1, <2>1, ErrorEventAnswered
<1>9. CASE SocketClosed
  <2>1. (LeavesHost(~skip) /\ UNCHANGED queueVars) \/ EndsClient
    BY <1>9 DEF SocketClosed
  <2>2. Calmer /\ active' \in {active, Nothing} /\ UNCHANGED <<ready, got>>
    BY <2>1, PiecesCalm DEF EndsClient, Drops, queueVars
  <2>3. UNCHANGED <<target, mode, srv, ran, calls>>
    BY <1>9 DEF SocketClosed, Keeps
  <2> QED BY <1>1, <2>2, <2>3, SameAnswered DEF Calmer
<1>10. CASE TryNextHost
  <2>1. /\ ticks # <<>> /\ Head(ticks).do = "next"
        /\ UNCHANGED <<target, mode, active, ready, ran, got, calls>>
    BY <1>10 DEF TryNextHost, RunsTick, queueVars
  <2>2. NextIn(ticks)
    BY <2>1, RestHas DEF ConnectInv, Typed, RestTyped
  <2>3. handler /\ connecting /\ calls # 0
    BY <2>2 DEF ConnectInv, OneNext, Trying, Hopeful
  <2>4. target = "any" /\ active = Nothing /\ ~ready /\ mode # "off"
    BY <1>1, <2>3 DEF AnyRole, Matched
  <2>5. CASE todo = <<>>
    <3>1. Calmer /\ srv' = srv
      BY <1>10, <2>5, PiecesCalm DEF TryNextHost
    <3> QED BY <1>1, <2>1, <3>1, SameAnswered DEF Calmer
  <2>6. CASE todo # <<>>
    <3>1. srv' = NotThere
      BY <1>10, <2>6 DEF TryNextHost, TriesHost, Starts
    <3>2. srv'.at = "away" /\ srv'.next = Nothing /\ Nothing \notin Query
      BY <3>1, NoItems, StartsTyped
    <3> QED BY <1>1, <2>1, <2>3, <2>4, <3>2 DEF Matched, Early
  <2> QED BY <2>5, <2>6
<1>11. CASE Refuse
  <2>1. UNCHANGED <<target, mode, ready, srv, ran, active, got, connecting, handler, calls>>
    BY <1>11 DEF Refuse, connVars, queueVars, phaseVars
  <2> QED BY <1>1, <2>1, SameAnswered
<1>12. CASE FailQuery
  <2>1. /\ ticks # <<>> /\ Head(ticks).do = "fail"
        /\ got' = (IF Head(ticks).arg \in Query THEN [got EXCEPT ![Head(ticks).arg] = "error"] ELSE got)
        /\ UNCHANGED <<target, mode, ready, srv, ran, active, calls>>
    BY <1>12 DEF FailQuery, RunsTick, Keeps
  <2>2. \A q \in Query : got'[q] = "result" => got[q] = "result"
    BY <2>1 DEF ConnectInv, Typed, QueueTyped
  <2>3. Calmer
    <3>1. CASE Head(ticks).arg = Probe
      <4>1. Head(ticks) \in TickRecord /\ ticks \in Seq(TickRecord)
        BY <2>1, RestOf DEF ConnectInv, Typed, RestTyped
      <4>2. Head(ticks) \in [do : {"fail"}, arg : Item]
        BY <2>1, <4>1 DEF TickRecord
      <4>3. IsProbe(Head(ticks))
        BY <3>1, <4>2 DEF IsProbe, Tick
      <4>4. FailsIn(ticks)
        <5>1. ProbeOnce(ticks)
          BY DEF ConnectInv, OneProbe, OncePlaced, ProbeOnce
        <5> QED BY <2>1, <4>1, <4>3, <5>1, RestHas
      <4>5. ~handler
        BY <1>1, <4>4, ProbeAlone
      <4>6. SkipsHost(Tail(ticks))
        BY <1>12, <3>1 DEF FailQuery
      <4> QED BY <4>5, <4>6, PiecesCalm
    <3>2. CASE Head(ticks).arg # Probe
      BY <1>12, <3>2 DEF FailQuery, Calmer, phaseVars
    <3> QED BY <3>1, <3>2
  <2> QED BY <1>1, <2>1, <2>2, <2>3, SameAnswered DEF Calmer
<1>13. CASE ProbeTimesOut
  <2>1. /\ active = Probe \/ Places # {}
        /\ SkipsHost(ticks)
        /\ active' = (IF active = Probe THEN Late ELSE active)
        /\ srv' = (IF srv.on = Probe THEN [srv EXCEPT !.on = Late] ELSE srv)
        /\ UNCHANGED <<target, mode, ready, ran, got, calls>>
    BY <1>13 DEF ProbeTimesOut, SameAtReady
  <2>2. active = Probe \/ Waits(queue)
    BY <2>1 DEF Places, Waits
  <2>3. target # "any" /\ ~handler
    BY <1>1, <2>2, ProbeAlone
  <2>4. Calmer
    BY <2>1, <2>3, PiecesCalm
  <2>5. /\ srv'.at = srv.at /\ srv'.next = srv.next
        /\ (srv.on # Probe => srv'.on = srv.on) /\ (srv.on = Probe => srv'.on = Late)
    BY <2>1 DEF ConnectInv, Typed, ConnTyped, Session
  <2>6. /\ Probe \notin Query /\ Late \notin Query /\ Probe # Nothing
    BY NoItems
  <2> QED BY <1>1, <2>1, <2>3, <2>4, <2>5, <2>6 DEF Matched, Calmer
<1>14. CASE UNCHANGED vars
  <2>1. UNCHANGED <<target, mode, ready, srv, ran, active, got, connecting, handler, calls>>
    BY <1>14 DEF vars, connVars, queueVars, phaseVars, restVars
  <2> QED BY <1>1, <2>1, SameAnswered
<1> QED
  BY <1>1, <1>3, <1>4, <1>5, <1>6, <1>7, <1>8, <1>9, <1>10, <1>11, <1>12, <1>13, <1>14,
     AuthAnswered, MessagesAnswered, ReadyAnswered DEF Next

\* A query is told a result only if a server ran it, where no host is left for its
\* role: a query asked for while the client connects is not written before the
\* connection is ready, and not taken for another (client.js, _pulseQueryQueue).
THEOREM ResultsWereRun == Spec => []ResultsAreReal
<1> DEFINE IInv == ConnectInv /\ Answered
<1>1. Init => IInv
  BY ConnectInvInit, AnsweredInit
<1>2. IInv /\ [Next]_vars => IInv'
  BY ConnectInvStep, AnsweredStep
<1>3. IInv => ResultsAreReal
  BY DEF Answered, AnyRole, Matched, ResultsAreReal
<1> QED BY <1>1, <1>2, <1>3, PTL DEF Spec
=============================================================================
