------------------------- MODULE ClientQueueProofs -------------------------
(***************************************************************************)
(* Proofs about ClientQueue, for every number of queries and of calls of   *)
(* client.end, with or without query_timeout.                              *)
(***************************************************************************)
EXTENDS ClientQueue, SequenceTheorems, TLAPS

-----------------------------------------------------------------------------
\* The inductive invariant.

Refuses(tk) == \E i \in 1..Len(tk) : tk[i].do = "refuse"
RefusesOnce(tk) ==
    \A i, j \in 1..Len(tk) : tk[i].do = "refuse" /\ tk[j].do = "refuse" => i = j

Refusing == Refuses(ticks)
Quiet == server.at \in {"idle", "gone"}

\* Readiness is in one place only: in readyForQuery, in the tick of a refused
\* query, or in the rest of the handler that ran that tick.  Wherever it is,
\* the server has nothing to answer.
OneReadiness ==
    /\ readyForQuery => Quiet /\ activeQuery = NoQuery /\ ~Refusing /\ rest # "ready"
    /\ Refusing => Quiet /\ rest # "ready"
    /\ rest = "ready" => Quiet
    /\ RefusesOnce(ticks)

\* As long as chunks can arrive, an answer finds its query active.
Matched ==
    reading \/ stream \in {"open", "ending"} =>
        /\ server.at = "run" => activeQuery = server.on
        /\ server.at = "done" => activeQuery \in {server.on, NoQuery}

\* A queue beside a ready client is taken up by the rest of the handler.
Taken == readyForQuery /\ queryQueue # <<>> => rest = "pulse"

\* Nothing happens on a closed connection.
Closed ==
    ended => /\ stream = "closed" /\ ~reading /\ rest = "nothing" /\ ~Refusing
             /\ queryQueue = <<>> /\ activeQuery = NoQuery
             /\ ending \/ ~queryable
             /\ endTold = endAsked

\* A refused query stays active until its tick, unless the session is over.
Refused ==
    /\ Refusing => activeQuery # NoQuery \/ server.at = "gone"
    /\ fault => server.at = "gone"

\* The server runs something only for a query.
Running == server.at = "run" => server.on \in Query

QueueInv == TypeOK /\ OneReadiness /\ Matched /\ Taken /\ Closed /\ Refused /\ Running

-----------------------------------------------------------------------------
\* What the pieces of the handlers do to the query objects.

\* A query object with one field changed is still a query object.
LEMMA ChangedRecord ==
    ASSUME NEW x \in QueryRecord
    PROVE  /\ \A v \in BOOLEAN : /\ [x EXCEPT !.canceled = v] \in QueryRecord
                                 /\ [x EXCEPT !.silenced = v] \in QueryRecord
                                 /\ [x EXCEPT !.timer = v] \in QueryRecord
           /\ \A n \in Nat : [x EXCEPT !.told = n] \in QueryRecord
           /\ \A what \in {"result", "error"} : [x EXCEPT !.got = what] \in QueryRecord
           /\ x.told + 1 \in Nat
  BY DEF QueryRecord

LEMMA ToldType ==
    ASSUME NEW qs \in [Query -> QueryRecord], NEW q \in Query, NEW what \in {"result", "error"}
    PROVE  Told(qs, q, what) \in [Query -> QueryRecord]
<1> DEFINE x == qs[q]
           counted == [x EXCEPT !.told = x.told + 1]
           named == [counted EXCEPT !.got = what]
           y == [named EXCEPT !.timer = FALSE]
<1>1. x \in QueryRecord
  OBVIOUS
<1>2. Told(qs, q, what) = IF x.silenced THEN qs ELSE [qs EXCEPT ![q] = y]
  BY Zenon DEF Told
<1> HIDE DEF x
<1>3. counted \in QueryRecord
  BY <1>1, ChangedRecord
<1> HIDE DEF counted
<1>4. named \in QueryRecord
  BY <1>3, ChangedRecord
<1> HIDE DEF named
<1>5. y \in QueryRecord
  BY <1>4, ChangedRecord
<1> HIDE DEF y
<1> QED BY <1>2, <1>5

LEMMA HandleErrorType ==
    ASSUME NEW qs \in [Query -> QueryRecord], NEW q \in Query
    PROVE  HandleError(qs, q) \in [Query -> QueryRecord]
<1> DEFINE heard == Told(qs, q, "error")
           y == [heard[q] EXCEPT !.canceled = FALSE]
<1>1. heard \in [Query -> QueryRecord]
  BY ToldType
<1>2. HandleError(qs, q) = [heard EXCEPT ![q] = y]
  BY DEF HandleError
<1> HIDE DEF heard
<1>3. y \in QueryRecord
  BY <1>1, ChangedRecord
<1> HIDE DEF y
<1> QED BY <1>1, <1>2, <1>3

LEMMA HandleReadyType ==
    ASSUME NEW qs \in [Query -> QueryRecord], NEW q \in Query
    PROVE  HandleReady(qs, q) \in [Query -> QueryRecord]
  BY ToldType, HandleErrorType DEF HandleReady

LEMMA SilencedType ==
    ASSUME query \in [Query -> QueryRecord], NEW q \in Query
    PROVE  Silenced(q) \in [Query -> QueryRecord]
<1> DEFINE t == Told(query, q, "error")[q]
           y == [t EXCEPT !.silenced = TRUE]
<1>1. t \in QueryRecord
  BY ToldType
<1>2. Silenced(q) = [query EXCEPT ![q] = y]
  BY DEF Silenced
<1> HIDE DEF t
<1>3. y \in QueryRecord
  BY <1>1, ChangedRecord
<1> HIDE DEF y
<1> QED BY <1>2, <1>3

\* What is left of the queue is a queue, and nothing is left of an empty one.
LEMMA WithoutType ==
    ASSUME queryQueue \in Seq(Query), NEW q \in Query
    PROVE  Without(q) \in Seq(Query) /\ (queryQueue = <<>> => Without(q) = <<>>)
<1>1. CASE Places(q) = {}
  BY <1>1 DEF Without
<1>2. CASE Places(q) # {}
  <2>1. PICK i \in Places(q) : Without(q) = RemoveAt(queryQueue, i)
    BY <1>2 DEF Without
  <2>2. i \in 1..Len(queryQueue) /\ queryQueue # <<>>
    BY DEF Places
  <2>3. SubSeq(queryQueue, 1, i - 1) \in Seq(Query)
        /\ SubSeq(queryQueue, i + 1, Len(queryQueue)) \in Seq(Query)
    BY <2>2, SubSeqProperties
  <2> QED BY <2>1, <2>2, <2>3, ConcatProperties DEF RemoveAt
<1> QED BY <1>1, <1>2

\* The queries that the end of a connection tells are told by ticks that
\* refuse nothing.
LEMMA ErrorAllTells ==
    ASSUME TypeOK
    PROVE  /\ ErrorAll \in Seq(Tick)
           /\ \A i \in 1..Len(ErrorAll) : ErrorAll[i].do = "tell"
<1>1. Active \in Seq(Query)
  BY DEF Active, TypeOK
<1>2. Unanswered \in Seq(Query)
  BY <1>1, ConcatProperties DEF Unanswered, TypeOK
<1>3. \A i \in 1..Len(Unanswered) : Unanswered[i] \in Query
  BY <1>2, ElementOfSeq
<1>4. \A q \in Query : Telling(q) \in Tick /\ Telling(q).do = "tell"
  BY DEF Telling, Tick
<1>5. Len(Unanswered) \in Nat
  BY <1>2, LenProperties
<1>6. ErrorAll \in [1..Len(Unanswered) -> Tick]
  BY <1>3, <1>4 DEF ErrorAll
<1>7. ErrorAll \in Seq(Tick) /\ Len(ErrorAll) = Len(Unanswered)
  BY <1>5, <1>6, SeqDef
<1> QED BY <1>3, <1>4, <1>7 DEF ErrorAll

-----------------------------------------------------------------------------
\* Ticks that refuse a query among the others.

\* A tick that refuses nothing may come last.
LEMMA AppendTells ==
    ASSUME NEW tk \in Seq(Tick), NEW t \in Tick, t.do # "refuse"
    PROVE  /\ Append(tk, t) \in Seq(Tick)
           /\ Refuses(Append(tk, t)) => Refuses(tk)
           /\ RefusesOnce(tk) => RefusesOnce(Append(tk, t))
<1>1. /\ Append(tk, t) \in Seq(Tick)
      /\ Len(Append(tk, t)) = Len(tk) + 1
      /\ Len(tk) \in Nat
      /\ \A i \in 1..Len(tk) : Append(tk, t)[i] = tk[i]
      /\ Append(tk, t)[Len(tk) + 1] = t
  BY AppendProperties, LenProperties
<1>2. \A i \in 1..Len(Append(tk, t)) :
         Append(tk, t)[i].do = "refuse" => i \in 1..Len(tk) /\ tk[i].do = "refuse"
  BY <1>1
<1> QED BY <1>1, <1>2 DEF Refuses, RefusesOnce

\* One that refuses a query is the only one if there was none.
LEMMA AppendRefuses ==
    ASSUME NEW tk \in Seq(Tick), NEW t \in Tick, ~Refuses(tk)
    PROVE  Append(tk, t) \in Seq(Tick) /\ RefusesOnce(Append(tk, t))
<1>1. /\ Append(tk, t) \in Seq(Tick)
      /\ Len(Append(tk, t)) = Len(tk) + 1
      /\ Len(tk) \in Nat
      /\ \A i \in 1..Len(tk) : Append(tk, t)[i] = tk[i]
  BY AppendProperties, LenProperties
<1>2. \A i \in 1..Len(Append(tk, t)) :
         Append(tk, t)[i].do = "refuse" => i = Len(tk) + 1
  BY <1>1 DEF Refuses
<1> QED BY <1>1, <1>2 DEF RefusesOnce

\* Ticks that refuse nothing may follow.
LEMMA ConcatTells ==
    ASSUME NEW tk \in Seq(Tick), NEW s \in Seq(Tick), ~Refuses(s)
    PROVE  /\ tk \o s \in Seq(Tick)
           /\ Refuses(tk \o s) => Refuses(tk)
           /\ RefusesOnce(tk) => RefusesOnce(tk \o s)
<1>1. /\ tk \o s \in Seq(Tick)
      /\ Len(tk \o s) = Len(tk) + Len(s)
      /\ Len(tk) \in Nat /\ Len(s) \in Nat
      /\ \A i \in 1..(Len(tk) + Len(s)) :
            (tk \o s)[i] = IF i <= Len(tk) THEN tk[i] ELSE s[i - Len(tk)]
  BY ConcatProperties, LenProperties
<1>2. \A i \in 1..Len(tk \o s) :
         (tk \o s)[i].do = "refuse" => i \in 1..Len(tk) /\ tk[i].do = "refuse"
  <2> SUFFICES ASSUME NEW i \in 1..Len(tk \o s), (tk \o s)[i].do = "refuse"
               PROVE  i \in 1..Len(tk) /\ tk[i].do = "refuse"
    OBVIOUS
  <2>1. CASE i <= Len(tk)
    BY <1>1, <2>1
  <2>2. CASE ~(i <= Len(tk))
    <3>1. i - Len(tk) \in 1..Len(s) /\ (tk \o s)[i] = s[i - Len(tk)]
      BY <1>1, <2>2
    <3> QED BY <3>1 DEF Refuses
  <2> QED BY <2>1, <2>2
<1> QED BY <1>1, <1>2 DEF Refuses, RefusesOnce

\* The tick that runs is gone.
LEMMA TailTells ==
    ASSUME NEW tk \in Seq(Tick), tk # <<>>, RefusesOnce(tk)
    PROVE  /\ Head(tk) \in Tick /\ Tail(tk) \in Seq(Tick)
           /\ Refuses(Tail(tk)) => Refuses(tk) /\ Head(tk).do # "refuse"
           /\ Head(tk).do = "refuse" => Refuses(tk)
           /\ RefusesOnce(Tail(tk))
<1>1. /\ Head(tk) \in Tick /\ Tail(tk) \in Seq(Tick)
      /\ Len(tk) \in Nat /\ Len(tk) > 0
      /\ Len(Tail(tk)) = Len(tk) - 1
      /\ Head(tk) = tk[1]
      /\ \A i \in 1..Len(Tail(tk)) : Tail(tk)[i] = tk[i + 1]
  BY HeadTailProperties, LenProperties, EmptySeq
<1>2. \A i \in 1..Len(Tail(tk)) : i + 1 \in 1..Len(tk) /\ i + 1 # 1
  BY <1>1
<1> QED BY <1>1, <1>2 DEF Refuses, RefusesOnce

-----------------------------------------------------------------------------
\* What _pulseQueryQueue leaves behind.

\* What the server may be after the client has sent something for query q.
LEMMA SentType ==
    ASSUME server \in Server, NEW q \in Query, NEW at \in {"run", "waiting"}
    PROVE  /\ Sent(q, at) \in Server
           /\ server.at = "gone" => Sent(q, at) = server
           /\ Sent(q, at) = server \/ Sent(q, at) = [on |-> q, at |-> at]
  BY DEF Sent, Server

\* Either nothing is submitted, or the head of the queue becomes active and a
\* refused query alone adds a tick that refuses.
LEMMA PulseCases ==
    ASSUME TypeOK, NEW que \in Seq(Query), NEW ready \in BOOLEAN,
           NEW qs \in [Query -> QueryRecord], NEW tk \in Seq(Tick),
           Pulse(que, ready, qs, tk)
    PROVE  /\ query' \in [Query -> QueryRecord] /\ queryQueue' \in Seq(Query)
           /\ connEnding' \in BOOLEAN /\ readyForQuery' \in BOOLEAN
           /\ \/ /\ ready /\ que # <<>> /\ ~readyForQuery' /\ activeQuery' \in Query
                 /\ ticks' = tk
                 /\ \/ server' = server
                    \/ server' = [on |-> activeQuery', at |-> "run"] /\ server.at # "gone"
                    \/ server' = [on |-> activeQuery', at |-> "waiting"] /\ server.at # "gone"
              \/ /\ ready /\ que # <<>> /\ ~readyForQuery' /\ activeQuery' \in Query
                 /\ \E t \in Tick : ticks' = Append(tk, t)
                 /\ server' = server
              \/ /\ ready /\ que = <<>> /\ readyForQuery' /\ activeQuery' = NoQuery
                 /\ queryQueue' = que /\ ticks' = tk /\ server' = server
              \/ /\ ~ready /\ ~readyForQuery' /\ activeQuery' = activeQuery
                 /\ queryQueue' = que /\ ticks' = tk /\ server' = server
<1>1. CASE ready /\ que # <<>>
  <2>1. /\ activeQuery' = Head(que) /\ queryQueue' = Tail(que) /\ readyForQuery' = FALSE
        /\ Submit(Head(que), qs, tk)
    BY <1>1 DEF Pulse
  <2>2. Head(que) \in Query /\ Tail(que) \in Seq(Query)
    BY <1>1, HeadTailProperties
  <2>3. HandleError(qs, Head(que)) \in [Query -> QueryRecord]
    BY <2>2, HandleErrorType
  <2>4. connEnding \in BOOLEAN /\ server \in Server
    BY DEF TypeOK
  <2>5. query' \in [Query -> QueryRecord] /\ connEnding' \in BOOLEAN
    BY <2>1, <2>3, <2>4 DEF Submit
  <2>6. \/ ticks' = tk /\ server' \in {Sent(Head(que), "run"), Sent(Head(que), "waiting")}
        \/ (\E t \in Tick : ticks' = Append(tk, t)) /\ server' = server
    BY <2>1, <2>2 DEF Submit, Tick
  <2>7. \A at \in {"run", "waiting"} :
           \/ Sent(Head(que), at) = server
           \/ Sent(Head(que), at) = [on |-> Head(que), at |-> at] /\ server.at # "gone"
    BY DEF Sent
  <2> QED BY <1>1, <2>1, <2>2, <2>5, <2>6, <2>7
<1>2. CASE ready /\ que = <<>>
  BY <1>2 DEF Pulse, TypeOK
<1>3. CASE ~ready
  BY <1>3 DEF Pulse, TypeOK
<1> QED BY <1>1, <1>2, <1>3

\* A handler that pulses, with the flag set only while the server has nothing
\* to answer and no refused query is left, keeps the invariant.
LEMMA PulseKeeps ==
    ASSUME QueueInv, NEW que \in Seq(Query), NEW ready \in BOOLEAN,
           NEW qs \in [Query -> QueryRecord], NEW tk \in Seq(Tick),
           Pulse(que, ready, qs, tk),
           RefusesOnce(tk), Refuses(tk) => Refusing,
           ready => Quiet /\ ~Refuses(tk) /\ rest' # "ready",
           readyForQuery => ready,
           ended => que = <<>>,
           rest' \in {rest, "nothing"}, asked' \in 0..NumQueries,
           endAsked' = endAsked, endTold' = endTold,
           ending' = ending, queryable' = queryable, ended' = ended, stream' = stream,
           connecting' = connecting, reading' = reading, fault' = fault
    PROVE  QueueInv'
<1>1. TypeOK /\ OneReadiness /\ Matched /\ Taken /\ Closed /\ Refused /\ Running
  BY DEF QueueInv
<1>2. /\ query' \in [Query -> QueryRecord] /\ queryQueue' \in Seq(Query)
      /\ connEnding' \in BOOLEAN /\ readyForQuery' \in BOOLEAN
      /\ \/ /\ ready /\ que # <<>> /\ ~readyForQuery' /\ activeQuery' \in Query
            /\ ticks' = tk
            /\ \/ server' = server
               \/ server' = [on |-> activeQuery', at |-> "run"] /\ server.at # "gone"
               \/ server' = [on |-> activeQuery', at |-> "waiting"] /\ server.at # "gone"
         \/ /\ ready /\ que # <<>> /\ ~readyForQuery' /\ activeQuery' \in Query
            /\ \E t \in Tick : ticks' = Append(tk, t)
            /\ server' = server
         \/ /\ ready /\ que = <<>> /\ readyForQuery' /\ activeQuery' = NoQuery
            /\ queryQueue' = que /\ ticks' = tk /\ server' = server
         \/ /\ ~ready /\ ~readyForQuery' /\ activeQuery' = activeQuery
            /\ queryQueue' = que /\ ticks' = tk /\ server' = server
  BY <1>1, PulseCases
<1>3. ASSUME ready, \E t \in Tick : ticks' = Append(tk, t)
      PROVE  ticks' \in Seq(Tick) /\ RefusesOnce(ticks')
  <2>1. PICK t \in Tick : ticks' = Append(tk, t)
    BY <1>3
  <2>2. ~Refuses(tk)
    BY <1>3
  <2>3. Append(tk, t) \in Seq(Tick) /\ RefusesOnce(Append(tk, t))
    BY <2>2, AppendRefuses
  <2> QED BY <2>1, <2>3 DEF RefusesOnce
<1>4. ticks' \in Seq(Tick) /\ RefusesOnce(ticks')
  <2>1. CASE ticks' = tk
    BY <2>1 DEF RefusesOnce
  <2> QED BY <1>2, <1>3, <2>1
<1>5. Refusing' <=> Refuses(ticks')
  BY DEF Refusing, Refuses
<1>6. RefusesOnce(ticks)' <=> RefusesOnce(ticks')
  BY DEF RefusesOnce
<1>7. TypeOK'
  <2>1. server' \in Server /\ activeQuery' \in Query \cup {NoQuery}
    BY <1>1, <1>2 DEF TypeOK, Server
  <2>2. rest' \in {"nothing", "pulse", "ready"}
    BY <1>1 DEF TypeOK
  <2> QED BY <1>1, <1>2, <1>4, <2>1, <2>2 DEF TypeOK
<1>8. OneReadiness'
  <2>1. readyForQuery' => Quiet' /\ activeQuery' = NoQuery /\ ~Refusing' /\ rest' # "ready"
    BY <1>2, <1>5 DEF Quiet
  <2>2. Refusing' => Quiet' /\ rest' # "ready"
    BY <1>1, <1>2, <1>5 DEF Quiet, OneReadiness
  <2>3. rest' = "ready" => Quiet'
    BY <1>1, <1>2 DEF Quiet, OneReadiness
  <2> QED BY <1>4, <1>6, <2>1, <2>2, <2>3 DEF OneReadiness
<1>9. Matched'
  BY <1>1, <1>2 DEF Matched, Quiet
<1>10. Taken'
  BY <1>2 DEF Taken
<1>11. Closed'
  BY <1>1, <1>2, <1>5 DEF Closed
<1>12. Refused'
  <2>1. Refusing' => activeQuery' # NoQuery \/ server'.at = "gone"
    BY <1>1, <1>2, <1>5, NullAssumption DEF Refused
  <2>2. fault' => server'.at = "gone"
    BY <1>1, <1>2 DEF Refused
  <2> QED BY <2>1, <2>2 DEF Refused
<1>13. Running'
  BY <1>1, <1>2 DEF Running
<1> QED BY <1>7, <1>8, <1>9, <1>10, <1>11, <1>12, <1>13 DEF QueueInv
-----------------------------------------------------------------------------
\* One lemma for each action: it keeps the invariant.

LEMMA InitHolds == Init => QueueInv
<1> SUFFICES ASSUME Init PROVE QueueInv
  OBVIOUS
<1>1. query \in [Query -> QueryRecord]
  <2>1. \A k \in Kinds : [kind |-> k, told |-> 0, got |-> "nothing", timer |-> FALSE,
                          silenced |-> FALSE, canceled |-> FALSE] \in QueryRecord
    BY KindsAssumption DEF QueryRecord
  <2> QED BY <2>1 DEF Init
<1>2. TypeOK
  <2>1. server \in Server /\ stream \in Stream
    BY DEF Init, Stream, Server
  <2>2. {readyForQuery, queryable, ending, ended, connEnding, connecting, reading, fault}
           \subseteq BOOLEAN
    BY DEF Init
  <2>3. asked \in 0..NumQueries /\ endAsked \in 0..MaxEnds /\ endTold \in 0..MaxEnds
    BY NumAssumption DEF Init
  <2>4. /\ queryQueue \in Seq(Query) /\ activeQuery \in Query \cup {NoQuery}
        /\ ticks \in Seq(Tick) /\ rest \in {"nothing", "pulse", "ready"}
    BY DEF Init
  <2> QED BY <1>1, <2>1, <2>2, <2>3, <2>4 DEF TypeOK
<1>3. ~Refusing /\ RefusesOnce(ticks)
  BY DEF Init, Refusing, Refuses, RefusesOnce
<1>4. OneReadiness /\ Matched /\ Taken /\ Closed /\ Refused /\ Running
  BY <1>3 DEF Init, OneReadiness, Matched, Taken, Closed, Refused, Running
<1> QED BY <1>2, <1>4 DEF QueueInv

LEMMA AskKeeps == ASSUME QueueInv, Ask PROVE QueueInv'
<1>1. /\ TypeOK /\ OneReadiness /\ Matched /\ Taken /\ Closed /\ Refused /\ Running
  BY DEF QueueInv
<1>2. PICK q \in Query : q = asked + 1 /\ q \in 0..NumQueries
  BY <1>1, NumAssumption DEF Ask, Asks, TypeOK, Query
<1>3. /\ asked' = q
      /\ UNCHANGED <<queryable, ended, stream, connecting, reading, rest, fault, endVars>>
  BY <1>2 DEF Ask, Asks
<1>4. PICK qs \in [Query -> QueryRecord] :
         qs = [query EXCEPT ![asked + 1] = [query[asked + 1] EXCEPT !.timer = Timeout]]
  <2>1. [query[asked + 1] EXCEPT !.timer = Timeout] \in QueryRecord
    BY <1>1, <1>2, TimeoutAssumption, ChangedRecord DEF TypeOK
  <2> QED BY <1>1, <2>1 DEF TypeOK
<1>5. CASE queryable /\ ~ending
  <2>1. Pulse(Append(queryQueue, q), readyForQuery, qs, ticks)
    BY <1>2, <1>4, <1>5, Zenon DEF Ask, Asks
  <2>2. /\ Append(queryQueue, q) \in Seq(Query)
        /\ ticks \in Seq(Tick) /\ readyForQuery \in BOOLEAN
    BY <1>1, <1>2, AppendProperties DEF TypeOK
  <2>3. ~ended
    BY <1>1, <1>5 DEF Closed
  <2>4. /\ RefusesOnce(ticks)
        /\ Refuses(ticks) => Refusing
        /\ readyForQuery => Quiet /\ ~Refuses(ticks) /\ rest' # "ready"
    BY <1>1, <1>3 DEF OneReadiness, Refusing
  <2>5. /\ rest' \in {rest, "nothing"} /\ asked' \in 0..NumQueries
        /\ endAsked' = endAsked /\ endTold' = endTold
        /\ ending' = ending /\ queryable' = queryable /\ ended' = ended /\ stream' = stream
        /\ connecting' = connecting /\ reading' = reading /\ fault' = fault
    BY <1>2, <1>3 DEF endVars
  <2>6. /\ readyForQuery => readyForQuery
        /\ ended => Append(queryQueue, q) = <<>>
    BY <2>3
  <2> QED BY <2>1, <2>2, <2>4, <2>5, <2>6, PulseKeeps
<1>6. CASE ~(queryable /\ ~ending)
  <2>1. /\ query' = qs /\ ticks' = Append(ticks, Telling(q))
        /\ UNCHANGED <<queryQueue, activeQuery, readyForQuery, server, connEnding>>
    BY <1>2, <1>4, <1>6, Zenon DEF Ask, Asks
  <2>2. Telling(q) \in Tick /\ Telling(q).do # "refuse"
    BY <1>2 DEF Telling, Tick
  <2>3. /\ ticks' \in Seq(Tick)
        /\ Refusing' => Refusing
        /\ RefusesOnce(ticks)'
    BY <1>1, <2>1, <2>2, AppendTells DEF TypeOK, OneReadiness, Refusing, Refuses, RefusesOnce
  <2>4. TypeOK'
    BY <1>1, <1>2, <1>3, <1>4, <2>1, <2>3 DEF TypeOK, endVars
  <2> QED BY <1>1, <1>3, <2>1, <2>3, <2>4
          DEF QueueInv, OneReadiness, Matched, Taken, Closed, Refused, Running, Quiet, endVars
<1> QED BY <1>5, <1>6

LEMMA EndKeeps == ASSUME QueueInv, End PROVE QueueInv'
<1>1. /\ TypeOK /\ OneReadiness /\ Matched /\ Taken /\ Closed /\ Refused /\ Running
  BY DEF QueueInv
<1>2. /\ ending' = TRUE /\ endAsked' = endAsked + 1 /\ endAsked < MaxEnds
      /\ endTold' = IF ended THEN endTold + 1 ELSE endTold
      /\ stream' \in {"ending", "closing"} \/ stream' = stream
      /\ stream' = "ending" => stream \in {"open", "ending"}
      /\ stream = "closed" => stream' = "closed"
      /\ connEnding' \in {TRUE, connEnding}
      /\ UNCHANGED <<asked, queryable, ended, connecting, server, reading, rest, fault>>
      /\ UNCHANGED <<query, queryQueue, activeQuery, readyForQuery, ticks>>
  BY <1>1 DEF End, Ends, queueVars, TypeOK, Stream
<1>3. (Refusing' <=> Refusing) /\ (RefusesOnce(ticks)' <=> RefusesOnce(ticks))
  BY <1>2 DEF Refusing, Refuses, RefusesOnce
<1>4. endAsked' \in 0..MaxEnds /\ endTold' \in 0..MaxEnds
  BY <1>1, <1>2, NumAssumption DEF TypeOK, Closed
<1>5. TypeOK'
  <2>1. stream' \in Stream /\ ending' \in BOOLEAN /\ connEnding' \in BOOLEAN
    BY <1>1, <1>2 DEF TypeOK, Stream
  <2> QED BY <1>1, <1>2, <1>4, <2>1 DEF TypeOK
<1>6. Closed'
  BY <1>1, <1>2, <1>3 DEF Closed
<1> QED BY <1>1, <1>2, <1>3, <1>5, <1>6
        DEF QueueInv, OneReadiness, Matched, Taken, Refused, Running, Quiet

\* What holds when a message is handed over: the connection is not closed and
\* the server's query is the active one.
LEMMA MessageFinds ==
    ASSUME QueueInv, NEW at, Message(at)
    PROVE  /\ rest = "nothing" /\ ~ended /\ server.at = at /\ reading' = TRUE
           /\ at = "run" => /\ activeQuery = server.on /\ activeQuery \in Query
                            /\ ~readyForQuery /\ ~Refusing
           /\ at = "done" => /\ activeQuery \in {server.on, NoQuery}
                             /\ ~readyForQuery /\ ~Refusing
           /\ UNCHANGED <<asked, ended, stream, endAsked, endTold, ending>>
<1>1. rest = "nothing" /\ server.at = at /\ (reading \/ stream \in {"open", "ending"})
      /\ reading' = TRUE /\ UNCHANGED <<asked, ended, stream, endAsked, endTold, ending>>
  BY DEF Message, Deliverable, endVars
<1>2. ~ended
  BY <1>1 DEF QueueInv, Closed
<1> QED BY <1>1, <1>2 DEF QueueInv, Matched, Running, OneReadiness, Quiet

LEMMA BadRowKeeps == ASSUME QueueInv, BadRow PROVE QueueInv'
<1>1. /\ TypeOK /\ OneReadiness /\ Matched /\ Taken /\ Closed /\ Refused /\ Running
  BY DEF QueueInv
<1>2. /\ ~ended /\ server.at = "run" /\ reading' = TRUE
      /\ activeQuery = server.on /\ activeQuery \in Query
      /\ UNCHANGED <<asked, ended, stream, endAsked, endTold, ending>>
  BY MessageFinds DEF BadRow
<1>3. /\ query' = [query EXCEPT ![activeQuery] = [query[activeQuery] EXCEPT !.canceled = TRUE]]
      /\ UNCHANGED <<fault, queryQueue, activeQuery, readyForQuery, ticks, queryable,
                     connEnding, connecting, server, rest>>
  BY <1>2, NullAssumption DEF BadRow
<1>4. query' \in [Query -> QueryRecord]
  <2>1. [query[activeQuery] EXCEPT !.canceled = TRUE] \in QueryRecord
    BY <1>1, <1>2, ChangedRecord DEF TypeOK
  <2> QED BY <1>1, <1>3, <2>1 DEF TypeOK
<1>5. (Refusing' <=> Refusing) /\ (RefusesOnce(ticks)' <=> RefusesOnce(ticks))
  BY <1>3 DEF Refusing, Refuses, RefusesOnce
<1>6. TypeOK'
  BY <1>1, <1>2, <1>3, <1>4 DEF TypeOK
<1> QED BY <1>1, <1>2, <1>3, <1>5, <1>6
        DEF QueueInv, OneReadiness, Matched, Taken, Closed, Refused, Running, Quiet

\* A message that leaves the queue, the flags and the ticks alone.
LEMMA ServerMoves ==
    ASSUME QueueInv, NEW at, Message(at),
           at \in {"run", "done"},
           query' \in [Query -> QueryRecord], connEnding' \in BOOLEAN,
           server' \in Server, server'.on = server.on,
           \/ server'.at = "run" /\ at = "run" /\ activeQuery' = activeQuery
           \/ server'.at = "done" /\ at = "run" /\ activeQuery' \in {activeQuery, NoQuery}
           \/ server'.at = "waiting" /\ at = "run" /\ activeQuery' \in {activeQuery, NoQuery},
           UNCHANGED <<queryQueue, readyForQuery, ticks, queryable, connecting, rest, fault>>
    PROVE  QueueInv'
<1>1. /\ TypeOK /\ OneReadiness /\ Matched /\ Taken /\ Closed /\ Refused /\ Running
  BY DEF QueueInv
<1>2. /\ rest = "nothing" /\ ~ended /\ server.at = at /\ reading' = TRUE
      /\ at = "run" => /\ activeQuery = server.on /\ activeQuery \in Query
                       /\ ~readyForQuery /\ ~Refusing
      /\ UNCHANGED <<asked, ended, stream, endAsked, endTold, ending>>
  BY MessageFinds
<1>3. (Refusing' <=> Refusing) /\ (RefusesOnce(ticks)' <=> RefusesOnce(ticks))
  BY DEF Refusing, Refuses, RefusesOnce
<1>4. activeQuery' \in Query \cup {NoQuery}
  BY <1>2
<1>5. TypeOK'
  BY <1>1, <1>2, <1>4 DEF TypeOK
<1>6. Refused' /\ Running' /\ Matched'
  BY <1>1, <1>2, <1>3 DEF Refused, Running, Matched
<1> QED BY <1>1, <1>2, <1>3, <1>5, <1>6
        DEF QueueInv, OneReadiness, Taken, Closed, Quiet

LEMMA PortalSuspendedKeeps == ASSUME QueueInv, PortalSuspended PROVE QueueInv'
<1>1. server \in Server /\ server.at = "run" /\ query \in [Query -> QueryRecord]
      /\ connEnding \in BOOLEAN
  BY DEF QueueInv, TypeOK, PortalSuspended, Message
<1>2. /\ server' = server \/ server' = [server EXCEPT !.at = "waiting"]
      /\ UNCHANGED <<query, queryQueue, activeQuery, readyForQuery, ticks, queryable,
                     connEnding, connecting, rest, fault>>
  BY DEF PortalSuspended, Becomes, queueVars
<1>3. /\ server' \in Server /\ server'.on = server.on
      /\ server'.at \in {"run", "waiting"}
  BY <1>1, <1>2 DEF Server
<1>4. Message("run")
  BY DEF PortalSuspended
<1> QED BY <1>1, <1>2, <1>3, <1>4, ServerMoves

LEMMA CommandCompleteKeeps == ASSUME QueueInv, CommandComplete PROVE QueueInv'
<1>1. server \in Server /\ query \in [Query -> QueryRecord] /\ connEnding \in BOOLEAN
  BY DEF QueueInv, TypeOK
<1>2. Message("run") /\ UNCHANGED <<connecting, rest, fault>>
  BY DEF CommandComplete
<1>3. activeQuery # NoQuery
  BY <1>2, MessageFinds, NullAssumption
<1>4. /\ server' = [server EXCEPT !.at = "waiting"] \/ server' = [server EXCEPT !.at = "done"]
      /\ connEnding' = (connEnding \/ query[activeQuery].kind = "paged")
      /\ UNCHANGED <<query, queryQueue, activeQuery, readyForQuery, ticks, queryable>>
  BY <1>3 DEF CommandComplete, Becomes, queueVars
<1>5. /\ server' \in Server /\ server'.on = server.on
      /\ server'.at \in {"done", "waiting"}
  BY <1>1, <1>4 DEF Server
<1>6. connEnding' \in BOOLEAN
  BY <1>4
<1> QED BY <1>1, <1>2, <1>4, <1>5, <1>6, ServerMoves

LEMMA ErrorMessageKeeps == ASSUME QueueInv, ErrorMessage PROVE QueueInv'
<1>1. server \in Server /\ query \in [Query -> QueryRecord] /\ connEnding \in BOOLEAN
  BY DEF QueueInv, TypeOK
<1>2. Message("run") /\ UNCHANGED <<connEnding, connecting, rest, fault>>
  BY DEF ErrorMessage
<1>3. activeQuery # NoQuery /\ activeQuery \in Query
  BY <1>2, MessageFinds, NullAssumption
<1>4. /\ activeQuery' = NoQuery /\ query' = HandleError(query, activeQuery)
      /\ UNCHANGED <<queryQueue, readyForQuery, ticks, queryable>>
  BY <1>3 DEF ErrorMessage, ErrorToActive
<1>5. query' \in [Query -> QueryRecord]
  BY <1>1, <1>3, <1>4, HandleErrorType
<1>6. \E at \in {"waiting", "done"} : server' = [server EXCEPT !.at = at]
  BY DEF ErrorMessage, Becomes
<1>7. /\ server' \in Server /\ server'.on = server.on
      /\ server'.at \in {"done", "waiting"}
  BY <1>1, <1>6 DEF Server
<1> QED BY <1>1, <1>2, <1>4, <1>5, <1>7, ServerMoves

\* The handler of an error event leaves nothing active and nothing queued.
LEMMA HandleErrorEventLeaves ==
    ASSUME QueueInv, HandleErrorEvent
    PROVE  /\ ticks' \in Seq(Tick) /\ RefusesOnce(ticks)' /\ (Refusing' => Refusing)
           /\ ticks = <<>> => ~Refusing'
           /\ activeQuery' = NoQuery /\ queryQueue' = <<>> /\ queryable' = FALSE
           /\ UNCHANGED <<query, readyForQuery>>
<1>1. ErrorAll \in Seq(Tick) /\ ~Refuses(ErrorAll)
  BY ErrorAllTells DEF QueueInv, Refuses
<1>2. ticks \in Seq(Tick) /\ RefusesOnce(ticks) /\ ticks' = ticks \o ErrorAll
  BY DEF QueueInv, TypeOK, OneReadiness, HandleErrorEvent
<1>3. /\ ticks \o ErrorAll \in Seq(Tick) /\ RefusesOnce(ticks \o ErrorAll)
      /\ Refuses(ticks \o ErrorAll) => Refuses(ticks)
  BY <1>1, <1>2, ConcatTells
<1>4. ticks' \in Seq(Tick) /\ RefusesOnce(ticks)' /\ (Refusing' => Refusing)
  BY <1>2, <1>3 DEF Refusing, Refuses, RefusesOnce
<1>5. ticks = <<>> => ~Refusing
  BY DEF Refusing, Refuses
<1> QED BY <1>4, <1>5 DEF HandleErrorEvent

LEMMA FatalMessageKeeps == ASSUME QueueInv, FatalMessage PROVE QueueInv'
<1>1. /\ TypeOK /\ OneReadiness /\ Matched /\ Taken /\ Closed /\ Refused /\ Running
  BY DEF QueueInv
<1>2. /\ rest = "nothing" /\ ~ended /\ reading' = TRUE
      /\ UNCHANGED <<asked, ended, stream, endAsked, endTold, ending, connEnding,
                     connecting, rest, fault>>
  BY MessageFinds DEF FatalMessage
<1>3. server' \in Server /\ server'.at = "gone" /\ server'.on = server.on
  BY <1>1 DEF FatalMessage, Becomes, TypeOK, Server
<1>4. /\ activeQuery' = NoQuery /\ queryQueue' \in Seq(Query) /\ query' \in [Query -> QueryRecord]
      /\ readyForQuery' = readyForQuery /\ queryable' \in {FALSE, queryable}
      /\ queryQueue' \in {queryQueue, <<>>}
      /\ ticks' \in Seq(Tick) /\ RefusesOnce(ticks)' /\ (Refusing' => Refusing)
  <2>1. CASE activeQuery = NoQuery
    <3>1. HandleErrorEvent
      BY <2>1 DEF FatalMessage, ErrorToActive
    <3> QED BY <1>1, <3>1, HandleErrorEventLeaves DEF TypeOK
  <2>2. CASE activeQuery # NoQuery
    <3>1. /\ activeQuery' = NoQuery /\ query' = HandleError(query, activeQuery)
          /\ UNCHANGED <<queryQueue, readyForQuery, ticks, queryable>>
      BY <2>2 DEF FatalMessage, ErrorToActive
    <3>2. query' \in [Query -> QueryRecord]
      BY <1>1, <2>2, <3>1, HandleErrorType DEF TypeOK
    <3> QED BY <1>1, <3>1, <3>2 DEF TypeOK, OneReadiness, Refusing, Refuses, RefusesOnce
  <2> QED BY <2>1, <2>2
<1>5. TypeOK'
  BY <1>1, <1>2, <1>3, <1>4 DEF TypeOK
<1>6. OneReadiness'
  BY <1>1, <1>2, <1>3, <1>4 DEF OneReadiness, Quiet
<1> QED BY <1>1, <1>2, <1>3, <1>4, <1>5, <1>6
        DEF QueueInv, Matched, Taken, Closed, Refused, Running

LEMMA ReadyForQueryKeeps == ASSUME QueueInv, ReadyForQuery PROVE QueueInv'
<1>1. /\ TypeOK /\ OneReadiness /\ Matched /\ Taken /\ Closed /\ Refused /\ Running
  BY DEF QueueInv
<1>2. Message("done") /\ server.at = "done"
  BY DEF ReadyForQuery, Ready, Message
<1>3. /\ rest = "nothing" /\ ~ended /\ reading' = TRUE /\ ~Refusing
      /\ UNCHANGED <<asked, ended, stream, endAsked, endTold, ending>>
  BY <1>2, MessageFinds
<1>4. /\ connecting' = FALSE /\ activeQuery' = NoQuery /\ readyForQuery' = TRUE
      /\ rest' = "pulse"
      /\ UNCHANGED <<queryQueue, ticks, queryable, connEnding, fault>>
  BY DEF ReadyForQuery, Ready
<1>5. server' \in Server /\ server'.at = "idle"
  BY <1>1 DEF ReadyForQuery, Ready, Becomes, TypeOK, Server
<1>6. query' \in [Query -> QueryRecord]
  <2>1. CASE activeQuery = NoQuery
    BY <1>1, <2>1 DEF ReadyForQuery, Ready, TypeOK
  <2>2. CASE activeQuery # NoQuery
    <3>1. query' = HandleReady(query, activeQuery)
      BY <2>2 DEF ReadyForQuery, Ready
    <3> QED BY <1>1, <2>2, <3>1, HandleReadyType DEF TypeOK
  <2> QED BY <2>1, <2>2
<1>7. ~Refusing' /\ RefusesOnce(ticks)'
  BY <1>1, <1>3, <1>4 DEF OneReadiness, Refusing, Refuses, RefusesOnce
<1>8. TypeOK'
  BY <1>1, <1>3, <1>4, <1>5, <1>6 DEF TypeOK
<1>9. ~fault
  BY <1>1, <1>2 DEF Refused
<1> QED BY <1>3, <1>4, <1>5, <1>7, <1>8, <1>9
        DEF QueueInv, OneReadiness, Matched, Taken, Closed, Refused, Running, Quiet

LEMMA EndChunkKeeps == ASSUME QueueInv, EndChunk PROVE QueueInv'
<1>1. /\ TypeOK /\ OneReadiness /\ Matched /\ Taken /\ Closed /\ Refused /\ Running
  BY DEF QueueInv
<1>2. /\ reading' = FALSE
      /\ UNCHANGED <<query, asked, queryQueue, activeQuery, readyForQuery, queryable, ending,
                     ended, ticks, stream, connEnding, connecting, server, rest, fault,
                     endAsked, endTold>>
  BY DEF EndChunk
<1>3. (Refusing' <=> Refusing) /\ (RefusesOnce(ticks)' <=> RefusesOnce(ticks))
  BY <1>2 DEF Refusing, Refuses, RefusesOnce
<1>4. TypeOK'
  BY <1>1, <1>2 DEF TypeOK
<1> QED BY <1>1, <1>2, <1>3, <1>4
        DEF QueueInv, OneReadiness, Matched, Taken, Closed, Refused, Running, Quiet

LEMMA GoOnKeeps == ASSUME QueueInv, GoOn PROVE QueueInv'
<1>1. /\ TypeOK /\ OneReadiness /\ Matched /\ Taken /\ Closed /\ Refused /\ Running
  BY DEF QueueInv
<1>2. PICK ready \in BOOLEAN : ready <=> readyForQuery \/ rest = "ready"
  OBVIOUS
<1>3. Pulse(queryQueue, ready, query, ticks)
  <2>1. Pulse(queryQueue, readyForQuery \/ rest = "ready", query, ticks)
    BY DEF GoOn
  <2> QED BY <1>2, <2>1 DEF Pulse
<1>4. /\ rest' = "nothing"
      /\ endAsked' = endAsked /\ endTold' = endTold /\ asked' = asked
      /\ ending' = ending /\ queryable' = queryable /\ ended' = ended /\ stream' = stream
      /\ connecting' = connecting /\ reading' = reading /\ fault' = fault
  BY DEF GoOn, endVars
<1>5. /\ queryQueue \in Seq(Query) /\ query \in [Query -> QueryRecord] /\ ticks \in Seq(Tick)
      /\ asked' \in 0..NumQueries /\ rest' \in {rest, "nothing"}
  BY <1>1, <1>4 DEF TypeOK
<1>6. /\ RefusesOnce(ticks)
      /\ Refuses(ticks) => Refusing
      /\ ready => Quiet /\ ~Refuses(ticks) /\ rest' # "ready"
  BY <1>1, <1>2, <1>4 DEF OneReadiness, Refusing
<1>7. /\ readyForQuery => ready
      /\ ended => queryQueue = <<>>
  BY <1>1, <1>2 DEF Closed
<1> QED BY <1>3, <1>4, <1>5, <1>6, <1>7, PulseKeeps

LEMMA RunTickKeeps == ASSUME QueueInv, RunTick PROVE QueueInv'
<1>1. /\ TypeOK /\ OneReadiness /\ Matched /\ Taken /\ Closed /\ Refused /\ Running
  BY DEF QueueInv
<1>2. /\ rest = "nothing" /\ ~reading /\ ticks # <<>> /\ ticks' = Tail(ticks)
      /\ UNCHANGED <<asked, queryQueue, activeQuery, readyForQuery, queryable, ended,
                     stream, connEnding, connecting, server, reading,
                     endAsked, endTold, ending>>
  BY DEF RunTick, RunsTick, Between, socketVars, endVars
<1>3. /\ Head(ticks) \in Tick /\ Tail(ticks) \in Seq(Tick)
      /\ Refuses(Tail(ticks)) => Refuses(ticks) /\ Head(ticks).do # "refuse"
      /\ Head(ticks).do = "refuse" => Refuses(ticks)
      /\ RefusesOnce(Tail(ticks))
  BY <1>1, <1>2, TailTells DEF TypeOK, OneReadiness
<1>4. /\ ticks' \in Seq(Tick) /\ RefusesOnce(ticks)'
      /\ Refusing' => Refusing /\ Head(ticks).do # "refuse"
      /\ Head(ticks).do = "refuse" => Refusing
  BY <1>2, <1>3 DEF Refusing, Refuses, RefusesOnce
<1>5. CASE Head(ticks).do = "tell"
  <2>1. query' = HandleError(query, Head(ticks).q) /\ UNCHANGED <<rest, fault>>
    BY <1>5 DEF RunTick, RunsTick
  <2>2. Head(ticks).q \in Query
    BY <1>3, <1>5 DEF Tick
  <2>3. query' \in [Query -> QueryRecord]
    BY <1>1, <2>1, <2>2, HandleErrorType DEF TypeOK
  <2>4. TypeOK'
    BY <1>1, <1>2, <1>4, <2>1, <2>3 DEF TypeOK
  <2> QED BY <1>1, <1>2, <1>4, <2>1, <2>4
          DEF QueueInv, OneReadiness, Matched, Taken, Closed, Refused, Running, Quiet
<1>6. CASE Head(ticks).do = "refuse" /\ activeQuery # NoQuery
  <2>1. query' = HandleError(query, activeQuery) /\ rest' = "ready" /\ fault' = fault
    BY <1>6 DEF RunTick, RunsTick
  <2>2. query' \in [Query -> QueryRecord]
    BY <1>1, <1>6, <2>1, HandleErrorType DEF TypeOK
  <2>3. TypeOK'
    BY <1>1, <1>2, <1>4, <2>1, <2>2 DEF TypeOK
  <2>4. Refusing /\ ~Refusing' /\ Quiet /\ ~readyForQuery
    BY <1>1, <1>4, <1>6 DEF OneReadiness
  <2> QED BY <1>1, <1>2, <1>4, <2>1, <2>3, <2>4
          DEF QueueInv, OneReadiness, Matched, Taken, Closed, Refused, Running, Quiet
<1>7. CASE Head(ticks).do = "refuse" /\ activeQuery = NoQuery
  <2>1. fault' = TRUE /\ UNCHANGED <<query, rest>>
    BY <1>7 DEF RunTick, RunsTick
  <2>2. TypeOK'
    BY <1>1, <1>2, <1>4, <2>1 DEF TypeOK
  <2>3. Refusing /\ server.at = "gone"
    BY <1>1, <1>4, <1>7 DEF Refused
  <2> QED BY <1>1, <1>2, <1>4, <2>1, <2>2, <2>3
          DEF QueueInv, OneReadiness, Matched, Taken, Closed, Refused, Running, Quiet
<1>8. CASE Head(ticks).do = "end"
  <2>1. UNCHANGED <<query, rest, fault>>
    BY <1>8 DEF RunTick, RunsTick
  <2>2. TypeOK'
    BY <1>1, <1>2, <1>4, <2>1 DEF TypeOK
  <2> QED BY <1>1, <1>2, <1>4, <2>1, <2>2
          DEF QueueInv, OneReadiness, Matched, Taken, Closed, Refused, Running, Quiet
<1>9. Head(ticks).do \in {"tell", "refuse", "end"}
  BY <1>3 DEF Tick
<1> QED BY <1>5, <1>6, <1>7, <1>8, <1>9

LEMMA QueryTimeoutFiresKeeps ==
    ASSUME QueueInv, NEW q \in Query, QueryTimeoutFires(q)
    PROVE  QueueInv'
<1>1. /\ TypeOK /\ OneReadiness /\ Matched /\ Taken /\ Closed /\ Refused /\ Running
  BY DEF QueueInv
<1> DEFINE tk == <<Telling(q)>>
<1>2. Pulse(Without(q), readyForQuery, Silenced(q), tk)
  BY DEF QueryTimeoutFires, TimesOut
<1>3. /\ rest = "nothing" /\ rest' \in {rest, "nothing"}
      /\ endAsked' = endAsked /\ endTold' = endTold /\ asked' = asked
      /\ ending' = ending /\ queryable' = queryable /\ ended' = ended /\ stream' = stream
      /\ connecting' = connecting /\ reading' = reading /\ fault' = fault
  BY DEF QueryTimeoutFires, TimesOut, Between, endVars
<1>4. /\ Without(q) \in Seq(Query)
      /\ queryQueue = <<>> => Without(q) = <<>>
  BY <1>1, WithoutType DEF TypeOK
<1>5. Silenced(q) \in [Query -> QueryRecord]
  BY <1>1, SilencedType DEF TypeOK
<1>6. readyForQuery \in BOOLEAN /\ asked' \in 0..NumQueries
  BY <1>1, <1>3 DEF TypeOK
<1>7. tk \in Seq(Tick)
  BY DEF Telling, Tick
<1>8. ~Refuses(tk) /\ RefusesOnce(tk)
  BY DEF Telling, Refuses, RefusesOnce
<1>9. /\ Refuses(tk) => Refusing
      /\ readyForQuery => Quiet /\ ~Refuses(tk) /\ rest' # "ready"
      /\ readyForQuery => readyForQuery
      /\ ended => Without(q) = <<>>
  BY <1>1, <1>3, <1>4, <1>8 DEF OneReadiness, Closed
<1> HIDE DEF tk
<1> QED BY <1>2, <1>3, <1>4, <1>5, <1>6, <1>7, <1>8, <1>9, PulseKeeps

LEMMA StreamErrorKeeps ==
    ASSUME QueueInv, NEW reset \in BOOLEAN, StreamError(reset)
    PROVE  QueueInv'
<1>1. /\ TypeOK /\ OneReadiness /\ Matched /\ Taken /\ Closed /\ Refused /\ Running
  BY DEF QueueInv
<1>2. /\ rest = "nothing" /\ ~reading /\ ticks = <<>> /\ stream' = "closing"
      /\ stream # "closed"
      /\ UNCHANGED <<asked, ended, connEnding, connecting, server, reading, rest, fault,
                     endAsked, endTold, ending>>
  BY DEF StreamError, Between, endVars
<1>3. ~ended
  BY <1>1, <1>2 DEF Closed
<1>4. ~Refusing
  BY <1>2 DEF Refusing, Refuses
<1>5. /\ activeQuery' \in {activeQuery, NoQuery} /\ queryQueue' \in {queryQueue, <<>>}
      /\ query' = query /\ readyForQuery' = readyForQuery /\ queryable' \in {FALSE, queryable}
      /\ ticks' \in Seq(Tick) /\ RefusesOnce(ticks)' /\ ~Refusing'
  <2>1. CASE HandleErrorEvent
    BY <1>2, <2>1, HandleErrorEventLeaves
  <2>2. CASE UNCHANGED <<query, queryQueue, activeQuery, readyForQuery, ticks, queryable>>
    BY <1>1, <1>4, <2>2 DEF TypeOK, OneReadiness, Refusing, Refuses, RefusesOnce
  <2> QED BY <2>1, <2>2 DEF StreamError, queueVars
<1>6. TypeOK'
  <2>1. queryQueue' \in Seq(Query) /\ activeQuery' \in Query \cup {NoQuery}
    <3>1. queryQueue \in Seq(Query) /\ activeQuery \in Query \cup {NoQuery}
      BY <1>1 DEF TypeOK
    <3>2. <<>> \in Seq(Query)
      OBVIOUS
    <3> QED BY <1>5, <3>1, <3>2
  <2>2. queryable' \in BOOLEAN /\ readyForQuery' \in BOOLEAN /\ stream' \in Stream
    BY <1>1, <1>2, <1>5 DEF TypeOK, Stream
  <2> QED BY <1>1, <1>2, <1>5, <2>1, <2>2 DEF TypeOK
<1>7. OneReadiness'
  BY <1>1, <1>2, <1>5 DEF OneReadiness, Quiet
<1> QED BY <1>1, <1>2, <1>3, <1>5, <1>6, <1>7
        DEF QueueInv, Matched, Taken, Closed, Refused, Running

LEMMA StreamClosedKeeps == ASSUME QueueInv, StreamClosed PROVE QueueInv'
<1>1. /\ TypeOK /\ OneReadiness /\ Matched /\ Taken /\ Closed /\ Refused /\ Running
  BY DEF QueueInv
<1>2. /\ rest = "nothing" /\ ~reading /\ stream' = "closed" /\ ended' = TRUE
      /\ endTold' = endAsked /\ queryable' = (queryable /\ ending)
      /\ activeQuery' = NoQuery /\ queryQueue' = <<>>
      /\ UNCHANGED <<query, asked, readyForQuery, ending, connEnding, connecting, server,
                     reading, rest, fault, endAsked>>
  BY DEF StreamClosed, Between
<1>3. ticks' \in Seq(Tick) /\ ~Refusing' /\ RefusesOnce(ticks)'
  <2>1. ErrorAll \in Seq(Tick) /\ \A i \in 1..Len(ErrorAll) : ErrorAll[i].do = "tell"
    BY <1>1, ErrorAllTells
  <2>2. PICK t \in Tick : t = [do |-> "end"]
    BY DEF Tick
  <2>3. <<t>> \in Seq(Tick) /\ ~Refuses(<<t>>)
    BY <2>2 DEF Refuses
  <2>4. ~Refuses(ErrorAll) /\ RefusesOnce(ErrorAll)
    BY <2>1 DEF Refuses, RefusesOnce
  <2>5. /\ ErrorAll \o <<t>> \in Seq(Tick) /\ ~Refuses(ErrorAll \o <<t>>)
        /\ RefusesOnce(ErrorAll \o <<t>>)
    BY <2>1, <2>3, <2>4, ConcatTells
  <2>6. ticks' = ErrorAll \o <<t>>
    BY <2>2 DEF StreamClosed
  <2> QED BY <2>5, <2>6 DEF Refusing, Refuses, RefusesOnce
<1>4. TypeOK'
  BY <1>1, <1>2, <1>3 DEF TypeOK, Stream
<1>5. OneReadiness'
  BY <1>1, <1>2, <1>3 DEF OneReadiness, Quiet
<1>6. Closed'
  BY <1>2, <1>3 DEF Closed
<1> QED BY <1>1, <1>2, <1>3, <1>4, <1>5, <1>6
        DEF QueueInv, Matched, Taken, Refused, Running

LEMMA StutterKeeps == ASSUME QueueInv, UNCHANGED vars PROVE QueueInv'
<1>1. UNCHANGED <<query, asked, queryQueue, activeQuery, readyForQuery, queryable, ending,
                  ended, ticks, stream, connEnding, connecting, server, reading, rest, fault,
                  endAsked, endTold>>
  BY DEF vars
<1>2. (Refusing' <=> Refusing) /\ (RefusesOnce(ticks)' <=> RefusesOnce(ticks))
  BY <1>1 DEF Refusing, Refuses, RefusesOnce
<1>3. TypeOK'
  BY <1>1 DEF QueueInv, TypeOK
<1> QED BY <1>1, <1>2, <1>3
        DEF QueueInv, OneReadiness, Matched, Taken, Closed, Refused, Running, Quiet

-----------------------------------------------------------------------------
\* The theorems.

\* The inductive invariant holds in every reachable state: readiness is in one
\* place, answers find their query, and a closed connection is empty.
THEOREM QueueInvariant == Spec => []QueueInv
<1>1. Init => QueueInv
  BY InitHolds
<1>2. QueueInv /\ [Next]_vars => QueueInv'
  <2> SUFFICES ASSUME QueueInv, [Next]_vars PROVE QueueInv'
    OBVIOUS
  <2>1. CASE Ask
    BY <2>1, AskKeeps
  <2>2. CASE End
    BY <2>2, EndKeeps
  <2>3. CASE BadRow
    BY <2>3, BadRowKeeps
  <2>4. CASE PortalSuspended
    BY <2>4, PortalSuspendedKeeps
  <2>5. CASE CommandComplete
    BY <2>5, CommandCompleteKeeps
  <2>6. CASE ErrorMessage
    BY <2>6, ErrorMessageKeeps
  <2>7. CASE FatalMessage
    BY <2>7, FatalMessageKeeps
  <2>8. CASE ReadyForQuery
    BY <2>8, ReadyForQueryKeeps
  <2>9. CASE EndChunk
    BY <2>9, EndChunkKeeps
  <2>10. CASE GoOn
    BY <2>10, GoOnKeeps
  <2>11. CASE RunTick
    BY <2>11, RunTickKeeps
  <2>12. CASE \E q \in Query : QueryTimeoutFires(q)
    BY <2>12, QueryTimeoutFiresKeeps
  <2>13. CASE \E reset \in BOOLEAN : StreamError(reset)
    BY <2>13, StreamErrorKeeps
  <2>14. CASE StreamClosed
    BY <2>14, StreamClosedKeeps
  <2>15. CASE UNCHANGED vars
    BY <2>15, StutterKeeps
  <2> QED BY <2>1, <2>2, <2>3, <2>4, <2>5, <2>6, <2>7, <2>8, <2>9, <2>10, <2>11, <2>12,
             <2>13, <2>14, <2>15 DEF Next
<1> QED BY <1>1, <1>2, PTL DEF Spec

\* Every variable has its type, for every number of queries.
THEOREM TypeCorrect == Spec => []TypeOK
<1>1. QueueInv => TypeOK
  BY DEF QueueInv
<1> QED BY <1>1, QueueInvariant, PTL

\* Answers go to the query they are for (handleReadyForQuery,
\* _handleErrorMessage): while messages can arrive, the query that the server
\* executes is the active one.
THEOREM AnswersMatchTheirQuery == Spec => []AnswersMatch
<1>1. QueueInv => AnswersMatch
  BY DEF QueueInv, Matched, OneReadiness, Quiet, AnswersMatch, Deliverable
<1> QED BY <1>1, QueueInvariant, PTL

\* A ready client has nothing on its queue once a handler is over
\* (_pulseQueryQueue).
THEOREM QueueIsTaken == Spec => []QueueMoves
<1>1. QueueInv => QueueMoves
  BY DEF QueueInv, Taken, QueueMoves
<1> QED BY <1>1, QueueInvariant, PTL

\* A handler finds activeQuery null only after the session was terminated.
THEOREM FaultAtShutdown == Spec => []FaultOnlyAtShutdown
<1>1. QueueInv => FaultOnlyAtShutdown
  BY DEF QueueInv, Refused, FaultOnlyAtShutdown
<1> QED BY <1>1, QueueInvariant, PTL

\* Nothing is queued or active on a connection that is gone, and every call of
\* client.end is answered there.
THEOREM ClosedStaysEmpty == Spec => []ClosedIsEmpty
<1>1. QueueInv => ClosedIsEmpty
  BY DEF QueueInv, Closed, ClosedIsEmpty
<1> QED BY <1>1, QueueInvariant, PTL

-----------------------------------------------------------------------------
(***************************************************************************)
(* What becomes of every query: it is in one place until its callback is   *)
(* called, the callback is called once, and results come in the order of   *)
(* the queries.  This invariant, OutcomeInv, extends QueueInv.             *)
(***************************************************************************)

\* The inductive invariant.  Its parts take the queue, the active query, the
\* ticks and the query objects as parameters, because _pulseQueryQueue is
\* called with those that its handler has brought about.

Queued(que, q) == \E i \in 1..Len(que) : que[i] = q
Tells(tk, q) == \E i \in 1..Len(tk) : tk[i] = Telling(q)
TellsOnce(tk, q) ==
    \A i, j \in 1..Len(tk) : tk[i] = Telling(q) /\ tk[j] = Telling(q) => i = j
InOrder(que) == \A i, j \in 1..Len(que) : i < j => que[i] < que[j]

\* Where query q is, when the queue, the active query, the ticks and the query
\* objects are que, act, tk and qs, and n queries were made.
Placed(que, act, tk, qs, n, q) ==
    /\ Queued(que, q) => q <= n /\ qs[q].told = 0 /\ act # q /\ ~Tells(tk, q)
    /\ act = q \/ Tells(tk, q) \/ qs[q].told # 0 => q <= n
    /\ q <= n /\ qs[q].told = 0 => Queued(que, q) \/ act = q \/ Tells(tk, q)
    /\ qs[q].timer => q <= n /\ qs[q].told = 0
    /\ qs[q].silenced => qs[q].told # 0
    /\ ~qs[q].silenced => TellsOnce(tk, q) /\ (Tells(tk, q) => act # q)

\* A callback that can still be called was not called yet; only the query of
\* the tick that has just refused it is active and told.
Untold(act, tk, qs, r, q) ==
    qs[q].kind # "unbindable" =>
        /\ qs[q].told \in {0, 1}
        /\ ~qs[q].silenced => /\ Tells(tk, q) => qs[q].told = 0
                              /\ act = q /\ r # "ready" => qs[q].told = 0

\* The queries before one that is active, or has its result, were answered;
\* those before one that waits were answered, are active or wait too.
Preceded(que, act, qs, q) ==
    /\ act = q \/ qs[q].got = "result" => \A p \in Query : p < q => qs[p].told # 0
    /\ Queued(que, q) =>
          \A p \in Query : p < q => qs[p].told # 0 \/ Queued(que, p) \/ act = p

\* A result is final.
Final(act, qs, q) ==
    qs[q].got = "result" => /\ qs[q].told # 0 /\ act # q /\ ~qs[q].canceled
                            /\ qs[q].kind \in {"plain", "paged"}

Settled(que, act, tk, qs, n, r) ==
    /\ InOrder(que)
    /\ \A q \in Query : /\ Placed(que, act, tk, qs, n, q) /\ Untold(act, tk, qs, r, q)
                        /\ Preceded(que, act, qs, q) /\ Final(act, qs, q)
    /\ r = "ready" /\ act # NoQuery => qs[act].told # 0

\* A client that accepts queries has told every query that it did not queue.
Accepting == queryable /\ ~ending => \A q \in Query : Tells(ticks, q) => query[q].told # 0

\* The server executes only what was submitted to be executed.
Executed ==
    server.at \in {"run", "done"} /\ server.on # NoQuery =>
        query[server.on].kind \in {"plain", "paged"}

OutcomeInv ==
    /\ Settled(queryQueue, activeQuery, ticks, query, asked, rest)
    /\ Accepting /\ Executed

-----------------------------------------------------------------------------
\* The queue, which is in the order in which the queries were made.

LEMMA QueuedAppend ==
    ASSUME NEW que \in Seq(Query), NEW q \in Query,
           \A p \in Query : Queued(que, p) => p < q
    PROVE  /\ InOrder(que) => InOrder(Append(que, q))
           /\ \A p \in Query : Queued(Append(que, q), p) <=> Queued(que, p) \/ p = q
<1>1. /\ Len(Append(que, q)) = Len(que) + 1
      /\ Len(que) \in Nat
      /\ \A i \in 1..Len(que) : Append(que, q)[i] = que[i]
      /\ Append(que, q)[Len(que) + 1] = q
  BY AppendProperties, LenProperties
<1>2. \A i \in 1..Len(que) : que[i] \in Query /\ que[i] < q
  BY ElementOfSeq DEF Queued
<1> HIDE DEF Query
<1>3. ASSUME InOrder(que) PROVE InOrder(Append(que, q))
  BY <1>1, <1>2, <1>3 DEF InOrder
<1>4. \A p \in Query : Queued(Append(que, q), p) <=> Queued(que, p) \/ p = q
  BY <1>1 DEF Queued
<1> QED BY <1>3, <1>4

LEMMA QueuedTail ==
    ASSUME NEW que \in Seq(Query), que # <<>>, InOrder(que)
    PROVE  /\ Head(que) \in Query /\ Tail(que) \in Seq(Query) /\ InOrder(Tail(que))
           /\ \A p \in Query : Queued(que, p) <=> p = Head(que) \/ Queued(Tail(que), p)
           /\ \A p \in Query : Queued(Tail(que), p) => Head(que) < p
<1>1. /\ Head(que) \in Query /\ Tail(que) \in Seq(Query)
      /\ Len(que) \in Nat /\ Len(que) > 0
      /\ Len(Tail(que)) = Len(que) - 1
      /\ Head(que) = que[1]
      /\ \A i \in 1..Len(Tail(que)) : Tail(que)[i] = que[i + 1]
  BY HeadTailProperties, LenProperties, EmptySeq
<1>2. InOrder(Tail(que))
  BY <1>1 DEF InOrder
<1>3. \A p \in Query : Queued(que, p) => p = Head(que) \/ Queued(Tail(que), p)
  <2> SUFFICES ASSUME NEW i \in 1..Len(que), i # 1 PROVE Queued(Tail(que), que[i])
    BY <1>1 DEF Queued
  <2>1. i - 1 \in 1..Len(Tail(que)) /\ Tail(que)[i - 1] = que[i]
    BY <1>1
  <2> QED BY <2>1 DEF Queued
<1>4. \A p \in Query : p = Head(que) \/ Queued(Tail(que), p) => Queued(que, p)
  BY <1>1 DEF Queued
<1>5. \A p \in Query : Queued(Tail(que), p) => Head(que) < p
  BY <1>1 DEF Queued, InOrder
<1> QED BY <1>1, <1>2, <1>3, <1>4, <1>5

\* A timeout takes its query off the queue and leaves the others in order.
LEMMA QueuedWithout ==
    ASSUME queryQueue \in Seq(Query), InOrder(queryQueue), NEW q \in Query
    PROVE  /\ InOrder(Without(q))
           /\ \A p \in Query : Queued(Without(q), p) <=> Queued(queryQueue, p) /\ p # q
<1>0. Len(queryQueue) \in Nat /\ \A i \in 1..Len(queryQueue) : queryQueue[i] \in Query
  BY LenProperties, ElementOfSeq
<1>1. CASE Places(q) = {}
  BY <1>1 DEF Without, Queued, Places
<1>2. CASE Places(q) # {}
  <2>1. PICK k \in Places(q) : Without(q) = RemoveAt(queryQueue, k)
    BY <1>2 DEF Without
  <2>2. k \in 1..Len(queryQueue) /\ queryQueue[k] = q
    BY <2>1 DEF Places
  <2> DEFINE a == SubSeq(queryQueue, 1, k - 1)
             b == SubSeq(queryQueue, k + 1, Len(queryQueue))
  <2>3. /\ a \in Seq(Query) /\ Len(a) = k - 1
        /\ \A i \in 1..(k - 1) : a[i] = queryQueue[i]
    BY <1>0, <2>2, SubSeqProperties
  <2>4. /\ b \in Seq(Query) /\ Len(b) = Len(queryQueue) - k
        /\ \A i \in 1..(Len(queryQueue) - k) : b[i] = queryQueue[k + i]
    BY <1>0, <2>2, SubSeqProperties
  <2>5. Without(q) = a \o b
    BY <2>1 DEF RemoveAt
  <2> HIDE DEF a, b
  <2>6. /\ Len(Without(q)) = Len(queryQueue) - 1
        /\ \A i \in 1..(Len(queryQueue) - 1) :
              Without(q)[i] = IF i < k THEN queryQueue[i] ELSE queryQueue[i + 1]
    <3>1. /\ Len(a \o b) = Len(a) + Len(b)
          /\ \A i \in 1..(Len(a) + Len(b)) :
                (a \o b)[i] = IF i <= Len(a) THEN a[i] ELSE b[i - Len(a)]
      BY <2>3, <2>4, ConcatProperties
    <3>2. \A i \in 1..(Len(queryQueue) - 1) : ~(i < k) => b[i - (k - 1)] = queryQueue[i + 1]
      <4> SUFFICES ASSUME NEW i \in 1..(Len(queryQueue) - 1), ~(i < k)
                   PROVE  b[i - (k - 1)] = queryQueue[i + 1]
        OBVIOUS
      <4>1. i - (k - 1) \in 1..(Len(queryQueue) - k) /\ k + (i - (k - 1)) = i + 1
        BY <1>0, <2>2
      <4> QED BY <2>4, <4>1
    <3> QED BY <1>0, <2>2, <2>3, <2>4, <2>5, <3>1, <3>2
  <2>7. \A i \in 1..Len(queryQueue) : i # k => queryQueue[i] # q
    BY <1>0, <2>2 DEF InOrder, Query
  <2>8. InOrder(Without(q))
    BY <1>0, <2>2, <2>6 DEF InOrder
  <2>9. \A p \in Query : Queued(Without(q), p) => Queued(queryQueue, p) /\ p # q
    BY <1>0, <2>2, <2>6, <2>7 DEF Queued
  <2>10. \A p \in Query : Queued(queryQueue, p) /\ p # q => Queued(Without(q), p)
    <3> SUFFICES ASSUME NEW i \in 1..Len(queryQueue), i # k
                 PROVE  Queued(Without(q), queryQueue[i])
      BY <2>2 DEF Queued
    <3>1. CASE i < k
      BY <1>0, <2>2, <2>6, <3>1 DEF Queued
    <3>2. CASE ~(i < k)
      <4>1. i - 1 \in 1..Len(Without(q)) /\ Without(q)[i - 1] = queryQueue[i]
        BY <1>0, <2>2, <2>6, <3>2
      <4> QED BY <4>1 DEF Queued
    <3> QED BY <3>1, <3>2
  <2> QED BY <2>8, <2>9, <2>10
<1> QED BY <1>1, <1>2

-----------------------------------------------------------------------------
\* The ticks that tell a query.

LEMMA TellsAppend ==
    ASSUME NEW tk \in Seq(Tick), NEW t \in Tick, NEW q \in Query
    PROVE  /\ Tells(Append(tk, t), q) <=> Tells(tk, q) \/ t = Telling(q)
           /\ TellsOnce(tk, q) /\ (t = Telling(q) => ~Tells(tk, q)) =>
                 TellsOnce(Append(tk, t), q)
<1>1. /\ Len(Append(tk, t)) = Len(tk) + 1
      /\ Len(tk) \in Nat
      /\ \A i \in 1..Len(tk) : Append(tk, t)[i] = tk[i]
      /\ Append(tk, t)[Len(tk) + 1] = t
  BY AppendProperties, LenProperties
<1>2. Tells(Append(tk, t), q) <=> Tells(tk, q) \/ t = Telling(q)
  BY <1>1 DEF Tells
<1>3. ASSUME TellsOnce(tk, q), t = Telling(q) => ~Tells(tk, q)
      PROVE  TellsOnce(Append(tk, t), q)
  BY <1>1, <1>3 DEF Tells, TellsOnce
<1> QED BY <1>2, <1>3

LEMMA TellsTail ==
    ASSUME NEW tk \in Seq(Tick), tk # <<>>, NEW q \in Query
    PROVE  /\ Tells(tk, q) <=> Head(tk) = Telling(q) \/ Tells(Tail(tk), q)
           /\ TellsOnce(tk, q) => TellsOnce(Tail(tk), q)
           /\ TellsOnce(tk, q) /\ Head(tk) = Telling(q) => ~Tells(Tail(tk), q)
<1>1. /\ Len(tk) \in Nat /\ Len(tk) > 0
      /\ Len(Tail(tk)) = Len(tk) - 1
      /\ Head(tk) = tk[1]
      /\ \A i \in 1..Len(Tail(tk)) : Tail(tk)[i] = tk[i + 1]
  BY HeadTailProperties, LenProperties, EmptySeq
<1>2. \A i \in 1..Len(Tail(tk)) : i + 1 \in 1..Len(tk) /\ i + 1 # 1
  BY <1>1
<1>3. ASSUME Tells(tk, q) PROVE Head(tk) = Telling(q) \/ Tells(Tail(tk), q)
  <2>1. PICK i \in 1..Len(tk) : tk[i] = Telling(q)
    BY <1>3 DEF Tells
  <2>2. CASE i # 1
    <3>1. i - 1 \in 1..Len(Tail(tk)) /\ Tail(tk)[i - 1] = tk[i]
      BY <1>1, <2>2
    <3> QED BY <2>1, <3>1 DEF Tells
  <2> QED BY <1>1, <2>1, <2>2
<1>4. Head(tk) = Telling(q) \/ Tells(Tail(tk), q) => Tells(tk, q)
  BY <1>1, <1>2 DEF Tells
<1>5. ASSUME TellsOnce(tk, q) PROVE TellsOnce(Tail(tk), q)
  BY <1>1, <1>2, <1>5 DEF TellsOnce
<1>6. ASSUME TellsOnce(tk, q), Head(tk) = Telling(q) PROVE ~Tells(Tail(tk), q)
  BY <1>1, <1>2, <1>6 DEF Tells, TellsOnce
<1> QED BY <1>3, <1>4, <1>5, <1>6

LEMMA TellsConcat ==
    ASSUME NEW tk \in Seq(Tick), NEW s \in Seq(Tick), NEW q \in Query
    PROVE  /\ Tells(tk \o s, q) <=> Tells(tk, q) \/ Tells(s, q)
           /\ TellsOnce(tk, q) /\ TellsOnce(s, q) /\ ~(Tells(tk, q) /\ Tells(s, q)) =>
                 TellsOnce(tk \o s, q)
<1>1. /\ Len(tk \o s) = Len(tk) + Len(s)
      /\ Len(tk) \in Nat /\ Len(s) \in Nat
      /\ \A i \in 1..(Len(tk) + Len(s)) :
            (tk \o s)[i] = IF i <= Len(tk) THEN tk[i] ELSE s[i - Len(tk)]
  BY ConcatProperties, LenProperties
<1>2. \A i \in 1..Len(tk) : i \in 1..Len(tk \o s) /\ (tk \o s)[i] = tk[i]
  BY <1>1
<1>3. \A i \in 1..Len(s) : Len(tk) + i \in 1..Len(tk \o s) /\ (tk \o s)[Len(tk) + i] = s[i]
  BY <1>1
<1>4. \A i \in 1..Len(tk \o s) :
         \/ i \in 1..Len(tk) /\ (tk \o s)[i] = tk[i]
         \/ i - Len(tk) \in 1..Len(s) /\ (tk \o s)[i] = s[i - Len(tk)]
  BY <1>1
<1>5. Tells(tk, q) \/ Tells(s, q) => Tells(tk \o s, q)
  BY <1>2, <1>3 DEF Tells
<1>6. Tells(tk \o s, q) => Tells(tk, q) \/ Tells(s, q)
  BY <1>4 DEF Tells
<1>7. ASSUME TellsOnce(tk, q), TellsOnce(s, q), ~(Tells(tk, q) /\ Tells(s, q))
      PROVE  TellsOnce(tk \o s, q)
  <2> SUFFICES ASSUME NEW i \in 1..Len(tk \o s), NEW j \in 1..Len(tk \o s),
                      (tk \o s)[i] = Telling(q), (tk \o s)[j] = Telling(q)
               PROVE  i = j
    BY DEF TellsOnce
  <2>1. CASE i \in 1..Len(tk) /\ (tk \o s)[i] = tk[i]
    <3>1. j \in 1..Len(tk) /\ (tk \o s)[j] = tk[j]
      BY <1>4, <1>7, <2>1 DEF Tells
    <3> QED BY <1>7, <2>1, <3>1 DEF TellsOnce
  <2>2. CASE i - Len(tk) \in 1..Len(s) /\ (tk \o s)[i] = s[i - Len(tk)]
    <3>1. j - Len(tk) \in 1..Len(s) /\ (tk \o s)[j] = s[j - Len(tk)]
      BY <1>4, <1>7, <2>2 DEF Tells
    <3>2. i - Len(tk) = j - Len(tk)
      BY <1>7, <2>2, <3>1 DEF TellsOnce
    <3> QED BY <1>1, <3>2
  <2> QED BY <1>4, <2>1, <2>2
<1> QED BY <1>5, <1>6, <1>7

\* The end of a connection tells the active query and those on the queue, each
\* of them once.
LEMMA ErrorAllTellsThem ==
    ASSUME TypeOK, InOrder(queryQueue), NEW q \in Query, ~Queued(queryQueue, activeQuery)
    PROVE  /\ Tells(ErrorAll, q) <=> activeQuery = q \/ Queued(queryQueue, q)
           /\ TellsOnce(ErrorAll, q)
<1>1. queryQueue \in Seq(Query) /\ activeQuery \in Query \cup {NoQuery}
  BY DEF TypeOK
<1>2. /\ Len(queryQueue) \in Nat
      /\ \A i \in 1..Len(queryQueue) : queryQueue[i] \in Query
  BY <1>1, LenProperties, ElementOfSeq
<1>3. \A p \in Query : Telling(p) = Telling(q) <=> p = q
  <2>1. \A p \in Query : Telling(p).q = p
    BY DEF Telling
  <2> QED BY <2>1
<1>4. \A i, j \in 1..Len(queryQueue) : queryQueue[i] = queryQueue[j] => i = j
  BY <1>2 DEF InOrder, Query
<1>5. CASE activeQuery = NoQuery
  <2>1. Unanswered = queryQueue
    BY <1>1, <1>5, ConcatEmptySeq DEF Unanswered, Active
  <2>2. /\ Len(ErrorAll) = Len(queryQueue)
        /\ \A i \in 1..Len(queryQueue) : ErrorAll[i] = Telling(queryQueue[i])
    BY <1>2, <2>1 DEF ErrorAll
  <2>3. Tells(ErrorAll, q) <=> Queued(queryQueue, q)
    BY <1>2, <1>3, <2>2 DEF Tells, Queued
  <2>4. TellsOnce(ErrorAll, q)
    BY <1>2, <1>3, <1>4, <2>2 DEF TellsOnce
  <2> QED BY <1>5, <2>3, <2>4, NullAssumption
<1>6. CASE activeQuery # NoQuery
  <2>1. Unanswered = <<activeQuery>> \o queryQueue /\ <<activeQuery>> \in Seq(Query)
    BY <1>1, <1>6 DEF Unanswered, Active
  <2>2. /\ Len(Unanswered) = 1 + Len(queryQueue)
        /\ \A i \in 1..(1 + Len(queryQueue)) :
              Unanswered[i] = IF i <= 1 THEN <<activeQuery>>[i] ELSE queryQueue[i - 1]
    BY <1>1, <2>1, ConcatProperties
  <2>3. /\ Len(ErrorAll) = 1 + Len(queryQueue)
        /\ ErrorAll[1] = Telling(activeQuery)
        /\ \A i \in 1..Len(queryQueue) : ErrorAll[i + 1] = Telling(queryQueue[i])
        /\ \A i \in 1..Len(ErrorAll) : i = 1 \/ i - 1 \in 1..Len(queryQueue)
        /\ \A i \in 1..Len(ErrorAll) : i # 1 => ErrorAll[i] = Telling(queryQueue[i - 1])
    BY <1>2, <2>2 DEF ErrorAll
  <2>4. Tells(ErrorAll, q) => activeQuery = q \/ Queued(queryQueue, q)
    BY <1>1, <1>2, <1>3, <1>6, <2>3 DEF Tells, Queued
  <2>5. Queued(queryQueue, q) => Tells(ErrorAll, q)
    <3> SUFFICES ASSUME NEW i \in 1..Len(queryQueue), queryQueue[i] = q
                 PROVE  Tells(ErrorAll, q)
      BY DEF Queued
    <3>1. i + 1 \in 1..Len(ErrorAll) /\ ErrorAll[i + 1] = Telling(q)
      BY <1>2, <2>3
    <3> QED BY <3>1 DEF Tells
  <2>6. activeQuery = q => Tells(ErrorAll, q)
    <3>1. 1 \in 1..Len(ErrorAll)
      BY <1>2, <2>3
    <3> QED BY <2>3, <3>1 DEF Tells
  <2>7. TellsOnce(ErrorAll, q)
    <3> SUFFICES ASSUME NEW i \in 1..Len(ErrorAll), NEW j \in 1..Len(ErrorAll),
                        ErrorAll[i] = Telling(q), ErrorAll[j] = Telling(q)
                 PROVE  i = j
      BY DEF TellsOnce
    <3>1. CASE i = 1
      BY <1>1, <1>2, <1>3, <1>6, <2>3, <3>1 DEF Queued
    <3>2. CASE j = 1
      BY <1>1, <1>2, <1>3, <1>6, <2>3, <3>2 DEF Queued
    <3>3. CASE i # 1 /\ j # 1
      <4>1. queryQueue[i - 1] = q /\ queryQueue[j - 1] = q
        BY <1>2, <1>3, <2>3, <3>3
      <4>2. i - 1 = j - 1
        BY <1>4, <2>3, <3>3, <4>1
      <4> QED BY <4>2
    <3> QED BY <3>1, <3>2, <3>3
  <2> QED BY <2>4, <2>5, <2>6, <2>7
<1> QED BY <1>5, <1>6

-----------------------------------------------------------------------------
\* What a call of the program's callback changes.

\* Query q hears what: a result, or an error.
Hears(qs2, qs, q, what) ==
    /\ \A p \in Query : p # q => qs2[p] = qs[p]
    /\ qs2[q].kind = qs[q].kind /\ qs2[q].silenced = qs[q].silenced
    /\ IF qs[q].silenced
       THEN qs2[q].told = qs[q].told /\ qs2[q].got = qs[q].got /\ qs2[q].timer = qs[q].timer
       ELSE qs2[q].told = qs[q].told + 1 /\ qs2[q].got = what /\ ~qs2[q].timer
    /\ qs2[q].canceled => qs[q].canceled /\ (what = "result" => qs[q].silenced)

LEMMA ToldHears ==
    ASSUME NEW qs \in [Query -> QueryRecord], NEW q \in Query, NEW what \in {"result", "error"}
    PROVE  LET qs2 == Told(qs, q, what)
           IN  /\ \A p \in Query : p # q => qs2[p] = qs[p]
               /\ qs2[q].kind = qs[q].kind /\ qs2[q].silenced = qs[q].silenced
               /\ qs2[q].canceled = qs[q].canceled
               /\ IF qs[q].silenced
                  THEN qs2[q] = qs[q]
                  ELSE /\ qs2[q].told = qs[q].told + 1 /\ qs2[q].got = what
                       /\ qs2[q].timer = FALSE
<1>1. CASE qs[q].silenced
  BY <1>1 DEF Told
<1>2. CASE ~qs[q].silenced
  <2> DEFINE y == [qs[q] EXCEPT !.told = qs[q].told + 1, !.got = what, !.timer = FALSE]
  <2>1. Told(qs, q, what) = [qs EXCEPT ![q] = y]
    BY <1>2 DEF Told
  <2>2. /\ y.kind = qs[q].kind /\ y.silenced = qs[q].silenced /\ y.canceled = qs[q].canceled
        /\ y.told = qs[q].told + 1 /\ y.got = what /\ y.timer = FALSE
    BY DEF QueryRecord
  <2> HIDE DEF y
  <2>3. Told(qs, q, what)[q] = y /\ \A p \in Query : p # q => Told(qs, q, what)[p] = qs[p]
    BY <2>1
  <2> QED BY <1>2, <2>2, <2>3
<1> QED BY <1>1, <1>2

LEMMA HandleErrorHears ==
    ASSUME NEW qs \in [Query -> QueryRecord], NEW q \in Query
    PROVE  Hears(HandleError(qs, q), qs, q, "error")
<1> DEFINE heard == Told(qs, q, "error")
           y == [heard[q] EXCEPT !.canceled = FALSE]
<1>1. /\ \A p \in Query : p # q => heard[p] = qs[p]
      /\ heard[q].kind = qs[q].kind /\ heard[q].silenced = qs[q].silenced
      /\ IF qs[q].silenced
         THEN heard[q] = qs[q]
         ELSE /\ heard[q].told = qs[q].told + 1 /\ heard[q].got = "error"
              /\ heard[q].timer = FALSE
  BY ToldHears
<1>2. heard \in [Query -> QueryRecord]
  BY ToldType
<1>3. HandleError(qs, q) = [heard EXCEPT ![q] = y]
  BY DEF HandleError
<1> HIDE DEF heard
<1>4. /\ y.kind = heard[q].kind /\ y.silenced = heard[q].silenced /\ y.canceled = FALSE
      /\ y.told = heard[q].told /\ y.got = heard[q].got /\ y.timer = heard[q].timer
  BY <1>2 DEF QueryRecord
<1> HIDE DEF y
<1>5. HandleError(qs, q)[q] = y /\ \A p \in Query : p # q => HandleError(qs, q)[p] = heard[p]
  BY <1>2, <1>3
<1> QED BY <1>1, <1>4, <1>5 DEF Hears

LEMMA HandleReadyHears ==
    ASSUME NEW qs \in [Query -> QueryRecord], NEW q \in Query
    PROVE  \E what \in {"result", "error"} : Hears(HandleReady(qs, q), qs, q, what)
<1>1. CASE qs[q].canceled
  BY <1>1, HandleErrorHears DEF HandleReady
<1>2. CASE ~qs[q].canceled
  <2>1. HandleReady(qs, q) = Told(qs, q, "result")
    BY <1>2 DEF HandleReady
  <2>2. Hears(Told(qs, q, "result"), qs, q, "result")
    BY <1>2, ToldHears DEF Hears
  <2> QED BY <2>1, <2>2
<1> QED BY <1>1, <1>2

\* Whoever was told stays told, and only the query that hears is told more.
LEMMA HearsMore ==
    ASSUME NEW qs \in [Query -> QueryRecord], NEW qs2, NEW q \in Query,
           NEW what \in {"result", "error"}, Hears(qs2, qs, q, what),
           qs[q].silenced => qs[q].told # 0
    PROVE  /\ qs2[q].told # 0
           /\ \A p \in Query : qs[p].told # 0 => qs2[p].told # 0
           /\ \A p \in Query : qs2[p].kind = qs[p].kind /\ qs2[p].silenced = qs[p].silenced
           /\ ~qs[q].silenced /\ qs[q].told = 0 => qs2[q].told = 1
<1>1. qs[q].told \in Nat
  BY DEF QueryRecord
<1>2. qs2[q].told # 0
  BY <1>1 DEF Hears
<1> QED BY <1>1, <1>2 DEF Hears

-----------------------------------------------------------------------------
\* One lemma for each thing that may happen to the queue, the active query,
\* the ticks and the query objects: the queries stay settled.

\* The active query hears how it ended, and is active no more.
LEMMA ActiveHears ==
    ASSUME NEW qs \in [Query -> QueryRecord], NEW que, NEW tk, NEW n, NEW r, NEW q \in Query,
           NEW qs2, NEW what \in {"result", "error"},
           Settled(que, q, tk, qs, n, r), r # "ready", Hears(qs2, qs, q, what),
           what = "result" => qs[q].kind \in {"plain", "paged"}
    PROVE  Settled(que, NoQuery, tk, qs2, n, r)
<1>1. InOrder(que) /\ NoQuery \notin Query
  BY NullAssumption DEF Settled
<1>2. \A p \in Query : /\ Placed(que, q, tk, qs, n, p) /\ Untold(q, tk, qs, r, p)
                       /\ Preceded(que, q, qs, p) /\ Final(q, qs, p)
  BY DEF Settled
<1>3. /\ qs2[q].told # 0
      /\ \A p \in Query : qs[p].told # 0 => qs2[p].told # 0
      /\ \A p \in Query : qs2[p].kind = qs[p].kind /\ qs2[p].silenced = qs[p].silenced
      /\ ~qs[q].silenced /\ qs[q].told = 0 => qs2[q].told = 1
  BY <1>2, HearsMore DEF Placed
<1>4. ASSUME NEW p \in Query PROVE Placed(que, NoQuery, tk, qs2, n, p)
  BY <1>1, <1>2, <1>3 DEF Placed, Hears
<1>5. ASSUME NEW p \in Query PROVE Untold(NoQuery, tk, qs2, r, p)
  BY <1>1, <1>2, <1>3 DEF Untold, Placed, Hears
<1>6. ASSUME NEW p \in Query PROVE Preceded(que, NoQuery, qs2, p)
  BY <1>1, <1>2, <1>3 DEF Preceded, Final, Hears
<1>7. ASSUME NEW p \in Query PROVE Final(NoQuery, qs2, p)
  BY <1>1, <1>2, <1>3 DEF Final, Hears
<1> QED BY <1>1, <1>4, <1>5, <1>6, <1>7 DEF Settled

\* A query is told in its tick.
LEMMA TickHears ==
    ASSUME NEW qs \in [Query -> QueryRecord], NEW que, NEW act, NEW tk \in Seq(Tick), NEW n,
           NEW r, NEW q \in Query, NEW qs2,
           Settled(que, act, tk, qs, n, r), r # "ready",
           tk # <<>>, Head(tk) = Telling(q), Hears(qs2, qs, q, "error")
    PROVE  Settled(que, act, Tail(tk), qs2, n, r)
<1>1. InOrder(que)
  BY DEF Settled
<1>2. \A p \in Query : /\ Placed(que, act, tk, qs, n, p) /\ Untold(act, tk, qs, r, p)
                       /\ Preceded(que, act, qs, p) /\ Final(act, qs, p)
  BY DEF Settled
<1>3. /\ qs2[q].told # 0
      /\ \A p \in Query : qs[p].told # 0 => qs2[p].told # 0
      /\ \A p \in Query : qs2[p].kind = qs[p].kind /\ qs2[p].silenced = qs[p].silenced
      /\ ~qs[q].silenced /\ qs[q].told = 0 => qs2[q].told = 1
  BY <1>2, HearsMore DEF Placed
<1> DEFINE tl == Tail(tk)
<1>4. \A p \in Query : /\ Tells(tk, p) <=> p = q \/ Tells(tl, p)
                       /\ TellsOnce(tk, p) => TellsOnce(tl, p)
                       /\ TellsOnce(tk, q) => ~Tells(tl, q)
  <2>1. \A p \in Query : Telling(p) = Telling(q) <=> p = q
    <3>1. \A p \in Query : Telling(p).q = p
      BY DEF Telling
    <3> QED BY <3>1
  <2> QED BY <2>1, TellsTail
<1> HIDE DEF tl
<1>5. ASSUME NEW p \in Query PROVE Placed(que, act, tl, qs2, n, p)
  BY <1>1, <1>2, <1>3, <1>4 DEF Placed, Hears
<1>6. ASSUME NEW p \in Query PROVE Untold(act, tl, qs2, r, p)
  BY <1>1, <1>2, <1>3, <1>4 DEF Untold, Placed, Hears
<1>7. ASSUME NEW p \in Query PROVE Preceded(que, act, qs2, p)
  BY <1>1, <1>2, <1>3 DEF Preceded, Final, Hears
<1>8. ASSUME NEW p \in Query PROVE Final(act, qs2, p)
  BY <1>1, <1>2, <1>3 DEF Final, Hears
<1> QED BY <1>1, <1>5, <1>6, <1>7, <1>8 DEF Settled, tl

\* A tick that tells no query.
LEMMA OtherTick ==
    ASSUME NEW qs, NEW que, NEW act, NEW tk \in Seq(Tick), NEW n, NEW r,
           Settled(que, act, tk, qs, n, r),
           tk # <<>>, Head(tk).do # "tell"
    PROVE  Settled(que, act, Tail(tk), qs, n, r)
<1> DEFINE tl == Tail(tk)
<1>1. \A p \in Query : /\ Tells(tk, p) <=> Tells(tl, p)
                       /\ TellsOnce(tk, p) => TellsOnce(tl, p)
  BY TellsTail DEF Telling
<1> HIDE DEF tl
<1>2. ASSUME NEW p \in Query PROVE Placed(que, act, tl, qs, n, p)
  <2>1. Placed(que, act, tk, qs, n, p)
    BY DEF Settled
  <2> QED BY <1>1, <2>1, Zenon DEF Placed
<1>3. ASSUME NEW p \in Query PROVE Untold(act, tl, qs, r, p)
  <2>1. Untold(act, tk, qs, r, p)
    BY DEF Settled
  <2> QED BY <1>1, <2>1, Zenon DEF Untold
<1> QED BY <1>2, <1>3 DEF Settled, tl

\* The tick of a refused query tells it, and it stays active until the
\* handler goes on.
LEMMA RefuseHears ==
    ASSUME NEW qs \in [Query -> QueryRecord], NEW que, NEW tk \in Seq(Tick), NEW n,
           NEW r, NEW q \in Query, NEW qs2,
           Settled(que, q, tk, qs, n, r), r # "ready",
           tk # <<>>, Head(tk).do # "tell", Hears(qs2, qs, q, "error")
    PROVE  Settled(que, q, Tail(tk), qs2, n, "ready")
<1>1. Settled(que, q, Tail(tk), qs, n, r)
  BY OtherTick
<1>2. \A p \in Query : /\ Placed(que, q, Tail(tk), qs, n, p) /\ Untold(q, Tail(tk), qs, r, p)
                       /\ Preceded(que, q, qs, p) /\ Final(q, qs, p)
  BY <1>1 DEF Settled
<1>3. /\ qs2[q].told # 0
      /\ \A p \in Query : qs[p].told # 0 => qs2[p].told # 0
      /\ \A p \in Query : qs2[p].kind = qs[p].kind /\ qs2[p].silenced = qs[p].silenced
      /\ ~qs[q].silenced /\ qs[q].told = 0 => qs2[q].told = 1
  BY <1>2, HearsMore DEF Placed
<1>4. ASSUME NEW p \in Query PROVE Placed(que, q, Tail(tk), qs2, n, p)
  BY <1>2, <1>3 DEF Placed, Hears
<1>5. ASSUME NEW p \in Query PROVE Untold(q, Tail(tk), qs2, "ready", p)
  BY <1>2, <1>3 DEF Untold, Placed, Hears
<1>6. ASSUME NEW p \in Query PROVE Preceded(que, q, qs2, p)
  BY <1>2, <1>3 DEF Preceded, Final, Hears
<1>7. ASSUME NEW p \in Query PROVE Final(q, qs2, p)
  BY <1>2, <1>3 DEF Final, Hears
<1> QED BY <1>1, <1>3, <1>4, <1>5, <1>6, <1>7 DEF Settled

\* A tick that tells no query is added.
LEMMA AddsOtherTick ==
    ASSUME NEW qs, NEW que, NEW act, NEW tk \in Seq(Tick), NEW n, NEW r, NEW t \in Tick,
           Settled(que, act, tk, qs, n, r), t.do # "tell"
    PROVE  Settled(que, act, Append(tk, t), qs, n, r)
<1> DEFINE tk2 == Append(tk, t)
<1>1. \A p \in Query : t # Telling(p)
  BY DEF Telling
<1>2. \A p \in Query : /\ Tells(tk, p) <=> Tells(tk2, p)
                       /\ TellsOnce(tk, p) => TellsOnce(tk2, p)
  BY <1>1, TellsAppend
<1> HIDE DEF tk2
<1>3. ASSUME NEW p \in Query PROVE Placed(que, act, tk2, qs, n, p)
  <2>1. Placed(que, act, tk, qs, n, p)
    BY DEF Settled
  <2> QED BY <1>2, <2>1, Zenon DEF Placed
<1>4. ASSUME NEW p \in Query PROVE Untold(act, tk2, qs, r, p)
  <2>1. Untold(act, tk, qs, r, p)
    BY DEF Settled
  <2> QED BY <1>2, <2>1, Zenon DEF Untold
<1> QED BY <1>3, <1>4 DEF Settled, tk2

\* The active query and those on the queue are to be told by ticks.
LEMMA ErrorAllSettles ==
    ASSUME TypeOK, NEW r, Settled(queryQueue, activeQuery, ticks, query, asked, r), r # "ready"
    PROVE  Settled(<<>>, NoQuery, ticks \o ErrorAll, query, asked, r)
<1> DEFINE tk2 == ticks \o ErrorAll
<1>1. \A p \in Query : /\ Placed(queryQueue, activeQuery, ticks, query, asked, p)
                       /\ Untold(activeQuery, ticks, query, r, p)
                       /\ Preceded(queryQueue, activeQuery, query, p)
                       /\ Final(activeQuery, query, p)
  BY DEF Settled
<1>2. ~Queued(queryQueue, activeQuery)
  <2>1. \A i \in 1..Len(queryQueue) : queryQueue[i] \in Query
    BY ElementOfSeq DEF TypeOK
  <2>2. CASE activeQuery \in Query
    BY <1>1, <2>2 DEF Placed
  <2>3. CASE activeQuery = NoQuery
    BY <2>1, <2>3, NullAssumption DEF Queued
  <2> QED BY <2>2, <2>3 DEF TypeOK
<1>3. ASSUME NEW p \in Query
      PROVE  /\ Tells(tk2, p) <=> Tells(ticks, p) \/ activeQuery = p \/ Queued(queryQueue, p)
             /\ ~query[p].silenced => TellsOnce(tk2, p)
  <2>1. /\ Tells(ErrorAll, p) <=> activeQuery = p \/ Queued(queryQueue, p)
        /\ TellsOnce(ErrorAll, p)
    BY <1>2, ErrorAllTellsThem DEF Settled
  <2>2. ErrorAll \in Seq(Tick) /\ ticks \in Seq(Tick)
    BY ErrorAllTells DEF TypeOK
  <2>3. /\ Tells(tk2, p) <=> Tells(ticks, p) \/ Tells(ErrorAll, p)
        /\ TellsOnce(ticks, p) /\ TellsOnce(ErrorAll, p) /\ ~(Tells(ticks, p) /\ Tells(ErrorAll, p))
              => TellsOnce(tk2, p)
    BY <2>2, TellsConcat
  <2> HIDE DEF tk2
  <2> QED BY <1>1, <2>1, <2>3 DEF Placed
<1> HIDE DEF tk2
<1>4. InOrder(<<>>) /\ \A p \in Query : ~Queued(<<>>, p) /\ p # NoQuery
  BY NullAssumption DEF InOrder, Queued
<1>5. ASSUME NEW p \in Query PROVE Placed(<<>>, NoQuery, tk2, query, asked, p)
  BY <1>1, <1>3, <1>4 DEF Placed
<1>6. ASSUME NEW p \in Query PROVE Untold(NoQuery, tk2, query, r, p)
  BY <1>1, <1>3, <1>4 DEF Untold, Placed
<1>7. ASSUME NEW p \in Query PROVE Preceded(<<>>, NoQuery, query, p)
  BY <1>1, <1>4 DEF Preceded
<1>8. ASSUME NEW p \in Query PROVE Final(NoQuery, query, p)
  BY <1>1, <1>4 DEF Final
<1> QED BY <1>4, <1>5, <1>6, <1>7, <1>8 DEF Settled, tk2

\* Query q is made: only its timer changes.
Made(qs2, qs, q) ==
    /\ \A p \in Query : p # q => qs2[p] = qs[p]
    /\ qs2[q].kind = qs[q].kind /\ qs2[q].silenced = qs[q].silenced
    /\ qs2[q].told = qs[q].told /\ qs2[q].got = qs[q].got /\ qs2[q].canceled = qs[q].canceled

\* What is known of the query that is made next.
LEMMA NextIsNew ==
    ASSUME NEW qs \in [Query -> QueryRecord], NEW que, NEW act, NEW tk, NEW n \in Nat, NEW r,
           NEW q \in Query, q = n + 1, Settled(que, act, tk, qs, n, r)
    PROVE  /\ act # q /\ ~Queued(que, q) /\ ~Tells(tk, q)
           /\ qs[q].told = 0 /\ ~qs[q].silenced /\ qs[q].got # "result"
           /\ \A p \in Query : p <= q <=> p <= n \/ p = q
           /\ \A p \in Query : Queued(que, p) => p < q
<1>1. ~(q <= n) /\ \A p \in Query : p <= q <=> p <= n \/ p = q
  BY DEF Query
<1>2. /\ Placed(que, act, tk, qs, n, q) /\ Final(act, qs, q)
      /\ \A p \in Query : Placed(que, act, tk, qs, n, p)
  BY DEF Settled
<1>3. \A p \in Query : Queued(que, p) => p < q
  BY <1>2 DEF Placed, Query
<1> QED BY <1>1, <1>2, <1>3 DEF Placed, Final

\* It is put on the queue of a client that has told whatever it did not queue.
LEMMA AcceptedSettles ==
    ASSUME NEW qs \in [Query -> QueryRecord], NEW que \in Seq(Query), NEW act, NEW tk,
           NEW n \in Nat, NEW r, NEW q \in Query, NEW qs2, q = n + 1,
           Settled(que, act, tk, qs, n, r), Made(qs2, qs, q), act = NoQuery \/ act \in Query,
           \A p \in Query : Tells(tk, p) => qs[p].told # 0
    PROVE  Settled(Append(que, q), act, tk, qs2, q, r)
<1> DEFINE que2 == Append(que, q)
<1>1. /\ act # q /\ ~Queued(que, q) /\ ~Tells(tk, q)
      /\ qs[q].told = 0 /\ ~qs[q].silenced /\ qs[q].got # "result"
      /\ \A p \in Query : p <= q <=> p <= n \/ p = q
      /\ \A p \in Query : Queued(que, p) => p < q
  BY NextIsNew
<1>2. \A p \in Query : /\ Placed(que, act, tk, qs, n, p) /\ Untold(act, tk, qs, r, p)
                       /\ Preceded(que, act, qs, p) /\ Final(act, qs, p)
  BY DEF Settled
<1>3. InOrder(que2) /\ \A p \in Query : Queued(que2, p) <=> Queued(que, p) \/ p = q
  BY <1>1, QueuedAppend DEF Settled
<1> HIDE DEF que2
<1>4. ASSUME NEW p \in Query PROVE Placed(que2, act, tk, qs2, q, p)
  BY <1>1, <1>2, <1>3 DEF Placed, Made
<1>5. ASSUME NEW p \in Query PROVE Untold(act, tk, qs2, r, p)
  BY <1>1, <1>2, <1>3 DEF Untold, Made
<1>6. \A p \in Query : qs2[p].told = qs[p].told
  BY DEF Made
<1>7. ASSUME NEW p \in Query PROVE Preceded(que2, act, qs2, p)
  <2>1. act = p \/ qs2[p].got = "result" => \A o \in Query : o < p => qs2[o].told # 0
    BY <1>1, <1>2, <1>6 DEF Preceded, Made
  <2>2. ASSUME Queued(que2, p), NEW o \in Query, o < p
        PROVE  qs2[o].told # 0 \/ Queued(que2, o) \/ act = o
    <3>1. CASE p = q
      <4>1. o <= n
        BY <2>2, <3>1 DEF Query
      <4> QED BY <1>2, <1>3, <1>6, <4>1 DEF Placed
    <3>2. CASE p # q
      BY <1>2, <1>3, <1>6, <2>2, <3>2 DEF Preceded
    <3> QED BY <3>1, <3>2
  <2> QED BY <2>1, <2>2 DEF Preceded
<1>8. ASSUME NEW p \in Query PROVE Final(act, qs2, p)
  BY <1>1, <1>2 DEF Final, Made
<1>9. r = "ready" /\ act # NoQuery => qs2[act].told # 0
  BY <1>6 DEF Settled
<1> QED BY <1>3, <1>4, <1>5, <1>7, <1>8, <1>9 DEF Settled, que2

\* Or it is to be told that the client accepts no more queries.
LEMMA RejectedSettles ==
    ASSUME NEW qs \in [Query -> QueryRecord], NEW que, NEW act, NEW tk \in Seq(Tick),
           NEW n \in Nat, NEW r, NEW q \in Query, NEW qs2, q = n + 1,
           Settled(que, act, tk, qs, n, r), Made(qs2, qs, q), act = NoQuery \/ act \in Query
    PROVE  Settled(que, act, Append(tk, Telling(q)), qs2, q, r)
<1> DEFINE tk2 == Append(tk, Telling(q))
<1>1. /\ act # q /\ ~Queued(que, q) /\ ~Tells(tk, q)
      /\ qs[q].told = 0 /\ ~qs[q].silenced /\ qs[q].got # "result"
      /\ \A p \in Query : p <= q <=> p <= n \/ p = q
      /\ \A p \in Query : Queued(que, p) => p < q
  BY NextIsNew
<1>2. \A p \in Query : /\ Placed(que, act, tk, qs, n, p) /\ Untold(act, tk, qs, r, p)
                       /\ Preceded(que, act, qs, p) /\ Final(act, qs, p)
  BY DEF Settled
<1>3. ASSUME NEW p \in Query
      PROVE  /\ Tells(tk2, p) <=> Tells(tk, p) \/ p = q
             /\ TellsOnce(tk, p) => TellsOnce(tk2, p)
  <2>1. Telling(q) \in Tick /\ (Telling(q) = Telling(p) <=> p = q)
    <3>1. Telling(q).q = q /\ Telling(p).q = p
      BY DEF Telling
    <3> QED BY <3>1 DEF Telling, Tick
  <2>2. /\ Tells(tk2, p) <=> Tells(tk, p) \/ Telling(q) = Telling(p)
        /\ TellsOnce(tk, p) /\ (Telling(q) = Telling(p) => ~Tells(tk, p)) => TellsOnce(tk2, p)
    BY <2>1, TellsAppend
  <2> HIDE DEF tk2
  <2> QED BY <1>1, <2>1, <2>2
<1> HIDE DEF tk2
<1>4. ASSUME NEW p \in Query PROVE Placed(que, act, tk2, qs2, q, p)
  BY <1>1, <1>2, <1>3 DEF Placed, Made
<1>5. ASSUME NEW p \in Query PROVE Untold(act, tk2, qs2, r, p)
  BY <1>1, <1>2, <1>3 DEF Untold, Made
<1>6. \A p \in Query : qs2[p].told = qs[p].told
  BY DEF Made
<1>7. ASSUME NEW p \in Query PROVE Preceded(que, act, qs2, p)
  BY <1>1, <1>2, <1>6 DEF Preceded, Made
<1>8. ASSUME NEW p \in Query PROVE Final(act, qs2, p)
  BY <1>1, <1>2 DEF Final, Made
<1>9. r = "ready" /\ act # NoQuery => qs2[act].told # 0
  BY <1>6 DEF Settled
<1> QED BY <1>4, <1>5, <1>7, <1>8, <1>9 DEF Settled, tk2

\* A query whose timeout fires hears it, leaves the queue, and hears no more.
LEMMA TimeoutSettles ==
    ASSUME TypeOK, NEW r, r # "ready", NEW q \in Query, query[q].timer, ticks = <<>>,
           Settled(queryQueue, activeQuery, ticks, query, asked, r)
    PROVE  Settled(Without(q), activeQuery, <<Telling(q)>>, Silenced(q), asked, r)
<1> DEFINE que2 == Without(q)
           tk2 == <<Telling(q)>>
           qs2 == Silenced(q)
<1>1. \A p \in Query : /\ Placed(queryQueue, activeQuery, ticks, query, asked, p)
                       /\ Untold(activeQuery, ticks, query, r, p)
                       /\ Preceded(queryQueue, activeQuery, query, p)
                       /\ Final(activeQuery, query, p)
  BY DEF Settled
<1>2. query[q].told = 0 /\ ~query[q].silenced
  BY <1>1 DEF Placed
<1>3. /\ \A p \in Query : p # q => qs2[p] = query[p]
      /\ qs2[q].kind = query[q].kind /\ qs2[q].silenced
      /\ qs2[q].told = 1 /\ qs2[q].got = "error" /\ qs2[q].timer = FALSE
  <2> DEFINE heard == Told(query, q, "error")
             y == [heard[q] EXCEPT !.silenced = TRUE]
  <2>1. query \in [Query -> QueryRecord]
    BY DEF TypeOK
  <2>2. heard \in [Query -> QueryRecord]
    BY <2>1, ToldType
  <2>3. /\ heard[q].kind = query[q].kind
        /\ heard[q].told = 1 /\ heard[q].got = "error" /\ heard[q].timer = FALSE
    <3>1. /\ heard[q].kind = query[q].kind
          /\ IF query[q].silenced
             THEN heard[q] = query[q]
             ELSE /\ heard[q].told = query[q].told + 1 /\ heard[q].got = "error"
                  /\ heard[q].timer = FALSE
      BY <2>1, ToldHears
    <3> HIDE DEF heard
    <3> QED BY <1>2, <3>1
  <2>4. qs2 = [query EXCEPT ![q] = y]
    BY DEF Silenced
  <2> HIDE DEF heard
  <2>5. /\ y.kind = heard[q].kind /\ y.silenced = TRUE
        /\ y.told = heard[q].told /\ y.got = heard[q].got /\ y.timer = heard[q].timer
    BY <2>2 DEF QueryRecord
  <2> HIDE DEF y, qs2
  <2>6. qs2[q] = y /\ \A p \in Query : p # q => qs2[p] = query[p]
    BY <2>1, <2>4
  <2> QED BY <2>3, <2>5, <2>6
<1>4. InOrder(que2) /\ \A p \in Query : Queued(que2, p) <=> Queued(queryQueue, p) /\ p # q
  BY QueuedWithout DEF TypeOK, Settled
<1>5. \A p \in Query : /\ Tells(tk2, p) <=> p = q
                       /\ TellsOnce(tk2, p)
                       /\ ~Tells(ticks, p)
  <2>1. \A p \in Query : Telling(p) = Telling(q) <=> p = q
    <3>1. \A p \in Query : Telling(p).q = p
      BY DEF Telling
    <3> QED BY <3>1
  <2>2. Len(tk2) = 1 /\ tk2[1] = Telling(q) /\ Len(ticks) = 0
    OBVIOUS
  <2> QED BY <2>1, <2>2 DEF Tells, TellsOnce
<1> HIDE DEF que2, tk2, qs2
<1>6. \A p \in Query : p = q \/ query[p].told # 0 => qs2[p].told # 0
  BY <1>3
<1>7. ASSUME NEW p \in Query PROVE Placed(que2, activeQuery, tk2, qs2, asked, p)
  BY <1>1, <1>2, <1>3, <1>4, <1>5 DEF Placed
<1>8. ASSUME NEW p \in Query PROVE Untold(activeQuery, tk2, qs2, r, p)
  BY <1>1, <1>2, <1>3, <1>5 DEF Untold
<1>9. ASSUME NEW p \in Query PROVE Preceded(que2, activeQuery, qs2, p)
  BY <1>1, <1>3, <1>4, <1>6 DEF Preceded
<1>10. ASSUME NEW p \in Query PROVE Final(activeQuery, qs2, p)
  BY <1>1, <1>3 DEF Final
<1> QED BY <1>4, <1>7, <1>8, <1>9, <1>10 DEF Settled, que2, tk2, qs2

\* A row of the active query does not parse.
LEMMA SpoiledSettles ==
    ASSUME NEW qs \in [Query -> QueryRecord], NEW que, NEW tk, NEW n, NEW r, NEW q \in Query,
           Settled(que, q, tk, qs, n, r)
    PROVE  Settled(que, q, tk, [qs EXCEPT ![q] = [qs[q] EXCEPT !.canceled = TRUE]], n, r)
<1> DEFINE y == [qs[q] EXCEPT !.canceled = TRUE]
           qs2 == [qs EXCEPT ![q] = y]
<1>1. \A p \in Query : /\ Placed(que, q, tk, qs, n, p) /\ Untold(q, tk, qs, r, p)
                       /\ Preceded(que, q, qs, p) /\ Final(q, qs, p)
  BY DEF Settled
<1>2. /\ y.kind = qs[q].kind /\ y.silenced = qs[q].silenced
      /\ y.told = qs[q].told /\ y.got = qs[q].got /\ y.timer = qs[q].timer
  BY DEF QueryRecord
<1> HIDE DEF y
<1>3. qs2[q] = y /\ \A p \in Query : p # q => qs2[p] = qs[p]
  OBVIOUS
<1> HIDE DEF qs2
<1>4. ASSUME NEW p \in Query PROVE Placed(que, q, tk, qs2, n, p)
  BY <1>1, <1>2, <1>3 DEF Placed
<1>5. ASSUME NEW p \in Query PROVE Untold(q, tk, qs2, r, p)
  BY <1>1, <1>2, <1>3 DEF Untold
<1>6. ASSUME NEW p \in Query PROVE Preceded(que, q, qs2, p)
  BY <1>1, <1>2, <1>3 DEF Preceded
<1>7. ASSUME NEW p \in Query PROVE Final(q, qs2, p)
  BY <1>1, <1>2, <1>3 DEF Final
<1>8. r = "ready" => qs2[q].told # 0
  <2>1. r = "ready" => qs[q].told # 0
    BY NullAssumption DEF Settled
  <2> QED BY <1>2, <1>3, <2>1
<1>9. InOrder(que)
  BY DEF Settled
<1>10. Settled(que, q, tk, qs2, n, r)
  BY <1>4, <1>5, <1>6, <1>7, <1>8, <1>9 DEF Settled
<1> QED BY <1>10 DEF qs2, y

-----------------------------------------------------------------------------
\* _pulseQueryQueue.

\* The head of the queue becomes the active query of a client whose query
\* before was told.
LEMMA HeadTurns ==
    ASSUME NEW qs \in [Query -> QueryRecord], NEW que \in Seq(Query), NEW act, NEW tk, NEW n,
           NEW r, NEW r2, Settled(que, act, tk, qs, n, r), r2 # "ready",
           que # <<>>, act # NoQuery => qs[act].told # 0
    PROVE  Settled(Tail(que), Head(que), tk, qs, n, r2)
<1> DEFINE h == Head(que)
           tl == Tail(que)
<1>1. \A p \in Query : /\ Placed(que, act, tk, qs, n, p) /\ Untold(act, tk, qs, r, p)
                       /\ Preceded(que, act, qs, p) /\ Final(act, qs, p)
  BY DEF Settled
<1>2. /\ h \in Query /\ InOrder(tl)
      /\ \A p \in Query : Queued(que, p) <=> p = h \/ Queued(tl, p)
      /\ \A p \in Query : Queued(tl, p) => h < p
  BY QueuedTail DEF Settled
<1> HIDE DEF h, tl
<1>3. \A p \in Query : p = act => qs[p].told # 0
  BY NullAssumption
<1>4. \A p \in Query : p < h => ~Queued(tl, p) /\ p # h
  BY <1>2 DEF Query
<1>5. ~Queued(tl, h)
  BY <1>2 DEF Query
<1>6. ASSUME NEW p \in Query PROVE Placed(tl, h, tk, qs, n, p)
  BY <1>1, <1>2, <1>3, <1>5 DEF Placed
<1>7. ASSUME NEW p \in Query PROVE Untold(h, tk, qs, r2, p)
  BY <1>1, <1>2 DEF Untold, Placed
<1>8. ASSUME NEW p \in Query PROVE Preceded(tl, h, qs, p)
  BY <1>1, <1>2, <1>3, <1>4 DEF Preceded
<1>9. ASSUME NEW p \in Query PROVE Final(h, qs, p)
  BY <1>1, <1>2 DEF Final, Placed
<1> QED BY <1>2, <1>6, <1>7, <1>8, <1>9 DEF Settled, h, tl

\* A query whose parameters cannot be bound hears it and stays active.
LEMMA UnboundHears ==
    ASSUME NEW qs \in [Query -> QueryRecord], NEW que, NEW tk, NEW n, NEW r, NEW q \in Query,
           NEW qs2, Settled(que, q, tk, qs, n, r), r # "ready",
           Hears(qs2, qs, q, "error"), qs[q].kind = "unbindable"
    PROVE  Settled(que, q, tk, qs2, n, r)
<1>1. \A p \in Query : /\ Placed(que, q, tk, qs, n, p) /\ Untold(q, tk, qs, r, p)
                       /\ Preceded(que, q, qs, p) /\ Final(q, qs, p)
  BY DEF Settled
<1>2. /\ qs2[q].told # 0
      /\ \A p \in Query : qs[p].told # 0 => qs2[p].told # 0
      /\ \A p \in Query : qs2[p].kind = qs[p].kind /\ qs2[p].silenced = qs[p].silenced
  BY <1>1, HearsMore DEF Placed
<1>3. ASSUME NEW p \in Query PROVE Placed(que, q, tk, qs2, n, p)
  BY <1>1, <1>2 DEF Placed, Hears
<1>4. ASSUME NEW p \in Query PROVE Untold(q, tk, qs2, r, p)
  BY <1>1, <1>2 DEF Untold, Hears
<1>5. ASSUME NEW p \in Query PROVE Preceded(que, q, qs2, p)
  BY <1>1, <1>2 DEF Preceded, Final, Hears
<1>6. ASSUME NEW p \in Query PROVE Final(q, qs2, p)
  BY <1>1, <1>2 DEF Final, Hears
<1> QED BY <1>2, <1>3, <1>4, <1>5, <1>6 DEF Settled

LEMMA PulseSettles ==
    ASSUME NEW que \in Seq(Query), NEW ready \in BOOLEAN, NEW qs \in [Query -> QueryRecord],
           NEW tk \in Seq(Tick), NEW n, NEW r, NEW r2,
           Settled(que, activeQuery, tk, qs, n, r),
           ready => r2 # "ready" /\ (activeQuery # NoQuery => qs[activeQuery].told # 0),
           ~ready => r2 = r \/ (r # "ready" /\ r2 # "ready"),
           Pulse(que, ready, qs, tk)
    PROVE  Settled(queryQueue', activeQuery', ticks', query', n, r2)
<1>1. CASE ready /\ que # <<>>
  <2> DEFINE h == Head(que)
             tl == Tail(que)
  <2>1. Settled(tl, h, tk, qs, n, r2)
    BY <1>1, HeadTurns
  <2>2. h \in Query
    BY <1>1, HeadTailProperties
  <2>3. activeQuery' = h /\ queryQueue' = tl /\ Submit(h, qs, tk)
    BY <1>1 DEF Pulse
  <2> HIDE DEF h, tl
  <2>4. CASE query' = qs /\ ticks' = tk
    BY <2>1, <2>3, <2>4
  <2>5. CASE qs[h].kind = "unbindable" /\ query' = HandleError(qs, h) /\ ticks' = tk
    <3>1. Hears(HandleError(qs, h), qs, h, "error")
      BY <2>2, HandleErrorHears
    <3>2. Settled(tl, h, tk, HandleError(qs, h), n, r2)
      BY <1>1, <2>1, <2>2, <2>5, <3>1, UnboundHears
    <3> QED BY <2>3, <2>5, <3>2
  <2>6. CASE query' = qs /\ ticks' = Append(tk, [do |-> "refuse", q |-> h])
    <3> DEFINE t == [do |-> "refuse", q |-> h]
    <3>1. t \in Tick /\ t.do # "tell"
      BY <2>2 DEF Tick
    <3> HIDE DEF t
    <3>2. Settled(tl, h, Append(tk, t), qs, n, r2)
      BY <2>1, <3>1, AddsOtherTick
    <3> QED BY <2>3, <2>6, <3>2 DEF t
  <2> QED BY <2>3, <2>4, <2>5, <2>6 DEF Submit
<1>2. CASE ready /\ que = <<>>
  <2>1. activeQuery' = NoQuery /\ queryQueue' = que /\ query' = qs /\ ticks' = tk
    BY <1>2 DEF Pulse
  <2>2. \A p \in Query : /\ Placed(que, activeQuery, tk, qs, n, p)
                         /\ Untold(activeQuery, tk, qs, r, p)
                         /\ Preceded(que, activeQuery, qs, p) /\ Final(activeQuery, qs, p)
    BY DEF Settled
  <2>3. \A p \in Query : p # NoQuery /\ (p = activeQuery => qs[p].told # 0)
    BY <1>2, NullAssumption
  <2>4. ASSUME NEW p \in Query PROVE Placed(que, NoQuery, tk, qs, n, p)
    BY <2>2, <2>3 DEF Placed
  <2>5. ASSUME NEW p \in Query PROVE Untold(NoQuery, tk, qs, r2, p)
    BY <2>2, <2>3 DEF Untold
  <2>6. ASSUME NEW p \in Query PROVE Preceded(que, NoQuery, qs, p)
    BY <2>2, <2>3 DEF Preceded
  <2>7. ASSUME NEW p \in Query PROVE Final(NoQuery, qs, p)
    BY <2>2, <2>3 DEF Final
  <2>8. InOrder(que)
    BY DEF Settled
  <2>9. Settled(que, NoQuery, tk, qs, n, r2)
    BY <2>4, <2>5, <2>6, <2>7, <2>8 DEF Settled
  <2> QED BY <2>1, <2>9
<1>3. CASE ~ready
  <2>1. activeQuery' = activeQuery /\ queryQueue' = que /\ query' = qs /\ ticks' = tk
    BY <1>3 DEF Pulse
  <2>2. CASE r2 = r
    BY <2>1, <2>2
  <2>3. CASE r # "ready" /\ r2 # "ready"
    <3>1. \A p \in Query : Untold(activeQuery, tk, qs, r, p) => Untold(activeQuery, tk, qs, r2, p)
      BY <2>3 DEF Untold
    <3>2. Settled(que, activeQuery, tk, qs, n, r2)
      BY <2>3, <3>1 DEF Settled
    <3> QED BY <2>1, <3>2
  <2> QED BY <1>3, <2>2, <2>3
<1> QED BY <1>1, <1>2, <1>3

\* A pulse tells nobody by a tick, and has the server execute only queries
\* that were submitted to be executed.
LEMMA PulseEffects ==
    ASSUME NEW que \in Seq(Query), NEW ready \in BOOLEAN, NEW qs \in [Query -> QueryRecord],
           NEW tk \in Seq(Tick), Pulse(que, ready, qs, tk),
           \A p \in Query : qs[p].silenced => qs[p].told # 0
    PROVE  /\ \A p \in Query : /\ Tells(ticks', p) => Tells(tk, p)
                               /\ qs[p].told # 0 => query'[p].told # 0
                               /\ query'[p].kind = qs[p].kind
           /\ \/ server' = server
              \/ server'.at = "waiting"
              \/ server'.on \in Query /\ qs[server'.on].kind \in {"plain", "paged"}
<1>1. CASE ready /\ que # <<>>
  <2> DEFINE h == Head(que)
  <2>1. h \in Query
    BY <1>1, HeadTailProperties
  <2>2. Submit(h, qs, tk)
    BY <1>1 DEF Pulse
  <2> HIDE DEF h
  <2>3. CASE qs[h].kind \in {"plain", "paged"} /\ server' = Sent(h, "run") /\ query' = qs /\ ticks' = tk
    BY <2>1, <2>3 DEF Sent
  <2>4. CASE server' = Sent(h, "waiting") /\ query' = HandleError(qs, h) /\ ticks' = tk
    <3>1. Hears(HandleError(qs, h), qs, h, "error")
      BY <2>1, HandleErrorHears
    <3>2. \A p \in Query : /\ qs[p].told # 0 => HandleError(qs, h)[p].told # 0
                           /\ HandleError(qs, h)[p].kind = qs[p].kind
      BY <2>1, <3>1, HearsMore
    <3> QED BY <2>4, <3>2 DEF Sent
  <2>5. CASE query' = qs /\ ticks' = Append(tk, [do |-> "refuse", q |-> h]) /\ server' = server
    <3> DEFINE t == [do |-> "refuse", q |-> h]
    <3>1. t \in Tick /\ \A p \in Query : t # Telling(p)
      BY <2>1 DEF Tick, Telling
    <3> HIDE DEF t
    <3>2. \A p \in Query : Tells(Append(tk, t), p) => Tells(tk, p)
      BY <3>1, TellsAppend
    <3> QED BY <2>5, <3>2 DEF t
  <2> QED BY <2>2, <2>3, <2>4, <2>5 DEF Submit
<1>2. CASE ready /\ que = <<>>
  BY <1>2 DEF Pulse
<1>3. CASE ~ready
  BY <1>3 DEF Pulse
<1> QED BY <1>1, <1>2, <1>3

-----------------------------------------------------------------------------
\* One lemma for each action: it keeps the invariant.

\* What is settled stays so if nothing changes.
LEMMA SameSettles ==
    ASSUME Settled(queryQueue, activeQuery, ticks, query, asked, rest),
           UNCHANGED <<queryQueue, activeQuery, ticks, query, asked, rest>>
    PROVE  Settled(queryQueue', activeQuery', ticks', query', asked', rest')
  OBVIOUS

LEMMA AcceptingStays ==
    ASSUME Accepting, queryable' /\ ~ending' => queryable /\ ~ending,
           \A p \in Query : /\ Tells(ticks', p) => Tells(ticks, p)
                            /\ query[p].told # 0 => query'[p].told # 0
    PROVE  Accepting'
<1>1. \A p \in Query : Tells(ticks, p)' <=> Tells(ticks', p)
  BY DEF Tells, Telling
<1> QED BY <1>1 DEF Accepting

LEMMA SameServer ==
    ASSUME Executed, server'.on = server.on,
           server'.at \in {"run", "done"} => server.at \in {"run", "done"},
           NoQuery \notin Query, server.on \in Query \cup {NoQuery},
           \A p \in Query : query'[p].kind = query[p].kind
    PROVE  Executed'
  BY DEF Executed

\* The parts of the invariant, in the unprimed and in the primed state.
LEMMA InvParts ==
    ASSUME QueueInv, OutcomeInv
    PROVE  /\ query \in [Query -> QueryRecord] /\ queryQueue \in Seq(Query)
           /\ ticks \in Seq(Tick) /\ asked \in Nat /\ rest \in {"nothing", "pulse", "ready"}
           /\ activeQuery \in Query \/ activeQuery = NoQuery
           /\ server \in Server /\ server.on \in Query \cup {NoQuery} /\ NoQuery \notin Query
           /\ readyForQuery \in BOOLEAN /\ queryable \in BOOLEAN /\ ending \in BOOLEAN
           /\ Settled(queryQueue, activeQuery, ticks, query, asked, rest)
           /\ Accepting /\ Executed
           /\ \A p \in Query : query[p].silenced => query[p].told # 0
<1>1. TypeOK /\ Settled(queryQueue, activeQuery, ticks, query, asked, rest)
      /\ Accepting /\ Executed
  BY DEF QueueInv, OutcomeInv
<1>2. \A p \in Query : query[p].silenced => query[p].told # 0
  BY <1>1 DEF Settled, Placed
<1>3. server \in Server /\ server.on \in Query \cup {NoQuery}
  BY <1>1 DEF TypeOK, Server
<1> QED BY <1>1, <1>2, <1>3, NullAssumption, NumAssumption DEF TypeOK

LEMMA PrimedInv ==
    ASSUME Settled(queryQueue', activeQuery', ticks', query', asked', rest'),
           Accepting', Executed'
    PROVE  OutcomeInv'
<1>1. Settled(queryQueue, activeQuery, ticks, query, asked, rest)'
         <=> Settled(queryQueue', activeQuery', ticks', query', asked', rest')
  BY DEF Settled, Placed, Untold, Preceded, Final, InOrder, Queued, Tells, TellsOnce, Telling
<1> QED BY <1>1 DEF OutcomeInv

LEMMA InitSettles == Init => OutcomeInv
<1> SUFFICES ASSUME Init PROVE OutcomeInv
  OBVIOUS
<1>1. \A q \in Query : /\ query[q].told = 0 /\ query[q].got = "nothing" /\ ~query[q].timer
                       /\ ~query[q].silenced /\ ~query[q].canceled
  BY DEF Init
<1>2. /\ asked = 0 /\ queryQueue = <<>> /\ activeQuery = NoQuery /\ ticks = <<>>
      /\ rest = "nothing" /\ server.on = NoQuery
  BY DEF Init
<1>3. \A q \in Query : ~(q <= 0) /\ q # NoQuery
  BY NullAssumption DEF Query
<1>4. InOrder(queryQueue) /\ \A q \in Query : /\ ~Queued(queryQueue, q)
                                              /\ ~Tells(ticks, q) /\ TellsOnce(ticks, q)
  BY <1>2 DEF InOrder, Queued, Tells, TellsOnce
<1>5. ASSUME NEW q \in Query
      PROVE  /\ Placed(queryQueue, activeQuery, ticks, query, asked, q)
             /\ Untold(activeQuery, ticks, query, rest, q)
             /\ Preceded(queryQueue, activeQuery, query, q) /\ Final(activeQuery, query, q)
  BY <1>1, <1>2, <1>3, <1>4 DEF Placed, Untold, Preceded, Final
<1>6. Accepting /\ Executed
  BY <1>2, <1>4 DEF Accepting, Executed
<1> QED BY <1>2, <1>4, <1>5, <1>6 DEF OutcomeInv, Settled

\* A handler that pulses, from what it has brought about.
LEMMA PulseKeepsOutcome ==
    ASSUME QueueInv, OutcomeInv,
           NEW que \in Seq(Query), NEW ready \in BOOLEAN, NEW qs \in [Query -> QueryRecord],
           NEW tk \in Seq(Tick), NEW r,
           Settled(que, activeQuery, tk, qs, asked', r),
           ready => rest' # "ready" /\ (activeQuery # NoQuery => qs[activeQuery].told # 0),
           ~ready => rest' = r \/ (r # "ready" /\ rest' # "ready"),
           Pulse(que, ready, qs, tk),
           \A p \in Query : /\ Tells(tk, p) => Tells(ticks, p) \/ qs[p].told # 0
                            /\ query[p].told # 0 => qs[p].told # 0
                            /\ qs[p].kind = query[p].kind,
           queryable' = queryable, ending' = ending
    PROVE  OutcomeInv'
<1>1. Settled(queryQueue', activeQuery', ticks', query', asked', rest')
  BY PulseSettles
<1>2. \A p \in Query : qs[p].silenced => qs[p].told # 0
  BY DEF Settled, Placed
<1>3. /\ \A p \in Query : /\ Tells(ticks', p) => Tells(tk, p)
                          /\ qs[p].told # 0 => query'[p].told # 0
                          /\ query'[p].kind = qs[p].kind
      /\ \/ server' = server
         \/ server'.at = "waiting"
         \/ server'.on \in Query /\ qs[server'.on].kind \in {"plain", "paged"}
  BY <1>2, PulseEffects
<1>4. Accepting'
  <2>1. \A p \in Query : Tells(ticks, p)' <=> Tells(ticks', p)
    BY DEF Tells, Telling
  <2>2. Accepting
    BY DEF OutcomeInv
  <2> QED BY <1>3, <2>1, <2>2 DEF Accepting
<1>5. Executed'
  <2>1. Executed /\ NoQuery \notin Query /\ server.on \in Query \cup {NoQuery}
    BY InvParts
  <2>2. \A p \in Query : query'[p].kind = query[p].kind /\ query'[p].kind = qs[p].kind
    BY <1>3
  <2> QED BY <1>3, <2>1, <2>2 DEF Executed
<1> QED BY <1>1, <1>4, <1>5, PrimedInv

LEMMA AskSettles == ASSUME QueueInv, OutcomeInv, Ask PROVE OutcomeInv'
<1>1. /\ query \in [Query -> QueryRecord] /\ queryQueue \in Seq(Query)
      /\ ticks \in Seq(Tick) /\ asked \in Nat
      /\ activeQuery \in Query \/ activeQuery = NoQuery
      /\ readyForQuery \in BOOLEAN
      /\ Settled(queryQueue, activeQuery, ticks, query, asked, rest)
      /\ Accepting /\ Executed
  BY InvParts
<1>2. /\ asked' = asked + 1 /\ asked + 1 \in Query
      /\ UNCHANGED <<queryable, ending, rest>>
  BY <1>1, NumAssumption DEF Ask, Asks, Query, endVars
<1> DEFINE q == asked + 1
           y == [query[q] EXCEPT !.timer = Timeout]
           qs == [query EXCEPT ![q] = y]
<1>3. Made(qs, query, q) /\ qs \in [Query -> QueryRecord]
  <2>1. /\ y.kind = query[q].kind /\ y.silenced = query[q].silenced
        /\ y.told = query[q].told /\ y.got = query[q].got /\ y.canceled = query[q].canceled
    BY <1>1, <1>2 DEF QueryRecord
  <2>2. y \in QueryRecord
    BY <1>1, <1>2, TimeoutAssumption, ChangedRecord
  <2> HIDE DEF y, q
  <2>3. q \in Query
    BY <1>2 DEF q
  <2>4. qs[q] = y /\ \A p \in Query : p # q => qs[p] = query[p]
    BY <1>1, <2>3
  <2> QED BY <1>1, <2>1, <2>2, <2>4 DEF Made
<1>4. CASE queryable /\ ~ending
  <2>1. Pulse(Append(queryQueue, q), readyForQuery, qs, ticks)
    BY <1>4, Zenon DEF Ask, Asks
  <2> HIDE DEF qs, q
  <2>2. q \in Query /\ q = asked + 1 /\ asked' = q
    BY <1>2 DEF q
  <2>3. Append(queryQueue, q) \in Seq(Query)
    BY <1>1, <2>2, AppendProperties
  <2>4. \A p \in Query : Tells(ticks, p) => query[p].told # 0
    BY <1>1, <1>4 DEF Accepting
  <2>5. Settled(Append(queryQueue, q), activeQuery, ticks, qs, q, rest)
    BY <1>1, <1>3, <2>2, <2>4, AcceptedSettles
  <2>6. \A p \in Query : /\ Tells(ticks, p) => Tells(ticks, p) \/ qs[p].told # 0
                         /\ query[p].told # 0 => qs[p].told # 0
                         /\ qs[p].kind = query[p].kind
    BY <1>3 DEF Made
  <2>7. /\ readyForQuery => rest' # "ready" /\ (activeQuery # NoQuery => qs[activeQuery].told # 0)
        /\ ~readyForQuery => rest' = rest \/ (rest # "ready" /\ rest' # "ready")
    BY <1>2 DEF QueueInv, OneReadiness
  <2>8. Settled(Append(queryQueue, q), activeQuery, ticks, qs, asked', rest)
    BY <2>2, <2>5
  <2>9. queryable' = queryable /\ ending' = ending
    BY <1>2
  <2> QED BY <1>1, <1>3, <2>1, <2>3, <2>6, <2>7, <2>8, <2>9, PulseKeepsOutcome
<1>5. CASE ~(queryable /\ ~ending)
  <2>1. /\ query' = qs /\ ticks' = Append(ticks, Telling(q))
        /\ UNCHANGED <<queryQueue, activeQuery, server>>
    BY <1>5, Zenon DEF Ask, Asks
  <2> HIDE DEF qs, q
  <2>2. q \in Query /\ q = asked + 1 /\ asked' = q
    BY <1>2 DEF q
  <2>3. Settled(queryQueue, activeQuery, Append(ticks, Telling(q)), qs, q, rest)
    BY <1>1, <1>3, <2>2, RejectedSettles
  <2>4. Settled(queryQueue', activeQuery', ticks', query', asked', rest')
    BY <1>2, <2>1, <2>2, <2>3
  <2>5. Accepting'
    BY <1>2, <1>5 DEF Accepting
  <2>6. Executed'
    <3>1. \A p \in Query : query'[p].kind = query[p].kind
      BY <1>3, <2>1 DEF Made
    <3> QED BY <2>1, <3>1, InvParts DEF Executed
  <2> QED BY <2>4, <2>5, <2>6, PrimedInv
<1> QED BY <1>4, <1>5

LEMMA EndSettles == ASSUME QueueInv, OutcomeInv, End PROVE OutcomeInv'
<1>1. ending' = TRUE /\ UNCHANGED <<queryQueue, activeQuery, ticks, query, asked, rest, server>>
  BY DEF End, Ends, queueVars
<1>2. Settled(queryQueue', activeQuery', ticks', query', asked', rest')
  BY <1>1, InvParts, SameSettles
<1>3. Accepting' /\ Executed'
  BY <1>1 DEF Accepting, Executed, OutcomeInv
<1> QED BY <1>2, <1>3, PrimedInv

LEMMA BadRowSettles == ASSUME QueueInv, OutcomeInv, BadRow PROVE OutcomeInv'
<1>1. Message("run") /\ UNCHANGED <<asked, ending>>
  BY DEF BadRow, Message, endVars
<1>2. activeQuery \in Query /\ activeQuery # NoQuery
  BY <1>1, MessageFinds, NullAssumption
<1>3. /\ query' = [query EXCEPT ![activeQuery] = [query[activeQuery] EXCEPT !.canceled = TRUE]]
      /\ UNCHANGED <<queryQueue, activeQuery, ticks, queryable, server, rest>>
  BY <1>2 DEF BadRow
<1>4. Settled(queryQueue, activeQuery, ticks, query', asked, rest)
  BY <1>2, <1>3, InvParts, SpoiledSettles
<1>5. Settled(queryQueue', activeQuery', ticks', query', asked', rest')
  BY <1>1, <1>3, <1>4
<1>6. \A p \in Query : query'[p].told = query[p].told /\ query'[p].kind = query[p].kind
  <2> DEFINE y == [query[activeQuery] EXCEPT !.canceled = TRUE]
  <2>1. query \in [Query -> QueryRecord]
    BY InvParts
  <2>2. y.told = query[activeQuery].told /\ y.kind = query[activeQuery].kind
    BY <1>2, <2>1 DEF QueryRecord
  <2> HIDE DEF y
  <2>3. query' = [query EXCEPT ![activeQuery] = y]
    BY <1>3 DEF y
  <2> QED BY <1>2, <2>1, <2>2, <2>3
<1>7. Accepting'
  BY <1>1, <1>3, <1>6, InvParts, AcceptingStays
<1>8. Executed'
  BY <1>3, <1>6, InvParts, SameServer
<1> QED BY <1>5, <1>7, <1>8, PrimedInv

\* A message that leaves the queries, the queue and the ticks alone.
LEMMA PlainMessage ==
    ASSUME QueueInv, OutcomeInv, server.at = "run", server'.on = server.on,
           UNCHANGED <<queryQueue, activeQuery, ticks, query, asked, rest, queryable, ending>>
    PROVE  OutcomeInv'
<1>1. Settled(queryQueue', activeQuery', ticks', query', asked', rest')
  BY InvParts, SameSettles
<1>2. Accepting'
  BY InvParts, AcceptingStays
<1>3. Executed'
  BY InvParts, SameServer
<1> QED BY <1>1, <1>2, <1>3, PrimedInv

LEMMA PortalSuspendedSettles == ASSUME QueueInv, OutcomeInv, PortalSuspended PROVE OutcomeInv'
<1>1. server.at = "run"
      /\ UNCHANGED <<queryQueue, activeQuery, ticks, query, asked, rest, queryable, ending>>
  BY DEF PortalSuspended, Message, queueVars, endVars
<1>2. server'.on = server.on
  BY InvParts DEF PortalSuspended, Becomes, Server
<1> QED BY <1>1, <1>2, PlainMessage

LEMMA CommandCompleteSettles == ASSUME QueueInv, OutcomeInv, CommandComplete PROVE OutcomeInv'
<1>1. Message("run") /\ server.at = "run" /\ UNCHANGED <<asked, rest, ending>>
  BY DEF CommandComplete, Message, endVars
<1>2. activeQuery # NoQuery
  BY <1>1, MessageFinds, NullAssumption
<1>3. UNCHANGED <<queryQueue, activeQuery, ticks, query, queryable>>
  BY <1>2 DEF CommandComplete, queueVars
<1>4. server'.on = server.on
  BY InvParts DEF CommandComplete, Becomes, Server
<1> QED BY <1>1, <1>3, <1>4, PlainMessage

\* _handleErrorMessage with an active query.
LEMMA ErrorSettles ==
    ASSUME QueueInv, OutcomeInv, activeQuery # NoQuery, ErrorToActive, rest = "nothing",
           UNCHANGED <<asked, rest, ending>>
    PROVE  /\ Settled(queryQueue', activeQuery', ticks', query', asked', rest')
           /\ Accepting' /\ \A p \in Query : query'[p].kind = query[p].kind
<1>1. /\ activeQuery' = NoQuery /\ query' = HandleError(query, activeQuery)
      /\ UNCHANGED <<queryQueue, ticks, queryable>>
  BY DEF ErrorToActive
<1>2. activeQuery \in Query /\ query \in [Query -> QueryRecord]
  BY InvParts
<1>3. Hears(query', query, activeQuery, "error")
  BY <1>1, <1>2, HandleErrorHears
<1>4. Settled(queryQueue, NoQuery, ticks, query', asked, rest)
  BY <1>2, <1>3, InvParts, ActiveHears
<1>5. Settled(queryQueue', activeQuery', ticks', query', asked', rest')
  BY <1>1, <1>4
<1>6. \A p \in Query : /\ query[p].told # 0 => query'[p].told # 0
                       /\ query'[p].kind = query[p].kind
  BY <1>2, <1>3, InvParts, HearsMore
<1>7. Accepting'
  BY <1>1, <1>6, InvParts, AcceptingStays
<1> QED BY <1>5, <1>6, <1>7

LEMMA ErrorMessageSettles == ASSUME QueueInv, OutcomeInv, ErrorMessage PROVE OutcomeInv'
<1>1. Message("run") /\ server.at = "run" /\ rest = "nothing" /\ UNCHANGED <<asked, rest, ending>>
  BY DEF ErrorMessage, Message, endVars
<1>2. activeQuery # NoQuery
  BY <1>1, MessageFinds, NullAssumption
<1>3. /\ Settled(queryQueue', activeQuery', ticks', query', asked', rest')
      /\ Accepting' /\ \A p \in Query : query'[p].kind = query[p].kind
  BY <1>1, <1>2, ErrorSettles DEF ErrorMessage
<1>4. server'.on = server.on
  BY InvParts DEF ErrorMessage, Becomes, Server
<1>5. Executed'
  BY <1>1, <1>3, <1>4, InvParts, SameServer
<1> QED BY <1>3, <1>5, PrimedInv

\* The handler of an error event: a tick for each query, and no query is
\* accepted after that.
LEMMA ErrorEventSettles ==
    ASSUME QueueInv, OutcomeInv, HandleErrorEvent, rest = "nothing", UNCHANGED <<asked, rest>>
    PROVE  /\ Settled(queryQueue', activeQuery', ticks', query', asked', rest')
           /\ Accepting' /\ query' = query
<1>1. /\ queryable' = FALSE /\ ticks' = ticks \o ErrorAll
      /\ activeQuery' = NoQuery /\ queryQueue' = <<>> /\ query' = query
  BY DEF HandleErrorEvent
<1>2. Settled(<<>>, NoQuery, ticks \o ErrorAll, query, asked, rest)
  BY InvParts, ErrorAllSettles DEF QueueInv
<1>3. Settled(queryQueue', activeQuery', ticks', query', asked', rest')
  BY <1>1, <1>2
<1>4. Accepting'
  BY <1>1 DEF Accepting
<1> QED BY <1>1, <1>3, <1>4

LEMMA FatalMessageSettles == ASSUME QueueInv, OutcomeInv, FatalMessage PROVE OutcomeInv'
<1>1. rest = "nothing" /\ UNCHANGED <<asked, rest, ending>> /\ ErrorToActive
  BY DEF FatalMessage, Message, endVars
<1>2. Settled(queryQueue', activeQuery', ticks', query', asked', rest') /\ Accepting'
  <2>1. CASE activeQuery # NoQuery
    BY <1>1, <2>1, ErrorSettles
  <2>2. CASE activeQuery = NoQuery
    BY <1>1, <2>2, ErrorEventSettles DEF ErrorToActive
  <2> QED BY <2>1, <2>2
<1>3. server'.at = "gone"
  BY InvParts DEF FatalMessage, Becomes, Server
<1>4. Executed'
  BY <1>3 DEF Executed
<1> QED BY <1>2, <1>4, PrimedInv

LEMMA ReadyForQuerySettles == ASSUME QueueInv, OutcomeInv, ReadyForQuery PROVE OutcomeInv'
<1>1. /\ Message("done") /\ server.at = "done" /\ rest = "nothing" /\ rest' = "pulse"
      /\ UNCHANGED <<asked, ending, queryQueue, ticks, queryable>>
      /\ activeQuery' = NoQuery
      /\ query' = IF activeQuery = NoQuery THEN query ELSE HandleReady(query, activeQuery)
  BY DEF ReadyForQuery, Ready, Message, endVars
<1>2. server'.at = "idle"
  BY InvParts DEF ReadyForQuery, Ready, Becomes, Server
<1>3. Executed'
  BY <1>2 DEF Executed
<1>4. activeQuery \in {server.on, NoQuery}
  BY <1>1, MessageFinds
<1>5. /\ Settled(queryQueue, NoQuery, ticks, query', asked, "pulse")
      /\ \A p \in Query : query[p].told # 0 => query'[p].told # 0
  <2>1. \A que, tk, qs : Settled(que, NoQuery, tk, qs, asked, rest)
                            => Settled(que, NoQuery, tk, qs, asked, "pulse")
    BY <1>1 DEF Settled, Untold
  <2>2. CASE activeQuery = NoQuery
    BY <1>1, <2>1, <2>2, InvParts
  <2>3. CASE activeQuery # NoQuery
    <3>1. activeQuery \in Query /\ query \in [Query -> QueryRecord]
      BY <2>3, InvParts
    <3>2. PICK what \in {"result", "error"} : Hears(query', query, activeQuery, what)
      BY <1>1, <2>3, <3>1, HandleReadyHears
    <3>3. query[activeQuery].kind \in {"plain", "paged"}
      BY <1>1, <1>4, <2>3, InvParts DEF Executed
    <3>4. Settled(queryQueue, NoQuery, ticks, query', asked, rest)
      BY <1>1, <3>1, <3>2, <3>3, InvParts, ActiveHears
    <3>5. \A p \in Query : query[p].told # 0 => query'[p].told # 0
      BY <3>1, <3>2, InvParts, HearsMore
    <3> QED BY <2>1, <3>4, <3>5
  <2> QED BY <2>2, <2>3
<1>6. Settled(queryQueue', activeQuery', ticks', query', asked', rest')
  BY <1>1, <1>5
<1>7. Accepting'
  BY <1>1, <1>5, InvParts, AcceptingStays
<1> QED BY <1>3, <1>6, <1>7, PrimedInv

LEMMA GoOnSettles == ASSUME QueueInv, OutcomeInv, GoOn PROVE OutcomeInv'
<1>1. rest' = "nothing" /\ asked' = asked /\ queryable' = queryable /\ ending' = ending
  BY DEF GoOn, endVars
<1>2. PICK ready \in BOOLEAN : ready <=> readyForQuery \/ rest = "ready"
  OBVIOUS
<1>3. Pulse(queryQueue, ready, query, ticks)
  <2>1. Pulse(queryQueue, readyForQuery \/ rest = "ready", query, ticks)
    BY DEF GoOn
  <2> QED BY <1>2, <2>1 DEF Pulse
<1>4. Settled(queryQueue, activeQuery, ticks, query, asked', rest)
  BY <1>1, InvParts
<1>5. /\ ready => rest' # "ready" /\ (activeQuery # NoQuery => query[activeQuery].told # 0)
      /\ ~ready => rest' = rest \/ (rest # "ready" /\ rest' # "ready")
  BY <1>1, <1>2, <1>4 DEF QueueInv, OneReadiness, Settled
<1>6. \A p \in Query : /\ Tells(ticks, p) => Tells(ticks, p) \/ query[p].told # 0
                       /\ query[p].told # 0 => query[p].told # 0
                       /\ query[p].kind = query[p].kind
  OBVIOUS
<1>7. queryQueue \in Seq(Query) /\ query \in [Query -> QueryRecord] /\ ticks \in Seq(Tick)
  BY InvParts
<1> QED BY <1>1, <1>3, <1>4, <1>5, <1>6, <1>7, PulseKeepsOutcome

LEMMA RunTickSettles == ASSUME QueueInv, OutcomeInv, RunTick PROVE OutcomeInv'
<1>1. /\ rest = "nothing" /\ ticks # <<>> /\ ticks' = Tail(ticks)
      /\ UNCHANGED <<asked, queryQueue, activeQuery, queryable, ending, server>>
  BY DEF RunTick, RunsTick, Between, endVars
<1>2. /\ query \in [Query -> QueryRecord] /\ ticks \in Seq(Tick)
      /\ Settled(queryQueue, activeQuery, ticks, query, asked, rest)
      /\ \A p \in Query : query[p].silenced => query[p].told # 0
  BY InvParts
<1>3. Head(ticks) \in Tick
  BY <1>1, <1>2, HeadTailProperties
<1>4. \A p \in Query : Tells(ticks', p) => Tells(ticks, p)
  BY <1>1, <1>2, TellsTail
<1>5. \/ /\ Head(ticks).do = "tell" /\ query' = HandleError(query, Head(ticks).q)
         /\ rest' = rest
      \/ /\ Head(ticks).do = "refuse" /\ activeQuery # NoQuery
         /\ query' = HandleError(query, activeQuery) /\ rest' = "ready"
      \/ Head(ticks).do # "tell" /\ query' = query /\ rest' = rest
  BY <1>1 DEF RunTick, RunsTick
<1>6. /\ Settled(queryQueue', activeQuery', ticks', query', asked', rest')
      /\ \A p \in Query : /\ query[p].told # 0 => query'[p].told # 0
                          /\ query'[p].kind = query[p].kind
  <2>1. CASE /\ Head(ticks).do = "tell" /\ query' = HandleError(query, Head(ticks).q)
             /\ rest' = rest
    <3> DEFINE q == Head(ticks).q
    <3>1. q \in Query /\ Head(ticks) = Telling(q)
      BY <1>3, <2>1 DEF Tick, Telling
    <3> HIDE DEF q
    <3>2. query' = HandleError(query, q)
      BY <2>1 DEF q
    <3>3. Hears(query', query, q, "error")
      BY <1>2, <3>1, <3>2, HandleErrorHears
    <3>4. Settled(queryQueue, activeQuery, Tail(ticks), query', asked, rest)
      BY <1>1, <1>2, <3>1, <3>3, TickHears
    <3>5. \A p \in Query : /\ query[p].told # 0 => query'[p].told # 0
                           /\ query'[p].kind = query[p].kind
      BY <1>2, <3>1, <3>3, HearsMore
    <3> QED BY <1>1, <2>1, <3>4, <3>5
  <2>2. CASE /\ Head(ticks).do = "refuse" /\ activeQuery # NoQuery
             /\ query' = HandleError(query, activeQuery) /\ rest' = "ready"
    <3>1. activeQuery \in Query
      BY <2>2, InvParts
    <3>2. Hears(query', query, activeQuery, "error")
      BY <1>2, <2>2, <3>1, HandleErrorHears
    <3>3. Settled(queryQueue, activeQuery, Tail(ticks), query', asked, "ready")
      BY <1>1, <1>2, <2>2, <3>1, <3>2, RefuseHears
    <3>4. \A p \in Query : /\ query[p].told # 0 => query'[p].told # 0
                           /\ query'[p].kind = query[p].kind
      BY <1>2, <3>1, <3>2, HearsMore
    <3> QED BY <1>1, <2>2, <3>3, <3>4
  <2>3. CASE Head(ticks).do # "tell" /\ query' = query /\ rest' = rest
    <3>1. Settled(queryQueue, activeQuery, Tail(ticks), query, asked, rest)
      BY <1>1, <1>2, <2>3, OtherTick
    <3> QED BY <1>1, <2>3, <3>1
  <2> QED BY <1>5, <2>1, <2>2, <2>3
<1>7. Accepting'
  BY <1>1, <1>4, <1>6, InvParts, AcceptingStays
<1>8. Executed'
  BY <1>1, <1>6, InvParts, SameServer
<1> QED BY <1>6, <1>7, <1>8, PrimedInv

LEMMA QueryTimeoutSettles ==
    ASSUME QueueInv, OutcomeInv, NEW q \in Query, QueryTimeoutFires(q)
    PROVE  OutcomeInv'
<1> DEFINE tk == <<Telling(q)>>
           que == Without(q)
           qs == Silenced(q)
<1>1. /\ rest = "nothing" /\ ticks = <<>> /\ query[q].timer
      /\ Pulse(que, readyForQuery, qs, tk)
      /\ UNCHANGED <<asked, queryable, ending, rest>>
  BY DEF QueryTimeoutFires, TimesOut, Between, endVars
<1>2. TypeOK /\ OneReadiness
  BY DEF QueueInv
<1>3. Settled(que, activeQuery, tk, qs, asked, rest)
  BY <1>1, <1>2, InvParts, TimeoutSettles
<1>4. que \in Seq(Query) /\ qs \in [Query -> QueryRecord]
  BY <1>2, WithoutType, SilencedType DEF TypeOK
<1>5. tk \in Seq(Tick) /\ \A p \in Query : Tells(tk, p) => p = q
  <2>1. \A p \in Query : Telling(p) \in Tick /\ Telling(p).q = p
    BY DEF Telling, Tick
  <2>2. Len(tk) = 1 /\ tk[1] = Telling(q)
    OBVIOUS
  <2>3. tk \in Seq(Tick)
    BY <2>1
  <2> HIDE DEF tk
  <2> QED BY <2>1, <2>2, <2>3 DEF Tells
<1>6. \A p \in Query : /\ p = q \/ query[p].told # 0 => qs[p].told # 0
                       /\ qs[p].kind = query[p].kind
  <2> DEFINE heard == Told(query, q, "error")
             y == [heard[q] EXCEPT !.silenced = TRUE]
  <2>1. query \in [Query -> QueryRecord]
    BY InvParts
  <2>2. heard \in [Query -> QueryRecord]
    BY <2>1, ToldType
  <2>3. heard[q].kind = query[q].kind
    BY <2>1, ToldHears
  <2>4. qs = [query EXCEPT ![q] = y]
    BY DEF Silenced
  <2>5. qs[q].silenced => qs[q].told # 0
    BY <1>3 DEF Settled, Placed
  <2> HIDE DEF heard
  <2>6. y.kind = heard[q].kind /\ y.silenced = TRUE
    BY <2>2 DEF QueryRecord
  <2> HIDE DEF y, qs
  <2>7. qs[q] = y /\ \A p \in Query : p # q => qs[p] = query[p]
    BY <2>1, <2>4
  <2> QED BY <2>3, <2>5, <2>6, <2>7
<1> HIDE DEF tk, que, qs
<1>7. \A p \in Query : /\ Tells(tk, p) => Tells(ticks, p) \/ qs[p].told # 0
                       /\ query[p].told # 0 => qs[p].told # 0
                       /\ qs[p].kind = query[p].kind
  BY <1>5, <1>6
<1>8. /\ readyForQuery => rest' # "ready" /\ (activeQuery # NoQuery => qs[activeQuery].told # 0)
      /\ ~readyForQuery => rest' = rest \/ (rest # "ready" /\ rest' # "ready")
  BY <1>1, <1>2 DEF OneReadiness
<1>9. Settled(que, activeQuery, tk, qs, asked', rest) /\ readyForQuery \in BOOLEAN
      /\ queryable' = queryable /\ ending' = ending
  BY <1>1, <1>3, InvParts
<1> QED BY <1>1, <1>4, <1>5, <1>7, <1>8, <1>9, PulseKeepsOutcome

LEMMA StreamErrorSettles ==
    ASSUME QueueInv, OutcomeInv, NEW reset \in BOOLEAN, StreamError(reset)
    PROVE  OutcomeInv'
<1>1. rest = "nothing" /\ UNCHANGED <<asked, rest, server, ending>>
  BY DEF StreamError, Between, endVars
<1>2. CASE HandleErrorEvent
  <2>1. /\ Settled(queryQueue', activeQuery', ticks', query', asked', rest')
        /\ Accepting' /\ query' = query
    BY <1>1, <1>2, ErrorEventSettles
  <2>2. Executed'
    BY <1>1, <2>1, InvParts, SameServer
  <2> QED BY <2>1, <2>2, PrimedInv
<1>3. CASE UNCHANGED <<queueVars, queryable>>
  <2>1. UNCHANGED <<queryQueue, activeQuery, ticks, query, asked, rest, queryable, ending, server>>
    BY <1>1, <1>3 DEF queueVars
  <2>2. Settled(queryQueue', activeQuery', ticks', query', asked', rest')
    BY <2>1, InvParts, SameSettles
  <2>3. Accepting' /\ Executed'
    BY <2>1, InvParts, AcceptingStays, SameServer
  <2> QED BY <2>2, <2>3, PrimedInv
<1> QED BY <1>2, <1>3 DEF StreamError

LEMMA StreamClosedSettles == ASSUME QueueInv, OutcomeInv, StreamClosed PROVE OutcomeInv'
<1> DEFINE t == [do |-> "end"]
<1>1. /\ rest = "nothing" /\ ticks = <<>> /\ ticks' = ErrorAll \o <<t>>
      /\ activeQuery' = NoQuery /\ queryQueue' = <<>> /\ queryable' = (queryable /\ ending)
      /\ UNCHANGED <<query, asked, rest, ending, server>>
  BY DEF StreamClosed, Between
<1>2. t \in Tick /\ t.do # "tell"
  BY DEF Tick
<1> HIDE DEF t
<1>3. ErrorAll \in Seq(Tick)
  BY ErrorAllTells DEF QueueInv
<1>4. ticks \o ErrorAll = ErrorAll /\ ErrorAll \o <<t>> = Append(ErrorAll, t)
  BY <1>1, <1>2, <1>3, ConcatEmptySeq, AppendIsConcat
<1>5. Settled(<<>>, NoQuery, ErrorAll, query, asked, rest)
  <2>1. Settled(<<>>, NoQuery, ticks \o ErrorAll, query, asked, rest)
    BY <1>1, InvParts, ErrorAllSettles DEF QueueInv
  <2> QED BY <1>4, <2>1
<1>6. Settled(<<>>, NoQuery, Append(ErrorAll, t), query, asked, rest)
  BY <1>2, <1>3, <1>5, AddsOtherTick
<1>7. Settled(queryQueue', activeQuery', ticks', query', asked', rest')
  BY <1>1, <1>4, <1>6
<1>8. Accepting'
  BY <1>1 DEF Accepting
<1>9. Executed'
  BY <1>1, InvParts, SameServer
<1> QED BY <1>7, <1>8, <1>9, PrimedInv

\* The end of a chunk, and a step that changes nothing.
LEMMA IdleSettles ==
    ASSUME QueueInv, OutcomeInv,
           UNCHANGED <<queryQueue, activeQuery, ticks, query, asked, rest, queryable, ending, server>>
    PROVE  OutcomeInv'
<1>1. Settled(queryQueue', activeQuery', ticks', query', asked', rest')
  BY InvParts, SameSettles
<1>2. Accepting' /\ Executed'
  BY InvParts, AcceptingStays, SameServer
<1> QED BY <1>1, <1>2, PrimedInv

-----------------------------------------------------------------------------
\* The theorems.

\* The inductive invariant holds in every reachable state: every query is in
\* its place, in the order in which the queries were made.
THEOREM OutcomeInvariant == Spec => []OutcomeInv
<1>1. Init => OutcomeInv
  BY InitSettles
<1>2. QueueInv /\ OutcomeInv /\ [Next]_vars => OutcomeInv'
  <2> SUFFICES ASSUME QueueInv, OutcomeInv, [Next]_vars PROVE OutcomeInv'
    OBVIOUS
  <2>1. CASE Ask
    BY <2>1, AskSettles
  <2>2. CASE End
    BY <2>2, EndSettles
  <2>3. CASE BadRow
    BY <2>3, BadRowSettles
  <2>4. CASE PortalSuspended
    BY <2>4, PortalSuspendedSettles
  <2>5. CASE CommandComplete
    BY <2>5, CommandCompleteSettles
  <2>6. CASE ErrorMessage
    BY <2>6, ErrorMessageSettles
  <2>7. CASE FatalMessage
    BY <2>7, FatalMessageSettles
  <2>8. CASE ReadyForQuery
    BY <2>8, ReadyForQuerySettles
  <2>9. CASE EndChunk
    BY <2>9, IdleSettles DEF EndChunk
  <2>10. CASE GoOn
    BY <2>10, GoOnSettles
  <2>11. CASE RunTick
    BY <2>11, RunTickSettles
  <2>12. CASE \E q \in Query : QueryTimeoutFires(q)
    BY <2>12, QueryTimeoutSettles
  <2>13. CASE \E reset \in BOOLEAN : StreamError(reset)
    BY <2>13, StreamErrorSettles
  <2>14. CASE StreamClosed
    BY <2>14, StreamClosedSettles
  <2>15. CASE UNCHANGED vars
    BY <2>15, IdleSettles DEF vars
  <2> QED BY <2>1, <2>2, <2>3, <2>4, <2>5, <2>6, <2>7, <2>8, <2>9, <2>10, <2>11, <2>12,
             <2>13, <2>14, <2>15 DEF Next
<1> QED BY <1>1, <1>2, QueueInvariant, PTL DEF Spec

\* No query is dropped and none is in two places: until its callback is called
\* it waits on queryQueue, is activeQuery or is told in a tick, and only one of
\* these; a query that was answered, by readTimeoutTimer or otherwise, is off
\* the queue and its timer is not armed.
THEOREM QueriesHaveOnePlace == Spec => []OnePlace
<1>1. QueueInv /\ OutcomeInv => OnePlace
  <2> SUFFICES ASSUME QueueInv, OutcomeInv, NEW q \in Query
               PROVE  /\ q <= asked /\ query[q].told = 0 =>
                            \/ Waits(q) /\ activeQuery # q /\ ~ToBeTold(q)
                            \/ ~Waits(q) /\ activeQuery = q /\ ~ToBeTold(q)
                            \/ ~Waits(q) /\ activeQuery # q /\ ToBeTold(q)
                      /\ Waits(q) => q <= asked /\ query[q].told = 0
                      /\ query[q].timer => q <= asked /\ query[q].told = 0
    BY DEF OnePlace
  <2>1. Waits(q) <=> Queued(queryQueue, q)
    BY DEF Waits, Queued
  <2>2. ToBeTold(q) <=> Tells(ticks, q)
    BY DEF ToBeTold, Tells
  <2>3. Placed(queryQueue, activeQuery, ticks, query, asked, q)
    BY DEF OutcomeInv, Settled
  <2> QED BY <2>1, <2>2, <2>3 DEF Placed
<1> QED BY <1>1, QueueInvariant, OutcomeInvariant, PTL

\* The callback of a query is called once at most, whatever its timeout, the
\* server, the socket and client.end do (client.query, handleReadyForQuery,
\* _errorAllQueries, readTimeoutTimer).
THEOREM QueriesAnsweredOnce == Spec => []AnsweredOnce
<1>1. OutcomeInv => AnsweredOnce
  BY DEF OutcomeInv, Settled, Untold, AnsweredOnce
<1> QED BY <1>1, OutcomeInvariant, PTL

\* A result is reported only for a query whose rows were parsed, and after
\* every query that was made before it was answered.
THEOREM ResultsComeInOrder == Spec => []ResultsInOrder
<1>1. QueueInv /\ OutcomeInv => ResultsInOrder
  <2> SUFFICES ASSUME QueueInv, OutcomeInv, NEW q \in Query, query[q].got = "result"
               PROVE  /\ ~query[q].canceled /\ query[q].kind \in {"plain", "paged"}
                      /\ \A p \in 1..(q - 1) : query[p].told > 0
    BY DEF ResultsInOrder
  <2>1. /\ Final(activeQuery, query, q)
        /\ Preceded(queryQueue, activeQuery, query, q)
    BY DEF OutcomeInv, Settled
  <2>2. ASSUME NEW p \in 1..(q - 1) PROVE query[p].told > 0
    <3>1. p \in Query /\ p < q
      BY NumAssumption DEF Query
    <3>2. query[p].told # 0
      BY <2>1, <3>1 DEF Preceded
    <3>3. query[p].told \in Nat
      BY <3>1 DEF QueueInv, TypeOK, QueryRecord
    <3> QED BY <3>2, <3>3
  <2> QED BY <2>1, <2>2 DEF Final
<1> QED BY <1>1, QueueInvariant, OutcomeInvariant, PTL
=============================================================================
