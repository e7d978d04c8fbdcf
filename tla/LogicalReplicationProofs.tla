---------------------- MODULE LogicalReplicationProofs ----------------------
(***************************************************************************)
(* Proofs about LogicalReplication, for a log of any length, chunks of any *)
(* size and any number of subscriptions and crashes.                       *)
(***************************************************************************)
EXTENDS LogicalReplication, SequenceTheorems, FiniteSetTheorems, WellFoundedInduction, TLAPS

-----------------------------------------------------------------------------
\* Positions of the log.

Reaches(p, S) == p \in Lsns /\ 1..p \subseteq S

\* A set of positions has a last one, which Max yields.
LEMMA MaxOf ==
    ASSUME NEW S \in SUBSET Lsns, S # {}
    PROVE  Max(S) \in S /\ \A p \in S : Max(S) >= p
<1> DEFINE Above(q) == {p \in S : p >= q}
           T == {Above(q) : q \in S}
<1>1. MaxLsn \in Nat /\ S \subseteq Nat
  BY ReplicationAssumption DEF Lsns
<1>2. T \subseteq FiniteSubsetsOf(Lsns) /\ T # {}
  <2>1. IsFiniteSet(Lsns)
    BY <1>1, FS_Interval DEF Lsns
  <2>2. ASSUME NEW q \in S PROVE Above(q) \in FiniteSubsetsOf(Lsns)
    BY <2>1, FS_Subset DEF FiniteSubsetsOf
  <2> QED BY <2>2
<1>3. PICK t \in T : \A u \in T : ~(<<u, t>> \in StrictSubsetOrdering(Lsns))
  <2> HIDE DEF T
  <2> QED BY <1>2, FS_StrictSubsetOrderingWellFounded, WFMin
<1>4. PICK q \in S : t = Above(q)
  OBVIOUS
<1>5. ASSUME NEW p \in S, p > q PROVE FALSE
  <2>1. Above(p) \subseteq Above(q) /\ q \in Above(q) /\ q \notin Above(p)
    <3>1. \A r \in Nat : r >= p => r >= q
      BY <1>1, <1>5
    <3>2. q >= q /\ ~(q >= p)
      BY <1>1, <1>5
    <3> QED BY <1>1, <3>1, <3>2
  <2>2. <<Above(p), Above(q)>> \in StrictSubsetOrdering(Lsns)
    BY <2>1 DEF StrictSubsetOrdering
  <2> QED BY <1>3, <1>4, <2>2
<1>6. \A p \in S : q >= p
  BY <1>1, <1>5
<1> QED BY <1>6 DEF Max


LEMMA MaxOfTwo ==
    ASSUME NEW p \in Lsns, NEW q \in Lsns
    PROVE  /\ Max({p, q}) \in {p, q} /\ Max({p, q}) \in Lsns
           /\ Max({p, q}) >= p /\ Max({p, q}) >= q
<1>1. {p, q} \in SUBSET Lsns /\ {p, q} # {} /\ p \in {p, q} /\ q \in {p, q}
  OBVIOUS
<1>2. Max({p, q}) \in {p, q} /\ \A r \in {p, q} : Max({p, q}) >= r
  BY <1>1, MaxOf
<1> QED BY <1>1, <1>2

\* Position is the last position that is reached.
LEMMA PositionReaches ==
    ASSUME NEW S
    PROVE  Reaches(Position(S), S) /\ \A p : Reaches(p, S) => p <= Position(S)
<1> DEFINE T == {p \in Lsns : 1..p \subseteq S}
<1>1. 0 \in T /\ T \in SUBSET Lsns /\ T # {}
  <2>1. 0 \in Lsns /\ 1..0 = {}
    BY ReplicationAssumption DEF Lsns
  <2> QED BY <2>1
<1>2. Max(T) \in T /\ \A p \in T : Max(T) >= p
  <2> HIDE DEF T
  <2> QED BY <1>1, MaxOf
<1>3. \A p \in T : p <= Max(T)
  BY <1>2, ReplicationAssumption DEF Lsns
<1> QED BY <1>2, <1>3 DEF Position, Reaches

\* What reaches a position reaches those before.
LEMMA ReachesLess ==
    ASSUME NEW S, NEW p, Reaches(p, S), NEW q \in Lsns, q <= p
    PROVE  Reaches(q, S)
<1>1. 1..q \subseteq 1..p
  BY ReplicationAssumption DEF Reaches, Lsns
<1> QED BY <1>1 DEF Reaches

LEMMA ReachesMore ==
    ASSUME NEW S, NEW T, S \subseteq T, NEW p, Reaches(p, S)
    PROVE  Reaches(p, T)
BY DEF Reaches

LEMMA ReachesZero ==
    ASSUME NEW S
    PROVE  Reaches(0, S)
BY ReplicationAssumption DEF Reaches, Lsns

-----------------------------------------------------------------------------
\* The inductive invariant.

Typed ==
    /\ config \in [flow : BOOLEAN, auto : BOOLEAN, timed : BOOLEAN, manual : BOOLEAN]
    /\ phase \in Phases /\ session \in 0..MaxSessions /\ then \in {"none", "stop", "subscribe"}
    /\ lastLsn \in Lsns /\ lastReceive \in Lsns /\ sent \in Lsns /\ confirmed \in Lsns
    /\ given \in Lsns /\ lastFlushed \in Lsns \cup {NoLsn}
    /\ queue \in Seq(Lsns) /\ loops \subseteq Lsns \X (0..MaxSessions)
    /\ processing \in BOOLEAN /\ paused \in BOOLEAN /\ recent \in BOOLEAN
    /\ interrupted \in BOOLEAN
    /\ begun \subseteq Lsns /\ done \subseteq begun /\ crashes \in 0..MaxCrashes

\* While the service is not stopped, what waits follows what was given, up to what
\* was sent; stop leaves nothing that waits.
Follows(q, last, end) == last + Len(q) = end /\ \A i \in 1..Len(q) : q[i] = last + i

Ordered ==
    /\ IF Stopped THEN queue = <<>> ELSE Follows(queue, given, sent)
    /\ ~config.flow => queue = <<>> /\ loops = {} /\ paused = FALSE
    /\ \A loop \in loops : loop[1] \in begun

\* Flow control while no stop interrupts a handler.
Paced ==
    config.flow /\ ~interrupted =>
        /\ processing <=> loops # {}
        /\ \A k, l \in loops : k = l
        /\ HasConnection => (paused <=> loops # {})
        /\ Stopped => loops = {}
        /\ loops = {} => queue = <<>>
        /\ Len(queue) < MaxChunk

\* The positions the service knows of, and the slot's: a program that reports its
\* position has handled what is below them; otherwise, without flow control,
\* what is below them was given to it.
Covered ==
    IF config.manual
    THEN /\ Reaches(lastFlushed, done) /\ Reaches(confirmed, done)
         /\ phase = "starting" => Reaches(lastLsn, done)
    ELSE /\ lastFlushed = NoLsn
         /\ ~config.flow => /\ Reaches(lastLsn, begun) /\ Reaches(lastReceive, begun)
                            /\ Reaches(confirmed, begun)

\* What was given to the program has no gaps, and ends where the stream is.
Gapless ==
    ~config.flow \/ config.manual =>
        /\ \A p \in begun : 1..p \subseteq begun
        /\ ~Stopped => Reaches(given, begun)

ReplicationInv == Typed /\ Ordered /\ Paced /\ Covered /\ Gapless

-----------------------------------------------------------------------------
\* The pieces of the handlers.

\* An acknowledgement moves the slot to a position the service knows of.
LEMMA AcknowledgesKnown ==
    ASSUME Typed, NEW lsn \in Lsns, Acknowledges(lsn)
    PROVE  /\ confirmed' \in Lsns /\ recent' \in BOOLEAN
           /\ \/ confirmed' = confirmed
              \/ lastFlushed # NoLsn /\ confirmed' = lastFlushed
              \/ lastFlushed = NoLsn /\ confirmed' \in {lsn, lastReceive}
<1>1. CASE Stopped \/ ~HasConnection
  BY <1>1 DEF Acknowledges, Typed
<1>2. CASE ~(Stopped \/ ~HasConnection)
  <2> DEFINE received == IF lsn # 0 THEN lsn ELSE lastReceive
  <2>1. received \in {lsn, lastReceive} /\ Flushed(received) \in Lsns
    BY DEF Flushed, Typed
  <2>2. /\ recent' = TRUE
        /\ confirmed' = IF phase = "lost" THEN confirmed ELSE Max({confirmed, Flushed(received)})
    BY <1>2 DEF Acknowledges
  <2>3. confirmed' \in {confirmed, Flushed(received)}
    <3>1. confirmed \in Lsns
      BY DEF Typed
    <3>2. Max({confirmed, Flushed(received)}) \in {confirmed, Flushed(received)}
      BY <2>1, <3>1, MaxOfTwo
    <3> QED BY <2>2, <3>2
  <2>4. Flushed(received) = IF lastFlushed # NoLsn THEN lastFlushed ELSE received
    BY DEF Flushed
  <2> HIDE DEF received
  <2> QED BY <2>1, <2>2, <2>3, <2>4 DEF Typed
<1> QED BY <1>1, <1>2

LEMMA AutoAcknowledgesKnown ==
    ASSUME Typed, NEW lsn \in Lsns, AutoAcknowledges(lsn)
    PROVE  /\ confirmed' \in Lsns /\ recent' \in BOOLEAN
           /\ \/ confirmed' = confirmed
              \/ lastFlushed # NoLsn /\ confirmed' = lastFlushed
              \/ lastFlushed = NoLsn /\ confirmed' \in {lsn, lastReceive}
<1>1. CASE config.auto
  BY <1>1, AcknowledgesKnown DEF AutoAcknowledges
<1>2. CASE ~config.auto
  BY <1>2 DEF AutoAcknowledges, Typed
<1> QED BY <1>1, <1>2

\* What a chunk acknowledges is one of its records.
LEMMA AnswersKnown ==
    ASSUME Typed, NEW n \in 1..MaxChunk, sent + n <= MaxLsn, NEW k \in 0..n, Answers(n, k)
    PROVE  /\ confirmed' \in Lsns /\ recent' \in BOOLEAN
           /\ \E lsn \in sent..(sent + n) :
                 \/ confirmed' = confirmed
                 \/ lastFlushed # NoLsn /\ confirmed' = lastFlushed
                 \/ lastFlushed = NoLsn /\ confirmed' \in {lsn, lastReceive}
<1>1. /\ sent \in Nat /\ n \in Nat /\ k \in Nat
      /\ sent + n \in Lsns /\ sent + k \in Lsns
      /\ sent \in sent..(sent + n) /\ sent + n \in sent..(sent + n)
      /\ sent + k \in sent..(sent + n)
  BY ReplicationAssumption DEF Typed, Lsns
<1>2. CASE Acknowledges(sent + n)
  BY <1>1, <1>2, AcknowledgesKnown
<1>3. CASE Acknowledges(sent + k)
  BY <1>1, <1>3, AcknowledgesKnown
<1>4. CASE UNCHANGED <<confirmed, recent>>
  BY <1>1, <1>4 DEF Typed
<1> QED BY <1>2, <1>3, <1>4 DEF Answers

\* The first of a queue that follows a position is the next one, and the rest
\* follows it.
LEMMA FollowsTail ==
    ASSUME NEW q \in Seq(Lsns), q # <<>>, NEW last \in Lsns, NEW end \in Lsns,
           Follows(q, last, end)
    PROVE  /\ Head(q) = last + 1 /\ Head(q) \in Lsns /\ Tail(q) \in Seq(Lsns)
           /\ Follows(Tail(q), Head(q), end) /\ Len(Tail(q)) = Len(q) - 1
<1>1. /\ Head(q) = q[1] /\ Head(q) \in Lsns /\ Tail(q) \in Seq(Lsns)
      /\ Len(Tail(q)) = Len(q) - 1 /\ Len(q) \in Nat \ {0}
      /\ \A i \in 1..Len(Tail(q)) : Tail(q)[i] = q[i + 1]
  BY HeadTailProperties, EmptySeq, LenProperties
<1>2. Head(q) = last + 1
  BY <1>1 DEF Follows
<1>3. Head(q) + Len(Tail(q)) = end
  BY <1>1, <1>2, ReplicationAssumption DEF Follows, Lsns
<1>4. ASSUME NEW i \in 1..Len(Tail(q)) PROVE Tail(q)[i] = Head(q) + i
  <2>1. i \in Nat /\ i + 1 \in 1..Len(q)
    BY <1>1
  <2>2. Tail(q)[i] = last + (i + 1)
    BY <1>1, <2>1 DEF Follows
  <2>3. last + (i + 1) = (last + 1) + i
    BY <2>1, ReplicationAssumption DEF Lsns
  <2> QED BY <1>2, <2>2, <2>3
<1> QED BY <1>1, <1>2, <1>3, <1>4 DEF Follows

\* A chunk of n records at the end of a queue.
Chunk(n) == [i \in 1..n |-> sent + i]

LEMMA FollowsChunk ==
    ASSUME Typed, NEW last \in Lsns, NEW n \in Nat \ {0}, sent + n <= MaxLsn,
           Follows(queue, last, sent)
    PROVE  /\ queue \o Chunk(n) \in Seq(Lsns) /\ Follows(queue \o Chunk(n), last, sent + n)
           /\ Len(queue \o Chunk(n)) = Len(queue) + n /\ queue \o Chunk(n) # <<>>
<1>1. Chunk(n) \in Seq(Lsns) /\ Len(Chunk(n)) = n /\ \A i \in 1..n : Chunk(n)[i] = sent + i
  <2>1. Chunk(n) \in [1..n -> Lsns]
    BY ReplicationAssumption DEF Chunk, Typed, Lsns
  <2>2. \A i \in 1..n : Chunk(n)[i] = sent + i
    BY DEF Chunk
  <2> HIDE DEF Chunk
  <2> QED BY <2>1, <2>2, SeqDef
<1>2. /\ queue \o Chunk(n) \in Seq(Lsns) /\ Len(queue \o Chunk(n)) = Len(queue) + n
      /\ \A i \in 1..(Len(queue) + n) : (queue \o Chunk(n))[i] =
            IF i <= Len(queue) THEN queue[i] ELSE Chunk(n)[i - Len(queue)]
  <2>1. queue \in Seq(Lsns)
    BY DEF Typed
  <2>2. /\ queue \o Chunk(n) \in Seq(Lsns)
        /\ Len(queue \o Chunk(n)) = Len(queue) + Len(Chunk(n))
        /\ \A i \in 1..(Len(queue) + Len(Chunk(n))) : (queue \o Chunk(n))[i] =
              IF i <= Len(queue) THEN queue[i] ELSE Chunk(n)[i - Len(queue)]
    BY <1>1, <2>1, ConcatProperties
  <2> QED BY <1>1, <2>2
<1>3. Len(queue) \in Nat /\ sent \in Nat /\ last \in Nat /\ last + Len(queue) = sent
  BY LenProperties, ReplicationAssumption DEF Typed, Lsns, Follows
<1>4. ASSUME NEW i \in 1..(Len(queue) + n) PROVE (queue \o Chunk(n))[i] = last + i
  <2>1. CASE i <= Len(queue)
    BY <1>2, <1>3, <2>1 DEF Follows
  <2>2. CASE ~(i <= Len(queue))
    <3>1. i - Len(queue) \in 1..n
      BY <1>3, <2>2
    <3>2. (queue \o Chunk(n))[i] = sent + (i - Len(queue))
      BY <1>1, <1>2, <2>2, <3>1
    <3> QED BY <1>3, <3>2
  <2> QED BY <2>1, <2>2
<1>5. last + (Len(queue) + n) = sent + n
  BY <1>3
<1>6. queue \o Chunk(n) # <<>>
  BY <1>2, <1>3, EmptySeq
<1> QED BY <1>2, <1>4, <1>5, <1>6 DEF Follows

\* A chunk goes on the queue; unless a loop is processing, its first record goes on
\* to a handler.
GivesNext(size) ==
    /\ given' = given + 1 /\ given' \in Lsns /\ begun' = begun \cup {given'}
    /\ Len(queue') = size - 1 /\ size \in Nat \ {0}

LEMMA EnqueuesChunk ==
    ASSUME Typed, Ordered, phase = "streaming", NEW n \in 1..MaxChunk, sent + n <= MaxLsn,
           sent' = sent + n, Enqueues(n)
    PROVE  /\ queue' \in Seq(Lsns) /\ Follows(queue', given', sent') /\ n \in Nat \ {0}
           /\ \/ processing /\ UNCHANGED <<loops, processing, paused, given, begun>>
              \/ /\ ~processing /\ processing' = TRUE /\ paused' = TRUE
                 /\ loops' = loops \cup {<<given', session>>} /\ GivesNext(Len(queue) + n)
<1> DEFINE all == queue \o Chunk(n)
<1>1. n \in Nat \ {0} /\ given \in Lsns /\ sent' \in Lsns /\ Len(queue) \in Nat
  BY ReplicationAssumption, LenProperties DEF Typed, Lsns
<1>2. Follows(queue, given, sent)
  BY DEF Ordered, Stopped
<1>3. all \in Seq(Lsns) /\ Follows(all, given, sent') /\ Len(all) = Len(queue) + n /\ all # <<>>
  BY <1>1, <1>2, FollowsChunk
<1>4. CASE processing
  <2>1. queue' = all /\ UNCHANGED <<loops, processing, paused, given, begun>>
    BY <1>4 DEF Enqueues, Chunk
  <2> HIDE DEF all
  <2> QED BY <1>1, <1>3, <1>4, <2>1
<1>5. CASE ~processing
  <2>1. /\ processing' = TRUE /\ paused' = TRUE /\ queue' = Tail(all)
        /\ loops' = loops \cup {<<Head(all), session>>}
        /\ given' = Head(all) /\ begun' = begun \cup {Head(all)}
    BY <1>5 DEF Enqueues, Chunk
  <2> HIDE DEF all
  <2>2. /\ Head(all) = given + 1 /\ Head(all) \in Lsns /\ Tail(all) \in Seq(Lsns)
        /\ Follows(Tail(all), Head(all), sent') /\ Len(Tail(all)) = Len(all) - 1
    BY <1>1, <1>3, FollowsTail
  <2>3. Len(all) \in Nat \ {0}
    BY <1>1, <1>3
  <2>4. queue' \in Seq(Lsns) /\ Follows(queue', given', sent')
    BY <2>1, <2>2
  <2>5. GivesNext(Len(queue) + n) /\ loops' = loops \cup {<<given', session>>}
    BY <1>3, <2>1, <2>2, <2>3 DEF GivesNext
  <2> QED BY <1>1, <1>5, <2>1, <2>4, <2>5
<1> QED BY <1>4, <1>5

\* A loop takes the next record, or ends.
Takes(loop) ==
    /\ ~Stopped /\ queue # <<>> /\ queue' \in Seq(Lsns) /\ Follows(queue', given', sent)
    /\ loops' = (loops \ {loop}) \cup {<<given', session>>} /\ GivesNext(Len(queue))
    /\ UNCHANGED <<processing, paused>>

Finishes(loop) ==
    /\ queue = <<>> \/ Stopped
    /\ loops' = loops \ {loop} /\ processing' = FALSE
    /\ paused' = (paused /\ (Stopped \/ ~HasConnection))
    /\ UNCHANGED <<queue, given, begun>>

LEMMA LoopTakesOrFinishes ==
    ASSUME Typed, Ordered, NEW loop \in loops, LoopGoesOn(loop)
    PROVE  Takes(loop) \/ Finishes(loop)
<1>1. CASE queue # <<>> /\ ~Stopped
  <2>1. /\ loops' = (loops \ {loop}) \cup {<<Head(queue), session>>}
        /\ queue' = Tail(queue) /\ given' = Head(queue) /\ begun' = begun \cup {Head(queue)}
        /\ UNCHANGED <<processing, paused>>
    BY <1>1 DEF LoopGoesOn
  <2>2. queue \in Seq(Lsns) /\ given \in Lsns /\ sent \in Lsns /\ Follows(queue, given, sent)
    BY <1>1 DEF Ordered, Typed
  <2>3. /\ Head(queue) = given + 1 /\ Head(queue) \in Lsns /\ Tail(queue) \in Seq(Lsns)
        /\ Follows(Tail(queue), Head(queue), sent) /\ Len(Tail(queue)) = Len(queue) - 1
    BY <1>1, <2>2, FollowsTail
  <2>4. Len(queue) \in Nat \ {0}
    BY <1>1, <2>2, EmptySeq
  <2>5. GivesNext(Len(queue)) /\ loops' = (loops \ {loop}) \cup {<<given', session>>}
    BY <2>1, <2>3, <2>4 DEF GivesNext
  <2>6. queue' \in Seq(Lsns) /\ Follows(queue', given', sent)
    BY <2>1, <2>3
  <2> QED BY <1>1, <2>1, <2>5, <2>6 DEF Takes
<1>2. CASE ~(queue # <<>> /\ ~Stopped)
  BY <1>2 DEF LoopGoesOn, Finishes
<1> QED BY <1>1, <1>2

-----------------------------------------------------------------------------
\* Every step keeps the types.

LEMMA PositionTyped ==
    ASSUME NEW S
    PROVE  Position(S) \in Lsns
BY PositionReaches DEF Reaches

LEMMA TypedInit ==
    ASSUME Init
    PROVE  Typed
<1>1. 0 \in Lsns /\ 0 \in 0..MaxSessions /\ 0 \in 0..MaxCrashes /\ <<>> \in Seq(Lsns)
  BY ReplicationAssumption DEF Lsns
<1>2. lastFlushed \in Lsns \cup {NoLsn}
  BY <1>1 DEF Init
<1> QED BY <1>1, <1>2 DEF Init, Typed, Phases

LEMMA StopsTyped ==
    ASSUME Typed, NEW next \in {"stop", "subscribe"}, Stops(next), session' \in 0..MaxSessions
    PROVE  Typed'
<1>1. phase' \in Phases /\ then' \in {"none", "stop", "subscribe"}
  BY DEF Stops, Phases
<1>2. interrupted' \in BOOLEAN
  BY DEF Stops
<1>3. queue' \in Seq(Lsns)
  BY EmptySeq DEF Stops
<1> QED BY <1>1, <1>2, <1>3 DEF Stops, Typed, lsnVars, serverVars

LEMMA XLogDataTyped ==
    ASSUME Typed, Ordered, NEW n \in 1..MaxChunk, NEW k \in 0..n, XLogData(n, k)
    PROVE  Typed'
<1>1. sent + n \in Lsns /\ sent \in Nat
  BY ReplicationAssumption DEF XLogData, Typed, Lsns
<1>4. confirmed' \in Lsns /\ recent' \in BOOLEAN
  BY AnswersKnown DEF XLogData
<1>2. CASE EmitsData(n)
  <2>2. (sent + 1)..(sent + n) \subseteq Lsns
    BY <1>1, ReplicationAssumption DEF Lsns
  <2>3. given' \in Lsns /\ begun' \subseteq Lsns /\ done' \subseteq begun'
    BY <1>1, <1>2, <2>2 DEF EmitsData, Typed
  <2> QED BY <1>1, <1>2, <1>4, <2>3 DEF EmitsData, XLogData, Typed, queueVars
<1>3. CASE Enqueues(n)
  <2>1. /\ queue' \in Seq(Lsns)
        /\ \/ processing /\ UNCHANGED <<loops, processing, paused, given, begun>>
           \/ /\ ~processing /\ processing' = TRUE /\ paused' = TRUE
              /\ loops' = loops \cup {<<given', session>>} /\ GivesNext(Len(queue) + n)
    BY <1>3, EnqueuesChunk DEF XLogData
  <2>2. /\ given' \in Lsns /\ begun' \subseteq Lsns /\ done' \subseteq begun'
        /\ processing' \in BOOLEAN /\ paused' \in BOOLEAN
    BY <1>3, <2>1 DEF Enqueues, Typed, GivesNext
  <2>3. loops' \subseteq Lsns \X (0..MaxSessions)
    BY <2>1 DEF Typed, GivesNext
  <2> QED BY <1>1, <1>3, <1>4, <2>1, <2>2, <2>3 DEF Enqueues, XLogData, Typed
<1> QED BY <1>2, <1>3 DEF XLogData

LEMMA LoopTyped ==
    ASSUME Typed, Ordered, NEW loop \in loops, LoopGoesOn(loop)
    PROVE  /\ queue' \in Seq(Lsns) /\ given' \in Lsns /\ begun' \subseteq Lsns
           /\ begun \subseteq begun' /\ loops' \subseteq Lsns \X (0..MaxSessions)
           /\ processing' \in BOOLEAN /\ paused' \in BOOLEAN
<1>1. CASE Takes(loop)
  BY <1>1 DEF Takes, GivesNext, Typed
<1>2. CASE Finishes(loop)
  <2>1. paused' \in BOOLEAN
    BY <1>2 DEF Finishes
  <2> QED BY <1>2, <2>1 DEF Finishes, Typed
<1> QED BY <1>1, <1>2, LoopTakesOrFinishes

LEMMA TypedStep ==
    ASSUME Typed, Ordered, [Next]_vars
    PROVE  Typed'
<1>1. CASE Subscribe
  <2>1. session' \in 0..MaxSessions
    BY <1>1, ReplicationAssumption DEF Subscribe, Typed
  <2> QED BY <1>1, <2>1, StopsTyped DEF Subscribe
<1>2. CASE Stop
  BY <1>2, StopsTyped DEF Stop, Typed
<1>3. CASE Ended
  BY <1>3 DEF Ended, Typed, Phases, lsnVars, queueVars, serverVars, ghosts
<1>4. CASE Connected
  BY <1>4, PositionTyped DEF Connected, Typed, Phases, serverVars, ghosts
<1>5. CASE ConnectFails
  BY <1>5, StopsTyped DEF ConnectFails, Typed
<1>6. CASE ReplicationStart
  <2>1. sent' \in Lsns /\ given' \in Lsns
    BY <1>6, MaxOfTwo DEF ReplicationStart, Typed
  <2> QED BY <1>6, <2>1 DEF ReplicationStart, Typed, Phases, lsnVars, queueVars
<1>7. CASE StartRefused
  BY <1>7 DEF StartRefused, Typed, Phases, lsnVars, queueVars, serverVars, ghosts
<1>8. CASE SetFlushedLsn
  BY <1>8, PositionTyped DEF SetFlushedLsn, Typed, queueVars, serverVars, ghosts
<1>9. CASE ManualAcknowledge
  <2>1. confirmed' \in Lsns /\ recent' \in BOOLEAN
    BY <1>9, PositionTyped, AcknowledgesKnown DEF ManualAcknowledge
  <2> QED BY <1>9, <2>1 DEF ManualAcknowledge, Typed, lsnVars, queueVars, ghosts
<1>10. CASE \E n \in 1..MaxChunk : \E k \in 0..n : XLogData(n, k)
  BY <1>10, XLogDataTyped
<1>11. ASSUME NEW shouldRespond \in BOOLEAN, Keepalive(shouldRespond)
       PROVE  Typed'
  <2>1. lastLsn' \in Lsns /\ lastReceive' \in Lsns
    BY <1>11 DEF Keepalive, Typed
  <2>2. confirmed' \in Lsns /\ recent' \in BOOLEAN
    BY <1>11, <2>1, AcknowledgesKnown DEF Keepalive, Typed
  <2> QED BY <1>11, <2>1, <2>2 DEF Keepalive, Typed, queueVars, ghosts
<1>12. ASSUME NEW loop \in loops, Handled(loop)
       PROVE  Typed'
  <2>1. loop[1] \in Lsns /\ loop[1] \in begun
    BY <1>12 DEF Typed, Ordered
  <2>2. confirmed' \in Lsns /\ recent' \in BOOLEAN
    BY <1>12, <2>1, AutoAcknowledgesKnown DEF Handled
  <2>3. /\ queue' \in Seq(Lsns) /\ given' \in Lsns /\ begun' \subseteq Lsns
        /\ begun \subseteq begun' /\ loops' \subseteq Lsns \X (0..MaxSessions)
        /\ processing' \in BOOLEAN /\ paused' \in BOOLEAN
    BY <1>12, LoopTyped DEF Handled
  <2>4. done' \subseteq begun'
    BY <1>12, <2>1, <2>3 DEF Handled, Typed
  <2> QED BY <1>12, <2>2, <2>3, <2>4 DEF Handled, Typed, lsnVars
<1>13. ASSUME NEW loop \in loops, HandlerThrows(loop)
       PROVE  Typed'
  <2>1. /\ queue' \in Seq(Lsns) /\ given' \in Lsns /\ begun' \subseteq Lsns
        /\ begun \subseteq begun' /\ loops' \subseteq Lsns \X (0..MaxSessions)
        /\ processing' \in BOOLEAN /\ paused' \in BOOLEAN
    BY <1>13, LoopTyped DEF HandlerThrows
  <2> QED BY <1>13, <2>1 DEF HandlerThrows, Typed, lsnVars, serverVars
<1>14. CASE CheckStandbyStatus
  <2>1. confirmed' \in Lsns /\ recent' \in BOOLEAN
    BY <1>14, AcknowledgesKnown DEF CheckStandbyStatus, Typed
  <2> QED BY <1>14, <2>1 DEF CheckStandbyStatus, Typed, lsnVars, queueVars, ghosts
<1>15. CASE TimePasses
  BY <1>15 DEF TimePasses, Typed, lsnVars, queueVars, serverVars, ghosts
<1>16. CASE ConnectionLost
  BY <1>16 DEF ConnectionLost, Typed, Phases, lsnVars, queueVars, serverVars, ghosts
<1>17. CASE Crash
  <2>1. 0 \in Lsns /\ crashes' \in 0..MaxCrashes /\ queue' \in Seq(Lsns)
    BY <1>17, EmptySeq, ReplicationAssumption DEF Crash, Typed, Lsns
  <2>2. lastFlushed' \in Lsns \cup {NoLsn}
    BY <1>17, PositionTyped DEF Crash
  <2> QED BY <1>17, <2>1, <2>2 DEF Crash, Typed, Phases, serverVars
<1>18. CASE UNCHANGED vars
  BY <1>18 DEF vars, Typed, lsnVars, queueVars, serverVars, ghosts
<1> QED
  BY <1>1, <1>2, <1>3, <1>4, <1>5, <1>6, <1>7, <1>8, <1>9, <1>10, <1>11, <1>12, <1>13, <1>14,
     <1>15, <1>16, <1>17, <1>18 DEF Next

-----------------------------------------------------------------------------
\* Every step keeps the order of what waits.

LEMMA OrderedInit ==
    ASSUME Init
    PROVE  Ordered
BY DEF Init, Ordered, Stopped

\* Steps that touch neither the queue nor the stream.
LEMMA OrderedSame ==
    ASSUME Ordered, UNCHANGED <<config, queue, loops, paused, given, sent, begun>>,
           Stopped' = Stopped
    PROVE  Ordered'
BY DEF Ordered, Follows

\* Steps that leave the service stopped.
LEMMA OrderedStopped ==
    ASSUME Ordered, Stopped', queue' = <<>>, UNCHANGED <<config, begun>>,
           loops' = loops, paused' \in {paused, FALSE}
    PROVE  Ordered'
BY DEF Ordered

LEMMA StopsStops ==
    ASSUME NEW next \in {"stop", "subscribe"}, Stops(next)
    PROVE  Stopped'
BY DEF Stops, Stopped

LEMMA FollowsNothing ==
    ASSUME NEW p \in Lsns
    PROVE  Follows(<<>>, p, p)
<1>1. Len(<<>>) = 0 /\ p + 0 = p /\ 1..0 = {}
  BY ReplicationAssumption DEF Lsns
<1> QED BY <1>1 DEF Follows

LEMMA XLogDataOrdered ==
    ASSUME Typed, Ordered, NEW n \in 1..MaxChunk, NEW k \in 0..n, XLogData(n, k)
    PROVE  Ordered'
<1>1. phase = "streaming" /\ sent' = sent + n /\ ~Stopped /\ ~Stopped'
  BY DEF XLogData, Stopped
<1>2. CASE EmitsData(n)
  <2>1. queue = <<>> /\ queue' = <<>> /\ loops' = {} /\ paused' = FALSE
    BY <1>2 DEF EmitsData, queueVars, Ordered
  <2>2. Follows(queue', given', sent')
    <3>1. given' = sent' /\ sent' \in Lsns
      BY <1>1, <1>2, XLogDataTyped DEF EmitsData, Typed
    <3> QED BY <2>1, <3>1, FollowsNothing
  <2> QED BY <1>1, <2>1, <2>2 DEF Ordered
<1>3. CASE Enqueues(n)
  <2>1. /\ Follows(queue', given', sent')
        /\ \/ processing /\ UNCHANGED <<loops, processing, paused, given, begun>>
           \/ /\ ~processing /\ processing' = TRUE /\ paused' = TRUE
              /\ loops' = loops \cup {<<given', session>>} /\ GivesNext(Len(queue) + n)
    BY <1>1, <1>3, EnqueuesChunk DEF XLogData
  <2>2. \A loop \in loops' : loop[1] \in begun'
    BY <2>1 DEF Ordered, GivesNext
  <2>3. config.flow /\ config' = config
    BY <1>3 DEF Enqueues, XLogData
  <2> QED BY <1>1, <2>1, <2>2, <2>3 DEF Ordered
<1> QED BY <1>2, <1>3 DEF XLogData

LEMMA LoopOrdered ==
    ASSUME Typed, Ordered, NEW loop \in loops, LoopGoesOn(loop),
           UNCHANGED <<config, phase, sent>>
    PROVE  Ordered'
<1>1. config.flow /\ Stopped' = Stopped
  BY DEF Ordered, Stopped
<1>2. CASE Takes(loop)
  <2>1. \A k \in loops' : k[1] \in begun'
    BY <1>2 DEF Takes, GivesNext, Ordered
  <2> QED BY <1>1, <1>2, <2>1 DEF Takes, Ordered
<1>3. CASE Finishes(loop)
  <2>1. \A k \in loops' : k[1] \in begun'
    BY <1>3 DEF Finishes, Ordered
  <2>2. Follows(queue', given', sent') = Follows(queue, given, sent)
    BY <1>3 DEF Finishes, Follows
  <2> QED BY <1>1, <1>3, <2>1, <2>2 DEF Finishes, Ordered
<1> QED BY <1>2, <1>3, LoopTakesOrFinishes

LEMMA OrderedStep ==
    ASSUME Typed, Ordered, [Next]_vars
    PROVE  Ordered'
<1>1. CASE Subscribe
  BY <1>1, StopsStops, OrderedStopped DEF Subscribe, Stops
<1>2. CASE Stop
  BY <1>2, StopsStops, OrderedStopped DEF Stop, Stops
<1>3. CASE Ended
  <2>1. Stopped' /\ Stopped
    BY <1>3 DEF Ended, Stopped
  <2> QED BY <1>3, <2>1, OrderedSame DEF Ended, queueVars, serverVars, ghosts
<1>4. CASE Connected
  <2>1. Stopped' /\ queue' = <<>>
    BY <1>4 DEF Connected, Stopped, Ordered
  <2> QED BY <1>4, <2>1, OrderedStopped DEF Connected, ghosts
<1>5. CASE ConnectFails
  BY <1>5, StopsStops, OrderedStopped DEF ConnectFails, Stops
<1>6. CASE ReplicationStart
  <2>1. queue' = <<>> /\ queue = <<>>
    BY <1>6 DEF ReplicationStart, Ordered, Stopped, queueVars
  <2>2. Follows(queue', given', sent')
    <3>1. given' = sent' /\ sent' \in Lsns
      BY <1>6, MaxOfTwo DEF ReplicationStart, Typed
    <3> QED BY <2>1, <3>1, FollowsNothing
  <2>3. ~Stopped' /\ UNCHANGED <<config, loops, paused, begun>>
    BY <1>6 DEF ReplicationStart, Stopped, queueVars
  <2> QED BY <2>1, <2>2, <2>3 DEF Ordered
<1>7. CASE StartRefused
  <2>1. Stopped' /\ Stopped
    BY <1>7 DEF StartRefused, Stopped
  <2> QED BY <1>7, <2>1, OrderedSame DEF StartRefused, queueVars, serverVars, ghosts
<1>8. CASE SetFlushedLsn
  BY <1>8, OrderedSame DEF SetFlushedLsn, Stopped, queueVars, serverVars, ghosts
<1>9. CASE ManualAcknowledge
  BY <1>9, OrderedSame DEF ManualAcknowledge, Stopped, queueVars, ghosts
<1>10. CASE \E n \in 1..MaxChunk : \E k \in 0..n : XLogData(n, k)
  BY <1>10, XLogDataOrdered
<1>11. ASSUME NEW shouldRespond \in BOOLEAN, Keepalive(shouldRespond)
       PROVE  Ordered'
  BY <1>11, OrderedSame DEF Keepalive, Stopped, queueVars, ghosts
<1>12. ASSUME NEW loop \in loops, Handled(loop)
       PROVE  Ordered'
  BY <1>12, LoopOrdered DEF Handled
<1>13. ASSUME NEW loop \in loops, HandlerThrows(loop)
       PROVE  Ordered'
  BY <1>13, LoopOrdered DEF HandlerThrows, serverVars
<1>14. CASE CheckStandbyStatus
  BY <1>14, OrderedSame DEF CheckStandbyStatus, Stopped, queueVars, ghosts
<1>15. CASE TimePasses
  BY <1>15, OrderedSame DEF TimePasses, Stopped, queueVars, serverVars, ghosts
<1>16. CASE ConnectionLost
  <2>1. Stopped' = Stopped
    BY <1>16 DEF ConnectionLost, Stopped
  <2> QED BY <1>16, <2>1, OrderedSame DEF ConnectionLost, queueVars, serverVars, ghosts
<1>17. CASE Crash
  BY <1>17 DEF Crash, Ordered, Stopped
<1>18. CASE UNCHANGED vars
  BY <1>18, OrderedSame DEF vars, Stopped, queueVars, serverVars, ghosts
<1> QED
  BY <1>1, <1>2, <1>3, <1>4, <1>5, <1>6, <1>7, <1>8, <1>9, <1>10, <1>11, <1>12, <1>13, <1>14,
     <1>15, <1>16, <1>17, <1>18 DEF Next

-----------------------------------------------------------------------------
\* Every step keeps the pace of flow control.

LEMMA PacedInit ==
    ASSUME Init
    PROVE  Paced
BY EmptySeq, ReplicationAssumption DEF Init, Paced, HasConnection

LEMMA PacedSame ==
    ASSUME Paced, UNCHANGED <<config, interrupted, processing, loops, paused, queue>>,
           Stopped' => Stopped, HasConnection' => HasConnection
    PROVE  Paced'
BY DEF Paced

LEMMA StopsPaced ==
    ASSUME Paced, NEW next \in {"stop", "subscribe"}, Stops(next)
    PROVE  Paced'
<1> SUFFICES ASSUME config'.flow, ~interrupted'
             PROVE  Paced'
  BY DEF Paced
<1>1. loops = {} /\ loops' = {} /\ processing' = FALSE /\ queue' = <<>>
  BY DEF Stops, Paced
<1>2. ~HasConnection'
  BY DEF Stops, HasConnection
<1>3. Len(queue') < MaxChunk
  BY <1>1, EmptySeq, ReplicationAssumption
<1> QED BY <1>1, <1>2, <1>3 DEF Paced

LEMMA XLogDataPaced ==
    ASSUME Typed, Ordered, Paced, NEW n \in 1..MaxChunk, NEW k \in 0..n, XLogData(n, k)
    PROVE  Paced'
<1> SUFFICES ASSUME config'.flow, ~interrupted'
             PROVE  Paced'
  BY DEF Paced
<1>1. config.flow /\ ~interrupted /\ phase = "streaming" /\ phase' = phase /\ ~paused
  BY DEF XLogData
<1>2. loops = {} /\ queue = <<>> /\ ~processing
  BY <1>1 DEF Paced, HasConnection
<1>3. Enqueues(n)
  BY <1>1 DEF XLogData, EmitsData
<1>4. /\ processing' = TRUE /\ paused' = TRUE
      /\ loops' = loops \cup {<<given', session>>} /\ GivesNext(Len(queue) + n)
  BY <1>1, <1>2, <1>3, EnqueuesChunk DEF XLogData
<1>5. Len(queue') < MaxChunk
  BY <1>2, <1>4, EmptySeq, ReplicationAssumption DEF GivesNext
<1>6. ~Stopped'
  BY <1>1 DEF Stopped
<1> QED BY <1>2, <1>4, <1>5, <1>6 DEF Paced

LEMMA LoopPaced ==
    ASSUME Typed, Ordered, Paced, NEW loop \in loops, LoopGoesOn(loop),
           UNCHANGED <<config, phase, interrupted>>
    PROVE  Paced'
<1> SUFFICES ASSUME config'.flow, ~interrupted'
             PROVE  Paced'
  BY DEF Paced
<1>1. /\ loops = {loop} /\ ~Stopped /\ ~Stopped' /\ processing
      /\ HasConnection /\ (HasConnection => paused)
  <2>1. loops = {loop} /\ ~Stopped /\ processing /\ (HasConnection => paused)
    BY DEF Paced
  <2> QED BY <2>1 DEF Stopped, HasConnection
<1>2. CASE Takes(loop)
  <2>1. loops' = {<<given', session>>} /\ processing' /\ paused'
    BY <1>1, <1>2 DEF Takes
  <2>2. Len(queue') < MaxChunk
    BY <1>2, ReplicationAssumption DEF Takes, GivesNext, Paced
  <2> QED BY <1>1, <2>1, <2>2 DEF Paced
<1>3. CASE Finishes(loop)
  <2>1. loops' = {} /\ ~processing' /\ ~paused' /\ queue' = <<>>
    BY <1>1, <1>3 DEF Finishes
  <2>2. Len(queue') < MaxChunk
    BY <2>1, EmptySeq, ReplicationAssumption
  <2> QED BY <2>1, <2>2 DEF Paced
<1> QED BY <1>2, <1>3, LoopTakesOrFinishes

LEMMA PacedStep ==
    ASSUME Typed, Ordered, Paced, [Next]_vars
    PROVE  Paced'
<1>1. CASE Subscribe
  BY <1>1, StopsPaced DEF Subscribe
<1>2. CASE Stop
  BY <1>2, StopsPaced DEF Stop
<1>3. CASE Ended
  <2>1. Stopped /\ ~HasConnection'
    BY <1>3 DEF Ended, Stopped, HasConnection
  <2> QED BY <1>3, <2>1, PacedSame DEF Ended, queueVars, ghosts
<1>4. CASE Connected
  <2>1. Stopped /\ ~paused' /\ UNCHANGED <<config, interrupted, processing, loops, queue>>
    BY <1>4 DEF Connected, Stopped, ghosts
  <2> QED BY <2>1 DEF Paced
<1>5. CASE ConnectFails
  BY <1>5, StopsPaced DEF ConnectFails
<1>6. CASE ReplicationStart
  <2>1. Stopped /\ HasConnection
    BY <1>6 DEF ReplicationStart, Stopped, HasConnection
  <2> QED BY <1>6, <2>1, PacedSame DEF ReplicationStart, queueVars
<1>7. CASE StartRefused
  <2>1. Stopped /\ HasConnection
    BY <1>7 DEF StartRefused, Stopped, HasConnection
  <2> QED BY <1>7, <2>1, PacedSame DEF StartRefused, queueVars, ghosts
<1>8. CASE SetFlushedLsn
  BY <1>8, PacedSame DEF SetFlushedLsn, Stopped, HasConnection, queueVars, ghosts
<1>9. CASE ManualAcknowledge
  BY <1>9, PacedSame DEF ManualAcknowledge, Stopped, HasConnection, queueVars, ghosts
<1>10. CASE \E n \in 1..MaxChunk : \E k \in 0..n : XLogData(n, k)
  BY <1>10, XLogDataPaced
<1>11. ASSUME NEW shouldRespond \in BOOLEAN, Keepalive(shouldRespond)
       PROVE  Paced'
  BY <1>11, PacedSame DEF Keepalive, Stopped, HasConnection, queueVars, ghosts
<1>12. ASSUME NEW loop \in loops, Handled(loop)
       PROVE  Paced'
  BY <1>12, LoopPaced DEF Handled
<1>13. ASSUME NEW loop \in loops, HandlerThrows(loop)
       PROVE  Paced'
  BY <1>13, LoopPaced DEF HandlerThrows
<1>14. CASE CheckStandbyStatus
  BY <1>14, PacedSame DEF CheckStandbyStatus, Stopped, HasConnection, queueVars, ghosts
<1>15. CASE TimePasses
  BY <1>15, PacedSame DEF TimePasses, Stopped, HasConnection, queueVars, ghosts
<1>16. CASE ConnectionLost
  <2>1. ~Stopped' /\ HasConnection
    BY <1>16 DEF ConnectionLost, Stopped, HasConnection
  <2> QED BY <1>16, <2>1, PacedSame DEF ConnectionLost, queueVars, ghosts
<1>17. CASE Crash
  <2>1. Len(queue') < MaxChunk
    BY <1>17, EmptySeq, ReplicationAssumption DEF Crash
  <2> QED BY <1>17, <2>1 DEF Crash, Paced, HasConnection
<1>18. CASE UNCHANGED vars
  BY <1>18, PacedSame DEF vars, Stopped, HasConnection, queueVars, ghosts
<1> QED
  BY <1>1, <1>2, <1>3, <1>4, <1>5, <1>6, <1>7, <1>8, <1>9, <1>10, <1>11, <1>12, <1>13, <1>14,
     <1>15, <1>16, <1>17, <1>18 DEF Next

-----------------------------------------------------------------------------
\* Every step keeps what is covered, and leaves no gap.

LEMMA CoveredInit ==
    ASSUME Init
    PROVE  Covered /\ Gapless
<1>1. \A S : Reaches(0, S)
  BY ReachesZero
<1> QED BY <1>1 DEF Init, Covered, Gapless, Stopped

\* What the positions of an acknowledgement cover.
LEMMA CoversKnown ==
    ASSUME Typed, Covered, NEW lsn, NEW S, begun \subseteq S,
           ~config.manual /\ ~config.flow => Reaches(lsn, S),
           \/ confirmed' = confirmed
           \/ lastFlushed # NoLsn /\ confirmed' = lastFlushed
           \/ lastFlushed = NoLsn /\ confirmed' \in {lsn, lastReceive}
    PROVE  /\ config.manual => Reaches(confirmed', done)
           /\ ~config.manual /\ ~config.flow => Reaches(confirmed', S)
<1>1. CASE config.manual
  <2>1. lastFlushed # NoLsn
    BY <1>1, ReplicationAssumption DEF Covered, Reaches, Lsns, NoLsn
  <2>2. confirmed' \in {confirmed, lastFlushed}
    BY <2>1
  <2> QED BY <1>1, <2>2 DEF Covered
<1>2. CASE ~config.manual /\ ~config.flow
  <2>1. confirmed' \in {confirmed, lsn, lastReceive}
    BY <1>2 DEF Covered
  <2>2. Reaches(confirmed, S) /\ Reaches(lsn, S) /\ Reaches(lastReceive, S)
    BY <1>2, ReachesMore DEF Covered
  <2> QED BY <1>2, <2>1, <2>2
<1>3. CASE ~config.manual /\ config.flow
  BY <1>3
<1> QED BY <1>1, <1>2, <1>3

\* Steps that change no position.
LEMMA CoveredSame ==
    ASSUME Covered, begun \subseteq begun', done \subseteq done',
           UNCHANGED <<config, lsnVars, confirmed>>, phase' = "starting" => phase = "starting"
    PROVE  Covered'
<1>1. CASE config.manual
  BY <1>1, ReachesMore DEF Covered, lsnVars
<1>2. CASE ~config.manual
  BY <1>2, ReachesMore DEF Covered, lsnVars
<1> QED BY <1>1, <1>2

LEMMA GaplessSame ==
    ASSUME Gapless, UNCHANGED <<config, given, begun>>, ~Stopped' => ~Stopped
    PROVE  Gapless'
BY DEF Gapless

LEMMA StopsCovered ==
    ASSUME Covered, Gapless, NEW next \in {"stop", "subscribe"}, Stops(next)
    PROVE  Covered' /\ Gapless'
<1>1. phase' # "starting" /\ Stopped'
  BY StopsStops DEF Stops
<1>2. Covered'
  BY <1>1, CoveredSame DEF Stops, serverVars
<1> QED BY <1>1, <1>2, GaplessSame DEF Stops

\* A step that only acknowledges.
LEMMA AcknowledgesCovered ==
    ASSUME Typed, Covered, NEW lsn \in Lsns, Acknowledges(lsn),
           ~config.manual /\ ~config.flow => Reaches(lsn, begun),
           UNCHANGED <<config, phase, lsnVars, begun, done>>
    PROVE  Covered'
<1>1. \/ confirmed' = confirmed
      \/ lastFlushed # NoLsn /\ confirmed' = lastFlushed
      \/ lastFlushed = NoLsn /\ confirmed' \in {lsn, lastReceive}
  BY AcknowledgesKnown
<1>2. /\ config.manual => Reaches(confirmed', done)
      /\ ~config.manual /\ ~config.flow => Reaches(confirmed', begun)
  BY <1>1, CoversKnown
<1>3. CASE config.manual
  BY <1>2, <1>3 DEF Covered, lsnVars
<1>4. CASE ~config.manual
  BY <1>2, <1>4 DEF Covered, lsnVars
<1> QED BY <1>3, <1>4

\* Without flow control, what was given is what was sent.
LEMMA GivenIsSent ==
    ASSUME Typed, Ordered, ~config.flow, ~Stopped
    PROVE  given = sent
<1>1. queue = <<>> /\ Follows(queue, given, sent)
  BY DEF Ordered
<1>2. Len(queue) = 0 /\ given + 0 = given
  BY <1>1, EmptySeq, ReplicationAssumption DEF Typed, Lsns
<1> QED BY <1>1, <1>2 DEF Follows

LEMMA EmitsDataCovered ==
    ASSUME Typed, Ordered, Covered, Gapless, NEW n \in 1..MaxChunk, NEW k \in 0..n, XLogData(n, k), EmitsData(n)
    PROVE  Covered' /\ Gapless'
<1>1. /\ ~config.flow /\ ~Stopped /\ sent \in Nat /\ sent + n \in Lsns /\ n \in Nat
      /\ begun' = begun \cup (sent + 1)..(sent + n) /\ done' = done \cup (sent + 1)..(sent + n)
      /\ given' = sent + n /\ lastLsn' = sent + n /\ lastReceive' = sent + n
      /\ UNCHANGED <<config, phase, lastFlushed>>
  BY ReplicationAssumption DEF EmitsData, XLogData, Stopped, Typed, Lsns
<1>2. Reaches(sent, begun)
  BY <1>1, GivenIsSent DEF Gapless
<1>3. Reaches(sent + n, begun')
  <2>1. 1..(sent + n) \subseteq 1..sent \cup (sent + 1)..(sent + n)
    BY <1>1
  <2> QED BY <1>1, <1>2, <2>1 DEF Reaches
<1>4. PICK lsn \in sent..(sent + n) :
         \/ confirmed' = confirmed
         \/ lastFlushed # NoLsn /\ confirmed' = lastFlushed
         \/ lastFlushed = NoLsn /\ confirmed' \in {lsn, lastReceive}
  BY AnswersKnown DEF XLogData
<1>8. Reaches(lsn, begun')
  <2>1. lsn \in Lsns /\ lsn <= sent + n
    BY <1>1, <1>4, ReplicationAssumption DEF Lsns
  <2> QED BY <1>3, <2>1, ReachesLess
<1>5. /\ config.manual => Reaches(confirmed', done)
      /\ ~config.manual /\ ~config.flow => Reaches(confirmed', begun')
  BY <1>1, <1>4, <1>8, CoversKnown
<1>6. Covered'
  <2>1. CASE config.manual
    <3>1. Reaches(confirmed', done') /\ Reaches(lastFlushed', done')
      BY <1>1, <1>5, <2>1, ReachesMore DEF Covered
    <3>2. phase' # "starting"
      BY DEF XLogData
    <3> QED BY <1>1, <2>1, <3>1, <3>2 DEF Covered
  <2>2. CASE ~config.manual
    BY <1>1, <1>3, <1>5, <2>2 DEF Covered
  <2> QED BY <2>1, <2>2
<1>7. ASSUME NEW p \in begun' PROVE 1..p \subseteq begun'
  <2>1. CASE p \in begun
    BY <1>1, <2>1 DEF Gapless
  <2>2. CASE p \in (sent + 1)..(sent + n)
    <3>1. 1..p \subseteq 1..(sent + n)
      BY <1>1, <2>2
    <3> QED BY <1>3, <3>1 DEF Reaches
  <2> QED BY <1>1, <2>1, <2>2
<1> QED BY <1>1, <1>3, <1>6, <1>7 DEF Gapless

\* A handler is given the next record.
LEMMA GivesNextGapless ==
    ASSUME Typed, Gapless, ~Stopped, NEW size, GivesNext(size), config' = config
    PROVE  Gapless'
<1> SUFFICES ASSUME ~config.flow \/ config.manual
             PROVE  /\ \A p \in begun' : 1..p \subseteq begun'
                    /\ Reaches(given', begun')
  BY DEF Gapless
<1>1. Reaches(given, begun) /\ \A p \in begun : 1..p \subseteq begun
  BY DEF Gapless
<1>2. given' = given + 1 /\ given' \in Lsns /\ begun' = begun \cup {given'} /\ given \in Nat
  BY ReplicationAssumption DEF GivesNext, Typed, Lsns
<1>3. 1..given' \subseteq 1..given \cup {given'}
  BY <1>2
<1>4. Reaches(given', begun')
  BY <1>1, <1>2, <1>3 DEF Reaches
<1>5. ASSUME NEW p \in begun' PROVE 1..p \subseteq begun'
  BY <1>1, <1>2, <1>4 DEF Reaches
<1> QED BY <1>4, <1>5

LEMMA XLogDataCovered ==
    ASSUME Typed, Ordered, Covered, Gapless, NEW n \in 1..MaxChunk, NEW k \in 0..n, XLogData(n, k)
    PROVE  Covered' /\ Gapless'
<1>1. CASE EmitsData(n)
  BY <1>1, EmitsDataCovered
<1>2. CASE Enqueues(n)
  <2>1. /\ config.flow /\ phase = "streaming" /\ phase' = phase /\ ~Stopped /\ ~Stopped'
        /\ UNCHANGED <<config, lastFlushed, done>>
    BY <1>2 DEF Enqueues, XLogData, Stopped
  <2>5. PICK lsn \in sent..(sent + n) :
           \/ confirmed' = confirmed
           \/ lastFlushed # NoLsn /\ confirmed' = lastFlushed
           \/ lastFlushed = NoLsn /\ confirmed' \in {lsn, lastReceive}
    BY AnswersKnown DEF XLogData
  <2>6. config.manual => Reaches(confirmed', done)
    BY <2>1, <2>5, CoversKnown
  <2>2. Covered'
    BY <2>1, <2>6 DEF Covered
  <2>3. UNCHANGED <<given, begun>> \/ GivesNext(Len(queue) + n)
    BY <1>2, EnqueuesChunk DEF XLogData
  <2>4. Gapless'
    BY <2>1, <2>3, GaplessSame, GivesNextGapless
  <2> QED BY <2>2, <2>4
<1> QED BY <1>1, <1>2 DEF XLogData

LEMMA LoopGapless ==
    ASSUME Typed, Ordered, Gapless, NEW loop \in loops, LoopGoesOn(loop),
           UNCHANGED <<config, phase>>
    PROVE  Gapless'
<1>1. CASE Takes(loop)
  BY <1>1, GivesNextGapless DEF Takes
<1>2. CASE Finishes(loop)
  BY <1>2, GaplessSame DEF Finishes, Stopped
<1> QED BY <1>1, <1>2, LoopTakesOrFinishes

LEMMA HandledCovered ==
    ASSUME Typed, Ordered, Covered, Gapless, NEW loop \in loops, Handled(loop)
    PROVE  Covered' /\ Gapless'
<1>1. config.flow /\ loop[1] \in Lsns /\ UNCHANGED <<config, phase, lsnVars>>
  BY DEF Ordered, Handled, Typed
<1>2. Gapless'
  BY <1>1, LoopGapless DEF Handled
<1>3. \/ confirmed' = confirmed
      \/ lastFlushed # NoLsn /\ confirmed' = lastFlushed
      \/ lastFlushed = NoLsn /\ confirmed' \in {loop[1], lastReceive}
  BY <1>1, AutoAcknowledgesKnown DEF Handled
<1>4. config.manual => Reaches(confirmed', done)
  BY <1>1, <1>3, CoversKnown
<1>5. done \subseteq done'
  BY DEF Handled
<1>6. CASE config.manual
  <2>1. Reaches(confirmed', done') /\ Reaches(lastFlushed', done')
    BY <1>1, <1>4, <1>5, <1>6, ReachesMore DEF Covered, lsnVars
  <2>2. phase' = "starting" => Reaches(lastLsn', done')
    BY <1>1, <1>5, <1>6, ReachesMore DEF Covered, lsnVars
  <2> QED BY <1>1, <1>2, <1>6, <2>1, <2>2 DEF Covered
<1>7. CASE ~config.manual
  BY <1>1, <1>2, <1>7 DEF Covered, lsnVars
<1> QED BY <1>6, <1>7

LEMMA CoveredStep ==
    ASSUME Typed, Ordered, Covered, Gapless, [Next]_vars
    PROVE  Covered' /\ Gapless'
<1>1. CASE Subscribe
  BY <1>1, StopsCovered DEF Subscribe
<1>2. CASE Stop
  BY <1>2, StopsCovered DEF Stop
<1>3. CASE Ended
  <2>1. Stopped' /\ phase' # "starting"
    BY <1>3 DEF Ended, Stopped
  <2> QED BY <1>3, <2>1, CoveredSame, GaplessSame DEF Ended, serverVars, ghosts
<1>4. CASE Connected
  <2>1. Stopped' /\ Gapless'
    BY <1>4, GaplessSame DEF Connected, Stopped, ghosts
  <2>2. CASE config.manual
    <3>1. Reaches(lastLsn', done)
      BY <1>4, <2>2, PositionReaches DEF Connected
    <3> QED BY <1>4, <2>1, <2>2, <3>1 DEF Connected, Covered, ghosts, serverVars
  <2>3. CASE ~config.manual
    <3>1. lastLsn' = lastLsn
      BY <1>4, <2>3 DEF Connected
    <3> QED BY <1>4, <2>1, <2>3, <3>1 DEF Connected, Covered, ghosts, serverVars
  <2> QED BY <2>2, <2>3
<1>5. CASE ConnectFails
  BY <1>5, StopsCovered DEF ConnectFails
<1>6. CASE ReplicationStart
  <2>1. /\ phase = "starting" /\ phase' = "streaming" /\ sent' = Max({lastLsn, confirmed})
        /\ given' = sent' /\ UNCHANGED <<config, lsnVars, confirmed, begun, done>>
    BY <1>6 DEF ReplicationStart
  <2>2. Covered'
    BY <2>1, CoveredSame
  <2>3. given' \in {lastLsn, confirmed}
    BY <2>1, MaxOfTwo DEF Typed
  <2>4. ~config.flow \/ config.manual => Reaches(given', begun)
    <3>1. CASE config.manual
      <4>1. Reaches(lastLsn, done) /\ Reaches(confirmed, done) /\ done \subseteq begun
        BY <2>1, <3>1 DEF Covered, Typed
      <4> QED BY <2>3, <4>1, ReachesMore
    <3>2. CASE ~config.manual
      BY <2>3, <3>2 DEF Covered
    <3> QED BY <3>1, <3>2
  <2> QED BY <2>1, <2>2, <2>4 DEF Gapless
<1>7. CASE StartRefused
  <2>1. Stopped' /\ phase' # "starting"
    BY <1>7 DEF StartRefused, Stopped
  <2> QED BY <1>7, <2>1, CoveredSame, GaplessSame DEF StartRefused, serverVars, ghosts
<1>8. CASE SetFlushedLsn
  <2>1. /\ config.manual /\ lastFlushed' = Position(done)
        /\ UNCHANGED <<config, phase, lastLsn, confirmed, begun, done, given>>
    BY <1>8 DEF SetFlushedLsn, serverVars, ghosts
  <2>2. Reaches(lastFlushed', done)
    BY <2>1, PositionReaches
  <2>3. Covered'
    BY <2>1, <2>2 DEF Covered
  <2> QED BY <2>1, <2>3, GaplessSame DEF Stopped
<1>9. CASE ManualAcknowledge
  <2>1. Reaches(Position(done), begun)
    BY PositionReaches, ReachesMore DEF Typed
  <2>2. Covered'
    BY <1>9, <2>1, PositionTyped, AcknowledgesCovered DEF ManualAcknowledge, ghosts
  <2> QED BY <1>9, <2>2, GaplessSame DEF ManualAcknowledge, Stopped, ghosts
<1>10. CASE \E n \in 1..MaxChunk : \E k \in 0..n : XLogData(n, k)
  BY <1>10, XLogDataCovered
<1>11. ASSUME NEW shouldRespond \in BOOLEAN, Keepalive(shouldRespond)
       PROVE  Covered' /\ Gapless'
  <2>1. /\ phase = "streaming" /\ phase' = phase /\ ~Stopped /\ ~Stopped'
        /\ UNCHANGED <<config, lastFlushed, begun, done, given>>
    BY <1>11 DEF Keepalive, Stopped, ghosts
  <2>2. lastLsn' \in {lastLsn, sent} /\ lastReceive' \in {lastReceive, sent}
    BY <1>11 DEF Keepalive
  <2>3. ~config.manual /\ ~config.flow => Reaches(lastLsn', begun) /\ Reaches(lastReceive', begun)
    <3> SUFFICES ASSUME ~config.manual, ~config.flow
                 PROVE  Reaches(lastLsn', begun) /\ Reaches(lastReceive', begun)
      OBVIOUS
    <3>1. Reaches(sent, begun)
      BY <2>1, GivenIsSent DEF Gapless
    <3> QED BY <2>2, <3>1 DEF Covered
  <2>4. \/ confirmed' = confirmed
        \/ lastFlushed # NoLsn /\ confirmed' = lastFlushed
        \/ lastFlushed = NoLsn /\ confirmed' \in {lastLsn', lastReceive}
    <3>1. lastLsn' \in Lsns
      BY <2>2 DEF Typed
    <3>2. CASE shouldRespond
      BY <1>11, <3>1, <3>2, AcknowledgesKnown DEF Keepalive
    <3>3. CASE ~shouldRespond
      BY <1>11, <3>3 DEF Keepalive
    <3> QED BY <3>2, <3>3
  <2>5. /\ config.manual => Reaches(confirmed', done)
        /\ ~config.manual /\ ~config.flow => Reaches(confirmed', begun)
    BY <2>3, <2>4, CoversKnown
  <2>6. Covered'
    <3>1. CASE config.manual
      BY <2>1, <2>5, <3>1 DEF Covered
    <3>2. CASE ~config.manual
      BY <2>1, <2>3, <2>5, <3>2 DEF Covered
    <3> QED BY <3>1, <3>2
  <2> QED BY <2>1, <2>6, GaplessSame
<1>12. ASSUME NEW loop \in loops, Handled(loop)
       PROVE  Covered' /\ Gapless'
  BY <1>12, HandledCovered
<1>13. ASSUME NEW loop \in loops, HandlerThrows(loop)
       PROVE  Covered' /\ Gapless'
  <2>1. Gapless'
    BY <1>13, LoopGapless DEF HandlerThrows
  <2>2. begun \subseteq begun'
    BY <1>13, LoopTyped DEF HandlerThrows
  <2> QED BY <1>13, <2>1, <2>2, CoveredSame DEF HandlerThrows, serverVars
<1>14. CASE CheckStandbyStatus
  <2>1. ~config.manual /\ ~config.flow => Reaches(lastLsn, begun)
    BY DEF Covered
  <2>2. Covered'
    BY <1>14, <2>1, AcknowledgesCovered DEF CheckStandbyStatus, Typed, ghosts
  <2> QED BY <1>14, <2>2, GaplessSame DEF CheckStandbyStatus, Stopped, ghosts
<1>15. CASE TimePasses
  BY <1>15, CoveredSame, GaplessSame DEF TimePasses, Stopped, serverVars, ghosts
<1>16. CASE ConnectionLost
  <2>1. ~Stopped /\ phase' # "starting"
    BY <1>16 DEF ConnectionLost, Stopped
  <2> QED BY <1>16, <2>1, CoveredSame, GaplessSame DEF ConnectionLost, serverVars, ghosts
<1>17. CASE Crash
  <2>1. /\ phase' = "idle" /\ lastLsn' = 0 /\ lastReceive' = 0 /\ Stopped'
        /\ lastFlushed' = (IF config.manual THEN Position(done) ELSE NoLsn)
        /\ UNCHANGED <<config, confirmed, begun, done, given>>
    BY <1>17 DEF Crash, serverVars, Stopped
  <2>2. Reaches(0, begun) /\ Reaches(Position(done), done)
    BY ReachesZero, PositionReaches
  <2>3. Covered'
    <3>1. CASE config.manual
      BY <2>1, <2>2, <3>1 DEF Covered
    <3>2. CASE ~config.manual
      BY <2>1, <2>2, <3>2 DEF Covered
    <3> QED BY <3>1, <3>2
  <2> QED BY <2>1, <2>3, GaplessSame
<1>18. CASE UNCHANGED vars
  BY <1>18, CoveredSame, GaplessSame DEF vars, Stopped, serverVars, ghosts
<1> QED
  BY <1>1, <1>2, <1>3, <1>4, <1>5, <1>6, <1>7, <1>8, <1>9, <1>10, <1>11, <1>12, <1>13, <1>14,
     <1>15, <1>16, <1>17, <1>18 DEF Next

-----------------------------------------------------------------------------
\* The theorems.

\* ReplicationInv holds in every state: of what waits, the pace of flow control,
\* the positions that are known, and what was given to the program.
THEOREM ReplicationInvariant == Spec => []ReplicationInv
<1>1. Init => ReplicationInv
  BY TypedInit, OrderedInit, PacedInit, CoveredInit DEF ReplicationInv
<1>2. ReplicationInv /\ [Next]_vars => ReplicationInv'
  BY TypedStep, OrderedStep, PacedStep, CoveredStep DEF ReplicationInv
<1> QED BY <1>1, <1>2, PTL DEF Spec

\* Every variable of the subscriber and of the server's slot has its type.
THEOREM TypeCorrect == Spec => []TypeOK
<1>1. ReplicationInv => TypeOK
  <2> SUFFICES ASSUME Typed PROVE TypeOK
    BY DEF ReplicationInv
  <2>1. {processing, paused, recent, interrupted} \subseteq BOOLEAN
    BY DEF Typed
  <2>2. {lastLsn, lastReceive, sent, confirmed, given} \subseteq Lsns
    BY DEF Typed
  <2> QED BY <2>1, <2>2 DEF Typed, TypeOK
<1> QED BY <1>1, ReplicationInvariant, PTL

\* _processQueue and the flow control of the socket: what waits is what was
\* received since the last record given to a handler, in the order of the log;
\* while no stop interrupts a handler, one handler runs at a time, the stream is
\* paused as long as it does, and less than one chunk waits.
THEOREM QueueIsExact == Spec => []QueueExact
<1>1. ASSUME Typed, Ordered PROVE InOrder
  <2>1. DOMAIN queue = 1..Len(queue)
    BY LenProperties DEF Typed
  <2> QED BY <1>1, <2>1 DEF Ordered, InOrder, Stopped, Follows
<1>2. ASSUME Paced PROVE Backpressure
  <2> SUFFICES ASSUME config.flow, ~interrupted
               PROVE  /\ OneAtATime /\ (processing <=> loops # {})
                      /\ phase = "streaming" => (paused <=> loops # {})
                      /\ Len(queue) < MaxChunk
    BY DEF Backpressure
  <2>1. OneAtATime
    <3>1. CASE loops = {}
      <4>1. Cardinality(loops) = 0
        BY <3>1, FS_EmptySet
      <4> QED BY <4>1 DEF OneAtATime
    <3>2. CASE loops # {}
      <4>1. PICK loop \in loops : TRUE
        BY <3>2
      <4>2. loops = {loop}
        BY <1>2, <4>1 DEF Paced
      <4>3. Cardinality(loops) = 1
        BY <4>2, FS_Singleton
      <4> QED BY <4>3 DEF OneAtATime
    <3> QED BY <3>1, <3>2
  <2> QED BY <1>2, <2>1 DEF Paced, HasConnection
<1>3. ReplicationInv => QueueExact
  BY <1>1, <1>2 DEF ReplicationInv, QueueExact
<1> QED BY <1>3, ReplicationInvariant, PTL

\* acknowledge and setFlushedLsn: the slot never moves past what a program that
\* reports its position has handled, over restarts of the process, too.
THEOREM AcknowledgedIsHandled == Spec => []FlushedCovers
<1>1. ReplicationInv => FlushedCovers
  BY PositionReaches DEF ReplicationInv, Covered, FlushedCovers
<1> QED BY <1>1, ReplicationInvariant, PTL

\* subscribe, stop and the stream: no record is skipped over stops, lost
\* connections and crashes, if the program reports its position or there is no
\* flow control.
THEOREM NoRecordIsSkipped == Spec => []NothingSkipped
<1>1. ReplicationInv => NothingSkipped
  <2> SUFFICES ASSUME Typed, Gapless, ~config.flow \/ config.manual, begun # {}
               PROVE  1..Max(begun) \subseteq begun
    BY DEF ReplicationInv, NothingSkipped
  <2>1. Max(begun) \in begun
    BY MaxOf DEF Typed
  <2> QED BY <2>1 DEF Gapless
<1> QED BY <1>1, ReplicationInvariant, PTL

=============================================================================
