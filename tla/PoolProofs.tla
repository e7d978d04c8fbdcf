----------------------------- MODULE PoolProofs -----------------------------
(***************************************************************************)
(* Theorems about Pool, for every number of requests and clients and every *)
(* value of the options.                                                   *)
(*                                                                         *)
(* A handler works on three values, cs, is and cl, and hands them to       *)
(* _release and _pulseQueue.  The lemmas say that these keep PoolOK, the   *)
(* inductive part that concerns the clients; the invariance proofs then    *)
(* have one step per action.                                               *)
(***************************************************************************)
EXTENDS Pool, FiniteSetTheorems, SequenceTheorems, TLAPS

Open == {"connecting", "verifying", "out", "in"}

\* What holds of one client object, whatever the handlers did to it.
RecordOK(x) ==
    /\ x.stage = "in" => x.live /\ ~x.expired /\ x.uses < MaxUses /\ x.listeners = 1
    /\ x.stage \in {"none", "connecting", "verifying", "out"} => x.listeners = 0
    /\ x.stage \in {"none", "connecting", "failed", "refailed"} => ~x.lifeTimer
    /\ x.lifeTimer /\ x.stage = "gone" => ~x.live
    /\ x.idleTimer => x.stage = "in"
    /\ x.connTimer # "off" => x.stage = "connecting"
    /\ x.stage \in {"connecting", "failed", "refailed"} => x.req \in Request

\* The three values agree on every client but those of D, which a handler is
\* about to move.
AgreeBut(D, cs, is, cl) ==
    /\ cl \in [Client -> ClientRecord]
    /\ cs \subseteq Client /\ is \subseteq cs
    /\ IsFiniteSet(cs) /\ Cardinality(cs) <= MaxSize
    /\ \A c \in Client \ D : /\ RecordOK(cl[c])
                             /\ c \in cs <=> cl[c].stage \in Open
                             /\ c \in is <=> cl[c].stage = "in"

PoolOK(cs, is, cl) == AgreeBut({}, cs, is, cl)

\* The types of the other variables.
RestOK ==
    /\ pendingQueue \in Seq(Request)
    /\ asked \subseteq Request /\ reqTimer \subseteq Request /\ timedOut \subseteq Request
    /\ calls \in [Request -> Nat]
    /\ ticks \in Nat /\ ending \in BOOLEAN /\ ended \in BOOLEAN /\ endCalls \in Nat

\* Where the shutdown stands, for a pool that owns cs.
EndOK(cs) ==
    /\ ended => ending /\ cs = {}
    /\ endCalls = IF ended THEN 1 ELSE 0

\* The inductive invariant.
PoolInv ==
    /\ PoolOK(clients, idle, client)
    /\ RestOK
    /\ EndOK(clients)
    /\ ending => idle = {}

-----------------------------------------------------------------------------
\* What the helpers do to one record.

LEMMA GoneRecord ==
    ASSUME NEW y \in ClientRecord
    PROVE  LET x == [y EXCEPT !.stage = "gone", !.req = NoRequest, !.host = NoHost,
                              !.live = FALSE, !.idleTimer = FALSE]
           IN  x \in ClientRecord /\ x.stage = "gone" /\ ~x.live /\ ~x.idleTimer
               /\ x.connTimer = y.connTimer /\ x.req = NoRequest
  BY DEF ClientRecord, Stage

LEMMA LentRecord ==
    ASSUME NEW y \in ClientRecord, NEW r \in Request, RecordOK(y), y.stage = "in"
    PROVE  LET x == [y EXCEPT !.stage = "out", !.req = r, !.idleTimer = FALSE,
                              !.listeners = Unlistened(y.listeners)]
           IN  x \in ClientRecord /\ x.stage = "out" /\ RecordOK(x)
<1>1. Unlistened(y.listeners) = 0
  BY DEF RecordOK, Unlistened
<1>2. y.connTimer = "off"
  BY DEF RecordOK
<1>3. [y EXCEPT !.stage = "out", !.req = r, !.idleTimer = FALSE,
                !.listeners = 0] \in ClientRecord
  BY DEF ClientRecord, Stage
<1> QED BY <1>1, <1>2, <1>3 DEF RecordOK, ClientRecord

LEMMA LaunchedRecord ==
    ASSUME NEW y \in ClientRecord, NEW r \in Request, NEW t \in Host \cup {NoHost},
           RecordOK(y), y.stage = "none"
    PROVE  LET x == [y EXCEPT !.stage = "connecting", !.req = r, !.host = t,
                              !.connTimer = IF ConnTimeout THEN "armed" ELSE "off"]
           IN  x \in ClientRecord /\ x.stage = "connecting" /\ RecordOK(x)
<1> DEFINE x == [y EXCEPT !.stage = "connecting", !.req = r, !.host = t,
                          !.connTimer = IF ConnTimeout THEN "armed" ELSE "off"]
<1>1. x \in ClientRecord
  BY DEF ClientRecord, Stage
<1>2. x.stage = "connecting" /\ x.listeners = y.listeners
      /\ x.idleTimer = y.idleTimer /\ x.lifeTimer = y.lifeTimer /\ x.req = r
  BY DEF ClientRecord
<1> HIDE DEF x
<1>3. RecordOK(x)
  BY <1>2 DEF RecordOK
<1> QED BY <1>1, <1>2, <1>3 DEF x

-----------------------------------------------------------------------------
\* What the helpers do to the three values.

\* Setting one client to a record that is all right restores the agreement;
\* the client enters or leaves the lists as its new stage says.
LEMMA UpdateOK ==
    ASSUME NEW cs, NEW is, NEW cl, NEW c \in Client, NEW x \in ClientRecord,
           NEW D \in SUBSET {c}, AgreeBut(D, cs, is, cl), RecordOK(x),
           NEW cs2, NEW is2,
           cs2 = IF x.stage \in Open THEN cs \cup {c} ELSE cs \ {c},
           is2 = IF x.stage = "in" THEN is \cup {c} ELSE is \ {c},
           c \in cs \/ x.stage \notin Open \/ ~IsFull(cs)
    PROVE  PoolOK(cs2, is2, [cl EXCEPT ![c] = x])
<1> DEFINE new == [cl EXCEPT ![c] = x]
<1>1. new \in [Client -> ClientRecord] /\ new[c] = x /\ \A d \in Client \ {c} : new[d] = cl[d]
  BY DEF AgreeBut
<1>2. cs2 \subseteq Client /\ is2 \subseteq cs2
  BY DEF AgreeBut, Open
<1>3. IsFiniteSet(cs2) /\ Cardinality(cs2) <= MaxSize
  <2>1. Cardinality(cs) \in Nat /\ IsFiniteSet(cs) /\ Cardinality(cs) <= MaxSize
    BY FS_CardinalityType DEF AgreeBut
  <2>2. CASE x.stage \in Open
    <3>1. cs2 = cs \cup {c}
      BY <2>2
    <3>2. /\ IsFiniteSet(cs \cup {c})
          /\ Cardinality(cs \cup {c}) = IF c \in cs THEN Cardinality(cs) ELSE Cardinality(cs) + 1
      BY <2>1, FS_AddElement
    <3>3. c \in cs \/ ~(Cardinality(cs) >= MaxSize)
      BY <2>2 DEF IsFull
    <3> QED BY <2>1, <3>1, <3>2, <3>3, SizeAssumption
  <2>3. CASE x.stage \notin Open
    <3>1. cs2 = cs \ {c}
      BY <2>3
    <3>2. /\ IsFiniteSet(cs \ {c})
          /\ Cardinality(cs \ {c}) = IF c \in cs THEN Cardinality(cs) - 1 ELSE Cardinality(cs)
      BY <2>1, FS_RemoveElement
    <3> QED BY <2>1, <3>1, <3>2, SizeAssumption
  <2> QED BY <2>2, <2>3
<1>4. ASSUME NEW d \in Client
      PROVE  RecordOK(new[d]) /\ (d \in cs2 <=> new[d].stage \in Open)
                              /\ (d \in is2 <=> new[d].stage = "in")
  BY <1>1 DEF AgreeBut, Open
<1> QED BY <1>1, <1>2, <1>3, <1>4 DEF PoolOK, AgreeBut

\* _remove takes the clients of S off both lists and restores the agreement.
LEMMA RemovedOK ==
    ASSUME NEW cs, NEW is, NEW cl, NEW S \in SUBSET Client, NEW D \in SUBSET S,
           AgreeBut(D, cs, is, cl), \A c \in S : cl[c].connTimer = "off"
    PROVE  PoolOK(cs \ S, is \ S, Removed(cl, S))
<1>1. Removed(cl, S) \in [Client -> ClientRecord]
  BY GoneRecord DEF Removed, AgreeBut
<1>2. \A c \in Client \ S : Removed(cl, S)[c] = cl[c]
  BY DEF Removed
<1>3. \A c \in S : /\ Removed(cl, S)[c].stage = "gone" /\ ~Removed(cl, S)[c].live
                   /\ Removed(cl, S)[c].connTimer = "off" /\ ~Removed(cl, S)[c].idleTimer
  BY GoneRecord DEF Removed, AgreeBut
<1>4. IsFiniteSet(cs \ S) /\ Cardinality(cs \ S) <= MaxSize
  <2>1. IsFiniteSet(cs \ S) /\ Cardinality(cs \ S) <= Cardinality(cs)
    BY FS_Subset DEF AgreeBut
  <2>2. Cardinality(cs) \in Nat /\ Cardinality(cs \ S) \in Nat
    BY <2>1, FS_CardinalityType DEF AgreeBut
  <2> QED BY <2>1, <2>2, SizeAssumption DEF AgreeBut
<1>5. \A c \in S : RecordOK(Removed(cl, S)[c])
  BY <1>3 DEF RecordOK
<1> QED BY <1>1, <1>2, <1>3, <1>4, <1>5 DEF PoolOK, AgreeBut, Open

\* Lending an idle client takes it off the idle list and keeps it in the pool.
LEMMA LentOK ==
    ASSUME NEW cs, NEW is, NEW cl, NEW c \in is, NEW r \in Request, PoolOK(cs, is, cl)
    PROVE  PoolOK(cs, is \ {c}, Lent(cl, c, r))
<1> DEFINE x == [cl[c] EXCEPT !.stage = "out", !.req = r, !.idleTimer = FALSE,
                              !.listeners = Unlistened(cl[c].listeners)]
<1>1. c \in Client /\ c \in cs /\ cl[c] \in ClientRecord /\ RecordOK(cl[c]) /\ cl[c].stage = "in"
  BY DEF PoolOK, AgreeBut
<1>2. x \in ClientRecord /\ x.stage = "out" /\ RecordOK(x)
  BY <1>1, LentRecord
<1>4. cs = cs \cup {c}
  BY <1>1
<1> HIDE DEF x
<1>5. PoolOK(cs, is \ {c}, [cl EXCEPT ![c] = x])
  BY <1>1, <1>2, <1>4, UpdateOK DEF PoolOK, Open
<1> QED BY <1>5 DEF Lent, x

\* Constructing a client, done only below MaxSize, adds it to the pool.
LEMMA LaunchedOK ==
    ASSUME NEW cs, NEW is, NEW cl, NEW c \in Client, NEW r \in Request,
           NEW t \in Host \cup {NoHost}, PoolOK(cs, is, cl),
           cl[c].stage = "none", ~IsFull(cs)
    PROVE  PoolOK(cs \cup {c}, is, Launched(cl, c, r, t)) /\ c \notin cs
<1> DEFINE x == [cl[c] EXCEPT !.stage = "connecting", !.req = r, !.host = t,
                              !.connTimer = IF ConnTimeout THEN "armed" ELSE "off"]
<1>1. cl[c] \in ClientRecord /\ RecordOK(cl[c]) /\ c \notin cs /\ c \notin is
  BY DEF PoolOK, AgreeBut, Open
<1>2. x \in ClientRecord /\ x.stage = "connecting" /\ RecordOK(x)
  BY <1>1, LaunchedRecord
<1>4. is = is \ {c}
  BY <1>1
<1> HIDE DEF x
<1>5. PoolOK(cs \cup {c}, is, [cl EXCEPT ![c] = x])
  BY <1>2, <1>4, UpdateOK DEF PoolOK, Open
<1> QED BY <1>1, <1>5 DEF Launched, x

-----------------------------------------------------------------------------
\* What _pulseQueue and _release do.

\* Answering requests keeps the types of the callbacks' bookkeeping.
LEMMA AnswerOK ==
    ASSUME RestOK, NEW R \in SUBSET Request, Answer(R)
    PROVE  calls' \in [Request -> Nat] /\ reqTimer' \subseteq Request
  BY DEF Answer, RestOK

\* What a handler that ended with a pulse leaves behind.
PulseResult ==
    /\ PoolOK(clients', idle', client')
    /\ pendingQueue' \in Seq(Request) /\ calls' \in [Request -> Nat]
    /\ reqTimer' \subseteq Request
    /\ ended' \in BOOLEAN /\ endCalls' \in Nat
    /\ ended' => ending /\ clients' = {}
    /\ endCalls' = IF ended' THEN 1 ELSE 0
    /\ ending => idle' = {}

LEMMA DrainOK ==
    ASSUME NEW cs, NEW is, NEW cl, NEW ans \in SUBSET Request,
           PoolOK(cs, is, cl), RestOK, endCalls = 0,
           DrainIdle(cs, is, cl, ans)
    PROVE  /\ PoolOK(clients', idle', client') /\ idle' = {}
           /\ pendingQueue' \in Seq(Request) /\ calls' \in [Request -> Nat]
           /\ reqTimer' \subseteq Request
           /\ ended' \in BOOLEAN /\ endCalls' \in Nat
           /\ ended' => clients' = {}
           /\ endCalls' = IF ended' THEN 1 ELSE 0
<1>1. PoolOK(cs \ is, is \ is, Removed(cl, is))
  <2>1. is \subseteq Client /\ \A c \in is : cl[c].connTimer = "off"
    BY DEF PoolOK, AgreeBut, RecordOK
  <2> QED BY <2>1, RemovedOK DEF PoolOK
<1>2. clients' = cs \ is /\ idle' = {} /\ is \ is = {} /\ client' = Removed(cl, is)
  BY DEF DrainIdle
<1>3. ended' \in BOOLEAN /\ (ended' => clients' = {}) /\ endCalls' = IF ended' THEN 1 ELSE 0
  <2>1. ended' = (cs \subseteq is) /\ endCalls' = IF cs \subseteq is THEN endCalls + 1 ELSE endCalls
    BY DEF DrainIdle
  <2>2. CASE cs \subseteq is
    <3>1. ended' = TRUE
      BY <2>1, <2>2
    <3> QED BY <1>2, <2>1, <2>2, <3>1
  <2>3. CASE ~(cs \subseteq is)
    <3>1. ended' = FALSE
      BY <2>1, <2>3
    <3> QED BY <2>1, <2>3, <3>1
  <2> QED BY <2>2, <2>3
<1>4. calls' \in [Request -> Nat] /\ reqTimer' \subseteq Request
  BY AnswerOK DEF DrainIdle
<1>5. pendingQueue' \in Seq(Request)
  BY DEF DrainIdle, RestOK
<1>6. endCalls' \in Nat
  BY <1>3
<1> QED BY <1>1, <1>2, <1>3, <1>4, <1>5, <1>6

LEMMA ServeOK ==
    ASSUME NEW cs, NEW is, NEW cl, NEW ans \in SUBSET Request,
           PoolOK(cs, is, cl), RestOK, pendingQueue # <<>>,
           is # {} \/ ~IsFull(cs), ServeNext(cs, is, cl, ans)
    PROVE  /\ PoolOK(clients', idle', client')
           /\ pendingQueue' \in Seq(Request) /\ calls' \in [Request -> Nat]
           /\ reqTimer' \subseteq Request
<1> DEFINE r == Head(pendingQueue)
<1>1. r \in Request /\ Tail(pendingQueue) \in Seq(Request)
  BY HeadTailProperties DEF RestOK
<1>2. pendingQueue' = Tail(pendingQueue)
  BY DEF ServeNext
<1>3. PICK t \in Target :
        LET fit == IdleFor(t, is, cl)
            lendable == IF fit # {} THEN fit ELSE IF IsFull(cs) THEN is ELSE {}
        IN \/ \E c \in lendable :
                 /\ clients' = cs /\ idle' = is \ {c}
                 /\ client' = Lent(cl, c, r)
                 /\ Answer(ans \cup {r})
           \/ /\ lendable = {}
              /\ \E c \in Client :
                    /\ cl[c].stage = "none"
                    /\ clients' = cs \cup {c} /\ idle' = is
                    /\ client' = Launched(cl, c, r, t)
                    /\ Answer(ans)
  BY DEF ServeNext
<1> DEFINE fit == IdleFor(t, is, cl)
           lendable == IF fit # {} THEN fit ELSE IF IsFull(cs) THEN is ELSE {}
<1>4. t \in Host \cup {NoHost} /\ lendable \subseteq is /\ (lendable = {} => ~IsFull(cs))
  BY DEF Target, IdleFor
<1> HIDE DEF r, fit, lendable
<1>5. CASE \E c \in lendable : /\ clients' = cs /\ idle' = is \ {c}
                               /\ client' = Lent(cl, c, r)
                               /\ Answer(ans \cup {r})
  BY <1>1, <1>2, <1>4, <1>5, LentOK, AnswerOK
<1>6. CASE ~IsFull(cs) /\ \E c \in Client :
                    /\ cl[c].stage = "none"
                    /\ clients' = cs \cup {c} /\ idle' = is
                    /\ client' = Launched(cl, c, r, t)
                    /\ Answer(ans)
  BY <1>1, <1>2, <1>4, <1>6, LaunchedOK, AnswerOK
<1> QED BY <1>3, <1>4, <1>5, <1>6 DEF r, fit, lendable

\* _pulseQueue, called with three values that agree.
LEMMA PulseOK ==
    ASSUME NEW cs, NEW is, NEW cl, NEW ans \in SUBSET Request,
           PoolOK(cs, is, cl), RestOK, EndOK(cs), PulseQueue(cs, is, cl, ans)
    PROVE  PulseResult
<1>1. CASE ~ended /\ ending /\ DrainIdle(cs, is, cl, ans)
  <2>1. endCalls = 0
    BY <1>1 DEF EndOK
  <2>2. /\ PoolOK(clients', idle', client') /\ idle' = {}
        /\ pendingQueue' \in Seq(Request) /\ calls' \in [Request -> Nat]
        /\ reqTimer' \subseteq Request
        /\ ended' \in BOOLEAN /\ endCalls' \in Nat
        /\ ended' => clients' = {}
        /\ endCalls' = IF ended' THEN 1 ELSE 0
    BY <1>1, <2>1, DrainOK
  <2> QED BY <1>1, <2>2 DEF PulseResult
<1>2. CASE /\ ~ending /\ pendingQueue # <<>> /\ (is # {} \/ ~IsFull(cs))
           /\ ServeNext(cs, is, cl, ans)
  <2>1. ended' = ended /\ endCalls' = endCalls
    BY <1>2 DEF ServeNext
  <2>2. /\ PoolOK(clients', idle', client')
        /\ pendingQueue' \in Seq(Request) /\ calls' \in [Request -> Nat]
        /\ reqTimer' \subseteq Request
    BY <1>2, ServeOK
  <2>3. ended = FALSE /\ endCalls = 0
    BY <1>2 DEF EndOK, RestOK
  <2>4. ended' = FALSE /\ endCalls' = 0
    BY <2>1, <2>3
  <2> QED BY <1>2, <2>2, <2>4 DEF PulseResult
<1>3. CASE /\ ended \/ ~ending
           /\ clients' = cs /\ idle' = is /\ client' = cl
           /\ Answer(ans) /\ UNCHANGED <<pendingQueue, ended, endCalls>>
  <2>1. ended => cs = {} /\ is = {} /\ ending
    BY DEF EndOK, PoolOK, AgreeBut
  <2>2. calls' \in [Request -> Nat] /\ reqTimer' \subseteq Request
    BY <1>3, AnswerOK
  <2>3. ended' \in BOOLEAN /\ endCalls' \in Nat /\ endCalls' = IF ended' THEN 1 ELSE 0
    BY <1>3 DEF RestOK, EndOK
  <2>4. ended' => ending /\ clients' = {}
    BY <1>3, <2>1
  <2>5. ending => idle' = {}
    BY <1>3, <2>1
  <2>6. PoolOK(clients', idle', client') /\ pendingQueue' \in Seq(Request)
    BY <1>3 DEF RestOK
  <2> QED BY <2>2, <2>3, <2>4, <2>5, <2>6 DEF PulseResult
<1> QED BY <1>1, <1>2, <1>3 DEF PulseQueue

LEMMA ReturnedRecord ==
    ASSUME NEW y \in ClientRecord, y.listeners = 0
    PROVE  LET x == [y EXCEPT !.req = NoRequest, !.uses = y.uses + 1,
                              !.listeners = y.listeners + 1]
           IN  /\ x \in ClientRecord /\ x.listeners = 1 /\ x.req = NoRequest
               /\ x.connTimer = y.connTimer /\ x.stage = y.stage
<1>1. y.uses + 1 \in Nat /\ y.listeners + 1 = 1
  BY DEF ClientRecord
<1>2. [y EXCEPT !.req = NoRequest, !.uses = y.uses + 1, !.listeners = 1] \in ClientRecord
  BY <1>1 DEF ClientRecord
<1> QED BY <1>1, <1>2 DEF ClientRecord

LEMMA ShelvedRecord ==
    ASSUME NEW y \in ClientRecord, NEW timer \in BOOLEAN,
           y.listeners = 1, y.connTimer = "off", y.live, ~y.expired, y.uses < MaxUses
    PROVE  LET x == [y EXCEPT !.stage = "in", !.idleTimer = timer]
           IN  x \in ClientRecord /\ x.stage = "in" /\ RecordOK(x)
  BY DEF ClientRecord, Stage, RecordOK

\* _release of a client of the pool whose idle listener is detached, whatever
\* its stage and flags are: it drops the client or puts it on the idle list,
\* and runs _pulseQueue on three values that agree.
LEMMA ReleasePulses ==
    ASSUME NEW cs, NEW is, NEW cl, NEW c \in cs, NEW err \in BOOLEAN,
           NEW ans \in SUBSET Request,
           AgreeBut({c}, cs, is, cl),
           cl[c].listeners = 0, cl[c].connTimer = "off",
           DoRelease(cs, is, cl, c, err, ans)
    PROVE  \E cs2, is2, cl2 :
              /\ PoolOK(cs2, is2, cl2) /\ PulseQueue(cs2, is2, cl2, ans)
              /\ \/ cs2 = cs \ {c} /\ is2 = is \ {c}
                 \/ cs2 = cs /\ is2 = is \cup {c}
              /\ cl2[c].req = NoRequest /\ cl2[c].stage # "out"
              /\ err => cl2[c].stage = "gone"
              /\ \A d \in Client \ {c} : cl2[d] = cl[d]
<1> DEFINE used == Returned(cl, c)
           timer == IdleTimeout /\ IsAboveMin(cs)
<1>1. c \in Client /\ cl \in [Client -> ClientRecord] /\ cl[c] \in ClientRecord
  BY DEF AgreeBut
<1>2. /\ used \in [Client -> ClientRecord]
      /\ used[c].listeners = 1 /\ used[c].connTimer = "off" /\ used[c].req = NoRequest
      /\ \A d \in Client \ {c} : used[d] = cl[d]
  BY <1>1, ReturnedRecord DEF Returned
<1>3. AgreeBut({c}, cs, is, used)
  BY <1>2 DEF AgreeBut
<1> HIDE DEF used, timer
<1>4. CASE MustRemove(used, c, err)
  <2>1. PulseQueue(cs \ {c}, is \ {c}, Removed(used, {c}), ans)
    BY <1>4 DEF DoRelease, used
  <2>2. PoolOK(cs \ {c}, is \ {c}, Removed(used, {c}))
    BY <1>1, <1>2, <1>3, RemovedOK
  <2> DEFINE gone == Removed(used, {c})
  <2>3. /\ gone[c] = [used[c] EXCEPT !.stage = "gone", !.req = NoRequest, !.host = NoHost,
                                     !.live = FALSE, !.idleTimer = FALSE]
        /\ \A d \in Client \ {c} : gone[d] = cl[d]
    BY <1>1, <1>2 DEF Removed
  <2>4. gone[c].req = NoRequest /\ gone[c].stage = "gone"
    <3>1. used[c] \in ClientRecord
      BY <1>1, <1>2
    <3> QED BY <2>3, <3>1, GoneRecord
  <2> HIDE DEF gone
  <2>5. PulseQueue(cs \ {c}, is \ {c}, gone, ans) /\ PoolOK(cs \ {c}, is \ {c}, gone)
    BY <2>1, <2>2 DEF gone
  <2>6. gone[c].req = NoRequest /\ gone[c].stage # "out" /\ gone[c].stage = "gone"
    BY <2>4
  <2> WITNESS cs \ {c}, is \ {c}, gone
  <2> QED BY <2>3, <2>5, <2>6
<1>5. CASE ~MustRemove(used, c, err)
  <2>1. PulseQueue(cs, is \cup {c}, Shelved(used, c, timer), ans)
    BY <1>5 DEF DoRelease, used, timer
  <2>2. /\ used[c] \in ClientRecord /\ used[c].live /\ ~used[c].expired
        /\ used[c].uses < MaxUses
    <3>1. used[c] \in ClientRecord
      BY <1>1, <1>2
    <3>2. used[c].uses \in Nat
      BY <3>1 DEF ClientRecord
    <3> QED BY <1>5, <3>1, <3>2, SizeAssumption DEF MustRemove
  <2>3. timer \in BOOLEAN
    BY DEF timer
  <2> DEFINE x == [used[c] EXCEPT !.stage = "in", !.idleTimer = timer]
  <2>4. x \in ClientRecord /\ x.stage = "in" /\ RecordOK(x)
    BY <1>2, <2>2, <2>3, ShelvedRecord
  <2> HIDE DEF x
  <2>5. PoolOK(cs, is \cup {c}, [used EXCEPT ![c] = x])
    <3>1. cs = cs \cup {c} /\ "in" \in Open
      BY DEF Open
    <3> QED BY <1>1, <1>3, <2>4, <3>1, UpdateOK
  <2> DEFINE kept == Shelved(used, c, timer)
  <2>6. kept = [used EXCEPT ![c] = x]
    BY DEF Shelved, x
  <2>7. kept[c] = x /\ \A d \in Client \ {c} : kept[d] = cl[d]
    BY <1>1, <1>2, <2>6
  <2>8. x.req = NoRequest
    BY <1>1, <1>2 DEF x, ClientRecord
  <2>9. PulseQueue(cs, is \cup {c}, kept, ans) /\ PoolOK(cs, is \cup {c}, kept)
    BY <2>1, <2>5, <2>6
  <2>10. ~err
    BY <1>5 DEF MustRemove
  <2> HIDE DEF kept
  <2> QED BY <2>4, <2>7, <2>8, <2>9, <2>10
<1> QED BY <1>4, <1>5

LEMMA ReleaseOK ==
    ASSUME NEW cs, NEW is, NEW cl, NEW c \in cs, NEW err \in BOOLEAN,
           NEW ans \in SUBSET Request,
           AgreeBut({c}, cs, is, cl), RestOK, EndOK(cs),
           cl[c].listeners = 0, cl[c].connTimer = "off",
           DoRelease(cs, is, cl, c, err, ans)
    PROVE  PulseResult
<1>1. PICK cs2, is2, cl2 :
              /\ PoolOK(cs2, is2, cl2) /\ PulseQueue(cs2, is2, cl2, ans)
              /\ \/ cs2 = cs \ {c} /\ is2 = is \ {c}
                 \/ cs2 = cs /\ is2 = is \cup {c}
  BY ReleasePulses
<1>2. EndOK(cs2)
  BY <1>1 DEF EndOK
<1> QED BY <1>1, <1>2, PulseOK

-----------------------------------------------------------------------------
\* One lemma per kind of action.

\* A handler that ends with a pulse keeps the invariant.
LEMMA PulseKeeps ==
    ASSUME PoolInv, PulseResult, ending' = ending, asked' \subseteq Request,
           timedOut' \subseteq Request, ticks' \in Nat
    PROVE  PoolInv'
<1>1. RestOK' /\ PoolOK(clients, idle, client)'
  BY DEF PulseResult, PoolInv, RestOK
<1>2. EndOK(clients)' /\ (ending => idle = {})'
  BY DEF PulseResult, EndOK
<1> QED BY <1>1, <1>2 DEF PoolInv

\* So does one that changes one record within its stage and touches no list
\* and no flag.
LEMMA RecordKeeps ==
    ASSUME PoolInv, NEW c \in Client, NEW x \in ClientRecord, RecordOK(x),
           x.stage \in Open <=> client[c].stage \in Open,
           x.stage = "in" <=> client[c].stage = "in",
           client' = [client EXCEPT ![c] = x],
           UNCHANGED <<clients, idle, pendingQueue, asked, timedOut, ticks, endVars>>,
           calls' \in [Request -> Nat], reqTimer' \subseteq Request
    PROVE  PoolInv'
<1>1. /\ c \in clients <=> client[c].stage \in Open
      /\ c \in idle <=> client[c].stage = "in"
      /\ PoolOK(clients, idle, client)
  BY DEF PoolInv, PoolOK, AgreeBut
<1>2. /\ clients = IF x.stage \in Open THEN clients \cup {c} ELSE clients \ {c}
      /\ idle = IF x.stage = "in" THEN idle \cup {c} ELSE idle \ {c}
      /\ c \in clients \/ x.stage \notin Open
  BY <1>1
<1>3. PoolOK(clients, idle, [client EXCEPT ![c] = x])
  BY <1>1, <1>2, UpdateOK DEF PoolOK
<1>4. PoolOK(clients', idle', client')
  BY <1>3
<1>5. RestOK'
  BY DEF PoolInv, RestOK, endVars
<1>6. EndOK(clients)' /\ (ending => idle = {})'
  BY DEF PoolInv, EndOK, endVars
<1> QED BY <1>4, <1>5, <1>6 DEF PoolInv

\* A client that is checked out, connecting or being verified belongs to the
\* pool and nobody in the pool listens to it.
LEMMA BusyClient ==
    ASSUME PoolInv, NEW c \in Client, client[c].stage \in {"connecting", "verifying", "out"}
    PROVE  /\ c \in clients /\ c \notin idle /\ client[c] \in ClientRecord /\ RecordOK(client[c])
           /\ client[c].listeners = 0
           /\ client[c].stage # "connecting" => client[c].connTimer = "off"
           /\ ~client[c].idleTimer
  BY DEF PoolInv, PoolOK, AgreeBut, RecordOK, Open

\* The release of a client of the pool keeps the invariant.
LEMMA ReleaseKeeps ==
    ASSUME PoolInv, NEW c \in clients, NEW cl, NEW err \in BOOLEAN, NEW ans \in SUBSET Request,
           cl \in [Client -> ClientRecord], \A d \in Client \ {c} : cl[d] = client[d],
           cl[c].listeners = 0, cl[c].connTimer = "off",
           DoRelease(clients, idle, cl, c, err, ans),
           UNCHANGED <<asked, timedOut, ticks, ending>>
    PROVE  PoolInv'
<1>1. AgreeBut({c}, clients, idle, cl)
  BY DEF PoolInv, PoolOK, AgreeBut
<1>2. RestOK /\ EndOK(clients)
  BY DEF PoolInv
<1>3. PulseResult
  BY <1>1, <1>2, ReleaseOK
<1> QED BY <1>2, <1>3, PulseKeeps DEF RestOK

LEMMA RefusedKeeps == ASSUME PoolInv, NEW r \in Request, ConnectRefused(r) PROVE PoolInv'
<1>1. calls' \in [Request -> Nat] /\ reqTimer' \subseteq Request
  BY AnswerOK DEF PoolInv, ConnectRefused
<1>2. RestOK'
  BY <1>1 DEF PoolInv, ConnectRefused, RestOK, poolVars, endVars
<1> QED BY <1>2 DEF PoolInv, ConnectRefused, poolVars, endVars, EndOK

LEMMA QueuedKeeps == ASSUME PoolInv, NEW r \in Request, ConnectQueued(r) PROVE PoolInv'
<1>1. RestOK'
  <2>1. pendingQueue' \in Seq(Request)
    BY DEF PoolInv, ConnectQueued, RestOK
  <2>2. reqTimer' \subseteq Request /\ ticks' \in Nat
    BY DEF PoolInv, ConnectQueued, RestOK
  <2> QED BY <2>1, <2>2 DEF PoolInv, ConnectQueued, RestOK, endVars
<1> QED BY <1>1 DEF PoolInv, ConnectQueued, endVars, EndOK

LEMMA NewKeeps == ASSUME PoolInv, NEW r \in Request, ConnectNew(r) PROVE PoolInv'
<1>1. PICK c \in Client : /\ client[c].stage = "none"
                          /\ clients' = clients \cup {c}
                          /\ client' = Launched(client, c, r, NoHost)
  BY DEF ConnectNew
<1>2. PoolOK(clients', idle', client')
  BY <1>1, LaunchedOK DEF PoolInv, ConnectNew
<1>3. RestOK'
  BY DEF PoolInv, ConnectNew, RestOK, endVars
<1>4. EndOK(clients)' /\ (ending => idle = {})'
  BY DEF PoolInv, ConnectNew, EndOK, endVars
<1> QED BY <1>2, <1>3, <1>4 DEF PoolInv

LEMMA EndKeeps == ASSUME PoolInv, End PROVE PoolInv'
<1>1. endCalls = 0 /\ PoolOK(clients, idle, client) /\ RestOK
  BY DEF PoolInv, End, EndOK
<1>2. /\ PoolOK(clients', idle', client') /\ idle' = {}
      /\ pendingQueue' \in Seq(Request) /\ calls' \in [Request -> Nat]
      /\ reqTimer' \subseteq Request
      /\ ended' \in BOOLEAN /\ endCalls' \in Nat
      /\ ended' => clients' = {}
      /\ endCalls' = IF ended' THEN 1 ELSE 0
  BY <1>1, DrainOK DEF End
<1>3. RestOK'
  BY <1>1, <1>2 DEF RestOK, End
<1>4. EndOK(clients)'
  BY <1>2 DEF EndOK, End
<1> QED BY <1>2, <1>3, <1>4 DEF PoolInv

LEMMA TickKeeps == ASSUME PoolInv, RunTick PROVE PoolInv'
<1>1. PulseResult
  BY PulseOK DEF PoolInv, RunTick
<1>2. ticks' \in Nat
  BY DEF PoolInv, RestOK, RunTick
<1> QED BY <1>1, <1>2, PulseKeeps DEF PoolInv, RestOK, RunTick

LEMMA HolderReleaseKeeps ==
    ASSUME PoolInv, NEW c \in Client, NEW err \in BOOLEAN, Release(c, err)
    PROVE  PoolInv'
<1>1. /\ c \in clients /\ client[c].listeners = 0 /\ client[c].connTimer = "off"
      /\ client \in [Client -> ClientRecord]
  BY BusyClient DEF Release, PoolInv, PoolOK, AgreeBut
<1> QED BY <1>1, ReleaseKeeps DEF Release

\* Whether a client that failed to connect keeps its callback (st is "failed")
\* or not.
LEMMA FailedRecord ==
    ASSUME NEW y \in ClientRecord, RecordOK(y), y.stage = "connecting",
           NEW st \in {"gone", "failed"}, NEW q \in {NoRequest, y.req},
           st = "failed" => q = y.req,
           NEW x, x = [y EXCEPT !.stage = st, !.req = q, !.host = NoHost,
                                !.connTimer = "off", !.listeners = y.listeners + 1]
    PROVE  x \in ClientRecord /\ x.stage = st /\ x.req = q /\ RecordOK(x)
<1>1. y.listeners + 1 = 1 /\ ~y.lifeTimer /\ ~y.idleTimer /\ y.req \in Request
  BY DEF RecordOK
<1>2. q \in Request \cup {NoRequest} /\ st \in Stage
  BY <1>1 DEF Stage
<1>3. x = [y EXCEPT !.stage = st, !.req = q, !.host = NoHost,
                    !.connTimer = "off", !.listeners = 1]
  BY <1>1
<1>4. /\ x \in ClientRecord /\ x.stage = st /\ x.req = q /\ x.listeners = 1
      /\ x.connTimer = "off" /\ x.lifeTimer = y.lifeTimer /\ x.idleTimer = y.idleTimer
  BY ONLY <1>2, <1>3 DEF ClientRecord
<1> QED BY <1>1, <1>4 DEF RecordOK

LEMMA FailedPool ==
    ASSUME PoolInv, NEW c \in Client, ConnectFailed(c)
    PROVE  /\ PoolOK(clients \ {c}, idle, Failed(client, c)) /\ EndOK(clients \ {c})
           /\ \A d \in Client \ {c} : Failed(client, c)[d] = client[d]
           /\ \/ Failed(client, c)[c].stage = "gone" /\ Failed(client, c)[c].req = NoRequest
              \/ /\ Failed(client, c)[c].stage = "failed"
                 /\ Failed(client, c)[c].req = client[c].req
<1> DEFINE y == client[c]
           st == IF Balancing(c) THEN "gone" ELSE "failed"
           q == IF Balancing(c) THEN NoRequest ELSE y.req
           x == [y EXCEPT !.stage = st, !.req = q, !.host = NoHost,
                          !.connTimer = "off", !.listeners = y.listeners + 1]
<1>1. /\ c \in clients /\ c \notin idle /\ y \in ClientRecord
      /\ RecordOK(y) /\ y.stage = "connecting"
  BY BusyClient DEF ConnectFailed
<1>2. Failed(client, c) = [client EXCEPT ![c] = x]
  BY DEF Failed
<1>3. (st = "gone" /\ q = NoRequest) \/ (st = "failed" /\ q = y.req)
  OBVIOUS
<1>4. x = [y EXCEPT !.stage = st, !.req = q, !.host = NoHost,
                    !.connTimer = "off", !.listeners = y.listeners + 1]
  OBVIOUS
<1>5. y = client[c]
  OBVIOUS
<1> HIDE DEF x, y, st, q
<1>6. x \in ClientRecord /\ x.stage = st /\ x.req = q /\ RecordOK(x)
  <2>1. st \in {"gone", "failed"} /\ q \in {NoRequest, y.req} /\ (st = "failed" => q = y.req)
    BY <1>3
  <2> QED BY ONLY <1>1, <1>4, <2>1, FailedRecord
<1>7. idle = idle \ {c} /\ st \notin Open /\ st # "in"
  BY <1>1, <1>3 DEF Open
<1>8. AgreeBut({}, clients, idle, client)
  BY DEF PoolInv, PoolOK
<1>9. PoolOK(clients \ {c}, idle, [client EXCEPT ![c] = x])
  BY <1>6, <1>7, <1>8, UpdateOK
<1>10. EndOK(clients \ {c})
  BY DEF PoolInv, EndOK
<1>11. /\ [client EXCEPT ![c] = x][c] = x
       /\ \A d \in Client \ {c} : [client EXCEPT ![c] = x][d] = client[d]
  BY <1>8 DEF AgreeBut
<1> QED BY <1>2, <1>3, <1>5, <1>6, <1>9, <1>10, <1>11

\* A client that failed to connect is on no list.
LEMMA LostClient ==
    ASSUME PoolInv, NEW c \in Client, client[c].stage \in {"failed", "refailed"}
    PROVE  /\ c \notin clients /\ c \notin idle /\ client[c] \in ClientRecord
           /\ RecordOK(client[c]) /\ client[c].req \in Request
           /\ client \in [Client -> ClientRecord]
  BY DEF PoolInv, PoolOK, AgreeBut, RecordOK, Open

LEMMA AgainPool ==
    ASSUME PoolInv, NEW c \in Client, ConnectFailsAgain(c)
    PROVE  /\ PoolOK(clients, idle, FailedAgain(client, c))
           /\ \A d \in Client \ {c} : FailedAgain(client, c)[d] = client[d]
           /\ FailedAgain(client, c)[c].stage = "refailed"
           /\ FailedAgain(client, c)[c].req = client[c].req
<1> DEFINE y == client[c]
           n == y.listeners + 1
           x == [y EXCEPT !.stage = "refailed", !.listeners = n]
<1>1. /\ c \notin clients /\ c \notin idle /\ y \in ClientRecord /\ RecordOK(y)
      /\ y.stage = "failed" /\ y.req \in Request
      /\ client \in [Client -> ClientRecord]
  BY LostClient DEF ConnectFailsAgain
<1>2. FailedAgain(client, c) = [client EXCEPT ![c] = x]
  BY DEF FailedAgain
<1>3. n \in Nat
  BY <1>1 DEF ClientRecord
<1>4. y = client[c]
  OBVIOUS
<1> HIDE DEF y, n
<1>5. /\ x \in ClientRecord /\ x.stage = "refailed" /\ x.req = y.req
      /\ x.lifeTimer = y.lifeTimer /\ x.idleTimer = y.idleTimer /\ x.connTimer = y.connTimer
  BY ONLY <1>1, <1>3 DEF ClientRecord, Stage
<1> HIDE DEF x
<1>6. RecordOK(x)
  BY <1>1, <1>5 DEF RecordOK
<1>7. idle = idle \ {c} /\ clients = clients \ {c} /\ x.stage \notin Open /\ x.stage # "in"
  BY <1>1, <1>5 DEF Open
<1>8. AgreeBut({}, clients, idle, client)
  BY DEF PoolInv, PoolOK
<1>9. PoolOK(clients, idle, [client EXCEPT ![c] = x])
  BY <1>5, <1>6, <1>7, <1>8, UpdateOK
<1>10. /\ [client EXCEPT ![c] = x][c] = x
       /\ \A d \in Client \ {c} : [client EXCEPT ![c] = x][d] = client[d]
  BY <1>1
<1> QED BY <1>2, <1>4, <1>5, <1>9, <1>10

LEMMA AgainKeeps == ASSUME PoolInv, NEW c \in Client, ConnectFailsAgain(c) PROVE PoolInv'
<1> DEFINE ans == {client[c].req} \ timedOut
<1>1. PoolOK(clients, idle, FailedAgain(client, c)) /\ EndOK(clients)
  BY AgainPool DEF PoolInv
<1>2. ans \in SUBSET Request /\ PulseQueue(clients, idle, FailedAgain(client, c), ans)
  <2>1. client[c].req \in Request
    BY LostClient DEF ConnectFailsAgain
  <2> QED BY <2>1 DEF ConnectFailsAgain
<1> HIDE DEF ans
<1>3. PulseResult
  BY <1>1, <1>2, PulseOK DEF PoolInv
<1> QED BY <1>3, PulseKeeps DEF ConnectFailsAgain, PoolInv, RestOK

LEMMA FailedErrorKeeps == ASSUME PoolInv, NEW c \in Client, FailedError(c) PROVE PoolInv'
<1> DEFINE y == client[c]
           x == [y EXCEPT !.live = FALSE, !.listeners = 0]
<1>1. /\ y \in ClientRecord /\ RecordOK(y) /\ y.stage \in {"failed", "refailed"}
      /\ y.req \in Request
  BY LostClient DEF FailedError
<1>2. client' = [client EXCEPT ![c] = x] /\ y = client[c]
  BY DEF FailedError
<1> HIDE DEF y
<1>3. /\ x \in ClientRecord /\ x.stage = y.stage /\ x.req = y.req
      /\ x.lifeTimer = y.lifeTimer /\ x.idleTimer = y.idleTimer /\ x.connTimer = y.connTimer
  BY ONLY <1>1 DEF ClientRecord
<1> HIDE DEF x
<1>4. RecordOK(x)
  BY <1>1, <1>3 DEF RecordOK
<1> QED BY <1>2, <1>3, <1>4, RecordKeeps DEF FailedError, requestVars, PoolInv, RestOK

LEMMA FailKeeps == ASSUME PoolInv, NEW c \in Client, ConnectFailed(c) PROVE PoolInv'
<1> DEFINE ans == {client[c].req} \ timedOut
<1>1. PoolOK(clients \ {c}, idle, Failed(client, c)) /\ EndOK(clients \ {c})
  BY FailedPool
<1>2. ans \in SUBSET Request /\ PulseQueue(clients \ {c}, idle, Failed(client, c), ans)
  <2>1. client[c].req \in Request
    BY BusyClient DEF ConnectFailed, RecordOK
  <2> QED BY <2>1 DEF ConnectFailed
<1> HIDE DEF ans
<1>3. PulseResult
  BY <1>1, <1>2, PulseOK DEF PoolInv
<1> QED BY <1>3, PulseKeeps DEF ConnectFailed, PoolInv, RestOK

\* A connected client becomes verified, or checked out.
LEMMA HandedRecord ==
    ASSUME NEW y \in ClientRecord, NEW st \in {"verifying", "out"},
           NEW r \in Request \cup {NoRequest},
           y.listeners = 0, ~y.idleTimer, y.connTimer = "off",
           NEW x, x = [y EXCEPT !.stage = st, !.req = r]
    PROVE  x \in ClientRecord /\ x.stage = st /\ RecordOK(x)
<1>1. x \in ClientRecord
  BY DEF ClientRecord, Stage
<1>2. x.stage = st /\ x.listeners = 0 /\ ~x.idleTimer /\ x.connTimer = "off"
  BY DEF ClientRecord
<1> QED BY <1>1, <1>2 DEF RecordOK

LEMMA OpenedRecord ==
    ASSUME NEW y \in ClientRecord, NEW h \in Host \cup {NoHost}
    PROVE  LET x == [y EXCEPT !.host = h, !.connTimer = "off", !.lifeTimer = Lifetime]
           IN  /\ x \in ClientRecord /\ x.listeners = y.listeners
               /\ x.idleTimer = y.idleTimer /\ x.connTimer = "off" /\ x.stage = y.stage
  BY OptionAssumption DEF ClientRecord

LEMMA ConnectedKeeps == ASSUME PoolInv, NEW c \in Client, Connected(c) PROVE PoolInv'
<1> DEFINE r == client[c].req
<1>1. /\ c \in clients /\ c \notin idle /\ client[c] \in ClientRecord
      /\ client[c].listeners = 0 /\ ~client[c].idleTimer /\ client[c].stage = "connecting"
      /\ client \in [Client -> ClientRecord]
  BY BusyClient DEF Connected, PoolInv, PoolOK, AgreeBut
<1>2. r \in Request
  BY <1>1, BusyClient DEF RecordOK
<1>3. PICK h \in Host \cup {NoHost} :
          \/ /\ client' = Handed(Opened(client, c, h), c, "verifying",
                                 IF r \in timedOut THEN NoRequest ELSE r)
             /\ UNCHANGED <<clients, idle, pendingQueue, calls, reqTimer, ended, endCalls>>
          \/ /\ client' = Handed(Opened(client, c, h), c, "out", r)
             /\ Answer({r})
             /\ UNCHANGED <<clients, idle, pendingQueue, ended, endCalls>>
          \/ DoRelease(clients, idle, Opened(client, c, h), c, FALSE, {})
  <2>1. client[c].host \in Host \cup {NoHost}
    BY <1>1 DEF ClientRecord
  <2> QED BY <2>1 DEF Connected
<1> DEFINE y == [client[c] EXCEPT !.host = h, !.connTimer = "off", !.lifeTimer = Lifetime]
           up == Opened(client, c, h)
<1>4. /\ y \in ClientRecord /\ y.listeners = 0 /\ ~y.idleTimer /\ y.connTimer = "off"
      /\ y.stage = "connecting"
  BY <1>1, OpenedRecord
<1> HIDE DEF r, y
<1>5. up = [client EXCEPT ![c] = y]
  BY DEF Opened, y
<1>6. /\ up \in [Client -> ClientRecord] /\ up[c] = y
      /\ \A d \in Client \ {c} : up[d] = client[d]
  BY <1>1, <1>4, <1>5
<1> HIDE DEF up
<1>7. UNCHANGED <<asked, timedOut, ticks, ending>> /\ RestOK
  BY DEF Connected, PoolInv
<1>8. ASSUME NEW st \in {"verifying", "out"}, NEW q \in Request \cup {NoRequest},
             client' = Handed(up, c, st, q), calls' \in [Request -> Nat],
             reqTimer' \subseteq Request,
             UNCHANGED <<clients, idle, pendingQueue, ended, endCalls>>
      PROVE  PoolInv'
  <2> DEFINE x == [y EXCEPT !.stage = st, !.req = q]
  <2>2. client' = [client EXCEPT ![c] = x]
    BY <1>1, <1>5, <1>6, <1>8 DEF Handed
  <2>3. x = [y EXCEPT !.stage = st, !.req = q]
    OBVIOUS
  <2> HIDE DEF x
  <2>1. x \in ClientRecord /\ x.stage = st /\ RecordOK(x)
    BY <1>4, <1>8, <2>3, HandedRecord
  <2> QED BY <1>1, <1>7, <1>8, <2>1, <2>2, RecordKeeps DEF Open, endVars
<1>9. CASE /\ client' = Handed(up, c, "verifying", IF r \in timedOut THEN NoRequest ELSE r)
           /\ UNCHANGED <<clients, idle, pendingQueue, calls, reqTimer, ended, endCalls>>
  <2> DEFINE q == IF r \in timedOut THEN NoRequest ELSE r
  <2>1. q \in Request \cup {NoRequest}
    BY <1>2
  <2>2. calls' \in [Request -> Nat] /\ reqTimer' \subseteq Request
    BY <1>7, <1>9 DEF RestOK
  <2>3. client' = Handed(up, c, "verifying", q)
    BY <1>9
  <2> HIDE DEF q
  <2> QED BY <1>8, <1>9, <2>1, <2>2, <2>3
<1>10. CASE /\ client' = Handed(up, c, "out", r)
            /\ Answer({r})
            /\ UNCHANGED <<clients, idle, pendingQueue, ended, endCalls>>
  <2>1. calls' \in [Request -> Nat] /\ reqTimer' \subseteq Request
    BY <1>2, <1>7, <1>10, AnswerOK
  <2> QED BY <1>2, <1>8, <1>10, <2>1
<1>11. CASE DoRelease(clients, idle, up, c, FALSE, {})
  <2> DEFINE err == FALSE
             ans == {}
  <2>1. err \in BOOLEAN /\ ans \in SUBSET Request
    OBVIOUS
  <2>2. DoRelease(clients, idle, up, c, err, ans)
    BY <1>11
  <2> HIDE DEF err, ans
  <2> QED BY <1>1, <1>4, <1>6, <1>7, <2>1, <2>2, ReleaseKeeps
<1> QED BY <1>3, <1>9, <1>10, <1>11 DEF up

LEMMA VerifiedKeeps ==
    ASSUME PoolInv, NEW c \in Client, NEW ok \in BOOLEAN, VerifyDone(c, ok)
    PROVE  PoolInv'
<1> DEFINE r == client[c].req
<1>1. /\ c \in clients /\ client[c] \in ClientRecord
      /\ client[c].listeners = 0 /\ ~client[c].idleTimer
      /\ client[c].connTimer = "off" /\ client[c].stage = "verifying"
      /\ client \in [Client -> ClientRecord]
  BY BusyClient DEF VerifyDone, PoolInv, PoolOK, AgreeBut
<1>2. r \in Request \cup {NoRequest}
  BY <1>1 DEF ClientRecord
<1>3. UNCHANGED <<asked, timedOut, ticks, ending>> /\ RestOK
  BY DEF VerifyDone, PoolInv
<1>4. CASE ok /\ r # NoRequest
  <2> DEFINE x == [client[c] EXCEPT !.stage = "out", !.req = r]
  <2>2. /\ client' = [client EXCEPT ![c] = x] /\ Answer({r})
        /\ UNCHANGED <<clients, idle, pendingQueue, ended, endCalls>>
    BY <1>4 DEF VerifyDone, Handed
  <2>3. calls' \in [Request -> Nat] /\ reqTimer' \subseteq Request
    BY <1>2, <1>3, <1>4, <2>2, AnswerOK
  <2> DEFINE y == client[c]
             st == "out"
  <2>4. /\ y \in ClientRecord /\ st \in {"verifying", "out"}
        /\ y.listeners = 0 /\ ~y.idleTimer /\ y.connTimer = "off"
        /\ x = [y EXCEPT !.stage = st, !.req = r] /\ st = "out"
    BY <1>1
  <2> HIDE DEF x, r, y, st
  <2>1. x \in ClientRecord /\ x.stage = "out" /\ RecordOK(x)
    BY <1>2, <2>4, HandedRecord
  <2> QED BY <1>1, <1>3, <2>1, <2>2, <2>3, RecordKeeps DEF Open, endVars
<1>5. CASE ~(ok /\ r # NoRequest)
  <2>1. DoRelease(clients, idle, client, c, ~ok, {r} \ {NoRequest})
    BY <1>5 DEF VerifyDone
  <2>2. {r} \ {NoRequest} \in SUBSET Request /\ (~ok) \in BOOLEAN
    BY <1>2
  <2> HIDE DEF r
  <2> QED BY <1>1, <1>3, <2>1, <2>2, ReleaseKeeps
<1> QED BY <1>4, <1>5

\* What the lifetime timer makes of an idle client before it releases it.
LEMMA ExpiredPool ==
    ASSUME PoolInv, NEW c \in Client, c \in idle
    PROVE  LET cl == Unheard(Marked(client, c), c)
           IN  /\ cl \in [Client -> ClientRecord]
               /\ \A d \in Client \ {c} : cl[d] = client[d]
               /\ cl[c].listeners = 0 /\ cl[c].connTimer = "off" /\ c \in clients
<1> DEFINE y == [client[c] EXCEPT !.expired = TRUE, !.lifeTimer = FALSE]
           z == [y EXCEPT !.listeners = Unlistened(y.listeners)]
<1>1. /\ client \in [Client -> ClientRecord] /\ client[c] \in ClientRecord /\ c \in clients
      /\ client[c].listeners = 1 /\ client[c].connTimer = "off"
  BY DEF PoolInv, PoolOK, AgreeBut, RecordOK
<1>2. y \in ClientRecord /\ y.listeners = 1 /\ y.connTimer = "off"
  BY ONLY <1>1 DEF ClientRecord
<1> HIDE DEF y
<1>3. z \in ClientRecord /\ z.listeners = 0 /\ z.connTimer = "off"
  <2>1. Unlistened(y.listeners) = 0
    BY <1>2 DEF Unlistened
  <2> QED BY ONLY <1>2, <2>1 DEF ClientRecord
<1>4. Unheard(Marked(client, c), c) = [client EXCEPT ![c] = z]
  <2>1. Marked(client, c) = [client EXCEPT ![c] = y]
    BY DEF Marked, y
  <2> QED BY <1>1, <2>1 DEF Unheard
<1> HIDE DEF z
<1> QED BY <1>1, <1>3, <1>4

LEMMA LifetimeKeeps == ASSUME PoolInv, NEW c \in Client, LifetimeFires(c) PROVE PoolInv'
<1>1. UNCHANGED <<asked, timedOut, ticks, ending>> /\ RestOK
  BY DEF LifetimeFires, PoolInv
<1>2. CASE c \in idle
  <2> DEFINE cl == Unheard(Marked(client, c), c)
             err == FALSE
             ans == {}
  <2>1. /\ cl \in [Client -> ClientRecord] /\ \A d \in Client \ {c} : cl[d] = client[d]
        /\ cl[c].listeners = 0 /\ cl[c].connTimer = "off" /\ c \in clients
    BY <1>2, ExpiredPool
  <2>2. err \in BOOLEAN /\ ans \in SUBSET Request /\ DoRelease(clients, idle, cl, c, err, ans)
    BY <1>2 DEF LifetimeFires
  <2> HIDE DEF cl, err, ans
  <2> QED BY <1>1, <2>1, <2>2, ReleaseKeeps
<1>3. CASE c \notin idle
  <2> DEFINE y == [client[c] EXCEPT !.expired = TRUE, !.lifeTimer = FALSE]
  <2>1. /\ client[c] \in ClientRecord /\ RecordOK(client[c]) /\ client[c].lifeTimer
        /\ c \in idle <=> client[c].stage = "in"
    BY DEF LifetimeFires, PoolInv, PoolOK, AgreeBut
  <2>2. /\ y \in ClientRecord /\ y.stage = client[c].stage /\ y.listeners = client[c].listeners
        /\ y.idleTimer = client[c].idleTimer /\ y.connTimer = client[c].connTimer
        /\ y.live = client[c].live /\ ~y.lifeTimer
    BY ONLY <2>1 DEF ClientRecord
  <2>3. /\ client' = [client EXCEPT ![c] = y]
        /\ UNCHANGED <<clients, idle, pendingQueue, calls, reqTimer, ended, endCalls>>
    BY <1>3 DEF LifetimeFires, Marked
  <2> HIDE DEF y
  <2>4. /\ client[c].stage \notin {"none", "connecting", "in", "failed", "refailed"}
        /\ client[c].connTimer = "off"
    BY <1>3, <2>1 DEF RecordOK
  <2>5. RecordOK(y)
    BY <2>1, <2>2, <2>4 DEF RecordOK
  <2> QED BY <1>1, <2>2, <2>3, <2>5, RecordKeeps DEF endVars, RestOK
<1> QED BY <1>2, <1>3

\* Taking a client off both lists outside a pulse.
LEMMA DropKeeps ==
    ASSUME PoolInv, NEW c \in Client, NEW cl, AgreeBut({c}, clients, idle, cl),
           cl[c].connTimer = "off",
           clients' = clients \ {c}, idle' = idle \ {c}, client' = Removed(cl, {c}),
           UNCHANGED <<pendingQueue, requestVars, ticks, endVars>>
    PROVE  PoolInv'
<1>1. PoolOK(clients', idle', client')
  BY RemovedOK
<1>2. RestOK'
  BY DEF PoolInv, RestOK, requestVars, endVars
<1>3. EndOK(clients)' /\ (ending => idle = {})'
  BY DEF PoolInv, EndOK, endVars
<1> QED BY <1>1, <1>2, <1>3 DEF PoolInv

LEMMA IdleTimeoutKeeps == ASSUME PoolInv, NEW c \in Client, IdleTimeoutFires(c) PROVE PoolInv'
<1>1. AgreeBut({c}, clients, idle, client) /\ client[c].connTimer = "off"
  BY DEF IdleTimeoutFires, PoolInv, PoolOK, AgreeBut, RecordOK
<1> QED BY <1>1, DropKeeps DEF IdleTimeoutFires

LEMMA ErrorKeeps == ASSUME PoolInv, NEW c \in Client, ClientError(c) PROVE PoolInv'
<1>1. /\ client \in [Client -> ClientRecord] /\ client[c] \in ClientRecord
      /\ RecordOK(client[c]) /\ client[c].connTimer = "off"
  BY DEF ClientError, PoolInv, PoolOK, AgreeBut, RecordOK
<1>2. CASE client[c].listeners > 0
  <2> DEFINE n == Unlistened(client[c].listeners)
             y == [client[c] EXCEPT !.listeners = n]
  <2>1. n \in Nat
    BY <1>1 DEF Unlistened, ClientRecord
  <2> HIDE DEF n
  <2>2. y \in ClientRecord /\ y.connTimer = "off"
    BY ONLY <1>1, <2>1 DEF ClientRecord
  <2> HIDE DEF y
  <2>3. Unheard(client, c) = [client EXCEPT ![c] = y]
    BY DEF Unheard, y, n
  <2>4. AgreeBut({c}, clients, idle, Unheard(client, c)) /\ Unheard(client, c)[c] = y
    BY <1>1, <2>2, <2>3 DEF PoolInv, PoolOK, AgreeBut
  <2> QED BY <1>2, <2>2, <2>4, DropKeeps DEF ClientError
<1>3. CASE ~(client[c].listeners > 0)
  <2> DEFINE y == [client[c] EXCEPT !.live = FALSE]
  <2>1. /\ y \in ClientRecord /\ ~y.live
        /\ y.stage = client[c].stage /\ y.listeners = client[c].listeners
        /\ y.idleTimer = client[c].idleTimer /\ y.connTimer = client[c].connTimer
    BY ONLY <1>1 DEF ClientRecord
  <2>2. client[c].stage \in {"verifying", "out", "gone"}
    BY <1>1, <1>3 DEF ClientError, RecordOK
  <2> HIDE DEF y
  <2>3. RecordOK(y)
    BY <1>1, <2>1, <2>2 DEF RecordOK
  <2>4. /\ client' = [client EXCEPT ![c] = y]
        /\ UNCHANGED <<clients, idle, pendingQueue, requestVars, ticks, endVars>>
    BY <1>3 DEF ClientError, y
  <2> QED BY <2>1, <2>3, <2>4, RecordKeeps DEF requestVars, PoolInv, RestOK
<1> QED BY <1>2, <1>3

\* The holder's client.end() and the events of the connection change flags of
\* one record.
LEMMA FlagKeeps ==
    ASSUME PoolInv, NEW c \in Client,
           EndedByHolder(c) \/ ConnTimerFires(c) \/ Closed(c)
    PROVE  PoolInv'
<1>1. client[c] \in ClientRecord /\ RecordOK(client[c])
  BY DEF PoolInv, PoolOK, AgreeBut
<1>2. UNCHANGED <<clients, idle, pendingQueue, requestVars, ticks, endVars>>
  BY DEF EndedByHolder, ConnTimerFires, Closed
<1>3. CASE EndedByHolder(c)
  <2> DEFINE y == [client[c] EXCEPT !.live = FALSE]
  <2>1. /\ y \in ClientRecord /\ ~y.live /\ y.stage = client[c].stage
        /\ y.listeners = client[c].listeners
        /\ y.idleTimer = client[c].idleTimer /\ y.connTimer = client[c].connTimer
    BY ONLY <1>1 DEF ClientRecord
  <2>2. client' = [client EXCEPT ![c] = y] /\ client[c].stage \in {"verifying", "out"}
    BY <1>3 DEF EndedByHolder
  <2> HIDE DEF y
  <2>3. RecordOK(y)
    BY <1>1, <2>1, <2>2 DEF RecordOK
  <2> QED BY <1>2, <2>1, <2>2, <2>3, RecordKeeps DEF requestVars, PoolInv, RestOK
<1>4. CASE ConnTimerFires(c)
  <2> DEFINE y == [client[c] EXCEPT !.connTimer = "fired"]
  <2>1. /\ y \in ClientRecord /\ y.stage = client[c].stage /\ y.req = client[c].req
        /\ y.listeners = client[c].listeners /\ y.lifeTimer = client[c].lifeTimer
        /\ y.idleTimer = client[c].idleTimer
    BY ONLY <1>1 DEF ClientRecord
  <2>2. client' = [client EXCEPT ![c] = y] /\ client[c].stage = "connecting"
    BY <1>1, <1>4 DEF ConnTimerFires, RecordOK
  <2> HIDE DEF y
  <2>3. RecordOK(y)
    BY <1>1, <2>1, <2>2 DEF RecordOK
  <2> QED BY <1>2, <2>1, <2>2, <2>3, RecordKeeps DEF requestVars, PoolInv, RestOK
<1>5. CASE Closed(c)
  <2> DEFINE y == [client[c] EXCEPT !.lifeTimer = FALSE]
  <2>1. /\ y \in ClientRecord /\ y.stage = client[c].stage /\ y.req = client[c].req
        /\ y.listeners = client[c].listeners /\ ~y.lifeTimer /\ y.live = client[c].live
        /\ y.idleTimer = client[c].idleTimer /\ y.connTimer = client[c].connTimer
        /\ y.expired = client[c].expired /\ y.uses = client[c].uses
    BY ONLY <1>1 DEF ClientRecord
  <2>2. client' = [client EXCEPT ![c] = y]
    BY <1>5 DEF Closed
  <2> HIDE DEF y
  <2>3. RecordOK(y)
    BY <1>1, <2>1 DEF RecordOK
  <2> QED BY <1>2, <2>1, <2>2, <2>3, RecordKeeps DEF requestVars, PoolInv, RestOK
<1> QED BY <1>3, <1>4, <1>5

\* Taking one element out of a sequence leaves a shorter one.
LEMMA RemoveAtType ==
    ASSUME NEW S, NEW q \in Seq(S), NEW i \in 1..Len(q)
    PROVE  RemoveAt(q, i) \in Seq(S) /\ Len(RemoveAt(q, i)) = Len(q) - 1
<1>1. i - 1 \in Int /\ i + 1 \in Int /\ Len(q) \in Nat
  OBVIOUS
<1>2. /\ SubSeq(q, 1, i - 1) \in Seq(S) /\ Len(SubSeq(q, 1, i - 1)) = i - 1
  BY <1>1, SubSeqProperties
<1>3. /\ SubSeq(q, i + 1, Len(q)) \in Seq(S) /\ Len(SubSeq(q, i + 1, Len(q))) = Len(q) - i
  BY <1>1, SubSeqProperties
<1> DEFINE a == SubSeq(q, 1, i - 1)
           b == SubSeq(q, i + 1, Len(q))
<1>4. RemoveAt(q, i) = a \o b
  BY DEF RemoveAt
<1> HIDE DEF a, b
<1>5. a \in Seq(S) /\ b \in Seq(S) /\ Len(a) = i - 1 /\ Len(b) = Len(q) - i
  BY <1>2, <1>3 DEF a, b
<1>6. a \o b \in Seq(S) /\ Len(a \o b) = Len(a) + Len(b)
  BY <1>5, ConcatProperties
<1> QED BY <1>1, <1>4, <1>5, <1>6

LEMMA ReqTimeoutKeeps == ASSUME PoolInv, NEW r \in Request, ReqTimeoutFires(r) PROVE PoolInv'
<1>1. pendingQueue' \in Seq(Request)
  BY RemoveAtType DEF ReqTimeoutFires, PoolInv, RestOK
<1>2. calls' \in [Request -> Nat] /\ reqTimer' \subseteq Request
  BY AnswerOK DEF ReqTimeoutFires, PoolInv
<1>3. RestOK'
  BY <1>1, <1>2 DEF ReqTimeoutFires, PoolInv, RestOK, endVars
<1> QED BY <1>3 DEF ReqTimeoutFires, PoolInv, EndOK, endVars

-----------------------------------------------------------------------------
LEMMA PoolBegins == ASSUME Init PROVE PoolInv
<1>1. Unborn \in ClientRecord /\ RecordOK(Unborn) /\ Unborn.stage = "none"
  BY DEF Unborn, ClientRecord, Stage, RecordOK
<1>2. IsFiniteSet({}) /\ Cardinality({}) <= MaxSize
  BY FS_EmptySet, SizeAssumption
<1>3. PoolOK(clients, idle, client)
  BY <1>1, <1>2 DEF Init, PoolOK, AgreeBut, Open
<1>4. RestOK /\ EndOK(clients)
  <2>1. pendingQueue \in Seq(Request) /\ calls \in [Request -> Nat]
    BY DEF Init
  <2>2. ending = FALSE /\ ended = FALSE /\ endCalls = 0
    BY DEF Init
  <2>3. asked = {} /\ reqTimer = {} /\ timedOut = {} /\ ticks = 0
    BY DEF Init
  <2> QED BY <2>1, <2>2, <2>3 DEF RestOK, EndOK
<1> QED BY <1>3, <1>4 DEF PoolInv, Init

LEMMA PoolGoesOn == ASSUME PoolInv, [Next]_vars PROVE PoolInv'
<1>1. ASSUME NEW r \in Request, ConnectRefused(r) PROVE PoolInv'
  BY <1>1, RefusedKeeps
<1>2. ASSUME NEW r \in Request, ConnectQueued(r) PROVE PoolInv'
  BY <1>2, QueuedKeeps
<1>3. ASSUME NEW r \in Request, ConnectNew(r) PROVE PoolInv'
  BY <1>3, NewKeeps
<1>4. ASSUME NEW r \in Request, ReqTimeoutFires(r) PROVE PoolInv'
  BY <1>4, ReqTimeoutKeeps
<1>5. ASSUME NEW c \in Client, NEW err \in BOOLEAN, Release(c, err) PROVE PoolInv'
  BY <1>5, HolderReleaseKeeps
<1>6. ASSUME NEW c \in Client, EndedByHolder(c) \/ ConnTimerFires(c) \/ Closed(c)
      PROVE  PoolInv'
  BY <1>6, FlagKeeps
<1>7. ASSUME NEW c \in Client, Connected(c) PROVE PoolInv'
  BY <1>7, ConnectedKeeps
<1>8. ASSUME NEW c \in Client, ConnectFailed(c) PROVE PoolInv'
  BY <1>8, FailKeeps
<1>9. ASSUME NEW c \in Client, NEW ok \in BOOLEAN, VerifyDone(c, ok) PROVE PoolInv'
  BY <1>9, VerifiedKeeps
<1>10. ASSUME NEW c \in Client, IdleTimeoutFires(c) PROVE PoolInv'
  BY <1>10, IdleTimeoutKeeps
<1>11. ASSUME NEW c \in Client, LifetimeFires(c) PROVE PoolInv'
  BY <1>11, LifetimeKeeps
<1>12. ASSUME NEW c \in Client, ClientError(c) PROVE PoolInv'
  BY <1>12, ErrorKeeps
<1>13. CASE End
  BY <1>13, EndKeeps
<1>14. CASE RunTick
  BY <1>14, TickKeeps
<1>15. CASE UNCHANGED vars
  BY <1>15 DEF vars, PoolInv, RestOK, EndOK
<1>16. ASSUME NEW c \in Client, ConnectFailsAgain(c) PROVE PoolInv'
  BY <1>16, AgainKeeps
<1>17. ASSUME NEW c \in Client, FailedError(c) PROVE PoolInv'
  BY <1>17, FailedErrorKeeps
<1> QED BY <1>1, <1>2, <1>3, <1>4, <1>5, <1>6, <1>7, <1>8, <1>9, <1>10, <1>11, <1>12,
           <1>13, <1>14, <1>15, <1>16, <1>17 DEF Next

\* The invariant of the pool: the inductive invariant holds in every state of
\* every behaviour, whatever the options.
THEOREM PoolInvariant == Spec => []PoolInv
<1>1. Init => PoolInv
  BY PoolBegins
<1>2. PoolInv /\ [Next]_vars => PoolInv'
  BY PoolGoesOn
<1> QED BY <1>1, <1>2, PTL DEF Spec

-----------------------------------------------------------------------------
\* What follows from the inductive invariant alone.

\* Every variable keeps its type: what each handler of Pool assigns is a value
\* of the kind the other handlers expect.
THEOREM TypeCorrect == Spec => []TypeOK
<1>1. PoolInv => TypeOK
  BY DEF PoolInv, PoolOK, AgreeBut, RestOK, TypeOK
<1> QED BY <1>1, PoolInvariant, PTL

\* _clients and _idle agree with what happened to every client.
THEOREM AccountingHolds == Spec => []Accounting
<1>1. PoolInv => Accounting
  BY DEF PoolInv, PoolOK, AgreeBut, Accounting, Open
<1> QED BY <1>1, PoolInvariant, PTL

\* The pool never owns more than options.max clients.
THEOREM SizeBounded == Spec => []SizeBound
<1>1. PoolInv => SizeBound
  BY DEF PoolInv, PoolOK, AgreeBut, SizeBound
<1> QED BY <1>1, PoolInvariant, PTL

LEMMA UsableWhenIdle == ASSUME PoolInv PROVE IdleUsable
<1>1. ASSUME NEW c \in idle PROVE RecordOK(client[c]) /\ client[c].stage = "in" /\ ~ending
  BY DEF PoolInv, PoolOK, AgreeBut
<1> QED BY <1>1 DEF IdleUsable, RecordOK

\* Every client on the idle list may be lent again.
THEOREM IdleClientsUsable == Spec => []IdleUsable
<1>1. PoolInv => IdleUsable
  BY UsableWhenIdle
<1> QED BY <1>1, PoolInvariant, PTL

\* No listener of the pool hears a client somebody holds.
THEOREM HeldClientsUnheard == Spec => []HeldUnheard
<1>1. PoolInv => HeldUnheard
  BY DEF PoolInv, PoolOK, AgreeBut, RecordOK, HeldUnheard
<1> QED BY <1>1, PoolInvariant, PTL

\* The callback of end() is called once, with no client left.
THEOREM PoolEndsOnce == Spec => []EndsOnce
<1>1. PoolInv => EndsOnce
  BY DEF PoolInv, EndOK, EndsOnce
<1> QED BY <1>1, PoolInvariant, PTL

-----------------------------------------------------------------------------
\* Once end() was called the pool only shrinks.

LEMMA PulseShrinks ==
    ASSUME NEW cs, NEW is, NEW cl, NEW ans, ending, PulseQueue(cs, is, cl, ans)
    PROVE  clients' \subseteq cs
  BY DEF PulseQueue, DrainIdle

LEMMA ReleaseShrinks ==
    ASSUME NEW cs, NEW is, NEW cl, NEW c, NEW err, NEW ans, ending,
           DoRelease(cs, is, cl, c, err, ans)
    PROVE  clients' \subseteq cs
<1>1. PICK cs2, is2, cl2 : cs2 \subseteq cs /\ PulseQueue(cs2, is2, cl2, ans)
  BY DEF DoRelease
<1> QED BY <1>1, PulseShrinks

\* Once end() was called no handler adds a client to the pool, whichever
\* pulses are scheduled and connections under way.
THEOREM OnlyShrinksOnceEnding == Spec => ShrinksOnceEnding
<1>1. ASSUME [Next]_vars, ending PROVE clients' \subseteq clients
  <2>1. ASSUME NEW r \in Request,
               ConnectRefused(r) \/ ConnectQueued(r) \/ ConnectNew(r) \/ ReqTimeoutFires(r)
        PROVE  clients' \subseteq clients
    BY <1>1, <2>1 DEF ConnectRefused, ConnectQueued, ConnectNew, ReqTimeoutFires, poolVars
  <2>2. ASSUME NEW c \in Client, NEW err \in BOOLEAN, Release(c, err)
        PROVE  clients' \subseteq clients
    BY <1>1, <2>2, ReleaseShrinks DEF Release
  <2>3. ASSUME NEW c \in Client,
               EndedByHolder(c) \/ ConnTimerFires(c) \/ Closed(c)
               \/ IdleTimeoutFires(c) \/ ClientError(c) \/ FailedError(c)
        PROVE  clients' \subseteq clients
    BY <2>3 DEF EndedByHolder, ConnTimerFires, Closed, IdleTimeoutFires, ClientError,
                FailedError
  <2>4. ASSUME NEW c \in Client, Connected(c) PROVE clients' \subseteq clients
    BY <1>1, <2>4, ReleaseShrinks DEF Connected
  <2>5. ASSUME NEW c \in Client, ConnectFailed(c) PROVE clients' \subseteq clients
    <3>1. clients' \subseteq clients \ {c}
      BY <1>1, <2>5, PulseShrinks DEF ConnectFailed
    <3> QED BY <3>1
  <2>6. ASSUME NEW c \in Client, NEW ok \in BOOLEAN, VerifyDone(c, ok)
        PROVE  clients' \subseteq clients
    BY <1>1, <2>6, ReleaseShrinks DEF VerifyDone
  <2>7. ASSUME NEW c \in Client, LifetimeFires(c) PROVE clients' \subseteq clients
    BY <1>1, <2>7, ReleaseShrinks DEF LifetimeFires
  <2>8. CASE End
    BY <1>1, <2>8 DEF End
  <2>9. CASE RunTick
    BY <1>1, <2>9, PulseShrinks DEF RunTick
  <2>10. CASE UNCHANGED vars
    BY <2>10 DEF vars
  <2>11. ASSUME NEW c \in Client, ConnectFailsAgain(c) PROVE clients' \subseteq clients
    BY <1>1, <2>11, PulseShrinks DEF ConnectFailsAgain
  <2> QED BY <1>1, <2>1, <2>2, <2>3, <2>4, <2>5, <2>6, <2>7, <2>8, <2>9, <2>10, <2>11 DEF Next
<1>2. [Next]_vars => [ending => clients' \subseteq clients]_vars
  BY <1>1
<1> QED BY <1>2, PTL DEF Spec, ShrinksOnceEnding

-----------------------------------------------------------------------------
\* No request waits for a client that is there.  A pulse serves one request:
\* a handler that frees one client or one place, and one tick that is used
\* up, are each made good by the pulse at the end.

\* NoLostWakeup for k pulses and a pool that owns cs, with is idle.
Covered(k, cs, is) ==
    ending \/ k >= Len(pendingQueue)
           \/ k + Cardinality(cs) >= Cardinality(is) + MaxSize

\* The pool owns finitely many clients, so that the sizes of its lists are
\* natural numbers.
LEMMA FiniteLists ==
    ASSUME NEW cs, NEW is, NEW cl, NEW D, AgreeBut(D, cs, is, cl)
    PROVE  /\ IsFiniteSet(cs) /\ IsFiniteSet(is)
           /\ Cardinality(cs) \in Nat /\ Cardinality(is) \in Nat
<1>1. IsFiniteSet(cs) /\ IsFiniteSet(is)
  BY FS_Subset DEF AgreeBut
<1> QED BY <1>1, FS_CardinalityType

LEMMA PulseWakes ==
    ASSUME NEW cs, NEW is, NEW cl, NEW ans, PoolOK(cs, is, cl), RestOK, EndOK(cs),
           ticks' \in Nat, ending' = ending, Covered(ticks' + 1, cs, is),
           PulseQueue(cs, is, cl, ans)
    PROVE  NoLostWakeup'
<1>1. /\ IsFiniteSet(cs) /\ IsFiniteSet(is)
      /\ Cardinality(cs) \in Nat /\ Cardinality(is) \in Nat
      /\ \A c \in is : Cardinality(is \ {c}) = Cardinality(is) - 1
      /\ \A c : c \notin cs => Cardinality(cs \cup {c}) = Cardinality(cs) + 1
  <2>1. /\ IsFiniteSet(cs) /\ IsFiniteSet(is)
        /\ Cardinality(cs) \in Nat /\ Cardinality(is) \in Nat
    BY FiniteLists DEF PoolOK
  <2> QED BY <2>1, FS_AddElement, FS_RemoveElement
<1>2. Len(pendingQueue) \in Nat /\ MaxSize \in Nat /\ ending \in BOOLEAN
  BY SizeAssumption DEF RestOK
<1>3. CASE ending
  BY <1>3 DEF NoLostWakeup
<1>4. CASE /\ ~ending /\ pendingQueue # <<>> /\ (is # {} \/ ~IsFull(cs))
           /\ ServeNext(cs, is, cl, ans)
  <2>1. Len(pendingQueue') = Len(pendingQueue) - 1
    BY <1>4, HeadTailProperties DEF ServeNext, RestOK
  <2>2. \/ Cardinality(clients') = Cardinality(cs) /\ Cardinality(idle') = Cardinality(is) - 1
        \/ Cardinality(clients') = Cardinality(cs) + 1 /\ Cardinality(idle') = Cardinality(is)
    <3>1. \/ \E c \in is : clients' = cs /\ idle' = is \ {c}
          \/ \E c \in Client : cl[c].stage = "none" /\ clients' = cs \cup {c} /\ idle' = is
      BY <1>4 DEF ServeNext, IdleFor
    <3>2. \A c \in Client : cl[c].stage = "none" => c \notin cs
      BY DEF PoolOK, AgreeBut, Open
    <3> QED BY <1>1, <3>1, <3>2
  <2>3. \/ ticks' + 1 >= Len(pendingQueue)
        \/ ticks' + 1 + Cardinality(cs) >= Cardinality(is) + MaxSize
    BY <1>4 DEF Covered
  <2>4. \/ ticks' >= Len(pendingQueue')
        \/ ticks' + Cardinality(clients') >= Cardinality(idle') + MaxSize
    BY <1>1, <1>2, <2>1, <2>2, <2>3
  <2> QED BY <2>4 DEF NoLostWakeup
<1>5. CASE /\ pendingQueue = <<>> \/ (is = {} /\ IsFull(cs))
           /\ clients' = cs /\ idle' = is /\ pendingQueue' = pendingQueue
  <2>1. CASE pendingQueue = <<>>
    <3>1. Len(pendingQueue') = 0
      BY <1>5, <2>1
    <3> QED BY <3>1 DEF NoLostWakeup
  <2>2. CASE is = {} /\ IsFull(cs)
    <3>1. Cardinality(idle') = 0 /\ Cardinality(clients') = Cardinality(cs)
          /\ Cardinality(cs) >= MaxSize
      BY <1>5, <2>2, FS_EmptySet DEF IsFull
    <3>2. ticks' + Cardinality(clients') >= Cardinality(idle') + MaxSize
      BY <1>1, <1>2, <3>1
    <3> QED BY <3>2 DEF NoLostWakeup
  <2> QED BY <1>5, <2>1, <2>2
<1> QED BY <1>3, <1>4, <1>5 DEF PulseQueue, EndOK

LEMMA ReleaseWakes ==
    ASSUME PoolInv, NoLostWakeup, NEW c \in clients, NEW cl, NEW err \in BOOLEAN,
           NEW ans \in SUBSET Request,
           cl \in [Client -> ClientRecord], \A d \in Client \ {c} : cl[d] = client[d],
           cl[c].listeners = 0, cl[c].connTimer = "off",
           DoRelease(clients, idle, cl, c, err, ans), ticks' = ticks, ending' = ending
    PROVE  NoLostWakeup'
<1>1. AgreeBut({c}, clients, idle, cl) /\ RestOK /\ EndOK(clients)
  BY DEF PoolInv, PoolOK, AgreeBut
<1>2. PICK cs2, is2, cl2 :
              /\ PoolOK(cs2, is2, cl2) /\ PulseQueue(cs2, is2, cl2, ans)
              /\ \/ cs2 = clients \ {c} /\ is2 = idle \ {c}
                 \/ cs2 = clients /\ is2 = idle \cup {c}
  BY <1>1, ReleasePulses
<1>3. /\ Cardinality(clients) \in Nat /\ Cardinality(idle) \in Nat
      /\ IsFiniteSet(clients) /\ IsFiniteSet(idle)
      /\ ticks \in Nat /\ MaxSize \in Nat /\ Len(pendingQueue) \in Nat
  BY <1>1, FiniteLists, SizeAssumption DEF RestOK
<1>4. /\ Cardinality(clients \ {c}) = Cardinality(clients) - 1
      /\ Cardinality(idle \ {c}) = IF c \in idle THEN Cardinality(idle) - 1 ELSE Cardinality(idle)
      /\ Cardinality(idle \cup {c}) = IF c \in idle THEN Cardinality(idle) ELSE Cardinality(idle) + 1
  BY <1>3, FS_AddElement, FS_RemoveElement
<1>5. \/ ending \/ ticks >= Len(pendingQueue)
      \/ ticks + Cardinality(clients) >= Cardinality(idle) + MaxSize
  BY DEF NoLostWakeup
<1>6. \/ Cardinality(cs2) = Cardinality(clients) - 1 /\ Cardinality(is2) <= Cardinality(idle)
      \/ Cardinality(cs2) = Cardinality(clients) /\ Cardinality(is2) <= Cardinality(idle) + 1
  <2>1. /\ Cardinality(idle \ {c}) <= Cardinality(idle)
        /\ Cardinality(idle \cup {c}) <= Cardinality(idle) + 1
    BY <1>3, <1>4
  <2> QED BY <1>2, <1>4, <2>1
<1>7. Cardinality(cs2) \in Nat /\ Cardinality(is2) \in Nat
  BY <1>2, FiniteLists DEF PoolOK
<1>8. Covered(ticks' + 1, cs2, is2)
  <2>1. \/ ending \/ ticks + 1 >= Len(pendingQueue)
        \/ ticks + 1 + Cardinality(cs2) >= Cardinality(is2) + MaxSize
    BY <1>3, <1>5, <1>6, <1>7
  <2> QED BY <2>1 DEF Covered
<1>9. EndOK(cs2) /\ ticks' \in Nat
  BY <1>1, <1>2, <1>3 DEF EndOK
<1> QED BY <1>1, <1>2, <1>8, <1>9, PulseWakes

\* Taking one client off the lists outside a pulse leaves the balance as it is,
\* because it is taken off both.
LEMMA DropWakes ==
    ASSUME PoolInv, NoLostWakeup, NEW c \in Client, c \in clients <=> c \in idle,
           clients' = clients \ {c}, idle' = idle \ {c},
           pendingQueue' = pendingQueue, ticks' = ticks, ending' = ending
    PROVE  NoLostWakeup'
<1>1. /\ Cardinality(clients) \in Nat /\ Cardinality(idle) \in Nat
      /\ ticks \in Nat /\ MaxSize \in Nat
      /\ Cardinality(clients') =
            IF c \in clients THEN Cardinality(clients) - 1 ELSE Cardinality(clients)
      /\ Cardinality(idle') = IF c \in idle THEN Cardinality(idle) - 1 ELSE Cardinality(idle)
  <2>1. /\ Cardinality(clients) \in Nat /\ Cardinality(idle) \in Nat
        /\ IsFiniteSet(clients) /\ IsFiniteSet(idle)
        /\ ticks \in Nat /\ MaxSize \in Nat
    BY FiniteLists, SizeAssumption DEF PoolInv, PoolOK, RestOK
  <2> QED BY <2>1, FS_RemoveElement
<1>2. \/ ending \/ ticks >= Len(pendingQueue)
      \/ ticks + Cardinality(clients) >= Cardinality(idle) + MaxSize
  BY DEF NoLostWakeup
<1>3. \/ ending' \/ ticks' >= Len(pendingQueue')
      \/ ticks' + Cardinality(clients') >= Cardinality(idle') + MaxSize
  BY <1>1, <1>2
<1> QED BY <1>3 DEF NoLostWakeup

LEMMA QueuedWakes ==
    ASSUME PoolInv, NoLostWakeup, NEW r \in Request, ConnectQueued(r)
    PROVE  NoLostWakeup'
<1>1. /\ Cardinality(clients) \in Nat /\ Cardinality(idle) \in Nat
      /\ ticks \in Nat /\ MaxSize \in Nat /\ Len(pendingQueue) \in Nat
      /\ Len(pendingQueue') = Len(pendingQueue) + 1
  BY FiniteLists, SizeAssumption DEF PoolInv, PoolOK, RestOK, ConnectQueued
<1>2. \/ ticks >= Len(pendingQueue)
      \/ ticks + Cardinality(clients) >= Cardinality(idle) + MaxSize
  BY DEF NoLostWakeup, ConnectQueued
<1>3. clients' = clients /\ idle' = idle
  BY DEF ConnectQueued
<1>4. CASE idle # {}
  <2>1. ticks' = ticks + 1
    BY <1>4 DEF ConnectQueued
  <2>2. \/ ticks' >= Len(pendingQueue')
        \/ ticks' + Cardinality(clients') >= Cardinality(idle') + MaxSize
    BY <1>1, <1>2, <1>3, <2>1
  <2> QED BY <2>2 DEF NoLostWakeup
<1>5. CASE idle = {}
  <2>1. ticks' = ticks /\ Cardinality(clients) >= MaxSize /\ Cardinality(idle) = 0
    BY <1>5, FS_EmptySet DEF ConnectQueued, IsFull
  <2>2. ticks' + Cardinality(clients') >= Cardinality(idle') + MaxSize
    BY <1>1, <1>3, <2>1
  <2> QED BY <2>2 DEF NoLostWakeup
<1> QED BY <1>4, <1>5

LEMMA NewWakes ==
    ASSUME PoolInv, NoLostWakeup, NEW r \in Request, ConnectNew(r)
    PROVE  NoLostWakeup'
<1>1. PICK c \in Client : client[c].stage = "none" /\ clients' = clients \cup {c}
  BY DEF ConnectNew
<1>2. /\ Cardinality(clients) \in Nat /\ Cardinality(idle) \in Nat /\ IsFiniteSet(clients)
      /\ ticks \in Nat /\ MaxSize \in Nat
  BY FiniteLists, SizeAssumption DEF PoolInv, PoolOK, RestOK
<1>3. c \notin clients
  BY <1>1 DEF PoolInv, PoolOK, AgreeBut, Open
<1>4. Cardinality(clients') = Cardinality(clients) + 1
  BY <1>1, <1>2, <1>3, FS_AddElement
<1>5. idle' = idle /\ ticks' = ticks /\ pendingQueue' = pendingQueue
  BY DEF ConnectNew
<1>6. \/ ticks >= Len(pendingQueue)
      \/ ticks + Cardinality(clients) >= Cardinality(idle) + MaxSize
  BY DEF NoLostWakeup, ConnectNew
<1>7. \/ ticks' >= Len(pendingQueue')
      \/ ticks' + Cardinality(clients') >= Cardinality(idle') + MaxSize
  BY <1>2, <1>4, <1>5, <1>6
<1> QED BY <1>7 DEF NoLostWakeup

LEMMA ReqTimeoutWakes ==
    ASSUME PoolInv, NoLostWakeup, NEW r \in Request, ReqTimeoutFires(r)
    PROVE  NoLostWakeup'
<1>1. Len(pendingQueue) \in Nat /\ ticks \in Nat
  BY DEF PoolInv, RestOK
<1>2. pendingQueue' = pendingQueue \/ Len(pendingQueue') = Len(pendingQueue) - 1
  BY RemoveAtType DEF ReqTimeoutFires, PoolInv, RestOK
<1>3. ticks >= Len(pendingQueue) => ticks >= Len(pendingQueue')
  BY <1>1, <1>2
<1>4. UNCHANGED <<clients, idle, ticks, ending>>
  BY DEF ReqTimeoutFires, endVars
<1> QED BY <1>3, <1>4 DEF NoLostWakeup

LEMMA TickWakes == ASSUME PoolInv, NoLostWakeup, RunTick PROVE NoLostWakeup'
<1>1. ticks' \in Nat /\ ticks' + 1 = ticks /\ ending' = ending
  BY DEF RunTick, RestOK, PoolInv
<1>2. Covered(ticks' + 1, clients, idle)
  BY <1>1 DEF NoLostWakeup, Covered
<1>3. PulseQueue(clients, idle, client, {})
  BY DEF RunTick
<1> QED BY <1>1, <1>2, <1>3, PulseWakes DEF PoolInv

LEMMA AgainWakes ==
    ASSUME PoolInv, NoLostWakeup, NEW c \in Client, ConnectFailsAgain(c)
    PROVE  NoLostWakeup'
<1> DEFINE ans == {client[c].req} \ timedOut
<1>1. /\ PoolOK(clients, idle, FailedAgain(client, c)) /\ RestOK /\ EndOK(clients)
      /\ PulseQueue(clients, idle, FailedAgain(client, c), ans)
      /\ ticks' = ticks /\ ending' = ending /\ ticks' \in Nat
  BY AgainPool DEF PoolInv, RestOK, ConnectFailsAgain
<1> HIDE DEF ans
<1>2. /\ Cardinality(clients) \in Nat /\ Cardinality(idle) \in Nat
      /\ ticks \in Nat /\ MaxSize \in Nat /\ Len(pendingQueue) \in Nat
  BY FiniteLists, SizeAssumption DEF PoolInv, PoolOK, RestOK
<1>3. Covered(ticks' + 1, clients, idle)
  BY <1>1, <1>2 DEF NoLostWakeup, Covered
<1> QED BY <1>1, <1>3, PulseWakes

LEMMA LoopWakes ==
    ASSUME PoolInv, NoLostWakeup, NEW c \in Client,
           Connected(c) \/ ConnectFailed(c) \/ (\E ok \in BOOLEAN : VerifyDone(c, ok))
    PROVE  NoLostWakeup'
<1>1. client \in [Client -> ClientRecord] /\ RestOK /\ EndOK(clients)
  BY DEF PoolInv, PoolOK, AgreeBut
<1>3. CASE ConnectFailed(c)
  <2>1. /\ PoolOK(clients \ {c}, idle, Failed(client, c)) /\ EndOK(clients \ {c})
    BY <1>3, FailedPool
  <2>2. PulseQueue(clients \ {c}, idle, Failed(client, c), {client[c].req} \ timedOut)
        /\ ticks' = ticks /\ ending' = ending
    BY <1>3 DEF ConnectFailed
  <2>3. /\ Cardinality(clients) \in Nat /\ Cardinality(idle) \in Nat /\ IsFiniteSet(clients)
        /\ ticks \in Nat /\ MaxSize \in Nat /\ Len(pendingQueue) \in Nat
    BY <1>1, FiniteLists, SizeAssumption DEF PoolInv, PoolOK, RestOK
  <2>4. Cardinality(clients \ {c}) = Cardinality(clients) - 1
    BY <1>3, <2>3, BusyClient, FS_RemoveElement DEF ConnectFailed
  <2>5. \/ ending \/ ticks >= Len(pendingQueue)
        \/ ticks + Cardinality(clients) >= Cardinality(idle) + MaxSize
    BY DEF NoLostWakeup
  <2>6. Covered(ticks' + 1, clients \ {c}, idle)
    <3>1. \/ ending \/ ticks + 1 >= Len(pendingQueue)
          \/ ticks + 1 + Cardinality(clients \ {c}) >= Cardinality(idle) + MaxSize
      BY <2>3, <2>4, <2>5
    <3> QED BY <2>2, <3>1 DEF Covered
  <2> QED BY <1>1, <2>1, <2>2, <2>3, <2>6, PulseWakes
<1>4. CASE Connected(c)
  <2>1. /\ c \in clients /\ client[c] \in ClientRecord /\ client[c].listeners = 0
    BY <1>4, BusyClient DEF Connected
  <2>2. ticks' = ticks /\ ending' = ending
    BY <1>4 DEF Connected
  <2>3. CASE UNCHANGED <<clients, idle, pendingQueue>>
    BY <2>2, <2>3 DEF NoLostWakeup
  <2>4. CASE \E h \in Host \cup {NoHost} :
                DoRelease(clients, idle, Opened(client, c, h), c, FALSE, {})
    <3>1. PICK h \in Host \cup {NoHost} :
             DoRelease(clients, idle, Opened(client, c, h), c, FALSE, {})
      BY <2>4
    <3> DEFINE y == [client[c] EXCEPT !.host = h, !.connTimer = "off", !.lifeTimer = Lifetime]
               cl == Opened(client, c, h)
               err == FALSE
               ans == {}
    <3>2. y \in ClientRecord /\ y.listeners = 0 /\ y.connTimer = "off"
      BY <2>1, OpenedRecord
    <3> HIDE DEF y
    <3>3. cl = [client EXCEPT ![c] = y]
      BY DEF Opened, y
    <3>4. cl \in [Client -> ClientRecord] /\ cl[c] = y /\ \A d \in Client \ {c} : cl[d] = client[d]
      BY <1>1, <3>2, <3>3
    <3>5. err \in BOOLEAN /\ ans \in SUBSET Request /\ DoRelease(clients, idle, cl, c, err, ans)
      BY <3>1
    <3> HIDE DEF cl, err, ans
    <3> QED BY <2>1, <2>2, <3>2, <3>4, <3>5, ReleaseWakes
  <2>5. client[c].host \in Host \cup {NoHost}
    BY <2>1 DEF ClientRecord
  <2> QED BY <1>4, <2>3, <2>4, <2>5 DEF Connected
<1>5. CASE \E ok \in BOOLEAN : VerifyDone(c, ok)
  <2>1. PICK ok \in BOOLEAN : VerifyDone(c, ok)
    BY <1>5
  <2>2. /\ c \in clients /\ client[c] \in ClientRecord /\ client[c].listeners = 0
        /\ client[c].connTimer = "off"
    BY <2>1, BusyClient DEF VerifyDone
  <2>3. ticks' = ticks /\ ending' = ending
    BY <2>1 DEF VerifyDone
  <2>4. CASE UNCHANGED <<clients, idle, pendingQueue>>
    BY <2>3, <2>4 DEF NoLostWakeup
  <2> DEFINE ans == {client[c].req} \ {NoRequest}
             err == ~ok
  <2>5. CASE DoRelease(clients, idle, client, c, err, ans)
    <3>1. ans \in SUBSET Request /\ err \in BOOLEAN
      BY <2>2 DEF ClientRecord
    <3> HIDE DEF ans, err
    <3> QED BY <1>1, <2>2, <2>3, <2>5, <3>1, ReleaseWakes
  <2> QED BY <2>1, <2>4, <2>5 DEF VerifyDone
<1> QED BY <1>3, <1>4, <1>5

LEMMA ReleasingWakes ==
    ASSUME PoolInv, NoLostWakeup, NEW c \in Client, NEW err \in BOOLEAN, Release(c, err)
    PROVE  NoLostWakeup'
<1>1. /\ c \in clients /\ client[c].listeners = 0 /\ client[c].connTimer = "off"
      /\ client \in [Client -> ClientRecord]
  BY BusyClient DEF Release, PoolInv, PoolOK, AgreeBut
<1> DEFINE ans == {}
<1>2. ans \in SUBSET Request /\ DoRelease(clients, idle, client, c, err, ans)
      /\ ticks' = ticks /\ ending' = ending
  BY DEF Release
<1> HIDE DEF ans
<1> QED BY <1>1, <1>2, ReleaseWakes

LEMMA LifetimeWakes ==
    ASSUME PoolInv, NoLostWakeup, NEW c \in Client, LifetimeFires(c)
    PROVE  NoLostWakeup'
<1>1. ticks' = ticks /\ ending' = ending
  BY DEF LifetimeFires
<1>2. CASE c \in idle
  <2> DEFINE cl == Unheard(Marked(client, c), c)
             err == FALSE
             ans == {}
  <2>1. /\ cl \in [Client -> ClientRecord] /\ \A d \in Client \ {c} : cl[d] = client[d]
        /\ cl[c].listeners = 0 /\ cl[c].connTimer = "off" /\ c \in clients
    BY <1>2, ExpiredPool
  <2>2. err \in BOOLEAN /\ ans \in SUBSET Request /\ DoRelease(clients, idle, cl, c, err, ans)
    BY <1>2 DEF LifetimeFires
  <2> HIDE DEF cl, err, ans
  <2> QED BY <1>1, <2>1, <2>2, ReleaseWakes
<1>3. CASE c \notin idle
  BY <1>1, <1>3 DEF LifetimeFires, NoLostWakeup
<1> QED BY <1>2, <1>3

\* In every reachable state each idle client and each free place that a queued
\* request could use is matched by a scheduled pulse: no order of releases,
\* failures, timers and errors makes a request wait for what is there.
THEOREM WakeupsNotLost == Spec => []NoLostWakeup
<1>1. Init => NoLostWakeup
  BY DEF Init, NoLostWakeup
<1>2. PoolInv /\ NoLostWakeup /\ [Next]_vars => NoLostWakeup'
  <2> SUFFICES ASSUME PoolInv, NoLostWakeup, [Next]_vars PROVE NoLostWakeup'
    OBVIOUS
  <2>1. ASSUME NEW r \in Request, ConnectRefused(r) PROVE NoLostWakeup'
    BY <2>1 DEF ConnectRefused, poolVars, endVars, NoLostWakeup
  <2>2. ASSUME NEW r \in Request, ConnectQueued(r) PROVE NoLostWakeup'
    BY <2>2, QueuedWakes
  <2>3. ASSUME NEW r \in Request, ConnectNew(r) PROVE NoLostWakeup'
    BY <2>3, NewWakes
  <2>4. ASSUME NEW r \in Request, ReqTimeoutFires(r) PROVE NoLostWakeup'
    BY <2>4, ReqTimeoutWakes
  <2>5. ASSUME NEW c \in Client, NEW err \in BOOLEAN, Release(c, err) PROVE NoLostWakeup'
    BY <2>5, ReleasingWakes
  <2>6. ASSUME NEW c \in Client,
               EndedByHolder(c) \/ ConnTimerFires(c) \/ Closed(c) \/ FailedError(c)
        PROVE  NoLostWakeup'
    BY <2>6 DEF EndedByHolder, ConnTimerFires, Closed, FailedError, endVars, NoLostWakeup
  <2>7. ASSUME NEW c \in Client,
               Connected(c) \/ ConnectFailed(c) \/ (\E ok \in BOOLEAN : VerifyDone(c, ok))
        PROVE  NoLostWakeup'
    BY <2>7, LoopWakes
  <2>8. ASSUME NEW c \in Client, IdleTimeoutFires(c) PROVE NoLostWakeup'
    <3>1. c \in clients <=> c \in idle
      BY <2>8 DEF IdleTimeoutFires, PoolInv, PoolOK, AgreeBut, RecordOK, Open
    <3> QED BY <2>8, <3>1, DropWakes DEF IdleTimeoutFires, endVars
  <2>9. ASSUME NEW c \in Client, ClientError(c) PROVE NoLostWakeup'
    <3>1. client[c].listeners > 0 => (c \in clients <=> c \in idle)
      BY <2>9 DEF ClientError, PoolInv, PoolOK, AgreeBut, RecordOK, Open
    <3>2. CASE client[c].listeners > 0
      BY <2>9, <3>1, <3>2, DropWakes DEF ClientError, endVars
    <3>3. CASE ~(client[c].listeners > 0)
      BY <2>9, <3>3 DEF ClientError, endVars, NoLostWakeup
    <3> QED BY <3>2, <3>3
  <2>10. ASSUME NEW c \in Client, LifetimeFires(c) PROVE NoLostWakeup'
    BY <2>10, LifetimeWakes
  <2>11. CASE End
    BY <2>11 DEF End, NoLostWakeup
  <2>12. CASE RunTick
    BY <2>12, TickWakes
  <2>13. CASE UNCHANGED vars
    BY <2>13 DEF vars, NoLostWakeup
  <2>14. ASSUME NEW c \in Client, ConnectFailsAgain(c) PROVE NoLostWakeup'
    BY <2>14, AgainWakes
  <2> QED BY <2>1, <2>2, <2>3, <2>4, <2>5, <2>6, <2>7, <2>8, <2>9, <2>10, <2>11, <2>12,
             <2>13, <2>14 DEF Next
<1> QED BY <1>1, <1>2, PoolInvariant, PTL DEF Spec
=============================================================================
