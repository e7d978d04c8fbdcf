-------------------------- MODULE PoolOutcomeProofs --------------------------
(***************************************************************************)
(* Theorems about the requests of Pool: each has one outcome, those of     *)
(* pool.query included, and without options.verify the pool keeps the      *)
(* promise of PoolLease.                                                   *)
(*                                                                         *)
(* As in PoolProofs, a handler brings client to a value cl and owes        *)
(* answers before it ends with a pulse, so the inductive part is stated of *)
(* such values.  It speaks of the request and the stage of each client     *)
(* only, and of the queue by what it contains.                             *)
(***************************************************************************)
EXTENDS PoolProofs, PoolImplements, PoolQuery

Distinct(s) == \A i, j \in 1..Len(s) : s[i] = s[j] => i = j

\* The queue is the queue rest with request r in some place.
Splits(queue, r, rest) ==
    /\ Distinct(rest) /\ ~Contains(rest, r)
    /\ \A x : Contains(queue, x) <=> x = r \/ Contains(rest, x)

\* The answers a request has had when its checkout timer alone has answered.
Times(late, r) == IF r \in late THEN 1 ELSE 0

\* What a client that works for a request says of its answers.
WorkOK(x, late, count) ==
    /\ x.stage \in {"connecting", "verifying", "out", "failed", "refailed"}
    /\ x.stage = "connecting" => count[x.req] = Times(late, x.req)
    /\ x.stage = "verifying" => Verify /\ count[x.req] = Times(late, x.req)
    /\ x.stage = "out" => count[x.req] # 0 /\ (x.req \in late => Verify)
    /\ x.stage = "failed" => count[x.req] = 1
    /\ x.stage = "refailed" => count[x.req] \in {1, 2}

WorksAlone(cl, c, queue, as, late, count) ==
    /\ cl[c].req \in as /\ WorkOK(cl[c], late, count)
    /\ \A d \in Client : cl[d].req = cl[c].req => d = c
    /\ ~Contains(queue, cl[c].req)

ClientsOK(cl, queue, as, late, count) ==
    \A c \in Client : cl[c].req # NoRequest => WorksAlone(cl, c, queue, as, late, count)

\* Request r has had one answer at most, or two of a connection that failed twice.
Answered(cl, r, late, count) ==
    \/ count[r] \in {0, 1}
    \/ Verify /\ r \in late
    \/ count[r] = 2 /\ \E c \in Client : cl[c].req = r /\ cl[c].stage = "refailed"

RequestsOK(cl, queue, as, late, count, timers) ==
    /\ \A r : Contains(queue, r) => r \in as /\ count[r] = 0
    /\ \A r \in as : count[r] = 0 => Contains(queue, r) \/ \E c \in Client : cl[c].req = r
    /\ \A r \in Request \ as : count[r] = 0
    /\ \A r \in Request : Answered(cl, r, late, count)
    /\ \A r \in late : r \in as /\ count[r] # 0
    /\ \A r \in timers : r \in as /\ count[r] = 0

\* The inductive part: clients cl, the queue, the requests asked and timed out,
\* how often each was called back (count), and the checkout timers armed.
Outcomes(cl, queue, as, late, count, timers) ==
    /\ Distinct(queue)
    /\ ClientsOK(cl, queue, as, late, count)
    /\ RequestsOK(cl, queue, as, late, count, timers)

\* What a handler has told when it has answered the requests of R.
Told(R) == [r \in Request |-> IF r \in R THEN calls[r] + 1 ELSE calls[r]]

OutcomeInv == Outcomes(client, pendingQueue, asked, timedOut, calls, reqTimer)

-----------------------------------------------------------------------------
\* The queue.

LEMMA TailQueue ==
    ASSUME NEW S, NEW q \in Seq(S), q # <<>>, Distinct(q)
    PROVE  /\ Distinct(Tail(q)) /\ ~Contains(Tail(q), Head(q)) /\ Contains(q, Head(q))
           /\ \A x : Contains(q, x) <=> x = Head(q) \/ Contains(Tail(q), x)
<1>1. /\ Len(q) \in Nat /\ Len(q) > 0 /\ Head(q) = q[1]
      /\ Len(Tail(q)) = Len(q) - 1 /\ \A i \in 1..Len(Tail(q)) : Tail(q)[i] = q[i + 1]
  BY HeadTailProperties, EmptySeq
<1>2. Distinct(Tail(q))
  BY <1>1 DEF Distinct
<1>3. ~Contains(Tail(q), Head(q)) /\ Contains(q, Head(q))
  BY <1>1 DEF Distinct, Contains
<1>4. ASSUME NEW x PROVE Contains(q, x) <=> x = Head(q) \/ Contains(Tail(q), x)
  <2>1. ASSUME NEW i \in 1..Len(q), q[i] = x PROVE x = Head(q) \/ Contains(Tail(q), x)
    <3>1. CASE i = 1
      BY <1>1, <2>1, <3>1
    <3>2. CASE i > 1
      <4>1. i - 1 \in 1..Len(Tail(q)) /\ Tail(q)[i - 1] = q[i]
        BY <1>1, <3>2
      <4> QED BY <2>1, <4>1 DEF Contains
    <3> QED BY <3>1, <3>2
  <2>2. ASSUME NEW i \in 1..Len(Tail(q)), Tail(q)[i] = x PROVE Contains(q, x)
    <3>1. i + 1 \in 1..Len(q) /\ q[i + 1] = x
      BY <1>1, <2>2
    <3> QED BY <3>1 DEF Contains
  <2> QED BY <1>3, <2>1, <2>2 DEF Contains
<1> QED BY <1>2, <1>3, <1>4

LEMMA AppendQueue ==
    ASSUME NEW S, NEW q \in Seq(S), NEW y \in S, Distinct(q), ~Contains(q, y)
    PROVE  /\ Distinct(Append(q, y))
           /\ \A x : Contains(Append(q, y), x) <=> Contains(q, x) \/ x = y
<1>1. /\ Len(q) \in Nat /\ Len(Append(q, y)) = Len(q) + 1
      /\ \A i \in 1..Len(q) : Append(q, y)[i] = q[i]
      /\ Append(q, y)[Len(q) + 1] = y
  BY AppendProperties
<1>2. Distinct(Append(q, y))
  <2> DEFINE n == Len(q) + 1
             a == Append(q, y)
  <2>1. ASSUME NEW i \in 1..Len(a), NEW j \in 1..Len(a), a[i] = a[j] PROVE i = j
    <3>1. (i \in 1..Len(q) \/ i = n) /\ (j \in 1..Len(q) \/ j = n)
      BY <1>1
    <3> QED BY <1>1, <2>1, <3>1 DEF Distinct, Contains
  <2> QED BY <2>1 DEF Distinct
<1>3. ASSUME NEW x PROVE Contains(Append(q, y), x) <=> Contains(q, x) \/ x = y
  <2>1. ASSUME NEW i \in 1..Len(Append(q, y)), Append(q, y)[i] = x
        PROVE  Contains(q, x) \/ x = y
    <3>1. i \in 1..Len(q) \/ i = Len(q) + 1
      BY <1>1
    <3> QED BY <1>1, <2>1, <3>1 DEF Contains
  <2>2. ASSUME NEW i \in 1..Len(q), q[i] = x PROVE Contains(Append(q, y), x)
    <3>1. i \in 1..Len(Append(q, y)) /\ Append(q, y)[i] = x
      BY <1>1, <2>2
    <3> QED BY <3>1 DEF Contains
  <2>3. Contains(Append(q, y), y)
    <3>1. Len(q) + 1 \in 1..Len(Append(q, y))
      BY <1>1
    <3> QED BY <1>1, <3>1 DEF Contains
  <2> QED BY <2>1, <2>2, <2>3 DEF Contains
<1> QED BY <1>2, <1>3

LEMMA RemoveAtQueue ==
    ASSUME NEW S, NEW q \in Seq(S), NEW k \in 1..Len(q), Distinct(q)
    PROVE  /\ Distinct(RemoveAt(q, k))
           /\ \A x : Contains(RemoveAt(q, k), x) <=> Contains(q, x) /\ x # q[k]
<1> DEFINE t == RemoveAt(q, k)
           from(i) == IF i < k THEN i ELSE i + 1
<1>1. Len(q) \in Nat /\ Len(t) = Len(q) - 1
  BY RemoveAtType
<1>2. \A i \in 1..Len(t) : t[i] = q[from(i)] /\ from(i) \in 1..Len(q) /\ from(i) # k
  <2>1. k - 1 \in Int /\ k + 1 \in Int /\ Len(q) \in Int
    BY <1>1
  <2>2. \A i \in 1..(k - 1) : q[i] \in S
    BY <1>1, ElementOfSeq
  <2>3. \A i \in (k + 1)..Len(q) : q[i] \in S
    BY <1>1, ElementOfSeq
  <2> DEFINE a == SubSeq(q, 1, k - 1)
             b == SubSeq(q, k + 1, Len(q))
  <2>4. a \in Seq(S) /\ Len(a) = k - 1 /\ \A i \in 1..(k - 1) : a[i] = q[i]
    BY <1>1, <2>1, <2>2, SubSeqProperties
  <2>5. b \in Seq(S) /\ Len(b) = Len(q) - k /\ \A i \in 1..(Len(q) - k) : b[i] = q[k + i]
    BY <1>1, <2>1, <2>3, SubSeqProperties
  <2>6. t = a \o b
    BY DEF RemoveAt
  <2> HIDE DEF a, b, t
  <2>7. \A i \in 1..(Len(a) + Len(b)) : t[i] = IF i <= Len(a) THEN a[i] ELSE b[i - Len(a)]
    BY <2>4, <2>5, <2>6, ConcatProperties
  <2>8. ASSUME NEW i \in 1..Len(t) PROVE t[i] = q[from(i)]
    <3>1. i \in 1..(Len(a) + Len(b))
      BY <1>1, <2>4, <2>5
    <3>2. CASE i < k
      BY <2>4, <2>7, <3>1, <3>2
    <3>3. CASE ~(i < k)
      <4>1. i - (k - 1) \in 1..(Len(q) - k) /\ k + (i - (k - 1)) = i + 1
        BY <1>1, <3>3
      <4>2. t[i] = b[i - (k - 1)]
        BY <2>4, <2>7, <3>1, <3>3
      <4> QED BY <2>5, <3>3, <4>1, <4>2
    <3> QED BY <3>2, <3>3
  <2> QED BY <1>1, <2>8
<1> HIDE DEF t
<1>3. Distinct(t)
  BY <1>1, <1>2 DEF Distinct
<1>4. ASSUME NEW x PROVE Contains(t, x) <=> Contains(q, x) /\ x # q[k]
  <2>1. ASSUME NEW i \in 1..Len(t), t[i] = x PROVE Contains(q, x) /\ x # q[k]
    BY <1>1, <1>2, <2>1 DEF Distinct, Contains
  <2>2. ASSUME NEW i \in 1..Len(q), q[i] = x, x # q[k] PROVE Contains(t, x)
    <3> DEFINE j == IF i < k THEN i ELSE i - 1
    <3>1. j \in 1..Len(t) /\ from(j) = i
      BY <1>1, <2>2
    <3>2. t[j] = x
      BY <1>2, <2>2, <3>1
    <3> QED BY <3>1, <3>2 DEF Contains
  <2> QED BY <2>1, <2>2 DEF Contains
<1> QED BY <1>3, <1>4 DEF t

-----------------------------------------------------------------------------
\* What becomes of the requests when a handler changes one client.

\* Nothing, when no client changes its request or its stage for one.
LEMMA SameWork ==
    ASSUME NEW cl, NEW cl2, NEW queue, NEW as, NEW late, NEW count, NEW timers,
           Outcomes(cl, queue, as, late, count, timers),
           \A c \in Client : /\ cl2[c].req = cl[c].req
                             /\ cl[c].req # NoRequest => cl2[c].stage = cl[c].stage
    PROVE  Outcomes(cl2, queue, as, late, count, timers)
<1>1. ASSUME NEW c \in Client, cl2[c].req # NoRequest
      PROVE  WorksAlone(cl2, c, queue, as, late, count)
  <2>1. cl2[c].req = cl[c].req /\ cl2[c].stage = cl[c].stage
    BY <1>1
  <2>2. WorksAlone(cl, c, queue, as, late, count)
    BY <1>1, <2>1 DEF Outcomes, ClientsOK
  <2>3. WorkOK(cl2[c], late, count)
    BY <2>1, <2>2 DEF WorksAlone, WorkOK
  <2>4. \A d \in Client : cl2[d].req = cl2[c].req => d = c
    BY <2>1, <2>2 DEF WorksAlone
  <2> QED BY <2>1, <2>2, <2>3, <2>4 DEF WorksAlone
<1>2. ASSUME NEW q \in Request PROVE Answered(cl2, q, late, count)
  <2>1. Answered(cl, q, late, count)
    BY DEF Outcomes, RequestsOK
  <2> QED BY <2>1, NullAssumption DEF Answered
<1>3. RequestsOK(cl2, queue, as, late, count, timers)
  BY <1>2 DEF Outcomes, RequestsOK
<1> QED BY <1>1, <1>3 DEF Outcomes, ClientsOK

\* Only the request of client c, if it has one, may be told more.
OthersTold(r, count, count2, timers, timers2) ==
    /\ \A q \in Request \ {r} : count2[q] = count[q]
    /\ r # NoRequest => (count[r] # 0 => count2[r] # 0)
    /\ \A q \in timers2 : q \in timers /\ count2[q] = 0

\* So told, it has had one answer.
OnlyTold(r, late, count, count2, timers, timers2) ==
    /\ OthersTold(r, count, count2, timers, timers2)
    /\ r # NoRequest => count2[r] \in {0, 1} \/ (Verify /\ r \in late)

\* Client c is done with its request, which is told.
LEMMA DoneWork ==
    ASSUME NEW cl, NEW cl2, NEW queue, NEW as \in SUBSET Request, NEW late, NEW count, NEW count2,
           NEW timers, NEW timers2, NEW c \in Client,
           Outcomes(cl, queue, as, late, count, timers),
           OnlyTold(cl[c].req, late, count, count2, timers, timers2),
           cl[c].req # NoRequest => count2[cl[c].req] # 0,
           cl2[c].req = NoRequest,
           \A d \in Client \ {c} : cl2[d] = cl[d]
    PROVE  Outcomes(cl2, queue, as, late, count2, timers2)
<1> DEFINE r == cl[c].req
<1>1. ASSUME NEW d \in Client, cl2[d].req # NoRequest
      PROVE  WorksAlone(cl2, d, queue, as, late, count2)
  <2>1. d # c /\ cl2[d] = cl[d]
    BY <1>1
  <2>2. WorksAlone(cl, d, queue, as, late, count)
    BY <1>1, <2>1 DEF Outcomes, ClientsOK
  <2>3. count2[cl[d].req] = count[cl[d].req]
    BY <2>1, <2>2 DEF WorksAlone, OnlyTold, OthersTold
  <2>4. WorkOK(cl2[d], late, count2)
    BY <2>1, <2>2, <2>3 DEF WorksAlone, WorkOK
  <2>5. \A e \in Client : cl2[e].req = cl2[d].req => e = d
    BY <1>1, <2>1, <2>2 DEF WorksAlone
  <2> QED BY <2>1, <2>2, <2>4, <2>5 DEF WorksAlone
<1>2. ClientsOK(cl2, queue, as, late, count2)
  BY <1>1 DEF ClientsOK
<1>3. RequestsOK(cl2, queue, as, late, count2, timers2)
  <2>1. ASSUME NEW q, Contains(queue, q) PROVE q \in as /\ count2[q] = 0
    <3>1. q \in as /\ count[q] = 0 /\ q # r
      BY <2>1, NullAssumption DEF Outcomes, ClientsOK, WorksAlone, RequestsOK
    <3> QED BY <3>1 DEF OnlyTold, OthersTold
  <2>2. ASSUME NEW q \in as, count2[q] = 0
        PROVE  Contains(queue, q) \/ \E d \in Client : cl2[d].req = q
    <3>1. q # r /\ count[q] = 0 /\ q # NoRequest
      BY <2>2, NullAssumption DEF OnlyTold, OthersTold
    <3>2. Contains(queue, q) \/ \E d \in Client : cl[d].req = q
      BY <3>1 DEF Outcomes, RequestsOK
    <3> QED BY <3>1, <3>2
  <2>3. r # NoRequest => r \in as
    BY DEF Outcomes, ClientsOK, WorksAlone
  <2>4. ASSUME NEW q \in Request \ as PROVE count2[q] = 0
    <3>1. q # r /\ count[q] = 0
      BY <2>3, NullAssumption DEF Outcomes, RequestsOK
    <3> QED BY <3>1 DEF OnlyTold, OthersTold
  <2>5. ASSUME NEW q \in Request PROVE Answered(cl2, q, late, count2)
    <3>1. CASE q = r
      BY <3>1, NullAssumption DEF OnlyTold, Answered
    <3>2. CASE q # r
      <4>1. Answered(cl, q, late, count) /\ count2[q] = count[q]
        BY <3>2 DEF Outcomes, RequestsOK, OnlyTold, OthersTold
      <4> QED BY <3>2, <4>1 DEF Answered
    <3> QED BY <3>1, <3>2
  <2>6. \A q \in late : q \in as /\ count2[q] # 0
    BY NullAssumption DEF Outcomes, RequestsOK, OnlyTold, OthersTold
  <2>7. \A q \in timers2 : q \in as /\ count2[q] = 0
    BY DEF Outcomes, RequestsOK, OnlyTold, OthersTold
  <2> QED BY <2>1, <2>2, <2>4, <2>5, <2>6, <2>7 DEF RequestsOK
<1> QED BY <1>2, <1>3 DEF Outcomes

Hands(cl, cl2, c, late, count2) ==
    /\ cl[c].req # NoRequest /\ cl2[c].req = cl[c].req /\ WorkOK(cl2[c], late, count2)
    /\ \A d \in Client \ {c} : cl2[d] = cl[d]

\* Client c goes on for the same request, which may be told.
LEMMA HandOn ==
    ASSUME NEW cl, NEW cl2, NEW queue, NEW as \in SUBSET Request, NEW late, NEW count, NEW count2,
           NEW timers, NEW timers2, NEW c \in Client,
           Outcomes(cl, queue, as, late, count, timers),
           OthersTold(cl[c].req, count, count2, timers, timers2),
           Answered(cl2, cl[c].req, late, count2), Hands(cl, cl2, c, late, count2)
    PROVE  Outcomes(cl2, queue, as, late, count2, timers2)
<1> DEFINE r == cl[c].req
<1> USE DEF Hands
<1>1. ASSUME NEW d \in Client, cl2[d].req # NoRequest
      PROVE  WorksAlone(cl2, d, queue, as, late, count2)
  <2>1. cl2[d].req = cl[d].req
    OBVIOUS
  <2>2. WorksAlone(cl, d, queue, as, late, count)
    BY <1>1, <2>1 DEF Outcomes, ClientsOK
  <2>3. WorkOK(cl2[d], late, count2)
    <3>1. CASE d = c
      BY <3>1
    <3>2. CASE d # c
      <4>1. cl2[d] = cl[d] /\ count2[cl[d].req] = count[cl[d].req]
        BY <2>2, <3>2 DEF WorksAlone, OthersTold
      <4> QED BY <2>2, <4>1 DEF WorksAlone, WorkOK
    <3> QED BY <3>1, <3>2
  <2>4. \A e \in Client : cl2[e].req = cl2[d].req => e = d
    <3>1. \A e \in Client : cl2[e].req = cl[e].req
      OBVIOUS
    <3> QED BY <2>2, <3>1 DEF WorksAlone
  <2> QED BY <2>1, <2>2, <2>3, <2>4 DEF WorksAlone
<1>2. ClientsOK(cl2, queue, as, late, count2)
  BY <1>1 DEF ClientsOK
<1>3. RequestsOK(cl2, queue, as, late, count2, timers2)
  <2>1. ASSUME NEW q, Contains(queue, q) PROVE q \in as /\ count2[q] = 0
    <3>1. q \in as /\ count[q] = 0 /\ q # r
      BY <2>1, NullAssumption DEF Outcomes, ClientsOK, WorksAlone, RequestsOK
    <3> QED BY <3>1 DEF OthersTold
  <2>2. r \in as
    BY DEF Outcomes, ClientsOK, WorksAlone
  <2>3. ASSUME NEW q \in as, count2[q] = 0
        PROVE  Contains(queue, q) \/ \E d \in Client : cl2[d].req = q
    <3>1. CASE q = r
      BY <3>1
    <3>2. CASE q # r
      <4>1. count[q] = 0
        BY <2>3, <3>2 DEF OthersTold
      <4>2. Contains(queue, q) \/ \E d \in Client : cl[d].req = q
        BY <4>1 DEF Outcomes, RequestsOK
      <4> QED BY <3>2, <4>2
    <3> QED BY <3>1, <3>2
  <2>4. \A q \in Request \ as : count2[q] = 0
    BY <2>2 DEF Outcomes, RequestsOK, OthersTold
  <2>5. ASSUME NEW q \in Request PROVE Answered(cl2, q, late, count2)
    <3>1. CASE q = r
      BY <3>1
    <3>2. CASE q # r
      <4>1. Answered(cl, q, late, count) /\ count2[q] = count[q]
        BY <3>2 DEF Outcomes, RequestsOK, OthersTold
      <4> QED BY <3>2, <4>1 DEF Answered
    <3> QED BY <3>1, <3>2
  <2>6. \A q \in late : q \in as /\ count2[q] # 0
    BY <2>2 DEF Outcomes, RequestsOK, OthersTold
  <2>7. \A q \in timers2 : q \in as /\ count2[q] = 0
    BY DEF Outcomes, RequestsOK, OthersTold
  <2> QED BY <2>1, <2>3, <2>4, <2>5, <2>6, <2>7 DEF RequestsOK
<1> QED BY <1>2, <1>3 DEF Outcomes

LEMMA HandWork ==
    ASSUME NEW cl, NEW cl2, NEW queue, NEW as \in SUBSET Request, NEW late, NEW count, NEW count2,
           NEW timers, NEW timers2, NEW c \in Client,
           Outcomes(cl, queue, as, late, count, timers),
           OnlyTold(cl[c].req, late, count, count2, timers, timers2),
           Hands(cl, cl2, c, late, count2)
    PROVE  Outcomes(cl2, queue, as, late, count2, timers2)
<1>1. /\ OthersTold(cl[c].req, count, count2, timers, timers2)
      /\ Answered(cl2, cl[c].req, late, count2)
  BY DEF OnlyTold, Answered, Hands
<1> QED BY <1>1, HandOn

Hires(cl, cl2, c, r, late, count2) ==
    /\ cl[c].req = NoRequest /\ cl2[c].req = r /\ WorkOK(cl2[c], late, count2)
    /\ \A d \in Client \ {c} : cl2[d] = cl[d]

\* Client c, which has no request, is lent to request r of the queue or connects
\* for it; the queue that is left is rest.
LEMMA TakeWork ==
    ASSUME NEW cl, NEW cl2, NEW queue, NEW rest, NEW as \in SUBSET Request, NEW late,
           NEW count, NEW count2, NEW timers, NEW timers2, NEW c \in Client, NEW r \in Request,
           Outcomes(cl, queue, as, late, count, timers),
           OnlyTold(r, late, count, count2, timers, timers2),
           Splits(queue, r, rest), Hires(cl, cl2, c, r, late, count2)
    PROVE  Outcomes(cl2, rest, as, late, count2, timers2)
<1>1. /\ Contains(queue, r) /\ Distinct(rest) /\ ~Contains(rest, r)
      /\ \A x : Contains(queue, x) <=> x = r \/ Contains(rest, x)
  BY DEF Splits
<1>3. /\ cl[c].req = NoRequest /\ cl2[c].req = r /\ WorkOK(cl2[c], late, count2)
      /\ \A d \in Client \ {c} : cl2[d] = cl[d]
  BY DEF Hires
<1>2. r \in as /\ count[r] = 0 /\ r # NoRequest /\ \A d \in Client : cl[d].req # r
  BY <1>1, NullAssumption DEF Outcomes, ClientsOK, WorksAlone, RequestsOK
<1>4. ASSUME NEW d \in Client, cl2[d].req # NoRequest
      PROVE  WorksAlone(cl2, d, rest, as, late, count2)
  <2>1. CASE d = c
    <3>1. \A e \in Client : cl2[e].req = cl2[d].req => e = d
      BY <1>2, <1>3, <2>1
    <3> QED BY <1>1, <1>2, <1>3, <2>1, <3>1 DEF WorksAlone
  <2>2. CASE d # c
    <3>1. cl2[d] = cl[d]
      BY <1>3, <2>2
    <3>2. WorksAlone(cl, d, queue, as, late, count)
      BY <1>4, <3>1 DEF Outcomes, ClientsOK
    <3>3. count2[cl[d].req] = count[cl[d].req] /\ cl[d].req # r
      BY <1>2, <3>2 DEF WorksAlone, OnlyTold, OthersTold
    <3>4. WorkOK(cl2[d], late, count2)
      BY <3>1, <3>2, <3>3 DEF WorksAlone, WorkOK
    <3>5. ~Contains(rest, cl2[d].req)
      BY <1>1, <3>1, <3>2 DEF WorksAlone
    <3>6. \A e \in Client : cl2[e].req = cl2[d].req => e = d
      BY <1>2, <1>3, <3>1, <3>2, <3>3 DEF WorksAlone
    <3> QED BY <3>1, <3>2, <3>4, <3>5, <3>6 DEF WorksAlone
  <2> QED BY <2>1, <2>2
<1>5. RequestsOK(cl2, rest, as, late, count2, timers2)
  <2>1. ASSUME NEW q, Contains(rest, q) PROVE q \in as /\ count2[q] = 0
    <3>1. q \in as /\ count[q] = 0 /\ q # r
      BY <1>1, <2>1 DEF Outcomes, RequestsOK
    <3> QED BY <3>1 DEF OnlyTold, OthersTold
  <2>3. ASSUME NEW q \in as, count2[q] = 0
        PROVE  Contains(rest, q) \/ \E d \in Client : cl2[d].req = q
    <3>1. CASE q = r
      BY <1>3, <3>1
    <3>2. CASE q # r
      <4>1. count[q] = 0 /\ q # NoRequest
        BY <2>3, <3>2, NullAssumption DEF OnlyTold, OthersTold
      <4>2. Contains(queue, q) \/ \E d \in Client : cl[d].req = q
        BY <4>1 DEF Outcomes, RequestsOK
      <4> QED BY <1>1, <1>3, <3>2, <4>1, <4>2
    <3> QED BY <3>1, <3>2
  <2>4. ASSUME NEW q \in Request \ as PROVE count2[q] = 0
    <3>1. q # r /\ count[q] = 0
      BY <1>2 DEF Outcomes, RequestsOK
    <3> QED BY <3>1 DEF OnlyTold, OthersTold
  <2>5. ASSUME NEW q \in Request PROVE Answered(cl2, q, late, count2)
    <3>1. CASE q = r
      BY <1>2, <3>1 DEF OnlyTold, Answered
    <3>2. CASE q # r
      <4>1. Answered(cl, q, late, count) /\ count2[q] = count[q]
        BY <3>2 DEF Outcomes, RequestsOK, OnlyTold, OthersTold
      <4>2. \A d \in Client : cl[d].req = q => cl2[d] = cl[d]
        BY <1>3, NullAssumption
      <4> QED BY <4>1, <4>2 DEF Answered
    <3> QED BY <3>1, <3>2
  <2>6. \A q \in late : q \in as /\ count2[q] # 0
    BY <1>2 DEF Outcomes, RequestsOK, OnlyTold, OthersTold
  <2>7. \A q \in timers2 : q \in as /\ count2[q] = 0
    BY DEF Outcomes, RequestsOK, OnlyTold, OthersTold
  <2> QED BY <2>1, <2>3, <2>4, <2>5, <2>6, <2>7 DEF RequestsOK
<1>6. ClientsOK(cl2, rest, as, late, count2)
  BY <1>4 DEF ClientsOK
<1> QED BY <1>1, <1>5, <1>6 DEF Outcomes

\* Request r is made and joins the queue.
LEMMA AskWork ==
    ASSUME NEW cl, NEW queue, NEW queue2, NEW as \in SUBSET Request, NEW late, NEW count,
           NEW timers, NEW timers2, NEW r \in Request \ as,
           Outcomes(cl, queue, as, late, count, timers),
           Distinct(queue2), \A x : Contains(queue2, x) <=> Contains(queue, x) \/ x = r,
           timers2 \subseteq timers \cup {r}
    PROVE  Outcomes(cl, queue2, as \cup {r}, late, count, timers2)
<1>1. count[r] = 0
  BY DEF Outcomes, RequestsOK
<1>2. ASSUME NEW c \in Client, cl[c].req # NoRequest
      PROVE  WorksAlone(cl, c, queue2, as \cup {r}, late, count)
  <2>1. WorksAlone(cl, c, queue, as, late, count)
    BY <1>2 DEF Outcomes, ClientsOK
  <2>2. cl[c].req # r
    BY <2>1 DEF WorksAlone
  <2> QED BY <2>1, <2>2 DEF WorksAlone
<1>3. RequestsOK(cl, queue2, as \cup {r}, late, count, timers2)
  <2>1. \A q : Contains(queue2, q) => q \in as \cup {r} /\ count[q] = 0
    BY <1>1 DEF Outcomes, RequestsOK
  <2>2. ASSUME NEW q \in as \cup {r}, count[q] = 0
        PROVE  Contains(queue2, q) \/ \E c \in Client : cl[c].req = q
    BY <2>2 DEF Outcomes, RequestsOK
  <2>3. \A q \in timers2 : q \in as \cup {r} /\ count[q] = 0
    BY <1>1 DEF Outcomes, RequestsOK
  <2> QED BY <2>1, <2>2, <2>3 DEF Outcomes, RequestsOK
<1>4. ClientsOK(cl, queue2, as \cup {r}, late, count)
  BY <1>2 DEF ClientsOK
<1> QED BY <1>3, <1>4 DEF Outcomes

\* The checkout timer of request r answers it; queue2 is the queue without it.
LEMMA LateWork ==
    ASSUME NEW cl, NEW queue, NEW queue2, NEW as \in SUBSET Request, NEW late, NEW count,
           NEW count2, NEW timers, NEW timers2, NEW r \in timers,
           Outcomes(cl, queue, as, late, count, timers),
           Distinct(queue2), \A x : Contains(queue2, x) <=> Contains(queue, x) /\ x # r,
           count2[r] = 1, count2[r] # 0, \A q \in Request \ {r} : count2[q] = count[q],
           timers2 = timers \ {r}
    PROVE  Outcomes(cl, queue2, as, late \cup {r}, count2, timers2)
<1>1. r \in as /\ count[r] = 0 /\ r \notin late
  BY DEF Outcomes, RequestsOK
<1>2. ASSUME NEW c \in Client, cl[c].req # NoRequest
      PROVE  WorksAlone(cl, c, queue2, as, late \cup {r}, count2)
  <2>1. WorksAlone(cl, c, queue, as, late, count)
    BY <1>2 DEF Outcomes, ClientsOK
  <2>2. WorkOK(cl[c], late \cup {r}, count2)
    <3>1. CASE cl[c].req = r
      <4>1. Times(late, r) = 0 /\ Times(late \cup {r}, r) = 1
        BY <1>1 DEF Times
      <4>2. cl[c].stage \notin {"out", "failed", "refailed"}
        BY <1>1, <2>1, <3>1 DEF WorksAlone, WorkOK
      <4> QED BY <2>1, <3>1, <4>1, <4>2 DEF WorksAlone, WorkOK
    <3>2. CASE cl[c].req # r
      <4>1. count2[cl[c].req] = count[cl[c].req]
        BY <2>1, <3>2 DEF WorksAlone
      <4> QED BY <2>1, <3>2, <4>1 DEF WorksAlone, WorkOK, Times
    <3> QED BY <3>1, <3>2
  <2> QED BY <2>1, <2>2 DEF WorksAlone
<1>3. RequestsOK(cl, queue2, as, late \cup {r}, count2, timers2)
  <2>1. ASSUME NEW q, Contains(queue2, q) PROVE q \in as /\ count2[q] = 0
    <3>1. q \in as /\ count[q] = 0 /\ q # r
      BY <2>1 DEF Outcomes, RequestsOK
    <3> QED BY <3>1
  <2>2. ASSUME NEW q \in as, count2[q] = 0
        PROVE  Contains(queue2, q) \/ \E c \in Client : cl[c].req = q
    <3>1. q # r /\ count[q] = 0
      <4>1. q # r
        BY <2>2
      <4> QED BY <2>2, <4>1
    <3>2. Contains(queue, q) \/ \E c \in Client : cl[c].req = q
      BY <3>1 DEF Outcomes, RequestsOK
    <3> QED BY <3>1, <3>2
  <2>3. \A q \in Request \ as : count2[q] = 0
    BY <1>1 DEF Outcomes, RequestsOK
  <2>4. ASSUME NEW q \in Request PROVE Answered(cl, q, late \cup {r}, count2)
    <3>1. Answered(cl, q, late, count)
      BY DEF Outcomes, RequestsOK
    <3> QED BY <3>1 DEF Answered
  <2>5. ASSUME NEW q \in late \cup {r} PROVE q \in as /\ count2[q] # 0
    <3>1. CASE q = r
      BY <1>1, <3>1
    <3>2. CASE q # r
      <4>1. q \in as /\ count[q] # 0
        BY <3>2 DEF Outcomes, RequestsOK
      <4> QED BY <3>2, <4>1
    <3> QED BY <3>1, <3>2
  <2>6. \A q \in timers2 : q \in as /\ count2[q] = 0
    BY DEF Outcomes, RequestsOK
  <2> QED BY <2>1, <2>2, <2>3, <2>4, <2>5, <2>6 DEF RequestsOK
<1>4. ClientsOK(cl, queue2, as, late \cup {r}, count2)
  BY <1>2 DEF ClientsOK
<1> QED BY <1>3, <1>4 DEF Outcomes

-----------------------------------------------------------------------------
\* The pulse.

\* Only a client that connects, is verified, is out or has failed has a request.
LEMMA Unemployed ==
    ASSUME NEW cl, NEW queue, NEW as, NEW late, NEW count, NEW timers, NEW c \in Client,
           Outcomes(cl, queue, as, late, count, timers),
           cl[c].stage \notin {"connecting", "verifying", "out", "failed", "refailed"}
    PROVE  cl[c].req = NoRequest
  BY DEF Outcomes, ClientsOK, WorksAlone, WorkOK

\* _remove of clients without a request.
LEMMA RemovedOutcome ==
    ASSUME NEW cl \in [Client -> ClientRecord], NEW S, NEW queue, NEW as, NEW late, NEW count,
           NEW timers, Outcomes(cl, queue, as, late, count, timers),
           \A c \in Client : c \in S => cl[c].req = NoRequest
    PROVE  Outcomes(Removed(cl, S), queue, as, late, count, timers)
<1> DEFINE cl2 == Removed(cl, S)
<1>1. ASSUME NEW c \in Client
      PROVE  cl2[c].req = cl[c].req /\ (cl[c].req # NoRequest => cl2[c].stage = cl[c].stage)
  <2>1. CASE c \in S
    <3>1. cl2[c] = [cl[c] EXCEPT !.stage = "gone", !.req = NoRequest, !.host = NoHost,
                                 !.live = FALSE, !.idleTimer = FALSE]
      BY <2>1 DEF Removed
    <3>2. cl[c] \in ClientRecord
      OBVIOUS
    <3>3. cl2[c].stage = "gone" /\ cl2[c].req = NoRequest
      <4> HIDE DEF cl2
      <4> QED BY ONLY <3>1, <3>2 DEF ClientRecord
    <3> QED BY <2>1, <3>3
  <2>2. CASE c \notin S
    BY <2>2 DEF Removed
  <2> QED BY <2>1, <2>2
<1> HIDE DEF cl2
<1>2. Outcomes(cl2, queue, as, late, count, timers)
  BY <1>1, SameWork
<1> QED BY <1>2 DEF cl2

\* What the answer to request r of the queue changes.
LEMMA TellsHead ==
    ASSUME RestOK, NEW cl, NEW queue, NEW late, NEW ans \in SUBSET Request, NEW r,
           Outcomes(cl, queue, asked, late, Told(ans), reqTimer \ ans), Contains(queue, r)
    PROVE  /\ r \in asked /\ r \notin late /\ Told(ans)[r] = 0
           /\ OnlyTold(r, late, Told(ans), Told(ans \cup {r}), reqTimer \ ans,
                       reqTimer \ (ans \cup {r}))
           /\ Told(ans \cup {r})[r] # 0
<1> DEFINE t == Told(ans)
           t2 == Told(ans \cup {r})
<1>1. r \in asked /\ t[r] = 0 /\ r \notin late
  BY DEF Outcomes, RequestsOK
<1>2. r \in Request /\ calls[r] \in Nat
  BY <1>1 DEF RestOK
<1>3. r \notin ans /\ calls[r] = 0
  BY <1>1, <1>2 DEF Told
<1>4. t2[r] = 1 /\ t2[r] # 0 /\ \A q \in Request \ {r} : t2[q] = t[q]
  BY <1>2, <1>3 DEF Told
<1>5. \A q \in reqTimer \ (ans \cup {r}) : q \in reqTimer \ ans /\ t2[q] = 0
  BY <1>4 DEF Outcomes, RequestsOK, RestOK
<1> HIDE DEF t, t2
<1>6. OnlyTold(r, late, t, t2, reqTimer \ ans, reqTimer \ (ans \cup {r}))
  BY <1>4, <1>5 DEF OnlyTold, OthersTold
<1> QED BY <1>1, <1>4, <1>6 DEF t, t2

\* _pulseQueue hands the first request to an idle client or to a new one.
LEMMA ServeOutcome ==
    ASSUME NEW cs, NEW is, NEW cl, NEW ans \in SUBSET Request,
           PoolOK(cs, is, cl), RestOK, pendingQueue # <<>>,
           Outcomes(cl, pendingQueue, asked, timedOut, Told(ans), reqTimer \ ans),
           ServeNext(cs, is, cl, ans), asked' = asked, timedOut' = timedOut
    PROVE  OutcomeInv'
<1> DEFINE r == Head(pendingQueue)
           rest == Tail(pendingQueue)
<1>1. /\ pendingQueue' = rest /\ r \in Request
      /\ Splits(pendingQueue, r, rest) /\ Contains(pendingQueue, r)
  BY TailQueue, HeadTailProperties DEF ServeNext, Outcomes, RestOK, Splits
<1>2. PICK t \in Host \cup {NoHost} :
        \/ \E c \in is : client' = Lent(cl, c, r) /\ Answer(ans \cup {r})
        \/ \E c \in Client : /\ cl[c].stage = "none"
                             /\ client' = Launched(cl, c, r, t) /\ Answer(ans)
  BY DEF ServeNext, Target, IdleFor
<1> HIDE DEF r, rest
<1>3. /\ r \in asked /\ r \notin timedOut /\ Told(ans)[r] = 0
      /\ OnlyTold(r, timedOut, Told(ans), Told(ans \cup {r}), reqTimer \ ans,
                  reqTimer \ (ans \cup {r}))
      /\ Told(ans \cup {r})[r] # 0
  BY <1>1, TellsHead
<1>4. cl \in [Client -> ClientRecord] /\ is \subseteq Client /\ \A c \in is : cl[c].stage = "in"
  BY DEF PoolOK, AgreeBut
<1>5. asked \in SUBSET Request
  BY DEF RestOK
<1>6. ASSUME NEW c \in is, client' = Lent(cl, c, r), Answer(ans \cup {r}) PROVE OutcomeInv'
  <2>1. c \in Client /\ cl[c].stage = "in" /\ cl[c].req = NoRequest
    BY <1>4, Unemployed
  <2>2. /\ client'[c] = [cl[c] EXCEPT !.stage = "out", !.req = r, !.idleTimer = FALSE,
                                      !.listeners = Unlistened(cl[c].listeners)]
        /\ \A d \in Client \ {c} : client'[d] = cl[d]
    BY <1>4, <1>6, <2>1 DEF Lent
  <2>3. client'[c].stage = "out" /\ client'[c].req = r
    <3>1. cl[c] \in ClientRecord
      BY <1>4, <2>1
    <3> QED BY ONLY <2>2, <3>1 DEF ClientRecord
  <2>4. WorkOK(client'[c], timedOut, Told(ans \cup {r}))
    BY <1>3, <2>3 DEF WorkOK
  <2>5. Outcomes(client', rest, asked, timedOut, Told(ans \cup {r}), reqTimer \ (ans \cup {r}))
    <3>1. Hires(cl, client', c, r, timedOut, Told(ans \cup {r}))
      BY <2>1, <2>2, <2>3, <2>4 DEF Hires
    <3> QED BY <1>1, <1>3, <1>5, <2>1, <3>1, TakeWork
  <2> QED BY <1>1, <1>6, <2>5 DEF OutcomeInv, Answer, Told
<1>7. ASSUME NEW c \in Client, cl[c].stage = "none", client' = Launched(cl, c, r, t), Answer(ans)
      PROVE  OutcomeInv'
  <2>1. cl[c].req = NoRequest
    BY <1>7, Unemployed
  <2>2. /\ client'[c] = [cl[c] EXCEPT !.stage = "connecting", !.req = r, !.host = t,
                                      !.connTimer = IF ConnTimeout THEN "armed" ELSE "off"]
        /\ \A d \in Client \ {c} : client'[d] = cl[d]
    BY <1>4, <1>7, <2>1 DEF Launched
  <2>3. client'[c].stage = "connecting" /\ client'[c].req = r
    <3>1. cl[c] \in ClientRecord
      BY <1>4
    <3> QED BY ONLY <2>2, <3>1 DEF ClientRecord
  <2>4. WorkOK(client'[c], timedOut, Told(ans))
    BY <1>3, <2>3 DEF WorkOK, Times
  <2>5. OnlyTold(r, timedOut, Told(ans), Told(ans), reqTimer \ ans, reqTimer \ ans)
    BY <1>3 DEF OnlyTold, OthersTold, Outcomes, RequestsOK
  <2>6. Outcomes(client', rest, asked, timedOut, Told(ans), reqTimer \ ans)
    <3>1. Hires(cl, client', c, r, timedOut, Told(ans))
      BY <2>1, <2>2, <2>3, <2>4 DEF Hires
    <3> QED BY <1>1, <1>5, <2>5, <3>1, TakeWork
  <2> QED BY <1>1, <1>7, <2>6 DEF OutcomeInv, Answer, Told
<1> QED BY <1>2, <1>6, <1>7

LEMMA PulseOutcome ==
    ASSUME NEW cs, NEW is, NEW cl, NEW ans \in SUBSET Request,
           PoolOK(cs, is, cl), RestOK,
           Outcomes(cl, pendingQueue, asked, timedOut, Told(ans), reqTimer \ ans),
           PulseQueue(cs, is, cl, ans), asked' = asked, timedOut' = timedOut
    PROVE  OutcomeInv'
<1>1. CASE DrainIdle(cs, is, cl, ans)
  <2>1. cl \in [Client -> ClientRecord] /\ \A c \in Client : c \in is => cl[c].req = NoRequest
    BY Unemployed DEF PoolOK, AgreeBut
  <2>2. Outcomes(Removed(cl, is), pendingQueue, asked, timedOut, Told(ans), reqTimer \ ans)
    BY <2>1, RemovedOutcome
  <2> QED BY <1>1, <2>2 DEF DrainIdle, OutcomeInv, Answer, Told
<1>2. CASE pendingQueue # <<>> /\ ServeNext(cs, is, cl, ans)
  BY <1>2, ServeOutcome
<1>3. CASE client' = cl /\ Answer(ans) /\ UNCHANGED pendingQueue
  BY <1>3 DEF OutcomeInv, Answer, Told
<1> QED BY <1>1, <1>2, <1>3 DEF PulseQueue

\* The release of client c, once its request is answered, brings the pool to a
\* pulse.
LEMMA ReleaseLeads ==
    ASSUME PoolInv, NEW c \in clients, NEW cl, NEW err \in BOOLEAN, NEW ans \in SUBSET Request,
           cl \in [Client -> ClientRecord], \A d \in Client \ {c} : cl[d] = client[d],
           cl[c].listeners = 0, cl[c].connTimer = "off", OutcomeInv,
           OnlyTold(client[c].req, timedOut, calls, Told(ans), reqTimer, reqTimer \ ans),
           client[c].req # NoRequest => Told(ans)[client[c].req] # 0,
           DoRelease(clients, idle, cl, c, err, ans)
    PROVE  \E cs2, is2, cl2 :
              /\ PoolOK(cs2, is2, cl2) /\ EndOK(cs2) /\ PulseQueue(cs2, is2, cl2, ans)
              /\ Outcomes(cl2, pendingQueue, asked, timedOut, Told(ans), reqTimer \ ans)
              /\ cl2[c].stage \notin {"out", "failed"}
              /\ \A d \in Client \ {c} : cl2[d] = client[d]
              /\ err => cl2[c].stage = "gone"
<1>1. /\ AgreeBut({c}, clients, idle, cl) /\ EndOK(clients) /\ c \in Client
      /\ asked \in SUBSET Request
  BY DEF PoolInv, PoolOK, AgreeBut, RestOK
<1>2. PICK cs2, is2, cl2 :
              /\ PoolOK(cs2, is2, cl2) /\ PulseQueue(cs2, is2, cl2, ans)
              /\ \/ cs2 = clients \ {c} /\ is2 = idle \ {c}
                 \/ cs2 = clients /\ is2 = idle \cup {c}
              /\ cl2[c].req = NoRequest /\ cl2[c].stage # "out"
              /\ err => cl2[c].stage = "gone"
              /\ \A d \in Client \ {c} : cl2[d] = cl[d]
  BY <1>1, ReleasePulses
<1>3. \A d \in Client \ {c} : cl2[d] = client[d]
  BY <1>2
<1>4. Outcomes(cl2, pendingQueue, asked, timedOut, Told(ans), reqTimer \ ans)
  <2>1. Outcomes(client, pendingQueue, asked, timedOut, calls, reqTimer)
    BY DEF OutcomeInv
  <2> QED BY <1>1, <1>2, <1>3, <2>1, DoneWork
<1>5. EndOK(cs2)
  BY <1>1, <1>2 DEF EndOK
<1>6. cl2[c].stage # "failed"
  BY <1>1, <1>2, NullAssumption DEF PoolOK, AgreeBut, RecordOK
<1> WITNESS cs2, is2, cl2
<1> QED BY <1>2, <1>3, <1>4, <1>5, <1>6

LEMMA ReleaseOutcome ==
    ASSUME PoolInv, NEW c \in clients, NEW cl, NEW err \in BOOLEAN, NEW ans \in SUBSET Request,
           cl \in [Client -> ClientRecord], \A d \in Client \ {c} : cl[d] = client[d],
           cl[c].listeners = 0, cl[c].connTimer = "off", OutcomeInv,
           OnlyTold(client[c].req, timedOut, calls, Told(ans), reqTimer, reqTimer \ ans),
           client[c].req # NoRequest => Told(ans)[client[c].req] # 0,
           DoRelease(clients, idle, cl, c, err, ans),
           UNCHANGED <<asked, timedOut, ticks, ending>>
    PROVE  OutcomeInv'
<1>1. PICK cs2, is2, cl2 :
              /\ PoolOK(cs2, is2, cl2) /\ EndOK(cs2) /\ PulseQueue(cs2, is2, cl2, ans)
              /\ Outcomes(cl2, pendingQueue, asked, timedOut, Told(ans), reqTimer \ ans)
              /\ cl2[c].stage \notin {"out", "failed"}
              /\ \A d \in Client \ {c} : cl2[d] = client[d]
              /\ err => cl2[c].stage = "gone"
  BY ReleaseLeads
<1> QED BY <1>1, PulseOutcome DEF PoolInv

-----------------------------------------------------------------------------
\* One lemma per kind of action.

LEMMA RefusedOutcome ==
    ASSUME PoolInv, OutcomeInv, NEW r \in Request, ConnectRefused(r) PROVE OutcomeInv'
<1>1. /\ r \notin asked /\ asked' = asked \cup {r} /\ calls' = Told({r}) /\ reqTimer' = reqTimer \ {r}
      /\ UNCHANGED <<client, pendingQueue, timedOut>>
  BY DEF ConnectRefused, Answer, Told, poolVars
<1>2. calls \in [Request -> Nat] /\ calls[r] = 0
  BY <1>1 DEF PoolInv, RestOK, OutcomeInv, Outcomes, RequestsOK
<1>3. calls'[r] = 1 /\ calls'[r] # 0 /\ \A q \in Request \ {r} : calls'[q] = calls[q]
  BY <1>1, <1>2 DEF Told
<1>4. asked \subseteq Request
  BY DEF PoolInv, RestOK
<1>5. ASSUME NEW c \in Client, client[c].req # NoRequest
      PROVE  WorksAlone(client, c, pendingQueue, asked', timedOut, calls')
  <2>1. WorksAlone(client, c, pendingQueue, asked, timedOut, calls)
    BY <1>5 DEF OutcomeInv, Outcomes, ClientsOK
  <2>2. calls'[client[c].req] = calls[client[c].req]
    BY <1>1, <1>3, <1>4, <2>1 DEF WorksAlone
  <2> QED BY <1>1, <2>1, <2>2 DEF WorksAlone, WorkOK
<1>6. RequestsOK(client, pendingQueue, asked', timedOut, calls', reqTimer')
  <2> USE <1>1, <1>3, <1>4 DEF OutcomeInv, Outcomes, RequestsOK
  <2>1. \A q : Contains(pendingQueue, q) => q \in asked' /\ calls'[q] = 0
    OBVIOUS
  <2>2. ASSUME NEW q \in asked', calls'[q] = 0
        PROVE  Contains(pendingQueue, q) \/ \E c \in Client : client[c].req = q
    <3>1. q # r /\ calls[q] = 0 /\ q \in asked
      BY <2>2
    <3> QED BY <3>1
  <2>3. \A q \in Request \ asked' : calls'[q] = 0
    OBVIOUS
  <2>4. ASSUME NEW q \in Request PROVE Answered(client, q, timedOut, calls')
    <3>1. Answered(client, q, timedOut, calls)
      OBVIOUS
    <3> QED BY <3>1 DEF Answered
  <2>5. \A q \in timedOut : q \in asked' /\ calls'[q] # 0
    OBVIOUS
  <2>6. \A q \in reqTimer' : q \in asked' /\ calls'[q] = 0
    OBVIOUS
  <2> QED BY <2>1, <2>2, <2>3, <2>4, <2>5, <2>6
<1> QED BY <1>1, <1>5, <1>6 DEF OutcomeInv, Outcomes, ClientsOK

\* A request that was not made yet is not in the queue.
LEMMA AskedQueue ==
    ASSUME PoolInv, OutcomeInv, NEW r \in Request \ asked
    PROVE  Splits(Append(pendingQueue, r), r, pendingQueue) /\ Distinct(Append(pendingQueue, r))
<1>1. pendingQueue \in Seq(Request) /\ Distinct(pendingQueue) /\ ~Contains(pendingQueue, r)
  BY DEF PoolInv, RestOK, OutcomeInv, Outcomes, RequestsOK
<1> QED BY <1>1, AppendQueue DEF Splits

LEMMA QueuedOutcome ==
    ASSUME PoolInv, OutcomeInv, NEW r \in Request, ConnectQueued(r) PROVE OutcomeInv'
<1>1. /\ r \in Request \ asked /\ asked' = asked \cup {r} /\ pendingQueue' = Append(pendingQueue, r)
      /\ reqTimer' \subseteq reqTimer \cup {r} /\ UNCHANGED <<client, timedOut, calls>>
  BY DEF ConnectQueued
<1>2. asked \in SUBSET Request
  BY DEF PoolInv, RestOK
<1>3. Distinct(pendingQueue') /\ \A x : Contains(pendingQueue', x) <=> Contains(pendingQueue, x) \/ x = r
  BY <1>1, AskedQueue DEF Splits
<1>4. Outcomes(client, pendingQueue', asked \cup {r}, timedOut, calls, reqTimer')
  BY <1>1, <1>2, <1>3, AskWork DEF OutcomeInv
<1> QED BY <1>1, <1>4 DEF OutcomeInv

LEMMA NewOutcome ==
    ASSUME PoolInv, OutcomeInv, NEW r \in Request, ConnectNew(r) PROVE OutcomeInv'
<1> DEFINE queue == Append(pendingQueue, r)
<1>1. PICK c \in Client : client[c].stage = "none" /\ client' = Launched(client, c, r, NoHost)
  BY DEF ConnectNew
<1>2. /\ r \in Request \ asked /\ asked' = asked \cup {r}
      /\ UNCHANGED <<pendingQueue, reqTimer, timedOut, calls>>
  BY DEF ConnectNew
<1>3. asked \in SUBSET Request /\ asked' \in SUBSET Request /\ client \in [Client -> ClientRecord]
  BY <1>2 DEF PoolInv, RestOK, PoolOK, AgreeBut
<1>4. Splits(queue, r, pendingQueue) /\ Distinct(queue)
  BY <1>2, AskedQueue
<1>5. \A x : Contains(queue, x) <=> Contains(pendingQueue, x) \/ x = r
  BY <1>4 DEF Splits
<1>6. Outcomes(client, queue, asked', timedOut, calls, reqTimer)
  <2> HIDE DEF queue
  <2> QED BY <1>2, <1>3, <1>4, <1>5, AskWork DEF OutcomeInv
<1>7. client[c].req = NoRequest
  BY <1>1, Unemployed DEF OutcomeInv
<1>8. calls[r] = 0 /\ r \notin timedOut
  BY <1>2 DEF OutcomeInv, Outcomes, RequestsOK
<1>9. Hires(client, client', c, r, timedOut, calls)
  <2>1. /\ client'[c] = [client[c] EXCEPT !.stage = "connecting", !.req = r, !.host = NoHost,
                                          !.connTimer = IF ConnTimeout THEN "armed" ELSE "off"]
        /\ \A d \in Client \ {c} : client'[d] = client[d]
    BY <1>1, <1>3 DEF Launched
  <2>2. client'[c].stage = "connecting" /\ client'[c].req = r
    <3>1. client[c] \in ClientRecord
      BY <1>3
    <3> QED BY ONLY <2>1, <3>1 DEF ClientRecord
  <2>3. WorkOK(client'[c], timedOut, calls)
    BY <1>8, <2>2 DEF WorkOK, Times
  <2> QED BY <1>7, <2>1, <2>2, <2>3 DEF Hires
<1>10. OnlyTold(r, timedOut, calls, calls, reqTimer, reqTimer)
  BY <1>8 DEF OnlyTold, OthersTold, OutcomeInv, Outcomes, RequestsOK
<1> HIDE DEF queue
<1>11. Outcomes(client', pendingQueue, asked', timedOut, calls, reqTimer)
  BY <1>2, <1>3, <1>4, <1>6, <1>9, <1>10, TakeWork
<1> QED BY <1>2, <1>11 DEF OutcomeInv

LEMMA ReqTimeoutOutcome ==
    ASSUME PoolInv, OutcomeInv, NEW r \in Request, ReqTimeoutFires(r) PROVE OutcomeInv'
<1>1. /\ r \in reqTimer /\ timedOut' = timedOut \cup {r}
      /\ calls' = Told({r}) /\ reqTimer' = reqTimer \ {r} /\ UNCHANGED <<client, asked>>
  BY DEF ReqTimeoutFires, Answer, Told
<1>2. /\ pendingQueue \in Seq(Request) /\ Distinct(pendingQueue) /\ calls \in [Request -> Nat]
      /\ calls[r] = 0 /\ asked \in SUBSET Request
  BY <1>1 DEF PoolInv, RestOK, OutcomeInv, Outcomes, RequestsOK
<1>3. calls'[r] = 1 /\ calls'[r] # 0 /\ \A q \in Request \ {r} : calls'[q] = calls[q]
  BY <1>1, <1>2 DEF Told
<1>4. /\ Distinct(pendingQueue')
      /\ \A x : Contains(pendingQueue', x) <=> Contains(pendingQueue, x) /\ x # r
  <2>1. CASE \E i \in 1..Len(pendingQueue) :
                pendingQueue[i] = r /\ pendingQueue' = RemoveAt(pendingQueue, i)
    BY <1>2, <2>1, RemoveAtQueue
  <2>2. CASE ~Contains(pendingQueue, r) /\ UNCHANGED pendingQueue
    BY <1>2, <2>2
  <2> QED BY <2>1, <2>2 DEF ReqTimeoutFires
<1>5. Outcomes(client, pendingQueue', asked, timedOut', calls', reqTimer')
  BY <1>1, <1>2, <1>3, <1>4, LateWork DEF OutcomeInv
<1> QED BY <1>1, <1>5 DEF OutcomeInv

\* What a handler changes that tells nobody.
LEMMA NobodyTold ==
    ASSUME PoolInv PROVE Told({}) = calls /\ reqTimer \ {} = reqTimer
  BY DEF Told, PoolInv, RestOK

\* The request of a client whose connection did not fail twice has one answer.
LEMMA TellsNobody ==
    ASSUME PoolInv, OutcomeInv, NEW c \in Client, client[c].stage # "refailed"
    PROVE  Told({}) = calls /\ reqTimer \ {} = reqTimer
           /\ OnlyTold(client[c].req, timedOut, calls, Told({}), reqTimer, reqTimer \ {})
<1> DEFINE r == client[c].req
<1>1. r \in Request \cup {NoRequest}
  <2>1. client[c] \in ClientRecord
    BY DEF PoolInv, PoolOK, AgreeBut
  <2> QED BY <2>1 DEF ClientRecord
<1>2. r # NoRequest => calls[r] \in {0, 1} \/ (Verify /\ r \in timedOut)
  <2>1. r # NoRequest =>
            /\ Answered(client, r, timedOut, calls)
            /\ \A d \in Client : client[d].req = r => d = c
    BY <1>1 DEF OutcomeInv, Outcomes, ClientsOK, RequestsOK, WorksAlone
  <2> QED BY <2>1 DEF Answered
<1>3. OnlyTold(r, timedOut, calls, calls, reqTimer, reqTimer)
  BY <1>2 DEF OnlyTold, OthersTold, OutcomeInv, Outcomes, RequestsOK
<1> QED BY <1>3, NobodyTold

\* What one changes that tells the request a client was connecting or being
\* verified for.
LEMMA TellsOwn ==
    ASSUME PoolInv, OutcomeInv, NEW c \in Client, NEW r \in Request, client[c].req = r,
           \/ client[c].stage = "connecting" /\ r \notin timedOut
           \/ client[c].stage = "verifying"
    PROVE  /\ OnlyTold(r, timedOut, calls, Told({r}), reqTimer, reqTimer \ {r})
           /\ Told({r})[r] # 0 /\ (r \in timedOut => Verify)
<1> DEFINE t2 == Told({r})
<1>1. calls \in [Request -> Nat] /\ r # NoRequest /\ reqTimer \subseteq Request
  BY NullAssumption DEF PoolInv, RestOK
<1>2. calls[r] = Times(timedOut, r) /\ (r \in timedOut => Verify)
  BY <1>1 DEF OutcomeInv, Outcomes, ClientsOK, WorksAlone, WorkOK
<1>3. t2[r] = calls[r] + 1 /\ t2[r] # 0 /\ \A q \in Request \ {r} : t2[q] = calls[q]
  BY <1>1 DEF Told
<1>4. t2[r] \in {0, 1} \/ (Verify /\ r \in timedOut)
  <2>1. CASE r \in timedOut
    BY <1>2, <2>1
  <2>2. CASE r \notin timedOut
    BY <1>2, <1>3, <2>2 DEF Times
  <2> QED BY <2>1, <2>2
<1>5. \A q \in reqTimer \ {r} : q \in reqTimer /\ t2[q] = 0
  BY <1>1, <1>3 DEF OutcomeInv, Outcomes, RequestsOK
<1> HIDE DEF t2
<1>6. OnlyTold(r, timedOut, calls, t2, reqTimer, reqTimer \ {r})
  BY <1>1, <1>3, <1>4, <1>5 DEF OnlyTold, OthersTold
<1> QED BY <1>2, <1>3, <1>6 DEF t2

\* A handler that changes no client's request, nor the stage of one that has a
\* request.
LEMMA FlagOutcome ==
    ASSUME OutcomeInv,
           \A c \in Client : /\ client'[c].req = client[c].req
                             /\ client[c].req # NoRequest => client'[c].stage = client[c].stage,
           UNCHANGED <<pendingQueue, asked, timedOut, calls, reqTimer>>
    PROVE  OutcomeInv'
<1>1. Outcomes(client, pendingQueue, asked, timedOut, calls, reqTimer)
  BY DEF OutcomeInv
<1> DEFINE cl2 == client'
<1>2. \A c \in Client : /\ cl2[c].req = client[c].req
                        /\ client[c].req # NoRequest => cl2[c].stage = client[c].stage
  OBVIOUS
<1> HIDE DEF cl2
<1>3. Outcomes(cl2, pendingQueue, asked, timedOut, calls, reqTimer)
  BY <1>1, <1>2, SameWork
<1> QED BY <1>3 DEF OutcomeInv, cl2

\* What the holder's release has of the hypotheses of ReleaseLeads.
LEMMA HolderReleases ==
    ASSUME PoolInv, OutcomeInv, NEW c \in Client, NEW err \in BOOLEAN, Release(c, err)
    PROVE  /\ client \in [Client -> ClientRecord] /\ c \in clients
           /\ client[c].listeners = 0 /\ client[c].connTimer = "off"
           /\ OnlyTold(client[c].req, timedOut, calls, Told({}), reqTimer, reqTimer \ {})
           /\ client[c].req # NoRequest => Told({})[client[c].req] # 0
           /\ UNCHANGED <<asked, timedOut, ticks, ending>>
<1> DEFINE r == client[c].req
<1>1. /\ client \in [Client -> ClientRecord] /\ client[c].stage = "out" /\ c \in clients
      /\ client[c].listeners = 0 /\ client[c].connTimer = "off" /\ r \in Request \cup {NoRequest}
      /\ UNCHANGED <<asked, timedOut, ticks, ending>>
  <2>1. client \in [Client -> ClientRecord] /\ client[c].stage = "out"
    BY DEF Release, PoolInv, PoolOK, AgreeBut
  <2>2. r \in Request \cup {NoRequest}
    BY <2>1 DEF ClientRecord
  <2> QED BY <2>1, <2>2, BusyClient DEF Release
<1>2. r # NoRequest => calls[r] # 0
  BY <1>1 DEF OutcomeInv, Outcomes, ClientsOK, WorksAlone, WorkOK
<1>3. /\ Told({}) = calls
      /\ OnlyTold(r, timedOut, calls, Told({}), reqTimer, reqTimer \ {})
  BY <1>1, TellsNobody
<1> QED BY <1>1, <1>2, <1>3

LEMMA HolderReleaseOutcome ==
    ASSUME PoolInv, OutcomeInv, NEW c \in Client, NEW err \in BOOLEAN, Release(c, err)
    PROVE  OutcomeInv'
<1> DEFINE ans == {}
<1>1. DoRelease(clients, idle, client, c, err, ans) /\ ans \in SUBSET Request
  BY DEF Release
<1>2. /\ client \in [Client -> ClientRecord] /\ c \in clients
      /\ client[c].listeners = 0 /\ client[c].connTimer = "off"
      /\ OnlyTold(client[c].req, timedOut, calls, Told(ans), reqTimer, reqTimer \ ans)
      /\ client[c].req # NoRequest => Told(ans)[client[c].req] # 0
      /\ UNCHANGED <<asked, timedOut, ticks, ending>>
  BY HolderReleases
<1> HIDE DEF ans
<1> QED BY <1>1, <1>2, ReleaseOutcome

\* Where a failed connection has brought the pool when it pulses.
LEMMA FailLeads ==
    ASSUME PoolInv, OutcomeInv, NEW c \in Client, ConnectFailed(c)
    PROVE  \E cs, cl, ans :
              /\ ans = {client[c].req} \ timedOut /\ ans \in SUBSET Request
              /\ PoolOK(cs, idle, cl) /\ EndOK(cs) /\ PulseQueue(cs, idle, cl, ans)
              /\ Outcomes(cl, pendingQueue, asked, timedOut, Told(ans), reqTimer \ ans)
              /\ \/ cl[c].stage = "gone"
                 \/ cl[c].stage = "failed" /\ cl[c].req = client[c].req
              /\ \A d \in Client \ {c} : cl[d] = client[d]
<1> DEFINE r == client[c].req
           ans == {r} \ timedOut
           cs == clients \ {c}
           cl == Failed(client, c)
<1>1. /\ PulseQueue(cs, idle, cl, ans) /\ client[c].stage = "connecting"
      /\ PoolOK(cs, idle, cl) /\ EndOK(cs) /\ RestOK
      /\ \/ cl[c].stage = "gone" /\ cl[c].req = NoRequest
         \/ cl[c].stage = "failed" /\ cl[c].req = r
      /\ \A d \in Client \ {c} : cl[d] = client[d]
  BY FailedPool DEF ConnectFailed, PoolInv
<1>2. r \in Request /\ r # NoRequest /\ asked \in SUBSET Request
  BY <1>1, BusyClient, NullAssumption DEF RecordOK, RestOK
<1>3. OnlyTold(r, timedOut, calls, Told(ans), reqTimer, reqTimer \ ans) /\ Told(ans)[r] = 1
  <2>1. calls[r] = Times(timedOut, r) /\ calls \in [Request -> Nat]
    BY <1>1, <1>2 DEF OutcomeInv, Outcomes, ClientsOK, WorksAlone, WorkOK, RestOK
  <2>2. CASE r \in timedOut
    <3>1. ans = {} /\ calls[r] = 1
      BY <2>1, <2>2 DEF Times
    <3> QED BY <1>1, <3>1, TellsNobody
  <2>3. CASE r \notin timedOut
    <3>1. ans = {r} /\ Told(ans)[r] = 1
      BY <1>2, <2>1, <2>3 DEF Times, Told
    <3> QED BY <1>1, <1>2, <2>3, <3>1, TellsOwn
  <2> QED BY <2>2, <2>3
<1>4. ans \in SUBSET Request /\ ans = {client[c].req} \ timedOut
  BY <1>2
<1> HIDE DEF ans, cl, cs
<1>5. Outcomes(cl, pendingQueue, asked, timedOut, Told(ans), reqTimer \ ans)
  <2>1. CASE cl[c].req = NoRequest
    BY <1>1, <1>2, <1>3, <2>1, DoneWork DEF OutcomeInv
  <2>2. CASE cl[c].stage = "failed" /\ cl[c].req = r
    <3>1. WorkOK(cl[c], timedOut, Told(ans))
      BY <1>3, <2>2 DEF WorkOK
    <3>2. Hands(client, cl, c, timedOut, Told(ans))
      BY <1>1, <1>2, <2>2, <3>1 DEF Hands
    <3> QED BY <1>2, <1>3, <3>2, HandWork DEF OutcomeInv
  <2> QED BY <1>1, <2>1, <2>2
<1> WITNESS cs, cl, ans
<1> QED BY <1>1, <1>4, <1>5

\* Where the second failure of a connection has.
LEMMA AgainLeads ==
    ASSUME PoolInv, OutcomeInv, NEW c \in Client, ConnectFailsAgain(c)
    PROVE  \E cl, ans :
              /\ ans = {client[c].req} \ timedOut /\ ans \in SUBSET Request
              /\ PoolOK(clients, idle, cl) /\ PulseQueue(clients, idle, cl, ans)
              /\ Outcomes(cl, pendingQueue, asked, timedOut, Told(ans), reqTimer \ ans)
              /\ cl[c].stage = "refailed" /\ \A d \in Client \ {c} : cl[d] = client[d]
<1> DEFINE r == client[c].req
           ans == {r} \ timedOut
           cl == FailedAgain(client, c)
<1>1. /\ PulseQueue(clients, idle, cl, ans) /\ client[c].stage = "failed"
      /\ PoolOK(clients, idle, cl) /\ RestOK
      /\ cl[c].stage = "refailed" /\ cl[c].req = r
      /\ \A d \in Client \ {c} : cl[d] = client[d]
  BY AgainPool DEF ConnectFailsAgain, PoolInv
<1>2. r \in Request /\ r # NoRequest /\ asked \in SUBSET Request
  BY <1>1, LostClient, NullAssumption DEF RestOK
<1>3. calls[r] = 1 /\ calls \in [Request -> Nat]
  BY <1>1, <1>2 DEF OutcomeInv, Outcomes, ClientsOK, WorksAlone, WorkOK, RestOK
<1>4. /\ (Told(ans)[r] = 1 /\ r \in timedOut) \/ Told(ans)[r] = 2
      /\ \A q \in Request \ {r} : Told(ans)[q] = calls[q]
  BY <1>2, <1>3 DEF Told
<1>5. ans \in SUBSET Request /\ ans = {client[c].req} \ timedOut
  BY <1>2
<1> HIDE DEF ans, cl
<1>6. OthersTold(r, calls, Told(ans), reqTimer, reqTimer \ ans)
  <2>1. \A q \in reqTimer : q \in Request /\ calls[q] = 0
    BY <1>1 DEF RestOK, OutcomeInv, Outcomes, RequestsOK
  <2>2. \A q \in reqTimer : q # r
    BY <1>3, <2>1
  <2> QED BY <1>4, <2>1, <2>2 DEF OthersTold
<1>7. Answered(cl, r, timedOut, Told(ans)) /\ Hands(client, cl, c, timedOut, Told(ans))
  BY <1>1, <1>2, <1>4 DEF Answered, Hands, WorkOK
<1>8. Outcomes(cl, pendingQueue, asked, timedOut, Told(ans), reqTimer \ ans)
  BY <1>2, <1>6, <1>7, HandOn DEF OutcomeInv
<1> WITNESS cl, ans
<1> QED BY <1>1, <1>5, <1>8

LEMMA AgainOutcome ==
    ASSUME PoolInv, OutcomeInv, NEW c \in Client, ConnectFailsAgain(c) PROVE OutcomeInv'
<1>1. PICK cl, ans :
              /\ ans = {client[c].req} \ timedOut /\ ans \in SUBSET Request
              /\ PoolOK(clients, idle, cl) /\ PulseQueue(clients, idle, cl, ans)
              /\ Outcomes(cl, pendingQueue, asked, timedOut, Told(ans), reqTimer \ ans)
              /\ cl[c].stage = "refailed" /\ \A d \in Client \ {c} : cl[d] = client[d]
  BY AgainLeads
<1>2. RestOK /\ asked' = asked /\ timedOut' = timedOut
  BY DEF PoolInv, ConnectFailsAgain
<1> QED BY <1>1, <1>2, PulseOutcome

LEMMA FailOutcome ==
    ASSUME PoolInv, OutcomeInv, NEW c \in Client, ConnectFailed(c) PROVE OutcomeInv'
<1>1. PICK cs, cl, ans :
              /\ ans = {client[c].req} \ timedOut /\ ans \in SUBSET Request
              /\ PoolOK(cs, idle, cl) /\ EndOK(cs) /\ PulseQueue(cs, idle, cl, ans)
              /\ Outcomes(cl, pendingQueue, asked, timedOut, Told(ans), reqTimer \ ans)
  BY FailLeads
<1>2. RestOK /\ asked' = asked /\ timedOut' = timedOut
  BY DEF PoolInv, ConnectFailed
<1> QED BY <1>1, <1>2, PulseOutcome

\* What the connected client keeps of its record.
LEMMA OpenedClient ==
    ASSUME PoolInv, NEW c \in Client, client[c].stage = "connecting",
           NEW h \in Host \cup {NoHost}
    PROVE  LET up == Opened(client, c, h)
           IN  /\ up \in [Client -> ClientRecord] /\ \A d \in Client \ {c} : up[d] = client[d]
               /\ up[c].req = client[c].req /\ up[c].listeners = 0 /\ up[c].connTimer = "off"
               /\ up[c].stage = "connecting"
<1> DEFINE y == [client[c] EXCEPT !.host = h, !.connTimer = "off", !.lifeTimer = Lifetime]
<1>1. /\ client \in [Client -> ClientRecord] /\ client[c] \in ClientRecord
      /\ client[c].listeners = 0 /\ ~client[c].idleTimer
  BY BusyClient DEF PoolInv, PoolOK, AgreeBut
<1>2. y \in ClientRecord /\ y.listeners = 0 /\ y.connTimer = "off" /\ y.stage = "connecting"
  BY ONLY <1>1, client[c].stage = "connecting", h \in Host \cup {NoHost}, OptionAssumption
     DEF ClientRecord, Stage
<1>3. y.req = client[c].req
  BY ONLY <1>1 DEF ClientRecord
<1> HIDE DEF y
<1>4. Opened(client, c, h) = [client EXCEPT ![c] = y]
  BY DEF Opened, y
<1> QED BY <1>1, <1>2, <1>3, <1>4

\* Handed to the stage st for request q, client c is the one that changes.
LEMMA HandedClient ==
    ASSUME NEW cl \in [Client -> ClientRecord], NEW c \in Client, NEW st, NEW q
    PROVE  LET cl2 == Handed(cl, c, st, q)
           IN  /\ cl2[c].stage = st /\ cl2[c].req = q
               /\ \A d \in Client \ {c} : cl2[d] = cl[d]
<1> DEFINE y == cl[c]
           x == [y EXCEPT !.stage = st, !.req = q]
<1>1. y \in ClientRecord
  OBVIOUS
<1>2. x.stage = st /\ x.req = q
  <2> HIDE DEF y
  <2> QED BY ONLY <1>1 DEF ClientRecord
<1>3. Handed(cl, c, st, q) = [cl EXCEPT ![c] = x]
  BY DEF Handed
<1> HIDE DEF x
<1> QED BY <1>2, <1>3

LEMMA ConnectedOutcome ==
    ASSUME PoolInv, OutcomeInv, NEW c \in Client, Connected(c) PROVE OutcomeInv'
<1> DEFINE r == client[c].req
<1>1. /\ client[c].stage = "connecting" /\ c \in clients /\ UNCHANGED <<asked, timedOut, ticks, ending>>
      /\ client \in [Client -> ClientRecord] /\ asked \in SUBSET Request
  BY BusyClient DEF Connected, PoolInv, PoolOK, AgreeBut, RestOK
<1>2. r \in Request /\ r # NoRequest
  BY <1>1, BusyClient, NullAssumption DEF RecordOK
<1>3. PICK h \in Host \cup {NoHost} :
          \/ /\ Verify
             /\ client' = Handed(Opened(client, c, h), c, "verifying",
                                 IF r \in timedOut THEN NoRequest ELSE r)
             /\ UNCHANGED <<pendingQueue, calls, reqTimer>>
          \/ /\ ~Verify /\ r \notin timedOut
             /\ client' = Handed(Opened(client, c, h), c, "out", r)
             /\ Answer({r}) /\ UNCHANGED pendingQueue
          \/ /\ ~Verify /\ r \in timedOut
             /\ DoRelease(clients, idle, Opened(client, c, h), c, FALSE, {})
  <2>1. client[c].host \in Host \cup {NoHost}
    BY <1>1 DEF ClientRecord
  <2> QED BY <2>1 DEF Connected
<1> DEFINE up == Opened(client, c, h)
           q == IF r \in timedOut THEN NoRequest ELSE r
<1>4. /\ up \in [Client -> ClientRecord] /\ \A d \in Client \ {c} : up[d] = client[d]
      /\ up[c].req = r /\ up[c].listeners = 0 /\ up[c].connTimer = "off"
  BY <1>1, OpenedClient
<1>5. calls[r] = Times(timedOut, r) /\ (r \in timedOut => calls[r] # 0)
  BY <1>1, <1>2 DEF OutcomeInv, Outcomes, ClientsOK, RequestsOK, WorksAlone, WorkOK
<1>6. OnlyTold(r, timedOut, calls, calls, reqTimer, reqTimer)
  BY <1>1, TellsNobody
<1> HIDE DEF up
<1>7. CASE /\ Verify /\ client' = Handed(up, c, "verifying", q)
           /\ UNCHANGED <<pendingQueue, calls, reqTimer>>
  <2>1. /\ client'[c].stage = "verifying" /\ client'[c].req = q
        /\ \A d \in Client \ {c} : client'[d] = client[d]
    BY <1>4, <1>7, HandedClient
  <2>2. CASE r \in timedOut
    <3>1. client'[c].req = NoRequest
      BY <2>1, <2>2
    <3>2. Outcomes(client', pendingQueue, asked, timedOut, calls, reqTimer)
      BY <1>1, <1>5, <1>6, <2>1, <2>2, <3>1, DoneWork DEF OutcomeInv
    <3> QED BY <1>1, <1>7, <3>2 DEF OutcomeInv
  <2>3. CASE r \notin timedOut
    <3>1. client'[c].req = r
      BY <2>1, <2>3
    <3>2. WorkOK(client'[c], timedOut, calls)
      BY <1>5, <1>7, <2>1, <3>1 DEF WorkOK
    <3>3. Hands(client, client', c, timedOut, calls)
      BY <1>2, <2>1, <3>1, <3>2 DEF Hands
    <3>4. Outcomes(client', pendingQueue, asked, timedOut, calls, reqTimer)
      BY <1>1, <1>6, <3>3, HandWork DEF OutcomeInv
    <3> QED BY <1>1, <1>7, <3>4 DEF OutcomeInv
  <2> QED BY <2>2, <2>3
<1>8. CASE /\ r \notin timedOut /\ client' = Handed(up, c, "out", r)
           /\ Answer({r}) /\ UNCHANGED pendingQueue
  <2>1. /\ client'[c].stage = "out" /\ client'[c].req = r
        /\ \A d \in Client \ {c} : client'[d] = client[d]
    BY <1>4, <1>8, HandedClient
  <2>2. OnlyTold(r, timedOut, calls, Told({r}), reqTimer, reqTimer \ {r}) /\ Told({r})[r] # 0
    BY <1>1, <1>2, <1>8, TellsOwn
  <2>3. WorkOK(client'[c], timedOut, Told({r}))
    BY <1>8, <2>1, <2>2 DEF WorkOK
  <2>4. Hands(client, client', c, timedOut, Told({r}))
    BY <1>2, <2>1, <2>3 DEF Hands
  <2>5. Outcomes(client', pendingQueue, asked, timedOut, Told({r}), reqTimer \ {r})
    BY <1>1, <2>2, <2>4, HandWork DEF OutcomeInv
  <2> QED BY <1>1, <1>8, <2>5 DEF OutcomeInv, Answer, Told
<1>9. CASE r \in timedOut /\ DoRelease(clients, idle, up, c, FALSE, {})
  <2> DEFINE err == FALSE
             ans == {}
  <2>1. /\ err \in BOOLEAN /\ ans \in SUBSET Request /\ DoRelease(clients, idle, up, c, err, ans)
        /\ OnlyTold(r, timedOut, calls, Told(ans), reqTimer, reqTimer \ ans)
        /\ Told(ans)[r] # 0
    BY <1>1, <1>2, <1>5, <1>9, TellsNobody
  <2> HIDE DEF err, ans
  <2> QED BY <1>1, <1>4, <2>1, ReleaseOutcome
<1> QED BY <1>3, <1>7, <1>8, <1>9 DEF up

LEMMA VerifiedOutcome ==
    ASSUME PoolInv, OutcomeInv, NEW c \in Client, NEW ok \in BOOLEAN, VerifyDone(c, ok)
    PROVE  OutcomeInv'
<1> DEFINE r == client[c].req
           ans == {r} \ {NoRequest}
<1>1. /\ client[c].stage = "verifying" /\ c \in clients /\ client[c].listeners = 0
      /\ client[c].connTimer = "off" /\ UNCHANGED <<asked, timedOut, ticks, ending>>
      /\ client \in [Client -> ClientRecord] /\ asked \in SUBSET Request
  BY BusyClient DEF VerifyDone, PoolInv, PoolOK, AgreeBut, RestOK
<1>2. r \in Request \cup {NoRequest}
  BY <1>1 DEF ClientRecord
<1>3. CASE ok /\ r # NoRequest
  <2>1. client' = Handed(client, c, "out", r) /\ Answer({r}) /\ UNCHANGED pendingQueue
    BY <1>3 DEF VerifyDone
  <2>2. /\ client'[c].stage = "out" /\ client'[c].req = r
        /\ \A d \in Client \ {c} : client'[d] = client[d]
    BY <1>1, <2>1, HandedClient
  <2>3. /\ OnlyTold(r, timedOut, calls, Told({r}), reqTimer, reqTimer \ {r})
        /\ Told({r})[r] # 0 /\ (r \in timedOut => Verify)
    BY <1>1, <1>2, <1>3, TellsOwn
  <2>4. WorkOK(client'[c], timedOut, Told({r}))
    BY <2>2, <2>3 DEF WorkOK
  <2>5. Hands(client, client', c, timedOut, Told({r}))
    BY <1>3, <2>2, <2>4 DEF Hands
  <2>6. Outcomes(client', pendingQueue, asked, timedOut, Told({r}), reqTimer \ {r})
    BY <1>1, <2>3, <2>5, HandWork DEF OutcomeInv
  <2> QED BY <1>1, <2>1, <2>6 DEF OutcomeInv, Answer, Told
<1>4. CASE ~(ok /\ r # NoRequest)
  <2>1. DoRelease(clients, idle, client, c, ~ok, ans) /\ ans \in SUBSET Request /\ (~ok) \in BOOLEAN
    BY <1>2, <1>4 DEF VerifyDone
  <2>2. /\ OnlyTold(r, timedOut, calls, Told(ans), reqTimer, reqTimer \ ans)
        /\ r # NoRequest => Told(ans)[r] # 0
    <3>1. CASE r = NoRequest
      <4>1. ans = {}
        BY <3>1
      <4> QED BY <1>1, <3>1, <4>1, TellsNobody
    <3>2. CASE r # NoRequest
      <4>1. ans = {r} /\ r \in Request
        BY <1>2, <3>2
      <4> QED BY <1>1, <4>1, TellsOwn
    <3> QED BY <3>1, <3>2
  <2> HIDE DEF ans
  <2> QED BY <1>1, <2>1, <2>2, ReleaseOutcome
<1> QED BY <1>3, <1>4

LEMMA LifetimeOutcome ==
    ASSUME PoolInv, OutcomeInv, NEW c \in Client, LifetimeFires(c) PROVE OutcomeInv'
<1>1. UNCHANGED <<asked, timedOut, ticks, ending>> /\ client \in [Client -> ClientRecord]
  BY DEF LifetimeFires, PoolInv, PoolOK, AgreeBut
<1>2. CASE c \in idle
  <2> DEFINE cl == Unheard(Marked(client, c), c)
             err == FALSE
             ans == {}
  <2>1. /\ cl \in [Client -> ClientRecord] /\ \A d \in Client \ {c} : cl[d] = client[d]
        /\ cl[c].listeners = 0 /\ cl[c].connTimer = "off" /\ c \in clients
    BY <1>2, ExpiredPool
  <2>2. client[c].req = NoRequest /\ client[c].stage = "in"
    BY <1>2, Unemployed DEF OutcomeInv, PoolInv, PoolOK, AgreeBut
  <2>3. /\ err \in BOOLEAN /\ ans \in SUBSET Request /\ DoRelease(clients, idle, cl, c, err, ans)
        /\ OnlyTold(client[c].req, timedOut, calls, Told(ans), reqTimer, reqTimer \ ans)
    BY <1>2, <2>2, TellsNobody DEF LifetimeFires
  <2> HIDE DEF cl, err, ans
  <2> QED BY <1>1, <2>1, <2>2, <2>3, ReleaseOutcome
<1>3. CASE c \notin idle
  <2>1. /\ client' = [client EXCEPT ![c] = [client[c] EXCEPT !.expired = TRUE, !.lifeTimer = FALSE]]
        /\ UNCHANGED <<pendingQueue, asked, timedOut, calls, reqTimer>>
    BY <1>3 DEF LifetimeFires, Marked
  <2>2. \A d \in Client : client'[d].req = client[d].req /\ client'[d].stage = client[d].stage
    BY <1>1, <2>1 DEF ClientRecord
  <2> QED BY <2>1, <2>2, FlagOutcome
<1> QED BY <1>2, <1>3

\* end() of a borrowed client, the connection timer, 'end' of a client and an
\* error of one that never connected.
LEMMA QuietOutcome ==
    ASSUME PoolInv, OutcomeInv, NEW c \in Client,
           EndedByHolder(c) \/ ConnTimerFires(c) \/ Closed(c) \/ FailedError(c)
    PROVE  OutcomeInv'
<1>1. client \in [Client -> ClientRecord]
  BY DEF PoolInv, PoolOK, AgreeBut
<1>2. /\ UNCHANGED <<pendingQueue, asked, timedOut, calls, reqTimer>>
      /\ \/ client' = [client EXCEPT ![c] = [client[c] EXCEPT !.live = FALSE]]
         \/ client' = [client EXCEPT ![c] = [client[c] EXCEPT !.connTimer = "fired"]]
         \/ client' = [client EXCEPT ![c] = [client[c] EXCEPT !.lifeTimer = FALSE]]
         \/ client' = [client EXCEPT ![c] = [client[c] EXCEPT !.live = FALSE, !.listeners = 0]]
  BY DEF EndedByHolder, ConnTimerFires, Closed, FailedError, requestVars
<1>3. \A d \in Client : client'[d].req = client[d].req /\ client'[d].stage = client[d].stage
  <2>1. CASE client' = [client EXCEPT ![c] = [client[c] EXCEPT !.live = FALSE, !.listeners = 0]]
    <3> DEFINE x == [client[c] EXCEPT !.live = FALSE, !.listeners = 0]
    <3>1. client[c] \in ClientRecord
      BY <1>1
    <3>2. x.req = client[c].req /\ x.stage = client[c].stage
      BY ONLY <3>1 DEF ClientRecord
    <3> HIDE DEF x
    <3>3. client' = [client EXCEPT ![c] = x]
      BY <2>1 DEF x
    <3> QED BY <1>1, <3>2, <3>3
  <2>2. CASE ~(client' = [client EXCEPT ![c] = [client[c] EXCEPT !.live = FALSE, !.listeners = 0]])
    BY <1>1, <1>2, <2>2 DEF ClientRecord
  <2> QED BY <2>1, <2>2
<1> QED BY <1>2, <1>3, FlagOutcome

LEMMA IdleTimeoutOutcome ==
    ASSUME PoolInv, OutcomeInv, NEW c \in Client, IdleTimeoutFires(c) PROVE OutcomeInv'
<1>1. /\ client' = Removed(client, {c}) /\ client[c].idleTimer
      /\ UNCHANGED <<pendingQueue, asked, timedOut, calls, reqTimer>>
  BY DEF IdleTimeoutFires, requestVars
<1>2. client \in [Client -> ClientRecord] /\ client[c].stage = "in"
  BY <1>1 DEF PoolInv, PoolOK, AgreeBut, RecordOK
<1>3. \A d \in Client : d \in {c} => client[d].req = NoRequest
  BY <1>2, Unemployed DEF OutcomeInv
<1>4. Outcomes(client', pendingQueue, asked, timedOut, calls, reqTimer)
  BY <1>1, <1>2, <1>3, RemovedOutcome DEF OutcomeInv
<1> QED BY <1>1, <1>4 DEF OutcomeInv

LEMMA ErrorOutcome ==
    ASSUME PoolInv, OutcomeInv, NEW c \in Client, ClientError(c) PROVE OutcomeInv'
<1>1. /\ UNCHANGED <<pendingQueue, asked, timedOut, calls, reqTimer>>
      /\ client \in [Client -> ClientRecord]
  BY DEF ClientError, requestVars, PoolInv, PoolOK, AgreeBut
<1>2. CASE client[c].listeners > 0
  <2> DEFINE cl == Unheard(client, c)
  <2>1. client' = Removed(cl, {c})
    BY <1>2 DEF ClientError
  <2>2. client[c].stage \notin {"connecting", "verifying", "out", "failed", "refailed"}
    BY <1>2 DEF ClientError, PoolInv, PoolOK, AgreeBut, RecordOK
  <2>3. client[c].req = NoRequest
    BY <2>2, Unemployed DEF OutcomeInv
  <2>4. client[c] \in ClientRecord /\ Unlistened(client[c].listeners) \in Nat
    BY <1>1, <1>2 DEF ClientRecord, Unlistened
  <2>5. cl = [client EXCEPT ![c] = [client[c] EXCEPT !.listeners = Unlistened(client[c].listeners)]]
    BY DEF Unheard
  <2>6. /\ cl \in [Client -> ClientRecord]
        /\ \A d \in Client : cl[d].req = client[d].req /\ cl[d].stage = client[d].stage
    BY <1>1, <2>4, <2>5 DEF ClientRecord
  <2> HIDE DEF cl
  <2>7. Outcomes(cl, pendingQueue, asked, timedOut, calls, reqTimer)
    BY <2>6, SameWork DEF OutcomeInv
  <2>8. \A d \in Client : d \in {c} => cl[d].req = NoRequest
    BY <2>3, <2>6
  <2>9. Outcomes(client', pendingQueue, asked, timedOut, calls, reqTimer)
    BY <2>1, <2>6, <2>7, <2>8, RemovedOutcome
  <2> QED BY <1>1, <2>9 DEF OutcomeInv
<1>3. CASE ~(client[c].listeners > 0)
  <2>1. client' = [client EXCEPT ![c] = [client[c] EXCEPT !.live = FALSE]]
    BY <1>3 DEF ClientError
  <2>2. \A d \in Client : client'[d].req = client[d].req /\ client'[d].stage = client[d].stage
    BY <1>1, <2>1 DEF ClientRecord
  <2> QED BY <1>1, <2>2, FlagOutcome
<1> QED BY <1>2, <1>3

\* A scheduled pulse, and the one end() runs.
LEMMA TickOutcome ==
    ASSUME PoolInv, OutcomeInv, RunTick \/ End PROVE OutcomeInv'
<1> DEFINE ans == {}
<1>1. ans \in SUBSET Request /\ PoolOK(clients, idle, client) /\ RestOK
  BY DEF PoolInv
<1>2. UNCHANGED <<asked, timedOut>>
  BY DEF RunTick, End
<1>3. Told(ans) = calls /\ reqTimer \ ans = reqTimer
  BY NobodyTold
<1>4. Outcomes(client, pendingQueue, asked, timedOut, Told(ans), reqTimer \ ans)
  BY <1>3 DEF OutcomeInv
<1>5. CASE RunTick
  <2>1. PulseQueue(clients, idle, client, ans)
    BY <1>5 DEF RunTick
  <2> HIDE DEF ans
  <2> QED BY <1>1, <1>2, <1>4, <2>1, PulseOutcome
<1>6. CASE End
  <2>1. /\ client' = Removed(client, idle) /\ UNCHANGED <<pendingQueue, asked, timedOut>>
        /\ calls' = calls /\ reqTimer' = reqTimer
    BY <1>3, <1>6 DEF End, DrainIdle, Answer, Told
  <2>2. client \in [Client -> ClientRecord] /\ \A d \in Client : d \in idle => client[d].req = NoRequest
    BY Unemployed DEF OutcomeInv, PoolInv, PoolOK, AgreeBut
  <2>3. Outcomes(client', pendingQueue, asked, timedOut, calls, reqTimer)
    BY <2>1, <2>2, RemovedOutcome DEF OutcomeInv
  <2> QED BY <2>1, <2>3 DEF OutcomeInv
<1> QED BY <1>5, <1>6

-----------------------------------------------------------------------------
LEMMA OutcomeBegins == ASSUME Init PROVE OutcomeInv
<1>1. \A c \in Client : client[c].req = NoRequest
  BY DEF Init, Unborn
<1>2. pendingQueue = <<>> /\ asked = {} /\ timedOut = {} /\ reqTimer = {}
  BY DEF Init
<1>3. Distinct(pendingQueue) /\ \A r : ~Contains(pendingQueue, r)
  BY <1>2 DEF Distinct, Contains
<1>4. \A r \in Request : calls[r] = 0
  BY DEF Init
<1>5. ClientsOK(client, pendingQueue, asked, timedOut, calls)
  BY <1>1 DEF ClientsOK
<1>6. RequestsOK(client, pendingQueue, asked, timedOut, calls, reqTimer)
  BY <1>2, <1>3, <1>4 DEF RequestsOK, Answered
<1> QED BY <1>3, <1>5, <1>6 DEF OutcomeInv, Outcomes

LEMMA OutcomeGoesOn == ASSUME PoolInv, OutcomeInv, [Next]_vars PROVE OutcomeInv'
<1>1. ASSUME NEW r \in Request, ConnectRefused(r) PROVE OutcomeInv'
  BY <1>1, RefusedOutcome
<1>2. ASSUME NEW r \in Request, ConnectQueued(r) PROVE OutcomeInv'
  BY <1>2, QueuedOutcome
<1>3. ASSUME NEW r \in Request, ConnectNew(r) PROVE OutcomeInv'
  BY <1>3, NewOutcome
<1>4. ASSUME NEW r \in Request, ReqTimeoutFires(r) PROVE OutcomeInv'
  BY <1>4, ReqTimeoutOutcome
<1>5. ASSUME NEW c \in Client, NEW err \in BOOLEAN, Release(c, err) PROVE OutcomeInv'
  BY <1>5, HolderReleaseOutcome
<1>6. ASSUME NEW c \in Client,
             EndedByHolder(c) \/ ConnTimerFires(c) \/ Closed(c) \/ FailedError(c)
      PROVE  OutcomeInv'
  BY <1>6, QuietOutcome
<1>7. ASSUME NEW c \in Client, Connected(c) PROVE OutcomeInv'
  BY <1>7, ConnectedOutcome
<1>8. ASSUME NEW c \in Client, ConnectFailed(c) PROVE OutcomeInv'
  BY <1>8, FailOutcome
<1>9. ASSUME NEW c \in Client, NEW ok \in BOOLEAN, VerifyDone(c, ok) PROVE OutcomeInv'
  BY <1>9, VerifiedOutcome
<1>10. ASSUME NEW c \in Client, IdleTimeoutFires(c) PROVE OutcomeInv'
  BY <1>10, IdleTimeoutOutcome
<1>11. ASSUME NEW c \in Client, LifetimeFires(c) PROVE OutcomeInv'
  BY <1>11, LifetimeOutcome
<1>12. ASSUME NEW c \in Client, ClientError(c) PROVE OutcomeInv'
  BY <1>12, ErrorOutcome
<1>13. CASE RunTick \/ End
  BY <1>13, TickOutcome
<1>14. ASSUME NEW c \in Client, ConnectFailsAgain(c) PROVE OutcomeInv'
  BY <1>14, AgainOutcome
<1>15. CASE UNCHANGED vars
  BY <1>15 DEF vars, OutcomeInv
<1> QED BY <1>1, <1>2, <1>3, <1>4, <1>5, <1>6, <1>7, <1>8, <1>9, <1>10, <1>11, <1>12,
           <1>13, <1>14, <1>15 DEF Next

\* The inductive invariant: every request waits, is worked for or is answered,
\* through every handler of Pool.
THEOREM OutcomeInvariant == Spec => []OutcomeInv
<1>1. Init => OutcomeInv
  BY OutcomeBegins
<1>2. PoolInv /\ OutcomeInv /\ [Next]_vars => OutcomeInv'
  BY OutcomeGoesOn
<1> QED BY <1>1, <1>2, PoolInvariant, PTL DEF Spec

LEMMA OutcomeIsOne == ASSUME PoolInv, OutcomeInv PROVE OneOutcome
<1> SUFFICES ASSUME NEW r \in Request
    PROVE  LET places == {i \in 1..Len(pendingQueue) : pendingQueue[i] = r} IN
           /\ Cardinality(For(r)) + Cardinality(places) <= 1
           /\ r \in asked /\ calls[r] = 0 =>
                 places # {} \/ \E c \in For(r) : client[c].stage \in {"connecting", "verifying"}
           /\ calls[r] > 0 => places = {}
           /\ (Verify /\ r \in timedOut) \/ calls[r] <= IF Refailed(r) THEN 2 ELSE 1
           /\ ~Verify /\ r \in timedOut =>
                 \A c \in For(r) : client[c].stage \in {"connecting", "failed", "refailed"}
  BY DEF OneOutcome
<1> DEFINE places == {i \in 1..Len(pendingQueue) : pendingQueue[i] = r}
<1>1. r # NoRequest /\ calls[r] \in Nat
  BY NullAssumption DEF PoolInv, RestOK
<1>2. Contains(pendingQueue, r) <=> places # {}
  BY DEF Contains
<1>3. /\ Distinct(pendingQueue) /\ RequestsOK(client, pendingQueue, asked, timedOut, calls, reqTimer)
      /\ \A c \in For(r) : WorksAlone(client, c, pendingQueue, asked, timedOut, calls)
  BY <1>1 DEF OutcomeInv, Outcomes, ClientsOK, For
<1>4. Cardinality(For(r)) + Cardinality(places) <= 1
  <2>1. Cardinality({}) = 0 /\ \A x : Cardinality({x}) = 1
    BY FS_EmptySet, FS_Singleton
  <2>2. ASSUME NEW c \in For(r) PROVE For(r) = {c} /\ places = {}
    BY <1>2, <1>3 DEF For, WorksAlone
  <2>3. ASSUME NEW i \in places PROVE places = {i}
    BY <1>3 DEF Distinct
  <2>4. CASE For(r) # {}
    <3>1. PICK c \in For(r) : For(r) = {c} /\ places = {}
      BY <2>2, <2>4
    <3>2. Cardinality(For(r)) = 1 /\ Cardinality(places) = 0
      BY <2>1, <3>1
    <3> QED BY <3>2
  <2>5. CASE For(r) = {} /\ places # {}
    <3>1. PICK i \in places : places = {i}
      BY <2>3, <2>5
    <3>2. Cardinality(For(r)) = 0 /\ Cardinality(places) = 1
      BY <2>1, <2>5, <3>1
    <3> QED BY <3>2
  <2>6. CASE For(r) = {} /\ places = {}
    <3>1. Cardinality(For(r)) = 0 /\ Cardinality(places) = 0
      BY <2>1, <2>6
    <3> QED BY <3>1
  <2> QED BY <2>4, <2>5, <2>6
<1>5. r \in asked /\ calls[r] = 0 =>
         places # {} \/ \E c \in For(r) : client[c].stage \in {"connecting", "verifying"}
  <2> SUFFICES ASSUME r \in asked, calls[r] = 0, places = {}
               PROVE  \E c \in For(r) : client[c].stage \in {"connecting", "verifying"}
    OBVIOUS
  <2>1. PICK c \in For(r) : TRUE
    BY <1>2, <1>3 DEF RequestsOK, For
  <2>2. WorkOK(client[c], timedOut, calls) /\ client[c].req = r
    BY <1>3 DEF WorksAlone, For
  <2>3. client[c].stage \in {"connecting", "verifying"}
    BY <2>2 DEF WorkOK
  <2> QED BY <2>3
<1>6. calls[r] > 0 => places = {}
  BY <1>1, <1>2, <1>3 DEF RequestsOK
<1>7. (Verify /\ r \in timedOut) \/ calls[r] <= IF Refailed(r) THEN 2 ELSE 1
  BY <1>1, <1>3 DEF RequestsOK, Answered, Refailed, For
<1>8. ~Verify /\ r \in timedOut =>
         \A c \in For(r) : client[c].stage \in {"connecting", "failed", "refailed"}
  BY <1>3 DEF WorksAlone, WorkOK, For
<1> QED BY <1>4, <1>5, <1>6, <1>7, <1>8

\* A request is answered once, or twice of a connection that failed twice, and has
\* one place: the queue, or one client.
THEOREM EachRequestHasOneOutcome == Spec => []OneOutcome
<1>1. PoolInv /\ OutcomeInv => OneOutcome
  BY OutcomeIsOne
<1> QED BY <1>1, PoolInvariant, OutcomeInvariant, PTL

\* No timer of the pool is armed for something that has happened.
THEOREM TimersAreCurrent == Spec => []TimersMatch
<1>1. PoolInv /\ OutcomeInv => TimersMatch
  <2> SUFFICES ASSUME PoolInv, OutcomeInv PROVE TimersMatch
    OBVIOUS
  <2>1. \A c \in Client : RecordOK(client[c]) /\ (c \in idle <=> client[c].stage = "in")
    BY DEF PoolInv, PoolOK, AgreeBut
  <2>2. \A r \in reqTimer : r \in asked \ timedOut /\ calls[r] = 0
    BY DEF OutcomeInv, Outcomes, RequestsOK
  <2> QED BY <2>1, <2>2 DEF TimersMatch, RecordOK
<1> QED BY <1>1, PoolInvariant, OutcomeInvariant, PTL

-----------------------------------------------------------------------------
\* The leases that clients cl stand for, the requests whose failure may be told
\* again, and what the handlers do to them.

LeasesOf(cl) == {<<cl[c].req, c>> : c \in {d \in Client : cl[d].stage = "out"}}
AgainOf(cl) == {cl[c].req : c \in {d \in Client : cl[d].stage = "failed"}} \ timedOut

\* A client that is out neither before nor after changes nothing.
LEMMA SameLeases ==
    ASSUME NEW cl, NEW cl2,
           \A c \in Client : \/ cl2[c].stage = cl[c].stage /\ cl2[c].req = cl[c].req
                             \/ cl2[c].stage # "out" /\ cl[c].stage # "out"
    PROVE  LeasesOf(cl2) = LeasesOf(cl)
<1>1. \A c \in Client : /\ cl2[c].stage = "out" <=> cl[c].stage = "out"
                        /\ cl2[c].stage = "out" => cl2[c].req = cl[c].req
  OBVIOUS
<1>2. ASSUME NEW l PROVE l \in LeasesOf(cl2) <=> l \in LeasesOf(cl)
  BY <1>1 DEF LeasesOf
<1> QED BY <1>2

LEMMA SameAgain ==
    ASSUME NEW cl, NEW cl2,
           \A c \in Client : \/ cl2[c].stage = cl[c].stage /\ cl2[c].req = cl[c].req
                             \/ cl2[c].stage # "failed" /\ cl[c].stage # "failed"
    PROVE  AgainOf(cl2) = AgainOf(cl)
<1>1. \A c \in Client : /\ cl2[c].stage = "failed" <=> cl[c].stage = "failed"
                        /\ cl2[c].stage = "failed" => cl2[c].req = cl[c].req
  OBVIOUS
<1>2. ASSUME NEW r PROVE r \in AgainOf(cl2) <=> r \in AgainOf(cl)
  BY <1>1 DEF AgainOf
<1> QED BY <1>2

\* Those of a handler that does not set a request down as timed out.
LEMMA NextAgain ==
    ASSUME NEW cl2, cl2 = client', timedOut' = timedOut PROVE Again' = AgainOf(cl2)
  BY DEF Again, AgainOf

\* They were told once.
LEMMA AgainTold ==
    ASSUME PoolInv, OutcomeInv, NEW c \in Client, client[c].stage = "failed"
    PROVE  client[c].req \in Request /\ calls[client[c].req] = 1
           /\ \A d \in Client : client[d].req = client[c].req => d = c
<1>1. client[c].req \in Request /\ client[c].req # NoRequest
  BY LostClient, NullAssumption
<1> QED BY <1>1 DEF OutcomeInv, Outcomes, ClientsOK, WorksAlone, WorkOK

\* The lease on a client that is out no longer ends.
LEMMA LeaseEnds ==
    ASSUME NEW cl, NEW cl2, NEW c \in Client, cl2[c].stage # "out",
           \A d \in Client \ {c} : cl2[d] = cl[d]
    PROVE  LeasesOf(cl2) \in {LeasesOf(cl)} \cup {LeasesOf(cl) \ {l} : l \in LeasesOf(cl)}
<1>1. CASE cl[c].stage # "out"
  <2>1. LeasesOf(cl2) = LeasesOf(cl)
    BY <1>1, SameLeases
  <2> QED BY <2>1
<1>2. CASE cl[c].stage = "out"
  <2> DEFINE l == <<cl[c].req, c>>
  <2>1. l \in LeasesOf(cl)
    BY <1>2 DEF LeasesOf
  <2>2. ASSUME NEW m PROVE m \in LeasesOf(cl2) <=> m \in LeasesOf(cl) \ {l}
    BY <1>2 DEF LeasesOf
  <2>3. LeasesOf(cl2) = LeasesOf(cl) \ {l}
    BY <2>2
  <2> HIDE DEF l
  <2> QED BY <2>1, <2>3
<1> QED BY <1>1, <1>2

\* A client that goes out is leased, and was not before.
GoesOut(cl, cl2, c, r) ==
    /\ cl[c].stage # "out" /\ cl2[c].stage = "out" /\ cl2[c].req = r
    /\ \A d \in Client \ {c} : cl2[d] = cl[d]

LEMMA LeaseBegins ==
    ASSUME NEW cl, NEW cl2, NEW c \in Client, NEW r, GoesOut(cl, cl2, c, r)
    PROVE  /\ LeasesOf(cl2) = LeasesOf(cl) \cup {<<r, c>>}
           /\ \A l \in LeasesOf(cl) : l[2] # c
<1>1. ASSUME NEW m PROVE m \in LeasesOf(cl2) <=> m \in LeasesOf(cl) \cup {<<r, c>>}
  BY DEF LeasesOf, GoesOut
<1>2. \A l \in LeasesOf(cl) : l[2] # c
  BY DEF LeasesOf, GoesOut
<1> QED BY <1>1, <1>2

\* While the pool owns a client that is not out, fewer than MaxSize are leased.
LEMMA FewLeases ==
    ASSUME NEW cs, NEW is, NEW cl, PoolOK(cs, is, cl),
           NEW c \in Client, cl[c].stage \in Open \ {"out"}
    PROVE  Cardinality(LeasesOf(cl)) < MaxSize
<1> DEFINE Out == {d \in Client : cl[d].stage = "out"}
           f == [d \in Out |-> <<cl[d].req, d>>]
<1>1. /\ Out \subseteq cs \ {c} /\ c \in cs /\ IsFiniteSet(cs) /\ Cardinality(cs) <= MaxSize
  BY DEF PoolOK, AgreeBut, Open
<1>2. /\ IsFiniteSet(cs \ {c}) /\ Cardinality(cs \ {c}) = Cardinality(cs) - 1
      /\ Cardinality(cs) \in Nat
  BY <1>1, FS_RemoveElement, FS_CardinalityType
<1>3. IsFiniteSet(Out) /\ Cardinality(Out) <= Cardinality(cs \ {c})
  BY <1>1, <1>2, FS_Subset
<1>4. f \in Surjection(Out, LeasesOf(cl))
  BY DEF Surjection, LeasesOf
<1>5. IsFiniteSet(LeasesOf(cl)) /\ Cardinality(LeasesOf(cl)) <= Cardinality(Out)
  <2> HIDE DEF Out, f
  <2> QED BY <1>3, <1>4, FS_Surjection
<1>6. Cardinality(LeasesOf(cl)) \in Nat /\ Cardinality(Out) \in Nat
  BY <1>3, <1>5, FS_CardinalityType
<1> HIDE DEF Out
<1> QED BY <1>1, <1>2, <1>3, <1>5, <1>6, SizeAssumption

-----------------------------------------------------------------------------
\* The steps of PoolLease that the handlers take.

\* The failures ans are told by a handler that has brought the clients to cl.
FailsOn(cl, ans) ==
    /\ ans \in Lease!Failed /\ ans \subseteq Lease!Waiting \cup Again
    /\ AgainOf(cl) \in {Again \ ans, (Again \ ans) \cup (ans \cap Lease!Waiting)}

LEMMA FailsWell ==
    ASSUME NEW cl, NEW ans, FailsOn(cl, ans), Again' = AgainOf(cl) PROVE Lease!Fails(ans)
<1>1. /\ ans \subseteq Lease!Waiting \cup Again
      /\ Again' \in {Again \ ans, (Again \ ans) \cup (ans \cap Lease!Waiting)}
  BY DEF FailsOn
<1> QED BY <1>1 DEF Lease!Fails

\* A handler that fails nobody, and leaves the client that had failed so.
LEMMA FailsNobody ==
    ASSUME NEW cl, AgainOf(cl) = Again PROVE FailsOn(cl, {})
  BY DEF FailsOn, Lease!Failed

\* A handler that answers the requests of ans, that leaves leases which a client
\* came back from or not, and that does not end the pool while something is lent.
LEMMA TakesBack ==
    ASSUME NEW ans, NEW cl, FailsOn(cl, ans), Again' = AgainOf(cl), Answer(ans),
           Leases' \in Lease!Left, UNCHANGED <<asked, ending>>,
           \/ endCalls' = endCalls
           \/ ending /\ Leases' = {} /\ endCalls' = 1
    PROVE  Lease!Next
<1>1. Lease!Answer(ans)
  BY DEF Answer, Lease!Answer
<1>2. Lease!MayReport(Leases')
  BY DEF Lease!MayReport
<1>3. Lease!TakeBack(ans)
  BY <1>1, <1>2, FailsWell DEF Lease!TakeBack
<1> QED BY <1>3 DEF Lease!Next, FailsOn

\* A handler that also lends client c, which is not leased.
LEMMA Lends ==
    ASSUME NEW ans, NEW cl, FailsOn(cl, ans), timedOut' = timedOut,
           NEW r \in Request, r \in Lease!Waiting \ ans, Answer(ans \cup {r}),
           NEW c \in Client, NEW cs, NEW is, PoolOK(cs, is, cl),
           cl[c].stage \in Open \ {"out"}, LeasesOf(cl) \in Lease!Left,
           client'[c].stage = "out", client'[c].req = r,
           \A d \in Client \ {c} : client'[d] = cl[d],
           endCalls = 0, UNCHANGED <<asked, ending, endCalls>>
    PROVE  Lease!Next
<1> DEFINE left == LeasesOf(cl)
           cl2 == client'
<1>1. Lease!Answer(ans \cup {r})
  BY DEF Answer, Lease!Answer
<1>2. GoesOut(cl, cl2, c, r)
  BY DEF GoesOut
<1>3. Leases' = LeasesOf(cl2) /\ Again' = AgainOf(cl2)
  BY NextAgain DEF Leases, LeasesOf
<1>9. AgainOf(cl2) = AgainOf(cl)
  <2>1. \A d \in Client : \/ cl2[d].stage = cl[d].stage /\ cl2[d].req = cl[d].req
                          \/ cl2[d].stage # "failed" /\ cl[d].stage # "failed"
    BY DEF Open
  <2> HIDE DEF cl2
  <2> QED BY <2>1, SameAgain
<1> HIDE DEF cl2
<1>4. LeasesOf(cl2) = left \cup {<<r, c>>} /\ \A l \in left : l[2] # c
  BY <1>2, LeaseBegins
<1>5. c \notin Lease!Held(left) /\ Leases' = left \cup {<<r, c>>}
  BY <1>3, <1>4 DEF Lease!Held
<1>6. Lease!Cardinality(left) < MaxSize
  <2>1. Cardinality(left) < MaxSize
    BY FewLeases
  <2>2. Lease!Cardinality(left) = Cardinality(left)
    BY DEF Lease!Cardinality, Cardinality
  <2> QED BY <2>1, <2>2
<1>7. left \in Lease!Left
  OBVIOUS
<1> HIDE DEF left
<1>8. Lease!Lend(r, c, ans)
  BY <1>1, <1>3, <1>5, <1>6, <1>7, <1>9, FailsWell DEF Lease!Lend
<1> QED BY <1>8 DEF Lease!Next, FailsOn

\* A removed client is gone.
LEMMA GoneStage ==
    ASSUME NEW cl \in [Client -> ClientRecord], NEW S, NEW c \in Client, c \in S
    PROVE  Removed(cl, S)[c].stage = "gone"
<1> DEFINE y == cl[c]
<1>1. y \in ClientRecord
  OBVIOUS
<1>2. Removed(cl, S)[c] = [y EXCEPT !.stage = "gone", !.req = NoRequest, !.host = NoHost,
                                   !.live = FALSE, !.idleTimer = FALSE]
  BY DEF Removed
<1> HIDE DEF y
<1> QED BY <1>1, <1>2 DEF ClientRecord

\* _pulseQueue, run by a handler that brought the clients to cl: one of the two.
LEMMA PulseLeases ==
    ASSUME NEW cs, NEW is, NEW cl, NEW ans \in SUBSET Request,
           PoolOK(cs, is, cl), RestOK, EndOK(cs), PulseQueue(cs, is, cl, ans),
           Outcomes(cl, pendingQueue, asked, timedOut, Told(ans), reqTimer \ ans),
           LeasesOf(cl) \in Lease!Left, FailsOn(cl, ans),
           UNCHANGED <<asked, timedOut, ending>>
    PROVE  Lease!Next
<1>1. cl \in [Client -> ClientRecord] /\ is \subseteq Client /\ \A c \in is : cl[c].stage = "in"
  BY DEF PoolOK, AgreeBut
<1> DEFINE cl2 == client'
<1>2. Leases' = LeasesOf(cl2) /\ Again' = AgainOf(cl2)
  BY NextAgain DEF Leases, LeasesOf
<1>3. CASE ~ended /\ ending /\ DrainIdle(cs, is, cl, ans)
  <2>1. cl2 = Removed(cl, is) /\ Answer(ans)
        /\ endCalls' = IF cs \subseteq is THEN endCalls + 1 ELSE endCalls
    BY <1>3 DEF DrainIdle
  <2>2. \A c \in Client :
            \/ cl2[c].stage = cl[c].stage /\ cl2[c].req = cl[c].req
            \/ cl2[c].stage \notin {"out", "failed"} /\ cl[c].stage \notin {"out", "failed"}
    <3>1. ASSUME NEW c \in is
          PROVE  cl2[c].stage \notin {"out", "failed"} /\ cl[c].stage \notin {"out", "failed"}
      <4>1. cl2[c].stage = "gone"
        BY <1>1, <2>1, GoneStage
      <4> QED BY <1>1, <4>1
    <3>2. \A c \in Client \ is : cl2[c] = cl[c]
      BY <2>1 DEF Removed
    <3> QED BY <3>1, <3>2
  <2> HIDE DEF cl2
  <2>3. Leases' = LeasesOf(cl) /\ Again' = AgainOf(cl)
    BY <1>2, <2>2, SameLeases, SameAgain
  <2>4. endCalls = 0
    BY <1>3 DEF EndOK
  <2>5. CASE cs \subseteq is
    <3>1. \A c \in Client : cl[c].stage # "out"
      BY <2>5 DEF PoolOK, AgreeBut, Open
    <3>2. Leases' = {}
      BY <2>3, <3>1 DEF LeasesOf
    <3> QED BY <1>3, <2>1, <2>3, <2>4, <2>5, <3>2, TakesBack
  <2>6. CASE ~(cs \subseteq is)
    BY <2>1, <2>3, <2>6, TakesBack
  <2> QED BY <2>5, <2>6
<1>4. CASE ~ending /\ pendingQueue # <<>> /\ ServeNext(cs, is, cl, ans)
  <2> DEFINE r == Head(pendingQueue)
  <2>1. r \in Request /\ Contains(pendingQueue, r)
    BY <1>4, TailQueue, HeadTailProperties DEF Outcomes, RestOK
  <2>2. PICK t \in Host \cup {NoHost} :
        \/ \E c \in is : cl2 = Lent(cl, c, r) /\ Answer(ans \cup {r})
        \/ \E c \in Client : cl[c].stage = "none" /\ cl2 = Launched(cl, c, r, t) /\ Answer(ans)
    BY <1>4 DEF ServeNext, Target, IdleFor
  <2> HIDE DEF r
  <2>3. endCalls = 0 /\ endCalls' = endCalls
    BY <1>4 DEF EndOK, ServeNext
  <2>4. r \in Lease!Waiting \ ans
    <3>1. r \in asked /\ Told(ans)[r] = 0 /\ calls[r] \in Nat
      <4>1. calls[r] \in Nat
        BY <2>1 DEF RestOK
      <4>2. /\ r \in asked /\ r \notin timedOut /\ Told(ans)[r] = 0
            /\ OnlyTold(r, timedOut, Told(ans), Told(ans \cup {r}), reqTimer \ ans,
                        reqTimer \ (ans \cup {r}))
            /\ Told(ans \cup {r})[r] # 0
        BY <2>1, TellsHead
      <4> QED BY <4>1, <4>2
    <3> QED BY <2>1, <3>1 DEF Told, Lease!Waiting
  <2>5. ASSUME NEW c \in is, cl2 = Lent(cl, c, r), Answer(ans \cup {r}) PROVE Lease!Next
    <3>1. c \in Client /\ cl[c].stage \in Open \ {"out"}
      BY <1>1 DEF Open
    <3>2. /\ cl2[c] = [cl[c] EXCEPT !.stage = "out", !.req = r, !.idleTimer = FALSE,
                                    !.listeners = Unlistened(cl[c].listeners)]
          /\ \A d \in Client \ {c} : cl2[d] = cl[d]
      BY <1>1, <2>5, <3>1 DEF Lent
    <3>3. cl2[c].stage = "out" /\ cl2[c].req = r
      <4>1. cl[c] \in ClientRecord
        BY <1>1, <3>1
      <4> QED BY ONLY <3>2, <4>1 DEF ClientRecord
    <3> QED BY <2>1, <2>3, <2>4, <2>5, <3>1, <3>2, <3>3, Lends
  <2>6. ASSUME NEW c \in Client, cl[c].stage = "none", cl2 = Launched(cl, c, r, t), Answer(ans)
        PROVE  Lease!Next
    <3>1. /\ cl2[c] = [cl[c] EXCEPT !.stage = "connecting", !.req = r, !.host = t,
                                    !.connTimer = IF ConnTimeout THEN "armed" ELSE "off"]
          /\ \A d \in Client \ {c} : cl2[d] = cl[d]
      BY <1>1, <2>6 DEF Launched
    <3>2. cl2[c].stage = "connecting"
      <4>1. cl[c] \in ClientRecord
        BY <1>1
      <4> QED BY ONLY <3>1, <4>1 DEF ClientRecord
    <3>3. \A d \in Client :
            \/ cl2[d].stage = cl[d].stage /\ cl2[d].req = cl[d].req
            \/ cl2[d].stage \notin {"out", "failed"} /\ cl[d].stage \notin {"out", "failed"}
      BY <2>6, <3>1, <3>2
    <3> HIDE DEF cl2
    <3>4. Leases' = LeasesOf(cl) /\ Again' = AgainOf(cl)
      BY <1>2, <3>3, SameLeases, SameAgain
    <3> QED BY <2>3, <2>6, <3>4, TakesBack
  <2> QED BY <2>2, <2>5, <2>6
<1>5. CASE cl2 = cl /\ Answer(ans) /\ endCalls' = endCalls
  BY <1>2, <1>5, TakesBack
<1> QED BY <1>3, <1>4, <1>5 DEF PulseQueue

\* A handler that changes neither the request nor the stage of a client that is
\* out or has failed once, and makes none so.
SameOut ==
    \A c \in Client :
        \/ client'[c].stage = client[c].stage /\ client'[c].req = client[c].req
        \/ client'[c].stage \notin {"out", "failed"} /\ client[c].stage \notin {"out", "failed"}

LEMMA LeasesStay ==
    ASSUME SameOut, timedOut' = timedOut PROVE Leases' = Leases /\ Again' = Again
<1> DEFINE cl2 == client'
<1>1. \A c \in Client :
          \/ cl2[c].stage = client[c].stage /\ cl2[c].req = client[c].req
          \/ cl2[c].stage \notin {"out", "failed"} /\ client[c].stage \notin {"out", "failed"}
  BY DEF SameOut
<1>2. Leases' = LeasesOf(cl2) /\ Again' = AgainOf(cl2)
  BY NextAgain DEF Leases, LeasesOf
<1>3. Leases = LeasesOf(client) /\ Again = AgainOf(client)
  BY DEF Leases, LeasesOf, Again, AgainOf
<1> HIDE DEF cl2
<1> QED BY <1>1, <1>2, <1>3, SameLeases, SameAgain

\* pool.connect.
LEMMA ConnectLeases ==
    ASSUME PoolInv, OutcomeInv, NEW r \in Request,
           ConnectRefused(r) \/ ConnectQueued(r) \/ ConnectNew(r)
    PROVE  Lease!Next
<1>1. calls \in [Request -> Nat] /\ client \in [Client -> ClientRecord]
  BY DEF PoolInv, RestOK, PoolOK, AgreeBut
<1>2. CASE ConnectRefused(r)
  <2>1. /\ r \notin asked /\ asked' = asked \cup {r} /\ ending /\ Lease!Answer({r})
        /\ UNCHANGED <<client, timedOut, ending, endCalls>>
    BY <1>2 DEF ConnectRefused, Answer, Lease!Answer, poolVars, endVars
  <2>2. Leases' = Leases /\ Again' = Again
    BY <2>1 DEF Leases, Again
  <2>3. Lease!Ask(r)
    BY <2>1, <2>2 DEF Lease!Ask
  <2> QED BY <2>3 DEF Lease!Next
<1>3. CASE ConnectQueued(r) \/ ConnectNew(r)
  <2>1. /\ r \notin asked /\ asked' = asked \cup {r} /\ ~ending /\ calls' = calls
        /\ UNCHANGED <<timedOut, ending, endCalls>>
    BY <1>3 DEF ConnectQueued, ConnectNew, endVars
  <2>2. Lease!Answer({})
    BY <1>1, <2>1 DEF Lease!Answer
  <2>3. SameOut
    <3>1. CASE ConnectQueued(r)
      BY <3>1 DEF ConnectQueued, SameOut
    <3>2. CASE ConnectNew(r)
      <4>1. PICK c \in Client : client[c].stage = "none" /\ client' = Launched(client, c, r, NoHost)
        BY <3>2 DEF ConnectNew
      <4>2. /\ client'[c] = [client[c] EXCEPT !.stage = "connecting", !.req = r, !.host = NoHost,
                                              !.connTimer = IF ConnTimeout THEN "armed" ELSE "off"]
            /\ \A d \in Client \ {c} : client'[d] = client[d]
        BY <1>1, <4>1 DEF Launched
      <4>3. client'[c].stage = "connecting"
        <5>1. client[c] \in ClientRecord
          BY <1>1
        <5> QED BY ONLY <4>2, <5>1 DEF ClientRecord
      <4> QED BY <4>1, <4>2, <4>3 DEF SameOut
    <3> QED BY <1>3, <3>1, <3>2
  <2>4. Lease!Ask(r)
    BY <2>1, <2>2, <2>3, LeasesStay DEF Lease!Ask
  <2> QED BY <2>4 DEF Lease!Next
<1> QED BY <1>2, <1>3

\* The checkout timer of a request.
LEMMA ReqTimeoutLeases ==
    ASSUME PoolInv, OutcomeInv, NEW r \in Request, ReqTimeoutFires(r)
    PROVE  Lease!Next
<1>1. /\ r \in reqTimer /\ Answer({r}) /\ UNCHANGED <<client, asked, ending, endCalls>>
      /\ timedOut' = timedOut \cup {r}
  BY DEF ReqTimeoutFires, endVars
<1>2. {r} \in Lease!Failed /\ {r} \subseteq Lease!Waiting
  BY <1>1 DEF Lease!Failed, Lease!Waiting, OutcomeInv, Outcomes, RequestsOK
<1>3. Leases' = Leases /\ Again' = Again \ {r}
  BY <1>1 DEF Leases, Again
<1>4. /\ Lease!Answer({r}) /\ Lease!Fails({r}) /\ Lease!MayReport(Leases')
      /\ Leases' \in Lease!Left
  BY <1>1, <1>2, <1>3 DEF Answer, Lease!Answer, Lease!Fails, Lease!MayReport, Lease!Left
<1>5. Lease!TakeBack({r})
  BY <1>1, <1>4 DEF Lease!TakeBack
<1> QED BY <1>2, <1>5 DEF Lease!Next

\* The release of a client, once its request is answered.
LEMMA ReleaseLeases ==
    ASSUME PoolInv, NEW c \in clients, NEW cl, NEW err \in BOOLEAN, NEW ans \in SUBSET Request,
           cl \in [Client -> ClientRecord], \A d \in Client \ {c} : cl[d] = client[d],
           cl[c].listeners = 0, cl[c].connTimer = "off", OutcomeInv,
           OnlyTold(client[c].req, timedOut, calls, Told(ans), reqTimer, reqTimer \ ans),
           client[c].req # NoRequest => Told(ans)[client[c].req] # 0,
           DoRelease(clients, idle, cl, c, err, ans), ans = {},
           UNCHANGED <<asked, timedOut, ticks, ending>>
    PROVE  Lease!Next
<1>1. PICK cs2, is2, cl2 :
              /\ PoolOK(cs2, is2, cl2) /\ EndOK(cs2) /\ PulseQueue(cs2, is2, cl2, ans)
              /\ Outcomes(cl2, pendingQueue, asked, timedOut, Told(ans), reqTimer \ ans)
              /\ cl2[c].stage \notin {"out", "failed"}
              /\ \A d \in Client \ {c} : cl2[d] = client[d]
              /\ err => cl2[c].stage = "gone"
  BY ReleaseLeads
<1>2. c \in Client /\ RestOK /\ client[c].stage # "failed"
  BY DEF PoolInv, PoolOK, AgreeBut, Open
<1>4. FailsOn(cl2, ans)
  <2>1. \A d \in Client : \/ cl2[d].stage = client[d].stage /\ cl2[d].req = client[d].req
                          \/ cl2[d].stage # "failed" /\ client[d].stage # "failed"
    BY <1>1, <1>2
  <2>2. AgainOf(cl2) = Again
    BY <2>1, SameAgain DEF Again, AgainOf
  <2> QED BY <2>2, FailsNobody
<1>3. LeasesOf(cl2) \in Lease!Left
  <2>1. Leases = LeasesOf(client)
    BY DEF Leases, LeasesOf
  <2>2. LeasesOf(cl2) \in {LeasesOf(client)} \cup {LeasesOf(client) \ {l} : l \in LeasesOf(client)}
    BY <1>1, <1>2, LeaseEnds
  <2> QED BY <2>1, <2>2 DEF Lease!Left
<1> QED BY <1>1, <1>2, <1>3, <1>4, PulseLeases

LEMMA HolderReleaseLeases ==
    ASSUME PoolInv, OutcomeInv, NEW c \in Client, NEW err \in BOOLEAN, Release(c, err)
    PROVE  Lease!Next
<1> DEFINE ans == {}
<1>1. DoRelease(clients, idle, client, c, err, ans) /\ ans \in SUBSET Request
  BY DEF Release
<1>2. /\ client \in [Client -> ClientRecord] /\ c \in clients
      /\ client[c].listeners = 0 /\ client[c].connTimer = "off"
      /\ OnlyTold(client[c].req, timedOut, calls, Told(ans), reqTimer, reqTimer \ ans)
      /\ client[c].req # NoRequest => Told(ans)[client[c].req] # 0
      /\ UNCHANGED <<asked, timedOut, ticks, ending>>
  BY HolderReleases
<1>3. ans = {}
  OBVIOUS
<1> HIDE DEF ans
<1> QED BY <1>1, <1>2, <1>3, ReleaseLeases

\* The two outcomes of client.connect.
LEMMA ConnectedLeases ==
    ASSUME ~Verify, PoolInv, OutcomeInv, NEW c \in Client, Connected(c) PROVE Lease!Next
<1> DEFINE r == client[c].req
           ans == {}
<1>1. /\ client[c].stage = "connecting" /\ c \in clients /\ UNCHANGED <<asked, timedOut, ticks, ending>>
      /\ PoolOK(clients, idle, client) /\ client \in [Client -> ClientRecord]
  BY BusyClient DEF Connected, PoolInv, PoolOK, AgreeBut
<1>2. r \in Request /\ r # NoRequest
  BY <1>1, BusyClient, NullAssumption DEF RecordOK
<1>3. PICK h \in Host \cup {NoHost} :
          \/ /\ r \notin timedOut
             /\ client' = Handed(Opened(client, c, h), c, "out", r)
             /\ Answer({r}) /\ UNCHANGED endCalls
          \/ /\ r \in timedOut
             /\ DoRelease(clients, idle, Opened(client, c, h), c, FALSE, {})
  <2>1. client[c].host \in Host \cup {NoHost}
    BY <1>1 DEF ClientRecord
  <2> QED BY <2>1 DEF Connected
<1> DEFINE up == Opened(client, c, h)
<1>4. /\ up \in [Client -> ClientRecord] /\ \A d \in Client \ {c} : up[d] = client[d]
      /\ up[c].listeners = 0 /\ up[c].connTimer = "off"
  BY <1>1, OpenedClient
<1>5. calls[r] = Times(timedOut, r) /\ r \in asked /\ (r \in timedOut => calls[r] # 0)
  BY <1>1, <1>2 DEF OutcomeInv, Outcomes, ClientsOK, RequestsOK, WorksAlone, WorkOK
<1>6. ans \in SUBSET Request /\ ans = {} /\ FailsOn(client, ans)
  <2>1. AgainOf(client) = Again
    BY DEF AgainOf, Again
  <2> QED BY <2>1, FailsNobody
<1> HIDE DEF up
<1>7. CASE r \notin timedOut /\ client' = Handed(up, c, "out", r) /\ Answer({r}) /\ UNCHANGED endCalls
  <2>1. /\ client'[c].stage = "out" /\ client'[c].req = r
        /\ \A d \in Client \ {c} : client'[d] = client[d]
    BY <1>4, <1>7, HandedClient
  <2>2. r \in Lease!Waiting \ ans /\ Answer(ans \cup {r})
    <3>1. ans \cup {r} = {r}
      OBVIOUS
    <3> QED BY <1>5, <1>7, <3>1 DEF Lease!Waiting, Times
  <2>3. endCalls = 0
    BY <1>1 DEF PoolInv, EndOK
  <2>4. LeasesOf(client) \in Lease!Left /\ client[c].stage \in Open \ {"out"}
    <3>1. LeasesOf(client) = Leases
      BY DEF LeasesOf, Leases
    <3> QED BY <1>1, <3>1 DEF Lease!Left, Open
  <2> HIDE DEF ans
  <2> QED BY <1>1, <1>2, <1>6, <1>7, <2>1, <2>2, <2>3, <2>4, Lends
<1>8. CASE r \in timedOut /\ DoRelease(clients, idle, up, c, FALSE, {})
  <2> DEFINE err == FALSE
  <2>1. /\ err \in BOOLEAN /\ DoRelease(clients, idle, up, c, err, ans)
        /\ OnlyTold(r, timedOut, calls, Told(ans), reqTimer, reqTimer \ ans)
        /\ Told(ans)[r] # 0
    BY <1>1, <1>2, <1>5, <1>8, TellsNobody
  <2> HIDE DEF err, ans
  <2> QED BY <1>1, <1>4, <1>6, <2>1, ReleaseLeases
<1> QED BY <1>3, <1>7, <1>8 DEF up

LEMMA FailLeases ==
    ASSUME PoolInv, OutcomeInv, NEW c \in Client, ConnectFailed(c) PROVE Lease!Next
<1>1. PICK cs, cl, ans :
              /\ ans = {client[c].req} \ timedOut /\ ans \in SUBSET Request
              /\ PoolOK(cs, idle, cl) /\ EndOK(cs) /\ PulseQueue(cs, idle, cl, ans)
              /\ Outcomes(cl, pendingQueue, asked, timedOut, Told(ans), reqTimer \ ans)
              /\ \/ cl[c].stage = "gone"
                 \/ cl[c].stage = "failed" /\ cl[c].req = client[c].req
              /\ \A d \in Client \ {c} : cl[d] = client[d]
  BY FailLeads
<1>2. RestOK /\ UNCHANGED <<asked, timedOut, ending>> /\ client[c].stage = "connecting"
  BY DEF PoolInv, ConnectFailed
<1> DEFINE r == client[c].req
<1>3. r \in Request /\ r # NoRequest
  BY <1>2, BusyClient, NullAssumption DEF RecordOK
<1>4. /\ ans \in Lease!Failed /\ ans \subseteq Lease!Waiting
      /\ (ans = {} /\ r \in timedOut) \/ (ans = {r} /\ r \notin timedOut)
  <2>1. r \in asked /\ calls[r] = Times(timedOut, r)
    BY <1>2, <1>3 DEF OutcomeInv, Outcomes, ClientsOK, WorksAlone, WorkOK
  <2>2. r \notin timedOut => r \in Lease!Waiting
    BY <2>1 DEF Times, Lease!Waiting
  <2>3. (ans = {} /\ r \in timedOut) \/ (ans = {r} /\ r \notin timedOut)
    BY <1>1
  <2> QED BY <1>3, <2>2, <2>3 DEF Lease!Failed
<1>5. LeasesOf(cl) \in Lease!Left
  <2>1. Leases = LeasesOf(client)
    BY DEF Leases, LeasesOf
  <2>2. LeasesOf(cl) \in {LeasesOf(client)} \cup {LeasesOf(client) \ {l} : l \in LeasesOf(client)}
    <3>1. cl[c].stage # "out" /\ \A d \in Client \ {c} : cl[d] = client[d]
      BY <1>1
    <3> QED BY <3>1, LeaseEnds
  <2> QED BY <2>1, <2>2 DEF Lease!Left
<1>6. r \notin Again
  <2>1. \A d \in Client : client[d].stage = "failed" => client[d].req # r
    BY <1>2, AgainTold
  <2> QED BY <2>1 DEF Again
<1>7. FailsOn(cl, ans)
  <2>1. CASE cl[c].stage = "gone"
    <3>1. \A d \in Client : \/ cl[d].stage = client[d].stage /\ cl[d].req = client[d].req
                            \/ cl[d].stage # "failed" /\ client[d].stage # "failed"
      BY <1>1, <1>2, <2>1
    <3>2. AgainOf(cl) = Again
      BY <3>1, SameAgain DEF Again, AgainOf
    <3>3. Again \ ans = Again
      BY <1>4, <1>6
    <3> QED BY <1>4, <3>2, <3>3 DEF FailsOn
  <2>2. CASE cl[c].stage = "failed" /\ cl[c].req = r
    <3>1. ASSUME NEW q PROVE q \in AgainOf(cl) <=> q \in (Again \cup {r}) \ timedOut
      BY <1>1, <1>2, <2>2 DEF AgainOf, Again
    <3>2. AgainOf(cl) = (Again \cup {r}) \ timedOut
      BY <3>1
    <3>3. Again \ timedOut = Again
      BY DEF Again
    <3>4. (Again \ ans) \cup (ans \cap Lease!Waiting) = (Again \cup {r}) \ timedOut
      BY <1>4, <1>6, <3>3
    <3> QED BY <1>4, <3>2, <3>4 DEF FailsOn
  <2> QED BY <1>1, <2>1, <2>2
<1> QED BY <1>1, <1>2, <1>5, <1>7, PulseLeases

\* What is reported again is taken off the failures that may be.
LEMMA AgainLeases ==
    ASSUME PoolInv, OutcomeInv, NEW c \in Client, ConnectFailsAgain(c) PROVE Lease!Next
<1>1. PICK cl, ans :
              /\ ans = {client[c].req} \ timedOut /\ ans \in SUBSET Request
              /\ PoolOK(clients, idle, cl) /\ PulseQueue(clients, idle, cl, ans)
              /\ Outcomes(cl, pendingQueue, asked, timedOut, Told(ans), reqTimer \ ans)
              /\ cl[c].stage = "refailed" /\ \A d \in Client \ {c} : cl[d] = client[d]
  BY AgainLeads
<1>2. /\ RestOK /\ EndOK(clients) /\ UNCHANGED <<asked, timedOut, ending>>
      /\ client[c].stage = "failed"
  BY DEF PoolInv, ConnectFailsAgain
<1> DEFINE r == client[c].req
<1>3. r \in Request /\ \A d \in Client : client[d].req = r => d = c
  BY <1>2, AgainTold
<1>4. LeasesOf(cl) \in Lease!Left
  <2>1. \A d \in Client : \/ cl[d].stage = client[d].stage /\ cl[d].req = client[d].req
                          \/ cl[d].stage # "out" /\ client[d].stage # "out"
    BY <1>1, <1>2
  <2>2. LeasesOf(cl) = Leases
    BY <2>1, SameLeases DEF Leases, LeasesOf
  <2> QED BY <2>2 DEF Lease!Left
<1>5. FailsOn(cl, ans)
  <2>1. ASSUME NEW q PROVE q \in AgainOf(cl) <=> q \in Again \ {r}
    BY <1>1, <1>2, <1>3 DEF AgainOf, Again
  <2>2. AgainOf(cl) = Again \ {r}
    BY <2>1
  <2>3. CASE r \in timedOut
    <3>1. ans = {} /\ Again \ {r} = Again
      BY <1>1, <2>3 DEF Again
    <3> QED BY <2>2, <3>1 DEF FailsOn, Lease!Failed
  <2>4. CASE r \notin timedOut
    <3>1. ans = {r} /\ r \in Again
      BY <1>1, <1>2, <2>4 DEF Again
    <3> QED BY <1>3, <2>2, <3>1 DEF FailsOn, Lease!Failed
  <2> QED BY <2>3, <2>4
<1> QED BY <1>1, <1>2, <1>4, <1>5, PulseLeases

\* Without options.verify nobody waits for a client that is being verified.
LEMMA VerifiedLeases ==
    ASSUME ~Verify, PoolInv, OutcomeInv, NEW c \in Client, NEW ok \in BOOLEAN, VerifyDone(c, ok)
    PROVE  Lease!Next
<1> DEFINE ans == {}
           err == ~ok
<1>1. /\ client[c].stage = "verifying" /\ c \in clients /\ client[c].listeners = 0
      /\ client[c].connTimer = "off" /\ UNCHANGED <<asked, timedOut, ticks, ending>>
      /\ client \in [Client -> ClientRecord]
  BY BusyClient DEF VerifyDone, PoolInv, PoolOK, AgreeBut
<1>2. client[c].req = NoRequest
  BY <1>1 DEF OutcomeInv, Outcomes, ClientsOK, WorksAlone, WorkOK
<1>3. DoRelease(clients, idle, client, c, err, ans)
  <2>1. {client[c].req} \ {NoRequest} = {}
    BY <1>2
  <2> QED BY <1>2, <2>1 DEF VerifyDone
<1>4. /\ ans \in SUBSET Request /\ ans = {} /\ err \in BOOLEAN
      /\ OnlyTold(client[c].req, timedOut, calls, Told(ans), reqTimer, reqTimer \ ans)
  BY <1>1, TellsNobody
<1> HIDE DEF ans, err
<1> QED BY <1>1, <1>2, <1>3, <1>4, ReleaseLeases

LEMMA LifetimeLeases ==
    ASSUME PoolInv, OutcomeInv, NEW c \in Client, LifetimeFires(c)
    PROVE  [Lease!Next]_(Lease!vars)
<1>1. UNCHANGED <<asked, timedOut, ticks, ending>> /\ client \in [Client -> ClientRecord]
  BY DEF LifetimeFires, PoolInv, PoolOK, AgreeBut
<1>2. CASE c \in idle
  <2> DEFINE cl == Unheard(Marked(client, c), c)
             err == FALSE
             ans == {}
  <2>1. /\ cl \in [Client -> ClientRecord] /\ \A d \in Client \ {c} : cl[d] = client[d]
        /\ cl[c].listeners = 0 /\ cl[c].connTimer = "off" /\ c \in clients
    BY <1>2, ExpiredPool
  <2>2. client[c].req = NoRequest /\ client[c].stage = "in"
    BY <1>2, Unemployed DEF OutcomeInv, PoolInv, PoolOK, AgreeBut
  <2>3. /\ err \in BOOLEAN /\ ans \in SUBSET Request /\ DoRelease(clients, idle, cl, c, err, ans)
        /\ OnlyTold(client[c].req, timedOut, calls, Told(ans), reqTimer, reqTimer \ ans)
        /\ ans = {}
    BY <1>2, <2>2, TellsNobody DEF LifetimeFires
  <2> HIDE DEF cl, err, ans
  <2> QED BY <1>1, <2>1, <2>2, <2>3, ReleaseLeases
<1>3. CASE c \notin idle
  <2>1. /\ client' = [client EXCEPT ![c] = [client[c] EXCEPT !.expired = TRUE, !.lifeTimer = FALSE]]
        /\ UNCHANGED <<asked, timedOut, calls, ending, endCalls>>
    BY <1>1, <1>3 DEF LifetimeFires, Marked
  <2>2. SameOut
    BY <1>1, <2>1 DEF ClientRecord, SameOut
  <2> QED BY <2>1, <2>2, LeasesStay DEF Lease!vars
<1> QED BY <1>2, <1>3

\* Flags, timers and errors of clients change no lease.
LEMMA QuietLeases ==
    ASSUME PoolInv, NEW c \in Client,
           \/ EndedByHolder(c) \/ ConnTimerFires(c) \/ Closed(c)
           \/ IdleTimeoutFires(c) \/ ClientError(c) \/ FailedError(c)
    PROVE  UNCHANGED Lease!vars
<1>1. client \in [Client -> ClientRecord] /\ UNCHANGED <<asked, timedOut, calls, ending, endCalls>>
  BY DEF EndedByHolder, ConnTimerFires, Closed, IdleTimeoutFires, ClientError, FailedError,
         requestVars, endVars, PoolInv, PoolOK, AgreeBut
<1>2. CASE \/ client' = [client EXCEPT ![c] = [client[c] EXCEPT !.live = FALSE]]
           \/ client' = [client EXCEPT ![c] = [client[c] EXCEPT !.connTimer = "fired"]]
           \/ client' = [client EXCEPT ![c] = [client[c] EXCEPT !.lifeTimer = FALSE]]
  <2>1. SameOut
    BY <1>1, <1>2 DEF ClientRecord, SameOut
  <2> QED BY <1>1, <2>1, LeasesStay DEF Lease!vars
<1>3. CASE \/ IdleTimeoutFires(c) \/ (ClientError(c) /\ client[c].listeners > 0)
  <2>1. client[c].stage \notin {"out", "failed"}
    BY <1>3 DEF IdleTimeoutFires, ClientError, PoolInv, PoolOK, AgreeBut, RecordOK
  <2>2. client'[c].stage = "gone" /\ \A d \in Client \ {c} : client'[d] = client[d]
    <3>1. PICK cl : /\ client' = Removed(cl, {c}) /\ cl \in [Client -> ClientRecord]
                    /\ \A d \in Client \ {c} : cl[d] = client[d]
      <4>1. CASE IdleTimeoutFires(c)
        BY <1>1, <4>1 DEF IdleTimeoutFires
      <4>2. CASE ClientError(c) /\ client[c].listeners > 0
        <5> DEFINE y == [client[c] EXCEPT !.listeners = Unlistened(client[c].listeners)]
        <5>1. y \in ClientRecord
          BY <1>1, <4>2 DEF ClientRecord, Unlistened
        <5>2. client' = Removed([client EXCEPT ![c] = y], {c})
          BY <4>2 DEF ClientError, Unheard
        <5> HIDE DEF y
        <5> QED BY <1>1, <5>1, <5>2
      <4> QED BY <1>3, <4>1, <4>2
    <3>2. \A d \in Client \ {c} : client'[d] = client[d]
      BY <3>1 DEF Removed
    <3>3. client'[c].stage = "gone"
      BY <3>1, GoneStage
    <3> QED BY <3>2, <3>3
  <2>3. SameOut
    BY <2>1, <2>2 DEF SameOut
  <2> QED BY <1>1, <2>3, LeasesStay DEF Lease!vars
<1>4. CASE FailedError(c)
  <2> DEFINE x == [client[c] EXCEPT !.live = FALSE, !.listeners = 0]
  <2>1. client[c] \in ClientRecord
    BY <1>1
  <2>2. x.req = client[c].req /\ x.stage = client[c].stage
    BY ONLY <2>1 DEF ClientRecord
  <2> HIDE DEF x
  <2>3. client' = [client EXCEPT ![c] = x]
    BY <1>4 DEF FailedError, x
  <2>4. SameOut
    BY <1>1, <2>2, <2>3 DEF SameOut
  <2> QED BY <1>1, <2>4, LeasesStay DEF Lease!vars
<1> QED BY <1>2, <1>3, <1>4 DEF EndedByHolder, ConnTimerFires, Closed, ClientError

LEMMA TickLeases ==
    ASSUME PoolInv, OutcomeInv, RunTick PROVE Lease!Next
<1> DEFINE ans == {}
<1>1. /\ ans \in SUBSET Request /\ PoolOK(clients, idle, client) /\ RestOK /\ EndOK(clients)
      /\ PulseQueue(clients, idle, client, ans) /\ UNCHANGED <<asked, timedOut, ending>>
  BY DEF PoolInv, RunTick
<1>2. Outcomes(client, pendingQueue, asked, timedOut, Told(ans), reqTimer \ ans)
  BY NobodyTold DEF OutcomeInv
<1>4. FailsOn(client, ans)
  <2>1. AgainOf(client) = Again
    BY DEF AgainOf, Again
  <2> QED BY <2>1, FailsNobody
<1>3. LeasesOf(client) \in Lease!Left
  BY DEF LeasesOf, Leases, Lease!Left
<1> HIDE DEF ans
<1> QED BY <1>1, <1>2, <1>3, <1>4, PulseLeases

LEMMA EndLeases ==
    ASSUME PoolInv, OutcomeInv, End PROVE Lease!Next
<1>1. /\ ~ending /\ ending' = TRUE /\ client' = Removed(client, idle) /\ Answer({})
      /\ endCalls' = (IF clients \subseteq idle THEN endCalls + 1 ELSE endCalls)
      /\ UNCHANGED <<asked, timedOut>>
  BY DEF End, DrainIdle
<1>2. endCalls = 0 /\ calls \in [Request -> Nat] /\ client \in [Client -> ClientRecord]
  BY <1>1 DEF PoolInv, EndOK, RestOK, PoolOK, AgreeBut
<1>3. calls' = calls
  BY <1>1, <1>2 DEF Answer
<1>4. SameOut
  <2>1. ASSUME NEW c \in idle
        PROVE  client[c].stage \notin {"out", "failed"} /\ client'[c].stage \notin {"out", "failed"}
    <3>1. c \in Client /\ client[c].stage = "in"
      BY DEF PoolInv, PoolOK, AgreeBut
    <3>2. client'[c].stage = "gone"
      BY <1>1, <1>2, <3>1, GoneStage
    <3> QED BY <3>1, <3>2
  <2>2. \A c \in Client \ idle : client'[c] = client[c]
    BY <1>1 DEF Removed
  <2> QED BY <2>1, <2>2 DEF SameOut
<1>5. Leases' = Leases /\ Again' = Again
  BY <1>1, <1>4, LeasesStay
<1>6. Lease!MayReport(Leases)
  <2>1. CASE clients \subseteq idle
    <3>1. \A c \in Client : client[c].stage # "out"
      BY <2>1 DEF PoolInv, PoolOK, AgreeBut, Open
    <3>2. Leases = {}
      BY <3>1 DEF Leases
    <3> QED BY <1>1, <1>2, <2>1, <3>2 DEF Lease!MayReport
  <2>2. CASE ~(clients \subseteq idle)
    BY <1>1, <2>2 DEF Lease!MayReport
  <2> QED BY <2>1, <2>2
<1>7. Lease!Close
  BY <1>1, <1>3, <1>5, <1>6 DEF Lease!Close
<1> QED BY <1>7 DEF Lease!Next

\* The refinement: without options.verify every step of the pool is a step of
\* PoolLease or none.
THEOREM PoolImplementsLease == ASSUME ~Verify PROVE Spec => ImplementsLease
<1>1. Init => Lease!Init
  BY DEF Init, Unborn, Lease!Init, Leases, Again
<1>2. PoolInv /\ OutcomeInv /\ [Next]_vars => [Lease!Next]_(Lease!vars)
  <2> SUFFICES ASSUME PoolInv, OutcomeInv, [Next]_vars PROVE [Lease!Next]_(Lease!vars)
    OBVIOUS
  <2>1. ASSUME NEW r \in Request, ConnectRefused(r) \/ ConnectQueued(r) \/ ConnectNew(r)
        PROVE  Lease!Next
    BY <2>1, ConnectLeases
  <2>2. ASSUME NEW r \in Request, ReqTimeoutFires(r) PROVE Lease!Next
    BY <2>2, ReqTimeoutLeases
  <2>3. ASSUME NEW c \in Client, NEW err \in BOOLEAN, Release(c, err) PROVE Lease!Next
    BY <2>3, HolderReleaseLeases
  <2>4. ASSUME NEW c \in Client, Connected(c) PROVE Lease!Next
    BY <2>4, ConnectedLeases
  <2>5. ASSUME NEW c \in Client, ConnectFailed(c) PROVE Lease!Next
    BY <2>5, FailLeases
  <2>6. ASSUME NEW c \in Client, NEW ok \in BOOLEAN, VerifyDone(c, ok) PROVE Lease!Next
    BY <2>6, VerifiedLeases
  <2>7. ASSUME NEW c \in Client, LifetimeFires(c) PROVE [Lease!Next]_(Lease!vars)
    BY <2>7, LifetimeLeases
  <2>8. ASSUME NEW c \in Client, \/ EndedByHolder(c) \/ ConnTimerFires(c) \/ Closed(c)
                                 \/ IdleTimeoutFires(c) \/ ClientError(c) \/ FailedError(c)
        PROVE  UNCHANGED Lease!vars
    BY <2>8, QuietLeases
  <2>9. CASE End
    BY <2>9, EndLeases
  <2>10. CASE RunTick
    BY <2>10, TickLeases
  <2>11. ASSUME NEW c \in Client, ConnectFailsAgain(c) PROVE Lease!Next
    BY <2>11, AgainLeases
  <2>12. CASE UNCHANGED vars
    BY <2>12 DEF vars, Lease!vars, Leases, Again
  <2> QED BY <2>1, <2>2, <2>3, <2>4, <2>5, <2>6, <2>7, <2>8, <2>9, <2>10, <2>11, <2>12 DEF Next
<1> QED BY <1>1, <1>2, PoolInvariant, OutcomeInvariant, PTL DEF Spec, ImplementsLease, Lease!Spec

-----------------------------------------------------------------------------
\* pool.query, for every number of queries and of other requests, and all options
\* but verify together with a checkout timer.  It uses the pool as any borrower
\* does, so the invariants above and of PoolProofs hold beside queries too; the
\* part that concerns the queries needs from the pool only who holds which client
\* before and after each of its handlers (Around).

-----------------------------------------------------------------------------
\* The inductive invariant: the one of the pool, that verify and checkout
\* timers exclude each other, and where each query stands.

Untimed == Verify => reqTimer = {} /\ timedOut = {}

QueryTypes ==
    /\ heard \in [Queries -> Nat] /\ told \in [Queries -> Nat]
    /\ uses \in [Queries -> Client \cup {NoClient}]
    /\ faults \subseteq threw

\* Query q is at work: its client is its own, and nobody was told.
AtWork(q) == q \in busy /\ q \notin released

QueryOK(q) ==
    /\ calls[q] \in Nat /\ heard[q] \in 0..calls[q] /\ told[q] \in 0..heard[q]
    /\ heard[q] = 0 => q \notin busy /\ q \notin listening /\ q \notin released
    /\ heard[q] > 0 /\ AtWork(q) => uses[q] \in Client /\ Holds(q, uses[q]) /\ told[q] = 0
    /\ heard[q] > 0 /\ ~AtWork(q) => told[q] > 0 /\ \A c \in Client : ~Holds(q, c)
    /\ q \in listening => /\ uses[q] \in Client /\ q \notin released
                          /\ client[uses[q]].stage = "gone" \/ Holds(q, uses[q])
                          /\ q \in busy \/ q \in threw

QueryInv == QueryTypes /\ Untimed /\ \A q \in Queries : QueryOK(q)

-----------------------------------------------------------------------------
\* What a step of the pool does to those who hold clients.

\* Clients other than those of D stay with their holders and stay removed, and
\* a client is lent only to a request that was not called back before.  The
\* client objects are cl at some point of the step.
Around(D, cl) ==
    \A c \in Client :
        /\ c \notin D =>
              /\ client[c].stage = "gone" => cl[c].stage = "gone"
              /\ client[c].stage = "out" => cl[c].stage = "out" /\ cl[c].req = client[c].req
        /\ cl[c].stage = "out" =>
              (c \notin D /\ client[c].stage = "out") \/ calls[cl[c].req] = 0

\* Each request is answered once more, or not, and no checkout timer is set with
\* options.verify.
Counts == (\A r \in Request : calls'[r] \in {calls[r], calls[r] + 1}) /\ Untimed'

LEMMA AnswerCounts ==
    ASSUME PoolInv, Untimed, NEW R, Answer(R), timedOut' = timedOut
    PROVE  Counts
  BY DEF PoolInv, RestOK, Untimed, Answer, Counts

LEMMA SameCounts ==
    ASSUME Untimed, UNCHANGED <<calls, reqTimer, timedOut>>
    PROVE  Counts
  BY DEF Untimed, Counts

\* The pulse lends idle clients, to the first request of the queue.
LEMMA PulseGoes ==
    ASSUME NEW cs, NEW is, NEW cl, NEW ans, PoolOK(cs, is, cl), PoolInv, OutcomeInv,
           PulseQueue(cs, is, cl, ans), NEW c \in Client
    PROVE  /\ cl[c].stage = "gone" => client'[c].stage = "gone"
           /\ cl[c].stage = "out" => client'[c].stage = "out" /\ client'[c].req = cl[c].req
           /\ client'[c].stage = "out" => cl[c].stage = "out" \/ calls[client'[c].req] = 0
<1>1. /\ cl \in [Client -> ClientRecord] /\ is \subseteq Client
      /\ \A d \in is : cl[d].stage = "in" /\ RecordOK(cl[d])
      /\ \A d \in Client : RecordOK(cl[d])
  BY DEF PoolOK, AgreeBut
<1>2. CASE DrainIdle(cs, is, cl, ans)
  <2>1. client' = Removed(cl, is)
    BY <1>2 DEF DrainIdle
  <2>2. CASE c \in is
    <3>1. client'[c].stage = "gone"
      BY <1>1, <2>1, <2>2, GoneStage
    <3> QED BY <1>1, <2>2, <3>1
  <2>3. CASE c \notin is
    <3>1. client'[c] = cl[c]
      BY <2>1, <2>3 DEF Removed
    <3> QED BY <3>1
  <2> QED BY <2>2, <2>3
<1>3. CASE pendingQueue # <<>> /\ ServeNext(cs, is, cl, ans)
  <2> DEFINE r == Head(pendingQueue)
  <2>1. r \in Request /\ calls[r] = 0
    <3>1. pendingQueue \in Seq(Request)
      BY DEF PoolInv, RestOK
    <3>2. r \in Request /\ Contains(pendingQueue, r)
      BY <1>3, <3>1, TailQueue DEF OutcomeInv, Outcomes
    <3> QED BY <3>2 DEF OutcomeInv, Outcomes, RequestsOK
  <2> HIDE DEF r
  <2>2. CASE \E d \in is : client' = Lent(cl, d, r)
    <3>1. PICK d \in is : client' = Lent(cl, d, r)
      BY <2>2
    <3>2. CASE c = d
      <4>1. client'[c] = [cl[c] EXCEPT !.stage = "out", !.req = r, !.idleTimer = FALSE,
                                       !.listeners = Unlistened(cl[c].listeners)]
        BY <1>1, <3>1, <3>2 DEF Lent
      <4>2. client'[c].req = r
        <5>1. cl[c] \in ClientRecord
          BY <1>1
        <5> QED BY ONLY <4>1, <5>1 DEF ClientRecord
      <4> QED BY <1>1, <2>1, <3>2, <4>2
    <3>3. CASE c # d
      <4>1. client'[c] = cl[c]
        BY <1>1, <3>1, <3>3 DEF Lent
      <4> QED BY <4>1
    <3> QED BY <3>2, <3>3
  <2>3. CASE \E d \in Client, t \in Target : cl[d].stage = "none" /\ client' = Launched(cl, d, r, t)
    <3>1. PICK d \in Client, t \in Target :
              cl[d].stage = "none" /\ client' = Launched(cl, d, r, t)
      BY <2>3
    <3>2. CASE c = d
      <4>1. client'[c] = [cl[c] EXCEPT !.stage = "connecting", !.req = r, !.host = t,
                                       !.connTimer = IF ConnTimeout THEN "armed" ELSE "off"]
        BY <1>1, <3>1, <3>2 DEF Launched
      <4>2. cl[c] \in ClientRecord
        BY <1>1
      <4>3. client'[c].stage = "connecting"
        BY ONLY <4>1, <4>2 DEF ClientRecord
      <4> QED BY <3>1, <3>2, <4>3
    <3>3. CASE c # d
      <4>1. client'[c] = cl[c]
        BY <1>1, <3>1, <3>3 DEF Launched
      <4> QED BY <4>1
    <3> QED BY <3>2, <3>3
  <2> QED
    <3>1. PICK t \in Target :
              LET fit == IdleFor(t, is, cl)
                  lendable == IF fit # {} THEN fit ELSE IF IsFull(cs) THEN is ELSE {}
              IN \/ \E d \in lendable : client' = Lent(cl, d, r)
                 \/ \E d \in Client : cl[d].stage = "none" /\ client' = Launched(cl, d, r, t)
      BY <1>3 DEF ServeNext, r
    <3>2. IdleFor(t, is, cl) \subseteq is
      BY DEF IdleFor
    <3>3. CASE \E d \in is : client' = Lent(cl, d, r)
      BY <2>2, <3>3
    <3>4. CASE \E d \in Client : cl[d].stage = "none" /\ client' = Launched(cl, d, r, t)
      BY <2>3, <3>4
    <3> QED BY <3>1, <3>2, <3>3, <3>4
<1>4. CASE client' = cl
  BY <1>4
<1> QED BY <1>2, <1>3, <1>4 DEF PulseQueue

LEMMA PulseAround ==
    ASSUME NEW cs, NEW is, NEW cl, NEW ans, PoolOK(cs, is, cl), PoolInv, OutcomeInv,
           PulseQueue(cs, is, cl, ans), NEW D, Around(D, cl)
    PROVE  Around(D, client')
<1> SUFFICES ASSUME NEW c \in Client
    PROVE  /\ c \notin D =>
                 /\ client[c].stage = "gone" => client'[c].stage = "gone"
                 /\ client[c].stage = "out" =>
                       client'[c].stage = "out" /\ client'[c].req = client[c].req
           /\ client'[c].stage = "out" =>
                 (c \notin D /\ client[c].stage = "out") \/ calls[client'[c].req] = 0
  BY DEF Around
<1>1. /\ cl[c].stage = "gone" => client'[c].stage = "gone"
      /\ cl[c].stage = "out" => client'[c].stage = "out" /\ client'[c].req = cl[c].req
      /\ client'[c].stage = "out" => cl[c].stage = "out" \/ calls[client'[c].req] = 0
  BY PulseGoes
<1>2. /\ c \notin D =>
            /\ client[c].stage = "gone" => cl[c].stage = "gone"
            /\ client[c].stage = "out" => cl[c].stage = "out" /\ cl[c].req = client[c].req
      /\ cl[c].stage = "out" =>
            (c \notin D /\ client[c].stage = "out") \/ calls[cl[c].req] = 0
  BY DEF Around
<1> QED BY <1>1, <1>2

LEMMA PulseCounts ==
    ASSUME NEW cs, NEW is, NEW cl, NEW ans, PoolInv, Untimed, PulseQueue(cs, is, cl, ans),
           timedOut' = timedOut
    PROVE  Counts
<1>1. \E R : Answer(R)
  BY DEF PulseQueue, DrainIdle, ServeNext
<1> QED BY <1>1, AnswerCounts

\* The release of a client of the pool, once its request is answered.
LEMMA ReleaseAround ==
    ASSUME PoolInv, OutcomeInv, Untimed, NEW c \in clients, NEW cl, NEW err \in BOOLEAN,
           NEW ans \in SUBSET Request,
           cl \in [Client -> ClientRecord], \A d \in Client \ {c} : cl[d] = client[d],
           cl[c].listeners = 0, cl[c].connTimer = "off",
           OnlyTold(client[c].req, timedOut, calls, Told(ans), reqTimer, reqTimer \ ans),
           client[c].req # NoRequest => Told(ans)[client[c].req] # 0,
           DoRelease(clients, idle, cl, c, err, ans),
           timedOut' = timedOut,
           NEW D \in SUBSET {c}, client[c].stage = "out" => c \in D
    PROVE  /\ Around(D, client') /\ Counts
           /\ err => client'[c].stage = "gone"
<1>1. PICK cs2, is2, cl2 :
              /\ PoolOK(cs2, is2, cl2) /\ EndOK(cs2) /\ PulseQueue(cs2, is2, cl2, ans)
              /\ Outcomes(cl2, pendingQueue, asked, timedOut, Told(ans), reqTimer \ ans)
              /\ cl2[c].stage \notin {"out", "failed"}
              /\ \A d \in Client \ {c} : cl2[d] = client[d]
              /\ err => cl2[c].stage = "gone"
  BY ReleaseLeads
<1>2. c \in Client /\ client[c].stage # "gone"
  BY DEF PoolInv, PoolOK, AgreeBut, Open
<1>3. Around(D, cl2)
  BY <1>1, <1>2 DEF Around
<1>4. Around(D, client')
  BY <1>1, <1>3, PulseAround
<1>5. err => client'[c].stage = "gone"
  BY <1>1, <1>2, PulseGoes
<1> QED BY <1>1, <1>4, <1>5, PulseCounts

LEMMA HolderReleaseAround ==
    ASSUME PoolInv, OutcomeInv, Untimed, NEW c \in Client, NEW err \in BOOLEAN, Release(c, err)
    PROVE  /\ Around({c}, client') /\ Counts
           /\ err => client'[c].stage = "gone"
<1> DEFINE ans == {}
           D == {c}
<1>1. DoRelease(clients, idle, client, c, err, ans) /\ ans \in SUBSET Request
  BY DEF Release
<1>2. /\ client \in [Client -> ClientRecord] /\ c \in clients
      /\ client[c].listeners = 0 /\ client[c].connTimer = "off"
      /\ OnlyTold(client[c].req, timedOut, calls, Told(ans), reqTimer, reqTimer \ ans)
      /\ client[c].req # NoRequest => Told(ans)[client[c].req] # 0
      /\ timedOut' = timedOut
  BY HolderReleases
<1>3. D \in SUBSET {c} /\ c \in D
  OBVIOUS
<1> HIDE DEF ans, D
<1>4. Around(D, client') /\ Counts /\ (err => client'[c].stage = "gone")
  BY <1>1, <1>2, <1>3, ReleaseAround
<1> QED BY <1>4 DEF D

-----------------------------------------------------------------------------
\* One lemma per kind of action of the pool.

\* A client that is neither out nor removed changes in some other way.
LEMMA OneAround ==
    ASSUME NEW c \in Client, client[c].stage \notin {"out", "gone"}, NEW cl,
           \A d \in Client \ {c} : cl[d] = client[d],
           cl[c].stage # "out" \/ calls[cl[c].req] = 0
    PROVE  Around({}, cl)
  BY DEF Around

\* So does one that keeps its stage and its request.
LEMMA FlagAround ==
    ASSUME \A d \in Client : client'[d].stage = client[d].stage /\ client'[d].req = client[d].req
    PROVE  Around({}, client')
  BY DEF Around

LEMMA RequestsAround ==
    ASSUME PoolInv, OutcomeInv, Untimed, NEW r \in Request,
           ConnectRefused(r) \/ ConnectQueued(r) \/ ConnectNew(r) \/ ReqTimeoutFires(r)
    PROVE  Around({}, client') /\ Counts
<1>1. CASE ConnectRefused(r) \/ ReqTimeoutFires(r)
  <2>1. client' = client /\ Answer({r})
    BY <1>1 DEF ConnectRefused, ReqTimeoutFires, poolVars
  <2>2. Around({}, client')
    BY <2>1, FlagAround
  <2>3. CASE ConnectRefused(r)
    BY <2>1, <2>2, <2>3, AnswerCounts DEF ConnectRefused
  <2>4. CASE ReqTimeoutFires(r)
    <3>1. ~Verify
      BY <2>4 DEF Untimed, ReqTimeoutFires
    <3>2. \A q \in Request : calls'[q] \in {calls[q], calls[q] + 1}
      BY <2>1 DEF Answer
    <3>3. Verify' = Verify
      OBVIOUS
    <3> QED BY <2>2, <3>1, <3>2, <3>3 DEF Counts, Untimed
  <2> QED BY <1>1, <2>3, <2>4
<1>2. CASE ConnectQueued(r)
  <2>1. client' = client /\ calls' = calls /\ timedOut' = timedOut
    BY <1>2 DEF ConnectQueued
  <2>2. Verify => reqTimer' = reqTimer
    BY <1>2, QueryAssumption DEF ConnectQueued
  <2>3. Around({}, client')
    BY <2>1, FlagAround
  <2> QED BY <2>1, <2>2, <2>3 DEF Counts, Untimed
<1>3. CASE ConnectNew(r)
  <2>1. PICK c \in Client : client[c].stage = "none" /\ client' = Launched(client, c, r, NoHost)
    BY <1>3 DEF ConnectNew
  <2>2. /\ client[c] \in ClientRecord /\ \A d \in Client \ {c} : client'[d] = client[d]
        /\ client'[c] = [client[c] EXCEPT !.stage = "connecting", !.req = r, !.host = NoHost,
                                          !.connTimer = IF ConnTimeout THEN "armed" ELSE "off"]
    BY <2>1 DEF Launched, PoolInv, PoolOK, AgreeBut
  <2>3. client'[c].stage = "connecting"
    BY ONLY <2>2 DEF ClientRecord
  <2>4. Around({}, client')
    <3>1. client[c].stage = "none" /\ \A d \in Client \ {c} : client'[d] = client[d]
      BY <2>1, <2>2
    <3> QED BY <2>3, <3>1, OneAround
  <2> QED BY <1>3, <2>4, SameCounts DEF ConnectNew
<1> QED BY <1>1, <1>2, <1>3

LEMMA ConnectedAround ==
    ASSUME PoolInv, OutcomeInv, Untimed, NEW c \in Client, Connected(c)
    PROVE  Around({}, client') /\ Counts
<1> DEFINE r == client[c].req
<1>1. /\ client[c].stage = "connecting" /\ c \in clients /\ UNCHANGED <<asked, timedOut, ticks, ending>>
      /\ client \in [Client -> ClientRecord]
  BY BusyClient DEF Connected, PoolInv, PoolOK, AgreeBut
<1>2. r \in Request /\ r # NoRequest
  BY <1>1, BusyClient, NullAssumption DEF RecordOK
<1>3. PICK h \in Host \cup {NoHost} :
          \/ /\ client' = Handed(Opened(client, c, h), c, "verifying",
                                 IF r \in timedOut THEN NoRequest ELSE r)
             /\ UNCHANGED <<calls, reqTimer>>
          \/ /\ r \notin timedOut
             /\ client' = Handed(Opened(client, c, h), c, "out", r)
             /\ Answer({r})
          \/ /\ r \in timedOut
             /\ DoRelease(clients, idle, Opened(client, c, h), c, FALSE, {})
  <2>1. client[c].host \in Host \cup {NoHost}
    BY <1>1 DEF ClientRecord
  <2> QED BY <2>1 DEF Connected
<1> DEFINE up == Opened(client, c, h)
           q == IF r \in timedOut THEN NoRequest ELSE r
<1>4. /\ up \in [Client -> ClientRecord] /\ \A d \in Client \ {c} : up[d] = client[d]
      /\ up[c].req = r /\ up[c].listeners = 0 /\ up[c].connTimer = "off"
  BY <1>1, OpenedClient
<1>5. calls[r] = Times(timedOut, r) /\ (r \in timedOut => calls[r] # 0)
  BY <1>1, <1>2 DEF OutcomeInv, Outcomes, ClientsOK, RequestsOK, WorksAlone, WorkOK
<1> HIDE DEF up, q
<1>6. CASE client' = Handed(up, c, "verifying", q) /\ UNCHANGED <<calls, reqTimer>>
  <2>1. client'[c].stage = "verifying" /\ \A d \in Client \ {c} : client'[d] = client[d]
    BY <1>4, <1>6, HandedClient
  <2>2. Around({}, client')
    BY <1>1, <2>1, OneAround
  <2> QED BY <1>1, <1>6, <2>2, SameCounts
<1>7. CASE r \notin timedOut /\ client' = Handed(up, c, "out", r) /\ Answer({r})
  <2>1. client'[c].req = r /\ \A d \in Client \ {c} : client'[d] = client[d]
    BY <1>4, <1>7, HandedClient
  <2>2. calls[client'[c].req] = 0
    BY <1>5, <1>7, <2>1 DEF Times
  <2>3. Around({}, client')
    BY <1>1, <2>1, <2>2, OneAround
  <2> QED BY <1>1, <1>7, <2>3, AnswerCounts
<1>8. CASE r \in timedOut /\ DoRelease(clients, idle, up, c, FALSE, {})
  <2> DEFINE err == FALSE
             ans == {}
             D == {}
  <2>1. /\ err \in BOOLEAN /\ ans \in SUBSET Request /\ DoRelease(clients, idle, up, c, err, ans)
        /\ OnlyTold(r, timedOut, calls, Told(ans), reqTimer, reqTimer \ ans)
        /\ Told(ans)[r] # 0 /\ D \in SUBSET {c}
    BY <1>1, <1>2, <1>5, <1>8, TellsNobody
  <2> HIDE DEF err, ans, D
  <2>2. Around(D, client') /\ Counts
    BY <1>1, <1>4, <2>1, ReleaseAround
  <2> QED BY <2>2 DEF D
<1> QED BY <1>3, <1>6, <1>7, <1>8 DEF up, q

LEMMA FailAround ==
    ASSUME PoolInv, OutcomeInv, Untimed, NEW c \in Client, ConnectFailed(c)
    PROVE  Around({}, client') /\ Counts
<1>1. PICK cs, cl, ans :
              /\ ans = {client[c].req} \ timedOut /\ ans \in SUBSET Request
              /\ PoolOK(cs, idle, cl) /\ EndOK(cs) /\ PulseQueue(cs, idle, cl, ans)
              /\ Outcomes(cl, pendingQueue, asked, timedOut, Told(ans), reqTimer \ ans)
              /\ \/ cl[c].stage = "gone"
                 \/ cl[c].stage = "failed" /\ cl[c].req = client[c].req
              /\ \A d \in Client \ {c} : cl[d] = client[d]
  BY FailLeads
<1>2. client[c].stage = "connecting" /\ timedOut' = timedOut
  BY DEF ConnectFailed
<1> DEFINE D == {}
<1>3. Around(D, cl)
  BY <1>1, <1>2, OneAround
<1> HIDE DEF D
<1>4. Around(D, client')
  BY <1>1, <1>3, PulseAround
<1> QED BY <1>1, <1>2, <1>4, PulseCounts DEF D

LEMMA AgainAround ==
    ASSUME PoolInv, OutcomeInv, Untimed, NEW c \in Client, ConnectFailsAgain(c)
    PROVE  Around({}, client') /\ Counts
<1>1. PICK cl, ans :
              /\ ans = {client[c].req} \ timedOut /\ ans \in SUBSET Request
              /\ PoolOK(clients, idle, cl) /\ PulseQueue(clients, idle, cl, ans)
              /\ Outcomes(cl, pendingQueue, asked, timedOut, Told(ans), reqTimer \ ans)
              /\ cl[c].stage = "refailed" /\ \A d \in Client \ {c} : cl[d] = client[d]
  BY AgainLeads
<1>2. client[c].stage = "failed" /\ timedOut' = timedOut
  BY DEF ConnectFailsAgain
<1> DEFINE D == {}
<1>3. Around(D, cl)
  BY <1>1, <1>2, OneAround
<1> HIDE DEF D
<1>4. Around(D, client')
  BY <1>1, <1>3, PulseAround
<1> QED BY <1>1, <1>2, <1>4, PulseCounts DEF D

LEMMA VerifiedAround ==
    ASSUME PoolInv, OutcomeInv, Untimed, NEW c \in Client, NEW ok \in BOOLEAN, VerifyDone(c, ok)
    PROVE  Around({}, client') /\ Counts
<1> DEFINE r == client[c].req
           ans == {r} \ {NoRequest}
           err == ~ok
           D == {}
<1>1. /\ client[c].stage = "verifying" /\ c \in clients /\ client[c].listeners = 0
      /\ client[c].connTimer = "off" /\ timedOut' = timedOut
      /\ client \in [Client -> ClientRecord]
  BY BusyClient DEF VerifyDone, PoolInv, PoolOK, AgreeBut
<1>2. r \in Request \cup {NoRequest} /\ D \in SUBSET {c}
  BY <1>1 DEF ClientRecord
<1>3. CASE ok /\ r # NoRequest
  <2>1. client' = Handed(client, c, "out", r) /\ Answer({r})
    BY <1>3 DEF VerifyDone
  <2>2. client'[c].req = r /\ \A d \in Client \ {c} : client'[d] = client[d]
    BY <1>1, <2>1, HandedClient
  <2>3. Verify /\ calls[r] = Times(timedOut, r)
    BY <1>1, <1>3 DEF OutcomeInv, Outcomes, ClientsOK, WorksAlone, WorkOK
  <2>4. calls[client'[c].req] = 0
    BY <2>2, <2>3 DEF Untimed, Times
  <2>5. Around({}, client')
    BY <1>1, <2>2, <2>4, OneAround
  <2> QED BY <1>1, <2>1, <2>5, AnswerCounts
<1>4. CASE ~(ok /\ r # NoRequest)
  <2>1. DoRelease(clients, idle, client, c, err, ans) /\ ans \in SUBSET Request /\ err \in BOOLEAN
    BY <1>2, <1>4 DEF VerifyDone
  <2>2. /\ OnlyTold(r, timedOut, calls, Told(ans), reqTimer, reqTimer \ ans)
        /\ r # NoRequest => Told(ans)[r] # 0
    <3>1. CASE r = NoRequest
      <4>1. ans = {}
        BY <3>1
      <4> QED BY <1>1, <3>1, <4>1, TellsNobody
    <3>2. CASE r # NoRequest
      <4>1. ans = {r} /\ r \in Request
        BY <1>2, <3>2
      <4> QED BY <1>1, <4>1, TellsOwn
    <3> QED BY <3>1, <3>2
  <2> HIDE DEF ans, err, D
  <2>3. Around(D, client') /\ Counts
    BY <1>1, <1>2, <2>1, <2>2, ReleaseAround
  <2> QED BY <2>3 DEF D
<1> QED BY <1>3, <1>4

LEMMA LifetimeAround ==
    ASSUME PoolInv, OutcomeInv, Untimed, NEW c \in Client, LifetimeFires(c)
    PROVE  Around({}, client') /\ Counts
<1>1. timedOut' = timedOut /\ client \in [Client -> ClientRecord]
  BY DEF LifetimeFires, PoolInv, PoolOK, AgreeBut
<1>2. CASE c \in idle
  <2> DEFINE cl == Unheard(Marked(client, c), c)
             err == FALSE
             ans == {}
             D == {}
  <2>1. /\ cl \in [Client -> ClientRecord] /\ \A d \in Client \ {c} : cl[d] = client[d]
        /\ cl[c].listeners = 0 /\ cl[c].connTimer = "off" /\ c \in clients
    BY <1>2, ExpiredPool
  <2>2. client[c].req = NoRequest /\ client[c].stage = "in"
    BY <1>2, Unemployed DEF OutcomeInv, PoolInv, PoolOK, AgreeBut
  <2>3. /\ err \in BOOLEAN /\ ans \in SUBSET Request /\ DoRelease(clients, idle, cl, c, err, ans)
        /\ OnlyTold(client[c].req, timedOut, calls, Told(ans), reqTimer, reqTimer \ ans)
        /\ D \in SUBSET {c}
    BY <1>2, <2>2, TellsNobody DEF LifetimeFires
  <2> HIDE DEF cl, err, ans, D
  <2>4. Around(D, client') /\ Counts
    BY <1>1, <2>1, <2>2, <2>3, ReleaseAround
  <2> QED BY <2>4 DEF D
<1>3. CASE c \notin idle
  <2>1. /\ client' = [client EXCEPT ![c] = [client[c] EXCEPT !.expired = TRUE, !.lifeTimer = FALSE]]
        /\ UNCHANGED <<calls, reqTimer>>
    BY <1>3 DEF LifetimeFires, Marked
  <2>2. \A d \in Client : client'[d].stage = client[d].stage /\ client'[d].req = client[d].req
    BY <1>1, <2>1 DEF ClientRecord
  <2>3. Around({}, client')
    BY <2>2, FlagAround
  <2> QED BY <1>1, <2>1, <2>3, SameCounts
<1> QED BY <1>2, <1>3

\* Flags, timers and errors of clients do not take a client from its holder.
LEMMA QuietAround ==
    ASSUME PoolInv, Untimed, NEW c \in Client,
           \/ EndedByHolder(c) \/ ConnTimerFires(c) \/ Closed(c)
           \/ IdleTimeoutFires(c) \/ ClientError(c) \/ FailedError(c)
    PROVE  Around({}, client') /\ Counts
<1>1. client \in [Client -> ClientRecord] /\ UNCHANGED <<calls, reqTimer, timedOut>>
  BY DEF EndedByHolder, ConnTimerFires, Closed, IdleTimeoutFires, ClientError, FailedError,
         requestVars, PoolInv, PoolOK, AgreeBut
<1>2. CASE \/ client' = [client EXCEPT ![c] = [client[c] EXCEPT !.live = FALSE]]
           \/ client' = [client EXCEPT ![c] = [client[c] EXCEPT !.connTimer = "fired"]]
           \/ client' = [client EXCEPT ![c] = [client[c] EXCEPT !.lifeTimer = FALSE]]
  <2>1. \A d \in Client : client'[d].stage = client[d].stage /\ client'[d].req = client[d].req
    BY <1>1, <1>2 DEF ClientRecord
  <2> QED BY <1>1, <2>1, FlagAround, SameCounts
<1>3. CASE IdleTimeoutFires(c) \/ (ClientError(c) /\ client[c].listeners > 0)
  <2>1. client[c].stage # "out"
    BY <1>3 DEF IdleTimeoutFires, PoolInv, PoolOK, AgreeBut, RecordOK
  <2>2. client'[c].stage = "gone" /\ \A d \in Client \ {c} : client'[d] = client[d]
    <3>1. PICK cl : /\ client' = Removed(cl, {c}) /\ cl \in [Client -> ClientRecord]
                    /\ \A d \in Client \ {c} : cl[d] = client[d]
      <4>1. CASE IdleTimeoutFires(c)
        BY <1>1, <4>1 DEF IdleTimeoutFires
      <4>2. CASE ClientError(c) /\ client[c].listeners > 0
        <5> DEFINE y == [client[c] EXCEPT !.listeners = Unlistened(client[c].listeners)]
        <5>1. y \in ClientRecord
          BY <1>1, <4>2 DEF ClientRecord, Unlistened
        <5>2. client' = Removed([client EXCEPT ![c] = y], {c})
          BY <4>2 DEF ClientError, Unheard
        <5> HIDE DEF y
        <5> QED BY <1>1, <5>1, <5>2
      <4> QED BY <1>3, <4>1, <4>2
    <3>2. \A d \in Client \ {c} : client'[d] = client[d]
      BY <3>1 DEF Removed
    <3>3. client'[c].stage = "gone"
      BY <3>1, GoneStage
    <3> QED BY <3>2, <3>3
  <2>3. Around({}, client')
    BY <2>1, <2>2 DEF Around
  <2> QED BY <1>1, <2>3, SameCounts
<1>4. CASE FailedError(c)
  <2>1. client' = [client EXCEPT ![c] = [client[c] EXCEPT !.live = FALSE, !.listeners = 0]]
    BY <1>4 DEF FailedError
  <2>2. \A d \in Client : client'[d].stage = client[d].stage /\ client'[d].req = client[d].req
    BY <1>1, <2>1 DEF ClientRecord
  <2> QED BY <1>1, <2>2, FlagAround, SameCounts
<1> QED BY <1>2, <1>3, <1>4 DEF EndedByHolder, ConnTimerFires, Closed, ClientError

LEMMA EndAround ==
    ASSUME PoolInv, OutcomeInv, Untimed, RunTick \/ End PROVE Around({}, client') /\ Counts
<1>1. Around({}, client) /\ PoolOK(clients, idle, client) /\ timedOut' = timedOut
  BY DEF Around, PoolInv, RunTick, End
<1>2. CASE RunTick
  <2> DEFINE ans == {}
             D == {}
  <2>1. PulseQueue(clients, idle, client, ans) /\ Around(D, client)
    BY <1>1, <1>2 DEF RunTick
  <2> HIDE DEF ans, D
  <2>2. Around(D, client')
    BY <1>1, <2>1, PulseAround
  <2> QED BY <1>1, <2>1, <2>2, PulseCounts DEF D
<1>3. CASE End
  <2>1. client' = Removed(client, idle) /\ Answer({})
    BY <1>3 DEF End, DrainIdle
  <2>2. ASSUME NEW c \in idle
        PROVE  c \in Client /\ client[c].stage = "in" /\ client'[c].stage = "gone"
    <3>1. c \in Client /\ client[c].stage = "in" /\ client[c] \in ClientRecord
      BY DEF PoolInv, PoolOK, AgreeBut
    <3>2. client'[c].stage = "gone"
      BY <2>1, <3>1, GoneStage DEF PoolInv, PoolOK, AgreeBut
    <3> QED BY <3>1, <3>2
  <2>3. \A c \in Client \ idle : client'[c] = client[c]
    BY <2>1 DEF Removed
  <2>4. Around({}, client')
    BY <2>2, <2>3 DEF Around
  <2> QED BY <1>1, <2>1, <2>4, AnswerCounts
<1> QED BY <1>2, <1>3

\* The steps of the pool but the release by a holder.
LEMMA PoolAround ==
    ASSUME PoolInv, OutcomeInv, Untimed, PoolStep
    PROVE  \/ Around({}, client') /\ Counts
           \/ \E c \in Client : /\ client[c].stage = "out" /\ Borrowed(c)
                                /\ Around({c}, client') /\ Counts
<1>1. ASSUME NEW r \in Request,
             ConnectRefused(r) \/ ConnectQueued(r) \/ ConnectNew(r) \/ ReqTimeoutFires(r)
      PROVE  Around({}, client') /\ Counts
  BY <1>1, RequestsAround
<1>2. ASSUME NEW c \in Client, NEW err \in BOOLEAN, Borrowed(c), Release(c, err)
      PROVE  /\ client[c].stage = "out" /\ Borrowed(c)
             /\ Around({c}, client') /\ Counts
  <2>1. client[c].stage = "out"
    BY <1>2 DEF Release
  <2> QED BY <1>2, <2>1, HolderReleaseAround
<1>3. ASSUME NEW c \in Client,
             \/ EndedByHolder(c) \/ ConnTimerFires(c) \/ Closed(c)
             \/ IdleTimeoutFires(c) \/ ClientError(c) \/ FailedError(c)
      PROVE  Around({}, client') /\ Counts
  BY <1>3, QuietAround
<1>4. ASSUME NEW c \in Client, Connected(c) PROVE Around({}, client') /\ Counts
  BY <1>4, ConnectedAround
<1>5. ASSUME NEW c \in Client, ConnectFailed(c) PROVE Around({}, client') /\ Counts
  BY <1>5, FailAround
<1>6. ASSUME NEW c \in Client, NEW ok \in BOOLEAN, VerifyDone(c, ok)
      PROVE  Around({}, client') /\ Counts
  BY <1>6, VerifiedAround
<1>7. ASSUME NEW c \in Client, LifetimeFires(c) PROVE Around({}, client') /\ Counts
  BY <1>7, LifetimeAround
<1>8. ASSUME End \/ RunTick PROVE Around({}, client') /\ Counts
  BY <1>8, EndAround
<1>9. ASSUME NEW c \in Client, ConnectFailsAgain(c) PROVE Around({}, client') /\ Counts
  BY <1>9, AgainAround
<1> QED BY <1>1, <1>2, <1>3, <1>4, <1>5, <1>6, <1>7, <1>8, <1>9 DEF PoolStep

-----------------------------------------------------------------------------
\* What the steps of one query leave to the others.

\* Nothing of query p changes but perhaps who holds its client.
Same(p) ==
    /\ heard'[p] = heard[p]
    /\ p \in busy' <=> p \in busy
    /\ p \in listening' <=> p \in listening
    /\ p \in released' <=> p \in released
    /\ p \in threw => p \in threw'
    /\ uses'[p] = uses[p] /\ told'[p] = told[p]

\* A query keeps its client while others release theirs.
LEMMA OthersStay ==
    ASSUME NEW p \in Queries, QueryOK(p), Same(p), Counts,
           NEW D \in SUBSET Client, Around(D, client'),
           \A c \in D : client[c].stage = "out" /\ client[c].req # p
    PROVE  QueryOK(p)'
<1>1. /\ calls[p] \in Nat /\ calls'[p] \in {calls[p], calls[p] + 1}
      /\ heard'[p] = heard[p] /\ told'[p] = told[p]
      /\ heard[p] \in 0..calls[p] /\ told[p] \in 0..heard[p]
  BY QueryAssumption DEF Counts, QueryOK, Same
<1>2. ASSUME NEW c \in Client, Holds(p, c) PROVE Holds(p, c)'
  BY <1>2 DEF Around, Holds
<1>3. ASSUME NEW c \in Client, client[c].stage = "gone" PROVE client'[c].stage = "gone"
  BY <1>3 DEF Around
<1>4. ASSUME NEW c \in Client, calls[p] # 0, Holds(p, c)' PROVE Holds(p, c)
  BY <1>4 DEF Around, Holds
<1>5. AtWork(p)' <=> AtWork(p)
  BY DEF AtWork, Same
<1>6. calls'[p] \in Nat /\ heard'[p] \in 0..calls'[p] /\ told'[p] \in 0..heard'[p]
  BY <1>1
<1>7. heard'[p] = 0 => p \notin busy' /\ p \notin listening' /\ p \notin released'
  BY DEF QueryOK, Same
<1>8. heard'[p] > 0 /\ AtWork(p)' =>
          uses'[p] \in Client /\ Holds(p, uses[p])' /\ told'[p] = 0
  BY <1>2, <1>5 DEF QueryOK, Same
<1>9. heard'[p] > 0 /\ ~AtWork(p)' => told'[p] > 0 /\ \A c \in Client : ~Holds(p, c)'
  <2> SUFFICES ASSUME heard[p] > 0, ~AtWork(p) PROVE told[p] > 0 /\ \A c \in Client : ~Holds(p, c)'
    BY <1>1, <1>5
  <2>1. calls[p] # 0
    BY <1>1
  <2>2. told[p] > 0 /\ \A c \in Client : ~Holds(p, c)
    BY DEF QueryOK
  <2> QED BY <1>4, <2>1, <2>2
<1>10. p \in listening' => /\ uses'[p] \in Client /\ p \notin released'
                           /\ client'[uses'[p]].stage = "gone" \/ Holds(p, uses[p])'
                           /\ p \in busy' \/ p \in threw'
  <2> SUFFICES ASSUME p \in listening PROVE
          /\ uses[p] \in Client /\ p \notin released
          /\ client'[uses[p]].stage = "gone" \/ Holds(p, uses[p])'
          /\ p \in busy \/ p \in threw
    BY DEF Same
  <2>1. /\ uses[p] \in Client /\ p \notin released /\ (p \in busy \/ p \in threw)
        /\ client[uses[p]].stage = "gone" \/ Holds(p, uses[p])
    BY DEF QueryOK
  <2> QED BY <1>2, <1>3, <2>1 DEF Same, Holds
<1> QED BY <1>6, <1>7, <1>8, <1>9, <1>10 DEF QueryOK, Holds

-----------------------------------------------------------------------------
\* One lemma per step of a query.

\* A request that holds a client was called back once: a second time is for
\* connections that failed, and for checkout timers that Untimed excludes.
LEMMA HolderCalledOnce ==
    ASSUME OutcomeInv, Untimed, NEW q \in Queries, NEW c \in Client, Holds(q, c)
    PROVE  calls[q] = 1
<1>1. q \in Request /\ q # NoRequest /\ client[c].req = q /\ client[c].stage = "out"
  BY QueryAssumption, NullAssumption DEF Holds
<1>2. WorksAlone(client, c, pendingQueue, asked, timedOut, calls)
  BY <1>1 DEF OutcomeInv, Outcomes, ClientsOK
<1>3. /\ calls[q] # 0 /\ q \notin timedOut
      /\ \A d \in Client : client[d].req = q => client[d].stage = "out"
  BY <1>1, <1>2 DEF WorksAlone, WorkOK, Untimed
<1>4. Answered(client, q, timedOut, calls)
  BY <1>1 DEF OutcomeInv, Outcomes, RequestsOK
<1> QED BY <1>3, <1>4 DEF Answered

LEMMA RefusedStays ==
    ASSUME QueryInv, NEW q \in Queries, QueryRefused(q) PROVE QueryInv'
<1>1. /\ heard[q] < calls[q] /\ \A c \in Client : ~Holds(q, c)
      /\ heard' = [heard EXCEPT ![q] = @ + 1] /\ told' = [told EXCEPT ![q] = @ + 1]
      /\ UNCHANGED <<client, calls, reqTimer, timedOut>>
      /\ UNCHANGED <<uses, busy, listening, released, threw, faults>>
  BY DEF QueryRefused, Called, Hears, Tells, vars
<1>2. Around({}, client') /\ Counts
  BY <1>1, FlagAround, SameCounts DEF QueryInv
<1>3. QueryOK(q) /\ heard \in [Queries -> Nat] /\ told \in [Queries -> Nat]
  BY DEF QueryInv, QueryTypes
<1>4. QueryTypes'
  BY <1>1 DEF QueryInv, QueryTypes
<1>5. /\ heard'[q] = heard[q] + 1 /\ told'[q] = told[q] + 1 /\ calls'[q] = calls[q]
      /\ calls[q] \in Nat /\ heard[q] \in 0..calls[q] /\ told[q] \in 0..heard[q]
  BY <1>1, <1>3 DEF QueryOK
<1>6. QueryOK(q)'
  <2>1. calls'[q] \in Nat /\ heard'[q] \in 0..calls'[q] /\ told'[q] \in 0..heard'[q] /\ told'[q] > 0
    BY <1>1, <1>5
  <2>2. ~AtWork(q)' /\ \A c \in Client : ~Holds(q, c)'
    BY <1>1, <1>3, <1>5 DEF QueryOK, AtWork, Holds
  <2>3. q \in listening => /\ uses[q] \in Client /\ q \notin released
                           /\ client[uses[q]].stage = "gone" \/ Holds(q, uses[q])
                           /\ q \in busy \/ q \in threw
    BY <1>3 DEF QueryOK
  <2>4. heard'[q] # 0
    BY <1>5
  <2> QED BY <1>1, <2>1, <2>2, <2>3, <2>4 DEF QueryOK, Holds
<1>7. ASSUME NEW p \in Queries \ {q} PROVE QueryOK(p)'
  <2>1. QueryOK(p) /\ Same(p)
    BY <1>1, <1>3 DEF QueryInv, Same
  <2> QED BY <1>2, <2>1, OthersStay
<1> QED BY <1>2, <1>4, <1>6, <1>7 DEF QueryInv, Counts

LEMMA BeginsStays ==
    ASSUME OutcomeInv, QueryInv, NEW q \in Queries, QueryBegins(q) PROVE QueryInv'
<1>1. PICK c \in Client : Holds(q, c) /\ uses' = [uses EXCEPT ![q] = c]
  BY DEF QueryBegins
<1>2. /\ heard[q] < calls[q] /\ heard' = [heard EXCEPT ![q] = @ + 1]
      /\ listening' = listening \cup {q} /\ busy' = busy \cup {q}
      /\ UNCHANGED <<client, calls, reqTimer, timedOut>> /\ UNCHANGED <<released, told, threw, faults>>
  BY DEF QueryBegins, Called, Hears, vars
<1>3. Around({}, client') /\ Counts
  BY <1>2, FlagAround, SameCounts DEF QueryInv
<1>4. calls[q] = 1 /\ heard[q] = 0 /\ told[q] = 0 /\ q \notin released
  BY <1>1, <1>2, HolderCalledOnce DEF QueryInv, QueryOK
<1>5. QueryTypes'
  BY <1>1, <1>2 DEF QueryInv, QueryTypes
<1>6. QueryOK(q)'
  <2>1. /\ uses'[q] = c /\ Holds(q, c)' /\ calls'[q] = 1 /\ heard'[q] = 1 /\ told'[q] = 0
    BY <1>1, <1>2, <1>4 DEF QueryInv, QueryTypes, Holds
  <2> QED BY <1>2, <1>4, <2>1 DEF QueryOK, AtWork, Holds
<1>7. ASSUME NEW p \in Queries \ {q} PROVE QueryOK(p)'
  <2>1. QueryOK(p) /\ Same(p)
    BY <1>1, <1>2 DEF QueryInv, QueryTypes, Same
  <2> QED BY <1>3, <2>1, OthersStay
<1> QED BY <1>3, <1>5, <1>6, <1>7 DEF QueryInv, Counts

\* A query that gave its client back and is told.
LEMMA GivesBack ==
    ASSUME PoolInv, OutcomeInv, QueryInv, NEW q \in Queries, NEW c \in Client, Holds(q, c),
           Around({c}, client'), Counts, told[q] = 0,
           told' = [told EXCEPT ![q] = @ + 1]
    PROVE  /\ told'[q] = 1 /\ calls'[q] \in Nat /\ 1 <= calls'[q]
           /\ \A d \in Client : ~Holds(q, d)'
           /\ \A p \in Queries \ {q} : Same(p) => QueryOK(p)'
<1>1. q \in Request /\ q # NoRequest /\ client[c].req = q /\ client[c].stage = "out"
  BY QueryAssumption, NullAssumption DEF Holds
<1>2. \A d \in Client : client[d].req = q => d = c
  BY <1>1 DEF OutcomeInv, Outcomes, ClientsOK, WorksAlone
<1>3. ASSUME NEW d \in Client, Holds(q, d)' PROVE FALSE
  <2>1. client'[d].stage = "out" /\ client'[d].req = q
    BY <1>3 DEF Holds
  <2>2. calls[q] # 0
    BY <1>1 DEF OutcomeInv, Outcomes, ClientsOK, WorksAlone, WorkOK
  <2>3. d \notin {c} /\ client[d].stage = "out"
    BY <2>1, <2>2 DEF Around
  <2>4. client'[d].req = client[d].req
    BY <2>3 DEF Around
  <2> QED BY <1>2, <2>1, <2>3, <2>4
<1>4. told'[q] = 1 /\ calls'[q] \in Nat /\ 1 <= calls'[q]
  <2>1. calls[q] = 1
    BY HolderCalledOnce DEF QueryInv
  <2>2. calls'[q] \in {1, 2}
    BY <1>1, <2>1 DEF Counts
  <2> QED BY <2>2 DEF QueryInv, QueryTypes
<1>5. ASSUME NEW p \in Queries \ {q}, Same(p) PROVE QueryOK(p)'
  <2> DEFINE D == {c}
  <2>1. D \in SUBSET Client /\ Around(D, client') /\ QueryOK(p)
    BY DEF QueryInv
  <2>2. \A d \in D : client[d].stage = "out" /\ client[d].req # p
    BY <1>1
  <2> HIDE DEF D
  <2> QED BY <1>5, <2>1, <2>2, OthersStay
<1> QED BY <1>3, <1>4, <1>5

LEMMA ThrowsStays ==
    ASSUME PoolInv, OutcomeInv, QueryInv, NEW q \in Queries, QueryThrows(q) PROVE QueryInv'
<1>1. PICK c \in Client : Holds(q, c) /\ uses' = [uses EXCEPT ![q] = c] /\ Release(c, TRUE)
  BY DEF QueryThrows
<1>2. /\ heard[q] < calls[q] /\ heard' = [heard EXCEPT ![q] = @ + 1]
      /\ listening' = listening \cup {q} /\ threw' = threw \cup {q}
      /\ told' = [told EXCEPT ![q] = @ + 1] /\ UNCHANGED <<busy, released, faults>>
  BY DEF QueryThrows, Called, Hears, Tells
<1>3. Around({c}, client') /\ Counts /\ client'[c].stage = "gone"
  BY <1>1, HolderReleaseAround DEF QueryInv
<1>4. heard[q] = 0 /\ told[q] = 0 /\ q \notin released /\ q \notin busy
  BY <1>1, <1>2, HolderCalledOnce DEF QueryInv, QueryOK
<1>5. heard'[q] = 1
  BY <1>2, <1>4 DEF QueryInv, QueryTypes
<1>6. QueryTypes'
  BY <1>1, <1>2 DEF QueryInv, QueryTypes
<1>7. /\ told'[q] = 1 /\ calls'[q] \in Nat /\ 1 <= calls'[q] /\ \A d \in Client : ~Holds(q, d)'
      /\ \A p \in Queries \ {q} : Same(p) => QueryOK(p)'
  BY <1>1, <1>2, <1>3, <1>4, GivesBack
<1>8. QueryOK(q)'
  <2>1. uses'[q] = c
    BY <1>1 DEF QueryInv, QueryTypes
  <2> QED BY <1>2, <1>3, <1>4, <1>5, <1>7, <2>1 DEF QueryOK, AtWork
<1>9. \A p \in Queries \ {q} : Same(p)
  BY <1>1, <1>2 DEF QueryInv, QueryTypes, Same
<1> QED BY <1>3, <1>6, <1>7, <1>8, <1>9 DEF QueryInv, Counts

LEMMA DoneStays ==
    ASSUME PoolInv, OutcomeInv, QueryInv, NEW q \in Queries, NEW err \in BOOLEAN, QueryDone(q, err)
    PROVE  QueryInv'
<1>1. /\ q \in busy /\ busy' = busy \ {q} /\ listening' = listening \ {q}
      /\ UNCHANGED <<heard, uses, threw, faults>>
  BY DEF QueryDone
<1>2. /\ calls[q] \in Nat /\ heard[q] \in 0..calls[q] /\ told[q] \in 0..heard[q]
      /\ heard[q] > 0 /\ heard'[q] = heard[q]
  BY <1>1 DEF QueryInv, QueryOK
<1>3. CASE q \in released
  <2>1. UNCHANGED <<client, calls, reqTimer, timedOut, released, told>>
    BY <1>3 DEF QueryDone, vars
  <2>2. Around({}, client') /\ Counts
    BY <2>1, FlagAround, SameCounts DEF QueryInv
  <2>3. QueryTypes'
    BY <1>1, <2>1 DEF QueryInv, QueryTypes
  <2>4. QueryOK(q)'
    <3>1. told[q] > 0 /\ \A c \in Client : ~Holds(q, c)
      BY <1>2, <1>3 DEF QueryInv, QueryOK, AtWork
    <3> QED BY <1>1, <1>2, <2>1, <3>1 DEF QueryOK, AtWork, Holds
  <2>5. ASSUME NEW p \in Queries \ {q} PROVE QueryOK(p)'
    <3>1. QueryOK(p) /\ Same(p)
      BY <1>1, <2>1 DEF QueryInv, Same
    <3> QED BY <2>2, <3>1, OthersStay
  <2> QED BY <2>2, <2>3, <2>4, <2>5 DEF QueryInv, Counts
<1>4. CASE q \notin released
  <2> DEFINE c == uses[q]
  <2>1. /\ released' = released \cup {q} /\ Release(c, err)
        /\ told' = [told EXCEPT ![q] = @ + 1]
    BY <1>4 DEF QueryDone, Tells
  <2>2. c \in Client /\ Holds(q, c) /\ told[q] = 0
    BY <1>1, <1>2, <1>4 DEF QueryInv, QueryOK, AtWork
  <2> HIDE DEF c
  <2>3. Around({c}, client') /\ Counts
    BY <2>1, <2>2, HolderReleaseAround DEF QueryInv
  <2>4. QueryTypes'
    BY <1>1, <2>1 DEF QueryInv, QueryTypes
  <2>5. /\ told'[q] = 1 /\ \A d \in Client : ~Holds(q, d)'
        /\ \A p \in Queries \ {q} : Same(p) => QueryOK(p)'
    BY <2>1, <2>2, <2>3, GivesBack
  <2>6. QueryOK(q)'
    <3>1. calls'[q] \in Nat /\ heard'[q] \in 0..calls'[q] /\ told'[q] \in 0..heard'[q] /\ heard'[q] > 0
      BY <1>2, <2>3, <2>5, QueryAssumption DEF Counts
    <3> QED BY <1>1, <2>1, <2>5, <3>1 DEF QueryOK, AtWork
  <2>7. \A p \in Queries \ {q} : Same(p)
    BY <1>1, <2>1 DEF QueryInv, QueryTypes, Same
  <2> QED BY <2>3, <2>4, <2>5, <2>6, <2>7 DEF QueryInv, Counts
<1> QED BY <1>3, <1>4

\* What onError does to the pool: the release of its client, which is broken.
LEMMA BrokenReleases ==
    ASSUME PoolInv, OutcomeInv, Untimed, NEW q \in Queries, QueryHearsError(q),
           uses[q] \in Client, Holds(q, uses[q])
    PROVE  /\ PoolInv' /\ OutcomeInv' /\ Counts
           /\ Around({uses[q]}, client') /\ client'[uses[q]].stage = "gone"
<1> DEFINE c == uses[q]
           x == [client[c] EXCEPT !.live = FALSE]
           cl == [client EXCEPT ![c] = x]
           err == TRUE
           ans == {}
           D == {c}
<1>1. /\ c \in Client /\ client[c].stage = "out" /\ client[c].req = q
      /\ DoRelease(clients, idle, cl, c, err, ans)
      /\ UNCHANGED <<asked, timedOut, ticks, ending>>
  BY DEF QueryHearsError, Holds
<1>2. /\ client \in [Client -> ClientRecord] /\ client[c] \in ClientRecord /\ c \in clients
      /\ client[c].listeners = 0 /\ client[c].connTimer = "off"
  BY <1>1, BusyClient DEF PoolInv, PoolOK, AgreeBut
<1>3. x \in ClientRecord /\ x.listeners = 0 /\ x.connTimer = "off"
  <2> HIDE DEF c
  <2> QED BY ONLY <1>2 DEF ClientRecord, Stage
<1> HIDE DEF x
<1>4. /\ cl \in [Client -> ClientRecord] /\ \A d \in Client \ {c} : cl[d] = client[d]
      /\ cl[c].listeners = 0 /\ cl[c].connTimer = "off"
  BY <1>1, <1>2, <1>3
<1>5. q \in Request /\ q # NoRequest /\ calls[q] # 0
  BY <1>1, QueryAssumption, NullAssumption DEF OutcomeInv, Outcomes, ClientsOK, WorksAlone, WorkOK
<1>6. /\ OnlyTold(client[c].req, timedOut, calls, Told(ans), reqTimer, reqTimer \ ans)
      /\ client[c].req # NoRequest => Told(ans)[client[c].req] # 0
  BY <1>1, <1>5, TellsNobody
<1>7. err \in BOOLEAN /\ ans \in SUBSET Request /\ err /\ D \in SUBSET {c} /\ c \in D
  OBVIOUS
<1> HIDE DEF cl, err, ans, D, c
<1>8. PoolInv'
  BY <1>1, <1>2, <1>4, <1>7, ReleaseKeeps
<1>9. OutcomeInv'
  BY <1>1, <1>2, <1>4, <1>6, <1>7, ReleaseOutcome
<1>10. Around(D, client') /\ Counts /\ (err => client'[c].stage = "gone")
  <2>1. timedOut' = timedOut /\ (client[c].stage = "out" => c \in D)
    BY <1>1, <1>7
  <2> QED BY <1>1, <1>2, <1>4, <1>6, <1>7, <2>1, ReleaseAround
<1>11. client'[c].stage = "gone"
  BY <1>7, <1>10
<1> QED BY <1>8, <1>9, <1>10, <1>11 DEF D, c

LEMMA HearsStays ==
    ASSUME PoolInv, OutcomeInv, QueryInv, NEW q \in Queries, QueryHearsError(q)
    PROVE  PoolInv' /\ OutcomeInv' /\ QueryInv'
<1> DEFINE c == uses[q]
<1>1. /\ q \in listening /\ listening' = listening \ {q} /\ released' = released \cup {q}
      /\ UNCHANGED <<heard, uses, busy, threw>>
  BY DEF QueryHearsError
<1>2. /\ c \in Client /\ q \notin released
      /\ client[c].stage = "gone" \/ Holds(q, c)
      /\ q \in busy \/ q \in threw
  BY <1>1 DEF QueryInv, QueryOK
<1>5. /\ calls[q] \in Nat /\ heard[q] \in 0..calls[q] /\ told[q] \in 0..heard[q]
      /\ heard[q] > 0 /\ heard'[q] = heard[q]
  BY <1>1 DEF QueryInv, QueryOK
<1>3. CASE Holds(q, c)
  <2>1. told[q] = 0
    BY <1>2, <1>3, <1>5 DEF QueryInv, QueryOK
  <2>2. /\ told' = [told EXCEPT ![q] = @ + 1] /\ UNCHANGED faults
    BY <1>3 DEF QueryHearsError, Tells
  <2>3. PoolInv' /\ OutcomeInv' /\ Counts /\ Around({c}, client')
    BY <1>2, <1>3, BrokenReleases DEF QueryInv
  <2> HIDE DEF c
  <2>4. /\ told'[q] = 1 /\ \A d \in Client : ~Holds(q, d)'
        /\ \A p \in Queries \ {q} : Same(p) => QueryOK(p)'
    BY <1>2, <1>3, <2>1, <2>2, <2>3, GivesBack
  <2>5. QueryTypes'
    BY <1>1, <2>2 DEF QueryInv, QueryTypes
  <2>6. QueryOK(q)'
    <3>1. calls'[q] \in Nat /\ heard'[q] \in 0..calls'[q] /\ told'[q] \in 0..heard'[q] /\ heard'[q] > 0
      BY <1>5, <2>3, <2>4, QueryAssumption DEF Counts
    <3> QED BY <1>1, <2>4, <3>1 DEF QueryOK, AtWork
  <2>7. \A p \in Queries \ {q} : Same(p)
    BY <1>1, <2>2 DEF QueryInv, QueryTypes, Same
  <2> QED BY <2>3, <2>4, <2>5, <2>6, <2>7 DEF QueryInv, Counts
<1>4. CASE ~Holds(q, c)
  <2>1. faults' = faults \cup {q} /\ UNCHANGED vars /\ UNCHANGED told
    BY <1>4 DEF QueryHearsError
  <2>2. PoolInv' /\ OutcomeInv'
    <3>1. UNCHANGED vars => [Next]_vars
      OBVIOUS
    <3> QED BY <2>1, <3>1, PoolGoesOn, OutcomeGoesOn
  <2>3. ~AtWork(q) /\ q \in threw
    BY <1>2, <1>4, <1>5 DEF QueryInv, QueryOK, AtWork
  <2>4. Around({}, client') /\ Counts
    BY <2>1, FlagAround, SameCounts DEF QueryInv, vars
  <2>5. QueryTypes'
    BY <1>1, <2>1, <2>3 DEF QueryInv, QueryTypes
  <2>6. QueryOK(q)'
    <3>1. told[q] > 0 /\ \A d \in Client : ~Holds(q, d)
      BY <1>5, <2>3 DEF QueryInv, QueryOK
    <3> QED BY <1>1, <1>5, <2>1, <2>3, <3>1 DEF QueryOK, AtWork, Holds, vars
  <2>7. ASSUME NEW p \in Queries \ {q} PROVE QueryOK(p)'
    <3>1. QueryOK(p) /\ Same(p)
      BY <1>1, <2>1 DEF QueryInv, Same
    <3> QED BY <2>4, <3>1, OthersStay
  <2> QED BY <2>2, <2>4, <2>5, <2>6, <2>7 DEF QueryInv, Counts
<1> QED BY <1>3, <1>4

\* The steps of the pool, which tell no query anything yet.
LEMMA PoolStays ==
    ASSUME PoolInv, OutcomeInv, QueryInv, PoolStep PROVE QueryInv'
<1>1. UNCHANGED <<heard, uses, busy, listening, released, told, threw, faults>>
  BY DEF PoolStep, queryVars
<1>2. QueryTypes'
  BY <1>1 DEF QueryInv, QueryTypes
<1>3. \A p \in Queries : Same(p)
  BY <1>1 DEF Same
<1>4. CASE Around({}, client') /\ Counts
  <2>1. \A p \in Queries : QueryOK(p)'
    BY <1>3, <1>4, OthersStay DEF QueryInv
  <2> QED BY <1>2, <1>4, <2>1 DEF QueryInv, Counts
<1>5. ASSUME NEW c \in Client, client[c].stage = "out", Borrowed(c), Around({c}, client'), Counts
      PROVE  QueryInv'
  <2> DEFINE D == {c}
  <2>1. D \in SUBSET Client /\ Around(D, client')
    BY <1>5
  <2>2. ASSUME NEW p \in Queries PROVE QueryOK(p)'
    <3>1. \A d \in D : client[d].stage = "out" /\ client[d].req # p
      BY <1>5 DEF Borrowed
    <3> HIDE DEF D
    <3> QED BY <1>3, <1>5, <2>1, <3>1, OthersStay DEF QueryInv
  <2> QED BY <1>2, <1>5, <2>2 DEF QueryInv, Counts
<1>6. Untimed
  BY DEF QueryInv
<1> QED BY <1>4, <1>5, <1>6, PoolAround

-----------------------------------------------------------------------------
\* The inductive invariants of the pool and of its queries, through every handler.
THEOREM QueryInvariant == QuerySpec => [](PoolInv /\ OutcomeInv /\ QueryInv)
<1>1. QueryInit => PoolInv /\ OutcomeInv /\ QueryInv
  <2> SUFFICES ASSUME QueryInit PROVE PoolInv /\ OutcomeInv /\ QueryInv
    OBVIOUS
  <2>1. PoolInv /\ OutcomeInv
    BY PoolBegins, OutcomeBegins DEF QueryInit
  <2>2. QueryTypes /\ Untimed
    BY DEF QueryInit, Init, QueryTypes, Untimed
  <2>3. ASSUME NEW q \in Queries PROVE QueryOK(q)
    <3>1. q \in Request
      BY QueryAssumption
    <3>2. calls[q] = 0 /\ heard[q] = 0 /\ told[q] = 0 /\ busy = {} /\ listening = {} /\ released = {}
      BY <3>1 DEF QueryInit, Init
    <3> QED BY <3>2 DEF QueryOK
  <2> QED BY <2>1, <2>2, <2>3 DEF QueryInv
<1>2. PoolInv /\ OutcomeInv /\ QueryInv /\ [QueryNext]_allVars
        => (PoolInv /\ OutcomeInv /\ QueryInv)'
  <2> SUFFICES ASSUME PoolInv, OutcomeInv, QueryInv, [QueryNext]_allVars
      PROVE  PoolInv' /\ OutcomeInv' /\ QueryInv'
    OBVIOUS
  <2>1. ASSUME [Next]_vars, QueryInv' PROVE PoolInv' /\ OutcomeInv' /\ QueryInv'
    BY <2>1, PoolGoesOn, OutcomeGoesOn
  <2>2. ASSUME NEW q \in Queries, QueryRefused(q) PROVE PoolInv' /\ OutcomeInv' /\ QueryInv'
    <3>1. UNCHANGED vars
      BY <2>2 DEF QueryRefused, vars
    <3> QED BY <2>1, <2>2, <3>1, RefusedStays
  <2>3. ASSUME NEW q \in Queries, QueryBegins(q) PROVE PoolInv' /\ OutcomeInv' /\ QueryInv'
    <3>1. UNCHANGED vars
      BY <2>3 DEF QueryBegins, vars
    <3> QED BY <2>1, <2>3, <3>1, BeginsStays
  <2>4. ASSUME NEW q \in Queries, QueryThrows(q) PROVE PoolInv' /\ OutcomeInv' /\ QueryInv'
    <3>1. \E c \in Client : Release(c, TRUE)
      BY <2>4 DEF QueryThrows
    <3>2. Next
      BY <3>1 DEF Next
    <3> QED BY <2>1, <2>4, <3>2, ThrowsStays
  <2>5. ASSUME NEW q \in Queries, QueryHearsError(q) PROVE PoolInv' /\ OutcomeInv' /\ QueryInv'
    BY <2>5, HearsStays
  <2>6. ASSUME NEW q \in Queries, NEW err \in BOOLEAN, QueryDone(q, err)
        PROVE  PoolInv' /\ OutcomeInv' /\ QueryInv'
    <3>1. [Next]_vars
      <4>1. CASE q \in released
        BY <2>6, <4>1 DEF QueryDone, vars
      <4>2. CASE q \notin released
        <5>1. uses[q] \in Client /\ Release(uses[q], err)
          BY <2>6, <4>2 DEF QueryDone, QueryInv, QueryOK, AtWork
        <5> QED BY <5>1 DEF Next
      <4> QED BY <4>1, <4>2
    <3> QED BY <2>1, <2>6, <3>1, DoneStays
  <2>7. ASSUME PoolStep PROVE PoolInv' /\ OutcomeInv' /\ QueryInv'
    <3>1. Next
      BY <2>7 DEF PoolStep, Next
    <3> QED BY <2>1, <2>7, <3>1, PoolStays
  <2>8. ASSUME UNCHANGED allVars PROVE PoolInv' /\ OutcomeInv' /\ QueryInv'
    <3>1. /\ UNCHANGED vars
          /\ UNCHANGED <<heard, uses, busy, listening, released, told, threw, faults>>
      BY <2>8 DEF allVars, queryVars
    <3>2. UNCHANGED <<client, calls, reqTimer, timedOut>>
      BY <3>1 DEF vars
    <3>3. Around({}, client') /\ Counts /\ \A p \in Queries : Same(p)
      BY <3>1, <3>2, FlagAround, SameCounts DEF QueryInv, Same
    <3>4. QueryInv'
      <4>1. \A p \in Queries : QueryOK(p)'
        BY <3>3, OthersStay DEF QueryInv
      <4>2. QueryTypes'
        BY <3>1 DEF QueryInv, QueryTypes
      <4> QED BY <3>3, <4>1, <4>2 DEF QueryInv, Counts
    <3> QED BY <2>1, <3>1, <3>4
  <2> QED BY <2>2, <2>3, <2>4, <2>5, <2>6, <2>7, <2>8 DEF QueryNext
<1> QED BY <1>1, <1>2, PTL DEF QuerySpec

\* A query is told once, and twice only of a connection whose failure is reported
\* twice, and it has given its client back by then; no client that is idle or lent
\* to others hears its onError; only a query whose client.query threw releases a
\* second time.
THEOREM QueriesHaveOneOutcome == QuerySpec => []QueryOutcome
<1>1. PoolInv /\ OutcomeInv /\ QueryInv => QueryOutcome
  <2> SUFFICES ASSUME PoolInv, OutcomeInv, QueryInv, NEW q \in Queries
      PROVE  /\ told[q] <= IF Refailed(q) THEN 2 ELSE 1
             /\ told[q] > 0 => \A c \in Client : ~Holds(q, c)
             /\ q \in listening => client[uses[q]].stage = "gone" \/ Holds(q, uses[q])
    BY DEF QueryOutcome, QueryInv, QueryTypes
  <2>1. QueryOK(q) /\ Untimed /\ q \in Request /\ OneOutcome
    BY OutcomeIsOne, QueryAssumption DEF QueryInv
  <2>2. calls[q] <= IF Refailed(q) THEN 2 ELSE 1
    BY <2>1 DEF OneOutcome, Untimed
  <2>3. told[q] <= IF Refailed(q) THEN 2 ELSE 1
    BY <2>1, <2>2 DEF QueryOK
  <2>4. told[q] > 0 => \A c \in Client : ~Holds(q, c)
    BY <2>1 DEF QueryOK
  <2>5. q \in listening => client[uses[q]].stage = "gone" \/ Holds(q, uses[q])
    BY <2>1 DEF QueryOK
  <2> QED BY <2>3, <2>4, <2>5
<1> QED BY <1>1, QueryInvariant, PTL

\* With pool.query the pool never owns more than max clients, what is idle can
\* be lent, and a request has one outcome, as for borrowers alone.
THEOREM QueriesKeepThePool == QuerySpec => [](SizeBound /\ IdleUsable /\ OneOutcome)
<1>1. PoolInv /\ OutcomeInv => SizeBound /\ IdleUsable /\ OneOutcome
  <2> SUFFICES ASSUME PoolInv, OutcomeInv PROVE SizeBound /\ IdleUsable /\ OneOutcome
    OBVIOUS
  <2>1. SizeBound
    BY DEF PoolInv, PoolOK, AgreeBut, SizeBound
  <2> QED BY <2>1, UsableWhenIdle, OutcomeIsOne
<1> QED BY <1>1, QueryInvariant, PTL
=============================================================================
