------------------------------ MODULE PoolLease ------------------------------
(***************************************************************************)
(* What a connection pool promises, whatever its lists, timers and pulses: *)
(* each request is answered once, with a client nobody else holds or with  *)
(* an error, and of the errors only some may be told once more (again);    *)
(* never more than MaxSize clients are lent; when the pool reports that it *)
(* is closed, every client has come back and none is lent again.           *)
(***************************************************************************)
EXTENDS Naturals, FiniteSets

CONSTANTS Request, Client, MaxSize

VARIABLES
    asked,          \* the requests made
    answers,        \* how often each was answered
    again,          \* those told of a failure that they may be told of again
    leases,         \* <<r, c>>: request r got client c and has not given it back
    closing,        \* close was asked for
    closed          \* how often the pool has reported that it is closed

vars == <<asked, answers, again, leases, closing, closed>>

Init ==
    /\ asked = {} /\ answers = [r \in Request |-> 0] /\ again = {}
    /\ leases = {} /\ closing = FALSE /\ closed = 0

Waiting == {r \in asked : answers[r] = 0}
Held(lent) == {lease[2] : lease \in lent}

Answer(R) == answers' = [r \in Request |-> IF r \in R THEN answers[r] + 1 ELSE answers[r]]

\* The requests of R are told of a failure, for the first time or once more.
Fails(R) ==
    /\ R \subseteq Waiting \cup again
    /\ again' \in {again \ R, (again \ R) \cup (R \cap Waiting)}

\* The leases left when a client has come back, or none.
Left == {leases} \cup {leases \ {lease} : lease \in leases}

\* A closing pool may report that it is closed, once, when nothing is lent.
MayReport(lent) == closed' \in {closed} \cup (IF closing' /\ lent = {} THEN {1} ELSE {})

\* A request is made; a pool that is closing refuses it at once.
Ask(r) ==
    /\ r \notin asked /\ asked' = asked \cup {r}
    /\ Answer(IF closing THEN {r} ELSE {})
    /\ UNCHANGED <<again, leases, closing, closed>>

\* A client may come back; the requests in R are told of a failure.
TakeBack(R) ==
    /\ Fails(R) /\ Answer(R)
    /\ leases' \in Left /\ MayReport(leases')
    /\ UNCHANGED <<asked, closing>>

\* The same, and a client is lent to another request, by a pool that is not closed.
Lend(r, c, R) ==
    /\ r \in Waiting \ R /\ Fails(R) /\ Answer(R \cup {r})
    /\ closed = 0
    /\ \E left \in Left :
          /\ c \notin Held(left) /\ Cardinality(left) < MaxSize
          /\ leases' = left \cup {<<r, c>>}
    /\ UNCHANGED <<asked, closing, closed>>

Close ==
    /\ ~closing /\ closing' = TRUE /\ MayReport(leases)
    /\ UNCHANGED <<asked, answers, again, leases>>

\* One event fails one request at most.
Failed == {{}} \cup {{r} : r \in Request}

Next ==
    \/ \E r \in Request : Ask(r)
    \/ \E R \in Failed : TakeBack(R) \/ \E r \in Request, c \in Client : Lend(r, c, R)
    \/ Close

Spec == Init /\ [][Next]_vars
=============================================================================
