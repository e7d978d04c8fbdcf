------------------------------ MODULE PoolQuery ------------------------------
(***************************************************************************)
(* pool.query (packages/gaussdb-pool/index.js): connect, client.query on   *)
(* the client it gets, and the release of that client, with an 'error'     *)
(* listener of its own on the client meanwhile.                            *)
(*                                                                         *)
(* Some requests of the pool are made by pool.query (Queries), the others  *)
(* by borrowers as in Pool.  The callback of connect runs in the handler   *)
(* that calls it, after all the rest of it: nothing else happens while a   *)
(* query is called back (Quiet).  What the client does with the query is   *)
(* in ClientQueue; here its callback comes at some time, or client.query   *)
(* throws, as for a query without a text.                                  *)
(***************************************************************************)
EXTENDS Pool

CONSTANTS
    Queries,        \* the requests that are made by pool.query
    NoClient

\* With both options a request that timed out may be given a client (CalledOnce).
ASSUME QueryAssumption ==
    Queries \subseteq Request /\ NoClient \notin Client /\ ~(Verify /\ ConnTimeout)

VARIABLES
    heard,      \* how often the callback of connect of each query has run
    uses,       \* the client in the closure of each query
    busy,       \* the queries whose client.query has not called back
    listening,  \* those whose onError is attached to their client
    released,   \* those with clientReleased set
    told,       \* how often the callback of each query was called
    threw,      \* those whose client.query threw
    faults      \* those whose onError released a client for the second time, which throws

queryVars == <<heard, uses, busy, listening, released, told, threw, faults>>
allVars == <<vars, queryVars>>

QueryInit ==
    /\ Init /\ heard = [q \in Queries |-> 0] /\ uses = [q \in Queries |-> NoClient]
    /\ busy = {} /\ listening = {} /\ released = {}
    /\ told = [q \in Queries |-> 0] /\ threw = {} /\ faults = {}

-----------------------------------------------------------------------------
\* Queries the pool is calling back, and whether the handler is over.
Called == {q \in Queries : heard[q] < calls[q]}
Quiet == Called = {}

Holds(q, c) == client[c].stage = "out" /\ client[c].req = q
Borrowed(c) == client[c].req \notin Queries
Listeners(c) == {q \in listening : uses[q] = c}

Hears(q) == heard' = [heard EXCEPT ![q] = @ + 1]
Tells(q) == told' = [told EXCEPT ![q] = @ + 1]

\* connect fails, for the second time perhaps, or the pool is ending: the query
\* is told.
QueryRefused(q) ==
    /\ q \in Called /\ ~\E c \in Client : Holds(q, c)
    /\ Hears(q) /\ Tells(q)
    /\ UNCHANGED <<vars, uses, busy, listening, released, threw, faults>>

\* client.once('error', onError), client.query
QueryBegins(q) ==
    /\ q \in Called /\ Hears(q)
    /\ \E c \in Client : Holds(q, c) /\ uses' = [uses EXCEPT ![q] = c]
    /\ listening' = listening \cup {q} /\ busy' = busy \cup {q}
    /\ UNCHANGED <<vars, released, told, threw, faults>>

\* client.query throws: the client is released with the error, onError stays.
QueryThrows(q) ==
    /\ q \in Called /\ Hears(q)
    /\ \E c \in Client :
          Holds(q, c) /\ uses' = [uses EXCEPT ![q] = c] /\ Release(c, TRUE)
    /\ listening' = listening \cup {q} /\ threw' = threw \cup {q} /\ Tells(q)
    /\ UNCHANGED <<busy, released, faults>>

\* Mutation of QueryDone: onError stays on the client.
QueryDoneListening(q, err) ==
    /\ Quiet /\ q \in busy /\ busy' = busy \ {q} /\ UNCHANGED listening
    /\ IF q \in released
       THEN UNCHANGED <<vars, released, told>>
       ELSE released' = released \cup {q} /\ Release(uses[q], err) /\ Tells(q)
    /\ UNCHANGED <<heard, uses, threw, faults>>

\* The callback of client.query: the client is released unless onError did it.
QueryDone(q, err) ==
    /\ Quiet /\ q \in busy /\ busy' = busy \ {q} /\ listening' = listening \ {q}
    /\ IF q \in released
       THEN UNCHANGED <<vars, released, told>>
       ELSE released' = released \cup {q} /\ Release(uses[q], err) /\ Tells(q)
    /\ UNCHANGED <<heard, uses, threw, faults>>

\* The client emits 'error' and the onError of query q hears it first: q gives
\* the broken client back and is told, or releases it for the second time.
QueryHearsError(q) ==
    LET c == uses[q] IN
    /\ Quiet /\ ticks = 0 /\ q \in listening /\ listening' = listening \ {q}
    /\ released' = released \cup {q}
    /\ IF Holds(q, c)
       THEN /\ DoRelease(clients, idle, [client EXCEPT ![c] = [client[c] EXCEPT !.live = FALSE]],
                         c, TRUE, {})
            /\ UNCHANGED <<asked, timedOut, ticks, ending>>
            /\ Tells(q) /\ UNCHANGED faults
       ELSE faults' = faults \cup {q} /\ UNCHANGED <<vars, told>>
    /\ UNCHANGED <<heard, uses, busy, threw>>

\* Everything else the pool, its borrowers and its clients do.
PoolStep ==
    /\ Quiet /\ UNCHANGED queryVars
    /\ \/ \E r \in Request : ConnectRefused(r) \/ ConnectQueued(r) \/ ConnectNew(r)
                             \/ ReqTimeoutFires(r)
       \/ \E c \in Client :
             \/ Borrowed(c) /\ (EndedByHolder(c) \/ \E err \in BOOLEAN : Release(c, err))
             \/ Connected(c) \/ ConnectFailed(c) \/ ConnectFailsAgain(c) \/ ConnTimerFires(c)
             \/ \E ok \in BOOLEAN : VerifyDone(c, ok)
             \/ IdleTimeoutFires(c) \/ LifetimeFires(c)
             \/ (Listeners(c) = {} /\ ClientError(c)) \/ FailedError(c) \/ Closed(c)
       \/ End \/ RunTick

QueryNext ==
    \/ \E q \in Queries :
          \/ QueryRefused(q) \/ QueryBegins(q) \/ QueryThrows(q) \/ QueryHearsError(q)
          \/ \E err \in BOOLEAN : QueryDone(q, err)
    \/ PoolStep

QuerySpec == QueryInit /\ [][QueryNext]_allVars

\* Callbacks run, clients call back for their queries, borrowers release.
QueryFairness ==
    /\ LoopFairness
    /\ \A q \in Queries :
          /\ WF_allVars(QueryRefused(q) \/ QueryBegins(q) \/ QueryThrows(q))
          /\ WF_allVars(\E err \in BOOLEAN : QueryDone(q, err))
    /\ \A c \in Client :
          WF_allVars(PoolStep /\ Borrowed(c) /\ \E err \in BOOLEAN : Release(c, err))
FairSpec == QuerySpec /\ QueryFairness

-----------------------------------------------------------------------------
\* Properties.

\* A query that is told has given its client back, and is told once, whichever
\* of the answer, an error of the client and an exception of client.query come
\* first; twice only of a connection whose failure is reported twice.  No client
\* that is idle or lent to others hears the onError of a query that is over: it
\* would release the client of its next holder.  A second release is left to
\* queries whose client.query threw.
QueryOutcome ==
    /\ \A q \in Queries :
          /\ told[q] <= IF Refailed(q) THEN 2 ELSE 1
          /\ told[q] > 0 => \A c \in Client : ~Holds(q, c)
          /\ q \in listening => client[uses[q]].stage = "gone" \/ Holds(q, uses[q])
    /\ faults \subseteq threw

\* Every call of pool.query and of pool.connect is told, or the pool is shut
\* down: by way of the queue, verify, or the release of a client by another query.
QueriesTold ==
    /\ \A q \in Queries : q \in asked ~> told[q] > 0 \/ ending
    /\ \A r \in Request \ Queries : r \in asked ~> calls[r] > 0 \/ ending

\* "Release called on client which has already been released to the pool." is not
\* for pool.query: nobody calls release twice.
NeverTwice == faults = {}
=============================================================================
