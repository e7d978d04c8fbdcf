--------------------------- MODULE PoolImplements ---------------------------
(***************************************************************************)
(* The pool implements the promise of PoolLease: a request has a lease on  *)
(* the client that is checked out for it.  With options.verify a request   *)
(* that timed out may be answered again (CalledOnce in Pool), so this is   *)
(* claimed of pools without it.                                            *)
(***************************************************************************)
EXTENDS Pool

Leases == {<<client[c].req, c>> : c \in {d \in Client : client[d].stage = "out"}}

\* The failures that client.connect may report again, to the request too.
Again == {client[c].req : c \in {d \in Client : client[d].stage = "failed"}} \ timedOut

Lease == INSTANCE PoolLease
            WITH answers <- calls, again <- Again, leases <- Leases, closing <- ending, closed <- endCalls

\* Every step of connect, the pulses, timers, errors, release and end, alone or
\* in one handler, is a step of PoolLease or none at all: in no order does the pool
\* answer a request twice, but for a failed connection that is reported twice, lend
\* a client to two requests or lend one after the callback of end was called.
ImplementsLease == Lease!Spec
=============================================================================
