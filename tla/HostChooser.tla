----------------------------- MODULE HostChooser -----------------------------
(***************************************************************************)
(* What the process knows of the hosts of a cluster                        *)
(* (packages/gaussdb-node/lib/host-status-tracker.js) and the order in     *)
(* which a client that balances its connections tries them                 *)
(* (host-chooser.js).  Statuses and the round-robin counter are shared by  *)
(* all clients of the process.                                             *)
(***************************************************************************)
EXTENDS Naturals, Sequences, SequencesExt

CONSTANTS
    Hosts,      \* the hosts parameter: a sequence of distinct host specs
    Cycle       \* the counter is kept modulo this number

Host == {Hosts[i] : i \in 1..Len(Hosts)}

ASSUME HostsAssumption == Hosts \in Seq(Host) /\ Hosts # <<>> /\ IsInjective(Hosts)

\* The counter is only used modulo the number of candidates.
ASSUME CycleAssumption ==
    Cycle \in Nat \ {0} /\ \A n \in 1..Len(Hosts) : Cycle % n = 0

HostStatus == {"CONNECT_OK", "CONNECT_FAIL", "MASTER", "SLAVE"}
NoEntry == "none"
ServerType == {"any", "master", "slave", "preferSlave"}

VARIABLES
    status,     \* statusMap: the last status recorded for a host
    fresh,      \* the hosts whose entry is younger than hostRecheckSeconds
    counter     \* the round-robin counter of this cluster

hostVars == <<status, fresh, counter>>

HostTypeOK ==
    /\ status \in [Host -> HostStatus \cup {NoEntry}]
    /\ fresh \subseteq Host /\ counter \in 0..(Cycle - 1)

-----------------------------------------------------------------------------
\* HostStatusTracker.

Records(h, s) ==
    /\ status' = [status EXCEPT ![h] = s] /\ fresh' = fresh \cup {h}
    /\ UNCHANGED counter

\* No entry, or one that has expired.
Unknown(h) == status[h] = NoEntry \/ h \notin fresh

\* The statuses with which a host suits a target server type.
Suiting(target) ==
    CASE target = "any" -> {"CONNECT_OK", "MASTER", "SLAVE"}
      [] target = "master" -> {"MASTER"}
      [] target = "slave" -> {"SLAVE"}
      [] target = "preferSlave" -> {"MASTER", "SLAVE"}

\* Mutation of IsHostSuitable: entries do not expire.
IsHostSuitableForever(h, target) == status[h] \in Suiting(target) \cup {NoEntry}

IsHostSuitable(h, target) == Unknown(h) \/ status[h] \in Suiting(target)

IsHostProbingCandidate(h) == Unknown(h) \/ status[h] = "CONNECT_OK"

KnownSlave(h) == ~Unknown(h) /\ status[h] = "SLAVE"

\* The elements of s that are in S, in their order: a SelectSeq that proofs
\* can reason about.
Only(s, S) ==
    LET only[i \in 0..Len(s)] ==
          IF i = 0 THEN <<>>
          ELSE IF s[i] \in S THEN Append(only[i - 1], s[i]) ELSE only[i - 1]
    IN only[Len(s)]

GetCandidateHosts(target) ==
    LET suitable == Only(Hosts, {h \in Host : IsHostSuitable(h, target)})
        slaves == Only(suitable, {h \in Host : KnownSlave(h)})
    IN IF target = "preferSlave" /\ slaves # <<>> THEN slaves ELSE suitable

-----------------------------------------------------------------------------
\* HostChooser.

\* When no host suits: those worth a probe, or every host if any will do.
Candidates(target) ==
    LET known == GetCandidateHosts(target)
    IN IF known # <<>> THEN known
       ELSE IF target = "any" THEN Hosts
       ELSE Only(Hosts, {h \in Host : IsHostProbingCandidate(h)})

RoundRobin(hosts) ==
    LET index == counter % Len(hosts)
    IN SubSeq(hosts, index + 1, Len(hosts)) \o SubSeq(hosts, 1, index)

Shuffles(hosts) ==
    {s \in [1..Len(hosts) -> {hosts[i] : i \in 1..Len(hosts)}] : IsInjective(s)}

\* The orders in which getHostIterator may yield the candidates.
Orders(target, mode) ==
    LET hosts == Candidates(target)
    IN IF hosts = <<>> THEN {hosts}
       ELSE IF mode = "roundrobin" THEN {RoundRobin(hosts)}
       ELSE Shuffles(hosts)

\* The counter moves when there is a candidate.
Counts(target, mode) ==
    /\ counter' = IF mode = "roundrobin" /\ Candidates(target) # <<>>
                  THEN (counter + 1) % Cycle ELSE counter
    /\ UNCHANGED <<status, fresh>>

=============================================================================
