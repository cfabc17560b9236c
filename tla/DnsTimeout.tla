----------------------------- MODULE DnsTimeout -----------------------------
(***************************************************************************)
(* resolve/dns.py: every scan begins by saving, setting and restoring the  *)
(* default socket timeout, which belongs to the whole process, while other *)
(* worker threads do the same.                                             *)
(***************************************************************************)
EXTENDS Population, FiniteSets

CONSTANT PoolSizes    \* concurrency.max_workers: the sizes considered

ASSUME DnsAssumption == PoolSizes \subseteq Nat \ {0}

VARIABLES
    workers,   \* worker threads of this run's pool
    default,   \* socket.getdefaulttimeout(): "unlimited" or "dns_timeout"
    saved,     \* previous_timeout, per lookup
    stage      \* how far the lookup of each host is

dnsVars == <<workers, default, saved, stage>>

Timeouts == {"unlimited", "dns_timeout"}

Resolving(h) == stage[h] \in {"saved", "looking", "answered"}

TypeOK ==
    /\ workers \in PoolSizes
    /\ default \in Timeouts
    /\ saved \in [Hosts -> Timeouts \cup {"unbound"}]
    /\ stage \in [Hosts -> {"todo", "saved", "looking", "answered", "done"}]

Init ==
    /\ workers \in PoolSizes
    /\ default = "unlimited"
    /\ saved = [h \in Hosts |-> "unbound"]
    /\ stage = [h \in Hosts |-> "todo"]

Advances(h, from, to) ==
    /\ stage[h] = from
    /\ stage' = [stage EXCEPT ![h] = to]

\* previous_timeout is never assigned.
Save_Forgotten(h) ==
    /\ Cardinality({g \in Hosts : Resolving(g)}) < workers
    /\ Advances(h, "todo", "saved")
    /\ UNCHANGED <<workers, default, saved>>

\* The save and the set swapped.
Save_AfterSet(h) ==
    /\ Cardinality({g \in Hosts : Resolving(g)}) < workers
    /\ Advances(h, "todo", "saved")
    /\ saved' = [saved EXCEPT ![h] = "dns_timeout"]
    /\ UNCHANGED <<workers, default>>

\* previous_timeout = socket.getdefaulttimeout(), in one of the worker threads.
Save(h) ==
    /\ Cardinality({g \in Hosts : Resolving(g)}) < workers
    /\ Advances(h, "todo", "saved")
    /\ saved' = [saved EXCEPT ![h] = default]
    /\ UNCHANGED <<workers, default>>

\* socket.setdefaulttimeout(timeout_s)
Set(h) ==
    /\ Advances(h, "saved", "looking")
    /\ default' = "dns_timeout"
    /\ UNCHANGED <<workers, saved>>

\* The lookup itself clears the timeout it ran under.
LookUp_Clears(h) ==
    /\ Advances(h, "looking", "answered")
    /\ default' = "unlimited"
    /\ UNCHANGED <<workers, saved>>

\* getaddrinfo returns or raises; the finally clause is still to come.
LookUp(h) ==
    /\ Advances(h, "looking", "answered")
    /\ UNCHANGED <<workers, default, saved>>

\* finally: socket.setdefaulttimeout(previous_timeout)
Restore(h) ==
    /\ Advances(h, "answered", "done")
    /\ default' = saved[h]
    /\ UNCHANGED <<workers, saved>>

Next == \E h \in Hosts : Save(h) \/ Set(h) \/ LookUp(h) \/ Restore(h)

Spec == Init /\ [][Next]_dnsVars

-----------------------------------------------------------------------------

Quiet == \A h \in Hosts : ~Resolving(h)

\* With one worker resolve() is what it looks like: between lookups the default
\* is the one the process started with.
RestoredWhenQuiet == workers = 1 /\ Quiet => default = "unlimited"

\* With several workers the threads can restore each other's value and leave
\* the process with the DNS timeout as its default; from then on it stays so,
\* and no interleaving brings the default to any other value.
LeakIsPermanent ==
    [](Quiet /\ default = "dns_timeout" => [](default = "dns_timeout"))

=============================================================================
