-------------------------- MODULE DnsTimeoutProofs --------------------------
(***************************************************************************)
(* Proofs, for any number of hosts and threads, of what resolve() does to  *)
(* the default socket timeout of the process.                              *)
(***************************************************************************)
EXTENDS DnsTimeout, FiniteSetTheorems, TLAPS

\* Without a free worker thread no lookup starts: below a single lookup there
\* is none.
LEMMA OneWorker ==
    ASSUME Cardinality({g \in Hosts : Resolving(g)}) < 1
    PROVE  Quiet
  <1> DEFINE busy == {g \in Hosts : Resolving(g)}
  <1>1. IsFiniteSet(Hosts)
    BY FS_Interval, PopulationAssumption DEF Hosts
  <1>2. IsFiniteSet(busy)
    BY <1>1, FS_Subset
  <1>3. Cardinality(busy) = 0
    BY <1>2, FS_CardinalityType
  <1>4. busy = {}
    BY <1>2, <1>3, FS_EmptySet
  <1> QED
    BY <1>4 DEF Quiet

\* Every lookup has saved a value that was in place; with one worker at most
\* one lookup is under way, the value it saved is the original one, and that
\* is in place when there is none.
DnsInv ==
    /\ TypeOK
    /\ \A h \in Hosts : Resolving(h) => saved[h] \in Timeouts
    /\ workers = 1 =>
          /\ \A g, h \in Hosts : Resolving(g) /\ Resolving(h) => g = h
          /\ \A h \in Hosts : Resolving(h) => saved[h] = "unlimited"
    /\ RestoredWhenQuiet

\* A step of one lookup keeps the invariant.
LEMMA DnsStep ==
    ASSUME DnsInv, [Next]_dnsVars
    PROVE  DnsInv'
  <1> USE DEF DnsInv, TypeOK, RestoredWhenQuiet, Resolving, Timeouts
  <1>1. ASSUME NEW h \in Hosts, Save(h)
        PROVE  DnsInv'
    <2>1. /\ TypeOK' /\ workers' = workers
          /\ \A g \in Hosts : Resolving(g)' => saved'[g] \in Timeouts
      BY <1>1 DEF Save, Advances
    <2>2. CASE workers = 1
      <3>1. Quiet
        BY <1>1, <2>2, OneWorker DEF Save
      <3> QED
        BY <1>1, <2>1, <2>2, <3>1 DEF Save, Advances, Quiet
    <2> QED
      BY <2>1, <2>2
  <1>2. ASSUME NEW h \in Hosts, Set(h)
        PROVE  DnsInv'
    BY <1>2 DEF Set, Advances, Quiet
  <1>3. ASSUME NEW h \in Hosts, LookUp(h)
        PROVE  DnsInv'
    BY <1>3 DEF LookUp, Advances, Quiet
  <1>4. ASSUME NEW h \in Hosts, Restore(h)
        PROVE  DnsInv'
    BY <1>4 DEF Restore, Advances, Quiet
  <1>5. CASE UNCHANGED dnsVars
    BY <1>5 DEF dnsVars, Quiet
  <1> QED
    BY <1>1, <1>2, <1>3, <1>4, <1>5 DEF Next

\* With one worker thread the process's default socket timeout is restored
\* whenever no lookup is under way (resolve).
THEOREM SingleWorkerRestores == Spec => []RestoredWhenQuiet
  <1>1. Init => DnsInv
    BY DEF Init, DnsInv, TypeOK, Timeouts, Resolving, RestoredWhenQuiet
  <1>2. DnsInv /\ [Next]_dnsVars => DnsInv'
    BY DnsStep
  <1>3. DnsInv => RestoredWhenQuiet
    BY DEF DnsInv
  <1> QED
    BY <1>1, <1>2, <1>3, PTL DEF Spec

\* The type of the lookups' state holds throughout (resolve).
THEOREM DnsTypeCorrect == Spec => []TypeOK
  <1>1. Init => DnsInv
    BY DEF Init, DnsInv, TypeOK, Timeouts, Resolving, RestoredWhenQuiet
  <1>2. DnsInv /\ [Next]_dnsVars => DnsInv'
    BY DnsStep
  <1>3. DnsInv => TypeOK
    BY DEF DnsInv
  <1> QED
    BY <1>1, <1>2, <1>3, PTL DEF Spec

\* The DNS timeout has become the default, and every lookup under way will
\* restore it.
Leaked ==
    /\ default = "dns_timeout"
    /\ \A h \in Hosts : Resolving(h) => saved[h] = "dns_timeout"

\* Whatever the number of threads, the leaked timeout is never repaired
\* (resolve): every later lookup saves it and restores it.
THEOREM LeakStays == Spec => LeakIsPermanent
  <1> USE DEF Leaked, Resolving
  <1>1. Init => DnsInv
    BY DEF Init, DnsInv, TypeOK, Timeouts, RestoredWhenQuiet
  <1>2. DnsInv /\ [Next]_dnsVars => DnsInv'
    BY DnsStep
  <1>3. Quiet /\ default = "dns_timeout" => Leaked
    BY DEF Quiet
  <1>4. DnsInv /\ Leaked /\ [Next]_dnsVars => Leaked'
    BY DEF DnsInv, TypeOK, Next, dnsVars, Save, Set, LookUp, Restore, Advances
  <1>5. Leaked => default = "dns_timeout"
    OBVIOUS
  <1> QED
    BY <1>1, <1>2, <1>3, <1>4, <1>5, PTL DEF Spec, LeakIsPermanent

=============================================================================
