------------------------ MODULE ScanTargetProperties ------------------------
(***************************************************************************)
(* What a scan's record says about the endpoint it is about.               *)
(***************************************************************************)
EXTENDS ScanTarget

Probes == DOMAIN record.probes

Done == pc = "done"

\* A record says its host is reachable exactly when a handshake with it
\* completed in time, whatever openssl printed on failures ("alert protocol
\* version:" is not a "Protocol version:" line) and whichever attempt it was.
\* A scan that raised is excepted: it forgets its probes.
ReachabilityIsTrue ==
    tool = "run" /\ Done /\ record.notes # "internal_error"
        => (record.reachable <=> answered)

\* Some backend of the endpoint negotiates g with some profile.
Real(g) == \E b \in site.backends, i \in DOMAIN Offers : g \in b.groups \cap Offers[i]

\* Some backend's own certificate, not another one of its chain, has the class.
RealLeaf(class) == \E b \in site.backends : b.chain[1] = class

\* A post-quantum capability is never invented: the recorded group is one that
\* some backend of the endpoint negotiates with some profile, its class is the
\* recorded one, and the authentication class is that of some leaf.
CapabilityIsReal ==
    /\ record.kex # "unknown" =>
          /\ GroupClass[record.group] = record.kex
          /\ Real(record.group)
    /\ record.auth # "unknown" => RealLeaf(record.auth)

\* The inductive invariant behind it: every group on its way from an output to
\* the record is real, and the best class is that of the best group.
ScanInv ==
    /\ TypeOK
    /\ Len(record.probes) <= Len(Offers)
    /\ last.group # None => Real(last.group)
    /\ \A i \in Probes : record.probes[i].group # None => Real(record.probes[i].group)
    /\ best.group # None => Real(best.group)
    /\ best.class # "unknown" => best.group # None /\ GroupClass[best.group] = best.class
    /\ record.kex # "unknown" =>
          /\ record.group # None
          /\ GroupClass[record.group] = record.kex
          /\ Real(record.group)
    /\ record.auth # "unknown" => RealLeaf(record.auth)
    /\ record.notes = "kex_pq_auth_classical" =>
          Done /\ record.kex \in PQ /\ record.auth = "classical"

\* classify_key_exchange against its definition: the class is the best that a
\* probe in the record's own audit trail shows, and it is "unknown" only if
\* none shows a listed group.
ListedClasses == {GroupClass[record.probes[i].group] :
                    i \in {j \in Probes : record.probes[j].group # None}} \ {"unlisted"}

Classified ==
    \/ pc \in {"certificate", "hosting", "notes"}
    \/ Done /\ record.notes \in {"", "kex_pq_auth_classical"}

BestOfProbes ==
    Classified =>
        /\ record.kex \in ListedClasses \cup {"unknown"}
        /\ \A class \in ListedClasses : Rank(class) <= Rank(record.kex)

\* "A momentary timeout is not recorded as an unreachable endpoint"
\* (scan_target): when every backend accepts every profile, no more connections
\* of the whole scan than there are retries for one profile are disturbed, and
\* openssl can resolve the name, every probe is reachable.  (A connection reset in
\* the middle of a handshake is handshake_failed, which is not retried.)
MomentaryTimeoutForgiven ==
    /\ \A b \in site.backends, i \in DOMAIN Offers : b.groups \cap Offers[i] # {}
    /\ blips < Attempts
    => \A i \in Probes :
          \/ record.probes[i].reachable
          \/ record.probes[i].category \in {"dns_failed", "handshake_failed"}

\* A transient failure is recorded only after every attempt was disturbed.
TransientIsExhausted ==
    blips >= Attempts * Cardinality(
        {i \in Probes : record.probes[i].category \in TransientCategories})

\* The note that counts an endpoint into the authentication gap is true of the
\* endpoint: one of its backends negotiates a post-quantum group and one has a
\* classical certificate (the same one, when there is only one).
GapNoteIsTrue ==
    record.notes = "kex_pq_auth_classical" =>
        /\ \E b \in site.backends : \E g \in b.groups : GroupClass[g] \in PQ
        /\ RealLeaf("classical")

\* A CDN tag names a network the host really uses, and "origin" is earned: with
\* an ASN database, an endpoint that has an IPv4 address is recorded as origin
\* only if one of its IPv4 addresses lies outside every listed CDN (resolve:
\* "a dual-stack endpoint that resolves IPv6-first would silently lose its ASN
\* (and could be mislabeled "origin")").
HostingTagIsTrue ==
    LET addrs == {b.addr : b \in site.backends}
    IN  Done /\ record.reachable =>
          /\ record.cdn # None =>
                record.cdn \in {ByAsn[addr.asn] : addr \in addrs} \cup {site.alias}
          /\ record.cdn = None /\ resolver = "pyasn" /\ (\E addr \in addrs : addr.ipv4)
                => \E addr \in addrs : addr.ipv4 /\ ByAsn[addr.asn] = None

\* Every scan returns a record.
ScanEnds == <>Done

\* What a scan may still do at most: attempts and ends of profiles, rounds of the
\* classification loop, stages.
ProbesLeft == (Len(Offers) - Len(record.probes)) * (1 + Attempts) - attempt

StagesLeft ==
    CASE pc = "dns" -> 6
      [] pc = "probe" -> 5
      [] pc = "classify" -> 4
      [] pc = "certificate" -> 3
      [] pc = "hosting" -> 2
      [] pc = "notes" -> 1
      [] pc = "done" -> 0

ScanLeft == IF Done THEN 0 ELSE ProbesLeft + (Len(Offers) - best.seen) + StagesLeft

\* Each step of a scan uses up some of it, whatever the endpoint answers: a worker
\* thread comes back to the pool after a number of connections that the profiles
\* and retries bound.
ScanRunsOut == [][ScanLeft' < ScanLeft]_scanVars

\* The inductive invariant behind it: the loops stay within their bounds.
LoopBounds ==
    ~Done =>
        /\ Len(record.probes) <= Len(Offers)
        /\ attempt <= Attempts /\ (ProfilesDone => attempt = 0)
        /\ best.seen <= Len(record.probes)

-----------------------------------------------------------------------------
(* Said of the program, and refuted.                                       *)

\* docs/data-schema.md: `reachable' is "Any probe completed a handshake".
ReachableMeansAnyProbe ==
    tool = "run" /\ Done => (record.reachable <=> answered)

\* docs/data-schema.md: the note "flags exactly the endpoints that make up this
\* gap", the endpoints with a post-quantum kex_class but no pq auth_class.
NoteFlagsExactlyTheGap ==
    Done => ( record.notes = "kex_pq_auth_classical"
                <=> record.reachable /\ record.kex \in PQ /\ record.auth # "pq" )

=============================================================================
