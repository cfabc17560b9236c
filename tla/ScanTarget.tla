----------------------------- MODULE ScanTarget -----------------------------
(***************************************************************************)
(* pipeline/runner.py: the scan of one target inside a worker thread, from *)
(* the DNS lookup to the record it returns, and tools/pqscan.py, the       *)
(* one-shot detector built from the same stages.  The endpoint's           *)
(* connections may land on different backends and may be disturbed, and    *)
(* any external call may raise.                                            *)
(*                                                                         *)
(* A backend is what one connection can find: its address, the groups it   *)
(* negotiates in TLS 1.3 and the classes of the signature algorithms on    *)
(* its certificate chain, the leaf first.                                  *)
(***************************************************************************)
EXTENDS OpensslProbe, Integers, FiniteSets

CONSTANTS
    Offers,       \* config.probe.profiles: the groups each profile offers
    Retries,      \* config.probe.retries
    Sites         \* the endpoints considered: backends, and the CDN on the alias chain

CertClasses == {"classical", "pq", "unlisted"}

\* A profile matters by the groups its client offers.
Profiles == Seq(SUBSET Groups)

ASSUME ScanAssumption ==
    /\ Offers \in Profiles
    /\ Retries \in Int
    /\ \A site \in Sites :
          /\ site.alias \in Cdns \cup {None}
          /\ site.backends # {}
          /\ \A b \in site.backends :
                /\ b.addr \in Address
                /\ b.groups \subseteq Groups
                /\ b.chain \in Seq(CertClasses) \ {<<>>}

VARIABLES
    pc,
    tool,       \* "run" or "pqscan"
    site,       \* the endpoint (external, constant during a scan)
    resolver,   \* how the run attributes addresses
    ip,         \* the address resolve() picked, or NoAddress
    attempt,    \* attempts made with the current profile
    last,       \* _probe_with_retry: the latest outcome
    best,       \* classify_key_exchange: best_group, best_class, probes seen
    record,     \* the DomainReadiness under construction, then the result
    answered,   \* history: a handshake of this scan completed in time
    blips       \* history: disturbed connections of this scan

context == <<tool, site, resolver>>

scanVars == <<pc, context, ip, attempt, last, best, record, answered, blips>>

NoOutcome == [reachable |-> FALSE, group |-> None, tls |-> FALSE, category |-> None]

\* DomainReadiness with its defaults.
FreshRecord == [reachable |-> FALSE, tls |-> FALSE, group |-> None, kex |-> "unknown",
                auth |-> "unknown", cdn |-> None, via |-> None, notes |-> "",
                probes |-> <<>>]

Notes == {"", "dns_failed", "unreachable", "internal_error", "traceback",
          "kex_pq_auth_classical"}

Outcome == [reachable : BOOLEAN, group : Groups \cup {None}, tls : BOOLEAN,
            category : Categories \cup {None}]

DomainReadiness ==
    [reachable : BOOLEAN, tls : BOOLEAN, group : Groups \cup {None},
     kex : Classes \cup {"unknown"}, auth : {"classical", "pq", "unknown"},
     cdn : Cdns \cup {None}, via : {"asn", "cname", None},
     notes : Notes, probes : Seq(Outcome)]

Best == [group : Groups \cup {None}, class : Classes \cup {"unknown"}, seen : Nat]

TypeOK ==
    /\ pc \in {"dns", "probe", "classify", "certificate", "hosting", "notes", "done"}
    /\ tool \in {"run", "pqscan"}
    /\ site \in Sites
    /\ resolver \in {"pyasn", "null"}
    /\ ip \in Address
    /\ attempt \in Nat
    /\ last \in Outcome
    /\ best \in Best
    /\ record \in DomainReadiness
    /\ answered \in BOOLEAN
    /\ blips \in Nat

Init ==
    /\ \/ tool = "run" /\ pc = "dns"
       \/ tool = "pqscan" /\ pc = "probe"
    /\ site \in Sites
    /\ resolver \in {BuildResolver(file) : file \in AsnFiles}
    /\ ip = NoAddress
    /\ attempt = 0
    /\ last = NoOutcome
    /\ best = [group |-> None, class |-> "unknown", seen |-> 0]
    /\ record = FreshRecord
    /\ answered = FALSE
    /\ blips = 0

-----------------------------------------------------------------------------

Goto(l, m) ==
    /\ pc = l
    /\ pc' = m

\* 1) resolve(): a host without an address gets no further.
Resolve ==
    /\ \/ /\ Goto("dns", "probe")
          /\ ip' \in Preferred({b.addr : b \in site.backends})
          /\ UNCHANGED record
       \/ /\ Goto("dns", "done")
          /\ record' = [record EXCEPT !.notes = "dns_failed"]
          /\ UNCHANGED ip
    /\ UNCHANGED <<context, attempt, last, best, answered, blips>>

\* Refused and unroutable connections are not retried.
TransientCategories_TimeoutOnly == {"tcp_timeout"}

TransientCategories == {"tcp_timeout", "tcp_error"}

\* pqscan does not retry.
Attempts == IF tool = "run" /\ Retries > 0 THEN 1 + Retries ELSE 1

\* The retry loop never runs.
MayProbe_Once == attempt = 0

\* The loop of _probe_with_retry goes round.
MayProbe ==
    \/ attempt = 0
    \/ /\ attempt < Attempts
       /\ ~last.reachable /\ last.category \in TransientCategories

ProfilesDone == Len(record.probes) = Len(Offers)

\* The connection lands on a backend that finds a common group, or refuses.
Answer(out) ==
    LET offer == Offers[Len(record.probes) + 1]
    IN  \E b \in site.backends :
           IF b.groups \cap offer = {}
           THEN out \in Refusals
           ELSE \E g \in b.groups \cap offer : out \in Completed(g) \cup Late(g)

\* One call of probe().
ProbeOnce(out) ==
    /\ pc = "probe" /\ ~ProfilesDone /\ MayProbe
    /\ Answer(out) \/ out \in Disturbances \cup {LookupFailure, Reset}
    /\ last' = Probe(Captured(out))
    /\ attempt' = attempt + 1
    /\ answered' = (answered \/ (out.established /\ ~out.timed_out))
    /\ blips' = IF Disturbed(out) THEN blips + 1 ELSE blips
    /\ UNCHANGED <<pc, context, ip, best, record>>

\* record.probes.append(outcome); on to the next profile.
NextProfile ==
    /\ pc = "probe" /\ ~ProfilesDone /\ ~MayProbe
    /\ record' = [record EXCEPT !.probes = Append(@, last)]
    /\ attempt' = 0
    /\ last' = NoOutcome
    /\ UNCHANGED <<pc, context, ip, best, answered, blips>>

\* pqscan classifies whatever the probes found.
ListProbes ==
    /\ tool = "pqscan" /\ ProfilesDone
    /\ Goto("probe", "classify")
    /\ UNCHANGED <<context, ip, attempt, last, best, record, answered, blips>>

\* 2) reachable if any probe was; the TLS version comes from the probes.
DecideReachable ==
    /\ tool = "run" /\ pc = "probe" /\ ProfilesDone
    /\ IF \E i \in DOMAIN record.probes : record.probes[i].reachable
       THEN /\ pc' = "classify"
            /\ record' = [record EXCEPT !.reachable = TRUE,
                   !.tls = \E i \in DOMAIN record.probes : record.probes[i].tls]
       ELSE /\ pc' = "done"
            /\ record' = [record EXCEPT !.notes = "unreachable"]
    /\ UNCHANGED <<context, ip, attempt, last, best, answered, blips>>

Rank(class) ==
    CASE class = "classical" -> 1 [] class = "hybrid_pq" -> 2 [] class = "pure_pq" -> 3
      [] OTHER -> 0

\* The first listed group stays.
Better_FirstWins(outcome) ==
    LET g == outcome.group
    IN  IF ~outcome.reachable \/ g = None \/ best.class # "unknown" THEN best
        ELSE IF GroupClass[g] = "unlisted"
             THEN [best EXCEPT !.group = IF @ = None THEN g ELSE @]
        ELSE [best EXCEPT !.group = g, !.class = GroupClass[g]]

\* The group of the last probe with the class of the best.
Better_LastGroup(outcome) ==
    LET g == outcome.group
    IN  IF ~outcome.reachable \/ g = None THEN best
        ELSE IF GroupClass[g] = "unlisted" THEN [best EXCEPT !.group = g]
        ELSE IF Rank(GroupClass[g]) > Rank(best.class)
             THEN [best EXCEPT !.group = g, !.class = GroupClass[g]]
        ELSE best

\* classify_key_exchange, one outcome: a strictly better listed group replaces
\* the best; an unlisted one is kept only while there is nothing else.
Better(outcome) ==
    LET g == outcome.group
    IN  IF ~outcome.reachable \/ g = None THEN best
        ELSE IF GroupClass[g] = "unlisted"
             THEN [best EXCEPT !.group = IF @ = None THEN g ELSE @]
        ELSE IF Rank(GroupClass[g]) > Rank(best.class)
             THEN [best EXCEPT !.group = g, !.class = GroupClass[g]]
        ELSE best

\* An outcome without a handshake is not stepped over.
ClassifyNext_Stuck ==
    /\ pc = "classify" /\ best.seen < Len(record.probes)
    /\ best' = [Better(record.probes[best.seen + 1]) EXCEPT !.seen =
                  IF record.probes[best.seen + 1].reachable THEN best.seen + 1 ELSE @]
    /\ UNCHANGED <<pc, context, ip, attempt, last, record, answered, blips>>

\* 3) The loop over the probes.
ClassifyNext ==
    /\ pc = "classify" /\ best.seen < Len(record.probes)
    /\ best' = [Better(record.probes[best.seen + 1]) EXCEPT !.seen = best.seen + 1]
    /\ UNCHANGED <<pc, context, ip, attempt, last, record, answered, blips>>

ClassifyDone ==
    /\ Goto("classify", "certificate") /\ best.seen = Len(record.probes)
    /\ record' = [record EXCEPT !.group = best.group, !.kex = best.class]
    /\ UNCHANGED <<context, ip, attempt, last, best, answered, blips>>

\* classify_authentication: no certificate and no listed algorithm alike.
AuthClass(cert) == IF cert \in {"classical", "pq"} THEN cert ELSE "unknown"

\* The last certificate of the chain.
Leaf_Last(pems) == pems[Len(pems)]

Leaf(pems) == pems[1]

\* 4) fetch_certificate connects once more, to some backend, without a retry;
\* nothing may come back, or nothing `openssl x509' can read.
FetchCertificate ==
    /\ Goto("certificate", IF tool = "run" THEN "hosting" ELSE "done")
    /\ \E b \in site.backends, cert \in CertClasses \cup {None} :
          /\ cert \in {Leaf(b.chain), None}
          /\ record' = [record EXCEPT !.auth = AuthClass(cert)]
    /\ UNCHANGED <<context, ip, attempt, last, best, answered, blips>>

\* 5) The hosting tags of the address that was resolved; dig may fail.
TagHosting ==
    /\ Goto("hosting", "notes")
    /\ \E alias \in {site.alias, None} :
          LET hosting == EnrichHosting(Asn(resolver, ip), alias)
          IN  record' = [record EXCEPT !.cdn = hosting.cdn, !.via = hosting.via]
    /\ UNCHANGED <<context, ip, attempt, last, best, answered, blips>>

PQ == {"hybrid_pq", "pure_pq"}

\* The key-exchange side of the condition dropped.
Annotate_AnyKex ==
    /\ Goto("notes", "done")
    /\ record' = IF record.auth = "classical"
                 THEN [record EXCEPT !.notes = "kex_pq_auth_classical"]
                 ELSE record
    /\ UNCHANGED <<context, ip, attempt, last, best, answered, blips>>

\* The note.
Annotate ==
    /\ Goto("notes", "done")
    /\ record' = IF record.kex \in PQ /\ record.auth = "classical"
                 THEN [record EXCEPT !.notes = "kex_pq_auth_classical"]
                 ELSE record
    /\ UNCHANGED <<context, ip, attempt, last, best, answered, blips>>

\* scan_target_safe: an exception of an external call (an output that is not
\* UTF-8, no file descriptor left, a name IDNA rejects) discards the record.
\* Nothing catches it in pqscan.
Raise ==
    /\ pc \in {"dns", "probe", "certificate", "hosting"}
    /\ pc' = "done"
    /\ record' = [FreshRecord EXCEPT !.notes =
                    IF tool = "run" THEN "internal_error" ELSE "traceback"]
    /\ UNCHANGED <<context, ip, attempt, last, best, answered, blips>>

Outputs ==
    (UNION {Completed(g) \cup Late(g) : g \in Groups})
        \cup Refusals \cup Disturbances \cup {LookupFailure}

Next ==
    \/ Resolve
    \/ \E out \in Outputs : ProbeOnce(out)
    \/ NextProfile \/ ListProbes \/ DecideReachable
    \/ ClassifyNext \/ ClassifyDone
    \/ FetchCertificate \/ TagHosting \/ Annotate
    \/ Raise

Spec == Init /\ [][Next]_scanVars

\* The worker thread is scheduled and every command runs under a timeout.
FairSpec == Spec /\ WF_scanVars(Next)

=============================================================================
