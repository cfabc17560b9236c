-------------------------- MODULE ScanTargetProofs --------------------------
(***************************************************************************)
(* Proofs, for any groups, registry, profiles, retries and endpoints, that *)
(* a scan never invents a key-exchange capability.                         *)
(***************************************************************************)
EXTENDS ScanTargetProperties, TLAPS

USE DEF Registry, Profiles

\* What is read from a captured output is a group only if openssl printed it:
\* g for a handshake that completed with g, nothing otherwise (_extract_group).
LEMMA ExtractFacts ==
    /\ \A g \in Groups : \A out \in Completed(g) \cup Late(g) :
          ExtractGroup(Captured(out)) \in {None, g}
    /\ \A out \in Refusals \cup Disturbances \cup {LookupFailure} :
          ExtractGroup(Captured(out)) = None
  <1>1. ASSUME NEW g \in Groups, NEW out \in Completed(g)
        PROVE  ExtractGroup(out) \in {None, g} /\ out.timed_out = FALSE
    <2>1. CASE out = [Silence EXCEPT !.established = TRUE, !.proto = TRUE]
      <3>1. out.explicit = None /\ out.temp_key = <<>> /\ out.timed_out = FALSE
        BY <2>1 DEF Silence
      <3> QED
        BY <3>1 DEF ExtractGroup
    <2>2. CASE out # [Silence EXCEPT !.established = TRUE, !.proto = TRUE]
      <3>1. /\ out.explicit = IF PrintedAs[g] = "negotiated" THEN g ELSE None
            /\ out.temp_key = CASE PrintedAs[g] = "negotiated" -> <<>>
                                [] PrintedAs[g] = "temp_key" -> <<g, "bits">>
                                [] PrintedAs[g] = "ecdh_temp_key" -> <<"ECDH", g, "bits">>
            /\ out.timed_out = FALSE
        BY <1>1, <2>2 DEF Completed, Silence
      <3>2. PrintedAs[g] \in {"negotiated", "temp_key", "ecdh_temp_key"}
        BY ProbeAssumption
      <3>3. CASE PrintedAs[g] = "negotiated"
        BY <3>1, <3>3 DEF ExtractGroup
      <3>4. CASE PrintedAs[g] = "temp_key"
        <4>1. g \notin {"ECDH", "DH"}
          BY ProbeAssumption
        <4>2. out.temp_key = <<g, "bits">> /\ out.explicit = None /\ out.timed_out = FALSE
          BY <3>1, <3>4
        <4>3. /\ out.temp_key # <<>> /\ out.temp_key[1] = g
              /\ out.explicit = None /\ out.timed_out = FALSE
          BY <4>2
        <4> QED
          BY <4>1, <4>3 DEF ExtractGroup
      <3>5. CASE PrintedAs[g] = "ecdh_temp_key"
        <4>1. out.temp_key = <<"ECDH", g, "bits">> /\ out.explicit = None /\ out.timed_out = FALSE
          BY <3>1, <3>5
        <4>2. /\ out.temp_key # <<>> /\ out.temp_key[1] = "ECDH" /\ out.temp_key[2] = g
              /\ Len(out.temp_key) = 3 /\ out.explicit = None /\ out.timed_out = FALSE
          BY <4>1
        <4> QED
          BY <4>2 DEF ExtractGroup
      <3> QED
        BY <3>1, <3>2, <3>3, <3>4, <3>5
    <2> QED
      BY <2>1, <2>2
  <1>2. ASSUME NEW out, out.timed_out = TRUE
        PROVE  ExtractGroup(Captured(out)) = None
    BY <1>2 DEF Captured, Silence, ExtractGroup
  <1>3. ASSUME NEW g \in Groups, NEW out \in Late(g)
        PROVE  out.timed_out = TRUE
    BY <1>3 DEF Late, Completed, Silence
  <1>4. ASSUME NEW phrases
        PROVE  ExtractGroup(Captured(Failing(phrases))) = None
    BY DEF Failing, Captured, Silence, ExtractGroup
  <1>5. [Silence EXCEPT !.timed_out = TRUE].timed_out = TRUE
    BY DEF Silence
  <1>6. \A g \in Groups : \A out \in Completed(g) : ExtractGroup(Captured(out)) \in {None, g}
    BY <1>1 DEF Captured
  <1> QED
    BY <1>2, <1>3, <1>4, <1>5, <1>6 DEF Refusals, Disturbances, LookupFailure, Reset

\* What openssl prints, once captured, still says whether a protocol line was
\* there.
LEMMA OutputFacts ==
    \A out \in Outputs : Captured(out).proto \in BOOLEAN
  <1>1. ASSUME NEW g \in Groups, NEW out \in Completed(g)
        PROVE  out.proto = TRUE
    BY <1>1 DEF Completed, Silence
  <1>2. \A phrases : Failing(phrases).proto = FALSE
    BY DEF Failing, Silence
  <1>3. \A out \in Refusals \cup {LookupFailure, Failing({"connect:errno"})} : out.proto = FALSE
    BY <1>2 DEF Refusals, LookupFailure, Reset
  <1>4. [Silence EXCEPT !.timed_out = TRUE].proto = FALSE
    BY DEF Silence
  <1>5. ASSUME NEW g \in Groups, NEW out \in Late(g)
        PROVE  out.timed_out = TRUE
    BY <1>5 DEF Late, Completed, Silence
  <1>6. ASSUME NEW out, out.timed_out = TRUE \/ out.proto \in BOOLEAN
        PROVE  Captured(out).proto \in BOOLEAN
    BY <1>4, <1>6 DEF Captured
  <1>7. [Silence EXCEPT !.timed_out = TRUE].timed_out = TRUE
    BY DEF Silence
  <1>8. ASSUME NEW out \in Outputs
        PROVE  out.timed_out = TRUE \/ out.proto \in BOOLEAN
    <2>1. CASE out \in Refusals \cup Disturbances \cup {LookupFailure}
      BY <1>3, <1>7, <2>1 DEF Disturbances
    <2>2. CASE \E g \in Groups : out \in Completed(g) \cup Late(g)
      BY <1>1, <1>5, <2>2
    <2> HIDE <1>1, <1>2, <1>3, <1>4, <1>5, <1>6, <1>7
    <2>3. \/ out \in UNION {Completed(g) \cup Late(g) : g \in Groups}
          \/ out \in Refusals \cup Disturbances \cup {LookupFailure}
      BY <1>8 DEF Outputs
    <2> QED
      BY <2>1, <2>2, <2>3
  <1> QED
    BY <1>6, <1>8

\* A category is one of the rules' or a default (_error_category).
LEMMA CategoryFacts ==
    ASSUME NEW out
    PROVE  ErrorCategory(out) \in Categories
  <1> DEFINE hits == {i \in DOMAIN CategoryRules : CategoryRules[i][1] \cap out.phrases # {}}
             first == CHOOSE i \in hits : \A j \in hits : i <= j
  <1>1. DOMAIN CategoryRules = 1..6
    BY DEF CategoryRules
  <1>2. \A i \in 1..6 : CategoryRules[i][2] \in Categories
    <2>1. /\ CategoryRules[1][2] = "dns_failed"
          /\ CategoryRules[2][2] = "unsupported_group"
          /\ CategoryRules[3][2] = "no_tls13"
          /\ CategoryRules[4][2] = "tls_alert"
          /\ CategoryRules[5][2] = "no_tls13"
          /\ CategoryRules[6][2] = "tcp_error"
      BY DEF CategoryRules
    <2>2. \A i \in 1..6 : i = 1 \/ i = 2 \/ i = 3 \/ i = 4 \/ i = 5 \/ i = 6
      OBVIOUS
    <2> QED
      BY <2>1, <2>2 DEF Categories
  <1>3. ASSUME hits # {}
        PROVE  first \in hits
    <2>1. hits \subseteq 1..6
      BY <1>1
    <2> HIDE DEF hits
    <2>2. \E i \in hits : \A j \in hits : i <= j
      <3>1. \A j \in hits : j \in {1, 2, 3, 4, 5, 6}
        BY <2>1
      <3> QED
        BY <1>3, <3>1
    <2> QED
      BY <2>2
  <1>4. hits # {} => CategoryRules[first][2] \in Categories
    <2>1. hits \subseteq 1..6
      BY <1>1
    <2> HIDE DEF first, hits
    <2> QED
      BY <1>2, <1>3, <2>1
  <1>5. ErrorCategory(out) = CASE out.timed_out -> "tcp_timeout"
                               [] ~out.timed_out /\ hits = {} -> "handshake_failed"
                               [] OTHER -> CategoryRules[first][2]
    BY DEF ErrorCategory
  <1> HIDE DEF first, hits
  <1>6. CASE out.timed_out
    <2>1. ErrorCategory(out) = "tcp_timeout"
      BY <1>5, <1>6
    <2> QED
      BY <2>1 DEF Categories
  <1>7. CASE ~out.timed_out /\ hits = {}
    <2>1. ErrorCategory(out) = "handshake_failed"
      BY <1>5, <1>7
    <2> QED
      BY <2>1 DEF Categories
  <1>8. CASE ~out.timed_out /\ hits # {}
    <2>1. ErrorCategory(out) = CategoryRules[first][2]
      BY <1>5, <1>8
    <2> QED
      BY <1>4, <1>8, <2>1
  <1> QED
    BY <1>6, <1>7, <1>8

\* A probe's outcome is well-formed, and names no group but the one extracted.
LEMMA ProbeFacts ==
    ASSUME NEW out, ExtractGroup(out) \in Groups \cup {None}, out.proto \in BOOLEAN
    PROVE  /\ Probe(out) \in Outcome
           /\ Probe(out).group \in {None, ExtractGroup(out)}
  <1>1. ErrorCategory(out) \in Categories
    BY CategoryFacts
  <1>2. CASE HandshakeSeen(out)
    BY <1>1, <1>2 DEF Probe, Outcome
  <1>3. CASE ~HandshakeSeen(out)
    BY <1>1, <1>3 DEF Probe, Outcome
  <1> QED
    BY <1>2, <1>3

\* A probe of the endpoint names a group only if it is real.
LEMMA ProbeIsReal ==
    ASSUME TypeOK, ~ProfilesDone, Len(record.probes) <= Len(Offers),
           NEW out \in Outputs,
           Answer(out) \/ out \in Disturbances \cup {LookupFailure, Reset}
    PROVE  /\ Probe(Captured(out)) \in Outcome
           /\ Probe(Captured(out)).group # None => Real(Probe(Captured(out)).group)
  <1> DEFINE k == Len(record.probes) + 1
             x == ExtractGroup(Captured(out))
  <1>1. x \in Groups \cup {None} /\ (x # None => Real(x))
    <2>1. CASE out \in Refusals \cup Disturbances \cup {LookupFailure}
      BY <2>1, ExtractFacts
    <2>2. ASSUME NEW b \in site.backends, NEW g \in b.groups \cap Offers[k],
                 out \in Completed(g) \cup Late(g)
          PROVE  x \in Groups \cup {None} /\ (x # None => Real(x))
      <3>1. k \in DOMAIN Offers
        BY ScanAssumption DEF ProfilesDone, TypeOK
      <3>2. g \in Groups
        BY <3>1, ScanAssumption DEF TypeOK
      <3>3. x \in {None, g}
        BY <2>2, <3>2, ExtractFacts
      <3>4. Real(g)
        BY <3>1 DEF Real
      <3> QED
        BY <3>2, <3>3, <3>4
    <2>3. Reset \in Refusals
      BY DEF Refusals
    <2> QED
      BY <2>1, <2>2, <2>3 DEF Answer
  <1>2. Captured(out).proto \in BOOLEAN
    BY OutputFacts
  <1>3. /\ Probe(Captured(out)) \in Outcome
        /\ Probe(Captured(out)).group \in {None, x}
    BY <1>1, <1>2, ProbeFacts
  <1> QED
    BY <1>1, <1>3


\* One step of classify_key_exchange keeps to real groups, and to the class of
\* the group it keeps.
LEMMA BetterFacts ==
    ASSUME ScanInv, NEW o \in Outcome, o.group # None => Real(o.group)
    PROVE  /\ Better(o) \in Best
           /\ Better(o).group # None => Real(Better(o).group)
           /\ Better(o).class # "unknown" =>
                 Better(o).group # None /\ GroupClass[Better(o).group] = Better(o).class
  <1> DEFINE g == o.group
  <1>1. /\ best \in Best
        /\ best.group # None => Real(best.group)
        /\ best.class # "unknown" => best.group # None /\ GroupClass[best.group] = best.class
    BY DEF ScanInv, TypeOK
  <1>2. CASE ~o.reachable \/ g = None
    BY <1>1, <1>2 DEF Better
  <1>3. CASE o.reachable /\ g # None
    <2>1. /\ g \in Groups /\ Real(g)
          /\ GroupClass[g] \in Classes \cup {"unlisted"}
      BY <1>3, ProbeAssumption DEF Outcome
    <2>2. CASE GroupClass[g] = "unlisted"
      <3>1. Better(o) = [best EXCEPT !.group = IF @ = None THEN g ELSE @]
        BY <1>3, <2>2 DEF Better
      <3>2. CASE best.group = None
        <4>1. /\ Better(o) \in Best /\ Better(o).group = g
              /\ Better(o).class = "unknown"
          BY <1>1, <2>1, <3>1, <3>2 DEF Best
        <4> QED
          BY <2>1, <4>1
      <3>3. CASE best.group # None
        <4>1. /\ Better(o) \in Best /\ Better(o).group = best.group
              /\ Better(o).class = best.class
          BY <1>1, <3>1, <3>3 DEF Best
        <4> QED
          BY <1>1, <4>1
      <3> QED
        BY <3>2, <3>3
    <2>3. CASE GroupClass[g] # "unlisted" /\ Rank(GroupClass[g]) > Rank(best.class)
      <3>1. Better(o) = [best EXCEPT !.group = g, !.class = GroupClass[g]]
        BY <1>3, <2>3 DEF Better
      <3>2. /\ Better(o) \in Best /\ Better(o).group = g
            /\ Better(o).class = GroupClass[g]
        BY <1>1, <2>1, <2>3, <3>1 DEF Best
      <3> QED
        BY <1>3, <2>1, <3>2
    <2>4. CASE GroupClass[g] # "unlisted" /\ ~(Rank(GroupClass[g]) > Rank(best.class))
      <3>1. Better(o) = best
        BY <1>3, <2>4 DEF Better
      <3> QED
        BY <1>1, <3>1
    <2> QED
      BY <2>2, <2>3, <2>4
  <1> QED
    BY <1>2, <1>3

\* The empty sequence, for the provers.
LEMMA EmptySequence == Len(<<>>) = 0 /\ DOMAIN <<>> = {}
  OBVIOUS

\* A scan starts with nothing found.
LEMMA ScanInit == Init => ScanInv
  <1> SUFFICES ASSUME Init PROVE ScanInv
    OBVIOUS
  <1>1. TypeOK
    <2>1. last \in Outcome
      BY DEF Init, NoOutcome, Outcome
    <2>2. best \in Best
      BY DEF Init, Best
    <2>3. FreshRecord \in DomainReadiness
      BY DEF FreshRecord, DomainReadiness, Notes
    <2>4. resolver \in {"pyasn", "null"} /\ ip \in Address
      BY DEF Init, BuildResolver, NoAddress, Address
    <2> QED
      BY <2>1, <2>2, <2>3, <2>4 DEF Init, TypeOK
  <1>2. last.group = None /\ best.group = None /\ best.class = "unknown"
    BY DEF Init, NoOutcome
  <1>3. record.probes = <<>> /\ record.kex = "unknown"
        /\ record.auth = "unknown" /\ record.notes = ""
    BY DEF Init, FreshRecord
  <1>4. Len(Offers) \in Nat
    BY ScanAssumption
  <1> QED
    <2>1. Len(record.probes) <= Len(Offers)
      <3>1. Len(record.probes) = 0
        BY <1>3, EmptySequence
      <3> QED
        BY <1>4, <3>1
    <2>2. Probes = {}
      <3>1. DOMAIN record.probes = {}
        BY <1>3, EmptySequence
      <3> QED
        BY <3>1 DEF Probes
    <2> QED
      BY <1>1, <1>2, <1>3, <2>1, <2>2 DEF ScanInv


\* No step of a scan makes a group up or parts a class from its group.
LEMMA ScanStep == ScanInv /\ [Next]_scanVars => ScanInv'
  <1> SUFFICES ASSUME ScanInv, [Next]_scanVars
               PROVE  ScanInv'
    OBVIOUS
  <1> USE DEF Real, RealLeaf, Done, context
  <1>1. CASE Resolve
    <2>1. record'.probes = record.probes /\ record'.kex = record.kex
          /\ record'.group = record.group /\ record'.auth = record.auth
          /\ record' \in DomainReadiness /\ record'.notes \in {record.notes, "dns_failed"}
      <3>1. record' = record \/ record' = [record EXCEPT !.notes = "dns_failed"]
        BY <1>1 DEF Resolve
      <3>2. record \in DomainReadiness
        BY DEF ScanInv, TypeOK
      <3> QED
        BY <3>1, <3>2 DEF DomainReadiness, Notes
    <2>2. ip' \in Address
      <3>1. \A addrs \in SUBSET Address : Preferred(addrs) \subseteq addrs
        BY DEF Preferred
      <3>2. {b.addr : b \in site.backends} \subseteq Address
        BY ScanAssumption DEF ScanInv, TypeOK
      <3>3. \/ ip' \in Preferred({b.addr : b \in site.backends})
            \/ ip' = ip
        BY <1>1 DEF Resolve
      <3> QED
        BY <3>1, <3>2, <3>3 DEF ScanInv, TypeOK
    <2> QED
      BY <1>1, <2>1, <2>2 DEF Resolve, Goto, ScanInv, TypeOK, Probes
  <1>2. ASSUME NEW out \in Outputs, ProbeOnce(out)
        PROVE  ScanInv'
    <2>1. last' \in Outcome /\ (last'.group # None => Real(last'.group))
      BY <1>2, ProbeIsReal DEF ProbeOnce, ScanInv
    <2>2. answered' \in BOOLEAN /\ blips' \in Nat /\ attempt' \in Nat
      BY <1>2 DEF ProbeOnce, ScanInv, TypeOK
    <2> QED
      BY <1>2, <2>1, <2>2 DEF ProbeOnce, ScanInv, TypeOK, Probes
  <1>3. CASE NextProfile
    <2>1. /\ record \in DomainReadiness /\ last \in Outcome /\ Len(Offers) \in Nat
          /\ record.probes \in Seq(Outcome) /\ Len(record.probes) < Len(Offers)
      BY <1>3, ScanAssumption DEF NextProfile, ProfilesDone, ScanInv, TypeOK, DomainReadiness
    <2> DEFINE longer == Append(record.probes, last)
    <2>2. /\ longer \in Seq(Outcome) /\ Len(longer) = Len(record.probes) + 1
          /\ \A i \in DOMAIN longer : \/ longer[i] = last
                                      \/ i \in Probes /\ longer[i] = record.probes[i]
      BY <2>1 DEF Probes
    <2>3. \A i \in DOMAIN longer : longer[i].group # None => Real(longer[i].group)
      BY <2>2 DEF ScanInv
    <2> HIDE DEF longer
    <2>4. /\ record' \in DomainReadiness /\ record'.probes = longer
          /\ record'.kex = record.kex /\ record'.group = record.group
          /\ record'.auth = record.auth /\ record'.notes = record.notes
      <3>1. record' = [record EXCEPT !.probes = longer]
        BY <1>3 DEF NextProfile, longer
      <3> QED
        BY <2>1, <2>2, <3>1 DEF DomainReadiness
    <2>5. last' \in Outcome /\ last'.group = None
      BY <1>3 DEF NextProfile, NoOutcome, Outcome
    <2>6. TypeOK'
      BY <1>3, <2>4, <2>5 DEF NextProfile, ScanInv, TypeOK
    <2>7. Len(record'.probes) <= Len(Offers)
      BY <2>1, <2>2, <2>4
    <2> QED
      BY <1>3, <2>3, <2>4, <2>5, <2>6, <2>7 DEF NextProfile, ScanInv, Probes
  <1>4. CASE DecideReachable
    <2>1. record'.probes = record.probes /\ record'.kex = record.kex
          /\ record'.group = record.group /\ record'.auth = record.auth
          /\ record' \in DomainReadiness /\ record'.notes \in {record.notes, "unreachable"}
      <3> DEFINE tls == \E i \in DOMAIN record.probes : record.probes[i].tls
      <3>1. \/ record' = [record EXCEPT !.reachable = TRUE, !.tls = tls]
            \/ record' = [record EXCEPT !.notes = "unreachable"]
        BY <1>4 DEF DecideReachable
      <3>2. tls \in BOOLEAN
        OBVIOUS
      <3>3. record \in DomainReadiness
        BY DEF ScanInv, TypeOK
      <3> HIDE DEF tls
      <3>4. CASE record' = [record EXCEPT !.reachable = TRUE, !.tls = tls]
        BY <3>2, <3>3, <3>4 DEF DomainReadiness
      <3>5. CASE record' = [record EXCEPT !.notes = "unreachable"]
        BY <3>3, <3>5 DEF DomainReadiness, Notes
      <3> QED
        BY <3>1, <3>4, <3>5
    <2> QED
      BY <1>4, <2>1 DEF DecideReachable, ScanInv, TypeOK, Probes
  <1>5. CASE ClassifyNext
    <2> DEFINE o == record.probes[best.seen + 1]
    <2>1. best.seen + 1 \in Probes /\ o \in Outcome /\ best.seen + 1 \in Nat
      BY <1>5 DEF ClassifyNext, ScanInv, TypeOK, Best, DomainReadiness, Probes
    <2>2. o.group # None => Real(o.group)
      BY <2>1 DEF ScanInv
    <2>3. /\ Better(o) \in Best
          /\ Better(o).group # None => Real(Better(o).group)
          /\ Better(o).class # "unknown" =>
                Better(o).group # None /\ GroupClass[Better(o).group] = Better(o).class
      BY <2>1, <2>2, BetterFacts
    <2>4. best' \in Best /\ best'.group = Better(o).group /\ best'.class = Better(o).class
      <3>1. best' = [Better(o) EXCEPT !.seen = best.seen + 1]
        BY <1>5 DEF ClassifyNext
      <3> QED
        BY <2>1, <2>3, <3>1 DEF Best
    <2> HIDE DEF o
    <2> QED
      BY <1>5, <2>3, <2>4 DEF ClassifyNext, ScanInv, TypeOK, Probes
  <1>6. CASE ClassifyDone
    <2>1. /\ record' \in DomainReadiness /\ record'.probes = record.probes
          /\ record'.kex = best.class /\ record'.group = best.group
          /\ record'.auth = record.auth /\ record'.notes = record.notes
      BY <1>6 DEF ClassifyDone, ScanInv, TypeOK, Best, DomainReadiness
    <2> QED
      BY <1>6, <2>1 DEF ClassifyDone, Goto, ScanInv, TypeOK, Probes
  <1>7. CASE FetchCertificate
    <2>1. PICK b \in site.backends, cert \in CertClasses \cup {None} :
             /\ cert \in {Leaf(b.chain), None}
             /\ record' = [record EXCEPT !.auth = AuthClass(cert)]
      BY <1>7 DEF FetchCertificate
    <2>2. /\ AuthClass(cert) \in {"classical", "pq", "unknown"}
          /\ AuthClass(cert) # "unknown" => b.chain[1] = AuthClass(cert)
      BY <2>1 DEF AuthClass, Leaf, None
    <2>3. /\ record' \in DomainReadiness /\ record'.probes = record.probes
          /\ record'.kex = record.kex /\ record'.group = record.group
          /\ record'.auth = AuthClass(cert) /\ record'.notes = record.notes
      BY <2>1, <2>2 DEF ScanInv, TypeOK, DomainReadiness
    <2>4. record'.auth # "unknown" => RealLeaf(record'.auth)
      BY <2>2, <2>3
    <2>5. record'.notes # "kex_pq_auth_classical"
      BY <1>7, <2>3 DEF FetchCertificate, Goto, ScanInv
    <2> QED
      BY <1>7, <2>3, <2>4, <2>5 DEF FetchCertificate, Goto, ScanInv, TypeOK, Probes
  <1>8. CASE TagHosting
    <2>1. PICK alias \in {site.alias, None} :
             record' = [record EXCEPT
                !.cdn = EnrichHosting(Asn(resolver, ip), alias).cdn,
                !.via = EnrichHosting(Asn(resolver, ip), alias).via]
      BY <1>8 DEF TagHosting
    <2>2. /\ alias \in Cdns \cup {None}
          /\ Asn(resolver, ip) \in Asns \cup {None}
      BY ScanAssumption DEF ScanInv, TypeOK, Address, Asn
    <2>3. /\ EnrichHosting(Asn(resolver, ip), alias).cdn \in Cdns \cup {None}
          /\ EnrichHosting(Asn(resolver, ip), alias).via \in {"asn", "cname", None}
      BY <2>2, HostingAssumption DEF EnrichHosting
    <2>4. /\ record' \in DomainReadiness /\ record'.probes = record.probes
          /\ record'.kex = record.kex /\ record'.group = record.group
          /\ record'.auth = record.auth /\ record'.notes = record.notes
      BY <2>1, <2>3 DEF ScanInv, TypeOK, DomainReadiness
    <2> QED
      BY <1>8, <2>4 DEF TagHosting, Goto, ScanInv, TypeOK, Probes
  <1>9. CASE Annotate
    <2>1. /\ record'.probes = record.probes /\ record'.kex = record.kex
          /\ record'.group = record.group /\ record'.auth = record.auth
          /\ record' \in DomainReadiness
          /\ \/ record'.notes = record.notes
             \/ record.kex \in PQ /\ record.auth = "classical"
      <3>1. \/ record' = record
            \/ /\ record' = [record EXCEPT !.notes = "kex_pq_auth_classical"]
               /\ record.kex \in PQ /\ record.auth = "classical"
        BY <1>9 DEF Annotate
      <3>2. record \in DomainReadiness
        BY DEF ScanInv, TypeOK
      <3> QED
        BY <3>1, <3>2 DEF DomainReadiness, Notes
    <2> QED
      BY <1>9, <2>1 DEF Annotate, Goto, ScanInv, TypeOK, Probes
  <1>10. CASE Raise
    <2>1. PICK note \in {"internal_error", "traceback"} :
             record' = [FreshRecord EXCEPT !.notes = note]
      BY <1>10 DEF Raise
    <2>2. /\ record' \in DomainReadiness /\ record'.probes = <<>>
          /\ record'.kex = "unknown" /\ Len(record'.probes) = 0
          /\ record'.auth = "unknown" /\ record'.notes = note
      <3>1. <<>> \in Seq(Outcome) /\ Len(<<>>) = 0
        OBVIOUS
      <3>2. FreshRecord \in DomainReadiness
        BY <3>1 DEF FreshRecord, DomainReadiness, Notes
      <3>3. note \in Notes
        BY DEF Notes
      <3>4. record' \in DomainReadiness
        BY <2>1, <3>2, <3>3 DEF DomainReadiness
      <3> QED
        BY <2>1, <3>1, <3>4 DEF FreshRecord
    <2>3. Len(Offers) \in Nat
      BY ScanAssumption
    <2> QED
      BY <1>10, <2>2, <2>3 DEF Raise, ScanInv, TypeOK, Probes
  <1>11. CASE ListProbes
    BY <1>11 DEF ListProbes, Goto, ScanInv, TypeOK, Probes
  <1>12. CASE UNCHANGED scanVars
    BY <1>12 DEF scanVars, ScanInv, TypeOK, Probes
  <1> QED
    BY <1>1, <1>2, <1>3, <1>4, <1>5, <1>6, <1>7, <1>8, <1>9, <1>10, <1>11, <1>12 DEF Next

\* The type invariant and the invariant that ties groups to the endpoint hold
\* of every scan.
THEOREM ScanInvariance == Spec => []ScanInv
  BY ScanInit, ScanStep, PTL DEF Spec

\* A scan never invents a key-exchange capability: the recorded group is one a
\* backend negotiates with some profile, in the recorded class (scan_target,
\* classify_key_exchange, _extract_group).
THEOREM CapabilityReal == Spec => []CapabilityIsReal
  <1>1. ScanInv => CapabilityIsReal
    BY DEF ScanInv, CapabilityIsReal
  <1> QED
    BY <1>1, ScanInvariance, PTL

=============================================================================
