------------------------------ MODULE Hosting ------------------------------
(***************************************************************************)
(* resolve/dns.py and enrich/: which of a host's addresses stands for it,  *)
(* and the network it is attributed to.  An address is described by its    *)
(* family and by the autonomous system that announces it.                  *)
(***************************************************************************)
CONSTANTS
    Asns,      \* autonomous systems
    ByAsn      \* cdn_asns.yaml, cdns: autonomous system -> CDN, or None

None == "none"

Cdns == {"Akamai", "Cloudflare"}

ASSUME HostingAssumption ==
    /\ None \notin Asns
    /\ ByAsn \in [Asns \cup {None} -> Cdns \cup {None}]
    /\ ByAsn[None] = None

Address == [ipv4 : BOOLEAN, asn : Asns \cup {None}]

NoAddress == [ipv4 |-> FALSE, asn |-> None]

\* The system resolver's first answer, of either family.
Preferred_AnyFamily(addrs) == addrs

\* resolve: an A record when there is one, in whatever order getaddrinfo lists
\* them.
Preferred(addrs) ==
    LET ipv4 == {addr \in addrs : addr.ipv4}
    IN  IF ipv4 # {} THEN ipv4 ELSE addrs

\* build_resolver: asn_db not configured, absent, unreadable or good.
AsnFiles == {"unset", "missing", "corrupt", "good"}

BuildResolver(file) == IF file = "good" THEN "pyasn" ELSE "null"

\* lookup: the database holds IPv4 prefixes only.
Asn(resolver, ip) == IF resolver = "pyasn" /\ ip.ipv4 THEN ip.asn ELSE None

\* enrich_hosting: the CNAME chain is asked only when the ASN names no CDN.
\* `alias' is what lookup_cname finds on the chain dig printed, if it did.
EnrichHosting(asn, alias) ==
    CASE ByAsn[asn] # None -> [cdn |-> ByAsn[asn], via |-> "asn"]
      [] ByAsn[asn] = None /\ alias # None -> [cdn |-> alias, via |-> "cname"]
      [] OTHER -> [cdn |-> None, via |-> None]

=============================================================================
