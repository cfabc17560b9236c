---------------------------- MODULE MCScanTarget ----------------------------
(***************************************************************************)
(* Instances of ScanTarget for TLC: the two shipped profiles, a registry   *)
(* that lacks one name, and endpoints of one or two backends.              *)
(***************************************************************************)
EXTENDS ScanTargetProperties

MCGroups == {"X25519", "P-256", "X25519MLKEM768"}

MCGroupClass == [g \in MCGroups |->
    CASE g = "X25519" -> "classical"
      [] g = "P-256" -> "unlisted"
      [] g = "X25519MLKEM768" -> "hybrid_pq"]

MCPrintedAs == [g \in MCGroups |->
    CASE g = "X25519" -> "temp_key"
      [] g = "P-256" -> "ecdh_temp_key"
      [] g = "X25519MLKEM768" -> "negotiated"]

\* profiles.CLASSICAL and profiles.HYBRID_CAPABLE.
MCOffers == <<{"X25519", "P-256"}, MCGroups>>

\* AS1 is Cloudflare's, AS2 nobody's.
MCByAsn == [asn \in {"AS1", "AS2", None} |-> IF asn = "AS1" THEN "Cloudflare" ELSE None]

Backend(ipv4, asn, groups, chain) ==
    [addr |-> [ipv4 |-> ipv4, asn |-> asn], groups |-> groups, chain |-> chain]

Alone(b) == [alias |-> None, backends |-> {b}]

\* One backend with any groups and leaf; two that differ in what they can do;
\* a dual-stack host behind a CDN, and one that is half behind it.
MCSites ==
    {Alone(Backend(TRUE, "AS2", groups, <<leaf, "classical">>)) :
        groups \in SUBSET MCGroups, leaf \in CertClasses}
    \cup
    {[alias |-> alias,
      backends |-> {Backend(TRUE, asn, MCGroups, <<"pq", "classical">>),
                    Backend(FALSE, "AS1", groups, <<"classical">>)}] :
        alias \in {"Akamai", None}, asn \in {"AS1", "AS2", None},
        groups \in {{}, {"X25519"}}}

=============================================================================
