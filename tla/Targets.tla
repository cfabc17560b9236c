------------------------------ MODULE Targets ------------------------------
(***************************************************************************)
(* ingest/targets.py: build_targets expands the listed domains into        *)
(* hostnames, variant by variant, and keeps the first target of each       *)
(* hostname.  One step is one round of the inner loop.                     *)
(***************************************************************************)
EXTENDS Naturals, Sequences

CONSTANTS
    Names,        \* domains and hostnames
    Www,          \* the name under "www." of each name
    Lists,        \* the domain lists considered: (domain, tier, agency) triples
    Variants      \* config.hostname_variants

VariantNames == {"apex", "www", "unsupported"}

Tiers == {"federal", "state_local", "other"}

Agencies == {"A", "B", ""}

Listing == [domain : Names, tier : Tiers, agency : Agencies]

Target == [host : Names, domain : Names, tier : Tiers, agency : Agencies]

ASSUME TargetsAssumption ==
    /\ Www \in [Names -> Names]
    /\ Lists \subseteq Seq(Listing)
    /\ Variants \in Seq(VariantNames)

VARIABLES
    domains,    \* the list (external, constant during the expansion)
    d,          \* the domain being expanded
    v,          \* the variant being expanded
    seen,
    targets

targetsVars == <<domains, d, v, seen, targets>>

TargetsTypeOK ==
    /\ domains \in Seq(Listing)
    /\ d \in Nat \ {0}
    /\ v \in Nat \ {0}
    /\ seen \subseteq Names
    /\ targets \in Seq(Target)

TargetsInit ==
    /\ domains \in Lists
    /\ d = 1
    /\ v = 1
    /\ seen = {}
    /\ targets = <<>>

-----------------------------------------------------------------------------

\* "www" is put in front of whatever is listed, "www.x" included.
Host(domain, variant) == IF variant = "www" THEN Www[domain] ELSE domain

\* `break' for `continue': a known hostname ends its domain.
Expand_Breaks ==
    /\ d <= Len(domains) /\ v <= Len(Variants)
    /\ LET host == Host(domains[d].domain, Variants[v])
       IN  IF Variants[v] # "unsupported" /\ host \notin seen
           THEN /\ seen' = seen \cup {host}
                /\ targets' = Append(targets,
                     [host |-> host, domain |-> domains[d].domain,
                      tier |-> domains[d].tier, agency |-> domains[d].agency])
                /\ v' = v + 1
           ELSE /\ v' = Len(Variants) + 1
                /\ UNCHANGED <<seen, targets>>
    /\ UNCHANGED <<domains, d>>

\* One hostname of one domain; unsupported variants are skipped.
Expand ==
    /\ d <= Len(domains) /\ v <= Len(Variants)
    /\ v' = v + 1
    /\ LET host == Host(domains[d].domain, Variants[v])
       IN  IF Variants[v] # "unsupported" /\ host \notin seen
           THEN /\ seen' = seen \cup {host}
                /\ targets' = Append(targets,
                     [host |-> host, domain |-> domains[d].domain,
                      tier |-> domains[d].tier, agency |-> domains[d].agency])
           ELSE UNCHANGED <<seen, targets>>
    /\ UNCHANGED <<domains, d>>

\* The set of hostnames seen starts afresh with every domain.
NextDomain_Forgets ==
    /\ d <= Len(domains) /\ v > Len(Variants)
    /\ d' = d + 1
    /\ v' = 1
    /\ seen' = {}
    /\ UNCHANGED <<domains, targets>>

NextDomain ==
    /\ d <= Len(domains) /\ v > Len(Variants)
    /\ d' = d + 1
    /\ v' = 1
    /\ UNCHANGED <<domains, seen, targets>>

Expanded == d > Len(domains)

TargetsNext == Expand \/ NextDomain

TargetsSpec == TargetsInit /\ [][TargetsNext]_targetsVars

-----------------------------------------------------------------------------

\* "De-duplication keeps us from probing the same hostname twice" (the module's
\* docstring), and targets are in the order of their first listing.
HostsDistinct ==
    \A s, t \in DOMAIN targets : targets[s].host = targets[t].host => s = t

\* build_targets leaves out no hostname of any listing.
AllExpanded ==
    Expanded =>
        \A i \in DOMAIN domains, j \in DOMAIN Variants :
            Variants[j] # "unsupported" =>
                \E t \in DOMAIN targets :
                    targets[t].host = Host(domains[i].domain, Variants[j])

\* All endpoints of a domain carry one tier and one agency, whatever the list
\* repeats and whichever names coincide: the rollups per domain rely on it.
OneOwner ==
    \A s, t \in DOMAIN targets :
        targets[s].domain = targets[t].domain =>
            targets[s].tier = targets[t].tier /\ targets[s].agency = targets[t].agency

-----------------------------------------------------------------------------
(* Why: the strengthening that is inductive.                               *)

\* What the loops have gone through is in seen.
Covered ==
    \A i \in DOMAIN domains, j \in DOMAIN Variants :
        /\ i < d \/ (i = d /\ j < v)
        /\ Variants[j] # "unsupported"
        => Host(domains[i].domain, Variants[j]) \in seen

IsFirst(i) == \A k \in DOMAIN domains : k < i => domains[k].domain # domains[i].domain

\* A target is owned by the first listing of its domain.
FromFirst(target) ==
    \E i \in DOMAIN domains :
        /\ IsFirst(i)
        /\ target.domain = domains[i].domain
        /\ target.tier = domains[i].tier
        /\ target.agency = domains[i].agency

\* seen holds the hosts of the targets and nothing else, and the listing a
\* target comes from is the first of its domain: a later one finds every
\* hostname of the domain in seen.
TargetsInv ==
    /\ TargetsTypeOK
    /\ seen = {targets[t].host : t \in DOMAIN targets}
    /\ HostsDistinct
    /\ Covered
    /\ \A t \in DOMAIN targets : FromFirst(targets[t])

=============================================================================
