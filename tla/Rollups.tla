------------------------------ MODULE Rollups ------------------------------
(***************************************************************************)
(* From the domain file to the published tables: the file is read, its     *)
(* domains expanded into targets, the targets recorded in any order, and   *)
(* analysis/aggregate.py may be asked at any time, about a pilot or what a *)
(* run that died left behind.  A rate is kept as its two counts.           *)
(***************************************************************************)
EXTENDS Ingest

CONSTANT Results    \* what a scan may record: reachable, kex, auth, cdn

KexClasses == {"classical", "hybrid_pq", "pure_pq", "unknown"}

AuthClasses == {"classical", "pq", "unknown"}

ASSUME RollupsAssumption ==
    Results \subseteq [reachable : BOOLEAN, kex : KexClasses, auth : AuthClasses,
                       cdn : BOOLEAN]

VARIABLES
    file,       \* the domain file (external)
    table       \* the rows of results.csv

rollupsVars == <<file, domains, d, v, seen, targets, table>>

Recorded == {row.target : row \in table}

TypeOK ==
    /\ TargetsTypeOK
    /\ file \in DomainFile
    /\ table \subseteq [target : Target, result : Results]

\* A file that cannot be read ends the command before anything is opened.
Init ==
    /\ TargetsInit
    /\ file \in Files
    /\ ~Raises(file)
    /\ domains = Load(file)
    /\ table = {}

\* A target that has its row gets another one.
Record_Again ==
    /\ Expanded
    /\ \E t \in DOMAIN targets, result \in Results :
          table' = table \cup {[target |-> targets[t], result |-> result]}
    /\ UNCHANGED <<file, targetsVars>>

\* One target scanned and its row written (see Campaign).
Record ==
    /\ Expanded
    /\ \E t \in DOMAIN targets, result \in Results :
          /\ targets[t] \notin Recorded
          /\ table' = table \cup {[target |-> targets[t], result |-> result]}
    /\ UNCHANGED <<file, targetsVars>>

Next ==
    \/ TargetsNext /\ UNCHANGED <<file, table>>
    \/ Record

Spec == Init /\ [][Next]_rollupsVars

-----------------------------------------------------------------------------
(* The code.                                                               *)

Reachable(rows) == {row \in rows : row.result.reachable}

PqKex(rows) == {row \in rows : row.result.kex \in {"hybrid_pq", "pure_pq"}}

PqAuth(rows) == {row \in rows : row.result.auth = "pq"}

\* kex_vs_auth_gap, by way of _rate: over the reachable rows.
Gap(rows) ==
    LET reachable == Reachable(rows)
    IN  [total |-> Cardinality(reachable),
         kex |-> Cardinality(PqKex(reachable)),
         auth |-> Cardinality(PqAuth(reachable))]

\* Only the tiers of the mandate.
TiersOf_Government(rows) == {row.target.tier : row \in rows} \ {"other"}

TiersOf(rows) == {row.target.tier : row \in rows}

\* by_tier
ByTier(rows) ==
    [tier \in TiersOf(rows) |-> Gap({row \in rows : row.target.tier = tier})]

HostingOf(row) == IF row.result.cdn THEN "cdn" ELSE "origin"

\* by_hosting
ByHosting(rows) ==
    [hosting \in {HostingOf(row) : row \in rows} |->
        Gap({row \in rows : HostingOf(row) = hosting})]

DomainsOf(rows) == {row.target.domain : row \in rows}

\* Every endpoint has to have the property.
Ready_All(rows, ready) ==
    {domain \in DomainsOf(rows) :
        \A row \in rows : row.target.domain = domain => row \in ready}

\* The domains of the rows that have an endpoint among the ready ones.
Ready(rows, ready) == {row.target.domain : row \in rows \cap ready}

\* domain_level_gap
DomainGap(rows) ==
    LET reachable == Reachable(rows)
    IN  [total |-> Cardinality(DomainsOf(reachable)),
         kex |-> Cardinality(Ready(reachable, PqKex(rows))),
         auth |-> Cardinality(Ready(reachable, PqAuth(rows)))]

\* by_agency: groupby drops the rows whose agency cell is blank, which
\* read_csv has read as missing.
Owned(rows) == {row \in rows : row.target.agency # ""}

ByAgency(rows) ==
    LET owned == Owned(Reachable(rows))
    IN  [agency \in {row.target.agency : row \in owned} |->
           LET own == {row \in owned : row.target.agency = agency}
           IN  [total |-> Cardinality(DomainsOf(own)),
                kex |-> Cardinality(Ready(own, PqKex(rows))),
                auth |-> Cardinality(Ready(own, PqAuth(rows)))]]

-----------------------------------------------------------------------------

\* Host names are case-blind, and so is the scan: no endpoint is a target in two
\* spellings, however the file spells its rows (load_domains lowers every name,
\* build_targets compares them as they are).
CaseBlindDistinct ==
    \A s, t \in DOMAIN targets : Lower[targets[s].host] = Lower[targets[t].host] => s = t

\* Every row that names a domain has its hostnames scanned, wherever it stands
\* between blank and repeated rows of a registry (load_domains) or blank,
\* commented and repeated lines of a plain list (load_plain_domains).
RowsCovered ==
    Expanded =>
        \A i \in DOMAIN file.rows, j \in DOMAIN Variants :
            file.rows[i].name \in Names /\ Variants[j] # "unsupported" =>
                \E t \in DOMAIN targets :
                    targets[t].host = Host(Lower[file.rows[i].name], Variants[j])

\* The counts of the groups of a rollup, added up.
Total(rollup) ==
    [count \in {"total", "kex", "auth"} |->
        SumFunction([group \in DOMAIN rollup |-> rollup[group][count]])]

\* by_tier and by_hosting split the headline numbers: no endpoint is lost or
\* counted in two groups.
EndpointRollupsAddUp ==
    Total(ByTier(table)) = Gap(table) /\ Total(ByHosting(table)) = Gap(table)

\* by_agency splits the domain-level numbers of the domains that have an
\* agency: no domain is counted for two agencies, which is so only because all
\* endpoints of a domain have one owner.
AgenciesAddUp == Total(ByAgency(table)) = DomainGap(Owned(table))

\* The endpoint and the domain view agree on whether there is anything to
\* report, and duplication only ever inflates the endpoint view, at most by the
\* number of supported variants.
DomainViewConsistent ==
    \A count \in {"total", "kex", "auth"} :
        /\ DomainGap(table)[count] <= Gap(table)[count]
        /\ Gap(table)[count] <= DomainGap(table)[count]
              * Cardinality({j \in DOMAIN Variants : Variants[j] # "unsupported"})

\* A partial table understates: no count of any view goes down as a run, or a
\* resumed one, adds rows, and no group disappears.
Covers(new, old) ==
    \A count \in {"total", "kex", "auth"} : old[count] <= new[count]

AllCover(new, old) ==
    DOMAIN old \subseteq DOMAIN new /\ \A group \in DOMAIN old : Covers(new[group], old[group])

PartialUnderstates ==
    [][ /\ Covers(Gap(table)', Gap(table))
        /\ Covers(DomainGap(table)', DomainGap(table))
        /\ AllCover(ByTier(table)', ByTier(table))
        /\ AllCover(ByHosting(table)', ByHosting(table))
        /\ AllCover(ByAgency(table)', ByAgency(table)) ]_rollupsVars

-----------------------------------------------------------------------------
(* Why: the strengthening that is inductive.                               *)

\* A target's hostname is some supported variant of its domain.
IsVariant(target) ==
    \E j \in DOMAIN Variants :
        Variants[j] # "unsupported" /\ target.host = Host(target.domain, Variants[j])

\* Each row is of a target, and no two are of the same.
OneRowPerTarget ==
    /\ Recorded \subseteq Range(targets)
    /\ \A row, other \in table : row.target = other.target => row = other

\* The expansion of what was read, and a table of its targets: every view is
\* taken of such a table.
RollupsInv ==
    /\ TypeOK
    /\ TargetsInv
    /\ file \in Files /\ domains = Load(file)
    /\ \A t \in DOMAIN targets : IsVariant(targets[t])
    /\ IsFiniteSet(table) /\ OneRowPerTarget

=============================================================================
