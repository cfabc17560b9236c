------------------------------- MODULE Ingest -------------------------------
(***************************************************************************)
(* ingest/dotgov.py and ingest/plainlist.py: the domain list a run starts  *)
(* from, read from a CSV file.  A cell is described by what the readers    *)
(* make of it: a name in some spelling, "" when blank, "#" for a comment.  *)
(***************************************************************************)
EXTENDS Targets, FiniteSets, Functions

CONSTANTS
    Lower,     \* strip().lower() of the names
    Files      \* the files considered

\* A type cell, by the tests of _tier_for it passes; a short row ends before
\* its type and agency cells.
Row == [name : Names \cup {"", "#"}, type : SUBSET {"federal", "token"},
        agency : Agencies, short : BOOLEAN]

DomainFile ==
    [format : {"dotgov", "plainlist"}, columns : SUBSET {"domain", "type", "agency"},
     rows : Seq(Row)]

ASSUME IngestAssumption ==
    /\ {"", "#"} \cap Names = {}
    /\ Lower \in [Names \cup {"", "#"} -> Names \cup {"", "#"}]
    /\ Files \subseteq DomainFile

\* Lowering a name leaves a name, once and for all, and f"www.{domain}" puts
\* nothing in capitals before it.
ASSUME FoldAssumption ==
    /\ \A cell \in Names \cup {"", "#"} : Lower[Lower[cell]] = Lower[cell]
    /\ \A name \in Names : Lower[name] \in Names
    /\ \A name \in Names : Lower[name] = name => Lower[Www[name]] = Www[name]

-----------------------------------------------------------------------------

\* _tier_for: "federal - tribal" is federal.
TierFor(type) ==
    CASE "federal" \in type -> "federal"
      [] "federal" \notin type /\ "token" \in type -> "state_local"
      [] OTHER -> "other"

\* The spelling of the file is kept.
Fold_AsListed(row) == row.name

Fold(row) == Lower[row.name]

\* load_domains: no domain column, or no type cell on a row that counts.
Raises(file) ==
    /\ file.format = "dotgov"
    /\ \/ "domain" \notin file.columns
       \/ "type" \in file.columns /\ \E row \in Range(file.rows) : Fold(row) # "" /\ row.short

\* A row of the registry, blank or not.
Registered(file) ==
    [i \in DOMAIN file.rows |->
        LET row == file.rows[i]
        IN  [domain |-> Fold(row),
             tier   |-> IF "type" \in file.columns THEN TierFor(row.type) ELSE "other",
             agency |-> IF "agency" \in file.columns /\ ~row.short THEN row.agency ELSE ""]]

\* `break' for `continue': a blank cell ends the list.
LoadDomains_UntilBlank(file) ==
    LET blank(i) == Fold(file.rows[i]) = ""
    IN  SubSeq(Registered(file), 1,
            Cardinality({i \in DOMAIN file.rows : \A j \in 1..i : ~blank(j)}))

\* One row read: those of a skipped domain are not listed.
Read(listed, listing, skipped) ==
    IF listing.domain \in skipped THEN listed ELSE Append(listed, listing)

\* The loop of either reader.
Kept(listings, skipped) ==
    LET kept[i \in 0..Len(listings)] ==
            IF i = 0 THEN <<>> ELSE Read(kept[i - 1], listings[i], skipped)
    IN  kept[Len(listings)]

\* load_domains
LoadDomains(file) == Kept(Registered(file), {""})

\* load_plain_domains
LoadPlainDomains(file) ==
    LET lines == [i \in DOMAIN file.rows |->
                    [domain |-> Fold(file.rows[i]), tier |-> "other", agency |-> ""]]
    IN  Kept(lines, {"", "#"})

\* cli._cmd_run: the format that is not "plainlist" is "dotgov".
Load(file) == IF file.format = "plainlist" THEN LoadPlainDomains(file) ELSE LoadDomains(file)

=============================================================================
