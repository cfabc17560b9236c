----------------------------- MODULE MCTargets -----------------------------
(***************************************************************************)
(* Instances of Ingest, Targets and Rollups for TLC.  "x", "X" and "www.x" *)
(* may all be listed, more than once and with different owners.            *)
(***************************************************************************)
EXTENDS Rollups, SequencesExt

MCNames == {"x", "X", "www.x", "www.X", "www.www.x", "y", "www.y"}

MCWww == [n \in MCNames |->
    CASE n = "x" -> "www.x" [] n = "X" -> "www.X" [] n = "y" -> "www.y"
      [] OTHER -> "www.www.x"]

MCLower == [n \in MCNames \cup {"", "#"} |->
    CASE n = "X" -> "x" [] n = "www.X" -> "www.x" [] OTHER -> n]

Cells(name, type, agency) == [name |-> name, type |-> type, agency |-> agency, short |-> FALSE]

Dotgov(rows) ==
    [format |-> "dotgov", columns |-> {"domain", "type", "agency"}, rows |-> rows]

\* Up to three rows of the colliding domains, with two owners.
MCRegistries ==
    {Dotgov(rows) : rows \in
        BoundedSeq([name : {"x", "X", "www.x"}, type : {{"federal"}, {"token"}},
                    agency : {"A", "B"}, short : {FALSE}], 3)}

\* Blank rows, comments, short rows, rows without an owner, missing columns,
\* under either format.
MCOddRows ==
    {<<Cells("x", {"federal", "token"}, "A"), Cells("", {}, ""), Cells("y", {}, "B")>>,
     <<Cells("", {}, "A"), Cells("x", {"token"}, ""), Cells("y", {"federal"}, "A")>>,
     <<Cells("X", {}, "A"), [Cells("y", {}, "A") EXCEPT !.short = TRUE]>>}

MCOddFiles ==
    [format : {"dotgov", "plainlist"},
     columns : {{"domain"}, {"domain", "type"}, {"domain", "agency"}, {}}, rows : MCOddRows]
    \cup
    {Dotgov(rows) : rows \in MCOddRows}
    \cup
    {[format |-> "plainlist", columns |-> {},
      rows |-> <<Cells("#", {}, ""), Cells("x", {}, ""), Cells("y", {}, "")>>]}

MCFiles == MCRegistries \cup MCOddFiles

MCLists == {Load(f) : f \in {g \in MCFiles : ~Raises(g)}}

MCVariants == <<"apex", "unsupported", "www">>

Reached(kex, auth, cdn) == [reachable |-> TRUE, kex |-> kex, auth |-> auth, cdn |-> cdn]

MCResults ==
    {[reachable |-> FALSE, kex |-> "unknown", auth |-> "unknown", cdn |-> FALSE],
     Reached("hybrid_pq", "classical", TRUE), Reached("pure_pq", "pq", FALSE),
     Reached("unknown", "classical", FALSE)}

=============================================================================
