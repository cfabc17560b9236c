------------------------------- MODULE Census -------------------------------
(***************************************************************************)
(* What `pqreadiness run' promises about results.csv, without threads,     *)
(* buffers or files: a census of hosts, taken in sessions.  A session      *)
(* begins from an empty table or keeps the one there is, has a goal of     *)
(* hosts that have no row yet, adds one row at a time for a host of its    *)
(* goal, and is complete only when its whole goal has rows.  It may stop   *)
(* at any time without being complete.  A row may be torn; what the torn   *)
(* row and the next one are taken for is then anybody's guess, and no      *)
(* other row is affected.                                                  *)
(***************************************************************************)
EXTENDS Population

VARIABLES
    rows,       \* the hosts that the table has rows about
    torn,       \* one of its rows is not finished
    goal,       \* the hosts of the session; {} between sessions
    open,       \* a session is on
    complete    \* the last session reached its goal

census == <<rows, torn, goal, open, complete>>

Init ==
    /\ rows = {}
    /\ torn = FALSE
    /\ goal = {}
    /\ open = FALSE
    /\ complete = FALSE

Begin ==
    /\ ~open /\ open'
    /\ \/ UNCHANGED <<rows, torn>>
       \/ rows' = {} /\ ~torn'
    /\ goal' \in SUBSET (Hosts \ rows')
    /\ ~complete'

Record(h) ==
    /\ open
    /\ h \in goal
    /\ rows' = rows \cup {h}
    /\ UNCHANGED <<torn, goal, open, complete>>

\* The unfinished row reads any host, or none.
Tear ==
    /\ open
    /\ ~torn /\ torn'
    /\ \E misread \in SUBSET Hosts :
          (\E g \in Hosts : misread \subseteq {g}) /\ rows' = rows \cup misread
    /\ ~complete'
    /\ UNCHANGED <<goal, open>>

\* The unfinished row is ended by another, and both together read any host, or
\* none.
Mend ==
    /\ open
    /\ torn /\ ~torn'
    /\ \E lost, misread \in SUBSET Hosts :
          /\ \E g \in Hosts : lost \subseteq {g}
          /\ \E g \in Hosts : misread \subseteq {g}
          /\ rows' = (rows \ lost) \cup misread
    /\ UNCHANGED <<goal, open, complete>>

Finish ==
    /\ open /\ ~open'
    /\ complete' => goal \subseteq rows
    /\ goal' = {}
    /\ UNCHANGED <<rows, torn>>

\* The next invocation has not opened the table yet, or never does.
Forget ==
    /\ ~open /\ ~complete'
    /\ UNCHANGED <<rows, torn, goal, open>>

Next == Begin \/ (\E h \in Hosts : Record(h)) \/ Tear \/ Mend \/ Finish \/ Forget

Spec == Init /\ [][Next]_census

=============================================================================
