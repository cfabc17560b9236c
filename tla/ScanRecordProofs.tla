-------------------------- MODULE ScanRecordProofs --------------------------
(***************************************************************************)
(* Proofs, for any groups, registry, profiles, retries, CDN directory and  *)
(* endpoints, that a record says what the probes of its scan saw: whether  *)
(* it is reachable, the best class, when a transient failure is put on     *)
(* record, that a momentary one is forgiven, and whose network it is in.   *)
(***************************************************************************)
EXTENDS ScanTargetProofs, FiniteSetTheorems

\* The type of a scan's state holds throughout (Scanner.scan_target).
THEOREM ScanTypeCorrect == Spec => []TypeOK
  <1>1. ScanInv => TypeOK
    BY DEF ScanInv
  <1> QED
    BY <1>1, ScanInvariance, PTL

\* The note that counts an endpoint into the authentication gap is true of the
\* endpoint (scan_target, stage 6).
THEOREM GapNoteTrue == Spec => []GapNoteIsTrue
  <1>1. ScanInv => GapNoteIsTrue
    <2> SUFFICES ASSUME ScanInv, record.notes = "kex_pq_auth_classical"
                 PROVE  /\ \E b \in site.backends : \E g \in b.groups : GroupClass[g] \in PQ
                        /\ RealLeaf("classical")
      BY DEF GapNoteIsTrue
    <2>1. record.kex \in PQ /\ record.auth = "classical"
      BY DEF ScanInv
    <2>2. record.kex # "unknown" /\ record.auth # "unknown"
      BY <2>1 DEF PQ
    <2>3. Real(record.group) /\ GroupClass[record.group] = record.kex
      BY <2>2 DEF ScanInv
    <2>4. RealLeaf("classical")
      BY <2>1, <2>2 DEF ScanInv
    <2> QED
      BY <2>1, <2>3, <2>4 DEF Real
  <1> QED
    BY <1>1, ScanInvariance, PTL

-----------------------------------------------------------------------------
(* What a step does to the record.                                         *)

\* Field by field, for every action that touches the record.
LEMMA RecordSteps ==
    ASSUME ScanInv
    PROVE  /\ Resolve => /\ record'.probes = record.probes
                         /\ record'.reachable = record.reachable
                         /\ record'.notes \in {record.notes, "dns_failed"}
                         /\ pc' = "done" => record'.notes = "dns_failed"
           /\ NextProfile => /\ record'.probes = Append(record.probes, last)
                             /\ record'.reachable = record.reachable
           /\ DecideReachable =>
                 /\ record'.probes = record.probes
                 /\ record'.reachable = (\/ record.reachable
                                         \/ \E i \in Probes : record.probes[i].reachable)
                 /\ pc' = "done" => record'.notes = "unreachable"
                 /\ pc' = "classify" <=> \E i \in Probes : record.probes[i].reachable
           /\ ClassifyDone => /\ record'.probes = record.probes
                              /\ record'.reachable = record.reachable
                              /\ record'.kex = best.class
           /\ FetchCertificate \/ TagHosting \/ Annotate =>
                 /\ record'.probes = record.probes
                 /\ record'.reachable = record.reachable
                 /\ record'.kex = record.kex
           /\ Raise => record'.notes \in {"internal_error", "traceback"}
  <1>1. record \in DomainReadiness
    BY DEF ScanInv, TypeOK
  <1>2. ASSUME Resolve
        PROVE  /\ record'.probes = record.probes
               /\ record'.reachable = record.reachable
               /\ record'.notes \in {record.notes, "dns_failed"}
               /\ pc' = "done" => record'.notes = "dns_failed"
    <2>1. \/ pc' = "probe" /\ record' = record
          \/ record' = [record EXCEPT !.notes = "dns_failed"]
      BY <1>2 DEF Resolve, Goto
    <2>2. CASE pc' = "probe" /\ record' = record
      BY <2>2
    <2>3. CASE record' = [record EXCEPT !.notes = "dns_failed"]
      BY <1>1, <2>3 DEF DomainReadiness
    <2> QED
      BY <2>1, <2>2, <2>3
  <1>3. NextProfile => /\ record'.probes = Append(record.probes, last)
                       /\ record'.reachable = record.reachable
    BY <1>1 DEF NextProfile, DomainReadiness
  <1>4. ASSUME DecideReachable
        PROVE  /\ record'.probes = record.probes
               /\ record'.reachable = (\/ record.reachable
                                       \/ \E i \in Probes : record.probes[i].reachable)
               /\ pc' = "done" => record'.notes = "unreachable"
               /\ pc' = "classify" <=> \E i \in Probes : record.probes[i].reachable
    <2> DEFINE tls == \E i \in DOMAIN record.probes : record.probes[i].tls
    <2>1. CASE \E i \in Probes : record.probes[i].reachable
      <3>1. pc' = "classify" /\ record' = [record EXCEPT !.reachable = TRUE, !.tls = tls]
        BY <1>4, <2>1 DEF DecideReachable, Probes
      <3> HIDE DEF tls
      <3>2. record'.probes = record.probes /\ record'.reachable = TRUE
        BY <1>1, <3>1 DEF DomainReadiness
      <3> QED
        BY <2>1, <3>1, <3>2
    <2>2. CASE ~(\E i \in Probes : record.probes[i].reachable)
      <3>1. pc' = "done" /\ record' = [record EXCEPT !.notes = "unreachable"]
        BY <1>4, <2>2 DEF DecideReachable, Probes
      <3>2. /\ record'.probes = record.probes /\ record'.reachable = record.reachable
            /\ record'.notes = "unreachable" /\ record.reachable \in BOOLEAN
        BY <1>1, <3>1 DEF DomainReadiness
      <3> QED
        BY <2>2, <3>1, <3>2
    <2> QED
      BY <2>1, <2>2
  <1>5. ClassifyDone => /\ record'.probes = record.probes
                        /\ record'.reachable = record.reachable
                        /\ record'.kex = best.class
    BY <1>1 DEF ClassifyDone, DomainReadiness
  <1>6. ASSUME FetchCertificate \/ TagHosting \/ Annotate
        PROVE  /\ record'.probes = record.probes
               /\ record'.reachable = record.reachable
               /\ record'.kex = record.kex
    <2>1. CASE FetchCertificate
      <3>1. PICK auth : record' = [record EXCEPT !.auth = auth]
        BY <2>1 DEF FetchCertificate
      <3> QED
        BY <1>1, <3>1 DEF DomainReadiness
    <2>2. CASE TagHosting
      <3>1. PICK cdn, via : record' = [record EXCEPT !.cdn = cdn, !.via = via]
        BY <2>2 DEF TagHosting
      <3> QED
        BY <1>1, <3>1 DEF DomainReadiness
    <2>3. CASE Annotate
      <3>1. record' = record \/ record' = [record EXCEPT !.notes = "kex_pq_auth_classical"]
        BY <2>3 DEF Annotate
      <3> QED
        BY <1>1, <3>1 DEF DomainReadiness
    <2> QED
      BY <1>6, <2>1, <2>2, <2>3
  <1>7. Raise => record'.notes \in {"internal_error", "traceback"}
    BY DEF Raise, FreshRecord
  <1> QED
    BY <1>2, <1>3, <1>4, <1>5, <1>6, <1>7

-----------------------------------------------------------------------------
(* Reachability.                                                           *)

\* An output is read as reachable exactly when it is that of a handshake that
\* completed in time (probe, shell.run).
LEMMA ReachableFact ==
    ASSUME NEW out \in Outputs
    PROVE  Probe(Captured(out)).reachable <=> out.established /\ ~out.timed_out
  <1>1. ASSUME NEW o, o.timed_out = FALSE, o.established = TRUE
        PROVE  Probe(Captured(o)).reachable
    BY <1>1 DEF Captured, Probe, HandshakeSeen
  <1>2. ASSUME NEW o, o.timed_out = TRUE
        PROVE  ~Probe(Captured(o)).reachable
    <2>1. Captured(o) = [Silence EXCEPT !.timed_out = TRUE]
      BY <1>2 DEF Captured
    <2>2. ~HandshakeSeen(Captured(o))
      BY <2>1 DEF HandshakeSeen, ExtractGroup, Silence
    <2> QED
      BY <2>2 DEF Probe
  <1>3. ASSUME NEW phrases
        PROVE  /\ ~Probe(Captured(Failing(phrases))).reachable
               /\ Failing(phrases).established = FALSE
    <2>1. Captured(Failing(phrases)) = Failing(phrases)
      BY DEF Captured, Failing, Silence
    <2>2. ~HandshakeSeen(Failing(phrases))
      BY DEF HandshakeSeen, ExtractGroup, Failing, Silence
    <2> QED
      BY <2>1, <2>2 DEF Probe, Failing, Silence
  <1>4. ASSUME NEW g \in Groups, NEW o \in Completed(g)
        PROVE  o.timed_out = FALSE /\ o.established = TRUE
    BY <1>4 DEF Completed, Silence
  <1>5. ASSUME NEW g \in Groups, NEW o \in Late(g)
        PROVE  o.timed_out = TRUE
    BY <1>5 DEF Late, Completed, Silence
  <1>6. [Silence EXCEPT !.timed_out = TRUE].timed_out = TRUE
    BY DEF Silence
  <1>7. CASE \E g \in Groups : out \in Completed(g)
    BY <1>1, <1>4, <1>7
  <1>8. CASE \E g \in Groups : out \in Late(g)
    BY <1>2, <1>5, <1>8
  <1>9. CASE out \in Refusals \cup Disturbances \cup {LookupFailure}
    <2>1. CASE out = [Silence EXCEPT !.timed_out = TRUE]
      BY <1>2, <1>6, <2>1
    <2>2. CASE \E phrases : out = Failing(phrases)
      BY <1>3, <2>2
    <2> QED
      BY <1>9, <2>1, <2>2 DEF Refusals, Disturbances, LookupFailure, Reset
  <1> QED
    BY <1>7, <1>8, <1>9 DEF Outputs

SomeReachable == \E i \in Probes : record.probes[i].reachable

\* While probes are made, an answer has been seen exactly when the latest
\* outcome or a recorded one is reachable; later stages need one.
ReachInv ==
    /\ pc \in {"dns", "probe"} =>
          /\ attempt = 0 \/ ProfilesDone => ~last.reachable
          /\ ~record.reachable
          /\ answered <=> last.reachable \/ SomeReachable
    /\ pc = "dns" => ~answered
    /\ tool = "run" /\ pc \in {"classify", "certificate", "hosting", "notes"} =>
          record.reachable /\ answered
    /\ ReachabilityIsTrue

\* A scan starts with no answer.
LEMMA ReachInit == Init => ReachInv
  <1> SUFFICES ASSUME Init PROVE ReachInv
    OBVIOUS
  <1>1. /\ last.reachable = FALSE /\ record.reachable = FALSE /\ answered = FALSE
        /\ record.probes = <<>> /\ pc \in {"dns", "probe"}
    BY DEF Init, NoOutcome, FreshRecord
  <1>2. Probes = {}
    BY <1>1, EmptySequence DEF Probes
  <1> QED
    BY <1>1, <1>2 DEF ReachInv, SomeReachable, ReachabilityIsTrue, Done

\* No step lets a record and its probes part on whether there was an answer.
LEMMA ReachStep ==
    ScanInv /\ ReachInv /\ [Next]_scanVars => ReachInv'
  <1> SUFFICES ASSUME ScanInv, ReachInv, [Next]_scanVars
               PROVE  ReachInv'
    OBVIOUS
  <1> USE DEF ReachInv, context
  <1>1. CASE Resolve
    <2>1. ~last.reachable /\ ~SomeReachable /\ ~answered /\ ~record.reachable /\ pc = "dns"
      BY <1>1 DEF Resolve, Goto
    <2>2. /\ UNCHANGED <<last, answered, attempt, tool, site>> /\ pc' \in {"probe", "done"}
          /\ record'.probes = record.probes /\ record'.reachable = record.reachable
      BY <1>1, RecordSteps DEF Resolve, Goto
    <2> QED
      BY <2>1, <2>2 DEF SomeReachable, Probes, ProfilesDone, ReachabilityIsTrue, Done
  <1>2. ASSUME NEW out \in Outputs, ProbeOnce(out)
        PROVE  ReachInv'
    <2>1. /\ last'.reachable <=> out.established /\ ~out.timed_out
          /\ answered' <=> answered \/ (out.established /\ ~out.timed_out)
      BY <1>2, ReachableFact DEF ProbeOnce
    <2>2. ~last.reachable /\ ~ProfilesDone /\ pc = "probe"
      BY <1>2 DEF ProbeOnce, MayProbe
    <2>3. UNCHANGED <<pc, tool, site, record>> /\ attempt' # 0
      BY <1>2 DEF ProbeOnce, ScanInv, TypeOK
    <2> QED
      BY <2>1, <2>2, <2>3 DEF SomeReachable, Probes, ProfilesDone, ReachabilityIsTrue, Done
  <1>3. CASE NextProfile
    <2>1. /\ record'.probes = Append(record.probes, last)
          /\ record'.reachable = record.reachable
          /\ last'.reachable = FALSE /\ pc = "probe"
          /\ UNCHANGED <<pc, tool, site, answered>>
      BY <1>3, RecordSteps DEF NextProfile, NoOutcome
    <2>2. record.probes \in Seq(Outcome) /\ last \in Outcome
      BY DEF ScanInv, TypeOK, DomainReadiness
    <2>3. SomeReachable' <=> SomeReachable \/ last.reachable
      <3> DEFINE longer == Append(record.probes, last)
      <3>1. /\ DOMAIN longer = 1..(Len(record.probes) + 1)
            /\ DOMAIN record.probes = 1..Len(record.probes)
            /\ Len(record.probes) \in Nat
            /\ longer[Len(record.probes) + 1] = last
            /\ \A i \in DOMAIN record.probes : longer[i] = record.probes[i]
        BY <2>2
      <3> HIDE DEF longer
      <3>2. (\E i \in DOMAIN longer : longer[i].reachable)
              <=> last.reachable \/ \E i \in DOMAIN record.probes : record.probes[i].reachable
        BY <3>1
      <3>3. record'.probes = longer
        BY <2>1 DEF longer
      <3> QED
        BY <3>2, <3>3 DEF SomeReachable, Probes
    <2> QED
      BY <2>1, <2>3 DEF ReachabilityIsTrue, Done
  <1>4. CASE DecideReachable
    <2>1. /\ pc = "probe" /\ ~last.reachable /\ ~record.reachable
          /\ answered <=> SomeReachable
          /\ pc' \in {"classify", "done"}
          /\ UNCHANGED <<last, answered, attempt, tool, site>>
      BY <1>4 DEF DecideReachable
    <2>2. /\ record'.probes = record.probes
          /\ record'.reachable <=> SomeReachable
          /\ pc' = "classify" <=> SomeReachable
      BY <1>4, <2>1, RecordSteps DEF SomeReachable
    <2> QED
      BY <2>1, <2>2 DEF ProfilesDone, ReachabilityIsTrue, Done
  <1>5. CASE ClassifyNext
    <2>1. pc = "classify" /\ UNCHANGED <<pc, last, answered, attempt, tool, site, record>>
      BY <1>5 DEF ClassifyNext
    <2> QED
      BY <2>1 DEF SomeReachable, Probes, ProfilesDone, ReachabilityIsTrue, Done
  <1>6. CASE ClassifyDone \/ FetchCertificate \/ TagHosting \/ Annotate
    <2>1. /\ pc \in {"classify", "certificate", "hosting", "notes"}
          /\ pc' \in {"certificate", "hosting", "notes", "done"}
          /\ UNCHANGED <<last, answered, attempt, tool, site>>
      BY <1>6 DEF ClassifyDone, FetchCertificate, TagHosting, Annotate, Goto
    <2>2. record'.probes = record.probes /\ record'.reachable = record.reachable
      BY <1>6, RecordSteps
    <2> QED
      BY <2>1, <2>2 DEF ProfilesDone, ReachabilityIsTrue, Done
  <1>7. CASE Raise
    <2>1. /\ pc' = "done" /\ UNCHANGED <<last, answered, attempt, tool, site>>
          /\ tool = "run" => record'.notes = "internal_error"
      BY <1>7 DEF Raise, FreshRecord
    <2> QED
      BY <2>1 DEF ReachabilityIsTrue, Done
  <1>8. CASE ListProbes
    <2>1. /\ pc' = "classify" /\ tool = "pqscan"
          /\ UNCHANGED <<last, answered, attempt, tool, site, record>>
      BY <1>8 DEF ListProbes, Goto
    <2> QED
      BY <2>1 DEF ProfilesDone, ReachabilityIsTrue, Done
  <1>9. CASE UNCHANGED scanVars
    BY <1>9 DEF scanVars, SomeReachable, Probes, ProfilesDone, ReachabilityIsTrue, Done
  <1> QED
    BY <1>1, <1>2, <1>3, <1>4, <1>5, <1>6, <1>7, <1>8, <1>9 DEF Next

\* A record says its host is reachable exactly when a handshake with it
\* completed in time, unless the scan raised (scan_target, probe).
THEOREM ReachabilityTrue == Spec => []ReachabilityIsTrue
  <1>1. ReachInv => ReachabilityIsTrue
    BY DEF ReachInv
  <1> QED
    BY <1>1, ScanInvariance, ReachInit, ReachStep, PTL DEF Spec

-----------------------------------------------------------------------------
(* The best class of the probes.                                           *)

Listed(outcome) == outcome.group # None /\ GroupClass[outcome.group] # "unlisted"

\* The class is the best that the first n probes show.
BestOfFirst(n, class) ==
    /\ \/ class = "unknown"
       \/ \E i \in Probes : /\ i <= n /\ Listed(record.probes[i])
                            /\ GroupClass[record.probes[i].group] = class
    /\ \A i \in Probes :
          i <= n /\ Listed(record.probes[i]) =>
              Rank(GroupClass[record.probes[i].group]) <= Rank(class)

\* The loop invariant of classify_key_exchange, and what it leaves behind.
FoldInv ==
    /\ last.group # None => last.reachable
    /\ \A i \in Probes : record.probes[i].group # None => record.probes[i].reachable
    /\ pc \in {"dns", "probe"} => best.class = "unknown" /\ best.seen = 0
    /\ pc = "classify" => BestOfFirst(best.seen, best.class)
    /\ Classified => BestOfFirst(Len(record.probes), record.kex)

\* The rank of a class is a number.
LEMMA RankFacts == \A class : Rank(class) \in 0..3
  BY DEF Rank

\* One step of the loop: the class gets no worse, is no worse than the probe's,
\* and is one of the two.
LEMMA BetterRank ==
    ASSUME best \in Best, NEW o \in Outcome, o.group # None => o.reachable
    PROVE  /\ Rank(best.class) <= Rank(Better(o).class)
           /\ Listed(o) => Rank(GroupClass[o.group]) <= Rank(Better(o).class)
           /\ \/ Better(o).class = best.class
              \/ Listed(o) /\ Better(o).class = GroupClass[o.group]
  <1>1. Rank(best.class) \in Int /\ Rank(GroupClass[o.group]) \in Int
    BY RankFacts
  <1>2. CASE ~o.reachable \/ o.group = None
    <2>1. Better(o) = best /\ ~Listed(o)
      BY <1>2 DEF Better, Listed
    <2> QED
      BY <1>1, <2>1
  <1>3. CASE o.reachable /\ o.group # None /\ GroupClass[o.group] = "unlisted"
    <2>1. Better(o) = [best EXCEPT !.group = IF @ = None THEN o.group ELSE @]
      BY <1>3 DEF Better
    <2>2. Better(o).class = best.class /\ ~Listed(o)
      BY <1>3, <2>1 DEF Best, Listed
    <2> QED
      BY <1>1, <2>2
  <1>4. CASE /\ o.reachable /\ o.group # None /\ GroupClass[o.group] # "unlisted"
             /\ Rank(GroupClass[o.group]) > Rank(best.class)
    <2>1. Better(o) = [best EXCEPT !.group = o.group, !.class = GroupClass[o.group]]
      BY <1>4 DEF Better
    <2>2. Better(o).class = GroupClass[o.group]
      BY <2>1 DEF Best
    <2> QED
      BY <1>1, <1>4, <2>2 DEF Listed
  <1>5. CASE /\ o.reachable /\ o.group # None /\ GroupClass[o.group] # "unlisted"
             /\ ~(Rank(GroupClass[o.group]) > Rank(best.class))
    <2>1. Better(o) = best
      BY <1>5 DEF Better
    <2> QED
      BY <1>1, <1>5, <2>1
  <1> QED
    BY <1>2, <1>3, <1>4, <1>5

\* Before the loop there is nothing to be the best of.
LEMMA NothingFolded ==
    ASSUME ScanInv, FoldInv, pc = "probe"
    PROVE  /\ best.class = "unknown" /\ best.seen = 0
           /\ \A i \in Probes : ~(i <= 0)
  <1>1. record.probes \in Seq(Outcome)
    BY DEF ScanInv, TypeOK, DomainReadiness
  <1> QED
    BY <1>1 DEF FoldInv, Probes

\* The loop invariant survives one round.
LEMMA RoundKeepsBest ==
    ASSUME ScanInv, FoldInv, ClassifyNext
    PROVE  BestOfFirst(best.seen, best.class)'
  <1> DEFINE k == best.seen + 1
             o == record.probes[k]
  <1>1. /\ best \in Best /\ best.seen \in Nat /\ record.probes \in Seq(Outcome)
        /\ pc = "classify" /\ best.seen < Len(record.probes) /\ record' = record
    BY DEF ClassifyNext, ScanInv, TypeOK, Best, DomainReadiness
  <1>2. k \in Probes /\ o \in Outcome /\ (o.group # None => o.reachable)
    BY <1>1 DEF Probes, FoldInv
  <1>3. best'.class = Better(o).class /\ best'.seen = k
    <2>1. best' = [Better(o) EXCEPT !.seen = k]
      BY DEF ClassifyNext
    <2>2. Better(o) \in Best
      BY <1>2, BetterFacts DEF FoldInv, ScanInv
    <2> QED
      BY <2>1, <2>2 DEF Best
  <1>4. /\ Rank(best.class) <= Rank(Better(o).class)
        /\ Listed(o) => Rank(GroupClass[o.group]) <= Rank(Better(o).class)
        /\ \/ Better(o).class = best.class
           \/ Listed(o) /\ Better(o).class = GroupClass[o.group]
    BY <1>1, <1>2, BetterRank
  <1>5. BestOfFirst(best.seen, best.class)
    BY <1>1 DEF FoldInv
  <1>6. \A i \in Probes : i \in Nat /\ (i <= k <=> i <= best.seen \/ i = k)
    BY <1>1 DEF Probes
  <1>7. \A class : Rank(class) \in Int
    BY RankFacts
  <1> HIDE DEF o, k
  <1>8. \/ best'.class = "unknown"
        \/ \E i \in Probes : /\ i <= k /\ Listed(record.probes[i])
                             /\ GroupClass[record.probes[i].group] = best'.class
    <2>1. CASE Better(o).class = best.class
      BY <1>3, <1>5, <1>6, <2>1 DEF BestOfFirst
    <2>2. CASE Listed(o) /\ Better(o).class = GroupClass[o.group]
      BY <1>2, <1>3, <1>6, <2>2 DEF o
    <2> QED
      BY <1>4, <2>1, <2>2
  <1>9. ASSUME NEW i \in Probes, i <= k, Listed(record.probes[i])
        PROVE  Rank(GroupClass[record.probes[i].group]) <= Rank(best'.class)
    <2>1. CASE i <= best.seen
      <3>1. Rank(GroupClass[record.probes[i].group]) <= Rank(best.class)
        BY <1>5, <1>9, <2>1 DEF BestOfFirst
      <3> QED
        BY <1>3, <1>4, <1>7, <3>1
    <2>2. CASE i = k
      BY <1>3, <1>4, <1>9, <2>2 DEF o
    <2> QED
      BY <1>6, <1>9, <2>1, <2>2
  <1>10. BestOfFirst(best.seen, best.class)'
           <=> /\ \/ best'.class = "unknown"
                  \/ \E i \in Probes : /\ i <= k /\ Listed(record.probes[i])
                                       /\ GroupClass[record.probes[i].group] = best'.class
               /\ \A i \in Probes :
                     i <= k /\ Listed(record.probes[i]) =>
                         Rank(GroupClass[record.probes[i].group]) <= Rank(best'.class)
    BY <1>1, <1>3 DEF BestOfFirst, Probes, Listed, Rank
  <1> QED
    BY <1>8, <1>9, <1>10

\* A scan starts with nothing classified.
LEMMA FoldInit == Init => FoldInv
  <1> SUFFICES ASSUME Init PROVE FoldInv
    OBVIOUS
  <1>1. /\ last.group = None /\ best.class = "unknown" /\ best.seen = 0
        /\ record.probes = <<>> /\ pc \in {"dns", "probe"}
    BY DEF Init, NoOutcome, FreshRecord
  <1>2. Probes = {}
    BY <1>1, EmptySequence DEF Probes
  <1> QED
    BY <1>1, <1>2 DEF FoldInv, Classified, Done

\* An outcome that names a group is that of a handshake.
LEMMA GroupMeansReachable ==
    \A out : Probe(out).group # None => Probe(out).reachable
  BY DEF Probe

\* A step that leaves the probes alone and records their best class.
LEMMA BestRecorded ==
    ASSUME record'.probes = record.probes,
           BestOfFirst(Len(record.probes), record'.kex)
    PROVE  BestOfFirst(Len(record.probes), record.kex)'
  <1>1. /\ DOMAIN record'.probes = DOMAIN record.probes
        /\ Len(record'.probes) = Len(record.probes)
    OBVIOUS
  <1>2. \A i \in DOMAIN record.probes : record'.probes[i] = record.probes[i]
    OBVIOUS
  <1> QED
    BY <1>1, <1>2 DEF BestOfFirst, Probes, Listed, Rank

\* No step parts the class from the probes.
LEMMA FoldStep ==
    ScanInv /\ FoldInv /\ [Next]_scanVars => FoldInv'
  <1> SUFFICES ASSUME ScanInv, FoldInv, [Next]_scanVars
               PROVE  FoldInv'
    OBVIOUS
  <1> USE DEF FoldInv, context
  <1>1. CASE Resolve
    <2>1. /\ pc = "dns" /\ UNCHANGED <<last, best>>
          /\ \/ pc' = "probe"
             \/ pc' = "done" /\ record'.notes = "dns_failed"
          /\ record'.probes = record.probes
      BY <1>1, RecordSteps DEF Resolve, Goto
    <2> QED
      BY <2>1 DEF Probes, Classified, Done
  <1>2. ASSUME NEW out \in Outputs, ProbeOnce(out)
        PROVE  FoldInv'
    <2>1. pc = "probe" /\ last' = Probe(Captured(out)) /\ UNCHANGED <<pc, best, record>>
      BY <1>2 DEF ProbeOnce
    <2> QED
      BY <2>1, GroupMeansReachable DEF Probes, Classified, Done
  <1>3. CASE NextProfile
    <2>1. /\ pc = "probe" /\ UNCHANGED <<pc, best>> /\ last'.group = None
          /\ record'.probes = Append(record.probes, last)
      BY <1>3, RecordSteps DEF NextProfile, NoOutcome
    <2>2. record.probes \in Seq(Outcome) /\ last \in Outcome
      BY DEF ScanInv, TypeOK, DomainReadiness
    <2>3. \A i \in Probes' :
             record'.probes[i].group # None => record'.probes[i].reachable
      <3> DEFINE longer == Append(record.probes, last)
      <3>1. \A i \in DOMAIN longer : \/ longer[i] = last
                                     \/ i \in Probes /\ longer[i] = record.probes[i]
        BY <2>2 DEF Probes
      <3> HIDE DEF longer
      <3>2. \A i \in DOMAIN longer : longer[i].group # None => longer[i].reachable
        BY <3>1
      <3>3. record'.probes = longer
        BY <2>1 DEF longer
      <3> QED
        BY <3>2, <3>3 DEF Probes
    <2> QED
      BY <2>1, <2>3 DEF Classified, Done
  <1>4. CASE DecideReachable
    <2>1. /\ pc = "probe" /\ UNCHANGED <<last, best>>
          /\ \/ pc' = "classify"
             \/ pc' = "done" /\ record'.notes = "unreachable"
          /\ record'.probes = record.probes
      BY <1>4, RecordSteps DEF DecideReachable
    <2>2. BestOfFirst(best.seen, best.class)'
      BY <2>1, NothingFolded DEF BestOfFirst, Probes
    <2> QED
      BY <2>1, <2>2 DEF Probes, Classified, Done
  <1>5. CASE ListProbes
    <2>1. pc = "probe" /\ pc' = "classify" /\ UNCHANGED <<last, best, record>>
      BY <1>5 DEF ListProbes, Goto
    <2>2. BestOfFirst(best.seen, best.class)'
      BY <2>1, NothingFolded DEF BestOfFirst, Probes
    <2> QED
      BY <2>1, <2>2 DEF Probes, Classified, Done
  <1>6. CASE ClassifyNext
    <2>1. pc = "classify" /\ UNCHANGED <<pc, last, record>>
      BY <1>6 DEF ClassifyNext
    <2>2. BestOfFirst(best.seen, best.class)'
      BY <1>6, RoundKeepsBest
    <2> QED
      BY <2>1, <2>2 DEF Probes, Classified, Done
  <1>7. CASE ClassifyDone
    <2>1. /\ pc = "classify" /\ pc' = "certificate" /\ UNCHANGED <<last, best>>
          /\ best.seen = Len(record.probes)
          /\ record'.probes = record.probes /\ record'.kex = best.class
      BY <1>7, RecordSteps DEF ClassifyDone, Goto
    <2>2. BestOfFirst(Len(record.probes), record.kex)'
      BY <2>1, BestRecorded
    <2> QED
      BY <2>1, <2>2 DEF Probes
  <1>8. CASE FetchCertificate \/ TagHosting \/ Annotate
    <2>1. /\ pc \in {"certificate", "hosting", "notes"}
          /\ pc' \in {"hosting", "notes", "done"} /\ UNCHANGED <<last, best>>
          /\ record'.probes = record.probes /\ record'.kex = record.kex
      BY <1>8, RecordSteps DEF FetchCertificate, TagHosting, Annotate, Goto
    <2>2. BestOfFirst(Len(record.probes), record.kex)
      BY <2>1 DEF Classified
    <2>3. BestOfFirst(Len(record.probes), record.kex)'
      BY <2>1, <2>2, BestRecorded
    <2> QED
      BY <2>1, <2>3 DEF Probes
  <1>9. CASE Raise
    <2>1. /\ pc' = "done" /\ UNCHANGED <<last, best>> /\ record'.probes = <<>>
          /\ record'.notes \in {"internal_error", "traceback"}
      BY <1>9, RecordSteps DEF Raise, FreshRecord
    <2>2. Probes' = {}
      BY <2>1, EmptySequence DEF Probes
    <2> QED
      BY <2>1, <2>2 DEF Classified, Done
  <1>10. CASE UNCHANGED scanVars
    BY <1>10 DEF scanVars, Probes, BestOfFirst, Listed, Rank, Classified, Done
  <1> QED
    BY <1>1, <1>2, <1>3, <1>4, <1>5, <1>6, <1>7, <1>8, <1>9, <1>10 DEF Next

\* The recorded class is the best one in the record's own audit trail, and
\* "unknown" only when the trail shows no listed group (classify_key_exchange).
THEOREM BestClassRecorded == Spec => []BestOfProbes
  <1>1. ScanInv /\ FoldInv => BestOfProbes
    <2> SUFFICES ASSUME ScanInv, FoldInv, Classified
                 PROVE  /\ record.kex \in ListedClasses \cup {"unknown"}
                        /\ \A class \in ListedClasses : Rank(class) <= Rank(record.kex)
      BY DEF BestOfProbes
    <2>1. BestOfFirst(Len(record.probes), record.kex)
      BY DEF FoldInv
    <2>2. /\ record.kex # "unlisted" /\ record.probes \in Seq(Outcome)
          /\ \A i \in Probes : i <= Len(record.probes)
      BY DEF ScanInv, TypeOK, DomainReadiness, Classes, Probes
    <2>3. \A class : class \in ListedClasses <=>
             \E i \in Probes : /\ Listed(record.probes[i])
                               /\ GroupClass[record.probes[i].group] = class
      BY DEF ListedClasses, Listed
    <2> QED
      BY <2>1, <2>2, <2>3 DEF BestOfFirst
  <1> QED
    BY <1>1, ScanInvariance, FoldInit, FoldStep, PTL DEF Spec

-----------------------------------------------------------------------------
(* Retries.                                                                *)

\* Only a line of a disturbed connection is read as a TCP error.
LEMMA TransientFacts ==
    ASSUME NEW out, ~out.timed_out, ErrorCategory(out) \in TransientCategories
    PROVE  /\ {"connect:errno", "bio_lookup_ex"} \cap out.phrases # {}
           /\ "temporary failure in name resolution" \notin out.phrases
  <1> DEFINE hits == {i \in DOMAIN CategoryRules : CategoryRules[i][1] \cap out.phrases # {}}
             first == CHOOSE i \in hits : \A j \in hits : i <= j
  <1>1. DOMAIN CategoryRules = 1..6
    BY DEF CategoryRules
  <1>2. /\ CategoryRules[1][2] \notin TransientCategories
        /\ CategoryRules[2][2] \notin TransientCategories
        /\ CategoryRules[3][2] \notin TransientCategories
        /\ CategoryRules[4][2] \notin TransientCategories
        /\ CategoryRules[5][2] \notin TransientCategories
    BY DEF CategoryRules, TransientCategories
  <1>3. /\ CategoryRules[1][1] = {"temporary failure in name resolution",
                                  "name or service not known"}
        /\ CategoryRules[6][1] = {"connect:errno", "bio_lookup_ex"}
    BY DEF CategoryRules
  <1>4. ErrorCategory(out) = IF hits = {} THEN "handshake_failed" ELSE CategoryRules[first][2]
    BY DEF ErrorCategory
  <1>5. hits # {}
    BY <1>4 DEF TransientCategories
  <1>6. hits \subseteq 1..6
    BY <1>1
  <1>7. first \in hits /\ \A j \in hits : first <= j
    <2> HIDE DEF hits
    <2>1. \E i \in hits : \A j \in hits : i <= j
      <3>1. \A j \in hits : j \in {1, 2, 3, 4, 5, 6}
        BY <1>6
      <3> QED
        BY <1>5, <3>1
    <2> QED
      BY <2>1
  <1>8. CategoryRules[first][2] \in TransientCategories
    BY <1>4, <1>5
  <1>9. first = 6
    <2> HIDE DEF first, hits
    <2>1. first \in {1, 2, 3, 4, 5, 6}
      BY <1>6, <1>7
    <2> QED
      BY <1>2, <1>8, <2>1
  <1>10. 6 \in hits /\ 1 \notin hits
    <2> HIDE DEF first, hits
    <2> QED
      BY <1>7, <1>9
  <1>11. /\ CategoryRules[6][1] \cap out.phrases # {}
         /\ CategoryRules[1][1] \cap out.phrases = {}
    BY <1>1, <1>10
  <1> QED
    BY <1>3, <1>11

\* A probe fails with a transient category only when its connection was
\* disturbed.
LEMMA TransientMeansDisturbed ==
    ASSUME NEW out \in Outputs
    PROVE  /\ Probe(Captured(out)).reachable => Probe(Captured(out)).category = None
           /\ Probe(Captured(out)).category \in TransientCategories => Disturbed(out)
  <1> DEFINE outcome == Probe(Captured(out))
  <1>1. IF HandshakeSeen(Captured(out)) THEN outcome.reachable /\ outcome.category = None
        ELSE ~outcome.reachable /\ outcome.category = ErrorCategory(Captured(out))
    BY DEF Probe
  <1>2. None \notin TransientCategories
    BY DEF None, TransientCategories
  <1>3. CASE out.timed_out
    BY <1>1, <1>3 DEF Disturbed
  <1>4. CASE ~out.timed_out
    <2> SUFFICES ASSUME outcome.category \in TransientCategories
                 PROVE  Disturbed(out)
      BY <1>1
    <2>1. Captured(out) = out
      BY <1>4 DEF Captured
    <2>2. ~HandshakeSeen(out) /\ ErrorCategory(out) \in TransientCategories
      BY <1>1, <1>2, <2>1
    <2>3. /\ {"connect:errno", "bio_lookup_ex"} \cap out.phrases # {}
          /\ "temporary failure in name resolution" \notin out.phrases
      BY <1>4, <2>2, TransientFacts
    <2>4. \A phrases : Failing(phrases).phrases = phrases
      BY DEF Failing, Silence
    <2>5. [Silence EXCEPT !.timed_out = TRUE].timed_out
      BY DEF Silence
    <2>6. CASE out \in Refusals \cup Disturbances \cup {LookupFailure}
      <3> DEFINE dropped == {"connect:errno", "bio_lookup_ex"}
      <3>1. \A phrases : out = Failing(phrases) => phrases \cap dropped # {}
        BY <2>3, <2>4
      <3>2. /\ {"alert", "alert protocol version"} \cap dropped = {}
            /\ {"alert"} \cap dropped = {}
            /\ {"no suitable key share"} \cap dropped = {}
            /\ {"wrong version number"} \cap dropped = {}
            /\ {} \cap dropped = {}
        OBVIOUS
      <3> HIDE DEF dropped
      <3>3. out \notin Refusals
        BY <3>1, <3>2 DEF Refusals, Reset
      <3>4. out # LookupFailure
        BY <2>3, <2>4 DEF LookupFailure
      <3>5. out \notin Refusals \cup {LookupFailure}
        BY <3>3, <3>4
      <3>6. out = Failing({"connect:errno"})
        BY <1>4, <2>5, <2>6, <3>5 DEF Disturbances
      <3> QED
        BY <2>4, <3>6 DEF Disturbed
    <2>7. CASE \E g \in Groups : out \in Completed(g) \cup Late(g)
      <3>1. out.established
        BY <2>7 DEF Completed, Late, Silence
      <3> QED
        BY <2>2, <3>1 DEF HandshakeSeen
    <2> QED
      BY <2>6, <2>7 DEF Outputs
  <1> QED
    BY <1>3, <1>4

Exhausted == {i \in Probes : record.probes[i].category \in TransientCategories}

\* Every transient failure on record was paid for with all attempts, and the
\* one in hand with the attempts made so far.
RetryInv ==
    /\ last.reachable => last.category \notin TransientCategories
    /\ attempt = 0 => last.category \notin TransientCategories
    /\ blips >= Attempts * Cardinality(Exhausted)
    /\ last.category \in TransientCategories =>
          blips >= Attempts * Cardinality(Exhausted) + attempt

\* The number of attempts and the failures on record can be counted.
LEMMA RetryTypes ==
    ASSUME ScanInv
    PROVE  /\ Attempts \in Nat \ {0} /\ attempt \in Nat /\ blips \in Nat
           /\ IsFiniteSet(Exhausted) /\ Cardinality(Exhausted) \in Nat
           /\ record.probes \in Seq(Outcome) /\ Len(record.probes) \in Nat
           /\ Probes = 1..Len(record.probes)
  <1>1. /\ attempt \in Nat /\ blips \in Nat /\ record.probes \in Seq(Outcome)
    BY DEF ScanInv, TypeOK, DomainReadiness
  <1>2. Attempts \in Nat \ {0}
    BY ScanAssumption DEF Attempts
  <1>3. Len(record.probes) \in Nat /\ Probes = 1..Len(record.probes)
    BY <1>1 DEF Probes
  <1>4. IsFiniteSet(1..Len(record.probes))
    BY <1>3, FS_Interval
  <1>5. Exhausted \in SUBSET (1..Len(record.probes))
    BY <1>3 DEF Exhausted
  <1>6. IsFiniteSet(Exhausted)
    BY <1>4, <1>5, FS_Subset
  <1> QED
    BY <1>1, <1>2, <1>3, <1>6, FS_CardinalityType

\* A scan starts without a failure.
LEMMA RetryInit == Init => RetryInv
  <1> SUFFICES ASSUME Init PROVE RetryInv
    OBVIOUS
  <1>1. /\ last.reachable = FALSE /\ last.category = None
        /\ record.probes = <<>> /\ blips = 0 /\ attempt = 0
    BY DEF Init, NoOutcome, FreshRecord
  <1>2. Exhausted = {}
    BY <1>1, EmptySequence DEF Exhausted, Probes
  <1>3. Cardinality(Exhausted) = 0
    BY <1>2, FS_EmptySet
  <1>4. Attempts \in Nat
    BY ScanAssumption DEF Attempts
  <1>5. None \notin TransientCategories
    BY DEF None, TransientCategories
  <1> QED
    BY <1>1, <1>3, <1>4, <1>5 DEF RetryInv

\* Another profile's outcome on record is one more failure at most.
LEMMA NextProfileExhausts ==
    ASSUME ScanInv, record'.probes = Append(record.probes, last)
    PROVE  Cardinality(Exhausted') =
             IF last.category \in TransientCategories
             THEN Cardinality(Exhausted) + 1 ELSE Cardinality(Exhausted)
  <1> DEFINE longer == Append(record.probes, last)
             n == Len(record.probes)
  <1>1. /\ DOMAIN longer = 1..(n + 1) /\ longer[n + 1] = last
        /\ \A i \in 1..n : longer[i] = record.probes[i]
        /\ n \in Nat /\ Probes = 1..n
    BY RetryTypes
  <1>2. Exhausted' = {i \in DOMAIN longer : longer[i].category \in TransientCategories}
    BY DEF Exhausted, Probes, TransientCategories
  <1>3. Exhausted = {i \in 1..n : record.probes[i].category \in TransientCategories}
    BY <1>1 DEF Exhausted
  <1> HIDE DEF longer, n
  <1>4. n + 1 \notin Exhausted
    BY <1>1, <1>3
  <1>5. \A i : i \in 1..(n + 1) <=> i \in 1..n \/ i = n + 1
    BY <1>1
  <1>6. CASE last.category \in TransientCategories
    <2>1. Exhausted' = Exhausted \cup {n + 1}
      BY <1>1, <1>2, <1>3, <1>5, <1>6
    <2> QED
      BY <1>4, <1>6, <2>1, RetryTypes, FS_AddElement
  <1>7. CASE last.category \notin TransientCategories
    <2>1. Exhausted' = Exhausted
      BY <1>1, <1>2, <1>3, <1>5, <1>7
    <2> QED
      BY <1>7, <2>1
  <1> QED
    BY <1>6, <1>7

\* No step puts a failure on record before its attempts are used up.
LEMMA RetryStep ==
    ScanInv /\ RetryInv /\ [Next]_scanVars => RetryInv'
  <1> SUFFICES ASSUME ScanInv, RetryInv, [Next]_scanVars
               PROVE  RetryInv'
    OBVIOUS
  <1> DEFINE count == Cardinality(Exhausted)
  <1>1. /\ Attempts \in Nat \ {0} /\ attempt \in Nat /\ blips \in Nat /\ count \in Nat
    BY RetryTypes
  <1>2. Attempts' = Attempts
    <2>1. UNCHANGED tool
      BY DEF Next, Resolve, ProbeOnce, NextProfile, ListProbes, DecideReachable, ClassifyNext,
             ClassifyDone, FetchCertificate, TagHosting, Annotate, Raise, scanVars, context
    <2> QED
      BY <2>1 DEF Attempts
  <1>3. ASSUME record'.probes = record.probes, UNCHANGED <<last, attempt, blips>>
        PROVE  RetryInv'
    <2>1. Exhausted' = Exhausted
      BY <1>3 DEF Exhausted, Probes, TransientCategories
    <2> QED
      BY <1>2, <1>3, <2>1 DEF RetryInv, TransientCategories
  <1>4. ASSUME NEW out \in Outputs, ProbeOnce(out)
        PROVE  RetryInv'
    <2>1. /\ last' = Probe(Captured(out)) /\ attempt' = attempt + 1 /\ UNCHANGED record
          /\ blips' = IF Disturbed(out) THEN blips + 1 ELSE blips
      BY <1>4 DEF ProbeOnce
    <2>2. Exhausted' = Exhausted
      BY <2>1 DEF Exhausted, Probes, TransientCategories
    <2>3. blips >= Attempts * count + attempt
      BY <1>1, <1>4 DEF ProbeOnce, MayProbe, RetryInv
    <2>4. /\ last'.reachable => last'.category = None
          /\ last'.category \in TransientCategories => Disturbed(out)
      BY <2>1, TransientMeansDisturbed
    <2>5. /\ last'.reachable => last'.category \notin TransientCategories
          /\ attempt' # 0
      BY <1>1, <2>1, <2>4 DEF None, TransientCategories
    <2>6. Attempts * count \in Nat
      BY <1>1
    <2>7. /\ blips' >= Attempts * count
          /\ last'.category \in TransientCategories => blips' >= Attempts * count + attempt'
      BY <1>1, <2>1, <2>3, <2>4, <2>6
    <2> QED
      BY <1>2, <2>2, <2>5, <2>7 DEF RetryInv, TransientCategories
  <1>5. CASE NextProfile
    <2>1. /\ record'.probes = Append(record.probes, last) /\ UNCHANGED blips
          /\ last'.reachable = FALSE /\ last'.category = None /\ ~MayProbe
      BY <1>5, RecordSteps DEF NextProfile, NoOutcome
    <2>2. Cardinality(Exhausted') = IF last.category \in TransientCategories
                                    THEN count + 1 ELSE count
      BY <2>1, NextProfileExhausts
    <2>3. last.category \in TransientCategories => attempt >= Attempts
      BY <1>1, <2>1 DEF MayProbe, RetryInv
    <2>4. Attempts * (count + 1) = Attempts * count + Attempts
      BY <1>1
    <2>5. Attempts * count \in Nat
      BY <1>1
    <2>6. blips >= Attempts * Cardinality(Exhausted')
      <3>1. CASE last.category \in TransientCategories
        <4>1. blips >= Attempts * count + attempt /\ attempt >= Attempts
          BY <2>3, <3>1 DEF RetryInv
        <4> QED
          BY <1>1, <2>2, <2>4, <2>5, <3>1, <4>1
      <3>2. CASE last.category \notin TransientCategories
        BY <2>2, <3>2 DEF RetryInv
      <3> QED
        BY <3>1, <3>2
    <2>7. last'.category \notin TransientCategories
      BY <2>1 DEF None, TransientCategories
    <2> QED
      BY <1>2, <2>1, <2>6, <2>7 DEF RetryInv, TransientCategories
  <1>6. CASE Resolve \/ DecideReachable \/ ClassifyDone \/ FetchCertificate
                \/ TagHosting \/ Annotate
    <2>1. record'.probes = record.probes
      BY <1>6, RecordSteps
    <2>2. UNCHANGED <<last, attempt, blips>>
      BY <1>6 DEF Resolve, DecideReachable, ClassifyDone, FetchCertificate, TagHosting, Annotate
    <2> QED
      BY <1>3, <2>1, <2>2
  <1>7. CASE ListProbes \/ ClassifyNext \/ UNCHANGED scanVars
    BY <1>3, <1>7 DEF ListProbes, ClassifyNext, scanVars
  <1>8. CASE Raise
    <2>1. record'.probes = <<>> /\ UNCHANGED <<last, attempt, blips>>
      BY <1>8 DEF Raise, FreshRecord
    <2>2. Exhausted' = {}
      BY <2>1, EmptySequence DEF Exhausted, Probes
    <2>3. Cardinality(Exhausted') = 0
      BY <2>2, FS_EmptySet
    <2>4. Attempts * count \in Nat /\ Attempts * 0 = 0
      BY <1>1
    <2>5. last.category \in TransientCategories => blips >= attempt
      BY <1>1, <2>4 DEF RetryInv
    <2> QED
      BY <1>1, <1>2, <2>1, <2>3, <2>4, <2>5 DEF RetryInv, TransientCategories
  <1> QED
    BY <1>4, <1>5, <1>6, <1>7, <1>8 DEF Next

\* A transient failure is recorded only after every attempt was disturbed
\* (_probe_with_retry).
THEOREM RetriesExhausted == Spec => []TransientIsExhausted
  <1>1. RetryInv => TransientIsExhausted
    BY DEF RetryInv, TransientIsExhausted, Exhausted
  <1> QED
    BY <1>1, ScanInvariance, RetryInit, RetryStep, PTL DEF Spec

-----------------------------------------------------------------------------
(* A momentary fault.                                                      *)

\* What the disturbances of a connection are read as (_error_category).
LEMMA DisturbanceCategories ==
    /\ ErrorCategory(Captured(Failing({"connect:errno"}))) = "tcp_error"
    /\ ErrorCategory(Captured(LookupFailure)) = "dns_failed"
    /\ ErrorCategory(Captured(Reset)) = "handshake_failed"
    /\ \A out : out.timed_out => ErrorCategory(Captured(out)) = "tcp_timeout"
  <1> DEFINE Hits(out) == {i \in DOMAIN CategoryRules : CategoryRules[i][1] \cap out.phrases # {}}
             First(out) == CHOOSE i \in Hits(out) : \A j \in Hits(out) : i <= j
  <1>1. /\ DOMAIN CategoryRules = 1..6
        /\ CategoryRules[1][1] = {"temporary failure in name resolution",
                                  "name or service not known"}
        /\ CategoryRules[1][2] = "dns_failed"
        /\ CategoryRules[2][1] = {"no suitable key share", "bad key share"}
        /\ CategoryRules[3][1] = {"alert protocol version"}
        /\ CategoryRules[4][1] = {"alert"}
        /\ CategoryRules[5][1] = {"wrong version number", "unsupported protocol"}
        /\ CategoryRules[6][1] = {"connect:errno", "bio_lookup_ex"}
        /\ CategoryRules[6][2] = "tcp_error"
    BY DEF CategoryRules
  <1>2. \A phrases : /\ Failing(phrases).phrases = phrases
                     /\ Failing(phrases).timed_out = FALSE
                     /\ Captured(Failing(phrases)) = Failing(phrases)
    BY DEF Failing, Silence, Captured
  <1>3. \A out : ~out.timed_out /\ Hits(out) # {} =>
                   ErrorCategory(out) = CategoryRules[First(out)][2]
    BY DEF ErrorCategory
  <1>4. ErrorCategory(Failing({"connect:errno"})) = "tcp_error"
    <2> DEFINE out == Failing({"connect:errno"})
    <2>1. \A i \in 1..6 : CategoryRules[i][1] \cap {"connect:errno"} # {} <=> i = 6
      <3>1. /\ CategoryRules[1][1] \cap {"connect:errno"} = {}
            /\ CategoryRules[2][1] \cap {"connect:errno"} = {}
            /\ CategoryRules[3][1] \cap {"connect:errno"} = {}
            /\ CategoryRules[4][1] \cap {"connect:errno"} = {}
            /\ CategoryRules[5][1] \cap {"connect:errno"} = {}
            /\ CategoryRules[6][1] \cap {"connect:errno"} # {}
        BY <1>1
      <3>2. \A i \in 1..6 : i \in {1, 2, 3, 4, 5, 6}
        OBVIOUS
      <3> QED
        BY <3>1, <3>2
    <2>2. Hits(out) = {6}
      <3>1. out.phrases = {"connect:errno"}
        BY <1>2
      <3>2. DOMAIN CategoryRules = 1..6
        BY <1>1
      <3>3. \A i \in 1..6 : CategoryRules[i][1] \cap out.phrases # {} <=> i = 6
        BY <2>1, <3>1
      <3> HIDE DEF out
      <3> QED
        BY <3>2, <3>3
    <2>3. First(out) = 6
      BY <2>2
    <2> HIDE DEF First, Hits, out
    <2>4. ~out.timed_out
      BY <1>2 DEF out
    <2>5. ErrorCategory(out) = CategoryRules[6][2]
      BY <1>3, <2>2, <2>3, <2>4
    <2>6. ErrorCategory(out) = "tcp_error"
      BY <1>1, <2>5
    <2> QED
      BY <2>6 DEF out
  <1>5. ErrorCategory(LookupFailure) = "dns_failed"
    <2>1. 1 \in Hits(LookupFailure)
      <3>1. LookupFailure.phrases = {"bio_lookup_ex", "temporary failure in name resolution"}
        BY <1>2 DEF LookupFailure
      <3>2. 1 \in 1..6
        OBVIOUS
      <3> QED
        BY <1>1, <3>1, <3>2
    <2>2. Hits(LookupFailure) \subseteq 1..6
      BY <1>1
    <2>3. First(LookupFailure) = 1
      <3> HIDE DEF Hits
      <3>1. \A j \in Hits(LookupFailure) : 1 <= j
        BY <2>2
      <3>2. \A i \in Hits(LookupFailure) :
               (\A j \in Hits(LookupFailure) : i <= j) => i = 1
        BY <2>1, <2>2
      <3> QED
        BY <2>1, <3>1, <3>2
    <2> HIDE DEF First, Hits
    <2>4. ~LookupFailure.timed_out
      BY <1>2 DEF LookupFailure
    <2>5. ErrorCategory(LookupFailure) = CategoryRules[1][2]
      BY <1>3, <2>1, <2>3, <2>4
    <2>6. CategoryRules[1][2] = "dns_failed"
      BY <1>1
    <2> QED
      BY <2>5, <2>6
  <1>6. ASSUME NEW out, out.timed_out
        PROVE  ErrorCategory(Captured(out)) = "tcp_timeout"
    BY <1>6 DEF Captured, ErrorCategory, Silence
  <1>7. ErrorCategory(Reset) = "handshake_failed"
    <2>1. Hits(Reset) = {} /\ ~Reset.timed_out
      BY <1>2 DEF Reset
    <2> QED
      BY <2>1 DEF ErrorCategory
  <1> QED
    BY <1>2, <1>4, <1>5, <1>6, <1>7 DEF LookupFailure, Reset

\* Every backend accepts every profile.
Accepting == \A b \in site.backends, i \in DOMAIN Offers : b.groups \cap Offers[i] # {}

\* An outcome that does not speak against the endpoint.
Excused(outcome) ==
    \/ outcome.reachable
    \/ outcome.category \in TransientCategories \cup {"dns_failed", "handshake_failed"}

\* An accepting endpoint fails only by a disturbance, a reset or a lookup.
AcceptInv ==
    Accepting => /\ attempt > 0 => Excused(last)
                 /\ \A i \in Probes : Excused(record.probes[i])

\* One connection to an accepting endpoint.
LEMMA AcceptedProbe ==
    ASSUME ScanInv, Accepting, ~ProfilesDone, NEW out \in Outputs,
           Answer(out) \/ out \in Disturbances \cup {LookupFailure, Reset}
    PROVE  Excused(Probe(Captured(out)))
  <1> DEFINE outcome == Probe(Captured(out))
  <1>1. \/ outcome.reachable
        \/ outcome.category = ErrorCategory(Captured(out))
    BY DEF Probe
  <1>2. CASE Answer(out)
    <2>1. Len(record.probes) + 1 \in DOMAIN Offers
      BY ScanAssumption, RetryTypes DEF ProfilesDone, ScanInv
    <2>2. PICK b \in site.backends :
             \E g \in b.groups \cap Offers[Len(record.probes) + 1] :
                 out \in Completed(g) \cup Late(g)
      BY <1>2, <2>1 DEF Answer, Accepting
    <2>3. PICK g \in b.groups : out \in Completed(g) \cup Late(g)
      BY <2>2
    <2>4. CASE out \in Completed(g)
      <3>1. out.established /\ ~out.timed_out
        BY <2>4 DEF Completed, Silence
      <3> QED
        BY <3>1, ReachableFact DEF Excused
    <2>5. CASE out \in Late(g)
      <3>1. out.timed_out
        BY <2>5 DEF Late, Completed, Silence
      <3> QED
        BY <1>1, <3>1, DisturbanceCategories DEF Excused, TransientCategories
    <2> QED
      BY <2>3, <2>4, <2>5
  <1>3. CASE out \in Disturbances
    <2>1. [Silence EXCEPT !.timed_out = TRUE].timed_out
      BY DEF Silence
    <2> QED
      BY <1>1, <1>3, <2>1, DisturbanceCategories DEF Disturbances, Excused, TransientCategories
  <1>4. CASE out = LookupFailure
    BY <1>1, <1>4, DisturbanceCategories DEF Excused
  <1>5. CASE out = Reset
    BY <1>1, <1>5, DisturbanceCategories DEF Excused
  <1> QED
    BY <1>2, <1>3, <1>4, <1>5

\* Before its first action a scan has recorded nothing.
LEMMA AcceptInit == Init => AcceptInv
  <1> SUFFICES ASSUME Init PROVE AcceptInv
    OBVIOUS
  <1>1. attempt = 0 /\ record.probes = <<>>
    BY DEF Init, FreshRecord
  <1>2. Probes = {}
    BY <1>1, EmptySequence DEF Probes
  <1> QED
    BY <1>1, <1>2 DEF AcceptInv

\* No step of a scan lets an accepting endpoint that failed by the clock once end
\* as anything but reached.
LEMMA AcceptStep ==
    ScanInv /\ AcceptInv /\ [Next]_scanVars => AcceptInv'
  <1> SUFFICES ASSUME ScanInv, AcceptInv, [Next]_scanVars
               PROVE  AcceptInv'
    OBVIOUS
  <1>0. UNCHANGED site
    BY DEF Next, Resolve, ProbeOnce, NextProfile, ListProbes, DecideReachable, ClassifyNext,
           ClassifyDone, FetchCertificate, TagHosting, Annotate, Raise, scanVars, context
  <1> SUFFICES ASSUME Accepting
               PROVE  /\ attempt' > 0 => Excused(last')
                      /\ \A i \in Probes' : Excused(record'.probes[i])
    BY <1>0 DEF AcceptInv, Accepting, Excused, TransientCategories
  <1>1. /\ attempt > 0 => Excused(last)
        /\ \A i \in Probes : Excused(record.probes[i])
    BY DEF AcceptInv
  <1>2. ASSUME NEW out \in Outputs, ProbeOnce(out)
        PROVE  /\ Excused(last')
               /\ \A i \in Probes' : Excused(record'.probes[i])
    <2>1. last' = Probe(Captured(out)) /\ UNCHANGED record
      BY <1>2 DEF ProbeOnce
    <2>2. Excused(Probe(Captured(out)))
      BY <1>2, AcceptedProbe DEF ProbeOnce
    <2> QED
      BY <1>1, <2>1, <2>2 DEF Probes
  <1>3. CASE NextProfile
    <2>1. record'.probes = Append(record.probes, last) /\ attempt' = 0 /\ ~MayProbe
      BY <1>3, RecordSteps DEF NextProfile
    <2>2. Excused(last)
      BY <1>1, <2>1, RetryTypes DEF MayProbe
    <2>3. /\ DOMAIN Append(record.probes, last) = 1..(Len(record.probes) + 1)
          /\ \A i \in 1..(Len(record.probes) + 1) :
                Append(record.probes, last)[i] =
                    IF i \in Probes THEN record.probes[i] ELSE last
      BY RetryTypes
    <2> QED
      BY <1>1, <2>1, <2>2, <2>3 DEF Probes
  <1>4. CASE Raise
    <2>1. record'.probes = <<>> /\ UNCHANGED <<last, attempt>>
      BY <1>4 DEF Raise, FreshRecord
    <2>2. Probes' = {}
      BY <2>1, EmptySequence DEF Probes
    <2> QED
      BY <1>1, <2>1, <2>2
  <1>5. ASSUME record'.probes = record.probes, UNCHANGED <<last, attempt>>
        PROVE  /\ attempt' > 0 => Excused(last')
               /\ \A i \in Probes' : Excused(record'.probes[i])
    BY <1>1, <1>5 DEF Probes
  <1>6. CASE Resolve \/ DecideReachable \/ ClassifyDone \/ FetchCertificate
                \/ TagHosting \/ Annotate
    <2>1. record'.probes = record.probes
      BY <1>6, RecordSteps
    <2>2. UNCHANGED <<last, attempt>>
      BY <1>6 DEF Resolve, DecideReachable, ClassifyDone, FetchCertificate, TagHosting, Annotate
    <2> QED
      BY <1>5, <2>1, <2>2
  <1>7. CASE ListProbes \/ ClassifyNext \/ UNCHANGED scanVars
    BY <1>5, <1>7 DEF ListProbes, ClassifyNext, scanVars
  <1> QED
    BY <1>2, <1>3, <1>4, <1>6, <1>7 DEF Next

\* Fewer disturbances than attempts never make an accepting endpoint
\* unreachable (_probe_with_retry).
THEOREM MomentaryForgiven == Spec => []MomentaryTimeoutForgiven
  <1>1. ScanInv /\ RetryInv /\ AcceptInv => MomentaryTimeoutForgiven
    <2> SUFFICES ASSUME ScanInv, RetryInv, AcceptInv, Accepting, blips < Attempts,
                        NEW i \in Probes, record.probes[i].category \in TransientCategories
                 PROVE  FALSE
      BY DEF MomentaryTimeoutForgiven, AcceptInv, Accepting, Excused
    <2> DEFINE count == Cardinality(Exhausted)
    <2>1. /\ Attempts \in Nat \ {0} /\ blips \in Nat
          /\ IsFiniteSet(Exhausted) /\ count \in Nat
      BY RetryTypes
    <2>2. count # 0
      BY <2>1, FS_EmptySet DEF Exhausted
    <2>3. blips >= Attempts * count
      BY DEF RetryInv
    <2> HIDE DEF count
    <2>4. Attempts * count >= Attempts
      BY <2>1, <2>2
    <2>5. Attempts * count \in Nat
      BY <2>1
    <2> QED
      BY <2>1, <2>3, <2>4, <2>5
  <1> QED
    BY <1>1, ScanInvariance, RetryInit, RetryStep, AcceptInit, AcceptStep, PTL DEF Spec

-----------------------------------------------------------------------------
(* The hosting tag names a network of the host, and with an ASN database   *)
(* no host is recorded as origin whose IPv4 addresses are all a CDN's.     *)

\* The addresses of the host.
Addrs == {b.addr : b \in site.backends}

\* A tag as enrich_hosting and HostingTagIsTrue see it.
TagTrue(cdn) ==
    /\ cdn # None => cdn \in {ByAsn[addr.asn] : addr \in Addrs} \cup {site.alias}
    /\ cdn = None /\ resolver = "pyasn" /\ (\E addr \in Addrs : addr.ipv4)
          => \E addr \in Addrs : addr.ipv4 /\ ByAsn[addr.asn] = None

\* The address in hand is a preferred one from the lookup to the tag, only a
\* run tags hosts, and a record that is not reachable has nothing to answer for.
TagInv ==
    /\ pc \in {"dns", "probe"} => ~record.reachable
    /\ tool = "pqscan" => ~record.reachable /\ pc \notin {"hosting", "notes"}
    /\ tool = "run" /\ pc \in {"probe", "classify", "certificate", "hosting"} =>
          ip \in Preferred(Addrs)
    /\ pc \in {"notes", "done"} /\ record.reachable => TagTrue(record.cdn)

\* The tag of a preferred address is true, whether dig answers or not.
LEMMA PreferredTag ==
    ASSUME site \in Sites, resolver \in {"pyasn", "null"},
           ip \in Preferred(Addrs), NEW alias \in {site.alias, None}
    PROVE  TagTrue(EnrichHosting(Asn(resolver, ip), alias).cdn)
  <1> DEFINE asn == Asn(resolver, ip)
             cdn == EnrichHosting(asn, alias).cdn
  <1>1. /\ ip \in Addrs
        /\ (\E addr \in Addrs : addr.ipv4) => ip.ipv4
    BY DEF Preferred
  <1>2. ByAsn[None] = None
    BY HostingAssumption
  <1>3. asn = None \/ (asn = ip.asn /\ resolver = "pyasn" /\ ip.ipv4)
    BY DEF Asn
  <1>4. cdn = IF ByAsn[asn] # None THEN ByAsn[asn] ELSE alias
    BY DEF EnrichHosting
  <1>5. resolver = "pyasn" /\ ip.ipv4 => asn = ip.asn
    BY DEF Asn
  <1> HIDE DEF asn, cdn
  <1>6. ASSUME cdn # None
        PROVE  cdn \in {ByAsn[addr.asn] : addr \in Addrs} \cup {site.alias}
    BY <1>1, <1>2, <1>3, <1>4, <1>6
  <1>7. ASSUME cdn = None, resolver = "pyasn", \E addr \in Addrs : addr.ipv4
        PROVE  \E addr \in Addrs : addr.ipv4 /\ ByAsn[addr.asn] = None
    <2>1. ByAsn[ip.asn] = None
      BY <1>1, <1>4, <1>5, <1>7
    <2> QED
      BY <1>1, <1>7, <2>1
  <1> QED
    BY <1>6, <1>7 DEF TagTrue, cdn, asn

\* A scan starts with a record that is not reachable.
LEMMA TagInit == Init => TagInv
  <1> SUFFICES ASSUME Init PROVE TagInv
    OBVIOUS
  <1>1. /\ record.reachable = FALSE
        /\ (tool = "run" /\ pc = "dns") \/ (tool = "pqscan" /\ pc = "probe")
    BY DEF Init, FreshRecord
  <1> QED
    BY <1>1 DEF TagInv

\* What the steps leave alone, and what they do to the tag.
LEMMA TagSteps ==
    ASSUME ScanInv
    PROVE  /\ TagHosting => \E alias \in {site.alias, None} :
                 record'.cdn = EnrichHosting(Asn(resolver, ip), alias).cdn
           /\ Annotate => record'.cdn = record.cdn
           /\ Raise => ~record'.reachable
  <1>1. record \in DomainReadiness
    BY DEF ScanInv, TypeOK
  <1>2. ASSUME TagHosting
        PROVE  \E alias \in {site.alias, None} :
                 record'.cdn = EnrichHosting(Asn(resolver, ip), alias).cdn
    <2>1. PICK alias \in {site.alias, None} :
             record' = [record EXCEPT
               !.cdn = EnrichHosting(Asn(resolver, ip), alias).cdn,
               !.via = EnrichHosting(Asn(resolver, ip), alias).via]
      BY <1>2 DEF TagHosting
    <2>2. record'.cdn = EnrichHosting(Asn(resolver, ip), alias).cdn
      BY <1>1, <2>1 DEF DomainReadiness
    <2> QED
      BY <2>2
  <1>3. ASSUME Annotate
        PROVE  record'.cdn = record.cdn
    <2>1. record' = record \/ record' = [record EXCEPT !.notes = "kex_pq_auth_classical"]
      BY <1>3 DEF Annotate
    <2> QED
      BY <1>1, <2>1 DEF DomainReadiness
  <1>4. Raise => ~record'.reachable
    BY DEF Raise, FreshRecord
  <1> QED
    BY <1>2, <1>3, <1>4

\* No step loses the preferred address or falsifies a tag.
LEMMA TagStep == ScanInv /\ TagInv /\ [Next]_scanVars => TagInv'
  <1> SUFFICES ASSUME ScanInv, TagInv, [Next]_scanVars
               PROVE  TagInv'
    OBVIOUS
  <1> USE DEF TagInv, context
  <1>0. /\ UNCHANGED <<tool, site, resolver>>
        /\ site \in Sites /\ resolver \in {"pyasn", "null"} /\ tool \in {"run", "pqscan"}
    <2>1. UNCHANGED context
      BY DEF Next, Resolve, ProbeOnce, NextProfile, ListProbes, DecideReachable,
             ClassifyNext, ClassifyDone, FetchCertificate, TagHosting, Annotate, Raise, scanVars
    <2> QED
      BY <2>1 DEF ScanInv, TypeOK
  <1>1. CASE Resolve
    <2>1. /\ pc = "dns" /\ ~record.reachable /\ pc' \in {"probe", "done"}
          /\ pc' = "probe" => ip' \in Preferred(Addrs)
      BY <1>1 DEF Resolve, Goto, Addrs
    <2>2. record'.reachable = record.reachable
      BY <1>1, RecordSteps
    <2> QED
      BY <1>0, <2>1, <2>2 DEF Addrs, Preferred
  <1>2. CASE (\E out \in Outputs : ProbeOnce(out)) \/ NextProfile
    <2>1. pc = "probe" /\ UNCHANGED <<pc, ip>> /\ record'.reachable = record.reachable
      BY <1>2, RecordSteps DEF ProbeOnce, NextProfile
    <2> QED
      BY <1>0, <2>1 DEF Addrs, Preferred
  <1>3. CASE ListProbes
    <2>1. /\ tool = "pqscan" /\ pc = "probe" /\ pc' = "classify" /\ UNCHANGED record
      BY <1>3 DEF ListProbes, Goto
    <2> QED
      BY <1>0, <2>1
  <1>4. CASE DecideReachable
    <2>1. /\ tool = "run" /\ pc = "probe" /\ pc' \in {"classify", "done"} /\ UNCHANGED ip
          /\ ~record.reachable
      BY <1>4 DEF DecideReachable
    <2>2. pc' = "done" => ~record'.reachable
      BY <1>4, <2>1, RecordSteps
    <2> QED
      BY <1>0, <2>1, <2>2 DEF Addrs, Preferred
  <1>5. CASE ClassifyNext \/ ClassifyDone
    <2>1. /\ pc = "classify" /\ pc' \in {"classify", "certificate"} /\ UNCHANGED ip
          /\ record'.reachable = record.reachable
      BY <1>5, RecordSteps DEF ClassifyNext, ClassifyDone, Goto
    <2> QED
      BY <1>0, <2>1 DEF Addrs, Preferred
  <1>6. CASE FetchCertificate
    <2>1. /\ pc = "certificate" /\ UNCHANGED ip /\ record'.reachable = record.reachable
          /\ pc' = IF tool = "run" THEN "hosting" ELSE "done"
      BY <1>6, RecordSteps DEF FetchCertificate, Goto
    <2> QED
      BY <1>0, <2>1 DEF Addrs, Preferred
  <1>7. CASE TagHosting
    <2>1. pc = "hosting" /\ pc' = "notes" /\ tool = "run" /\ ip \in Preferred(Addrs)
      BY <1>0, <1>7 DEF TagHosting, Goto
    <2>2. PICK alias \in {site.alias, None} :
             record'.cdn = EnrichHosting(Asn(resolver, ip), alias).cdn
      BY <1>7, TagSteps
    <2>3. TagTrue(record'.cdn)
      BY <1>0, <2>1, <2>2, PreferredTag
    <2>4. TagTrue(record.cdn)'
      BY <1>0, <2>3 DEF TagTrue, Addrs
    <2> QED
      BY <1>0, <2>1, <2>4
  <1>8. CASE Annotate
    <2>1. /\ pc = "notes" /\ pc' = "done" /\ tool = "run"
          /\ record'.reachable = record.reachable /\ record'.cdn = record.cdn
      BY <1>0, <1>8, RecordSteps, TagSteps DEF Annotate, Goto
    <2> QED
      BY <1>0, <2>1 DEF TagTrue, Addrs
  <1>9. CASE Raise
    <2>1. pc' = "done" /\ ~record'.reachable
      BY <1>9, TagSteps DEF Raise
    <2> QED
      BY <1>0, <2>1
  <1>10. CASE UNCHANGED scanVars
    BY <1>10 DEF scanVars, TagTrue, Addrs, Preferred
  <1> QED
    BY <1>1, <1>2, <1>3, <1>4, <1>5, <1>6, <1>7, <1>8, <1>9, <1>10 DEF Next

\* A CDN tag names a network of the host, and origin is earned (resolve,
\* build_resolver, enrich_hosting).
THEOREM HostingTrue == Spec => []HostingTagIsTrue
  <1>1. TagInv => HostingTagIsTrue
    BY DEF TagInv, HostingTagIsTrue, TagTrue, Addrs, Done
  <1> QED
    BY <1>1, ScanInvariance, TagInit, TagStep, PTL DEF Spec

-----------------------------------------------------------------------------
(* Why a scan ends.                                                        *)

\* The numbers the loops count with, and what no step changes of them.
LEMMA LoopTypes ==
    ASSUME ScanInv
    PROVE  /\ Len(Offers) \in Nat /\ Attempts \in Nat \ {0} /\ attempt \in Nat
           /\ record.probes \in Seq(Outcome) /\ Len(record.probes) \in Nat
           /\ best.seen \in Nat
           /\ StagesLeft \in 0..6 /\ (~Done => StagesLeft > 0)
  <1>1. Len(Offers) \in Nat
    BY ScanAssumption DEF Profiles
  <1>2. best.seen \in Nat
    BY DEF ScanInv, TypeOK, Best
  <1>3. pc \in {"dns", "probe", "classify", "certificate", "hosting", "notes", "done"}
    BY DEF ScanInv, TypeOK
  <1>4. StagesLeft \in 0..6 /\ (~Done => StagesLeft > 0)
    BY <1>3 DEF StagesLeft, Done
  <1> QED
    BY <1>1, <1>2, <1>4, RetryTypes

\* A scan starts with empty loops.
LEMMA BoundsInit == Init => LoopBounds
  <1> SUFFICES ASSUME Init PROVE LoopBounds
    OBVIOUS
  <1>1. Len(record.probes) = 0 /\ attempt = 0 /\ best.seen = 0
    BY EmptySequence DEF Init, FreshRecord
  <1>2. Len(Offers) \in Nat /\ Attempts \in Nat
    BY ScanAssumption DEF Profiles, Attempts
  <1> QED
    BY <1>1, <1>2 DEF LoopBounds

\* What the profiles left, each with its attempts, cost: one profile less is all
\* its attempts less.
LEMMA OneProfileLess ==
    ASSUME NEW p \in Nat, NEW n \in Nat, NEW a \in Nat, n < p
    PROVE  /\ (p - n) * (1 + a) \in Nat
           /\ (p - n) * (1 + a) >= 1 + a
           /\ (p - (n + 1)) * (1 + a) = (p - n) * (1 + a) - (1 + a)
  <1>1. PICK k \in Nat : p - n = k + 1 /\ p - (n + 1) = k
    <2>1. p - n - 1 \in Nat /\ p - n = (p - n - 1) + 1 /\ p - (n + 1) = p - n - 1
      OBVIOUS
    <2> QED
      BY <2>1
  <1>2. (k + 1) * (1 + a) = k * (1 + a) + (1 + a) /\ k * (1 + a) \in Nat
    OBVIOUS
  <1>3. k * (1 + a) = (k + 1) * (1 + a) - (1 + a)
        /\ (k + 1) * (1 + a) \in Nat /\ (k + 1) * (1 + a) >= 1 + a
    BY <1>2
  <1> QED
    BY ONLY <1>1, <1>3, Zenon

\* ScanLeft by its numbers: p profiles with most attempts each, of which n and a
\* are made, b rounds of the classification loop, and the stages s.
Left(p, most, n, a, b, s) == (p - n) * (1 + most) - a + (p - b) + s

\* An attempt, the end of a profile, a round of the classification loop and a
\* stage each leave less; while a stage is left, so is something.
LEMMA RoundsLeft ==
    ASSUME NEW p \in Nat, NEW most \in Nat \ {0},
           NEW n \in Nat, NEW a \in Nat, NEW b \in Nat, NEW s \in Nat,
           n <= p, a <= most, n = p => a = 0, b <= n, s > 0,
           NEW m, NEW c, NEW d, NEW t
    PROVE  /\ 0 < Left(p, most, n, a, b, s)
           /\ \/ <<m, d, t>> = <<n, b, s>> /\ c = a + 1
              \/ <<d, t>> = <<b, s>> /\ n < p /\ m = n + 1 /\ c = 0
              \/ <<m, c, t>> = <<n, a, s>> /\ d = b + 1
              \/ <<m, c, d>> = <<n, a, b>> /\ t \in 0..6 /\ t < s
              => Left(p, most, m, c, d, t) < Left(p, most, n, a, b, s)
  <1>1. CASE n < p
    <2> DEFINE left == (p - n) * (1 + most)
               next == (p - (n + 1)) * (1 + most)
    <2>1. left \in Nat /\ left >= 1 + most /\ next = left - (1 + most)
      BY <1>1, OneProfileLess
    <2>2. /\ Left(p, most, n, a, b, s) = left - a + (p - b) + s
          /\ Left(p, most, n, c, d, t) = left - c + (p - d) + t
          /\ Left(p, most, n + 1, c, d, t) = next - c + (p - d) + t
      BY DEF Left
    <2> HIDE DEF left, next
    <2>3. 0 < Left(p, most, n, a, b, s)
      BY ONLY <2>1, <2>2, p \in Nat, b \in Nat, s \in Nat, a \in Nat, most \in Nat,
         n \in Nat, a <= most, b <= n, n <= p, s > 0
    <2>4. CASE <<m, d, t>> = <<n, b, s>> /\ c = a + 1
      BY <2>1, <2>2, <2>4
    <2>5. CASE <<d, t>> = <<b, s>> /\ n < p /\ m = n + 1 /\ c = 0
      BY <2>1, <2>2, <2>5
    <2>6. CASE <<m, c, t>> = <<n, a, s>> /\ d = b + 1
      BY <2>1, <2>2, <2>6
    <2>7. CASE <<m, c, d>> = <<n, a, b>> /\ t \in 0..6 /\ t < s
      BY <2>1, <2>2, <2>7
    <2> QED
      BY <2>3, <2>4, <2>5, <2>6, <2>7
  <1>2. CASE n = p
    <2>1. (p - n) * (1 + most) = 0
      BY <1>2
    <2> DEFINE left == (p - n) * (1 + most)
    <2>2. /\ Left(p, most, n, a, b, s) = left - a + (p - b) + s
          /\ Left(p, most, n, c, d, t) = left - c + (p - d) + t
      BY DEF Left
    <2> HIDE DEF left
    <2>3. left = 0
      BY <2>1 DEF left
    <2> QED
      BY <1>2, <2>2, <2>3
  <1> QED
    BY <1>1, <1>2

\* A round of the classification loop counts itself.
LEMMA ClassifySeen ==
    ASSUME ScanInv, ClassifyNext
    PROVE  best'.seen = best.seen + 1
  <1> DEFINE o == record.probes[best.seen + 1]
  <1>1. best \in Best
    BY DEF ScanInv, TypeOK
  <1>2. DOMAIN Better(o) = DOMAIN best
    BY <1>1 DEF Better, Best
  <1>3. DOMAIN best = {"group", "class", "seen"}
    BY <1>1 DEF Best
  <1>4. best' = [Better(o) EXCEPT !.seen = best.seen + 1]
    BY DEF ClassifyNext
  <1> HIDE DEF o
  <1> QED
    BY <1>2, <1>3, <1>4

\* The step is one of the four, seen from the state.
Advances ==
    \/ /\ Len(record.probes)' = Len(record.probes) /\ attempt' = attempt + 1
       /\ best.seen' = best.seen /\ StagesLeft' = StagesLeft
    \/ /\ Len(record.probes) < Len(Offers)
       /\ Len(record.probes)' = Len(record.probes) + 1 /\ attempt' = 0
       /\ best.seen' = best.seen /\ StagesLeft' = StagesLeft
    \/ /\ Len(record.probes)' = Len(record.probes) /\ attempt' = attempt
       /\ best.seen' = best.seen + 1 /\ StagesLeft' = StagesLeft
    \/ /\ Len(record.probes)' = Len(record.probes) /\ attempt' = attempt
       /\ best.seen' = best.seen /\ StagesLeft' \in 0..6 /\ StagesLeft' < StagesLeft

\* Every step of a scan is, until the scan is done; the loops stay in bounds.
LEMMA ScanAdvances ==
    ASSUME ScanInv, LoopBounds, Next
    PROVE  /\ ~Done /\ UNCHANGED Attempts /\ LoopBounds'
           /\ ~Done' => Advances
  <1>1. UNCHANGED Attempts
    <2>1. UNCHANGED tool
      BY DEF Next, Resolve, ProbeOnce, NextProfile, ListProbes, DecideReachable, ClassifyNext,
             ClassifyDone, FetchCertificate, TagHosting, Annotate, Raise, context
    <2> QED
      BY <2>1 DEF Attempts
  <1>2. /\ Len(Offers) \in Nat /\ Attempts \in Nat \ {0} /\ attempt \in Nat
        /\ record.probes \in Seq(Outcome) /\ Len(record.probes) \in Nat
        /\ best.seen \in Nat
    BY LoopTypes
  <1> USE DEF Done
  <1>3. ~Done
    BY DEF Next, Resolve, ProbeOnce, NextProfile, ListProbes, DecideReachable, ClassifyNext,
           ClassifyDone, FetchCertificate, TagHosting, Annotate, Raise, Goto
  <1>4. /\ Len(record.probes) <= Len(Offers)
        /\ attempt <= Attempts /\ (ProfilesDone => attempt = 0)
        /\ best.seen <= Len(record.probes)
    BY <1>3 DEF LoopBounds
  <1>5. ASSUME NEW out \in Outputs, ProbeOnce(out)
        PROVE  LoopBounds' /\ Advances
    <2>1. /\ UNCHANGED <<pc, best, record>> /\ attempt' = attempt + 1
          /\ ~ProfilesDone /\ attempt < Attempts
      BY <1>2, <1>5 DEF ProbeOnce, MayProbe
    <2>2. UNCHANGED <<Len(record.probes), best.seen>> /\ ~ProfilesDone'
      BY <2>1 DEF ProfilesDone
    <2>3. StagesLeft' = StagesLeft
      BY <2>1, Zenon DEF StagesLeft
    <2>4. attempt' <= Attempts
      BY <1>2, <2>1
    <2> QED
      BY <1>1, <1>4, <2>1, <2>2, <2>3, <2>4 DEF LoopBounds, Advances
  <1>6. CASE NextProfile
    <2>1. /\ record'.probes = Append(record.probes, last) /\ attempt' = 0
          /\ UNCHANGED <<pc, best>> /\ ~ProfilesDone
      BY <1>6, RecordSteps DEF NextProfile
    <2>2. Len(record.probes)' = Len(record.probes) + 1
      <3>1. last \in Outcome
        BY DEF ScanInv, TypeOK
      <3>2. Len(Append(record.probes, last)) = Len(record.probes) + 1
        BY <1>2, <3>1
      <3> QED
        BY ONLY <2>1, <3>2, Zenon
    <2>3. StagesLeft' = StagesLeft /\ best.seen' = best.seen
      BY <2>1, Zenon DEF StagesLeft
    <2>4. Len(record.probes) < Len(Offers)
      BY <1>2, <1>4, <2>1 DEF ProfilesDone
    <2>5. ASSUME NEW m, m = Len(record.probes)'
          PROVE  m <= Len(Offers) /\ best.seen <= m
      <3>1. m = Len(record.probes) + 1
        BY ONLY <2>2, <2>5, Zenon
      <3> QED
        BY ONLY <1>2, <1>4, <2>4, <3>1
    <2>6. Len(record.probes)' <= Len(Offers) /\ best.seen <= Len(record.probes)'
      BY ONLY <2>5, Zenon
    <2>7. 0 <= Attempts
      BY <1>2
    <2>8. attempt' <= Attempts' /\ best.seen' <= Len(record.probes)'
      BY ONLY <1>1, <2>1, <2>3, <2>6, <2>7, Zenon
    <2> QED
      <3>1. LoopBounds'
        <4>1. ASSUME ProfilesDone' PROVE attempt' = 0
          BY <2>1
        <4> QED
          BY ONLY <2>6, <2>8, <4>1, Zenon DEF LoopBounds
      <3>2. Advances
        BY ONLY <2>1, <2>2, <2>3, <2>4, Zenon DEF Advances
      <3> QED
        BY <1>1, <1>3, <3>1, <3>2
  <1>7. CASE ClassifyNext
    <2>1. /\ UNCHANGED <<pc, attempt, record>> /\ best'.seen = best.seen + 1
          /\ best.seen < Len(record.probes)
      BY <1>2, <1>7, ClassifySeen DEF ClassifyNext
    <2>2. StagesLeft' = StagesLeft
      BY <2>1, Zenon DEF StagesLeft
    <2>3. /\ UNCHANGED Len(record.probes) /\ (ProfilesDone' <=> ProfilesDone)
      BY <2>1 DEF ProfilesDone
    <2>4. best.seen + 1 <= Len(record.probes)
      BY <1>2, <2>1
    <2>5. attempt' = attempt /\ Len(record.probes)' = Len(record.probes)
      BY <2>1
    <2>6. LoopBounds'
      BY ONLY <1>1, <1>4, <2>1, <2>3, <2>4, <2>5, Zenon DEF LoopBounds
    <2>7. Advances
      BY ONLY <2>1, <2>2, <2>5, Zenon DEF Advances
    <2> QED
      BY <1>1, <1>3, <2>6, <2>7
  <1>8. CASE \/ Resolve \/ ListProbes \/ DecideReachable \/ ClassifyDone
             \/ FetchCertificate \/ TagHosting \/ Annotate
    <2>1. UNCHANGED <<attempt, best>> /\ record'.probes = record.probes
      BY <1>8, RecordSteps DEF Resolve, ListProbes, DecideReachable, ClassifyDone,
         FetchCertificate, TagHosting, Annotate
    <2>2. StagesLeft' \in 0..6 /\ StagesLeft' < StagesLeft
      BY <1>8 DEF Resolve, ListProbes, DecideReachable, ClassifyDone, FetchCertificate,
         TagHosting, Annotate, Goto, StagesLeft
    <2>3. /\ Len(record.probes)' = Len(record.probes) /\ best.seen' = best.seen
          /\ attempt' = attempt /\ (ProfilesDone' <=> ProfilesDone)
      BY <2>1 DEF ProfilesDone
    <2>4. LoopBounds'
      BY ONLY <1>1, <1>4, <2>3, Zenon DEF LoopBounds
    <2>5. Advances
      BY ONLY <2>2, <2>3, Zenon DEF Advances
    <2> QED
      BY <1>1, <1>3, <2>4, <2>5
  <1>9. CASE Raise
    <2>1. pc' = "done"
      BY <1>9 DEF Raise
    <2>2. LoopBounds'
      BY ONLY <2>1, Zenon DEF LoopBounds
    <2> QED
      BY <1>1, <1>3, <2>1, <2>2
  <1> QED
    BY <1>1, <1>3, <1>5, <1>6, <1>7, <1>8, <1>9 DEF Next, Raise

\* The loops of a scan stay in bounds and each step leaves less: a scan comes to
\* its end whatever the endpoint answers.
THEOREM ScanStepsRunOut == Spec => ScanRunsOut
  <1>1. ScanInv /\ LoopBounds /\ [Next]_scanVars
          => LoopBounds' /\ [ScanLeft' < ScanLeft]_scanVars
    <2> SUFFICES ASSUME ScanInv, LoopBounds, [Next]_scanVars
                 PROVE  LoopBounds' /\ [ScanLeft' < ScanLeft]_scanVars
      OBVIOUS
    <2>1. CASE UNCHANGED scanVars
      BY <2>1 DEF LoopBounds, ProfilesDone, Attempts, Done, scanVars, context
    <2>2. CASE Next
      <3> DEFINE p == Len(Offers)
                 n == Len(record.probes)
      <3>1. /\ p \in Nat /\ Attempts \in Nat \ {0} /\ attempt \in Nat /\ n \in Nat
            /\ best.seen \in Nat /\ StagesLeft \in 0..6
        BY LoopTypes
      <3>2. ~Done /\ UNCHANGED Attempts /\ LoopBounds' /\ (~Done' => Advances)
        BY <2>2, ScanAdvances
      <3>3. /\ n <= p /\ attempt <= Attempts /\ (n = p => attempt = 0) /\ best.seen <= n
            /\ StagesLeft \in Nat /\ StagesLeft > 0
        BY <3>1, <3>2, LoopTypes DEF LoopBounds, ProfilesDone
      <3>4. ScanLeft = Left(p, Attempts, n, attempt, best.seen, StagesLeft)
        BY <3>2 DEF ScanLeft, ProbesLeft, Left
      <3> HIDE DEF p
      <3>5. CASE Done'
        <4>1. ScanLeft' = 0
          BY <3>5 DEF ScanLeft
        <4>2. 0 < ScanLeft
          BY <3>1, <3>3, <3>4, RoundsLeft
        <4> QED
          BY ONLY <3>2, <4>1, <4>2, Zenon
      <3>6. CASE ~Done'
        <4>1. ScanLeft' =
                Left(p, Attempts, Len(record.probes)', attempt', best.seen', StagesLeft')
          BY <3>2, <3>6 DEF ScanLeft, ProbesLeft, Left, p
        <4>2. ASSUME NEW m, m = Len(record.probes)', NEW c, c = attempt',
                     NEW d, d = best.seen', NEW t, t = StagesLeft'
              PROVE  Left(p, Attempts, m, c, d, t) < ScanLeft
          <5>1. \/ <<m, d, t>> = <<n, best.seen, StagesLeft>> /\ c = attempt + 1
                \/ <<d, t>> = <<best.seen, StagesLeft>> /\ n < p /\ m = n + 1 /\ c = 0
                \/ <<m, c, t>> = <<n, attempt, StagesLeft>> /\ d = best.seen + 1
                \/ <<m, c, d>> = <<n, attempt, best.seen>> /\ t \in 0..6 /\ t < StagesLeft
            BY ONLY <3>2, <3>6, <4>2, Zenon DEF Advances, p
          <5> HIDE DEF n
          <5> QED
            BY <3>1, <3>3, <3>4, <5>1, RoundsLeft
        <4> QED
          BY ONLY <3>2, <4>1, <4>2, Zenon
      <3> QED
        BY <3>5, <3>6
    <2> QED
      BY <2>1, <2>2
  <1> QED
    BY <1>1, ScanInvariance, BoundsInit, PTL DEF Spec, ScanRunsOut

=============================================================================
