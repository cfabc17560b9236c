--------------------------- MODULE TargetsProofs ---------------------------
(***************************************************************************)
(* Proofs, for any domain files, names and variants, about the readers,    *)
(* build_targets and the tables.                                           *)
(***************************************************************************)
EXTENDS Rollups, Induction

\* What appending a target does to the sequence.
LEMMA AppendFacts ==
    ASSUME NEW S, NEW seq \in Seq(S), NEW x \in S
    PROVE  /\ Append(seq, x) \in Seq(S)
           /\ DOMAIN Append(seq, x) = 1 .. Len(seq) + 1
           /\ DOMAIN seq = 1 .. Len(seq) /\ Len(seq) \in Nat
           /\ \A t \in DOMAIN seq : Append(seq, x)[t] = seq[t]
           /\ Append(seq, x)[Len(seq) + 1] = x
  OBVIOUS

\* The expansion starts with nothing seen.
LEMMA TargetsInvInit == TargetsInit => TargetsInv
  <1> SUFFICES ASSUME TargetsInit PROVE TargetsInv
    OBVIOUS
  <1>1. /\ domains \in Seq(Listing) /\ seen = {} /\ targets = <<>>
        /\ d = 1 /\ v = 1
    BY TargetsAssumption DEF TargetsInit
  <1>2. TargetsTypeOK
    BY <1>1 DEF TargetsTypeOK
  <1>3. DOMAIN targets = {}
    BY <1>1
  <1>4. Covered
    <2>1. \A i \in DOMAIN domains : i \in Nat /\ i >= 1
      BY <1>1
    <2>2. \A j \in DOMAIN Variants : j \in Nat /\ j >= 1
      BY TargetsAssumption
    <2> QED
      BY <1>1, <2>1, <2>2 DEF Covered
  <1> QED
    BY <1>1, <1>2, <1>3, <1>4 DEF TargetsInv, HostsDistinct

\* One round of the inner loop keeps the invariant.
LEMMA ExpandInv == ASSUME TargetsInv, Expand PROVE TargetsInv'
  <1> DEFINE host == Host(domains[d].domain, Variants[v])
             new == [host |-> host, domain |-> domains[d].domain,
                     tier |-> domains[d].tier, agency |-> domains[d].agency]
  <1> USE DEF TargetsInv
  <1>1. /\ domains \in Seq(Listing) /\ Variants \in Seq(VariantNames)
        /\ d \in DOMAIN domains /\ v \in DOMAIN Variants
        /\ DOMAIN Variants = 1 .. Len(Variants) /\ DOMAIN domains = 1 .. Len(domains)
        /\ d \in Nat \ {0} /\ v \in Nat \ {0} /\ v' = v + 1 /\ d' = d /\ domains' = domains
    BY TargetsAssumption DEF Expand, TargetsTypeOK
  <1>2. domains[d] \in Listing /\ host \in Names /\ new \in Target
    <2>1. domains[d] \in Listing
      BY <1>1
    <2>2. host \in Names
      BY <2>1, TargetsAssumption DEF Host, Listing
    <2> QED
      BY <2>1, <2>2 DEF Listing, Target
  <1>3. ASSUME Variants[v] = "unsupported" \/ host \in seen, seen' = seen
        PROVE  Covered'
    <2> SUFFICES ASSUME NEW i \in DOMAIN domains, NEW j \in DOMAIN Variants,
                        i < d \/ (i = d /\ j < v + 1), Variants[j] # "unsupported"
                 PROVE  Host(domains[i].domain, Variants[j]) \in seen
      BY <1>1, <1>3 DEF Covered, Host
    <2>1. (i < d \/ (i = d /\ j < v)) \/ (i = d /\ j = v)
      BY <1>1
    <2> QED
      BY <1>3, <2>1 DEF Covered
  <1>4. CASE Variants[v] = "unsupported" \/ host \in seen
    <2>1. seen' = seen /\ targets' = targets
      BY <1>4 DEF Expand
    <2> QED
      BY <1>1, <1>3, <1>4, <2>1 DEF TargetsTypeOK, HostsDistinct, FromFirst, IsFirst
  <1>5. CASE Variants[v] # "unsupported" /\ host \notin seen
    <2>1. seen' = seen \cup {host} /\ targets' = Append(targets, new)
      BY <1>5 DEF Expand
    <2>2. /\ targets' \in Seq(Target)
          /\ DOMAIN targets' = 1 .. Len(targets) + 1
          /\ DOMAIN targets = 1 .. Len(targets) /\ Len(targets) \in Nat
          /\ \A t \in DOMAIN targets : targets'[t] = targets[t]
          /\ targets'[Len(targets) + 1] = new
      BY <1>2, <2>1, AppendFacts DEF TargetsTypeOK
    <2>3. new.host = host /\ new.domain = domains[d].domain
          /\ new.tier = domains[d].tier /\ new.agency = domains[d].agency
      OBVIOUS
    <2> HIDE DEF new, host
    <2>4. \A t \in DOMAIN targets' : t \in DOMAIN targets \/ t = Len(targets) + 1
      BY <2>2
    <2>5. TargetsTypeOK'
      BY <1>1, <1>2, <2>1, <2>2 DEF TargetsTypeOK
    <2>6. seen' = {targets'[t].host : t \in DOMAIN targets'}
      <3>1. \A h \in seen' : \E t \in DOMAIN targets' : h = targets'[t].host
        BY <2>1, <2>2, <2>3
      <3>2. \A t \in DOMAIN targets' : targets'[t].host \in seen'
        BY <2>1, <2>2, <2>3, <2>4
      <3> QED
        BY <3>1, <3>2
    <2>7. HostsDistinct'
      <3>1. \A t \in DOMAIN targets : targets[t].host # host
        BY <1>5
      <3> QED
        BY <2>2, <2>3, <2>4, <3>1 DEF HostsDistinct
    <2>8. Covered'
      <3> SUFFICES ASSUME NEW i \in DOMAIN domains, NEW j \in DOMAIN Variants,
                          i < d \/ (i = d /\ j < v + 1), Variants[j] # "unsupported"
                   PROVE  Host(domains[i].domain, Variants[j]) \in seen \cup {host}
        BY <1>1, <2>1 DEF Covered, Host
      <3>1. (i < d \/ (i = d /\ j < v)) \/ (i = d /\ j = v)
        BY <1>1
      <3> QED
        BY <3>1 DEF Covered, host
    <2>9. IsFirst(d)
      <3> SUFFICES ASSUME NEW k \in DOMAIN domains, k < d,
                          domains[k].domain = domains[d].domain
                   PROVE  FALSE
        BY DEF IsFirst
      <3>1. Host(domains[k].domain, Variants[v]) \in seen
        BY <1>1, <1>5 DEF Covered
      <3> QED
        BY <1>5, <3>1 DEF host
    <2>10. \A t \in DOMAIN targets' : FromFirst(targets'[t])
      <3>1. \A t \in DOMAIN targets : FromFirst(targets'[t])
        BY <2>2
      <3>2. FromFirst(new)
        BY <1>1, <2>3, <2>9 DEF FromFirst
      <3> QED
        BY <2>2, <2>4, <3>1, <3>2
    <2>11. (\A t \in DOMAIN targets : FromFirst(targets[t]))'
      BY <1>1, <2>10 DEF FromFirst, IsFirst
    <2> QED
      BY <2>5, <2>6, <2>7, <2>8, <2>11
  <1> QED
    BY <1>4, <1>5

\* Going on to the next domain keeps it.
LEMMA NextDomainInv == ASSUME TargetsInv, NextDomain PROVE TargetsInv'
  <1> USE DEF TargetsInv
  <1>1. TargetsTypeOK'
    BY DEF NextDomain, TargetsTypeOK
  <1>2. Covered'
    <2> SUFFICES ASSUME NEW i \in DOMAIN domains, NEW j \in DOMAIN Variants,
                        i < d + 1 \/ (i = d + 1 /\ j < 1), Variants[j] # "unsupported"
                 PROVE  Host(domains[i].domain, Variants[j]) \in seen
      BY DEF NextDomain, Covered, Host
    <2>1. /\ DOMAIN Variants = 1 .. Len(Variants) /\ Len(Variants) \in Nat
          /\ DOMAIN domains = 1 .. Len(domains) /\ Len(domains) \in Nat
          /\ d \in Nat /\ v \in Nat
      BY TargetsAssumption DEF TargetsTypeOK
    <2>2. i < d \/ (i = d /\ j < v)
      BY <2>1 DEF NextDomain
    <2> QED
      BY <2>2 DEF Covered
  <1> QED
    BY <1>1, <1>2 DEF NextDomain, HostsDistinct, FromFirst, IsFirst

\* The invariant holds of every expansion (build_targets).
THEOREM TargetsInvariance == TargetsSpec => []TargetsInv
  <1>1. TargetsInv /\ [TargetsNext]_targetsVars => TargetsInv'
    <2>1. CASE UNCHANGED targetsVars
      BY <2>1 DEF targetsVars, TargetsInv, TargetsTypeOK, HostsDistinct, Covered, FromFirst, IsFirst, Host
    <2> QED
      BY <2>1, ExpandInv, NextDomainInv DEF TargetsNext
  <1> QED
    BY <1>1, TargetsInvInit, PTL DEF TargetsSpec

\* No hostname is a target twice, so none is probed twice.
THEOREM DistinctHosts == TargetsSpec => []HostsDistinct
  <1>1. TargetsInv => HostsDistinct
    BY DEF TargetsInv
  <1> QED
    BY <1>1, TargetsInvariance, PTL

\* Once the loops are through, every hostname was looked at.
LEMMA ListedAreExpanded == TargetsInv => AllExpanded
  <1> SUFFICES ASSUME TargetsInv, Expanded,
                      NEW i \in DOMAIN domains, NEW j \in DOMAIN Variants,
                      Variants[j] # "unsupported"
               PROVE  \E t \in DOMAIN targets :
                         targets[t].host = Host(domains[i].domain, Variants[j])
    BY DEF AllExpanded
  <1>1. i < d
    BY TargetsAssumption DEF TargetsInv, TargetsTypeOK, Expanded
  <1> QED
    BY <1>1 DEF TargetsInv, Covered

\* Every hostname of every listing ends up in some target.
THEOREM EverythingExpanded == TargetsSpec => []AllExpanded
  BY ListedAreExpanded, TargetsInvariance, PTL

\* All targets of a domain come from its first listing.
LEMMA OwnersAgree == TargetsInv => OneOwner
  <1> SUFFICES ASSUME TargetsInv, NEW s \in DOMAIN targets, NEW t \in DOMAIN targets,
                      targets[s].domain = targets[t].domain
               PROVE  /\ targets[s].tier = targets[t].tier
                      /\ targets[s].agency = targets[t].agency
    BY DEF OneOwner
  <1>1. PICK i \in DOMAIN domains :
           /\ IsFirst(i)
           /\ targets[s].domain = domains[i].domain
           /\ targets[s].tier = domains[i].tier
           /\ targets[s].agency = domains[i].agency
    BY DEF TargetsInv, FromFirst
  <1>2. PICK k \in DOMAIN domains :
           /\ IsFirst(k)
           /\ targets[t].domain = domains[k].domain
           /\ targets[t].tier = domains[k].tier
           /\ targets[t].agency = domains[k].agency
    BY DEF TargetsInv, FromFirst
  <1>3. i \in Nat /\ k \in Nat
    BY TargetsAssumption DEF TargetsInv, TargetsTypeOK
  <1>4. domains[i].domain = domains[k].domain
    BY <1>1, <1>2
  <1>5. ~(i < k) /\ ~(k < i)
    BY <1>1, <1>2, <1>4 DEF IsFirst
  <1>6. i = k
    BY <1>3, <1>5
  <1> QED
    BY <1>1, <1>2, <1>6

\* All endpoints of a domain have one tier and one agency, whatever the list
\* repeats.
THEOREM SingleOwner == TargetsSpec => []OneOwner
  BY OwnersAgree, TargetsInvariance, PTL

-----------------------------------------------------------------------------
(* The readers.                                                            *)

\* The loop of the readers goes through some sequence of lists.
LEMMA KeptRun ==
    ASSUME NEW S, NEW listings \in Seq(S), NEW skipped
    PROVE  \E f \in [0..Len(listings) -> Seq(S)] :
              /\ f[0] = <<>>
              /\ \A i \in 1..Len(listings) : f[i] = Read(f[i - 1], listings[i], skipped)
              /\ Kept(listings, skipped) = f[Len(listings)]
  <1> DEFINE n == Len(listings)
             Run(f) ==
               f = [i \in 0..n |->
                      IF i = 0 THEN <<>> ELSE Read(f[i - 1], listings[i], skipped)]
  <1>1. n \in Nat /\ \A i \in 1..n : listings[i] \in S
    OBVIOUS
  <1>2. \A x \in Seq(S), y \in S : Read(x, y, skipped) \in Seq(S)
    BY DEF Read
  <1>3. PICK f \in [0..n -> Seq(S)] :
           f[0] = <<>> /\ \A i \in 1..n : f[i] = Read(f[i - 1], listings[i], skipped)
    <2> DEFINE step == [i \in 1..n |-> [x \in Seq(S) |-> Read(x, listings[i], skipped)]]
    <2>1. step \in [1..n -> [Seq(S) -> Seq(S)]]
      BY <1>1, <1>2
    <2>2. <<>> \in Seq(S)
      OBVIOUS
    <2> HIDE DEF n
    <2>3. \A i \in 1..n, x \in Seq(S) : step[i][x] = Read(x, listings[i], skipped)
      OBVIOUS
    <2> HIDE DEF step
    <2>4. PICK f \in [0..n -> Seq(S)] :
             f[0] = <<>> /\ \A i \in 1..n : f[i] = step[i][f[i - 1]]
      <3> DEFINE V == Seq(S)
                 start == <<>>
      <3>1. n \in Nat /\ start \in V /\ step \in [1..n -> [V -> V]]
        BY <1>1, <2>1, <2>2
      <3> HIDE DEF V, start, Run
      <3>2. \E f : IsLoop(f, V, start, n, step)
        BY <3>1, LoopExists
      <3> QED
        BY <3>2 DEF IsLoop, V, start
    <2>5. \A i \in 1..n : f[i - 1] \in Seq(S)
      BY <1>1, <2>4
    <2>6. \A i \in 1..n : f[i] = Read(f[i - 1], listings[i], skipped)
      <3> TAKE i \in 1..n
      <3>1. f[i] = step[i][f[i - 1]]
        BY <2>4
      <3> QED
        BY <2>3, <2>5, <3>1
    <2> QED
      BY <2>4, <2>6
  <1> HIDE DEF n
  <1>4. Run(f)
    <2>1. \A i \in 0..n : i = 0 \/ i \in 1..n
      BY <1>1
    <2> QED
      BY <1>3, <2>1
  <1> DEFINE kept == CHOOSE g : Run(g)
  <1>5. Run(kept)
    <2> HIDE DEF Run
    <2> QED
      BY <1>4
  <1> HIDE DEF kept
  <1>6. kept \in [0..n -> Seq(S)]
    <2> DEFINE differ == {i \in 0..n : kept[i] # f[i]}
    <2>1. ASSUME differ # {} PROVE FALSE
      <3>1. PICK m \in differ : \A k \in differ : m <= k
        <4>1. differ \in SUBSET Nat
          BY <1>1
        <4> HIDE DEF differ
        <4> QED
          BY <2>1, <4>1, LeastNumber
      <3>2. m \in 0..n /\ m # 0
        BY <1>1, <1>3, <1>5
      <3>3. m - 1 \in 0..n /\ m \in 1..n /\ m - 1 \notin differ
        <4> HIDE DEF differ
        <4> QED
          BY <1>1, <3>1, <3>2
      <3>4. kept[m - 1] = f[m - 1]
        BY <3>3
      <3>5. kept[m] = Read(kept[m - 1], listings[m], skipped)
        BY <1>5, <3>2
      <3> QED
        BY <1>3, <3>1, <3>3, <3>4, <3>5
    <2>2. \A i \in 0..n : kept[i] = f[i]
      BY <2>1
    <2>3. kept = [i \in 0..n |-> kept[i]]
      BY <1>5
    <2> QED
      BY <1>3, <2>2, <2>3
  <1>7. /\ kept[0] = <<>> 
        /\ \A i \in 1..n : kept[i] = Read(kept[i - 1], listings[i], skipped)
    BY <1>1, <1>5
  <1>8. Kept(listings, skipped) = kept[n]
    BY DEF Kept, kept, n
  <1> QED
    BY <1>6, <1>7, <1>8 DEF n

\* A list holds what counts of the rows i and before, and nothing else.
IsRead(list, listings, i, S, skipped) ==
    /\ list \in Seq(S)
    /\ \A k \in DOMAIN list :
          \E j \in 1..i : list[k] = listings[j] /\ listings[j].domain \notin skipped
    /\ \A j \in 1..i :
          listings[j].domain \notin skipped => \E k \in DOMAIN list : list[k] = listings[j]

LEMMA ReadFacts ==
    ASSUME NEW S, NEW listings \in Seq(S), NEW skipped, NEW i \in 1..Len(listings),
           NEW list, IsRead(list, listings, i - 1, S, skipped)
    PROVE  IsRead(Read(list, listings[i], skipped), listings, i, S, skipped)
  <1>1. /\ list \in Seq(S) /\ i \in Nat /\ listings[i] \in S
        /\ \A j \in 1..i : j \in 1..i - 1 \/ j = i
        /\ \A j \in 1..i - 1 : j \in 1..i
        /\ i \in 1..i
    BY DEF IsRead
  <1>2. CASE listings[i].domain \in skipped
    <2>1. Read(list, listings[i], skipped) = list
      BY <1>2 DEF Read
    <2> QED
      BY <1>1, <1>2, <2>1 DEF IsRead
  <1>3. CASE listings[i].domain \notin skipped
    <2> DEFINE longer == Append(list, listings[i])
    <2>1. Read(list, listings[i], skipped) = longer
      BY <1>3 DEF Read
    <2>2. /\ longer \in Seq(S)
          /\ DOMAIN longer = 1 .. Len(list) + 1
          /\ DOMAIN list = 1 .. Len(list) /\ Len(list) \in Nat
          /\ \A t \in DOMAIN list : longer[t] = list[t]
          /\ longer[Len(list) + 1] = listings[i]
      BY <1>1, AppendFacts
    <2> HIDE DEF longer
    <2>3. \A k \in DOMAIN longer : k \in DOMAIN list \/ k = Len(list) + 1
      BY <2>2
    <2>4. /\ DOMAIN list \subseteq DOMAIN longer
          /\ Len(list) + 1 \in DOMAIN longer
      BY <2>2
    <2>5. \A k \in DOMAIN longer :
             \E j \in 1..i : longer[k] = listings[j] /\ listings[j].domain \notin skipped
      BY <1>1, <1>3, <2>2, <2>3 DEF IsRead
    <2>6. \A j \in 1..i :
             listings[j].domain \notin skipped => \E k \in DOMAIN longer : longer[k] = listings[j]
      BY <1>1, <2>2, <2>4 DEF IsRead
    <2> QED
      BY <2>1, <2>2, <2>5, <2>6 DEF IsRead
  <1> QED
    BY <1>2, <1>3

LEMMA KeptFacts ==
    ASSUME NEW S, NEW listings \in Seq(S), NEW skipped
    PROVE  IsRead(Kept(listings, skipped), listings, Len(listings), S, skipped)
  <1> DEFINE n == Len(listings)
  <1>1. n \in Nat
    OBVIOUS
  <1>2. PICK f \in [0..n -> Seq(S)] :
           /\ f[0] = <<>>
           /\ \A i \in 1..n : f[i] = Read(f[i - 1], listings[i], skipped)
           /\ Kept(listings, skipped) = f[n]
    BY KeptRun
  <1> HIDE DEF n
  <1> DEFINE wrong == {i \in 0..n : ~IsRead(f[i], listings, i, S, skipped)}
  <1>3. ASSUME wrong # {} PROVE FALSE
    <2>1. PICK m \in wrong : \A k \in wrong : m <= k
      <3>1. wrong \in SUBSET Nat
        BY <1>1
      <3> HIDE DEF wrong
      <3> QED
        BY <1>3, <3>1, LeastNumber
    <2>2. m \in 0..n
      OBVIOUS
    <2>3. m # 0
      <3>1. IsRead(<<>>, listings, 0, S, skipped)
        BY DEF IsRead
      <3> QED
        BY <1>2, <3>1
    <2>4. m - 1 \in 0..n /\ m \in 1..n /\ m - 1 \notin wrong
      <3> HIDE DEF wrong
      <3> QED
        BY <1>1, <2>1, <2>2, <2>3
    <2>5. IsRead(f[m - 1], listings, m - 1, S, skipped)
      BY <2>4
    <2>6. IsRead(f[m], listings, m, S, skipped)
      BY <1>2, <2>4, <2>5, ReadFacts DEF n
    <2> QED
      BY <2>6
  <1> QED
    BY <1>1, <1>2, <1>3 DEF n

\* A function on 1..n is a sequence.
LEMMA IsSequence ==
    ASSUME NEW n \in Nat, NEW g, g = [i \in 1..n |-> g[i]]
    PROVE  g \in Seq({g[i] : i \in 1..n}) /\ Len(g) = n
  <1> DEFINE S == {g[i] : i \in 1..n}
  <1>1. \A i \in 1..n : g[i] \in S
    OBVIOUS
  <1> HIDE DEF S
  <1>2. g \in [1..n -> S]
    BY <1>1
  <1> QED
    BY <1>2

\* A list holds what each file's reader makes of its rows: the names lowered,
\* none left out.
LEMMA LoadFacts ==
    ASSUME NEW f \in DomainFile
    PROVE  /\ \A k \in DOMAIN Load(f) : \E i \in DOMAIN f.rows :
                  Load(f)[k].domain = Lower[f.rows[i].name]
           /\ \A i \in DOMAIN f.rows : f.rows[i].name \in Names =>
                  \E k \in DOMAIN Load(f) : Load(f)[k].domain = Lower[f.rows[i].name]
  <1> DEFINE n == Len(f.rows)
             lines == [i \in DOMAIN f.rows |->
                         [domain |-> Fold(f.rows[i]), tier |-> "other", agency |-> ""]]
  <1>1. /\ f.rows \in Seq(Row) /\ n \in Nat /\ DOMAIN f.rows = 1..n
        /\ \A i \in 1..n : f.rows[i] \in Row
    BY DEF DomainFile
  <1>2. ASSUME NEW listings, listings = [i \in 1..n |-> listings[i]],
               \A i \in 1..n : listings[i].domain = Lower[f.rows[i].name],
               NEW skipped \in SUBSET {"", "#"},
               Load(f) = Kept(listings, skipped)
        PROVE  /\ \A k \in DOMAIN Load(f) : \E i \in 1..n :
                     Load(f)[k].domain = Lower[f.rows[i].name]
               /\ \A i \in 1..n : f.rows[i].name \in Names =>
                     \E k \in DOMAIN Load(f) : Load(f)[k].domain = Lower[f.rows[i].name]
    <2> DEFINE S == {listings[i] : i \in 1..n}
    <2>1. listings \in Seq(S) /\ Len(listings) = n
      BY <1>1, <1>2, IsSequence
    <2> HIDE DEF S, n
    <2>2. IsRead(Load(f), listings, n, S, skipped)
      BY <1>2, <2>1, KeptFacts
    <2>3. \A i \in 1..n : f.rows[i].name \in Names => listings[i].domain \notin skipped
      <3>1. \A name \in Names : Lower[name] \notin {"", "#"}
        BY FoldAssumption, IngestAssumption
      <3> QED
        BY <1>2, <3>1
    <2> HIDE DEF lines
    <2>4. ASSUME NEW k \in DOMAIN Load(f)
          PROVE  \E i \in 1..n : Load(f)[k].domain = Lower[f.rows[i].name]
      <3>1. PICK j \in 1..n : Load(f)[k] = listings[j]
        BY <2>2 DEF IsRead
      <3> QED
        BY <1>2, <3>1
    <2>5. ASSUME NEW i \in 1..n, f.rows[i].name \in Names
          PROVE  \E k \in DOMAIN Load(f) : Load(f)[k].domain = Lower[f.rows[i].name]
      <3>1. PICK k \in DOMAIN Load(f) : Load(f)[k] = listings[i]
        BY <2>2, <2>3, <2>5 DEF IsRead
      <3> QED
        BY <1>2, <3>1
    <2> QED
      BY <2>4, <2>5
  <1>3. CASE f.format = "plainlist"
    <2>1. \A i \in 1..n : lines[i].domain = Lower[f.rows[i].name]
      BY <1>1 DEF Fold
    <2>2. Load(f) = Kept(lines, {"", "#"})
      BY <1>3 DEF Load, LoadPlainDomains
    <2>3. lines = [i \in 1..n |-> lines[i]]
      BY <1>1
    <2> HIDE DEF lines
    <2>4. /\ \A k \in DOMAIN Load(f) : \E i \in 1..n :
                Load(f)[k].domain = Lower[f.rows[i].name]
          /\ \A i \in 1..n : f.rows[i].name \in Names =>
                \E k \in DOMAIN Load(f) : Load(f)[k].domain = Lower[f.rows[i].name]
      <3>1. {"", "#"} \in SUBSET {"", "#"}
        OBVIOUS
      <3> HIDE DEF n
      <3> QED
        BY <1>2, <2>1, <2>2, <2>3, <3>1
    <2> QED
      BY <1>1, <2>4
  <1>4. CASE f.format # "plainlist"
    <2>1. \A i \in 1..n : Registered(f)[i].domain = Lower[f.rows[i].name]
      BY <1>1 DEF Registered, Fold
    <2>2. Load(f) = Kept(Registered(f), {""})
      BY <1>4 DEF Load, LoadDomains
    <2>3. Registered(f) = [i \in 1..n |-> Registered(f)[i]]
      BY <1>1 DEF Registered
    <2>4. /\ \A k \in DOMAIN Load(f) : \E i \in 1..n :
                Load(f)[k].domain = Lower[f.rows[i].name]
          /\ \A i \in 1..n : f.rows[i].name \in Names =>
                \E k \in DOMAIN Load(f) : Load(f)[k].domain = Lower[f.rows[i].name]
      <3>1. {""} \in SUBSET {"", "#"}
        OBVIOUS
      <3> HIDE DEF n
      <3> QED
        BY <1>2, <2>1, <2>2, <2>3, <3>1
    <2> QED
      BY <1>1, <2>4
  <1> QED
    BY <1>1, <1>3, <1>4

-----------------------------------------------------------------------------
(* The tables.                                                             *)

\* A command that could read its file starts with nothing recorded.
LEMMA RollupsInvInit == Init => RollupsInv
  <1> SUFFICES ASSUME Init PROVE RollupsInv
    OBVIOUS
  <1>1. TargetsInv
    BY TargetsInvInit DEF Init
  <1>2. targets = <<>> /\ table = {}
    BY DEF Init, TargetsInit
  <1>3. DOMAIN targets = {} /\ IsFiniteSet(table)
    BY <1>2, FS_EmptySet
  <1>4. TypeOK
    BY <1>1, <1>2, IngestAssumption DEF TypeOK, TargetsInv, Init
  <1> QED
    BY <1>1, <1>2, <1>3, <1>4 DEF RollupsInv, OneRowPerTarget, Recorded, Init

\* What a round of the expansion does to the targets.
LEMMA ExpandTargets ==
    ASSUME TargetsInv, TargetsNext
    PROVE  \/ targets' = targets
           \/ /\ d \in DOMAIN domains /\ v \in DOMAIN Variants
              /\ Variants[v] # "unsupported"
              /\ \E target \in Target :
                    /\ target.domain = domains[d].domain
                    /\ target.host = Host(target.domain, Variants[v])
                    /\ targets' = Append(targets, target)
  <1>1. CASE NextDomain
    BY <1>1 DEF NextDomain
  <1>2. CASE Expand
    <2> DEFINE host == Host(domains[d].domain, Variants[v])
               new == [host |-> host, domain |-> domains[d].domain,
                       tier |-> domains[d].tier, agency |-> domains[d].agency]
    <2>1. /\ domains \in Seq(Listing) /\ Variants \in Seq(VariantNames)
          /\ d \in DOMAIN domains /\ v \in DOMAIN Variants
      BY <1>2, TargetsAssumption DEF Expand, TargetsInv, TargetsTypeOK
    <2>2. domains[d] \in Listing
      BY <2>1
    <2>3. host \in Names
      BY <2>2, TargetsAssumption DEF Host, Listing
    <2>4. new \in Target /\ new.domain = domains[d].domain /\ new.host = host
      BY <2>2, <2>3 DEF Listing, Target
    <2>5. targets' = targets \/ (Variants[v] # "unsupported" /\ targets' = Append(targets, new))
      BY <1>2 DEF Expand
    <2> HIDE DEF new
    <2> QED
      BY <2>1, <2>4, <2>5
  <1> QED
    BY <1>1, <1>2 DEF TargetsNext

\* The expansion keeps it: targets are only added.
LEMMA ExpansionRollupsInv ==
    ASSUME RollupsInv, TargetsNext, UNCHANGED <<file, table>>
    PROVE  RollupsInv'
  <1>1. TargetsInv'
    BY ExpandInv, NextDomainInv DEF RollupsInv, TargetsNext
  <1>2. domains' = domains
    BY DEF TargetsNext, Expand, NextDomain
  <1>3. targets \in Seq(Target)
    BY DEF RollupsInv, TypeOK, TargetsTypeOK
  <1>4. /\ Range(targets) \subseteq Range(targets')
        /\ \A t \in DOMAIN targets' : IsVariant(targets'[t])
    <2>1. CASE targets' = targets
      BY <2>1 DEF RollupsInv
    <2>2. CASE /\ d \in DOMAIN domains /\ v \in DOMAIN Variants
               /\ Variants[v] # "unsupported"
               /\ \E target \in Target :
                     /\ target.domain = domains[d].domain
                     /\ target.host = Host(target.domain, Variants[v])
                     /\ targets' = Append(targets, target)
      <3>1. PICK target \in Target :
               /\ target.domain = domains[d].domain
               /\ target.host = Host(target.domain, Variants[v])
               /\ targets' = Append(targets, target)
        BY <2>2
      <3>2. IsVariant(target)
        BY <2>2, <3>1 DEF IsVariant
      <3>3. /\ DOMAIN targets' = 1 .. Len(targets) + 1
            /\ DOMAIN targets = 1 .. Len(targets) /\ Len(targets) \in Nat
            /\ \A t \in DOMAIN targets : targets'[t] = targets[t]
            /\ targets'[Len(targets) + 1] = target
        BY <1>3, <3>1, AppendFacts
      <3>4. \A t \in DOMAIN targets' : t \in DOMAIN targets \/ t = Len(targets) + 1
        BY <3>3
      <3>5. \A t \in DOMAIN targets : t \in DOMAIN targets'
        BY <3>3
      <3> QED
        BY <3>2, <3>3, <3>4, <3>5 DEF RollupsInv, Range
    <2> QED
      BY <2>1, <2>2, ExpandTargets DEF RollupsInv
  <1>5. (\A t \in DOMAIN targets : IsVariant(targets[t]))'
    BY <1>4 DEF IsVariant, Host
  <1>6. OneRowPerTarget'
    BY <1>4 DEF RollupsInv, OneRowPerTarget, Recorded
  <1> QED
    BY <1>1, <1>2, <1>5, <1>6 DEF RollupsInv, TypeOK, TargetsInv

\* So does a row recorded.
LEMMA RecordRollupsInv == ASSUME RollupsInv, Record PROVE RollupsInv'
  <1>1. UNCHANGED <<file, domains, d, v, seen, targets>>
    BY DEF Record, targetsVars
  <1>2. PICK t \in DOMAIN targets, result \in Results :
           /\ targets[t] \notin Recorded
           /\ table' = table \cup {[target |-> targets[t], result |-> result]}
    BY DEF Record
  <1> DEFINE row == [target |-> targets[t], result |-> result]
  <1>3. targets[t] \in Target
    BY DEF RollupsInv, TypeOK, TargetsTypeOK
  <1>4. row \in [target : Target, result : Results] /\ row.target = targets[t]
    BY <1>3
  <1> HIDE DEF row
  <1>5. table' = table \cup {row}
    BY <1>2 DEF row
  <1>6. TargetsInv'
    BY <1>1 DEF RollupsInv, TargetsInv, TargetsTypeOK, HostsDistinct, Covered, FromFirst,
                IsFirst, Host
  <1>7. TypeOK'
    BY <1>1, <1>4, <1>5 DEF RollupsInv, TypeOK, TargetsTypeOK
  <1>8. OneRowPerTarget'
    <2>1. Range(targets') = Range(targets) /\ targets[t] \in Range(targets)
      BY <1>1 DEF Range
    <2>2. Recorded' = Recorded \cup {targets[t]}
      BY <1>4, <1>5 DEF Recorded
    <2>3. \A other \in table : other.target # row.target
      BY <1>2, <1>4 DEF Recorded
    <2> QED
      BY <1>5, <2>1, <2>2, <2>3 DEF RollupsInv, OneRowPerTarget
  <1>9. IsFiniteSet(table')
    BY <1>5, FS_AddElement DEF RollupsInv
  <1>10. (\A s \in DOMAIN targets : IsVariant(targets[s]))'
    BY <1>1 DEF RollupsInv, IsVariant, Host
  <1> QED
    BY <1>1, <1>6, <1>7, <1>8, <1>9, <1>10 DEF RollupsInv

\* What is known of the targets and of the table from which the views are
\* computed, whichever file was read.
THEOREM RollupsInvariance == Spec => []RollupsInv
  <1>1. RollupsInv /\ [Next]_rollupsVars => RollupsInv'
    <2>1. CASE UNCHANGED rollupsVars
      BY <2>1 DEF rollupsVars, RollupsInv, TypeOK, TargetsInv, TargetsTypeOK, HostsDistinct,
                  Covered, FromFirst, IsFirst, Host, IsVariant, OneRowPerTarget, Recorded
    <2> QED
      BY <2>1, ExpansionRollupsInv, RecordRollupsInv DEF Next
  <1> QED
    BY <1>1, RollupsInvInit, PTL DEF Spec

\* Every step of the whole way is a round of build_targets or leaves the targets
\* alone, so what is proved of the expansion holds of the whole.
THEOREM ExpansionImplemented == Spec => TargetsSpec
  <1>1. Init => TargetsInit
    BY DEF Init
  <1>2. [Next]_rollupsVars => [TargetsNext]_targetsVars
    BY DEF Next, Record, rollupsVars, targetsVars
  <1> QED
    BY <1>1, <1>2, PTL DEF Spec, TargetsSpec

\* The types of the file, the targets and the table.
THEOREM RollupsTypeCorrect == Spec => []TypeOK
  <1>1. RollupsInv => TypeOK
    BY DEF RollupsInv
  <1> QED
    BY <1>1, RollupsInvariance, PTL

\* Every hostname a target has is in small letters: that of its domain is, and
\* "www." adds none.
LEMMA HostsLowered ==
    ASSUME RollupsInv, NEW t \in DOMAIN targets
    PROVE  Lower[targets[t].host] = targets[t].host
  <1>1. PICK i \in DOMAIN domains : targets[t].domain = domains[i].domain
    BY DEF RollupsInv, TargetsInv, FromFirst
  <1>2. file \in DomainFile /\ domains = Load(file) /\ domains \in Seq(Listing)
    BY DEF RollupsInv, TypeOK, TargetsTypeOK
  <1>3. PICK k \in DOMAIN file.rows : domains[i].domain = Lower[file.rows[k].name]
    BY <1>2, LoadFacts
  <1>4. domains[i].domain \in Names
    <2>1. domains[i] \in Listing
      BY <1>2
    <2> QED
      BY <2>1 DEF Listing
  <1>5. file.rows[k].name \in Names \cup {"", "#"}
    <2>1. file.rows \in Seq(Row)
      BY <1>2 DEF DomainFile
    <2>2. file.rows[k] \in Row
      BY <2>1
    <2> QED
      BY <2>2 DEF Row
  <1>6. Lower[domains[i].domain] = domains[i].domain
    BY <1>3, <1>4, <1>5, FoldAssumption
  <1>7. PICK j \in DOMAIN Variants : targets[t].host = Host(targets[t].domain, Variants[j])
    BY DEF RollupsInv, IsVariant
  <1> QED
    BY <1>1, <1>4, <1>6, <1>7, FoldAssumption DEF Host

\* No endpoint is scanned in two spellings.
THEOREM OneSpelling == Spec => []CaseBlindDistinct
  <1>1. RollupsInv => CaseBlindDistinct
    BY HostsLowered DEF CaseBlindDistinct, RollupsInv, TargetsInv, HostsDistinct
  <1> QED
    BY <1>1, RollupsInvariance, PTL

\* No row of the file that names a domain is left out.
THEOREM NoRowLost == Spec => []RowsCovered
  <1>1. RollupsInv => RowsCovered
    <2> SUFFICES ASSUME RollupsInv, Expanded,
                        NEW i \in DOMAIN file.rows, NEW j \in DOMAIN Variants,
                        file.rows[i].name \in Names, Variants[j] # "unsupported"
                 PROVE  \E t \in DOMAIN targets :
                           targets[t].host = Host(Lower[file.rows[i].name], Variants[j])
      BY DEF RowsCovered
    <2>1. file \in DomainFile /\ domains = Load(file)
      BY DEF RollupsInv, TypeOK
    <2>2. PICK k \in DOMAIN domains : domains[k].domain = Lower[file.rows[i].name]
      BY <2>1, LoadFacts
    <2>3. AllExpanded
      BY ListedAreExpanded DEF RollupsInv
    <2> QED
      BY <2>2, <2>3 DEF AllExpanded
  <1> QED
    BY <1>1, RollupsInvariance, PTL

-----------------------------------------------------------------------------
(* The views.                                                              *)

\* What a view counts.
Counts == {"total", "kex", "auth"}

\* The rows that count.
Counted(rows, count) ==
    {row \in rows :
        /\ row.result.reachable
        /\ count = "kex" => row.result.kex \in {"hybrid_pq", "pure_pq"}
        /\ count = "auth" => row.result.auth = "pq"}

\* The endpoint view counts them one by one.
LEMMA GapCounts ==
    ASSUME NEW rows
    PROVE  Gap(rows) = [count \in Counts |-> Cardinality(Counted(rows, count))]
  <1>1. /\ Reachable(rows) = Counted(rows, "total")
        /\ PqKex(Reachable(rows)) = Counted(rows, "kex")
        /\ PqAuth(Reachable(rows)) = Counted(rows, "auth")
    BY DEF Reachable, PqKex, PqAuth, Counted
  <1>2. Gap(rows) = [total |-> Cardinality(Counted(rows, "total")),
                     kex |-> Cardinality(Counted(rows, "kex")),
                     auth |-> Cardinality(Counted(rows, "auth"))]
    BY <1>1 DEF Gap
  <1> QED
    BY <1>2 DEF Counts

\* The counts of any grouping of the rows add up.
LEMMA GroupsAddUp ==
    ASSUME NEW rows, IsFiniteSet(rows), NEW S, IsFiniteSet(S), NEW group \in [rows -> S],
           NEW rollup, DOMAIN rollup = S,
           \A g \in S : rollup[g] = Gap({row \in rows : group[row] = g})
    PROVE  Total(rollup) = Gap(rows)
  <1>1. ASSUME NEW count \in Counts
        PROVE  SumFunction([g \in DOMAIN rollup |-> rollup[g][count]])
                  = Cardinality(Counted(rows, count))
    <2> DEFINE R == Counted(rows, count)
               f == [g \in S |-> rollup[g][count]]
               part == [row \in R |-> group[row]]
    <2>1. R \in SUBSET rows
      BY DEF Counted
    <2>2. IsFiniteSet(R)
      BY <2>1, FS_Subset
    <2>3. ASSUME NEW g \in S
          PROVE  f[g] = Cardinality({row \in R : part[row] = g})
      <3>1. f[g] = Cardinality(Counted({row \in rows : group[row] = g}, count))
        BY GapCounts
      <3>2. Counted({row \in rows : group[row] = g}, count) = {row \in R : part[row] = g}
        BY DEF Counted
      <3> QED
        BY <3>1, <3>2
    <2>4. part \in [R -> S]
      BY <2>1
    <2> HIDE DEF R, part
    <2>5. DOMAIN f = S
      OBVIOUS
    <2> HIDE DEF f
    <2>6. SumFunctionOnSet(f, S) = Cardinality(R)
      BY <2>2, <2>3, <2>4, SumOverGroups
    <2>7. SumFunction(f) = Cardinality(R)
      BY <2>5, <2>6 DEF SumFunction
    <2> QED
      BY <2>7 DEF f, R
  <1>2. Total(rollup) = [count \in Counts |-> Cardinality(Counted(rows, count))]
    BY <1>1 DEF Total, Counts
  <1> QED
    BY <1>2, GapCounts

\* So do those of by_tier,
LEMMA TiersAddUp ==
    ASSUME NEW rows, IsFiniteSet(rows)
    PROVE  Total(ByTier(rows)) = Gap(rows)
  <1> DEFINE group == [row \in rows |-> row.target.tier]
  <1>1. IsFiniteSet(TiersOf(rows)) /\ group \in [rows -> TiersOf(rows)]
    <2>1. /\ \A row \in rows : group[row] \in TiersOf(rows)
          /\ \A tier \in TiersOf(rows) : \E row \in rows : tier = group[row]
          /\ group \in [rows -> TiersOf(rows)]
      BY DEF TiersOf
    <2> HIDE DEF group
    <2> QED
      BY <2>1, ImageBound
  <1>2. \A tier : {row \in rows : row.target.tier = tier} = {row \in rows : group[row] = tier}
    OBVIOUS
  <1>3. /\ DOMAIN ByTier(rows) = TiersOf(rows)
        /\ \A tier \in TiersOf(rows) :
              ByTier(rows)[tier] = Gap({row \in rows : group[row] = tier})
    BY <1>2 DEF ByTier
  <1> HIDE DEF group
  <1> QED
    BY <1>1, <1>3, GroupsAddUp

\* and of by_hosting.
LEMMA HostingAddsUp ==
    ASSUME NEW rows, IsFiniteSet(rows)
    PROVE  Total(ByHosting(rows)) = Gap(rows)
  <1> DEFINE S == {HostingOf(row) : row \in rows}
             group == [row \in rows |-> HostingOf(row)]
  <1>1. IsFiniteSet(S) /\ group \in [rows -> S]
    <2>1. /\ \A row \in rows : group[row] \in S
          /\ \A hosting \in S : \E row \in rows : hosting = group[row]
          /\ group \in [rows -> S]
      OBVIOUS
    <2> HIDE DEF group, S
    <2> QED
      BY <2>1, ImageBound
  <1>2. \A hosting : {row \in rows : HostingOf(row) = hosting} = {row \in rows : group[row] = hosting}
    OBVIOUS
  <1>3. /\ DOMAIN ByHosting(rows) = S
        /\ \A hosting \in S :
              ByHosting(rows)[hosting] = Gap({row \in rows : group[row] = hosting})
    BY <1>2 DEF ByHosting
  <1> HIDE DEF S, group
  <1> QED
    BY <1>1, <1>3, GroupsAddUp

\* The domain view counts the domains of the rows the endpoint view counts.
LEMMA DomainGapCounts ==
    ASSUME NEW rows
    PROVE  DomainGap(rows) =
              [count \in Counts |-> Cardinality(DomainsOf(Counted(rows, count)))]
  <1>1. /\ DomainsOf(Reachable(rows)) = DomainsOf(Counted(rows, "total"))
        /\ Ready(Reachable(rows), PqKex(rows)) = DomainsOf(Counted(rows, "kex"))
        /\ Ready(Reachable(rows), PqAuth(rows)) = DomainsOf(Counted(rows, "auth"))
    BY DEF Reachable, PqKex, PqAuth, Ready, DomainsOf, Counted
  <1>2. DomainGap(rows) = [total |-> Cardinality(DomainsOf(Counted(rows, "total"))),
                           kex |-> Cardinality(DomainsOf(Counted(rows, "kex"))),
                           auth |-> Cardinality(DomainsOf(Counted(rows, "auth")))]
    BY <1>1 DEF DomainGap
  <1> QED
    BY <1>2 DEF Counts

\* The rows of an agency.
OwnRows(rows, agency) == {row \in Owned(rows) : row.target.agency = agency}

AgenciesOf(rows) == {row.target.agency : row \in Owned(Reachable(rows))}

\* by_agency is the domain view of the rows of each agency.
LEMMA ByAgencyCounts ==
    ASSUME NEW rows
    PROVE  /\ DOMAIN ByAgency(rows) = AgenciesOf(rows)
           /\ \A agency \in AgenciesOf(rows) :
                 ByAgency(rows)[agency] = DomainGap(OwnRows(rows, agency))
  <1>1. DOMAIN ByAgency(rows) = AgenciesOf(rows)
    BY DEF ByAgency, AgenciesOf
  <1>2. ASSUME NEW agency \in AgenciesOf(rows)
        PROVE  ByAgency(rows)[agency] = DomainGap(OwnRows(rows, agency))
    <2> DEFINE own == {row \in Owned(Reachable(rows)) : row.target.agency = agency}
    <2>1. ByAgency(rows)[agency] =
             [total |-> Cardinality(DomainsOf(own)),
              kex |-> Cardinality(Ready(own, PqKex(rows))),
              auth |-> Cardinality(Ready(own, PqAuth(rows)))]
      BY DEF ByAgency, AgenciesOf
    <2>2. own = Reachable(OwnRows(rows, agency))
      BY DEF Owned, Reachable, OwnRows
    <2>3. /\ Ready(own, PqKex(rows)) = Ready(own, PqKex(OwnRows(rows, agency)))
          /\ Ready(own, PqAuth(rows)) = Ready(own, PqAuth(OwnRows(rows, agency)))
      BY DEF Ready, PqKex, PqAuth, OwnRows, Owned, Reachable
    <2> HIDE DEF own
    <2> QED
      BY <2>1, <2>2, <2>3 DEF DomainGap
  <1> QED
    BY <1>1, <1>2

\* Domains are split among the agencies, if each has one owner.
LEMMA AgenciesSplit ==
    ASSUME NEW rows, IsFiniteSet(rows),
           \A row, other \in rows :
              row.target.domain = other.target.domain =>
                 row.target.agency = other.target.agency
    PROVE  Total(ByAgency(rows)) = DomainGap(Owned(rows))
  <1> DEFINE S == AgenciesOf(rows)
  <1>1. IsFiniteSet(S)
    <2> DEFINE R == Owned(Reachable(rows))
               f == [row \in R |-> row.target.agency]
    <2>1. R \in SUBSET rows
      BY DEF Owned, Reachable
    <2>2. IsFiniteSet(R)
      BY <2>1, FS_Subset
    <2>3. /\ \A row \in R : f[row] \in S
          /\ \A agency \in S : \E row \in R : agency = f[row]
      BY DEF AgenciesOf
    <2> HIDE DEF R, f, S
    <2> QED
      BY <2>2, <2>3, ImageBound
  <1>2. ASSUME NEW count \in Counts
        PROVE  SumFunction([agency \in DOMAIN ByAgency(rows) |-> ByAgency(rows)[agency][count]])
                  = Cardinality(DomainsOf(Counted(Owned(rows), count)))
    <2> DEFINE counted == Counted(Owned(rows), count)
               R == DomainsOf(counted)
               f == [agency \in S |-> ByAgency(rows)[agency][count]]
               of(domain) == CHOOSE row \in counted : row.target.domain = domain
               part == [domain \in R |-> of(domain).target.agency]
    <2>1. counted \in SUBSET rows /\ counted \subseteq Owned(Reachable(rows))
      BY DEF Counted, Owned, Reachable
    <2>2. IsFiniteSet(R)
      <3> DEFINE g == [row \in counted |-> row.target.domain]
      <3>1. IsFiniteSet(counted)
        BY <2>1, FS_Subset
      <3>2. /\ \A row \in counted : g[row] \in R
            /\ \A domain \in R : \E row \in counted : domain = g[row]
        BY DEF DomainsOf
      <3> HIDE DEF counted, R, g
      <3> QED
        BY <3>1, <3>2, ImageBound
    <2>3. \A domain \in R : of(domain) \in counted /\ of(domain).target.domain = domain
      BY DEF DomainsOf
    <2> HIDE DEF of
    <2>4. part \in [R -> S]
      BY <2>1, <2>3 DEF AgenciesOf
    <2>5. \A row \in counted : row.target.domain \in R
      BY DEF DomainsOf
    <2>6. \A row \in counted : part[row.target.domain] = row.target.agency
      BY <2>1, <2>3, <2>5
    <2>7. ASSUME NEW agency \in S
          PROVE  f[agency] = Cardinality({domain \in R : part[domain] = agency})
      <3>1. f[agency] = Cardinality(DomainsOf(Counted(OwnRows(rows, agency), count)))
        BY ByAgencyCounts, DomainGapCounts
      <3>2. Counted(OwnRows(rows, agency), count)
               = {row \in counted : row.target.agency = agency}
        BY DEF Counted, OwnRows
      <3> HIDE DEF part
      <3>3. DomainsOf({row \in counted : row.target.agency = agency})
               = {domain \in R : part[domain] = agency}
        <4> HIDE DEF counted
        <4> QED
          BY <2>6 DEF DomainsOf
      <3> QED
        BY <3>1, <3>2, <3>3
    <2>8. DOMAIN f = S
      OBVIOUS
    <2> HIDE DEF R, part, f, S
    <2>9. SumFunctionOnSet(f, S) = Cardinality(R)
      BY <1>1, <2>2, <2>4, <2>7, SumOverGroups
    <2>10. SumFunction(f) = Cardinality(R)
      BY <2>8, <2>9 DEF SumFunction
    <2> QED
      BY <2>10, ByAgencyCounts DEF f, R, S
  <1>3. Total(ByAgency(rows))
           = [count \in Counts |-> Cardinality(DomainsOf(Counted(Owned(rows), count)))]
    BY <1>2 DEF Total, Counts
  <1> QED
    BY <1>3, DomainGapCounts

\* The endpoint rollups split the headline numbers.
THEOREM EndpointsAddUp == Spec => []EndpointRollupsAddUp
  <1>1. RollupsInv => EndpointRollupsAddUp
    BY TiersAddUp, HostingAddsUp DEF RollupsInv, EndpointRollupsAddUp
  <1> QED
    BY <1>1, RollupsInvariance, PTL

\* All rows of a domain have the same owner, and no two the same hostname.
LEMMA RowFacts ==
    ASSUME RollupsInv, NEW row \in table, NEW other \in table
    PROVE  /\ row.target.domain = other.target.domain =>
                 row.target.agency = other.target.agency
           /\ row.target.host = other.target.host => row = other
           /\ IsVariant(row.target)
  <1>1. row.target \in Range(targets) /\ other.target \in Range(targets)
    BY DEF RollupsInv, OneRowPerTarget, Recorded
  <1>2. PICK s \in DOMAIN targets, t \in DOMAIN targets :
           row.target = targets[s] /\ other.target = targets[t]
    BY <1>1 DEF Range
  <1>3. OneOwner /\ HostsDistinct
    BY OwnersAgree DEF RollupsInv, TargetsInv
  <1>4. row.target = other.target => row = other
    BY DEF RollupsInv, OneRowPerTarget
  <1> QED
    BY <1>2, <1>3, <1>4 DEF OneOwner, HostsDistinct, RollupsInv

\* No domain is counted for two agencies.
THEOREM AgenciesPartition == Spec => []AgenciesAddUp
  <1>1. RollupsInv => AgenciesAddUp
    <2> SUFFICES ASSUME RollupsInv PROVE AgenciesAddUp
      OBVIOUS
    <2>1. \A row, other \in table :
             row.target.domain = other.target.domain =>
                row.target.agency = other.target.agency
      BY RowFacts
    <2> QED
      BY <2>1, AgenciesSplit DEF AgenciesAddUp, RollupsInv
  <1> QED
    BY <1>1, RollupsInvariance, PTL

\* The variants that are not skipped.
Supported == {j \in DOMAIN Variants : Variants[j] # "unsupported"}

\* A domain has at most one endpoint for each of them.
LEMMA DomainView ==
    ASSUME RollupsInv, NEW count \in Counts
    PROVE  LET counted == Counted(table, count)
           IN  /\ Cardinality(DomainsOf(counted)) <= Cardinality(counted)
               /\ Cardinality(counted) <= Cardinality(DomainsOf(counted)) * Cardinality(Supported)
  <1> DEFINE counted == Counted(table, count)
             D == DomainsOf(counted)
             f == [row \in counted |-> row.target.domain]
             variant(row) == CHOOSE j \in Supported :
                                row.target.host = Host(row.target.domain, Variants[j])
             place == [row \in counted |-> <<row.target.domain, variant(row)>>]
  <1>1. counted \in SUBSET table
    BY DEF Counted
  <1>2. IsFiniteSet(counted)
    BY <1>1, FS_Subset DEF RollupsInv
  <1> HIDE DEF counted
  <1>3. IsFiniteSet(D) /\ Cardinality(D) <= Cardinality(counted)
    <2>1. /\ \A row \in counted : f[row] \in D
          /\ \A domain \in D : \E row \in counted : domain = f[row]
      BY DEF DomainsOf
    <2> HIDE DEF f, D
    <2> QED
      BY <1>2, <2>1, ImageBound
  <1>4. IsFiniteSet(Supported)
    <2>1. DOMAIN Variants = 1..Len(Variants) /\ Len(Variants) \in Int
      BY TargetsAssumption
    <2>2. IsFiniteSet(1..Len(Variants)) /\ Supported \in SUBSET (1..Len(Variants))
      BY <2>1, FS_Interval DEF Supported
    <2> QED
      BY <2>2, FS_Subset
  <1>5. IsFiniteSet(D \X Supported)
        /\ Cardinality(D \X Supported) = Cardinality(D) * Cardinality(Supported)
    BY <1>3, <1>4, FS_Product
  <1>6. ASSUME NEW row \in counted
        PROVE  /\ variant(row) \in Supported
               /\ row.target.host = Host(row.target.domain, Variants[variant(row)])
    BY <1>1, RowFacts DEF IsVariant, Supported
  <1> HIDE DEF variant
  <1>7. place \in Injection(counted, D \X Supported)
    <2>1. place \in [counted -> D \X Supported]
      BY <1>6 DEF DomainsOf
    <2>2. ASSUME NEW row \in counted, NEW other \in counted, place[row] = place[other]
          PROVE  row = other
      <3>1. row.target.domain = other.target.domain /\ variant(row) = variant(other)
        BY <2>2
      <3>2. row.target.host = other.target.host
        BY <1>6, <3>1
      <3> QED
        BY <1>1, <3>2, RowFacts
    <2> HIDE DEF place
    <2> QED
      BY <2>1, <2>2 DEF Injection, IsInjective
  <1> HIDE DEF place, D
  <1>8. Cardinality(counted) <= Cardinality(D \X Supported)
    BY <1>5, <1>7, FS_Injection
  <1> QED
    BY <1>3, <1>5, <1>8 DEF counted, D

\* The domain view and the endpoint view bound each other.
THEOREM ViewsAgree == Spec => []DomainViewConsistent
  <1>1. RollupsInv => DomainViewConsistent
    BY DomainView, GapCounts, DomainGapCounts DEF DomainViewConsistent, Counts, Supported
  <1> QED
    BY <1>1, RollupsInvariance, PTL

\* More rows, no lower count and no group fewer.
LEMMA ViewsGrow ==
    ASSUME NEW new, IsFiniteSet(new), NEW old \in SUBSET new
    PROVE  Covers(Gap(new), Gap(old)) /\ Covers(DomainGap(new), DomainGap(old))
  <1>1. ASSUME NEW count \in Counts
        PROVE  /\ Cardinality(Counted(old, count)) <= Cardinality(Counted(new, count))
               /\ Cardinality(DomainsOf(Counted(old, count)))
                     <= Cardinality(DomainsOf(Counted(new, count)))
    <2> DEFINE counted == Counted(new, count)
               f == [row \in counted |-> row.target.domain]
    <2>1. counted \in SUBSET new /\ Counted(old, count) \in SUBSET counted
      BY DEF Counted
    <2>2. IsFiniteSet(counted)
      BY <2>1, FS_Subset
    <2>3. IsFiniteSet(DomainsOf(counted))
      <3>1. /\ \A row \in counted : f[row] \in DomainsOf(counted)
            /\ \A domain \in DomainsOf(counted) : \E row \in counted : domain = f[row]
        BY DEF DomainsOf
      <3> HIDE DEF f, counted
      <3> QED
        BY <2>2, <3>1, ImageBound
    <2>4. DomainsOf(Counted(old, count)) \in SUBSET DomainsOf(counted)
      BY <2>1 DEF DomainsOf
    <2> HIDE DEF counted
    <2> QED
      BY <2>1, <2>2, <2>3, <2>4, FS_Subset DEF counted
  <1> QED
    BY <1>1, GapCounts, DomainGapCounts DEF Covers, Counts

\* No count of any view goes down in a step, and no group disappears.
THEOREM PartialTablesUnderstate == Spec => PartialUnderstates
  <1> DEFINE Grown ==
        /\ Covers(Gap(table)', Gap(table))
        /\ Covers(DomainGap(table)', DomainGap(table))
        /\ AllCover(ByTier(table)', ByTier(table))
        /\ AllCover(ByHosting(table)', ByHosting(table))
        /\ AllCover(ByAgency(table)', ByAgency(table))
  <1>1. ASSUME RollupsInv, RollupsInv', Next PROVE Grown
    <2>1. IsFiniteSet(table') /\ table \in SUBSET table'
      BY <1>1 DEF RollupsInv, Next, Record
    <2>2. Covers(Gap(table)', Gap(table)) /\ Covers(DomainGap(table)', DomainGap(table))
      BY <2>1, ViewsGrow
    <2>3. AllCover(ByTier(table)', ByTier(table))
      <3>1. ASSUME NEW tier \in TiersOf(table)
            PROVE  /\ tier \in TiersOf(table')
                   /\ Covers(ByTier(table')[tier], ByTier(table)[tier])
        <4> DEFINE new == {row \in table' : row.target.tier = tier}
                   old == {row \in table : row.target.tier = tier}
        <4>1. new \in SUBSET table' /\ old \in SUBSET new /\ tier \in TiersOf(table')
          BY <2>1 DEF TiersOf
        <4>2. ByTier(table')[tier] = Gap(new) /\ ByTier(table)[tier] = Gap(old)
          BY <4>1 DEF ByTier
        <4> HIDE DEF new, old
        <4>3. IsFiniteSet(new)
          BY <2>1, <4>1, FS_Subset
        <4> QED
          BY <4>1, <4>2, <4>3, ViewsGrow
      <3>2. DOMAIN ByTier(table) = TiersOf(table) /\ DOMAIN ByTier(table') = TiersOf(table')
        BY DEF ByTier
      <3> QED
        BY <3>1, <3>2 DEF AllCover
    <2>4. AllCover(ByHosting(table)', ByHosting(table))
      <3> DEFINE Kinds(rows) == {HostingOf(row) : row \in rows}
      <3>1. ASSUME NEW hosting \in Kinds(table)
            PROVE  /\ hosting \in Kinds(table')
                   /\ Covers(ByHosting(table')[hosting], ByHosting(table)[hosting])
        <4> DEFINE new == {row \in table' : HostingOf(row) = hosting}
                   old == {row \in table : HostingOf(row) = hosting}
        <4>1. new \in SUBSET table' /\ old \in SUBSET new /\ hosting \in Kinds(table')
          BY <2>1
        <4>2. ByHosting(table')[hosting] = Gap(new) /\ ByHosting(table)[hosting] = Gap(old)
          BY <4>1 DEF ByHosting
        <4> HIDE DEF new, old
        <4>3. IsFiniteSet(new)
          BY <2>1, <4>1, FS_Subset
        <4> QED
          BY <4>1, <4>2, <4>3, ViewsGrow
      <3>2. DOMAIN ByHosting(table) = Kinds(table) /\ DOMAIN ByHosting(table') = Kinds(table')
        BY DEF ByHosting
      <3> QED
        BY <3>1, <3>2 DEF AllCover
    <2>5. AllCover(ByAgency(table)', ByAgency(table))
      <3>1. ASSUME NEW agency \in AgenciesOf(table)
            PROVE  /\ agency \in AgenciesOf(table')
                   /\ Covers(ByAgency(table')[agency], ByAgency(table)[agency])
        <4>1. /\ OwnRows(table', agency) \in SUBSET table'
              /\ OwnRows(table, agency) \in SUBSET OwnRows(table', agency)
          BY <2>1 DEF OwnRows, Owned
        <4>2. agency \in AgenciesOf(table')
          BY <2>1 DEF AgenciesOf, Owned, Reachable
        <4>3. /\ ByAgency(table')[agency] = DomainGap(OwnRows(table', agency))
              /\ ByAgency(table)[agency] = DomainGap(OwnRows(table, agency))
          BY <4>2, ByAgencyCounts
        <4>4. IsFiniteSet(OwnRows(table', agency))
          BY <2>1, <4>1, FS_Subset
        <4> QED
          BY <4>1, <4>2, <4>3, <4>4, ViewsGrow
      <3>2. /\ DOMAIN ByAgency(table) = AgenciesOf(table)
            /\ DOMAIN ByAgency(table') = AgenciesOf(table')
        BY ByAgencyCounts
      <3> QED
        BY <3>1, <3>2 DEF AllCover
    <2> QED
      BY <2>2, <2>3, <2>4, <2>5
  <1> QED
    BY <1>1, RollupsInvariance, PTL DEF PartialUnderstates, Spec

=============================================================================
