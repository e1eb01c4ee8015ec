---------------------------- MODULE OfficeProofs ----------------------------
(***************************************************************************)
(* Theorems about Compose, for any registry and any request, about Intake, *)
(* for any number of contents, uploads and links, about Checks and Alerts, *)
(* for any checks, leases, papers and days, about Records, for any terms,  *)
(* quotas and uses, and about Shell, for any modules that are toggled.     *)
(* While the worklist of Compose runs, what it has seen contains the       *)
(* dependencies of what it has resolved and lies in the least closed set   *)
(* around the request; while the search runs, each module of the path      *)
(* leads to the next one. In Intake every row has its file and every file  *)
(* its row, or the upload that answers for it. Of Checks and Alerts: what  *)
(* is due is shown, by every screen.                                       *)
(***************************************************************************)
EXTENDS Compose, Intake, Alerts, Sums, SequenceTheorems

----------------------------------------------------------------------------
(* The composition of the modules.                                         *)

Seen == resolved \cup pending \cup missing

Wanted == {x \in Ids : \A S \in SUBSET Ids : request \subseteq S /\ Closed(S) => x \in S}

(* The worklist forgets nothing and adds nothing that is not wanted. *)
Expansion ==
  /\ request \subseteq Seen
  /\ \A m \in resolved : m \in Known /\ needs[m] \subseteq Seen
  /\ Seen \subseteq Wanted
  /\ missing \cap Known = {}

(* How far the call has come. *)
Progress ==
  /\ stage = "expand" => mark = [m \in Ids |-> "new"] /\ path = <<>> /\ order = <<>>
  /\ stage \in {"expand", "sort"} => wired = 0 /\ ports = {}
  /\ stage \in {"sort", "wire", "composed"} => pending = {} /\ missing = {}
  /\ stage \in {"wire", "composed"} => \A m \in resolved : mark[m] = "done"
  /\ stage = "composed" => wired = Len(order)

(* The search. *)
Marks ==
  /\ \A m \in Ids : mark[m] = "visiting" <=> \E i \in 1..Len(path) : path[i] = m
  /\ \A m \in Ids : mark[m] = "done" <=> \E i \in 1..Len(order) : order[i] = m
  /\ \A i \in 1..Len(path) : path[i] \in resolved
  /\ \A i \in 1..Len(order) : order[i] \in resolved
  /\ \A i, j \in 1..Len(path) : path[i] = path[j] => i = j

PathLeads ==
  \A i, j \in 1..Len(path) : i < j => path[j] \in ClosureOf(path[i])

PathAccounts ==
  \A i \in 1..Len(path) :
    /\ left[path[i]] \subseteq needs[path[i]]
    /\ \A d \in needs[path[i]] :
         d \in left[path[i]] \/ mark[d] = "done" \/ (i < Len(path) /\ path[i + 1] = d)

PlacedFirst ==
  \A i \in 1..Len(order) : \A d \in needs[order[i]] : \E j \in 1..(i - 1) : order[j] = d

Search == stage # "expand" => Marks /\ PathLeads /\ PathAccounts /\ PlacedFirst

PortsOfWired == \A p \in Ports : p \in ports <=> \E i \in 1..wired : p \in Provides[order[i]]

ThrownForReason == stage = "thrown" => ~(ValidRegistry /\ Wanted \subseteq Known)

ComposeIInv ==
  /\ ComposeTypeOK /\ Expansion /\ Progress /\ Search /\ PortsOfWired /\ ThrownForReason

(* The registries looked at map modules to sets of ids. *)
LEMMA NeedsType ==
  ASSUME ComposeTypeOK
  PROVE  Known \subseteq Ids /\ \A m \in Known : needs[m] \subseteq Ids
BY ComposeAssumption DEF ComposeAssumption, ComposeTypeOK, Known

LEMMA ComposeInitOK == ASSUME ComposeInit PROVE ComposeIInv
<1> USE DEF ComposeInit
<1>1. ComposeTypeOK
  <2>1. path \in Seq(Ids) /\ order \in Seq(Ids) /\ Len(order) = 0 OBVIOUS
  <2> QED BY <2>1 DEF ComposeTypeOK
<1>2. Expansion
  BY DEF Expansion, Seen, Wanted
<1>3. Progress BY DEF Progress
<1>4. Search /\ PortsOfWired /\ ThrownForReason
  <2>1. Len(order) = 0 OBVIOUS
  <2> QED BY <2>1 DEF Search, PortsOfWired, ThrownForReason
<1> QED BY <1>1, <1>2, <1>3, <1>4 DEF ComposeIInv

----------------------------------------------------------------------------
LEMMA TypeStep ==
  ASSUME ComposeTypeOK, [ComposeNext]_composeVars
  PROVE  ComposeTypeOK'
<1> USE DEF ComposeTypeOK, sorting, wiring, asked
<1>0. Known \subseteq Ids /\ \A m \in Known : needs[m] \subseteq Ids
  BY NeedsType
<1>1. CASE Expand BY <1>1, <1>0 DEF Expand
<1>2. CASE Expanded BY <1>2 DEF Expanded
<1>3. CASE Root
  <2>1. PICK id \in resolved : Enter(id) BY <1>3 DEF Root
  <2>2. path' \in Seq(Ids) BY <2>1, AppendProperties DEF Enter
  <2> QED BY <1>3, <2>1, <2>2 DEF Root, Enter
<1>4. CASE Descend
  <2>1. Top \in Ids BY <1>4 DEF Descend, Top
  <2>2. PICK d \in left[Top] :
          \/ /\ mark' = [mark EXCEPT ![d] = "visiting"] /\ path' = Append(path, d)
             /\ left' = [left EXCEPT ![Top] = @ \ {d}, ![d] = needs[d] \cap resolved]
             /\ UNCHANGED <<stage, order>>
          \/ left' = [left EXCEPT ![Top] = @ \ {d}] /\ UNCHANGED <<stage, mark, path, order>>
          \/ stage' = "thrown" /\ UNCHANGED sorting
    BY <1>4 DEF Descend
  <2>3. d \in Ids BY <2>1, <2>2
  <2>4. path' \in Seq(Ids) BY <2>2, <2>3, AppendProperties
  <2>5. left' \in [Ids -> SUBSET Ids]
    <3>1. left \in [Ids -> SUBSET Ids] /\ needs[d] \cap resolved \subseteq Ids /\ left[Top] \ {d} \subseteq Ids
      BY <2>1
    <3> HIDE DEF ComposeTypeOK
    <3>2. \A f \in [Ids -> SUBSET Ids], a, b \in Ids, x, y \in SUBSET Ids :
            [f EXCEPT ![a] = x] \in [Ids -> SUBSET Ids] /\ [f EXCEPT ![a] = x, ![b] = y] \in [Ids -> SUBSET Ids]
      OBVIOUS
    <3>3. \/ left' = [left EXCEPT ![Top] = left[Top] \ {d}, ![d] = needs[d] \cap resolved]
          \/ left' = [left EXCEPT ![Top] = left[Top] \ {d}]
          \/ left' = left
      <4>1. CASE left' = [left EXCEPT ![Top] = @ \ {d}, ![d] = needs[d] \cap resolved]
        BY <4>1, <2>1, <3>1
      <4>2. CASE left' = [left EXCEPT ![Top] = @ \ {d}] BY <4>2, <2>1, <3>1
      <4> QED BY <2>2, <4>1, <4>2 DEF sorting
    <3>4. left[Top] \ {d} \in SUBSET Ids /\ needs[d] \cap resolved \in SUBSET Ids BY <3>1
    <3> QED BY <2>1, <2>3, <3>1, <3>2, <3>3, <3>4
  <2> QED BY <1>4, <2>2, <2>3, <2>4, <2>5 DEF Descend
<1>5. CASE Leave
  <2>1. Top \in Ids /\ Len(path) \in Nat BY <1>5 DEF Leave, Top
  <2>2. order' \in Seq(Ids) /\ Len(order') = Len(order) + 1
    BY <1>5, <2>1, AppendProperties DEF Leave
  <2>3. path' \in Seq(Ids)
    <3>1. \A i \in 1..(Len(path) - 1) : path[i] \in Ids BY <2>1
    <3> QED BY <1>5, <2>1, <3>1, SubSeqProperties DEF Leave
  <2> QED BY <1>5, <2>1, <2>2, <2>3 DEF Leave
<1>6. CASE Sorted BY <1>6 DEF Sorted
<1>7. CASE Wire
  <2>1. order[wired + 1] \in Ids /\ Len(order) \in Nat BY <1>7 DEF Wire
  <2>2. Provides[order[wired + 1]] \subseteq Ports
    BY <2>1, ComposeAssumption DEF ComposeAssumption
  <2>3. \A r \in Active(order[wired + 1]) : r \subseteq Ids
    BY <2>1, ComposeAssumption DEF ComposeAssumption, Active
  <2> HIDE DEF ComposeTypeOK
  <2>4. wired' \in 0..Len(order) /\ ports' \subseteq Ports /\ stage' \in {"wire", "thrown"}
    BY <1>7, <2>1, <2>2 DEF Wire, ComposeTypeOK
  <2>5. shown' \subseteq Ids \X SUBSET Ids
    BY <1>7, <2>1, <2>3 DEF Wire, ComposeTypeOK
  <2> QED BY <1>7, <2>4, <2>5 DEF Wire, ComposeTypeOK
<1>8. CASE Wired BY <1>8 DEF Wired
<1>9. CASE UNCHANGED composeVars BY <1>9 DEF composeVars
<1> QED BY <1>1, <1>2, <1>3, <1>4, <1>5, <1>6, <1>7, <1>8, <1>9 DEF ComposeNext

(* The worklist: only Expand disturbs it. *)
LEMMA ExpansionStep ==
  ASSUME ComposeTypeOK, Expansion, [ComposeNext]_composeVars
  PROVE  Expansion'
<1>1. CASE Expand
  <2>1. PICK id \in pending :
          /\ UNCHANGED <<needs, request>>
          /\ IF id \in Known
             THEN /\ resolved' = resolved \cup {id}
                  /\ pending' = (pending \cup needs[id]) \ resolved'
                  /\ missing' = missing
             ELSE /\ missing' = missing \cup {id} /\ pending' = pending \ {id}
                  /\ resolved' = resolved
    BY <1>1 DEF Expand, asked
  <2>2. Wanted' = Wanted /\ Known' = Known
    BY <2>1 DEF Wanted, Closed, Known
  <2>3. id \in Wanted BY DEF Expansion, Seen
  <2>4. CASE id \in Known
    <3>1. needs[id] \subseteq Wanted
      <4> SUFFICES ASSUME NEW x \in needs[id], NEW S \in SUBSET Ids, request \subseteq S, Closed(S)
                   PROVE  x \in S
        BY <2>4, NeedsType DEF Wanted
      <4>1. id \in S BY <2>3 DEF Wanted
      <4> QED BY <2>4, <4>1 DEF Closed
    <3>2. Seen' = Seen \cup needs[id]
      BY <2>1, <2>4 DEF Seen
    <3> QED BY <2>1, <2>2, <2>3, <2>4, <3>1, <3>2 DEF Expansion
  <2>5. CASE id \notin Known
    <3>1. Seen' = Seen BY <2>1, <2>5 DEF Seen
    <3> QED BY <2>1, <2>2, <2>5, <3>1 DEF Expansion
  <2> QED BY <2>4, <2>5
<1>2. CASE UNCHANGED <<asked, resolved, pending, missing>>
  BY <1>2 DEF asked, Expansion, Seen, Wanted, Closed, Known
<1> QED
  BY <1>1, <1>2 DEF ComposeNext, composeVars, Expanded, Root, Descend, Leave, Sorted, Wire, Wired, asked

LEMMA ProgressStep ==
  ASSUME ComposeTypeOK, Progress, [ComposeNext]_composeVars
  PROVE  Progress'
<1> USE DEF Progress, sorting, wiring, asked
<1>1. CASE Expand BY <1>1 DEF Expand
<1>2. CASE Expanded BY <1>2 DEF Expanded
<1>3. CASE Root BY <1>3 DEF Root
<1>4. CASE Descend BY <1>4 DEF Descend
<1>5. CASE Leave BY <1>5 DEF Leave
<1>6. CASE Sorted BY <1>6 DEF Sorted
<1>7. CASE Wire BY <1>7 DEF Wire
<1>8. CASE Wired BY <1>8 DEF Wired
<1>9. CASE UNCHANGED composeVars BY <1>9 DEF composeVars
<1> QED BY <1>1, <1>2, <1>3, <1>4, <1>5, <1>6, <1>7, <1>8, <1>9 DEF ComposeNext

----------------------------------------------------------------------------
(* A module of the path leads to what the last one requires. *)
LEMMA PathReaches ==
  ASSUME ComposeTypeOK, Expansion, Marks, PathLeads,
         NEW i \in 1..Len(path), NEW d \in needs[Top]
  PROVE  d \in ClosureOf(path[i])
<1>1. Len(path) \in 1..Len(path) /\ i \in Nat /\ Len(path) \in Nat BY DEF ComposeTypeOK
<1>2. Top \in resolved /\ Top \in Known /\ d \in Ids
  BY <1>1, NeedsType DEF Marks, Expansion, Top
<1> SUFFICES ASSUME NEW S \in SUBSET Ids, needs[path[i]] \subseteq S, Closed(S)
             PROVE  d \in S
  BY <1>2 DEF ClosureOf
<1>3. CASE i = Len(path) BY <1>3 DEF Top
<1>4. CASE i # Len(path)
  <2>1. Top \in ClosureOf(path[i])
    BY <1>1, <1>4 DEF PathLeads, Top
  <2>2. Top \in S BY <2>1 DEF ClosureOf
  <2> QED BY <2>2, <1>2 DEF Closed
<1> QED BY <1>3, <1>4

(* Entering a new module that the last one requires, or a root. *)
LEMMA Entered ==
  ASSUME ComposeTypeOK, Expansion, Marks, PathLeads, PathAccounts, PlacedFirst,
         NEW d \in resolved, mark[d] = "new", resolved' = resolved, needs' = needs, order' = order,
         \A m \in resolved : needs[m] \subseteq resolved,
         path' = Append(path, d),
         mark' = [mark EXCEPT ![d] = "visiting"],
         \/ path = <<>> /\ left' = [left EXCEPT ![d] = needs[d] \cap resolved]
         \/ /\ path # <<>> /\ d \in left[Top]
            /\ left' = [left EXCEPT ![Top] = @ \ {d}, ![d] = needs[d] \cap resolved]
  PROVE  Marks' /\ PathLeads' /\ PathAccounts' /\ PlacedFirst'
<1>1. /\ path' \in Seq(Ids) /\ Len(path) \in Nat /\ Len(path') = Len(path) + 1
      /\ \A i \in 1..Len(path) : path'[i] = path[i]
      /\ path'[Len(path) + 1] = d
      /\ d \in Ids /\ resolved \subseteq Ids
  BY AppendProperties DEF ComposeTypeOK
<1>2. \A i \in 1..Len(path) : path[i] \in resolved /\ path[i] # d /\ mark[path[i]] = "visiting"
  BY <1>1 DEF Marks
<1>3. \A m \in Ids : mark'[m] = IF m = d THEN "visiting" ELSE mark[m]
  BY <1>1 DEF ComposeTypeOK
<1>4. Marks'
  <2>1. \A m \in Ids : mark'[m] = "visiting" <=> \E i \in 1..Len(path') : path'[i] = m
    <3>1. d \in Ids /\ mark'[d] = "visiting" /\ path'[Len(path')] = d /\ Len(path') \in 1..Len(path')
      BY <1>1, <1>3
    <3>2. ASSUME NEW m \in Ids, m # d
          PROVE  mark'[m] = "visiting" <=> \E i \in 1..Len(path') : path'[i] = m
      <4>1. mark'[m] = mark[m] BY <1>3, <3>2
      <4>2. (\E i \in 1..Len(path') : path'[i] = m) <=> \E i \in 1..Len(path) : path[i] = m
        BY <1>1, <3>2
      <4> QED BY <4>1, <4>2 DEF Marks
    <3> QED BY <3>1, <3>2
  <2>2. \A m \in Ids : mark'[m] = "done" <=> \E i \in 1..Len(order) : order[i] = m
    BY <1>3 DEF Marks
  <2>3. \A i \in 1..Len(path') : path'[i] \in resolved
    BY <1>1, <1>2
  <2>4. \A i, j \in 1..Len(path') : path'[i] = path'[j] => i = j
    BY <1>1, <1>2 DEF Marks
  <2>5. \A i \in 1..Len(order) : order[i] \in resolved BY DEF Marks
  <2> QED BY <2>1, <2>2, <2>3, <2>4, <2>5 DEF Marks
<1>5. PathLeads'
  <2>1. \A m \in Ids : ClosureOf(m)' = ClosureOf(m) BY DEF ClosureOf, Closed, Known
  <2>2. ASSUME NEW i \in 1..Len(path') , NEW j \in 1..Len(path'), i < j
        PROVE  path'[j] \in ClosureOf(path'[i])
    <3>1. i \in 1..Len(path) BY <1>1, <2>2
    <3>2. CASE j \in 1..Len(path) BY <1>1, <2>2, <3>1, <3>2 DEF PathLeads
    <3>3. CASE j = Len(path) + 1
      <4>1. path # <<>> BY <3>1, <1>1
      <4>2. Top \in resolved /\ d \in needs[Top]
        <5>1. Len(path) \in 1..Len(path) BY <1>1, <3>1
        <5> QED BY <4>1, <5>1, <1>2 DEF PathAccounts, Top
      <4>3. d \in ClosureOf(path[i]) BY <3>1, <4>2, PathReaches
      <4> QED BY <1>1, <3>1, <3>3, <4>3
    <3> QED BY <1>1, <3>2, <3>3
  <2>3. \A i \in 1..Len(path') : path'[i] \in Ids BY <1>1, <1>2
  <2> QED BY <2>1, <2>2, <2>3 DEF PathLeads
<1>6. PathAccounts'
  <2>1. left'[d] = needs[d] /\ needs[d] \cap resolved = needs[d]
    <3>1. Len(path) > 0 => Top \in Ids /\ Top # d BY <1>1, <1>2 DEF Top
    <3>2. path # <<>> => Len(path) > 0 BY EmptySeq DEF ComposeTypeOK
    <3>3. left \in [Ids -> SUBSET Ids] BY DEF ComposeTypeOK
    <3> QED BY <1>1, <3>1, <3>2, <3>3
  <2>2. \A m \in Ids : m # d /\ (path # <<>> => m # Top) => left'[m] = left[m]
    BY <1>1 DEF ComposeTypeOK
  <2>3. path # <<>> => Top \in Ids /\ Top # d /\ left'[Top] = left[Top] \ {d}
    <3>1. path # <<>> => Len(path) \in 1..Len(path) BY <1>1, EmptySeq DEF ComposeTypeOK
    <3> QED BY <1>1, <1>2, <3>1 DEF ComposeTypeOK, Top
  <2>4. ASSUME NEW i \in 1..Len(path')
        PROVE  /\ left'[path'[i]] \subseteq needs[path'[i]]
               /\ \A e \in needs[path'[i]] :
                    e \in left'[path'[i]] \/ mark'[e] = "done"
                      \/ (i < Len(path') /\ path'[i + 1] = e)
    <3>1. CASE i = Len(path) + 1 BY <1>1, <2>1, <3>1
    <3>2. CASE i \in 1..Len(path)
      <4>1. path'[i] = path[i] /\ path[i] \in Ids /\ path[i] # d /\ path # <<>> /\ i < Len(path')
        BY <1>1, <1>2, <3>2
      <4>2. \A e \in needs[path[i]] : e \in Ids /\ (mark[e] = "done" => mark'[e] = "done")
        BY <1>1, <1>2, <1>3, <3>2
      <4>3. CASE i = Len(path)
        <5>1. path[i] = Top BY <4>3 DEF Top
        <5>2. ASSUME NEW e \in needs[path[i]]
              PROVE  e \in left'[path[i]] \/ mark'[e] = "done" \/ path'[i + 1] = e
          <6>1. e \in left[path[i]] \/ mark[e] = "done"
            BY <3>2, <4>3, <5>2 DEF PathAccounts
          <6> QED BY <1>1, <2>3, <4>1, <4>2, <4>3, <5>1, <6>1
        <5>3. left'[path[i]] \subseteq needs[path[i]]
          BY <2>3, <3>2, <4>1, <5>1 DEF PathAccounts
        <5> QED BY <4>1, <5>2, <5>3
      <4>4. CASE i # Len(path)
        <5>1. path[i] # Top
          <6>1. Len(path) \in 1..Len(path) BY <1>1, <3>2
          <6> QED BY <3>2, <4>4, <6>1 DEF Marks, Top
        <5>2. left'[path[i]] = left[path[i]] BY <2>2, <4>1, <5>1
        <5>3. i + 1 \in 1..Len(path) /\ path'[i + 1] = path[i + 1] BY <1>1, <3>2, <4>4
        <5>4. ASSUME NEW e \in needs[path[i]]
              PROVE  e \in left'[path[i]] \/ mark'[e] = "done" \/ path'[i + 1] = e
          BY <3>2, <4>2, <5>2, <5>3 DEF PathAccounts
        <5>5. left'[path[i]] \subseteq needs[path[i]]
          BY <3>2, <5>2 DEF PathAccounts
        <5> QED BY <4>1, <5>4, <5>5
      <4> QED BY <4>3, <4>4
    <3>3. i = Len(path) + 1 \/ i \in 1..Len(path) BY <1>1
    <3> QED BY <3>1, <3>2, <3>3
  <2> QED BY <2>4 DEF PathAccounts
<1>7. PlacedFirst' BY DEF PlacedFirst
<1> QED BY <1>4, <1>5, <1>6, <1>7

(* Leaving a module all of whose dependencies have been looked at. *)
LEMMA Left ==
  ASSUME ComposeTypeOK, Expansion, Marks, PathLeads, PathAccounts, PlacedFirst, Leave
  PROVE  Marks' /\ PathLeads' /\ PathAccounts' /\ PlacedFirst'
<1>1. /\ Len(path) \in Nat \ {0} /\ Len(path') = Len(path) - 1
      /\ \A i \in 1..(Len(path) - 1) : path'[i] = path[i]
      /\ \A i \in 1..Len(path) : path[i] \in Ids
  <2>1. Len(path) \in Nat \ {0} BY EmptySeq DEF ComposeTypeOK, Leave
  <2>2. \A i \in 1..Len(path) : path[i] \in Ids BY DEF ComposeTypeOK
  <2>3. path' = SubSeq(path, 1, Len(path) - 1) BY DEF Leave
  <2> DEFINE n == Len(path) - 1
  <2>4. n \in Int /\ 1 \in Int /\ \A i \in 1..n : path[i] \in Ids BY <2>1, <2>2
  <2>5. /\ Len(SubSeq(path, 1, n)) = IF 1 <= n THEN n - 1 + 1 ELSE 0
        /\ \A i \in 1..(n - 1 + 1) : SubSeq(path, 1, n)[i] = path[1 + i - 1]
    <3> HIDE DEF n
    <3> QED BY <2>4, SubSeqProperties
  <2>6. Len(path') = n
    <3>1. n \in Nat BY <2>1
    <3>2. Len(path') = Len(SubSeq(path, 1, n)) BY <2>3
    <3> HIDE DEF n
    <3> QED BY <2>5, <3>1, <3>2
  <2>7. ASSUME NEW i \in 1..n PROVE path'[i] = path[i]
    <3>1. i \in 1..(n - 1 + 1) /\ 1 + i - 1 = i BY <2>4, <2>7
    <3>2. path'[i] = SubSeq(path, 1, n)[i] BY <2>3 DEF n
    <3> HIDE DEF n
    <3>3. SubSeq(path, 1, n)[i] = path[1 + i - 1] BY <2>5, <3>1
    <3> QED BY <3>1, <3>2, <3>3
  <2> QED BY <2>1, <2>2, <2>6, <2>7
<1>2. /\ Top = path[Len(path)] /\ Top \in Ids /\ Top \in resolved
  BY <1>1 DEF Top, Marks
<1>3. /\ Len(order) \in Nat /\ Len(order') = Len(order) + 1 /\ order'[Len(order) + 1] = Top
      /\ \A i \in 1..Len(order) : order'[i] = order[i]
  BY <1>2, AppendProperties DEF ComposeTypeOK, Leave
<1>4. \A m \in Ids : mark'[m] = IF m = Top THEN "done" ELSE mark[m]
  BY <1>2 DEF ComposeTypeOK, Leave
<1>5. \A i \in 1..(Len(path) - 1) : path[i] # Top
  BY <1>1, <1>2 DEF Marks
<1>6. resolved' = resolved /\ needs' = needs /\ left' = left BY DEF Leave, asked
<1>7. Marks'
  <2>1. ASSUME NEW m \in Ids
        PROVE  mark'[m] = "visiting" <=> \E i \in 1..Len(path') : path'[i] = m
    <3>1. CASE m = Top BY <1>1, <1>4, <1>5, <3>1
    <3>2. CASE m # Top
      <4>1. (\E i \in 1..Len(path') : path'[i] = m) <=> \E i \in 1..Len(path) : path[i] = m
        BY <1>1, <1>2, <3>2
      <4> QED BY <1>4, <3>2, <4>1 DEF Marks
    <3> QED BY <3>1, <3>2
  <2>2. ASSUME NEW m \in Ids
        PROVE  mark'[m] = "done" <=> \E i \in 1..Len(order') : order'[i] = m
    <3>1. CASE m = Top
      <4>1. Len(order) + 1 \in 1..Len(order') BY <1>3
      <4> QED BY <1>3, <1>4, <3>1, <4>1
    <3>2. CASE m # Top
      <4>1. (\E i \in 1..Len(order') : order'[i] = m) <=> \E i \in 1..Len(order) : order[i] = m
        BY <1>3, <3>2
      <4> QED BY <1>4, <3>2, <4>1 DEF Marks
    <3> QED BY <3>1, <3>2
  <2>3. \A i \in 1..Len(path') : path'[i] \in resolved' BY <1>1, <1>6 DEF Marks
  <2>4. \A i \in 1..Len(order') : order'[i] \in resolved'
    BY <1>2, <1>3, <1>6 DEF Marks
  <2>5. \A i, j \in 1..Len(path') : path'[i] = path'[j] => i = j BY <1>1 DEF Marks
  <2> QED BY <2>1, <2>2, <2>3, <2>4, <2>5 DEF Marks
<1>8. PathLeads'
  <2>1. \A m \in Ids : ClosureOf(m)' = ClosureOf(m) BY <1>6 DEF ClosureOf, Closed, Known
  <2> QED BY <1>1, <2>1 DEF PathLeads
<1>9. PathAccounts'
  <2> SUFFICES ASSUME NEW i \in 1..Len(path')
               PROVE  /\ left[path[i]] \subseteq needs[path[i]]
                      /\ \A d \in needs[path[i]] :
                           d \in left[path[i]] \/ mark'[d] = "done"
                             \/ (i < Len(path') /\ path'[i + 1] = d)
    BY <1>1, <1>6 DEF PathAccounts
  <2>1. i \in 1..Len(path) /\ i < Len(path) /\ i + 1 \in 1..Len(path) BY <1>1
  <2>2. left[path[i]] \subseteq needs[path[i]] BY <2>1 DEF PathAccounts
  <2>3. ASSUME NEW d \in needs[path[i]]
        PROVE  d \in left[path[i]] \/ mark'[d] = "done" \/ (i < Len(path') /\ path'[i + 1] = d)
    <3>1. d \in left[path[i]] \/ mark[d] = "done" \/ path[i + 1] = d
      BY <2>1, <2>3 DEF PathAccounts
    <3>2. CASE d \in left[path[i]] BY <3>2
    <3>3. CASE mark[d] = "done"
      <4>1. mark' = [mark EXCEPT ![Top] = "done"] /\ mark \in [Ids -> {"new", "visiting", "done"}]
        BY DEF Leave, ComposeTypeOK
      <4>2. mark'[d] = "done" BY <3>3, <4>1
      <4> QED BY <4>2
    <3>4. CASE path[i + 1] = d
      <4>1. CASE i + 1 = Len(path) BY <1>2, <1>4, <3>4, <4>1
      <4>2. CASE i + 1 < Len(path) BY <1>1, <2>1, <3>4, <4>2
      <4> QED BY <1>1, <2>1, <4>1, <4>2
    <3> QED BY <3>1, <3>2, <3>3, <3>4
  <2> QED BY <2>2, <2>3
<1>10. PlacedFirst'
  <2>1. \A d \in needs[Top] : \E j \in 1..Len(order) : order[j] = d
    <3>1. Len(path) \in 1..Len(path) BY <1>1
    <3>2. \A d \in needs[Top] : mark[d] = "done"
      BY <1>1, <1>2, <3>1 DEF PathAccounts, Leave
    <3>3. \A d \in needs[Top] : d \in Ids BY <1>2, NeedsType DEF Expansion
    <3> QED BY <3>2, <3>3 DEF Marks
  <2> QED BY <1>3, <1>6, <2>1 DEF PlacedFirst
<1> QED BY <1>7, <1>8, <1>9, <1>10

(* Passing over a dependency that is placed already. *)
LEMMA PassedBy ==
  ASSUME ComposeTypeOK, Marks, PathLeads, PathAccounts, PlacedFirst,
         path # <<>>, NEW d \in left[Top], mark[d] = "done",
         left' = [left EXCEPT ![Top] = @ \ {d}],
         UNCHANGED <<needs, resolved, mark, path, order>>
  PROVE  Marks' /\ PathLeads' /\ PathAccounts' /\ PlacedFirst'
<1>1. Len(path) \in 1..Len(path) /\ Top \in Ids
  BY EmptySeq DEF ComposeTypeOK, Top
<1>2. left'[Top] = left[Top] \ {d} /\ \A m \in Ids : m # Top => left'[m] = left[m]
  BY <1>1 DEF ComposeTypeOK
<1>3. PathAccounts'
  <2> SUFFICES ASSUME NEW i \in 1..Len(path)
               PROVE  /\ left'[path[i]] \subseteq needs[path[i]]
                      /\ \A e \in needs[path[i]] :
                           e \in left'[path[i]] \/ mark[e] = "done"
                             \/ (i < Len(path) /\ path[i + 1] = e)
    BY DEF PathAccounts
  <2>1. path[i] \in Ids BY DEF ComposeTypeOK
  <2>2. left[path[i]] \ {d} \subseteq left'[path[i]] /\ left'[path[i]] \subseteq left[path[i]]
    BY <1>2, <2>1
  <2> QED BY <2>2 DEF PathAccounts
<1>4. Marks' /\ PlacedFirst' BY DEF Marks, PlacedFirst
<1>5. PathLeads' BY DEF PathLeads, ClosureOf, Closed, Known
<1> QED BY <1>3, <1>4, <1>5

LEMMA SearchStep ==
  ASSUME ComposeTypeOK, Expansion, Progress, Search, [ComposeNext]_composeVars
  PROVE  Search'
<1>1. ASSUME stage # "expand", UNCHANGED <<asked, resolved, sorting>> PROVE Search'
  BY <1>1 DEF Search, asked, sorting, Marks, PathLeads, PathAccounts, PlacedFirst, ClosureOf, Closed, Known
<1>2. stage = "sort" => \A m \in resolved : needs[m] \subseteq resolved
  BY DEF Progress, Expansion, Seen
<1>3. CASE Expand BY <1>3 DEF Expand, Search
<1>4. CASE Expanded
  <2>1. mark' = [m \in Ids |-> "new"] /\ path' = <<>> /\ order' = <<>> /\ Len(<<>>) = 0
    BY <1>4 DEF Expanded, Progress, sorting
  <2> QED BY <2>1 DEF Search, Marks, PathLeads, PathAccounts, PlacedFirst
<1>5. CASE Root
  <2>1. stage = "sort" /\ path = <<>> /\ resolved' = resolved /\ needs' = needs
    BY <1>5 DEF Root, asked
  <2>2. PICK d \in resolved : mark[d] = "new" /\ Enter(d) BY <1>5 DEF Root
  <2> QED BY <2>1, <2>2, <1>2, Entered DEF Enter, Search
<1>6. CASE Descend
  <2>1. /\ stage = "sort" /\ path # <<>>
        /\ resolved' = resolved /\ needs' = needs
        /\ Marks /\ PathLeads /\ PathAccounts /\ PlacedFirst
    BY <1>6 DEF Descend, asked, Search
  <2>2. PICK d \in left[Top] :
         \/ /\ mark[d] = "new"
            /\ mark' = [mark EXCEPT ![d] = "visiting"]
            /\ path' = Append(path, d)
            /\ left' = [left EXCEPT ![Top] = @ \ {d}, ![d] = needs[d] \cap resolved]
            /\ UNCHANGED <<stage, order>>
         \/ /\ mark[d] = "done"
            /\ left' = [left EXCEPT ![Top] = @ \ {d}]
            /\ UNCHANGED <<stage, mark, path, order>>
         \/ mark[d] = "visiting" /\ stage' = "thrown" /\ UNCHANGED sorting
    BY <1>6 DEF Descend
  <2>3. d \in resolved
    <3>1. Len(path) \in 1..Len(path) BY <2>1, EmptySeq DEF ComposeTypeOK
    <3>2. Top \in resolved /\ left[Top] \subseteq needs[Top]
      BY <2>1, <3>1 DEF Marks, PathAccounts, Top
    <3> QED BY <1>2, <2>1, <3>2
  <2>4. CASE mark[d] = "new" BY <2>1, <2>2, <2>3, <2>4, <1>2, Entered DEF Search
  <2>5. CASE mark[d] = "done" BY <2>1, <2>2, <2>5, PassedBy DEF Search
  <2>6. CASE mark[d] = "visiting"
    <3>1. UNCHANGED <<asked, resolved, sorting>> BY <1>6, <2>2, <2>6 DEF Descend
    <3> QED BY <1>1, <2>1, <3>1
  <2> QED BY <2>2, <2>4, <2>5, <2>6
<1>7. CASE Leave BY <1>7, Left DEF Leave, Search
<1>8. CASE Sorted BY <1>1, <1>8 DEF Sorted
<1>9. CASE Wire BY <1>1, <1>9 DEF Wire
<1>10. CASE Wired BY <1>1, <1>10 DEF Wired
<1>11. CASE UNCHANGED composeVars
  BY <1>11 DEF composeVars, Search, Marks, PathLeads, PathAccounts, PlacedFirst, ClosureOf, Closed, Known
<1> QED
  BY <1>3, <1>4, <1>5, <1>6, <1>7, <1>8, <1>9, <1>10, <1>11 DEF ComposeNext

LEMMA PortsStep ==
  ASSUME ComposeTypeOK, Progress, PortsOfWired, [ComposeNext]_composeVars
  PROVE  PortsOfWired'
<1>1. ASSUME UNCHANGED <<order, wired, ports>> PROVE PortsOfWired'
  BY <1>1 DEF PortsOfWired
<1>2. CASE Leave
  BY <1>2 DEF Leave, PortsOfWired, Progress, wiring
<1>3. CASE Wire
  <2>1. CASE ports' = ports \cup Provides[order[wired + 1]] /\ wired' = wired + 1
    <3>1. order' = order /\ wired \in Nat BY <1>3 DEF Wire, sorting, ComposeTypeOK
    <3>2. 1..(wired + 1) = (1..wired) \cup {wired + 1} BY <3>1
    <3> QED BY <2>1, <3>1, <3>2 DEF PortsOfWired
  <2> QED BY <1>1, <1>3, <2>1 DEF Wire, wiring, sorting
<1>4. CASE Root
  <2>1. order' = order BY <1>4 DEF Root, Enter
  <2> QED BY <1>1, <1>4, <2>1 DEF Root, wiring
<1>5. CASE Descend BY <1>1, <1>5 DEF Descend, wiring, sorting
<1> QED
  BY <1>1, <1>2, <1>3, <1>4, <1>5
  DEF ComposeNext, composeVars, Expand, Expanded, Sorted, Wired, sorting, wiring

LEMMA ThrownStep ==
  ASSUME ComposeIInv, [ComposeNext]_composeVars
  PROVE  ThrownForReason'
<1> USE DEF ComposeIInv
<1>0. (ValidRegistry /\ Wanted \subseteq Known)' => (ValidRegistry /\ Wanted \subseteq Known)
  <2>1. needs' = needs /\ request' = request
    BY DEF ComposeNext, composeVars, Expand, Expanded, Root, Descend, Leave, Sorted, Wire, Wired, asked
  <2> QED BY <2>1 DEF ValidRegistry, Wanted, ClosureOf, Closed, Known
<1>1. ASSUME stage' # stage, stage' = "thrown", ValidRegistry, Wanted \subseteq Known
      PROVE  FALSE
  <2>1. CASE Expanded
    <3>1. missing # {} BY <1>1, <2>1 DEF Expanded
    <3> QED BY <1>1, <3>1 DEF Expansion, Seen
  <2>2. CASE Descend
    <3>1. PICK d \in left[Top] : mark[d] = "visiting" BY <1>1, <2>2 DEF Descend
    <3>2. stage = "sort" /\ path # <<>> BY <2>2 DEF Descend
    <3>3. Marks /\ PathLeads /\ PathAccounts BY <3>2 DEF Search
    <3>4. Len(path) \in 1..Len(path) BY <3>2, EmptySeq DEF ComposeTypeOK
    <3>5. d \in needs[Top] /\ Top \in Known
      BY <3>3, <3>4 DEF PathAccounts, Marks, Expansion, Top
    <3>6. d \in Ids BY <3>5, NeedsType
    <3>7. PICK i \in 1..Len(path) : path[i] = d BY <3>1, <3>3, <3>6 DEF Marks
    <3>8. d \in ClosureOf(d) BY <3>3, <3>5, <3>7, PathReaches
    <3>9. d \in Known BY <3>3, <3>7 DEF Marks, Expansion
    <3> QED BY <1>1, <3>8, <3>9 DEF ValidRegistry
  <2>3. CASE Wire
    <3> DEFINE m == order[wired + 1]
               before == {order[i] : i \in 1..wired}
    <3>1. /\ stage = "wire" /\ wired + 1 \in 1..Len(order) /\ wired \in Nat
          /\ ~(Consumes[m] \subseteq ports \cup Provides[m])
      BY <1>1, <2>3 DEF Wire, ComposeTypeOK
    <3>2. Marks /\ PlacedFirst BY <3>1 DEF Search
    <3>3. m \in Known /\ m \in Ids BY <3>1, <3>2 DEF Marks, Expansion, ComposeTypeOK
    <3>4. PICK p \in Consumes[m] : p \notin ports /\ p \notin Provides[m] BY <3>1
    <3>5. p \in Ports BY <3>3, ComposeAssumption DEF ComposeAssumption
    <3>6. PICK owner \in Known : p \in Provides[owner] /\ owner \in ClosureOf(m)
      <4> HIDE DEF m
      <4> QED BY <1>1, <3>3, <3>4, <3>5 DEF ValidRegistry
    <3>7. before \in SUBSET Ids /\ needs[m] \subseteq before /\ Closed(before)
      <4>1. \A i \in 1..wired : order[i] \in Ids BY <3>1 DEF ComposeTypeOK
      <4>2. needs[m] \subseteq before
        <5>1. (wired + 1) - 1 = wired BY <3>1
        <5>2. \A d \in needs[m] : \E j \in 1..((wired + 1) - 1) : order[j] = d BY <3>1, <3>2 DEF PlacedFirst
        <5> QED BY <5>1, <5>2
      <4>3. ASSUME NEW i \in 1..wired, NEW d \in needs[order[i]] PROVE d \in before
        <5>1. i \in 1..Len(order) BY <3>1
        <5>2. PICK j \in 1..(i - 1) : order[j] = d BY <3>2, <5>1 DEF PlacedFirst
        <5> QED BY <3>1, <5>2
      <4> QED BY <4>1, <4>2, <4>3 DEF Closed
    <3>8. owner \in before
      <4> HIDE DEF before, m
      <4> QED BY <3>6, <3>7 DEF ClosureOf
    <3> QED BY <3>4, <3>5, <3>6, <3>8 DEF PortsOfWired
  <2> QED
    BY <1>1, <2>1, <2>2, <2>3
    DEF ComposeNext, composeVars, Expand, Root, Leave, Sorted, Wired
<1> QED BY <1>0, <1>1 DEF ThrownForReason

LEMMA ComposeStep == ASSUME ComposeIInv, [ComposeNext]_composeVars PROVE ComposeIInv'
BY TypeStep, ExpansionStep, ProgressStep, SearchStep, PortsStep, ThrownStep DEF ComposeIInv

(* The inductive invariant holds throughout. *)
THEOREM ComposeInvariant == ComposeSpec => []ComposeIInv
BY ComposeInitOK, ComposeStep, PTL DEF ComposeSpec

(* The variables of resolveTenant keep their types. *)
THEOREM ComposeTypeCorrect == ComposeSpec => []ComposeTypeOK
<1>1. ComposeIInv => ComposeTypeOK BY DEF ComposeIInv
<1> QED BY <1>1, ComposeInvariant, PTL

(* A valid registry composes for every tenant. *)
THEOREM ValidRegistriesCompose == ComposeSpec => []ValidComposes
<1>1. ComposeIInv => ValidComposes
  <2> SUFFICES ASSUME ComposeIInv, ValidRegistry, request \subseteq Known PROVE stage # "thrown"
    BY DEF ValidComposes
  <2>1. Known \in SUBSET Ids /\ Closed(Known)
    BY NeedsType DEF ComposeIInv, ValidRegistry, Closed
  <2>2. Wanted \subseteq Known BY <2>1 DEF Wanted
  <2> QED BY <2>2 DEF ComposeIInv, ThrownForReason
<1> QED BY <1>1, ComposeInvariant, PTL

(* Dependencies come before what depends on them. *)
THEOREM DependenciesComeFirst == ComposeSpec => []DependenciesFirst
<1>1. ComposeIInv => DependenciesFirst
  BY DEF ComposeIInv, Search, PlacedFirst, DependenciesFirst
<1> QED BY <1>1, ComposeInvariant, PTL

----------------------------------------------------------------------------
(* What is wired when the call returns is the least closed set. *)
LEMMA ComposedIsWanted ==
  ASSUME ComposeIInv, stage \in {"wire", "composed"}
  PROVE  Placed = Wanted /\ Wanted \subseteq Known
<1> USE DEF ComposeIInv
<1>1. Seen = resolved BY DEF Progress, Seen
<1>2. Placed = resolved
  <2>1. Marks /\ \A m \in resolved : mark[m] = "done" BY DEF Search, Progress
  <2> QED BY <2>1 DEF Marks, Placed, ComposeTypeOK
<1>3. resolved \in SUBSET Ids /\ request \subseteq resolved /\ Closed(resolved)
  BY <1>1 DEF Expansion, Closed, ComposeTypeOK
<1>4. Wanted \subseteq resolved BY <1>3 DEF Wanted
<1> QED BY <1>1, <1>2, <1>4 DEF Expansion

LEMMA SameClosure == Wanted = Promised!Closure(needs, request)
BY DEF Wanted, Closed, Known, Promised!Closure, Promised!Closed

(* Every step answers as the promise says or not at all. *)
LEMMA StepRefines ==
  ASSUME ComposeIInv, ComposeIInv', [ComposeNext]_composeVars
  PROVE  [Promised!Answer]_<<ValidRegistry, needs, request, Reply>>
<1>1. needs' = needs /\ request' = request
  BY DEF ComposeNext, composeVars, Expand, Expanded, Root, Descend, Leave, Sorted, Wire, Wired, asked
<1>2. ValidRegistry' = ValidRegistry
  <2>1. ValidRegistry' <=> ValidRegistry BY <1>1 DEF ValidRegistry, ClosureOf, Closed, Known
  <2> QED BY <2>1 DEF ValidRegistry
<1>3. CASE Wired
  <2>1. stage = "wire" /\ stage' = "composed" /\ Placed' = Placed
    BY <1>3 DEF Wired, sorting, Placed
  <2>2. Placed = Promised!Closure(needs, request) /\ Placed \subseteq DOMAIN needs
    BY <2>1, ComposedIsWanted, SameClosure DEF Known
  <2> QED BY <1>1, <1>2, <2>1, <2>2 DEF Promised!Answer, Reply
<1>4. ASSUME stage' = "thrown", stage \notin {"thrown", "composed"} PROVE Promised!Answer
  <2>1. ~(ValidRegistry /\ Promised!Closure(needs, request) \subseteq DOMAIN needs)
    <3>1. Wanted' = Wanted /\ Known' = Known BY <1>1 DEF Wanted, Closed, Known
    <3>2. ~(ValidRegistry /\ Wanted \subseteq Known)
      BY <1>2, <1>4, <3>1 DEF ComposeIInv, ThrownForReason
    <3> QED BY <3>2, SameClosure DEF Known
  <2> QED BY <1>1, <1>2, <1>4, <2>1 DEF Promised!Answer, Reply
<1>5. ASSUME stage' \notin {"thrown", "composed"}, stage \notin {"thrown", "composed"}
      PROVE  Reply' = Reply
  BY <1>5 DEF Reply
<1>6. CASE UNCHANGED composeVars
  BY <1>1, <1>2, <1>6 DEF composeVars, Reply, Placed
<1>7. ComposeNext => stage \notin {"thrown", "composed"} /\ (Wired \/ stage' # "composed")
  <2>1. Expand => stage = "expand" /\ stage' # "composed" BY DEF Expand
  <2> QED BY <2>1 DEF ComposeNext, Expanded, Root, Descend, Leave, Sorted, Wire, Wired, sorting
<1> QED BY <1>1, <1>2, <1>3, <1>4, <1>5, <1>6, <1>7

(* resolveTenant implements what it promises. *)
THEOREM ResolveImplementsAssembly == ComposeSpec => ComposeRefines
<1>1. ComposeInit => Promised!AssemblyInit
  BY ComposeAssumption
  DEF ComposeInit, ComposeAssumption, Promised!AssemblyInit, Reply, ValidRegistry
<1>2. ComposeIInv /\ ComposeIInv' /\ [ComposeNext]_composeVars
        => [Promised!Answer]_<<ValidRegistry, needs, request, Reply>>
  BY StepRefines
<1> QED
  BY <1>1, <1>2, ComposeInvariant, PTL DEF ComposeSpec, ComposeRefines, Promised!AssemblySpec

----------------------------------------------------------------------------
(* Documents and the links to them.                                        *)

Types == DocTypes \cup {Untyped}
People == Parties \cup {Nobody}
Document == [content : Contents, key : Nat, type : Types, party : People, status : {"filed", "needs_review"}]
File == [content : Contents, by : Sent, saw : Nat]
Upload == [at : {"look", "store", "insert", "done", "failed"}, file : Nat, key : Nat,
           type : Types, party : People, saw : Nat]
Share == [doc : Nat, expires : Nat, revoked : Nat \cup {Never}, views : Nat]

Typed ==
  /\ documents \in Seq(Document) /\ files \in Seq(File) /\ uploads \in [Sent -> Upload]
  /\ \A u \in Sent : uploads[u].file \in 1..Len(FilesOf[u])
  /\ shares \in Seq(Share) /\ urls \subseteq [share : Nat, until : Nat] /\ tick \in Nat

(* A row names a stored file, with the content of the row. *)
RowsHaveFiles ==
  \A i \in Rows : /\ documents[i].key \in DOMAIN files
                  /\ files[documents[i].key].content = documents[i].content
                  /\ documents[i].status = "needs_review" <=> documents[i].type = Untyped

(* Before the row is inserted, an upload has found or stored its file. *)
UploadsHaveFiles ==
  \A u \in Sent :
    /\ uploads[u].at \in {"look", "store", "done"} => uploads[u].key = 0
    /\ uploads[u].at = "insert" => /\ uploads[u].key \in DOMAIN files
                                   /\ files[uploads[u].key].content = ContentOf(u)

FilesHaveRows ==
  \A k \in DOMAIN files : \/ \E i \in Rows : documents[i].key = k
                          \/ uploads[files[k].by].at = "failed" \/ uploads[files[k].by].key = k

(* What was not there when an upload looked is not among the oldest rows.  *)
NotSeen(content, saw) ==
  saw <= Len(documents) /\ \A i \in 1..saw : documents[i].content # content

LooksWereEmpty ==
  /\ \A u \in Sent : uploads[u].at = "store" => NotSeen(ContentOf(u), uploads[u].saw)
  /\ \A k \in DOMAIN files : NotSeen(files[k].content, files[k].saw)

SharesHaveRows == \A s \in DOMAIN shares : shares[s].doc \in Rows /\ shares[s].revoked <= tick

(* An address was made while its link was live. *)
UrlsAreShort ==
  \A a \in urls :
    /\ a.share \in DOMAIN shares
    /\ a.until < shares[a.share].expires + UrlTtl
    /\ a.until <= tick + UrlTtl
    /\ shares[a.share].revoked # Never => a.until <= shares[a.share].revoked + UrlTtl

IntakeIInv ==
  /\ Typed /\ RowsHaveFiles /\ UploadsHaveFiles /\ FilesHaveRows /\ LooksWereEmpty
  /\ SharesHaveRows /\ UrlsAreShort

----------------------------------------------------------------------------
LEMMA ConstantsTyped ==
  /\ \A u \in Sent : FilesOf[u] \in Seq(Contents) /\ Len(FilesOf[u]) \in Nat /\ 1 \in 1..Len(FilesOf[u])
                      /\ Given[u] \in People
                      /\ \A i \in 1..Len(FilesOf[u]) : FilesOf[u][i] \in Contents
  /\ \A c \in Contents : Reads[c] \in Types /\ Matches[c] \in People
  /\ ShareTtl \in Nat /\ UrlTtl \in Nat /\ Untyped \notin DocTypes
<1>1. ASSUME NEW u \in Sent
      PROVE  /\ FilesOf[u] \in Seq(Contents) /\ Len(FilesOf[u]) \in Nat /\ 1 \in 1..Len(FilesOf[u])
             /\ Given[u] \in People /\ \A i \in 1..Len(FilesOf[u]) : FilesOf[u][i] \in Contents
  <2>1. FilesOf[u] \in Seq(Contents) /\ FilesOf[u] # <<>> /\ Given[u] \in People
    BY IntakeAssumption DEF IntakeAssumption, Sent, People
  <2> QED BY <2>1
<1> QED BY <1>1, IntakeAssumption DEF IntakeAssumption, Types, People

LEMMA IntakeInitOK == ASSUME IntakeInit PROVE IntakeIInv
<1> USE DEF IntakeInit
<1>1. Typed
  <2>1. Fresh \in Upload BY DEF Fresh, Upload, Types, People
  <2> QED BY <2>1, ConstantsTyped DEF Typed, Fresh
<1>2. UploadsHaveFiles BY DEF UploadsHaveFiles, Fresh
<1> QED BY <1>1, <1>2 DEF IntakeIInv, RowsHaveFiles, FilesHaveRows, LooksWereEmpty, SharesHaveRows, UrlsAreShort,
                          Rows, Fresh

----------------------------------------------------------------------------
(* Links and the clock. *)

LEMMA ShareDocumentsStep == ASSUME IntakeIInv, ShareDocuments PROVE IntakeIInv'
<1>1. PICK chosen \in SUBSET Rows : \E list \in SetToSeqs(chosen) :
             shares' = shares \o [k \in DOMAIN list |-> NewShare(list[k])]
  BY DEF ShareDocuments
<1>2. PICK list \in SetToSeqs(chosen) : shares' = shares \o [k \in DOMAIN list |-> NewShare(list[k])]
  BY <1>1
<1>3. UNCHANGED <<documents, files, uploads, urls, tick>> BY DEF ShareDocuments
<1>4. IsFiniteSet(chosen) /\ Rows = 1..Len(documents) /\ Len(documents) \in Nat
  <2>1. Rows = 1..Len(documents) /\ Len(documents) \in Nat BY DEF IntakeIInv, Typed, Rows
  <2>2. IsFiniteSet(1..Len(documents)) BY <2>1, FS_Interval
  <2> QED BY <2>1, <2>2, FS_Subset
<1>5. list \in Seq(Rows)
  <2>1. Cardinality(chosen) \in Nat BY <1>4, FS_CardinalityType
  <2>2. list \in [1..Cardinality(chosen) -> chosen] BY DEF SetToSeqs
  <2> QED BY <2>1, <2>2
<1> DEFINE new == [k \in DOMAIN list |-> NewShare(list[k])]
<1>6. new \in Seq(Share) /\ \A k \in DOMAIN new : new[k].doc \in Rows /\ new[k].revoked = Never
  <2>1. \A k \in DOMAIN list : list[k] \in Rows /\ list[k] \in Nat BY <1>4, <1>5
  <2>2. tick + ShareTtl \in Nat BY ConstantsTyped DEF IntakeIInv, Typed
  <2>3. \A k \in DOMAIN list : NewShare(list[k]) \in Share BY <2>1, <2>2 DEF NewShare, Share
  <2>4. DOMAIN list = 1..Len(list) /\ Len(list) \in Nat BY <1>5
  <2>5. new \in Seq(Share) BY <2>3, <2>4
  <2> QED BY <2>1, <2>5 DEF NewShare
<1> HIDE DEF new
<1>7. shares \in Seq(Share) /\ shares' = shares \o new BY <1>2 DEF new, IntakeIInv, Typed
<1>8. /\ shares' \in Seq(Share) /\ Len(shares') = Len(shares) + Len(new)
      /\ \A s \in DOMAIN shares : s \in DOMAIN shares' /\ shares'[s] = shares[s]
      /\ \A s \in DOMAIN shares' : s \notin DOMAIN shares =>
            s - Len(shares) \in DOMAIN new /\ shares'[s] = new[s - Len(shares)]
  BY <1>6, <1>7
<1>9. Typed' BY <1>3, <1>8 DEF IntakeIInv, Typed
<1>10. SharesHaveRows'
  <2>1. tick \in Nat /\ Never <= tick BY DEF IntakeIInv, Typed, Never
  <2> QED BY <1>3, <1>6, <1>8, <2>1 DEF IntakeIInv, SharesHaveRows, Rows
<1>11. UrlsAreShort' BY <1>3, <1>8 DEF IntakeIInv, UrlsAreShort
<1>12. RowsHaveFiles' /\ UploadsHaveFiles' /\ FilesHaveRows' /\ LooksWereEmpty'
  BY <1>3 DEF IntakeIInv, RowsHaveFiles, UploadsHaveFiles, FilesHaveRows, LooksWereEmpty, NotSeen, Rows, ContentOf
<1> QED BY <1>9, <1>10, <1>11, <1>12 DEF IntakeIInv

(* The steps that touch one link, or none. *)
LEMMA ShareStep ==
  ASSUME IntakeIInv,
         \/ TickPasses
         \/ \E s \in DOMAIN shares : RevokeShare(s) \/ ResolveTitle(s) \/ OpenShare(s)
  PROVE  IntakeIInv'
<1>1. UNCHANGED <<documents, files, uploads>>
  BY DEF TickPasses, RevokeShare, ResolveTitle, OpenShare
<1>2. RowsHaveFiles' /\ UploadsHaveFiles' /\ FilesHaveRows' /\ LooksWereEmpty'
  BY <1>1 DEF IntakeIInv, RowsHaveFiles, UploadsHaveFiles, FilesHaveRows, LooksWereEmpty, NotSeen, Rows, ContentOf
<1>3. /\ shares \in Seq(Share) /\ tick \in Nat /\ urls \subseteq [share : Nat, until : Nat]
      /\ UrlTtl \in Nat /\ SharesHaveRows /\ UrlsAreShort
  BY ConstantsTyped DEF IntakeIInv, Typed
<1>4. CASE TickPasses
  <2>1. Typed' BY <1>1, <1>3, <1>4 DEF TickPasses, IntakeIInv, Typed
  <2>2. SharesHaveRows'
    <3>1. ASSUME NEW s \in DOMAIN shares PROVE shares[s].revoked \in Int
      <4>1. shares[s] \in Share BY <1>3
      <4>2. shares[s].revoked \in Nat \cup {-1} BY <4>1 DEF Share, Never
      <4> QED BY <4>2
    <3> QED BY <1>1, <1>3, <1>4, <3>1 DEF TickPasses, SharesHaveRows, Rows
  <2>3. UrlsAreShort' BY <1>3, <1>4 DEF TickPasses, UrlsAreShort
  <2> QED BY <1>2, <2>1, <2>2, <2>3 DEF IntakeIInv
<1>5. ASSUME NEW s \in DOMAIN shares, RevokeShare(s) PROVE IntakeIInv'
  <2>1. /\ shares[s] \in Share /\ shares[s].revoked = Never
        /\ shares' = [shares EXCEPT ![s].revoked = tick] /\ UNCHANGED <<urls, tick>>
    BY <1>3, <1>5 DEF RevokeShare
  <2>2. /\ shares' \in Seq(Share) /\ DOMAIN shares' = DOMAIN shares
        /\ \A x \in DOMAIN shares : /\ shares'[x].doc = shares[x].doc
                                    /\ shares'[x].expires = shares[x].expires
                                    /\ shares'[x].revoked = IF x = s THEN tick ELSE shares[x].revoked
    <3>1. [shares[s] EXCEPT !.revoked = tick] \in Share BY <1>3, <2>1 DEF Share
    <3> QED BY <1>3, <2>1, <3>1 DEF Share
  <2>3. Typed' BY <1>1, <2>1, <2>2 DEF IntakeIInv, Typed
  <2>4. SharesHaveRows' BY <1>1, <1>3, <2>1, <2>2 DEF SharesHaveRows, Rows
  <2>5. UrlsAreShort' BY <1>3, <2>1, <2>2 DEF UrlsAreShort
  <2> QED BY <1>2, <2>3, <2>4, <2>5 DEF IntakeIInv
<1>6. ASSUME NEW s \in DOMAIN shares, ResolveTitle(s) \/ OpenShare(s) PROVE IntakeIInv'
  <2>1. /\ shares[s] \in Share /\ shares[s].revoked = Never /\ shares[s].expires > tick
        /\ shares' = [shares EXCEPT ![s].views = 1] /\ tick' = tick
        /\ urls' \subseteq urls \cup {[share |-> s, until |-> tick + UrlTtl]}
    BY <1>3, <1>6 DEF ResolveTitle, OpenShare, Live
  <2>2. /\ shares' \in Seq(Share) /\ DOMAIN shares' = DOMAIN shares
        /\ \A x \in DOMAIN shares : /\ shares'[x].doc = shares[x].doc
                                    /\ shares'[x].expires = shares[x].expires
                                    /\ shares'[x].revoked = shares[x].revoked
    <3>1. [shares[s] EXCEPT !.views = 1] \in Share BY <2>1 DEF Share
    <3> QED BY <1>3, <2>1, <3>1 DEF Share
  <2>3. s \in Nat /\ tick + UrlTtl \in Nat BY <1>3
  <2>4. urls' \subseteq [share : Nat, until : Nat] BY <1>3, <2>1, <2>3
  <2>5. Typed' BY <1>1, <1>3, <2>1, <2>2, <2>4 DEF IntakeIInv, Typed
  <2>6. SharesHaveRows' BY <1>1, <1>3, <2>1, <2>2 DEF SharesHaveRows, Rows
  <2>7. UrlsAreShort'
    <3>1. shares[s].expires \in Nat BY <2>1 DEF Share
    <3>2. tick + UrlTtl < shares[s].expires + UrlTtl BY <1>3, <2>1, <3>1
    <3>3. ASSUME NEW a \in urls', a \notin urls
          PROVE  a.share = s /\ a.until = tick + UrlTtl
      BY <2>1, <3>3
    <3> QED BY <1>3, <2>1, <2>2, <3>2, <3>3 DEF UrlsAreShort
  <2> QED BY <1>2, <2>5, <2>6, <2>7 DEF IntakeIInv
<1> QED BY <1>4, <1>5, <1>6

----------------------------------------------------------------------------
(* Corrections: neither the content nor the file of a row changes. *)
LEMMA CorrectionStep ==
  ASSUME IntakeIInv, NEW i \in Rows, NEW row \in Document,
         row.content = documents[i].content, row.key = documents[i].key,
         row.status = "needs_review" <=> row.type = Untyped,
         documents' = [documents EXCEPT ![i] = row],
         UNCHANGED <<files, uploads, shares, urls, tick>>
  PROVE  IntakeIInv'
<1>1. documents \in Seq(Document) BY DEF IntakeIInv, Typed
<1>2. /\ documents' \in Seq(Document) /\ Len(documents') = Len(documents) /\ Rows' = Rows
      /\ documents'[i] = row /\ \A j \in Rows : j # i => documents'[j] = documents[j]
  BY <1>1 DEF Rows
<1>3. \A j \in Rows : documents'[j].content = documents[j].content /\ documents'[j].key = documents[j].key
  BY <1>2
<1>4. Typed' BY <1>2 DEF IntakeIInv, Typed
<1>5. RowsHaveFiles'
  <2>1. ASSUME NEW j \in Rows
        PROVE  /\ documents'[j].key \in DOMAIN files /\ files[documents'[j].key].content = documents'[j].content
               /\ documents'[j].status = "needs_review" <=> documents'[j].type = Untyped
    <3>1. /\ documents[j].key \in DOMAIN files /\ files[documents[j].key].content = documents[j].content
          /\ documents[j].status = "needs_review" <=> documents[j].type = Untyped
      BY DEF IntakeIInv, RowsHaveFiles
    <3>2. CASE j = i BY <1>2, <1>3, <3>1, <3>2
    <3>3. CASE j # i BY <1>2, <3>1, <3>3
    <3> QED BY <3>2, <3>3
  <2> QED BY <1>2, <2>1 DEF RowsHaveFiles
<1>6. UploadsHaveFiles' BY DEF IntakeIInv, UploadsHaveFiles, ContentOf
<1>7. FilesHaveRows' BY <1>2, <1>3 DEF IntakeIInv, FilesHaveRows
<1>8. LooksWereEmpty'
  <2>1. Rows = 1..Len(documents) /\ Len(documents) \in Nat BY <1>1 DEF Rows
  <2>2. ASSUME NEW c, NEW saw \in Nat, NotSeen(c, saw) PROVE NotSeen(c, saw)'
    <3>1. \A j \in 1..saw : j \in Rows BY <2>1, <2>2 DEF NotSeen
    <3> QED BY <1>2, <1>3, <2>2, <3>1 DEF NotSeen
  <2>3. \A u \in Sent : uploads[u].saw \in Nat /\ ContentOf(u)' = ContentOf(u)
    BY DEF IntakeIInv, Typed, Upload, ContentOf
  <2>4. ASSUME NEW k \in DOMAIN files PROVE files[k].saw \in Nat
    <3>1. files[k] \in File BY DEF IntakeIInv, Typed
    <3> QED BY <3>1 DEF File
  <2>5. \A u \in Sent : uploads'[u].at = "store" => NotSeen(ContentOf(u), uploads[u].saw)'
    BY <2>2, <2>3 DEF IntakeIInv, LooksWereEmpty
  <2>6. \A k \in DOMAIN files' : NotSeen(files[k].content, files[k].saw)'
    BY <2>2, <2>4 DEF IntakeIInv, LooksWereEmpty
  <2> QED BY <2>5, <2>6 DEF LooksWereEmpty
<1>9. SharesHaveRows' BY <1>2 DEF IntakeIInv, SharesHaveRows
<1>10. UrlsAreShort' BY DEF IntakeIInv, UrlsAreShort
<1> QED BY <1>4, <1>5, <1>6, <1>7, <1>8, <1>9, <1>10 DEF IntakeIInv

LEMMA CorrectionsStep == ASSUME IntakeIInv, AssignDocument \/ RetypeDocument PROVE IntakeIInv'
<1>1. documents \in Seq(Document) /\ \A i \in Rows : documents[i] \in Document
  BY DEF IntakeIInv, Typed, Rows
<1>2. CASE AssignDocument
  <2>1. PICK i \in Rows, p \in People : /\ documents' = [documents EXCEPT ![i].party = p]
                                        /\ UNCHANGED <<files, uploads, shares, urls, tick>>
    BY <1>2 DEF AssignDocument, People
  <2> DEFINE row == [documents[i] EXCEPT !.party = p]
  <2>2. /\ row \in Document /\ row.content = documents[i].content /\ row.key = documents[i].key
        /\ row.status = documents[i].status /\ row.type = documents[i].type
    BY <1>1, <2>1 DEF Document
  <2>3. documents[i].status = "needs_review" <=> documents[i].type = Untyped
    BY DEF IntakeIInv, RowsHaveFiles
  <2>4. documents' = [documents EXCEPT ![i] = row] BY <2>1
  <2>5. row.status = "needs_review" <=> row.type = Untyped BY <2>2, <2>3
  <2> HIDE DEF row
  <2> QED BY <2>1, <2>2, <2>4, <2>5, CorrectionStep
<1>3. CASE RetypeDocument
  <2>1. PICK i \in Rows, t \in DocTypes :
          /\ documents' = [documents EXCEPT ![i].type = t, ![i].status = "filed"]
          /\ UNCHANGED <<files, uploads, shares, urls, tick>>
    BY <1>3 DEF RetypeDocument
  <2> DEFINE row == [documents[i] EXCEPT !.type = t, !.status = "filed"]
  <2>2. /\ row \in Document /\ row.content = documents[i].content /\ row.key = documents[i].key
        /\ row.status = "filed" /\ row.type = t
    BY <1>1, <2>1 DEF Document, Types
  <2>3. row.status = "needs_review" <=> row.type = Untyped BY <2>1, <2>2, ConstantsTyped
  <2>4. documents' = [documents EXCEPT ![i] = row] BY <2>1
  <2> HIDE DEF row
  <2> QED BY <2>1, <2>2, <2>3, <2>4, CorrectionStep
<1> QED BY <1>2, <1>3

----------------------------------------------------------------------------
(* Uploads. *)

(* A step of one upload that adds neither a row nor a file. *)
LEMMA UploadStep ==
  ASSUME IntakeIInv, NEW u \in Sent, NEW up \in Upload, uploads' = [uploads EXCEPT ![u] = up],
         up.file = uploads[u].file, uploads[u].at # "failed",
         up.at = "failed" \/ uploads[u].key = 0,
         up.at = "store" => up.key = 0 /\ NotSeen(ContentOf(u), up.saw),
         up.at \notin {"look", "done"},
         up.at = "insert" => up.key \in DOMAIN files /\ files[up.key].content = ContentOf(u),
         UNCHANGED <<documents, files, shares, urls, tick>>
  PROVE  IntakeIInv'
<1>1. /\ uploads \in [Sent -> Upload] /\ uploads' \in [Sent -> Upload] /\ uploads'[u] = up
      /\ \A w \in Sent : w # u => uploads'[w] = uploads[w]
      /\ \A w \in Sent : uploads'[w].file = uploads[w].file /\ ContentOf(w)' = ContentOf(w)
  BY DEF IntakeIInv, Typed, ContentOf
<1>2. Typed' BY <1>1 DEF IntakeIInv, Typed
<1>3. RowsHaveFiles' /\ SharesHaveRows' /\ UrlsAreShort'
  BY DEF IntakeIInv, RowsHaveFiles, SharesHaveRows, UrlsAreShort, Rows
<1>4. UploadsHaveFiles' BY <1>1 DEF IntakeIInv, UploadsHaveFiles
<1>5. FilesHaveRows'
  <2>1. ASSUME NEW k \in DOMAIN files
        PROVE  \/ \E i \in Rows : documents[i].key = k
               \/ uploads'[files[k].by].at = "failed" \/ uploads'[files[k].by].key = k
    <3>1. files \in Seq(File) BY DEF IntakeIInv, Typed
    <3>2. files[k] \in File /\ k # 0 BY <3>1
    <3>3. files[k].by \in Sent BY <3>2 DEF File
    <3>4. \/ \E i \in Rows : documents[i].key = k
          \/ uploads[files[k].by].at = "failed" \/ uploads[files[k].by].key = k
      BY DEF IntakeIInv, FilesHaveRows
    <3>5. CASE files[k].by = u BY <1>1, <3>2, <3>4, <3>5
    <3>6. CASE files[k].by # u BY <1>1, <3>3, <3>4, <3>6
    <3> QED BY <3>5, <3>6
  <2>2. files' = files /\ Rows' = Rows /\ documents' = documents BY DEF Rows
  <2> QED BY <2>1, <2>2 DEF FilesHaveRows
<1>6. LooksWereEmpty' BY <1>1 DEF IntakeIInv, LooksWereEmpty, NotSeen
<1> QED BY <1>2, <1>3, <1>4, <1>5, <1>6 DEF IntakeIInv

LEMMA FindByHashStep == ASSUME IntakeIInv, NEW u \in Sent, FindByHash(u) PROVE IntakeIInv'
<1> DEFINE Same == {i \in Rows : documents[i].content = ContentOf(u)}
<1>1. /\ uploads[u].at = "look" /\ uploads[u] \in Upload /\ uploads[u].key = 0
      /\ uploads \in [Sent -> Upload] /\ documents \in Seq(Document)
      /\ UNCHANGED <<documents, files, shares, urls, tick>>
  <2>1. uploads[u].at = "look" /\ UNCHANGED <<documents, files, shares, urls, tick>> BY DEF FindByHash
  <2>2. uploads \in [Sent -> Upload] /\ documents \in Seq(Document) BY DEF IntakeIInv, Typed
  <2>3. uploads[u].key = 0 BY <2>1 DEF IntakeIInv, UploadsHaveFiles
  <2> QED BY <2>1, <2>2, <2>3
<1> Rows = 1..Len(documents) /\ Len(documents) \in Nat BY <1>1 DEF Rows
<1>2. ASSUME NEW i \in Same,
             uploads' = [uploads EXCEPT ![u].at = "insert", ![u].saw = Len(documents),
               ![u].key = documents[i].key, ![u].type = documents[i].type,
               ![u].party = OrElse(Given[u], documents[i].party, Nobody)]
      PROVE  IntakeIInv'
  <2> DEFINE up == [uploads[u] EXCEPT !.at = "insert", !.saw = Len(documents),
                      !.key = documents[i].key, !.type = documents[i].type,
                      !.party = OrElse(Given[u], documents[i].party, Nobody)]
  <2>1. documents[i] \in Document /\ i \in Rows /\ documents[i].content = ContentOf(u) BY <1>1, <1>2
  <2>2. OrElse(Given[u], documents[i].party, Nobody) \in People
    BY <2>1, ConstantsTyped DEF OrElse, Document
  <2>3. up \in Upload /\ up.at = "insert" /\ up.key = documents[i].key /\ up.file = uploads[u].file
    BY <1>1, <2>1, <2>2 DEF Upload, Document
  <2>4. uploads' = [uploads EXCEPT ![u] = up] BY <1>2
  <2>5. up.key \in DOMAIN files /\ files[up.key].content = ContentOf(u)
    BY <2>1, <2>3 DEF IntakeIInv, RowsHaveFiles
  <2> HIDE DEF up
  <2> QED BY <1>1, <2>3, <2>4, <2>5, UploadStep
<1>3. ASSUME Same = {}, uploads' = [uploads EXCEPT ![u].at = "store", ![u].saw = Len(documents)]
      PROVE  IntakeIInv'
  <2> DEFINE up == [uploads[u] EXCEPT !.at = "store", !.saw = Len(documents)]
  <2>1. up \in Upload /\ up.at = "store" /\ up.key = 0 /\ up.file = uploads[u].file
        /\ up.saw = Len(documents)
    BY <1>1 DEF Upload
  <2>2. uploads' = [uploads EXCEPT ![u] = up] BY <1>3
  <2>3. NotSeen(ContentOf(u), up.saw) BY <1>1, <1>3, <2>1 DEF NotSeen
  <2> HIDE DEF up
  <2> QED BY <1>1, <2>1, <2>2, <2>3, UploadStep
<1> QED BY <1>2, <1>3 DEF FindByHash

LEMMA FailUploadStep == ASSUME IntakeIInv, NEW u \in Sent, FailUpload(u) PROVE IntakeIInv'
<1> DEFINE up == [uploads[u] EXCEPT !.at = "failed"]
<1>1. /\ uploads[u] \in Upload /\ uploads' = [uploads EXCEPT ![u] = up] /\ uploads[u].at # "failed"
      /\ UNCHANGED <<documents, files, shares, urls, tick>>
  BY DEF FailUpload, IntakeIInv, Typed
<1>2. up \in Upload /\ up.at = "failed" /\ up.file = uploads[u].file BY <1>1 DEF Upload
<1> HIDE DEF up
<1> QED BY <1>1, <1>2, UploadStep

LEMMA StoreFileStep == ASSUME IntakeIInv, NEW u \in Sent, StoreFile(u) PROVE IntakeIInv'
<1> DEFINE new == [content |-> ContentOf(u), by |-> u, saw |-> uploads[u].saw]
<1>1. /\ uploads[u].at = "store" /\ files' = Append(files, new)
      /\ UNCHANGED <<documents, shares, urls, tick>>
  BY DEF StoreFile
<1>2. PICK type \in {Reads[ContentOf(u)], Untyped}, match \in {Matches[ContentOf(u)], Nobody} :
        uploads' = [uploads EXCEPT ![u].at = "insert", ![u].key = Len(files'),
                      ![u].type = type, ![u].party = OrElse(Given[u], match, Nobody)]
  BY DEF StoreFile
<1> DEFINE up == [uploads[u] EXCEPT !.at = "insert", !.key = Len(files'), !.type = type,
                    !.party = OrElse(Given[u], match, Nobody)]
<1>3. /\ uploads \in [Sent -> Upload] /\ uploads[u] \in Upload /\ files \in Seq(File)
      /\ uploads[u].file \in 1..Len(FilesOf[u])
  BY DEF IntakeIInv, Typed
<1>4. ContentOf(u) \in Contents BY <1>3, ConstantsTyped DEF ContentOf
<1>5. new \in File BY <1>3, <1>4 DEF File, Upload
<1>6. /\ files' \in Seq(File) /\ Len(files') = Len(files) + 1 /\ Len(files) \in Nat
      /\ DOMAIN files = 1..Len(files) /\ DOMAIN files' = 1..(Len(files) + 1)
      /\ files'[Len(files')] = new /\ \A k \in DOMAIN files : files'[k] = files[k]
  BY <1>1, <1>3, <1>5
<1>7. type \in Types /\ OrElse(Given[u], match, Nobody) \in People
  BY <1>2, <1>4, ConstantsTyped DEF OrElse, Types, People
<1>8. /\ up \in Upload /\ up.at = "insert" /\ up.key = Len(files') /\ up.file = uploads[u].file
      /\ uploads' = [uploads EXCEPT ![u] = up]
  <2>1. Len(files') \in Nat BY <1>6
  <2>2. up \in Upload BY <1>3, <1>7, <2>1 DEF Upload
  <2>3. up.at = "insert" /\ up.key = Len(files') /\ up.file = uploads[u].file BY <1>3 DEF Upload
  <2>4. uploads' = [uploads EXCEPT ![u] = up] BY <1>2, <1>3 DEF Upload
  <2> QED BY <2>2, <2>3, <2>4
<1>9. new.content = ContentOf(u) /\ new.by = u /\ new.saw = uploads[u].saw OBVIOUS
<1> HIDE DEF up, new
<1>10. /\ uploads' \in [Sent -> Upload] /\ uploads'[u] = up
       /\ \A w \in Sent : w # u => uploads'[w] = uploads[w]
       /\ \A w \in Sent : uploads'[w].file = uploads[w].file /\ ContentOf(w)' = ContentOf(w)
  BY <1>3, <1>8 DEF ContentOf
<1>11. Typed' BY <1>1, <1>6, <1>10 DEF IntakeIInv, Typed
<1>12. RowsHaveFiles' BY <1>1, <1>6 DEF IntakeIInv, RowsHaveFiles, Rows
<1>13. UploadsHaveFiles'
  <2>1. Len(files') \in DOMAIN files' BY <1>6
  <2>2. ASSUME NEW w \in Sent
        PROVE  /\ uploads'[w].at \in {"look", "store", "done"} => uploads'[w].key = 0
               /\ uploads'[w].at = "insert" => /\ uploads'[w].key \in DOMAIN files'
                                               /\ files'[uploads'[w].key].content = ContentOf(w)
    <3>1. CASE w = u BY <1>6, <1>8, <1>9, <1>10, <2>1, <3>1
    <3>2. CASE w # u BY <1>6, <1>10, <3>2 DEF IntakeIInv, UploadsHaveFiles
    <3> QED BY <3>1, <3>2
  <2> QED BY <1>10, <2>2 DEF UploadsHaveFiles
<1>14. FilesHaveRows'
  <2>1. uploads[u].key = 0 BY <1>1 DEF IntakeIInv, UploadsHaveFiles
  <2>2. ASSUME NEW k \in DOMAIN files
        PROVE  \/ \E i \in Rows : documents[i].key = k
               \/ uploads'[files[k].by].at = "failed" \/ uploads'[files[k].by].key = k
    <3>1. files[k] \in File /\ k # 0 BY <1>3, <1>6
    <3>2. files[k].by \in Sent BY <3>1 DEF File
    <3>3. \/ \E i \in Rows : documents[i].key = k
          \/ uploads[files[k].by].at = "failed" \/ uploads[files[k].by].key = k
      BY DEF IntakeIInv, FilesHaveRows
    <3>4. CASE files[k].by = u BY <1>1, <2>1, <3>1, <3>3, <3>4
    <3>5. CASE files[k].by # u BY <1>10, <3>2, <3>3, <3>5
    <3> QED BY <3>4, <3>5
  <2>3. uploads'[files'[Len(files')].by].key = Len(files') BY <1>6, <1>8, <1>9, <1>10
  <2>4. \A k \in DOMAIN files' : k \in DOMAIN files \/ k = Len(files') BY <1>6
  <2>5. Rows' = Rows BY <1>1 DEF Rows
  <2> QED BY <1>1, <1>6, <2>2, <2>3, <2>4, <2>5 DEF FilesHaveRows
<1>15. LooksWereEmpty'
  <2>1. NotSeen(ContentOf(u), uploads[u].saw) BY <1>1 DEF IntakeIInv, LooksWereEmpty
  <2>2. NotSeen(files'[Len(files')].content, files'[Len(files')].saw) BY <1>6, <1>9, <2>1
  <2>3. \A k \in DOMAIN files : NotSeen(files'[k].content, files'[k].saw)
    BY <1>6 DEF IntakeIInv, LooksWereEmpty
  <2>4. \A k \in DOMAIN files' : NotSeen(files'[k].content, files'[k].saw) BY <1>6, <2>2, <2>3
  <2>5. \A w \in Sent : uploads'[w].at = "store" => NotSeen(ContentOf(w), uploads'[w].saw)
    BY <1>8, <1>10 DEF IntakeIInv, LooksWereEmpty
  <2>6. \A c, n : NotSeen(c, n)' <=> NotSeen(c, n) BY <1>1 DEF NotSeen
  <2> QED BY <1>1, <1>10, <2>4, <2>5 DEF LooksWereEmpty, NotSeen
<1>16. SharesHaveRows' /\ UrlsAreShort' BY <1>1 DEF IntakeIInv, SharesHaveRows, UrlsAreShort, Rows
<1> QED BY <1>11, <1>12, <1>13, <1>14, <1>15, <1>16 DEF IntakeIInv

LEMMA InsertDocumentStep == ASSUME IntakeIInv, NEW u \in Sent, InsertDocument(u) PROVE IntakeIInv'
<1> DEFINE row == [content |-> ContentOf(u), key |-> uploads[u].key, type |-> uploads[u].type,
                   party |-> uploads[u].party,
                   status |-> IF uploads[u].type = Untyped THEN "needs_review" ELSE "filed"]
           up == IF uploads[u].file < Len(FilesOf[u]) THEN [Fresh EXCEPT !.file = uploads[u].file + 1]
                 ELSE [Fresh EXCEPT !.at = "done", !.file = uploads[u].file]
<1>1. /\ uploads[u].at = "insert" /\ documents' = Append(documents, row)
      /\ uploads' = [uploads EXCEPT ![u] = up] /\ UNCHANGED <<files, shares, urls, tick>>
  BY DEF InsertDocument
<1>2. /\ uploads \in [Sent -> Upload] /\ uploads[u] \in Upload /\ documents \in Seq(Document)
      /\ uploads[u].file \in 1..Len(FilesOf[u]) /\ Len(FilesOf[u]) \in Nat
  BY ConstantsTyped DEF IntakeIInv, Typed
<1>3. ContentOf(u) \in Contents BY <1>2, ConstantsTyped DEF ContentOf
<1>4. /\ row \in Document /\ row.key = uploads[u].key /\ row.content = ContentOf(u)
      /\ row.status = "needs_review" <=> row.type = Untyped
  BY <1>2, <1>3 DEF Document, Upload
<1>5. /\ up \in Upload /\ up.at \in {"look", "done"} /\ up.key = 0 /\ up.file \in 1..Len(FilesOf[u])
  <2>1. Fresh \in Upload /\ Fresh.at = "look" /\ Fresh.key = 0 BY DEF Fresh, Upload, Types, People
  <2>2. CASE uploads[u].file < Len(FilesOf[u])
    <3>1. /\ uploads[u].file + 1 \in Nat \ {0} /\ uploads[u].file + 1 \in 1..Len(FilesOf[u])
          /\ up = [Fresh EXCEPT !.file = uploads[u].file + 1]
      BY <1>2, <2>2
    <3> HIDE DEF up
    <3> QED BY <2>1, <3>1 DEF Upload
  <2>3. CASE ~(uploads[u].file < Len(FilesOf[u]))
    <3>1. /\ uploads[u].file \in 1..Len(FilesOf[u]) /\ uploads[u].file \in Nat
          /\ up = [Fresh EXCEPT !.at = "done", !.file = uploads[u].file]
      BY <1>2, <2>3
    <3> HIDE DEF up
    <3> QED BY <1>2, <2>1, <3>1 DEF Upload
  <2> QED BY <2>2, <2>3
<1>6. uploads[u].key \in DOMAIN files /\ files[uploads[u].key].content = ContentOf(u)
  BY <1>1 DEF IntakeIInv, UploadsHaveFiles
<1> HIDE DEF row, up
<1>7. /\ documents' \in Seq(Document) /\ Len(documents') = Len(documents) + 1 /\ Len(documents) \in Nat
      /\ Rows = 1..Len(documents) /\ Rows' = 1..(Len(documents) + 1)
      /\ documents'[Len(documents) + 1] = row /\ \A i \in Rows : documents'[i] = documents[i]
  BY <1>1, <1>2, <1>4 DEF Rows
<1>8. /\ uploads' \in [Sent -> Upload] /\ uploads'[u] = up
      /\ \A w \in Sent : w # u => uploads'[w] = uploads[w] /\ ContentOf(w)' = ContentOf(w)
  BY <1>1, <1>2, <1>5 DEF ContentOf
<1>9. Typed'
  <2>1. \A w \in Sent : uploads'[w].file \in 1..Len(FilesOf[w]) BY <1>5, <1>8 DEF IntakeIInv, Typed
  <2> QED BY <1>1, <1>7, <1>8, <2>1 DEF IntakeIInv, Typed
<1>10. RowsHaveFiles'
  <2>1. ASSUME NEW i \in Rows'
        PROVE  /\ documents'[i].key \in DOMAIN files /\ files[documents'[i].key].content = documents'[i].content
               /\ documents'[i].status = "needs_review" <=> documents'[i].type = Untyped
    <3>1. CASE i \in Rows BY <1>7, <3>1 DEF IntakeIInv, RowsHaveFiles
    <3>2. CASE i \notin Rows
      <4>1. i = Len(documents) + 1 BY <1>7, <3>2
      <4> QED BY <1>4, <1>6, <1>7, <4>1
    <3> QED BY <3>1, <3>2
  <2> QED BY <1>1, <2>1 DEF RowsHaveFiles
<1>11. UploadsHaveFiles' BY <1>1, <1>5, <1>8 DEF IntakeIInv, UploadsHaveFiles
<1>12. FilesHaveRows'
  <2>1. ASSUME NEW k \in DOMAIN files
        PROVE  \/ \E i \in Rows' : documents'[i].key = k
               \/ uploads'[files[k].by].at = "failed" \/ uploads'[files[k].by].key = k
    <3>1. files[k] \in File BY DEF IntakeIInv, Typed
    <3>2. files[k].by \in Sent BY <3>1 DEF File
    <3>3. CASE \E i \in Rows : documents[i].key = k BY <1>7, <3>3
    <3>4. CASE files[k].by # u BY <1>7, <1>8, <3>2, <3>4 DEF IntakeIInv, FilesHaveRows
    <3>5. CASE files[k].by = u /\ uploads[u].key = k
      <4>1. Len(documents) + 1 \in Rows' /\ documents'[Len(documents) + 1].key = k BY <1>4, <1>7, <3>5
      <4> QED BY <4>1
    <3> QED BY <1>1, <3>3, <3>4, <3>5 DEF IntakeIInv, FilesHaveRows
  <2> QED BY <1>1, <2>1 DEF FilesHaveRows
<1>13. LooksWereEmpty'
  <2>1. ASSUME NEW c, NEW saw \in Nat, NotSeen(c, saw) PROVE NotSeen(c, saw)'
    <3>1. \A j \in 1..saw : j \in Rows BY <1>7, <2>1 DEF NotSeen
    <3> QED BY <1>7, <2>1, <3>1 DEF NotSeen
  <2>2. \A w \in Sent : uploads[w].saw \in Nat BY <1>2 DEF Upload
  <2>3. ASSUME NEW k \in DOMAIN files PROVE NotSeen(files[k].content, files[k].saw)'
    <3>1. files[k] \in File BY DEF IntakeIInv, Typed
    <3>2. files[k].saw \in Nat BY <3>1 DEF File
    <3> QED BY <1>1, <2>1, <3>2 DEF IntakeIInv, LooksWereEmpty
  <2>4. ASSUME NEW w \in Sent, uploads'[w].at = "store" PROVE NotSeen(ContentOf(w), uploads[w].saw)'
    <3>1. w # u BY <1>5, <1>8, <2>4
    <3>2. uploads'[w] = uploads[w] /\ ContentOf(w)' = ContentOf(w) BY <1>8, <3>1
    <3>3. NotSeen(ContentOf(w), uploads[w].saw) BY <2>4, <3>2 DEF IntakeIInv, LooksWereEmpty
    <3> QED BY <2>1, <2>2, <3>2, <3>3
  <2> QED BY <1>1, <2>3, <2>4 DEF LooksWereEmpty
<1>14. SharesHaveRows'
  <2>1. \A i \in Rows : i \in Rows' BY <1>7
  <2> QED BY <1>1, <2>1 DEF IntakeIInv, SharesHaveRows
<1>15. UrlsAreShort' BY <1>1 DEF IntakeIInv, UrlsAreShort
<1> QED BY <1>9, <1>10, <1>11, <1>12, <1>13, <1>14, <1>15 DEF IntakeIInv

----------------------------------------------------------------------------
LEMMA IntakeStep == ASSUME IntakeIInv, [UploadNext \/ ShareNext]_intakeVars PROVE IntakeIInv'
<1>1. CASE UNCHANGED intakeVars
  BY <1>1 DEF intakeVars, IntakeIInv, Typed, RowsHaveFiles, UploadsHaveFiles, FilesHaveRows, LooksWereEmpty,
              NotSeen, SharesHaveRows, UrlsAreShort, Rows, ContentOf
<1>2. CASE UploadNext BY <1>2, CorrectionsStep, FindByHashStep, StoreFileStep, InsertDocumentStep, FailUploadStep
                      DEF UploadNext
<1>3. CASE ShareNext BY <1>3, ShareDocumentsStep, ShareStep DEF ShareNext
<1> QED BY <1>1, <1>2, <1>3

(* The invariant of Intake. *)
THEOREM IntakeInvariant == IntakeSpec => []IntakeIInv
BY IntakeInitOK, IntakeStep, PTL DEF IntakeSpec

(* However uploads overlap and wherever they stop, every row has its file, *)
(* a file without a row belongs to an upload that failed or is at it, and  *)
(* a content is stored twice only by uploads that did not see each other   *)
(* (api/documents/upload/route.ts).                                        *)
THEOREM Accounted == IntakeSpec => []FilesAreAccountedFor
<1>1. ASSUME IntakeIInv PROVE FilesAreAccountedFor
  <2>1. ASSUME NEW k \in DOMAIN files, NEW j \in DOMAIN files, files[k].content = files[j].content,
               NEW i \in 1..files[k].saw
        PROVE  documents[i].key # j
    <3>1. documents[i].content # files[k].content /\ files[k].saw <= Len(documents)
      BY <1>1, <2>1 DEF IntakeIInv, LooksWereEmpty, NotSeen
    <3>2. documents \in Seq(Document) /\ files[k] \in File BY <1>1 DEF IntakeIInv, Typed
    <3>3. files[k].saw \in Nat BY <3>2 DEF File
    <3>4. i \in Rows BY <3>1, <3>2, <3>3 DEF Rows
    <3> QED BY <1>1, <2>1, <3>1, <3>4 DEF IntakeIInv, RowsHaveFiles
  <2> QED BY <1>1, <2>1 DEF IntakeIInv, RowsHaveFiles, FilesHaveRows, FilesAreAccountedFor
<1> QED BY <1>1, IntakeInvariant, PTL

(* A link that was revoked or has expired shows its document for the life  *)
(* of a signed address at most (shares.ts, file-signing.ts).               *)
THEOREM ShortLived == IntakeSpec => []LinksDieSoon
<1>1. ASSUME IntakeIInv PROVE LinksDieSoon
  <2>1. ASSUME NEW a \in urls, Readable(a)
        PROVE  /\ tick < shares[a.share].expires + UrlTtl
               /\ shares[a.share].revoked # Never => tick <= shares[a.share].revoked + UrlTtl
    <3>1. /\ a.share \in DOMAIN shares /\ a.until \in Nat /\ tick \in Nat /\ tick <= a.until
          /\ a.until < shares[a.share].expires + UrlTtl
          /\ shares[a.share].revoked # Never => a.until <= shares[a.share].revoked + UrlTtl
      BY <1>1, <2>1 DEF IntakeIInv, Typed, UrlsAreShort, Readable
    <3>2. shares[a.share] \in Share BY <1>1, <3>1 DEF IntakeIInv, Typed
    <3>3. /\ shares[a.share].expires + UrlTtl \in Int
          /\ shares[a.share].revoked # Never => shares[a.share].revoked + UrlTtl \in Int
      BY <3>2, ConstantsTyped DEF Share, Never
    <3> QED BY <3>1, <3>3
  <2> QED BY <2>1 DEF LinksDieSoon
<1> QED BY <1>1, IntakeInvariant, PTL

----------------------------------------------------------------------------
(* Checks, and the alerts about them, leases and papers.                   *)

(* Months: a day is in its month, and a day of an earlier month is before  *)
(* the first of this one.                                                  *)
LEMMA MonthOfDay ==
  ASSUME NEW d \in Nat
  PROVE  /\ MonthOf(d) \in Nat /\ FirstOf(MonthOf(d)) \in Nat
         /\ FirstOf(MonthOf(d)) <= d /\ d < FirstOf(MonthOf(d)) + MonthLength
BY ChecksAssumption, Z3 DEF MonthOf, FirstOf

LEMMA EarlierMonth ==
  ASSUME NEW a \in Nat, NEW b \in Nat, a < b
  PROVE  FirstOf(a) + MonthLength <= FirstOf(b)
<1>1. PICK k \in Nat : b = a + 1 + k
  <2>1. b - a - 1 \in Nat /\ b = a + 1 + (b - a - 1)
    OBVIOUS
  <2>. QED
    BY <2>1
<1>. DEFINE m == MonthLength
<1>2. m \in Nat
  BY ChecksAssumption
<1>. HIDE DEF m
<1>3. (a + 1 + k) * m = a * m + m + k * m /\ k * m \in Nat /\ a * m \in Nat
  BY <1>2
<1>4. a * m + m <= b * m
  BY <1>1, <1>2, <1>3
<1>. QED
  BY <1>4 DEF m, FirstOf

(* What is before the first of the month of some day is of an earlier one, *)
(* and what is of an earlier one is before.                                *)
LEMMA BeforeMonth ==
  ASSUME NEW e \in Nat, NEW d \in Nat
  PROVE  /\ e < FirstOf(MonthOf(d)) <=> MonthOf(e) < MonthOf(d)
         /\ e <= d => MonthOf(e) <= MonthOf(d)
<1>1. /\ MonthOf(e) \in Nat /\ MonthOf(d) \in Nat
      /\ FirstOf(MonthOf(e)) \in Nat /\ FirstOf(MonthOf(d)) \in Nat
      /\ FirstOf(MonthOf(e)) <= e /\ e < FirstOf(MonthOf(e)) + MonthLength
      /\ FirstOf(MonthOf(d)) <= d /\ d < FirstOf(MonthOf(d)) + MonthLength
      /\ MonthLength \in Nat
  BY MonthOfDay, ChecksAssumption
<1>2. MonthOf(e) < MonthOf(d) => FirstOf(MonthOf(e)) + MonthLength <= FirstOf(MonthOf(d))
  BY <1>1, EarlierMonth
<1>3. MonthOf(d) < MonthOf(e) => FirstOf(MonthOf(d)) + MonthLength <= FirstOf(MonthOf(e))
  BY <1>1, EarlierMonth
<1>4. CASE MonthOf(e) < MonthOf(d)
  BY <1>1, <1>2, <1>4
<1>5. CASE MonthOf(d) < MonthOf(e)
  BY <1>1, <1>3, <1>5
<1>6. CASE MonthOf(e) = MonthOf(d)
  BY <1>1, <1>6
<1>. QED
  BY <1>1, <1>4, <1>5, <1>6

----------------------------------------------------------------------------
CheckTypes ==
  /\ checkStatus \in [CheckIds -> CheckStatuses \cup {NoCheck}]
  /\ clearedAmount \in [CheckIds -> Nat] /\ today \in Nat

Due == {c \in CheckRows : checkStatus[c] = "pending" /\ DueOn[c] <= today}
Dragged == OverdueChecks(FirstOf(MonthOf(today)))
Month == ChecksForMonth(MonthOf(today))

LEMMA RowTypes ==
  ASSUME CheckTypes
  PROVE  /\ CheckRows \subseteq CheckIds
         /\ \A c \in CheckRows : /\ DueOn[c] \in Nat /\ Amount[c] \in Int /\ clearedAmount[c] \in Int
                                 /\ checkStatus[c] \in CheckStatuses
         /\ today \in Nat
BY ChecksAssumption DEF CheckTypes, CheckRows

LEMMA RowsFinite == ASSUME NEW X, X \subseteq CheckIds PROVE IsFiniteSet(X)
BY FS_Subset, ChecksAssumption

(* What is due and unmarked is dragged along or of this month, never both. *)
LEMMA DueIsShown ==
  ASSUME CheckTypes
  PROVE  /\ Due = Dragged \cup {c \in Month : DisplayStatus(c) \in {"overdue", "due_today"}}
         /\ Dragged \cap Month = {}
         /\ \A c \in CheckRows : DisplayStatus(c) = "overdue" <=> c \in OverdueChecks(today)
         /\ OverdueChecks(today) = Dragged \cup {c \in Month : DisplayStatus(c) = "overdue"}
<1>1. \A c \in CheckRows :
        /\ DueOn[c] \in Nat /\ MonthOf(DueOn[c]) \in Nat /\ checkStatus[c] \in CheckStatuses
        /\ DueOn[c] < FirstOf(MonthOf(today)) <=> MonthOf(DueOn[c]) < MonthOf(today)
        /\ DueOn[c] <= today => MonthOf(DueOn[c]) <= MonthOf(today)
  BY RowTypes, MonthOfDay, BeforeMonth
<1>2. MonthOf(today) \in Nat /\ FirstOf(MonthOf(today)) \in Nat /\ FirstOf(MonthOf(today)) <= today /\ today \in Nat
  BY RowTypes, MonthOfDay
<1>3. \A c \in CheckRows : /\ DisplayStatus(c) = "overdue" <=> checkStatus[c] = "pending" /\ DueOn[c] < today
                           /\ DisplayStatus(c) = "due_today" <=> checkStatus[c] = "pending" /\ DueOn[c] = today
  BY <1>1, <1>2 DEF DisplayStatus, CheckStatuses
<1>. QED
  BY <1>1, <1>2, <1>3 DEF Due, Dragged, Month, OverdueChecks, ChecksForMonth

(* The headline of the page counts each of them once. *)
LEMMA HeadlineCounts ==
  ASSUME CheckTypes
  PROVE  Attention(MonthOf(today)) = Cardinality(Due)
<1>. DEFINE T == {c \in Month : DisplayStatus(c) \in {"overdue", "due_today"}}
<1>1. Attention(MonthOf(today)) = Cardinality(Dragged) + Cardinality(T)
  BY DEF Attention, Dragged, Month
<1>2. Dragged \subseteq CheckIds /\ T \subseteq CheckIds
  BY RowTypes DEF Dragged, Month, OverdueChecks, ChecksForMonth
<1>3. IsFiniteSet(Dragged) /\ IsFiniteSet(T)
  BY <1>2, RowsFinite
<1>4. Dragged \cap T = {} /\ Due = Dragged \cup T
  BY DueIsShown
<1>. HIDE DEF T
<1>5. /\ Cardinality(Dragged \cup T) = Cardinality(Dragged) + Cardinality(T) - Cardinality(Dragged \cap T)
      /\ Cardinality(Dragged) \in Nat /\ Cardinality(T) \in Nat
  BY <1>3, FS_Union, FS_CardinalityType
<1>6. Cardinality(Dragged \cap T) = 0
  BY <1>4, FS_EmptySet
<1>7. Cardinality(Due) = Cardinality(Dragged \cup T)
  BY <1>4
<1>. QED
  BY <1>1, <1>5, <1>6, <1>7

(* What was to come in, by what became of it. *)
Shares == [c \in CheckIds |-> Amount[c] - clearedAmount[c]]

LEMMA BooksBalance ==
  ASSUME CheckTypes, NEW S, S \subseteq CheckRows
  PROVE  LET sum == Reconcile(S)
         IN  sum.expected = sum.received + sum.shortfall + sum.bounced + sum.outstanding
<1>. DEFINE Valid == {c \in S : checkStatus[c] # "void"}
            With(s) == {c \in Valid : checkStatus[c] = s}
            A == With("cleared")
            B == With("partial")
            C == With("bounced")
            D == With("pending")
<1>1. /\ Reconcile(S).expected = SumOf(Amount, Valid)
      /\ Reconcile(S).received = SumOf(Amount, A) + SumOf(clearedAmount, B)
      /\ Reconcile(S).bounced = SumOf(Amount, C)
      /\ Reconcile(S).outstanding = SumOf(Amount, D)
  BY DEF Reconcile, SumOf
<1>2. Reconcile(S).shortfall = SumOf(Shares, B)
  <2>1. Reconcile(S).shortfall = MapThenSumSet(LAMBDA c : Amount[c] - clearedAmount[c], B)
    BY DEF Reconcile
  <2>2. MapThenSumSet(LAMBDA c : Amount[c] - clearedAmount[c], B) = SumOf([c \in B |-> Amount[c] - clearedAmount[c]], B)
    BY DEF SumOf, MapThenSumSet, MapThenFoldSet
  <2>3. IsFiniteSet(B) /\ \A c \in B : [x \in B |-> Amount[x] - clearedAmount[x]][c] = Shares[c]
    BY RowTypes, RowsFinite DEF Shares
  <2>4. SumOf([c \in B |-> Amount[c] - clearedAmount[c]], B) = SumOf(Shares, B)
    BY <2>3, SumOfAgrees
  <2>. QED
    BY <2>1, <2>2, <2>4
<1>3. /\ Valid = ((A \cup B) \cup C) \cup D
      /\ A \cap B = {} /\ (A \cup B) \cap C = {} /\ ((A \cup B) \cup C) \cap D = {}
  BY RowTypes DEF CheckStatuses
<1>4. /\ IsFiniteSet(A) /\ IsFiniteSet(B) /\ IsFiniteSet(C) /\ IsFiniteSet(D)
      /\ IsFiniteSet(A \cup B) /\ IsFiniteSet((A \cup B) \cup C)
  BY RowTypes, RowsFinite
<1>5. \A c \in Valid : Amount[c] \in Int /\ clearedAmount[c] \in Int /\ Shares[c] \in Int
                      /\ Amount[c] = clearedAmount[c] + Shares[c]
  BY RowTypes DEF Shares
<1>. HIDE DEF Valid, A, B, C, D
<1>6. SumOf(Amount, A \cup B) = SumOf(Amount, A) + SumOf(Amount, B)
  BY <1>3, <1>4, <1>5, SumOfUnion
<1>7. SumOf(Amount, (A \cup B) \cup C) = SumOf(Amount, A \cup B) + SumOf(Amount, C)
  BY <1>3, <1>4, <1>5, SumOfUnion
<1>8. SumOf(Amount, Valid) = SumOf(Amount, (A \cup B) \cup C) + SumOf(Amount, D)
  BY <1>3, <1>4, <1>5, SumOfUnion
<1>9. SumOf(Amount, B) = SumOf(clearedAmount, B) + SumOf(Shares, B)
  BY <1>3, <1>4, <1>5, SumOfPlus
<1>10. /\ SumOf(Amount, A) \in Int /\ SumOf(clearedAmount, B) \in Int /\ SumOf(Shares, B) \in Int
       /\ SumOf(Amount, C) \in Int /\ SumOf(Amount, D) \in Int
  BY <1>3, <1>4, <1>5, SumOfType
<1>. QED
  BY <1>1, <1>2, <1>6, <1>7, <1>8, <1>9, <1>10

LEMMA ChecksAreKept ==
  ASSUME CheckTypes
  PROVE  NoCheckIsLost
<1>. DEFINE now == MonthOf(today)
            open == LeaseChecks.open
<1>1. open = {c \in CheckRows : checkStatus[c] = "pending" /\ DueOn[c] > today}
  BY DEF LeaseChecks
<1>2. CustomerChecks.attention = {c \in CheckRows : DisplayStatus(c) \in {"overdue", "due_today", "bounced"}}
  BY DEF CustomerChecks, NeedsAttention
<1>3. \A c \in CheckRows : /\ DueOn[c] \in Nat /\ today \in Nat
                           /\ checkStatus[c] = "pending" =>
                                DisplayStatus(c) = (IF DueOn[c] < today THEN "overdue"
                                                    ELSE IF DueOn[c] = today THEN "due_today" ELSE "upcoming")
  BY RowTypes DEF DisplayStatus
<1>4. Due \subseteq CustomerChecks.attention /\ open \cap CustomerChecks.attention = {}
  BY <1>1, <1>2, <1>3 DEF Due
<1>5. CustomerChecks.book.outstanding = MapThenSumSet(LAMBDA c : Amount[c], open \cup Due)
  <2>1. {c \in {x \in CheckRows : checkStatus[x] # "void"} : checkStatus[c] = "pending"} = open \cup Due
    BY <1>1, <1>3 DEF Due
  <2>2. CustomerChecks.book.outstanding
          = MapThenSumSet(LAMBDA c : Amount[c], {c \in {x \in CheckRows : checkStatus[x] # "void"} : checkStatus[c] = "pending"})
    BY DEF CustomerChecks, Reconcile
  <2>. QED
    BY <2>1, <2>2
<1>6. Due \subseteq DOMAIN MonthlyPage(now)
  BY DueIsShown DEF MonthlyPage, Dragged, Month
<1>7. LET sum == Reconcile(ChecksForMonth(now))
      IN  sum.expected = sum.received + sum.shortfall + sum.bounced + sum.outstanding
  BY BooksBalance DEF ChecksForMonth
<1>. QED
  BY <1>4, <1>5, <1>6, <1>7, HeadlineCounts DEF NoCheckIsLost, Due

----------------------------------------------------------------------------
CheckIInv == CheckTypes /\ ChecksTypeOK

LEMMA PageTypes ==
  ASSUME CheckTypes, NEW mo
  PROVE  DOMAIN MonthlyPage(mo) \subseteq CheckIds /\ MonthlyPage(mo) \in [DOMAIN MonthlyPage(mo) -> ShownStatuses]
<1>1. \A c \in CheckRows : DisplayStatus(c) \in ShownStatuses
  BY RowTypes DEF DisplayStatus, ShownStatuses, CheckStatuses
<1>2. OverdueChecks(FirstOf(mo)) \subseteq CheckRows /\ ChecksForMonth(mo) \subseteq CheckRows
  BY DEF OverdueChecks, ChecksForMonth
<1>. QED
  BY <1>1, <1>2, RowTypes DEF MonthlyPage, ShownStatuses

OpenPageTyped ==
  /\ DOMAIN MonthlyPage(shownMonth) \subseteq CheckIds
  /\ MonthlyPage(shownMonth) \in [DOMAIN MonthlyPage(shownMonth) -> ShownStatuses]

LEMMA OpenPageIsTyped == CheckTypes => OpenPageTyped
BY PageTypes DEF OpenPageTyped

LEMMA ChecksInitOK == ChecksInit => CheckIInv
<1>1. SUFFICES ASSUME ChecksInit PROVE CheckIInv
  OBVIOUS
<1>2. 0 \in Months
  <2>1. LastCheckDay \div MonthLength \in Nat
    BY ChecksAssumption, Z3
  <2>. QED
    BY <2>1 DEF Months
<1>3. checkStatus \in [CheckIds -> CheckStatuses \cup {NoCheck}]
  BY <1>1 DEF ChecksInit
<1>4. /\ clearedAmount \in [CheckIds -> Nat] /\ markSigned \in [CheckIds -> BOOLEAN]
      /\ lastEvent \in [CheckIds -> {"none", "checks.cleared", "checks.partial", "checks.bounced"}]
  BY <1>1 DEF ChecksInit
<1>5. DOMAIN checkPage \subseteq CheckIds /\ checkPage \in [DOMAIN checkPage -> ShownStatuses]
  BY <1>1 DEF ChecksInit
<1>6. today \in Nat /\ today \in 0..LastCheckDay /\ shownMonth \in Months
  BY <1>1, <1>2, ChecksAssumption DEF ChecksInit
<1>. QED
  BY <1>3, <1>4, <1>5, <1>6 DEF CheckIInv, CheckTypes, ChecksTypeOK

(* One mark keeps the types. *)
LEMMA MarkKeepsTypes ==
  ASSUME CheckIInv, NEW c \in CheckIds, NEW s \in CheckStatuses, NEW amount \in Nat, MarkCheck(c, s, amount)
  PROVE  /\ checkStatus' \in [CheckIds -> CheckStatuses \cup {NoCheck}]
         /\ clearedAmount' \in [CheckIds -> Nat] /\ markSigned' \in [CheckIds -> BOOLEAN]
         /\ lastEvent' \in [CheckIds -> {"none", "checks.cleared", "checks.partial", "checks.bounced"}]
<1>1. Amount[c] \in Nat
  BY ChecksAssumption
<1>2. checkStatus' \in [CheckIds -> CheckStatuses \cup {NoCheck}]
  BY DEF CheckIInv, ChecksTypeOK, MarkCheck
<1>3. clearedAmount' \in [CheckIds -> Nat]
  BY <1>1 DEF CheckIInv, ChecksTypeOK, MarkCheck
<1>4. markSigned' \in [CheckIds -> BOOLEAN]
  BY DEF CheckIInv, ChecksTypeOK, MarkCheck
<1>5. lastEvent' \in [CheckIds -> {"none", "checks.cleared", "checks.partial", "checks.bounced"}]
  BY DEF CheckIInv, ChecksTypeOK, MarkCheck
<1>. QED
  BY <1>2, <1>3, <1>4, <1>5

LEMMA ButtonsMark == \A month : Buttons(month) \subseteq CheckStatuses
BY DEF Buttons, CheckStatuses

LEMMA ChecksStep == CheckIInv /\ [ChecksNext]_checkVars => CheckIInv'
<1>1. SUFFICES ASSUME CheckIInv, [ChecksNext]_checkVars PROVE CheckIInv'
  OBVIOUS
<1>2. CASE CreateCheck
  BY <1>1, <1>2 DEF CreateCheck, CheckIInv, CheckTypes, ChecksTypeOK, CheckStatuses
<1>3. CASE OpenPage
  <2>1. PICK mo \in Months : shownMonth' = mo /\ checkPage' = MonthlyPage(mo)
    BY <1>3 DEF OpenPage
  <2>2. DOMAIN checkPage' \subseteq CheckIds /\ checkPage' \in [DOMAIN checkPage' -> ShownStatuses]
    BY <1>1, <2>1, PageTypes DEF CheckIInv
  <2>. QED
    BY <1>1, <1>3, <2>1, <2>2 DEF OpenPage, CheckIInv, CheckTypes, ChecksTypeOK
<1>4. CASE MarkFromPage
  <2>1. PICK c \in DOMAIN checkPage : \E s \in Buttons(checkPage[c]) : \E amount \in 1..Amount[c] :
             MarkCheck(c, s, amount) /\ UNCHANGED <<today, shownMonth>> /\ checkPage' = MonthlyPage(shownMonth)'
    BY <1>4 DEF MarkFromPage
  <2>2. PICK s \in Buttons(checkPage[c]), amount \in 1..Amount[c] :
             MarkCheck(c, s, amount) /\ UNCHANGED <<today, shownMonth>> /\ checkPage' = MonthlyPage(shownMonth)'
    BY <2>1
  <2>3. c \in CheckIds /\ s \in CheckStatuses /\ amount \in Nat
    BY <1>1, <2>1, <2>2, ButtonsMark, ChecksAssumption DEF CheckIInv, ChecksTypeOK
  <2>4. /\ checkStatus' \in [CheckIds -> CheckStatuses \cup {NoCheck}]
        /\ clearedAmount' \in [CheckIds -> Nat] /\ markSigned' \in [CheckIds -> BOOLEAN]
        /\ lastEvent' \in [CheckIds -> {"none", "checks.cleared", "checks.partial", "checks.bounced"}]
    BY <1>1, <2>2, <2>3, MarkKeepsTypes
  <2>5. CheckTypes'
    BY <1>1, <2>2, <2>4 DEF CheckIInv, CheckTypes
  <2>6. DOMAIN checkPage' \subseteq CheckIds /\ checkPage' \in [DOMAIN checkPage' -> ShownStatuses]
    <3>1. OpenPageTyped'
      <4>1. (CheckTypes => OpenPageTyped)'
        BY OpenPageIsTyped, PTL
      <4>. QED
        BY <2>5, <4>1
    <3>. QED
      BY <2>2, <3>1 DEF OpenPageTyped
  <2>. QED
    BY <1>1, <2>2, <2>4, <2>5, <2>6 DEF CheckIInv, ChecksTypeOK
<1>5. CASE MarkFromCustomer
  <2>1. PICK c \in CheckRows : \E s \in Buttons(checkStatus[c]) : \E amount \in 1..Amount[c] :
             MarkCheck(c, s, amount) /\ UNCHANGED <<today, shownMonth, checkPage>>
    BY <1>5 DEF MarkFromCustomer
  <2>2. PICK s \in Buttons(checkStatus[c]), amount \in 1..Amount[c] :
             MarkCheck(c, s, amount) /\ UNCHANGED <<today, shownMonth, checkPage>>
    BY <2>1
  <2>3. c \in CheckIds /\ s \in CheckStatuses /\ amount \in Nat
    BY <2>1, <2>2, ButtonsMark, ChecksAssumption DEF CheckRows
  <2>4. /\ checkStatus' \in [CheckIds -> CheckStatuses \cup {NoCheck}]
        /\ clearedAmount' \in [CheckIds -> Nat] /\ markSigned' \in [CheckIds -> BOOLEAN]
        /\ lastEvent' \in [CheckIds -> {"none", "checks.cleared", "checks.partial", "checks.bounced"}]
    BY <1>1, <2>2, <2>3, MarkKeepsTypes
  <2>. QED
    BY <1>1, <2>2, <2>4 DEF CheckIInv, CheckTypes, ChecksTypeOK
<1>6. CASE NextCheckDay
  BY <1>1, <1>6, ChecksAssumption DEF NextCheckDay, CheckIInv, CheckTypes, ChecksTypeOK
<1>7. CASE UNCHANGED checkVars
  BY <1>1, <1>7 DEF checkVars, CheckIInv, CheckTypes, ChecksTypeOK
<1>. QED
  BY <1>1, <1>2, <1>3, <1>4, <1>5, <1>6, <1>7 DEF ChecksNext

(* A check that is due stays on the page until it is marked (checks.ts,    *)
(* reconciliation.ts).                                                     *)
THEOREM ChecksStay == ChecksSpec => [](ChecksTypeOK /\ NoCheckIsLost)
<1>1. ChecksInit => CheckIInv
  BY ChecksInitOK
<1>2. CheckIInv /\ [ChecksNext]_checkVars => CheckIInv'
  BY ChecksStep
<1>3. CheckIInv => ChecksTypeOK /\ NoCheckIsLost
  BY ChecksAreKept DEF CheckIInv
<1>. QED
  BY <1>1, <1>2, <1>3, PTL DEF ChecksSpec

----------------------------------------------------------------------------
AlertTypes ==
  /\ CheckTypes /\ DOMAIN leaseOf \subseteq Leases
  /\ DOMAIN papers \subseteq Papers /\ \A d \in DOMAIN papers : papers[d] \in {"filed", "needs_review"}

Pressing == {"critical", "attention"}
OverdueAlert(c) ==
  Alert("check_overdue", c, IF today - DueOn[c] > 14 THEN "critical" ELSE "attention", DueOn[c] - today)
PressingChecks == On("checks", ChecksFed)
PressingPapers == {d \in On("documents", PapersFed) : papers[d] = "filed" /\ ExpiresOn[d] - today <= 21}
PressingLeases == {l \in On("leases", LeasesFed) : UrgencyOf(leaseOf[l]) \in {"passed", "critical", "due"}}

(* What the three feeds make of a row: one alert about it, pressing or not.*)
LEMMA ChecksRaise ==
  ASSUME AlertTypes
  PROVE  /\ PressingChecks \subseteq CheckIds
         /\ CheckAlerts(PressingChecks) = {OverdueAlert(c) : c \in PressingChecks}
         /\ \A c : OverdueAlert(c).of = c /\ OverdueAlert(c).severity \in Pressing
<1>1. PressingChecks \subseteq ChecksFed
  BY DEF PressingChecks, On
<1>2. ChecksFed \subseteq CheckRows /\ \A c \in ChecksFed : DisplayStatus(c) = "overdue"
  BY DueIsShown DEF AlertTypes, ChecksFed, OverdueChecks
<1>3. {x \in PressingChecks : DisplayStatus(x) = "bounced"} = {} /\ {x \in PressingChecks : DisplayStatus(x) = "overdue"} = PressingChecks
  BY <1>1, <1>2
<1>4. CheckAlerts(PressingChecks) = {OverdueAlert(c) : c \in PressingChecks}
  BY <1>3 DEF CheckAlerts, OverdueAlert
<1>5. \A c : OverdueAlert(c).of = c /\ OverdueAlert(c).severity \in Pressing
  BY DEF OverdueAlert, Alert, Pressing
<1>. QED
  BY <1>1, <1>2, <1>4, <1>5 DEF CheckRows

LEMMA PapersRaise ==
  ASSUME AlertTypes
  PROVE  /\ PapersFed \subseteq Papers
         /\ \A d \in PapersFed : /\ ExpiresOn[d] \in Int /\ today \in Nat /\ PaperAlert(d).of = d
                                 /\ PaperAlert(d).severity \in Pressing
                                      <=> papers[d] = "filed" /\ ExpiresOn[d] - today <= 21
<1>1. PapersFed \subseteq DOMAIN papers /\ DOMAIN papers \subseteq Papers
  BY DEF AlertTypes, PapersFed, Expiring
<1>2. \A d \in PapersFed : papers[d] \in {"filed", "needs_review"} /\ ExpiresOn[d] \in Int /\ today \in Nat
  BY <1>1, AlertsAssumption DEF AlertTypes, CheckTypes
<1>3. \A d : PaperAlert(d).of = d
  BY DEF PaperAlert, Alert
<1>4. ASSUME NEW d \in PapersFed
      PROVE  PaperAlert(d).severity \in Pressing <=> papers[d] = "filed" /\ ExpiresOn[d] - today <= 21
  BY <1>2 DEF PaperAlert, Alert, Pressing
<1>. QED
  BY <1>1, <1>2, <1>3, <1>4

LEMMA LeasesRaise ==
  ASSUME AlertTypes
  PROVE  /\ LeasesFed \subseteq Leases
         /\ \A l : UrgencyOf(leaseOf[l]) \in {"passed", "critical", "due", "upcoming", "quiet", "ended"}
         /\ \A l : UrgencyOf(leaseOf[l]) \notin {"quiet", "ended"} =>
              /\ LeaseAlert(l).of = l
              /\ LeaseAlert(l).severity \in Pressing <=> UrgencyOf(leaseOf[l]) \in {"passed", "critical", "due"}
<1>1. LeasesFed \subseteq Leases
  BY DEF AlertTypes, LeasesFed
<1>2. \A l : UrgencyOf(leaseOf[l]) \in {"passed", "critical", "due", "upcoming", "quiet", "ended"}
  BY DEF UrgencyOf
<1>3. ASSUME NEW l, UrgencyOf(leaseOf[l]) \notin {"quiet", "ended"}
      PROVE  /\ LeaseAlert(l).of = l
             /\ LeaseAlert(l).severity \in Pressing <=> UrgencyOf(leaseOf[l]) \in {"passed", "critical", "due"}
  BY <1>2, <1>3 DEF LeaseAlert, Alert, Pressing
<1>. QED
  BY <1>1, <1>2, <1>3

(* The alerts that ask for a decision. *)
LEMMA DecisionsAre ==
  ASSUME AlertTypes
  PROVE  Decisions = ({OverdueAlert(c) : c \in PressingChecks} \cup {PaperAlert(d) : d \in PressingPapers})
                       \cup {LeaseAlert(l) : l \in PressingLeases}
<1>. DEFINE raised == {k \in On("leases", LeasesFed) : UrgencyOf(leaseOf[k]) \notin {"quiet", "ended"}}
            fed == On("documents", PapersFed)
<1>1. BuildAlerts = CheckAlerts(PressingChecks) \cup {PaperAlert(d) : d \in fed}
                      \cup {LeaseAlert(l) : l \in raised} \cup {QuietAlert(a) : a \in Quiet}
  BY DEF BuildAlerts, PressingChecks
<1>2. Decisions = {a \in BuildAlerts : a.severity \in Pressing}
  BY DEF Decisions, GroupOf, Pressing
<1>3. \A a : QuietAlert(a).severity \notin Pressing
  BY DEF QuietAlert, Alert, Pressing
<1>4. {d \in fed : PaperAlert(d).severity \in Pressing} = PressingPapers
  BY PapersRaise DEF PressingPapers, On
<1>5. {l \in raised : LeaseAlert(l).severity \in Pressing} = PressingLeases
  BY LeasesRaise DEF PressingLeases
<1>6. \A c \in PressingChecks : OverdueAlert(c).severity \in Pressing
  BY ChecksRaise
<1>7. CheckAlerts(PressingChecks) = {OverdueAlert(c) : c \in PressingChecks}
  BY ChecksRaise
<1>. HIDE DEF raised, fed
<1>8. \A a : a \in Decisions <=>
        \/ a \in {OverdueAlert(c) : c \in PressingChecks}
        \/ a \in {PaperAlert(d) : d \in PressingPapers}
        \/ a \in {LeaseAlert(l) : l \in PressingLeases}
  <2>1. \A a : a \in Decisions <=>
          \/ a \in {OverdueAlert(c) : c \in PressingChecks}
          \/ a \in {PaperAlert(d) : d \in fed} /\ a.severity \in Pressing
          \/ a \in {LeaseAlert(l) : l \in raised} /\ a.severity \in Pressing
    BY <1>1, <1>2, <1>3, <1>6, <1>7
  <2>2. \A a : a \in {PaperAlert(d) : d \in fed} /\ a.severity \in Pressing
                <=> a \in {PaperAlert(d) : d \in PressingPapers}
    BY <1>4
  <2>3. \A a : a \in {LeaseAlert(l) : l \in raised} /\ a.severity \in Pressing
                <=> a \in {LeaseAlert(l) : l \in PressingLeases}
    BY <1>5
  <2>. QED
    BY <2>1, <2>2, <2>3
<1>. QED
  BY <1>8, Zenon

LEMMA PressingTyped ==
  ASSUME AlertTypes
  PROVE  PressingChecks \subseteq CheckIds /\ PressingPapers \subseteq Papers /\ PressingLeases \subseteq Leases
<1>1. On("documents", PapersFed) \subseteq PapersFed /\ On("leases", LeasesFed) \subseteq LeasesFed
  BY DEF On
<1>. QED
  BY <1>1, ChecksRaise, PapersRaise, LeasesRaise DEF PressingPapers, PressingLeases

(* Each of them is about a row of its own. *)
LEMMA AskedOnce ==
  ASSUME AlertTypes
  PROVE  /\ {a.of : a \in Decisions} = (PressingChecks \cup PressingPapers) \cup PressingLeases
         /\ \A x \in {a.of : a \in Decisions} : Cardinality({a \in Decisions : a.of \in {x}}) = 1
<1>1. \A c \in PressingChecks : OverdueAlert(c).of = c
  BY ChecksRaise
<1>2. \A d \in PressingPapers : PaperAlert(d).of = d
  BY PapersRaise DEF PressingPapers, On
<1>3. \A l \in PressingLeases : LeaseAlert(l).of = l
  BY LeasesRaise DEF PressingLeases
<1>4. {a.of : a \in Decisions} = (PressingChecks \cup PressingPapers) \cup PressingLeases
  <2>1. \A x : x \in {a.of : a \in Decisions} <=> \E a \in Decisions : x = a.of
    OBVIOUS
  <2>. QED
    BY <1>1, <1>2, <1>3, <2>1, DecisionsAre
<1>5. ASSUME NEW x \in (PressingChecks \cup PressingPapers) \cup PressingLeases
      PROVE  Cardinality({a \in Decisions : a.of \in {x}}) = 1
  <2>1. \E b : {a \in Decisions : a.of \in {x}} = {b}
    <3>1. PressingChecks \cap PressingPapers = {} /\ PressingChecks \cap PressingLeases = {}
          /\ PressingPapers \cap PressingLeases = {}
      BY PressingTyped, AlertsAssumption
    <3>2. CASE x \in PressingChecks
      <4>1. {a \in Decisions : a.of \in {x}} = {OverdueAlert(x)}
        BY <1>1, <1>2, <1>3, <3>1, <3>2, DecisionsAre
      <4>. QED
        BY <4>1
    <3>3. CASE x \in PressingPapers
      <4>1. {a \in Decisions : a.of \in {x}} = {PaperAlert(x)}
        BY <1>1, <1>2, <1>3, <3>1, <3>3, DecisionsAre
      <4>. QED
        BY <4>1
    <3>4. CASE x \in PressingLeases
      <4>1. {a \in Decisions : a.of \in {x}} = {LeaseAlert(x)}
        BY <1>1, <1>2, <1>3, <3>1, <3>4, DecisionsAre
      <4>. QED
        BY <4>1
    <3>. QED
      BY <3>2, <3>3, <3>4
  <2>. QED
    BY <2>1, FS_Singleton
<1>. QED
  BY <1>4, <1>5

----------------------------------------------------------------------------
(* The monthly page calls overdue what the alerts are about.               *)
LEMMA OverdueShown ==
  ASSUME AlertTypes
  PROVE  {c \in DOMAIN MonthlyPage(MonthOf(today)) : MonthlyPage(MonthOf(today))[c] = "overdue"} = ChecksFed
<1>1. MonthlyPage(MonthOf(today)) = [c \in Dragged \cup Month |-> IF c \in Month THEN DisplayStatus(c) ELSE "overdue"]
  BY DEF MonthlyPage, Dragged, Month
<1>2. ChecksFed = Dragged \cup {c \in Month : DisplayStatus(c) = "overdue"} /\ Dragged \cap Month = {}
  BY DueIsShown DEF AlertTypes, ChecksFed
<1>. QED
  BY <1>1, <1>2

LEMMA NothingIsSilent ==
  ASSUME AlertTypes
  PROVE  NothingDueIsSilent
<1>. DEFINE now == MonthOf(today)
            pressing == {a.of : a \in Decisions}
            overdue == {c \in DOMAIN MonthlyPage(now) : MonthlyPage(now)[c] = "overdue"}
            decisions == {l \in LeasesPage.decisions : leaseOf[l].status = "active"}
<1>1. NoCheckIsLost
  BY ChecksAreKept DEF AlertTypes
<1>2. pressing = (PressingChecks \cup PressingPapers) \cup PressingLeases
  BY AskedOnce
<1>3. PressingChecks \subseteq CheckIds /\ PressingPapers \subseteq Papers /\ PressingLeases \subseteq Leases
  BY PressingTyped
<1>4. pressing \cap CheckIds = On("checks", overdue)
  <2>1. pressing \cap CheckIds = PressingChecks
    BY <1>2, <1>3, AlertsAssumption
  <2>2. overdue = ChecksFed
    BY OverdueShown
  <2>. QED
    BY <2>1, <2>2 DEF PressingChecks
<1>5. pressing \cap Leases = On("leases", decisions)
  <2>1. pressing \cap Leases = PressingLeases
    BY <1>2, <1>3, AlertsAssumption
  <2>2. decisions = {l \in LeasesFed : UrgencyOf(leaseOf[l]) \in {"passed", "critical", "due"}}
    BY DEF LeasesPage, LeasesIn, LeasesFed
  <2>. QED
    BY <2>1, <2>2 DEF PressingLeases, On
<1>6. ASSUME Cardinality(Expiring) <= FeedLimit
      PROVE  On("documents", {d \in DOMAIN papers : papers[d] = "filed" /\ ExpiresOn[d] < today}) \subseteq pressing
  <2>1. SUFFICES ASSUME NEW d \in DOMAIN papers, papers[d] = "filed", ExpiresOn[d] < today, "documents" \in Modules
                 PROVE  d \in PressingPapers
    BY <1>2 DEF On
  <2>2. DOMAIN papers \subseteq Papers /\ today \in Nat /\ \A e \in Papers : ExpiresOn[e] \in Int
    BY AlertsAssumption DEF AlertTypes, CheckTypes
  <2>3. d \in Expiring /\ Expiring \subseteq Papers
    BY <2>1, <2>2 DEF Expiring
  <2>. DEFINE E == {e \in Expiring : ExpiresOn[e] < ExpiresOn[d]}
  <2>4. E \subseteq Expiring \ {d}
    BY <2>2, <2>3
  <2>5. IsFiniteSet(Expiring) /\ Cardinality(Expiring) \in Nat
    BY <2>3, AlertsAssumption, FS_Subset, FS_CardinalityType
  <2>6. IsFiniteSet(Expiring \ {d}) /\ Cardinality(Expiring \ {d}) = Cardinality(Expiring) - 1
    BY <2>3, <2>5, FS_RemoveElement
  <2>7. Cardinality(E) <= Cardinality(Expiring \ {d}) /\ Cardinality(E) \in Nat
    BY <2>4, <2>6, FS_Subset, FS_CardinalityType
  <2>8. Cardinality(E) < FeedLimit
    BY <1>6, <2>5, <2>6, <2>7, AlertsAssumption
  <2>9. d \in PapersFed
    BY <2>3, <2>8 DEF PapersFed
  <2>. QED
    BY <2>1, <2>2, <2>9 DEF PressingPapers, On
<1>7. ASSUME NEW d \in pressing \cap Papers
      PROVE  Dashboard.attention > 0 /\ (ExpiresOn[d] < today => d \in Dashboard.red)
  <2>1. d \in PressingPapers
    BY <1>2, <1>3, AlertsAssumption
  <2>2. d \in PapersFed /\ papers[d] = "filed" /\ ExpiresOn[d] - today <= 21 /\ ExpiresOn[d] \in Int /\ today \in Nat
    BY <2>1, PapersRaise DEF PressingPapers, On
  <2>3. d \in Expiring
    BY <2>2 DEF PapersFed
  <2>. DEFINE expiring == PapersFed \cap Expiring
              review == {e \in DOMAIN papers : papers[e] = "needs_review"}
  <2>4. IsFiniteSet(expiring) /\ IsFiniteSet(review)
    BY PapersRaise, AlertsAssumption, FS_Subset DEF AlertTypes
  <2>0. expiring # {}
    BY <2>2, <2>3
  <2>5. Cardinality(expiring) \in Nat /\ Cardinality(expiring) # 0 /\ Cardinality(review) \in Nat
    <3>. HIDE DEF expiring, review
    <3>. QED
      BY <2>0, <2>4, FS_EmptySet, FS_CardinalityType
  <2>6. Dashboard.attention = Cardinality(expiring) + Cardinality(review)
    BY DEF Dashboard
  <2>7. Dashboard.attention > 0
    BY <2>5, <2>6
  <2>8. Dashboard.red = {e \in expiring : ExpiresOn[e] - today <= 14}
    BY DEF Dashboard
  <2>. QED
    BY <2>2, <2>3, <2>7, <2>8
<1>8. \A x \in pressing : Cardinality({a \in Decisions : a.of \in {x}}) = 1
  BY AskedOnce
<1>. QED
  BY <1>1, <1>4, <1>5, <1>6, <1>7, <1>8 DEF NothingDueIsSilent

LEMMA AlertsInitOK == ChecksInit /\ RecordsInit /\ AlertsInit => AlertTypes
<1>1. SUFFICES ASSUME ChecksInit, RecordsInit, AlertsInit PROVE AlertTypes
  OBVIOUS
<1>2. checkStatus \in [CheckIds -> CheckStatuses \cup {NoCheck}] /\ clearedAmount \in [CheckIds -> Nat] /\ today \in Nat
  BY <1>1 DEF ChecksInit
<1>3. DOMAIN leaseOf = {} /\ DOMAIN papers = {}
  BY <1>1 DEF RecordsInit, AlertsInit
<1>. QED
  BY <1>2, <1>3 DEF AlertTypes, CheckTypes

LEMMA AlertsStep ==
  AlertTypes /\ [AlertsNext]_<<alertVars, shellVars, checkVars, recordVars>> => AlertTypes'
<1>1. SUFFICES ASSUME AlertTypes, [AlertsNext]_<<alertVars, shellVars, checkVars, recordVars>> PROVE AlertTypes'
  OBVIOUS
<1>2. CASE FilePaper
  BY <1>1, <1>2 DEF FilePaper, AlertTypes, CheckTypes, shellVars, checkVars, recordVars
<1>3. CASE ReviewPaper
  BY <1>1, <1>3 DEF ReviewPaper, AlertTypes, CheckTypes, shellVars, checkVars, recordVars
<1>4. CASE HearFrom
  BY <1>1, <1>4 DEF HearFrom, AlertTypes, CheckTypes, shellVars, checkVars, recordVars
<1>5. CASE AlertDayPasses
  <2>1. today' \in Nat
    BY <1>5, RecordsAssumption DEF AlertDayPasses
  <2>. QED
    BY <1>1, <1>5, <2>1 DEF AlertDayPasses, AlertTypes, CheckTypes, alertVars
<1>6. CASE CreateCheck /\ UNCHANGED <<alertVars, shellVars, recordVars>>
  BY <1>1, <1>6 DEF CreateCheck, AlertTypes, CheckTypes, CheckStatuses, alertVars, recordVars
<1>7. CASE MarkFromCustomer /\ UNCHANGED <<alertVars, shellVars, recordVars>>
  <2>1. PICK c \in CheckRows : \E s \in Buttons(checkStatus[c]) : \E amount \in 1..Amount[c] :
             MarkCheck(c, s, amount) /\ UNCHANGED <<today, shownMonth, checkPage>>
    BY <1>7 DEF MarkFromCustomer
  <2>2. PICK s \in Buttons(checkStatus[c]), amount \in 1..Amount[c] :
             MarkCheck(c, s, amount) /\ UNCHANGED <<today, shownMonth, checkPage>>
    BY <2>1
  <2>3. c \in CheckIds /\ s \in CheckStatuses /\ amount \in Nat /\ Amount[c] \in Nat
    BY <2>1, <2>2, ButtonsMark, ChecksAssumption DEF CheckRows
  <2>4. checkStatus' \in [CheckIds -> CheckStatuses \cup {NoCheck}]
    BY <1>1, <2>2, <2>3 DEF AlertTypes, CheckTypes, MarkCheck
  <2>5. clearedAmount' \in [CheckIds -> Nat]
    BY <1>1, <2>2, <2>3 DEF AlertTypes, CheckTypes, MarkCheck
  <2>. QED
    BY <1>1, <1>7, <2>2, <2>4, <2>5 DEF AlertTypes, CheckTypes, alertVars, recordVars
<1>8. CASE CreateLease /\ UNCHANGED <<alertVars, shellVars, checkVars>>
  BY <1>1, <1>8 DEF CreateLease, AlertTypes, CheckTypes, alertVars, checkVars
<1>9. CASE UNCHANGED <<alertVars, shellVars, checkVars, recordVars>>
  BY <1>1, <1>9 DEF AlertTypes, CheckTypes, alertVars, checkVars, recordVars
<1>. QED
  BY <1>1, <1>2, <1>3, <1>4, <1>5, <1>6, <1>7, <1>8, <1>9 DEF AlertsNext

(* No screen is silent about what another one asks to be decided (alerts/  *)
(* build.ts, apps/web/lib/alerts.ts).                                      *)
THEOREM ScreensAgree == AlertsSpec => []NothingDueIsSilent
<1>1. ChecksInit /\ RecordsInit /\ AlertsInit => AlertTypes
  BY AlertsInitOK
<1>2. AlertTypes /\ [AlertsNext]_<<alertVars, shellVars, checkVars, recordVars>> => AlertTypes'
  BY AlertsStep
<1>3. AlertTypes => NothingDueIsSilent
  BY NothingIsSilent
<1>. QED
  BY <1>1, <1>2, <1>3, PTL DEF AlertsSpec

AlertsAreTyped == AlertsTypeOK /\ today \in Nat

LEMMA AlertsTypedFirst == ChecksInit /\ AlertsInit => AlertsAreTyped
<1>. SUFFICES ASSUME ChecksInit, AlertsInit PROVE AlertsAreTyped
  OBVIOUS
<1>. QED
  BY DEF ChecksInit, AlertsInit, AlertsAreTyped, AlertsTypeOK

LEMMA AlertsStayTyped ==
  AlertsAreTyped /\ [AlertsNext]_<<alertVars, shellVars, checkVars, recordVars>> => AlertsAreTyped'
<1>. SUFFICES ASSUME AlertsAreTyped, [AlertsNext]_<<alertVars, shellVars, checkVars, recordVars>>
              PROVE  AlertsAreTyped'
  OBVIOUS
<1>. USE DEF AlertsAreTyped, AlertsTypeOK
<1>1. CASE FilePaper
  BY <1>1 DEF FilePaper, checkVars
<1>2. CASE ReviewPaper
  BY <1>2 DEF ReviewPaper, checkVars
<1>3. CASE HearFrom
  BY <1>3 DEF HearFrom, checkVars
<1>4. CASE AlertDayPasses
  BY <1>4, RecordsAssumption DEF AlertDayPasses, alertVars, RecordsAssumption
<1>5. CASE (CreateCheck \/ MarkFromCustomer) /\ UNCHANGED <<alertVars, shellVars, recordVars>>
  BY <1>5 DEF CreateCheck, MarkFromCustomer, alertVars
<1>6. CASE CreateLease /\ UNCHANGED <<alertVars, shellVars, checkVars>>
  BY <1>6 DEF alertVars, checkVars
<1>7. CASE UNCHANGED <<alertVars, shellVars, checkVars, recordVars>>
  BY <1>7 DEF alertVars, checkVars
<1>. QED
  BY <1>1, <1>2, <1>3, <1>4, <1>5, <1>6, <1>7 DEF AlertsNext

(* apps/web/lib/alerts.ts: what the alerts are built from stays within its *)
(* tables, and nobody was heard from after today.                          *)
THEOREM AlertsKeepTypes == AlertsSpec => []AlertsTypeOK
<1>1. AlertsAreTyped => AlertsTypeOK
  BY DEF AlertsAreTyped
<1>. QED
  BY <1>1, AlertsTypedFirst, AlertsStayTyped, PTL DEF AlertsSpec

-----------------------------------------------------------------------------
(* The records: retainers and leases only ever press harder.              *)

LEMMA MaxOfTwo ==
  ASSUME NEW a \in Int, NEW b \in Int
  PROVE  Max({a, b}) = IF a >= b THEN a ELSE b
BY DEF Max

LEMMA MinOfTwo ==
  ASSUME NEW a \in Int, NEW b \in Int
  PROVE  Min({a, b}) = IF a <= b THEN a ELSE b
BY DEF Min

LEMMA FirstDay == Min(RecordDays) \in RecordDays
<1>1. PICK x \in RecordDays : \A y \in RecordDays : ~(<<y, x>> \in OpToRel(<, Nat))
  BY RecordsAssumption, WFMin, NatLessThanWellFounded DEF RecordsAssumption
<1>2. ASSUME NEW y \in RecordDays PROVE x <= y
  <2>1. x \in Nat /\ y \in Nat
    BY RecordsAssumption DEF RecordsAssumption
  <2>2. ~(y < x)
    BY <1>1, <2>1 DEF OpToRel
  <2>. QED
    BY <2>1, <2>2
<1>. QED
  BY <1>2 DEF Min

(* The part of a period that has passed. *)
LEMMA PartIs ==
  ASSUME NEW s \in Int, recordDay \in Int
  PROVE  Total \in Nat \ {0} /\ Passed(s) \in Nat
<1>1. Total \in Nat \ {0}
  BY MaxOfTwo, RecordsAssumption DEF Total, RecordsAssumption
<1>2. Min({recordDay - s, Total}) \in Int
  BY <1>1, MinOfTwo
<1>3. Passed(s) \in Nat
  <2>. DEFINE m == Min({recordDay - s, Total})
  <2>1. m \in Int /\ Passed(s) = Max({0, m})
    BY <1>2 DEF Passed
  <2>. HIDE DEF m
  <2>. QED
    BY <2>1, MaxOfTwo
<1>. QED
  BY <1>1, <1>3

LEMMA TimesMore ==
  ASSUME NEW a \in Nat, NEW b \in Nat, NEW c \in Nat, a <= b
  PROVE  a * c \in Nat /\ b * c \in Nat /\ a * c <= b * c
<1>1. PICK k \in Nat : b = a + k
  <2>1. b - a \in Nat /\ b = a + (b - a)
    OBVIOUS
  <2>. QED
    BY <2>1
<1>2. (a + k) * c = a * c + k * c /\ a * c \in Nat /\ k * c \in Nat
  OBVIOUS
<1>. QED
  BY <1>1, <1>2

LEMMA QuotientMore ==
  ASSUME NEW a \in Nat, NEW b \in Nat, NEW d \in Nat \ {0}, a <= b
  PROVE  a \div d \in Nat /\ b \div d \in Nat /\ a \div d <= b \div d
BY Z3

(* More hours are used no slower, and project to no less. *)
LEMMA PaceRises ==
  ASSUME NEW s \in Int, recordDay \in Int, NEW h \in Nat, NEW quota \in Nat,
         NEW u \in Nat, NEW v \in Nat, u <= v
  PROVE  /\ Faster(h, s, quota, u) => Faster(h, s, quota, v)
         /\ Projected(s, u) \in Nat /\ Projected(s, v) \in Nat /\ Projected(s, u) <= Projected(s, v)
<1>. DEFINE t == Total
            p == Passed(s)
<1>1. t \in Nat \ {0} /\ p \in Nat
  BY PartIs
<1>. HIDE DEF t, p
<1>2. 100 * u \in Nat /\ 100 * v \in Nat /\ 2 * u \in Nat /\ 2 * v \in Nat /\ 100 * u <= 100 * v /\ 2 * u <= 2 * v
  OBVIOUS
<1>3. (100 * u) * t \in Nat /\ (100 * v) * t \in Nat /\ (100 * u) * t <= (100 * v) * t
  BY <1>1, <1>2, TimesMore
<1>4. h * quota * p \in Nat
  BY <1>1
<1>5. Faster(h, s, quota, u) => Faster(h, s, quota, v)
  BY <1>3, <1>4 DEF Faster, t, p
<1>6. (2 * u) * t \in Nat /\ (2 * v) * t \in Nat /\ (2 * u) * t <= (2 * v) * t
  BY <1>1, <1>2, TimesMore
<1>7. Projected(s, u) \in Nat /\ Projected(s, v) \in Nat /\ Projected(s, u) <= Projected(s, v)
  <2>1. CASE p = 0
    BY <2>1 DEF Projected, p
  <2>2. CASE p # 0
    <3>1. 2 * p \in Nat \ {0} /\ (2 * u) * t + p \in Nat /\ (2 * v) * t + p \in Nat /\ (2 * u) * t + p <= (2 * v) * t + p
      BY <1>1, <1>6, <2>2
    <3>2. /\ ((2 * u) * t + p) \div (2 * p) \in Nat /\ ((2 * v) * t + p) \div (2 * p) \in Nat
          /\ ((2 * u) * t + p) \div (2 * p) <= ((2 * v) * t + p) \div (2 * p)
      BY <3>1, QuotientMore
    <3>3. /\ Projected(s, u) = ((2 * u) * t + p) \div (2 * p)
          /\ Projected(s, v) = ((2 * v) * t + p) \div (2 * p)
      BY <2>2 DEF Projected, t, p
    <3>. QED
      BY <3>2, <3>3
  <2>. QED
    BY <2>1, <2>2
<1>. QED
  BY <1>5, <1>7

LEMMA SeverityRises ==
  ASSUME NEW s \in Int, recordDay \in Int, NEW quota \in Nat, NEW u \in Nat, NEW v \in Nat, u <= v
  PROVE  Severity[BurnStatus(s, quota, u)] <= Severity[BurnStatus(s, quota, v)]
<1>1. /\ Severity["idle"] = 0 /\ Severity["healthy"] = 1 /\ Severity["watch"] = 2
      /\ Severity["projected_overrun"] = 3 /\ Severity["overrun"] = 4
  BY DEF Severity
<1>2. /\ Faster(135, s, quota, u) => Faster(135, s, quota, v)
      /\ Faster(115, s, quota, u) => Faster(115, s, quota, v)
      /\ Projected(s, u) \in Nat /\ Projected(s, v) \in Nat /\ Projected(s, u) <= Projected(s, v)
  BY PaceRises
<1>3. \A w \in Nat : BurnStatus(s, quota, w) \in {"idle", "healthy", "watch", "projected_overrun", "overrun"}
  BY DEF BurnStatus
<1>4. CASE u = 0
  <2>1. BurnStatus(s, quota, u) = "idle"
    BY <1>4 DEF BurnStatus
  <2>. QED
    BY <1>1, <1>3, <2>1
<1>5. CASE u > 0 /\ quota = 0
  <2>1. BurnStatus(s, quota, u) = "healthy" /\ BurnStatus(s, quota, v) = "healthy"
    BY <1>5 DEF BurnStatus
  <2>. QED
    BY <2>1, <1>1
<1>6. CASE u > 0 /\ quota > 0 /\ v > quota
  <2>1. BurnStatus(s, quota, v) = "overrun"
    BY <1>6 DEF BurnStatus
  <2>. QED
    BY <1>1, <1>3, <2>1
<1>7. CASE u > 0 /\ quota > 0 /\ ~(v > quota)
  <2>. DEFINE Pace(w) == IF Faster(135, s, quota, w) /\ Projected(s, w) > quota THEN "projected_overrun"
                         ELSE IF Faster(115, s, quota, w) THEN "watch" ELSE "healthy"
  <2>1. BurnStatus(s, quota, u) = Pace(u) /\ BurnStatus(s, quota, v) = Pace(v)
    BY <1>7 DEF BurnStatus
  <2>2. Severity[Pace(u)] <= Severity[Pace(v)]
    BY <1>1, <1>2
  <2>. QED
    BY <2>1, <2>2
<1>. QED
  BY <1>4, <1>5, <1>6, <1>7

(* What the rows hold, as functions. *)
Period == [quota : QuotaAmounts, status : {"open", "closed", "billed"}, used : 0..FullUse]
Request == [status : SignStatuses, sent : Int, viewed : Int, signed : Int, declined : Int]
RecordTypes ==
  /\ recordDay \in RecordDays
  /\ retainer \subseteq RetainerTerms /\ Cardinality(retainer) <= 1
  /\ DOMAIN periods \subseteq PeriodStarts /\ periods \in [DOMAIN periods -> Period]
  /\ DOMAIN leaseOf \subseteq Leases /\ leaseOf \in [DOMAIN leaseOf -> LeaseTerms]
  /\ homeStatus \in [Homes -> {"available", "rented"}]
  /\ DOMAIN requests \subseteq Signings /\ requests \in [DOMAIN requests -> Request]

LEMMA RecordsAreTyped == RecordTypes => RecordsTypeOK
BY RecordsAssumption DEF RecordTypes, RecordsTypeOK, Period, Request, RecordsAssumption

LEMMA RecordsInitOK == RecordsInit => RecordTypes
<1>. SUFFICES ASSUME RecordsInit PROVE RecordTypes
  OBVIOUS
<1>1. retainer \subseteq RetainerTerms /\ Cardinality(retainer) <= 1
  <2>1. Cardinality({}) = 0
    BY FS_EmptySet
  <2>. QED
    BY <2>1 DEF RecordsInit
<1>. QED
  BY <1>1, FirstDay DEF RecordsInit, RecordTypes, Period, Request

LEMMA RecordsStep == RecordTypes /\ [RecordsNext]_recordVars => RecordTypes'
<1>. SUFFICES ASSUME RecordTypes, [RecordsNext]_recordVars PROVE RecordTypes'
  OBVIOUS
<1>1. CASE CreateRetainer
  <2>1. PICK r \in RetainerTerms : retainer' = {r}
    BY <1>1 DEF CreateRetainer
  <2>2. Cardinality({r}) = 1
    BY FS_Singleton
  <2>3. retainer' \subseteq RetainerTerms /\ Cardinality(retainer') <= 1
    BY <2>1, <2>2
  <2>4. UNCHANGED <<recordDay, periods, leaseOf, homeStatus, requests>>
    BY <1>1 DEF CreateRetainer
  <2>. QED
    BY <2>3, <2>4 DEF RecordTypes, Period, Request
<1>2. CASE OpenPeriod
  <2>1. PICK s \in PeriodStarts, q \in QuotaAmounts, st \in {"open", "billed"} :
          periods' = IF s \in DOMAIN periods THEN [periods EXCEPT ![s].quota = q]
                     ELSE [t \in DOMAIN periods \cup {s} |->
                             IF t = s THEN [quota |-> q, status |-> st, used |-> 0] ELSE periods[t]]
    BY <1>2 DEF OpenPeriod
  <2>2. DOMAIN periods' \subseteq PeriodStarts /\ periods' \in [DOMAIN periods' -> Period]
    <3>1. CASE s \in DOMAIN periods
      BY <2>1, <3>1 DEF RecordTypes, Period
    <3>2. CASE s \notin DOMAIN periods
      <4>1. [quota |-> q, status |-> st, used |-> 0] \in Period
        BY RecordsAssumption DEF Period, RecordsAssumption
      <4>. QED
        BY <2>1, <3>2, <4>1 DEF RecordTypes
    <3>. QED
      BY <3>1, <3>2
  <2>. QED
    BY <1>2, <2>2 DEF OpenPeriod, RecordTypes, Period, Request
<1>3. CASE LogConsumption
  <2>1. PICK s \in DOMAIN periods, q \in Entries :
          periods[s].used + q <= FullUse /\ periods' = [periods EXCEPT ![s].used = @ + q]
    BY <1>3 DEF LogConsumption
  <2>2. periods[s].used + q \in 0..FullUse
    BY <2>1, RecordsAssumption DEF RecordsAssumption, RecordTypes, Period
  <2>3. DOMAIN periods' = DOMAIN periods /\ periods' \in [DOMAIN periods' -> Period]
    BY <2>1, <2>2 DEF RecordTypes, Period
  <2>. QED
    BY <1>3, <2>3 DEF LogConsumption, RecordTypes, Period, Request
<1>4. CASE CreateLease
  <2>1. PICK l \in Leases \ DOMAIN leaseOf, t \in LeaseTerms :
          /\ leaseOf' = [k \in DOMAIN leaseOf \cup {l} |-> IF k = l THEN t ELSE leaseOf[k]]
          /\ homeStatus' = [homeStatus EXCEPT ![t.home] = "rented"]
    BY <1>4 DEF CreateLease
  <2>2. DOMAIN leaseOf' \subseteq Leases /\ leaseOf' \in [DOMAIN leaseOf' -> LeaseTerms]
    BY <2>1 DEF RecordTypes
  <2>3. homeStatus' \in [Homes -> {"available", "rented"}]
    BY <2>1 DEF RecordTypes
  <2>. QED
    BY <1>4, <2>2, <2>3 DEF CreateLease, RecordTypes, Period, Request
<1>5. CASE CreateSigningRequest
  <2>1. PICK r \in Signings \ DOMAIN requests :
          requests' = [k \in DOMAIN requests \cup {r} |->
                         IF k # r THEN requests[k]
                         ELSE [status |-> "sent", sent |-> recordDay, viewed |-> NoDay,
                               signed |-> NoDay, declined |-> NoDay]]
    BY <1>5 DEF CreateSigningRequest
  <2>2. [status |-> "sent", sent |-> recordDay, viewed |-> NoDay, signed |-> NoDay, declined |-> NoDay] \in Request
    BY RecordsAssumption DEF RecordsAssumption, Request, SignStatuses, NoDay, RecordTypes
  <2>3. DOMAIN requests' \subseteq Signings /\ requests' \in [DOMAIN requests' -> Request]
    BY <2>1, <2>2 DEF RecordTypes
  <2>. QED
    BY <1>5, <2>3 DEF CreateSigningRequest, RecordTypes, Period, Request
<1>6. CASE MarkSigningStatus
  <2>1. PICK r \in DOMAIN requests, s \in SignStatuses \ {"sent"} :
          requests' = [requests EXCEPT ![r].status = s,
             ![r].viewed = IF s = "viewed" THEN recordDay ELSE @,
             ![r].signed = IF s = "signed" THEN recordDay ELSE @,
             ![r].declined = IF s = "declined" THEN recordDay ELSE @]
    BY <1>6 DEF MarkSigningStatus
  <2>2. recordDay \in Int
    BY RecordsAssumption DEF RecordsAssumption, RecordTypes
  <2>3. DOMAIN requests' = DOMAIN requests /\ requests' \in [DOMAIN requests' -> Request]
    BY <2>1, <2>2 DEF RecordTypes, Request
  <2>. QED
    BY <1>6, <2>3 DEF MarkSigningStatus, RecordTypes, Period, Request
<1>7. CASE RecordDayPasses
  BY <1>7 DEF RecordDayPasses, RecordTypes, Period, Request
<1>8. CASE UNCHANGED recordVars
  BY <1>8 DEF recordVars, RecordTypes, Period, Request
<1>. QED
  BY <1>1, <1>2, <1>3, <1>4, <1>5, <1>6, <1>7, <1>8 DEF RecordsNext

LEMMA LeasesMoveUp ==
  ASSUME RecordTypes, NEW l \in DOMAIN leaseOf, leaseOf'[l] = leaseOf[l], recordDay' \in RecordDays, recordDay <= recordDay'
  PROVE  Rank[UrgencyOf(leaseOf[l])'] <= Rank[UrgencyOf(leaseOf[l])]
<1>1. /\ Rank["passed"] = 0 /\ Rank["critical"] = 1 /\ Rank["due"] = 2
      /\ Rank["upcoming"] = 3 /\ Rank["quiet"] = 4 /\ Rank["ended"] = 5
  BY DEF Rank
<1>2. leaseOf[l].ends \in Int /\ leaseOf[l].notice \in Int /\ recordDay \in Int /\ recordDay' \in Int
  BY RecordsAssumption DEF RecordTypes, RecordsAssumption
<1>. QED
  BY <1>1, <1>2 DEF UrgencyOf, DaysToEnd, DaysToNotice

LEMMA WarningRises ==
  RecordTypes /\ RecordTypes' /\ [RecordsNext]_recordVars =>
    [/\ \A l \in DOMAIN leaseOf : Rank[UrgencyOf(leaseOf[l])'] <= Rank[UrgencyOf(leaseOf[l])]
     /\ \A s \in DOMAIN periods :
          recordDay' = recordDay /\ periods'[s].quota = periods[s].quota
            => Severity[Burning(s)'] >= Severity[Burning(s)]]_recordVars
<1>. SUFFICES ASSUME RecordTypes, RecordTypes', RecordsNext
              PROVE  /\ \A l \in DOMAIN leaseOf : Rank[UrgencyOf(leaseOf[l])'] <= Rank[UrgencyOf(leaseOf[l])]
                     /\ \A s \in DOMAIN periods :
                          recordDay' = recordDay /\ periods'[s].quota = periods[s].quota
                            => Severity[Burning(s)'] >= Severity[Burning(s)]
  OBVIOUS
<1>1. ASSUME NEW l \in DOMAIN leaseOf
      PROVE  Rank[UrgencyOf(leaseOf[l])'] <= Rank[UrgencyOf(leaseOf[l])]
  <2>1. leaseOf'[l] = leaseOf[l]
    <3>1. CASE CreateLease
      BY <3>1 DEF CreateLease
    <3>2. CASE UNCHANGED leaseOf
      BY <3>2
    <3>. QED
      BY <3>1, <3>2 DEF RecordsNext, CreateRetainer, OpenPeriod, LogConsumption, CreateSigningRequest,
         MarkSigningStatus, RecordDayPasses
  <2>2. recordDay' \in RecordDays /\ recordDay <= recordDay'
    <3>1. recordDay \in Nat /\ recordDay' \in Nat /\ recordDay' \in RecordDays
      BY RecordsAssumption DEF RecordsAssumption, RecordTypes
    <3>2. recordDay' = recordDay \/ recordDay' > recordDay
      BY DEF RecordsNext, CreateRetainer, OpenPeriod, LogConsumption, CreateLease, CreateSigningRequest,
         MarkSigningStatus, RecordDayPasses
    <3>. QED
      BY <3>1, <3>2
  <2>. QED
    BY <2>1, <2>2, LeasesMoveUp
<1>2. ASSUME NEW s \in DOMAIN periods, recordDay' = recordDay, periods'[s].quota = periods[s].quota
      PROVE  Severity[Burning(s)'] >= Severity[Burning(s)]
  <2>1. periods[s].used <= periods'[s].used /\ s \in DOMAIN periods'
    <3>1. CASE OpenPeriod
      <4>1. PICK t \in PeriodStarts, q \in QuotaAmounts, st \in {"open", "billed"} :
              periods' = IF t \in DOMAIN periods THEN [periods EXCEPT ![t].quota = q]
                         ELSE [x \in DOMAIN periods \cup {t} |->
                                 IF x = t THEN [quota |-> q, status |-> st, used |-> 0] ELSE periods[x]]
        BY <3>1 DEF OpenPeriod
      <4>2. periods'[s].used = periods[s].used /\ s \in DOMAIN periods'
        BY <4>1 DEF RecordTypes, Period
      <4>. QED
        BY <4>2, RecordsAssumption DEF RecordsAssumption, RecordTypes, Period
    <3>2. CASE LogConsumption
      <4>1. PICK t \in DOMAIN periods, q \in Entries : periods' = [periods EXCEPT ![t].used = @ + q]
        BY <3>2 DEF LogConsumption
      <4>2. q \in Nat
        BY RecordsAssumption DEF RecordsAssumption
      <4>. QED
        BY <4>1, <4>2, RecordsAssumption DEF RecordsAssumption, RecordTypes, Period
    <3>3. CASE UNCHANGED periods
      BY <3>3, RecordsAssumption DEF RecordsAssumption, RecordTypes, Period
    <3>. QED
      BY <3>1, <3>2, <3>3 DEF RecordsNext, CreateRetainer, CreateLease, CreateSigningRequest, MarkSigningStatus,
         RecordDayPasses
  <2>. DEFINE quota == periods[s].quota
              u == periods[s].used
              v == periods'[s].used
  <2>2. s \in Int /\ recordDay \in Int /\ quota \in Nat /\ u \in Nat /\ v \in Nat
    BY <2>1, RecordsAssumption DEF RecordsAssumption, RecordTypes, Period
  <2>3. Severity[BurnStatus(s, quota, u)] <= Severity[BurnStatus(s, quota, v)]
    <3>. HIDE DEF quota, u, v
    <3>. QED
      BY <2>1, <2>2, SeverityRises DEF u, v
  <2>4. Burning(s) = BurnStatus(s, quota, u)
    BY DEF Burning
  <2>5. Burning(s)' = BurnStatus(s, quota, v)
    BY <1>2 DEF Burning, BurnStatus, Faster, Projected, Passed, Total
  <2>6. \A w \in Nat : Severity[BurnStatus(s, quota, w)] \in Nat
    BY DEF BurnStatus, Severity
  <2>. QED
    BY <2>2, <2>3, <2>4, <2>5, <2>6
<1>. QED
  BY <1>1, <1>2

(* Retainers, leases and signature requests only ever hold what their      *)
(* tables may hold (packages/db/src/retainers.ts, leases.ts, signing.ts).  *)
THEOREM RecordsKeepTypes == RecordsSpec => []RecordsTypeOK
BY RecordsInitOK, RecordsStep, RecordsAreTyped, PTL DEF RecordsSpec

(* leases/renewal.ts and retainers/burn.ts: a lease that runs on only      *)
(* moves up the radar, and more hours on the same day and quota never make *)
(* the list of retainers look better; the quotients of burn.ts are rounded *)
(* down, and rounding keeps the order.                                     *)
THEOREM WarningsStand == RecordsSpec => WarningsOnlyRise
<1>1. RecordsSpec => []RecordTypes
  BY RecordsInitOK, RecordsStep, PTL DEF RecordsSpec
<1>. QED
  BY <1>1, WarningRises, PTL DEF RecordsSpec, WarningsOnlyRise

-----------------------------------------------------------------------------
(* The shell: the declarations of the manifests feed every handler.        *)

(* What the manifests declare, module by module: requirements are of one   *)
(* level, and every handler listens to an event of its own module, of one  *)
(* that its module requires, or of one that it requires itself.            *)
LEMMA Declarations ==
  /\ M!leads = M!ALL_MODULES["leads"] /\ M!documents = M!ALL_MODULES["documents"]
  /\ M!search = M!ALL_MODULES["search"] /\ M!billing = M!ALL_MODULES["billing"]
  /\ M!collections = M!ALL_MODULES["collections"] /\ M!retainers = M!ALL_MODULES["retainers"]
  /\ M!catalog = M!ALL_MODULES["catalog"] /\ M!inventory = M!ALL_MODULES["inventory"]
  /\ M!orders = M!ALL_MODULES["orders"] /\ M!portal = M!ALL_MODULES["portal"]
  /\ M!alerts = M!ALL_MODULES["alerts"] /\ M!metering = M!ALL_MODULES["metering"]
  /\ M!checks = M!ALL_MODULES["checks"] /\ M!leases = M!ALL_MODULES["leases"]
  /\ M!signing = M!ALL_MODULES["signing"]
BY DEF M!ALL_MODULES, M!ModuleIds

LEMMA OneLevel ==
  ASSUME NEW n \in M!ModuleIds, NEW m \in M!ALL_MODULES[n].requires
  PROVE  m \in M!ModuleIds /\ M!ALL_MODULES[m].requires = {}
<1>1. M!ALL_MODULES[n].requires \subseteq {"billing", "catalog", "documents"}
  BY Declarations DEF M!ModuleIds, M!Declared, M!leads, M!documents, M!search, M!billing, M!collections,
     M!retainers, M!catalog, M!inventory, M!orders, M!portal, M!alerts, M!metering, M!checks, M!leases, M!signing
<1>. QED
  BY <1>1, Declarations DEF M!ModuleIds, M!Declared, M!documents, M!billing, M!catalog

LEMMA HandlersListen ==
  ASSUME NEW m \in M!ModuleIds, NEW h \in M!ALL_MODULES[m].handlers
  PROVE  \E n \in {m} \cup M!ALL_MODULES[m].requires \cup h.requires : h.events \cap M!ALL_MODULES[n].emits # {}
<1>1. M!ALL_MODULES[m].handlers # {} => m \in {"search", "collections", "retainers", "orders", "alerts", "metering"}
  BY Declarations DEF M!ModuleIds, M!Declared, M!leads, M!documents, M!billing, M!catalog, M!inventory, M!portal,
     M!checks, M!leases, M!signing
<1>2. CASE m = "search"
  BY <1>2, Declarations DEF M!Declared, M!On, M!search, M!documents
<1>3. CASE m = "collections"
  BY <1>3, Declarations DEF M!Declared, M!On, M!collections, M!billing
<1>4. CASE m = "retainers"
  BY <1>4, Declarations DEF M!Declared, M!On, M!retainers
<1>5. CASE m = "orders"
  BY <1>5, Declarations DEF M!Declared, M!On, M!orders
<1>6. CASE m = "alerts"
  BY <1>6, Declarations DEF M!Declared, M!On, M!alerts, M!billing, M!retainers, M!documents, M!inventory, M!collections
<1>7. CASE m = "metering"
  BY <1>7, Declarations DEF M!Declared, M!On, M!metering, M!documents, M!collections
<1>. QED
  BY <1>1, <1>2, <1>3, <1>4, <1>5, <1>6, <1>7

----------------------------------------------------------------------------
(* What is requested is in the composition, and all that it requires.      *)
LEMMA RequiredToo ==
  ASSUME enabledModules \subseteq M!ModuleIds
  PROVE  Modules \subseteq M!ModuleIds /\ \A m \in Modules : M!ALL_MODULES[m].requires \subseteq Modules
<1>1. Requested \subseteq M!ModuleIds
  BY DEF Requested, M!PlanModules, M!starter, M!ModuleIds
<1>2. Modules \subseteq M!ModuleIds
  BY <1>1, OneLevel DEF Modules, Requires
<1>3. ASSUME NEW m \in Modules PROVE M!ALL_MODULES[m].requires \subseteq Modules
  <2>1. CASE m \in Requested
    BY <2>1 DEF Modules, Requires
  <2>2. CASE m \notin Requested
    <3>1. PICK n \in M!ModuleIds : m \in M!ALL_MODULES[n].requires
      BY <1>1, <2>2, OneLevel DEF Modules, Requires
    <3>. QED
      BY <3>1, OneLevel
  <2>. QED
    BY <2>1, <2>2
<1>. QED
  BY <1>2, <1>3

LEMMA FedByDeclarations == enabledModules \subseteq M!ModuleIds => HandlersAreFed
<1>. SUFFICES ASSUME enabledModules \subseteq M!ModuleIds, NEW h \in Routes
              PROVE  h.events \cap Emitted # {}
  BY DEF HandlersAreFed
<1>1. PICK m \in Modules : h \in M!ALL_MODULES[m].handlers
  BY DEF Routes
<1>2. h.requires \subseteq Modules
  BY DEF Routes
<1>3. m \in M!ModuleIds /\ M!ALL_MODULES[m].requires \subseteq Modules
  BY RequiredToo
<1>4. PICK n \in {m} \cup M!ALL_MODULES[m].requires \cup h.requires : h.events \cap M!ALL_MODULES[n].emits # {}
  BY <1>1, <1>3, HandlersListen
<1>5. n \in Modules
  BY <1>2, <1>3, <1>4
<1>. QED
  BY <1>4, <1>5 DEF Emitted

LEMMA ShellStarts == ShellInit => ShellTypeOK
<1>. SUFFICES ASSUME ShellInit PROVE ShellTypeOK
  OBVIOUS
<1>1. \A preset \in DOMAIN M!PRESETS : M!PRESETS[preset] \subseteq M!ModuleIds
  BY DEF M!PRESETS, M!ModuleIds
<1>. QED
  BY <1>1 DEF ShellInit, ShellTypeOK

LEMMA ShellStep == ShellTypeOK /\ [ShellNext]_shellVars => ShellTypeOK'
BY ShellAssumption DEF ShellAssumption, ShellTypeOK, ShellNext, ToggleModule, ChangePlan, Use, shellVars

(* packages/modules/src/manifests.ts: whatever modules are toggled, in any *)
(* order and from any preset, no handler of the composition waits for an   *)
(* event that no module of it emits; and the rows stay within what the     *)
(* registry knows.                                                         *)
THEOREM HandlersHear == ShellSpec => [](ShellTypeOK /\ HandlersAreFed)
<1>1. ShellTypeOK => HandlersAreFed
  BY FedByDeclarations DEF ShellTypeOK
<1>. QED
  BY <1>1, ShellStarts, ShellStep, PTL DEF ShellSpec
=============================================================================
