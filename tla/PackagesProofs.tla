--------------------------- MODULE PackagesProofs ---------------------------
(***************************************************************************)
(* Theorems about Packages, for any number of packages, modules and        *)
(* connections: what the default packages keep, and what a tenant has when *)
(* a package has been applied to it.  The inductive invariant says what a  *)
(* call relies on while it runs: the defaults it has inserted are nobody   *)
(* else's, the rows it has written are its own, and every module that the  *)
(* package does not have is still to be visited, was written, or was       *)
(* enabled behind its UPDATE.  The last part says which calls can wait for *)
(* each other in a circle.                                                 *)
(***************************************************************************)
EXTENDS Packages, FiniteSetTheorems, WellFoundedInduction, TLAPS

WroteIsFunction == wrote = [c \in Calls |-> wrote[c]]

(* A default that a call has inserted is not there yet, and its alone. *)
InsertedIsNew ==
  \A c \in Calls : \A k \in inserted[c] :
    /\ pc[c] = "seed" /\ state[k] = "none" /\ Slug[k] \in Range(Defaults)
    /\ \A j \in Live : Slug[j] # Slug[k]
    /\ \A d \in Calls : \A j \in inserted[d] : Slug[j] = Slug[k] => c = d /\ j = k

LocksHold ==
  /\ \A c \in Calls : pc[c] \notin {"disable", "upsert"} => DOMAIN wrote[c] = {}
  /\ \A c, d \in Calls : c # d => DOMAIN wrote[c] \cap DOMAIN wrote[d] = {}

(* What the UPDATE, and then the INSERTs, of an application have done. *)
Disabling(c) ==
  pc[c] = "disable" =>
    /\ \A m \in DOMAIN wrote[c] : m \notin Range(held[c]) /\ ~wrote[c][m]
    /\ \A m \in Range(todo[c]) : m \notin Range(held[c])
    /\ c \notin raced => \A m \in enabled : \/ m \in Range(held[c]) \/ m \in Range(todo[c])
                                            \/ m \in DOMAIN wrote[c]

Enabling(c) ==
  pc[c] = "upsert" =>
    /\ \A m \in DOMAIN wrote[c] : wrote[c][m] <=> m \in Range(held[c])
    /\ Range(todo[c]) \subseteq Range(held[c])
    /\ \A m \in Range(held[c]) : m \in Range(todo[c]) \/ m \in DOMAIN wrote[c]
    /\ c \notin raced => \A m \in enabled : m \in Range(held[c]) \/ m \in DOMAIN wrote[c]

ApplicationsFollow == \A c \in Calls : Disabling(c) /\ Enabling(c)

IInv ==
  /\ TypeOK /\ WroteIsFunction /\ InsertedIsNew /\ LocksHold /\ ApplicationsFollow /\ DefaultsStand

----------------------------------------------------------------------------
LEMMA SeqRange == ASSUME NEW S, NEW s \in Seq(S) PROVE Range(s) \subseteq S
<1>1. \A i \in DOMAIN s : s[i] \in S OBVIOUS
<1>2. ASSUME NEW x \in Range(s) PROVE x \in S BY <1>1 DEF Range
<1>3. QED BY <1>2

(* Without its first element a sequence has the type of what is left. *)
LEMMA TypedByRange ==
  ASSUME NEW S, NEW T, NEW s \in Seq(S), Range(s) \subseteq T, s # <<>>
  PROVE  Tail(s) \in Seq(T)
<1>1. Len(s) \in Nat /\ Len(s) >= 1 /\ DOMAIN s = 1 .. Len(s) OBVIOUS
<1>2. \A i \in 1 .. Len(s) : s[i] \in T BY <1>1 DEF Range
<1>3. s \in Seq(T) BY <1>1, <1>2
<1> QED BY <1>3

LEMMA RangeOfEmpty == Range(<<>>) = {}
BY DEF Range

LEMMA RangeOfTail ==
  ASSUME NEW S, NEW s \in Seq(S), s # <<>>
  PROVE  /\ Head(s) \in S /\ Tail(s) \in Seq(S)
         /\ Range(s) = {Head(s)} \cup Range(Tail(s))
<1>1. Head(s) \in S /\ Tail(s) \in Seq(S) /\ Len(s) \in Nat /\ Len(s) >= 1 /\ DOMAIN s = 1 .. Len(s)
      /\ Head(s) = s[1] /\ Len(Tail(s)) = Len(s) - 1 /\ DOMAIN Tail(s) = 1 .. Len(s) - 1
      /\ \A i \in 1 .. Len(s) - 1 : Tail(s)[i] = s[i + 1]
  OBVIOUS
<1>2. ASSUME NEW i \in DOMAIN s PROVE s[i] \in {Head(s)} \cup Range(Tail(s))
  <2>1. CASE i = 1 BY <1>1, <2>1
  <2>2. CASE i # 1
    <3>1. i - 1 \in DOMAIN Tail(s) /\ (i - 1) + 1 = i BY <1>1, <2>2
    <3>2. Tail(s)[i - 1] = s[i] BY <1>1, <3>1
    <3> QED BY <3>1, <3>2 DEF Range
  <2> QED BY <2>1, <2>2
<1>3. ASSUME NEW i \in DOMAIN Tail(s) PROVE Tail(s)[i] \in Range(s)
  <2>1. i + 1 \in DOMAIN s BY <1>1
  <2> QED BY <1>1, <2>1 DEF Range
<1>4. Head(s) \in Range(s) BY <1>1 DEF Range
<1> QED BY <1>1, <1>2, <1>3, <1>4 DEF Range

(* A scan of a finite set visits all of it. *)
LEMMA ScanIsComplete ==
  ASSUME NEW S, IsFiniteSet(S), NEW scan \in SetToSeqs(S)
  PROVE  scan \in Seq(S) /\ Range(scan) = S
<1> DEFINE n == Cardinality(S)
<1>1. n \in Nat BY FS_CardinalityType
<1>2. scan \in [1 .. n -> S] /\ \A i, j \in 1 .. n : i # j => scan[i] # scan[j] BY DEF SetToSeqs
<1> HIDE DEF n
<1>3. IsFiniteSet(1 .. n) /\ Cardinality(1 .. n) = n BY <1>1, FS_Interval
<1>4. scan \in Injection(1 .. n, S) BY <1>2 DEF Injection, IsInjective
<1>5. scan \in Surjection(1 .. n, S) BY <1>3, <1>4, FS_Injection DEF n
<1>6. \A x \in S : \E i \in 1 .. n : scan[i] = x BY <1>5 DEF Surjection
<1>7. scan \in Seq(S) BY <1>1, <1>2
<1>8. Range(scan) = S BY <1>2, <1>6 DEF Range
<1> QED BY <1>7, <1>8

(* One more row written. *)
LEMMA WrittenRows ==
  ASSUME NEW f, NEW m \in Modules, NEW on \in BOOLEAN,
         DOMAIN f \subseteq Modules, f \in [DOMAIN f -> BOOLEAN]
  PROVE  /\ DOMAIN Written(f, m, on) = DOMAIN f \cup {m}
         /\ Written(f, m, on) \in [DOMAIN f \cup {m} -> BOOLEAN]
         /\ Written(f, m, on)[m] = on
         /\ \A x \in DOMAIN f : x # m => Written(f, m, on)[x] = f[x]
BY DEF Written

LEMMA InitIInv == ASSUME Init PROVE IInv
<1> USE DEF Init
<1>1. Range(<<>>) = {} BY RangeOfEmpty
<1>2. TypeOK /\ WroteIsFunction BY <1>1 DEF TypeOK, Nothing, WroteIsFunction
<1>3. InsertedIsNew /\ LocksHold BY DEF InsertedIsNew, LocksHold, Nothing
<1>4. ApplicationsFollow BY DEF ApplicationsFollow, Disabling, Enabling
<1>5. DefaultsStand BY DEF DefaultsStand, Live
<1> QED BY <1>2, <1>3, <1>4, <1>5 DEF IInv

(* What a call relies on survives a step of another call that enables      *)
(* nothing unseen.                                                         *)
LEMMA OthersFollow ==
  ASSUME NEW d \in Calls, Disabling(d), Enabling(d),
         pc'[d] = pc[d], held'[d] = held[d], todo'[d] = todo[d], wrote'[d] = wrote[d],
         pc[d] \in {"disable", "upsert"} /\ d \notin raced' =>
           d \notin raced /\ \A m \in enabled' : m \in enabled \/ m \in Range(held[d])
  PROVE  Disabling(d)' /\ Enabling(d)'
<1>1. Disabling(d)' BY DEF Disabling
<1>2. Enabling(d)' BY DEF Enabling
<1> QED BY <1>1, <1>2

(* Nothing but packages changes. *)
LEMMA PackagesStep ==
  ASSUME IInv, UNCHANGED <<enabled, pc, held, todo, wrote, inserted, raced>>,
         state' \in [Ids -> {"none", "live", "deleted"}],
         contents' \in [Ids -> Seq(Modules)], edited' \in [Ids -> Seq(Modules)],
         \A k \in Ids : state'[k] = "live" =>
            /\ contents'[k] = edited'[k]
            /\ k \in Live \/ Slug[k] \notin Range(Defaults),
         \A c \in Calls : \A k \in inserted[c] : state'[k] = "none"
  PROVE  IInv'
<1>1. TypeOK' /\ WroteIsFunction' BY DEF IInv, TypeOK, WroteIsFunction
<1>2. InsertedIsNew' BY DEF IInv, InsertedIsNew, Live
<1>3. LocksHold' BY DEF IInv, LocksHold
<1>4. ApplicationsFollow' BY DEF IInv, ApplicationsFollow, Disabling, Enabling
<1>5. DefaultsStand' BY DEF IInv, DefaultsStand, Live
<1> QED BY <1>1, <1>2, <1>3, <1>4, <1>5 DEF IInv

LEMMA OneStatementStep ==
  ASSUME IInv,
         \/ CreatePackage
         \/ \E k \in Ids : DeletePackage(k) \/ \E list \in Lists : UpdatePackage(k, list)
         \/ \E m \in Modules : \E on \in BOOLEAN : ToggleModule(m, on)
  PROVE  IInv'
<1>1. CASE CreatePackage
  <2>1. PICK k \in Ids, list \in Lists : Create(k, list) BY <1>1 DEF CreatePackage
  <2>2. list \in Seq(Modules) BY PackagesAssumption DEF PackagesAssumption
  <2> QED BY <1>1, <2>1, <2>2, PackagesStep
        DEF CreatePackage, Create, Fresh, IInv, TypeOK, InsertedIsNew, DefaultsStand, Live
<1>2. ASSUME NEW k \in Ids, DeletePackage(k) PROVE IInv'
  <2>1. <<>> \in Seq(Modules) OBVIOUS
  <2> QED BY <1>2, <2>1, PackagesStep DEF DeletePackage, IInv, TypeOK, InsertedIsNew, DefaultsStand, Live
<1>3. ASSUME NEW k \in Ids, NEW list \in Lists, UpdatePackage(k, list) PROVE IInv'
  <2>1. list \in Seq(Modules) BY PackagesAssumption DEF PackagesAssumption
  <2> QED BY <1>3, <2>1, PackagesStep DEF UpdatePackage, IInv, TypeOK, InsertedIsNew, DefaultsStand, Live
<1>4. ASSUME NEW m \in Modules, NEW on \in BOOLEAN, ToggleModule(m, on) PROVE IInv'
  <2>1. /\ UNCHANGED <<state, contents, edited, pc, held, todo, wrote, inserted>>
        /\ enabled' = IF on THEN enabled \cup {m} ELSE enabled \ {m}
        /\ raced' = IF on THEN raced \cup Overtaken({m}) ELSE raced
    BY <1>4 DEF ToggleModule, packages
  <2>2. TypeOK' /\ WroteIsFunction' BY <2>1 DEF IInv, TypeOK, WroteIsFunction, Overtaken
  <2>3. InsertedIsNew' /\ LocksHold' /\ DefaultsStand'
    BY <2>1 DEF IInv, InsertedIsNew, LocksHold, DefaultsStand, Live
  <2>4. ASSUME NEW d \in Calls PROVE Disabling(d)' /\ Enabling(d)'
    <3>1. pc[d] \in {"disable", "upsert"} /\ d \notin raced' =>
            d \notin raced /\ \A x \in enabled' : x \in enabled \/ x \in Range(held[d])
      BY <2>1 DEF Overtaken
    <3> QED BY <2>1, <3>1, OthersFollow DEF IInv, ApplicationsFollow
  <2> QED BY <2>2, <2>3, <2>4 DEF IInv, ApplicationsFollow
<1> QED BY <1>1, <1>2, <1>3, <1>4

(* COMMIT or ROLLBACK: what the connection leaves behind. *)
LEMMA Closed ==
  ASSUME IInv, NEW c \in Calls, Close(c)
  PROVE  /\ pc' \in [Calls -> {"idle", "seed", "copy", "apply", "disable", "upsert", "applied"}]
         /\ held' \in [Calls -> Seq(Modules)] /\ todo' \in [Calls -> Seq(Range(Defaults) \cup Modules)]
         /\ \A d \in Calls : Range(todo'[d]) \subseteq IF pc'[d] = "seed" THEN Range(Defaults) ELSE Modules
         /\ DOMAIN wrote' = Calls
         /\ \A d \in Calls : DOMAIN wrote'[d] \subseteq Modules /\ wrote'[d] \in [DOMAIN wrote'[d] -> BOOLEAN]
         /\ inserted' \in [Calls -> SUBSET Ids] /\ raced' \subseteq Calls
         /\ WroteIsFunction' /\ LocksHold'
         /\ pc'[c] = "idle" /\ inserted'[c] = {}
         /\ \A d \in Calls : d # c => /\ pc'[d] = pc[d] /\ held'[d] = held[d] /\ todo'[d] = todo[d]
                                      /\ wrote'[d] = wrote[d] /\ inserted'[d] = inserted[d]
<1> USE DEF Close, Goto
<1>1. /\ DOMAIN wrote' = Calls /\ wrote' = [d \in Calls |-> wrote'[d]]
      /\ wrote'[c] = Nothing /\ DOMAIN wrote'[c] = {}
      /\ \A d \in Calls : d # c => wrote'[d] = wrote[d]
  BY DEF IInv, TypeOK, WroteIsFunction, Nothing
<1>2. /\ pc'[c] = "idle" /\ inserted'[c] = {} /\ todo'[c] = <<>>
      /\ \A d \in Calls : d # c => /\ pc'[d] = pc[d] /\ held'[d] = held[d] /\ todo'[d] = todo[d]
                                   /\ inserted'[d] = inserted[d]
  BY DEF IInv, TypeOK
<1>3. held' \in [Calls -> Seq(Modules)] /\ todo' \in [Calls -> Seq(Range(Defaults) \cup Modules)]
  BY DEF IInv, TypeOK
<1>4. Range(<<>>) = {} BY RangeOfEmpty
<1>5. \A d \in Calls : Range(todo'[d]) \subseteq IF pc'[d] = "seed" THEN Range(Defaults) ELSE Modules
  BY <1>2, <1>4 DEF IInv, TypeOK
<1>6. \A d \in Calls : DOMAIN wrote'[d] \subseteq Modules /\ wrote'[d] \in [DOMAIN wrote'[d] -> BOOLEAN]
  BY <1>1 DEF IInv, TypeOK, Nothing
<1>7. LocksHold' BY <1>1, <1>2 DEF IInv, LocksHold
<1>8. inserted' \in [Calls -> SUBSET Ids] /\ raced' \subseteq Calls
      /\ pc' \in [Calls -> {"idle", "seed", "copy", "apply", "disable", "upsert", "applied"}]
  BY DEF IInv, TypeOK
<1> QED BY <1>1, <1>2, <1>3, <1>5, <1>6, <1>7, <1>8 DEF WroteIsFunction

(* An end that leaves the modules of the tenant alone. *)
LEMMA ClosedFollow ==
  ASSUME IInv, NEW c \in Calls, Close(c), UNCHANGED enabled PROVE ApplicationsFollow'
<1>1. ASSUME NEW d \in Calls PROVE Disabling(d)' /\ Enabling(d)'
  <2>1. CASE d = c BY <2>1, Closed DEF Disabling, Enabling
  <2>2. CASE d # c
    <3>1. d \notin raced' => d \notin raced BY <2>2 DEF Close
    <3>2. /\ pc'[d] = pc[d] /\ held'[d] = held[d] /\ todo'[d] = todo[d] /\ wrote'[d] = wrote[d]
          /\ Disabling(d) /\ Enabling(d)
      BY <2>2, Closed DEF IInv, ApplicationsFollow
    <3> QED BY <3>1, <3>2, OthersFollow
  <2> QED BY <2>1, <2>2
<1> QED BY <1>1 DEF ApplicationsFollow

LEMMA RollbackStep ==
  ASSUME IInv, NEW c \in Calls, Close(c), UNCHANGED <<packages, enabled>> PROVE IInv'
<1>1. UNCHANGED <<state, contents, edited, enabled>> BY DEF packages
<1>2. TypeOK' BY <1>1, Closed DEF IInv, TypeOK
<1>3. InsertedIsNew'
  <2>1. /\ inserted'[c] = {}
        /\ \A d \in Calls : d # c => pc'[d] = pc[d] /\ inserted'[d] = inserted[d]
    BY Closed
  <2> QED BY <1>1, <2>1 DEF IInv, InsertedIsNew, Live
<1>4. DefaultsStand' BY <1>1 DEF IInv, DefaultsStand, Live
<1> QED BY <1>1, <1>2, <1>3, <1>4, Closed, ClosedFollow DEF IInv

(* A step of c before its COMMIT. *)
LEMMA ApplicationStep ==
  ASSUME IInv, NEW c \in Calls, UNCHANGED <<enabled, raced>>, Disabling(c)', Enabling(c)',
         \A d \in Calls : d # c => /\ pc'[d] = pc[d] /\ held'[d] = held[d]
                                   /\ todo'[d] = todo[d] /\ wrote'[d] = wrote[d]
  PROVE  ApplicationsFollow'
<1>1. ASSUME NEW d \in Calls PROVE Disabling(d)' /\ Enabling(d)'
  <2>1. CASE d = c BY <2>1
  <2>2. CASE d # c BY <2>2, OthersFollow DEF IInv, ApplicationsFollow
  <2> QED BY <2>1, <2>2
<1> QED BY <1>1 DEF ApplicationsFollow

LEMMA SeedStep == ASSUME IInv, NEW c \in Calls, Seed(c) PROVE IInv'
<1>1. /\ pc[c] = "idle" /\ pc' = [pc EXCEPT ![c] = "seed"] /\ todo' = [todo EXCEPT ![c] = Defaults]
      /\ UNCHANGED <<state, contents, edited, enabled, held, wrote, inserted, raced>>
  BY DEF Seed, Goto, packages
<1>2. Defaults \in Seq(Range(Defaults) \cup Modules) BY PackagesAssumption DEF PackagesAssumption
<1>3. TypeOK'
  <2>1. \A d \in Calls : Range(todo'[d]) \subseteq IF pc'[d] = "seed" THEN Range(Defaults) ELSE Modules
    BY <1>1 DEF IInv, TypeOK
  <2> QED BY <1>1, <1>2, <2>1 DEF IInv, TypeOK
<1>4. WroteIsFunction' /\ DefaultsStand' BY <1>1 DEF IInv, WroteIsFunction, DefaultsStand, Live
<1>5. pc'[c] = "seed" /\ \A d \in Calls : d # c => pc'[d] = pc[d] /\ todo'[d] = todo[d]
  BY <1>1 DEF IInv, TypeOK
<1>6. InsertedIsNew' BY <1>1, <1>5 DEF IInv, InsertedIsNew, Live
<1>7. LocksHold' BY <1>1, <1>5 DEF IInv, LocksHold
<1>8. ApplicationsFollow' BY <1>1, <1>5, ApplicationStep DEF Disabling, Enabling
<1> QED BY <1>3, <1>4, <1>6, <1>7, <1>8 DEF IInv

LEMMA InsertIfMissingStep == ASSUME IInv, NEW c \in Calls, InsertIfMissing(c) PROVE IInv'
<1>1. /\ pc[c] = "seed" /\ todo[c] # <<>> /\ todo' = [todo EXCEPT ![c] = Tail(@)]
      /\ UNCHANGED <<state, contents, edited, enabled, pc, held, wrote, raced>>
  BY DEF InsertIfMissing, packages
<1>2. /\ Tail(todo[c]) \in Seq(Range(Defaults) \cup Modules)
      /\ Head(todo[c]) \in Range(todo[c]) /\ Range(Tail(todo[c])) \subseteq Range(todo[c])
  BY <1>1, RangeOfTail DEF IInv, TypeOK
<1>3. Range(todo[c]) \subseteq Range(Defaults) BY <1>1 DEF IInv, TypeOK
<1>4. /\ inserted' \in [Calls -> SUBSET Ids] /\ InsertedIsNew'
  <2>1. CASE UNCHANGED inserted BY <1>1, <2>1 DEF IInv, TypeOK, InsertedIsNew, Live
  <2>2. CASE inserted' # inserted
    <3>1. PICK k \in Ids : /\ Fresh(k) /\ Slug[k] = Head(todo[c])
                           /\ inserted' = [inserted EXCEPT ![c] = @ \cup {k}]
                           /\ ~Taken(c, Head(todo[c])) /\ ~\E d \in Calls : WaitsFor(c, d)
      BY <2>2 DEF InsertIfMissing
    <3>2. Slug[k] \in Range(Defaults) /\ state[k] = "none" BY <1>2, <1>3, <3>1 DEF Fresh
    <3>3. \A j \in Live \cup inserted[c] : Slug[j] # Slug[k] BY <3>1 DEF Taken
    <3>4. \A d \in Calls : d # c => \A j \in inserted[d] : Slug[j] # Slug[k]
      BY <1>1, <3>1 DEF WaitsFor
    <3>5. /\ inserted' \in [Calls -> SUBSET Ids] /\ inserted'[c] = inserted[c] \cup {k}
          /\ \A d \in Calls : d # c => inserted'[d] = inserted[d]
      BY <3>1 DEF IInv, TypeOK
    <3>6. Live' = Live BY <1>1 DEF Live
    <3>7. ASSUME NEW d \in Calls, NEW i \in inserted'[d], NEW e \in Calls, NEW j \in inserted'[e],
                 Slug[j] = Slug[i]
          PROVE  d = e /\ i = j
      <4>1. CASE i = k BY <4>1, <3>3, <3>4, <3>5, <3>7 DEF IInv, InsertedIsNew
      <4>2. CASE j = k BY <4>2, <3>3, <3>4, <3>5, <3>7 DEF IInv, InsertedIsNew
      <4>3. CASE i # k /\ j # k
        <5>1. i \in inserted[d] /\ j \in inserted[e] BY <4>3, <3>5
        <5> QED BY <5>1, <3>7 DEF IInv, InsertedIsNew
      <4> QED BY <4>1, <4>2, <4>3
    <3>8. ASSUME NEW d \in Calls, NEW i \in inserted'[d]
          PROVE  /\ pc[d] = "seed" /\ state[i] = "none" /\ Slug[i] \in Range(Defaults)
                 /\ \A j \in Live : Slug[j] # Slug[i]
      <4>1. CASE i \in inserted[d] BY <4>1 DEF IInv, InsertedIsNew
      <4>2. CASE i \notin inserted[d]
        <5>1. d = c /\ i = k BY <3>5, <4>2
        <5> QED BY <5>1, <1>1, <3>2, <3>3
      <4> QED BY <4>1, <4>2
    <3>9. InsertedIsNew'
      <4>1. \A d \in Calls : \A i \in inserted'[d] :
              /\ pc'[d] = "seed" /\ state'[i] = "none" /\ Slug[i] \in Range(Defaults)
              /\ \A j \in Live' : Slug[j] # Slug[i]
        BY <1>1, <3>6, <3>8
      <4>2. \A d \in Calls : \A i \in inserted'[d] :
              \A e \in Calls : \A j \in inserted'[e] : Slug[j] = Slug[i] => d = e /\ i = j
        BY <3>7
      <4> QED BY <4>1, <4>2 DEF InsertedIsNew
    <3> QED BY <3>5, <3>9
  <2> QED BY <2>1, <2>2
<1>5. TypeOK'
  <2>1. todo'[c] = Tail(todo[c]) /\ \A d \in Calls : d # c => todo'[d] = todo[d]
    BY <1>1 DEF IInv, TypeOK
  <2>2. \A d \in Calls : Range(todo'[d]) \subseteq IF pc'[d] = "seed" THEN Range(Defaults) ELSE Modules
    BY <1>1, <1>2, <1>3, <2>1 DEF IInv, TypeOK
  <2>3. todo' \in [Calls -> Seq(Range(Defaults) \cup Modules)] BY <1>1, <1>2 DEF IInv, TypeOK
  <2> QED BY <1>1, <1>4, <2>2, <2>3 DEF IInv, TypeOK
<1>6. WroteIsFunction' /\ DefaultsStand' /\ LocksHold'
  BY <1>1 DEF IInv, WroteIsFunction, DefaultsStand, Live, LocksHold
<1>7. ApplicationsFollow' BY <1>1, ApplicationStep DEF IInv, TypeOK, Disabling, Enabling
<1> QED BY <1>4, <1>5, <1>6, <1>7 DEF IInv

LEMMA GetPackageStep == ASSUME IInv, NEW c \in Calls, NEW k \in Ids, GetPackage(c, k) PROVE IInv'
<1>1. /\ pc[c] = "idle" /\ held' = [held EXCEPT ![c] = contents[k]]
      /\ UNCHANGED <<state, contents, edited, enabled, todo, wrote, inserted, raced>>
  BY DEF GetPackage, packages
<1>2. PICK label \in {"copy", "apply"} : pc' = [pc EXCEPT ![c] = label] BY DEF GetPackage, Goto
<1>3. /\ pc'[c] = label /\ \A d \in Calls : d # c => pc'[d] = pc[d] /\ held'[d] = held[d]
  BY <1>1, <1>2 DEF IInv, TypeOK
<1>4. TypeOK'
  <2>1. \A d \in Calls : Range(todo'[d]) \subseteq IF pc'[d] = "seed" THEN Range(Defaults) ELSE Modules
    BY <1>1, <1>3 DEF IInv, TypeOK
  <2> QED BY <1>1, <1>2, <2>1 DEF IInv, TypeOK
<1>5. WroteIsFunction' /\ DefaultsStand' BY <1>1 DEF IInv, WroteIsFunction, DefaultsStand, Live
<1>6. InsertedIsNew' BY <1>1, <1>3 DEF IInv, InsertedIsNew, Live
<1>7. LocksHold' BY <1>1, <1>3 DEF IInv, LocksHold
<1>8. ApplicationsFollow' BY <1>1, <1>3, ApplicationStep DEF Disabling, Enabling
<1> QED BY <1>4, <1>5, <1>6, <1>7, <1>8 DEF IInv

LEMMA CopyPackageStep == ASSUME IInv, NEW c \in Calls, CopyPackage(c) PROVE IInv'
<1>1. PICK k \in Ids : Create(k, held[c]) BY DEF CopyPackage
<1>2. Close(c) /\ UNCHANGED enabled BY DEF CopyPackage
<1>3. held[c] \in Seq(Modules) BY DEF IInv, TypeOK
<1>4. /\ state[k] = "none" /\ \A d \in Calls : k \notin inserted[d]
      /\ Slug[k] \notin Range(Defaults)
      /\ state' = [state EXCEPT ![k] = "live"] /\ contents' = [contents EXCEPT ![k] = held[c]]
      /\ edited' = [edited EXCEPT ![k] = held[c]]
  BY <1>1 DEF Create, Fresh
<1>5. TypeOK'
  <2>1. /\ state' \in [Ids -> {"none", "live", "deleted"}]
        /\ contents' \in [Ids -> Seq(Modules)] /\ edited' \in [Ids -> Seq(Modules)]
    BY <1>3, <1>4 DEF IInv, TypeOK
  <2>2. enabled' \subseteq Modules BY <1>2 DEF IInv, TypeOK
  <2> QED BY <1>2, <2>1, <2>2, Closed DEF TypeOK
<1>6. Live' = Live \cup {k} BY <1>4 DEF IInv, TypeOK, Live
<1>7. InsertedIsNew'
  <2>1. /\ inserted'[c] = {}
        /\ \A d \in Calls : d # c => pc'[d] = pc[d] /\ inserted'[d] = inserted[d]
    BY <1>2, Closed
  <2>2. \A j \in Ids : j # k => state'[j] = state[j] BY <1>4 DEF IInv, TypeOK
  <2>3. inserted \in [Calls -> SUBSET Ids] BY DEF IInv, TypeOK
  <2> QED BY <1>4, <1>6, <2>1, <2>2, <2>3 DEF IInv, InsertedIsNew
<1>8. DefaultsStand'
  <2>1. contents'[k] = edited'[k] /\ \A j \in Ids : j # k => contents'[j] = contents[j] /\ edited'[j] = edited[j]
    BY <1>4 DEF IInv, TypeOK
  <2>2. \A j \in Live' : contents'[j] = edited'[j] BY <1>6, <2>1 DEF IInv, DefaultsStand, Live
  <2>3. \A i \in Live' : Slug[i] \in Range(Defaults) => \A j \in Live' : Slug[j] = Slug[i] => j = i
    BY <1>4, <1>6 DEF IInv, DefaultsStand
  <2> QED BY <2>2, <2>3 DEF DefaultsStand
<1> QED BY <1>2, <1>5, <1>7, <1>8, Closed, ClosedFollow DEF IInv

LEMMA CommitSeedStep == ASSUME IInv, NEW c \in Calls, CommitSeed(c) PROVE IInv'
<1>1. Close(c) /\ UNCHANGED enabled BY DEF CommitSeed
<1>2. /\ state' = [k \in Ids |-> IF k \in inserted[c] THEN "live" ELSE state[k]]
      /\ contents' = [k \in Ids |-> IF k \in inserted[c] THEN Preset[Slug[k]] ELSE contents[k]]
      /\ edited' = [k \in Ids |-> IF k \in inserted[c] THEN Preset[Slug[k]] ELSE edited[k]]
  BY DEF CommitSeed
<1>3. inserted \in [Calls -> SUBSET Ids] BY DEF IInv, TypeOK
<1>4. \A k \in inserted[c] : Preset[Slug[k]] \in Seq(Modules)
  BY PackagesAssumption DEF PackagesAssumption, IInv, InsertedIsNew
<1>5. TypeOK'
  <2>1. state' \in [Ids -> {"none", "live", "deleted"}] BY <1>2 DEF IInv, TypeOK
  <2>2. contents' \in [Ids -> Seq(Modules)] /\ edited' \in [Ids -> Seq(Modules)]
    BY <1>2, <1>4 DEF IInv, TypeOK
  <2>3. enabled' \subseteq Modules BY <1>1 DEF IInv, TypeOK
  <2> QED BY <1>1, <2>1, <2>2, <2>3, Closed DEF TypeOK
<1>6. Live' = Live \cup inserted[c] BY <1>2, <1>3 DEF Live
<1>7. InsertedIsNew'
  <2>1. /\ inserted'[c] = {}
        /\ \A d \in Calls : d # c => pc'[d] = pc[d] /\ inserted'[d] = inserted[d]
    BY <1>1, Closed
  <2>2. ASSUME NEW d \in Calls, d # c, NEW k \in inserted[d]
        PROVE  state'[k] = "none" /\ \A j \in Live' : Slug[j] # Slug[k]
    <3>1. \A j \in inserted[c] : Slug[j] # Slug[k] BY <2>2 DEF IInv, InsertedIsNew
    <3>2. k \notin inserted[c] /\ k \in Ids BY <1>3, <3>1
    <3> QED BY <1>2, <1>6, <3>1, <3>2 DEF IInv, InsertedIsNew
  <2> QED BY <2>1, <2>2 DEF IInv, InsertedIsNew
<1>8. DefaultsStand'
  <2>1. \A k \in Live' : contents'[k] = edited'[k] BY <1>2, <1>6 DEF IInv, DefaultsStand, Live
  <2>2. ASSUME NEW i \in Live', Slug[i] \in Range(Defaults), NEW j \in Live', Slug[j] = Slug[i]
        PROVE  j = i
    <3>1. CASE i \in inserted[c] BY <3>1, <1>6, <2>2 DEF IInv, InsertedIsNew
    <3>2. CASE j \in inserted[c] BY <3>2, <1>6, <2>2 DEF IInv, InsertedIsNew
    <3>3. CASE i \in Live /\ j \in Live BY <3>3, <2>2 DEF IInv, DefaultsStand
    <3> QED BY <3>1, <3>2, <3>3, <1>6
  <2> QED BY <2>1, <2>2 DEF DefaultsStand
<1> QED BY <1>1, <1>5, <1>7, <1>8, Closed, ClosedFollow DEF IInv

(* A step of an application before its COMMIT: packages stay as they are.  *)
LEMMA ApplyingStep ==
  ASSUME IInv, NEW c \in Calls, NEW label \in {"disable", "upsert"}, pc[c] \in {"apply", "disable", "upsert"},
         pc' = [pc EXCEPT ![c] = label], NEW rest \in Seq(Modules), todo' = [todo EXCEPT ![c] = rest],
         NEW rows, DOMAIN rows \subseteq Modules, rows \in [DOMAIN rows -> BOOLEAN],
         wrote' = [wrote EXCEPT ![c] = rows],
         \A d \in Calls : d # c => DOMAIN rows \cap DOMAIN wrote[d] = {},
         UNCHANGED <<state, contents, edited, enabled, held, inserted, raced>>,
         Disabling(c)', Enabling(c)'
  PROVE  IInv'
<1>1. /\ pc'[c] = label /\ todo'[c] = rest /\ wrote'[c] = rows
      /\ \A d \in Calls : d # c => pc'[d] = pc[d] /\ todo'[d] = todo[d] /\ wrote'[d] = wrote[d]
      /\ DOMAIN wrote' = Calls /\ WroteIsFunction'
  BY DEF IInv, TypeOK, WroteIsFunction
<1>2. TypeOK'
  <2>1. rest \in Seq(Range(Defaults) \cup Modules) /\ Range(rest) \subseteq Modules BY SeqRange
  <2>2. todo' \in [Calls -> Seq(Range(Defaults) \cup Modules)] BY <2>1 DEF IInv, TypeOK
  <2>3. \A d \in Calls : Range(todo'[d]) \subseteq IF pc'[d] = "seed" THEN Range(Defaults) ELSE Modules
    BY <1>1, <2>1 DEF IInv, TypeOK
  <2>4. \A d \in Calls : DOMAIN wrote'[d] \subseteq Modules /\ wrote'[d] \in [DOMAIN wrote'[d] -> BOOLEAN]
    BY <1>1 DEF IInv, TypeOK
  <2> QED BY <1>1, <2>2, <2>3, <2>4 DEF IInv, TypeOK
<1>3. InsertedIsNew'
  <2>1. inserted[c] = {} BY DEF IInv, TypeOK, InsertedIsNew
  <2> QED BY <1>1, <2>1 DEF IInv, InsertedIsNew, Live
<1>4. LocksHold' BY <1>1 DEF IInv, LocksHold
<1>5. DefaultsStand' BY DEF IInv, DefaultsStand, Live
<1>6. ApplicationsFollow' BY <1>1, ApplicationStep
<1> QED BY <1>1, <1>2, <1>3, <1>4, <1>5, <1>6 DEF IInv

LEMMA ApplyStep == ASSUME IInv, NEW c \in Calls, Apply(c) PROVE IInv'
<1>1. PICK scan \in SetToSeqs(enabled \ Range(held[c])) : todo' = [todo EXCEPT ![c] = scan] BY DEF Apply
<1>2. /\ pc[c] = "apply" /\ pc' = [pc EXCEPT ![c] = "disable"]
      /\ UNCHANGED <<state, contents, edited, enabled, held, wrote, inserted, raced>>
  BY DEF Apply, Goto, packages
<1>3. scan \in Seq(enabled \ Range(held[c])) /\ Range(scan) = enabled \ Range(held[c])
  <2>1. enabled \subseteq Modules /\ IsFiniteSet(Modules)
    BY PackagesAssumption DEF PackagesAssumption, IInv, TypeOK
  <2>2. IsFiniteSet(enabled \ Range(held[c])) BY <2>1, FS_Subset
  <2> QED BY <2>2, ScanIsComplete
<1>4. scan \in Seq(Modules)
  <2>1. enabled \ Range(held[c]) \subseteq Modules BY DEF IInv, TypeOK
  <2> QED BY <1>3, <2>1
<1>5. /\ DOMAIN wrote[c] = {} /\ DOMAIN wrote[c] \subseteq Modules /\ wrote[c] \in [DOMAIN wrote[c] -> BOOLEAN]
      /\ wrote' = [wrote EXCEPT ![c] = wrote[c]]
  BY <1>2 DEF IInv, TypeOK, LocksHold, WroteIsFunction
<1>6. Disabling(c)' /\ Enabling(c)'
  <2>1. pc'[c] = "disable" /\ todo'[c] = scan /\ held' = held /\ enabled' = enabled /\ wrote' = wrote
    BY <1>1, <1>2 DEF IInv, TypeOK
  <2>2. Enabling(c)' BY <2>1 DEF Enabling
  <2>3. Disabling(c)' BY <1>3, <1>5, <2>1 DEF Disabling
  <2> QED BY <2>2, <2>3
<1> QED BY <1>1, <1>2, <1>4, <1>5, <1>6, ApplyingStep

LEMMA DisableModuleStep == ASSUME IInv, NEW c \in Calls, DisableModule(c) PROVE IInv'
<1> DEFINE m == Head(todo[c])
<1>1. /\ pc[c] = "disable" /\ todo[c] # <<>> /\ todo' = [todo EXCEPT ![c] = Tail(todo[c])]
      /\ UNCHANGED <<state, contents, edited, enabled, pc, held, inserted, raced>>
      /\ \/ m \in enabled /\ ~Locked(c, m) /\ wrote' = [wrote EXCEPT ![c] = Written(wrote[c], m, FALSE)]
         \/ m \notin enabled /\ UNCHANGED wrote
  BY DEF DisableModule, packages
<1>2. /\ m \in Modules /\ Tail(todo[c]) \in Seq(Modules)
      /\ Range(todo[c]) = {m} \cup Range(Tail(todo[c]))
  <2>1. todo[c] \in Seq(Range(Defaults) \cup Modules) /\ Range(todo[c]) \subseteq Modules
    BY <1>1 DEF IInv, TypeOK
  <2>2. /\ m \in Range(todo[c]) /\ Tail(todo[c]) \in Seq(Range(Defaults) \cup Modules)
        /\ Range(todo[c]) = {m} \cup Range(Tail(todo[c]))
    BY <1>1, <2>1, RangeOfTail
  <2>3. Tail(todo[c]) \in Seq(Modules) BY <2>1, <2>2, TypedByRange
  <2> QED BY <2>1, <2>2, <2>3
<1>3. /\ pc' = [pc EXCEPT ![c] = "disable"] /\ pc'[c] = "disable" /\ todo'[c] = Tail(todo[c])
      /\ held'[c] = held[c] /\ m \notin Range(held[c])
  BY <1>1, <1>2 DEF IInv, TypeOK, ApplicationsFollow, Disabling
<1>4. DOMAIN wrote[c] \subseteq Modules /\ wrote[c] \in [DOMAIN wrote[c] -> BOOLEAN]
  BY DEF IInv, TypeOK
<1>5. Disabling(c) BY DEF IInv, ApplicationsFollow
<1>6. Enabling(c)' BY <1>3 DEF Enabling
<1> HIDE DEF m
<1>7. CASE m \in enabled /\ ~Locked(c, m) /\ wrote' = [wrote EXCEPT ![c] = Written(wrote[c], m, FALSE)]
  <2> DEFINE rows == Written(wrote[c], m, FALSE)
  <2>1. /\ DOMAIN rows = DOMAIN wrote[c] \cup {m} /\ rows \in [DOMAIN wrote[c] \cup {m} -> BOOLEAN]
        /\ rows[m] = FALSE /\ \A x \in DOMAIN wrote[c] : x # m => rows[x] = wrote[c][x]
    BY <1>2, <1>4, WrittenRows
  <2>2. wrote'[c] = rows BY <1>7 DEF IInv, TypeOK
  <2> HIDE DEF rows
  <2>3. \A d \in Calls : d # c => DOMAIN rows \cap DOMAIN wrote[d] = {}
    <3>1. \A d \in Calls : d # c => m \notin DOMAIN wrote[d] BY <1>7 DEF Locked
    <3>2. \A d \in Calls : d # c => DOMAIN wrote[c] \cap DOMAIN wrote[d] = {} BY DEF IInv, LocksHold
    <3> QED BY <2>1, <3>1, <3>2
  <2>4. \A x \in DOMAIN rows : x \notin Range(held[c]) /\ ~rows[x]
    BY <1>1, <1>3, <1>5, <2>1 DEF Disabling
  <2>5. Disabling(c)' BY <1>1, <1>2, <1>3, <1>5, <2>1, <2>2, <2>4 DEF Disabling
  <2>6. DOMAIN rows \subseteq Modules /\ rows \in [DOMAIN rows -> BOOLEAN] BY <1>2, <1>4, <2>1
  <2>7. wrote' = [wrote EXCEPT ![c] = rows] BY <1>7 DEF rows
  <2> QED BY <1>1, <1>2, <1>3, <1>6, <2>3, <2>5, <2>6, <2>7, ApplyingStep
<1>8. CASE m \notin enabled /\ UNCHANGED wrote
  <2>1. Disabling(c)' BY <1>1, <1>2, <1>3, <1>5, <1>8 DEF Disabling
  <2>2. wrote' = [wrote EXCEPT ![c] = wrote[c]] BY <1>8 DEF IInv, WroteIsFunction
  <2>3. \A d \in Calls : d # c => DOMAIN wrote[c] \cap DOMAIN wrote[d] = {} BY DEF IInv, LocksHold
  <2> QED BY <1>1, <1>2, <1>3, <1>4, <1>6, <2>1, <2>2, <2>3, ApplyingStep
<1> QED BY <1>1, <1>7, <1>8

LEMMA DisabledStep == ASSUME IInv, NEW c \in Calls, Disabled(c) PROVE IInv'
<1>1. /\ pc[c] = "disable" /\ todo[c] = <<>> /\ todo' = [todo EXCEPT ![c] = held[c]]
      /\ pc' = [pc EXCEPT ![c] = "upsert"]
      /\ UNCHANGED <<state, contents, edited, enabled, held, wrote, inserted, raced>>
  BY DEF Disabled, Goto, packages
<1>2. /\ held[c] \in Seq(Modules) /\ wrote' = [wrote EXCEPT ![c] = wrote[c]]
      /\ DOMAIN wrote[c] \subseteq Modules /\ wrote[c] \in [DOMAIN wrote[c] -> BOOLEAN]
  BY <1>1 DEF IInv, TypeOK, WroteIsFunction
<1>3. pc'[c] = "upsert" /\ todo'[c] = held[c] /\ held'[c] = held[c] /\ wrote'[c] = wrote[c]
  BY <1>1 DEF IInv, TypeOK
<1>4. Disabling(c)' BY <1>3 DEF Disabling
<1>5. Enabling(c)'
  <2>1. Disabling(c) /\ Range(todo[c]) = {} BY <1>1, RangeOfEmpty DEF IInv, ApplicationsFollow
  <2>2. \A x \in DOMAIN wrote[c] : wrote[c][x] <=> x \in Range(held[c])
    BY <1>1, <1>2, <2>1 DEF Disabling
  <2>3. c \notin raced => \A x \in enabled : x \in Range(held[c]) \/ x \in DOMAIN wrote[c]
    BY <1>1, <2>1 DEF Disabling
  <2> QED BY <1>1, <1>3, <2>2, <2>3 DEF Enabling
<1>6. \A d \in Calls : d # c => DOMAIN wrote[c] \cap DOMAIN wrote[d] = {} BY DEF IInv, LocksHold
<1> QED BY <1>1, <1>2, <1>4, <1>5, <1>6, ApplyingStep

LEMMA EnableModuleStep == ASSUME IInv, NEW c \in Calls, EnableModule(c) PROVE IInv'
<1> DEFINE m == Head(todo[c])
           rows == Written(wrote[c], m, TRUE)
<1>1. /\ pc[c] = "upsert" /\ todo[c] # <<>> /\ todo' = [todo EXCEPT ![c] = Tail(todo[c])]
      /\ ~Locked(c, m) /\ wrote' = [wrote EXCEPT ![c] = rows]
      /\ UNCHANGED <<state, contents, edited, enabled, pc, held, inserted, raced>>
  BY DEF EnableModule, packages
<1>2. /\ m \in Modules /\ Tail(todo[c]) \in Seq(Modules)
      /\ Range(todo[c]) = {m} \cup Range(Tail(todo[c]))
  <2>1. todo[c] \in Seq(Range(Defaults) \cup Modules) /\ Range(todo[c]) \subseteq Modules
    BY <1>1 DEF IInv, TypeOK
  <2>2. /\ m \in Range(todo[c]) /\ Tail(todo[c]) \in Seq(Range(Defaults) \cup Modules)
        /\ Range(todo[c]) = {m} \cup Range(Tail(todo[c]))
    BY <1>1, <2>1, RangeOfTail
  <2>3. Tail(todo[c]) \in Seq(Modules) BY <2>1, <2>2, TypedByRange
  <2> QED BY <2>1, <2>2, <2>3
<1>3. DOMAIN wrote[c] \subseteq Modules /\ wrote[c] \in [DOMAIN wrote[c] -> BOOLEAN]
  BY DEF IInv, TypeOK
<1>4. /\ DOMAIN rows = DOMAIN wrote[c] \cup {m} /\ rows \in [DOMAIN wrote[c] \cup {m} -> BOOLEAN]
      /\ rows[m] = TRUE /\ \A x \in DOMAIN wrote[c] : x # m => rows[x] = wrote[c][x]
  BY <1>2, <1>3, WrittenRows
<1> HIDE DEF m, rows
<1>5. \A d \in Calls : d # c => DOMAIN rows \cap DOMAIN wrote[d] = {}
  <2>1. \A d \in Calls : d # c => m \notin DOMAIN wrote[d] BY <1>1 DEF Locked
  <2>2. \A d \in Calls : d # c => DOMAIN wrote[c] \cap DOMAIN wrote[d] = {} BY DEF IInv, LocksHold
  <2> QED BY <1>4, <2>1, <2>2
<1>6. /\ pc' = [pc EXCEPT ![c] = "upsert"] /\ pc'[c] = "upsert" /\ todo'[c] = Tail(todo[c])
      /\ held'[c] = held[c] /\ wrote'[c] = rows
  BY <1>1 DEF IInv, TypeOK
<1>7. Disabling(c)' BY <1>6 DEF Disabling
<1>8. Enabling(c)'
  <2>1. Enabling(c) /\ m \in Range(held[c]) BY <1>1, <1>2 DEF IInv, ApplicationsFollow, Enabling
  <2>2. \A x \in DOMAIN rows : rows[x] <=> x \in Range(held[c])
    BY <1>1, <1>4, <2>1 DEF Enabling
  <2>3. Range(Tail(todo[c])) \subseteq Range(held[c]) BY <1>1, <1>2, <2>1 DEF Enabling
  <2>4. \A x \in Range(held[c]) : x \in Range(Tail(todo[c])) \/ x \in DOMAIN rows
    BY <1>1, <1>2, <1>4, <2>1 DEF Enabling
  <2>5. c \notin raced => \A x \in enabled : x \in Range(held[c]) \/ x \in DOMAIN rows
    BY <1>1, <1>4, <2>1 DEF Enabling
  <2> QED BY <1>1, <1>6, <2>2, <2>3, <2>4, <2>5 DEF Enabling
<1>9. DOMAIN rows \subseteq Modules /\ rows \in [DOMAIN rows -> BOOLEAN] BY <1>2, <1>3, <1>4
<1> QED BY <1>1, <1>2, <1>5, <1>6, <1>7, <1>8, <1>9, ApplyingStep

(* What an application leaves behind. *)
LEMMA Applied ==
  ASSUME IInv, NEW c \in Calls, CommitApplication(c)
  PROVE  enabled' = Range(held[c]) \/ c \in raced
<1>1. /\ pc[c] = "upsert" /\ todo[c] = <<>>
      /\ enabled' = {m \in Modules : IF m \in DOMAIN wrote[c] THEN wrote[c][m] ELSE m \in enabled}
  BY DEF CommitApplication
<1>2. Enabling(c) /\ Range(todo[c]) = {} BY <1>1, RangeOfEmpty DEF IInv, ApplicationsFollow
<1>3. Range(held[c]) \subseteq Modules BY SeqRange DEF IInv, TypeOK
<1>4. \A m \in Range(held[c]) : m \in enabled' BY <1>1, <1>2, <1>3 DEF Enabling
<1>5. ASSUME c \notin raced, NEW m \in enabled' PROVE m \in Range(held[c])
  BY <1>1, <1>2, <1>5 DEF Enabling
<1> QED BY <1>4, <1>5

LEMMA CommitApplicationStep == ASSUME IInv, NEW c \in Calls, CommitApplication(c) PROVE IInv'
<1>1. /\ pc[c] = "upsert" /\ todo[c] = <<>> /\ pc' = [pc EXCEPT ![c] = "applied"]
      /\ enabled' = {m \in Modules : IF m \in DOMAIN wrote[c] THEN wrote[c][m] ELSE m \in enabled}
      /\ wrote' = [wrote EXCEPT ![c] = Nothing]
      /\ raced' = raced \cup (Overtaken(enabled') \ {c})
      /\ UNCHANGED <<state, contents, edited, held, todo, inserted>>
  BY DEF CommitApplication, Goto, packages
<1>2. /\ pc'[c] = "applied" /\ wrote'[c] = Nothing /\ DOMAIN wrote'[c] = {} /\ DOMAIN wrote' = Calls
      /\ \A d \in Calls : d # c => pc'[d] = pc[d] /\ wrote'[d] = wrote[d]
      /\ WroteIsFunction'
  BY <1>1 DEF IInv, TypeOK, Nothing, WroteIsFunction
<1>3. TypeOK'
  <2>1. \A d \in Calls : Range(todo'[d]) \subseteq IF pc'[d] = "seed" THEN Range(Defaults) ELSE Modules
    BY <1>1, <1>2 DEF IInv, TypeOK
  <2>2. \A d \in Calls : DOMAIN wrote'[d] \subseteq Modules /\ wrote'[d] \in [DOMAIN wrote'[d] -> BOOLEAN]
    BY <1>2 DEF IInv, TypeOK, Nothing
  <2>3. enabled' \subseteq Modules BY <1>1
  <2>4. raced' \subseteq Calls BY <1>1 DEF IInv, TypeOK, Overtaken
  <2>5. pc' \in [Calls -> {"idle", "seed", "copy", "apply", "disable", "upsert", "applied"}]
    BY <1>1 DEF IInv, TypeOK
  <2> QED BY <1>1, <1>2, <2>1, <2>2, <2>3, <2>4, <2>5 DEF IInv, TypeOK
<1>4. InsertedIsNew' BY <1>1, <1>2 DEF IInv, InsertedIsNew, Live
<1>5. LocksHold' BY <1>1, <1>2 DEF IInv, LocksHold
<1>6. DefaultsStand' BY <1>1 DEF IInv, DefaultsStand, Live
<1>7. ASSUME NEW d \in Calls PROVE Disabling(d)' /\ Enabling(d)'
  <2>1. CASE d = c BY <1>2, <2>1 DEF Disabling, Enabling
  <2>2. CASE d # c
    <3>1. /\ pc'[d] = pc[d] /\ held'[d] = held[d] /\ todo'[d] = todo[d] /\ wrote'[d] = wrote[d]
          /\ Disabling(d) /\ Enabling(d)
      BY <1>1, <1>2, <2>2 DEF IInv, ApplicationsFollow
    <3>2. pc[d] \in {"disable", "upsert"} /\ d \notin raced' =>
            d \notin raced /\ \A x \in enabled' : x \in enabled \/ x \in Range(held[d])
      BY <1>1, <2>2 DEF Overtaken
    <3> QED BY <3>1, <3>2, OthersFollow
  <2> QED BY <2>1, <2>2
<1> QED BY <1>2, <1>3, <1>4, <1>5, <1>6, <1>7 DEF IInv, ApplicationsFollow

----------------------------------------------------------------------------
LEMMA StepIInv == ASSUME IInv, NEW c \in Calls, Step(c) PROVE IInv'
<1>1. CASE InsertIfMissing(c) BY <1>1, InsertIfMissingStep
<1>2. CASE CommitSeed(c) BY <1>2, CommitSeedStep
<1>3. CASE CopyPackage(c) BY <1>3, CopyPackageStep
<1>4. CASE Apply(c) BY <1>4, ApplyStep
<1>5. CASE DisableModule(c) BY <1>5, DisableModuleStep
<1>6. CASE Disabled(c) BY <1>6, DisabledStep
<1>7. CASE EnableModule(c) BY <1>7, EnableModuleStep
<1>8. CASE CommitApplication(c) BY <1>8, CommitApplicationStep
<1>9. CASE Return(c) BY <1>9, RollbackStep DEF Return
<1>10. CASE NoIdLeft(c) BY <1>10, RollbackStep DEF NoIdLeft, Rollback
<1> QED BY <1>1, <1>2, <1>3, <1>4, <1>5, <1>6, <1>7, <1>8, <1>9, <1>10 DEF Step

LEMMA NextIInv == ASSUME IInv, [Next]_vars PROVE IInv'
<1>1. CASE UNCHANGED vars
  BY <1>1 DEF vars, IInv, TypeOK, WroteIsFunction, InsertedIsNew, LocksHold, ApplicationsFollow,
              Disabling, Enabling, DefaultsStand, Live
<1>2. CASE \/ CreatePackage
           \/ \E k \in Ids : DeletePackage(k) \/ \E list \in Lists : UpdatePackage(k, list)
           \/ \E m \in Modules : \E on \in BOOLEAN : ToggleModule(m, on)
  BY <1>2, OneStatementStep
<1>3. ASSUME NEW c \in Calls, Start(c) PROVE IInv' BY <1>3, SeedStep, GetPackageStep DEF Start
<1>4. ASSUME NEW c \in Calls, Step(c) PROVE IInv' BY <1>4, StepIInv
<1>5. ASSUME NEW c \in Calls, DeadlockVictim(c) \/ Fail(c) PROVE IInv'
  <2>1. Close(c) /\ UNCHANGED <<packages, enabled>> BY <1>5 DEF DeadlockVictim, Fail, Rollback
  <2> QED BY <2>1, RollbackStep
<1> QED BY <1>1, <1>2, <1>3, <1>4, <1>5 DEF Next

(* The invariant of Packages. *)
THEOREM Invariance == Spec => []IInv
BY InitIInv, NextIInv, PTL DEF Spec

(* Every variable keeps its type: in particular, a call only ever writes   *)
(* modules of the tenant and defaults of the list                          *)
(* (feature-packages.ts).                                                  *)
THEOREM TypeCorrect == Spec => []TypeOK
<1>1. IInv => TypeOK BY DEF IInv
<1> QED BY <1>1, Invariance, PTL

(* Sign-ins at the same time make one package of each default, and no      *)
(* sign-in takes back what an administrator has put into one               *)
(* (seedDefaultPackages).                                                  *)
THEOREM OneDefaultEach == Spec => []DefaultsStand
<1>1. IInv => DefaultsStand BY DEF IInv
<1> QED BY <1>1, Invariance, PTL

(* applyFeaturePackageToTenant leaves exactly the modules that it read,    *)
(* unless another call enabled a module behind its UPDATE.                 *)
THEOREM Replacement == Spec => ReplacesUnlessRaced
<1> DEFINE Replaces == \A c \in Calls :
             pc[c] # "applied" /\ pc'[c] = "applied" => enabled' = Range(held[c]) \/ c \in raced
<1>1. ASSUME IInv, [Next]_vars PROVE [Replaces]_vars
  <2>1. SUFFICES ASSUME Next, NEW c \in Calls, pc[c] # "applied", pc'[c] = "applied"
                 PROVE  enabled' = Range(held[c]) \/ c \in raced
    BY <1>1
  <2>2. pc \in [Calls -> {"idle", "seed", "copy", "apply", "disable", "upsert", "applied"}]
    BY <1>1 DEF IInv, TypeOK
  <2>3. CASE \/ CreatePackage
             \/ \E k \in Ids : DeletePackage(k) \/ \E list \in Lists : UpdatePackage(k, list)
             \/ \E m \in Modules : \E on \in BOOLEAN : ToggleModule(m, on)
    BY <2>1, <2>3 DEF CreatePackage, DeletePackage, UpdatePackage, ToggleModule
  <2>4. ASSUME NEW d \in Calls, Close(d) PROVE FALSE
    <3>1. pc'[d] = "idle" /\ \A e \in Calls : e # d => pc'[e] = pc[e] BY <1>1, <2>4, Closed
    <3> QED BY <2>1, <3>1
  <2>5. ASSUME NEW d \in Calls, Start(d) PROVE FALSE
    BY <2>1, <2>2, <2>5 DEF Start, Seed, GetPackage, Goto
  <2>6. ASSUME NEW d \in Calls, Step(d) PROVE enabled' = Range(held[c]) \/ c \in raced
    <3>1. CASE CommitApplication(d)
      <4>1. d = c BY <2>1, <2>2, <3>1 DEF CommitApplication, Goto
      <4> QED BY <1>1, <3>1, <4>1, Applied
    <3>2. CASE InsertIfMissing(d) \/ Apply(d) \/ DisableModule(d) \/ Disabled(d) \/ EnableModule(d)
      BY <2>1, <2>2, <3>2 DEF InsertIfMissing, Apply, DisableModule, Disabled, EnableModule, Goto
    <3>3. CASE CommitSeed(d) \/ CopyPackage(d) \/ Return(d) \/ NoIdLeft(d)
      BY <2>4, <3>3 DEF CommitSeed, CopyPackage, Return, NoIdLeft, Rollback
    <3> QED BY <2>6, <3>1, <3>2, <3>3 DEF Step
  <2>7. ASSUME NEW d \in Calls, DeadlockVictim(d) \/ Fail(d) PROVE FALSE
    BY <2>4, <2>7 DEF DeadlockVictim, Fail, Rollback
  <2> QED BY <2>1, <2>3, <2>5, <2>6, <2>7 DEF Next
<1> QED BY <1>1, Invariance, PTL DEF Spec, ReplacesUnlessRaced

----------------------------------------------------------------------------
(* Transactions that wait for each other in a circle. *)
Ring(S) ==
  S # {} /\ \A c \in S : (\E d \in S : WaitsFor(c, d)) /\ (\E d \in S : WaitsFor(d, c))

(* Each of them applies a package, has written one module and waits for    *)
(* another.                                                                *)
DeadlocksAreOfApplications ==
  \A S \in SUBSET Open : Ring(S) =>
    \A c \in S : pc[c] \in {"disable", "upsert"} /\ \E m \in DOMAIN wrote[c] : m # Head(todo[c])

(* The slugs q are the end of DEFAULT_PACKAGES, and the packages of P come *)
(* before them.                                                            *)
InOrder(q, P) ==
  LET n == Len(Defaults) - Len(q) IN
    /\ n \in Nat
    /\ \A i \in 1 .. Len(q) : q[i] = Defaults[n + i]
    /\ \A k \in P : \E j \in 1 .. n : Slug[k] = Defaults[j]

SeedsInOrder == \A c \in Calls : pc[c] = "seed" => InOrder(todo[c], inserted[c])

LEMMA Sequence ==
  ASSUME NEW S, NEW s \in Seq(S)
  PROVE  /\ Len(s) \in Nat /\ DOMAIN s = 1 .. Len(s)
         /\ s # <<>> => /\ Len(s) >= 1 /\ Head(s) = s[1] /\ Len(Tail(s)) = Len(s) - 1
                        /\ \A i \in 1 .. Len(s) - 1 : Tail(s)[i] = s[i + 1]
OBVIOUS

LEMMA DefaultsAreOrdered ==
  /\ Len(Defaults) \in Nat
  /\ \A i, j \in 1 .. Len(Defaults) : Defaults[i] = Defaults[j] => i = j
<1>1. Defaults \in Seq(Range(Defaults)) /\ \A i, j \in DOMAIN Defaults : Defaults[i] = Defaults[j] => i = j
  BY PackagesAssumption DEF PackagesAssumption
<1> QED BY <1>1, Sequence

LEMMA AllToCome == InOrder(Defaults, {})
BY DefaultsAreOrdered DEF InOrder

LEMMA OneFurther ==
  ASSUME NEW S, NEW q \in Seq(S), q # <<>>, NEW P, NEW Q, InOrder(q, P),
         \A k \in Q : k \in P \/ Slug[k] = Head(q)
  PROVE  InOrder(Tail(q), Q)
<1> DEFINE n == Len(Defaults) - Len(q)
           r == Tail(q)
<1>1. /\ Len(q) \in Nat /\ Len(q) >= 1 /\ Head(q) = q[1] /\ Len(r) = Len(q) - 1
      /\ \A i \in 1 .. Len(q) - 1 : r[i] = q[i + 1]
  BY Sequence
<1>2. /\ n \in Nat /\ \A i \in 1 .. Len(q) : q[i] = Defaults[n + i]
      /\ \A k \in P : \E j \in 1 .. n : Slug[k] = Defaults[j]
  BY DEF InOrder
<1>3. Len(Defaults) - Len(r) = n + 1 BY <1>1, DefaultsAreOrdered
<1> HIDE DEF n, r
<1>4. ASSUME NEW i \in 1 .. Len(r) PROVE r[i] = Defaults[(n + 1) + i]
  <2>1. i \in 1 .. Len(q) - 1 /\ i + 1 \in 1 .. Len(q) /\ n + (i + 1) = (n + 1) + i BY <1>1, <1>2
  <2> QED BY <1>1, <1>2, <2>1
<1>5. ASSUME NEW k \in Q PROVE \E j \in 1 .. n + 1 : Slug[k] = Defaults[j]
  <2>1. CASE k \in P BY <1>2, <2>1
  <2>2. CASE Slug[k] = Head(q)
    <3>1. 1 \in 1 .. Len(q) /\ n + 1 \in 1 .. n + 1 BY <1>1, <1>2
    <3>2. Slug[k] = Defaults[n + 1] BY <1>1, <1>2, <2>2, <3>1
    <3> QED BY <3>1, <3>2
  <2> QED BY <2>1, <2>2
<1>6. n + 1 \in Nat BY <1>2
<1>7. InOrder(r, Q) BY <1>3, <1>4, <1>5, <1>6 DEF InOrder
<1> QED BY <1>7 DEF r

LEMMA SeedsInOrderStep == IInv /\ SeedsInOrder /\ [Next]_vars => SeedsInOrder'
<1> SUFFICES ASSUME IInv, SeedsInOrder, [Next]_vars PROVE SeedsInOrder' OBVIOUS
<1>1. ASSUME NEW c \in Calls, pc'[c] # "seed",
             \A d \in Calls : d # c => pc'[d] = pc[d] /\ todo'[d] = todo[d] /\ inserted'[d] = inserted[d]
      PROVE  SeedsInOrder'
  BY <1>1 DEF SeedsInOrder
<1>2. CASE UNCHANGED vars BY <1>2 DEF vars, SeedsInOrder
<1>3. CASE \/ CreatePackage
           \/ \E k \in Ids : DeletePackage(k) \/ \E list \in Lists : UpdatePackage(k, list)
           \/ \E m \in Modules : \E on \in BOOLEAN : ToggleModule(m, on)
  BY <1>3 DEF CreatePackage, DeletePackage, UpdatePackage, ToggleModule, SeedsInOrder
<1>4. ASSUME NEW c \in Calls, Seed(c) PROVE SeedsInOrder'
  <2>1. todo'[c] = Defaults /\ inserted'[c] = {} BY <1>4 DEF Seed, IInv, TypeOK, InsertedIsNew
  <2>2. \A d \in Calls : d # c => pc'[d] = pc[d] /\ todo'[d] = todo[d] /\ inserted'[d] = inserted[d]
    BY <1>4 DEF Seed, Goto, IInv, TypeOK
  <2> QED BY <2>1, <2>2, AllToCome DEF SeedsInOrder
<1>5. ASSUME NEW c \in Calls, NEW k \in Ids, GetPackage(c, k) PROVE SeedsInOrder'
  BY <1>1, <1>5 DEF GetPackage, Goto, IInv, TypeOK
<1>6. ASSUME NEW c \in Calls, InsertIfMissing(c) PROVE SeedsInOrder'
  <2>1. /\ pc' = pc /\ pc[c] = "seed" /\ todo'[c] = Tail(todo[c]) /\ todo[c] # <<>>
        /\ todo[c] \in Seq(Range(Defaults) \cup Modules)
        /\ \A d \in Calls : d # c => todo'[d] = todo[d] /\ inserted'[d] = inserted[d]
        /\ \A k \in inserted'[c] : k \in inserted[c] \/ Slug[k] = Head(todo[c])
    BY <1>6 DEF InsertIfMissing, IInv, TypeOK
  <2>2. InOrder(todo[c], inserted[c]) BY <2>1 DEF SeedsInOrder
  <2>3. InOrder(todo'[c], inserted'[c]) BY <2>1, <2>2, OneFurther
  <2> QED BY <2>1, <2>3 DEF SeedsInOrder
<1>7. ASSUME NEW c \in Calls, Close(c) PROVE SeedsInOrder' BY <1>1, <1>7, Closed
<1>8. ASSUME NEW c \in Calls, Step(c) PROVE SeedsInOrder'
  <2>1. CASE Apply(c) \/ DisableModule(c) \/ Disabled(c) \/ EnableModule(c) \/ CommitApplication(c)
    BY <1>1, <2>1 DEF Apply, DisableModule, Disabled, EnableModule, CommitApplication, Goto, IInv, TypeOK
  <2>2. CASE CommitSeed(c) \/ CopyPackage(c) \/ Return(c) \/ NoIdLeft(c)
    BY <1>7, <2>2 DEF CommitSeed, CopyPackage, Return, NoIdLeft, Rollback
  <2> QED BY <1>6, <1>8, <2>1, <2>2 DEF Step
<1>9. ASSUME NEW c \in Calls, DeadlockVictim(c) \/ Fail(c) PROVE SeedsInOrder'
  BY <1>7, <1>9 DEF DeadlockVictim, Fail, Rollback
<1> QED BY <1>2, <1>3, <1>4, <1>5, <1>8, <1>9 DEF Next, Start

(* A sign-in that waits for another is behind it in DEFAULT_PACKAGES. *)
LEMMA SeedWaits ==
  ASSUME IInv, SeedsInOrder, NEW c \in Calls, NEW d \in Calls, WaitsFor(c, d), pc[c] = "seed"
  PROVE  pc[d] = "seed" /\ Len(todo[d]) < Len(todo[c])
<1>1. PICK k \in inserted[d] : Slug[k] = Head(todo[c]) BY DEF WaitsFor
<1>2. pc[d] = "seed" BY <1>1 DEF IInv, InsertedIsNew
<1>3. todo[c] # <<>> /\ \A e \in Calls : todo[e] \in Seq(Range(Defaults) \cup Modules)
  BY DEF WaitsFor, IInv, TypeOK
<1>4. InOrder(todo[c], inserted[c]) /\ InOrder(todo[d], inserted[d]) BY <1>2 DEF SeedsInOrder
<1> DEFINE x == Len(todo[c])
           y == Len(todo[d])
           n == Len(Defaults)
<1>5. /\ x \in Nat /\ x >= 1 /\ y \in Nat /\ n \in Nat /\ n - x \in Nat
      /\ Head(todo[c]) = todo[c][1]
  BY <1>3, <1>4, Sequence, DefaultsAreOrdered DEF InOrder
<1>6. PICK j \in 1 .. n - y : Slug[k] = Defaults[j] BY <1>1, <1>4 DEF InOrder
<1>7. Head(todo[c]) = Defaults[n - x + 1]
  <2>1. 1 \in 1 .. x BY <1>5
  <2> QED BY <1>4, <1>5, <2>1 DEF InOrder
<1> HIDE DEF x, y, n
<1>8. j \in 1 .. n /\ n - x + 1 \in 1 .. n BY <1>5
<1>9. j = n - x + 1 BY <1>1, <1>6, <1>7, <1>8, DefaultsAreOrdered DEF n
<1>10. y < x BY <1>5, <1>6, <1>9
<1> QED BY <1>2, <1>10 DEF x, y

(* packages/db/src/feature-packages.ts: sign-ins that seed at the same     *)
(* time wait for each other's keys but never in a circle, because all of   *)
(* them follow DEFAULT_PACKAGES; what can deadlock is two applications     *)
(* that have each written one module of the tenant and want the other's.   *)
THEOREM OnlyApplicationsDeadlock == Spec => []DeadlocksAreOfApplications
<1>1. Init => SeedsInOrder BY DEF Init, SeedsInOrder
<1>2. ASSUME IInv, SeedsInOrder, NEW S \in SUBSET Open, Ring(S), NEW c \in S
      PROVE  pc[c] \in {"disable", "upsert"} /\ \E m \in DOMAIN wrote[c] : m # Head(todo[c])
  <2> USE <1>2
  <2>1. S \subseteq Calls BY DEF Open
  <2>2. \A d \in S : pc[d] # "seed"
    <3> DEFINE T == {d \in S : pc[d] = "seed"}
               B == {Len(todo[d]) : d \in T}
    <3> SUFFICES ASSUME T # {} PROVE FALSE OBVIOUS
    <3>1. B \subseteq Nat /\ B # {}
      <4>1. \A d \in T : todo[d] \in Seq(Range(Defaults) \cup Modules) BY <2>1 DEF IInv, TypeOK
      <4>2. \A d \in T : Len(todo[d]) \in Nat BY <4>1, Sequence
      <4> QED BY <4>2
    <3>2. PICK b \in B : \A y \in B : ~(<<y, b>> \in OpToRel(<, Nat))
      BY <3>1, WFMin, NatLessThanWellFounded
    <3>3. PICK d \in T : b = Len(todo[d]) OBVIOUS
    <3>4. PICK e \in S : WaitsFor(d, e) BY DEF Ring
    <3>5. e \in T /\ Len(todo[e]) < b BY <2>1, <3>3, <3>4, SeedWaits
    <3> QED BY <3>1, <3>2, <3>5 DEF OpToRel
  <2>3. \A d \in S : pc[d] \in {"disable", "upsert"} BY <2>2 DEF Ring, WaitsFor
  <2>4. PICK d \in S, e \in S : WaitsFor(c, d) /\ WaitsFor(e, c) BY DEF Ring
  <2>5. Head(todo[e]) \in DOMAIN wrote[c] /\ Head(todo[c]) \in DOMAIN wrote[d] /\ c # d
    BY <2>3, <2>4 DEF WaitsFor
  <2>6. Head(todo[c]) \notin DOMAIN wrote[c] BY <2>1, <2>5 DEF IInv, LocksHold
  <2> QED BY <2>3, <2>5, <2>6
<1>3. IInv /\ SeedsInOrder => DeadlocksAreOfApplications BY <1>2 DEF DeadlocksAreOfApplications
<1> QED BY <1>1, <1>3, SeedsInOrderStep, Invariance, PTL DEF Spec
=============================================================================
