------------------------------ MODULE Packages ------------------------------
(***************************************************************************)
(* Feature packages and the modules of a tenant                            *)
(* (packages/db/src/feature-packages.ts and setTenantModule of             *)
(* packages/db/src/platform.ts): administrators create, edit, duplicate    *)
(* and delete packages, every sign-in to the console puts missing default  *)
(* packages back, and a package is applied to a tenant by disabling the    *)
(* modules that are not in it and then upserting those that are, one       *)
(* INSERT each, in one READ COMMITTED transaction.  The package itself is  *)
(* read before, in another transaction.                                    *)
(*                                                                         *)
(* One tenant.  A row of tenant_modules that is absent and one that is     *)
(* disabled are the same here: an upsert waits for an uncommitted INSERT   *)
(* of its key as for an UPDATE.  enabled_at, names and is_template are     *)
(* left out: only pages read them.                                         *)
(***************************************************************************)
EXTENDS Naturals, Sequences, FiniteSets, SequencesExt

CONSTANTS Modules,    \* module ids
          Ids,        \* feature_packages rows
          Slug,       \* feature_packages.slug of each
          Defaults,   \* slugs of DEFAULT_PACKAGES, in their order
          Preset,     \* module_ids of each of them
          Lists,      \* module_ids that the form submits
          Calls       \* connections, each running one call at a time

(* feature_packages.slug is unique, so DEFAULT_PACKAGES names none twice.  *)
ASSUME PackagesAssumption ==
  /\ Lists \subseteq Seq(Modules) /\ IsFiniteSet(Modules) /\ Defaults \in Seq(Range(Defaults))
  /\ \A i, j \in DOMAIN Defaults : Defaults[i] = Defaults[j] => i = j
  /\ Preset \in [Range(Defaults) -> Seq(Modules)]

VARIABLES state,     \* whether each package has a committed row
          contents,  \* feature_packages.module_ids
          enabled,   \* tenant_modules that are committed and enabled
          pc,        \* where each call is
          held,      \* the module_ids that a call has read
          todo,      \* what its loop or statement has still to write
          wrote,     \* the tenant_modules it has written: its row locks
          inserted,  \* the default packages it has inserted
          edited,    \* history: what an administrator has last put into a package
          raced      \* history: calls behind whose UPDATE another one enabled a module

vars == <<state, contents, enabled, pc, held, todo, wrote, inserted, edited, raced>>
packages == <<state, contents, edited>>

Live == {k \in Ids : state[k] = "live"}

TypeOK ==
  /\ state \in [Ids -> {"none", "live", "deleted"}]
  /\ contents \in [Ids -> Seq(Modules)]
  /\ enabled \subseteq Modules
  /\ pc \in [Calls -> {"idle", "seed", "copy", "apply", "disable", "upsert", "applied"}]
  /\ held \in [Calls -> Seq(Modules)]
  /\ todo \in [Calls -> Seq(Range(Defaults) \cup Modules)]
  /\ \A c \in Calls : Range(todo[c]) \subseteq IF pc[c] = "seed" THEN Range(Defaults) ELSE Modules
  /\ DOMAIN wrote = Calls
  /\ \A c \in Calls : DOMAIN wrote[c] \subseteq Modules /\ wrote[c] \in [DOMAIN wrote[c] -> BOOLEAN]
  /\ inserted \in [Calls -> SUBSET Ids]
  /\ edited \in [Ids -> Seq(Modules)]
  /\ raced \subseteq Calls

----------------------------------------------------------------------------
Open == {c \in Calls : pc[c] # "idle"}

Nothing == [m \in {} |-> TRUE]

(* The rows written so far, with that of one module set. *)
Written(f, m, on) == [x \in DOMAIN f \cup {m} |-> IF x = m THEN on ELSE f[x]]

Locked(c, m) == \E d \in Calls \ {c} : m \in DOMAIN wrote[d]

\* Variant: an upsert that waits is not seen by the detector.
WaitsUnseen(c, d) ==
  /\ c # d /\ todo[c] # <<>>
  /\ \/ pc[c] = "disable" /\ Head(todo[c]) \in DOMAIN wrote[d] /\ Head(todo[c]) \in enabled
     \/ pc[c] = "seed" /\ \E k \in inserted[d] : Slug[k] = Head(todo[c])

(* Call c stands in front of a row or key that call d has written. *)
WaitsFor(c, d) ==
  /\ c # d /\ todo[c] # <<>>
  /\ \/ pc[c] = "disable" /\ Head(todo[c]) \in DOMAIN wrote[d] /\ Head(todo[c]) \in enabled
     \/ pc[c] = "upsert" /\ Head(todo[c]) \in DOMAIN wrote[d]
     \/ pc[c] = "seed" /\ \E k \in inserted[d] : Slug[k] = Head(todo[c])

----------------------------------------------------------------------------
Init ==
  /\ state = [k \in Ids |-> "none"]
  /\ contents = [k \in Ids |-> <<>>]
  /\ enabled \in SUBSET Modules
  /\ pc = [c \in Calls |-> "idle"]
  /\ held = [c \in Calls |-> <<>>]
  /\ todo = [c \in Calls |-> <<>>]
  /\ wrote = [c \in Calls |-> Nothing]
  /\ inserted = [c \in Calls |-> {}]
  /\ edited = contents
  /\ raced = {}

Goto(c, label) == pc' = [pc EXCEPT ![c] = label]

(* The call is over and its connection back in the pool. *)
Close(c) ==
  /\ Goto(c, "idle")
  /\ held' = [held EXCEPT ![c] = <<>>]
  /\ todo' = [todo EXCEPT ![c] = <<>>]
  /\ wrote' = [wrote EXCEPT ![c] = Nothing]
  /\ inserted' = [inserted EXCEPT ![c] = {}]
  /\ raced' = raced \ {c}

(* An id that no row has. *)
Fresh(k) == state[k] = "none" /\ \A c \in Calls : k \notin inserted[c]

(* A package of the administrator: its slug is a random one. *)
Create(k, list) ==
  /\ Fresh(k) /\ Slug[k] \notin Range(Defaults)
  /\ state' = [state EXCEPT ![k] = "live"]
  /\ contents' = [contents EXCEPT ![k] = list]
  /\ edited' = [edited EXCEPT ![k] = list]

----------------------------------------------------------------------------
(* Calls of one statement. *)

CreatePackage ==
  /\ \E k \in Ids, list \in Lists : Create(k, list)
  /\ UNCHANGED <<enabled, pc, held, todo, wrote, inserted, raced>>

UpdatePackage(k, list) ==
  /\ k \in Live
  /\ contents' = [contents EXCEPT ![k] = list]
  /\ edited' = [edited EXCEPT ![k] = list]
  /\ UNCHANGED <<state, enabled, pc, held, todo, wrote, inserted, raced>>

\* Variant: the row is kept, with a mark that no statement knows.
ArchivePackage(k) ==
  /\ k \in Live
  /\ state' = [state EXCEPT ![k] = "archived"]
  /\ contents' = [contents EXCEPT ![k] = <<>>]
  /\ edited' = [edited EXCEPT ![k] = <<>>]
  /\ UNCHANGED <<enabled, pc, held, todo, wrote, inserted, raced>>

DeletePackage(k) ==
  /\ k \in Live
  /\ state' = [state EXCEPT ![k] = "deleted"]
  /\ contents' = [contents EXCEPT ![k] = <<>>]
  /\ edited' = [edited EXCEPT ![k] = <<>>]
  /\ UNCHANGED <<enabled, pc, held, todo, wrote, inserted, raced>>

(* Calls whose UPDATE cannot see that these modules become enabled. *)
Overtaken(modules) ==
  {c \in Calls : pc[c] \in {"disable", "upsert"} /\ (modules \ Range(held[c])) \ enabled # {}}

(* setTenantModule: one upsert, which waits for a row that is locked. *)
ToggleModule(m, on) ==
  /\ \A c \in Calls : m \notin DOMAIN wrote[c]
  /\ enabled' = IF on THEN enabled \cup {m} ELSE enabled \ {m}
  /\ raced' = IF on THEN raced \cup Overtaken({m}) ELSE raced
  /\ UNCHANGED <<packages, pc, held, todo, wrote, inserted>>

----------------------------------------------------------------------------
(* seedDefaultPackages: one INSERT ... ON CONFLICT DO NOTHING for each.    *)

Seed(c) ==
  /\ pc[c] = "idle" /\ Goto(c, "seed")
  /\ todo' = [todo EXCEPT ![c] = Defaults]
  /\ UNCHANGED <<packages, enabled, held, wrote, inserted, raced>>

(* A committed row has the slug, or one of the call itself. *)
Taken(c, slug) == \E k \in Live \cup inserted[c] : Slug[k] = slug

InsertIfMissing(c) ==
  /\ pc[c] = "seed" /\ todo[c] # <<>>
  /\ \/ Taken(c, Head(todo[c])) /\ UNCHANGED inserted
     \/ /\ ~Taken(c, Head(todo[c])) /\ ~\E d \in Calls : WaitsFor(c, d)
        /\ \E k \in Ids :
             /\ Fresh(k) /\ Slug[k] = Head(todo[c])
             /\ inserted' = [inserted EXCEPT ![c] = @ \cup {k}]
  /\ todo' = [todo EXCEPT ![c] = Tail(@)]
  /\ UNCHANGED <<packages, enabled, pc, held, wrote, raced>>

\* Variant: ON CONFLICT DO UPDATE.
CommitSeedOver(c) ==
  LET written == inserted[c] \cup {k \in Live : Slug[k] \in Range(Defaults)}
  IN  /\ pc[c] = "seed" /\ todo[c] = <<>>
      /\ state' = [k \in Ids |-> IF k \in inserted[c] THEN "live" ELSE state[k]]
      /\ contents' = [k \in Ids |-> IF k \in written THEN Preset[Slug[k]] ELSE contents[k]]
      /\ edited' = [k \in Ids |-> IF k \in inserted[c] THEN Preset[Slug[k]] ELSE edited[k]]
      /\ Close(c) /\ UNCHANGED enabled

CommitSeed(c) ==
  LET seeded(f) == [k \in Ids |-> IF k \in inserted[c] THEN Preset[Slug[k]] ELSE f[k]]
  IN  /\ pc[c] = "seed" /\ todo[c] = <<>>
      /\ state' = [k \in Ids |-> IF k \in inserted[c] THEN "live" ELSE state[k]]
      /\ contents' = seeded(contents)
      /\ edited' = seeded(edited)
      /\ Close(c) /\ UNCHANGED enabled

----------------------------------------------------------------------------
(* applyFeaturePackageToTenant and duplicateFeaturePackage both start with *)
(* getFeaturePackage, in a transaction of its own.                         *)

GetPackage(c, k) ==
  /\ pc[c] = "idle" /\ k \in Live
  /\ Goto(c, "copy") \/ Goto(c, "apply")
  /\ held' = [held EXCEPT ![c] = contents[k]]
  /\ UNCHANGED <<packages, enabled, todo, wrote, inserted, raced>>

(* The copy is of what was read, whatever the package has become. *)
CopyPackage(c) ==
  /\ pc[c] = "copy"
  /\ \E k \in Ids : Create(k, held[c])
  /\ Close(c) /\ UNCHANGED enabled

(* The UPDATE starts: it will visit the enabled modules of the tenant that *)
(* the package does not have, in the order of the scan.                    *)
Apply(c) ==
  /\ pc[c] = "apply" /\ Goto(c, "disable")
  /\ \E scan \in SetToSeqs(enabled \ Range(held[c])) : todo' = [todo EXCEPT ![c] = scan]
  /\ UNCHANGED <<packages, enabled, held, wrote, inserted, raced>>

(* It waits for a row that another call has written, and leaves it alone   *)
(* if that one has disabled it.                                            *)
DisableModule(c) ==
  /\ pc[c] = "disable" /\ todo[c] # <<>>
  /\ LET m == Head(todo[c]) IN
       \/ /\ m \in enabled /\ ~Locked(c, m)
          /\ wrote' = [wrote EXCEPT ![c] = Written(@, m, FALSE)]
       \/ m \notin enabled /\ UNCHANGED wrote
  /\ todo' = [todo EXCEPT ![c] = Tail(@)]
  /\ UNCHANGED <<packages, enabled, pc, held, inserted, raced>>

Disabled(c) ==
  /\ pc[c] = "disable" /\ todo[c] = <<>>
  /\ Goto(c, "upsert")
  /\ todo' = [todo EXCEPT ![c] = held[c]]
  /\ UNCHANGED <<packages, enabled, held, wrote, inserted, raced>>

EnableModule(c) ==
  /\ pc[c] = "upsert" /\ todo[c] # <<>> /\ ~Locked(c, Head(todo[c]))
  /\ wrote' = [wrote EXCEPT ![c] = Written(@, Head(todo[c]), TRUE)]
  /\ todo' = [todo EXCEPT ![c] = Tail(@)]
  /\ UNCHANGED <<packages, enabled, pc, held, inserted, raced>>

\* Variant: without the UPDATE, the package is added to what there is.
CommitUnion(c) ==
  /\ pc[c] = "upsert" /\ todo[c] = <<>>
  /\ Goto(c, "applied")
  /\ enabled' = enabled \cup Range(held[c])
  /\ wrote' = [wrote EXCEPT ![c] = Nothing]
  /\ raced' = raced \cup (Overtaken(Range(held[c])) \ {c})
  /\ UNCHANGED <<packages, held, todo, inserted>>

CommitApplication(c) ==
  /\ pc[c] = "upsert" /\ todo[c] = <<>>
  /\ Goto(c, "applied")
  /\ enabled' = {m \in Modules : IF m \in DOMAIN wrote[c] THEN wrote[c][m] ELSE m \in enabled}
  /\ wrote' = [wrote EXCEPT ![c] = Nothing]
  /\ raced' = raced \cup (Overtaken(enabled') \ {c})
  /\ UNCHANGED <<packages, held, todo, inserted>>

(* The call returns true. *)
Return(c) == pc[c] = "applied" /\ Close(c) /\ UNCHANGED <<packages, enabled>>

(* ROLLBACK: nothing of the transaction stays. *)
Rollback(c) == Close(c) /\ UNCHANGED <<packages, enabled>>

(* Postgres aborts one member of a cycle of waiting transactions. *)
DeadlockVictim(c) ==
  /\ \E ring \in SUBSET Open :
        /\ c \in ring
        /\ \A x \in ring : /\ \E y \in ring : WaitsFor(x, y)
                           /\ \E y \in ring : WaitsFor(y, x)
  /\ Rollback(c)

(* Bound of the instance: a call that would insert a package fails when no *)
(* id is left.                                                             *)
NoIdLeft(c) ==
  /\ \/ pc[c] = "copy" /\ \A k \in Ids : Fresh(k) => Slug[k] \in Range(Defaults)
     \/ /\ pc[c] = "seed" /\ todo[c] # <<>>
        /\ \A k \in Ids : Fresh(k) => Slug[k] # Head(todo[c])
        /\ ~Taken(c, Head(todo[c])) /\ ~\E d \in Calls : WaitsFor(c, d)
  /\ Rollback(c)

(* The connection is lost, or a statement fails for any other reason. *)
Fail(c) == c \in Open /\ Rollback(c)

Step(c) ==
  \/ InsertIfMissing(c) \/ CommitSeed(c) \/ CopyPackage(c)
  \/ Apply(c) \/ DisableModule(c) \/ Disabled(c) \/ EnableModule(c) \/ CommitApplication(c)
  \/ Return(c) \/ NoIdLeft(c)

Start(c) == Seed(c) \/ \E k \in Ids : GetPackage(c, k)

Next ==
  \/ CreatePackage
  \/ \E k \in Ids : DeletePackage(k) \/ \E list \in Lists : UpdatePackage(k, list)
  \/ \E m \in Modules : \E on \in BOOLEAN : ToggleModule(m, on)
  \/ \E c \in Calls : Start(c) \/ Step(c) \/ DeadlockVictim(c) \/ Fail(c)

Spec == Init /\ [][Next]_vars

(* The driver runs every statement of a call that has started.  Fairness   *)
(* is strong because the rows and keys of Postgres serve those who wait in *)
(* the order in which they came.  It resolves every deadlock; nobody has   *)
(* to make a call.                                                         *)
Fairness == \A c \in Calls : SF_vars(Step(c)) /\ WF_vars(DeadlockVictim(c))

FairSpec == Spec /\ Fairness

----------------------------------------------------------------------------
(* "Replaces all the active modules of the tenant, does not add to them":  *)
(* when an application commits, the tenant has exactly the modules that    *)
(* the call read from the package, unless another call enabled one behind  *)
(* its UPDATE.  Waiting for a row that another call writes is no excuse.   *)
ReplacesUnlessRaced ==
  [][\A c \in Calls :
       pc[c] # "applied" /\ pc'[c] = "applied" =>
         enabled' = Range(held[c]) \/ c \in raced]_vars

(* An application ends, also when two of them take each other's modules in *)
(* opposite orders, and so does a sign-in that seeds.                      *)
EveryCallEnds == \A c \in Calls : (c \in Open) ~> (c \notin Open)

(* "INSERT if missing, never UPDATE": sign-ins at the same time make one   *)
(* package of a default, and no sign-in takes an edit of it back.          *)
DefaultsStand ==
  \A k \in Live :
    /\ contents[k] = edited[k]
    /\ Slug[k] \in Range(Defaults) => \A j \in Live : Slug[j] = Slug[k] => j = k
=============================================================================
