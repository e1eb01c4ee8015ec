------------------------------ MODULE Compose ------------------------------
(***************************************************************************)
(* ModuleRegistry.resolveTenant (packages/kernel/src/registry.ts with      *)
(* graph.ts), step by step: the requested modules are closed under their   *)
(* hard dependencies by a worklist, sorted by a depth-first search so that *)
(* a dependency comes before what depends on it, and wired one by one: a   *)
(* module that consumes a port which no earlier module provides is an      *)
(* error, and so are an unknown module and a cycle.  validate(), which the *)
(* CI runs on the whole registry, is the set ValidRegistry.                *)
(*                                                                         *)
(* Lists whose order only decides the order of the result (the worklist,   *)
(* a module's requires, the request) are sets, taken in any order.         *)
(***************************************************************************)
EXTENDS Naturals, Sequences

CONSTANTS Ids,          \* module ids, unknown ones included
          Ports,        \* port ids
          Graphs,       \* requires of the known modules: the registries looked at
          Provides,     \* ports that each module provides
          Consumes,     \* ports that each module consumes
          Conditional   \* requires of a module's conditional slots and handlers

ASSUME ComposeAssumption ==
  /\ \A g \in Graphs : DOMAIN g \subseteq Ids /\ g \in [DOMAIN g -> SUBSET Ids]
  /\ Provides \in [Ids -> SUBSET Ports] /\ Consumes \in [Ids -> SUBSET Ports]
  /\ Conditional \in [Ids -> SUBSET SUBSET Ids]

VARIABLES needs,     \* requires of each known module
          request,   \* the modules of the tenant
          stage,     \* "expand", "sort", "wire", "composed" or "thrown"
          pending,   \* worklist of expandRequirements
          resolved,  \* what it has resolved
          missing,   \* what it has found to be unknown
          mark,      \* topoSort: "new", "visiting" or "done"
          path,      \* the modules being visited, outermost first
          left,      \* dependencies that the visit has still to look at
          order,     \* the modules sorted so far
          wired,     \* how many of them have been wired
          ports,     \* the ports that are provided so far
          shown      \* the conditional contributions that are active

composeVars == <<needs, request, stage, pending, resolved, missing,
                 mark, path, left, order, wired, ports, shown>>

Known == DOMAIN needs
Placed == {order[i] : i \in 1..Len(order)}

ComposeTypeOK ==
  /\ needs \in Graphs /\ request \subseteq Ids
  /\ stage \in {"expand", "sort", "wire", "composed", "thrown"}
  /\ pending \subseteq Ids /\ resolved \subseteq Ids /\ missing \subseteq Ids
  /\ mark \in [Ids -> {"new", "visiting", "done"}]
  /\ path \in Seq(Ids) /\ order \in Seq(Ids)
  /\ left \in [Ids -> SUBSET Ids]
  /\ wired \in 0..Len(order) /\ ports \subseteq Ports
  /\ shown \subseteq Ids \X SUBSET Ids

----------------------------------------------------------------------------
(* Hard dependencies do not lead out of S. *)
Closed(S) == \A m \in S \cap Known : needs[m] \subseteq S

(* closureOf: all that the requires of a module lead to. *)
ClosureOf(m) ==
  {x \in Ids : \A S \in SUBSET Ids : needs[m] \subseteq S /\ Closed(S) => x \in S}

\* Variant: a port may come from any module of the registry.
ValidAnywhere ==
  /\ \A m \in Known : needs[m] \subseteq Known
  /\ \A m \in Known, p \in Ports : p \in Consumes[m] => \E owner \in Known : p \in Provides[owner]
  /\ \A m \in Known : m \notin ClosureOf(m)

(* validate() reports no error, as far as composition goes: dependencies   *)
(* are known, a port has one provider, what is consumed is provided by a   *)
(* hard dependency or the module itself, and there is no cycle.            *)
ValidRegistry ==
  /\ \A m \in Known : needs[m] \subseteq Known
  /\ \A p \in Ports, m, n \in Known : p \in Provides[m] /\ p \in Provides[n] => m = n
  /\ \A m \in Known, p \in Ports :
       p \in Consumes[m] =>
         \E owner \in Known : p \in Provides[owner] /\ (owner = m \/ owner \in ClosureOf(m))
  /\ \A m \in Known : m \notin ClosureOf(m)

----------------------------------------------------------------------------
ComposeInit ==
  /\ needs \in Graphs /\ request \in SUBSET Ids
  /\ stage = "expand" /\ pending = request /\ resolved = {} /\ missing = {}
  /\ mark = [m \in Ids |-> "new"] /\ path = <<>> /\ left = [m \in Ids |-> {}]
  /\ order = <<>> /\ wired = 0 /\ ports = {} /\ shown = {}

sorting == <<mark, path, left, order>>
wiring == <<wired, ports, shown>>
asked == <<needs, request>>

\* Variant: an unknown id is noted, and stays on the worklist.
ExpandKeeping ==
  \E id \in pending :
    /\ stage = "expand"
    /\ IF id \in Known
       THEN /\ resolved' = resolved \cup {id}
            /\ pending' = (pending \cup needs[id]) \ resolved'
            /\ UNCHANGED missing
       ELSE missing' = missing \cup {id} /\ UNCHANGED <<pending, resolved>>
    /\ UNCHANGED <<asked, stage, sorting, wiring>>

(* One round of the worklist; ids already resolved are dropped from it. *)
Expand ==
  \E id \in pending :
    /\ stage = "expand"
    /\ IF id \in Known
       THEN /\ resolved' = resolved \cup {id}
            /\ pending' = (pending \cup needs[id]) \ resolved'
            /\ UNCHANGED missing
       ELSE /\ missing' = missing \cup {id}
            /\ pending' = pending \ {id}
            /\ UNCHANGED resolved
    /\ UNCHANGED <<asked, stage, sorting, wiring>>

Expanded ==
  /\ stage = "expand" /\ pending = {}
  /\ stage' = IF missing = {} THEN "sort" ELSE "thrown"
  /\ UNCHANGED <<asked, pending, resolved, missing, sorting, wiring>>

(* visit(id): the dependencies that are not present are passed over. *)
Enter(id) ==
  /\ mark' = [mark EXCEPT ![id] = "visiting"]
  /\ path' = Append(path, id)
  /\ left' = [left EXCEPT ![id] = needs[id] \cap resolved]
  /\ UNCHANGED order

Root ==
  /\ stage = "sort" /\ path = <<>>
  /\ \E id \in resolved : mark[id] = "new" /\ Enter(id)
  /\ UNCHANGED <<asked, stage, pending, resolved, missing, wiring>>

Top == path[Len(path)]

Descend ==
  /\ stage = "sort" /\ path # <<>>
  /\ \E d \in left[Top] :
       \/ /\ mark[d] = "new"
          /\ mark' = [mark EXCEPT ![d] = "visiting"]
          /\ path' = Append(path, d)
          /\ left' = [left EXCEPT ![Top] = @ \ {d}, ![d] = needs[d] \cap resolved]
          /\ UNCHANGED <<stage, order>>
       \/ /\ mark[d] = "done"
          /\ left' = [left EXCEPT ![Top] = @ \ {d}]
          /\ UNCHANGED <<stage, mark, path, order>>
       \/ /\ mark[d] = "visiting"
          /\ stage' = "thrown"
          /\ UNCHANGED sorting
  /\ UNCHANGED <<asked, pending, resolved, missing, wiring>>

Leave ==
  /\ stage = "sort" /\ path # <<>> /\ left[Top] = {}
  /\ mark' = [mark EXCEPT ![Top] = "done"]
  /\ order' = Append(order, Top)
  /\ path' = SubSeq(path, 1, Len(path) - 1)
  /\ UNCHANGED <<asked, stage, pending, resolved, missing, left, wiring>>

Sorted ==
  /\ stage = "sort" /\ path = <<>> /\ \A id \in resolved : mark[id] = "done"
  /\ stage' = "wire"
  /\ UNCHANGED <<asked, pending, resolved, missing, sorting, wiring>>

(* The contributions of a module whose requires are all active. *)
Active(m) == {r \in Conditional[m] : r \subseteq Placed}

Wire ==
  /\ stage = "wire" /\ wired < Len(order)
  /\ LET m == order[wired + 1] IN
       IF Consumes[m] \subseteq ports \cup Provides[m]
       THEN /\ wired' = wired + 1
            /\ ports' = ports \cup Provides[m]
            /\ shown' = shown \cup {<<m, r>> : r \in Active(m)}
            /\ UNCHANGED stage
       ELSE stage' = "thrown" /\ UNCHANGED wiring
  /\ UNCHANGED <<asked, pending, resolved, missing, sorting>>

Wired ==
  /\ stage = "wire" /\ wired = Len(order)
  /\ stage' = "composed"
  /\ UNCHANGED <<asked, pending, resolved, missing, sorting, wiring>>

ComposeNext ==
  Expand \/ Expanded \/ Root \/ Descend \/ Leave \/ Sorted \/ Wire \/ Wired

ComposeSpec == ComposeInit /\ [][ComposeNext]_composeVars
ComposeFairSpec == ComposeSpec /\ WF_composeVars(ComposeNext)

----------------------------------------------------------------------------
(* "A registry that validates composes for every tenant": validate() runs  *)
(* in the CI on the whole registry and resolveTenant at run time on any    *)
(* subset, and nothing ties the two together but their rules: a request    *)
(* for known modules against a valid registry never throws, neither for a  *)
(* missing dependency, nor for a cycle, nor for a port without provider.   *)
ValidComposes == ValidRegistry /\ request \subseteq Known => stage # "thrown"

(* Sorting and wiring take every module after all its dependencies, those  *)
(* that were added included, whatever order the worklist and the search    *)
(* happen to take.                                                         *)
DependenciesFirst ==
  stage \in {"sort", "wire", "composed"} =>
    \A i \in 1..Len(order) : \A d \in needs[order[i]] : \E j \in 1..(i - 1) : order[j] = d

(* What the caller has got so far. *)
Reply ==
  IF stage = "composed" THEN <<"composed", Placed>>
  ELSE IF stage = "thrown" THEN <<"thrown", {}>> ELSE <<"none", {}>>

(* resolveTenant implements its promise: one answer, the least closed set  *)
(* around the request, or an error that the promise allows.                *)
Promised == INSTANCE Assembly WITH valid <- ValidRegistry, answer <- Reply

ComposeRefines == Promised!AssemblySpec

(* Every request is answered: the worklist and the search end, even in a   *)
(* registry with cycles.                                                   *)
EveryRequestEnds == request # {} ~> stage \in {"composed", "thrown"}
=============================================================================
