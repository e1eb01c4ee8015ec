------------------------------ MODULE Assembly ------------------------------
(***************************************************************************)
(* What ModuleRegistry.resolveTenant promises (packages/kernel/src/        *)
(* registry.ts): a request for modules is answered once, either with the   *)
(* least set of modules that contains the request and is closed under      *)
(* their hard dependencies, or with an error, and an error only if a       *)
(* module of that set is not known or the registry does not validate.      *)
(***************************************************************************)
CONSTANT Ids    \* what a module id may be, unknown ones included

VARIABLES valid,       \* whether validate() finds no error
          needs,       \* [known modules -> the ids each one requires]
          request,     \* the ids that were asked for
          answer       \* what has been answered, and the modules

(* A set that hard dependencies do not lead out of. *)
Closed(graph, S) == \A m \in S \cap DOMAIN graph : graph[m] \subseteq S

(* The least closed set around some modules, defined from outside so that  *)
(* it needs no recursion.                                                  *)
Closure(graph, roots) ==
  {x \in Ids : \A S \in SUBSET Ids : roots \subseteq S /\ Closed(graph, S) => x \in S}

AssemblyInit ==
  /\ DOMAIN needs \subseteq Ids /\ needs \in [DOMAIN needs -> SUBSET Ids]
  /\ valid \in BOOLEAN /\ request \in SUBSET Ids /\ answer = <<"none", {}>>

Answer ==
  /\ answer = <<"none", {}>>
  /\ LET wanted == Closure(needs, request) IN
       \/ wanted \subseteq DOMAIN needs /\ answer' = <<"composed", wanted>>
       \/ ~(valid /\ wanted \subseteq DOMAIN needs) /\ answer' = <<"thrown", {}>>
  /\ UNCHANGED <<valid, needs, request>>

AssemblySpec == AssemblyInit /\ [][Answer]_<<valid, needs, request, answer>>
=============================================================================
