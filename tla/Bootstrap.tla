-------------------------------- MODULE Bootstrap --------------------------------
(***************************************************************************)
(* InstallManagers of internal/pm/bootstrap: the package managers asked    *)
(* for are sorted by their dependencies (Kahn's algorithm, over everything *)
(* they need directly or not) and then installed one after another, those  *)
(* that were asked for only.  Names sort candidates that are ready at the  *)
(* same time; here any of them may be next.                                *)
(***************************************************************************)
EXTENDS Naturals, FiniteSets, Sequences

CONSTANTS
    Managers,   \* the names of package managers
    Graphs      \* what each of them depends on: the graphs considered

ASSUME BootstrapAssumption ==
    /\ IsFiniteSet(Managers)
    /\ Graphs # {} /\ Graphs \subseteq [Managers -> SUBSET Managers]

VARIABLES
    depends,    \* resolver.dependencies
    requested,  \* managerNames
    inDegree,   \* dependencies of each that are not sorted yet
    ready,      \* queue
    sorted,     \* result, then what is left of it to install
    handled,    \* those whose installation was attempted, in order
    bootPC      \* "idle", "sort", "install", "done" or "circular"

bootVars == <<depends, requested, inDegree, ready, sorted, handled, bootPC>>

BootInit ==
    /\ depends \in Graphs
    /\ requested = {}
    /\ inDegree = [m \in Managers |-> 0]
    /\ ready = {}
    /\ sorted = <<>>
    /\ handled = <<>>
    /\ bootPC = "idle"

Elements(s) == {s[i] : i \in DOMAIN s}

\* addDependenciesToGraph: what is requested and all that it needs.
Needed(managers) ==
    {m \in Managers :
       \A closed \in SUBSET Managers :
         managers \subseteq closed /\ (\A c \in closed : depends[c] \subseteq closed) => m \in closed}

BeginInstall ==
    /\ bootPC \notin {"sort", "install"}
    /\ requested' \in (SUBSET Managers) \ {{}}
    /\ LET nodes == Needed(requested')
       IN  /\ inDegree' = [m \in Managers |-> IF m \in nodes THEN Cardinality(depends[m]) ELSE 0]
           /\ ready' = {m \in nodes : depends[m] = {}}
    /\ sorted' = <<>>
    /\ handled' = <<>>
    /\ bootPC' = "sort"
    /\ UNCHANGED depends

Needing(m) == {n \in Needed(requested) : m \in depends[n]}

\* Mutation: a manager is ready when one of its dependencies is sorted.
SortNextEagerly ==
    /\ bootPC = "sort"
    /\ \E m \in ready :
         /\ sorted' = Append(sorted, m)
         /\ inDegree' = [n \in Managers |-> IF n \in Needing(m) THEN 0 ELSE inDegree[n]]
         /\ ready' = (ready \ {m}) \union (Needing(m) \ Elements(sorted'))
    /\ UNCHANGED <<depends, requested, handled, bootPC>>

SortNext ==
    /\ bootPC = "sort"
    /\ \E m \in ready :
         /\ sorted' = Append(sorted, m)
         /\ inDegree' = [n \in Managers |-> IF n \in Needing(m) THEN inDegree[n] - 1 ELSE inDegree[n]]
         /\ ready' = (ready \ {m}) \union {n \in Needing(m) : inDegree[n] = 1}
    /\ UNCHANGED <<depends, requested, handled, bootPC>>

SortEnds ==
    /\ bootPC = "sort"
    /\ ready = {}
    /\ IF Len(sorted) = Cardinality(Needed(requested))
         THEN bootPC' = "install"
         ELSE bootPC' = "circular"
    /\ UNCHANGED <<depends, requested, inDegree, ready, sorted, handled>>

\* filteredResult: what nobody asked for is dropped.  That depends on nothing
\* an installation changes, so it is done where the list is worked through.
DropUnrequested ==
    /\ bootPC = "install"
    /\ sorted # <<>>
    /\ Head(sorted) \notin requested
    /\ sorted' = Tail(sorted)
    /\ UNCHANGED <<depends, requested, inDegree, ready, handled, bootPC>>

\* Unknown, installed already, dry run, done or failed: the loop goes on.
\* (The result of a failed look at what is installed would be read although it
\* is nil; no bootstrapper of the program returns such an error.)
InstallNext ==
    /\ bootPC = "install"
    /\ sorted # <<>>
    /\ Head(sorted) \in requested
    /\ handled' = Append(handled, Head(sorted))
    /\ sorted' = Tail(sorted)
    /\ UNCHANGED <<depends, requested, inDegree, ready, bootPC>>

InstallEnds ==
    /\ bootPC = "install"
    /\ sorted = <<>>
    /\ bootPC' = "done"
    /\ UNCHANGED <<depends, requested, inDegree, ready, sorted, handled>>

BootNext ==
    \/ BeginInstall
    \/ SortNext
    \/ SortEnds
    \/ DropUnrequested
    \/ InstallNext
    \/ InstallEnds

BootTypeOK ==
    /\ depends \in Graphs
    /\ requested \subseteq Managers
    /\ inDegree \in [Managers -> 0 .. Cardinality(Managers)]
    /\ ready \subseteq Managers
    /\ sorted \in Seq(Managers)
    /\ handled \in Seq(Managers)
    /\ bootPC \in {"idle", "sort", "install", "done", "circular"}

\* Some of what is requested or needed depend on one another in a circle.
Circular ==
    \E circle \in (SUBSET Needed(requested)) \ {{}} : \A m \in circle : depends[m] \intersect circle # {}

(***************************************************************************)
(* No manager is attempted before one that it needs, directly or by way of *)
(* managers that nobody asked for; in the end each requested one has been  *)
(* attempted once; and a request is refused exactly if it is circular.     *)
(***************************************************************************)
DependenciesComeFirst ==
    /\ \A i, j \in DOMAIN handled : i < j => handled[j] \notin Needed({handled[i]})
    /\ bootPC = "done" => Elements(handled) = requested /\ Len(handled) = Cardinality(requested)
    /\ bootPC = "circular" => Circular
    /\ bootPC \in {"install", "done"} => ~Circular
================================================================================
