---------------------------- MODULE ProviderRegistry ---------------------------
(***************************************************************************)
(* The provider registry of pkg/git/provider with its factory: a bounded   *)
(* cache of the providers made from the factory's configurations, filled   *)
(* by every goroutine that asks for a provider, emptied by expiry, by      *)
(* explicit invalidation and by a cleanup loop.                            *)
(*                                                                         *)
(* Lookup, construction, insertion and the recording of a use are critical *)
(* sections of their own, so everything happens between them.  Health      *)
(* checks only set fields that nothing consults; they are left out.        *)
(***************************************************************************)
EXTENDS Naturals, FiniteSets

CONSTANTS
    Names,      \* the names of configured providers
    Getters,    \* goroutines that call GetProvider
    MaxCached,  \* config.MaxCacheSize
    MaxVersion, \* bound: updates of one configuration
    MaxRemovals, \* bound: removals of one name that are under way
    NoName      \* no name

ASSUME RegistryAssumption ==
    /\ IsFiniteSet(Names)
    /\ NoName \notin Names
    /\ MaxCached \in Nat \ {0}
    /\ MaxVersion \in Nat
    /\ MaxRemovals \in Nat \ {0}

VARIABLES
    configs,    \* factory.configs: the version of each registered object
    cache,      \* registry.cache: the entries, by name
    usedBefore, \* the pairs of cached names of which the first has the earlier LastUsed
    asking,     \* where each goroutine is in GetProvider, the name it asks for
                \* and the version its provider was made from
    touching,   \* goroutines that found an entry which is still the cached one
    removals,   \* InvalidateCache goroutines started for expired entries
    cleared,    \* history: the version when each name was last invalidated
    straddling  \* history: goroutines that hold an older one since before that

cacheVars == <<configs, cache, usedBefore, removals, cleared>>
askVars == <<asking, touching, straddling>>
registryVars == <<cacheVars, askVars>>

\* An entry has expired CacheTimeout after it was made, and is idle twice as
\* long after its last use.
Entries == [version : 0 .. MaxVersion, age : {"fresh", "expired", "idle"}, late : BOOLEAN]
Cached == DOMAIN cache
Idle == [pc |-> "idle", name |-> NoName, version |-> 0]

RegistryInit ==
    /\ configs = [n \in Names |-> 0]
    /\ cache = <<>>
    /\ usedBefore = {}
    /\ asking = [g \in Getters |-> Idle]
    /\ touching = {}
    /\ removals = [n \in Names |-> 0]
    /\ cleared = [n \in Names |-> 0]
    /\ straddling = {}

Move(g, pc) == asking' = [asking EXCEPT ![g].pc = pc]
Return(g) == asking' = [asking EXCEPT ![g] = Idle]

--------------------------------------------------------------------------------
\* UpdateConfig and RegisterConfig of the factory put a new object in place and
\* do not tell the registry.
UpdateConfig(n) ==
    /\ configs[n] < MaxVersion
    /\ configs' = [configs EXCEPT ![n] = @ + 1]
    /\ UNCHANGED <<cache, usedBefore, removals, cleared, askVars>>

--------------------------------------------------------------------------------
(***************************************************************************)
(* The cache.                                                              *)
(***************************************************************************)
\* What is left of the order of use without the names ns.
OrderWithout(ns) == {p \in usedBefore : p[1] \notin ns /\ p[2] \notin ns}

\* The entries of names ns leave the cache: whoever still holds one of them
\* holds an object nobody else sees.
Drop(ns) ==
    /\ cache' = [n \in Cached \ ns |-> cache[n]]
    /\ usedBefore' = OrderWithout(ns)
    /\ touching' = {g \in touching : asking[g].name \notin ns}

\* Dropping them on purpose: providers under construction will be late.
Invalidate(ns) ==
    /\ Drop(ns)
    /\ cleared' = [n \in Names |-> IF n \in ns THEN configs[n] ELSE cleared[n]]
    /\ straddling' = straddling \union
                      {g \in Getters : /\ asking[g].pc = "store"
                                       /\ asking[g].name \in ns
                                       /\ asking[g].version < configs[asking[g].name]}

InvalidateCache(n) ==
    /\ Invalidate({n})
    /\ UNCHANGED <<configs, removals, asking>>

ClearCache ==
    /\ Invalidate(Names)
    /\ UNCHANGED <<configs, removals, asking>>

\* The goroutine that a lookup of an expired entry started.
RemovalRuns(n) ==
    /\ removals[n] > 0
    /\ removals' = [removals EXCEPT ![n] = @ - 1]
    /\ Invalidate({n})
    /\ UNCHANGED <<configs, asking>>

Ages(n) ==
    /\ n \in Cached
    /\ cache[n].age # "idle"
    /\ cache' = [cache EXCEPT ![n].age = IF @ = "fresh" THEN "expired" ELSE "idle"]
    /\ UNCHANGED <<configs, usedBefore, removals, cleared, askVars>>

\* The hourly tick of cleanupLoop.
PerformCleanup ==
    /\ Drop({n \in Cached : cache[n].age = "idle"})
    /\ UNCHANGED <<configs, removals, cleared, asking, straddling>>

--------------------------------------------------------------------------------
(***************************************************************************)
(* GetProvider.                                                            *)
(***************************************************************************)
Ask(g, n) ==
    /\ asking[g] = Idle
    /\ asking' = [asking EXCEPT ![g] = [pc |-> "lookup", name |-> n, version |-> 0]]
    /\ UNCHANGED <<cacheVars, touching, straddling>>

\* getCachedProvider: an expired entry is as good as none, and its removal is
\* somebody else's business.
Lookup(g) ==
    LET n == asking[g].name
        fresh == n \in Cached /\ cache[n].age = "fresh"
    IN  /\ asking[g].pc = "lookup"
        /\ Move(g, IF fresh THEN "touch" ELSE "create")
        /\ touching' = IF fresh THEN touching \union {g} ELSE touching
        /\ removals' = IF n \in Cached /\ ~fresh
                        THEN [removals EXCEPT ![n] = IF @ < MaxRemovals THEN @ + 1 ELSE @]
                        ELSE removals
        /\ UNCHANGED <<configs, cache, usedBefore, cleared, straddling>>

\* updateUsage, of the entry that was found.
Touch(g) ==
    LET n == asking[g].name
    IN  /\ asking[g].pc = "touch"
        /\ IF g \in touching
             THEN /\ usedBefore' = OrderWithout({n}) \union ((Cached \ {n}) \X {n})
                  /\ cache' = [cache EXCEPT ![n].age = IF @ = "idle" THEN "expired" ELSE @]
             ELSE UNCHANGED <<usedBefore, cache>>
        /\ touching' = touching \ {g}
        /\ Return(g)
        /\ UNCHANGED <<configs, removals, cleared, straddling>>

\* factory.CreateProvider, which fails for a name that is not registered or
\* not enabled, and when the constructor does.
Create(g) ==
    /\ asking[g].pc = "create"
    /\ \/ /\ asking' = [asking EXCEPT ![g].pc = "store", ![g].version = configs[asking[g].name]]
          /\ straddling' = straddling \ {g}
       \/ Return(g) /\ UNCHANGED straddling
    /\ UNCHANGED <<cacheVars, touching>>

LeastRecent == {n \in Cached : \A m \in Cached \ {n} : <<n, m>> \in usedBefore}

\* Mutation: eviction begins one entry late.
EvictedLate == IF Cardinality(Cached) > MaxCached THEN LeastRecent ELSE {}

\* cacheProvider: a full cache loses its least recently used entry, also when
\* the name is cached already.  (Clock readings differ between two
\* calls; a new entry takes its own just before it is stored.)
Evicted == IF Cardinality(Cached) >= MaxCached THEN LeastRecent ELSE {}

Store(g) ==
    LET n == asking[g].name
        kept == Cached \ Evicted
        entry == [version |-> asking[g].version, age |-> "fresh", late |-> g \in straddling]
    IN  /\ asking[g].pc = "store"
        /\ cache' = [m \in kept \union {n} |-> IF m = n THEN entry ELSE cache[m]]
        /\ usedBefore' = OrderWithout(Evicted \union {n}) \union ((kept \ {n}) \X {n})
        /\ touching' = {h \in touching : asking[h].name \in kept \ {n}}
        /\ straddling' = straddling \ {g}
        /\ Return(g)
        /\ UNCHANGED <<configs, removals, cleared>>

--------------------------------------------------------------------------------
AskStep(g) ==
    \/ Lookup(g)
    \/ Touch(g)
    \/ Create(g)
    \/ Store(g)

RegistryNext ==
    \/ \E n \in Names :
         \/ UpdateConfig(n)
         \/ InvalidateCache(n)
         \/ RemovalRuns(n)
         \/ Ages(n)
         \/ \E g \in Getters : Ask(g, n)
    \/ \E g \in Getters : AskStep(g)
    \/ ClearCache
    \/ PerformCleanup

\* One of any two entries was used before the other, and before all that were
\* used after that one.
OrderOfUse ==
    /\ usedBefore \subseteq Cached \X Cached
    /\ \A m, n \in Cached : <<m, n>> \in usedBefore <=> m # n /\ <<n, m>> \notin usedBefore
    /\ \A l, m, n \in Cached : <<l, m>> \in usedBefore /\ <<m, n>> \in usedBefore => <<l, n>> \in usedBefore

RegistryTypeOK ==
    /\ configs \in [Names -> 0 .. MaxVersion]
    /\ Cached \subseteq Names /\ cache \in [Cached -> Entries]
    /\ OrderOfUse
    /\ asking \in [Getters -> [pc : {"idle", "lookup", "touch", "create", "store"},
                               name : Names \union {NoName}, version : 0 .. MaxVersion]]
    /\ touching \subseteq Getters
    /\ removals \in [Names -> 0 .. MaxRemovals]
    /\ cleared \in [Names -> 0 .. MaxVersion]
    /\ straddling \subseteq Getters

(***************************************************************************)
(* The cache never holds more than MaxCacheSize providers, and after an    *)
(* update and an InvalidateCache it holds none made from an older          *)
(* configuration, unless that one was under construction when the cache    *)
(* was invalidated: then it is stored late, and stays until it expires.    *)
(***************************************************************************)
CacheIsBoundedAndCurrent ==
    /\ Cardinality(Cached) <= MaxCached
    /\ \A n \in Cached : cache[n].late \/ cache[n].version >= cleared[n]
================================================================================
