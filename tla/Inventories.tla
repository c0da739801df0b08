---------------------------- MODULE Inventories -----------------------------
(***************************************************************************)
(* Inventory definitions and the caches of their providers                 *)
(* (app/services/inventory_*.py, app/views/inventories.py).  A definition  *)
(* is saved or deleted by requests that read and check first and commit    *)
(* later, while a resolution walks the definitions from a derived inventory *)
(* down to the providers, with or without fetching from them.              *)
(*                                                                         *)
(* Of a definition only its sources and, for providers, the number of its  *)
(* last change are modelled.  A resolution reads the sources of an inventory *)
(* when it enters it; of a provider it may use what its session had loaded *)
(* before.  Static inventories, which need no cache, are left out; disabled *)
(* ones, credentials and filter rules only make a request fail, which it   *)
(* may do at any time.                                                     *)
(***************************************************************************)
EXTENDS Integers, Sequences, FiniteSets, SequencesExt

CONSTANTS
    Providers, Filters, Composites,  \* the inventories, by their type
    Requests,                        \* requests that save or delete
    Resolvers,                       \* requests and services that resolve
    InitialSources,                  \* what filters and composites are made of at first
    MaxSaves, MaxRevision            \* bounds: saves, changes of one provider

Inventories == Providers \cup Filters \cup Composites

VARIABLES
    life,      \* inventory -> "new", "live" or "deleted"; an id is never used again
    sources,   \* inventory -> the inventories that its configuration names
    revision,  \* provider -> how often its configuration was changed
    cache,     \* provider -> the revision its cache was fetched for, or None
    request,   \* request -> what it has checked and is about to write
    resolver,  \* resolver -> its recursion
    saves,     \* how many saves and deletions were begun
    crossed,   \* whether a request committed over the commit of another one
    overtaken  \* providers that changed under a resolution, or left their cache behind

vars == <<life, sources, revision, cache, request, resolver, saves, crossed, overtaken>>

None == -1
Idle == [op |-> "none"]
NoWalk == [stack |-> <<>>]
Live == {x \in Inventories : life[x] = "live"}
Path(w) == {w.stack[k].inventory : k \in DOMAIN w.stack}

-----------------------------------------------------------------------------
(* The dependency graph.                                                   *)

Closed(graph, C) == \A x \in C : graph[x] \subseteq C

\* A path leads from x to y (_find_dependency_path).
Reaches(graph, x, y) ==
    \A C \in SUBSET Inventories : (x \in C /\ Closed(graph, C)) => y \in C

\* Every non-empty set of inventories has one without sources in it.
Acyclic(graph) ==
    \A C \in SUBSET Inventories \ {{}} : \E x \in C : graph[x] \cap C = {}

\* New sources S of x close no cycle (validate_inventory_dependency_update).
\* Mutant: an inventory must not be its own source, that is all.
ClosesNoCycle_Self(graph, x, S) == x \notin S

ClosesNoCycle(graph, x, S) == \A y \in S : ~Reaches(graph, y, x)

\* The inventories without sources that x is made of; a walk that meets a cycle
\* below x is refused (_leaf_source_inventory_ids).
Leaves(graph, x) == {y \in Inventories : graph[y] = {} /\ Reaches(graph, x, y)}
CycleBelow(graph, x) ==
    \E y, z \in Inventories : Reaches(graph, x, y) /\ z \in graph[y] /\ Reaches(graph, z, y)

\* No leaf is met twice below the members S (validate_composite_source_lineages).
Independent(graph, S) ==
    /\ \A x \in S : ~CycleBelow(graph, x)
    /\ \A x, y \in S : x # y => Leaves(graph, x) \cap Leaves(graph, y) = {}

-----------------------------------------------------------------------------
Existing == Providers \cup {x \in Inventories : InitialSources[x] # {}}

ASSUME TypesAssumption ==
    /\ Providers \cap (Filters \cup Composites) = {} /\ Filters \cap Composites = {}
    /\ IsFiniteSet(Inventories)
    /\ MaxSaves \in Nat /\ MaxRevision \in Nat

ASSUME InitialAssumption ==
    /\ InitialSources \in [Inventories -> SUBSET Existing]
    /\ \A p \in Providers : InitialSources[p] = {}
    /\ \A x \in Filters : \A y, z \in InitialSources[x] : y = z
    /\ Acyclic(InitialSources)

Init ==
    /\ life = [x \in Inventories |-> IF x \in Existing THEN "live" ELSE "new"]
    /\ sources = InitialSources
    /\ revision = [p \in Providers |-> 0]
    /\ cache = [p \in Providers |-> None]
    /\ request = [r \in Requests |-> Idle]
    /\ resolver = [w \in Resolvers |-> NoWalk]
    /\ saves = 0
    /\ crossed = FALSE
    /\ overtaken = {}

\* What the configuration of x may name: one source, two or more, or none.
SourceLists(x) ==
    IF x \in Providers THEN {{}}
    ELSE {S \in SUBSET (Live \ {x}) :
             IF x \in Filters THEN Cardinality(S) = 1 ELSE Cardinality(S) >= 2}

PendingChanges(x) == {r \in Requests : request[r].op = "change" /\ request[r].inventory = x}

-----------------------------------------------------------------------------
(* Saving: the form of the interface and the REST API.                     *)

\* A definition is checked against all others as they are now: a changed one for
\* cycles, a composite of the form for the lineages of its members, which the
\* API leaves to the resolution (_validate_inventory_form, _normalise).
CheckSave(r, x, S, via) ==
    /\ request[r] = Idle /\ saves < MaxSaves
    /\ life[x] # "deleted" /\ S \in SourceLists(x)
    /\ life[x] = "live" => /\ x \in Providers \/ S # sources[x]
                           /\ ClosesNoCycle(sources, x, S)
    /\ x \in Providers => revision[x] + Cardinality(PendingChanges(x)) < MaxRevision
    /\ (x \in Composites /\ via = "form") => Independent(sources, S)
    /\ request' = [request EXCEPT ![r] =
           [op |-> IF life[x] = "new" THEN "create" ELSE "change", via |-> via,
            inventory |-> x, sources |-> S, cleared |-> FALSE, fresh |-> TRUE]]
    /\ saves' = saves + 1
    /\ UNCHANGED <<life, sources, revision, cache, resolver, crossed, overtaken>>

\* Nothing that is still there names the inventory (inventory_delete,
\* delete_inventory).
CheckDelete(r, x) ==
    /\ request[r] = Idle /\ saves < MaxSaves
    /\ life[x] = "live" /\ \A y \in Live : x \notin sources[y]
    /\ request' = [request EXCEPT ![r] =
           [op |-> "delete", via |-> "form", inventory |-> x, sources |-> {},
            cleared |-> FALSE, fresh |-> TRUE]]
    /\ saves' = saves + 1
    /\ UNCHANGED <<life, sources, revision, cache, resolver, crossed, overtaken>>

\* The form deletes the cache before it commits a changed provider, and so does
\* every deletion; configure_inventory does not.
\* Mutant: the form leaves the cache as well.
ClearsCache_Deletion(q) == q.inventory \in Providers /\ q.op = "delete"

ClearsCache(q) ==
    q.inventory \in Providers /\ (q.op = "delete" \/ (q.op = "change" /\ q.via = "form"))

DeleteCache(r) ==
    /\ request[r] # Idle
    /\ ClearsCache(request[r]) /\ ~request[r].cleared
    /\ cache' = [cache EXCEPT ![request[r].inventory] = None]
    /\ request' = [request EXCEPT ![r].cleared = TRUE]
    /\ UNCHANGED <<life, sources, revision, resolver, saves, crossed, overtaken>>

\* A commit makes what the other requests have read stale.
Committed(r) ==
    [q \in Requests |-> IF q = r \/ request[q] = Idle THEN Idle ELSE [request[q] EXCEPT !.fresh = FALSE]]
Disturbed ==
    [w \in Resolvers |-> IF resolver[w] = NoWalk THEN NoWalk ELSE [resolver[w] EXCEPT !.disturbed = TRUE]]
\* A resolution may still fetch from p, with the definition that it has loaded.
MayFetch(p) ==
    \E w \in Resolvers :
        /\ resolver[w] # NoWalk
        /\ resolver[w].policy # "never" /\ resolver[w].memo[p] = {}
        /\ ~(Last(resolver[w].stack).inventory = p /\ resolver[w].at = "written")

\* A row that was deleted meanwhile, or a name that was taken, refuses the commit.
CommitSave(r) ==
    LET q == request[r]  x == q.inventory IN
    /\ q # Idle /\ q.op \in {"create", "change"}
    /\ ClearsCache(q) => q.cleared
    /\ life[x] = IF q.op = "create" THEN "new" ELSE "live"
    /\ life' = [life EXCEPT ![x] = "live"]
    /\ sources' = [sources EXCEPT ![x] = q.sources]
    /\ IF x \in Providers
       THEN /\ revision' = [revision EXCEPT ![x] = @ + 1]
            /\ overtaken' = IF MayFetch(x) \/ (cache[x] # None /\ (q.via = "api" \/ q.cleared))
                            THEN overtaken \cup {x} ELSE overtaken
       ELSE UNCHANGED <<revision, overtaken>>
    /\ request' = Committed(r)
    /\ resolver' = Disturbed
    /\ crossed' = (crossed \/ ~q.fresh)
    /\ UNCHANGED <<cache, saves>>

CommitDelete(r) ==
    LET q == request[r]  x == q.inventory IN
    /\ q # Idle /\ q.op = "delete" /\ (ClearsCache(q) => q.cleared)
    /\ life[x] = "live"
    /\ life' = [life EXCEPT ![x] = "deleted"]
    /\ sources' = [sources EXCEPT ![x] = {}]
    /\ request' = Committed(r)
    /\ resolver' = Disturbed
    /\ crossed' = (crossed \/ ~q.fresh)
    /\ UNCHANGED <<revision, cache, saves, overtaken>>

\* The commit fails, or the web worker dies; a deleted cache stays deleted.
LoseRequest(r) ==
    /\ request[r] # Idle
    /\ request' = [request EXCEPT ![r] = Idle]
    /\ UNCHANGED <<life, sources, revision, cache, resolver, saves, crossed, overtaken>>

\* The retention job removes old caches (purge_expired_inventory_caches).
PurgeCache(p) ==
    /\ cache[p] # None
    /\ cache' = [cache EXCEPT ![p] = None]
    /\ UNCHANGED <<life, sources, revision, request, resolver, saves, crossed, overtaken>>

-----------------------------------------------------------------------------
(* Resolution: refresh_inventory ("always"), resolve_with_policy           *)
(* ("if_missing") and resolve_inventory ("never") recurse alike.           *)

\* An inventory is entered once on a path, while it and its sources exist and,
\* for a composite, the lineages of its members are independent
\* (_visited_inventory_ids, _filtered_source_inventory,
\* _composite_source_inventories).
\* Mutant: lineages are checked by the form only.
MayEnter_AnyLineage(w, x) ==
    /\ x \notin Path(w)
    /\ x \in Live /\ sources[x] \subseteq Live

MayEnter(w, x) ==
    /\ x \notin Path(w)
    /\ x \in Live /\ sources[x] \subseteq Live
    /\ x \in Composites => Independent(sources, sources[x])

Entered(x) == [inventory |-> x, todo |-> sources[x], got |-> {}]

BeginResolution(w, x, policy) ==
    /\ resolver[w] = NoWalk
    /\ MayEnter(NoWalk, x)
    /\ resolver' = [resolver EXCEPT ![w] =
           [policy |-> policy, stack |-> <<Entered(x)>>, at |-> "walk",
            known |-> revision, read |-> None,
            memo |-> [y \in Inventories |-> {}], twice |-> FALSE, disturbed |-> FALSE]]
    /\ UNCHANGED <<life, sources, revision, cache, request, saves, crossed, overtaken>>

\* The data of source y, made of the providers D, joins that of its parent.
Joined(walk, y, D) ==
    LET k == Len(walk.stack)  top == walk.stack[k] IN
    [walk EXCEPT
        !.stack = [@ EXCEPT ![k] = [top EXCEPT !.todo = @ \ {y}, !.got = @ \cup D]],
        !.twice = @ \/ top.got \cap D # {}]

Visit(w, y) ==
    /\ resolver[w] # NoWalk /\ y \in Last(resolver[w].stack).todo
    /\ resolver[w].memo[y] = {}
    /\ MayEnter(resolver[w], y)
    /\ resolver' = [resolver EXCEPT ![w].stack = Append(@, Entered(y))]
    /\ UNCHANGED <<life, sources, revision, cache, request, saves, crossed, overtaken>>

\* What this resolution has refreshed already is not refreshed again.
Recall(w, y) ==
    /\ resolver[w] # NoWalk /\ y \in Last(resolver[w].stack).todo
    /\ resolver[w].memo[y] # {}
    /\ resolver' = [resolver EXCEPT ![w] = Joined(@, y, @.memo[y])]
    /\ UNCHANGED <<life, sources, revision, cache, request, saves, crossed, overtaken>>

\* The provider is asked, which takes long, with the configuration as it is now
\* or was when the session loaded it.
Fetch(w) ==
    LET p == Last(resolver[w].stack).inventory IN
    /\ resolver[w] # NoWalk /\ resolver[w].at = "walk" /\ p \in Providers
    /\ \/ resolver[w].policy = "always"
       \/ resolver[w].policy = "if_missing" /\ cache[p] = None
    /\ \E n \in {resolver[w].known[p], revision[p]} :
           resolver' = [resolver EXCEPT ![w].at = "fetched", ![w].read = n]
    /\ UNCHANGED <<life, sources, revision, cache, request, saves, crossed, overtaken>>

\* The answer replaces the cache file, whatever became of the row meanwhile
\* (write_inventory_cache).
WriteCache(w) ==
    /\ resolver[w] # NoWalk /\ resolver[w].at = "fetched"
    /\ cache' = [cache EXCEPT ![Last(resolver[w].stack).inventory] = resolver[w].read]
    /\ resolver' = [resolver EXCEPT ![w].at = "written", ![w].read = None]
    /\ UNCHANGED <<life, sources, revision, request, saves, crossed, overtaken>>

\* A provider is done when its cache was written, or is good enough; a derived
\* inventory when its sources are.  What was refreshed is recorded in its row,
\* which must be there still; the commit makes the session load all rows anew
\* (_record_refresh_success).
Done(w) ==
    LET top == Last(resolver[w].stack) IN
    IF top.inventory \in Providers
    THEN \/ resolver[w].at = "written"
         \/ /\ resolver[w].at = "walk" /\ resolver[w].policy # "always"
            /\ cache[top.inventory] # None
    ELSE top.todo = {}

Return(w) ==
    LET walk == resolver[w]  top == Last(walk.stack)
        D == IF top.inventory \in Providers THEN {top.inventory} ELSE top.got
        memo == IF walk.policy = "never" THEN walk.memo ELSE [walk.memo EXCEPT ![top.inventory] = D]
        records == walk.policy = "always" \/ walk.at = "written"
        rest == [walk EXCEPT !.stack = Front(@), !.at = "walk", !.memo = memo,
                             !.known = IF records THEN revision ELSE @] IN
    /\ walk # NoWalk /\ Done(w)
    /\ records => top.inventory \in Live
    /\ resolver' = [resolver EXCEPT ![w] =
           IF Len(walk.stack) = 1 THEN NoWalk ELSE Joined(rest, top.inventory, D)]
    /\ UNCHANGED <<life, sources, revision, cache, request, saves, crossed, overtaken>>

\* A refused visit, a missing cache or row or a provider that cannot be asked
\* ends the whole recursion; old caches stay (_record_refresh_failure).
Fail(w) ==
    /\ resolver[w] # NoWalk
    /\ resolver' = [resolver EXCEPT ![w] = NoWalk]
    /\ UNCHANGED <<life, sources, revision, cache, request, saves, crossed, overtaken>>

-----------------------------------------------------------------------------
Save(r) ==
    \/ \E x \in Inventories : \E S \in SourceLists(x), via \in {"form", "api"} : CheckSave(r, x, S, via)
    \/ \E x \in Inventories : CheckDelete(r, x)
    \/ DeleteCache(r) \/ CommitSave(r) \/ CommitDelete(r) \/ LoseRequest(r)

Resolve(w) ==
    \/ \E x \in Inventories, policy \in {"always", "if_missing", "never"} : BeginResolution(w, x, policy)
    \/ \E y \in Inventories : Visit(w, y) \/ Recall(w, y)
    \/ Fetch(w) \/ WriteCache(w) \/ Return(w) \/ Fail(w)

Next ==
    \/ \E r \in Requests : Save(r)
    \/ \E w \in Resolvers : Resolve(w)
    \/ \E p \in Providers : PurgeCache(p)

Spec == Init /\ [][Next]_vars

-----------------------------------------------------------------------------
\* Definitions close no cycle and name nothing that was deleted, unless two
\* requests crossed: each of them is checked against definitions that another
\* one may change before the commit (validate_inventory_dependency_update,
\* direct_inventory_dependants).
DefinitionsAreSound ==
    ~crossed => /\ Acyclic(sources)
                /\ \A x \in Live : sources[x] \subseteq Live

\* A cache belongs to the definition of its provider, although the file and the
\* row are written one after the other; unless the definition was changed under
\* a resolution that fetches from it, or by the REST API, which leaves the cache
\* (inventory_edit, configure_inventory).
CacheIsOfItsDefinition ==
    \A p \in Providers \ overtaken : cache[p] \in {None, revision[p]}

\* No composite inventory gets the hosts of a provider twice, however its
\* members were saved, unless a definition changes during that very resolution
\* (validate_composite_source_lineages, which is asked anew each time).
NoProviderTwice ==
    \A w \in Resolvers :
        (resolver[w] # NoWalk /\ resolver[w].twice) => resolver[w].disturbed

=============================================================================
