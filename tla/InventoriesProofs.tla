------------------------- MODULE InventoriesProofs --------------------------
(***************************************************************************)
(* For any number of inventories, requests and resolutions: definitions    *)
(* stay acyclic and closed as long as no request commits over the commit of *)
(* another one; caches belong to definitions that did not change under a   *)
(* resolution; and no resolution merges the hosts of a provider twice.     *)
(***************************************************************************)
EXTENDS Inventories, SequenceTheorems, FiniteSetTheorems, TLAPS

Pending ==
    [op : {"create", "change", "delete"}, via : {"form", "api"}, inventory : Inventories,
     sources : SUBSET Inventories, cleared : BOOLEAN, fresh : BOOLEAN]

Types ==
    /\ life \in [Inventories -> {"new", "live", "deleted"}]
    /\ sources \in [Inventories -> SUBSET Inventories]
    /\ request \in [Requests -> {Idle} \cup Pending]
    /\ crossed \in BOOLEAN

\* Only inventories that are there have sources, and these are there, too.
ClosedOnLive ==
    \A x \in Inventories :
        /\ sources[x] \subseteq Live
        /\ life[x] # "live" => sources[x] = {}

\* What a request has checked holds until another one commits.
ChecksHold ==
    \A r \in Requests : (request[r] # Idle /\ request[r].fresh) =>
        LET q == request[r] IN
        /\ q.op = "delete" => \A y \in Live : q.inventory \notin sources[y]
        /\ q.op # "delete" => q.sources \subseteq Live
        /\ q.op = "change" => ClosesNoCycle(sources, q.inventory, q.sources)

Sound == ~crossed => (Acyclic(sources) /\ ClosedOnLive)

IInv == Types /\ ChecksHold /\ Sound

-----------------------------------------------------------------------------
(* The graph that a commit leaves behind.                                  *)

\* New sources from which no path leads back to x close no cycle: in a set that
\* had no inventory without sources in it, those that x does not reach had none
\* either (validate_inventory_dependency_update).
LEMMA ChangeStaysAcyclic ==
    ASSUME NEW graph \in [Inventories -> SUBSET Inventories], Acyclic(graph),
           NEW x \in Inventories, NEW S \in SUBSET Inventories, ClosesNoCycle(graph, x, S)
    PROVE  Acyclic([graph EXCEPT ![x] = S])
<1> DEFINE new == [graph EXCEPT ![x] = S]
<1> SUFFICES ASSUME NEW C \in SUBSET Inventories \ {{}},
                    \A y \in C : new[y] \cap C # {}
             PROVE  FALSE
  BY DEF Acyclic
<1>1. CASE x \notin C
  <2>1. PICK y \in C : graph[y] \cap C = {} BY DEF Acyclic
  <2>2. new[y] = graph[y] BY <1>1
  <2> QED BY <2>1, <2>2
<1>2. CASE x \in C
  <2>1. new[x] = S OBVIOUS
  <2>2. PICK s \in S : s \in C BY <1>2, <2>1
  <2>3. PICK K \in SUBSET Inventories : s \in K /\ Closed(graph, K) /\ x \notin K
    BY <2>2 DEF ClosesNoCycle, Reaches
  <2>4. C \cap K \in SUBSET Inventories \ {{}} BY <2>2, <2>3
  <2>5. PICK y \in C \cap K : graph[y] \cap (C \cap K) = {} BY <2>4 DEF Acyclic
  <2>6. new[y] = graph[y] BY <2>3, <2>5
  <2>7. graph[y] \subseteq K BY <2>3, <2>5 DEF Closed
  <2> QED BY <2>5, <2>6, <2>7
<1> QED BY <1>1, <1>2

\* An inventory that nothing names yet may have any sources but itself.
LEMMA CreationStaysAcyclic ==
    ASSUME NEW graph \in [Inventories -> SUBSET Inventories], Acyclic(graph),
           NEW x \in Inventories, NEW S \in SUBSET Inventories,
           x \notin S, \A y \in Inventories : x \notin graph[y]
    PROVE  Acyclic([graph EXCEPT ![x] = S])
<1> DEFINE new == [graph EXCEPT ![x] = S]
<1> SUFFICES ASSUME NEW C \in SUBSET Inventories \ {{}}
             PROVE  \E y \in C : new[y] \cap C = {}
  BY DEF Acyclic
<1>1. CASE C = {x} BY <1>1
<1>2. CASE C # {x}
  <2>1. C \ {x} \in SUBSET Inventories \ {{}} BY <1>2
  <2>2. PICK y \in C \ {x} : graph[y] \cap (C \ {x}) = {} BY <2>1 DEF Acyclic
  <2>3. new[y] = graph[y] BY <2>2
  <2> QED BY <2>2, <2>3
<1> QED BY <1>1, <1>2

\* Less sources close no cycle.
LEMMA DeletionStaysAcyclic ==
    ASSUME NEW graph \in [Inventories -> SUBSET Inventories], Acyclic(graph),
           NEW x \in Inventories
    PROVE  Acyclic([graph EXCEPT ![x] = {}])
<1> SUFFICES ASSUME NEW C \in SUBSET Inventories \ {{}}
             PROVE  \E y \in C : [graph EXCEPT ![x] = {}][y] \cap C = {}
  BY DEF Acyclic
<1>1. PICK y \in C : graph[y] \cap C = {} BY DEF Acyclic
<1>2. [graph EXCEPT ![x] = {}][y] \subseteq graph[y] OBVIOUS
<1> QED BY <1>1, <1>2

-----------------------------------------------------------------------------
LEMMA InitIsSound == Init => IInv
<1> SUFFICES ASSUME Init PROVE IInv OBVIOUS
<1>1. Types BY InitialAssumption DEF Init, Types, Existing, Inventories
<1>2. ChecksHold BY DEF Init, ChecksHold
<1>3. \A x \in Existing : x \in Live BY DEF Init, Live, Existing, Inventories
<1>4. ClosedOnLive
  <2> SUFFICES ASSUME NEW x \in Inventories
               PROVE  sources[x] \subseteq Live /\ (life[x] # "live" => sources[x] = {})
    BY DEF ClosedOnLive
  <2>1. sources[x] \subseteq Existing BY InitialAssumption DEF Init
  <2>2. life[x] # "live" => sources[x] = {} BY DEF Init, Existing
  <2> QED BY <1>3, <2>1, <2>2
<1>5. Acyclic(sources) BY InitialAssumption DEF Init
<1> QED BY <1>1, <1>2, <1>4, <1>5 DEF IInv, Sound

\* A step that leaves the definitions alone keeps what is known of them.
LEMMA SameDefinitions ==
    ASSUME IInv, UNCHANGED <<life, sources, crossed>>, Types',
           \A r \in Requests : (request'[r] # Idle /\ request'[r].fresh) =>
               \/ /\ request[r] # Idle /\ request[r].fresh
                  /\ request'[r].op = request[r].op
                  /\ request'[r].inventory = request[r].inventory
                  /\ request'[r].sources = request[r].sources
               \/ LET q == request'[r] IN
                  /\ q.op = "delete" => \A y \in Live : q.inventory \notin sources[y]
                  /\ q.op # "delete" => q.sources \subseteq Live
                  /\ q.op = "change" => ClosesNoCycle(sources, q.inventory, q.sources)
    PROVE  IInv'
<1>1. Live' = Live BY DEF Live
<1>2. Sound' BY <1>1 DEF IInv, Sound, ClosedOnLive, Acyclic
<1>3. ChecksHold'
  <2> SUFFICES ASSUME NEW r \in Requests, request'[r] # Idle, request'[r].fresh
               PROVE  LET q == request'[r] IN
                      /\ q.op = "delete" => \A y \in Live : q.inventory \notin sources[y]
                      /\ q.op # "delete" => q.sources \subseteq Live
                      /\ q.op = "change" => ClosesNoCycle(sources, q.inventory, q.sources)
    BY <1>1 DEF ChecksHold, ClosesNoCycle, Reaches, Closed
  <2> QED BY DEF IInv, ChecksHold
<1> QED BY <1>2, <1>3 DEF IInv

\* A request looks at the definitions as they are.
LEMMA CheckKeeps ==
    ASSUME IInv, NEW r \in Requests, NEW x \in Inventories,
           \/ \E S \in SourceLists(x), via \in {"form", "api"} : CheckSave(r, x, S, via)
           \/ CheckDelete(r, x)
    PROVE  IInv'
<1>1. CASE \E S \in SourceLists(x), via \in {"form", "api"} : CheckSave(r, x, S, via)
  <2>1. PICK S \in SourceLists(x), via \in {"form", "api"} : CheckSave(r, x, S, via)
    BY <1>1
  <2>2. S \subseteq Live /\ S \subseteq Inventories BY DEF SourceLists, Live
  <2> DEFINE q == [op |-> IF life[x] = "new" THEN "create" ELSE "change", via |-> via,
                   inventory |-> x, sources |-> S, cleared |-> FALSE, fresh |-> TRUE]
  <2>3. request' = [request EXCEPT ![r] = q] /\ UNCHANGED <<life, sources, crossed>>
    BY <2>1 DEF CheckSave
  <2>4. q \in Pending BY <2>2 DEF Pending
  <2>5. Types' BY <2>3, <2>4 DEF IInv, Types
  <2>6. q.op = "change" => ClosesNoCycle(sources, x, S)
    BY <2>1 DEF CheckSave, IInv, Types
  <2>7. request'[r] = q /\ \A s \in Requests \ {r} : request'[s] = request[s]
    BY <2>3 DEF IInv, Types
  <2> QED BY <2>2, <2>3, <2>5, <2>6, <2>7, SameDefinitions
<1>2. CASE CheckDelete(r, x)
  <2> DEFINE q == [op |-> "delete", via |-> "form", inventory |-> x, sources |-> {},
                   cleared |-> FALSE, fresh |-> TRUE]
  <2>1. request' = [request EXCEPT ![r] = q] /\ UNCHANGED <<life, sources, crossed>>
    BY <1>2 DEF CheckDelete
  <2>2. q \in Pending BY DEF Pending
  <2>3. Types' BY <2>1, <2>2 DEF IInv, Types
  <2>4. \A y \in Live : x \notin sources[y] BY <1>2 DEF CheckDelete
  <2>5. request'[r] = q /\ \A s \in Requests \ {r} : request'[s] = request[s]
    BY <2>1 DEF IInv, Types
  <2> QED BY <2>1, <2>3, <2>4, <2>5, SameDefinitions
<1> QED BY <1>1, <1>2

\* Nothing that was checked before a commit counts as fresh after it.
LEMMA CommitMakesStale ==
    ASSUME Types, NEW r \in Requests, request' = Committed(r)
    PROVE  /\ request' \in [Requests -> {Idle} \cup Pending]
           /\ \A q \in Requests : request'[q] = Idle \/ ~request'[q].fresh
<1> SUFFICES ASSUME NEW q \in Requests
             PROVE  \/ Committed(r)[q] = Idle
                    \/ Committed(r)[q] \in Pending /\ ~Committed(r)[q].fresh
  BY DEF Committed
<1>1. CASE q = r \/ request[q] = Idle BY <1>1 DEF Committed
<1>2. CASE ~(q = r \/ request[q] = Idle)
  <2>1. request[q] \in Pending BY <1>2 DEF Types
  <2>2. Committed(r)[q] = [request[q] EXCEPT !.fresh = FALSE] BY <1>2 DEF Committed
  <2> QED BY <2>1, <2>2 DEF Pending
<1> QED BY <1>1, <1>2

LEMMA CommitSaveKeeps ==
    ASSUME IInv, NEW r \in Requests, CommitSave(r)
    PROVE  IInv'
<1> DEFINE q == request[r]
           x == q.inventory
<1>1. q \in Pending BY DEF CommitSave, IInv, Types
<1>2. x \in Inventories /\ q.sources \in SUBSET Inventories BY <1>1 DEF Pending
<1>3. /\ q # Idle /\ q.op \in {"create", "change"}
      /\ life[x] = IF q.op = "create" THEN "new" ELSE "live"
      /\ life' = [life EXCEPT ![x] = "live"]
      /\ sources' = [sources EXCEPT ![x] = q.sources]
      /\ request' = Committed(r)
      /\ crossed' = (crossed \/ ~q.fresh)
  BY DEF CommitSave
<1>4. Types' /\ ChecksHold'
  <2>1. /\ request' \in [Requests -> {Idle} \cup Pending]
        /\ \A s \in Requests : request'[s] = Idle \/ ~request'[s].fresh
    BY <1>3, CommitMakesStale DEF IInv
  <2>2. life' \in [Inventories -> {"new", "live", "deleted"}] BY <1>2, <1>3 DEF IInv, Types
  <2>3. sources' \in [Inventories -> SUBSET Inventories] BY <1>2, <1>3 DEF IInv, Types
  <2>4. crossed' \in BOOLEAN BY <1>3
  <2> QED BY <2>1, <2>2, <2>3, <2>4 DEF Types, ChecksHold
<1>5. Sound'
  <2> SUFFICES ASSUME ~crossed, q.fresh PROVE Acyclic(sources') /\ ClosedOnLive'
    BY <1>1, <1>3 DEF Sound, Acyclic, Pending
  <2>1. Acyclic(sources) /\ ClosedOnLive BY DEF IInv, Sound
  <2>2. q.sources \subseteq Live BY <1>3 DEF IInv, ChecksHold
  <2>3. Live' = Live \cup {x} BY <1>2, <1>3 DEF IInv, Types, Live
  <2>4. ClosedOnLive'
    <3> SUFFICES ASSUME NEW y \in Inventories
                 PROVE  sources'[y] \subseteq Live' /\ (life'[y] # "live" => sources'[y] = {})
      BY DEF ClosedOnLive
    <3>1. CASE y = x BY <1>2, <1>3, <2>2, <2>3, <3>1 DEF IInv, Types
    <3>2. CASE y # x
      <4>1. sources'[y] = sources[y] /\ life'[y] = life[y] BY <1>2, <1>3, <3>2 DEF IInv, Types
      <4> QED BY <2>1, <2>3, <4>1 DEF ClosedOnLive
    <3> QED BY <3>1, <3>2
  <2>5. Acyclic(sources')
    <3>1. CASE q.op = "create"
      <4>1. x \notin Live BY <1>3, <3>1 DEF Live
      <4>2. x \notin q.sources /\ \A y \in Inventories : x \notin sources[y]
        BY <2>1, <2>2, <4>1 DEF ClosedOnLive
      <4>3. Acyclic([sources EXCEPT ![x] = q.sources])
        BY <1>2, <2>1, <4>2, CreationStaysAcyclic DEF IInv, Types
      <4> QED BY <1>3, <4>3
    <3>2. CASE q.op = "change"
      <4>1. ClosesNoCycle(sources, x, q.sources) BY <1>3, <3>2 DEF IInv, ChecksHold
      <4>2. Acyclic([sources EXCEPT ![x] = q.sources])
        BY <1>2, <2>1, <4>1, ChangeStaysAcyclic DEF IInv, Types
      <4> QED BY <1>3, <4>2
    <3> QED BY <1>3, <3>1, <3>2
  <2> QED BY <2>4, <2>5
<1> QED BY <1>4, <1>5 DEF IInv

LEMMA CommitDeleteKeeps ==
    ASSUME IInv, NEW r \in Requests, CommitDelete(r)
    PROVE  IInv'
<1> DEFINE q == request[r]
           x == q.inventory
<1>1. q \in Pending BY DEF CommitDelete, IInv, Types
<1>2. x \in Inventories BY <1>1 DEF Pending
<1>3. /\ q # Idle /\ q.op = "delete"
      /\ life' = [life EXCEPT ![x] = "deleted"]
      /\ sources' = [sources EXCEPT ![x] = {}]
      /\ request' = Committed(r)
      /\ crossed' = (crossed \/ ~q.fresh)
  BY DEF CommitDelete
<1>4. Types' /\ ChecksHold'
  <2>1. /\ request' \in [Requests -> {Idle} \cup Pending]
        /\ \A s \in Requests : request'[s] = Idle \/ ~request'[s].fresh
    BY <1>3, CommitMakesStale DEF IInv
  <2>2. life' \in [Inventories -> {"new", "live", "deleted"}] BY <1>2, <1>3 DEF IInv, Types
  <2>3. sources' \in [Inventories -> SUBSET Inventories] BY <1>2, <1>3 DEF IInv, Types
  <2>4. crossed' \in BOOLEAN BY <1>3
  <2> QED BY <2>1, <2>2, <2>3, <2>4 DEF Types, ChecksHold
<1>5. Sound'
  <2> SUFFICES ASSUME ~crossed, q.fresh PROVE Acyclic(sources') /\ ClosedOnLive'
    BY <1>1, <1>3 DEF Sound, Acyclic, Pending
  <2>1. Acyclic(sources) /\ ClosedOnLive BY DEF IInv, Sound
  <2>2. \A y \in Live : x \notin sources[y] BY <1>3 DEF IInv, ChecksHold
  <2>3. Live' = Live \ {x} BY <1>2, <1>3 DEF IInv, Types, Live
  <2>4. ClosedOnLive'
    <3> SUFFICES ASSUME NEW y \in Inventories
                 PROVE  sources'[y] \subseteq Live' /\ (life'[y] # "live" => sources'[y] = {})
      BY DEF ClosedOnLive
    <3>1. CASE y = x BY <1>2, <1>3, <3>1 DEF IInv, Types
    <3>2. CASE y # x
      <4>1. sources'[y] = sources[y] /\ life'[y] = life[y] BY <1>2, <1>3, <3>2 DEF IInv, Types
      <4>2. x \notin sources[y] BY <2>1, <2>2 DEF ClosedOnLive, Live
      <4> QED BY <2>1, <2>3, <4>1, <4>2 DEF ClosedOnLive
    <3> QED BY <3>1, <3>2
  <2>5. Acyclic(sources')
    BY <1>2, <1>3, <2>1, DeletionStaysAcyclic DEF IInv, Types
  <2> QED BY <2>4, <2>5
<1> QED BY <1>4, <1>5 DEF IInv

LEMMA StepIsSound == IInv /\ [Next]_vars => IInv'
<1> SUFFICES ASSUME IInv, [Next]_vars PROVE IInv' OBVIOUS
<1>1. ASSUME UNCHANGED <<life, sources, crossed, request>> PROVE IInv'
  <2>1. Types' BY <1>1 DEF IInv, Types
  <2> QED BY <1>1, <2>1, SameDefinitions
<1>2. ASSUME NEW r \in Requests, Save(r) PROVE IInv'
  <2>1. ASSUME DeleteCache(r) PROVE IInv'
    <3>1. request' = [request EXCEPT ![r].cleared = TRUE] /\ UNCHANGED <<life, sources, crossed>>
      BY <2>1 DEF DeleteCache
    <3>2. request[r] \in Pending BY <2>1 DEF DeleteCache, IInv, Types
    <3>3. request'[r] = [request[r] EXCEPT !.cleared = TRUE]
      BY <3>1 DEF IInv, Types
    <3>4. /\ request'[r] \in Pending /\ request'[r].op = request[r].op
          /\ request'[r].inventory = request[r].inventory
          /\ request'[r].sources = request[r].sources
          /\ request'[r].fresh = request[r].fresh
      BY <3>2, <3>3 DEF Pending
    <3>5. \A s \in Requests \ {r} : request'[s] = request[s] BY <3>1 DEF IInv, Types
    <3>6. Types' BY <3>1, <3>4, <3>5 DEF IInv, Types
    <3>7. request[r] # Idle BY <2>1 DEF DeleteCache
    <3> QED BY <3>1, <3>4, <3>5, <3>6, <3>7, SameDefinitions
  <2>2. ASSUME LoseRequest(r) PROVE IInv'
    <3>1. request' = [request EXCEPT ![r] = Idle] /\ UNCHANGED <<life, sources, crossed>>
      BY <2>2 DEF LoseRequest
    <3>2. request'[r] = Idle /\ \A s \in Requests \ {r} : request'[s] = request[s]
      BY <3>1 DEF IInv, Types
    <3>3. Types' BY <3>1 DEF IInv, Types
    <3> QED BY <3>1, <3>2, <3>3, SameDefinitions
  <2> QED BY <1>2, <2>1, <2>2, CheckKeeps, CommitSaveKeeps, CommitDeleteKeeps DEF Save
<1>3. ASSUME NEW w \in Resolvers, Resolve(w) PROVE IInv'
  BY <1>1, <1>3 DEF Resolve, BeginResolution, Visit, Recall, Fetch, WriteCache, Return, Fail
<1>4. ASSUME NEW p \in Providers, PurgeCache(p) PROVE IInv'
  BY <1>1, <1>4 DEF PurgeCache
<1>5. CASE UNCHANGED vars BY <1>1, <1>5 DEF vars
<1> QED BY <1>2, <1>3, <1>4, <1>5 DEF Next

\* The induction behind the theorem.
THEOREM InventoriesInvariant == Spec => []IInv
<1> QED BY InitIsSound, StepIsSound, PTL DEF Spec

\* Definitions close no cycle and name nothing that was deleted, however many
\* requests save and delete, unless one commits over the commit of another.
THEOREM DefinitionsStaySound == Spec => []DefinitionsAreSound
<1>1. IInv => DefinitionsAreSound BY DEF IInv, Sound, ClosedOnLive, DefinitionsAreSound, Live
<1> QED BY <1>1, InventoriesInvariant, PTL

-----------------------------------------------------------------------------
(* The caches: what a recursion holds while it walks the definitions.      *)

Frame == [inventory : Inventories, todo : SUBSET Inventories, got : SUBSET Inventories]
Walk ==
    [policy : {"always", "if_missing", "never"}, stack : Seq(Frame),
     at : {"walk", "fetched", "written"}, known : [Providers -> Nat], read : Nat \cup {None},
     memo : [Inventories -> SUBSET Inventories], twice : BOOLEAN, disturbed : BOOLEAN]

Top(v) == v.stack[Len(v.stack)].inventory

\* A recursion meets an inventory once on a path, and nothing below a provider; what
\* is on the path is not in the memo yet.
WalkOK(v) ==
    /\ v \in Walk /\ v.stack # <<>>
    /\ \A i, j \in DOMAIN v.stack : v.stack[i].inventory = v.stack[j].inventory => i = j
    /\ \A i \in DOMAIN v.stack :
          /\ v.memo[v.stack[i].inventory] = {}
          /\ v.stack[i].inventory \in Providers => v.stack[i].todo = {}
    /\ v.at # "walk" => v.policy # "never" /\ Top(v) \in Providers

\* v may still fetch from p, and if it has, it holds the answer.
Fetches(v, p) ==
    v.policy # "never" /\ v.memo[p] = {} /\ ~(Top(v) = p /\ v.at = "written")

\* What v has loaded of a provider that it may still ask is its definition n.
LoadedIs(v, p, n) ==
    Fetches(v, p) =>
        /\ v.known[p] = n
        /\ (v.at = "fetched" /\ Top(v) = p) => v.read = n

CacheTypes ==
    /\ cache \in [Providers -> Nat \cup {None}]
    /\ revision \in [Providers -> Nat]
    /\ DOMAIN resolver = Resolvers

ProvidersAreLeaves ==
    /\ \A p \in Providers : life[p] # "new" /\ sources[p] = {}
    /\ \A r \in Requests :
          (request[r] # Idle /\ request[r].inventory \in Providers) => request[r].sources = {}

WalksAreOK ==
    \A w \in Resolvers : resolver[w] # NoWalk =>
        /\ WalkOK(resolver[w])
        /\ \A p \in Providers \ overtaken : LoadedIs(resolver[w], p, revision[p])

CacheInv == CacheTypes /\ ProvidersAreLeaves /\ WalksAreOK /\ CacheIsOfItsDefinition

-----------------------------------------------------------------------------
(* What the steps of a recursion do to it.                                 *)

LEMMA StackFacts ==
    ASSUME NEW v, WalkOK(v)
    PROVE  /\ Len(v.stack) \in Nat \ {0} /\ DOMAIN v.stack = 1..Len(v.stack)
           /\ Len(v.stack) \in DOMAIN v.stack
           /\ \A i \in DOMAIN v.stack : v.stack[i] \in Frame
           /\ Top(v) \in Inventories
<1>1. v.stack \in Seq(Frame) /\ v.stack # <<>> BY DEF WalkOK, Walk
<1>2. Len(v.stack) \in Nat \ {0} /\ DOMAIN v.stack = 1..Len(v.stack)
  BY <1>1, EmptySeq, LenProperties
<1>3. \A i \in DOMAIN v.stack : v.stack[i] \in Frame BY <1>1, <1>2, ElementOfSeq
<1> QED BY <1>2, <1>3 DEF Top, Frame

LEMMA BeginIsOK ==
    ASSUME CacheTypes, ProvidersAreLeaves, Types,
           NEW x \in Inventories, NEW policy \in {"always", "if_missing", "never"}
    PROVE  LET v == [policy |-> policy, stack |-> <<Entered(x)>>, at |-> "walk",
                     known |-> revision, read |-> None,
                     memo |-> [y \in Inventories |-> {}], twice |-> FALSE, disturbed |-> FALSE]
           IN  WalkOK(v) /\ \A p \in Providers : LoadedIs(v, p, revision[p])
<1> DEFINE v == [policy |-> policy, stack |-> <<Entered(x)>>, at |-> "walk",
                 known |-> revision, read |-> None,
                 memo |-> [y \in Inventories |-> {}], twice |-> FALSE, disturbed |-> FALSE]
<1>1. Entered(x) \in Frame /\ Entered(x).inventory = x /\ Entered(x).todo = sources[x]
  BY DEF Entered, Frame, Types
<1>2. <<Entered(x)>> \in Seq(Frame) /\ DOMAIN <<Entered(x)>> = {1} /\ <<Entered(x)>>[1] = Entered(x)
      /\ <<Entered(x)>> # <<>>
  BY <1>1
<1>3. v \in Walk BY <1>2 DEF Walk, CacheTypes
<1>4. WalkOK(v)
  BY <1>1, <1>2, <1>3 DEF WalkOK, ProvidersAreLeaves
<1> QED BY <1>4 DEF LoadedIs

LEMMA VisitIsOK ==
    ASSUME CacheTypes, ProvidersAreLeaves, Types, NEW v, WalkOK(v),
           NEW y \in Inventories, y \in Last(v.stack).todo, v.memo[y] = {}, MayEnter(v, y)
    PROVE  LET u == [v EXCEPT !.stack = Append(@, Entered(y))]
           IN  WalkOK(u) /\ \A p \in Providers, n \in Nat : LoadedIs(v, p, n) => LoadedIs(u, p, n)
<1> DEFINE k == Len(v.stack)
           u == [v EXCEPT !.stack = Append(v.stack, Entered(y))]
<1>1. /\ k \in Nat \ {0} /\ DOMAIN v.stack = 1..k /\ v.stack \in Seq(Frame) /\ v \in Walk
  BY StackFacts DEF WalkOK, Walk
<1>2. Entered(y) \in Frame /\ Entered(y).inventory = y /\ Entered(y).todo = sources[y]
  BY DEF Entered, Frame, Types
<1>3. /\ u.stack \in Seq(Frame) /\ u.stack # <<>> /\ DOMAIN u.stack = 1..(k + 1) /\ Len(u.stack) = k + 1
      /\ \A i \in 1..k : u.stack[i] = v.stack[i]
      /\ u.stack[k + 1] = Entered(y)
  BY <1>1, <1>2 DEF Walk
<1>4. u \in Walk /\ u.memo = v.memo /\ u.at = v.at /\ u.policy = v.policy /\ u.known = v.known
  BY <1>1, <1>3 DEF Walk
<1> HIDE DEF u
<1>5. \A i \in 1..k : v.stack[i].inventory # y
  BY <1>1 DEF MayEnter, Path
<1>6. v.at = "walk"
  <2>1. v.stack[k].todo # {} BY DEF Last
  <2>2. v.stack[k].inventory \notin Providers BY <1>1, <2>1 DEF WalkOK
  <2> QED BY <2>2 DEF WalkOK, Top
<1>7. WalkOK(u)
  <2>1. \A i, j \in 1..(k + 1) : u.stack[i].inventory = u.stack[j].inventory => i = j
    <3> SUFFICES ASSUME NEW i \in 1..(k + 1), NEW j \in 1..(k + 1),
                        u.stack[i].inventory = u.stack[j].inventory
                 PROVE  i = j
      OBVIOUS
    <3>0. \A a, b \in 1..k : v.stack[a].inventory = v.stack[b].inventory => a = b
      BY <1>1 DEF WalkOK
    <3>1. ASSUME i \in 1..k, j \in 1..k
          PROVE  i = j
      <4>1. u.stack[i] = v.stack[i] /\ u.stack[j] = v.stack[j] BY <1>3, <3>1
      <4> QED BY <3>0, <3>1, <4>1
    <3>2. (\A m \in 1..k : u.stack[m].inventory # y) /\ u.stack[k + 1].inventory = y
      BY <1>2, <1>3, <1>5
    <3>3. (i \in 1..k \/ i = k + 1) /\ (j \in 1..k \/ j = k + 1) BY <1>1
    <3> QED BY <3>1, <3>2, <3>3
  <2>2. \A i \in 1..(k + 1) :
           /\ u.memo[u.stack[i].inventory] = {}
           /\ u.stack[i].inventory \in Providers => u.stack[i].todo = {}
    <3> SUFFICES ASSUME NEW i \in 1..(k + 1)
                 PROVE  /\ u.memo[u.stack[i].inventory] = {}
                        /\ u.stack[i].inventory \in Providers => u.stack[i].todo = {}
      OBVIOUS
    <3>1. CASE i \in 1..k BY <1>1, <1>3, <1>4, <3>1 DEF WalkOK
    <3>2. CASE i = k + 1 BY <1>2, <1>3, <1>4, <3>2 DEF ProvidersAreLeaves
    <3> QED BY <1>1, <3>1, <3>2
  <2> QED BY <1>3, <1>4, <1>6, <2>1, <2>2 DEF WalkOK
<1>8. \A p \in Providers, n \in Nat : LoadedIs(v, p, n) => LoadedIs(u, p, n)
  BY <1>4, <1>6 DEF LoadedIs, Fetches
<1> QED BY <1>7, <1>8 DEF u

\* What returns changes what its parent waits for and has, and nothing else.
AfterJoin(u, v, y, D) ==
    /\ u \in Walk /\ u.stack # <<>> /\ DOMAIN u.stack = DOMAIN v.stack
    /\ Len(u.stack) = Len(v.stack)
    /\ u.policy = v.policy /\ u.at = v.at /\ u.known = v.known /\ u.read = v.read
    /\ u.memo = v.memo /\ u.disturbed = v.disturbed
    /\ \A i \in DOMAIN v.stack : /\ u.stack[i].inventory = v.stack[i].inventory
                                 /\ u.stack[i].todo \subseteq v.stack[i].todo
                                 /\ i # Len(v.stack) => u.stack[i] = v.stack[i]
    /\ u.stack[Len(v.stack)].todo = v.stack[Len(v.stack)].todo \ {y}
    /\ u.stack[Len(v.stack)].got = v.stack[Len(v.stack)].got \cup D
    /\ u.twice <=> (v.twice \/ v.stack[Len(v.stack)].got \cap D # {})

LEMMA JoinedIs ==
    ASSUME NEW v \in Walk, v.stack # <<>>, NEW y, NEW D \in SUBSET Inventories
    PROVE  AfterJoin(Joined(v, y, D), v, y, D)
<1> DEFINE k == Len(v.stack)
           top == v.stack[k]
           frame == [top EXCEPT !.todo = top.todo \ {y}, !.got = top.got \cup D]
           stack == [v.stack EXCEPT ![k] = frame]
           twice == (v.twice \/ top.got \cap D # {})
           u == [v EXCEPT !.stack = stack, !.twice = twice]
<1>1. v.stack \in Seq(Frame) BY DEF Walk
<1>2. k \in Nat \ {0} /\ DOMAIN v.stack = 1..k /\ k \in 1..k
  BY <1>1, EmptySeq, LenProperties
<1>3. top \in Frame BY <1>1, <1>2, ElementOfSeq
<1>4. /\ frame \in Frame /\ frame.inventory = top.inventory /\ frame.todo \subseteq top.todo
      /\ frame.todo = top.todo \ {y} /\ frame.got = top.got \cup D
  BY <1>3 DEF Frame
<1>5. /\ stack \in Seq(Frame) /\ Len(stack) = k
      /\ \A i \in 1..k : stack[i] = IF i = k THEN frame ELSE v.stack[i]
  <2> HIDE DEF frame
  <2> QED BY <1>1, <1>2, <1>4, ExceptSeq
<1>6. DOMAIN stack = 1..k BY <1>5, LenProperties
<1>7. stack # <<>> BY <1>2, <1>5, EmptySeq
<1>8. Joined(v, y, D) = u BY DEF Joined
<1>9. twice \in BOOLEAN BY DEF Walk
<1> HIDE DEF stack, twice
<1>10. /\ u \in Walk /\ u.stack = stack
       /\ u.policy = v.policy /\ u.at = v.at /\ u.known = v.known /\ u.read = v.read
       /\ u.memo = v.memo /\ u.disturbed = v.disturbed /\ u.twice = twice
  BY <1>5, <1>9 DEF Walk
<1>11. /\ \A i \in 1..k : /\ stack[i].inventory = v.stack[i].inventory
                          /\ stack[i].todo \subseteq v.stack[i].todo
                          /\ i # k => stack[i] = v.stack[i]
       /\ stack[k].todo = v.stack[k].todo \ {y} /\ stack[k].got = v.stack[k].got \cup D
  <2> HIDE DEF frame
  <2> QED BY <1>2, <1>4, <1>5
<1>12. twice <=> (v.twice \/ v.stack[k].got \cap D # {}) BY DEF twice
<1> HIDE DEF u, frame
<1>13. /\ u \in Walk /\ u.stack # <<>> /\ DOMAIN u.stack = DOMAIN v.stack
       /\ Len(u.stack) = Len(v.stack)
       /\ u.policy = v.policy /\ u.at = v.at /\ u.known = v.known /\ u.read = v.read
       /\ u.memo = v.memo /\ u.disturbed = v.disturbed
  BY <1>2, <1>5, <1>6, <1>7, <1>10
<1>14. \A i \in DOMAIN v.stack : /\ u.stack[i].inventory = v.stack[i].inventory
                                 /\ u.stack[i].todo \subseteq v.stack[i].todo
                                 /\ i # Len(v.stack) => u.stack[i] = v.stack[i]
  <2> SUFFICES ASSUME NEW i \in 1..k
               PROVE  /\ u.stack[i].inventory = v.stack[i].inventory
                      /\ u.stack[i].todo \subseteq v.stack[i].todo
                      /\ i # k => u.stack[i] = v.stack[i]
    BY <1>2
  <2>1. u.stack[i] = stack[i] BY <1>10
  <2> HIDE DEF k, top
  <2> QED BY <1>11, <2>1
<1>15. /\ u.stack[k].todo = v.stack[k].todo \ {y} /\ u.stack[k].got = v.stack[k].got \cup D
       /\ u.twice <=> (v.twice \/ v.stack[k].got \cap D # {})
  BY <1>10, <1>11, <1>12
<1>16. AfterJoin(u, v, y, D) BY <1>13, <1>14, <1>15 DEF AfterJoin
<1> QED BY <1>8, <1>16

LEMMA JoinedIsOK ==
    ASSUME NEW v, WalkOK(v), NEW y, NEW D \in SUBSET Inventories
    PROVE  LET u == Joined(v, y, D)
           IN  WalkOK(u) /\ \A p \in Providers, n \in Nat : LoadedIs(v, p, n) => LoadedIs(u, p, n)
<1> DEFINE u == Joined(v, y, D)
<1> HIDE DEF u
<1>1. v \in Walk /\ v.stack # <<>> BY DEF WalkOK
<1>2. /\ u \in Walk /\ u.stack # <<>> /\ DOMAIN u.stack = DOMAIN v.stack
      /\ Len(u.stack) = Len(v.stack)
      /\ u.policy = v.policy /\ u.at = v.at /\ u.known = v.known /\ u.read = v.read
      /\ u.memo = v.memo
      /\ \A i \in DOMAIN v.stack : /\ u.stack[i].inventory = v.stack[i].inventory
                                   /\ u.stack[i].todo \subseteq v.stack[i].todo
  <2>1. AfterJoin(u, v, y, D) BY <1>1, JoinedIs DEF u
  <2> QED BY <2>1 DEF AfterJoin
<1>3. Len(v.stack) \in DOMAIN v.stack BY StackFacts
<1>4. Top(u) = Top(v) BY <1>2, <1>3 DEF Top
<1>5. WalkOK(u)
  <2>1. \A i, j \in DOMAIN u.stack : u.stack[i].inventory = u.stack[j].inventory => i = j
    BY <1>2 DEF WalkOK
  <2>2. \A i \in DOMAIN u.stack :
           /\ u.memo[u.stack[i].inventory] = {}
           /\ u.stack[i].inventory \in Providers => u.stack[i].todo = {}
    BY <1>2 DEF WalkOK
  <2>3. u.at # "walk" => u.policy # "never" /\ Top(u) \in Providers
    BY <1>2, <1>4 DEF WalkOK
  <2> QED BY <1>2, <2>1, <2>2, <2>3 DEF WalkOK
<1>6. \A p \in Providers, n \in Nat : LoadedIs(v, p, n) => LoadedIs(u, p, n)
  BY <1>2, <1>4 DEF LoadedIs, Fetches
<1> QED BY <1>5, <1>6 DEF u

LEMMA FetchIsOK ==
    ASSUME CacheTypes, NEW v, WalkOK(v), Top(v) \in Providers, v.policy # "never", v.at = "walk",
           NEW n \in {v.known[Top(v)], revision[Top(v)]}
    PROVE  LET u == [v EXCEPT !.at = "fetched", !.read = n] IN
           /\ WalkOK(u)
           /\ \A p \in Providers : LoadedIs(v, p, revision[p]) => LoadedIs(u, p, revision[p])
<1> DEFINE u == [v EXCEPT !.at = "fetched", !.read = n]
<1>1. v \in Walk BY DEF WalkOK
<1>2. n \in Nat BY <1>1 DEF Walk, CacheTypes
<1>3. /\ u \in Walk /\ u.stack = v.stack /\ u.at = "fetched" /\ u.read = n
      /\ u.policy = v.policy /\ u.known = v.known /\ u.memo = v.memo
  BY <1>1, <1>2 DEF Walk
<1> HIDE DEF u
<1>4. Top(u) = Top(v) BY <1>3 DEF Top
<1>5. WalkOK(u) BY <1>3, <1>4 DEF WalkOK
<1>6. \A p \in Providers : LoadedIs(v, p, revision[p]) => LoadedIs(u, p, revision[p])
  BY <1>3, <1>4 DEF LoadedIs, Fetches
<1> QED BY <1>5, <1>6 DEF u

LEMMA WriteIsOK ==
    ASSUME NEW v, WalkOK(v), v.at = "fetched"
    PROVE  LET u == [v EXCEPT !.at = "written", !.read = None] IN
           /\ WalkOK(u)
           /\ \A p \in Providers, n \in Nat : LoadedIs(v, p, n) => LoadedIs(u, p, n)
<1> DEFINE u == [v EXCEPT !.at = "written", !.read = None]
<1>1. v \in Walk BY DEF WalkOK
<1>2. /\ u \in Walk /\ u.stack = v.stack /\ u.at = "written"
      /\ u.policy = v.policy /\ u.known = v.known /\ u.memo = v.memo
  BY <1>1 DEF Walk
<1> HIDE DEF u
<1>3. Top(u) = Top(v) BY <1>2 DEF Top
<1>4. WalkOK(u) BY <1>2, <1>3 DEF WalkOK
<1>5. \A p \in Providers, n \in Nat : LoadedIs(v, p, n) => LoadedIs(u, p, n)
  BY <1>2, <1>3 DEF LoadedIs, Fetches
<1> QED BY <1>4, <1>5 DEF u

LEMMA DisturbedIsOK ==
    ASSUME NEW v, WalkOK(v)
    PROVE  LET u == [v EXCEPT !.disturbed = TRUE] IN
           /\ WalkOK(u) /\ u # NoWalk
           /\ \A p \in Providers : Fetches(u, p) <=> Fetches(v, p)
           /\ \A p \in Providers, n \in Nat : LoadedIs(v, p, n) => LoadedIs(u, p, n)
<1> DEFINE u == [v EXCEPT !.disturbed = TRUE]
<1>1. v \in Walk BY DEF WalkOK
<1>2. /\ u \in Walk /\ u.stack = v.stack /\ u.at = v.at /\ u.read = v.read
      /\ u.policy = v.policy /\ u.known = v.known /\ u.memo = v.memo
  BY <1>1 DEF Walk
<1> HIDE DEF u
<1>3. Top(u) = Top(v) BY <1>2 DEF Top
<1>4. WalkOK(u) BY <1>2, <1>3 DEF WalkOK
<1>5. u # NoWalk BY <1>4 DEF WalkOK, NoWalk
<1>6. /\ \A p \in Providers : Fetches(u, p) <=> Fetches(v, p)
      /\ \A p \in Providers, n \in Nat : LoadedIs(v, p, n) => LoadedIs(u, p, n)
  BY <1>2, <1>3 DEF LoadedIs, Fetches
<1> QED BY <1>4, <1>5, <1>6 DEF u

\* A parent goes on where it has been, with what is above it gone.
AfterPop(u, v, memo, known) ==
    LET k == Len(v.stack) IN
    /\ k \in Nat /\ k > 1 /\ DOMAIN v.stack = 1..k
    /\ u \in Walk /\ u.at = "walk" /\ u.policy = v.policy
    /\ u.known = known /\ u.memo = memo /\ u.twice = v.twice /\ u.disturbed = v.disturbed
    /\ u.stack # <<>> /\ DOMAIN u.stack = 1..(k - 1) /\ Len(u.stack) = k - 1
    /\ \A i \in 1..(k - 1) : u.stack[i] = v.stack[i]

LEMMA RestIs ==
    ASSUME NEW v, WalkOK(v), Len(v.stack) # 1,
           NEW memo \in [Inventories -> SUBSET Inventories], NEW known \in [Providers -> Nat]
    PROVE  AfterPop([v EXCEPT !.stack = Front(v.stack), !.at = "walk", !.memo = memo,
                              !.known = known], v, memo, known)
<1> DEFINE k == Len(v.stack)
           stack == Front(v.stack)
           u == [v EXCEPT !.stack = stack, !.at = "walk", !.memo = memo, !.known = known]
<1> HIDE DEF u, stack
<1>1. v \in Walk /\ v.stack \in Seq(Frame) BY DEF WalkOK, Walk
<1>2. k \in Nat /\ k > 1 /\ DOMAIN v.stack = 1..k
  <2>1. k \in Nat \ {0} /\ DOMAIN v.stack = 1..k BY StackFacts
  <2>2. k # 1 OBVIOUS
  <2> HIDE DEF k
  <2> QED BY <2>1, <2>2
<1>3. /\ stack \in Seq(Frame) /\ stack # <<>> /\ DOMAIN stack = 1..(k - 1) /\ Len(stack) = k - 1
      /\ \A i \in 1..(k - 1) : stack[i] = v.stack[i]
  <2>1. \A i \in 1..(k - 1) : v.stack[i] \in Frame
    <3>1. \A i \in 1..k : v.stack[i] \in Frame BY <1>2, StackFacts
    <3>2. \A i \in 1..(k - 1) : i \in 1..k BY <1>2
    <3> QED BY <3>1, <3>2
  <2>2. k - 1 \in Int /\ 1 <= k - 1 BY <1>2
  <2>3. stack = SubSeq(v.stack, 1, k - 1) BY DEF stack, Front
  <2>4. /\ SubSeq(v.stack, 1, k - 1) \in Seq(Frame)
        /\ Len(SubSeq(v.stack, 1, k - 1)) = IF 1 <= k - 1 THEN (k - 1) - 1 + 1 ELSE 0
        /\ \A i \in 1..((k - 1) - 1 + 1) : SubSeq(v.stack, 1, k - 1)[i] = v.stack[1 + i - 1]
    <3> HIDE DEF k
    <3> QED BY <2>1, <2>2, SubSeqProperties
  <2>5. stack \in Seq(Frame) /\ Len(stack) = k - 1
    <3> HIDE DEF k
    <3> QED BY <1>2, <2>2, <2>3, <2>4
  <2>6. \A i \in 1..(k - 1) : stack[i] = v.stack[i]
    <3> HIDE DEF k
    <3> QED BY <1>2, <2>3, <2>4
  <2>7. DOMAIN stack = 1..(k - 1) BY <2>5, LenProperties
  <2>8. stack # <<>>
    <3> HIDE DEF k
    <3> QED BY <2>2, <2>5, EmptySeq
  <2> QED BY <2>5, <2>6, <2>7, <2>8
<1>4. /\ u \in Walk /\ u.stack = stack /\ u.at = "walk" /\ u.policy = v.policy
      /\ u.known = known /\ u.memo = memo /\ u.twice = v.twice /\ u.disturbed = v.disturbed
  BY <1>1, <1>3 DEF Walk, u
<1> HIDE DEF k
<1>5. AfterPop(u, v, memo, known) BY <1>2, <1>3, <1>4 DEF AfterPop, k
<1> QED BY <1>5 DEF u, stack

\* The parent of what is done goes on: what is done is in the memo, so that it will
\* not be asked again, and is no longer on the path.
LEMMA RestIsOK ==
    ASSUME CacheTypes, NEW v, WalkOK(v), Len(v.stack) # 1, NEW records \in BOOLEAN,
           NEW D \in SUBSET Inventories, Top(v) \in Providers => D = {Top(v)},
           NEW memo,
           memo = IF v.policy = "never" THEN v.memo ELSE [v.memo EXCEPT ![Top(v)] = D],
           NEW known, known = IF records THEN revision ELSE v.known
    PROVE  LET u == [v EXCEPT !.stack = Front(v.stack), !.at = "walk", !.memo = memo,
                              !.known = known] IN
           /\ WalkOK(u)
           /\ \A p \in Providers : LoadedIs(v, p, revision[p]) => LoadedIs(u, p, revision[p])
<1> DEFINE k == Len(v.stack)
           u == [v EXCEPT !.stack = Front(v.stack), !.at = "walk", !.memo = memo, !.known = known]
<1> HIDE DEF u
<1>1. v \in Walk /\ Top(v) \in Inventories BY StackFacts DEF WalkOK
<1>2. memo \in [Inventories -> SUBSET Inventories] /\ known \in [Providers -> Nat]
  BY <1>1 DEF Walk, CacheTypes
<1>3. /\ k \in Nat /\ k > 1 /\ DOMAIN v.stack = 1..k
      /\ u \in Walk /\ u.at = "walk" /\ u.policy = v.policy /\ u.known = known /\ u.memo = memo
      /\ u.stack # <<>> /\ DOMAIN u.stack = 1..(k - 1)
      /\ \A i \in 1..(k - 1) : u.stack[i] = v.stack[i]
  <2>1. AfterPop(u, v, memo, known) BY <1>2, RestIs DEF u
  <2> QED BY <2>1 DEF AfterPop
<1>4. \A y \in Inventories : y # Top(v) => memo[y] = v.memo[y]
  BY <1>1 DEF Walk
<1>5. \A i \in 1..(k - 1) : v.stack[i].inventory # Top(v) /\ v.stack[i].inventory \in Inventories
  <2> HIDE DEF k
  <2> SUFFICES ASSUME NEW i \in 1..(k - 1)
               PROVE  v.stack[i].inventory # Top(v) /\ v.stack[i].inventory \in Inventories
    OBVIOUS
  <2>1. i \in 1..k /\ k \in 1..k /\ i # k BY <1>3
  <2>2. v.stack[i] \in Frame BY <1>3, <2>1, StackFacts
  <2>3. Top(v) = v.stack[k].inventory BY DEF Top, k
  <2>4. v.stack[i].inventory # v.stack[k].inventory BY <1>3, <2>1 DEF WalkOK
  <2> QED BY <2>2, <2>3, <2>4 DEF Frame
<1>6. WalkOK(u)
  <2> HIDE DEF k
  <2>1. \A i, j \in DOMAIN u.stack : u.stack[i].inventory = u.stack[j].inventory => i = j
    BY <1>3 DEF WalkOK
  <2>2. \A i \in DOMAIN u.stack :
           /\ u.memo[u.stack[i].inventory] = {}
           /\ u.stack[i].inventory \in Providers => u.stack[i].todo = {}
    <3> SUFFICES ASSUME NEW i \in 1..(k - 1)
                 PROVE  /\ u.memo[u.stack[i].inventory] = {}
                        /\ u.stack[i].inventory \in Providers => u.stack[i].todo = {}
      BY <1>3
    <3>1. u.stack[i] = v.stack[i] BY <1>3
    <3>2. i \in DOMAIN v.stack BY <1>3
    <3>3. memo[v.stack[i].inventory] = v.memo[v.stack[i].inventory] BY <1>4, <1>5
    <3> QED BY <1>3, <3>1, <3>2, <3>3 DEF WalkOK
  <2> QED BY <1>3, <2>1, <2>2 DEF WalkOK
<1>7. ASSUME NEW p \in Providers, LoadedIs(v, p, revision[p]) PROVE LoadedIs(u, p, revision[p])
  <2> SUFFICES ASSUME Fetches(u, p) PROVE known[p] = revision[p]
    BY <1>3 DEF LoadedIs
  <2>1. v.policy # "never" /\ memo[p] = {} BY <1>3 DEF Fetches
  <2>2. p # Top(v) BY <1>1, <2>1 DEF Walk
  <2>3. v.memo[p] = {} BY <1>4, <2>1, <2>2 DEF Inventories
  <2>4. v.known[p] = revision[p] BY <1>7, <2>1, <2>2, <2>3 DEF LoadedIs, Fetches
  <2> QED BY <2>4
<1> QED BY <1>6, <1>7 DEF u

-----------------------------------------------------------------------------
LEMMA InitHasCacheInv == Init => CacheInv
<1> SUFFICES ASSUME Init PROVE CacheInv OBVIOUS
<1>1. CacheTypes BY DEF Init, CacheTypes
<1>2. ProvidersAreLeaves BY InitialAssumption DEF Init, ProvidersAreLeaves, Existing, Inventories
<1>3. WalksAreOK BY DEF Init, WalksAreOK
<1>4. CacheIsOfItsDefinition BY DEF Init, CacheIsOfItsDefinition
<1> QED BY <1>1, <1>2, <1>3, <1>4 DEF CacheInv

\* A step of one resolution, that leaves the definitions alone.
LEMMA WalkKeeps ==
    ASSUME CacheInv, UNCHANGED <<life, sources, revision, request, overtaken>>,
           NEW w \in Resolvers, NEW u, resolver' = [resolver EXCEPT ![w] = u],
           u # NoWalk => /\ WalkOK(u)
                         /\ \A p \in Providers \ overtaken : LoadedIs(u, p, revision[p]),
           cache' \in [Providers -> Nat \cup {None}], CacheIsOfItsDefinition'
    PROVE  CacheInv'
<1>1. CacheTypes' BY DEF CacheInv, CacheTypes
<1>2. ProvidersAreLeaves' BY DEF CacheInv, ProvidersAreLeaves
<1>3. WalksAreOK'
  <2> SUFFICES ASSUME NEW s \in Resolvers, resolver'[s] # NoWalk
               PROVE  /\ WalkOK(resolver'[s])
                      /\ \A p \in Providers \ overtaken : LoadedIs(resolver'[s], p, revision[p])
    BY DEF WalksAreOK
  <2>1. resolver'[s] = IF s = w THEN u ELSE resolver[s] BY DEF CacheInv, CacheTypes
  <2> QED BY <2>1 DEF CacheInv, WalksAreOK
<1> QED BY <1>1, <1>2, <1>3 DEF CacheInv

\* A step that leaves definitions and caches alone.
LEMMA SameCache ==
    ASSUME CacheInv, UNCHANGED <<revision, cache, overtaken>>
    PROVE  CacheIsOfItsDefinition' /\ cache' \in [Providers -> Nat \cup {None}]
BY DEF CacheInv, CacheTypes, CacheIsOfItsDefinition

\* A resolution goes on with what it has loaded, and what it writes is of the
\* definition that it may rely on.
LEMMA ResolveKeepsCaches ==
    ASSUME IInv, CacheInv, NEW w \in Resolvers, Resolve(w)
    PROVE  CacheInv'
<1> DEFINE v == resolver[w]
<1>1. CacheTypes /\ ProvidersAreLeaves /\ Types BY DEF CacheInv, IInv
<1>2. v # NoWalk => /\ WalkOK(v)
                    /\ \A p \in Providers \ overtaken : LoadedIs(v, p, revision[p])
  BY DEF CacheInv, WalksAreOK
<1>3. \A p \in Providers : revision[p] \in Nat BY <1>1 DEF CacheTypes
<1>4. ASSUME NEW x \in Inventories, NEW policy \in {"always", "if_missing", "never"},
             BeginResolution(w, x, policy)
      PROVE  CacheInv'
  <2> DEFINE u == [policy |-> policy, stack |-> <<Entered(x)>>, at |-> "walk",
                   known |-> revision, read |-> None,
                   memo |-> [y \in Inventories |-> {}], twice |-> FALSE, disturbed |-> FALSE]
  <2>1. /\ resolver' = [resolver EXCEPT ![w] = u]
        /\ UNCHANGED <<life, sources, revision, cache, request, overtaken>>
    BY <1>4 DEF BeginResolution
  <2>2. WalkOK(u) /\ \A p \in Providers : LoadedIs(u, p, revision[p]) BY <1>1, BeginIsOK
  <2> HIDE DEF u
  <2> QED BY <2>1, <2>2, SameCache, WalkKeeps
<1>5. ASSUME NEW y \in Inventories, Visit(w, y) PROVE CacheInv'
  <2> DEFINE u == [v EXCEPT !.stack = Append(v.stack, Entered(y))]
  <2>1. /\ v # NoWalk /\ y \in Last(v.stack).todo /\ v.memo[y] = {} /\ MayEnter(v, y)
        /\ resolver' = [resolver EXCEPT ![w] = u]
        /\ UNCHANGED <<life, sources, revision, cache, request, overtaken>>
    BY <1>1, <1>5 DEF Visit, CacheTypes
  <2>2. WalkOK(v) BY <1>2, <2>1
  <2>3. WalkOK(u) /\ \A p \in Providers, n \in Nat : LoadedIs(v, p, n) => LoadedIs(u, p, n)
    <3> HIDE DEF v
    <3> QED BY <1>1, <2>1, <2>2, VisitIsOK
  <2> HIDE DEF u
  <2>4. \A p \in Providers \ overtaken : LoadedIs(u, p, revision[p]) BY <1>2, <1>3, <2>1, <2>3
  <2> QED BY <2>1, <2>3, <2>4, SameCache, WalkKeeps
<1>6. ASSUME NEW y \in Inventories, Recall(w, y) PROVE CacheInv'
  <2> DEFINE u == Joined(v, y, v.memo[y])
  <2>1. /\ v # NoWalk /\ resolver' = [resolver EXCEPT ![w] = u]
        /\ UNCHANGED <<life, sources, revision, cache, request, overtaken>>
    BY <1>1, <1>6 DEF Recall, CacheTypes
  <2>2. WalkOK(v) BY <1>2, <2>1
  <2>3. v.memo[y] \in SUBSET Inventories BY <2>2 DEF WalkOK, Walk
  <2>4. WalkOK(u) /\ \A p \in Providers, n \in Nat : LoadedIs(v, p, n) => LoadedIs(u, p, n)
    <3> HIDE DEF v
    <3> QED BY <2>2, <2>3, JoinedIsOK
  <2> HIDE DEF u
  <2>5. \A p \in Providers \ overtaken : LoadedIs(u, p, revision[p]) BY <1>2, <1>3, <2>1, <2>4
  <2> QED BY <2>1, <2>4, <2>5, SameCache, WalkKeeps
<1>7. ASSUME Fetch(w) PROVE CacheInv'
  <2>1. PICK n \in {v.known[Top(v)], revision[Top(v)]} :
            resolver' = [resolver EXCEPT ![w].at = "fetched", ![w].read = n]
    BY <1>7 DEF Fetch, Top, Last
  <2> DEFINE u == [v EXCEPT !.at = "fetched", !.read = n]
  <2>2. /\ v # NoWalk /\ v.at = "walk" /\ Top(v) \in Providers /\ v.policy # "never"
        /\ UNCHANGED <<life, sources, revision, cache, request, overtaken>>
    BY <1>7 DEF Fetch, Top, Last
  <2>3. resolver' = [resolver EXCEPT ![w] = u] BY <1>1, <2>1 DEF CacheTypes
  <2>4. WalkOK(v) BY <1>2, <2>2
  <2>5. WalkOK(u) /\ \A p \in Providers : LoadedIs(v, p, revision[p]) => LoadedIs(u, p, revision[p])
    <3> HIDE DEF v
    <3> QED BY <1>1, <2>1, <2>2, <2>4, FetchIsOK
  <2> HIDE DEF u
  <2>6. \A p \in Providers \ overtaken : LoadedIs(u, p, revision[p]) BY <1>2, <2>2, <2>5
  <2> QED BY <2>2, <2>3, <2>5, <2>6, SameCache, WalkKeeps
<1>8. ASSUME WriteCache(w) PROVE CacheInv'
  <2> DEFINE u == [v EXCEPT !.at = "written", !.read = None]
  <2>1. /\ v # NoWalk /\ v.at = "fetched" /\ cache' = [cache EXCEPT ![Top(v)] = v.read]
        /\ UNCHANGED <<life, sources, revision, request, overtaken>>
    BY <1>8 DEF WriteCache, Top, Last
  <2>2. resolver' = [resolver EXCEPT ![w] = u] BY <1>1, <1>8 DEF WriteCache, CacheTypes
  <2>3. WalkOK(v) BY <1>2, <2>1
  <2>4. WalkOK(u) /\ \A p \in Providers, n \in Nat : LoadedIs(v, p, n) => LoadedIs(u, p, n)
    <3> HIDE DEF v
    <3> QED BY <2>1, <2>3, WriteIsOK
  <2>5. /\ v.policy # "never" /\ Top(v) \in Providers /\ v.read \in Nat \cup {None}
        /\ v.memo[Top(v)] = {}
    BY <2>1, <2>3, StackFacts DEF WalkOK, Walk, Top
  <2>6. Top(v) \notin overtaken => v.read = revision[Top(v)]
    BY <1>2, <2>1, <2>5 DEF LoadedIs, Fetches
  <2> HIDE DEF u
  <2>7. \A p \in Providers \ overtaken : LoadedIs(u, p, revision[p]) BY <1>2, <1>3, <2>1, <2>4
  <2>8. cache' \in [Providers -> Nat \cup {None}] BY <1>1, <2>1, <2>5 DEF CacheTypes
  <2>9. CacheIsOfItsDefinition'
    <3> SUFFICES ASSUME NEW p \in Providers \ overtaken PROVE cache'[p] \in {None, revision[p]}
      BY <2>1 DEF CacheIsOfItsDefinition
    <3>1. cache'[p] = IF p = Top(v) THEN v.read ELSE cache[p] BY <1>1, <2>1 DEF CacheTypes
    <3> QED BY <2>6, <3>1 DEF CacheInv, CacheIsOfItsDefinition
  <2> QED BY <2>1, <2>2, <2>4, <2>7, <2>8, <2>9, WalkKeeps
<1>9. ASSUME Return(w) PROVE CacheInv'
  <2> DEFINE top == Last(v.stack)
             D == IF top.inventory \in Providers THEN {top.inventory} ELSE top.got
             memo == IF v.policy = "never" THEN v.memo ELSE [v.memo EXCEPT ![top.inventory] = D]
             records == v.policy = "always" \/ v.at = "written"
             known == IF records THEN revision ELSE v.known
             rest == [v EXCEPT !.stack = Front(v.stack), !.at = "walk", !.memo = memo,
                               !.known = known]
             u == IF Len(v.stack) = 1 THEN NoWalk ELSE Joined(rest, top.inventory, D)
  <2>1. /\ v # NoWalk /\ resolver' = [resolver EXCEPT ![w] = u]
        /\ UNCHANGED <<life, sources, revision, cache, request, overtaken>>
    BY <1>9 DEF Return
  <2>2. WalkOK(v) BY <1>2, <2>1
  <2>3. top \in Frame /\ top.inventory = Top(v) BY <2>2, StackFacts DEF Last, Top
  <2>4. D \in SUBSET Inventories /\ (Top(v) \in Providers => D = {Top(v)})
    BY <2>3 DEF Frame
  <2>5. ASSUME Len(v.stack) # 1
        PROVE  WalkOK(u) /\ \A p \in Providers \ overtaken : LoadedIs(u, p, revision[p])
    <3>1. /\ WalkOK(rest)
          /\ \A p \in Providers : LoadedIs(v, p, revision[p]) => LoadedIs(rest, p, revision[p])
      <4>1. memo = IF v.policy = "never" THEN v.memo ELSE [v.memo EXCEPT ![Top(v)] = D]
        BY <2>3
      <4>2. records \in BOOLEAN OBVIOUS
      <4> HIDE DEF v, memo, records, D
      <4> QED BY <1>1, <2>2, <2>4, <2>5, <4>1, <4>2, RestIsOK
    <3> HIDE DEF rest
    <3>2. /\ WalkOK(Joined(rest, top.inventory, D))
          /\ \A p \in Providers, n \in Nat :
                LoadedIs(rest, p, n) => LoadedIs(Joined(rest, top.inventory, D), p, n)
      BY <2>4, <3>1, JoinedIsOK
    <3> QED BY <1>2, <1>3, <2>1, <2>5, <3>1, <3>2
  <2>6. u # NoWalk => Len(v.stack) # 1 OBVIOUS
  <2> HIDE DEF u
  <2> QED BY <2>1, <2>5, <2>6, SameCache, WalkKeeps
<1>10. ASSUME Fail(w) PROVE CacheInv'
  <2>1. /\ resolver' = [resolver EXCEPT ![w] = NoWalk]
        /\ UNCHANGED <<life, sources, revision, cache, request, overtaken>>
    BY <1>10 DEF Fail
  <2> QED BY <2>1, SameCache, WalkKeeps
<1> QED BY <1>4, <1>5, <1>6, <1>7, <1>8, <1>9, <1>10 DEF Resolve

\* A commit makes what the others have read stale, no more.
LEMMA OnlyStale ==
    ASSUME Types, NEW r \in Requests, request' = Committed(r)
    PROVE  \A q \in Requests : request'[q] # Idle =>
               /\ request[q] # Idle /\ request'[q].inventory = request[q].inventory
               /\ request'[q].sources = request[q].sources
<1> SUFFICES ASSUME NEW q \in Requests, request'[q] # Idle
             PROVE  /\ request[q] # Idle /\ request'[q].inventory = request[q].inventory
                    /\ request'[q].sources = request[q].sources
  OBVIOUS
<1>1. request'[q] = IF q = r \/ request[q] = Idle THEN Idle ELSE [request[q] EXCEPT !.fresh = FALSE]
  BY DEF Committed
<1>2. request[q] # Idle /\ request'[q] = [request[q] EXCEPT !.fresh = FALSE] BY <1>1
<1>3. request[q] \in Pending BY <1>2 DEF Types
<1> QED BY <1>2, <1>3 DEF Pending

\* A resolution that a commit disturbs still relies on the definitions that did
\* not change.
LEMMA DisturbedKeeps ==
    ASSUME CacheInv, resolver' = Disturbed, overtaken \subseteq overtaken',
           \A p \in Providers \ overtaken' : revision'[p] = revision[p] \/ ~MayFetch(p)
    PROVE  DOMAIN resolver' = Resolvers /\ WalksAreOK'
<1>1. DOMAIN resolver' = Resolvers BY DEF Disturbed
<1>2. WalksAreOK'
  <2> SUFFICES ASSUME NEW w \in Resolvers, resolver'[w] # NoWalk
               PROVE  /\ WalkOK(resolver'[w])
                      /\ \A p \in Providers \ overtaken' : LoadedIs(resolver'[w], p, revision'[p])
    BY DEF WalksAreOK
  <2> DEFINE v == resolver[w]
             u == [v EXCEPT !.disturbed = TRUE]
  <2>1. v # NoWalk /\ resolver'[w] = u BY DEF Disturbed
  <2>2. WalkOK(v) /\ \A p \in Providers \ overtaken : LoadedIs(v, p, revision[p])
    BY <2>1 DEF CacheInv, WalksAreOK
  <2>3. /\ WalkOK(u)
        /\ \A p \in Providers : Fetches(u, p) <=> Fetches(v, p)
        /\ \A p \in Providers, n \in Nat : LoadedIs(v, p, n) => LoadedIs(u, p, n)
    <3> HIDE DEF v
    <3> QED BY <2>2, DisturbedIsOK
  <2> HIDE DEF u
  <2>4. ASSUME NEW p \in Providers \ overtaken' PROVE LoadedIs(u, p, revision'[p])
    <3>1. CASE revision'[p] = revision[p]
      <4>1. revision[p] \in Nat BY DEF CacheInv, CacheTypes
      <4> QED BY <2>2, <2>3, <3>1, <4>1
    <3>2. CASE ~MayFetch(p)
      <4>1. ~Fetches(v, p) BY <2>1, <3>2 DEF MayFetch, Fetches, Top, Last
      <4>2. ~Fetches(u, p) BY <2>3, <4>1
      <4> QED BY <4>2 DEF LoadedIs
    <3> QED BY <3>1, <3>2
  <2> QED BY <2>1, <2>3, <2>4
<1> QED BY <1>1, <1>2

\* A provider is changed when no resolution may fetch from it any more and its
\* cache is gone, or else counts as overtaken.
LEMMA CommitSaveKeepsCaches ==
    ASSUME IInv, CacheInv, NEW r \in Requests, CommitSave(r)
    PROVE  CacheInv'
<1> DEFINE q == request[r]
           x == q.inventory
<1>1. q \in Pending BY DEF CommitSave, IInv, Types
<1>2. x \in Inventories /\ q.via \in {"form", "api"} BY <1>1 DEF Pending
<1>3. Types /\ CacheTypes /\ ProvidersAreLeaves BY DEF CacheInv, IInv
<1>4. /\ q # Idle /\ q.op \in {"create", "change"} /\ (ClearsCache(q) => q.cleared)
      /\ life[x] = IF q.op = "create" THEN "new" ELSE "live"
      /\ life' = [life EXCEPT ![x] = "live"]
      /\ sources' = [sources EXCEPT ![x] = q.sources]
      /\ request' = Committed(r) /\ resolver' = Disturbed /\ cache' = cache
      /\ x \notin Providers => UNCHANGED <<revision, overtaken>>
      /\ x \in Providers =>
            /\ revision' = [revision EXCEPT ![x] = @ + 1]
            /\ overtaken' = IF MayFetch(x) \/ (cache[x] # None /\ (q.via = "api" \/ q.cleared))
                            THEN overtaken \cup {x} ELSE overtaken
  BY DEF CommitSave
<1> HIDE DEF q, x
<1>5. x \in Providers => q.op = "change" BY <1>3, <1>4 DEF ProvidersAreLeaves
<1>6. ProvidersAreLeaves'
  <2>1. \A p \in Providers : p \in Inventories BY DEF Inventories
  <2>2. x \in Providers => q.sources = {} BY <1>3, <1>4 DEF ProvidersAreLeaves, q, x
  <2>3. \A p \in Providers : life'[p] # "new" /\ sources'[p] = {}
    BY <1>3, <1>4, <2>1, <2>2 DEF ProvidersAreLeaves, Types
  <2> QED BY <1>3, <1>4, <2>3, OnlyStale DEF ProvidersAreLeaves
<1>7. revision' \in [Providers -> Nat] /\ overtaken \subseteq overtaken'
  BY <1>3, <1>4 DEF CacheTypes
<1>8. \A p \in Providers : p # x => revision'[p] = revision[p] BY <1>3, <1>4 DEF CacheTypes
<1>9. ASSUME x \in Providers, x \notin overtaken' PROVE ~MayFetch(x) /\ cache[x] = None
  <2>1. ~MayFetch(x) /\ ~(cache[x] # None /\ (q.via = "api" \/ q.cleared)) BY <1>4, <1>9
  <2>2. q.via = "api" \/ q.cleared BY <1>2, <1>4, <1>5, <1>9 DEF ClearsCache, x
  <2> QED BY <2>1, <2>2
<1>10. DOMAIN resolver' = Resolvers /\ WalksAreOK'
  BY <1>4, <1>7, <1>8, <1>9, DisturbedKeeps
<1>11. CacheTypes' BY <1>3, <1>4, <1>7, <1>10 DEF CacheTypes
<1>12. CacheIsOfItsDefinition'
  <2> SUFFICES ASSUME NEW p \in Providers \ overtaken' PROVE cache[p] \in {None, revision'[p]}
    BY <1>4 DEF CacheIsOfItsDefinition
  <2>1. CASE p = x BY <1>9, <2>1
  <2>2. CASE p # x BY <1>7, <1>8, <2>2 DEF CacheInv, CacheIsOfItsDefinition
  <2> QED BY <2>1, <2>2
<1> QED BY <1>6, <1>10, <1>11, <1>12 DEF CacheInv

LEMMA SaveKeepsCaches ==
    ASSUME IInv, CacheInv, NEW r \in Requests, Save(r)
    PROVE  CacheInv'
<1>1. Types /\ CacheTypes /\ ProvidersAreLeaves BY DEF CacheInv, IInv
<1>2. ASSUME UNCHANGED <<life, sources, revision, cache, resolver, overtaken>>, ProvidersAreLeaves'
      PROVE  CacheInv'
  BY <1>2 DEF CacheInv, CacheTypes, WalksAreOK, CacheIsOfItsDefinition
<1>3. ASSUME NEW x \in Inventories, NEW S \in SourceLists(x), NEW via \in {"form", "api"},
             CheckSave(r, x, S, via)
      PROVE  CacheInv'
  <2> DEFINE q == [op |-> IF life[x] = "new" THEN "create" ELSE "change", via |-> via,
                   inventory |-> x, sources |-> S, cleared |-> FALSE, fresh |-> TRUE]
  <2>1. /\ request' = [request EXCEPT ![r] = q]
        /\ UNCHANGED <<life, sources, revision, cache, resolver, overtaken>>
    BY <1>3 DEF CheckSave
  <2>2. x \in Providers => S = {} BY DEF SourceLists
  <2>3. \A s \in Requests : request'[s] = IF s = r THEN q ELSE request[s] BY <1>1, <2>1 DEF Types
  <2>4. ProvidersAreLeaves' BY <1>1, <2>1, <2>2, <2>3 DEF ProvidersAreLeaves
  <2> QED BY <1>2, <2>1, <2>4
<1>4. ASSUME NEW x \in Inventories, CheckDelete(r, x) PROVE CacheInv'
  <2> DEFINE q == [op |-> "delete", via |-> "form", inventory |-> x, sources |-> {},
                   cleared |-> FALSE, fresh |-> TRUE]
  <2>1. /\ request' = [request EXCEPT ![r] = q]
        /\ UNCHANGED <<life, sources, revision, cache, resolver, overtaken>>
    BY <1>4 DEF CheckDelete
  <2>2. \A s \in Requests : request'[s] = IF s = r THEN q ELSE request[s] BY <1>1, <2>1 DEF Types
  <2>3. ProvidersAreLeaves' BY <1>1, <2>1, <2>2 DEF ProvidersAreLeaves
  <2> QED BY <1>2, <2>1, <2>3
<1>5. ASSUME DeleteCache(r) PROVE CacheInv'
  <2>1. /\ request' = [request EXCEPT ![r].cleared = TRUE]
        /\ request[r] # Idle /\ request[r].inventory \in Providers
        /\ cache' = [cache EXCEPT ![request[r].inventory] = None]
        /\ UNCHANGED <<life, sources, revision, resolver, overtaken>>
    BY <1>5 DEF DeleteCache, ClearsCache
  <2>2. request[r] \in Pending BY <1>1, <2>1 DEF Types
  <2>3. request'[r] = [request[r] EXCEPT !.cleared = TRUE] BY <1>1, <2>1 DEF Types
  <2>4. request'[r].inventory = request[r].inventory /\ request'[r].sources = request[r].sources
    BY <2>2, <2>3 DEF Pending
  <2>5. \A s \in Requests \ {r} : request'[s] = request[s] BY <1>1, <2>1 DEF Types
  <2>6. ProvidersAreLeaves' BY <1>1, <2>1, <2>4, <2>5 DEF ProvidersAreLeaves
  <2>7. CacheTypes' BY <1>1, <2>1 DEF CacheTypes
  <2>8. CacheIsOfItsDefinition' BY <1>1, <2>1 DEF CacheInv, CacheTypes, CacheIsOfItsDefinition
  <2>9. WalksAreOK' BY <2>1 DEF CacheInv, WalksAreOK
  <2> QED BY <2>6, <2>7, <2>8, <2>9 DEF CacheInv
<1>6. ASSUME CommitDelete(r) PROVE CacheInv'
  <2> DEFINE x == request[r].inventory
  <2>1. /\ life' = [life EXCEPT ![x] = "deleted"] /\ sources' = [sources EXCEPT ![x] = {}]
        /\ request' = Committed(r) /\ resolver' = Disturbed
        /\ UNCHANGED <<revision, cache, overtaken>>
    BY <1>6 DEF CommitDelete
  <2>2. \A p \in Providers : p \in Inventories BY DEF Inventories
  <2>3. \A p \in Providers : life'[p] # "new" /\ sources'[p] = {}
    BY <1>1, <2>1, <2>2 DEF ProvidersAreLeaves, Types
  <2>4. ProvidersAreLeaves' BY <1>1, <2>1, <2>3, OnlyStale DEF ProvidersAreLeaves
  <2>5. DOMAIN resolver' = Resolvers /\ WalksAreOK' BY <2>1, DisturbedKeeps
  <2>6. CacheTypes' BY <1>1, <2>1, <2>5 DEF CacheTypes
  <2> QED BY <2>1, <2>4, <2>5, <2>6, SameCache DEF CacheInv
<1>7. ASSUME LoseRequest(r) PROVE CacheInv'
  <2>1. /\ request' = [request EXCEPT ![r] = Idle]
        /\ UNCHANGED <<life, sources, revision, cache, resolver, overtaken>>
    BY <1>7 DEF LoseRequest
  <2>2. \A s \in Requests : request'[s] = IF s = r THEN Idle ELSE request[s] BY <1>1, <2>1 DEF Types
  <2>3. ProvidersAreLeaves' BY <1>1, <2>1, <2>2 DEF ProvidersAreLeaves
  <2> QED BY <1>2, <2>1, <2>3
<1> QED BY <1>3, <1>4, <1>5, <1>6, <1>7, CommitSaveKeepsCaches DEF Save

LEMMA StepKeepsCaches == IInv /\ CacheInv /\ [Next]_vars => CacheInv'
<1> SUFFICES ASSUME IInv, CacheInv, [Next]_vars PROVE CacheInv' OBVIOUS
<1>1. ASSUME NEW p \in Providers, PurgeCache(p) PROVE CacheInv'
  <2>1. /\ cache' = [cache EXCEPT ![p] = None]
        /\ UNCHANGED <<life, sources, revision, request, resolver, overtaken>>
    BY <1>1 DEF PurgeCache
  <2> QED BY <2>1 DEF CacheInv, CacheTypes, ProvidersAreLeaves, WalksAreOK, CacheIsOfItsDefinition
<1>2. CASE UNCHANGED vars
  BY <1>2 DEF vars, CacheInv, CacheTypes, ProvidersAreLeaves, WalksAreOK, CacheIsOfItsDefinition
<1> QED BY <1>1, <1>2, SaveKeepsCaches, ResolveKeepsCaches DEF Next

-----------------------------------------------------------------------------
(* Lineages: what each member of a recursion is made of.                   *)

\* A filtered inventory has one source.
OneSource ==
    /\ \A x \in Filters : \A y, z \in sources[x] : y = z
    /\ \A r \in Requests :
          (request[r] # Idle /\ request[r].inventory \in Filters) =>
              \A y, z \in request[r].sources : y = z

\* The members below f have no provider in common, and what f has is of those that
\* it no longer waits for.
FrameOK(f, graph) ==
    /\ f.todo \subseteq graph[f.inventory]
    /\ \A y, z \in graph[f.inventory] : y # z => Leaves(graph, y) \cap Leaves(graph, z) = {}
    /\ \A p \in f.got : \E y \in graph[f.inventory] \ f.todo : p \in Leaves(graph, y)

LineageOK(v, graph) ==
    ~v.disturbed =>
        /\ ~v.twice
        /\ \A y \in Inventories : v.memo[y] \subseteq Leaves(graph, y)
        /\ \A i \in DOMAIN v.stack : FrameOK(v.stack[i], graph)
        /\ \A i \in DOMAIN v.stack :
              i # Len(v.stack) => v.stack[i + 1].inventory \in v.stack[i].todo

ShareInv ==
    /\ OneSource
    /\ \A w \in Resolvers : resolver[w] # NoWalk => LineageOK(resolver[w], sources)

\* What a source is made of its parent is made of.
LEMMA LeavesAbove ==
    ASSUME NEW graph, NEW x \in Inventories, NEW y \in graph[x]
    PROVE  Leaves(graph, y) \subseteq Leaves(graph, x)
BY DEF Leaves, Reaches, Closed

\* An inventory is entered with all of its sources to come.
LEMMA EnteredIsOK ==
    ASSUME Types, ProvidersAreLeaves, OneSource, NEW x \in Inventories,
           x \in Composites => Independent(sources, sources[x])
    PROVE  FrameOK(Entered(x), sources)
<1>1. /\ Entered(x).inventory = x /\ Entered(x).todo = sources[x] /\ Entered(x).got = {}
  BY DEF Entered
<1>2. ASSUME NEW y \in sources[x], NEW z \in sources[x], y # z
      PROVE  Leaves(sources, y) \cap Leaves(sources, z) = {}
  <2>1. x \notin Providers BY <1>2 DEF ProvidersAreLeaves
  <2>2. x \notin Filters BY <1>2 DEF OneSource
  <2>3. x \in Composites BY <2>1, <2>2 DEF Inventories
  <2> QED BY <1>2, <2>3 DEF Independent
<1> QED BY <1>1, <1>2 DEF FrameOK

\* What is joined comes of a member that was waited for, so it is new.
LEMMA JoinKeepsLineage ==
    ASSUME NEW v, WalkOK(v), NEW graph, NEW y, NEW D \in SUBSET Inventories,
           LineageOK(v, graph), ~v.disturbed,
           y \in v.stack[Len(v.stack)].todo, D \subseteq Leaves(graph, y)
    PROVE  LineageOK(Joined(v, y, D), graph)
<1> DEFINE u == Joined(v, y, D)
           k == Len(v.stack)
<1> HIDE DEF u
<1>1. v \in Walk /\ v.stack # <<>> BY DEF WalkOK
<1>2. AfterJoin(u, v, y, D) BY <1>1, JoinedIs DEF u
<1>3. k \in Nat \ {0} /\ DOMAIN v.stack = 1..k /\ k \in DOMAIN v.stack BY StackFacts
<1>4. /\ ~v.twice
      /\ \A z \in Inventories : v.memo[z] \subseteq Leaves(graph, z)
      /\ \A i \in DOMAIN v.stack : FrameOK(v.stack[i], graph)
      /\ \A i \in DOMAIN v.stack : i # k => v.stack[i + 1].inventory \in v.stack[i].todo
  BY DEF LineageOK
<1> DEFINE f == v.stack[k]
           g == u.stack[k]
<1>5. FrameOK(f, graph) BY <1>3, <1>4
<1>6. g.inventory = f.inventory /\ g.todo = f.todo \ {y} /\ g.got = f.got \cup D
  BY <1>2, <1>3 DEF AfterJoin
<1>7. f.got \cap D = {}
  <2> SUFFICES ASSUME NEW p \in f.got, p \in D PROVE FALSE OBVIOUS
  <2>1. PICK z \in graph[f.inventory] \ f.todo : p \in Leaves(graph, z) BY <1>5 DEF FrameOK
  <2>2. y # z /\ y \in graph[f.inventory] /\ p \in Leaves(graph, y) BY <1>5, <2>1 DEF FrameOK
  <2> QED BY <1>5, <2>1, <2>2 DEF FrameOK
<1>8. FrameOK(g, graph)
  <2>1. \A p \in g.got : \E z \in graph[g.inventory] \ g.todo : p \in Leaves(graph, z)
    <3> SUFFICES ASSUME NEW p \in g.got
                 PROVE  \E z \in graph[g.inventory] \ g.todo : p \in Leaves(graph, z)
      OBVIOUS
    <3>1. CASE p \in f.got BY <1>5, <1>6, <3>1 DEF FrameOK
    <3>2. CASE p \in D BY <1>5, <1>6, <3>2 DEF FrameOK
    <3> QED BY <1>6, <3>1, <3>2
  <2> QED BY <1>5, <1>6, <2>1 DEF FrameOK
<1>9. ~u.twice BY <1>2, <1>4, <1>7 DEF AfterJoin
<1>10. \A z \in Inventories : u.memo[z] \subseteq Leaves(graph, z) BY <1>2, <1>4 DEF AfterJoin
<1>11. \A i \in DOMAIN u.stack : FrameOK(u.stack[i], graph)
  <2> SUFFICES ASSUME NEW i \in DOMAIN v.stack PROVE FrameOK(u.stack[i], graph)
    BY <1>2 DEF AfterJoin
  <2>1. CASE i = k BY <1>8, <2>1
  <2>2. CASE i # k BY <1>2, <1>4, <2>2 DEF AfterJoin
  <2> QED BY <2>1, <2>2
<1>12. ASSUME NEW i \in DOMAIN u.stack, i # Len(u.stack)
       PROVE  u.stack[i + 1].inventory \in u.stack[i].todo
  <2>1. i \in 1..k /\ i # k /\ i + 1 \in DOMAIN v.stack BY <1>2, <1>3, <1>12 DEF AfterJoin
  <2>2. u.stack[i] = v.stack[i] /\ u.stack[i + 1].inventory = v.stack[i + 1].inventory
    BY <1>2, <1>3, <2>1 DEF AfterJoin
  <2> QED BY <1>3, <1>4, <2>1, <2>2
<1>13. LineageOK(u, graph) BY <1>9, <1>10, <1>11, <1>12 DEF LineageOK
<1> QED BY <1>13 DEF u

LEMMA VisitKeepsLineage ==
    ASSUME Types, ProvidersAreLeaves, OneSource, NEW v, WalkOK(v), LineageOK(v, sources),
           NEW y \in Inventories, y \in Last(v.stack).todo, MayEnter(v, y)
    PROVE  LineageOK([v EXCEPT !.stack = Append(v.stack, Entered(y))], sources)
<1> DEFINE k == Len(v.stack)
           u == [v EXCEPT !.stack = Append(v.stack, Entered(y))]
<1>1. /\ k \in Nat \ {0} /\ DOMAIN v.stack = 1..k /\ v.stack \in Seq(Frame) /\ v \in Walk
  BY StackFacts DEF WalkOK, Walk
<1>2. Entered(y) \in Frame /\ Entered(y).inventory = y BY DEF Entered, Frame, Types
<1>3. /\ DOMAIN u.stack = 1..(k + 1) /\ Len(u.stack) = k + 1
      /\ \A i \in 1..k : u.stack[i] = v.stack[i]
      /\ u.stack[k + 1] = Entered(y)
      /\ u.memo = v.memo /\ u.twice = v.twice /\ u.disturbed = v.disturbed
  BY <1>1, <1>2 DEF Walk
<1> HIDE DEF u
<1> SUFFICES ASSUME ~v.disturbed PROVE LineageOK(u, sources) BY <1>3 DEF LineageOK, u
<1>4. /\ ~v.twice
      /\ \A z \in Inventories : v.memo[z] \subseteq Leaves(sources, z)
      /\ \A i \in DOMAIN v.stack : FrameOK(v.stack[i], sources)
      /\ \A i \in DOMAIN v.stack : i # k => v.stack[i + 1].inventory \in v.stack[i].todo
  BY DEF LineageOK
<1>5. FrameOK(Entered(y), sources) BY EnteredIsOK DEF MayEnter
<1>6. y \in v.stack[k].todo BY DEF Last
<1> HIDE DEF k
<1>7. ASSUME NEW i \in 1..(k + 1) PROVE FrameOK(u.stack[i], sources)
  <2>1. CASE i \in 1..k BY <1>1, <1>3, <1>4, <2>1
  <2>2. CASE i = k + 1 BY <1>3, <1>5, <2>2
  <2> QED BY <1>1, <2>1, <2>2
<1>8. ASSUME NEW i \in 1..(k + 1), i # k + 1
      PROVE  u.stack[i + 1].inventory \in u.stack[i].todo
  <2>1. i \in 1..k BY <1>1, <1>8
  <2>2. CASE i = k BY <1>1, <1>2, <1>3, <1>6, <2>2
  <2>3. CASE i # k
    <3>1. i + 1 \in 1..k BY <1>1, <2>1, <2>3
    <3>2. v.stack[i + 1].inventory \in v.stack[i].todo BY <1>1, <1>4, <2>1, <2>3
    <3> QED BY <1>3, <2>1, <3>1, <3>2
  <2> QED BY <2>2, <2>3
<1> QED BY <1>3, <1>4, <1>7, <1>8 DEF LineageOK

\* What is done was waited for by its parent.
LEMMA PopKeepsLineage ==
    ASSUME NEW v, WalkOK(v), Len(v.stack) # 1, NEW graph, LineageOK(v, graph), ~v.disturbed,
           NEW D \in SUBSET Inventories, D \subseteq Leaves(graph, Top(v)),
           NEW memo,
           memo = IF v.policy = "never" THEN v.memo ELSE [v.memo EXCEPT ![Top(v)] = D],
           NEW known \in [Providers -> Nat]
    PROVE  LET u == [v EXCEPT !.stack = Front(v.stack), !.at = "walk", !.memo = memo,
                              !.known = known]
           IN  LineageOK(u, graph) /\ ~u.disturbed /\ Top(v) \in u.stack[Len(u.stack)].todo
<1> DEFINE k == Len(v.stack)
           u == [v EXCEPT !.stack = Front(v.stack), !.at = "walk", !.memo = memo, !.known = known]
<1> HIDE DEF u
<1>1. v \in Walk /\ Top(v) \in Inventories BY StackFacts DEF WalkOK
<1>2. memo \in [Inventories -> SUBSET Inventories] BY <1>1 DEF Walk
<1>3. AfterPop(u, v, memo, known) BY <1>2, RestIs DEF u
<1>4. /\ k \in Nat /\ k > 1 /\ DOMAIN v.stack = 1..k
      /\ u.memo = memo /\ u.twice = v.twice /\ u.disturbed = v.disturbed
      /\ DOMAIN u.stack = 1..(k - 1) /\ Len(u.stack) = k - 1
      /\ \A i \in 1..(k - 1) : u.stack[i] = v.stack[i]
  BY <1>3 DEF AfterPop
<1>5. /\ ~v.twice
      /\ \A y \in Inventories : v.memo[y] \subseteq Leaves(graph, y)
      /\ \A i \in DOMAIN v.stack : FrameOK(v.stack[i], graph)
      /\ \A i \in DOMAIN v.stack : i # k => v.stack[i + 1].inventory \in v.stack[i].todo
  BY DEF LineageOK
<1>6. \A y \in Inventories : memo[y] \subseteq Leaves(graph, y) BY <1>1, <1>5 DEF Walk
<1>7. v.stack[k].inventory = Top(v) BY DEF Top
<1> HIDE DEF k
<1>8. \A i \in 1..(k - 1) : i \in 1..k /\ i # k BY <1>4
<1>9. \A i \in 1..(k - 1) : FrameOK(u.stack[i], graph) BY <1>4, <1>5, <1>8
<1>10. ASSUME NEW i \in 1..(k - 1), i # k - 1
       PROVE  u.stack[i + 1].inventory \in u.stack[i].todo
  <2>1. i + 1 \in 1..(k - 1) BY <1>4, <1>10
  <2>2. u.stack[i] = v.stack[i] /\ u.stack[i + 1] = v.stack[i + 1] BY <1>4, <2>1
  <2> QED BY <1>4, <1>5, <1>8, <2>2
<1>11. Top(v) \in u.stack[k - 1].todo
  <2>1. k - 1 \in 1..(k - 1) /\ (k - 1) + 1 = k BY <1>4
  <2>2. v.stack[(k - 1) + 1].inventory \in v.stack[k - 1].todo BY <1>4, <1>5, <1>8, <2>1
  <2> QED BY <1>4, <1>7, <2>1, <2>2
<1>12. LineageOK(u, graph) BY <1>4, <1>5, <1>6, <1>9, <1>10 DEF LineageOK
<1>13. ~u.disturbed /\ Top(v) \in u.stack[Len(u.stack)].todo BY <1>4, <1>11
<1> QED BY <1>12, <1>13 DEF u

-----------------------------------------------------------------------------
LEMMA InitShares == Init => ShareInv
BY InitialAssumption DEF Init, ShareInv, OneSource

LEMMA OneWalkShares ==
    ASSUME CacheInv, ShareInv, UNCHANGED <<sources, request>>,
           NEW w \in Resolvers, NEW u, resolver' = [resolver EXCEPT ![w] = u],
           u # NoWalk => LineageOK(u, sources)
    PROVE  ShareInv'
<1>1. OneSource' BY DEF ShareInv, OneSource
<1>2. \A s \in Resolvers : resolver'[s] # NoWalk => LineageOK(resolver'[s], sources)
  <2> TAKE s \in Resolvers
  <2>1. resolver'[s] = IF s = w THEN u ELSE resolver[s] BY DEF CacheInv, CacheTypes
  <2> QED BY <2>1 DEF ShareInv
<1> QED BY <1>1, <1>2 DEF ShareInv

LEMMA ResolveShares ==
    ASSUME IInv, CacheInv, ShareInv, NEW w \in Resolvers, Resolve(w)
    PROVE  ShareInv'
<1> DEFINE v == resolver[w]
<1>1. CacheTypes /\ ProvidersAreLeaves /\ Types /\ OneSource BY DEF CacheInv, IInv, ShareInv
<1>2. v # NoWalk => WalkOK(v) /\ LineageOK(v, sources) BY DEF CacheInv, WalksAreOK, ShareInv
<1>3. ASSUME NEW x \in Inventories, NEW policy \in {"always", "if_missing", "never"},
             BeginResolution(w, x, policy)
      PROVE  ShareInv'
  <2> DEFINE u == [policy |-> policy, stack |-> <<Entered(x)>>, at |-> "walk",
                   known |-> revision, read |-> None,
                   memo |-> [y \in Inventories |-> {}], twice |-> FALSE, disturbed |-> FALSE]
  <2>1. /\ resolver' = [resolver EXCEPT ![w] = u] /\ UNCHANGED <<sources, request>>
        /\ x \in Composites => Independent(sources, sources[x])
    BY <1>3 DEF BeginResolution, MayEnter
  <2>2. FrameOK(Entered(x), sources) BY <1>1, <2>1, EnteredIsOK
  <2>3. LineageOK(u, sources)
    <3>1. /\ DOMAIN u.stack = {1} /\ u.stack[1] = Entered(x) /\ Len(u.stack) = 1
          /\ ~u.twice /\ u.memo = [y \in Inventories |-> {}]
      OBVIOUS
    <3> HIDE DEF u
    <3> QED BY <2>2, <3>1 DEF LineageOK
  <2> HIDE DEF u
  <2> QED BY <2>1, <2>3, OneWalkShares
<1>4. ASSUME NEW y \in Inventories, Visit(w, y) PROVE ShareInv'
  <2> DEFINE u == [v EXCEPT !.stack = Append(v.stack, Entered(y))]
  <2>1. /\ v # NoWalk /\ y \in Last(v.stack).todo /\ MayEnter(v, y)
        /\ resolver' = [resolver EXCEPT ![w] = u] /\ UNCHANGED <<sources, request>>
    BY <1>1, <1>4 DEF Visit, CacheTypes
  <2>2. LineageOK(u, sources)
    <3> HIDE DEF v
    <3> QED BY <1>1, <1>2, <2>1, VisitKeepsLineage
  <2> HIDE DEF u
  <2> QED BY <2>1, <2>2, OneWalkShares
<1>5. ASSUME NEW y \in Inventories, Recall(w, y) PROVE ShareInv'
  <2> DEFINE u == Joined(v, y, v.memo[y])
  <2>1. /\ v # NoWalk /\ resolver' = [resolver EXCEPT ![w] = u] /\ UNCHANGED <<sources, request>>
        /\ y \in v.stack[Len(v.stack)].todo
    BY <1>1, <1>5 DEF Recall, CacheTypes, Last
  <2>2. WalkOK(v) /\ LineageOK(v, sources) BY <1>2, <2>1
  <2>3. v \in Walk /\ v.stack # <<>> /\ v.memo[y] \in SUBSET Inventories BY <2>2 DEF WalkOK, Walk
  <2> HIDE DEF v
  <2>4. CASE v.disturbed
    <3>1. AfterJoin(u, v, y, v.memo[y]) BY <2>3, JoinedIs
    <3> HIDE DEF u
    <3>2. LineageOK(u, sources) BY <2>4, <3>1 DEF LineageOK, AfterJoin
    <3> QED BY <2>1, <3>2, OneWalkShares
  <2>5. CASE ~v.disturbed
    <3>1. v.memo[y] \subseteq Leaves(sources, y) BY <2>2, <2>5 DEF LineageOK
    <3>2. LineageOK(u, sources) BY <2>1, <2>2, <2>3, <2>5, <3>1, JoinKeepsLineage
    <3> HIDE DEF u
    <3> QED BY <2>1, <3>2, OneWalkShares
  <2> QED BY <2>4, <2>5
<1>6. ASSUME NEW u, resolver' = [resolver EXCEPT ![w] = u], UNCHANGED <<sources, request>>,
             v # NoWalk, u.stack = v.stack, u.memo = v.memo, u.twice = v.twice,
             u.disturbed = v.disturbed
      PROVE  ShareInv'
  <2>1. LineageOK(u, sources) BY <1>2, <1>6 DEF LineageOK
  <2> QED BY <1>6, <2>1, OneWalkShares
<1>7. ASSUME Fetch(w) PROVE ShareInv'
  <2>1. PICK n : resolver' = [resolver EXCEPT ![w].at = "fetched", ![w].read = n]
    BY <1>7 DEF Fetch
  <2> DEFINE u == [v EXCEPT !.at = "fetched", !.read = n]
  <2>2. resolver' = [resolver EXCEPT ![w] = u] BY <1>1, <2>1 DEF CacheTypes
  <2>3. v # NoWalk /\ UNCHANGED <<sources, request>> BY <1>7 DEF Fetch
  <2>4. v \in Walk BY <1>2, <2>3 DEF WalkOK
  <2>5. u.stack = v.stack /\ u.memo = v.memo /\ u.twice = v.twice /\ u.disturbed = v.disturbed
    BY <2>4 DEF Walk
  <2> HIDE DEF u
  <2> QED BY <1>6, <2>2, <2>3, <2>5
<1>8. ASSUME WriteCache(w) PROVE ShareInv'
  <2> DEFINE u == [v EXCEPT !.at = "written", !.read = None]
  <2>1. /\ v # NoWalk /\ resolver' = [resolver EXCEPT ![w] = u] /\ UNCHANGED <<sources, request>>
    BY <1>1, <1>8 DEF WriteCache, CacheTypes
  <2>2. v \in Walk BY <1>2, <2>1 DEF WalkOK
  <2>3. u.stack = v.stack /\ u.memo = v.memo /\ u.twice = v.twice /\ u.disturbed = v.disturbed
    BY <2>2 DEF Walk
  <2> HIDE DEF u
  <2> QED BY <1>6, <2>1, <2>3
<1>9. ASSUME Return(w) PROVE ShareInv'
  <2> DEFINE top == Last(v.stack)
             D == IF top.inventory \in Providers THEN {top.inventory} ELSE top.got
             memo == IF v.policy = "never" THEN v.memo ELSE [v.memo EXCEPT ![top.inventory] = D]
             records == v.policy = "always" \/ v.at = "written"
             known == IF records THEN revision ELSE v.known
             rest == [v EXCEPT !.stack = Front(v.stack), !.at = "walk", !.memo = memo,
                               !.known = known]
             u == IF Len(v.stack) = 1 THEN NoWalk ELSE Joined(rest, top.inventory, D)
  <2>1. v # NoWalk /\ resolver' = [resolver EXCEPT ![w] = u] /\ UNCHANGED <<sources, request>>
    BY <1>9 DEF Return
  <2>2. WalkOK(v) /\ LineageOK(v, sources) /\ v \in Walk BY <1>2, <2>1 DEF WalkOK
  <2>3. /\ top \in Frame /\ top.inventory = Top(v) /\ Top(v) \in Inventories
        /\ Len(v.stack) \in DOMAIN v.stack
    BY <2>2, StackFacts DEF Last, Top
  <2>4. D \in SUBSET Inventories /\ (Top(v) \in Providers => D = {Top(v)})
    BY <2>3 DEF Frame
  <2>5. ASSUME ~v.disturbed PROVE D \subseteq Leaves(sources, Top(v))
    <3>1. FrameOK(top, sources) BY <2>2, <2>3, <2>5 DEF LineageOK, Last
    <3>2. CASE Top(v) \in Providers
      <4>1. sources[Top(v)] = {} BY <1>1, <3>2 DEF ProvidersAreLeaves
      <4>2. Top(v) \in Leaves(sources, Top(v)) BY <2>3, <4>1 DEF Leaves, Reaches
      <4> QED BY <2>4, <3>2, <4>2
    <3>3. CASE Top(v) \notin Providers
      <4>1. D = top.got BY <2>3, <3>3
      <4>2. \A p \in top.got : \E y \in sources[Top(v)] : p \in Leaves(sources, y)
        BY <2>3, <3>1 DEF FrameOK
      <4> QED BY <2>3, <4>1, <4>2, LeavesAbove
    <3> QED BY <3>2, <3>3
  <2>6. memo = IF v.policy = "never" THEN v.memo ELSE [v.memo EXCEPT ![Top(v)] = D]
    BY <2>3
  <2>7. known \in [Providers -> Nat] /\ records \in BOOLEAN
    BY <1>1, <2>2 DEF Walk, CacheTypes
  <2>8. ASSUME Len(v.stack) # 1 PROVE LineageOK(u, sources)
    <3>1. u = Joined(rest, Top(v), D) BY <2>3, <2>8
    <3>2. WalkOK(rest)
      <4> HIDE DEF v, memo, records, D
      <4> QED BY <1>1, <2>2, <2>4, <2>6, <2>7, <2>8, RestIsOK
    <3>3. rest.disturbed = v.disturbed BY <2>2 DEF Walk
    <3>4. rest \in Walk /\ rest.stack # <<>> BY <3>2 DEF WalkOK
    <3>5. CASE v.disturbed
      <4> HIDE DEF u, rest, D
      <4>1. AfterJoin(u, rest, Top(v), D) BY <2>4, <3>1, <3>4, JoinedIs
      <4> QED BY <3>3, <3>5, <4>1 DEF LineageOK, AfterJoin
    <3>6. CASE ~v.disturbed
      <4>1. /\ LineageOK(rest, sources) /\ ~rest.disturbed
            /\ Top(v) \in rest.stack[Len(rest.stack)].todo
        <5> HIDE DEF v, memo, known, D
        <5> QED BY <2>2, <2>4, <2>5, <2>6, <2>7, <2>8, <3>6, PopKeepsLineage
      <4> HIDE DEF u, rest, D
      <4> QED BY <2>4, <2>5, <3>1, <3>2, <3>6, <4>1, JoinKeepsLineage
    <3> QED BY <3>5, <3>6
  <2>9. u # NoWalk => Len(v.stack) # 1 OBVIOUS
  <2> HIDE DEF u
  <2> QED BY <2>1, <2>8, <2>9, OneWalkShares
<1>10. ASSUME Fail(w) PROVE ShareInv'
  <2>1. resolver' = [resolver EXCEPT ![w] = NoWalk] /\ UNCHANGED <<sources, request>>
    BY <1>10 DEF Fail
  <2> QED BY <2>1, OneWalkShares
<1> QED BY <1>3, <1>4, <1>5, <1>7, <1>8, <1>9, <1>10 DEF Resolve

\* After a commit every resolution under way counts as disturbed.
LEMMA CommitShares ==
    ASSUME CacheInv, resolver' = Disturbed, OneSource'
    PROVE  ShareInv'
<1> SUFFICES ASSUME NEW w \in Resolvers, resolver'[w] # NoWalk
             PROVE  LineageOK(resolver'[w], sources')
  BY DEF ShareInv
<1> DEFINE v == resolver[w]
           u == [v EXCEPT !.disturbed = TRUE]
<1>1. v # NoWalk /\ resolver'[w] = u BY DEF Disturbed
<1>2. v \in Walk BY <1>1 DEF CacheInv, WalksAreOK, WalkOK
<1>3. u.disturbed BY <1>2 DEF Walk
<1> HIDE DEF u
<1> QED BY <1>1, <1>3 DEF LineageOK

LEMMA SaveShares ==
    ASSUME IInv, CacheInv, ShareInv, NEW r \in Requests, Save(r)
    PROVE  ShareInv'
<1>1. Types /\ OneSource BY DEF IInv, ShareInv
<1>2. ASSUME UNCHANGED <<sources, resolver>>, OneSource' PROVE ShareInv'
  BY <1>2 DEF ShareInv
<1>3. ASSUME NEW x \in Inventories, NEW S \in SourceLists(x), NEW via \in {"form", "api"},
             CheckSave(r, x, S, via)
      PROVE  ShareInv'
  <2> DEFINE q == [op |-> IF life[x] = "new" THEN "create" ELSE "change", via |-> via,
                   inventory |-> x, sources |-> S, cleared |-> FALSE, fresh |-> TRUE]
  <2>1. request' = [request EXCEPT ![r] = q] /\ UNCHANGED <<sources, resolver>>
    BY <1>3 DEF CheckSave
  <2>2. x \in Filters => \A y, z \in S : y = z
    <3> SUFFICES ASSUME x \in Filters PROVE \A y, z \in S : y = z OBVIOUS
    <3>1. S \in SUBSET Inventories /\ Cardinality(S) = 1
      BY TypesAssumption DEF SourceLists, Live
    <3>2. IsFiniteSet(S) BY <3>1, TypesAssumption, FS_Subset
    <3>3. \E y : S = {y} BY <3>1, <3>2, FS_Singleton
    <3> QED BY <3>3
  <2>3. \A s \in Requests : request'[s] = IF s = r THEN q ELSE request[s] BY <1>1, <2>1 DEF Types
  <2>4. OneSource' BY <1>1, <2>1, <2>2, <2>3 DEF OneSource
  <2> QED BY <1>2, <2>1, <2>4
<1>4. ASSUME NEW x \in Inventories, CheckDelete(r, x) PROVE ShareInv'
  <2> DEFINE q == [op |-> "delete", via |-> "form", inventory |-> x, sources |-> {},
                   cleared |-> FALSE, fresh |-> TRUE]
  <2>1. request' = [request EXCEPT ![r] = q] /\ UNCHANGED <<sources, resolver>>
    BY <1>4 DEF CheckDelete
  <2>2. \A s \in Requests : request'[s] = IF s = r THEN q ELSE request[s] BY <1>1, <2>1 DEF Types
  <2>3. OneSource' BY <1>1, <2>1, <2>2 DEF OneSource
  <2> QED BY <1>2, <2>1, <2>3
<1>5. ASSUME DeleteCache(r) PROVE ShareInv'
  <2>1. /\ request' = [request EXCEPT ![r].cleared = TRUE] /\ request[r] # Idle
        /\ UNCHANGED <<sources, resolver>>
    BY <1>5 DEF DeleteCache
  <2>2. request[r] \in Pending BY <1>1, <2>1 DEF Types
  <2>3. request'[r] = [request[r] EXCEPT !.cleared = TRUE] BY <1>1, <2>1 DEF Types
  <2>4. request'[r].inventory = request[r].inventory /\ request'[r].sources = request[r].sources
    BY <2>2, <2>3 DEF Pending
  <2>5. \A s \in Requests \ {r} : request'[s] = request[s] BY <1>1, <2>1 DEF Types
  <2>6. OneSource' BY <1>1, <2>1, <2>4, <2>5 DEF OneSource
  <2> QED BY <1>2, <2>1, <2>6
<1>6. ASSUME NEW S \in SUBSET Inventories, NEW x \in Inventories,
             x \in Filters => \A y, z \in S : y = z,
             sources' = [sources EXCEPT ![x] = S], request' = Committed(r), resolver' = Disturbed
      PROVE  ShareInv'
  <2>1. \A y \in Inventories : sources'[y] = IF y = x THEN S ELSE sources[y]
    BY <1>1, <1>6 DEF Types
  <2>2. \A y \in Filters : y \in Inventories BY DEF Inventories
  <2>3. \A y \in Filters : \A z, t \in sources'[y] : z = t
    BY <1>1, <1>6, <2>1, <2>2 DEF OneSource
  <2>4. \A q \in Requests : request'[q] # Idle =>
           /\ request[q] # Idle /\ request'[q].inventory = request[q].inventory
           /\ request'[q].sources = request[q].sources
    BY <1>1, <1>6, OnlyStale
  <2>5. OneSource' BY <1>1, <2>3, <2>4 DEF OneSource
  <2> QED BY <1>6, <2>5, CommitShares
<1>7. ASSUME CommitSave(r) \/ CommitDelete(r) PROVE ShareInv'
  <2> DEFINE q == request[r]
  <2>1. q # Idle /\ q \in Pending BY <1>1, <1>7 DEF CommitSave, CommitDelete, Types
  <2>2. q.inventory \in Inventories /\ q.sources \in SUBSET Inventories BY <2>1 DEF Pending
  <2>3. \E S \in {q.sources, {}} :
            /\ sources' = [sources EXCEPT ![q.inventory] = S]
            /\ request' = Committed(r) /\ resolver' = Disturbed
    BY <1>7 DEF CommitSave, CommitDelete
  <2>4. PICK S \in {q.sources, {}} :
            /\ sources' = [sources EXCEPT ![q.inventory] = S]
            /\ request' = Committed(r) /\ resolver' = Disturbed
    BY <2>3
  <2>5. q.inventory \in Filters => \A y, z \in S : y = z BY <1>1, <2>1 DEF OneSource
  <2> HIDE DEF q
  <2>6. S \in SUBSET Inventories BY <2>2
  <2> QED BY <1>6, <2>2, <2>4, <2>5, <2>6
<1>8. ASSUME LoseRequest(r) PROVE ShareInv'
  <2>1. request' = [request EXCEPT ![r] = Idle] /\ UNCHANGED <<sources, resolver>>
    BY <1>8 DEF LoseRequest
  <2>2. \A s \in Requests : request'[s] = IF s = r THEN Idle ELSE request[s] BY <1>1, <2>1 DEF Types
  <2>3. OneSource' BY <1>1, <2>1, <2>2 DEF OneSource
  <2> QED BY <1>2, <2>1, <2>3
<1> QED BY <1>3, <1>4, <1>5, <1>7, <1>8 DEF Save

LEMMA StepShares == IInv /\ CacheInv /\ ShareInv /\ [Next]_vars => ShareInv'
<1> SUFFICES ASSUME IInv, CacheInv, ShareInv, [Next]_vars PROVE ShareInv' OBVIOUS
<1>1. ASSUME UNCHANGED <<sources, request, resolver>> PROVE ShareInv'
  BY <1>1 DEF ShareInv, OneSource
<1> QED BY <1>1, SaveShares, ResolveShares DEF Next, PurgeCache, vars

\* The induction behind the two theorems that follow: beside IInv, what a
\* resolution has loaded of the providers it may still ask, and of which members
\* what it has collected comes.
THEOREM ResolutionsInvariant == Spec => [](CacheInv /\ ShareInv)
BY InitHasCacheInv, StepKeepsCaches, InitShares, StepShares, InventoriesInvariant, PTL DEF Spec

\* A cache is of the definition that its provider has, for any number of requests
\* and resolutions, unless the definition was changed under a resolution that may
\* fetch from it, or by the REST API over a cache (write_inventory_cache,
\* inventory_edit, configure_inventory).
THEOREM CachesBelongToDefinitions == Spec => []CacheIsOfItsDefinition
<1>1. CacheInv => CacheIsOfItsDefinition BY DEF CacheInv
<1> QED BY <1>1, ResolutionsInvariant, PTL

\* No composite gets the hosts of a provider twice, for any graph of inventories,
\* although only the form asks whether members are independent: each resolution
\* asks again, and a definition that changes meanwhile is the only way around it
\* (validate_composite_source_lineages).
THEOREM ProvidersAreMergedOnce == Spec => []NoProviderTwice
<1>1. ShareInv => NoProviderTwice BY DEF ShareInv, LineageOK, NoProviderTwice
<1> QED BY <1>1, ResolutionsInvariant, PTL

=============================================================================
