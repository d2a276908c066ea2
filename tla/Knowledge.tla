----------------------------- MODULE Knowledge -----------------------------
(***************************************************************************)
(* The knowledge an agent is given: the frozen packs on disk, the sources  *)
(* that answer a need, what is retrieved before the first turn and after   *)
(* each validation failure, how it is selected under the byte budget, how  *)
(* the context of a provider turn is assembled, and the traces that say    *)
(* what each turn was given.                                               *)
(*                                                                         *)
(* A record is a member of Records, described by Info; the text of a       *)
(* record, of a query and of an environment field is a value compared for  *)
(* equality, and a rendered item is its size.  Every derived need is       *)
(* version sensitive, so a source of UNKNOWN compatibility is skipped as   *)
(* an INCOMPATIBLE one is.  Every source of the program stamps its items   *)
(* with the environment of the need and with metadata of its own, so the   *)
(* filters on leakage markers and on an item's environment let them pass.  *)
(* Sources fail by being skipped, so statuses and errors are left out.     *)
(*                                                                         *)
(* Two programs run the agent: the product's application, and a benchmark, *)
(* which has one source, asks it itself and keeps no progress ledger.      *)
(***************************************************************************)
EXTENDS Integers, SequencesExt, FiniteSetsExt

CONSTANTS
    Records,        \* what the three source families publish
    Info,           \* what is known of a record: see InfoType
    Versions,       \* contents upstream may hold when a pack is materialized
    Fields,         \* the fields of an environment
    Unset,          \* the value of a field an environment leaves open
    PackEnvs,       \* environments a pack is materialized for
    RunEnvs,        \* environments a task's contract may fix
    Pins,           \* [Families -> the environment a live source serves]
    Preloaded,      \* the live sources that can answer offline from the start
    Places,         \* places a pack may be stored at
    NoPack,         \* nothing is stored there; the start pins nothing
    Services,       \* sequences of live sources an application may be given
    PreCode,        \* sequences of needs derived from a task before coding
    Failures,       \* [signature, needs] of the validation failures
    Surroundings,   \* what else a turn's context may hold: see Others
    Damaged,        \* the records whose file may be lost or changed
    MaxCandidates,  \* answers kept of a pack or of a ranked retrieval
    MaxItems,       \* items injected for one need
    KnowledgeBytes, \* the budget of all knowledge in a turn
    ContextBytes,   \* the limit of a turn's context
    MaxTurns,       \* bound of this model on the turns of a run
    MaxWrites       \* bound of this model on the changes to the store

Families == {"docs", "api", "yarn"}

VARIABLES
    store,        \* the packs on disk
    published,    \* the identities of the packs ever materialized
    writes,       \* changes to the store so far, for the bound
    phase,        \* where the application and its run stand
    host,         \* the program that runs the agent
    pin,          \* the pack identity the operator asked for, or NoPack
    loaded,       \* the pack in memory, or NoPack
    service,      \* the sources of the KnowledgeService, in order
    held,         \* the live sources with their documents in memory
    env,          \* the environment of the run
    enabled,      \* whether the run's Brain is on
    external,     \* retrievals made before the first turn
    repairs,      \* ranked retrievals made for failures
    cycle,        \* the failure signatures already prepared for
    current,      \* needs of the last failure, or of none
    turn,         \* provider turns so far
    context,      \* what was last built: knowledge and the delivered items
    traces,       \* last_knowledge_traces of the context manager
    payloads,     \* the trace payloads on disk
    ledger,       \* knowledge_correlation in memory
    saved,        \* knowledge_correlation in the run state on disk
    sent          \* the knowledge every provider request carried

disk    == <<store, published, writes>>
product == <<host, pin, loaded, service, held>>
task    == <<env, enabled, external>>
repair  == <<repairs, cycle, current>>
trace   == <<payloads, ledger, saved>>
knowledgeVars == <<disk, phase, product, task, repair, turn, context, traces,
                   trace, sent>>

-----------------------------------------------------------------------------
(* Packs *)

\* An open field of the expected environment accepts any value.
EnvironmentMatches(expected, actual) ==
    \A f \in Fields : expected[f] \in {Unset, actual[f]}

\* The identity covers the environment and the inventory, not the state.
Identity(p) == [env |-> p.env, inventory |-> p.inventory]

\* The integrity check of a pack: the manifest declares what is stored.
Verified(p) == p.records = p.inventory

FrozenPack(e, v) ==
    [env |-> e, state |-> "FROZEN", inventory |-> Records \X {v},
     records |-> Records \X {v}]

\* The three families are materialized for one environment, composed,
\* verified, frozen and written in one rename to a path that is free.
Materialize(path, e, v) ==
    /\ store[path] = NoPack /\ writes < MaxWrites
    /\ \A f \in Families : EnvironmentMatches(Pins[f], e)
    /\ store' = [store EXCEPT ![path] = FrozenPack(e, v)]
    /\ published' = published \cup {Identity(FrozenPack(e, v))}
    /\ writes' = writes + 1
    /\ UNCHANGED <<phase, product, task, repair, turn, context, traces,
                   trace, sent>>

\* A frozen pack is superseded: its next state is written at another path.
Supersede(path, to) ==
    /\ store[path] # NoPack /\ store[to] = NoPack /\ writes < MaxWrites
    /\ Verified(store[path]) /\ store[path].state = "FROZEN"
    /\ store' = [store EXCEPT ![to] = [store[path] EXCEPT !.state = "SUPERSEDED"]]
    /\ writes' = writes + 1
    /\ UNCHANGED <<published, phase, product, task, repair, turn, context,
                   traces, trace, sent>>

\* The directory loses a record, or the record's content changes.
Damage(path, r, v) ==
    /\ store[path] # NoPack /\ writes < MaxWrites
    /\ \E c \in {{}, {<<r, v>>}} :
         store' = [store EXCEPT ![path].records = {x \in @ : x[1] # r} \cup c]
    /\ writes' = writes + 1
    /\ UNCHANGED <<published, phase, product, task, repair, turn, context,
                   traces, trace, sent>>

\* As if the integrity of the directory were not checked.
FaultyLoad(path, wanted) ==
    /\ store[path] # NoPack
    /\ store[path].state = "FROZEN"
    /\ wanted \in {NoPack, Identity(store[path])}

\* Only a verified FROZEN pack is loaded, of the pinned identity if any.
Load(path, wanted) ==
    /\ store[path] # NoPack
    /\ Verified(store[path])
    /\ store[path].state = "FROZEN"
    /\ wanted \in {NoPack, Identity(store[path])}

Hosts == {"product", "benchmark"}

\* The application starts with a pack, or with a service of live sources; a
\* benchmark has one source or none.
StartWithPack(path, wanted) ==
    /\ phase = "down"
    /\ Load(path, wanted)
    /\ loaded' = store[path]
    /\ pin' = wanted
    /\ service' = <<"pack">> /\ held' = Preloaded
    /\ phase' = "ready"
    /\ UNCHANGED <<disk, host, task, repair, turn, context, traces, trace, sent>>

StartWithService(s) ==
    /\ phase = "down"
    /\ host = "benchmark" => Len(s) <= 1
    /\ loaded' = NoPack
    /\ pin' = NoPack
    /\ service' = s /\ held' = Preloaded
    /\ phase' = "ready"
    /\ UNCHANGED <<disk, host, task, repair, turn, context, traces, trace, sent>>

-----------------------------------------------------------------------------
(* Retrieval *)

\* What a family's records are: kind, conflict key, content, the queries they
\* match, their bytes as the selector estimates them, as rendered, and
\* without content, and the rank of their id.
InfoType == [family : Families, kind : STRING, topic : STRING, text : STRING,
             terms : SUBSET STRING, est : Nat, size : Nat, head : Nat, rank : Nat]

\* A need: of a task or, urgent, of a failure.
NeedType == [name : STRING, urgent : BOOLEAN, kind : STRING, query : STRING]

\* What else a turn tells: so many excerpts, a build log, an artifact, in items
\* that have a size, whole and without content.
Labels == {"policy", "retained", "excerpt", "overview", "structure", "state",
           "builds", "log", "artifact"}
SurroundingType == [excerpts : Nat, built : BOOLEAN, artifact : BOOLEAN,
                    sizes : [Labels -> [size : Nat, head : Nat]]]

\* Only the needs of a failure are urgent.
ASSUME KnowledgeAssumption ==
    /\ DOMAIN Info = Records /\ \A r \in Records : Info[r] \in InfoType
    /\ \A r \in Records : Info[r].head <= Info[r].size
    /\ \A r, s \in Records : Info[r].rank = Info[s].rank => r = s
    /\ Damaged \subseteq Records /\ Preloaded \subseteq Families
    /\ {MaxCandidates, MaxItems, KnowledgeBytes, ContextBytes} \subseteq Nat \ {0}
    /\ MaxTurns \in Nat /\ IsFiniteSet(Records)
    /\ Services \subseteq Seq(Families) /\ PreCode \subseteq Seq(NeedType)
    /\ \A s \in PreCode : \A i \in DOMAIN s : ~s[i].urgent
    /\ \A f \in Failures : f.needs \in Seq(NeedType) /\ \A i \in DOMAIN f.needs : f.needs[i].urgent
    /\ Surroundings \subseteq SurroundingType

Authority(r) == IF Info[r].family = "docs" THEN 1 ELSE 0

SymbolKinds == {"SYMBOL", "API", "VERSION_CHANGE"}

\* Whether a record of the pack is of the kind the need asks for.
RecordMatchesNeed(r, need) ==
    IF need.kind \in {"MAPPING", "SYMBOL", "API"}
    THEN Info[r].kind \in SymbolKinds
    ELSE Info[r].kind = need.kind

SupportedBy == [docs |-> {"CONCEPT", "PATTERN"},
                api  |-> {"API", "SYMBOL", "CAPABILITY"},
                yarn |-> {"SYMBOL", "MAPPING"}]

Matches(r, need) == need.query \in Info[r].terms

\* An item answers a need with the content one source has of a record.
Item(source, r, v) == [source |-> source, id |-> r, version |-> v]

\* The two kinds of retrieval: the plain one, and the ranked one that marks
\* the items in conflict.
Plain(need, items) ==
    [need |-> need, ranked |-> FALSE, conflicted |-> {}, items |-> items]
RankedResult(need, items, conflicted) ==
    [need |-> need, ranked |-> TRUE, conflicted |-> conflicted, items |-> items]

\* The first n of a set: those that fewer than n others come before.
Foremost(items, n, before) ==
    {x \in items : Cardinality({y \in items : <<y, x>> \in before}) < n}

\* A pack offers the records of the kind, those that match the query first.
PackAnswer(need) ==
    LET candidates == {x \in loaded.records : RecordMatchesNeed(x[1], need)}
        items == {Item("pack", x[1], x[2]) : x \in candidates}
        Before(x, y) == IF Matches(x.id, need) # Matches(y.id, need)
                        THEN Matches(x.id, need)
                        ELSE Info[x.id].rank < Info[y.id].rank
    IN Foremost(items, MaxCandidates, {p \in items \X items : Before(p[1], p[2])})

\* A live source offers the records of its family that match the query.
LiveAnswer(source, need) ==
    {Item(source, r, 0) :
        r \in {x \in Records : Info[x].family = source /\ Matches(x, need)}}

\* A live source is compatible with the environment and supports the kind.
CanServe(source, need, e) ==
    /\ source # "pack"
    /\ EnvironmentMatches(Pins[source], e)
    /\ need.kind \in SupportedBy[source]

\* What a source contributes, when the live sources that have their documents
\* are those of able.
Offered(source, need, e, able) ==
    IF source = "pack"
    THEN IF EnvironmentMatches(loaded.env, e) THEN PackAnswer(need) ELSE {}
    ELSE IF CanServe(source, need, e) /\ source \in able
         THEN LiveAnswer(source, need) ELSE {}

\* KnowledgeService.resolve asks every source, offline.
Resolve(need, e) ==
    Plain(need, UNION {Offered(service[i], need, e, held) : i \in DOMAIN service})

\* MinecraftBrain.retrieve asks the one source, which may fetch its documents;
\* offline, only its cache could answer, and every run has a new one.
Retrieve(need, e, offline, able) ==
    Plain(need, IF offline THEN {} ELSE Offered(service[1], need, e, able))

\* The key under which records may contradict each other: the capability
\* live documentation carries, the qualified name of an API class.
Topic(x) == IF x.source = "docs" \/ Info[x.id].family = "api"
            THEN Info[x.id].topic ELSE ""

Contradicts(x, y) == /\ Topic(x) # "" /\ Topic(x) = Topic(y)
                     /\ Info[x.id].text # Info[y.id].text

\* Only live documentation can match exactly, by its capability.
Exact(x, need) == x.source = "docs" /\ Info[x.id].topic = need.query

Preferred(x, y) == \/ Authority(x.id) < Authority(y.id)
                   \/ /\ Authority(x.id) = Authority(y.id)
                      /\ Info[x.id].rank < Info[y.id].rank
Stronger(need, x, y) == IF Exact(x, need) # Exact(y, need) THEN Exact(x, need)
                        ELSE Preferred(x, y)

\* retrieve_ranked over one source: the strongest of the items that match, and
\* those of a topic with contradictory contents marked.
ResolveRanked(source, need, e) ==
    LET matching == {x \in Offered(source, need, e, held) : Exact(x, need) \/ Matches(x.id, need)}
        disputed == {Topic(x) : x \in {y \in matching :
                                          \E z \in matching : Contradicts(y, z)}}
    IN RankedResult(need,
                    Foremost(matching, MaxCandidates,
                             {p \in matching \X matching : Stronger(need, p[1], p[2])}),
                    {x \in matching : Topic(x) \in disputed})

-----------------------------------------------------------------------------
(* Selection *)

\* The items of one retrieval that may be injected: a ranked retrieval loses
\* its conflicts, another one its duplicate contents.
Eligible(result) ==
    IF result.ranked
    THEN result.items \ result.conflicted
    ELSE {x \in result.items :
             \A y \in result.items :
                 Info[y.id].text = Info[x.id].text => ~Preferred(y, x)}

Precedes(result, x, y) ==
    IF result.ranked THEN Stronger(result.need, x, y) ELSE Preferred(x, y)

\* The best of the rest is taken when its estimated bytes fit what is left.
TakeIfFits(best, so) ==
    IF Info[best.id].est <= so.left
    THEN [left  |-> so.left - Info[best.id].est, rest |-> so.rest \ {best},
          items |-> Append(so.items, best)]
    ELSE [left |-> so.left, rest |-> so.rest \ {best}, items |-> so.items]

TakeBest(result, so) ==
    TakeIfFits(CHOOSE x \in so.rest : \A y \in so.rest : ~Precedes(result, y, x), so)

\* Best first, those that fit the budget one after the other.
Select(result, budget) ==
    LET all == Eligible(result)
        walk[k \in 0 .. Cardinality(all)] ==
            IF k = 0 THEN [left |-> budget, rest |-> all, items |-> <<>>]
            ELSE TakeBest(result, walk[k - 1])
    IN walk[Cardinality(all)].items

Bytes(items) == MapThenSumSet(LAMBDA x : Info[x.id].size, items)

First(s, n) == SubSeq(s, 1, Min({n, Len(s)}))

Ids(items) == {x.id : x \in items}

\* What is left of a budget when the items have been rendered.
Spend(budget, items) ==
    LET left[k \in 0 .. Len(items)] ==
            IF k = 0 THEN budget ELSE Max({0, left[k - 1] - Info[items[k].id].size})
    IN left[Len(items)]

\* What became of the items of a need: records are marked INJECTED, context
\* are those that became items of the context.
Trace(need, chosen, kept) ==
    [need |-> need.name, turn |-> 0,
     records |-> Ids(ToSet(chosen)), context |-> Ids(ToSet(kept))]

\* A trace with items in the context is bound to the provider turn.
Bound(t, n) == [t EXCEPT !.turn = IF t.context = {} THEN 0 ELSE n]

\* As if retrievals were served in the order they were made.
FaultyOrdered(inputs) == inputs

Ordered(inputs) ==
    LET Those(urgent) == [i \in DOMAIN inputs |->
                             IF inputs[i].need.urgent = urgent THEN <<inputs[i]>> ELSE <<>>]
    IN FlattenSeq(Those(TRUE) \o Those(FALSE))

Given(need, items) ==
    [i \in DOMAIN items |-> [need |-> need.name, urgent |-> need.urgent, item |-> items[i]]]

\* One retrieval is served with what is left of the budget, and its rendered
\* bytes are used up.
Serve(result, so) ==
    LET chosen == Select(result, so.left)
        kept   == First(chosen, MaxItems)
    IN [left   |-> Spend(so.left, kept),
        chosen |-> Append(so.chosen, chosen),
        kept   |-> Append(so.kept, kept)]

\* The knowledge of a turn: the retrievals for failures first, all of them
\* under one budget.  Every selected item is marked INJECTED, the ones MaxItems
\* cuts included.
Get(inputs) ==
    LET served == Ordered(inputs)
        rounds[k \in 0 .. Len(served)] ==
            IF k = 0
            THEN [left |-> Min({KnowledgeBytes, ContextBytes}), chosen |-> <<>>, kept |-> <<>>]
            ELSE Serve(served[k], rounds[k - 1])
        end == rounds[Len(served)]
    IN [given  |-> FlattenSeq([k \in DOMAIN served |-> Given(served[k].need, end.kept[k])]),
        traces |-> [k \in DOMAIN served |->
                       Trace(served[k].need, end.chosen[k], end.kept[k])]]

-----------------------------------------------------------------------------
(* The context of a turn *)

\* The other items of a turn, in surroundings w: what the gate asks of the
\* agent, the excerpts kept of files, the project, and the state of the run
\* with its last build and its artifact.
Other(w, label, priority) ==
    [kind |-> "other", priority |-> priority,
     size |-> w.sizes[label].size, head |-> w.sizes[label].head]

PolicyItem(w) == Other(w, "policy", 5)

RetainedItems(w) ==
    IF w.excerpts = 0 THEN <<>>
    ELSE <<Other(w, "retained", 6)>>
           \o [i \in 1 .. w.excerpts |-> Other(w, "excerpt", 7)]

ProjectItems(w) == <<Other(w, "overview", 10), Other(w, "structure", 20)>>

RunItems(w) ==
    <<Other(w, "state", 30), Other(w, "builds", 40)>>
      \o (IF w.built THEN <<Other(w, "log", 45)>> ELSE <<>>)
      \o (IF w.artifact THEN <<Other(w, "artifact", 50)>> ELSE <<>>)

Others(w) == <<PolicyItem(w)>> \o RetainedItems(w) \o ProjectItems(w) \o RunItems(w)

KnowledgePriority == 35

\* A knowledge item precedes the items of the run that share its priority.
KnowledgeItem(g, i) ==
    [kind |-> "knowledge", priority |-> KnowledgePriority + i - 1, given |-> g,
     size |-> Info[g.item.id].size, head |-> Info[g.item.id].head]

\* The external source skips selected knowledge, but not a ranked retrieval:
\* its text, conflicts included, is an item of the lowest priority.  Its label,
\* which has its place and orders ten of them by digits, is left out.
Dump(result) ==
    [kind |-> "text", priority |-> 100, given |-> result,
     size |-> Bytes(result.items), head |-> 1]

Dumps(inputs) ==
    FlattenSeq([i \in DOMAIN inputs |->
                   IF inputs[i].ranked THEN <<Dump(inputs[i])>> ELSE <<>>])

\* Items are ordered by priority, those of one priority by the name of their
\* source (external, knowledge, and the run's), then as they were collected.
SourceRank == [text |-> 1, knowledge |-> 2, other |-> 3]
Earlier(items, i, j) ==
    LET x == items[i]
        y == items[j]
    IN \/ x.priority < y.priority
       \/ /\ x.priority = y.priority
          /\ \/ SourceRank[x.kind] < SourceRank[y.kind]
             \/ SourceRank[x.kind] = SourceRank[y.kind] /\ i < j

\* Item x, the i-th, is taken whole when it fits what is left of the context.
\* One that can be cut to what is left is cut and ends the bundle, one that
\* cannot is left out.
FitIn(x, i, so) ==
    LET left == ContextBytes - so.total - (IF so.items = <<>> THEN 0 ELSE 2)
        size == IF x.size <= left THEN x.size ELSE left
        rest == so.rest \ {i}
    IN IF ~so.full /\ left > 0 /\ (x.size <= left \/ x.head <= left)
       THEN [rest |-> rest, total |-> ContextBytes - left + size, full |-> x.size > left,
             items |-> Append(so.items, [of |-> x, size |-> size, whole |-> x.size <= left])]
       ELSE [rest |-> rest, total |-> so.total, full |-> so.full, items |-> so.items]

\* The earliest item of the rest is next.
FitNext(items, so) ==
    LET first == CHOOSE i \in so.rest : \A j \in so.rest \ {i} : Earlier(items, i, j)
    IN FitIn(items[first], first, so)

Bundle(items) ==
    LET walk[k \in 0 .. Len(items)] ==
            IF k = 0
            THEN [rest |-> DOMAIN items, total |-> 0, full |-> FALSE, items |-> <<>>]
            ELSE FitNext(items, walk[k - 1])
    IN walk[Len(items)].items

Assemble(others, given, inputs) ==
    Bundle(others \o Dumps(inputs)
                  \o [i \in DOMAIN given |-> KnowledgeItem(given[i], i)])

-----------------------------------------------------------------------------
(* A run *)

\* The needs derived from a task and from a failure.
PreCodeNames == {n.name : n \in UNION {ToSet(s) : s \in PreCode}}
FailureNames == {n.name : n \in UNION {ToSet(f.needs) : f \in Failures}}
NeedNames    == PreCodeNames \cup FailureNames

NoContext == [given |-> <<>>, others |-> <<>>, items |-> <<>>]
NoTraces  == [n \in NeedNames |-> {}]

\* A run starts with what was retrieved for the needs of the task; it keeps
\* its own trace files and run state.
StartRun(e, on, retrieved) ==
    /\ phase = "ready"
    /\ env' = e
    /\ enabled' = on
    /\ external' = retrieved
    /\ repairs' = <<>> /\ cycle' = {} /\ current' = {}
    /\ turn' = 0
    /\ context' = NoContext /\ traces' = <<>>
    /\ payloads' = <<>> /\ ledger' = NoTraces /\ saved' = NoTraces
    /\ sent' = <<>>
    /\ phase' = "running"

\* The product's service is asked when the Brain is on.
Prepare(e, needs, on) ==
    /\ host = "product"
    /\ StartRun(e, on, IF on THEN [i \in DOMAIN needs |-> Resolve(needs[i], e)] ELSE <<>>)
    /\ UNCHANGED <<disk, product>>

\* The benchmark asks its one source online: fetching the documents fails for
\* the needs before the k-th, and when it succeeds they stay in memory.
Execute(e, needs, on, offline, k) ==
    /\ host = "benchmark"
    /\ LET asks   == on /\ service # <<>>
           Able(i) == IF i < k THEN held ELSE held \cup {service[1]}
       IN /\ StartRun(e, on,
                 IF asks THEN [i \in DOMAIN needs |-> Retrieve(needs[i], e, offline, Able(i))]
                         ELSE <<>>)
          /\ held' = IF asks /\ ~offline /\ \E i \in DOMAIN needs :
                                              i >= k /\ CanServe(service[1], needs[i], e)
                     THEN held \cup {service[1]} ELSE held
    /\ UNCHANGED <<disk, host, pin, loaded, service>>

\* The context of the next request is built and its traces are bound to it.
Build(w) ==
    /\ phase = "running" /\ turn < MaxTurns
    /\ LET inputs == external \o repairs
           got    == Get(inputs)
           others == Others(w)
       IN /\ context' = [given |-> got.given, others |-> others,
                         items |-> Assemble(others, got.given, inputs)]
          /\ traces' = [i \in DOMAIN got.traces |-> Bound(got.traces[i], turn + 1)]
    /\ turn' = turn + 1
    /\ phase' = "built"
    /\ UNCHANGED <<disk, product, task, repair, trace, sent>>

\* Every trace is stored.  The ledger refers to it under its need when there
\* is one: the run state a benchmark makes has none.
PersistTraces ==
    /\ phase = "built"
    /\ payloads' = payloads \o traces
    /\ ledger' = IF host = "product"
                 THEN [n \in NeedNames |-> ledger[n] \cup
                         {Len(payloads) + i : i \in {j \in DOMAIN traces : traces[j].need = n}}]
                 ELSE ledger
    /\ phase' = "traced"
    /\ UNCHANGED <<disk, product, task, repair, turn, context, traces, saved, sent>>

PersistState ==
    /\ phase = "traced"
    /\ saved' = ledger
    /\ phase' = "saved"
    /\ UNCHANGED <<disk, product, task, repair, turn, context, traces, payloads,
                   ledger, sent>>

\* As if the request did not wait for the run state to be written.
FaultySend ==
    /\ phase \in {"traced", "saved"}
    /\ sent' = Append(sent, context.given)
    /\ phase' = "running"
    /\ UNCHANGED <<disk, product, task, repair, turn, context, traces, trace>>

Send ==
    /\ phase = "saved"
    /\ sent' = Append(sent, context.given)
    /\ phase' = "running"
    /\ UNCHANGED <<disk, product, task, repair, turn, context, traces, trace>>

\* What the first source of the service has for a failure.
Retrieved(f) ==
    FlattenSeq([i \in DOMAIN f.needs |->
        LET result == ResolveRanked(service[1], f.needs[i], env)
        IN IF result.items = {} THEN <<>> ELSE <<result>>])

\* A validation failure: knowledge is retrieved once for each failure signature,
\* in the product whatever the Brain was set to.
HasRepairSource == service # <<>> /\ (host = "product" \/ enabled)
Fail(f) ==
    /\ phase = "running" /\ turn > 0
    /\ current' = {f.needs[i].name : i \in DOMAIN f.needs}
    /\ IF ~HasRepairSource \/ f.signature \in cycle
       THEN UNCHANGED <<cycle, repairs>>
       ELSE /\ cycle' = cycle \cup {f.signature}
            /\ repairs' = repairs \o Retrieved(f)
    /\ UNCHANGED <<disk, phase, product, task, turn, context, traces, trace, sent>>

\* The run ends; the application goes on to the next one.
End ==
    /\ phase = "running"
    /\ phase' = "ready"
    /\ context' = NoContext
    /\ UNCHANGED <<disk, product, task, repair, turn, traces, trace, sent>>

\* The process dies, between any two steps: only what is on disk is left.
Crash ==
    /\ phase # "down"
    /\ phase' = "down"
    /\ loaded' = NoPack /\ pin' = NoPack /\ service' = <<>> /\ held' = {}
    /\ external' = <<>> /\ repairs' = <<>> /\ cycle' = {} /\ current' = {}
    /\ context' = NoContext /\ traces' = <<>> /\ ledger' = NoTraces
    /\ UNCHANGED <<disk, host, env, enabled, turn, payloads, saved, sent>>

-----------------------------------------------------------------------------
KnowledgeInit ==
    /\ store = [p \in Places |-> NoPack] /\ published = {} /\ writes = 0
    /\ phase = "down"
    /\ host \in Hosts
    /\ pin = NoPack /\ loaded = NoPack /\ service = <<>> /\ held = {}
    /\ env \in RunEnvs /\ enabled = FALSE /\ external = <<>>
    /\ repairs = <<>> /\ cycle = {} /\ current = {}
    /\ turn = 0 /\ context = NoContext /\ traces = <<>>
    /\ payloads = <<>> /\ ledger = NoTraces /\ saved = NoTraces
    /\ sent = <<>>

KnowledgeNext ==
    \/ \E p \in Places, e \in PackEnvs, v \in Versions : Materialize(p, e, v)
    \/ \E p, q \in Places : Supersede(p, q)
    \/ \E p \in Places, r \in Damaged, v \in Versions : Damage(p, r, v)
    \/ \E p \in Places, wanted \in published \cup {NoPack} : StartWithPack(p, wanted)
    \/ \E s \in Services : StartWithService(s)
    \/ \E e \in RunEnvs, needs \in PreCode, on \in BOOLEAN : Prepare(e, needs, on)
    \/ \E e \in RunEnvs, needs \in PreCode, on, offline \in BOOLEAN :
          \E k \in 1 .. Len(needs) + 1 : Execute(e, needs, on, offline, k)
    \/ \E w \in Surroundings : Build(w)
    \/ PersistTraces
    \/ PersistState
    \/ Send
    \/ \E f \in Failures : Fail(f)
    \/ End
    \/ Crash

KnowledgeSpec == KnowledgeInit /\ [][KnowledgeNext]_knowledgeVars

-----------------------------------------------------------------------------
(* Properties *)

Phases == {"down", "ready", "running", "built", "traced", "saved"}

\* The type invariant: a store of packs, a run of at most MaxTurns turns, a
\* ledger whose references are stored payloads.
TypeOK ==
    /\ \A p \in Places : store[p] # NoPack =>
           /\ store[p].state \in {"FROZEN", "SUPERSEDED"}
           /\ store[p].records \subseteq Records \X Nat
    /\ phase \in Phases
    /\ service \in Services \cup {<<>>, <<"pack">>}
    /\ host \in Hosts /\ held \subseteq Preloaded \cup ToSet(service)
    /\ env \in RunEnvs /\ enabled \in BOOLEAN
    /\ cycle \subseteq {f.signature : f \in Failures}
    /\ turn \in 0 .. MaxTurns /\ Len(sent) <= turn
    /\ ledger \in [NeedNames -> SUBSET DOMAIN payloads]
    /\ saved \in [NeedNames -> SUBSET DOMAIN payloads]

\* What a turn is given of a pack all comes from one pack that was published
\* for the run's environment, the pinned one when the operator pinned one:
\* not from a damaged or replaced directory, whatever happened to the store
\* since (KnowledgePackStore.read, load_frozen_knowledge_pack).  What it is
\* given of a live source comes from one that serves that environment.
KnowledgeIsOfThePack ==
    LET items == {context.given[i].item : i \in DOMAIN context.given}
    IN /\ \E id \in published \cup {[env |-> env, inventory |-> {}]} :
              \A x \in items : x.source = "pack" =>
                  /\ pin \in {NoPack, id}
                  /\ EnvironmentMatches(id.env, env)
                  /\ <<x.id, x.version>> \in id.inventory
       /\ \A x \in items : x.source # "pack" =>
              EnvironmentMatches(Pins[x.source], env)

Failing(items) == {x \in ToSet(items) : x.of.kind = "knowledge" /\ x.of.given.urgent}

\* What is delivered for failures, and how much of each item, is what would
\* be if nothing had been retrieved for the task: generic knowledge takes
\* no byte of the budget or of the context away from it
\* (KnowledgeContextSource.get, ContextManager.collect, ContextBundle.build).
FailureKnowledgeIsUndisturbed ==
    phase = "built" =>
        Failing(context.items) =
            Failing(Assemble(context.others, Get(repairs).given, repairs))

\* Whatever knowledge a provider request carried, a trace that names the item
\* and is bound to that turn is stored, and in the product the run state on
\* disk refers to it under its need, even when the process died right after the
\* request (AgentRuntime._call_provider, _persist_knowledge_traces).
TracedBeforeSent ==
    \A t \in DOMAIN sent : \A i \in DOMAIN sent[t] :
        \E ref \in DOMAIN payloads :
            /\ payloads[ref].need = sent[t][i].need
            /\ payloads[ref].turn = t
            /\ sent[t][i].item.id \in payloads[ref].context
            /\ host = "product" => ref \in saved[sent[t][i].need]

-----------------------------------------------------------------------------
(* What holds of every reachable state, and makes the next one keep the two   *)
(* properties above.                                                          *)

Packs == [env : PackEnvs, state : {"FROZEN", "SUPERSEDED"},
          inventory : SUBSET (Records \X Versions), records : SUBSET (Records \X Versions)]
Items == [source : Families \cup {"pack"}, id : Records, version : Versions \cup {0}]
Retrievals == [need : NeedType, ranked : BOOLEAN, conflicted : SUBSET Items,
               items : SUBSET Items]
Givens == [need : STRING, urgent : BOOLEAN, item : Items]
Traces == [need : STRING, turn : Nat, records : SUBSET Records, context : SUBSET Records]

\* What is stored, and loaded, has been published: with every record in one
\* version.
PacksFit ==
    /\ store \in [Places -> Packs \cup {NoPack}]
    /\ \A p \in Places : store[p] # NoPack => Identity(store[p]) \in published
    /\ \A id \in published : \E v \in Versions : id.inventory = Records \X {v}
    /\ service \in Seq(Families \cup {"pack"})
    /\ (\E i \in DOMAIN service : service[i] = "pack") => loaded # NoPack
    /\ loaded # NoPack => /\ loaded \in Packs /\ Verified(loaded)
                          /\ Identity(loaded) \in published
                          /\ pin \in {NoPack, Identity(loaded)}

\* An item comes from the pack in memory, or from a live source, and serves
\* environment e.
Genuine(x, e) ==
    \/ /\ x.source = "pack" /\ loaded # NoPack
       /\ EnvironmentMatches(loaded.env, e)
       /\ <<x.id, x.version>> \in loaded.records
    \/ x.source # "pack" /\ EnvironmentMatches(Pins[x.source], e)

Fits(result, e) ==
    /\ result.need.name \in NeedNames /\ IsFiniteSet(result.items)
    /\ \A x \in result.items : Genuine(x, e)

RetrievalsFit ==
    /\ external \in Seq(Retrievals) /\ repairs \in Seq(Retrievals)
    /\ \A i \in DOMAIN external : Fits(external[i], env) /\ ~external[i].need.urgent /\ ~external[i].ranked
    /\ \A i \in DOMAIN repairs : Fits(repairs[i], env) /\ repairs[i].need.urgent
    /\ phase = "down" => external = <<>> /\ repairs = <<>>

\* A given item is in the trace of its need and turn.
Covers(t, g, n) == t.need = g.need /\ t.turn = n /\ g.item.id \in t.context
Backed(g, n, refs) ==
    \E ref \in DOMAIN payloads :
        Covers(payloads[ref], g, n) /\ (host = "product" => ref \in refs[g.need])

ContextFits ==
    /\ context.given \in Seq(Givens) /\ traces \in Seq(Traces)
    /\ \A i \in DOMAIN context.given :
          context.given[i].need \in NeedNames /\ Genuine(context.given[i].item, env)
    /\ phase \in {"down", "ready"} => context.given = <<>>
    /\ phase = "built" =>
          \A i \in DOMAIN context.given :
              \E j \in DOMAIN traces : Covers(traces[j], context.given[i], turn)

\* The ledger in memory has what the run state on disk has, and once the
\* traces are stored what is about to be sent.
LedgerFits ==
    /\ payloads \in Seq(Traces)
    /\ ledger \in [NeedNames -> SUBSET DOMAIN payloads]
    /\ saved \in [NeedNames -> SUBSET DOMAIN payloads]
    /\ phase \in {"running", "built", "traced", "saved"} =>
          \A n \in NeedNames : saved[n] \subseteq ledger[n]
    /\ phase \in {"traced", "saved"} =>
          \A i \in DOMAIN context.given : Backed(context.given[i], turn, ledger)
    /\ phase = "saved" => saved = ledger

SentFits ==
    /\ phase \in Phases /\ turn \in Nat
    /\ sent \in Seq(Seq(Givens))
    /\ phase = "running" => Len(sent) = turn
    /\ phase \in {"built", "traced", "saved"} => Len(sent) + 1 = turn
    /\ \A t \in DOMAIN sent : \A i \in DOMAIN sent[t] :
          sent[t][i].need \in NeedNames /\ Backed(sent[t][i], t, saved)

KnowledgeIInv == PacksFit /\ RetrievalsFit /\ ContextFits /\ LedgerFits /\ SentFits

-----------------------------------------------------------------------------
(* Sentences of the design and of comments that the code does not satisfy.   *)

\* A record marked INJECTED is delivered to the provider in that turn (v0.7
\* design, section 16).
InjectedIsDelivered ==
    \A t \in DOMAIN traces : \A id \in traces[t].records :
        phase = "built" => \E i \in DOMAIN context.items :
            LET x == context.items[i].of
            IN x.kind = "knowledge" /\ x.given.need = traces[t].need /\ x.given.item.id = id

\* No knowledge with an unresolved contradiction is delivered as truth (v0.7
\* design, section 15).
ConflictsAreExcluded ==
    \A i \in DOMAIN context.items :
        context.items[i].of.kind = "text" =>
            context.items[i].of.given.conflicted = {}

\* The current failure's knowledge comes before the stale one's (comment of
\* KnowledgeContextSource.get).
CurrentFailureFirst ==
    \A i, j \in DOMAIN context.given :
        (i < j /\ context.given[j].need \in current) =>
            context.given[i].need \in current

\* A run whose Brain is off is given no knowledge (v0.7 design).
OffInjectsNothing == ~enabled => context.given = <<>>

\* All knowledge of a turn fits its single budget (comment of
\* KnowledgeContextSource.get).
KnowledgeFitsBudget ==
    MapThenSumSet(LAMBDA i : Info[context.given[i].item.id].size, DOMAIN context.given)
        <= KnowledgeBytes

=============================================================================
