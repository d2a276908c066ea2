---------------------------- MODULE MCKnowledge ----------------------------
(***************************************************************************)
(* A small instance of Knowledge: two pages of documentation that          *)
(* contradict each other, two classes and a symbol; bytes scaled down so   *)
(* that a budget, the cap on items and the limit of a context all bind.    *)
(***************************************************************************)
EXTENDS Knowledge

CONSTANTS d1, d2, a1, a2, y1, unset, none, p1, p2

Record(family, kind, topic, text, terms, rank) ==
    [family |-> family, kind |-> kind, topic |-> topic, text |-> text,
     terms |-> terms, est |-> 20, size |-> 23, head |-> 10, rank |-> rank]

MCRecords == {d1, d2, a1, a2, y1}
MCInfo ==
    (a1 :> Record("api", "API", "Event", "event", {"event", "registry"}, 1)
  @@ a2 :> Record("api", "API", "Registry", "registry", {"registry"}, 2)
  @@ d1 :> Record("docs", "PATTERN", "registry", "register once", {"registry"}, 3)
  @@ d2 :> Record("docs", "PATTERN", "registry", "register twice", {"registry"}, 4)
  @@ y1 :> Record("yarn", "SYMBOL", "", "symbol", {"event", "registry"}, 5))

\* Environments of two fields: the game's version and Java's.
MCFields   == {"minecraft", "java"}
Env(m, j)  == [minecraft |-> m, java |-> j]
MCPackEnvs == {Env(1, unset), Env(1, 17)}
MCRunEnvs  == {Env(1, 21), Env(2, 21)}
MCPins     == [docs |-> Env(1, unset), api |-> Env(1, unset), yarn |-> Env(1, unset)]

Need(name, urgent, kind, query) ==
    [name |-> name, urgent |-> urgent, kind |-> kind, query |-> query]

MCServices == {<<"docs", "api", "yarn">>, <<"yarn">>, <<>>}
MCPreCode  == {<<Need("symbol", FALSE, "SYMBOL", "event"),
                 Need("pattern", FALSE, "PATTERN", "registry")>>}
MCFailures == {[signature |-> 1,
                needs |-> <<Need("repair-symbol", TRUE, "SYMBOL", "registry")>>],
               [signature |-> 2,
                needs |-> <<Need("repair-pattern", TRUE, "PATTERN", "registry")>>]}

\* A first turn, and one after a build with an excerpt that nearly fills the
\* context.
Sizes(excerpt) == [l \in Labels |-> [size |-> IF l = "excerpt" THEN excerpt ELSE 8,
                                     head |-> 5]]
MCSurroundings ==
    {[excerpts |-> 0, built |-> FALSE, artifact |-> FALSE, sizes |-> Sizes(8)],
     [excerpts |-> 1, built |-> TRUE, artifact |-> TRUE, sizes |-> Sizes(40)]}

=============================================================================
