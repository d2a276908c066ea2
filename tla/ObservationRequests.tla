-------------------------- MODULE ObservationRequests --------------------------
(* What the observation requests of a runtime requirement become on their way *)
(* to the server (validation/runtime.py, minecraft/contracts.py and           *)
(* runner.py).  A request names what to look at in its selector and what of   *)
(* it in its parameters; the runner turns it into scalar properties of a      *)
(* server process, from a list of requests, from a single one, or from        *)
(* parameters the requirement gives outright.                                 *)
(* A field's value is the one a profile fixes or defaults to ("usual"),       *)
(* another one a profile may take ("other"), one none takes ("bad"), "absent".*)
EXTENDS Naturals, Sequences, FiniteSets

CONSTANTS
    RequestTypes, \* observation types considered
    MaxRequests,  \* bound: requests in a list
    MaxOdd        \* bound: fields of a requirement that are not the usual ones

(* MinecraftObservationType, but LEGACY_BLOCK_STATE, which has no fields.     *)
ObservationTypes ==
    {"REGISTRY_ENTRY_PRESENT", "BLOCK_ITEM_ASSOCIATION", "RECIPE_LOADED",
     "ITEM_COMPONENT_STATE", "BLOCK_ENTITY_STATE", "INVENTORY_STATE",
     "TAG_MEMBERSHIP", "RECIPE_MATCH", "LOOT_RESULT"}

ASSUME RequestConstants ==
    RequestTypes \subseteq ObservationTypes /\ RequestTypes # {}
        /\ MaxRequests \in Nat \ {0} /\ MaxOdd \in Nat

VARIABLES
    path,      \* "requests", or "explicit" parameters
    requests,  \* the requests, in order
    stage,     \* declared, ready, ended
    servers,   \* what each server process was started with, in order
    outcome    \* of the requirement: refused, raised, run

requestVars == <<path, requests, stage, servers, outcome>>

Values == {"usual", "other", "bad", "absent"}

(* What a selector of each type names.                                        *)
Selector(t) ==
    CASE t = "REGISTRY_ENTRY_PRESENT" -> {"registry_kind", "identifier"}
      [] t = "BLOCK_ITEM_ASSOCIATION" -> {"item_id", "block_id"}
      [] t \in {"RECIPE_LOADED", "RECIPE_MATCH"} -> {"recipe_id"}
      [] t = "ITEM_COMPONENT_STATE"   -> {"item_id"}
      [] t \in {"BLOCK_ENTITY_STATE", "INVENTORY_STATE"} -> {"pos"}
      [] t = "TAG_MEMBERSHIP"         -> {"registry_kind", "tag_id", "member_id"}
      [] t = "LOOT_RESULT"            -> {"loot_table_id"}

(* The further properties of the server, the ones of a count left out.        *)
Parameters(t) ==
    CASE t = "ITEM_COMPONENT_STATE"   -> {"component_id", "round_trip"}
      [] t = "BLOCK_ENTITY_STATE"     -> {"block_entity_id", "mutation"}
      [] t = "INVENTORY_STATE"        -> {"slot", "item_id", "mutation"}
      [] t = "TAG_MEMBERSHIP"         -> {"expected_membership"}
      [] t = "RECIPE_MATCH"           -> {"input_item_id", "expected_output_item_id"}
      [] t = "LOOT_RESULT"            -> {"context_profile", "seed", "expected_item_id"}
      [] OTHER                        -> {}
Fields(t) == Selector(t) \cup Parameters(t)

(* The validate_..._profile functions: some fields take one value only.       *)
Fixed(t) ==
    CASE t = "TAG_MEMBERSHIP"     -> {"registry_kind", "tag_id"}
      [] t = "RECIPE_MATCH"       -> Fields(t)
      [] t = "LOOT_RESULT"        -> {"loot_table_id", "context_profile"}
      [] t = "INVENTORY_STATE"    -> {"pos", "item_id"}
      [] t = "BLOCK_ENTITY_STATE" -> {"pos", "block_entity_id"}
      [] OTHER                    -> {}
ProfileAccepts(t, args) ==
    \A f \in Fields(t) : args[f] = "usual" \/ (args[f] = "other" /\ f \notin Fixed(t))

(* The types whose profile ObservationRequest checks, and the ones a list and *)
(* a single request take from their selector.                                 *)
Profiled == {"BLOCK_ITEM_ASSOCIATION", "RECIPE_LOADED"}
SelectorTypes == Profiled \cup {"REGISTRY_ENTRY_PRESENT"}

(* ObservationRequest.__post_init__: of any other type a request may say what *)
(* it likes.                                                                  *)
Accepted(r) ==
    r.type \in Profiled =>
        ProfileAccepts(r.type, r.sel) /\ \A f \in DOMAIN r.par : r.par[f] = "absent"

(* effective_observation_config, for a single request: a parameter comes      *)
(* before the selector's field, and the selector is used for three types.     *)
Effective(r) ==
    [f \in Fields(r.type) |->
        IF r.par[f] = "absent" /\ r.type \in SelectorTypes THEN r.sel[f] ELSE r.par[f]]

(* _run_observation_requests, for one of several: the selector alone.         *)
FaultyChildParams(r) == Effective(r)
ChildParams(r) == r.sel

(* The properties, each with its default; no default will do for a component  *)
(* or for what an association or a loaded recipe names.                       *)
NeedsValue(t) == IF t = "ITEM_COMPONENT_STATE" THEN {"component_id"}
                 ELSE IF t \in Profiled THEN Selector(t) ELSE {}
Properties(t, params) ==
    [f \in Fields(t) |->
        IF params[f] # "absent" \/ t = "REGISTRY_ENTRY_PRESENT" THEN params[f]
        ELSE IF f \in NeedsValue(t) THEN "bad" ELSE "usual"]

(* validate_spec and the property builders check the profile on the values    *)
(* with their defaults.  A registry entry has no profile, and                 *)
(* _recipe_match_properties returns nothing to launch with.                   *)
FaultyLaunchable(t, args) == t \in Profiled => ProfileAccepts(t, args)
Launchable(t, args) ==
    /\ t # "RECIPE_MATCH"
    /\ t # "REGISTRY_ENTRY_PRESENT" => ProfileAccepts(t, args)

-----------------------------------------------------------------------------
(* The requirements a planner may write: every field the usual one, but some. *)
UsualPar(way, t) ==
    [f \in Fields(t) |->
        IF f = "pos" \/ (way = "requests" /\ f \in Selector(t)) THEN "absent" ELSE "usual"]
Odd(way, r) ==
    Cardinality({f \in Selector(r.type) : r.sel[f] # "usual"})
        + Cardinality({f \in Fields(r.type) : r.par[f] # UsualPar(way, r.type)[f]})
Requests(way) ==
    UNION {{r \in [type: {t}, sel: [Selector(t) -> Values], par: [Fields(t) -> Values]] :
              /\ Odd(way, r) <= MaxOdd
              /\ "pos" \in Fields(t) => r.par["pos"] = "absent"} : t \in RequestTypes}

RequestInit ==
    /\ path \in {"requests", "explicit"}
    /\ \E n \in IF path = "explicit" THEN {1} ELSE 1..MaxRequests :
          requests \in [1..n -> Requests(path)]
    /\ stage = "declared" /\ servers = <<>> /\ outcome = "none"

End(how) == stage' = "ended" /\ outcome' = how

(* runtime_spec_from_requirement, _minecraft_spec: the plan is built before   *)
(* anything runs; parameters given outright leave the requests' unread.       *)
Declare ==
    /\ stage = "declared"
    /\ IF path = "explicit" \/ \A i \in DOMAIN requests : Accepted(requests[i])
       THEN stage' = "ready" /\ UNCHANGED outcome
       ELSE End("refused")
    /\ UNCHANGED <<path, requests, servers>>

Params(r) ==
    IF path = "explicit" THEN r.par
    ELSE IF Len(requests) = 1 THEN Effective(r) ELSE ChildParams(r)
Server(r) == [type |-> r.type, args |-> Properties(r.type, Params(r))]
Runs(r) ==
    /\ Len(requests) > 1 => r.type \in SelectorTypes
    /\ Launchable(r.type, Server(r).args)
Current == requests[Len(servers) + 1]

(* run: a request whose turn has come is checked, and its server started and  *)
(* awaited before the next request is looked at.                              *)
LaunchNext ==
    /\ stage = "ready" /\ Len(servers) < Len(requests) /\ Runs(Current)
    /\ servers' = Append(servers, Server(Current))
    /\ UNCHANGED <<path, requests, stage, outcome>>
Raise ==
    /\ stage = "ready" /\ Len(servers) < Len(requests) /\ ~Runs(Current)
    /\ End("raised")
    /\ UNCHANGED <<path, requests, servers>>
AggregateResults ==
    /\ stage = "ready" /\ Len(servers) = Len(requests)
    /\ End("run")
    /\ UNCHANGED <<path, requests, servers>>

RequestNext == Declare \/ LaunchNext \/ Raise \/ AggregateResults
RequestSpec == RequestInit /\ [][RequestNext]_requestVars

-----------------------------------------------------------------------------
(* No server is started with a value its profile does not take, whichever way *)
(* the value came: by a selector, a parameter, a default or outright.         *)
LaunchedIsChecked ==
    \A i \in DOMAIN servers :
        servers[i].type # "REGISTRY_ENTRY_PRESENT" => ProfileAccepts(servers[i].type, servers[i].args)

(* In a list, and for the types the contract profiles, the server looks at    *)
(* what the selector names: neither a parameter nor a default replaces it.    *)
SelectorIsLookedAt ==
    path = "requests" =>
        \A i \in DOMAIN servers :
            Len(requests) > 1 \/ requests[i].type \in Profiled =>
                \A f \in Selector(requests[i].type) : servers[i].args[f] = requests[i].sel[f]

(* "Selectors and parameters are validated against that primitive": what is   *)
(* launched looks at what its request's selector names.                       *)
AskedIsObserved ==
    path = "requests" =>
        \A i \in DOMAIN servers, f \in UNION {Selector(t) : t \in RequestTypes} :
            f \in Selector(requests[i].type) => servers[i].args[f] = requests[i].sel[f]

-----------------------------------------------------------------------------
(* The inductive invariant of the proofs.                                     *)
(* A request says something of every field of its type.                       *)
WellFormed(r) ==
    /\ r.type \in ObservationTypes
    /\ r.sel \in [Selector(r.type) -> Values] /\ r.par \in [Fields(r.type) -> Values]

(* In a list that is run every request was accepted, and a server is started  *)
(* for the request in its place after that one was checked.                   *)
ListAccepted ==
    /\ stage = "declared" => servers = <<>>
    /\ path = "requests" /\ (stage = "ready" \/ servers # <<>>) =>
          \A i \in 1..Len(requests) : Accepted(requests[i])
ServersFit ==
    /\ servers \in Seq({Server(requests[i]) : i \in {j \in 1..Len(requests) : Runs(requests[j])}})
    /\ Len(servers) <= Len(requests)
    /\ \A i \in 1..Len(servers) : servers[i] = Server(requests[i]) /\ Runs(requests[i])

RequestIInv ==
    /\ path \in {"requests", "explicit"}
    /\ Len(requests) \in Nat /\ DOMAIN requests = 1..Len(requests)
    /\ \A i \in 1..Len(requests) : WellFormed(requests[i])
    /\ path = "explicit" => Len(requests) = 1
    /\ ListAccepted /\ ServersFit
===============================================================================
