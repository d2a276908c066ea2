--------------------------- MODULE EconomicLedger ---------------------------
(* The money of the agent: LunaEconomicState, its file, and LunaBudgetGuard, *)
(* which every request to the OpenAI provider passes through                 *)
(* (experimental/luna_budget.py, providers/openai_provider.py), with the one *)
(* reissue of the recovery coordinator.  Each guard operation changes memory *)
(* and then persists it; a persist can fail, and the process can die between *)
(* any two of them.  Amounts are natural numbers, counters grow with the     *)
(* requests.                                                                 *)
EXTENDS Integers, FiniteSetsExt

CONSTANTS
    Attempts,        \* identities of logical attempts
    Prices,          \* worst-case costs a request can have
    GlobalCeilings, AttemptCeilings,  \* ceilings an operator sets, the least first
    AllowReissue,    \* a recovery coordinator is in use
    MaxRequests,     \* bound: physical dispatches
    MaxTurns,        \* bound: logical provider turns
    MaxFaults,       \* bound: failed persists
    MaxCrashes,      \* bound: process deaths
    None

ASSUME LedgerConstants ==
    /\ Prices \subseteq Nat \ {0}
    /\ GlobalCeilings \subseteq Nat \ {0} /\ AttemptCeilings \subseteq Nat \ {0}
    /\ AllowReissue \in BOOLEAN
    /\ {MaxRequests, MaxTurns, MaxFaults, MaxCrashes} \subseteq Nat
    /\ None \notin Attempts \cup Nat

VARIABLES
    mem,        \* LunaEconomicState in the process
    disk,       \* economic-state.json
    abort,      \* guard.abort_reason is set
    held,       \* the guard holds the local ownership lock
    at,         \* where OpenAIProvider.execute is
    cur,        \* the dispatch it is working on
    generation, \* 0 for an ordinary request, else the dispatch it recovers
    charged,    \* history: what the provider has really charged
    bill,       \* history: by entry, what it charged; None before it was sent
    sent,       \* history: dispatches that crossed the provider boundary
    faults, crashes

guardVars == <<abort, held, at, cur, generation>>
history == <<charged, bill, sent>>
vars == <<mem, disk, guardVars, history, faults, crashes>>

Requests == 1..MaxRequests
(* _request_id: what identifies an entry of the ledger.  The retry ordinal   *)
(* is always 0: with a guard a failed request is never retried in place.     *)
Keys == [attempt: Attempts, turn: 1..MaxTurns, nth: 1..(MaxRequests + 1)]

ASSUME NoneIsNoKey == None \notin Keys

Settled == {"ACCOUNTED", "RELEASED", "UNCERTAIN_CONSUMED"}
NoEntry == [status |-> "NONE", cost |-> 0]
NoDispatch == [state |-> "NONE", func |-> "WAITING", attempt |-> None, of |-> 0, key |-> None]
Stages == {"NONE", "REQUEST_PREPARED", "RESERVATION_COMMITTED", "DISPATCH_STARTED",
           "RESPONSE_OBSERVED"}

Total(s) == s.spent + s.uncertain + s.reserved
AttemptTotal(s) == s.aSpent + s.aUncertain + s.aReserved
WithinCeilings(s) == Total(s) <= s.gCeil /\ AttemptTotal(s) <= s.aCeil
Affordable(s, c) == AttemptTotal(s) + c <= s.aCeil /\ Total(s) + c <= s.gCeil

(* The dispatch that reconciliation takes for the owner of an entry: the     *)
(* first one recorded with that reservation.                                 *)
OwnerOf(s, k) ==
    LET named == {d \in Requests : s.dispatch[d].key = k}
    IN  CHOOSE d \in named : \A e \in named : d <= e

(* from_dict and __post_init__: what the store accepts when it is loaded.    *)
Loadable(s) ==
    /\ WithinCeilings(s)
    /\ \A d, e \in Requests :
         d # e /\ s.dispatch[d].key # None => s.dispatch[d].key # s.dispatch[e].key

Init ==
    /\ \E g \in GlobalCeilings, a \in AttemptCeilings :
       mem = [gCeil |-> g, aCeil |-> a, active |-> None, life |-> "CLEAR", owned |-> FALSE,
              spent |-> 0, uncertain |-> 0, reserved |-> 0,
              aSpent |-> 0, aUncertain |-> 0, aReserved |-> 0,
              pending |-> None, recon |-> "CLEAR", turns |-> 0, physical |-> 0,
              ledger |-> [k \in Keys |-> NoEntry],
              dispatch |-> [d \in Requests |-> NoDispatch]]
    /\ disk = mem
    /\ abort = FALSE /\ held = FALSE /\ at = "idle" /\ cur = 0 /\ generation = 0
    /\ charged = 0 /\ bill = [k \in Keys |-> None] /\ sent = {}
    /\ faults = 0 /\ crashes = 0

-----------------------------------------------------------------------------
(* _persist: memory has changed already; the file follows, or the operation  *)
(* raises and the request is over.                                           *)
PersistFails ==
    /\ faults < MaxFaults /\ faults' = faults + 1
    /\ disk' = disk /\ abort' = TRUE /\ at' = "idle"
Persist(s, next) ==
    /\ mem' = s
    /\ \/ disk' = s /\ at' = next /\ UNCHANGED <<abort, faults>>
       \/ PersistFails

(* begin_attempt of the state: the same attempt may go on, a new one starts  *)
(* from zero.                                                                *)
Begun(s, a) ==
    IF s.active = a THEN s
    ELSE [s EXCEPT !.active = a, !.life = "ACTIVE", !.aSpent = 0, !.aUncertain = 0,
                   !.aReserved = 0, !.pending = None, !.recon = "CLEAR"]
BeginAttempt(a, own) ==
    /\ at = "idle" /\ ~held
    /\ mem.active \in {None, a}
    /\ held' = own
    /\ Persist([Begun(mem, a) EXCEPT !.owned = @ \/ own], "idle")
    /\ UNCHANGED <<cur, generation, history, crashes>>

(* end_attempt, which refuses while money is reserved.                       *)
EndAttempt ==
    /\ at = "idle" /\ mem.active # None
    /\ mem.aReserved = 0
    /\ held' = FALSE
    /\ Persist([mem EXCEPT !.active = None, !.pending = None, !.life = "COMPLETED",
                           !.owned = FALSE], "idle")
    /\ UNCHANGED <<cur, generation, history, crashes>>

(* What the product worker asks before it ends an attempt; otherwise it only *)
(* gives the lock back.                                                      *)
CleanEnd == mem.pending = None /\ mem.aReserved = 0 /\ mem.aUncertain = 0 /\ mem.recon = "CLEAR"
ReleaseOwnership ==
    /\ at = "idle" /\ held /\ ~CleanEnd
    /\ held' = FALSE
    /\ UNCHANGED <<mem, disk, abort, at, cur, generation, history, faults, crashes>>

-----------------------------------------------------------------------------
(* OpenAIProvider.execute.                                                   *)
BeginLogicalTurn ==
    /\ at = "idle" /\ mem.active # None /\ mem.turns < MaxTurns
    /\ generation' = 0
    /\ Persist([mem EXCEPT !.turns = @ + 1], "turn")
    /\ UNCHANGED <<held, cur, history, crashes>>

Unused == {d \in Requests : mem.dispatch[d].state = "NONE"}
PrepareDispatch ==
    /\ at = "turn" /\ (~abort \/ generation # 0)
    /\ Unused # {}
    /\ LET d == CHOOSE x \in Unused : \A y \in Unused : x <= y
       IN  /\ cur' = d
           /\ Persist([mem EXCEPT !.dispatch[d] =
                         [NoDispatch EXCEPT !.state = "REQUEST_PREPARED",
                                            !.attempt = mem.active, !.of = generation]],
                      "prepared")
    /\ UNCHANGED <<held, generation, history, crashes>>
(* The guard is latched: the request ends before it is written down.         *)
BlockedByAbort ==
    /\ at = "turn" /\ abort /\ generation = 0
    /\ at' = "idle"
    /\ UNCHANGED <<mem, disk, abort, held, cur, generation, history, faults, crashes>>

FaultyRequestId(s) == [attempt |-> s.active, turn |-> s.turns, nth |-> 1]
RequestId(s) == [attempt |-> s.active, turn |-> s.turns, nth |-> s.physical + 1]

(* before_request: reserve the worst case, write both records, persist once. *)
Reserve(c) ==
    /\ at = "prepared" /\ Affordable(mem, c)
    /\ LET k == RequestId(mem)
       IN  Persist([mem EXCEPT !.ledger[k] = [status |-> "RESERVED", cost |-> c],
                               !.pending = k,
                               !.aReserved = @ + c, !.reserved = @ + c,
                               !.dispatch[cur].key = k,
                               !.dispatch[cur].state = "RESERVATION_COMMITTED"], "reserved")
    /\ UNCHANGED <<held, cur, generation, history, crashes>>
(* Refused: the diagnostic and the abandonment are two persists of which the *)
(* second subsumes the first; the guard is latched.                          *)
RefuseRequest(c) ==
    /\ at = "prepared" /\ ~Affordable(mem, c)
    /\ mem' = [mem EXCEPT !.dispatch[cur].func = "ABANDONED"]
    /\ abort' = TRUE /\ at' = "idle"
    /\ \/ disk' = mem' /\ UNCHANGED faults
       \/ faults < MaxFaults /\ faults' = faults + 1 /\ disk' = disk
    /\ UNCHANGED <<held, cur, generation, history, crashes>>

FaultyMarkDispatchStarted ==
    /\ at = "reserved" /\ at' = "started"
    /\ mem' = [mem EXCEPT !.physical = @ + 1, !.dispatch[cur].state = "DISPATCH_STARTED"]
    /\ UNCHANGED <<disk, abort, faults, held, cur, generation, history, crashes>>
(* mark_dispatch_started: the only operation that rolls memory back.         *)
MarkDispatchStarted ==
    /\ at = "reserved"
    /\ \/ /\ mem' = [mem EXCEPT !.physical = @ + 1, !.dispatch[cur].state = "DISPATCH_STARTED"]
          /\ disk' = mem' /\ at' = "started"
          /\ UNCHANGED <<abort, faults>>
       \/ PersistFails /\ UNCHANGED mem
    /\ UNCHANGED <<held, cur, generation, history, crashes>>

(* The request crosses the boundary.  The provider charges at most the worst *)
(* case, whether or not an answer comes back.                                *)
Send(c) ==
    /\ at = "started" /\ c <= mem.ledger[mem.pending].cost
    /\ sent' = sent \cup {cur} /\ charged' = charged + c
    /\ bill' = [bill EXCEPT ![mem.pending] = c]
    /\ at' = "sent"
    /\ UNCHANGED <<mem, disk, abort, held, cur, generation, faults, crashes>>

(* record_dispatch_result: an answer, or an error.                           *)
RecordResult(answered) ==
    /\ at = "sent"
    /\ Persist([mem EXCEPT !.dispatch[cur].state =
                               IF answered THEN "RESPONSE_OBSERVED" ELSE @,
                           !.dispatch[cur].func =
                               IF answered THEN "RESPONSE_AVAILABLE" ELSE "RESPONSE_MISSING"],
               IF answered THEN "answered" ELSE "failed")
    /\ UNCHANGED <<held, cur, generation, history, crashes>>

(* account_response with coherent usage.                                     *)
AccountResponse ==
    /\ at = "answered"
    /\ LET k == mem.pending
           c == mem.ledger[k].cost
       IN  Persist([mem EXCEPT !.reserved = @ - c, !.aReserved = @ - c,
                               !.spent = @ + bill[k], !.aSpent = @ + bill[k],
                               !.ledger[k].status = "ACCOUNTED",
                               !.pending = None, !.recon = "CLEAR"], "idle")
    /\ UNCHANGED <<held, cur, generation, history, crashes>>

(* on_failure_without_usage: no answer, or one whose usage cannot be used.   *)
(* The guard is latched whatever happens.                                    *)
SettleUncertain ==
    /\ at \in {"failed", "answered"}
    /\ LET k == mem.pending
           c == mem.ledger[k].cost
       IN  mem' = [mem EXCEPT !.reserved = @ - c, !.aReserved = @ - c,
                              !.uncertain = @ + c, !.aUncertain = @ + c,
                              !.ledger[k].status = "UNCERTAIN_CONSUMED",
                              !.pending = None, !.recon = "UNCERTAIN_CONSUMED"]
    /\ abort' = TRUE /\ at' = "idle"
    /\ \/ disk' = mem' /\ UNCHANGED faults
       \/ faults < MaxFaults /\ faults' = faults + 1 /\ disk' = disk
    /\ UNCHANGED <<held, cur, generation, history, crashes>>

-----------------------------------------------------------------------------
(* RecoveryCoordinator._validate_original: a dispatch whose answer is lost   *)
(* and whose money is written off.                                           *)
Recoverable(s, d) ==
    /\ s.dispatch[d].state = "DISPATCH_STARTED" /\ s.dispatch[d].func = "RESPONSE_MISSING"
    /\ s.dispatch[d].of = 0
    /\ s.dispatch[d].key # None
    /\ s.ledger[s.dispatch[d].key].status = "UNCERTAIN_CONSUMED"
(* No provider declares response retrieval: recovery reissues the request    *)
(* without a new logical turn and past the latch.                            *)
Reissue(d) ==
    /\ AllowReissue /\ at = "idle"
    /\ Recoverable(mem, d) /\ mem.active = mem.dispatch[d].attempt
    /\ at' = "turn" /\ generation' = d
    /\ UNCHANGED <<mem, disk, abort, held, cur, history, faults, crashes>>

(* reconcile_abandoned_attempt, under the recovery lock.                     *)
FaultyPreDispatch(s) == s.pending # None /\ s.ledger[s.pending].status = "RESERVED"
PreDispatch(s) ==
    /\ s.pending # None
    /\ s.ledger[s.pending].status = "RESERVED"
    /\ s.dispatch[OwnerOf(s, s.pending)].state = "RESERVATION_COMMITTED"
ReconcileAbandoned ==
    /\ at = "idle" /\ ~held
    /\ mem.active # None
    /\ mem.aUncertain = 0 /\ mem.uncertain = 0
    /\ mem.pending # None \/ mem.aReserved # 0 => PreDispatch(mem)
    /\ LET freed == [mem EXCEPT !.active = None, !.pending = None,
                                !.life = "ABORTED_RECONCILED", !.owned = FALSE,
                                !.aReserved = 0, !.aUncertain = 0, !.recon = "CLEAR"]
       IN  mem' = IF mem.pending = None THEN freed
                  ELSE [freed EXCEPT !.reserved = @ - mem.ledger[mem.pending].cost,
                                     !.ledger[mem.pending].status = "RELEASED",
                                     !.dispatch[OwnerOf(mem, mem.pending)].func = "ABANDONED"]
    /\ \/ disk' = mem' /\ UNCHANGED <<abort, faults>>
       \/ PersistFails
    /\ at' = "idle"
    /\ UNCHANGED <<held, cur, generation, history, crashes>>

(* The process dies and a new one loads the file, if it can be loaded.  The  *)
(* operating system frees the lock; the latch was only in memory.            *)
Crash ==
    /\ crashes < MaxCrashes /\ crashes' = crashes + 1
    /\ Loadable(disk)
    /\ mem' = disk
    /\ abort' = FALSE /\ held' = FALSE /\ at' = "idle" /\ cur' = 0 /\ generation' = 0
    /\ UNCHANGED <<disk, history, faults>>

(* migrate_global_ceiling and configure_attempt_ceiling: an operator changes *)
(* a ceiling between attempts; a failed persist is rolled back.              *)
Untouched(s) == s.reserved = 0 /\ s.aReserved = 0 /\ s.uncertain = 0 /\ s.aUncertain = 0
MigrateGlobalCeiling(c) ==
    /\ at = "idle" /\ Untouched(mem)
    /\ c > mem.gCeil
    /\ mem' = [mem EXCEPT !.gCeil = c] /\ disk' = mem'
    /\ UNCHANGED <<guardVars, history, faults, crashes>>
ConfigureAttemptCeiling(c) ==
    /\ at = "idle" /\ Untouched(mem) /\ mem.active = None
    /\ c <= mem.gCeil - Total(mem) /\ c >= mem.aSpent /\ c # mem.aCeil
    /\ mem' = [mem EXCEPT !.aCeil = c] /\ disk' = mem'
    /\ UNCHANGED <<guardVars, history, faults, crashes>>

RequestStep ==
    \/ BeginLogicalTurn \/ PrepareDispatch \/ BlockedByAbort
    \/ \E c \in Prices : Reserve(c) \/ RefuseRequest(c)
    \/ MarkDispatchStarted
    \/ \E c \in 0..mem.gCeil : Send(c)
    \/ \E answered \in BOOLEAN : RecordResult(answered)
    \/ AccountResponse \/ SettleUncertain

Next ==
    \/ \E a \in Attempts, own \in BOOLEAN : BeginAttempt(a, own)
    \/ EndAttempt \/ ReleaseOwnership
    \/ RequestStep
    \/ \E d \in Requests : Reissue(d)
    \/ ReconcileAbandoned
    \/ \E c \in GlobalCeilings : MigrateGlobalCeiling(c)
    \/ \E c \in AttemptCeilings : ConfigureAttemptCeiling(c)
    \/ Crash

Spec == Init /\ [][Next]_vars
-----------------------------------------------------------------------------
(* Properties.                                                               *)

Entries == [status: Settled \cup {"NONE", "RESERVED"}, cost: Prices \cup {0}]
Dispatches == [state: Stages, func: {"WAITING", "RESPONSE_AVAILABLE", "RESPONSE_MISSING",
                                     "ABANDONED"},
               attempt: Attempts \cup {None}, of: 0..MaxRequests, key: Keys \cup {None}]
States == [gCeil: GlobalCeilings, aCeil: AttemptCeilings, active: Attempts \cup {None},
           life: {"CLEAR", "ACTIVE", "COMPLETED", "ABORTED_RECONCILED"}, owned: BOOLEAN,
           spent: Nat, uncertain: Nat, reserved: Nat,
           aSpent: Nat, aUncertain: Nat, aReserved: Nat,
           pending: Keys \cup {None}, recon: {"CLEAR", "UNCERTAIN_CONSUMED"},
           turns: 0..MaxTurns, physical: 0..MaxRequests,
           ledger: [Keys -> Entries], dispatch: [Requests -> Dispatches]]

(* Every variable keeps its type; no counter of money becomes negative.      *)
TypeOK ==
    /\ mem \in States /\ disk \in States
    /\ abort \in BOOLEAN /\ held \in BOOLEAN
    /\ at \in {"idle", "turn", "prepared", "reserved", "started", "sent", "answered", "failed"}
    /\ cur \in 0..MaxRequests /\ generation \in 0..MaxRequests
    /\ charged \in Nat /\ bill \in [Keys -> Nat \cup {None}] /\ sent \subseteq Requests
    /\ faults \in 0..MaxFaults /\ crashes \in 0..MaxCrashes

(* What the provider has really charged never exceeds what the ledger, in    *)
(* memory and on disk, holds spent, written off or reserved, nor the ceiling:*)
(* no failed persist, lost answer, crash or reconciliation hides money.      *)
ChargesAreCovered ==
    \A s \in {mem, disk} : charged <= Total(s) /\ WithinCeilings(s)

(* A dispatch crosses the provider boundary only after the file says so, so  *)
(* that a new process knows of every request that may have been charged.     *)
SentIsDurable ==
    \A d \in sent : disk.dispatch[d].state \in {"DISPATCH_STARTED", "RESPONSE_OBSERVED"}

(* A released reservation was never sent: money comes back only for a request*)
(* that provably did not reach the provider.                                 *)
ReleasedWasNotSent ==
    \A s \in {mem, disk}, d \in sent : s.ledger[s.dispatch[d].key].status # "RELEASED"

(* The reserved money is the money of the open entries.  In the code a reissue*)
(* that was reserved and never started reserves its key again, once more for  *)
(* the same entry: the total keeps money no entry accounts for.               *)
ReservedIsOpenEntries ==
    \A s \in {mem, disk} :
      s.reserved = MapThenSumSet(LAMBDA k : s.ledger[k].cost,
                                 {k \in Keys : s.ledger[k].status = "RESERVED"})

(* The state machine of the economic recovery RFC, on the file: RESERVED may *)
(* become ACCOUNTED, RELEASED or UNCERTAIN_CONSUMED, and these are final; an  *)
(* entry that was never written before may appear released.                  *)
EntriesFollowRFC ==
    [][\A k \in Keys :
         LET old == disk.ledger[k].status  new == disk'.ledger[k].status
         IN  old # new => \/ old = "NONE" /\ new \in {"RESERVED", "RELEASED"}
                          \/ old = "RESERVED" /\ new \in Settled]_vars

(* Over failed persists, lost answers, crashes, reconciliations and reissues, *)
(* whoever reads the file sees a ledger that moves the money of one entry at   *)
(* a time: it spends what was charged, writes off all that may have been, and  *)
(* gives back only what was never sent.                                       *)
Book(s) == [ceiling |-> s.gCeil, spent |-> s.spent, lost |-> s.uncertain,
            reserved |-> s.reserved, ledger |-> s.ledger]
Ledger == INSTANCE MoneyLedger WITH book <- Book(disk)
FollowsLedger == Ledger!Spec
-----------------------------------------------------------------------------
(* The inductive invariant of EconomicLedgerProofs.  The first five parts are *)
(* true of memory and of the file, each by itself: a crash may put the second *)
(* in the place of the first at any time.                                     *)

\* A pending reservation is open, is part of both totals and has an owner.
PendingFits(s) ==
    s.pending # None =>
      /\ s.ledger[s.pending].status = "RESERVED"
      /\ s.ledger[s.pending].cost <= s.reserved /\ s.ledger[s.pending].cost <= s.aReserved
      /\ \E d \in Requests : s.dispatch[d].key = s.pending

\* What the status of an entry says of its cost and of its identity.
EntriesFit(s) ==
    \A k \in Keys :
      LET status == s.ledger[k].status
      IN  /\ status # "NONE" => k.turn <= s.turns
          /\ status = "RESERVED" => s.ledger[k].cost \in Prices
          /\ status = "UNCERTAIN_CONSUMED" => s.uncertain > 0
          /\ status \in {"ACCOUNTED", "UNCERTAIN_CONSUMED"} => k.nth <= s.physical
          /\ status = "RELEASED" /\ s.uncertain > 0 => k.turn < s.turns

\* Dispatches are used in their order, no more of them are started than used,
\* and only a reissue, which needs money written off, can repeat a key.
DispatchesFit(s) ==
    /\ \A d \in Requests :
         /\ s.dispatch[d].state = "NONE" => s.dispatch[d].key = None /\ s.physical < d
         /\ s.dispatch[d].state # "NONE" => s.dispatch[d].attempt \in Attempts /\ s.turns >= 1
         /\ s.dispatch[d].key # None => s.dispatch[d].key.turn <= s.turns
    /\ \E n \in 0..MaxRequests : \A d \in Requests : s.dispatch[d].state = "NONE" <=> d > n
    /\ s.uncertain = 0 =>
         \A d, e \in Requests :
           d # e /\ s.dispatch[d].key # None => s.dispatch[d].key # s.dispatch[e].key

\* The charges are covered, also without a reservation that may be released;
\* what was sent says so and is not released.
MoneyFits(s) ==
    /\ charged <= Total(s) /\ WithinCeilings(s)
    /\ \A d \in Requests :
         s.uncertain = 0 /\ s.pending # None /\ s.dispatch[d].key = s.pending
         /\ s.dispatch[d].state = "RESERVATION_COMMITTED" =>
            charged + s.ledger[s.pending].cost <= Total(s)
    /\ \A d \in sent :
         /\ s.dispatch[d].state \in {"DISPATCH_STARTED", "RESPONSE_OBSERVED"}
         /\ s.dispatch[d].key \in Keys
         /\ s.ledger[s.dispatch[d].key].status # "RELEASED"

\* What is charged was sent, and its place is never used again.
BillsFit(s) ==
    \A k \in Keys :
      bill[k] # None => k.nth <= s.physical /\ \E d \in sent : s.dispatch[d].key = k
Sound(s) ==
    PendingFits(s) /\ EntriesFit(s) /\ DispatchesFit(s) /\ MoneyFits(s) /\ BillsFit(s)

\* A fresh turn has no entry and no dispatch yet, unless it is a reissue.
TurnFits ==
    at # "idle" =>
      /\ mem.active \in Attempts /\ mem.turns >= 1
      /\ generation # 0 => mem.uncertain > 0
      /\ \A k \in Keys : mem.ledger[k].status = "RELEASED" => k.turn < mem.turns
      /\ at \in {"turn", "prepared"} /\ generation = 0 =>
           /\ \A k \in Keys : mem.ledger[k].status # "NONE" => k.turn < mem.turns
           /\ \A d \in Requests :
                mem.dispatch[d].key # None => mem.dispatch[d].key.turn < mem.turns

\* Where the request is, what its dispatch says, and what its money covers.
InHand == {"started", "sent", "answered", "failed"}
RequestFits ==
    /\ at \notin {"idle", "turn"} => disk = mem /\ cur \in Requests
    /\ at = "prepared" => /\ mem.dispatch[cur].state = "REQUEST_PREPARED"
                          /\ mem.dispatch[cur].key = None
    /\ at \in {"prepared", "reserved"} => mem.physical < cur
    /\ at = "reserved" => mem.dispatch[cur].state = "RESERVATION_COMMITTED"
    /\ at \in {"started", "sent"} => mem.dispatch[cur].state = "DISPATCH_STARTED"
    /\ at \in {"reserved"} \cup InHand =>
         mem.pending \in Keys /\ mem.dispatch[cur].key = mem.pending
    /\ at = "reserved" => mem.pending.nth <= mem.physical + 1
    /\ at \in InHand => mem.pending.nth <= mem.physical
    /\ at \in {"reserved", "started"} =>
         bill[mem.pending] = None /\ charged + mem.ledger[mem.pending].cost <= Total(mem)
    /\ at \in InHand /\ at # "started" =>
         /\ bill[mem.pending] \in Nat /\ bill[mem.pending] <= mem.ledger[mem.pending].cost
         /\ charged - bill[mem.pending] + mem.ledger[mem.pending].cost <= Total(mem)
         /\ mem.dispatch[cur].state \in {"DISPATCH_STARTED", "RESPONSE_OBSERVED"}

\* The file is one movement of money behind memory, if any; while something is
\* pending, by its reservation.
Behind(s, t) ==
    /\ s.gCeil <= t.gCeil /\ Ledger!Moves(Book(s), Book(t))
    /\ t.pending # None =>
         \/ Ledger!Idle(Book(s), Book(t))
         \/ \E c \in Prices : Ledger!Reserve(Book(s), Book(t), t.pending, c)
FileFits == Behind(disk, mem)

IInv == TypeOK /\ Sound(mem) /\ Sound(disk) /\ TurnFits /\ RequestFits /\ FileFits
=============================================================================
