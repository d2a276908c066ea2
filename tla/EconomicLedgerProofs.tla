------------------------ MODULE EconomicLedgerProofs ------------------------
(* The theorems of EconomicLedger and the proof that its invariant, IInv, is *)
(* inductive.  Sound is proved of memory and of the file separately: of      *)
(* memory action by action, of the file because a persist copies memory into *)
(* it and nothing else writes it (FileSound), so that a crash, which puts the *)
(* file in the place of memory, has nothing left to show.  Every step lemma  *)
(* also shows MemoryFollows, from which the atomic ledger follows.    *)
EXTENDS EconomicLedger, TLAPS

-----------------------------------------------------------------------------
(* What several actions share. *)

\* The file holds what memory holds, or what it held.
LEMMA FileSound ==
  ASSUME Sound(mem)', Sound(disk),
         \/ disk' = mem'
         \/ disk' = disk /\ charged' = charged /\ sent' = sent /\ bill' = bill
  PROVE  Sound(disk)'
<1>. USE DEF Sound, PendingFits, EntriesFit, DispatchesFit, MoneyFits, BillsFit, Total,
             WithinCeilings, AttemptTotal
<1>1. CASE disk' = mem'
  BY <1>1
<1>2. CASE disk' = disk /\ charged' = charged /\ sent' = sent /\ bill' = bill
  BY <1>2
<1>. QED
  BY <1>1, <1>2

\* A request that is over has no place to agree with.
LEMMA IdleFits ==
  ASSUME at' = "idle"
  PROVE  TurnFits' /\ RequestFits'
BY DEF TurnFits, RequestFits, InHand

\* The types of the fields of a state.
LEMMA FieldTypes ==
  ASSUME NEW s \in States
  PROVE  /\ s.gCeil \in GlobalCeilings /\ s.aCeil \in AttemptCeilings
         /\ s.gCeil \in Nat /\ s.aCeil \in Nat
         /\ s.spent \in Nat /\ s.uncertain \in Nat /\ s.reserved \in Nat
         /\ s.aSpent \in Nat /\ s.aUncertain \in Nat /\ s.aReserved \in Nat
         /\ s.turns \in 0..MaxTurns /\ s.physical \in 0..MaxRequests
         /\ s.turns \in Nat /\ s.physical \in Nat
         /\ s.active \in Attempts \cup {None} /\ s.pending \in Keys \cup {None}
         /\ s.ledger \in [Keys -> Entries] /\ s.dispatch \in [Requests -> Dispatches]
<1>1. /\ GlobalCeilings \subseteq Nat /\ AttemptCeilings \subseteq Nat
      /\ MaxTurns \in Nat /\ MaxRequests \in Nat
  BY LedgerConstants
<1>2. /\ s.gCeil \in GlobalCeilings /\ s.aCeil \in AttemptCeilings
      /\ s.spent \in Nat /\ s.uncertain \in Nat /\ s.reserved \in Nat
      /\ s.aSpent \in Nat /\ s.aUncertain \in Nat /\ s.aReserved \in Nat
      /\ s.turns \in 0..MaxTurns /\ s.physical \in 0..MaxRequests
      /\ s.active \in Attempts \cup {None} /\ s.pending \in Keys \cup {None}
      /\ s.ledger \in [Keys -> Entries] /\ s.dispatch \in [Requests -> Dispatches]
  BY DEF States
<1>3. s.gCeil \in Nat /\ s.aCeil \in Nat
  BY <1>1, <1>2
<1>4. s.turns \in Nat /\ s.physical \in Nat
  BY <1>1, <1>2
<1>. QED
  BY <1>2, <1>3, <1>4

\* No step puts memory further ahead of the file than one movement of money.
MemoryFollows == Behind(disk, mem')

\* The fields of a book.
LEMMA BookFields ==
  ASSUME NEW s
  PROVE  /\ Book(s).ceiling = s.gCeil /\ Book(s).spent = s.spent /\ Book(s).lost = s.uncertain
         /\ Book(s).reserved = s.reserved /\ Book(s).ledger = s.ledger
BY DEF Book

LEMMA SameIsBehind ==
  ASSUME NEW s \in States
  PROVE  Behind(s, s)
<1>1. Ledger!Idle(Book(s), Book(s)) /\ s.gCeil <= s.gCeil
  BY FieldTypes DEF Ledger!Idle
<1>. QED
  BY <1>1 DEF Behind, Ledger!Moves

\* A step that moves no money.
LEMMA FileKept ==
  ASSUME NEW s \in States, NEW t \in States, NEW u \in States, Behind(s, t),
         u.ledger = t.ledger, u.spent = t.spent, u.uncertain = t.uncertain,
         u.reserved = t.reserved, t.gCeil <= u.gCeil, u.pending = None \/ u.pending = t.pending
  PROVE  Behind(s, u)
<1>1. s.gCeil <= u.gCeil
  BY FieldTypes DEF Behind
<1>2. /\ Book(u).spent = Book(t).spent /\ Book(u).lost = Book(t).lost
      /\ Book(u).reserved = Book(t).reserved /\ Book(u).ledger = Book(t).ledger
  BY BookFields
<1>3. /\ Ledger!Idle(Book(s), Book(u)) = Ledger!Idle(Book(s), Book(t))
      /\ \A k, c : Ledger!Reserve(Book(s), Book(u), k, c) = Ledger!Reserve(Book(s), Book(t), k, c)
  BY <1>2 DEF Ledger!Idle, Ledger!Reserve
<1>4. Ledger!Moves(Book(s), Book(u))
  <2>1. \A k, status : Ledger!Settles(Book(s), Book(u), k, status) =
                        Ledger!Settles(Book(s), Book(t), k, status)
    BY <1>2 DEF Ledger!Settles
  <2>2. \A k, c : Ledger!Forget(Book(s), Book(u), k, c) = Ledger!Forget(Book(s), Book(t), k, c)
    BY <1>2 DEF Ledger!Forget
  <2>3. \A k : /\ Ledger!Account(Book(s), Book(u), k) = Ledger!Account(Book(s), Book(t), k)
               /\ Ledger!WriteOff(Book(s), Book(u), k) = Ledger!WriteOff(Book(s), Book(t), k)
               /\ Ledger!Release(Book(s), Book(u), k) = Ledger!Release(Book(s), Book(t), k)
    BY <1>2, <2>1 DEF Ledger!Account, Ledger!WriteOff, Ledger!Release
  <2>. QED
    BY <1>3, <2>2, <2>3 DEF Behind, Ledger!Moves
<1>5. u.pending # None => u.pending = t.pending
  OBVIOUS
<1>. QED
  BY <1>1, <1>3, <1>4, <1>5 DEF Behind

\* A dispatch that is answered or abandoned keeps its place and its key.
Advanced(old, new) ==
  /\ new.key = old.key /\ new.attempt = old.attempt
  /\ \/ new.state = old.state
     \/ old.state = "DISPATCH_STARTED" /\ new.state = "RESPONSE_OBSERVED"

\* A step that moves no money: it may open a turn, begin or end an attempt,
\* raise a ceiling, or write down an answer.
Quiet ==
  /\ charged' = charged /\ sent' = sent /\ bill' = bill
  /\ mem'.ledger = mem.ledger /\ mem'.physical = mem.physical
  /\ mem'.uncertain = mem.uncertain /\ mem'.spent = mem.spent
  /\ mem'.reserved = mem.reserved
  /\ mem.turns <= mem'.turns /\ mem.gCeil <= mem'.gCeil
  /\ AttemptTotal(mem') <= mem'.aCeil
  /\ \/ mem'.pending = None
     \/ mem'.pending = mem.pending /\ mem'.aReserved = mem.aReserved
  /\ \A d \in Requests : Advanced(mem.dispatch[d], mem'.dispatch[d])

\* The types of an entry and of a dispatch.
LEMMA EntryTypes ==
  ASSUME NEW s \in States, NEW k \in Keys
  PROVE  /\ s.ledger[k].cost \in Nat
         /\ s.ledger[k].status \in {"NONE", "RESERVED", "ACCOUNTED", "RELEASED",
                                   "UNCERTAIN_CONSUMED"}
         /\ k.turn \in Nat /\ k.nth \in Nat /\ k # None
<1>1. Prices \subseteq Nat /\ MaxTurns \in Nat /\ MaxRequests \in Nat
  BY LedgerConstants
<1>2. s.ledger[k] \in Entries
  BY FieldTypes
<1>3. /\ s.ledger[k].cost \in Nat
      /\ s.ledger[k].status \in {"NONE", "RESERVED", "ACCOUNTED", "RELEASED", "UNCERTAIN_CONSUMED"}
  <2>1. /\ s.ledger[k].cost \in Prices \cup {0}
        /\ s.ledger[k].status \in Settled \cup {"NONE", "RESERVED"}
    BY <1>2 DEF Entries
  <2>2. \A c \in Prices \cup {0} : c \in Nat
    BY LedgerConstants
  <2>3. s.ledger[k].cost \in Nat
    BY <2>1, <2>2, Zenon
  <2>. QED
    BY <2>1, <2>3 DEF Settled
<1>4. k.turn \in 1..MaxTurns /\ k.nth \in 1..(MaxRequests + 1)
  BY DEF Keys
<1>5. k.turn \in Nat /\ k.nth \in Nat
  BY <1>1, <1>4
<1>. QED
  BY <1>3, <1>5, NoneIsNoKey

LEMMA DispatchTypes ==
  ASSUME NEW s \in States, NEW d \in Requests
  PROVE  /\ s.dispatch[d] \in Dispatches
         /\ s.dispatch[d].key \in Keys \cup {None}
         /\ s.dispatch[d].attempt \in Attempts \cup {None}
         /\ s.dispatch[d].state \in Stages
BY FieldTypes DEF Dispatches

\* No quiet step disturbs the invariant of memory.
LEMMA QuietSound ==
  ASSUME mem \in States, mem' \in States, charged \in Nat, sent \subseteq Requests,
         Sound(mem), Quiet
  PROVE  Sound(mem)'
<1>. USE DEF Quiet, Advanced
<1>1. PendingFits(mem)'
  BY EntryTypes, FieldTypes DEF Sound, PendingFits
<1>2. EntriesFit(mem)'
  BY EntryTypes, FieldTypes DEF Sound, EntriesFit
<1>3. DispatchesFit(mem)'
  BY EntryTypes, FieldTypes, DispatchTypes DEF Sound, DispatchesFit
<1>4. MoneyFits(mem)'
  <2>1. /\ mem.pending \in Keys \cup {None} /\ mem.gCeil \in Nat /\ mem'.gCeil \in Nat
        /\ Total(mem) \in Nat /\ Total(mem') = Total(mem)
    BY FieldTypes DEF Total
  <2>2. charged' <= Total(mem') /\ WithinCeilings(mem')
    BY <2>1 DEF Sound, MoneyFits, WithinCeilings
  <2>3. ASSUME NEW d \in Requests, mem'.uncertain = 0, mem'.pending # None,
               mem'.dispatch[d].key = mem'.pending,
               mem'.dispatch[d].state = "RESERVATION_COMMITTED"
        PROVE  charged' + mem'.ledger[mem'.pending].cost <= Total(mem')
    BY <2>1, <2>3 DEF Sound, MoneyFits
  <2>4. ASSUME NEW d \in sent'
        PROVE  /\ mem'.dispatch[d].state \in {"DISPATCH_STARTED", "RESPONSE_OBSERVED"}
               /\ mem'.dispatch[d].key \in Keys
               /\ mem'.ledger[mem'.dispatch[d].key].status # "RELEASED"
    BY <2>4 DEF Sound, MoneyFits
  <2>. QED
    BY <2>2, <2>3, <2>4 DEF MoneyFits
<1>5. BillsFit(mem)'
  BY DEF Sound, BillsFit
<1>. QED
  BY <1>1, <1>2, <1>3, <1>4, <1>5 DEF Sound

-----------------------------------------------------------------------------
(* The actions that move no money. *)

\* The parts of the invariant, by name.
LEMMA Parts ==
  ASSUME IInv
  PROVE  /\ mem \in States /\ disk \in States /\ charged \in Nat
         /\ bill \in [Keys -> Nat \cup {None}] /\ sent \subseteq Requests
         /\ Sound(mem) /\ Sound(disk) /\ TurnFits /\ RequestFits /\ FileFits
         /\ WithinCeilings(mem) /\ AttemptTotal(mem) <= mem.aCeil
BY DEF IInv, TypeOK, Sound, MoneyFits, WithinCeilings

\* What remains to be shown of a step, once memory is sound after it.
LEMMA Closing ==
  ASSUME IInv, TypeOK', Sound(mem)', TurnFits', RequestFits', MemoryFollows,
         \/ disk' = mem'
         \/ disk' = disk /\ charged' = charged /\ sent' = sent /\ bill' = bill
  PROVE  IInv' /\ MemoryFollows
<1>1. FileFits'
  <2>1. CASE disk' = mem'
    <3>1. disk' \in States
      BY DEF TypeOK
    <3>2. Ledger!Idle(Book(disk'), Book(disk')) /\ disk'.gCeil <= disk'.gCeil
      BY <3>1, FieldTypes DEF Ledger!Idle
    <3>. QED
      BY <2>1, <3>2 DEF FileFits, Behind, Ledger!Moves, Ledger!Idle
  <2>2. CASE disk' = disk /\ bill' = bill
    BY <2>2 DEF MemoryFollows, FileFits, Behind, Ledger!Moves, Ledger!Idle, Ledger!Reserve,
                Ledger!Forget, Ledger!Account, Ledger!WriteOff, Ledger!Release, Ledger!Settles
  <2>. QED
    BY <2>1, <2>2
<1>. QED
  BY <1>1, FileSound DEF IInv

\* A quiet step that ends the request keeps the invariant.
LEMMA QuietIdleStep ==
  ASSUME IInv, TypeOK', Quiet, at' = "idle", disk' = mem' \/ disk' = disk
  PROVE  IInv' /\ MemoryFollows
<1>1. mem' \in States
  BY DEF TypeOK
<1>2. Sound(mem)'
  BY <1>1, Parts, QuietSound
<1>3. MemoryFollows
  <2>1. mem.pending = mem'.pending \/ mem'.pending = None
    BY DEF Quiet
  <2>. QED
    BY <1>1, <2>1, Parts, FileKept DEF Quiet, FileFits, MemoryFollows
<1>4. TurnFits' /\ RequestFits'
  BY IdleFits
<1>. QED
  BY <1>2, <1>3, <1>4, Closing DEF Quiet

\* The fields that Quiet speaks of and most of these actions leave alone.
SameMoney ==
  /\ mem'.ledger = mem.ledger /\ mem'.physical = mem.physical
  /\ mem'.uncertain = mem.uncertain /\ mem'.spent = mem.spent
  /\ mem'.reserved = mem.reserved
SameDispatches == mem'.dispatch = mem.dispatch
SameAttempt ==
  /\ mem'.aSpent = mem.aSpent /\ mem'.aUncertain = mem.aUncertain
  /\ mem'.aReserved = mem.aReserved
SameLimits == mem'.gCeil = mem.gCeil /\ mem'.aCeil = mem.aCeil

LEMMA MoneyKept ==
  ASSUME IInv, mem' \in States, SameMoney, SameLimits,
         mem'.pending = None \/ mem'.pending = mem.pending
  PROVE  MemoryFollows
<1>1. mem.gCeil <= mem'.gCeil
  BY Parts, FieldTypes DEF SameLimits
<1>. QED
  BY <1>1, Parts, FileKept DEF SameMoney, FileFits, MemoryFollows

LEMMA SameIsQuiet ==
  ASSUME IInv, charged' = charged, sent' = sent, bill' = bill, mem' \in States,
         SameMoney, SameDispatches, SameAttempt, SameLimits,
         mem.turns <= mem'.turns, mem'.pending = None \/ mem'.pending = mem.pending
  PROVE  Quiet
BY Parts, FieldTypes
   DEF Quiet, Advanced, AttemptTotal, SameMoney, SameDispatches, SameAttempt, SameLimits

Places == {"idle", "turn", "prepared", "reserved", "started", "sent", "answered", "failed"}
LEMMA TypeClosing ==
  ASSUME IInv, mem' \in States, disk' = mem' \/ disk' = disk,
         abort' = abort \/ abort' = TRUE,
         faults' = faults \/ (faults < MaxFaults /\ faults' = faults + 1),
         held' \in BOOLEAN, at' \in Places, cur' \in 0..MaxRequests,
         generation' \in 0..MaxRequests, charged' \in Nat,
         bill' \in [Keys -> Nat \cup {None}],
         sent' \subseteq Requests, crashes' = crashes
  PROVE  TypeOK'
<1>1. TypeOK /\ MaxFaults \in Nat
  BY LedgerConstants DEF IInv
<1>2. faults' \in 0..MaxFaults
  BY <1>1 DEF TypeOK
<1>. QED
  BY <1>1, <1>2 DEF TypeOK, Places

LEMMA BeginAttemptStep ==
  ASSUME IInv, NEW a \in Attempts, NEW own \in BOOLEAN, BeginAttempt(a, own)
  PROVE  IInv' /\ MemoryFollows
<1>. DEFINE B == Begun(mem, a)
<1>1. mem' = [B EXCEPT !.owned = @ \/ own]
  BY DEF BeginAttempt, Persist
<1>2. /\ charged' = charged /\ sent' = sent /\ bill' = bill /\ at' = "idle"
      /\ disk' = mem' \/ disk' = disk
  BY DEF BeginAttempt, Persist, PersistFails, history
<1>5. mem' \in States /\ Quiet
  <2>3. CASE mem.active = a
    <3>1. mem' = [mem EXCEPT !.owned = mem.owned \/ own]
      BY <1>1, <2>3 DEF Begun
    <3>2. mem' \in States /\ SameMoney /\ SameDispatches /\ SameAttempt /\ SameLimits
          /\ mem'.turns = mem.turns /\ mem'.pending = mem.pending
      BY <3>1, Parts DEF States, SameMoney, SameDispatches, SameAttempt, SameLimits
    <3>. QED
      BY <1>2, <3>2, Parts, FieldTypes, SameIsQuiet
  <2>4. CASE mem.active # a
    <3>1. B = [mem EXCEPT !.active = a, !.life = "ACTIVE", !.aSpent = 0, !.aUncertain = 0,
                          !.aReserved = 0, !.pending = None, !.recon = "CLEAR"]
      BY <2>4 DEF Begun
    <3>2. B \in States
      <4>. DEFINE C == [mem EXCEPT !.active = a, !.life = "ACTIVE", !.aSpent = 0,
                                   !.aUncertain = 0]
      <4>1. C \in States
        BY Parts DEF States
      <4>2. B = [C EXCEPT !.aReserved = 0, !.pending = None, !.recon = "CLEAR"]
        BY <3>1, Parts DEF States
      <4>. HIDE DEF B, C
      <4>. QED
        BY <4>1, <4>2 DEF States
    <3>3. /\ B.ledger = mem.ledger /\ B.physical = mem.physical
          /\ B.uncertain = mem.uncertain /\ B.spent = mem.spent /\ B.reserved = mem.reserved
          /\ B.dispatch = mem.dispatch /\ B.gCeil = mem.gCeil /\ B.aCeil = mem.aCeil
          /\ B.turns = mem.turns /\ B.pending = None
          /\ B.aSpent = 0 /\ B.aUncertain = 0 /\ B.aReserved = 0
      BY <3>1, Parts DEF States
    <3>. HIDE DEF B
    <3>4. /\ mem' \in States
          /\ mem'.ledger = B.ledger /\ mem'.physical = B.physical
          /\ mem'.uncertain = B.uncertain /\ mem'.spent = B.spent /\ mem'.reserved = B.reserved
          /\ mem'.dispatch = B.dispatch /\ mem'.gCeil = B.gCeil /\ mem'.aCeil = B.aCeil
          /\ mem'.turns = B.turns /\ mem'.pending = B.pending
          /\ mem'.aSpent = B.aSpent /\ mem'.aUncertain = B.aUncertain
          /\ mem'.aReserved = B.aReserved
      BY <1>1, <3>2 DEF States
    <3>5. Quiet
      BY <1>2, <3>3, <3>4, Parts, FieldTypes DEF Quiet, Advanced, AttemptTotal
    <3>. QED
      BY <3>4, <3>5
  <2>. QED
    BY <2>3, <2>4
<1>6. TypeOK'
  <2>. HIDE DEF B
  <2>1. /\ abort' = abort \/ abort' = TRUE
        /\ faults' = faults \/ (faults < MaxFaults /\ faults' = faults + 1)
    BY DEF BeginAttempt, Persist, PersistFails
  <2>. QED
    BY <1>2, <1>5, <2>1, TypeClosing, Parts DEF BeginAttempt, history, Places, IInv, TypeOK
<1>. QED
  BY <1>2, <1>5, <1>6, QuietIdleStep

LEMMA EndAttemptStep ==
  ASSUME IInv, EndAttempt
  PROVE  IInv' /\ MemoryFollows
<1>1. /\ charged' = charged /\ sent' = sent /\ bill' = bill /\ at' = "idle"
      /\ disk' = mem' \/ disk' = disk
      /\ mem' = [mem EXCEPT !.active = None, !.pending = None, !.life = "COMPLETED",
                            !.owned = FALSE]
  BY DEF EndAttempt, Persist, PersistFails, history
<1>2. mem' \in States /\ SameMoney /\ SameDispatches /\ SameAttempt /\ SameLimits
      /\ mem'.turns = mem.turns /\ mem'.pending = None
  BY <1>1, Parts DEF States, SameMoney, SameDispatches, SameAttempt, SameLimits
<1>3. Quiet
  BY <1>1, <1>2, Parts, FieldTypes, SameIsQuiet
<1>4. TypeOK'
  <2>1. /\ abort' = abort \/ abort' = TRUE
        /\ faults' = faults \/ (faults < MaxFaults /\ faults' = faults + 1)
    BY DEF EndAttempt, Persist, PersistFails
  <2>. QED
    BY <1>1, <1>2, <2>1, TypeClosing DEF EndAttempt, history, Places, IInv, TypeOK
<1>. QED
  BY <1>1, <1>3, <1>4, QuietIdleStep

\* Neither writes anything.
LEMMA NothingWrittenStep ==
  ASSUME IInv, ReleaseOwnership \/ BlockedByAbort
  PROVE  IInv' /\ MemoryFollows
<1>1. /\ charged' = charged /\ sent' = sent /\ bill' = bill /\ at' = "idle" /\ disk' = disk /\ mem' = mem
  BY DEF ReleaseOwnership, BlockedByAbort, history
<1>2. TypeOK'
  BY <1>1 DEF IInv, TypeOK, ReleaseOwnership, BlockedByAbort, history
<1>3. Quiet
  BY <1>1, Parts, FieldTypes, SameIsQuiet
     DEF SameMoney, SameDispatches, SameAttempt, SameLimits
<1>. QED
  BY <1>1, <1>2, <1>3, QuietIdleStep

LEMMA RefuseRequestStep ==
  ASSUME IInv, NEW c \in Prices, RefuseRequest(c)
  PROVE  IInv' /\ MemoryFollows
<1>1. /\ charged' = charged /\ sent' = sent /\ bill' = bill /\ at' = "idle"
      /\ disk' = mem' \/ disk' = disk
      /\ mem' = [mem EXCEPT !.dispatch[cur].func = "ABANDONED"]
      /\ at = "prepared"
  BY DEF RefuseRequest, history
<1>2. cur \in Requests
  BY <1>1, Parts DEF RequestFits
<1>. DEFINE D == [mem.dispatch EXCEPT ![cur] = [mem.dispatch[cur] EXCEPT !.func = "ABANDONED"]]
<1>3. /\ mem' = [mem EXCEPT !.dispatch = D]
      /\ D \in [Requests -> Dispatches]
      /\ \A d \in Requests : Advanced(mem.dispatch[d], D[d])
  <2>1. mem.dispatch \in [Requests -> Dispatches]
    BY Parts, FieldTypes
  <2>2. mem' = [mem EXCEPT !.dispatch = D]
    BY <1>1, Parts DEF States
  <2>3. D \in [Requests -> Dispatches]
    BY <1>2, <2>1 DEF Dispatches
  <2>4. \A d \in Requests : Advanced(mem.dispatch[d], D[d])
    BY <1>2, <2>1 DEF Dispatches, Advanced
  <2>. QED
    BY <2>2, <2>3, <2>4
<1>. HIDE DEF D
<1>4. mem' \in States /\ SameMoney /\ mem'.dispatch = D /\ SameAttempt /\ SameLimits
      /\ mem'.turns = mem.turns /\ mem'.pending = mem.pending
  BY <1>3, Parts DEF States, SameMoney, SameAttempt, SameLimits
<1>5. Quiet
  BY <1>1, <1>3, <1>4, Parts, FieldTypes
     DEF Quiet, AttemptTotal, SameMoney, SameAttempt, SameLimits
<1>6. TypeOK'
  BY <1>1, <1>4, TypeClosing DEF RefuseRequest, history, Places, IInv, TypeOK
<1>. QED
  BY <1>1, <1>5, <1>6, QuietIdleStep

LEMMA MigrateStep ==
  ASSUME IInv, NEW c \in GlobalCeilings, MigrateGlobalCeiling(c)
  PROVE  IInv' /\ MemoryFollows
<1>1. /\ charged' = charged /\ sent' = sent /\ bill' = bill /\ at' = "idle" /\ disk' = mem'
      /\ mem' = [mem EXCEPT !.gCeil = c] /\ c > mem.gCeil
  BY DEF MigrateGlobalCeiling, history, guardVars
<1>2. mem' \in States /\ SameMoney /\ SameDispatches /\ SameAttempt
      /\ mem'.gCeil = c /\ mem'.aCeil = mem.aCeil
      /\ mem'.turns = mem.turns /\ mem'.pending = mem.pending
  BY <1>1, Parts DEF States, SameMoney, SameDispatches, SameAttempt
<1>3. Quiet
  <2>1. mem.gCeil \in Nat /\ mem'.gCeil \in Nat /\ mem'.aCeil \in Nat
        /\ mem.aSpent \in Nat
    BY <1>2, Parts, FieldTypes
  <2>2. mem.gCeil <= mem'.gCeil /\ AttemptTotal(mem') <= mem'.aCeil
    BY <1>1, <1>2, <2>1, Parts DEF AttemptTotal, SameAttempt
  <2>. QED
    BY <1>1, <1>2, <2>2, Parts, FieldTypes
     DEF Quiet, Advanced, AttemptTotal, SameMoney, SameDispatches, SameAttempt
<1>4. TypeOK'
  BY <1>1, <1>2 DEF IInv, TypeOK, MigrateGlobalCeiling, history, guardVars
<1>. QED
  BY <1>1, <1>3, <1>4, QuietIdleStep

LEMMA ConfigureStep ==
  ASSUME IInv, NEW c \in AttemptCeilings, ConfigureAttemptCeiling(c)
  PROVE  IInv' /\ MemoryFollows
<1>1. /\ charged' = charged /\ sent' = sent /\ bill' = bill /\ at' = "idle" /\ disk' = mem'
      /\ mem' = [mem EXCEPT !.aCeil = c] /\ c >= mem.aSpent
      /\ mem.aReserved = 0 /\ mem.aUncertain = 0
  BY DEF ConfigureAttemptCeiling, Untouched, history, guardVars
<1>2. mem' \in States /\ SameMoney /\ SameDispatches /\ SameAttempt
      /\ mem'.gCeil = mem.gCeil /\ mem'.aCeil = c
      /\ mem'.turns = mem.turns /\ mem'.pending = mem.pending
  BY <1>1, Parts DEF States, SameMoney, SameDispatches, SameAttempt
<1>3. Quiet
  <2>1. mem.gCeil \in Nat /\ mem'.gCeil \in Nat /\ mem'.aCeil \in Nat
        /\ mem.aSpent \in Nat
    BY <1>2, Parts, FieldTypes
  <2>2. mem.gCeil <= mem'.gCeil /\ AttemptTotal(mem') <= mem'.aCeil
    BY <1>1, <1>2, <2>1, Parts DEF AttemptTotal, SameAttempt
  <2>. QED
    BY <1>1, <1>2, <2>2, Parts, FieldTypes
     DEF Quiet, Advanced, AttemptTotal, SameMoney, SameDispatches, SameAttempt
<1>4. TypeOK'
  BY <1>1, <1>2 DEF IInv, TypeOK, ConfigureAttemptCeiling, history, guardVars
<1>. QED
  BY <1>1, <1>3, <1>4, QuietIdleStep

-----------------------------------------------------------------------------
(* The actions that open a request, and the one that writes its answer down.  *)

LEMMA BeginLogicalTurnStep ==
  ASSUME IInv, BeginLogicalTurn
  PROVE  IInv' /\ MemoryFollows
<1>1. /\ charged' = charged /\ sent' = sent /\ bill' = bill /\ generation' = 0
      /\ disk' = mem' \/ disk' = disk
      /\ mem' = [mem EXCEPT !.turns = @ + 1]
      /\ mem.active # None /\ mem.turns < MaxTurns
      /\ at' \in {"turn", "idle"}
  BY DEF BeginLogicalTurn, Persist, PersistFails, history
<1>2. mem.turns \in Nat /\ mem.turns + 1 \in 0..MaxTurns
  BY <1>1, Parts, FieldTypes, LedgerConstants
<1>3. mem' \in States /\ SameMoney /\ SameDispatches /\ SameAttempt /\ SameLimits
      /\ mem'.turns = mem.turns + 1 /\ mem'.pending = mem.pending /\ mem'.active = mem.active
  BY <1>1, <1>2, Parts DEF States, SameMoney, SameDispatches, SameAttempt, SameLimits
<1>4. Sound(mem)'
  BY <1>1, <1>2, <1>3, Parts, SameIsQuiet, QuietSound
<1>5. TypeOK'
  <2>1. /\ abort' = abort \/ abort' = TRUE
        /\ faults' = faults \/ (faults < MaxFaults /\ faults' = faults + 1)
    BY DEF BeginLogicalTurn, Persist, PersistFails
  <2>. QED
    <3>1. 0 \in 0..MaxRequests
      BY LedgerConstants
    <3>. QED
      BY <1>1, <1>3, <2>1, <3>1, TypeClosing
       DEF BeginLogicalTurn, history, Places, IInv, TypeOK
<1>6. TurnFits'
  <2>1. mem.active \in Attempts
    BY <1>1, Parts, FieldTypes
  <2>2. \A k \in Keys : mem.ledger[k].status # "NONE" => k.turn < mem.turns + 1
    BY <1>2, Parts, EntryTypes DEF Sound, EntriesFit
  <2>3. \A d \in Requests : mem.dispatch[d].key # None => mem.dispatch[d].key.turn < mem.turns + 1
    BY <1>2, Parts, DispatchTypes, EntryTypes DEF Sound, DispatchesFit
  <2>. QED
    BY <1>1, <1>2, <1>3, <2>1, <2>2, <2>3 DEF TurnFits, SameMoney, SameDispatches
<1>7. RequestFits'
  BY <1>1 DEF RequestFits, InHand
<1>8. MemoryFollows
  BY <1>3, MoneyKept
<1>. QED
  BY <1>1, <1>4, <1>5, <1>6, <1>7, <1>8, Closing

LEMMA ReissueStep ==
  ASSUME IInv, NEW d \in Requests, Reissue(d)
  PROVE  IInv' /\ MemoryFollows
<1>1. /\ charged' = charged /\ sent' = sent /\ bill' = bill /\ generation' = d /\ at' = "turn"
      /\ disk' = disk /\ mem' = mem
      /\ mem.active = mem.dispatch[d].attempt
      /\ mem.dispatch[d].state = "DISPATCH_STARTED" /\ mem.dispatch[d].key # None
      /\ mem.ledger[mem.dispatch[d].key].status = "UNCERTAIN_CONSUMED"
  BY DEF Reissue, Recoverable, history
<1>2. d # 0 /\ d \in 0..MaxRequests
  BY LedgerConstants DEF Requests
<1>3. Sound(mem)'
  BY <1>1, Parts, FieldTypes, SameIsQuiet, QuietSound
     DEF SameMoney, SameDispatches, SameAttempt, SameLimits
<1>4. TypeOK'
  BY <1>1, <1>2 DEF Reissue, history, IInv, TypeOK
<1>5. TurnFits'
  <2>1. mem.active \in Attempts /\ mem.turns >= 1
    BY <1>1, Parts DEF Sound, DispatchesFit
  <2>2. mem.uncertain > 0
    BY <1>1, Parts, DispatchTypes DEF Sound, EntriesFit
  <2>3. \A k \in Keys : mem.ledger[k].status = "RELEASED" => k.turn < mem.turns
    BY <2>2, Parts DEF Sound, EntriesFit
  <2>. QED
    BY <1>1, <1>2, <2>1, <2>2, <2>3 DEF TurnFits
<1>6. RequestFits'
  BY <1>1 DEF RequestFits, InHand
<1>7. MemoryFollows
  BY <1>1, Parts DEF FileFits, MemoryFollows
<1>. QED
  BY <1>1, <1>3, <1>4, <1>5, <1>6, <1>7, Closing

LEMMA RecordResultStep ==
  ASSUME IInv, NEW answered \in BOOLEAN, RecordResult(answered)
  PROVE  IInv' /\ MemoryFollows
<1>. DEFINE new == [mem.dispatch[cur] EXCEPT
                      !.state = IF answered THEN "RESPONSE_OBSERVED" ELSE @,
                      !.func = IF answered THEN "RESPONSE_AVAILABLE" ELSE "RESPONSE_MISSING"]
            D == [mem.dispatch EXCEPT ![cur] = new]
<1>1. /\ charged' = charged /\ sent' = sent /\ bill' = bill /\ cur' = cur
      /\ generation' = generation
      /\ mem' = [mem EXCEPT !.dispatch[cur].state =
                               IF answered THEN "RESPONSE_OBSERVED" ELSE @,
                            !.dispatch[cur].func =
                               IF answered THEN "RESPONSE_AVAILABLE" ELSE "RESPONSE_MISSING"]
      /\ at = "sent" /\ at' \in {"answered", "failed", "idle"}
      /\ disk' = mem' \/ disk' = disk
      /\ at' # "idle" => disk' = mem'
  BY DEF RecordResult, Persist, PersistFails, history
<1>2. cur \in Requests /\ mem.dispatch[cur].state = "DISPATCH_STARTED"
  BY <1>1, Parts DEF RequestFits
<1>3. mem.dispatch \in [Requests -> Dispatches] /\ mem.dispatch[cur] \in Dispatches
  BY <1>2, Parts, FieldTypes
<1>4. /\ new \in Dispatches /\ Advanced(mem.dispatch[cur], new)
      /\ new.state \in {"DISPATCH_STARTED", "RESPONSE_OBSERVED"}
  BY <1>2, <1>3 DEF Dispatches, Stages, Advanced
<1>5. mem' = [mem EXCEPT !.dispatch = D]
  <2>. DEFINE s == IF answered THEN "RESPONSE_OBSERVED" ELSE mem.dispatch[cur].state
              f == IF answered THEN "RESPONSE_AVAILABLE" ELSE "RESPONSE_MISSING"
  <2>1. /\ new = [mem.dispatch[cur] EXCEPT !.state = s, !.func = f]
        /\ mem' = [mem EXCEPT !.dispatch[cur].state = s, !.dispatch[cur].func = f]
    BY <1>1, <1>2, <1>3, Parts DEF States, Dispatches
  <2>. HIDE DEF s, f, new
  <2>2. [mem.dispatch EXCEPT ![cur].state = s, ![cur].func = f] = D
    BY <1>2, <1>3, <2>1 DEF Dispatches
  <2>. HIDE DEF D
  <2>3. mem' = [mem EXCEPT !.dispatch =
                  [mem.dispatch EXCEPT ![cur].state = s, ![cur].func = f]]
    BY <2>1, <1>2, <1>3, Parts DEF States
  <2>. QED
    BY <2>2, <2>3
<1>. HIDE DEF new
<1>6. /\ D \in [Requests -> Dispatches] /\ D[cur] = new
      /\ \A d \in Requests : Advanced(mem.dispatch[d], D[d])
  BY <1>2, <1>3, <1>4 DEF Advanced
<1>. HIDE DEF D
<1>7. mem' \in States /\ SameMoney /\ mem'.dispatch = D /\ SameAttempt /\ SameLimits
      /\ mem'.turns = mem.turns /\ mem'.pending = mem.pending /\ mem'.active = mem.active
  BY <1>5, <1>6, Parts DEF States, SameMoney, SameAttempt, SameLimits
<1>8. Quiet
  BY <1>1, <1>6, <1>7, Parts, FieldTypes
     DEF Quiet, AttemptTotal, SameMoney, SameAttempt, SameLimits
<1>9. Sound(mem)'
  BY <1>7, <1>8, Parts, QuietSound
<1>10. TypeOK'
  <2>1. /\ abort' = abort \/ abort' = TRUE
        /\ faults' = faults \/ (faults < MaxFaults /\ faults' = faults + 1)
    BY DEF RecordResult, Persist, PersistFails
  <2>. QED
    BY <1>1, <1>7, <2>1, TypeClosing DEF RecordResult, history, Places, IInv, TypeOK
<1>11. TurnFits'
  BY <1>1, <1>7, Parts DEF TurnFits, SameMoney
<1>12. RequestFits'
  <2>1. Total(mem') = Total(mem)
    BY <1>7 DEF Total, SameMoney
  <2>. QED
    BY <1>1, <1>4, <1>6, <1>7, <2>1, Parts DEF RequestFits, InHand, SameMoney, Advanced
<1>13. MemoryFollows
  BY <1>7, MoneyKept
<1>. QED
  BY <1>1, <1>9, <1>10, <1>11, <1>12, <1>13, Closing

\* The least unused dispatch comes after every used one.
LEMMA PrepareDispatchStep ==
  ASSUME IInv, PrepareDispatch
  PROVE  IInv' /\ MemoryFollows
<1>. DEFINE d == CHOOSE x \in Unused : \A y \in Unused : x <= y
            new == [NoDispatch EXCEPT !.state = "REQUEST_PREPARED",
                                      !.attempt = mem.active, !.of = generation]
            D == [mem.dispatch EXCEPT ![d] = new]
<1>1. /\ charged' = charged /\ sent' = sent /\ bill' = bill
      /\ generation' = generation /\ cur' = d
      /\ mem' = [mem EXCEPT !.dispatch[d] = new]
      /\ at = "turn" /\ Unused # {} /\ at' \in {"prepared", "idle"}
      /\ disk' = mem' \/ disk' = disk
      /\ at' # "idle" => disk' = mem'
  BY DEF PrepareDispatch, Persist, PersistFails, history
<1>2. d \in Unused /\ \A y \in Unused : d <= y
  <2>1. PICK n \in 0..MaxRequests :
               \A x \in Requests : mem.dispatch[x].state = "NONE" <=> x > n
    BY Parts DEF Sound, DispatchesFit
  <2>2. n + 1 \in Unused /\ \A y \in Unused : n + 1 <= y
    BY <1>1, <2>1, LedgerConstants DEF Unused, Requests
  <2>. QED
    BY <2>2
<1>3. d \in Requests /\ mem.dispatch[d].state = "NONE"
  BY <1>2 DEF Unused
<1>. HIDE DEF d
<1>4. /\ mem.dispatch[d].key = None /\ mem.physical < d
      /\ mem.active \in Attempts /\ mem.turns >= 1
  BY <1>1, <1>3, Parts DEF Sound, DispatchesFit, TurnFits
<1>5. /\ new \in Dispatches /\ new.key = None /\ new.state = "REQUEST_PREPARED"
      /\ new.attempt = mem.active
  <2>1. generation \in 0..MaxRequests
    BY DEF IInv, TypeOK
  <2>. QED
    BY <1>4, <2>1 DEF NoDispatch, Dispatches, Stages
<1>. HIDE DEF new
<1>6. mem.dispatch \in [Requests -> Dispatches]
  BY Parts, FieldTypes
<1>7. /\ mem' = [mem EXCEPT !.dispatch = D] /\ D \in [Requests -> Dispatches]
      /\ D[d] = new /\ \A x \in Requests : x # d => D[x] = mem.dispatch[x]
  BY <1>1, <1>3, <1>5, <1>6
<1>. HIDE DEF D
<1>8. mem' \in States /\ SameMoney /\ mem'.dispatch = D /\ SameAttempt /\ SameLimits
      /\ mem'.turns = mem.turns /\ mem'.pending = mem.pending /\ mem'.active = mem.active
  BY <1>7, Parts DEF States, SameMoney, SameAttempt, SameLimits
<1>9. TypeOK'
  <2>1. /\ abort' = abort \/ abort' = TRUE
        /\ faults' = faults \/ (faults < MaxFaults /\ faults' = faults + 1)
    BY DEF PrepareDispatch, Persist, PersistFails
  <2>2. d \in 0..MaxRequests
    BY <1>3, LedgerConstants DEF Requests
  <2>. QED
    BY <1>1, <1>8, <2>1, <2>2, TypeClosing DEF PrepareDispatch, history, Places, IInv, TypeOK
<1>10. Sound(mem)'
  <2>1. PendingFits(mem)'
    BY <1>4, <1>7, <1>8, Parts DEF Sound, PendingFits, SameMoney, SameAttempt
  <2>2. EntriesFit(mem)'
    BY <1>8, Parts DEF Sound, EntriesFit, SameMoney
  <2>3. DispatchesFit(mem)'
    <3>1. ASSUME NEW x \in Requests
          PROVE  /\ D[x].state = "NONE" => D[x].key = None /\ mem.physical < x
                 /\ D[x].state # "NONE" => D[x].attempt \in Attempts /\ mem.turns >= 1
                 /\ D[x].key # None => D[x].key.turn <= mem.turns
      BY <1>4, <1>5, <1>7, Parts DEF Sound, DispatchesFit
    <3>2. \E n \in 0..MaxRequests : \A x \in Requests : D[x].state = "NONE" <=> x > n
      <4>1. PICK n \in 0..MaxRequests :
                   \A x \in Requests : mem.dispatch[x].state = "NONE" <=> x > n
        BY Parts DEF Sound, DispatchesFit
      <4>2. n + 1 \in Unused
        BY <1>3, <4>1, LedgerConstants DEF Unused, Requests
      <4>3. d = n + 1
        BY <1>2, <1>3, <4>1, <4>2, LedgerConstants DEF Requests
      <4>4. n + 1 \in 0..MaxRequests
        BY <1>3, <4>3, LedgerConstants DEF Requests
      <4>5. \A x \in Requests : D[x].state = "NONE" <=> x > n + 1
        BY <1>5, <1>7, <4>1, <4>3, LedgerConstants DEF Requests
      <4>. QED
        BY <4>4, <4>5
    <3>3. ASSUME mem.uncertain = 0, NEW x \in Requests, NEW y \in Requests, x # y,
                 D[x].key # None
          PROVE  D[x].key # D[y].key
      BY <1>4, <1>5, <1>7, <3>3, Parts DEF Sound, DispatchesFit
    <3>. QED
      BY <1>8, <3>1, <3>2, <3>3 DEF DispatchesFit, SameMoney
  <2>4. MoneyFits(mem)'
    <3>1. Total(mem') = Total(mem) /\ WithinCeilings(mem')
      BY <1>8, Parts DEF Total, WithinCeilings, AttemptTotal, SameMoney, SameAttempt, SameLimits
    <3>2. ASSUME NEW x \in Requests, mem.uncertain = 0, mem.pending # None,
                 D[x].key = mem.pending, D[x].state = "RESERVATION_COMMITTED"
          PROVE  charged + mem.ledger[mem.pending].cost <= Total(mem)
      BY <1>5, <1>7, <3>2, Parts DEF Sound, MoneyFits
    <3>3. ASSUME NEW x \in sent
          PROVE  /\ D[x].state \in {"DISPATCH_STARTED", "RESPONSE_OBSERVED"}
                 /\ D[x].key \in Keys
                 /\ mem.ledger[D[x].key].status # "RELEASED"
      BY <1>3, <1>7, <3>3, Parts DEF Sound, MoneyFits
    <3>4. charged <= Total(mem)
      BY Parts DEF Sound, MoneyFits
    <3>. QED
      BY ZenonT(20), <1>1, <1>8, <3>1, <3>2, <3>3, <3>4 DEF MoneyFits, SameMoney
  <2>5. BillsFit(mem)'
    <3>1. ASSUME NEW x \in sent
          PROVE  D[x] = mem.dispatch[x]
      BY <1>3, <1>7, <3>1, Parts DEF Sound, MoneyFits
    <3>. QED
      BY <1>1, <1>8, <3>1, Parts DEF Sound, BillsFit, SameMoney
  <2>. QED
    BY <2>1, <2>2, <2>3, <2>4, <2>5 DEF Sound
<1>11. TurnFits'
  BY <1>1, <1>5, <1>7, <1>8, Parts DEF TurnFits, SameMoney
<1>12. RequestFits'
  BY <1>1, <1>3, <1>4, <1>5, <1>7, <1>8 DEF RequestFits, InHand, SameMoney
<1>13. MemoryFollows
  BY <1>8, MoneyKept
<1>. QED
  BY <1>1, <1>9, <1>10, <1>11, <1>12, <1>13, Closing

-----------------------------------------------------------------------------
(* The actions that reserve and spend.                                        *)

\* The key a request reserves has no settled entry, and no owner either where
\* nothing is written off.
LEMMA FreshKey ==
  ASSUME IInv, at = "prepared"
  PROVE  /\ RequestId(mem) \in Keys /\ RequestId(mem).turn = mem.turns
         /\ RequestId(mem).nth = mem.physical + 1
         /\ mem.ledger[RequestId(mem)].status \in {"NONE", "RESERVED"}
         /\ mem.ledger[RequestId(mem)].status = "RESERVED" => mem.uncertain > 0
         /\ bill[RequestId(mem)] = None
         /\ mem.uncertain = 0 =>
              \A d \in Requests : mem.dispatch[d].key # RequestId(mem)
<1>. DEFINE k == RequestId(mem)
<1>1. /\ mem.active \in Attempts /\ mem.turns >= 1 /\ mem.turns \in 0..MaxTurns
      /\ cur \in Requests /\ mem.physical < cur /\ mem.physical \in 0..MaxRequests
      /\ mem.turns \in Nat /\ mem.physical \in Nat /\ mem.uncertain \in Nat
  BY Parts, FieldTypes DEF TurnFits, RequestFits
<1>2. k \in Keys /\ k.turn = mem.turns /\ k.nth = mem.physical + 1
  BY <1>1, LedgerConstants DEF RequestId, Keys, Requests
<1>. HIDE DEF k
<1>3. mem.ledger[k].status \notin {"ACCOUNTED", "UNCERTAIN_CONSUMED"}
  BY <1>1, <1>2, Parts DEF Sound, EntriesFit
<1>4. mem.ledger[k].status # "RELEASED"
  BY <1>1, <1>2, Parts DEF TurnFits
<1>5. mem.ledger[k].status \in {"NONE", "RESERVED"}
  BY <1>2, <1>3, <1>4, Parts, EntryTypes
<1>6. mem.uncertain = 0 => \A d \in Requests : mem.dispatch[d].key # k
  BY <1>1, <1>2, Parts, NoneIsNoKey DEF TurnFits
<1>7. mem.ledger[k].status = "RESERVED" => mem.uncertain > 0
  BY <1>1, <1>2, Parts DEF TurnFits
<1>8. bill[k] = None
  BY <1>1, <1>2, Parts DEF Sound, BillsFit
<1>. QED
  BY <1>2, <1>5, <1>6, <1>7, <1>8 DEF k

LEMMA ReserveStep ==
  ASSUME IInv, NEW c \in Prices, Reserve(c)
  PROVE  IInv' /\ MemoryFollows
<1>. DEFINE k == RequestId(mem)
            new == [mem.dispatch[cur] EXCEPT !.key = k, !.state = "RESERVATION_COMMITTED"]
            D == [mem.dispatch EXCEPT ![cur] = new]
            entry == [status |-> "RESERVED", cost |-> c]
            L == [mem.ledger EXCEPT ![k] = entry]
<1>1. /\ charged' = charged /\ sent' = sent /\ bill' = bill /\ cur' = cur
      /\ generation' = generation
      /\ mem' = [mem EXCEPT !.ledger[k] = entry,
                            !.pending = k,
                            !.aReserved = @ + c, !.reserved = @ + c,
                            !.dispatch[cur].key = k,
                            !.dispatch[cur].state = "RESERVATION_COMMITTED"]
      /\ at = "prepared" /\ Affordable(mem, c) /\ at' \in {"reserved", "idle"}
      /\ disk' = mem' \/ disk' = disk
      /\ at' # "idle" => disk' = mem'
  BY DEF Reserve, Persist, PersistFails, history
<1>2. /\ cur \in Requests /\ mem.dispatch[cur].state = "REQUEST_PREPARED"
      /\ mem.dispatch[cur].key = None /\ mem.physical < cur /\ disk = mem
  BY <1>1, Parts DEF RequestFits
<1>3. /\ k \in Keys /\ k.turn = mem.turns /\ k.nth = mem.physical + 1
      /\ mem.ledger[k].status \in {"NONE", "RESERVED"} /\ bill[k] = None
      /\ mem.ledger[k].status = "RESERVED" => mem.uncertain > 0
      /\ mem.uncertain = 0 => \A d \in Requests : mem.dispatch[d].key # k
  BY <1>1, FreshKey
<1>4. c \in Nat /\ c > 0
  BY LedgerConstants
<1>5. /\ mem.dispatch \in [Requests -> Dispatches] /\ mem.dispatch[cur] \in Dispatches
      /\ mem.ledger \in [Keys -> Entries]
      /\ mem.reserved \in Nat /\ mem.aReserved \in Nat /\ mem.turns \in Nat
      /\ mem.physical \in Nat /\ mem.uncertain \in Nat /\ charged \in Nat
  BY <1>2, Parts, FieldTypes
<1>. HIDE DEF k
<1>6. /\ new \in Dispatches /\ new.key = k /\ new.state = "RESERVATION_COMMITTED"
      /\ new.attempt = mem.dispatch[cur].attempt
      /\ [mem.dispatch EXCEPT ![cur].key = k, ![cur].state = "RESERVATION_COMMITTED"] = D
  BY <1>2, <1>3, <1>5 DEF Dispatches, Stages
<1>7. entry \in Entries /\ entry.status = "RESERVED" /\ entry.cost = c
  BY DEF Entries
<1>. HIDE DEF new, entry
<1>8. /\ D \in [Requests -> Dispatches] /\ D[cur] = new
      /\ \A d \in Requests : d # cur => D[d] = mem.dispatch[d]
      /\ L \in [Keys -> Entries] /\ L[k] = entry
      /\ \A x \in Keys : x # k => L[x] = mem.ledger[x]
  BY <1>2, <1>3, <1>5, <1>6, <1>7
<1>9. mem' = [mem EXCEPT !.ledger = L, !.pending = k,
                 !.aReserved = mem.aReserved + c, !.reserved = mem.reserved + c, !.dispatch = D]
  <2>1. mem' = [mem EXCEPT !.ledger = L, !.pending = k,
                 !.aReserved = mem.aReserved + c, !.reserved = mem.reserved + c,
                 !.dispatch = [mem.dispatch EXCEPT ![cur].key = k,
                                               ![cur].state = "RESERVATION_COMMITTED"]]
    BY ZenonT(20), <1>1, <1>2, <1>5, Parts DEF States
  <2>. HIDE DEF D
  <2>. QED
    BY <1>6, <2>1
<1>10. mem.aReserved + c \in Nat /\ mem.reserved + c \in Nat
  BY <1>4, <1>5
<1>. HIDE DEF D, L
<1>11. /\ mem' \in States /\ mem'.ledger = L /\ mem'.dispatch = D /\ mem'.pending = k
       /\ mem'.reserved = mem.reserved + c /\ mem'.aReserved = mem.aReserved + c
       /\ mem'.physical = mem.physical /\ mem'.uncertain = mem.uncertain
       /\ mem'.spent = mem.spent /\ mem'.aSpent = mem.aSpent
       /\ mem'.aUncertain = mem.aUncertain /\ SameLimits
       /\ mem'.turns = mem.turns /\ mem'.active = mem.active
  BY <1>3, <1>8, <1>9, <1>10, Parts DEF States, SameLimits
<1>12. Total(mem') = Total(mem) + c /\ Total(mem) \in Nat /\ WithinCeilings(mem')
  <2>1. /\ mem.spent \in Nat /\ mem.aSpent \in Nat /\ mem.aUncertain \in Nat
        /\ mem.gCeil \in Nat /\ mem.aCeil \in Nat
    BY Parts, FieldTypes
  <2>. QED
    BY <1>1, <1>4, <1>5, <1>11, <2>1
       DEF Total, WithinCeilings, AttemptTotal, Affordable, SameLimits
<1>13. TypeOK'
  <2>1. /\ abort' = abort \/ abort' = TRUE
        /\ faults' = faults \/ (faults < MaxFaults /\ faults' = faults + 1)
    BY DEF Reserve, Persist, PersistFails
  <2>. QED
    BY <1>1, <1>11, <2>1, TypeClosing DEF Reserve, history, Places, IInv, TypeOK
<1>14. Sound(mem)'
  <2>1. PendingFits(mem)'
    BY <1>2, <1>4, <1>5, <1>6, <1>7, <1>8, <1>11 DEF PendingFits
  <2>2. EntriesFit(mem)'
    BY <1>3, <1>5, <1>7, <1>8, <1>11, Parts DEF Sound, EntriesFit
  <2>3. DispatchesFit(mem)'
    <3>1. ASSUME NEW x \in Requests
          PROVE  /\ D[x].state = "NONE" => D[x].key = None /\ mem.physical < x
                 /\ D[x].state # "NONE" => D[x].attempt \in Attempts /\ mem.turns >= 1
                 /\ D[x].key # None => D[x].key.turn <= mem.turns
                 /\ D[x].state = "NONE" <=> mem.dispatch[x].state = "NONE"
      BY <1>2, <1>3, <1>5, <1>6, <1>8, Parts DEF Sound, DispatchesFit
    <3>2. \E n \in 0..MaxRequests : \A x \in Requests : D[x].state = "NONE" <=> x > n
      BY <3>1, Parts DEF Sound, DispatchesFit
    <3>3. ASSUME mem.uncertain = 0, NEW x \in Requests, NEW y \in Requests, x # y,
                 D[x].key # None
          PROVE  D[x].key # D[y].key
      BY <1>2, <1>3, <1>6, <1>8, <3>3, Parts DEF Sound, DispatchesFit
    <3>. QED
      BY <1>11, <3>1, <3>2, <3>3 DEF DispatchesFit
  <2>4. MoneyFits(mem)'
    <3>1. charged <= Total(mem)
      BY Parts DEF Sound, MoneyFits
    <3>2. charged' <= Total(mem') /\ charged' + L[k].cost <= Total(mem')
      BY <1>1, <1>4, <1>5, <1>7, <1>8, <1>12, <3>1
    <3>3. ASSUME NEW x \in sent
          PROVE  /\ D[x].state \in {"DISPATCH_STARTED", "RESPONSE_OBSERVED"}
                 /\ D[x].key \in Keys
                 /\ L[D[x].key].status # "RELEASED"
      BY <1>2, <1>7, <1>8, <3>3, Parts DEF Sound, MoneyFits
    <3>. QED
      BY <1>1, <1>11, <1>12, <3>2, <3>3 DEF MoneyFits
  <2>5. BillsFit(mem)'
    <3>1. ASSUME NEW x \in sent
          PROVE  D[x] = mem.dispatch[x]
      BY <1>2, <1>8, <3>1, Parts DEF Sound, MoneyFits
    <3>2. ASSUME NEW x \in Keys, bill[x] # None
          PROVE  x.nth <= mem.physical /\ \E d \in sent : D[d].key = x
      <4>1. x.nth <= mem.physical /\ \E d \in sent : mem.dispatch[d].key = x
        BY <3>2, Parts DEF Sound, BillsFit
      <4>. QED
        BY <3>1, <4>1
    <3>. QED
      BY <1>1, <1>11, <3>2 DEF BillsFit
  <2>. QED
    BY <2>1, <2>2, <2>3, <2>4, <2>5 DEF Sound
<1>15. TurnFits'
  BY <1>1, <1>7, <1>8, <1>11, Parts DEF TurnFits
<1>16. RequestFits'
  <2>1. charged + c <= Total(mem')
    BY <1>4, <1>5, <1>12, Parts DEF Sound, MoneyFits
  <2>. QED
    BY <1>1, <1>2, <1>3, <1>5, <1>6, <1>7, <1>8, <1>11, <2>1 DEF RequestFits, InHand
<1>17. MemoryFollows
  <2>2. Ledger!Reserve(Book(mem), Book(mem'), k, c)
    BY <1>3, <1>11, BookFields DEF Ledger!Reserve, L, entry
  <2>3. Ledger!Moves(Book(mem), Book(mem'))
    BY <1>3, <2>2 DEF Ledger!Moves
  <2>4. mem.gCeil <= mem'.gCeil
    BY <1>11, Parts, FieldTypes DEF SameLimits
  <2>. QED
    BY <1>2, <1>11, <2>2, <2>3, <2>4 DEF MemoryFollows, Behind
<1>. QED
  BY <1>1, <1>13, <1>14, <1>15, <1>16, <1>17, Closing

LEMMA MarkDispatchStartedStep ==
  ASSUME IInv, MarkDispatchStarted
  PROVE  IInv' /\ MemoryFollows
<1>1. at = "reserved"
  BY DEF MarkDispatchStarted
<1>2. /\ cur \in Requests /\ mem.dispatch[cur].state = "RESERVATION_COMMITTED"
      /\ mem.dispatch[cur].key = mem.pending /\ mem.physical < cur /\ disk = mem
      /\ mem.pending \in Keys /\ mem.pending.nth <= mem.physical + 1
      /\ bill[mem.pending] = None
      /\ charged + mem.ledger[mem.pending].cost <= Total(mem)
  BY <1>1, Parts DEF RequestFits
<1>3. CASE PersistFails /\ UNCHANGED mem
  <2>1. /\ charged' = charged /\ sent' = sent /\ bill' = bill /\ at' = "idle" /\ disk' = disk /\ mem' = mem
    BY <1>3 DEF MarkDispatchStarted, PersistFails, history
  <2>2. TypeOK'
    <3>1. /\ abort' = abort \/ abort' = TRUE
          /\ faults' = faults \/ (faults < MaxFaults /\ faults' = faults + 1)
      BY <1>3 DEF PersistFails
    <3>. QED
      BY <2>1, <3>1, Parts, TypeClosing
         DEF MarkDispatchStarted, history, Places, IInv, TypeOK
  <2>3. Quiet
    BY <2>1, Parts, FieldTypes, SameIsQuiet
       DEF SameMoney, SameDispatches, SameAttempt, SameLimits
  <2>. QED
    BY <2>1, <2>2, <2>3, QuietIdleStep
<1>4. CASE /\ mem' = [mem EXCEPT !.physical = @ + 1, !.dispatch[cur].state = "DISPATCH_STARTED"]
           /\ disk' = mem' /\ at' = "started"
           /\ UNCHANGED <<abort, faults>>
  <2>. DEFINE new == [mem.dispatch[cur] EXCEPT !.state = "DISPATCH_STARTED"]
              D == [mem.dispatch EXCEPT ![cur] = new]
  <2>1. /\ charged' = charged /\ sent' = sent /\ bill' = bill /\ cur' = cur
        /\ generation' = generation
    BY DEF MarkDispatchStarted, history
  <2>2. /\ mem.dispatch \in [Requests -> Dispatches] /\ mem.dispatch[cur] \in Dispatches
        /\ mem.physical \in Nat /\ mem.turns \in Nat /\ mem.uncertain \in Nat
        /\ charged \in Nat /\ MaxRequests \in Nat
    BY <1>2, Parts, FieldTypes, LedgerConstants
  <2>3. /\ new \in Dispatches /\ new.key = mem.pending /\ new.state = "DISPATCH_STARTED"
        /\ new.attempt = mem.dispatch[cur].attempt
    BY <1>2, <2>2 DEF Dispatches, Stages
  <2>4. mem' = [mem EXCEPT !.physical = mem.physical + 1, !.dispatch = D]
    BY <1>2, <1>4, <2>2, Parts DEF States
  <2>5. mem.physical + 1 \in 0..MaxRequests /\ mem.physical + 1 <= cur
    BY <1>2, <2>2 DEF Requests
  <2>. HIDE DEF new
  <2>6. /\ D \in [Requests -> Dispatches] /\ D[cur] = new
        /\ \A d \in Requests : d # cur => D[d] = mem.dispatch[d]
    BY <1>2, <2>2, <2>3
  <2>. HIDE DEF D
  <2>7. /\ mem' \in States /\ SameAttempt /\ SameLimits /\ mem'.dispatch = D
        /\ mem'.physical = mem.physical + 1 /\ mem'.ledger = mem.ledger
        /\ mem'.uncertain = mem.uncertain /\ mem'.spent = mem.spent
        /\ mem'.reserved = mem.reserved /\ mem'.pending = mem.pending
        /\ mem'.turns = mem.turns /\ mem'.active = mem.active
    BY <2>4, <2>5, <2>6, Parts DEF States, SameAttempt, SameLimits
  <2>8. Total(mem') = Total(mem) /\ WithinCeilings(mem')
    BY <2>7, Parts DEF Total, WithinCeilings, AttemptTotal, SameAttempt, SameLimits
  <2>9. TypeOK'
    BY <1>4, <2>1, <2>7, TypeClosing DEF MarkDispatchStarted, history, Places, IInv, TypeOK
  <2>10. Sound(mem)'
    <3>1. PendingFits(mem)'
      BY <1>2, <2>3, <2>6, <2>7, Parts DEF Sound, PendingFits, SameAttempt
    <3>2. EntriesFit(mem)'
      <4>1. \A k \in Keys : k.nth \in Nat
        BY Parts, EntryTypes
      <4>. QED
        BY <2>2, <2>7, <4>1, Parts DEF Sound, EntriesFit
    <3>3. DispatchesFit(mem)'
      <4>0. PICK n \in 0..MaxRequests :
                 \A x \in Requests : mem.dispatch[x].state = "NONE" <=> x > n
        BY Parts DEF Sound, DispatchesFit
      <4>1. ASSUME NEW x \in Requests
            PROVE  /\ D[x].state = "NONE" <=> mem.dispatch[x].state = "NONE"
                   /\ D[x].state = "NONE" => D[x].key = None /\ mem.physical + 1 < x
                   /\ D[x].state # "NONE" => D[x].attempt \in Attempts /\ mem.turns >= 1
                   /\ D[x].key # None => D[x].key.turn <= mem.turns
                   /\ D[x].key = mem.dispatch[x].key
        <5>1. CASE x = cur
          BY <1>2, <2>3, <2>6, <5>1, Parts DEF Sound, DispatchesFit
        <5>2. CASE x # cur
          <6>1. ~(cur > n)
            BY <1>2, <4>0
          <6>2. x > n => mem.physical + 1 < x
            BY <1>2, <2>2, <2>5, <4>0, <6>1 DEF Requests
          <6>. QED
            BY <2>6, <4>0, <5>2, <6>2, Parts DEF Sound, DispatchesFit
        <5>. QED
          BY <5>1, <5>2
      <4>2. \E m \in 0..MaxRequests : \A x \in Requests : D[x].state = "NONE" <=> x > m
        BY <4>0, <4>1
      <4>3. ASSUME mem.uncertain = 0, NEW x \in Requests, NEW y \in Requests, x # y,
                   D[x].key # None
            PROVE  D[x].key # D[y].key
        BY <4>1, <4>3, Parts DEF Sound, DispatchesFit
      <4>. QED
        BY <2>7, <4>1, <4>2, <4>3 DEF DispatchesFit
    <3>4. MoneyFits(mem)'
      <4>1. charged <= Total(mem)
        BY Parts DEF Sound, MoneyFits
      <4>2. ASSUME NEW x \in Requests, mem.uncertain = 0, mem.pending # None,
                   D[x].key = mem.pending, D[x].state = "RESERVATION_COMMITTED"
            PROVE  charged + mem.ledger[mem.pending].cost <= Total(mem)
        BY <1>2
      <4>3. ASSUME NEW x \in sent
            PROVE  /\ D[x].state \in {"DISPATCH_STARTED", "RESPONSE_OBSERVED"}
                   /\ D[x].key \in Keys
                   /\ mem.ledger[D[x].key].status # "RELEASED"
        BY <1>2, <2>6, <4>3, Parts DEF Sound, MoneyFits
      <4>. QED
        BY <2>1, <2>7, <2>8, <4>1, <4>2, <4>3 DEF MoneyFits
    <3>5. BillsFit(mem)'
      <4>1. ASSUME NEW x \in sent
            PROVE  D[x].key = mem.dispatch[x].key
        BY <1>2, <2>3, <2>6, <4>1, Parts
      <4>2. \A k \in Keys : k.nth \in Nat
        BY Parts, EntryTypes
      <4>. QED
        BY <2>1, <2>2, <2>7, <4>1, <4>2, Parts DEF Sound, BillsFit
    <3>. QED
      BY <3>1, <3>2, <3>3, <3>4, <3>5 DEF Sound
  <2>11. TurnFits'
    BY <1>1, <1>4, <2>1, <2>7, Parts DEF TurnFits
  <2>12. RequestFits'
    BY <1>1, <1>2, <1>4, <2>1, <2>2, <2>3, <2>6, <2>7, <2>8 DEF RequestFits, InHand
  <2>13. MemoryFollows
    <3>1. mem'.pending = mem.pending /\ mem'.reserved = mem.reserved
      BY <2>4, Parts DEF States
    <3>2. mem.gCeil <= mem'.gCeil
      BY <2>7, Parts, FieldTypes DEF SameLimits
    <3>. QED
      BY <2>7, <3>1, <3>2, Parts, FileKept DEF FileFits, MemoryFollows
  <2>. QED
    BY <1>4, <2>9, <2>10, <2>11, <2>12, <2>13, Closing
<1>. QED
  BY <1>3, <1>4 DEF MarkDispatchStarted

LEMMA SendStep ==
  ASSUME IInv, NEW c \in 0..mem.gCeil, Send(c)
  PROVE  IInv' /\ MemoryFollows
<1>1. /\ mem' = mem /\ disk' = disk /\ at = "started" /\ at' = "sent" /\ cur' = cur
      /\ generation' = generation /\ bill' = [bill EXCEPT ![mem.pending] = c]
      /\ charged' = charged + c /\ sent' = sent \cup {cur}
      /\ c <= mem.ledger[mem.pending].cost
  BY DEF Send
<1>2. /\ cur \in Requests /\ mem.dispatch[cur].state = "DISPATCH_STARTED"
      /\ mem.pending \in Keys /\ mem.dispatch[cur].key = mem.pending /\ disk = mem
      /\ charged + mem.ledger[mem.pending].cost <= Total(mem)
      /\ mem.pending.nth <= mem.physical
  BY <1>1, Parts DEF RequestFits, InHand
<1>3. /\ c \in Nat /\ charged \in Nat /\ charged' \in Nat /\ mem.pending # None
      /\ mem.ledger[mem.pending].cost \in Nat /\ Total(mem) \in Nat
      /\ charged' <= Total(mem)
  <2>1. /\ mem.gCeil \in Nat /\ charged \in Nat /\ mem.ledger[mem.pending].cost \in Nat
        /\ mem.spent \in Nat /\ mem.uncertain \in Nat /\ mem.reserved \in Nat
        /\ mem.pending # None
    BY <1>2, Parts, FieldTypes, EntryTypes
  <2>2. Total(mem) \in Nat
    BY <2>1 DEF Total
  <2>. QED
    BY <1>1, <1>2, <2>1, <2>2
<1>4. TypeOK'
  BY <1>1, <1>2, <1>3, Parts, TypeClosing DEF Send, Places, IInv, TypeOK
<1>5. Sound(mem)'
  <2>1. PendingFits(mem)' /\ EntriesFit(mem)' /\ DispatchesFit(mem)'
    BY <1>1, Parts DEF Sound, PendingFits, EntriesFit, DispatchesFit
  <2>2. ASSUME NEW d \in Requests, mem.uncertain = 0, mem.dispatch[d].key = mem.pending,
               mem.dispatch[d].state = "RESERVATION_COMMITTED"
        PROVE  FALSE
    BY <1>2, <1>3, <2>2, Parts DEF Sound, DispatchesFit
  <2>3. mem.ledger[mem.pending].status = "RESERVED"
    BY <1>3, Parts DEF Sound, PendingFits
  <2>4. ASSUME NEW d \in sent'
        PROVE  /\ mem.dispatch[d].state \in {"DISPATCH_STARTED", "RESPONSE_OBSERVED"}
               /\ mem.dispatch[d].key \in Keys
               /\ mem.ledger[mem.dispatch[d].key].status # "RELEASED"
    BY <1>1, <1>2, <2>3, <2>4, Parts DEF Sound, MoneyFits
  <2>5. MoneyFits(mem)'
    BY <1>1, <1>3, <2>2, <2>4, Parts DEF MoneyFits
  <2>6. BillsFit(mem)'
    <3>1. ASSUME NEW k \in Keys, bill'[k] # None
          PROVE  k.nth <= mem.physical /\ \E d \in sent' : mem.dispatch[d].key = k
      <4>1. CASE k = mem.pending
        BY <1>1, <1>2, <4>1
      <4>2. CASE k # mem.pending
        <5>1. bill[k] # None
          BY <1>1, <3>1, <4>2, Parts
        <5>. QED
          BY <1>1, <5>1, Parts DEF Sound, BillsFit
      <4>. QED
        BY <4>1, <4>2
    <3>. QED
      BY <1>1, <3>1 DEF BillsFit
  <2>. QED
    BY <2>1, <2>5, <2>6 DEF Sound
<1>6. TurnFits'
  BY <1>1, Parts DEF TurnFits
<1>7. RequestFits'
  <2>1. bill'[mem.pending] = c
    BY <1>1, <1>2, Parts
  <2>2. charged' - c + mem.ledger[mem.pending].cost <= Total(mem)
    BY <1>1, <1>2, <1>3
  <2>. QED
    BY <1>1, <1>2, <1>3, <2>1, <2>2 DEF RequestFits, InHand
<1>8. MemoryFollows
  BY <1>1, Parts DEF FileFits, MemoryFollows
<1>. QED
  BY <1>1, <1>2, <1>4, <1>5, <1>6, <1>7, <1>8, Closing

\* An entry is settled: what was reserved for it is spent or written off.
SettledAs(status, spent, lost) ==
  LET cost == mem.ledger[mem.pending].cost
  IN  /\ mem'.ledger = [mem.ledger EXCEPT ![mem.pending].status = status]
      /\ mem'.reserved = mem.reserved - cost /\ mem'.aReserved = mem.aReserved - cost
      /\ mem'.spent = mem.spent + spent /\ mem'.aSpent = mem.aSpent + spent
      /\ mem'.uncertain = mem.uncertain + lost /\ mem'.aUncertain = mem.aUncertain + lost
      /\ mem'.pending = None /\ SameLimits /\ SameDispatches
      /\ mem'.physical = mem.physical /\ mem'.turns = mem.turns

LEMMA SettledSound ==
  ASSUME IInv, at \in {"answered", "failed"}, mem' \in States,
         NEW status \in {"ACCOUNTED", "UNCERTAIN_CONSUMED"}, NEW spent \in Nat, NEW lost \in Nat,
         SettledAs(status, spent, lost), charged' = charged, sent' = sent, bill' = bill,
         spent + lost <= mem.ledger[mem.pending].cost,
         charged + mem.ledger[mem.pending].cost <= Total(mem) + spent + lost,
         bill[mem.pending] # None,
         status = "ACCOUNTED" => spent = bill[mem.pending] /\ lost = 0,
         status = "UNCERTAIN_CONSUMED" =>
           spent = 0 /\ lost = mem.ledger[mem.pending].cost /\ lost > 0,
         disk' = mem' \/ disk' = disk
  PROVE  Sound(mem)' /\ MemoryFollows
<1>. DEFINE k == mem.pending
            c == mem.ledger[k].cost
            L == [mem.ledger EXCEPT ![k].status = status]
<1>1. /\ k \in Keys /\ k.nth <= mem.physical /\ disk = mem
      /\ mem.ledger[k].status = "RESERVED"
  <2>1. k \in Keys /\ k.nth <= mem.physical /\ disk = mem
    BY Parts DEF RequestFits, InHand
  <2>. QED
    BY <2>1, Parts, NoneIsNoKey DEF Sound, PendingFits
<1>2. /\ mem.ledger \in [Keys -> Entries] /\ mem.physical \in Nat /\ mem.turns \in Nat
      /\ mem.spent \in Nat /\ mem.uncertain \in Nat /\ mem.reserved \in Nat
      /\ mem.aSpent \in Nat /\ mem.aUncertain \in Nat /\ mem.aReserved \in Nat
      /\ mem.gCeil \in Nat /\ mem.aCeil \in Nat /\ charged \in Nat /\ c \in Nat
  BY <1>1, Parts, FieldTypes, EntryTypes
<1>3. /\ L[k].status = status
      /\ \A x \in Keys : /\ L[x].cost = mem.ledger[x].cost
                         /\ x # k => L[x] = mem.ledger[x]
  BY <1>1, <1>2 DEF Entries
<1>4. /\ mem'.ledger = L
      /\ mem'.reserved = mem.reserved - c /\ mem'.aReserved = mem.aReserved - c
      /\ mem'.spent = mem.spent + spent /\ mem'.aSpent = mem.aSpent + spent
      /\ mem'.uncertain = mem.uncertain + lost /\ mem'.aUncertain = mem.aUncertain + lost
      /\ mem'.pending = None /\ SameLimits /\ mem'.dispatch = mem.dispatch
      /\ mem'.physical = mem.physical /\ mem'.turns = mem.turns
      /\ spent + lost <= c /\ charged + c <= Total(mem) + spent + lost
  BY DEF SettledAs, SameDispatches
<1>. HIDE DEF k, c, L
<1>5. PendingFits(mem)'
  BY <1>4 DEF PendingFits
<1>6. EntriesFit(mem)'
  <2>1. \A x \in Keys : mem.ledger[x].status = "RELEASED" => x.turn < mem.turns
    BY Parts DEF TurnFits
  <2>2. \A x \in Keys : /\ mem.ledger[x].status # "NONE" => x.turn <= mem.turns
                        /\ mem.ledger[x].status = "RESERVED" => mem.ledger[x].cost \in Prices
                        /\ mem.ledger[x].status = "UNCERTAIN_CONSUMED" => mem.uncertain > 0
                        /\ mem.ledger[x].status \in {"ACCOUNTED", "UNCERTAIN_CONSUMED"} =>
                             x.nth <= mem.physical
    BY Parts DEF Sound, EntriesFit
  <2>. QED
    BY <1>1, <1>2, <1>3, <1>4, <2>1, <2>2 DEF EntriesFit
<1>7. DispatchesFit(mem)'
  <2>1. mem'.uncertain = 0 => mem.uncertain = 0
    BY <1>2, <1>4
  <2>. QED
    BY <1>4, <2>1, Parts DEF Sound, DispatchesFit
<1>8. MoneyFits(mem)'
  <2>1. charged' <= Total(mem') /\ WithinCeilings(mem')
    <3>1. Total(mem') = Total(mem) - c + spent + lost
      BY <1>2, <1>4 DEF Total
    <3>2. AttemptTotal(mem') = AttemptTotal(mem) - c + spent + lost
      BY <1>2, <1>4 DEF AttemptTotal
    <3>3. Total(mem) \in Nat /\ AttemptTotal(mem) \in Nat
      BY <1>2 DEF Total, AttemptTotal
    <3>4. Total(mem) <= mem.gCeil /\ AttemptTotal(mem) <= mem.aCeil
      BY Parts DEF WithinCeilings
    <3>5. mem'.gCeil = mem.gCeil /\ mem'.aCeil = mem.aCeil
      BY <1>4 DEF SameLimits
    <3>. QED
      BY <1>2, <1>4, <3>1, <3>2, <3>3, <3>4, <3>5 DEF WithinCeilings
  <2>2. ASSUME NEW d \in sent
        PROVE  /\ mem.dispatch[d].state \in {"DISPATCH_STARTED", "RESPONSE_OBSERVED"}
               /\ mem.dispatch[d].key \in Keys
               /\ L[mem.dispatch[d].key].status # "RELEASED"
    BY <1>3, <2>2, Parts DEF Sound, MoneyFits
  <2>. QED
    BY <1>4, <2>1, <2>2 DEF MoneyFits
<1>9. MemoryFollows
  <2>1. Ledger!Settles(Book(mem), Book(mem'), k, status)
    BY <1>1, <1>4, BookFields DEF Ledger!Settles, L, c
  <2>2. \/ Ledger!Account(Book(mem), Book(mem'), k)
        \/ Ledger!WriteOff(Book(mem), Book(mem'), k)
    <3>1. CASE status = "ACCOUNTED"
      <4>1. mem'.spent = mem.spent + bill[k] /\ mem'.uncertain = mem.uncertain
        BY <1>2, <1>4, <3>1 DEF k
      <4>. QED
        BY <2>1, <3>1, <4>1, BookFields DEF Ledger!Account, k
    <3>2. CASE status = "UNCERTAIN_CONSUMED"
      <4>1. mem'.spent = mem.spent /\ mem'.uncertain = mem.uncertain + mem.ledger[k].cost
        BY <1>2, <1>4, <3>2 DEF k, c
      <4>. QED
        BY <2>1, <3>2, <4>1, BookFields DEF Ledger!WriteOff, k
    <3>. QED
      BY <3>1, <3>2
  <2>3. mem.gCeil <= mem'.gCeil
    BY <1>2, <1>4 DEF SameLimits
  <2>. QED
    BY <1>1, <1>4, <2>2, <2>3 DEF MemoryFollows, Behind, Ledger!Moves
<1>10. BillsFit(mem)'
  BY <1>4, Parts DEF Sound, BillsFit
<1>. QED
  BY <1>5, <1>6, <1>7, <1>8, <1>9, <1>10 DEF Sound

\* What settling needs to know of the request in hand.
LEMMA Reserved ==
  ASSUME IInv, at \in {"answered", "failed"}
  PROVE  /\ mem.pending \in Keys /\ mem.ledger \in [Keys -> Entries] /\ disk = mem
         /\ mem.ledger[mem.pending].cost \in Nat /\ mem.ledger[mem.pending].cost > 0
         /\ mem.ledger[mem.pending].cost <= mem.reserved
         /\ mem.ledger[mem.pending].cost <= mem.aReserved
         /\ bill[mem.pending] <= mem.ledger[mem.pending].cost
         /\ charged - bill[mem.pending] + mem.ledger[mem.pending].cost <= Total(mem)
         /\ charged <= Total(mem) /\ charged \in Nat
         /\ bill[mem.pending] \in Nat /\ bill[mem.pending] # None
         /\ Total(mem) \in Nat
         /\ mem.spent \in Nat /\ mem.uncertain \in Nat /\ mem.reserved \in Nat
         /\ mem.aSpent \in Nat /\ mem.aUncertain \in Nat /\ mem.aReserved \in Nat
<1>1. /\ mem.pending \in Keys /\ disk = mem /\ bill[mem.pending] \in Nat
      /\ bill[mem.pending] <= mem.ledger[mem.pending].cost
      /\ charged - bill[mem.pending] + mem.ledger[mem.pending].cost <= Total(mem)
  BY Parts DEF RequestFits, InHand
<1>2. /\ mem.ledger[mem.pending].status = "RESERVED"
      /\ mem.ledger[mem.pending].cost <= mem.reserved
      /\ mem.ledger[mem.pending].cost <= mem.aReserved
  BY <1>1, Parts, NoneIsNoKey DEF Sound, PendingFits
<1>3. mem.ledger[mem.pending].cost \in Prices
  BY <1>1, <1>2, Parts DEF Sound, EntriesFit
<1>4. mem.ledger[mem.pending].cost \in Nat /\ mem.ledger[mem.pending].cost > 0
  <2>1. Prices \subseteq Nat \ {0}
    BY LedgerConstants, Zenon
  <2>2. \A p \in Nat \ {0} : p \in Nat /\ p > 0
    OBVIOUS
  <2>. QED
    BY <1>3, <2>1, <2>2
<1>5. /\ mem.spent \in Nat /\ mem.uncertain \in Nat /\ mem.reserved \in Nat
      /\ mem.aSpent \in Nat /\ mem.aUncertain \in Nat /\ mem.aReserved \in Nat
      /\ mem.ledger \in [Keys -> Entries] /\ charged \in Nat
  BY Parts, FieldTypes
<1>6. charged <= Total(mem) /\ Total(mem) \in Nat
  BY <1>5, Parts DEF Sound, MoneyFits, Total
<1>7. bill[mem.pending] # None
  <2>1. None \notin Nat
    BY LedgerConstants
  <2>. QED
    BY <1>1, <2>1
<1>. QED
  BY <1>1, <1>2, <1>4, <1>5, <1>6, <1>7

LEMMA AccountResponseStep ==
  ASSUME IInv, AccountResponse
  PROVE  IInv' /\ MemoryFollows
<1>. DEFINE k == mem.pending
            c == mem.ledger[k].cost
            b == bill[mem.pending]
            L == [mem.ledger EXCEPT ![k].status = "ACCOUNTED"]
<1>1. /\ charged' = charged /\ sent' = sent /\ bill' = bill /\ at' = "idle" /\ at = "answered"
      /\ disk' = mem' \/ disk' = disk
      /\ mem' = [mem EXCEPT !.reserved = @ - c, !.aReserved = @ - c,
                            !.spent = @ + b, !.aSpent = @ + b,
                            !.ledger[k].status = "ACCOUNTED",
                            !.pending = None, !.recon = "CLEAR"]
  BY DEF AccountResponse, Persist, PersistFails, history
<1>2. /\ k \in Keys /\ mem.ledger \in [Keys -> Entries] /\ c \in Nat /\ c <= mem.reserved
      /\ c <= mem.aReserved /\ b <= c /\ charged - b + c <= Total(mem)
      /\ charged \in Nat /\ b \in Nat /\ b # None /\ Total(mem) \in Nat
      /\ mem.spent \in Nat /\ mem.uncertain \in Nat /\ mem.reserved \in Nat
      /\ mem.aSpent \in Nat /\ mem.aUncertain \in Nat /\ mem.aReserved \in Nat
  BY <1>1, Reserved
<1>3. /\ mem' = [mem EXCEPT !.reserved = mem.reserved - c, !.aReserved = mem.aReserved - c,
                            !.spent = mem.spent + b, !.aSpent = mem.aSpent + b,
                            !.ledger = L, !.pending = None, !.recon = "CLEAR"]
      /\ L \in [Keys -> Entries]
  <2>1. L \in [Keys -> Entries]
    BY <1>2 DEF Entries, Settled
  <2>. QED
    BY <1>1, <2>1, Parts DEF States
<1>4. /\ mem.reserved - c \in Nat /\ mem.aReserved - c \in Nat
      /\ mem.spent + b \in Nat /\ mem.aSpent + b \in Nat
      /\ mem.uncertain + 0 = mem.uncertain /\ mem.aUncertain + 0 = mem.aUncertain
      /\ b + 0 <= c /\ charged + c <= Total(mem) + b + 0
  BY <1>2
<1>. HIDE DEF b, c, L
<1>5. /\ mem' \in States /\ mem'.ledger = L /\ mem'.pending = None
      /\ mem'.reserved = mem.reserved - c /\ mem'.aReserved = mem.aReserved - c
      /\ mem'.spent = mem.spent + b /\ mem'.aSpent = mem.aSpent + b
      /\ mem'.uncertain = mem.uncertain /\ mem'.aUncertain = mem.aUncertain
      /\ SameLimits /\ SameDispatches
      /\ mem'.physical = mem.physical /\ mem'.turns = mem.turns
  BY <1>3, <1>4, Parts DEF States, SameLimits, SameDispatches
<1>6. SettledAs("ACCOUNTED", b, 0)
  BY <1>4, <1>5 DEF SettledAs, c, L
<1>7. Sound(mem)' /\ MemoryFollows
  <2>1. /\ b + 0 <= mem.ledger[mem.pending].cost
        /\ charged + mem.ledger[mem.pending].cost <= Total(mem) + b + 0
    BY <1>4 DEF c
  <2>2. /\ "ACCOUNTED" \in {"ACCOUNTED", "UNCERTAIN_CONSUMED"} /\ 0 \in Nat
        /\ "ACCOUNTED" # "UNCERTAIN_CONSUMED"
    OBVIOUS
  <2>3. b = bill[mem.pending] /\ bill[mem.pending] # None
    BY <1>2 DEF b
  <2>. QED
    BY <1>1, <1>2, <1>5, <1>6, <2>1, <2>2, <2>3, SettledSound
<1>8. TypeOK'
  <2>1. /\ abort' = abort \/ abort' = TRUE
        /\ faults' = faults \/ (faults < MaxFaults /\ faults' = faults + 1)
    BY DEF AccountResponse, Persist, PersistFails
  <2>. QED
    BY <1>1, <1>5, <2>1, TypeClosing DEF AccountResponse, history, Places, IInv, TypeOK
<1>. QED
  BY <1>1, <1>7, <1>8, IdleFits, Closing

LEMMA SettleUncertainStep ==
  ASSUME IInv, SettleUncertain
  PROVE  IInv' /\ MemoryFollows
<1>. DEFINE k == mem.pending
            c == mem.ledger[k].cost
            L == [mem.ledger EXCEPT ![k].status = "UNCERTAIN_CONSUMED"]
<1>1. /\ charged' = charged /\ sent' = sent /\ bill' = bill /\ at' = "idle" /\ at \in {"answered", "failed"}
      /\ disk' = mem' \/ disk' = disk
      /\ mem' = [mem EXCEPT !.reserved = @ - c, !.aReserved = @ - c,
                            !.uncertain = @ + c, !.aUncertain = @ + c,
                            !.ledger[k].status = "UNCERTAIN_CONSUMED",
                            !.pending = None, !.recon = "UNCERTAIN_CONSUMED"]
  BY DEF SettleUncertain, history
<1>2. /\ k \in Keys /\ mem.ledger \in [Keys -> Entries] /\ c \in Nat /\ c > 0
      /\ c <= mem.reserved /\ c <= mem.aReserved /\ charged <= Total(mem)
      /\ charged \in Nat /\ Total(mem) \in Nat
      /\ mem.spent \in Nat /\ mem.uncertain \in Nat /\ mem.reserved \in Nat
      /\ mem.aSpent \in Nat /\ mem.aUncertain \in Nat /\ mem.aReserved \in Nat
  BY <1>1, Reserved
<1>3. /\ mem' = [mem EXCEPT !.reserved = mem.reserved - c, !.aReserved = mem.aReserved - c,
                            !.uncertain = mem.uncertain + c, !.aUncertain = mem.aUncertain + c,
                            !.ledger = L, !.pending = None, !.recon = "UNCERTAIN_CONSUMED"]
      /\ L \in [Keys -> Entries]
  <2>1. L \in [Keys -> Entries]
    BY <1>2 DEF Entries, Settled
  <2>. QED
    BY <1>1, <2>1, Parts DEF States
<1>4. /\ mem.reserved - c \in Nat /\ mem.aReserved - c \in Nat
      /\ mem.uncertain + c \in Nat /\ mem.aUncertain + c \in Nat
      /\ mem.spent + 0 = mem.spent /\ mem.aSpent + 0 = mem.aSpent
      /\ 0 + c <= c /\ charged + c <= Total(mem) + 0 + c
  BY <1>2
<1>. HIDE DEF c, L
<1>5. /\ mem' \in States /\ mem'.ledger = L /\ mem'.pending = None
      /\ mem'.reserved = mem.reserved - c /\ mem'.aReserved = mem.aReserved - c
      /\ mem'.uncertain = mem.uncertain + c /\ mem'.aUncertain = mem.aUncertain + c
      /\ mem'.spent = mem.spent /\ mem'.aSpent = mem.aSpent
      /\ SameLimits /\ SameDispatches
      /\ mem'.physical = mem.physical /\ mem'.turns = mem.turns
  BY <1>3, <1>4, Parts DEF States, SameLimits, SameDispatches
<1>6. SettledAs("UNCERTAIN_CONSUMED", 0, c)
  BY <1>4, <1>5 DEF SettledAs, c, L
<1>7. Sound(mem)' /\ MemoryFollows
  <2>1. /\ 0 + c <= mem.ledger[mem.pending].cost
        /\ charged + mem.ledger[mem.pending].cost <= Total(mem) + 0 + c
    BY <1>4 DEF c
  <2>2. /\ "UNCERTAIN_CONSUMED" \in {"ACCOUNTED", "UNCERTAIN_CONSUMED"} /\ 0 \in Nat
        /\ "ACCOUNTED" # "UNCERTAIN_CONSUMED"
    OBVIOUS
  <2>3. c = mem.ledger[mem.pending].cost /\ bill[mem.pending] # None
    BY <1>1, Reserved DEF c
  <2>. QED
    BY <1>1, <1>2, <1>5, <1>6, <2>1, <2>2, <2>3, SettledSound
<1>8. TypeOK'
  <2>1. /\ abort' = abort \/ abort' = TRUE
        /\ faults' = faults \/ (faults < MaxFaults /\ faults' = faults + 1)
    BY DEF SettleUncertain
  <2>. QED
    BY <1>1, <1>5, <2>1, TypeClosing DEF SettleUncertain, history, Places, IInv, TypeOK
<1>. QED
  BY <1>1, <1>7, <1>8, IdleFits, Closing

-----------------------------------------------------------------------------
(* Recovery. *)

LEMMA CrashStep ==
  ASSUME IInv, Crash
  PROVE  IInv' /\ MemoryFollows
<1>1. /\ mem' = disk /\ disk' = disk /\ at' = "idle" /\ charged' = charged /\ sent' = sent /\ bill' = bill
  BY DEF Crash, history
<1>2. TypeOK'
  <2>1. TypeOK /\ MaxCrashes \in Nat /\ MaxRequests \in Nat
    BY LedgerConstants DEF IInv
  <2>2. crashes' \in 0..MaxCrashes
    BY <2>1 DEF TypeOK, Crash
  <2>3. cur' \in 0..MaxRequests /\ generation' \in 0..MaxRequests
    BY <2>1 DEF Crash
  <2>4. bill' = bill /\ abort' \in BOOLEAN /\ held' \in BOOLEAN
    BY DEF Crash, history
  <2>. QED
    BY <1>1, <2>1, <2>2, <2>3, <2>4 DEF TypeOK, Crash
<1>3. Sound(mem)'
  BY <1>1, Parts DEF Sound, PendingFits, EntriesFit, DispatchesFit, MoneyFits, BillsFit
<1>4. MemoryFollows
  BY <1>1, Parts, SameIsBehind DEF MemoryFollows
<1>. QED
  BY <1>1, <1>2, <1>3, <1>4, IdleFits, Closing

\* The owner that reconciliation finds is the only dispatch with that key.
LEMMA OwnerIsKnown ==
  ASSUME IInv, mem.pending # None, mem.uncertain = 0
  PROVE  /\ OwnerOf(mem, mem.pending) \in Requests
         /\ mem.dispatch[OwnerOf(mem, mem.pending)].key = mem.pending
         /\ \A d \in Requests : mem.dispatch[d].key = mem.pending =>
                                  d = OwnerOf(mem, mem.pending)
<1>1. PICK o \in Requests : mem.dispatch[o].key = mem.pending
  BY Parts DEF Sound, PendingFits
<1>2. \A d \in Requests : mem.dispatch[d].key = mem.pending => d = o
  BY <1>1, Parts DEF Sound, DispatchesFit
<1>3. {d \in Requests : mem.dispatch[d].key = mem.pending} = {o}
  BY <1>1, <1>2
<1>4. OwnerOf(mem, mem.pending) = o
  <2>1. OwnerOf(mem, mem.pending) = CHOOSE d \in {o} : \A e \in {o} : d <= e
    BY <1>3 DEF OwnerOf
  <2>2. o <= o
    BY LedgerConstants DEF Requests
  <2>. QED
    BY <2>1, <2>2
<1>. QED
  BY <1>1, <1>2, <1>4

LEMMA ReconcileAbandonedStep ==
  ASSUME IInv, ReconcileAbandoned
  PROVE  IInv' /\ MemoryFollows
<1>. DEFINE freed == [mem EXCEPT !.active = None, !.pending = None,
                                 !.life = "ABORTED_RECONCILED", !.owned = FALSE,
                                 !.aReserved = 0, !.aUncertain = 0, !.recon = "CLEAR"]
            k == mem.pending
            o == OwnerOf(mem, mem.pending)
            c == mem.ledger[mem.pending].cost
            L == [mem.ledger EXCEPT ![k].status = "RELEASED"]
            D == [mem.dispatch EXCEPT ![o].func = "ABANDONED"]
<1>1. /\ charged' = charged /\ sent' = sent /\ bill' = bill /\ at' = "idle"
      /\ disk' = mem' \/ disk' = disk
      /\ mem.uncertain = 0 /\ mem.aUncertain = 0
      /\ mem.pending # None => PreDispatch(mem)
      /\ mem' = IF mem.pending = None THEN freed
                ELSE [freed EXCEPT !.reserved = @ - c, !.ledger[k].status = "RELEASED",
                                   !.dispatch[o].func = "ABANDONED"]
  BY DEF ReconcileAbandoned, PersistFails, history
<1>2. /\ mem.ledger \in [Keys -> Entries] /\ mem.dispatch \in [Requests -> Dispatches]
      /\ mem.reserved \in Nat /\ mem.aReserved \in Nat /\ mem.aSpent \in Nat
      /\ mem.spent \in Nat /\ mem.uncertain \in Nat /\ mem.gCeil \in Nat /\ mem.aCeil \in Nat
      /\ mem.turns \in Nat /\ mem.physical \in Nat /\ charged \in Nat
  BY Parts, FieldTypes
<1>3. /\ freed \in States /\ freed.pending = None
      /\ freed.aReserved = 0 /\ freed.aUncertain = 0 /\ freed.aSpent = mem.aSpent
      /\ freed.reserved = mem.reserved /\ freed.spent = mem.spent
      /\ freed.uncertain = mem.uncertain /\ freed.gCeil = mem.gCeil /\ freed.aCeil = mem.aCeil
      /\ freed.turns = mem.turns /\ freed.physical = mem.physical
      /\ freed.ledger = mem.ledger /\ freed.dispatch = mem.dispatch
  <2>. DEFINE f == [mem EXCEPT !.active = None, !.pending = None,
                               !.life = "ABORTED_RECONCILED", !.owned = FALSE]
  <2>1. /\ f \in States /\ f.pending = None /\ f.aSpent = mem.aSpent
        /\ f.reserved = mem.reserved /\ f.spent = mem.spent
        /\ f.uncertain = mem.uncertain /\ f.gCeil = mem.gCeil /\ f.aCeil = mem.aCeil
        /\ f.turns = mem.turns /\ f.physical = mem.physical
        /\ f.ledger = mem.ledger /\ f.dispatch = mem.dispatch
    BY Parts DEF States
  <2>2. freed = [f EXCEPT !.aReserved = 0, !.aUncertain = 0, !.recon = "CLEAR"]
    BY Parts DEF States
  <2>. HIDE DEF f, freed
  <2>. QED
    BY <2>1, <2>2 DEF States
<1>. HIDE DEF freed, k, o, c, L, D
<1>4. AttemptTotal(freed) <= mem.aCeil
  BY <1>1, <1>2, <1>3, Parts DEF AttemptTotal
<1>5. ASSUME mem' \in States PROVE TypeOK'
  <2>1. /\ abort' = abort \/ abort' = TRUE
        /\ faults' = faults \/ (faults < MaxFaults /\ faults' = faults + 1)
    BY DEF ReconcileAbandoned, PersistFails
  <2>. QED
    BY <1>1, <1>5, <2>1, TypeClosing DEF ReconcileAbandoned, history, Places, IInv, TypeOK
<1>6. CASE mem.pending = None
  <2>1. mem' = freed
    BY <1>1, <1>6
  <2>2. Quiet
    <3>1. mem.turns <= mem.turns /\ mem.gCeil <= mem.gCeil
      BY <1>2
    <3>. QED
      BY <1>1, <1>3, <1>4, <2>1, <3>1 DEF Quiet, Advanced
  <2>. QED
    BY <1>1, <1>3, <1>5, <2>1, <2>2, QuietIdleStep
<1>7. CASE mem.pending # None
  <2>. USE DEF k, o, c, L, D
  <2>1. /\ k \in Keys /\ mem.ledger[k].status = "RESERVED" /\ c <= mem.reserved
        /\ o \in Requests /\ mem.dispatch[o].key = k
        /\ mem.dispatch[o].state = "RESERVATION_COMMITTED"
        /\ \A d \in Requests : mem.dispatch[d].key = k => d = o
    BY <1>1, <1>7, Parts, FieldTypes, OwnerIsKnown DEF PreDispatch, Sound, PendingFits
  <2>2. c \in Nat /\ mem.reserved - c \in Nat
    BY <1>2, <2>1, Parts, EntryTypes
  <2>3. charged + c <= Total(mem)
    BY <1>1, <1>7, <2>1, Parts DEF Sound, MoneyFits
  <2>4. /\ L \in [Keys -> Entries] /\ L[k].status = "RELEASED"
        /\ \A x \in Keys : x # k => L[x] = mem.ledger[x]
    BY <1>2, <2>1 DEF Entries, Settled
  <2>5. /\ D \in [Requests -> Dispatches]
        /\ \A d \in Requests : /\ D[d].key = mem.dispatch[d].key
                               /\ D[d].state = mem.dispatch[d].state
                               /\ D[d].attempt = mem.dispatch[d].attempt
    BY <1>2, <2>1 DEF Dispatches
  <2>6. mem' = [freed EXCEPT !.reserved = mem.reserved - c, !.ledger = L, !.dispatch = D]
    BY <1>1, <1>3, <1>7 DEF States
  <2>. HIDE DEF k, o, c, L, D
  <2>7. /\ mem' \in States /\ mem'.ledger = L /\ mem'.dispatch = D /\ mem'.pending = None
        /\ mem'.reserved = mem.reserved - c /\ mem'.spent = mem.spent
        /\ mem'.uncertain = mem.uncertain /\ AttemptTotal(mem') = AttemptTotal(freed)
        /\ mem'.gCeil = mem.gCeil /\ mem'.aCeil = mem.aCeil
        /\ mem'.turns = mem.turns /\ mem'.physical = mem.physical
    BY <1>3, <2>2, <2>4, <2>5, <2>6 DEF States, AttemptTotal
  <2>8. Sound(mem)'
    <3>1. PendingFits(mem)'
      BY <2>7 DEF PendingFits
    <3>2. EntriesFit(mem)'
      BY <1>1, <1>2, <2>1, <2>4, <2>7, Parts DEF Sound, EntriesFit
    <3>3. DispatchesFit(mem)'
      BY <2>5, <2>7, Parts DEF Sound, DispatchesFit
    <3>4. charged' <= Total(mem') /\ WithinCeilings(mem')
      <4>1. Total(mem') = Total(mem) - c /\ Total(mem) \in Nat
        BY <1>2, <2>2, <2>7 DEF Total
      <4>2. Total(mem') <= mem.gCeil /\ charged <= Total(mem')
        BY <1>2, <2>2, <2>3, <4>1, Parts DEF WithinCeilings
      <4>. QED
        BY <1>1, <1>4, <2>7, <4>2 DEF WithinCeilings
    <3>5. ASSUME NEW d \in sent
          PROVE  /\ D[d].state \in {"DISPATCH_STARTED", "RESPONSE_OBSERVED"}
                 /\ D[d].key \in Keys
                 /\ L[D[d].key].status # "RELEASED"
      <4>1. /\ d \in Requests
            /\ mem.dispatch[d].state \in {"DISPATCH_STARTED", "RESPONSE_OBSERVED"}
            /\ mem.dispatch[d].key \in Keys
            /\ mem.ledger[mem.dispatch[d].key].status # "RELEASED"
        BY <3>5, Parts DEF Sound, MoneyFits
      <4>2. mem.dispatch[d].key # k
        BY <2>1, <4>1
      <4>. QED
        BY <2>4, <2>5, <4>1, <4>2
    <3>6. MoneyFits(mem)'
      BY <1>1, <2>7, <3>4, <3>5 DEF MoneyFits
    <3>7. BillsFit(mem)'
      <4>1. ASSUME NEW x \in Keys, bill[x] # None
            PROVE  x.nth <= mem.physical /\ \E d \in sent : D[d].key = x
        <5>1. x.nth <= mem.physical /\ \E d \in sent : mem.dispatch[d].key = x
          BY <4>1, Parts DEF Sound, BillsFit
        <5>2. \A d \in sent : D[d].key = mem.dispatch[d].key
          BY <2>5, Parts
        <5>. QED
          BY <5>1, <5>2
      <4>. QED
        BY <1>1, <2>7, <4>1 DEF BillsFit
    <3>. QED
      BY <3>1, <3>2, <3>3, <3>6, <3>7 DEF Sound
  <2>9. MemoryFollows
    <3>1. bill[k] = None
      <4>1. ASSUME NEW d \in sent, mem.dispatch[d].key = k
            PROVE  FALSE
        BY <2>1, <4>1, Parts DEF Sound, MoneyFits
      <4>. QED
        BY <2>1, <4>1, Parts DEF Sound, BillsFit
    <3>2. /\ disk.ledger \in [Keys -> Entries] /\ disk.reserved \in Nat
          /\ L = [mem.ledger EXCEPT ![k].status = "RELEASED"]
          /\ c = mem.ledger[k].cost /\ k # None /\ k = mem.pending
      BY <1>7, Parts, FieldTypes DEF L, c, k
    <3>3. ASSUME Ledger!Idle(Book(disk), Book(mem))
          PROVE  Ledger!Moves(Book(disk), Book(mem'))
      <4>1. /\ disk.ledger = mem.ledger /\ disk.reserved = mem.reserved
            /\ disk.spent = mem.spent /\ disk.uncertain = mem.uncertain
        BY <3>3, BookFields DEF Ledger!Idle
      <4>2. /\ disk.ledger[k].status = "RESERVED"
            /\ mem'.ledger = [disk.ledger EXCEPT ![k].status = "RELEASED"]
            /\ mem'.reserved = disk.reserved - disk.ledger[k].cost
            /\ mem'.spent = disk.spent /\ mem'.uncertain = disk.uncertain
        BY <2>1, <2>7, <3>2, <4>1
      <4>3. Ledger!Settles(Book(disk), Book(mem'), k, "RELEASED")
        BY <4>2, BookFields DEF Ledger!Settles
      <4>4. Ledger!Release(Book(disk), Book(mem'), k)
        BY <3>1, <4>2, <4>3, BookFields DEF Ledger!Release
      <4>. QED
        BY <2>1, <4>4 DEF Ledger!Moves
    <3>4. ASSUME NEW p \in Prices, Ledger!Reserve(Book(disk), Book(mem), k, p)
          PROVE  Ledger!Moves(Book(disk), Book(mem'))
      <4>1. /\ mem.ledger = [disk.ledger EXCEPT ![k] = [status |-> "RESERVED", cost |-> p]]
            /\ mem.reserved = disk.reserved + p
            /\ disk.spent = mem.spent /\ disk.uncertain = mem.uncertain
            /\ disk.ledger[k].status = "NONE" \/ disk.uncertain > 0
        BY <3>4, BookFields DEF Ledger!Reserve
      <4>2. mem.ledger[k] = [status |-> "RESERVED", cost |-> p] /\ c = p /\ p \in Nat
        BY <2>1, <3>2, <4>1, LedgerConstants
      <4>3. L = [disk.ledger EXCEPT ![k] = [status |-> "RELEASED", cost |-> p]]
        BY <2>1, <3>2, <4>1
      <4>4. disk.ledger[k].status = "NONE" /\ mem.reserved - c = disk.reserved
        BY <1>1, <3>2, <4>1, <4>2
      <4>5. Ledger!Forget(Book(disk), Book(mem'), k, p)
        BY <2>7, <3>1, <4>1, <4>3, <4>4, BookFields DEF Ledger!Forget
      <4>. QED
        BY <2>1, <4>5 DEF Ledger!Moves
    <3>5. Ledger!Moves(Book(disk), Book(mem')) /\ disk.gCeil <= mem.gCeil
      BY <3>2, <3>3, <3>4, Parts DEF FileFits, Behind
    <3>. QED
      BY <2>7, <3>5 DEF MemoryFollows, Behind
  <2>. QED
    BY <1>1, <1>5, <2>7, <2>8, <2>9, IdleFits, Closing
<1>. QED
  BY <1>6, <1>7

-----------------------------------------------------------------------------
(* The theorems. *)

LEMMA InitIInv == Init => IInv
<1>. SUFFICES ASSUME Init PROVE IInv
  OBVIOUS
<1>1. /\ GlobalCeilings \subseteq Nat /\ AttemptCeilings \subseteq Nat
      /\ MaxTurns \in Nat /\ MaxRequests \in Nat /\ MaxFaults \in Nat /\ MaxCrashes \in Nat
  BY LedgerConstants
<1>. DEFINE L == [k \in Keys |-> NoEntry]
            D == [d \in Requests |-> NoDispatch]
<1>2. L \in [Keys -> Entries] /\ D \in [Requests -> Dispatches]
  BY <1>1 DEF NoEntry, NoDispatch, Entries, Dispatches, Stages
<1>3. /\ \A k \in Keys : L[k].status = "NONE"
      /\ \A d \in Requests : D[d].state = "NONE" /\ D[d].key = None
  BY DEF NoEntry, NoDispatch
<1>4. /\ mem \in States /\ mem.ledger = L /\ mem.dispatch = D /\ mem.pending = None
      /\ mem.spent = 0 /\ mem.uncertain = 0 /\ mem.reserved = 0
      /\ mem.aSpent = 0 /\ mem.aUncertain = 0 /\ mem.aReserved = 0
      /\ mem.turns = 0 /\ mem.physical = 0
  <2>. HIDE DEF L, D
  <2>1. PICK g \in GlobalCeilings, a \in AttemptCeilings :
             mem = [gCeil |-> g, aCeil |-> a, active |-> None, life |-> "CLEAR", owned |-> FALSE,
                    spent |-> 0, uncertain |-> 0, reserved |-> 0,
                    aSpent |-> 0, aUncertain |-> 0, aReserved |-> 0,
                    pending |-> None, recon |-> "CLEAR", turns |-> 0, physical |-> 0,
                    ledger |-> L, dispatch |-> D]
    BY DEF Init, L, D
  <2>. QED
    BY <1>1, <1>2, <2>1 DEF States
<1>. HIDE DEF L, D
<1>5. /\ disk = mem /\ at = "idle" /\ charged = 0 /\ bill = [k \in Keys |-> None] /\ sent = {}
      /\ cur = 0 /\ generation = 0 /\ faults = 0 /\ crashes = 0
      /\ abort = FALSE /\ held = FALSE
  BY DEF Init
<1>6. TypeOK
  <2>1. /\ 0 \in 0..MaxRequests /\ 0 \in 0..MaxFaults /\ 0 \in 0..MaxCrashes
        /\ 0 \in Nat /\ {} \subseteq Requests
    BY <1>1
  <2>2. mem \in States /\ disk \in States
    BY <1>4, <1>5
  <2>. QED
    BY <1>5, <2>1, <2>2 DEF TypeOK
<1>7. Sound(mem)
  <2>1. PendingFits(mem) /\ EntriesFit(mem)
    BY <1>3, <1>4 DEF PendingFits, EntriesFit
  <2>2. DispatchesFit(mem)
    <3>1. \A d \in Requests : d > 0
      BY <1>1 DEF Requests
    <3>2. 0 \in 0..MaxRequests /\ \A d \in Requests : D[d].state = "NONE" <=> d > 0
      BY <1>1, <1>3, <3>1
    <3>. QED
      BY <1>3, <1>4, <3>1, <3>2 DEF DispatchesFit
  <2>3. MoneyFits(mem)
    <3>1. mem.gCeil \in Nat /\ mem.aCeil \in Nat
      BY <1>4, FieldTypes
    <3>. QED
      BY <1>4, <1>5, <3>1 DEF MoneyFits, Total, WithinCeilings, AttemptTotal
  <2>4. BillsFit(mem)
    BY <1>5 DEF BillsFit
  <2>. QED
    BY <2>1, <2>2, <2>3, <2>4 DEF Sound
<1>8. TurnFits /\ RequestFits
  BY <1>5 DEF TurnFits, RequestFits, InHand
<1>9. FileFits
  BY <1>4, <1>5, SameIsBehind DEF FileFits
<1>. QED
  BY <1>5, <1>6, <1>7, <1>8, <1>9 DEF IInv

LEMMA NextStep ==
  ASSUME IInv, Next
  PROVE  IInv' /\ MemoryFollows
<1>1. ASSUME NEW a \in Attempts, NEW own \in BOOLEAN, BeginAttempt(a, own)
      PROVE  IInv' /\ MemoryFollows
  BY <1>1, BeginAttemptStep
<1>2. CASE EndAttempt
  BY <1>2, EndAttemptStep
<1>3. CASE ReleaseOwnership \/ BlockedByAbort
  BY <1>3, NothingWrittenStep
<1>4. CASE BeginLogicalTurn
  BY <1>4, BeginLogicalTurnStep
<1>5. CASE PrepareDispatch
  BY <1>5, PrepareDispatchStep
<1>6. ASSUME NEW c \in Prices, Reserve(c)
      PROVE  IInv' /\ MemoryFollows
  BY <1>6, ReserveStep
<1>7. ASSUME NEW c \in Prices, RefuseRequest(c)
      PROVE  IInv' /\ MemoryFollows
  BY <1>7, RefuseRequestStep
<1>8. CASE MarkDispatchStarted
  BY <1>8, MarkDispatchStartedStep
<1>9. ASSUME NEW c \in 0..mem.gCeil, Send(c)
      PROVE  IInv' /\ MemoryFollows
  BY <1>9, SendStep
<1>10. ASSUME NEW answered \in BOOLEAN, RecordResult(answered)
       PROVE  IInv' /\ MemoryFollows
  BY <1>10, RecordResultStep
<1>11. CASE AccountResponse
  BY <1>11, AccountResponseStep
<1>12. CASE SettleUncertain
  BY <1>12, SettleUncertainStep
<1>13. ASSUME NEW d \in Requests, Reissue(d)
       PROVE  IInv' /\ MemoryFollows
  BY <1>13, ReissueStep
<1>14. CASE ReconcileAbandoned
  BY <1>14, ReconcileAbandonedStep
<1>15. ASSUME NEW c \in GlobalCeilings, MigrateGlobalCeiling(c)
       PROVE  IInv' /\ MemoryFollows
  BY <1>15, MigrateStep
<1>16. ASSUME NEW c \in AttemptCeilings, ConfigureAttemptCeiling(c)
       PROVE  IInv' /\ MemoryFollows
  BY <1>16, ConfigureStep
<1>17. CASE Crash
  BY <1>17, CrashStep
<1>. QED
  BY <1>1, <1>2, <1>3, <1>4, <1>5, <1>6, <1>7, <1>8, <1>9, <1>10, <1>11, <1>12, <1>13,
     <1>14, <1>15, <1>16, <1>17 DEF Next, RequestStep

LEMMA StutterStep ==
  ASSUME IInv, UNCHANGED vars
  PROVE  IInv'
<1>1. mem' = mem /\ disk' = disk /\ charged' = charged /\ sent' = sent /\ bill' = bill
  BY DEF vars, history
<1>2. Sound(mem)' /\ Sound(disk)'
  <2>1. Sound(mem) /\ Sound(disk)
    BY DEF IInv
  <2>. QED
    BY <1>1, <2>1 DEF Sound, PendingFits, EntriesFit, DispatchesFit, MoneyFits, BillsFit, Total,
                      AttemptTotal, WithinCeilings
<1>3. TypeOK' /\ TurnFits'
  BY DEF vars, guardVars, history, IInv, TypeOK, TurnFits
<1>4. RequestFits' /\ FileFits'
  <2>1. RequestFits'
    BY DEF vars, guardVars, history, IInv, RequestFits, Total
  <2>2. FileFits
    BY DEF IInv
  <2>. QED
    BY <1>1, <2>1, <2>2 DEF FileFits, Behind, Ledger!Moves, Ledger!Idle, Ledger!Reserve,
       Ledger!Forget, Ledger!Account, Ledger!WriteOff, Ledger!Release, Ledger!Settles
<1>. QED
  BY <1>2, <1>3, <1>4 DEF IInv

(* The invariant is inductive: it holds at every instant of every run, for   *)
(* any number of attempts, requests, turns, failed persists and crashes.     *)
THEOREM InvariantHolds == Spec => []IInv
<1>1. Init => IInv
  BY InitIInv
<1>2. IInv /\ [Next]_vars => IInv'
  BY NextStep, StutterStep
<1>. QED
  BY <1>1, <1>2, PTL DEF Spec

(* Every variable keeps its type; in particular LunaBudgetGuard never lets a *)
(* total of money become negative.                                           *)
THEOREM TypesHold == Spec => []TypeOK
<1>1. IInv => TypeOK
  BY DEF IInv
<1>. QED
  BY <1>1, InvariantHolds, PTL

(* What the provider charged is covered by what the ledger holds, in memory  *)
(* and in economic-state.json, and stays within both ceilings.               *)
THEOREM ChargesCovered == Spec => []ChargesAreCovered
<1>1. IInv => ChargesAreCovered
  BY DEF IInv, Sound, MoneyFits, ChargesAreCovered
<1>. QED
  BY <1>1, InvariantHolds, PTL

(* mark_dispatch_started is on disk before its request leaves the process.   *)
THEOREM SentDurable == Spec => []SentIsDurable
<1>1. IInv => SentIsDurable
  BY DEF IInv, TypeOK, Sound, MoneyFits, SentIsDurable
<1>. QED
  BY <1>1, InvariantHolds, PTL

(* reconcile_abandoned_attempt gives back only money of a request that never *)
(* left the process.                                                         *)
THEOREM ReleasedUnsent == Spec => []ReleasedWasNotSent
<1>1. IInv => ReleasedWasNotSent
  BY DEF IInv, TypeOK, Sound, MoneyFits, ReleasedWasNotSent
<1>. QED
  BY <1>1, InvariantHolds, PTL

\* The file is replaced by memory or left alone.
LEMMA FileIsMemoryOrKept ==
  ASSUME Next
  PROVE  disk' = mem' \/ disk' = disk
BY DEF Next, RequestStep, BeginAttempt, EndAttempt, ReleaseOwnership, BeginLogicalTurn,
       PrepareDispatch, BlockedByAbort, Reserve, RefuseRequest, MarkDispatchStarted, Send,
       RecordResult, AccountResponse, SettleUncertain, Reissue, ReconcileAbandoned, Crash,
       MigrateGlobalCeiling, ConfigureAttemptCeiling, Persist, PersistFails

\* Only a request that is sent changes what was charged, and the file with it.
LEMMA BillIsSent ==
  ASSUME Next
  PROVE  bill' = bill \/ \E c \in 0..mem.gCeil : Send(c)
BY DEF Next, RequestStep, BeginAttempt, EndAttempt, ReleaseOwnership, BeginLogicalTurn,
       PrepareDispatch, BlockedByAbort, Reserve, RefuseRequest, MarkDispatchStarted,
       RecordResult, AccountResponse, SettleUncertain, Reissue, ReconcileAbandoned, Crash,
       MigrateGlobalCeiling, ConfigureAttemptCeiling, history

LEMMA StepIsMoneyLedger ==
  ASSUME IInv, Next
  PROVE  [Ledger!Next]_<<Book(disk), bill>>
<1>0. IInv' /\ MemoryFollows
  BY NextStep
<1>1. ASSUME NEW c \in 0..mem.gCeil, Send(c)
      PROVE  Ledger!Next
  <2>1. /\ at = "started" /\ disk' = disk /\ bill' = [bill EXCEPT ![mem.pending] = c]
        /\ c <= mem.ledger[mem.pending].cost
    BY <1>1 DEF Send
  <2>2. mem.pending \in Keys /\ disk = mem /\ bill[mem.pending] = None
    BY <2>1, Parts DEF RequestFits, InHand
  <2>3. mem.ledger[mem.pending].status = "RESERVED"
    BY <2>2, Parts, NoneIsNoKey DEF Sound, PendingFits
  <2>4. Ledger!Send(mem.pending, c)
    BY <2>1, <2>2, <2>3 DEF Ledger!Send, Book
  <2>5. c \in 0..Book(disk).ceiling
    BY <2>2, BookFields
  <2>. QED
    BY <2>2, <2>4, <2>5 DEF Ledger!Next
<1>2. CASE bill' = bill /\ disk' = disk
  BY <1>2 DEF Book
<1>3. CASE bill' = bill /\ disk' = mem'
  <2>1. Ledger!Moves(Book(disk), Book(disk')) /\ disk.gCeil <= disk'.gCeil
    BY <1>0, <1>3 DEF MemoryFollows, Behind
  <2>2. Total(mem') <= mem'.gCeil
    BY <1>0 DEF IInv, Sound, MoneyFits, WithinCeilings
  <2>3. Ledger!Total(Book(disk')) <= Book(disk').ceiling
    BY <1>3, <2>2, BookFields DEF Ledger!Total, Total
  <2>. QED
    BY <1>3, <2>1, <2>3, BookFields DEF Ledger!Next, Ledger!Write
<1>. QED
  BY <1>1, <1>2, <1>3, BillIsSent, FileIsMemoryOrKept

(* The guard, its file and its process deaths implement the atomic ledger: a  *)
(* reader of economic-state.json sees one movement of money at a time.        *)
THEOREM LedgerIsImplemented == Spec => FollowsLedger
<1>1. Init => Ledger!Init
  <2>. SUFFICES ASSUME Init PROVE Ledger!Init
    OBVIOUS
  <2>1. PICK g \in GlobalCeilings, a \in AttemptCeilings :
             mem = [gCeil |-> g, aCeil |-> a, active |-> None, life |-> "CLEAR", owned |-> FALSE,
                    spent |-> 0, uncertain |-> 0, reserved |-> 0,
                    aSpent |-> 0, aUncertain |-> 0, aReserved |-> 0,
                    pending |-> None, recon |-> "CLEAR", turns |-> 0, physical |-> 0,
                    ledger |-> [k \in Keys |-> NoEntry],
                    dispatch |-> [d \in Requests |-> NoDispatch]]
    BY DEF Init
  <2>2. disk = mem /\ bill = [k \in Keys |-> None]
    BY DEF Init
  <2>3. Book(disk) = [ceiling |-> g, spent |-> 0, lost |-> 0, reserved |-> 0,
                      ledger |-> [k \in Keys |-> [status |-> "NONE", cost |-> 0]]]
    BY <2>1, <2>2 DEF Book, NoEntry
  <2>. QED
    BY <2>2, <2>3 DEF Ledger!Init
<1>2. IInv /\ [Next]_vars => [Ledger!Next]_<<Book(disk), bill>>
  <2>1. UNCHANGED vars => UNCHANGED <<Book(disk), bill>>
    BY DEF vars, history, Book
  <2>. QED
    BY <2>1, StepIsMoneyLedger
<1>. QED
  BY <1>1, <1>2, InvariantHolds, PTL DEF Spec, FollowsLedger, Ledger!Spec

(* On disk an entry moves only as the economic recovery RFC lets it, whatever *)
(* persists failed or processes died in between.                             *)
THEOREM EntriesFollow == Spec => EntriesFollowRFC
<1>1. IInv /\ [Next]_vars =>
        [\A k \in Keys :
           LET old == disk.ledger[k].status  new == disk'.ledger[k].status
           IN  old # new => \/ old = "NONE" /\ new \in {"RESERVED", "RELEASED"}
                            \/ old = "RESERVED" /\ new \in Settled]_vars
  <2>. SUFFICES ASSUME IInv, Next, NEW k \in Keys,
                       disk.ledger[k].status # disk'.ledger[k].status
                PROVE  \/ /\ disk.ledger[k].status = "NONE"
                          /\ disk'.ledger[k].status \in {"RESERVED", "RELEASED"}
                       \/ /\ disk.ledger[k].status = "RESERVED"
                          /\ disk'.ledger[k].status \in Settled
    OBVIOUS
  <2>1. disk' = mem'
    BY FileIsMemoryOrKept
  <2>2. Ledger!Moves(Book(disk), Book(disk')) /\ disk.ledger \in [Keys -> Entries]
    BY <2>1, NextStep, Parts, FieldTypes DEF MemoryFollows, Behind
  <2>3. \A x \in Keys : \A status : [disk.ledger EXCEPT ![x].status = status][k].status =
                                   IF k = x THEN status ELSE disk.ledger[k].status
    BY <2>2 DEF Entries
  <2>4. \A x \in Keys : \A e : [disk.ledger EXCEPT ![x] = e][k] = IF k = x THEN e ELSE disk.ledger[k]
    BY <2>2
  <2>5. Book(disk).ledger = disk.ledger /\ Book(disk').ledger = disk'.ledger
    BY BookFields
  <2>6. CASE Ledger!Idle(Book(disk), Book(disk'))
    BY <2>5, <2>6 DEF Ledger!Idle
  <2>7. CASE \E x \in Keys, p \in Prices : \/ Ledger!Reserve(Book(disk), Book(disk'), x, p)
                                          \/ Ledger!Forget(Book(disk), Book(disk'), x, p)
    <3>1. PICK x \in Keys, p \in Prices : \/ Ledger!Reserve(Book(disk), Book(disk'), x, p)
                                          \/ Ledger!Forget(Book(disk), Book(disk'), x, p)
      BY <2>7
    <3>2. CASE Ledger!Reserve(Book(disk), Book(disk'), x, p)
      BY <2>4, <2>5, <3>2 DEF Ledger!Reserve
    <3>3. CASE Ledger!Forget(Book(disk), Book(disk'), x, p)
      BY <2>4, <2>5, <3>3 DEF Ledger!Forget
    <3>. QED
      BY <3>1, <3>2, <3>3
  <2>8. CASE \E x \in Keys : \/ Ledger!Account(Book(disk), Book(disk'), x)
                             \/ Ledger!WriteOff(Book(disk), Book(disk'), x)
                             \/ Ledger!Release(Book(disk), Book(disk'), x)
    <3>1. PICK x \in Keys, status \in Settled :
            Ledger!Settles(Book(disk), Book(disk'), x, status)
      BY <2>8 DEF Ledger!Account, Ledger!WriteOff, Ledger!Release, Settled
    <3>. QED
      BY <2>3, <2>5, <3>1 DEF Ledger!Settles
  <2>. QED
    BY <2>2, <2>6, <2>7, <2>8 DEF Ledger!Moves
<1>. QED
  BY <1>1, InvariantHolds, PTL DEF Spec, EntriesFollowRFC
=============================================================================
