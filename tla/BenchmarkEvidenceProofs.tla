------------------------ MODULE BenchmarkEvidenceProofs ------------------------
(* What a verdict of the benchmark rests on, for runs and cells of any length. *)
EXTENDS BenchmarkEvidence, FiniteSetTheorems, WellFoundedInduction, TLAPS

Runs == [ending : Endings \cup {None}, requests : 0..MaxTurns, calls : 0..MaxCalls,
         attempts : 0..MaxBuilds, builds : Seq(BOOLEAN), artifact : {None, "VALID", "INVALID"},
         content : Contents \cup {None}, made : 0..MaxBuilds,
         unchecked : BOOLEAN, validated : BOOLEAN, changed : BOOLEAN, contaminated : BOOLEAN]
Usages == [derived : Nat, remaining : Nat, attempt : Nat]
Ledgers == [accumulated : Nat, uncertain : Nat, attempt : Nat]
Logs == [models : Nat, usages : Seq(Usages), tools : Seq(Nat)]
Judgements == [status : Results \cup {None}, judged : 0..MaxBuilds]

Types ==
    /\ task \in [required : SUBSET Evidence, acceptance : Acceptances]
    /\ run \in Runs /\ log \in Logs /\ minecraft \in Judgements
    /\ verdict \in Verdicts \cup {None}
    /\ cell \in Seq(Verdicts) /\ Len(cell) <= MaxRuns

(* The ledger never spends or holds more than its ceiling.                    *)
MoneyTypes ==
    /\ ledger \in Ledgers /\ ledger.accumulated + ledger.uncertain <= Budget
    /\ begun \in Ledgers /\ begun.accumulated + begun.uncertain <= Budget

(* The events say what the engine counted, until an internal error.           *)
LogFits ==
    /\ log.models = run.requests
    /\ ~LocalIds => Range(log.tools) = 1..run.calls
BuildsFit ==
    /\ Len(run.builds) <= run.attempts
    /\ run.ending # "failed" => Len(run.builds) = run.attempts

(* A Minecraft result is of the last valid artifact, but while that one waits *)
(* for its own; a passed one ends the run.                                    *)
MinecraftFits ==
    /\ run.unchecked => Gated /\ run.ending \in {None, "limit"}
    /\ ~Gated /\ run.ending = None => minecraft = NoResult
    /\ run.artifact = "VALID" /\ minecraft # NoResult /\ ~run.unchecked =>
          minecraft.judged = run.made
    /\ minecraft.status = "PASS" =>
          run.ending # None /\ minecraft.judged = run.made /\ Accepted(run.content)

VerdictFits ==
    verdict # None =>
        /\ run.ending # None
        /\ verdict = IF run.contaminated THEN "INVALID" ELSE Classified

(* Every response leaves the attempt its own cost on top of the last one's,   *)
(* and the budget what remained before the run without the attempt's part.    *)
UsagesFit ==
    \A n \in 1..Len(log.usages) :
        /\ log.usages[n].attempt =
              log.usages[n].derived + (IF n = 1 THEN 0 ELSE log.usages[n - 1].attempt)
        /\ log.usages[n].remaining + log.usages[n].attempt = Remaining(begun)

(* The ledger grew by the attempt, and the attempt by what was logged, until  *)
(* a last response broke the run off.                                         *)
Logged == IF log.usages = <<>> THEN 0 ELSE Last(log.usages).attempt
LedgerFits ==
    /\ ledger.accumulated = begun.accumulated + ledger.attempt
    /\ Logged <= ledger.attempt
    /\ run.ending \notin Broke => Logged = ledger.attempt /\ ledger.uncertain = begun.uncertain

IInv == Types /\ MoneyTypes /\ LogFits /\ BuildsFit /\ MinecraftFits /\ VerdictFits

-----------------------------------------------------------------------------
LEMMA BoundsFacts ==
  /\ MaxTurns \in Nat /\ MaxCalls \in Nat /\ MaxBuilds \in Nat /\ MaxRuns \in Nat /\ MaxCost \in Nat
  /\ Budget \in Nat
  /\ 0 \in 0..MaxTurns /\ 0 \in 0..MaxCalls /\ 0 \in 0..MaxBuilds
  /\ LocalIds \in BOOLEAN
BY BoundsAssumption

LEMMA NothingYet ==
  /\ NoRun \in Runs /\ NoLog \in Logs /\ NoResult \in Judgements
  /\ Range(NoLog.tools) = {}
  /\ NewLedger \in Ledgers /\ NewLedger.accumulated + NewLedger.uncertain <= Budget
<1>1. NoRun \in Runs
  BY BoundsFacts DEF NoRun, Runs
<1>2. NoLog \in Logs /\ Range(NoLog.tools) = {}
  BY DEF NoLog, Logs, Range
<1>3. NoResult \in Judgements
  BY BoundsFacts DEF NoResult, Judgements
<1>4. NewLedger \in Ledgers /\ NewLedger.accumulated + NewLedger.uncertain <= Budget
  BY BoundsFacts DEF NewLedger, Ledgers
<1>. QED
  BY <1>1, <1>2, <1>3, <1>4

LEMMA StartFits ==
  ASSUME run = NoRun, log = NoLog, minecraft = NoResult
  PROVE  LogFits /\ BuildsFit /\ MinecraftFits
<1>1. LogFits
  <2>1. log.models = 0 /\ run.requests = 0 /\ run.calls = 0 /\ Range(log.tools) = {}
    BY NothingYet DEF NoRun, NoLog
  <2>. QED
    BY <2>1 DEF LogFits
<1>2. BuildsFit
  BY DEF BuildsFit, NoRun
<1>3. MinecraftFits
  BY DEF MinecraftFits, NoRun, NoResult, None
<1>. QED
  BY <1>1, <1>2, <1>3

LEMMA SameMoney ==
  ASSUME MoneyTypes, UNCHANGED money
  PROVE  MoneyTypes'
BY DEF MoneyTypes, money

(* A charge, with what is held beside it, that was within the budget.         *)
LEMMA ChargeFits ==
  ASSUME MoneyTypes, NEW c \in Nat, NEW h \in Nat, c + h <= Remaining(ledger)
  PROVE  LET l == Charged(c, h)
         IN  /\ l \in Ledgers /\ l.accumulated + l.uncertain <= Budget
             /\ l.accumulated = ledger.accumulated + c
             /\ l.uncertain = ledger.uncertain + h
             /\ l.attempt = ledger.attempt + c
             /\ Remaining(l) \in Nat
             /\ Remaining(l) + c + h = Remaining(ledger)
<1>. DEFINE l == Charged(c, h)
            a == ledger.accumulated + c
            u == ledger.uncertain + h
            t == ledger.attempt + c
<1>1. /\ ledger.accumulated \in Nat /\ ledger.uncertain \in Nat /\ ledger.attempt \in Nat
      /\ Budget \in Nat
  BY BoundsFacts DEF MoneyTypes, Ledgers
<1>2. a \in Nat /\ u \in Nat /\ t \in Nat
  BY <1>1
<1>3. l = [accumulated |-> a, uncertain |-> u, attempt |-> t]
  BY DEF Charged
<1>. HIDE DEF l, a, u, t
<1>4. l \in Ledgers /\ l.accumulated = a /\ l.uncertain = u /\ l.attempt = t
  BY <1>2, <1>3 DEF Ledgers
<1>5. /\ Remaining(l) = Budget - a - u
      /\ Remaining(ledger) = Budget - ledger.accumulated - ledger.uncertain
  BY <1>4 DEF Remaining
<1>6. Remaining(l) \in Nat /\ Remaining(l) + c + h = Remaining(ledger) /\ a + u <= Budget
  BY <1>1, <1>5 DEF a, u
<1>. QED
  BY <1>4, <1>6 DEF l, a, u, t

LEMMA InitIInv == Init => IInv
<1>. SUFFICES ASSUME Init
              PROVE  IInv
  OBVIOUS
<1>1. Types
  BY NothingYet, BoundsFacts DEF Init, Types
<1>2. LogFits /\ BuildsFit /\ MinecraftFits
  BY StartFits DEF Init
<1>3. MoneyTypes
  BY NothingYet DEF Init, MoneyTypes
<1>. QED
  BY <1>1, <1>2, <1>3 DEF IInv, VerdictFits, Init

(* A step of a run under way that keeps the Minecraft result.                 *)
LEMMA RunStep ==
  ASSUME IInv, Running, UNCHANGED <<task, minecraft, verdict, cell>>,
         run' \in Runs, log' \in Logs, MoneyTypes', LogFits', BuildsFit',
         run'.unchecked => Gated /\ run'.ending \in {None, "limit"},
         \/ run'.made = run.made /\ run'.artifact = run.artifact /\ run'.unchecked = run.unchecked
         \/ run'.artifact = "INVALID" \/ run'.unchecked \/ ~Gated
  PROVE  IInv'
<1>1. Types'
  BY DEF IInv, Types
<1>2. verdict = None /\ run.ending = None /\ minecraft.status # "PASS"
  BY DEF IInv, VerdictFits, MinecraftFits, Running
<1>3. VerdictFits'
  BY <1>2 DEF VerdictFits
<1>4. Gated' = Gated
  BY DEF Gated
<1>5. MinecraftFits'
  BY <1>2, <1>4 DEF IInv, MinecraftFits
<1>. QED
  BY <1>1, <1>3, <1>5 DEF IInv

LEMMA TurnCharges ==
  ASSUME MoneyTypes, NEW c \in Nat, Turn(c)
  PROVE  /\ MoneyTypes' /\ begun' = begun
         /\ ledger'.accumulated = ledger.accumulated + c
         /\ ledger'.uncertain = ledger.uncertain
         /\ ledger'.attempt = ledger.attempt + c
         /\ Remaining(ledger') \in Nat
         /\ Remaining(ledger') + c = Remaining(ledger)
<1>1. ledger' = Charged(c, 0) /\ begun' = begun /\ c <= Remaining(ledger)
  BY DEF Turn
<1>2. /\ Remaining(ledger) \in Int /\ ledger.uncertain \in Nat /\ c + 0 = c
  BY BoundsFacts DEF MoneyTypes, Ledgers, Remaining
<1>3. /\ ledger' \in Ledgers /\ ledger'.accumulated + ledger'.uncertain <= Budget
      /\ ledger'.accumulated = ledger.accumulated + c
      /\ ledger'.uncertain = ledger.uncertain + 0
      /\ ledger'.attempt = ledger.attempt + c
      /\ Remaining(ledger') \in Nat
      /\ Remaining(ledger') + c + 0 = Remaining(ledger)
  BY <1>1, <1>2, ChargeFits
<1>. QED
  BY <1>1, <1>2, <1>3 DEF MoneyTypes

LEMMA TurnStep ==
  ASSUME IInv, NEW c \in 1..MaxCost, Turn(c)
  PROVE  IInv'
<1>1. /\ run \in Runs /\ log \in Logs /\ LogFits /\ BuildsFit /\ Running /\ ~run.unchecked
      /\ run.requests < MaxTurns /\ c \in Nat /\ MoneyTypes
  BY BoundsFacts DEF IInv, Types, Turn, Acting
<1>2. run' = [run EXCEPT !.requests = run.requests + 1]
  BY DEF Turn
<1>3. /\ run' \in Runs /\ run'.requests = run.requests + 1
      /\ run'.calls = run.calls /\ run'.builds = run.builds /\ run'.attempts = run.attempts
      /\ run'.ending = run.ending /\ run'.made = run.made /\ run'.artifact = run.artifact
      /\ run'.unchecked = run.unchecked
  <2>1. run.requests + 1 \in 0..MaxTurns
    <3>1. run.requests \in 0..MaxTurns
      BY <1>1 DEF Runs
    <3>. QED
      BY <1>1, <3>1, BoundsFacts
  <2>. QED
    BY <1>1, <1>2, <2>1 DEF Runs
<1>. DEFINE usage == [derived |-> c, remaining |-> Remaining(ledger'), attempt |-> ledger'.attempt]
<1>4. log' = [log EXCEPT !.models = log.models + 1, !.usages = Append(log.usages, usage)]
  BY DEF Turn
<1>5. usage \in Usages /\ MoneyTypes'
  <2>1. MoneyTypes' /\ Remaining(ledger') \in Nat
    BY <1>1, TurnCharges
  <2>. QED
    BY <1>1, <2>1 DEF Usages, Ledgers, MoneyTypes
<1>. HIDE DEF usage
<1>6. log' \in Logs /\ log'.models = log.models + 1 /\ log'.tools = log.tools
  <2>1. Append(log.usages, usage) \in Seq(Usages)
    BY <1>1, <1>5 DEF Logs
  <2>2. log.models + 1 \in Nat
    BY <1>1 DEF Logs
  <2>. QED
    BY <1>1, <1>4, <2>1, <2>2 DEF Logs
<1>7. LogFits' /\ BuildsFit'
  BY <1>1, <1>3, <1>6 DEF LogFits, BuildsFit
<1>8. UNCHANGED <<task, minecraft, verdict, cell>>
  BY DEF Turn
<1>. QED
  BY <1>1, <1>3, <1>5, <1>6, <1>7, <1>8, RunStep

LEMMA FailureCharges ==
  ASSUME MoneyTypes, NEW e \in Broke, NEW b \in 0..MaxCost, NEW h \in 0..MaxCost,
         ProviderFails(e, b, h)
  PROVE  /\ MoneyTypes' /\ begun' = begun
         /\ ledger'.accumulated = ledger.accumulated + b
         /\ ledger'.attempt = ledger.attempt + b
<1>1. b \in Nat /\ h \in Nat
  BY BoundsFacts
<1>2. ledger' = Charged(b, h) /\ begun' = begun /\ b + h <= Remaining(ledger)
  BY DEF ProviderFails
<1>3. /\ ledger' \in Ledgers /\ ledger'.accumulated + ledger'.uncertain <= Budget
      /\ ledger'.accumulated = ledger.accumulated + b
      /\ ledger'.attempt = ledger.attempt + b
  BY <1>1, <1>2, ChargeFits
<1>. QED
  BY <1>2, <1>3 DEF MoneyTypes

LEMMA ProviderFailsStep ==
  ASSUME IInv, NEW e \in Broke, NEW b \in 0..MaxCost, NEW h \in 0..MaxCost,
         ProviderFails(e, b, h)
  PROVE  IInv'
<1>1. /\ run \in Runs /\ log \in Logs /\ LogFits /\ BuildsFit /\ Running /\ ~run.unchecked
      /\ run.requests < MaxTurns
  BY DEF IInv, Types, ProviderFails, Acting
<1>2. run' = [run EXCEPT !.requests = run.requests + 1, !.ending = e]
  BY DEF ProviderFails
<1>3. /\ run' \in Runs /\ run'.requests = run.requests + 1
      /\ run'.calls = run.calls /\ run'.builds = run.builds /\ run'.attempts = run.attempts
      /\ run'.made = run.made /\ run'.artifact = run.artifact
      /\ run'.unchecked = run.unchecked
  <2>1. run.requests + 1 \in 0..MaxTurns
    <3>1. run.requests \in 0..MaxTurns
      BY <1>1 DEF Runs
    <3>. QED
      BY <1>1, <3>1, BoundsFacts
  <2>. QED
    BY <1>1, <1>2, <2>1 DEF Runs, Endings, Broke
<1>4. log' = [log EXCEPT !.models = log.models + 1]
  BY DEF ProviderFails
<1>5. log' \in Logs /\ log'.models = log.models + 1 /\ log'.tools = log.tools
  BY <1>1, <1>4 DEF Logs
<1>6. LogFits' /\ BuildsFit'
  BY <1>1, <1>3, <1>5 DEF LogFits, BuildsFit, Running, None
<1>7. UNCHANGED <<task, minecraft, verdict, cell>>
  BY DEF ProviderFails
<1>8. MoneyTypes'
  BY FailureCharges DEF IInv
<1>. QED
  BY <1>1, <1>3, <1>5, <1>6, <1>7, <1>8, RunStep

LEMMA ToolCallStep ==
  ASSUME IInv, NEW b \in BOOLEAN, ToolCall(b)
  PROVE  IInv'
<1>1. /\ run \in Runs /\ log \in Logs /\ LogFits /\ BuildsFit /\ Running /\ ~run.unchecked
      /\ run.calls < MaxCalls
  BY DEF IInv, Types, ToolCall, Acting
<1>. DEFINE n == run.calls + 1
            id == CallId(n)
            changed == (run.changed \/ b)
<1>2. run' = [run EXCEPT !.calls = n, !.changed = changed]
  BY DEF ToolCall
<1>3. /\ run' \in Runs /\ run'.calls = n /\ n \in Nat
      /\ run'.requests = run.requests /\ run'.builds = run.builds /\ run'.attempts = run.attempts
      /\ run'.ending = run.ending /\ run'.made = run.made /\ run'.artifact = run.artifact
      /\ run'.unchecked = run.unchecked
  <2>1. run.calls + 1 \in 0..MaxCalls
    <3>1. run.calls \in 0..MaxCalls
      BY <1>1 DEF Runs
    <3>. QED
      BY <1>1, <3>1, BoundsFacts
  <2>. QED
    <3>1. n \in 0..MaxCalls /\ n \in Nat /\ changed \in BOOLEAN
      BY <1>1, <2>1, BoundsFacts
    <3>. HIDE DEF n, changed
    <3>. QED
      BY <1>1, <1>2, <3>1 DEF Runs
<1>4. log' = [log EXCEPT !.tools = log.tools \o <<id, id>>]
  BY DEF ToolCall
<1>5. id \in Nat /\ (~LocalIds => id = n)
  BY <1>3 DEF CallId
<1>. HIDE DEF id
<1>6. /\ log.tools \o <<id, id>> \in Seq(Nat)
      /\ Range(log.tools \o <<id, id>>) = Range(log.tools) \cup {id}
  <2>. DEFINE s == log.tools
              t == s \o <<id, id>>
  <2>1. s \in Seq(Nat) /\ Len(s) \in Nat
    BY <1>1 DEF Logs
  <2>. HIDE DEF s
  <2>2. /\ t \in Seq(Nat) /\ Len(t) = Len(s) + 2 /\ DOMAIN t = 1..(Len(s) + 2)
        /\ DOMAIN s = 1..Len(s)
        /\ \A i \in 1..Len(s) : t[i] = s[i]
        /\ t[Len(s) + 1] = id /\ t[Len(s) + 2] = id
    <3>1. <<id, id>> \in Seq(Nat) /\ Len(<<id, id>>) = 2
      BY <1>5
    <3>2. t \in Seq(Nat) /\ Len(t) = Len(s) + 2
      BY <2>1, <3>1
    <3>3. /\ \A i \in 1..Len(s) : t[i] = s[i]
          /\ t[Len(s) + 1] = id /\ t[Len(s) + 2] = id
      BY <2>1, <3>1
    <3>. QED
      BY <2>1, <3>2, <3>3
  <2>. HIDE DEF t
  <2>3. ASSUME NEW i \in DOMAIN t
        PROVE  t[i] \in Range(s) \cup {id}
    <3>1. i \in 1..Len(s) \/ i = Len(s) + 1 \/ i = Len(s) + 2
      BY <2>1, <2>2
    <3>2. CASE i \in 1..Len(s)
      BY <2>2, <3>2 DEF Range
    <3>. QED
      BY <2>2, <3>1, <3>2
  <2>4. Range(s) \cup {id} \subseteq Range(t)
    <3>1. ASSUME NEW i \in DOMAIN s
          PROVE  s[i] \in Range(t)
      <4>1. i \in DOMAIN t /\ t[i] = s[i]
        BY <2>1, <2>2
      <4>. QED
        BY <4>1 DEF Range
    <3>2. Len(s) + 1 \in DOMAIN t
      BY <2>1, <2>2
    <3>. QED
      BY <2>2, <3>1, <3>2 DEF Range
  <2>5. Range(t) = Range(s) \cup {id}
    BY <2>3, <2>4 DEF Range
  <2>. QED
    BY <2>2, <2>5 DEF s, t
<1>7. /\ log' \in Logs /\ log'.models = log.models
      /\ log'.tools = log.tools \o <<id, id>>
  BY <1>1, <1>4, <1>6 DEF Logs
<1>8. LogFits'
  <2>1. log'.models = run'.requests
    BY <1>1, <1>3, <1>7 DEF LogFits
  <2>2. ASSUME ~LocalIds
        PROVE  Range(log'.tools) = 1..run'.calls
    <3>1. Range(log'.tools) = (1..run.calls) \cup {n}
      BY <1>1, <1>5, <1>6, <1>7, <2>2 DEF LogFits
    <3>2. run.calls \in Nat
      BY <1>1, BoundsFacts DEF Runs
    <3>3. (1..run.calls) \cup {n} = 1..n
      BY <3>2
    <3>. QED
      BY <1>3, <3>1, <3>3
  <2>. QED
    BY <2>1, <2>2 DEF LogFits
<1>9. BuildsFit'
  BY <1>1, <1>3 DEF BuildsFit
<1>10. UNCHANGED <<task, minecraft, verdict, cell>> /\ MoneyTypes'
  BY SameMoney DEF ToolCall, IInv
<1>. QED
  BY <1>1, <1>3, <1>7, <1>8, <1>9, <1>10, RunStep

LEMMA SameLog ==
  ASSUME LogFits, log' = log, run'.requests = run.requests, run'.calls = run.calls
  PROVE  LogFits'
BY DEF LogFits

LEMMA BuildStep ==
  ASSUME IInv, BuildFails \/ BuildRaises \/ \E v \in BOOLEAN, c \in Contents : BuildSucceeds(v, c)
  PROVE  IInv'
<1>1. /\ run \in Runs /\ log \in Logs /\ LogFits /\ BuildsFit /\ Running /\ ~run.unchecked
      /\ run.attempts < MaxBuilds /\ log' = log /\ UNCHANGED <<task, minecraft, verdict, cell>>
      /\ MoneyTypes'
  BY SameMoney DEF IInv, Types, BuildFails, BuildRaises, BuildSucceeds, CanBuild, Acting
<1>2. /\ run.attempts + 1 \in 0..MaxBuilds /\ run.attempts \in Nat
      /\ run.builds \in Seq(BOOLEAN) /\ Len(run.builds) = run.attempts
      /\ \A b \in BOOLEAN : /\ Append(run.builds, b) \in Seq(BOOLEAN)
                            /\ Len(Append(run.builds, b)) = run.attempts + 1
  <2>1. run.attempts \in 0..MaxBuilds /\ run.builds \in Seq(BOOLEAN)
    BY <1>1 DEF Runs
  <2>2. Len(run.builds) = run.attempts
    BY <1>1 DEF BuildsFit, Running, None
  <2>. QED
    BY <1>1, <2>1, <2>2, BoundsFacts
<1>3. CASE BuildFails
  <2>1. run' = [run EXCEPT !.attempts = run.attempts + 1, !.builds = Append(run.builds, FALSE)]
    BY <1>3 DEF BuildFails
  <2>2. /\ run' \in Runs /\ run'.attempts = run.attempts + 1
        /\ run'.builds = Append(run.builds, FALSE)
        /\ run'.requests = run.requests /\ run'.calls = run.calls
        /\ run'.ending = run.ending /\ run'.made = run.made /\ run'.artifact = run.artifact
        /\ run'.unchecked = run.unchecked
    BY <1>1, <1>2, <2>1 DEF Runs
  <2>3. LogFits' /\ BuildsFit'
    BY <1>1, <1>2, <2>2, SameLog DEF BuildsFit
  <2>. QED
    BY <1>1, <2>2, <2>3, RunStep
<1>4. CASE BuildRaises
  <2>1. run' = [run EXCEPT !.attempts = run.attempts + 1, !.ending = "failed"]
    BY <1>4 DEF BuildRaises
  <2>2. /\ run' \in Runs /\ run'.attempts = run.attempts + 1
        /\ run'.builds = run.builds
        /\ run'.requests = run.requests /\ run'.calls = run.calls
        /\ run'.ending = "failed" /\ run'.made = run.made /\ run'.artifact = run.artifact
        /\ run'.unchecked = run.unchecked
    BY <1>1, <1>2, <2>1 DEF Runs, Endings
  <2>3. LogFits' /\ BuildsFit'
    BY <1>1, <1>2, <2>2, SameLog DEF BuildsFit
  <2>. QED
    BY <1>1, <2>2, <2>3, RunStep
<1>5. ASSUME NEW v \in BOOLEAN, NEW c \in Contents, BuildSucceeds(v, c)
      PROVE  IInv'
  <2>. DEFINE artifact == IF v THEN "VALID" ELSE "INVALID"
              waits == v /\ Gated
              ending == IF ~v THEN "failed" ELSE IF Gated THEN run.ending ELSE "completed"
  <2>1. run' = [run EXCEPT
           !.attempts = run.attempts + 1, !.builds = Append(run.builds, TRUE),
           !.made = run.attempts + 1, !.artifact = artifact, !.content = c,
           !.unchecked = waits, !.ending = ending]
    BY <1>5 DEF BuildSucceeds
  <2>2. /\ artifact \in {"VALID", "INVALID"} /\ waits \in BOOLEAN
        /\ ending \in Endings \cup {None} /\ (waits => Gated /\ ending = None)
        /\ artifact = "INVALID" \/ waits \/ ~Gated
    BY <1>1 DEF Running, Endings, Gated
  <2>. HIDE DEF artifact, waits, ending
  <2>3. /\ run' \in Runs /\ run'.attempts = run.attempts + 1
        /\ run'.builds = Append(run.builds, TRUE)
        /\ run'.requests = run.requests /\ run'.calls = run.calls
        /\ run'.ending = ending /\ run'.made = run.attempts + 1 /\ run'.artifact = artifact
        /\ run'.unchecked = waits
    BY <1>1, <1>2, <2>1, <2>2 DEF Runs
  <2>4. LogFits' /\ BuildsFit'
    BY <1>1, <1>2, <2>3, SameLog DEF BuildsFit
  <2>. QED
    BY <1>1, <2>2, <2>3, <2>4, RunStep
<1>. QED
  BY <1>3, <1>4, <1>5

(* The gate: the validator answers for the artifact that waits for it.        *)
LEMMA ValidationStep ==
  ASSUME IInv, ResourcesFail \/ ValidateRaises \/ \E r \in Results \cup {None} : Validate(r)
  PROVE  IInv'
<1>1. /\ run \in Runs /\ log \in Logs /\ LogFits /\ BuildsFit /\ Running /\ run.unchecked /\ Gated
      /\ log' = log /\ UNCHANGED <<task, verdict, cell>> /\ run.ending = None
      /\ MoneyTypes'
  BY SameMoney DEF IInv, Types, MinecraftFits, ResourcesFail, ValidateRaises, Validate, Running
<1>2. PICK ending \in {None, "completed", "blocked", "failed"}, validated \in BOOLEAN :
         /\ run' = [run EXCEPT !.unchecked = FALSE, !.validated = validated, !.ending = ending]
         /\ \/ minecraft' = NoResult
            \/ /\ Accepted(run.content)
               /\ minecraft'.judged = run.made /\ minecraft' \in Judgements
               /\ minecraft'.status = "PASS" => ending = "completed"
  <2>1. CASE ResourcesFail
    <3>1. /\ run' = [run EXCEPT !.unchecked = FALSE, !.validated = TRUE]
          /\ minecraft' = NoResult
      BY <2>1 DEF ResourcesFail, Forgotten
    <3>2. run' = [run EXCEPT !.unchecked = FALSE, !.validated = TRUE, !.ending = None]
      BY <1>1, <3>1 DEF Runs
    <3>. QED
      BY <3>1, <3>2
  <2>2. CASE ValidateRaises
    <3>1. /\ run' = [run EXCEPT !.unchecked = FALSE, !.ending = "failed"]
          /\ minecraft' = NoResult
      BY <2>2 DEF ValidateRaises, Forgotten
    <3>2. /\ run' = [run EXCEPT !.unchecked = FALSE, !.validated = run.validated, !.ending = "failed"]
          /\ run.validated \in BOOLEAN
      BY <1>1, <3>1 DEF Runs
    <3>. QED
      BY <3>1, <3>2
  <2>3. ASSUME NEW r \in Results \cup {None}, Validate(r)
        PROVE  \E ending \in {None, "completed", "blocked", "failed"}, validated \in BOOLEAN :
                 /\ run' = [run EXCEPT !.unchecked = FALSE, !.validated = validated, !.ending = ending]
                 /\ \/ minecraft' = NoResult
                    \/ /\ Accepted(run.content)
                       /\ minecraft'.judged = run.made /\ minecraft' \in Judgements
                       /\ minecraft'.status = "PASS" => ending = "completed"
    <3>. DEFINE ending == IF r = "PASS" THEN "completed"
                          ELSE IF r \in {"FAIL", "TARGET_CRASH"} THEN None ELSE "blocked"
    <3>1. /\ run' = [run EXCEPT !.unchecked = FALSE, !.validated = TRUE, !.ending = ending]
          /\ minecraft' = IF r = None THEN NoResult ELSE [status |-> r, judged |-> run.made]
          /\ Accepted(run.content)
      BY <2>3 DEF Validate
    <3>2. ending \in {None, "completed", "blocked", "failed"} /\ (r = "PASS" => ending = "completed")
      OBVIOUS
    <3>. HIDE DEF ending
    <3>3. CASE r = None
      BY <3>1, <3>2, <3>3
    <3>4. CASE r # None
      <4>1. minecraft' = [status |-> r, judged |-> run.made] /\ run.made \in 0..MaxBuilds
        BY <1>1, <3>1, <3>4 DEF Runs
      <4>2. /\ minecraft' \in Judgements /\ minecraft'.judged = run.made
            /\ minecraft'.status = "PASS" => ending = "completed"
        BY <3>2, <3>4, <4>1 DEF Judgements
      <4>. QED
        BY <3>1, <3>2, <4>2
    <3>. QED
      BY <3>3, <3>4
  <2>. QED
    BY <2>1, <2>2, <2>3
<1>3. /\ run' \in Runs /\ run'.ending = ending /\ ~run'.unchecked /\ run'.builds = run.builds
      /\ run'.requests = run.requests /\ run'.calls = run.calls /\ run'.attempts = run.attempts
      /\ run'.made = run.made /\ run'.artifact = run.artifact /\ run'.content = run.content
  BY <1>1, <1>2 DEF Runs, Endings
<1>4. minecraft' \in Judgements
  BY <1>2, NothingYet
<1>5. Types'
  BY <1>1, <1>3, <1>4 DEF IInv, Types
<1>6. LogFits' /\ BuildsFit'
  BY <1>1, <1>3, SameLog DEF BuildsFit, None
<1>7. verdict' = None
  BY <1>1 DEF IInv, VerdictFits, Running
<1>8. Gated'
  BY <1>1 DEF Gated
<1>9. MinecraftFits'
  BY <1>2, <1>3, <1>8 DEF MinecraftFits, NoResult, None
<1>. QED
  BY <1>1, <1>5, <1>6, <1>7, <1>9 DEF IInv, VerdictFits

LEMMA EndStep ==
  ASSUME IInv, Contaminate \/ \E e \in {"limit", "agent_failure", "failed"} : End(e)
  PROVE  IInv'
<1>1. /\ run \in Runs /\ log \in Logs /\ LogFits /\ BuildsFit /\ Running
      /\ log' = log /\ UNCHANGED <<task, minecraft, verdict, cell>> /\ MoneyTypes'
  BY SameMoney DEF IInv, Types, Contaminate, End
<1>2. PICK ending \in {run.ending, "limit", "agent_failure", "failed"}, dirty \in BOOLEAN :
         /\ run' = [run EXCEPT !.ending = ending, !.contaminated = dirty]
         /\ run.unchecked => ending \in {run.ending, "limit"}
  <2>1. CASE Contaminate
    <3>1. run' = [run EXCEPT !.ending = run.ending, !.contaminated = TRUE]
      BY <1>1, <2>1 DEF Contaminate, Runs
    <3>. QED
      BY <3>1
  <2>2. ASSUME NEW e \in {"limit", "agent_failure", "failed"}, End(e)
        PROVE  \E ending \in {run.ending, "limit", "agent_failure", "failed"}, dirty \in BOOLEAN :
                 /\ run' = [run EXCEPT !.ending = ending, !.contaminated = dirty]
                 /\ run.unchecked => ending \in {run.ending, "limit"}
    <3>1. run' = [run EXCEPT !.ending = e] /\ (run.unchecked => e = "limit")
      BY <2>2 DEF End
    <3>2. run' = [run EXCEPT !.ending = e, !.contaminated = run.contaminated]
          /\ run.contaminated \in BOOLEAN
      BY <1>1, <3>1 DEF Runs
    <3>. QED
      BY <3>1, <3>2
  <2>. QED
    BY <2>1, <2>2
<1>3. /\ run' \in Runs /\ run'.ending = ending /\ run'.unchecked = run.unchecked
      /\ run'.builds = run.builds
      /\ run'.requests = run.requests /\ run'.calls = run.calls /\ run'.attempts = run.attempts
      /\ run'.made = run.made /\ run'.artifact = run.artifact
  <2>1. ending \in Endings \cup {None}
    BY <1>1 DEF Running, Endings
  <2>. QED
    BY <1>1, <1>2, <2>1 DEF Runs
<1>4. LogFits' /\ BuildsFit'
  BY <1>1, <1>3, SameLog DEF BuildsFit, Running, None
<1>5. run'.unchecked => Gated /\ run'.ending \in {None, "limit"}
  BY <1>1, <1>2, <1>3 DEF IInv, MinecraftFits, Running
<1>. QED
  BY <1>1, <1>3, <1>4, <1>5, RunStep DEF IInv, Types

LEMMA RunMinecraftStep ==
  ASSUME IInv, NEW r \in Results, RunMinecraft(r)
  PROVE  IInv'
<1>1. /\ run.ending # None /\ verdict = None /\ ~run.validated /\ run.artifact # None
      /\ minecraft' = [status |-> Combined(r), judged |-> run.made]
      /\ UNCHANGED <<task, run, log, verdict, cell>> /\ run \in Runs
      /\ MoneyTypes'
  BY SameMoney DEF RunMinecraft, NeedsMinecraft, IInv, Types
<1>2. /\ Combined(r) \in Results
      /\ Combined(r) = "PASS" => Accepted(run.content)
  BY DEF Combined, Results, Broken
<1>3. minecraft' \in Judgements /\ minecraft'.judged = run.made /\ minecraft'.status = Combined(r)
  BY <1>1, <1>2 DEF Judgements, Runs
<1>4. Types' /\ LogFits' /\ BuildsFit' /\ VerdictFits'
  BY <1>1, <1>3 DEF IInv, Types, LogFits, BuildsFit, VerdictFits
<1>5. MinecraftFits'
  BY <1>1, <1>2, <1>3 DEF IInv, MinecraftFits, Gated
<1>. QED
  BY <1>1, <1>4, <1>5 DEF IInv

LEMMA ClassifyStep ==
  ASSUME IInv, Classify
  PROVE  IInv'
<1>1. /\ run.ending # None /\ UNCHANGED <<task, run, log, minecraft, cell>>
      /\ verdict' = IF run.contaminated THEN "INVALID" ELSE Classified
      /\ MoneyTypes'
  BY SameMoney DEF Classify, IInv
<1>2. Classified \in Verdicts
  BY DEF Classified, ByEnding, Verdicts
<1>3. Types' /\ LogFits' /\ BuildsFit'
  BY <1>1, <1>2 DEF IInv, Types, LogFits, BuildsFit, Verdicts
<1>4. MinecraftFits'
  BY <1>1 DEF IInv, MinecraftFits, Gated
<1>5. Classified' = Classified
  BY <1>1 DEF Classified, ByEnding, Inconsistent, Missing, LastBuild
<1>6. VerdictFits'
  BY <1>1, <1>5 DEF VerdictFits
<1>. QED
  BY <1>1, <1>3, <1>4, <1>6 DEF IInv

LEMMA NextAttempt ==
  ASSUME MoneyTypes, NEW o \in 0..MaxCost, Record(o)
  PROVE  /\ MoneyTypes' /\ begun' = ledger' /\ ledger'.attempt = 0
<1>. DEFINE l == Charged(o, 0)
<1>1. /\ o \in Nat /\ o + 0 <= Remaining(ledger)
      /\ ledger' = [l EXCEPT !.attempt = 0] /\ begun' = ledger'
  <2>1. o \in Nat /\ o <= Remaining(ledger) /\ o + 0 = o
    BY BoundsFacts DEF Record
  <2>. QED
    BY <2>1 DEF Record
<1>2. l \in Ledgers /\ l.accumulated + l.uncertain <= Budget
  BY <1>1, ChargeFits
<1>. HIDE DEF l
<1>3. /\ ledger' \in Ledgers /\ ledger'.attempt = 0
      /\ ledger'.accumulated = l.accumulated /\ ledger'.uncertain = l.uncertain
  BY <1>1, <1>2 DEF Ledgers
<1>. QED
  BY <1>1, <1>2, <1>3 DEF MoneyTypes

LEMMA RecordStep ==
  ASSUME IInv, NEW o \in 0..MaxCost, Record(o)
  PROVE  IInv'
<1>1. /\ verdict # None /\ Len(cell) < MaxRuns /\ cell' = Append(cell, verdict)
      /\ run' = NoRun /\ log' = NoLog /\ minecraft' = NoResult /\ verdict' = None
      /\ task' = task /\ cell \in Seq(Verdicts) /\ verdict \in Verdicts /\ MoneyTypes'
  BY NextAttempt DEF Record, IInv, Types
<1>2. cell' \in Seq(Verdicts) /\ Len(cell') <= MaxRuns
  BY <1>1, BoundsFacts
<1>3. Types'
  BY <1>1, <1>2, NothingYet DEF IInv, Types
<1>4. LogFits'
  <2>1. log'.models = 0 /\ run'.requests = 0 /\ run'.calls = 0 /\ Range(log'.tools) = {}
    BY <1>1, NothingYet DEF NoRun, NoLog
  <2>. QED
    BY <2>1 DEF LogFits
<1>5. BuildsFit'
  BY <1>1 DEF BuildsFit, NoRun
<1>6. MinecraftFits'
  BY <1>1 DEF MinecraftFits, NoRun, NoResult, None
<1>7. VerdictFits'
  BY <1>1 DEF VerdictFits
<1>. QED
  BY <1>1, <1>3, <1>4, <1>5, <1>6, <1>7 DEF IInv

LEMMA StutterStep ==
  ASSUME IInv, UNCHANGED vars
  PROVE  IInv'
<1>1. UNCHANGED <<task, run, log, minecraft, verdict, cell>> /\ MoneyTypes'
  BY SameMoney DEF vars, money, IInv
<1>2. Classified' = Classified /\ Gated' = Gated
  BY <1>1 DEF Classified, ByEnding, Inconsistent, Missing, LastBuild, Gated
<1>. QED
  BY <1>1, <1>2 DEF IInv, Types, LogFits, BuildsFit, MinecraftFits, VerdictFits

-----------------------------------------------------------------------------
(* Every step keeps the invariant.                                            *)
THEOREM InvariantHolds == Spec => []IInv
<1>1. ASSUME IInv, [Next]_vars
      PROVE  IInv'
  BY <1>1, TurnStep, ToolCallStep, ProviderFailsStep, BuildStep, ValidationStep, EndStep,
     RunMinecraftStep, ClassifyStep, RecordStep, StutterStep DEF Next
<1>. QED
  BY <1>1, InitIInv, PTL DEF Spec

(* Every run stays within its limits, and a cell is a sequence of verdicts.   *)
THEOREM TypesHold == Spec => []TypeOK
<1>1. IInv => TypeOK
  <2>. SUFFICES ASSUME IInv
                PROVE  TypeOK
    OBVIOUS
  <2>1. /\ run.ending \in Endings \cup {None} /\ run.requests \in 0..MaxTurns
        /\ run.calls \in 0..MaxCalls /\ run.attempts \in 0..MaxBuilds
        /\ minecraft.status \in Results \cup {None}
    BY DEF IInv, Types, Runs, Judgements
  <2>2. cell \in BoundedSeq(Verdicts, MaxRuns)
    <3>1. Len(cell) \in 0..MaxRuns /\ cell \in [1..Len(cell) -> Verdicts]
      BY BoundsFacts DEF IInv, Types
    <3>. QED
      BY <3>1, BoundsFacts DEF BoundedSeq, SeqOf
  <2>. QED
    BY <2>1, <2>2 DEF IInv, Types, MoneyTypes, Ledgers, BuildsFit, TypeOK
<1>. QED
  BY <1>1, InvariantHolds, PTL

(* A PASS has all the evidence its task requires, of the artifact the run     *)
(* ended with, and an untouched fixture.                                      *)
THEOREM APassHasEvidence == Spec => []PassHasEvidence
<1>1. IInv => PassHasEvidence
  <2>. SUFFICES ASSUME IInv, verdict = "PASS"
                PROVE  /\ "build" \in task.required => LastBuild(TRUE)
                       /\ "artifact" \in task.required => run.artifact = "VALID"
                       /\ "minecraft" \in task.required =>
                             minecraft = [status |-> "PASS", judged |-> run.made]
                             /\ Accepted(run.content)
                       /\ "change" \in task.required => run.changed
                       /\ ~run.contaminated
    BY DEF PassHasEvidence
  <2>1. ~run.contaminated /\ Classified = "PASS"
    BY DEF IInv, VerdictFits, None
  <2>2. /\ run.ending \notin EndsThatDecide /\ ~Inconsistent
        /\ "build" \in task.required => ~LastBuild(FALSE)
        /\ "artifact" \in task.required => run.artifact = "VALID"
        /\ "minecraft" \in task.required => minecraft.status = "PASS"
        /\ "change" \in task.required => run.changed
    BY <2>1 DEF Classified, ByEnding
  <2>3. ASSUME "build" \in task.required
        PROVE  LastBuild(TRUE)
    <3>1. run.builds # <<>> /\ run.builds \in Seq(BOOLEAN)
      BY <2>2, <2>3 DEF Inconsistent, Missing, IInv, Types, Runs
    <3>2. run.builds[Len(run.builds)] \in BOOLEAN
      BY <3>1
    <3>3. Last(run.builds) # FALSE
      BY <2>2, <2>3, <3>1 DEF LastBuild
    <3>. QED
      BY <3>1, <3>2, <3>3 DEF LastBuild, Last
  <2>4. ASSUME minecraft.status = "PASS"
        PROVE  minecraft = [status |-> "PASS", judged |-> run.made] /\ Accepted(run.content)
    BY <2>4 DEF IInv, Types, Judgements, MinecraftFits
  <2>. QED
    BY <2>1, <2>2, <2>3, <2>4
<1>. QED
  BY <1>1, InvariantHolds, PTL

(* A FAIL is the agent's: never a provider's or a limit's end, a touched      *)
(* fixture or a harness that crashed, timed out or was not there.             *)
THEOREM AFailIsTheAgents == Spec => []FailIsTheAgents
<1>1. IInv => FailIsTheAgents
  <2>. SUFFICES ASSUME IInv, verdict = "FAIL"
                PROVE  /\ run.ending \notin {"provider_error", "limit"}
                       /\ ~run.contaminated
                       /\ \/ run.ending = "agent_failure"
                          \/ LastBuild(FALSE)
                          \/ run.artifact # "VALID"
                          \/ minecraft.status \in {"FAIL", "TARGET_CRASH"}
                          \/ "change" \in task.required /\ ~run.changed
    BY DEF FailIsTheAgents
  <2>1. ~run.contaminated /\ Classified = "FAIL"
    BY DEF IInv, VerdictFits, None
  <2>2. CASE run.ending \in EndsThatDecide
    <3>1. Classified = ByEnding
      BY <2>2 DEF Classified
    <3>2. run.ending = "agent_failure"
      BY <2>1, <3>1 DEF ByEnding
    <3>. QED
      BY <2>1, <3>2
  <2>3. CASE run.ending \notin EndsThatDecide
    BY <2>1, <2>3 DEF Classified, AgentsResults, EndsThatDecide
  <2>. QED
    BY <2>2, <2>3
<1>. QED
  BY <1>1, InvariantHolds, PTL

(* A Minecraft result that is classified is of the artifact reported.         *)
THEOREM WhatIsJudgedIsReported == Spec => []JudgedIsReported
<1>1. IInv => JudgedIsReported
  BY DEF IInv, MinecraftFits, VerdictFits, JudgedIsReported
<1>. QED
  BY <1>1, InvariantHolds, PTL

(* With ids that tell calls apart, a run that broke off on no internal error, *)
(* with all its evidence and an untouched fixture, is never INVALID.          *)
THEOREM HonestRunsCount == ASSUME ~LocalIds PROVE Spec => []HonestRunIsValid
<1>1. IInv => HonestRunIsValid
  <2>. SUFFICES ASSUME IInv, verdict = "INVALID", ~run.contaminated, run.ending # "failed"
                PROVE  Missing
    BY DEF HonestRunIsValid
  <2>1. Classified = "INVALID"
    BY DEF IInv, VerdictFits, None
  <2>2. Inconsistent
    BY <2>1 DEF Classified, ByEnding
  <2>3. log.models = run.requests /\ Range(log.tools) = 1..run.calls
    BY DEF IInv, LogFits
  <2>4. LogicalCalls(log.tools) = run.calls
    <3>1. run.calls \in Nat
      BY BoundsFacts DEF IInv, Types, Runs
    <3>2. Cardinality(1..run.calls) = run.calls
      BY <3>1, FS_Interval
    <3>. QED
      BY <2>3, <3>2 DEF LogicalCalls
  <2>5. Len(run.builds) = run.attempts
    BY DEF IInv, BuildsFit
  <2>. QED
    BY <2>2, <2>3, <2>4, <2>5 DEF Inconsistent
<1>. QED
  BY <1>1, InvariantHolds, PTL

-----------------------------------------------------------------------------
(* to_cell counts a further run where it belongs and nowhere else.            *)
LEMMA CountOther ==
  ASSUME NEW runs \in Seq(Verdicts), NEW v \in Verdicts, NEW S, v \notin S
  PROVE  Count(Append(runs, v), S) = Count(runs, S)
<1>. DEFINE new == Append(runs, v)
<1>1. /\ Len(runs) \in Nat /\ DOMAIN runs = 1..Len(runs) /\ DOMAIN new = 1..(Len(runs) + 1)
      /\ \A i \in 1..Len(runs) : new[i] = runs[i]
      /\ new[Len(runs) + 1] = v
  OBVIOUS
<1>. HIDE DEF new
<1>2. {i \in DOMAIN new : new[i] \in S} = {i \in DOMAIN runs : runs[i] \in S}
  BY <1>1
<1>. QED
  BY <1>2 DEF Count, new

(* A blocked or invalid run moves no rate and completes no cell.              *)
THEOREM BlockedCountsForNothing == Spec => BlockedMovesNoRate
<1>. DEFINE Unmoved == Len(cell') > Len(cell) /\ Last(cell') \in {"BLOCKED", "INVALID"} =>
                          /\ Rate(cell') = Rate(cell)
                          /\ ComparisonStatus(cell') = ComparisonStatus(cell)
<1>1. ASSUME IInv, [Next]_vars
      PROVE  Unmoved
  <2>1. CASE cell' = cell
    <3>1. ~(Len(cell') > Len(cell))
      BY <1>1, <2>1 DEF IInv, Types
    <3>. QED
      BY <3>1
  <2>2. CASE \E o \in 0..MaxCost : Record(o)
    <3>1. cell' = Append(cell, verdict) /\ cell \in Seq(Verdicts) /\ verdict \in Verdicts
      BY <1>1, <2>2 DEF Record, IInv, Types
    <3>2. Last(cell') = verdict
      BY <3>1 DEF Last
    <3>. SUFFICES ASSUME verdict \in {"BLOCKED", "INVALID"}
                  PROVE  Rate(cell') = Rate(cell)
      BY <3>2 DEF ComparisonStatus
    <3>3. Count(cell', {"PASS"}) = Count(cell, {"PASS"})
      BY <3>1, CountOther
    <3>4. Count(cell', {"PASS", "FAIL"}) = Count(cell, {"PASS", "FAIL"})
      BY <3>1, CountOther
    <3>. QED
      BY <3>3, <3>4 DEF Rate
  <2>. QED
    BY <1>1, <2>1, <2>2 DEF Next, vars, Turn, ToolCall, ProviderFails, BuildFails, BuildRaises,
       BuildSucceeds, ResourcesFail, Validate, ValidateRaises, End, Contaminate, RunMinecraft,
       Classify
<1>. QED
  BY <1>1, InvariantHolds, PTL DEF Spec, BlockedMovesNoRate
-----------------------------------------------------------------------------
(* Sums.  No theorem of the library that states induction can be used here,   *)
(* so what holds of every number is proved of the least one it fails for.     *)
(* The least element of a set of numbers: of the intervals from zero to each, *)
(* one is minimal under inclusion.                                            *)
LEMMA LeastNat ==
  ASSUME NEW S \in SUBSET Nat, S # {}
  PROVE  \E x \in S : \A y \in S : x <= y
<1>. DEFINE T == {0..n : n \in S}
            R == StrictSubsetOrdering(Nat)
<1>1. T \subseteq FiniteSubsetsOf(Nat) /\ T # {}
  <2>1. ASSUME NEW n \in S
        PROVE  0..n \in FiniteSubsetsOf(Nat)
    <3>1. IsFiniteSet(0..n)
      BY FS_Interval
    <3>. QED
      BY <3>1 DEF FiniteSubsetsOf
  <2>. QED
    BY <2>1
<1>2. IsWellFoundedOn(R, FiniteSubsetsOf(Nat))
  BY FS_StrictSubsetOrderingWellFounded
<1>. HIDE DEF R, T
<1>3. \E x \in T : \A y \in T : <<y, x>> \notin R
  BY <1>1, <1>2, WFMin
<1>. USE DEF T
<1>4. PICK n \in S : \A y \in T : <<y, 0..n>> \notin R
  BY <1>3
<1>5. ASSUME NEW m \in S, ~(n <= m)
      PROVE  FALSE
  <2>1. m \in Nat /\ n \in Nat /\ m < n
    BY <1>5
  <2>2. 0..m \subseteq 0..n /\ n \in 0..n /\ n \notin 0..m
    BY <2>1
  <2>3. 0..m \in SUBSET Nat /\ 0..n \in SUBSET Nat /\ 0..m # 0..n
    BY <2>1, <2>2
  <2>4. <<0..m, 0..n>> \in R
    BY <2>2, <2>3 DEF R, StrictSubsetOrdering
  <2>. QED
    BY <1>4, <2>4
<1>. QED
  BY <1>5

(* There is a function that sums the numbers of a list.                       *)
LEMMA SumExists ==
  ASSUME NEW N \in Nat, NEW a \in [1..N -> Nat]
  PROVE  \E f \in [0..N -> Nat] :
            f = [n \in 0..N |-> IF n = 0 THEN 0 ELSE f[n - 1] + a[n]]
<1>. DEFINE Sums(f, m) == \A n \in 0..m : f[n] = IF n = 0 THEN 0 ELSE f[n - 1] + a[n]
            Summed(m) == \E f \in [0..m -> Nat] : Sums(f, m)
            Bad == {m \in 0..N : ~Summed(m)}
<1>1. Bad = {}
  <2>. SUFFICES ASSUME Bad # {}
                PROVE  FALSE
    OBVIOUS
  <2>1. PICK m \in Bad : \A k \in Bad : m <= k
    <3>1. Bad \in SUBSET Nat
      OBVIOUS
    <3>. HIDE DEF Bad
    <3>. QED
      BY <3>1, LeastNat
  <2>2. m \in 0..N /\ m \in Nat
    OBVIOUS
  <2>3. CASE m = 0
    <3>. DEFINE f == [n \in 0..0 |-> 0]
    <3>1. f \in [0..0 -> Nat] /\ Sums(f, 0)
      OBVIOUS
    <3>. QED
      BY <3>1, <2>3
  <2>4. CASE m # 0
    <3>1. m - 1 \in 0..N /\ m - 1 \notin Bad
      <4>1. m - 1 \in 0..N /\ ~(m <= m - 1)
        BY <2>2, <2>4
      <4>. QED
        BY <2>1, <4>1
    <3>2. PICK f \in [0..(m - 1) -> Nat] : Sums(f, m - 1)
      BY <3>1
    <3>. DEFINE g == [n \in 0..m |-> IF n = m THEN f[m - 1] + a[m] ELSE f[n]]
    <3>3. g \in [0..m -> Nat]
      BY <2>2, <2>4, <3>2
    <3>4. \A n \in 0..(m - 1) : g[n] = f[n]
      BY <2>2
    <3>5. Sums(g, m)
      BY <2>2, <2>4, <3>2, <3>4
    <3>. QED
      BY <3>3, <3>5
  <2>. QED
    BY <2>3, <2>4
<1>2. PICK f \in [0..N -> Nat] : Sums(f, N)
  <2>1. Summed(N)
    <3>. HIDE DEF Summed
    <3>1. N \in 0..N
      OBVIOUS
    <3>. QED
      BY <1>1, <3>1
  <2>. QED
    BY <2>1
<1>3. f = [n \in 0..N |-> IF n = 0 THEN 0 ELSE f[n - 1] + a[n]]
  BY <1>2
<1>. QED
  BY <1>3

(* _aggregate_usage: where every snapshot of the attempt is the sum so far,    *)
(* the last one is the sum of the costs.                                      *)
LEMMA LastIsSum ==
  ASSUME IInv, UsagesFit, log.usages # <<>>
  PROVE  SumOf(log.usages, "derived") = Last(log.usages).attempt
<1>. DEFINE u == log.usages
            N == Len(u)
            a == [n \in 1..N |-> u[n].derived]
            Adds(f) == f = [n \in 0..N |-> IF n = 0 THEN 0 ELSE f[n - 1] + u[n]["derived"]]
            Sum == CHOOSE f : Adds(f)
<1>1. u \in Seq(Usages) /\ N \in Nat /\ N # 0 /\ \A n \in 1..N : u[n] \in Usages
  BY DEF IInv, Types, Logs
<1>2. a \in [1..N -> Nat]
  BY <1>1 DEF Usages
<1>3. \E f : Adds(f)
  <2>1. PICK f \in [0..N -> Nat] : f = [n \in 0..N |-> IF n = 0 THEN 0 ELSE f[n - 1] + a[n]]
    <3>. HIDE DEF a, N
    <3>. QED
      BY <1>1, <1>2, SumExists
  <2>2. \A n \in 1..N : a[n] = u[n]["derived"]
    OBVIOUS
  <2>3. ASSUME NEW n \in 0..N
        PROVE  (IF n = 0 THEN 0 ELSE f[n - 1] + a[n])
                  = IF n = 0 THEN 0 ELSE f[n - 1] + u[n]["derived"]
    <3>. HIDE DEF a, N
    <3>1. n # 0 => n \in 1..N
      BY <1>1
    <3>. QED
      BY <2>2, <3>1
  <2>4. Adds(f)
    <3>. HIDE DEF a
    <3>. QED
      BY <2>1, <2>3
  <2>. QED
    BY <2>4
<1>4. Adds(Sum)
  BY <1>3
<1>5. SumOf(u, "derived") = Sum[N]
  BY DEF SumOf
<1>. HIDE DEF Sum
<1>6. Sum[0] = 0 /\ \A n \in 1..N : Sum[n] = Sum[n - 1] + u[n].derived
  BY <1>1, <1>4
<1>. DEFINE Bad == {n \in 1..N : Sum[n] # u[n].attempt}
<1>7. Bad = {}
  <2>. SUFFICES ASSUME Bad # {}
                PROVE  FALSE
    OBVIOUS
  <2>1. PICK m \in Bad : \A k \in Bad : m <= k
    <3>1. Bad \in SUBSET Nat
      OBVIOUS
    <3>. HIDE DEF Bad
    <3>. QED
      BY <3>1, LeastNat
  <2>2. m \in 1..N /\ Sum[m] = Sum[m - 1] + u[m].derived /\ Sum[m] # u[m].attempt
    BY <1>6
  <2>3. u[m].attempt = u[m].derived + (IF m = 1 THEN 0 ELSE u[m - 1].attempt)
    BY <2>2 DEF UsagesFit
  <2>4. u[m].derived \in Nat
    BY <1>1, <2>2 DEF Usages
  <2>5. CASE m = 1
    BY <1>6, <2>2, <2>3, <2>4, <2>5
  <2>6. CASE m # 1
    <3>1. m - 1 \in 1..N /\ ~(m <= m - 1)
      BY <2>2, <2>6
    <3>2. Sum[m - 1] = u[m - 1].attempt /\ u[m - 1].attempt \in Nat
      BY <1>1, <2>1, <3>1 DEF Usages
    <3>. QED
      BY <2>2, <2>3, <2>4, <2>6, <3>2
  <2>. QED
    BY <2>5, <2>6
<1>8. Sum[N] = u[N].attempt
  BY <1>1, <1>7
<1>. QED
  BY <1>5, <1>8 DEF Last

LEMMA LoggedIsSum ==
  ASSUME IInv, UsagesFit
  PROVE  Usage(log.usages)["derived"] = Logged
<1>1. CASE log.usages = <<>>
  BY <1>1 DEF Usage, Logged
<1>2. CASE log.usages # <<>>
  BY <1>2, LastIsSum DEF Usage, Cumulative, Logged
<1>. QED
  BY <1>1, <1>2

Balanced == UsagesFit /\ LedgerFits

(* A model turn adds a usage on top of the last one.                          *)
LEMMA TurnBalances ==
  ASSUME IInv, Balanced, NEW c \in 1..MaxCost, Turn(c)
  PROVE  Balanced'
<1>. DEFINE u == log.usages
            usage == [derived |-> c, remaining |-> Remaining(ledger'), attempt |-> ledger'.attempt]
            v == Append(u, usage)
<1>1. log'.usages = v /\ u \in Seq(Usages) /\ c \in Nat /\ MoneyTypes
  BY BoundsFacts DEF Turn, IInv, Types, Logs
<1>2. /\ Len(u) \in Nat /\ Len(v) = Len(u) + 1 /\ v[Len(u) + 1] = usage
      /\ \A n \in 1..Len(u) : v[n] = u[n]
  BY <1>1
<1>3. /\ usage.derived = c /\ usage.remaining = Remaining(ledger')
      /\ usage.attempt = ledger'.attempt
  OBVIOUS
<1>4. v # <<>> /\ Last(v) = usage
  BY <1>2 DEF Last
<1>. HIDE DEF v, usage
<1>5. /\ begun' = begun
      /\ ledger'.accumulated = ledger.accumulated + c
      /\ ledger'.uncertain = ledger.uncertain
      /\ ledger'.attempt = ledger.attempt + c
      /\ Remaining(ledger') + c = Remaining(ledger) /\ Remaining(ledger') \in Nat
  BY <1>1, TurnCharges
<1>6. /\ run.ending = None /\ run'.ending = None
  BY DEF Turn, Acting, Running, IInv, Types, Runs
<1>7. Logged = ledger.attempt /\ ledger.uncertain = begun.uncertain
      /\ ledger.accumulated = begun.accumulated + ledger.attempt
  BY <1>6 DEF Balanced, LedgerFits, Broke, None
<1>8. /\ ledger.accumulated \in Nat /\ ledger.uncertain \in Nat /\ ledger.attempt \in Nat
      /\ begun.accumulated \in Nat /\ begun.uncertain \in Nat /\ Budget \in Nat
  BY <1>1, BoundsFacts DEF MoneyTypes, Ledgers
<1>9. Remaining(ledger') + ledger'.attempt = Remaining(begun)
  <2>1. Remaining(ledger) = Budget - ledger.accumulated - ledger.uncertain
        /\ Remaining(begun) = Budget - begun.accumulated - begun.uncertain
    BY DEF Remaining
  <2>. DEFINE left == Remaining(ledger')
              spent == ledger'.attempt
  <2>2. /\ left \in Nat /\ left + c = Remaining(ledger)
        /\ spent = ledger.attempt + c /\ c \in Nat
    BY <1>1, <1>5
  <2>. HIDE DEF left, spent
  <2>3. left + spent = Remaining(begun)
    BY <1>7, <1>8, <2>1, <2>2
  <2>. QED
    BY <2>3 DEF left, spent
<1>10. LedgerFits'
  <2>1. Logged' = ledger'.attempt
    BY <1>1, <1>3, <1>4 DEF Logged
  <2>. QED
    BY <1>1, <1>5, <1>7, <1>8, <2>1 DEF LedgerFits
<1>11. Logged = IF Len(u) = 0 THEN 0 ELSE u[Len(u)].attempt
  BY <1>1 DEF Last, Logged
<1>12. ASSUME NEW n \in 1..Len(v)
      PROVE  /\ v[n].attempt = v[n].derived + (IF n = 1 THEN 0 ELSE v[n - 1].attempt)
             /\ v[n].remaining + v[n].attempt = Remaining(begun)
  <2>1. CASE n \in 1..Len(u)
    <3>1. v[n] = u[n] /\ (n # 1 => v[n - 1] = u[n - 1])
      BY <1>2, <2>1
    <3>. QED
      BY <2>1, <3>1 DEF Balanced, UsagesFit
  <2>2. CASE n = Len(u) + 1
    <3>1. Len(u) # 0 => v[Len(u)] = u[Len(u)]
      BY <1>2
    <3>2. n - 1 = Len(u) /\ (n = 1 <=> Len(u) = 0)
      BY <1>2, <2>2
    <3>3. usage.attempt = usage.derived + Logged
      BY <1>1, <1>3, <1>5, <1>7, <1>8
    <3>4. usage.remaining + usage.attempt = Remaining(begun)
      BY <1>3, <1>9
    <3>5. v[n] = usage
      BY <1>2, <2>2
    <3>6. Logged = IF n = 1 THEN 0 ELSE v[n - 1].attempt
      BY <1>11, <3>1, <3>2
    <3>. QED
      BY <3>3, <3>4, <3>5, <3>6
  <2>. QED
    BY <1>2, <2>1, <2>2
<1>13. UsagesFit'
  BY <1>1, <1>5, <1>12 DEF UsagesFit, Remaining
<1>. QED
  BY <1>10, <1>13 DEF Balanced

(* A failure charges without a usage, and the run is broken off.              *)
LEMMA FailureBalances ==
  ASSUME IInv, Balanced, NEW e \in Broke, NEW b \in 0..MaxCost, NEW h \in 0..MaxCost,
         ProviderFails(e, b, h)
  PROVE  Balanced'
<1>1. /\ log'.usages = log.usages /\ run'.ending = e /\ MoneyTypes
  BY DEF ProviderFails, IInv, Types, Logs, Runs
<1>2. /\ begun' = begun
      /\ ledger'.accumulated = ledger.accumulated + b
      /\ ledger'.attempt = ledger.attempt + b
  BY <1>1, FailureCharges
<1>3. /\ ledger.accumulated \in Nat /\ ledger.attempt \in Nat /\ begun.accumulated \in Nat
      /\ b \in Nat
  BY <1>1, BoundsFacts DEF MoneyTypes, Ledgers
<1>4. Logged' = Logged /\ Logged \in Nat
  <2>1. Logged' = Logged
    BY <1>1 DEF Logged
  <2>2. log.usages \in Seq(Usages)
    BY DEF IInv, Types, Logs
  <2>3. CASE log.usages = <<>>
    BY <2>1, <2>3 DEF Logged
  <2>4. CASE log.usages # <<>>
    <3>1. Len(log.usages) \in DOMAIN log.usages
      BY <2>2, <2>4
    <3>2. log.usages[Len(log.usages)] \in Usages
      BY <2>2, <3>1
    <3>. QED
      BY <2>1, <2>4, <3>2 DEF Logged, Last, Usages
  <2>. QED
    BY <2>3, <2>4
<1>5. LedgerFits'
  <2>1. /\ ledger.accumulated = begun.accumulated + ledger.attempt /\ Logged <= ledger.attempt
    BY DEF Balanced, LedgerFits
  <2>2. run'.ending \in Broke
    BY <1>1
  <2>. QED
    BY <1>2, <1>3, <1>4, <2>1, <2>2 DEF LedgerFits
<1>6. UsagesFit'
  BY <1>1, <1>2 DEF Balanced, UsagesFit, Remaining
<1>. QED
  BY <1>5, <1>6 DEF Balanced

LEMMA NextRunBalances ==
  ASSUME IInv, NEW o \in 0..MaxCost, Record(o)
  PROVE  Balanced'
<1>1. /\ log' = NoLog /\ begun' = ledger' /\ ledger'.attempt = 0 /\ MoneyTypes'
  BY NextAttempt DEF Record, IInv
<1>2. ledger'.accumulated \in Nat
  BY <1>1 DEF MoneyTypes, Ledgers
<1>3. UsagesFit'
  BY <1>1 DEF NoLog, UsagesFit
<1>4. LedgerFits'
  BY <1>1, <1>2 DEF LedgerFits, Logged, NoLog
<1>. QED
  BY <1>3, <1>4 DEF Balanced

(* Every other step charges nothing, and never makes a broken run whole.      *)
LEMMA OtherStepsBalance ==
  ASSUME Balanced, UNCHANGED money, log'.usages = log.usages,
         run.ending \in Broke => run'.ending \in Broke
  PROVE  Balanced'
<1>1. Logged' = Logged
  BY DEF Logged
<1>2. UsagesFit'
  BY DEF Balanced, UsagesFit, money, Remaining
<1>3. LedgerFits'
  BY <1>1 DEF Balanced, LedgerFits, money
<1>. QED
  BY <1>2, <1>3 DEF Balanced

LEMMA BalancedStep ==
  ASSUME IInv, Balanced, [Next]_vars
  PROVE  Balanced'
<1>1. ASSUME NEW c \in 1..MaxCost, Turn(c)
      PROVE  Balanced'
  BY <1>1, TurnBalances
<1>2. ASSUME NEW e \in Broke, NEW b \in 0..MaxCost, NEW h \in 0..MaxCost, ProviderFails(e, b, h)
      PROVE  Balanced'
  BY <1>2, FailureBalances
<1>3. ASSUME NEW o \in 0..MaxCost, Record(o)
      PROVE  Balanced'
  BY <1>3, NextRunBalances
<1>4. CASE /\ UNCHANGED money /\ log'.usages = log.usages
           /\ run.ending = None \/ run' = run
  BY <1>4, OtherStepsBalance DEF Broke, None
<1>5. ASSUME NEW b \in BOOLEAN, ToolCall(b)
      PROVE  Balanced'
  BY <1>4, <1>5 DEF ToolCall, Acting, Running, IInv, Types, Logs
<1>. QED
  BY <1>1, <1>2, <1>3, <1>4, <1>5 DEF Next, vars, money, BuildFails, CanBuild, Acting, Running,
     BuildRaises, BuildSucceeds, ResourcesFail, Validate, ValidateRaises, End, Contaminate,
     RunMinecraft, Classify

(* What a run is said to have cost agrees with the ledger it was charged to,  *)
(* for runs of any length that share any ledger.                              *)
THEOREM CostsAddUp == Spec => []UsageAddsUp
<1>1. Init => Balanced
  <2>. SUFFICES ASSUME Init
                PROVE  Balanced
    OBVIOUS
  <2>1. UsagesFit
    BY DEF Init, NoLog, UsagesFit
  <2>2. LedgerFits
    BY DEF Init, NoLog, NewLedger, LedgerFits, Logged
  <2>. QED
    BY <2>1, <2>2 DEF Balanced
<1>2. IInv /\ Balanced => UsageAddsUp
  <2>. SUFFICES ASSUME IInv, Balanced
                PROVE  UsageAddsUp
    OBVIOUS
  <2>. DEFINE u == log.usages
              cost == Usage(u)["derived"]
  <2>1. cost = Logged
    BY LoggedIsSum DEF Balanced
  <2>2. /\ ledger.accumulated \in Nat /\ ledger.attempt \in Nat /\ begun.accumulated \in Nat
    BY DEF IInv, MoneyTypes, Ledgers
  <2>3. ASSUME u # <<>>
        PROVE  cost + Usage(u)["remaining"] = Remaining(begun)
    <3>1. u \in Seq(Usages) /\ Len(u) \in 1..Len(u)
      BY <2>3 DEF IInv, Types, Logs
    <3>2. u[Len(u)] \in Usages
      BY <3>1
    <3>3. u[Len(u)].remaining + u[Len(u)].attempt = Remaining(begun)
      BY <3>1 DEF Balanced, UsagesFit
    <3>4. cost = u[Len(u)].attempt /\ Usage(u)["remaining"] = u[Len(u)].remaining
      BY <2>1, <2>3 DEF Logged, Usage, Cumulative, Last
    <3>. HIDE DEF cost
    <3>. QED
      BY <3>2, <3>3, <3>4 DEF Usages
  <2>4. /\ ledger.accumulated = begun.accumulated + ledger.attempt /\ Logged <= ledger.attempt
        /\ run.ending \notin Broke => Logged = ledger.attempt
    BY DEF Balanced, LedgerFits
  <2>5. cost \in Nat
    <3>1. u \in Seq(Usages)
      BY DEF IInv, Types, Logs
    <3>2. CASE u = <<>>
      BY <2>1, <3>2 DEF Logged
    <3>3. CASE u # <<>>
      <4>1. Len(u) \in DOMAIN u
        BY <3>1, <3>3
      <4>2. u[Len(u)] \in Usages
        BY <3>1, <4>1
      <4>. QED
        BY <2>1, <3>3, <4>2 DEF Logged, Last, Usages
    <3>. QED
      BY <3>2, <3>3
  <2>6. /\ begun.accumulated + cost <= ledger.accumulated
        /\ run.ending \notin Broke => begun.accumulated + cost = ledger.accumulated
    <3>. HIDE DEF cost
    <3>. QED
      BY <2>1, <2>2, <2>4, <2>5
  <2>. QED
    BY <2>3, <2>6 DEF UsageAddsUp
<1>. QED
  BY <1>1, <1>2, BalancedStep, InvariantHolds, PTL DEF Spec
===============================================================================
