--------------------------- MODULE BenchmarkRunProofs ---------------------------
(* What a batch records, for every number of cells, repetitions, attempts,    *)
(* dispatches and sessions, wherever the process dies.                        *)
EXTENDS BenchmarkRun, FiniteSetTheorems, WellFoundedInduction, TLAPS

Stages == {"loop", "begun", "running", "reserved", "inflight", "ended", "written", "stopped"}
Dispatches == [attempt : AllAttempts, of : Nat,
               state : {"RESERVED", "STARTED", "ANSWERED", "MISSING"}]

Economies == [active : AllAttempts \cup {None}, recon : {"CLEAR", "UNCERTAIN_CONSUMED"},
              dispatches : Seq(Dispatches)]

(* The numbers of a cell's attempts are distinct and go up to their count;    *)
(* every run is of an attempt of the schedule, recorded once.                 *)
AttemptsFit(s) ==
    /\ \A i, j \in DOMAIN s.attempts :
          s.attempts[i].cell = s.attempts[j].cell /\ s.attempts[i].nth = s.attempts[j].nth => i = j
    /\ \A i \in DOMAIN s.attempts : s.attempts[i].nth <= Cardinality(Planned(s, s.attempts[i].cell))
    /\ \A c \in Cells : Cardinality(Planned(s, c)) <= MaxAttempts
RunsFit(s) ==
    /\ \A i, j \in DOMAIN s.runs : s.runs[i].attempt = s.runs[j].attempt => i = j
    /\ \A j \in DOMAIN s.runs : \E i \in DOMAIN s.attempts : s.attempts[i] = s.runs[j].attempt

(* A cell that may still have attempts has enough to complete it: what is     *)
(* pending and what is completed make the repetitions asked for.              *)
PendingOf(s, c) == {i \in Pending(s) : s.attempts[i].cell = c}
Supplied(s) ==
    \A c \in Cells :
       \/ Complete(s, c)
       \/ Cardinality(Planned(s, c)) >= MaxAttempts
       \/ Cardinality(Completed(s, c)) + Cardinality(PendingOf(s, c)) >= Target
Sound(s) == s \in Schedules /\ AttemptsFit(s) /\ RunsFit(s) /\ Supplied(s)

Types ==
    /\ state \in [status : {"RUNNING", "BUDGET_PAUSED", "RATE_LIMIT_PAUSED", "COMPLETED"},
                  next : AllAttempts \cup {None}]
    /\ economy \in Economies
    /\ pc \in Stages /\ attempt \in AllAttempts \cup {None} /\ workspaces \subseteq AllAttempts
    /\ fresh \in BOOLEAN /\ recovering \in BOOLEAN
    /\ turns \in Nat /\ used \in Nat /\ sessions \in Nat

(* Only a run recorded in memory and not written yet tells the file from it.  *)
SavedFits ==
    /\ pc # "ended" => schedule = savedSchedule
    /\ pc = "ended" => \E i \in Pending(savedSchedule), status \in Statuses :
          schedule = Record(savedSchedule, savedSchedule.attempts[i], status)

(* The attempt worked on is the next of the schedule and active in the        *)
(* ledger, and the dispatch in hand is its last.                              *)
WorkFits ==
    /\ pc \in {"begun", "running", "reserved", "inflight"} =>
          attempt # None /\ attempt = NextPending(schedule) /\ economy.active = attempt
    /\ pc \in {"reserved", "inflight"} => Last >= 1 /\ economy.dispatches[Last].attempt = attempt
    /\ pc \in {"ended", "written"} => economy.active = None

(* Uncertain money is looked at by a resumed session before anything runs.    *)
UncertainFits ==
    economy.recon # "CLEAR" =>
        /\ economy.active # None
        /\ \/ pc = "stopped"
           \/ fresh /\ pc \in {"loop", "begun"}
           \/ recovering /\ pc \in {"reserved", "inflight"}

Settled(s) == \A i \in DOMAIN s.runs : ~OpenMoney(economy, s.runs[i].attempt)
CompletedFits == state.status = "COMPLETED" => pc = "stopped"

IInv ==
    /\ Types /\ Sound(schedule) /\ Sound(savedSchedule) /\ SavedFits /\ WorkFits /\ UncertainFits
    /\ Settled(schedule) /\ Settled(savedSchedule)
    /\ ActiveIsNext /\ CompletedFits /\ CompletedIsDecided

-----------------------------------------------------------------------------
(* The least element of a set of numbers: of the intervals from zero to each, *)
(* one is minimal under inclusion.                                            *)
LEMMA LeastNat ==
  ASSUME NEW S \in SUBSET Nat, S # {}
  PROVE  \E x \in S : \A y \in S : x <= y
<1>. DEFINE T == {0..n : n \in S}
            R == StrictSubsetOrdering(Nat)
<1>1. T \subseteq FiniteSubsetsOf(Nat) /\ T # {}
  <2>1. ASSUME NEW n \in S
        PROVE  0..n \in FiniteSubsetsOf(Nat)
    <3>1. IsFiniteSet(0..n)
      BY FS_Interval
    <3>. QED
      BY <3>1 DEF FiniteSubsetsOf
  <2>. QED
    BY <2>1
<1>2. IsWellFoundedOn(R, FiniteSubsetsOf(Nat))
  BY FS_StrictSubsetOrderingWellFounded
<1>. HIDE DEF R, T
<1>3. \E x \in T : \A y \in T : <<y, x>> \notin R
  BY <1>1, <1>2, WFMin
<1>. USE DEF T
<1>4. PICK n \in S : \A y \in T : <<y, 0..n>> \notin R
  BY <1>3
<1>5. ASSUME NEW m \in S, ~(n <= m)
      PROVE  FALSE
  <2>1. m \in Nat /\ n \in Nat /\ m < n
    BY <1>5
  <2>2. 0..m \subseteq 0..n /\ n \in 0..n /\ n \notin 0..m
    BY <2>1
  <2>3. 0..m \in SUBSET Nat /\ 0..n \in SUBSET Nat /\ 0..m # 0..n
    BY <2>1, <2>2
  <2>4. <<0..m, 0..n>> \in R
    BY <2>2, <2>3 DEF R, StrictSubsetOrdering
  <2>. QED
    BY <1>4, <2>4
<1>. QED
  BY <1>5

LEMMA NextPendingFacts ==
  ASSUME NEW s \in Schedules
  PROVE  /\ NextPending(s) = None => Pending(s) = {}
         /\ NextPending(s) # None => \E i \in Pending(s) : NextPending(s) = s.attempts[i]
         /\ NextPending(s) \in AllAttempts \cup {None}
<1>. DEFINE P == Pending(s)
            i == CHOOSE x \in P : \A y \in P : x <= y
<1>1. s.attempts \in Seq(AllAttempts)
  BY DEF Schedules
<1>2. P \subseteq DOMAIN s.attempts /\ P \subseteq Nat
  BY <1>1 DEF Pending
<1>3. CASE P = {}
  BY <1>3 DEF NextPending
<1>4. CASE P # {}
  <2>1. i \in P
    BY <1>2, <1>4, LeastNat
  <2>2. NextPending(s) = s.attempts[i]
    BY <1>4 DEF NextPending
  <2>3. s.attempts[i] \in AllAttempts
    BY <1>1, <1>2, <2>1
  <2>. QED
    BY <2>1, <2>2, <2>3, <1>4, NoneIsNoAttempt
<1>. QED
  BY <1>3, <1>4

LEMMA FiniteUpTo ==
  ASSUME NEW n \in Nat
  PROVE  IsFiniteSet(1..n)
BY FS_Interval

(* The sets the scheduler counts are finite.                                  *)
LEMMA Counted ==
  ASSUME NEW s \in Schedules, NEW c
  PROVE  /\ IsFiniteSet(Planned(s, c)) /\ Cardinality(Planned(s, c)) \in Nat
         /\ IsFiniteSet(Completed(s, c)) /\ Cardinality(Completed(s, c)) \in Nat
         /\ IsFiniteSet(PendingOf(s, c)) /\ Cardinality(PendingOf(s, c)) \in Nat
<1>1. /\ DOMAIN s.attempts = 1..Len(s.attempts) /\ Len(s.attempts) \in Nat
      /\ DOMAIN s.runs = 1..Len(s.runs) /\ Len(s.runs) \in Nat
  BY DEF Schedules
<1>2. IsFiniteSet(DOMAIN s.attempts) /\ IsFiniteSet(DOMAIN s.runs)
  BY <1>1, FiniteUpTo
<1>3. /\ Planned(s, c) \in SUBSET DOMAIN s.attempts
      /\ Completed(s, c) \in SUBSET DOMAIN s.runs
      /\ PendingOf(s, c) \in SUBSET DOMAIN s.attempts
  BY DEF Planned, Completed, Runs, PendingOf, Pending
<1>4. IsFiniteSet(Planned(s, c)) /\ IsFiniteSet(Completed(s, c)) /\ IsFiniteSet(PendingOf(s, c))
  BY <1>2, <1>3, FS_Subset
<1>. QED
  BY <1>4, FS_CardinalityType

(* Every repetition completed once means enough completed runs.               *)
LEMMA ResolvedIsComplete ==
  ASSUME NEW s \in Schedules, NEW c, Unresolved(s, c) = {}
  PROVE  Complete(s, c)
<1>. DEFINE C == Completed(s, c)
            f == [i \in C |-> s.runs[i].attempt.rep]
<1>1. C \subseteq DOMAIN s.runs /\ \A i \in DOMAIN s.runs : s.runs[i].attempt \in AllAttempts
  <2>1. s.runs \in Seq([attempt : AllAttempts, status : Statuses])
    BY DEF Schedules
  <2>2. C \subseteq DOMAIN s.runs
    BY DEF Completed, Runs
  <2>. DEFINE RunRec == [attempt : AllAttempts, status : Statuses]
              runs == s.runs
  <2>3. runs \in Seq(RunRec)
    BY <2>1
  <2>4. \A x \in RunRec : x.attempt \in AllAttempts
    OBVIOUS
  <2>. HIDE DEF RunRec, runs, C, f
  <2>5. \A i \in DOMAIN runs : runs[i] \in RunRec
    BY <2>3
  <2>6. \A i \in DOMAIN runs : runs[i].attempt \in AllAttempts
    BY <2>4, <2>5
  <2>. QED
    BY <2>2, <2>6 DEF runs
<1>2. f \in [C -> 0..(Target - 1)]
  BY <1>1 DEF AllAttempts
<1>3. \A r \in 0..(Target - 1) : \E i \in C : f[i] = r
  BY DEF Unresolved
<1>4. f \in Surjection(C, 0..(Target - 1))
  BY <1>2, <1>3 DEF Surjection
<1>5. IsFiniteSet(C)
  BY Counted
<1>6. Cardinality(0..(Target - 1)) <= Cardinality(C)
  BY <1>4, <1>5, FS_Surjection
<1>7. Cardinality(0..(Target - 1)) = Target
  BY BenchmarkConstants, FS_Interval
<1>. QED
  BY <1>6, <1>7 DEF Complete

(* Record, in its two steps: a run recorded for a pending attempt, and a      *)
(* replacement planned.                                                       *)
WithRun(s, a, status) == [s EXCEPT !.runs = Append(@, [attempt |-> a, status |-> status])]
WithAttempt(s, c, r) ==
    [s EXCEPT !.attempts = Append(@, Attempt(c, r, Cardinality(Planned(s, c)) + 1))]

LEMMA RunRecorded ==
  ASSUME NEW s, Sound(s), NEW i \in Pending(s), NEW status \in Statuses, NEW done,
         done = WithRun(s, s.attempts[i], status)
  PROVE  /\ done \in Schedules /\ AttemptsFit(done) /\ RunsFit(done)
         /\ done.attempts = s.attempts /\ Len(done.runs) = Len(s.runs) + 1
         /\ DOMAIN done.runs = DOMAIN s.runs \cup {Len(s.runs) + 1}
         /\ Len(s.runs) + 1 \notin DOMAIN s.runs
         /\ \A j \in DOMAIN s.runs : done.runs[j] = s.runs[j]
         /\ done.runs[Len(s.runs) + 1] = [attempt |-> s.attempts[i], status |-> status]
<1>. DEFINE RunRec == [attempt : AllAttempts, status : Statuses]
            run == [attempt |-> s.attempts[i], status |-> status]
            n == Len(s.runs)
<1>1. /\ s.attempts \in Seq(AllAttempts) /\ s.runs \in Seq(RunRec)
      /\ i \in DOMAIN s.attempts /\ s.attempts[i] \in AllAttempts
      /\ \A j \in DOMAIN s.runs : s.runs[j].attempt # s.attempts[i]
  BY DEF Sound, Schedules, Pending, Done
<1>2. /\ run \in RunRec /\ run.attempt = s.attempts[i] /\ run.status = status
      /\ done = [s EXCEPT !.runs = Append(s.runs, run)]
  BY <1>1 DEF WithRun
<1>. HIDE DEF run
<1>3. /\ done.attempts = s.attempts /\ done.runs = Append(s.runs, run) /\ done \in Schedules
  <2>. DEFINE grown == Append(s.runs, run)
  <2>1. grown \in Seq(RunRec)
    BY <1>1, <1>2
  <2>. HIDE DEF grown
  <2>2. s \in [attempts : Seq(AllAttempts), runs : Seq(RunRec)]
    BY DEF Sound, Schedules
  <2>3. done = [s EXCEPT !.runs = grown]
    BY <1>2 DEF grown
  <2>4. done.attempts = s.attempts /\ done.runs = grown
        /\ done \in [attempts : Seq(AllAttempts), runs : Seq(RunRec)]
    BY <2>1, <2>2, <2>3
  <2>. QED
    BY <2>4 DEF grown, Schedules
<1>4. /\ done.runs \in Seq(RunRec) /\ Len(done.runs) = n + 1 /\ n \in Nat
      /\ DOMAIN done.runs = DOMAIN s.runs \cup {n + 1} /\ n + 1 \notin DOMAIN s.runs
      /\ done.runs[n + 1] = run
      /\ \A j \in DOMAIN s.runs : done.runs[j] = s.runs[j]
  BY <1>1, <1>2, <1>3
<1>5. AttemptsFit(done)
  BY <1>3 DEF Sound, AttemptsFit, Planned
<1>6. RunsFit(done)
  <2>1. \A j, k \in DOMAIN done.runs : done.runs[j].attempt = done.runs[k].attempt => j = k
    BY <1>1, <1>2, <1>4 DEF Sound, RunsFit
  <2>2. \A j \in DOMAIN done.runs : \E k \in DOMAIN s.attempts : s.attempts[k] = done.runs[j].attempt
    BY <1>1, <1>2, <1>4 DEF Sound, RunsFit
  <2>. QED
    BY <1>3, <2>1, <2>2 DEF RunsFit
<1>. QED
  BY <1>3, <1>4, <1>5, <1>6 DEF run

LEMMA RunCounted ==
  ASSUME NEW s, Sound(s), NEW i \in Pending(s), NEW status \in Statuses, NEW done,
         done = WithRun(s, s.attempts[i], status), NEW c
  PROVE  /\ Planned(done, c) = Planned(s, c)
         /\ PendingOf(done, c) = PendingOf(s, c) \ {i}
         /\ status = "COMPLETED" /\ c = s.attempts[i].cell =>
              Completed(done, c) = Completed(s, c) \cup {Len(s.runs) + 1}
         /\ ~(status = "COMPLETED" /\ c = s.attempts[i].cell) => Completed(done, c) = Completed(s, c)
<1>. DEFINE n == Len(s.runs)
<1>1. /\ done.attempts = s.attempts /\ DOMAIN done.runs = DOMAIN s.runs \cup {n + 1}
      /\ n + 1 \notin DOMAIN s.runs
      /\ \A j \in DOMAIN s.runs : done.runs[j] = s.runs[j]
      /\ done.runs[n + 1] = [attempt |-> s.attempts[i], status |-> status]
  BY RunRecorded
<1>2. /\ i \in DOMAIN s.attempts /\ s.attempts[i] \in AllAttempts
  BY DEF Sound, Schedules, Pending
<1>. HIDE DEF n
<1>3. Planned(done, c) = Planned(s, c)
  BY <1>1 DEF Planned
<1>4. Done(done) = Done(s) \cup {s.attempts[i]}
  BY <1>1 DEF Done
<1>5. \A j \in DOMAIN s.attempts : s.attempts[j] = s.attempts[i] => j = i
  BY <1>2 DEF Sound, AttemptsFit
<1>6. Pending(done) = Pending(s) \ {i}
  BY <1>1, <1>4, <1>5 DEF Pending
<1>7. PendingOf(done, c) = PendingOf(s, c) \ {i}
  BY <1>1, <1>6 DEF PendingOf
<1>8. \A j : j \in Completed(done, c) <=>
             \/ j \in Completed(s, c)
             \/ j = n + 1 /\ c = s.attempts[i].cell /\ status = "COMPLETED"
  BY <1>1 DEF Completed, Runs
<1>. QED
  BY <1>3, <1>7, <1>8 DEF n

(* A replacement takes the number after the cell's last: nobody had it.       *)
LEMMA Replaced ==
  ASSUME NEW s \in Schedules, AttemptsFit(s), RunsFit(s), NEW c \in Cells,
         NEW r \in 0..(Target - 1), Cardinality(Planned(s, c)) < MaxAttempts, NEW new,
         new = WithAttempt(s, c, r)
  PROVE  /\ new \in Schedules /\ AttemptsFit(new) /\ RunsFit(new)
         /\ new.runs = s.runs /\ Len(new.attempts) = Len(s.attempts) + 1
         /\ \A i \in DOMAIN s.attempts :
               i \in DOMAIN new.attempts /\ new.attempts[i] = s.attempts[i]
         /\ DOMAIN new.attempts = DOMAIN s.attempts \cup {Len(s.attempts) + 1}
         /\ Len(s.attempts) + 1 \notin DOMAIN s.attempts
         /\ new.attempts[Len(s.attempts) + 1].cell = c
         /\ new.attempts[Len(s.attempts) + 1] \notin Done(s)
<1>. DEFINE k == Cardinality(Planned(s, c))
            a == Attempt(c, r, k + 1)
            m == Len(s.attempts)
<1>1. s.attempts \in Seq(AllAttempts) /\ k \in Nat
  BY Counted DEF Schedules
<1>2. /\ a \in AllAttempts /\ a.cell = c /\ a.nth = k + 1
      /\ new = [s EXCEPT !.attempts = Append(s.attempts, a)]
  BY <1>1, BenchmarkConstants DEF Attempt, AllAttempts, WithAttempt
<1>. HIDE DEF a
<1>3. /\ new.runs = s.runs /\ new.attempts = Append(s.attempts, a) /\ new \in Schedules
  <2>. DEFINE grown == Append(s.attempts, a)
              RunRec == [attempt : AllAttempts, status : Statuses]
  <2>1. grown \in Seq(AllAttempts)
    BY <1>1, <1>2
  <2>. HIDE DEF grown
  <2>2. s \in [attempts : Seq(AllAttempts), runs : Seq(RunRec)]
    BY DEF Schedules
  <2>3. new = [s EXCEPT !.attempts = grown]
    BY <1>2 DEF grown
  <2>4. new.runs = s.runs /\ new.attempts = grown
        /\ new \in [attempts : Seq(AllAttempts), runs : Seq(RunRec)]
    BY <2>1, <2>2, <2>3
  <2>. QED
    BY <2>4 DEF grown, Schedules
<1>4. /\ new.attempts \in Seq(AllAttempts) /\ Len(new.attempts) = m + 1 /\ m \in Nat
      /\ DOMAIN new.attempts = DOMAIN s.attempts \cup {m + 1} /\ m + 1 \notin DOMAIN s.attempts
      /\ new.attempts[m + 1] = a
      /\ \A i \in DOMAIN s.attempts : new.attempts[i] = s.attempts[i] /\ s.attempts[i] \in AllAttempts
  BY <1>1, <1>2, <1>3
<1>5. ASSUME NEW d
      PROVE  /\ d = c => Planned(new, d) = Planned(s, d) \cup {m + 1}
             /\ d # c => Planned(new, d) = Planned(s, d)
             /\ m + 1 \notin Planned(s, d)
  BY <1>2, <1>4 DEF Planned
<1>6. /\ Cardinality(Planned(new, c)) = k + 1
      /\ \A d : d # c => Planned(new, d) = Planned(s, d)
  <2>1. IsFiniteSet(Planned(s, c)) /\ m + 1 \notin Planned(s, c)
        /\ Planned(new, c) = Planned(s, c) \cup {m + 1}
    BY <1>5, Counted
  <2>2. Cardinality(Planned(s, c) \cup {m + 1}) = k + 1
    BY <2>1, FS_AddElement
  <2>3. \A d : d # c => Planned(new, d) = Planned(s, d)
    BY <1>5
  <2>. QED
    BY <2>1, <2>2, <2>3
<1>7. \A i \in DOMAIN s.attempts : s.attempts[i].cell = c => s.attempts[i].nth # a.nth
  <2>1. \A i \in DOMAIN s.attempts : s.attempts[i].cell = c => s.attempts[i].nth <= k
    BY DEF AttemptsFit
  <2>. QED
    BY <1>1, <1>2, <1>4, <2>1 DEF AllAttempts
<1>8. AttemptsFit(new)
  <2>1. \A i, j \in DOMAIN new.attempts :
           new.attempts[i].cell = new.attempts[j].cell /\ new.attempts[i].nth = new.attempts[j].nth
             => i = j
    BY <1>2, <1>4, <1>7 DEF AttemptsFit
  <2>2. ASSUME NEW i \in DOMAIN new.attempts
        PROVE  new.attempts[i].nth <= Cardinality(Planned(new, new.attempts[i].cell))
    <3>1. CASE new.attempts[i].cell = c
      <4>1. i = m + 1 => new.attempts[i].nth = k + 1
        BY <1>2, <1>4
      <4>2. i \in DOMAIN s.attempts => new.attempts[i].nth <= k /\ new.attempts[i].nth \in Nat
        BY <1>4, <3>1 DEF AttemptsFit, AllAttempts
      <4>3. new.attempts[i].nth <= k + 1
        BY <1>1, <1>4, <4>1, <4>2
      <4>. QED
        BY <1>6, <3>1, <4>3
    <3>2. CASE new.attempts[i].cell # c
      <4>1. i \in DOMAIN s.attempts /\ new.attempts[i] = s.attempts[i]
        BY <1>2, <1>4, <3>2
      <4>2. Planned(new, new.attempts[i].cell) = Planned(s, s.attempts[i].cell)
        BY <1>6, <3>2, <4>1
      <4>. QED
        BY <4>1, <4>2 DEF AttemptsFit
    <3>. QED
      BY <3>1, <3>2
  <2>3. ASSUME NEW d \in Cells
        PROVE  Cardinality(Planned(new, d)) <= MaxAttempts
    <3>1. CASE d = c
      BY <1>1, <1>6, <3>1, BenchmarkConstants
    <3>2. CASE d # c
      BY <1>6, <3>2 DEF AttemptsFit
    <3>. QED
      BY <3>1, <3>2
  <2>. QED
    BY <2>1, <2>2, <2>3 DEF AttemptsFit
<1>9. RunsFit(new)
  BY <1>3, <1>4 DEF RunsFit
<1>10. a \notin Done(s)
  BY <1>2, <1>7 DEF Done, RunsFit
<1>. QED
  BY <1>2, <1>3, <1>4, <1>8, <1>9, <1>10

LEMMA ReplacedCounted ==
  ASSUME NEW s \in Schedules, AttemptsFit(s), RunsFit(s), NEW c \in Cells,
         NEW r \in 0..(Target - 1), Cardinality(Planned(s, c)) < MaxAttempts, NEW new,
         new = WithAttempt(s, c, r), NEW d
  PROVE  /\ Completed(new, d) = Completed(s, d)
         /\ d = c => PendingOf(new, d) = PendingOf(s, d) \cup {Len(s.attempts) + 1}
         /\ d # c => /\ PendingOf(new, d) = PendingOf(s, d)
                     /\ Planned(new, d) = Planned(s, d)
<1>. DEFINE m == Len(s.attempts)
<1>1. /\ new.runs = s.runs /\ DOMAIN new.attempts = DOMAIN s.attempts \cup {m + 1}
      /\ m + 1 \notin DOMAIN s.attempts
      /\ \A i \in DOMAIN s.attempts : new.attempts[i] = s.attempts[i]
      /\ new.attempts[m + 1].cell = c /\ new.attempts[m + 1] \notin Done(s)
  BY Replaced
<1>. HIDE DEF m
<1>2. d # c => Planned(new, d) = Planned(s, d)
  BY <1>1 DEF Planned
<1>3. Done(new) = Done(s)
  BY <1>1 DEF Done
<1>4. Pending(new) = Pending(s) \cup {m + 1}
  BY <1>1, <1>3 DEF Pending
<1>5. Completed(new, d) = Completed(s, d)
  BY <1>1 DEF Completed, Runs
<1>6. \A j \in Pending(s) : j \in DOMAIN s.attempts
  BY DEF Pending
<1>7. \A j : j \in PendingOf(new, d) <=> j \in PendingOf(s, d) \/ (j = m + 1 /\ c = d)
  BY <1>1, <1>4, <1>6 DEF PendingOf
<1>. QED
  BY <1>2, <1>5, <1>7 DEF m

(* Recording a run keeps a schedule sound: what was pending is completed, has *)
(* a replacement, or its cell needs or may have no more.                      *)
LEMMA RecordSound ==
  ASSUME NEW s, Sound(s), NEW i \in Pending(s), NEW status \in Statuses
  PROVE  LET new == Record(s, s.attempts[i], status)
         IN  /\ Sound(new)
             /\ Len(new.runs) = Len(s.runs) + 1 /\ Len(s.attempts) <= Len(new.attempts)
             /\ \A j \in DOMAIN s.runs : j \in DOMAIN new.runs /\ new.runs[j] = s.runs[j]
             /\ new.runs[Len(new.runs)].attempt = s.attempts[i]
             /\ \A j \in DOMAIN s.attempts :
                   j \in DOMAIN new.attempts /\ new.attempts[j] = s.attempts[j]
<1>. DEFINE a == s.attempts[i]
            done == WithRun(s, a, status)
            new == Record(s, a, status)
<1>1. /\ s \in Schedules /\ i \in DOMAIN s.attempts /\ a \in AllAttempts /\ a.cell \in Cells
      /\ Len(s.runs) \in Nat /\ Len(s.runs) + 1 \notin DOMAIN s.runs /\ Len(s.attempts) \in Nat
  <2>1. s \in Schedules /\ i \in DOMAIN s.attempts
    BY DEF Sound, Pending
  <2>2. s.attempts \in Seq(AllAttempts) /\ Len(s.runs) \in Nat /\ DOMAIN s.runs = 1..Len(s.runs)
    BY <2>1 DEF Schedules
  <2>3. a \in AllAttempts
    BY <2>1, <2>2
  <2>4. a.cell \in Cells
    BY <2>3 DEF AllAttempts
  <2>. QED
    BY <2>1, <2>2, <2>3, <2>4
<1>2. /\ done \in Schedules /\ AttemptsFit(done) /\ RunsFit(done)
      /\ done.attempts = s.attempts /\ Len(done.runs) = Len(s.runs) + 1
      /\ \A j \in DOMAIN s.runs : j \in DOMAIN done.runs /\ done.runs[j] = s.runs[j]
      /\ done.runs[Len(s.runs) + 1].attempt = a
  <2>1. /\ DOMAIN done.runs = DOMAIN s.runs \cup {Len(s.runs) + 1}
        /\ \A j \in DOMAIN s.runs : done.runs[j] = s.runs[j]
        /\ done.runs[Len(s.runs) + 1] = [attempt |-> s.attempts[i], status |-> status]
    BY RunRecorded
  <2>. QED
    BY <2>1, RunRecorded
<1>3. ASSUME NEW c
      PROVE  /\ Planned(done, c) = Planned(s, c)
             /\ PendingOf(done, c) = PendingOf(s, c) \ {i}
             /\ status = "COMPLETED" /\ c = a.cell =>
                  Completed(done, c) = Completed(s, c) \cup {Len(s.runs) + 1}
             /\ ~(status = "COMPLETED" /\ c = a.cell) => Completed(done, c) = Completed(s, c)
  BY RunCounted
<1>4. done.runs[Len(done.runs)].attempt = a
  BY <1>2
<1>5. new = IF status = "COMPLETED" THEN done ELSE NextReplacement(done, a.cell)
  BY DEF Record, WithRun
<1>6. \A c \in Cells : c # a.cell => i \notin PendingOf(s, c)
  BY DEF PendingOf
<1>7. i \in PendingOf(s, a.cell)
  BY DEF PendingOf
<1>. HIDE DEF done, new
<1>8. ASSUME NEW c \in Cells
      PROVE  /\ Cardinality(Planned(s, c)) \in Nat /\ Cardinality(Completed(s, c)) \in Nat
             /\ Cardinality(PendingOf(s, c)) \in Nat
             /\ Cardinality(PendingOf(s, a.cell) \ {i}) = Cardinality(PendingOf(s, a.cell)) - 1
             /\ Cardinality(Completed(s, c) \cup {Len(s.runs) + 1}) = Cardinality(Completed(s, c)) + 1
  <2>1. /\ IsFiniteSet(PendingOf(s, a.cell)) /\ IsFiniteSet(Completed(s, c))
        /\ Len(s.runs) + 1 \notin Completed(s, c)
    BY <1>1, Counted DEF Completed, Runs
  <2>. QED
    BY <1>1, <1>7, <2>1, Counted, FS_AddElement, FS_RemoveElement
<1>. DEFINE P == Cardinality(Planned(s, a.cell))
            C == Cardinality(Completed(s, a.cell))
            Q == Cardinality(PendingOf(s, a.cell))
<1>80. /\ P \in Nat /\ C \in Nat /\ Q \in Nat
       /\ Complete(s, a.cell) \/ P >= MaxAttempts \/ C + Q >= Target
       /\ Complete(s, a.cell) => C >= Target
       /\ MaxAttempts \in Nat /\ Target \in Nat
  BY <1>1, <1>8, BenchmarkConstants DEF Sound, Supplied, Complete
<1>9. ASSUME NEW c \in Cells, c # a.cell
      PROVE  /\ Planned(done, c) = Planned(s, c) /\ Completed(done, c) = Completed(s, c)
             /\ PendingOf(done, c) = PendingOf(s, c)
  BY <1>3, <1>6, <1>9
<1>10. CASE status = "COMPLETED"
  <2>1. Supplied(done)
    <3>. SUFFICES ASSUME NEW c \in Cells
                  PROVE  \/ Complete(done, c)
                         \/ Cardinality(Planned(done, c)) >= MaxAttempts
                         \/ Cardinality(Completed(done, c)) + Cardinality(PendingOf(done, c))
                              >= Target
      BY DEF Supplied
    <3>1. CASE c # a.cell
      BY <1>9, <3>1 DEF Sound, Supplied, Complete
    <3>2. CASE c = a.cell
      <4>1. /\ Planned(done, c) = Planned(s, c)
            /\ Cardinality(Completed(done, c)) = C + 1
            /\ Cardinality(PendingOf(done, c)) = Q - 1
        BY <1>1, <1>3, <1>8, <1>10, <3>2
      <4>. HIDE DEF P, C, Q
      <4>2. C + 1 >= Target \/ P >= MaxAttempts \/ (C + 1) + (Q - 1) >= Target
        BY <1>80
      <4>. QED
        BY <3>2, <4>1, <4>2 DEF Complete, P
    <3>. QED
      BY <3>1, <3>2
  <2>. QED
    BY <1>1, <1>2, <1>4, <1>5, <1>10, <2>1 DEF Sound, new
<1>11. CASE status # "COMPLETED" /\ ~NeedsReplacement(done, a.cell)
  <2>1. new = done
    BY <1>5, <1>11 DEF NextReplacement
  <2>2. Complete(done, a.cell) \/ Cardinality(Planned(done, a.cell)) >= MaxAttempts
    BY <1>2, <1>11, ResolvedIsComplete DEF NeedsReplacement, Exhausted
  <2>3. Supplied(done)
    <3>1. ASSUME NEW c \in Cells, c # a.cell
          PROVE  \/ Complete(done, c)
                 \/ Cardinality(Planned(done, c)) >= MaxAttempts
                 \/ Cardinality(Completed(done, c)) + Cardinality(PendingOf(done, c)) >= Target
      BY <1>9, <3>1 DEF Sound, Supplied, Complete
    <3>. QED
      BY <2>2, <3>1 DEF Supplied
  <2>. QED
    BY <1>1, <1>2, <1>4, <2>1, <2>3 DEF Sound, new
<1>12. CASE status # "COMPLETED" /\ NeedsReplacement(done, a.cell)
  <2>. DEFINE U == Unresolved(done, a.cell)
              r == CHOOSE x \in U : \A y \in U : x <= y
  <2>1. U \subseteq 0..(Target - 1) /\ U # {} /\ U \subseteq Nat
    BY <1>12, BenchmarkConstants DEF NeedsReplacement, Unresolved
  <2>2. r \in U
    BY <2>1, LeastNat
  <2>3. new = WithAttempt(done, a.cell, r)
    BY <1>5, <1>12 DEF NextReplacement, WithAttempt
  <2>. HIDE DEF r, U
  <2>4. Cardinality(Planned(done, a.cell)) < MaxAttempts
    BY <1>1, <1>2, <1>12, Counted, BenchmarkConstants DEF NeedsReplacement, Exhausted
  <2>5. r \in 0..(Target - 1)
    BY <2>1, <2>2
  <2>6. /\ new \in Schedules /\ AttemptsFit(new) /\ RunsFit(new)
        /\ new.runs = done.runs /\ Len(new.attempts) = Len(done.attempts) + 1
        /\ \A j \in DOMAIN done.attempts :
              j \in DOMAIN new.attempts /\ new.attempts[j] = done.attempts[j]
        /\ Len(done.attempts) + 1 \notin DOMAIN done.attempts
    <3>1. a.cell \in Cells
      BY <1>1
    <3>2. done \in Schedules /\ AttemptsFit(done) /\ RunsFit(done)
      BY <1>2
    <3>. QED
      BY <2>3, <2>4, <2>5, <3>1, <3>2, Replaced
  <2>7. ASSUME NEW d
        PROVE  /\ Completed(new, d) = Completed(done, d)
               /\ d = a.cell => PendingOf(new, d) = PendingOf(done, d) \cup {Len(done.attempts) + 1}
               /\ d # a.cell => /\ PendingOf(new, d) = PendingOf(done, d)
                                /\ Planned(new, d) = Planned(done, d)
    <3>1. a.cell \in Cells
      BY <1>1
    <3>2. done \in Schedules /\ AttemptsFit(done) /\ RunsFit(done)
      BY <1>2
    <3>. HIDE DEF a, done, new
    <3>. QED
      BY <2>3, <2>4, <2>5, <3>1, <3>2, ReplacedCounted
  <2>8. Supplied(new)
    <3>1. ASSUME NEW c \in Cells, c # a.cell
          PROVE  \/ Complete(new, c)
                 \/ Cardinality(Planned(new, c)) >= MaxAttempts
                 \/ Cardinality(Completed(new, c)) + Cardinality(PendingOf(new, c)) >= Target
      <4>1. /\ Planned(new, c) = Planned(s, c) /\ Completed(new, c) = Completed(s, c)
            /\ PendingOf(new, c) = PendingOf(s, c)
        BY <1>9, <2>7, <3>1
      <4>. QED
        BY <4>1 DEF Sound, Supplied, Complete
    <3>2. /\ Completed(new, a.cell) = Completed(s, a.cell)
          /\ Cardinality(PendingOf(new, a.cell)) = Q
      <4>1. /\ PendingOf(done, a.cell) = PendingOf(s, a.cell) \ {i}
            /\ Completed(done, a.cell) = Completed(s, a.cell)
        BY <1>3, <1>12
      <4>2. /\ IsFiniteSet(PendingOf(done, a.cell))
            /\ Len(done.attempts) + 1 \notin PendingOf(done, a.cell)
        BY <1>2, <2>6, Counted DEF PendingOf, Pending
      <4>3. Cardinality(PendingOf(new, a.cell)) = Cardinality(PendingOf(done, a.cell)) + 1
        BY <2>7, <4>2, FS_AddElement
      <4>4. Cardinality(PendingOf(done, a.cell)) = Q - 1
        BY <1>1, <1>8, <4>1
      <4>5. Q - 1 + 1 = Q
        BY <1>80
      <4>. QED
        BY <2>7, <4>1, <4>3, <4>4, <4>5
    <3>3. P < MaxAttempts
      BY <1>3, <2>4
    <3>4. Complete(s, a.cell) \/ C + Q >= Target
      <4>. HIDE DEF P, C, Q
      <4>. QED
        BY <1>80, <3>3
    <3>. QED
      BY <3>1, <3>2, <3>4 DEF Supplied, Complete
  <2>. QED
    BY <1>1, <1>2, <1>4, <2>6, <2>8 DEF Sound, new
<1>. QED
  BY <1>10, <1>11, <1>12

-----------------------------------------------------------------------------
(* The first attempts are planned once each: as many of a cell as it has      *)
(* repetitions.                                                               *)
LEMMA FirstAttemptsFinite == IsFiniteSet(FirstAttempts)
<1>. DEFINE P == Cells \X (0..(Target - 1))
            f == [p \in P |-> Attempt(p[1], p[2], p[2] + 1)]
<1>1. IsFiniteSet(P)
  <2>1. IsFiniteSet(0..(Target - 1)) /\ IsFiniteSet(Cells)
    BY BenchmarkConstants, FS_Interval
  <2>. QED
    BY <2>1, FS_Product
<1>2. f \in Surjection(P, FirstAttempts)
  <2>1. f \in [P -> FirstAttempts]
    BY DEF FirstAttempts
  <2>2. ASSUME NEW a \in FirstAttempts
        PROVE  \E p \in P : f[p] = a
    <3>1. PICK c \in Cells, r \in 0..(Target - 1) : a = Attempt(c, r, r + 1)
      BY DEF FirstAttempts
    <3>2. <<c, r>> \in P /\ f[<<c, r>>] = a
      BY <3>1
    <3>. QED
      BY <3>2
  <2>. QED
    BY <2>1, <2>2 DEF Surjection
<1>. QED
  BY <1>1, <1>2, FS_Surjection

LEMMA InitialSound ==
  ASSUME NEW s \in InitialSchedules
  PROVE  /\ Sound(s) /\ s.runs = <<>>
         /\ \A a : a \in FirstAttempts <=> \E i \in DOMAIN s.attempts : s.attempts[i] = a
<1>. DEFINE N == Cardinality(FirstAttempts)
            t == s.attempts
<1>1. /\ t \in [1..N -> FirstAttempts] /\ s = [attempts |-> t, runs |-> <<>>]
      /\ \A i, j \in DOMAIN t : i < j => t[i] # t[j]
  BY DEF InitialSchedules
<1>2. N \in Nat
  BY FirstAttemptsFinite, FS_CardinalityType
<1>3. t \in [1..N -> FirstAttempts] /\ \A i, j \in 1..N : i # j => t[i] # t[j]
  <2>1. DOMAIN t = 1..N /\ \A i, j \in 1..N : i # j => i < j \/ j < i
    BY <1>1
  <2>. QED
    BY <1>1, <2>1
<1>4. \A a \in FirstAttempts : /\ a \in AllAttempts /\ a.nth = a.rep + 1
  <2>1. ASSUME NEW c \in Cells, NEW r \in 0..(Target - 1)
        PROVE  /\ Attempt(c, r, r + 1) \in AllAttempts
               /\ Attempt(c, r, r + 1).nth = Attempt(c, r, r + 1).rep + 1
    <3>1. r + 1 \in 1..MaxAttempts
      BY BenchmarkConstants
    <3>. QED
      BY <3>1 DEF Attempt, AllAttempts
  <2>. QED
    BY <2>1 DEF FirstAttempts
<1>5. t \in Surjection(1..N, FirstAttempts)
  <2>1. t \in Injection(1..N, FirstAttempts)
    BY <1>3 DEF Injection, IsInjective
  <2>2. Cardinality(1..N) = N
    BY <1>2, FS_Interval
  <2>. QED
    BY <2>1, <2>2, FirstAttemptsFinite, FS_Injection
<1>6. s \in Schedules /\ DOMAIN t = 1..N
  <2>1. t \in Seq(AllAttempts)
    BY <1>2, <1>3, <1>4
  <2>2. <<>> \in Seq([attempt: AllAttempts, status: Statuses])
    OBVIOUS
  <2>3. DOMAIN t = 1..N
    BY <1>3
  <2>. HIDE DEF t
  <2>. QED
    BY <1>1, <2>1, <2>2, <2>3 DEF Schedules
<1>7. ASSUME NEW c \in Cells
      PROVE  Cardinality(Planned(s, c)) = Target
  <2>. DEFINE h == [i \in Planned(s, c) |-> t[i].rep]
  <2>1. \A i \in Planned(s, c) : i \in 1..N /\ t[i] \in FirstAttempts /\ t[i].cell = c
    BY <1>3, <1>6 DEF Planned
  <2>2. \A a \in FirstAttempts : a = Attempt(a.cell, a.rep, a.rep + 1) /\ a.rep \in 0..(Target - 1)
    BY DEF FirstAttempts, Attempt
  <2>3. h \in [Planned(s, c) -> 0..(Target - 1)]
    BY <2>1, <2>2
  <2>4. \A i, j \in Planned(s, c) : h[i] = h[j] => i = j
    BY <1>3, <2>1, <2>2
  <2>5. ASSUME NEW r \in 0..(Target - 1)
        PROVE  \E i \in Planned(s, c) : h[i] = r
    <3>1. Attempt(c, r, r + 1) \in FirstAttempts
      BY DEF FirstAttempts
    <3>2. PICK i \in 1..N : t[i] = Attempt(c, r, r + 1)
      BY <1>5, <3>1 DEF Surjection
    <3>3. i \in Planned(s, c) /\ t[i].rep = r
      BY <1>6, <3>2 DEF Planned, Attempt
    <3>. QED
      BY <3>3
  <2>. HIDE DEF h
  <2>6. h \in Bijection(Planned(s, c), 0..(Target - 1))
    BY <2>3, <2>4, <2>5 DEF Bijection, Injection, IsInjective, Surjection
  <2>7. IsFiniteSet(Planned(s, c))
    BY <1>6, Counted
  <2>8. Cardinality(0..(Target - 1)) = Cardinality(Planned(s, c))
    BY <2>6, <2>7, FS_Bijection DEF ExistsBijection
  <2>. QED
    BY <2>8, BenchmarkConstants, FS_Interval
<1>8. AttemptsFit(s)
  <2>1. \A i \in DOMAIN t : t[i] \in FirstAttempts /\ t[i].cell \in Cells /\ t[i].nth <= Target
    <3>1. \A a \in FirstAttempts : a.cell \in Cells /\ a.nth <= Target
      BY BenchmarkConstants DEF FirstAttempts, Attempt
    <3>. QED
      BY <1>3, <1>6, <3>1
  <2>2. \A i, j \in DOMAIN t : t[i].cell = t[j].cell /\ t[i].nth = t[j].nth => t[i] = t[j]
    <3>1. \A a, b \in FirstAttempts : a.cell = b.cell /\ a.nth = b.nth => a = b
      BY BenchmarkConstants DEF FirstAttempts, Attempt
    <3>. QED
      BY <2>1, <3>1
  <2>3. \A i, j \in DOMAIN t : t[i] = t[j] => i = j
    BY <1>3, <1>6
  <2>4. \A i \in DOMAIN t : t[i].nth <= Cardinality(Planned(s, t[i].cell))
    BY <1>7, <2>1
  <2>5. \A c \in Cells : Cardinality(Planned(s, c)) <= MaxAttempts
    BY <1>7, BenchmarkConstants
  <2>. QED
    BY <2>2, <2>3, <2>4, <2>5 DEF AttemptsFit
<1>9. s.runs = <<>> /\ Done(s) = {}
  BY <1>1 DEF Done
<1>10. RunsFit(s)
  BY <1>9 DEF RunsFit
<1>11. ASSUME NEW c \in Cells
       PROVE  Cardinality(Completed(s, c)) + Cardinality(PendingOf(s, c)) >= Target
  <2>1. PendingOf(s, c) = Planned(s, c) /\ Completed(s, c) = {}
    BY <1>9 DEF PendingOf, Pending, Planned, Completed, Runs
  <2>. QED
    BY <1>7, <2>1, FS_EmptySet, BenchmarkConstants
<1>12. Sound(s)
  BY <1>6, <1>8, <1>10, <1>11 DEF Sound, Supplied
<1>13. \A a : a \in FirstAttempts <=> \E i \in DOMAIN t : t[i] = a
  <2>1. /\ DOMAIN t = 1..N /\ \A i \in 1..N : t[i] \in FirstAttempts
        /\ \A a \in FirstAttempts : \E i \in 1..N : t[i] = a
    BY <1>3, <1>5, <1>6 DEF Surjection
  <2>. HIDE DEF t, N
  <2>. QED
    BY <2>1
<1>. QED
  BY <1>9, <1>12, <1>13

-----------------------------------------------------------------------------
(* What the steps on the ledger leave, and what a step that records nothing   *)
(* has to show.                                                               *)
WithState(to) == [economy EXCEPT !.dispatches[Last].state = to]
WithStateAnd(to, recon) == [economy EXCEPT !.dispatches[Last].state = to, !.recon = recon]
WithDispatch(of) == [economy EXCEPT !.dispatches = Append(@, Dispatch(attempt, of))]

LEMMA DispatchSet ==
  ASSUME economy \in Economies, Last >= 1, NEW e,
         NEW to \in {"RESERVED", "STARTED", "ANSWERED", "MISSING"},
         NEW recon \in {"CLEAR", "UNCERTAIN_CONSUMED"},
         \/ e = WithStateAnd(to, recon)
         \/ e = WithState(to) /\ recon = economy.recon
  PROVE  /\ e \in Economies /\ e.active = economy.active /\ e.recon = recon
         /\ Len(e.dispatches) = Last /\ DOMAIN e.dispatches = DOMAIN economy.dispatches
         /\ \A i \in DOMAIN economy.dispatches :
               /\ e.dispatches[i].attempt = economy.dispatches[i].attempt
               /\ i # Last => e.dispatches[i] = economy.dispatches[i]
         /\ e.dispatches[Last].state = to
<1>. DEFINE D == economy.dispatches
            new == [D[Last] EXCEPT !.state = to]
            E == [D EXCEPT ![Last] = new]
<1>1. D \in Seq(Dispatches) /\ Last = Len(D) /\ Last \in DOMAIN D
  BY DEF Economies, Last
<1>2. D[Last] \in Dispatches
  BY <1>1
<1>3. new \in Dispatches /\ new.attempt = D[Last].attempt /\ new.state = to
  BY <1>2 DEF Dispatches
<1>4. e = [[economy EXCEPT !.dispatches = E] EXCEPT !.recon = recon]
  BY <1>1 DEF Economies, WithState, WithStateAnd
<1>. HIDE DEF new
<1>5. /\ E \in Seq(Dispatches) /\ Len(E) = Len(D) /\ DOMAIN E = DOMAIN D
      /\ E[Last] = new /\ \A i \in DOMAIN D : i # Last => E[i] = D[i]
  BY <1>1, <1>3
<1>. HIDE DEF E
<1>6. e \in Economies /\ e.active = economy.active /\ e.recon = recon /\ e.dispatches = E
  BY <1>4, <1>5 DEF Economies
<1>. QED
  BY <1>1, <1>3, <1>5, <1>6

LEMMA DispatchAdded ==
  ASSUME economy \in Economies, attempt \in AllAttempts, NEW of \in Nat, NEW e,
         e = WithDispatch(of)
  PROVE  /\ e \in Economies /\ e.active = economy.active /\ e.recon = economy.recon
         /\ Len(e.dispatches) = Last + 1 /\ Last \in Nat
         /\ DOMAIN e.dispatches = DOMAIN economy.dispatches \cup {Last + 1}
         /\ \A i \in DOMAIN economy.dispatches : e.dispatches[i] = economy.dispatches[i]
         /\ e.dispatches[Last + 1].attempt = attempt /\ e.dispatches[Last + 1].of = of
<1>. DEFINE D == economy.dispatches
            new == Dispatch(attempt, of)
            E == Append(D, new)
<1>1. D \in Seq(Dispatches) /\ Last = Len(D)
  BY DEF Economies, Last
<1>2. new \in Dispatches /\ new.attempt = attempt /\ new.of = of
  BY DEF Dispatch, Dispatches
<1>3. e = [economy EXCEPT !.dispatches = E]
  BY DEF WithDispatch
<1>. HIDE DEF new
<1>4. /\ E \in Seq(Dispatches) /\ Len(E) = Last + 1 /\ Last \in Nat
      /\ DOMAIN E = DOMAIN D \cup {Last + 1}
      /\ E[Last + 1] = new /\ \A i \in DOMAIN D : E[i] = D[i]
  BY <1>1, <1>2
<1>. HIDE DEF E
<1>5. e \in Economies /\ e.active = economy.active /\ e.recon = economy.recon /\ e.dispatches = E
  BY <1>3, <1>4 DEF Economies
<1>. QED
  BY <1>2, <1>4, <1>5

(* The next attempt has not been recorded.                                    *)
LEMMA NextIsNotDone ==
  ASSUME NEW s, Sound(s), NextPending(s) # None
  PROVE  \A i \in DOMAIN s.runs : s.runs[i].attempt # NextPending(s)
<1>1. PICK i \in Pending(s) : NextPending(s) = s.attempts[i]
  BY NextPendingFacts DEF Sound
<1>. QED
  BY <1>1 DEF Pending, Done

LEMMA CompletedWhenNothingPends ==
  ASSUME NEW s, Sound(s), NextPending(s) = None
  PROVE  \A c \in Cells : Complete(s, c) \/ Exhausted(s, c)
<1>. SUFFICES ASSUME NEW c \in Cells
              PROVE  Complete(s, c) \/ Exhausted(s, c)
  OBVIOUS
<1>1. PendingOf(s, c) = {}
  BY NextPendingFacts DEF Sound, PendingOf
<1>2. Cardinality(PendingOf(s, c)) = 0
  BY <1>1, FS_EmptySet
<1>3. Cardinality(Completed(s, c)) \in Nat
  BY Counted DEF Sound
<1>4. \/ Complete(s, c)
      \/ Cardinality(Planned(s, c)) >= MaxAttempts
      \/ Cardinality(Completed(s, c)) + 0 >= Target
  BY <1>2 DEF Sound, Supplied
<1>. QED
  BY <1>3, <1>4, BenchmarkConstants DEF Complete, Exhausted

(* A session that stops.                                                      *)
LEMMA StopStep ==
  ASSUME IInv, pc \in {"loop", "begun", "running", "inflight"},
         NEW status \in {"RUNNING", "BUDGET_PAUSED", "RATE_LIMIT_PAUSED", "COMPLETED"},
         Stop(status), status = "COMPLETED" => NextPending(schedule) = None,
         economy' \in Economies, workspaces' \subseteq AllAttempts,
         economy'.active = economy.active,
         economy'.recon # "CLEAR" => economy'.active # None,
         \A a : OpenMoney(economy', a) => OpenMoney(economy, a)
  PROVE  IInv'
<1>1. /\ pc' = "stopped" /\ attempt' = None /\ fresh' = FALSE /\ recovering' = FALSE
      /\ turns' = 0 /\ used' = 0 /\ schedule' = schedule /\ savedSchedule' = schedule
      /\ sessions' = sessions /\ state' = [status |-> status, next |-> NextPending(schedule)]
  BY DEF Stop, Ended
<1>2. schedule = savedSchedule /\ Sound(schedule)
  BY DEF IInv, SavedFits
<1>3. NextPending(schedule) \in AllAttempts \cup {None}
  BY <1>2, NextPendingFacts DEF Sound
<1>4. Types'
  BY <1>1, <1>3 DEF IInv, Types, Stages
<1>5. Sound(schedule') /\ Sound(savedSchedule') /\ SavedFits'
  BY <1>1, <1>2 DEF SavedFits
<1>6. WorkFits' /\ UncertainFits' /\ CompletedFits'
  BY <1>1 DEF WorkFits, UncertainFits, CompletedFits
<1>7. Settled(schedule)' /\ Settled(savedSchedule)'
  BY <1>1, <1>2 DEF IInv, Settled
<1>8. ActiveIsNext'
  BY <1>1, <1>2 DEF IInv, ActiveIsNext, WorkFits
<1>9. CompletedIsDecided'
  <2>1. CASE status = "COMPLETED"
    BY <1>1, <1>2, <2>1, CompletedWhenNothingPends DEF CompletedIsDecided
  <2>2. CASE status # "COMPLETED"
    BY <1>1, <2>2 DEF CompletedIsDecided
  <2>. QED
    BY <2>1, <2>2
<1>. QED
  BY <1>1, <1>4, <1>5, <1>6, <1>7, <1>8, <1>9 DEF IInv

(* A session that goes on with its attempt.                                   *)
Working == {"begun", "running", "reserved", "inflight"}
LEMMA WorkStep ==
  ASSUME IInv, pc \in Working, pc' \in Working,
         UNCHANGED <<schedule, savedSchedule, state, attempt, sessions, used>>,
         turns' \in Nat, fresh' \in BOOLEAN, recovering' \in BOOLEAN,
         economy' \in Economies, economy'.active = economy.active, economy'.recon = economy.recon,
         workspaces' \subseteq AllAttempts,
         pc' \in {"reserved", "inflight"} =>
            Len(economy'.dispatches) >= 1 /\ economy'.dispatches[Len(economy'.dispatches)].attempt = attempt,
         \A a : OpenMoney(economy', a) => OpenMoney(economy, a) \/ a = attempt,
         economy.recon # "CLEAR" => \/ fresh' /\ pc' = "begun"
                                    \/ recovering' /\ pc' \in {"reserved", "inflight"}
  PROVE  IInv'
<1>1. Types'
  BY DEF IInv, Types, Stages, Working
<1>2. schedule = savedSchedule /\ Sound(schedule) /\ Sound(savedSchedule)
  BY DEF IInv, SavedFits, Working
<1>3. Sound(schedule)' /\ Sound(savedSchedule)' /\ SavedFits'
  BY <1>2 DEF SavedFits, Working, Sound, Supplied, AttemptsFit, RunsFit
<1>4. WorkFits'
  BY DEF IInv, WorkFits, Working, Last
<1>5. UncertainFits'
  BY DEF IInv, UncertainFits
<1>6. attempt # None /\ attempt = NextPending(schedule)
  BY DEF IInv, WorkFits, Working
<1>7. Settled(schedule)' /\ Settled(savedSchedule)'
  BY <1>2, <1>6, NextIsNotDone DEF IInv, Settled
<1>8. ActiveIsNext' /\ CompletedFits' /\ CompletedIsDecided'
  BY DEF IInv, ActiveIsNext, CompletedFits, CompletedIsDecided, Working
<1>. QED
  BY <1>1, <1>3, <1>4, <1>5, <1>7, <1>8 DEF IInv

-----------------------------------------------------------------------------
(* One lemma per action.                                                      *)
LEMMA InitIInv ==
  ASSUME Init
  PROVE  IInv
<1>1. /\ schedule \in InitialSchedules /\ savedSchedule = schedule
      /\ state = [status |-> "RUNNING", next |-> NextPending(schedule)]
      /\ economy = [active |-> None, recon |-> "CLEAR", dispatches |-> <<>>]
      /\ pc = "loop" /\ attempt = None /\ fresh = FALSE /\ recovering = FALSE
      /\ turns = 0 /\ used = 0 /\ workspaces = {} /\ sessions = 1
  BY DEF Init
<1>2. Sound(schedule) /\ schedule.runs = <<>>
  BY <1>1, InitialSound
<1>3. NextPending(schedule) \in AllAttempts \cup {None}
  BY <1>2, NextPendingFacts DEF Sound
<1>4. economy \in Economies
  BY <1>1 DEF Economies
<1>5. Types
  BY <1>1, <1>3, <1>4 DEF Types, Stages
<1>6. SavedFits /\ WorkFits /\ UncertainFits
  BY <1>1 DEF SavedFits, WorkFits, UncertainFits
<1>7. Settled(schedule) /\ Settled(savedSchedule)
  BY <1>1, <1>2 DEF Settled
<1>8. ActiveIsNext /\ CompletedFits /\ CompletedIsDecided
  BY <1>1 DEF ActiveIsNext, CompletedFits, CompletedIsDecided
<1>. QED
  BY <1>1, <1>2, <1>5, <1>6, <1>7, <1>8 DEF IInv

LEMMA StopsAtOnceStep ==
  ASSUME IInv, CompleteBatch \/ LogicalBudgetPause \/ RaiseOnTwoLost
  PROVE  IInv'
<1>1. /\ UNCHANGED <<economy, workspaces>> /\ pc \in {"loop", "begun"}
      /\ \E status \in {"RUNNING", "BUDGET_PAUSED", "COMPLETED"} :
           Stop(status) /\ (status = "COMPLETED" => NextPending(schedule) = None)
  BY DEF CompleteBatch, LogicalBudgetPause, RaiseOnTwoLost
<1>2. economy.recon # "CLEAR" => economy.active # None
  BY DEF IInv, UncertainFits
<1>3. economy' \in Economies /\ workspaces' \subseteq AllAttempts
  BY <1>1 DEF IInv, Types
<1>4. \A a : OpenMoney(economy', a) => OpenMoney(economy, a)
  BY <1>1
<1>. QED
  BY <1>1, <1>2, <1>3, <1>4, StopStep

LEMMA BeginAttemptStep ==
  ASSUME IInv, BeginAttempt
  PROVE  IInv'
<1>. DEFINE next == NextPending(schedule)
<1>1. /\ pc = "loop" /\ next # None /\ economy.active \in {None, next}
      /\ attempt' = next /\ pc' = "begun"
      /\ economy' = IF economy.active = next THEN economy
                    ELSE [economy EXCEPT !.active = next, !.recon = "CLEAR"]
      /\ UNCHANGED <<schedule, fresh, recovering, turns, used, savedSchedule, state,
                     workspaces, sessions>>
  BY DEF BeginAttempt
<1>2. next \in AllAttempts
  BY <1>1, NextPendingFacts DEF IInv, Sound
<1>. HIDE DEF next
<1>3. economy' \in Economies /\ economy'.active = next /\ economy'.dispatches = economy.dispatches
      /\ (economy'.recon # "CLEAR" => economy.recon # "CLEAR")
  BY <1>1, <1>2 DEF IInv, Types, Economies
<1>4. Types'
  BY <1>1, <1>2, <1>3 DEF IInv, Types, Stages
<1>5. Sound(schedule)' /\ Sound(savedSchedule)'
  BY <1>1 DEF IInv, Sound, Supplied, AttemptsFit, RunsFit
<1>6. SavedFits' /\ WorkFits' /\ UncertainFits'
  <2>1. SavedFits'
    BY <1>1 DEF IInv, SavedFits
  <2>2. WorkFits'
    BY <1>1, <1>3 DEF next, WorkFits
  <2>3. UncertainFits'
    BY <1>1, <1>3 DEF IInv, UncertainFits
  <2>. QED
    BY <2>1, <2>2, <2>3
<1>7. Settled(schedule)' /\ Settled(savedSchedule)'
  BY <1>1, <1>3 DEF IInv, Settled, OpenMoney
<1>8. ActiveIsNext' /\ CompletedFits' /\ CompletedIsDecided'
  BY <1>1 DEF IInv, ActiveIsNext, CompletedFits, CompletedIsDecided
<1>. QED
  BY <1>4, <1>5, <1>6, <1>7, <1>8 DEF IInv

LEMMA RecoverStep ==
  ASSUME IInv, Recover
  PROVE  IInv'
<1>1. /\ pc = "begun" /\ fresh /\ UNCHANGED workspaces
      /\ Cardinality(LostOf(economy, attempt)) = 1
      /\ \/ /\ economy' = [economy EXCEPT !.dispatches = Append(@, Dispatch(attempt,
                             CHOOSE i \in LostOf(economy, attempt) : TRUE))]
            /\ pc' = "reserved" /\ recovering' = TRUE
            /\ UNCHANGED <<schedule, attempt, fresh, turns, used, savedSchedule, state, sessions>>
         \/ Stop("BUDGET_PAUSED") /\ UNCHANGED economy
  BY DEF Recover
<1>2. CASE Stop("BUDGET_PAUSED") /\ UNCHANGED economy
  <2>1. economy.recon # "CLEAR" => economy.active # None
    BY DEF IInv, UncertainFits
  <2>2. economy' \in Economies /\ workspaces' \subseteq AllAttempts
    BY <1>1, <1>2 DEF IInv, Types
  <2>3. \A a : OpenMoney(economy', a) => OpenMoney(economy, a)
    BY <1>2
  <2>. QED
    BY <1>1, <1>2, <2>1, <2>2, <2>3, StopStep
<1>3. CASE pc' = "reserved"
  <2>. DEFINE of == CHOOSE i \in LostOf(economy, attempt) : TRUE
  <2>1. pc' # "stopped" /\ attempt \in AllAttempts
    BY <1>1, <1>3 DEF IInv, Types, WorkFits
  <2>2. /\ economy' = WithDispatch(of)
        /\ recovering' = TRUE
        /\ UNCHANGED <<schedule, attempt, fresh, turns, used, savedSchedule, state, sessions>>
    BY <1>1, <2>1 DEF Stop, Ended, WithDispatch
  <2>3. of \in Nat
    <3>1. LostOf(economy, attempt) # {}
      BY <1>1, FS_EmptySet
    <3>2. LostOf(economy, attempt) \subseteq Nat
      BY DEF LostOf, IInv, Types, Economies
    <3>. QED
      BY <3>1, <3>2
  <2>. HIDE DEF of
  <2>4. /\ economy' \in Economies /\ economy'.active = economy.active
        /\ economy'.recon = economy.recon
        /\ Len(economy'.dispatches) = Last + 1 /\ Last \in Nat
        /\ DOMAIN economy'.dispatches = DOMAIN economy.dispatches \cup {Last + 1}
        /\ \A i \in DOMAIN economy.dispatches : economy'.dispatches[i] = economy.dispatches[i]
        /\ economy'.dispatches[Last + 1].attempt = attempt
    BY <2>1, <2>2, <2>3, DispatchAdded DEF IInv, Types
  <2>5. \A a : OpenMoney(economy', a) => OpenMoney(economy, a) \/ a = attempt
    BY <2>4 DEF OpenMoney
  <2>6. /\ workspaces' \subseteq AllAttempts /\ turns' \in Nat /\ fresh' \in BOOLEAN
        /\ recovering' \in BOOLEAN
    BY <1>1, <2>2 DEF IInv, Types
  <2>7. Len(economy'.dispatches) >= 1
        /\ economy'.dispatches[Len(economy'.dispatches)].attempt = attempt
    BY <2>4
  <2>. QED
    BY <1>1, <1>3, <2>2, <2>4, <2>5, <2>6, <2>7, WorkStep DEF Working
<1>. QED
  BY <1>1, <1>2, <1>3

(* A resumed session executes only with its money clear; the first one never  *)
(* had any uncertain.                                                         *)
LEMMA PrepareWorkspaceStep ==
  ASSUME IInv, PrepareWorkspace
  PROVE  IInv'
<1>1. /\ pc = "begun" /\ (fresh => economy.recon = "CLEAR") /\ UNCHANGED economy
      /\ \/ /\ workspaces' = workspaces \cup {attempt}
            /\ pc' = "running" /\ turns' = 0 /\ fresh' = FALSE
            /\ UNCHANGED <<schedule, attempt, recovering, used, savedSchedule, state, sessions>>
         \/ Stop("RUNNING") /\ UNCHANGED workspaces
  BY DEF PrepareWorkspace, MayExecute
<1>2. economy \in Economies /\ attempt \in AllAttempts /\ economy.recon = "CLEAR"
  BY <1>1 DEF IInv, Types, WorkFits, UncertainFits
<1>3. CASE Stop("RUNNING") /\ UNCHANGED workspaces
  <2>1. workspaces' \subseteq AllAttempts
    BY <1>3 DEF IInv, Types
  <2>. QED
    BY <1>1, <1>2, <1>3, <2>1, StopStep
<1>4. CASE /\ workspaces' = workspaces \cup {attempt}
           /\ pc' = "running" /\ turns' = 0 /\ fresh' = FALSE
           /\ UNCHANGED <<schedule, attempt, recovering, used, savedSchedule, state, sessions>>
  <2>1. workspaces' \subseteq AllAttempts /\ turns' \in Nat /\ fresh' \in BOOLEAN
        /\ recovering' \in BOOLEAN
    BY <1>2, <1>4 DEF IInv, Types
  <2>. QED
    BY <1>1, <1>2, <1>4, <2>1, WorkStep DEF Working
<1>. QED
  BY <1>1, <1>3, <1>4

LEMMA ReserveStep ==
  ASSUME IInv, Reserve
  PROVE  IInv'
<1>1. /\ pc = "running" /\ pc' = "reserved" /\ turns' = turns + 1
      /\ economy' = WithDispatch(0)
      /\ UNCHANGED <<schedule, attempt, fresh, recovering, used, savedSchedule, state,
                     workspaces, sessions>>
  BY DEF Reserve, WithDispatch
<1>2. economy \in Economies /\ attempt \in AllAttempts /\ economy.recon = "CLEAR"
  BY <1>1 DEF IInv, Types, WorkFits, UncertainFits
<1>3. /\ economy' \in Economies /\ economy'.active = economy.active
      /\ economy'.recon = economy.recon
      /\ Len(economy'.dispatches) = Last + 1 /\ Last \in Nat
      /\ DOMAIN economy'.dispatches = DOMAIN economy.dispatches \cup {Last + 1}
      /\ \A i \in DOMAIN economy.dispatches : economy'.dispatches[i] = economy.dispatches[i]
      /\ economy'.dispatches[Last + 1].attempt = attempt
  BY <1>1, <1>2, DispatchAdded
<1>4. \A a : OpenMoney(economy', a) => OpenMoney(economy, a) \/ a = attempt
  BY <1>3 DEF OpenMoney
<1>5. Len(economy'.dispatches) >= 1
      /\ economy'.dispatches[Len(economy'.dispatches)].attempt = attempt
  BY <1>3
<1>6. /\ workspaces' \subseteq AllAttempts /\ turns' \in Nat /\ fresh' \in BOOLEAN
      /\ recovering' \in BOOLEAN
  BY <1>1 DEF IInv, Types
<1>. QED
  BY <1>1, <1>2, <1>3, <1>4, <1>5, <1>6, WorkStep DEF Working

LEMMA DispatchStep ==
  ASSUME IInv, Start \/ Answer
  PROVE  IInv'
<1>1. PICK to \in {"STARTED", "ANSWERED"} :
         /\ pc \in {"reserved", "inflight"} /\ UNCHANGED turns
         /\ economy' = WithState(to)
         /\ \/ to = "STARTED" /\ pc' = "inflight"
            \/ to = "ANSWERED" /\ pc' = "running" /\ ~recovering
         /\ UNCHANGED <<schedule, attempt, fresh, recovering, used, savedSchedule, state,
                        workspaces, sessions>>
  BY DEF Start, Answer, AtDispatch, WithState
<1>2. economy \in Economies /\ Last >= 1 /\ economy.dispatches[Last].attempt = attempt
  BY <1>1 DEF IInv, Types, WorkFits
<1>3. economy.recon # "CLEAR" => recovering
  BY <1>1 DEF IInv, UncertainFits
<1>4. economy.recon \in {"CLEAR", "UNCERTAIN_CONSUMED"}
  BY <1>2 DEF Economies
<1>5. /\ economy' \in Economies /\ economy'.active = economy.active /\ economy'.recon = economy.recon
      /\ Len(economy'.dispatches) = Last /\ DOMAIN economy'.dispatches = DOMAIN economy.dispatches
      /\ \A i \in DOMAIN economy.dispatches :
            /\ economy'.dispatches[i].attempt = economy.dispatches[i].attempt
            /\ i # Last => economy'.dispatches[i] = economy.dispatches[i]
  BY <1>1, <1>2, <1>4, DispatchSet
<1>6. \A a : OpenMoney(economy', a) => OpenMoney(economy, a) \/ a = attempt
  BY <1>2, <1>5 DEF OpenMoney
<1>7. Last \in DOMAIN economy.dispatches
  BY <1>2 DEF Last, Economies
<1>8. Len(economy'.dispatches) >= 1
      /\ economy'.dispatches[Len(economy'.dispatches)].attempt = attempt
  BY <1>2, <1>5, <1>7
<1>9. /\ workspaces' \subseteq AllAttempts /\ turns' \in Nat /\ fresh' \in BOOLEAN
      /\ recovering' \in BOOLEAN
  BY <1>1 DEF IInv, Types
<1>. QED
  BY <1>1, <1>3, <1>5, <1>6, <1>8, <1>9, WorkStep DEF Working

LEMMA LostOrReissuedStep ==
  ASSUME IInv, Lose \/ AnswerReissue
  PROVE  IInv'
<1>1. PICK to \in {"MISSING", "ANSWERED"}, recon \in {"CLEAR", "UNCERTAIN_CONSUMED"} :
         /\ economy' = WithStateAnd(to, recon)
         /\ pc = "inflight" /\ Stop("BUDGET_PAUSED")
         /\ workspaces' \in {workspaces, Cleaned}
  BY DEF Lose, AnswerReissue, WithStateAnd
<1>2. economy \in Economies /\ Last >= 1
  BY <1>1 DEF IInv, Types, WorkFits
<1>3. /\ economy' \in Economies /\ economy'.active = economy.active
      /\ DOMAIN economy'.dispatches = DOMAIN economy.dispatches
      /\ \A i \in DOMAIN economy.dispatches :
            i # Last => economy'.dispatches[i] = economy.dispatches[i]
      /\ economy'.dispatches[Last].state = to
  BY <1>1, <1>2, DispatchSet
<1>4. \A a : OpenMoney(economy', a) => OpenMoney(economy, a)
  BY <1>1, <1>3 DEF OpenMoney
<1>5. economy.active # None
  BY <1>1 DEF IInv, WorkFits
<1>6. workspaces' \subseteq AllAttempts
  BY <1>1 DEF IInv, Types, Cleaned
<1>. QED
  BY <1>1, <1>3, <1>4, <1>5, <1>6, StopStep

LEMMA StopsRunningStep ==
  ASSUME IInv, EconomicPause \/ RateLimitPause \/ ExecutorRaises
  PROVE  IInv'
<1>1. PICK status \in {"RUNNING", "BUDGET_PAUSED", "RATE_LIMIT_PAUSED"} :
         pc = "running" /\ Stop(status) /\ workspaces' = Cleaned /\ UNCHANGED economy
  BY DEF EconomicPause, RateLimitPause, ExecutorRaises, StopsRunning
<1>2. economy' \in Economies /\ workspaces' \subseteq AllAttempts /\ economy.active # None
  BY <1>1 DEF IInv, Types, Cleaned, WorkFits
<1>. QED
  BY <1>1, <1>2, StopStep

(* A result is recorded with the attempt's money settled.                     *)
LEMMA FinishStep ==
  ASSUME IInv, NEW status \in Statuses, Finish(status)
  PROVE  IInv'
<1>1. /\ pc = "running" /\ ~OpenMoney(economy, attempt)
      /\ economy' = [economy EXCEPT !.active = None]
      /\ schedule' = Record(schedule, attempt, status)
      /\ used' = used + turns /\ pc' = "ended" /\ workspaces' = Cleaned
      /\ UNCHANGED <<attempt, fresh, recovering, turns, savedSchedule, state, sessions>>
  BY DEF Finish, FinishFrom
<1>2. /\ schedule = savedSchedule /\ Sound(schedule) /\ economy.recon = "CLEAR"
      /\ attempt = NextPending(schedule) /\ attempt # None
  BY <1>1 DEF IInv, SavedFits, WorkFits, UncertainFits, Types, Economies
<1>3. PICK i \in Pending(schedule) : attempt = schedule.attempts[i]
  BY <1>2, NextPendingFacts DEF Sound
<1>4. /\ Sound(schedule') /\ Len(schedule'.runs) = Len(schedule.runs) + 1
      /\ \A j \in DOMAIN schedule.runs : schedule'.runs[j] = schedule.runs[j]
      /\ schedule'.runs[Len(schedule'.runs)].attempt = attempt
  BY <1>1, <1>2, <1>3, RecordSound
<1>5. economy' \in Economies /\ economy'.active = None /\ economy'.recon = "CLEAR"
      /\ economy'.dispatches = economy.dispatches
  BY <1>1, <1>2 DEF IInv, Types, Economies
<1>6. \A a : OpenMoney(economy', a) => OpenMoney(economy, a)
  BY <1>5 DEF OpenMoney
<1>7. Types'
  <2>1. used' \in Nat /\ workspaces' \subseteq AllAttempts
    BY <1>1 DEF IInv, Types, Cleaned
  <2>. QED
    BY <1>1, <1>5, <2>1 DEF IInv, Types, Stages
<1>8. Sound(savedSchedule)'
  BY <1>1 DEF IInv, Sound, Supplied, AttemptsFit, RunsFit
<1>9. SavedFits'
  BY <1>1, <1>2, <1>3 DEF SavedFits
<1>10. WorkFits' /\ UncertainFits' /\ ActiveIsNext'
  BY <1>1, <1>5 DEF WorkFits, UncertainFits, ActiveIsNext
<1>11. Settled(savedSchedule)'
  BY <1>1, <1>6 DEF IInv, Settled
<1>12. Settled(schedule)'
  <2>1. ASSUME NEW j \in DOMAIN schedule'.runs
        PROVE  ~OpenMoney(economy', schedule'.runs[j].attempt)
    <3>1. /\ DOMAIN schedule'.runs = 1..Len(schedule'.runs)
          /\ DOMAIN schedule.runs = 1..Len(schedule.runs) /\ Len(schedule.runs) \in Nat
      BY <1>2, <1>4 DEF Sound, Schedules
    <3>2. CASE j = Len(schedule'.runs)
      BY <1>1, <1>4, <1>6, <3>2
    <3>3. CASE j # Len(schedule'.runs)
      <4>1. j \in DOMAIN schedule.runs
        BY <1>4, <3>1, <3>3
      <4>. QED
        BY <1>4, <1>6, <4>1 DEF IInv, Settled
    <3>. QED
      BY <3>2, <3>3
  <2>. QED
    BY <2>1 DEF Settled
<1>13. CompletedFits' /\ CompletedIsDecided'
  BY <1>1 DEF IInv, CompletedFits, CompletedIsDecided
<1>. QED
  BY <1>4, <1>7, <1>8, <1>9, <1>10, <1>11, <1>12, <1>13 DEF IInv

LEMMA WriteScheduleStep ==
  ASSUME IInv, WriteSchedule
  PROVE  IInv'
<1>1. /\ pc = "ended" /\ pc' = "written" /\ savedSchedule' = schedule
      /\ UNCHANGED <<schedule, attempt, fresh, recovering, turns, used, state, economy,
                     workspaces, sessions>>
  BY DEF WriteSchedule
<1>2. Types' /\ SavedFits' /\ WorkFits' /\ UncertainFits' /\ ActiveIsNext'
  BY <1>1 DEF IInv, Types, Stages, SavedFits, WorkFits, UncertainFits, ActiveIsNext
<1>3. schedule' = schedule /\ savedSchedule' = schedule /\ economy' = economy
  BY <1>1
<1>4. Sound(schedule') /\ Sound(savedSchedule') /\ Settled(schedule)' /\ Settled(savedSchedule)'
  BY <1>3 DEF IInv, Settled
<1>5. CompletedFits' /\ CompletedIsDecided'
  BY <1>1 DEF IInv, CompletedFits, CompletedIsDecided
<1>. QED
  BY <1>2, <1>4, <1>5 DEF IInv

LEMMA WriteStateStep ==
  ASSUME IInv, WriteState
  PROVE  IInv'
<1>1. /\ pc = "written" /\ pc' = "loop"
      /\ state' = [status |-> "RUNNING", next |-> NextPending(schedule)]
      /\ UNCHANGED <<schedule, attempt, fresh, recovering, turns, used, savedSchedule,
                     economy, workspaces, sessions>>
  BY DEF WriteState
<1>2. NextPending(schedule) \in AllAttempts \cup {None}
  BY NextPendingFacts DEF IInv, Sound
<1>3. Types'
  BY <1>1, <1>2 DEF IInv, Types, Stages
<1>4. SavedFits' /\ WorkFits' /\ UncertainFits' /\ ActiveIsNext'
  BY <1>1 DEF IInv, SavedFits, WorkFits, UncertainFits, ActiveIsNext
<1>5. schedule' = schedule /\ savedSchedule' = savedSchedule /\ economy' = economy
  BY <1>1
<1>6. Sound(schedule') /\ Sound(savedSchedule') /\ Settled(schedule)' /\ Settled(savedSchedule)'
  BY <1>5 DEF IInv, Settled
<1>7. CompletedFits' /\ CompletedIsDecided'
  BY <1>1 DEF CompletedFits, CompletedIsDecided
<1>. QED
  BY <1>3, <1>4, <1>6, <1>7 DEF IInv

(* A crash loses what was not written, and nothing else.                      *)
LEMMA CrashStep ==
  ASSUME IInv, Crash
  PROVE  IInv'
<1>1. /\ pc # "stopped" /\ UNCHANGED <<savedSchedule, state, economy, workspaces, sessions>>
      /\ pc' = "stopped" /\ attempt' = None /\ fresh' = FALSE /\ recovering' = FALSE
      /\ turns' = 0 /\ used' = 0 /\ schedule' = savedSchedule
  BY DEF Crash, Ended, files
<1>2. Types' /\ SavedFits' /\ WorkFits' /\ UncertainFits'
  BY <1>1 DEF IInv, Types, Stages, SavedFits, WorkFits, UncertainFits
<1>3. ActiveIsNext'
  <2>1. economy.active # None => economy.active = NextPending(savedSchedule)
    BY <1>1 DEF IInv, ActiveIsNext, WorkFits, SavedFits, Types, Stages
  <2>. QED
    BY <1>1, <2>1 DEF ActiveIsNext
<1>4. schedule' = savedSchedule /\ savedSchedule' = savedSchedule /\ economy' = economy
  BY <1>1
<1>5. Sound(schedule') /\ Sound(savedSchedule') /\ Settled(schedule)' /\ Settled(savedSchedule)'
  BY <1>4 DEF IInv, Settled
<1>6. CompletedFits' /\ CompletedIsDecided'
  BY <1>1 DEF IInv, CompletedFits, CompletedIsDecided
<1>. QED
  BY <1>2, <1>3, <1>5, <1>6 DEF IInv

LEMMA ResumeStep ==
  ASSUME IInv, Resume
  PROVE  IInv'
<1>1. /\ pc = "stopped" /\ sessions' = sessions + 1 /\ schedule' = savedSchedule
      /\ state' = [status |-> "RUNNING", next |-> NextPending(savedSchedule)]
      /\ pc' = "loop" /\ attempt' = None /\ fresh' = TRUE /\ recovering' = FALSE
      /\ turns' = 0 /\ used' = 0
      /\ UNCHANGED <<savedSchedule, economy, workspaces>>
  BY DEF Resume, Loaded
<1>2. NextPending(savedSchedule) \in AllAttempts \cup {None}
  BY NextPendingFacts DEF IInv, Sound
<1>3. Types'
  <2>1. state' \in [status : {"RUNNING", "BUDGET_PAUSED", "RATE_LIMIT_PAUSED", "COMPLETED"},
                    next : AllAttempts \cup {None}]
    BY <1>1, <1>2
  <2>2. economy' \in Economies /\ workspaces' \subseteq AllAttempts
    BY <1>1 DEF IInv, Types
  <2>3. sessions' \in Nat
    BY <1>1 DEF IInv, Types
  <2>. QED
    BY <1>1, <2>1, <2>2, <2>3 DEF Types, Stages
<1>4. SavedFits' /\ WorkFits' /\ UncertainFits' /\ ActiveIsNext'
  BY <1>1 DEF IInv, SavedFits, WorkFits, UncertainFits, ActiveIsNext
<1>5. schedule' = savedSchedule /\ savedSchedule' = savedSchedule /\ economy' = economy
  BY <1>1
<1>6. Sound(schedule') /\ Sound(savedSchedule') /\ Settled(schedule)' /\ Settled(savedSchedule)'
  BY <1>5 DEF IInv, Settled
<1>7. CompletedFits' /\ CompletedIsDecided'
  BY <1>1 DEF CompletedFits, CompletedIsDecided
<1>. QED
  BY <1>3, <1>4, <1>6, <1>7 DEF IInv

LEMMA StutterStep ==
  ASSUME IInv, UNCHANGED vars
  PROVE  IInv'
<1>1. UNCHANGED <<schedule, pc, attempt, fresh, recovering, turns, used, savedSchedule, state,
                  economy, workspaces, sessions>>
  BY DEF vars, process, files
<1>2. Types' /\ SavedFits' /\ WorkFits' /\ UncertainFits' /\ ActiveIsNext'
  BY <1>1 DEF IInv, Types, SavedFits, WorkFits, UncertainFits, ActiveIsNext, Last
<1>3. schedule' = schedule /\ savedSchedule' = savedSchedule /\ economy' = economy
  BY <1>1
<1>4. Sound(schedule') /\ Sound(savedSchedule') /\ Settled(schedule)' /\ Settled(savedSchedule)'
  BY <1>3 DEF IInv, Settled
<1>5. CompletedFits' /\ CompletedIsDecided'
  BY <1>1 DEF IInv, CompletedFits, CompletedIsDecided
<1>. QED
  BY <1>2, <1>4, <1>5 DEF IInv

LEMMA NextStep ==
  ASSUME IInv, [Next]_vars
  PROVE  IInv'
BY StopsAtOnceStep, BeginAttemptStep, RecoverStep, PrepareWorkspaceStep, ReserveStep,
   DispatchStep, LostOrReissuedStep, StopsRunningStep, FinishStep, WriteScheduleStep,
   WriteStateStep, CrashStep, ResumeStep, StutterStep DEF Next, DriveBatch

(* The invariant of schedule and ledger, for every number of cells,           *)
(* repetitions, attempts, dispatches and sessions.                            *)
THEOREM InvariantHolds == Spec => []IInv
<1>1. Init => IInv
  BY InitIInv
<1>2. IInv /\ [Next]_vars => IInv'
  BY NextStep
<1>. QED
  BY <1>1, <1>2, PTL DEF Spec

THEOREM TypesHold == Spec => []TypeOK
<1>1. IInv => TypeOK
  BY DEF IInv, Types, Sound, TypeOK, Economies
<1>. QED
  BY <1>1, InvariantHolds, PTL

(* Wherever the process dies, no attempt is recorded twice and no cell has    *)
(* more attempts than its limit, or two of the same number.                   *)
THEOREM AttemptsAreRecordedOnce == Spec => []RecordedOnce
<1>1. IInv => RecordedOnce
  <2>. SUFFICES ASSUME IInv, NEW s \in {schedule, savedSchedule}
                PROVE  /\ \A i, j \in DOMAIN s.runs : s.runs[i].attempt = s.runs[j].attempt => i = j
                       /\ \A i, j \in DOMAIN s.attempts :
                            i # j => [cell |-> s.attempts[i].cell, nth |-> s.attempts[i].nth]
                                     # [cell |-> s.attempts[j].cell, nth |-> s.attempts[j].nth]
                       /\ \A c \in Cells : Cardinality(Planned(s, c)) <= MaxAttempts
    BY DEF RecordedOnce
  <2>1. AttemptsFit(s) /\ RunsFit(s)
    BY DEF IInv, Sound
  <2>2. ASSUME NEW i \in DOMAIN s.attempts, NEW j \in DOMAIN s.attempts,
               [cell |-> s.attempts[i].cell, nth |-> s.attempts[i].nth]
                 = [cell |-> s.attempts[j].cell, nth |-> s.attempts[j].nth]
        PROVE  i = j
    <3>1. s.attempts[i].cell = s.attempts[j].cell /\ s.attempts[i].nth = s.attempts[j].nth
      BY <2>2
    <3>. QED
      BY <2>1, <3>1 DEF AttemptsFit
  <2>. QED
    BY <2>1, <2>2 DEF AttemptsFit, RunsFit
<1>. QED
  BY <1>1, InvariantHolds, PTL

(* A recorded attempt has no request whose outcome is open.                   *)
THEOREM RecordedAttemptsAreSettled == Spec => []RecordedIsSettled
<1>1. IInv => RecordedIsSettled
  BY DEF IInv, Settled, RecordedIsSettled
<1>. QED
  BY <1>1, InvariantHolds, PTL

(* A batch is completed only with every cell decided.                         *)
THEOREM CompletedBatchIsDecided == Spec => []CompletedIsDecided
<1>1. IInv => CompletedIsDecided
  BY DEF IInv
<1>. QED
  BY <1>1, InvariantHolds, PTL

(* After any crash the attempt active in the ledger is the schedule's next.   *)
THEOREM ActiveAttemptIsNext == Spec => []ActiveIsNext
<1>1. IInv => ActiveIsNext
  BY DEF IInv
<1>. QED
  BY <1>1, InvariantHolds, PTL

(* While money is uncertain no other attempt begins, and no request goes out  *)
(* but the reissue of a lost one.                                             *)
THEOREM UncertaintyBlocksOthers == Spec => UncertainBlocksOthers
<1>. DEFINE Blocked == economy.recon # "CLEAR" =>
               /\ economy'.active = economy.active
               /\ Len(economy'.dispatches) > Last => economy'.dispatches[Last + 1].of # 0
<1>1. ASSUME IInv, [Next]_vars
      PROVE  Blocked
  <2>. SUFFICES ASSUME economy.recon # "CLEAR"
                PROVE  Blocked
    OBVIOUS
  <2>1. /\ economy \in Economies /\ economy.active # None /\ Last \in Nat
        /\ \/ pc = "stopped"
           \/ fresh /\ pc \in {"loop", "begun"}
           \/ recovering /\ pc \in {"reserved", "inflight"}
    BY <1>1 DEF IInv, Types, UncertainFits, Economies, Last
  <2>2. CASE UNCHANGED economy
    BY <2>1, <2>2 DEF Last
  <2>3. CASE BeginAttempt
    BY <2>1, <2>2, <2>3 DEF BeginAttempt
  <2>4. CASE Recover
    <3>1. ASSUME economy' = [economy EXCEPT !.dispatches = Append(@, Dispatch(attempt,
                               CHOOSE i \in LostOf(economy, attempt) : TRUE))],
                 Cardinality(LostOf(economy, attempt)) = 1, pc = "begun"
          PROVE  Blocked
      <4>. DEFINE of == CHOOSE i \in LostOf(economy, attempt) : TRUE
      <4>1. of \in LostOf(economy, attempt)
        BY <3>1, FS_EmptySet
      <4>2. of \in Nat /\ of # 0
        BY <2>1, <4>1 DEF LostOf, Economies
      <4>3. economy' = WithDispatch(of) /\ attempt \in AllAttempts
        BY <1>1, <3>1 DEF WithDispatch, IInv, WorkFits, Types
      <4>. HIDE DEF of
      <4>. QED
        BY <2>1, <4>2, <4>3, DispatchAdded
    <3>. QED
      BY <2>2, <2>4, <3>1 DEF Recover
  <2>5. CASE Start \/ Lose \/ AnswerReissue
    <3>1. PICK to \in {"STARTED", "MISSING", "ANSWERED"}, recon \in {"CLEAR", "UNCERTAIN_CONSUMED"} :
             \/ economy' = WithStateAnd(to, recon)
             \/ economy' = WithState(to) /\ recon = economy.recon
      BY <2>1, <2>5 DEF Start, Lose, AnswerReissue, AtDispatch, WithState, WithStateAnd, Economies
    <3>2. Last >= 1
      BY <1>1, <2>1, <2>5 DEF Start, Lose, AnswerReissue, AtDispatch, IInv, WorkFits
    <3>3. economy'.active = economy.active /\ Len(economy'.dispatches) = Last
      BY <2>1, <3>1, <3>2, DispatchSet
    <3>. QED
      BY <2>1, <3>3
  <2>6. CASE PrepareWorkspace
    BY <2>2, <2>6 DEF PrepareWorkspace
  <2>7. CASE Reserve \/ Answer \/ EconomicPause \/ RateLimitPause \/ ExecutorRaises
             \/ \E status \in Statuses : Finish(status)
    BY <2>1, <2>7 DEF Reserve, Answer, AtDispatch, EconomicPause, RateLimitPause, ExecutorRaises,
         StopsRunning, Finish, FinishFrom
  <2>8. CASE CompleteBatch \/ LogicalBudgetPause \/ RaiseOnTwoLost \/ WriteSchedule \/ WriteState
             \/ Crash \/ Resume \/ UNCHANGED vars
    BY <2>2, <2>8 DEF CompleteBatch, LogicalBudgetPause, RaiseOnTwoLost, WriteSchedule, WriteState,
         Crash, Resume, vars, files
  <2>. QED
    BY <1>1, <2>3, <2>4, <2>5, <2>6, <2>7, <2>8 DEF Next, DriveBatch
<1>. QED
  BY <1>1, InvariantHolds, PTL DEF Spec, UncertainBlocksOthers

(* What agrees with a sequence as far as it goes has it as a prefix.          *)
LEMMA PrefixOf ==
  ASSUME NEW S, NEW s \in Seq(S), NEW t \in Seq(S), Len(s) <= Len(t),
         \A j \in DOMAIN s : j \in DOMAIN t /\ t[j] = s[j]
  PROVE  SE!IsPrefix(s, t)
<1>1. Len(s) \in Nat /\ Len(t) \in Nat /\ DOMAIN s = 1..Len(s)
  OBVIOUS
<1>2. SubSeq(s, 1, Len(s)) = s
  BY <1>1
<1>3. SubSeq(t, 1, Len(s)) = s
  BY <1>1
<1>. QED
  BY <1>2, <1>3 DEF SE!IsPrefix

(* The schedule's file only grows: the runs and attempts written to it stay   *)
(* in it, in their order, through pauses, crashes and resumptions.            *)
THEOREM HistoryOnlyGrows == Spec => HistoryGrows
<1>. DEFINE Grown == /\ SE!IsPrefix(savedSchedule.runs, savedSchedule'.runs)
                     /\ SE!IsPrefix(savedSchedule.attempts, savedSchedule'.attempts)
<1>1. ASSUME IInv, [Next]_vars
      PROVE  Grown
  <2>1. /\ savedSchedule.attempts \in Seq(AllAttempts)
        /\ savedSchedule.runs \in Seq([attempt : AllAttempts, status : Statuses])
    BY <1>1 DEF IInv, Sound, Schedules
  <2>2. CASE savedSchedule' = savedSchedule
    BY <2>1, <2>2, PrefixOf
  <2>3. CASE pc # "ended" /\ savedSchedule' = schedule
    BY <1>1, <2>3, <2>2 DEF IInv, SavedFits
  <2>4. CASE WriteSchedule
    <3>1. savedSchedule' = schedule /\ pc = "ended" /\ Sound(savedSchedule) /\ Sound(schedule)
      BY <1>1, <2>4 DEF WriteSchedule, IInv
    <3>2. PICK i \in Pending(savedSchedule) : \E status \in Statuses :
             schedule = Record(savedSchedule, savedSchedule.attempts[i], status)
      BY <1>1, <3>1 DEF IInv, SavedFits
    <3>3. PICK status \in Statuses :
             schedule = Record(savedSchedule, savedSchedule.attempts[i], status)
      BY <3>2
    <3>4. /\ schedule.attempts \in Seq(AllAttempts)
          /\ schedule.runs \in Seq([attempt : AllAttempts, status : Statuses])
      BY <3>1 DEF Sound, Schedules
    <3>5. /\ Len(schedule.runs) = Len(savedSchedule.runs) + 1
          /\ Len(savedSchedule.attempts) <= Len(schedule.attempts)
          /\ \A j \in DOMAIN savedSchedule.runs :
                j \in DOMAIN schedule.runs /\ schedule.runs[j] = savedSchedule.runs[j]
          /\ \A j \in DOMAIN savedSchedule.attempts :
                j \in DOMAIN schedule.attempts /\ schedule.attempts[j] = savedSchedule.attempts[j]
      BY <3>1, <3>3, RecordSound
    <3>6. Len(savedSchedule.runs) <= Len(schedule.runs)
      BY <2>1, <3>5
    <3>7. SE!IsPrefix(savedSchedule.runs, schedule.runs)
      BY <2>1, <3>4, <3>5, <3>6, PrefixOf
    <3>8. SE!IsPrefix(savedSchedule.attempts, schedule.attempts)
      BY <2>1, <3>4, <3>5, PrefixOf
    <3>. QED
      BY <3>1, <3>7, <3>8
  <2>5. CASE CompleteBatch \/ LogicalBudgetPause \/ BeginAttempt \/ RaiseOnTwoLost \/ Recover
    BY <2>3, <2>2, <2>5 DEF CompleteBatch, LogicalBudgetPause, BeginAttempt, RaiseOnTwoLost, Recover,
         Stop, Ended
  <2>6. CASE PrepareWorkspace \/ Reserve \/ Start \/ Answer \/ Lose \/ AnswerReissue
    BY <2>3, <2>2, <2>6 DEF PrepareWorkspace, Reserve, Start, Answer, Lose, AnswerReissue, AtDispatch,
         Stop, Ended
  <2>7. CASE EconomicPause \/ RateLimitPause \/ ExecutorRaises
             \/ \E status \in Statuses : Finish(status)
    BY <2>3, <2>2, <2>7 DEF EconomicPause, RateLimitPause, ExecutorRaises, StopsRunning, Finish,
         FinishFrom, Stop, Ended
  <2>8. CASE WriteState \/ Crash \/ Resume \/ UNCHANGED vars
    BY <2>2, <2>8 DEF WriteState, Crash, Resume, vars, files
  <2>. QED
    BY <1>1, <2>4, <2>5, <2>6, <2>7, <2>8 DEF Next, DriveBatch
<1>. QED
  BY <1>1, InvariantHolds, PTL DEF Spec, HistoryGrows
-----------------------------------------------------------------------------
(* The batch of BenchmarkBatch.  What a schedule says of an attempt is its    *)
(* only run's result, or that it is planned, or nothing.                      *)
Fits(s) == s \in Schedules /\ AttemptsFit(s) /\ RunsFit(s)
Outcomes == {"unplanned", "planned"} \cup Statuses

LEMMA FitsTyped ==
  ASSUME NEW s, Fits(s)
  PROVE  /\ s.attempts \in Seq(AllAttempts)
         /\ \A j \in DOMAIN s.runs :
               s.runs[j].attempt \in AllAttempts /\ s.runs[j].status \in Statuses
<1>. DEFINE RunRec == [attempt : AllAttempts, status : Statuses]
<1>1. s \in [attempts : Seq(AllAttempts), runs : Seq(RunRec)]
  BY DEF Fits, Schedules
<1>. HIDE DEF RunRec
<1>2. s.attempts \in Seq(AllAttempts) /\ s.runs \in Seq(RunRec)
  BY <1>1
<1>3. \A j \in DOMAIN s.runs : s.runs[j] \in RunRec
  BY <1>2
<1>. QED
  BY <1>2, <1>3 DEF RunRec

LEMMA OutcomeFacts ==
  ASSUME NEW s, Fits(s)
  PROVE  /\ Outcome(s) \in [AllAttempts -> Outcomes]
         /\ \A j \in DOMAIN s.runs :
               s.runs[j].attempt \in AllAttempts /\ Outcome(s)[s.runs[j].attempt] = s.runs[j].status
         /\ \A a \in AllAttempts :
               /\ Outcome(s)[a] = "unplanned" <=> \A i \in DOMAIN s.attempts : s.attempts[i] # a
               /\ Outcome(s)[a] = "planned" <=> \E i \in Pending(s) : s.attempts[i] = a
               /\ Outcome(s)[a] \in Statuses => a \in Done(s)
<1>1. /\ s.attempts \in Seq(AllAttempts)
      /\ \A j \in DOMAIN s.runs : s.runs[j].attempt \in AllAttempts /\ s.runs[j].status \in Statuses
  BY FitsTyped
<1>2. ASSUME NEW j \in DOMAIN s.runs
      PROVE  Outcome(s)[s.runs[j].attempt] = s.runs[j].status
  <2>. DEFINE a == s.runs[j].attempt
              k == CHOOSE i \in DOMAIN s.runs : s.runs[i].attempt = a
  <2>1. k \in DOMAIN s.runs /\ s.runs[k].attempt = a
    OBVIOUS
  <2>2. k = j
    BY <2>1 DEF Fits, RunsFit
  <2>3. a \in Done(s) /\ a \in AllAttempts
    BY <1>1 DEF Done
  <2>4. Outcome(s)[a] = s.runs[k].status
    BY <2>3 DEF Outcome
  <2>. QED
    BY <2>2, <2>4
<1>3. ASSUME NEW a \in AllAttempts, a \in Done(s)
      PROVE  Outcome(s)[a] \in Statuses /\ \E i \in DOMAIN s.attempts : s.attempts[i] = a
  BY <1>1, <1>2, <1>3 DEF Done, Fits, RunsFit
<1>4. ASSUME NEW a \in AllAttempts, a \notin Done(s)
      PROVE  Outcome(s)[a] = IF \E i \in DOMAIN s.attempts : s.attempts[i] = a
                             THEN "planned" ELSE "unplanned"
  BY <1>4 DEF Outcome
<1>5. "planned" \notin Statuses /\ "unplanned" \notin Statuses
  BY DEF Statuses
<1>6. ASSUME NEW a \in AllAttempts
      PROVE  /\ Outcome(s)[a] \in Outcomes
             /\ Outcome(s)[a] = "unplanned" <=> \A i \in DOMAIN s.attempts : s.attempts[i] # a
             /\ Outcome(s)[a] = "planned" <=> \E i \in Pending(s) : s.attempts[i] = a
             /\ Outcome(s)[a] \in Statuses => a \in Done(s)
  <2>1. CASE a \in Done(s)
    BY <1>3, <1>5, <2>1 DEF Outcomes, Pending
  <2>2. CASE a \notin Done(s)
    BY <1>4, <1>5, <2>2 DEF Outcomes, Pending
  <2>. QED
    BY <2>1, <2>2
<1>7. Outcome(s) \in [AllAttempts -> Outcomes]
  <2>1. DOMAIN Outcome(s) = AllAttempts /\ Outcome(s) = [a \in AllAttempts |-> Outcome(s)[a]]
    BY DEF Outcome
  <2>. QED
    BY <1>6, <2>1
<1>. QED
  BY <1>1, <1>2, <1>6, <1>7

(* The attempts planned, and those with a valid run, are counted by the       *)
(* places of the schedule that name them.                                     *)
PlannedIn(s, c) == {a \in AllAttempts : a.cell = c /\ Outcome(s)[a] # "unplanned"}
ValidIn(s, c) == {a \in AllAttempts : a.cell = c /\ Outcome(s)[a] = "COMPLETED"}

LEMMA OutcomesCounted ==
  ASSUME NEW s, Fits(s), NEW c
  PROVE  /\ Cardinality(PlannedIn(s, c)) = Cardinality(Planned(s, c))
         /\ Cardinality(ValidIn(s, c)) = Cardinality(Completed(s, c))
<1>1. /\ s.attempts \in Seq(AllAttempts)
      /\ \A j \in DOMAIN s.runs : s.runs[j].attempt \in AllAttempts /\ s.runs[j].status \in Statuses
      /\ IsFiniteSet(Planned(s, c)) /\ IsFiniteSet(Completed(s, c))
  BY Counted, FitsTyped DEF Fits
<1>2. Cardinality(PlannedIn(s, c)) = Cardinality(Planned(s, c))
  <2>. DEFINE S == Planned(s, c)
              f == [i \in S |-> s.attempts[i]]
  <2>1. \A i \in S : i \in DOMAIN s.attempts /\ s.attempts[i] \in PlannedIn(s, c)
    BY <1>1, OutcomeFacts DEF Planned, PlannedIn
  <2>2. \A i, j \in S : s.attempts[i] = s.attempts[j] => i = j
    BY <2>1 DEF Fits, AttemptsFit
  <2>3. \A a \in PlannedIn(s, c) : \E i \in S : s.attempts[i] = a
    BY OutcomeFacts DEF Planned, PlannedIn
  <2>. HIDE DEF S
  <2>4. f \in Bijection(S, PlannedIn(s, c))
    <3>1. f \in [S -> PlannedIn(s, c)] /\ \A i \in S : f[i] = s.attempts[i]
      BY <2>1
    <3>. HIDE DEF f
    <3>2. f \in Injection(S, PlannedIn(s, c))
      BY <2>2, <3>1 DEF Injection, IsInjective
    <3>3. f \in Surjection(S, PlannedIn(s, c))
      BY <2>3, <3>1 DEF Surjection
    <3>. QED
      BY <3>2, <3>3 DEF Bijection
  <2>5. ExistsBijection(S, PlannedIn(s, c))
    BY <2>4 DEF ExistsBijection
  <2>6. IsFiniteSet(S)
    BY <1>1 DEF S
  <2>7. Cardinality(PlannedIn(s, c)) = Cardinality(S)
    BY <2>5, <2>6, FS_Bijection
  <2>. QED
    BY <2>7 DEF S
<1>3. Cardinality(ValidIn(s, c)) = Cardinality(Completed(s, c))
  <2>. DEFINE S == Completed(s, c)
              f == [i \in S |-> s.runs[i].attempt]
  <2>1. \A i \in S : i \in DOMAIN s.runs /\ s.runs[i].attempt \in ValidIn(s, c)
    BY <1>1, OutcomeFacts DEF Completed, Runs, ValidIn
  <2>2. \A i, j \in S : s.runs[i].attempt = s.runs[j].attempt => i = j
    BY <2>1 DEF Fits, RunsFit
  <2>3. ASSUME NEW a \in ValidIn(s, c)
        PROVE  \E i \in S : s.runs[i].attempt = a
    <3>1. a \in Done(s) /\ a.cell = c /\ Outcome(s)[a] = "COMPLETED"
      BY OutcomeFacts DEF ValidIn, Statuses
    <3>2. PICK i \in DOMAIN s.runs : s.runs[i].attempt = a
      BY <3>1 DEF Done
    <3>3. s.runs[i].status = "COMPLETED"
      BY <3>1, <3>2, OutcomeFacts
    <3>. QED
      BY <3>1, <3>2, <3>3 DEF Completed, Runs
  <2>. HIDE DEF S
  <2>4. f \in Bijection(S, ValidIn(s, c))
    <3>1. f \in [S -> ValidIn(s, c)] /\ \A i \in S : f[i] = s.runs[i].attempt
      BY <2>1
    <3>. HIDE DEF f
    <3>2. f \in Injection(S, ValidIn(s, c))
      BY <2>2, <3>1 DEF Injection, IsInjective
    <3>3. f \in Surjection(S, ValidIn(s, c))
      BY <2>3, <3>1 DEF Surjection
    <3>. QED
      BY <3>2, <3>3 DEF Bijection
  <2>5. ExistsBijection(S, ValidIn(s, c))
    BY <2>4 DEF ExistsBijection
  <2>6. IsFiniteSet(S)
    BY <1>1 DEF S
  <2>7. Cardinality(ValidIn(s, c)) = Cardinality(S)
    BY <2>5, <2>6, FS_Bijection
  <2>. QED
    BY <2>7 DEF S
<1>. QED
  BY <1>2, <1>3

(* A run recorded gives its attempt the result, and touches no other.         *)
LEMMA OutcomeOfRun ==
  ASSUME NEW s, Sound(s), NEW i \in Pending(s), NEW status \in Statuses, NEW done,
         done = WithRun(s, s.attempts[i], status)
  PROVE  /\ Fits(done) /\ s.attempts[i] \in AllAttempts
         /\ Outcome(s)[s.attempts[i]] = "planned"
         /\ Outcome(done) = [Outcome(s) EXCEPT ![s.attempts[i]] = status]
<1>. DEFINE a == s.attempts[i]
            n == Len(s.runs)
<1>1. /\ Fits(s) /\ a \in AllAttempts /\ i \in Pending(s) /\ i \in DOMAIN s.attempts
      /\ Outcome(s) \in [AllAttempts -> Outcomes] /\ Outcome(s)[a] = "planned"
  <2>1. Fits(s) /\ i \in DOMAIN s.attempts
    BY DEF Sound, Fits, Pending
  <2>2. a \in AllAttempts
    BY <2>1, FitsTyped
  <2>. QED
    BY <2>1, <2>2, OutcomeFacts
<1>2. /\ Fits(done) /\ done.attempts = s.attempts
      /\ DOMAIN done.runs = DOMAIN s.runs \cup {n + 1} /\ n + 1 \notin DOMAIN s.runs
      /\ \A j \in DOMAIN s.runs : done.runs[j] = s.runs[j]
      /\ done.runs[n + 1].attempt = a /\ done.runs[n + 1].status = status
  <2>1. /\ done \in Schedules /\ AttemptsFit(done) /\ RunsFit(done) /\ done.attempts = s.attempts
        /\ DOMAIN done.runs = DOMAIN s.runs \cup {Len(s.runs) + 1}
        /\ Len(s.runs) + 1 \notin DOMAIN s.runs
        /\ \A j \in DOMAIN s.runs : done.runs[j] = s.runs[j]
        /\ done.runs[Len(s.runs) + 1] = [attempt |-> s.attempts[i], status |-> status]
    BY RunRecorded
  <2>2. /\ done.runs[Len(s.runs) + 1].attempt = s.attempts[i]
        /\ done.runs[Len(s.runs) + 1].status = status
    BY <2>1
  <2>. QED
    BY <2>1, <2>2 DEF Fits
<1>. HIDE DEF a, n
<1>3. Outcome(done)[a] = status
  BY <1>2, OutcomeFacts
<1>4. ASSUME NEW x \in AllAttempts, x # a
      PROVE  Outcome(done)[x] = Outcome(s)[x]
  <2>1. CASE x \in Done(s)
    <3>1. PICK j \in DOMAIN s.runs : s.runs[j].attempt = x
      BY <2>1 DEF Done
    <3>2. Outcome(s)[x] = s.runs[j].status
      BY <1>1, <3>1, OutcomeFacts
    <3>3. j \in DOMAIN done.runs /\ done.runs[j] = s.runs[j]
      BY <1>2
    <3>4. Outcome(done)[x] = done.runs[j].status
      BY <1>2, <3>1, <3>3, OutcomeFacts
    <3>. QED
      BY <3>2, <3>3, <3>4
  <2>2. CASE x \notin Done(s)
    <3>1. x \notin Done(done)
      BY <1>2, <1>4, <2>2 DEF Done
    <3>. QED
      BY <1>2, <2>2, <3>1 DEF Outcome
  <2>. QED
    BY <2>1, <2>2
<1>5. Outcome(done) \in [AllAttempts -> Outcomes]
  BY <1>2, OutcomeFacts
<1>6. Outcome(done) = [Outcome(s) EXCEPT ![a] = status]
  <2>. DEFINE f == Outcome(done)
              g == Outcome(s)
  <2>1. /\ f \in [AllAttempts -> Outcomes] /\ g \in [AllAttempts -> Outcomes]
        /\ a \in AllAttempts /\ f[a] = status /\ \A x \in AllAttempts : x # a => f[x] = g[x]
    BY <1>1, <1>3, <1>4, <1>5
  <2>. HIDE DEF f, g
  <2>2. f = [g EXCEPT ![a] = status]
    BY <2>1
  <2>. QED
    BY <2>2 DEF f, g
<1>. QED
  BY <1>1, <1>2, <1>6 DEF a

(* A replacement planned is an attempt that was not planned.                  *)
LEMMA OutcomeOfReplacement ==
  ASSUME NEW s, Fits(s), NEW c \in Cells, NEW r \in 0..(Target - 1),
         Cardinality(Planned(s, c)) < MaxAttempts, NEW new, new = WithAttempt(s, c, r)
  PROVE  LET b == Attempt(c, r, Cardinality(Planned(s, c)) + 1)
         IN  /\ b \in AllAttempts /\ b.cell = c /\ b.rep = r
             /\ b.nth = Cardinality(Planned(s, c)) + 1
             /\ Outcome(new) = [Outcome(s) EXCEPT ![b] = "planned"]
<1>. DEFINE k == Cardinality(Planned(s, c))
            b == Attempt(c, r, k + 1)
            m == Len(s.attempts)
<1>1. s.attempts \in Seq(AllAttempts) /\ k \in Nat /\ k + 1 \in 1..MaxAttempts
  <2>1. s.attempts \in Seq(AllAttempts) /\ k \in Nat
    BY Counted, FitsTyped DEF Fits
  <2>. QED
    BY <2>1, BenchmarkConstants
<1>2. b \in AllAttempts /\ b.cell = c /\ b.rep = r /\ b.nth = k + 1
  <2>. HIDE DEF k
  <2>. QED
    BY <1>1 DEF Attempt, AllAttempts
<1>3. /\ Fits(new) /\ new.runs = s.runs /\ m + 1 \in DOMAIN new.attempts
      /\ DOMAIN new.attempts = DOMAIN s.attempts \cup {m + 1}
      /\ \A j \in DOMAIN s.attempts : new.attempts[j] = s.attempts[j]
      /\ new.attempts[m + 1] \notin Done(s)
  BY Replaced DEF Fits
<1>4. new.attempts[m + 1] = b
  <2>1. new.attempts = Append(s.attempts, b)
    <3>. HIDE DEF b
    <3>1. new = [s EXCEPT !.attempts = Append(s.attempts, b)]
      BY DEF b, WithAttempt
    <3>2. DOMAIN s = {"attempts", "runs"}
      BY DEF Fits, Schedules
    <3>. QED
      BY <3>1, <3>2
  <2>. HIDE DEF b
  <2>. QED
    BY <1>1, <1>2, <2>1
<1>. HIDE DEF b, m
<1>5. Done(new) = Done(s)
  BY <1>3 DEF Done
<1>6. Outcome(new)[b] = "planned"
  BY <1>2, <1>3, <1>4, <1>5 DEF Outcome
<1>7. ASSUME NEW x \in AllAttempts, x # b
      PROVE  Outcome(new)[x] = Outcome(s)[x]
  <2>1. (\E j \in DOMAIN new.attempts : new.attempts[j] = x)
        <=> \E j \in DOMAIN s.attempts : s.attempts[j] = x
    BY <1>3, <1>4, <1>7
  <2>. QED
    BY <1>3, <1>5, <2>1 DEF Outcome
<1>8. Outcome(new) = [Outcome(s) EXCEPT ![b] = "planned"]
  <2>. DEFINE f == Outcome(new)
              g == Outcome(s)
  <2>1. /\ f \in [AllAttempts -> Outcomes] /\ g \in [AllAttempts -> Outcomes]
        /\ b \in AllAttempts /\ f[b] = "planned" /\ \A x \in AllAttempts : x # b => f[x] = g[x]
    BY <1>2, <1>3, <1>6, <1>7, OutcomeFacts
  <2>. HIDE DEF f, g
  <2>2. f = [g EXCEPT ![b] = "planned"]
    BY <2>1
  <2>. QED
    BY <2>2 DEF f, g
<1>. QED
  BY <1>2, <1>8 DEF b

(* Recording a run is a step of the batch: the attempt gets its result, and,  *)
(* if it did not count and its cell is undecided, a replacement is planned.   *)
DecidedIn(s, c) ==
    Cardinality(ValidIn(s, c)) >= Target \/ Cardinality(PlannedIn(s, c)) >= MaxAttempts
ReplacementsIn(s, c) ==
    {b \in AllAttempts : /\ b.cell = c /\ b.nth = Cardinality(PlannedIn(s, c)) + 1
                         /\ \A a \in ValidIn(s, c) : a.rep # b.rep}

LEMMA OutcomeRecorded ==
  ASSUME NEW s, Sound(s), NEW i \in Pending(s), NEW status \in Statuses, NEW a,
         a = s.attempts[i], NEW new, new = Record(s, a, status)
  PROVE  /\ a \in AllAttempts /\ Outcome(s)[a] = "planned"
         /\ IF status = "COMPLETED" \/ DecidedIn(s, a.cell)
            THEN Outcome(new) = [Outcome(s) EXCEPT ![a] = status]
            ELSE \E b \in ReplacementsIn(s, a.cell) :
                    Outcome(new) = [Outcome(s) EXCEPT ![a] = status, ![b] = "planned"]
<1>. DEFINE done == WithRun(s, a, status)
            c == a.cell
<1>1. /\ Fits(done) /\ a \in AllAttempts /\ Outcome(s)[a] = "planned"
      /\ Outcome(done) = [Outcome(s) EXCEPT ![a] = status]
  BY OutcomeOfRun
<1>2. c \in Cells
  BY <1>1 DEF AllAttempts
<1>3. /\ Planned(done, c) = Planned(s, c)
      /\ status # "COMPLETED" => Completed(done, c) = Completed(s, c)
  BY RunCounted
<1>4. /\ DOMAIN done.runs = DOMAIN s.runs \cup {Len(s.runs) + 1}
      /\ \A j \in DOMAIN s.runs : done.runs[j] = s.runs[j]
      /\ done.runs[Len(s.runs) + 1] = [attempt |-> s.attempts[i], status |-> status]
  BY RunRecorded
<1>5. new = IF status = "COMPLETED" THEN done ELSE NextReplacement(done, c)
  BY DEF Record, WithRun
<1>6. Fits(s)
  BY DEF Sound, Fits
<1>. HIDE DEF done, c
<1>7. /\ Cardinality(PlannedIn(s, c)) = Cardinality(Planned(s, c))
      /\ Cardinality(ValidIn(s, c)) = Cardinality(Completed(s, c))
      /\ Cardinality(Planned(s, c)) \in Nat /\ Cardinality(Completed(s, c)) \in Nat
  BY <1>6, OutcomesCounted, Counted DEF Fits
<1>8. CASE status = "COMPLETED"
  BY <1>1, <1>5, <1>8
<1>9. CASE status # "COMPLETED" /\ DecidedIn(s, c)
  <2>1. Complete(done, c) \/ Cardinality(Planned(done, c)) >= MaxAttempts
    BY <1>3, <1>7, <1>9 DEF DecidedIn, Complete
  <2>2. ~NeedsReplacement(done, c)
    BY <2>1 DEF NeedsReplacement, Exhausted
  <2>3. new = done
    BY <1>5, <1>9, <2>2 DEF NextReplacement
  <2>. QED
    BY <1>1, <1>9, <2>3 DEF c
<1>10. CASE status # "COMPLETED" /\ ~DecidedIn(s, c)
  <2>. DEFINE U == Unresolved(done, c)
              r == CHOOSE x \in U : \A y \in U : x <= y
              k == Cardinality(Planned(done, c))
              b == Attempt(c, r, k + 1)
  <2>1. /\ ~Complete(done, c) /\ ~(k >= MaxAttempts) /\ k \in Nat
        /\ k = Cardinality(PlannedIn(s, c))
    BY <1>3, <1>7, <1>10 DEF DecidedIn, Complete
  <2>2. k < MaxAttempts
    BY <2>1, BenchmarkConstants
  <2>3. U # {}
    BY <1>1, <2>1, ResolvedIsComplete DEF Fits
  <2>4. NeedsReplacement(done, c)
    BY <2>1, <2>3 DEF NeedsReplacement, Exhausted
  <2>5. new = WithAttempt(done, c, r)
    BY <1>5, <1>10, <2>4 DEF NextReplacement, WithAttempt
  <2>6. U \subseteq 0..(Target - 1) /\ U \subseteq Nat
    BY BenchmarkConstants DEF Unresolved
  <2>7. r \in U /\ r \in 0..(Target - 1)
    BY <2>3, <2>6, LeastNat
  <2>. HIDE DEF r
  <2>8. /\ b \in AllAttempts /\ b.cell = c /\ b.rep = r /\ b.nth = k + 1
        /\ Outcome(new) = [Outcome(done) EXCEPT ![b] = "planned"]
    <3>1. LET e == Attempt(c, r, Cardinality(Planned(done, c)) + 1)
          IN  /\ e \in AllAttempts /\ e.cell = c /\ e.rep = r
              /\ e.nth = Cardinality(Planned(done, c)) + 1
              /\ Outcome(new) = [Outcome(done) EXCEPT ![e] = "planned"]
      <4>1. Fits(done) /\ Cardinality(Planned(done, c)) < MaxAttempts
        BY <1>1, <2>2
      <4>. HIDE DEF k, U
      <4>. QED
        BY <1>2, <2>5, <2>7, <4>1, OutcomeOfReplacement
    <3>. QED
      BY <3>1
  <2>. HIDE DEF b, k
  <2>9. ASSUME NEW v \in ValidIn(s, c)
        PROVE  v.rep # r
    <3>1. v \in Done(s) /\ Outcome(s)[v] = "COMPLETED" /\ v.cell = c
      BY <1>6, OutcomeFacts DEF ValidIn, Statuses
    <3>2. PICK j \in DOMAIN s.runs : s.runs[j].attempt = v
      BY <3>1 DEF Done
    <3>3. s.runs[j].status = "COMPLETED"
      BY <1>6, <3>1, <3>2, OutcomeFacts
    <3>4. j \in Completed(s, c)
      BY <3>1, <3>2, <3>3 DEF Completed, Runs
    <3>5. j \in Completed(done, c) /\ done.runs[j] = s.runs[j]
      BY <1>3, <1>10, <1>4, <3>2, <3>4
    <3>. QED
      BY <2>7, <3>2, <3>5 DEF Unresolved
  <2>10. b \in ReplacementsIn(s, c)
    BY <2>1, <2>8, <2>9 DEF ReplacementsIn
  <2>11. Outcome(new) = [Outcome(s) EXCEPT ![a] = status, ![b] = "planned"]
    BY <1>1, <2>8
  <2>. QED
    BY <1>1, <1>10, <2>10, <2>11 DEF c
<1>. QED
  BY <1>8, <1>9, <1>10, <1>1 DEF c

-----------------------------------------------------------------------------
(* The batch starts with the first attempts planned, and every step is one of *)
(* the abstract batch or leaves what it sees alone.                           *)
LEMMA BatchInit ==
  ASSUME Init
  PROVE  Batch!Init
<1>1. /\ schedule \in InitialSchedules /\ savedSchedule = schedule
      /\ state.status = "RUNNING" /\ economy.active = None
  BY DEF Init
<1>2. /\ Fits(schedule) /\ schedule.runs = <<>>
      /\ \A a : a \in FirstAttempts <=> \E i \in DOMAIN schedule.attempts : schedule.attempts[i] = a
  BY <1>1, InitialSound DEF Sound, Fits
<1>3. Done(schedule) = {}
  BY <1>2 DEF Done
<1>4. \A a \in AllAttempts : a.nth = a.rep + 1 <=> a \in FirstAttempts
  BY DEF AllAttempts, FirstAttempts, Attempt
<1>5. Outcome(schedule) = [a \in AllAttempts |-> IF a.nth = a.rep + 1 THEN "planned" ELSE "unplanned"]
  BY <1>2, <1>3, <1>4 DEF Outcome
<1>. QED
  BY <1>1, <1>5 DEF Batch!Init, Batch!Attempts, AllAttempts

BatchUnchanged ==
    /\ savedSchedule' = savedSchedule /\ economy'.active = economy.active
    /\ (state'.status = "COMPLETED") = (state.status = "COMPLETED")

LEMMA BatchStutters ==
  ASSUME BatchUnchanged
  PROVE  UNCHANGED Batch!vars
BY DEF BatchUnchanged, Batch!vars

(* The batch counts as the schedule does.                                     *)
LEMMA BatchCounts ==
  ASSUME NEW c
  PROVE  /\ Batch!Decided(c) <=> DecidedIn(savedSchedule, c)
         /\ Batch!Replacements(c) = ReplacementsIn(savedSchedule, c)
<1>1. Batch!Attempts = AllAttempts
  BY DEF Batch!Attempts, AllAttempts
<1>2. Batch!Planned(c) = PlannedIn(savedSchedule, c)
  BY <1>1 DEF Batch!Planned, PlannedIn
<1>3. Batch!Valid(c) = ValidIn(savedSchedule, c)
  BY <1>1 DEF Batch!Valid, ValidIn
<1>4. Batch!Decided(c) <=> DecidedIn(savedSchedule, c)
  BY <1>2, <1>3 DEF Batch!Decided, DecidedIn, Batch!Cardinality, Cardinality
<1>5. Batch!Replacements(c) = ReplacementsIn(savedSchedule, c)
  BY <1>1, <1>2, <1>3 DEF Batch!Replacements, ReplacementsIn, Batch!Cardinality, Cardinality
<1>. QED
  BY <1>4, <1>5

LEMMA BatchBegins ==
  ASSUME IInv, BeginAttempt
  PROVE  [Batch!Next]_(Batch!vars)
<1>. DEFINE next == NextPending(savedSchedule)
<1>1. /\ pc = "loop" /\ next # None /\ economy.active \in {None, next} /\ schedule = savedSchedule
      /\ economy' = IF economy.active = next THEN economy
                    ELSE [economy EXCEPT !.active = next, !.recon = "CLEAR"]
      /\ UNCHANGED <<savedSchedule, state>>
  BY DEF BeginAttempt, IInv, SavedFits
<1>2. /\ next \in AllAttempts /\ Outcome(savedSchedule)[next] = "planned"
  <2>1. Fits(savedSchedule) /\ savedSchedule \in Schedules
    BY DEF IInv, Sound, Fits
  <2>. QED
    BY <1>1, <2>1, NextPendingFacts, OutcomeFacts
<1>3. state.status # "COMPLETED"
  BY <1>1 DEF IInv, CompletedFits
<1>. HIDE DEF next
<1>4. CASE economy.active = next
  <2>1. BatchUnchanged
    BY <1>1, <1>4 DEF BatchUnchanged
  <2>. QED
    BY <2>1, BatchStutters
<1>5. CASE economy.active # next
  <2>1. economy.active = None /\ economy'.active = next
    BY <1>1, <1>5 DEF IInv, Types, Economies
  <2>2. Batch!Begin(next)
    BY <1>1, <1>2, <1>3, <2>1 DEF Batch!Begin
  <2>3. Batch!Next
    BY <1>2, <2>2 DEF Batch!Next, Batch!Attempts, AllAttempts
  <2>. QED
    BY <2>3
<1>. QED
  BY <1>4, <1>5

LEMMA BatchSettles ==
  ASSUME IInv, NEW status \in Statuses, Finish(status)
  PROVE  [Batch!Next]_(Batch!vars)
<1>1. /\ economy' = [economy EXCEPT !.active = None] /\ UNCHANGED <<savedSchedule, state>>
      /\ economy.active # None
  BY DEF Finish, FinishFrom, IInv, WorkFits
<1>2. economy'.active = None
  BY <1>1 DEF IInv, Types, Economies
<1>3. Batch!Settle
  BY <1>1, <1>2 DEF Batch!Settle
<1>. QED
  BY <1>3 DEF Batch!Next

LEMMA BatchConcludes ==
  ASSUME IInv, WriteSchedule
  PROVE  [Batch!Next]_(Batch!vars)
<1>1. /\ savedSchedule' = schedule /\ UNCHANGED <<state, economy>> /\ pc = "ended"
      /\ economy.active = None /\ state.status # "COMPLETED" /\ Sound(savedSchedule)
  BY DEF WriteSchedule, IInv, WorkFits, CompletedFits
<1>2. PICK i \in Pending(savedSchedule), status \in Statuses :
        schedule = Record(savedSchedule, savedSchedule.attempts[i], status)
  BY <1>1 DEF IInv, SavedFits
<1>. DEFINE a == savedSchedule.attempts[i]
            old == Outcome(savedSchedule)
            new == Outcome(savedSchedule')
<1>3. /\ a \in AllAttempts /\ old[a] = "planned"
      /\ IF status = "COMPLETED" \/ DecidedIn(savedSchedule, a.cell)
         THEN new = [old EXCEPT ![a] = status]
         ELSE \E b \in ReplacementsIn(savedSchedule, a.cell) :
                 new = [old EXCEPT ![a] = status, ![b] = "planned"]
  BY <1>1, <1>2, OutcomeRecorded
<1>4. /\ Batch!Decided(a.cell) <=> DecidedIn(savedSchedule, a.cell)
      /\ Batch!Replacements(a.cell) = ReplacementsIn(savedSchedule, a.cell)
  BY BatchCounts
<1>. HIDE DEF a
<1>5. Batch!Conclude(a, status)
  BY <1>1, <1>3, <1>4 DEF Batch!Conclude
<1>6. a \in Batch!Attempts /\ status \in Batch!Results
  BY <1>3 DEF Batch!Attempts, Batch!Results, AllAttempts, Statuses
<1>. QED
  BY <1>5, <1>6 DEF Batch!Next

LEMMA BatchCompletes ==
  ASSUME IInv, CompleteBatch
  PROVE  [Batch!Next]_(Batch!vars)
<1>1. /\ pc = "loop" /\ schedule = savedSchedule /\ NextPending(savedSchedule) = None
      /\ savedSchedule' = savedSchedule /\ state'.status = "COMPLETED"
      /\ economy' = economy /\ state.status # "COMPLETED"
  BY DEF CompleteBatch, Stop, IInv, SavedFits, CompletedFits
<1>2. Sound(savedSchedule) /\ Fits(savedSchedule) /\ savedSchedule \in Schedules
  BY DEF IInv, Sound, Fits
<1>3. economy.active = None
  BY <1>1 DEF IInv, ActiveIsNext
<1>4. \A a \in AllAttempts : Outcome(savedSchedule)[a] # "planned"
  BY <1>1, <1>2, NextPendingFacts, OutcomeFacts
<1>5. ASSUME NEW c \in Cells
      PROVE  Batch!Decided(c)
  <2>1. Complete(savedSchedule, c) \/ Exhausted(savedSchedule, c)
    BY <1>1, <1>2, CompletedWhenNothingPends
  <2>2. DecidedIn(savedSchedule, c)
    BY <1>2, <2>1, OutcomesCounted DEF DecidedIn, Complete, Exhausted
  <2>. QED
    BY <2>2, BatchCounts
<1>6. Batch!Complete
  BY <1>1, <1>3, <1>4, <1>5 DEF Batch!Complete, Batch!Attempts, AllAttempts
<1>. QED
  BY <1>6 DEF Batch!Next

(* A step that only works on the attempt, or ends the session without         *)
(* completing the batch, is not seen.                                         *)
LEMMA BatchStops ==
  ASSUME IInv, pc # "stopped", pc # "ended", economy'.active = economy.active,
         NEW status, status # "COMPLETED", Stop(status)
  PROVE  BatchUnchanged
<1>1. /\ savedSchedule' = schedule /\ schedule = savedSchedule /\ state'.status = status
      /\ state.status # "COMPLETED"
  BY DEF Stop, IInv, SavedFits, CompletedFits
<1>. QED
  BY <1>1 DEF BatchUnchanged

LEMMA BatchWorks ==
  ASSUME IInv, Recover \/ PrepareWorkspace \/ Reserve
  PROVE  BatchUnchanged
<1>1. economy'.active = economy.active
  BY DEF Recover, PrepareWorkspace, Reserve, Stop, IInv, Types, Economies
<1>2. CASE Recover
  BY <1>1, <1>2, BatchStops DEF Recover, BatchUnchanged
<1>3. CASE PrepareWorkspace
  BY <1>1, <1>3, BatchStops DEF PrepareWorkspace, BatchUnchanged
<1>4. CASE Reserve
  BY <1>1, <1>4 DEF Reserve, BatchUnchanged
<1>. QED
  BY <1>2, <1>3, <1>4

LEMMA BatchHears ==
  ASSUME IInv, Start \/ Answer \/ Lose \/ AnswerReissue
  PROVE  BatchUnchanged
<1>1. /\ pc \in {"reserved", "inflight"} /\ economy \in Economies /\ Last >= 1
      /\ economy.recon \in {"CLEAR", "UNCERTAIN_CONSUMED"}
      /\ \/ Start \/ Answer
         \/ (Lose \/ AnswerReissue) /\ Stop("BUDGET_PAUSED")
  BY DEF Start, Answer, AtDispatch, Lose, AnswerReissue, IInv, Types, WorkFits, Economies
<1>2. \E to \in {"STARTED", "ANSWERED", "MISSING"}, recon \in {"CLEAR", "UNCERTAIN_CONSUMED"} :
        \/ economy' = WithStateAnd(to, recon)
        \/ economy' = WithState(to) /\ recon = economy.recon
  BY <1>1 DEF Start, Answer, AtDispatch, Lose, AnswerReissue, WithState, WithStateAnd
<1>3. economy'.active = economy.active
  BY <1>1, <1>2, DispatchSet
<1>4. CASE Start \/ Answer
  BY <1>3, <1>4 DEF Start, Answer, AtDispatch, BatchUnchanged
<1>5. CASE Stop("BUDGET_PAUSED")
  BY <1>1, <1>3, <1>5, BatchStops
<1>. QED
  BY <1>1, <1>4, <1>5

LEMMA BatchPauses ==
  ASSUME IInv, \/ LogicalBudgetPause \/ RaiseOnTwoLost
               \/ EconomicPause \/ RateLimitPause \/ ExecutorRaises
  PROVE  BatchUnchanged
<1>1. /\ pc \in {"loop", "begun", "running"} /\ economy' = economy
      /\ \E status \in {"RUNNING", "BUDGET_PAUSED", "RATE_LIMIT_PAUSED"} : Stop(status)
  BY DEF LogicalBudgetPause, RaiseOnTwoLost, EconomicPause, RateLimitPause, ExecutorRaises,
         StopsRunning
<1>. QED
  BY <1>1, BatchStops

(* Writing the state, dying and resuming change nothing that the batch sees:  *)
(* only a batch that is not complete is resumed.                              *)
LEMMA BatchSurvives ==
  ASSUME IInv, WriteState \/ Crash \/ Resume \/ UNCHANGED vars
  PROVE  BatchUnchanged
BY DEF WriteState, Crash, Resume, vars, files, IInv, CompletedFits, BatchUnchanged

LEMMA BatchStep ==
  ASSUME IInv, [Next]_vars
  PROVE  [Batch!Next]_(Batch!vars)
<1>1. CASE BeginAttempt
  BY <1>1, BatchBegins
<1>2. CASE \E status \in Statuses : Finish(status)
  BY <1>2, BatchSettles
<1>3. CASE WriteSchedule
  BY <1>3, BatchConcludes
<1>4. CASE CompleteBatch
  BY <1>4, BatchCompletes
<1>5. CASE \/ Recover \/ PrepareWorkspace \/ Reserve
           \/ Start \/ Answer \/ Lose \/ AnswerReissue
           \/ LogicalBudgetPause \/ RaiseOnTwoLost
           \/ EconomicPause \/ RateLimitPause \/ ExecutorRaises
           \/ WriteState \/ Crash \/ Resume \/ UNCHANGED vars
  <2>1. BatchUnchanged
    BY <1>5, BatchWorks, BatchHears, BatchPauses, BatchSurvives
  <2>. QED
    BY <2>1, BatchStutters
<1>. QED
  BY <1>1, <1>2, <1>3, <1>4, <1>5 DEF Next, DriveBatch

(* Whatever dies when, the files of a batch go through its steps only: money  *)
(* held for one planned attempt at a time, one result for each, a replacement *)
(* for what did not count, and completion once every cell is decided.         *)
THEOREM BatchIsImplemented == Spec => FollowsBatch
<1>1. Init => Batch!Init
  BY BatchInit
<1>2. IInv /\ [Next]_vars => [Batch!Next]_(Batch!vars)
  BY BatchStep
<1>3. Spec => []IInv
  BY InvariantHolds
<1>4. Spec => Batch!Init /\ [][Batch!Next]_(Batch!vars)
  BY <1>1, <1>2, <1>3, PTL DEF Spec
<1>. QED
  BY <1>4 DEF FollowsBatch, Batch!Spec
================================================================================
