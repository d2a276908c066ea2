---------------------------- MODULE BenchmarkBatch ----------------------------
(* What a batch promises of its durable state, wherever its processes die:    *)
(* the money is held for one attempt at a time, and for a planned one; an     *)
(* attempt gets its result once, when its money is settled; one that did not  *)
(* count is replaced, by an attempt of a repetition that is still without a   *)
(* valid run, until its cell is decided; and the batch is complete, for good, *)
(* when every cell is decided and nothing planned is left.                    *)
EXTENDS Integers, FiniteSets

CONSTANTS Cells, Target, MaxAttempts, None

VARIABLES
    outcome,   \* of each attempt: not planned, planned, or its result
    active,    \* the attempt the ledger holds money for
    complete

vars == <<outcome, active, complete>>

Results == {"COMPLETED", "BLOCKED"}
Attempts == [cell: Cells, rep: 0..(Target - 1), nth: 1..MaxAttempts]

Planned(c) == {a \in Attempts : a.cell = c /\ outcome[a] # "unplanned"}
Valid(c) == {a \in Attempts : a.cell = c /\ outcome[a] = "COMPLETED"}
Decided(c) == Cardinality(Valid(c)) >= Target \/ Cardinality(Planned(c)) >= MaxAttempts

Init ==
    /\ outcome = [a \in Attempts |-> IF a.nth = a.rep + 1 THEN "planned" ELSE "unplanned"]
    /\ active = None /\ complete = FALSE

Begin(a) ==
    /\ ~complete /\ active = None /\ outcome[a] = "planned"
    /\ active' = a
    /\ UNCHANGED <<outcome, complete>>

(* The money is settled before the result is written; a process that dies in  *)
(* between leaves the attempt to be done again.                               *)
Settle ==
    /\ active # None /\ active' = None
    /\ UNCHANGED <<outcome, complete>>

Replacements(c) ==
    {b \in Attempts : /\ b.cell = c /\ b.nth = Cardinality(Planned(c)) + 1
                      /\ \A a \in Valid(c) : a.rep # b.rep}
Conclude(a, result) ==
    /\ ~complete /\ active = None /\ outcome[a] = "planned"
    /\ IF result = "COMPLETED" \/ Decided(a.cell)
       THEN outcome' = [outcome EXCEPT ![a] = result]
       ELSE \E b \in Replacements(a.cell) :
               outcome' = [outcome EXCEPT ![a] = result, ![b] = "planned"]
    /\ UNCHANGED <<active, complete>>

Complete ==
    /\ ~complete /\ active = None
    /\ \A c \in Cells : Decided(c)
    /\ \A a \in Attempts : outcome[a] # "planned"
    /\ complete' = TRUE
    /\ UNCHANGED <<outcome, active>>

Next ==
    \/ \E a \in Attempts : Begin(a) \/ \E result \in Results : Conclude(a, result)
    \/ Settle \/ Complete

Spec == Init /\ [][Next]_vars
===============================================================================
