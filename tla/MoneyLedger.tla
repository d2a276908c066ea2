----------------------------- MODULE MoneyLedger -----------------------------
(* What the file of the economic ledger promises its reader                  *)
(* (experimental/luna_budget.py): money is reserved for a request before it   *)
(* is sent, the request is charged once and within its reservation, and each  *)
(* write moves the money of one entry: reserved, spent as it was charged,     *)
(* written off whole, or, when nothing was sent for it, given back.           *)
EXTENDS Integers

CONSTANTS
    Keys,            \* the entries
    Prices,          \* worst-case costs of a request
    GlobalCeilings,  \* ceilings an operator sets
    None

VARIABLES
    book,  \* ceiling, spent, lost and reserved money, the entries
    bill   \* by entry: what the provider charged, None before it was sent

Total(b) == b.spent + b.lost + b.reserved

Init ==
    /\ \E g \in GlobalCeilings :
          book = [ceiling |-> g, spent |-> 0, lost |-> 0, reserved |-> 0,
                  ledger |-> [k \in Keys |-> [status |-> "NONE", cost |-> 0]]]
    /\ bill = [k \in Keys |-> None]

Idle(old, new) ==
    /\ new.spent = old.spent /\ new.lost = old.lost /\ new.reserved = old.reserved
    /\ new.ledger = old.ledger

(* A reissue, which there is only after a loss, may reserve for its entry      *)
(* once more.                                                                 *)
Reserve(old, new, k, c) ==
    /\ old.ledger[k].status = "NONE" \/ (old.ledger[k].status = "RESERVED" /\ old.lost > 0)
    /\ bill[k] = None
    /\ new.ledger = [old.ledger EXCEPT ![k] = [status |-> "RESERVED", cost |-> c]]
    /\ new.reserved = old.reserved + c
    /\ new.spent = old.spent /\ new.lost = old.lost

Settles(old, new, k, status) ==
    /\ old.ledger[k].status = "RESERVED"
    /\ new.ledger = [old.ledger EXCEPT ![k].status = status]
    /\ new.reserved = old.reserved - old.ledger[k].cost
Account(old, new, k) ==
    /\ bill[k] # None /\ Settles(old, new, k, "ACCOUNTED")
    /\ new.spent = old.spent + bill[k] /\ new.lost = old.lost
WriteOff(old, new, k) ==
    /\ bill[k] # None /\ Settles(old, new, k, "UNCERTAIN_CONSUMED")
    /\ new.lost = old.lost + old.ledger[k].cost /\ new.spent = old.spent
Release(old, new, k) ==
    /\ bill[k] = None /\ Settles(old, new, k, "RELEASED")
    /\ new.spent = old.spent /\ new.lost = old.lost

(* A reservation that was given back before the file ever knew of it.         *)
Forget(old, new, k, c) ==
    /\ old.ledger[k].status = "NONE" /\ bill[k] = None
    /\ new.ledger = [old.ledger EXCEPT ![k] = [status |-> "RELEASED", cost |-> c]]
    /\ new.spent = old.spent /\ new.lost = old.lost /\ new.reserved = old.reserved

Moves(old, new) ==
    \/ Idle(old, new)
    \/ \E k \in Keys, c \in Prices : Reserve(old, new, k, c) \/ Forget(old, new, k, c)
    \/ \E k \in Keys : Account(old, new, k) \/ WriteOff(old, new, k) \/ Release(old, new, k)

Write ==
    /\ Moves(book, book') /\ book.ceiling <= book'.ceiling /\ Total(book') <= book'.ceiling
    /\ UNCHANGED bill

Send(k, c) ==
    /\ book.ledger[k].status = "RESERVED" /\ bill[k] = None /\ c <= book.ledger[k].cost
    /\ bill' = [bill EXCEPT ![k] = c]
    /\ UNCHANGED book

Next == Write \/ \E k \in Keys, c \in 0..book.ceiling : Send(k, c)
Spec == Init /\ [][Next]_<<book, bill>>
===============================================================================
