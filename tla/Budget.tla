------------------------------- MODULE Budget -------------------------------
(***************************************************************************)
(* The pool the operators of a run reserve their memory from               *)
(* (fossil_exec::memory::Budget): a count that neither wraps nor is locked,*)
(* a request that may be refused beside one that may not be, and the first *)
(* refusal, kept under a lock of its own for the run to report.            *)
(***************************************************************************)
EXTENDS Integers

CONSTANTS
    N,          \* the operators' reservations, 1 .. N
    Limit,      \* the budget
    Word,       \* usize::MAX
    Requests,   \* the sizes asked for and given back
    NoRefusal

ASSUME BudgetAssumption ==
    /\ N \in Nat \ {0} /\ Limit \in Nat /\ Word \in Nat /\ Limit <= Word
    /\ Requests \subseteq Nat \ {0}
    /\ NoRefusal \notin [consumer : 1 .. N, requested : Nat, reserved : Nat]

VARIABLES
    used,       \* Budget.used
    refused,    \* Budget.refused
    held,       \* DataFusion's: what each reservation has
    refusing,   \* the refusal try_grow is about to keep for a reservation
    exhausted,  \* the reservations that were answered ResourcesExhausted
    upto,       \* what the first of them have together, upto[N] all of them (history)
    past        \* they once had more than a word counts (history)

pool == <<used, refused, held, refusing, exhausted, upto, past>>

Consumers == 1 .. N
total == upto[N]

Denial == [consumer : Consumers, requested : Nat, reserved : Nat]

BudgetInit ==
    /\ used = 0 /\ past = FALSE /\ upto = [i \in 0 .. N |-> 0]
    /\ refused = NoRefusal
    /\ held = [k \in Consumers |-> 0]
    /\ refusing = [k \in Consumers |-> NoRefusal]
    /\ exhausted = {}

Waiting(k) == refusing[k] # NoRefusal

\* Memory is what a reservation has, whatever the pool counts.
Reserves(k, n) ==
    /\ held' = [held EXCEPT ![k] = n]
    /\ upto' = [i \in 0 .. N |-> IF i < k THEN upto[i] ELSE upto[i] + n - held[k]]
    /\ past' = (past \/ total' > Word)

\* Mutant: what is asked for is not part of what must fit.
FitsBefore(n) == used < Limit

\* checked_add, then the limit: an update that finds room for all of it or changes nothing.
Fits(n) == used + n <= Word /\ used + n <= Limit

TryGrow(k, n) ==
    /\ ~Waiting(k)
    /\ \/ /\ Fits(n)
          /\ used' = used + n
          /\ Reserves(k, held[k] + n)
          /\ UNCHANGED <<refused, refusing, exhausted>>
       \/ /\ ~Fits(n)
          /\ refusing' = [refusing EXCEPT ![k] = [consumer |-> k, requested |-> n, reserved |-> used]]
          /\ UNCHANGED <<used, refused, held, exhausted, upto, past>>

\* The lock is taken after the update failed: others may have asked, and been refused, between.
Keep(k) ==
    /\ Waiting(k)
    /\ refused' = IF refused = NoRefusal THEN refusing[k] ELSE refused
    /\ refusing' = [refusing EXCEPT ![k] = NoRefusal]
    /\ exhausted' = exhausted \cup {k}
    /\ UNCHANGED <<used, held, upto, past>>

\* saturating_add: this request is granted whatever the budget.
Grow(k, n) ==
    /\ ~Waiting(k)
    /\ used' = IF used + n > Word THEN Word ELSE used + n
    /\ Reserves(k, held[k] + n)
    /\ UNCHANGED <<refused, refusing, exhausted>>

\* Mutant: the reservation keeps what the pool no longer counts.
ShrinkCount(k, n) ==
    /\ ~Waiting(k) /\ n <= held[k]
    /\ used' = IF n > used THEN 0 ELSE used - n
    /\ UNCHANGED <<refused, held, refusing, exhausted, upto, past>>

\* saturating_sub, of no more than the reservation has.
Shrink(k, n) ==
    /\ ~Waiting(k) /\ n <= held[k]
    /\ used' = IF n > used THEN 0 ELSE used - n
    /\ Reserves(k, held[k] - n)
    /\ UNCHANGED <<refused, refusing, exhausted>>

BudgetNext ==
    \E k \in Consumers :
        \/ Keep(k)
        \/ \E n \in Requests : TryGrow(k, n) \/ Grow(k, n) \/ Shrink(k, n)

BudgetSpec == BudgetInit /\ [][BudgetNext]_pool

-----------------------------------------------------------------------------

BudgetTypeOK ==
    /\ used \in 0 .. Word /\ upto \in [0 .. N -> Nat] /\ past \in BOOLEAN
    /\ refused \in Denial \cup {NoRefusal}
    /\ held \in [Consumers -> Nat]
    /\ refusing \in [Consumers -> Denial \cup {NoRefusal}]
    /\ exhausted \subseteq Consumers

\* The history is what it says.
Summed ==
    /\ upto[0] = 0
    /\ \A k \in Consumers : upto[k] = upto[k - 1] + held[k]
    /\ \A i, j \in 0 .. N : i <= j => upto[i] <= upto[j]

\* The pool never counts more than is held, and counts all of it as long as that fits a word.
Counted == used <= total /\ (~past => used = total)

\* A refusal names what could not be had: the request and what was counted are past the budget.
Due(r) == r.requested + r.reserved > Limit

\* Nothing is refused for room that was there, and whoever was told so left a refusal to report.
Refusals ==
    /\ refused # NoRefusal => Due(refused)
    /\ \A k \in Consumers : refusing[k] # NoRefusal => Due(refusing[k])
    /\ exhausted # {} => refused # NoRefusal

\* The pool counts what is held, and what it refuses was past the budget (memory.rs:172).
BudgetCounted == BudgetTypeOK /\ Summed /\ Counted /\ Refusals

\* A request that may be refused never takes what is held past the budget while the count is
\* true, it is refused only when it would, and the refusal a run reports is never replaced.
BudgetKept ==
    /\ \A k \in Consumers, n \in Requests :
         TryGrow(k, n) =>
            /\ total' # total /\ ~past => total' <= Limit
            /\ total' = total => total + n > Limit
    /\ refused # NoRefusal => refused' = refused

BudgetKeeps == [][BudgetKept]_pool
=============================================================================
