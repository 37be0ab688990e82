----------------------------- MODULE PoolLedger -----------------------------
(***************************************************************************)
(* What the payment side of the pool promises to whoever reads its         *)
(* database: blocks are found, then confirmed or orphaned for good; a      *)
(* confirmation credits balances in the same step; balances only shrink    *)
(* when a payment is booked, and never below the tolerated overdraft.      *)
(* Crashes, retries, failed calls and the daemon do not appear.            *)
(***************************************************************************)
EXTENDS Integers

CONSTANTS
    Blocks,          \* rows of table blocks
    Addresses,       \* addresses that have balances
    TwiceOverdraft   \* twice the amount a balance may fall below zero

VARIABLES
    status,          \* block -> its status
    balance,         \* address -> its balance
    credited,        \* address -> all it was credited with
    reset            \* address -> all that was booked as paid

ledger == <<status, balance, credited, reset>>

Zeros == [a \in Addresses |-> 0]

Init ==
    /\ status = [b \in Blocks |-> "none"]
    /\ balance = Zeros /\ credited = Zeros /\ reset = Zeros

Find(b) ==
    /\ status[b] = "none"
    /\ status' = [status EXCEPT ![b] = "pending"]
    /\ UNCHANGED <<balance, credited, reset>>

Orphan(b) ==
    /\ status[b] = "pending"
    /\ status' = [status EXCEPT ![b] = "orphaned"]
    /\ UNCHANGED <<balance, credited, reset>>

\* The credits of a block and its confirmation are one step.
Confirm(b) ==
    /\ status[b] = "pending"
    /\ status' = [status EXCEPT ![b] = "confirmed"]
    /\ balance' = [a \in Addresses |-> balance[a] + (credited'[a] - credited[a])]
    /\ \A a \in Addresses : credited'[a] >= credited[a]
    /\ UNCHANGED reset

\* A payment is booked for some addresses.
Withdraw ==
    /\ balance' = [a \in Addresses |-> balance[a] - (reset'[a] - reset[a])]
    /\ \A a \in Addresses :
        /\ reset'[a] >= reset[a]
        /\ reset'[a] > reset[a] => balance[a] > 0 /\ 2 * balance'[a] >= -TwiceOverdraft
    /\ UNCHANGED <<status, credited>>

Next == (\E b \in Blocks : Find(b) \/ Orphan(b) \/ Confirm(b)) \/ Withdraw

Spec == Init /\ [][Next]_ledger
=============================================================================
