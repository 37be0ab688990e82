------------------------------ MODULE ShareBook ------------------------------
(***************************************************************************)
(* What a pool promises to the accounting behind it: nothing is published  *)
(* twice under one key, and a header is recorded as a block of the pool at *)
(* most once, when the network has accepted it and it pays the pool.  One  *)
(* header may be published as a share under several keys.  Connections,    *)
(* jobs, lost answers and restarts do not appear.                          *)
(***************************************************************************)
EXTENDS Integers, Sequences

CONSTANTS
    Shares,         \* what miners can submit
    Key(_),         \* how a share is told from others
    Work(_),        \* the block header a share stands for
    PaysPool(_)     \* does the coinbase of a share pay the pool's address?

VARIABLES
    won,            \* shares the network has accepted as blocks
    journal         \* what was published, in order: the share, and whether as a block

book == <<won, journal>>

Init == won = {} /\ journal = <<>>

\* The network accepts a header, once.
Win(s) ==
    /\ won' = won \cup {s}
    /\ \A t \in won : Work(t) # Work(s)
    /\ UNCHANGED journal

\* A share is published, as a block only if it is one that is not recorded yet.
Publish(s, block) ==
    /\ journal' = Append(journal, [share |-> s, block |-> block])
    /\ \A i \in 1..Len(journal) : Key(journal[i].share) # Key(s)
    /\ block => /\ s \in won /\ PaysPool(s)
                /\ \A i \in 1..Len(journal) : journal[i].block => Work(journal[i].share) # Work(s)
    /\ UNCHANGED won

\* What changes says which of the two it is, so that TLC need not look for s in every
\* step that stutters.
Next ==
    \/ won' # won /\ \E s \in Shares : Win(s)
    \/ journal' # journal /\ \E s \in Shares, block \in BOOLEAN : Publish(s, block)

Spec == Init /\ [][Next]_book
=============================================================================
