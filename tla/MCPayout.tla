------------------------------ MODULE MCPayout ------------------------------
(* Instances of Payout for TLC. *)
EXTENDS Payout

\* Two blocks of different value.
MCReward == [b \in Blocks |-> IF b = 1 THEN 4 ELSE 12]
\* Rewards for the liveness runs: one and two minimum payments.
MCRewardLiveness == [b \in Blocks |-> 2 * b]
\* A quarter of every reward is owed to each recipient; the pool's own share
\* stays in its wallet, the rest is for the miners.
MCPercentage == [r \in Recipients |-> 25]
=============================================================================
