------------------------------- MODULE MCTick -------------------------------
(* A small instance of Tick: a book sweep that collapses cohorts, a        *)
(* renewal deadline and a health-band event with cooldowns, two accounts,  *)
(* three days.                                                             *)
EXTENDS Tick, TLC

CONSTANTS a1, a2, r1, r2

MCRule ==
    [sweep   |-> [kind |-> "schedule", lens |-> "ttv", scope |-> "book", every |-> 2,
                  cooldown |-> 0, within |-> 0, from |-> "*", to |-> "*"],
     renewal |-> [kind |-> "deadline", lens |-> "risk", scope |-> "account", every |-> 0,
                  cooldown |-> 0, within |-> 1, from |-> "*", to |-> "*"],
     band    |-> [kind |-> "event", lens |-> "risk", scope |-> "account", every |-> 0,
                  cooldown |-> 1, within |-> 0, from |-> "green", to |-> "*"]]

MCTriggers == DOMAIN MCRule

(* Account a1 drops from green on day 1 and recovers, a2 has no band and   *)
(* renews on day 2; on day 1 both share a play.                            *)
MCWorlds ==
    {[band    |-> [d \in Days |-> [a \in Accounts |->
                      IF a = a2 THEN "unknown" ELSE IF d = 1 THEN "red" ELSE "green"]],
      renewal |-> [a \in Accounts |-> IF a = a2 THEN 2 ELSE 9],
      cohort  |-> [d \in Days |-> IF d = 1 THEN Accounts ELSE {}]]}

MCSymmetry == Permutations(Runners)
=============================================================================
