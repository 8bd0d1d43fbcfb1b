------------------------------ MODULE MCIndexer ------------------------------
(* The indexer under fairness, in two slices by what the first transactions   *)
(* were: rounds and positions, or a depositor's Principal.                    *)
EXTENDS Indexer

CONSTANTS alice, r1
VARIABLE slice

RoundOpen == <<[op |-> "open", acct |-> r1, principal |-> 0]>>
Deposited == <<[op |-> "failed", acct |-> r1, principal |-> 0],
               [op |-> "deposit", acct |-> alice, principal |-> 1]>>
LiveBoot == {RoundOpen, Deposited}

Of(kinds) == \E op \in kinds, a \in Accounts : Transact(op, a)

SliceInit == Init /\ slice = IF txs = RoundOpen THEN "mirror" ELSE "events"

LiveNext ==
  /\ UNCHANGED slice
  /\ \/ sweep.pc = "list" /\ Finalize
     \/ slice = "mirror" /\ (Of({"buy", "settle", "close"}) \/ (Now = 1 /\ Of({"move"})))
     \/ slice = "events" /\ (Of({"deposit", "withdraw"}) \/ \E p \in Owners : bindReferral(p))
     \/ Deliver("confirmed") \/ Lose("confirmed")
     \/ RefreshRead \/ ApplyAccount \/ NoteFresh \/ RefreshDone
     \/ SweepFetch \/ (SweepPage /\ sweep'.pc # "idle")
     \/ SweepRounds \/ SweepClose \/ SweepPlayers \/ SweepReconcile \/ SweepPositions
     \/ CatchUpList \/ CatchUpStep \/ CatchUpDone
LiveSliceSpec == SliceInit /\ [][LiveNext]_<<vars, slice>> /\ Fairness
=============================================================================
