----------------------------- MODULE MCServices -----------------------------
(* The operator service and the indexer, each in two slices chosen at the     *)
(* start so that their states add up instead of multiplying. A slice leaves    *)
(* the other service's state alone.                                           *)
EXTENDS Operator, Indexer

CONSTANTS ann, bob, alice, r1
VARIABLE part

\* Slice "calendar": rounds and epochs on time, late and never answered, the
\* pool shut down at any moment, the read model always current. One depositor,
\* who is there from the start.
CalendarNext ==
  \/ (tick.pc = "idle" /\ PassSynced) \/ (tick.pc \in {"idle", "begin"} /\ LookNow)
  \/ OracleAnswers \/ DeadlineFires \/ DecideNext \/ (tick.pc = "idle" /\ Shutdown)

Calendar == chain = [OperatorChain(TRUE, TRUE) EXCEPT !.joined[ann] = 1]

\* Slice "registration": the game is paused, the read model lags and stalls; bob
\* is there from the start, ann deposits at any time.
RegistrationNext ==
  \/ Pass /\ tick.pc \in {"idle", "register", "closereg", "end"}
  \/ /\ chain.prev.st \in {"None", "Registering"}
     /\ \/ /\ tick.pc \in {"idle", "register", "closereg"}
           /\ (Snapshot /\ walk.age > 0) \/ Commit \/ Deposit(ann)
        \/ (tick.pc = "idle" /\ Restart) \/ DeadlineFires \/ DecideNext

Registration == chain = [OperatorChain(FALSE, TRUE) EXCEPT !.joined[bob] = 1]

RoundOpen == <<[op |-> "open", acct |-> r1, principal |-> 0]>>
Boots == {<<>>, RoundOpen}
Of(kinds) == \E op \in kinds, a \in Accounts : Transact(op, a)

\* Slice "events": the socket and catch-up hand over the same transactions,
\* across a crash.
EventsNext ==
  \/ Of({"deposit", "withdraw"}) \/ (Now = 0 /\ Of({"failed"})) \/ Finalize
  \/ Deliver("finalized") \/ Lose("finalized") \/ Crash
  \/ LiveIngest \/ CatchUpStep \/ CatchUpDone \/ CatchUpList
  \/ \E p \in Owners : bindReferral(p)
  \/ (SweepFetch /\ sweep'.slot = Now /\ sweep'.full) \/ (SweepPage /\ sweep'.pc # "idle")
  \/ SweepRounds \/ SweepClose \/ SweepPlayers \/ SweepReconcile \/ SweepPositions

\* Slice "mirror": the log path and the sweep write the same rows. Only the
\* listing of catch-up looks at finality, so it advances just before.
MirrorNext ==
  \/ Of({"deposit", "move"}) \/ (sweep.pc = "list" /\ Finalize)
  \/ Deliver("confirmed") \/ Lose("confirmed")
  \/ RefreshRead \/ ApplyAccount \/ NoteFresh \/ RefreshDone
  \/ SweepNext \/ CatchUpStep \/ CatchUpDone

ServicesInit ==
  /\ \/ part = "calendar" /\ Calendar /\ txs = <<>>
     \/ part = "registration" /\ Registration /\ txs = <<>>
     \/ part = "events" /\ Calendar /\ txs = <<>>
     \/ part = "mirror" /\ Calendar /\ txs = RoundOpen
  /\ Init /\ OperatorBoot
ServicesNext ==
  /\ UNCHANGED part
  /\ \/ part = "calendar" /\ CalendarNext /\ UNCHANGED vars
     \/ part = "registration" /\ RegistrationNext /\ UNCHANGED vars
     \/ part = "events" /\ EventsNext /\ UNCHANGED operatorVars
     \/ part = "mirror" /\ MirrorNext /\ UNCHANGED operatorVars
ServicesSpec == ServicesInit /\ [][ServicesNext]_<<operatorVars, vars, part>>
=============================================================================
