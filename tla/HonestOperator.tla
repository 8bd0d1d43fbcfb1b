--------------------------- MODULE HonestOperator ---------------------------
(***************************************************************************)
(* The program driven by the operator service instead of by any key that   *)
(* holds the operator role. The service's `decide` (operator/tick.ts) adds *)
(* conditions of its own before it sends begin_epoch and create_round;     *)
(* everybody else still does whatever the program lets them. The service   *)
(* signs with a real key: while the admin has the role at Pubkey::default, *)
(* nobody can send its instructions.                                       *)
(***************************************************************************)
EXTENDS HexVault

\* The epoch before the current one is over for good, or there is none.
PreviousDone ==
  pool.current_epoch_id >= 2 =>
    epochs[pool.current_epoch_id - 1].status \in {"Paid", "RolledOver"}

\* No epoch begins over an open round or an unfinished draw.
operator_begin_epoch ==
  /\ pool.operator \in Keys
  /\ pool.open_round_id = 0
  /\ PreviousDone
  /\ begin_epoch(pool.operator)

\* Rounds start now, and only inside an epoch.
operator_create_round ==
  /\ pool.operator \in Keys
  /\ pool.current_epoch_id > 0
  /\ create_round(pool.operator, now)

\* The service closes only the epoch before the current one. It also waits for
\* a fresh read model and for every Player to be registered; leaving those
\* conditions out lets this action happen earlier than the service would.
operator_close_registration ==
  /\ pool.operator \in Keys
  /\ \E e \in EpochIds : e = pool.current_epoch_id - 1 /\ close_registration(pool.operator, e)

OperatedNext ==
  \/ Tick \/ CustodyNext
  \/ AnyoneEpochNext \/ FundingNext
  \/ PlayNext \/ AnyoneRoundNext
  \/ operator_begin_epoch \/ operator_create_round \/ operator_close_registration

OperatedSpec == Init /\ [][OperatedNext]_vars
=============================================================================
