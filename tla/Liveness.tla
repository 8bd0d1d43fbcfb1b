------------------------------ MODULE Liveness ------------------------------
(***************************************************************************)
(* What must eventually happen although the operator may be gone. Every     *)
(* step these properties wait for needs no particular signer: any wallet   *)
(* may send it, so somebody who is waiting for it eventually does. The     *)
(* clock runs. Nothing is assumed of the operator, the admin or ORAO.      *)
(*                                                                         *)
(* The clock of a bounded model stops at MaxTime, so what starts a timeout *)
(* may only happen while there is time left for it to expire.              *)
(***************************************************************************)
EXTENDS HonestOperator

TimeLeftFor(seconds) == now + seconds < MaxTime

\* Bound: the pool is paused, and resumed, only while a request is pending and
\* the game has not opened.
SomebodyWaits == pool.game_paused /\ \E p \in Owners : players[p].pending_withdraw > 0

LiveNext ==
  \/ Tick
  \/ \E s \in Keys, feature \in {"Game", "Jackpot"} : set_feature_pause(s, feature, FALSE)
  \/ SomebodyWaits /\ \E s \in Keys, on \in BOOLEAN : set_pause(s, on)
  \/ \E p \in Owners, amount \in Amounts :
       \/ ~players[p].live /\ deposit(p, amount)
       \/ TimeLeftFor(params.epoch_seconds) /\ request_withdraw(p, amount)
  \/ \E p \in Players : process_withdraw(p)
  \/ \E amount \in Amounts : tokens.jackpot_vault = 0 /\ fund_jackpot(amount)
  \/ TimeLeftFor(params.registration_window + params.vrf_timeout) /\ operator_begin_epoch
  \/ TimeLeftFor(params.vrf_timeout) /\ operator_close_registration
  \/ AnyoneEpochNext
  \/ TimeLeftFor(params.round_seconds + params.vrf_timeout) /\ operator_create_round
  \/ PlayNext
  \/ \E r \in RoundIds :
       \/ TimeLeftFor(params.vrf_timeout) /\ request_round_randomness(r)
       \/ FulfillRound(r)
       \/ \E tile \in Tiles : settle_round(r, tile)
       \/ void_round(r)
       \/ close_round(r)

\* While no principal is lent out, every requested withdrawal is paid, whether
\* or not another epoch ever begins, although adding to the request restarts its
\* deadline and whether or not the pool is paused (custody.rs:553, the escape
\* hatch).
WithdrawalsArePaid ==
  \A p \in Players : players[p].pending_withdraw > 0 ~> players[p].pending_withdraw = 0

\* While the jackpot is not paused, an epoch that began registering ends up
\* Paid or RolledOver, even if the operator never closes its registration and
\* ORAO never answers, or answers just as the timeout passes (rollover_epoch).
EpochsResolve ==
  \A e \in EpochIds :
    epochs[e].status \in {"Registering", "Drawing", "Drawn"}
      ~> epochs[e].status \in {"Paid", "RolledOver"}

\* An open round always finishes, every position in it settles and its account
\* is reclaimed, whether its randomness was never requested, never answered,
\* or answered just as the timeout passes (void_round).
RoundsFinish ==
  \A r \in RoundIds : rounds[r].status = "Open" ~> rounds[r].status = "Closed"
=============================================================================
