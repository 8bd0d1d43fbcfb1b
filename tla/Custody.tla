------------------------------ MODULE Custody ------------------------------
(***************************************************************************)
(* Pool lifecycle and Principal custody (custody.rs). One action per       *)
(* instruction; `s` is the signing key where the Accounts struct or the    *)
(* handler checks one. Instructions without a signer, or that any wallet   *)
(* may send, take the Player they act on.                                  *)
(***************************************************************************)
EXTENDS PoolState

-----------------------------------------------------------------------------
(* Roles, parameters and switches                                          *)

\* The optional arguments are applied field by field and the combined checks
\* run on the result, so the step is described by the parameter set it ends in.
set_params(s, v) ==
  /\ s = pool.admin
  /\ ValidParams(v)
  /\ v.payout_timeout < v.epoch_seconds
  /\ v.round_seconds > v.close_buffer
  /\ params' = v
  /\ UNCHANGED <<now, pool, players, epochs, rounds, positions, tokens>>

\* Mutant: shutdown does not bar unpausing.
MaySwitch_after_shutdown(s, on) == s = pool.admin \/ (on /\ s = pool.operator)

\* Pausing takes the admin or the operator, unpausing the admin alone, and
\* nothing is unpaused after shutdown.
MaySwitch(s, on) ==
  /\ s = pool.admin \/ (on /\ s = pool.operator)
  /\ on \/ ~pool.shutdown

set_pause(s, on) ==
  /\ MaySwitch(s, on)
  /\ pool' = [pool EXCEPT !.paused = on]
  /\ UNCHANGED <<now, params, players, epochs, rounds, positions, tokens>>

set_feature_pause(s, feature, on) ==
  /\ MaySwitch(s, on)
  /\ pool' = IF feature = "Game"
             THEN [pool EXCEPT !.game_paused = on]
             ELSE [pool EXCEPT !.jackpot_paused = on]
  /\ UNCHANGED <<now, params, players, epochs, rounds, positions, tokens>>

shutdown(s) ==
  /\ s = pool.admin
  /\ ~pool.shutdown
  /\ pool' = [pool EXCEPT !.shutdown = TRUE, !.paused = TRUE,
                          !.game_paused = TRUE, !.jackpot_paused = TRUE]
  /\ UNCHANGED <<now, params, players, epochs, rounds, positions, tokens>>

set_operator(s, k) ==
  /\ s = pool.admin
  /\ pool' = [pool EXCEPT !.operator = k]
  /\ UNCHANGED <<now, params, players, epochs, rounds, positions, tokens>>

propose_admin(s, k) ==
  /\ s = pool.admin
  /\ pool' = [pool EXCEPT !.pending_admin = k]
  /\ UNCHANGED <<now, params, players, epochs, rounds, positions, tokens>>

accept_admin(s) ==
  /\ pool.pending_admin # NoKey
  /\ s = pool.pending_admin
  /\ pool' = [pool EXCEPT !.admin = pool.pending_admin, !.pending_admin = NoKey]
  /\ UNCHANGED <<now, params, players, epochs, rounds, positions, tokens>>

-----------------------------------------------------------------------------
(* Principal                                                               *)

deposit(p, amount) ==
  LET plr == touch(init_if_fresh(players[p]), pool, now) IN
  /\ p # House
  /\ ~pool.shutdown
  /\ ~pool.paused
  /\ amount >= params.min_deposit
  /\ InflowFits(amount)
  /\ tokens' = [tokens EXCEPT !.principal_vault = @ + amount]
  /\ players' = [players EXCEPT ![p] =
                   [plr EXCEPT !.principal = @ + amount, !.entries = @ + amount]]
  /\ pool' = [pool EXCEPT !.total_principal = @ + amount]
  /\ UNCHANGED <<now, params, epochs, rounds, positions>>

\* Books a withdrawal; the USDC moves in process_withdraw. A request on top
\* of a pending one merges into it and re-stamps its epoch and time.
request_withdraw(p, amount) ==
  LET plr == touch(players[p], pool, now) IN
  /\ players[p].live
  /\ amount > 0
  /\ plr.principal >= amount
  /\ pool.total_principal >= amount
  /\ players' = [players EXCEPT ![p] =
                   [plr EXCEPT !.principal        = @ - amount,
                               !.entries          = SatSub(@, amount),
                               !.pending_withdraw = @ + amount,
                               !.pending_epoch    = pool.current_epoch_id,
                               !.requested_at     = now]]
  /\ pool' = [pool EXCEPT !.total_principal     = @ - amount,
                          !.pending_withdrawals = @ + amount]
  /\ UNCHANGED <<now, params, epochs, rounds, positions, tokens>>

\* Mutant: no deadline, only the next epoch.
WithdrawalDue_next_epoch(p) ==
  pool.shutdown \/ pool.current_epoch_id > players[p].pending_epoch

\* A pending request has matured: shutdown, a later epoch, or a whole
\* epoch_seconds since the request.
WithdrawalDue(p) ==
  \/ pool.shutdown
  \/ pool.current_epoch_id > players[p].pending_epoch
  \/ now > players[p].requested_at + params.epoch_seconds

\* No signer: anyone may push a due payout to its owner.
process_withdraw(p) ==
  LET pending == players[p].pending_withdraw IN
  /\ pending > 0
  /\ WithdrawalDue(p)
  /\ tokens.principal_vault >= pending
  /\ pool.pending_withdrawals >= pending
  /\ tokens' = [tokens EXCEPT !.principal_vault = @ - pending]
  /\ players' = [players EXCEPT ![p].pending_withdraw = 0]
  /\ pool' = [pool EXCEPT !.pending_withdrawals = @ - pending]
  /\ UNCHANGED <<now, params, epochs, rounds, positions>>

\* Lends principal out; total_principal keeps counting it.
admin_withdraw(s, amount) ==
  /\ s = pool.admin
  /\ amount > 0
  /\ tokens.principal_vault >= amount
  /\ tokens.principal_vault - amount >= pool.pending_withdrawals
  /\ tokens' = [tokens EXCEPT !.principal_vault = @ - amount, !.admin = @ + amount]
  /\ UNCHANGED <<now, params, pool, players, epochs, rounds, positions>>

\* Bringing principal back, with or without what it earned, is a plain SPL
\* transfer no instruction stands behind.
return_principal(amount) ==
  /\ amount > 0
  /\ VaultFits(amount)
  /\ tokens' = [tokens EXCEPT !.principal_vault = @ + amount, !.admin = @ - amount]
  /\ UNCHANGED <<now, params, pool, players, epochs, rounds, positions>>

-----------------------------------------------------------------------------
(* Exit after shutdown                                                     *)

\* No signer: pays one Player's whole principal and pending, or nothing.
emergency_withdraw(p) ==
  LET plr   == touch(players[p], pool, now)
      total == plr.principal + plr.pending_withdraw
  IN
  /\ players[p].live
  /\ pool.shutdown
  /\ p # House
  /\ total > 0
  /\ tokens.principal_vault >= total
  /\ pool.total_principal >= plr.principal
  /\ pool.pending_withdrawals >= plr.pending_withdraw
  /\ players' = [players EXCEPT ![p] =
                   [plr EXCEPT !.principal = 0, !.entries = 0, !.pending_withdraw = 0]]
  /\ pool' = [pool EXCEPT !.total_principal     = @ - plr.principal,
                          !.pending_withdrawals = @ - plr.pending_withdraw]
  /\ tokens' = [tokens EXCEPT !.principal_vault = @ - total]
  /\ UNCHANGED <<now, params, epochs, rounds, positions>>

\* Mutant: pending withdrawals are not held back.
YieldSwept_from_pending ==
  MinOf(pool.yield_budget, SatSub(tokens.principal_vault, pool.total_principal))

\* Protocol money leaves for the treasury: the jackpot nobody is promised,
\* and the part of the yield budget above what depositors are owed.
YieldSwept ==
  MinOf(pool.yield_budget,
        SatSub(SatSub(tokens.principal_vault, pool.total_principal),
               pool.pending_withdrawals))

\* Mutant: the swept yield stays in the budget.
sweep_house_keeps_budget(s) ==
  LET jackpot == SatSub(tokens.jackpot_vault, pool.jackpot_reserved) IN
  /\ s = pool.admin
  /\ pool.shutdown
  /\ tokens' = [tokens EXCEPT !.jackpot_vault   = @ - jackpot,
                              !.principal_vault = @ - YieldSwept,
                              !.treasury        = @ + jackpot + YieldSwept]
  /\ UNCHANGED <<now, params, pool, players, epochs, rounds, positions>>

sweep_house(s) ==
  LET jackpot == SatSub(tokens.jackpot_vault, pool.jackpot_reserved) IN
  /\ s = pool.admin
  /\ pool.shutdown
  /\ pool' = [pool EXCEPT !.yield_budget = @ - YieldSwept]
  /\ tokens' = [tokens EXCEPT !.jackpot_vault   = @ - jackpot,
                              !.principal_vault = @ - YieldSwept,
                              !.treasury        = @ + jackpot + YieldSwept]
  /\ UNCHANGED <<now, params, players, epochs, rounds, positions>>

-----------------------------------------------------------------------------
(* Tickets outside the game                                                *)

\* Mutant: the counter is never restarted.
CountedInEpoch_forever(stamp, counted, amount) == counted + amount

\* bought_amount_after and bonus_after: a per-epoch counter that restarts at
\* zero when its stamp is not the current epoch.
CountedInEpoch(stamp, counted, amount) ==
  (IF stamp = pool.current_epoch_id THEN counted ELSE 0) + amount

buy_tickets(p, amount) ==
  LET plr    == touch(players[p], pool, now)
      bought == CountedInEpoch(plr.bought_epoch, plr.bought_amount, amount)
  IN
  /\ players[p].live
  /\ ~pool.shutdown
  /\ ~pool.paused
  /\ pool.current_epoch_id > 0
  /\ ~pool.jackpot_paused
  /\ amount > 0
  /\ p # House
  /\ bought <= plr.principal
  /\ InflowFits(amount)
  /\ tokens' = [tokens EXCEPT !.jackpot_vault = @ + amount]
  /\ players' = [players EXCEPT ![p] =
                   [plr EXCEPT !.bought_epoch  = pool.current_epoch_id,
                               !.bought_amount = bought,
                               !.entries       = @ + amount * params.tickets_per_usdc]]
  /\ UNCHANGED <<now, params, pool, epochs, rounds, positions>>

pool_bonus_cap == (pool.total_principal * params.bonus_cap_bps) \div BPS_DENOMINATOR

\* The operator's path: capped per Player and pool-wide, never the House.
grant_tickets_operator(s, p, amount) ==
  LET plr      == touch(players[p], pool, now)
      byPlayer == CountedInEpoch(plr.bonus_epoch, plr.bonus_granted, amount)
      byPool   == CountedInEpoch(pool.bonus_epoch, pool.bonus_granted, amount)
  IN
  /\ players[p].live
  /\ s = pool.operator /\ s # pool.admin
  /\ ~pool.shutdown
  /\ ~pool.paused
  /\ ~pool.jackpot_paused
  /\ amount > 0
  /\ p # House
  /\ byPlayer <= plr.principal
  /\ byPool <= pool_bonus_cap
  /\ players' = [players EXCEPT ![p] =
                   [plr EXCEPT !.bonus_epoch   = pool.current_epoch_id,
                               !.bonus_granted = byPlayer,
                               !.entries       = @ + amount]]
  /\ pool' = [pool EXCEPT !.bonus_epoch = pool.current_epoch_id, !.bonus_granted = byPool]
  /\ UNCHANGED <<now, params, epochs, rounds, positions, tokens>>

\* The admin's path: uncapped (but for the model's bound), any Player.
grant_tickets_admin(s, p, amount) ==
  LET plr == touch(players[p], pool, now) IN
  /\ players[p].live
  /\ s = pool.admin
  /\ ~pool.shutdown
  /\ ~pool.paused
  /\ ~pool.jackpot_paused
  /\ amount > 0
  /\ plr.entries + amount <= MaxEntries
  /\ players' = [players EXCEPT ![p] = [plr EXCEPT !.entries = @ + amount]]
  /\ UNCHANGED <<now, params, pool, epochs, rounds, positions, tokens>>

\* The handler decides between the two by the signer, the admin first.
grant_tickets(s, p, amount) ==
  grant_tickets_operator(s, p, amount) \/ grant_tickets_admin(s, p, amount)

-----------------------------------------------------------------------------
AdminNext ==
  \E s \in Keys :
    \/ \E v \in ParamChoices : set_params(s, v)
    \/ \E on \in BOOLEAN : set_pause(s, on)
    \/ \E feature \in {"Game", "Jackpot"}, on \in BOOLEAN : set_feature_pause(s, feature, on)
    \/ shutdown(s)
    \/ \E k \in Keys \cup {NoKey} : set_operator(s, k) \/ propose_admin(s, k)
    \/ accept_admin(s)

DepositorNext ==
  \E p \in Players :
    \/ \E amount \in Amounts :
         deposit(p, amount) \/ request_withdraw(p, amount) \/ buy_tickets(p, amount)
    \/ process_withdraw(p)
    \/ emergency_withdraw(p)

TreasuryNext ==
  \/ \E s \in Keys, amount \in Amounts : admin_withdraw(s, amount)
  \/ \E amount \in Amounts : return_principal(amount)
  \/ \E s \in Keys : sweep_house(s)

GrantNext ==
  \E s \in Keys, p \in Players, amount \in Amounts :
    grant_tickets(s, p, amount)

CustodyNext == AdminNext \/ DepositorNext \/ TreasuryNext \/ GrantNext
=============================================================================
