------------------------------- MODULE Epochs -------------------------------
(***************************************************************************)
(* Epoch lifecycle (epochs.rs): begin, register, close, draw, payout or    *)
(* rollover, Base yield, and the money that funds both. begin_epoch and    *)
(* close_registration need the operator's signature; everything else may   *)
(* be sent by anyone.                                                      *)
(***************************************************************************)
EXTENDS PoolState

\* begin_epoch's hold: the epoch two behind the one it would create has a
\* winner still to be paid.
TwoBehindStillDrawing ==
  /\ pool.current_epoch_id >= 2
  /\ epochs[pool.current_epoch_id - 1].status \in {"Drawing", "Drawn"}

\* Start and end of the epoch begin_epoch would create now. The first one is
\* a stub from now to the next grid point; later ones are contiguous unless
\* the operator slept past a whole grid point.
NextStartsAt ==
  IF pool.current_epoch_id = 0
  THEN now
  ELSE MaxOf(epochs[pool.current_epoch_id].ends_at,
             grid_floor(params.epoch_anchor, params.epoch_seconds, now))

\* Mutant: one grid point too far.
NextEndsAt_skips_a_point ==
  grid_floor(params.epoch_anchor, params.epoch_seconds, NextStartsAt) + 2 * params.epoch_seconds

NextEndsAt ==
  grid_floor(params.epoch_anchor, params.epoch_seconds, NextStartsAt) + params.epoch_seconds

begin_epoch(s) ==
  LET e == pool.current_epoch_id IN
  /\ e < MaxEpoch
  /\ s = pool.operator
  /\ ~pool.shutdown
  /\ ~pool.jackpot_paused
  /\ ~TwoBehindStillDrawing
  /\ e > 0 => now >= epochs[e].ends_at
  /\ pool' = [pool EXCEPT !.previous_epoch_start   = pool.current_epoch_start,
                          !.current_epoch_start    = NextStartsAt,
                          !.previous_epoch_ends_at = pool.current_epoch_ends_at,
                          !.current_epoch_ends_at  = NextEndsAt,
                          !.current_epoch_id       = e + 1]
  /\ epochs' = [i \in EpochIds |->
                  CASE i = e     -> [epochs[i] EXCEPT !.status = "Registering",
                                                      !.registration_opened_at = now]
                    [] i = e + 1 -> [NoEpoch EXCEPT !.status = "Open",
                                                    !.starts_at = NextStartsAt,
                                                    !.ends_at = NextEndsAt]
                    [] OTHER     -> epochs[i]]
  /\ UNCHANGED <<now, params, players, rounds, positions, tokens>>

\* Mutant: more than the budget holds.
YieldCredit_uncapped(plr, e) ==
  IF plr.yield_epoch = e THEN 0
  ELSE yield_for(EpochPrincipalSeconds(plr, e, epochs[e]), params.base_rate_bps,
                 BPS_DENOMINATOR, SECONDS_PER_YEAR)

\* Base yield a registration credits: once per Player and epoch, never more
\* than the budget holds.
YieldCredit(plr, e) ==
  IF plr.yield_epoch = e THEN 0
  ELSE MinOf(yield_for(EpochPrincipalSeconds(plr, e, epochs[e]), params.base_rate_bps,
                       BPS_DENOMINATOR, SECONDS_PER_YEAR),
             pool.yield_budget)

\* credit_yield: the Player is touched only when a credit lands, and before it.
credit_yield(plr, e) ==
  LET credited == YieldCredit(plr, e)
      base     == IF credited > 0 THEN touch(plr, pool, now) ELSE plr
  IN [base EXCEPT !.principal   = @ + credited,
                  !.entries     = @ + credited,
                  !.yield_epoch = e]

\* Mutant: the count instead of the weight.
RegStart_count(e) == epochs[e].registered_count

\* Where the next registered interval begins.
RegStart(e) == epochs[e].registered_weight

\* Mutant: the guard dropped, a Player may register again.
Unregistered_unchecked(plr, e) == TRUE

\* A Player takes one interval per epoch.
Unregistered(plr, e) == plr.reg_epoch # e

\* A zero-weight registration still credits yield but takes no interval.
register(e, p) ==
  LET plr      == players[p]
      w        == EpochWeight(plr, e, epochs[e])
      credited == YieldCredit(plr, e)
      paid     == credit_yield(plr, e)
      from     == RegStart(e)
  IN
  /\ plr.live
  /\ epochs[e].status = "Registering"
  /\ pool.current_epoch_id > 0 /\ e = pool.current_epoch_id - 1
  /\ Unregistered(plr, e)
  /\ FrozenSlotMatches(plr, e)
  /\ pool' = [pool EXCEPT !.total_principal = @ + credited,
                          !.yield_budget    = @ - credited]
  /\ IF w = 0
     THEN /\ players' = [players EXCEPT ![p] = paid]
          /\ UNCHANGED epochs
     ELSE /\ players' = [players EXCEPT ![p] =
                           [paid EXCEPT !.reg_epoch = e,
                                        !.reg_start = from,
                                        !.reg_end   = from + w]]
          /\ epochs' = [epochs EXCEPT ![e] =
                          [epochs[e] EXCEPT !.registered_weight = from + w,
                                            !.registered_count  = @ + 1]]
  /\ UNCHANGED <<now, params, rounds, positions, tokens>>

fund_jackpot(amount) ==
  /\ InflowFits(amount)
  /\ tokens' = [tokens EXCEPT !.jackpot_vault = @ + amount]
  /\ UNCHANGED <<now, params, pool, players, epochs, rounds, positions>>

fund_yield(amount) ==
  /\ ~pool.shutdown
  /\ InflowFits(amount)
  /\ tokens' = [tokens EXCEPT !.principal_vault = @ + amount]
  /\ pool' = [pool EXCEPT !.yield_budget = @ + amount]
  /\ UNCHANGED <<now, params, players, epochs, rounds, positions>>

\* The window is measured from the later of the epoch's end and the moment
\* begin_epoch opened registration.
ClosesAt(e) ==
  MaxOf(epochs[e].registration_opened_at, epochs[e].ends_at) + params.registration_window

\* Mutant: the whole vault.
JackpotOnOffer_whole_vault == tokens.jackpot_vault

\* What the vault holds beyond the prizes other epochs were promised.
JackpotOnOffer == SatSub(tokens.jackpot_vault, pool.jackpot_reserved)

close_registration(s, e) ==
  LET prize == JackpotOnOffer IN
  /\ s = pool.operator
  /\ ~pool.shutdown
  /\ ~pool.jackpot_paused
  /\ epochs[e].status = "Registering"
  /\ now >= ClosesAt(e)
  /\ IF epochs[e].registered_weight = 0 \/ prize < params.min_jackpot
     THEN /\ epochs' = [epochs EXCEPT ![e] =
                          [@ EXCEPT !.status = "RolledOver", !.jackpot_amount = prize]]
          /\ UNCHANGED pool
     ELSE /\ epochs' = [epochs EXCEPT ![e] =
                          [@ EXCEPT !.status = "Drawing", !.jackpot_amount = prize,
                                    !.requested_at = now]]
          /\ pool' = [pool EXCEPT !.jackpot_reserved = @ + prize]
  /\ UNCHANGED <<now, params, players, rounds, positions, tokens>>

\* ORAO answers the epoch's request (external; it may never happen).
FulfillEpoch(e) ==
  /\ epochs[e].status = "Drawing"
  /\ ~epochs[e].fulfilled
  /\ epochs' = [epochs EXCEPT ![e] = [@ EXCEPT !.fulfilled = TRUE]]
  /\ UNCHANGED <<now, params, pool, players, rounds, positions, tokens>>

\* unbiased_u128 maps the randomness to some point below registered_weight.
draw(e, target) ==
  /\ epochs[e].status = "Drawing"
  /\ epochs[e].fulfilled
  /\ target < epochs[e].registered_weight
  /\ epochs' = [epochs EXCEPT ![e] =
                  [@ EXCEPT !.status = "Drawn", !.target = target, !.drawn_at = now]]
  /\ UNCHANGED <<now, params, pool, players, rounds, positions, tokens>>

\* The Player whose registered interval holds the drawn point.
IsWinner(e, p) ==
  /\ players[p].reg_epoch = e
  /\ players[p].reg_start <= epochs[e].target
  /\ epochs[e].target < players[p].reg_end

\* A House win pays 50% to the buyback reserve and 20% to the treasury; any
\* other prize compounds into the winner's Principal.
payout(e, p) ==
  LET amount == epochs[e].jackpot_amount
      plr    == touch(players[p], pool, now)
  IN
  /\ epochs[e].status = "Drawn"
  /\ IsWinner(e, p)
  /\ pool.jackpot_reserved >= amount
  /\ IF p = House
     THEN /\ tokens.jackpot_vault >= (amount \div 2) + (amount \div 5)
          /\ tokens' = [tokens EXCEPT
                          !.jackpot_vault   = @ - (amount \div 2) - (amount \div 5),
                          !.buyback_reserve = @ + (amount \div 2),
                          !.treasury        = @ + (amount \div 5)]
          /\ pool' = [pool EXCEPT !.jackpot_reserved = @ - amount]
          /\ UNCHANGED players
     ELSE /\ tokens.jackpot_vault >= amount
          /\ tokens' = [tokens EXCEPT !.jackpot_vault   = @ - amount,
                                      !.principal_vault = @ + amount]
          /\ players' = [players EXCEPT ![p] =
                           [plr EXCEPT !.principal = @ + amount, !.entries = @ + amount]]
          /\ pool' = [pool EXCEPT !.jackpot_reserved = @ - amount,
                                  !.total_principal  = @ + amount]
  /\ epochs' = [epochs EXCEPT ![e] = [@ EXCEPT !.status = "Paid", !.winner = p]]
  /\ UNCHANGED <<now, params, rounds, positions>>

\* Mutant: randomness that never comes is waited for.
RolloverDue_not_drawing(e) ==
  \/ /\ epochs[e].status = "Registering"
     /\ ~pool.jackpot_paused
     /\ now > ClosesAt(e) + params.vrf_timeout
  \/ /\ epochs[e].status = "Drawn"
     /\ now > epochs[e].drawn_at + params.payout_timeout

\* When anyone may give up on an epoch's draw: registration never closed, the
\* randomness never came, or the winner was never paid.
RolloverDue(e) ==
  \/ /\ epochs[e].status = "Registering"
     /\ ~pool.jackpot_paused
     /\ now > ClosesAt(e) + params.vrf_timeout
  \/ /\ epochs[e].status = "Drawing"
     /\ ~epochs[e].fulfilled
     /\ now > epochs[e].requested_at + params.vrf_timeout
  \/ /\ epochs[e].status = "Drawn"
     /\ now > epochs[e].drawn_at + params.payout_timeout

\* Mutant: the promised prize stays reserved.
rollover_epoch_keeps_reserve(e) ==
  /\ RolloverDue(e)
  /\ epochs' = [epochs EXCEPT ![e] = [@ EXCEPT !.status = "RolledOver"]]
  /\ UNCHANGED <<now, params, pool, players, rounds, positions, tokens>>

rollover_epoch(e) ==
  /\ RolloverDue(e)
  /\ pool.jackpot_reserved >= epochs[e].jackpot_amount
  /\ epochs' = [epochs EXCEPT ![e] = [@ EXCEPT !.status = "RolledOver"]]
  /\ pool' = [pool EXCEPT !.jackpot_reserved = @ - epochs[e].jackpot_amount]
  /\ UNCHANGED <<now, params, players, rounds, positions, tokens>>

-----------------------------------------------------------------------------
OperatorEpochNext ==
  \E s \in Keys :
    \/ begin_epoch(s)
    \/ \E e \in EpochIds : close_registration(s, e)

AnyoneEpochNext ==
  \E e \in EpochIds :
    \/ \E p \in Players : register(e, p) \/ payout(e, p)
    \/ \E target \in 0..(epochs[e].registered_weight - 1) : draw(e, target)
    \/ rollover_epoch(e)
    \/ FulfillEpoch(e)

FundingNext ==
  \E amount \in Amounts : fund_jackpot(amount) \/ fund_yield(amount)

EpochsNext == OperatorEpochNext \/ AnyoneEpochNext \/ FundingNext
=============================================================================
