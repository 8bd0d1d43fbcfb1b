------------------------------- MODULE Rounds -------------------------------
(***************************************************************************)
(* Round lifecycle (rounds.rs): one game on the board, its positions, its  *)
(* randomness, and what settling or voiding it does with the pot. Only     *)
(* create_round needs the operator.                                        *)
(***************************************************************************)
EXTENDS PoolState

\* Neither starts_at nor ends_at is compared with the clock, only with each
\* other and, once an epoch has begun, with that epoch's end.
create_round(s, starts_at) ==
  LET r == pool.next_round_id
      ends_at == starts_at + params.round_seconds
      e == pool.current_epoch_id
  IN
  /\ r <= MaxRound
  /\ s = pool.operator
  /\ ~pool.shutdown
  /\ ~pool.paused
  /\ ~pool.game_paused
  /\ pool.open_round_id = 0
  /\ e # 0 => ends_at <= epochs[e].ends_at
  /\ pool' = [pool EXCEPT !.next_round_id = r + 1, !.open_round_id = r, !.carry_pot = 0]
  /\ rounds' = [rounds EXCEPT ![r] =
                  [NoRound EXCEPT !.status = "Open", !.epoch_id = e,
                                  !.starts_at = starts_at, !.ends_at = ends_at,
                                  !.pot = pool.carry_pot]]
  /\ UNCHANGED <<now, params, players, epochs, positions, tokens>>

\* Positions close here, and randomness may be requested from here on.
CloseAt(r) == rounds[r].ends_at - params.close_buffer

\* The tile totals after `stake_per_tile` is added on every tile of `tiles`.
StakedOn(totals, tiles, stake_per_tile) ==
  [t \in Tiles |-> IF t \in tiles THEN totals[t] + stake_per_tile ELSE totals[t]]

\* The weight the stake would have earned until the round's end is credited
\* up front, then the stake leaves Entries.
buy_position(p, r, tiles, stake_per_tile) ==
  LET plr   == touch(players[p], pool, now)
      total == stake_per_tile * Cardinality(tiles)
  IN
  /\ players[p].live
  /\ ~pool.shutdown
  /\ ~pool.paused
  /\ ~pool.game_paused
  /\ rounds[r].status = "Open"
  /\ now < CloseAt(r)
  /\ rounds[r].ends_at >= now
  /\ tiles # {}
  /\ stake_per_tile >= 1
  /\ plr.entries >= total
  /\ positions[r][p].tiles = {}
  /\ players' = [players EXCEPT ![p] =
                   [plr EXCEPT !.weight_acc = @ + weight_of(total, rounds[r].ends_at - now),
                               !.entries    = @ - total]]
  /\ rounds' = [rounds EXCEPT ![r] =
                  [rounds[r] EXCEPT !.tile_totals = StakedOn(@, tiles, stake_per_tile),
                                    !.pot = @ + total,
                                    !.open_positions = @ + 1]]
  /\ positions' = [positions EXCEPT ![r][p] =
                     [tiles |-> tiles, stake_per_tile |-> stake_per_tile]]
  /\ UNCHANGED <<now, params, pool, epochs, tokens>>

request_round_randomness(r) ==
  /\ rounds[r].status = "Open"
  /\ now >= CloseAt(r)
  /\ rounds' = [rounds EXCEPT ![r] =
                  [@ EXCEPT !.status = "Requested", !.requested_at = now]]
  /\ UNCHANGED <<now, params, pool, players, epochs, positions, tokens>>

\* ORAO answers the round's request (external; it may never happen).
FulfillRound(r) ==
  /\ rounds[r].status = "Requested"
  /\ ~rounds[r].fulfilled
  /\ rounds' = [rounds EXCEPT ![r] = [@ EXCEPT !.fulfilled = TRUE]]
  /\ UNCHANGED <<now, params, pool, players, epochs, positions, tokens>>

HouseCut(r) == (rounds[r].pot * params.house_cut_bps) \div BPS_DENOMINATOR

\* unbiased_u64 maps the randomness to some tile. Nobody on it: the House
\* takes the pot. Somebody on it: the House takes its cut. A round whose
\* epoch is over credits nobody.
settle_round(r, tile) ==
  LET forfeited    == rounds[r].tile_totals[tile] = 0
      house_cut    == IF forfeited THEN 0 ELSE HouseCut(r)
      house_credit == IF forfeited THEN rounds[r].pot ELSE house_cut
      credits      == /\ rounds[r].epoch_id = pool.current_epoch_id
                      /\ forfeited \/ house_credit > 0
  IN
  /\ rounds[r].status = "Requested"
  /\ rounds[r].fulfilled
  /\ players' = IF credits
                THEN [players EXCEPT ![House] =
                        [touch(players[House], pool, now) EXCEPT !.entries = @ + house_credit]]
                ELSE players
  /\ rounds' = [rounds EXCEPT ![r] =
                  [@ EXCEPT !.status = IF forfeited THEN "Forfeited" ELSE "Settled",
                            !.house_cut = house_cut,
                            !.winning_tile = tile]]
  /\ pool' = [pool EXCEPT !.open_round_id = 0]
  /\ UNCHANGED <<now, params, epochs, positions, tokens>>

\* A position settling now shares in the pot: it covers the winning tile and
\* the round's epoch is still the current one.
Rewarded(r, p) ==
  /\ rounds[r].epoch_id = pool.current_epoch_id
  /\ rounds[r].status = "Settled"
  /\ rounds[r].winning_tile \in positions[r][p].tiles

\* Mutant: winners share the pot before the house cut.
Reward_of_gross_pot(r, p) ==
  IF Rewarded(r, p)
  THEN (rounds[r].pot * positions[r][p].stake_per_tile)
         \div rounds[r].tile_totals[rounds[r].winning_tile]
  ELSE 0

Reward(r, p) ==
  IF Rewarded(r, p)
  THEN ((rounds[r].pot - rounds[r].house_cut) * positions[r][p].stake_per_tile)
         \div rounds[r].tile_totals[rounds[r].winning_tile]
  ELSE 0

settle_position(p, r) ==
  /\ positions[r][p].tiles # {}
  /\ rounds[r].status \in Terminal
  /\ rounds[r].open_positions >= 1
  /\ Rewarded(r, p) => /\ rounds[r].pot >= rounds[r].house_cut
                       /\ rounds[r].tile_totals[rounds[r].winning_tile] > 0
  /\ players' = [players EXCEPT ![p] =
                   [touch(players[p], pool, now) EXCEPT !.entries = @ + Reward(r, p)]]
  /\ rounds' = [rounds EXCEPT ![r].open_positions = @ - 1]
  /\ positions' = [positions EXCEPT ![r][p] = NoPosition]
  /\ UNCHANGED <<now, params, pool, epochs, tokens>>

\* Mutant: only a requested round can be voided.
VoidDue_requested(r) ==
  /\ rounds[r].status = "Requested"
  /\ ~rounds[r].fulfilled
  /\ now > rounds[r].requested_at + params.vrf_timeout

\* When anyone may void a round: its randomness never came, or nobody ever
\* asked for it.
VoidDue(r) ==
  \/ /\ rounds[r].status = "Requested"
     /\ ~rounds[r].fulfilled
     /\ now > rounds[r].requested_at + params.vrf_timeout
  \/ /\ rounds[r].status = "Open"
     /\ now > rounds[r].ends_at + params.vrf_timeout

\* Mutant: the pool keeps pointing at the voided round.
void_round_stays_open(r) ==
  /\ VoidDue(r)
  /\ pool' = [pool EXCEPT !.carry_pot = IF rounds[r].epoch_id = pool.current_epoch_id
                                        THEN @ + rounds[r].pot ELSE @]
  /\ rounds' = [rounds EXCEPT ![r] = [@ EXCEPT !.status = "Voided"]]
  /\ UNCHANGED <<now, params, players, epochs, positions, tokens>>

\* The pot carries into the next round, unless the round's epoch is over.
void_round(r) ==
  /\ VoidDue(r)
  /\ pool' = [pool EXCEPT !.open_round_id = 0,
                          !.carry_pot = IF rounds[r].epoch_id = pool.current_epoch_id
                                        THEN @ + rounds[r].pot ELSE @]
  /\ rounds' = [rounds EXCEPT ![r] = [@ EXCEPT !.status = "Voided"]]
  /\ UNCHANGED <<now, params, players, epochs, positions, tokens>>

\* Mutant: open positions do not hold the account.
close_round_early(r) ==
  /\ rounds[r].status \in Terminal
  /\ rounds' = [rounds EXCEPT ![r] = [NoRound EXCEPT !.status = "Closed"]]
  /\ UNCHANGED <<now, params, pool, players, epochs, positions, tokens>>

\* Reclaims a finished round's account once every position is gone.
close_round(r) ==
  /\ rounds[r].status \in Terminal
  /\ rounds[r].open_positions = 0
  /\ rounds' = [rounds EXCEPT ![r] = [NoRound EXCEPT !.status = "Closed"]]
  /\ UNCHANGED <<now, params, pool, players, epochs, positions, tokens>>

-----------------------------------------------------------------------------
OperatorRoundNext ==
  \E s \in Keys, starts_at \in now..(now + MaxLead) : create_round(s, starts_at)

PlayNext ==
  \E p \in Owners, r \in RoundIds :
    \/ \E tiles \in SUBSET Tiles, stake \in Stakes : buy_position(p, r, tiles, stake)
    \/ settle_position(p, r)

AnyoneRoundNext ==
  \E r \in RoundIds :
    \/ request_round_randomness(r)
    \/ FulfillRound(r)
    \/ \E tile \in Tiles : settle_round(r, tile)
    \/ void_round(r)
    \/ close_round(r)

RoundsNext == OperatorRoundNext \/ PlayNext \/ AnyoneRoundNext
=============================================================================
