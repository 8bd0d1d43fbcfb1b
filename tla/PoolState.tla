----------------------------- MODULE PoolState -----------------------------
(***************************************************************************)
(* The accounts of the hex_vault program (state.rs) and the state a        *)
(* freshly created pool starts in (create_pool).                           *)
(*                                                                         *)
(* One pool. Every instruction is a Solana transaction and therefore one   *)
(* atomic step: it either passes all its checks and writes everything, or  *)
(* aborts and writes nothing (an aborted transaction is a stuttering step, *)
(* so only the successful outcome is an action).                           *)
(***************************************************************************)
EXTENDS Integers, FiniteSets, Touch

CONSTANTS
  Owners,              \* wallets that may hold a Player account
  House,               \* the House Player account, created with the pool
  Keys,                \* keys that may hold the admin or the operator role
  NoKey,               \* Pubkey::default()
  Admin0, Operator0,   \* the roles create_pool is called with
  Tiles,               \* tiles of the board (0..35 in the code)
  Amounts,             \* USDC amounts instructions are called with
  Stakes,              \* Entries per tile a position is bought with
  InitParams,          \* parameters create_pool is called with
  ParamChoices,        \* parameter sets set_params may result in
  BPS_DENOMINATOR,     \* 10_000 in the code
  SECONDS_PER_YEAR,    \* 31_536_000 in the code
  MIN_VRF_TIMEOUT,     \* floors of the two timeouts (1 in a test-vrf build)
  MIN_PAYOUT_TIMEOUT,
  StartTime,           \* clock at create_pool
  MaxTime,             \* bound: last instant of the clock
  MaxEpoch,            \* bound: epochs that may begin
  MaxRound,            \* bound: rounds that may be created
  MaxFunds,            \* bound: USDC the four token accounts may hold
  MaxEntries,          \* bound: Entries one Player may reach by grants
  MaxLead              \* bound: seconds ahead of the clock a round may start

VARIABLES
  now,                 \* Clock::unix_timestamp
  params,              \* the parameter fields of the Pool account
  pool,                \* the other fields of the Pool account
  players,             \* Player accounts
  epochs,              \* Epoch accounts
  rounds,              \* Round accounts
  positions,           \* Position accounts, per round and owner
  tokens               \* SPL token balances; `admin` is principal lent out

vars == <<now, params, pool, players, epochs, rounds, positions, tokens>>

Players  == Owners \cup {House}
EpochIds == 1..MaxEpoch
RoundIds == 1..MaxRound

EpochStatus == {"None", "Open", "Registering", "Drawing", "Drawn", "Paid", "RolledOver"}
RoundStatus == {"None", "Open", "Requested", "Settled", "Forfeited", "Voided", "Closed"}
Terminal    == {"Settled", "Forfeited", "Voided"}

ParamRec ==
  [epoch_seconds: Int, epoch_anchor: Int, round_seconds: Int, close_buffer: Int,
   vrf_timeout: Int, min_deposit: Nat, house_cut_bps: Nat, min_jackpot: Nat,
   registration_window: Int, payout_timeout: Int, base_rate_bps: Nat,
   tickets_per_usdc: Nat, bonus_cap_bps: Nat]

PoolRec ==
  [admin: Keys \cup {NoKey}, operator: Keys \cup {NoKey}, pending_admin: Keys \cup {NoKey},
   paused: BOOLEAN, game_paused: BOOLEAN, jackpot_paused: BOOLEAN, shutdown: BOOLEAN,
   current_epoch_id: Nat, current_epoch_start: Int, current_epoch_ends_at: Int,
   previous_epoch_start: Int, previous_epoch_ends_at: Int,
   next_round_id: Nat, open_round_id: Nat, carry_pot: Nat,
   total_principal: Nat, pending_withdrawals: Nat, jackpot_reserved: Nat,
   yield_budget: Nat, bonus_epoch: Nat, bonus_granted: Nat]

\* `live` is the account's existence (owner # Pubkey::default()); a Player
\* that was never created reads as all zeroes.
PlayerRec ==
  [live: BOOLEAN, principal: Nat, entries: Nat, weight_acc: Nat, principal_acc: Nat,
   last_update: Int, epoch_id: Nat, frozen_weight: Nat, frozen_principal_acc: Nat,
   frozen_epoch: Nat, reg_epoch: Nat, reg_start: Nat, reg_end: Nat,
   pending_withdraw: Nat, pending_epoch: Nat, requested_at: Int, yield_epoch: Nat,
   bought_epoch: Nat, bought_amount: Nat, bonus_epoch: Nat, bonus_granted: Nat]

\* `fulfilled` belongs to ORAO's randomness account for the epoch's request.
EpochRec ==
  [status: EpochStatus, starts_at: Int, ends_at: Int, registered_weight: Nat,
   registered_count: Nat, jackpot_amount: Nat, requested_at: Int, target: Nat,
   drawn_at: Int, registration_opened_at: Int, winner: Players \cup {NoKey},
   fulfilled: BOOLEAN]

\* `winning_tile` is NoKey until a settlement sets it (the code stores 0 and
\* reads it only after the status says a tile was drawn).
RoundRec ==
  [status: RoundStatus, epoch_id: Nat, starts_at: Int, ends_at: Int,
   tile_totals: [Tiles -> Nat], pot: Nat, house_cut: Nat, requested_at: Int,
   winning_tile: Tiles \cup {NoKey}, open_positions: Nat, fulfilled: BOOLEAN]

\* An empty tile set stands for a Position account that does not exist.
PositionRec == [tiles: SUBSET Tiles, stake_per_tile: Nat]

TokenRec ==
  [principal_vault: Nat, jackpot_vault: Nat, treasury: Nat, buyback_reserve: Nat,
   admin: Int]

NoPlayer ==
  [live |-> FALSE, principal |-> 0, entries |-> 0, weight_acc |-> 0, principal_acc |-> 0,
   last_update |-> 0, epoch_id |-> 0, frozen_weight |-> 0, frozen_principal_acc |-> 0,
   frozen_epoch |-> 0, reg_epoch |-> 0, reg_start |-> 0, reg_end |-> 0,
   pending_withdraw |-> 0, pending_epoch |-> 0, requested_at |-> 0, yield_epoch |-> 0,
   bought_epoch |-> 0, bought_amount |-> 0, bonus_epoch |-> 0, bonus_granted |-> 0]

NoEpoch ==
  [status |-> "None", starts_at |-> 0, ends_at |-> 0, registered_weight |-> 0,
   registered_count |-> 0, jackpot_amount |-> 0, requested_at |-> 0, target |-> 0,
   drawn_at |-> 0, registration_opened_at |-> 0, winner |-> NoKey,
   fulfilled |-> FALSE]

NoRound ==
  [status |-> "None", epoch_id |-> 0, starts_at |-> 0, ends_at |-> 0,
   tile_totals |-> [t \in Tiles |-> 0], pot |-> 0, house_cut |-> 0,
   requested_at |-> 0, winning_tile |-> NoKey, open_positions |-> 0,
   fulfilled |-> FALSE]

NoPosition == [tiles |-> {}, stake_per_tile |-> 0]

\* Mutant: every deposit starts the account over.
init_if_fresh_always(plr) ==
  [NoPlayer EXCEPT !.live = TRUE, !.last_update = now, !.epoch_id = pool.current_epoch_id]

\* Player::init_if_fresh: starts a new account's clock at `now`.
init_if_fresh(plr) ==
  IF plr.live THEN plr
  ELSE [plr EXCEPT !.live = TRUE, !.last_update = now,
                   !.epoch_id = pool.current_epoch_id]

\* The parameter checks create_pool and set_params share.
ValidParams(v) ==
  /\ v \in ParamRec
  /\ v.epoch_seconds > 0 /\ v.epoch_anchor > 0 /\ v.round_seconds > 0
  /\ v.vrf_timeout >= MIN_VRF_TIMEOUT
  /\ v.close_buffer >= 0 /\ v.close_buffer < v.round_seconds
  /\ v.house_cut_bps <= BPS_DENOMINATOR
  /\ v.base_rate_bps <= BPS_DENOMINATOR
  /\ v.tickets_per_usdc > 0
  /\ v.bonus_cap_bps <= BPS_DENOMINATOR
  /\ v.registration_window >= 0 /\ v.registration_window < v.epoch_seconds
  /\ v.payout_timeout >= MIN_PAYOUT_TIMEOUT

ASSUME KeysAssumption ==
  /\ NoKey \notin Keys
  /\ Admin0 \in Keys
  /\ Operator0 \in Keys
  /\ House \notin Owners

ASSUME AmountsAssumption ==
  /\ Amounts \subseteq Nat
  /\ Stakes \subseteq Nat

ASSUME BoardAssumption == IsFiniteSet(Tiles)

\* Only so many accounts fit on a chain.
ASSUME OwnersAssumption == IsFiniteSet(Owners)

ASSUME UnitsAssumption ==
  /\ BPS_DENOMINATOR \in Nat \ {0}
  /\ SECONDS_PER_YEAR \in Nat \ {0}
  /\ MIN_VRF_TIMEOUT \in Nat \ {0}
  /\ MIN_PAYOUT_TIMEOUT \in Nat \ {0}

ASSUME BoundsAssumption ==
  /\ StartTime \in Nat /\ MaxTime \in Nat
  /\ MaxEpoch \in Nat /\ MaxRound \in Nat
  /\ MaxFunds \in Nat /\ MaxEntries \in Nat /\ MaxLead \in Nat

\* create_pool refuses any other parameters.
ASSUME InitParamsAssumption == ValidParams(InitParams)

TypeOK ==
  /\ now \in Nat
  /\ params \in ParamRec
  /\ pool \in PoolRec
  /\ players \in [Players -> PlayerRec]
  /\ epochs \in [EpochIds -> EpochRec]
  /\ rounds \in [RoundIds -> RoundRec]
  /\ positions \in [RoundIds -> [Owners -> PositionRec]]
  /\ tokens \in TokenRec

\* create_pool: the pool, its vaults and the House exist, deposits are open,
\* the game and the jackpot wait for the admin to turn them on.
InitWith(ps) ==
  /\ now = StartTime
  /\ params = ps
  /\ pool = [admin |-> Admin0, operator |-> Operator0, pending_admin |-> NoKey,
             paused |-> FALSE, game_paused |-> TRUE, jackpot_paused |-> TRUE,
             shutdown |-> FALSE,
             current_epoch_id |-> 0, current_epoch_start |-> 0,
             current_epoch_ends_at |-> 0, previous_epoch_start |-> 0,
             previous_epoch_ends_at |-> 0,
             next_round_id |-> 1, open_round_id |-> 0, carry_pot |-> 0,
             total_principal |-> 0, pending_withdrawals |-> 0,
             jackpot_reserved |-> 0, yield_budget |-> 0,
             bonus_epoch |-> 0, bonus_granted |-> 0]
  /\ players = [p \in Players |->
                  IF p = House
                  THEN [NoPlayer EXCEPT !.live = TRUE, !.last_update = StartTime]
                  ELSE NoPlayer]
  /\ epochs = [e \in EpochIds |-> NoEpoch]
  /\ rounds = [r \in RoundIds |-> NoRound]
  /\ positions = [r \in RoundIds |-> [p \in Owners |-> NoPosition]]
  /\ tokens = [principal_vault |-> 0, jackpot_vault |-> 0, treasury |-> 0,
               buyback_reserve |-> 0, admin |-> 0]

Init == InitWith(InitParams)

\* The cluster clock. unix_timestamp only moves forward here; `elapsed`
\* already treats a step back as zero seconds.
Tick ==
  /\ now < MaxTime
  /\ now' = now + 1
  /\ UNCHANGED <<params, pool, players, epochs, rounds, positions, tokens>>

\* Bounds on the USDC in play: what the program's token accounts hold, and
\* that together with what is lent out.
HeldTokens ==
  tokens.principal_vault + tokens.jackpot_vault + tokens.treasury + tokens.buyback_reserve

VaultFits(amount)  == HeldTokens + amount <= MaxFunds
InflowFits(amount) == VaultFits(amount) /\ HeldTokens + tokens.admin + amount <= MaxFunds
=============================================================================
