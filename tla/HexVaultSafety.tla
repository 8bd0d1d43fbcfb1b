--------------------------- MODULE HexVaultSafety ---------------------------
(***************************************************************************)
(* Safety theorems of the whole program for any number of wallets, tiles,  *)
(* epochs and rounds: type correctness, and on top of it that the          *)
(* principal vault backs every claim, the jackpot vault covers every       *)
(* promised prize, and shutdown is final. The inductive invariant of type  *)
(* correctness is TypeOK together with ParamsValid (the checks of          *)
(* create_pool and set_params hold of the stored parameters), which        *)
(* begin_epoch's division needs.                                           *)
(***************************************************************************)
EXTENDS HexVault, FiniteSetTheorems, TLAPS

\* A product of naturals is one (nonlinear, so the provers want it said).
LEMMA NatProduct ==
  ASSUME NEW a \in Nat, NEW b \in Nat
  PROVE  a * b \in Nat
  OBVIOUS

\* elapsed never goes negative, whatever the order of its arguments.
LEMMA ElapsedNat ==
  ASSUME NEW a \in Int, NEW b \in Int
  PROVE  elapsed(a, b) \in Nat
  BY DEF elapsed

\* Weight over a clamped stretch of time is a natural.
LEMMA WeightNat ==
  ASSUME NEW n \in Nat, NEW a \in Int, NEW b \in Int
  PROVE  weight_of(n, elapsed(a, b)) \in Nat
  BY ElapsedNat, NatProduct DEF weight_of

\* The same-epoch branch of touch returns a well-typed Player.
LEMMA TouchSameType ==
  ASSUME NEW plr \in PlayerRec, NEW pl \in PoolRec, NEW t \in Int
  PROVE  TouchSameEpoch(plr, pl, t) \in PlayerRec
<1> DEFINE until == IF pl.current_epoch_id = 0 THEN t ELSE MinOf(t, pl.current_epoch_ends_at)
           tail  == elapsed(plr.last_update, until)
<1>1. until \in Int
  BY DEF MinOf, PoolRec
<1>2. weight_of(plr.entries, tail) \in Nat /\ weight_of(plr.principal, tail) \in Nat
  BY <1>1, WeightNat DEF PlayerRec
<1>3. /\ plr.weight_acc + weight_of(plr.entries, tail) \in Nat
      /\ plr.principal_acc + weight_of(plr.principal, tail) \in Nat
  BY <1>2 DEF PlayerRec
<1> QED
  BY <1>3 DEF TouchSameEpoch, PlayerRec

\* So does the branch that crosses an epoch boundary.
LEMMA TouchNewType ==
  ASSUME NEW plr \in PlayerRec, NEW pl \in PoolRec, NEW t \in Int,
         plr.epoch_id < pl.current_epoch_id
  PROVE  TouchNewEpoch(plr, pl, t) \in PlayerRec
<1>1. FrozenWeight(plr, pl) \in Nat
  <2>1. weight_of(plr.entries, elapsed(plr.last_update, pl.previous_epoch_ends_at)) \in Nat
    BY WeightNat DEF PlayerRec, PoolRec
  <2>2. weight_of(plr.principal, elapsed(pl.previous_epoch_start, pl.previous_epoch_ends_at)) \in Nat
    BY WeightNat DEF PlayerRec, PoolRec
  <2> QED
    BY <2>1, <2>2 DEF FrozenWeight, PlayerRec
<1>2. FrozenPrincipalAcc(plr, pl) \in Nat
  <2>1. weight_of(plr.principal, elapsed(plr.last_update, pl.previous_epoch_ends_at)) \in Nat
    BY WeightNat DEF PlayerRec, PoolRec
  <2>2. weight_of(plr.principal, elapsed(pl.previous_epoch_start, pl.previous_epoch_ends_at)) \in Nat
    BY WeightNat DEF PlayerRec, PoolRec
  <2> QED
    BY <2>1, <2>2 DEF FrozenPrincipalAcc, PlayerRec
<1>3. MinOf(t, pl.current_epoch_ends_at) \in Int
  BY DEF MinOf, PoolRec
<1>4. weight_of(plr.principal, elapsed(pl.current_epoch_start, MinOf(t, pl.current_epoch_ends_at))) \in Nat
  BY <1>3, WeightNat DEF PlayerRec, PoolRec
<1>5. pl.current_epoch_id - 1 \in Nat
  BY DEF PlayerRec, PoolRec
<1> QED
  BY <1>1, <1>2, <1>4, <1>5 DEF TouchNewEpoch, PlayerRec, PoolRec

\* touch returns a well-typed Player.
LEMMA TouchType ==
  ASSUME NEW plr \in PlayerRec, NEW pl \in PoolRec, NEW t \in Int
  PROVE  touch(plr, pl, t) \in PlayerRec
<1>1. plr.epoch_id \in Nat /\ pl.current_epoch_id \in Nat
  BY DEF PlayerRec, PoolRec
<1> QED
  BY <1>1, TouchSameType, TouchNewType DEF touch

\* init_if_fresh returns a well-typed Player.
LEMMA FreshType ==
  ASSUME TypeOK, NEW plr \in PlayerRec
  PROVE  init_if_fresh(plr) \in PlayerRec
<1>1. now \in Int /\ pool.current_epoch_id \in Nat
  BY DEF TypeOK, PoolRec
<1>2. [plr EXCEPT !.live = TRUE, !.last_update = now, !.epoch_id = pool.current_epoch_id]
        \in PlayerRec
  BY <1>1 DEF PlayerRec
<1> QED
  BY <1>2 DEF init_if_fresh

\* Every instruction that touches a stored Player gets a well-typed one.
LEMMA PlayerTouchType ==
  ASSUME TypeOK, NEW p \in Players
  PROVE  touch(players[p], pool, now) \in PlayerRec
  BY TouchType DEF TypeOK

\* Roles, parameters and switches.
LEMMA AdminType ==
  ASSUME TypeOK, AdminNext
  PROVE  TypeOK'
<1> USE DEF TypeOK
<1> PICK s \in Keys :
    \/ \E v \in ParamChoices : set_params(s, v)
    \/ \E on \in BOOLEAN : set_pause(s, on)
    \/ \E feature \in {"Game", "Jackpot"}, on \in BOOLEAN : set_feature_pause(s, feature, on)
    \/ shutdown(s)
    \/ \E k \in Keys \cup {NoKey} : set_operator(s, k) \/ propose_admin(s, k)
    \/ accept_admin(s)
  BY DEF AdminNext
<1>1. CASE \E v \in ParamChoices : set_params(s, v)
  BY <1>1 DEF set_params, ValidParams
<1>2. CASE \E on \in BOOLEAN : set_pause(s, on)
  BY <1>2 DEF set_pause, PoolRec
<1>3. CASE \E feature \in {"Game", "Jackpot"}, on \in BOOLEAN : set_feature_pause(s, feature, on)
  BY <1>3 DEF set_feature_pause, PoolRec
<1>4. CASE shutdown(s)
  BY <1>4 DEF shutdown, PoolRec
<1>5. CASE \E k \in Keys \cup {NoKey} : set_operator(s, k) \/ propose_admin(s, k)
  BY <1>5 DEF set_operator, propose_admin, PoolRec
<1>6. CASE accept_admin(s)
  BY <1>6 DEF accept_admin, PoolRec
<1> QED
  BY <1>1, <1>2, <1>3, <1>4, <1>5, <1>6

\* deposit.
LEMMA DepositType ==
  ASSUME TypeOK, NEW p \in Players, NEW amount \in Amounts, deposit(p, amount)
  PROVE  TypeOK'
<1> DEFINE plr == touch(init_if_fresh(players[p]), pool, now)
           new == [plr EXCEPT !.principal = @ + amount, !.entries = @ + amount]
<1>1. amount \in Nat /\ pool \in PoolRec /\ tokens \in TokenRec /\ now \in Int
  BY AmountsAssumption DEF TypeOK
<1>2. plr \in PlayerRec
  BY <1>1, FreshType, TouchType DEF TypeOK
<1>3. plr.principal + amount \in Nat /\ plr.entries + amount \in Nat
  BY <1>1, <1>2 DEF PlayerRec
<1>4. new \in PlayerRec
  BY <1>2, <1>3 DEF PlayerRec
<1>5. players' \in [Players -> PlayerRec]
  BY <1>4 DEF deposit, TypeOK
<1>6. tokens' \in TokenRec
  BY <1>1 DEF deposit, TokenRec
<1>7. pool' \in PoolRec
  BY <1>1 DEF deposit, PoolRec
<1> QED
  BY <1>5, <1>6, <1>7 DEF deposit, TypeOK

\* request_withdraw: the checked subtractions are covered by its guards.
LEMMA RequestType ==
  ASSUME TypeOK, NEW p \in Players, NEW amount \in Amounts, request_withdraw(p, amount)
  PROVE  TypeOK'
<1> DEFINE plr == touch(players[p], pool, now)
           new == [plr EXCEPT !.principal        = @ - amount,
                              !.entries          = SatSub(@, amount),
                              !.pending_withdraw = @ + amount,
                              !.pending_epoch    = pool.current_epoch_id,
                              !.requested_at     = now]
<1>1. amount \in Nat /\ pool \in PoolRec /\ now \in Int
  BY AmountsAssumption DEF TypeOK
<1>2. plr \in PlayerRec
  BY PlayerTouchType
<1>3. plr.principal >= amount /\ pool.total_principal >= amount
  BY DEF request_withdraw
<1>4. /\ plr.principal - amount \in Nat
      /\ SatSub(plr.entries, amount) \in Nat
      /\ plr.pending_withdraw + amount \in Nat
      /\ pool.current_epoch_id \in Nat
      /\ pool.total_principal - amount \in Nat
      /\ pool.pending_withdrawals + amount \in Nat
  BY <1>1, <1>2, <1>3 DEF PlayerRec, PoolRec, SatSub
<1>5. new \in PlayerRec
  BY <1>1, <1>2, <1>4 DEF PlayerRec
<1>6. players' \in [Players -> PlayerRec]
  BY <1>5 DEF request_withdraw, TypeOK
<1>7. pool' \in PoolRec
  BY <1>1, <1>4 DEF request_withdraw, PoolRec
<1> QED
  BY <1>6, <1>7 DEF request_withdraw, TypeOK

\* process_withdraw.
LEMMA ProcessType ==
  ASSUME TypeOK, NEW p \in Players, process_withdraw(p)
  PROVE  TypeOK'
<1> DEFINE pending == players[p].pending_withdraw
<1>1. players[p] \in PlayerRec /\ pool \in PoolRec /\ tokens \in TokenRec
  BY DEF TypeOK
<1>2. tokens.principal_vault >= pending /\ pool.pending_withdrawals >= pending
  BY DEF process_withdraw
<1>3. tokens.principal_vault - pending \in Nat /\ pool.pending_withdrawals - pending \in Nat
  BY <1>1, <1>2 DEF PlayerRec, PoolRec, TokenRec
<1>4. [players[p] EXCEPT !.pending_withdraw = 0] \in PlayerRec
  BY <1>1 DEF PlayerRec
<1>5. players' = [players EXCEPT ![p] = [players[p] EXCEPT !.pending_withdraw = 0]]
  BY DEF process_withdraw, TypeOK
<1>6. players' \in [Players -> PlayerRec]
  BY <1>4, <1>5 DEF TypeOK
<1>7. tokens' \in TokenRec
  BY <1>1, <1>3 DEF process_withdraw, TokenRec
<1>8. pool' \in PoolRec
  BY <1>1, <1>3 DEF process_withdraw, PoolRec
<1> QED
  BY <1>6, <1>7, <1>8 DEF process_withdraw, TypeOK

\* emergency_withdraw.
LEMMA EmergencyType ==
  ASSUME TypeOK, NEW p \in Players, emergency_withdraw(p)
  PROVE  TypeOK'
<1> DEFINE plr == touch(players[p], pool, now)
           new == [plr EXCEPT !.principal = 0, !.entries = 0, !.pending_withdraw = 0]
<1>1. plr \in PlayerRec /\ pool \in PoolRec /\ tokens \in TokenRec
  BY PlayerTouchType DEF TypeOK
<1>2. /\ tokens.principal_vault >= plr.principal + plr.pending_withdraw
      /\ pool.total_principal >= plr.principal
      /\ pool.pending_withdrawals >= plr.pending_withdraw
  BY DEF emergency_withdraw
<1>3. /\ tokens.principal_vault - (plr.principal + plr.pending_withdraw) \in Nat
      /\ pool.total_principal - plr.principal \in Nat
      /\ pool.pending_withdrawals - plr.pending_withdraw \in Nat
  BY <1>1, <1>2 DEF PlayerRec, PoolRec, TokenRec
<1>4. new \in PlayerRec
  BY <1>1 DEF PlayerRec
<1>5. players' \in [Players -> PlayerRec]
  BY <1>4 DEF emergency_withdraw, TypeOK
<1>6. tokens' \in TokenRec
  BY <1>1, <1>3 DEF emergency_withdraw, TokenRec
<1>7. pool' \in PoolRec
  BY <1>1, <1>3 DEF emergency_withdraw, PoolRec
<1> QED
  BY <1>5, <1>6, <1>7 DEF emergency_withdraw, TypeOK

\* buy_tickets.
LEMMA BuyTicketsType ==
  ASSUME TypeOK, NEW p \in Players, NEW amount \in Amounts, buy_tickets(p, amount)
  PROVE  TypeOK'
<1> DEFINE plr    == touch(players[p], pool, now)
           bought == CountedInEpoch(plr.bought_epoch, plr.bought_amount, amount)
           new    == [plr EXCEPT !.bought_epoch  = pool.current_epoch_id,
                                 !.bought_amount = bought,
                                 !.entries       = @ + amount * params.tickets_per_usdc]
<1>1. plr \in PlayerRec /\ tokens \in TokenRec /\ pool.current_epoch_id \in Nat
  BY PlayerTouchType DEF TypeOK, PoolRec
<1>2. amount \in Nat /\ params.tickets_per_usdc \in Nat
  BY AmountsAssumption DEF TypeOK, ParamRec
<1>3. amount * params.tickets_per_usdc \in Nat
  BY <1>2, NatProduct
<1>4. plr.entries + amount * params.tickets_per_usdc \in Nat
  BY <1>1, <1>3 DEF PlayerRec
<1>5. bought \in Nat
  BY <1>1, <1>2 DEF PlayerRec, CountedInEpoch
<1>6. new \in PlayerRec
  BY <1>1, <1>4, <1>5 DEF PlayerRec
<1>7. players' \in [Players -> PlayerRec]
  BY <1>6 DEF buy_tickets, TypeOK
<1>8. tokens' \in TokenRec
  BY <1>1, <1>2 DEF buy_tickets, TokenRec
<1> QED
  BY <1>7, <1>8 DEF buy_tickets, TypeOK

\* All instructions of depositors.
LEMMA DepositorType ==
  ASSUME TypeOK, DepositorNext
  PROVE  TypeOK'
  BY DepositType, RequestType, BuyTicketsType, ProcessType, EmergencyType DEF DepositorNext

\* Lending, returning and the final sweep: what a sweep takes is there.
LEMMA TreasuryType ==
  ASSUME TypeOK, TreasuryNext
  PROVE  TypeOK'
<1>1. pool \in PoolRec /\ tokens \in TokenRec
  BY DEF TypeOK
<1>2. ASSUME NEW s \in Keys, NEW amount \in Amounts, admin_withdraw(s, amount)
      PROVE  TypeOK'
  <2>1. amount \in Nat
    BY AmountsAssumption
  <2>3. tokens.principal_vault - amount \in Nat /\ tokens.admin + amount \in Int
    BY <1>1, <1>2, <2>1 DEF admin_withdraw, TokenRec
  <2>2. tokens' \in TokenRec
    BY <1>1, <1>2, <2>3 DEF admin_withdraw, TokenRec
  <2> QED
    BY <1>2, <2>2 DEF admin_withdraw, TypeOK
<1>3. ASSUME NEW amount \in Amounts, return_principal(amount)
      PROVE  TypeOK'
  <2>1. amount \in Nat
    BY AmountsAssumption
  <2>3. tokens.principal_vault + amount \in Nat /\ tokens.admin - amount \in Int
    BY <1>1, <2>1 DEF TokenRec
  <2>2. tokens' \in TokenRec
    BY <1>1, <1>3, <2>3 DEF return_principal, TokenRec
  <2> QED
    BY <1>3, <2>2 DEF return_principal, TypeOK
<1>4. ASSUME NEW s \in Keys, sweep_house(s)
      PROVE  TypeOK'
  <2> DEFINE jackpot == SatSub(tokens.jackpot_vault, pool.jackpot_reserved)
  <2>1. jackpot \in Nat /\ jackpot <= tokens.jackpot_vault
    BY <1>1 DEF SatSub, PoolRec, TokenRec
  <2>2. YieldSwept \in Nat /\ YieldSwept <= pool.yield_budget
                           /\ YieldSwept <= tokens.principal_vault
    BY <1>1 DEF YieldSwept, MinOf, SatSub, PoolRec, TokenRec
  <2>3. /\ tokens.jackpot_vault - jackpot \in Nat
        /\ tokens.principal_vault - YieldSwept \in Nat
        /\ tokens.treasury + jackpot + YieldSwept \in Nat
        /\ pool.yield_budget - YieldSwept \in Nat
    BY <1>1, <2>1, <2>2 DEF PoolRec, TokenRec
  <2>4. tokens' \in TokenRec
    BY <1>1, <1>4, <2>3 DEF sweep_house, TokenRec
  <2>5. pool' \in PoolRec
    BY <1>1, <1>4, <2>3 DEF sweep_house, PoolRec
  <2> QED
    BY <1>4, <2>4, <2>5 DEF sweep_house, TypeOK
<1> QED
  BY <1>2, <1>3, <1>4 DEF TreasuryNext

\* Both paths of grant_tickets.
LEMMA GrantType ==
  ASSUME TypeOK, GrantNext
  PROVE  TypeOK'
<1> PICK s \in Keys, p \in Players, amount \in Amounts : grant_tickets(s, p, amount)
  BY DEF GrantNext
<1> DEFINE plr      == touch(players[p], pool, now)
           byPlayer == CountedInEpoch(plr.bonus_epoch, plr.bonus_granted, amount)
           byPool   == CountedInEpoch(pool.bonus_epoch, pool.bonus_granted, amount)
           capped   == [plr EXCEPT !.bonus_epoch   = pool.current_epoch_id,
                                   !.bonus_granted = byPlayer,
                                   !.entries       = @ + amount]
           free     == [plr EXCEPT !.entries = @ + amount]
<1>1. plr \in PlayerRec /\ pool \in PoolRec /\ amount \in Nat
  BY PlayerTouchType, AmountsAssumption DEF TypeOK
<1>2. /\ byPlayer \in Nat /\ byPool \in Nat
      /\ plr.entries + amount \in Nat
      /\ pool.current_epoch_id \in Nat
  BY <1>1 DEF PlayerRec, PoolRec, CountedInEpoch
<1>3. CASE grant_tickets_operator(s, p, amount)
  <2>1. capped \in PlayerRec
    BY <1>1, <1>2 DEF PlayerRec
  <2>2. players' \in [Players -> PlayerRec]
    BY <1>3, <2>1 DEF grant_tickets_operator, TypeOK
  <2>3. pool' \in PoolRec
    BY <1>1, <1>2, <1>3 DEF grant_tickets_operator, PoolRec
  <2> QED
    BY <1>3, <2>2, <2>3 DEF grant_tickets_operator, TypeOK
<1>4. CASE grant_tickets_admin(s, p, amount)
  <2>1. free \in PlayerRec
    BY <1>1, <1>2 DEF PlayerRec
  <2>2. players' \in [Players -> PlayerRec]
    BY <1>4, <2>1 DEF grant_tickets_admin, TypeOK
  <2> QED
    BY <1>4, <2>2 DEF grant_tickets_admin, TypeOK
<1> QED
  BY <1>3, <1>4 DEF grant_tickets

-----------------------------------------------------------------------------
(* Epochs                                                                  *)

\* A grid point is an integer when the period is positive.
LEMMA GridInt ==
  ASSUME NEW a \in Int, NEW d \in Int, d > 0, NEW t \in Int
  PROVE  grid_floor(a, d, t) \in Int
<1>1. (t - a) \div d \in Int
  OBVIOUS
<1>2. \A q \in Int : q * d \in Int
  OBVIOUS
<1> QED
  BY <1>1, <1>2 DEF grid_floor

\* An Epoch account that does not exist is well typed.
LEMMA NoEpochType == NoEpoch \in EpochRec
  BY DEF NoEpoch, EpochRec, EpochStatus

\* begin_epoch: the one place that divides by a parameter.
LEMMA BeginType ==
  ASSUME TypeOK, ValidParams(params), NEW s \in Keys, begin_epoch(s)
  PROVE  TypeOK'
<1> DEFINE e == pool.current_epoch_id
<1>0. e < MaxEpoch
  BY DEF begin_epoch
<1>1. pool \in PoolRec /\ now \in Int /\ e \in Nat
  BY DEF TypeOK, PoolRec
<1>2. e > 0 => epochs[e] \in EpochRec
  BY <1>0, <1>1, BoundsAssumption DEF TypeOK, EpochIds
<1>3. /\ params.epoch_anchor \in Int
      /\ params.epoch_seconds \in Int
      /\ params.epoch_seconds > 0
  BY DEF ValidParams, ParamRec
<1>4. NextStartsAt \in Int
  <2>1. grid_floor(params.epoch_anchor, params.epoch_seconds, now) \in Int
    BY <1>1, <1>3, GridInt
  <2>2. e > 0 => epochs[e].ends_at \in Int
    BY <1>2 DEF EpochRec
  <2> QED
    BY <1>1, <2>1, <2>2 DEF NextStartsAt, MaxOf
<1>5. NextEndsAt \in Int
  <2>1. grid_floor(params.epoch_anchor, params.epoch_seconds, NextStartsAt) \in Int
    BY <1>3, <1>4, GridInt
  <2> QED
    BY <1>3, <2>1 DEF NextEndsAt
<1>6. e + 1 \in Nat
  BY <1>1
<1>7. pool' \in PoolRec
  BY <1>1, <1>4, <1>5, <1>6 DEF begin_epoch, PoolRec
<1>8. \A i \in EpochIds : [epochs[i] EXCEPT !.status = "Registering",
                                            !.registration_opened_at = now] \in EpochRec
  BY <1>1 DEF EpochRec, EpochStatus, TypeOK
<1>9. [NoEpoch EXCEPT !.status = "Open", !.starts_at = NextStartsAt,
                      !.ends_at = NextEndsAt] \in EpochRec
  <2>1. NoEpoch \in EpochRec
    BY NoEpochType
  <2> QED
    BY <1>4, <1>5, <2>1 DEF EpochRec, EpochStatus
<1>10. epochs' \in [EpochIds -> EpochRec]
  BY <1>8, <1>9 DEF begin_epoch, TypeOK
<1> QED
  BY <1>7, <1>10 DEF begin_epoch, TypeOK

\* Base yield is a natural.
LEMMA YieldNat ==
  ASSUME NEW n \in Nat, NEW rate \in Nat
  PROVE  yield_for(n, rate, BPS_DENOMINATOR, SECONDS_PER_YEAR) \in Nat
<1>1. n * rate \in Nat
  BY NatProduct
<1>2. BPS_DENOMINATOR * SECONDS_PER_YEAR \in Nat /\ BPS_DENOMINATOR * SECONDS_PER_YEAR > 0
  BY UnitsAssumption
<1>3. \A a, b \in Nat : b > 0 => a \div b \in Nat
  OBVIOUS
<1> QED
  BY <1>1, <1>2, <1>3 DEF yield_for

\* What an ended epoch owes a Player is a natural, in each of the three cases.
LEMMA EpochWeightNat ==
  ASSUME TypeOK, NEW p \in Players, NEW e \in EpochIds
  PROVE  /\ EpochWeight(players[p], e, epochs[e]) \in Nat
         /\ EpochPrincipalSeconds(players[p], e, epochs[e]) \in Nat
<1> DEFINE plr == players[p]
           ep  == epochs[e]
<1>1. plr \in PlayerRec /\ ep \in EpochRec
  BY DEF TypeOK
<1>2. /\ plr.principal \in Nat /\ plr.entries \in Nat /\ plr.weight_acc \in Nat
      /\ plr.principal_acc \in Nat /\ plr.last_update \in Int
      /\ plr.frozen_weight \in Nat /\ plr.frozen_principal_acc \in Nat
      /\ ep.starts_at \in Int /\ ep.ends_at \in Int
  BY <1>1 DEF PlayerRec, EpochRec
<1>3. /\ weight_of(plr.entries, elapsed(plr.last_update, ep.ends_at)) \in Nat
      /\ weight_of(plr.principal, elapsed(plr.last_update, ep.ends_at)) \in Nat
      /\ weight_of(plr.principal, elapsed(ep.starts_at, ep.ends_at)) \in Nat
  BY <1>2, WeightNat
<1> QED
  BY <1>2, <1>3 DEF EpochWeight, EpochPrincipalSeconds

\* A yield credit never exceeds the budget it is taken from.
LEMMA CreditBounded ==
  ASSUME TypeOK, NEW p \in Players, NEW e \in EpochIds
  PROVE  /\ YieldCredit(players[p], e) \in Nat
         /\ YieldCredit(players[p], e) <= pool.yield_budget
<1>1. pool.yield_budget \in Nat /\ params.base_rate_bps \in Nat
  BY DEF TypeOK, PoolRec, ParamRec
<1>2. yield_for(EpochPrincipalSeconds(players[p], e, epochs[e]), params.base_rate_bps,
                BPS_DENOMINATOR, SECONDS_PER_YEAR) \in Nat
  BY <1>1, EpochWeightNat, YieldNat
<1> QED
  BY <1>1, <1>2 DEF YieldCredit, MinOf

\* register.
LEMMA RegisterType ==
  ASSUME TypeOK, NEW e \in EpochIds, NEW p \in Players, register(e, p)
  PROVE  TypeOK'
<1> DEFINE plr      == players[p]
           w        == EpochWeight(plr, e, epochs[e])
           credited == YieldCredit(plr, e)
           base     == IF credited > 0 THEN touch(plr, pool, now) ELSE plr
           paid     == credit_yield(plr, e)
           from     == RegStart(e)
<1>1. plr \in PlayerRec /\ pool \in PoolRec /\ epochs[e] \in EpochRec /\ e \in Nat
  BY DEF TypeOK, EpochIds
<1>2. credited \in Nat /\ credited <= pool.yield_budget
  BY CreditBounded
<1>3. base \in PlayerRec
  BY <1>1, PlayerTouchType
<1>4. base.principal + credited \in Nat /\ base.entries + credited \in Nat
  BY <1>2, <1>3 DEF PlayerRec
<1>5. paid = [base EXCEPT !.principal = @ + credited, !.entries = @ + credited,
                          !.yield_epoch = e]
  BY DEF credit_yield
<1>6. paid \in PlayerRec
  <2> HIDE DEF base, paid, credited
  <2> QED
    BY <1>1, <1>3, <1>4, <1>5 DEF PlayerRec
<1>7. w \in Nat /\ from \in Nat /\ from + w \in Nat /\ epochs[e].registered_count + 1 \in Nat
  BY <1>1, EpochWeightNat DEF RegStart, EpochRec
<1>8. [paid EXCEPT !.reg_epoch = e, !.reg_start = from, !.reg_end = from + w] \in PlayerRec
  BY <1>1, <1>6, <1>7 DEF PlayerRec
<1>9. [epochs[e] EXCEPT !.registered_weight = from + w, !.registered_count = @ + 1] \in EpochRec
  BY <1>1, <1>7 DEF EpochRec
<1>10. pool.total_principal + credited \in Nat /\ pool.yield_budget - credited \in Nat
  BY <1>1, <1>2 DEF PoolRec
<1>11. pool' \in PoolRec
  BY <1>1, <1>10 DEF register, PoolRec
<1>12. players' \in [Players -> PlayerRec]
  BY <1>6, <1>8 DEF register, TypeOK
<1>13. epochs' \in [EpochIds -> EpochRec]
  BY <1>9 DEF register, TypeOK
<1> QED
  BY <1>11, <1>12, <1>13 DEF register, TypeOK

\* fund_jackpot and fund_yield.
LEMMA FundingType ==
  ASSUME TypeOK, FundingNext
  PROVE  TypeOK'
<1> PICK amount \in Amounts : fund_jackpot(amount) \/ fund_yield(amount)
  BY DEF FundingNext
<1>1. pool \in PoolRec /\ tokens \in TokenRec /\ amount \in Nat
  BY AmountsAssumption DEF TypeOK
<1>2. /\ tokens.jackpot_vault + amount \in Nat
      /\ tokens.principal_vault + amount \in Nat
      /\ pool.yield_budget + amount \in Nat
  BY <1>1 DEF TokenRec, PoolRec
<1>3. CASE fund_jackpot(amount)
  <2>1. tokens' \in TokenRec
    BY <1>1, <1>2, <1>3 DEF fund_jackpot, TokenRec
  <2> QED
    BY <1>3, <2>1 DEF fund_jackpot, TypeOK
<1>4. CASE fund_yield(amount)
  <2>1. tokens' \in TokenRec
    BY <1>1, <1>2, <1>4 DEF fund_yield, TokenRec
  <2>2. pool' \in PoolRec
    BY <1>1, <1>2, <1>4 DEF fund_yield, PoolRec
  <2> QED
    BY <1>4, <2>1, <2>2 DEF fund_yield, TypeOK
<1> QED
  BY <1>3, <1>4

\* close_registration, both outcomes.
LEMMA CloseRegistrationType ==
  ASSUME TypeOK, NEW s \in Keys, NEW e \in EpochIds, close_registration(s, e)
  PROVE  TypeOK'
<1> DEFINE prize == JackpotOnOffer
<1>1. pool \in PoolRec /\ tokens \in TokenRec /\ epochs[e] \in EpochRec /\ now \in Int
  BY DEF TypeOK
<1>2. prize \in Nat
  BY <1>1 DEF JackpotOnOffer, SatSub, PoolRec, TokenRec
<1>3. pool.jackpot_reserved + prize \in Nat
  BY <1>1, <1>2 DEF PoolRec
<1>4. [epochs[e] EXCEPT !.status = "RolledOver", !.jackpot_amount = prize] \in EpochRec
  BY <1>1, <1>2 DEF EpochRec, EpochStatus
<1>5. [epochs[e] EXCEPT !.status = "Drawing", !.jackpot_amount = prize,
                        !.requested_at = now] \in EpochRec
  BY <1>1, <1>2 DEF EpochRec, EpochStatus
<1>6. epochs' \in [EpochIds -> EpochRec]
  BY <1>4, <1>5 DEF close_registration, TypeOK
<1>7. pool' \in PoolRec
  BY <1>1, <1>3 DEF close_registration, PoolRec
<1> QED
  BY <1>6, <1>7 DEF close_registration, TypeOK

\* payout, House and depositor.
LEMMA PayoutType ==
  ASSUME TypeOK, NEW e \in EpochIds, NEW p \in Players, payout(e, p)
  PROVE  TypeOK'
<1> DEFINE amount == epochs[e].jackpot_amount
           plr    == touch(players[p], pool, now)
           half   == amount \div 2
           fifth  == amount \div 5
<1>1. pool \in PoolRec /\ tokens \in TokenRec /\ epochs[e] \in EpochRec /\ plr \in PlayerRec
  BY PlayerTouchType DEF TypeOK
<1>2. amount \in Nat
  BY <1>1 DEF EpochRec
<1>3. half \in Nat /\ fifth \in Nat
  BY <1>2
<1>4. pool.jackpot_reserved >= amount
  BY DEF payout
<1>5. pool.jackpot_reserved - amount \in Nat /\ pool.total_principal + amount \in Nat
  BY <1>1, <1>2, <1>4 DEF PoolRec
<1>6. pool' \in PoolRec
  <2>1. \/ pool' = [pool EXCEPT !.jackpot_reserved = @ - amount]
        \/ pool' = [pool EXCEPT !.jackpot_reserved = @ - amount, !.total_principal = @ + amount]
    BY DEF payout
  <2> QED
    BY <1>1, <1>5, <2>1 DEF PoolRec
<1>7. plr.principal + amount \in Nat /\ plr.entries + amount \in Nat
  BY <1>1, <1>2 DEF PlayerRec
<1>8. [plr EXCEPT !.principal = @ + amount, !.entries = @ + amount] \in PlayerRec
  BY <1>1, <1>7 DEF PlayerRec
<1>9. players' \in [Players -> PlayerRec]
  BY <1>8 DEF payout, TypeOK
<1>10. tokens' \in TokenRec
  <2>1. CASE p = House
    <3>1. tokens.jackpot_vault >= half + fifth
      BY <2>1 DEF payout
    <3>2. /\ tokens.jackpot_vault - half - fifth \in Nat
          /\ tokens.buyback_reserve + half \in Nat
          /\ tokens.treasury + fifth \in Nat
      BY <1>1, <1>3, <3>1 DEF TokenRec
    <3>3. tokens' = [tokens EXCEPT !.jackpot_vault   = @ - half - fifth,
                                   !.buyback_reserve = @ + half,
                                   !.treasury        = @ + fifth]
      BY <2>1 DEF payout
    <3> HIDE DEF half, fifth
    <3> QED
      BY <1>1, <3>2, <3>3 DEF TokenRec
  <2>2. CASE p # House
    <3>1. tokens.jackpot_vault >= amount
      BY <2>2 DEF payout
    <3>2. tokens.jackpot_vault - amount \in Nat /\ tokens.principal_vault + amount \in Nat
      BY <1>1, <1>2, <3>1 DEF TokenRec
    <3>3. tokens' = [tokens EXCEPT !.jackpot_vault   = @ - amount,
                                   !.principal_vault = @ + amount]
      BY <2>2 DEF payout
    <3> QED
      BY <1>1, <3>2, <3>3 DEF TokenRec
  <2> QED
    BY <2>1, <2>2
<1>11. [epochs[e] EXCEPT !.status = "Paid", !.winner = p] \in EpochRec
  BY <1>1 DEF EpochRec, EpochStatus
<1>12. epochs' \in [EpochIds -> EpochRec]
  BY <1>11 DEF payout, TypeOK
<1> QED
  BY <1>6, <1>9, <1>10, <1>12 DEF payout, TypeOK

\* ORAO's answer and draw.
LEMMA DrawType ==
  ASSUME TypeOK, NEW e \in EpochIds,
         \/ FulfillEpoch(e)
         \/ \E target \in 0..(epochs[e].registered_weight - 1) : draw(e, target)
  PROVE  TypeOK'
<1>1. epochs[e] \in EpochRec /\ now \in Int
  BY DEF TypeOK
<1>2. CASE FulfillEpoch(e)
  <2>1. [epochs[e] EXCEPT !.fulfilled = TRUE] \in EpochRec
    BY <1>1 DEF EpochRec
  <2> QED
    BY <1>2, <2>1 DEF FulfillEpoch, TypeOK
<1>3. ASSUME NEW target \in 0..(epochs[e].registered_weight - 1), draw(e, target)
      PROVE  TypeOK'
  <2>1. target \in Nat
    BY <1>1 DEF EpochRec
  <2>2. [epochs[e] EXCEPT !.status = "Drawn", !.target = target, !.drawn_at = now] \in EpochRec
    BY <1>1, <2>1 DEF EpochRec, EpochStatus
  <2> QED
    BY <1>3, <2>2 DEF draw, TypeOK
<1> QED
  BY <1>2, <1>3

\* rollover_epoch.
LEMMA RolloverType ==
  ASSUME TypeOK, NEW e \in EpochIds, rollover_epoch(e)
  PROVE  TypeOK'
<1>1. epochs[e] \in EpochRec /\ pool \in PoolRec
  BY DEF TypeOK
<1>2. pool.jackpot_reserved >= epochs[e].jackpot_amount
  BY DEF rollover_epoch
<1>3. pool.jackpot_reserved - epochs[e].jackpot_amount \in Nat
  BY <1>1, <1>2 DEF EpochRec, PoolRec
<1>4. [epochs[e] EXCEPT !.status = "RolledOver"] \in EpochRec
  BY <1>1 DEF EpochRec, EpochStatus
<1>5. pool' \in PoolRec
  BY <1>1, <1>3 DEF rollover_epoch, PoolRec
<1> QED
  BY <1>4, <1>5 DEF rollover_epoch, TypeOK

\* All instructions of epochs.rs.
LEMMA EpochsType ==
  ASSUME TypeOK, ValidParams(params), EpochsNext
  PROVE  TypeOK'
  BY BeginType, CloseRegistrationType, RegisterType, PayoutType, DrawType, RolloverType,
     FundingType DEF EpochsNext, OperatorEpochNext, AnyoneEpochNext

-----------------------------------------------------------------------------
(* Rounds                                                                  *)

\* A Round account that does not exist is well typed.
LEMMA NoRoundType == NoRound \in RoundRec
  BY DEF NoRound, RoundRec, RoundStatus

\* create_round.
LEMMA CreateRoundType ==
  ASSUME TypeOK, NEW s \in Keys, NEW starts_at \in Int, create_round(s, starts_at)
  PROVE  TypeOK'
<1>1. pool \in PoolRec
  BY DEF TypeOK
<1>2. /\ starts_at + params.round_seconds \in Int
      /\ pool.current_epoch_id \in Nat /\ pool.carry_pot \in Nat
      /\ pool.next_round_id \in Nat /\ pool.next_round_id + 1 \in Nat
  BY <1>1 DEF TypeOK, ParamRec, PoolRec
<1>3. [NoRound EXCEPT !.status = "Open", !.epoch_id = pool.current_epoch_id,
                      !.starts_at = starts_at, !.ends_at = starts_at + params.round_seconds,
                      !.pot = pool.carry_pot] \in RoundRec
  BY <1>2, NoRoundType DEF RoundRec, RoundStatus
<1>4. rounds' \in [RoundIds -> RoundRec]
  BY <1>3 DEF create_round, TypeOK
<1>5. pool' \in PoolRec
  BY <1>1, <1>2 DEF create_round, PoolRec
<1> QED
  BY <1>4, <1>5 DEF create_round, TypeOK

\* buy_position: the stake is covered by the touched Entries.
LEMMA BuyPositionType ==
  ASSUME TypeOK, NEW p \in Owners, NEW r \in RoundIds, NEW tiles \in SUBSET Tiles,
         NEW stake \in Stakes, buy_position(p, r, tiles, stake)
  PROVE  TypeOK'
<1> DEFINE plr   == touch(players[p], pool, now)
           total == stake * Cardinality(tiles)
           len   == rounds[r].ends_at - now
<1>1. /\ plr \in PlayerRec /\ rounds[r] \in RoundRec /\ now \in Int /\ stake \in Nat
  BY PlayerTouchType, AmountsAssumption DEF TypeOK, Players
<1>2. total \in Nat
  <2>1. Cardinality(tiles) \in Nat
    BY BoardAssumption, FS_Subset, FS_CardinalityType
  <2> QED
    BY <1>1, <2>1, NatProduct
<1> HIDE DEF total
<1>3. plr.entries >= total /\ rounds[r].ends_at >= now
  BY DEF buy_position, total
<1>4. len \in Nat
  BY <1>1, <1>3 DEF RoundRec
<1>5. weight_of(total, len) \in Nat
  BY <1>2, <1>4, NatProduct DEF weight_of
<1>6. plr.weight_acc + weight_of(total, len) \in Nat /\ plr.entries - total \in Nat
  <2> HIDE DEF plr, len
  <2> QED
    BY <1>1, <1>2, <1>3, <1>5 DEF PlayerRec
<1>7. [plr EXCEPT !.weight_acc = @ + weight_of(total, len), !.entries = @ - total] \in PlayerRec
  <2> HIDE DEF plr, len
  <2> QED
    BY <1>1, <1>6 DEF PlayerRec
<1>8. players' \in [Players -> PlayerRec]
  BY <1>7 DEF buy_position, TypeOK, total
<1>9. StakedOn(rounds[r].tile_totals, tiles, stake) \in [Tiles -> Nat]
  BY <1>1 DEF StakedOn, RoundRec
<1>10. rounds[r].pot + total \in Nat /\ rounds[r].open_positions + 1 \in Nat
  BY <1>1, <1>2 DEF RoundRec
<1>11. [rounds[r] EXCEPT !.tile_totals = StakedOn(@, tiles, stake), !.pot = @ + total,
                         !.open_positions = @ + 1] \in RoundRec
  BY <1>1, <1>9, <1>10 DEF RoundRec
<1>12. rounds' \in [RoundIds -> RoundRec]
  BY <1>11 DEF buy_position, TypeOK, total
<1>13. [tiles |-> tiles, stake_per_tile |-> stake] \in PositionRec
  BY <1>1 DEF PositionRec
<1>14. positions' \in [RoundIds -> [Owners -> PositionRec]]
  BY <1>13 DEF buy_position, TypeOK
<1> QED
  BY <1>8, <1>12, <1>14 DEF buy_position, TypeOK

\* The house cut is a natural.
LEMMA HouseCutNat ==
  ASSUME TypeOK, NEW r \in RoundIds
  PROVE  HouseCut(r) \in Nat
<1>1. rounds[r].pot \in Nat /\ params.house_cut_bps \in Nat
  BY DEF TypeOK, RoundRec, ParamRec
<1>2. rounds[r].pot * params.house_cut_bps \in Nat
  BY <1>1, NatProduct
<1>3. \A a, b \in Nat : b > 0 => a \div b \in Nat
  OBVIOUS
<1> QED
  BY <1>2, <1>3, UnitsAssumption DEF HouseCut

\* settle_round, settled and forfeited.
LEMMA SettleRoundType ==
  ASSUME TypeOK, NEW r \in RoundIds, NEW tile \in Tiles, settle_round(r, tile)
  PROVE  TypeOK'
<1> DEFINE forfeited    == rounds[r].tile_totals[tile] = 0
           house_cut    == IF forfeited THEN 0 ELSE HouseCut(r)
           house_credit == IF forfeited THEN rounds[r].pot ELSE house_cut
           house        == touch(players[House], pool, now)
           status       == IF forfeited THEN "Forfeited" ELSE "Settled"
<1>1. pool \in PoolRec /\ rounds[r] \in RoundRec /\ house \in PlayerRec
  BY PlayerTouchType DEF TypeOK, Players
<1>2. house_cut \in Nat /\ house_credit \in Nat
  BY <1>1, HouseCutNat DEF RoundRec
<1>3. status \in RoundStatus
  BY DEF RoundStatus
<1>4. /\ rounds' = [rounds EXCEPT ![r] = [rounds[r] EXCEPT !.status = status,
                                                          !.house_cut = house_cut,
                                                          !.winning_tile = tile]]
      /\ pool' = [pool EXCEPT !.open_round_id = 0]
      /\ \/ players' = players
         \/ players' = [players EXCEPT ![House] =
                          [house EXCEPT !.entries = house.entries + house_credit]]
  BY DEF settle_round, TypeOK
<1>5. UNCHANGED <<now, params, epochs, positions, tokens>>
  BY DEF settle_round
<1> HIDE DEF forfeited, house_cut, house_credit, house, status
<1>6. house.entries + house_credit \in Nat
  BY <1>1, <1>2 DEF PlayerRec
<1>7. [house EXCEPT !.entries = house.entries + house_credit] \in PlayerRec
  BY <1>1, <1>6 DEF PlayerRec
<1>8. players' \in [Players -> PlayerRec]
  BY <1>4, <1>7 DEF TypeOK
<1>9. [rounds[r] EXCEPT !.status = status, !.house_cut = house_cut, !.winning_tile = tile]
        \in RoundRec
  BY <1>1, <1>2, <1>3 DEF RoundRec
<1>10. rounds' \in [RoundIds -> RoundRec]
  BY <1>4, <1>9 DEF TypeOK
<1>11. pool' \in PoolRec
  BY <1>1, <1>4 DEF PoolRec
<1> QED
  BY <1>5, <1>8, <1>10, <1>11 DEF TypeOK

\* A position's share of the pot is a natural under settle_position's checks.
LEMMA RewardNat ==
  ASSUME TypeOK, NEW p \in Owners, NEW r \in RoundIds,
         Rewarded(r, p) => /\ rounds[r].pot >= rounds[r].house_cut
                           /\ rounds[r].tile_totals[rounds[r].winning_tile] > 0
  PROVE  Reward(r, p) \in Nat
<1>1. rounds[r] \in RoundRec /\ positions[r][p] \in PositionRec
  BY DEF TypeOK
<1>2. CASE Rewarded(r, p)
  <2> DEFINE net   == rounds[r].pot - rounds[r].house_cut
             stake == positions[r][p].stake_per_tile
             total == rounds[r].tile_totals[rounds[r].winning_tile]
  <2>1. rounds[r].winning_tile \in Tiles
    BY <1>1, <1>2 DEF Rewarded, PositionRec
  <2>2. total \in Nat /\ stake \in Nat /\ net \in Nat /\ total > 0
    BY <1>1, <1>2, <2>1 DEF RoundRec, PositionRec
  <2>3. Reward(r, p) = (net * stake) \div total
    BY <1>2 DEF Reward
  <2> HIDE DEF net, stake, total
  <2>4. net * stake \in Nat
    BY <2>2, NatProduct
  <2>5. \A a, b \in Nat : b > 0 => a \div b \in Nat
    OBVIOUS
  <2> QED
    BY <2>2, <2>3, <2>4, <2>5
<1>3. CASE ~Rewarded(r, p)
  BY <1>3 DEF Reward
<1> QED
  BY <1>2, <1>3

\* settle_position.
LEMMA SettlePositionType ==
  ASSUME TypeOK, NEW p \in Owners, NEW r \in RoundIds, settle_position(p, r)
  PROVE  TypeOK'
<1> DEFINE plr == touch(players[p], pool, now)
<1>1. plr \in PlayerRec /\ rounds[r] \in RoundRec
  BY PlayerTouchType DEF TypeOK, Players
<1>2. Reward(r, p) \in Nat
  BY RewardNat DEF settle_position
<1>3. /\ players' = [players EXCEPT ![p] =
                       [plr EXCEPT !.entries = plr.entries + Reward(r, p)]]
      /\ rounds' = [rounds EXCEPT ![r] =
                      [rounds[r] EXCEPT !.open_positions = rounds[r].open_positions - 1]]
      /\ rounds[r].open_positions >= 1
  BY DEF settle_position, TypeOK
<1>4. positions' = [positions EXCEPT ![r] = [positions[r] EXCEPT ![p] = NoPosition]]
  BY DEF settle_position, TypeOK
<1> HIDE DEF plr
<1>5. plr.entries + Reward(r, p) \in Nat /\ rounds[r].open_positions - 1 \in Nat
  BY <1>1, <1>2, <1>3 DEF PlayerRec, RoundRec
<1>6. [plr EXCEPT !.entries = plr.entries + Reward(r, p)] \in PlayerRec
  BY <1>1, <1>5 DEF PlayerRec
<1>7. players' \in [Players -> PlayerRec]
  BY <1>3, <1>6 DEF TypeOK
<1>8. [rounds[r] EXCEPT !.open_positions = rounds[r].open_positions - 1] \in RoundRec
  BY <1>1, <1>5 DEF RoundRec
<1>9. rounds' \in [RoundIds -> RoundRec]
  BY <1>3, <1>8 DEF TypeOK
<1>10. NoPosition \in PositionRec
  BY DEF NoPosition, PositionRec
<1>11. positions' \in [RoundIds -> [Owners -> PositionRec]]
  BY <1>4, <1>10 DEF TypeOK
<1> QED
  BY <1>7, <1>9, <1>11 DEF settle_position, TypeOK

\* Requesting, ORAO's answer, voiding and closing.
LEMMA FinishRoundType ==
  ASSUME TypeOK, NEW r \in RoundIds,
         \/ request_round_randomness(r) \/ FulfillRound(r) \/ void_round(r) \/ close_round(r)
  PROVE  TypeOK'
<1>1. rounds[r] \in RoundRec /\ pool \in PoolRec /\ now \in Int
  BY DEF TypeOK
<1>2. CASE request_round_randomness(r)
  <2>1. [rounds[r] EXCEPT !.status = "Requested", !.requested_at = now] \in RoundRec
    BY <1>1 DEF RoundRec, RoundStatus
  <2> QED
    BY <1>2, <2>1 DEF request_round_randomness, TypeOK
<1>3. CASE FulfillRound(r)
  <2>1. [rounds[r] EXCEPT !.fulfilled = TRUE] \in RoundRec
    BY <1>1 DEF RoundRec
  <2> QED
    BY <1>3, <2>1 DEF FulfillRound, TypeOK
<1>4. CASE void_round(r)
  <2>1. [rounds[r] EXCEPT !.status = "Voided"] \in RoundRec
    BY <1>1 DEF RoundRec, RoundStatus
  <2>2. pool.carry_pot + rounds[r].pot \in Nat
    BY <1>1 DEF RoundRec, PoolRec
  <2>3. pool' \in PoolRec
    BY <1>1, <1>4, <2>2 DEF void_round, PoolRec
  <2> QED
    BY <1>4, <2>1, <2>3 DEF void_round, TypeOK
<1>5. CASE close_round(r)
  <2>1. [NoRound EXCEPT !.status = "Closed"] \in RoundRec
    BY NoRoundType DEF RoundRec, RoundStatus
  <2> QED
    BY <1>5, <2>1 DEF close_round, TypeOK
<1> QED
  BY <1>2, <1>3, <1>4, <1>5

\* All instructions of rounds.rs.
LEMMA RoundsType ==
  ASSUME TypeOK, RoundsNext
  PROVE  TypeOK'
<1>1. ASSUME NEW s \in Keys, NEW starts_at \in now..(now + MaxLead), create_round(s, starts_at)
      PROVE  TypeOK'
  <2>1. starts_at \in Int
    BY BoundsAssumption DEF TypeOK
  <2> QED
    BY <1>1, <2>1, CreateRoundType
<1> QED
  BY <1>1, BuyPositionType, SettlePositionType, SettleRoundType, FinishRoundType
  DEF RoundsNext, OperatorRoundNext, PlayNext, AnyoneRoundNext

\* The game leaves the clock, the parameters, the epochs and all USDC alone.
LEMMA RoundsFrame ==
  ASSUME RoundsNext
  PROVE  UNCHANGED <<now, params, epochs, tokens>>
<1>1. ASSUME NEW s \in Keys, NEW starts_at \in now..(now + MaxLead), create_round(s, starts_at)
      PROVE  UNCHANGED <<now, params, epochs, tokens>>
  BY <1>1 DEF create_round
<1>2. ASSUME NEW p \in Owners, NEW r \in RoundIds, NEW tiles \in SUBSET Tiles,
             NEW stake \in Stakes, buy_position(p, r, tiles, stake)
      PROVE  UNCHANGED <<now, params, epochs, tokens>>
  BY <1>2 DEF buy_position
<1>3. ASSUME NEW p \in Owners, NEW r \in RoundIds, settle_position(p, r)
      PROVE  UNCHANGED <<now, params, epochs, tokens>>
  BY <1>3 DEF settle_position
<1>4. ASSUME NEW r \in RoundIds, NEW tile \in Tiles, settle_round(r, tile)
      PROVE  UNCHANGED <<now, params, epochs, tokens>>
  BY <1>4 DEF settle_round
<1>5. ASSUME NEW r \in RoundIds,
             \/ request_round_randomness(r) \/ FulfillRound(r) \/ void_round(r) \/ close_round(r)
      PROVE  UNCHANGED <<now, params, epochs, tokens>>
  BY <1>5 DEF request_round_randomness, FulfillRound, void_round, close_round
<1> QED
  BY <1>1, <1>2, <1>3, <1>4, <1>5
  DEF RoundsNext, OperatorRoundNext, PlayNext, AnyoneRoundNext

\* Staking and claiming leave the Pool account alone.
LEMMA PlayFrame ==
  ASSUME PlayNext
  PROVE  pool' = pool
<1>1. ASSUME NEW p \in Owners, NEW r \in RoundIds, NEW tiles \in SUBSET Tiles,
             NEW stake \in Stakes, buy_position(p, r, tiles, stake)
      PROVE  pool' = pool
  BY <1>1 DEF buy_position
<1>2. ASSUME NEW p \in Owners, NEW r \in RoundIds, settle_position(p, r)
      PROVE  pool' = pool
  BY <1>2 DEF settle_position
<1> QED
  BY <1>1, <1>2 DEF PlayNext

-----------------------------------------------------------------------------
(* Type correctness                                                        *)

ParamsValid == ValidParams(params)

\* create_pool leaves well-typed accounts and valid parameters.
LEMMA InitType == Init => TypeOK /\ ParamsValid
<1> SUFFICES ASSUME Init PROVE TypeOK /\ ParamsValid
  OBVIOUS
<1>1. ParamsValid /\ params \in ParamRec
  BY InitParamsAssumption DEF Init, InitWith, ParamsValid, ValidParams
<1>2. now \in Nat /\ StartTime \in Int
  BY BoundsAssumption DEF Init, InitWith
<1>3. pool \in PoolRec
  BY KeysAssumption DEF Init, InitWith, PoolRec
<1>4. NoPlayer \in PlayerRec
  BY DEF NoPlayer, PlayerRec
<1>5. [NoPlayer EXCEPT !.live = TRUE, !.last_update = StartTime] \in PlayerRec
  BY <1>2, <1>4 DEF PlayerRec
<1>6. players \in [Players -> PlayerRec]
  BY <1>4, <1>5 DEF Init, InitWith
<1>7. epochs \in [EpochIds -> EpochRec] /\ rounds \in [RoundIds -> RoundRec]
  BY NoEpochType, NoRoundType DEF Init, InitWith
<1>8. NoPosition \in PositionRec
  BY DEF NoPosition, PositionRec
<1>9. positions \in [RoundIds -> [Owners -> PositionRec]]
  BY <1>8 DEF Init, InitWith
<1>10. tokens \in TokenRec
  BY DEF Init, InitWith, TokenRec
<1> QED
  BY <1>1, <1>2, <1>3, <1>6, <1>7, <1>9, <1>10 DEF TypeOK

\* So does every step of anybody.
LEMMA NextType ==
  ASSUME TypeOK, ParamsValid, [Next]_vars
  PROVE  TypeOK' /\ ParamsValid'
<1>1. CASE Tick
  BY <1>1 DEF Tick, TypeOK, ParamsValid
<1>2. CASE AdminNext
  <2>1. ParamsValid'
    BY <1>2 DEF AdminNext, set_params, set_pause, set_feature_pause, shutdown, set_operator,
                propose_admin, accept_admin, ParamsValid
  <2> QED
    BY <1>2, <2>1, AdminType
<1>3. CASE DepositorNext \/ TreasuryNext \/ GrantNext
  <2>1. params' = params
    BY <1>3 DEF DepositorNext, TreasuryNext, GrantNext, deposit, request_withdraw, buy_tickets,
                process_withdraw, emergency_withdraw, admin_withdraw, return_principal,
                sweep_house, grant_tickets, grant_tickets_operator, grant_tickets_admin
  <2> QED
    BY <1>3, <2>1, DepositorType, TreasuryType, GrantType DEF ParamsValid
<1>4. CASE EpochsNext
  <2>1. params' = params
    BY <1>4 DEF EpochsNext, OperatorEpochNext, AnyoneEpochNext, FundingNext, begin_epoch,
                close_registration, register, payout, draw, rollover_epoch, FulfillEpoch,
                fund_jackpot, fund_yield
  <2> QED
    BY <1>4, <2>1, EpochsType DEF ParamsValid
<1>5. CASE RoundsNext
  <2>1. params' = params
    BY <1>5, RoundsFrame
  <2> QED
    BY <1>5, <2>1, RoundsType DEF ParamsValid
<1>6. CASE UNCHANGED vars
  BY <1>6 DEF vars, TypeOK, ParamsValid
<1> QED
  BY <1>1, <1>2, <1>3, <1>4, <1>5, <1>6 DEF Next, CustodyNext

\* Type correctness of the whole program: no instruction drives an unsigned
\* field of any account (a balance, a counter, an accumulator) below zero.
\* Parameters stay valid (ParamsValid) because create_pool and set_params are
\* the only writers; without it the epoch grid would divide by zero.
THEOREM TypeCorrect == Spec => []TypeOK
<1>1. Init => TypeOK /\ ParamsValid
  BY InitType
<1>2. (TypeOK /\ ParamsValid) /\ [Next]_vars => (TypeOK /\ ParamsValid)'
  BY NextType
<1> QED
  BY <1>1, <1>2, PTL DEF Spec


-----------------------------------------------------------------------------
(* Money. Both invariants speak of four Pool totals and the token accounts *)
(* only, so a step that leaves those alone keeps them.                     *)

Money == Backing /\ JackpotCovered

SameTotals ==
  /\ pool'.total_principal     = pool.total_principal
  /\ pool'.pending_withdrawals = pool.pending_withdrawals
  /\ pool'.yield_budget        = pool.yield_budget
  /\ pool'.jackpot_reserved    = pool.jackpot_reserved

\* The totals and balances are integers, so sums and differences of them are.
LEMMA MoneyTypes ==
  ASSUME TypeOK
  PROVE  /\ pool.total_principal \in Nat /\ pool.pending_withdrawals \in Nat
         /\ pool.yield_budget \in Nat /\ pool.jackpot_reserved \in Nat
         /\ tokens.principal_vault \in Nat /\ tokens.jackpot_vault \in Nat
         /\ tokens.admin \in Int
  BY DEF TypeOK, PoolRec, TokenRec

\* A step that moves neither totals nor tokens keeps both invariants.
LEMMA MoneyFrame ==
  ASSUME Money, SameTotals, tokens' = tokens
  PROVE  Money'
  BY DEF Money, Backing, JackpotCovered, SameTotals

\* Roles, parameters and switches move no money.
LEMMA AdminMoney ==
  ASSUME TypeOK, Money, AdminNext
  PROVE  Money'
<1>1. tokens' = tokens
  BY DEF AdminNext, set_params, set_pause, set_feature_pause, shutdown, set_operator,
         propose_admin, accept_admin
<1>2. SameTotals
  BY DEF AdminNext, set_params, set_pause, set_feature_pause, shutdown, set_operator,
         propose_admin, accept_admin, SameTotals, TypeOK, PoolRec
<1> QED
  BY <1>1, <1>2, MoneyFrame

\* A deposit adds the same amount to the vault and to total_principal.
LEMMA DepositMoney ==
  ASSUME TypeOK, Money, NEW p \in Players, NEW amount \in Amounts, deposit(p, amount)
  PROVE  Money'
<1>1. pool \in PoolRec /\ tokens \in TokenRec /\ amount \in Nat
  BY AmountsAssumption DEF TypeOK
<1>2. /\ pool'.total_principal = pool.total_principal + amount
      /\ pool'.pending_withdrawals = pool.pending_withdrawals
      /\ pool'.yield_budget = pool.yield_budget
      /\ pool'.jackpot_reserved = pool.jackpot_reserved
  BY <1>1 DEF deposit, PoolRec
<1>3. /\ tokens'.principal_vault = tokens.principal_vault + amount
      /\ tokens'.jackpot_vault = tokens.jackpot_vault
      /\ tokens'.admin = tokens.admin
  BY <1>1 DEF deposit, TokenRec
<1> QED
  BY <1>1, <1>2, <1>3, MoneyTypes DEF Money, Backing, JackpotCovered

\* A request moves its amount from total_principal to pending_withdrawals.
LEMMA RequestMoney ==
  ASSUME TypeOK, Money, NEW p \in Players, NEW amount \in Amounts, request_withdraw(p, amount)
  PROVE  Money'
<1>1. pool \in PoolRec /\ amount \in Nat /\ tokens' = tokens
  BY AmountsAssumption DEF TypeOK, request_withdraw
<1>2. /\ pool'.total_principal = pool.total_principal - amount
      /\ pool'.pending_withdrawals = pool.pending_withdrawals + amount
      /\ pool'.yield_budget = pool.yield_budget
      /\ pool'.jackpot_reserved = pool.jackpot_reserved
  BY <1>1 DEF request_withdraw, PoolRec
<1> QED
  BY <1>1, <1>2, MoneyTypes DEF Money, Backing, JackpotCovered

\* Ticket money only ever reaches the jackpot vault.
LEMMA BuyTicketsMoney ==
  ASSUME TypeOK, Money, NEW p \in Players, NEW amount \in Amounts, buy_tickets(p, amount)
  PROVE  Money'
<1>1. tokens \in TokenRec /\ amount \in Nat /\ pool' = pool
  BY AmountsAssumption DEF TypeOK, buy_tickets
<1>2. /\ tokens'.principal_vault = tokens.principal_vault
      /\ tokens'.jackpot_vault = tokens.jackpot_vault + amount
      /\ tokens'.admin = tokens.admin
  BY <1>1 DEF buy_tickets, TokenRec
<1> QED
  BY <1>1, <1>2, MoneyTypes DEF Money, Backing, JackpotCovered

\* A processed withdrawal leaves the vault and pending_withdrawals together.
LEMMA ProcessMoney ==
  ASSUME TypeOK, Money, NEW p \in Players, process_withdraw(p)
  PROVE  Money'
<1> DEFINE pending == players[p].pending_withdraw
<1>1. pool \in PoolRec /\ tokens \in TokenRec /\ pending \in Nat
  BY DEF TypeOK, PlayerRec
<1>2. /\ pool'.total_principal = pool.total_principal
      /\ pool'.pending_withdrawals = pool.pending_withdrawals - pending
      /\ pool'.yield_budget = pool.yield_budget
      /\ pool'.jackpot_reserved = pool.jackpot_reserved
  BY <1>1 DEF process_withdraw, PoolRec
<1>3. /\ tokens'.principal_vault = tokens.principal_vault - pending
      /\ tokens'.jackpot_vault = tokens.jackpot_vault
      /\ tokens'.admin = tokens.admin
  BY <1>1 DEF process_withdraw, TokenRec
<1> QED
  BY <1>1, <1>2, <1>3, MoneyTypes DEF Money, Backing, JackpotCovered

\* The emergency exit pays exactly what it takes off the two totals.
LEMMA EmergencyMoney ==
  ASSUME TypeOK, Money, NEW p \in Players, emergency_withdraw(p)
  PROVE  Money'
<1> DEFINE plr == touch(players[p], pool, now)
<1>0. plr \in PlayerRec
  BY PlayerTouchType
<1>1. pool \in PoolRec /\ tokens \in TokenRec /\ plr.principal \in Nat
                       /\ plr.pending_withdraw \in Nat
  BY <1>0 DEF TypeOK, PlayerRec
<1>2. /\ pool'.total_principal = pool.total_principal - plr.principal
      /\ pool'.pending_withdrawals = pool.pending_withdrawals - plr.pending_withdraw
      /\ pool'.yield_budget = pool.yield_budget
      /\ pool'.jackpot_reserved = pool.jackpot_reserved
  BY <1>1 DEF emergency_withdraw, PoolRec
<1>3. /\ tokens'.principal_vault = tokens.principal_vault - (plr.principal + plr.pending_withdraw)
      /\ tokens'.jackpot_vault = tokens.jackpot_vault
      /\ tokens'.admin = tokens.admin
  <2>1. tokens' = [tokens EXCEPT !.principal_vault =
                                   @ - (plr.principal + plr.pending_withdraw)]
    BY DEF emergency_withdraw
  <2> HIDE DEF plr
  <2> QED
    BY <1>1, <2>1 DEF TokenRec
<1> QED
  <2> HIDE DEF plr
  <2>0. tokens.principal_vault + tokens.admin =
          pool.total_principal + pool.pending_withdrawals + pool.yield_budget
    BY DEF Money, Backing
  <2>3. \A v, a, t, w, y, x, z \in Int :
          v + a = t + w + y => (v - (x + z)) + a = (t - x) + (w - z) + y
    OBVIOUS
  <2>4. (tokens.principal_vault - (plr.principal + plr.pending_withdraw)) + tokens.admin =
          (pool.total_principal - plr.principal)
            + (pool.pending_withdrawals - plr.pending_withdraw) + pool.yield_budget
    BY <1>1, <2>0, <2>3, MoneyTypes
  <2>1. Backing'
    BY <1>2, <1>3, <2>4 DEF Backing
  <2>2. JackpotCovered'
    BY <1>1, <1>2, <1>3, MoneyTypes DEF Money, JackpotCovered
  <2> QED
    BY <2>1, <2>2 DEF Money

\* Lending moves USDC between the vault and the admin; a sweep takes the same
\* amount off the vault and the yield budget, and never a promised prize.
LEMMA TreasuryMoney ==
  ASSUME TypeOK, Money, TreasuryNext
  PROVE  Money'
<1>1. pool \in PoolRec /\ tokens \in TokenRec
  BY DEF TypeOK
<1>2. ASSUME NEW s \in Keys, NEW amount \in Amounts, admin_withdraw(s, amount)
      PROVE  Money'
  <2>1. amount \in Nat /\ pool' = pool
    BY <1>2, AmountsAssumption DEF admin_withdraw
  <2>2. /\ tokens'.principal_vault = tokens.principal_vault - amount
        /\ tokens'.jackpot_vault = tokens.jackpot_vault
        /\ tokens'.admin = tokens.admin + amount
    BY <1>1, <1>2 DEF admin_withdraw, TokenRec
  <2> QED
    BY <2>1, <2>2, MoneyTypes DEF Money, Backing, JackpotCovered
<1>3. ASSUME NEW amount \in Amounts, return_principal(amount)
      PROVE  Money'
  <2>1. amount \in Nat /\ pool' = pool
    BY <1>3, AmountsAssumption DEF return_principal
  <2>2. /\ tokens'.principal_vault = tokens.principal_vault + amount
        /\ tokens'.jackpot_vault = tokens.jackpot_vault
        /\ tokens'.admin = tokens.admin - amount
    BY <1>1, <1>3 DEF return_principal, TokenRec
  <2> QED
    BY <2>1, <2>2, MoneyTypes DEF Money, Backing, JackpotCovered
<1>4. ASSUME NEW s \in Keys, sweep_house(s)
      PROVE  Money'
  <2> DEFINE jackpot == SatSub(tokens.jackpot_vault, pool.jackpot_reserved)
             swept   == YieldSwept
  <2>1. jackpot = tokens.jackpot_vault - pool.jackpot_reserved
    BY MoneyTypes DEF SatSub, Money, JackpotCovered
  <2>2. swept \in Int
    BY MoneyTypes DEF YieldSwept, MinOf, SatSub
  <2>3. /\ pool'.total_principal = pool.total_principal
        /\ pool'.pending_withdrawals = pool.pending_withdrawals
        /\ pool'.yield_budget = pool.yield_budget - swept
        /\ pool'.jackpot_reserved = pool.jackpot_reserved
    BY <1>1, <1>4 DEF sweep_house, PoolRec
  <2>5. tokens' = [tokens EXCEPT !.jackpot_vault   = @ - jackpot,
                                 !.principal_vault = @ - swept,
                                 !.treasury        = @ + jackpot + swept]
    BY <1>4 DEF sweep_house
  <2> HIDE DEF jackpot, swept
  <2>4. /\ tokens'.principal_vault = tokens.principal_vault - swept
        /\ tokens'.jackpot_vault = tokens.jackpot_vault - jackpot
        /\ tokens'.admin = tokens.admin
    BY <1>1, <2>5 DEF TokenRec
  <2> QED
    <3>3. \A v, r, j \in Int : j = v - r => v - j >= r
      OBVIOUS
    <3>4. tokens.jackpot_vault - jackpot >= pool.jackpot_reserved
      BY <2>1, <3>3, MoneyTypes
    <3>5. \A v, a, t, w, y, x \in Int : v + a = t + w + y => (v - x) + a = t + w + (y - x)
      OBVIOUS
    <3>7. tokens.principal_vault + tokens.admin =
            pool.total_principal + pool.pending_withdrawals + pool.yield_budget
      BY DEF Money, Backing
    <3>8. /\ tokens.principal_vault \in Int /\ tokens.admin \in Int
          /\ pool.total_principal \in Int /\ pool.pending_withdrawals \in Int
          /\ pool.yield_budget \in Int
      BY MoneyTypes
    <3>6. (tokens.principal_vault - swept) + tokens.admin =
            pool.total_principal + pool.pending_withdrawals + (pool.yield_budget - swept)
      BY <2>2, <3>5, <3>7, <3>8
    <3>1. Backing'
      BY <2>3, <2>4, <3>6 DEF Backing
    <3>2. JackpotCovered'
      BY <2>3, <2>4, <3>4 DEF JackpotCovered
    <3> QED
      BY <3>1, <3>2 DEF Money
<1> QED
  BY <1>2, <1>3, <1>4 DEF TreasuryNext

\* Granted tickets are not money.
LEMMA GrantMoney ==
  ASSUME TypeOK, Money, GrantNext
  PROVE  Money'
<1>1. tokens' = tokens
  BY DEF GrantNext, grant_tickets, grant_tickets_operator, grant_tickets_admin
<1>2. SameTotals
  BY DEF GrantNext, grant_tickets, grant_tickets_operator, grant_tickets_admin, SameTotals,
         TypeOK, PoolRec
<1> QED
  BY <1>1, <1>2, MoneyFrame

\* Registering turns yield budget into the Principal it credits.
LEMMA RegisterMoney ==
  ASSUME TypeOK, Money, NEW e \in EpochIds, NEW p \in Players, register(e, p)
  PROVE  Money'
<1> DEFINE credited == YieldCredit(players[p], e)
<1>1. pool \in PoolRec /\ credited \in Nat /\ tokens' = tokens
  BY CreditBounded DEF TypeOK, register
<1>2. pool' = [pool EXCEPT !.total_principal = @ + credited, !.yield_budget = @ - credited]
  BY DEF register
<1> HIDE DEF credited
<1>3. /\ pool'.total_principal = pool.total_principal + credited
      /\ pool'.pending_withdrawals = pool.pending_withdrawals
      /\ pool'.yield_budget = pool.yield_budget - credited
      /\ pool'.jackpot_reserved = pool.jackpot_reserved
  BY <1>1, <1>2 DEF PoolRec
<1> QED
  BY <1>1, <1>3, MoneyTypes DEF Money, Backing, JackpotCovered

\* Funding adds to the jackpot vault, or to the vault and the budget at once.
LEMMA FundingMoney ==
  ASSUME TypeOK, Money, FundingNext
  PROVE  Money'
<1> PICK amount \in Amounts : fund_jackpot(amount) \/ fund_yield(amount)
  BY DEF FundingNext
<1>1. pool \in PoolRec /\ tokens \in TokenRec /\ amount \in Nat
  BY AmountsAssumption DEF TypeOK
<1>2. CASE fund_jackpot(amount)
  <2>1. /\ tokens'.principal_vault = tokens.principal_vault
        /\ tokens'.jackpot_vault = tokens.jackpot_vault + amount
        /\ tokens'.admin = tokens.admin
        /\ pool' = pool
    BY <1>1, <1>2 DEF fund_jackpot, TokenRec
  <2> QED
    BY <1>1, <2>1, MoneyTypes DEF Money, Backing, JackpotCovered
<1>3. CASE fund_yield(amount)
  <2>1. /\ tokens'.principal_vault = tokens.principal_vault + amount
        /\ tokens'.jackpot_vault = tokens.jackpot_vault
        /\ tokens'.admin = tokens.admin
    BY <1>1, <1>3 DEF fund_yield, TokenRec
  <2>2. /\ pool'.total_principal = pool.total_principal
        /\ pool'.pending_withdrawals = pool.pending_withdrawals
        /\ pool'.yield_budget = pool.yield_budget + amount
        /\ pool'.jackpot_reserved = pool.jackpot_reserved
    BY <1>1, <1>3 DEF fund_yield, PoolRec
  <2> QED
    <3>1. Backing'
      BY <1>1, <2>1, <2>2, MoneyTypes DEF Money, Backing
    <3>2. JackpotCovered'
      BY <1>1, <2>1, <2>2, MoneyTypes DEF Money, JackpotCovered
    <3> QED
      BY <3>1, <3>2 DEF Money
<1> QED
  BY <1>2, <1>3

\* Closing registration promises only what earlier promises leave over.
LEMMA CloseMoney ==
  ASSUME TypeOK, Money, NEW s \in Keys, NEW e \in EpochIds, close_registration(s, e)
  PROVE  Money'
<1>1. pool \in PoolRec /\ tokens' = tokens
  BY DEF TypeOK, close_registration
<1>2. JackpotOnOffer = tokens.jackpot_vault - pool.jackpot_reserved
  BY MoneyTypes DEF JackpotOnOffer, SatSub, Money, JackpotCovered
<1>3. \/ pool' = pool
      \/ pool' = [pool EXCEPT !.jackpot_reserved = @ + JackpotOnOffer]
  BY DEF close_registration
<1>4. CASE pool' = pool
  BY <1>1, <1>4 DEF Money, Backing, JackpotCovered
<1>5. CASE pool' = [pool EXCEPT !.jackpot_reserved = @ + JackpotOnOffer]
  <2>1. /\ pool'.total_principal = pool.total_principal
        /\ pool'.pending_withdrawals = pool.pending_withdrawals
        /\ pool'.yield_budget = pool.yield_budget
        /\ pool'.jackpot_reserved = pool.jackpot_reserved + JackpotOnOffer
    BY <1>1, <1>5 DEF PoolRec
  <2> QED
    BY <1>1, <1>2, <2>1, MoneyTypes DEF Money, Backing, JackpotCovered
<1> QED
  BY <1>3, <1>4, <1>5

\* A House win releases the whole promise and pays out at most 70% of it; any
\* other prize moves from the jackpot vault behind the winner's new Principal.
LEMMA PayoutMoney ==
  ASSUME TypeOK, Money, NEW e \in EpochIds, NEW p \in Players, payout(e, p)
  PROVE  Money'
<1> DEFINE amount == epochs[e].jackpot_amount
           half   == amount \div 2
           fifth  == amount \div 5
<1>1. pool \in PoolRec /\ tokens \in TokenRec /\ amount \in Nat
  BY DEF TypeOK, EpochRec
<1>2. half \in Nat /\ fifth \in Nat /\ half + fifth <= amount
  BY <1>1
<1>3. CASE p = House
  <2>1. /\ pool' = [pool EXCEPT !.jackpot_reserved = @ - amount]
        /\ tokens' = [tokens EXCEPT !.jackpot_vault   = @ - half - fifth,
                                    !.buyback_reserve = @ + half,
                                    !.treasury        = @ + fifth]
    BY <1>3 DEF payout
  <2> HIDE DEF amount, half, fifth
  <2>2. /\ pool'.total_principal = pool.total_principal
        /\ pool'.pending_withdrawals = pool.pending_withdrawals
        /\ pool'.yield_budget = pool.yield_budget
        /\ pool'.jackpot_reserved = pool.jackpot_reserved - amount
    BY <1>1, <2>1 DEF PoolRec
  <2>3. /\ tokens'.principal_vault = tokens.principal_vault
        /\ tokens'.jackpot_vault = tokens.jackpot_vault - half - fifth
        /\ tokens'.admin = tokens.admin
    BY <1>1, <2>1 DEF TokenRec
  <2> QED
    BY <1>1, <1>2, <2>2, <2>3, MoneyTypes DEF Money, Backing, JackpotCovered
<1>4. CASE p # House
  <2>1. /\ pool' = [pool EXCEPT !.jackpot_reserved = @ - amount, !.total_principal  = @ + amount]
        /\ tokens' = [tokens EXCEPT !.jackpot_vault = @ - amount, !.principal_vault = @ + amount]
    BY <1>4 DEF payout
  <2> HIDE DEF amount
  <2>2. /\ pool'.total_principal = pool.total_principal + amount
        /\ pool'.pending_withdrawals = pool.pending_withdrawals
        /\ pool'.yield_budget = pool.yield_budget
        /\ pool'.jackpot_reserved = pool.jackpot_reserved - amount
    BY <1>1, <2>1 DEF PoolRec
  <2>3. /\ tokens'.principal_vault = tokens.principal_vault + amount
        /\ tokens'.jackpot_vault = tokens.jackpot_vault - amount
        /\ tokens'.admin = tokens.admin
    BY <1>1, <2>1 DEF TokenRec
  <2> QED
    BY <1>1, <2>2, <2>3, MoneyTypes DEF Money, Backing, JackpotCovered
<1> QED
  BY <1>3, <1>4

\* A rollover releases a promise and moves nothing.
LEMMA RolloverMoney ==
  ASSUME TypeOK, Money, NEW e \in EpochIds, rollover_epoch(e)
  PROVE  Money'
<1>1. pool \in PoolRec /\ tokens' = tokens /\ epochs[e].jackpot_amount \in Nat
  BY DEF TypeOK, rollover_epoch, EpochRec
<1>2. /\ pool'.total_principal = pool.total_principal
      /\ pool'.pending_withdrawals = pool.pending_withdrawals
      /\ pool'.yield_budget = pool.yield_budget
      /\ pool'.jackpot_reserved = pool.jackpot_reserved - epochs[e].jackpot_amount
  BY <1>1 DEF rollover_epoch, PoolRec
<1> QED
  BY <1>1, <1>2, MoneyTypes DEF Money, Backing, JackpotCovered

\* Every step of an epoch's life keeps both invariants.
LEMMA EpochsMoney ==
  ASSUME TypeOK, Money, EpochsNext
  PROVE  Money'
<1>1. ASSUME NEW s \in Keys, begin_epoch(s)
      PROVE  Money'
  <2>1. tokens' = tokens
    BY <1>1 DEF begin_epoch
  <2>2. SameTotals
    BY <1>1 DEF begin_epoch, SameTotals, TypeOK, PoolRec
  <2> QED
    BY <2>1, <2>2, MoneyFrame
<1>2. ASSUME NEW e \in EpochIds,
             \/ FulfillEpoch(e)
             \/ \E target \in 0..(epochs[e].registered_weight - 1) : draw(e, target)
      PROVE  Money'
  BY <1>2 DEF FulfillEpoch, draw, Money, Backing, JackpotCovered
<1> QED
  BY <1>1, <1>2, CloseMoney, RegisterMoney, PayoutMoney, RolloverMoney, FundingMoney
  DEF EpochsNext, OperatorEpochNext, AnyoneEpochNext

\* The game moves Entries, never money.
LEMMA RoundsMoney ==
  ASSUME TypeOK, Money, RoundsNext
  PROVE  Money'
<1>1. ASSUME NEW s \in Keys, NEW starts_at \in now..(now + MaxLead), create_round(s, starts_at)
      PROVE  SameTotals
  BY <1>1 DEF create_round, SameTotals, TypeOK, PoolRec
<1>2. ASSUME NEW p \in Owners, NEW r \in RoundIds, NEW tiles \in SUBSET Tiles,
             NEW stake \in Stakes, buy_position(p, r, tiles, stake)
      PROVE  SameTotals
  BY <1>2 DEF buy_position, SameTotals
<1>3. ASSUME NEW p \in Owners, NEW r \in RoundIds, settle_position(p, r)
      PROVE  SameTotals
  BY <1>3 DEF settle_position, SameTotals
<1>4. ASSUME NEW r \in RoundIds, NEW tile \in Tiles, settle_round(r, tile)
      PROVE  SameTotals
  <2>1. pool' = [pool EXCEPT !.open_round_id = 0]
    BY <1>4 DEF settle_round
  <2> QED
    BY <2>1 DEF SameTotals, TypeOK, PoolRec
<1>5. ASSUME NEW r \in RoundIds,
             \/ request_round_randomness(r) \/ FulfillRound(r) \/ void_round(r) \/ close_round(r)
      PROVE  SameTotals
  BY <1>5 DEF request_round_randomness, FulfillRound, void_round, close_round, SameTotals,
              TypeOK, PoolRec
<1>6. SameTotals
  BY <1>1, <1>2, <1>3, <1>4, <1>5
  DEF RoundsNext, OperatorRoundNext, PlayNext, AnyoneRoundNext
<1> QED
  BY <1>6, RoundsFrame, MoneyFrame

\* One step of anybody keeps both invariants.
LEMMA NextMoney ==
  ASSUME TypeOK, Money, [Next]_vars
  PROVE  Money'
<1>1. CASE Tick \/ UNCHANGED vars
  BY <1>1 DEF Tick, vars, Money, Backing, JackpotCovered
<1>2. CASE DepositorNext
  BY <1>2, DepositMoney, RequestMoney, BuyTicketsMoney, ProcessMoney, EmergencyMoney
  DEF DepositorNext
<1> QED
  BY <1>1, <1>2, AdminMoney, TreasuryMoney, GrantMoney, EpochsMoney, RoundsMoney
  DEF Next, CustodyNext

\* Before the first deposit everything is zero.
LEMMA InitMoney == Init => Money
  BY DEF Init, InitWith, Money, Backing, JackpotCovered

\* The principal vault and what the admin has out on loan are, after every
\* sequence of instructions of custody.rs, epochs.rs and rounds.rs, exactly
\* what depositors own and are waiting for plus the unspent yield budget.
THEOREM VaultBacksClaims == Spec => []Backing
<1>1. Money /\ TypeOK /\ TypeOK' /\ [Next]_vars => Money'
  BY NextMoney
<1>2. Money => Backing
  BY DEF Money
<1> QED
  BY <1>1, <1>2, InitMoney, TypeCorrect, PTL DEF Spec

\* The jackpot vault covers the prizes of all epochs that are Drawing or
\* Drawn at once, through closes, House payouts, rollovers and the final
\* sweep (close_registration, payout, rollover_epoch, sweep_house).
THEOREM PromisedPrizesCovered == Spec => []JackpotCovered
<1>1. Money /\ TypeOK /\ TypeOK' /\ [Next]_vars => Money'
  BY NextMoney
<1>2. Money => JackpotCovered
  BY DEF Money
<1> QED
  BY <1>1, <1>2, InitMoney, TypeCorrect, PTL DEF Spec

-----------------------------------------------------------------------------
(* Shutdown. That no switch is lifted afterwards rests on shutdown having  *)
(* thrown them all: set_pause and set_feature_pause only refuse to lift.   *)

ShutdownLatched ==
  pool.shutdown => pool.paused /\ pool.game_paused /\ pool.jackpot_paused

\* A step that leaves the pool alone leaves it shut down.
LEMMA DownFrame ==
  ASSUME TypeOK, ShutdownLatched, pool.shutdown, pool' = pool
  PROVE  StaysDown
<1>1. pool.yield_budget \in Nat /\ pool.jackpot_reserved \in Nat
  BY DEF TypeOK, PoolRec
<1> QED
  BY <1>1 DEF ShutdownLatched, StaysDown

\* Switches: after shutdown they can only be thrown again.
LEMMA DownAdmin ==
  ASSUME TypeOK, ShutdownLatched, pool.shutdown, AdminNext
  PROVE  StaysDown
<1>1. pool \in PoolRec /\ pool.yield_budget \in Nat /\ pool.jackpot_reserved \in Nat
  BY DEF TypeOK, PoolRec
<1>2. pool.paused /\ pool.game_paused /\ pool.jackpot_paused
  BY DEF ShutdownLatched
<1> PICK s \in Keys :
    \/ \E v \in ParamChoices : set_params(s, v)
    \/ \E on \in BOOLEAN : set_pause(s, on)
    \/ \E feature \in {"Game", "Jackpot"}, on \in BOOLEAN : set_feature_pause(s, feature, on)
    \/ shutdown(s)
    \/ \E k \in Keys \cup {NoKey} : set_operator(s, k) \/ propose_admin(s, k)
    \/ accept_admin(s)
  BY DEF AdminNext
<1>3. CASE \E v \in ParamChoices : set_params(s, v)
  BY <1>3, DownFrame DEF set_params
<1>4. CASE \E on \in BOOLEAN : set_pause(s, on)
  <2>1. pool' = [pool EXCEPT !.paused = TRUE]
    BY <1>4 DEF set_pause, MaySwitch
  <2> QED
    BY <1>1, <1>2, <2>1 DEF StaysDown, PoolRec
<1>5. CASE \E feature \in {"Game", "Jackpot"}, on \in BOOLEAN : set_feature_pause(s, feature, on)
  <2>1. \/ pool' = [pool EXCEPT !.game_paused = TRUE]
        \/ pool' = [pool EXCEPT !.jackpot_paused = TRUE]
    BY <1>5 DEF set_feature_pause, MaySwitch
  <2> QED
    BY <1>1, <1>2, <2>1 DEF StaysDown, PoolRec
<1>6. CASE shutdown(s)
  BY <1>6 DEF shutdown
<1>7. CASE \E k \in Keys \cup {NoKey} : set_operator(s, k) \/ propose_admin(s, k)
  BY <1>1, <1>2, <1>7 DEF set_operator, propose_admin, StaysDown, PoolRec
<1>8. CASE accept_admin(s)
  BY <1>1, <1>2, <1>8 DEF accept_admin, StaysDown, PoolRec
<1> QED
  BY <1>3, <1>4, <1>5, <1>6, <1>7, <1>8

\* Exits keep working, and only lower the totals they are about.
LEMMA DownCustody ==
  ASSUME TypeOK, ShutdownLatched, pool.shutdown, DepositorNext \/ TreasuryNext \/ GrantNext
  PROVE  StaysDown
<1>1. pool \in PoolRec /\ pool.yield_budget \in Nat /\ pool.jackpot_reserved \in Nat
  BY DEF TypeOK, PoolRec
<1>2. pool.paused /\ pool.game_paused /\ pool.jackpot_paused
  BY DEF ShutdownLatched
<1>3. ASSUME NEW p \in Players, NEW amount \in Amounts,
             deposit(p, amount) \/ buy_tickets(p, amount)
      PROVE  StaysDown
  BY <1>3 DEF deposit, buy_tickets
<1>4. ASSUME NEW p \in Players, NEW amount \in Amounts, request_withdraw(p, amount)
      PROVE  StaysDown
  BY <1>1, <1>2, <1>4 DEF request_withdraw, StaysDown, PoolRec
<1>5. ASSUME NEW p \in Players, process_withdraw(p)
      PROVE  StaysDown
  BY <1>1, <1>2, <1>5 DEF process_withdraw, StaysDown, PoolRec
<1>6. ASSUME NEW p \in Players, emergency_withdraw(p)
      PROVE  StaysDown
  <2> DEFINE plr == touch(players[p], pool, now)
  <2>1. pool' = [pool EXCEPT !.total_principal     = @ - plr.principal,
                             !.pending_withdrawals = @ - plr.pending_withdraw]
    BY <1>6 DEF emergency_withdraw
  <2> HIDE DEF plr
  <2> QED
    BY <1>1, <1>2, <2>1 DEF StaysDown, PoolRec
<1>7. CASE TreasuryNext
  <2>1. ASSUME NEW s \in Keys, sweep_house(s)
        PROVE  StaysDown
    <3>1. YieldSwept \in Nat
      BY MoneyTypes DEF YieldSwept, MinOf, SatSub
    <3>2. pool' = [pool EXCEPT !.yield_budget = @ - YieldSwept]
      BY <2>1 DEF sweep_house
    <3> QED
      BY <1>1, <1>2, <3>1, <3>2 DEF StaysDown, PoolRec
  <2> QED
    BY <1>7, <2>1, DownFrame DEF TreasuryNext, admin_withdraw, return_principal
<1>8. CASE GrantNext
  BY <1>8 DEF GrantNext, grant_tickets, grant_tickets_operator, grant_tickets_admin
<1> QED
  BY <1>3, <1>4, <1>5, <1>6, <1>7, <1>8 DEF DepositorNext

\* No epoch begins; one that is under way can still be paid or rolled over.
LEMMA DownEpochs ==
  ASSUME TypeOK, ShutdownLatched, pool.shutdown, EpochsNext
  PROVE  StaysDown
<1>1. pool \in PoolRec /\ pool.yield_budget \in Nat /\ pool.jackpot_reserved \in Nat
  BY DEF TypeOK, PoolRec
<1>2. pool.paused /\ pool.game_paused /\ pool.jackpot_paused
  BY DEF ShutdownLatched
<1>3. ASSUME NEW s \in Keys, begin_epoch(s) \/ \E e \in EpochIds : close_registration(s, e)
      PROVE  StaysDown
  BY <1>3 DEF begin_epoch, close_registration
<1>4. ASSUME NEW e \in EpochIds, NEW p \in Players, register(e, p)
      PROVE  StaysDown
  <2> DEFINE credited == YieldCredit(players[p], e)
  <2>1. credited \in Nat
    BY CreditBounded
  <2>2. pool' = [pool EXCEPT !.total_principal = @ + credited, !.yield_budget = @ - credited]
    BY <1>4 DEF register
  <2> HIDE DEF credited
  <2> QED
    BY <1>1, <1>2, <2>1, <2>2 DEF StaysDown, PoolRec
<1>5. ASSUME NEW e \in EpochIds, (\E p \in Players : payout(e, p)) \/ rollover_epoch(e)
      PROVE  StaysDown
  <2> DEFINE amount == epochs[e].jackpot_amount
  <2>1. amount \in Nat
    BY DEF TypeOK, EpochRec
  <2>2. \/ pool' = [pool EXCEPT !.jackpot_reserved = @ - amount]
        \/ pool' = [pool EXCEPT !.jackpot_reserved = @ - amount, !.total_principal = @ + amount]
    BY <1>5 DEF payout, rollover_epoch
  <2> HIDE DEF amount
  <2>3. pool.jackpot_reserved - amount <= pool.jackpot_reserved
    BY <1>1, <2>1
  <2>4. CASE pool' = [pool EXCEPT !.jackpot_reserved = @ - amount]
    BY <1>1, <1>2, <2>3, <2>4 DEF StaysDown, PoolRec
  <2>5. CASE pool' = [pool EXCEPT !.jackpot_reserved = @ - amount, !.total_principal = @ + amount]
    BY <1>1, <1>2, <2>3, <2>5 DEF StaysDown, PoolRec
  <2> QED
    BY <2>2, <2>4, <2>5
<1>6. ASSUME NEW e \in EpochIds,
             \/ FulfillEpoch(e)
             \/ \E target \in 0..(epochs[e].registered_weight - 1) : draw(e, target)
      PROVE  StaysDown
  BY <1>6, DownFrame DEF FulfillEpoch, draw
<1>7. CASE FundingNext
  BY <1>7, DownFrame DEF FundingNext, fund_jackpot, fund_yield
<1> QED
  BY <1>3, <1>4, <1>5, <1>6, <1>7 DEF EpochsNext, OperatorEpochNext, AnyoneEpochNext

\* No round opens; one that is under way can still be settled or voided.
LEMMA DownRounds ==
  ASSUME TypeOK, ShutdownLatched, pool.shutdown, RoundsNext
  PROVE  StaysDown
<1>1. pool \in PoolRec /\ pool.yield_budget \in Nat /\ pool.jackpot_reserved \in Nat
  BY DEF TypeOK, PoolRec
<1>2. pool.paused /\ pool.game_paused /\ pool.jackpot_paused
  BY DEF ShutdownLatched
<1>3. CASE OperatorRoundNext
  BY <1>3 DEF OperatorRoundNext, create_round
<1>4. CASE PlayNext
  BY <1>4, PlayFrame, DownFrame
<1>5. ASSUME NEW r \in RoundIds, NEW tile \in Tiles, settle_round(r, tile)
      PROVE  StaysDown
  <2>1. pool' = [pool EXCEPT !.open_round_id = 0]
    BY <1>5 DEF settle_round
  <2> QED
    BY <1>1, <1>2, <2>1 DEF StaysDown, PoolRec
<1>6. ASSUME NEW r \in RoundIds, void_round(r)
      PROVE  StaysDown
  BY <1>1, <1>2, <1>6 DEF void_round, StaysDown, PoolRec
<1>7. ASSUME NEW r \in RoundIds,
             request_round_randomness(r) \/ FulfillRound(r) \/ close_round(r)
      PROVE  StaysDown
  BY <1>7, DownFrame DEF request_round_randomness, FulfillRound, close_round
<1> QED
  BY <1>3, <1>4, <1>5, <1>6, <1>7 DEF RoundsNext, AnyoneRoundNext

\* One step of anybody keeps a pool that is shut down shut down.
LEMMA DownNext ==
  ASSUME TypeOK, ShutdownLatched, pool.shutdown, [Next]_vars
  PROVE  StaysDown
<1>1. CASE Tick \/ UNCHANGED vars
  BY <1>1, DownFrame DEF Tick, vars
<1> QED
  BY <1>1, DownAdmin, DownCustody, DownEpochs, DownRounds DEF Next, CustodyNext

\* Only the shutdown instruction sets the flag, and it throws every switch.
LEMMA LatchedNext ==
  ASSUME TypeOK, ShutdownLatched, [Next]_vars
  PROVE  ShutdownLatched'
<1>1. CASE pool.shutdown
  BY <1>1, DownNext DEF StaysDown, ShutdownLatched
<1>2. CASE ~pool.shutdown
  <2>1. pool \in PoolRec
    BY DEF TypeOK
  <2>2. CASE AdminNext
    <3>1. ASSUME NEW s \in Keys, shutdown(s)
          PROVE  pool'.paused /\ pool'.game_paused /\ pool'.jackpot_paused
      BY <2>1, <3>1 DEF shutdown, PoolRec
    <3>2. (\E s \in Keys : shutdown(s)) \/ pool'.shutdown = pool.shutdown
      BY <2>1, <2>2 DEF AdminNext, set_params, set_pause, set_feature_pause, set_operator,
                        propose_admin, accept_admin, PoolRec
    <3> QED
      BY <1>2, <3>1, <3>2 DEF ShutdownLatched
  <2>3. CASE DepositorNext \/ TreasuryNext
    <3>1. pool'.shutdown = pool.shutdown
      BY <2>1, <2>3 DEF DepositorNext, TreasuryNext, deposit, request_withdraw, buy_tickets,
                        process_withdraw, emergency_withdraw, admin_withdraw,
                        return_principal, sweep_house, PoolRec
    <3> QED
      BY <1>2, <3>1 DEF ShutdownLatched
  <2>4. CASE GrantNext
    <3>1. pool'.shutdown = pool.shutdown
      BY <2>1, <2>4 DEF GrantNext, grant_tickets, grant_tickets_operator,
                        grant_tickets_admin, PoolRec
    <3> QED
      BY <1>2, <3>1 DEF ShutdownLatched
  <2>5. CASE EpochsNext
    <3>1. pool'.shutdown = pool.shutdown
      <4>1. CASE OperatorEpochNext
        BY <2>1, <4>1 DEF OperatorEpochNext, begin_epoch, close_registration, PoolRec
      <4>2. ASSUME NEW e \in EpochIds, NEW p \in Players, register(e, p) \/ payout(e, p)
            PROVE  pool'.shutdown = pool.shutdown
        BY <2>1, <4>2 DEF register, payout, PoolRec
      <4>3. ASSUME NEW e \in EpochIds,
                   \/ rollover_epoch(e) \/ FulfillEpoch(e)
                   \/ \E target \in 0..(epochs[e].registered_weight - 1) : draw(e, target)
            PROVE  pool'.shutdown = pool.shutdown
        BY <2>1, <4>3 DEF draw, rollover_epoch, FulfillEpoch, PoolRec
      <4>4. CASE FundingNext
        BY <2>1, <4>4 DEF FundingNext, fund_jackpot, fund_yield, PoolRec
      <4> QED
        BY <2>5, <4>1, <4>2, <4>3, <4>4 DEF EpochsNext, AnyoneEpochNext
    <3> QED
      BY <1>2, <3>1 DEF ShutdownLatched
  <2>6. CASE OperatorRoundNext \/ PlayNext
    <3>1. pool'.shutdown = pool.shutdown
      <4>1. CASE OperatorRoundNext
        <5>1. PICK s \in Keys, starts_at \in now..(now + MaxLead) : create_round(s, starts_at)
          BY <4>1 DEF OperatorRoundNext
        <5>2. pool' = [pool EXCEPT !.next_round_id = pool.next_round_id + 1,
                                   !.open_round_id = pool.next_round_id, !.carry_pot = 0]
          BY <5>1 DEF create_round
        <5> QED
          BY <2>1, <5>2 DEF PoolRec
      <4>2. CASE PlayNext
        BY <4>2, PlayFrame
      <4> QED
        BY <2>6, <4>1, <4>2
    <3> QED
      BY <1>2, <3>1 DEF ShutdownLatched
  <2>7. CASE AnyoneRoundNext
    <3>1. pool'.shutdown = pool.shutdown
      BY <2>1, <2>7 DEF AnyoneRoundNext, request_round_randomness, FulfillRound,
                        settle_round, void_round, close_round, PoolRec
    <3> QED
      BY <1>2, <3>1 DEF ShutdownLatched
  <2>8. CASE Tick \/ UNCHANGED vars
    BY <2>8 DEF Tick, vars, ShutdownLatched
  <2> QED
    BY <2>2, <2>3, <2>4, <2>5, <2>6, <2>7, <2>8 DEF Next, CustodyNext, RoundsNext
<1> QED
  BY <1>1, <1>2

\* What touching an account in epoch c makes of its Entries.
Held(plr, c) == IF plr.epoch_id >= c THEN plr.entries ELSE plr.principal

\* Touching brings Entries and the epoch up to date and changes nothing else of them.
LEMMA TouchedEntries ==
  ASSUME NEW plr \in PlayerRec, NEW pl \in PoolRec, NEW t \in Int
  PROVE  /\ touch(plr, pl, t).entries = Held(plr, pl.current_epoch_id)
         /\ Held(plr, pl.current_epoch_id) \in Nat
         /\ touch(plr, pl, t).epoch_id >= pl.current_epoch_id
<1>1. TouchSameEpoch(plr, pl, t).entries = plr.entries
  BY DEF TouchSameEpoch, PlayerRec
<1>2. TouchSameEpoch(plr, pl, t).epoch_id = plr.epoch_id
  BY DEF TouchSameEpoch, PlayerRec
<1>3. /\ TouchNewEpoch(plr, pl, t).entries = plr.principal
      /\ TouchNewEpoch(plr, pl, t).epoch_id = pl.current_epoch_id
  BY DEF TouchNewEpoch, PlayerRec
<1>4. /\ plr.entries \in Nat /\ plr.principal \in Nat /\ plr.epoch_id \in Nat
      /\ pl.current_epoch_id \in Nat
  BY DEF PlayerRec, PoolRec
<1> QED BY <1>1, <1>2, <1>3, <1>4 DEF touch, Held

\* What an instruction that touches a stored Player gets.
LEMMA TouchedNow ==
  ASSUME TypeOK, NEW p \in Players
  PROVE  LET plr == touch(players[p], pool, now) IN
         /\ plr \in PlayerRec
         /\ plr.entries \in Nat /\ plr.principal \in Nat /\ plr.pending_withdraw \in Nat
         /\ plr.epoch_id >= pool.current_epoch_id
         /\ plr.entries = Held(players[p], pool.current_epoch_id)
         /\ Held(players[p], pool.current_epoch_id) \in Nat
<1> DEFINE plr == touch(players[p], pool, now)
<1>1. players[p] \in PlayerRec /\ pool \in PoolRec /\ now \in Int
  BY DEF TypeOK
<1>2. plr \in PlayerRec
  BY PlayerTouchType
<1>3. plr.entries \in Nat /\ plr.principal \in Nat /\ plr.pending_withdraw \in Nat
  <2> HIDE DEF plr
  <2> QED BY <1>2 DEF PlayerRec
<1> QED
  BY <1>1, <1>2, <1>3, TouchedEntries

\* A step that moves no total leaves what is owed alone.
LEMMA OwedFrame ==
  ASSUME TypeOK, SameTotals
  PROVE  OwedInAll' <= OwedInAll
<1>1. OwedInAll' = OwedInAll
  BY DEF OwedInAll, SameTotals
<1>2. OwedInAll \in Nat
  BY MoneyTypes DEF OwedInAll
<1> QED
  BY <1>1, <1>2

\* A Player whose touched Entries did not grow gained no Tickets.
LEMMA NoTickets ==
  ASSUME TypeOK, TypeOK', pool'.current_epoch_id = pool.current_epoch_id, NEW q \in Players,
         Held(players'[q], pool.current_epoch_id) <= Held(players[q], pool.current_epoch_id)
  PROVE  ~(EntriesNow(q)' > EntriesNow(q))
<1>1. EntriesNow(q) = Held(players[q], pool.current_epoch_id) /\ EntriesNow(q) \in Nat
  BY TouchedEntries DEF EntriesNow, TypeOK
<1>2. players'[q] \in PlayerRec /\ pool' \in PoolRec /\ now' \in Int
  BY DEF TypeOK
<1>3. EntriesNow(q)' = touch(players'[q], pool', now').entries
  BY DEF EntriesNow
<1>4. /\ EntriesNow(q)' = Held(players'[q], pool.current_epoch_id)
      /\ Held(players'[q], pool.current_epoch_id) \in Nat
  BY <1>2, <1>3, TouchedEntries
<1> QED
  BY <1>1, <1>4

\* Nobody gains Tickets when no Player account moves, ...
LEMMA NoTicketsFrame ==
  ASSUME TypeOK, TypeOK', pool'.current_epoch_id = pool.current_epoch_id, players' = players
  PROVE  \A q \in Players : ~(EntriesNow(q)' > EntriesNow(q))
<1> SUFFICES ASSUME NEW q \in Players PROVE ~(EntriesNow(q)' > EntriesNow(q))
  OBVIOUS
<1>1. Held(players[q], pool.current_epoch_id) \in Nat
  BY TouchedEntries DEF TypeOK
<1> QED
  BY <1>1, NoTickets

\* ... and when the one that does holds no more than before.
LEMMA NoTicketsOne ==
  ASSUME TypeOK, TypeOK', pool'.current_epoch_id = pool.current_epoch_id,
         NEW p \in Players, NEW plr \in PlayerRec, players' = [players EXCEPT ![p] = plr],
         Held(plr, pool.current_epoch_id) <= Held(players[p], pool.current_epoch_id)
  PROVE  \A q \in Players : ~(EntriesNow(q)' > EntriesNow(q))
<1> SUFFICES ASSUME NEW q \in Players PROVE ~(EntriesNow(q)' > EntriesNow(q))
  OBVIOUS
<1>1. Held(players[q], pool.current_epoch_id) \in Nat
  BY TouchedEntries DEF TypeOK
<1>2. players'[q] = IF q = p THEN plr ELSE players[q]
  BY DEF TypeOK
<1> QED
  BY <1>1, <1>2, NoTickets

\* Exits and sweeps pay out what is owed and give nobody Tickets; deposits,
\* purchases and grants are refused.
LEMMA CustodyNothingNew ==
  ASSUME TypeOK, TypeOK', ShutdownLatched, pool.shutdown,
         DepositorNext \/ TreasuryNext \/ GrantNext
  PROVE  NothingNew
<1> DEFINE c == pool.current_epoch_id
<1>1. pool \in PoolRec /\ players \in [Players -> PlayerRec] /\ pool'.current_epoch_id = c
  BY DownCustody DEF StaysDown, TypeOK
<1>2. ASSUME NEW p \in Players, NEW amount \in Amounts,
             deposit(p, amount) \/ buy_tickets(p, amount)
      PROVE  NothingNew
  BY <1>2 DEF deposit, buy_tickets
<1>3. ASSUME NEW p \in Players, NEW amount \in Amounts, request_withdraw(p, amount)
      PROVE  NothingNew
  <2> DEFINE plr == touch(players[p], pool, now)
             moved == [plr EXCEPT !.principal        = @ - amount,
                                  !.entries          = SatSub(@, amount),
                                  !.pending_withdraw = @ + amount,
                                  !.pending_epoch    = pool.current_epoch_id,
                                  !.requested_at     = now]
  <2>1. amount \in Nat /\ plr \in PlayerRec /\ plr.entries \in Nat /\ plr.epoch_id >= c
        /\ plr.entries = Held(players[p], c)
    BY AmountsAssumption, TouchedNow
  <2>2. players' = [players EXCEPT ![p] = moved]
    BY <1>3 DEF request_withdraw
  <2>3. moved = players'[p] /\ moved \in PlayerRec
    BY <1>1, <2>2 DEF TypeOK
  <2>4. moved.entries = SatSub(plr.entries, amount) /\ moved.epoch_id = plr.epoch_id
    <3> HIDE DEF plr
    <3> QED BY <2>1 DEF PlayerRec
  <2>5. SatSub(plr.entries, amount) <= plr.entries
    BY <2>1 DEF SatSub
  <2> HIDE DEF plr, moved
  <2>6. Held(moved, c) <= Held(players[p], c)
    BY <2>1, <2>4, <2>5 DEF Held
  <2>7. \A q \in Players : ~(EntriesNow(q)' > EntriesNow(q))
    BY <1>1, <2>2, <2>3, <2>6, NoTicketsOne
  <2>8. pool' = [pool EXCEPT !.total_principal     = @ - amount,
                             !.pending_withdrawals = @ + amount]
    BY <1>3 DEF request_withdraw
  <2>9. OwedInAll' <= OwedInAll
    BY <1>1, <2>1, <2>8 DEF OwedInAll, PoolRec
  <2> QED
    BY <2>7, <2>9 DEF NothingNew
<1>4. ASSUME NEW p \in Players, process_withdraw(p)
      PROVE  NothingNew
  <2> DEFINE moved == [players[p] EXCEPT !.pending_withdraw = 0]
  <2>1. players' = [players EXCEPT ![p] = moved]
    BY <1>4 DEF process_withdraw
  <2>2. moved \in PlayerRec /\ Held(moved, c) = Held(players[p], c)
    BY <1>1 DEF Held, PlayerRec
  <2> HIDE DEF moved
  <2>6. Held(moved, c) <= Held(players[p], c)
    BY <2>2, TouchedNow
  <2>3. \A q \in Players : ~(EntriesNow(q)' > EntriesNow(q))
    BY <1>1, <2>1, <2>2, <2>6, NoTicketsOne
  <2>4. pool' = [pool EXCEPT !.pending_withdrawals = @ - players[p].pending_withdraw]
        /\ players[p].pending_withdraw \in Nat
    BY <1>1, <1>4 DEF process_withdraw, PlayerRec
  <2>5. OwedInAll' <= OwedInAll
    BY <1>1, <2>4 DEF OwedInAll, PoolRec
  <2> QED
    BY <2>3, <2>5 DEF NothingNew
<1>5. ASSUME NEW p \in Players, emergency_withdraw(p)
      PROVE  NothingNew
  <2> DEFINE plr == touch(players[p], pool, now)
             moved == [plr EXCEPT !.principal = 0, !.entries = 0, !.pending_withdraw = 0]
  <2>1. /\ plr \in PlayerRec /\ plr.epoch_id >= c /\ plr.principal \in Nat
        /\ plr.pending_withdraw \in Nat /\ Held(players[p], c) \in Nat
    BY TouchedNow
  <2>2. players' = [players EXCEPT ![p] = moved]
    BY <1>5 DEF emergency_withdraw
  <2>3. pool' = [pool EXCEPT !.total_principal     = @ - plr.principal,
                             !.pending_withdrawals = @ - plr.pending_withdraw]
    BY <1>5 DEF emergency_withdraw
  <2> HIDE DEF plr
  <2>4. moved \in PlayerRec /\ moved.entries = 0 /\ moved.epoch_id = plr.epoch_id
    BY <2>1 DEF PlayerRec
  <2> HIDE DEF moved
  <2>5. Held(moved, c) <= Held(players[p], c)
    BY <2>1, <2>4 DEF Held
  <2>6. \A q \in Players : ~(EntriesNow(q)' > EntriesNow(q))
    BY <1>1, <2>2, <2>4, <2>5, NoTicketsOne
  <2>7. OwedInAll' <= OwedInAll
    BY <1>1, <2>1, <2>3 DEF OwedInAll, PoolRec
  <2> QED
    BY <2>6, <2>7 DEF NothingNew
<1>6. CASE TreasuryNext
  <2>1. players' = players
    BY <1>6 DEF TreasuryNext, admin_withdraw, return_principal, sweep_house
  <2>2. \A q \in Players : ~(EntriesNow(q)' > EntriesNow(q))
    BY <1>1, <2>1, NoTicketsFrame
  <2>3. ASSUME NEW s \in Keys, sweep_house(s)
        PROVE  OwedInAll' <= OwedInAll
    <3>1. YieldSwept \in Nat
      BY MoneyTypes DEF YieldSwept, MinOf, SatSub
    <3>2. pool' = [pool EXCEPT !.yield_budget = @ - YieldSwept]
      BY <2>3 DEF sweep_house
    <3> QED
      BY <1>1, <3>1, <3>2 DEF OwedInAll, PoolRec
  <2>4. OwedInAll' <= OwedInAll
    BY <1>6, <2>3, OwedFrame DEF TreasuryNext, admin_withdraw, return_principal, SameTotals
  <2> QED
    BY <2>2, <2>4 DEF NothingNew
<1>7. CASE GrantNext
  BY <1>7 DEF GrantNext, grant_tickets, grant_tickets_operator, grant_tickets_admin
<1> QED
  BY <1>2, <1>3, <1>4, <1>5, <1>6, <1>7 DEF DepositorNext

\* Epochs under way pay the yield and the prizes they were already owed.
LEMMA EpochsNothingNew ==
  ASSUME TypeOK, TypeOK', ShutdownLatched, pool.shutdown, EpochsNext
  PROVE  NothingNew
<1> DEFINE c == pool.current_epoch_id
<1>1. pool \in PoolRec /\ players \in [Players -> PlayerRec] /\ pool'.current_epoch_id = c
  BY DownEpochs DEF StaysDown, TypeOK
<1>2. ASSUME NEW s \in Keys, begin_epoch(s) \/ \E e \in EpochIds : close_registration(s, e)
      PROVE  NothingNew
  BY <1>2 DEF begin_epoch, close_registration
<1>3. ASSUME NEW e \in EpochIds, NEW p \in Players, register(e, p)
      PROVE  NothingNew
  <2> DEFINE credited == YieldCredit(players[p], e)
  <2>1. credited \in Nat
    BY CreditBounded
  <2>2. pool' = [pool EXCEPT !.total_principal = @ + credited, !.yield_budget = @ - credited]
    BY <1>3 DEF register
  <2>3. OwedInAll' <= OwedInAll
    <3> HIDE DEF credited
    <3> QED BY <1>1, <2>1, <2>2 DEF OwedInAll, PoolRec
  <2>4. CASE credited > 0
    <3>1. pool'.yield_budget < pool.yield_budget
      <4> HIDE DEF credited
      <4> QED BY <1>1, <2>1, <2>2, <2>4 DEF PoolRec
    <3> QED
      BY <2>3, <3>1 DEF NothingNew, PlayedOut
  <2>5. CASE credited = 0
    <3> DEFINE paid == [players[p] EXCEPT !.principal = @ + credited, !.entries = @ + credited,
                                          !.yield_epoch = e]
    <3>1. credit_yield(players[p], e) = paid
      BY <2>5 DEF credit_yield
    <3>2. players[p].entries + credited = players[p].entries
          /\ players[p].principal + credited = players[p].principal
      <4> HIDE DEF credited
      <4> QED BY <1>1, <2>5 DEF PlayerRec
    <3>3. /\ paid.entries = players[p].entries /\ paid.principal = players[p].principal
          /\ paid.epoch_id = players[p].epoch_id
      <4> HIDE DEF credited
      <4> QED BY <1>1, <3>2 DEF PlayerRec
    <3>4. PICK moved : /\ players' = [players EXCEPT ![p] = moved]
                       /\ moved.entries = paid.entries /\ moved.principal = paid.principal
                       /\ moved.epoch_id = paid.epoch_id
      <4> DEFINE w == EpochWeight(players[p], e, epochs[e])
                 from == RegStart(e)
                 reg == [paid EXCEPT !.reg_epoch = e, !.reg_start = from, !.reg_end = from + w]
      <4>1. players' = [players EXCEPT ![p] = paid] \/ players' = [players EXCEPT ![p] = reg]
        BY <1>3, <3>1 DEF register
      <4>2. DOMAIN players[p] = DOMAIN paid
        <5> HIDE DEF credited
        <5> QED BY <1>1 DEF PlayerRec
      <4>3. /\ reg.entries = paid.entries /\ reg.principal = paid.principal
            /\ reg.epoch_id = paid.epoch_id
        <5> HIDE DEF credited, w, from
        <5> QED BY <1>1 DEF PlayerRec
      <4> HIDE DEF paid, reg
      <4> QED BY <4>1, <4>3
    <3>5. moved = players'[p] /\ moved \in PlayerRec
      BY <1>1, <3>4 DEF TypeOK
    <3>6. Held(moved, c) <= Held(players[p], c)
      <4>1. Held(moved, c) = Held(players[p], c)
        <5> HIDE DEF paid
        <5> QED BY <3>3, <3>4 DEF Held
      <4> QED BY <4>1, TouchedNow
    <3>7. \A q \in Players : ~(EntriesNow(q)' > EntriesNow(q))
      <4> HIDE DEF paid
      <4> QED BY <1>1, <3>4, <3>5, <3>6, NoTicketsOne
    <3> QED
      BY <2>3, <3>7 DEF NothingNew
  <2> HIDE DEF credited
  <2> QED
    BY <2>1, <2>4, <2>5
<1>4. ASSUME NEW e \in EpochIds, NEW p \in Players, payout(e, p)
      PROVE  NothingNew
  <2> DEFINE amount == epochs[e].jackpot_amount
  <2>1. amount \in Nat
    BY DEF TypeOK, EpochRec
  <2>2. \/ pool' = [pool EXCEPT !.jackpot_reserved = @ - amount]
        \/ pool' = [pool EXCEPT !.jackpot_reserved = @ - amount, !.total_principal = @ + amount]
    BY <1>4 DEF payout
  <2>3. OwedInAll' <= OwedInAll
    <3> HIDE DEF amount
    <3>1. CASE pool' = [pool EXCEPT !.jackpot_reserved = @ - amount]
      BY <1>1, <2>1, <3>1 DEF OwedInAll, PoolRec
    <3>2. CASE pool' = [pool EXCEPT !.jackpot_reserved = @ - amount, !.total_principal = @ + amount]
      BY <1>1, <2>1, <3>2 DEF OwedInAll, PoolRec
    <3> QED BY <2>2, <3>1, <3>2
  <2>4. CASE amount > 0
    <3>1. pool'.jackpot_reserved < pool.jackpot_reserved
      <4> HIDE DEF amount
      <4>1. pool'.jackpot_reserved = pool.jackpot_reserved - amount
        BY <1>1, <2>2 DEF PoolRec
      <4> QED BY <1>1, <2>1, <2>4, <4>1 DEF PoolRec
    <3> QED
      BY <2>3, <3>1 DEF NothingNew, PlayedOut
  <2>5. CASE amount = 0 /\ p # House
    <3> DEFINE plr == touch(players[p], pool, now)
               moved == [plr EXCEPT !.principal = @ + amount, !.entries = @ + amount]
    <3>1. players' = [players EXCEPT ![p] = moved]
      BY <1>4, <2>5 DEF payout
    <3>2. /\ plr \in PlayerRec /\ plr.entries \in Nat /\ plr.epoch_id >= c
          /\ plr.entries = Held(players[p], c)
      BY TouchedNow
    <3>3. moved = players'[p] /\ moved \in PlayerRec
      BY <1>1, <3>1 DEF TypeOK
    <3>4. moved.entries = plr.entries /\ moved.epoch_id = plr.epoch_id
      <4> HIDE DEF plr, amount
      <4> QED BY <2>5, <3>2 DEF PlayerRec
    <3> HIDE DEF plr, moved
    <3>5. Held(moved, c) <= Held(players[p], c)
      BY <3>2, <3>4 DEF Held
    <3>6. \A q \in Players : ~(EntriesNow(q)' > EntriesNow(q))
      BY <1>1, <3>1, <3>3, <3>5, NoTicketsOne
    <3> QED
      BY <2>3, <3>6 DEF NothingNew
  <2>6. CASE p = House
    <3>1. players' = players
      BY <1>4, <2>6 DEF payout
    <3> QED
      BY <1>1, <2>3, <3>1, NoTicketsFrame DEF NothingNew
  <2> HIDE DEF amount
  <2> QED
    BY <2>1, <2>4, <2>5, <2>6
<1>5. ASSUME NEW e \in EpochIds, rollover_epoch(e)
      PROVE  NothingNew
  <2> DEFINE amount == epochs[e].jackpot_amount
  <2>1. amount \in Nat /\ players' = players
    BY <1>5 DEF TypeOK, EpochRec, rollover_epoch
  <2>2. pool' = [pool EXCEPT !.jackpot_reserved = @ - amount]
    BY <1>5 DEF rollover_epoch
  <2> HIDE DEF amount
  <2>3. OwedInAll' <= OwedInAll
    BY <1>1, <2>1, <2>2 DEF OwedInAll, PoolRec
  <2> QED
    BY <1>1, <2>1, <2>3, NoTicketsFrame DEF NothingNew
<1>6. ASSUME \/ FundingNext
             \/ \E e \in EpochIds :
                  \/ FulfillEpoch(e)
                  \/ \E target \in 0..(epochs[e].registered_weight - 1) : draw(e, target)
      PROVE  NothingNew
  <2>1. pool' = pool /\ players' = players
    BY <1>6 DEF FundingNext, fund_jackpot, fund_yield, FulfillEpoch, draw
  <2> QED
    BY <1>1, <2>1, OwedFrame, NoTicketsFrame DEF NothingNew, SameTotals
<1> QED
  BY <1>2, <1>3, <1>4, <1>5, <1>6 DEF EpochsNext, OperatorEpochNext, AnyoneEpochNext

\* A round under way is played out; no other one moves Entries.
LEMMA RoundsNothingNew ==
  ASSUME TypeOK, TypeOK', ShutdownLatched, pool.shutdown, RoundsNext
  PROVE  NothingNew
<1>1. pool'.current_epoch_id = pool.current_epoch_id
  BY DownRounds DEF StaysDown
<1>2. OwedInAll' <= OwedInAll
  <2>1. pool \in PoolRec
    BY DEF TypeOK
  <2>2. ASSUME NEW r \in RoundIds, NEW tile \in Tiles, settle_round(r, tile)
        PROVE  SameTotals
    BY <2>1, <2>2 DEF settle_round, SameTotals, PoolRec
  <2>3. ASSUME NEW r \in RoundIds,
               request_round_randomness(r) \/ FulfillRound(r) \/ close_round(r)
        PROVE  SameTotals
    BY <2>3 DEF request_round_randomness, FulfillRound, close_round, SameTotals
  <2>4. ASSUME NEW r \in RoundIds, void_round(r)
        PROVE  SameTotals
    BY <2>1, <2>4 DEF void_round, SameTotals, PoolRec
  <2>5. ~OperatorRoundNext
    BY DEF OperatorRoundNext, create_round
  <2>6. CASE PlayNext
    BY <2>6, PlayFrame, OwedFrame DEF SameTotals
  <2> QED
    BY <2>2, <2>3, <2>4, <2>5, <2>6, OwedFrame DEF RoundsNext, AnyoneRoundNext
<1>3. rounds' # rounds \/ players' = players
  <2>1. ~OperatorRoundNext
    BY DEF OperatorRoundNext, create_round
  <2>2. ASSUME NEW p \in Owners, NEW r \in RoundIds, settle_position(p, r)
        PROVE  rounds' # rounds
    <3>1. rounds'[r].open_positions = rounds[r].open_positions - 1
      BY <2>2 DEF settle_position, TypeOK, RoundRec
    <3>2. rounds[r].open_positions \in Nat
      BY DEF TypeOK, RoundRec
    <3> QED BY <3>1, <3>2
  <2>3. ASSUME NEW r \in RoundIds, NEW tile \in Tiles, settle_round(r, tile)
        PROVE  rounds' # rounds
    <3>1. rounds'[r].status \in {"Forfeited", "Settled"}
      BY <2>3 DEF settle_round, TypeOK, RoundRec
    <3>2. rounds[r].status = "Requested"
      BY <2>3 DEF settle_round
    <3> QED BY <3>1, <3>2
  <2>4. ASSUME NEW p \in Owners, NEW r \in RoundIds, NEW tiles \in SUBSET Tiles,
               NEW stake \in Stakes, buy_position(p, r, tiles, stake)
        PROVE  FALSE
    BY <2>4 DEF buy_position
  <2> QED
    BY <2>1, <2>2, <2>3, <2>4 DEF RoundsNext, PlayNext, AnyoneRoundNext,
       request_round_randomness, FulfillRound, void_round, close_round
<1> QED
  BY <1>1, <1>2, <1>3, NoTicketsFrame DEF NothingNew, PlayedOut

\* Whatever is done to a pool that is shut down brings nothing new into it.
LEMMA NextNothingNew ==
  ASSUME TypeOK, TypeOK', ShutdownLatched, pool.shutdown, [Next]_vars
  PROVE  NothingNew
<1>1. CASE AdminNext \/ Tick \/ UNCHANGED vars
  <2>1. players' = players
    BY <1>1 DEF AdminNext, set_params, set_pause, set_feature_pause, shutdown, set_operator,
                propose_admin, accept_admin, Tick, vars
  <2>2. SameTotals
    <3>1. pool \in PoolRec
      BY DEF TypeOK
    <3> QED
      BY <1>1, <3>1 DEF AdminNext, set_params, set_pause, set_feature_pause, shutdown,
                        set_operator, propose_admin, accept_admin, Tick, vars, SameTotals, PoolRec
  <2>3. pool'.current_epoch_id = pool.current_epoch_id
    BY DownNext DEF StaysDown
  <2> QED
    BY <2>1, <2>2, <2>3, OwedFrame, NoTicketsFrame DEF NothingNew
<1> QED
  BY <1>1, CustodyNothingNew, EpochsNothingNew, RoundsNothingNew DEF Next, CustodyNext

\* After the admin's shutdown instruction no later instruction, of anybody and
\* in any order, lifts a switch, begins an epoch, opens a round, raises the
\* yield budget, the promised prizes or what is owed in all, or gives a Player
\* Entries otherwise than by the yield, the prize or the round already due.
THEOREM ShutdownHolds == Spec => ShutdownIsFinal
<1>1. Init => ShutdownLatched
  BY DEF Init, InitWith, ShutdownLatched
<1>2. ShutdownLatched /\ TypeOK /\ [Next]_vars => ShutdownLatched'
  BY LatchedNext
<1>3. /\ ShutdownLatched /\ TypeOK /\ TypeOK' /\ [Next]_vars
      => [pool.shutdown => StaysDown /\ NothingNew]_vars
  BY DownNext, NextNothingNew
<1>4. Spec => [][pool.shutdown => StaysDown /\ NothingNew]_vars
  BY <1>1, <1>2, <1>3, TypeCorrect, PTL DEF Spec
<1> QED
  BY <1>4 DEF ShutdownIsFinal
=============================================================================
