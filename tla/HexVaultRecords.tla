--------------------------- MODULE HexVaultRecords ---------------------------
(***************************************************************************)
(* What the pool and its rounds keep count of agrees with the accounts     *)
(* counted (RecordsAgree). BooksAddUp is inductive by HexVaultLedger. The  *)
(* open round and the positions need to know that a round not yet created  *)
(* is untouched (FreshRounds), or create_round could overwrite stakes.     *)
(* What the read API works out from those totals. And that the game only   *)
(* moves Entries (GameMintsNothing).                                       *)
(***************************************************************************)
EXTENDS HexVaultLedger, ReadApi

-----------------------------------------------------------------------------
(* The House                                                               *)

NoPrincipal(plr) ==
  /\ plr.principal = 0 /\ plr.principal_acc = 0
  /\ plr.frozen_principal_acc = 0 /\ plr.pending_withdraw = 0

\* touch accrues nothing on no Principal.
LEMMA HouseTouched ==
  ASSUME TypeOK, HouseHoldsNoPrincipal
  PROVE  /\ NoPrincipal(touch(players[House], pool, now))
         /\ touch(players[House], pool, now) \in PlayerRec
<1> DEFINE plr == players[House]
<1>1. House \in Players /\ plr \in PlayerRec /\ pool \in PoolRec /\ now \in Int
  BY DEF TypeOK, Players
<1>2. \A a, b \in Int : weight_of(plr.principal, elapsed(a, b)) = 0
  BY ElapsedNat DEF weight_of, HouseHoldsNoPrincipal
<1>3. NoPrincipal(plr)
  BY DEF NoPrincipal, HouseHoldsNoPrincipal
<1>4. /\ plr.last_update \in Int /\ pool.previous_epoch_start \in Int
      /\ pool.previous_epoch_ends_at \in Int /\ pool.current_epoch_start \in Int
      /\ MinOf(now, pool.current_epoch_ends_at) \in Int
  BY <1>1 DEF PlayerRec, PoolRec, MinOf
<1> HIDE DEF plr
<1>5. NoPrincipal(TouchSameEpoch(plr, pool, now))
  BY <1>1, <1>2, <1>3, <1>4 DEF TouchSameEpoch, NoPrincipal, PlayerRec
<1>6. FrozenPrincipalAcc(plr, pool) = 0
  BY <1>2, <1>3, <1>4 DEF FrozenPrincipalAcc, NoPrincipal
<1>7. NoPrincipal(TouchNewEpoch(plr, pool, now))
  BY <1>1, <1>2, <1>3, <1>4, <1>6 DEF TouchNewEpoch, NoPrincipal, PlayerRec
<1> QED
  BY <1>1, <1>5, <1>7, PlayerTouchType DEF touch, plr

\* An instruction that writes one Player, and the House only without Principal.
LEMMA HouseKept ==
  ASSUME TypeOK, HouseHoldsNoPrincipal, NEW p \in Players, NEW new,
         players' = [players EXCEPT ![p] = new],
         p = House => NoPrincipal(new)
  PROVE  HouseHoldsNoPrincipal'
<1>1. House \in Players
  BY DEF Players
<1> QED
  BY <1>1, OneAccount DEF HouseHoldsNoPrincipal, NoPrincipal

\* Deposits and ticket purchases exclude the House; it has nothing to request
\* or be paid; the emergency exit excludes it.
LEMMA DepositorHouse ==
  ASSUME TypeOK, HouseHoldsNoPrincipal, DepositorNext
  PROVE  HouseHoldsNoPrincipal'
<1> PICK p \in Players :
      \/ \E amount \in Amounts :
           deposit(p, amount) \/ request_withdraw(p, amount) \/ buy_tickets(p, amount)
      \/ process_withdraw(p)
      \/ emergency_withdraw(p)
  BY DEF DepositorNext
<1>1. CASE p = House
  <2>1. ASSUME NEW amount \in Amounts PROVE ~deposit(p, amount) /\ ~buy_tickets(p, amount)
    BY <1>1 DEF deposit, buy_tickets
  <2>2. ASSUME NEW amount \in Amounts, request_withdraw(p, amount) PROVE FALSE
    BY <1>1, <2>2, RequestMoves, AmountsAssumption DEF HouseHoldsNoPrincipal
  <2>3. ~process_withdraw(p)
    BY <1>1 DEF process_withdraw, HouseHoldsNoPrincipal
  <2>4. ~emergency_withdraw(p)
    BY <1>1 DEF emergency_withdraw
  <2> QED
    BY <2>1, <2>2, <2>3, <2>4
<1>2. CASE p # House
  <2>1. \E new : players' = [players EXCEPT ![p] = new]
    BY DEF deposit, request_withdraw, buy_tickets, process_withdraw, emergency_withdraw
  <2> QED
    BY <1>2, <2>1, HouseKept
<1> QED
  BY <1>1, <1>2

\* The admin may grant the House tickets, which are no Principal.
LEMMA GrantHouse ==
  ASSUME TypeOK, HouseHoldsNoPrincipal, GrantNext
  PROVE  HouseHoldsNoPrincipal'
<1> PICK s \in Keys, p \in Players, amount \in Amounts :
      grant_tickets_operator(s, p, amount) \/ grant_tickets_admin(s, p, amount)
  BY DEF GrantNext, grant_tickets
<1>1. CASE grant_tickets_operator(s, p, amount)
  <2>1. p # House /\ \E new : players' = [players EXCEPT ![p] = new]
    BY <1>1 DEF grant_tickets_operator
  <2> QED
    BY <2>1, HouseKept
<1>2. CASE grant_tickets_admin(s, p, amount)
  <2> DEFINE plr == touch(players[p], pool, now)
             new == [plr EXCEPT !.entries = @ + amount]
  <2>1. players' = [players EXCEPT ![p] = new]
    BY <1>2 DEF grant_tickets_admin
  <2>2. p = House => NoPrincipal(plr) /\ plr \in PlayerRec
    BY HouseTouched
  <2> HIDE DEF plr
  <2>3. p = House => NoPrincipal(new)
    BY <2>2 DEF NoPrincipal, PlayerRec
  <2> HIDE DEF new
  <2> QED
    BY <2>1, <2>3, HouseKept
<1> QED
  BY <1>1, <1>2

\* No principal-seconds, no yield: a House registration credits nothing.
LEMMA HouseCredit ==
  ASSUME TypeOK, HouseHoldsNoPrincipal, NEW e \in EpochIds
  PROVE  YieldCredit(players[House], e) = 0
<1> DEFINE plr == players[House]
<1>1. House \in Players /\ plr \in PlayerRec /\ pool.yield_budget \in Nat
      /\ epochs[e].starts_at \in Int /\ epochs[e].ends_at \in Int /\ params.base_rate_bps \in Nat
      /\ plr.last_update \in Int
  BY DEF TypeOK, Players, PoolRec, EpochRec, ParamRec, PlayerRec
<1>2. \A a, b \in Int : weight_of(plr.principal, elapsed(a, b)) = 0
  BY ElapsedNat DEF weight_of, HouseHoldsNoPrincipal
<1>3. EpochPrincipalSeconds(plr, e, epochs[e]) = 0
  BY <1>1, <1>2 DEF EpochPrincipalSeconds, HouseHoldsNoPrincipal
<1>4. 0 * params.base_rate_bps = 0 /\ BPS_DENOMINATOR * SECONDS_PER_YEAR \in Nat \ {0}
  BY <1>1, UnitsAssumption
<1>5. yield_for(0, params.base_rate_bps, BPS_DENOMINATOR, SECONDS_PER_YEAR) = 0
  BY <1>4 DEF yield_for
<1> QED
  BY <1>1, <1>3, <1>5 DEF YieldCredit, MinOf

\* register settles the yield of the account it lists, and the House has no
\* principal to earn any on.
LEMMA RegisterHouse ==
  ASSUME TypeOK, HouseHoldsNoPrincipal, NEW e \in EpochIds, NEW p \in Players, register(e, p)
  PROVE  HouseHoldsNoPrincipal'
<1> DEFINE w      == EpochWeight(players[p], e, epochs[e])
           paid   == credit_yield(players[p], e)
           from   == RegStart(e)
           listed == [paid EXCEPT !.reg_epoch = e, !.reg_start = from, !.reg_end = from + w]
           new    == IF w = 0 THEN paid ELSE listed
<1>1. players' = [players EXCEPT ![p] = new]
  BY DEF register
<1>2. ASSUME p = House PROVE NoPrincipal(new)
  <2>1. players[p] \in PlayerRec /\ NoPrincipal(players[p])
    BY <1>2 DEF TypeOK, HouseHoldsNoPrincipal, NoPrincipal
  <2> DEFINE credited == YieldCredit(players[p], e)
             base     == IF credited > 0 THEN touch(players[p], pool, now) ELSE players[p]
  <2>2. /\ paid = [base EXCEPT !.principal = @ + 0, !.entries = @ + 0, !.yield_epoch = e]
        /\ base = players[p]
    <3>1. credited = 0
      BY <1>2, HouseCredit
    <3>2. paid = [base EXCEPT !.principal = @ + credited, !.entries = @ + credited,
                              !.yield_epoch = e]
      BY DEF credit_yield
    <3> HIDE DEF credited
    <3> QED
      BY <3>1, <3>2
  <2> HIDE DEF w, paid, from, base
  <2>3. NoPrincipal(paid) /\ NoPrincipal(listed)
    BY <2>1, <2>2 DEF NoPrincipal, PlayerRec
  <2> QED
    BY <2>3
<1> HIDE DEF new
<1> QED
  BY <1>1, <1>2, HouseKept

\* No epoch instruction gives the House a Principal.
LEMMA EpochsHouse ==
  ASSUME TypeOK, HouseHoldsNoPrincipal, EpochsNext
  PROVE  HouseHoldsNoPrincipal'
<1>1. ASSUME NEW e \in EpochIds, NEW p \in Players, payout(e, p)
      PROVE  HouseHoldsNoPrincipal'
  <2>1. CASE p = House
    BY <1>1, <2>1 DEF payout, HouseHoldsNoPrincipal
  <2>2. CASE p # House
    <3>1. \E new : players' = [players EXCEPT ![p] = new]
      BY <1>1, <2>2 DEF payout
    <3> QED
      BY <2>2, <3>1, HouseKept
  <2> QED
    BY <2>1, <2>2
<1>2. ASSUME players' = players PROVE HouseHoldsNoPrincipal'
  BY <1>2 DEF HouseHoldsNoPrincipal
<1>3. ASSUME NEW s \in Keys,
             begin_epoch(s) \/ \E e \in EpochIds : close_registration(s, e)
      PROVE  players' = players
  BY <1>3 DEF begin_epoch, close_registration
<1>4. ASSUME NEW e \in EpochIds, NEW target, draw(e, target) \/ FulfillEpoch(e) \/ rollover_epoch(e)
      PROVE  players' = players
  BY <1>4 DEF draw, FulfillEpoch, rollover_epoch
<1>5. FundingNext => players' = players
  BY DEF FundingNext, fund_jackpot, fund_yield
<1> QED
  BY <1>1, <1>2, <1>3, <1>4, <1>5, RegisterHouse
  DEF EpochsNext, OperatorEpochNext, AnyoneEpochNext

\* Only wallets play; the House is credited Entries.
LEMMA RoundsHouse ==
  ASSUME TypeOK, HouseHoldsNoPrincipal, RoundsNext
  PROVE  HouseHoldsNoPrincipal'
<1>1. ASSUME players' = players PROVE HouseHoldsNoPrincipal'
  BY <1>1 DEF HouseHoldsNoPrincipal
<1>2. ASSUME NEW p \in Owners, NEW r \in RoundIds,
             \/ \E tiles \in SUBSET Tiles, stake \in Stakes : buy_position(p, r, tiles, stake)
             \/ settle_position(p, r)
      PROVE  HouseHoldsNoPrincipal'
  <2>1. p \in Players /\ p # House
    BY KeysAssumption DEF Players
  <2>2. \E new : players' = [players EXCEPT ![p] = new]
    BY <1>2 DEF buy_position, settle_position
  <2> QED
    BY <2>1, <2>2, HouseKept
<1>3. ASSUME NEW r \in RoundIds, NEW tile \in Tiles, settle_round(r, tile)
      PROVE  HouseHoldsNoPrincipal'
  <2> DEFINE plr == touch(players[House], pool, now)
             new(n) == [plr EXCEPT !.entries = @ + n]
  <2>1. players' = players \/ \E n : players' = [players EXCEPT ![House] = new(n)]
    BY <1>3 DEF settle_round
  <2>2. NoPrincipal(plr) /\ plr \in PlayerRec /\ House \in Players
    BY HouseTouched DEF Players
  <2> HIDE DEF plr
  <2>3. \A n : NoPrincipal(new(n))
    BY <2>2 DEF NoPrincipal, PlayerRec
  <2> HIDE DEF new
  <2> QED
    BY <1>1, <2>1, <2>2, <2>3, HouseKept
<1>4. ASSUME NEW s \in Keys, NEW starts_at \in now..(now + MaxLead), create_round(s, starts_at)
      PROVE  players' = players
  BY <1>4 DEF create_round
<1>5. ASSUME NEW r \in RoundIds,
             \/ request_round_randomness(r) \/ FulfillRound(r) \/ void_round(r) \/ close_round(r)
      PROVE  players' = players
  BY <1>5 DEF request_round_randomness, FulfillRound, void_round, close_round
<1> QED
  BY <1>1, <1>2, <1>3, <1>4, <1>5
  DEF RoundsNext, OperatorRoundNext, PlayNext, AnyoneRoundNext

\* Nobody ever deposits for the House: its Principal stays 0.
LEMMA NextHouse ==
  ASSUME TypeOK, HouseHoldsNoPrincipal, [Next]_vars
  PROVE  HouseHoldsNoPrincipal'
<1>1. CASE Tick \/ UNCHANGED vars \/ AdminNext \/ TreasuryNext
  <2>1. players' = players
    BY <1>1 DEF Tick, vars, AdminNext, set_params, set_pause, set_feature_pause, shutdown,
                set_operator, propose_admin, accept_admin, TreasuryNext, admin_withdraw,
                return_principal, sweep_house
  <2> QED
    BY <2>1 DEF HouseHoldsNoPrincipal
<1> QED
  BY <1>1, DepositorHouse, GrantHouse, EpochsHouse, RoundsHouse DEF Next, CustodyNext

-----------------------------------------------------------------------------
(* Rounds                                                                  *)

InPlay == {"Open", "Requested"}

Holders(r) == {p \in Owners : positions[r][p].tiles # {}}

\* A round create_round has yet to reach is untouched.
FreshRounds ==
  /\ pool.next_round_id >= 1
  /\ \A r \in RoundIds : r >= pool.next_round_id => rounds[r] = NoRound

RoundsTracked == FreshRounds /\ OneOpenRound /\ PositionsCounted

\* Instructions outside the game leave everything the counts are about alone.
LEMMA OutsideTheGame ==
  ASSUME TypeOK, Tick \/ CustodyNext \/ EpochsNext \/ UNCHANGED vars
  PROVE  /\ rounds' = rounds /\ positions' = positions
         /\ pool'.open_round_id = pool.open_round_id
         /\ pool'.next_round_id = pool.next_round_id
         /\ pool'.carry_pot = pool.carry_pot
<1> DEFINE Same == /\ rounds' = rounds /\ positions' = positions
                   /\ pool'.open_round_id = pool.open_round_id
                   /\ pool'.next_round_id = pool.next_round_id
                   /\ pool'.carry_pot = pool.carry_pot
<1>1. pool \in PoolRec
  BY DEF TypeOK
<1>2. CASE Tick \/ UNCHANGED vars
  BY <1>2 DEF Tick, vars
<1>3. CASE AdminNext
  <2>1. ASSUME NEW s, NEW v, set_params(s, v) PROVE Same
    BY <2>1 DEF set_params
  <2>2. ASSUME NEW s, NEW on, set_pause(s, on) PROVE Same
    BY <1>1, <2>2 DEF set_pause, PoolRec
  <2>3. ASSUME NEW s, NEW feature, NEW on, set_feature_pause(s, feature, on) PROVE Same
    BY <1>1, <2>3 DEF set_feature_pause, PoolRec
  <2>4. ASSUME NEW s, shutdown(s) PROVE Same
    BY <1>1, <2>4 DEF shutdown, PoolRec
  <2>5. ASSUME NEW s, NEW k, set_operator(s, k) \/ propose_admin(s, k) PROVE Same
    BY <1>1, <2>5 DEF set_operator, propose_admin, PoolRec
  <2>6. ASSUME NEW s, accept_admin(s) PROVE Same
    BY <1>1, <2>6 DEF accept_admin, PoolRec
  <2> HIDE DEF Same
  <2>7. Same
    BY <1>3, <2>1, <2>2, <2>3, <2>4, <2>5, <2>6 DEF AdminNext
  <2> QED
    BY <2>7 DEF Same
<1>4. CASE DepositorNext
  <2>1. /\ rounds' = rounds /\ positions' = positions
        /\ \/ pool' = pool
           \/ \E a, b : pool' = [pool EXCEPT !.total_principal = a, !.pending_withdrawals = b]
           \/ \E a : pool' = [pool EXCEPT !.total_principal = a]
           \/ \E b : pool' = [pool EXCEPT !.pending_withdrawals = b]
    BY <1>4 DEF DepositorNext, deposit, request_withdraw, buy_tickets, process_withdraw,
                emergency_withdraw
  <2> QED
    BY <1>1, <2>1 DEF PoolRec
<1>5. CASE TreasuryNext
  BY <1>1, <1>5 DEF TreasuryNext, admin_withdraw, return_principal, sweep_house, PoolRec
<1>6. CASE GrantNext
  BY <1>1, <1>6 DEF GrantNext, grant_tickets, grant_tickets_operator, grant_tickets_admin, PoolRec
<1>7. CASE EpochsNext
  <2>1. ASSUME NEW s \in Keys, begin_epoch(s) PROVE Same
    BY <1>1, <2>1 DEF begin_epoch, PoolRec
  <2>2. ASSUME NEW e \in EpochIds, NEW s \in Keys, close_registration(s, e) PROVE Same
    BY <1>1, <2>2 DEF close_registration, PoolRec
  <2>3. ASSUME NEW e \in EpochIds, NEW p \in Players, register(e, p) PROVE Same
    <3>1. /\ rounds' = rounds /\ positions' = positions
          /\ pool' = pool \/ \E a, b : pool' = [pool EXCEPT !.total_principal = a, !.yield_budget = b]
      BY <2>3 DEF register
    <3> QED
      BY <1>1, <3>1 DEF PoolRec
  <2>4. ASSUME NEW e \in EpochIds, NEW p \in Players, payout(e, p) PROVE Same
    <3>1. /\ rounds' = rounds /\ positions' = positions
          /\ \/ \E a, b : pool' = [pool EXCEPT !.jackpot_reserved = b, !.total_principal = a]
             \/ \E b : pool' = [pool EXCEPT !.jackpot_reserved = b]
      BY <2>4 DEF payout
    <3> QED
      BY <1>1, <3>1 DEF PoolRec
  <2>5. ASSUME NEW e \in EpochIds, NEW target, draw(e, target) \/ FulfillEpoch(e) PROVE Same
    BY <2>5 DEF draw, FulfillEpoch
  <2>6. ASSUME NEW e \in EpochIds, rollover_epoch(e) PROVE Same
    BY <1>1, <2>6 DEF rollover_epoch, PoolRec
  <2>7. ASSUME NEW amount \in Amounts, fund_jackpot(amount) \/ fund_yield(amount) PROVE Same
    BY <1>1, <2>7 DEF fund_jackpot, fund_yield, PoolRec
  <2> HIDE DEF Same
  <2>8. Same
    BY <1>7, <2>1, <2>2, <2>3, <2>4, <2>5, <2>6, <2>7
    DEF EpochsNext, OperatorEpochNext, AnyoneEpochNext, FundingNext
  <2> QED
    BY <2>8 DEF Same
<1> QED
  BY <1>2, <1>3, <1>4, <1>5, <1>6, <1>7 DEF CustodyNext

\* A step on one created round that leaves it as open, or as closed, as it was.
LEMMA SameOpen ==
  ASSUME TypeOK, FreshRounds, OneOpenRound, NEW r \in RoundIds, NEW new,
         rounds' = [rounds EXCEPT ![r] = new], rounds[r].status # "None",
         new.status \in InPlay <=> rounds[r].status \in InPlay,
         pool'.open_round_id = pool.open_round_id, pool'.next_round_id = pool.next_round_id
  PROVE  FreshRounds' /\ OneOpenRound'
<1>1. /\ rounds'[r] = new
      /\ \A x \in RoundIds \ {r} : rounds'[x] = rounds[x]
  BY DEF TypeOK
<1>2. ~(r >= pool.next_round_id)
  BY DEF FreshRounds, NoRound
<1> QED
  BY <1>1, <1>2 DEF FreshRounds, OneOpenRound, InPlay

\* A step that finishes the round in play frees the pool for the next.
LEMMA RoundEnds ==
  ASSUME TypeOK, FreshRounds, OneOpenRound, NEW r \in RoundIds, NEW new,
         rounds' = [rounds EXCEPT ![r] = new], rounds[r].status \in InPlay,
         new.status \notin InPlay,
         pool'.open_round_id = 0, pool'.next_round_id = pool.next_round_id
  PROVE  FreshRounds' /\ OneOpenRound'
<1>1. /\ rounds'[r] = new
      /\ \A x \in RoundIds \ {r} : rounds'[x] = rounds[x]
  BY DEF TypeOK
<1>2. ~(r >= pool.next_round_id)
  BY DEF FreshRounds, NoRound, InPlay
<1>3. pool.open_round_id = r /\ \A x \in RoundIds : x # 0
  BY DEF OneOpenRound, InPlay, RoundIds
<1> QED
  BY <1>1, <1>2, <1>3 DEF FreshRounds, OneOpenRound, InPlay

\* A step that moves no position and no counter.
LEMMA SameCounts ==
  ASSUME PositionsCounted, positions' = positions,
         \A r \in RoundIds : rounds'[r].open_positions = rounds[r].open_positions
  PROVE  PositionsCounted'
  BY DEF PositionsCounted

\* Whoever may still take a position is finite in number.
LEMMA HoldersFinite ==
  ASSUME NEW r
  PROVE  IsFiniteSet(Holders(r)) /\ Cardinality(Holders(r)) \in Nat
<1>1. Holders(r) \subseteq Owners
  BY DEF Holders
<1> QED
  BY <1>1, OwnersAssumption, FS_Subset, FS_CardinalityType

\* create_round writes a round nobody has touched.
LEMMA CreateTracked ==
  ASSUME TypeOK, RoundsTracked, NEW s \in Keys, NEW starts_at \in now..(now + MaxLead),
         create_round(s, starts_at)
  PROVE  RoundsTracked'
<1> DEFINE r   == pool.next_round_id
           new == [NoRound EXCEPT !.status = "Open", !.epoch_id = pool.current_epoch_id,
                                  !.starts_at = starts_at,
                                  !.ends_at = starts_at + params.round_seconds,
                                  !.pot = pool.carry_pot]
<1>1. /\ rounds' = [rounds EXCEPT ![r] = new] /\ positions' = positions
      /\ pool' = [pool EXCEPT !.next_round_id = r + 1, !.open_round_id = r, !.carry_pot = 0]
      /\ r <= MaxRound /\ pool.open_round_id = 0
  BY DEF create_round
<1>2. r \in RoundIds /\ pool \in PoolRec /\ r \in Nat
  BY <1>1, BoundsAssumption DEF RoundsTracked, FreshRounds, RoundIds, TypeOK, PoolRec
<1>3. /\ rounds'[r] = new /\ rounds[r] = NoRound
      /\ \A x \in RoundIds \ {r} : rounds'[x] = rounds[x]
  BY <1>1, <1>2 DEF RoundsTracked, FreshRounds, TypeOK, RoundIds
<1>4. pool'.next_round_id = r + 1 /\ pool'.open_round_id = r
  BY <1>1, <1>2 DEF PoolRec
<1>5. new.status = "Open" /\ new.open_positions = 0 /\ NoRound.open_positions = 0
  BY DEF NoRound
<1> HIDE DEF new
<1>6. \A x \in RoundIds : x \in Nat /\ x >= 1
  BY DEF RoundIds
<1>7. FreshRounds'
  <2> HIDE DEF r
  <2> QED
    BY <1>2, <1>3, <1>4, <1>6 DEF RoundsTracked, FreshRounds, r
<1>8. OneOpenRound'
  BY <1>1, <1>2, <1>3, <1>4, <1>5, <1>6 DEF RoundsTracked, OneOpenRound
<1>9. PositionsCounted'
  BY <1>1, <1>3, <1>5, SameCounts DEF RoundsTracked
<1> QED
  BY <1>7, <1>8, <1>9 DEF RoundsTracked

\* A purchase takes a position its owner did not have, and counts it.
LEMMA BuyTracked ==
  ASSUME TypeOK, RoundsTracked, NEW p \in Owners, NEW r \in RoundIds, NEW tiles \in SUBSET Tiles,
         NEW stake \in Stakes, buy_position(p, r, tiles, stake)
  PROVE  RoundsTracked'
<1> DEFINE total  == stake * Cardinality(tiles)
           totals == StakedOn(rounds[r].tile_totals, tiles, stake)
           new    == [rounds[r] EXCEPT !.tile_totals = totals, !.pot = @ + total,
                                       !.open_positions = @ + 1]
<1>1. /\ rounds' = [rounds EXCEPT ![r] = new] /\ pool' = pool
      /\ positions' = [positions EXCEPT ![r][p] = [tiles |-> tiles, stake_per_tile |-> stake]]
      /\ rounds[r].status = "Open" /\ tiles # {} /\ positions[r][p].tiles = {}
  BY DEF buy_position
<1>2. rounds[r] \in RoundRec /\ rounds[r].open_positions \in Nat
  BY DEF TypeOK, RoundRec
<1> HIDE DEF total, totals
<1>3. new.status = rounds[r].status /\ new.open_positions = rounds[r].open_positions + 1
  BY <1>2 DEF RoundRec
<1> HIDE DEF new
<1>4. FreshRounds' /\ OneOpenRound'
  BY <1>1, <1>3, SameOpen DEF RoundsTracked
<1>5. /\ rounds'[r] = new
      /\ \A x \in RoundIds \ {r} : rounds'[x] = rounds[x] /\ positions'[x] = positions[x]
  BY <1>1 DEF TypeOK
<1>6. Holders(r)' = Holders(r) \cup {p} /\ p \notin Holders(r)
  BY <1>1 DEF TypeOK, Holders
<1>7. Cardinality(Holders(r)') = Cardinality(Holders(r)) + 1
  BY <1>6, HoldersFinite, FS_AddElement
<1>8. \A x \in RoundIds : rounds[x].open_positions = Cardinality(Holders(x))
  BY DEF RoundsTracked, PositionsCounted, Holders
<1>9. ASSUME NEW x \in RoundIds PROVE rounds'[x].open_positions = Cardinality(Holders(x)')
  <2>1. CASE x = r
    BY <1>3, <1>5, <1>7, <1>8, <2>1
  <2>2. CASE x # r
    <3>1. Holders(x)' = Holders(x)
      BY <1>5, <2>2 DEF Holders
    <3> QED
      BY <1>5, <1>8, <2>2, <3>1
  <2> QED
    BY <2>1, <2>2
<1>10. PositionsCounted'
  BY <1>9 DEF PositionsCounted, Holders
<1> QED
  BY <1>4, <1>10 DEF RoundsTracked

\* Settling a position takes it away, and uncounts it.
LEMMA SettlePositionTracked ==
  ASSUME TypeOK, RoundsTracked, NEW p \in Owners, NEW r \in RoundIds, settle_position(p, r)
  PROVE  RoundsTracked'
<1> DEFINE new == [rounds[r] EXCEPT !.open_positions = @ - 1]
<1>1. /\ rounds' = [rounds EXCEPT ![r] = new] /\ pool' = pool
      /\ positions' = [positions EXCEPT ![r][p] = NoPosition]
      /\ rounds[r].status \in Terminal /\ positions[r][p].tiles # {}
  BY DEF settle_position, TypeOK
<1>2. rounds[r] \in RoundRec /\ rounds[r].open_positions \in Nat
  BY DEF TypeOK, RoundRec
<1>3. new.status = rounds[r].status /\ new.open_positions = rounds[r].open_positions - 1
  BY <1>2 DEF RoundRec
<1> HIDE DEF new
<1>4. FreshRounds' /\ OneOpenRound'
  BY <1>1, <1>3, SameOpen DEF RoundsTracked, Terminal
<1>5. /\ rounds'[r] = new
      /\ \A x \in RoundIds \ {r} : rounds'[x] = rounds[x] /\ positions'[x] = positions[x]
  BY <1>1 DEF TypeOK
<1>6. Holders(r)' = Holders(r) \ {p} /\ p \in Holders(r)
  BY <1>1 DEF TypeOK, Holders, NoPosition
<1>7. Cardinality(Holders(r)') = Cardinality(Holders(r)) - 1
  BY <1>6, HoldersFinite, FS_RemoveElement
<1>8. \A x \in RoundIds : rounds[x].open_positions = Cardinality(Holders(x))
  BY DEF RoundsTracked, PositionsCounted, Holders
<1>9. ASSUME NEW x \in RoundIds PROVE rounds'[x].open_positions = Cardinality(Holders(x)')
  <2>1. CASE x = r
    BY <1>3, <1>5, <1>7, <1>8, <2>1
  <2>2. CASE x # r
    <3>1. Holders(x)' = Holders(x)
      BY <1>5, <2>2 DEF Holders
    <3> QED
      BY <1>5, <1>8, <2>2, <3>1
  <2> QED
    BY <2>1, <2>2
<1>10. PositionsCounted'
  BY <1>9 DEF PositionsCounted, Holders
<1> QED
  BY <1>4, <1>10 DEF RoundsTracked

\* Randomness is asked for and given within a round in play.
LEMMA RandomnessTracked ==
  ASSUME TypeOK, RoundsTracked, NEW r \in RoundIds, request_round_randomness(r) \/ FulfillRound(r)
  PROVE  RoundsTracked'
<1>1. PICK new :
        /\ rounds' = [rounds EXCEPT ![r] = new] /\ pool' = pool /\ positions' = positions
        /\ new.status \in InPlay /\ new.open_positions = rounds[r].open_positions
        /\ rounds[r].status \in InPlay
  <2>1. rounds[r] \in RoundRec
    BY DEF TypeOK
  <2>2. CASE request_round_randomness(r)
    BY <2>1, <2>2 DEF request_round_randomness, RoundRec, InPlay, TypeOK
  <2>3. CASE FulfillRound(r)
    BY <2>1, <2>3 DEF FulfillRound, RoundRec, InPlay, TypeOK
  <2> QED
    BY <2>2, <2>3
<1>2. FreshRounds' /\ OneOpenRound'
  BY <1>1, SameOpen DEF RoundsTracked, InPlay
<1>3. PositionsCounted'
  <2>1. \A x \in RoundIds : rounds'[x].open_positions = rounds[x].open_positions
    BY <1>1 DEF TypeOK
  <2> QED
    BY <1>1, <2>1, SameCounts DEF RoundsTracked
<1> QED
  BY <1>2, <1>3 DEF RoundsTracked

\* Settling or voiding finishes the round in play.
LEMMA FinishTracked ==
  ASSUME TypeOK, RoundsTracked, NEW r \in RoundIds,
         (\E tile \in Tiles : settle_round(r, tile)) \/ void_round(r)
  PROVE  RoundsTracked'
<1>1. rounds[r] \in RoundRec /\ pool \in PoolRec
  BY DEF TypeOK
<1>2. PICK new :
        /\ rounds' = [rounds EXCEPT ![r] = new] /\ positions' = positions
        /\ new.status \notin InPlay /\ new.open_positions = rounds[r].open_positions
        /\ rounds[r].status \in InPlay
        /\ pool'.open_round_id = 0 /\ pool'.next_round_id = pool.next_round_id
  <2>1. ASSUME NEW tile \in Tiles, settle_round(r, tile)
        PROVE  \E new :
                 /\ rounds' = [rounds EXCEPT ![r] = new] /\ positions' = positions
                 /\ new.status \notin InPlay /\ new.open_positions = rounds[r].open_positions
                 /\ rounds[r].status \in InPlay
                 /\ pool'.open_round_id = 0 /\ pool'.next_round_id = pool.next_round_id
    <3> DEFINE forfeited == rounds[r].tile_totals[tile] = 0
               cut       == IF forfeited THEN 0 ELSE HouseCut(r)
               status    == IF forfeited THEN "Forfeited" ELSE "Settled"
               new       == [rounds[r] EXCEPT !.status = status, !.house_cut = cut,
                                              !.winning_tile = tile]
    <3>1. /\ rounds' = [rounds EXCEPT ![r] = new] /\ positions' = positions
          /\ pool' = [pool EXCEPT !.open_round_id = 0] /\ rounds[r].status = "Requested"
      BY <2>1 DEF settle_round
    <3>2. status \notin InPlay
      BY DEF InPlay
    <3> HIDE DEF forfeited, cut, status
    <3>3. new.status = status /\ new.open_positions = rounds[r].open_positions
      BY <1>1 DEF RoundRec
    <3>4. pool'.open_round_id = 0 /\ pool'.next_round_id = pool.next_round_id
      BY <1>1, <3>1 DEF PoolRec
    <3> HIDE DEF new
    <3> QED
      BY <3>1, <3>2, <3>3, <3>4 DEF InPlay
  <2>2. ASSUME void_round(r)
        PROVE  \E new :
                 /\ rounds' = [rounds EXCEPT ![r] = new] /\ positions' = positions
                 /\ new.status \notin InPlay /\ new.open_positions = rounds[r].open_positions
                 /\ rounds[r].status \in InPlay
                 /\ pool'.open_round_id = 0 /\ pool'.next_round_id = pool.next_round_id
    <3> DEFINE new == [rounds[r] EXCEPT !.status = "Voided"]
    <3>1. /\ rounds' = [rounds EXCEPT ![r] = new] /\ positions' = positions
          /\ rounds[r].status \in InPlay
      BY <2>2 DEF void_round, VoidDue, InPlay, TypeOK
    <3>2. pool'.open_round_id = 0 /\ pool'.next_round_id = pool.next_round_id
      BY <1>1, <2>2 DEF void_round, PoolRec
    <3>3. new.status \notin InPlay /\ new.open_positions = rounds[r].open_positions
      BY <1>1 DEF RoundRec, InPlay
    <3> QED
      BY <3>1, <3>2, <3>3
  <2> QED
    BY <2>1, <2>2
<1>3. FreshRounds' /\ OneOpenRound'
  BY <1>2, RoundEnds DEF RoundsTracked
<1>4. PositionsCounted'
  <2>1. \A x \in RoundIds : rounds'[x].open_positions = rounds[x].open_positions
    BY <1>2 DEF TypeOK
  <2> QED
    BY <1>2, <2>1, SameCounts DEF RoundsTracked
<1> QED
  BY <1>3, <1>4 DEF RoundsTracked

\* close_round reclaims a finished round nobody has a position in.
LEMMA CloseTracked ==
  ASSUME TypeOK, RoundsTracked, NEW r \in RoundIds, close_round(r)
  PROVE  RoundsTracked'
<1> DEFINE new == [NoRound EXCEPT !.status = "Closed"]
<1>1. /\ rounds' = [rounds EXCEPT ![r] = new] /\ pool' = pool /\ positions' = positions
      /\ rounds[r].status \in Terminal /\ rounds[r].open_positions = 0
  BY DEF close_round
<1>2. new.status = "Closed" /\ new.open_positions = 0
  BY DEF NoRound
<1> HIDE DEF new
<1>3. FreshRounds' /\ OneOpenRound'
  BY <1>1, <1>2, SameOpen DEF RoundsTracked, Terminal, InPlay
<1>4. PositionsCounted'
  <2>1. \A x \in RoundIds : rounds'[x].open_positions = rounds[x].open_positions
    BY <1>1, <1>2 DEF TypeOK
  <2> QED
    BY <1>1, <2>1, SameCounts DEF RoundsTracked
<1> QED
  BY <1>3, <1>4 DEF RoundsTracked

\* Every step keeps the rounds' and the Players' counts of positions in step.
LEMMA NextTracked ==
  ASSUME TypeOK, RoundsTracked, [Next]_vars
  PROVE  RoundsTracked'
<1>1. CASE Tick \/ CustodyNext \/ EpochsNext \/ UNCHANGED vars
  BY <1>1, OutsideTheGame DEF RoundsTracked, FreshRounds, OneOpenRound, PositionsCounted
<1>2. CASE RoundsNext
  BY <1>2, CreateTracked, BuyTracked, SettlePositionTracked, RandomnessTracked, FinishTracked,
     CloseTracked
  DEF RoundsNext, OperatorRoundNext, PlayNext, AnyoneRoundNext
<1> QED
  BY <1>1, <1>2 DEF Next

\* A freshly initialized pool has neither rounds nor positions.
LEMMA InitTracked == Init => RoundsTracked
<1> SUFFICES ASSUME Init PROVE RoundsTracked
  OBVIOUS
<1>1. FreshRounds /\ OneOpenRound
  BY DEF Init, InitWith, FreshRounds, OneOpenRound, NoRound, RoundIds
<1>2. ASSUME NEW r \in RoundIds PROVE rounds[r].open_positions = Cardinality(Holders(r))
  <2>1. Holders(r) = {}
    BY DEF Init, InitWith, Holders, NoPosition
  <2> QED
    BY <2>1, FS_EmptySet DEF Init, InitWith, NoRound
<1>3. PositionsCounted
  BY <1>2 DEF PositionsCounted, Holders
<1> QED
  BY <1>1, <1>3 DEF RoundsTracked

-----------------------------------------------------------------------------
\* In every interleaving of custody, epochs and game, for any number of
\* wallets and rounds: total_principal and pending_withdrawals are the sums
\* over the Player accounts (so no checked subtraction on them can refuse an
\* exit), the House holds no Principal, open_round_id names the one round in
\* play, and open_positions counts the positions (so close_round reclaims no
\* round somebody still has a position in).
THEOREM RecordsHold == Spec => []RecordsAgree
<1> DEFINE IInv == BooksAddUp /\ HouseHoldsNoPrincipal /\ RoundsTracked
<1>1. Init => IInv
  <2>1. Init => HouseHoldsNoPrincipal
    BY DEF Init, InitWith, NoPlayer, HouseHoldsNoPrincipal, Players
  <2> QED
    BY <2>1, InitBooks, InitTracked
<1>2. TypeOK /\ TypeOK' /\ IInv /\ [Next]_vars => IInv'
  BY NextBooks, NextHouse, NextTracked
<1>3. IInv => RecordsAgree
  BY DEF RecordsAgree, RoundsTracked
<1> QED
  BY <1>1, <1>2, <1>3, TypeCorrect, PTL DEF Spec

\* The read API's principalOut (api.service.ts:150), worked out from balances
\* alone, is what the admin has lent out and not returned: the vault and the
\* three totals are off by exactly that, after every sequence of instructions.
THEOREM PrincipalOutTrue == Spec => []PrincipalOutIsLent
<1>1. TypeOK /\ Backing => PrincipalOutIsLent
  <2> SUFFICES ASSUME TypeOK, Backing PROVE PrincipalOutIsLent
    OBVIOUS
  <2>1. /\ tokens.principal_vault \in Nat /\ tokens.admin \in Int
        /\ pool.total_principal \in Nat /\ pool.pending_withdrawals \in Nat
        /\ pool.yield_budget \in Nat
    BY DEF TypeOK, TokenRec, PoolRec
  <2>2. pool.total_principal + pool.pending_withdrawals + pool.yield_budget
          - tokens.principal_vault = tokens.admin
    BY <2>1 DEF Backing
  <2> QED
    BY <2>2 DEF PrincipalOutIsLent, principalOut
<1> QED
  BY <1>1, TypeCorrect, VaultBacksClaims, PTL

-----------------------------------------------------------------------------
(* The game. EntriesInPlay is what the accounts hold, what the rounds of   *)
(* the epoch still hold or owe, and the carry: one instruction moves one   *)
(* account, one round and the carry.                                       *)

\* What everybody holds.
EntriesHeld == Total([p \in Players |-> EntriesNow(p)])

PotsInPlay == Total([r \in RoundIds |-> PotInPlay(r)])

\* An instruction that writes one account, seen from what touching it gives.
LEMMA HeldAdds ==
  ASSUME TypeOK, TypeOK', pool'.current_epoch_id = pool.current_epoch_id,
         NEW p \in Players, NEW n \in Int, NEW new,
         players' = [players EXCEPT ![p] = new],
         Held(new, pool.current_epoch_id) = Held(players[p], pool.current_epoch_id) + n
  PROVE  EntriesHeld' = EntriesHeld + n
<1> DEFINE f == [q \in Players |-> EntriesNow(q)]
           g == [q \in Players |-> EntriesNow(q)']
<1>1. /\ pool \in PoolRec /\ pool' \in PoolRec /\ now \in Int /\ now' \in Int
      /\ players \in [Players -> PlayerRec] /\ players' \in [Players -> PlayerRec]
  BY DEF TypeOK
<1>2. ASSUME NEW q \in Players
      PROVE  /\ f[q] = Held(players[q], pool.current_epoch_id) /\ f[q] \in Nat
             /\ g[q] = Held(players'[q], pool'.current_epoch_id) /\ g[q] \in Nat
  <2>1. players[q] \in PlayerRec /\ players'[q] \in PlayerRec
    BY <1>1
  <2>2. f[q] = touch(players[q], pool, now).entries
    BY DEF EntriesNow
  <2>3. g[q] = touch(players'[q], pool', now').entries
    BY DEF EntriesNow
  <2> HIDE DEF f, g
  <2> QED BY <1>1, <2>1, <2>2, <2>3, TouchedEntries
<1>3. \A q \in Players \ {p} : g[q] = f[q]
  <2>1. \A q \in Players \ {p} : players'[q] = players[q]
    BY <1>1
  <2> HIDE DEF f, g
  <2> QED BY <1>2, <2>1 DEF Held
<1>4. g[p] = f[p] + n
  <2>1. players'[p] = new
    BY <1>1
  <2> HIDE DEF f, g
  <2> QED BY <1>2, <2>1 DEF Held
<1>5. EntriesHeld = Total(f) /\ EntriesHeld' = Total(g)
  BY DEF EntriesHeld
<1>6. Total(g) = Total(f) + g[p] - f[p]
  <2>1. DOMAIN f = Players /\ DOMAIN g = Players
    OBVIOUS
  <2> HIDE DEF f, g
  <2> QED BY <1>2, <1>3, <2>1, PlayersFinite, TotalUpdate
<1>7. Total(f) \in Nat
  <2>1. DOMAIN f = Players
    OBVIOUS
  <2> HIDE DEF f
  <2> QED BY <1>2, <2>1, PlayersFinite, TotalNat
<1> HIDE DEF f, g
<1> QED BY <1>2, <1>4, <1>5, <1>6, <1>7

\* An instruction that credits or debits one touched account.
LEMMA HeldMoves ==
  ASSUME TypeOK, TypeOK', pool'.current_epoch_id = pool.current_epoch_id,
         NEW p \in Players, NEW n \in Int, NEW new,
         players' = [players EXCEPT ![p] = new],
         new.entries = touch(players[p], pool, now).entries + n,
         new.epoch_id = touch(players[p], pool, now).epoch_id
  PROVE  EntriesHeld' = EntriesHeld + n
<1>1. pool \in PoolRec /\ now \in Int /\ players[p] \in PlayerRec
  BY DEF TypeOK
<1>2. /\ touch(players[p], pool, now).entries = Held(players[p], pool.current_epoch_id)
      /\ touch(players[p], pool, now).epoch_id >= pool.current_epoch_id
  BY <1>1, TouchedEntries
<1>3. Held(new, pool.current_epoch_id) = Held(players[p], pool.current_epoch_id) + n
  BY <1>2 DEF Held
<1> QED BY <1>3, HeldAdds

\* An instruction, or a second, that writes no account.
LEMMA HeldStays ==
  ASSUME TypeOK, TypeOK', pool'.current_epoch_id = pool.current_epoch_id,
         players' = players
  PROVE  EntriesHeld' = EntriesHeld
<1>1. ASSUME NEW q \in Players PROVE EntriesNow(q)' = EntriesNow(q)
  <2>1. /\ pool \in PoolRec /\ pool' \in PoolRec /\ now \in Int /\ now' \in Int
        /\ players[q] \in PlayerRec
    BY DEF TypeOK
  <2>2. /\ EntriesNow(q) = touch(players[q], pool, now).entries
        /\ EntriesNow(q)' = touch(players[q], pool', now').entries
    BY DEF EntriesNow
  <2> QED BY <2>1, <2>2, TouchedEntries DEF Held
<1> QED BY <1>1 DEF EntriesHeld

LEMMA HeldNat ==
  ASSUME TypeOK
  PROVE  EntriesHeld \in Nat
<1> DEFINE f == [q \in Players |-> EntriesNow(q)]
<1>1. ASSUME NEW q \in Players PROVE f[q] \in Nat
  <2>1. /\ pool \in PoolRec /\ now \in Int /\ players[q] \in PlayerRec
    BY DEF TypeOK
  <2> QED BY <2>1, TouchedEntries DEF EntriesNow
<1>2. DOMAIN f = Players
  OBVIOUS
<1> HIDE DEF f
<1>3. Total(f) \in Nat
  BY <1>1, <1>2, PlayersFinite, TotalNat
<1> QED BY <1>3 DEF EntriesHeld, f

-----------------------------------------------------------------------------
(* The stakes of a round                                                   *)

StakeOn(r, p, t) ==
  IF t \in positions[r][p].tiles THEN positions[r][p].stake_per_tile ELSE 0

\* While a round is in play, each tile's total is the sum of the stakes on it.
TilesAddUp ==
  \A r \in RoundIds : rounds[r].status \in InPlay =>
    \A t \in Tiles : rounds[r].tile_totals[t] = Total([p \in Owners |-> StakeOn(r, p, t)])

\* A settled round drew a tile somebody was on, and its cut fits its pot.
SettledSound ==
  \A r \in RoundIds : rounds[r].status = "Settled" =>
    /\ rounds[r].winning_tile \in Tiles
    /\ rounds[r].tile_totals[rounds[r].winning_tile] > 0
    /\ rounds[r].house_cut <= rounds[r].pot

StakesTracked == TilesAddUp /\ SettledSound

\* house_cut_bps is at most the whole.
LEMMA CutFits ==
  ASSUME TypeOK, ParamsValid, NEW r \in RoundIds
  PROVE  HouseCut(r) \in Nat /\ HouseCut(r) <= rounds[r].pot
<1> DEFINE pot == rounds[r].pot
           bps == params.house_cut_bps
           whole == BPS_DENOMINATOR
<1>1. pot \in Nat /\ bps \in Nat /\ whole \in Nat /\ whole > 0 /\ bps <= whole
  BY UnitsAssumption DEF TypeOK, RoundRec, ParamRec, ParamsValid, ValidParams
<1>2. HouseCut(r) = (pot * bps) \div whole
  BY DEF HouseCut
<1> HIDE DEF pot, bps, whole
<1>3. pot * bps \in Nat /\ pot * bps <= pot * whole
  <2>1. pot * (whole - bps) >= 0
    BY <1>1
  <2>2. pot * (whole - bps) = pot * whole - pot * bps /\ pot * bps \in Nat /\ pot * whole \in Nat
    BY <1>1
  <2> QED BY <2>1, <2>2
<1> DEFINE cut == (pot * bps) \div whole
<1>4. cut \in Nat /\ whole * cut <= pot * bps /\ whole * cut \in Nat
  BY <1>1, <1>3, DivideNat
<1> HIDE DEF cut
<1>5. cut <= pot
  <2> SUFFICES ASSUME pot + 1 <= cut PROVE FALSE
    BY <1>1, <1>4
  <2>1. whole * (cut - pot) >= whole * 1
    BY <1>1, <1>4
  <2>2. whole * (cut - pot) = whole * cut - whole * pot /\ whole * pot = pot * whole
    BY <1>1, <1>4
  <2>3. whole * cut \in Nat /\ pot * whole \in Nat
    BY <1>1, <1>4
  <2> QED BY <1>1, <1>3, <1>4, <2>1, <2>2, <2>3
<1> QED BY <1>1, <1>2, <1>4, <1>5 DEF cut, pot

\* A position's share of a sound round is a natural.
LEMMA RewardSound ==
  ASSUME TypeOK, SettledSound, NEW r \in RoundIds, NEW p \in Owners
  PROVE  Reward(r, p) \in Nat
<1>1. rounds[r] \in RoundRec
  BY DEF TypeOK
<1> QED BY <1>1, RewardNat DEF SettledSound, Rewarded, RoundRec

LEMMA PotNat ==
  ASSUME TypeOK, SettledSound, NEW r \in RoundIds
  PROVE  PotInPlay(r) \in Nat
<1> DEFINE f == [p \in Owners |-> Reward(r, p)]
<1>1. /\ DOMAIN f = Owners /\ \A p \in Owners : f[p] \in Nat
  BY RewardSound
<1>2. rounds[r].pot \in Nat
  BY DEF TypeOK, RoundRec
<1>3. PotInPlay(r) = IF rounds[r].epoch_id # pool.current_epoch_id THEN 0
                     ELSE IF rounds[r].status \in {"Open", "Requested"} THEN rounds[r].pot
                     ELSE Total(f)
  BY DEF PotInPlay
<1> HIDE DEF f
<1>4. Total(f) \in Nat
  BY <1>1, OwnersAssumption, TotalNat
<1> QED BY <1>2, <1>3, <1>4

LEMMA PotNatNext == (TypeOK /\ SettledSound => \A r \in RoundIds : PotInPlay(r) \in Nat)'
<1>1. TypeOK /\ SettledSound => \A r \in RoundIds : PotInPlay(r) \in Nat
  BY PotNat
<1> QED BY <1>1, PTL

\* Only a settled round owes anybody anything.
LEMMA OwesNothing ==
  ASSUME NEW r \in RoundIds, rounds[r].status \notin InPlay, rounds[r].status # "Settled"
  PROVE  PotInPlay(r) = 0
<1> DEFINE f == [p \in Owners |-> Reward(r, p)]
<1>1. DOMAIN f = Owners /\ \A p \in Owners : f[p] = 0
  BY DEF Reward, Rewarded
<1>2. rounds[r].epoch_id = pool.current_epoch_id => PotInPlay(r) = Total(f)
  BY DEF PotInPlay, InPlay
<1> HIDE DEF f
<1>3. Total(f) = 0
  BY <1>1, OwnersAssumption, TotalZero
<1> QED BY <1>2, <1>3 DEF PotInPlay

\* An instruction on one round moves that round's pot only.
LEMMA PotsMove ==
  ASSUME TypeOK, TypeOK', SettledSound, SettledSound', NEW r \in RoundIds,
         pool'.current_epoch_id = pool.current_epoch_id,
         \A x \in RoundIds \ {r} : rounds'[x] = rounds[x] /\ positions'[x] = positions[x]
  PROVE  /\ PotsInPlay \in Nat
         /\ PotsInPlay' = PotsInPlay + PotInPlay(r)' - PotInPlay(r)
<1> DEFINE f == [x \in RoundIds |-> PotInPlay(x)]
           g == [x \in RoundIds |-> PotInPlay(x)']
<1>1. \A x \in RoundIds : f[x] \in Nat
  BY PotNat
<1>2. \A x \in RoundIds : g[x] \in Nat
  BY PotNatNext
<1>3. ASSUME NEW x \in RoundIds \ {r} PROVE g[x] = f[x]
  <2>1. \A p \in Owners : Reward(x, p)' = Reward(x, p)
    BY DEF Reward, Rewarded
  <2>2. [p \in Owners |-> Reward(x, p)'] = [p \in Owners |-> Reward(x, p)]
    BY <2>1
  <2> QED BY <2>2 DEF PotInPlay
<1>4. PotsInPlay = Total(f) /\ PotsInPlay' = Total(g)
  BY DEF PotsInPlay
<1>5. DOMAIN f = RoundIds /\ DOMAIN g = RoundIds /\ IsFiniteSet(RoundIds)
  BY BoundsAssumption, FS_Interval DEF RoundIds
<1>6. f[r] = PotInPlay(r) /\ g[r] = PotInPlay(r)'
  OBVIOUS
<1> HIDE DEF f, g
<1>7. Total(g) = Total(f) + g[r] - f[r]
  BY <1>1, <1>2, <1>3, <1>5, TotalUpdate
<1>8. Total(f) \in Nat
  BY <1>1, <1>5, TotalNat
<1> QED BY <1>4, <1>6, <1>7, <1>8

LEMMA OwesNothingNext ==
  (\A r \in RoundIds : (rounds[r].status \notin InPlay /\ rounds[r].status # "Settled")
     => PotInPlay(r) = 0)'
<1>1. \A r \in RoundIds : (rounds[r].status \notin InPlay /\ rounds[r].status # "Settled")
        => PotInPlay(r) = 0
  BY OwesNothing
<1> QED BY <1>1, PTL

\* What an instruction pays out of a round, or carries over, it takes from the
\* round's pot or the carry.
LEMMA InPlayMoves ==
  ASSUME TypeOK, TypeOK', SettledSound, SettledSound', NEW r \in RoundIds,
         pool'.current_epoch_id = pool.current_epoch_id,
         \A x \in RoundIds \ {r} : rounds'[x] = rounds[x] /\ positions'[x] = positions[x],
         NEW n \in Int, EntriesHeld' = EntriesHeld + n,
         n + PotInPlay(r)' + pool'.carry_pot <= PotInPlay(r) + pool.carry_pot
  PROVE  EntriesInPlay' <= EntriesInPlay
<1>1. /\ PotsInPlay \in Nat
      /\ PotsInPlay' = PotsInPlay + PotInPlay(r)' - PotInPlay(r)
  BY PotsMove
<1>2. PotInPlay(r) \in Nat /\ PotInPlay(r)' \in Nat /\ EntriesHeld \in Nat
  BY PotNat, PotNatNext, HeldNat
<1>3. pool.carry_pot \in Nat /\ pool'.carry_pot \in Nat
  BY DEF TypeOK, PoolRec
<1>4. /\ EntriesInPlay = EntriesHeld + PotsInPlay + pool.carry_pot
      /\ EntriesInPlay' = EntriesHeld' + PotsInPlay' + pool'.carry_pot
  BY DEF EntriesInPlay, EntriesHeld, PotsInPlay
<1> QED BY <1>1, <1>2, <1>3, <1>4

\* An instruction on one round owes the stakes of that round only.
LEMMA OneRound ==
  ASSUME StakesTracked, NEW r \in RoundIds,
         \A x \in RoundIds \ {r} : rounds'[x] = rounds[x] /\ positions'[x] = positions[x],
         rounds'[r].status \in InPlay =>
           \A t \in Tiles : rounds'[r].tile_totals[t] = Total([p \in Owners |-> StakeOn(r, p, t)']),
         rounds'[r].status = "Settled" =>
           /\ rounds'[r].winning_tile \in Tiles
           /\ rounds'[r].tile_totals[rounds'[r].winning_tile] > 0
           /\ rounds'[r].house_cut <= rounds'[r].pot
  PROVE  StakesTracked'
<1>1. SettledSound'
  BY DEF StakesTracked, SettledSound
<1>2. ASSUME NEW x \in RoundIds, rounds'[x].status \in InPlay, NEW t \in Tiles
      PROVE  rounds'[x].tile_totals[t] = Total([p \in Owners |-> StakeOn(x, p, t)'])
  <2>1. CASE x = r
    BY <1>2, <2>1
  <2>2. CASE x # r
    <3>1. [p \in Owners |-> StakeOn(x, p, t)'] = [p \in Owners |-> StakeOn(x, p, t)]
      BY <2>2 DEF StakeOn
    <3>2. rounds[x].tile_totals[t] = Total([p \in Owners |-> StakeOn(x, p, t)])
      BY <1>2, <2>2 DEF StakesTracked, TilesAddUp
    <3> QED BY <2>2, <3>1, <3>2
  <2> QED BY <2>1, <2>2
<1>3. TilesAddUp'
  BY <1>2 DEF TilesAddUp
<1> QED BY <1>1, <1>3 DEF StakesTracked

\* create_round moves the carry into the pot of a round nobody is in.
LEMMA CreateMints ==
  ASSUME TypeOK, TypeOK', RoundsTracked, StakesTracked, NEW s \in Keys,
         NEW starts_at \in now..(now + MaxLead), create_round(s, starts_at)
  PROVE  StakesTracked' /\ EntriesInPlay' <= EntriesInPlay
<1> PICK r \in RoundIds : r = pool.next_round_id
  BY BoundsAssumption DEF create_round, RoundsTracked, FreshRounds, RoundIds, TypeOK, PoolRec
<1> DEFINE new == [NoRound EXCEPT !.status = "Open", !.epoch_id = pool.current_epoch_id,
                                  !.starts_at = starts_at,
                                  !.ends_at = starts_at + params.round_seconds,
                                  !.pot = pool.carry_pot]
<1>1. /\ rounds' = [rounds EXCEPT ![r] = new] /\ positions' = positions
      /\ players' = players /\ now' = now
      /\ pool' = [pool EXCEPT !.next_round_id = r + 1, !.open_round_id = r, !.carry_pot = 0]
  BY DEF create_round
<1>2. pool \in PoolRec
  BY DEF TypeOK
<1>3. /\ pool'.carry_pot = 0 /\ pool'.current_epoch_id = pool.current_epoch_id
  BY <1>1, <1>2 DEF PoolRec
<1>4. rounds[r] = NoRound
  BY <1>2 DEF RoundsTracked, FreshRounds, TypeOK, PoolRec
<1>5. /\ new.status = "Open" /\ new.epoch_id = pool.current_epoch_id
      /\ new.pot = pool.carry_pot /\ new.tile_totals = [t \in Tiles |-> 0]
  BY DEF NoRound
<1> HIDE DEF new
<1>6. /\ rounds'[r] = new
      /\ \A x \in RoundIds \ {r} : rounds'[x] = rounds[x] /\ positions'[x] = positions[x]
  BY <1>1, <1>2 DEF TypeOK
<1>7. \A p \in Owners : positions'[r][p].tiles = {}
  <2>1. Cardinality(Holders(r)) = 0
    <3>1. NoRound.open_positions = 0
      BY DEF NoRound
    <3>2. rounds[r].open_positions = Cardinality(Holders(r))
      BY DEF RoundsTracked, PositionsCounted, Holders
    <3> QED BY <1>4, <3>1, <3>2
  <2>2. Holders(r) = {}
    BY <2>1, HoldersFinite, FS_EmptySet
  <2> QED BY <1>1, <2>2 DEF Holders
<1>8. ASSUME NEW t \in Tiles
      PROVE  rounds'[r].tile_totals[t] = Total([p \in Owners |-> StakeOn(r, p, t)'])
  <2> DEFINE f == [p \in Owners |-> StakeOn(r, p, t)']
  <2>1. DOMAIN f = Owners /\ \A p \in Owners : f[p] = 0
    BY <1>7 DEF StakeOn
  <2> HIDE DEF f
  <2>2. Total(f) = 0
    BY <2>1, OwnersAssumption, TotalZero
  <2> QED BY <1>5, <1>6, <2>2 DEF f
<1>9. StakesTracked'
  BY <1>2, <1>5, <1>6, <1>8, OneRound
<1>10. EntriesHeld' = EntriesHeld + 0
  <2>1. EntriesHeld' = EntriesHeld
    BY <1>1, <1>3, HeldStays
  <2> QED BY <2>1, HeldNat
<1>11. PotInPlay(r) = 0
  BY <1>2, <1>4, OwesNothing DEF NoRound, InPlay
<1>12. PotInPlay(r)' = pool.carry_pot
  BY <1>3, <1>5, <1>6 DEF PotInPlay
<1>13. pool.carry_pot \in Nat
  BY <1>2 DEF PoolRec
<1>14. 0 + PotInPlay(r)' + pool'.carry_pot <= PotInPlay(r) + pool.carry_pot
  BY <1>3, <1>11, <1>12, <1>13
<1>15. EntriesInPlay' <= EntriesInPlay
  BY <1>2, <1>3, <1>6, <1>9, <1>10, <1>14, InPlayMoves DEF StakesTracked
<1> QED BY <1>9, <1>15

\* A stake leaves its owner's Entries for the pot, and is added to its tiles.
LEMMA BuyMints ==
  ASSUME TypeOK, TypeOK', StakesTracked, NEW p \in Owners, NEW r \in RoundIds,
         NEW tiles \in SUBSET Tiles, NEW stake \in Stakes, buy_position(p, r, tiles, stake)
  PROVE  StakesTracked' /\ EntriesInPlay' <= EntriesInPlay
<1> DEFINE plr    == touch(players[p], pool, now)
           total  == stake * Cardinality(tiles)
           totals == StakedOn(rounds[r].tile_totals, tiles, stake)
           earned == weight_of(total, rounds[r].ends_at - now)
           new    == [rounds[r] EXCEPT !.tile_totals = totals, !.pot = @ + total,
                                       !.open_positions = @ + 1]
           after  == [plr EXCEPT !.weight_acc = @ + earned, !.entries = @ - total]
           place  == [tiles |-> tiles, stake_per_tile |-> stake]
<1>1. /\ rounds' = [rounds EXCEPT ![r] = new] /\ pool' = pool /\ now' = now
      /\ players' = [players EXCEPT ![p] = after]
      /\ positions' = [positions EXCEPT ![r][p] = place]
      /\ rounds[r].status = "Open" /\ positions[r][p].tiles = {}
  BY DEF buy_position
<1>2. /\ rounds[r] \in RoundRec /\ rounds[r].pot \in Nat /\ plr \in PlayerRec /\ p \in Players
      /\ stake \in Nat /\ plr.entries \in Nat
  BY PlayerTouchType, AmountsAssumption DEF TypeOK, RoundRec, Players, PlayerRec
<1>3. total \in Nat
  <2>1. Cardinality(tiles) \in Nat
    BY BoardAssumption, FS_Subset, FS_CardinalityType
  <2> QED BY <1>2, <2>1, NatProduct
<1>4. \A t \in Tiles : totals[t] = rounds[r].tile_totals[t] + (IF t \in tiles THEN stake ELSE 0)
  BY <1>2 DEF StakedOn, RoundRec
<1> HIDE DEF total, totals, earned, plr
<1>5. /\ new.status = rounds[r].status /\ new.epoch_id = rounds[r].epoch_id
      /\ new.pot = rounds[r].pot + total /\ new.tile_totals = totals
  BY <1>2 DEF RoundRec
<1>6. after.entries = plr.entries + (0 - total) /\ after.epoch_id = plr.epoch_id
  BY <1>2, <1>3 DEF PlayerRec
<1>7. place.tiles = tiles /\ place.stake_per_tile = stake
  OBVIOUS
<1> HIDE DEF new, after, place
<1>8. /\ rounds'[r] = new
      /\ \A x \in RoundIds \ {r} : rounds'[x] = rounds[x] /\ positions'[x] = positions[x]
      /\ positions'[r][p] = place
      /\ \A q \in Owners \ {p} : positions'[r][q] = positions[r][q]
  BY <1>1 DEF TypeOK
<1>9. ASSUME NEW t \in Tiles
      PROVE  rounds'[r].tile_totals[t] = Total([q \in Owners |-> StakeOn(r, q, t)'])
  <2> DEFINE f == [q \in Owners |-> StakeOn(r, q, t)]
             g == [q \in Owners |-> StakeOn(r, q, t)']
  <2>1. rounds[r].tile_totals[t] = Total(f)
    BY <1>1 DEF StakesTracked, TilesAddUp, InPlay
  <2>2. DOMAIN f = Owners /\ DOMAIN g = Owners
    OBVIOUS
  <2>3. f[p] = 0 /\ g[p] = IF t \in tiles THEN stake ELSE 0
    BY <1>1, <1>7, <1>8 DEF StakeOn
  <2>4. \A q \in Owners \ {p} : g[q] = f[q]
    BY <1>8 DEF StakeOn
  <2>5. \A q \in Owners : f[q] \in Nat /\ g[q] \in Nat
    <3>1. \A q \in Owners : f[q] \in Nat
      BY DEF StakeOn, TypeOK, PositionRec
    <3>2. g[p] \in Nat
      BY <1>2, <2>3
    <3> HIDE DEF f, g
    <3> QED BY <2>4, <3>1, <3>2
  <2> HIDE DEF f, g
  <2>6. Total(g) = Total(f) + g[p] - f[p] /\ Total(f) \in Nat
    BY <2>2, <2>4, <2>5, OwnersAssumption, TotalUpdate, TotalNat
  <2>7. Total(g) = rounds'[r].tile_totals[t]
    BY <1>2, <1>4, <1>5, <1>8, <2>1, <2>3, <2>6
  <2> QED BY <2>7 DEF g
<1>10. StakesTracked'
  BY <1>1, <1>5, <1>8, <1>9, OneRound
<1>11. EntriesHeld' = EntriesHeld + (0 - total)
  <2>1. 0 - total \in Int
    BY <1>3
  <2>2. /\ after.entries = touch(players[p], pool, now).entries + (0 - total)
        /\ after.epoch_id = touch(players[p], pool, now).epoch_id
    BY <1>6 DEF plr
  <2>3. pool'.current_epoch_id = pool.current_epoch_id
    BY <1>1
  <2> QED BY <1>1, <1>2, <2>1, <2>2, <2>3, HeldMoves
<1>12. 0 - total + PotInPlay(r)' + pool'.carry_pot <= PotInPlay(r) + pool.carry_pot
  <2>1. rounds'[r].status \in {"Open", "Requested"} /\ rounds[r].status \in {"Open", "Requested"}
    BY <1>1, <1>5, <1>8
  <2>2. CASE rounds[r].epoch_id = pool.current_epoch_id
    <3>1. PotInPlay(r) = rounds[r].pot
      BY <2>1, <2>2 DEF PotInPlay
    <3>2. PotInPlay(r)' = rounds[r].pot + total
      BY <1>1, <1>5, <1>8, <2>1, <2>2 DEF PotInPlay
    <3> QED BY <1>1, <1>2, <1>3, <3>1, <3>2 DEF TypeOK, PoolRec
  <2>3. CASE rounds[r].epoch_id # pool.current_epoch_id
    <3>1. PotInPlay(r) = 0 /\ PotInPlay(r)' = 0
      BY <1>1, <1>5, <1>8, <2>3 DEF PotInPlay
    <3> QED BY <1>1, <1>3, <3>1 DEF TypeOK, PoolRec
  <2> QED BY <2>2, <2>3
<1>13. EntriesInPlay' <= EntriesInPlay
  BY <1>1, <1>3, <1>8, <1>10, <1>11, <1>12, InPlayMoves DEF StakesTracked
<1> QED BY <1>10, <1>13

\* Asking for randomness and getting it moves nothing.
LEMMA RandomnessMints ==
  ASSUME TypeOK, TypeOK', StakesTracked, NEW r \in RoundIds,
         request_round_randomness(r) \/ FulfillRound(r)
  PROVE  StakesTracked' /\ EntriesInPlay' <= EntriesInPlay
<1>1. rounds[r] \in RoundRec /\ pool \in PoolRec
  BY DEF TypeOK
<1>2. PICK new :
        /\ rounds' = [rounds EXCEPT ![r] = new]
        /\ pool' = pool /\ positions' = positions /\ players' = players /\ now' = now
        /\ rounds[r].status \in InPlay /\ new.status \in InPlay
        /\ new.epoch_id = rounds[r].epoch_id /\ new.pot = rounds[r].pot
        /\ new.tile_totals = rounds[r].tile_totals
  <2>1. CASE request_round_randomness(r)
    <3> DEFINE new == [rounds[r] EXCEPT !.status = "Requested", !.requested_at = now]
    <3>1. /\ rounds' = [rounds EXCEPT ![r] = new] /\ rounds[r].status = "Open"
          /\ pool' = pool /\ positions' = positions /\ players' = players /\ now' = now
      BY <2>1 DEF request_round_randomness, TypeOK
    <3>2. /\ new.status = "Requested" /\ new.epoch_id = rounds[r].epoch_id
          /\ new.pot = rounds[r].pot /\ new.tile_totals = rounds[r].tile_totals
      BY <1>1 DEF RoundRec
    <3> HIDE DEF new
    <3> QED BY <3>1, <3>2 DEF InPlay
  <2>2. CASE FulfillRound(r)
    <3> DEFINE new == [rounds[r] EXCEPT !.fulfilled = TRUE]
    <3>1. /\ rounds' = [rounds EXCEPT ![r] = new] /\ rounds[r].status = "Requested"
          /\ pool' = pool /\ positions' = positions /\ players' = players /\ now' = now
      BY <2>2 DEF FulfillRound, TypeOK
    <3>2. /\ new.status = rounds[r].status /\ new.epoch_id = rounds[r].epoch_id
          /\ new.pot = rounds[r].pot /\ new.tile_totals = rounds[r].tile_totals
      BY <1>1 DEF RoundRec
    <3> HIDE DEF new
    <3> QED BY <3>1, <3>2 DEF InPlay
  <2> QED BY <2>1, <2>2
<1>3. /\ rounds'[r] = new
      /\ \A x \in RoundIds \ {r} : rounds'[x] = rounds[x] /\ positions'[x] = positions[x]
  BY <1>2 DEF TypeOK
<1>4. ASSUME NEW t \in Tiles
      PROVE  rounds'[r].tile_totals[t] = Total([q \in Owners |-> StakeOn(r, q, t)'])
  <2>1. [q \in Owners |-> StakeOn(r, q, t)'] = [q \in Owners |-> StakeOn(r, q, t)]
    BY <1>2 DEF StakeOn
  <2>2. rounds[r].tile_totals[t] = Total([q \in Owners |-> StakeOn(r, q, t)])
    BY <1>2 DEF StakesTracked, TilesAddUp
  <2> QED BY <1>2, <1>3, <2>1, <2>2
<1>5. StakesTracked'
  BY <1>2, <1>3, <1>4, OneRound DEF InPlay
<1>6. EntriesHeld' = EntriesHeld + 0
  <2>1. EntriesHeld' = EntriesHeld
    BY <1>2, HeldStays
  <2> QED BY <2>1, HeldNat
<1>7. PotInPlay(r)' = PotInPlay(r)
  BY <1>2, <1>3 DEF PotInPlay, InPlay
<1>8. 0 + PotInPlay(r)' + pool'.carry_pot <= PotInPlay(r) + pool.carry_pot
  BY <1>1, <1>2, <1>7, PotNat DEF StakesTracked, PoolRec
<1>9. EntriesInPlay' <= EntriesInPlay
  BY <1>2, <1>3, <1>5, <1>6, <1>8, InPlayMoves DEF StakesTracked
<1> QED BY <1>5, <1>9

\* The rewards of a round settled now are floored shares of what the House
\* leaves: together they fit in it.
LEMMA RewardsFit ==
  ASSUME TypeOK, TypeOK', StakesTracked, SettledSound', NEW r \in RoundIds, NEW tile \in Tiles,
         positions' = positions, rounds[r].status \in InPlay,
         rounds'[r].status = "Settled", rounds'[r].winning_tile = tile,
         rounds'[r].tile_totals = rounds[r].tile_totals, rounds[r].tile_totals[tile] > 0,
         rounds'[r].epoch_id = pool'.current_epoch_id
  PROVE  PotInPlay(r)' <= rounds'[r].pot - rounds'[r].house_cut
<1> DEFINE net     == rounds'[r].pot - rounds'[r].house_cut
           weights == [p \in Owners |-> StakeOn(r, p, tile)]
           shares  == [p \in Owners |-> Reward(r, p)']
<1>1. net \in Nat
  <2>1. rounds'[r] \in RoundRec
    BY DEF TypeOK
  <2>2. rounds'[r].house_cut <= rounds'[r].pot
    BY DEF SettledSound
  <2> QED BY <2>1, <2>2 DEF RoundRec
<1>2. rounds[r].tile_totals[tile] = Total(weights)
  BY DEF StakesTracked, TilesAddUp
<1>3. ASSUME NEW p \in Owners
      PROVE  weights[p] \in Nat /\ shares[p] = (net * weights[p]) \div Total(weights)
  <2>1. positions[r][p] \in PositionRec /\ positions'[r][p] = positions[r][p]
    BY DEF TypeOK
  <2>2. CASE tile \in positions[r][p].tiles
    <3>1. weights[p] = positions[r][p].stake_per_tile /\ weights[p] \in Nat
      BY <2>1, <2>2 DEF StakeOn, PositionRec
    <3>2. Reward(r, p)' = (net * positions[r][p].stake_per_tile) \div rounds[r].tile_totals[tile]
      BY <2>1, <2>2 DEF Reward, Rewarded
    <3> HIDE DEF net, weights
    <3> QED BY <1>2, <3>1, <3>2
  <2>3. CASE tile \notin positions[r][p].tiles
    <3>1. weights[p] = 0
      BY <2>3 DEF StakeOn
    <3>2. shares[p] = 0
      BY <2>1, <2>3 DEF Reward, Rewarded
    <3>3. Total(weights) \in Nat /\ Total(weights) > 0
      BY <1>2 DEF TypeOK, RoundRec
    <3> HIDE DEF net, weights, shares
    <3>4. net * weights[p] = 0
      BY <1>1, <3>1
    <3> QED BY <3>1, <3>2, <3>3, <3>4
  <2> QED BY <2>2, <2>3
<1>4. DOMAIN weights = Owners /\ DOMAIN shares = Owners
  OBVIOUS
<1>5. PotInPlay(r)' = Total(shares)
  BY DEF PotInPlay
<1> HIDE DEF net, weights, shares
<1>6. Total(shares) <= net
  BY <1>1, <1>2, <1>3, <1>4, OwnersAssumption, SharesFit
<1> QED BY <1>5, <1>6 DEF net

\* settle_round splits the pot between the House and the rewards still to be
\* claimed, or forfeits it to the House.
LEMMA SettleRoundMints ==
  ASSUME TypeOK, TypeOK', ParamsValid, StakesTracked, NEW r \in RoundIds, NEW tile \in Tiles,
         settle_round(r, tile)
  PROVE  StakesTracked' /\ EntriesInPlay' <= EntriesInPlay
<1> DEFINE forfeited    == rounds[r].tile_totals[tile] = 0
           house_cut    == IF forfeited THEN 0 ELSE HouseCut(r)
           house_credit == IF forfeited THEN rounds[r].pot ELSE house_cut
           credits      == /\ rounds[r].epoch_id = pool.current_epoch_id
                           /\ forfeited \/ house_credit > 0
           house        == touch(players[House], pool, now)
           after        == [house EXCEPT !.entries = @ + house_credit]
           status       == IF forfeited THEN "Forfeited" ELSE "Settled"
           new          == [rounds[r] EXCEPT !.status = status, !.house_cut = house_cut,
                                             !.winning_tile = tile]
<1>1. /\ rounds' = [rounds EXCEPT ![r] = new] /\ positions' = positions /\ now' = now
      /\ pool' = [pool EXCEPT !.open_round_id = 0] /\ rounds[r].status = "Requested"
      /\ players' = IF credits THEN [players EXCEPT ![House] = after] ELSE players
  BY DEF settle_round
<1>2. /\ rounds[r] \in RoundRec /\ rounds[r].pot \in Nat /\ rounds[r].tile_totals[tile] \in Nat
      /\ pool \in PoolRec /\ house \in PlayerRec /\ House \in Players
  BY PlayerTouchType DEF TypeOK, RoundRec, Players
<1>3. /\ house_cut \in Nat /\ house_cut <= rounds[r].pot
      /\ house_credit \in Nat /\ (~credits /\ rounds[r].epoch_id = pool.current_epoch_id
                                    => ~forfeited /\ house_credit = 0)
  BY <1>2, CutFits
<1>4. /\ forfeited => house_credit = rounds[r].pot /\ status = "Forfeited"
      /\ ~forfeited => /\ house_credit = house_cut /\ status = "Settled"
                       /\ rounds[r].tile_totals[tile] > 0
  BY <1>2
<1>5. credits => rounds[r].epoch_id = pool.current_epoch_id
  OBVIOUS
<1> HIDE DEF forfeited, house_cut, house_credit, credits, house, status
<1>6. /\ new.status = status /\ new.house_cut = house_cut /\ new.winning_tile = tile
      /\ new.pot = rounds[r].pot /\ new.tile_totals = rounds[r].tile_totals
      /\ new.epoch_id = rounds[r].epoch_id
  BY <1>2 DEF RoundRec
<1>7. after.entries = house.entries + house_credit /\ after.epoch_id = house.epoch_id
  BY <1>2 DEF PlayerRec
<1> HIDE DEF new, after
<1>8. /\ rounds'[r] = new
      /\ \A x \in RoundIds \ {r} : rounds'[x] = rounds[x] /\ positions'[x] = positions[x]
      /\ pool'.current_epoch_id = pool.current_epoch_id /\ pool'.carry_pot = pool.carry_pot
      /\ pool.carry_pot \in Nat
  BY <1>1, <1>2 DEF TypeOK, PoolRec
<1>9. StakesTracked'
  <2>1. status \notin InPlay
    BY <1>4 DEF InPlay
  <2>2. status = "Settled" => ~forfeited
    BY <1>4
  <2> QED BY <1>3, <1>4, <1>6, <1>8, <2>1, <2>2, OneRound
<1>10. SettledSound /\ SettledSound'
  BY <1>9 DEF StakesTracked
<1> DEFINE n == IF credits THEN house_credit ELSE 0
<1>11. n \in Nat /\ EntriesHeld' = EntriesHeld + n
  <2>1. CASE credits
    <3>1. /\ after.entries = touch(players[House], pool, now).entries + house_credit
          /\ after.epoch_id = touch(players[House], pool, now).epoch_id
      BY <1>7 DEF house
    <3>2. players' = [players EXCEPT ![House] = after]
      BY <1>1, <2>1
    <3>3. house_credit \in Int
      BY <1>3
    <3>4. EntriesHeld' = EntriesHeld + house_credit
      BY <1>1, <1>2, <1>8, <3>1, <3>2, <3>3, HeldMoves
    <3> QED BY <1>3, <2>1, <3>4
  <2>2. CASE ~credits
    <3>1. EntriesHeld' = EntriesHeld
      BY <1>1, <1>8, <2>2, HeldStays
    <3> QED BY <2>2, <3>1, HeldNat
  <2> QED BY <2>1, <2>2
<1>12. n + PotInPlay(r)' <= PotInPlay(r)
  <2>1. CASE rounds[r].epoch_id # pool.current_epoch_id
    <3>1. PotInPlay(r) = 0 /\ PotInPlay(r)' = 0
      BY <1>6, <1>8, <2>1 DEF PotInPlay
    <3>2. n = 0
      BY <1>5, <2>1
    <3> QED BY <3>1, <3>2
  <2>2. CASE rounds[r].epoch_id = pool.current_epoch_id
    <3>1. PotInPlay(r) = rounds[r].pot
      BY <1>1, <2>2 DEF PotInPlay
    <3>2. n = house_credit
      BY <1>3, <2>2
    <3>3. CASE forfeited
      <4>1. PotInPlay(r)' = 0
        BY <1>4, <1>6, <1>8, <3>3, OwesNothingNext DEF InPlay
      <4> QED BY <1>2, <1>4, <3>1, <3>2, <3>3, <4>1
    <3>4. CASE ~forfeited
      <4>1. PotInPlay(r)' <= rounds[r].pot - house_cut
        <5>1. rounds[r].status \in InPlay /\ rounds'[r].epoch_id = pool'.current_epoch_id
          BY <1>1, <1>6, <1>8, <2>2 DEF InPlay
        <5>2. PotInPlay(r)' <= rounds'[r].pot - rounds'[r].house_cut
          BY <1>1, <1>4, <1>6, <1>8, <1>10, <3>4, <5>1, RewardsFit
        <5> QED BY <1>6, <1>8, <5>2
      <4>2. PotInPlay(r)' \in Nat
        BY <1>10, PotNatNext
      <4> QED BY <1>2, <1>3, <1>4, <3>1, <3>2, <3>4, <4>1, <4>2
    <3> QED BY <3>3, <3>4
  <2> QED BY <2>1, <2>2
<1>13. PotInPlay(r) \in Nat /\ PotInPlay(r)' \in Nat
  BY <1>10, PotNat, PotNatNext
<1> HIDE DEF n
<1>14. n + PotInPlay(r)' + pool'.carry_pot <= PotInPlay(r) + pool.carry_pot
  BY <1>8, <1>11, <1>12, <1>13
<1>15. EntriesInPlay' <= EntriesInPlay
  BY <1>8, <1>10, <1>11, <1>14, InPlayMoves
<1> QED BY <1>9, <1>15

\* A claim moves a reward from the round to its owner.
LEMMA SettlePositionMints ==
  ASSUME TypeOK, TypeOK', StakesTracked, NEW p \in Owners, NEW r \in RoundIds,
         settle_position(p, r)
  PROVE  StakesTracked' /\ EntriesInPlay' <= EntriesInPlay
<1> DEFINE plr   == touch(players[p], pool, now)
           share == Reward(r, p)
           after == [plr EXCEPT !.entries = @ + share]
           new   == [rounds[r] EXCEPT !.open_positions = @ - 1]
<1>1. /\ rounds' = [rounds EXCEPT ![r] = new] /\ pool' = pool /\ now' = now
      /\ players' = [players EXCEPT ![p] = after]
      /\ positions' = [positions EXCEPT ![r][p] = NoPosition]
      /\ rounds[r].status \in Terminal
  BY DEF settle_position, TypeOK
<1>2. /\ rounds[r] \in RoundRec /\ plr \in PlayerRec /\ p \in Players /\ share \in Nat
      /\ pool.carry_pot \in Nat
  BY PlayerTouchType, RewardSound DEF TypeOK, Players, StakesTracked, PoolRec
<1> HIDE DEF plr, share
<1>3. after.entries = plr.entries + share /\ after.epoch_id = plr.epoch_id
  BY <1>2 DEF PlayerRec
<1>4. /\ new.status = rounds[r].status /\ new.epoch_id = rounds[r].epoch_id
      /\ new.pot = rounds[r].pot /\ new.tile_totals = rounds[r].tile_totals
      /\ new.house_cut = rounds[r].house_cut /\ new.winning_tile = rounds[r].winning_tile
  BY <1>2 DEF RoundRec
<1> HIDE DEF after, new
<1>5. /\ rounds'[r] = new
      /\ \A x \in RoundIds \ {r} : rounds'[x] = rounds[x] /\ positions'[x] = positions[x]
      /\ positions'[r][p].tiles = {}
      /\ \A q \in Owners \ {p} : positions'[r][q] = positions[r][q]
  BY <1>1 DEF TypeOK, NoPosition
<1>6. StakesTracked'
  <2>1. rounds[r].status \notin InPlay
    BY <1>1 DEF InPlay, Terminal
  <2>2. rounds[r].status = "Settled" =>
          /\ rounds[r].winning_tile \in Tiles
          /\ rounds[r].tile_totals[rounds[r].winning_tile] > 0
          /\ rounds[r].house_cut <= rounds[r].pot
    BY DEF StakesTracked, SettledSound
  <2> QED BY <1>4, <1>5, <2>1, <2>2, OneRound
<1>7. SettledSound /\ SettledSound'
  BY <1>6 DEF StakesTracked
<1>8. EntriesHeld' = EntriesHeld + share
  <2>1. /\ after.entries = touch(players[p], pool, now).entries + share
        /\ after.epoch_id = touch(players[p], pool, now).epoch_id
    BY <1>3 DEF plr
  <2>2. pool'.current_epoch_id = pool.current_epoch_id /\ share \in Int
    BY <1>1, <1>2
  <2> QED BY <1>1, <1>2, <2>1, <2>2, HeldMoves
<1>9. share + PotInPlay(r)' <= PotInPlay(r)
  <2>1. CASE rounds[r].epoch_id # pool.current_epoch_id
    <3>1. PotInPlay(r) = 0 /\ PotInPlay(r)' = 0
      BY <1>1, <1>4, <1>5, <2>1 DEF PotInPlay
    <3>2. share = 0
      BY <2>1 DEF share, Reward, Rewarded
    <3> QED BY <3>1, <3>2
  <2>2. CASE rounds[r].epoch_id = pool.current_epoch_id
    <3> DEFINE f == [q \in Owners |-> Reward(r, q)]
               g == [q \in Owners |-> Reward(r, q)']
    <3>1. PotInPlay(r) = Total(f) /\ PotInPlay(r)' = Total(g)
      BY <1>1, <1>4, <1>5, <2>2 DEF PotInPlay, Terminal
    <3>2. DOMAIN f = Owners /\ DOMAIN g = Owners /\ f[p] = share
      BY DEF share
    <3>3. g[p] = 0
      BY <1>5 DEF Reward, Rewarded
    <3>4. \A q \in Owners \ {p} : g[q] = f[q]
      BY <1>1, <1>4, <1>5 DEF Reward, Rewarded
    <3>5. \A q \in Owners : f[q] \in Nat
      BY <1>7, RewardSound
    <3> HIDE DEF f, g
    <3>6. \A q \in Owners : f[q] \in Nat /\ g[q] \in Nat
      BY <3>3, <3>4, <3>5
    <3>7. Total(g) = Total(f) + g[p] - f[p] /\ Total(f) \in Nat
      BY <3>2, <3>4, <3>6, OwnersAssumption, TotalUpdate, TotalNat
    <3> QED BY <1>2, <3>1, <3>2, <3>3, <3>7
  <2> QED BY <2>1, <2>2
<1>10. PotInPlay(r) \in Nat /\ PotInPlay(r)' \in Nat
  BY <1>7, PotNat, PotNatNext
<1>11. share + PotInPlay(r)' + pool'.carry_pot <= PotInPlay(r) + pool.carry_pot
  BY <1>1, <1>2, <1>9, <1>10
<1>12. EntriesInPlay' <= EntriesInPlay
  BY <1>1, <1>2, <1>5, <1>7, <1>8, <1>11, InPlayMoves
<1> QED BY <1>6, <1>12

\* Voiding carries the pot over, closing reclaims a round that owes nothing
\* anybody can still claim.
LEMMA EndMints ==
  ASSUME TypeOK, TypeOK', StakesTracked, NEW r \in RoundIds, void_round(r) \/ close_round(r)
  PROVE  StakesTracked' /\ EntriesInPlay' <= EntriesInPlay
<1>1. rounds[r] \in RoundRec /\ pool \in PoolRec /\ rounds[r].pot \in Nat /\ pool.carry_pot \in Nat
  BY DEF TypeOK, RoundRec, PoolRec
<1>2. PICK new :
        /\ rounds' = [rounds EXCEPT ![r] = new]
        /\ positions' = positions /\ players' = players /\ now' = now
        /\ new.status \notin InPlay /\ new.status # "Settled"
        /\ pool'.current_epoch_id = pool.current_epoch_id
        /\ pool'.carry_pot = IF rounds[r].status \in InPlay
                                  /\ rounds[r].epoch_id = pool.current_epoch_id
                             THEN pool.carry_pot + rounds[r].pot ELSE pool.carry_pot
  <2>1. CASE void_round(r)
    <3>1. rounds[r].status \in InPlay
      BY <2>1 DEF void_round, VoidDue, InPlay
    <3>2. pool' = [pool EXCEPT !.open_round_id = 0,
                               !.carry_pot = IF rounds[r].epoch_id = pool.current_epoch_id
                                             THEN @ + rounds[r].pot ELSE @]
      BY <2>1 DEF void_round
    <3>3. /\ pool'.current_epoch_id = pool.current_epoch_id
          /\ pool'.carry_pot = IF rounds[r].epoch_id = pool.current_epoch_id
                               THEN pool.carry_pot + rounds[r].pot ELSE pool.carry_pot
      BY <1>1, <3>2 DEF PoolRec
    <3>4. rounds' = [rounds EXCEPT ![r] = [rounds[r] EXCEPT !.status = "Voided"]]
      BY <2>1 DEF void_round, TypeOK
    <3>5. [rounds[r] EXCEPT !.status = "Voided"].status = "Voided"
      BY <1>1 DEF RoundRec
    <3>6. positions' = positions /\ players' = players /\ now' = now
      BY <2>1 DEF void_round
    <3> QED BY <3>1, <3>3, <3>4, <3>5, <3>6 DEF InPlay
  <2>2. CASE close_round(r)
    <3>1. rounds[r].status \notin InPlay
      BY <2>2 DEF close_round, Terminal, InPlay
    <3>2. [NoRound EXCEPT !.status = "Closed"].status = "Closed"
      BY DEF NoRound
    <3>3. /\ rounds' = [rounds EXCEPT ![r] = [NoRound EXCEPT !.status = "Closed"]]
          /\ positions' = positions /\ players' = players /\ now' = now /\ pool' = pool
      BY <2>2 DEF close_round
    <3> QED BY <3>1, <3>2, <3>3 DEF InPlay
  <2> QED BY <2>1, <2>2
<1>3. /\ rounds'[r] = new
      /\ \A x \in RoundIds \ {r} : rounds'[x] = rounds[x] /\ positions'[x] = positions[x]
  BY <1>2 DEF TypeOK
<1>4. StakesTracked'
  BY <1>2, <1>3, OneRound
<1>5. SettledSound /\ SettledSound'
  BY <1>4 DEF StakesTracked
<1>6. EntriesHeld' = EntriesHeld + 0
  <2>1. EntriesHeld' = EntriesHeld
    BY <1>2, HeldStays
  <2> QED BY <2>1, HeldNat
<1>7. PotInPlay(r)' = 0
  BY <1>2, <1>3, OwesNothingNext
<1>8. PotInPlay(r) \in Nat
  BY <1>5, PotNat
<1>9. rounds[r].status \in InPlay /\ rounds[r].epoch_id = pool.current_epoch_id
        => PotInPlay(r) = rounds[r].pot
  BY DEF PotInPlay, InPlay
<1>10. 0 + PotInPlay(r)' + pool'.carry_pot <= PotInPlay(r) + pool.carry_pot
  BY <1>1, <1>2, <1>7, <1>8, <1>9
<1>11. EntriesInPlay' <= EntriesInPlay
  BY <1>2, <1>3, <1>5, <1>6, <1>10, InPlayMoves
<1> QED BY <1>4, <1>11

\* Every instruction of the game.
LEMMA RoundsMint ==
  ASSUME TypeOK, TypeOK', ParamsValid, RoundsTracked, StakesTracked, RoundsNext
  PROVE  StakesTracked' /\ EntriesInPlay' <= EntriesInPlay
BY CreateMints, BuyMints, RandomnessMints, SettleRoundMints, SettlePositionMints, EndMints
DEF RoundsNext, OperatorRoundNext, PlayNext, AnyoneRoundNext

\* The game only moves Entries: whatever the number of wallets, tiles and
\* rounds, and however epochs begin in between, no step of a round leaves more
\* Entries in play than it found, so floored rewards and the House's cut never
\* exceed the pot. The tile totals the shares are divided by are the sums of
\* the stakes (TilesAddUp), or the shares could exceed the pot.
THEOREM GameOnlyMovesEntries == Spec => GameMintsNothing
<1> DEFINE IInv == ParamsValid /\ RoundsTracked /\ StakesTracked
<1>1. Init => IInv
  <2>1. Init => StakesTracked
    BY DEF Init, InitWith, NoRound, StakesTracked, TilesAddUp, SettledSound, InPlay
  <2> QED BY <2>1, InitType, InitTracked
<1>2. TypeOK /\ TypeOK' /\ IInv /\ [Next]_vars
        => IInv' /\ (rounds' # rounds => EntriesInPlay' <= EntriesInPlay)
  <2> SUFFICES ASSUME TypeOK, TypeOK', IInv, [Next]_vars
               PROVE  IInv' /\ (rounds' # rounds => EntriesInPlay' <= EntriesInPlay)
    OBVIOUS
  <2>1. ParamsValid' /\ RoundsTracked'
    BY NextType, NextTracked
  <2>2. CASE RoundsNext
    BY <2>1, <2>2, RoundsMint
  <2>3. CASE Tick \/ CustodyNext \/ EpochsNext \/ UNCHANGED vars
    <3>1. rounds' = rounds /\ positions' = positions
      BY <2>3, OutsideTheGame
    <3>2. StakesTracked'
      BY <3>1 DEF StakesTracked, TilesAddUp, SettledSound, StakeOn
    <3> QED BY <2>1, <3>1, <3>2
  <2> QED BY <2>2, <2>3 DEF Next
<1>3. TypeOK /\ TypeOK' /\ IInv /\ [Next]_vars
        => [rounds' # rounds => EntriesInPlay' <= EntriesInPlay]_vars
  BY <1>2
<1> QED
  BY <1>1, <1>2, <1>3, TypeCorrect, PTL DEF Spec, GameMintsNothing
=============================================================================
