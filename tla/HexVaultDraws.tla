---------------------------- MODULE HexVaultDraws ----------------------------
(***************************************************************************)
(* The epochs and their draws: what an ended epoch owes a Player is fixed, *)
(* registered intervals never overlap, the prizes promised are exactly     *)
(* those of the open draws, and a withdrawal's time limit never matures    *)
(* early; winners stay payable where registration is closed in time, as    *)
(* the operator service does; lazy accrual leaves the Weight that adding   *)
(* up every second would, the API's figures of a draw in progress are the  *)
(* program's, and Tickets are accounted for. All rest on how an            *)
(* instruction may write a Player: settle it with touch first, or leave    *)
(* what is accrued from alone.                                             *)
(***************************************************************************)
EXTENDS HexVaultRecords, HonestOperator, EagerWeight

-----------------------------------------------------------------------------
(* How an instruction writes a Player.                                     *)

SameListing(plr, new) ==
  new.reg_epoch = plr.reg_epoch /\ new.reg_start = plr.reg_start /\ new.reg_end = plr.reg_end

SameSlots(plr, new) ==
  /\ new.live = plr.live /\ new.epoch_id = plr.epoch_id
  /\ new.frozen_epoch = plr.frozen_epoch /\ new.frozen_weight = plr.frozen_weight

\* What accrual starts from is left alone.
Resting(plr, new) ==
  /\ SameSlots(plr, new)
  /\ new.principal = plr.principal /\ new.entries = plr.entries
  /\ new.weight_acc = plr.weight_acc /\ new.last_update = plr.last_update

\* A stake is placed.
Staking ==
  \E p \in Owners, r \in RoundIds, tiles \in SUBSET Tiles, stake \in Stakes :
    buy_position(p, r, tiles, stake)

\* What has accrued is left alone, but for the Weight a stake is credited with.
SameAccrual(plr, new) ==
  /\ new.last_update = plr.last_update
  /\ new.weight_acc = plr.weight_acc \/ Staking

\* The Player is settled before anything else is written.
Settled(plr, new) ==
  \E base \in {plr, init_if_fresh(plr)} :
    /\ SameSlots(touch(base, pool, now), new)
    /\ SameAccrual(touch(base, pool, now), new)

SameRequest(plr, new) ==
  /\ new.pending_epoch = plr.pending_epoch /\ new.requested_at = plr.requested_at
  /\ new.pending_withdraw <= plr.pending_withdraw

Requested(new) == new.pending_epoch = pool.current_epoch_id /\ new.requested_at = now

Written(plr, new) ==
  /\ Resting(plr, new) \/ Settled(plr, new)
  /\ SameRequest(plr, new) \/ Requested(new)

\* One Player is written, and keeps its interval.
WritesPlayer(p) ==
  \E new : /\ players' = [players EXCEPT ![p] = new]
           /\ Written(players[p], new) /\ SameListing(players[p], new)

\* An instruction that settles a Player and then edits other fields.
LEMMA SettledFirst ==
  ASSUME TypeOK, NEW p \in Players, NEW base \in {players[p], init_if_fresh(players[p])},
         NEW t, t = touch(base, pool, now), NEW new,
         players' = [players EXCEPT ![p] = new],
         SameSlots(t, new), SameAccrual(t, new), SameListing(t, new),
         SameRequest(t, new) \/ Requested(new)
  PROVE  WritesPlayer(p)
<1>1. players[p] \in PlayerRec
  BY DEF TypeOK
<1>2. Kept(players[p], t)
  BY <1>1, TouchKeeps, FreshTouchKeeps
<1>3. Settled(players[p], new)
  BY DEF Settled
<1>4. SameListing(players[p], new)
  BY <1>2 DEF Kept, SameListing
<1>5. SameRequest(players[p], new) \/ Requested(new)
  BY <1>2 DEF Kept, SameRequest
<1> QED
  BY <1>3, <1>4, <1>5 DEF WritesPlayer, Written

\* Principal and Entries, in the vault's own order: settle, then add.
LEMMA DepositWrites ==
  ASSUME TypeOK, NEW p \in Players, NEW amount \in Amounts, deposit(p, amount)
  PROVE  WritesPlayer(p)
<1> DEFINE base == init_if_fresh(players[p])
           t    == touch(base, pool, now)
           new  == [t EXCEPT !.principal = @ + amount, !.entries = @ + amount]
<1>1. players' = [players EXCEPT ![p] = new]
  BY DEF deposit
<1>2. t \in PlayerRec /\ base \in {players[p], init_if_fresh(players[p])} /\ t = touch(base, pool, now)
  BY FreshTouchKeeps DEF Kept, TypeOK
<1> HIDE DEF t, base
<1>3. SameSlots(t, new) /\ SameAccrual(t, new) /\ SameListing(t, new) /\ SameRequest(t, new)
  BY <1>2 DEF SameSlots, SameAccrual, SameListing, SameRequest, PlayerRec
<1> HIDE DEF new
<1> QED
  BY <1>1, <1>2, <1>3, SettledFirst

\* A request stamps itself with the epoch and the time it lands in.
LEMMA RequestWrites ==
  ASSUME TypeOK, NEW p \in Players, NEW amount \in Amounts, request_withdraw(p, amount)
  PROVE  WritesPlayer(p)
<1> DEFINE base == players[p]
           t    == touch(base, pool, now)
           new  == [t EXCEPT !.principal        = @ - amount,
                             !.entries          = SatSub(@, amount),
                             !.pending_withdraw = @ + amount,
                             !.pending_epoch    = pool.current_epoch_id,
                             !.requested_at     = now]
<1>1. players' = [players EXCEPT ![p] = new]
  BY DEF request_withdraw
<1>2. t \in PlayerRec /\ base \in {players[p], init_if_fresh(players[p])} /\ t = touch(base, pool, now)
  BY PlayerTouchType
<1> HIDE DEF t, base
<1>3. SameSlots(t, new) /\ SameAccrual(t, new) /\ SameListing(t, new) /\ Requested(new)
  BY <1>2 DEF SameSlots, SameAccrual, SameListing, Requested, PlayerRec
<1> HIDE DEF new
<1> QED
  BY <1>1, <1>2, <1>3, SettledFirst

\* Purchases settle first, too.
LEMMA BuyTicketsWrites ==
  ASSUME TypeOK, NEW p \in Players, NEW amount \in Amounts, buy_tickets(p, amount)
  PROVE  WritesPlayer(p)
<1> DEFINE base == players[p]
           t    == touch(base, pool, now)
           bought == CountedInEpoch(t.bought_epoch, t.bought_amount, amount)
           more == amount * params.tickets_per_usdc
           new  == [t EXCEPT !.bought_epoch  = pool.current_epoch_id,
                             !.bought_amount = bought,
                             !.entries       = @ + more]
<1>1. players' = [players EXCEPT ![p] = new]
  BY DEF buy_tickets
<1>2. t \in PlayerRec /\ base \in {players[p], init_if_fresh(players[p])} /\ t = touch(base, pool, now)
  BY PlayerTouchType
<1> HIDE DEF t, base, bought, more
<1>3. SameSlots(t, new) /\ SameAccrual(t, new) /\ SameListing(t, new) /\ SameRequest(t, new)
  BY <1>2 DEF SameSlots, SameAccrual, SameListing, SameRequest, PlayerRec
<1> HIDE DEF new
<1> QED
  BY <1>1, <1>2, <1>3, SettledFirst

\* A payout of a request touches nothing Weight is read from.
LEMMA ProcessWrites ==
  ASSUME TypeOK, NEW p \in Players, process_withdraw(p)
  PROVE  WritesPlayer(p)
<1> DEFINE new == [players[p] EXCEPT !.pending_withdraw = 0]
<1>1. players' = [players EXCEPT ![p] = new]
  BY DEF process_withdraw, TypeOK
<1>2. players[p] \in PlayerRec
  BY DEF TypeOK
<1>3. Resting(players[p], new) /\ SameListing(players[p], new) /\ SameRequest(players[p], new)
  BY <1>2 DEF Resting, SameSlots, SameListing, SameRequest, PlayerRec
<1> HIDE DEF new
<1> QED
  BY <1>1, <1>3 DEF WritesPlayer, Written

\* The emergency exit settles, then zeroes.
LEMMA EmergencyWrites ==
  ASSUME TypeOK, NEW p \in Players, emergency_withdraw(p)
  PROVE  WritesPlayer(p)
<1> DEFINE base == players[p]
           t    == touch(base, pool, now)
           new  == [t EXCEPT !.principal = 0, !.entries = 0, !.pending_withdraw = 0]
<1>1. players' = [players EXCEPT ![p] = new]
  BY DEF emergency_withdraw
<1>2. t \in PlayerRec /\ base \in {players[p], init_if_fresh(players[p])} /\ t = touch(base, pool, now)
  BY PlayerTouchType
<1> HIDE DEF t, base
<1>3. SameSlots(t, new) /\ SameAccrual(t, new) /\ SameListing(t, new) /\ SameRequest(t, new)
  BY <1>2 DEF SameSlots, SameAccrual, SameListing, SameRequest, PlayerRec
<1> HIDE DEF new
<1> QED
  BY <1>1, <1>2, <1>3, SettledFirst

\* Settled and then given other Entries (and, with a stake, other Weight).
LEMMA EntriesWritten ==
  ASSUME TypeOK, NEW p \in Players, NEW t, t = touch(players[p], pool, now), NEW new,
         players' = [players EXCEPT ![p] = new],
         \E a, b, c, d : \/ new = [t EXCEPT !.entries = a]
                         \/ Staking /\ new = [t EXCEPT !.weight_acc = b, !.entries = a]
                         \/ new = [t EXCEPT !.bonus_epoch = c, !.bonus_granted = d, !.entries = a]
                         \/ new = [t EXCEPT !.principal = b, !.entries = a]
  PROVE  WritesPlayer(p)
<1> DEFINE base == players[p]
<1>1. t \in PlayerRec /\ base \in {players[p], init_if_fresh(players[p])} /\ t = touch(base, pool, now)
  BY PlayerTouchType
<1> HIDE DEF base
<1>2. t.pending_withdraw \in Nat
  BY <1>1 DEF PlayerRec
<1>3. SameSlots(t, new) /\ SameAccrual(t, new) /\ SameListing(t, new) /\ SameRequest(t, new)
  <2> PICK a, b, c, d : \/ new = [t EXCEPT !.entries = a]
                        \/ Staking /\ new = [t EXCEPT !.weight_acc = b, !.entries = a]
                        \/ new = [t EXCEPT !.bonus_epoch = c, !.bonus_granted = d, !.entries = a]
                        \/ new = [t EXCEPT !.principal = b, !.entries = a]
    OBVIOUS
  <2>1. CASE new = [t EXCEPT !.entries = a]
    BY <1>1, <1>2, <2>1 DEF SameSlots, SameAccrual, SameListing, SameRequest, PlayerRec
  <2>2. CASE Staking /\ new = [t EXCEPT !.weight_acc = b, !.entries = a]
    BY <1>1, <1>2, <2>2 DEF SameSlots, SameAccrual, SameListing, SameRequest, PlayerRec
  <2>3. CASE new = [t EXCEPT !.bonus_epoch = c, !.bonus_granted = d, !.entries = a]
    BY <1>1, <1>2, <2>3 DEF SameSlots, SameAccrual, SameListing, SameRequest, PlayerRec
  <2>4. CASE new = [t EXCEPT !.principal = b, !.entries = a]
    BY <1>1, <1>2, <2>4 DEF SameSlots, SameAccrual, SameListing, SameRequest, PlayerRec
  <2> QED
    BY <2>1, <2>2, <2>3, <2>4
<1> QED
  BY <1>1, <1>3, SettledFirst

\* Grants, by the operator or by the admin.
LEMMA GrantWrites ==
  ASSUME TypeOK, GrantNext
  PROVE  \E p \in Players : WritesPlayer(p)
<1> PICK s \in Keys, p \in Players, amount \in Amounts :
      grant_tickets_operator(s, p, amount) \/ grant_tickets_admin(s, p, amount)
  BY DEF GrantNext, grant_tickets
<1> DEFINE t == touch(players[p], pool, now)
<1>1. CASE grant_tickets_operator(s, p, amount)
  <2> DEFINE byPlayer == CountedInEpoch(t.bonus_epoch, t.bonus_granted, amount)
             new == [t EXCEPT !.bonus_epoch   = pool.current_epoch_id,
                              !.bonus_granted = byPlayer,
                              !.entries       = @ + amount]
  <2>1. players' = [players EXCEPT ![p] = new]
    BY <1>1 DEF grant_tickets_operator
  <2> HIDE DEF byPlayer
  <2> QED
    BY <2>1, EntriesWritten
<1>2. CASE grant_tickets_admin(s, p, amount)
  BY <1>2, EntriesWritten DEF grant_tickets_admin
<1> QED
  BY <1>1, <1>2

\* A prize compounds after touch; the House's never reaches its account.
LEMMA PayoutWrites ==
  ASSUME TypeOK, NEW e \in EpochIds, NEW p \in Players, payout(e, p)
  PROVE  players' = players \/ WritesPlayer(p)
<1> DEFINE t      == touch(players[p], pool, now)
           amount == epochs[e].jackpot_amount
           new    == [t EXCEPT !.principal = @ + amount, !.entries = @ + amount]
<1>1. players' = players \/ players' = [players EXCEPT ![p] = new]
  BY DEF payout
<1>2. \E a, b, c, d : \/ new = [t EXCEPT !.entries = a]
                      \/ Staking /\ new = [t EXCEPT !.weight_acc = b, !.entries = a]
                      \/ new = [t EXCEPT !.bonus_epoch = c, !.bonus_granted = d, !.entries = a]
                      \/ new = [t EXCEPT !.principal = b, !.entries = a]
  OBVIOUS
<1>3. t = touch(players[p], pool, now)
  OBVIOUS
<1> HIDE DEF new, t
<1>4. CASE players' = [players EXCEPT ![p] = new]
  BY <1>2, <1>3, <1>4, EntriesWritten, Zenon
<1> QED
  BY <1>1, <1>4

\* Stakes, winnings and the House's cut.
LEMMA PlayWrites ==
  ASSUME TypeOK, RoundsNext
  PROVE  players' = players \/ \E p \in Players : WritesPlayer(p)
<1>1. ASSUME NEW p \in Owners, NEW r \in RoundIds, NEW tiles \in SUBSET Tiles,
             NEW stake \in Stakes, buy_position(p, r, tiles, stake)
      PROVE  WritesPlayer(p) /\ p \in Players
  <2>1. Staking
    BY <1>1 DEF Staking
  <2> QED
    BY <1>1, <2>1, EntriesWritten DEF buy_position, Players
<1>2. ASSUME NEW p \in Owners, NEW r \in RoundIds, settle_position(p, r)
      PROVE  WritesPlayer(p) /\ p \in Players
  BY <1>2, EntriesWritten DEF settle_position, Players
<1>3. ASSUME NEW r \in RoundIds, NEW tile \in Tiles, settle_round(r, tile)
      PROVE  players' = players \/ (WritesPlayer(House) /\ House \in Players)
  BY <1>3, EntriesWritten DEF settle_round, Players
<1>4. ASSUME NEW s \in Keys, NEW starts_at \in now..(now + MaxLead), create_round(s, starts_at)
      PROVE  players' = players
  BY <1>4 DEF create_round
<1>5. ASSUME NEW r \in RoundIds,
             \/ request_round_randomness(r) \/ FulfillRound(r) \/ void_round(r) \/ close_round(r)
      PROVE  players' = players
  BY <1>5 DEF request_round_randomness, FulfillRound, void_round, close_round
<1> QED
  BY <1>1, <1>2, <1>3, <1>4, <1>5
  DEF RoundsNext, OperatorRoundNext, PlayNext, AnyoneRoundNext

\* What register writes, the yield it credits aside: an interval of the length
\* of the Player's Weight at the end of what is registered, if there is any.
Registers(e, p, new) ==
  LET w == EpochWeight(players[p], e, epochs[e]) IN
  /\ players' = [players EXCEPT ![p] = new]
  /\ Written(players[p], new)
  /\ IF w = 0
     THEN SameListing(players[p], new) /\ epochs' = epochs
     ELSE /\ new.reg_epoch = e /\ new.reg_start = epochs[e].registered_weight
          /\ new.reg_end = epochs[e].registered_weight + w
          /\ epochs' = [epochs EXCEPT ![e] =
                          [epochs[e] EXCEPT
                             !.registered_weight = epochs[e].registered_weight + w,
                             !.registered_count  = @ + 1]]

\* A registration credits yield after touch, or writes nothing accrued from;
\* then the Player may take an interval.
LEMMA RegisterWrites ==
  ASSUME TypeOK, NEW e \in EpochIds, NEW p \in Players, register(e, p)
  PROVE  \E new : Registers(e, p, new)
<1> DEFINE plr      == players[p]
           w        == EpochWeight(plr, e, epochs[e])
           credited == YieldCredit(plr, e)
           base     == IF credited > 0 THEN touch(plr, pool, now) ELSE plr
           paid     == credit_yield(plr, e)
           from     == RegStart(e)
           listed   == [paid EXCEPT !.reg_epoch = e, !.reg_start = from, !.reg_end = from + w]
           new      == IF w = 0 THEN paid ELSE listed
<1>1. plr \in PlayerRec /\ plr.entries \in Nat /\ plr.principal \in Nat
  BY DEF TypeOK, PlayerRec
<1>2. credited \in Nat
  BY CreditBounded
<1>3. Kept(plr, base) /\ base.pending_withdraw \in Nat
  BY <1>1, TouchKeeps DEF Kept, PlayerRec
<1>4. paid = [base EXCEPT !.principal = @ + credited, !.entries = @ + credited,
                          !.yield_epoch = e]
  BY DEF credit_yield
<1>5. /\ players' = [players EXCEPT ![p] = new] /\ from = epochs[e].registered_weight
      /\ IF w = 0 THEN epochs' = epochs
         ELSE epochs' = [epochs EXCEPT ![e] =
                          [epochs[e] EXCEPT !.registered_weight = from + w,
                                            !.registered_count  = @ + 1]]
  BY DEF register, RegStart
<1>6. credited > 0 \/ base = plr
  OBVIOUS
<1>7. credited > 0 => base = touch(plr, pool, now)
  OBVIOUS
<1>8. w = EpochWeight(players[p], e, epochs[e]) /\ plr = players[p]
  OBVIOUS
<1> HIDE DEF plr, w, credited, base, from, paid
<1>9. /\ SameSlots(base, paid) /\ SameListing(base, paid) /\ SameRequest(base, paid)
      /\ SameAccrual(base, paid) /\ paid.weight_acc = base.weight_acc /\ paid.last_update = base.last_update
      /\ paid.principal = base.principal + credited /\ paid.entries = base.entries + credited
      /\ paid.pending_withdraw = base.pending_withdraw
  BY <1>2, <1>3, <1>4 DEF Kept, SameSlots, SameAccrual, SameListing, SameRequest, PlayerRec
<1>10. paid = [base EXCEPT !.principal = base.principal + credited,
                           !.entries = base.entries + credited, !.yield_epoch = e]
  BY <1>4
<1>11. /\ SameSlots(paid, listed) /\ SameRequest(paid, listed)
       /\ listed.weight_acc = paid.weight_acc /\ listed.last_update = paid.last_update
       /\ listed.principal = paid.principal /\ listed.entries = paid.entries
       /\ listed.reg_epoch = e /\ listed.reg_start = from /\ listed.reg_end = from + w
       /\ listed.pending_withdraw = paid.pending_withdraw
  <2> DEFINE a == base.principal + credited
             b == base.entries + credited
  <2>1. paid = [base EXCEPT !.principal = a, !.entries = b, !.yield_epoch = e]
    BY <1>10
  <2> HIDE DEF a, b
  <2> QED
    BY <1>3, <2>1 DEF Kept, SameSlots, SameRequest, PlayerRec
<1> HIDE DEF listed
<1>12. ASSUME NEW any, any = paid \/ any = listed
       PROVE  Written(plr, any)
  <2>1. SameSlots(base, any) /\ SameRequest(base, any)
    BY <1>9, <1>11, <1>12 DEF SameSlots, SameRequest
  <2>2. SameRequest(plr, any)
    BY <1>3, <2>1 DEF SameRequest, Kept
  <2>3. CASE base = plr /\ ~(credited > 0)
    <3>1. credited = 0
      BY <1>2, <2>3
    <3>2. Resting(plr, any)
      BY <1>1, <1>9, <1>11, <1>12, <2>1, <2>3, <3>1 DEF Resting
    <3> QED
      BY <2>2, <3>2 DEF Written
  <2>4. CASE credited > 0
    <3>1. SameSlots(touch(plr, pool, now), any) /\ SameAccrual(touch(plr, pool, now), any)
      BY <1>7, <1>9, <1>11, <1>12, <2>1, <2>4 DEF SameAccrual
    <3> QED
      BY <2>2, <3>1 DEF Written, Settled
  <2> QED
    BY <1>6, <2>3, <2>4
<1>13. SameListing(plr, paid)
  BY <1>3, <1>9 DEF Kept, SameListing
<1>14. CASE w = 0
  BY <1>5, <1>8, <1>12, <1>13, <1>14 DEF Registers
<1>15. CASE w # 0
  BY <1>5, <1>8, <1>11, <1>12, <1>15 DEF Registers
<1> QED
  BY <1>14, <1>15

-----------------------------------------------------------------------------
(* The rest of the program, seen from an epoch.                            *)

SamePeriods ==
  /\ pool'.current_epoch_id       = pool.current_epoch_id
  /\ pool'.current_epoch_start    = pool.current_epoch_start
  /\ pool'.current_epoch_ends_at  = pool.current_epoch_ends_at
  /\ pool'.previous_epoch_start   = pool.previous_epoch_start
  /\ pool'.previous_epoch_ends_at = pool.previous_epoch_ends_at

\* Custody, grants, funding and the game write one Player and no epoch.
LEMMA OutsideTheDraws ==
  ASSUME TypeOK, Tick \/ CustodyNext \/ FundingNext \/ RoundsNext \/ UNCHANGED vars
  PROVE  /\ epochs' = epochs /\ SamePeriods
         /\ pool'.jackpot_reserved = pool.jackpot_reserved
         /\ players' = players \/ \E p \in Players : WritesPlayer(p)
<1>1. pool \in PoolRec
  BY DEF TypeOK
<1>2. CASE Tick \/ UNCHANGED vars
  BY <1>2 DEF Tick, vars, SamePeriods
<1>3. CASE AdminNext
  <2> DEFINE Same == /\ epochs' = epochs /\ SamePeriods /\ players' = players
                     /\ pool'.jackpot_reserved = pool.jackpot_reserved
  <2>1. ASSUME NEW s, NEW v, set_params(s, v) PROVE Same
    BY <2>1 DEF set_params, SamePeriods
  <2>2. ASSUME NEW s, NEW on, set_pause(s, on) PROVE Same
    BY <1>1, <2>2 DEF set_pause, PoolRec, SamePeriods
  <2>3. ASSUME NEW s, NEW feature, NEW on, set_feature_pause(s, feature, on) PROVE Same
    BY <1>1, <2>3 DEF set_feature_pause, PoolRec, SamePeriods
  <2>4. ASSUME NEW s, shutdown(s) PROVE Same
    BY <1>1, <2>4 DEF shutdown, PoolRec, SamePeriods
  <2>5. ASSUME NEW s, NEW k, set_operator(s, k) \/ propose_admin(s, k) PROVE Same
    BY <1>1, <2>5 DEF set_operator, propose_admin, PoolRec, SamePeriods
  <2>6. ASSUME NEW s, accept_admin(s) PROVE Same
    BY <1>1, <2>6 DEF accept_admin, PoolRec, SamePeriods
  <2> HIDE DEF Same
  <2>7. Same
    BY <1>3, <2>1, <2>2, <2>3, <2>4, <2>5, <2>6 DEF AdminNext
  <2> QED
    BY <2>7 DEF Same
<1>4. CASE DepositorNext
  <2>1. /\ epochs' = epochs
        /\ \/ pool' = pool
           \/ \E a, b : pool' = [pool EXCEPT !.total_principal = a, !.pending_withdrawals = b]
           \/ \E a : pool' = [pool EXCEPT !.total_principal = a]
           \/ \E b : pool' = [pool EXCEPT !.pending_withdrawals = b]
    BY <1>4 DEF DepositorNext, deposit, request_withdraw, buy_tickets, process_withdraw,
                emergency_withdraw
  <2>2. SamePeriods /\ pool'.jackpot_reserved = pool.jackpot_reserved
    BY <1>1, <2>1 DEF PoolRec, SamePeriods
  <2>3. \E p \in Players : WritesPlayer(p)
    BY <1>4, DepositWrites, RequestWrites, BuyTicketsWrites, ProcessWrites, EmergencyWrites
    DEF DepositorNext
  <2> QED
    BY <2>1, <2>2, <2>3
<1>5. CASE TreasuryNext
  BY <1>1, <1>5 DEF TreasuryNext, admin_withdraw, return_principal, sweep_house, PoolRec, SamePeriods
<1>6. CASE GrantNext
  <2>1. epochs' = epochs /\ SamePeriods /\ pool'.jackpot_reserved = pool.jackpot_reserved
    BY <1>1, <1>6 DEF GrantNext, grant_tickets, grant_tickets_operator, grant_tickets_admin,
                      PoolRec, SamePeriods
  <2> QED
    BY <1>6, <2>1, GrantWrites
<1>7. CASE FundingNext
  BY <1>1, <1>7 DEF FundingNext, fund_jackpot, fund_yield, PoolRec, SamePeriods
<1>8. CASE RoundsNext
  <2> DEFINE Same == /\ epochs' = epochs /\ SamePeriods
                     /\ pool'.jackpot_reserved = pool.jackpot_reserved
  <2>1. ASSUME NEW s \in Keys, NEW starts_at, create_round(s, starts_at) PROVE Same
    BY <1>1, <2>1 DEF create_round, PoolRec, SamePeriods
  <2>2. ASSUME NEW p \in Owners, NEW r \in RoundIds,
               \/ \E tiles \in SUBSET Tiles, stake \in Stakes : buy_position(p, r, tiles, stake)
               \/ settle_position(p, r)
        PROVE  Same
    BY <2>2 DEF buy_position, settle_position, SamePeriods
  <2>3. ASSUME NEW r \in RoundIds,
               request_round_randomness(r) \/ FulfillRound(r) \/ close_round(r)
        PROVE  Same
    BY <2>3 DEF request_round_randomness, FulfillRound, close_round, SamePeriods
  <2>4. ASSUME NEW r \in RoundIds, NEW tile \in Tiles, settle_round(r, tile) PROVE Same
    BY <1>1, <2>4 DEF settle_round, PoolRec, SamePeriods
  <2>5. ASSUME NEW r \in RoundIds, void_round(r) PROVE Same
    BY <1>1, <2>5 DEF void_round, PoolRec, SamePeriods
  <2>6. Same
    BY <1>8, <2>1, <2>2, <2>3, <2>4, <2>5
    DEF RoundsNext, OperatorRoundNext, PlayNext, AnyoneRoundNext
  <2> QED
    BY <1>8, <2>6, PlayWrites
<1> QED
  BY <1>2, <1>3, <1>4, <1>5, <1>6, <1>7, <1>8 DEF CustodyNext

\* What the steps of one epoch have in common: begin_epoch aside, they write
\* no other epoch and no period.
LEMMA OneEpoch ==
  ASSUME TypeOK, NEW e \in EpochIds,
         \/ \E s \in Keys : close_registration(s, e)
         \/ \E p \in Players : register(e, p) \/ payout(e, p)
         \/ \E target \in 0..(epochs[e].registered_weight - 1) : draw(e, target)
         \/ rollover_epoch(e) \/ FulfillEpoch(e)
  PROVE  /\ SamePeriods
         /\ \A x \in EpochIds \ {e} : epochs'[x] = epochs[x]
         /\ epochs'[e].starts_at = epochs[e].starts_at /\ epochs'[e].ends_at = epochs[e].ends_at
<1>1. pool \in PoolRec /\ epochs[e] \in EpochRec
  BY DEF TypeOK
<1>2. \/ pool' = pool
      \/ \E a, b : pool' = [pool EXCEPT !.total_principal = a, !.yield_budget = b]
      \/ \E a, b : pool' = [pool EXCEPT !.jackpot_reserved = b, !.total_principal = a]
      \/ \E b : pool' = [pool EXCEPT !.jackpot_reserved = b]
  BY DEF close_registration, register, payout, draw, rollover_epoch, FulfillEpoch
<1>3. SamePeriods
  BY <1>1, <1>2 DEF PoolRec, SamePeriods
<1>4. \E new : /\ epochs' = [epochs EXCEPT ![e] = new]
               /\ new.starts_at = epochs[e].starts_at /\ new.ends_at = epochs[e].ends_at
  <2> DEFINE old == epochs[e]
             Dated == \E new : /\ epochs' = [epochs EXCEPT ![e] = new]
                               /\ new.starts_at = old.starts_at /\ new.ends_at = old.ends_at
  <2>1. ASSUME NEW s \in Keys, close_registration(s, e) PROVE Dated
    <3> DEFINE prize == JackpotOnOffer
    <3>1. \/ epochs' = [epochs EXCEPT ![e] =
                          [old EXCEPT !.status = "RolledOver", !.jackpot_amount = prize]]
          \/ epochs' = [epochs EXCEPT ![e] =
                          [old EXCEPT !.status = "Drawing", !.jackpot_amount = prize,
                                      !.requested_at = now]]
      BY <2>1 DEF close_registration, TypeOK
    <3> HIDE DEF prize
    <3> QED
      BY <1>1, <3>1 DEF EpochRec
  <2>2. ASSUME NEW p \in Players, register(e, p) PROVE Dated
    <3> DEFINE a == RegStart(e) + EpochWeight(players[p], e, epochs[e])
               b == old.registered_count + 1
    <3>1. \/ epochs' = epochs
          \/ epochs' = [epochs EXCEPT ![e] =
                          [old EXCEPT !.registered_weight = a, !.registered_count = b]]
      BY <2>2 DEF register
    <3>2. epochs = [epochs EXCEPT ![e] = old]
      BY DEF TypeOK
    <3> HIDE DEF a, b
    <3> QED
      BY <1>1, <3>1, <3>2 DEF EpochRec
  <2>3. ASSUME NEW p \in Players, payout(e, p) PROVE Dated
    <3> DEFINE new == [old EXCEPT !.status = "Paid", !.winner = p]
    <3>1. epochs' = [epochs EXCEPT ![e] = new]
      BY <2>3 DEF payout, TypeOK
    <3>2. new.starts_at = old.starts_at /\ new.ends_at = old.ends_at
      BY <1>1 DEF EpochRec
    <3> HIDE DEF new, old
    <3> QED
      BY <3>1, <3>2
  <2>4. ASSUME NEW target, draw(e, target) PROVE Dated
    <3> DEFINE new == [old EXCEPT !.status = "Drawn", !.target = target, !.drawn_at = now]
    <3>1. epochs' = [epochs EXCEPT ![e] = new]
      BY <2>4 DEF draw, TypeOK
    <3>2. new.starts_at = old.starts_at /\ new.ends_at = old.ends_at
      BY <1>1 DEF EpochRec
    <3> HIDE DEF new, old
    <3> QED
      BY <3>1, <3>2
  <2>5. ASSUME rollover_epoch(e) \/ FulfillEpoch(e) PROVE Dated
    <3>1. \/ epochs' = [epochs EXCEPT ![e] = [old EXCEPT !.status = "RolledOver"]]
          \/ epochs' = [epochs EXCEPT ![e] = [old EXCEPT !.fulfilled = TRUE]]
      BY <2>5 DEF rollover_epoch, FulfillEpoch, TypeOK
    <3> QED
      BY <1>1, <3>1 DEF EpochRec
  <2> HIDE DEF Dated
  <2>6. Dated
    BY <2>1, <2>2, <2>3, <2>4, <2>5
  <2> QED
    BY <2>6 DEF Dated
<1>5. \A x \in EpochIds \ {e} : epochs'[x] = epochs[x]
  BY <1>4 DEF TypeOK
<1>6. epochs'[e].starts_at = epochs[e].starts_at /\ epochs'[e].ends_at = epochs[e].ends_at
  BY <1>4 DEF TypeOK
<1> QED
  BY <1>3, <1>5, <1>6

\* Which step a step is, seen from an epoch.
LEMMA WhichStep ==
  ASSUME [Next]_vars
  PROVE  \/ Tick \/ CustodyNext \/ FundingNext \/ RoundsNext \/ UNCHANGED vars
         \/ \E s \in Keys : begin_epoch(s)
         \/ \E e \in EpochIds :
              \/ \E s \in Keys : close_registration(s, e)
              \/ \E p \in Players : register(e, p) \/ payout(e, p)
              \/ \E target \in 0..(epochs[e].registered_weight - 1) : draw(e, target)
              \/ rollover_epoch(e) \/ FulfillEpoch(e)
  BY DEF Next, EpochsNext, OperatorEpochNext, AnyoneEpochNext

-----------------------------------------------------------------------------
(* Prizes.                                                                 *)

\* The current epoch is open, none after it exists, and no prize is recorded
\* before registration closes.
EpochsInOrder ==
  /\ pool.current_epoch_id <= MaxEpoch
  /\ \A e \in EpochIds :
       /\ e > pool.current_epoch_id => epochs[e].status = "None"
       /\ e = pool.current_epoch_id => epochs[e].status = "Open"
       /\ epochs[e].status \in {"None", "Open", "Registering"} => epochs[e].jackpot_amount = 0

PrizesKept == EpochsInOrder /\ ReservedIsPromised

\* An epoch's promise moves and the reserve with it.
LEMMA PromiseMoves ==
  ASSUME TypeOK, TypeOK', ReservedIsPromised, NEW e \in EpochIds,
         \A x \in EpochIds \ {e} : epochs'[x] = epochs[x],
         pool'.jackpot_reserved = pool.jackpot_reserved + Promised(e)' - Promised(e)
  PROVE  ReservedIsPromised'
<1> DEFINE f == [x \in EpochIds |-> Promised(x)]
           g == [x \in EpochIds |-> Promised(x)']
<1>1. IsFiniteSet(EpochIds)
  BY FS_Interval, BoundsAssumption DEF EpochIds
<1>2. \A x \in EpochIds : Promised(x) \in Nat /\ Promised(x)' \in Nat
  BY DEF Promised, TypeOK, EpochRec
<1>3. \A x \in EpochIds \ {e} : Promised(x)' = Promised(x)
  BY DEF Promised
<1>4. /\ DOMAIN f = EpochIds /\ DOMAIN g = EpochIds
      /\ \A x \in EpochIds : f[x] \in Nat /\ g[x] \in Nat
      /\ \A x \in EpochIds \ {e} : g[x] = f[x]
      /\ f[e] = Promised(e) /\ g[e] = Promised(e)'
  BY <1>2, <1>3
<1>5. pool.jackpot_reserved = Total(f) /\ (ReservedIsPromised' <=> pool'.jackpot_reserved = Total(g))
  BY DEF ReservedIsPromised
<1> HIDE DEF f, g
<1>6. Total(g) = Total(f) + g[e] - f[e]
  BY <1>1, <1>4, TotalUpdate
<1> QED
  BY <1>4, <1>5, <1>6

\* No promise moves.
LEMMA PromiseStays ==
  ASSUME TypeOK, ReservedIsPromised, pool'.jackpot_reserved = pool.jackpot_reserved,
         \A x \in EpochIds : Promised(x)' = Promised(x)
  PROVE  ReservedIsPromised'
<1>1. [x \in EpochIds |-> Promised(x)] = [x \in EpochIds |-> Promised(x)']
  OBVIOUS
<1> QED
  BY <1>1 DEF ReservedIsPromised

\* begin_epoch closes the current epoch and creates the next, with nothing
\* promised on either.
LEMMA BeginFrame ==
  ASSUME TypeOK, NEW s \in Keys, begin_epoch(s)
  PROVE  LET e == pool.current_epoch_id IN
         /\ e \in Nat /\ e + 1 \in EpochIds /\ (e > 0 => e \in EpochIds)
         /\ pool'.current_epoch_id = e + 1
         /\ pool'.current_epoch_start = NextStartsAt /\ pool'.current_epoch_ends_at = NextEndsAt
         /\ pool'.previous_epoch_start = pool.current_epoch_start
         /\ pool'.previous_epoch_ends_at = pool.current_epoch_ends_at
         /\ pool'.jackpot_reserved = pool.jackpot_reserved
         /\ epochs'[e + 1].status = "Open" /\ epochs'[e + 1].jackpot_amount = 0
         /\ epochs'[e + 1].starts_at = NextStartsAt /\ epochs'[e + 1].ends_at = NextEndsAt
         /\ epochs'[e + 1].registered_weight = 0 /\ epochs'[e + 1].registered_count = 0
         /\ e > 0 => /\ epochs'[e].status = "Registering"
                     /\ epochs'[e].jackpot_amount = epochs[e].jackpot_amount
                     /\ epochs'[e].registered_weight = epochs[e].registered_weight
                     /\ epochs'[e].registered_count = epochs[e].registered_count
                     /\ epochs'[e].starts_at = epochs[e].starts_at
                     /\ epochs'[e].ends_at = epochs[e].ends_at
         /\ \A x \in EpochIds \ {e, e + 1} : epochs'[x] = epochs[x]
<1> DEFINE e    == pool.current_epoch_id
           old  == [epochs[e] EXCEPT !.status = "Registering", !.registration_opened_at = now]
           new  == [NoEpoch EXCEPT !.status = "Open", !.starts_at = NextStartsAt,
                                   !.ends_at = NextEndsAt]
<1>1. pool \in PoolRec /\ e \in Nat /\ e < MaxEpoch /\ MaxEpoch \in Nat
  BY BoundsAssumption DEF TypeOK, PoolRec, begin_epoch
<1>2. e + 1 \in EpochIds /\ (e > 0 => e \in EpochIds) /\ e # e + 1
  BY <1>1 DEF EpochIds
<1>3. e > 0 => epochs[e] \in EpochRec
  BY <1>2 DEF TypeOK
<1>4. /\ pool' = [pool EXCEPT !.previous_epoch_start   = pool.current_epoch_start,
                              !.current_epoch_start    = NextStartsAt,
                              !.previous_epoch_ends_at = pool.current_epoch_ends_at,
                              !.current_epoch_ends_at  = NextEndsAt,
                              !.current_epoch_id       = e + 1]
      /\ epochs' = [i \in EpochIds |->
                      CASE i = e     -> [epochs[i] EXCEPT !.status = "Registering",
                                                          !.registration_opened_at = now]
                        [] i = e + 1 -> new
                        [] OTHER     -> epochs[i]]
  BY DEF begin_epoch
<1>5. /\ new.status = "Open" /\ new.jackpot_amount = 0
      /\ new.starts_at = NextStartsAt /\ new.ends_at = NextEndsAt /\ new.registered_weight = 0
      /\ new.registered_count = 0
  BY DEF NoEpoch
<1>6. e > 0 => /\ old.status = "Registering" /\ old.jackpot_amount = epochs[e].jackpot_amount
               /\ old.registered_weight = epochs[e].registered_weight
               /\ old.registered_count = epochs[e].registered_count
               /\ old.starts_at = epochs[e].starts_at /\ old.ends_at = epochs[e].ends_at
  BY <1>3 DEF EpochRec
<1> HIDE DEF new
<1>7. /\ epochs'[e + 1] = new /\ (e > 0 => epochs'[e] = old)
      /\ \A x \in EpochIds \ {e, e + 1} : epochs'[x] = epochs[x]
  BY <1>2, <1>4
<1> HIDE DEF old
<1>8. /\ pool'.current_epoch_id = e + 1
      /\ pool'.current_epoch_start = NextStartsAt /\ pool'.current_epoch_ends_at = NextEndsAt
      /\ pool'.previous_epoch_start = pool.current_epoch_start
      /\ pool'.previous_epoch_ends_at = pool.current_epoch_ends_at
      /\ pool'.jackpot_reserved = pool.jackpot_reserved
  BY <1>1, <1>4 DEF PoolRec
<1> QED
  BY <1>1, <1>2, <1>5, <1>6, <1>7, <1>8

\* begin_epoch opens registration for the epoch that ends and starts a new one
\* with no prize: what is promised does not change.
LEMMA BeginPrizes ==
  ASSUME TypeOK, TypeOK', PrizesKept, NEW s \in Keys, begin_epoch(s)
  PROVE  PrizesKept'
<1> PICK e \in Nat : e = pool.current_epoch_id
  BY BeginFrame
<1>1. \A x \in EpochIds : x \in Nat /\ x >= 1
  BY DEF EpochIds
<1>2. e + 1 <= MaxEpoch /\ e + 1 \in EpochIds /\ e + 1 > e /\ (e > 0 => e \in EpochIds)
  BY BeginFrame, BoundsAssumption DEF EpochIds
<1>3. EpochsInOrder'
  BY <1>1, <1>2, BeginFrame DEF PrizesKept, EpochsInOrder
<1>4. \A x \in EpochIds : Promised(x)' = Promised(x)
  <2>1. ASSUME NEW x \in EpochIds, x # e, x # e + 1 PROVE Promised(x)' = Promised(x)
    BY <2>1, BeginFrame DEF Promised
  <2>2. Promised(e + 1)' = Promised(e + 1)
    BY <1>2, BeginFrame DEF Promised, PrizesKept, EpochsInOrder
  <2>3. e > 0 => Promised(e)' = Promised(e)
    BY <1>2, BeginFrame DEF Promised, PrizesKept, EpochsInOrder
  <2> QED
    BY <1>1, <2>1, <2>2, <2>3
<1>5. ReservedIsPromised'
  BY <1>4, PromiseStays, BeginFrame DEF PrizesKept
<1> QED
  BY <1>3, <1>5 DEF PrizesKept

\* What each step of one epoch does to its status, its prize and the reserve:
\* a close promises, a payout or a rollover releases.
LEMMA PrizeSteps ==
  ASSUME TypeOK, EpochsInOrder, NEW e \in EpochIds,
         \/ \E s \in Keys : close_registration(s, e)
         \/ \E p \in Players : register(e, p) \/ payout(e, p)
         \/ \E target \in 0..(epochs[e].registered_weight - 1) : draw(e, target)
         \/ rollover_epoch(e) \/ FulfillEpoch(e)
  PROVE  /\ epochs[e].status \notin {"None", "Open"}
         /\ epochs'[e].status \notin {"None", "Open"}
         /\ epochs'[e].status = "Registering" => epochs'[e].jackpot_amount = 0
         /\ pool'.jackpot_reserved = pool.jackpot_reserved + Promised(e)' - Promised(e)
<1> DEFINE n == epochs[e].jackpot_amount
<1>1. /\ pool \in PoolRec /\ epochs[e] \in EpochRec /\ pool.jackpot_reserved \in Nat
      /\ n \in Nat
  BY DEF TypeOK, PoolRec, EpochRec
<1>2. ASSUME NEW s \in Keys, close_registration(s, e)
      PROVE  /\ epochs[e].status = "Registering"
             /\ \/ /\ epochs'[e].status = "RolledOver"
                   /\ pool'.jackpot_reserved = pool.jackpot_reserved
                \/ /\ epochs'[e].status = "Drawing"
                   /\ epochs'[e].jackpot_amount = JackpotOnOffer
                   /\ pool'.jackpot_reserved = pool.jackpot_reserved + JackpotOnOffer
  <2> DEFINE prize == JackpotOnOffer
             rolled  == [epochs[e] EXCEPT !.status = "RolledOver", !.jackpot_amount = prize]
             drawing == [epochs[e] EXCEPT !.status = "Drawing", !.jackpot_amount = prize,
                                          !.requested_at = now]
  <2>1. /\ epochs[e].status = "Registering"
        /\ \/ epochs' = [epochs EXCEPT ![e] = rolled] /\ pool' = pool
           \/ /\ epochs' = [epochs EXCEPT ![e] = drawing]
              /\ pool' = [pool EXCEPT !.jackpot_reserved = @ + prize]
    BY <1>2 DEF close_registration, TypeOK
  <2>2. rolled.status = "RolledOver" /\ drawing.status = "Drawing" /\ drawing.jackpot_amount = prize
    <3> HIDE DEF prize
    <3> QED
      BY <1>1 DEF EpochRec
  <2> HIDE DEF prize, rolled, drawing
  <2>3. prize = JackpotOnOffer
    BY DEF prize
  <2> QED
    BY <1>1, <2>1, <2>2, <2>3 DEF TypeOK, PoolRec
<1>3. JackpotOnOffer \in Nat
  BY DEF JackpotOnOffer, SatSub, TypeOK, PoolRec, TokenRec
<1>4. ASSUME NEW p \in Players, register(e, p)
      PROVE  /\ epochs[e].status = "Registering" /\ epochs'[e].status = "Registering"
             /\ epochs'[e].jackpot_amount = n
             /\ pool'.jackpot_reserved = pool.jackpot_reserved
  <2> DEFINE a == RegStart(e) + EpochWeight(players[p], e, epochs[e])
             b == epochs[e].registered_count + 1
             c == YieldCredit(players[p], e)
  <2>1. /\ epochs[e].status = "Registering"
        /\ \/ epochs' = epochs
           \/ epochs' = [epochs EXCEPT ![e] =
                           [epochs[e] EXCEPT !.registered_weight = a, !.registered_count = b]]
        /\ pool' = [pool EXCEPT !.total_principal = @ + c, !.yield_budget = @ - c]
    BY <1>4 DEF register
  <2> HIDE DEF a, b, c
  <2>2. pool'.jackpot_reserved = pool.jackpot_reserved
    BY <1>1, <2>1 DEF PoolRec
  <2>3. epochs'[e].status = "Registering" /\ epochs'[e].jackpot_amount = n
    BY <1>1, <2>1 DEF TypeOK, EpochRec
  <2> QED
    BY <2>1, <2>2, <2>3
<1>5. ASSUME NEW p \in Players, payout(e, p)
      PROVE  /\ epochs[e].status = "Drawn" /\ epochs'[e].status = "Paid"
             /\ pool'.jackpot_reserved = pool.jackpot_reserved - n
  BY <1>1, <1>5 DEF payout, TypeOK, PoolRec, EpochRec
<1>6. ASSUME NEW target, draw(e, target)
      PROVE  /\ epochs[e].status = "Drawing" /\ epochs'[e].status = "Drawn"
             /\ epochs'[e].jackpot_amount = n
             /\ pool'.jackpot_reserved = pool.jackpot_reserved
  BY <1>1, <1>6 DEF draw, TypeOK, EpochRec
<1>7. ASSUME rollover_epoch(e)
      PROVE  /\ epochs[e].status \in {"Registering", "Drawing", "Drawn"}
             /\ epochs'[e].status = "RolledOver"
             /\ pool'.jackpot_reserved = pool.jackpot_reserved - n
  BY <1>1, <1>7 DEF rollover_epoch, RolloverDue, TypeOK, PoolRec, EpochRec
<1>8. ASSUME FulfillEpoch(e)
      PROVE  /\ epochs[e].status = "Drawing" /\ epochs'[e].status = "Drawing"
             /\ epochs'[e].jackpot_amount = n
             /\ pool'.jackpot_reserved = pool.jackpot_reserved
  BY <1>1, <1>8 DEF FulfillEpoch, TypeOK, EpochRec
<1>9. epochs[e].status = "Registering" => n = 0
  BY DEF EpochsInOrder
<1> HIDE DEF n
<1>10. Promised(e) = IF epochs[e].status \in {"Drawing", "Drawn"} THEN n ELSE 0
  BY DEF Promised, n
<1>11. Promised(e)' = IF epochs'[e].status \in {"Drawing", "Drawn"}
                      THEN epochs'[e].jackpot_amount ELSE 0
  BY DEF Promised
<1> QED
  BY <1>1, <1>2, <1>3, <1>4, <1>5, <1>6, <1>7, <1>8, <1>9, <1>10, <1>11

\* Every step keeps the reserve the sum of the open promises.
LEMMA NextPrizes ==
  ASSUME TypeOK, TypeOK', PrizesKept, [Next]_vars
  PROVE  PrizesKept'
<1>1. CASE Tick \/ CustodyNext \/ FundingNext \/ RoundsNext \/ UNCHANGED vars
  <2>1. epochs' = epochs /\ pool'.current_epoch_id = pool.current_epoch_id
        /\ pool'.jackpot_reserved = pool.jackpot_reserved
    BY <1>1, OutsideTheDraws DEF SamePeriods
  <2>2. EpochsInOrder'
    BY <2>1 DEF PrizesKept, EpochsInOrder
  <2>3. ReservedIsPromised'
    BY <2>1, PromiseStays DEF PrizesKept, Promised
  <2> QED
    BY <2>2, <2>3 DEF PrizesKept
<1>2. ASSUME NEW e \in EpochIds,
             \/ \E s \in Keys : close_registration(s, e)
             \/ \E p \in Players : register(e, p) \/ payout(e, p)
             \/ \E target \in 0..(epochs[e].registered_weight - 1) : draw(e, target)
             \/ rollover_epoch(e) \/ FulfillEpoch(e)
      PROVE  PrizesKept'
  <2>1. /\ pool'.current_epoch_id = pool.current_epoch_id
        /\ \A x \in EpochIds \ {e} : epochs'[x] = epochs[x]
    BY <1>2, OneEpoch DEF SamePeriods
  <2>2. /\ epochs[e].status \notin {"None", "Open"}
        /\ epochs'[e].status \notin {"None", "Open"}
        /\ epochs'[e].status = "Registering" => epochs'[e].jackpot_amount = 0
        /\ pool'.jackpot_reserved = pool.jackpot_reserved + Promised(e)' - Promised(e)
    BY <1>2, PrizeSteps DEF PrizesKept
  <2>3. EpochsInOrder'
    BY <2>1, <2>2 DEF PrizesKept, EpochsInOrder
  <2>4. ReservedIsPromised'
    BY <2>1, <2>2, PromiseMoves DEF PrizesKept
  <2> QED
    BY <2>3, <2>4 DEF PrizesKept
<1> QED
  BY <1>1, <1>2, BeginPrizes, WhichStep

\* Before the first epoch nothing is promised.
LEMMA InitPrizes == Init => PrizesKept
<1> SUFFICES ASSUME Init PROVE PrizesKept
  OBVIOUS
<1>1. EpochsInOrder
  BY BoundsAssumption DEF Init, InitWith, EpochsInOrder, NoEpoch, EpochIds
<1> DEFINE f == [x \in EpochIds |-> Promised(x)]
<1>2. DOMAIN f = EpochIds /\ \A x \in EpochIds : f[x] = 0
  BY DEF Init, InitWith, NoEpoch, Promised
<1>3. IsFiniteSet(EpochIds)
  BY FS_Interval, BoundsAssumption DEF EpochIds
<1> HIDE DEF f
<1>4. Total(f) = 0
  BY <1>2, <1>3, TotalZero
<1> QED
  BY <1>1, <1>4 DEF f, Init, InitWith, ReservedIsPromised, PrizesKept

\* jackpot_reserved is exactly the prizes of the epochs that are Drawing or
\* Drawn, for any number of epochs overlapping in any order: every promise
\* close_registration makes is released once, by payout or by rollover_epoch.
THEOREM EveryPromiseReleasedOnce == Spec => []ReservedIsPromised
<1>1. TypeOK /\ TypeOK' /\ PrizesKept /\ [Next]_vars => PrizesKept'
  BY NextPrizes
<1>2. PrizesKept => ReservedIsPromised
  BY DEF PrizesKept
<1> QED
  BY <1>1, <1>2, InitPrizes, TypeCorrect, PTL DEF Spec

-----------------------------------------------------------------------------
(* Intervals.                                                              *)

\* Nobody is registered for an epoch that is not over.
ListedBehind ==
  \A p \in Players : players[p].reg_epoch # 0 => players[p].reg_epoch < pool.current_epoch_id

ListingsKept == ListedBehind /\ IntervalsDisjoint

\* A step that moves no interval, and no registered weight of a past epoch.
LEMMA ListingsStay ==
  ASSUME TypeOK, ListingsKept,
         \A p \in Players : SameListing(players[p], players'[p]),
         pool'.current_epoch_id \in Nat, pool'.current_epoch_id >= pool.current_epoch_id,
         \A e \in EpochIds : e < pool.current_epoch_id =>
           epochs'[e].registered_weight = epochs[e].registered_weight
  PROVE  ListingsKept'
<1>1. pool.current_epoch_id \in Nat /\ \A p \in Players : players[p].reg_epoch \in Nat
  BY DEF TypeOK, PoolRec, PlayerRec
<1>2. ListedBehind'
  BY <1>1 DEF ListingsKept, ListedBehind, SameListing
<1>3. IntervalsDisjoint'
  BY DEF ListingsKept, ListedBehind, IntervalsDisjoint, SameListing
<1> QED
  BY <1>2, <1>3 DEF ListingsKept

\* A new interval starts where the registered weight ended and ends where it
\* now ends: past everybody registered before.
LEMMA RegisterListings ==
  ASSUME TypeOK, TypeOK', ListingsKept, NEW e \in EpochIds, NEW p \in Players, register(e, p)
  PROVE  ListingsKept'
<1> DEFINE w == EpochWeight(players[p], e, epochs[e])
           from == epochs[e].registered_weight
<1>0. PICK new : Registers(e, p, new)
  BY RegisterWrites
<1>1. /\ players' = [players EXCEPT ![p] = new]
      /\ IF w = 0
         THEN SameListing(players[p], new) /\ epochs' = epochs
         ELSE /\ new.reg_epoch = e /\ new.reg_start = from /\ new.reg_end = from + w
              /\ epochs' = [epochs EXCEPT ![e] =
                              [epochs[e] EXCEPT !.registered_weight = from + w,
                                                !.registered_count  = @ + 1]]
  BY <1>0 DEF Registers
<1>2. /\ players'[p] = new
      /\ \A q \in Players \ {p} : players'[q] = players[q]
  BY <1>1, OneAccount
<1>3. /\ pool'.current_epoch_id = pool.current_epoch_id /\ e < pool.current_epoch_id
      /\ pool.current_epoch_id \in Nat /\ e \in Nat /\ e # 0
  <2>1. pool \in PoolRec /\ pool.current_epoch_id \in Nat
    BY DEF TypeOK, PoolRec
  <2>2. e = pool.current_epoch_id - 1
    BY DEF register
  <2> QED
    BY <2>1, <2>2, OneEpoch DEF SamePeriods, EpochIds
<1>4. w \in Nat /\ from \in Nat /\ epochs[e] \in EpochRec
  BY EpochWeightNat DEF TypeOK, EpochRec
<1> HIDE DEF w, from
<1>5. CASE w = 0
  <2>1. \A q \in Players : SameListing(players[q], players'[q])
    BY <1>1, <1>2, <1>5 DEF SameListing
  <2> QED
    BY <1>1, <1>3, <1>5, <2>1, ListingsStay
<1>6. CASE w # 0
  <2>1. /\ epochs'[e].registered_weight = from + w
        /\ \A x \in EpochIds \ {e} : epochs'[x] = epochs[x]
    <3> DEFINE weight == from + w
               count  == epochs[e].registered_count + 1
    <3>1. epochs' = [epochs EXCEPT ![e] = [epochs[e] EXCEPT !.registered_weight = weight,
                                                           !.registered_count  = count]]
      BY <1>1, <1>6
    <3> HIDE DEF weight, count
    <3>2. epochs'[e].registered_weight = weight
      BY <1>4, <3>1 DEF EpochRec, TypeOK
    <3>3. \A x \in EpochIds \ {e} : epochs'[x] = epochs[x]
      BY <3>1 DEF TypeOK
    <3> QED
      BY <3>2, <3>3 DEF weight
  <2>2. new.reg_epoch = e /\ new.reg_start = from /\ new.reg_end = from + w
    BY <1>1, <1>6
  <2>3. from < from + w /\ w > 0
    BY <1>4, <1>6
  <2>4. \A q \in Players : players[q].reg_end \in Nat /\ players[q].reg_start \in Nat
    BY DEF TypeOK, PlayerRec
  <2>5. \A q \in Players : players[q].reg_epoch = e => players[q].reg_end <= from
    BY <1>3 DEF ListingsKept, IntervalsDisjoint, from
  <2>6. ListedBehind'
    BY <1>2, <1>3, <2>2 DEF ListingsKept, ListedBehind
  <2>7. ASSUME NEW q \in Players, players'[q].reg_epoch # 0
        PROVE  LET x == players'[q].reg_epoch IN
               /\ x \in EpochIds
               /\ players'[q].reg_start < players'[q].reg_end
               /\ players'[q].reg_end <= epochs'[x].registered_weight
    <3>1. CASE q = p
      BY <1>2, <1>4, <2>1, <2>2, <2>3, <3>1
    <3>2. CASE q # p
      <4>1. /\ players'[q] = players[q] /\ players[q].reg_epoch \in EpochIds
            /\ players[q].reg_start < players[q].reg_end
            /\ players[q].reg_end <= epochs[players[q].reg_epoch].registered_weight
        BY <1>2, <2>7, <3>2 DEF ListingsKept, IntervalsDisjoint
      <4>2. CASE players[q].reg_epoch = e
        <5>1. players[q].reg_end <= from + w
          BY <1>4, <2>4, <2>5, <4>2
        <5> QED
          BY <2>1, <4>1, <4>2, <5>1
      <4>3. CASE players[q].reg_epoch # e
        BY <2>1, <4>1, <4>3
      <4> QED
        BY <4>2, <4>3
    <3> QED
      BY <3>1, <3>2
  <2>8. ASSUME NEW q \in Players, NEW r \in Players \ {q}, players'[q].reg_epoch # 0,
               players'[r].reg_epoch = players'[q].reg_epoch
        PROVE  \/ players'[r].reg_end <= players'[q].reg_start
               \/ players'[q].reg_end <= players'[r].reg_start
    <3>1. CASE q = p
      BY <1>2, <2>2, <2>5, <2>8, <3>1
    <3>2. CASE r = p
      BY <1>2, <2>2, <2>5, <2>8, <3>2
    <3>3. CASE q # p /\ r # p
      BY <1>2, <2>8, <3>3 DEF ListingsKept, IntervalsDisjoint
    <3> QED
      BY <3>1, <3>2, <3>3
  <2>9. IntervalsDisjoint'
    BY <2>7, <2>8 DEF IntervalsDisjoint
  <2> QED
    BY <2>6, <2>9 DEF ListingsKept
<1> QED
  BY <1>5, <1>6

\* No other step of an epoch moves an interval or a registered weight.
LEMMA OtherListings ==
  ASSUME TypeOK, NEW e \in EpochIds,
         \/ \E s \in Keys : close_registration(s, e)
         \/ \E p \in Players : payout(e, p)
         \/ \E target \in 0..(epochs[e].registered_weight - 1) : draw(e, target)
         \/ rollover_epoch(e) \/ FulfillEpoch(e)
  PROVE  /\ players' = players \/ \E p \in Players : WritesPlayer(p)
         /\ epochs'[e].registered_weight = epochs[e].registered_weight
<1>1. epochs[e] \in EpochRec
  BY DEF TypeOK
<1>2. ASSUME NEW s \in Keys, close_registration(s, e)
      PROVE  players' = players /\ epochs'[e].registered_weight = epochs[e].registered_weight
  <2> DEFINE prize == JackpotOnOffer
  <2>1. /\ players' = players
        /\ \/ epochs' = [epochs EXCEPT ![e] =
                          [epochs[e] EXCEPT !.status = "RolledOver", !.jackpot_amount = prize]]
           \/ epochs' = [epochs EXCEPT ![e] =
                          [epochs[e] EXCEPT !.status = "Drawing", !.jackpot_amount = prize,
                                            !.requested_at = now]]
    BY <1>2 DEF close_registration, TypeOK
  <2> HIDE DEF prize
  <2> QED
    BY <1>1, <2>1 DEF TypeOK, EpochRec
<1>3. ASSUME NEW p \in Players, payout(e, p)
      PROVE  /\ players' = players \/ WritesPlayer(p)
             /\ epochs'[e].registered_weight = epochs[e].registered_weight
  <2>1. epochs'[e].registered_weight = epochs[e].registered_weight
    BY <1>1, <1>3 DEF payout, TypeOK, EpochRec
  <2> QED
    BY <1>3, <2>1, PayoutWrites
<1>4. ASSUME NEW target, draw(e, target) \/ FulfillEpoch(e) \/ rollover_epoch(e)
      PROVE  players' = players /\ epochs'[e].registered_weight = epochs[e].registered_weight
  BY <1>1, <1>4 DEF draw, FulfillEpoch, rollover_epoch, TypeOK, EpochRec
<1> QED
  BY <1>2, <1>3, <1>4

\* Writing a Player outside register leaves every listed interval alone.
LEMMA WritesListings ==
  ASSUME TypeOK, players' = players \/ \E p \in Players : WritesPlayer(p)
  PROVE  \A q \in Players : SameListing(players[q], players'[q])
<1>1. CASE players' = players
  BY <1>1 DEF SameListing
<1>2. CASE \E p \in Players : WritesPlayer(p)
  <2>1. PICK p \in Players : WritesPlayer(p)
    BY <1>2
  <2>2. PICK new : players' = [players EXCEPT ![p] = new] /\ SameListing(players[p], new)
    BY <2>1 DEF WritesPlayer
  <2>3. players'[p] = new /\ \A q \in Players \ {p} : players'[q] = players[q]
    BY <2>2, OneAccount
  <2> QED
    BY <2>2, <2>3 DEF SameListing
<1> QED
  BY <1>1, <1>2

\* Every step keeps the listed intervals apart.
LEMMA NextListings ==
  ASSUME TypeOK, TypeOK', ListingsKept, [Next]_vars
  PROVE  ListingsKept'
<1>1. pool.current_epoch_id \in Nat /\ pool'.current_epoch_id \in Nat
  BY DEF TypeOK, PoolRec
<1>2. CASE Tick \/ CustodyNext \/ FundingNext \/ RoundsNext \/ UNCHANGED vars
  <2>1. /\ epochs' = epochs /\ pool'.current_epoch_id = pool.current_epoch_id
        /\ \A q \in Players : SameListing(players[q], players'[q])
    BY <1>2, OutsideTheDraws, WritesListings DEF SamePeriods
  <2> QED
    BY <1>1, <2>1, ListingsStay
<1>3. ASSUME NEW s \in Keys, begin_epoch(s) PROVE ListingsKept'
  <2>1. players' = players
    BY <1>3 DEF begin_epoch
  <2>2. \A q \in Players : SameListing(players[q], players'[q])
    BY <2>1 DEF SameListing
  <2>3. pool'.current_epoch_id = pool.current_epoch_id + 1
    BY <1>3, BeginFrame
  <2>4. \A e \in EpochIds : e < pool.current_epoch_id =>
          epochs'[e].registered_weight = epochs[e].registered_weight
    BY <1>1, <1>3, BeginFrame DEF EpochIds
  <2> QED
    BY <1>1, <2>2, <2>3, <2>4, ListingsStay
<1>4. ASSUME NEW e \in EpochIds,
             \/ \E s \in Keys : close_registration(s, e)
             \/ \E p \in Players : payout(e, p)
             \/ \E target \in 0..(epochs[e].registered_weight - 1) : draw(e, target)
             \/ rollover_epoch(e) \/ FulfillEpoch(e)
      PROVE  ListingsKept'
  <2>1. /\ \A q \in Players : SameListing(players[q], players'[q])
        /\ epochs'[e].registered_weight = epochs[e].registered_weight
    BY <1>4, OtherListings, WritesListings
  <2>2. /\ pool'.current_epoch_id = pool.current_epoch_id
        /\ \A x \in EpochIds \ {e} : epochs'[x] = epochs[x]
    BY <1>4, OneEpoch DEF SamePeriods
  <2> QED
    BY <1>1, <2>1, <2>2, ListingsStay
<1> QED
  BY <1>2, <1>3, <1>4, WhichStep, RegisterListings

\* Intervals registered for one epoch never overlap and never reach past its
\* registered weight, for any number of Players, whatever they do between
\* registering and the draw: the drawn point has at most one owner, so payout
\* can pay one Player only.
THEOREM OneOwnerPerPoint == Spec => []IntervalsDisjoint
<1>1. Init => ListingsKept
  BY DEF Init, InitWith, NoPlayer, ListingsKept, ListedBehind, IntervalsDisjoint
<1>2. TypeOK /\ TypeOK' /\ ListingsKept /\ [Next]_vars => ListingsKept'
  BY NextListings
<1>3. ListingsKept => IntervalsDisjoint
  BY DEF ListingsKept
<1> QED
  BY <1>1, <1>2, <1>3, TypeCorrect, PTL DEF Spec

-----------------------------------------------------------------------------
(* What an ended epoch owes.                                               *)

\* Which kind of step writes a Player how, registrations included.
LEMMA NextWrites ==
  ASSUME TypeOK, [Next]_vars
  PROVE  \/ players' = players
         \/ \E p \in Players : \E new :
              /\ players' = [players EXCEPT ![p] = new] /\ Written(players[p], new)
              /\ ~\E s \in Keys : begin_epoch(s)
<1>1. ASSUME NEW s \in Keys, begin_epoch(s) PROVE players' = players
  BY <1>1 DEF begin_epoch
<1>2. ASSUME \E p \in Players : WritesPlayer(p)
      PROVE  \E p \in Players : \E new :
               players' = [players EXCEPT ![p] = new] /\ Written(players[p], new)
  BY <1>2 DEF WritesPlayer
<1>3. CASE Tick \/ CustodyNext \/ FundingNext \/ RoundsNext \/ UNCHANGED vars
  BY <1>1, <1>2, <1>3, OutsideTheDraws
<1>4. ASSUME NEW e \in EpochIds,
             \/ \E s \in Keys : close_registration(s, e)
             \/ \E p \in Players : payout(e, p)
             \/ \E target \in 0..(epochs[e].registered_weight - 1) : draw(e, target)
             \/ rollover_epoch(e) \/ FulfillEpoch(e)
      PROVE  players' = players \/ \E p \in Players : WritesPlayer(p)
  BY <1>4, OtherListings
<1>5. ASSUME NEW e \in EpochIds, NEW p \in Players, register(e, p)
      PROVE  \E new : players' = [players EXCEPT ![p] = new] /\ Written(players[p], new)
  <2> PICK new : Registers(e, p, new)
    BY <1>5, RegisterWrites
  <2> QED
    BY DEF Registers
<1> QED
  BY <1>1, <1>2, <1>3, <1>4, <1>5, WhichStep

\* Nobody is ahead of the pool, and the pool remembers the period of the
\* current epoch and of the one before it.
PeriodsKnown ==
  LET e == pool.current_epoch_id IN
  /\ e <= MaxEpoch
  /\ \A p \in Players : players[p].epoch_id <= e
  /\ e >= 1 => /\ epochs[e].starts_at = pool.current_epoch_start
               /\ epochs[e].ends_at = pool.current_epoch_ends_at
  /\ e >= 2 => /\ epochs[e - 1].starts_at = pool.previous_epoch_start
               /\ epochs[e - 1].ends_at = pool.previous_epoch_ends_at

\* Settled, a Player is in the current epoch.
LEMMA SettledNow ==
  ASSUME TypeOK, PeriodsKnown, NEW p \in Players, NEW new, Written(players[p], new)
  PROVE  new.epoch_id <= pool.current_epoch_id
<1> DEFINE plr == players[p]
<1>1. /\ plr \in PlayerRec /\ pool.current_epoch_id \in Nat /\ plr.epoch_id \in Nat
      /\ plr.epoch_id <= pool.current_epoch_id /\ now \in Int /\ pool \in PoolRec
  BY DEF TypeOK, PlayerRec, PoolRec, PeriodsKnown
<1>2. CASE Resting(plr, new)
  BY <1>1, <1>2 DEF Resting, SameSlots
<1>3. CASE Settled(plr, new)
  <2>1. PICK base \in {plr, init_if_fresh(plr)} : SameSlots(touch(base, pool, now), new)
    BY <1>3 DEF Settled
  <2>2. base \in PlayerRec /\ base.epoch_id \in Nat /\ base.epoch_id <= pool.current_epoch_id
    <3>1. base \in PlayerRec
      BY <1>1, FreshType
    <3>2. init_if_fresh(plr).epoch_id \in {plr.epoch_id, pool.current_epoch_id}
      BY <1>1 DEF init_if_fresh, PlayerRec
    <3> HIDE DEF plr
    <3> QED
      BY <1>1, <3>1, <3>2
  <2>3. touch(base, pool, now).epoch_id <= pool.current_epoch_id
    BY <1>1, <2>2 DEF touch, TouchSameEpoch, TouchNewEpoch, PlayerRec
  <2> QED
    BY <2>1, <2>3 DEF SameSlots
<1> QED
  BY <1>2, <1>3 DEF Written

\* The periods: begin_epoch moves the current one to the previous, and no
\* other step writes a period, in the Pool or in an Epoch account.
LEMMA NextPeriods ==
  ASSUME TypeOK, TypeOK', PeriodsKnown, [Next]_vars
  PROVE  PeriodsKnown'
<1> PICK c \in Nat : c = pool.current_epoch_id
  BY DEF TypeOK, PoolRec
<1>0. c <= MaxEpoch /\ MaxEpoch \in Nat /\ (c >= 1 => c \in EpochIds)
      /\ (c >= 2 => c - 1 \in EpochIds)
  BY BoundsAssumption DEF PeriodsKnown, EpochIds
<1>1. ASSUME NEW s \in Keys, begin_epoch(s) PROVE PeriodsKnown'
  <2>1. players' = players
    BY <1>1 DEF begin_epoch
  <2>2. \A p \in Players : players'[p].epoch_id <= c + 1
    BY <2>1 DEF PeriodsKnown, TypeOK, PlayerRec
  <2>3. /\ pool'.current_epoch_id = c + 1 /\ c + 1 \in EpochIds
        /\ pool'.current_epoch_start = NextStartsAt /\ pool'.current_epoch_ends_at = NextEndsAt
        /\ pool'.previous_epoch_start = pool.current_epoch_start
        /\ pool'.previous_epoch_ends_at = pool.current_epoch_ends_at
        /\ epochs'[c + 1].starts_at = NextStartsAt /\ epochs'[c + 1].ends_at = NextEndsAt
        /\ c > 0 => /\ epochs'[c].starts_at = epochs[c].starts_at
                    /\ epochs'[c].ends_at = epochs[c].ends_at
    BY <1>1, BeginFrame
  <2>4. c + 1 <= MaxEpoch /\ c + 1 - 1 = c /\ (c + 1 >= 2 => c >= 1 /\ c > 0)
    BY <2>3 DEF EpochIds
  <2> QED
    BY <2>2, <2>3, <2>4 DEF PeriodsKnown
<1>2. ASSUME ~\E s \in Keys : begin_epoch(s) PROVE PeriodsKnown'
  <2>1. /\ SamePeriods
        /\ \A e \in EpochIds : /\ epochs'[e].starts_at = epochs[e].starts_at
                               /\ epochs'[e].ends_at = epochs[e].ends_at
    <3>1. CASE Tick \/ CustodyNext \/ FundingNext \/ RoundsNext \/ UNCHANGED vars
      BY <3>1, OutsideTheDraws
    <3>2. ASSUME NEW e \in EpochIds,
                 \/ \E s \in Keys : close_registration(s, e)
                 \/ \E p \in Players : register(e, p) \/ payout(e, p)
                 \/ \E target \in 0..(epochs[e].registered_weight - 1) : draw(e, target)
                 \/ rollover_epoch(e) \/ FulfillEpoch(e)
          PROVE  /\ SamePeriods
                 /\ \A x \in EpochIds : /\ epochs'[x].starts_at = epochs[x].starts_at
                                        /\ epochs'[x].ends_at = epochs[x].ends_at
      BY <3>2, OneEpoch
    <3> QED
      BY <1>2, <3>1, <3>2, WhichStep
  <2>2. \A p \in Players : players'[p].epoch_id <= c
    <3>1. CASE players' = players
      BY <3>1 DEF PeriodsKnown
    <3>2. CASE players' # players
      <4>0. PICK p \in Players : \E new :
              players' = [players EXCEPT ![p] = new] /\ Written(players[p], new)
        BY <3>2, NextWrites
      <4>1. PICK new : players' = [players EXCEPT ![p] = new] /\ Written(players[p], new)
        BY <4>0
      <4>2. players'[p] = new /\ \A q \in Players \ {p} : players'[q] = players[q]
        BY <4>1, OneAccount
      <4>3. new.epoch_id <= c
        BY <4>1, SettledNow
      <4> QED
        BY <4>2, <4>3 DEF PeriodsKnown
    <3> QED
      BY <3>1, <3>2
  <2> QED
    BY <1>0, <2>1, <2>2 DEF PeriodsKnown, SamePeriods
<1> QED
  BY <1>1, <1>2

\* touch freezes for the ended epoch exactly what registering untouched would
\* have read, and never again in the same epoch.
LEMMA SettledWeight ==
  ASSUME TypeOK, PeriodsKnown, NEW e \in EpochIds, e = pool.current_epoch_id - 1,
         NEW p \in Players, players[p].live, FrozenSlotMatches(players[p], e),
         NEW new, Written(players[p], new)
  PROVE  /\ FrozenSlotMatches(new, e)
         /\ EpochWeight(new, e, epochs[e]) = EpochWeight(players[p], e, epochs[e])
<1> DEFINE plr == players[p]
           c   == pool.current_epoch_id
           t   == touch(plr, pool, now)
<1>0. /\ plr \in PlayerRec /\ pool \in PoolRec /\ now \in Int
      /\ plr.epoch_id <= c /\ e = c - 1
  BY DEF TypeOK, PeriodsKnown
<1>1. /\ plr \in PlayerRec /\ c \in Nat /\ plr.epoch_id \in Nat /\ e \in Nat /\ e >= 1
      /\ plr.epoch_id <= c /\ now \in Int /\ pool \in PoolRec /\ e = c - 1 /\ c >= 2
  <2>1. c \in Nat /\ plr.epoch_id \in Nat
    BY <1>0 DEF PoolRec, PlayerRec
  <2>2. e \in Nat /\ e >= 1
    BY DEF EpochIds
  <2> HIDE DEF c, plr
  <2> QED
    BY <1>0, <2>1, <2>2
<1>2. /\ epochs[e].starts_at = pool.previous_epoch_start
      /\ epochs[e].ends_at = pool.previous_epoch_ends_at
  BY <1>1 DEF PeriodsKnown
<1>3. CASE Resting(plr, new)
  BY <1>3 DEF Resting, SameSlots, FrozenSlotMatches, EpochWeight
<1>4. CASE Settled(plr, new)
  <2>1. SameSlots(t, new)
    BY <1>4 DEF Settled, init_if_fresh
  <2>2. CASE plr.epoch_id = c
    <3>1. SameSlots(plr, t)
      BY <1>1, <2>2 DEF touch, TouchSameEpoch, SameSlots, PlayerRec
    <3>2. SameSlots(plr, new)
      BY <2>1, <3>1 DEF SameSlots
    <3> HIDE DEF plr, t
    <3> QED
      BY <1>1, <2>2, <3>2 DEF SameSlots, FrozenSlotMatches, EpochWeight, plr
  <2>3. CASE plr.epoch_id < c
    <3>1. /\ t.epoch_id = c /\ t.frozen_epoch = e /\ t.frozen_weight = FrozenWeight(plr, pool)
      BY <1>1, <2>3 DEF touch, TouchNewEpoch, PlayerRec
    <3>2. new.epoch_id = c /\ new.frozen_epoch = e /\ new.frozen_weight = FrozenWeight(plr, pool)
      BY <2>1, <3>1 DEF SameSlots
    <3>3. EpochWeight(new, e, epochs[e]) = FrozenWeight(plr, pool) /\ FrozenSlotMatches(new, e)
      BY <1>1, <3>2 DEF EpochWeight, FrozenSlotMatches
    <3>4. EpochWeight(plr, e, epochs[e]) = FrozenWeight(plr, pool)
      BY <1>1, <1>2, <2>3 DEF EpochWeight, FrozenWeight
    <3> QED
      BY <3>3, <3>4
  <2> QED
    BY <1>1, <2>2, <2>3
<1> QED
  BY <1>3, <1>4 DEF Written

\* What the previous epoch owes a Player is fixed while the epoch lasts.
LEMMA NextWeightFixed ==
  ASSUME TypeOK, PeriodsKnown, [Next]_vars,
         NEW e \in EpochIds, e = pool.current_epoch_id - 1,
         pool'.current_epoch_id = pool.current_epoch_id,
         NEW p \in Players, players[p].live, FrozenSlotMatches(players[p], e)
  PROVE  /\ FrozenSlotMatches(players'[p], e)
         /\ EpochWeight(players'[p], e, epochs'[e]) = EpochWeight(players[p], e, epochs[e])
<1>1. ~\E s \in Keys : begin_epoch(s)
  <2>1. pool.current_epoch_id \in Nat
    BY DEF TypeOK, PoolRec
  <2> QED
    BY <2>1, BeginFrame
<1>2. epochs'[e].starts_at = epochs[e].starts_at /\ epochs'[e].ends_at = epochs[e].ends_at
  <2>1. CASE Tick \/ CustodyNext \/ FundingNext \/ RoundsNext \/ UNCHANGED vars
    BY <2>1, OutsideTheDraws
  <2>2. ASSUME NEW x \in EpochIds,
               \/ \E s \in Keys : close_registration(s, x)
               \/ \E q \in Players : register(x, q) \/ payout(x, q)
               \/ \E target \in 0..(epochs[x].registered_weight - 1) : draw(x, target)
               \/ rollover_epoch(x) \/ FulfillEpoch(x)
        PROVE  epochs'[e].starts_at = epochs[e].starts_at /\ epochs'[e].ends_at = epochs[e].ends_at
    BY <2>2, OneEpoch
  <2> QED
    BY <1>1, <2>1, <2>2, WhichStep
<1>3. \A plr : EpochWeight(plr, e, epochs'[e]) = EpochWeight(plr, e, epochs[e])
  BY <1>2 DEF EpochWeight
<1>4. CASE players'[p] = players[p]
  BY <1>3, <1>4
<1>5. CASE players'[p] # players[p]
  <2>0. PICK q \in Players : \E new :
          players' = [players EXCEPT ![q] = new] /\ Written(players[q], new)
    BY <1>5, NextWrites
  <2>1. PICK new : players' = [players EXCEPT ![q] = new] /\ Written(players[q], new)
    BY <2>0
  <2>2. q = p /\ players'[p] = new
    BY <1>5, <2>1, OneAccount
  <2>3. /\ FrozenSlotMatches(new, e)
        /\ EpochWeight(new, e, epochs[e]) = EpochWeight(players[p], e, epochs[e])
    BY <2>1, <2>2, SettledWeight
  <2> QED
    BY <1>3, <2>2, <2>3
<1> QED
  BY <1>4, <1>5

\* Nothing done in the current epoch alters what the previous one owes a
\* Player, whether or not touch already froze it (touch.rs, spec.md 2.4,
\* invariant 8): whoever deposits, plays, withdraws, registers or is paid, in
\* any number of epochs begun on time or late.
THEOREM PreviousWeightHolds == Spec => PreviousWeightFixed
<1> DEFINE Fixed == \A e \in EpochIds :
             (e = pool.current_epoch_id - 1 /\ pool'.current_epoch_id = pool.current_epoch_id)
             => \A p \in Players :
                  (players[p].live /\ FrozenSlotMatches(players[p], e)) =>
                    /\ FrozenSlotMatches(players'[p], e)
                    /\ EpochWeight(players'[p], e, epochs'[e])
                         = EpochWeight(players[p], e, epochs[e])
<1>1. Init => PeriodsKnown
  BY BoundsAssumption DEF Init, InitWith, NoPlayer, PeriodsKnown
<1>2. TypeOK /\ TypeOK' /\ PeriodsKnown /\ [Next]_vars => PeriodsKnown'
  BY NextPeriods
<1>3. TypeOK /\ PeriodsKnown /\ [Next]_vars => Fixed
  BY NextWeightFixed
<1>4. TypeOK /\ TypeOK' /\ PeriodsKnown /\ [Next]_vars => [Fixed]_vars
  BY <1>3
<1> QED
  BY <1>1, <1>2, <1>4, TypeCorrect, PTL DEF Spec, PreviousWeightFixed

-----------------------------------------------------------------------------
(* The time limit of a withdrawal.                                         *)

\* The current epoch has begun and lasts no longer than epoch_seconds; a
\* request made in it was made since it began.
RequestsDated ==
  LET e == pool.current_epoch_id IN
  /\ pool.current_epoch_start <= now
  /\ e > 0 => pool.current_epoch_ends_at <= pool.current_epoch_start + params.epoch_seconds
  /\ \A p \in Players :
       /\ players[p].pending_epoch <= e
       /\ (players[p].pending_withdraw > 0 /\ players[p].pending_epoch = e) =>
            players[p].requested_at >= pool.current_epoch_start

\* set_params does not shorten the epoch.
NeverShortened == [][params'.epoch_seconds >= params.epoch_seconds]_params

\* A grid point is at or before the instant it is the floor of.
LEMMA GridBelow ==
  ASSUME NEW a \in Int, NEW d \in Int, d > 0, NEW t \in Int
  PROVE  grid_floor(a, d, t) \in Int /\ grid_floor(a, d, t) <= t
<1> DEFINE q == (t - a) \div d
<1>1. q \in Int /\ d * q <= t - a
  OBVIOUS
<1>2. q * d = d * q /\ q * d \in Int
  BY <1>1
<1>3. grid_floor(a, d, t) = a + q * d
  BY DEF grid_floor
<1> HIDE DEF q
<1> QED
  BY <1>1, <1>2, <1>3

\* begin_epoch starts the next epoch no later than now, and ends it within
\* epoch_seconds.
LEMMA BeginDates ==
  ASSUME TypeOK, ValidParams(params), NEW s \in Keys, begin_epoch(s)
  PROVE  /\ NextStartsAt \in Int /\ NextEndsAt \in Int
         /\ NextStartsAt <= now /\ NextEndsAt <= NextStartsAt + params.epoch_seconds
<1> DEFINE e == pool.current_epoch_id
           g == grid_floor(params.epoch_anchor, params.epoch_seconds, now)
           h == grid_floor(params.epoch_anchor, params.epoch_seconds, NextStartsAt)
<1>1. /\ params.epoch_anchor \in Int /\ params.epoch_seconds \in Int
      /\ params.epoch_seconds > 0 /\ now \in Int /\ e \in Nat
  BY DEF ValidParams, ParamRec, TypeOK, PoolRec
<1>2. e > 0 => epochs[e].ends_at \in Int /\ epochs[e].ends_at <= now
  <2>1. e > 0 => e \in EpochIds
    BY BeginFrame
  <2> QED
    BY <2>1 DEF begin_epoch, TypeOK, EpochRec
<1>3. g \in Int /\ g <= now
  BY <1>1, GridBelow
<1>4. NextStartsAt \in Int /\ NextStartsAt <= now
  BY <1>1, <1>2, <1>3 DEF NextStartsAt, MaxOf
<1>5. h \in Int /\ h <= NextStartsAt
  BY <1>1, <1>4, GridBelow
<1>6. NextEndsAt = h + params.epoch_seconds
  BY DEF NextEndsAt
<1> HIDE DEF h, g
<1> QED
  BY <1>1, <1>4, <1>5, <1>6

\* The clock and set_params apart, time and parameters stand still.
LEMMA ClockAndParams ==
  ASSUME TypeOK, [Next]_vars
  PROVE  /\ now' \in Int /\ now' >= now /\ (now' = now \/ Tick)
         /\ (\E s \in Keys : begin_epoch(s)) => now' = now /\ params' = params
<1>1. now \in Int
  BY DEF TypeOK
<1>2. Tick => now' = now + 1
  BY DEF Tick
<1>3. CustodyNext => now' = now
  BY DEF CustodyNext, AdminNext, set_params, set_pause, set_feature_pause, shutdown,
         set_operator, propose_admin, accept_admin, DepositorNext, deposit, request_withdraw,
         buy_tickets, process_withdraw, emergency_withdraw, TreasuryNext, admin_withdraw,
         return_principal, sweep_house, GrantNext, grant_tickets, grant_tickets_operator,
         grant_tickets_admin
<1>4. EpochsNext => now' = now
  BY DEF EpochsNext, OperatorEpochNext, AnyoneEpochNext, FundingNext, begin_epoch,
         close_registration, register, payout, draw, rollover_epoch, FulfillEpoch, fund_jackpot,
         fund_yield
<1>5. RoundsNext => now' = now
  BY RoundsFrame
<1>6. UNCHANGED vars => now' = now
  BY DEF vars
<1>7. (Tick /\ now' = now + 1) \/ now' = now
  BY <1>2, <1>3, <1>4, <1>5, <1>6 DEF Next
<1>8. ASSUME NEW s \in Keys, begin_epoch(s) PROVE now' = now /\ params' = params
  BY <1>8 DEF begin_epoch
<1> QED
  BY <1>1, <1>7, <1>8

\* Every step keeps the randomness requests dated, as long as epochs are
\* never made shorter.
LEMMA NextDated ==
  ASSUME TypeOK, TypeOK', ValidParams(params), RequestsDated, [Next]_vars,
         params' = params \/ params'.epoch_seconds >= params.epoch_seconds
  PROVE  RequestsDated'
<1> PICK c \in Nat : c = pool.current_epoch_id
  BY DEF TypeOK, PoolRec
<1>1. /\ now \in Int /\ now' \in Int /\ now' >= now
      /\ params.epoch_seconds \in Int /\ params'.epoch_seconds \in Int
      /\ params'.epoch_seconds >= params.epoch_seconds
      /\ pool.current_epoch_start \in Int /\ pool.current_epoch_ends_at \in Int
  BY ClockAndParams DEF TypeOK, ParamRec, PoolRec
<1>2. \A p \in Players : /\ players[p].pending_epoch \in Nat /\ players[p].requested_at \in Int
                         /\ players[p].pending_withdraw \in Nat
                         /\ players[p].pending_epoch <= c
                         /\ players'[p].pending_withdraw \in Nat
  BY DEF TypeOK, PlayerRec, RequestsDated
<1>3. ASSUME NEW s \in Keys, begin_epoch(s) PROVE RequestsDated'
  <2>1. /\ NextStartsAt \in Int /\ NextEndsAt \in Int
        /\ NextStartsAt <= now /\ NextEndsAt <= NextStartsAt + params.epoch_seconds
    BY <1>3, BeginDates
  <2>2. /\ pool'.current_epoch_id = c + 1 /\ players' = players
        /\ pool'.current_epoch_start = NextStartsAt /\ pool'.current_epoch_ends_at = NextEndsAt
        /\ now' = now /\ params' = params
    BY <1>3, BeginFrame DEF begin_epoch
  <2> QED
    BY <1>1, <1>2, <2>1, <2>2 DEF RequestsDated
<1>4. ASSUME ~\E s \in Keys : begin_epoch(s) PROVE RequestsDated'
  <2>1. SamePeriods
    <3>1. CASE Tick \/ CustodyNext \/ FundingNext \/ RoundsNext \/ UNCHANGED vars
      BY <3>1, OutsideTheDraws
    <3>2. ASSUME NEW e \in EpochIds,
                 \/ \E s \in Keys : close_registration(s, e)
                 \/ \E p \in Players : register(e, p) \/ payout(e, p)
                 \/ \E target \in 0..(epochs[e].registered_weight - 1) : draw(e, target)
                 \/ rollover_epoch(e) \/ FulfillEpoch(e)
          PROVE  SamePeriods
      BY <3>2, OneEpoch
    <3> QED
      BY <1>4, <3>1, <3>2, WhichStep
  <2>2. /\ pool'.current_epoch_start <= now'
        /\ c > 0 => pool'.current_epoch_ends_at <= pool'.current_epoch_start + params'.epoch_seconds
    BY <1>1, <2>1 DEF RequestsDated, SamePeriods
  <2>3. ASSUME NEW p \in Players
        PROVE  /\ players'[p].pending_epoch <= c
               /\ (players'[p].pending_withdraw > 0 /\ players'[p].pending_epoch = c) =>
                    players'[p].requested_at >= pool'.current_epoch_start
    <3>1. CASE players'[p] = players[p]
      BY <2>1, <3>1 DEF RequestsDated, SamePeriods
    <3>2. CASE players'[p] # players[p]
      <4>0. PICK q \in Players : \E new :
              players' = [players EXCEPT ![q] = new] /\ Written(players[q], new)
        BY <3>2, NextWrites
      <4>1. PICK new : players' = [players EXCEPT ![q] = new] /\ Written(players[q], new)
        BY <4>0
      <4>2. q = p /\ players'[p] = new
        BY <3>2, <4>1, OneAccount
      <4>3. CASE SameRequest(players[p], new)
        BY <1>2, <2>1, <4>2, <4>3 DEF RequestsDated, SamePeriods, SameRequest
      <4>4. CASE Requested(new)
        <5>1. players'[p].pending_epoch = c /\ players'[p].requested_at = now
          BY <4>2, <4>4 DEF Requested
        <5>2. pool'.current_epoch_start <= now
          BY <1>1, <2>1 DEF RequestsDated, SamePeriods
        <5> QED
          BY <1>1, <2>1, <5>1, <5>2 DEF SamePeriods
      <4> QED
        BY <4>1, <4>2, <4>3, <4>4 DEF Written
    <3> QED
      BY <3>1, <3>2
  <2> QED
    BY <2>1, <2>2, <2>3 DEF RequestsDated, SamePeriods
<1> QED
  BY <1>3, <1>4

\* A request's time limit never matures before the epoch it landed in is over,
\* however late that epoch began and whatever is requested, merged or paid
\* meanwhile (custody.rs:553), as long as set_params never shortens the epoch:
\* `process_withdraw` reads the parameter of the day it is called on.
THEOREM HatchOpensLate == Spec /\ NeverShortened => []HatchOnlyWhenEpochLate
<1>1. Init => ParamsValid /\ RequestsDated
  <2>1. Init => ParamsValid
    BY InitType
  <2>2. Init => RequestsDated
    BY BoundsAssumption DEF Init, InitWith, NoPlayer, RequestsDated
  <2> QED
    BY <2>1, <2>2
<1>2. TypeOK /\ TypeOK' /\ ParamsValid /\ RequestsDated /\ [Next]_vars
        /\ [params'.epoch_seconds >= params.epoch_seconds]_params
      => ParamsValid' /\ RequestsDated'
  BY NextDated, NextType DEF ParamsValid
<1>3. TypeOK /\ RequestsDated => HatchOnlyWhenEpochLate
  <2> SUFFICES ASSUME TypeOK, RequestsDated, NEW p \in Players,
                      players[p].pending_withdraw > 0, pool.current_epoch_id > 0,
                      pool.current_epoch_id = players[p].pending_epoch,
                      now > players[p].requested_at + params.epoch_seconds
               PROVE  now >= pool.current_epoch_ends_at
    BY DEF HatchOnlyWhenEpochLate
  <2>1. /\ players[p].requested_at \in Int /\ params.epoch_seconds \in Int /\ now \in Int
        /\ pool.current_epoch_start \in Int /\ pool.current_epoch_ends_at \in Int
    BY DEF TypeOK, PlayerRec, ParamRec, PoolRec
  <2>2. players[p].requested_at >= pool.current_epoch_start
    BY DEF RequestsDated
  <2>3. pool.current_epoch_ends_at <= pool.current_epoch_start + params.epoch_seconds
    BY DEF RequestsDated
  <2> QED
    BY <2>1, <2>2, <2>3
<1> QED
  BY <1>1, <1>2, <1>3, TypeCorrect, PTL DEF Spec, NeverShortened

-----------------------------------------------------------------------------
(* Winners stay payable while registration is closed in time.              *)

InDraw(e) == epochs[e].status \in {"Registering", "Drawing", "Drawn"}

\* The points of an epoch's draw are owned.
PointsOwned(e) ==
  \A point \in 0..(epochs[e].registered_weight - 1) :
    \E p \in Players :
      /\ players[p].reg_epoch = e
      /\ players[p].reg_start <= point /\ point < players[p].reg_end

\* begin_epoch's hold is enough where registration is closed before the next
\* epoch begins, which close_registration itself does not ask for.
ClosesPrevious ==
  \A e \in EpochIds :
    (epochs[e].status = "Registering" /\ epochs'[e].status = "Drawing")
      => e = pool.current_epoch_id - 1

ClosedInTime == [][ClosesPrevious]_vars

\* Nobody is registered for an epoch that is not over.
NobodyAhead == \A e \in EpochIds : e >= pool.current_epoch_id => epochs[e].registered_weight = 0

\* What the hold leaves: no epoch before the previous one waits for its winner.
NoDrawBehind ==
  \A e \in EpochIds : e + 1 < pool.current_epoch_id => epochs[e].status \notin {"Drawing", "Drawn"}

\* A drawn point is one of the registered ones.
TargetsDrawn ==
  \A e \in EpochIds : epochs[e].status = "Drawn" => epochs[e].target < epochs[e].registered_weight

\* A Player has one registration slot: it is the previous epoch's points that
\* are owned, and those of older ones need not be any more.
PreviousOwned == \A e \in EpochIds : e = pool.current_epoch_id - 1 => PointsOwned(e)

DrawsKept == EpochsInOrder /\ NobodyAhead /\ NoDrawBehind /\ TargetsDrawn /\ PreviousOwned

\* Where the steps of an epoch's draw start, and when they leave a drawn point.
LEMMA DrawSteps ==
  ASSUME TypeOK, NEW e \in EpochIds,
         \/ \E s \in Keys : close_registration(s, e)
         \/ \E p \in Players : register(e, p) \/ payout(e, p)
         \/ \E target \in 0..(epochs[e].registered_weight - 1) : draw(e, target)
         \/ rollover_epoch(e) \/ FulfillEpoch(e)
  PROVE  /\ InDraw(e)
         /\ epochs'[e].status = "Drawn" =>
              /\ epochs'[e].target \in 0..(epochs[e].registered_weight - 1)
              /\ ~\E p \in Players : register(e, p)
         /\ epochs'[e].status \in {"Drawing", "Drawn"} =>
              \/ epochs[e].status = "Drawing"
              \/ epochs[e].status = "Registering" /\ epochs'[e].status = "Drawing"
<1>1. epochs[e] \in EpochRec
  BY DEF TypeOK
<1>2. ASSUME NEW s \in Keys, close_registration(s, e)
      PROVE  epochs[e].status = "Registering" /\ epochs'[e].status # "Drawn"
  <2> DEFINE prize == JackpotOnOffer
  <2>1. /\ epochs[e].status = "Registering"
        /\ \/ epochs' = [epochs EXCEPT ![e] =
                          [epochs[e] EXCEPT !.status = "RolledOver", !.jackpot_amount = prize]]
           \/ epochs' = [epochs EXCEPT ![e] =
                          [epochs[e] EXCEPT !.status = "Drawing", !.jackpot_amount = prize,
                                            !.requested_at = now]]
    BY <1>2 DEF close_registration, TypeOK
  <2> HIDE DEF prize
  <2> QED
    BY <1>1, <2>1 DEF TypeOK, EpochRec
<1>3. ASSUME NEW p \in Players, register(e, p)
      PROVE  epochs[e].status = "Registering" /\ epochs'[e].status = "Registering"
  <2> DEFINE a == RegStart(e) + EpochWeight(players[p], e, epochs[e])
             b == epochs[e].registered_count + 1
  <2>1. /\ epochs[e].status = "Registering"
        /\ \/ epochs' = epochs
           \/ epochs' = [epochs EXCEPT ![e] =
                           [epochs[e] EXCEPT !.registered_weight = a, !.registered_count = b]]
    BY <1>3 DEF register
  <2> HIDE DEF a, b
  <2> QED
    BY <1>1, <2>1 DEF TypeOK, EpochRec
<1>4. ASSUME NEW p \in Players, payout(e, p)
      PROVE  epochs[e].status = "Drawn" /\ epochs'[e].status = "Paid"
  BY <1>1, <1>4 DEF payout, TypeOK, EpochRec
<1>5. ASSUME NEW target \in 0..(epochs[e].registered_weight - 1), draw(e, target)
      PROVE  epochs[e].status = "Drawing" /\ epochs'[e].target = target
  BY <1>1, <1>5 DEF draw, TypeOK, EpochRec
<1>6. ASSUME rollover_epoch(e)
      PROVE  /\ epochs[e].status \in {"Registering", "Drawing", "Drawn"}
             /\ epochs'[e].status = "RolledOver"
  BY <1>1, <1>6 DEF rollover_epoch, RolloverDue, TypeOK, EpochRec
<1>7. ASSUME FulfillEpoch(e)
      PROVE  epochs[e].status = "Drawing" /\ epochs'[e].status = "Drawing"
  BY <1>1, <1>7 DEF FulfillEpoch, TypeOK, EpochRec
<1> QED
  BY <1>2, <1>3, <1>4, <1>5, <1>6, <1>7 DEF InDraw

\* Only close_registration turns a registration into a draw.
LEMMA OthersClose ==
  ASSUME TypeOK, NEW e \in EpochIds, epochs[e].status = "Registering",
         \/ \E p \in Players : register(e, p) \/ payout(e, p)
         \/ \E target \in 0..(epochs[e].registered_weight - 1) : draw(e, target)
         \/ rollover_epoch(e) \/ FulfillEpoch(e)
  PROVE  epochs'[e].status # "Drawing"
<1>1. epochs[e] \in EpochRec
  BY DEF TypeOK
<1>2. ASSUME NEW p \in Players, register(e, p)
      PROVE  epochs'[e].status = "Registering"
  <2> DEFINE a == RegStart(e) + EpochWeight(players[p], e, epochs[e])
             b == epochs[e].registered_count + 1
  <2>1. \/ epochs' = epochs
        \/ epochs' = [epochs EXCEPT ![e] =
                        [epochs[e] EXCEPT !.registered_weight = a, !.registered_count = b]]
    BY <1>2 DEF register
  <2> HIDE DEF a, b
  <2> QED
    BY <1>1, <2>1 DEF TypeOK, EpochRec
<1>3. rollover_epoch(e) => epochs'[e].status = "RolledOver"
  BY <1>1 DEF rollover_epoch, TypeOK, EpochRec
<1>4. /\ \A p \in Players : ~payout(e, p)
      /\ \A target \in 0..(epochs[e].registered_weight - 1) : ~draw(e, target)
      /\ ~FulfillEpoch(e)
  BY DEF payout, draw, FulfillEpoch
<1> QED
  BY <1>2, <1>3, <1>4

\* An epoch begins only when the epoch two behind it waits for no winner; for
\* the one that just ended nobody is registered yet.
LEMMA BeginCovered ==
  ASSUME TypeOK, TypeOK', DrawsKept, NEW s \in Keys, begin_epoch(s)
  PROVE  NobodyAhead' /\ NoDrawBehind' /\ TargetsDrawn' /\ PreviousOwned'
<1> PICK c \in Nat : c = pool.current_epoch_id
  BY DEF TypeOK, PoolRec
<1>1. /\ c + 1 \in EpochIds /\ (c > 0 => c \in EpochIds) /\ pool'.current_epoch_id = c + 1
      /\ epochs'[c + 1].status = "Open" /\ epochs'[c + 1].registered_weight = 0
      /\ c > 0 => /\ epochs'[c].status = "Registering"
                  /\ epochs'[c].registered_weight = epochs[c].registered_weight
      /\ \A x \in EpochIds \ {c, c + 1} : epochs'[x] = epochs[x]
  BY BeginFrame
<1>2. \A e \in EpochIds : e \in Nat /\ e >= 1 /\ epochs[e].registered_weight \in Nat
  BY DEF EpochIds, TypeOK, EpochRec
<1>3. ASSUME NEW e \in EpochIds, e < c
      PROVE  epochs'[e] = epochs[e] /\ epochs[e].status \notin {"Drawing", "Drawn"}
  <2>1. e # c /\ e # c + 1
    BY <1>2, <1>3
  <2>2. CASE e + 1 < c
    BY <1>1, <2>1, <2>2 DEF DrawsKept, NoDrawBehind
  <2>3. CASE ~(e + 1 < c)
    <3>1. e = c - 1 /\ c >= 2
      BY <1>2, <1>3, <2>3
    <3>2. epochs[e].status \notin {"Drawing", "Drawn"}
      BY <3>1 DEF begin_epoch, TwoBehindStillDrawing
    <3> QED
      BY <1>1, <2>1, <3>2
  <2> QED
    BY <2>2, <2>3
<1>4. \A e \in EpochIds : e >= c => epochs'[e].registered_weight = 0
  BY <1>1, <1>2 DEF DrawsKept, NobodyAhead
<1>5. \A e \in EpochIds : epochs'[e].status # "Drawn"
  <2> SUFFICES ASSUME NEW e \in EpochIds PROVE epochs'[e].status # "Drawn"
    OBVIOUS
  <2>1. CASE e < c
    BY <1>3, <2>1
  <2>2. CASE e = c
    BY <1>1, <1>2, <2>2
  <2>3. CASE e = c + 1
    BY <1>1, <2>3
  <2>4. CASE e > c + 1
    BY <1>1, <1>2, <2>4 DEF DrawsKept, EpochsInOrder
  <2> QED
    BY <1>2, <2>1, <2>2, <2>3, <2>4
<1>6. NobodyAhead'
  BY <1>1, <1>2, <1>4 DEF NobodyAhead
<1>7. NoDrawBehind'
  BY <1>1, <1>2, <1>3 DEF NoDrawBehind
<1>8. TargetsDrawn'
  BY <1>5 DEF TargetsDrawn
<1>9. PreviousOwned'
  <2> SUFFICES ASSUME NEW e \in EpochIds, e = c,
                      NEW point \in 0..(epochs'[e].registered_weight - 1)
               PROVE  FALSE
    BY <1>1, <1>2 DEF PreviousOwned, PointsOwned
  <2> QED
    BY <1>4
<1> QED
  BY <1>6, <1>7, <1>8, <1>9

\* A registration takes the points it adds.
LEMMA RegisterCovered ==
  ASSUME TypeOK, DrawsKept, NEW e \in EpochIds, NEW p \in Players, register(e, p)
  PROVE  PointsOwned(e)'
<1> DEFINE w == EpochWeight(players[p], e, epochs[e])
           from == epochs[e].registered_weight
<1>0. PICK new : Registers(e, p, new)
  BY RegisterWrites
<1>1. players'[p] = new /\ \A q \in Players \ {p} : players'[q] = players[q]
  BY <1>0, OneAccount DEF Registers
<1>2. players[p].reg_epoch # e /\ epochs[e].status = "Registering"
  BY DEF register, Unregistered
<1>3. PointsOwned(e)
  <2>1. e = pool.current_epoch_id - 1 /\ pool.current_epoch_id \in Nat
    BY DEF register, TypeOK, PoolRec
  <2> QED
    BY <2>1 DEF DrawsKept, PreviousOwned
<1>4. w \in Nat /\ from \in Nat /\ epochs[e] \in EpochRec
  BY EpochWeightNat DEF TypeOK, EpochRec
<1>5. IF w = 0
      THEN new.reg_epoch = players[p].reg_epoch /\ epochs' = epochs
      ELSE /\ new.reg_epoch = e /\ new.reg_start = from /\ new.reg_end = from + w
           /\ epochs'[e].registered_weight = from + w
  <2> DEFINE weight == from + w
             count  == epochs[e].registered_count + 1
  <2>1. IF w = 0
        THEN SameListing(players[p], new) /\ epochs' = epochs
        ELSE /\ new.reg_epoch = e /\ new.reg_start = from /\ new.reg_end = weight
             /\ epochs' = [epochs EXCEPT ![e] = [epochs[e] EXCEPT !.registered_weight = weight,
                                                                 !.registered_count  = count]]
    BY <1>0 DEF Registers
  <2> HIDE DEF weight, count, w, from
  <2>2. w = 0 => new.reg_epoch = players[p].reg_epoch /\ epochs' = epochs
    BY <2>1 DEF SameListing
  <2>3. w # 0 => /\ new.reg_epoch = e /\ new.reg_start = from /\ new.reg_end = weight
                 /\ epochs'[e].registered_weight = weight
    BY <1>4, <2>1 DEF EpochRec, TypeOK
  <2> QED
    BY <2>2, <2>3 DEF weight
<1> HIDE DEF w
<1> SUFFICES ASSUME NEW point \in 0..(epochs'[e].registered_weight - 1)
             PROVE  \E q \in Players :
                      /\ players'[q].reg_epoch = e
                      /\ players'[q].reg_start <= point /\ point < players'[q].reg_end
  BY DEF PointsOwned
<1>6. point \in Int /\ 0 <= point
  BY <1>4, <1>5
<1>7. CASE point < from
  <2>1. PICK q \in Players : /\ players[q].reg_epoch = e
                             /\ players[q].reg_start <= point /\ point < players[q].reg_end
    BY <1>3, <1>4, <1>6, <1>7 DEF PointsOwned
  <2>2. players'[q] = players[q]
    BY <1>1, <1>2, <2>1
  <2> QED
    BY <2>1, <2>2
<1>8. CASE ~(point < from)
  <2>1. w # 0 /\ from <= point /\ point < from + w
    BY <1>4, <1>5, <1>6, <1>8
  <2> QED
    BY <1>1, <1>5, <2>1
<1> QED
  BY <1>7, <1>8

\* Intervals, registered weights and targets of the draws left alone.
LEMMA CoverStays ==
  ASSUME TypeOK, NEW e \in EpochIds, PointsOwned(e),
         \A p \in Players : SameListing(players[p], players'[p]),
         epochs'[e].registered_weight = epochs[e].registered_weight
  PROVE  PointsOwned(e)'
<1> SUFFICES ASSUME NEW point \in 0..(epochs[e].registered_weight - 1)
             PROVE  \E q \in Players :
                      /\ players'[q].reg_epoch = e
                      /\ players'[q].reg_start <= point /\ point < players'[q].reg_end
  BY DEF PointsOwned
<1>1. PICK q \in Players : /\ players[q].reg_epoch = e
                           /\ players[q].reg_start <= point /\ point < players[q].reg_end
  BY DEF PointsOwned
<1> QED
  BY <1>1 DEF SameListing

\* The steps of one epoch's draw.
LEMMA DrawCovered ==
  ASSUME TypeOK, TypeOK', DrawsKept, NEW e \in EpochIds,
         \/ \E s \in Keys : close_registration(s, e)
         \/ \E p \in Players : register(e, p) \/ payout(e, p)
         \/ \E target \in 0..(epochs[e].registered_weight - 1) : draw(e, target)
         \/ rollover_epoch(e) \/ FulfillEpoch(e),
         (epochs[e].status = "Registering" /\ epochs'[e].status = "Drawing")
           => e = pool.current_epoch_id - 1
  PROVE  NobodyAhead' /\ NoDrawBehind' /\ TargetsDrawn' /\ PreviousOwned'
<1> PICK c \in Nat : c = pool.current_epoch_id
  BY DEF TypeOK, PoolRec
<1>1. /\ pool'.current_epoch_id = c
      /\ \A x \in EpochIds \ {e} : epochs'[x] = epochs[x]
      /\ \A x \in EpochIds : x \in Nat
  BY OneEpoch DEF SamePeriods, EpochIds
<1>2. e < c
  BY <1>1, DrawSteps DEF DrawsKept, EpochsInOrder, InDraw
<1>3. PreviousOwned'
  <2> SUFFICES ASSUME NEW x \in EpochIds, x = c - 1
               PROVE  PointsOwned(x)'
    BY <1>1 DEF PreviousOwned
  <2>1. PointsOwned(x)
    BY DEF DrawsKept, PreviousOwned
  <2>2. CASE \E p \in Players : register(e, p)
    <3>1. e = x
      BY <2>2 DEF register
    <3> QED
      BY <2>2, <3>1, RegisterCovered
  <2>3. CASE \/ \E s \in Keys : close_registration(s, e)
             \/ \E p \in Players : payout(e, p)
             \/ \E target \in 0..(epochs[e].registered_weight - 1) : draw(e, target)
             \/ rollover_epoch(e) \/ FulfillEpoch(e)
    <3>1. /\ players' = players \/ \E p \in Players : WritesPlayer(p)
          /\ epochs'[e].registered_weight = epochs[e].registered_weight
      BY <2>3, OtherListings
    <3>2. epochs'[x].registered_weight = epochs[x].registered_weight
      BY <1>1, <3>1
    <3> QED
      BY <2>1, <3>1, <3>2, WritesListings, CoverStays
  <2> QED
    BY <2>2, <2>3
<1>4. NobodyAhead'
  BY <1>1, <1>2 DEF DrawsKept, NobodyAhead
<1>5. NoDrawBehind'
  <2> SUFFICES ASSUME NEW x \in EpochIds, x + 1 < c
               PROVE  epochs'[x].status \notin {"Drawing", "Drawn"}
    BY <1>1 DEF NoDrawBehind
  <2>1. epochs[x].status \notin {"Drawing", "Drawn"}
    BY DEF DrawsKept, NoDrawBehind
  <2>2. CASE x # e
    BY <1>1, <2>1, <2>2
  <2>3. CASE x = e
    BY <1>1, <2>1, <2>3, DrawSteps
  <2> QED
    BY <2>2, <2>3
<1>6. epochs'[e].status = "Drawn" => epochs'[e].target < epochs'[e].registered_weight
  <2> SUFFICES ASSUME epochs'[e].status = "Drawn"
               PROVE  epochs'[e].target < epochs'[e].registered_weight
    OBVIOUS
  <2>1. epochs'[e].target \in 0..(epochs[e].registered_weight - 1)
    BY DrawSteps
  <2>2. epochs[e].registered_weight \in Nat
    BY DEF TypeOK, EpochRec
  <2>3. epochs'[e].registered_weight = epochs[e].registered_weight
    BY DrawSteps, OtherListings
  <2> QED
    BY <2>1, <2>2, <2>3
<1>7. TargetsDrawn'
  BY <1>1, <1>6 DEF DrawsKept, TargetsDrawn
<1> QED
  BY <1>3, <1>4, <1>5, <1>7

\* Every step of the program that closes no registration late.
LEMMA NextCovers ==
  ASSUME TypeOK, TypeOK', PrizesKept, PrizesKept', DrawsKept, [Next]_vars,
         [ClosesPrevious]_vars
  PROVE  DrawsKept'
<1>1. CASE Tick \/ CustodyNext \/ FundingNext \/ RoundsNext \/ UNCHANGED vars
  <2>1. /\ epochs' = epochs /\ pool'.current_epoch_id = pool.current_epoch_id
        /\ \A q \in Players : SameListing(players[q], players'[q])
    BY <1>1, OutsideTheDraws, WritesListings DEF SamePeriods
  <2>2. \A e \in EpochIds : PointsOwned(e) => PointsOwned(e)'
    BY <2>1, CoverStays
  <2>3. PreviousOwned'
    BY <2>1, <2>2 DEF DrawsKept, PreviousOwned
  <2>4. NobodyAhead' /\ NoDrawBehind' /\ TargetsDrawn'
    BY <2>1 DEF DrawsKept, NobodyAhead, NoDrawBehind, TargetsDrawn
  <2> QED
    BY <2>3, <2>4 DEF DrawsKept, PrizesKept
<1>2. CASE \E s \in Keys : begin_epoch(s)
  BY <1>2, BeginCovered DEF DrawsKept, PrizesKept
<1>3. ASSUME NEW e \in EpochIds,
             \/ \E s \in Keys : close_registration(s, e)
             \/ \E p \in Players : register(e, p) \/ payout(e, p)
             \/ \E target \in 0..(epochs[e].registered_weight - 1) : draw(e, target)
             \/ rollover_epoch(e) \/ FulfillEpoch(e)
      PROVE  DrawsKept'
  <2>1. (epochs[e].status = "Registering" /\ epochs'[e].status = "Drawing")
          => e = pool.current_epoch_id - 1
    BY DEF ClosesPrevious, vars
  <2>2. NobodyAhead' /\ NoDrawBehind' /\ TargetsDrawn' /\ PreviousOwned'
    BY <1>3, <2>1, DrawCovered
  <2> QED
    BY <2>2 DEF DrawsKept, PrizesKept
<1> QED
  BY <1>1, <1>2, <1>3, WhichStep

\* Before the first epoch there is no draw.
LEMMA InitCovers == Init => DrawsKept
<1> SUFFICES ASSUME Init PROVE DrawsKept
  OBVIOUS
<1>1. \A e \in EpochIds : epochs[e].status = "None" /\ epochs[e].registered_weight = 0
                            /\ e \in Nat /\ e >= 1
  BY DEF Init, InitWith, NoEpoch, EpochIds
<1>2. pool.current_epoch_id = 0
  BY DEF Init, InitWith
<1>3. EpochsInOrder
  BY InitPrizes DEF PrizesKept
<1> QED
  BY <1>1, <1>2, <1>3 DEF DrawsKept, NobodyAhead, NoDrawBehind, TargetsDrawn, PreviousOwned

\* A drawn point of a draw that is kept has its owner.
LEMMA DrawnIsOwned ==
  ASSUME TypeOK, DrawsKept
  PROVE  WinnerPayable
<1> SUFFICES ASSUME NEW e \in EpochIds, epochs[e].status = "Drawn"
             PROVE  \E p \in Players : IsWinner(e, p)
  BY DEF WinnerPayable
<1>1. /\ epochs[e].target \in Nat /\ epochs[e].registered_weight \in Nat
      /\ e \in Nat /\ pool.current_epoch_id \in Nat
  <2>1. epochs[e].target \in Nat /\ epochs[e].registered_weight \in Nat
    BY DEF TypeOK, EpochRec
  <2>2. e \in Nat /\ pool.current_epoch_id \in Nat
    BY DEF TypeOK, PoolRec, EpochIds
  <2> QED
    BY <2>1, <2>2
<1>2. epochs[e].target \in 0..(epochs[e].registered_weight - 1)
  BY <1>1 DEF DrawsKept, TargetsDrawn
<1>3. e = pool.current_epoch_id - 1
  BY <1>1 DEF DrawsKept, NoDrawBehind, EpochsInOrder
<1>4. PointsOwned(e)
  BY <1>3 DEF DrawsKept, PreviousOwned
<1> QED
  BY <1>2, <1>4 DEF PointsOwned, IsWinner

\* What begin_epoch's hold (epochs.rs:171) is worth: where registration is
\* closed while its epoch is still the previous one, the winning interval
\* survives until Payout, whoever calls what else and in any order. Without
\* that TLC finds WinnerPayable violated: it is the premise the hold lacks.
THEOREM HoldSuffices == Spec /\ ClosedInTime => []WinnerPayable
<1>1. Init => TypeOK /\ ParamsValid /\ PrizesKept /\ DrawsKept
  BY InitType, InitPrizes, InitCovers
<1>2. TypeOK /\ ParamsValid /\ PrizesKept /\ DrawsKept /\ [Next]_vars /\ [ClosesPrevious]_vars
        => TypeOK' /\ ParamsValid' /\ PrizesKept' /\ DrawsKept'
  BY NextType, NextPrizes, NextCovers
<1>3. TypeOK /\ DrawsKept => WinnerPayable
  BY DrawnIsOwned
<1> QED
  BY <1>1, <1>2, <1>3, PTL DEF Spec, ClosedInTime

\* The signer of the service's instructions makes them the program's own.
LEMMA OperatedIsProgram ==
  ASSUME TypeOK, [OperatedNext]_vars
  PROVE  [Next]_vars
<1>1. now \in now..(now + MaxLead)
  BY BoundsAssumption DEF TypeOK
<1>2. operator_begin_epoch \/ operator_close_registration => OperatorEpochNext
  BY DEF operator_begin_epoch, operator_close_registration, OperatorEpochNext
<1>3. operator_create_round => OperatorRoundNext
  BY <1>1 DEF operator_create_round, OperatorRoundNext
<1> QED
  BY <1>2, <1>3 DEF OperatedNext, Next, EpochsNext, RoundsNext, vars

\* The service closes no registration but the previous epoch's.
LEMMA OperatedCloses ==
  ASSUME TypeOK, PrizesKept, [OperatedNext]_vars
  PROVE  [ClosesPrevious]_vars
<1> SUFFICES ASSUME OperatedNext, NEW x \in EpochIds,
                    epochs[x].status = "Registering", epochs'[x].status = "Drawing"
             PROVE  x = pool.current_epoch_id - 1
  BY DEF ClosesPrevious
<1>1. operator_create_round \/ PlayNext \/ AnyoneRoundNext => RoundsNext
  <2>1. now \in now..(now + MaxLead)
    BY BoundsAssumption DEF TypeOK
  <2> QED
    BY <2>1 DEF operator_create_round, OperatorRoundNext, RoundsNext
<1>2. ~(Tick \/ CustodyNext \/ FundingNext \/ RoundsNext)
  BY OutsideTheDraws
<1>3. ~operator_begin_epoch
  <2> SUFFICES ASSUME NEW s \in Keys, begin_epoch(s) PROVE FALSE
    BY DEF operator_begin_epoch
  <2>1. PICK c \in Nat : c = pool.current_epoch_id
    BY DEF TypeOK, PoolRec
  <2>2. /\ epochs'[c + 1].status = "Open"
        /\ c > 0 => epochs'[c].status = "Registering"
        /\ \A y \in EpochIds \ {c, c + 1} : epochs'[y] = epochs[y]
    BY <2>1, BeginFrame
  <2>3. x \in Nat /\ x >= 1
    BY DEF EpochIds
  <2> QED
    BY <2>2, <2>3
<1>4. CASE operator_close_registration
  <2>1. PICK e \in EpochIds : e = pool.current_epoch_id - 1 /\ close_registration(pool.operator, e)
    BY <1>4 DEF operator_close_registration
  <2>2. \A y \in EpochIds \ {e} : epochs'[y] = epochs[y]
    BY <1>4, <2>1, OneEpoch DEF operator_close_registration
  <2> QED
    BY <2>1, <2>2
<1>5. CASE AnyoneEpochNext
  <2>1. PICK e \in EpochIds :
          \/ \E p \in Players : register(e, p) \/ payout(e, p)
          \/ \E target \in 0..(epochs[e].registered_weight - 1) : draw(e, target)
          \/ rollover_epoch(e) \/ FulfillEpoch(e)
    BY <1>5 DEF AnyoneEpochNext
  <2>2. \A y \in EpochIds \ {e} : epochs'[y] = epochs[y]
    BY <2>1, OneEpoch
  <2>3. CASE x # e
    BY <2>2, <2>3
  <2>4. CASE x = e
    BY <2>1, <2>4, OthersClose
  <2> QED
    BY <2>3, <2>4
<1> QED
  BY <1>1, <1>2, <1>3, <1>4, <1>5 DEF OperatedNext

\* Driven by the operator service, which closes only the epoch before the
\* current one (tick.ts:706), the winner of a drawn prize can always be paid.
THEOREM OperatedDrawsCovered == OperatedSpec => []WinnerPayable
<1>1. Init => TypeOK /\ ParamsValid /\ PrizesKept /\ DrawsKept
  BY InitType, InitPrizes, InitCovers
<1>2. TypeOK /\ ParamsValid /\ PrizesKept /\ DrawsKept /\ [OperatedNext]_vars
        => TypeOK' /\ ParamsValid' /\ PrizesKept' /\ DrawsKept'
  BY OperatedIsProgram, OperatedCloses, NextType, NextPrizes, NextCovers
<1>3. TypeOK /\ DrawsKept => WinnerPayable
  BY DrawnIsOwned
<1> QED
  BY <1>1, <1>2, <1>3, PTL DEF OperatedSpec

-----------------------------------------------------------------------------
(* Lazy accrual, against the reference that counts every second.           *)

\* What touch leaves of a Player that is not ahead of the pool.
LEMMA TouchAt ==
  ASSUME NEW plr \in PlayerRec, NEW pl \in PoolRec, NEW t \in Int,
         pl.current_epoch_id > 0, plr.epoch_id <= pl.current_epoch_id
  PROVE  LET new   == touch(plr, pl, t)
             until == MinOf(t, pl.current_epoch_ends_at)
         IN
         /\ new.last_update = t /\ new.epoch_id = pl.current_epoch_id
         /\ IF plr.epoch_id = pl.current_epoch_id
            THEN /\ new.entries = plr.entries
                 /\ new.weight_acc = plr.weight_acc + plr.entries * elapsed(plr.last_update, until)
                 /\ SameSlots(plr, new)
            ELSE /\ new.entries = plr.principal
                 /\ new.weight_acc = plr.principal * elapsed(pl.current_epoch_start, until)
                 /\ new.frozen_epoch = pl.current_epoch_id - 1
<1>1. plr.epoch_id \in Nat /\ pl.current_epoch_id \in Nat
  BY DEF PlayerRec, PoolRec
<1>2. CASE plr.epoch_id = pl.current_epoch_id
  BY <1>1, <1>2 DEF touch, TouchSameEpoch, weight_of, PlayerRec, SameSlots
<1>3. CASE plr.epoch_id < pl.current_epoch_id
  BY <1>1, <1>3 DEF touch, TouchNewEpoch, weight_of, PlayerRec
<1> QED
  BY <1>1, <1>2, <1>3

\* One more second is one more second of accrual, unless the epoch is over.
LEMMA SecondPasses ==
  ASSUME NEW from \in Int, NEW t \in Int, NEW end \in Int, from <= t, NEW n \in Int
  PROVE  n * elapsed(from, MinOf(t + 1, end)) =
           n * elapsed(from, MinOf(t, end)) + (IF t < end THEN n ELSE 0)
<1> DEFINE x == elapsed(from, MinOf(t, end))
           y == elapsed(from, MinOf(t + 1, end))
<1>1. x \in Int /\ y = x + (IF t < end THEN 1 ELSE 0)
  BY DEF elapsed, MinOf
<1> HIDE DEF x, y
<1>2. n * (x + 1) = n * x + n
  BY <1>1
<1> QED
  BY <1>1, <1>2 DEF x, y

\* An account once created stays.
LEMMA NextLive ==
  ASSUME TypeOK, [Next]_vars, NEW p \in Players, players[p].live
  PROVE  players'[p].live
<1>1. ASSUME NEW new, Written(players[p], new) PROVE new.live
  <2> DEFINE plr == players[p]
  <2>1. plr \in PlayerRec
    BY DEF TypeOK
  <2>2. CASE Resting(plr, new)
    BY <2>2 DEF Resting, SameSlots
  <2>3. CASE Settled(plr, new)
    <3>1. touch(plr, pool, now).live /\ touch(init_if_fresh(plr), pool, now).live
      BY <2>1, TouchKeeps, FreshTouchKeeps
    <3> QED
      BY <2>3, <3>1 DEF Settled, SameSlots
  <2> QED
    BY <1>1, <2>2, <2>3 DEF Written
<1>2. CASE players'[p] = players[p]
  BY <1>2
<1>3. CASE players'[p] # players[p]
  <2>0. PICK q \in Players : \E new :
          players' = [players EXCEPT ![q] = new] /\ Written(players[q], new)
    BY <1>3, NextWrites
  <2>1. PICK new : players' = [players EXCEPT ![q] = new] /\ Written(players[q], new)
    BY <2>0
  <2>2. q = p /\ players'[p] = new
    BY <1>3, <2>1, OneAccount
  <2> QED
    BY <1>1, <2>1, <2>2
<1> QED
  BY <1>2, <1>3

\* Only an account that exists is drawn for, stakes, or has a request pending.
Seated ==
  /\ players[House].live
  /\ \A p \in Players :
       (players[p].reg_epoch # 0 \/ players[p].pending_withdraw # 0) => players[p].live
  /\ \A r \in RoundIds, p \in Owners : positions[r][p].tiles # {} => players[p].live

\* An account nobody created is left blank by every step that does not create it.
LEMMA NextCreates ==
  ASSUME TypeOK, Seated, [Next]_vars, NEW p \in Players, ~players[p].live
  PROVE  players'[p] = players[p] \/ players'[p].live
<1> DEFINE Spared == players' = players
             \/ \E q \in Players : \E new :
                  players[q].live /\ players' = [players EXCEPT ![q] = new]
<1>1. ASSUME Spared PROVE players'[p] = players[p]
  BY <1>1, OneAccount
<1>2. ASSUME NEW q \in Players, NEW amount \in Amounts, deposit(q, amount)
      PROVE  players'[p] = players[p] \/ players'[p].live
  <2> DEFINE t    == touch(init_if_fresh(players[q]), pool, now)
             a    == t.principal + amount
             b    == t.entries + amount
             new  == [t EXCEPT !.principal = a, !.entries = b]
  <2>1. players' = [players EXCEPT ![q] = new]
    BY <1>2 DEF deposit
  <2>2. t \in PlayerRec /\ t.live
    BY FreshTouchKeeps DEF TypeOK, Kept
  <2> HIDE DEF t, a, b
  <2>3. new.live
    BY <2>2 DEF PlayerRec
  <2> HIDE DEF new
  <2> QED
    BY <2>1, <2>3, OneAccount
<1>3. ASSUME NEW q \in Players, NEW amount \in Amounts,
             request_withdraw(q, amount) \/ buy_tickets(q, amount)
      PROVE  Spared
  BY <1>3 DEF request_withdraw, buy_tickets
<1>4. ASSUME NEW q \in Players, process_withdraw(q) \/ emergency_withdraw(q)
      PROVE  Spared
  <2>1. players[q] \in PlayerRec
    BY DEF TypeOK
  <2>2. process_withdraw(q) => players[q].live
    BY <2>1 DEF process_withdraw, Seated, PlayerRec
  <2> QED
    BY <1>4, <2>2 DEF process_withdraw, emergency_withdraw, TypeOK
<1>5. CASE GrantNext
  <2>1. PICK s \in Keys, q \in Players, amount \in Amounts : grant_tickets(s, q, amount)
    BY <1>5 DEF GrantNext
  <2>2. players[q].live /\ \E new : players' = [players EXCEPT ![q] = new]
    BY <2>1 DEF grant_tickets, grant_tickets_operator, grant_tickets_admin
  <2> QED
    BY <2>2
<1>6. ASSUME NEW e \in EpochIds, NEW q \in Players, register(e, q)
      PROVE  Spared
  BY <1>6 DEF register
<1>7. ASSUME NEW e \in EpochIds, NEW q \in Players, payout(e, q)
      PROVE  Spared
  <2>1. players[q].reg_epoch # 0
    BY <1>7 DEF payout, IsWinner, EpochIds
  <2> QED
    BY <1>7, <2>1 DEF payout, Seated
<1>8. ASSUME NEW q \in Owners, NEW r \in RoundIds,
             \/ \E tiles \in SUBSET Tiles, stake \in Stakes : buy_position(q, r, tiles, stake)
             \/ settle_position(q, r)
      PROVE  Spared
  <2>1. q \in Players /\ players[q].live
    BY <1>8 DEF buy_position, settle_position, Seated, Players
  <2> QED
    BY <1>8, <2>1 DEF buy_position, settle_position
<1>9. ASSUME NEW r \in RoundIds, NEW tile \in Tiles, settle_round(r, tile)
      PROVE  Spared
  BY <1>9 DEF settle_round, Seated, Players
<1>10. CASE Tick \/ AdminNext \/ TreasuryNext \/ FundingNext \/ OperatorEpochNext \/ UNCHANGED vars
  BY <1>10 DEF Tick, AdminNext, set_params, set_pause, set_feature_pause, shutdown, set_operator,
               propose_admin, accept_admin, TreasuryNext, admin_withdraw, return_principal,
               sweep_house, FundingNext, fund_jackpot, fund_yield, OperatorEpochNext,
               begin_epoch, close_registration, vars
<1>11. ASSUME NEW e \in EpochIds,
              \/ \E target \in 0..(epochs[e].registered_weight - 1) : draw(e, target)
              \/ rollover_epoch(e) \/ FulfillEpoch(e)
       PROVE  Spared
  BY <1>11 DEF draw, rollover_epoch, FulfillEpoch
<1>12. CASE RoundsNext
  <2>1. ASSUME NEW s, NEW starts_at, create_round(s, starts_at) PROVE Spared
    BY <2>1 DEF create_round
  <2>2. ASSUME NEW r \in RoundIds,
               \/ request_round_randomness(r) \/ FulfillRound(r) \/ void_round(r)
               \/ close_round(r)
        PROVE  Spared
    BY <2>2 DEF request_round_randomness, FulfillRound, void_round, close_round
  <2> HIDE DEF Spared
  <2> QED
    BY <1>1, <1>8, <1>9, <1>12, <2>1, <2>2
    DEF RoundsNext, OperatorRoundNext, PlayNext, AnyoneRoundNext
<1>13. CASE DepositorNext
  <2> HIDE DEF Spared
  <2> QED
    BY <1>1, <1>2, <1>3, <1>4, <1>13 DEF DepositorNext
<1>14. CASE AnyoneEpochNext
  <2> HIDE DEF Spared
  <2> QED
    BY <1>1, <1>6, <1>7, <1>11, <1>14 DEF AnyoneEpochNext
<1> HIDE DEF Spared
<1> QED
  BY <1>1, <1>5, <1>10, <1>12, <1>13, <1>14 DEF Next, CustodyNext, EpochsNext

\* Which positions a step may add: a staker's own.
LEMMA NextStakes ==
  ASSUME TypeOK, [Next]_vars
  PROVE  \/ Staking
         \/ \A r \in RoundIds, p \in Owners :
              positions'[r][p].tiles = positions[r][p].tiles \/ positions'[r][p].tiles = {}
<1>1. CASE Tick \/ UNCHANGED vars
  BY <1>1 DEF Tick, vars
<1>2. CustodyNext => positions' = positions
  BY DEF CustodyNext, AdminNext, set_params, set_pause, set_feature_pause, shutdown,
         set_operator, propose_admin, accept_admin, DepositorNext, deposit, request_withdraw,
         buy_tickets, process_withdraw, emergency_withdraw, TreasuryNext, admin_withdraw,
         return_principal, sweep_house, GrantNext, grant_tickets, grant_tickets_operator,
         grant_tickets_admin
<1>3. EpochsNext => positions' = positions
  BY DEF EpochsNext, OperatorEpochNext, AnyoneEpochNext, FundingNext, begin_epoch,
         close_registration, register, payout, draw, rollover_epoch, FulfillEpoch, fund_jackpot,
         fund_yield
<1>4. ASSUME NEW q \in Owners, NEW x \in RoundIds, settle_position(q, x),
             NEW r \in RoundIds, NEW p \in Owners
      PROVE  positions'[r][p].tiles = positions[r][p].tiles \/ positions'[r][p].tiles = {}
  <2>1. positions' = [positions EXCEPT ![x][q] = NoPosition]
    BY <1>4 DEF settle_position
  <2> QED
    BY <2>1 DEF TypeOK, NoPosition
<1>5. CASE OperatorRoundNext \/ AnyoneRoundNext
  BY <1>5 DEF OperatorRoundNext, create_round, AnyoneRoundNext, request_round_randomness,
              FulfillRound, settle_round, void_round, close_round
<1> QED
  BY <1>1, <1>2, <1>3, <1>4, <1>5 DEF Next, RoundsNext, PlayNext, Staking

\* An account that is not there yet is created before it is drawn for, stakes
\* or requests.
LEMMA NextSeated ==
  ASSUME TypeOK, TypeOK', Seated, [Next]_vars
  PROVE  Seated'
<1>1. ASSUME NEW p \in Players, ~players'[p].live
      PROVE  /\ players'[p].reg_epoch = 0 /\ players'[p].pending_withdraw = 0
             /\ ~players[p].live
  <2>1. ~players[p].live
    BY <1>1, NextLive
  <2>2. players'[p] = players[p]
    BY <1>1, <2>1, NextCreates
  <2> QED
    BY <2>1, <2>2 DEF Seated
<1>2. ASSUME NEW r \in RoundIds, NEW p \in Owners, positions'[r][p].tiles # {}
      PROVE  players'[p].live
  <2>1. p \in Players
    BY DEF Players
  <2>2. players[p].live
    <3>1. CASE positions[r][p].tiles # {}
      BY <3>1 DEF Seated
    <3>2. CASE positions[r][p].tiles = {}
      <4>1. PICK q \in Owners, x \in RoundIds, tiles \in SUBSET Tiles, stake \in Stakes :
              buy_position(q, x, tiles, stake)
        BY <1>2, <3>2, NextStakes DEF Staking
      <4>2. players[q].live
            /\ positions' = [positions EXCEPT ![x][q] = [tiles |-> tiles, stake_per_tile |-> stake]]
        BY <4>1 DEF buy_position
      <4>3. q = p
        BY <1>2, <3>2, <4>2 DEF TypeOK
      <4> QED
        BY <4>2, <4>3
    <3> QED
      BY <3>1, <3>2
  <2> QED
    BY <2>1, <2>2, NextLive
<1>3. players'[House].live
  BY NextLive DEF Seated, Players
<1> QED
  BY <1>1, <1>2, <1>3 DEF Seated

\* A Player's account at rest, or settled first, with its accumulators and the
\* Weight its stake is credited with.
Earns(plr, new, ahead) ==
  \/ Resting(plr, new) /\ ahead = 0
  \/ \E base \in {plr, init_if_fresh(plr)} :
       LET t == touch(base, pool, now) IN
       /\ base.live /\ new.live /\ SameSlots(t, new)
       /\ new.weight_acc = t.weight_acc + ahead /\ new.last_update = t.last_update

\* Nobody is credited ahead of time but the one who stakes.
LEMMA StakeEarns ==
  ASSUME TypeOK, NEW p \in Owners, NEW r \in RoundIds, NEW tiles \in SUBSET Tiles,
         NEW stake \in Stakes, buy_position(p, r, tiles, stake)
  PROVE  /\ EarnedAhead(p) \in Nat /\ Earns(players[p], players'[p], EarnedAhead(p))
         /\ \A q \in Players \ {p} : EarnedAhead(q) = 0 /\ players'[q] = players[q]
<1> DEFINE plr   == players[p]
           t     == touch(plr, pool, now)
           total == stake * Cardinality(tiles)
           ahead == weight_of(total, rounds[r].ends_at - now)
           a     == t.weight_acc + ahead
           b     == t.entries - total
           new   == [t EXCEPT !.weight_acc = a, !.entries = b]
<1>1. /\ plr.live /\ positions[r][p].tiles = {} /\ tiles # {} /\ rounds[r].ends_at >= now
      /\ players' = [players EXCEPT ![p] = new]
      /\ positions' = [positions EXCEPT ![r][p] = [tiles |-> tiles, stake_per_tile |-> stake]]
  BY DEF buy_position
<1>2. p \in Players /\ plr \in PlayerRec /\ t \in PlayerRec /\ t.live
  <2>1. p \in Players /\ plr \in PlayerRec
    BY DEF Players, TypeOK
  <2> QED
    BY <1>1, <2>1, TouchKeeps DEF Kept
<1>3. ahead \in Nat
  <2>1. IsFiniteSet(tiles)
    BY FS_Subset, BoardAssumption
  <2>2. Cardinality(tiles) \in Nat /\ stake \in Nat
    BY <2>1, FS_CardinalityType, AmountsAssumption
  <2>3. total \in Nat
    BY <2>2, NatProduct
  <2>4. rounds[r].ends_at - now \in Nat
    BY <1>1 DEF TypeOK, RoundRec
  <2> HIDE DEF total
  <2> QED
    BY <2>3, <2>4, NatProduct DEF weight_of
<1>4. positions'[r][p] = [tiles |-> tiles, stake_per_tile |-> stake]
      /\ \A x \in RoundIds, q \in Owners : (x # r \/ q # p) => positions'[x][q] = positions[x][q]
  BY <1>1 DEF TypeOK
<1>5. StakedIn(p) = {r}
  BY <1>1, <1>4 DEF StakedIn
<1>6. EarnedAhead(p) = ahead
  <2>1. (CHOOSE x \in {r} : TRUE) = r
    OBVIOUS
  <2> QED
    BY <1>4, <1>5, <2>1 DEF EarnedAhead
<1>7. ASSUME NEW q \in Players \ {p}
      PROVE  EarnedAhead(q) = 0 /\ players'[q] = players[q]
  <2>1. StakedIn(q) = {}
    BY <1>4 DEF StakedIn
  <2> QED
    BY <1>1, <1>2, <2>1, OneAccount DEF EarnedAhead
<1>8. players'[p] = new
  BY <1>1, <1>2, OneAccount
<1>9. t = touch(plr, pool, now)
  OBVIOUS
<1> HIDE DEF t, ahead, a, b
<1>10. /\ SameSlots(t, new) /\ new.weight_acc = a /\ new.last_update = t.last_update
       /\ new.live = t.live
  BY <1>2 DEF SameSlots, PlayerRec
<1> HIDE DEF new, plr
<1>11. Earns(plr, new, ahead)
  BY <1>1, <1>2, <1>9, <1>10 DEF Earns, a, plr
<1> QED
  BY <1>3, <1>6, <1>7, <1>8, <1>11 DEF plr

\* No step writes a Player in any other way.
LEMMA NextEarns ==
  ASSUME TypeOK, Seated, [Next]_vars, NEW p \in Players
  PROVE  EarnedAhead(p) \in Nat /\ Earns(players[p], players'[p], EarnedAhead(p))
<1> DEFINE plr == players[p]
           any == players'[p]
<1>0. Resting(plr, plr)
  BY DEF Resting, SameSlots
<1>1. CASE Staking
  <2>1. PICK q \in Owners, r \in RoundIds, tiles \in SUBSET Tiles, stake \in Stakes :
          buy_position(q, r, tiles, stake)
    BY <1>1 DEF Staking
  <2>2. CASE p = q
    BY <2>1, <2>2, StakeEarns
  <2>3. CASE p # q
    BY <1>0, <2>1, <2>3, StakeEarns DEF Earns
  <2> QED
    BY <2>2, <2>3
<1>2. CASE ~Staking
  <2>1. EarnedAhead(p) = 0
    BY <1>2, NextStakes DEF EarnedAhead, StakedIn
  <2>2. Resting(plr, any) \/ Settled(plr, any)
    <3>1. CASE players'[p] = players[p]
      BY <1>0, <3>1
    <3>2. CASE players'[p] # players[p]
      <4>0. PICK q \in Players : \E new :
              players' = [players EXCEPT ![q] = new] /\ Written(players[q], new)
        BY <3>2, NextWrites
      <4>1. PICK new : players' = [players EXCEPT ![q] = new] /\ Written(players[q], new)
        BY <4>0
      <4>2. q = p /\ players'[p] = new
        BY <3>2, <4>1, OneAccount
      <4> QED
        BY <4>1, <4>2 DEF Written
    <3> QED
      BY <3>1, <3>2
  <2>3. plr.live \/ any.live \/ Resting(plr, any)
    BY <1>0, NextCreates
  <2>4. ASSUME Settled(plr, any), plr.live \/ any.live PROVE Earns(plr, any, 0)
    <3>1. PICK base \in {plr, init_if_fresh(plr)} :
            /\ SameSlots(touch(base, pool, now), any)
            /\ SameAccrual(touch(base, pool, now), any)
      BY <2>4 DEF Settled
    <3> DEFINE t == touch(base, pool, now)
    <3>2. plr \in PlayerRec /\ base \in PlayerRec
      BY FreshType DEF TypeOK
    <3>3. t \in PlayerRec /\ t.live = base.live
      BY <3>2, TouchKeeps DEF Kept
    <3>4. any.live = base.live /\ any.weight_acc = t.weight_acc /\ any.last_update = t.last_update
      BY <1>2, <3>1, <3>3 DEF SameSlots, SameAccrual
    <3>5. base.live
      BY <2>4, <3>4 DEF init_if_fresh
    <3>6. t.weight_acc + 0 = t.weight_acc
      BY <3>3 DEF PlayerRec
    <3> QED
      BY <3>1, <3>4, <3>5, <3>6 DEF Earns
  <2> HIDE DEF plr, any
  <2>5. Earns(plr, any, 0)
    BY <2>2, <2>3, <2>4 DEF Earns
  <2> QED
    BY <2>1, <2>5 DEF plr, any
<1> QED
  BY <1>1, <1>2

\* A Player created after an epoch earned nothing in it.
UnseenBlank ==
  LET e == pool.current_epoch_id - 1 IN
  e > 0 => \A p \in Players :
             (players[p].live => ~FrozenSlotMatches(players[p], e)) => eager[e][p] = 0

\* The reference and the accounts agree; an account nobody created is blank.
EagerKept ==
  /\ eager \in [0..MaxEpoch -> [Players -> Int]]
  /\ pool.current_epoch_start <= now
  /\ \A p \in Players :
       /\ players[p].last_update <= now
       /\ ~players[p].live =>
            /\ players[p].principal = 0 /\ players[p].entries = 0
            /\ players[p].weight_acc = 0 /\ players[p].frozen_epoch = 0
            /\ eager[pool.current_epoch_id][p] = 0
  /\ UnseenBlank /\ \A p \in Players : players[p].live => SettledWeightExact(p)

\* The facts about the pool and one Player that accrual rests on.
LEMMA AccrualTypes ==
  ASSUME TypeOK, PeriodsKnown, NEW p \in Players
  PROVE  /\ players[p] \in PlayerRec /\ pool \in PoolRec /\ now \in Nat
         /\ pool.current_epoch_id \in Nat /\ pool.current_epoch_id \in 0..MaxEpoch
         /\ players[p].epoch_id \in Nat /\ players[p].epoch_id <= pool.current_epoch_id
         /\ players[p].last_update \in Int /\ players[p].weight_acc \in Nat
         /\ players[p].entries \in Nat /\ players[p].principal \in Nat
         /\ pool.current_epoch_start \in Int /\ pool.current_epoch_ends_at \in Int
<1>1. players[p] \in PlayerRec /\ pool \in PoolRec /\ now \in Nat
  BY DEF TypeOK
<1>2. pool.current_epoch_id \in Nat /\ pool.current_epoch_id <= MaxEpoch
  BY DEF TypeOK, PoolRec, PeriodsKnown
<1>3. players[p].epoch_id <= pool.current_epoch_id
  BY DEF PeriodsKnown
<1> QED
  BY <1>1, <1>2, <1>3, BoundsAssumption DEF PlayerRec, PoolRec

\* A second passes: what touch would leave grows by the Entries held, until
\* the epoch ends.
LEMMA TickExact ==
  ASSUME TypeOK, PeriodsKnown, EagerKept, Tick, CountEagerly
  PROVE  EagerKept'
<1> PICK c \in Nat : c = pool.current_epoch_id
  BY DEF TypeOK, PoolRec
<1>1. /\ now' = now + 1 /\ pool' = pool /\ players' = players /\ epochs' = epochs
      /\ now \in Nat
  BY DEF Tick, TypeOK
<1>2. c \in 0..MaxEpoch
  BY BoundsAssumption DEF PeriodsKnown
<1>3. \A p \in Players : EntriesNow(p) \in Nat
  BY PlayerTouchType DEF EntriesNow, PlayerRec
<1>4. /\ eager' \in [0..MaxEpoch -> [Players -> Int]]
      /\ \A e \in (0..MaxEpoch) \ {c} : eager'[e] = eager[e]
      /\ \A p \in Players :
           eager'[c][p] = eager[c][p] + (IF SecondCounts THEN EntriesNow(p) ELSE 0)
  <2> DEFINE row == [p \in Players |-> eager[c][p] + EntriesNow(p)]
  <2>1. eager \in [0..MaxEpoch -> [Players -> Int]]
    BY DEF EagerKept
  <2>2. eager' = IF SecondCounts THEN [eager EXCEPT ![c] = row] ELSE eager
    BY <1>1 DEF CountEagerly
  <2>3. row \in [Players -> Int] /\ \A p \in Players : row[p] = eager[c][p] + EntriesNow(p)
    BY <1>2, <1>3, <2>1
  <2> HIDE DEF row
  <2>4. \A p \in Players : eager[c][p] \in Int
    BY <1>2, <2>1
  <2> QED
    BY <1>2, <2>1, <2>2, <2>3, <2>4
<1>5. ASSUME NEW p \in Players, ~players[p].live
      PROVE  eager'[c][p] = 0
  <2>1. /\ players[p].principal = 0 /\ players[p].entries = 0 /\ eager[c][p] = 0
        /\ players[p] \in PlayerRec
    BY <1>5 DEF EagerKept, TypeOK
  <2>2. EntriesNow(p) = 0
    BY <2>1 DEF EntriesNow, touch, TouchSameEpoch, TouchNewEpoch, PlayerRec
  <2> QED
    BY <1>4, <2>1, <2>2
<1>6. ASSUME NEW p \in Players, players[p].live, c > 0
      PROVE  touch(players[p], pool, now + 1).weight_acc = eager'[c][p]
  <2> DEFINE plr == players[p]
             end == pool.current_epoch_ends_at
             start == pool.current_epoch_start
  <2>1. /\ plr \in PlayerRec /\ pool \in PoolRec /\ plr.epoch_id <= c
        /\ plr.last_update \in Int /\ plr.weight_acc \in Nat /\ end \in Int /\ start \in Int
        /\ plr.entries \in Nat /\ plr.principal \in Nat
        /\ plr.last_update <= now /\ start <= now
    BY AccrualTypes DEF EagerKept
  <2>2. touch(plr, pool, now).weight_acc = eager[c][p]
    BY <1>6 DEF EagerKept, SettledWeightExact
  <2>3. EntriesNow(p) = touch(plr, pool, now).entries /\ (SecondCounts <=> now < end)
    BY <1>6 DEF EntriesNow, SecondCounts
  <2> HIDE DEF plr, end, start
  <2>4. end = pool.current_epoch_ends_at /\ start = pool.current_epoch_start
    BY DEF end, start
  <2>5. now \in Int /\ now + 1 \in Int /\ eager[c][p] \in Int
    BY <1>1, <1>2 DEF EagerKept
  <2>6. ASSUME plr.epoch_id = c PROVE touch(plr, pool, now + 1).weight_acc = eager'[c][p]
    <3> DEFINE x == plr.entries * elapsed(plr.last_update, MinOf(now, end))
               y == plr.entries * elapsed(plr.last_update, MinOf(now + 1, end))
    <3>1. y = x + (IF now < end THEN plr.entries ELSE 0)
      <4>1. /\ plr.entries \in Int /\ end \in Int /\ now \in Int
            /\ plr.last_update \in Int /\ plr.last_update <= now
        BY <2>1, <2>5
      <4> QED
        BY <4>1, SecondPasses
    <3>2. /\ touch(plr, pool, now).weight_acc = plr.weight_acc + x
          /\ touch(plr, pool, now).entries = plr.entries
          /\ touch(plr, pool, now + 1).weight_acc = plr.weight_acc + y
      BY <1>6, <2>1, <2>4, <2>5, <2>6, TouchAt
    <3>3. x \in Int
      BY <2>1, <2>5 DEF elapsed, MinOf
    <3> HIDE DEF x, y
    <3>4. eager'[c][p] = eager[c][p] + (IF now < end THEN plr.entries ELSE 0)
      BY <1>4, <2>3, <3>2
    <3>5. plr.weight_acc \in Int /\ plr.entries \in Int
      BY <2>1
    <3>6. y \in Int
      BY <3>1, <3>3, <3>5
    <3> HIDE DEF plr
    <3>7. plr.weight_acc + x = eager[c][p]
      BY <2>2, <3>2
    <3>8. plr.weight_acc + y = eager'[c][p]
      BY <3>1, <3>3, <3>4, <3>5, <3>6, <3>7
    <3> QED
      BY <3>2, <3>8
  <2>7. ASSUME plr.epoch_id # c PROVE touch(plr, pool, now + 1).weight_acc = eager'[c][p]
    <3> DEFINE x == plr.principal * elapsed(start, MinOf(now, end))
               y == plr.principal * elapsed(start, MinOf(now + 1, end))
    <3>1. y = x + (IF now < end THEN plr.principal ELSE 0)
      <4>1. /\ plr.principal \in Int /\ end \in Int /\ now \in Int
            /\ start \in Int /\ start <= now
        BY <2>1, <2>5
      <4> QED
        BY <4>1, SecondPasses
    <3>2. /\ touch(plr, pool, now).weight_acc = x
          /\ touch(plr, pool, now).entries = plr.principal
          /\ touch(plr, pool, now + 1).weight_acc = y
      BY <1>6, <2>1, <2>4, <2>5, <2>7, TouchAt
    <3> HIDE DEF x, y
    <3> QED
      BY <1>4, <2>1, <2>2, <2>3, <2>5, <3>1, <3>2
  <2>8. touch(plr, pool, now + 1).weight_acc = eager'[c][p]
    BY <2>6, <2>7
  <2> QED
    BY <2>8 DEF plr
<1>7. ASSUME NEW p \in Players, players[p].live, c > 1, FrozenSlotMatches(players[p], c - 1)
      PROVE  EpochWeight(players[p], c - 1, epochs[c - 1]) = eager'[c - 1][p]
  <2>1. c - 1 \in (0..MaxEpoch) \ {c}
    BY <1>2, <1>7, BoundsAssumption
  <2> QED
    BY <1>4, <1>7, <2>1 DEF EagerKept, SettledWeightExact
<1>8. \A p \in Players : players'[p].live => SettledWeightExact(p)'
  BY <1>1, <1>6, <1>7 DEF SettledWeightExact
<1>9. pool'.current_epoch_start <= now' /\ \A p \in Players : players'[p].last_update <= now'
  <2> SUFFICES ASSUME NEW p \in Players
               PROVE  pool.current_epoch_start <= now + 1 /\ players[p].last_update <= now + 1
    BY <1>1 DEF EagerKept, TypeOK, PoolRec
  <2> QED
    BY <1>1, AccrualTypes DEF EagerKept
<1>10. UnseenBlank'
  <2> SUFFICES ASSUME NEW p \in Players, c - 1 > 0,
                      players[p].live => ~FrozenSlotMatches(players[p], c - 1)
               PROVE  eager'[c - 1][p] = 0
    BY <1>1 DEF UnseenBlank
  <2>1. c - 1 \in (0..MaxEpoch) \ {c}
    BY <1>2, BoundsAssumption
  <2>2. eager[c - 1][p] = 0
    BY DEF EagerKept, UnseenBlank
  <2> QED
    BY <1>4, <2>1, <2>2
<1> QED
  BY <1>1, <1>4, <1>5, <1>8, <1>9, <1>10 DEF EagerKept

\* The grid point after the one an instant lies in is past it.
LEMMA GridAfter ==
  ASSUME NEW a \in Int, NEW d \in Int, d > 0, NEW t \in Int
  PROVE  grid_floor(a, d, t) \in Int /\ t < grid_floor(a, d, t) + d
<1> DEFINE q == (t - a) \div d
<1>1. q \in Int /\ t - a < d * q + d
  OBVIOUS
<1>2. q * d = d * q /\ q * d \in Int
  BY <1>1
<1>3. grid_floor(a, d, t) = a + q * d
  BY DEF grid_floor
<1> HIDE DEF q
<1> QED
  BY <1>1, <1>2, <1>3

\* From a grid point on, the floor is at least that point.
LEMMA GridMonotone ==
  ASSUME NEW a \in Int, NEW d \in Int, d > 0, NEW t \in Int, NEW u \in Int,
         grid_floor(a, d, t) <= u
  PROVE  grid_floor(a, d, t) <= grid_floor(a, d, u)
<1> DEFINE q == (t - a) \div d
           r == (u - a) \div d
<1>1. q \in Int /\ r \in Int /\ u - a < d * r + d
  OBVIOUS
<1>2. grid_floor(a, d, t) = a + q * d /\ grid_floor(a, d, u) = a + r * d
  BY DEF grid_floor
<1> HIDE DEF q, r
<1>3. CASE q <= r
  <2>1. (r - q) \in Nat /\ d \in Nat
    BY <1>1, <1>3
  <2>2. (r - q) * d \in Nat
    BY <2>1, NatProduct
  <2>3. r * d = q * d + (r - q) * d /\ q * d \in Int
    BY <1>1
  <2> QED
    BY <1>1, <1>2, <2>2, <2>3
<1>4. CASE ~(q <= r)
  <2>1. (q - r - 1) \in Nat /\ d \in Nat
    BY <1>1, <1>4
  <2>2. (q - r - 1) * d \in Nat
    BY <2>1, NatProduct
  <2>3. /\ q * d = r * d + d + (q - r - 1) * d
        /\ r * d \in Int /\ r * d = d * r
    BY <1>1
  <2>4. u < a + r * d + d
    BY <1>1, <2>3
  <2> QED
    BY <1>1, <1>2, <2>2, <2>3, <2>4
<1> QED
  BY <1>1, <1>3, <1>4

\* An epoch that begins ends later, however late it begins.
LEMMA BeginEndsLater ==
  ASSUME TypeOK, ValidParams(params), NEW s \in Keys, begin_epoch(s)
  PROVE  NextStartsAt <= now /\ now < NextEndsAt /\ NextStartsAt \in Int /\ NextEndsAt \in Int
<1> DEFINE a == params.epoch_anchor
           d == params.epoch_seconds
           g == grid_floor(a, d, now)
           h == grid_floor(a, d, NextStartsAt)
<1>1. a \in Int /\ d \in Int /\ d > 0 /\ now \in Int
  BY DEF ValidParams, ParamRec, TypeOK
<1>2. NextStartsAt \in Int /\ NextStartsAt <= now /\ NextEndsAt \in Int
  BY BeginDates
<1>3. NextEndsAt = h + d
  BY DEF NextEndsAt
<1>4. h \in Int /\ NextStartsAt < h + d /\ g \in Int /\ now < g + d
  BY <1>1, <1>2, GridAfter
<1>5. CASE pool.current_epoch_id = 0
  BY <1>2, <1>3, <1>4, <1>5 DEF NextStartsAt
<1>6. CASE pool.current_epoch_id # 0
  <2>1. pool.current_epoch_id \in EpochIds
    BY <1>6, BeginFrame DEF TypeOK, PoolRec
  <2>2. epochs[pool.current_epoch_id].ends_at \in Int
    BY <2>1 DEF TypeOK, EpochRec
  <2>3. g <= NextStartsAt
    BY <1>4, <1>6, <2>2 DEF NextStartsAt, MaxOf
  <2>4. g <= h
    BY <1>1, <1>2, <2>3, GridMonotone
  <2> HIDE DEF a, d, g, h
  <2> QED
    BY <1>1, <1>2, <1>3, <1>4, <2>4
<1> QED
  BY <1>5, <1>6

\* An epoch begins: the ended one owes what touch would have left, and the new
\* one starts with the seconds already gone.
LEMMA BeginExact ==
  ASSUME TypeOK, TypeOK', ValidParams(params), PeriodsKnown, EagerKept,
         NEW s \in Keys, begin_epoch(s), CountEagerly
  PROVE  EagerKept'
<1> PICK c \in Nat : c = pool.current_epoch_id
  BY DEF TypeOK, PoolRec
<1>1. /\ players' = players /\ now' = now /\ now \in Nat
      /\ c > 0 => now >= epochs[c].ends_at
  BY DEF begin_epoch, TypeOK
<1>2. /\ c + 1 \in EpochIds /\ (c > 0 => c \in EpochIds) /\ pool'.current_epoch_id = c + 1
      /\ pool'.current_epoch_start = NextStartsAt /\ pool'.current_epoch_ends_at = NextEndsAt
      /\ c > 0 => /\ epochs'[c].starts_at = epochs[c].starts_at
                  /\ epochs'[c].ends_at = epochs[c].ends_at
  BY BeginFrame
<1>3. /\ NextStartsAt <= now /\ now < NextEndsAt
      /\ NextStartsAt \in Int /\ NextEndsAt \in Int
  BY BeginEndsLater
<1>4. c \in 0..MaxEpoch /\ c + 1 \in 0..MaxEpoch /\ c # c + 1
  BY <1>2, BoundsAssumption DEF PeriodsKnown, EpochIds
<1>5. /\ eager' \in [0..MaxEpoch -> [Players -> Int]]
      /\ eager'[c] = eager[c]
      /\ \A p \in Players :
           eager'[c + 1][p] = players[p].principal * elapsed(NextStartsAt, now)
  <2> DEFINE row == [p \in Players |-> weight_of(players[p].principal, elapsed(NextStartsAt, now))]
  <2>1. eager \in [0..MaxEpoch -> [Players -> Int]]
    BY DEF EagerKept
  <2>2. eager' = [eager EXCEPT ![c + 1] = row]
    BY <1>1, <1>2, <1>4 DEF CountEagerly
  <2>3. /\ row \in [Players -> Int]
        /\ \A p \in Players : row[p] = players[p].principal * elapsed(NextStartsAt, now)
    <3>1. \A p \in Players : weight_of(players[p].principal, elapsed(NextStartsAt, now)) \in Int
      <4> TAKE p \in Players
      <4>1. players[p].principal \in Nat /\ now \in Int
        BY <1>1 DEF TypeOK, PlayerRec
      <4>2. weight_of(players[p].principal, elapsed(NextStartsAt, now)) \in Nat
        BY <1>3, <4>1, WeightNat
      <4> QED
        BY <4>2
    <3> QED
      BY <3>1 DEF weight_of
  <2> HIDE DEF row
  <2> QED
    BY <1>4, <2>1, <2>2, <2>3
<1>6. ASSUME NEW p \in Players
      PROVE  touch(players[p], pool', now).weight_acc = eager'[c + 1][p]
  <2>1. players[p] \in PlayerRec /\ pool' \in PoolRec /\ now \in Int /\ players[p].epoch_id < c + 1
        /\ players[p].epoch_id \in Nat
    BY <1>1, AccrualTypes DEF TypeOK
  <2>2. touch(players[p], pool', now).weight_acc =
          players[p].principal * elapsed(NextStartsAt, MinOf(now, NextEndsAt))
    BY <1>2, <2>1, TouchAt
  <2>3. MinOf(now, NextEndsAt) = now
    BY <1>1, <1>3 DEF MinOf
  <2> QED
    BY <1>5, <2>2, <2>3
<1>7. ASSUME NEW p \in Players, players[p].live, c + 1 > 1
      PROVE  EpochWeight(players[p], c, epochs'[c]) = eager'[c][p]
  <2>1. /\ players[p] \in PlayerRec /\ pool \in PoolRec /\ now \in Int /\ c > 0
        /\ players[p].epoch_id <= c /\ players[p].epoch_id \in Nat
    BY <1>1, <1>7, AccrualTypes
  <2>2. /\ epochs'[c].starts_at = pool.current_epoch_start
        /\ epochs'[c].ends_at = pool.current_epoch_ends_at
        /\ pool.current_epoch_ends_at <= now /\ pool.current_epoch_ends_at \in Int
    BY <1>1, <1>2, <2>1 DEF PeriodsKnown, PoolRec
  <2>3. touch(players[p], pool, now).weight_acc = eager[c][p]
    BY <1>7, <2>1 DEF EagerKept, SettledWeightExact
  <2>4. MinOf(now, pool.current_epoch_ends_at) = pool.current_epoch_ends_at
    BY <2>1, <2>2 DEF MinOf
  <2>5. touch(players[p], pool, now).weight_acc = EpochWeight(players[p], c, epochs'[c])
    <3>1. CASE players[p].epoch_id = c
      BY <2>1, <2>2, <2>4, <3>1, TouchAt DEF EpochWeight, weight_of
    <3>2. CASE players[p].epoch_id # c
      BY <2>1, <2>2, <2>4, <3>2, TouchAt DEF EpochWeight, weight_of
    <3> QED
      BY <3>1, <3>2
  <2> QED
    BY <1>5, <2>3, <2>5
<1>8. \A p \in Players : players'[p].live => SettledWeightExact(p)'
  <2>1. c + 1 - 1 = c
    OBVIOUS
  <2> QED
    BY <1>1, <1>2, <1>6, <1>7, <2>1 DEF SettledWeightExact
<1>9. ASSUME NEW p \in Players, ~players[p].live
      PROVE  eager'[c + 1][p] = 0
  <2>1. players[p].principal = 0
    BY <1>9 DEF EagerKept
  <2>2. elapsed(NextStartsAt, now) \in Nat
    <3>1. now \in Int
      BY <1>1
    <3> QED
      BY <1>3, <3>1, ElapsedNat
  <2> QED
    BY <1>5, <2>1, <2>2
<1>10. UnseenBlank'
  <2> SUFFICES ASSUME NEW p \in Players, c > 0,
                      players[p].live => ~FrozenSlotMatches(players[p], c)
               PROVE  eager'[c][p] = 0
    <3>1. c + 1 - 1 = c
      OBVIOUS
    <3> QED
      BY <1>1, <1>2, <3>1 DEF UnseenBlank
  <2>1. players[p].epoch_id <= c /\ players[p].epoch_id \in Nat
    BY AccrualTypes
  <2>2. ~players[p].live
    BY <2>1 DEF FrozenSlotMatches
  <2> QED
    BY <1>5, <2>2 DEF EagerKept
<1> QED
  BY <1>1, <1>2, <1>3, <1>5, <1>8, <1>9, <1>10 DEF EagerKept

\* What accrual knows of a Player written this way.
LEMMA EarnsExact ==
  ASSUME TypeOK, TypeOK', PeriodsKnown, EagerKept, SamePeriods, NEW p \in Players,
         NEW new \in PlayerRec, NEW ahead \in Nat, Earns(players[p], new, ahead)
  PROVE  /\ new.last_update <= now
         /\ ~new.live => /\ new.principal = 0 /\ new.entries = 0
                         /\ new.weight_acc = 0 /\ new.frozen_epoch = 0
                         /\ ~players[p].live /\ ahead = 0
         /\ new.live => /\ pool.current_epoch_id > 0 =>
                             touch(new, pool', now).weight_acc
                               = eager[pool.current_epoch_id][p] + ahead
                        /\ LET e == pool.current_epoch_id - 1 IN
                           (e > 0 /\ FrozenSlotMatches(new, e)) =>
                              players[p].live /\ FrozenSlotMatches(players[p], e)
<1> DEFINE plr == players[p]
           end == pool.current_epoch_ends_at
<1> PICK c \in Nat : c = pool.current_epoch_id
  BY DEF TypeOK, PoolRec
<1>1. /\ plr \in PlayerRec /\ pool \in PoolRec /\ now \in Int /\ end \in Int
      /\ plr.epoch_id <= c /\ plr.epoch_id \in Nat /\ plr.last_update \in Int
      /\ plr.last_update <= now
      /\ ~plr.live => /\ plr.principal = 0 /\ plr.entries = 0 /\ plr.weight_acc = 0
                      /\ plr.frozen_epoch = 0 /\ eager[c][p] = 0
      /\ (plr.live /\ c > 0) => touch(plr, pool, now).weight_acc = eager[c][p]
  BY AccrualTypes DEF EagerKept, SettledWeightExact
<1>2. /\ pool' \in PoolRec /\ pool'.current_epoch_id = c
      /\ pool'.current_epoch_start = pool.current_epoch_start
      /\ pool'.current_epoch_ends_at = end
  BY DEF SamePeriods, TypeOK
<1>3. plr = players[p] /\ end = pool.current_epoch_ends_at /\ eager[c][p] \in Int
  <2>1. c \in 0..MaxEpoch
    BY BoundsAssumption DEF PeriodsKnown
  <2> QED
    BY <2>1 DEF EagerKept
<1> HIDE DEF plr, end
<1>4. CASE Resting(plr, new) /\ ahead = 0
  <2>1. /\ SameSlots(plr, new) /\ new.principal = plr.principal /\ new.entries = plr.entries
        /\ new.weight_acc = plr.weight_acc /\ new.last_update = plr.last_update
        /\ new.epoch_id = plr.epoch_id /\ new.frozen_epoch = plr.frozen_epoch
        /\ new.live = plr.live /\ eager[c][p] + ahead = eager[c][p]
    BY <1>3, <1>4 DEF Resting, SameSlots
  <2>2. c > 0 => touch(new, pool', now).weight_acc = touch(plr, pool, now).weight_acc
    <3> SUFFICES ASSUME c > 0
                 PROVE  touch(new, pool', now).weight_acc = touch(plr, pool, now).weight_acc
      OBVIOUS
    <3>1. CASE plr.epoch_id = c
      BY <1>1, <1>2, <1>3, <2>1, <3>1, TouchAt
    <3>2. CASE plr.epoch_id # c
      BY <1>1, <1>2, <1>3, <2>1, <3>2, TouchAt
    <3> QED
      BY <3>1, <3>2
  <2> QED
    BY <1>1, <1>3, <1>4, <2>1, <2>2 DEF FrozenSlotMatches
<1>5. CASE ~(Resting(plr, new) /\ ahead = 0)
  <2>1. PICK base \in {plr, init_if_fresh(plr)} :
          LET t == touch(base, pool, now) IN
          /\ base.live /\ new.live /\ SameSlots(t, new)
          /\ new.weight_acc = t.weight_acc + ahead /\ new.last_update = t.last_update
    BY <1>3, <1>5 DEF Earns
  <2> DEFINE t == touch(base, pool, now)
  <2>2. base \in PlayerRec /\ t \in PlayerRec
    BY <1>1, FreshType, TouchType
  <2>3. t.last_update = now
    BY <1>1, <2>2 DEF touch, TouchSameEpoch, TouchNewEpoch, PlayerRec
  <2>4. base.epoch_id <= c /\ base.epoch_id \in Nat
    <3>1. init_if_fresh(plr).epoch_id \in {plr.epoch_id, c}
      BY <1>1 DEF init_if_fresh, PlayerRec
    <3> QED
      BY <1>1, <2>1, <3>1
  <2>5. c > 0 => new.epoch_id = c
    BY <1>1, <2>1, <2>2, <2>4, TouchAt DEF SameSlots
  <2>6. c > 0 => t.weight_acc = eager[c][p]
    <3> SUFFICES ASSUME c > 0 PROVE t.weight_acc = eager[c][p]
      OBVIOUS
    <3>1. CASE plr.live
      BY <1>1, <2>1, <3>1 DEF init_if_fresh
    <3>2. CASE ~plr.live
      <4>1. base = [plr EXCEPT !.live = TRUE, !.last_update = now,
                               !.epoch_id = pool.current_epoch_id]
        BY <2>1, <3>2 DEF init_if_fresh
      <4>2. base.epoch_id = c /\ base.entries = 0 /\ base.weight_acc = 0
        BY <1>1, <3>2, <4>1 DEF PlayerRec
      <4>3. t.weight_acc = base.weight_acc
                            + base.entries * elapsed(base.last_update, MinOf(now, end))
        BY <1>1, <1>3, <2>2, <4>2, TouchAt
      <4>4. elapsed(base.last_update, MinOf(now, end)) \in Int
        BY <1>1, <2>2 DEF elapsed, MinOf, PlayerRec
      <4> QED
        BY <1>1, <3>2, <4>2, <4>3, <4>4
    <3> QED
      BY <3>1, <3>2
  <2>7. c > 0 => touch(new, pool', now).weight_acc = new.weight_acc
    <3> SUFFICES ASSUME c > 0 PROVE touch(new, pool', now).weight_acc = new.weight_acc
      OBVIOUS
    <3>1. elapsed(now, MinOf(now, end)) = 0
      BY <1>1 DEF elapsed, MinOf
    <3>2. new.epoch_id = c /\ new.last_update = now
      BY <2>1, <2>3, <2>5
    <3>3. touch(new, pool', now).weight_acc =
            new.weight_acc + new.entries * elapsed(now, MinOf(now, end))
      BY <1>1, <1>2, <3>2, TouchAt
    <3>4. new.entries \in Nat /\ new.weight_acc \in Nat
      BY DEF PlayerRec
    <3> QED
      BY <3>1, <3>3, <3>4
  <2>8. ASSUME NEW e, e = c - 1, e > 0, FrozenSlotMatches(new, e)
        PROVE  plr.live /\ FrozenSlotMatches(plr, e)
    <3>1. /\ c > 0 /\ c > e /\ new.epoch_id = c /\ new.frozen_epoch = e
          /\ t.frozen_epoch = e /\ e # 0
      BY <2>1, <2>5, <2>8 DEF FrozenSlotMatches, SameSlots
    <3>2. CASE plr.live
      <4>1. base = plr
        BY <2>1, <3>2 DEF init_if_fresh
      <4>2. CASE plr.epoch_id = c
        <5>1. SameSlots(plr, t)
          BY <1>1, <3>1, <4>1, <4>2, TouchAt
        <5> QED
          BY <3>1, <3>2, <5>1 DEF SameSlots, FrozenSlotMatches
      <4>3. CASE plr.epoch_id # c
        BY <1>1, <2>8, <3>2, <4>3 DEF FrozenSlotMatches
      <4> QED
        BY <4>2, <4>3
    <3>3. CASE ~plr.live
      <4>1. base = [plr EXCEPT !.live = TRUE, !.last_update = now,
                               !.epoch_id = pool.current_epoch_id]
        BY <2>1, <3>3 DEF init_if_fresh
      <4>2. base.epoch_id = c /\ base.frozen_epoch = 0
        BY <1>1, <3>3, <4>1 DEF PlayerRec
      <4>3. SameSlots(base, t)
        BY <1>1, <2>2, <3>1, <4>2, TouchAt
      <4> QED
        BY <3>1, <4>2, <4>3 DEF SameSlots
    <3> QED
      BY <3>2, <3>3
  <2> HIDE DEF t
  <2>9. new.live /\ new.weight_acc = t.weight_acc + ahead /\ new.last_update = t.last_update
    BY <2>1 DEF t
  <2>10. now <= now
    BY <1>1
  <2> QED
    BY <1>3, <2>3, <2>6, <2>7, <2>8, <2>9, <2>10
<1> QED
  BY <1>4, <1>5

\* Nothing done between two seconds moves the accounts away from the reference.
LEMMA ActExact ==
  ASSUME TypeOK, TypeOK', PeriodsKnown, Seated, EagerKept, [Next]_vars, SamePeriods,
         now' = now, CountEagerly
  PROVE  EagerKept'
<1> PICK c \in Nat : c = pool.current_epoch_id
  BY DEF TypeOK, PoolRec
<1>1. pool'.current_epoch_id = c /\ pool'.current_epoch_start = pool.current_epoch_start
  BY DEF SamePeriods
<1>2. c \in 0..MaxEpoch
  BY BoundsAssumption DEF PeriodsKnown
<1>3. /\ eager' \in [0..MaxEpoch -> [Players -> Int]]
      /\ \A e \in (0..MaxEpoch) \ {c} : eager'[e] = eager[e]
      /\ \A p \in Players : eager'[c][p] = eager[c][p] + EarnedAhead(p)
  <2> DEFINE row == [p \in Players |-> eager[c][p] + EarnedAhead(p)]
  <2>1. eager \in [0..MaxEpoch -> [Players -> Int]]
    BY DEF EagerKept
  <2>2. eager' = [eager EXCEPT ![c] = row]
    BY <1>1 DEF CountEagerly
  <2>3. \A p \in Players : EarnedAhead(p) \in Int /\ eager[c][p] \in Int
    BY <1>2, <2>1, NextEarns
  <2>4. row \in [Players -> Int] /\ \A p \in Players : row[p] = eager[c][p] + EarnedAhead(p)
    BY <2>3
  <2> HIDE DEF row
  <2> QED
    BY <1>2, <2>1, <2>2, <2>4
<1>4. ASSUME NEW p \in Players
      PROVE  /\ players'[p].last_update <= now
             /\ ~players'[p].live => /\ players'[p].principal = 0 /\ players'[p].entries = 0
                                     /\ players'[p].weight_acc = 0
                                     /\ players'[p].frozen_epoch = 0
                                     /\ ~players[p].live /\ EarnedAhead(p) = 0
             /\ players'[p].live =>
                  /\ c > 0 => touch(players'[p], pool', now).weight_acc
                                = eager[c][p] + EarnedAhead(p)
                  /\ (c - 1 > 0 /\ FrozenSlotMatches(players'[p], c - 1)) =>
                        players[p].live /\ FrozenSlotMatches(players[p], c - 1)
  <2>1. players'[p] \in PlayerRec
    BY DEF TypeOK
  <2>2. EarnedAhead(p) \in Nat /\ Earns(players[p], players'[p], EarnedAhead(p))
    BY NextEarns
  <2> QED
    BY <2>1, <2>2, EarnsExact
<1>5. ASSUME c > 1
      PROVE  c - 1 > 0 /\ c - 1 \in EpochIds /\ eager'[c - 1] = eager[c - 1]
  <2>1. c - 1 \in (0..MaxEpoch) \ {c} /\ c - 1 \in EpochIds
    BY <1>2, <1>5, BoundsAssumption DEF EpochIds
  <2> QED
    BY <1>3, <1>5, <2>1
<1>6. ASSUME NEW p \in Players, players'[p].live, c > 1, FrozenSlotMatches(players'[p], c - 1)
      PROVE  EpochWeight(players'[p], c - 1, epochs'[c - 1]) = eager'[c - 1][p]
  <2>1. players[p].live /\ FrozenSlotMatches(players[p], c - 1)
    BY <1>4, <1>5, <1>6
  <2>2. EpochWeight(players[p], c - 1, epochs[c - 1]) = eager[c - 1][p]
    BY <1>6, <2>1 DEF EagerKept, SettledWeightExact
  <2>3. EpochWeight(players'[p], c - 1, epochs'[c - 1]) =
          EpochWeight(players[p], c - 1, epochs[c - 1])
    BY <1>1, <1>5, <1>6, <2>1, NextWeightFixed
  <2> QED
    BY <1>5, <1>6, <2>2, <2>3
<1>7. \A p \in Players : players'[p].live => SettledWeightExact(p)'
  BY <1>1, <1>3, <1>4, <1>6 DEF SettledWeightExact
<1>8. UnseenBlank'
  <2> SUFFICES ASSUME NEW p \in Players, c - 1 > 0,
                      players'[p].live => ~FrozenSlotMatches(players'[p], c - 1)
               PROVE  eager'[c - 1][p] = 0
    BY <1>1 DEF UnseenBlank
  <2>1. c > 1 /\ c - 1 \in EpochIds /\ eager'[c - 1] = eager[c - 1]
    BY <1>5
  <2>2. ASSUME players[p].live PROVE ~FrozenSlotMatches(players[p], c - 1)
    BY <1>1, <1>4, <2>1, <2>2, NextWeightFixed
  <2> QED
    BY <2>1, <2>2 DEF EagerKept, UnseenBlank
<1>9. pool'.current_epoch_start <= now'
  BY <1>1 DEF EagerKept
<1>10. ASSUME NEW p \in Players, ~players'[p].live
       PROVE  eager'[c][p] = 0
  BY <1>3, <1>4, <1>10 DEF EagerKept
<1> QED
  BY <1>1, <1>3, <1>4, <1>7, <1>8, <1>9, <1>10 DEF EagerKept

\* Nothing has been earned before the first epoch.
LEMMA InitExact == Init /\ NothingEarned => EagerKept
<1> SUFFICES ASSUME Init, NothingEarned PROVE EagerKept
  OBVIOUS
<1>1. /\ now = StartTime /\ pool.current_epoch_id = 0 /\ pool.current_epoch_start = 0
      /\ StartTime \in Nat /\ 0 \in 0..MaxEpoch
      /\ eager = [e \in 0..MaxEpoch |-> [p \in Players |-> 0]]
  BY BoundsAssumption DEF NothingEarned, Init, InitWith
<1>2. \A p \in Players :
        /\ players[p].last_update \in {0, StartTime} /\ players[p].principal = 0
        /\ players[p].entries = 0 /\ players[p].weight_acc = 0 /\ players[p].frozen_epoch = 0
  BY DEF Init, InitWith, NoPlayer
<1>3. \A p \in Players : SettledWeightExact(p)
  BY <1>1 DEF SettledWeightExact
<1>4. UnseenBlank
  BY <1>1 DEF UnseenBlank
<1> QED
  BY <1>1, <1>2, <1>3, <1>4 DEF EagerKept

\* A frozen slot is of an epoch the Player has left.
SlotsBehind ==
  \A p \in Players : players[p].frozen_epoch # 0 => players[p].frozen_epoch < players[p].epoch_id

\* Whatever writes a Player writes the slot with the epoch after it.
LEMMA NextSlots ==
  ASSUME TypeOK, PeriodsKnown, SlotsBehind, [Next]_vars
  PROVE  SlotsBehind'
<1> PICK c \in Nat : c = pool.current_epoch_id
  BY DEF TypeOK, PoolRec
<1>1. ASSUME NEW p \in Players, NEW new, Written(players[p], new)
      PROVE  new.frozen_epoch # 0 => new.frozen_epoch < new.epoch_id
  <2> DEFINE plr == players[p]
  <2>1. /\ plr \in PlayerRec /\ plr.epoch_id \in Nat /\ plr.frozen_epoch \in Nat
        /\ plr.epoch_id <= c /\ pool \in PoolRec /\ now \in Int
        /\ plr.frozen_epoch # 0 => plr.frozen_epoch < plr.epoch_id
    BY DEF TypeOK, PlayerRec, PeriodsKnown, SlotsBehind
  <2>2. CASE Resting(plr, new)
    BY <2>1, <2>2 DEF Resting, SameSlots
  <2>3. CASE Settled(plr, new)
    <3>1. PICK base \in {plr, init_if_fresh(plr)} : SameSlots(touch(base, pool, now), new)
      BY <2>3 DEF Settled
    <3> DEFINE t == touch(base, pool, now)
    <3>2. base \in PlayerRec
      BY <2>1, FreshType
    <3>3. /\ base.frozen_epoch = plr.frozen_epoch
          /\ base.epoch_id = plr.epoch_id \/ base.epoch_id = c
      <4>1. /\ init_if_fresh(plr).frozen_epoch = plr.frozen_epoch
            /\ init_if_fresh(plr).epoch_id = plr.epoch_id \/ init_if_fresh(plr).epoch_id = c
        BY <2>1 DEF init_if_fresh, PlayerRec
      <4> QED
        BY <3>1, <4>1
    <3> HIDE DEF plr
    <3>4. CASE base.epoch_id >= c
      <4>1. t.frozen_epoch = base.frozen_epoch /\ t.epoch_id = base.epoch_id
        BY <3>2, <3>4 DEF touch, TouchSameEpoch, PlayerRec
      <4> QED
        BY <2>1, <3>1, <3>3, <3>4, <4>1 DEF SameSlots
    <3>5. CASE ~(base.epoch_id >= c)
      <4>1. t.frozen_epoch = c - 1 /\ t.epoch_id = c
        BY <3>2, <3>5 DEF touch, TouchNewEpoch, PlayerRec
      <4> QED
        BY <3>1, <4>1 DEF SameSlots
    <3> QED
      BY <3>4, <3>5
  <2> QED
    BY <1>1, <2>2, <2>3 DEF Written
<1>2. CASE players' = players
  BY <1>2 DEF SlotsBehind
<1>3. CASE players' # players
  <2>0. PICK p \in Players : \E new :
          players' = [players EXCEPT ![p] = new] /\ Written(players[p], new)
    BY <1>3, NextWrites
  <2>1. PICK new : players' = [players EXCEPT ![p] = new] /\ Written(players[p], new)
    BY <2>0
  <2>2. players'[p] = new /\ \A q \in Players \ {p} : players'[q] = players[q]
    BY <2>1, OneAccount
  <2> QED
    BY <1>1, <2>1, <2>2 DEF SlotsBehind
<1> QED
  BY <1>2, <1>3

\* The API's own way of working a Weight out agrees with the reference, too.
LEMMA ShownExact ==
  ASSUME TypeOK, PeriodsKnown, SlotsBehind, EagerKept
  PROVE  \A p \in Players : players[p].live => ShownWeightExact(p)
<1> PICK c \in Nat : c = pool.current_epoch_id
  BY DEF TypeOK, PoolRec
<1> SUFFICES ASSUME NEW p \in Players, players[p].live, c > 0
             PROVE  /\ now <= epochs[c].ends_at => weightsFrom(now)[p].liveWeight = eager[c][p]
                    /\ c > 1 => EpochDrawWeight(p, c - 1) = eager[c - 1][p]
  BY DEF ShownWeightExact
<1> DEFINE plr == players[p]
<1>1. /\ plr \in PlayerRec /\ pool \in PoolRec /\ now \in Int
      /\ plr.epoch_id <= c /\ plr.epoch_id \in Nat /\ plr.last_update \in Int
      /\ plr.last_update <= now /\ pool.current_epoch_start <= now
      /\ pool.current_epoch_start \in Int /\ pool.current_epoch_ends_at \in Int
  BY AccrualTypes DEF EagerKept
<1>2. /\ epochs[c].starts_at = pool.current_epoch_start
      /\ epochs[c].ends_at = pool.current_epoch_ends_at
  BY DEF PeriodsKnown
<1>3. plr.frozen_epoch \in Nat /\ (plr.frozen_epoch # 0 => plr.frozen_epoch < plr.epoch_id)
  BY <1>1 DEF SlotsBehind, PlayerRec
<1>4. touch(plr, pool, now).weight_acc = eager[c][p]
  BY DEF EagerKept, SettledWeightExact
<1>5. c > 1 => /\ FrozenSlotMatches(plr, c - 1) =>
                    EpochWeight(plr, c - 1, epochs[c - 1]) = eager[c - 1][p]
               /\ ~FrozenSlotMatches(plr, c - 1) => eager[c - 1][p] = 0
  BY DEF EagerKept, SettledWeightExact, UnseenBlank
<1>6. weightsFrom(now)[p].liveWeight = weightAt(plr, c, epochs[c].starts_at, now)
  BY DEF weightsFrom, liveWeight
<1>7. EpochDrawWeight(p, c - 1) =
        weightAt(plr, c - 1, epochs[c - 1].starts_at, epochs[c - 1].ends_at)
  BY DEF EpochDrawWeight
<1> HIDE DEF plr
<1>8. ASSUME now <= epochs[c].ends_at
      PROVE  weightAt(plr, c, epochs[c].starts_at, now) = eager[c][p]
  <2>1. /\ MinOf(now, pool.current_epoch_ends_at) = now /\ plr.frozen_epoch # c
        /\ elapsed(plr.last_update, now) = Clamp(now - plr.last_update)
        /\ elapsed(pool.current_epoch_start, now) = Clamp(now - pool.current_epoch_start)
    BY <1>1, <1>2, <1>3, <1>8 DEF MinOf, elapsed, Clamp
  <2>2. CASE plr.epoch_id = c
    BY <1>1, <1>4, <2>1, <2>2, TouchAt DEF weightAt
  <2>3. CASE plr.epoch_id # c
    BY <1>1, <1>2, <1>4, <2>1, <2>3, TouchAt DEF weightAt
  <2> QED
    BY <2>2, <2>3
<1>9. ASSUME c > 1
      PROVE  weightAt(plr, c - 1, epochs[c - 1].starts_at, epochs[c - 1].ends_at) = eager[c - 1][p]
  <2> DEFINE start == epochs[c - 1].starts_at
             end   == epochs[c - 1].ends_at
  <2>1. start \in Int /\ end \in Int
    BY <1>1, <1>9 DEF PeriodsKnown, PoolRec
  <2>2. EpochWeight(plr, c - 1, epochs[c - 1]) =
          IF plr.epoch_id = c - 1
          THEN plr.weight_acc + plr.entries * elapsed(plr.last_update, end)
          ELSE IF plr.epoch_id > c - 1
          THEN plr.frozen_weight
          ELSE plr.principal * elapsed(start, end)
    BY DEF EpochWeight, weight_of
  <2>3. /\ elapsed(plr.last_update, end) = Clamp(end - plr.last_update)
        /\ elapsed(start, end) = Clamp(end - start)
    BY <1>1, <2>1 DEF elapsed, Clamp
  <2> HIDE DEF start, end
  <2>4. CASE plr.epoch_id = c
    BY <1>1, <1>5, <1>9, <2>2, <2>4 DEF weightAt, FrozenSlotMatches, start, end
  <2>5. CASE plr.epoch_id = c - 1
    <3>1. plr.frozen_epoch # c - 1 /\ FrozenSlotMatches(plr, c - 1)
      BY <1>1, <1>3, <1>9, <2>5 DEF FrozenSlotMatches
    <3> QED
      BY <1>5, <1>9, <2>2, <2>3, <2>5, <3>1 DEF weightAt, start, end
  <2>6. CASE plr.epoch_id < c - 1
    <3>1. plr.frozen_epoch # c - 1 /\ FrozenSlotMatches(plr, c - 1)
      BY <1>1, <1>3, <1>9, <2>6 DEF FrozenSlotMatches
    <3> QED
      BY <1>1, <1>5, <1>9, <2>2, <2>3, <2>6, <3>1 DEF weightAt, start, end
  <2> QED
    BY <1>1, <1>9, <2>4, <2>5, <2>6
<1> QED
  BY <1>6, <1>7, <1>8, <1>9

\* The pool's own invariants and the reference's.
Exact == TypeOK /\ ParamsValid /\ PeriodsKnown /\ SlotsBehind /\ Seated /\ EagerKept

\* They hold when the pool is created.
LEMMA InitPeriods == Init => PeriodsKnown
<1> QED
  BY BoundsAssumption DEF Init, InitWith, NoPlayer, PeriodsKnown

LEMMA InitSeated == Init => Seated
<1> SUFFICES ASSUME Init PROVE Seated
  OBVIOUS
<1>1. /\ House \in Players /\ players[House].live
      /\ \A p \in Players : players[p].reg_epoch = 0 /\ players[p].pending_withdraw = 0
  BY DEF Init, InitWith, NoPlayer, Players
<1>2. \A r \in RoundIds, p \in Owners : positions[r][p].tiles = {}
  BY DEF Init, InitWith, NoPosition
<1> QED
  BY <1>1, <1>2 DEF Seated

LEMMA InitIsExact == Init /\ NothingEarned => Exact
<1>1. Init => SlotsBehind
  BY DEF Init, InitWith, NoPlayer, SlotsBehind
<1> QED
  BY <1>1, InitPeriods, InitSeated, InitType, InitExact DEF Exact

\* Every step of the program keeps them, the reference counting beside it.
LEMMA NextIsExact ==
  ASSUME Exact, [Next /\ CountEagerly]_evars
  PROVE  Exact'
<1> USE DEF Exact
<1>1. [Next]_vars
  BY DEF evars, vars
<1>2. TypeOK' /\ ParamsValid'
  BY <1>1, NextType
<1>3. PeriodsKnown' /\ SlotsBehind' /\ Seated'
  BY <1>1, <1>2, NextPeriods, NextSlots, NextSeated
<1>4. ValidParams(params)
  BY DEF ParamsValid
<1>5. ASSUME UNCHANGED evars PROVE EagerKept'
  <2>1. /\ now' = now /\ pool' = pool /\ players' = players /\ epochs' = epochs
        /\ eager' = eager
    BY <1>5 DEF evars
  <2>2. (\A p \in Players : players'[p].live => SettledWeightExact(p)') /\ UnseenBlank'
    BY <2>1 DEF EagerKept, SettledWeightExact, UnseenBlank
  <2> QED
    BY <2>1, <2>2 DEF EagerKept
<1>6. ASSUME Next, CountEagerly, ~Tick, ~\E s \in Keys : begin_epoch(s) PROVE EagerKept'
  <2>1. SamePeriods
    BY <1>1, <1>6, WhichStep, OutsideTheDraws, OneEpoch
  <2>2. now' = now
    BY <1>1, <1>6, ClockAndParams
  <2> QED
    BY <1>1, <1>2, <1>6, <2>1, <2>2, ActExact
<1>7. EagerKept'
  BY <1>1, <1>2, <1>4, <1>5, <1>6, TickExact, BeginExact
<1> QED
  BY <1>2, <1>3, <1>7

\* Lazy accrual is exact (touch.rs), and so is what the read API works out from
\* rows nobody touched (weightAt, api.service.ts:84): touching a Player now would
\* leave the second-by-second Weight of the current epoch, registering would read
\* what was earned in the ended one, and the API shows both. This holds for any
\* number of Players, seconds and epochs, begun on time, late or past whole grid
\* points, however long nobody touched the account, and whatever is deposited,
\* withdrawn, staked, won, bought, granted, paid out or reconfigured meanwhile.
THEOREM LazyAccrualExact == EagerSpec => []AccrualExact
<1>1. Exact => AccrualExact
  BY ShownExact DEF Exact, EagerKept, AccrualExact
<1> QED
  BY <1>1, InitIsExact, NextIsExact, PTL DEF EagerSpec
-----------------------------------------------------------------------------
(* The figures of a draw in progress, and the allowance for tickets.       *)

Listed(e) == {p \in Players : players[p].reg_epoch = e}

\* A registered Player's interval is as long as the Weight it is still owed.
ListedTrue ==
  \A e \in EpochIds : e = pool.current_epoch_id - 1 =>
    \A p \in Listed(e) :
      /\ players[p].live /\ FrozenSlotMatches(players[p], e)
      /\ EpochWeight(players[p], e, epochs[e]) = players[p].reg_end - players[p].reg_start

\* The registered are counted, and the count of the running epoch is zero.
CountsTrue ==
  \A e \in EpochIds :
    /\ e = pool.current_epoch_id => epochs[e].registered_count = 0
    /\ e = pool.current_epoch_id - 1 => epochs[e].registered_count = Cardinality(Listed(e))

\* Whoever was registered and keeps the interval is still owed as much.
LEMMA StaysListed ==
  ASSUME TypeOK, PeriodsKnown, ListedTrue, [Next]_vars,
         NEW e \in EpochIds, e = pool.current_epoch_id - 1,
         pool'.current_epoch_id = pool.current_epoch_id,
         NEW p \in Listed(e), SameListing(players[p], players'[p])
  PROVE  /\ players'[p].live /\ FrozenSlotMatches(players'[p], e)
         /\ EpochWeight(players'[p], e, epochs'[e]) = players'[p].reg_end - players'[p].reg_start
<1>1. /\ p \in Players /\ players[p].live /\ FrozenSlotMatches(players[p], e)
      /\ EpochWeight(players[p], e, epochs[e]) = players[p].reg_end - players[p].reg_start
  BY DEF ListedTrue, Listed
<1>2. players'[p].live
  BY <1>1, NextLive
<1>3. /\ FrozenSlotMatches(players'[p], e)
      /\ EpochWeight(players'[p], e, epochs'[e]) = EpochWeight(players[p], e, epochs[e])
  BY <1>1, NextWeightFixed
<1> QED
  BY <1>1, <1>2, <1>3 DEF SameListing

\* A step that moves no interval and counts nobody.
LEMMA ProgressStays ==
  ASSUME TypeOK, PeriodsKnown, ListedTrue, CountsTrue, [Next]_vars,
         pool'.current_epoch_id = pool.current_epoch_id,
         \A p \in Players : SameListing(players[p], players'[p]),
         \A e \in EpochIds : epochs'[e].registered_count = epochs[e].registered_count
  PROVE  ListedTrue' /\ CountsTrue'
<1>1. \A e \in EpochIds : Listed(e)' = Listed(e)
  BY DEF Listed, SameListing
<1>2. CountsTrue'
  BY <1>1 DEF CountsTrue
<1>3. ASSUME NEW e \in EpochIds, e = pool.current_epoch_id - 1, NEW p \in Listed(e)
      PROVE  /\ players'[p].live /\ FrozenSlotMatches(players'[p], e)
             /\ EpochWeight(players'[p], e, epochs'[e])
                  = players'[p].reg_end - players'[p].reg_start
  <2>1. SameListing(players[p], players'[p])
    BY DEF Listed
  <2> QED
    BY <1>3, <2>1, StaysListed
<1>4. ListedTrue'
  BY <1>1, <1>3 DEF ListedTrue
<1> QED
  BY <1>2, <1>4

\* Of the steps of an epoch only register counts.
LEMMA CountStays ==
  ASSUME TypeOK, NEW e \in EpochIds,
         \/ \E s \in Keys : close_registration(s, e)
         \/ \E p \in Players : payout(e, p)
         \/ \E target \in 0..(epochs[e].registered_weight - 1) : draw(e, target)
         \/ rollover_epoch(e) \/ FulfillEpoch(e)
  PROVE  epochs'[e].registered_count = epochs[e].registered_count
<1>1. epochs[e] \in EpochRec
  BY DEF TypeOK
<1>2. ASSUME NEW s \in Keys, close_registration(s, e)
      PROVE  epochs'[e].registered_count = epochs[e].registered_count
  <2> DEFINE prize == JackpotOnOffer
  <2>1. \/ epochs' = [epochs EXCEPT ![e] =
                        [epochs[e] EXCEPT !.status = "RolledOver", !.jackpot_amount = prize]]
        \/ epochs' = [epochs EXCEPT ![e] =
                        [epochs[e] EXCEPT !.status = "Drawing", !.jackpot_amount = prize,
                                          !.requested_at = now]]
    BY <1>2 DEF close_registration, TypeOK
  <2> HIDE DEF prize
  <2> QED
    BY <1>1, <2>1 DEF TypeOK, EpochRec
<1>3. ASSUME NEW p \in Players, payout(e, p)
      PROVE  epochs'[e].registered_count = epochs[e].registered_count
  BY <1>1, <1>3 DEF payout, TypeOK, EpochRec
<1>4. ASSUME NEW target, draw(e, target) \/ FulfillEpoch(e) \/ rollover_epoch(e)
      PROVE  epochs'[e].registered_count = epochs[e].registered_count
  BY <1>1, <1>4 DEF draw, FulfillEpoch, rollover_epoch, TypeOK, EpochRec
<1> QED
  BY <1>2, <1>3, <1>4

\* A registration adds one Player, with an interval of its Weight.
LEMMA RegisterProgress ==
  ASSUME TypeOK, PeriodsKnown, ListedTrue, CountsTrue, [Next]_vars,
         NEW e \in EpochIds, NEW p \in Players, register(e, p)
  PROVE  ListedTrue' /\ CountsTrue'
<1> DEFINE w == EpochWeight(players[p], e, epochs[e])
           from == epochs[e].registered_weight
<1>0. PICK new : Registers(e, p, new)
  BY RegisterWrites
<1>1. /\ players' = [players EXCEPT ![p] = new]
      /\ IF w = 0
         THEN SameListing(players[p], new) /\ epochs' = epochs
         ELSE /\ new.reg_epoch = e /\ new.reg_start = from /\ new.reg_end = from + w
              /\ epochs' = [epochs EXCEPT ![e] =
                              [epochs[e] EXCEPT !.registered_weight = from + w,
                                                !.registered_count  = @ + 1]]
  BY <1>0 DEF Registers
<1>2. players'[p] = new /\ \A q \in Players \ {p} : players'[q] = players[q]
  BY <1>1, OneAccount
<1>3. /\ pool'.current_epoch_id = pool.current_epoch_id /\ e = pool.current_epoch_id - 1
      /\ pool.current_epoch_id \in Nat /\ e \in Nat
  <2>1. pool.current_epoch_id \in Nat
    BY DEF TypeOK, PoolRec
  <2>2. e = pool.current_epoch_id - 1
    BY DEF register
  <2> QED
    BY <2>1, <2>2, OneEpoch DEF SamePeriods, EpochIds
<1>4. /\ players[p].live /\ players[p].reg_epoch # e /\ FrozenSlotMatches(players[p], e)
  BY DEF register, Unregistered
<1>5. w \in Nat /\ from \in Nat /\ epochs[e] \in EpochRec
  BY EpochWeightNat DEF TypeOK, EpochRec
<1>6. \A q \in Players \ {p} : SameListing(players[q], players'[q])
  BY <1>2 DEF SameListing
<1>7. /\ FrozenSlotMatches(players'[p], e) /\ EpochWeight(players'[p], e, epochs'[e]) = w
      /\ players'[p].live
  BY <1>3, <1>4, NextWeightFixed, NextLive
<1> HIDE DEF w, from
<1>8. CASE w = 0
  <2>1. \A q \in Players : SameListing(players[q], players'[q])
    BY <1>1, <1>2, <1>6, <1>8
  <2> QED
    BY <1>1, <1>3, <1>8, <2>1, ProgressStays
<1>9. CASE w # 0
  <2>1. /\ epochs'[e].registered_count = epochs[e].registered_count + 1
        /\ \A x \in EpochIds \ {e} : epochs'[x] = epochs[x]
    <3> DEFINE weight == from + w
               count  == epochs[e].registered_count + 1
    <3>1. epochs' = [epochs EXCEPT ![e] = [epochs[e] EXCEPT !.registered_weight = weight,
                                                           !.registered_count  = count]]
      BY <1>1, <1>9
    <3> HIDE DEF weight, count
    <3>2. epochs'[e].registered_count = count
      BY <1>5, <3>1 DEF EpochRec, TypeOK
    <3>3. \A x \in EpochIds \ {e} : epochs'[x] = epochs[x]
      BY <3>1 DEF TypeOK
    <3> QED
      BY <3>2, <3>3 DEF count
  <2>2. new.reg_epoch = e /\ new.reg_start = from /\ new.reg_end = from + w
    BY <1>1, <1>9
  <2>3. Listed(e)' = Listed(e) \cup {p} /\ p \notin Listed(e)
    BY <1>2, <1>4, <2>2 DEF Listed
  <2>4. Cardinality(Listed(e)') = Cardinality(Listed(e)) + 1
    <3>1. Listed(e) \in SUBSET Players
      BY DEF Listed
    <3>2. IsFiniteSet(Listed(e))
      BY <3>1, PlayersFinite, FS_Subset
    <3> QED
      BY <2>3, <3>2, FS_AddElement
  <2>5. CountsTrue'
    BY <1>3, <2>1, <2>4 DEF CountsTrue
  <2>6. ASSUME NEW q \in Listed(e)'
        PROVE  /\ players'[q].live /\ FrozenSlotMatches(players'[q], e)
               /\ EpochWeight(players'[q], e, epochs'[e])
                    = players'[q].reg_end - players'[q].reg_start
    <3>1. CASE q = p
      BY <1>2, <1>5, <1>7, <2>2, <3>1
    <3>2. CASE q # p
      <4>1. q \in Listed(e) /\ SameListing(players[q], players'[q])
        BY <1>6, <2>3, <3>2 DEF Listed
      <4> QED
        BY <1>3, <4>1, StaysListed
    <3> QED
      BY <3>1, <3>2
  <2>7. ListedTrue'
    BY <1>3, <2>6 DEF ListedTrue
  <2> QED
    BY <2>5, <2>7
<1> QED
  BY <1>8, <1>9

\* Every step keeps the figures of the draw.
LEMMA NextProgress ==
  ASSUME TypeOK, PeriodsKnown, ListedBehind, ListedTrue, CountsTrue, [Next]_vars
  PROVE  ListedTrue' /\ CountsTrue'
<1> PICK c \in Nat : c = pool.current_epoch_id
  BY DEF TypeOK, PoolRec
<1>1. CASE Tick \/ CustodyNext \/ FundingNext \/ RoundsNext \/ UNCHANGED vars
  <2>1. /\ epochs' = epochs /\ pool'.current_epoch_id = pool.current_epoch_id
        /\ \A q \in Players : SameListing(players[q], players'[q])
    BY <1>1, OutsideTheDraws, WritesListings DEF SamePeriods
  <2> QED
    BY <2>1, ProgressStays
<1>2. ASSUME NEW s \in Keys, begin_epoch(s) PROVE ListedTrue' /\ CountsTrue'
  <2>1. players' = players
    BY <1>2 DEF begin_epoch
  <2>2. /\ pool'.current_epoch_id = c + 1 /\ epochs'[c + 1].registered_count = 0
        /\ c > 0 => epochs'[c].registered_count = epochs[c].registered_count
    BY <1>2, BeginFrame
  <2>3. \A e \in EpochIds : e \in Nat /\ e > 0
    BY DEF EpochIds
  <2>4. \A e \in EpochIds : e = c => Listed(e)' = {}
    BY <2>1, <2>3 DEF ListedBehind, Listed, TypeOK, PlayerRec
  <2>5. ListedTrue'
    BY <2>2, <2>3, <2>4 DEF ListedTrue
  <2>6. CountsTrue'
    <3>1. \A e \in EpochIds : e = c => epochs'[e].registered_count = 0
      BY <2>2, <2>3 DEF CountsTrue
    <3>2. \A e \in EpochIds : e = c => Cardinality(Listed(e)') = 0
      BY <2>4, FS_EmptySet
    <3>3. \A e \in EpochIds : e = pool'.current_epoch_id - 1 => e = c
      BY <2>2
    <3> QED
      BY <2>2, <3>1, <3>2, <3>3 DEF CountsTrue
  <2> QED
    BY <2>5, <2>6
<1>3. ASSUME NEW e \in EpochIds,
             \/ \E s \in Keys : close_registration(s, e)
             \/ \E p \in Players : payout(e, p)
             \/ \E target \in 0..(epochs[e].registered_weight - 1) : draw(e, target)
             \/ rollover_epoch(e) \/ FulfillEpoch(e)
      PROVE  ListedTrue' /\ CountsTrue'
  <2>1. /\ \A q \in Players : SameListing(players[q], players'[q])
        /\ epochs'[e].registered_count = epochs[e].registered_count
    BY <1>3, OtherListings, WritesListings, CountStays
  <2>2. /\ pool'.current_epoch_id = pool.current_epoch_id
        /\ \A x \in EpochIds \ {e} : epochs'[x] = epochs[x]
    BY <1>3, OneEpoch DEF SamePeriods
  <2>3. \A x \in EpochIds : epochs'[x].registered_count = epochs[x].registered_count
    BY <2>1, <2>2
  <2> QED
    BY <2>1, <2>2, <2>3, ProgressStays
<1> QED
  BY <1>1, <1>2, <1>3, WhichStep, RegisterProgress

\* What the API works out for the ended epoch is what registration reads.
LEMMA DrawWeightShown ==
  ASSUME TypeOK, SlotsBehind, NEW e \in EpochIds, NEW p \in Players,
         FrozenSlotMatches(players[p], e)
  PROVE  EpochDrawWeight(p, e) = EpochWeight(players[p], e, epochs[e])
<1> DEFINE plr   == players[p]
           start == epochs[e].starts_at
           end   == epochs[e].ends_at
<1>1. /\ plr.epoch_id \in Nat /\ plr.frozen_epoch \in Nat /\ plr.last_update \in Int
      /\ start \in Int /\ end \in Int /\ e \in Nat /\ e > 0
      /\ plr.frozen_epoch # 0 => plr.frozen_epoch < plr.epoch_id
      /\ plr.epoch_id > e => plr.frozen_epoch = e
  <2>1. plr \in PlayerRec /\ epochs[e] \in EpochRec
    BY DEF TypeOK
  <2>2. plr.epoch_id \in Nat /\ plr.frozen_epoch \in Nat /\ plr.last_update \in Int
    BY <2>1 DEF PlayerRec
  <2>3. start \in Int /\ end \in Int /\ e \in Nat /\ e > 0
    BY <2>1 DEF EpochRec, EpochIds
  <2> QED
    BY <2>2, <2>3 DEF SlotsBehind, FrozenSlotMatches
<1>2. /\ elapsed(plr.last_update, end) = Clamp(end - plr.last_update)
      /\ elapsed(start, end) = Clamp(end - start)
  BY <1>1 DEF elapsed, Clamp
<1>3. EpochDrawWeight(p, e) = weightAt(plr, e, start, end)
  BY DEF EpochDrawWeight
<1>4. EpochWeight(plr, e, epochs[e]) =
        IF plr.epoch_id = e THEN plr.weight_acc + plr.entries * elapsed(plr.last_update, end)
        ELSE IF plr.epoch_id > e THEN plr.frozen_weight
        ELSE plr.principal * elapsed(start, end)
  BY DEF EpochWeight, weight_of
<1> HIDE DEF plr, start, end
<1>5. weightAt(plr, e, start, end) = EpochWeight(plr, e, epochs[e])
  BY <1>1, <1>2, <1>4 DEF weightAt
<1> QED
  BY <1>3, <1>5 DEF plr

\* The listed are eligible, with the Weight of their interval, and all of them
\* are counted.
LEMMA ProgressShown ==
  ASSUME TypeOK, IntervalsDisjoint, PeriodsKnown, SlotsBehind, ListedTrue, CountsTrue
  PROVE  ProgressTrue
<1> DEFINE e == pool.current_epoch_id - 1
<1> SUFFICES ASSUME e > 0
             PROVE  /\ \A p \in Listed(e) :
                         /\ p \in Eligible(e)
                         /\ EpochDrawWeight(p, e) = players[p].reg_end - players[p].reg_start
                    /\ epochs[e].registered_count <= Cardinality(Eligible(e))
  BY DEF ProgressTrue, Progress, Listed
<1>0. e \in EpochIds
  <2>1. pool.current_epoch_id \in Nat
    BY DEF TypeOK, PoolRec
  <2>2. pool.current_epoch_id <= MaxEpoch
    BY DEF PeriodsKnown
  <2> QED
    BY <2>1, <2>2, BoundsAssumption DEF EpochIds
<1>1. ASSUME NEW p \in Listed(e)
      PROVE  /\ p \in Eligible(e)
             /\ EpochDrawWeight(p, e) = players[p].reg_end - players[p].reg_start
  <2>1. /\ p \in Players /\ players[p].live /\ FrozenSlotMatches(players[p], e)
        /\ EpochWeight(players[p], e, epochs[e]) = players[p].reg_end - players[p].reg_start
    BY <1>0 DEF ListedTrue, Listed
  <2>2. EpochDrawWeight(p, e) = players[p].reg_end - players[p].reg_start
    BY <1>0, <2>1, DrawWeightShown
  <2>3. /\ players[p].reg_start < players[p].reg_end
        /\ players[p].reg_start \in Nat /\ players[p].reg_end \in Nat
    <3>1. players[p] \in PlayerRec /\ players[p].reg_epoch = e /\ e # 0
      BY <1>0, <2>1 DEF Listed, TypeOK, EpochIds
    <3>2. players[p].reg_start < players[p].reg_end
      BY <2>1, <3>1 DEF IntervalsDisjoint
    <3> QED
      BY <3>1, <3>2 DEF PlayerRec
  <2> QED
    BY <2>1, <2>2, <2>3 DEF Eligible
<1>2. Listed(e) \in SUBSET Eligible(e) /\ Eligible(e) \in SUBSET Players
  BY <1>1 DEF Eligible
<1>3. Cardinality(Listed(e)) <= Cardinality(Eligible(e))
  BY <1>2, PlayersFinite, FS_Subset
<1>4. epochs[e].registered_count = Cardinality(Listed(e))
  BY <1>0 DEF CountsTrue
<1> QED
  BY <1>1, <1>3, <1>4

\* touch moves neither Principal nor the counter of purchases.
LEMMA AllowanceShown ==
  ASSUME TypeOK
  PROVE  \A p \in Owners : AllowanceHonoured(p)
<1> SUFFICES ASSUME NEW p \in Owners, NEW amount \in Amounts, players[p].live, amount > 0
             PROVE  LET plr == touch(players[p], pool, now) IN
                    CountedInEpoch(plr.bought_epoch, plr.bought_amount, amount) <= plr.principal
                      <=> amount <= playerTicketExtras(p).buyAllowanceLeft
  BY DEF AllowanceHonoured
<1> DEFINE old == players[p]
           plr == touch(old, pool, now)
           counted == IF old.bought_epoch = pool.current_epoch_id THEN old.bought_amount ELSE 0
<1>1. old \in PlayerRec
  BY DEF TypeOK, Players
<1>2. plr.principal = old.principal
  BY <1>1, TouchKeeps DEF Kept
<1>3. plr.bought_epoch = old.bought_epoch /\ plr.bought_amount = old.bought_amount
  BY <1>1 DEF touch, TouchSameEpoch, TouchNewEpoch, PlayerRec
<1>4. /\ old.principal \in Nat /\ old.bought_amount \in Nat /\ counted \in Nat /\ amount \in Nat
  BY <1>1, AmountsAssumption DEF PlayerRec
<1>5. CountedInEpoch(plr.bought_epoch, plr.bought_amount, amount) = counted + amount
  BY <1>3 DEF CountedInEpoch
<1>6. playerTicketExtras(p).buyAllowanceLeft = Clamp(old.principal - counted)
  BY DEF playerTicketExtras, boughtToday, ifCurrentEpoch
<1> HIDE DEF old, plr, counted
<1>7. counted + amount <= old.principal <=> amount <= Clamp(old.principal - counted)
  BY <1>4 DEF Clamp
<1> QED
  BY <1>2, <1>5, <1>6, <1>7 DEF plr, old

ShownKept ==
  /\ TypeOK /\ ListingsKept /\ PeriodsKnown /\ SlotsBehind /\ ListedTrue /\ CountsTrue

\* The progress of a draw as the API shows it (drawingProgressFrom,
\* api.service.ts:991) is true: whoever is registered counts as eligible, with
\* exactly the Weight of its interval, touched since or not, and no more are
\* shown registered than eligible, for any number of Players and epochs.
THEOREM ProgressShownTrue == Spec => []ProgressTrue
<1>1. Init => ShownKept
  <2> SUFFICES ASSUME Init PROVE ShownKept
    OBVIOUS
  <2>1. pool.current_epoch_id = 0
    BY DEF Init, InitWith
  <2>2. ListingsKept
    BY DEF Init, InitWith, NoPlayer, ListingsKept, ListedBehind, IntervalsDisjoint
  <2>3. PeriodsKnown
    BY BoundsAssumption DEF Init, InitWith, NoPlayer, PeriodsKnown
  <2>4. SlotsBehind
    BY DEF Init, InitWith, NoPlayer, SlotsBehind
  <2>5. ListedTrue /\ CountsTrue
    <3>1. \A e \in EpochIds : e # pool.current_epoch_id /\ e # pool.current_epoch_id - 1
      BY <2>1 DEF EpochIds
    <3> QED
      BY <3>1 DEF ListedTrue, CountsTrue
  <2> QED
    BY <2>2, <2>3, <2>4, <2>5, InitType DEF ShownKept
<1>2. ShownKept /\ TypeOK' /\ [Next]_vars => ShownKept'
  <2> SUFFICES ASSUME ShownKept, TypeOK', [Next]_vars PROVE ShownKept'
    OBVIOUS
  <2>1. ListingsKept' /\ PeriodsKnown' /\ SlotsBehind'
    BY NextListings, NextPeriods, NextSlots DEF ShownKept
  <2>2. ListedTrue' /\ CountsTrue'
    BY NextProgress DEF ShownKept, ListingsKept
  <2> QED
    BY <2>1, <2>2 DEF ShownKept
<1>3. ShownKept => ProgressTrue
  BY ProgressShown DEF ShownKept, ListingsKept
<1> QED
  BY <1>1, <1>2, <1>3, TypeCorrect, PTL DEF Spec

\* The allowance for tickets the API shows (playerTicketExtras,
\* api.service.ts:1116), from a row nobody has touched in this epoch, is what
\* the program, which settles the Player first, accepts.
THEOREM AllowanceShownTrue == Spec => [](\A p \in Owners : AllowanceHonoured(p))
<1>1. TypeOK => \A p \in Owners : AllowanceHonoured(p)
  BY AllowanceShown
<1> QED
  BY <1>1, TypeCorrect, PTL
-----------------------------------------------------------------------------
(* Tickets outside the game.                                               *)

\* A per-epoch counter, in epoch c.
Counted(stamp, n, c) == IF stamp = c THEN n ELSE 0

\* Those Entries are accounted for, the counters are of no later epoch, and an
\* account not created yet is empty.
Explained(plr, c, price) ==
  /\ Held(plr, c) = plr.principal + Counted(plr.bought_epoch, plr.bought_amount, c) * price
                      + Counted(plr.bonus_epoch, plr.bonus_granted, c)
  /\ plr.bought_epoch <= c /\ plr.bonus_epoch <= c
  /\ ~plr.live => plr = NoPlayer

TicketsKept ==
  \A p \in Owners : Explained(players[p], pool.current_epoch_id, params.tickets_per_usdc)

\* Nobody plays, the admin grants a depositor nothing, nobody leaves by the
\* emergency exit, and the price of a ticket stays.
OtherTickets ==
  \/ PlayNext
  \/ \E p \in Owners : emergency_withdraw(p)
  \/ \E s \in Keys, p \in Owners, amount \in Amounts : grant_tickets_admin(s, p, amount)
  \/ params'.tickets_per_usdc # params.tickets_per_usdc

NoOtherTickets == [][~OtherTickets]_vars

\* touch settles Entries as Held says and leaves Principal and the counters.
LEMMA TouchTickets ==
  ASSUME NEW plr \in PlayerRec, NEW pl \in PoolRec, NEW t \in Int,
         plr.epoch_id <= pl.current_epoch_id
  PROVE  LET new == touch(plr, pl, t) IN
         /\ new.entries = Held(plr, pl.current_epoch_id) /\ new.principal = plr.principal
         /\ new.epoch_id = pl.current_epoch_id /\ new.live = plr.live
         /\ new.bought_epoch = plr.bought_epoch /\ new.bought_amount = plr.bought_amount
         /\ new.bonus_epoch = plr.bonus_epoch /\ new.bonus_granted = plr.bonus_granted
<1>1. plr.epoch_id \in Nat /\ pl.current_epoch_id \in Nat
  BY DEF PlayerRec, PoolRec
<1>2. CASE plr.epoch_id = pl.current_epoch_id
  BY <1>1, <1>2 DEF touch, TouchSameEpoch, Held, PlayerRec
<1>3. CASE plr.epoch_id < pl.current_epoch_id
  BY <1>1, <1>3 DEF touch, TouchNewEpoch, Held, PlayerRec
<1> QED
  BY <1>1, <1>2, <1>3

\* A Player settled in the current epoch, just created or not, is explained by
\* its own fields.
LEMMA TouchExplained ==
  ASSUME TypeOK, PeriodsKnown, TicketsKept, NEW p \in Owners,
         NEW base \in {players[p], init_if_fresh(players[p])}, base.live,
         NEW t, t = touch(base, pool, now)
  PROVE  LET c == pool.current_epoch_id IN
         /\ t \in PlayerRec /\ t.live /\ t.epoch_id = c
         /\ t.entries = t.principal
              + Counted(t.bought_epoch, t.bought_amount, c) * params.tickets_per_usdc
              + Counted(t.bonus_epoch, t.bonus_granted, c)
         /\ t.bought_epoch <= c /\ t.bonus_epoch <= c
<1> DEFINE plr == players[p]
           c   == pool.current_epoch_id
           price == params.tickets_per_usdc
<1>1. /\ plr \in PlayerRec /\ pool \in PoolRec /\ now \in Int /\ plr.epoch_id <= c
      /\ Explained(plr, c, price)
  BY DEF TypeOK, PeriodsKnown, TicketsKept, Players
<1>2. /\ base \in PlayerRec /\ base.epoch_id <= c
      /\ Explained(base, c, price)
  <2>1. CASE base = plr
    BY <1>1, <2>1
  <2>2. CASE base = init_if_fresh(plr) /\ base # plr
    <3>1. plr = NoPlayer
      BY <1>1, <2>2 DEF init_if_fresh, Explained
    <3>2. /\ base = init_if_fresh(NoPlayer)
          /\ c \in Nat
      BY <1>1, <2>2, <3>1 DEF PoolRec
    <3>3. base.epoch_id <= c /\ base.entries = 0 /\ base.principal = 0
          /\ base.bought_epoch = 0 /\ base.bought_amount = 0
          /\ base.bonus_epoch = 0 /\ base.bonus_granted = 0
      BY <3>2 DEF init_if_fresh, NoPlayer
    <3>4. price \in Nat
      BY DEF TypeOK, ParamRec
    <3>5. Explained(base, c, price)
      BY <3>2, <3>3, <3>4 DEF Explained, Held, Counted
    <3> QED
      BY <1>1, <2>2, <3>3, <3>5, FreshType
  <2> QED
    BY <2>1, <2>2
<1>3. t \in PlayerRec
  BY <1>1, <1>2, TouchType DEF TypeOK
<1> HIDE DEF plr, c, price
<1>4. /\ t.entries = Held(base, pool.current_epoch_id) /\ t.principal = base.principal
      /\ t.epoch_id = pool.current_epoch_id /\ t.live = base.live
      /\ t.bought_epoch = base.bought_epoch /\ t.bought_amount = base.bought_amount
      /\ t.bonus_epoch = base.bonus_epoch /\ t.bonus_granted = base.bonus_granted
  BY <1>1, <1>2, TouchTickets DEF c
<1> QED
  BY <1>2, <1>3, <1>4 DEF Explained, c, price

\* One Player is written and explained, the epoch and the price stay.
LEMMA OneExplained ==
  ASSUME TypeOK, TicketsKept, pool'.current_epoch_id = pool.current_epoch_id,
         params'.tickets_per_usdc = params.tickets_per_usdc,
         \/ \A p \in Owners : players'[p] = players[p]
         \/ \E p \in Owners : \E new :
              /\ players' = [players EXCEPT ![p] = new]
              /\ Explained(new, pool.current_epoch_id, params.tickets_per_usdc)
  PROVE  TicketsKept'
<1>1. CASE \A p \in Owners : players'[p] = players[p]
  BY <1>1 DEF TicketsKept
<1>2. CASE \E p \in Owners : \E new :
             /\ players' = [players EXCEPT ![p] = new]
             /\ Explained(new, pool.current_epoch_id, params.tickets_per_usdc)
  <2>1. PICK p \in Owners : \E new :
             /\ players' = [players EXCEPT ![p] = new]
             /\ Explained(new, pool.current_epoch_id, params.tickets_per_usdc)
    BY <1>2
  <2>2. PICK new : /\ players' = [players EXCEPT ![p] = new]
                   /\ Explained(new, pool.current_epoch_id, params.tickets_per_usdc)
    BY <2>1
  <2>3. players'[p] = new /\ \A q \in Players \ {p} : players'[q] = players[q]
    BY <2>2, OneAccount DEF Players
  <2>4. ASSUME NEW q \in Owners
        PROVE  Explained(players'[q], pool.current_epoch_id, params.tickets_per_usdc)
    BY <2>2, <2>3 DEF TicketsKept, Players
  <2> QED
    BY <2>4 DEF TicketsKept
<1> QED
  BY <1>1, <1>2

\* Settled, then Principal and Entries moved together.
LEMMA BothMoved ==
  ASSUME TypeOK, PeriodsKnown, TicketsKept, NEW p \in Owners,
         NEW base \in {players[p], init_if_fresh(players[p])}, base.live,
         NEW t, t = touch(base, pool, now), NEW new, NEW d \in Int,
         new.principal = t.principal + d, new.entries = t.entries + d,
         new.live = t.live, new.epoch_id = t.epoch_id,
         new.bought_epoch = t.bought_epoch, new.bought_amount = t.bought_amount,
         new.bonus_epoch = t.bonus_epoch, new.bonus_granted = t.bonus_granted
  PROVE  Explained(new, pool.current_epoch_id, params.tickets_per_usdc)
<1> DEFINE c == pool.current_epoch_id
           a == Counted(t.bought_epoch, t.bought_amount, c) * params.tickets_per_usdc
           b == Counted(t.bonus_epoch, t.bonus_granted, c)
<1>1. /\ t \in PlayerRec /\ t.live /\ t.epoch_id = c /\ t.entries = t.principal + a + b
      /\ t.bought_epoch <= c /\ t.bonus_epoch <= c /\ c \in Nat
  BY TouchExplained DEF TypeOK, PoolRec
<1>2. /\ a \in Int /\ b \in Int /\ t.principal \in Int
  BY <1>1 DEF TypeOK, ParamRec, PlayerRec, Counted
<1>3. /\ Counted(new.bought_epoch, new.bought_amount, c) * params.tickets_per_usdc = a
      /\ Counted(new.bonus_epoch, new.bonus_granted, c) = b
  OBVIOUS
<1>4. Held(new, c) = new.entries
  BY <1>1 DEF Held
<1> HIDE DEF a, b, c
<1>5. new.entries = new.principal + a + b
  BY <1>1, <1>2
<1> QED
  BY <1>1, <1>3, <1>4, <1>5 DEF Explained, c
\* A depositor's own instructions.
LEMMA DepositorTickets ==
  ASSUME TypeOK, PeriodsKnown, TicketsKept, NEW p \in Owners, NEW amount \in Amounts,
         deposit(p, amount) \/ request_withdraw(p, amount) \/ buy_tickets(p, amount)
  PROVE  \E new : /\ players' = [players EXCEPT ![p] = new]
                  /\ Explained(new, pool.current_epoch_id, params.tickets_per_usdc)
<1> DEFINE plr   == players[p]
           c     == pool.current_epoch_id
           price == params.tickets_per_usdc
<1>0. plr \in PlayerRec /\ amount \in Nat /\ c \in Nat /\ price \in Nat
  BY AmountsAssumption DEF TypeOK, PoolRec, ParamRec, Players
<1>1. CASE deposit(p, amount)
  <2> DEFINE base == init_if_fresh(plr)
             t    == touch(base, pool, now)
             new  == [t EXCEPT !.principal = @ + amount, !.entries = @ + amount]
  <2>1. players' = [players EXCEPT ![p] = new]
    BY <1>1 DEF deposit
  <2>2. t \in PlayerRec /\ base \in {players[p], init_if_fresh(players[p])} /\ base.live
    BY <1>0, FreshTouchKeeps DEF Kept, init_if_fresh, PlayerRec
  <2>3. t = touch(base, pool, now)
    OBVIOUS
  <2> HIDE DEF t, base
  <2>4. /\ new.principal = t.principal + amount /\ new.entries = t.entries + amount
        /\ new.live = t.live /\ new.epoch_id = t.epoch_id
        /\ new.bought_epoch = t.bought_epoch /\ new.bought_amount = t.bought_amount
        /\ new.bonus_epoch = t.bonus_epoch /\ new.bonus_granted = t.bonus_granted
    BY <2>2 DEF PlayerRec
  <2> HIDE DEF new
  <2>5. amount \in Int
    BY <1>0
  <2> QED
    BY <2>1, <2>2, <2>3, <2>4, <2>5, BothMoved
<1>2. CASE request_withdraw(p, amount)
  <2> DEFINE base == plr
             t    == touch(base, pool, now)
             new  == [t EXCEPT !.principal        = @ - amount,
                               !.entries          = SatSub(@, amount),
                               !.pending_withdraw = @ + amount,
                               !.pending_epoch    = pool.current_epoch_id,
                               !.requested_at     = now]
  <2>1. players' = [players EXCEPT ![p] = new] /\ t.principal >= amount /\ base.live
    BY <1>2 DEF request_withdraw
  <2>2. t \in PlayerRec /\ base \in {players[p], init_if_fresh(players[p])}
    BY <1>0, TouchKeeps DEF Kept
  <2>3. t = touch(base, pool, now)
    OBVIOUS
  <2> HIDE DEF t, base
  <2>4. t.entries >= t.principal
    <3> DEFINE a == Counted(t.bought_epoch, t.bought_amount, c)
               b == Counted(t.bonus_epoch, t.bonus_granted, c)
    <3>1. t.entries = t.principal + a * price + b
      BY <2>1, <2>2, <2>3, TouchExplained
    <3>2. a \in Nat /\ b \in Nat /\ t.principal \in Nat
      BY <2>2 DEF Counted, PlayerRec
    <3> HIDE DEF a, b, price
    <3>3. a * price >= 0
      BY <1>0, <3>2
    <3> QED
      BY <1>0, <3>1, <3>2, <3>3
  <2>5. /\ new.principal = t.principal - amount /\ new.entries = SatSub(t.entries, amount)
        /\ new.live = t.live /\ new.epoch_id = t.epoch_id
        /\ new.bought_epoch = t.bought_epoch /\ new.bought_amount = t.bought_amount
        /\ new.bonus_epoch = t.bonus_epoch /\ new.bonus_granted = t.bonus_granted
    BY <2>2 DEF PlayerRec
  <2>6. /\ new.principal = t.principal + (0 - amount) /\ new.entries = t.entries + (0 - amount)
        /\ 0 - amount \in Int
    BY <1>0, <2>1, <2>2, <2>4, <2>5 DEF SatSub, PlayerRec
  <2> HIDE DEF new
  <2> QED
    BY <2>1, <2>2, <2>3, <2>5, <2>6, BothMoved
<1>3. CASE buy_tickets(p, amount)
  <2> DEFINE base   == plr
             t      == touch(base, pool, now)
             bought == CountedInEpoch(t.bought_epoch, t.bought_amount, amount)
             more   == amount * price
             new    == [t EXCEPT !.bought_epoch  = c,
                                 !.bought_amount = bought,
                                 !.entries       = @ + more]
  <2>1. players' = [players EXCEPT ![p] = new] /\ base.live
    BY <1>3 DEF buy_tickets
  <2>2. t \in PlayerRec /\ base \in {players[p], init_if_fresh(players[p])}
    BY <1>0, TouchKeeps DEF Kept
  <2>3. t = touch(base, pool, now)
    OBVIOUS
  <2> HIDE DEF t, base
  <2> DEFINE a == Counted(t.bought_epoch, t.bought_amount, c)
             b == Counted(t.bonus_epoch, t.bonus_granted, c)
  <2>4. /\ t.entries = t.principal + a * price + b /\ t.live /\ t.epoch_id = c
        /\ t.bought_epoch <= c /\ t.bonus_epoch <= c
    BY <2>1, <2>2, <2>3, TouchExplained
  <2>5. bought = a + amount
    BY DEF CountedInEpoch, Counted
  <2>6. a \in Nat /\ b \in Nat /\ t.principal \in Nat
    BY <2>2 DEF Counted, PlayerRec
  <2> HIDE DEF bought, more
  <2>7. /\ new.principal = t.principal /\ new.entries = t.entries + more
        /\ new.live = t.live /\ new.epoch_id = t.epoch_id
        /\ new.bought_epoch = c /\ new.bought_amount = bought
        /\ new.bonus_epoch = t.bonus_epoch /\ new.bonus_granted = t.bonus_granted
    BY <2>2 DEF PlayerRec
  <2> HIDE DEF new
  <2>8. Counted(new.bought_epoch, new.bought_amount, c) = a + amount
        /\ Counted(new.bonus_epoch, new.bonus_granted, c) = b /\ Held(new, c) = new.entries
    BY <1>0, <2>4, <2>5, <2>7 DEF Counted, Held
  <2> HIDE DEF a, b, c, price
  <2>9. (a + amount) * price = a * price + amount * price
    BY <1>0, <2>6
  <2>10. a * price \in Int /\ amount * price \in Int
    BY <1>0, <2>6
  <2>11. new.entries = new.principal + (a + amount) * price + b
    BY <1>0, <2>4, <2>6, <2>7, <2>9, <2>10 DEF more
  <2>12. Explained(new, c, price)
    BY <1>0, <2>4, <2>7, <2>8, <2>11 DEF Explained
  <2> QED
    BY <2>1, <2>12 DEF c, price
<1> QED
  BY <1>1, <1>2, <1>3

\* Paying a request moves no Entries.
LEMMA ProcessTickets ==
  ASSUME TypeOK, TicketsKept, NEW p \in Owners, process_withdraw(p)
  PROVE  \E new : /\ players' = [players EXCEPT ![p] = new]
                  /\ Explained(new, pool.current_epoch_id, params.tickets_per_usdc)
<1> DEFINE plr   == players[p]
           c     == pool.current_epoch_id
           price == params.tickets_per_usdc
           new   == [plr EXCEPT !.pending_withdraw = 0]
<1>1. plr \in PlayerRec
  BY DEF TypeOK, Players
<1>2. players' = [players EXCEPT ![p] = new]
  BY DEF process_withdraw, TypeOK, Players
<1>3. Explained(plr, c, price)
  BY DEF TicketsKept
<1>4. plr.live
  BY <1>3 DEF process_withdraw, Explained, NoPlayer
<1>5. Explained(new, c, price)
  BY <1>1, <1>3, <1>4 DEF Explained, Held, PlayerRec
<1> QED
  BY <1>2, <1>5

\* The operator's grants go through a counter as well.
LEMMA BonusTickets ==
  ASSUME TypeOK, PeriodsKnown, TicketsKept, NEW s \in Keys, NEW p \in Owners,
         NEW amount \in Amounts, grant_tickets_operator(s, p, amount)
  PROVE  \E new : /\ players' = [players EXCEPT ![p] = new]
                  /\ Explained(new, pool.current_epoch_id, params.tickets_per_usdc)
<1> DEFINE base   == players[p]
           c      == pool.current_epoch_id
           price  == params.tickets_per_usdc
           t      == touch(base, pool, now)
           granted == CountedInEpoch(t.bonus_epoch, t.bonus_granted, amount)
           new    == [t EXCEPT !.bonus_epoch = c, !.bonus_granted = granted,
                               !.entries     = @ + amount]
<1>0. base \in PlayerRec /\ amount \in Nat /\ c \in Nat /\ price \in Nat
  BY AmountsAssumption DEF TypeOK, PoolRec, ParamRec, Players
<1>1. players' = [players EXCEPT ![p] = new] /\ base.live
  BY DEF grant_tickets_operator
<1>2. t \in PlayerRec /\ base \in {players[p], init_if_fresh(players[p])}
  BY <1>0, TouchKeeps DEF Kept
<1>3. t = touch(base, pool, now)
  OBVIOUS
<1> HIDE DEF t, base
<1> DEFINE a == Counted(t.bought_epoch, t.bought_amount, c) * price
           b == Counted(t.bonus_epoch, t.bonus_granted, c)
<1>4. /\ t.entries = t.principal + a + b /\ t.live /\ t.epoch_id = c
      /\ t.bought_epoch <= c /\ t.bonus_epoch <= c
  BY <1>1, <1>2, <1>3, TouchExplained
<1>5. granted = b + amount
  BY DEF CountedInEpoch, Counted
<1>6. a \in Int /\ b \in Int /\ t.principal \in Int
  BY <1>0, <1>2 DEF Counted, PlayerRec
<1> HIDE DEF granted
<1>7. /\ new.principal = t.principal /\ new.entries = t.entries + amount
      /\ new.live = t.live /\ new.epoch_id = t.epoch_id
      /\ new.bonus_epoch = c /\ new.bonus_granted = granted
      /\ new.bought_epoch = t.bought_epoch /\ new.bought_amount = t.bought_amount
  BY <1>2 DEF PlayerRec
<1> HIDE DEF new
<1>8. /\ Counted(new.bonus_epoch, new.bonus_granted, c) = b + amount
      /\ Counted(new.bought_epoch, new.bought_amount, c) * price = a
      /\ Held(new, c) = new.entries
  BY <1>0, <1>4, <1>5, <1>7 DEF Counted, Held
<1> HIDE DEF a, b, c, price
<1>9. new.entries = new.principal + a + (b + amount)
  BY <1>0, <1>4, <1>6, <1>7
<1>10. Explained(new, c, price)
  BY <1>0, <1>4, <1>7, <1>8, <1>9 DEF Explained
<1> QED
  BY <1>1, <1>10 DEF c, price

\* Yield is credited to Principal and Entries alike, settled first or not at all.
LEMMA RegisterTickets ==
  ASSUME TypeOK, PeriodsKnown, TicketsKept, NEW e \in EpochIds, NEW p \in Owners, register(e, p)
  PROVE  \E new : /\ players' = [players EXCEPT ![p] = new]
                  /\ Explained(new, pool.current_epoch_id, params.tickets_per_usdc)
<1> DEFINE plr      == players[p]
           c        == pool.current_epoch_id
           price    == params.tickets_per_usdc
           w        == EpochWeight(plr, e, epochs[e])
           credited == YieldCredit(plr, e)
           paid     == credit_yield(plr, e)
           from     == RegStart(e)
           listed   == [paid EXCEPT !.reg_epoch = e, !.reg_start = from, !.reg_end = from + w]
           new      == IF w = 0 THEN paid ELSE listed
           t        == touch(plr, pool, now)
           base     == IF credited > 0 THEN t ELSE plr
<1>0. plr \in PlayerRec /\ c \in Nat /\ price \in Nat /\ credited \in Nat
  BY CreditBounded DEF TypeOK, PoolRec, ParamRec, Players
<1>1. players' = [players EXCEPT ![p] = new] /\ plr.live
  BY DEF register
<1>2. Explained(plr, c, price)
  BY DEF TicketsKept
<1>3. t \in PlayerRec /\ plr \in {players[p], init_if_fresh(players[p])}
  BY <1>0, TouchKeeps DEF Kept
<1>4. t = touch(plr, pool, now)
  OBVIOUS
<1>5. paid = [base EXCEPT !.principal = @ + credited, !.entries = @ + credited,
                          !.yield_epoch = e]
  BY DEF credit_yield
<1>6. credited > 0 => base = t
  OBVIOUS
<1>7. credited = 0 => base = plr
  BY <1>0
<1>8. base \in PlayerRec
  BY <1>0, <1>3
<1> HIDE DEF t, plr, credited, w, from, paid, base, c, price
<1> DEFINE Shifted(x) == /\ x.principal = base.principal + credited
                         /\ x.entries = base.entries + credited
                         /\ x.live = base.live /\ x.epoch_id = base.epoch_id
                         /\ x.bought_epoch = base.bought_epoch
                         /\ x.bought_amount = base.bought_amount
                         /\ x.bonus_epoch = base.bonus_epoch
                         /\ x.bonus_granted = base.bonus_granted
<1>9. Shifted(paid)
  BY <1>5, <1>8 DEF PlayerRec
<1>10. Shifted(listed)
  <2>1. \E a, b : paid = [base EXCEPT !.principal = a, !.entries = b, !.yield_epoch = e]
    BY <1>5
  <2>2. /\ listed.principal = paid.principal /\ listed.entries = paid.entries
        /\ listed.live = paid.live /\ listed.epoch_id = paid.epoch_id
        /\ listed.bought_epoch = paid.bought_epoch /\ listed.bought_amount = paid.bought_amount
        /\ listed.bonus_epoch = paid.bonus_epoch /\ listed.bonus_granted = paid.bonus_granted
    <3> DEFINE to == from + w
    <3>1. listed = [paid EXCEPT !.reg_epoch = e, !.reg_start = from, !.reg_end = to]
      OBVIOUS
    <3> HIDE DEF to, listed
    <3>2. PICK a, b : paid = [base EXCEPT !.principal = a, !.entries = b, !.yield_epoch = e]
      BY <2>1
    <3> QED
      BY <1>8, <3>1, <3>2 DEF PlayerRec
  <2> QED
    BY <1>9, <2>2
<1> HIDE DEF listed
<1>11. Shifted(new)
  BY <1>9, <1>10
<1> HIDE DEF new
<1>12. Explained(new, c, price)
  <2>1. CASE credited > 0
    <3>1. /\ new.principal = t.principal + credited /\ new.entries = t.entries + credited
          /\ new.live = t.live /\ new.epoch_id = t.epoch_id
          /\ new.bought_epoch = t.bought_epoch /\ new.bought_amount = t.bought_amount
          /\ new.bonus_epoch = t.bonus_epoch /\ new.bonus_granted = t.bonus_granted
      BY <1>6, <1>11, <2>1
    <3>2. credited \in Int
      BY <1>0
    <3> HIDE DEF Shifted
    <3> QED
      BY <1>1, <1>3, <1>4, <3>1, <3>2, BothMoved DEF c, price
  <2>2. CASE credited = 0
    <3>1. /\ new.principal = plr.principal /\ new.entries = plr.entries
          /\ new.live = plr.live /\ new.epoch_id = plr.epoch_id
          /\ new.bought_epoch = plr.bought_epoch /\ new.bought_amount = plr.bought_amount
          /\ new.bonus_epoch = plr.bonus_epoch /\ new.bonus_granted = plr.bonus_granted
      BY <1>0, <1>7, <1>11, <2>2 DEF PlayerRec
    <3> HIDE DEF Shifted
    <3> QED
      BY <1>1, <1>2, <3>1 DEF Explained, Held
  <2> QED
    BY <1>0, <2>1, <2>2
<1> QED
  BY <1>1, <1>12 DEF c, price

\* A prize becomes Principal and Entries alike.
LEMMA PayoutTickets ==
  ASSUME TypeOK, PeriodsKnown, TicketsKept, NEW e \in EpochIds, NEW p \in Owners, payout(e, p)
  PROVE  \E new : /\ players' = [players EXCEPT ![p] = new]
                  /\ Explained(new, pool.current_epoch_id, params.tickets_per_usdc)
<1> DEFINE plr    == players[p]
           t      == touch(plr, pool, now)
           amount == epochs[e].jackpot_amount
           new    == [t EXCEPT !.principal = @ + amount, !.entries = @ + amount]
<1>1. plr \in PlayerRec /\ amount \in Nat /\ e # 0
  BY DEF TypeOK, EpochRec, EpochIds, Players
<1>2. players' = [players EXCEPT ![p] = new]
  <2>1. p # House
    BY KeysAssumption
  <2> QED
    BY <2>1 DEF payout
<1>3. plr.live
  <2>1. plr.reg_epoch = e
    BY DEF payout, IsWinner
  <2> QED
    BY <1>1, <2>1 DEF TicketsKept, Explained, NoPlayer
<1>4. t \in PlayerRec /\ plr \in {players[p], init_if_fresh(players[p])}
  BY <1>1, TouchKeeps DEF Kept
<1>5. t = touch(plr, pool, now)
  OBVIOUS
<1> HIDE DEF t, plr, amount
<1>6. /\ new.principal = t.principal + amount /\ new.entries = t.entries + amount
      /\ new.live = t.live /\ new.epoch_id = t.epoch_id
      /\ new.bought_epoch = t.bought_epoch /\ new.bought_amount = t.bought_amount
      /\ new.bonus_epoch = t.bonus_epoch /\ new.bonus_granted = t.bonus_granted
  BY <1>4 DEF PlayerRec
<1> HIDE DEF new
<1>7. amount \in Int
  BY <1>1
<1> QED
  BY <1>2, <1>3, <1>4, <1>5, <1>6, <1>7, BothMoved

\* begin_epoch resets Entries to Principal and both counters to nothing.
LEMMA BeginTickets ==
  ASSUME TypeOK, PeriodsKnown, TicketsKept, NEW s \in Keys, begin_epoch(s)
  PROVE  TicketsKept'
<1> PICK c \in Nat : c = pool.current_epoch_id
  BY DEF TypeOK, PoolRec
<1>1. /\ players' = players /\ params' = params /\ pool'.current_epoch_id = c + 1
  BY BeginFrame DEF begin_epoch
<1>2. ASSUME NEW p \in Owners
      PROVE  Explained(players[p], c + 1, params.tickets_per_usdc)
  <2> DEFINE plr == players[p]
  <2>1. /\ plr \in PlayerRec /\ plr.epoch_id <= c /\ Explained(plr, c, params.tickets_per_usdc)
        /\ params.tickets_per_usdc \in Nat
    BY DEF TypeOK, ParamRec, PeriodsKnown, TicketsKept, Players
  <2>2. /\ plr.epoch_id \in Nat /\ plr.bought_epoch \in Nat /\ plr.bonus_epoch \in Nat
        /\ plr.principal \in Nat
    BY <2>1 DEF PlayerRec
  <2> HIDE DEF plr
  <2>3. plr.bought_epoch <= c /\ plr.bonus_epoch <= c /\ (~plr.live => plr = NoPlayer)
    BY <2>1 DEF Explained
  <2>4. /\ Held(plr, c + 1) = plr.principal
        /\ Counted(plr.bought_epoch, plr.bought_amount, c + 1) = 0
        /\ Counted(plr.bonus_epoch, plr.bonus_granted, c + 1) = 0
    BY <2>1, <2>2, <2>3 DEF Held, Counted
  <2>5. 0 * params.tickets_per_usdc = 0
    BY <2>1
  <2>6. Explained(plr, c + 1, params.tickets_per_usdc)
    BY <2>2, <2>3, <2>4, <2>5 DEF Explained
  <2> QED
    BY <2>6 DEF plr
<1> QED
  BY <1>1, <1>2 DEF TicketsKept

\* Every step but those that bring other tickets keeps them explained.
LEMMA NextTickets ==
  ASSUME TypeOK, PeriodsKnown, TicketsKept, [Next]_vars, ~OtherTickets \/ UNCHANGED vars
  PROVE  TicketsKept'
<1> DEFINE Same == \A p \in Owners : players'[p] = players[p]
           One  == \E p \in Owners : \E new :
                     /\ players' = [players EXCEPT ![p] = new]
                     /\ Explained(new, pool.current_epoch_id, params.tickets_per_usdc)
<1>1. params'.tickets_per_usdc = params.tickets_per_usdc
  BY DEF OtherTickets, vars
<1>2. CASE UNCHANGED vars
  <2>1. players' = players /\ pool' = pool
    BY <1>2 DEF vars
  <2> QED
    BY <1>1, <2>1, OneExplained
<1>3. ASSUME Next, ~OtherTickets PROVE TicketsKept'
  <2>1. ASSUME NEW p \in Players, p \notin Owners, \E new : players' = [players EXCEPT ![p] = new]
        PROVE  Same
    BY <2>1, OneAccount DEF Players
  <2>2. CASE Tick \/ AdminNext \/ TreasuryNext \/ FundingNext
    <3>1. players' = players
      BY <2>2 DEF Tick, AdminNext, TreasuryNext, FundingNext, set_params, set_pause,
         set_feature_pause, shutdown, set_operator, propose_admin, accept_admin,
         admin_withdraw, return_principal, sweep_house, fund_jackpot, fund_yield
    <3>2. pool'.current_epoch_id = pool.current_epoch_id
      BY <2>2, OutsideTheDraws DEF CustodyNext, SamePeriods
    <3> QED
      BY <1>1, <3>1, <3>2, OneExplained
  <2>3. CASE DepositorNext
    <3>1. PICK p \in Players :
            \/ \E amount \in Amounts :
                 deposit(p, amount) \/ request_withdraw(p, amount) \/ buy_tickets(p, amount)
            \/ process_withdraw(p) \/ emergency_withdraw(p)
      BY <2>3 DEF DepositorNext
    <3>2. ASSUME p \in Owners PROVE One
      <4>1. \/ \E amount \in Amounts :
                 deposit(p, amount) \/ request_withdraw(p, amount) \/ buy_tickets(p, amount)
            \/ process_withdraw(p)
        BY <1>3, <3>1, <3>2 DEF OtherTickets
      <4>2. \E new : /\ players' = [players EXCEPT ![p] = new]
                     /\ Explained(new, pool.current_epoch_id, params.tickets_per_usdc)
        BY <3>2, <4>1, DepositorTickets, ProcessTickets
      <4> QED
        BY <3>2, <4>2
    <3>3. ASSUME p \notin Owners PROVE Same
      <4>1. WritesPlayer(p)
        BY <3>1, DepositWrites, RequestWrites, BuyTicketsWrites, ProcessWrites, EmergencyWrites
      <4> QED
        BY <2>1, <3>3, <4>1 DEF WritesPlayer
    <3>4. Same \/ One
      BY <3>2, <3>3
    <3>5. pool'.current_epoch_id = pool.current_epoch_id
      BY <2>3, OutsideTheDraws DEF CustodyNext, SamePeriods
    <3> QED
      BY <1>1, <3>4, <3>5, OneExplained
  <2>4. CASE GrantNext
    <3>1. PICK s \in Keys, p \in Players, amount \in Amounts :
            grant_tickets_operator(s, p, amount) \/ grant_tickets_admin(s, p, amount)
      BY <2>4 DEF GrantNext, grant_tickets
    <3>2. ASSUME p \in Owners PROVE One
      <4>1. grant_tickets_operator(s, p, amount)
        BY <1>3, <3>1, <3>2 DEF OtherTickets
      <4>2. \E new : /\ players' = [players EXCEPT ![p] = new]
                     /\ Explained(new, pool.current_epoch_id, params.tickets_per_usdc)
        BY <3>2, <4>1, BonusTickets
      <4> QED
        BY <3>2, <4>2
    <3>3. ASSUME p \notin Owners PROVE Same
      <4>1. \E new : players' = [players EXCEPT ![p] = new]
        BY <3>1 DEF grant_tickets_operator, grant_tickets_admin
      <4> QED
        BY <2>1, <3>3, <4>1
    <3>4. Same \/ One
      BY <3>2, <3>3
    <3>5. pool'.current_epoch_id = pool.current_epoch_id
      BY <2>4, OutsideTheDraws DEF CustodyNext, SamePeriods
    <3> QED
      BY <1>1, <3>4, <3>5, OneExplained
  <2>5. CASE RoundsNext
    <3>1. pool'.current_epoch_id = pool.current_epoch_id
      BY <2>5, OutsideTheDraws DEF SamePeriods
    <3>2. ASSUME NEW r \in RoundIds, NEW tile \in Tiles, settle_round(r, tile) PROVE Same
      <4>1. \A p \in Owners : p # House
        BY KeysAssumption
      <4>2. players' = players \/ \E new : players' = [players EXCEPT ![House] = new]
        BY <3>2 DEF settle_round
      <4> QED
        BY <4>1, <4>2, OneAccount DEF Players
    <3>3. ASSUME NEW s \in Keys, NEW starts_at \in now..(now + MaxLead), create_round(s, starts_at)
          PROVE  Same
      BY <3>3 DEF create_round
    <3>4. ASSUME NEW r \in RoundIds,
                 \/ request_round_randomness(r) \/ FulfillRound(r) \/ void_round(r) \/ close_round(r)
          PROVE  Same
      BY <3>4 DEF request_round_randomness, FulfillRound, void_round, close_round
    <3>5. ~PlayNext
      BY <1>3 DEF OtherTickets
    <3>6. Same
      BY <2>5, <3>2, <3>3, <3>4, <3>5 DEF RoundsNext, OperatorRoundNext, AnyoneRoundNext
    <3> QED
      BY <1>1, <3>1, <3>6, OneExplained
  <2>6. ASSUME NEW s \in Keys, begin_epoch(s) PROVE TicketsKept'
    BY <2>6, BeginTickets
  <2>7. ASSUME NEW e \in EpochIds,
               \/ \E s \in Keys : close_registration(s, e)
               \/ \E p \in Players : register(e, p) \/ payout(e, p)
               \/ \E target \in 0..(epochs[e].registered_weight - 1) : draw(e, target)
               \/ rollover_epoch(e) \/ FulfillEpoch(e)
        PROVE  TicketsKept'
    <3>1. pool'.current_epoch_id = pool.current_epoch_id
      BY <2>7, OneEpoch DEF SamePeriods
    <3>2. ASSUME NEW p \in Players, register(e, p) \/ payout(e, p)
          PROVE  Same \/ One
      <4>1. CASE p \in Owners
        BY <3>2, <4>1, RegisterTickets, PayoutTickets
      <4>2. CASE p \notin Owners
        <5>1. players' = players \/ \E new : players' = [players EXCEPT ![p] = new]
          <6>1. CASE register(e, p)
            <7>1. PICK new : Registers(e, p, new)
              BY <6>1, RegisterWrites
            <7> QED
              BY <7>1 DEF Registers
          <6>2. CASE payout(e, p)
            BY <6>2, PayoutWrites DEF WritesPlayer
          <6> QED
            BY <3>2, <6>1, <6>2
        <5> QED
          BY <2>1, <4>2, <5>1
      <4> QED
        BY <4>1, <4>2
    <3>3. ASSUME ~\E p \in Players : register(e, p) \/ payout(e, p)
          PROVE  players' = players
      BY <2>7, <3>3 DEF close_registration, draw, rollover_epoch, FulfillEpoch
    <3>4. Same \/ One
      BY <3>2, <3>3
    <3> QED
      BY <1>1, <3>1, <3>4, OneExplained
  <2> QED
    BY <1>3, <2>2, <2>3, <2>4, <2>5, <2>6, <2>7 DEF Next, CustodyNext, EpochsNext,
       OperatorEpochNext, AnyoneEpochNext
<1> QED
  BY <1>2, <1>3

\* What Held stands for.
LEMMA TicketsShown ==
  ASSUME TypeOK, PeriodsKnown, TicketsKept
  PROVE  TicketsTrue
<1> SUFFICES ASSUME NEW p \in Owners
             PROVE  EntriesNow(p) =
                      players[p].principal
                      + CountedInEpoch(players[p].bought_epoch, players[p].bought_amount, 0)
                          * params.tickets_per_usdc
                      + CountedInEpoch(players[p].bonus_epoch, players[p].bonus_granted, 0)
  BY AllowanceShown DEF TicketsExplained, TicketsTrue
<1> DEFINE plr == players[p]
           c   == pool.current_epoch_id
<1>1. /\ plr \in PlayerRec /\ pool \in PoolRec /\ now \in Int /\ plr.epoch_id <= c
      /\ Explained(plr, c, params.tickets_per_usdc)
  BY DEF TypeOK, PeriodsKnown, TicketsKept, Players
<1>2. EntriesNow(p) = Held(plr, c)
  BY <1>1, TouchTickets DEF EntriesNow
<1>3. plr.bought_amount \in Nat /\ plr.bonus_granted \in Nat
  BY <1>1 DEF PlayerRec
<1>4. /\ CountedInEpoch(plr.bought_epoch, plr.bought_amount, 0)
           = Counted(plr.bought_epoch, plr.bought_amount, c)
      /\ CountedInEpoch(plr.bonus_epoch, plr.bonus_granted, 0)
           = Counted(plr.bonus_epoch, plr.bonus_granted, c)
  BY <1>3 DEF CountedInEpoch, Counted
<1> QED
  BY <1>1, <1>2, <1>4 DEF Explained

\* A depositor's Entries are Principal plus what was bought and granted in this
\* epoch (bought_amount_after, bonus_after: custody.rs:922): the lazy reset of
\* Entries and those of the two counters never drift apart, whichever
\* instruction first touches a Player, as long as nobody plays, the admin grants
\* depositors nothing, nobody takes the emergency exit and the price stays. What
\* the API shows of them (playerTicketExtras) is what the program accepts.
THEOREM TicketsAccounted == Spec /\ NoOtherTickets => []TicketsTrue
<1>1. Init => TypeOK /\ PeriodsKnown /\ TicketsKept
  <2> SUFFICES ASSUME Init PROVE TypeOK /\ PeriodsKnown /\ TicketsKept
    OBVIOUS
  <2>1. PeriodsKnown
    BY BoundsAssumption DEF Init, InitWith, NoPlayer, PeriodsKnown
  <2>2. TypeOK
    BY InitType
  <2>3. ASSUME NEW p \in Owners
        PROVE  Explained(players[p], pool.current_epoch_id, params.tickets_per_usdc)
    <3>1. players[p] = NoPlayer /\ pool.current_epoch_id = 0
      BY KeysAssumption DEF Init, InitWith, Players
    <3>2. params.tickets_per_usdc \in Nat
      BY <2>2 DEF TypeOK, ParamRec
    <3>3. 0 * params.tickets_per_usdc = 0
      BY <3>2
    <3> QED
      BY <3>1, <3>3 DEF Explained, Held, Counted, NoPlayer
  <2> QED
    BY <2>1, <2>2, <2>3 DEF TicketsKept
<1>2. TypeOK /\ TypeOK' /\ PeriodsKnown /\ [Next]_vars => PeriodsKnown'
  BY NextPeriods
<1>3. TypeOK /\ PeriodsKnown /\ TicketsKept /\ [Next]_vars /\ [~OtherTickets]_vars
        => TicketsKept'
  BY NextTickets
<1>4. TypeOK /\ PeriodsKnown /\ TicketsKept => TicketsTrue
  BY TicketsShown
<1> QED
  BY <1>1, <1>2, <1>3, <1>4, TypeCorrect, PTL DEF Spec, NoOtherTickets

-----------------------------------------------------------------------------
(* Entries in play, where they come from Principal alone.                  *)

\* The Entries of the Principal p withdraws are not in p's hands but at stake
\* or lost.
AtStake(p, amount) == EntriesNow(p) < amount

\* Principal is withdrawn whose Entries are at stake or lost, or Entries come
\* from a purchase or a grant.
OtherEntries ==
  \/ \E p \in Players, amount \in Amounts : \/ request_withdraw(p, amount) /\ AtStake(p, amount)
                                           \/ buy_tickets(p, amount)
  \/ \E p \in Players : emergency_withdraw(p) /\ AtStake(p, players[p].principal)
  \/ GrantNext

NoOtherEntries == [][~OtherEntries]_vars

\* No pot is waiting to be carried when an epoch begins.
NoCarryOver == pool'.current_epoch_id # pool.current_epoch_id => pool.carry_pot = 0

CarryUsedUp == [][NoCarryOver]_vars

\* No round is of an epoch to come, and an account not created yet is empty.
RoundsBehind == \A r \in RoundIds : rounds[r].epoch_id <= pool.current_epoch_id

BlankUntilCreated == \A p \in Players : ~players[p].live => players[p] = NoPlayer

MatchKept ==
  /\ PeriodsKnown /\ Seated /\ BlankUntilCreated /\ RoundsBehind
  /\ BooksAddUp /\ RoundsTracked /\ StakesTracked
  /\ EntriesMatchPrincipal

LEMMA PotsNat ==
  ASSUME TypeOK, SettledSound
  PROVE  PotsInPlay \in Nat
<1> DEFINE f == [r \in RoundIds |-> PotInPlay(r)]
<1>1. DOMAIN f = RoundIds /\ \A r \in RoundIds : f[r] \in Nat
  BY PotNat
<1>2. IsFiniteSet(RoundIds)
  BY BoundsAssumption, FS_Interval DEF RoundIds
<1> HIDE DEF f
<1>3. Total(f) \in Nat
  BY <1>1, <1>2, TotalNat
<1> QED
  BY <1>3 DEF PotsInPlay, f

LEMMA InPlayNatNext == (TypeOK /\ SettledSound => PotsInPlay \in Nat /\ EntriesHeld \in Nat)'
<1>1. TypeOK /\ SettledSound => PotsInPlay \in Nat /\ EntriesHeld \in Nat
  BY PotsNat, HeldNat
<1> QED
  BY <1>1, PTL

\* A step outside the game that changes the Entries held by n and the total
\* Principal by no less.
LEMMA SameMatch ==
  ASSUME TypeOK, TypeOK', StakesTracked, EntriesMatchPrincipal, NEW n \in Int,
         rounds' = rounds, positions' = positions,
         pool'.current_epoch_id = pool.current_epoch_id, pool'.carry_pot = pool.carry_pot,
         EntriesHeld' = EntriesHeld + n,
         pool'.total_principal >= pool.total_principal + n
  PROVE  EntriesMatchPrincipal'
<1>1. PotsInPlay' = PotsInPlay
  <2>1. ASSUME NEW r \in RoundIds PROVE PotInPlay(r)' = PotInPlay(r)
    <3>1. [p \in Owners |-> Reward(r, p)'] = [p \in Owners |-> Reward(r, p)]
      BY DEF Reward, Rewarded
    <3> QED
      BY <3>1 DEF PotInPlay
  <2> QED
    BY <2>1 DEF PotsInPlay
<1>2. PotsInPlay \in Nat /\ EntriesHeld \in Nat
  BY PotsNat, HeldNat DEF StakesTracked
<1>3. /\ pool.carry_pot \in Nat /\ pool.total_principal \in Nat
      /\ pool'.total_principal \in Nat
  BY DEF TypeOK, PoolRec
<1>4. /\ EntriesInPlay = EntriesHeld + PotsInPlay + pool.carry_pot
      /\ EntriesInPlay' = EntriesHeld' + PotsInPlay' + pool'.carry_pot
  BY DEF EntriesInPlay, EntriesHeld, PotsInPlay
<1>5. EntriesInPlay <= pool.total_principal
  BY DEF EntriesMatchPrincipal
<1>6. EntriesInPlay' <= pool'.total_principal
  BY <1>1, <1>2, <1>3, <1>4, <1>5
<1> QED
  BY <1>6 DEF EntriesMatchPrincipal

\* One account grows by n in Entries and by no less in Principal.
LEMMA CreditMatch ==
  ASSUME TypeOK, TypeOK', StakesTracked, EntriesMatchPrincipal, NEW p \in Players, NEW n \in Int,
         NEW new, players' = [players EXCEPT ![p] = new],
         Held(new, pool.current_epoch_id) = Held(players[p], pool.current_epoch_id) + n,
         rounds' = rounds, positions' = positions,
         pool'.current_epoch_id = pool.current_epoch_id, pool'.carry_pot = pool.carry_pot,
         pool'.total_principal >= pool.total_principal + n
  PROVE  EntriesMatchPrincipal'
<1>1. EntriesHeld' = EntriesHeld + n
  BY HeldAdds
<1> QED
  BY <1>1, SameMatch

\* Nobody's account is written, and no Principal is booked.
LEMMA StillMatch ==
  ASSUME TypeOK, TypeOK', StakesTracked, EntriesMatchPrincipal, players' = players,
         rounds' = rounds, positions' = positions,
         pool'.current_epoch_id = pool.current_epoch_id, pool'.carry_pot = pool.carry_pot,
         pool'.total_principal = pool.total_principal
  PROVE  EntriesMatchPrincipal'
<1>1. EntriesHeld' = EntriesHeld + 0
  <2>1. EntriesHeld' = EntriesHeld
    BY HeldStays
  <2> QED
    BY <2>1, HeldNat
<1>2. pool'.total_principal >= pool.total_principal + 0
  BY DEF TypeOK, PoolRec
<1> QED
  BY <1>1, <1>2, SameMatch

\* What an account credited after touch would be touched to.
LEMMA CreditedHeld ==
  ASSUME TypeOK, NEW p \in Players, NEW n \in Nat, NEW t, NEW new,
         t = touch(players[p], pool, now),
         new.epoch_id = t.epoch_id, new.entries = t.entries + n
  PROVE  Held(new, pool.current_epoch_id) = Held(players[p], pool.current_epoch_id) + n
<1>1. pool \in PoolRec /\ now \in Int /\ players[p] \in PlayerRec
  BY DEF TypeOK
<1>2. t.entries = Held(players[p], pool.current_epoch_id) /\ t.epoch_id >= pool.current_epoch_id
  BY <1>1, TouchedEntries
<1> QED
  BY <1>2 DEF Held

LEMMA DepositMatch ==
  ASSUME TypeOK, TypeOK', MatchKept, NEW p \in Players, NEW amount \in Amounts, deposit(p, amount)
  PROVE  EntriesMatchPrincipal'
<1> DEFINE base == init_if_fresh(players[p])
           t    == touch(base, pool, now)
           new  == [t EXCEPT !.principal = @ + amount, !.entries = @ + amount]
           c    == pool.current_epoch_id
<1>1. /\ pool \in PoolRec /\ now \in Int /\ players[p] \in PlayerRec /\ amount \in Nat
      /\ c \in Nat
  BY AmountsAssumption DEF TypeOK, PoolRec
<1>2. Held(base, c) = Held(players[p], c)
  <2>1. CASE players[p].live
    BY <2>1 DEF init_if_fresh
  <2>2. CASE ~players[p].live
    <3>1. players[p].entries = players[p].principal
      BY <2>2 DEF MatchKept, BlankUntilCreated, NoPlayer
    <3>2. base.entries = players[p].entries /\ base.epoch_id = c
      BY <1>1, <2>2 DEF init_if_fresh, PlayerRec
    <3> HIDE DEF base, c
    <3> QED
      BY <1>1, <3>1, <3>2 DEF Held
  <2> QED
    BY <2>1, <2>2
<1>3. base \in PlayerRec /\ t \in PlayerRec
  BY <1>1, FreshType, FreshTouchKeeps DEF Kept
<1>4. t.entries = Held(base, c) /\ t.epoch_id >= c
  BY <1>1, <1>3, TouchedEntries
<1>5. /\ players' = [players EXCEPT ![p] = new]
      /\ rounds' = rounds /\ positions' = positions
  BY DEF deposit
<1>6. /\ pool'.current_epoch_id = pool.current_epoch_id /\ pool'.carry_pot = pool.carry_pot
      /\ pool'.total_principal >= pool.total_principal + amount
  BY <1>1 DEF deposit, PoolRec
<1> HIDE DEF t, base
<1>7. new.entries = t.entries + amount /\ new.epoch_id = t.epoch_id
  BY <1>3 DEF PlayerRec
<1> HIDE DEF new
<1>8. Held(new, pool.current_epoch_id) = Held(players[p], pool.current_epoch_id) + amount
  BY <1>2, <1>4, <1>7 DEF Held
<1>9. StakesTracked /\ EntriesMatchPrincipal
  BY DEF MatchKept
<1> HIDE DEF c
<1>10. amount \in Int
  BY <1>1
<1> QED
  BY <1>5, <1>6, <1>8, <1>9, <1>10, CreditMatch

\* A withdrawal takes the Entries of what is withdrawn, where they are at hand.
LEMMA RequestMatch ==
  ASSUME TypeOK, TypeOK', MatchKept, NEW p \in Players, NEW amount \in Amounts,
         request_withdraw(p, amount), ~AtStake(p, amount)
  PROVE  EntriesMatchPrincipal'
<1> DEFINE t   == touch(players[p], pool, now)
           new == [t EXCEPT !.principal = @ - amount, !.entries = SatSub(@, amount),
                            !.pending_withdraw = @ + amount,
                            !.pending_epoch = pool.current_epoch_id, !.requested_at = now]
<1>1. /\ pool \in PoolRec /\ now \in Int /\ players[p] \in PlayerRec /\ t \in PlayerRec
      /\ amount \in Nat
  BY AmountsAssumption, PlayerTouchType DEF TypeOK
<1>2. /\ t.entries = Held(players[p], pool.current_epoch_id)
      /\ t.epoch_id >= pool.current_epoch_id
  BY <1>1, TouchedEntries
<1>3. t.entries >= amount /\ t.entries \in Nat
  BY <1>1 DEF AtStake, EntriesNow, PlayerRec
<1>4. /\ players' = [players EXCEPT ![p] = new]
      /\ rounds' = rounds /\ positions' = positions
  BY DEF request_withdraw
<1>5. /\ pool'.current_epoch_id = pool.current_epoch_id /\ pool'.carry_pot = pool.carry_pot
      /\ pool'.total_principal >= pool.total_principal + (0 - amount)
  BY <1>1 DEF request_withdraw, PoolRec
<1> HIDE DEF t
<1>6. new.entries = SatSub(t.entries, amount) /\ new.epoch_id = t.epoch_id
  BY <1>1 DEF PlayerRec
<1> HIDE DEF new
<1>7. new.entries = t.entries + (0 - amount)
  BY <1>1, <1>3, <1>6 DEF SatSub
<1>8. Held(new, pool.current_epoch_id)
        = Held(players[p], pool.current_epoch_id) + (0 - amount)
  BY <1>2, <1>6, <1>7 DEF Held
<1>9. 0 - amount \in Int /\ StakesTracked /\ EntriesMatchPrincipal
  BY <1>1 DEF MatchKept
<1> QED
  BY <1>4, <1>5, <1>8, <1>9, CreditMatch

\* Leaving after shutdown takes all Entries, no fewer than the Principal.
LEMMA EmergencyMatch ==
  ASSUME TypeOK, TypeOK', MatchKept, NEW p \in Players, emergency_withdraw(p),
         ~AtStake(p, players[p].principal)
  PROVE  EntriesMatchPrincipal'
<1> DEFINE t    == touch(players[p], pool, now)
           new  == [t EXCEPT !.principal = 0, !.entries = 0, !.pending_withdraw = 0]
           held == Held(players[p], pool.current_epoch_id)
<1>1. pool \in PoolRec /\ now \in Int /\ players[p] \in PlayerRec /\ t \in PlayerRec
  BY PlayerTouchType DEF TypeOK
<1>2. t.entries = held /\ t.epoch_id >= pool.current_epoch_id
  BY <1>1, TouchedEntries
<1>3. held >= players[p].principal /\ held \in Nat /\ t.principal = players[p].principal
  <2>1. t.entries >= players[p].principal /\ t.entries \in Nat
    BY <1>1 DEF AtStake, EntriesNow, PlayerRec
  <2>2. t.principal = players[p].principal
    BY <1>1, TouchKeeps DEF Kept
  <2> QED
    BY <1>2, <2>1, <2>2
<1>4. /\ players' = [players EXCEPT ![p] = new]
      /\ rounds' = rounds /\ positions' = positions
  BY DEF emergency_withdraw
<1>5. /\ pool'.current_epoch_id = pool.current_epoch_id /\ pool'.carry_pot = pool.carry_pot
      /\ pool'.total_principal = pool.total_principal - t.principal
  BY <1>1 DEF emergency_withdraw, PoolRec
<1> HIDE DEF t, held
<1>6. new.entries = 0 /\ new.epoch_id = t.epoch_id
  BY <1>1 DEF PlayerRec
<1> HIDE DEF new
<1>7. Held(new, pool.current_epoch_id)
        = Held(players[p], pool.current_epoch_id) + (0 - held)
  BY <1>2, <1>3, <1>6 DEF Held, held
<1>8. pool'.total_principal >= pool.total_principal + (0 - held)
  <2>1. pool.total_principal \in Nat /\ players[p].principal \in Nat
    BY <1>1 DEF PoolRec, PlayerRec
  <2> QED
    BY <1>3, <1>5, <2>1
<1>9. 0 - held \in Int /\ StakesTracked /\ EntriesMatchPrincipal
  BY <1>3 DEF MatchKept
<1> QED
  BY <1>4, <1>5, <1>7, <1>8, <1>9, CreditMatch

LEMMA ProcessMatch ==
  ASSUME TypeOK, TypeOK', MatchKept, NEW p \in Players, process_withdraw(p)
  PROVE  EntriesMatchPrincipal'
<1> DEFINE new == [players[p] EXCEPT !.pending_withdraw = 0]
           c   == pool.current_epoch_id
           less == pool.pending_withdrawals - players[p].pending_withdraw
<1>1. pool \in PoolRec /\ players[p] \in PlayerRec /\ c \in Nat /\ pool.total_principal \in Nat
  BY DEF TypeOK, PoolRec
<1>2. /\ players' = [players EXCEPT ![p] = new]
      /\ rounds' = rounds /\ positions' = positions
  BY DEF process_withdraw, TypeOK
<1>3. /\ pool'.current_epoch_id = pool.current_epoch_id /\ pool'.carry_pot = pool.carry_pot
      /\ pool'.total_principal >= pool.total_principal + 0
  <2>1. pool' = [pool EXCEPT !.pending_withdrawals = less]
    BY DEF process_withdraw
  <2> HIDE DEF less
  <2> QED
    BY <1>1, <2>1 DEF PoolRec
<1>4. /\ new.entries = players[p].entries /\ new.epoch_id = players[p].epoch_id
      /\ new.principal = players[p].principal
      /\ players[p].entries \in Nat /\ players[p].principal \in Nat
  BY <1>1 DEF PlayerRec
<1> HIDE DEF new
<1>5. Held(new, pool.current_epoch_id) = Held(players[p], pool.current_epoch_id) + 0
  BY <1>4 DEF Held
<1>6. StakesTracked /\ EntriesMatchPrincipal
  BY DEF MatchKept
<1> HIDE DEF c
<1>7. 0 \in Int
  OBVIOUS
<1> QED
  BY <1>2, <1>3, <1>5, <1>6, <1>7, CreditMatch

\* A credit is booked as Principal and handed out as Entries; without one the
\* account is not even touched.
LEMMA RegisterMatch ==
  ASSUME TypeOK, TypeOK', MatchKept, NEW e \in EpochIds, NEW p \in Players, register(e, p)
  PROVE  EntriesMatchPrincipal'
<1> DEFINE plr      == players[p]
           w        == EpochWeight(plr, e, epochs[e])
           credited == YieldCredit(plr, e)
           base     == IF credited > 0 THEN touch(plr, pool, now) ELSE plr
           paid     == credit_yield(plr, e)
           from     == RegStart(e)
           to       == from + w
           listed   == [paid EXCEPT !.reg_epoch = e, !.reg_start = from, !.reg_end = to]
           new      == IF w = 0 THEN paid ELSE listed
           c        == pool.current_epoch_id
<1>1. /\ pool \in PoolRec /\ plr \in PlayerRec /\ now \in Int /\ c \in Nat
      /\ plr.entries \in Nat /\ plr.principal \in Nat
  BY DEF TypeOK, PoolRec, PlayerRec
<1>2. credited \in Nat
  BY CreditBounded
<1>3. base \in PlayerRec
  BY <1>1, TouchKeeps DEF Kept
<1>4. /\ players' = [players EXCEPT ![p] = new]
      /\ rounds' = rounds /\ positions' = positions
  BY DEF register
<1>5. pool' = [pool EXCEPT !.total_principal = @ + credited, !.yield_budget = @ - credited]
  BY DEF register
<1>6. paid = [base EXCEPT !.principal = @ + credited, !.entries = @ + credited,
                          !.yield_epoch = e]
  BY DEF credit_yield
<1>7. credited > 0 => base = touch(plr, pool, now)
  OBVIOUS
<1>8. credited = 0 => base = plr
  BY <1>2
<1>9. plr = players[p]
  OBVIOUS
<1> HIDE DEF plr, w, credited, base, paid, from, to
<1>10. /\ paid.entries = base.entries + credited /\ paid.epoch_id = base.epoch_id
       /\ paid.principal = base.principal + credited
       /\ listed.entries = paid.entries /\ listed.epoch_id = paid.epoch_id
       /\ listed.principal = paid.principal
  BY <1>3, <1>6 DEF PlayerRec
<1>11. /\ new.entries = base.entries + credited /\ new.epoch_id = base.epoch_id
       /\ new.principal = base.principal + credited
  BY <1>10
<1> HIDE DEF new
<1>12. Held(new, pool.current_epoch_id) = Held(players[p], pool.current_epoch_id) + credited
  <2>1. CASE credited > 0
    BY <1>2, <1>7, <1>9, <1>11, <2>1, CreditedHeld
  <2>2. CASE credited = 0
    BY <1>1, <1>8, <1>9, <1>11, <2>2 DEF Held
  <2> QED
    BY <1>2, <2>1, <2>2
<1>13. /\ pool'.current_epoch_id = pool.current_epoch_id /\ pool'.carry_pot = pool.carry_pot
       /\ pool'.total_principal >= pool.total_principal + credited
  BY <1>1, <1>2, <1>5 DEF PoolRec
<1>14. credited \in Int /\ StakesTracked /\ EntriesMatchPrincipal
  BY <1>2 DEF MatchKept
<1> HIDE DEF c
<1> QED
  BY <1>4, <1>12, <1>13, <1>14, CreditMatch

\* A prize compounds; the House's leaves the pool.
LEMMA PayoutMatch ==
  ASSUME TypeOK, TypeOK', MatchKept, NEW e \in EpochIds, NEW p \in Players, payout(e, p)
  PROVE  EntriesMatchPrincipal'
<1> DEFINE amount == epochs[e].jackpot_amount
           t      == touch(players[p], pool, now)
           new    == [t EXCEPT !.principal = @ + amount, !.entries = @ + amount]
           c      == pool.current_epoch_id
<1>1. pool \in PoolRec /\ t \in PlayerRec /\ amount \in Nat
  BY PlayerTouchType DEF TypeOK, EpochRec
<1>2. rounds' = rounds /\ positions' = positions
  BY DEF payout
<1>3. CASE p = House
  <2>1. players' = players /\ pool' = [pool EXCEPT !.jackpot_reserved = @ - amount]
    BY <1>3 DEF payout
  <2>2. /\ pool'.current_epoch_id = pool.current_epoch_id /\ pool'.carry_pot = pool.carry_pot
        /\ pool'.total_principal = pool.total_principal
    BY <1>1, <2>1 DEF PoolRec
  <2> QED
    BY <1>2, <2>1, <2>2, StillMatch DEF MatchKept
<1>4. CASE p # House
  <2>1. players' = [players EXCEPT ![p] = new]
    BY <1>4 DEF payout
  <2>2. pool' = [pool EXCEPT !.jackpot_reserved = @ - amount, !.total_principal  = @ + amount]
    BY <1>4 DEF payout
  <2>3. t = touch(players[p], pool, now)
    OBVIOUS
  <2> HIDE DEF t, amount
  <2>4. new.entries = t.entries + amount /\ new.epoch_id = t.epoch_id
    BY <1>1 DEF PlayerRec
  <2> HIDE DEF new
  <2>5. Held(new, pool.current_epoch_id) = Held(players[p], pool.current_epoch_id) + amount
    BY <1>1, <2>3, <2>4, CreditedHeld
  <2>6. /\ pool'.current_epoch_id = pool.current_epoch_id /\ pool'.carry_pot = pool.carry_pot
        /\ pool'.total_principal >= pool.total_principal + amount
    BY <1>1, <2>2 DEF PoolRec
  <2>7. amount \in Int /\ StakesTracked /\ EntriesMatchPrincipal
    BY <1>1 DEF MatchKept
  <2> HIDE DEF c
  <2> QED
    BY <1>2, <2>1, <2>5, <2>6, <2>7, CreditMatch
<1> QED
  BY <1>3, <1>4

\* Where an epoch begins every account would be touched back to its Principal,
\* and no round of it holds anything yet.
LEMMA BeginMatch ==
  ASSUME TypeOK, TypeOK', MatchKept, NEW s \in Keys, begin_epoch(s), pool.carry_pot = 0
  PROVE  EntriesMatchPrincipal'
<1> PICK c \in Nat : c = pool.current_epoch_id
  BY DEF TypeOK, PoolRec
<1>1. pool'.current_epoch_id = c + 1
  BY BeginFrame
<1>2. /\ players' = players /\ rounds' = rounds
      /\ pool'.carry_pot = 0 /\ pool'.total_principal = pool.total_principal
  BY DEF begin_epoch, TypeOK, PoolRec
<1>3. EntriesHeld' = pool.total_principal
  <2>1. ASSUME NEW q \in Players PROVE EntriesNow(q)' = players[q].principal
    <3>1. /\ pool' \in PoolRec /\ now' \in Int /\ players[q] \in PlayerRec
          /\ players[q].epoch_id \in Nat /\ players[q].epoch_id <= c
      BY DEF TypeOK, PlayerRec, MatchKept, PeriodsKnown
    <3>2. EntriesNow(q)' = touch(players[q], pool', now').entries
      BY <1>2 DEF EntriesNow
    <3> QED
      BY <1>1, <3>1, <3>2, TouchedEntries DEF Held
  <2>2. EntriesHeld' = Total([q \in Players |-> players[q].principal])
    BY <2>1 DEF EntriesHeld
  <2> QED
    BY <2>2 DEF MatchKept, BooksAddUp
<1>4. PotsInPlay' = 0
  <2> DEFINE g == [r \in RoundIds |-> PotInPlay(r)']
  <2>1. ASSUME NEW r \in RoundIds PROVE g[r] = 0
    <3>1. rounds[r].epoch_id \in Nat /\ rounds[r].epoch_id <= c
      BY DEF TypeOK, RoundRec, MatchKept, RoundsBehind
    <3> QED
      BY <1>1, <1>2, <3>1 DEF PotInPlay
  <2>2. IsFiniteSet(RoundIds) /\ DOMAIN g = RoundIds
    BY BoundsAssumption, FS_Interval DEF RoundIds
  <2>3. PotsInPlay' = Total(g)
    BY DEF PotsInPlay
  <2> HIDE DEF g
  <2> QED
    BY <2>1, <2>2, <2>3, TotalZero
<1>5. EntriesInPlay' = EntriesHeld' + PotsInPlay' + pool'.carry_pot
  BY DEF EntriesInPlay, EntriesHeld, PotsInPlay
<1>6. pool.total_principal \in Nat
  BY DEF TypeOK, PoolRec
<1>7. EntriesInPlay' <= pool'.total_principal
  BY <1>2, <1>3, <1>4, <1>5, <1>6
<1> QED
  BY <1>7 DEF EntriesMatchPrincipal

\* Outside the game and the epochs' turn.
LEMMA QuietMatch ==
  ASSUME TypeOK, TypeOK', MatchKept,
         \/ Tick \/ AdminNext \/ TreasuryNext \/ FundingNext \/ UNCHANGED vars
         \/ \E e \in EpochIds :
              \/ \E s \in Keys : close_registration(s, e)
              \/ \E target \in 0..(epochs[e].registered_weight - 1) : draw(e, target)
              \/ rollover_epoch(e) \/ FulfillEpoch(e)
  PROVE  EntriesMatchPrincipal'
<1> DEFINE Quiet == players' = players /\ pool'.total_principal = pool.total_principal
<1>1. pool \in PoolRec
  BY DEF TypeOK
<1>3. Tick \/ UNCHANGED vars => Quiet
  BY DEF Tick, vars
<1>4. AdminNext => Quiet
  <2>1. ASSUME NEW s, NEW v, set_params(s, v) PROVE Quiet
    BY <2>1 DEF set_params
  <2>2. ASSUME NEW s, NEW on, set_pause(s, on) PROVE Quiet
    BY <1>1, <2>2 DEF set_pause, PoolRec
  <2>3. ASSUME NEW s, NEW feature, NEW on, set_feature_pause(s, feature, on) PROVE Quiet
    BY <1>1, <2>3 DEF set_feature_pause, PoolRec
  <2>4. ASSUME NEW s, shutdown(s) PROVE Quiet
    BY <1>1, <2>4 DEF shutdown, PoolRec
  <2>5. ASSUME NEW s, NEW k, set_operator(s, k) \/ propose_admin(s, k) PROVE Quiet
    BY <1>1, <2>5 DEF set_operator, propose_admin, PoolRec
  <2>6. ASSUME NEW s, accept_admin(s) PROVE Quiet
    BY <1>1, <2>6 DEF accept_admin, PoolRec
  <2> HIDE DEF Quiet
  <2> QED
    BY <2>1, <2>2, <2>3, <2>4, <2>5, <2>6 DEF AdminNext
<1>5. TreasuryNext => Quiet
  BY <1>1 DEF TreasuryNext, admin_withdraw, return_principal, sweep_house, PoolRec
<1>6. FundingNext => Quiet
  BY <1>1 DEF FundingNext, fund_jackpot, fund_yield, PoolRec
<1>7. ASSUME NEW e \in EpochIds, NEW s \in Keys, close_registration(s, e)
      PROVE  Quiet
  <2>1. players' = players /\ (pool' = pool \/ \E n : pool' = [pool EXCEPT !.jackpot_reserved = n])
    BY <1>7 DEF close_registration
  <2> QED
    BY <1>1, <2>1 DEF PoolRec
<1>8. ASSUME NEW e \in EpochIds, NEW target, draw(e, target) \/ rollover_epoch(e) \/ FulfillEpoch(e)
      PROVE  Quiet
  BY <1>1, <1>8 DEF draw, rollover_epoch, FulfillEpoch, PoolRec
<1>9. Quiet
  <2> HIDE DEF Quiet
  <2> QED
    BY <1>3, <1>4, <1>5, <1>6, <1>7, <1>8
<1>10. Tick \/ CustodyNext \/ EpochsNext \/ UNCHANGED vars
  BY DEF CustodyNext, EpochsNext, OperatorEpochNext, AnyoneEpochNext
<1>11. /\ rounds' = rounds /\ positions' = positions /\ pool'.carry_pot = pool.carry_pot
  BY <1>10, OutsideTheGame
<1>12. pool'.current_epoch_id = pool.current_epoch_id
  BY OutsideTheDraws, OneEpoch DEF SamePeriods, CustodyNext
<1> QED
  BY <1>9, <1>11, <1>12, StillMatch DEF MatchKept

\* A round keeps the epoch it was created in until its account is closed.
LEMMA NextRoundsBehind ==
  ASSUME TypeOK, TypeOK', RoundsBehind, [Next]_vars
  PROVE  RoundsBehind'
<1> PICK c \in Nat : c = pool.current_epoch_id
  BY DEF TypeOK, PoolRec
<1>1. pool'.current_epoch_id \in {c, c + 1}
  <2>1. \A s \in Keys : begin_epoch(s) => pool'.current_epoch_id = c + 1
    BY BeginFrame
  <2> QED
    BY <2>1, WhichStep, OutsideTheDraws, OneEpoch DEF SamePeriods
<1>2. \A r \in RoundIds : rounds[r].epoch_id \in Nat /\ rounds[r].epoch_id <= c
  BY DEF TypeOK, RoundRec, RoundsBehind
<1>3. CASE Tick \/ CustodyNext \/ EpochsNext \/ UNCHANGED vars
  <2>1. rounds' = rounds
    BY <1>3, OutsideTheGame
  <2> QED
    BY <1>1, <1>2, <2>1 DEF RoundsBehind
<1>4. CASE RoundsNext
  <2> DEFINE Writes(r, id) == /\ rounds'[r].epoch_id = id
                              /\ \A x \in RoundIds \ {r} : rounds'[x] = rounds[x]
  <2>1. ASSUME NEW s \in Keys, NEW starts_at \in now..(now + MaxLead), create_round(s, starts_at)
        PROVE  \E r \in RoundIds : Writes(r, c)
    <3> DEFINE r   == pool.next_round_id
               new == [NoRound EXCEPT !.status = "Open", !.epoch_id = c,
                                      !.starts_at = starts_at,
                                      !.ends_at = starts_at + params.round_seconds,
                                      !.pot = pool.carry_pot]
    <3>1. r \in RoundIds /\ rounds' = [rounds EXCEPT ![r] = new]
      BY <2>1, BoundsAssumption DEF create_round, TypeOK, PoolRec, RoundIds
    <3>2. new.epoch_id = c
      BY DEF NoRound
    <3> HIDE DEF new, r
    <3>3. Writes(r, c)
      BY <3>1, <3>2 DEF TypeOK
    <3> QED
      BY <3>1, <3>3
  <2>2. ASSUME NEW r \in RoundIds, close_round(r)
        PROVE  Writes(r, 0)
    <3>1. rounds' = [rounds EXCEPT ![r] = [NoRound EXCEPT !.status = "Closed"]]
      BY <2>2 DEF close_round
    <3> QED
      BY <3>1 DEF TypeOK, NoRound
  <2>3. ASSUME NEW r \in RoundIds, NEW p \in Owners,
               \/ settle_position(p, r)
               \/ \E tiles \in SUBSET Tiles, stake \in Stakes : buy_position(p, r, tiles, stake)
        PROVE  Writes(r, rounds[r].epoch_id)
    <3>1. CASE settle_position(p, r)
      BY <3>1 DEF settle_position, TypeOK, RoundRec
    <3>2. ASSUME NEW tiles \in SUBSET Tiles, NEW stake \in Stakes, buy_position(p, r, tiles, stake)
          PROVE  Writes(r, rounds[r].epoch_id)
      <4>1. PICK a, b, d : rounds' = [rounds EXCEPT ![r] =
              [rounds[r] EXCEPT !.tile_totals = a, !.pot = b, !.open_positions = d]]
        BY <3>2 DEF buy_position
      <4> QED
        BY <4>1 DEF TypeOK, RoundRec
    <3> QED
      BY <2>3, <3>1, <3>2
  <2>4. ASSUME NEW r \in RoundIds, request_round_randomness(r) \/ FulfillRound(r) \/ void_round(r)
        PROVE  Writes(r, rounds[r].epoch_id)
    <3>1. ASSUME NEW new, rounds' = [rounds EXCEPT ![r] = new], new.epoch_id = rounds[r].epoch_id
          PROVE  Writes(r, rounds[r].epoch_id)
      BY <3>1 DEF TypeOK
    <3>2. CASE request_round_randomness(r)
      <4> DEFINE new == [rounds[r] EXCEPT !.status = "Requested", !.requested_at = now]
      <4>1. rounds' = [rounds EXCEPT ![r] = new]
        BY <3>2 DEF request_round_randomness
      <4>2. new.epoch_id = rounds[r].epoch_id
        BY DEF TypeOK, RoundRec
      <4> HIDE DEF new
      <4> QED
        BY <3>1, <4>1, <4>2
    <3>3. CASE FulfillRound(r)
      <4> DEFINE new == [rounds[r] EXCEPT !.fulfilled = TRUE]
      <4>1. rounds' = [rounds EXCEPT ![r] = new]
        BY <3>3 DEF FulfillRound
      <4>2. new.epoch_id = rounds[r].epoch_id
        BY DEF TypeOK, RoundRec
      <4> HIDE DEF new
      <4> QED
        BY <3>1, <4>1, <4>2
    <3>4. CASE void_round(r)
      <4> DEFINE new == [rounds[r] EXCEPT !.status = "Voided"]
      <4>1. rounds' = [rounds EXCEPT ![r] = new]
        BY <3>4 DEF void_round
      <4>2. new.epoch_id = rounds[r].epoch_id
        BY DEF TypeOK, RoundRec
      <4> HIDE DEF new
      <4> QED
        BY <3>1, <4>1, <4>2
    <3> QED
      BY <2>4, <3>2, <3>3, <3>4
  <2>5. ASSUME NEW r \in RoundIds, NEW tile \in Tiles, settle_round(r, tile)
        PROVE  Writes(r, rounds[r].epoch_id)
    BY <2>5 DEF settle_round, TypeOK, RoundRec
  <2>6. \E r \in RoundIds : Writes(r, c) \/ Writes(r, 0) \/ Writes(r, rounds[r].epoch_id)
    <3> HIDE DEF Writes
    <3>1. CASE OperatorRoundNext
      BY <2>1, <3>1 DEF OperatorRoundNext
    <3>2. CASE PlayNext
      BY <2>3, <3>2 DEF PlayNext
    <3>3. CASE AnyoneRoundNext
      BY <2>2, <2>4, <2>5, <3>3 DEF AnyoneRoundNext
    <3> QED
      BY <1>4, <3>1, <3>2, <3>3 DEF RoundsNext
  <2>7. PICK r \in RoundIds : /\ rounds'[r].epoch_id \in {c, 0, rounds[r].epoch_id}
                              /\ \A x \in RoundIds \ {r} : rounds'[x] = rounds[x]
    BY <2>6
  <2>8. \A x \in RoundIds : rounds'[x].epoch_id \in Nat /\ rounds'[x].epoch_id <= c
    BY <1>2, <2>7
  <2> QED
    BY <1>1, <2>8 DEF RoundsBehind
<1> QED
  BY <1>3, <1>4 DEF Next

\* Every step but those that bring other Entries or strand a carry.
LEMMA NextMatch ==
  ASSUME TypeOK, TypeOK', ParamsValid, MatchKept, [Next]_vars, [~OtherEntries]_vars,
         [NoCarryOver]_vars
  PROVE  EntriesMatchPrincipal'
<1>1. CASE \/ Tick \/ AdminNext \/ TreasuryNext \/ FundingNext \/ UNCHANGED vars
           \/ \E e \in EpochIds :
                \/ \E s \in Keys : close_registration(s, e)
                \/ \E target \in 0..(epochs[e].registered_weight - 1) : draw(e, target)
                \/ rollover_epoch(e) \/ FulfillEpoch(e)
  BY <1>1, QuietMatch
<1>2. CASE DepositorNext /\ ~UNCHANGED vars
  <2>1. ~OtherEntries
    BY <1>2
  <2> QED
    BY <1>2, <2>1, DepositMatch, RequestMatch, EmergencyMatch, ProcessMatch
    DEF DepositorNext, OtherEntries
<1>3. CASE GrantNext /\ ~UNCHANGED vars
  BY <1>3 DEF OtherEntries
<1>4. CASE RoundsNext
  <2>1. EntriesInPlay' <= EntriesInPlay
    BY <1>4, RoundsMint DEF MatchKept
  <2>2. pool'.total_principal = pool.total_principal
    <3>1. PICK p \in Players : Moved(p, 0, 0, 0, 0)
      BY <1>4, PlayMoves
    <3>2. pool.total_principal \in Nat
      BY DEF TypeOK, PoolRec
    <3> QED
      BY <3>1, <3>2 DEF Moved, AccountMoved
  <2>3. EntriesInPlay \in Nat /\ EntriesInPlay' \in Nat
    <3>1. StakesTracked'
      BY <1>4, RoundsMint DEF MatchKept
    <3>2. PotsInPlay \in Nat /\ EntriesHeld \in Nat
      BY PotsNat, HeldNat DEF MatchKept, StakesTracked
    <3>3. TypeOK' /\ SettledSound' => PotsInPlay' \in Nat /\ EntriesHeld' \in Nat
      BY InPlayNatNext
    <3>4. pool.carry_pot \in Nat /\ pool'.carry_pot \in Nat
      BY DEF TypeOK, PoolRec
    <3>5. /\ EntriesInPlay = EntriesHeld + PotsInPlay + pool.carry_pot
          /\ EntriesInPlay' = EntriesHeld' + PotsInPlay' + pool'.carry_pot
      BY DEF EntriesInPlay, EntriesHeld, PotsInPlay
    <3> QED
      BY <3>1, <3>2, <3>3, <3>4, <3>5 DEF StakesTracked
  <2>4. pool.total_principal \in Nat /\ EntriesInPlay <= pool.total_principal
    BY DEF TypeOK, PoolRec, MatchKept, EntriesMatchPrincipal
  <2>5. EntriesInPlay' <= pool'.total_principal
    BY <2>1, <2>2, <2>3, <2>4
  <2> QED
    BY <2>5 DEF EntriesMatchPrincipal
<1>5. ASSUME NEW s \in Keys, begin_epoch(s)
      PROVE  EntriesMatchPrincipal'
  <2>1. PICK c \in Nat : c = pool.current_epoch_id
    BY DEF TypeOK, PoolRec
  <2>2. pool'.current_epoch_id = c + 1
    BY <1>5, <2>1, BeginFrame
  <2>3. pool.carry_pot = 0
    BY <2>1, <2>2 DEF vars, NoCarryOver
  <2> QED
    BY <1>5, <2>3, BeginMatch
<1>6. ASSUME NEW e \in EpochIds, NEW p \in Players, register(e, p) \/ payout(e, p)
      PROVE  EntriesMatchPrincipal'
  BY <1>6, RegisterMatch, PayoutMatch
<1> QED
  BY <1>1, <1>2, <1>3, <1>4, <1>5, <1>6
  DEF Next, CustodyNext, EpochsNext, OperatorEpochNext, AnyoneEpochNext

LEMMA NextMatchKept ==
  ASSUME TypeOK, TypeOK', ParamsValid, MatchKept, [Next]_vars, [~OtherEntries]_vars,
         [NoCarryOver]_vars
  PROVE  MatchKept'
<1>1. PeriodsKnown' /\ Seated' /\ RoundsBehind'
  BY NextPeriods, NextSeated, NextRoundsBehind DEF MatchKept
<1>2. BooksAddUp' /\ RoundsTracked'
  BY NextBooks, NextTracked DEF MatchKept
<1>3. StakesTracked'
  <2>1. CASE RoundsNext
    BY <2>1, RoundsMint DEF MatchKept
  <2>2. CASE Tick \/ CustodyNext \/ EpochsNext \/ UNCHANGED vars
    <3>1. rounds' = rounds /\ positions' = positions
      BY <2>2, OutsideTheGame
    <3> QED
      BY <3>1 DEF MatchKept, StakesTracked, TilesAddUp, SettledSound, StakeOn
  <2> QED
    BY <2>1, <2>2 DEF Next
<1>4. BlankUntilCreated'
  <2> SUFFICES ASSUME NEW p \in Players, ~players'[p].live
               PROVE  players'[p] = NoPlayer
    BY DEF BlankUntilCreated
  <2>1. ~players[p].live
    BY NextLive
  <2>2. players'[p] = players[p]
    BY <2>1, NextCreates DEF MatchKept
  <2> QED
    BY <2>1, <2>2 DEF MatchKept, BlankUntilCreated
<1> QED
  BY <1>1, <1>2, <1>3, <1>4, NextMatch DEF MatchKept

\* Where Entries come from Principal alone and no pot waits to be carried when
\* an epoch begins, Entries in play never exceed the Principal behind them
\* (spec.md 2.4, invariant 2), whatever rounds are settled, voided or forfeited
\* and however late. The carry is the only leak: where a voided pot
\* (rounds.rs:412) waits across begin_epoch, TLC finds EntriesMatchPrincipal
\* violated.
THEOREM EntriesBacked == Spec /\ NoOtherEntries /\ CarryUsedUp => []EntriesMatchPrincipal
<1>1. Init => TypeOK /\ ParamsValid /\ MatchKept
  <2> SUFFICES ASSUME Init PROVE TypeOK /\ ParamsValid /\ MatchKept
    OBVIOUS
  <2>1. TypeOK /\ ParamsValid
    BY InitType
  <2>2. BooksAddUp /\ RoundsTracked
    BY InitBooks, InitTracked
  <2>3. StakesTracked
    BY DEF Init, InitWith, NoRound, StakesTracked, TilesAddUp, SettledSound, InPlay
  <2>4. PeriodsKnown
    BY InitPeriods
  <2>5. Seated
    BY InitSeated
  <2>6. BlankUntilCreated /\ RoundsBehind
    BY DEF Init, InitWith, NoRound, NoPlayer, BlankUntilCreated, RoundsBehind
  <2>7. EntriesMatchPrincipal
    <3>1. EntriesHeld = 0
      <4> DEFINE f == [q \in Players |-> EntriesNow(q)]
      <4>1. ASSUME NEW q \in Players PROVE f[q] = 0
        <5>1. /\ pool \in PoolRec /\ now \in Int /\ players[q] \in PlayerRec
          BY <2>1 DEF TypeOK
        <5>2. players[q].entries = 0 /\ players[q].principal = 0
          BY DEF Init, InitWith, NoPlayer
        <5> QED
          BY <5>1, <5>2, TouchedEntries DEF EntriesNow, Held
      <4>2. DOMAIN f = Players
        OBVIOUS
      <4> HIDE DEF f
      <4>3. Total(f) = 0
        BY <4>1, <4>2, PlayersFinite, TotalZero
      <4> QED
        BY <4>3 DEF EntriesHeld, f
    <3>2. PotsInPlay = 0
      <4> DEFINE f == [r \in RoundIds |-> PotInPlay(r)]
      <4>1. ASSUME NEW r \in RoundIds PROVE f[r] = 0
        <5>1. rounds[r].status = "None"
          BY DEF Init, InitWith, NoRound
        <5> QED
          BY <5>1, OwesNothing DEF InPlay
      <4>2. DOMAIN f = RoundIds /\ IsFiniteSet(RoundIds)
        BY BoundsAssumption, FS_Interval DEF RoundIds
      <4> HIDE DEF f
      <4>3. Total(f) = 0
        BY <4>1, <4>2, TotalZero
      <4> QED
        BY <4>3 DEF PotsInPlay, f
    <3>3. pool.carry_pot = 0 /\ pool.total_principal = 0
      BY DEF Init, InitWith
    <3>4. EntriesInPlay = EntriesHeld + PotsInPlay + pool.carry_pot
      BY DEF EntriesInPlay, EntriesHeld, PotsInPlay
    <3> QED
      BY <3>1, <3>2, <3>3, <3>4 DEF EntriesMatchPrincipal
  <2> QED
    BY <2>1, <2>2, <2>3, <2>4, <2>5, <2>6, <2>7 DEF MatchKept
<1>2. TypeOK /\ ParamsValid /\ MatchKept /\ [Next]_vars /\ [~OtherEntries]_vars
        /\ [NoCarryOver]_vars
          => TypeOK' /\ ParamsValid' /\ MatchKept'
  BY NextType, NextMatchKept
<1>3. MatchKept => EntriesMatchPrincipal
  BY DEF MatchKept
<1> QED
  BY <1>1, <1>2, <1>3, PTL DEF Spec, NoOtherEntries, CarryUsedUp
=============================================================================
