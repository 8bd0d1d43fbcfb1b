--------------------------- MODULE HexVaultLedger ---------------------------
(***************************************************************************)
(* What one step of the program moves: at most one Player's Principal and  *)
(* pending withdrawal, the two Pool totals by as much, and the vault and   *)
(* the yield budget with them.                                             *)
(***************************************************************************)
EXTENDS HexVaultSafety, TotalsTheory

\* p's Principal moves by a and its pending withdrawal by b, the totals move
\* with them, and nobody else's account moves.
AccountMoved(p, a, b) ==
  /\ players'[p].principal = players[p].principal + a
  /\ players'[p].pending_withdraw = players[p].pending_withdraw + b
  /\ \A q \in Players \ {p} : /\ players'[q].principal = players[q].principal
                              /\ players'[q].pending_withdraw = players[q].pending_withdraw
  /\ pool'.total_principal = pool.total_principal + a
  /\ pool'.pending_withdrawals = pool.pending_withdrawals + b

\* The principal vault moves by v and the yield budget by y.
VaultMoved(v, y) ==
  /\ tokens'.principal_vault = tokens.principal_vault + v
  /\ tokens'.admin = tokens.admin
  /\ pool'.yield_budget = pool.yield_budget + y

Moved(p, a, b, v, y) == AccountMoved(p, a, b) /\ VaultMoved(v, y)

\* `new` is `plr` but for accumulators, stamps and Entries.
Kept(plr, new) ==
  /\ new \in PlayerRec
  /\ new.principal = plr.principal /\ new.pending_withdraw = plr.pending_withdraw
  /\ new.pending_epoch = plr.pending_epoch /\ new.requested_at = plr.requested_at
  /\ new.reg_epoch = plr.reg_epoch /\ new.reg_start = plr.reg_start /\ new.reg_end = plr.reg_end

\* touch rewrites nothing but accumulators, stamps and Entries.
LEMMA TouchKeeps ==
  ASSUME TypeOK, NEW plr \in PlayerRec
  PROVE  LET new == touch(plr, pool, now) IN Kept(plr, new) /\ new.live = plr.live
<1>1. touch(plr, pool, now) \in PlayerRec
  BY TouchType DEF TypeOK
<1> QED
  BY <1>1 DEF touch, TouchSameEpoch, TouchNewEpoch, Kept, PlayerRec

\* Nor does it on an account deposit has just created.
LEMMA FreshTouchKeeps ==
  ASSUME TypeOK, NEW plr \in PlayerRec
  PROVE  LET new == touch(init_if_fresh(plr), pool, now) IN Kept(plr, new) /\ new.live
<1> DEFINE fresh == init_if_fresh(plr)
<1>1. fresh \in PlayerRec
  BY FreshType
<1>2. Kept(plr, fresh) /\ fresh.live
  BY <1>1 DEF init_if_fresh, Kept, PlayerRec
<1> HIDE DEF fresh
<1>3. LET new == touch(fresh, pool, now) IN Kept(fresh, new) /\ new.live = fresh.live
  BY <1>1, TouchKeeps
<1> QED
  BY <1>2, <1>3 DEF fresh, Kept

\* An instruction that writes one Player.
LEMMA OneAccount ==
  ASSUME TypeOK, NEW p \in Players, NEW new, players' = [players EXCEPT ![p] = new]
  PROVE  players'[p] = new /\ \A q \in Players \ {p} : players'[q] = players[q]
  BY DEF TypeOK

\* An instruction that writes one Player and the totals by as much.
LEMMA ClaimMoves ==
  ASSUME TypeOK, NEW p \in Players, NEW new, NEW a \in Int, NEW b \in Int, NEW v, NEW y,
         players' = [players EXCEPT ![p] = new],
         new.principal = players[p].principal + a,
         new.pending_withdraw = players[p].pending_withdraw + b,
         pool'.total_principal = pool.total_principal + a,
         pool'.pending_withdrawals = pool.pending_withdrawals + b,
         VaultMoved(v, y)
  PROVE  Moved(p, a, b, v, y)
  BY OneAccount DEF Moved, AccountMoved

\* An instruction that only touches p, or writes what no claim is read from.
LEMMA StillMoves ==
  ASSUME TypeOK, NEW p \in Players, NEW new,
         players' = [players EXCEPT ![p] = new],
         new.principal = players[p].principal,
         new.pending_withdraw = players[p].pending_withdraw,
         pool'.total_principal = pool.total_principal,
         pool'.pending_withdrawals = pool.pending_withdrawals,
         pool'.yield_budget = pool.yield_budget,
         tokens'.principal_vault = tokens.principal_vault,
         tokens'.admin = tokens.admin
  PROVE  Moved(p, 0, 0, 0, 0)
<1>1. /\ players[p].principal \in Nat /\ players[p].pending_withdraw \in Nat
      /\ pool.total_principal \in Nat /\ pool.pending_withdrawals \in Nat
      /\ pool.yield_budget \in Nat /\ tokens.principal_vault \in Nat
  BY DEF TypeOK, PlayerRec, PoolRec, TokenRec
<1> QED
  BY <1>1, OneAccount DEF Moved, AccountMoved, VaultMoved

\* The vault and the claim grow together.
LEMMA DepositMoves ==
  ASSUME TypeOK, NEW p \in Players, NEW amount \in Amounts, deposit(p, amount)
  PROVE  Moved(p, amount, 0, amount, 0)
<1> DEFINE plr == touch(init_if_fresh(players[p]), pool, now)
           new == [plr EXCEPT !.principal = @ + amount, !.entries = @ + amount]
<1>1. amount \in Nat /\ pool \in PoolRec /\ tokens \in TokenRec /\ players[p] \in PlayerRec
  BY AmountsAssumption DEF TypeOK
<1>2. /\ plr \in PlayerRec /\ plr.principal = players[p].principal
      /\ plr.pending_withdraw = players[p].pending_withdraw
  BY <1>1, FreshTouchKeeps DEF Kept
<1>3. players' = [players EXCEPT ![p] = new]
  BY DEF deposit
<1>4. VaultMoved(amount, 0)
  BY <1>1 DEF deposit, VaultMoved, PoolRec, TokenRec
<1>5. /\ pool'.total_principal = pool.total_principal + amount
      /\ pool'.pending_withdrawals = pool.pending_withdrawals + 0
  BY <1>1 DEF deposit, PoolRec
<1> HIDE DEF plr
<1>6. /\ new.principal = players[p].principal + amount
      /\ new.pending_withdraw = players[p].pending_withdraw + 0
  BY <1>1, <1>2 DEF PlayerRec
<1> HIDE DEF new
<1> QED
  BY <1>3, <1>4, <1>5, <1>6, OneAccount DEF Moved, AccountMoved

\* A request moves Principal to what is pending.
LEMMA RequestMoves ==
  ASSUME TypeOK, NEW p \in Players, NEW amount \in Amounts, request_withdraw(p, amount)
  PROVE  /\ Moved(p, -amount, amount, 0, 0)
         /\ amount > 0 /\ players[p].principal >= amount
<1> DEFINE plr == touch(players[p], pool, now)
           new == [plr EXCEPT !.principal        = @ - amount,
                              !.entries          = SatSub(@, amount),
                              !.pending_withdraw = @ + amount,
                              !.pending_epoch    = pool.current_epoch_id,
                              !.requested_at     = now]
<1>1. amount \in Nat /\ pool \in PoolRec /\ tokens \in TokenRec /\ players[p] \in PlayerRec
  BY AmountsAssumption DEF TypeOK
<1>2. /\ plr \in PlayerRec /\ plr.principal = players[p].principal
      /\ plr.pending_withdraw = players[p].pending_withdraw
  BY <1>1, TouchKeeps DEF Kept
<1>3. /\ players' = [players EXCEPT ![p] = new] /\ plr.principal >= amount /\ amount > 0
      /\ tokens' = tokens
  BY DEF request_withdraw
<1>4. VaultMoved(0, 0)
  BY <1>1, <1>3 DEF request_withdraw, VaultMoved, PoolRec, TokenRec
<1>5. /\ pool'.total_principal = pool.total_principal - amount
      /\ pool'.pending_withdrawals = pool.pending_withdrawals + amount
  BY <1>1 DEF request_withdraw, PoolRec
<1> HIDE DEF plr
<1>6. /\ new.principal = players[p].principal - amount
      /\ new.pending_withdraw = players[p].pending_withdraw + amount
  BY <1>1, <1>2 DEF PlayerRec
<1> HIDE DEF new
<1>7. pool.total_principal \in Nat /\ players[p].principal \in Nat
  BY <1>1 DEF PoolRec, PlayerRec
<1> QED
  BY <1>1, <1>2, <1>3, <1>4, <1>5, <1>6, <1>7, OneAccount DEF Moved, AccountMoved

\* A matured request is paid out of the vault.
LEMMA ProcessMoves ==
  ASSUME TypeOK, NEW p \in Players, process_withdraw(p)
  PROVE  LET pending == players[p].pending_withdraw IN
         /\ Moved(p, 0, -pending, -pending, 0)
         /\ pending > 0 /\ tokens.principal_vault >= pending
<1> DEFINE pending == players[p].pending_withdraw
           new == [players[p] EXCEPT !.pending_withdraw = 0]
<1>1. /\ pool \in PoolRec /\ tokens \in TokenRec /\ players[p] \in PlayerRec
      /\ pending \in Nat /\ players[p].principal \in Nat
      /\ pool.total_principal \in Nat /\ pool.pending_withdrawals \in Nat
      /\ pool.yield_budget \in Nat /\ tokens.principal_vault \in Nat
  BY DEF TypeOK, PlayerRec, PoolRec, TokenRec
<1>2. players' = [players EXCEPT ![p] = new]
  BY DEF process_withdraw, TypeOK
<1>3. new.principal = players[p].principal /\ new.pending_withdraw = 0
  BY <1>1 DEF PlayerRec
<1>4. VaultMoved(-pending, 0) /\ pending > 0 /\ tokens.principal_vault >= pending
  BY <1>1 DEF process_withdraw, VaultMoved, PoolRec, TokenRec
<1>5. /\ pool'.total_principal = pool.total_principal
      /\ pool'.pending_withdrawals = pool.pending_withdrawals - pending
  BY <1>1 DEF process_withdraw, PoolRec
<1>6. /\ new.principal = players[p].principal + 0
      /\ new.pending_withdraw = players[p].pending_withdraw + (-pending)
      /\ pool'.total_principal = pool.total_principal + 0
      /\ pool'.pending_withdrawals = pool.pending_withdrawals + (-pending)
      /\ -pending \in Int /\ 0 \in Int
  BY <1>1, <1>3, <1>5
<1> HIDE DEF new
<1>7. Moved(p, 0, -pending, -pending, 0)
  BY <1>2, <1>4, <1>6, ClaimMoves, Zenon
<1> QED
  BY <1>4, <1>7

\* The emergency exit pays Principal and pending at once.
LEMMA EmergencyMoves ==
  ASSUME TypeOK, NEW p \in Players, emergency_withdraw(p)
  PROVE  LET total == players[p].principal + players[p].pending_withdraw IN
         /\ Moved(p, -players[p].principal, -players[p].pending_withdraw, -total, 0)
         /\ total > 0 /\ tokens.principal_vault >= total /\ p # House
<1> DEFINE plr   == touch(players[p], pool, now)
           new   == [plr EXCEPT !.principal = 0, !.entries = 0, !.pending_withdraw = 0]
           total == plr.principal + plr.pending_withdraw
<1>1. /\ pool \in PoolRec /\ tokens \in TokenRec /\ players[p] \in PlayerRec
      /\ players[p].pending_withdraw \in Nat /\ players[p].principal \in Nat
      /\ pool.total_principal \in Nat /\ pool.pending_withdrawals \in Nat
      /\ pool.yield_budget \in Nat /\ tokens.principal_vault \in Nat
  BY DEF TypeOK, PlayerRec, PoolRec, TokenRec
<1>2. /\ plr \in PlayerRec /\ plr.principal = players[p].principal
      /\ plr.pending_withdraw = players[p].pending_withdraw
  BY <1>1, TouchKeeps DEF Kept
<1>3. /\ players' = [players EXCEPT ![p] = new]
      /\ total > 0 /\ tokens.principal_vault >= total /\ p # House
      /\ pool' = [pool EXCEPT !.total_principal     = @ - plr.principal,
                              !.pending_withdrawals = @ - plr.pending_withdraw]
      /\ tokens' = [tokens EXCEPT !.principal_vault = @ - total]
  BY DEF emergency_withdraw
<1> HIDE DEF plr
<1>4. VaultMoved(-total, 0)
  BY <1>1, <1>2, <1>3 DEF VaultMoved, PoolRec, TokenRec
<1>5. /\ pool'.total_principal = pool.total_principal - plr.principal
      /\ pool'.pending_withdrawals = pool.pending_withdrawals - plr.pending_withdraw
  BY <1>1, <1>3 DEF PoolRec
<1>6. new.principal = 0 /\ new.pending_withdraw = 0
  BY <1>2 DEF PlayerRec
<1>7. /\ new.principal = players[p].principal + (-players[p].principal)
      /\ new.pending_withdraw = players[p].pending_withdraw + (-players[p].pending_withdraw)
      /\ pool'.total_principal = pool.total_principal + (-players[p].principal)
      /\ pool'.pending_withdrawals = pool.pending_withdrawals + (-players[p].pending_withdraw)
      /\ -players[p].principal \in Int /\ -players[p].pending_withdraw \in Int
  BY <1>1, <1>2, <1>5, <1>6
<1> HIDE DEF new
<1>8. Moved(p, -players[p].principal, -players[p].pending_withdraw, -total, 0)
  BY <1>3, <1>4, <1>7, ClaimMoves
<1> QED
  BY <1>2, <1>3, <1>8

\* Buying tickets moves no claim and nothing in the principal vault.
LEMMA BuyTicketsMoves ==
  ASSUME TypeOK, NEW p \in Players, NEW amount \in Amounts, buy_tickets(p, amount)
  PROVE  Moved(p, 0, 0, 0, 0)
<1> DEFINE plr    == touch(players[p], pool, now)
           bought == CountedInEpoch(plr.bought_epoch, plr.bought_amount, amount)
           more   == amount * params.tickets_per_usdc
           new    == [plr EXCEPT !.bought_epoch  = pool.current_epoch_id,
                                 !.bought_amount = bought,
                                 !.entries       = @ + more]
<1>1. players[p] \in PlayerRec /\ tokens \in TokenRec
  BY DEF TypeOK
<1>2. Kept(players[p], plr)
  BY <1>1, TouchKeeps
<1>3. players' = [players EXCEPT ![p] = new] /\ pool' = pool
  BY DEF buy_tickets
<1>4. tokens'.principal_vault = tokens.principal_vault /\ tokens'.admin = tokens.admin
  BY <1>1 DEF buy_tickets, TokenRec
<1> HIDE DEF plr, bought, more
<1>5. new.principal = plr.principal /\ new.pending_withdraw = plr.pending_withdraw
  BY <1>2 DEF Kept, PlayerRec
<1> HIDE DEF new
<1> QED
  BY <1>2, <1>3, <1>4, <1>5, StillMoves DEF Kept

\* A registration turns budget into Principal.
LEMMA RegisterMoves ==
  ASSUME TypeOK, NEW e \in EpochIds, NEW p \in Players, register(e, p)
  PROVE  LET credited == YieldCredit(players[p], e) IN
         /\ Moved(p, credited, 0, 0, -credited)
         /\ credited \in Nat /\ credited <= pool.yield_budget
<1> DEFINE plr      == players[p]
           w        == EpochWeight(plr, e, epochs[e])
           credited == YieldCredit(plr, e)
           base     == IF credited > 0 THEN touch(plr, pool, now) ELSE plr
           paid     == credit_yield(plr, e)
           from     == RegStart(e)
           listed   == [paid EXCEPT !.reg_epoch = e, !.reg_start = from, !.reg_end = from + w]
           new      == IF w = 0 THEN paid ELSE listed
<1>1. /\ pool \in PoolRec /\ plr \in PlayerRec /\ tokens' = tokens
      /\ plr.pending_withdraw \in Nat /\ plr.principal \in Nat
      /\ pool.total_principal \in Nat /\ pool.pending_withdrawals \in Nat
      /\ pool.yield_budget \in Nat /\ tokens.principal_vault \in Nat
  BY DEF TypeOK, PlayerRec, PoolRec, TokenRec, register
<1>2. credited \in Nat /\ credited <= pool.yield_budget
  BY CreditBounded
<1>3. Kept(plr, base)
  BY <1>1, TouchKeeps DEF Kept
<1>4. paid = [base EXCEPT !.principal = @ + credited, !.entries = @ + credited,
                          !.yield_epoch = e]
  BY DEF credit_yield
<1>5. /\ players' = [players EXCEPT ![p] = new]
      /\ pool' = [pool EXCEPT !.total_principal = @ + credited, !.yield_budget = @ - credited]
  BY DEF register
<1> HIDE DEF plr, w, credited, base, paid, from
<1>6. /\ paid.principal = plr.principal + credited
      /\ paid.pending_withdraw = plr.pending_withdraw
      /\ listed.principal = paid.principal /\ listed.pending_withdraw = paid.pending_withdraw
  BY <1>3, <1>4 DEF Kept, PlayerRec
<1>7. new.principal = plr.principal + credited /\ new.pending_withdraw = plr.pending_withdraw
  BY <1>6
<1>8. /\ pool'.total_principal = pool.total_principal + credited
      /\ pool'.pending_withdrawals = pool.pending_withdrawals
      /\ pool'.yield_budget = pool.yield_budget - credited
  BY <1>1, <1>5 DEF PoolRec
<1> HIDE DEF new
<1>9. plr = players[p] /\ credited = YieldCredit(players[p], e)
  BY DEF plr, credited
<1>10. VaultMoved(0, -credited)
  BY <1>1, <1>2, <1>8 DEF VaultMoved
<1>11. /\ new.principal = players[p].principal + credited
       /\ new.pending_withdraw = players[p].pending_withdraw + 0
       /\ pool'.total_principal = pool.total_principal + credited
       /\ pool'.pending_withdrawals = pool.pending_withdrawals + 0
       /\ credited \in Int /\ 0 \in Int
  BY <1>1, <1>2, <1>7, <1>8, <1>9
<1>12. Moved(p, credited, 0, 0, -credited)
  BY <1>5, <1>10, <1>11, ClaimMoves, Zenon
<1> QED
  BY <1>2, <1>9, <1>12

\* A prize compounds into the winner's Principal; the House's leaves for the
\* buyback reserve and the treasury.
LEMMA PayoutMoves ==
  ASSUME TypeOK, NEW e \in EpochIds, NEW p \in Players, payout(e, p)
  PROVE  \E a \in Nat : Moved(p, a, 0, a, 0) /\ (p = House => a = 0)
<1> DEFINE amount == epochs[e].jackpot_amount
           half   == amount \div 2
           fifth  == amount \div 5
           plr    == touch(players[p], pool, now)
           new    == [plr EXCEPT !.principal = @ + amount, !.entries = @ + amount]
<1>1. /\ pool \in PoolRec /\ tokens \in TokenRec /\ players[p] \in PlayerRec /\ amount \in Nat
      /\ players[p].pending_withdraw \in Nat /\ players[p].principal \in Nat
      /\ pool.total_principal \in Nat /\ pool.pending_withdrawals \in Nat
      /\ pool.yield_budget \in Nat /\ tokens.principal_vault \in Nat
  BY DEF TypeOK, EpochRec, PlayerRec, PoolRec, TokenRec
<1>2. CASE p = House
  <2>1. /\ pool' = [pool EXCEPT !.jackpot_reserved = @ - amount]
        /\ tokens' = [tokens EXCEPT !.jackpot_vault   = @ - half - fifth,
                                    !.buyback_reserve = @ + half,
                                    !.treasury        = @ + fifth]
        /\ players' = players
    BY <1>2 DEF payout
  <2> HIDE DEF amount, half, fifth
  <2>2. /\ pool'.total_principal = pool.total_principal
        /\ pool'.pending_withdrawals = pool.pending_withdrawals
        /\ pool'.yield_budget = pool.yield_budget
        /\ tokens'.principal_vault = tokens.principal_vault /\ tokens'.admin = tokens.admin
    BY <1>1, <2>1 DEF PoolRec, TokenRec
  <2>3. players' = [players EXCEPT ![p] = players[p]]
    BY <2>1 DEF TypeOK
  <2>4. Moved(p, 0, 0, 0, 0)
    BY <2>2, <2>3, StillMoves
  <2> QED
    BY <2>4
<1>3. CASE p # House
  <2>1. /\ pool' = [pool EXCEPT !.jackpot_reserved = @ - amount, !.total_principal  = @ + amount]
        /\ tokens' = [tokens EXCEPT !.jackpot_vault = @ - amount, !.principal_vault = @ + amount]
        /\ players' = [players EXCEPT ![p] = new]
    BY <1>3 DEF payout
  <2>2. Kept(players[p], plr)
    BY <1>1, TouchKeeps
  <2> HIDE DEF amount, plr
  <2>3. VaultMoved(amount, 0)
    BY <1>1, <2>1 DEF VaultMoved, PoolRec, TokenRec
  <2>4. /\ pool'.total_principal = pool.total_principal + amount
        /\ pool'.pending_withdrawals = pool.pending_withdrawals + 0
    BY <1>1, <2>1 DEF PoolRec
  <2>5. /\ new.principal = players[p].principal + amount
        /\ new.pending_withdraw = players[p].pending_withdraw + 0
        /\ amount \in Int /\ 0 \in Int
    BY <1>1, <2>2 DEF Kept, PlayerRec
  <2> HIDE DEF new
  <2>6. Moved(p, amount, 0, amount, 0)
    BY <2>1, <2>3, <2>4, <2>5, ClaimMoves, Zenon
  <2> QED
    BY <1>1, <1>3, <2>6
<1> QED
  BY <1>2, <1>3

\* Nor do grants move a claim.
LEMMA GrantMoves ==
  ASSUME TypeOK, GrantNext
  PROVE  \E p \in Players : Moved(p, 0, 0, 0, 0)
<1> PICK s \in Keys, p \in Players, amount \in Amounts :
      grant_tickets_operator(s, p, amount) \/ grant_tickets_admin(s, p, amount)
  BY DEF GrantNext, grant_tickets
<1> DEFINE plr == touch(players[p], pool, now)
<1>1. pool \in PoolRec /\ players[p] \in PlayerRec
  BY DEF TypeOK
<1>2. Kept(players[p], plr)
  BY <1>1, TouchKeeps
<1>3. CASE grant_tickets_operator(s, p, amount)
  <2> DEFINE byPlayer == CountedInEpoch(plr.bonus_epoch, plr.bonus_granted, amount)
             new == [plr EXCEPT !.bonus_epoch   = pool.current_epoch_id,
                                !.bonus_granted = byPlayer,
                                !.entries       = @ + amount]
  <2>1. players' = [players EXCEPT ![p] = new] /\ tokens' = tokens
    BY <1>3 DEF grant_tickets_operator
  <2>2. /\ pool'.total_principal = pool.total_principal
        /\ pool'.pending_withdrawals = pool.pending_withdrawals
        /\ pool'.yield_budget = pool.yield_budget
    BY <1>1, <1>3 DEF grant_tickets_operator, PoolRec
  <2> HIDE DEF plr, byPlayer
  <2>3. new.principal = plr.principal /\ new.pending_withdraw = plr.pending_withdraw
    BY <1>2 DEF Kept, PlayerRec
  <2> HIDE DEF new
  <2> QED
    BY <1>2, <2>1, <2>2, <2>3, StillMoves DEF Kept
<1>4. CASE grant_tickets_admin(s, p, amount)
  <2> DEFINE new == [plr EXCEPT !.entries = @ + amount]
  <2>1. players' = [players EXCEPT ![p] = new] /\ tokens' = tokens /\ pool' = pool
    BY <1>4 DEF grant_tickets_admin
  <2> HIDE DEF plr
  <2>2. new.principal = plr.principal /\ new.pending_withdraw = plr.pending_withdraw
    BY <1>2 DEF Kept, PlayerRec
  <2> HIDE DEF new
  <2> QED
    BY <1>2, <2>1, <2>2, StillMoves DEF Kept
<1> QED
  BY <1>3, <1>4

\* Staking, claiming and settling a round write Entries and Weight only.
LEMMA PlayMoves ==
  ASSUME TypeOK, RoundsNext
  PROVE  \E p \in Players : Moved(p, 0, 0, 0, 0)
<1>1. tokens' = tokens /\ pool \in PoolRec
  BY RoundsFrame DEF TypeOK
<1>2. ASSUME players' = players, SameTotals PROVE \E p \in Players : Moved(p, 0, 0, 0, 0)
  <2>1. players' = [players EXCEPT ![House] = players[House]] /\ House \in Players
    BY <1>2 DEF TypeOK, Players
  <2> QED
    BY <1>1, <1>2, <2>1, StillMoves DEF SameTotals
<1>3. ASSUME NEW p \in Owners, NEW r \in RoundIds, NEW tiles \in SUBSET Tiles,
             NEW stake \in Stakes, buy_position(p, r, tiles, stake)
      PROVE  Moved(p, 0, 0, 0, 0) /\ p \in Players
  <2> DEFINE plr   == touch(players[p], pool, now)
             total == stake * Cardinality(tiles)
             lead  == weight_of(total, rounds[r].ends_at - now)
             new   == [plr EXCEPT !.weight_acc = @ + lead, !.entries = @ - total]
  <2>1. p \in Players
    BY DEF Players
  <2>2. Kept(players[p], plr)
    BY <2>1, TouchKeeps DEF TypeOK
  <2>3. players' = [players EXCEPT ![p] = new] /\ pool' = pool
    BY <1>3 DEF buy_position
  <2> HIDE DEF plr, total, lead
  <2>4. new.principal = plr.principal /\ new.pending_withdraw = plr.pending_withdraw
    BY <2>2 DEF Kept, PlayerRec
  <2> HIDE DEF new
  <2> QED
    BY <1>1, <2>1, <2>2, <2>3, <2>4, StillMoves DEF Kept
<1>4. ASSUME NEW p \in Owners, NEW r \in RoundIds, settle_position(p, r)
      PROVE  Moved(p, 0, 0, 0, 0) /\ p \in Players
  <2> DEFINE plr == touch(players[p], pool, now)
             won == Reward(r, p)
             new == [plr EXCEPT !.entries = @ + won]
  <2>1. p \in Players
    BY DEF Players
  <2>2. Kept(players[p], plr)
    BY <2>1, TouchKeeps DEF TypeOK
  <2>3. players' = [players EXCEPT ![p] = new] /\ pool' = pool
    BY <1>4 DEF settle_position
  <2> HIDE DEF plr, won
  <2>4. new.principal = plr.principal /\ new.pending_withdraw = plr.pending_withdraw
    BY <2>2 DEF Kept, PlayerRec
  <2> HIDE DEF new
  <2> QED
    BY <1>1, <2>1, <2>2, <2>3, <2>4, StillMoves DEF Kept
<1>5. ASSUME NEW r \in RoundIds, NEW tile \in Tiles, settle_round(r, tile)
      PROVE  \E p \in Players : Moved(p, 0, 0, 0, 0)
  <2> DEFINE plr == touch(players[House], pool, now)
             new(n) == [plr EXCEPT !.entries = @ + n]
  <2>1. House \in Players
    BY DEF Players
  <2>2. Kept(players[House], plr)
    BY <2>1, TouchKeeps DEF TypeOK
  <2>3. players' = players \/ \E n : players' = [players EXCEPT ![House] = new(n)]
    BY <1>5 DEF settle_round
  <2>4. pool' = [pool EXCEPT !.open_round_id = 0]
    BY <1>5 DEF settle_round
  <2>5. SameTotals
    BY <1>1, <2>4 DEF SameTotals, PoolRec
  <2> HIDE DEF plr
  <2>6. \A n : new(n).principal = plr.principal /\ new(n).pending_withdraw = plr.pending_withdraw
    BY <2>2 DEF Kept, PlayerRec
  <2> HIDE DEF new
  <2> QED
    BY <1>1, <1>2, <2>1, <2>2, <2>3, <2>5, <2>6, StillMoves DEF Kept, SameTotals
<1>6. ASSUME NEW s \in Keys, NEW starts_at \in now..(now + MaxLead), create_round(s, starts_at)
      PROVE  players' = players /\ SameTotals
  BY <1>6 DEF create_round, SameTotals, TypeOK, PoolRec
<1>7. ASSUME NEW r \in RoundIds,
             \/ request_round_randomness(r) \/ FulfillRound(r) \/ void_round(r) \/ close_round(r)
      PROVE  players' = players /\ SameTotals
  BY <1>7 DEF request_round_randomness, FulfillRound, void_round, close_round, SameTotals,
              TypeOK, PoolRec
<1> QED
  BY <1>2, <1>3, <1>4, <1>5, <1>6, <1>7
  DEF RoundsNext, OperatorRoundNext, PlayNext, AnyoneRoundNext

-----------------------------------------------------------------------------
(* Every step is of one of four kinds.                                     *)

\* USDC enters or leaves the vault with the claim: deposits, requests (both
\* parts cancel), payouts, prizes.
InOrOut == \E p \in Players, a, b \in Int : Moved(p, a, b, a + b, 0)

\* Budget becomes a claim.
Yielded ==
  \E p \in Players, a \in Nat : a <= pool.yield_budget /\ Moved(p, a, 0, 0, -a)

\* The budget is funded, or swept no further than what depositors are owed.
Budgeted ==
  \E p \in Players, y \in Int :
    /\ Moved(p, 0, 0, y, y)
    /\ y < 0 => tokens'.principal_vault >= pool.total_principal + pool.pending_withdrawals

\* The admin takes Principal out or brings it back.
LentOrReturned ==
  /\ players' = players /\ pool' = pool
  /\ tokens'.principal_vault + tokens'.admin = tokens.principal_vault + tokens.admin

LedgerStep == InOrOut \/ Yielded \/ Budgeted \/ LentOrReturned

\* The totals a claim is counted in, and the budget.
SameTotalsOwed ==
  /\ pool'.total_principal     = pool.total_principal
  /\ pool'.pending_withdrawals = pool.pending_withdrawals
  /\ pool'.yield_budget        = pool.yield_budget

\* A step that writes no Player, no total and no balance of the vault.
LEMMA FrameMoves ==
  ASSUME TypeOK, players' = players, SameTotalsOwed,
         tokens'.principal_vault = tokens.principal_vault, tokens'.admin = tokens.admin
  PROVE  Moved(House, 0, 0, 0, 0)
<1>1. players' = [players EXCEPT ![House] = players[House]] /\ House \in Players
  BY DEF TypeOK, Players
<1> QED
  BY <1>1, StillMoves DEF SameTotalsOwed

\* Nothing moved is a trivial case of the first kind.
LEMMA StillIsLedgerStep ==
  ASSUME NEW p \in Players, Moved(p, 0, 0, 0, 0)
  PROVE  InOrOut
<1>1. 0 \in Int /\ 0 + 0 = 0
  OBVIOUS
<1> QED
  BY <1>1, Zenon DEF InOrOut

\* A depositor's instruction moves only its own Principal and pending
\* withdrawal, the totals by as much, and the vault by what is paid in or out.
LEMMA DepositorLedger ==
  ASSUME TypeOK, DepositorNext
  PROVE  LedgerStep
<1> PICK p \in Players :
      \/ \E amount \in Amounts :
           deposit(p, amount) \/ request_withdraw(p, amount) \/ buy_tickets(p, amount)
      \/ process_withdraw(p)
      \/ emergency_withdraw(p)
  BY DEF DepositorNext
<1>1. ASSUME NEW amount \in Amounts, deposit(p, amount) PROVE InOrOut
  <2>1. amount \in Int /\ 0 \in Int /\ amount + 0 = amount
    BY AmountsAssumption
  <2>2. Moved(p, amount, 0, amount + 0, 0)
    BY <1>1, <2>1, DepositMoves
  <2> QED
    BY <2>1, <2>2, Zenon DEF InOrOut
<1>2. ASSUME NEW amount \in Amounts, request_withdraw(p, amount) PROVE InOrOut
  <2>1. amount \in Int /\ -amount \in Int /\ -amount + amount = 0
    BY AmountsAssumption
  <2>2. Moved(p, -amount, amount, -amount + amount, 0)
    BY <1>2, <2>1, RequestMoves
  <2> QED
    BY <2>1, <2>2, Zenon DEF InOrOut
<1>3. ASSUME process_withdraw(p) PROVE InOrOut
  <2> DEFINE pending == players[p].pending_withdraw
  <2>1. pending \in Nat
    BY DEF TypeOK, PlayerRec
  <2>2. Moved(p, 0, -pending, -pending, 0)
    BY <1>3, ProcessMoves
  <2> HIDE DEF pending
  <2>3. 0 \in Int /\ -pending \in Int /\ 0 + (-pending) = -pending
    BY <2>1
  <2>4. Moved(p, 0, -pending, 0 + (-pending), 0)
    BY <2>2, <2>3
  <2> QED
    BY <2>3, <2>4, Zenon DEF InOrOut
<1>4. ASSUME emergency_withdraw(p) PROVE InOrOut
  <2> DEFINE a == players[p].principal
             b == players[p].pending_withdraw
  <2>1. a \in Nat /\ b \in Nat
    BY DEF TypeOK, PlayerRec
  <2>2. Moved(p, -a, -b, -(a + b), 0)
    BY <1>4, EmergencyMoves
  <2> HIDE DEF a, b
  <2>3. -a \in Int /\ -b \in Int /\ -(a + b) = (-a) + (-b)
    BY <2>1
  <2>4. Moved(p, -a, -b, (-a) + (-b), 0)
    BY <2>2, <2>3
  <2> QED
    BY <2>3, <2>4, Zenon DEF InOrOut
<1>5. ASSUME NEW amount \in Amounts, buy_tickets(p, amount) PROVE InOrOut
  BY <1>5, BuyTicketsMoves, StillIsLedgerStep
<1> QED
  BY <1>1, <1>2, <1>3, <1>4, <1>5 DEF LedgerStep

\* Lending and returning principal moves no claim; sweep_house takes only
\* what lies in the vault beyond every claim.
LEMMA TreasuryLedger ==
  ASSUME TypeOK, TreasuryNext
  PROVE  LedgerStep
<1>1. /\ pool \in PoolRec /\ tokens \in TokenRec
      /\ pool.total_principal \in Nat /\ pool.pending_withdrawals \in Nat
      /\ pool.yield_budget \in Nat /\ tokens.principal_vault \in Nat /\ tokens.admin \in Int
  BY DEF TypeOK, PoolRec, TokenRec
<1>2. ASSUME NEW s \in Keys, NEW amount \in Amounts, admin_withdraw(s, amount)
      PROVE  LentOrReturned
  BY <1>1, <1>2, AmountsAssumption DEF admin_withdraw, LentOrReturned, TokenRec
<1>3. ASSUME NEW amount \in Amounts, return_principal(amount)
      PROVE  LentOrReturned
  BY <1>1, <1>3, AmountsAssumption DEF return_principal, LentOrReturned, TokenRec
<1>4. ASSUME NEW s \in Keys, sweep_house(s)
      PROVE  Budgeted
  <2> DEFINE y       == YieldSwept
             jackpot == SatSub(tokens.jackpot_vault, pool.jackpot_reserved)
  <2>1. /\ y \in Nat
        /\ y > 0 => tokens.principal_vault - y >= pool.total_principal + pool.pending_withdrawals
    BY <1>1 DEF YieldSwept, MinOf, SatSub
  <2>2. /\ pool' = [pool EXCEPT !.yield_budget = @ - y]
        /\ tokens' = [tokens EXCEPT !.jackpot_vault   = @ - jackpot,
                                    !.principal_vault = @ - y,
                                    !.treasury        = @ + jackpot + y]
        /\ players' = players
    BY <1>4 DEF sweep_house
  <2> HIDE DEF y, jackpot
  <2>3. /\ pool'.total_principal = pool.total_principal
        /\ pool'.pending_withdrawals = pool.pending_withdrawals
        /\ pool'.yield_budget = pool.yield_budget - y
    BY <1>1, <2>2 DEF PoolRec
  <2>4. tokens'.principal_vault = tokens.principal_vault - y /\ tokens'.admin = tokens.admin
    BY <1>1, <2>2 DEF TokenRec
  <2>5. VaultMoved(-y, -y)
    BY <1>1, <2>1, <2>3, <2>4 DEF VaultMoved
  <2>6. AccountMoved(House, 0, 0)
    <3>1. House \in Players /\ players[House] \in PlayerRec
      BY DEF TypeOK, Players
    <3> QED
      BY <1>1, <2>2, <2>3, <3>1 DEF AccountMoved, PlayerRec
  <2>7. /\ -y \in Int /\ House \in Players
        /\ -y < 0 => tokens'.principal_vault >= pool.total_principal + pool.pending_withdrawals
    BY <1>1, <2>1, <2>4 DEF Players
  <2>8. Moved(House, 0, 0, -y, -y)
    BY <2>5, <2>6 DEF Moved
  <2> QED
    BY <2>7, <2>8, Zenon DEF Budgeted
<1> QED
  BY <1>2, <1>3, <1>4 DEF TreasuryNext, LedgerStep

\* Funding the jackpot moves no claim; fund_yield brings the USDC behind the
\* budget it adds.
LEMMA FundingLedger ==
  ASSUME TypeOK, FundingNext
  PROVE  LedgerStep
<1> PICK amount \in Amounts : fund_jackpot(amount) \/ fund_yield(amount)
  BY DEF FundingNext
<1>1. /\ pool \in PoolRec /\ tokens \in TokenRec /\ amount \in Nat
      /\ pool.total_principal \in Nat /\ pool.pending_withdrawals \in Nat
      /\ House \in Players /\ players[House] \in PlayerRec
  BY AmountsAssumption DEF TypeOK, PoolRec, Players
<1>2. CASE fund_jackpot(amount)
  <2>1. /\ players' = players /\ pool' = pool
        /\ tokens'.principal_vault = tokens.principal_vault /\ tokens'.admin = tokens.admin
    BY <1>1, <1>2 DEF fund_jackpot, TokenRec
  <2> QED
    BY <2>1 DEF LedgerStep, LentOrReturned
<1>3. CASE fund_yield(amount)
  <2>1. /\ pool'.total_principal = pool.total_principal
        /\ pool'.pending_withdrawals = pool.pending_withdrawals
        /\ pool'.yield_budget = pool.yield_budget + amount
        /\ tokens'.principal_vault = tokens.principal_vault + amount
        /\ tokens'.admin = tokens.admin /\ players' = players
    BY <1>1, <1>3 DEF fund_yield, PoolRec, TokenRec
  <2>2. Moved(House, 0, 0, amount, amount)
    BY <1>1, <2>1 DEF Moved, AccountMoved, VaultMoved, PlayerRec
  <2>3. amount \in Int /\ ~(amount < 0)
    BY <1>1
  <2> QED
    BY <1>1, <2>2, <2>3, Zenon DEF Budgeted, LedgerStep
<1> QED
  BY <1>2, <1>3

\* An epoch instruction leaves the books as they are, or credits yield to the
\* registered Player out of the budget.
LEMMA EpochsLedger ==
  ASSUME TypeOK, EpochsNext
  PROVE  LedgerStep
<1>1. pool \in PoolRec /\ House \in Players
  BY DEF TypeOK, Players
<1>2. ASSUME NEW s \in Keys, begin_epoch(s)
      PROVE  players' = players /\ tokens' = tokens /\ SameTotalsOwed
  BY <1>1, <1>2 DEF begin_epoch, SameTotalsOwed, PoolRec
<1>3. ASSUME NEW s \in Keys, NEW e \in EpochIds, close_registration(s, e)
      PROVE  players' = players /\ tokens' = tokens /\ SameTotalsOwed
  <2>1. pool' = pool \/ \E n : pool' = [pool EXCEPT !.jackpot_reserved = n]
    BY <1>3 DEF close_registration
  <2> QED
    BY <1>1, <1>3, <2>1 DEF close_registration, SameTotalsOwed, PoolRec
<1>4. ASSUME NEW e \in EpochIds, NEW target, draw(e, target) \/ FulfillEpoch(e) \/ rollover_epoch(e)
      PROVE  players' = players /\ tokens' = tokens /\ SameTotalsOwed
  BY <1>1, <1>4 DEF draw, FulfillEpoch, rollover_epoch, SameTotalsOwed, PoolRec
<1>5. ASSUME players' = players, tokens' = tokens, SameTotalsOwed
      PROVE  InOrOut
  BY <1>1, <1>5, FrameMoves, StillIsLedgerStep
<1>6. ASSUME NEW e \in EpochIds, NEW p \in Players, register(e, p)
      PROVE  Yielded
  BY <1>6, RegisterMoves DEF Yielded
<1>7. ASSUME NEW e \in EpochIds, NEW p \in Players, payout(e, p)
      PROVE  InOrOut
  <2>1. PICK a \in Nat : Moved(p, a, 0, a, 0)
    BY <1>7, PayoutMoves
  <2>2. a \in Int /\ 0 \in Int /\ a + 0 = a
    OBVIOUS
  <2>3. Moved(p, a, 0, a + 0, 0)
    BY <2>1, <2>2
  <2> QED
    BY <2>2, <2>3, Zenon DEF InOrOut
<1> QED
  BY <1>2, <1>3, <1>4, <1>5, <1>6, <1>7, FundingLedger
  DEF EpochsNext, OperatorEpochNext, AnyoneEpochNext, LedgerStep

\* An admin instruction writes parameters, roles and pauses, and no money.
LEMMA AdminLedger ==
  ASSUME TypeOK, AdminNext
  PROVE  LedgerStep
<1>1. players' = players /\ tokens' = tokens
  BY DEF AdminNext, set_params, set_pause, set_feature_pause, shutdown, set_operator,
         propose_admin, accept_admin
<1>2. SameTotalsOwed
  BY DEF AdminNext, set_params, set_pause, set_feature_pause, shutdown, set_operator,
         propose_admin, accept_admin, SameTotalsOwed, TypeOK, PoolRec
<1> QED
  BY <1>1, <1>2, FrameMoves, StillIsLedgerStep DEF LedgerStep, Players

\* Whoever acts, the step is of one of the four kinds.
LEMMA NextLedger ==
  ASSUME TypeOK, [Next]_vars
  PROVE  LedgerStep
<1>1. CASE Tick \/ UNCHANGED vars
  <2>1. players' = players /\ tokens' = tokens /\ SameTotalsOwed
    BY <1>1 DEF Tick, vars, SameTotalsOwed
  <2> QED
    BY <2>1, FrameMoves, StillIsLedgerStep DEF LedgerStep, Players
<1>2. CASE GrantNext
  BY <1>2, GrantMoves, StillIsLedgerStep DEF LedgerStep
<1>3. CASE RoundsNext
  BY <1>3, PlayMoves, StillIsLedgerStep DEF LedgerStep
<1> QED
  BY <1>1, <1>2, <1>3, AdminLedger, DepositorLedger, TreasuryLedger, EpochsLedger
  DEF Next, CustodyNext

-----------------------------------------------------------------------------
(* The books. The totals move with the one account that moves.             *)

\* The Player accounts are finitely many.
LEMMA PlayersFinite == IsFiniteSet(Players)
  BY OwnersAssumption, FS_AddElement DEF Players

\* When one account moves and the totals move by as much, the totals still
\* add up to the accounts.
LEMMA MovedBooks ==
  ASSUME TypeOK, TypeOK', BooksAddUp, NEW p \in Players, NEW a \in Int, NEW b \in Int,
         AccountMoved(p, a, b)
  PROVE  BooksAddUp'
<1> DEFINE f == [q \in Players |-> players[q].principal]
           g == [q \in Players |-> players[q].pending_withdraw]
<1>1. /\ \A q \in Players : players[q] \in PlayerRec /\ players'[q] \in PlayerRec
      /\ pool \in PoolRec /\ pool' \in PoolRec
  BY DEF TypeOK
<1>2. /\ DOMAIN f = Players /\ DOMAIN f' = Players
      /\ DOMAIN g = Players /\ DOMAIN g' = Players
      /\ \A q \in Players : f[q] \in Nat /\ f'[q] \in Nat /\ g[q] \in Nat /\ g'[q] \in Nat
      /\ \A q \in Players \ {p} : f'[q] = f[q] /\ g'[q] = g[q]
  BY <1>1 DEF AccountMoved, PlayerRec
<1>3. pool.total_principal = Total(f) /\ pool.pending_withdrawals = Total(g)
  BY DEF BooksAddUp
<1>4. f'[p] = players'[p].principal /\ g'[p] = players'[p].pending_withdraw
      /\ f[p] = players[p].principal /\ g[p] = players[p].pending_withdraw
  OBVIOUS
<1>5. BooksAddUp' <=> /\ pool'.total_principal = Total(f')
                      /\ pool'.pending_withdrawals = Total(g')
  BY DEF BooksAddUp
<1> HIDE DEF f, g
<1>6. Total(f') = Total(f) + f'[p] - f[p] /\ Total(g') = Total(g) + g'[p] - g[p]
  BY <1>2, PlayersFinite, TotalUpdate
<1>7. /\ Total(f) \in Nat /\ Total(g) \in Nat
      /\ pool'.total_principal \in Nat /\ pool'.pending_withdrawals \in Nat
  BY <1>1, <1>3 DEF PoolRec
<1>8. /\ f[p] \in Nat /\ g[p] \in Nat /\ f'[p] = f[p] + a /\ g'[p] = g[p] + b
      /\ pool'.total_principal = pool.total_principal + a
      /\ pool'.pending_withdrawals = pool.pending_withdrawals + b
  BY <1>2, <1>4 DEF AccountMoved
<1> QED
  BY <1>3, <1>5, <1>6, <1>7, <1>8

\* Every step keeps the totals the sums over the accounts.
LEMMA NextBooks ==
  ASSUME TypeOK, TypeOK', BooksAddUp, [Next]_vars
  PROVE  BooksAddUp'
<1>1. CASE LentOrReturned
  BY <1>1 DEF LentOrReturned, BooksAddUp
<1> QED
  BY <1>1, NextLedger, MovedBooks DEF LedgerStep, InOrOut, Yielded, Budgeted, Moved

\* A freshly initialized pool has no Players and no totals.
LEMMA InitBooks == Init => BooksAddUp
<1> SUFFICES ASSUME Init PROVE BooksAddUp
  OBVIOUS
<1> DEFINE f == [q \in Players |-> players[q].principal]
           g == [q \in Players |-> players[q].pending_withdraw]
<1>1. /\ DOMAIN f = Players /\ DOMAIN g = Players
      /\ \A q \in Players : f[q] = 0 /\ g[q] = 0
  BY DEF Init, InitWith, NoPlayer
<1> HIDE DEF f, g
<1>2. Total(f) = 0 /\ Total(g) = 0
  BY <1>1, PlayersFinite, TotalZero
<1> QED
  BY <1>2 DEF f, g, Init, InitWith, BooksAddUp

-----------------------------------------------------------------------------
(* The depositor's promise.                                                *)

ClaimOf == [p \in Players |-> players[p].principal + players[p].pending_withdraw]

Owed == pool.total_principal + pool.pending_withdrawals

\* One account's claim moves, and what is owed in all with it.
LEMMA ClaimStep ==
  ASSUME TypeOK, TypeOK', NEW p \in Players, NEW a \in Int, NEW b \in Int, AccountMoved(p, a, b)
  PROVE  /\ ClaimOf' = [ClaimOf EXCEPT ![p] = @ + (a + b)]
         /\ ClaimOf'[p] - ClaimOf[p] = a + b
         /\ ClaimOf[p] - ClaimOf'[p] = -(a + b)
         /\ Owed' = Owed + (a + b)
<1>1. \A q \in Players : /\ players[q].principal \in Nat /\ players[q].pending_withdraw \in Nat
                         /\ players'[q].principal \in Nat /\ players'[q].pending_withdraw \in Nat
  BY DEF TypeOK, PlayerRec
<1>2. \A q \in Players : ClaimOf'[q] = IF q = p THEN ClaimOf[q] + (a + b) ELSE ClaimOf[q]
  <2>1. ClaimOf'[p] = ClaimOf[p] + (a + b)
    BY <1>1 DEF ClaimOf, AccountMoved
  <2>2. ASSUME NEW q \in Players \ {p} PROVE ClaimOf'[q] = ClaimOf[q]
    BY DEF ClaimOf, AccountMoved
  <2> QED
    BY <2>1, <2>2
<1>3. ClaimOf' = [ClaimOf EXCEPT ![p] = @ + (a + b)]
  BY <1>2 DEF ClaimOf
<1>4. ClaimOf[p] \in Nat /\ ClaimOf'[p] = ClaimOf[p] + (a + b)
  BY <1>1, <1>2 DEF ClaimOf
<1>5. Owed' = Owed + (a + b)
  BY DEF Owed, AccountMoved, TypeOK, PoolRec
<1> QED
  BY <1>3, <1>4, <1>5

\* A step of the program is a step of NoLossVault, or leaves it alone.
LEMMA NextNoLoss ==
  ASSUME TypeOK, TypeOK', [Next]_vars
  PROVE  NoLoss!ANext \/ UNCHANGED NoLoss!avars
<1> DEFINE c == ClaimOf
<1>1. /\ pool.yield_budget \in Nat /\ pool'.yield_budget \in Nat
      /\ tokens.principal_vault \in Nat /\ tokens'.principal_vault \in Nat
      /\ tokens.admin \in Int /\ tokens'.admin \in Int /\ Owed \in Nat
  BY DEF TypeOK, PoolRec, TokenRec, Owed
<1>2. CASE InOrOut
  <2>1. PICK p \in Players, a \in Int, b \in Int : Moved(p, a, b, a + b, 0)
    BY <1>2, Zenon DEF InOrOut
  <2> DEFINE d == a + b
  <2>2. /\ d \in Int
        /\ tokens'.principal_vault = tokens.principal_vault + d
        /\ tokens'.admin = tokens.admin
        /\ pool'.yield_budget = pool.yield_budget
    BY <1>1, <2>1 DEF Moved, VaultMoved
  <2>3. /\ c' = [c EXCEPT ![p] = @ + d]
        /\ c'[p] - c[p] = d /\ c[p] - c'[p] = -d
        /\ Owed' = Owed + d
    BY <2>1, ClaimStep DEF Moved
  <2> HIDE DEF d
  <2>4. CASE d > 0
    BY <2>2, <2>3, <2>4 DEF NoLoss!ANext, NoLoss!Credit, NoLoss!Moves, ClaimOf, Owed
  <2>5. CASE d < 0
    <3>1. -d > 0 /\ -d <= tokens.principal_vault /\ -(-d) = d
      BY <1>1, <2>2, <2>5
    <3>2. tokens'.principal_vault = tokens.principal_vault - (-d)
      BY <1>1, <2>2
    <3> QED
      BY <2>2, <2>3, <3>1, <3>2 DEF NoLoss!ANext, NoLoss!Pay, NoLoss!Moves, ClaimOf, Owed
  <2>6. CASE d = 0
    <3>1. c' = c
      <4>1. \A q \in Players : c[q] \in Int /\ c[q] + d = c[q]
        BY <2>6 DEF ClaimOf, TypeOK, PlayerRec
      <4>2. \A q \in Players : c'[q] = c[q]
        BY <2>3, <4>1 DEF ClaimOf
      <4> QED
        BY <4>2 DEF ClaimOf
    <3> QED
      BY <1>1, <2>2, <2>3, <2>6, <3>1 DEF NoLoss!avars, ClaimOf, Owed
  <2> QED
    BY <2>2, <2>4, <2>5, <2>6
<1>3. CASE Yielded
  <2>1. PICK p \in Players, a \in Nat : a <= pool.yield_budget /\ Moved(p, a, 0, 0, -a)
    BY <1>3, Zenon DEF Yielded
  <2>2. /\ tokens'.principal_vault = tokens.principal_vault
        /\ tokens'.admin = tokens.admin
        /\ pool'.yield_budget = pool.yield_budget - a
    BY <1>1, <2>1 DEF Moved, VaultMoved
  <2>3. a \in Int /\ 0 \in Int /\ a + 0 = a
    OBVIOUS
  <2>4. /\ c' = [c EXCEPT ![p] = @ + a]
        /\ c'[p] - c[p] = a
        /\ Owed' = Owed + a
    BY <2>1, <2>3, ClaimStep DEF Moved
  <2>5. CASE a > 0
    BY <2>1, <2>2, <2>4, <2>5 DEF NoLoss!ANext, NoLoss!CreditYield, NoLoss!Moves, ClaimOf, Owed
  <2>6. CASE a = 0
    <3>1. c' = c
      <4>1. \A q \in Players : c[q] \in Int /\ c[q] + a = c[q]
        BY <2>6 DEF ClaimOf, TypeOK, PlayerRec
      <4>2. \A q \in Players : c'[q] = c[q]
        BY <2>4, <4>1 DEF ClaimOf
      <4> QED
        BY <4>2 DEF ClaimOf
    <3> QED
      BY <1>1, <2>2, <2>4, <2>6, <3>1 DEF NoLoss!avars, ClaimOf, Owed
  <2> QED
    BY <2>5, <2>6
<1>4. CASE Budgeted
  <2>1. PICK p \in Players, y \in Int :
          /\ Moved(p, 0, 0, y, y)
          /\ y < 0 => tokens'.principal_vault >= pool.total_principal + pool.pending_withdrawals
    BY <1>4, Zenon DEF Budgeted
  <2>2. c' = c
    BY <2>1 DEF Moved, AccountMoved, ClaimOf, TypeOK, PlayerRec
  <2>3. /\ tokens'.principal_vault = tokens.principal_vault + y
        /\ tokens'.admin = tokens.admin
        /\ pool'.yield_budget = pool.yield_budget + y
        /\ Owed' = Owed
    BY <2>1 DEF Moved, AccountMoved, VaultMoved, Owed, TypeOK, PoolRec
  <2>4. CASE y > 0
    BY <1>1, <2>2, <2>3, <2>4 DEF NoLoss!ANext, NoLoss!Fund, ClaimOf, Owed
  <2>5. CASE y < 0
    BY <1>1, <2>1, <2>2, <2>3, <2>5 DEF NoLoss!ANext, NoLoss!Sweep, ClaimOf, Owed
  <2>6. CASE y = 0
    BY <1>1, <2>2, <2>3, <2>6 DEF NoLoss!avars, ClaimOf, Owed
  <2> QED
    BY <2>4, <2>5, <2>6
<1>5. CASE LentOrReturned
  BY <1>1, <1>5 DEF LentOrReturned, NoLoss!ANext, NoLoss!Lend
<1> QED
  BY <1>2, <1>3, <1>4, <1>5, NextLedger DEF LedgerStep

\* A freshly initialized pool is an initial state of NoLossVault.
LEMMA InitNoLoss == Init => NoLoss!AInit
  BY DEF Init, InitWith, NoPlayer, NoLoss!AInit

\* The program keeps the depositor's promise of NoLossVault: for any number of
\* wallets, every instruction of custody.rs, epochs.rs and rounds.rs moves a
\* claim only with the USDC behind it, or out of the yield budget.
THEOREM KeepsThePromise == Spec => ImplementsNoLoss
<1>1. TypeOK /\ TypeOK' /\ [Next]_vars => [NoLoss!ANext]_(NoLoss!avars)
  BY NextNoLoss
<1> QED
  BY <1>1, InitNoLoss, TypeCorrect, PTL DEF Spec, ImplementsNoLoss, NoLoss!ASpec

-----------------------------------------------------------------------------
(* Leaving.                                                                *)

\* What emergency_withdraw asks of the pool and the vault to pay p out.
CanBePaidOut(p) ==
  LET plr == touch(players[p], pool, now) IN
  /\ tokens.principal_vault >= plr.principal + plr.pending_withdraw
  /\ pool.total_principal >= plr.principal
  /\ pool.pending_withdrawals >= plr.pending_withdraw

\* One account's claims are part of the totals.
LEMMA PartOfTheBooks ==
  ASSUME TypeOK, BooksAddUp, NEW p \in Players
  PROVE  /\ players[p].principal <= pool.total_principal
         /\ players[p].pending_withdraw <= pool.pending_withdrawals
<1> DEFINE f == [q \in Players |-> players[q].principal]
           g == [q \in Players |-> players[q].pending_withdraw]
<1>1. /\ DOMAIN f = Players /\ DOMAIN g = Players
      /\ \A q \in Players : f[q] \in Nat /\ g[q] \in Nat
  BY DEF TypeOK, PlayerRec
<1>2. /\ f[p] = players[p].principal /\ g[p] = players[p].pending_withdraw
      /\ pool.total_principal = Total(f) /\ pool.pending_withdrawals = Total(g)
  BY DEF BooksAddUp
<1> HIDE DEF f, g
<1>3. f[p] <= Total(f) /\ g[p] <= Total(g)
  BY <1>1, PlayersFinite, TotalNat
<1> QED
  BY <1>2, <1>3

\* Where nothing is lent, no guard on money can refuse a Player its exit
\* (emergency_withdraw, custody.rs): whoever left, was paid or was swept before,
\* in whatever order, the vault and both totals still hold all that is this
\* Player's; process_withdraw asks for no more. Principal the admin still has
\* out is the one thing in the way.
THEOREM NobodyIsLockedIn ==
  Spec => [](tokens.admin <= 0 => \A p \in Players : CanBePaidOut(p))
<1>1. TypeOK /\ TypeOK' /\ BooksAddUp /\ [Next]_vars => BooksAddUp'
  BY NextBooks
<1>2. ASSUME TypeOK, BooksAddUp, Backing, tokens.admin <= 0, NEW p \in Players
      PROVE  CanBePaidOut(p)
  <2> DEFINE plr == touch(players[p], pool, now)
  <2>1. players[p] \in PlayerRec
    BY <1>2 DEF TypeOK
  <2>2. plr.principal = players[p].principal /\ plr.pending_withdraw = players[p].pending_withdraw
    BY <1>2, <2>1, TouchKeeps DEF Kept
  <2>3. /\ players[p].principal \in Nat /\ players[p].pending_withdraw \in Nat
        /\ pool.total_principal \in Nat /\ pool.pending_withdrawals \in Nat
        /\ pool.yield_budget \in Nat
        /\ tokens.principal_vault \in Nat /\ tokens.admin \in Int
    BY <1>2, <2>1 DEF TypeOK, PlayerRec, PoolRec, TokenRec
  <2>4. /\ players[p].principal <= pool.total_principal
        /\ players[p].pending_withdraw <= pool.pending_withdrawals
    BY <1>2, PartOfTheBooks
  <2>5. tokens.principal_vault + tokens.admin =
          pool.total_principal + pool.pending_withdrawals + pool.yield_budget
    BY <1>2 DEF Backing
  <2>6. tokens.principal_vault >= players[p].principal + players[p].pending_withdraw
    BY <1>2, <2>3, <2>4, <2>5
  <2> HIDE DEF plr
  <2>7. /\ tokens.principal_vault >= plr.principal + plr.pending_withdraw
        /\ pool.total_principal >= plr.principal
        /\ pool.pending_withdrawals >= plr.pending_withdraw
    BY <2>2, <2>3, <2>4, <2>6
  <2> QED
    BY <2>7 DEF plr, CanBePaidOut
<1>3. TypeOK /\ BooksAddUp /\ Backing
        => (tokens.admin <= 0 => \A p \in Players : CanBePaidOut(p))
  BY <1>2
<1> QED
  BY <1>1, <1>3, InitBooks, TypeCorrect, VaultBacksClaims, PTL DEF Spec
=============================================================================
