------------------------------- MODULE ReadApi -------------------------------
(***************************************************************************)
(* What the read API answers (api.service.ts), over mirrored rows that are *)
(* in step with the chain (Indexer says when they are). The service stores *)
(* rows as the program last wrote them and never runs `touch`, so whatever *)
(* the program would settle lazily it has to work out for itself; here the *)
(* two are put side by side.                                               *)
(*                                                                         *)
(* The rows of getState come from one RepeatableRead transaction, so they  *)
(* are one state of the mirror. Text, paging and dates are left out.       *)
(***************************************************************************)
EXTENDS HexVault

Clamp(n) == IF n < 0 THEN 0 ELSE n

\* Mutant: an untouched Player accrues on the Entries of its old epoch.
weightAt_old_entries(plr, e, start, at) ==
  IF plr.frozen_epoch = e THEN plr.frozen_weight
  ELSE IF plr.epoch_id = e THEN plr.weight_acc + plr.entries * Clamp(at - plr.last_update)
  ELSE IF plr.epoch_id < e THEN plr.entries * Clamp(at - start)
  ELSE 0

weightAt(plr, e, start, at) ==
  IF plr.frozen_epoch = e THEN plr.frozen_weight
  ELSE IF plr.epoch_id = e THEN plr.weight_acc + plr.entries * Clamp(at - plr.last_update)
  ELSE IF plr.epoch_id < e THEN plr.principal * Clamp(at - start)
  ELSE 0

ifCurrentEpoch(stamp, value) == IF stamp = pool.current_epoch_id THEN value ELSE 0

\* Mutant: the vault is compared with Principal and what was asked back only.
principalOut_no_budget(vault) ==
  Clamp(pool.total_principal + pool.pending_withdrawals - vault)

principalOut(vault) ==
  Clamp(pool.total_principal + pool.pending_withdrawals + pool.yield_budget - vault)

oneDayYieldCost ==
  (pool.total_principal * params.base_rate_bps) \div (BPS_DENOMINATOR * 365)

poolBonusCap == (pool.total_principal * params.bonus_cap_bps) \div BPS_DENOMINATOR

\* yieldStatus; the shortfall is a sum over events (Indexer).
yieldStatus ==
  [bonusGrantedToday |-> ifCurrentEpoch(pool.bonus_epoch, pool.bonus_granted),
   bonusCap          |-> poolBonusCap,
   yieldBudgetLow    |-> pool.yield_budget < oneDayYieldCost]

-----------------------------------------------------------------------------
(* Weights and the draw's progress.                                        *)

liveWeight(p, at) ==
  LET e == pool.current_epoch_id IN weightAt(players[p], e, epochs[e].starts_at, at)

EpochDrawWeight(p, e) ==
  weightAt(players[p], e, epochs[e].starts_at, epochs[e].ends_at)

\* weightsFrom: one row per Player.
weightsFrom(at) ==
  [p \in {q \in Players : players[q].live} |->
     [liveWeight |-> liveWeight(p, at), drawWeight |-> EpochDrawWeight(p, pool.current_epoch_id)]]

\* Mutant: a Player counts only once a touch has frozen its Weight.
Eligible_frozen_only(e) == {p \in Players : players[p].live /\ players[p].frozen_epoch = e
                                            /\ players[p].frozen_weight > 0}

Eligible(e) == {p \in Players : players[p].live /\ EpochDrawWeight(p, e) > 0}

\* drawingProgressFrom: shown while the previous epoch is being drawn.
Progress(e) == [registeredCount |-> epochs[e].registered_count, eligible |-> Cardinality(Eligible(e))]

-----------------------------------------------------------------------------
(* One Player's tickets.                                                   *)

\* Mutant: yesterday's purchases still count.
boughtToday_stale(p) == players[p].bought_amount

boughtToday(p) == ifCurrentEpoch(players[p].bought_epoch, players[p].bought_amount)

playerTicketExtras(p) ==
  [boughtToday      |-> boughtToday(p),
   buyAllowanceLeft |-> Clamp(players[p].principal - boughtToday(p)),
   grantedToday     |-> ifCurrentEpoch(players[p].bonus_epoch, players[p].bonus_granted)]

-----------------------------------------------------------------------------
\* principalOut (api.service.ts:150) works from balances alone: what it answers
\* is what the admin has lent out and not yet returned (nothing, when too much
\* was returned), through every deposit, withdrawal, funding and sweep.
PrincipalOutIsLent == principalOut(tokens.principal_vault) = Clamp(tokens.admin)

\* playerTicketExtras (api.service.ts:1116): the program, which settles the
\* Player first, accepts the purchases within the allowance shown and no others.
AllowanceHonoured(p) ==
  \A amount \in Amounts : (players[p].live /\ amount > 0) =>
    LET plr == touch(players[p], pool, now)
        accepted == CountedInEpoch(plr.bought_epoch, plr.bought_amount, amount) <= plr.principal
    IN accepted <=> amount <= playerTicketExtras(p).buyAllowanceLeft

\* The two together: what a depositor holds beyond Principal is what its
\* counters say, and the API reads those counters as the program does.
TicketsTrue == \A p \in Owners : TicketsExplained(p) /\ AllowanceHonoured(p)

\* drawingProgressFrom (api.service.ts:991): whoever is registered is counted
\* eligible, with exactly the Weight of the interval the draw gives them, and
\* so are those registration has yet to reach; nobody touched later drops out.
ProgressTrue ==
  LET e == pool.current_epoch_id - 1 IN
  (e > 0 /\ epochs[e].status \in {"Registering", "Drawing"}) =>
    /\ \A p \in Players : (players[p].reg_epoch = e /\ players[p].live) =>
         /\ p \in Eligible(e)
         /\ EpochDrawWeight(p, e) = players[p].reg_end - players[p].reg_start
    /\ Progress(e).registeredCount <= Progress(e).eligible
=============================================================================
