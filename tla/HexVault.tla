------------------------------ MODULE HexVault ------------------------------
(***************************************************************************)
(* The whole hex_vault program: custody, epochs and rounds acting on one   *)
(* pool while the clock runs. Every step of Next is one transaction of one *)
(* actor (a depositor, the admin, the operator, a stranger) or the cluster *)
(* clock or ORAO, in any interleaving.                                     *)
(***************************************************************************)
EXTENDS Custody, Epochs, Rounds, Totals

Next == Tick \/ CustodyNext \/ EpochsNext \/ RoundsNext

Spec == Init /\ [][Next]_vars

-----------------------------------------------------------------------------
(* Money                                                                   *)

\* The principal vault plus what the admin has lent out is exactly what
\* depositors own, are waiting for, and the unspent yield budget: no
\* instruction creates or loses a claim without moving the USDC behind it
\* (the invariant sweep_house leans on, custody.rs:742).
Backing ==
  tokens.principal_vault + tokens.admin =
    pool.total_principal + pool.pending_withdrawals + pool.yield_budget

\* The jackpot vault always holds every prize already promised to an epoch
\* that is Drawing or Drawn, so no close, payout, sweep or rollover of one
\* epoch can spend another's prize.
JackpotCovered == tokens.jackpot_vault >= pool.jackpot_reserved

\* The pool's running totals are the sums over the Player accounts, so none of
\* the checked subtractions on them can ever refuse a depositor's exit.
BooksAddUp ==
  /\ pool.total_principal = Total([p \in Players |-> players[p].principal])
  /\ pool.pending_withdrawals = Total([p \in Players |-> players[p].pending_withdraw])

\* jackpot_reserved is exactly the prizes of the epochs that are Drawing or
\* Drawn: every promise is released once, by payout or by rollover.
Promised(e) ==
  IF epochs[e].status \in {"Drawing", "Drawn"} THEN epochs[e].jackpot_amount ELSE 0

ReservedIsPromised ==
  pool.jackpot_reserved = Total([e \in EpochIds |-> Promised(e)])

\* The House never holds Principal, nor principal-seconds, so it can never be
\* credited Base yield (the debug_assert in credit_yield) and sweep_house
\* never has depositor money to mistake for the protocol's.
HouseHoldsNoPrincipal ==
  /\ players[House].principal = 0
  /\ players[House].principal_acc = 0
  /\ players[House].frozen_principal_acc = 0
  /\ players[House].pending_withdraw = 0

\* The program implements the depositor's promise: a claim is Principal plus
\* what is pending, and every instruction is a step of NoLossVault or leaves
\* it alone. Requests, rounds, draws and parameter changes move no claim.
NoLoss == INSTANCE NoLossVault WITH
  Holder <- Players,
  claim  <- [p \in Players |-> players[p].principal + players[p].pending_withdraw],
  owed   <- pool.total_principal + pool.pending_withdrawals,
  vault  <- tokens.principal_vault,
  lent   <- tokens.admin,
  budget <- pool.yield_budget

ImplementsNoLoss == NoLoss!ASpec

-----------------------------------------------------------------------------
(* The draw                                                                *)

\* Intervals registered for one epoch never overlap and never reach past the
\* epoch's registered weight: the drawn point has at most one owner.
IntervalsDisjoint ==
  \A p \in Players :
    LET e == players[p].reg_epoch IN
    e # 0 =>
      /\ e \in EpochIds
      /\ players[p].reg_start < players[p].reg_end
      /\ players[p].reg_end <= epochs[e].registered_weight
      /\ \A q \in Players \ {p} :
           players[q].reg_epoch = e =>
             \/ players[q].reg_end <= players[p].reg_start
             \/ players[p].reg_end <= players[q].reg_start

\* A drawn prize has a Player who can still be paid it: the winning interval
\* survives on its Player until Payout (begin_epoch's hold, epochs.rs:171).
WinnerPayable ==
  \A e \in EpochIds :
    epochs[e].status = "Drawn" => \E p \in Players : IsWinner(e, p)

\* Nothing done in the current epoch alters what the previous one owes a
\* Player, whether or not touch already froze it (spec.md 2.4, invariant 8).
PreviousWeightFixed ==
  [][ \A e \in EpochIds :
        (e = pool.current_epoch_id - 1 /\ pool'.current_epoch_id = pool.current_epoch_id)
        => \A p \in Players :
             (players[p].live /\ FrozenSlotMatches(players[p], e)) =>
               /\ FrozenSlotMatches(players'[p], e)
               /\ EpochWeight(players'[p], e, epochs'[e]) = EpochWeight(players[p], e, epochs[e])
    ]_vars

\* The Entries a Player would hold if touched now.
EntriesNow(p) == touch(players[p], pool, now).entries

\* All the program owes: depositors' money, unspent yield, promised prizes.
OwedInAll ==
  pool.total_principal + pool.pending_withdrawals + pool.yield_budget + pool.jackpot_reserved

\* The switches, the epochs, the rounds and the protocol's money stand still.
StaysDown ==
  /\ pool'.shutdown /\ pool'.paused /\ pool'.game_paused /\ pool'.jackpot_paused
  /\ pool'.current_epoch_id = pool.current_epoch_id
  /\ pool'.next_round_id = pool.next_round_id
  /\ pool'.yield_budget <= pool.yield_budget
  /\ pool'.jackpot_reserved <= pool.jackpot_reserved

\* Something from before the shutdown is played out: yield is credited, a
\* prize released, a round settled.
PlayedOut ==
  \/ pool'.yield_budget < pool.yield_budget
  \/ pool'.jackpot_reserved < pool.jackpot_reserved
  \/ rounds' # rounds

\* The pool owes no more than before, and nobody gains Entries for anything
\* newer than what was already under way.
NothingNew ==
  /\ OwedInAll' <= OwedInAll
  /\ \A p \in Players : EntriesNow(p)' > EntriesNow(p) => PlayedOut

\* Shutdown is final: no later step lifts a switch, begins an epoch, opens a
\* round, raises the yield budget or a promised prize, adds to what the pool
\* owes in all (a deposit would) or gives a Player Entries but by the yield,
\* prize or round already due (a purchase or a grant would).
ShutdownIsFinal == [][ pool.shutdown => StaysDown /\ NothingNew ]_vars

-----------------------------------------------------------------------------
(* The game                                                                *)

\* At most one round is Open or Requested, and open_round_id names it: a new
\* round cannot start over one that still holds stakes.
OneOpenRound ==
  \A r \in RoundIds :
    rounds[r].status \in {"Open", "Requested"} <=> pool.open_round_id = r

\* open_positions counts the Position accounts of a round, so close_round
\* never reclaims a round somebody still has a position in.
PositionsCounted ==
  \A r \in RoundIds :
    rounds[r].open_positions = Cardinality({p \in Owners : positions[r][p].tiles # {}})

\* What the pool and its rounds keep count of agrees with the accounts counted,
\* in every interleaving of custody and game: the totals over Players, the
\* open round, the positions of a round, and a House outside Principal.
RecordsAgree == BooksAddUp /\ HouseHoldsNoPrincipal /\ OneOpenRound /\ PositionsCounted

\* Entries everybody would hold if all Players were touched at this instant,
\* plus what rounds of the current epoch still hold or owe, plus the carry.
PotInPlay(r) ==
  IF rounds[r].epoch_id # pool.current_epoch_id THEN 0
  ELSE IF rounds[r].status \in {"Open", "Requested"} THEN rounds[r].pot
  ELSE Total([p \in Owners |-> Reward(r, p)])

EntriesInPlay ==
  Total([p \in Players |-> EntriesNow(p)]) + Total([r \in RoundIds |-> PotInPlay(r)])
    + pool.carry_pot

\* The game only moves Entries: no step of a round (opening, staking, settling,
\* claiming, voiding, closing) leaves more Entries in play than it found, so
\* the rewards of a round never exceed its pot (spec.md 2.4, invariant 5).
GameMintsNothing ==
  [][ rounds' # rounds => EntriesInPlay' <= EntriesInPlay ]_vars

\* With no withdrawals, purchases or grants, Entries in play never exceed the
\* principal they were created from (spec.md 2.4, invariant 2).
EntriesMatchPrincipal == EntriesInPlay <= pool.total_principal

\* Staking is Weight-neutral (rounds.rs:134). In a pool with one depositor, no
\* purchases and no grants there is nobody to win Entries from, so the Weight
\* of the current epoch, accrued up to its end at the Entries now held, is at
\* most what holding the Principal all along would have earned.
CurrentWeight(p) ==
  LET plr == touch(players[p], pool, now)
  IN plr.weight_acc + weight_of(plr.entries, elapsed(now, pool.current_epoch_ends_at))

StakingWeightNeutral ==
  pool.current_epoch_id > 0 =>
    \A p \in Owners :
      CurrentWeight(p) <=
        weight_of(players[p].principal,
                  elapsed(pool.current_epoch_start, pool.current_epoch_ends_at))

-----------------------------------------------------------------------------
(* Tickets outside the game                                                *)

\* With no game, no admin grants, no emergency exit and an unchanged price, Entries
\* are exactly Principal plus what was bought and granted this epoch: the lazy
\* reset of Entries and the lazy resets of the two counters never drift apart,
\* whichever instruction first touches the Player in an epoch.
TicketsExplained(p) ==
  EntriesNow(p) =
    players[p].principal
    + CountedInEpoch(players[p].bought_epoch, players[p].bought_amount, 0)
        * params.tickets_per_usdc
    + CountedInEpoch(players[p].bonus_epoch, players[p].bonus_granted, 0)

-----------------------------------------------------------------------------
(* Withdrawals                                                             *)

\* A request's time limit never matures before the epoch it landed in is over,
\* so it only ever helps when begin_epoch is late (custody.rs:553).
HatchOnlyWhenEpochLate ==
  \A p \in Players :
    (/\ players[p].pending_withdraw > 0
     /\ pool.current_epoch_id > 0
     /\ pool.current_epoch_id = players[p].pending_epoch
     /\ now > players[p].requested_at + params.epoch_seconds)
    => now >= pool.current_epoch_ends_at
=============================================================================
