# HEXO.fun in TLA+

HEXO.fun is a no-loss lottery with a board game on top. Depositors put USDC into a pool run by
the Solana program `hex_vault`; nobody loses principal, a jackpot is drawn once per epoch, and
between draws players stake the tickets ("Entries") their deposit earned on a 36-tile board. A
NestJS backend runs the pool (the operator service), mirrors it into Postgres (the indexer) and
serves it to a web client.

This directory models the program, the backend's services, the scripts that set the pool up and
administer it, and the parts of the browser that hold protocol state; checks the models with TLC;
and proves with TLAPS the central facts about the program and about the services, the scripts and
the browser around it.

## 1. Inventory

### The on-chain program, `programs/hex_vault/src`

| part | state | operations |
| --- | --- | --- |
| `state.rs`, `touch.rs`, `utils.rs` | `Pool`, `Player`, `Epoch`, `Round`, `Position` accounts, four token accounts | `touch`: lazy accrual of Weight (Entries x seconds) and lazy reset of Entries to Principal at an epoch boundary |
| `custody.rs` | Principal, pending withdrawals, yield budget, roles, three pause switches, shutdown | `create_pool`, `set_params`, `set_pause`, `set_feature_pause`, `shutdown`, `set_operator`, `propose_admin`, `accept_admin`, `deposit`, `request_withdraw`, `process_withdraw`, `admin_withdraw`, `emergency_withdraw`, `sweep_house`, `buy_tickets`, `grant_tickets` |
| `epochs.rs` | epoch status, registered intervals, promised prizes | `begin_epoch`, `register`, `fund_jackpot`, `fund_yield`, `close_registration`, `draw`, `payout`, `rollover_epoch` |
| `rounds.rs` | the open round, tile totals, pot, carried pot, positions | `create_round`, `buy_position`, `request_round_randomness`, `settle_round`, `settle_position`, `void_round`, `close_round` |
| `vrf.rs` | ORAO randomness accounts | request, read, unbiased mapping to a tile or a draw point |

Every instruction is one transaction, hence atomic. What is hard is their interleaving: depositors,
the admin, the operator and strangers send them in any order, the clock runs underneath, and ORAO
answers late or never. A Player is not visited at an epoch boundary; the next instruction that
touches it reconstructs what happened from three fields of the pool.

Correct means: every claim is backed by USDC (`Backing`, `RecordsAgree`, `ImplementsNoLoss`); a
promised prize is never spent elsewhere and is released once (`JackpotCovered`,
`ReservedIsPromised`); a drawn point has exactly one owner who can still be paid
(`IntervalsDisjoint`, `WinnerPayable`); lazy accrual equals eager accrual
(`AccrualExact`) and nothing done later changes an ended epoch's Weight (`PreviousWeightFixed`);
the game only moves Entries (`GameMintsNothing`); and depositors get out, epochs resolve and
rounds finish without the operator (`WithdrawalsArePaid`, `EpochsResolve`, `RoundsFinish`).

### The backend, `apps/backend/src`

| part | state | operations | hard because | correct means |
| --- | --- | --- | --- | --- |
| operator (`operator/`) | memory of owners sent and failed, one running tick, one planned look | `decide` sends at most one step's transaction per tick; wakes on logs, on a computed deadline and on a safety timer | reads a mirror that lags the chain; a sent transaction may land although the send failed; batches fail as a whole | `WakeSound`, `NobodyLeftOut`, `WithdrawalsDrain`, `BoardDrains` |
| indexer (`indexer/`) | Postgres mirror of the accounts, event log, cursor, referral rows, `freshWrites` | log-driven refresh, periodic sweep, event catch-up | three writers of the same rows at different commitment levels, dropped and replayed notifications, crashes between batches | `StoreSound`, `SyncedSound`, `Converges` |
| referrals (`api/referral*`, step 3b of `decide`) | referral, grant and share rows | bind, compute what is due, send, mark | a crash between a grant's landing and its mark; caps shared by everybody | `GrantsSound` |
| access (`api/access.controller.ts`) | invite code and redemption rows | redeem, hand out codes | concurrent requests racing for a code's last use and for the circulation cap | `CodesHonoured` |
| read API, `ReadCache` (`api/`) | shared reads in flight | figures worked out from rows; cached RPC reads | rows a lazy program has not touched; slow and failing reads that overtake one another; a chain clock that drifts from the server's | `AccrualExact`, `ProgressTrue`, `TicketsTrue`, `PrincipalOutIsLent`, `CacheSound` |
| alerts (`api/alerts.controller.ts`) | what the services wrote about themselves | one poll | the writers fail, die and come back on their own | `AlertsSound` |
| faucet (`api/faucet.controller.ts`) | claims | mint once per interval | a claim is read before the mint and written after it | `RefusedOnlyIfRan` |
| chain access (`chain/`) | which RPC endpoint answers | send, confirm, fail over | the fate of a send has to be worked out from separate reads | `ToldTrue` |
| bootstrap, sparring set-up, boot guards | none of their own | make mint, accounts, pool; check an environment | dies anywhere and is run again | `SetupRepeatable` |
| admin command line (`admin/`) | none | admin transactions by hot key, Ledger or Squads; the emergency crank | which key ends up signing; owners exit while the crank pays | `AdminHonest` |

### The web client, `apps/web/src`, and the landing page

| part | hard because | correct means |
| --- | --- | --- |
| sending (`actions.ts`) | as chain access, with a person who presses again | `ToldTrue`, `PaidOnce` |
| polling and reveals (`useStatePoll.ts`, `useRoundEngine.ts`, `engine.ts`) | polls overlap and overtake one another while reveals play one by one | `RevealsSound` |
| access gate (`useAccessGate.ts`, `access.ts`) | the wallet changes under requests that are under way | `GateSound` |
| playing (`App.tsx`, `useChainClock.ts`, `clock.ts`) | a served second with jitter, a device that sleeps, automatic rounds over slow sends | `SteadyCountdown`, `PlayTold` |
| the waitlist (`apps/landing/api/waitlist.js`) | several warm instances fill in codes for old rows | `GivenCodeKept` |

Components talk as follows: client and operator send instructions to the program; the program's
logs and accounts reach the indexer over RPC; the operator reads both the chain and the mirror;
the API reads the mirror; the indexer computes referral grants the operator then sends as
`grant_tickets`.

## 2. Modules

| module | models |
| --- | --- |
| `Touch` | `touch.rs` and the arithmetic of `epochs.rs`: accrual, freezing, Base yield, the epoch grid |
| `PoolState` | the accounts, the parameter checks, `create_pool` (as `Init`), the clock |
| `Custody`, `Epochs`, `Rounds` | the three instruction files, one action per instruction, named as in the code |
| `HexVault` | the program: all of them on one pool, and its properties |
| `NoLossVault` | the abstract promise to a depositor; `HexVault` implements it under a refinement mapping |
| `ReadApi` | what `api.service.ts` computes from rows, beside what the program would compute |
| `EagerWeight` | the whole program with a second-by-second reference account of Weight beside it |
| `HonestOperator` | the program when the operator role is held by the operator service: its extra conditions on `begin_epoch`, `close_registration` and `create_round`, all signed with a real key |
| `Liveness` | the leads-to properties of the program alone |
| `Operator` | the operator service: every step of `decide`, batches, memory, scheduling, restarts |
| `Indexer` | subscriptions, queue, log path, sweep, catch-up, crash |
| `Referrals` | step 3b and the rows behind it |
| `Access` | redemption as database statements with the locks they take |
| `ReadCache`, `Monitoring`, `Faucet` | the rest of the API that keeps state |
| `Sending` | a cluster with skipped blocks and expiring blockhashes; the browser's and the backend's way of learning a transaction's fate |
| `Provisioning`, `AdminCli` | `bootstrap.ts`, `sparring-setup.ts`, `boot-guard.ts`; the admin's commands |
| `WebRound`, `AccessGate`, `WebPlay` | the browser |
| `Waitlist` | the landing page's route |
| `Totals` | the sum of a function over its domain |
| `TotalsTheory` | lemmas about those sums and about finite sets |
| `HexVaultSafety` | proofs: types, backing, promised prizes, shutdown |
| `HexVaultLedger` | proofs: what a step moves; the refinement of `NoLossVault`; what stands between a depositor and leaving |
| `HexVaultRecords` | proofs: totals are sums of accounts, the open round, positions, Entries in play |
| `HexVaultDraws` | proofs: prizes, intervals, ended Weight, the withdrawal's time limit; payable winners, lazy accrual; what the API shows of a draw and of the allowance; Tickets; Entries and the Principal behind them |
| `ServicesSafety` | proofs: indexer, referrals, operator |
| `ClientsSafety` | proofs: access, faucet, waitlist, read cache, alerts, set-up, administration |
| `WebSafety` | proofs: gate, sending, playing, reveals |
| `MC*` | instances for TLC |

Correspondence, program. A variable is a kind of account (`pool` and `params` are the two halves of
the `Pool` account, `tokens` the SPL balances); a record field has the name of the account's field.
An action's guards are the instruction's `require!`s, account constraints and checked subtractions;
an aborted transaction writes nothing and is a stuttering step. The signer is a parameter `s`
where the code checks one. A Player, Epoch, Round or Position that was never created is an
all-zero record with status `None` (or `live = FALSE`, or no tiles). A tile mask is a set of tiles.
Randomness is a free choice of tile or of a point below `registered_weight`; `FulfillEpoch` and
`FulfillRound` stand for ORAO, external to the repository, and may never happen. `return_principal`
is the plain token transfer by which lent principal comes back, so `tokens.admin` may go negative
when the admin returns more than was taken. Unsigned arithmetic is checked in the code, so it is
unbounded here with the check as a guard; what saturates in the code saturates here.

Correspondence, services. An `await` ends an action: whatever was read before it stays in a local
(`ctx` of a tick, `redeem[t]`, `caller`, `visit`) while other actors move. In `Operator`, `chain` is
the part of the program's state a tick looks at, with the program's own checks repeated as `Accepts`;
deadlines are kept as ages, so the model has no clock that runs out. `seen` is the mirror and `walk`
the snapshot it is about to be replaced by. In `Indexer` the chain is a sequence of transactions and
a database row is the slot its data is from, which is all that three writers racing for a row can
disagree about. In `Access`, statements of one transaction are separate actions and wait for each
other's row and key locks as READ COMMITTED does.

The program's instances use `BPS_DENOMINATOR = 10` and `SECONDS_PER_YEAR = 1` so that cuts and yields
are not all floored to zero at small amounts; the theorems hold for any positive values, the code's
among them.

The operators whose names extend another's with an underscore, commented `Mutant`, are plausible
mistakes in the definition that follows them. Nothing uses them; each property was seen to fail when
one of them takes that definition's place.

## 3. Runs

A run may consist of *slices* (also *parts*) chosen at the start, so that the states of questions that
have nothing to do with each other add up instead of multiplying. A slice is a restriction of the
next-state relation, never a change of an action.

| run | slices | checks |
| --- | --- | --- |
| `vault` | custody; game; accrual; operated (the operator service's own conditions) | `TypeOK`, `Backing`, `RecordsAgree`, `HatchOnlyWhenEpochLate`, `PrincipalOutIsLent`, `AccrualExact`, `WinnerPayable`, `ImplementsNoLoss`, `GameMintsNothing` |
| `epochs` | program (three epochs, any key as operator); roles | `JackpotCovered`, `ReservedIsPromised`, `IntervalsDisjoint`, `TicketsTrue`, `ProgressTrue`, `PreviousWeightFixed`, `ShutdownIsFinal` |
| `live` | vault (nobody but the clock and whoever waits); withdrawals and board (the operator service) | `WithdrawalsArePaid`, `EpochsResolve`, `RoundsFinish`, `WithdrawalsDrain`, `BoardDrains` |
| `services` | calendar, registration (operator); events, mirror (indexer) | `WakeSound`, `NobodyLeftOut`, `StoreSound`, `SyncedSound` |
| `mirror_live` | mirror; events (indexer under fairness) | `Converges` |
| `clients` | one per component: referrals, access, browser, backend, balances, clock, alerts, setup, keys, crank, web, gate, play, faucet, waitlist | one property each, named in section 1 (`ToldTrue` for browser and backend) |
| `hold_too_weak` | `epochs`, program | violates `WinnerPayable` (finding 1) |
| `carry_crosses_epoch` | `vault`, game | violates `EntriesMatchPrincipal` (finding 2) |
| `stake_not_neutral` | `vault`, game, no house cut | violates `StakingWeightNeutral` (finding 3) |
| `registered_forgotten` | three epochs in one life of the service | violates `NobodyLeftOut` (finding 4) |
| `expired_but_landed` | `clients`, browser | violates `PaidOnce` (finding 5) |
| `sweep_undoes_log` | `services` | violates `KeepsNewerRows` (finding 6) |

Bounds of the program's runs. Every bound is a named constant: `MaxTime`, `MaxEpoch`, `MaxRound`,
`MaxFunds`, `MaxEntries`, `MaxLead`, and the sets `Amounts`, `Stakes`, `Tiles`. Two depositors are
needed where the property compares Players (intervals, books, a shared pot); one is enough where it
follows a single Player through time. Three epochs are the least in which two draws overlap, and in which
a registration can overwrite an interval of a draw that is still open. Epochs last one to
three seconds and timeouts one, so `MaxTime` leaves room for epochs begun late, past a whole grid
point, and for each timeout to expire. To stay small, the pool is paused only in `live`, while a
withdrawal is pending and before the game opens (no instruction needs a pause, so it only takes steps away from the safety runs); in `epochs` the
operator grants only to who has at most one Entry; stakes are placed in the first round of the game slice only (later
rounds live off the carry), its
pool is set up in a fixed order, and the House's tickets are
granted early. The reference account of Weight runs beside all four slices of `vault`. Symmetry is over depositors, which no definition tells apart, and is not used in
`live`.

Bounds of the services' runs. `Operator`: two owners with batches of one, so that a batch always
leaves somebody out; three seconds of epoch and two of round, with every wait shorter; ages stop at
the first second no condition tells apart from the next (`MaxAge`, `RoundBound`, `PrevBound`). One
assumption is made of the environment: a snapshot is written at most `IndexLag` seconds after it was
taken, and `FreshSeconds + IndexLag <= RegWindow`, which the code's defaults (60 seconds,
`config/env.ts:57`, and a window of 600, `bootstrap/params.ts:97`) leave ample room for. Without it a mirror could be stamped fresh while missing somebody
who deposited in the epoch's last second. `Indexer`: three slots, one owner, one round, one queued
batch, one crash; in the mirror slice only deposits and changes of the round; two writers crossing needs two transactions on the same account, a gap needs one
lost and one delivered. The cached chain clock may fall one second behind the server's (`MaxDrift`),
as long as a cached read lives, and four seconds pass (`MaxWall`). `Access`: two guests, seven codes (two open ones), one use per code, two
requests at a time. `Sending`: blockhashes valid for two of six heights, two presses. The
other parts have two or three of everything that can race; their constants are in `MCClients.cfg`.

Exceptions a property makes are recorded in a history variable, so they can be read off the model:
`strayed` (`GateSound`: a redeem outlived its wallet), `overtaken` (`RevealsSound`: two polls were in the
air), `ended` (`PlayTold`: the round's epoch was over when settling), `crowded` (`CodesHonoured`: the admin
issued codes while a redemption was handing some out), `shrunk` (`GrantsSound`: somebody withdrew since the epoch
began), `bank.missed` (`GrantsSound`: a tick did not see in its mirror that a grant had landed), `ixRow.stuck`
(`AlertsSound`: the cursor was stamped although catch-up fell short of the void), `skipped` (`RefusedOnlyIfRan`: the
mint was seen processed and its block then skipped), `crashes` (`SetupRepeatable`: an earlier run died), `raced` (`GivenCodeKept`: two instances filled in the same row), `db.byLog` (`SyncedSound`: the
log path wrote or noted the row last, finding 6). Section 4 says what happens then.

Fairness, program (`VaultFairness` in `MCLive`). The clock runs. Each step the properties wait for -
`process_withdraw`, `draw`, `payout`, `rollover_epoch`, `settle_round`, `settle_position`,
`void_round`, `close_round` - needs no particular signer, so whoever waits for it can send it: weak
fairness on each, per epoch, round or Player. Nothing is assumed of the admin, the operator or ORAO.
`request_round_randomness` is not fair either; a round nobody requests randomness for is voided.
Since the bounded clock stops at `MaxTime`, a step that starts a timeout may only happen while the
timeout can still expire (`TimeLeftFor`); a run of the real system has no such end. The instance
may pause the pool (`set_pause`) while somebody waits to be paid, and may leave it so. It never pauses the jackpot, lends out principal or shuts down: under those the code makes no such
promise (a paused jackpot suspends the rollover of a registering epoch, lent principal leaves
nothing to pay with).

Fairness, operator (`ServiceFairness` in `MCLive`). Time passes and the mirror follows it; a due timer fires
(Node's timers); a tick that is under way goes on (every await of the service has a timeout). ORAO
is not fair.

Fairness, indexer (`Fairness` in `Indexer`). The chain finalises; each of the three paths goes on
(timers and awaits with timeouts); and a read that is retried for ever succeeds at some point
(strong fairness on `GoodStep`, `GoodFetch` and `GoodPage`). Deliveries are not fair:
every notification may be lost.

## 4. Findings

1. *`begin_epoch`'s hold is one status short* (`hold_too_weak`). `epochs.rs:182` refuses a new epoch
   while the one two behind is Drawing or Drawn, "the one whose winner's registered interval must
   survive until Payout". It does not refuse while that epoch is still Registering, and
   `close_registration` accepts an epoch of any age. Begin epoch 3 with epoch 1 Registering, close
   and draw epoch 1, register its winner for epoch 2: the interval is overwritten and the prize can
   only roll over. What the hold lacks is exactly that registration is closed while its epoch is the
   previous one: with that, winners stay payable whoever calls what else (`HoldSuffices`). The operator
   service closes in time (`tick.ts:706`) and does not get there (`OperatedDrawsCovered`).
2. *A carried pot crosses the epoch boundary* (`carry_crosses_epoch`). `void_round` carries the pot
   while the round's epoch is current and otherwise lets it go, because the Entries "are already back
   with their owners" (`rounds.rs:409`). A pot carried before `begin_epoch` stays in
   `pool.carry_pot` across it and enters the next epoch's first round although the same Entries were
   given back. It is the only leak: where no carry waits when an epoch begins, Entries in play stay
   within the Principal they came from (`EntriesBacked`).
3. *Staking is not quite Weight-neutral* (`stake_not_neutral`). `buy_position` credits the stake's
   Weight up to the round's end; randomness may be requested `close_buffer` seconds earlier, so a
   stake that is won back by then earns those seconds twice (`rounds.rs:134` says "Weight-neutral").
4. *An owner registered once is taken for registered ever after* (`registered_forgotten`).
   `registeredRecently` is keyed by owner without the epoch, filters every later list of owners to
   register (`operator.service.ts:350`), and is pruned only when another batch is remembered; the
   comment says "for the rest of the epoch" (`tick.ts:270`). When everybody was registered in one
   epoch of a process's life, the next epoch's list is empty, nothing is sent, nothing pruned, and
   registration closes without them. A restart, or a batch with a new owner, clears it.
5. *"Try again" for a transaction that landed* (`expired_but_landed`). `resolveUnknownSend` asks for
   the status and then for the block height; what lands between the two answers is called expired.
6. *A sweep can undo the log path's newer row* (`sweep_undoes_log`). A sweep filters the rows it writes with
   `behindLogPath` when it puts a database transaction together (`indexer.service.ts:851`, `:889`, `:936`,
   `:1015`), and `freshWrites` is filled only after a log-path write has committed (`:733`): a write that
   commits in between is overwritten by the walk's older row, against the comment at `:848`. The row is
   stale until the account's next log or the next full walk, at most an hour. The reverse also happens: a
   log-path write delayed past a newer sweep puts the older row back. `SyncedSound` is what remains true:
   any other row is as new as the slot the next incremental walk starts from.

Seen while modelling, without a run of their own:

* Program. `process_withdraw` measures its deadline with the present `epoch_seconds`, so shortening it
  lets a request mature inside the epoch it was made in (`HatchOnlyWhenEpochLate` is checked with the
  parameter fixed and proved as long as nobody shortens it); a deposit made while `begin_epoch` is late earns Weight from the new epoch's
  start; in shutdown the operator service sends no `draw` although the program refuses the rollover
  of a fulfilled draw (`tick.ts:753`).
* Operator. The service lists a withdrawal once its epoch is behind the current one
  (`operator.service.ts:501-517`); after a shutdown no epoch follows, so the last epoch's requests are left to
  `process_withdraw` or `emergency_withdraw` by their owners, or the admin's crank, although "processing
  withdrawals continue" (`operator.service.ts:250`). One position already gone makes the settle batch forget the whole batch
  (`tick.ts:560-573`); grants already recorded are refused for ever once `total_principal` has shrunk
  under the cap they were computed from (`tick.ts:651-655`); the service ticks at boot without waiting for the mirror
  (`operator.service.ts:156-160`), so a grant that landed, was not marked and is not yet mirrored is sent again
  if the cap leaves room: `Referrals` takes that step, and `GrantsSound` speaks of the grants not missed so;
  `nextWakeAt` does not plan for the drawn-but-unpaid alert.
* Chain access. `resolveUnknownSend` reports failed for an error that is only processed; the backend's
  `confirm` accepts processed where the comment says confirmed (`chain.service.ts:186-188`); a lost
  answer to `sendRawTransaction` throws although the transaction is out.
* Read API. `liveWeight` is not clamped to the epoch's end; `cached` keeps a failed read for its TTL. The chain's
  second is extrapolated with the server's clock, overshoots by what the two drift apart, and the high-water mark
  keeps the overshoot (`api.service.ts:254-259`, `:834-847`, which says so): `CacheSound` bounds it by the drift.
* Access and gate. A redeem for wallet A answered after switching to B opens the gate for B
  (`useAccessGate.ts:218`); codes the admin issues while a redemption holds the quota's lock take
  the circulation over the cap.
* Browser. A second poll while one is out leaves an orphan timer and can skip a reveal; after a manual
  deploy the auto-round effect fires again in the same round; the settle note adds Tickets the program
  no longer credits once the round's epoch is over (`App.tsx:440`).
* Set-up and monitoring. A bootstrap that dies before `create_pool` and is rerun without
  `ACCEPTED_MINT` makes a second mint (`bootstrap.ts:109-118`; it is the one exception in `SetupRepeatable`, and only after a death);
  an operator that never ticked is never paged for; the indexer stamps its cursor also when a transaction's logs could not be
  read and catch-up stopped there (`indexer.service.ts:597-612`, `:1414-1419`, `:1445-1449`), so
  `INDEXER_STALE` stays silent while a void waits behind it (`ixRow.stuck`); the crank's "after" figure is the pool read before.
* Faucet and waitlist. The confirmation fallback takes any status without an error for success
  (`chain.service.ts:348-356`), so a mint merely processed and then skipped leaves a claim, and its wallet is told to
  wait for tokens it never got (`skipped`). A double mint by overlapping requests is acknowledged in the code
  (`faucet.controller.ts:111-113`); two warm instances filling in the same old row replace a code
  already answered (`waitlist.js:51-56`).

## 5. Proofs

A theorem holds for every value of the constants that satisfies the assumptions of its modules:
any number of wallets, requests, codes, rounds and epochs, any amounts and any bound. The bounds
that TLC needs remain in the actions as guards, and nothing is assumed of their size.

### The program

`PoolState` assumes that keys differ from `Pubkey::default()`, the House is not a wallet, amounts are
natural, the board and the set of wallets are finite (`OwnersAssumption`; a chain has room for so
many accounts), units are positive and the initial parameters valid.

| theorem | states |
| --- | --- |
| `TypeCorrect` | `Spec => []TypeOK`: no instruction sequence takes an unsigned field below zero |
| `VaultBacksClaims`, `PromisedPrizesCovered` | `[]Backing`, `[]JackpotCovered` |
| `ShutdownHolds` | `ShutdownIsFinal` |
| `KeepsThePromise` | `ImplementsNoLoss`: the program implements `NoLossVault` |
| `NobodyIsLockedIn` | `[](tokens.admin <= 0 => \A p : CanBePaidOut(p))`: where nothing is lent, no guard on money refuses an exit |
| `RecordsHold`, `PrincipalOutTrue` | `[]RecordsAgree`, `[]PrincipalOutIsLent` |
| `GameOnlyMovesEntries` | `GameMintsNothing`: no step of a round leaves more Entries in play than it found |
| `EveryPromiseReleasedOnce` | `[]ReservedIsPromised` |
| `OneOwnerPerPoint` | `[]IntervalsDisjoint` |
| `PreviousWeightHolds` | `PreviousWeightFixed` |
| `HatchOpensLate` | `Spec /\ NeverShortened => []HatchOnlyWhenEpochLate` |
| `HoldSuffices` | `Spec /\ ClosedInTime => []WinnerPayable`: where each registration is closed while its epoch is the previous one, a drawn prize always has an owner on record |
| `OperatedDrawsCovered` | `OperatedSpec => []WinnerPayable`: the operator service does close in time |
| `LazyAccrualExact` | `EagerSpec => []AccrualExact`: what `touch` and the read API work out is what adding up every second gives, for the whole program |
| `ProgressShownTrue` | `[]ProgressTrue`: the progress of a draw as the API shows it is the program's |
| `AllowanceShownTrue` | `[]AllowanceHonoured`: the program accepts the purchases within the allowance shown and no others |
| `TicketsAccounted` | `Spec /\ NoOtherTickets => []TicketsTrue`: Entries are Principal plus what was bought and granted this epoch, and the allowance shown is the program's |
| `EntriesBacked` | `Spec /\ NoOtherEntries /\ CarryUsedUp => []EntriesMatchPrincipal`: Entries in play never exceed the Principal behind them |

*Types.* `TypeOK` alone is not inductive: `begin_epoch` divides by `epoch_seconds`, so the invariant is
`TypeOK` and `ParamsValid`, the parameter checks of `create_pool` and `set_params` as a fact about the
stored parameters. The lemmas follow the code: `touch` returns a well-typed Player, a yield credit never
exceeds the budget, a position's share is a natural; then one lemma per instruction.

*Backing.* `Backing` and `JackpotCovered` speak of four totals and the token balances only; steps that
touch neither are dismissed at once, the others are one linear equation each. The House payout needs
`a \div 2 + a \div 5 <= a`; the sweep and the close need the invariant itself, since a saturating
subtraction is exact only when the vault covers the promises.

*Shutdown.* `ShutdownIsFinal` says that switches, epochs and rounds stay as they are (`StaysDown`) and that nothing
new comes in (`NothingNew`): what the pool owes in all - Principal, pending withdrawals, yield budget and promised prizes - never grows, as it would by a deposit, and nobody gains Entries but by a yield, prize
or round already due, as they would by a purchase or a grant. It rests on an invariant of its own, that the switches are all thrown after shutdown
(`ShutdownLatched`); the Entries of each step are in `HexVaultRecords`.

*Ledger and refinement.* `HexVaultLedger` sorts every step into a few kinds by what it moves: a
depositor's claim and the USDC behind it, or nothing (`InOrOut`); budget that becomes a claim
(`Yielded`); budget funded or swept (`Budgeted`); Principal the admin lends or returns
(`LentOrReturned`). `NextLedger` is that case analysis, over one lemma per instruction. That totals stay
the sums of accounts, and that every step is one of `NoLossVault` or a stutter, follows kind by kind. With
`Backing` it also follows that one account's claim never exceeds what the vault and both totals hold
(`PartOfTheBooks`), so that of the guards of `emergency_withdraw` none on money can refuse a Player while nothing is
lent. That the transaction is then enabled is ENABLED and not stated.

*Sums.* The library has no theorem about folds, and its induction theorems cannot be instantiated
here. `TotalsTheory` therefore counts: a sum of naturals is the number of unit coins in as many heaps
(`TotalIsCoins`), proved by taking a set of least size whose sum differs and removing one element. From
it follow what the rest needs: a sum of naturals is a natural, and changing one account changes the
sum by the difference (`TotalUpdate`), sums are added and multiplied account by account (`TotalPlus`,
`TotalTimes`). Floors of an amount split in proportion to weights add up
to no more than the amount (`SharesFit`). The totals of `RecordsAgree`, the promised prizes, the Entries in
play and the circulation of invite codes rest on these lemmas.

*Records.* The totals are inductive by the ledger. The open round and the positions are not:
`create_round` could overwrite the stakes of a round that already exists. The strengthening is
`FreshRounds`: every round from `next_round_id` on is untouched. That the House holds no Principal
needs `touch` to accrue nothing on none.

*The game.* Entries in play are what the accounts would hold if touched now, what the rounds of the epoch hold
or owe, and the carry. One instruction moves one account, one round and the carry (`HeldMoves`, `PotsMove`),
so the total is three differences (`InPlayMoves`). The strengthening is `StakesTracked`: each tile's total
of a round in play is the sum of the stakes on it, since it is what shares are divided by, and
a settled round drew a tile with stakes and has a cut within its pot (`house_cut_bps` is at most the
whole by `ParamsValid`). With it the rewards of a settled round are floored shares of the rest
(`RewardsFit`). That a new round has no stakes left over comes from `RoundsTracked`.

*Draws.* The theorems about epochs rest on how an instruction writes a Player: it settles the Player with
`touch` first, or leaves what accrual starts from alone (`Settled`, `Resting`). The strengthenings are
facts about the epochs that the program maintains without saying so: the current epoch is Open, later
ones do not exist and no prize is recorded before registration closes (`EpochsInOrder`); nobody is
registered for an epoch that is not over (`ListedBehind`); nobody is ahead of the pool, which
remembers the periods of the current and the previous epoch (`PeriodsKnown`); the current epoch has
begun, lasts no longer than `epoch_seconds`, and a request made in it was made since (`RequestsDated`).
`HatchOpensLate` has a hypothesis on behaviours, `NeverShortened`: no step lowers `epoch_seconds`.
Without it the statement is false (section 4); raising it is allowed, and so is leaving it alone, which
is what the instances do.

*Payable winners.* `WinnerPayable` is false of the program alone (finding 1). A Player has one registration slot, so
the points of a draw are owned only until their owners register for the next epoch. `DrawsKept` is what
survives: all points of the previous epoch are owned (`PreviousOwned`), no older epoch is Drawing or Drawn
(`NoDrawBehind`), and a drawn point is a registered one (`TargetsDrawn`). `begin_epoch`'s hold keeps `NoDrawBehind`
when the previous epoch becomes an older one, and `ClosedInTime`, a hypothesis on behaviours, keeps an older one
that is still Registering from entering the draw. The hypothesis says nothing of who signs, of the order of anything
else or of how late epochs begin. A step of the operator service is a step of the program that satisfies
it (`OperatedIsProgram`, `OperatedCloses`), so the second theorem needs none. The role may be moved to any key
or to nobody: with nobody in it, nothing is sent.

*Lazy accrual.* `EagerWeight` adds up each second of each epoch for each Player as it passes; the program looks at a
Player only when an instruction names it. The theorem is about every instruction: custody, epochs, the
game, `set_params` and `shutdown`. A stake is credited for the seconds left until its round ends when it is placed, and the
reference counts it then too, so what is proved is that neither is lost or counted twice; that the credit exceeds
what the stake is away for is finding 3. `Exact` is the invariant: the Weight `touch` would leave is the one added up,
the frozen slot is that of the epoch asked for or older (`SlotsBehind`), the pool remembers the last two periods
(`PeriodsKnown`), an account not yet created is blank and has earned nothing in either (`EagerKept`), and whoever
is registered, staked or waiting for a payout has an account (`Seated`). The proof follows a
second that passes (`TickExact`), an epoch that begins on time, late or past whole points of the grid
(`BeginExact`), and an instruction (`ActExact`). For the last, `Earns(plr, new, ahead)` says how an instruction may
write an account: it settles it first and adds `ahead`, zero for all but a stake, or leaves what accrual starts
from alone; it is proved instruction by instruction. That the API's figures are then the same is a lemma on one state
(`ShownExact`).

*A draw in progress.* The API recomputes the ended epoch's Weight of everybody from rows while registration and the
draw go on. `ListedTrue`: whoever is registered for the epoch is still owed exactly the length of its interval; it
survives every step because settling a Player changes nothing of an ended epoch (`ProgressStays`, from the
lemmas of `PreviousWeightHolds`) and because the frozen slot is never a later epoch's (`SlotsBehind`).
`CountsTrue`: `registered_count` is the number of Players listed, which only
`register_player` raises, by one Player not yet listed; nobody moves to another epoch's list before the
epoch is behind. A listed Player has a Weight, hence is eligible, so no more are registered than eligible.
`AllowanceHonoured` needs only the types: `touch` leaves Principal and the counters alone (yield is
credited by an instruction of its own), and a counter stamped with another epoch starts from zero on both sides.

*Tickets.* `Explained` follows the three lazy resets together: Entries are reset to Principal by the first `touch` in an
epoch, the purchases and the grants each by the next purchase or grant. `NoOtherTickets` is a hypothesis on
behaviours: nobody plays, the admin's `grant_tickets` goes to no depositor, nobody takes the emergency exit (which
empties the account but not its counters) and the price of a Ticket stays. Each of these changes Entries, or
what a counted purchase was worth, without a counter, so without the hypothesis the equation is not what the program promises. Deposits, purchases,
referral grants by the operator, withdrawals, epochs and draws are all among the steps.

*Entries and Principal.* `EntriesMatchPrincipal` compares what the accounts would hold if touched now, what rounds of
the epoch hold or owe and the carry with `total_principal`. Instructions that move Principal move as many Entries of
one account (`CreditMatch`); the game only moves Entries (`RoundsMint`); and where an epoch begins, every account
would be touched back to its Principal, no round of the new epoch holds anything (`RoundsBehind`), so the totals agree
again by `BooksAddUp`, but for the carry. The hypotheses are on behaviours and each is needed. `NoOtherEntries`: none are bought or
granted, and Principal is not withdrawn while its Entries are at stake or lost (the program takes what Entries there
are and lets the rest stay in play). `CarryUsedUp`: no epoch begins over a carry (finding 2). It says
nothing of how many rounds run, how they end or how late they are settled.

### The parts around it

The specification of each part is its own `Init` and `Next` under a name of its own (`AccessSpec`,
`WebSpec`, ...), not the composition `MCClients` runs them in, so a theorem says nothing of
fairness and takes no step of another part.

| theorem | states | what its invariant adds |
| --- | --- | --- |
| `RedemptionsHold` | `CodesHonoured` | what a redeem transaction holds at each statement (`Granted`), and that no two hold the same code, wallet or the quota's lock (`Apart`) |
| `RefusalsHold` | `RefusedOnlyIfRan` | a claim row is never later than the last mint that ran, landed or skipped after it was seen processed |
| `CodesKept` | `GivenCodeKept` | rows without a code are among those an instance still has to fill in (`Backfilling`) |
| `SharedReadsHold` | `CacheSound` | what is cached is the last read begun (`LastCached`), two reads begun within a TTL mean the first failed (`InOrder`), a caller waits for a read begun no earlier than a TTL before it asked (`Waiting`); chain and server clock stay within the drift, and a reading is the chain's second at some moment between its beginning and its answer (`ClocksApart`, `TrueAt`) |
| `PagesHold` | `AlertsSound` | a service that is well ticked within its cadence (`Well`); what the two rows may still say once it is not, and of a void its catch-up never reached (`OperatorRow`, `CursorRow`) |
| `SetupHolds` | `SetupRepeatable` | what a run knows at each line (`RunTrue`), one block and the accounts it names (`BlocksTrue`), minted is held or deposited (`SparTrue`); until a run has died, the run under way is the only one that made anything (`CleanRun`) |
| `ReportsHold` | `AdminHonest` | the Players still to be paid are distinct and not among the paid (`CrankTrue`): only this makes a count of payments a count of Players |
| `GateHoldsFirm` | `GateSound` | a fetch under way is the connected wallet's (`OwnAnswer`); a waiting code is in session storage and stands for a submit without its redeem (`WaitingCode`); a redeem answered after its wallet was left is the exception (`strayed`) |
| `AnswersHold` | `ToldTrue` | what was sent before the last transaction can no longer land, and what is processed is above the confirmed height (`PageInv`) |
| `ServerAnswersHold` | `ToldTrue` | the backend's one transaction, once called expired, is above its last block or gone (`ServerInv`), since no block that holds it is at or below the confirmed height (`Held`) |
| `PlayersAreTold` | `PlayTold` | what was last seen of a round is an earlier state of it (`SeenBehind`); a note settled after its round's epoch is the exception (`ended`) |
| `CountdownSteady` | `SteadyCountdown` | an anchored clock is never ahead of the chain (`ClockBehind`) |
| `RevealsHold` | `RevealsSound` | rounds open in order (`BoardTrue`); reveals are distinct, one runs at a time, none waits while none runs (`QueueTrue`, `NothingWaits`); unless two requests overlapped, the answer under way is about the round the page tracks (`OneAtATime`); overlapping requests are the exception (`overtaken`) |

Assumptions beyond natural bounds and distinct names, each with its reason in the source:

* `SingleUse` (`Access`): `INVITE_CODE_MAX_USES = 1`, which `invite-code.ts:13-15` sets. The quota compares a
  number of new codes with a room counted in uses; with two uses per code the cap would not hold.
* `JitterInTolerance` (`WebPlay`): the served clock's jitter is below `RESYNC_TOLERANCE_SECONDS`, which
  `useChainClock.ts:34` chooses for that reason.
* `MaxMints < Usdc` (`Provisioning`) and `NoCode \notin Codes` (`Waitlist`): mints made by the script are
  told from real USDC, and a missing code from a code.

### The mirror

| theorem | states |
| --- | --- |
| `EventsStoredOnce` | `[]StoreSound`: the cursor never passes an event not yet stored, and a delta is applied once |
| `MirrorKeepsUp` | `[]SyncedSound`: an incremental sweep may start from `lastSyncedSlot`: a Player or Round row the log path did not write last is as new as the chain was there |

Both are about `Indexer`'s own `Spec`, for any number of accounts, any transactions an account can name
(`KindsAssumption`: addresses of different kinds differ; `GenesisAssumption`: the chain that already exists
is one of such transactions), any lag of a read, any page size and number of crashes.

*Events.* The cursor is moved by two paths: the log path, which knows only that nothing is missed while the
socket holds, and catch-up, which works off a list made earlier. The strengthening (`StoreInv`) says that
at most one backlog is queued and only while the sweep waits for it (`OneBacklog`); that the backlog's
slots run from just behind the cursor without a gap, so storing its head moves the cursor by exactly one
(`BacklogFollows`); and that a delta was applied only along with its event (`AppliedOnce`), so an ingest that
overlaps another finds the row and applies nothing. `PersistStores` is the one lemma about the transaction both paths run.

*Rows.* `SyncedSound` relates a slot remembered from the last sweep to every row, while a sweep is rewriting
them in three passes and the log path overtakes it. `SyncedInv` adds what each stage already
guarantees: what the pages reported is as new as the walk's slot, and what they did not report was not
touched since the slot the walk started from (`WalkTrue`); a reported account left out of the chosen set
was written by the log path (`ChosenTrue`); a note in `freshWrites` for a row the log path does not own
outlives only the walk that wrote over it (`NotedTrue`); passes already made have written
(`WrittenTrue`). `LatestTouch` and `TouchedSince` are the lemmas it leans on:
no row changes between two slots in which nothing touches the account.

### The referral grants

`GrantsHold` states `ReferralsSpec => []GrantsSound`: what a referrer was granted on chain is what the
recorded row says, the referees' shares of a row add up to it, and the program refuses no batch while nobody
has withdrawn. It holds for any wallets and referrals, any table of rates, any cap and batch size, and a
crash between any two of landing, marking and sending, but for the grants a tick missed: landed, unmarked, and
not yet in the mirror that tick worked from. `GrantsDue` collects those in `bank.missed` (nothing
makes a tick wait for the mirror), the second grant is among the steps, and of these referrers the theorem says only that
shares add up. `ReferralsAssumption` asks for wallets that can be
ordered by address (`splitShares` breaks ties that way), finitely many of them, and a positive `BPS`.

*Arithmetic.* The floors of an amount split by weight leave fewer units over than there are referees with a
remainder (`FloorsLeave`); ranks in a strict order are 0, 1, 2, ... without a gap (`Ranked`); so handing
one unit to each of the first `left` makes the sum exact (`SharesAreAmount`). Scaling by `cap / sum`, rounded
down, brings a sum under the cap (`BonusesFit`).

*Rows.* `GrantsSound` is not inductive: a row clamped after its grant landed would no longer say what was
granted. `GrantsInv` adds that the mirror knows of no later grant than the chain does (`BooksBehind`);
that what is about to be sent has a row and, unless missed, was not granted (`BatchUnpaid`);
and that, while nobody has withdrawn, all rows of the epoch together fit the cap on the Principal that the
mirror knows (`RowsFit`), which only grows on chain (`CapGrows`).

### The operator

| theorem | states |
| --- | --- |
| `WakesInTime` | `[]WakeSound`: one sleep is pending or owed, and it ends no later than the first thing to fall due |
| `ClosesOnlyComplete` | `OperatorSpec /\ []MemoryCurrent => NobodyLeftOut`: no depositor of an epoch is missing when its registration is closed |

Both are about `OperatorSpec`: every step of `decide`, any lag of the read model up to `IndexLag`, lost and
unseen confirmations, restarts and a clock that moves at any point of a tick. The slices of
`services` are restrictions of it. The epochs must have a length (`EpochLen > 0`).

*Waking.* `DRAWN_UNPAID_ALERT_SECONDS <= PayWait` is a hypothesis: the program accepts no payout timeout under
600 seconds (`MIN_PAYOUT_TIMEOUT`, `constants.rs:28`) and the alert goes out after 300 (`tick.ts:118`). A build
for a local validator takes any timeout from one second; there the rollover of a human winner may wait for
the safety tick. `WakeInv` says that one sleep is the timer's while no tick runs and the tick's own while one does
(`SleepTrue`), so two callers never own one each. `nextWakeAt` is the least of its
candidates (`WakeIsSoonest`), waiting changes nothing but ages, by at most the seconds waited (`LaterOnlyAges`),
and each condition of `decide` that time alone makes true has its candidate (`NothingDueBefore`, one case per
condition).

*Closing.* Two hypotheses. `FreshSeconds + IndexLag <= RegWindow`: the registration window is no shorter than the stamp
may be old (60 seconds by default, `env.ts:57`) plus the time between a snapshot and its writing. The program
takes any window from zero (`custody.rs:116`), so this is asked of the deployment. `MemoryCurrent`: at
the moment of closing, an owner whom the service remembers as registered is; finding 4 is the behaviour without it. The
invariant `RegInv` follows what is known of who deposited from the chain to the decision: a snapshot taken since
the epoch ended has everybody who counts, since nobody deposits into an epoch that is over
(`WalkComplete`); so has what is written from it within `IndexLag` (`SeenComplete`); rows and registrations only
grow on the way (`RowsInOrder`); a tick whose stamp is that young lists whoever is missing, so if it got past
an empty list, each is registered or remembered (`TickKnows`). Steps of `decide` are sorted into three
kinds: those that leave registration alone (`QuietStep`), those that end the tick with a send (`SendStep`), and
the one that found nobody to register (`NobodyToRegister`).

### What only TLC checks, and why

* Liveness (`WithdrawalsArePaid`, `EpochsResolve`, `RoundsFinish`, `WithdrawalsDrain`, `BoardDrains`,
  `Converges`) needs fairness and ENABLED, which are out of the prover's reach.
* Nothing else: every safety invariant and action property of the passing runs is stated by a theorem, in the form in which TLC
  checks it. Where the theorem has a hypothesis on behaviours (`HatchOpensLate`, `HoldSuffices`, `TicketsAccounted`,
  `EntriesBacked`, `ClosesOnlyComplete`), the run that passes is a restriction that satisfies it, or the run
  that is expected to fail violates the property without it.
* The runs that expect a violation are counterexamples on small instances.

## 6. Not modelled

Program: rent, bumps, seeds, account sizes and events; ORAO's byte layout and rejection sampling; u64
and u128 overflow, which aborts. Backend: address lookup tables and account packing, how the sparring
bot draws its tiles and stake, the Pool and Epoch rows of the mirror (they take the Round rows' path),
byte decoding, rows of pools other than the active one, pagination and formatting, thresholds on
balances (a comparison of one row each), error reports, parsing of environment and arguments. Browser:
layout, animation, wallet adapters, and the screens that only show what they are given. These hold no
protocol state. `PROJECT.json` lists every part with its status.

The services are checked beside the program's model, not inside it: `Operator` repeats the program's
checks as `Accepts` over a reduced chain, because the product of the full program with the service's
program counters is out of TLC's reach. `HonestOperator` is the other half of that bridge: the full
program under the service's conditions.

## 7. Plan

Done: the models of the program, the operator, the indexer, the API's state, set-up, administration and
the browser; a theorem for each safety invariant and action property of the passing runs; for findings 1 and
2, the condition under which what they refute does hold. Left:

1. The House's own tickets and Weight, which `TicketsExplained` and `StakingWeightNeutral` leave out.
2. The bound on what finding 3 can earn: a stake's credit beyond the seconds it is away, at most `close_buffer`
   seconds of it.
