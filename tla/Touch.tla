------------------------------- MODULE Touch -------------------------------
(***************************************************************************)
(* The arithmetic of the hex_vault program that has no state of its own:   *)
(* the lazy reset and accrual rule `touch` (touch.rs), the weight an ended *)
(* epoch owes a Player, Base yield, and the epoch grid (epochs.rs).        *)
(*                                                                         *)
(* A Player account is a record `plr`, the Pool account a record `pl`.     *)
(* u64/u128 arithmetic is checked in the code and aborts on overflow, so   *)
(* it is modelled by unbounded naturals; what the code clamps or saturates *)
(* is clamped or saturated here.                                           *)
(***************************************************************************)
EXTENDS Integers

MinOf(a, b) == IF a <= b THEN a ELSE b
MaxOf(a, b) == IF a >= b THEN a ELSE b

\* Mutant: plain subtraction.
SatSub_wraps(a, b) == a - b

\* u64::saturating_sub.
SatSub(a, b) == IF a >= b THEN a - b ELSE 0

\* Mutant: not clamped.
elapsed_unclamped(from, to) == to - from

\* Seconds between two instants, clamped at zero.
elapsed(from, to) == IF to >= from THEN to - from ELSE 0

weight_of(entries, seconds) == entries * seconds

\* Mutant: accrual runs past the epoch's end.
TouchSameEpoch_past_end(plr, pl, t) ==
  LET tail == elapsed(plr.last_update, t)
  IN [plr EXCEPT !.weight_acc    = @ + weight_of(plr.entries, tail),
                 !.principal_acc = @ + weight_of(plr.principal, tail),
                 !.last_update   = t]

\* touch.rs `touch`, first branch: the Player already acted in this epoch.
\* Accrual stops at the epoch's end, `last_update` does not.
TouchSameEpoch(plr, pl, t) ==
  LET accrue_until == IF pl.current_epoch_id = 0
                      THEN t ELSE MinOf(t, pl.current_epoch_ends_at)
      tail == elapsed(plr.last_update, accrue_until)
  IN [plr EXCEPT !.weight_acc    = @ + weight_of(plr.entries, tail),
                 !.principal_acc = @ + weight_of(plr.principal, tail),
                 !.last_update   = t]

\* Mutant: the tail after the last touch is forgotten.
FrozenWeight_without_tail(plr, pl) == plr.weight_acc

\* What the epoch before the current one owes this Player (frozen at its end).
FrozenWeight(plr, pl) ==
  IF plr.epoch_id = pl.current_epoch_id - 1
  THEN plr.weight_acc + weight_of(plr.entries,
                          elapsed(plr.last_update, pl.previous_epoch_ends_at))
  ELSE weight_of(plr.principal,
         elapsed(pl.previous_epoch_start, pl.previous_epoch_ends_at))

FrozenPrincipalAcc(plr, pl) ==
  IF plr.epoch_id = pl.current_epoch_id - 1
  THEN plr.principal_acc + weight_of(plr.principal,
                          elapsed(plr.last_update, pl.previous_epoch_ends_at))
  ELSE weight_of(plr.principal,
         elapsed(pl.previous_epoch_start, pl.previous_epoch_ends_at))

\* touch.rs `touch`, crossing an epoch boundary: freeze, reset Entries to
\* Principal, start the new accumulators at the new epoch's start.
TouchNewEpoch(plr, pl, t) ==
  LET head == weight_of(plr.principal,
                elapsed(pl.current_epoch_start,
                        MinOf(t, pl.current_epoch_ends_at)))
  IN [plr EXCEPT !.frozen_weight        = FrozenWeight(plr, pl),
                 !.frozen_principal_acc = FrozenPrincipalAcc(plr, pl),
                 !.frozen_epoch         = pl.current_epoch_id - 1,
                 !.entries              = plr.principal,
                 !.weight_acc           = head,
                 !.principal_acc        = head,
                 !.last_update          = t,
                 !.epoch_id             = pl.current_epoch_id]

touch(plr, pl, t) ==
  IF plr.epoch_id >= pl.current_epoch_id
  THEN TouchSameEpoch(plr, pl, t)
  ELSE TouchNewEpoch(plr, pl, t)

\* weight_and_principal_seconds (epochs.rs): registering reads what the
\* Player's state implies without advancing it. Its error case, a Player
\* touched past the epoch whose frozen slot holds another one, is the guard
\* FrozenSlotMatches.
FrozenSlotMatches(plr, e) == plr.epoch_id > e => plr.frozen_epoch = e

EpochWeight(plr, e, ep) ==
  IF plr.epoch_id = e
  THEN plr.weight_acc + weight_of(plr.entries, elapsed(plr.last_update, ep.ends_at))
  ELSE IF plr.epoch_id > e
  THEN plr.frozen_weight
  ELSE weight_of(plr.principal, elapsed(ep.starts_at, ep.ends_at))

\* Mutant: yield on Tickets instead of Principal.
EpochPrincipalSeconds_of_entries(plr, e, ep) == EpochWeight(plr, e, ep)

EpochPrincipalSeconds(plr, e, ep) ==
  IF plr.epoch_id = e
  THEN plr.principal_acc + weight_of(plr.principal, elapsed(plr.last_update, ep.ends_at))
  ELSE IF plr.epoch_id > e
  THEN plr.frozen_principal_acc
  ELSE weight_of(plr.principal, elapsed(ep.starts_at, ep.ends_at))

\* Base yield of an ended epoch, floored. `bps` and `year` are the code's
\* BPS_DENOMINATOR (10_000) and SECONDS_PER_YEAR (31_536_000).
yield_for(principal_seconds, base_rate_bps, bps, year) ==
  (principal_seconds * base_rate_bps) \div (bps * year)

\* Last point of the grid anchor + k * period at or before t (div_euclid
\* floors, as \div does for a positive period).
grid_floor(anchor, period, t) == anchor + ((t - anchor) \div period) * period
=============================================================================
