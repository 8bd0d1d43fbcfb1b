---------------------------- MODULE EagerWeight ----------------------------
(***************************************************************************)
(* The reference for lazy accrual. The program never visits every Player   *)
(* at an epoch boundary: `touch` reconstructs what happened the next time  *)
(* the Player acts. Here every second of every epoch is added up for every *)
(* Player as it passes, beside the program's own steps, and the two are    *)
(* compared.                                                               *)
(*                                                                         *)
(* eager[e][p] is the Weight p has earned in epoch e so far. An epoch that *)
(* begins late starts with the seconds already gone, at Principal; a stake *)
(* counts when it is placed, for the seconds left until its round ends.    *)
(***************************************************************************)
EXTENDS ReadApi

VARIABLE eager

evars == <<now, params, pool, players, epochs, rounds, positions, tokens, eager>>

NothingEarned == eager = [e \in 0..MaxEpoch |-> [p \in Players |-> 0]]

\* The second that just passed belongs to the current epoch unless that one ended.
SecondCounts == pool.current_epoch_id > 0 /\ now < pool.current_epoch_ends_at

\* The rounds a step stakes in, and what those stakes are to earn.
StakedIn(p) ==
  {r \in RoundIds : p \in Owners /\ positions[r][p].tiles = {} /\ positions'[r][p].tiles # {}}

EarnedAhead(p) ==
  IF StakedIn(p) = {} THEN 0
  ELSE LET r   == CHOOSE r \in StakedIn(p) : TRUE
           pos == positions'[r][p]
       IN weight_of(pos.stake_per_tile * Cardinality(pos.tiles), rounds[r].ends_at - now)

\* How one step of the program moves the reference.
CountEagerly ==
  LET c == pool.current_epoch_id IN
  eager' =
    IF now' # now
    THEN IF SecondCounts
         THEN [eager EXCEPT ![c] = [p \in Players |-> @[p] + EntriesNow(p)]]
         ELSE eager
    ELSE IF pool'.current_epoch_id # c
    THEN [eager EXCEPT ![c + 1] =
            [p \in Players |-> weight_of(players[p].principal, elapsed(NextStartsAt, now))]]
    ELSE [eager EXCEPT ![c] = [p \in Players |-> @[p] + EarnedAhead(p)]]

EagerSpec == (Init /\ NothingEarned) /\ [][Next /\ CountEagerly]_evars

\* Touching a Player now would leave precisely the second-by-second Weight of
\* the current epoch, and what registration would read for the ended one is
\* precisely what was earned in it.
SettledWeightExact(p) ==
  LET c == pool.current_epoch_id IN
  /\ c > 0 => touch(players[p], pool, now).weight_acc = eager[c][p]
  /\ (c > 1 /\ FrozenSlotMatches(players[p], c - 1)) =>
       EpochWeight(players[p], c - 1, epochs[c - 1]) = eager[c - 1][p]

\* weightAt (api.service.ts:84): the live Weight the API shows, worked out from
\* the row as last written, is the second-by-second one while the epoch runs,
\* and so is the ended epoch's, which draw progress and the operator go by.
ShownWeightExact(p) ==
  LET c == pool.current_epoch_id IN
  c > 0 =>
    /\ now <= epochs[c].ends_at => weightsFrom(now)[p].liveWeight = eager[c][p]
    /\ c > 1 => EpochDrawWeight(p, c - 1) = eager[c - 1][p]

\* Lazy accrual is exact (touch.rs), and so is what the API works out from rows
\* nobody touched (api.service.ts:84), however many seconds, instructions or
\* epoch boundaries passed since an account was written.
AccrualExact ==
  \A p \in Players : players[p].live => SettledWeightExact(p) /\ ShownWeightExact(p)
=============================================================================
