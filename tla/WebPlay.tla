------------------------------- MODULE WebPlay -------------------------------
(***************************************************************************)
(* Playing a round from the browser: the chain clock every countdown and   *)
(* window check reads (useChainClock.ts, clock.ts), the deploy button, the *)
(* auto-rounds loop and the settle button (App.tsx, engine.ts).            *)
(*                                                                         *)
(* The chain side is external: a round opens when the last one is over,    *)
(* closes CloseBuffer before its end, is drawn, and the operator settles   *)
(* its positions. The browser acts on what its last poll served, which may *)
(* be behind, and on its own clock, which stands still while the device    *)
(* sleeps.                                                                 *)
(***************************************************************************)
EXTENDS Integers, FiniteSets

CONSTANTS RoundLen, CloseBuffer, Grace, Tolerance, Jitter,
          Pot, Cut, OnWinningTile,   \* of every settled round
          Spend,                     \* Tickets a board costs
          MaxRounds, MaxSleep, MaxAsked, MaxEntries

ASSUME WebPlayAssumption ==
  /\ {CloseBuffer, Grace, Jitter, Cut, MaxSleep, MaxAsked, MaxEntries} \subseteq Nat
  /\ {RoundLen, Tolerance, OnWinningTile, Spend, MaxRounds} \subseteq Nat \ {0}
  /\ CloseBuffer < RoundLen /\ Cut <= Pot

\* "Above the 2.23 s jitter, so ordinary devnet noise never trips it"
\* (useChainClock.ts:34): RESYNC_TOLERANCE_SECONDS is 3.
ASSUME JitterInTolerance == Jitter < Tolerance

VARIABLES
  chainTime,  \* chain time
  slept,      \* seconds the browser's monotonic clock did not count
  table,      \* chain: the round's id and status, whether the player covers the
              \* winning tile, whether its epoch ended
  holding,    \* chain: rounds the player holds a position in
  tickets,    \* chain: the player's Tickets
  seen,       \* what the last poll served
  sync,       \* the clock's anchor: round, and chain time minus monotonic time
  auto,       \* autoRounds, the remembered board, autoRoundRef
  deploying,  \* the deploy under way, if any
  note,       \* the last note of the settle button
  tally       \* boards placed by auto and told so; the user's movements of the counter

playVars == <<chainTime, slept, table, holding, tickets, seen, sync, auto, deploying, note, tally>>

NoRoundId == -1
NotSeen == [round |-> NoRoundId, status |-> "none", position |-> FALSE, covered |-> FALSE,
            tickets |-> 0, served |-> 0]
NoSend == [round |-> NoRoundId, auto |-> FALSE]
NoNote == [told |-> 0, credited |-> 0, ended |-> FALSE]

-----------------------------------------------------------------------------
(* engine.ts: windows and rewards.                                         *)

StartsAt(id) == id * RoundLen
EndsAt(id) == (id + 1) * RoundLen

buyClosesAt(id) ==
  IF EndsAt(id) - CloseBuffer > StartsAt(id) THEN EndsAt(id) - CloseBuffer ELSE StartsAt(id)

Revealed(status) == status \in {"Settled", "Forfeited"}
RoundEnded(status) == Revealed(status) \/ status = "Voided"

phaseFor(id, status, at) ==
  IF at < buyClosesAt(id) THEN "mine"
  ELSE IF at < EndsAt(id) THEN "locked"
  ELSE IF RoundEnded(status) THEN "awaiting" ELSE "settling"

\* Mutant: the pot before the House cut.
expectedReward_gross(status, covered) ==
  IF status = "Settled" /\ covered THEN Pot \div OnWinningTile ELSE 0

\* One Ticket per tile staked.
expectedReward(status, covered) ==
  IF status = "Settled" /\ covered THEN (Pot - Cut) \div OnWinningTile ELSE 0

\* `auto.board` is only remembered after a deploy with tiles and a stake.
decideAutoRound(remembered, entries, phase, hasPosition) ==
  IF remembered /\ ~hasPosition /\ phase = "mine" /\ Spend <= entries THEN "place" ELSE "skip"

-----------------------------------------------------------------------------
(* The clock.                                                              *)

Monotonic == chainTime - slept
chainTimeNow == Monotonic + sync.offset

\* Mutant: every served second is an anchor.
needsResync_every(served) == chainTimeNow # served

needsResync(served) ==
  \/ chainTimeNow - served >= Tolerance
  \/ served - chainTimeNow >= Tolerance

\* The effect on [chainTimeSeconds, roundId].
Anchored(served, id) ==
  IF sync.round = id /\ ~needsResync(served)
  THEN sync
  ELSE [round |-> id, offset |-> served - Monotonic]

-----------------------------------------------------------------------------
(* The chain.                                                              *)

Second(asleep) ==
  /\ chainTime < MaxRounds * RoundLen - 1
  /\ asleep => slept < MaxSleep
  /\ chainTime' = chainTime + 1
  /\ slept' = IF asleep THEN slept + 1 ELSE slept
  /\ UNCHANGED <<table, holding, tickets, seen, sync, auto, deploying, note, tally>>

DrawRound(status, covered) ==
  /\ table.status = "Open" /\ chainTime >= buyClosesAt(table.id)
  /\ covered => table.id \in holding /\ status = "Settled"
  /\ table' = [table EXCEPT !.status = status, !.covered = covered]
  /\ UNCHANGED <<chainTime, slept, holding, tickets, seen, sync, auto, deploying, note, tally>>

OpenRound ==
  /\ RoundEnded(table.status) /\ chainTime >= EndsAt(table.id)
  /\ table' = [id |-> table.id + 1, status |-> "Open", covered |-> FALSE, ended |-> FALSE]
  /\ UNCHANGED <<chainTime, slept, holding, tickets, seen, sync, auto, deploying, note, tally>>

\* The round's epoch closes: a position settled from here on is paid nothing.
EpochEnds ==
  /\ RoundEnded(table.status) /\ chainTime >= EndsAt(table.id) /\ ~table.ended
  /\ table' = [table EXCEPT !.ended = TRUE]
  /\ UNCHANGED <<chainTime, slept, holding, tickets, seen, sync, auto, deploying, note, tally>>

\* What settle_position pays: nothing once the round's epoch is over, and
\* nothing for a voided round.
Credited ==
  IF table.status = "Settled" /\ table.covered /\ ~table.ended
  THEN (Pot - Cut) \div OnWinningTile ELSE 0

SettledOnChain ==
  /\ table.id \in holding /\ RoundEnded(table.status)
  /\ holding' = holding \ {table.id}
  /\ tickets' = IF tickets + Credited > MaxEntries THEN MaxEntries ELSE tickets + Credited

OperatorSettles ==
  /\ SettledOnChain
  /\ UNCHANGED <<chainTime, slept, table, seen, sync, auto, deploying, note, tally>>

-----------------------------------------------------------------------------
(* The poll.                                                               *)

Poll(lag) ==
  LET served == chainTime - lag
  IN /\ lag <= chainTime
     /\ seen' = [round |-> table.id, status |-> table.status, position |-> table.id \in holding,
                 covered |-> table.covered, tickets |-> tickets, served |-> served]
     /\ sync' = IF seen.round = table.id /\ seen.served = served
                THEN sync ELSE Anchored(served, table.id)
     /\ UNCHANGED <<chainTime, slept, table, holding, tickets, auto, deploying, note, tally>>

-----------------------------------------------------------------------------
(* Deploying.                                                              *)

openRound == seen.status = "Open"

BuyOpen == openRound /\ phaseFor(seen.round, seen.status, chainTimeNow) = "mine"

deploy(byAuto) == deploying' = [round |-> seen.round, auto |-> byAuto]

Deploy ==
  /\ BuyOpen /\ ~seen.position /\ deploying = NoSend /\ Spend <= seen.tickets
  /\ deploy(FALSE)
  /\ UNCHANGED <<chainTime, slept, table, holding, tickets, seen, sync, auto, note, tally>>

\* The auto-rounds effect.
AutoRound ==
  /\ auto.left > 0 /\ openRound /\ deploying = NoSend
  /\ auto.handled # seen.round
  /\ decideAutoRound(auto.board, seen.tickets,
                     phaseFor(seen.round, seen.status, chainTimeNow), seen.position) = "place"
  /\ deploy(TRUE)
  /\ UNCHANGED <<chainTime, slept, table, holding, tickets, seen, sync, auto, note, tally>>

\* buy_position accepts it.
Buys(id) ==
  /\ table.id = id /\ table.status = "Open" /\ chainTime < buyClosesAt(id)
  /\ id \notin holding /\ Spend <= tickets

\* Mutant: the counter moves whether the board was placed or not.
AfterAuto_always(placed) == [auto EXCEPT !.handled = deploying.round, !.left = @ - 1]

\* What follows deploy() in the effect: nothing moves unless it landed.
AfterAuto(placed) ==
  IF placed THEN [auto EXCEPT !.handled = deploying.round, !.left = @ - 1] ELSE auto

\* A landed deploy is remembered and counted; `told` is FALSE when the sender
\* was told it expired though it landed (Sending).
DeployLands(told) ==
  /\ deploying # NoSend /\ Buys(deploying.round)
  /\ holding' = holding \cup {deploying.round} /\ tickets' = tickets - Spend
  /\ auto' = LET after == IF deploying.auto THEN AfterAuto(told) ELSE auto
             IN [after EXCEPT !.board = @ \/ told]
  /\ tally' = IF deploying.auto /\ told THEN [tally EXCEPT !.placed = @ + 1] ELSE tally
  /\ deploying' = NoSend
  /\ UNCHANGED <<chainTime, slept, table, seen, sync, note>>

DeployFails ==
  /\ deploying # NoSend
  /\ auto' = IF deploying.auto THEN AfterAuto(FALSE) ELSE auto
  /\ deploying' = NoSend
  /\ UNCHANGED <<chainTime, slept, table, holding, tickets, seen, sync, note, tally>>

\* The stepper: Math.max(0, n - 1) and Math.min(99, n + 1), MaxAsked for 99.
StepAuto(value) ==
  /\ value \in {auto.left + 1, IF auto.left - 1 > 0 THEN auto.left - 1 ELSE 0}
  /\ value <= MaxAsked /\ value # auto.left
  /\ auto' = [auto EXCEPT !.left = value]
  /\ tally' = [tally EXCEPT !.asked = @ + value - auto.left]
  /\ UNCHANGED <<chainTime, slept, table, holding, tickets, seen, sync, deploying, note>>

-----------------------------------------------------------------------------
(* Settling.                                                               *)

settleState ==
  /\ seen.position /\ Revealed(seen.status)
  /\ chainTimeNow >= EndsAt(seen.round) + Grace

\* The button's transaction lands before the operator's sweep and the note
\* says what the last poll's round promised, or it is refused.
settle ==
  /\ settleState /\ seen.round = table.id
  /\ \/ /\ SettledOnChain
        /\ note' = [told |-> expectedReward(seen.status, seen.covered), credited |-> Credited,
                    ended |-> table.ended]
     \/ UNCHANGED <<holding, tickets, note>>
  /\ UNCHANGED <<chainTime, slept, table, seen, sync, auto, deploying, tally>>

-----------------------------------------------------------------------------
PlayInit ==
  /\ chainTime = 0 /\ slept = 0
  /\ table = [id |-> 0, status |-> "Open", covered |-> FALSE, ended |-> FALSE]
  /\ holding = {} /\ tickets = MaxEntries
  /\ seen = NotSeen /\ sync = [round |-> NoRoundId, offset |-> 0]
  /\ auto = [left |-> 0, board |-> FALSE, handled |-> NoRoundId]
  /\ deploying = NoSend /\ note = NoNote
  /\ tally = [placed |-> 0, asked |-> 0]

PlayNext ==
  \/ \E asleep \in BOOLEAN : Second(asleep)
  \/ \E status \in {"Settled", "Forfeited", "Voided"}, covered \in BOOLEAN : DrawRound(status, covered)
  \/ OpenRound \/ EpochEnds \/ OperatorSettles
  \/ \E lag \in 0..Jitter : Poll(lag)
  \/ Deploy \/ AutoRound \/ (\E told \in BOOLEAN : DeployLands(told)) \/ DeployFails
  \/ \E value \in 0..MaxAsked : StepAuto(value)
  \/ settle

PlaySpec == PlayInit /\ [][PlayNext]_playVars

-----------------------------------------------------------------------------
\* The countdown does not stutter (useChainClock.ts:12): within a round the time
\* shown never goes back, whatever the served second's jitter and however long
\* the device slept.
SteadyCountdown ==
  [][(sync.round # NoRoundId /\ sync'.round = sync.round) => chainTimeNow' >= chainTimeNow]_playVars

\* Auto-rounds (App.tsx:340): the counter goes down by exactly the boards placed
\* and told so; a board refused because the round closed, the position was there
\* or Tickets ran out between the poll and the send costs none of the rounds
\* asked for.
AutoCounted == tally.asked - auto.left = tally.placed

\* The settle note names what the program credits, unless the round's epoch
\* ended before the button was pressed: it then still names the reward, and the
\* program pays nothing (App.tsx:440-446).
SettleNoteTrue == ~note.ended => note.told = note.credited

\* The player is told what happened: rounds played for them, and rewards settled
\* before the round's epoch was over.
PlayTold == AutoCounted /\ SettleNoteTrue
=============================================================================
