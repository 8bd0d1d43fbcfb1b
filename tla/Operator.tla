------------------------------ MODULE Operator ------------------------------
(***************************************************************************)
(* The operator service: one tick reads the chain, walks the steps of      *)
(* `decide` (tick.ts) in order and sends at most one step's transaction;   *)
(* operator.service.ts decides when ticks run and what they remember. The  *)
(* read model it lists accounts from lags the chain.                       *)
(*                                                                         *)
(* Time is kept as ages: every deadline of the program and of decide       *)
(* counts seconds from a timestamp, so `age` is the time since it, and     *)
(* Pass adds a second to all of them (up to MaxAge, past every deadline).  *)
(* The program is external here: Accepts and effects are what HexVault     *)
(* states in full. Referral grants (step 3b) are in Referrals.             *)
(***************************************************************************)
EXTENDS Integers, FiniteSets

CONSTANTS
  Depositors, Sparring,             \* owners of Players; the one the backend plays
  Blocked,                          \* owners whose payout or prize cannot land
  MaxEpochs, MaxRounds, MaxAge,
  EpochLen, RoundLen, CloseBuf, VrfWait, RegWindow, PayWait, LaunchAge,
  REVEAL_SECONDS, SAFETY_INTERVAL_SECONDS, DRAWN_UNPAID_ALERT_SECONDS, MARGIN,
  FreshSeconds,                     \* REGISTRATION_INDEXER_FRESH_S
  IndexLag,                         \* how old a snapshot is when it is written
  BATCH_SIZE, WITHDRAW_BATCH_SIZE, WITHDRAW_FAILURE_LIMIT,
  Faults,                           \* how a send may go wrong: "lost", "unseen"
  HouseWallet

ASSUME OperatorAssumption ==
  /\ {MaxEpochs, MaxRounds, MaxAge, EpochLen, RoundLen, CloseBuf, VrfWait, RegWindow, PayWait,
      LaunchAge, IndexLag, REVEAL_SECONDS, SAFETY_INTERVAL_SECONDS, DRAWN_UNPAID_ALERT_SECONDS, MARGIN,
      FreshSeconds, BATCH_SIZE, WITHDRAW_BATCH_SIZE, WITHDRAW_FAILURE_LIMIT} \subseteq Nat
  /\ EpochLen > 0 /\ Faults \subseteq {"lost", "unseen"} /\ HouseWallet \notin Depositors

VARIABLES
  chain,      \* the accounts a tick looks at
  seen,       \* the read model's rows, and how old its freshness stamp is
  walk,       \* the snapshot the indexer is about to write
  svc,        \* what the service remembers between ticks
  tick,       \* the tick in flight
  sleep       \* deadline timers: pending, whether deadlineTimer holds one, and
              \* `owed` by callers whose tick has not ended

operatorVars == <<chain, seen, walk, svc, tick, sleep>>

OpRounds == 1..MaxRounds
Least(s) == CHOOSE n \in s : \A k \in s : n <= k

\* Up to n members, in the order the query returns them.
Take(s, n) == CHOOSE b \in SUBSET s : Cardinality(b) = Least({n, Cardinality(s)})

-----------------------------------------------------------------------------
(* The chain, moved by others.                                             *)

\* The epoch before the current one.
Previous == chain.epoch.id - 1
Weighted(joined, id) == {p \in Depositors : joined[p] \in 1..id}

\* No condition tells ages past these bounds apart.
AgedTo(age, bound, seconds) == IF age < bound THEN Least({age + seconds, bound}) ELSE age
RoundBound == RoundLen + 1 + IF VrfWait > REVEAL_SECONDS THEN VrfWait ELSE REVEAL_SECONDS
PrevBound ==
  1 + CHOOSE n \in {RegWindow, VrfWait, PayWait, DRAWN_UNPAID_ALERT_SECONDS} :
        \A k \in {RegWindow, VrfWait, PayWait, DRAWN_UNPAID_ALERT_SECONDS} : k <= n

\* The same accounts some seconds later.
Later(c, seconds) ==
  [c EXCEPT !.epoch.age = AgedTo(@, MaxAge, seconds),
            !.prev.age = AgedTo(@, PrevBound, seconds),
            !.prev.ended = AgedTo(@, FreshSeconds + 1, seconds),
            !.round.age = AgedTo(@, RoundBound, seconds),
            !.round.waited = AgedTo(@, VrfWait + 1, seconds)]

Pass ==
  /\ chain' = Later(chain, 1)
  /\ seen' = [seen EXCEPT !.age = AgedTo(@, FreshSeconds + 1, 1)]
  /\ walk' = [walk EXCEPT !.age = AgedTo(@, IndexLag + 1, 1)]
  /\ UNCHANGED <<svc, tick, sleep>>

OracleAnswers ==
  /\ \/ chain.round.st = "Requested" /\ ~chain.round.answered
        /\ chain' = [chain EXCEPT !.round.answered = TRUE]
     \/ chain.prev.st = "Drawing" /\ ~chain.prev.answered
        /\ chain' = [chain EXCEPT !.prev.answered = TRUE]
  /\ UNCHANGED <<seen, walk, svc, tick, sleep>>

Deposit(p) ==
  /\ chain.joined[p] = 0 /\ chain.epoch.id > 0
  /\ chain.epoch.age < EpochLen
  /\ chain' = [chain EXCEPT !.joined[p] = chain.epoch.id]
  /\ UNCHANGED <<seen, walk, svc, tick, sleep>>

RequestWithdraw(p) ==
  /\ chain.joined[p] > 0 /\ chain.pend[p] = 0
  /\ chain' = [chain EXCEPT !.pend[p] = chain.epoch.id]
  /\ UNCHANGED <<seen, walk, svc, tick, sleep>>

Bought(c, p) == [c EXCEPT !.pos = @ \cup {<<p, c.round.id>>}]

Buy(p) ==
  /\ chain.round.st = "Open" /\ chain.round.age < RoundLen - CloseBuf
  /\ chain.joined[p] > 0 /\ <<p, chain.round.id>> \notin chain.pos
  /\ chain' = Bought(chain, p)
  /\ UNCHANGED <<seen, walk, svc, tick, sleep>>

\* playSparring: one Position in every Round, MARGIN before the close.
playSparring ==
  /\ chain.round.st = "Open"
  /\ <<Sparring, chain.round.id>> \notin chain.pos
  /\ chain.round.age <= RoundLen - CloseBuf - MARGIN
  /\ chain.joined[Sparring] > 0
  /\ chain' = Bought(chain, Sparring)
  /\ UNCHANGED <<seen, walk, svc, tick, sleep>>

Shutdown ==
  /\ chain' = [chain EXCEPT !.shutdown = TRUE]
  /\ UNCHANGED <<seen, walk, svc, tick, sleep>>

-----------------------------------------------------------------------------
(* What the program does with each instruction the service sends.          *)

VoidAccepted(c) ==
  \/ c.round.st = "Open" /\ c.round.age > RoundLen + VrfWait
  \/ c.round.st = "Requested" /\ ~c.round.answered /\ c.round.waited > VrfWait
SettleAccepted(c) == c.round.st = "Requested" /\ c.round.answered
RequestAccepted(c) == c.round.st = "Open" /\ c.round.age >= RoundLen - CloseBuf
RolloverAccepted(c) ==
  \/ c.prev.st = "Drawing" /\ ~c.prev.answered /\ c.prev.age > VrfWait
  \/ c.prev.st = "Drawn" /\ c.prev.age > PayWait
CloseRegistrationAccepted(c) ==
  ~c.shutdown /\ ~c.jackpotPaused /\ c.prev.st = "Registering" /\ c.prev.age >= RegWindow

Requested(c) == [c EXCEPT !.round.st = "Requested", !.round.waited = 0]
RoundOver(c, st) == [c EXCEPT !.round.st = st, !.terminal = @ \cup {c.round.id}]
BegunEpoch(c) ==
  [c EXCEPT !.epoch = [id |-> c.epoch.id + 1,
                       age |-> IF c.epoch.id = 0 THEN 0 ELSE (c.epoch.age - EpochLen) % EpochLen],
            !.prev = [st |-> IF c.epoch.id = 0 THEN "None" ELSE "Registering", age |-> 0,
                      ended |-> Least({(c.epoch.age - EpochLen) * (IF c.epoch.id = 0 THEN 0 ELSE 1), FreshSeconds + 1}),
                      answered |-> FALSE, winner |-> HouseWallet]]
Registered(c, batch) ==
  [c EXCEPT !.reg = [p \in Depositors |-> IF p \in batch THEN c.epoch.id - 1 ELSE c.reg[p]]]
Prev(c, st) == [c EXCEPT !.prev.st = st, !.prev.age = 0]

-----------------------------------------------------------------------------
(* The read model. A sweep's snapshot is written some time after it was    *)
(* taken, and stamped when it is written.                                  *)

Rows == [joined |-> chain.joined, reg |-> chain.reg, pend |-> chain.pend, pos |-> chain.pos,
         terminal |-> chain.terminal]

Snapshot ==
  /\ walk' = [rows |-> Rows, age |-> 0]
  /\ UNCHANGED <<chain, seen, svc, tick, sleep>>

Commit ==
  /\ walk.age <= IndexLag
  /\ seen' = [rows |-> walk.rows, age |-> 0]
  /\ UNCHANGED <<chain, walk, svc, tick, sleep>>

\* A second in which the indexer keeps up.
PassSynced ==
  /\ chain' = Later(chain, 1)
  /\ walk' = [rows |-> Rows, age |-> 0] /\ seen' = walk'
  /\ UNCHANGED <<svc, tick, sleep>>

\* Each query, minus what this process has just done.
playersToRegister(id) ==
  {p \in Weighted(seen.rows.joined, id) : seen.rows.reg[p] < id} \ svc.registered
unsettledPositions == {q \in seen.rows.pos : q[2] \in seen.rows.terminal} \ svc.settled
roundsToClose ==
  {r \in seen.rows.terminal : \A q \in seen.rows.pos : q[2] # r} \ svc.closing
duePendingWithdrawals(id) == {p \in Depositors : seen.rows.pend[p] \in 1..(id - 1)}

-----------------------------------------------------------------------------
(* Scheduling.                                                             *)

NoWithdrawState(id) ==
  [epoch |-> id, single |-> FALSE, fails |-> [p \in Depositors |-> 0], skipped |-> {}]
FreshSvc ==
  [check |-> 0, settled |-> {}, closing |-> {}, registered |-> {},
   w |-> NoWithdrawState(0)]
Idle == [pc |-> "idle"]
\* A tick starts from one read of the accounts and of the read model's stamp.
Started(memory) ==
  [pc |-> "round", ctx |-> chain, cursor |-> seen.age, acted |-> FALSE, threw |-> FALSE,
   check |-> memory.check,
   w |-> IF memory.w.epoch = chain.epoch.id THEN memory.w ELSE NoWithdrawState(chain.epoch.id)]

\* Mutant: a tick starts beside the one in flight.
MayRun_twice == TRUE

\* Single-flight.
MayRun == tick.pc = "idle"

\* runAndScheduleNext: drop the pending sleep, then run unless a tick is in
\* flight; whoever owns that one schedules the next sleep.
RunAndScheduleNext(pending) ==
  /\ sleep' = [pending |-> pending, held |-> FALSE,
               owed |-> IF MayRun THEN sleep.owed + 1 ELSE sleep.owed]
  /\ tick' = IF MayRun THEN Started(svc) ELSE tick
  /\ UNCHANGED <<chain, seen, walk, svc>>

DeadlineFires == sleep.pending > 0 /\ RunAndScheduleNext(sleep.pending - 1)

\* safetyTick, and wake() when the watched randomness is fulfilled.
LookNow == RunAndScheduleNext(sleep.pending - (IF sleep.held THEN 1 ELSE 0))

\* The end of runOnce: a tick that threw remembers nothing but what its own
\* sends noted; either way one sleep follows.
EndTick ==
  /\ tick.pc = "end"
  /\ svc' = IF tick.threw THEN svc
            ELSE [svc EXCEPT !.check = tick.check, !.w = tick.w]
  /\ tick' = Idle
  /\ sleep' = [pending |-> sleep.pending + sleep.owed, held |-> TRUE, owed |-> 0]
  /\ UNCHANGED <<chain, seen, walk>>

Restart ==
  /\ svc' = FreshSvc /\ tick' = Started(FreshSvc)
  /\ sleep' = [pending |-> 0, held |-> FALSE, owed |-> 1]
  /\ UNCHANGED <<chain, seen, walk>>

-----------------------------------------------------------------------------
(* The steps of decide.                                                    *)

ctx == tick.ctx
At(pc) == tick.pc = pc
Goto(pc) == tick' = [tick EXCEPT !.pc = pc]
Unmoved == UNCHANGED <<seen, walk, sleep>>

\* A send confirms, is refused by the program, is lost, or lands unnoticed.
Outcomes(accepted) ==
  (IF accepted THEN {"ok"} \cup (Faults \cap {"unseen"}) ELSE {"refused"})
    \cup (Faults \cap {"lost"})
Effect(how, effect) == IF how \in {"ok", "unseen"} THEN effect ELSE chain

\* A step whose failure ends the tick.
Send(accepted, effect) ==
  \E how \in Outcomes(accepted) :
    /\ chain' = Effect(how, effect)
    /\ tick' = [tick EXCEPT !.pc = "end", !.acted = (how = "ok"), !.threw = (how # "ok")]

\* Mutant: only a Round that was never requested times out.
VoidIsDue_open(c) == c.round.st = "Open" /\ c.round.age > RoundLen + VrfWait

VoidIsDue(c) ==
  \/ c.round.st = "Open" /\ c.round.age > RoundLen + VrfWait
  \/ c.round.st = "Requested" /\ c.round.waited > VrfWait
RequestDue(c) == c.round.st = "Open" /\ c.round.age >= RoundLen - CloseBuf

\* 1. `fulfilled` is read afresh, everything else is the context's.
StepRound ==
  /\ At("round")
  /\ LET settles == ctx.round.st = "Requested" /\ chain.round.answered IN
     \/ settles /\ Send(SettleAccepted(chain), RoundOver(chain, "Settled"))
     \/ ~settles /\ VoidIsDue(ctx) /\ Send(VoidAccepted(chain), RoundOver(chain, "Voided"))
     \/ ~VoidIsDue(ctx) /\ RequestDue(ctx) /\ Send(RequestAccepted(chain), Requested(chain))
     \/ ~settles /\ ~VoidIsDue(ctx) /\ ~RequestDue(ctx) /\ Goto("sweep") /\ UNCHANGED chain
  /\ UNCHANGED svc /\ Unmoved

\* A step that records a failure and goes on (`attempt`). An account already
\* gone counts as done.
Attempt(accepted, gone, effect, note, next) ==
  \E how \in Outcomes(accepted) :
    LET done == how = "ok" \/ (how = "refused" /\ gone) IN
    /\ chain' = Effect(how, effect)
    /\ svc' = IF done THEN note ELSE svc
    /\ tick' = [tick EXCEPT !.pc = IF done THEN "end" ELSE next, !.acted = done]

\* 2. One batch of one terminal Round's Positions. Entries older than
\* SETTLED_MEMORY_MS are dropped on the way; one that was dropped early would
\* only be sent again.
StepSweep ==
  /\ At("sweep")
  /\ IF unsettledPositions = {} THEN Goto("close") /\ UNCHANGED <<chain, svc>>
     ELSE \E first \in unsettledPositions :
       LET batch == Take({q \in unsettledPositions : q[2] = first[2]}, BATCH_SIZE)
       IN Attempt(batch \subseteq chain.pos, TRUE, [chain EXCEPT !.pos = @ \ batch],
                  [svc EXCEPT !.settled = @ \cup batch], "close")
  /\ Unmoved

\* 2c. The oldest terminal Round nobody holds a Position on.
StepCloseRound ==
  /\ At("close")
  /\ IF roundsToClose = {} THEN Goto("begin") /\ UNCHANGED <<chain, svc>>
     ELSE LET r == Least(roundsToClose)
          IN Attempt(r \in chain.terminal /\ \A q \in chain.pos : q[2] # r,
                     r \notin chain.terminal,
                     [chain EXCEPT !.terminal = @ \ {r}],
                     [svc EXCEPT !.closing = @ \cup {r}], "begin")
  /\ Unmoved

RoundIsOpen(c) == c.round.st \in {"Open", "Requested"}
Resolved(c) == c.prev.st \in {"None", "Paid", "RolledOver"}

\* 3. No Round open, the epoch over (or launchAt reached), the one before it
\* finished.
BeginDue(c) ==
  /\ ~c.shutdown /\ ~c.jackpotPaused /\ ~RoundIsOpen(c) /\ Resolved(c)
  /\ c.epoch.age >= IF c.epoch.id = 0 THEN LaunchAge ELSE EpochLen

StepBegin ==
  /\ At("begin")
  /\ IF BeginDue(ctx) /\ chain.epoch.id < MaxEpochs
     THEN Send(BeginDue(chain), BegunEpoch(chain)) ELSE Goto("register") /\ UNCHANGED chain
  /\ UNCHANGED svc /\ Unmoved

\* 4. Crank registrations; what was sent is not sent again. Only a later call
\* drops entries older than REGISTERED_MEMORY_MS, which reach from one epoch
\* into the next.
StepRegister ==
  /\ At("register")
  /\ IF ~ctx.shutdown /\ ctx.prev.st = "Registering"
          /\ playersToRegister(ctx.epoch.id - 1) # {}
     THEN LET batch == Take(playersToRegister(ctx.epoch.id - 1), BATCH_SIZE) IN
          \E how \in Outcomes(chain.prev.st = "Registering"),
             old \in SUBSET {p \in svc.registered : chain.reg[p] < ctx.epoch.id - 1} :
            /\ chain' = Effect(how, Registered(chain, batch))
            /\ svc' = IF how = "ok" THEN [svc EXCEPT !.registered = (@ \ old) \cup batch] ELSE svc
            /\ tick' = [tick EXCEPT !.pc = "end", !.acted = (how = "ok"),
                          !.threw = (how # "ok"), !.check = 0]
     ELSE Goto("closereg") /\ UNCHANGED <<chain, svc>>
  /\ Unmoved

\* Mutant: the stamp is read when it is needed, after the owners were listed.
indexerFreshForClose_reread == seen.age <= FreshSeconds /\ seen.age <= chain.prev.ended

\* The stamp read with the context is young, and no older than the epoch's end.
indexerFreshForClose == tick.cursor <= FreshSeconds /\ tick.cursor <= ctx.prev.ended

\* 4b. Close after two empty ticks in a row, the window, and a fresh stamp.
CloseDue(c, check) ==
  check = c.epoch.id - 1 /\ c.prev.age >= RegWindow

StepCloseRegistration ==
  /\ At("closereg")
  /\ IF ctx.shutdown \/ ctx.jackpotPaused \/ ctx.prev.st # "Registering"
     THEN Goto("draw") /\ UNCHANGED chain
     ELSE IF ~CloseDue(ctx, tick.check) \/ ~indexerFreshForClose
     THEN /\ tick' = [tick EXCEPT !.pc = "end", !.check = ctx.epoch.id - 1]
          /\ UNCHANGED chain
     ELSE \E st \in (IF \E p \in Depositors : chain.reg[p] = Previous
                     THEN {"Drawing", "RolledOver"} ELSE {"RolledOver"}) :
            Send(CloseRegistrationAccepted(chain), Prev(chain, st))
  /\ UNCHANGED svc /\ Unmoved

RolloverIsDue(c) == c.prev.st = "Drawing" /\ c.prev.age > VrfWait

\* 5. In shutdown only the rollover is sent.
StepDraw ==
  /\ At("draw")
  /\ LET draws == ctx.prev.st = "Drawing" /\ ~ctx.shutdown /\ chain.prev.answered IN
     \/ /\ draws
        /\ \E w \in {HouseWallet} \cup {p \in Depositors : chain.reg[p] = Previous} :
             Send(chain.prev.st = "Drawing", [Prev(chain, "Drawn") EXCEPT !.prev.winner = w])
     \/ ~draws /\ RolloverIsDue(ctx) /\ Send(RolloverAccepted(chain), Prev(chain, "RolledOver"))
     \/ ~draws /\ ~RolloverIsDue(ctx) /\ Goto("payout") /\ UNCHANGED chain
  /\ UNCHANGED svc /\ Unmoved

\* A winner nobody can pay is rolled over, a human one only once the page has
\* gone out.
PayoutTimedOut(c) ==
  /\ c.prev.st = "Drawn" /\ c.prev.age > PayWait
  /\ c.prev.winner = HouseWallet \/ c.prev.age > DRAWN_UNPAID_ALERT_SECONDS

\* 6. Pay the winner. A refusal of the winner's account falls through.
StepPayout ==
  /\ At("payout")
  /\ \/ /\ ctx.prev.st = "Drawn" /\ ctx.prev.winner \notin Blocked
        /\ Send(chain.prev.st = "Drawn", Prev(chain, "Paid"))
     \/ /\ ctx.prev.st = "Drawn" /\ ctx.prev.winner \in Blocked
        /\ IF PayoutTimedOut(ctx) THEN Send(RolloverAccepted(chain), Prev(chain, "RolledOver"))
           ELSE Goto("withdraw") /\ UNCHANGED chain
     \/ ctx.prev.st # "Drawn" /\ Goto("withdraw") /\ UNCHANGED chain
  /\ UNCHANGED svc /\ Unmoved

\* Mutant: an owner who keeps failing is tried again and again.
AfterFailure_same_head(w, batch) == [w EXCEPT !.single = TRUE]

\* 6b's memory after a failed batch: first send one at a time, then count the
\* failures of whoever is at the head.
AfterFailure(w, batch) ==
  IF ~w.single THEN [w EXCEPT !.single = TRUE]
  ELSE LET p == CHOOSE p \in batch : TRUE
           count == w.fails[p] + 1
       IN IF count >= WITHDRAW_FAILURE_LIMIT
          THEN [w EXCEPT !.fails[p] = 0, !.skipped = @ \cup {p}]
          ELSE [w EXCEPT !.fails[p] = count]

\* 6b. Withdrawals whose epoch is over. The send is one transaction: an owner
\* who cannot be paid, or already was, fails the whole batch.
StepWithdraw ==
  /\ At("withdraw")
  /\ LET due == duePendingWithdrawals(ctx.epoch.id) \ tick.w.skipped
         n   == IF tick.w.single THEN 1 ELSE WITHDRAW_BATCH_SIZE
     IN IF due = {} THEN Goto("create") /\ UNCHANGED chain
        ELSE \E batch \in {b \in SUBSET due : Cardinality(b) = Least({n, Cardinality(due)})} :
          \E how \in Outcomes(\A p \in batch : chain.pend[p] > 0 /\ p \notin Blocked) :
            /\ chain' = Effect(how, [chain EXCEPT !.pend =
                          [p \in Depositors |-> IF p \in batch THEN 0 ELSE @[p]]])
            /\ tick' = IF how = "ok"
                       THEN [tick EXCEPT !.pc = "end", !.acted = TRUE,
                               !.w.single = @ /\ due # batch,
                               !.w.fails = [p \in Depositors |-> IF p \in batch THEN 0 ELSE @[p]]]
                       ELSE [tick EXCEPT !.pc = "create", !.w = AfterFailure(@, batch)]
  /\ UNCHANGED svc /\ Unmoved

\* 7. A whole Round still fits, and the last one's reveal has played.
CreateDue(c) ==
  /\ ~RoundIsOpen(c) /\ ~c.gamePaused /\ c.epoch.id > 0
  /\ c.epoch.age + RoundLen <= EpochLen
  /\ c.round.st \in {"None", "Voided"} \/ c.round.age >= RoundLen + REVEAL_SECONDS

StepCreate ==
  /\ At("create")
  /\ IF CreateDue(ctx) /\ chain.round.id < MaxRounds
     THEN Send(~RoundIsOpen(chain) /\ ~chain.shutdown,
               [chain EXCEPT !.round = [id |-> chain.round.id + 1, st |-> "Open", age |-> 0,
                                        waited |-> 0, answered |-> FALSE]])
     ELSE Goto("end") /\ UNCHANGED chain
  /\ UNCHANGED svc /\ Unmoved

-----------------------------------------------------------------------------
(* When to look again.                                                     *)

\* The seconds left to a deadline, none once it is behind.
Ahead(deadline, age) == IF deadline >= age THEN {deadline - age} ELSE {}

\* Mutant: no deadline for the end of the registration window.
Deadlines_no_window(c) ==
  {SAFETY_INTERVAL_SECONDS}
    \cup (IF c.round.st = "Open" THEN Ahead(RoundLen - CloseBuf, c.round.age) ELSE {})
    \cup Ahead(IF c.epoch.id = 0 THEN LaunchAge ELSE EpochLen, c.epoch.age)
    \cup (IF c.prev.st = "Drawing" THEN Ahead(VrfWait, c.prev.age) ELSE {})

\* The candidates, as seconds from the context's clock.
Deadlines(c) ==
  {SAFETY_INTERVAL_SECONDS}
    \cup (IF c.round.st = "Open"
          THEN Ahead(RoundLen - CloseBuf, c.round.age) \cup Ahead(RoundLen + VrfWait, c.round.age)
          ELSE {})
    \cup (IF c.round.st = "Requested" THEN Ahead(VrfWait, c.round.waited) ELSE {})
    \cup Ahead(IF c.epoch.id = 0 THEN LaunchAge ELSE EpochLen, c.epoch.age)
    \cup (IF c.prev.st = "Registering" THEN Ahead(RegWindow, c.prev.age) ELSE {})
    \cup (IF c.prev.st = "Drawing" THEN Ahead(VrfWait, c.prev.age) ELSE {})
    \cup (IF c.prev.st = "Drawn" THEN Ahead(PayWait, c.prev.age) ELSE {})
    \cup (IF ~RoundIsOpen(c) /\ c.round.st \notin {"None", "Voided"}
          THEN Ahead(RoundLen + REVEAL_SECONDS, c.round.age) ELSE {})

nextWakeAt(c) == Least(Deadlines(c))

-----------------------------------------------------------------------------
OperatorChain(game, jackpot) ==
  [epoch |-> [id |-> 0, age |-> 0],
   prev |-> [st |-> "None", age |-> 0, ended |-> 0, answered |-> FALSE, winner |-> HouseWallet],
   round |-> [id |-> 0, st |-> "None", age |-> 0, waited |-> 0, answered |-> FALSE],
   joined |-> [p \in Depositors |-> 0], reg |-> [p \in Depositors |-> 0],
   pend |-> [p \in Depositors |-> 0], pos |-> {}, terminal |-> {},
   shutdown |-> FALSE, gamePaused |-> ~game, jackpotPaused |-> ~jackpot]

OperatorBoot ==
  /\ walk = [rows |-> Rows, age |-> 0] /\ seen = walk
  /\ svc = FreshSvc /\ tick = Started(FreshSvc)
  /\ sleep = [pending |-> 0, held |-> FALSE, owed |-> 1]

DecideNext ==
  \/ StepRound \/ StepSweep \/ StepCloseRound \/ StepBegin \/ StepRegister
  \/ StepCloseRegistration \/ StepDraw \/ StepPayout \/ StepWithdraw \/ StepCreate \/ EndTick

OthersNext ==
  \/ \E p \in Depositors : Deposit(p) \/ RequestWithdraw(p) \/ Buy(p)
  \/ playSparring \/ OracleAnswers \/ Shutdown \/ Pass \/ PassSynced \/ Snapshot \/ Commit

OperatorNext == OthersNext \/ DecideNext \/ DeadlineFires \/ LookNow \/ Restart

\* Deposits made before launch count for epoch 1.
OperatorInit ==
  /\ \E game, jackpot \in BOOLEAN, joined \in [Depositors -> {0, 1}] :
       chain = [OperatorChain(game, jackpot) EXCEPT !.joined = joined]
  /\ OperatorBoot

OperatorSpec == OperatorInit /\ [][OperatorNext]_operatorVars

-----------------------------------------------------------------------------
\* runAndScheduleNext (operator.service.ts:211): exactly one sleep is pending
\* or owed by the tick in flight, whatever mix of deadline, safety timer,
\* randomness watch and restart asked for ticks. Two would run the loop
\* twice as often for ever, none would leave only the safety net.
OneSleep == sleep.pending + sleep.owed = 1

Leaves(st) == chain.prev.st = st /\ chain'.prev.st # st

\* close_registration (tick.ts:706): the operator closes an epoch's
\* registration only when every depositor of that epoch is registered, though
\* it lists them from a read model that lags, stalls, or that its own memory
\* edits.
NobodyLeftOut ==
  [][Leaves("Registering") =>
       \A p \in Weighted(chain.joined, Previous) : chain.reg[p] = Previous]_operatorVars

\* What decide would do because of the time alone.
DueSteps(c) ==
  {s \in {"void", "request", "begin", "close", "rollover", "payout", "create"} :
     \/ s = "void" /\ VoidIsDue(c)
     \/ s = "request" /\ RequestDue(c)
     \/ s = "begin" /\ BeginDue(c)
     \/ s = "close" /\ c.prev.st = "Registering" /\ c.prev.age >= RegWindow
     \/ s = "rollover" /\ RolloverIsDue(c)
     \/ s = "payout" /\ PayoutTimedOut(c)
     \/ s = "create" /\ CreateDue(c)}

\* nextWakeAt (tick.ts:383): the list of deadlines there and the conditions
\* of decide are kept apart by hand; whatever falls due with time does so no
\* earlier than the computed wake, so no step waits for the safety net.
WakeNotLate ==
  (tick.pc = "end" /\ ~tick.acted /\ ~tick.threw) =>
    \A n \in 1..(nextWakeAt(ctx) - 1) : DueSteps(Later(ctx, n)) \subseteq DueSteps(ctx)

\* The next look is planned once, and no later than the first thing to fall due.
WakeSound == OneSleep /\ WakeNotLate

\* Step 6b (tick.ts:811): while epochs turn, a withdrawal whose epoch is over
\* is paid, even if another owner's payout fails every batch it is in.
WithdrawalsDrain ==
  \A p \in Depositors \ Blocked :
    chain.pend[p] \in 1..(chain.epoch.id - 1) ~> chain.pend[p] = 0

\* Steps 1, 2 and 2c (tick.ts:521): every Round is finished, its Positions
\* settled and its account closed, whether or not the oracle answers and
\* though confirmations of what already landed get lost.
BoardDrains ==
  \A r \in OpRounds : (chain.round.id = r) ~> (chain.round.st \notin {"Open", "Requested"}
                                              /\ r \notin chain.terminal)

=============================================================================
