------------------------------- MODULE Indexer -------------------------------
(***************************************************************************)
(* The indexer (indexer.service.ts): a Postgres mirror of the program's    *)
(* accounts and events, written by three paths at once. The log path       *)
(* re-reads what a confirmed transaction touched; the sweep walks every    *)
(* account on a snapshot that lags the chain; event ingest stores          *)
(* finalized events, live from the socket or replayed from a cursor. Log   *)
(* path and ingest share one FIFO queue; the sweep runs beside it.         *)
(*                                                                         *)
(* The chain is a sequence of transactions, one per slot, each reduced to  *)
(* the account its event names and that account's Round. A row is the slot *)
(* its data comes from (0: no row). aboveSince is left to Referrals; pools *)
(* other than the active one are filtered by address in the code and       *)
(* absent here.                                                            *)
(***************************************************************************)
EXTENDS Integers, Sequences, FiniteSets

CONSTANTS
  Owners, Rounds,      \* wallets, and rounds of the board
  TxKinds,             \* which transactions an instance may see
  Genesis,             \* the chains the process may first boot on
  MaxSlot, MaxPrincipal, MaxQueue, MaxCrashes,
  ReadLag              \* how far a read may trail the log that caused it

ASSUME IndexerAssumption ==
  /\ MaxSlot \in Nat /\ MaxPrincipal \in Nat /\ MaxQueue \in Nat
  /\ MaxCrashes \in Nat /\ ReadLag \in Nat

VARIABLES
  txs,          \* the chain: confirmed transactions in slot order
  final,        \* the slot finality has reached
  heard,        \* per subscription, the last slot it was told about (or missed)
  queue,        \* the promise chain of `enqueue`
  job,          \* progress of the queue's head
  sweep,        \* progress of `tick`
  mem,          \* freshWrites, lastSyncedSlot, v2Unsupported: lost in a crash
  db,           \* what Postgres holds; `applied` and `byLog` are history: how
                \* often a batch's deltas were applied, which rows the log path
                \* wrote or noted last
  crashes

vars == <<txs, final, heard, queue, job, sweep, mem, db, crashes>>

Positions == Owners \X Rounds
Accounts  == Owners \cup Rounds \cup Positions

Ops == {"deposit", "withdraw", "open", "move", "close", "failed", "buy", "settle"}

\* The account a transaction names, by what it does.
Named(op) ==
  CASE op \in {"deposit", "withdraw"}              -> Owners
    [] op \in {"open", "move", "close", "failed"}  -> Rounds
    [] op \in {"buy", "settle"}                    -> Positions

Transactions ==
  {tx \in [op: Ops, acct: Accounts, principal: Int] : tx.acct \in Named(tx.op)}

\* Account addresses of different kinds differ.
ASSUME KindsAssumption ==
  /\ Owners \cap Rounds = {} /\ Owners \cap Positions = {} /\ Rounds \cap Positions = {}
  /\ TxKinds \subseteq Ops

ASSUME GenesisAssumption ==
  \A chain \in Genesis : chain \in Seq(Transactions) /\ Len(chain) <= MaxSlot

Slots     == 1..MaxSlot
Now       == Len(txs)
Max0(n)   == IF n > 0 THEN n ELSE 0

-----------------------------------------------------------------------------
(* The chain, as seen at a slot.                                           *)

\* Buying or settling a Position also changes its Round.
Touches(tx, a) ==
  /\ tx.op # "failed"
  /\ a = tx.acct \/ (tx.acct \in Positions /\ a = tx.acct[2])

LastTouch(a, s) ==
  LET at == {i \in 1..s : Touches(txs[i], a)}
  IN IF at = {} THEN 0 ELSE CHOOSE i \in at : \A j \in at : j <= i

Closes(tx, a) == tx.acct = a /\ tx.op \in {"settle", "close"}

Exists(a, s) == LastTouch(a, s) > 0 /\ ~Closes(txs[LastTouch(a, s)], a)

PrincipalAt(p, ver) == IF ver = 0 THEN 0 ELSE txs[ver].principal

\* What the program lets a transaction do to the account it names.
Legal(op, a) ==
  CASE op = "deposit"  -> a \in Owners /\ PrincipalAt(a, LastTouch(a, Now)) < MaxPrincipal
    [] op = "withdraw" -> a \in Owners /\ PrincipalAt(a, LastTouch(a, Now)) > 0
    [] op = "open"     -> a \in Rounds /\ LastTouch(a, Now) = 0
    [] op = "move"     -> a \in Rounds /\ Exists(a, Now)
    [] op = "close"    -> a \in Rounds /\ Exists(a, Now)
                            /\ \A p \in Owners : ~Exists(<<p, a>>, Now)
    [] op = "buy"      -> a \in Positions /\ LastTouch(a, Now) = 0 /\ Exists(a[2], Now)
    [] op = "settle"   -> a \in Positions /\ Exists(a, Now)
    [] op = "failed"   -> a \in Rounds

Transact(op, a) ==
  /\ Now < MaxSlot
  /\ op \in TxKinds
  /\ Legal(op, a)
  /\ txs' = Append(txs,
       [op |-> op, acct |-> a,
        principal |-> IF a \notin Owners THEN 0
                      ELSE PrincipalAt(a, LastTouch(a, Now)) + (IF op = "deposit" THEN 1 ELSE -1)])
  /\ UNCHANGED <<final, heard, queue, job, sweep, mem, db, crashes>>

Finalize ==
  /\ final < Now
  /\ final' = final + 1
  /\ UNCHANGED <<txs, heard, queue, job, sweep, mem, db, crashes>>

-----------------------------------------------------------------------------
(* Subscriptions. Each notification is delivered in order or lost.         *)

NoJob == [read |-> FALSE, todo |-> {}, got |-> <<>>, written |-> FALSE]

\* onLogs at `confirmed` schedules refreshFromLogs, at `finalized` the live
\* ingest; failed transactions are dropped by both.
Deliver(level) ==
  LET upto == IF level = "confirmed" THEN Now ELSE final
      i    == heard[level] + 1
  IN
  /\ i <= upto
  /\ heard' = [heard EXCEPT ![level] = i]
  /\ IF txs[i].op = "failed"
     THEN UNCHANGED queue
     ELSE /\ Len(queue) < MaxQueue
          /\ queue' = Append(queue,
               [kind |-> IF level = "confirmed" THEN "refresh" ELSE "live", slots |-> <<i>>])
  /\ UNCHANGED <<txs, final, job, sweep, mem, db, crashes>>

Lose(level) ==
  /\ heard[level] < (IF level = "confirmed" THEN Now ELSE final)
  /\ heard' = [heard EXCEPT ![level] = @ + 1]
  /\ UNCHANGED <<txs, final, queue, job, sweep, mem, db, crashes>>

\* `enqueue`: a task starts only when the one before it has ended, failed or not.
Dequeue == queue' = Tail(queue) /\ job' = NoJob

-----------------------------------------------------------------------------
(* The log path.                                                           *)

\* getOpenRound: the round whose row is still live; nothing is settled while
\* it is.
OpenRoundRow == {r \in Rounds : db.rows[r] > 0 /\ txs[db.rows[r]].op # "settle"}

\* decodeEventLogs: a failed transaction and a Round's request emit nothing.
Emits(tx) == tx.op \notin {"failed", "move"}

\* The accounts a transaction's events name.
EventAccounts(tx) ==
  IF ~Emits(tx) THEN {}
  ELSE IF tx.acct \in Positions THEN {tx.acct[1], tx.acct[2], tx.acct}
  ELSE {tx.acct}

\* refreshFromLogs up to its read: the wanted accounts, fetched at once from a
\* node that may not have reached the transaction yet.
RefreshRead ==
  /\ queue # <<>> /\ Head(queue).kind = "refresh" /\ ~job.read
  /\ \E r \in 0..Now :
       /\ r + ReadLag >= Head(queue).slots[1]
       /\ LET wanted == OpenRoundRow \cup EventAccounts(txs[Head(queue).slots[1]])
          IN job' = [NoJob EXCEPT !.read = TRUE, !.todo = wanted,
                       !.got = [a \in wanted |-> IF Exists(a, r) THEN LastTouch(a, r) ELSE 0]]
  /\ UNCHANGED <<txs, final, heard, queue, sweep, mem, db, crashes>>

\* Rounds before Players before Positions, the order `wanted` was filled in.
NextToApply ==
  LET first == IF job.todo \cap Rounds # {} THEN Rounds
               ELSE IF job.todo \cap Owners # {} THEN Owners ELSE Positions
  IN CHOOSE a \in job.todo : a \in first

\* applyAccount: a missing Position is deleted, anything else missing is left
\* for later.
ApplyAccount ==
  LET a == NextToApply IN
  /\ job.read /\ job.todo # {} /\ ~job.written
  /\ IF job.got[a] = 0 /\ a \notin Positions
     THEN job' = [job EXCEPT !.todo = @ \ {a}] /\ UNCHANGED db
     ELSE job' = [job EXCEPT !.written = TRUE] /\ db' = [db EXCEPT !.rows[a] = job.got[a],
                                                                    !.byLog = @ \cup {a}]
  /\ UNCHANGED <<txs, final, heard, queue, sweep, mem, crashes>>

\* The write is noted only after it has committed, at the log's slot.
NoteFresh ==
  LET a == NextToApply IN
  /\ job.written
  /\ mem' = [mem EXCEPT !.fresh[a] = Head(queue).slots[1]]
  /\ db' = [db EXCEPT !.byLog = @ \cup {a}]
  /\ job' = [job EXCEPT !.written = FALSE, !.todo = @ \ {a}]
  /\ UNCHANGED <<txs, final, heard, queue, sweep, crashes>>

RefreshDone ==
  /\ job.read /\ job.todo = {}
  /\ Dequeue
  /\ UNCHANGED <<txs, final, heard, sweep, mem, db, crashes>>

-----------------------------------------------------------------------------
(* Event ingest.                                                           *)

\* Mutant: a delta is not clamped at zero.
nextPrincipal_unclamped(previous, tx) ==
  IF tx.op = "deposit" THEN tx.principal ELSE previous - 1

\* nextPrincipal: Deposited carries the absolute Principal, the rest a delta.
nextPrincipal(previous, tx) ==
  IF tx.op = "deposit" THEN tx.principal ELSE Max0(previous - 1)

settledPosition(tx) == tx.op = "settle"
closedRound(tx) == tx.op = "close"

\* The events that change an owner's Principal.
referralPrincipalEvents(tx) == tx.op \in {"deposit", "withdraw"}

\* Mutant: a replayed batch applies its deltas again.
AppliesDelta_replayed(i) == referralPrincipalEvents(txs[i]) /\ txs[i].acct \in db.bound

\* Referral rows follow a batch's Principal events, unless the batch is already
\* stored or nobody referred the owner.
AppliesDelta(i) ==
  /\ i \notin db.events
  /\ referralPrincipalEvents(txs[i])
  /\ txs[i].acct \in db.bound

\* persist, one database transaction. Only catch-up moves the cursor, and
\* never back.
persist(i, advanceCursor) ==
  LET tx == txs[i] IN
  db' = [db EXCEPT
    !.events   = IF Emits(tx) THEN @ \cup {i} ELSE @,
    !.applied[i] = IF AppliesDelta(i) THEN @ + 1 ELSE @,
    !.rows     = IF settledPosition(tx) THEN [@ EXCEPT ![tx.acct] = 0] ELSE @,
    !.closed   = IF closedRound(tx) /\ db.rows[tx.acct] > 0 THEN @ \cup {tx.acct} ELSE @,
    !.codes    = IF tx.op = "deposit" THEN @ \cup {tx.acct} ELSE @,
    !.referral = [p \in Owners |-> IF AppliesDelta(i) /\ p = tx.acct
                                   THEN nextPrincipal(@[p], tx) ELSE @[p]],
    !.cursor   = IF advanceCursor /\ @ <= i THEN i ELSE @]

\* Mutant: the live path moves the cursor too.
LiveAdvances_yes == TRUE

\* What subscribeToLogs passes as advanceCursor.
LiveAdvances == FALSE

\* The live ingest; before the first sweep there is no Pool row to refer to.
LiveIngest ==
  /\ queue # <<>> /\ Head(queue).kind = "live"
  /\ IF mem.synced < 0 \/ ~Emits(txs[Head(queue).slots[1]])
     THEN UNCHANGED db
     ELSE persist(Head(queue).slots[1], LiveAdvances)
  /\ Dequeue
  /\ UNCHANGED <<txs, final, heard, sweep, mem, crashes>>

\* Mutant: a signature without logs is skipped.
AfterUnreadable_skip(slots) == Tail(slots)

\* What ingestSignature leaves of the backlog when a transaction's logs cannot
\* be read: nothing, the next tick starts there again.
AfterUnreadable(slots) == <<>>

\* The backlog is one queue slot, oldest first. Logs may not be there yet.
CatchUpStep ==
  /\ queue # <<>> /\ Head(queue).kind = "backlog" /\ Head(queue).slots # <<>>
  /\ LET slots == Head(queue).slots IN
     \/ /\ persist(slots[1], TRUE)
        /\ queue' = <<[Head(queue) EXCEPT !.slots = Tail(slots)]>> \o Tail(queue)
     \/ /\ txs[slots[1]].op # "failed"
        /\ queue' = <<[Head(queue) EXCEPT !.slots = AfterUnreadable(slots)]>> \o Tail(queue)
        /\ UNCHANGED db
  /\ UNCHANGED <<txs, final, heard, job, sweep, mem, crashes>>

\* catchUpEvents has drained; tick stamps the cursor row and ends.
CatchUpDone ==
  /\ queue # <<>> /\ Head(queue).kind = "backlog" /\ Head(queue).slots = <<>>
  /\ Dequeue
  /\ db' = [db EXCEPT !.stamp = sweep.slot]
  /\ sweep' = [sweep EXCEPT !.pc = "idle", !.slot = 0]
  /\ UNCHANGED <<txs, final, heard, mem, crashes>>

\* bindReferral, on behalf of the API: seeded from the mirrored Player.
bindReferral(p) ==
  /\ p \notin db.bound
  /\ db' = [db EXCEPT !.bound = @ \cup {p},
                      !.referral[p] = PrincipalAt(p, db.rows[p])]
  /\ UNCHANGED <<txs, final, heard, queue, job, sweep, mem, crashes>>

-----------------------------------------------------------------------------
(* The sweep.                                                              *)

NoSweep == [pc |-> "idle", full |-> FALSE, since |-> -1, slot |-> 0,
            got |-> [a \in Accounts |-> 0], todo |-> {}, plan |-> [p \in Owners |-> -1]]

\* True when the log path already wrote this account from a slot the sweep's
\* snapshot predates.
behindLogPath(a, slot) == mem.fresh[a] > slot

\* What a walk reports of account `a` at slot `x`; 0 is absent, or unchanged
\* since `since` on an incremental walk.
Reported(a, x, since) ==
  IF Exists(a, x) /\ LastTouch(a, x) > since THEN LastTouch(a, x) ELSE 0

\* The rows of one kind a walk `w` will write: reported, and not behind the log
\* path at the moment the database transaction is put together.
Fresh(w, kind) == {a \in kind : w.got[a] > 0 /\ ~behindLogPath(a, w.slot)}

Upserted(rows, todo) == [a \in Accounts |-> IF a \in todo THEN sweep.got[a] ELSE rows[a]]

\* The rows a walk is still ahead of when it writes them.
CaughtUp(w) == {a \in w.todo : ~behindLogPath(a, w.slot)}

\* The walk is complete and its Rounds are about to be written.
Fetched(w) == [w EXCEPT !.pc = "rounds", !.todo = Fresh(w, Rounds)]

\* tick and syncAccounts up to the first page: a full walk on boot, without
\* getProgramAccountsV2 and once an hour, else what changed since the last one.
\* The index that answers trails the chain, by less than the time between two
\* sweeps: a walk is no older than the one before it.
SweepFetch ==
  /\ sweep.pc = "idle"
  /\ \E full \in BOOLEAN, x \in Max0(mem.synced)..Now :
       LET since == IF full THEN -1 ELSE mem.synced
           walk(kinds) == [NoSweep EXCEPT
             !.pc = "page", !.full = full, !.since = since, !.slot = x,
             !.got = [a \in Accounts |-> IF a \in kinds THEN Reported(a, x, since) ELSE 0]]
       IN
       /\ mem.synced < 0 \/ mem.v2Unsupported => full
       /\ sweep' = IF mem.v2Unsupported THEN Fetched(walk(Accounts))
                   ELSE walk(Rounds \cup Positions)
  /\ UNCHANGED <<txs, final, heard, queue, job, mem, db, crashes>>

\* Mutant: two endpoints' pages are mixed.
Kept_any(sameEndpoint) == TRUE

\* A later page is kept only from the endpoint that served the first.
Kept(sameEndpoint) == sameEndpoint

\* The second page, taken here to hold the Players: from the same endpoint it is
\* no older than the first, from the other one it may be. A walk that changes
\* endpoint is abandoned before anything is written.
SweepPage ==
  /\ sweep.pc = "page"
  /\ \E sameEndpoint \in BOOLEAN, x \in 0..Now :
       /\ sameEndpoint => x >= sweep.slot
       /\ sweep' = IF Kept(sameEndpoint)
                   THEN Fetched([sweep EXCEPT !.got = [a \in Accounts |->
                          IF a \in Owners THEN Reported(a, x, sweep.since) ELSE @[a]]])
                   ELSE NoSweep
  /\ UNCHANGED <<txs, final, heard, queue, job, mem, db, crashes>>

\* Any RPC error fails the sweep, a fallback without the method included.
SweepFail ==
  /\ sweep.pc = "page"
  /\ sweep' = NoSweep
  /\ UNCHANGED <<txs, final, heard, queue, job, mem, db, crashes>>

\* The primary itself lacks the method: this sweep falls back to one call that
\* returns everything, still incremental if it began so, and so do the next.
SweepWithoutV2 ==
  /\ sweep.pc = "page"
  /\ \E x \in Max0(mem.synced)..Now :
       sweep' = Fetched([sweep EXCEPT !.slot = x,
                          !.got = [a \in Accounts |-> Reported(a, x, -1)]])
  /\ mem' = [mem EXCEPT !.v2Unsupported = TRUE]
  /\ UNCHANGED <<txs, final, heard, queue, job, db, crashes>>

\* An hour later the method is tried again.
RetryV2 ==
  /\ sweep.pc = "idle" /\ mem.v2Unsupported
  /\ mem' = [mem EXCEPT !.v2Unsupported = FALSE]
  /\ UNCHANGED <<txs, final, heard, queue, job, sweep, db, crashes>>

\* Rounds are written; a full walk then looks for rows it did not see.
SweepRounds ==
  /\ sweep.pc = "rounds"
  /\ db' = [db EXCEPT !.rows = Upserted(@, sweep.todo), !.byLog = @ \ CaughtUp(sweep)]
  /\ sweep' = IF sweep.full
              THEN [sweep EXCEPT !.pc = "close",
                      !.todo = {r \in Rounds : /\ db'.rows[r] > 0 /\ sweep.got[r] = 0
                                               /\ r \notin db.closed
                                               /\ ~behindLogPath(r, sweep.slot)}]
              ELSE [sweep EXCEPT !.pc = "players", !.todo = Fresh(sweep, Owners)]
  /\ UNCHANGED <<txs, final, heard, queue, job, mem, crashes>>

SweepClose ==
  /\ sweep.pc = "close"
  /\ db' = [db EXCEPT !.closed = @ \cup sweep.todo]
  /\ sweep' = [sweep EXCEPT !.pc = "players", !.todo = Fresh(sweep, Owners)]
  /\ UNCHANGED <<txs, final, heard, queue, job, mem, crashes>>

\* Players are written; a full walk then reads the Referral rows that differ
\* from them.
SweepPlayers ==
  LET rows == Upserted(db.rows, sweep.todo) IN
  /\ sweep.pc = "players"
  /\ db' = [db EXCEPT !.rows = rows, !.byLog = @ \ CaughtUp(sweep)]
  /\ sweep' = [sweep EXCEPT !.pc = "reconcile", !.todo = {},
       !.plan = [p \in Owners |->
                   IF /\ sweep.full /\ p \in db.bound /\ rows[p] > 0
                      /\ PrincipalAt(p, rows[p]) # db.referral[p]
                   THEN PrincipalAt(p, rows[p]) ELSE -1]]
  /\ UNCHANGED <<txs, final, heard, queue, job, mem, crashes>>

\* Mutant: absence is not noticed.
Absent_none == {}

\* Positions a full walk deletes: not seen, and not known to the log path.
Absent == IF sweep.full THEN {q \in Positions : sweep.got[q] = 0 /\ mem.fresh[q] < 0} ELSE {}

\* The drifted Referral rows get the Principal that was read. Then the Positions
\* are put together; one whose Round the walk did not report is passed over.
SweepReconcile ==
  /\ sweep.pc = "reconcile"
  /\ db' = [db EXCEPT !.referral = [p \in Owners |->
              IF sweep.plan[p] >= 0 THEN sweep.plan[p] ELSE @[p]]]
  /\ sweep' = [sweep EXCEPT !.pc = "positions", !.plan = NoSweep.plan,
       !.todo = {q \in Fresh(sweep, Positions) : sweep.got[q[2]] > 0} \cup Absent]
  /\ UNCHANGED <<txs, final, heard, queue, job, mem, crashes>>

\* The last transaction of the sweep, and what it remembers: the slot it was
\* consistent as of, and only the log-path writes still ahead of it.
SweepPositions ==
  /\ sweep.pc = "positions"
  /\ db' = [db EXCEPT !.rows = Upserted(@, sweep.todo), !.byLog = @ \ CaughtUp(sweep)]
  /\ mem' = [mem EXCEPT !.synced = sweep.slot,
       !.fresh = [a \in Accounts |-> IF @[a] <= sweep.slot THEN -1 ELSE @[a]]]
  /\ sweep' = [NoSweep EXCEPT !.pc = "list"]
  /\ UNCHANGED <<txs, final, heard, queue, job, crashes>>

\* catchUpEvents lists the finalized signatures after the cursor, page by page
\* from the newest back, and queues them as one task.
CatchUpList ==
  /\ sweep.pc = "list"
  /\ queue' = Append(queue, [kind |-> "backlog",
                             slots |-> [i \in 1..(final - db.cursor) |-> db.cursor + i]])
  /\ sweep' = [sweep EXCEPT !.pc = "catchup", !.slot = final]
  /\ UNCHANGED <<txs, final, heard, job, mem, db, crashes>>

-----------------------------------------------------------------------------
FreshMem == [fresh |-> [a \in Accounts |-> -1], synced |-> -1, v2Unsupported |-> FALSE]

\* The process dies and boots again: only Postgres survives, and what was
\* announced meanwhile is lost.
Crash ==
  /\ crashes < MaxCrashes
  /\ crashes' = crashes + 1
  /\ queue' = <<>> /\ job' = NoJob /\ sweep' = NoSweep /\ mem' = FreshMem
  /\ heard' = [confirmed |-> Now, finalized |-> final]
  /\ UNCHANGED <<txs, final, db>>

Init ==
  /\ txs \in Genesis /\ final = Now /\ crashes = 0
  /\ heard = [confirmed |-> Now, finalized |-> Now]
  /\ queue = <<>> /\ job = NoJob /\ sweep = NoSweep /\ mem = FreshMem
  /\ db = [rows |-> [a \in Accounts |-> 0], closed |-> {}, events |-> {}, cursor |-> 0,
           stamp |-> 0, codes |-> {}, bound |-> {}, referral |-> [p \in Owners |-> 0],
           applied |-> [i \in Slots |-> 0], byLog |-> {}]

-----------------------------------------------------------------------------
ChainNext == Finalize \/ \E op \in TxKinds, a \in Accounts : Transact(op, a)
QueueNext ==
  \/ RefreshRead \/ ApplyAccount \/ NoteFresh \/ RefreshDone
  \/ LiveIngest \/ CatchUpStep \/ CatchUpDone
SweepNext ==
  \/ SweepFetch \/ SweepPage \/ SweepFail \/ SweepWithoutV2 \/ RetryV2 \/ SweepRounds
  \/ SweepClose \/ SweepPlayers \/ SweepReconcile \/ SweepPositions
  \/ CatchUpList
SocketNext == \E level \in {"confirmed", "finalized"} : Deliver(level) \/ Lose(level)

Next == ChainNext \/ SocketNext \/ QueueNext \/ SweepNext \/ Crash \/ \E p \in Owners : bindReferral(p)

Spec == Init /\ [][Next]_vars

-----------------------------------------------------------------------------
TypeOK ==
  /\ final \in 0..Now /\ Now <= MaxSlot
  /\ heard \in [{"confirmed", "finalized"} -> 0..Now]
  /\ mem.fresh \in [Accounts -> -1..MaxSlot] /\ mem.synced \in -1..Now
  /\ db.rows \in [Accounts -> 0..Now]
  /\ db.closed \subseteq Rounds /\ db.events \subseteq 1..Now
  /\ db.cursor \in 0..final /\ db.stamp \in 0..final
  /\ db.referral \in [Owners -> 0..MaxSlot]

\* "The cursor never jumps ahead of a signature the catch-up walk has not
\* confirmed" (persist): whatever is lost, replayed or unreadable, and wherever
\* the process dies, every event at or before the cursor is stored.
CursorSound ==
  \A i \in 1..db.cursor : Emits(txs[i]) => i \in db.events

\* A Principal delta reaches a Referral row at most once, although the live
\* socket, catch-up and every restart may hand over the same transaction.
DeltaOnce == \A i \in 1..Now : db.applied[i] <= 1

\* Event ingest neither loses an event behind the cursor nor counts one twice.
StoreSound == CursorSound /\ DeltaOnce

\* lastSyncedSlot (indexer.service.ts:229) is what the next incremental walk
\* starts from, so a row must be at least as new as the chain was there, or
\* be the log path's: an incremental walk never asks for anything older again.
SyncedSound ==
  \A a \in Owners \cup Rounds :
    mem.synced >= 0 /\ Exists(a, mem.synced) /\ a \notin db.byLog
      => db.rows[a] >= LastTouch(a, mem.synced)

\* "Every write below skips an account the log path has already written from
\* a newer slot than this walk's snapshot ... without this a sweep would undo
\* the live path's work" (indexer.service.ts:848): no such row goes back.
SweepWrites == SweepRounds \/ SweepPlayers \/ SweepPositions
WritingNewer(a) == job.written /\ a = NextToApply /\ Head(queue).slots[1] > sweep.slot
KeepsNewerRows ==
  [][SweepWrites => \A a \in sweep.todo :
       behindLogPath(a, sweep.slot) \/ WritingNewer(a) => db'.rows[a] >= db.rows[a]]_vars

\* The mirror agrees with the chain.
InStep ==
  /\ \A p \in Owners : db.rows[p] = LastTouch(p, Now)
  /\ \A r \in Rounds : IF Exists(r, Now) THEN db.rows[r] = LastTouch(r, Now)
                        ELSE db.rows[r] > 0 => r \in db.closed
  /\ \A q \in Positions : db.rows[q] = IF Exists(q, Now) THEN LastTouch(q, Now) ELSE 0
  /\ \A p \in db.bound : db.referral[p] = PrincipalAt(p, LastTouch(p, Now))
  /\ db.cursor = Now

\* Once the chain is quiet, the mirror ends up in step with it and stays so,
\* however the three writers overtook each other before.
Converges == <>[]InStep

\* The clock, finality and the RPC keep going: every step of the queue and of a
\* running sweep is taken, a finalized transaction's logs are readable in the
\* end, and full walks of an index that has caught up recur. Nothing is assumed
\* of the socket: it may deliver or lose anything, at any time.
GoodFetch == SweepFetch /\ sweep'.full /\ sweep'.slot = Now
GoodPage  == SweepPage /\ sweep'.pc = "rounds"
GoodStep  == CatchUpStep /\ db'.cursor # db.cursor

Fairness ==
  /\ WF_vars(Finalize)
  /\ WF_vars(RefreshRead) /\ WF_vars(ApplyAccount) /\ WF_vars(NoteFresh) /\ WF_vars(RefreshDone)
  /\ WF_vars(LiveIngest) /\ WF_vars(CatchUpStep) /\ WF_vars(CatchUpDone) /\ SF_vars(GoodStep)
  /\ WF_vars(SweepFetch) /\ SF_vars(GoodFetch) /\ WF_vars(SweepPage) /\ SF_vars(GoodPage)
  /\ WF_vars(SweepRounds) /\ WF_vars(SweepClose)
  /\ WF_vars(SweepPlayers) /\ WF_vars(SweepReconcile)
  /\ WF_vars(SweepPositions) /\ WF_vars(CatchUpList)

LiveSpec == Spec /\ Fairness

=============================================================================
