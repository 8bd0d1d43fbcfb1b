--------------------------- MODULE ServicesSafety ---------------------------
(***************************************************************************)
(* Safety theorems of the backend's services: what the mirror may be       *)
(* relied on for, although three writers overtake each other, any          *)
(* notification may be lost and the process may die anywhere; and that     *)
(* the referral grants stay what the recorded rows say, whatever was       *)
(* sent, lost or resent; that the operator looks again in time, and that   *)
(* it closes a registration only when nobody is missing from it.           *)
(***************************************************************************)
EXTENDS Indexer, Referrals, Operator, TotalsTheory, FiniteSetTheorems, SequenceTheorems, WellFoundedInduction, TLAPS

-----------------------------------------------------------------------------
(* The chain: the last transaction that touched an account.                 *)

TouchesBy(a, s) == {i \in 1..s : Touches(txs[i], a)}

\* LastTouch is the greatest slot that touched the account, 0 if none did.
LEMMA LatestTouch ==
  ASSUME NEW a, NEW s \in Nat
  PROVE  /\ LastTouch(a, s) \in 0..s
         /\ LastTouch(a, s) > 0 => LastTouch(a, s) \in TouchesBy(a, s)
         /\ \A j \in TouchesBy(a, s) : j <= LastTouch(a, s)
<1> DEFINE at == TouchesBy(a, s)
<1>1. LastTouch(a, s) = IF at = {} THEN 0 ELSE CHOOSE i \in at : \A j \in at : j <= i
  BY DEF LastTouch, TouchesBy
<1>2. CASE at = {}
  BY <1>1, <1>2
<1>3. CASE at # {}
  <2> DEFINE back == {s - i : i \in at}
  <2>1. at \subseteq 1..s
    BY DEF TouchesBy
  <2>2. back \subseteq Nat /\ back # {}
    BY <1>3, <2>1
  <2> HIDE DEF back
  <2>3. PICK d \in back : \A e \in back : <<e, d>> \notin OpToRel(<, Nat)
    BY <2>2, NatLessThanWellFounded, WFMin
  <2>4. PICK i \in at : d = s - i
    BY <2>3 DEF back
  <2>5. \A j \in at : j <= i
    <3> SUFFICES ASSUME NEW j \in at PROVE j <= i
      OBVIOUS
    <3>1. s - j \in back /\ s - j \in Nat /\ d \in Nat
      BY <2>1, <2>2, <2>3 DEF back
    <3>2. ~(s - j < d)
      BY <2>3, <3>1 DEF OpToRel
    <3>. QED BY <2>1, <2>4, <3>2
  <2>6. LastTouch(a, s) \in at /\ \A j \in at : j <= LastTouch(a, s)
    BY <1>1, <1>3, <2>4, <2>5
  <2>. QED BY <2>1, <2>6
<1>. QED BY <1>2, <1>3

\* Later slots know every earlier touch, and what was not touched since is
\* known the same.
LEMMA TouchedSince ==
  ASSUME NEW a, NEW s \in Nat, NEW t \in Nat, s <= t
  PROVE  /\ LastTouch(a, s) \in Nat /\ LastTouch(a, t) \in Nat
         /\ LastTouch(a, s) <= s /\ LastTouch(a, t) <= t
         /\ LastTouch(a, s) <= LastTouch(a, t)
         /\ LastTouch(a, t) <= s => LastTouch(a, t) = LastTouch(a, s)
<1>1. /\ LastTouch(a, s) \in 0..s /\ LastTouch(a, t) \in 0..t
      /\ LastTouch(a, s) > 0 => LastTouch(a, s) \in TouchesBy(a, s)
      /\ LastTouch(a, t) > 0 => LastTouch(a, t) \in TouchesBy(a, t)
      /\ \A j \in TouchesBy(a, s) : j <= LastTouch(a, s)
      /\ \A j \in TouchesBy(a, t) : j <= LastTouch(a, t)
  BY LatestTouch
<1>2. TouchesBy(a, s) \subseteq TouchesBy(a, t)
  BY DEF TouchesBy
<1>3. LastTouch(a, t) <= s /\ LastTouch(a, t) > 0 => LastTouch(a, t) \in TouchesBy(a, s)
  BY <1>1 DEF TouchesBy
<1>4. LastTouch(a, s) <= LastTouch(a, t)
  BY <1>1, <1>2
<1>5. LastTouch(a, t) <= s => LastTouch(a, t) <= LastTouch(a, s)
  BY <1>1, <1>3
<1>. QED BY <1>1, <1>4, <1>5

\* A transaction more changes nothing about the slots before it.
LEMMA PastKept ==
  ASSUME txs \in Seq(Transactions), NEW t \in Transactions, txs' = Append(txs, t)
  PROVE  /\ txs' \in Seq(Transactions) /\ Now' = Now + 1 /\ Now \in Nat
         /\ \A i \in 1..Now : txs'[i] = txs[i]
         /\ \A a : \A s \in 0..Now : LastTouch(a, s)' = LastTouch(a, s) /\ Exists(a, s)' = Exists(a, s)
<1>1. /\ txs' \in Seq(Transactions) /\ Now' = Now + 1 /\ Now \in Nat
      /\ \A i \in 1..Now : txs'[i] = txs[i]
  BY AppendProperties, LenProperties DEF Now
<1>2. ASSUME NEW a, NEW s \in 0..Now
      PROVE  LastTouch(a, s)' = LastTouch(a, s) /\ Exists(a, s)' = Exists(a, s)
  <2>0. 1..s \subseteq 1..Now /\ 0..s \subseteq 0..Now /\ s \in Nat
    BY <1>1
  <2>1. {i \in 1..s : Touches(txs'[i], a)} = {i \in 1..s : Touches(txs[i], a)}
    <3>1. \A i \in 1..s : txs'[i] = txs[i]
      BY <1>1, <2>0
    <3>2. ASSUME NEW i \in 1..s PROVE Touches(txs'[i], a) <=> Touches(txs[i], a)
      BY <3>1 DEF Touches
    <3>. QED BY <3>2
  <2>2. LastTouch(a, s)' = LastTouch(a, s)
    <3> DEFINE Top(S) == IF S = {} THEN 0 ELSE CHOOSE i \in S : \A j \in S : j <= i
    <3>1. LastTouch(a, s) = Top({i \in 1..s : Touches(txs[i], a)})
      BY DEF LastTouch
    <3>2. LastTouch(a, s)' = Top({i \in 1..s : Touches(txs'[i], a)})
      BY DEF LastTouch
    <3>. HIDE DEF Top
    <3>. QED BY <2>1, <3>1, <3>2
  <2>3. LastTouch(a, s) \in 0..s
    BY <1>1, LatestTouch
  <2>4. LastTouch(a, s) > 0 => txs'[LastTouch(a, s)] = txs[LastTouch(a, s)]
    <3> SUFFICES ASSUME LastTouch(a, s) > 0 PROVE LastTouch(a, s) \in 1..Now
      BY <1>1
    <3>. QED BY <1>1, <2>3
  <2>. QED BY <2>2, <2>3, <2>4 DEF Exists
<1>. QED BY <1>1, <1>2

\* An owner's account is never closed.
LEMMA OwnersStay ==
  ASSUME txs \in Seq(Transactions), NEW p \in Owners, NEW s \in 0..Now
  PROVE  Exists(p, s) <=> LastTouch(p, s) > 0
<1>1. Now \in Nat /\ LastTouch(p, s) \in 0..s
  BY LatestTouch, LenProperties DEF Now
<1>2. SUFFICES ASSUME LastTouch(p, s) > 0 PROVE ~Closes(txs[LastTouch(p, s)], p)
  BY DEF Exists
<1>3. txs[LastTouch(p, s)] \in Transactions
  BY <1>1, <1>2, ElementOfSeq DEF Now
<1>. QED BY <1>3, KindsAssumption DEF Closes, Transactions, Named, Ops

-----------------------------------------------------------------------------
(* Types. A task's slots are on the chain and a row's data is no newer than *)
(* the chain; a job is that of the refresh at the head of the queue.        *)

Levels == {"confirmed", "finalized"}
Phases ==
  {"idle", "page", "rounds", "close", "players", "reconcile", "positions", "list", "catchup"}
Task == [kind: {"refresh", "live", "backlog"}, slots: Seq(Nat)]
SweepRec ==
  [pc: Phases, full: BOOLEAN, since: Int, slot: Nat, got: [Accounts -> Nat],
   todo: SUBSET Accounts, plan: [Owners -> Int]]
MemRec == [fresh: [Accounts -> Int], synced: Int, v2Unsupported: BOOLEAN]
StoreRec ==
  [rows: [Accounts -> Nat], closed: SUBSET Rounds, events: SUBSET Nat, cursor: Nat, stamp: Nat,
   codes: SUBSET Accounts, bound: SUBSET Owners, referral: [Owners -> Int],
   applied: [Slots -> Nat], byLog: SUBSET Accounts]

ChainType ==
  /\ txs \in Seq(Transactions) /\ Now <= MaxSlot
  /\ final \in 0..Now /\ heard \in [Levels -> Nat]

OnChain(task) ==
  /\ \A j \in 1..Len(task.slots) : task.slots[j] \in 1..Now
  /\ task.kind # "backlog" => Len(task.slots) = 1

QueueType == queue \in Seq(Task) /\ \A k \in 1..Len(queue) : OnChain(queue[k])

JobType ==
  /\ job = [read |-> job.read, todo |-> job.todo, got |-> job.got, written |-> job.written]
  /\ job.read \in BOOLEAN /\ job.written \in BOOLEAN /\ job.todo \subseteq Accounts
  /\ \A a \in job.todo : job.got[a] \in 0..Now
  /\ job.read \/ job.written => queue # <<>> /\ Head(queue).kind = "refresh"
  /\ job.written => job.todo # {}

\* Which accounts a phase of the sweep writes.
Target(pc) ==
  IF pc \in {"rounds", "close"} THEN Rounds
  ELSE IF pc = "players" THEN Owners
  ELSE IF pc = "positions" THEN Positions ELSE Accounts

SweepType ==
  /\ sweep \in SweepRec /\ sweep.slot <= Now /\ sweep.todo \subseteq Target(sweep.pc)
  /\ \A a \in Accounts : sweep.got[a] <= Now

MemType == mem \in MemRec /\ mem.synced <= Now

StoreType == db \in StoreRec /\ \A a \in Accounts : db.rows[a] <= Now

IndexerTypes == ChainType /\ QueueType /\ JobType /\ SweepType /\ MemType /\ StoreType

\* The head of a queue of tasks, and what is left without it.
LEMMA QueueHead ==
  ASSUME NEW q \in Seq(Task), q # <<>>
  PROVE  /\ Head(q) = q[1] /\ Head(q) \in Task /\ 1 \in 1..Len(q) /\ Len(q) \in Nat
         /\ Tail(q) \in Seq(Task) /\ Len(Tail(q)) = Len(q) - 1
         /\ \A k \in 1..Len(Tail(q)) : Tail(q)[k] = q[k + 1] /\ k + 1 \in 1..Len(q)
<1>1. Len(q) \in Nat /\ Len(q) # 0
  BY EmptySeq, LenProperties
<1>. QED BY <1>1, HeadTailProperties, ElementOfSeq

\* The queue after its head has been replaced.
LEMMA QueueSwap ==
  ASSUME NEW q \in Seq(Task), q # <<>>, NEW t \in Task
  PROVE  /\ <<t>> \o Tail(q) \in Seq(Task) /\ Len(<<t>> \o Tail(q)) = Len(q)
         /\ <<t>> \o Tail(q) # <<>> /\ Head(<<t>> \o Tail(q)) = t
         /\ \A k \in 1..Len(q) : (<<t>> \o Tail(q))[k] = (IF k = 1 THEN t ELSE q[k])
<1>1. /\ Tail(q) \in Seq(Task) /\ Len(Tail(q)) = Len(q) - 1 /\ Len(q) \in Nat /\ 1 \in 1..Len(q)
      /\ \A k \in 1..Len(Tail(q)) : Tail(q)[k] = q[k + 1]
  BY QueueHead
<1>2. <<t>> \in Seq(Task) /\ Len(<<t>>) = 1 /\ <<t>>[1] = t
  OBVIOUS
<1>. DEFINE r == <<t>> \o Tail(q)
<1>3. r \in Seq(Task) /\ Len(r) = Len(q)
      /\ \A k \in 1..Len(q) : r[k] = IF k <= 1 THEN <<t>>[k] ELSE Tail(q)[k - 1]
  BY <1>1, <1>2, ConcatProperties
<1>. HIDE DEF r
<1>4. \A k \in 1..Len(q) : r[k] = IF k = 1 THEN t ELSE q[k]
  <2> SUFFICES ASSUME NEW k \in 1..Len(q) PROVE r[k] = IF k = 1 THEN t ELSE q[k]
    OBVIOUS
  <2>1. CASE k = 1
    BY <1>2, <1>3, <2>1
  <2>2. CASE k # 1
    <3>1. k - 1 \in 1..Len(Tail(q)) /\ (k - 1) + 1 = k /\ ~(k <= 1)
      BY <1>1, <2>2
    <3>. QED BY <1>1, <1>3, <2>2, <3>1
  <2>. QED BY <2>1, <2>2
<1>5. r # <<>> /\ Head(r) = t
  <2>1. Len(r) # 0
    BY <1>1, <1>3
  <2>2. r # <<>>
    BY <2>1, EmptySeq, <1>3
  <2>. QED BY <1>1, <1>3, <1>4, <2>2, HeadTailProperties
<1>. QED BY <1>3, <1>4, <1>5 DEF r

\* The queue with one task more.
LEMMA QueueAppend ==
  ASSUME NEW q \in Seq(Task), NEW t \in Task
  PROVE  /\ Append(q, t) \in Seq(Task) /\ Len(Append(q, t)) = Len(q) + 1 /\ Len(q) \in Nat
         /\ Append(q, t) # <<>>
         /\ \A k \in 1..Len(q) : Append(q, t)[k] = q[k]
         /\ Append(q, t)[Len(q) + 1] = t
         /\ q # <<>> => Head(Append(q, t)) = Head(q)
<1>1. /\ Append(q, t) \in Seq(Task) /\ Len(Append(q, t)) = Len(q) + 1 /\ Len(q) \in Nat
      /\ \A k \in 1..Len(q) : Append(q, t)[k] = q[k]
      /\ Append(q, t)[Len(q) + 1] = t
  BY AppendProperties, LenProperties
<1>2. Append(q, t) # <<>>
  BY <1>1, EmptySeq
<1>3. q # <<>> => Head(Append(q, t)) = Head(q)
  BY <1>1, <1>2, QueueHead
<1>. QED BY <1>1, <1>2, <1>3

\* What a step leaves alone keeps its type.
LEMMA TypesKept ==
  ASSUME IndexerTypes, txs' = txs
  PROVE  /\ UNCHANGED <<final, heard>> => ChainType'
         /\ UNCHANGED queue => QueueType'
         /\ UNCHANGED job /\ (queue # <<>> => queue' # <<>> /\ Head(queue') = Head(queue)) => JobType'
         /\ UNCHANGED sweep => SweepType'
         /\ UNCHANGED mem => MemType'
         /\ UNCHANGED db => StoreType'
<1>1. Now' = Now /\ \A t : OnChain(t)' <=> OnChain(t)
  BY DEF Now, OnChain
<1>2. UNCHANGED <<final, heard>> => ChainType'
  BY <1>1 DEF IndexerTypes, ChainType
<1>3. UNCHANGED queue => QueueType'
  BY <1>1 DEF IndexerTypes, QueueType
<1>4. UNCHANGED job /\ (queue # <<>> => queue' # <<>> /\ Head(queue') = Head(queue)) => JobType'
  BY <1>1 DEF IndexerTypes, JobType
<1>5. UNCHANGED sweep => SweepType'
  BY <1>1 DEF IndexerTypes, SweepType
<1>6. UNCHANGED mem => MemType'
  BY <1>1 DEF IndexerTypes, MemType
<1>7. UNCHANGED db => StoreType'
  BY <1>1 DEF IndexerTypes, StoreType
<1>. QED BY <1>2, <1>3, <1>4, <1>5, <1>6, <1>7

\* The kinds of account are apart, and every slot of the chain is a slot.
LEMMA ChainFacts ==
  ASSUME ChainType
  PROVE  /\ Now \in Nat /\ final \in Nat /\ final <= Now
         /\ \A i \in 1..Now : txs[i] \in Transactions /\ i \in Slots /\ i \in Nat
  BY ElementOfSeq, LenProperties, IndexerAssumption DEF ChainType, Now, Slots

\* A read of the mirrored Principal is a number.
LEMMA PrincipalInt ==
  ASSUME ChainType, NEW p, NEW ver \in Nat, ver <= Now
  PROVE  PrincipalAt(p, ver) \in Int
<1>1. ver # 0 => ver \in 1..Now
  BY ChainFacts
<1>. QED BY <1>1, ChainFacts DEF PrincipalAt, Transactions

\* A transaction more is on the chain.
LEMMA TransactTypes ==
  ASSUME IndexerTypes, NEW op \in TxKinds, NEW a \in Accounts, Transact(op, a)
  PROVE  IndexerTypes' /\ \E t \in Transactions : txs' = Append(txs, t)
<1> DEFINE tx == [op |-> op, acct |-> a,
             principal |-> IF a \notin Owners THEN 0
                           ELSE PrincipalAt(a, LastTouch(a, Now)) + (IF op = "deposit" THEN 1 ELSE -1)]
<1>1. Now \in Nat /\ LastTouch(a, Now) \in Nat /\ LastTouch(a, Now) <= Now
  BY ChainFacts, LatestTouch DEF IndexerTypes
<1>2. PrincipalAt(a, LastTouch(a, Now)) \in Int
  BY <1>1, PrincipalInt DEF IndexerTypes
<1>3. a \in Named(op)
  BY KindsAssumption DEF Transact, Legal, Named, Ops
<1>4. tx \in Transactions
  BY <1>2, <1>3, KindsAssumption DEF Transactions
<1>5. txs' = Append(txs, tx)
  BY DEF Transact
<1> HIDE DEF tx
<1>6. txs' \in Seq(Transactions) /\ Now' = Now + 1
  BY <1>4, <1>5, PastKept DEF IndexerTypes, ChainType
<1>7. UNCHANGED <<final, heard, queue, job, sweep, mem, db>> /\ Now < MaxSlot
  BY DEF Transact
<1>8. ChainType'
  BY <1>1, <1>6, <1>7, IndexerAssumption DEF IndexerTypes, ChainType
<1>9. QueueType'
  <2>1. ASSUME NEW t, OnChain(t) PROVE OnChain(t)'
    BY <1>1, <1>6, <2>1 DEF OnChain
  <2>. QED BY <1>7, <2>1 DEF IndexerTypes, QueueType
<1>10. JobType'
  BY <1>1, <1>6, <1>7 DEF IndexerTypes, JobType
<1>11. SweepType' /\ MemType' /\ StoreType'
  <2>1. \A n \in Int : n <= Now => n <= Now'
    BY <1>1, <1>6
  <2>2. sweep.slot \in Int /\ (\A b \in Accounts : sweep.got[b] \in Int) /\ mem.synced \in Int
    BY DEF IndexerTypes, SweepType, SweepRec, MemType, MemRec
  <2>3. \A b \in Accounts : db.rows[b] \in Int
    BY DEF IndexerTypes, StoreType, StoreRec
  <2>. QED BY <1>7, <2>1, <2>2, <2>3 DEF IndexerTypes, SweepType, MemType, StoreType
<1>. QED BY <1>4, <1>5, <1>8, <1>9, <1>10, <1>11 DEF IndexerTypes

\* A notification queues the transaction it is about, or is dropped.
LEMMA DeliverTypes ==
  ASSUME IndexerTypes, NEW level \in Levels, Deliver(level)
  PROVE  IndexerTypes'
<1> DEFINE i == heard[level] + 1
           t == [kind |-> IF level = "confirmed" THEN "refresh" ELSE "live", slots |-> <<i>>]
<1>1. i \in 1..Now /\ i \in Nat
  BY ChainFacts DEF IndexerTypes, ChainType, Deliver, Levels
<1>2. t \in Task /\ t.slots = <<i>> /\ t.kind # "backlog"
  BY <1>1 DEF Task
<1>3. OnChain(t)
  BY <1>1, <1>2 DEF OnChain
<1>4. UNCHANGED <<txs, final, job, sweep, mem, db>> /\ heard' \in [Levels -> Nat]
      /\ (queue' = queue \/ queue' = Append(queue, t))
  BY <1>1 DEF Deliver, IndexerTypes, ChainType
<1> HIDE DEF i, t
<1>5. ChainType'
  BY <1>4 DEF IndexerTypes, ChainType, Now
<1>6. QueueType' /\ (queue # <<>> => queue' # <<>> /\ Head(queue') = Head(queue))
  <2>1. CASE queue' = Append(queue, t)
    <3>1. /\ queue' \in Seq(Task) /\ Len(queue') = Len(queue) + 1 /\ Len(queue) \in Nat
          /\ queue' # <<>>
          /\ \A k \in 1..Len(queue) : queue'[k] = queue[k]
          /\ queue'[Len(queue) + 1] = t
          /\ queue # <<>> => Head(queue') = Head(queue)
      BY <1>2, <2>1, QueueAppend DEF IndexerTypes, QueueType
    <3>2. \A k \in 1..Len(queue') : k \in 1..Len(queue) \/ k = Len(queue) + 1
      BY <3>1
    <3>3. \A k \in 1..Len(queue') : OnChain(queue'[k])
      BY <1>3, <3>1, <3>2 DEF IndexerTypes, QueueType
    <3>4. \A u : OnChain(u)' <=> OnChain(u)
      BY <1>4 DEF OnChain, Now
    <3>. QED BY <3>1, <3>3, <3>4 DEF QueueType
  <2>2. CASE queue' = queue
    BY <1>4, <2>2, TypesKept
  <2>. QED BY <1>4, <2>1, <2>2
<1>. QED BY <1>4, <1>5, <1>6, TypesKept DEF IndexerTypes

\* The account applied next is one of those that wait.
LEMMA NextIn ==
  ASSUME JobType, job.todo # {}
  PROVE  NextToApply \in job.todo /\ NextToApply \in Accounts
<1> DEFINE first == IF job.todo \cap Rounds # {} THEN Rounds
                    ELSE IF job.todo \cap Owners # {} THEN Owners ELSE Positions
<1>1. \E a \in job.todo : a \in first
  BY DEF JobType, Accounts
<1>2. NextToApply = CHOOSE a \in job.todo : a \in first
  BY DEF NextToApply
<1>. HIDE DEF first
<1>. QED BY <1>1, <1>2 DEF JobType

\* What the log path reads, applies and notes.
LEMMA LogPathTypes ==
  ASSUME IndexerTypes, RefreshRead \/ ApplyAccount \/ NoteFresh
  PROVE  IndexerTypes'
<1>0. UNCHANGED <<txs, final, heard, queue, sweep>> /\ Now' = Now
  BY DEF RefreshRead, ApplyAccount, NoteFresh, Now
<1>1. ASSUME RefreshRead PROVE JobType' /\ UNCHANGED <<mem, db>>
  <2>1. PICK r \in 0..Now :
           LET wanted == OpenRoundRow \cup EventAccounts(txs[Head(queue).slots[1]])
           IN job' = [NoJob EXCEPT !.read = TRUE, !.todo = wanted,
                        !.got = [a \in wanted |-> IF Exists(a, r) THEN LastTouch(a, r) ELSE 0]]
    BY <1>1 DEF RefreshRead
  <2> DEFINE wanted == OpenRoundRow \cup EventAccounts(txs[Head(queue).slots[1]])
             got == [a \in wanted |-> IF Exists(a, r) THEN LastTouch(a, r) ELSE 0]
  <2>2. OnChain(Head(queue)) /\ Head(queue).kind = "refresh" /\ queue # <<>>
    <3>1. queue \in Seq(Task) /\ queue # <<>> /\ Head(queue).kind = "refresh"
      BY <1>1 DEF RefreshRead, IndexerTypes, QueueType
    <3>. QED BY <3>1, QueueHead DEF IndexerTypes, QueueType
  <2>3. txs[Head(queue).slots[1]] \in Transactions
    BY <2>2, ChainFacts DEF OnChain, IndexerTypes
  <2>4. wanted \subseteq Accounts
    BY <2>3 DEF OpenRoundRow, EventAccounts, Transactions, Accounts, Positions
  <2>5. \A a \in wanted : got[a] \in 0..Now
    <3>1. \A a : LastTouch(a, r) \in 0..r
      BY LatestTouch, ChainFacts DEF IndexerTypes
    <3>. QED BY <3>1, ChainFacts DEF IndexerTypes
  <2>6. job' = [read |-> TRUE, todo |-> wanted, got |-> got, written |-> FALSE]
    BY <2>1 DEF NoJob
  <2> HIDE DEF wanted, got
  <2>. QED BY <1>0, <1>1, <2>2, <2>4, <2>5, <2>6 DEF JobType, RefreshRead
<1>2. ASSUME ApplyAccount PROVE JobType' /\ StoreType' /\ UNCHANGED mem
  <2> DEFINE a == NextToApply
  <2>1. a \in job.todo /\ a \in Accounts /\ job.got[a] \in 0..Now /\ job.got[a] \in Nat /\ job.got[a] <= Now
    BY <1>2, NextIn, ChainFacts DEF ApplyAccount, IndexerTypes, JobType
  <2> HIDE DEF a
  <2>2. CASE job' = [job EXCEPT !.todo = @ \ {a}] /\ UNCHANGED db
    BY <1>0, <1>2, <2>2, TypesKept DEF IndexerTypes, JobType, ApplyAccount
  <2>3. CASE job' = [job EXCEPT !.written = TRUE]
             /\ db' = [db EXCEPT !.rows[a] = job.got[a], !.byLog = @ \cup {a}]
    <3>1. JobType'
      BY <1>0, <1>2, <2>1, <2>3 DEF IndexerTypes, JobType, ApplyAccount
    <3>2. StoreType'
      BY <1>0, <2>1, <2>3 DEF IndexerTypes, StoreType, StoreRec
    <3>. QED BY <1>2, <3>1, <3>2 DEF ApplyAccount
  <2>. QED BY <1>2, <2>2, <2>3 DEF ApplyAccount, a
<1>3. ASSUME NoteFresh PROVE JobType' /\ StoreType' /\ MemType'
  <2> DEFINE a == NextToApply
  <2>1. a \in Accounts /\ queue # <<>> /\ Head(queue).kind = "refresh"
    BY <1>3, NextIn DEF NoteFresh, IndexerTypes, JobType
  <2>2. Head(queue).slots[1] \in Int
    BY <2>1, QueueHead DEF IndexerTypes, QueueType, OnChain
  <2>3. /\ mem' = [mem EXCEPT !.fresh[a] = Head(queue).slots[1]]
        /\ db' = [db EXCEPT !.byLog = @ \cup {a}]
        /\ job' = [job EXCEPT !.written = FALSE, !.todo = @ \ {a}]
    BY <1>3 DEF NoteFresh
  <2> HIDE DEF a
  <2>4. JobType'
    BY <1>0, <2>3 DEF IndexerTypes, JobType
  <2>5. StoreType'
    BY <1>0, <2>1, <2>3 DEF IndexerTypes, StoreType, StoreRec
  <2>6. MemType'
    BY <1>0, <2>1, <2>2, <2>3 DEF IndexerTypes, MemType, MemRec
  <2>. QED BY <2>4, <2>5, <2>6
<1>. QED BY <1>0, <1>1, <1>2, <1>3, TypesKept DEF IndexerTypes

\* A task that ends makes room for the next, and its job with it.
LEMMA DequeueTypes ==
  ASSUME IndexerTypes, txs' = txs, queue # <<>>, Dequeue
  PROVE  QueueType' /\ JobType'
<1>1. Now' = Now /\ \A u : OnChain(u)' <=> OnChain(u)
  BY DEF OnChain, Now
<1>2. QueueType'
  BY <1>1, QueueHead DEF IndexerTypes, QueueType, Dequeue
<1>3. JobType'
  BY DEF Dequeue, NoJob, JobType
<1>. QED BY <1>2, <1>3

\* persist keeps the store's type.
LEMMA PersistTypes ==
  ASSUME IndexerTypes, txs' = txs, NEW i \in 1..Now, NEW advance \in BOOLEAN, persist(i, advance)
  PROVE  StoreType'
<1> DEFINE tx == txs[i]
           events == IF Emits(tx) THEN db.events \cup {i} ELSE db.events
           applied == [db.applied EXCEPT ![i] = IF AppliesDelta(i) THEN @ + 1 ELSE @]
           rows == IF settledPosition(tx) THEN [db.rows EXCEPT ![tx.acct] = 0] ELSE db.rows
           closed == IF closedRound(tx) /\ db.rows[tx.acct] > 0 THEN db.closed \cup {tx.acct} ELSE db.closed
           codes == IF tx.op = "deposit" THEN db.codes \cup {tx.acct} ELSE db.codes
           referral == [p \in Owners |-> IF AppliesDelta(i) /\ p = tx.acct
                                         THEN nextPrincipal(db.referral[p], tx) ELSE db.referral[p]]
           cursor == IF advance /\ db.cursor <= i THEN i ELSE db.cursor
<1>1. tx \in Transactions /\ i \in Nat /\ i \in Slots /\ Now' = Now
  BY ChainFacts DEF IndexerTypes, Now
<1>2. db \in StoreRec /\ \A a \in Accounts : db.rows[a] <= Now
  BY DEF IndexerTypes, StoreType
<1>3. db' = [db EXCEPT !.events = events, !.applied = applied, !.rows = rows, !.closed = closed,
               !.codes = codes, !.referral = referral, !.cursor = cursor]
  BY <1>2 DEF persist, StoreRec
<1>4. events \in SUBSET Nat /\ cursor \in Nat /\ codes \in SUBSET Accounts
  BY <1>1, <1>2 DEF StoreRec, Transactions
<1>5. applied \in [Slots -> Nat]
  BY <1>1, <1>2 DEF StoreRec
<1>6. rows \in [Accounts -> Nat] /\ \A a \in Accounts : rows[a] <= Now
  BY <1>1, <1>2, ChainFacts DEF StoreRec, Transactions, IndexerTypes
<1>7. closed \in SUBSET Rounds
  BY <1>1, <1>2, KindsAssumption DEF StoreRec, Transactions, Named, closedRound
<1>8. referral \in [Owners -> Int]
  BY <1>1, <1>2 DEF StoreRec, Transactions, nextPrincipal, Max0, AppliesDelta
<1> HIDE DEF events, applied, rows, closed, codes, referral, cursor
<1>9. db' \in StoreRec /\ db'.rows = rows
  BY <1>2, <1>3, <1>4, <1>5, <1>6, <1>7, <1>8 DEF StoreRec
<1>. QED BY <1>1, <1>6, <1>9 DEF StoreType

\* The live path and catch-up persist what is on the chain.
LEMMA IngestTypes ==
  ASSUME IndexerTypes, LiveIngest \/ CatchUpStep \/ CatchUpDone
  PROVE  IndexerTypes'
<1>0. UNCHANGED <<txs, final, heard, mem>> /\ Now' = Now /\ queue # <<>>
  BY DEF LiveIngest, CatchUpStep, CatchUpDone, Now
<1>1. Head(queue) \in Task /\ OnChain(Head(queue))
  BY <1>0, QueueHead DEF IndexerTypes, QueueType
<1>2. ASSUME LiveIngest PROVE IndexerTypes'
  <2>1. Head(queue).slots[1] \in 1..Now
    BY <1>1, <1>2 DEF OnChain, LiveIngest
  <2>2. LiveAdvances \in BOOLEAN
    BY DEF LiveAdvances
  <2>3. db' = db \/ persist(Head(queue).slots[1], LiveAdvances)
    BY <1>2 DEF LiveIngest
  <2>4. StoreType'
    BY <1>0, <2>1, <2>2, <2>3, PersistTypes, TypesKept
  <2>5. Dequeue /\ sweep' = sweep
    BY <1>2 DEF LiveIngest
  <2>. QED BY <1>0, <2>4, <2>5, DequeueTypes, TypesKept DEF IndexerTypes
<1>3. ASSUME CatchUpStep PROVE IndexerTypes'
  <2> DEFINE slots == Head(queue).slots
  <2>1. slots \in Seq(Nat) /\ slots # <<>> /\ slots[1] \in 1..Now
    <3>1. slots \in Seq(Nat) /\ slots # <<>>
      BY <1>1, <1>3 DEF Task, CatchUpStep
    <3>2. 1 \in 1..Len(slots)
      BY <3>1, EmptySeq, LenProperties
    <3>. QED BY <1>1, <3>1, <3>2 DEF OnChain
  <2>2. PICK rest \in {Tail(slots), <<>>} :
          queue' = <<[Head(queue) EXCEPT !.slots = rest]>> \o Tail(queue)
    BY <1>3 DEF CatchUpStep, AfterUnreadable
  <2> DEFINE t == [Head(queue) EXCEPT !.slots = rest]
  <2>3. rest \in Seq(Nat) /\ \A j \in 1..Len(rest) : rest[j] \in 1..Now
    <3>1. CASE rest = <<>>
      BY <3>1, EmptySeq
    <3>2. CASE rest = Tail(slots)
      <4>1. Len(slots) \in Nat /\ rest \in Seq(Nat) /\ Len(rest) = Len(slots) - 1
            /\ \A j \in 1..Len(rest) : rest[j] = slots[j + 1]
        BY <2>1, <3>2, HeadTailProperties, LenProperties
      <4>2. \A j \in 1..Len(rest) : j + 1 \in 1..Len(slots)
        BY <4>1
      <4>. QED BY <1>1, <4>1, <4>2 DEF OnChain
    <3>. QED BY <3>1, <3>2
  <2>4. t \in Task /\ t.slots = rest /\ t.kind = "backlog"
    BY <1>1, <1>3, <2>3 DEF Task, CatchUpStep
  <2>5. OnChain(t)
    BY <2>3, <2>4 DEF OnChain
  <2>6. queue' = <<t>> \o Tail(queue) /\ queue \in Seq(Task)
    BY <2>2 DEF IndexerTypes, QueueType
  <2> HIDE DEF t, slots
  <2>7. /\ queue' \in Seq(Task) /\ Len(queue') = Len(queue)
        /\ \A k \in 1..Len(queue) : queue'[k] = (IF k = 1 THEN t ELSE queue[k])
    BY <1>0, <2>4, <2>6, QueueSwap
  <2>8. QueueType'
    <3>1. \A u : OnChain(u)' <=> OnChain(u)
      BY <1>0 DEF OnChain
    <3>. QED BY <2>5, <2>7, <3>1 DEF QueueType, IndexerTypes
  <2>9. ~job.read /\ ~job.written /\ UNCHANGED <<job, sweep>>
    BY <1>3 DEF IndexerTypes, JobType, CatchUpStep
  <2>10. JobType'
    BY <1>0, <2>9 DEF IndexerTypes, JobType
  <2>11. db' = db \/ persist(slots[1], TRUE)
    BY <1>3 DEF CatchUpStep, slots
  <2>12. StoreType'
    BY <1>0, <2>1, <2>11, PersistTypes, TypesKept
  <2>. QED BY <1>0, <2>8, <2>9, <2>10, <2>12, TypesKept DEF IndexerTypes
<1>4. ASSUME CatchUpDone PROVE IndexerTypes'
  <2>1. QueueType' /\ JobType'
    BY <1>0, <1>4, DequeueTypes DEF CatchUpDone
  <2>2. StoreType'
    BY <1>0, <1>4 DEF CatchUpDone, IndexerTypes, StoreType, StoreRec, SweepType, SweepRec
  <2>3. SweepType'
    <3>1. sweep' \in SweepRec /\ sweep'.slot = 0 /\ sweep'.got = sweep.got
          /\ sweep'.pc = "idle"
      BY <1>4 DEF CatchUpDone, IndexerTypes, SweepType, SweepRec, Phases
    <3>2. Now \in Nat
      BY ChainFacts DEF IndexerTypes
    <3>. QED BY <1>0, <3>1, <3>2 DEF IndexerTypes, SweepType, SweepRec, Target
  <2>. QED BY <1>0, <2>1, <2>2, <2>3, TypesKept DEF IndexerTypes
<1>. QED BY <1>2, <1>3, <1>4

\* What a walk reports is a slot no later than its own.
LEMMA ReportedSlot ==
  ASSUME NEW a, NEW x \in Nat, NEW since \in Int
  PROVE  Reported(a, x, since) \in 0..x
  BY LatestTouch DEF Reported

\* Rows written by a walk are of the chain.
LEMMA UpsertedTypes ==
  ASSUME SweepType, StoreType, NEW todo
  PROVE  /\ Upserted(db.rows, todo) \in [Accounts -> Nat]
         /\ \A a \in Accounts : Upserted(db.rows, todo)[a] <= Now
  BY DEF SweepType, SweepRec, StoreType, StoreRec, Upserted

\* A sweep under way stays one.
LEMMA SweepTypes ==
  ASSUME IndexerTypes, SweepNext
  PROVE  IndexerTypes'
<1>0. UNCHANGED <<txs, final, heard, job>> /\ Now' = Now /\ Now \in Nat
  BY ChainFacts
     DEF SweepNext, SweepFetch, SweepPage, SweepFail, SweepWithoutV2, RetryV2, SweepRounds,
         SweepClose, SweepPlayers, SweepReconcile, SweepPositions, CatchUpList, Now, IndexerTypes
<1>1. /\ NoSweep \in SweepRec /\ NoSweep.slot = 0 /\ \A a \in Accounts : NoSweep.got[a] = 0
      /\ NoSweep.todo \subseteq Target(NoSweep.pc)
      /\ [NoSweep EXCEPT !.pc = "list"] \in SweepRec
      /\ [NoSweep EXCEPT !.pc = "list"].slot = 0 /\ [NoSweep EXCEPT !.pc = "list"].got = NoSweep.got
      /\ [NoSweep EXCEPT !.pc = "list"].todo \subseteq Target("list")
      /\ [NoSweep EXCEPT !.pc = "list"].pc = "list"
  <2>1. NoSweep \in SweepRec /\ NoSweep.slot = 0 /\ \A a \in Accounts : NoSweep.got[a] = 0
    BY DEF NoSweep, SweepRec, Phases
  <2>2. NoSweep.todo = {}
    BY DEF NoSweep
  <2> DEFINE w == [NoSweep EXCEPT !.pc = "list"]
  <2>3. w \in SweepRec /\ w.slot = NoSweep.slot /\ w.got = NoSweep.got /\ w.todo = NoSweep.todo
        /\ w.pc = "list"
    BY <2>1 DEF SweepRec, Phases
  <2>. QED BY <2>1, <2>2, <2>3
<1>2. ASSUME NEW w \in SweepRec, w.slot <= Now, \A a \in Accounts : w.got[a] <= Now,
             w.todo \subseteq Target(w.pc), sweep' = w
      PROVE  SweepType'
  BY <1>0, <1>2 DEF SweepType
<1>3. ASSUME NEW w \in SweepRec
      PROVE  /\ Fetched(w) \in SweepRec /\ Fetched(w).slot = w.slot /\ Fetched(w).got = w.got
             /\ Fetched(w).todo \subseteq Target(Fetched(w).pc)
  <2>1. Fresh(w, Rounds) \subseteq Accounts /\ Fresh(w, Rounds) \subseteq Rounds
    BY DEF Fresh, Accounts
  <2>. QED BY <1>3, <2>1 DEF Fetched, SweepRec, Phases, Target
<1>4. \A a \in Accounts : \A x \in 0..Now : \A since \in Int :
        Reported(a, x, since) \in Nat /\ Reported(a, x, since) <= Now
  BY <1>0, ReportedSlot
<1>5. ASSUME SweepFetch PROVE SweepType'
  <2>1. PICK full \in BOOLEAN, x \in Max0(mem.synced)..Now :
         LET since == IF full THEN -1 ELSE mem.synced
             swept(kinds) == [NoSweep EXCEPT
               !.pc = "page", !.full = full, !.since = since, !.slot = x,
               !.got = [a \in Accounts |-> IF a \in kinds THEN Reported(a, x, since) ELSE 0]]
         IN sweep' = IF mem.v2Unsupported THEN Fetched(swept(Accounts)) ELSE swept(Rounds \cup Positions)
    BY <1>5 DEF SweepFetch
  <2>2. x \in 0..Now /\ x \in Nat /\ x <= Now
    BY <1>0 DEF Max0, IndexerTypes, MemType, MemRec
  <2> DEFINE since == IF full THEN -1 ELSE mem.synced
             got(kinds) == [a \in Accounts |-> IF a \in kinds THEN Reported(a, x, since) ELSE 0]
             swept(kinds) == [NoSweep EXCEPT !.pc = "page", !.full = full, !.since = since,
                                            !.slot = x, !.got = got(kinds)]
  <2>3. since \in Int
    BY DEF IndexerTypes, MemType, MemRec
  <2> HIDE DEF since
  <2>4. ASSUME NEW kinds
        PROVE  got(kinds) \in [Accounts -> Nat] /\ \A a \in Accounts : got(kinds)[a] <= Now
    <3>1. \A a \in Accounts : Reported(a, x, since) \in Nat /\ Reported(a, x, since) <= Now
      BY <1>4, <2>2, <2>3
    <3>. QED BY <1>0, <3>1
  <2> HIDE DEF got
  <2>5. ASSUME NEW kinds
        PROVE  /\ swept(kinds) \in SweepRec /\ swept(kinds).slot = x /\ swept(kinds).got = got(kinds)
               /\ swept(kinds).todo \subseteq Target(swept(kinds).pc)
    BY <1>1, <2>2, <2>3, <2>4 DEF SweepRec, Phases, Target
  <2>6. sweep' = Fetched(swept(Accounts)) \/ sweep' = swept(Rounds \cup Positions)
    BY <2>1 DEF since, got
  <2> HIDE DEF swept
  <2>. QED BY <1>2, <1>3, <2>2, <2>4, <2>5, <2>6
<1>6. ASSUME SweepPage PROVE SweepType'
  <2>1. PICK x \in 0..Now :
          \/ sweep' = NoSweep
          \/ sweep' = Fetched([sweep EXCEPT !.got = [a \in Accounts |->
                        IF a \in Owners THEN Reported(a, x, sweep.since) ELSE @[a]]])
    BY <1>6 DEF SweepPage
  <2> DEFINE got == [a \in Accounts |-> IF a \in Owners THEN Reported(a, x, sweep.since) ELSE sweep.got[a]]
             w == [sweep EXCEPT !.got = got]
  <2>2. got \in [Accounts -> Nat] /\ \A a \in Accounts : got[a] <= Now
    BY <1>4 DEF IndexerTypes, SweepType, SweepRec
  <2>3. sweep' = NoSweep \/ sweep' = Fetched(w)
    BY <2>1
  <2> HIDE DEF got
  <2>4. w \in SweepRec /\ w.slot = sweep.slot /\ w.got = got
    BY <2>2 DEF IndexerTypes, SweepType, SweepRec
  <2> HIDE DEF w
  <2>5. w.slot <= Now /\ NoSweep.slot <= Now /\ \A a \in Accounts : NoSweep.got[a] <= Now
    BY <1>0, <1>1, <2>4 DEF IndexerTypes, SweepType
  <2>. QED BY <1>1, <1>2, <1>3, <2>2, <2>3, <2>4, <2>5
<1>7. ASSUME SweepWithoutV2 PROVE SweepType' /\ MemType'
  <2>1. PICK x \in Max0(mem.synced)..Now :
          sweep' = Fetched([sweep EXCEPT !.slot = x, !.got = [a \in Accounts |-> Reported(a, x, -1)]])
    BY <1>7 DEF SweepWithoutV2
  <2>2. x \in 0..Now /\ x \in Nat /\ x <= Now
    BY <1>0 DEF Max0, IndexerTypes, MemType, MemRec
  <2> DEFINE got == [a \in Accounts |-> Reported(a, x, -1)]
             w == [sweep EXCEPT !.slot = x, !.got = got]
  <2>3. got \in [Accounts -> Nat] /\ \A a \in Accounts : got[a] <= Now
    BY <1>4, <2>2
  <2> HIDE DEF got
  <2>4. w \in SweepRec /\ w.slot = x /\ w.got = got
    BY <2>2, <2>3 DEF IndexerTypes, SweepType, SweepRec
  <2>5. sweep' = Fetched(w)
    BY <2>1 DEF got
  <2> HIDE DEF w
  <2>6. SweepType'
    BY <1>2, <1>3, <2>2, <2>3, <2>4, <2>5
  <2>. QED BY <1>0, <1>7, <2>6 DEF SweepWithoutV2, IndexerTypes, MemType, MemRec
<1>8. ASSUME SweepFail PROVE SweepType'
  BY <1>0, <1>1, <1>2, <1>8 DEF SweepFail
<1>9. ASSUME RetryV2 PROVE MemType'
  BY <1>0, <1>9 DEF RetryV2, IndexerTypes, MemType, MemRec
<1>10. ASSUME SweepRounds \/ SweepPlayers \/ SweepPositions
       PROVE  StoreType'
  <2>1. db' = [db EXCEPT !.rows = Upserted(@, sweep.todo), !.byLog = @ \ CaughtUp(sweep)]
    BY <1>10 DEF SweepRounds, SweepPlayers, SweepPositions
  <2>2. Upserted(db.rows, sweep.todo) \in [Accounts -> Nat]
        /\ \A a \in Accounts : Upserted(db.rows, sweep.todo)[a] <= Now
    BY UpsertedTypes DEF IndexerTypes
  <2>3. db' \in StoreRec /\ db'.rows = Upserted(db.rows, sweep.todo)
    BY <2>1, <2>2 DEF IndexerTypes, StoreType, StoreRec
  <2>. QED BY <1>0, <2>2, <2>3 DEF StoreType
\* Later phases change the plan and what is left to do.
<1>11. ASSUME NEW pc \in Phases, NEW todo \in SUBSET Accounts, todo \subseteq Target(pc),
              NEW plan \in [Owners -> Int],
              sweep' = [sweep EXCEPT !.pc = pc, !.todo = todo, !.plan = plan]
       PROVE  SweepType'
  <2>1. sweep' \in SweepRec /\ sweep'.slot = sweep.slot /\ sweep'.got = sweep.got
        /\ sweep'.todo \subseteq Target(sweep'.pc)
    BY <1>11 DEF IndexerTypes, SweepType, SweepRec
  <2>. QED BY <1>2, <2>1 DEF IndexerTypes, SweepType
<1>12. /\ Fresh(sweep, Owners) \subseteq Owners /\ Fresh(sweep, Positions) \subseteq Positions
       /\ Absent \subseteq Positions /\ sweep.plan \in [Owners -> Int]
       /\ Owners \subseteq Accounts /\ Rounds \subseteq Accounts /\ Positions \subseteq Accounts
       /\ Target("players") = Owners /\ Target("close") = Rounds
       /\ Target("positions") = Positions /\ Target("reconcile") = Accounts
  BY DEF Fresh, Absent, Accounts, IndexerTypes, SweepType, SweepRec, Target
<1>13. ASSUME SweepRounds PROVE SweepType'
  <2> DEFINE gone == {r \in Rounds : /\ db'.rows[r] > 0 /\ sweep.got[r] = 0
                                     /\ r \notin db.closed /\ ~behindLogPath(r, sweep.slot)}
  <2>1. \/ sweep' = [sweep EXCEPT !.pc = "close", !.todo = gone]
        \/ sweep' = [sweep EXCEPT !.pc = "players", !.todo = Fresh(sweep, Owners)]
    BY <1>13 DEF SweepRounds
  <2>2. gone \subseteq Rounds
    OBVIOUS
  <2> HIDE DEF gone
  <2>3. \/ sweep' = [sweep EXCEPT !.pc = "close", !.todo = gone, !.plan = sweep.plan]
        \/ sweep' = [sweep EXCEPT !.pc = "players", !.todo = Fresh(sweep, Owners), !.plan = sweep.plan]
    BY <2>1 DEF IndexerTypes, SweepType, SweepRec
  <2>. QED BY <1>11, <1>12, <2>2, <2>3 DEF Phases
<1>14. ASSUME SweepClose PROVE SweepType' /\ StoreType'
  <2>1. sweep' = [sweep EXCEPT !.pc = "players", !.todo = Fresh(sweep, Owners), !.plan = sweep.plan]
    BY <1>14 DEF SweepClose, IndexerTypes, SweepType, SweepRec
  <2>2. SweepType'
    BY <1>11, <1>12, <2>1 DEF Phases
  <2>3. sweep.todo \subseteq Rounds /\ db' = [db EXCEPT !.closed = @ \cup sweep.todo]
    BY <1>14 DEF SweepClose, IndexerTypes, SweepType, Target
  <2>4. StoreType'
    BY <1>0, <2>3 DEF IndexerTypes, StoreType, StoreRec
  <2>. QED BY <2>2, <2>4
<1>15. ASSUME SweepPlayers PROVE SweepType'
  <2> DEFINE rows == Upserted(db.rows, sweep.todo)
             plan == [p \in Owners |-> IF /\ sweep.full /\ p \in db.bound /\ rows[p] > 0
                                          /\ PrincipalAt(p, rows[p]) # db.referral[p]
                                       THEN PrincipalAt(p, rows[p]) ELSE -1]
  <2>1. sweep' = [sweep EXCEPT !.pc = "reconcile", !.todo = {}, !.plan = plan]
    BY <1>15 DEF SweepPlayers
  <2>2. \A p \in Owners : rows[p] \in Nat /\ rows[p] <= Now
    BY <1>12, UpsertedTypes DEF IndexerTypes
  <2> HIDE DEF rows
  <2>3. plan \in [Owners -> Int]
    BY <2>2, PrincipalInt DEF IndexerTypes
  <2> HIDE DEF plan
  <2>. QED BY <1>11, <1>12, <2>1, <2>3 DEF Phases
<1>16. ASSUME SweepReconcile PROVE SweepType' /\ StoreType'
  <2> DEFINE todo == {q \in Fresh(sweep, Positions) : sweep.got[q[2]] > 0} \cup Absent
             referral == [p \in Owners |-> IF sweep.plan[p] >= 0 THEN sweep.plan[p] ELSE db.referral[p]]
  <2>1. /\ db' = [db EXCEPT !.referral = referral]
        /\ sweep' = [sweep EXCEPT !.pc = "positions", !.plan = NoSweep.plan, !.todo = todo]
    BY <1>16 DEF SweepReconcile
  <2>2. todo \subseteq Positions /\ NoSweep.plan \in [Owners -> Int]
    BY <1>1, <1>12 DEF SweepRec
  <2>3. referral \in [Owners -> Int]
    BY <1>12 DEF IndexerTypes, StoreType, StoreRec
  <2> HIDE DEF todo, referral
  <2>4. SweepType'
    <3>1. sweep' = [sweep EXCEPT !.pc = "positions", !.todo = todo, !.plan = NoSweep.plan]
      BY <2>1 DEF IndexerTypes, SweepType, SweepRec
    <3>. QED BY <1>11, <1>12, <2>2, <3>1 DEF Phases
  <2>5. StoreType'
    BY <1>0, <2>1, <2>3 DEF IndexerTypes, StoreType, StoreRec
  <2>. QED BY <2>4, <2>5
<1>17. ASSUME SweepPositions PROVE SweepType' /\ MemType'
  <2>1. SweepType'
    <3> DEFINE w == [NoSweep EXCEPT !.pc = "list"]
    <3>1. sweep' = w
      BY <1>17 DEF SweepPositions
    <3>2. w \in SweepRec /\ w.slot <= Now /\ w.todo \subseteq Target(w.pc)
      BY <1>0, <1>1
    <3>3. \A a \in Accounts : w.got[a] <= Now
      BY <1>0, <1>1
    <3> HIDE DEF w
    <3>. QED BY <1>2, <3>1, <3>2, <3>3
  <2> DEFINE fresh == [a \in Accounts |-> IF mem.fresh[a] <= sweep.slot THEN -1 ELSE mem.fresh[a]]
  <2>2. mem' = [mem EXCEPT !.synced = sweep.slot, !.fresh = fresh]
    BY <1>17 DEF SweepPositions
  <2>3. fresh \in [Accounts -> Int]
    BY DEF IndexerTypes, MemType, MemRec
  <2> HIDE DEF fresh
  <2>4. mem' \in MemRec /\ mem'.synced = sweep.slot
    <3>1. sweep.slot \in Int
      BY DEF IndexerTypes, SweepType, SweepRec
    <3>2. mem \in MemRec
      BY DEF IndexerTypes, MemType
    <3>. QED BY <2>2, <2>3, <3>1, <3>2 DEF MemRec
  <2>. QED BY <1>0, <2>1, <2>4 DEF MemType, IndexerTypes, SweepType
<1>18. ASSUME CatchUpList PROVE SweepType' /\ QueueType' /\ JobType'
  <2> DEFINE slots == [i \in 1..(final - db.cursor) |-> db.cursor + i]
             t == [kind |-> "backlog", slots |-> slots]
  <2>1. queue' = Append(queue, t) /\ sweep' = [sweep EXCEPT !.pc = "catchup", !.slot = final]
    BY <1>18 DEF CatchUpList
  <2>2. final \in Nat /\ final <= Now /\ db.cursor \in Nat
    BY ChainFacts DEF IndexerTypes, StoreType, StoreRec
  <2>3. slots \in Seq(Nat) /\ \A j \in 1..Len(slots) : slots[j] \in 1..Now
    <3>1. CASE final - db.cursor \in Nat
      <4>1. slots \in Seq(Nat) /\ Len(slots) = final - db.cursor
        BY <2>2, <3>1, IsASeq
      <4>2. \A j \in 1..(final - db.cursor) : slots[j] = db.cursor + j
        OBVIOUS
      <4>3. \A j \in 1..(final - db.cursor) : db.cursor + j \in 1..Now
        BY <1>0, <2>2
      <4> HIDE DEF slots
      <4>. QED BY <4>1, <4>2, <4>3
    <3>2. CASE final - db.cursor \notin Nat
      <4>1. slots = <<>>
        BY <2>2, <3>2
      <4> HIDE DEF slots
      <4>2. slots \in Seq(Nat) /\ Len(slots) = 0
        BY <4>1, EmptySeq
      <4>. QED BY <4>2
    <3>. QED BY <3>1, <3>2
  <2> HIDE DEF slots
  <2>4. t \in Task /\ OnChain(t)
    BY <2>3 DEF Task, OnChain
  <2> HIDE DEF t
  <2>5. /\ queue' \in Seq(Task) /\ Len(queue') = Len(queue) + 1 /\ Len(queue) \in Nat
        /\ queue' # <<>>
        /\ \A k \in 1..Len(queue) : queue'[k] = queue[k]
        /\ queue'[Len(queue) + 1] = t
        /\ queue # <<>> => Head(queue') = Head(queue)
    BY <2>1, <2>4, QueueAppend DEF IndexerTypes, QueueType
  <2>6. QueueType'
    <3>1. \A k \in 1..Len(queue') : k \in 1..Len(queue) \/ k = Len(queue) + 1
      BY <2>5
    <3>2. \A u : OnChain(u)' <=> OnChain(u)
      BY <1>0 DEF OnChain
    <3>. QED BY <2>4, <2>5, <3>1, <3>2 DEF IndexerTypes, QueueType
  <2>7. sweep' \in SweepRec /\ sweep'.slot = final /\ sweep'.got = sweep.got
        /\ sweep'.pc = "catchup"
    BY <2>1, <2>2 DEF IndexerTypes, SweepType, SweepRec, Phases
  <2>8. SweepType'
    BY <1>0, <2>2, <2>7 DEF IndexerTypes, SweepType, SweepRec, Target
  <2>. QED BY <1>0, <2>5, <2>6, <2>8, TypesKept
<1>19. /\ UNCHANGED queue \/ CatchUpList
       /\ UNCHANGED mem \/ SweepWithoutV2 \/ RetryV2 \/ SweepPositions
       /\ UNCHANGED sweep \/ ~RetryV2
       /\ UNCHANGED db \/ SweepRounds \/ SweepPlayers \/ SweepPositions \/ SweepClose \/ SweepReconcile
  BY DEF SweepNext, SweepFetch, SweepPage, SweepFail, SweepWithoutV2, RetryV2, SweepRounds,
         SweepClose, SweepPlayers, SweepReconcile, SweepPositions, CatchUpList
<1>20. ChainType' /\ QueueType' /\ JobType'
  BY <1>0, <1>18, <1>19, TypesKept
<1>21. SweepType'
  BY <1>0, <1>5, <1>6, <1>7, <1>8, <1>13, <1>14, <1>15, <1>16, <1>17, <1>18, <1>19, TypesKept
     DEF SweepNext
<1>22. MemType'
  BY <1>0, <1>7, <1>9, <1>17, <1>19, TypesKept
<1>23. StoreType'
  BY <1>0, <1>10, <1>14, <1>16, <1>19, TypesKept
<1>. QED BY <1>20, <1>21, <1>22, <1>23 DEF IndexerTypes

\* Finality, what a subscription misses, the end of a refresh, and a new
\* referral.
LEMMA OtherTypes ==
  ASSUME IndexerTypes
  PROVE  /\ Finalize => IndexerTypes'
         /\ \A level \in Levels : Lose(level) => IndexerTypes'
         /\ RefreshDone => IndexerTypes'
         /\ \A p \in Owners : bindReferral(p) => IndexerTypes'
         /\ Crash => IndexerTypes'
         /\ UNCHANGED vars => IndexerTypes'
<1>0. Now \in Nat /\ final \in Nat
  BY ChainFacts DEF IndexerTypes
<1>1. ASSUME Finalize PROVE IndexerTypes'
  <2>1. ChainType'
    BY <1>0, <1>1 DEF Finalize, IndexerTypes, ChainType, Now
  <2>. QED BY <1>1, <2>1, TypesKept DEF Finalize, IndexerTypes
<1>2. ASSUME NEW level \in Levels, Lose(level) PROVE IndexerTypes'
  <2>1. ChainType'
    BY <1>0, <1>2 DEF Lose, IndexerTypes, ChainType, Now, Levels
  <2>. QED BY <1>2, <2>1, TypesKept DEF Lose, IndexerTypes
<1>3. ASSUME RefreshDone PROVE IndexerTypes'
  <2>1. QueueType' /\ JobType'
    BY <1>3, DequeueTypes DEF RefreshDone, IndexerTypes, JobType
  <2>. QED BY <1>3, <2>1, TypesKept DEF RefreshDone, IndexerTypes
<1>4. ASSUME NEW p \in Owners, bindReferral(p) PROVE IndexerTypes'
  <2>1. PrincipalAt(p, db.rows[p]) \in Int
    BY PrincipalInt DEF IndexerTypes, StoreType, StoreRec, Accounts
  <2>2. StoreType'
    BY <1>4, <2>1 DEF bindReferral, IndexerTypes, StoreType, StoreRec, Now
  <2>. QED BY <1>4, <2>2, TypesKept DEF bindReferral, IndexerTypes
<1>5. ASSUME Crash PROVE IndexerTypes'
  <2>0. UNCHANGED <<txs, final, db>> /\ Now' = Now
        /\ heard' = [confirmed |-> Now, finalized |-> final]
        /\ queue' = <<>> /\ job' = NoJob /\ sweep' = NoSweep /\ mem' = FreshMem
    BY <1>5 DEF Crash, Now
  <2>1. ChainType'
    BY <1>0, <2>0 DEF IndexerTypes, ChainType, Levels
  <2>2. QueueType' /\ JobType'
    BY <2>0, EmptySeq DEF QueueType, JobType, NoJob
  <2>3. SweepType'
    <3>1. NoSweep \in SweepRec /\ NoSweep.slot = 0 /\ NoSweep.todo = {}
          /\ \A a \in Accounts : NoSweep.got[a] = 0
      BY DEF NoSweep, SweepRec, Phases
    <3>. QED BY <1>0, <2>0, <3>1 DEF SweepType
  <2>4. MemType'
    BY <1>0, <2>0 DEF MemType, MemRec, FreshMem
  <2>5. StoreType'
    BY <2>0 DEF IndexerTypes, StoreType
  <2>. QED BY <2>1, <2>2, <2>3, <2>4, <2>5 DEF IndexerTypes
<1>6. ASSUME UNCHANGED vars PROVE IndexerTypes'
  BY <1>6, TypesKept DEF vars, IndexerTypes
<1>. QED BY <1>1, <1>2, <1>3, <1>4, <1>5, <1>6

LEMMA IndexerTypesStep == IndexerTypes /\ [Next]_vars => IndexerTypes'
<1> SUFFICES ASSUME IndexerTypes, [Next]_vars PROVE IndexerTypes'
  OBVIOUS
<1>1. CASE ChainNext
  BY <1>1, TransactTypes, OtherTypes DEF ChainNext
<1>2. CASE SocketNext
  BY <1>2, DeliverTypes, OtherTypes DEF SocketNext, Levels
<1>3. CASE QueueNext
  BY <1>3, LogPathTypes, IngestTypes, OtherTypes DEF QueueNext
<1>4. CASE SweepNext
  BY <1>4, SweepTypes
<1>5. CASE Crash \/ (\E p \in Owners : bindReferral(p)) \/ UNCHANGED vars
  BY <1>5, OtherTypes
<1>. QED BY <1>1, <1>2, <1>3, <1>4, <1>5 DEF Next

LEMMA IndexerTypesInit == Init => IndexerTypes
<1> SUFFICES ASSUME Init PROVE IndexerTypes
  OBVIOUS
<1>1. txs \in Seq(Transactions) /\ Now <= MaxSlot /\ Now \in Nat
  BY GenesisAssumption, LenProperties DEF Init, Now
<1>2. ChainType
  BY <1>1 DEF Init, ChainType, Levels
<1>3. QueueType /\ JobType
  BY EmptySeq DEF Init, QueueType, JobType, NoJob
<1>4. SweepType
  <2>1. NoSweep \in SweepRec /\ NoSweep.slot = 0 /\ NoSweep.todo = {}
        /\ \A a \in Accounts : NoSweep.got[a] = 0
    BY DEF NoSweep, SweepRec, Phases
  <2>. QED BY <1>1, <2>1 DEF SweepType, Init
<1>5. MemType
  BY <1>1 DEF Init, MemType, MemRec, FreshMem
<1>6. StoreType
  BY <1>1 DEF Init, StoreType, StoreRec
<1>. QED BY <1>2, <1>3, <1>4, <1>5, <1>6 DEF IndexerTypes

-----------------------------------------------------------------------------
(* Event ingest. What is queued of the backlog follows the cursor without a  *)
(* gap, and there is one backlog at most, while the sweep waits for it.       *)

Backlogs == {k \in 1..Len(queue) : queue[k].kind = "backlog"}

OneBacklog ==
  /\ Backlogs # {} => sweep.pc = "catchup"
  /\ \A k, l \in Backlogs : k = l

\* Each of a backlog's slots is the one after the one before it.
BacklogFollows ==
  \A k \in Backlogs : \A j \in 1..Len(queue[k].slots) : queue[k].slots[j] = db.cursor + j

\* A delta was applied only along with its event.
AppliedOnce ==
  \A i \in Slots : /\ db.applied[i] <= 1
                   /\ db.applied[i] > 0 => i \in db.events

StoreInv ==
  /\ IndexerTypes /\ OneBacklog /\ BacklogFollows /\ AppliedOnce
  /\ CursorSound /\ db.cursor <= Now

\* persist stores an event before it counts its delta or moves past it.
LEMMA PersistStores ==
  ASSUME IndexerTypes, txs' = txs, AppliedOnce, CursorSound, NEW i \in 1..Now, NEW advance \in BOOLEAN,
         advance => i = db.cursor + 1, persist(i, advance)
  PROVE  /\ AppliedOnce' /\ CursorSound'
         /\ db'.cursor = IF advance THEN i ELSE db.cursor
<1>0. i \in Nat /\ i \in Slots /\ db \in StoreRec /\ Now' = Now
  BY ChainFacts DEF IndexerTypes, StoreType, Now
<1>1. /\ db'.events = IF Emits(txs[i]) THEN db.events \cup {i} ELSE db.events
      /\ db'.applied = [db.applied EXCEPT ![i] = IF AppliesDelta(i) THEN @ + 1 ELSE @]
      /\ db'.cursor = IF advance /\ db.cursor <= i THEN i ELSE db.cursor
  BY <1>0 DEF persist, StoreRec
<1>2. db.cursor \in Nat /\ db.applied \in [Slots -> Nat]
  BY <1>0 DEF StoreRec
<1>3. db'.cursor = IF advance THEN i ELSE db.cursor
  BY <1>0, <1>1, <1>2
<1>4. AppliesDelta(i) => i \notin db.events /\ Emits(txs[i])
  BY DEF AppliesDelta, Emits, referralPrincipalEvents
<1>5. AppliedOnce'
  <2> SUFFICES ASSUME NEW j \in Slots
               PROVE  db'.applied[j] <= 1 /\ (db'.applied[j] > 0 => j \in db'.events)
    BY DEF AppliedOnce
  <2>1. db.applied[j] \in Nat /\ db.applied[j] <= 1 /\ (db.applied[j] > 0 => j \in db.events)
        /\ (j \in db.events => j \in db'.events)
    BY <1>1, <1>2 DEF AppliedOnce
  <2>2. CASE j = i /\ AppliesDelta(i)
    <3>1. db.applied[j] = 0
      BY <1>4, <2>1, <2>2
    <3>2. db'.applied[j] = 1 /\ j \in db'.events
      BY <1>0, <1>1, <1>2, <1>4, <2>2, <3>1
    <3>. QED BY <3>2
  <2>3. CASE ~(j = i /\ AppliesDelta(i))
    BY <1>0, <1>1, <1>2, <2>1, <2>3
  <2>. QED BY <2>2, <2>3
<1>6. CursorSound'
  <2> SUFFICES ASSUME NEW j \in 1..db'.cursor, Emits(txs[j]) PROVE j \in db'.events
    BY DEF CursorSound
  <2>1. j \in 1..db.cursor \/ j = i
    BY <1>0, <1>2, <1>3
  <2>. QED BY <1>1, <2>1 DEF CursorSound
<1>. QED BY <1>3, <1>5, <1>6

\* What the store holds of the events stays true while nothing is persisted.
LEMMA EventsKept ==
  ASSUME StoreInv, NEW t \in Transactions, UNCHANGED txs \/ txs' = Append(txs, t),
         UNCHANGED <<db.events, db.applied, db.cursor>>
  PROVE  AppliedOnce' /\ CursorSound' /\ db'.cursor <= Now'
<1>1. AppliedOnce'
  BY DEF StoreInv, AppliedOnce
<1>2. Now \in Nat /\ db.cursor \in Nat /\ db.cursor <= Now
  BY ChainFacts DEF StoreInv, IndexerTypes, StoreType, StoreRec
<1>3. (\A i \in 1..Now : txs'[i] = txs[i]) /\ (Now' = Now \/ Now' = Now + 1)
  BY PastKept DEF StoreInv, IndexerTypes, ChainType, Now
<1>4. \A i \in 1..db.cursor : i \in 1..Now
  BY <1>2
<1>. QED BY <1>1, <1>2, <1>3, <1>4 DEF StoreInv, CursorSound

\* The queue's backlog stays the one the sweep waits for.
LEMMA BacklogKept ==
  ASSUME StoreInv, UNCHANGED db.cursor,
         \/ UNCHANGED queue
         \/ \E t \in Task : t.kind # "backlog" /\ queue' = Append(queue, t)
         \/ queue # <<>> /\ Dequeue,
         UNCHANGED sweep.pc \/ sweep.pc # "catchup"
  PROVE  OneBacklog' /\ BacklogFollows'
<1>0. queue \in Seq(Task) /\ Len(queue) \in Nat
  BY LenProperties DEF StoreInv, IndexerTypes, QueueType
<1>1. Backlogs # {} => sweep'.pc = "catchup"
  BY DEF StoreInv, OneBacklog
<1>2. CASE UNCHANGED queue
  BY <1>1, <1>2 DEF StoreInv, OneBacklog, BacklogFollows, Backlogs
<1>3. ASSUME NEW t \in Task, t.kind # "backlog", queue' = Append(queue, t)
      PROVE  OneBacklog' /\ BacklogFollows'
  <2>1. /\ Len(queue') = Len(queue) + 1
        /\ \A k \in 1..Len(queue) : queue'[k] = queue[k]
        /\ queue'[Len(queue) + 1] = t
    BY <1>0, <1>3, QueueAppend
  <2>2. \A k \in 1..Len(queue') : k \in 1..Len(queue) \/ k = Len(queue) + 1
    BY <1>0, <2>1
  <2>3. \A k \in Backlogs' : k \in Backlogs /\ queue'[k] = queue[k]
    BY <1>3, <2>1, <2>2 DEF Backlogs
  <2>. QED BY <1>1, <2>3 DEF StoreInv, OneBacklog, BacklogFollows
<1>4. CASE queue # <<>> /\ Dequeue
  <2>1. /\ Len(queue') = Len(queue) - 1
        /\ \A k \in 1..Len(queue') : queue'[k] = queue[k + 1] /\ k + 1 \in 1..Len(queue)
    BY <1>0, <1>4, QueueHead DEF Dequeue
  <2>2. \A k \in Backlogs' : k \in Nat /\ k + 1 \in Backlogs /\ queue'[k] = queue[k + 1]
    BY <1>0, <2>1 DEF Backlogs
  <2>3. \A k, l \in Backlogs' : k = l
    BY <2>2 DEF StoreInv, OneBacklog
  <2>. QED BY <1>1, <2>2, <2>3 DEF StoreInv, OneBacklog, BacklogFollows
<1>. QED BY <1>2, <1>3, <1>4

\* Catch-up stores the transaction after the cursor and moves onto it, or
\* gives the rest up.
LEMMA CatchUpStores ==
  ASSUME StoreInv, CatchUpStep
  PROVE  StoreInv'
<1> DEFINE slots == Head(queue).slots
<1>0. /\ queue \in Seq(Task) /\ queue # <<>> /\ Len(queue) \in Nat /\ 1 \in 1..Len(queue)
      /\ Head(queue) = queue[1] /\ Head(queue) \in Task /\ OnChain(Head(queue))
      /\ UNCHANGED <<txs, sweep>> /\ Now' = Now /\ Now \in Nat /\ db.cursor \in Nat
      /\ slots # <<>> /\ Head(queue).kind = "backlog"
  <2>1. queue \in Seq(Task) /\ queue # <<>> /\ UNCHANGED <<txs, sweep>> /\ slots # <<>>
        /\ Head(queue).kind = "backlog"
    BY DEF StoreInv, IndexerTypes, QueueType, CatchUpStep
  <2>. QED BY <2>1, QueueHead, ChainFacts
           DEF StoreInv, IndexerTypes, QueueType, StoreType, StoreRec, Now
<1>1. 1 \in Backlogs /\ Backlogs = {1} /\ sweep.pc = "catchup"
  BY <1>0 DEF Backlogs, StoreInv, OneBacklog
<1>2. /\ slots \in Seq(Nat) /\ Len(slots) \in Nat /\ 1 \in 1..Len(slots) /\ slots[1] \in 1..Now
      /\ \A j \in 1..Len(slots) : slots[j] = db.cursor + j
      /\ Tail(slots) \in Seq(Nat) /\ Len(Tail(slots)) = Len(slots) - 1
      /\ \A j \in 1..Len(Tail(slots)) : Tail(slots)[j] = slots[j + 1] /\ j + 1 \in 1..Len(slots)
  <2>1. slots \in Seq(Nat)
    BY <1>0 DEF Task
  <2>2. Len(slots) \in Nat /\ 1 \in 1..Len(slots)
    BY <1>0, <2>1, EmptySeq, LenProperties
  <2>3. /\ Tail(slots) \in Seq(Nat) /\ Len(Tail(slots)) = Len(slots) - 1
        /\ \A j \in 1..Len(Tail(slots)) : Tail(slots)[j] = slots[j + 1]
    BY <1>0, <2>1, HeadTailProperties
  <2>. QED BY <1>0, <1>1, <2>1, <2>2, <2>3 DEF OnChain, StoreInv, BacklogFollows
\* The queue's only backlog is its head, whose slots are the rest.
<1>3. ASSUME NEW rest \in Seq(Nat), queue' = <<[Head(queue) EXCEPT !.slots = rest]>> \o Tail(queue),
             \A j \in 1..Len(rest) : rest[j] = db'.cursor + j
      PROVE  OneBacklog' /\ BacklogFollows'
  <2> DEFINE t == [Head(queue) EXCEPT !.slots = rest]
  <2>1. t \in Task /\ t.slots = rest
    BY <1>0 DEF Task
  <2>2. queue' = <<t>> \o Tail(queue)
    BY <1>3
  <2> HIDE DEF t
  <2>3. Len(queue') = Len(queue) /\ \A k \in 1..Len(queue) : queue'[k] = IF k = 1 THEN t ELSE queue[k]
    BY <1>0, <2>1, <2>2, QueueSwap
  <2>4. \A k \in Backlogs' : k = 1 /\ queue'[k] = t
    BY <1>0, <1>1, <2>3 DEF Backlogs
  <2>. QED BY <1>0, <1>1, <1>3, <2>1, <2>4 DEF OneBacklog, BacklogFollows
<1>4. IndexerTypes'
  BY IngestTypes DEF StoreInv
<1>5. CASE /\ persist(slots[1], TRUE)
           /\ queue' = <<[Head(queue) EXCEPT !.slots = Tail(slots)]>> \o Tail(queue)
  <2>1. AppliedOnce' /\ CursorSound' /\ db'.cursor = slots[1] /\ slots[1] = db.cursor + 1
    BY <1>0, <1>2, <1>5, PersistStores DEF StoreInv
  <2>2. \A j \in 1..Len(Tail(slots)) : Tail(slots)[j] = db'.cursor + j
    <3> SUFFICES ASSUME NEW j \in 1..Len(Tail(slots)) PROVE Tail(slots)[j] = db'.cursor + j
      OBVIOUS
    <3>1. Tail(slots)[j] = slots[j + 1] /\ j + 1 \in 1..Len(slots) /\ j \in Nat
      BY <1>2
    <3>2. slots[j + 1] = db.cursor + (j + 1)
      BY <1>2, <3>1
    <3>3. db'.cursor = db.cursor + 1
      BY <2>1
    <3>4. db.cursor \in Nat
      BY <1>0
    <3> HIDE DEF slots
    <3>. QED BY <3>1, <3>2, <3>3, <3>4
  <2>3. OneBacklog' /\ BacklogFollows'
    BY <1>2, <1>3, <1>5, <2>2
  <2>. QED BY <1>0, <1>2, <1>4, <2>1, <2>3 DEF StoreInv
<1>6. CASE /\ queue' = <<[Head(queue) EXCEPT !.slots = AfterUnreadable(slots)]>> \o Tail(queue)
           /\ UNCHANGED db
  <2>1. AfterUnreadable(slots) = <<>> /\ <<>> \in Seq(Nat) /\ Len(<<>>) = 0
    BY EmptySeq DEF AfterUnreadable
  <2>2. OneBacklog' /\ BacklogFollows'
    <3> DEFINE rest == AfterUnreadable(slots)
    <3>0. rest = <<>>
      BY <2>1
    <3>. HIDE DEF rest
    <3>1. rest \in Seq(Nat) /\ \A j \in 1..Len(rest) : rest[j] = db'.cursor + j
      <4>1. rest \in Seq(Nat) /\ Len(rest) = 0
        BY <3>0, EmptySeq
      <4>. QED BY <4>1
    <3>2. queue' = <<[Head(queue) EXCEPT !.slots = rest]>> \o Tail(queue)
      BY <1>6 DEF rest
    <3>. QED BY <1>3, <3>1, <3>2
  <2>. QED BY <1>0, <1>4, <1>6, <2>2 DEF StoreInv, AppliedOnce, CursorSound
<1>. QED BY <1>5, <1>6 DEF CatchUpStep

\* The listing queues what finality has reached after the cursor.
LEMMA ListStores ==
  ASSUME StoreInv, CatchUpList
  PROVE  StoreInv'
<1> DEFINE slots == [i \in 1..(final - db.cursor) |-> db.cursor + i]
           t == [kind |-> "backlog", slots |-> slots]
<1>0. /\ queue' = Append(queue, t) /\ sweep'.pc = "catchup" /\ UNCHANGED <<txs, db>>
      /\ queue \in Seq(Task) /\ Len(queue) \in Nat /\ final \in Nat /\ db.cursor \in Nat
  BY LenProperties, ChainFacts
     DEF CatchUpList, StoreInv, IndexerTypes, SweepType, SweepRec, QueueType, StoreType, StoreRec
<1>1. Backlogs = {}
  BY DEF CatchUpList, StoreInv, OneBacklog
<1>2. slots \in Seq(Nat) /\ \A j \in 1..Len(slots) : slots[j] = db.cursor + j
  <2>1. CASE final - db.cursor \in Nat
    <3>1. \A i \in 1..(final - db.cursor) : db.cursor + i \in Nat
      BY <1>0
    <3>2. slots \in Seq(Nat) /\ Len(slots) = final - db.cursor
      BY <2>1, <3>1, IsASeq
    <3>. QED BY <3>2
  <2>2. CASE final - db.cursor \notin Nat
    <3>1. slots = <<>>
      BY <1>0, <2>2
    <3> HIDE DEF slots
    <3>2. slots \in Seq(Nat) /\ Len(slots) = 0
      BY <3>1, EmptySeq
    <3>. QED BY <3>2
  <2>. QED BY <2>1, <2>2
<1> HIDE DEF slots
<1>3. t \in Task /\ t.slots = slots
  BY <1>2 DEF Task
<1> HIDE DEF t
<1>4. /\ Len(queue') = Len(queue) + 1
      /\ \A k \in 1..Len(queue) : queue'[k] = queue[k]
      /\ queue'[Len(queue) + 1] = t
  BY <1>0, <1>3, QueueAppend
<1>5. \A k \in Backlogs' : k = Len(queue) + 1 /\ queue'[k] = t
  <2>1. \A k \in 1..Len(queue') : k \in 1..Len(queue) \/ k = Len(queue) + 1
    BY <1>0, <1>4
  <2>. QED BY <1>1, <1>4, <2>1 DEF Backlogs
<1>6. OneBacklog' /\ BacklogFollows'
  BY <1>0, <1>2, <1>3, <1>5 DEF OneBacklog, BacklogFollows
<1>7. IndexerTypes'
  BY SweepTypes DEF StoreInv, SweepNext
<1>. QED BY <1>0, <1>6, <1>7 DEF StoreInv, AppliedOnce, CursorSound, Now

\* No step passes an event by or applies a delta again.
LEMMA StoreStep == StoreInv /\ [Next]_vars => StoreInv'
<1> SUFFICES ASSUME StoreInv, [Next]_vars PROVE StoreInv'
  OBVIOUS
<1>0. IndexerTypes' /\ IndexerTypes
  BY IndexerTypesStep DEF StoreInv
<1>1. ASSUME UNCHANGED <<db.events, db.applied, db.cursor>>, UNCHANGED txs
      PROVE  AppliedOnce' /\ CursorSound' /\ db'.cursor <= Now'
  BY <1>1 DEF StoreInv, AppliedOnce, CursorSound, Now
<1>2. ASSUME NEW op \in TxKinds, NEW a \in Accounts, Transact(op, a) PROVE StoreInv'
  <2>1. (\E t \in Transactions : txs' = Append(txs, t)) /\ UNCHANGED <<db, queue, sweep>>
    BY <1>0, <1>2, TransactTypes DEF Transact
  <2>. QED BY <1>0, <2>1, EventsKept, BacklogKept DEF StoreInv
<1>3. CASE Finalize \/ (\E level \in Levels : Lose(level)) \/ (\E p \in Owners : bindReferral(p))
           \/ RefreshRead \/ ApplyAccount \/ NoteFresh \/ UNCHANGED vars
  <2>1. UNCHANGED <<txs, queue, sweep, db.events, db.applied, db.cursor>>
    BY <1>0, <1>3
       DEF Finalize, Lose, bindReferral, RefreshRead, ApplyAccount, NoteFresh, vars, IndexerTypes,
           StoreType, StoreRec
  <2>. QED BY <1>0, <1>1, <2>1, BacklogKept DEF StoreInv
<1>4. ASSUME NEW level \in Levels, Deliver(level) PROVE StoreInv'
  <2> DEFINE i == heard[level] + 1
             t == [kind |-> IF level = "confirmed" THEN "refresh" ELSE "live", slots |-> <<i>>]
  <2>1. i \in Nat
    BY <1>0, <1>4 DEF IndexerTypes, ChainType
  <2>2. t \in Task /\ t.kind # "backlog"
    BY <2>1 DEF Task
  <2>3. UNCHANGED <<txs, sweep, db>> /\ (queue' = queue \/ queue' = Append(queue, t))
    BY <1>4 DEF Deliver
  <2> HIDE DEF t
  <2>. QED BY <1>0, <1>1, <2>2, <2>3, BacklogKept DEF StoreInv
<1>5. CASE RefreshDone
  <2>1. UNCHANGED <<txs, sweep, db>> /\ queue # <<>> /\ Dequeue
    BY <1>0, <1>5 DEF RefreshDone, IndexerTypes, JobType
  <2>. QED BY <1>0, <1>1, <2>1, BacklogKept DEF StoreInv
<1>6. CASE LiveIngest
  <2>1. Head(queue).slots[1] \in 1..Now
    <3>1. queue \in Seq(Task) /\ queue # <<>> /\ Head(queue).kind = "live"
      BY <1>0, <1>6 DEF LiveIngest, IndexerTypes, QueueType
    <3>2. OnChain(Head(queue))
      BY <1>0, <3>1, QueueHead DEF IndexerTypes, QueueType
    <3>. QED BY <3>1, <3>2 DEF OnChain
  <2>2. db' = db \/ persist(Head(queue).slots[1], LiveAdvances)
    BY <1>6 DEF LiveIngest
  <2>3. LiveAdvances = FALSE
    BY DEF LiveAdvances
  <2>4. UNCHANGED <<txs, sweep>> /\ queue # <<>> /\ Dequeue
    BY <1>6 DEF LiveIngest
  <2>5. AppliedOnce' /\ CursorSound' /\ db'.cursor = db.cursor
    <3>1. CASE db' = db
      BY <1>1, <2>4, <3>1
    <3>2. CASE persist(Head(queue).slots[1], FALSE)
      BY <2>1, <2>4, <3>2, PersistStores DEF StoreInv
    <3>. QED BY <2>2, <2>3, <3>1, <3>2
  <2>. QED BY <1>0, <2>4, <2>5, BacklogKept DEF StoreInv, Now
<1>7. CASE CatchUpDone
  <2>1. /\ UNCHANGED <<txs, db.events, db.applied, db.cursor>> /\ queue # <<>> /\ Dequeue
        /\ Head(queue).kind = "backlog"
    BY <1>0, <1>7 DEF CatchUpDone, IndexerTypes, StoreType, StoreRec
  \* It was the only one.
  <2>2. Backlogs' = {}
    <3>1. queue \in Seq(Task) /\ Len(queue) \in Nat
      BY <1>0, LenProperties DEF IndexerTypes, QueueType
    <3>2. /\ Head(queue) = queue[1] /\ 1 \in 1..Len(queue) /\ Len(queue') = Len(queue) - 1
          /\ \A k \in 1..Len(queue') : queue'[k] = queue[k + 1] /\ k + 1 \in 1..Len(queue)
      BY <2>1, <3>1, QueueHead DEF Dequeue
    <3>3. 1 \in Backlogs
      BY <2>1, <3>2 DEF Backlogs
    <3>4. \A k \in Backlogs' : k \in Nat /\ k # 0 /\ k + 1 \in Backlogs
      BY <3>1, <3>2 DEF Backlogs
    <3>. QED BY <3>3, <3>4 DEF StoreInv, OneBacklog
  <2>3. OneBacklog' /\ BacklogFollows'
    BY <2>2 DEF OneBacklog, BacklogFollows
  <2>. QED BY <1>0, <1>1, <2>1, <2>3 DEF StoreInv
<1>8. CASE SweepNext /\ ~CatchUpList
  <2>1. UNCHANGED <<txs, queue, db.events, db.applied, db.cursor>>
        /\ (UNCHANGED sweep \/ sweep.pc # "catchup")
    BY <1>0, <1>8
       DEF SweepNext, SweepFetch, SweepPage, SweepFail, SweepWithoutV2, RetryV2, SweepRounds,
           SweepClose, SweepPlayers, SweepReconcile, SweepPositions, IndexerTypes, StoreType, StoreRec
  <2>. QED BY <1>0, <1>1, <2>1, BacklogKept DEF StoreInv
<1>9. CASE Crash
  <2>1. UNCHANGED <<txs, db>> /\ queue' = <<>>
    BY <1>9 DEF Crash
  <2>2. Backlogs' = {}
    BY <2>1, EmptySeq DEF Backlogs
  <2>3. OneBacklog' /\ BacklogFollows'
    BY <2>2 DEF OneBacklog, BacklogFollows
  <2>. QED BY <1>0, <1>1, <2>1, <2>3 DEF StoreInv
<1>. QED BY <1>2, <1>3, <1>4, <1>5, <1>6, <1>7, <1>8, <1>9, CatchUpStores, ListStores
         DEF Next, ChainNext, SocketNext, QueueNext, SweepNext, Levels

LEMMA StoreInit == Init => StoreInv
<1> SUFFICES ASSUME Init PROVE StoreInv
  OBVIOUS
<1>1. IndexerTypes /\ Now \in Nat
  BY IndexerTypesInit, ChainFacts DEF IndexerTypes
<1>2. Backlogs = {}
  BY EmptySeq DEF Init, Backlogs
<1>3. AppliedOnce
  BY DEF Init, AppliedOnce
<1>4. db.cursor = 0
  BY DEF Init
<1>. QED BY <1>1, <1>2, <1>3, <1>4 DEF StoreInv, OneBacklog, BacklogFollows, CursorSound

\* persist: "the cursor never jumps ahead of a signature the catch-up walk has
\* not confirmed", and a Principal delta reaches a Referral row once: for any
\* number of accounts and transactions, whatever the socket loses, whatever is
\* unreadable or delivered twice, and wherever the process dies.
THEOREM EventsStoredOnce == Spec => []StoreSound
<1>1. StoreInv => StoreSound
  <2> SUFFICES ASSUME StoreInv, NEW i \in 1..Now PROVE db.applied[i] <= 1
    BY DEF StoreInv, StoreSound, DeltaOnce
  <2>1. i \in Slots
    BY ChainFacts DEF StoreInv, IndexerTypes
  <2>. QED BY <2>1 DEF StoreInv, AppliedOnce
<1>. QED BY <1>1, StoreInit, StoreStep, PTL DEF Spec

-----------------------------------------------------------------------------
(* The three writers of a row. What the log path did not write or note last  *)
(* comes from a walk, and is as new as the slot of the last walk finished.   *)

Mirrored == Owners \cup Rounds

\* The phases in which a walk is being read or written, and those that follow
\* the writing of the Rounds and of the Players.
Walking     == {"page", "rounds", "close", "players", "reconcile", "positions"}
RoundsDone  == {"close", "players", "reconcile", "positions"}
PlayersDone == {"reconcile", "positions"}

UpToDate(a, s) == Exists(a, s) /\ a \notin db.byLog => db.rows[a] >= LastTouch(a, s)

\* What a walk reports is as new as its slot; what it passes over has not
\* changed since the walk before.
Seen(a) ==
  /\ sweep.got[a] > 0 => sweep.got[a] >= LastTouch(a, sweep.slot)
  /\ sweep.got[a] = 0 /\ Exists(a, sweep.slot)
       => mem.synced >= 0 /\ LastTouch(a, sweep.slot) <= mem.synced

WalkTrue ==
  sweep.pc \in Walking =>
    /\ sweep.slot >= mem.synced
    /\ sweep.since \in {-1, mem.synced}
    /\ \A a \in Mirrored : a \in Rounds \/ sweep.pc # "page" => Seen(a)

\* The rows a walk does not choose to write are absent from it or the log
\* path's.
ChosenTrue ==
  sweep.pc \in {"rounds", "players"} =>
    \A a \in Target(sweep.pc) :
      /\ a \in sweep.todo => sweep.got[a] > 0
      /\ a \notin sweep.todo /\ sweep.got[a] > 0 => a \in db.byLog

\* A note outlives the log path's write only until the end of the walk that
\* overwrote it.
NotedTrue ==
  \A a \in Mirrored :
    a \notin db.byLog /\ mem.fresh[a] # -1
      => sweep.pc \in RoundsDone /\ mem.fresh[a] <= sweep.slot

WrittenTrue ==
  /\ sweep.pc \in RoundsDone => \A r \in Rounds : UpToDate(r, sweep.slot)
  /\ sweep.pc \in PlayersDone => \A p \in Owners : UpToDate(p, sweep.slot)

SyncedInv == StoreInv /\ WalkTrue /\ ChosenTrue /\ NotedTrue /\ WrittenTrue /\ SyncedSound

\* What the invariant speaks of has its type.
LEMMA SyncedFacts ==
  ASSUME IndexerTypes
  PROVE  /\ Now \in Nat /\ txs \in Seq(Transactions)
         /\ sweep.slot \in Nat /\ sweep.slot \in 0..Now
         /\ mem.synced \in Int /\ (mem.synced >= 0 => mem.synced \in 0..Now)
         /\ \A a \in Accounts : db.rows[a] \in Nat /\ sweep.got[a] \in Nat /\ mem.fresh[a] \in Int
         /\ Mirrored \subseteq Accounts /\ Mirrored \cap Positions = {}
  BY ChainFacts, KindsAssumption
     DEF IndexerTypes, ChainType, SweepType, SweepRec, MemType, MemRec, StoreType, StoreRec,
         Mirrored, Accounts

\* A walk at slot x has seen an account as of an earlier slot s, when x is s or
\* the account is of the kind that stays.
LEMMA ReportSeen ==
  ASSUME txs \in Seq(Transactions), NEW a, NEW s \in 0..Now, NEW x \in 0..Now, s <= x,
         x = s \/ a \in Owners, NEW since \in Int
  PROVE  /\ Reported(a, x, since) > 0 => Reported(a, x, since) >= LastTouch(a, s)
         /\ Reported(a, x, since) = 0 /\ Exists(a, s)
              => since > 0 /\ LastTouch(a, s) <= since
<1>0. Now \in Nat /\ s \in Nat /\ x \in Nat
  BY LenProperties DEF Now
<1>1. /\ LastTouch(a, s) \in Nat /\ LastTouch(a, x) \in Nat /\ LastTouch(a, s) <= LastTouch(a, x)
  BY <1>0, TouchedSince
<1>2. Exists(a, s) => Exists(a, x) /\ LastTouch(a, s) > 0
  <2>1. CASE x = s
    BY <2>1 DEF Exists
  <2>2. CASE a \in Owners
    BY <1>1, <2>2, OwnersStay DEF Exists
  <2>. QED BY <2>1, <2>2
<1>. QED BY <1>1, <1>2 DEF Reported

\* Whatever only adds to what the log path wrote last keeps the invariant.
LEMMA LogPathKeeps ==
  ASSUME SyncedInv, StoreInv', UNCHANGED <<txs, sweep, mem.synced>>,
         \A a \in db.byLog : a \in db'.byLog,
         \A a \in Mirrored : a \notin db'.byLog =>
           db'.rows[a] = db.rows[a] /\ mem'.fresh[a] = mem.fresh[a]
  PROVE  SyncedInv'
<1>1. \A a, s : Exists(a, s)' = Exists(a, s) /\ LastTouch(a, s)' = LastTouch(a, s)
  BY DEF Exists, LastTouch
<1>2. \A a \in Mirrored : \A s : UpToDate(a, s) => UpToDate(a, s)'
  BY <1>1 DEF UpToDate
<1>3. WalkTrue'
  BY <1>1 DEF SyncedInv, WalkTrue, Seen
<1>4. ChosenTrue' /\ NotedTrue'
  BY DEF SyncedInv, ChosenTrue, NotedTrue
<1>5. WrittenTrue'
  BY <1>2 DEF SyncedInv, WrittenTrue, Mirrored
<1>6. SyncedSound'
  BY <1>1, <1>2 DEF SyncedInv, SyncedSound, UpToDate, Mirrored
<1>. QED BY <1>3, <1>4, <1>5, <1>6 DEF SyncedInv

\* A transaction more leaves what was true at earlier slots.
LEMMA GrowthKeeps ==
  ASSUME SyncedInv, StoreInv', NEW t \in Transactions, txs' = Append(txs, t), UNCHANGED <<sweep, mem, db>>
  PROVE  SyncedInv'
<1>0. Now \in Nat /\ sweep.slot \in 0..Now /\ (mem.synced >= 0 => mem.synced \in 0..Now)
      /\ txs \in Seq(Transactions)
  BY SyncedFacts DEF SyncedInv, StoreInv
<1>1. \A a : \A s \in 0..Now : Exists(a, s)' = Exists(a, s) /\ LastTouch(a, s)' = LastTouch(a, s)
  BY <1>0, PastKept
<1>2. \A a : Exists(a, sweep.slot)' = Exists(a, sweep.slot)
             /\ LastTouch(a, sweep.slot)' = LastTouch(a, sweep.slot)
  BY <1>0, <1>1
<1>3. WalkTrue'
  BY <1>2 DEF SyncedInv, WalkTrue, Seen
<1>4. ChosenTrue' /\ NotedTrue'
  BY DEF SyncedInv, ChosenTrue, NotedTrue
<1>5. WrittenTrue'
  BY <1>2 DEF SyncedInv, WrittenTrue, UpToDate
<1>6. SyncedSound'
  BY <1>0, <1>1 DEF SyncedInv, SyncedSound
<1>. QED BY <1>3, <1>4, <1>5, <1>6 DEF SyncedInv

\* So does the end of a sweep that has written nothing yet or everything.
LEMMA SweepEndKeeps ==
  ASSUME SyncedInv, StoreInv', UNCHANGED <<txs, mem.synced, mem.fresh, db.rows, db.byLog>>,
         sweep.pc \notin RoundsDone, sweep'.pc \in {"idle", "list", "catchup"}
  PROVE  SyncedInv'
<1>1. \A a, s : Exists(a, s)' = Exists(a, s) /\ LastTouch(a, s)' = LastTouch(a, s)
  BY DEF Exists, LastTouch
<1>2. WalkTrue' /\ ChosenTrue' /\ WrittenTrue'
  BY DEF WalkTrue, ChosenTrue, WrittenTrue, Walking, RoundsDone, PlayersDone
<1>3. NotedTrue'
  BY DEF SyncedInv, NotedTrue
<1>4. SyncedSound'
  BY <1>1 DEF SyncedInv, SyncedSound
<1>. QED BY <1>2, <1>3, <1>4 DEF SyncedInv

\* A walk that begins or is complete has seen what it must, and no row is
\* written yet.
LEMMA WalkKeeps ==
  ASSUME SyncedInv, StoreInv', UNCHANGED <<txs, db, mem.synced, mem.fresh>>,
         sweep.pc \notin RoundsDone,
         sweep'.pc \in {"page", "rounds"}, sweep'.slot >= mem.synced,
         sweep'.since \in {-1, mem.synced},
         \A a \in Mirrored : a \in Rounds \/ sweep'.pc # "page" => Seen(a)',
         sweep'.pc = "rounds" => sweep'.todo = {a \in Rounds : sweep'.got[a] > 0
                                                  /\ ~behindLogPath(a, sweep'.slot)}
  PROVE  SyncedInv'
<1>1. \A a, s : Exists(a, s)' = Exists(a, s) /\ LastTouch(a, s)' = LastTouch(a, s)
  BY DEF Exists, LastTouch
<1>2. WalkTrue' /\ WrittenTrue'
  BY DEF WalkTrue, WrittenTrue, RoundsDone, PlayersDone
<1>3. NotedTrue'
  BY DEF SyncedInv, NotedTrue
<1>4. SyncedSound'
  BY <1>1 DEF SyncedInv, SyncedSound
<1>5. ChosenTrue'
  <2> SUFFICES ASSUME sweep'.pc = "rounds", NEW a \in Rounds, sweep'.got[a] > 0, a \notin sweep'.todo
               PROVE  a \in db.byLog
    BY DEF ChosenTrue, Target
  <2>0. sweep'.slot \in Nat
    BY DEF StoreInv, IndexerTypes, SweepType, SweepRec
  <2>1. mem.fresh[a] > sweep'.slot /\ sweep'.slot \in Nat
    BY <2>0 DEF behindLogPath
  <2>2. mem.fresh[a] # -1 /\ a \in Mirrored
    BY <2>1 DEF Mirrored
  <2>. QED BY <2>2 DEF SyncedInv, NotedTrue
<1>. QED BY <1>2, <1>3, <1>4, <1>5 DEF SyncedInv

\* The steps that read.
LEMMA ReadKeeps ==
  ASSUME SyncedInv, StoreInv', SweepFetch \/ SweepPage \/ SweepWithoutV2
  PROVE  SyncedInv'
<1>0. /\ Now \in Nat /\ txs \in Seq(Transactions) /\ sweep \in SweepRec /\ sweep.slot \in 0..Now
      /\ mem.synced \in Int /\ mem.synced <= Now /\ mem \in MemRec
      /\ UNCHANGED <<txs, db, mem.synced, mem.fresh>> /\ Now' = Now
      /\ sweep.pc \notin RoundsDone /\ Mirrored \subseteq Accounts
  <2>1. UNCHANGED <<txs, db, mem.synced, mem.fresh>> /\ sweep.pc \notin RoundsDone
    BY DEF SweepFetch, SweepPage, SweepWithoutV2, RoundsDone, SyncedInv, StoreInv, IndexerTypes,
           MemType, MemRec
  <2>2. Now' = Now
    BY <2>1 DEF Now
  <2>. QED BY <2>1, <2>2, SyncedFacts
           DEF SyncedInv, StoreInv, IndexerTypes, SweepType, MemType
<1>1. \A a, s : Exists(a, s)' = Exists(a, s) /\ LastTouch(a, s)' = LastTouch(a, s)
  BY <1>0 DEF Exists, LastTouch
\* A walk w put together from reports at its slot, or later for the owners.
<1>2. ASSUME NEW w \in SweepRec, w.slot \in 0..Now, NEW a \in Accounts, NEW x \in 0..Now, w.slot <= x,
             x = w.slot \/ a \in Owners, NEW since \in {-1, mem.synced},
             w.got[a] = Reported(a, x, since), sweep'.slot = w.slot, sweep'.got = w.got
      PROVE  Seen(a)'
  <2>1. /\ Reported(a, x, since) > 0 => Reported(a, x, since) >= LastTouch(a, w.slot)
        /\ Reported(a, x, since) = 0 /\ Exists(a, w.slot)
             => since > 0 /\ LastTouch(a, w.slot) <= since
    BY <1>0, <1>2, ReportSeen
  <2>2. since > 0 => since = mem.synced /\ mem.synced >= 0
    BY <1>0, <1>2
  <2>. QED BY <1>0, <1>1, <1>2, <2>1, <2>2 DEF Seen
<1>3. ASSUME NEW w \in SweepRec, sweep' = Fetched(w)
      PROVE  /\ sweep'.pc = "rounds" /\ sweep'.slot = w.slot /\ sweep'.got = w.got
             /\ sweep'.since = w.since
             /\ sweep'.todo = {a \in Rounds : sweep'.got[a] > 0 /\ ~behindLogPath(a, sweep'.slot)}
  <2>1. /\ sweep'.pc = "rounds" /\ sweep'.slot = w.slot /\ sweep'.got = w.got
        /\ sweep'.since = w.since /\ sweep'.todo = Fresh(w, Rounds)
    BY <1>3 DEF Fetched, SweepRec
  <2>. QED BY <2>1 DEF Fresh
<1>4. CASE SweepFetch
  <2>1. PICK full \in BOOLEAN, x \in Max0(mem.synced)..Now :
         LET since == IF full THEN -1 ELSE mem.synced
             swept(kinds) == [NoSweep EXCEPT
               !.pc = "page", !.full = full, !.since = since, !.slot = x,
               !.got = [a \in Accounts |-> IF a \in kinds THEN Reported(a, x, since) ELSE 0]]
         IN sweep' = IF mem.v2Unsupported THEN Fetched(swept(Accounts)) ELSE swept(Rounds \cup Positions)
    BY <1>4 DEF SweepFetch
  <2>2. x \in 0..Now /\ x \in Nat /\ x <= Now /\ x >= mem.synced
    BY <1>0 DEF Max0
  <2> DEFINE since == IF full THEN -1 ELSE mem.synced
             got(kinds) == [a \in Accounts |-> IF a \in kinds THEN Reported(a, x, since) ELSE 0]
             swept(kinds) == [NoSweep EXCEPT !.pc = "page", !.full = full, !.since = since,
                                            !.slot = x, !.got = got(kinds)]
  <2>3. since \in {-1, mem.synced} /\ since \in Int
    BY <1>0
  <2> HIDE DEF since
  <2>4. ASSUME NEW kinds
        PROVE  /\ got(kinds) \in [Accounts -> Nat]
               /\ \A a \in Accounts : a \in kinds => got(kinds)[a] = Reported(a, x, since)
    BY <2>2, <2>3, ReportedSlot
  <2> HIDE DEF got
  <2>5. NoSweep \in SweepRec
    BY DEF NoSweep, SweepRec, Phases
  <2>6. ASSUME NEW kinds
        PROVE  /\ swept(kinds) \in SweepRec /\ swept(kinds).slot = x /\ swept(kinds).got = got(kinds)
               /\ swept(kinds).pc = "page" /\ swept(kinds).since = since
    BY <2>2, <2>3, <2>4, <2>5 DEF SweepRec, Phases
  <2>7. sweep' = Fetched(swept(Accounts)) \/ sweep' = swept(Rounds \cup Positions)
    BY <2>1 DEF since, got
  <2> HIDE DEF swept
  <2>8. CASE sweep' = Fetched(swept(Accounts))
    <3>1. \A a \in Mirrored : Seen(a)'
      <4> SUFFICES ASSUME NEW a \in Mirrored PROVE Seen(a)'
        OBVIOUS
      <4>1. a \in Accounts /\ swept(Accounts).got[a] = Reported(a, x, since)
        BY <1>0, <2>4, <2>6
      <4>. QED BY <1>2, <1>3, <2>2, <2>3, <2>6, <2>8, <4>1
    <3>. QED BY <1>0, <1>3, <2>2, <2>3, <2>6, <2>8, <3>1, WalkKeeps
  <2>9. CASE sweep' = swept(Rounds \cup Positions)
    <3>1. \A a \in Rounds : Seen(a)'
      <4> SUFFICES ASSUME NEW a \in Rounds PROVE Seen(a)'
        OBVIOUS
      <4>1. a \in Accounts /\ a \in Rounds \cup Positions
        BY DEF Accounts
      <4>2. swept(Rounds \cup Positions).got[a] = Reported(a, x, since)
        BY <2>4, <2>6, <4>1
      <4>. QED BY <1>2, <2>2, <2>3, <2>6, <2>9, <4>1, <4>2
    <3>. QED BY <1>0, <2>2, <2>3, <2>6, <2>9, <3>1, WalkKeeps
  <2>. QED BY <2>7, <2>8, <2>9
<1>5. CASE SweepPage
  <2>1. PICK sameEndpoint \in BOOLEAN, x \in 0..Now :
          /\ sameEndpoint => x >= sweep.slot
          /\ sweep' = IF Kept(sameEndpoint)
                      THEN Fetched([sweep EXCEPT !.got = [a \in Accounts |->
                             IF a \in Owners THEN Reported(a, x, sweep.since) ELSE @[a]]])
                      ELSE NoSweep
    BY <1>5 DEF SweepPage
  <2>2. sweep.pc = "page"
    BY <1>5 DEF SweepPage
  <2>3. /\ sweep.slot >= mem.synced /\ sweep.since \in {-1, mem.synced}
        /\ \A a \in Rounds : Seen(a)
    BY <2>2 DEF SyncedInv, WalkTrue, Walking, Mirrored
  <2>4. CASE ~sameEndpoint
    <3>1. sweep' = NoSweep
      BY <2>1, <2>4 DEF Kept
    <3>2. sweep'.pc = "idle"
      BY <3>1 DEF NoSweep
    <3>. QED BY <1>0, <3>2, SweepEndKeeps
  <2>5. CASE sameEndpoint
    <3> DEFINE got == [a \in Accounts |-> IF a \in Owners THEN Reported(a, x, sweep.since) ELSE sweep.got[a]]
               w == [sweep EXCEPT !.got = got]
    <3>1. sweep' = Fetched(w) /\ x >= sweep.slot
      BY <2>1, <2>5 DEF Kept
    <3>2. /\ got \in [Accounts -> Nat]
          /\ \A a \in Owners : got[a] = Reported(a, x, sweep.since)
          /\ \A a \in Rounds : got[a] = sweep.got[a]
      <4>1. \A a \in Accounts : Reported(a, x, sweep.since) \in Nat
        BY <1>0, ReportedSlot DEF SweepRec
      <4>. QED BY <1>0, <4>1, KindsAssumption DEF SweepRec, Accounts
    <3> HIDE DEF got
    <3>3. w \in SweepRec /\ w.slot = sweep.slot /\ w.got = got /\ w.since = sweep.since
      BY <1>0, <3>2 DEF SweepRec
    <3> HIDE DEF w
    <3>4. ASSUME NEW a \in Owners PROVE Seen(a)'
      <4>1. a \in Accounts /\ w.got[a] = Reported(a, x, sweep.since)
        BY <3>2, <3>3 DEF Accounts
      <4>. QED BY <1>0, <1>2, <1>3, <2>3, <3>1, <3>3, <4>1
    <3>5. ASSUME NEW a \in Rounds PROVE Seen(a)'
      BY <1>0, <1>1, <1>3, <2>3, <3>1, <3>2, <3>3 DEF Seen
    <3>6. \A a \in Mirrored : Seen(a)'
      BY <3>4, <3>5 DEF Mirrored
    <3>. QED BY <1>0, <1>3, <2>3, <3>1, <3>3, <3>6, WalkKeeps
  <2>. QED BY <2>4, <2>5
<1>6. CASE SweepWithoutV2
  <2>1. PICK x \in Max0(mem.synced)..Now :
          sweep' = Fetched([sweep EXCEPT !.slot = x, !.got = [a \in Accounts |-> Reported(a, x, -1)]])
    BY <1>6 DEF SweepWithoutV2
  <2>2. x \in 0..Now /\ x \in Nat /\ x <= Now /\ x >= mem.synced
    BY <1>0 DEF Max0
  <2>3. sweep.since \in {-1, mem.synced}
    BY <1>6 DEF SyncedInv, WalkTrue, Walking, SweepWithoutV2
  <2> DEFINE got == [a \in Accounts |-> Reported(a, x, -1)]
             w == [sweep EXCEPT !.slot = x, !.got = got]
  <2>4. got \in [Accounts -> Nat] /\ \A a \in Accounts : got[a] = Reported(a, x, -1)
    BY <2>2, ReportedSlot
  <2> HIDE DEF got
  <2>5. w \in SweepRec /\ w.slot = x /\ w.got = got /\ w.since = sweep.since
    BY <1>0, <2>2, <2>4 DEF SweepRec
  <2>6. sweep' = Fetched(w)
    BY <2>1 DEF got
  <2> HIDE DEF w
  <2>7. \A a \in Mirrored : Seen(a)'
    <3> SUFFICES ASSUME NEW a \in Mirrored PROVE Seen(a)'
      OBVIOUS
    <3>1. a \in Accounts /\ w.got[a] = Reported(a, x, -1)
      BY <1>0, <2>4, <2>5
    <3>. QED BY <1>2, <1>3, <2>2, <2>5, <2>6, <3>1
  <2>. QED BY <1>0, <1>3, <2>2, <2>3, <2>5, <2>6, <2>7, WalkKeeps
<1>. QED BY <1>4, <1>5, <1>6

\* The steps that write the rows of one kind: what they leave alone is the log
\* path's or has not changed since the last walk.
LEMMA WriteKeeps ==
  ASSUME SyncedInv, StoreInv', NEW kind \in {Rounds, Owners},
         sweep.pc \in {"rounds", "players"}, kind = Target(sweep.pc),
         UNCHANGED <<txs, mem>>,
         db'.rows = Upserted(db.rows, sweep.todo), db'.byLog = db.byLog \ CaughtUp(sweep),
         sweep'.slot = sweep.slot
  PROVE  /\ \A a \in kind : UpToDate(a, sweep.slot)'
         /\ \A a \in Mirrored : UpToDate(a, sweep.slot) => UpToDate(a, sweep.slot)'
         /\ SyncedSound'
         /\ \A a \in Mirrored : a \notin db'.byLog /\ mem.fresh[a] # -1 => mem.fresh[a] <= sweep.slot
<1>0. /\ sweep.slot \in Nat /\ sweep.slot \in 0..Now /\ mem.synced \in Int
      /\ mem.synced >= 0 => mem.synced \in 0..Now
      /\ Now \in Nat /\ sweep.slot >= mem.synced
      /\ \A a \in Accounts : db.rows[a] \in Nat /\ sweep.got[a] \in Nat /\ mem.fresh[a] \in Int
      /\ Mirrored \subseteq Accounts /\ kind \subseteq Mirrored
      /\ \A a \in kind : Seen(a)
      /\ sweep.todo \subseteq kind
      /\ sweep.pc # "page"
  BY SyncedFacts DEF SyncedInv, StoreInv, IndexerTypes, SweepType, WalkTrue, Walking, Mirrored
<1>1. \A a, s : Exists(a, s)' = Exists(a, s) /\ LastTouch(a, s)' = LastTouch(a, s)
  BY DEF Exists, LastTouch
<1>2. ASSUME NEW a \in Mirrored, a \notin db'.byLog
      PROVE  \/ a \in sweep.todo /\ db'.rows[a] = sweep.got[a] /\ sweep.got[a] > 0
                /\ mem.fresh[a] <= sweep.slot
             \/ a \notin sweep.todo /\ db'.rows[a] = db.rows[a] /\ a \notin db.byLog
  <2>0. a \in Accounts
    BY <1>0
  <2>1. CASE a \in sweep.todo
    <3>1. db'.rows[a] = sweep.got[a] /\ sweep.got[a] > 0
      BY <1>0, <2>0, <2>1 DEF Upserted, SyncedInv, ChosenTrue
    <3>2. mem.fresh[a] > sweep.slot => a \in db.byLog /\ a \notin CaughtUp(sweep)
      <4>1. mem.fresh[a] > sweep.slot => mem.fresh[a] # -1 /\ ~(mem.fresh[a] <= sweep.slot)
        BY <1>0, <2>0
      <4>. QED BY <4>1 DEF SyncedInv, NotedTrue, CaughtUp, behindLogPath
    <3>3. mem.fresh[a] <= sweep.slot
      BY <1>0, <1>2, <2>0, <3>2
    <3>. QED BY <2>1, <3>1, <3>3
  <2>2. CASE a \notin sweep.todo
    BY <1>2, <2>0, <2>2 DEF Upserted, CaughtUp
  <2>. QED BY <2>1, <2>2
<1>3. ASSUME NEW a \in kind, Exists(a, sweep.slot), a \notin db'.byLog
      PROVE  db'.rows[a] >= LastTouch(a, sweep.slot)
  <2>0. a \in Mirrored /\ a \in Accounts /\ Seen(a) /\ sweep.got[a] \in Nat
    BY <1>0
  <2>1. CASE a \in sweep.todo
    BY <1>2, <1>3, <2>0, <2>1 DEF Seen
  <2>2. CASE a \notin sweep.todo
    <3>1. a \notin db.byLog /\ db'.rows[a] = db.rows[a]
      BY <1>2, <1>3, <2>0, <2>2
    <3>2. ~(sweep.got[a] > 0)
      BY <2>2, <3>1 DEF SyncedInv, ChosenTrue
    <3>3. sweep.got[a] = 0
      BY <2>0, <3>2
    <3>4. mem.synced >= 0 /\ LastTouch(a, sweep.slot) <= mem.synced
      BY <1>3, <2>0, <3>3 DEF Seen
    <3>5. mem.synced \in Nat /\ LastTouch(a, sweep.slot) = LastTouch(a, mem.synced)
      BY <1>0, <3>4, TouchedSince
    <3>6. Exists(a, mem.synced)
      BY <1>3, <3>5 DEF Exists
    <3>. QED BY <2>0, <3>1, <3>4, <3>5, <3>6 DEF SyncedInv, SyncedSound, Mirrored
  <2>. QED BY <2>1, <2>2
<1>4. \A a \in kind : UpToDate(a, sweep.slot)'
  BY <1>1, <1>3 DEF UpToDate
<1>5. ASSUME NEW a \in Mirrored, UpToDate(a, sweep.slot) PROVE UpToDate(a, sweep.slot)'
  <2>1. CASE a \in kind
    BY <1>4, <2>1
  <2>2. CASE a \notin kind
    <3>1. a \notin sweep.todo
      BY <1>0, <2>2
    <3>. QED BY <1>1, <1>2, <1>5, <3>1 DEF UpToDate
  <2>. QED BY <2>1, <2>2
<1>6. SyncedSound'
  <2> SUFFICES ASSUME NEW a \in Mirrored, mem.synced >= 0, Exists(a, mem.synced), a \notin db'.byLog
               PROVE  db'.rows[a] >= LastTouch(a, mem.synced)
    BY <1>1 DEF SyncedSound, Mirrored
  <2>1. CASE a \in sweep.todo
    <3>1. db'.rows[a] = sweep.got[a] /\ sweep.got[a] > 0 /\ Seen(a) /\ a \in Accounts
      BY <1>0, <1>2, <2>1
    <3>2. sweep.got[a] >= LastTouch(a, sweep.slot) /\ sweep.got[a] \in Nat
      BY <1>0, <3>1 DEF Seen
    <3>3. LastTouch(a, mem.synced) <= LastTouch(a, sweep.slot)
          /\ LastTouch(a, mem.synced) \in Nat /\ LastTouch(a, sweep.slot) \in Nat
      BY <1>0, TouchedSince
    <3>. QED BY <3>1, <3>2, <3>3
  <2>2. CASE a \notin sweep.todo
    BY <1>2, <2>2 DEF SyncedInv, SyncedSound, Mirrored
  <2>. QED BY <2>1, <2>2
<1>7. ASSUME NEW a \in Mirrored, a \notin db'.byLog, mem.fresh[a] # -1
      PROVE  mem.fresh[a] <= sweep.slot
  BY <1>2, <1>7 DEF SyncedInv, NotedTrue
<1>. QED BY <1>4, <1>5, <1>6, <1>7

\* What a phase chooses among its kind leaves out only what the log path noted.
LEMMA ChoiceTrue ==
  ASSUME SyncedInv, NEW a \in Mirrored, sweep.got[a] > 0, behindLogPath(a, sweep.slot)
  PROVE  a \in db.byLog
<1>1. mem.fresh[a] > sweep.slot /\ sweep.slot \in Nat /\ mem.fresh[a] \in Int
  BY SyncedFacts DEF SyncedInv, StoreInv, behindLogPath
<1>. QED BY <1>1 DEF SyncedInv, NotedTrue

LEMMA SweepRoundsKeeps ==
  ASSUME SyncedInv, StoreInv', SweepRounds
  PROVE  SyncedInv'
<1>0. /\ sweep \in SweepRec /\ db \in StoreRec /\ UNCHANGED <<txs, mem>> /\ sweep.pc = "rounds"
      /\ Now \in Nat /\ sweep.slot \in Nat /\ Mirrored \subseteq Accounts
  BY SyncedFacts DEF SyncedInv, StoreInv, IndexerTypes, SweepType, StoreType, SweepRounds
<1>1. db'.rows = Upserted(db.rows, sweep.todo) /\ db'.byLog = db.byLog \ CaughtUp(sweep)
  BY <1>0 DEF SweepRounds, StoreRec
<1>2. /\ sweep'.slot = sweep.slot /\ sweep'.got = sweep.got /\ sweep'.since = sweep.since
      /\ sweep'.pc \in {"close", "players"}
      /\ sweep'.pc = "players" => sweep'.todo = Fresh(sweep, Owners)
  BY <1>0 DEF SweepRounds, SweepRec
<1>3. Target("rounds") = Rounds /\ Target("players") = Owners
  BY DEF Target
<1>4. /\ \A r \in Rounds : UpToDate(r, sweep.slot)'
      /\ SyncedSound'
      /\ \A a \in Mirrored : a \notin db'.byLog /\ mem.fresh[a] # -1 => mem.fresh[a] <= sweep.slot
  BY <1>0, <1>1, <1>2, <1>3, WriteKeeps
<1>5. \A a, s : Exists(a, s)' = Exists(a, s) /\ LastTouch(a, s)' = LastTouch(a, s)
  BY <1>0 DEF Exists, LastTouch
<1>6. WalkTrue'
  BY <1>0, <1>2, <1>5 DEF SyncedInv, WalkTrue, Walking, Seen
<1>7. NotedTrue'
  BY <1>0, <1>2, <1>4 DEF NotedTrue, RoundsDone
<1>8. WrittenTrue'
  BY <1>2, <1>4 DEF WrittenTrue, PlayersDone
<1>9. ChosenTrue'
  <2> SUFFICES ASSUME sweep'.pc = "players", NEW a \in Owners
               PROVE  /\ a \in sweep'.todo => sweep.got[a] > 0
                      /\ a \notin sweep'.todo /\ sweep.got[a] > 0 => a \in db'.byLog
    BY <1>2, <1>3 DEF ChosenTrue
  <2>1. a \in Mirrored /\ a \notin CaughtUp(sweep)
    <3>1. sweep.todo \subseteq Rounds
      BY <1>0, <1>3 DEF SyncedInv, StoreInv, IndexerTypes, SweepType
    <3>. QED BY <3>1, KindsAssumption DEF Mirrored, CaughtUp
  <2>2. a \notin sweep'.todo /\ sweep.got[a] > 0 => a \in db.byLog
    BY <1>2, <2>1, ChoiceTrue DEF Fresh
  <2>. QED BY <1>1, <1>2, <2>1, <2>2 DEF Fresh
<1>. QED BY <1>4, <1>6, <1>7, <1>8, <1>9 DEF SyncedInv

LEMMA SweepPlayersKeeps ==
  ASSUME SyncedInv, StoreInv', SweepPlayers
  PROVE  SyncedInv'
<1>0. /\ sweep \in SweepRec /\ db \in StoreRec /\ UNCHANGED <<txs, mem>> /\ sweep.pc = "players"
      /\ Now \in Nat /\ sweep.slot \in Nat /\ Mirrored \subseteq Accounts
  BY SyncedFacts DEF SyncedInv, StoreInv, IndexerTypes, SweepType, StoreType, SweepPlayers
<1>1. db'.rows = Upserted(db.rows, sweep.todo) /\ db'.byLog = db.byLog \ CaughtUp(sweep)
  BY <1>0 DEF SweepPlayers, StoreRec
<1>2. /\ sweep'.slot = sweep.slot /\ sweep'.got = sweep.got /\ sweep'.since = sweep.since
      /\ sweep'.pc = "reconcile"
  BY <1>0 DEF SweepPlayers, SweepRec
<1>3. Target("players") = Owners
  BY DEF Target
<1>4. /\ \A p \in Owners : UpToDate(p, sweep.slot)'
      /\ \A a \in Mirrored : UpToDate(a, sweep.slot) => UpToDate(a, sweep.slot)'
      /\ SyncedSound'
      /\ \A a \in Mirrored : a \notin db'.byLog /\ mem.fresh[a] # -1 => mem.fresh[a] <= sweep.slot
  BY <1>0, <1>1, <1>2, <1>3, WriteKeeps
<1>5. \A a, s : Exists(a, s)' = Exists(a, s) /\ LastTouch(a, s)' = LastTouch(a, s)
  BY <1>0 DEF Exists, LastTouch
<1>6. WalkTrue'
  BY <1>0, <1>2, <1>5 DEF SyncedInv, WalkTrue, Walking, Seen
<1>7. NotedTrue' /\ ChosenTrue'
  BY <1>0, <1>2, <1>4 DEF NotedTrue, ChosenTrue, RoundsDone
<1>8. WrittenTrue'
  <2>1. \A r \in Rounds : UpToDate(r, sweep.slot)
    BY <1>0 DEF SyncedInv, WrittenTrue, RoundsDone
  <2>. QED BY <1>2, <1>4, <2>1 DEF WrittenTrue, Mirrored
<1>. QED BY <1>4, <1>6, <1>7, <1>8 DEF SyncedInv

\* Absent Rounds are marked and Referral rows set; no row is written.
LEMMA BetweenKeeps ==
  ASSUME SyncedInv, StoreInv', SweepClose \/ SweepReconcile
  PROVE  SyncedInv'
<1>0. /\ sweep \in SweepRec /\ db \in StoreRec /\ UNCHANGED <<txs, mem>>
  BY DEF SyncedInv, StoreInv, IndexerTypes, SweepType, StoreType, SweepClose, SweepReconcile
<1>1. UNCHANGED <<db.rows, db.byLog>>
  BY <1>0 DEF SweepClose, SweepReconcile, StoreRec
<1>2. /\ sweep'.slot = sweep.slot /\ sweep'.got = sweep.got /\ sweep'.since = sweep.since
      /\ \/ sweep.pc = "close" /\ sweep'.pc = "players" /\ sweep'.todo = Fresh(sweep, Owners)
         \/ sweep.pc = "reconcile" /\ sweep'.pc = "positions"
  BY <1>0 DEF SweepClose, SweepReconcile, SweepRec
<1>3. \A a, s : Exists(a, s)' = Exists(a, s) /\ LastTouch(a, s)' = LastTouch(a, s)
  BY <1>0 DEF Exists, LastTouch
<1>4. WalkTrue'
  BY <1>0, <1>2, <1>3 DEF SyncedInv, WalkTrue, Walking, Seen
<1>5. NotedTrue'
  BY <1>0, <1>1, <1>2 DEF SyncedInv, NotedTrue, RoundsDone
<1>6. \A a, s : UpToDate(a, s)' <=> UpToDate(a, s)
  BY <1>1, <1>3 DEF UpToDate
<1>7. WrittenTrue'
  BY <1>2, <1>6 DEF SyncedInv, WrittenTrue, RoundsDone, PlayersDone
<1>8. SyncedSound'
  BY <1>0, <1>1, <1>3 DEF SyncedInv, SyncedSound
<1>9. ChosenTrue'
  <2> SUFFICES ASSUME sweep'.pc = "players", NEW a \in Owners
               PROVE  /\ a \in sweep'.todo => sweep.got[a] > 0
                      /\ a \notin sweep'.todo /\ sweep.got[a] > 0 => a \in db.byLog
    BY <1>1, <1>2 DEF ChosenTrue, Target
  <2>1. a \in Mirrored
    BY DEF Mirrored
  <2>. QED BY <1>2, <2>1, ChoiceTrue DEF Fresh
<1>. QED BY <1>4, <1>5, <1>7, <1>8, <1>9 DEF SyncedInv

\* The walk is over: every row is as new as its slot, which the next one
\* starts from.
LEMMA SweepPositionsKeeps ==
  ASSUME SyncedInv, StoreInv', SweepPositions
  PROVE  SyncedInv'
<1>0. /\ db \in StoreRec /\ mem \in MemRec /\ UNCHANGED txs /\ sweep.pc = "positions"
      /\ sweep'.pc = "list" /\ sweep.slot \in Nat /\ Mirrored \subseteq Accounts
      /\ sweep.todo \cap Mirrored = {}
  <2>1. sweep.todo \subseteq Positions /\ sweep.pc = "positions"
    BY DEF SweepPositions, SyncedInv, StoreInv, IndexerTypes, SweepType, Target
  <2>2. sweep'.pc = "list"
    BY DEF SweepPositions, NoSweep
  <2>. QED BY <2>1, <2>2, SyncedFacts
           DEF SweepPositions, SyncedInv, StoreInv, IndexerTypes, StoreType, MemType
<1>1. db'.rows = Upserted(db.rows, sweep.todo) /\ db'.byLog = db.byLog \ CaughtUp(sweep)
  BY <1>0 DEF SweepPositions, StoreRec
<1>2. /\ mem'.synced = sweep.slot
      /\ \A a \in Accounts : mem'.fresh[a] = IF mem.fresh[a] <= sweep.slot THEN -1 ELSE mem.fresh[a]
  BY <1>0 DEF SweepPositions, MemRec
<1>3. ASSUME NEW a \in Mirrored
      PROVE  db'.rows[a] = db.rows[a] /\ (a \in db'.byLog <=> a \in db.byLog)
  BY <1>0, <1>1, <1>3 DEF Upserted, CaughtUp
<1>4. \A a, s : Exists(a, s)' = Exists(a, s) /\ LastTouch(a, s)' = LastTouch(a, s)
  BY <1>0 DEF Exists, LastTouch
<1>5. SyncedSound'
  <2>1. \A a \in Mirrored : UpToDate(a, sweep.slot)
    BY <1>0 DEF SyncedInv, WrittenTrue, RoundsDone, PlayersDone, Mirrored
  <2>. QED BY <1>2, <1>3, <1>4, <2>1 DEF SyncedSound, UpToDate, Mirrored
<1>6. NotedTrue'
  <2> SUFFICES ASSUME NEW a \in Mirrored, a \notin db'.byLog PROVE mem'.fresh[a] = -1
    BY DEF NotedTrue
  <2>1. a \in Accounts /\ a \notin db.byLog
    BY <1>0, <1>3
  <2>2. mem.fresh[a] = -1 \/ mem.fresh[a] <= sweep.slot
    BY <2>1 DEF SyncedInv, NotedTrue
  <2>. QED BY <1>0, <1>2, <2>1, <2>2
<1>7. WalkTrue' /\ ChosenTrue' /\ WrittenTrue'
  BY <1>0 DEF WalkTrue, ChosenTrue, WrittenTrue, Walking, RoundsDone, PlayersDone
<1>. QED BY <1>5, <1>6, <1>7 DEF SyncedInv

LEMMA SyncedStep == SyncedInv /\ [Next]_vars => SyncedInv'
<1> SUFFICES ASSUME SyncedInv, [Next]_vars PROVE SyncedInv'
  OBVIOUS
<1>0. StoreInv' /\ StoreInv /\ IndexerTypes /\ db \in StoreRec /\ mem \in MemRec /\ sweep \in SweepRec
  BY StoreStep DEF SyncedInv, StoreInv, IndexerTypes, StoreType, MemType, SweepType
<1>1. ASSUME NEW op \in TxKinds, NEW a \in Accounts, Transact(op, a) PROVE SyncedInv'
  <2>1. (\E t \in Transactions : txs' = Append(txs, t)) /\ UNCHANGED <<sweep, mem, db>>
    BY <1>0, <1>1, TransactTypes DEF Transact
  <2>. QED BY <1>0, <2>1, GrowthKeeps
<1>2. CASE Finalize \/ (\E level \in Levels : Deliver(level) \/ Lose(level))
           \/ (\E p \in Owners : bindReferral(p)) \/ RefreshRead \/ RefreshDone \/ RetryV2 \/ UNCHANGED vars
  <2>1. UNCHANGED <<txs, sweep, mem.synced, mem.fresh, db.rows, db.byLog>>
    BY <1>0, <1>2
       DEF Finalize, Deliver, Lose, bindReferral, RefreshRead, RefreshDone, RetryV2, vars, StoreRec, MemRec
  <2>. QED BY <1>0, <2>1, LogPathKeeps
<1>3. CASE ApplyAccount
  <2> DEFINE a == NextToApply
  <2>1. UNCHANGED <<txs, sweep, mem>> /\ a \in Accounts
    BY <1>0, <1>3, NextIn DEF ApplyAccount, IndexerTypes
  <2>2. UNCHANGED db \/ db' = [db EXCEPT !.rows[a] = job.got[a], !.byLog = @ \cup {a}]
    BY <1>3 DEF ApplyAccount
  <2> HIDE DEF a
  <2>3. /\ \A b \in db.byLog : b \in db'.byLog
        /\ \A b \in Mirrored : b \notin db'.byLog => db'.rows[b] = db.rows[b]
    BY <1>0, <2>1, <2>2, SyncedFacts DEF StoreRec
  <2>. QED BY <1>0, <2>1, <2>3, LogPathKeeps
<1>4. CASE NoteFresh
  <2> DEFINE a == NextToApply
  <2>1. /\ mem' = [mem EXCEPT !.fresh[a] = Head(queue).slots[1]]
        /\ db' = [db EXCEPT !.byLog = @ \cup {a}] /\ UNCHANGED <<txs, sweep>>
    BY <1>4 DEF NoteFresh
  <2> HIDE DEF a
  <2>2. mem'.synced = mem.synced /\ db'.rows = db.rows /\ db'.byLog = db.byLog \cup {a}
        /\ \A b \in Accounts : b # a => mem'.fresh[b] = mem.fresh[b]
    BY <1>0, <2>1 DEF MemRec, StoreRec
  <2>. QED BY <1>0, <2>1, <2>2, LogPathKeeps, SyncedFacts
<1>5. CASE LiveIngest \/ CatchUpStep
  <2>1. UNCHANGED <<txs, sweep, mem>> /\ (UNCHANGED db \/ \E i \in 1..Now : \E advance \in BOOLEAN : persist(i, advance))
    <3>1. queue \in Seq(Task) /\ queue # <<>> /\ Head(queue).kind \in {"live", "backlog"}
      BY <1>0, <1>5 DEF LiveIngest, CatchUpStep, IndexerTypes, QueueType
    <3>2. Head(queue) \in Task /\ OnChain(Head(queue))
      BY <1>0, <3>1, QueueHead DEF IndexerTypes, QueueType
    <3>3. UNCHANGED db \/ Head(queue).slots[1] \in 1..Now
      <4>1. CASE LiveIngest
        BY <3>2, <4>1 DEF LiveIngest, OnChain
      <4>2. CASE CatchUpStep
        <5>1. Head(queue).slots \in Seq(Nat) /\ Head(queue).slots # <<>>
          BY <3>2, <4>2 DEF CatchUpStep, Task
        <5>2. 1 \in 1..Len(Head(queue).slots)
          BY <5>1, EmptySeq, LenProperties
        <5>. QED BY <3>2, <5>2 DEF OnChain
      <4>. QED BY <1>5, <4>1, <4>2
    <3>. QED BY <1>5, <3>3 DEF LiveIngest, CatchUpStep, LiveAdvances
  <2>2. CASE UNCHANGED db
    BY <1>0, <2>1, <2>2, LogPathKeeps
  <2>3. ASSUME NEW i \in 1..Now, NEW advance \in BOOLEAN, persist(i, advance)
        PROVE  db'.byLog = db.byLog /\ \A a \in Mirrored : db'.rows[a] = db.rows[a]
    <3>1. txs[i] \in Transactions
      BY <1>0, ChainFacts DEF IndexerTypes
    <3>2. /\ db'.byLog = db.byLog
          /\ db'.rows = IF settledPosition(txs[i]) THEN [db.rows EXCEPT ![txs[i].acct] = 0] ELSE db.rows
      BY <1>0, <2>3 DEF persist, StoreRec
    <3>3. settledPosition(txs[i]) => txs[i].acct \in Positions
      BY <3>1 DEF settledPosition, Transactions, Named
    <3>. QED BY <1>0, <3>2, <3>3, SyncedFacts DEF StoreRec
  <2>. QED BY <1>0, <2>1, <2>2, <2>3, LogPathKeeps
<1>6. CASE CatchUpDone
  <2>1. /\ UNCHANGED <<txs, mem, db.rows, db.byLog>> /\ sweep'.pc = "idle"
    BY <1>0, <1>6 DEF CatchUpDone, StoreRec, SweepRec
  <2>2. sweep.pc = "catchup"
    <3>1. queue \in Seq(Task) /\ queue # <<>> /\ Head(queue).kind = "backlog"
      BY <1>0, <1>6 DEF CatchUpDone, IndexerTypes, QueueType
    <3>2. 1 \in Backlogs
      BY <3>1, QueueHead DEF Backlogs
    <3>. QED BY <1>0, <3>2 DEF StoreInv, OneBacklog
  <2>. QED BY <1>0, <2>1, <2>2, SweepEndKeeps DEF RoundsDone
<1>7. CASE SweepFail \/ CatchUpList
  <2>1. /\ UNCHANGED <<txs, mem, db>> /\ sweep'.pc \in {"idle", "catchup"}
        /\ sweep.pc \in {"page", "list"}
    <3>1. CASE SweepFail
      BY <1>0, <3>1 DEF SweepFail, NoSweep, SweepRec
    <3>2. CASE CatchUpList
      BY <1>0, <3>2 DEF CatchUpList, SweepRec
    <3>. QED BY <1>7, <3>1, <3>2
  <2>. QED BY <1>0, <2>1, SweepEndKeeps DEF RoundsDone
<1>8. CASE Crash
  <2>1. /\ sweep'.pc = "idle" /\ mem'.synced = -1 /\ \A a \in Accounts : mem'.fresh[a] = -1
    BY <1>8 DEF Crash, NoSweep, FreshMem
  <2>2. WalkTrue' /\ ChosenTrue' /\ WrittenTrue' /\ SyncedSound'
    BY <2>1 DEF WalkTrue, ChosenTrue, WrittenTrue, SyncedSound, Walking, RoundsDone, PlayersDone
  <2>3. NotedTrue'
    BY <1>0, <2>1, SyncedFacts DEF NotedTrue
  <2>. QED BY <1>0, <2>2, <2>3 DEF SyncedInv
<1>. QED BY <1>0, <1>1, <1>2, <1>3, <1>4, <1>5, <1>6, <1>7, <1>8, ReadKeeps, SweepRoundsKeeps,
           SweepPlayersKeeps, BetweenKeeps, SweepPositionsKeeps
         DEF Next, ChainNext, SocketNext, QueueNext, SweepNext, Levels

\* lastSyncedSlot (indexer.service.ts:229): the next incremental walk may start
\* from it, since every Player and Round row is as new as the chain was there,
\* unless the log path wrote or noted it last: for any number of accounts and
\* transactions, any lag of a read, pages, fallbacks, failures and restarts.
THEOREM MirrorKeepsUp == Spec => []SyncedSound
<1>1. Init => SyncedInv
  <2> SUFFICES ASSUME Init PROVE SyncedInv
    OBVIOUS
  <2>1. StoreInv
    BY StoreInit
  <2>2. sweep.pc = "idle" /\ mem.synced = -1 /\ \A a \in Accounts : mem.fresh[a] = -1
    BY DEF Init, NoSweep, FreshMem
  <2>3. WalkTrue /\ ChosenTrue /\ WrittenTrue /\ SyncedSound
    BY <2>2 DEF WalkTrue, ChosenTrue, WrittenTrue, SyncedSound, Walking, RoundsDone, PlayersDone
  <2>4. NotedTrue
    BY <2>1, <2>2, SyncedFacts DEF NotedTrue, StoreInv
  <2>. QED BY <2>1, <2>3, <2>4 DEF SyncedInv
<1>2. SyncedInv => SyncedSound
  BY DEF SyncedInv
<1>. QED BY <1>1, <1>2, SyncedStep, PTL DEF Spec

-----------------------------------------------------------------------------
(* Referral grants. The arithmetic: what a floor, a share and a cap add up to.*)

\* A floored quotient takes out of n what it says, and leaves less than d.
LEMMA Floored ==
  ASSUME NEW n \in Nat, NEW d \in Nat, d > 0
  PROVE  /\ n \div d \in Nat /\ n % d \in Nat
         /\ n = d * (n \div d) + (n % d)
         /\ n % d < d
<1>1. n \div d \in Int /\ n % d \in 0..(d - 1)
  OBVIOUS
<1>2. n = d * (n \div d) + (n % d)
  OBVIOUS
<1>3. n \div d >= 0
  OBVIOUS
<1> QED BY <1>1, <1>2, <1>3

LEMMA ProductOrder ==
  ASSUME NEW d \in Nat, d > 0, NEW m \in Int, NEW n \in Int
  PROVE  d * m <= d * n <=> m <= n
<1>1. CASE m <= n
  <2>1. d * (n - m) >= 0
    BY <1>1
  <2> QED BY <1>1, <2>1
<1>2. CASE n <= m - 1
  <2>1. d * (m - n) >= d * 1
    BY <1>2
  <2>2. d * (m - n) = d * m - d * n
    OBVIOUS
  <2> QED BY <1>2, <2>1, <2>2
<1> QED BY <1>1, <1>2

\* Ranks in a strict linear order are 0, 1, 2, ...: as many elements have a rank
\* below n as n allows.
LEMMA Ranked ==
  ASSUME NEW rest, IsFiniteSet(DOMAIN rest), DOMAIN rest \subseteq Holders,
         \A w \in DOMAIN rest : rest[w] \in Nat,
         NEW n \in Nat, n <= Cardinality(DOMAIN rest)
  PROVE  Cardinality({w \in DOMAIN rest : Place(rest, w) < n}) = n
<1> DEFINE D == DOMAIN rest
           size == Cardinality(D)
           ahead(w) == {v \in D : Before(rest, v, w)}
           place == [w \in D |-> Place(rest, w)]
           few == {w \in D : Place(rest, w) < n}
<1>1. \A v, w, x \in D :
        /\ ~Before(rest, w, w)
        /\ v = w \/ Before(rest, v, w) \/ Before(rest, w, v)
        /\ Before(rest, v, w) /\ Before(rest, w, x) => Before(rest, v, x)
  BY ReferralsAssumption DEF Before
<1>2. size \in Nat
  BY FS_CardinalityType
<1>3. ASSUME NEW w \in D
      PROVE  IsFiniteSet(ahead(w)) /\ Place(rest, w) = Cardinality(ahead(w)) /\ Place(rest, w) \in 0..(size - 1)
  <2>1. ahead(w) \in SUBSET (D \ {w})
    BY <1>1
  <2>2. IsFiniteSet(D \ {w}) /\ Cardinality(D \ {w}) = size - 1
    BY FS_RemoveElement
  <2>3. IsFiniteSet(ahead(w)) /\ Cardinality(ahead(w)) <= size - 1
    BY <2>1, <2>2, FS_Subset
  <2>4. Cardinality(ahead(w)) \in Nat
    BY <2>3, FS_CardinalityType
  <2> QED BY <1>2, <2>3, <2>4 DEF Place
<1>4. ASSUME NEW v \in D, NEW w \in D, Before(rest, v, w)
      PROVE  Place(rest, v) < Place(rest, w)
  <2>1. ahead(v) \in SUBSET ahead(w) /\ v \in ahead(w) /\ v \notin ahead(v)
    BY <1>1, <1>4
  <2>2. Cardinality(ahead(v)) <= Cardinality(ahead(w)) /\ Cardinality(ahead(v)) # Cardinality(ahead(w))
    BY <1>3, <2>1, FS_Subset
  <2> QED BY <1>2, <1>3, <2>2
<1>5. place \in Bijection(D, 0..(size - 1))
  <2>1. place \in [D -> 0..(size - 1)]
    BY <1>3
  <2>2. ASSUME NEW v \in D, NEW w \in D, v # w PROVE place[v] # place[w]
    <3>1. place[v] = Place(rest, v) /\ place[w] = Place(rest, w)
      OBVIOUS
    <3> HIDE DEF place, size, ahead
    <3>2. place[v] \in Int /\ place[w] \in Int
      BY <1>2, <1>3, <3>1
    <3>3. place[v] < place[w] \/ place[w] < place[v]
      BY <1>1, <1>4, <2>2, <3>1
    <3> QED BY <3>2, <3>3
  <2>3. place \in Injection(D, 0..(size - 1))
    BY <2>1, <2>2 DEF Injection, IsInjective
  <2> HIDE DEF size
  <2>4. IsFiniteSet(0..(size - 1)) /\ Cardinality(0..(size - 1)) = size
    BY <1>2, FS_Interval
  <2> HIDE DEF place
  <2>5. place \in Surjection(D, 0..(size - 1))
    BY <2>3, <2>4, FS_Injection DEF size
  <2> QED BY <2>3, <2>5 DEF Bijection
<1>6. [w \in few |-> Place(rest, w)] \in Bijection(few, 0..(n - 1))
  <2> DEFINE low == [w \in few |-> Place(rest, w)]
  <2>1. ASSUME NEW w \in few PROVE Place(rest, w) \in 0..(n - 1)
    <3>1. Place(rest, w) \in 0..(size - 1) /\ Place(rest, w) < n
      BY <1>3
    <3> QED BY <1>2, <3>1
  <2>2. \A v, w \in few : low[v] = low[w] => v = w
    <3>1. \A v, w \in D : place[v] = place[w] => v = w
      BY <1>5 DEF Bijection, Injection, IsInjective
    <3> QED BY <3>1
  <2>3. \A k \in 0..(n - 1) : \E w \in few : low[w] = k
    <3> SUFFICES ASSUME NEW k \in 0..(n - 1) PROVE \E w \in few : low[w] = k
      OBVIOUS
    <3>1. k \in 0..(size - 1)
      BY <1>2
    <3>2. PICK w \in D : place[w] = k
      BY <1>5, <3>1 DEF Bijection, Surjection
    <3> QED BY <3>2
  <2>4. low \in [few -> 0..(n - 1)]
    BY <2>1
  <2> HIDE DEF low
  <2>5. low \in Bijection(few, 0..(n - 1))
    BY <2>2, <2>3, <2>4 DEF Bijection, Injection, Surjection, IsInjective
  <2> QED BY <2>5 DEF low
<1>7. IsFiniteSet(few)
  BY FS_Subset
<1>8. Cardinality(0..(n - 1)) = n
  BY FS_Interval
<1> QED
  BY <1>6, <1>7, <1>8, FS_Bijection DEF ExistsBijection

\* The floors of proportional shares, and how much they leave to hand out.
LEMMA FloorsLeave ==
  ASSUME NEW weights, IsFiniteSet(DOMAIN weights), \A w \in DOMAIN weights : weights[w] \in Nat,
         Total(weights) > 0, NEW amount \in Nat
  PROVE  /\ \A w \in DOMAIN weights : /\ Floors(amount, weights)[w] \in Nat
                                      /\ Remainders(amount, weights)[w] \in Nat
         /\ Total(Floors(amount, weights)) \in Nat
         /\ amount - Total(Floors(amount, weights)) \in 0..Cardinality(DOMAIN weights)
<1> DEFINE D == DOMAIN weights
           all == Total(weights)
           floors == Floors(amount, weights)
           rests == Remainders(amount, weights)
           raw == [w \in D |-> amount * weights[w]]
           taken == [w \in D |-> all * floors[w]]
           one == [w \in D |-> 1]
           most == [w \in D |-> all]
<1>1. all \in Nat
  BY TotalNat
<1>2. DOMAIN floors = D /\ DOMAIN rests = D
  BY DEF Floors, Remainders
<1>3. ASSUME NEW w \in D
      PROVE  /\ floors[w] \in Nat /\ rests[w] \in Nat /\ rests[w] <= all
             /\ raw[w] \in Nat /\ taken[w] \in Nat /\ raw[w] = taken[w] + rests[w]
  <2>1. amount * weights[w] \in Nat
    OBVIOUS
  <2>2. floors[w] = (amount * weights[w]) \div all /\ rests[w] = (amount * weights[w]) % all
    BY DEF Floors, Remainders
  <2> HIDE DEF floors, rests, all
  <2>3. /\ floors[w] \in Nat /\ rests[w] \in Nat /\ rests[w] < all
        /\ amount * weights[w] = all * floors[w] + rests[w]
    BY <1>1, <2>1, <2>2, Floored DEF all
  <2>4. all * floors[w] \in Nat
    BY <1>1, <2>3
  <2> QED BY <1>1, <2>1, <2>3, <2>4
<1> HIDE DEF floors, rests, all
<1>4. Total(raw) = amount * all
  BY TotalTimes DEF all
<1>5. Total(taken) = all * Total(floors)
  BY <1>1, <1>2, <1>3, TotalTimes
<1>6. Total(raw) = Total(taken) + Total(rests)
  BY <1>2, <1>3, TotalPlus
<1>7. Total(floors) \in Nat /\ Total(rests) \in Nat
  BY <1>2, <1>3, TotalNat
<1>8. Cardinality(D) \in Nat /\ Total(rests) <= all * Cardinality(D)
  <2> DEFINE zero == [w \in D |-> 0]
  <2>1. Total(zero) = 0
    BY TotalZero
  <2>2. Total(one) = Total(zero) + Cardinality(D)
    BY TotalOnes
  <2>3. Total(most) = all * Total(one)
    BY <1>1, TotalTimes
  <2>4. Total(rests) <= Total(most)
    BY <1>1, <1>2, <1>3, TotalMonotone
  <2>5. Cardinality(D) \in Nat
    BY FS_CardinalityType
  <2> HIDE DEF zero, one, most
  <2> QED BY <2>1, <2>2, <2>3, <2>4, <2>5
<1>9. /\ all * (amount - Total(floors)) = Total(rests)
      /\ all * 0 <= all * (amount - Total(floors))
      /\ all * (amount - Total(floors)) <= all * Cardinality(D)
  <2>1. amount * all = all * Total(floors) + Total(rests)
    BY <1>4, <1>5, <1>6
  <2> HIDE DEF D
  <2>2. all * (amount - Total(floors)) = amount * all - all * Total(floors)
    BY <1>1, <1>7
  <2> QED BY <1>1, <1>7, <1>8, <2>1, <2>2
<1>10. 0 <= amount - Total(floors) /\ amount - Total(floors) <= Cardinality(D)
  BY <1>1, <1>7, <1>8, <1>9, ProductOrder DEF all
<1> QED
  BY <1>3, <1>7, <1>8, <1>10 DEF floors, rests

\* splitShares (referral-bonus.ts:161): what the floors leave goes to that many
\* referees, so the shares are the amount.
LEMMA SharesAreAmount ==
  ASSUME NEW weights, IsFiniteSet(DOMAIN weights), DOMAIN weights \subseteq Holders,
         \A w \in DOMAIN weights : weights[w] \in Nat,
         NEW amount \in Nat, amount > 0 => Total(weights) > 0
  PROVE  /\ splitShares(amount, weights) \in [DOMAIN weights -> Nat]
         /\ Total(splitShares(amount, weights)) = amount
<1> DEFINE D == DOMAIN weights
           nothing == [w \in D |-> 0]
           floors == Floors(amount, weights)
           rests == Remainders(amount, weights)
           left == amount - Total(floors)
           lucky == {w \in D : Place(rests, w) < left}
           extra == [w \in D |-> IF Place(rests, w) < left THEN 1 ELSE 0]
           shares == [w \in D |-> floors[w] + extra[w]]
<1>1. Total(nothing) = 0
  BY TotalZero
<1>2. CASE amount = 0
  BY <1>1, <1>2 DEF splitShares
<1>3. CASE amount > 0
  <2>1. /\ DOMAIN floors = D /\ DOMAIN rests = D
        /\ \A w \in D : floors[w] \in Nat /\ rests[w] \in Nat
        /\ Total(floors) \in Nat /\ left \in 0..Cardinality(D)
    BY <1>3, FloorsLeave DEF Floors, Remainders
  <2>2. Cardinality(D) \in Nat
    BY FS_CardinalityType
  <2>3. left \in Nat /\ left <= Cardinality(D)
    BY <2>1, <2>2
  <2>4. splitShares(amount, weights) = shares
    BY <1>3 DEF splitShares, Rounded
  <2> HIDE DEF rests, left, floors
  <2>5. Cardinality(lucky) = left
    BY <2>1, <2>3, Ranked
  <2>6. Total(extra) = Total(nothing) + Cardinality(lucky)
    <3>1. DOMAIN extra = D /\ DOMAIN nothing = D /\ lucky \in SUBSET D
      OBVIOUS
    <3>2. \A w \in lucky : nothing[w] = 0 /\ extra[w] = 1
      OBVIOUS
    <3>3. \A w \in D \ lucky : extra[w] = nothing[w]
      OBVIOUS
    <3>4. \A w \in D : nothing[w] \in Nat
      OBVIOUS
    <3> HIDE DEF extra, nothing, lucky
    <3> QED BY <3>1, <3>2, <3>3, <3>4, TotalOnes
  <2>7. /\ DOMAIN extra = D /\ DOMAIN shares = D
        /\ \A w \in D : extra[w] \in Nat /\ shares[w] \in Nat /\ shares[w] = floors[w] + extra[w]
        /\ shares \in [D -> Nat]
    BY <2>1
  <2> HIDE DEF extra, shares, nothing, lucky
  <2>8. Total(shares) = Total(floors) + Total(extra)
    BY <2>1, <2>7, TotalPlus
  <2>9. Total(shares) = amount
    BY <1>1, <2>1, <2>3, <2>5, <2>6, <2>8 DEF left
  <2> QED BY <2>4, <2>7, <2>9
<1> QED BY <1>2, <1>3

\* computeBonuses (referral-bonus.ts:107): scaled down, what is handed out stays
\* under the cap.
LEMMA BonusesFit ==
  ASSUME NEW pre, IsFiniteSet(DOMAIN pre), \A r \in DOMAIN pre : pre[r] \in Nat, NEW cap \in Nat
  PROVE  LET out == Positive(Scaled(pre, Total(pre), cap))
         IN  /\ DOMAIN out \subseteq DOMAIN pre
             /\ \A r \in DOMAIN out : out[r] \in Nat /\ (out[r] > 0 => pre[r] > 0)
             /\ Total(out) \in Nat /\ Total(out) <= cap
<1> DEFINE D == DOMAIN pre
           sum == Total(pre)
           cut == Scaled(pre, sum, cap)
           out == Positive(cut)
<1>1. sum \in Nat
  BY TotalNat
<1>2. DOMAIN cut = D
  BY DEF Scaled
<1>3. /\ \A r \in D : cut[r] \in Nat /\ (cut[r] > 0 => pre[r] > 0)
      /\ Total(cut) <= cap
  <2>1. CASE sum <= cap
    <3>1. \A r \in D : cut[r] = pre[r]
      BY <2>1 DEF Scaled
    <3>2. Total(cut) <= Total(pre)
      BY <1>2, <3>1, TotalMonotone
    <3>3. Total(cut) \in Nat
      BY <1>2, <3>1, TotalNat
    <3> QED BY <1>1, <2>1, <3>1, <3>2, <3>3
  <2>2. CASE sum > cap
    <3> DEFINE up == [r \in D |-> cap * pre[r]]
               back == [r \in D |-> sum * cut[r]]
    <3>1. ASSUME NEW r \in D
          PROVE  /\ cut[r] \in Nat /\ (cut[r] > 0 => pre[r] > 0)
                 /\ up[r] \in Nat /\ back[r] \in Nat /\ back[r] <= up[r]
      <4> DEFINE n == pre[r] * cap
      <4>1. cut[r] = n \div sum
        BY <1>1, <2>2 DEF Scaled
      <4>2. n \in Nat /\ n = cap * pre[r]
        OBVIOUS
      <4> HIDE DEF sum, cut, n, up, back
      <4>3. /\ cut[r] \in Nat /\ n % sum \in Nat
            /\ n = sum * cut[r] + (n % sum)
        BY <1>1, <2>2, <4>1, <4>2, Floored
      <4>4. sum * cut[r] \in Nat /\ sum * cut[r] <= cap * pre[r]
        BY <1>1, <4>2, <4>3
      <4>5. pre[r] = 0 => sum * cut[r] = 0
        BY <4>2, <4>4
      <4>6. sum > 0 /\ (sum * cut[r] = 0 => cut[r] = 0)
        BY <1>1, <2>2, <4>3
      <4> QED BY <4>2, <4>3, <4>4, <4>5, <4>6 DEF up, back
    <3> HIDE DEF cut
    <3>2. Total(up) = cap * Total(pre)
      BY TotalTimes
    <3>3. Total(back) = sum * Total(cut)
      BY <1>1, <1>2, <3>1, TotalTimes
    <3>4. Total(back) <= Total(up)
      BY <3>1, TotalMonotone
    <3>5. Total(cut) \in Nat
      BY <1>2, <3>1, TotalNat
    <3> HIDE DEF up, back
    <3>6. sum * Total(cut) <= sum * cap
      <4>1. cap * Total(pre) = sum * cap
        BY <1>1
      <4> QED BY <3>2, <3>3, <3>4, <4>1
    <3>7. Total(cut) <= cap
      BY <1>1, <2>2, <3>5, <3>6, ProductOrder
    <3> QED BY <3>1, <3>7
  <2> QED BY <1>1, <2>1, <2>2
<1>4. DOMAIN out \subseteq D /\ \A r \in DOMAIN out : out[r] = cut[r]
  BY <1>2 DEF Positive
<1>5. Total(out) \in Nat /\ Total(out) <= Total(cut) /\ Total(cut) \in Nat
  <2> DEFINE kept == [r \in D |-> IF r \in DOMAIN out THEN cut[r] ELSE 0]
  <2>1. IsFiniteSet(DOMAIN out)
    BY <1>4, FS_Subset
  <2>2. \A r \in DOMAIN out : out[r] \in Nat
    BY <1>3, <1>4
  <2>3. Total(out) \in Nat /\ Total(cut) \in Nat
    BY <1>2, <1>3, <2>1, <2>2, TotalNat
  <2>4. /\ DOMAIN kept = D /\ \A r \in DOMAIN out : kept[r] = out[r]
        /\ \A r \in D \ DOMAIN out : kept[r] = 0
        /\ \A r \in D : kept[r] \in Nat /\ kept[r] <= cut[r]
    BY <1>3, <1>4
  <2> HIDE DEF kept, out, cut
  <2>5. Total(kept) = Total(out)
    BY <1>4, <2>2, <2>4, TotalPadded
  <2>6. Total(kept) <= Total(cut)
    BY <1>2, <1>3, <2>4, TotalMonotone
  <2> QED BY <2>3, <2>5, <2>6
<1> QED
  <2> HIDE DEF out, cut
  <2>1. /\ \A r \in DOMAIN out : out[r] \in Nat /\ (out[r] > 0 => pre[r] > 0)
        /\ Total(out) <= cap
    BY <1>3, <1>4, <1>5
  <2> QED BY <1>4, <1>5, <2>1 DEF out, cut

-----------------------------------------------------------------------------
(* Step 3b: which rows exist, what was granted for them, what fits.          *)

BookRec == [principal: [Holders -> Nat], bonusEpoch: [Holders -> Nat], granted: [Holders -> Nat]]
BankRec == [principal: [Holders -> Nat], bonusEpoch: [Holders -> Nat], granted: [Holders -> Nat],
            epoch: Nat, moves: Nat, shrunk: BOOLEAN, missed: SUBSET Referrers]
ShareMaps == UNION {[s -> Nat] : s \in SUBSET Referees}
OfferRec == [amount: Nat, sent: BOOLEAN, shares: ShareMaps]
CrankRec == [pc: {"idle", "send", "mark", "down"}, batch: SUBSET Referrers, fresh: BOOLEAN]

\* A grant of this epoch has landed for r.
Paid(r) == bank.bonusEpoch[r] = bank.epoch

ReferralsType ==
  /\ bank \in BankRec /\ book \in BookRec /\ held \in [Referees -> Int] /\ crank \in CrankRec
  /\ DOMAIN offers \subseteq Referrers /\ \A r \in DOMAIN offers : offers[r] \in OfferRec

\* The mirror is never ahead of the program, and only referrers are granted to.
BooksBehind ==
  /\ \A h \in Holders : /\ book.bonusEpoch[h] <= bank.bonusEpoch[h]
                        /\ bank.bonusEpoch[h] <= bank.epoch
                        /\ h \notin Referrers => bank.bonusEpoch[h] = 0
  /\ crank.pc # "idle" => bank.epoch > 0

\* What is about to be sent has a row and was not granted yet, unless a tick
\* missed that it was.
BatchUnpaid ==
  crank.pc = "send" => \A r \in crank.batch : r \in DOMAIN offers /\ (r \notin bank.missed => ~Paid(r))

\* While nobody has withdrawn, the rows fit under the caps of what the mirror
\* shows, and the mirror shows no more than there is.
RowsFit ==
  ~bank.shrunk =>
    /\ \A h \in Holders : book.principal[h] <= bank.principal[h]
    /\ Total(Amounts(offers)) <= PoolCap(book.principal)
    /\ crank.pc = "send" => \A r \in crank.batch : offers[r].amount <= bank.principal[r]

GrantsInv ==
  ReferralsType /\ BooksBehind /\ GrantsMatchRows /\ SharesAddUp /\ BatchUnpaid /\ RowsFit

LEMMA ReferralFacts ==
  /\ IsFiniteSet(Holders) /\ Referees \subseteq Holders /\ Referrers \subseteq Holders
  /\ \A s \in SUBSET Holders : IsFiniteSet(s)
  /\ {BPS, BASIS_CAP, QUALIFY_PRINCIPAL, QualifySeconds, CapBps} \subseteq Nat /\ BPS > 0
<1>1. IsFiniteSet(Holders) /\ Referees \subseteq Holders /\ Referrers \subseteq Holders
  BY ReferralsAssumption DEF Referees, Referrers
<1>2. \A s \in SUBSET Holders : IsFiniteSet(s)
  BY <1>1, FS_Subset
<1>3. {BPS, BASIS_CAP, QUALIFY_PRINCIPAL, QualifySeconds, CapBps} \subseteq Nat /\ BPS > 0
  BY ReferralsAssumption
<1> QED BY <1>1, <1>2, <1>3

LEMMA ShareMap ==
  /\ \A f \in ShareMaps : DOMAIN f \subseteq Referees /\ \A w \in DOMAIN f : f[w] \in Nat
  /\ \A s \in SUBSET Referees : \A f \in [s -> Nat] : f \in ShareMaps
BY DEF ShareMaps

\* A row made by splitting an amount is a row whose shares add up to it.
LEMMA RowSplit ==
  ASSUME NEW amount \in Nat, NEW weights \in ShareMaps, amount > 0 => Total(weights) > 0
  PROVE  LET row == Row(amount, splitShares(amount, weights))
         IN  row \in OfferRec /\ Total(row.shares) = amount /\ row.amount = amount /\ ~row.sent
<1> DEFINE shares == splitShares(amount, weights)
<1>1. DOMAIN weights \subseteq Referees /\ \A w \in DOMAIN weights : weights[w] \in Nat
  BY ShareMap
<1>2. IsFiniteSet(DOMAIN weights) /\ DOMAIN weights \subseteq Holders
  BY <1>1, ReferralFacts
<1>3. shares \in [DOMAIN weights -> Nat] /\ Total(shares) = amount
  BY <1>1, <1>2, SharesAreAmount
<1>4. shares \in ShareMaps
  BY <1>1, <1>3, ShareMap
<1> HIDE DEF shares
<1> QED BY <1>3, <1>4 DEF Row, OfferRec, shares

\* preScaleBonus is a natural, and positive only where somebody has weight.
LEMMA PreScale ==
  ASSUME ReferralsType, NEW r \in Referrers
  PROVE  /\ Weights(r) \in ShareMaps
         /\ preScaleBonus(r) \in Nat
         /\ preScaleBonus(r) > 0 => Total(Weights(r)) > 0
<1> DEFINE q == Qualified(r)
           count == Cardinality(q)
           raw == (Total(Weights(r)) * rateBpsFor(count)) \div BPS
           granted == IF book.bonusEpoch[r] = bank.epoch THEN book.granted[r] ELSE 0
           room == remainingGrantCap(book.principal[r], granted)
<1>1. q \subseteq Referees /\ IsFiniteSet(q) /\ count \in Nat
  <2>1. q \subseteq Referees
    BY DEF Qualified
  <2> QED BY <2>1, ReferralFacts, FS_CardinalityType
<1>2. Weights(r) \in [q -> Nat]
  BY <1>1, ReferralFacts DEF Weights, Lower, ReferralsType, BankRec
<1>3. Weights(r) \in ShareMaps
  BY <1>1, <1>2, ShareMap
<1>4. Total(Weights(r)) \in Nat
  BY <1>1, <1>2, TotalNat
<1>5. rateBpsFor(count) \in Nat
  <2> DEFINE reached == {t \in RATE_TIERS : count >= t.min}
  <2>1. reached \subseteq [min: Nat, rate: Nat]
    BY ReferralsAssumption
  <2>2. CASE reached = {}
    BY <2>2 DEF rateBpsFor
  <2>3. CASE reached # {}
    <3> DEFINE below == {count - t.min : t \in reached}
    <3>1. below \subseteq Nat /\ below # {}
      BY <1>1, <2>1, <2>3
    <3> HIDE DEF below
    <3>2. PICK d \in below : \A e \in below : <<e, d>> \notin OpToRel(<, Nat)
      BY <3>1, NatLessThanWellFounded, WFMin
    <3>3. PICK t \in reached : d = count - t.min
      BY <3>2 DEF below
    <3>4. ASSUME NEW u \in reached PROVE u.min <= t.min
      <4>1. count - u.min \in below /\ count - u.min \in Nat /\ d \in Nat
        BY <3>1, <3>2 DEF below
      <4>2. ~(count - u.min < d)
        BY <3>2, <4>1 DEF OpToRel
      <4>3. u.min \in Nat /\ t.min \in Nat
        BY <2>1
      <4> QED BY <1>1, <3>3, <4>1, <4>2, <4>3
    <3> DEFINE top == CHOOSE t0 \in reached : \A u \in reached : u.min <= t0.min
    <3>5. top \in reached
      BY <3>4
    <3>6. rateBpsFor(count) = top.rate
      BY <2>3 DEF rateBpsFor
    <3> HIDE DEF top, reached
    <3> QED BY <2>1, <3>5, <3>6
  <2> QED BY <2>2, <2>3
<1>6. raw \in Nat /\ (Total(Weights(r)) = 0 => raw = 0)
  <2> DEFINE n == Total(Weights(r)) * rateBpsFor(count)
  <2>1. n \in Nat /\ (Total(Weights(r)) = 0 => n = 0)
    <3> HIDE DEF count
    <3> QED BY <1>4, <1>5
  <2> HIDE DEF n
  <2>2. n \div BPS \in Nat /\ (n = 0 => n \div BPS = 0)
    BY <2>1, ReferralFacts
  <2> QED BY <2>1, <2>2 DEF n
<1>7. room \in Nat
  BY ReferralFacts DEF remainingGrantCap, Floor0, ReferralsType, BookRec
<1>8. preScaleBonus(r) = Lower(raw, room)
  BY DEF preScaleBonus
<1> HIDE DEF raw, room
<1> QED BY <1>3, <1>4, <1>6, <1>7, <1>8 DEF Lower

\* A row clamped to what its referrer may still receive.
LEMMA RowClamped ==
  ASSUME NEW row \in OfferRec, Total(row.shares) = row.amount, NEW most \in Nat
  PROVE  LET out == ClampedRow(row, most)
         IN  /\ out \in OfferRec /\ Total(out.shares) = out.amount
             /\ out.amount <= most /\ out.amount <= row.amount
             /\ ~row.sent => ~out.sent
<1>1. row.amount \in Nat /\ row.shares \in ShareMaps
  BY DEF OfferRec
<1>2. CASE row.amount <= most
  BY <1>1, <1>2 DEF ClampedRow
<1>3. CASE row.amount > most
  <2>1. ClampedRow(row, most) = Row(most, splitShares(most, row.shares))
    BY <1>1, <1>3 DEF ClampedRow
  <2>2. most > 0 => Total(row.shares) > 0
    BY <1>1, <1>3
  <2>3. LET out == Row(most, splitShares(most, row.shares))
        IN  out \in OfferRec /\ Total(out.shares) = most /\ out.amount = most /\ ~out.sent
    BY <1>1, <2>2, RowSplit
  <2> QED BY <1>1, <1>3, <2>1, <2>3
<1> QED BY <1>1, <1>2, <1>3

\* What the rows hold in all is a natural.
LEMMA AmountsNat ==
  ASSUME NEW rows, DOMAIN rows \subseteq Referrers, \A r \in DOMAIN rows : rows[r] \in OfferRec
  PROVE  /\ IsFiniteSet(DOMAIN rows) /\ DOMAIN Amounts(rows) = DOMAIN rows
         /\ \A r \in DOMAIN rows : Amounts(rows)[r] \in Nat /\ Amounts(rows)[r] = rows[r].amount
         /\ Total(Amounts(rows)) \in Nat
<1>1. IsFiniteSet(DOMAIN rows)
  BY ReferralFacts
<1>2. /\ DOMAIN Amounts(rows) = DOMAIN rows
      /\ \A r \in DOMAIN rows : Amounts(rows)[r] \in Nat /\ Amounts(rows)[r] = rows[r].amount
  BY DEF Amounts, OfferRec
<1> QED BY <1>1, <1>2, TotalNat

\* The pool's cap is a natural, and grows with anybody's principal.
LEMMA CapGrows ==
  ASSUME NEW p \in [Holders -> Nat], NEW q \in [Holders -> Nat], \A h \in Holders : p[h] <= q[h]
  PROVE  PoolCap(p) \in Nat /\ PoolCap(q) \in Nat /\ PoolCap(p) <= PoolCap(q)
<1>1. Total(p) \in Nat /\ Total(q) \in Nat /\ Total(p) <= Total(q)
  BY ReferralFacts, TotalNat, TotalMonotone
<1> DEFINE m == Total(p) * CapBps
           n == Total(q) * CapBps
<1>2. m \in Nat /\ n \in Nat /\ m <= n
  <2>1. CapBps \in Nat
    BY ReferralFacts
  <2>2. Total(p) * CapBps <= Total(q) * CapBps
    <3>1. CASE CapBps = 0
      BY <1>1, <3>1
    <3>2. CASE CapBps > 0
      <4>1. CapBps * Total(p) <= CapBps * Total(q)
        BY <1>1, <2>1, <3>2, ProductOrder
      <4> QED BY <1>1, <2>1, <4>1
    <3> QED BY <2>1, <3>1, <3>2
  <2> QED BY <1>1, <2>1, <2>2
<1> HIDE DEF m, n
<1>3. m \div BPS \in Nat /\ n \div BPS \in Nat /\ m \div BPS <= n \div BPS
  BY <1>2, ReferralFacts
<1> QED BY <1>3 DEF PoolCap, m, n

\* referralGrantsDue: rows added under what is left of the cap, the pending ones
\* clamped, and those granted left as they are.
LEMMA DueRows ==
  ASSUME GrantsInv, crank.pc = "idle", bank.epoch > 0
  PROVE  LET due == referralGrantsDue
         IN  /\ DOMAIN offers \subseteq DOMAIN due /\ DOMAIN due \subseteq Referrers
             /\ \A r \in DOMAIN due : due[r] \in OfferRec /\ Total(due[r].shares) = due[r].amount
             /\ \A r \in DOMAIN offers \ Unseen : Paid(r) => due[r] = offers[r]
             /\ \A r \in Pending(due) :
                  /\ due[r].amount <= book.principal[r]
                  /\ Paid(r) => r \in bank.missed \cup Unseen
             /\ ~bank.shrunk => Total(Amounts(due)) <= PoolCap(book.principal)
<1> DEFINE old == Total(Amounts(offers))
           rs == Referrers \ DOMAIN offers
           pre == [r \in rs |-> preScaleBonus(r)]
           cap == Headroom(old)
           new == computeBonuses(rs, old)
           rec == Recorded(new)
           due == referralGrantsDue
<1>0. /\ ReferralsType /\ RowsFit /\ SharesAddUp /\ BooksBehind /\ GrantsMatchRows
      /\ book.principal \in [Holders -> Nat] /\ bank.principal \in [Holders -> Nat]
      /\ DOMAIN offers \subseteq Referrers /\ \A r \in DOMAIN offers : offers[r] \in OfferRec
  BY DEF GrantsInv, ReferralsType, BookRec, BankRec
<1>1. /\ old \in Nat /\ PoolCap(book.principal) \in Nat /\ cap \in Nat
      /\ old <= PoolCap(book.principal) => old + cap = PoolCap(book.principal)
  <2>1. old \in Nat /\ PoolCap(book.principal) \in Nat
    BY <1>0, AmountsNat, CapGrows
  <2> HIDE DEF old
  <2> QED BY <2>1 DEF Headroom, Floor0
<1>2. /\ DOMAIN new \subseteq rs
      /\ \A r \in DOMAIN new : new[r] \in Nat /\ (new[r] > 0 => pre[r] > 0)
      /\ Total(new) \in Nat /\ Total(new) <= cap
  <2>1. IsFiniteSet(rs)
    BY ReferralFacts
  <2>2. \A r \in rs : pre[r] \in Nat
    BY <1>0, PreScale
  <2>3. new = Positive(Scaled(pre, Total(pre), cap)) /\ DOMAIN pre = rs
    BY DEF computeBonuses
  <2> HIDE DEF new, pre, cap, rs
  <2> QED BY <1>1, <2>1, <2>2, <2>3, BonusesFit
<1>3. /\ DOMAIN rec = DOMAIN offers \cup DOMAIN new
      /\ \A r \in DOMAIN offers : rec[r] = offers[r]
      /\ \A r \in DOMAIN new : rec[r] = Row(new[r], splitShares(new[r], Weights(r)))
  <2> HIDE DEF new
  <2> QED BY <1>2 DEF Recorded
<1>4. ASSUME NEW r \in DOMAIN new
      PROVE  rec[r] \in OfferRec /\ Total(rec[r].shares) = rec[r].amount /\ rec[r].amount = new[r]
  <2>1. r \in Referrers /\ new[r] \in Nat /\ (new[r] > 0 => preScaleBonus(r) > 0)
    BY <1>2
  <2>2. Weights(r) \in ShareMaps /\ (new[r] > 0 => Total(Weights(r)) > 0)
    BY <1>0, <2>1, PreScale
  <2> HIDE DEF new, rec
  <2> QED BY <1>3, <2>1, <2>2, RowSplit
<1>5. /\ DOMAIN rec \subseteq Referrers
      /\ \A r \in DOMAIN rec : rec[r] \in OfferRec /\ Total(rec[r].shares) = rec[r].amount
  <2> HIDE DEF rec, new
  <2> QED BY <1>0, <1>2, <1>3, <1>4 DEF SharesAddUp
<1>6. Total(Amounts(rec)) = old + Total(new)
  <2> DEFINE was == [r \in DOMAIN rec |-> IF r \in DOMAIN offers THEN offers[r].amount ELSE 0]
             add == [r \in DOMAIN rec |-> IF r \in DOMAIN new THEN new[r] ELSE 0]
             f == Amounts(offers)
             h == Amounts(rec)
  <2>1. IsFiniteSet(DOMAIN rec)
    BY <1>5, ReferralFacts
  <2>2. /\ DOMAIN f = DOMAIN offers /\ \A r \in DOMAIN offers : f[r] \in Nat /\ f[r] = offers[r].amount
        /\ DOMAIN h = DOMAIN rec /\ \A r \in DOMAIN rec : h[r] \in Nat /\ h[r] = rec[r].amount
    BY <1>0, <1>5, AmountsNat
  <2> HIDE DEF rec, new, f, h
  <2>3. Total(was) = Total(f)
    BY <1>3, <2>1, <2>2, TotalPadded
  <2>4. Total(add) = Total(new)
    BY <1>2, <1>3, <2>1, TotalPadded
  <2>5. \A r \in DOMAIN rec : was[r] \in Nat /\ add[r] \in Nat /\ h[r] = was[r] + add[r]
    BY <1>2, <1>3, <1>4, <2>2
  <2>6. Total(h) = Total(was) + Total(add)
    <3> HIDE DEF was, add
    <3>1. DOMAIN was = DOMAIN rec /\ DOMAIN add = DOMAIN rec
      BY DEF was, add
    <3> QED BY <2>1, <2>2, <2>5, <3>1, TotalPlus
  <2> QED BY <2>3, <2>4, <2>6 DEF f, h
<1>7. /\ DOMAIN due = DOMAIN rec
      /\ \A r \in DOMAIN rec :
           due[r] = IF r \in Pending(rec)
                    THEN ClampedRow(rec[r], remainingGrantCap(book.principal[r], 0)) ELSE rec[r]
  BY DEF referralGrantsDue, Clamped
<1>8. \A r \in Referrers : /\ remainingGrantCap(book.principal[r], 0) = book.principal[r]
                           /\ book.principal[r] \in Nat
  BY <1>0, ReferralFacts DEF remainingGrantCap, Floor0
<1> HIDE DEF due, rec, new
<1>9. ASSUME NEW r \in DOMAIN rec
      PROVE  /\ due[r] \in OfferRec /\ Total(due[r].shares) = due[r].amount
             /\ due[r].amount <= rec[r].amount /\ rec[r].amount \in Nat
             /\ r \in Pending(rec) => due[r].amount <= book.principal[r] /\ ~due[r].sent
             /\ r \notin Pending(rec) => due[r] = rec[r]
  <2>1. rec[r].amount \in Nat
    BY <1>5 DEF OfferRec
  <2>2. CASE r \in Pending(rec)
    <3>1. ~rec[r].sent
      BY <2>2 DEF Pending
    <3>2. r \in Referrers
      BY <1>5
    <3> QED BY <1>5, <1>7, <1>8, <2>1, <2>2, <3>1, <3>2, RowClamped
  <2>3. CASE r \notin Pending(rec)
    BY <1>5, <1>7, <2>1, <2>3
  <2> QED BY <2>2, <2>3
<1>10. ASSUME NEW r \in DOMAIN offers \ Unseen, Paid(r) PROVE due[r] = offers[r]
  <2>1. r \in Referrers /\ rec[r] = offers[r] /\ r \in DOMAIN rec
    BY <1>0, <1>3
  <2>2. r \notin Pending(rec)
    BY <1>10, <2>1 DEF Pending, Unseen, Paid, AlreadyOnChain
  <2> QED BY <1>9, <2>1, <2>2
<1>11. ASSUME NEW r \in Pending(due)
       PROVE  due[r].amount <= book.principal[r] /\ (Paid(r) => r \in bank.missed \cup Unseen)
  <2>1. r \in DOMAIN rec /\ ~due[r].sent /\ ~AlreadyOnChain(r)
    BY <1>7 DEF Pending
  <2>2. r \in Pending(rec)
    BY <1>9, <2>1 DEF Pending
  <2>3. ASSUME Paid(r), r \notin bank.missed PROVE r \in Unseen
    <3>1. r \in Referrers
      BY <1>5, <2>1
    <3>2. r \in DOMAIN offers
      BY <1>0, <2>3, <3>1 DEF GrantsMatchRows, Paid
    <3>3. ~offers[r].sent
      BY <1>3, <2>2, <3>2 DEF Pending
    <3> QED BY <2>1, <2>3, <3>2, <3>3 DEF Unseen, Paid, AlreadyOnChain
  <2> QED BY <1>9, <2>1, <2>2, <2>3
<1>12. ~bank.shrunk => Total(Amounts(due)) <= PoolCap(book.principal)
  <2> SUFFICES ASSUME ~bank.shrunk PROVE Total(Amounts(due)) <= PoolCap(book.principal)
    OBVIOUS
  <2>1. old <= PoolCap(book.principal)
    BY <1>0 DEF RowsFit
  <2>2. Total(Amounts(rec)) <= PoolCap(book.principal)
    <3> HIDE DEF old, cap
    <3> QED BY <1>1, <1>2, <1>6, <2>1
  <2>3. Total(Amounts(due)) <= Total(Amounts(rec))
    <3>1. /\ DOMAIN Amounts(due) = DOMAIN rec /\ DOMAIN Amounts(rec) = DOMAIN rec /\ IsFiniteSet(DOMAIN rec)
          /\ \A r \in DOMAIN rec : /\ Amounts(due)[r] \in Nat /\ Amounts(due)[r] = due[r].amount
                                   /\ Amounts(rec)[r] \in Nat /\ Amounts(rec)[r] = rec[r].amount
      BY <1>5, <1>7, <1>9, AmountsNat
    <3>2. \A r \in DOMAIN rec : Amounts(due)[r] <= Amounts(rec)[r]
      BY <1>9, <3>1
    <3> QED BY <3>1, <3>2, TotalMonotone
  <2>4. Total(Amounts(due)) \in Nat /\ Total(Amounts(rec)) \in Nat
    BY <1>5, <1>7, <1>9, AmountsNat
  <2> QED BY <1>1, <2>2, <2>3, <2>4
<1> QED
  <2>1. /\ DOMAIN offers \subseteq DOMAIN due /\ DOMAIN due \subseteq Referrers
        /\ \A r \in DOMAIN due : due[r] \in OfferRec /\ Total(due[r].shares) = due[r].amount
    BY <1>3, <1>5, <1>7, <1>9
  <2> QED BY <1>10, <1>11, <1>12, <2>1 DEF due

\* A step that leaves rows and tick alone, grants nothing and keeps the epoch,
\* with a mirror between the program before and after it.
LEMMA QuietKeeps ==
  ASSUME GrantsInv, UNCHANGED <<offers, crank>>, ReferralsType',
         bank'.epoch = bank.epoch, bank'.bonusEpoch = bank.bonusEpoch, bank'.granted = bank.granted,
         bank'.missed = bank.missed,
         \A h \in Holders : /\ book'.bonusEpoch[h] <= bank.bonusEpoch[h]
                           /\ book'.bonusEpoch[h] >= book.bonusEpoch[h],
         ~bank'.shrunk => /\ ~bank.shrunk
                          /\ \A h \in Holders : /\ book.principal[h] <= book'.principal[h]
                                                /\ book'.principal[h] <= bank'.principal[h]
                                                /\ bank.principal[h] <= bank'.principal[h]
  PROVE  GrantsInv'
<1>1. /\ \A h \in Holders : /\ book.bonusEpoch[h] \in Nat /\ book'.bonusEpoch[h] \in Nat
                            /\ bank.bonusEpoch[h] \in Nat /\ bank.principal[h] \in Nat
                            /\ bank'.principal[h] \in Nat
      /\ book.principal \in [Holders -> Nat] /\ book'.principal \in [Holders -> Nat]
      /\ bank.epoch \in Nat /\ Referrers \subseteq Holders
      /\ DOMAIN offers \subseteq Referrers /\ \A r \in DOMAIN offers : offers[r] \in OfferRec
      /\ crank.batch \subseteq Referrers
  BY ReferralFacts DEF GrantsInv, ReferralsType, BankRec, BookRec, CrankRec
<1>2. BooksBehind'
  BY <1>1 DEF GrantsInv, BooksBehind
<1>3. GrantsMatchRows' /\ SharesAddUp'
  BY DEF GrantsInv, GrantsMatchRows, SharesAddUp
<1>5. BatchUnpaid'
  BY DEF GrantsInv, BatchUnpaid, Paid
<1>6. RowsFit'
  <2> SUFFICES ASSUME ~bank'.shrunk
               PROVE  /\ \A h \in Holders : book'.principal[h] <= bank'.principal[h]
                      /\ Total(Amounts(offers)) <= PoolCap(book'.principal)
                      /\ crank.pc = "send" => \A r \in crank.batch : offers[r].amount <= bank'.principal[r]
    BY DEF RowsFit, PoolCap
  <2>1. Total(Amounts(offers)) <= PoolCap(book'.principal)
    <3>1. Total(Amounts(offers)) \in Nat
      BY <1>1, AmountsNat
    <3>2. /\ PoolCap(book.principal) \in Nat /\ PoolCap(book'.principal) \in Nat
          /\ PoolCap(book.principal) <= PoolCap(book'.principal)
      BY <1>1, CapGrows
    <3> QED BY <3>1, <3>2 DEF GrantsInv, RowsFit
  <2>2. ASSUME crank.pc = "send", NEW r \in crank.batch PROVE offers[r].amount <= bank'.principal[r]
    <3>1. r \in DOMAIN offers /\ offers[r].amount <= bank.principal[r]
      BY <2>2 DEF GrantsInv, BatchUnpaid, RowsFit
    <3>2. offers[r].amount \in Nat /\ r \in Holders
      BY <1>1, <2>2, <3>1 DEF OfferRec
    <3> QED BY <1>1, <3>1, <3>2
  <2> QED BY <2>1, <2>2
<1> QED BY <1>2, <1>3, <1>5, <1>6 DEF GrantsInv

LEMMA MoveKeeps ==
  ASSUME GrantsInv, NEW w \in Holders, NEW n \in 0..MaxHolding, MovePrincipal(w, n)
  PROVE  GrantsInv'
<1>1. ReferralsType /\ RowsFit /\ BooksBehind
  BY DEF GrantsInv
<1>2. /\ UNCHANGED <<book, offers, crank>> /\ n \in Nat
      /\ bank' = [bank EXCEPT !.principal[w] = n, !.moves = @ + 1,
                             !.shrunk = @ \/ n < bank.principal[w]]
      /\ held' = IF w \in Referees THEN [held EXCEPT ![w] = applyReferralEvent(w, n)] ELSE held
  BY ReferralsAssumption DEF MovePrincipal
<1>3. applyReferralEvent(w, n) \in Int \/ w \notin Referees
  BY <1>1 DEF applyReferralEvent, ReferralsType
<1>4. held' \in [Referees -> Int]
  BY <1>1, <1>2, <1>3 DEF ReferralsType
<1>5. bank' \in BankRec
  <2> DEFINE less == (bank.shrunk \/ n < bank.principal[w])
  <2>1. less \in BOOLEAN
    OBVIOUS
  <2> DEFINE left == [bank.principal EXCEPT ![w] = n]
             count == bank.moves + 1
  <2>2. left \in [Holders -> Nat] /\ count \in Nat
    BY <1>1, <1>2 DEF ReferralsType, BankRec
  <2>3. bank' = [bank EXCEPT !.principal = left, !.moves = count, !.shrunk = less]
    BY <1>2
  <2> HIDE DEF less, left, count
  <2> QED BY <1>1, <2>1, <2>2, <2>3 DEF ReferralsType, BankRec
<1>6. ReferralsType'
  BY <1>1, <1>2, <1>4, <1>5 DEF ReferralsType
<1>7. /\ bank'.epoch = bank.epoch /\ bank'.bonusEpoch = bank.bonusEpoch /\ bank'.granted = bank.granted
      /\ bank'.missed = bank.missed
      /\ bank'.principal = [bank.principal EXCEPT ![w] = n]
      /\ bank'.shrunk = (bank.shrunk \/ n < bank.principal[w])
  BY <1>1, <1>2 DEF ReferralsType, BankRec
<1>8. /\ \A h \in Holders : /\ bank.principal[h] \in Nat /\ book.principal[h] \in Nat
                            /\ bank.bonusEpoch[h] \in Nat /\ book.bonusEpoch[h] \in Nat
      /\ bank.principal \in [Holders -> Nat]
  BY <1>1 DEF ReferralsType, BankRec, BookRec
<1>9. ~bank'.shrunk => /\ ~bank.shrunk
                       /\ \A h \in Holders : /\ book.principal[h] <= bank'.principal[h]
                                             /\ bank.principal[h] <= bank'.principal[h]
  <2> SUFFICES ASSUME ~bank'.shrunk, NEW h \in Holders
               PROVE  /\ ~bank.shrunk
                      /\ book.principal[h] <= bank'.principal[h] /\ bank.principal[h] <= bank'.principal[h]
    BY <1>7
  <2>1. ~bank.shrunk /\ ~(n < bank.principal[w])
    BY <1>7
  <2>2. book.principal[h] <= bank.principal[h]
    BY <1>1, <2>1 DEF RowsFit
  <2>3. bank'.principal[h] = IF h = w THEN n ELSE bank.principal[h]
    BY <1>7, <1>8
  <2> QED BY <1>2, <1>8, <2>1, <2>2, <2>3
<1> QED
  BY <1>1, <1>2, <1>6, <1>7, <1>8, <1>9, QuietKeeps DEF BooksBehind

LEMMA HoldKeeps ==
  ASSUME GrantsInv, HoldOn
  PROVE  GrantsInv'
<1>1. /\ ReferralsType /\ RowsFit /\ BooksBehind /\ UNCHANGED <<bank, book, offers, crank>>
      /\ held' = [w \in Referees |-> IF held[w] = -1 THEN -1 ELSE Lower(held[w] + 1, QualifySeconds)]
  BY DEF GrantsInv, HoldOn
<1>2. held' \in [Referees -> Int]
  BY <1>1, ReferralFacts DEF ReferralsType, Lower
<1>3. ReferralsType'
  BY <1>1, <1>2 DEF ReferralsType
<1>4. \A h \in Holders : /\ bank.principal[h] \in Nat /\ book.principal[h] \in Nat
                         /\ bank.bonusEpoch[h] \in Nat /\ book.bonusEpoch[h] \in Nat
  BY <1>1 DEF ReferralsType, BankRec, BookRec
<1> QED BY <1>1, <1>3, <1>4, QuietKeeps DEF RowsFit, BooksBehind

LEMMA SyncKeeps ==
  ASSUME GrantsInv, MirrorSync
  PROVE  GrantsInv'
<1>1. /\ ReferralsType /\ RowsFit /\ BooksBehind /\ UNCHANGED <<bank, held, offers, crank>>
      /\ book' = Mirror(bank)
  BY DEF GrantsInv, MirrorSync
<1>2. /\ book'.principal = bank.principal /\ book'.bonusEpoch = bank.bonusEpoch
      /\ book' \in BookRec
  BY <1>1 DEF Mirror, ReferralsType, BankRec, BookRec
<1>3. ReferralsType'
  BY <1>1, <1>2 DEF ReferralsType
<1>4. \A h \in Holders : /\ bank.principal[h] \in Nat /\ book.principal[h] \in Nat
                         /\ bank.bonusEpoch[h] \in Nat /\ book.bonusEpoch[h] \in Nat
  BY <1>1 DEF ReferralsType, BankRec, BookRec
<1> QED BY <1>1, <1>2, <1>3, <1>4, QuietKeeps DEF RowsFit, BooksBehind

\* Nothing is recorded in no row.
LEMMA NoRows == DOMAIN <<>> = {} /\ Total(Amounts(<<>>)) = 0
<1>1. DOMAIN <<>> = {}
  OBVIOUS
<1>2. DOMAIN Amounts(<<>>) = {} /\ IsFiniteSet({})
  BY <1>1, FS_EmptySet DEF Amounts
<1> HIDE <1>1
<1> QED BY <1>1, <1>2, TotalZero

LEMMA EpochKeeps ==
  ASSUME GrantsInv, GrantEpoch
  PROVE  GrantsInv'
<1>1. /\ ReferralsType /\ BooksBehind /\ UNCHANGED <<book, held, crank>> /\ crank.pc = "idle"
      /\ offers' = <<>>
      /\ bank' = [bank EXCEPT !.epoch = @ + 1, !.shrunk = (book.principal # bank.principal),
                             !.missed = {}]
  BY DEF GrantsInv, GrantEpoch
<1>2. bank' \in BankRec /\ bank'.shrunk = (book.principal # bank.principal)
  <2> DEFINE less == (book.principal # bank.principal)
  <2>1. less \in BOOLEAN
    OBVIOUS
  <2> DEFINE next == bank.epoch + 1
  <2>2. bank' = [bank EXCEPT !.epoch = next, !.shrunk = less, !.missed = {}] /\ bank \in BankRec
    BY <1>1 DEF ReferralsType
  <2>3. next \in Nat
    BY <2>2 DEF BankRec
  <2> HIDE DEF less, next
  <2>4. bank' \in BankRec /\ bank'.shrunk = less
    BY <2>1, <2>2, <2>3 DEF BankRec
  <2> QED BY <2>4 DEF less
<1>3. /\ bank'.epoch = bank.epoch + 1 /\ bank'.bonusEpoch = bank.bonusEpoch
      /\ bank'.principal = bank.principal /\ bank.epoch \in Nat
      /\ \A h \in Holders : /\ bank.principal[h] \in Nat /\ book.principal[h] \in Nat
                            /\ bank.bonusEpoch[h] \in Nat /\ book.bonusEpoch[h] \in Nat
      /\ book.principal \in [Holders -> Nat]
  BY <1>1 DEF ReferralsType, BankRec, BookRec
<1>4. ReferralsType'
  BY <1>1, <1>2, NoRows DEF ReferralsType
<1>5. BooksBehind' /\ \A h \in Holders : ~Paid(h)'
  BY <1>1, <1>3 DEF BooksBehind, Paid
<1>6. GrantsMatchRows'
  BY <1>5, ReferralFacts DEF GrantsMatchRows, Paid
<1>7. SharesAddUp' /\ BatchUnpaid'
  BY <1>1, NoRows DEF SharesAddUp, BatchUnpaid
<1>8. RowsFit'
  <2>1. PoolCap(book.principal) \in Nat
    BY <1>3, CapGrows
  <2>2. Total(Amounts(offers')) <= PoolCap(book'.principal)
    BY <1>1, <2>1, NoRows
  <2>3. ~bank'.shrunk => \A h \in Holders : book'.principal[h] <= bank'.principal[h]
    <3> SUFFICES ASSUME ~bank'.shrunk, NEW h \in Holders PROVE book'.principal[h] <= bank'.principal[h]
      OBVIOUS
    <3>1. book.principal = bank.principal
      BY <1>2
    <3> QED BY <1>1, <1>3, <3>1
  <2> QED BY <1>1, <2>2, <2>3 DEF RowsFit, PoolCap
<1> QED BY <1>4, <1>5, <1>6, <1>7, <1>8 DEF GrantsInv

LEMMA DueKeeps ==
  ASSUME GrantsInv, GrantsDue
  PROVE  GrantsInv'
<1> DEFINE due == referralGrantsDue
           now == (book = Mirror(bank))
           sending == [pc |-> "send", batch |-> Batch(ToSend(due)), fresh |-> now]
<1>1. /\ ReferralsType /\ BooksBehind /\ GrantsMatchRows /\ RowsFit
      /\ UNCHANGED <<book, held>> /\ bank' = [bank EXCEPT !.missed = @ \cup Unseen]
      /\ crank.pc = "idle" /\ bank.epoch > 0
      /\ offers' = due /\ crank' \in {crank, sending}
  BY DEF GrantsInv, GrantsDue
<1>2. /\ DOMAIN offers \subseteq DOMAIN due /\ DOMAIN due \subseteq Referrers
      /\ \A r \in DOMAIN due : due[r] \in OfferRec /\ Total(due[r].shares) = due[r].amount
      /\ \A r \in DOMAIN offers \ Unseen : Paid(r) => due[r] = offers[r]
      /\ \A r \in Pending(due) : /\ due[r].amount <= book.principal[r]
                                 /\ Paid(r) => r \in bank.missed \cup Unseen
      /\ ~bank.shrunk => Total(Amounts(due)) <= PoolCap(book.principal)
  BY <1>1, DueRows
<1>3. /\ sending.pc = "send" /\ sending.batch \subseteq Pending(due)
      /\ Pending(due) \subseteq DOMAIN due /\ sending \in CrankRec
  <2>1. sending.batch \subseteq Pending(due) /\ Pending(due) \subseteq DOMAIN due
    BY DEF Batch, ToSend, Pending
  <2>2. now \in BOOLEAN
    OBVIOUS
  <2> HIDE DEF now
  <2> QED BY <1>2, <2>1, <2>2 DEF CrankRec
<1>4. /\ \A h \in Holders : /\ bank.principal[h] \in Nat /\ book.principal[h] \in Nat
      /\ Referrers \subseteq Holders
  BY <1>1, ReferralFacts DEF ReferralsType, BankRec, BookRec
<1> HIDE DEF due, sending
<1>11. /\ bank' \in BankRec /\ bank'.missed = bank.missed \cup Unseen
       /\ bank'.epoch = bank.epoch /\ bank'.bonusEpoch = bank.bonusEpoch
       /\ bank'.granted = bank.granted /\ bank'.principal = bank.principal /\ bank'.shrunk = bank.shrunk
  <2>1. Unseen \subseteq Referrers /\ bank \in BankRec
    BY <1>1 DEF Unseen, ReferralsType
  <2> QED BY <1>1, <2>1 DEF BankRec
<1>5. ReferralsType'
  BY <1>1, <1>2, <1>3, <1>11 DEF ReferralsType
<1>6. BooksBehind'
  BY <1>1, <1>3, <1>11 DEF BooksBehind
<1>7. GrantsMatchRows'
  <2> SUFFICES ASSUME NEW r \in Referrers, r \notin bank.missed, r \notin Unseen, Paid(r)
               PROVE  r \in DOMAIN due /\ bank.granted[r] = due[r].amount
    BY <1>1, <1>11 DEF GrantsMatchRows, Paid
  <2>1. r \in DOMAIN offers /\ bank.granted[r] = offers[r].amount
    BY <1>1 DEF GrantsMatchRows, Paid
  <2> QED BY <1>2, <2>1
<1>8. SharesAddUp'
  BY <1>1, <1>2 DEF SharesAddUp
<1>9. BatchUnpaid'
  <2> SUFFICES ASSUME crank'.pc = "send", NEW r \in crank'.batch, Paid(r)
               PROVE  r \in DOMAIN due /\ r \in bank.missed \cup Unseen
    <3>1. ASSUME crank'.pc = "send", NEW r \in crank'.batch PROVE r \in DOMAIN due
      BY <1>1, <1>3, <3>1
    <3> QED BY <1>1, <1>11, <3>1 DEF BatchUnpaid, Paid
  <2> QED BY <1>1, <1>2, <1>3
<1>10. RowsFit'
  <2> SUFFICES ASSUME ~bank.shrunk
               PROVE  /\ \A h \in Holders : book.principal[h] <= bank.principal[h]
                      /\ Total(Amounts(due)) <= PoolCap(book.principal)
                      /\ crank'.pc = "send" => \A r \in crank'.batch : due[r].amount <= bank.principal[r]
    BY <1>1, <1>11 DEF RowsFit, PoolCap, Amounts
  <2>1. \A h \in Holders : book.principal[h] <= bank.principal[h]
    BY <1>1 DEF RowsFit
  <2>2. ASSUME crank'.pc = "send", NEW r \in crank'.batch PROVE due[r].amount <= bank.principal[r]
    <3>1. r \in Pending(due) /\ r \in Holders
      BY <1>1, <1>2, <1>3, <1>4, <2>2
    <3>2. due[r].amount \in Nat
      BY <1>2, <1>3, <3>1 DEF OfferRec
    <3> QED BY <1>2, <1>4, <2>1, <3>1, <3>2
  <2> QED BY <1>2, <2>1, <2>2
<1> QED BY <1>5, <1>6, <1>7, <1>8, <1>9, <1>10 DEF GrantsInv

LEMMA SendKeeps ==
  ASSUME GrantsInv, SendGrants
  PROVE  GrantsInv'
<1>1. /\ ReferralsType /\ BooksBehind /\ GrantsMatchRows /\ RowsFit /\ SharesAddUp /\ BatchUnpaid
      /\ UNCHANGED <<book, held, offers>> /\ crank.pc = "send" /\ bank.epoch > 0
  BY DEF GrantsInv, SendGrants, BooksBehind
<1>2. /\ crank.batch \subseteq Referrers /\ Referrers \subseteq Holders
      /\ \A r \in crank.batch : /\ r \in DOMAIN offers /\ offers[r].amount \in Nat
                                /\ r \notin bank.missed => ~Paid(r)
      /\ \A h \in Holders : bank.bonusEpoch[h] \in Nat /\ bank.granted[h] \in Nat /\ book.bonusEpoch[h] \in Nat
      /\ bank.epoch \in Nat
  BY <1>1, ReferralFacts DEF ReferralsType, BankRec, BookRec, CrankRec, OfferRec, BatchUnpaid
<1>3. CASE UNCHANGED bank /\ crank' = TickIdle
  <2>1. TickIdle \in CrankRec /\ TickIdle.pc = "idle"
    BY DEF TickIdle, CrankRec
  <2>2. ReferralsType' /\ BooksBehind' /\ GrantsMatchRows' /\ SharesAddUp'
    BY <1>1, <1>3, <2>1 DEF ReferralsType, BooksBehind, GrantsMatchRows, SharesAddUp
  <2>3. BatchUnpaid'
    BY <1>1, <1>3, <2>1 DEF BatchUnpaid, Paid
  <2>4. RowsFit'
    BY <1>1, <1>3, <2>1 DEF RowsFit, PoolCap, Amounts
  <2> QED BY <2>2, <2>3, <2>4 DEF GrantsInv
<1>4. CASE \E pc \in {"mark", "down"} :
             /\ crank' = [crank EXCEPT !.pc = pc]
             /\ bank' = [bank EXCEPT
                  !.granted = [r \in Holders |-> IF r \in crank.batch THEN GrantedBefore(r) + offers[r].amount
                                                 ELSE @[r]],
                  !.bonusEpoch = [r \in Holders |-> IF r \in crank.batch THEN bank.epoch ELSE @[r]]]
  <2> DEFINE given == [r \in Holders |-> IF r \in crank.batch THEN GrantedBefore(r) + offers[r].amount
                                         ELSE bank.granted[r]]
             paid == [r \in Holders |-> IF r \in crank.batch THEN bank.epoch ELSE bank.bonusEpoch[r]]
  <2>1. /\ bank' = [bank EXCEPT !.granted = given, !.bonusEpoch = paid]
        /\ crank'.pc \in {"mark", "down"} /\ crank'.batch = crank.batch /\ crank' \in CrankRec
    BY <1>1, <1>4 DEF ReferralsType, BankRec, CrankRec
  <2>2. /\ given \in [Holders -> Nat] /\ paid \in [Holders -> Nat]
        /\ \A r \in crank.batch : /\ paid[r] = bank.epoch
                                  /\ r \notin bank.missed => given[r] = offers[r].amount
        /\ \A r \in Holders \ crank.batch : given[r] = bank.granted[r] /\ paid[r] = bank.bonusEpoch[r]
    BY <1>2 DEF GrantedBefore, Paid
  <2> HIDE DEF given, paid
  <2>3. /\ bank' \in BankRec /\ bank'.granted = given /\ bank'.bonusEpoch = paid
        /\ bank'.epoch = bank.epoch /\ bank'.principal = bank.principal /\ bank'.shrunk = bank.shrunk
        /\ bank'.missed = bank.missed
    BY <1>1, <2>1, <2>2 DEF ReferralsType, BankRec
  <2>4. ReferralsType' /\ SharesAddUp' /\ BatchUnpaid'
    BY <1>1, <2>1, <2>3 DEF ReferralsType, SharesAddUp, BatchUnpaid
  <2>5. BooksBehind'
    <3> SUFFICES ASSUME NEW h \in Holders
                 PROVE  /\ book.bonusEpoch[h] <= paid[h] /\ paid[h] <= bank.epoch
                        /\ h \notin Referrers => paid[h] = 0
      BY <1>1, <2>1, <2>3 DEF BooksBehind
    <3>1. /\ book.bonusEpoch[h] <= bank.bonusEpoch[h] /\ bank.bonusEpoch[h] <= bank.epoch
          /\ h \notin Referrers => bank.bonusEpoch[h] = 0
      BY <1>1 DEF BooksBehind
    <3> QED BY <1>2, <2>2, <3>1
  <2>6. GrantsMatchRows'
    <3> SUFFICES ASSUME NEW r \in Referrers \ bank.missed, paid[r] = bank.epoch
                 PROVE  r \in DOMAIN offers /\ given[r] = offers[r].amount
      BY <1>1, <2>3 DEF GrantsMatchRows
    <3> QED BY <1>1, <1>2, <2>2 DEF GrantsMatchRows
  <2>8. RowsFit'
    BY <1>1, <2>1, <2>3 DEF RowsFit, PoolCap, Amounts
  <2> QED BY <2>4, <2>5, <2>6, <2>8 DEF GrantsInv
<1> QED
  <2>1. \/ UNCHANGED bank /\ crank' = TickIdle
        \/ \E pc \in {"mark", "down"} :
             /\ crank' = [crank EXCEPT !.pc = pc]
             /\ bank' = [bank EXCEPT
                  !.granted = [r \in Holders |-> IF r \in crank.batch THEN GrantedBefore(r) + offers[r].amount
                                                 ELSE @[r]],
                  !.bonusEpoch = [r \in Holders |-> IF r \in crank.batch THEN bank.epoch ELSE @[r]]]
    BY DEF SendGrants
  <2> QED BY <1>3, <1>4, <2>1

LEMMA MarkKeeps ==
  ASSUME GrantsInv, MarkSent
  PROVE  GrantsInv'
<1>1. /\ ReferralsType /\ BooksBehind /\ GrantsMatchRows /\ RowsFit /\ SharesAddUp
      /\ UNCHANGED <<bank, book, held>> /\ crank.pc = "mark" /\ crank' = TickIdle
      /\ offers' = [r \in DOMAIN offers |-> [offers[r] EXCEPT !.sent = @ \/ r \in crank.batch]]
  BY DEF GrantsInv, MarkSent
<1>2. TickIdle \in CrankRec /\ TickIdle.pc = "idle"
  BY DEF TickIdle, CrankRec
<1>3. /\ DOMAIN offers' = DOMAIN offers
      /\ \A r \in DOMAIN offers : /\ offers'[r] \in OfferRec
                                  /\ offers'[r].amount = offers[r].amount
                                  /\ offers'[r].shares = offers[r].shares
                                  /\ offers'[r].sent <=> offers[r].sent \/ r \in crank.batch
  <2> SUFFICES ASSUME NEW r \in DOMAIN offers
               PROVE  /\ offers'[r] \in OfferRec
                      /\ offers'[r].amount = offers[r].amount
                      /\ offers'[r].shares = offers[r].shares
                      /\ offers'[r].sent <=> offers[r].sent \/ r \in crank.batch
    BY <1>1
  <2> DEFINE flag == (offers[r].sent \/ r \in crank.batch)
  <2>1. flag \in BOOLEAN
    OBVIOUS
  <2>2. offers'[r] = [offers[r] EXCEPT !.sent = flag] /\ offers[r] \in OfferRec
    BY <1>1 DEF ReferralsType
  <2> HIDE DEF flag
  <2>3. /\ offers'[r] \in OfferRec /\ offers'[r].amount = offers[r].amount
        /\ offers'[r].shares = offers[r].shares /\ offers'[r].sent = flag
    BY <2>1, <2>2 DEF OfferRec
  <2> QED BY <2>3 DEF flag
<1>4. Amounts(offers') = Amounts(offers)
  BY <1>3 DEF Amounts
<1>5. ReferralsType' /\ BooksBehind'
  BY <1>1, <1>2, <1>3 DEF ReferralsType, BooksBehind
<1>6. GrantsMatchRows'
  BY <1>1, <1>3 DEF GrantsMatchRows
<1>7. SharesAddUp' /\ BatchUnpaid'
  BY <1>1, <1>2, <1>3 DEF SharesAddUp, BatchUnpaid
<1>8. RowsFit'
  <2> SUFFICES ASSUME ~bank.shrunk
               PROVE  /\ \A h \in Holders : book.principal[h] <= bank.principal[h]
                      /\ Total(Amounts(offers')) <= PoolCap(book.principal)
    BY <1>1, <1>2 DEF RowsFit, PoolCap
  <2> QED BY <1>1, <1>4 DEF RowsFit
<1> QED BY <1>5, <1>6, <1>7, <1>8 DEF GrantsInv

LEMMA RecoverKeeps ==
  ASSUME GrantsInv, Recover
  PROVE  GrantsInv'
<1>1. /\ ReferralsType /\ BooksBehind /\ GrantsMatchRows /\ RowsFit /\ SharesAddUp
      /\ UNCHANGED <<bank, book, held, offers>> /\ crank' = TickIdle
  BY DEF GrantsInv, Recover
<1>2. TickIdle \in CrankRec /\ TickIdle.pc = "idle"
  BY DEF TickIdle, CrankRec
<1>3. ReferralsType' /\ BooksBehind' /\ GrantsMatchRows' /\ SharesAddUp' /\ BatchUnpaid'
  BY <1>1, <1>2 DEF ReferralsType, BooksBehind, GrantsMatchRows, SharesAddUp, BatchUnpaid
<1>4. RowsFit'
  BY <1>1, <1>2 DEF RowsFit, PoolCap, Amounts
<1> QED BY <1>3, <1>4 DEF GrantsInv

LEMMA GrantsStart == ReferralsInit => GrantsInv
<1> SUFFICES ASSUME ReferralsInit PROVE GrantsInv
  OBVIOUS
<1>1. /\ bank = [principal |-> [w \in Holders |-> QUALIFY_PRINCIPAL], bonusEpoch |-> [w \in Holders |-> 0],
                granted |-> [w \in Holders |-> 0], epoch |-> 0, moves |-> 0, shrunk |-> FALSE,
                missed |-> {}]
      /\ book = Mirror(bank) /\ held \in [Referees -> {0, QualifySeconds}]
      /\ offers = <<>> /\ crank = TickIdle
  BY DEF ReferralsInit
<1>2. /\ bank \in BankRec /\ bank.epoch = 0 /\ book.bonusEpoch = bank.bonusEpoch
      /\ \A h \in Holders : bank.bonusEpoch[h] = 0
      /\ book.principal = bank.principal /\ book \in BookRec /\ bank.principal \in [Holders -> Nat]
      /\ \A h \in Holders : bank.principal[h] \in Nat
  BY <1>1, ReferralFacts DEF BankRec, BookRec, Mirror
<1>3. crank \in CrankRec /\ crank.pc = "idle"
  BY <1>1 DEF TickIdle, CrankRec
<1>4. ReferralsType
  BY <1>1, <1>2, <1>3, NoRows, ReferralFacts DEF ReferralsType
<1>5. BooksBehind /\ GrantsMatchRows /\ BatchUnpaid /\ SharesAddUp
  BY <1>1, <1>2, <1>3, NoRows DEF BooksBehind, GrantsMatchRows, BatchUnpaid, SharesAddUp
<1>6. RowsFit
  <2>1. PoolCap(book.principal) \in Nat
    BY <1>2, CapGrows
  <2> QED BY <1>1, <1>2, <1>3, <2>1, NoRows DEF RowsFit
<1> QED BY <1>4, <1>5, <1>6 DEF GrantsInv

\* What was granted and what is about to be are rows apart, so together they
\* are no more than all rows hold.
LEMMA BatchAccepted ==
  ASSUME GrantsInv, crank.pc = "send", ~bank.shrunk, bank.missed = {}
  PROVE  GrantsAccepted
<1>1. /\ ReferralsType /\ BooksBehind /\ GrantsMatchRows /\ RowsFit /\ BatchUnpaid
      /\ bank.epoch > 0 /\ bank.epoch \in Nat
      /\ crank.batch \subseteq Referrers /\ Referrers \subseteq Holders
      /\ DOMAIN offers \subseteq Referrers /\ \A r \in DOMAIN offers : offers[r] \in OfferRec
      /\ \A h \in Holders : bank.principal[h] \in Nat /\ bank.granted[h] \in Nat
      /\ book.principal \in [Holders -> Nat] /\ bank.principal \in [Holders -> Nat]
  BY ReferralFacts DEF GrantsInv, ReferralsType, BooksBehind, BankRec, BookRec, CrankRec
<1>2. /\ \A r \in crank.batch : /\ r \in DOMAIN offers /\ ~Paid(r) /\ offers[r].amount \in Nat
                                /\ GrantedBefore(r) = 0 /\ offers[r].amount <= bank.principal[r]
      /\ \A r \in DOMAIN offers : offers[r].amount \in Nat
  BY <1>1 DEF BatchUnpaid, RowsFit, GrantedBefore, Paid, OfferRec
<1> DEFINE before == [r \in Holders |-> GrantedBefore(r)]
           batch == [r \in crank.batch |-> offers[r].amount]
           wide == [r \in Holders |-> IF r \in crank.batch THEN offers[r].amount ELSE 0]
           both == [r \in Holders |-> before[r] + wide[r]]
           rows == Amounts(offers)
           all == [r \in Holders |-> IF r \in DOMAIN offers THEN offers[r].amount ELSE 0]
<1>3. ASSUME NEW r \in Holders
      PROVE  /\ before[r] \in Nat /\ wide[r] \in Nat /\ all[r] \in Nat
             /\ both[r] \in Nat /\ both[r] <= all[r]
  <2>1. CASE Paid(r)
    <3>1. r \in Referrers
      BY <1>1, <2>1 DEF BooksBehind, Paid
    <3>2. r \in DOMAIN offers /\ GrantedBefore(r) = offers[r].amount /\ r \notin crank.batch
      BY <1>1, <1>2, <2>1, <3>1 DEF GrantsMatchRows, GrantedBefore, Paid
    <3> QED BY <1>2, <3>2
  <2>2. CASE ~Paid(r)
    <3>1. GrantedBefore(r) = 0
      BY <2>2 DEF GrantedBefore, Paid
    <3> QED BY <1>2, <3>1
  <2> QED BY <2>1, <2>2
<1>4. IsFiniteSet(Holders)
  BY ReferralFacts
<1>5. Total(wide) = Total(batch)
  BY <1>1, <1>2, <1>4, TotalPadded
<1>6. Total(all) = Total(rows)
  <2>1. DOMAIN rows = DOMAIN offers /\ \A r \in DOMAIN offers : rows[r] = offers[r].amount
    BY DEF Amounts
  <2> HIDE DEF rows
  <2> QED BY <1>1, <1>2, <1>4, <2>1, TotalPadded
<1>7. Total(both) = Total(before) + Total(wide)
  <2> DEFINE D == Holders
  <2>1. DOMAIN before = Holders /\ DOMAIN wide = Holders /\ DOMAIN both = Holders
    OBVIOUS
  <2>2. \A r \in Holders : both[r] = before[r] + wide[r] /\ before[r] \in Nat /\ wide[r] \in Nat
    BY <1>3
  <2> HIDE DEF before, wide, both
  <2> QED BY <1>4, <2>1, <2>2, TotalPlus
<1>8. Total(both) <= Total(all) /\ Total(both) \in Nat /\ Total(all) \in Nat
  <2>1. DOMAIN both = Holders /\ DOMAIN all = Holders
    OBVIOUS
  <2>2. \A r \in Holders : both[r] \in Nat /\ all[r] \in Nat /\ both[r] <= all[r]
    BY <1>3
  <2> HIDE DEF both, all
  <2> QED BY <1>4, <2>1, <2>2, TotalMonotone, TotalNat
<1>9. /\ Total(rows) <= PoolCap(book.principal)
      /\ PoolCap(book.principal) <= PoolCap(bank.principal)
      /\ PoolCap(book.principal) \in Nat /\ PoolCap(bank.principal) \in Nat
  BY <1>1, CapGrows DEF RowsFit
<1>10. GrantedInAll = Total(before) + Total(batch)
  BY DEF GrantedInAll
<1> HIDE DEF before, batch, wide, both, rows, all
<1>11. GrantedInAll <= PoolCap(bank.principal)
  BY <1>5, <1>6, <1>7, <1>8, <1>9, <1>10
<1> QED BY <1>2, <1>11 DEF GrantsAccepted

\* Step 3b as a whole (tick.ts:637, referral-bonus.ts:107): for any wallets, tiers,
\* caps and amounts, shares add up, and but for a grant missed on a mirror that
\* lagged, what was granted is what the rows say and a batch is not refused
\* while nobody has withdrawn.
THEOREM GrantsHold == ReferralsSpec => []GrantsSound
<1>1. GrantsInv /\ [ReferralsNext]_referralVars => GrantsInv'
  <2> SUFFICES ASSUME GrantsInv, [ReferralsNext]_referralVars PROVE GrantsInv'
    OBVIOUS
  <2>1. CASE UNCHANGED referralVars
    BY <2>1 DEF referralVars, GrantsInv, ReferralsType, BooksBehind, GrantsMatchRows, SharesAddUp,
                BatchUnpaid, RowsFit, Paid, PoolCap, Amounts
  <2>2. CASE ReferralsNext
    BY <2>2, MoveKeeps, HoldKeeps, SyncKeeps, EpochKeeps, DueKeeps, SendKeeps, MarkKeeps, RecoverKeeps
       DEF ReferralsNext
  <2> QED BY <2>1, <2>2
<1>2. GrantsInv => GrantsSound
  BY BatchAccepted DEF GrantsInv, GrantsSound, BatchFits
<1> QED BY <1>1, <1>2, GrantsStart, PTL DEF ReferralsSpec

-----------------------------------------------------------------------------
(* The operator's alarm clock: what a deadline, an age and a sleep are.     *)

RoundNames == {"None", "Open", "Requested", "Settled", "Voided"}
PrevNames == {"None", "Registering", "Drawing", "Drawn", "Paid", "RolledOver"}

ChainRec ==
  [epoch: [id: Nat, age: Int],
   prev: [st: PrevNames, age: Int, ended: Int, answered: BOOLEAN, winner: Depositors \cup {HouseWallet}],
   round: [id: Nat, st: RoundNames, age: Int, waited: Int, answered: BOOLEAN],
   joined: [Depositors -> Nat], reg: [Depositors -> Int], pend: [Depositors -> Nat],
   pos: SUBSET ((Depositors \cup {Sparring}) \X Nat), terminal: SUBSET Nat,
   shutdown: BOOLEAN, gamePaused: BOOLEAN, jackpotPaused: BOOLEAN]

\* A tick in flight works on accounts it once read.
TickTrue ==
  \/ tick = Idle
  \/ /\ {"pc", "ctx", "cursor", "acted", "threw", "check", "w"} \subseteq DOMAIN tick
     /\ tick.pc # "idle" /\ tick.ctx \in ChainRec

\* One sleep: the timer's while nothing runs, the tick's own otherwise.
SleepTrue ==
  sleep = IF tick.pc = "idle" THEN [pending |-> 1, held |-> TRUE, owed |-> 0]
          ELSE [pending |-> 0, held |-> FALSE, owed |-> 1]

WakeInv == chain \in ChainRec /\ TickTrue /\ SleepTrue

\* The least of naturals is one of them, and under all.
LEMMA LeastOf ==
  ASSUME NEW S \in SUBSET Nat, S # {}
  PROVE  Least(S) \in S /\ \A k \in S : Least(S) <= k
<1>1. PICK d \in S : \A e \in S : <<e, d>> \notin OpToRel(<, Nat)
  BY NatLessThanWellFounded, WFMin
<1>2. \A e \in S : d <= e
  <2> SUFFICES ASSUME NEW e \in S PROVE d <= e
    OBVIOUS
  <2>1. ~(e < d)
    BY <1>1 DEF OpToRel
  <2> QED BY <2>1
<1> QED BY <1>2 DEF Least

LEMMA LeastOfTwo ==
  ASSUME NEW a \in Int, NEW b \in Int
  PROVE  Least({a, b}) = IF a <= b THEN a ELSE b
<1> DEFINE m == IF a <= b THEN a ELSE b
<1>1. m \in {a, b} /\ \A k \in {a, b} : m <= k
  OBVIOUS
<1>2. \A n \in {a, b} : (\A k \in {a, b} : n <= k) => n = m
  OBVIOUS
<1>3. Least({a, b}) \in {a, b} /\ \A k \in {a, b} : Least({a, b}) <= k
  BY <1>1 DEF Least
<1> QED BY <1>2, <1>3

\* An age grows by no more than the seconds that pass.
LEMMA Ageing ==
  ASSUME NEW age \in Int, NEW bound \in Int, NEW n \in Nat
  PROVE  /\ AgedTo(age, bound, n) \in Int
         /\ age <= AgedTo(age, bound, n) /\ AgedTo(age, bound, n) <= age + n
<1>1. age + n \in Int
  OBVIOUS
<1> QED BY <1>1, LeastOfTwo DEF AgedTo

LEMMA AgeBounds == {MaxAge, PrevBound, FreshSeconds + 1, RoundBound, VrfWait + 1} \subseteq Int
<1>1. \A a, b, c, d \in Nat : \E n \in {a, b, c, d} : \A k \in {a, b, c, d} : k <= n
  OBVIOUS
<1>2. PrevBound \in Int
  <2> DEFINE S == {RegWindow, VrfWait, PayWait, DRAWN_UNPAID_ALERT_SECONDS}
             m == CHOOSE n \in S : \A k \in S : k <= n
  <2>1. S \subseteq Nat
    BY OperatorAssumption
  <2>2. m \in S
    <3>1. \E n \in S : \A k \in S : k <= n
      BY <1>1, OperatorAssumption
    <3> HIDE DEF S
    <3> QED BY <3>1
  <2>3. PrevBound = 1 + m
    BY DEF PrevBound
  <2> HIDE DEF S, m
  <2> QED BY <2>1, <2>2, <2>3
<1>3. RoundBound \in Int
  BY OperatorAssumption DEF RoundBound
<1> QED BY <1>2, <1>3, OperatorAssumption

\* The same accounts later: nothing but ages, each at most n more.
LEMMA LaterOnlyAges ==
  ASSUME NEW c \in ChainRec, NEW n \in Nat
  PROVE  LET d == Later(c, n)
         IN  /\ d \in ChainRec
             /\ d.epoch.id = c.epoch.id /\ d.prev.st = c.prev.st /\ d.prev.winner = c.prev.winner
             /\ d.round.st = c.round.st
             /\ d.shutdown = c.shutdown /\ d.gamePaused = c.gamePaused
             /\ d.jackpotPaused = c.jackpotPaused
             /\ c.epoch.age <= d.epoch.age /\ d.epoch.age <= c.epoch.age + n
             /\ c.prev.age <= d.prev.age /\ d.prev.age <= c.prev.age + n
             /\ c.round.age <= d.round.age /\ d.round.age <= c.round.age + n
             /\ c.round.waited <= d.round.waited /\ d.round.waited <= c.round.waited + n
<1> DEFINE e == AgedTo(c.epoch.age, MaxAge, n)
           p == AgedTo(c.prev.age, PrevBound, n)
           f == AgedTo(c.prev.ended, FreshSeconds + 1, n)
           r == AgedTo(c.round.age, RoundBound, n)
           w == AgedTo(c.round.waited, VrfWait + 1, n)
<1>1. /\ c.epoch.age \in Int /\ c.prev.age \in Int /\ c.prev.ended \in Int
      /\ c.round.age \in Int /\ c.round.waited \in Int
  BY DEF ChainRec
<1>2. /\ e \in Int /\ c.epoch.age <= e /\ e <= c.epoch.age + n
      /\ p \in Int /\ c.prev.age <= p /\ p <= c.prev.age + n
      /\ f \in Int
      /\ r \in Int /\ c.round.age <= r /\ r <= c.round.age + n
      /\ w \in Int /\ c.round.waited <= w /\ w <= c.round.waited + n
  BY <1>1, AgeBounds, Ageing
<1>3. Later(c, n) =
        [c EXCEPT !.epoch = [c.epoch EXCEPT !.age = e],
                  !.prev = [c.prev EXCEPT !.age = p, !.ended = f],
                  !.round = [c.round EXCEPT !.age = r, !.waited = w]]
  BY DEF Later, ChainRec
<1> DEFINE epoch == [c.epoch EXCEPT !.age = e]
           prev == [c.prev EXCEPT !.age = p, !.ended = f]
           round == [c.round EXCEPT !.age = r, !.waited = w]
<1> HIDE DEF e, p, f, r, w
<1>4. /\ epoch \in [id: Nat, age: Int] /\ epoch.id = c.epoch.id /\ epoch.age = e
  BY <1>2 DEF ChainRec
<1>5. /\ prev \in [st: PrevNames, age: Int, ended: Int, answered: BOOLEAN,
                   winner: Depositors \cup {HouseWallet}]
      /\ prev.st = c.prev.st /\ prev.winner = c.prev.winner /\ prev.age = p
  BY <1>2 DEF ChainRec
<1>6. /\ round \in [id: Nat, st: RoundNames, age: Int, waited: Int, answered: BOOLEAN]
      /\ round.st = c.round.st /\ round.age = r /\ round.waited = w
  BY <1>2 DEF ChainRec
<1>7. Later(c, n) = [c EXCEPT !.epoch = epoch, !.prev = prev, !.round = round]
  BY <1>3
<1> HIDE DEF epoch, prev, round
<1>8. /\ Later(c, n) \in ChainRec
      /\ Later(c, n).epoch = epoch /\ Later(c, n).prev = prev /\ Later(c, n).round = round
      /\ Later(c, n).shutdown = c.shutdown /\ Later(c, n).gamePaused = c.gamePaused
      /\ Later(c, n).jackpotPaused = c.jackpotPaused
  BY <1>4, <1>5, <1>6, <1>7 DEF ChainRec
<1> QED BY <1>2, <1>4, <1>5, <1>6, <1>8

\* The candidates are seconds ahead, and the wake is the soonest.
LEMMA WakeIsSoonest ==
  ASSUME NEW c \in ChainRec
  PROVE  nextWakeAt(c) \in Nat /\ \A k \in Deadlines(c) : nextWakeAt(c) <= k
<1>1. \A deadline, age \in Int : Ahead(deadline, age) \subseteq Nat
  BY DEF Ahead
<1>2. Deadlines(c) \subseteq Nat
  BY <1>1, OperatorAssumption DEF Deadlines, ChainRec
<1>3. SAFETY_INTERVAL_SECONDS \in Deadlines(c)
  BY DEF Deadlines
<1> QED BY <1>2, <1>3, LeastOf DEF nextWakeAt

\* Whatever falls due with time does so no earlier than the wake.
LEMMA NothingDueBefore ==
  ASSUME DRAWN_UNPAID_ALERT_SECONDS <= PayWait,
         NEW c \in ChainRec, NEW n \in 1..(nextWakeAt(c) - 1)
  PROVE  DueSteps(Later(c, n)) \subseteq DueSteps(c)
<1> DEFINE d == Later(c, n)
<1>1. /\ nextWakeAt(c) \in Nat /\ (\A k \in Deadlines(c) : nextWakeAt(c) <= k) /\ n \in Nat
  BY WakeIsSoonest
<1>2. /\ d \in ChainRec
      /\ d.epoch.id = c.epoch.id /\ d.prev.st = c.prev.st /\ d.prev.winner = c.prev.winner
      /\ d.round.st = c.round.st
      /\ d.shutdown = c.shutdown /\ d.gamePaused = c.gamePaused
      /\ d.jackpotPaused = c.jackpotPaused
  BY <1>1, LaterOnlyAges
<1>3. /\ c.epoch.age <= d.epoch.age /\ d.epoch.age <= c.epoch.age + n
      /\ d.prev.age <= c.prev.age + n
      /\ d.round.age <= c.round.age + n
      /\ d.round.waited <= c.round.waited + n
  BY <1>1, LaterOnlyAges
<1>4. /\ c.epoch.age \in Int /\ c.prev.age \in Int /\ c.round.age \in Int /\ c.round.waited \in Int
      /\ d.epoch.age \in Int /\ d.prev.age \in Int /\ d.round.age \in Int /\ d.round.waited \in Int
  BY <1>2 DEF ChainRec
<1> HIDE DEF d
<1>n. ASSUME NEW deadline \in Int, NEW age \in Int, NEW later \in Int,
             Ahead(deadline, age) \subseteq Deadlines(c), later <= age + n, later >= deadline
      PROVE  age > deadline
  <2> SUFFICES ASSUME deadline >= age PROVE FALSE
    OBVIOUS
  <2>1. deadline - age \in Deadlines(c)
    BY <1>n DEF Ahead
  <2>2. nextWakeAt(c) <= deadline - age
    BY <1>1, <2>1
  <2>3. n <= nextWakeAt(c) - 1
    BY <1>1
  <2> QED BY <1>1, <1>n, <2>2, <2>3
<1>i. /\ RoundLen + VrfWait \in Int /\ RoundLen - CloseBuf \in Int /\ VrfWait \in Int
      /\ RegWindow \in Int /\ PayWait \in Int /\ RoundLen + REVEAL_SECONDS \in Int
  BY OperatorAssumption
<1>5. VoidIsDue(d) => VoidIsDue(c)
  <2>1. CASE c.round.st = "Open"
    <3>1. Ahead(RoundLen + VrfWait, c.round.age) \subseteq Deadlines(c)
      BY <2>1 DEF Deadlines
    <3>2. d.round.age >= RoundLen + VrfWait => c.round.age > RoundLen + VrfWait
      BY <1>3, <1>4, <1>n, <1>i, <3>1
    <3> QED BY <1>2, <1>4, <2>1, <3>2, OperatorAssumption DEF VoidIsDue
  <2>2. CASE c.round.st = "Requested"
    <3>1. Ahead(VrfWait, c.round.waited) \subseteq Deadlines(c)
      BY <2>2 DEF Deadlines
    <3>2. d.round.waited >= VrfWait => c.round.waited > VrfWait
      BY <1>3, <1>4, <1>n, <1>i, <3>1
    <3> QED BY <1>2, <1>4, <2>2, <3>2, OperatorAssumption DEF VoidIsDue
  <2> QED BY <1>2, <2>1, <2>2 DEF VoidIsDue
<1>6. RequestDue(d) => RequestDue(c)
  <2> SUFFICES ASSUME c.round.st = "Open" PROVE RequestDue(d) => RequestDue(c)
    BY <1>2 DEF RequestDue
  <2>1. Ahead(RoundLen - CloseBuf, c.round.age) \subseteq Deadlines(c)
    BY DEF Deadlines
  <2>2. d.round.age >= RoundLen - CloseBuf => c.round.age > RoundLen - CloseBuf
    BY <1>3, <1>4, <1>n, <1>i, <2>1
  <2> QED BY <1>2, <1>4, <2>2, OperatorAssumption DEF RequestDue
<1>7. BeginDue(d) => BeginDue(c)
  <2> DEFINE start == IF c.epoch.id = 0 THEN LaunchAge ELSE EpochLen
  <2>1. start \in Int
    BY OperatorAssumption
  <2>2. Ahead(start, c.epoch.age) \subseteq Deadlines(c)
    BY DEF Deadlines
  <2>3. BeginDue(d) <=> /\ ~c.shutdown /\ ~c.jackpotPaused /\ ~RoundIsOpen(c) /\ Resolved(c)
                        /\ d.epoch.age >= start
    BY <1>2 DEF BeginDue, RoundIsOpen, Resolved
  <2>4. BeginDue(c) <=> /\ ~c.shutdown /\ ~c.jackpotPaused /\ ~RoundIsOpen(c) /\ Resolved(c)
                        /\ c.epoch.age >= start
    BY DEF BeginDue
  <2> HIDE DEF start
  <2>5. d.epoch.age >= start => c.epoch.age > start
    BY <1>3, <1>4, <1>n, <1>i, <2>1, <2>2
  <2>6. c.epoch.age > start => c.epoch.age >= start
    BY <1>4, <2>1
  <2> QED BY <2>3, <2>4, <2>5, <2>6
<1>8. d.prev.st = "Registering" /\ d.prev.age >= RegWindow
        => c.prev.st = "Registering" /\ c.prev.age >= RegWindow
  <2> SUFFICES ASSUME c.prev.st = "Registering"
               PROVE  d.prev.age >= RegWindow => c.prev.age >= RegWindow
    BY <1>2
  <2>1. Ahead(RegWindow, c.prev.age) \subseteq Deadlines(c)
    BY DEF Deadlines
  <2>2. d.prev.age >= RegWindow => c.prev.age > RegWindow
    BY <1>3, <1>4, <1>n, <1>i, <2>1
  <2> QED BY <1>4, <2>2, OperatorAssumption
<1>9. RolloverIsDue(d) => RolloverIsDue(c)
  <2> SUFFICES ASSUME c.prev.st = "Drawing" PROVE RolloverIsDue(d) => RolloverIsDue(c)
    BY <1>2 DEF RolloverIsDue
  <2>1. Ahead(VrfWait, c.prev.age) \subseteq Deadlines(c)
    BY DEF Deadlines
  <2>2. d.prev.age >= VrfWait => c.prev.age > VrfWait
    BY <1>3, <1>4, <1>n, <1>i, <2>1
  <2> QED BY <1>2, <1>4, <2>2, OperatorAssumption DEF RolloverIsDue
<1>10. PayoutTimedOut(d) => PayoutTimedOut(c)
  <2> SUFFICES ASSUME c.prev.st = "Drawn" PROVE PayoutTimedOut(d) => PayoutTimedOut(c)
    BY <1>2 DEF PayoutTimedOut
  <2>1. Ahead(PayWait, c.prev.age) \subseteq Deadlines(c)
    BY DEF Deadlines
  <2>2. d.prev.age >= PayWait => c.prev.age > PayWait
    BY <1>3, <1>4, <1>n, <1>i, <2>1
  <2> QED BY <1>2, <1>4, <2>2, OperatorAssumption DEF PayoutTimedOut
<1>11. CreateDue(d) => CreateDue(c)
  <2>1. CreateDue(d) =>
          /\ ~RoundIsOpen(c) /\ ~c.gamePaused /\ c.epoch.id > 0
          /\ d.epoch.age + RoundLen <= EpochLen
          /\ c.round.st \in {"None", "Voided"} \/ d.round.age >= RoundLen + REVEAL_SECONDS
    BY <1>2 DEF CreateDue, RoundIsOpen
  <2>2. CASE c.round.st \in {"None", "Voided"}
    BY <1>3, <1>4, <2>1, <2>2, OperatorAssumption DEF CreateDue
  <2>3. CASE c.round.st \notin {"None", "Voided"} /\ ~RoundIsOpen(c)
    <3>1. Ahead(RoundLen + REVEAL_SECONDS, c.round.age) \subseteq Deadlines(c)
      BY <2>3 DEF Deadlines
    <3>2. d.round.age >= RoundLen + REVEAL_SECONDS => c.round.age > RoundLen + REVEAL_SECONDS
      BY <1>3, <1>4, <1>n, <1>i, <3>1
    <3> QED BY <1>3, <1>4, <2>1, <2>3, <3>2, OperatorAssumption DEF CreateDue
  <2> QED BY <2>1, <2>2, <2>3
<1> QED BY <1>5, <1>6, <1>7, <1>8, <1>9, <1>10, <1>11 DEF DueSteps, d
-----------------------------------------------------------------------------
(* What is sent leaves accounts of their types, and the tick with the        *)
(* accounts it read.                                                         *)

Running(t) ==
  /\ {"pc", "ctx", "cursor", "acted", "threw", "check", "w"} \subseteq DOMAIN t
  /\ t.pc # "idle" /\ t.ctx \in ChainRec

LEMMA RoundEffects ==
  ASSUME NEW c \in ChainRec
  PROVE  /\ Requested(c) \in ChainRec
         /\ \A st \in RoundNames : RoundOver(c, st) \in ChainRec
         /\ [c EXCEPT !.round = [id |-> c.round.id + 1, st |-> "Open", age |-> 0,
                                 waited |-> 0, answered |-> FALSE]] \in ChainRec
         /\ [c EXCEPT !.round.answered = TRUE] \in ChainRec
         /\ \A s : [c EXCEPT !.pos = @ \ s] \in ChainRec
         /\ \A r : [c EXCEPT !.terminal = @ \ {r}] \in ChainRec
         /\ \A p \in Depositors \cup {Sparring} : Bought(c, p) \in ChainRec
<1> DEFINE RoundRec == [id: Nat, st: RoundNames, age: Int, waited: Int, answered: BOOLEAN]
<1>1. c.round \in RoundRec
  BY DEF ChainRec
<1>2. \A r \in RoundRec, t \in SUBSET Nat : [c EXCEPT !.round = r, !.terminal = t] \in ChainRec
  BY DEF ChainRec
<1>3. \A r \in RoundRec : [c EXCEPT !.round = r] \in ChainRec
  BY DEF ChainRec
<1>4. Requested(c) \in ChainRec
  <2>1. [c.round EXCEPT !.st = "Requested", !.waited = 0] \in RoundRec
    <3>1. ASSUME NEW r \in RoundRec, NEW st \in RoundNames, NEW n \in Int
          PROVE  [r EXCEPT !.st = st, !.waited = n] \in RoundRec
      OBVIOUS
    <3>2. "Requested" \in RoundNames /\ 0 \in Int
      BY DEF RoundNames
    <3> HIDE DEF RoundRec
    <3> QED BY <1>1, <3>1, <3>2
  <2>2. Requested(c) = [c EXCEPT !.round = [c.round EXCEPT !.st = "Requested", !.waited = 0]]
    BY DEF Requested
  <2> HIDE DEF RoundRec
  <2> QED BY <1>3, <2>1, <2>2
<1>5. ASSUME NEW st \in RoundNames PROVE RoundOver(c, st) \in ChainRec
  <2>1. [c.round EXCEPT !.st = st] \in RoundRec
    BY <1>1
  <2>2. c.terminal \cup {c.round.id} \in SUBSET Nat
    BY DEF ChainRec
  <2>3. RoundOver(c, st) =
          [c EXCEPT !.round = [c.round EXCEPT !.st = st], !.terminal = c.terminal \cup {c.round.id}]
    BY DEF RoundOver, ChainRec
  <2> HIDE DEF RoundRec
  <2> QED BY <1>2, <2>1, <2>2, <2>3
<1>6. [c EXCEPT !.round.answered = TRUE] \in ChainRec
  <2>1. [c.round EXCEPT !.answered = TRUE] \in RoundRec
    BY <1>1
  <2>2. [c EXCEPT !.round.answered = TRUE] = [c EXCEPT !.round = [c.round EXCEPT !.answered = TRUE]]
    OBVIOUS
  <2> HIDE DEF RoundRec
  <2> QED BY <1>3, <2>1, <2>2
<1>7. [c EXCEPT !.round = [id |-> c.round.id + 1, st |-> "Open", age |-> 0,
                           waited |-> 0, answered |-> FALSE]] \in ChainRec
  <2>1. [id |-> c.round.id + 1, st |-> "Open", age |-> 0, waited |-> 0, answered |-> FALSE] \in RoundRec
    BY <1>1 DEF RoundNames
  <2> HIDE DEF RoundRec
  <2> QED BY <1>3, <2>1
<1>8. \A s : [c EXCEPT !.pos = @ \ s] \in ChainRec
  BY DEF ChainRec
<1>9. \A r : [c EXCEPT !.terminal = @ \ {r}] \in ChainRec
  BY DEF ChainRec
<1>10. \A p \in Depositors \cup {Sparring} : Bought(c, p) \in ChainRec
  BY DEF ChainRec, Bought
<1> QED BY <1>4, <1>5, <1>6, <1>7, <1>8, <1>9, <1>10

LEMMA EpochEffects ==
  ASSUME NEW c \in ChainRec
  PROVE  /\ BegunEpoch(c) \in ChainRec
         /\ \A st \in PrevNames : Prev(c, st) \in ChainRec
         /\ \A st \in PrevNames, w \in Depositors \cup {HouseWallet} :
              [Prev(c, st) EXCEPT !.prev.winner = w] \in ChainRec
         /\ [c EXCEPT !.prev.answered = TRUE] \in ChainRec
         /\ \A batch : Registered(c, batch) \in ChainRec
         /\ \A batch : [c EXCEPT !.pend = [p \in Depositors |-> IF p \in batch THEN 0 ELSE @[p]]] \in ChainRec
         /\ \A p \in Depositors : /\ [c EXCEPT !.joined[p] = c.epoch.id] \in ChainRec
                                  /\ [c EXCEPT !.pend[p] = c.epoch.id] \in ChainRec
         /\ [c EXCEPT !.shutdown = TRUE] \in ChainRec
<1> DEFINE PrevRec == [st: PrevNames, age: Int, ended: Int, answered: BOOLEAN,
                       winner: Depositors \cup {HouseWallet}]
           EpochRec == [id: Nat, age: Int]
<1>1. c.prev \in PrevRec /\ c.epoch \in EpochRec
  BY DEF ChainRec
<1>2. \A e \in EpochRec, p \in PrevRec : [c EXCEPT !.epoch = e, !.prev = p] \in ChainRec
  BY DEF ChainRec
<1>3. \A p \in PrevRec : [c EXCEPT !.prev = p] \in ChainRec /\ [c EXCEPT !.prev = p].prev = p
  BY DEF ChainRec
<1>4. BegunEpoch(c) \in ChainRec
  <2> DEFINE late == (c.epoch.age - EpochLen) * (IF c.epoch.id = 0 THEN 0 ELSE 1)
             ended == Least({late, FreshSeconds + 1})
             age == IF c.epoch.id = 0 THEN 0 ELSE (c.epoch.age - EpochLen) % EpochLen
             st == IF c.epoch.id = 0 THEN "None" ELSE "Registering"
  <2>1. late \in Int /\ age \in Int /\ st \in PrevNames
    BY <1>1, OperatorAssumption DEF PrevNames
  <2>2. ended \in Int
    <3>1. FreshSeconds + 1 \in Int
      BY OperatorAssumption
    <3> HIDE DEF late
    <3> QED BY <2>1, <3>1, LeastOfTwo
  <2>3. BegunEpoch(c) = [c EXCEPT !.epoch = [id |-> c.epoch.id + 1, age |-> age],
                                  !.prev = [st |-> st, age |-> 0, ended |-> ended, answered |-> FALSE,
                                            winner |-> HouseWallet]]
    BY DEF BegunEpoch
  <2> HIDE DEF late, ended, age, st
  <2>4. /\ [id |-> c.epoch.id + 1, age |-> age] \in EpochRec
        /\ [st |-> st, age |-> 0, ended |-> ended, answered |-> FALSE, winner |-> HouseWallet] \in PrevRec
    BY <1>1, <2>1, <2>2
  <2> HIDE DEF PrevRec, EpochRec
  <2> QED BY <1>2, <2>3, <2>4
<1>5. ASSUME NEW st \in PrevNames
      PROVE  /\ Prev(c, st) \in ChainRec
             /\ \A w \in Depositors \cup {HouseWallet} : [Prev(c, st) EXCEPT !.prev.winner = w] \in ChainRec
  <2>1. [c.prev EXCEPT !.st = st, !.age = 0] \in PrevRec
    <3>1. ASSUME NEW p \in PrevRec, NEW n \in Int
          PROVE  [p EXCEPT !.st = st, !.age = n] \in PrevRec
      OBVIOUS
    <3>2. 0 \in Int
      OBVIOUS
    <3> HIDE DEF PrevRec
    <3> QED BY <1>1, <3>1, <3>2
  <2>2. Prev(c, st) = [c EXCEPT !.prev = [c.prev EXCEPT !.st = st, !.age = 0]]
    BY DEF Prev
  <2>3. Prev(c, st) \in ChainRec
    <3> HIDE DEF PrevRec
    <3> QED BY <1>3, <2>1, <2>2
  <2>4. ASSUME NEW d \in ChainRec, NEW w \in Depositors \cup {HouseWallet}
        PROVE  [d EXCEPT !.prev.winner = w] \in ChainRec
    <3>1. [d.prev EXCEPT !.winner = w] \in PrevRec
      BY DEF ChainRec
    <3>2. \A p \in PrevRec : [d EXCEPT !.prev = p] \in ChainRec
      BY DEF ChainRec
    <3>3. [d EXCEPT !.prev.winner = w] = [d EXCEPT !.prev = [d.prev EXCEPT !.winner = w]]
      OBVIOUS
    <3> HIDE DEF PrevRec
    <3> QED BY <3>1, <3>2, <3>3
  <2> QED BY <2>3, <2>4
<1>6. [c EXCEPT !.prev.answered = TRUE] \in ChainRec
  <2>1. [c.prev EXCEPT !.answered = TRUE] \in PrevRec
    BY <1>1
  <2>2. [c EXCEPT !.prev.answered = TRUE] = [c EXCEPT !.prev = [c.prev EXCEPT !.answered = TRUE]]
    OBVIOUS
  <2> HIDE DEF PrevRec
  <2> QED BY <1>3, <2>1, <2>2
<1>7. ASSUME NEW batch PROVE Registered(c, batch) \in ChainRec
  BY DEF Registered, ChainRec
<1>8. ASSUME NEW batch
      PROVE  [c EXCEPT !.pend = [p \in Depositors |-> IF p \in batch THEN 0 ELSE @[p]]] \in ChainRec
  BY DEF ChainRec
<1>9. ASSUME NEW p \in Depositors
      PROVE  /\ [c EXCEPT !.joined[p] = c.epoch.id] \in ChainRec
             /\ [c EXCEPT !.pend[p] = c.epoch.id] \in ChainRec
  BY DEF ChainRec
<1>10. [c EXCEPT !.shutdown = TRUE] \in ChainRec
  BY DEF ChainRec
<1> QED BY <1>4, <1>5, <1>6, <1>7, <1>8, <1>9, <1>10
-----------------------------------------------------------------------------
(* Every step of a tick keeps the accounts it read, and its sleep.           *)

LEMMA MovedOn ==
  ASSUME Running(tick), NEW pc, pc # "idle"
  PROVE  /\ Running([tick EXCEPT !.pc = pc])
         /\ \A a : Running([tick EXCEPT !.pc = pc, !.acted = a])
         /\ \A a, b : Running([tick EXCEPT !.pc = pc, !.acted = a, !.threw = b])
         /\ \A n : Running([tick EXCEPT !.pc = pc, !.check = n])
         /\ \A a, b, n : Running([tick EXCEPT !.pc = pc, !.acted = a, !.threw = b, !.check = n])
         /\ \A a, s, f : Running([tick EXCEPT !.pc = pc, !.acted = a, !.w.single = s, !.w.fails = f])
         /\ \A w : Running([tick EXCEPT !.pc = pc, !.w = w])
BY DEF Running

LEMMA SendKeepsTypes ==
  ASSUME Running(tick), chain \in ChainRec, NEW accepted, NEW effect \in ChainRec,
         Send(accepted, effect)
  PROVE  chain' \in ChainRec /\ Running(tick')
<1>1. PICK how : /\ chain' = Effect(how, effect)
                 /\ tick' = [tick EXCEPT !.pc = "end", !.acted = (how = "ok"), !.threw = (how # "ok")]
  BY DEF Send
<1>2. chain' \in ChainRec
  BY <1>1 DEF Effect
<1> DEFINE acted == (how = "ok")
           threw == (how # "ok")
<1>3. tick' = [tick EXCEPT !.pc = "end", !.acted = acted, !.threw = threw]
  BY <1>1
<1> HIDE DEF acted, threw
<1> QED BY <1>2, <1>3, MovedOn

LEMMA AttemptKeepsTypes ==
  ASSUME Running(tick), chain \in ChainRec, NEW accepted, NEW gone, NEW effect \in ChainRec,
         NEW note, NEW next, next # "idle", Attempt(accepted, gone, effect, note, next)
  PROVE  chain' \in ChainRec /\ Running(tick')
<1>1. PICK how :
        /\ chain' = Effect(how, effect)
        /\ LET done == how = "ok" \/ (how = "refused" /\ gone)
           IN tick' = [tick EXCEPT !.pc = IF done THEN "end" ELSE next, !.acted = done]
  BY DEF Attempt
<1>2. chain' \in ChainRec
  BY <1>1 DEF Effect
<1> DEFINE done == (how = "ok" \/ (how = "refused" /\ gone))
           pc == IF done THEN "end" ELSE next
<1>3. tick' = [tick EXCEPT !.pc = pc, !.acted = done]
  BY <1>1
<1>4. pc # "idle"
  OBVIOUS
<1> HIDE DEF done, pc
<1> QED BY <1>2, <1>3, <1>4, MovedOn

\* What steps are allowed to do to the alarm clock: nothing.
StepTrue == chain' \in ChainRec /\ Running(tick') /\ UNCHANGED sleep

LEMMA StepMeans ==
  ASSUME WakeInv, StepTrue, tick.pc # "idle"
  PROVE  WakeInv'
BY DEF WakeInv, StepTrue, TickTrue, SleepTrue, Running

LEMMA RoundStepsKeep ==
  ASSUME WakeInv, tick.pc # "idle", StepRound \/ StepSweep \/ StepCloseRound \/ StepCreate
  PROVE  StepTrue
<1>1. Running(tick) /\ chain \in ChainRec
  BY DEF WakeInv, TickTrue, Running, Idle
<1>2. ASSUME NEW pc, pc # "idle", Goto(pc), UNCHANGED chain PROVE chain' \in ChainRec /\ Running(tick')
  BY <1>1, <1>2, MovedOn DEF Goto
<1>3. CASE StepRound
  <2>1. /\ RoundOver(chain, "Settled") \in ChainRec /\ RoundOver(chain, "Voided") \in ChainRec
        /\ Requested(chain) \in ChainRec
    <3>1. "Settled" \in RoundNames /\ "Voided" \in RoundNames
      BY DEF RoundNames
    <3> QED BY <1>1, <3>1, RoundEffects
  <2>2. \/ Send(SettleAccepted(chain), RoundOver(chain, "Settled"))
        \/ Send(VoidAccepted(chain), RoundOver(chain, "Voided"))
        \/ Send(RequestAccepted(chain), Requested(chain))
        \/ Goto("sweep") /\ UNCHANGED chain
    BY <1>3, Zenon DEF StepRound
  <2>3. UNCHANGED sleep
    BY <1>3 DEF StepRound, Unmoved
  <2> QED BY <1>1, <1>2, <2>1, <2>2, <2>3, SendKeepsTypes DEF StepTrue
<1>4. CASE StepSweep
  <2>1. UNCHANGED sleep
    BY <1>4 DEF StepSweep, Unmoved
  <2>2. CASE unsettledPositions = {}
    <3>1. Goto("close") /\ UNCHANGED chain
      BY <1>4, <2>2, Zenon DEF StepSweep
    <3> QED BY <1>2, <2>1, <3>1 DEF StepTrue
  <2>3. CASE unsettledPositions # {}
    <3>1. PICK batch :
            Attempt(batch \subseteq chain.pos, TRUE, [chain EXCEPT !.pos = @ \ batch],
                    [svc EXCEPT !.settled = @ \cup batch], "close")
      BY <1>4, <2>3, Zenon DEF StepSweep
    <3>2. [chain EXCEPT !.pos = @ \ batch] \in ChainRec
      BY <1>1, RoundEffects
    <3> QED BY <1>1, <2>1, <3>1, <3>2, AttemptKeepsTypes DEF StepTrue
  <2> QED BY <2>2, <2>3
<1>5. CASE StepCloseRound
  <2>1. UNCHANGED sleep
    BY <1>5 DEF StepCloseRound, Unmoved
  <2>2. CASE roundsToClose = {}
    <3>1. Goto("begin") /\ UNCHANGED chain
      BY <1>5, <2>2, Zenon DEF StepCloseRound
    <3> QED BY <1>2, <2>1, <3>1 DEF StepTrue
  <2>3. CASE roundsToClose # {}
    <3>1. PICK r :
            Attempt(r \in chain.terminal /\ \A q \in chain.pos : q[2] # r, r \notin chain.terminal,
                    [chain EXCEPT !.terminal = @ \ {r}], [svc EXCEPT !.closing = @ \cup {r}], "begin")
      BY <1>5, <2>3, Zenon DEF StepCloseRound
    <3>2. [chain EXCEPT !.terminal = @ \ {r}] \in ChainRec
      BY <1>1, RoundEffects
    <3> QED BY <1>1, <2>1, <3>1, <3>2, AttemptKeepsTypes DEF StepTrue
  <2> QED BY <2>2, <2>3
<1>6. CASE StepCreate
  <2> DEFINE fresh == [chain EXCEPT !.round = [id |-> chain.round.id + 1, st |-> "Open", age |-> 0,
                                              waited |-> 0, answered |-> FALSE]]
  <2>1. fresh \in ChainRec
    BY <1>1, RoundEffects
  <2>2. UNCHANGED sleep
    BY <1>6 DEF StepCreate, Unmoved
  <2>3. \/ Send(~RoundIsOpen(chain) /\ ~chain.shutdown, fresh)
        \/ Goto("end") /\ UNCHANGED chain
    BY <1>6, Zenon DEF StepCreate
  <2> HIDE DEF fresh
  <2> QED BY <1>1, <1>2, <2>1, <2>2, <2>3, SendKeepsTypes DEF StepTrue
<1> QED BY <1>3, <1>4, <1>5, <1>6

LEMMA EpochStepsKeep ==
  ASSUME WakeInv, tick.pc # "idle",
         StepBegin \/ StepRegister \/ StepCloseRegistration \/ StepDraw \/ StepPayout \/ StepWithdraw
  PROVE  StepTrue
<1>1. Running(tick) /\ chain \in ChainRec
  BY DEF WakeInv, TickTrue, Running, Idle
<1>2. ASSUME NEW pc, pc # "idle", Goto(pc), UNCHANGED chain PROVE chain' \in ChainRec /\ Running(tick')
  BY <1>1, <1>2, MovedOn DEF Goto
<1>3. \A st \in {"Drawing", "Drawn", "Paid", "RolledOver"} :
        /\ Prev(chain, st) \in ChainRec
        /\ \A w \in Depositors \cup {HouseWallet} : [Prev(chain, st) EXCEPT !.prev.winner = w] \in ChainRec
  <2>1. {"Drawing", "Drawn", "Paid", "RolledOver"} \subseteq PrevNames
    BY DEF PrevNames
  <2> QED BY <1>1, <2>1, EpochEffects
<1>4. CASE StepBegin
  <2>1. BegunEpoch(chain) \in ChainRec
    BY <1>1, EpochEffects
  <2>2. \/ Send(BeginDue(chain), BegunEpoch(chain))
        \/ Goto("register") /\ UNCHANGED chain
    BY <1>4, Zenon DEF StepBegin
  <2>3. UNCHANGED sleep
    BY <1>4 DEF StepBegin, Unmoved
  <2> QED BY <1>1, <1>2, <2>1, <2>2, <2>3, SendKeepsTypes DEF StepTrue
<1>5. CASE StepRegister
  <2>1. UNCHANGED sleep
    BY <1>5 DEF StepRegister, Unmoved
  <2> DEFINE more == /\ ~ctx.shutdown /\ ctx.prev.st = "Registering"
                     /\ playersToRegister(ctx.epoch.id - 1) # {}
  <2>2. CASE ~more
    <3>1. Goto("closereg") /\ UNCHANGED chain
      BY <1>5, <2>2 DEF StepRegister
    <3> QED BY <1>2, <2>1, <3>1 DEF StepTrue
  <2>3. CASE more
    <3> DEFINE batch == Take(playersToRegister(ctx.epoch.id - 1), BATCH_SIZE)
    <3>1. PICK how :
            /\ chain' = Effect(how, Registered(chain, batch))
            /\ tick' = [tick EXCEPT !.pc = "end", !.acted = (how = "ok"), !.threw = (how # "ok"), !.check = 0]
      BY <1>5, <2>3, Zenon DEF StepRegister
    <3> HIDE DEF batch
    <3> DEFINE acted == (how = "ok")
               threw == (how # "ok")
    <3>2. tick' = [tick EXCEPT !.pc = "end", !.acted = acted, !.threw = threw, !.check = 0]
      BY <3>1
    <3>3. chain' \in ChainRec
      BY <1>1, <3>1, EpochEffects DEF Effect
    <3> HIDE DEF acted, threw
    <3>4. Running(tick')
      BY <1>1, <3>2, MovedOn
    <3> QED BY <2>1, <3>3, <3>4 DEF StepTrue
  <2> QED BY <2>2, <2>3
<1>6. CASE StepCloseRegistration
  <2>1. UNCHANGED sleep
    BY <1>6 DEF StepCloseRegistration, Unmoved
  <2>2. \/ Goto("draw") /\ UNCHANGED chain
        \/ tick' = [tick EXCEPT !.pc = "end", !.check = ctx.epoch.id - 1] /\ UNCHANGED chain
        \/ \E st \in {"Drawing", "RolledOver"} : Send(CloseRegistrationAccepted(chain), Prev(chain, st))
    BY <1>6, Zenon DEF StepCloseRegistration
  <2>3. CASE Goto("draw") /\ UNCHANGED chain
    BY <1>2, <2>1, <2>3 DEF StepTrue
  <2>4. CASE tick' = [tick EXCEPT !.pc = "end", !.check = ctx.epoch.id - 1] /\ UNCHANGED chain
    BY <1>1, <2>1, <2>4, MovedOn DEF StepTrue
  <2>5. CASE \E st \in {"Drawing", "RolledOver"} : Send(CloseRegistrationAccepted(chain), Prev(chain, st))
    BY <1>1, <1>3, <2>1, <2>5, SendKeepsTypes DEF StepTrue
  <2> QED BY <2>2, <2>3, <2>4, <2>5
<1>7. CASE StepDraw
  <2>1. UNCHANGED sleep
    BY <1>7 DEF StepDraw, Unmoved
  <2>2. \/ \E w \in Depositors \cup {HouseWallet} :
             Send(chain.prev.st = "Drawing", [Prev(chain, "Drawn") EXCEPT !.prev.winner = w])
        \/ Send(RolloverAccepted(chain), Prev(chain, "RolledOver"))
        \/ Goto("payout") /\ UNCHANGED chain
    BY <1>7, Zenon DEF StepDraw
  <2> QED BY <1>1, <1>2, <1>3, <2>1, <2>2, SendKeepsTypes DEF StepTrue
<1>8. CASE StepPayout
  <2>1. UNCHANGED sleep
    BY <1>8 DEF StepPayout, Unmoved
  <2>2. \/ Send(chain.prev.st = "Drawn", Prev(chain, "Paid"))
        \/ Send(RolloverAccepted(chain), Prev(chain, "RolledOver"))
        \/ Goto("withdraw") /\ UNCHANGED chain
    BY <1>8, Zenon DEF StepPayout
  <2> QED BY <1>1, <1>2, <1>3, <2>1, <2>2, SendKeepsTypes DEF StepTrue
<1>9. CASE StepWithdraw
  <2>1. UNCHANGED sleep
    BY <1>9 DEF StepWithdraw, Unmoved
  <2>2. CASE Goto("create") /\ UNCHANGED chain
    BY <1>2, <2>1, <2>2 DEF StepTrue
  <2>3. CASE ~(Goto("create") /\ UNCHANGED chain)
    <3> DEFINE due == duePendingWithdrawals(ctx.epoch.id) \ tick.w.skipped
    <3>1. PICK batch, how :
            /\ chain' = Effect(how, [chain EXCEPT !.pend =
                          [p \in Depositors |-> IF p \in batch THEN 0 ELSE @[p]]])
            /\ tick' = IF how = "ok"
                       THEN [tick EXCEPT !.pc = "end", !.acted = TRUE,
                               !.w.single = @ /\ due # batch,
                               !.w.fails = [p \in Depositors |-> IF p \in batch THEN 0 ELSE @[p]]]
                       ELSE [tick EXCEPT !.pc = "create", !.w = AfterFailure(@, batch)]
      BY <1>9, <2>3, Zenon DEF StepWithdraw
    <3>2. chain' \in ChainRec
      BY <1>1, <3>1, EpochEffects DEF Effect
    <3>3. Running(tick')
      <4> DEFINE one == tick.w.single /\ due # batch
                 fails == [p \in Depositors |-> IF p \in batch THEN 0 ELSE tick.w.fails[p]]
                 after == AfterFailure(tick.w, batch)
      <4>1. CASE how = "ok"
        <5>1. tick' = [tick EXCEPT !.pc = "end", !.acted = TRUE, !.w.single = one, !.w.fails = fails]
          BY <3>1, <4>1
        <5> HIDE DEF one, fails
        <5> QED BY <1>1, <5>1, MovedOn
      <4>2. CASE how # "ok"
        <5>1. tick' = [tick EXCEPT !.pc = "create", !.w = after]
          BY <3>1, <4>2
        <5> HIDE DEF after
        <5> QED BY <1>1, <5>1, MovedOn
      <4> QED BY <4>1, <4>2
    <3> QED BY <2>1, <3>2, <3>3 DEF StepTrue
  <2> QED BY <2>2, <2>3
<1> QED BY <1>4, <1>5, <1>6, <1>7, <1>8, <1>9

LEMMA OthersKeepSleep ==
  ASSUME WakeInv, OthersNext
  PROVE  WakeInv'
<1>1. chain \in ChainRec /\ UNCHANGED <<tick, sleep>>
  BY DEF WakeInv, OthersNext, Deposit, RequestWithdraw, Buy, playSparring, OracleAnswers, Shutdown,
         Pass, PassSynced, Snapshot, Commit
<1>2. chain' \in ChainRec
  <2>1. CASE \E p \in Depositors : Deposit(p) \/ RequestWithdraw(p) \/ Buy(p)
    BY <1>1, <2>1, RoundEffects, EpochEffects DEF Deposit, RequestWithdraw, Buy
  <2>2. CASE playSparring
    BY <1>1, <2>2, RoundEffects DEF playSparring
  <2>3. CASE OracleAnswers \/ Shutdown
    BY <1>1, <2>3, RoundEffects, EpochEffects DEF OracleAnswers, Shutdown
  <2>4. CASE Pass \/ PassSynced
    <3>1. chain' = Later(chain, 1)
      BY <2>4 DEF Pass, PassSynced
    <3> QED BY <1>1, <3>1, LaterOnlyAges
  <2>5. CASE Snapshot \/ Commit
    BY <1>1, <2>5 DEF Snapshot, Commit
  <2> QED BY <2>1, <2>2, <2>3, <2>4, <2>5 DEF OthersNext
<1> QED BY <1>1, <1>2 DEF WakeInv, TickTrue, SleepTrue

LEMMA TicksTakeTurns ==
  ASSUME WakeInv, EndTick \/ DeadlineFires \/ LookNow \/ Restart
  PROVE  WakeInv'
<1>1. chain' = chain /\ chain \in ChainRec
  BY DEF WakeInv, EndTick, DeadlineFires, LookNow, Restart, RunAndScheduleNext
<1>2. \A memory : Running(Started(memory)) /\ Started(memory).pc = "round"
  BY <1>1 DEF Started, Running
<1>3. CASE EndTick
  <2>1. tick' = Idle /\ sleep' = [pending |-> 1, held |-> TRUE, owed |-> 0]
    BY <1>3 DEF EndTick, WakeInv, SleepTrue
  <2> QED BY <1>1, <2>1 DEF WakeInv, TickTrue, SleepTrue, Idle
<1>4. CASE Restart
  BY <1>1, <1>2, <1>4 DEF Restart, WakeInv, TickTrue, SleepTrue, Running
<1>5. CASE DeadlineFires \/ LookNow
  <2>1. CASE tick.pc = "idle"
    <3>1. sleep' = [pending |-> 0, held |-> FALSE, owed |-> 1] /\ tick' = Started(svc)
      BY <1>5, <2>1 DEF DeadlineFires, LookNow, RunAndScheduleNext, MayRun, WakeInv, SleepTrue
    <3> QED BY <1>1, <1>2, <3>1 DEF WakeInv, TickTrue, SleepTrue, Running
  <2>2. CASE tick.pc # "idle"
    <3>1. UNCHANGED tick /\ sleep' = [pending |-> 0, held |-> FALSE, owed |-> 1]
      BY <1>5, <2>2 DEF DeadlineFires, LookNow, RunAndScheduleNext, MayRun, WakeInv, SleepTrue
    <3> QED BY <1>1, <2>2, <3>1 DEF WakeInv, TickTrue, SleepTrue
  <2> QED BY <2>1, <2>2
<1> QED BY <1>3, <1>4, <1>5

LEMMA WakeStarts == OperatorInit => WakeInv
<1> SUFFICES ASSUME OperatorInit PROVE WakeInv
  OBVIOUS
<1>1. chain \in ChainRec
  <2>1. PICK game \in BOOLEAN, jackpot \in BOOLEAN, joined \in [Depositors -> {0, 1}] :
          chain = [OperatorChain(game, jackpot) EXCEPT !.joined = joined]
    BY DEF OperatorInit
  <2> DEFINE g == ~game
             j == ~jackpot
  <2>2. g \in BOOLEAN /\ j \in BOOLEAN /\ joined \in [Depositors -> Nat]
    OBVIOUS
  <2>3. chain =
          [epoch |-> [id |-> 0, age |-> 0],
           prev |-> [st |-> "None", age |-> 0, ended |-> 0, answered |-> FALSE, winner |-> HouseWallet],
           round |-> [id |-> 0, st |-> "None", age |-> 0, waited |-> 0, answered |-> FALSE],
           joined |-> joined, reg |-> [p \in Depositors |-> 0], pend |-> [p \in Depositors |-> 0],
           pos |-> {}, terminal |-> {}, shutdown |-> FALSE, gamePaused |-> g, jackpotPaused |-> j]
    BY <2>1 DEF OperatorChain
  <2> HIDE DEF g, j
  <2> QED BY <2>2, <2>3 DEF ChainRec, RoundNames, PrevNames
<1>2. tick = Started(FreshSvc) /\ sleep = [pending |-> 0, held |-> FALSE, owed |-> 1]
  BY DEF OperatorInit, OperatorBoot
<1> QED BY <1>1, <1>2 DEF WakeInv, TickTrue, SleepTrue, Started

LEMMA WakeSteps == WakeInv /\ [OperatorNext]_operatorVars => WakeInv'
<1> SUFFICES ASSUME WakeInv, [OperatorNext]_operatorVars PROVE WakeInv'
  OBVIOUS
<1>1. CASE UNCHANGED operatorVars
  BY <1>1 DEF operatorVars, WakeInv, TickTrue, SleepTrue
<1>2. CASE DecideNext /\ ~EndTick
  <2>1. tick.pc # "idle"
    BY <1>2 DEF DecideNext, StepRound, StepSweep, StepCloseRound, StepBegin, StepRegister,
                StepCloseRegistration, StepDraw, StepPayout, StepWithdraw, StepCreate, At
  <2> QED BY <1>2, <2>1, RoundStepsKeep, EpochStepsKeep, StepMeans DEF DecideNext
<1> QED BY <1>1, <1>2, OthersKeepSleep, TicksTakeTurns DEF OperatorNext, DecideNext

\* nextWakeAt (tick.ts:383) and runAndScheduleNext (operator.service.ts:211):
\* for any parameters and timeouts, with a payout timeout of at least the
\* alert's, one sleep is planned at a time and nothing falls due before it.
THEOREM WakesInTime ==
  ASSUME DRAWN_UNPAID_ALERT_SECONDS <= PayWait
  PROVE  OperatorSpec => []WakeSound
<1>1. WakeInv => WakeSound
  <2> SUFFICES ASSUME WakeInv PROVE OneSleep /\ WakeNotLate
    BY DEF WakeSound
  <2>1. OneSleep
    BY DEF WakeInv, SleepTrue, OneSleep
  <2>2. tick.pc = "end" => ctx \in ChainRec
    BY DEF WakeInv, TickTrue, Idle, ctx
  <2>3. WakeNotLate
    BY <2>2, NothingDueBefore DEF WakeNotLate
  <2> QED BY <2>1, <2>3
<1> QED BY <1>1, WakeStarts, WakeSteps, PTL DEF OperatorSpec

-----------------------------------------------------------------------------
(* Closing a registration: what a tick knows of who deposited.               *)

Complete(rows) ==
  \A p \in Weighted(chain.joined, Previous) : rows.joined[p] = chain.joined[p]

\* A snapshot young enough to be written, taken since the last epoch's end,
\* or since the next one began.
WalkComplete ==
  walk.age <= IndexLag =>
    /\ walk.age <= chain.epoch.age - EpochLen => walk.rows.joined = chain.joined
    /\ chain.prev.st = "Registering" /\ walk.age <= chain.prev.age => Complete(walk.rows)

SeenComplete ==
  seen.age <= FreshSeconds =>
    /\ seen.age + IndexLag <= chain.epoch.age - EpochLen => seen.rows.joined = chain.joined
    /\ chain.prev.st = "Registering" /\ seen.age + IndexLag <= chain.prev.age => Complete(seen.rows)

RowsInOrder ==
  \A p \in Depositors :
    /\ seen.rows.joined[p] # 0 => walk.rows.joined[p] = seen.rows.joined[p]
    /\ walk.rows.joined[p] # 0 => chain.joined[p] = walk.rows.joined[p]
    /\ seen.rows.reg[p] <= walk.rows.reg[p] /\ walk.rows.reg[p] <= chain.reg[p]
    /\ chain.reg[p] <= 0 \/ chain.reg[p] <= Previous

FreshContext ==
  /\ ctx.prev.st = "Registering" /\ tick.cursor <= FreshSeconds
  /\ tick.cursor + IndexLag <= ctx.prev.age

TickKnows ==
  tick.pc \notin {"idle", "end"} =>
    /\ tick.cursor \in Nat
    /\ ctx.epoch.id = chain.epoch.id /\ ctx.prev.st = chain.prev.st
    /\ FreshContext => Complete(seen.rows)
    /\ FreshContext /\ tick.pc = "closereg" /\ ~ctx.shutdown =>
         \A p \in Weighted(chain.joined, Previous) :
           chain.reg[p] = Previous \/ p \in svc.registered

RegInv ==
  /\ chain.prev.st = "Registering" => chain.epoch.id > 1
  /\ WalkComplete /\ SeenComplete /\ RowsInOrder /\ TickKnows

RowsRec ==
  [joined: [Depositors -> Nat], reg: [Depositors -> Int], pend: [Depositors -> Nat],
   pos: SUBSET ((Depositors \cup {Sparring}) \X Nat), terminal: SUBSET Nat]
ReadModelType == seen \in [rows: RowsRec, age: Nat] /\ walk \in [rows: RowsRec, age: Nat]

\* What a step of decide leaves of the tick.
Carried == tick'.ctx = tick.ctx /\ tick'.cursor = tick.cursor

\* Who deposited and registered, and the epochs, are left alone.
SameDraw ==
  /\ chain'.joined = chain.joined /\ chain'.reg = chain.reg
  /\ chain'.epoch = chain.epoch
  /\ chain'.prev.st = chain.prev.st /\ chain'.prev.age = chain.prev.age

PrevDecided ==
  /\ chain'.joined = chain.joined /\ chain'.reg = chain.reg /\ chain'.epoch = chain.epoch
  /\ chain'.prev.st # "Registering"

\* What decide has checked before it closes a registration.
MayClose ==
  /\ tick.pc = "closereg" /\ ~ctx.shutdown /\ ctx.prev.st = "Registering"
  /\ ctx.prev.age >= RegWindow /\ tick.cursor <= FreshSeconds

\* The kinds of steps decide takes, as far as registration goes.
QuietStep ==
  /\ Carried /\ SameDraw /\ tick.pc \notin {"idle", "end"}
  /\ tick'.pc \notin {"idle", "closereg"}
SendStep ==
  /\ tick'.pc = "end"
  /\ \/ SameDraw
     \/ BeginDue(chain) /\ chain' = BegunEpoch(chain)
     \/ chain.prev.st = "Registering" /\ \E batch : chain' = Registered(chain, batch)
     \/ PrevDecided /\ (chain.prev.st # "Registering" \/ MayClose)
NobodyToRegister ==
  /\ Carried /\ SameDraw /\ UNCHANGED svc
  /\ tick.pc = "register" /\ tick'.pc = "closereg"
  /\ ~ctx.shutdown /\ ctx.prev.st = "Registering" => playersToRegister(ctx.epoch.id - 1) = {}

LEMMA OneSecond ==
  ASSUME NEW age \in Nat, NEW limit \in Nat
  PROVE  /\ AgedTo(age, limit + 1, 1) \in Nat
         /\ AgedTo(age, limit + 1, 1) <= limit => AgedTo(age, limit + 1, 1) = age + 1
<1>1. age + 1 \in Int /\ limit + 1 \in Int
  OBVIOUS
<1> QED BY <1>1, LeastOfTwo DEF AgedTo

-----------------------------------------------------------------------------
(* Each kind of step keeps the invariant.                                    *)

LEMMA SameDrawKeeps ==
  ASSUME RegInv, SameDraw, UNCHANGED <<seen, walk>>,
         chain \in ChainRec, chain' \in ChainRec
  PROVE  /\ chain'.prev.st = "Registering" => chain'.epoch.id > 1
         /\ WalkComplete' /\ SeenComplete' /\ RowsInOrder'
BY DEF RegInv, SameDraw, WalkComplete, SeenComplete, RowsInOrder, Complete, Weighted, Previous

LEMMA QuietStepKeeps ==
  ASSUME RegInv, QuietStep, UNCHANGED <<seen, walk>>,
         chain \in ChainRec, chain' \in ChainRec
  PROVE  RegInv'
<1>1. TickKnows'
  BY DEF RegInv, TickKnows, QuietStep, Carried, SameDraw, FreshContext, Complete, Weighted, Previous, ctx
<1> QED BY <1>1, SameDrawKeeps DEF RegInv, QuietStep

LEMMA SendsKeep ==
  ASSUME RegInv, SendStep, UNCHANGED <<seen, walk>>, ReadModelType,
         chain \in ChainRec, chain' \in ChainRec
  PROVE  RegInv'
<1>1. TickKnows'
  BY DEF TickKnows, SendStep
<1>2. CASE SameDraw
  BY <1>1, <1>2, SameDrawKeeps DEF RegInv
<1>3. CASE BeginDue(chain) /\ chain' = BegunEpoch(chain)
  <2>1. /\ chain'.joined = chain.joined /\ chain'.reg = chain.reg
        /\ chain'.epoch.id = chain.epoch.id + 1 /\ chain'.prev.age = 0
        /\ chain'.prev.st = IF chain.epoch.id = 0 THEN "None" ELSE "Registering"
    BY <1>3 DEF BegunEpoch, ChainRec
  <2>2. chain'.epoch.age - EpochLen < 0
    <3>1. chain'.epoch.age = IF chain.epoch.id = 0 THEN 0 ELSE (chain.epoch.age - EpochLen) % EpochLen
      BY <1>3 DEF BegunEpoch, ChainRec
    <3>2. chain.epoch.age \in Int /\ EpochLen \in Nat /\ EpochLen > 0
      BY OperatorAssumption DEF ChainRec
    <3> QED BY <3>1, <3>2
  <2>3. chain.epoch.id > 0 => chain.epoch.age - EpochLen >= 0
    BY <1>3, OperatorAssumption DEF BeginDue, ChainRec
  <2>4. WalkComplete'
    <3> SUFFICES ASSUME walk.age <= IndexLag
                 PROVE  /\ ~(walk.age <= chain'.epoch.age - EpochLen)
                        /\ chain'.prev.st = "Registering" /\ walk.age <= chain'.prev.age => Complete(walk.rows)'
      BY DEF WalkComplete
    <3>1. walk.age \in Nat /\ chain'.epoch.age \in Int /\ chain.epoch.age \in Int /\ chain.epoch.id \in Nat
      BY DEF ReadModelType, ChainRec
    <3>2. ASSUME chain'.prev.st = "Registering", walk.age <= chain'.prev.age PROVE walk.rows.joined = chain.joined
      BY <2>1, <2>3, <3>1, <3>2, OperatorAssumption DEF RegInv, WalkComplete
    <3> QED BY <2>1, <2>2, <3>1, <3>2, OperatorAssumption DEF Complete
  <2>5. SeenComplete'
    <3> SUFFICES ASSUME seen.age <= FreshSeconds
                 PROVE  /\ ~(seen.age + IndexLag <= chain'.epoch.age - EpochLen)
                        /\ chain'.prev.st = "Registering" /\ seen.age + IndexLag <= chain'.prev.age
                             => Complete(seen.rows)'
      BY DEF SeenComplete
    <3>1. seen.age \in Nat /\ chain'.epoch.age \in Int /\ chain.epoch.age \in Int /\ chain.epoch.id \in Nat
      BY DEF ReadModelType, ChainRec
    <3>2. ASSUME chain'.prev.st = "Registering", seen.age + IndexLag <= chain'.prev.age
          PROVE  seen.rows.joined = chain.joined
      BY <2>1, <2>3, <3>1, <3>2, OperatorAssumption DEF RegInv, SeenComplete
    <3> QED BY <2>1, <2>2, <3>1, <3>2, OperatorAssumption DEF Complete
  <2>6. RowsInOrder'
    BY <2>1 DEF RegInv, RowsInOrder, Previous, ChainRec
  <2> QED BY <1>1, <2>1, <2>4, <2>5, <2>6 DEF RegInv, ChainRec
<1>4. ASSUME chain.prev.st = "Registering", NEW batch, chain' = Registered(chain, batch) PROVE RegInv'
  <2>1. /\ chain'.joined = chain.joined /\ chain'.epoch = chain.epoch /\ chain'.prev = chain.prev
        /\ \A p \in Depositors : chain'.reg[p] = IF p \in batch THEN chain.epoch.id - 1 ELSE chain.reg[p]
    BY <1>4 DEF Registered, ChainRec
  <2>2. WalkComplete' /\ SeenComplete'
    BY <2>1 DEF RegInv, WalkComplete, SeenComplete, Complete, Weighted, Previous
  <2>3. RowsInOrder'
    <3>1. chain.epoch.id > 1 /\ chain.epoch.id \in Nat
      BY <1>4 DEF RegInv, ChainRec
    <3>2. \A p \in Depositors : chain.reg[p] \in Int /\ chain'.reg[p] \in Int /\ walk.rows.reg[p] \in Int
      BY DEF ChainRec, ReadModelType, RowsRec
    <3>3. \A p \in Depositors :
            \/ chain.reg[p] <= chain'.reg[p] /\ chain'.reg[p] <= chain.epoch.id - 1
            \/ chain'.reg[p] = chain.reg[p]
      BY <2>1, <3>1, <3>2 DEF RegInv, RowsInOrder, Previous
    <3> QED BY <2>1, <3>1, <3>2, <3>3 DEF RegInv, RowsInOrder, Previous
  <2> QED BY <1>1, <1>4, <2>1, <2>2, <2>3 DEF RegInv
<1>5. CASE PrevDecided
  BY <1>1, <1>5 DEF RegInv, PrevDecided, WalkComplete, SeenComplete, RowsInOrder, Complete, Weighted, Previous
<1> QED BY <1>2, <1>3, <1>4, <1>5 DEF SendStep

\* 4 (tick.ts:680): the list was empty, so whoever the rows name is registered
\* or remembered as such.
LEMMA EmptyListKeeps ==
  ASSUME RegInv, NobodyToRegister, UNCHANGED <<seen, walk>>, ReadModelType,
         chain \in ChainRec, chain' \in ChainRec
  PROVE  RegInv'
<1>1. /\ tick.pc \notin {"idle", "end"} /\ tick'.ctx = tick.ctx /\ tick'.cursor = tick.cursor /\ SameDraw
  BY DEF NobodyToRegister, Carried
<1>2. /\ tick.cursor \in Nat
      /\ ctx.epoch.id = chain.epoch.id /\ ctx.prev.st = chain.prev.st
      /\ FreshContext => Complete(seen.rows)
  BY <1>1 DEF RegInv, TickKnows
<1>3. ASSUME FreshContext, ~ctx.shutdown, NEW p \in Weighted(chain.joined, Previous)
      PROVE  chain.reg[p] = Previous \/ p \in svc.registered
  <2>1. playersToRegister(Previous) = {}
    BY <1>2, <1>3 DEF NobodyToRegister, FreshContext, Previous
  <2>2. seen.rows.joined[p] = chain.joined[p] /\ p \in Depositors /\ chain.joined[p] \in 1..Previous
    BY <1>2, <1>3 DEF Complete, Weighted
  <2>3. ~(seen.rows.reg[p] < Previous) \/ p \in svc.registered
    BY <2>1, <2>2 DEF playersToRegister, Weighted
  <2>4. seen.rows.reg[p] <= chain.reg[p] /\ chain.reg[p] \in Int /\ seen.rows.reg[p] \in Int
    BY <2>2 DEF RegInv, RowsInOrder, ReadModelType, RowsRec, ChainRec
  <2>5. Previous >= 1 /\ Previous \in Int
    BY <1>2, <1>3 DEF RegInv, FreshContext, Previous, ChainRec
  <2>6. chain.reg[p] <= Previous
    BY <2>2, <2>4, <2>5 DEF RegInv, RowsInOrder
  <2> QED BY <2>3, <2>4, <2>5, <2>6
<1>4. TickKnows'
  <2>1. /\ ctx' = ctx /\ FreshContext' = FreshContext /\ tick'.cursor = tick.cursor
        /\ Complete(seen.rows)' = Complete(seen.rows) /\ svc' = svc
        /\ Weighted(chain.joined, Previous)' = Weighted(chain.joined, Previous)
        /\ chain'.reg = chain.reg /\ Previous' = Previous
        /\ chain'.epoch.id = chain.epoch.id /\ chain'.prev.st = chain.prev.st
    BY <1>1 DEF NobodyToRegister, FreshContext, Complete, Weighted, Previous, ctx, SameDraw
  <2> QED BY <1>2, <1>3, <2>1 DEF TickKnows
<1> QED BY <1>1, <1>4, SameDrawKeeps DEF RegInv

-----------------------------------------------------------------------------
(* Time, deposits, the read model, and the start of a tick.                  *)

LEMMA TimeKeeps ==
  ASSUME RegInv, Pass \/ PassSynced, ReadModelType, chain \in ChainRec
  PROVE  RegInv' /\ ReadModelType'
<1>1. /\ chain' \in ChainRec /\ chain' = Later(chain, 1)
      /\ chain'.epoch.id = chain.epoch.id /\ chain'.prev.st = chain.prev.st
      /\ chain'.joined = chain.joined /\ chain'.reg = chain.reg
      /\ chain'.epoch.age <= chain.epoch.age + 1 /\ chain'.prev.age <= chain.prev.age + 1
  <2>1. chain' = Later(chain, 1)
    BY DEF Pass, PassSynced
  <2>2. Later(chain, 1).joined = chain.joined /\ Later(chain, 1).reg = chain.reg
    BY DEF Later, ChainRec
  <2> QED BY <2>1, <2>2, LaterOnlyAges
<1>2. /\ chain.epoch.age \in Int /\ chain'.epoch.age \in Int /\ chain.prev.age \in Int /\ chain'.prev.age \in Int
      /\ chain.epoch.id \in Nat
  BY <1>1 DEF ChainRec
<1>3. /\ UNCHANGED <<svc, tick>> /\ ctx' = ctx /\ FreshContext' = FreshContext
      /\ \A rows : Complete(rows)' = Complete(rows') /\ Previous' = Previous
      /\ Weighted(chain.joined, Previous)' = Weighted(chain.joined, Previous)
  BY <1>1 DEF Pass, PassSynced, FreshContext, Complete, Weighted, Previous, ctx
<1>4. CASE Pass
  <2>1. /\ seen' = [seen EXCEPT !.age = AgedTo(seen.age, FreshSeconds + 1, 1)]
        /\ walk' = [walk EXCEPT !.age = AgedTo(walk.age, IndexLag + 1, 1)]
    BY <1>4 DEF Pass
  <2>2. /\ seen'.rows = seen.rows /\ walk'.rows = walk.rows /\ ReadModelType'
        /\ seen.age \in Nat /\ walk.age \in Nat
        /\ seen'.age <= FreshSeconds => seen'.age = seen.age + 1
        /\ walk'.age <= IndexLag => walk'.age = walk.age + 1
    BY <2>1, OneSecond, OperatorAssumption DEF ReadModelType
  <2>3. WalkComplete'
    BY <1>1, <1>2, <1>3, <2>2, OperatorAssumption DEF RegInv, WalkComplete, Complete
  <2>4. SeenComplete'
    BY <1>1, <1>2, <1>3, <2>2, OperatorAssumption DEF RegInv, SeenComplete, Complete
  <2>5. RowsInOrder'
    BY <1>1, <1>3, <2>2 DEF RegInv, RowsInOrder
  <2>6. TickKnows'
    BY <1>1, <1>3, <2>2 DEF RegInv, TickKnows, Complete
  <2> QED BY <1>1, <2>2, <2>3, <2>4, <2>5, <2>6 DEF RegInv
<1>5. CASE PassSynced
  <2>1. /\ walk' = [rows |-> Rows, age |-> 0] /\ seen' = walk'
    BY <1>5 DEF PassSynced
  <2>2. Rows \in RowsRec /\ Rows.joined = chain.joined /\ Rows.reg = chain.reg
    BY DEF Rows, RowsRec, ChainRec
  <2>3. /\ seen'.rows.joined = chain'.joined /\ walk'.rows.joined = chain'.joined
        /\ seen'.rows.reg = chain'.reg /\ walk'.rows.reg = chain'.reg
    BY <1>1, <2>1, <2>2
  <2>4. WalkComplete' /\ SeenComplete'
    BY <2>3 DEF WalkComplete, SeenComplete, Complete
  <2>5. \A p \in Depositors : chain'.reg[p] \in Int
    BY <1>1 DEF ChainRec
  <2>6. RowsInOrder'
    BY <1>1, <1>3, <2>3, <2>5 DEF RegInv, RowsInOrder
  <2>7. TickKnows'
    BY <1>1, <1>3, <2>3 DEF RegInv, TickKnows, Complete
  <2>8. ReadModelType'
    BY <2>1, <2>2 DEF ReadModelType
  <2> QED BY <1>1, <2>4, <2>6, <2>7, <2>8 DEF RegInv
<1> QED BY <1>4, <1>5

\* A deposit made now does not count for the last epoch, and none is made once
\* the epoch is over.
LEMMA DepositKeeps ==
  ASSUME RegInv, ReadModelType, chain \in ChainRec, NEW p \in Depositors, Deposit(p)
  PROVE  RegInv'
<1>1. /\ chain.joined[p] = 0 /\ chain.epoch.id > 0 /\ chain.epoch.age < EpochLen
      /\ chain'.joined = [chain.joined EXCEPT ![p] = chain.epoch.id]
      /\ chain'.reg = chain.reg /\ chain'.epoch = chain.epoch /\ chain'.prev = chain.prev
      /\ UNCHANGED <<seen, walk, svc, tick>>
  BY DEF Deposit, ChainRec
<1>2. /\ chain.epoch.id \in Nat /\ chain.epoch.age \in Int /\ seen.age \in Nat /\ walk.age \in Nat
      /\ chain.joined \in [Depositors -> Nat]
      /\ \A q \in Depositors : seen.rows.joined[q] \in Nat /\ walk.rows.joined[q] \in Nat
  BY DEF ChainRec, ReadModelType, RowsRec
<1>3. Previous' = Previous /\ Previous = chain.epoch.id - 1
  BY <1>1 DEF Previous
<1>4. \A q \in Depositors : chain'.joined[q] = IF q = p THEN chain.epoch.id ELSE chain.joined[q]
  BY <1>1, <1>2
<1>5. Weighted(chain'.joined, Previous) = Weighted(chain.joined, Previous)
  <2>1. \A q \in Depositors : chain'.joined[q] \in 1..Previous <=> chain.joined[q] \in 1..Previous
    BY <1>1, <1>2, <1>3, <1>4
  <2> QED BY <2>1 DEF Weighted
<1>6. p \notin Weighted(chain.joined, Previous)
  BY <1>1 DEF Weighted
<1>7. ASSUME NEW rows, rows' = rows, Complete(rows) PROVE Complete(rows)'
  BY <1>3, <1>4, <1>5, <1>6, <1>7 DEF Complete, Weighted
<1>8. ~(walk.age <= chain.epoch.age - EpochLen) /\ ~(seen.age + IndexLag <= chain.epoch.age - EpochLen)
  BY <1>1, <1>2, OperatorAssumption
<1>9. WalkComplete' /\ SeenComplete'
  <2>1. Complete(walk.rows) => Complete(walk.rows)'
    BY <1>1, <1>3, <1>4, <1>5, <1>6 DEF Complete, Weighted
  <2>2. Complete(seen.rows) => Complete(seen.rows)'
    BY <1>1, <1>3, <1>4, <1>5, <1>6 DEF Complete, Weighted
  <2> QED BY <1>1, <1>8, <2>1, <2>2 DEF RegInv, WalkComplete, SeenComplete
<1>10. RowsInOrder'
  BY <1>1, <1>2, <1>3, <1>4 DEF RegInv, RowsInOrder
<1>11. TickKnows'
  <2>1. ctx' = ctx /\ FreshContext' = FreshContext
    BY <1>1 DEF ctx, FreshContext
  <2>2. Complete(seen.rows) => Complete(seen.rows)'
    BY <1>1, <1>3, <1>4, <1>5, <1>6 DEF Complete, Weighted
  <2> QED BY <1>1, <1>3, <1>5, <2>1, <2>2 DEF RegInv, TickKnows
<1> QED BY <1>1, <1>9, <1>10, <1>11 DEF RegInv

LEMMA ReadModelKeeps ==
  ASSUME RegInv, ReadModelType, chain \in ChainRec, Snapshot \/ Commit
  PROVE  RegInv' /\ ReadModelType'
<1>1. UNCHANGED <<chain, svc, tick>>
  BY DEF Snapshot, Commit
<1>2. /\ ctx' = ctx /\ FreshContext' = FreshContext /\ Previous' = Previous
      /\ Weighted(chain.joined, Previous)' = Weighted(chain.joined, Previous)
  BY <1>1 DEF ctx, FreshContext, Previous, Weighted
<1>3. CASE Snapshot
  <2>1. walk' = [rows |-> Rows, age |-> 0] /\ UNCHANGED seen
    BY <1>3 DEF Snapshot
  <2>2. Rows \in RowsRec /\ Rows.joined = chain.joined /\ Rows.reg = chain.reg
    BY DEF Rows, RowsRec, ChainRec
  <2>3. ReadModelType'
    BY <2>1, <2>2 DEF ReadModelType
  <2>4. WalkComplete'
    BY <1>1, <2>1, <2>2 DEF WalkComplete, Complete
  <2>5. SeenComplete'
    BY <1>1, <1>2, <2>1 DEF RegInv, SeenComplete, Complete
  <2>6. RowsInOrder'
    <3>1. \A p \in Depositors : /\ chain.reg[p] \in Int /\ walk.rows.reg[p] \in Int /\ seen.rows.reg[p] \in Int
                                /\ seen.rows.joined[p] # 0 => chain.joined[p] = seen.rows.joined[p]
                                /\ seen.rows.reg[p] <= chain.reg[p]
      BY DEF RegInv, RowsInOrder, ChainRec, ReadModelType, RowsRec
    <3> QED BY <1>1, <1>2, <2>1, <2>2, <3>1 DEF RegInv, RowsInOrder
  <2>7. TickKnows'
    BY <1>1, <1>2, <2>1 DEF RegInv, TickKnows, Complete
  <2> QED BY <1>1, <2>3, <2>4, <2>5, <2>6, <2>7 DEF RegInv
<1>4. CASE Commit
  <2>1. walk.age <= IndexLag /\ seen'.rows = walk.rows /\ seen'.age = 0 /\ UNCHANGED walk
    BY <1>4 DEF Commit
  <2>2. ReadModelType'
    BY <1>4 DEF Commit, ReadModelType
  <2>3. walk.age \in Nat /\ chain.epoch.age \in Int /\ chain.prev.age \in Int
    BY DEF ReadModelType, ChainRec
  <2>4. WalkComplete'
    BY <1>1, <1>2, <2>1 DEF RegInv, WalkComplete, Complete
  <2>5. SeenComplete'
    BY <1>1, <1>2, <2>1, <2>3, OperatorAssumption DEF RegInv, WalkComplete, SeenComplete, Complete
  <2>6. RowsInOrder'
    <3>1. \A p \in Depositors : walk.rows.reg[p] \in Int
      BY DEF ReadModelType, RowsRec
    <3> QED BY <1>1, <1>2, <2>1, <3>1 DEF RegInv, RowsInOrder
  <2>7. Complete(seen.rows) => Complete(seen.rows)'
    <3> SUFFICES ASSUME Complete(seen.rows), NEW p \in Weighted(chain.joined, Previous)
                 PROVE  walk.rows.joined[p] = chain.joined[p]
      BY <1>1, <1>2, <2>1 DEF Complete
    <3>1. seen.rows.joined[p] = chain.joined[p] /\ chain.joined[p] # 0 /\ p \in Depositors
      BY DEF Complete, Weighted
    <3> QED BY <3>1 DEF RegInv, RowsInOrder
  <2>8. TickKnows'
    BY <1>1, <1>2, <2>7 DEF RegInv, TickKnows
  <2> QED BY <1>1, <2>2, <2>4, <2>5, <2>6, <2>8 DEF RegInv
<1> QED BY <1>3, <1>4

\* A tick starts with what the chain and the stamp say at that moment.
LEMMA StartKeeps ==
  ASSUME RegInv, ReadModelType, UNCHANGED <<chain, seen, walk>>, NEW memory,
         tick' = Started(memory) \/ tick' = Idle \/ (UNCHANGED <<tick, svc>>)
  PROVE  RegInv'
<1>1. WalkComplete' /\ SeenComplete' /\ RowsInOrder'
  BY DEF RegInv, WalkComplete, SeenComplete, RowsInOrder, Complete, Weighted, Previous
<1>2. TickKnows'
  <2>1. CASE tick' = Started(memory)
    <3>1. tick'.pc = "round" /\ tick'.ctx = chain /\ tick'.cursor = seen.age
      BY <2>1 DEF Started
    <3>2. FreshContext' => chain.prev.st = "Registering" /\ seen.age <= FreshSeconds
                           /\ seen.age + IndexLag <= chain.prev.age
      BY <3>1 DEF FreshContext, ctx
    <3> QED BY <3>1, <3>2 DEF RegInv, ReadModelType, SeenComplete, TickKnows, Complete, Weighted, Previous, ctx
  <2>2. CASE tick' = Idle
    BY <2>2 DEF TickKnows, Idle
  <2>3. CASE UNCHANGED <<tick, svc>>
    BY <2>3 DEF RegInv, TickKnows, FreshContext, Complete, Weighted, Previous, ctx
  <2> QED BY <2>1, <2>2, <2>3
<1> QED BY <1>1, <1>2 DEF RegInv

\* Withdrawals, stakes, the oracle and the shutdown move nobody's registration.
LEMMA AsideKeeps ==
  ASSUME RegInv, SameDraw, UNCHANGED <<seen, walk, svc, tick>>,
         chain \in ChainRec, chain' \in ChainRec
  PROVE  RegInv'
<1>1. TickKnows'
  BY DEF RegInv, TickKnows, SameDraw, FreshContext, Complete, Weighted, Previous, ctx
<1> QED BY <1>1, SameDrawKeeps DEF RegInv

-----------------------------------------------------------------------------
(* Each step of decide is of one of the three kinds.                         *)

\* A send that was not accepted changed nothing.
LEMMA SendIsEffect ==
  ASSUME Running(tick), NEW accepted, NEW effect, Send(accepted, effect)
  PROVE  tick'.pc = "end" /\ (chain' = chain \/ (accepted /\ chain' = effect))
<1>1. PICK how \in Outcomes(accepted) :
        /\ chain' = Effect(how, effect)
        /\ tick' = [tick EXCEPT !.pc = "end", !.acted = (how = "ok"), !.threw = (how # "ok")]
  BY DEF Send
<1>2. tick'.pc = "end"
  <2> DEFINE acted == (how = "ok")
             threw == (how # "ok")
  <2>1. tick' = [tick EXCEPT !.pc = "end", !.acted = acted, !.threw = threw]
    BY <1>1
  <2> HIDE DEF acted, threw
  <2> QED BY <2>1 DEF Running
<1>3. chain' = chain \/ (accepted /\ chain' = effect)
  BY <1>1 DEF Effect, Outcomes
<1> QED BY <1>2, <1>3

LEMMA GotoCarries ==
  ASSUME Running(tick), NEW pc, Goto(pc)
  PROVE  Carried /\ tick'.pc = pc
BY DEF Running, Goto, Carried

LEMMA AttemptCarries ==
  ASSUME Running(tick), NEW accepted, NEW gone, NEW effect, NEW note, NEW next,
         Attempt(accepted, gone, effect, note, next)
  PROVE  Carried /\ tick'.pc \in {"end", next} /\ chain' \in {chain, effect}
<1>1. PICK how :
        /\ chain' = Effect(how, effect)
        /\ LET done == how = "ok" \/ (how = "refused" /\ gone)
           IN tick' = [tick EXCEPT !.pc = IF done THEN "end" ELSE next, !.acted = done]
  BY DEF Attempt
<1> DEFINE done == (how = "ok" \/ (how = "refused" /\ gone))
           pc == IF done THEN "end" ELSE next
<1>2. tick' = [tick EXCEPT !.pc = pc, !.acted = done] /\ pc \in {"end", next}
  BY <1>1
<1>3. chain' \in {chain, effect}
  BY <1>1 DEF Effect
<1> HIDE DEF done, pc
<1> QED BY <1>2, <1>3 DEF Running, Carried

StepSorted == (QuietStep \/ SendStep \/ NobodyToRegister) /\ UNCHANGED <<seen, walk>>

LEMMA RoundStepsSorted ==
  ASSUME WakeInv, tick.pc # "idle", StepRound \/ StepSweep \/ StepCloseRound \/ StepCreate
  PROVE  StepSorted
<1>1. Running(tick) /\ chain \in ChainRec /\ (UNCHANGED chain => SameDraw)
  BY DEF WakeInv, TickTrue, Running, Idle, SameDraw
<1>2. UNCHANGED <<seen, walk>>
  BY DEF StepRound, StepSweep, StepCloseRound, StepCreate, Unmoved
<1>3. tick.pc \notin {"idle", "end"}
  BY DEF StepRound, StepSweep, StepCloseRound, StepCreate, At
<1>4. ASSUME NEW pc, pc \notin {"idle", "closereg"}, Goto(pc), UNCHANGED chain PROVE QuietStep
  BY <1>1, <1>3, <1>4, GotoCarries DEF QuietStep
<1>5. ASSUME NEW accepted, NEW effect, Send(accepted, effect), chain' = effect => SameDraw PROVE SendStep
  BY <1>1, <1>5, SendIsEffect DEF SendStep
<1>6. ASSUME NEW accepted, NEW gone, NEW effect, NEW note, NEW next, next \notin {"idle", "closereg"},
             Attempt(accepted, gone, effect, note, next), chain' = effect => SameDraw
      PROVE  QuietStep
  BY <1>1, <1>3, <1>6, AttemptCarries DEF QuietStep
<1>7. CASE StepRound
  <2>1. /\ \A st : chain' = RoundOver(chain, st) => SameDraw
        /\ chain' = Requested(chain) => SameDraw
    BY <1>1 DEF RoundOver, Requested, SameDraw, ChainRec
  <2>2. \/ Send(SettleAccepted(chain), RoundOver(chain, "Settled"))
        \/ Send(VoidAccepted(chain), RoundOver(chain, "Voided"))
        \/ Send(RequestAccepted(chain), Requested(chain))
        \/ Goto("sweep") /\ UNCHANGED chain
    BY <1>7, Zenon DEF StepRound
  <2> QED BY <1>2, <1>4, <1>5, <2>1, <2>2 DEF StepSorted
<1>8. CASE StepSweep
  <2>1. CASE unsettledPositions = {}
    <3>1. Goto("close") /\ UNCHANGED chain
      BY <1>8, <2>1, Zenon DEF StepSweep
    <3> QED BY <1>2, <1>4, <3>1 DEF StepSorted
  <2>2. CASE unsettledPositions # {}
    <3>1. PICK batch :
            Attempt(batch \subseteq chain.pos, TRUE, [chain EXCEPT !.pos = @ \ batch],
                    [svc EXCEPT !.settled = @ \cup batch], "close")
      BY <1>8, <2>2, Zenon DEF StepSweep
    <3> DEFINE accepted == batch \subseteq chain.pos
               effect == [chain EXCEPT !.pos = @ \ batch]
               note == [svc EXCEPT !.settled = @ \cup batch]
    <3>2. chain' = effect => SameDraw
      BY <1>1 DEF SameDraw, ChainRec
    <3>3. Attempt(accepted, TRUE, effect, note, "close")
      BY <3>1
    <3> HIDE DEF accepted, effect, note
    <3>4. QuietStep
      BY <1>6, <3>2, <3>3
    <3> QED BY <1>2, <3>4 DEF StepSorted
  <2> QED BY <2>1, <2>2
<1>9. CASE StepCloseRound
  <2>1. CASE roundsToClose = {}
    <3>1. Goto("begin") /\ UNCHANGED chain
      BY <1>9, <2>1, Zenon DEF StepCloseRound
    <3> QED BY <1>2, <1>4, <3>1 DEF StepSorted
  <2>2. CASE roundsToClose # {}
    <3>1. PICK r :
            Attempt(r \in chain.terminal /\ \A q \in chain.pos : q[2] # r, r \notin chain.terminal,
                    [chain EXCEPT !.terminal = @ \ {r}], [svc EXCEPT !.closing = @ \cup {r}], "begin")
      BY <1>9, <2>2, Zenon DEF StepCloseRound
    <3>2. chain' = [chain EXCEPT !.terminal = @ \ {r}] => SameDraw
      BY <1>1 DEF SameDraw, ChainRec
    <3> QED BY <1>2, <1>6, <3>1, <3>2 DEF StepSorted
  <2> QED BY <2>1, <2>2
<1>10. CASE StepCreate
  <2> DEFINE fresh == [chain EXCEPT !.round = [id |-> chain.round.id + 1, st |-> "Open", age |-> 0,
                                              waited |-> 0, answered |-> FALSE]]
  <2>1. chain' = fresh => SameDraw
    BY <1>1 DEF SameDraw, ChainRec
  <2>2. \/ Send(~RoundIsOpen(chain) /\ ~chain.shutdown, fresh)
        \/ Goto("end") /\ UNCHANGED chain
    BY <1>10, Zenon DEF StepCreate
  <2> HIDE DEF fresh
  <2> QED BY <1>2, <1>4, <1>5, <2>1, <2>2 DEF StepSorted
<1> QED BY <1>7, <1>8, <1>9, <1>10

LEMMA EpochStepsSorted ==
  ASSUME WakeInv, tick.pc # "idle",
         StepBegin \/ StepRegister \/ StepCloseRegistration \/ StepDraw \/ StepPayout \/ StepWithdraw
  PROVE  StepSorted
<1>1. Running(tick) /\ chain \in ChainRec /\ (UNCHANGED chain => SameDraw)
  BY DEF WakeInv, TickTrue, Running, Idle, SameDraw
<1>2. UNCHANGED <<seen, walk>>
  BY DEF StepBegin, StepRegister, StepCloseRegistration, StepDraw, StepPayout, StepWithdraw, Unmoved
<1>3. tick.pc \notin {"idle", "end"}
  BY DEF StepBegin, StepRegister, StepCloseRegistration, StepDraw, StepPayout, StepWithdraw, At
<1>4. ASSUME NEW pc, pc \notin {"idle", "closereg"}, Goto(pc), UNCHANGED chain PROVE QuietStep
  BY <1>1, <1>3, <1>4, GotoCarries DEF QuietStep
<1>5. ASSUME NEW st \in {"Drawing", "Drawn", "Paid", "RolledOver"}
      PROVE  /\ chain' = Prev(chain, st) => PrevDecided
             /\ \A w : chain' = [Prev(chain, st) EXCEPT !.prev.winner = w] => PrevDecided
  <2> DEFINE c == Prev(chain, st)
  <2>1. /\ DOMAIN c = DOMAIN chain /\ "prev" \in DOMAIN c /\ "st" \in DOMAIN c.prev
        /\ c.joined = chain.joined /\ c.reg = chain.reg /\ c.epoch = chain.epoch /\ c.prev.st = st
    BY <1>1 DEF Prev, ChainRec
  <2>2. st # "Registering"
    OBVIOUS
  <2> HIDE DEF c
  <2>3. \A w : LET d == [c EXCEPT !.prev.winner = w]
               IN  d.joined = c.joined /\ d.reg = c.reg /\ d.epoch = c.epoch /\ d.prev.st = c.prev.st
    <3>1. {"joined", "reg", "epoch"} \subseteq DOMAIN c
      BY <1>1, <2>1 DEF ChainRec
    <3> QED BY <2>1, <3>1
  <2>4. chain' = c => PrevDecided
    BY <2>1, <2>2 DEF PrevDecided
  <2>5. ASSUME NEW w, chain' = [c EXCEPT !.prev.winner = w] PROVE PrevDecided
    BY <2>1, <2>2, <2>3, <2>5 DEF PrevDecided
  <2> QED BY <2>4, <2>5 DEF c
<1>6. CASE StepBegin
  <2>1. \/ Send(BeginDue(chain), BegunEpoch(chain))
        \/ Goto("register") /\ UNCHANGED chain
    BY <1>6, Zenon DEF StepBegin
  <2> QED BY <1>1, <1>2, <1>4, <2>1, SendIsEffect DEF StepSorted, SendStep
<1>7. CASE StepRegister
  <2> DEFINE more == /\ ~ctx.shutdown /\ ctx.prev.st = "Registering"
                     /\ playersToRegister(ctx.epoch.id - 1) # {}
  <2>1. CASE ~more
    <3>1. Goto("closereg") /\ UNCHANGED <<chain, svc>> /\ tick.pc = "register"
      BY <1>7, <2>1 DEF StepRegister, At
    <3> QED BY <1>1, <1>2, <2>1, <3>1, GotoCarries DEF StepSorted, NobodyToRegister
  <2>2. CASE more
    <3> DEFINE batch == Take(playersToRegister(ctx.epoch.id - 1), BATCH_SIZE)
    <3>1. PICK how \in Outcomes(chain.prev.st = "Registering") :
            /\ chain' = Effect(how, Registered(chain, batch))
            /\ tick' = [tick EXCEPT !.pc = "end", !.acted = (how = "ok"), !.threw = (how # "ok"), !.check = 0]
      BY <1>7, <2>2, Zenon DEF StepRegister
    <3> HIDE DEF batch
    <3>2. tick'.pc = "end"
      <4> DEFINE acted == (how = "ok")
                 threw == (how # "ok")
      <4>1. tick' = [tick EXCEPT !.pc = "end", !.acted = acted, !.threw = threw, !.check = 0]
        BY <3>1
      <4> HIDE DEF acted, threw
      <4> QED BY <1>1, <4>1 DEF Running
    <3>3. chain' = chain \/ (chain.prev.st = "Registering" /\ chain' = Registered(chain, batch))
      BY <3>1 DEF Effect, Outcomes
    <3> QED BY <1>1, <1>2, <3>2, <3>3 DEF StepSorted, SendStep
  <2> QED BY <2>1, <2>2
<1>8. CASE StepCloseRegistration
  <2> DEFINE open == ~ctx.shutdown /\ ctx.prev.st = "Registering"
  <2>1. \/ Goto("draw") /\ UNCHANGED chain
        \/ tick' = [tick EXCEPT !.pc = "end", !.check = ctx.epoch.id - 1] /\ UNCHANGED chain
        \/ /\ open /\ CloseDue(ctx, tick.check) /\ indexerFreshForClose /\ tick.pc = "closereg"
           /\ \E st \in {"Drawing", "RolledOver"} : Send(CloseRegistrationAccepted(chain), Prev(chain, st))
    BY <1>8, Zenon DEF StepCloseRegistration, At
  <2>2. CASE Goto("draw") /\ UNCHANGED chain
    BY <1>2, <1>4, <2>2 DEF StepSorted
  <2>3. CASE tick' = [tick EXCEPT !.pc = "end", !.check = ctx.epoch.id - 1] /\ UNCHANGED chain
    BY <1>1, <1>2, <2>3 DEF StepSorted, SendStep, Running
  <2>4. ASSUME open, CloseDue(ctx, tick.check), indexerFreshForClose, tick.pc = "closereg",
               NEW st \in {"Drawing", "RolledOver"}, Send(CloseRegistrationAccepted(chain), Prev(chain, st))
        PROVE  StepSorted
    <3>1. MayClose
      BY <2>4 DEF MayClose, CloseDue, indexerFreshForClose
    <3>2. tick'.pc = "end" /\ (chain' = chain \/ chain' = Prev(chain, st))
      BY <1>1, <2>4, SendIsEffect
    <3>3. chain' = Prev(chain, st) => PrevDecided
      BY <1>5, <2>4
    <3> QED BY <1>1, <1>2, <3>1, <3>2, <3>3 DEF StepSorted, SendStep
  <2> QED BY <2>1, <2>2, <2>3, <2>4
<1>9. CASE StepDraw
  <2>1. \/ \E w : Send(chain.prev.st = "Drawing", [Prev(chain, "Drawn") EXCEPT !.prev.winner = w])
        \/ Send(RolloverAccepted(chain), Prev(chain, "RolledOver"))
        \/ Goto("payout") /\ UNCHANGED chain
    BY <1>9, Zenon DEF StepDraw
  <2>2. ASSUME NEW w, Send(chain.prev.st = "Drawing", [Prev(chain, "Drawn") EXCEPT !.prev.winner = w])
        PROVE  SendStep
    <3>1. tick'.pc = "end" /\ (chain' = chain \/ (chain.prev.st = "Drawing" /\ chain' = [Prev(chain, "Drawn") EXCEPT !.prev.winner = w]))
      BY <1>1, <2>2, SendIsEffect
    <3>2. chain' = [Prev(chain, "Drawn") EXCEPT !.prev.winner = w] => PrevDecided
      BY <1>5
    <3> QED BY <1>1, <3>1, <3>2 DEF SendStep
  <2>3. ASSUME Send(RolloverAccepted(chain), Prev(chain, "RolledOver")) PROVE SendStep
    <3>1. tick'.pc = "end" /\ (chain' = chain \/ (RolloverAccepted(chain) /\ chain' = Prev(chain, "RolledOver")))
      BY <1>1, <2>3, SendIsEffect
    <3>2. RolloverAccepted(chain) => chain.prev.st # "Registering"
      BY DEF RolloverAccepted
    <3>3. chain' = Prev(chain, "RolledOver") => PrevDecided
      BY <1>5
    <3> QED BY <1>1, <3>1, <3>2, <3>3 DEF SendStep
  <2> QED BY <1>2, <1>4, <2>1, <2>2, <2>3 DEF StepSorted
<1>10. CASE StepPayout
  <2>1. \/ Send(chain.prev.st = "Drawn", Prev(chain, "Paid"))
        \/ Send(RolloverAccepted(chain), Prev(chain, "RolledOver"))
        \/ Goto("withdraw") /\ UNCHANGED chain
    BY <1>10, Zenon DEF StepPayout
  <2>2. ASSUME Send(chain.prev.st = "Drawn", Prev(chain, "Paid")) PROVE SendStep
    <3>1. tick'.pc = "end" /\ (chain' = chain \/ (chain.prev.st = "Drawn" /\ chain' = Prev(chain, "Paid")))
      BY <1>1, <2>2, SendIsEffect
    <3>2. chain' = Prev(chain, "Paid") => PrevDecided
      BY <1>5
    <3> QED BY <1>1, <3>1, <3>2 DEF SendStep
  <2>3. ASSUME Send(RolloverAccepted(chain), Prev(chain, "RolledOver")) PROVE SendStep
    <3>1. tick'.pc = "end" /\ (chain' = chain \/ (RolloverAccepted(chain) /\ chain' = Prev(chain, "RolledOver")))
      BY <1>1, <2>3, SendIsEffect
    <3>2. RolloverAccepted(chain) => chain.prev.st # "Registering"
      BY DEF RolloverAccepted
    <3>3. chain' = Prev(chain, "RolledOver") => PrevDecided
      BY <1>5
    <3> QED BY <1>1, <3>1, <3>2, <3>3 DEF SendStep
  <2> QED BY <1>2, <1>4, <2>1, <2>2, <2>3 DEF StepSorted
<1>11. CASE StepWithdraw
  <2>1. CASE Goto("create") /\ UNCHANGED chain
    BY <1>2, <1>4, <2>1 DEF StepSorted
  <2>2. CASE ~(Goto("create") /\ UNCHANGED chain)
    <3> DEFINE due == duePendingWithdrawals(ctx.epoch.id) \ tick.w.skipped
    <3>1. PICK batch, how :
            /\ chain' = Effect(how, [chain EXCEPT !.pend =
                          [p \in Depositors |-> IF p \in batch THEN 0 ELSE @[p]]])
            /\ tick' = IF how = "ok"
                       THEN [tick EXCEPT !.pc = "end", !.acted = TRUE,
                               !.w.single = @ /\ due # batch,
                               !.w.fails = [p \in Depositors |-> IF p \in batch THEN 0 ELSE @[p]]]
                       ELSE [tick EXCEPT !.pc = "create", !.w = AfterFailure(@, batch)]
      BY <1>11, <2>2, Zenon DEF StepWithdraw
    <3>2. SameDraw
      BY <1>1, <3>1 DEF Effect, SameDraw, ChainRec
    <3>3. Carried /\ tick'.pc \in {"end", "create"}
      <4> DEFINE one == tick.w.single /\ due # batch
                 fails == [p \in Depositors |-> IF p \in batch THEN 0 ELSE tick.w.fails[p]]
                 after == AfterFailure(tick.w, batch)
      <4>1. CASE how = "ok"
        <5>1. tick' = [tick EXCEPT !.pc = "end", !.acted = TRUE, !.w.single = one, !.w.fails = fails]
          BY <3>1, <4>1
        <5> HIDE DEF one, fails
        <5> QED BY <1>1, <5>1 DEF Running, Carried
      <4>2. CASE how # "ok"
        <5>1. tick' = [tick EXCEPT !.pc = "create", !.w = after]
          BY <3>1, <4>2
        <5> HIDE DEF after
        <5> QED BY <1>1, <5>1 DEF Running, Carried
      <4> QED BY <4>1, <4>2
    <3> QED BY <1>2, <1>3, <3>2, <3>3 DEF StepSorted, QuietStep
  <2> QED BY <2>1, <2>2
<1> QED BY <1>6, <1>7, <1>8, <1>9, <1>10, <1>11

-----------------------------------------------------------------------------
(* The invariant over a whole run.                                           *)

RegTrue == RegInv /\ ReadModelType

LEMMA RegStarts == OperatorInit => RegTrue
<1> SUFFICES ASSUME OperatorInit PROVE RegTrue
  OBVIOUS
<1>1. PICK game \in BOOLEAN, jackpot \in BOOLEAN, joined \in [Depositors -> {0, 1}] :
        chain = [OperatorChain(game, jackpot) EXCEPT !.joined = joined]
  BY DEF OperatorInit
<1>2. chain \in ChainRec
  BY WakeStarts DEF WakeInv
<1>3. /\ chain.prev.st = "None" /\ chain.epoch.id = 0 /\ chain.joined = joined
      /\ chain.reg = [p \in Depositors |-> 0]
  BY <1>1 DEF OperatorChain
<1>4. walk = [rows |-> Rows, age |-> 0] /\ seen = walk /\ tick = Started(FreshSvc)
  BY DEF OperatorInit, OperatorBoot
<1>5. Rows \in RowsRec /\ Rows.joined = chain.joined /\ Rows.reg = chain.reg
  BY <1>2 DEF Rows, RowsRec, ChainRec
<1>6. ReadModelType
  BY <1>4, <1>5 DEF ReadModelType
<1>7. WalkComplete /\ SeenComplete /\ RowsInOrder
  BY <1>3, <1>4, <1>5 DEF WalkComplete, SeenComplete, RowsInOrder, Complete, Previous
<1>8. TickKnows
  BY <1>3, <1>4, <1>5 DEF TickKnows, Started, Complete, ctx, FreshContext
<1> QED BY <1>3, <1>6, <1>7, <1>8 DEF RegTrue, RegInv

LEMMA RegSteps ==
  ASSUME WakeInv, WakeInv', RegTrue, [OperatorNext]_operatorVars
  PROVE  RegTrue'
<1>1. chain \in ChainRec /\ chain' \in ChainRec
  BY DEF WakeInv
<1>2. UNCHANGED <<seen, walk>> => ReadModelType'
  BY DEF RegTrue, ReadModelType
<1>3. CASE UNCHANGED operatorVars
  <2>1. SameDraw /\ UNCHANGED <<seen, walk, svc, tick>>
    BY <1>3 DEF operatorVars, SameDraw
  <2> QED BY <1>1, <1>2, <2>1, AsideKeeps DEF RegTrue
<1>4. CASE DecideNext /\ ~EndTick
  <2>1. tick.pc # "idle"
    BY <1>4 DEF DecideNext, StepRound, StepSweep, StepCloseRound, StepBegin, StepRegister,
                StepCloseRegistration, StepDraw, StepPayout, StepWithdraw, StepCreate, At
  <2>2. StepSorted
    BY <1>4, <2>1, RoundStepsSorted, EpochStepsSorted DEF DecideNext
  <2> QED BY <1>1, <1>2, <2>2, QuietStepKeeps, SendsKeep, EmptyListKeeps DEF StepSorted, RegTrue
<1>5. CASE EndTick \/ DeadlineFires \/ LookNow \/ Restart
  <2>1. UNCHANGED <<chain, seen, walk>>
    BY <1>5 DEF EndTick, DeadlineFires, LookNow, Restart, RunAndScheduleNext
  <2>2. tick' = Idle \/ tick' = Started(svc) \/ tick' = Started(FreshSvc) \/ UNCHANGED <<tick, svc>>
    BY <1>5 DEF EndTick, DeadlineFires, LookNow, Restart, RunAndScheduleNext
  <2> QED BY <1>2, <2>1, <2>2, StartKeeps DEF RegTrue
<1>6. CASE OthersNext
  <2>1. CASE \E p \in Depositors : Deposit(p)
    <3>1. UNCHANGED <<seen, walk>>
      BY <2>1 DEF Deposit
    <3> QED BY <1>1, <1>2, <2>1, <3>1, DepositKeeps DEF RegTrue
  <2>2. CASE Pass \/ PassSynced
    BY <1>1, <2>2, TimeKeeps DEF RegTrue
  <2>3. CASE Snapshot \/ Commit
    BY <1>1, <2>3, ReadModelKeeps DEF RegTrue
  <2>4. CASE (\E p \in Depositors : RequestWithdraw(p) \/ Buy(p)) \/ playSparring \/ OracleAnswers \/ Shutdown
    <3>1. UNCHANGED <<seen, walk, svc, tick>>
      BY <2>4 DEF RequestWithdraw, Buy, playSparring, OracleAnswers, Shutdown
    <3>2. \A v : \A f \in {"round", "pend", "pos", "shutdown"} : chain' = [chain EXCEPT ![f] = v] => SameDraw
      BY <1>1 DEF SameDraw, ChainRec
    <3>3. ASSUME NEW p \in Depositors, RequestWithdraw(p) PROVE SameDraw
      <4>1. chain' = [chain EXCEPT !.pend = [chain.pend EXCEPT ![p] = chain.epoch.id]]
        BY <3>3 DEF RequestWithdraw
      <4> QED BY <3>2, <4>1
    <3>4. ASSUME NEW p, Buy(p) \/ (p = Sparring /\ playSparring) PROVE SameDraw
      <4>1. chain' = [chain EXCEPT !.pos = chain.pos \cup {<<p, chain.round.id>>}]
        BY <3>4 DEF Buy, playSparring, Bought
      <4> QED BY <3>2, <4>1
    <3>5. ASSUME OracleAnswers \/ Shutdown PROVE SameDraw
      <4>1. \/ chain' = [chain EXCEPT !.shutdown = TRUE]
            \/ chain' = [chain EXCEPT !.round = [chain.round EXCEPT !.answered = TRUE]]
            \/ chain' = [chain EXCEPT !.prev = [chain.prev EXCEPT !.answered = TRUE]]
        BY <3>5 DEF OracleAnswers, Shutdown
      <4>2. \A b \in BOOLEAN : chain' = [chain EXCEPT !.prev = [chain.prev EXCEPT !.answered = b]] => SameDraw
        BY <1>1 DEF SameDraw, ChainRec
      <4> QED BY <3>2, <4>1, <4>2
    <3>6. SameDraw
      BY <2>4, <3>2, <3>3, <3>4, <3>5
    <3> QED BY <1>1, <1>2, <3>1, <3>6, AsideKeeps DEF RegTrue
  <2> QED BY <1>6, <2>1, <2>2, <2>3, <2>4 DEF OthersNext
<1> QED BY <1>3, <1>4, <1>5, <1>6 DEF OperatorNext, DecideNext

\* operator.service.ts:355: at the moment of closing, what the process
\* remembers as registered is.
MemoryCurrent ==
  tick.pc = "closereg" /\ chain.prev.st = "Registering" =>
    \A p \in svc.registered \cap Weighted(chain.joined, Previous) : chain.reg[p] = Previous

LEMMA ClosingLeavesNobody ==
  ASSUME FreshSeconds + IndexLag <= RegWindow, WakeInv, RegTrue, MemoryCurrent,
         OperatorNext, Leaves("Registering")
  PROVE  \A p \in Weighted(chain.joined, Previous) : chain.reg[p] = Previous
<1>1. chain \in ChainRec /\ chain.prev.st = "Registering" /\ chain'.prev.st # "Registering"
  BY DEF WakeInv, Leaves
<1>2. DecideNext /\ ~EndTick
  <2>1. ~(EndTick \/ DeadlineFires \/ LookNow \/ Restart)
    BY <1>1 DEF EndTick, DeadlineFires, LookNow, Restart, RunAndScheduleNext
  <2>2. ~(Pass \/ PassSynced)
    <3>1. Later(chain, 1).prev.st = chain.prev.st
      BY <1>1, LaterOnlyAges
    <3> QED BY <1>1, <3>1 DEF Pass, PassSynced
  <2>3. ~\E p \in Depositors : Deposit(p) \/ RequestWithdraw(p) \/ Buy(p)
    BY <1>1 DEF Deposit, RequestWithdraw, Buy, Bought, ChainRec
  <2>4. ~(playSparring \/ OracleAnswers \/ Shutdown \/ Snapshot \/ Commit)
    BY <1>1 DEF playSparring, OracleAnswers, Shutdown, Snapshot, Commit, Bought, ChainRec
  <2> QED BY <2>1, <2>2, <2>3, <2>4 DEF OperatorNext, OthersNext
<1>3. tick.pc # "idle"
  BY <1>2 DEF DecideNext, StepRound, StepSweep, StepCloseRound, StepBegin, StepRegister,
              StepCloseRegistration, StepDraw, StepPayout, StepWithdraw, StepCreate, At
<1>4. StepSorted
  BY <1>2, <1>3, RoundStepsSorted, EpochStepsSorted DEF DecideNext
<1>5. MayClose
  <2>1. ~SameDraw
    BY <1>1 DEF SameDraw
  <2>2. ~BeginDue(chain)
    BY <1>1 DEF BeginDue, Resolved
  <2>3. \A batch : chain' # Registered(chain, batch)
    BY <1>1 DEF Registered, ChainRec
  <2> QED BY <1>1, <1>4, <2>1, <2>2, <2>3 DEF StepSorted, QuietStep, NobodyToRegister, SendStep
<1>6. FreshContext /\ tick.pc = "closereg" /\ ~ctx.shutdown
  <2>1. ctx \in ChainRec
    BY <1>3 DEF WakeInv, TickTrue, Idle, ctx
  <2>2. tick.cursor + IndexLag <= ctx.prev.age
    <3>1. ctx.prev.age \in Int /\ FreshSeconds \in Nat /\ IndexLag \in Nat /\ RegWindow \in Nat /\ tick.cursor \in Int
      BY <1>1, <1>5, <2>1, OperatorAssumption DEF ChainRec, RegTrue, RegInv, TickKnows, MayClose
    <3> QED BY <1>5, <3>1 DEF MayClose
  <2> QED BY <1>5, <2>2 DEF MayClose, FreshContext
<1>7. \A p \in Weighted(chain.joined, Previous) : chain.reg[p] = Previous \/ p \in svc.registered
  BY <1>6 DEF RegTrue, RegInv, TickKnows
<1> QED BY <1>1, <1>6, <1>7 DEF MemoryCurrent

\* close_registration (tick.ts:706): for any depositors, epochs and timeouts,
\* with a registration window no shorter than what the read model may lag, the
\* operator never leaves out a depositor its own memory did not hide.
THEOREM ClosesOnlyComplete ==
  ASSUME FreshSeconds + IndexLag <= RegWindow
  PROVE  OperatorSpec /\ []MemoryCurrent => NobodyLeftOut
<1>1. OperatorInit => WakeInv /\ RegTrue
  BY WakeStarts, RegStarts
<1>2. WakeInv /\ RegTrue /\ [OperatorNext]_operatorVars => (WakeInv /\ RegTrue)'
  BY WakeSteps, RegSteps
<1>3. WakeInv /\ RegTrue /\ MemoryCurrent /\ [OperatorNext]_operatorVars =>
        [Leaves("Registering") =>
           \A p \in Weighted(chain.joined, Previous) : chain.reg[p] = Previous]_operatorVars
  BY ClosingLeavesNobody
<1> QED BY <1>1, <1>2, <1>3, PTL DEF OperatorSpec, NobodyLeftOut
=============================================================================
