------------------------------ MODULE ReadCache ------------------------------
(***************************************************************************)
(* The read API's cached chain reads (api.service.ts, health.controller.ts *)
(* and chain.service.ts). Many HTTP requests share one RPC read: the cache *)
(* holds the promise, so a request may join a read that is still under way *)
(* and get its answer, or its failure, later.                              *)
(*                                                                         *)
(*   "balance"  the jackpot vault, the chain balances, the operator's SOL: *)
(*              a failed read is evicted, if it is still the cached one    *)
(*   "clock"    the chain clock and the RPC probe, through `cached`, and   *)
(*              the priority fee: what was read stays for its TTL          *)
(*                                                                         *)
(* The backend extrapolates with its own clock, and the chain's drifts     *)
(* from it: it never goes back and runs up to MaxDrift seconds behind wall *)
(* time, now more and now less. (How far behind on the whole would only    *)
(* shift one of them.)                                                     *)
(***************************************************************************)
EXTENDS Integers, Sequences

CONSTANTS
  Ttl,            \* seconds a read is shared
  Latency,        \* bound on how long a read takes
  MaxDrift,       \* how far the chain's clock wanders from wall time
  MaxWall,        \* bound on time
  MaxReads,       \* bound on RPC reads per cache
  Callers         \* HTTP requests in flight at once

ASSUME ReadCacheAssumption == {Ttl, Latency, MaxDrift, MaxWall, MaxReads} \subseteq Nat

VARIABLES
  wall,
  chain,      \* the Clock sysvar's unix_timestamp
  reads,      \* reads[k]: every RPC read begun for cache k, in order
  slot,       \* slot[k]: the one the cache holds, 0 for none
  caller,     \* the requests waiting: for which read, since when
  served      \* lastServedChainTime

cacheVars == <<wall, chain, reads, slot, caller, served>>

Kinds == {"balance", "clock"}
NoCall == [kind |-> "none", read |-> 0, since |-> 0]
Running(r) == r.state = "running"

\* Mutant: the cached read never goes stale.
Usable_forever(k) == slot[k] # 0

\* A hit: something is cached, begun no longer ago than the TTL.
Usable(k) == slot[k] # 0 /\ wall - reads[k][slot[k]].at <= Ttl

NewRead == [at |-> wall, state |-> "running", seen |-> -1, value |-> -1, observedAt |-> -1]

\* cachedJackpotBalance, cachedBalances, operatorSolBalance, cached,
\* priorityFeeMicroLamports: join the cached read or begin one.
Ask(c, k) ==
  /\ caller[c] = NoCall
  /\ IF Usable(k)
     THEN /\ caller' = [caller EXCEPT ![c] = [kind |-> k, read |-> slot[k], since |-> wall]]
          /\ UNCHANGED <<reads, slot>>
     ELSE /\ Len(reads[k]) < MaxReads
          /\ reads' = [reads EXCEPT ![k] = Append(@, NewRead)]
          /\ slot' = [slot EXCEPT ![k] = Len(reads[k]) + 1]
          /\ caller' = [caller EXCEPT ![c] =
                          [kind |-> k, read |-> Len(reads[k]) + 1, since |-> wall]]
  /\ UNCHANGED <<wall, chain, served>>

\* The endpoint looks at its state somewhere between request and response.
ReadSample(k, i) ==
  /\ Running(reads[k][i]) /\ reads[k][i].seen = -1
  /\ reads' = [reads EXCEPT ![k][i].seen = wall, ![k][i].value = chain]
  /\ UNCHANGED <<wall, chain, slot, caller, served>>

\* Mutant: the reading is dated by when it was asked for.
ObservedAt_asked(k, i) == reads[k][i].at

\* chainClock's fetch stamps the reading when the response is in.
ObservedAt(k, i) == wall

Succeed(k, i) ==
  /\ Running(reads[k][i]) /\ reads[k][i].seen # -1
  /\ reads' = [reads EXCEPT ![k][i].state = "ok", ![k][i].observedAt = ObservedAt(k, i)]
  /\ UNCHANGED <<wall, chain, slot, caller, served>>

\* Mutant: a failure clears the cache whatever it holds by now.
Evict_any(k, i) == TRUE

Evict(k, i) == slot[k] = i

Fail(k, i) ==
  /\ Running(reads[k][i])
  /\ reads' = [reads EXCEPT ![k][i].state = "failed"]
  /\ slot' = IF k = "balance" /\ Evict(k, i) THEN [slot EXCEPT ![k] = 0] ELSE slot
  /\ UNCHANGED <<wall, chain, caller, served>>

\* A request resumes. liveJackpot and chainBalances answer without the figure
\* when the read failed; a failed clock read fails the whole request.
\* extrapolatedChainNow never serves less than it did before.
extrapolated(r) == r.value + (wall - r.observedAt)
Answered(r) == IF extrapolated(r) > served THEN extrapolated(r) ELSE served

Resume(c) ==
  /\ caller[c] # NoCall
  /\ LET r == reads[caller[c].kind][caller[c].read] IN
     /\ ~Running(r)
     /\ served' = IF caller[c].kind = "clock" /\ r.state = "ok" THEN Answered(r) ELSE served
  /\ caller' = [caller EXCEPT ![c] = NoCall]
  /\ UNCHANGED <<wall, chain, reads, slot>>

WallSecond ==
  /\ wall < MaxWall
  /\ \A k \in Kinds : \A i \in DOMAIN reads[k] :
       Running(reads[k][i]) => wall < reads[k][i].at + Latency
  /\ wall' = wall + 1
  /\ \E t \in chain..(wall + 1) : wall + 1 - t <= MaxDrift /\ chain' = t
  /\ UNCHANGED <<reads, slot, caller, served>>

CacheInit ==
  /\ wall = MaxDrift /\ chain \in 0..MaxDrift /\ served = 0
  /\ reads = [k \in Kinds |-> <<>>] /\ slot = [k \in Kinds |-> 0]
  /\ caller = [c \in Callers |-> NoCall]

CacheNext(kinds) ==
  \/ WallSecond
  \/ \E c \in Callers : Resume(c) \/ \E k \in kinds : Ask(c, k)
  \/ \E k \in kinds : \E i \in DOMAIN reads[k] : ReadSample(k, i) \/ Succeed(k, i) \/ Fail(k, i)

CacheSpec == CacheInit /\ [][CacheNext(Kinds)]_cacheVars

-----------------------------------------------------------------------------
\* cachedJackpotBalance (api.service.ts:378): a slow read that fails after a
\* newer one has replaced it does not cost another read, so two reads begun
\* within one TTL mean the earlier one failed.
OneReadPerTtl ==
  \A k \in Kinds : \A i, j \in DOMAIN reads[k] :
    (i < j /\ reads[k][j].at - reads[k][i].at <= Ttl) => reads[k][i].state = "failed"

\* What a request is answered was true no longer than a TTL before it asked,
\* though it may have joined a read another request began.
AnswerFresh ==
  \A c \in Callers : caller[c] # NoCall =>
    LET r == reads[caller[c].kind][caller[c].read] IN
    r.state = "ok" => r.seen >= caller[c].since - Ttl

\* extrapolatedChainNow (api.service.ts:839): a reading advanced by wall time
\* does overshoot the chain, and the high-water mark keeps the overshoot. What
\* a request is answered is never further ahead of the chain than the two
\* clocks drift apart, and never further behind than that and the time a read
\* takes, however long it is shared and whichever read is answered first.
ServedNear ==
  \A c \in Callers : caller[c].kind = "clock" =>
    LET r == reads["clock"][caller[c].read] IN
    r.state = "ok" => Answered(r) \in (chain - MaxDrift - Latency)..(chain + MaxDrift)

\* The shared reads as a whole: few, fresh, and off the chain's clock by its
\* drift and their own delay at most, however requests join, slow reads
\* overtake one another and reads fail.
CacheSound == OneReadPerTtl /\ AnswerFresh /\ ServedNear
=============================================================================
