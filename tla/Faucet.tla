------------------------------- MODULE Faucet -------------------------------
(***************************************************************************)
(* The devnet faucet (faucet.controller.ts): one POST that mints to the    *)
(* caller's wallet, at most once per interval, over a claims table read    *)
(* before the mint and written after it. Requests overlap, the mint may    *)
(* fail, land without an answer, or the process may die before the write.  *)
(***************************************************************************)
EXTENDS Integers

CONSTANTS Claimants,        \* wallets that can hold tokens
          FaucetCalls,      \* requests under way at once
          ClaimInterval,    \* FAUCET_INTERVAL_SECONDS
          MaxFaucetTime

ASSUME FaucetAssumption == ClaimInterval \in Nat \ {0} /\ MaxFaucetTime \in Nat

VARIABLES
  isMintAuthority,
  faucetTime,     \* Date.now(), in seconds
  lastClaimAt,    \* FaucetClaim rows
  request,        \* each request under way
  received,       \* chain: when a mint to each wallet last landed
  skipped         \* for the property: when one was last seen to run and then skipped

faucetVars == <<isMintAuthority, faucetTime, lastClaimAt, request, received, skipped>>

NeverClaimed == -1
NoRequest == [owner |-> "none", at |-> NeverClaimed, step |-> "none"]

\* getMint, once: an authority that is not this key, or cannot be read, leaves
\* the route off.
onModuleInit(authority) == isMintAuthority = (authority = "operator")

FaucetInit ==
  /\ \E authority \in {"operator", "other", "unread"} : onModuleInit(authority)
  /\ faucetTime = 0
  /\ lastClaimAt = [o \in Claimants |-> NeverClaimed]
  /\ received = [o \in Claimants |-> NeverClaimed] /\ skipped = received
  /\ request = [r \in FaucetCalls |-> NoRequest]

FaucetSecond ==
  /\ faucetTime < MaxFaucetTime
  /\ faucetTime' = faucetTime + 1
  /\ UNCHANGED <<isMintAuthority, lastClaimAt, request, received, skipped>>

\* 404, or a body without a usable wallet address: nothing happens. Otherwise
\* the request takes its time before it reads the claim.
parseOwner(r, o) ==
  /\ isMintAuthority /\ request[r] = NoRequest /\ o \in Claimants
  /\ request' = [request EXCEPT ![r] = [owner |-> o, at |-> faucetTime, step |-> "asked"]]
  /\ UNCHANGED <<isMintAuthority, faucetTime, lastClaimAt, received, skipped>>

TooSoon(r) ==
  LET previous == lastClaimAt[request[r].owner]
  IN previous # NeverClaimed /\ request[r].at - previous < ClaimInterval

findClaim(r) ==
  /\ request[r].step = "asked"
  /\ request' = [request EXCEPT ![r].step = IF TooSoon(r) THEN "refused" ELSE "minting"]
  /\ UNCHANGED <<isMintAuthority, faucetTime, lastClaimAt, received, skipped>>

\* Mutant: the claim is written before the mint is known to have run.
Claimed_before(r, told) == TRUE

\* The claim follows a mint that was seen to run, "so a failed send does not
\* cost the caller an hour of waiting".
Claimed(r, told) == told

\* How chain.send ends: the mint lands and is confirmed, or lands although the
\* send throws, or does not land and throws. Or the notification is missed and
\* the status read instead shows it processed without an error, which counts
\* as success, and the block it was in is skipped afterwards.
Outcomes == {"confirmed", "unanswered", "failed", "skipped"}
MintLanded(outcome) == outcome \in {"confirmed", "unanswered"}
MintTold(outcome) == outcome \in {"confirmed", "skipped"}

mintTo(r, outcome) ==
  /\ request[r].step = "minting"
  /\ received' = IF MintLanded(outcome) THEN [received EXCEPT ![request[r].owner] = faucetTime] ELSE received
  /\ skipped' = IF outcome = "skipped" THEN [skipped EXCEPT ![request[r].owner] = faucetTime] ELSE skipped
  /\ request' = IF Claimed(r, MintTold(outcome))
                THEN [request EXCEPT ![r].step = "claiming"]
                ELSE [request EXCEPT ![r] = NoRequest]
  /\ UNCHANGED <<isMintAuthority, faucetTime, lastClaimAt>>

upsertClaim(r) ==
  /\ request[r].step = "claiming"
  /\ lastClaimAt' = [lastClaimAt EXCEPT ![request[r].owner] = request[r].at]
  /\ request' = [request EXCEPT ![r] = NoRequest]
  /\ UNCHANGED <<isMintAuthority, faucetTime, received, skipped>>

\* The answer was delivered; or the process died and every request with it.
AnswerRead(r) ==
  /\ request[r].step = "refused"
  /\ request' = [request EXCEPT ![r] = NoRequest]
  /\ UNCHANGED <<isMintAuthority, faucetTime, lastClaimAt, received, skipped>>

FaucetCrash ==
  /\ request' = [r \in FaucetCalls |-> NoRequest]
  /\ UNCHANGED <<isMintAuthority, faucetTime, lastClaimAt, received, skipped>>

FaucetNext ==
  \/ FaucetSecond \/ FaucetCrash
  \/ \E r \in FaucetCalls :
       \/ \E o \in Claimants : parseOwner(r, o)
       \/ findClaim(r) \/ upsertClaim(r) \/ AnswerRead(r)
       \/ \E outcome \in Outcomes : mintTo(r, outcome)

FaucetSpec == FaucetInit /\ [][FaucetNext]_faucetVars

-----------------------------------------------------------------------------
RanSince(o, t) == received[o] >= t \/ skipped[o] >= t

\* A wallet is told to wait (429) only when a mint to it ran less than an
\* interval before it asked: neither a failed send, nor a crash, nor a slow
\* request of the same wallet that wrote its older time last makes it wait for
\* nothing. The mint landed, but for one the fallback of chain.service.ts:348
\* saw merely processed and that was skipped: that wallet waits in vain.
RefusedOnlyIfRan ==
  \A r \in FaucetCalls : request[r].step = "refused" =>
    RanSince(request[r].owner, request[r].at - ClaimInterval + 1)
=============================================================================
