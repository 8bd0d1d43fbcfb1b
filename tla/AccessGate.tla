----------------------------- MODULE AccessGate -----------------------------
(***************************************************************************)
(* The early-access gate in the browser (useAccessGate.ts, access.ts): the *)
(* app is mounted only when the gate is hidden. Which wallet is connected  *)
(* changes under requests that are still under way; a code typed before a  *)
(* wallet is connected waits in session storage, across a redirect to the  *)
(* wallet, and is redeemed by itself.                                      *)
(*                                                                         *)
(* `allowed` is the backend's answer (Access). The access fetch is torn    *)
(* down with its wallet; the redeem is not.                                *)
(***************************************************************************)
EXTENDS Integers

CONSTANTS Wallets,
          MaxSwitches,   \* bound on connects, disconnects and reloads
          MaxSubmits     \* bound on codes submitted

ASSUME AccessGateAssumption == {MaxSwitches, MaxSubmits} \subseteq Nat

VARIABLES
  allowed,     \* wallets that hold access, at the backend
  wallet,      \* ready, and the owner connected
  gate,        \* access, fetch, pending and stored code, referral code, remembered owner
  redeeming,   \* redeem requests: waiting for the signature, or for the answer
  applying,    \* applyingRef: 1 while an applyReferral prompt is open
  strayed,     \* a redeem has outlived the wallet it was for
  turns        \* switches, submits, redeems begun

gateVars == <<allowed, wallet, gate, redeeming, applying, strayed, turns>>

NoWallet == "none"
Unknown == "unknown"

-----------------------------------------------------------------------------
\* gateDecision, with `access` Unknown for null.
gateDecision(w, access, failed, rememberedOwner) ==
  CASE ~w.ready -> "loading"
    [] w.ready /\ w.owner = NoWallet -> "connect"
    [] w.ready /\ w.owner # NoWallet /\ access = Unknown ->
         IF failed THEN "retry" ELSE IF w.owner = rememberedOwner THEN "loading" ELSE "checking"
    [] w.ready /\ w.owner # NoWallet /\ access # Unknown ->
         IF access = "allowed" THEN "hidden" ELSE "redeem"

status == gateDecision(wallet, gate.access, gate.failed, gate.remembered)

\* The effect on [owner, access]: the wallet that passes is remembered.
Remember(g, owner) ==
  [g EXCEPT !.remembered = IF owner # NoWallet /\ g.access = "allowed" THEN owner ELSE @]

pendingStep(st, access) ==
  IF st \in {"loading", "connect"} \/ access = Unknown THEN "wait"
  ELSE IF st = "redeem" THEN "redeem" ELSE "drop"

-----------------------------------------------------------------------------
(* The wallet.                                                             *)

\* Mutant: the last wallet's access stands until the new one's is known.
Refetch_keeps(g, owner) ==
  [g EXCEPT !.failed = FALSE, !.fetch = IF owner = NoWallet THEN NoWallet ELSE owner]

\* The effect on [owner]: what was known goes, a fetch for the new one begins.
Refetch(g, owner) ==
  [g EXCEPT !.access = Unknown, !.failed = FALSE, !.fetch = IF owner = NoWallet THEN NoWallet ELSE owner]

Switch(w, g) ==
  /\ turns.switches < MaxSwitches /\ turns' = [turns EXCEPT !.switches = @ + 1]
  /\ wallet' = w
  /\ gate' = Refetch(g, w.owner)

WalletReady ==
  /\ ~wallet.ready /\ wallet' = [wallet EXCEPT !.ready = TRUE]
  /\ UNCHANGED <<allowed, gate, redeeming, applying, strayed, turns>>

\* The effects of the commit that brings the new owner still see the last
\* one's access: they remember the newcomer, drop a pending code and open the
\* referral prompt on it.
StaleEffects(g, owner) ==
  LET passes == owner # NoWallet /\ g.access = "allowed"
  IN [Remember(g, owner) EXCEPT !.pending = @ /\ ~passes, !.stored = @ /\ ~(g.pending /\ passes)]

Connect(owner) ==
  /\ wallet.ready /\ wallet.owner # owner
  /\ Switch([wallet EXCEPT !.owner = owner], StaleEffects(gate, owner))
  /\ applying' = IF owner # NoWallet /\ gate.access = "allowed" /\ gate.refCode THEN 1 ELSE applying
  /\ strayed' = (strayed \/ \E r \in redeeming : r.owner # owner)
  /\ UNCHANGED <<allowed, redeeming>>

\* A reload, or the way back from the wallet's page: state is rebuilt from
\* storage, requests are gone; the backend may have got them.
Reload(owner) ==
  /\ Switch([ready |-> FALSE, owner |-> owner], [gate EXCEPT !.pending = gate.stored])
  /\ redeeming' = {} /\ applying' = 0
  /\ UNCHANGED <<allowed, strayed>>

-----------------------------------------------------------------------------
(* Looking the wallet up.                                                  *)

fetchAccess ==
  /\ gate.fetch # NoWallet
  /\ gate' = Remember([gate EXCEPT !.fetch = NoWallet, !.failed = FALSE,
                                   !.access = IF gate.fetch \in allowed THEN "allowed" ELSE "refused"],
                      wallet.owner)
  /\ UNCHANGED <<allowed, wallet, redeeming, applying, strayed, turns>>

\* Failing for RETRY_CONTROL_AFTER_MS shows the retry button; it keeps trying.
fetchFails ==
  /\ gate.fetch # NoWallet /\ ~gate.failed
  /\ gate' = [gate EXCEPT !.failed = TRUE]
  /\ UNCHANGED <<allowed, wallet, redeeming, applying, strayed, turns>>

retryAccess ==
  /\ status = "retry"
  /\ gate' = Refetch(gate, wallet.owner)
  /\ UNCHANGED <<allowed, wallet, redeeming, applying, strayed, turns>>

-----------------------------------------------------------------------------
(* Redeeming.                                                              *)

\* The button is disabled while this holds.
Busy == redeeming # {} \/ (gate.pending /\ wallet.owner # NoWallet) \/ status = "checking"

redeemHere == redeeming' = redeeming \cup {[owner |-> wallet.owner, ref |-> gate.refCode, sent |-> FALSE]}

submit ==
  /\ status \in {"connect", "redeem"} /\ ~Busy /\ turns.submits < MaxSubmits
  /\ IF wallet.owner # NoWallet
     THEN /\ redeemHere /\ turns' = [turns EXCEPT !.submits = @ + 1, !.redeems = @ + 1]
          /\ UNCHANGED gate
     ELSE /\ gate' = [gate EXCEPT !.pending = TRUE, !.stored = TRUE]
          /\ turns' = [turns EXCEPT !.submits = @ + 1] /\ UNCHANGED redeeming
  /\ UNCHANGED <<allowed, wallet, applying, strayed>>

\* Mutant: the flag goes, what is stored stays.
DropPending_state_only == [gate EXCEPT !.pending = FALSE]

DropPending == [gate EXCEPT !.pending = FALSE, !.stored = FALSE]

\* The effect on [pending, status, access].
PendingCode ==
  /\ gate.pending /\ pendingStep(status, gate.access) # "wait"
  /\ gate' = DropPending
  /\ IF pendingStep(status, gate.access) = "redeem"
     THEN redeemHere /\ turns' = [turns EXCEPT !.redeems = @ + 1]
     ELSE UNCHANGED <<redeeming, turns>>
  /\ UNCHANGED <<allowed, wallet, applying, strayed>>

\* The wallet signs and the request reaches the backend.
RedeemReaches(r) ==
  /\ ~r.sent
  /\ \E granted \in BOOLEAN :
       /\ allowed' = IF granted THEN allowed \cup {r.owner} ELSE allowed
       /\ redeeming' = (redeeming \ {r}) \cup {[r EXCEPT !.sent = TRUE]}
  /\ UNCHANGED <<wallet, gate, applying, strayed, turns>>

\* The answer: access as the backend has it, or an error that leaves it alone.
RedeemAnswers(r) ==
  /\ r.sent
  /\ \/ /\ r.owner \in allowed
        /\ gate' = Remember([gate EXCEPT !.access = "allowed", !.refCode = IF r.ref THEN FALSE ELSE @],
                            wallet.owner)
     \/ UNCHANGED gate
  /\ redeeming' = redeeming \ {r}
  /\ UNCHANGED <<allowed, wallet, applying, strayed, turns>>

SignRefused(r) ==
  /\ ~r.sent /\ redeeming' = redeeming \ {r}
  /\ UNCHANGED <<allowed, wallet, gate, applying, strayed, turns>>

-----------------------------------------------------------------------------
(* The referral link of a visitor who is in already.                       *)

applyReferralHere ==
  /\ gate.access = "allowed" /\ wallet.owner # NoWallet /\ gate.refCode
  /\ applying = 0
  /\ applying' = applying + 1
  /\ UNCHANGED <<allowed, wallet, gate, redeeming, strayed, turns>>

ReferralAnswered ==
  /\ applying > 0 /\ applying' = applying - 1
  /\ gate' \in {gate, [gate EXCEPT !.refCode = FALSE]}
  /\ UNCHANGED <<allowed, wallet, redeeming, strayed, turns>>

-----------------------------------------------------------------------------
GateInit ==
  /\ allowed \in SUBSET Wallets
  /\ wallet = [ready |-> FALSE, owner |-> NoWallet]
  /\ gate = [access |-> Unknown, failed |-> FALSE, fetch |-> NoWallet,
             pending |-> FALSE, stored |-> FALSE, refCode |-> TRUE,
             remembered |-> NoWallet]
  /\ redeeming = {} /\ applying = 0 /\ strayed = FALSE
  /\ turns = [switches |-> 0, submits |-> 0, redeems |-> 0]

GateNext ==
  \/ WalletReady \/ fetchAccess \/ fetchFails \/ retryAccess \/ submit \/ PendingCode
  \/ applyReferralHere \/ ReferralAnswered
  \/ \E owner \in Wallets \cup {NoWallet} : Connect(owner) \/ Reload(owner)
  \/ \E r \in redeeming : RedeemReaches(r) \/ RedeemAnswers(r) \/ SignRefused(r)

GateSpec == GateInit /\ [][GateNext]_gateVars

-----------------------------------------------------------------------------
\* gateDecision (access.ts:58): the app is mounted only for a wallet the backend
\* lets in, through changes of wallet, reloads and late answers, except after a
\* redeem outlived its wallet (`strayed`): its answer sets access for whoever is
\* connected by then (useAccessGate.ts:218).
GateHolds == (status = "hidden" /\ ~strayed) => wallet.owner \in allowed

\* A code that waited for the wallet is redeemed by itself once: however often
\* the page reloads, no more redeems begin than codes were submitted, and one
\* visitor has one redeem open at a time.
RedeemedOnce ==
  /\ turns.redeems <= turns.submits
  /\ \A r, s \in redeeming : r.owner = s.owner => r = s

\* The gate as a whole: it opens for those let in and spends a code once.
GateSound == GateHolds /\ RedeemedOnce
=============================================================================
