----------------------------- MODULE WebSafety -----------------------------
(***************************************************************************)
(* Safety theorems of the browser: what the page may rely on although it   *)
(* sees the chain late, out of order or not at all, and what becomes of a  *)
(* transaction it or the backend has sent.                                 *)
(***************************************************************************)
EXTENDS AccessGate, Sending, WebPlay, WebRound,
  FiniteSetTheorems, SequenceTheorems, WellFoundedInduction, TLAPS

-----------------------------------------------------------------------------
(* The gate in the browser: what it shows is the connected wallet's, until  *)
(* a redeem outlives its wallet.                                            *)

WalletOrNone == Wallets \cup {NoWallet}
RedeemRec == [owner: WalletOrNone, ref: BOOLEAN, sent: BOOLEAN]
GateRec ==
  [access: {Unknown, "allowed", "refused"}, failed: BOOLEAN, fetch: WalletOrNone, pending: BOOLEAN,
   stored: BOOLEAN, refCode: BOOLEAN, remembered: WalletOrNone]

GateType ==
  /\ wallet \in [ready: BOOLEAN, owner: WalletOrNone]
  /\ gate \in GateRec
  /\ redeeming \subseteq RedeemRec
  /\ turns \in [switches: Nat, submits: Nat, redeems: Nat]

\* A fetch is the connected wallet's, and so are the answer it brought and the
\* redeem under way, unless one has strayed.
OwnAnswer ==
  /\ gate.fetch \in {NoWallet, wallet.owner}
  /\ ~strayed /\ gate.access = "allowed" => wallet.owner \in allowed
  /\ ~strayed => \A r \in redeeming : r.owner = wallet.owner

\* A code that waits is in session storage and nothing is being redeemed
\* meanwhile; it stands for a submit without its redeem yet.
WaitingCode ==
  /\ gate.pending = gate.stored
  /\ gate.pending => redeeming = {} /\ turns.redeems < turns.submits
  /\ turns.redeems <= turns.submits
  /\ \A r, s \in redeeming : r = s

GateInv == GateType /\ OwnAnswer /\ WaitingCode

\* A submit that redeems at once counts in both.
LEMMA SubmitTurns ==
  ASSUME NEW t \in [switches: Nat, submits: Nat, redeems: Nat]
  PROVE  LET u == [t EXCEPT !.submits = @ + 1, !.redeems = @ + 1]
         IN /\ u \in [switches: Nat, submits: Nat, redeems: Nat]
            /\ u.submits = t.submits + 1 /\ u.redeems = t.redeems + 1
<1> DEFINE u == [t EXCEPT !.submits = @ + 1, !.redeems = @ + 1]
<1>1. u.switches = t.switches /\ u.submits = t.submits + 1 /\ u.redeems = t.redeems + 1
  OBVIOUS
<1>2. u \in [switches: Nat, submits: Nat, redeems: Nat]
  <2> DEFINE v == [t EXCEPT !.submits = t.submits + 1]
  <2>1. v \in [switches: Nat, submits: Nat, redeems: Nat] /\ v.redeems = t.redeems
    OBVIOUS
  <2>2. u = [v EXCEPT !.redeems = v.redeems + 1]
    OBVIOUS
  <2>. HIDE DEF u, v
  <2>3. [v EXCEPT !.redeems = v.redeems + 1] \in [switches: Nat, submits: Nat, redeems: Nat]
    BY <2>1
  <2>. QED BY <2>2, <2>3
<1>. QED BY <1>1, <1>2

\* No step of the gate shows one wallet's answer to another.
LEMMA GateStep == GateInv /\ [GateNext]_gateVars => GateInv'
<1> SUFFICES ASSUME GateInv, [GateNext]_gateVars PROVE GateInv'
  OBVIOUS
<1> USE DEF GateInv, GateType, OwnAnswer, WaitingCode
<1>1. CASE WalletReady
  BY <1>1 DEF WalletReady, WalletOrNone
<1>2. CASE fetchAccess
  BY <1>2 DEF fetchAccess, Remember, GateRec, WalletOrNone
<1>3. CASE fetchFails
  BY <1>3 DEF fetchFails, GateRec
<1>4. CASE retryAccess
  BY <1>4 DEF retryAccess, Refetch, GateRec, WalletOrNone, Unknown
<1>5. CASE submit
  <2>1. redeeming = {} /\ UNCHANGED <<allowed, wallet, strayed>>
    BY <1>5 DEF submit, Busy
  <2>2. CASE wallet.owner # NoWallet
    <3>1. gate' = gate /\ ~gate.pending
      BY <1>5, <2>2 DEF submit, Busy
    <3>2. redeeming' = {[owner |-> wallet.owner, ref |-> gate.refCode, sent |-> FALSE]}
      BY <1>5, <2>1, <2>2 DEF submit, redeemHere
    <3>3. [owner |-> wallet.owner, ref |-> gate.refCode, sent |-> FALSE] \in RedeemRec
      BY DEF RedeemRec, GateRec
    <3>4. turns' = [turns EXCEPT !.submits = @ + 1, !.redeems = @ + 1]
      BY <1>5, <2>2 DEF submit
    <3>5. /\ turns' \in [switches: Nat, submits: Nat, redeems: Nat]
          /\ turns'.submits = turns.submits + 1 /\ turns'.redeems = turns.redeems + 1
      BY <3>4, SubmitTurns
    <3>6. GateType' /\ OwnAnswer'
      BY <2>1, <3>1, <3>2, <3>3, <3>5
    <3>7. WaitingCode'
      BY <3>1, <3>2, <3>5
    <3>. QED BY <3>6, <3>7
  <2>3. CASE wallet.owner = NoWallet
    <3>1. /\ gate' = [gate EXCEPT !.pending = TRUE, !.stored = TRUE] /\ redeeming' = redeeming
          /\ turns' = [turns EXCEPT !.submits = @ + 1]
      BY <1>5, <2>3 DEF submit
    <3>2. /\ gate' \in GateRec /\ gate'.pending /\ gate'.stored
          /\ gate'.access = gate.access /\ gate'.fetch = gate.fetch
      BY <3>1 DEF GateRec
    <3>3. /\ turns' \in [switches: Nat, submits: Nat, redeems: Nat]
          /\ turns'.submits = turns.submits + 1 /\ turns'.redeems = turns.redeems
      BY <3>1
    <3>4. GateType' /\ OwnAnswer'
      BY <2>1, <3>1, <3>2, <3>3
    <3>5. WaitingCode'
      <4>1. gate'.pending = gate'.stored
        BY <3>1 DEF GateRec
      <4>. QED BY <2>1, <3>1, <3>3, <4>1
    <3>. QED BY <3>4, <3>5
  <2>. QED BY <2>2, <2>3
<1>6. CASE PendingCode
  <2>1. /\ redeeming = {} /\ turns.redeems < turns.submits /\ UNCHANGED <<allowed, wallet, strayed>>
        /\ gate' = [gate EXCEPT !.pending = FALSE, !.stored = FALSE]
    BY <1>6 DEF PendingCode, DropPending
  <2>2. CASE UNCHANGED <<redeeming, turns>>
    BY <2>1, <2>2 DEF GateRec
  <2>3. CASE redeemHere /\ turns' = [turns EXCEPT !.redeems = @ + 1]
    <3>1. redeeming' = {[owner |-> wallet.owner, ref |-> gate.refCode, sent |-> FALSE]}
      BY <2>1, <2>3 DEF redeemHere
    <3>2. [owner |-> wallet.owner, ref |-> gate.refCode, sent |-> FALSE] \in RedeemRec
      BY DEF RedeemRec, GateRec
    <3>3. /\ gate' \in GateRec /\ ~gate'.pending /\ ~gate'.stored /\ gate'.pending = gate'.stored
          /\ gate'.access = gate.access /\ gate'.fetch = gate.fetch
      BY <2>1 DEF GateRec
    <3>4. /\ turns' \in [switches: Nat, submits: Nat, redeems: Nat]
          /\ turns'.submits = turns.submits /\ turns'.redeems = turns.redeems + 1
      BY <2>3
    <3>5. GateType' /\ OwnAnswer'
      BY <2>1, <3>1, <3>2, <3>3, <3>4
    <3>6. WaitingCode'
      BY <2>1, <3>1, <3>3, <3>4
    <3>. QED BY <3>5, <3>6
  <2>. QED BY <1>6, <2>2, <2>3 DEF PendingCode
<1>7. CASE applyReferralHere
  BY <1>7 DEF applyReferralHere
<1>8. CASE ReferralAnswered
  BY <1>8 DEF ReferralAnswered, GateRec
<1>9. ASSUME NEW owner \in Wallets \cup {NoWallet}, Connect(owner) PROVE GateInv'
  <2> DEFINE passes == owner # NoWallet /\ gate.access = "allowed"
             g == StaleEffects(gate, owner)
  <2>1. /\ g \in GateRec /\ g.pending = g.stored
        /\ g.pending => gate.pending
    <3>1. g = [gate EXCEPT !.remembered = IF passes THEN owner ELSE @,
                           !.pending = @ /\ ~passes, !.stored = @ /\ ~(gate.pending /\ passes)]
      BY DEF StaleEffects, Remember, GateRec
    <3>. QED BY <3>1 DEF GateRec, WalletOrNone
  <2> HIDE DEF g
  <2>2. /\ gate' = [g EXCEPT !.access = Unknown, !.failed = FALSE, !.fetch = owner]
        /\ wallet' = [wallet EXCEPT !.owner = owner] /\ turns' = [turns EXCEPT !.switches = @ + 1]
        /\ strayed' = (strayed \/ \E r \in redeeming : r.owner # owner)
        /\ UNCHANGED <<allowed, redeeming>>
    BY <1>9 DEF Connect, Switch, Refetch, g
  <2>3. gate' \in GateRec /\ gate'.pending = g.pending /\ gate'.stored = g.stored
        /\ gate'.access = Unknown /\ gate'.fetch = owner
    <3>1. owner \in WalletOrNone
      BY DEF WalletOrNone
    <3>2. Unknown \in {Unknown, "allowed", "refused"}
      OBVIOUS
    <3>3. [g EXCEPT !.access = Unknown, !.failed = FALSE, !.fetch = owner] \in GateRec
      BY <2>1, <3>1, <3>2 DEF GateRec
    <3>4. gate'.pending = g.pending /\ gate'.stored = g.stored
      BY <2>1, <2>2 DEF GateRec
    <3>5. gate'.access = Unknown /\ gate'.fetch = owner
      BY <2>1, <2>2 DEF GateRec
    <3>. QED BY <2>2, <3>3, <3>4, <3>5
  <2>4. GateType' /\ wallet'.owner = owner
    BY <2>2, <2>3 DEF WalletOrNone
  <2>5. OwnAnswer'
    BY <2>2, <2>3, <2>4 DEF Unknown
  <2>6. WaitingCode'
    <3>1. gate'.pending = gate'.stored
      BY <2>1, <2>3
    <3>2. /\ turns' \in [switches: Nat, submits: Nat, redeems: Nat]
          /\ turns'.submits = turns.submits /\ turns'.redeems = turns.redeems
      BY <2>2
    <3>3. gate'.pending => gate.pending
      BY <2>1, <2>3
    <3>. QED BY <2>2, <3>1, <3>2, <3>3
  <2>. QED BY <2>4, <2>5, <2>6
<1>10. ASSUME NEW owner \in Wallets \cup {NoWallet}, Reload(owner) PROVE GateInv'
  <2>1. /\ gate' = [gate EXCEPT !.pending = gate.stored, !.access = Unknown, !.failed = FALSE,
                                !.fetch = owner]
        /\ wallet' = [ready |-> FALSE, owner |-> owner] /\ turns' = [turns EXCEPT !.switches = @ + 1]
        /\ redeeming' = {} /\ UNCHANGED <<allowed, strayed>>
    BY <1>10 DEF Reload, Switch, Refetch, GateRec
  <2>2. /\ gate' \in GateRec /\ gate'.pending = gate.pending /\ gate'.stored = gate.stored
        /\ gate'.access = Unknown /\ gate'.fetch = owner
    BY <2>1 DEF GateRec, WalletOrNone
  <2>3. GateType' /\ wallet'.owner = owner
    BY <2>1, <2>2 DEF WalletOrNone
  <2>. QED BY <2>1, <2>2, <2>3 DEF Unknown
<1>11. ASSUME NEW r \in redeeming, RedeemReaches(r) PROVE GateInv'
  BY <1>11 DEF RedeemReaches, RedeemRec
<1>12. ASSUME NEW r \in redeeming, RedeemAnswers(r) PROVE GateInv'
  BY <1>12 DEF RedeemAnswers, Remember, GateRec, RedeemRec, WalletOrNone
<1>13. ASSUME NEW r \in redeeming, SignRefused(r) PROVE GateInv'
  BY <1>13 DEF SignRefused
<1>14. CASE UNCHANGED gateVars
  BY <1>14 DEF gateVars
<1>. QED BY <1>1, <1>2, <1>3, <1>4, <1>5, <1>6, <1>7, <1>8, <1>9, <1>10, <1>11, <1>12, <1>13, <1>14
         DEF GateNext

\* useAccessGate.ts: the app is mounted only for a wallet the backend lets in,
\* through changes of wallet, reloads and late answers to a look-up, as long as
\* no redeem has outlived the wallet it was for (`strayed`: its answer opens the
\* gate for whoever is connected by then, useAccessGate.ts:218). A code that
\* waited for its wallet is redeemed once, strayed or not.
THEOREM GateHoldsFirm == GateSpec => []GateSound
<1>1. GateInit => GateInv
  BY DEF GateInit, GateInv, GateType, OwnAnswer, WaitingCode, GateRec, WalletOrNone, NoWallet, Unknown
<1>2. GateInv => GateSound
  <2> SUFFICES ASSUME GateInv PROVE GateSound
    OBVIOUS
  <2>1. status = "hidden" => gate.access = "allowed"
    BY DEF status, gateDecision, GateInv, GateType, GateRec, Unknown
  <2>. QED BY <2>1 DEF GateInv, GateType, OwnAnswer, WaitingCode, GateSound, GateHolds, RedeemedOnce
<1>. QED BY <1>1, <1>2, GateStep, PTL DEF GateSpec

-----------------------------------------------------------------------------
(* Sending: the transactions before the last one are done for.             *)

WireRec == [last: Int, seen: {"none", "processed", "confirmed"}, err: BOOLEAN]
PageRec ==
  [pc: {"idle", "confirm", "status", "height"},
   kind: {"none", "threw", "failed", "landed", "expired", "unknown"}, presses: Nat]

SendingType ==
  /\ tip \in Nat
  /\ wires \in Seq(WireRec)

\* A wire whose fate no block can change any more.
Done(w) == w.seen = "confirmed" \/ (w.seen = "none" /\ tip >= w.last)

\* The page sends only after what it sent before is done for; whatever block
\* still holds its last transaction is above the confirmed height.
PageInv ==
  /\ page \in PageRec
  /\ \A i \in 1..Len(wires) : i # Len(wires) => Done(wires[i])
  /\ \A i \in 1..Len(wires) : wires[i].seen = "processed" => tip < wires[i].last
  /\ page.pc # "idle" => Len(wires) # 0 /\ page.kind \in {"none", "expired"}
  /\ page.pc = "idle" /\ page.kind = "none" => Len(wires) = 0
  /\ page.pc = "idle" /\ page.kind = "expired" => Len(wires) # 0 /\ Done(wires[Len(wires)])
  /\ page.pc = "idle" /\ page.kind = "landed" => Len(wires) # 0 /\ Landed(wires[Len(wires)])

BrowserInv == SendingType /\ PageInv

\* Only the last transaction moves, and only while the page waits for it or
\* has given no answer that speaks of it.
LEMMA WireMoves ==
  ASSUME BrowserInv, NEW i \in 1..Len(wires), NEW w \in WireRec, ~Done(wires[i]),
         wires' = [wires EXCEPT ![i] = w], tip' \in Nat, tip <= tip', page' = page,
         w.seen = "processed" => tip' < w.last
  PROVE  BrowserInv'
<1>1. wires \in Seq(WireRec) /\ Len(wires) \in Nat /\ tip \in Nat
  BY LenProperties DEF BrowserInv, SendingType
<1>2. /\ wires' \in Seq(WireRec) /\ Len(wires') = Len(wires) /\ wires'[i] = w
      /\ \A j \in 1..Len(wires) : j # i => wires'[j] = wires[j]
  BY <1>1, ExceptSeq
<1>3. i = Len(wires)
  BY DEF BrowserInv, PageInv
<1>4. SendingType'
  BY <1>2 DEF SendingType
<1>5. ASSUME NEW j \in 1..Len(wires), j # i PROVE wires'[j] = wires[j] /\ Done(wires[j])'
  <2>1. wires'[j] = wires[j] /\ Done(wires[j]) /\ wires[j] \in WireRec
    BY <1>1, <1>2, <1>3, <1>5, ElementOfSeq DEF BrowserInv, PageInv
  <2>. QED BY <1>1, <2>1 DEF Done, WireRec
<1>6. ~(page.pc = "idle" /\ page.kind \in {"none", "expired", "landed"})
  BY <1>1, <1>3 DEF BrowserInv, PageInv, Landed, Done
<1>7. PageInv'
  <2>1. page' \in PageRec
    BY DEF BrowserInv, PageInv
  <2>2. ASSUME NEW j \in 1..Len(wires)
        PROVE  wires'[j].seen = "processed" => tip' < wires'[j].last
    BY <1>2, <1>5, <2>2 DEF Done
  <2>3. page.pc # "idle" => Len(wires) # 0 /\ page.kind \in {"none", "expired"}
    BY DEF BrowserInv, PageInv
  <2>. QED BY <1>2, <1>3, <1>5, <1>6, <2>1, <2>2, <2>3 DEF PageInv
<1>. QED BY <1>4, <1>7 DEF BrowserInv

\* An inclusion writes two fields of a wire.
LEMMA IncludedWire ==
  ASSUME NEW x \in WireRec, NEW err \in BOOLEAN
  PROVE  /\ [x EXCEPT !.seen = "processed", !.err = err] \in WireRec
         /\ [x EXCEPT !.seen = "processed", !.err = err].last = x.last
<1> DEFINE y == [x EXCEPT !.seen = "processed"]
<1>1. y \in WireRec /\ y.last = x.last
  BY DEF WireRec
<1>2. [x EXCEPT !.seen = "processed", !.err = err] = [y EXCEPT !.err = err]
  OBVIOUS
<1> HIDE DEF y
<1>. QED BY <1>1, <1>2 DEF WireRec

\* The chain moves under the page.
LEMMA ClusterStep == BrowserInv /\ ClusterNext => BrowserInv'
<1> SUFFICES ASSUME BrowserInv, ClusterNext PROVE BrowserInv'
  OBVIOUS
<1>1. wires \in Seq(WireRec) /\ DOMAIN wires = 1..Len(wires) /\ tip \in Nat
  BY LenProperties DEF BrowserInv, SendingType
<1>2. \A i \in 1..Len(wires) : wires[i] \in WireRec
  BY <1>1, ElementOfSeq
<1>3. CASE NextBlock
  <2>1. tip' = tip + 1 /\ UNCHANGED <<wires, page>>
    BY <1>3 DEF NextBlock
  <2>2. ASSUME NEW i \in 1..Len(wires) PROVE Done(wires[i]) => Done(wires[i])'
    BY <1>1, <1>2, <2>1 DEF Done, WireRec
  <2>3. ASSUME NEW i \in 1..Len(wires), wires[i].seen = "processed" PROVE tip' < wires[i].last
    BY <1>1, <1>3, <2>3 DEF NextBlock
  <2>4. Len(wires) # 0 => Len(wires) \in 1..Len(wires)
    BY <1>1, LenProperties
  <2>5. SendingType'
    BY <1>1, <2>1 DEF BrowserInv, SendingType
  <2>6. PageInv'
    BY <1>1, <2>1, <2>2, <2>3, <2>4 DEF BrowserInv, PageInv, Landed
  <2>. QED BY <2>5, <2>6 DEF BrowserInv
<1>4. ASSUME NEW i \in 1..Len(wires), Include(i) PROVE BrowserInv'
  <2>1. PICK err \in BOOLEAN : wires' = [wires EXCEPT ![i].seen = "processed", ![i].err = err]
    BY <1>4 DEF Include
  <2> DEFINE w == [wires[i] EXCEPT !.seen = "processed", !.err = err]
  <2>2. w \in WireRec /\ w.last = wires[i].last /\ wires' = [wires EXCEPT ![i] = w]
    <3>1. w \in WireRec /\ w.last = wires[i].last
      BY <1>2, IncludedWire
    <3>. QED BY <2>1, <3>1
  <2>3. ~Done(wires[i]) /\ tip < wires[i].last /\ UNCHANGED <<tip, page>>
    BY <1>1, <1>2, <1>4 DEF Include, Alive, Done, WireRec
  <2> HIDE DEF w
  <2>4. tip' \in Nat /\ tip <= tip' /\ page' = page /\ tip' < w.last
    BY <1>1, <2>2, <2>3
  <2>. QED BY <2>2, <2>3, <2>4, WireMoves
<1>5. ASSUME NEW i \in 1..Len(wires), Skip(i) PROVE BrowserInv'
  <2> DEFINE w == Wire(wires[i].last)
  <2>1. w \in WireRec /\ w.seen = "none"
    BY <1>2 DEF Wire, WireRec
  <2>2. ~Done(wires[i]) /\ wires' = [wires EXCEPT ![i] = w] /\ UNCHANGED <<tip, page>>
    BY <1>5 DEF Skip, Done
  <2> HIDE DEF w
  <2>3. tip' \in Nat /\ tip <= tip' /\ page' = page /\ w.seen # "processed"
    BY <1>1, <2>1, <2>2
  <2>. QED BY <2>1, <2>2, <2>3, WireMoves
<1>6. ASSUME NEW i \in 1..Len(wires), Confirm(i) PROVE BrowserInv'
  <2> DEFINE w == [wires[i] EXCEPT !.seen = "confirmed"]
  <2>1. w \in WireRec /\ w.seen = "confirmed"
    BY <1>2 DEF WireRec
  <2>2. ~Done(wires[i]) /\ wires' = [wires EXCEPT ![i] = w] /\ tip' = tip + 1 /\ page' = page
    BY <1>6 DEF Confirm, Done
  <2> HIDE DEF w
  <2>3. tip' \in Nat /\ tip <= tip' /\ page' = page /\ w.seen # "processed"
    BY <1>1, <2>1, <2>2
  <2>. QED BY <2>1, <2>2, <2>3, WireMoves
<1>. QED BY <1>1, <1>3, <1>4, <1>5, <1>6 DEF ClusterNext

\* The page sends, and asks what became of it.
LEMMA PageStep == BrowserInv /\ BrowserNext => BrowserInv'
<1> SUFFICES ASSUME BrowserInv, BrowserNext PROVE BrowserInv'
  OBVIOUS
<1>1. wires \in Seq(WireRec) /\ Len(wires) \in Nat /\ tip \in Nat
  BY LenProperties DEF BrowserInv, SendingType
<1> DEFINE n == Len(wires)
<1>2. page \in PageRec /\ UNCHANGED tip
  BY DEF BrowserInv, PageInv, BrowserNext, sendMany, confirmTransaction, resolveStatus, resolveHeight
<1>3. CASE sendMany
  <2>1. /\ page.pc = "idle" /\ page.kind \in {"none", "expired"}
        /\ n # 0 => Done(wires[n])
    BY <1>3 DEF sendMany, MayPress, BrowserInv, PageInv
  <2>2. CASE UNCHANGED wires /\ page' \in PageRec /\ page'.pc = "idle" /\ page'.kind \in {"failed", "threw"}
    BY <1>1, <1>2, <2>2 DEF BrowserInv, SendingType, PageInv, Done
  <2>3. CASE wires' = Append(wires, Wire(tip + Validity))
             /\ page' = [page EXCEPT !.pc = "confirm", !.presses = @ + 1]
    <3> DEFINE w == Wire(tip + Validity)
    <3>1. w \in WireRec /\ w.seen = "none"
      BY <1>1, SendingAssumption DEF Wire, WireRec
    <3> HIDE DEF w
    <3>2. /\ wires' \in Seq(WireRec) /\ Len(wires') = n + 1 /\ wires'[n + 1] = w
          /\ \A i \in 1..n : wires'[i] = wires[i]
      BY <1>1, <2>3, <3>1, AppendProperties DEF w
    <3>3. \A i \in 1..n : Done(wires[i])
      BY <1>1, <2>1 DEF BrowserInv, PageInv
    <3>4. \A i \in 1..n : Done(wires[i])'
      BY <1>2, <3>2, <3>3 DEF Done
    <3>5. page' \in PageRec /\ page'.pc = "confirm" /\ page'.kind = page.kind
      <4>1. page' = [pc |-> "confirm", kind |-> page.kind, presses |-> page.presses + 1]
        BY <1>2, <2>3 DEF PageRec
      <4>. QED BY <1>2, <4>1 DEF PageRec
    <3>6. \A i \in 1..(n + 1) : wires'[i].seen # "processed"
      <4>1. \A i \in 1..n : wires'[i].seen # "processed"
        BY <3>4 DEF Done
      <4>. QED BY <1>1, <3>1, <3>2, <4>1
    <3>. QED BY <1>1, <1>2, <2>1, <3>2, <3>4, <3>5, <3>6 DEF BrowserInv, SendingType, PageInv
  <2>4. \/ UNCHANGED wires /\ page' = [page EXCEPT !.kind = "failed", !.presses = @ + 1]
        \/ UNCHANGED wires /\ page' = [page EXCEPT !.kind = "threw", !.presses = @ + 1]
        \/ /\ wires' = Append(wires, Wire(tip + Validity))
           /\ page' = [page EXCEPT !.pc = "confirm", !.presses = @ + 1]
    BY <1>3 DEF sendMany
  <2>5. ASSUME NEW k \in {"failed", "threw"}, page' = [page EXCEPT !.kind = k, !.presses = @ + 1]
        PROVE  page' \in PageRec /\ page'.pc = "idle" /\ page'.kind = k
    <3>1. page' = [pc |-> page.pc, kind |-> k, presses |-> page.presses + 1]
      BY <1>2, <2>5 DEF PageRec
    <3>. QED BY <1>2, <2>1, <3>1 DEF PageRec
  <2>. QED BY <2>2, <2>3, <2>4, <2>5
<1>4. ASSUME wires' = wires, page.pc # "idle",
             \/ page'.pc # "idle" /\ page' \in PageRec /\ page'.kind = page.kind
             \/ page' \in PageRec /\ page'.pc = "idle" /\ page'.kind = "failed"
             \/ page' \in PageRec /\ page'.pc = "idle" /\ page'.kind = "expired" /\ Done(wires[n])
             \/ page' \in PageRec /\ page'.pc = "idle" /\ page'.kind = "landed" /\ Landed(wires[n])
      PROVE  BrowserInv'
  BY <1>1, <1>2, <1>4 DEF BrowserInv, SendingType, PageInv, Done, Landed
<1>5. ASSUME NEW k \in {"failed", "expired", "landed"}, Settle(k)
      PROVE  page' \in PageRec /\ page'.pc = "idle" /\ page'.kind = k
  BY <1>2, <1>5 DEF Settle, PageRec
<1>6. ASSUME NEW p \in {"confirm", "status", "height"}, page' = [page EXCEPT !.pc = p]
      PROVE  page' \in PageRec /\ page'.pc # "idle" /\ page'.kind = page.kind
  BY <1>2, <1>6 DEF PageRec
<1>7. n # 0 /\ page.pc # "idle" => wires[n] \in WireRec /\ Attempt = wires[n]
  BY <1>1, ElementOfSeq DEF Attempt, Last
<1>8. CASE confirmTransaction
  <2>1. page.pc # "idle" /\ n # 0 /\ wires' = wires
    BY <1>8 DEF confirmTransaction, BrowserInv, PageInv
  <2>2. CASE Attempt.seen = "confirmed" /\ Settle(IF Attempt.err THEN "failed" ELSE "landed")
    <3>1. CASE Attempt.err
      BY <1>4, <1>5, <2>1, <2>2, <3>1
    <3>2. CASE ~Attempt.err
      BY <1>4, <1>5, <1>7, <2>1, <2>2, <3>2 DEF Landed
    <3>. QED BY <3>1, <3>2
  <2>3. CASE Attempt.seen = "none" /\ tip > Attempt.last /\ Settle("expired")
    <3>1. Done(wires[n])
      BY <1>1, <1>7, <2>1, <2>3 DEF Done, WireRec
    <3>. QED BY <1>4, <1>5, <2>1, <2>3, <3>1
  <2>4. CASE page' = [page EXCEPT !.pc = "status"]
    BY <1>4, <1>6, <2>1, <2>4
  <2>. QED BY <1>8, <2>2, <2>3, <2>4 DEF confirmTransaction
<1>9. CASE resolveStatus
  <2>1. page.pc # "idle" /\ n # 0 /\ wires' = wires
    BY <1>9 DEF resolveStatus, BrowserInv, PageInv
  <2>2. CASE StatusKind(Attempt) = "unknown"
    BY <1>4, <1>6, <1>9, <2>1, <2>2 DEF resolveStatus
  <2>3. CASE StatusKind(Attempt) # "unknown"
    <3>1. Settle(StatusKind(Attempt))
      BY <1>9, <2>3 DEF resolveStatus
    <3>2. CASE StatusKind(Attempt) = "landed"
      <4>1. Landed(wires[n])
        BY <1>7, <2>1, <3>2 DEF StatusKind, Landed
      <4>. QED BY <1>4, <1>5, <2>1, <3>1, <3>2, <4>1
    <3>3. CASE StatusKind(Attempt) = "failed"
      BY <1>4, <1>5, <2>1, <3>1, <3>3
    <3>. QED BY <2>3, <3>2, <3>3 DEF StatusKind
  <2>. QED BY <2>2, <2>3
<1>10. CASE resolveHeight
  <2>1. page.pc # "idle" /\ n # 0 /\ wires' = wires
    BY <1>10 DEF resolveHeight, BrowserInv, PageInv
  <2>2. CASE HashExpired(Attempt.last)
    <3>1. Done(wires[n])
      <4>1. n \in 1..n /\ wires[n].seen = "processed" => tip < wires[n].last
        BY <1>1, <2>1 DEF BrowserInv, PageInv
      <4>. QED BY <1>1, <1>7, <2>1, <2>2, <4>1 DEF HashExpired, Done, WireRec
    <3>2. Settle("expired")
      BY <1>10, <2>2 DEF resolveHeight
    <3>. QED BY <1>4, <1>5, <2>1, <3>1, <3>2
  <2>3. CASE ~HashExpired(Attempt.last)
    BY <1>4, <1>6, <1>10, <2>1, <2>3 DEF resolveHeight
  <2>. QED BY <2>2, <2>3
<1>. QED BY <1>3, <1>8, <1>9, <1>10 DEF BrowserNext

\* What is done for is in no block to come.
LEMMA DoneDead ==
  ASSUME SendingType PROVE \A i \in DOMAIN wires : Done(wires[i]) => ~Alive(wires[i])
<1>1. wires \in Seq(WireRec) /\ DOMAIN wires = 1..Len(wires) /\ tip \in Nat
  BY LenProperties DEF SendingType
<1>2. \A i \in DOMAIN wires : wires[i] \in WireRec
  BY <1>1, ElementOfSeq
<1>. QED BY <1>1, <1>2 DEF Done, Alive, WireRec

\* actions.ts: what is shown as landed stays, and while the player is told to try
\* again no earlier transaction can still be included, whatever blocks were
\* skipped, however often the answer was lost and the button pressed.
THEOREM AnswersHold == BrowserSpec => []ToldTrue
<1>1. SendingInit => BrowserInv /\ srv.kind = "none"
  BY EmptySeq DEF SendingInit, BrowserInv, SendingType, PageInv, PageRec
<1>2. ASSUME BrowserInv, srv.kind = "none" PROVE ToldTrue
  <2>1. wires \in Seq(WireRec) /\ DOMAIN wires = 1..Len(wires) /\ tip \in Nat
    BY <1>2, LenProperties DEF BrowserInv, SendingType
  <2>2. page.pc = "idle" /\ page.kind = "expired" => \A i \in DOMAIN wires : Done(wires[i])
    BY <1>2, <2>1 DEF BrowserInv, PageInv
  <2>3. \A i \in DOMAIN wires : Done(wires[i]) => ~Alive(wires[i])
    BY <1>2, DoneDead DEF BrowserInv
  <2>. QED BY <1>2, <2>2, <2>3 DEF BrowserInv, PageInv, ToldTrue, Attempt, Last
<1>3. BrowserInv /\ UNCHANGED sendingVars => BrowserInv'
  BY DEF sendingVars, BrowserInv, SendingType, PageInv, Done, Landed
<1>4. BrowserInv /\ [ClusterNext \/ BrowserNext]_sendingVars => BrowserInv'
  BY <1>3, ClusterStep, PageStep
<1>5. srv.kind = "none" /\ [ClusterNext \/ BrowserNext]_sendingVars => (srv.kind = "none")'
  BY DEF ClusterNext, NextBlock, Include, Skip, Confirm, BrowserNext, sendMany, confirmTransaction,
         resolveStatus, resolveHeight, sendingVars
<1>. QED BY <1>1, <1>2, <1>4, <1>5, PTL DEF BrowserSpec

\* Whatever block still holds a transaction is above the confirmed height.
Held == \A i \in 1..Len(wires) : wires[i].seen = "processed" => tip < wires[i].last

\* One send, and it is over: called expired only once its transaction is done for.
ServerInv ==
  /\ SendingType /\ Held /\ page.pc = "idle" /\ page.kind = "none"
  /\ srv \in [pc: {"idle", "watch", "status", "height"},
              kind: {"none", "ok", "failed", "threw", "expired", "pending"}]
  /\ Len(wires) <= 1
  /\ srv.pc # "idle" => srv.kind = "none" /\ Len(wires) = 1
  /\ (srv.pc = "idle" /\ srv.kind = "none") => Len(wires) = 0
  /\ srv.kind = "expired" => \A i \in 1..Len(wires) : Done(wires[i])

\* The chain moves under the backend: what no block can change stays so.
LEMMA DoneStays ==
  ASSUME SendingType, Held, Len(wires) <= 1, ClusterNext
  PROVE  /\ SendingType' /\ Held' /\ Len(wires') = Len(wires) /\ UNCHANGED <<page, srv>>
         /\ \A i \in 1..Len(wires) : Done(wires[i]) => Done(wires[i])'
<1>1. wires \in Seq(WireRec) /\ DOMAIN wires = 1..Len(wires) /\ Len(wires) \in Nat /\ tip \in Nat
  BY LenProperties DEF SendingType
<1>2. \A i \in 1..Len(wires) : wires[i] \in WireRec
  BY <1>1, ElementOfSeq
<1>3. CASE NextBlock
  <2>1. tip' = tip + 1 /\ UNCHANGED <<wires, page, srv>>
    BY <1>3 DEF NextBlock
  <2>2. ASSUME NEW i \in 1..Len(wires) PROVE Done(wires[i]) => Done(wires[i])'
    BY <1>1, <1>2, <2>1 DEF Done, WireRec
  <2>3. Held'
    BY <1>1, <1>2, <1>3, <2>1 DEF NextBlock, Held, WireRec
  <2>. QED BY <1>1, <2>1, <2>2, <2>3 DEF SendingType
<1>4. ASSUME NEW i \in 1..Len(wires), NEW w \in WireRec, ~Done(wires[i]),
             wires' = [wires EXCEPT ![i] = w], tip' \in {tip, tip + 1}, UNCHANGED <<page, srv>>,
             w.seen = "processed" => tip' < w.last
      PROVE  /\ SendingType' /\ Held' /\ Len(wires') = Len(wires) /\ UNCHANGED <<page, srv>>
             /\ \A j \in 1..Len(wires) : Done(wires[j]) => Done(wires[j])'
  <2>1. /\ wires' \in Seq(WireRec) /\ Len(wires') = Len(wires) /\ wires'[i] = w
        /\ \A j \in 1..Len(wires) : j # i => wires'[j] = wires[j]
    BY <1>1, <1>4, ExceptSeq
  <2>2. ASSUME NEW j \in 1..Len(wires), Done(wires[j]) PROVE Done(wires[j])'
    <3>1. wires'[j] = wires[j] /\ wires[j] \in WireRec
      BY <1>2, <1>4, <2>1, <2>2
    <3>. QED BY <1>1, <1>4, <2>2, <3>1 DEF Done, WireRec
  <2>3. Held'
    <3>1. \A j \in 1..Len(wires) : j = i
      BY <1>1, <1>4
    <3>. QED BY <1>4, <2>1, <3>1 DEF Held
  <2>4. SendingType'
    BY <1>1, <1>4, <2>1 DEF SendingType
  <2>. QED BY <1>4, <2>1, <2>2, <2>3, <2>4
<1>5. ASSUME NEW i \in 1..Len(wires), Include(i) \/ Skip(i) \/ Confirm(i)
      PROVE  \E w \in WireRec :
               /\ ~Done(wires[i]) /\ wires' = [wires EXCEPT ![i] = w] /\ tip' \in {tip, tip + 1}
               /\ UNCHANGED <<page, srv>>
               /\ w.seen = "processed" => tip' < w.last
  <2>1. CASE Include(i)
    <3>1. PICK err \in BOOLEAN : wires' = [wires EXCEPT ![i].seen = "processed", ![i].err = err]
      BY <2>1 DEF Include
    <3> DEFINE w == [wires[i] EXCEPT !.seen = "processed", !.err = err]
    <3>2. w \in WireRec /\ w.last = wires[i].last
      BY <1>2, IncludedWire
    <3>3. wires' = [wires EXCEPT ![i] = w]
      BY <3>1
    <3>4. ~Done(wires[i]) /\ tip < wires[i].last /\ UNCHANGED <<tip, page, srv>>
      BY <1>1, <1>2, <2>1 DEF Include, Alive, Done, WireRec
    <3> HIDE DEF w
    <3>. QED BY <3>2, <3>3, <3>4
  <2>2. CASE Skip(i)
    <3> DEFINE w == Wire(wires[i].last)
    <3>1. w \in WireRec /\ w.seen = "none"
      BY <1>2 DEF Wire, WireRec
    <3>2. ~Done(wires[i]) /\ wires' = [wires EXCEPT ![i] = w] /\ UNCHANGED <<tip, page, srv>>
      BY <2>2 DEF Skip, Done
    <3> HIDE DEF w
    <3>. QED BY <3>1, <3>2
  <2>3. CASE Confirm(i)
    <3> DEFINE w == [wires[i] EXCEPT !.seen = "confirmed"]
    <3>1. w \in WireRec /\ w.seen = "confirmed"
      BY <1>2 DEF WireRec
    <3>2. ~Done(wires[i]) /\ wires' = [wires EXCEPT ![i] = w] /\ tip' = tip + 1 /\ UNCHANGED <<page, srv>>
      BY <2>3 DEF Confirm, Done
    <3> HIDE DEF w
    <3>. QED BY <3>1, <3>2
  <2>. QED BY <1>5, <2>1, <2>2, <2>3
<1>. QED BY <1>1, <1>3, <1>4, <1>5 DEF ClusterNext

\* A step of the backend's send: the transaction is put on the network at most
\* once, and the height question calls it expired only when it is done for.
LEMMA ServerStep == ServerInv /\ BackendNext => ServerInv'
<1> SUFFICES ASSUME ServerInv, BackendNext PROVE ServerInv'
  OBVIOUS
<1>1. /\ wires \in Seq(WireRec) /\ Len(wires) \in Nat /\ tip \in Nat /\ Validity \in Nat
      /\ SendingType /\ Held /\ page.pc = "idle" /\ page.kind = "none"
  BY LenProperties, SendingAssumption DEF ServerInv, SendingType
<1>2. CASE send
  <2>1. UNCHANGED <<tip, page>> /\ srv.pc = "idle" /\ srv.kind = "none" /\ Len(wires) = 0
    BY <1>2 DEF send, ServerInv
  <2>2. CASE /\ wires' = Append(wires, Wire(tip + Validity))
             /\ srv' = IF CallServed THEN [srv EXCEPT !.pc = "watch"] ELSE [srv EXCEPT !.kind = "threw"]
    <3>1. Wire(tip + Validity) \in WireRec /\ Wire(tip + Validity).seen = "none"
      BY <1>1 DEF Wire, WireRec
    <3>2. wires' \in Seq(WireRec) /\ Len(wires') = 1 /\ wires'[1] = Wire(tip + Validity)
      BY <1>1, <2>1, <2>2, <3>1, AppendProperties
    <3>3. SendingType' /\ Held'
      BY <1>1, <2>1, <3>1, <3>2 DEF SendingType, Held
    <3>. QED BY <2>1, <2>2, <3>2, <3>3, <1>1 DEF ServerInv
  <2>3. CASE srv' = [srv EXCEPT !.pc = "idle", !.kind = "threw"] /\ UNCHANGED wires
    BY <1>1, <2>1, <2>3 DEF ServerInv, SendingType, Held
  <2>. QED BY <1>2, <2>2, <2>3 DEF send, Answer
<1>3. CASE watchSignature \/ confirmStatus \/ confirmHeight
  <2>1. UNCHANGED <<tip, wires, page>> /\ srv.pc # "idle" /\ srv.kind = "none" /\ Len(wires) = 1
    BY <1>3 DEF watchSignature, confirmStatus, confirmHeight, ServerInv
  <2>2. SendingType' /\ Held'
    BY <1>1, <2>1 DEF SendingType, Held
  <2>3. ASSUME NEW kind \in {"ok", "failed", "threw", "expired", "pending"}, Answer(kind),
               kind = "expired" => \A i \in 1..Len(wires) : Done(wires[i])
        PROVE  ServerInv'
    <3>1. srv' = [srv EXCEPT !.pc = "idle", !.kind = kind]
      BY <2>3 DEF Answer
    <3>2. srv'.pc = "idle" /\ srv'.kind = kind
          /\ srv' \in [pc: {"idle", "watch", "status", "height"},
                       kind: {"none", "ok", "failed", "threw", "expired", "pending"}]
      BY <3>1 DEF ServerInv
    <3>3. kind = "expired" => (\A i \in 1..Len(wires) : Done(wires[i]))'
      BY <2>1, <2>3 DEF Done
    <3>. QED BY <1>1, <2>1, <2>2, <3>2, <3>3 DEF ServerInv
  <2>4. ASSUME NEW pc \in {"status", "height"}, srv' = [srv EXCEPT !.pc = pc] PROVE ServerInv'
    BY <1>1, <2>1, <2>2, <2>4 DEF ServerInv
  <2>5. CASE watchSignature
    BY <2>3, <2>4, <2>5 DEF watchSignature
  <2>6. CASE confirmStatus
    BY <2>3, <2>4, <2>6 DEF confirmStatus, Confirmation
  <2>7. CASE confirmHeight
    <3>1. ASSUME HashExpired(Attempt.last) PROVE \A i \in 1..Len(wires) : Done(wires[i])
      <4>1. \A i \in 1..Len(wires) : wires[i] = Attempt /\ wires[i] \in WireRec
        BY <1>1, <2>1, ElementOfSeq DEF Attempt, Last
      <4>. QED BY <1>1, <3>1, <4>1 DEF HashExpired, Held, Done, WireRec
    <3>. QED BY <2>3, <2>7, <3>1 DEF confirmHeight
  <2>. QED BY <1>3, <2>5, <2>6, <2>7
<1>. QED BY <1>2, <1>3 DEF BackendNext

\* chain.service.ts: what confirm calls expired is in no block to come, whatever
\* the subscription missed, whichever endpoint answered and whatever blocks were
\* skipped meanwhile. (A success is worth less: it may rest on a block that is
\* skipped afterwards, which is why RefusedOnlyIfRan is about what ran.)
THEOREM ServerAnswersHold == BackendSpec => []ToldTrue
<1>1. SendingInit => ServerInv
  BY EmptySeq DEF SendingInit, ServerInv, SendingType, Held
<1>2. ServerInv => ToldTrue
  <2> SUFFICES ASSUME ServerInv PROVE ToldTrue
    OBVIOUS
  <2>1. DOMAIN wires = 1..Len(wires)
    BY LenProperties DEF ServerInv, SendingType
  <2>. QED BY <2>1, DoneDead DEF ServerInv, ToldTrue
<1>3. ServerInv /\ [ClusterNext \/ Endpoints \/ BackendNext]_sendingVars => ServerInv'
  <2> SUFFICES ASSUME ServerInv, [ClusterNext \/ Endpoints \/ BackendNext]_sendingVars PROVE ServerInv'
    OBVIOUS
  <2>1. Len(wires) \in Nat /\ Len(wires) <= 1
    BY LenProperties DEF ServerInv, SendingType
  <2>2. CASE ClusterNext
    BY <2>1, <2>2, DoneStays DEF ServerInv
  <2>3. CASE Endpoints \/ UNCHANGED sendingVars
    <3>1. UNCHANGED <<tip, wires, page, srv>>
      BY <2>3 DEF Endpoints, sendingVars
    <3>. QED BY <3>1 DEF ServerInv, SendingType, Held, Done
  <2>. QED BY <2>2, <2>3, ServerStep
<1>. QED BY <1>1, <1>2, <1>3, PTL DEF BackendSpec

-----------------------------------------------------------------------------
(* Playing from the browser: the clock that lags, the round last seen, the  *)
(* counter of automatic rounds.                                             *)

PlayType ==
  /\ chainTime \in Int /\ slept \in Int
  /\ sync \in [round: Int, offset: Int]
  /\ auto.left \in Int /\ DOMAIN auto = {"left", "board", "handled"}
  /\ tally \in [placed: Int, asked: Int]
  /\ table \in [id: Nat, status: {"Open", "Settled", "Forfeited", "Voided"}, covered: BOOLEAN,
                ended: BOOLEAN]

\* A clock that has been anchored is never ahead of the chain.
ClockBehind == sync.round # NoRoundId => chainTimeNow <= chainTime

\* What was last seen of a round is an earlier state of it; once drawn it does
\* not change.
SeenBehind ==
  /\ seen.round \in Int /\ seen.round <= table.id
  /\ seen.round = table.id /\ Revealed(seen.status)
       => seen.status = table.status /\ seen.covered = table.covered

PlayInv == PlayType /\ ClockBehind /\ SeenBehind /\ AutoCounted /\ SettleNoteTrue

\* A second passes, on the chain and, unless the device sleeps, in the browser.
LEMMA SecondStep ==
  ASSUME PlayInv, NEW asleep \in BOOLEAN, Second(asleep)
  PROVE  PlayInv' /\ chainTimeNow' >= chainTimeNow
<1>1. /\ chainTime' = chainTime + 1 /\ slept' \in {slept, slept + 1}
      /\ UNCHANGED <<table, seen, sync, auto, note, tally>>
  BY DEF Second
<1>2. PlayType' /\ sync.offset \in Int
  BY <1>1 DEF PlayInv, PlayType
<1>3. chainTimeNow' >= chainTimeNow /\ (chainTimeNow <= chainTime => chainTimeNow' <= chainTime')
  BY <1>1, <1>2 DEF PlayInv, PlayType, chainTimeNow, Monotonic
<1>4. ClockBehind' /\ SeenBehind' /\ AutoCounted' /\ SettleNoteTrue'
  BY <1>1, <1>3 DEF PlayInv, ClockBehind, SeenBehind, AutoCounted, SettleNoteTrue
<1>. QED BY <1>2, <1>3, <1>4 DEF PlayInv

\* A poll re-anchors the clock at a new round, or forwards.
LEMMA PollStep ==
  ASSUME PlayInv, NEW lag \in 0..Jitter, Poll(lag)
  PROVE  /\ PlayInv'
         /\ sync.round # NoRoundId /\ sync'.round = sync.round => chainTimeNow' >= chainTimeNow
<1> DEFINE answer == chainTime - lag
<1>1. /\ UNCHANGED <<chainTime, slept, table, auto, note, tally>>
      /\ sync' \in {sync, Anchored(answer, table.id)}
      /\ seen'.round = table.id /\ seen'.status = table.status /\ seen'.covered = table.covered
  BY DEF Poll
<1>2. Jitter \in Nat /\ Tolerance \in Nat /\ Jitter < Tolerance /\ lag \in Nat /\ lag <= Jitter
  BY WebPlayAssumption, JitterInTolerance
<1>3. chainTime \in Int /\ slept \in Int /\ sync.offset \in Int /\ sync.round \in Int /\ table.id \in Nat
  BY DEF PlayInv, PlayType
<1>4. answer \in Int /\ answer <= chainTime /\ Monotonic \in Int /\ chainTimeNow \in Int
  BY <1>2, <1>3 DEF Monotonic, chainTimeNow
<1>5. CASE sync' = sync
  <2>1. chainTimeNow' = chainTimeNow
    BY <1>1, <1>5 DEF chainTimeNow, Monotonic
  <2>2. PlayType' /\ ClockBehind' /\ SeenBehind' /\ AutoCounted' /\ SettleNoteTrue'
    BY <1>1, <1>3, <1>5, <2>1 DEF PlayInv, PlayType, ClockBehind, SeenBehind, AutoCounted, SettleNoteTrue
  <2>. QED BY <1>4, <2>1, <2>2 DEF PlayInv
<1>6. CASE sync' = [round |-> table.id, offset |-> answer - Monotonic]
           /\ (sync.round = table.id => needsResync(answer))
  <2>1. sync'.round = table.id /\ sync'.offset = answer - Monotonic /\ sync'.offset \in Int
    BY <1>4, <1>6
  <2>2. chainTimeNow' = answer
    BY <1>1, <1>4, <2>1 DEF chainTimeNow, Monotonic
  <2>3. sync' \in [round: Int, offset: Int]
    BY <1>3, <1>6, <2>1
  <2>4. PlayType' /\ ClockBehind' /\ SeenBehind' /\ AutoCounted' /\ SettleNoteTrue'
    BY <1>1, <1>3, <1>4, <2>2, <2>3 DEF PlayInv, PlayType, ClockBehind, SeenBehind, AutoCounted, SettleNoteTrue
  <2>5. ASSUME sync.round # NoRoundId, sync.round = table.id PROVE answer >= chainTimeNow
    <3>1. chainTimeNow <= chainTime
      BY <2>5 DEF PlayInv, ClockBehind
    <3>2. chainTimeNow - answer >= Tolerance \/ answer - chainTimeNow >= Tolerance
      BY <1>6, <2>5 DEF needsResync
    <3>. QED BY <1>2, <1>3, <1>4, <3>1, <3>2
  <2>. QED BY <2>1, <2>2, <2>4, <2>5 DEF PlayInv
<1>7. \/ sync' = sync
      \/ /\ sync' = [round |-> table.id, offset |-> answer - Monotonic]
         /\ sync.round = table.id => needsResync(answer)
  BY <1>1 DEF Anchored
<1>. QED BY <1>5, <1>6, <1>7

\* Every other step of the browser and of the chain leaves the clock alone.
LEMMA OtherSteps ==
  ASSUME PlayInv, PlayNext, \A asleep \in BOOLEAN : ~Second(asleep), \A lag \in 0..Jitter : ~Poll(lag)
  PROVE  PlayInv' /\ UNCHANGED <<chainTime, slept, sync>>
<1> USE DEF PlayInv, PlayType, ClockBehind, SeenBehind, AutoCounted, SettleNoteTrue
<1>0. ASSUME UNCHANGED <<chainTime, slept, sync>> PROVE chainTimeNow' = chainTimeNow
  BY <1>0 DEF chainTimeNow, Monotonic
<1>1. ASSUME NEW result \in {"Settled", "Forfeited", "Voided"}, NEW covered \in BOOLEAN,
             DrawRound(result, covered)
      PROVE  PlayInv' /\ UNCHANGED <<chainTime, slept, sync>>
  <2>1. /\ UNCHANGED <<chainTime, slept, sync, seen, auto, note, tally>> /\ table.status = "Open"
        /\ table' = [table EXCEPT !.status = result, !.covered = covered]
    BY <1>1 DEF DrawRound
  <2>2. table'.id = table.id
    BY <2>1
  <2>3. table' \in [id: Nat, status: {"Open", "Settled", "Forfeited", "Voided"}, covered: BOOLEAN,
                    ended: BOOLEAN]
    <3>1. table' = [id |-> table.id, status |-> result, covered |-> covered, ended |-> table.ended]
      BY <2>1
    <3>. QED BY <3>1
  <2>4. SeenBehind'
    BY <2>1, <2>2 DEF Revealed
  <2>. QED BY <1>0, <2>1, <2>3, <2>4
<1>2. CASE OpenRound
  <2>1. /\ UNCHANGED <<chainTime, slept, sync, seen, auto, note, tally>>
        /\ table' = [id |-> table.id + 1, status |-> "Open", covered |-> FALSE, ended |-> FALSE]
    BY <1>2 DEF OpenRound
  <2>2. table' \in [id: Nat, status: {"Open", "Settled", "Forfeited", "Voided"}, covered: BOOLEAN,
                    ended: BOOLEAN]
    BY <2>1
  <2>3. SeenBehind'
    <3>1. seen' = seen /\ seen.round \in Int /\ seen.round <= table.id /\ table.id \in Nat
      BY <2>1
    <3>2. table'.id = table.id + 1
      BY <2>1
    <3>3. seen'.round \in Int /\ seen'.round <= table'.id /\ seen'.round # table'.id
      BY <3>1, <3>2
    <3>. QED BY <3>3
  <2>. QED BY <1>0, <2>1, <2>2, <2>3
<1>3. CASE EpochEnds
  BY <1>0, <1>3 DEF EpochEnds
<1>4. CASE OperatorSettles
  BY <1>0, <1>4 DEF OperatorSettles
<1>5. CASE Deploy
  BY <1>0, <1>5 DEF Deploy
<1>6. CASE AutoRound
  BY <1>0, <1>6 DEF AutoRound
<1>7. ASSUME NEW told \in BOOLEAN, DeployLands(told) PROVE PlayInv' /\ UNCHANGED <<chainTime, slept, sync>>
  <2> DEFINE after == IF deploying.auto THEN AfterAuto(told) ELSE auto
  <2>1. /\ UNCHANGED <<chainTime, slept, sync, seen, note, table>>
        /\ auto' = [after EXCEPT !.board = @ \/ told]
        /\ tally' = IF deploying.auto /\ told THEN [tally EXCEPT !.placed = @ + 1] ELSE tally
    BY <1>7 DEF DeployLands
  <2>2. CASE deploying.auto /\ told
    <3>1. auto' = [[auto EXCEPT !.handled = deploying.round, !.left = @ - 1] EXCEPT !.board = @ \/ told]
      BY <2>1, <2>2 DEF AfterAuto
    <3>2. auto'.left = auto.left - 1 /\ DOMAIN auto' = DOMAIN auto
      BY <3>1
    <3>3. tally' = [tally EXCEPT !.placed = @ + 1]
      BY <2>1, <2>2
    <3>. QED BY <1>0, <2>1, <3>2, <3>3
  <2>3. CASE ~(deploying.auto /\ told)
    BY <1>0, <2>1, <2>3 DEF AfterAuto
  <2>. QED BY <2>2, <2>3
<1>8. CASE DeployFails
  BY <1>0, <1>8 DEF DeployFails, AfterAuto
<1>9. ASSUME NEW value \in 0..MaxAsked, StepAuto(value) PROVE PlayInv' /\ UNCHANGED <<chainTime, slept, sync>>
  BY <1>0, <1>9 DEF StepAuto
<1>10. CASE settle
  BY <1>0, <1>10 DEF settle, settleState, Credited, expectedReward
<1>. QED BY <1>1, <1>2, <1>3, <1>4, <1>5, <1>6, <1>7, <1>8, <1>9, <1>10 DEF PlayNext

\* No step of playing breaks what the browser knows of the round.
LEMMA PlayStep == PlayInv /\ [PlayNext]_playVars => PlayInv'
<1>1. PlayInv /\ UNCHANGED playVars => PlayInv'
  BY DEF playVars, PlayInv, PlayType, ClockBehind, SeenBehind, AutoCounted, SettleNoteTrue,
         chainTimeNow, Monotonic
<1>. QED BY <1>1, SecondStep, PollStep, OtherSteps

\* The browser starts with nothing seen and no anchor.
LEMMA InitPlay == PlayInit => PlayInv
  BY DEF PlayInit, PlayInv, PlayType, ClockBehind, SeenBehind, AutoCounted, SettleNoteTrue, NotSeen,
         NoNote, NoRoundId, Revealed

\* App.tsx: the counter of automatic rounds goes down by exactly the boards
\* placed and told so, and the settle button names what the program credits,
\* however late the last poll and however a board was refused; the note alone is
\* not spoken for once the round's epoch is over (`ended`), where the button
\* still names the reward and the program pays nothing (App.tsx:440).
THEOREM PlayersAreTold == PlaySpec => []PlayTold
<1>1. PlayInv => PlayTold
  BY DEF PlayInv, PlayTold
<1>. QED BY <1>1, InitPlay, PlayStep, PTL DEF PlaySpec

\* useChainClock.ts: within a round the time shown never goes back, whatever the
\* served second's jitter and however long the device slept.
THEOREM CountdownSteady == PlaySpec => SteadyCountdown
<1>1. PlayInv /\ [PlayNext]_playVars
        => [(sync.round # NoRoundId /\ sync'.round = sync.round) => chainTimeNow' >= chainTimeNow]_playVars
  <2> SUFFICES ASSUME PlayInv, PlayNext, sync.round # NoRoundId, sync'.round = sync.round
               PROVE  chainTimeNow' >= chainTimeNow
    OBVIOUS
  <2>1. CASE UNCHANGED <<chainTime, slept, sync>>
    BY <2>1 DEF PlayInv, PlayType, chainTimeNow, Monotonic
  <2>. QED BY <2>1, SecondStep, PollStep, OtherSteps
<1>. QED BY <1>1, InitPlay, PlayStep, PTL DEF PlaySpec, SteadyCountdown

-----------------------------------------------------------------------------
(* The browser's poll and its reveals: rounds come one after another, and   *)
(* while requests do not overlap the answer under way is about the tracked  *)
(* round.                                                                   *)

RoundIds == Rounds \cup {NoRound}
BoardStates == {"none", "open", "revealed", "voided"}
EngineRec == [seenAnyRound: BOOLEAN, remembered: SUBSET Rounds, played: SUBSET Rounds,
              busy: BOOLEAN, running: SUBSET Rounds]
AnswerRec == [open: RoundIds, round: RoundIds, status: BoardStates]
FlightRec ==
  [pc: {"free"}] \cup [pc: {"sent"}, asked: RoundIds] \cup [pc: {"answered"}, got: AnswerRec]

\* Rounds open one after another, and only the last one may be running.
UpTo(n) ==
  \A k \in Rounds : (board[k] # "none" <=> k <= n) /\ (k < n => board[k] # "open")
BoardTrue == board \in [Rounds -> BoardStates] /\ \E n \in 0..MaxRound : UpTo(n)

\* The reveals begun are distinct results the mirror has, all of them played;
\* busy is one running animation.
QueueTrue(e, shown) ==
  /\ e \in EngineRec /\ shown \in Seq(Rounds)
  /\ \A i, j \in 1..Len(shown) : shown[i] = shown[j] => i = j
  /\ \A i \in 1..Len(shown) : shown[i] \in e.played
  /\ e.played \subseteq e.remembered
  /\ \A k \in e.remembered : board[k] = "revealed"
  /\ IF e.busy THEN \E k \in Rounds : e.running = {k} ELSE e.running = {}
NothingWaits(e) == ~e.busy => e.remembered \subseteq e.played

Answered(got) ==
  /\ got.round = NoRound => got.status = "none"
  /\ got.status = "none" => got.round = NoRound
  /\ got.status \in {"revealed", "voided"} => board[got.round] = got.status
  /\ got.open # NoRound => board[got.open] # "none"

\* Only rounds that were opened are asked for; an answer about one that is
\* over says how it ended.
AnswersTrue ==
  /\ \A f \in Slots : flight[f].pc = "sent" /\ flight[f].asked # NoRound =>
       board[flight[f].asked] # "none"
  /\ \A f \in Slots : flight[f].pc = "answered" => Answered(flight[f].got)

WebType ==
  /\ hidden \in BOOLEAN /\ overtaken \in BOOLEAN /\ nudges \in Nat
  /\ poll \in [tracked: RoundIds, held: BOOLEAN, orphans: Nat]
  /\ flight \in [Slots -> FlightRec]
  /\ watched \subseteq Rounds
  /\ poll.tracked # NoRound => board[poll.tracked] # "none"

\* What the answer under way says about the round the page tracks: that one
\* was asked for, and another can be open only when it is over.
AboutTracked(got) ==
  IF poll.tracked = NoRound THEN got.round = got.open /\ (got.open # NoRound => got.status = "open")
  ELSE /\ got.round = poll.tracked
       /\ got.status = "open" => got.open = poll.tracked
       /\ got.open # NoRound => got.open >= poll.tracked

OneAtATime ==
  /\ \A f, g \in Slots : flight[f].pc # "free" /\ flight[g].pc # "free" => f = g
  /\ \A f \in Slots : flight[f].pc = "sent" => flight[f].asked = poll.tracked
  /\ \A f \in Slots : flight[f].pc = "answered" => AboutTracked(flight[f].got)
  /\ \A k \in watched : /\ k <= poll.tracked
                        /\ k < poll.tracked => k \in eng.remembered \/ board[k] = "voided"

WebInv ==
  /\ BoardTrue /\ WebType /\ AnswersTrue /\ PollAlive
  /\ QueueTrue(eng, reveals) /\ NothingWaits(eng)
  /\ ~overtaken => OneAtATime

\* There is a slot.
LEMMA FirstSlot == 1 \in Slots /\ Slots \subseteq Nat /\ MaxRound \in Nat /\ Rounds \subseteq Nat \ {0}
  BY WebRoundAssumption DEF Slots, Rounds

\* Rounds are numbered from 1, 0 stands for none.
LEMMA RoundIdsNat == RoundIds \subseteq Nat /\ NoRound = 0 /\ \A k \in Rounds : k \in Nat /\ k # 0
  BY FirstSlot DEF RoundIds, NoRound

\* The oldest waiting round exists.
LEMMA OldestIn ==
  ASSUME NEW ks \in SUBSET Rounds, ks # {}
  PROVE  Oldest(ks) \in ks
<1>1. ks \subseteq Nat
  BY FirstSlot
<1>2. PICK k \in ks : \A j \in ks : <<j, k>> \notin OpToRel(<, Nat)
  BY <1>1, NatLessThanWellFounded, WFMin
<1>3. \A j \in ks : k <= j
  <2> SUFFICES ASSUME NEW j \in ks PROVE k <= j
    OBVIOUS
  <2>1. ~ (j < k)
    BY <1>1, <1>2 DEF OpToRel
  <2>. QED BY <1>1, <2>1
<1>. QED BY <1>3 DEF Oldest

\* The newest of the rounds up to n, and of those still running.
LEMMA NewestRounds ==
  ASSUME BoardTrue, NEW n \in 0..MaxRound, UpTo(n)
  PROVE  /\ Newest(Opened) = n
         /\ n = NoRound => Unresolved = {} /\ Newest(Unresolved) = NoRound
         /\ n # NoRound => n \in Rounds /\ Unresolved = (IF board[n] = "open" THEN {n} ELSE {})
                           /\ Newest(Unresolved) = (IF board[n] = "open" THEN n ELSE NoRound)
<1>0. n \in Nat /\ MaxRound \in Nat /\ n <= MaxRound /\ Rounds = 1..MaxRound /\ NoRound = 0
  BY FirstSlot DEF Rounds, NoRound
<1>1. Opened = 1..n
  BY <1>0 DEF Opened, UpTo
<1>2. Newest(1..n) = n
  <2>1. CASE n = 0
    BY <1>0, <2>1 DEF Newest
  <2>2. CASE n # 0
    <3>1. n \in 1..n /\ \A j \in 1..n : j <= n
      BY <1>0, <2>2
    <3>2. \A k \in 1..n : (\A j \in 1..n : j <= k) => k = n
      BY <1>0, <3>1
    <3>. QED BY <3>1, <3>2 DEF Newest
  <2>. QED BY <2>1, <2>2
<1>3. n # 0 => Unresolved = (IF board[n] = "open" THEN {n} ELSE {})
  <2> SUFFICES ASSUME n # 0 PROVE Unresolved = (IF board[n] = "open" THEN {n} ELSE {})
    OBVIOUS
  <2>1. n \in Rounds
    BY <1>0
  <2>2. \A k \in Rounds : board[k] = "open" => k = n
    <3> SUFFICES ASSUME NEW k \in Rounds, board[k] = "open" PROVE k = n
      OBVIOUS
    <3>1. k <= n /\ ~(k < n) /\ k \in Nat
      BY <1>0 DEF UpTo
    <3>. QED BY <1>0, <3>1
  <2>. QED BY <2>1, <2>2 DEF Unresolved
<1>4. n = 0 => Unresolved = {}
  BY <1>0, <1>1 DEF Unresolved, Opened
<1>5. Newest({}) = NoRound /\ (n # 0 => Newest({n}) = n)
  BY <1>0 DEF Newest
<1>6. Newest(Opened) = n /\ (n = NoRound => Unresolved = {} /\ Newest(Unresolved) = NoRound)
  BY <1>0, <1>1, <1>2, <1>4, <1>5
<1>7. ASSUME n # NoRound
      PROVE  n \in Rounds /\ Unresolved = (IF board[n] = "open" THEN {n} ELSE {})
             /\ Newest(Unresolved) = (IF board[n] = "open" THEN n ELSE NoRound)
  <2>1. n \in Rounds /\ Unresolved = (IF board[n] = "open" THEN {n} ELSE {})
    BY <1>0, <1>3, <1>7
  <2>. QED BY <1>0, <1>5, <1>7, <2>1
<1>. QED BY <1>6, <1>7

\* An engine whose reveal begins, in one record.
LEMMA EngineBegins ==
  ASSUME NEW e \in EngineRec, NEW k, NEW x,
         x = [e EXCEPT !.played = @ \cup {k}, !.busy = TRUE, !.running = @ \cup {k}]
  PROVE  x = [seenAnyRound |-> e.seenAnyRound, remembered |-> e.remembered,
              played |-> e.played \cup {k}, busy |-> TRUE, running |-> e.running \cup {k}]
  BY DEF EngineRec

\* An engine that has seen a round, and one that remembers or counts it.
LEMMA EngineSees ==
  ASSUME NEW e \in EngineRec, NEW x, x = [e EXCEPT !.seenAnyRound = TRUE]
  PROVE  x = [seenAnyRound |-> TRUE, remembered |-> e.remembered, played |-> e.played,
              busy |-> e.busy, running |-> e.running]
  BY DEF EngineRec

LEMMA EngineKeeps ==
  ASSUME NEW e \in EngineRec, NEW k, NEW x, x = [e EXCEPT !.remembered = @ \cup {k}]
  PROVE  x = [seenAnyRound |-> e.seenAnyRound, remembered |-> e.remembered \cup {k},
              played |-> e.played, busy |-> e.busy, running |-> e.running]
  BY DEF EngineRec

LEMMA EngineCounts ==
  ASSUME NEW e \in EngineRec, NEW k, NEW x, x = [e EXCEPT !.played = @ \cup {k}]
  PROVE  x = [seenAnyRound |-> e.seenAnyRound, remembered |-> e.remembered,
              played |-> e.played \cup {k}, busy |-> e.busy, running |-> e.running]
  BY DEF EngineRec

\* pump leaves the queue true and nothing waiting.
LEMMA PumpStep ==
  ASSUME NEW e, NEW shown, QueueTrue(e, shown)
  PROVE  /\ QueueTrue(pump(e, shown).eng, pump(e, shown).reveals)
         /\ NothingWaits(pump(e, shown).eng)
         /\ pump(e, shown).eng.remembered = e.remembered
<1> DEFINE waiting == e.remembered \ e.played
           k == Oldest(waiting)
           next == [seenAnyRound |-> e.seenAnyRound, remembered |-> e.remembered,
                    played |-> e.played \cup {k}, busy |-> TRUE, running |-> e.running \cup {k}]
           longer == Append(shown, k)
<1>0. e \in EngineRec /\ shown \in Seq(Rounds) /\ waiting \in SUBSET Rounds
  BY DEF QueueTrue, EngineRec
<1>1. CASE e.busy \/ waiting = {}
  <2>1. pump(e, shown) = [eng |-> e, reveals |-> shown]
    BY <1>1 DEF pump
  <2>. QED BY <1>1, <2>1 DEF NothingWaits
<1>2. CASE ~e.busy /\ waiting # {}
  <2>1. k \in waiting /\ k \in Rounds
    BY <1>0, <1>2, OldestIn
  <2>2. pump(e, shown) = [eng |-> [e EXCEPT !.played = @ \cup {k}, !.busy = TRUE,
                                            !.running = @ \cup {k}],
                          reveals |-> longer]
    BY <1>2 DEF pump
  <2> HIDE DEF k
  <2>3. [e EXCEPT !.played = @ \cup {k}, !.busy = TRUE, !.running = @ \cup {k}] = next
    BY <1>0, EngineBegins
  <2>4. next \in EngineRec
    BY <1>0, <2>1 DEF EngineRec
  <2>5. /\ longer \in Seq(Rounds) /\ Len(longer) = Len(shown) + 1 /\ Len(shown) \in Nat
        /\ \A i \in 1..Len(shown) : longer[i] = shown[i]
        /\ longer[Len(shown) + 1] = k
    BY <1>0, <2>1, AppendProperties, LenProperties
  <2>6. \A i \in 1..Len(longer) : i \in 1..Len(shown) \/ i = Len(shown) + 1
    BY <2>5
  <2>7. \A i \in 1..Len(shown) : shown[i] # k
    BY <2>1 DEF QueueTrue
  <2> HIDE DEF longer, waiting
  <2>8. \A i, j \in 1..Len(longer) : longer[i] = longer[j] => i = j
    BY <2>5, <2>6, <2>7 DEF QueueTrue
  <2>9. \A i \in 1..Len(longer) : longer[i] \in next.played
    BY <2>5, <2>6 DEF QueueTrue
  <2>10. next.played \subseteq next.remembered
    BY <2>1 DEF QueueTrue, waiting
  <2>11. next.running = {k}
    BY <1>2 DEF QueueTrue
  <2>12. QueueTrue(next, longer)
    BY <2>1, <2>4, <2>5, <2>8, <2>9, <2>10, <2>11 DEF QueueTrue
  <2>13. next.busy = TRUE /\ next.remembered = e.remembered
    OBVIOUS
  <2> HIDE DEF next
  <2>14. pump(e, shown) = [eng |-> next, reveals |-> longer]
    BY <2>2, <2>3
  <2>. QED BY <2>12, <2>13, <2>14 DEF NothingWaits
<1>. QED BY <1>1, <1>2

\* Noting a round keeps a result that is one, and loses nothing.
LEMMA NoteStep ==
  ASSUME NEW e, NEW shown, QueueTrue(e, shown), NothingWaits(e), NEW round \in RoundIds, NEW ending,
         round # NoRound /\ ending = "revealed" => board[round] = "revealed"
  PROVE  LET noted == noteRound(e, shown, round, ending)
         IN /\ QueueTrue(noted.eng, noted.reveals) /\ NothingWaits(noted.eng)
            /\ e.remembered \subseteq noted.eng.remembered
            /\ round # NoRound /\ ending = "revealed" => round \in noted.eng.remembered
<1> DEFINE saw == [seenAnyRound |-> TRUE, remembered |-> e.remembered, played |-> e.played,
                    busy |-> e.busy, running |-> e.running]
           kept == [seenAnyRound |-> TRUE, remembered |-> e.remembered \cup {round},
                    played |-> e.played, busy |-> e.busy, running |-> e.running]
           first == [seenAnyRound |-> TRUE, remembered |-> e.remembered \cup {round},
                     played |-> e.played \cup {round}, busy |-> e.busy, running |-> e.running]
<1>0. e \in EngineRec
  BY DEF QueueTrue
<1>1. noteRound(e, shown, round, ending) =
        IF round = NoRound THEN [eng |-> e, reveals |-> shown]
        ELSE IF ~isRevealed(ending) \/ round \in e.remembered THEN [eng |-> saw, reveals |-> shown]
        ELSE IF FirstSeen(e) THEN [eng |-> first, reveals |-> shown]
        ELSE pump(kept, shown)
  <2> DEFINE seen1 == [e EXCEPT !.seenAnyRound = TRUE]
             kept1 == [seen1 EXCEPT !.remembered = @ \cup {round}]
             first1 == [kept1 EXCEPT !.played = @ \cup {round}]
  <2>1. noteRound(e, shown, round, ending) =
          IF round = NoRound THEN [eng |-> e, reveals |-> shown]
          ELSE IF ~isRevealed(ending) \/ round \in e.remembered THEN [eng |-> seen1, reveals |-> shown]
          ELSE IF FirstSeen(e) THEN [eng |-> first1, reveals |-> shown]
          ELSE pump(kept1, shown)
    BY Zenon DEF noteRound
  <2>2. seen1 = saw
    BY <1>0, EngineSees
  <2>3. isRevealed(ending) /\ round # NoRound => kept1 = kept /\ first1 = first
    <3> SUFFICES ASSUME round # NoRound PROVE kept1 = kept /\ first1 = first
      OBVIOUS
    <3>0. round \in Rounds
      BY DEF RoundIds
    <3>1. saw \in EngineRec /\ kept \in EngineRec
      BY <1>0, <3>0 DEF EngineRec
    <3>2. saw.seenAnyRound = TRUE /\ saw.remembered = e.remembered /\ saw.played = e.played
          /\ saw.busy = e.busy /\ saw.running = e.running
      OBVIOUS
    <3>3. kept.seenAnyRound = TRUE /\ kept.remembered = e.remembered \cup {round}
          /\ kept.played = e.played /\ kept.busy = e.busy /\ kept.running = e.running
      OBVIOUS
    <3>4. kept1 = [seenAnyRound |-> saw.seenAnyRound, remembered |-> saw.remembered \cup {round},
                   played |-> saw.played, busy |-> saw.busy, running |-> saw.running]
      <4> HIDE DEF saw, seen1
      <4>. QED BY <2>2, <3>1, EngineKeeps
    <3>5. kept1 = kept
      <4> HIDE DEF kept1, seen1
      <4>. QED BY <3>2, <3>4
    <3>6. first1 = [seenAnyRound |-> kept.seenAnyRound, remembered |-> kept.remembered,
                    played |-> kept.played \cup {round}, busy |-> kept.busy, running |-> kept.running]
      <4> HIDE DEF kept, kept1
      <4>. QED BY <3>1, <3>5, EngineCounts
    <3>7. first1 = first
      <4> HIDE DEF first1, kept1
      <4>. QED BY <3>3, <3>6
    <3>. QED BY <3>5, <3>7
  <2> HIDE DEF saw, kept, first, seen1, kept1, first1
  <2>. QED BY <2>1, <2>2, <2>3
<1>2. QueueTrue(saw, shown) /\ NothingWaits(saw)
  BY <1>0 DEF QueueTrue, NothingWaits, EngineRec
<1>3. CASE round = NoRound
  BY <1>1, <1>3
<1>4. CASE round # NoRound /\ (~isRevealed(ending) \/ round \in e.remembered)
  BY <1>1, <1>2, <1>4 DEF isRevealed
<1>5. CASE round # NoRound /\ isRevealed(ending) /\ round \notin e.remembered
  <2>1. round \in Rounds /\ board[round] = "revealed"
    BY <1>5 DEF RoundIds, isRevealed
  <2>2. QueueTrue(kept, shown)
    BY <1>0, <2>1 DEF QueueTrue, EngineRec
  <2>3. QueueTrue(first, shown) /\ NothingWaits(first)
    BY <1>0, <2>1 DEF QueueTrue, EngineRec, NothingWaits
  <2>4. CASE FirstSeen(e)
    BY <1>1, <1>5, <2>3, <2>4
  <2>5. CASE ~FirstSeen(e)
    <3>1. noteRound(e, shown, round, ending) = pump(kept, shown)
      BY <1>1, <1>5, <2>5
    <3>2. kept.remembered = e.remembered \cup {round}
      OBVIOUS
    <3> HIDE DEF kept
    <3>. QED BY <2>2, <3>1, <3>2, PumpStep
  <2>. QED BY <2>4, <2>5
<1>. QED BY <1>3, <1>4, <1>5

\* What the invariant says of the queue survives whatever keeps the results.
LEMMA QueueKept ==
  ASSUME WebInv, UNCHANGED <<eng, reveals>>,
         \A k \in Rounds : board[k] = "revealed" => board'[k] = "revealed"
  PROVE  QueueTrue(eng, reveals)' /\ NothingWaits(eng)'
<1>1. eng' = eng /\ reveals' = reveals /\ eng.remembered \subseteq Rounds
  BY DEF WebInv, QueueTrue, EngineRec
<1>. QED BY <1>1 DEF WebInv, QueueTrue, NothingWaits

\* A round opens or ends: what is over stays as it ended.
LEMMA BoardSteps ==
  ASSUME WebInv, RoundOpens \/ \E k \in Rounds : RoundEnds(k)
  PROVE  WebInv'
<1> USE DEF WebInv
<1>1. PICK n \in 0..MaxRound : UpTo(n)
  BY DEF BoardTrue
<1>2. n \in Nat /\ MaxRound \in Nat /\ Rounds = 1..MaxRound /\ NoRound = 0 /\ n <= MaxRound
  BY FirstSlot DEF Rounds, NoRound
<1>3. /\ UNCHANGED <<hidden, poll, flight, eng, reveals, watched, overtaken, nudges>>
      /\ board' \in [Rounds -> BoardStates]
      /\ \A k \in Rounds : board[k] \in {"revealed", "voided"} => board'[k] = board[k]
      /\ \A k \in Rounds : board[k] # "none" => board'[k] # "none"
      /\ \E m \in 0..MaxRound : UpTo(m)'
  <2>1. CASE RoundOpens
    <3>1. Newest(Opened) = n
      BY <1>1, NewestRounds
    <3>2. /\ Unresolved = {} /\ n < MaxRound /\ board' = [board EXCEPT ![n + 1] = "open"]
          /\ UNCHANGED <<hidden, poll, flight, eng, reveals, watched, overtaken, nudges>>
      BY <2>1, <3>1 DEF RoundOpens
    <3>3. n + 1 \in Rounds /\ board[n + 1] = "none"
      <4>1. n + 1 \in Rounds /\ ~(n + 1 <= n)
        BY <1>2, <3>2
      <4>. QED BY <1>1, <4>1 DEF UpTo
    <3>4. UpTo(n + 1)'
      <4> SUFFICES ASSUME NEW k \in Rounds
                   PROVE  (board'[k] # "none" <=> k <= n + 1) /\ (k < n + 1 => board'[k] # "open")
        BY DEF UpTo
      <4>1. k \in Nat
        BY <1>2
      <4>2. CASE k = n + 1
        BY <1>2, <3>2, <3>3, <4>2 DEF BoardTrue
      <4>3. CASE k # n + 1
        <5>1. board'[k] = board[k] /\ board[k] # "open"
          BY <3>2, <4>3 DEF BoardTrue, Unresolved
        <5>2. (k <= n <=> k <= n + 1)
          BY <1>2, <4>1, <4>3
        <5>. QED BY <1>1, <5>1, <5>2 DEF UpTo
      <4>. QED BY <4>2, <4>3
    <3>5. n + 1 \in 0..MaxRound
      BY <1>2, <3>2
    <3>6. board' \in [Rounds -> BoardStates]
      BY <3>2 DEF BoardTrue, BoardStates
    <3>7. \A k \in Rounds : board[k] # "none" => board'[k] = board[k]
      BY <3>2, <3>3 DEF BoardTrue
    <3>. QED BY <3>2, <3>4, <3>5, <3>6, <3>7
  <2>2. ASSUME NEW k \in Rounds, RoundEnds(k)
        PROVE  /\ UNCHANGED <<hidden, poll, flight, eng, reveals, watched, overtaken, nudges>>
               /\ board' \in [Rounds -> BoardStates]
               /\ \A j \in Rounds : board[j] \in {"revealed", "voided"} => board'[j] = board[j]
               /\ \A j \in Rounds : board[j] # "none" => board'[j] # "none"
               /\ \E m \in 0..MaxRound : UpTo(m)'
    <3>1. PICK ending \in {"revealed", "voided"} : board' = [board EXCEPT ![k] = ending]
      BY <2>2 DEF RoundEnds
    <3>2. board[k] = "open"
          /\ UNCHANGED <<hidden, poll, flight, eng, reveals, watched, overtaken, nudges>>
      BY <2>2 DEF RoundEnds
    <3>3. board' \in [Rounds -> BoardStates]
      BY <3>1 DEF BoardTrue, BoardStates
    <3>4. \A j \in Rounds : /\ board[j] \in {"revealed", "voided"} => board'[j] = board[j]
                            /\ board[j] # "none" => board'[j] # "none"
                            /\ board[j] = "none" => board'[j] = "none"
                            /\ board'[j] = "open" => board[j] = "open"
      <4> SUFFICES ASSUME NEW j \in Rounds
                   PROVE  /\ board[j] \in {"revealed", "voided"} => board'[j] = board[j]
                          /\ board[j] # "none" => board'[j] # "none"
                          /\ board[j] = "none" => board'[j] = "none"
                          /\ board'[j] = "open" => board[j] = "open"
        OBVIOUS
      <4>1. CASE j = k
        <5>1. board'[k] = ending
          BY <3>1 DEF BoardTrue
        <5>. QED BY <3>2, <4>1, <5>1
      <4>2. CASE j # k
        <5>1. board'[j] = board[j]
          BY <3>1, <4>2 DEF BoardTrue
        <5>. QED BY <5>1
      <4>. QED BY <4>1, <4>2
    <3>5. UpTo(n)'
      <4> SUFFICES ASSUME NEW j \in Rounds
                   PROVE  (board'[j] # "none" <=> j <= n) /\ (j < n => board'[j] # "open")
        BY DEF UpTo
      <4>1. (board[j] # "none" <=> j <= n) /\ (j < n => board[j] # "open")
        BY <1>1 DEF UpTo
      <4>2. /\ board[j] # "none" => board'[j] # "none"
            /\ board[j] = "none" => board'[j] = "none"
            /\ board'[j] = "open" => board[j] = "open"
        BY <3>4
      <4>3. (board'[j] # "none" => j <= n) /\ (j <= n => board'[j] # "none")
        BY <4>1, <4>2
      <4>4. j < n => board'[j] # "open"
        BY <4>1, <4>2
      <4>. QED BY <4>3, <4>4
    <3>. QED BY <1>1, <3>2, <3>3, <3>4, <3>5
  <2>. QED BY <2>1, <2>2
<1>4. BoardTrue'
  BY <1>3 DEF BoardTrue
<1>5. QueueTrue(eng, reveals)' /\ NothingWaits(eng)'
  BY <1>3, QueueKept
<1>6. WebType'
  <2>1. poll.tracked # NoRound => poll.tracked \in Rounds /\ board[poll.tracked] # "none"
    BY DEF WebType, RoundIds
  <2>. QED BY <1>3, <2>1 DEF WebType
<1>7. AnswersTrue'
  <2>1. ASSUME NEW f \in Slots, flight[f].pc = "sent", flight[f].asked # NoRound
        PROVE  board'[flight[f].asked] # "none"
    <3>1. flight[f].asked \in Rounds
      BY <2>1 DEF WebType, FlightRec, RoundIds
    <3>. QED BY <1>3, <2>1, <3>1 DEF AnswersTrue
  <2>2. ASSUME NEW f \in Slots, flight[f].pc = "answered" PROVE Answered(flight[f].got)'
    <3> DEFINE got == flight[f].got
    <3>1. got \in AnswerRec /\ Answered(got)
      BY <2>2 DEF WebType, FlightRec, AnswersTrue
    <3>2. got' = got
      BY <1>3
    <3> HIDE DEF got
    <3>3. /\ got.round # NoRound => got.round \in Rounds
          /\ got.open # NoRound => got.open \in Rounds
      BY <3>1 DEF AnswerRec, RoundIds
    <3>4. got.status \in {"revealed", "voided"} => board'[got.round] = got.status
      BY <1>3, <3>1, <3>3 DEF Answered
    <3>5. got.open # NoRound => board'[got.open] # "none"
      BY <1>3, <3>1, <3>3 DEF Answered
    <3>6. Answered(got)'
      BY <3>1, <3>2, <3>4, <3>5 DEF Answered
    <3>. QED BY <3>6 DEF got
  <2>. QED BY <1>3, <2>1, <2>2 DEF AnswersTrue
<1>8. PollAlive'
  BY <1>3 DEF PollAlive, InAir
<1>9. (~overtaken => OneAtATime)'
  <2> SUFFICES ASSUME OneAtATime PROVE OneAtATime'
    BY <1>3
  <2>1. \A f \in Slots : flight[f].pc = "answered" => AboutTracked(flight[f].got)'
    BY <1>3 DEF OneAtATime, AboutTracked
  <2>2. watched \subseteq Rounds
    BY DEF WebType
  <2>. QED BY <1>3, <2>1, <2>2 DEF OneAtATime
<1>. QED BY <1>4, <1>5, <1>6, <1>7, <1>8, <1>9

\* A free slot, when there is one.
LEMMA FreeSlotFree ==
  ASSUME NEW f \in Slots, flight[f].pc = "free"
  PROVE  FreeSlot \in Slots /\ flight[FreeSlot].pc = "free"
  BY DEF FreeSlot

\* A request is sent unless the tab is hidden. Sent on top of another, the two
\* have overlapped.
LEMMA RunStep ==
  ASSUME WebInv, NEW timers \in [tracked: RoundIds, held: BOOLEAN, orphans: Nat],
         timers.tracked = poll.tracked, NEW away \in BOOLEAN, run(timers, away),
         UNCHANGED <<board, eng, reveals, watched>>,
         hidden' \in BOOLEAN, away => hidden', nudges' \in Nat
  PROVE  WebInv'
<1> USE DEF WebInv
<1>1. /\ poll' \in [tracked: RoundIds, held: BOOLEAN, orphans: Nat]
      /\ poll'.tracked = poll.tracked
  BY DEF run
<1>2. /\ flight' = IF away THEN flight ELSE [flight EXCEPT ![FreeSlot] = [pc |-> "sent", asked |-> poll.tracked]]
      /\ overtaken' = (overtaken \/ (~away /\ InAir # {}))
  BY DEF run, Sent, Asked
<1> DEFINE new == [pc |-> "sent", asked |-> poll.tracked]
<1>3. new \in FlightRec /\ new.pc = "sent" /\ new.asked = poll.tracked
  BY DEF WebType, FlightRec
<1> HIDE DEF new
<1>4. /\ flight' \in [Slots -> FlightRec]
      /\ \A f \in Slots : flight'[f] = flight[f] \/ (~away /\ f = FreeSlot /\ flight'[f] = new)
  BY <1>2, <1>3 DEF WebType, new
<1>5. WebType'
  BY <1>1, <1>2, <1>4 DEF WebType
<1>6. AnswersTrue'
  <2>1. \A f \in Slots : flight'[f] = flight[f] \/ flight'[f] = new
    BY <1>4
  <2>2. poll.tracked # NoRound => board[poll.tracked] # "none"
    BY DEF WebType
  <2>. QED BY <1>3, <2>1, <2>2 DEF AnswersTrue, Answered
<1>7. PollAlive'
  <2>1. CASE away
    BY <2>1 DEF PollAlive
  <2>2. CASE ~away
    <3>1. CASE \E f \in Slots : flight[f].pc = "free"
      <4>1. FreeSlot \in Slots
        BY <3>1, FreeSlotFree
      <4>2. flight'[FreeSlot].pc = "sent"
        BY <1>2, <1>3, <2>2, <4>1 DEF WebType, new
      <4>. QED BY <4>1, <4>2 DEF PollAlive, InAir
    <3>2. CASE \A f \in Slots : flight[f].pc # "free"
      <4>1. \A f \in Slots : flight'[f].pc # "free"
        BY <1>3, <1>4, <3>2
      <4>. QED BY <4>1, FirstSlot DEF PollAlive, InAir
    <3>. QED BY <3>1, <3>2
  <2>. QED BY <2>1, <2>2
<1>8. (~overtaken => OneAtATime)'
  <2> SUFFICES ASSUME ~overtaken' PROVE OneAtATime'
    OBVIOUS
  <2>1. OneAtATime /\ (away \/ InAir = {})
    BY <1>2
  <2>2. CASE away
    BY <1>1, <1>2, <2>1, <2>2 DEF OneAtATime, AboutTracked
  <2>3. CASE ~away
    <3>1. \A f \in Slots : flight[f].pc = "free"
      BY <2>1, <2>3 DEF InAir
    <3>2. \A f \in Slots : flight'[f].pc # "free" => f = FreeSlot /\ flight'[f] = new
      BY <1>4, <3>1
    <3>3. \A k \in watched : /\ k <= poll.tracked
                             /\ k < poll.tracked => k \in eng.remembered \/ board[k] = "voided"
      BY <2>1 DEF OneAtATime
    <3>. QED BY <1>1, <1>3, <3>2, <3>3 DEF OneAtATime
  <2>. QED BY <2>2, <2>3
<1>9. BoardTrue' /\ QueueTrue(eng, reveals)' /\ NothingWaits(eng)'
  BY QueueKept DEF BoardTrue, UpTo
<1>. QED BY <1>5, <1>6, <1>7, <1>8, <1>9

\* A timer, a kick, the tab going away or coming back, another wallet.
LEMMA NudgeSteps ==
  ASSUME WebInv, TimerFires \/ kick \/ Hide \/ Show \/ WalletChanges
  PROVE  WebInv'
<1>0. /\ hidden \in BOOLEAN /\ overtaken \in BOOLEAN /\ nudges \in Nat
      /\ poll \in [tracked: RoundIds, held: BOOLEAN, orphans: Nat]
  BY DEF WebInv, WebType
<1>1. CASE TimerFires
  <2>1. UNCHANGED <<board, hidden, eng, reveals, watched, nudges>>
    BY <1>1 DEF TimerFires
  <2>2. CASE run(poll, hidden)
    BY <1>0, <2>1, <2>2, RunStep
  <2>3. CASE poll.orphans > 0 /\ run([poll EXCEPT !.orphans = @ - 1], hidden)
    <3> DEFINE timers == [poll EXCEPT !.orphans = @ - 1]
    <3>1. timers \in [tracked: RoundIds, held: BOOLEAN, orphans: Nat] /\ timers.tracked = poll.tracked
      BY <1>0, <2>3
    <3>2. run(timers, hidden)
      BY <2>3
    <3> HIDE DEF timers
    <3>. QED BY <1>0, <2>1, <3>1, <3>2, RunStep
  <2>. QED BY <1>1, <2>2, <2>3 DEF TimerFires
<1>2. CASE kick
  <2>1. UNCHANGED <<board, hidden, eng, reveals, watched>> /\ nudges' = nudges + 1 /\ run(poll, hidden)
    BY <1>2 DEF kick
  <2>. QED BY <1>0, <2>1, RunStep
<1>3. CASE Hide
  <2>1. hidden' = TRUE /\ UNCHANGED <<board, poll, flight, eng, reveals, watched, overtaken, nudges>>
    BY <1>3 DEF Hide
  <2>. QED BY <2>1 DEF WebInv, BoardTrue, UpTo, WebType, AnswersTrue, Answered, PollAlive, QueueTrue,
                       NothingWaits, OneAtATime, AboutTracked
<1>4. CASE Show
  <2>1. UNCHANGED <<board, eng, reveals, watched>> /\ nudges' = nudges + 1 /\ run(poll, FALSE)
        /\ hidden' \in BOOLEAN
    BY <1>4 DEF Show, Resumes
  <2>2. ASSUME NEW away \in BOOLEAN, away = FALSE PROVE WebInv'
    <3>1. run(poll, away)
      BY <2>1, <2>2
    <3>2. hidden' \in BOOLEAN /\ (away => hidden') /\ nudges' \in Nat
      BY <1>0, <2>1, <2>2
    <3>3. UNCHANGED <<board, eng, reveals, watched>>
      BY <2>1
    <3>4. poll.tracked = poll.tracked
      OBVIOUS
    <3>. QED BY <1>0, <3>1, <3>2, <3>3, <3>4, RunStep
  <2>. QED BY <2>2
<1>5. CASE WalletChanges
  <2> DEFINE new == [pc |-> "sent", asked |-> poll.tracked]
  <2>1. /\ UNCHANGED <<board, hidden, eng, reveals, watched, overtaken>> /\ nudges' = nudges + 1
        /\ poll' = [tracked |-> poll.tracked, held |-> FALSE, orphans |-> 0]
        /\ flight' = [f \in Slots |-> IF ~hidden /\ f = 1 THEN new ELSE NoFlight]
    BY <1>0, <1>5 DEF WalletChanges, Asked
  <2>2. /\ new \in FlightRec /\ NoFlight \in FlightRec
        /\ new.pc = "sent" /\ new.asked = poll.tracked /\ NoFlight.pc = "free"
    BY <1>0 DEF FlightRec, NoFlight
  <2> HIDE DEF new
  <2>3. \A f \in Slots : /\ flight'[f] \in {new, NoFlight}
                         /\ flight'[f].pc # "free" => f = 1 /\ flight'[f] = new
    BY <2>1, <2>2
  <2>4. WebType'
    <3>1. flight' \in [Slots -> FlightRec]
      BY <2>1, <2>2
    <3>. QED BY <1>0, <2>1, <3>1 DEF WebInv, WebType
  <2>5. AnswersTrue'
    <3>1. \A f \in Slots : /\ flight'[f].pc # "answered"
                           /\ flight'[f].pc = "sent" => flight'[f].asked = poll.tracked
      <4> SUFFICES ASSUME NEW f \in Slots
                   PROVE  /\ flight'[f].pc # "answered"
                          /\ flight'[f].pc = "sent" => flight'[f].asked = poll.tracked
        OBVIOUS
      <4>1. flight'[f] = new \/ flight'[f] = NoFlight
        BY <2>3
      <4>2. CASE flight'[f] = new
        BY <2>2, <4>2
      <4>3. CASE flight'[f] = NoFlight
        BY <2>2, <4>3
      <4>. QED BY <4>1, <4>2, <4>3
    <3>2. poll.tracked # NoRound => board[poll.tracked] # "none"
      BY DEF WebInv, WebType
    <3>. QED BY <2>1, <3>1, <3>2 DEF AnswersTrue
  <2>6. PollAlive'
    <3>1. ~hidden => flight'[1] = new
      BY <2>1, FirstSlot
    <3>. QED BY <2>1, <2>2, <3>1, FirstSlot DEF PollAlive, InAir
  <2>7. (~overtaken => OneAtATime)'
    <3> SUFFICES ASSUME OneAtATime PROVE OneAtATime'
      BY <2>1 DEF WebInv
    <3>1. \A k \in watched : /\ k <= poll.tracked
                             /\ k < poll.tracked => k \in eng.remembered \/ board[k] = "voided"
      BY DEF OneAtATime
    <3>2. poll'.tracked = poll.tracked
      BY <2>1
    <3>. QED BY <2>1, <2>2, <2>3, <3>1, <3>2 DEF OneAtATime
  <2>8. BoardTrue' /\ QueueTrue(eng, reveals)' /\ NothingWaits(eng)'
    BY <2>1, QueueKept DEF WebInv, BoardTrue, UpTo
  <2>. QED BY <2>4, <2>5, <2>6, <2>7, <2>8 DEF WebInv
<1>. QED BY <1>1, <1>2, <1>3, <1>4, <1>5

\* The backend reads its rows.
LEMMA SampleStep ==
  ASSUME WebInv, NEW f \in Slots, Sample(f)
  PROVE  WebInv'
<1> USE DEF WebInv
<1> DEFINE asked == flight[f].asked
           got == getState(asked)
           new == [pc |-> "answered", got |-> got]
<1>1. /\ flight[f].pc = "sent" /\ flight' = [flight EXCEPT ![f] = new]
      /\ UNCHANGED <<board, hidden, poll, eng, reveals, watched, overtaken, nudges>>
  BY DEF Sample
<1>2. asked \in RoundIds
  BY <1>1 DEF WebType, FlightRec
<1>3. PICK n \in 0..MaxRound : UpTo(n)
  BY DEF BoardTrue
<1>4. n \in Nat /\ MaxRound \in Nat /\ Rounds = 1..MaxRound /\ NoRound = 0 /\ board \in [Rounds -> BoardStates]
  BY FirstSlot DEF Rounds, NoRound, BoardTrue
<1> DEFINE open == Newest(Unresolved)
           round == IF asked # NoRound THEN asked ELSE open
<1>5. got = [open |-> open, round |-> round, status |-> IF round = NoRound THEN "none" ELSE board[round]]
  BY DEF getState
<1>6. /\ open \in RoundIds
      /\ open # NoRound => open = n /\ board[open] = "open"
      /\ \A k \in Rounds : board[k] = "open" => open = k
  <2>1. n = NoRound => open = NoRound /\ Unresolved = {}
    BY <1>3, NewestRounds
  <2>2. n # NoRound => n \in Rounds /\ Unresolved = (IF board[n] = "open" THEN {n} ELSE {})
                       /\ open = (IF board[n] = "open" THEN n ELSE NoRound)
    BY <1>3, NewestRounds
  <2> HIDE DEF open
  <2>. QED BY <2>1, <2>2 DEF RoundIds, Unresolved
<1> HIDE DEF open, asked
<1>7. /\ got \in AnswerRec /\ got.open = open /\ got.round = round
      /\ got.status = IF round = NoRound THEN "none" ELSE board[round]
  <2>1. round \in RoundIds
    BY <1>2, <1>6
  <2>2. (IF round = NoRound THEN "none" ELSE board[round]) \in BoardStates
    BY <1>4, <2>1 DEF RoundIds, BoardStates
  <2> HIDE DEF round, got
  <2>. QED BY <1>5, <1>6, <2>1, <2>2 DEF AnswerRec
<1> HIDE DEF got
<1>8. new \in FlightRec /\ new.pc = "answered" /\ new.got = got
  BY <1>7 DEF FlightRec
<1> HIDE DEF new
<1>9. /\ flight' \in [Slots -> FlightRec] /\ flight'[f] = new
      /\ \A g \in Slots : g # f => flight'[g] = flight[g]
  BY <1>1, <1>8 DEF WebType
<1>10. WebType'
  BY <1>1, <1>9 DEF WebType
<1>11. Answered(got)
  <2>1. round # NoRound => round \in Rounds /\ board[round] # "none"
    <3>1. CASE asked = NoRound
      BY <1>6, <3>1 DEF RoundIds
    <3>2. CASE asked # NoRound
      BY <1>1, <1>2, <3>2 DEF RoundIds, AnswersTrue, asked
    <3>. QED BY <3>1, <3>2
  <2>. QED BY <1>6, <1>7, <2>1 DEF Answered
<1>12. AnswersTrue'
  <2>1. \A g \in Slots : flight'[g] = flight[g] \/ flight'[g] = new
    BY <1>9
  <2>. QED BY <1>1, <1>8, <1>11, <2>1 DEF AnswersTrue, Answered
<1>13. PollAlive'
  BY <1>1, <1>8, <1>9 DEF PollAlive, InAir
<1>14. (~overtaken => OneAtATime)'
  <2> SUFFICES ASSUME OneAtATime PROVE OneAtATime'
    BY <1>1
  <2>1. asked = poll.tracked
    BY <1>1 DEF OneAtATime, asked
  <2>2. AboutTracked(got)
    <3>1. CASE asked = NoRound
      BY <1>6, <1>7, <2>1, <3>1 DEF AboutTracked
    <3>2. CASE asked # NoRound
      <4>1. asked \in Rounds /\ board[asked] # "none" /\ round = asked
        BY <1>2, <2>1, <3>2 DEF RoundIds, WebType
      <4>2. asked <= n
        BY <1>3, <4>1 DEF UpTo
      <4>3. board[asked] = "open" => open = asked
        BY <1>6, <4>1
      <4>. QED BY <1>4, <1>6, <1>7, <2>1, <3>2, <4>1, <4>2, <4>3 DEF AboutTracked
    <3>. QED BY <3>1, <3>2
  <2>3. \A g \in Slots : flight'[g].pc # "free" => flight[g].pc # "free"
    BY <1>1, <1>9
  <2>4. \A g \in Slots : flight'[g].pc = "sent" => flight[g].pc = "sent" /\ flight'[g] = flight[g]
    BY <1>8, <1>9
  <2>5. \A g \in Slots : flight'[g].pc = "answered" => AboutTracked(flight'[g].got)
    BY <1>8, <1>9, <2>2 DEF OneAtATime
  <2>6. \A g \in Slots : flight'[g].pc = "answered" => AboutTracked(flight[g].got)'
    BY <1>1, <2>5 DEF AboutTracked
  <2>. QED BY <1>1, <2>3, <2>4, <2>6 DEF OneAtATime
<1>15. BoardTrue' /\ QueueTrue(eng, reveals)' /\ NothingWaits(eng)'
  BY <1>1, QueueKept DEF BoardTrue, UpTo
<1>. QED BY <1>10, <1>12, <1>13, <1>14, <1>15

\* A request is over, one way or the other: a timer is set and the others are
\* as they were.
LEMMA SlotFreed ==
  ASSUME WebInv, NEW f \in Slots, NEW tracked \in RoundIds, poll' = scheduleNext(tracked),
         flight' = [flight EXCEPT ![f] = NoFlight], UNCHANGED <<board, hidden, overtaken, nudges>>,
         watched' \subseteq Rounds, tracked # NoRound => board[tracked] # "none"
  PROVE  /\ WebType' /\ AnswersTrue' /\ PollAlive' /\ BoardTrue'
         /\ flight[f].pc # "free" /\ OneAtATime => \A g \in Slots : flight'[g].pc = "free"
         /\ poll'.tracked = tracked
<1>0. /\ poll \in [tracked: RoundIds, held: BOOLEAN, orphans: Nat]
      /\ flight \in [Slots -> FlightRec]
  BY DEF WebInv, WebType
<1>1. poll' \in [tracked: RoundIds, held: BOOLEAN, orphans: Nat] /\ poll'.held = TRUE /\ poll'.tracked = tracked
  BY <1>0 DEF scheduleNext
<1>2. NoFlight \in FlightRec /\ NoFlight.pc = "free"
  BY DEF FlightRec, NoFlight
<1>3. flight' \in [Slots -> FlightRec] /\ flight'[f] = NoFlight /\ \A g \in Slots : g # f => flight'[g] = flight[g]
  BY <1>0, <1>2
<1>4. WebType'
  BY <1>1, <1>3 DEF WebInv, WebType
<1>5. AnswersTrue'
  <2>1. \A g \in Slots : flight'[g] = flight[g] \/ flight'[g].pc = "free"
    BY <1>2, <1>3
  <2>. QED BY <2>1 DEF WebInv, AnswersTrue, Answered
<1>6. PollAlive' /\ BoardTrue'
  BY <1>1 DEF PollAlive, WebInv, BoardTrue, UpTo
<1>7. ASSUME flight[f].pc # "free", OneAtATime PROVE \A g \in Slots : flight'[g].pc = "free"
  BY <1>2, <1>3, <1>7 DEF OneAtATime
<1>. QED BY <1>1, <1>4, <1>5, <1>6, <1>7

\* A request fails.
LEMMA FailStep ==
  ASSUME WebInv, NEW f \in Slots, Fails(f)
  PROVE  WebInv'
<1>1. /\ flight[f].pc # "free" /\ poll' = scheduleNext(poll.tracked)
      /\ flight' = [flight EXCEPT ![f] = NoFlight]
      /\ UNCHANGED <<board, hidden, eng, reveals, watched, overtaken, nudges>>
  BY DEF Fails
<1>2. poll.tracked \in RoundIds /\ (poll.tracked # NoRound => board[poll.tracked] # "none")
      /\ watched' \subseteq Rounds
  BY <1>1 DEF WebInv, WebType
<1>3. /\ WebType' /\ AnswersTrue' /\ PollAlive' /\ BoardTrue'
      /\ OneAtATime => \A g \in Slots : flight'[g].pc = "free"
      /\ poll'.tracked = poll.tracked
  BY <1>1, <1>2, SlotFreed
<1>4. QueueTrue(eng, reveals)' /\ NothingWaits(eng)'
  BY <1>1, QueueKept
<1>5. (~overtaken => OneAtATime)'
  <2> SUFFICES ASSUME OneAtATime PROVE OneAtATime'
    BY <1>1 DEF WebInv
  <2>1. \A g \in Slots : flight'[g].pc = "free"
    BY <1>3
  <2>2. \A k \in watched : /\ k <= poll.tracked
                           /\ k < poll.tracked => k \in eng.remembered \/ board[k] = "voided"
    BY DEF OneAtATime
  <2>. QED BY <1>1, <1>3, <2>1, <2>2 DEF OneAtATime
<1>. QED BY <1>3, <1>4, <1>5 DEF WebInv

\* An answer arrives: the page moves to a newer round only with the result of
\* the one it tracked.
LEMMA ArriveStep ==
  ASSUME WebInv, NEW f \in Slots, Arrive(f)
  PROVE  WebInv'
<1> DEFINE got == flight[f].got
           noted == noteRound(eng, reveals, got.round, got.status)
           t == poll.tracked
           next == IF got.open # NoRound THEN got.open ELSE t
<1>1. /\ flight[f].pc = "answered" /\ poll' = scheduleNext(next)
      /\ eng' = noted.eng /\ reveals' = noted.reveals
      /\ watched' = IF got.status = "open" THEN watched \cup {got.round} ELSE watched
      /\ flight' = [flight EXCEPT ![f] = NoFlight]
      /\ UNCHANGED <<board, hidden, overtaken, nudges>>
  BY DEF Arrive
<1>2. got \in AnswerRec /\ Answered(got)
  BY <1>1 DEF WebInv, WebType, FlightRec, AnswersTrue
<1>3. t \in RoundIds /\ (t # NoRound => board[t] # "none") /\ watched \subseteq Rounds
  BY DEF WebInv, WebType
<1>4. OneAtATime => AboutTracked(got)
  BY <1>1 DEF OneAtATime
<1> HIDE DEF got
<1>5. /\ got.round \in RoundIds /\ got.open \in RoundIds /\ got.status \in BoardStates
      /\ got.round = NoRound => got.status = "none"
      /\ got.status = "none" => got.round = NoRound
      /\ got.status \in {"revealed", "voided"} => board[got.round] = got.status
      /\ got.open # NoRound => board[got.open] # "none"
  BY <1>2 DEF AnswerRec, Answered
<1>6. /\ QueueTrue(noted.eng, noted.reveals) /\ NothingWaits(noted.eng)
      /\ eng.remembered \subseteq noted.eng.remembered
      /\ got.status = "revealed" => got.round \in noted.eng.remembered
  <2>1. QueueTrue(eng, reveals) /\ NothingWaits(eng)
    BY DEF WebInv
  <2>2. got.round # NoRound /\ got.status = "revealed" => board[got.round] = "revealed"
    BY <1>5
  <2>3. got.status = "revealed" => got.round # NoRound
    BY <1>5
  <2>. QED BY <1>5, <2>1, <2>2, <2>3, NoteStep
<1>7. QueueTrue(eng, reveals)' /\ NothingWaits(eng)'
  <2> HIDE DEF noted
  <2>. QED BY <1>1, <1>6 DEF QueueTrue, NothingWaits
<1>8. /\ eng.remembered \subseteq eng'.remembered
      /\ got.status = "revealed" => got.round \in eng'.remembered
  BY <1>1, <1>6
<1> HIDE DEF noted
<1>9. next \in RoundIds /\ (next # NoRound => board[next] # "none")
  BY <1>3, <1>5
<1>10. watched' \subseteq Rounds
  BY <1>1, <1>3, <1>5 DEF RoundIds
<1> HIDE DEF next
<1>11. /\ WebType' /\ AnswersTrue' /\ PollAlive' /\ BoardTrue'
       /\ OneAtATime => \A g \in Slots : flight'[g].pc = "free"
       /\ poll'.tracked = next
  BY <1>1, <1>9, <1>10, SlotFreed
<1>12. (~overtaken => OneAtATime)'
  <2> SUFFICES ASSUME OneAtATime PROVE OneAtATime'
    BY <1>1 DEF WebInv
  <2>1. \A g \in Slots : flight'[g].pc = "free"
    BY <1>11
  <2>2. \A k \in watched : /\ k \in Nat /\ k <= t /\ k # NoRound
                           /\ k < t => k \in eng.remembered \/ board[k] = "voided"
    BY <1>3, RoundIdsNat DEF OneAtATime
  <2>3. AboutTracked(got)
    BY <1>4
  <2>4. t \in Nat /\ got.open \in Nat /\ NoRound = 0
    BY <1>3, <1>5, RoundIdsNat
  <2>5. \A k \in watched' : k <= next /\ (k < next => k \in eng'.remembered \/ board[k] = "voided")
    <3> SUFFICES ASSUME NEW k \in watched'
                 PROVE  k <= next /\ (k < next => k \in eng'.remembered \/ board[k] = "voided")
      OBVIOUS
    <3>1. CASE t = NoRound
      <4>1. k \notin watched
        BY <2>2, <2>4, <3>1
      <4>2. k = got.round /\ got.status = "open"
        BY <1>1, <4>1
      <4>3. got.round = got.open /\ got.round # NoRound
        BY <1>5, <2>3, <3>1, <4>2 DEF AboutTracked
      <4>. QED BY <2>4, <4>2, <4>3 DEF next
    <3>2. CASE t # NoRound
      <4>1. /\ got.round = t
            /\ got.status = "open" => got.open = t
            /\ got.open # NoRound => got.open >= t
        BY <2>3, <3>2 DEF AboutTracked
      <4>2. t <= next /\ next \in Nat
        BY <2>4, <4>1 DEF next
      <4>3. k \in watched \/ (k = t /\ got.status = "open")
        BY <1>1, <4>1
      <4>4. CASE k = t
        <5>1. got.status = "open" => next = t
          BY <3>2, <4>1 DEF next
        <5>2. got.status # "open" => got.status \in {"revealed", "voided"}
          BY <1>5, <3>2, <4>1 DEF BoardStates
        <5>3. got.status # "open" => t \in eng'.remembered \/ board[t] = "voided"
          BY <1>5, <1>8, <4>1, <5>2
        <5>. QED BY <2>4, <4>2, <4>4, <5>1, <5>3
      <4>5. CASE k # t
        <5>1. k \in Nat /\ k < t /\ (k \in eng.remembered \/ board[k] = "voided")
          BY <2>2, <2>4, <4>3, <4>5
        <5>. QED BY <1>8, <2>4, <4>2, <5>1
      <4>. QED BY <4>4, <4>5
    <3>. QED BY <3>1, <3>2
  <2>. QED BY <1>1, <1>11, <2>1, <2>5 DEF OneAtATime
<1>. QED BY <1>7, <1>11, <1>12 DEF WebInv

\* An animation ends and the next may begin.
LEMMA RevealStep ==
  ASSUME WebInv, NEW k \in Rounds, RevealDone(k)
  PROVE  WebInv'
<1> DEFINE e == [eng EXCEPT !.busy = FALSE, !.running = @ \ {k}]
           rest == eng.running \ {k}
           idle == [seenAnyRound |-> eng.seenAnyRound, remembered |-> eng.remembered,
                    played |-> eng.played, busy |-> FALSE, running |-> rest]
<1>0. eng \in EngineRec
  BY DEF WebInv, QueueTrue
<1>1. /\ k \in eng.running /\ eng' = pump(e, reveals).eng /\ reveals' = pump(e, reveals).reveals
      /\ UNCHANGED <<board, hidden, poll, flight, watched, overtaken, nudges>>
  BY DEF RevealDone
<1>2. e = idle
  <2>1. ASSUME NEW x, x = [eng EXCEPT !.busy = FALSE, !.running = @ \ {k}] PROVE x = idle
    BY <1>0, <2>1 DEF EngineRec
  <2> HIDE DEF idle
  <2>. QED BY <2>1
<1>3. rest = {}
  BY <1>1 DEF WebInv, QueueTrue
<1>4. QueueTrue(e, reveals) /\ e.remembered = eng.remembered
  <2>1. idle \in EngineRec
    BY <1>0 DEF EngineRec
  <2>2. /\ idle.played = eng.played /\ idle.remembered = eng.remembered /\ idle.busy = FALSE
        /\ idle.running = {}
    BY <1>3
  <2> HIDE DEF idle, e
  <2>3. QueueTrue(idle, reveals)
    BY <2>1, <2>2 DEF WebInv, QueueTrue
  <2>. QED BY <1>2, <2>2, <2>3
<1> HIDE DEF e
<1>5. QueueTrue(eng', reveals') /\ NothingWaits(eng') /\ eng'.remembered = eng.remembered
  BY <1>1, <1>4, PumpStep
<1>6. QueueTrue(eng, reveals)' /\ NothingWaits(eng)'
  BY <1>1, <1>5 DEF QueueTrue, NothingWaits
<1>7. (~overtaken => OneAtATime)'
  BY <1>1, <1>5 DEF WebInv, OneAtATime, AboutTracked
<1>. QED BY <1>1, <1>6, <1>7 DEF WebInv, BoardTrue, UpTo, WebType, AnswersTrue, Answered, PollAlive, InAir

\* The invariant of the page's poll and reveals.
LEMMA WebInductive == WebSpec => []WebInv
<1>1. WebInit => WebInv
  <2> SUFFICES ASSUME WebInit PROVE WebInv
    OBVIOUS
  <2> DEFINE sent == [pc |-> "sent", asked |-> NoRound]
  <2>0. MaxRound \in Nat /\ Rounds = 1..MaxRound /\ NoRound = 0
    BY FirstSlot DEF Rounds, NoRound
  <2>1. PICK ending \in {"none", "open", "revealed"} :
          board = [k \in Rounds |-> IF k = 1 THEN ending ELSE "none"]
    BY DEF WebInit
  <2>2. BoardTrue
    <3>1. board \in [Rounds -> BoardStates]
      BY <2>1 DEF BoardStates
    <3>2. CASE ending = "none" \/ MaxRound = 0
      <4>1. UpTo(0)
        BY <2>0, <2>1, <3>2 DEF UpTo
      <4>. QED BY <2>0, <3>1, <4>1 DEF BoardTrue
    <3>3. CASE ending # "none" /\ MaxRound # 0
      <4>1. UpTo(1)
        BY <2>0, <2>1, <3>3 DEF UpTo
      <4>2. 1 \in 0..MaxRound
        BY <2>0, <3>3
      <4>. QED BY <3>1, <4>1, <4>2 DEF BoardTrue
    <3>. QED BY <3>2, <3>3
  <2>3. /\ sent \in FlightRec /\ NoFlight \in FlightRec /\ sent.pc = "sent" /\ sent.asked = NoRound
        /\ NoFlight.pc = "free"
    BY DEF FlightRec, RoundIds, NoFlight
  <2>4. flight = [f \in Slots |-> IF f = 1 THEN sent ELSE NoFlight]
    BY DEF WebInit
  <2> HIDE DEF sent
  <2>5. flight \in [Slots -> FlightRec] /\ flight[1] = sent /\ \A f \in Slots : f # 1 => flight[f] = NoFlight
    BY <2>3, <2>4, FirstSlot
  <2>6. WebType
    <3>1. poll \in [tracked: RoundIds, held: BOOLEAN, orphans: Nat] /\ poll.tracked = NoRound
      BY DEF WebInit, RoundIds
    <3>. QED BY <2>5, <3>1 DEF WebInit, WebType
  <2>7. AnswersTrue
    BY <2>3, <2>5 DEF AnswersTrue
  <2>8. PollAlive
    BY <2>3, <2>5, FirstSlot DEF PollAlive, InAir
  <2>9. QueueTrue(eng, reveals) /\ NothingWaits(eng)
    BY DEF WebInit, QueueTrue, EngineRec, NothingWaits
  <2>10. OneAtATime
    BY <2>3, <2>5 DEF OneAtATime, WebInit
  <2>. QED BY <2>2, <2>6, <2>7, <2>8, <2>9, <2>10 DEF WebInv
<1>2. WebInv /\ [WebNext]_webVars => WebInv'
  <2> SUFFICES ASSUME WebInv, [WebNext]_webVars PROVE WebInv'
    OBVIOUS
  <2>1. CASE WebNext
    BY <2>1, BoardSteps, NudgeSteps, SampleStep, ArriveStep, FailStep, RevealStep DEF WebNext
  <2>2. CASE UNCHANGED webVars
    BY <2>2 DEF webVars, WebInv, BoardTrue, UpTo, WebType, AnswersTrue, Answered, PollAlive, InAir,
                QueueTrue, NothingWaits, OneAtATime, AboutTracked
  <2>. QED BY <2>1, <2>2
<1>. QED BY <1>1, <1>2, PTL DEF WebSpec

\* For any number of rounds and of interruptions, whatever order answers,
\* failures and timers come in: one animation at a time, each result once and
\* only when the mirror has it, none that was kept is left waiting, and a visible
\* page goes on asking (useRoundEngine.ts:261). The result of every round shown
\* is kept as long as no two requests were ever under way at once; a kick that
\* overtakes a poll (useStatePoll.ts:96-98) may lose one.
THEOREM RevealsHold == WebSpec => []RevealsSound
<1>1. WebInv => RevealsSound
  <2> SUFFICES ASSUME WebInv PROVE RevealsSound
    OBVIOUS
  <2>1. /\ eng \in EngineRec /\ reveals \in Seq(Rounds)
        /\ \A i, j \in 1..Len(reveals) : reveals[i] = reveals[j] => i = j
        /\ \A i \in 1..Len(reveals) : reveals[i] \in eng.played
        /\ eng.played \subseteq eng.remembered
        /\ \A k \in eng.remembered : board[k] = "revealed"
        /\ IF eng.busy THEN \E k \in Rounds : eng.running = {k} ELSE eng.running = {}
    BY DEF WebInv, QueueTrue
  <2>2. DOMAIN reveals = 1..Len(reveals)
    BY <2>1, LenProperties
  <2>3. Cardinality(eng.running) <= 1
    <3>1. \A k : Cardinality({k}) = 1
      BY FS_Singleton
    <3>2. Cardinality({}) = 0
      BY FS_EmptySet
    <3>3. CASE eng.busy
      <4>1. PICK k \in Rounds : eng.running = {k}
        BY <2>1, <3>3
      <4>2. Cardinality({k}) = 1
        BY <3>1
      <4>. QED BY <4>1, <4>2
    <3>4. CASE ~eng.busy
      <4>1. eng.running = {}
        BY <2>1, <3>4
      <4>. QED BY <3>2, <4>1
    <3>. QED BY <3>3, <3>4
  <2>4. eng.busy <=> eng.running # {}
    BY <2>1 DEF EngineRec
  <2>5. RevealsQueued
    BY <2>1, <2>2, <2>3, <2>4 DEF RevealsQueued, isRevealed, WebInv, NothingWaits
  <2>6. ResultNotMissed
    <3>1. poll.tracked \in Nat
      BY RoundIdsNat DEF WebInv, WebType
    <3>2. \A k \in watched : k \in Nat
      BY FirstSlot DEF WebInv, WebType
    <3>. QED BY <3>1, <3>2 DEF WebInv, OneAtATime, ResultNotMissed
  <2>. QED BY <2>5, <2>6 DEF RevealsSound, WebInv
<1>. QED BY <1>1, WebInductive, PTL

=============================================================================
