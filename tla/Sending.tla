------------------------------- MODULE Sending -------------------------------
(***************************************************************************)
(* How a transaction is sent and its fate learned, by the browser          *)
(* (actions.ts, under the Vault's and the ticket form's buttons) and by    *)
(* the backend (chain.service.ts, over rpc-fallback.ts).                   *)
(*                                                                         *)
(* The cluster is external: `tip` is the confirmed block height; a signed  *)
(* transaction may be included while its blockhash lives, its block may be *)
(* skipped again until it is confirmed, and a height is only confirmed     *)
(* once everything below it is decided.                                    *)
(***************************************************************************)
EXTENDS Integers, Sequences

CONSTANTS
  Validity,        \* blocks a blockhash lives
  MaxHeight,       \* bound on the chain's length
  MaxPresses       \* bound on how often the player presses the button

ASSUME SendingAssumption == {Validity, MaxHeight, MaxPresses} \subseteq Nat

VARIABLES
  tip,       \* confirmed block height
  wires,     \* the signed transactions that reached the network
  page,      \* the browser: busy (pc # "idle"), and the last answer shown
  srv,       \* the backend's send in flight
  rpc        \* which of the two endpoints answers: "primary", "fallback"

sendingVars == <<tip, wires, page, srv, rpc>>

Wire(last) == [last |-> last, seen |-> "none", err |-> FALSE]
Last(s) == s[Len(s)]

-----------------------------------------------------------------------------
(* The cluster.                                                            *)

\* Blocks up to `last` may hold it.
Alive(w) == w.seen = "none" /\ tip < w.last
Landed(w) == w.seen = "confirmed" /\ ~w.err

NextBlock ==
  /\ tip < MaxHeight
  /\ \A i \in DOMAIN wires : wires[i].seen = "processed" => tip + 1 < wires[i].last
  /\ tip' = tip + 1
  /\ UNCHANGED <<wires, page, srv, rpc>>

Include(i) ==
  /\ Alive(wires[i])
  /\ \E err \in BOOLEAN : wires' = [wires EXCEPT ![i].seen = "processed", ![i].err = err]
  /\ UNCHANGED <<tip, page, srv, rpc>>

Skip(i) ==
  /\ wires[i].seen = "processed"
  /\ wires' = [wires EXCEPT ![i] = Wire(@.last)]
  /\ UNCHANGED <<tip, page, srv, rpc>>

Confirm(i) ==
  /\ wires[i].seen = "processed" /\ tip < MaxHeight
  /\ wires' = [wires EXCEPT ![i].seen = "confirmed"] /\ tip' = tip + 1
  /\ UNCHANGED <<page, srv, rpc>>

Endpoints == rpc' \in SUBSET {"primary", "fallback"} /\ UNCHANGED <<tip, wires, page, srv>>

-----------------------------------------------------------------------------
(* The browser.                                                            *)

Settle(kind) == page' = [page EXCEPT !.pc = "idle", !.kind = kind]

\* Vault.run, useBuyTickets.submit: the button is disabled while one send is
\* unresolved. The player presses it for the first time, or because the answer
\* says to try again.
MayPress == page.pc = "idle" /\ page.kind \in {"none", "expired"} /\ page.presses < MaxPresses

\* computeUnitLimit: the simulation may find an error, which ends the send.
Simulated == {"units", "programError"}

\* sendMany up to the network: blockhash, simulation, signature, send. A throw
\* before the send shows an error nobody is told to retry.
sendMany ==
  /\ MayPress
  /\ \E sim \in Simulated :
       \/ /\ sim = "programError"
          /\ page' = [page EXCEPT !.kind = "failed", !.presses = @ + 1]
          /\ UNCHANGED wires
       \/ /\ sim = "units"
          /\ \/ page' = [page EXCEPT !.kind = "threw", !.presses = @ + 1] /\ UNCHANGED wires
             \/ /\ wires' = Append(wires, Wire(tip + Validity))
                /\ page' = [page EXCEPT !.pc = "confirm", !.presses = @ + 1]
  /\ UNCHANGED <<tip, srv, rpc>>

Attempt == Last(wires)

\* confirmTransaction reports the outcome or the blockhash's end (web3.js
\* watches both), or fails itself, which leaves the outcome unknown.
confirmTransaction ==
  /\ page.pc = "confirm"
  /\ \/ Attempt.seen = "confirmed" /\ Settle(IF Attempt.err THEN "failed" ELSE "landed")
     \/ Attempt.seen = "none" /\ tip > Attempt.last /\ Settle("expired")
     \/ page' = [page EXCEPT !.pc = "status"]
  /\ UNCHANGED <<tip, wires, srv, rpc>>

\* Mutant: any status will do.
StatusKind_any(w) ==
  IF w.seen = "none" THEN "unknown" ELSE IF w.err THEN "failed" ELSE "landed"

StatusKind(w) ==
  IF w.seen # "none" /\ w.err THEN "failed"
  ELSE IF w.seen = "confirmed" THEN "landed" ELSE "unknown"

HashExpired(last) == tip > last

\* resolveUnknownSend: one status query, then one height query.
resolveStatus ==
  /\ page.pc = "status"
  /\ IF StatusKind(Attempt) = "unknown" THEN page' = [page EXCEPT !.pc = "height"]
     ELSE Settle(StatusKind(Attempt))
  /\ UNCHANGED <<tip, wires, srv, rpc>>

resolveHeight ==
  /\ page.pc = "height"
  /\ IF HashExpired(Attempt.last) THEN Settle("expired") ELSE page' = [page EXCEPT !.pc = "status"]
  /\ UNCHANGED <<tip, wires, srv, rpc>>

BrowserNext == sendMany \/ confirmTransaction \/ resolveStatus \/ resolveHeight

-----------------------------------------------------------------------------
(* The backend.                                                            *)

\* callWithFallback: an unanswered primary is retried once on the fallback.
CallServed == rpc # {}

Answer(kind) == srv' = [srv EXCEPT !.pc = "idle", !.kind = kind]

\* send, sendSigned: a call that fails may still have reached the network (a
\* timeout on both endpoints); then `send` throws. Rebroadcasting the same
\* bytes only keeps the transaction includable.
send ==
  /\ srv.pc = "idle" /\ srv.kind = "none"
  /\ \/ wires' = Append(wires, Wire(tip + Validity))
        /\ srv' = IF CallServed THEN [srv EXCEPT !.pc = "watch"] ELSE [srv EXCEPT !.kind = "threw"]
     \/ ~CallServed /\ Answer("threw") /\ UNCHANGED wires
  /\ UNCHANGED <<tip, page, rpc>>

\* confirm's question once the wait is over: any status without an error will do,
\* also that of a block which may still be skipped.
Confirmation(w) ==
  IF w.seen = "none" THEN "height" ELSE IF w.err THEN "failed" ELSE "ok"

\* watchSignature: the subscription lives on the primary only, and gives up
\* after CONFIRM_TIMEOUT_MS.
watchSignature ==
  /\ srv.pc = "watch"
  /\ \/ /\ "primary" \in rpc /\ Attempt.seen = "confirmed"
        /\ Answer(IF Attempt.err THEN "failed" ELSE "ok")
     \/ srv' = [srv EXCEPT !.pc = "status"]
  /\ UNCHANGED <<tip, wires, page, rpc>>

confirmStatus ==
  /\ srv.pc = "status"
  /\ IF ~CallServed THEN Answer("threw")
     ELSE IF Confirmation(Attempt) = "height" THEN srv' = [srv EXCEPT !.pc = "height"]
     ELSE Answer(Confirmation(Attempt))
  /\ UNCHANGED <<tip, wires, page, rpc>>

confirmHeight ==
  /\ srv.pc = "height"
  /\ Answer(IF ~CallServed THEN "threw" ELSE IF HashExpired(Attempt.last) THEN "expired" ELSE "pending")
  /\ UNCHANGED <<tip, wires, page, rpc>>

BackendNext == send \/ watchSignature \/ confirmStatus \/ confirmHeight

-----------------------------------------------------------------------------
SendingInit ==
  /\ tip = 0 /\ wires = <<>> /\ rpc = {"primary", "fallback"}
  /\ page = [pc |-> "idle", kind |-> "none", presses |-> 0]
  /\ srv = [pc |-> "idle", kind |-> "none"]

ClusterNext ==
  NextBlock \/ \E i \in DOMAIN wires : Include(i) \/ Skip(i) \/ Confirm(i)

BrowserSpec == SendingInit /\ [][ClusterNext \/ BrowserNext]_sendingVars
BackendSpec == SendingInit /\ [][ClusterNext \/ Endpoints \/ BackendNext]_sendingVars

-----------------------------------------------------------------------------
\* SendResult (actions.ts:64): "landed" is only ever shown for a transaction
\* that stays, whatever blocks were skipped on the way, and while the player is
\* told to try again no earlier transaction can still be included. The backend's
\* confirm (chain.service.ts:357) calls a transaction expired only when no block
\* can take it any more, whatever its subscription missed and whichever endpoint
\* answered: another one built after that is not sent beside it.
ToldTrue ==
  /\ (page.pc = "idle" /\ page.kind = "landed") => Landed(Attempt)
  /\ (page.pc = "idle" /\ page.kind = "expired") \/ srv.kind = "expired"
       => \A i \in DOMAIN wires : ~Alive(wires[i])

\* "retrying a deposit whose first attempt actually landed pays twice"
\* (actions.ts:74): a player who presses again only when told to pays once.
PaidOnce == \A i, j \in DOMAIN wires : Landed(wires[i]) /\ Landed(wires[j]) => i = j
=============================================================================
