------------------------------ MODULE MCClients ------------------------------
(***************************************************************************)
(* The parts around the pool that do not wait for one another, each model  *)
(* checked on its own: the part is chosen at the start and the others stay *)
(* in their initial state.                                                 *)
(***************************************************************************)
EXTENDS Referrals, Access, Sending, ReadCache, Monitoring, Provisioning, AdminCli,
        WebRound, AccessGate, WebPlay, Faucet, Waitlist, TLC

CONSTANTS Parts, h1, h2, h3, h4

VARIABLE part

vars == <<part, referralVars, accessVars, sendingVars, cacheVars, monitorVars, setupVars,
          adminVars, webVars, gateVars, playVars, faucetVars, waitlistVars>>

\* h4 refers h1, who refers h2 and h3.
Refs == (h2 :> h1) @@ (h3 :> h1) @@ (h1 :> h4)
Ord == (h1 :> 1) @@ (h2 :> 2) @@ (h3 :> 3) @@ (h4 :> 4)
Tiers == {[min |-> 1, rate |-> 2], [min |-> 2, rate |-> 3]}

\* A part that is not chosen starts in one of its initial states.
Init ==
  /\ part \in Parts
  /\ ReferralsInit /\ (part # "referrals" => \A w \in Referees : held[w] = 0)
  /\ AccessInit /\ SendingInit /\ MonitorInit
  /\ CacheInit /\ (part # "clock" => chain = wall)
  /\ SetupInit /\ (part # "setup" => net = "devnet")
  /\ AdminInit /\ (part # "crank" => lent = 0 /\ \A d \in Debtors : owed[d] = 1)
  /\ WebInit /\ (part # "web" => board[1] = "none")
  /\ GateInit /\ (part # "gate" => allowed = {})
  /\ PlayInit
  /\ FaucetInit /\ (part # "faucet" => isMintAuthority)
  /\ WaitlistInit

\* The chosen part moves, the others do not.
Still(parts, v) == IF part \in parts THEN TRUE ELSE UNCHANGED v

OthersStill ==
  /\ UNCHANGED part
  /\ Still({"referrals"}, referralVars) /\ Still({"access"}, accessVars)
  /\ Still({"browser", "backend"}, sendingVars) /\ Still({"balances", "clock"}, cacheVars)
  /\ Still({"alerts"}, monitorVars) /\ Still({"setup"}, setupVars)
  /\ Still({"keys", "crank"}, adminVars) /\ Still({"web"}, webVars)
  /\ Still({"gate"}, gateVars) /\ Still({"play"}, playVars)
  /\ Still({"faucet"}, faucetVars) /\ Still({"waitlist"}, waitlistVars)

Next ==
  \/ part = "referrals" /\ ReferralsNext /\ OthersStill
  \/ part = "access" /\ AccessNext /\ OthersStill
  \/ part = "browser" /\ (ClusterNext \/ BrowserNext) /\ OthersStill
  \/ part = "backend" /\ (ClusterNext \/ Endpoints \/ BackendNext) /\ OthersStill
  \/ part = "balances" /\ CacheNext({"balance"}) /\ OthersStill
  \/ part = "clock" /\ CacheNext({"clock"}) /\ OthersStill
  \/ part = "alerts" /\ MonitorNext /\ OthersStill
  \/ part = "setup" /\ SetupNext /\ OthersStill
  \/ part = "keys" /\ KeysNext /\ OthersStill
  \/ part = "crank" /\ CrankNext /\ OthersStill
  \/ part = "web" /\ WebNext /\ OthersStill
  \/ part = "gate" /\ GateNext /\ OthersStill
  \/ part = "play" /\ PlayNext /\ OthersStill
  \/ part = "faucet" /\ FaucetNext /\ OthersStill
  \/ part = "waitlist" /\ WaitlistNext /\ OthersStill

Spec == Init /\ [][Next]_vars
=============================================================================
