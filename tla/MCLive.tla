------------------------------- MODULE MCLive -------------------------------
(* What must eventually happen, in three parts chosen at the start so that    *)
(* their states add up instead of multiplying. "vault": the program with one  *)
(* depositor, one round and two epochs, the operator and ORAO free to stop.   *)
(* "withdrawals" and "board": the operator service, with one owner who cannot *)
(* be paid, and the rounds of one epoch. A part leaves the other's state idle. *)
EXTENDS Liveness, Operator

CONSTANTS ann, bob
VARIABLE part

MCParams ==
  [epoch_seconds |-> 2, epoch_anchor |-> 1, round_seconds |-> 1, close_buffer |-> 0,
   vrf_timeout |-> 1, min_deposit |-> 1, house_cut_bps |-> 5, min_jackpot |-> 1,
   registration_window |-> 0, payout_timeout |-> 1, base_rate_bps |-> 0,
   tickets_per_usdc |-> 1, bonus_cap_bps |-> 10]

InVault == part = "vault"
InService == part # "vault"

InEpochOne(c) == [c EXCEPT !.epoch.id = 1, !.joined = [p \in Depositors |-> 1]]

AllInit ==
  /\ Init
  /\ \/ part \in {"vault", "withdrawals"} /\ chain = InEpochOne(OperatorChain(FALSE, TRUE))
     \/ part = "board" /\ chain = InEpochOne(OperatorChain(TRUE, FALSE))
  /\ OperatorBoot

ServiceNext ==
  \/ OracleAnswers \/ DeadlineFires \/ DecideNext
  \/ /\ tick.pc = "idle"
     /\ \/ PassSynced
        \/ /\ part = "withdrawals" /\ chain.epoch.id < MaxEpochs
           /\ \E p \in Depositors : RequestWithdraw(p)
        \/ part = "board" /\ (Buy(ann) \/ playSparring)

AllNext ==
  /\ UNCHANGED part
  /\ \/ InVault /\ LiveNext /\ UNCHANGED operatorVars
     \/ InService /\ ServiceNext /\ UNCHANGED vars

\* The clock runs, and any wallet that waits for a step anyone may send sends it.
VaultFairness ==
  /\ WF_vars(InVault /\ Tick)
  /\ \A p \in Players : WF_vars(InVault /\ process_withdraw(p))
  /\ \A e \in EpochIds :
       /\ WF_vars(InVault /\ \E target \in 0..(epochs[e].registered_weight - 1) : draw(e, target))
       /\ WF_vars(InVault /\ \E p \in Players : payout(e, p))
       /\ WF_vars(InVault /\ rollover_epoch(e))
  /\ \A r \in RoundIds :
       /\ WF_vars(InVault /\ \E tile \in Tiles : settle_round(r, tile))
       /\ WF_vars(InVault /\ void_round(r))
       /\ WF_vars(InVault /\ \E p \in Owners : settle_position(p, r))
       /\ WF_vars(InVault /\ close_round(r))

\* Time passes and the indexer follows; a due timer fires; a tick goes on.
ServiceFairness ==
  /\ WF_operatorVars(InService /\ PassSynced)
  /\ WF_operatorVars(InService /\ DeadlineFires)
  /\ WF_operatorVars(InService /\ DecideNext)

AllSpec ==
  AllInit /\ [][AllNext]_<<vars, operatorVars, part>> /\ VaultFairness /\ ServiceFairness
=============================================================================
