----------------------------- MODULE MCOperator -----------------------------
(* A history in which the operator service does not do what it says.          *)
EXTENDS Operator

CONSTANTS ann, bob

\* Epoch 1 has begun, both depositors are in it, the game is paused.
StartsInEpochOne ==
  /\ chain = [OperatorChain(FALSE, TRUE) EXCEPT !.epoch.id = 1,
                                                !.joined = [p \in Depositors |-> 1]]
  /\ OperatorBoot

\* Three epochs in one life of the process, nothing going wrong.
HistoryNext == OracleAnswers \/ DeadlineFires \/ DecideNext \/ (tick.pc = "idle" /\ PassSynced)
HistorySpec == StartsInEpochOne /\ [][HistoryNext]_operatorVars
=============================================================================
