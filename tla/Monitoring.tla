----------------------------- MODULE Monitoring -----------------------------
(***************************************************************************)
(* GET /alerts (alerts.controller.ts): one poll by an uptime monitor must  *)
(* show that somebody is needed. The rows it goes by are written by the    *)
(* operator (writeState) and the indexer (tick), which fail, die and come  *)
(* back independently of it.                                               *)
(*                                                                         *)
(* `flag` is whichever condition is simply handed through from the status  *)
(* row: a low or unreadable balance, an RPC that is down, a shortfall,     *)
(* skipped owners, a stalled epoch, a low budget, an epoch about to close. *)
(***************************************************************************)
EXTENDS Integers

CONSTANTS
  TickEvery,        \* SAFETY_INTERVAL_SECONDS, and the indexer's own cadence
  TickStale,        \* ALERT_TICK_STALE_S
  FailingFor,       \* OPERATOR_FAILING_SECONDS
  IndexStale,       \* ALERT_INDEXER_STALE_S
  Recent,           \* VOID_OR_ROLLOVER_RECENT_S
  MaxClock          \* bound on time

ASSUME MonitoringAssumption ==
  /\ {TickEvery, TickStale, FailingFor, IndexStale, Recent, MaxClock} \subseteq Nat
  /\ TickEvery <= TickStale /\ TickEvery <= FailingFor /\ TickEvery <= IndexStale
  /\ IndexStale <= Recent

VARIABLES
  clock,      \* wall seconds
  opRow,      \* OperatorState: lastTickAt, lastSuccessAt, lastError
  opProc,     \* the operator process: up, when it last tried, in trouble since
  ixRow,      \* Cursor.updatedAt, and the RoundVoided event once indexed; for the
              \* properties, whether its last stamp fell short of that void
  ixProc,     \* the indexer, likewise
  voidedAt,   \* when the last round voided on chain
  flag, shut

monitorVars == <<clock, opRow, opProc, ixRow, ixProc, voidedAt, flag, shut>>

Never == -1
InTrouble(proc) == proc.since # Never
Trouble(proc) == IF InTrouble(proc) THEN proc ELSE [proc EXCEPT !.since = clock]

-----------------------------------------------------------------------------
(* The two services. A tick that is due is tried before time goes on.      *)

\* Mutant: every tick counts as a success.
writeState_always(row, error) ==
  [lastTickAt |-> clock, lastError |-> error, lastSuccessAt |-> clock]

writeState(row, error) ==
  [lastTickAt |-> clock, lastError |-> error,
   lastSuccessAt |-> IF error THEN row.lastSuccessAt ELSE clock]

OperatorTicks ==
  /\ opProc.up /\ opProc.tried < clock
  /\ \/ \E error \in BOOLEAN :
          /\ opRow' = writeState(opRow, error)
          /\ opProc' = IF error THEN [Trouble(opProc) EXCEPT !.tried = clock]
                       ELSE [up |-> TRUE, tried |-> clock, since |-> Never]
     \/ /\ opProc' = [Trouble(opProc) EXCEPT !.tried = clock]  \* the write fails
        /\ UNCHANGED opRow
  /\ UNCHANGED <<clock, ixRow, ixProc, voidedAt, flag, shut>>

\* Mutant: the stamp is in the finally, whatever was thrown.
IndexerStamp_finally(threw, seen) ==
  [updatedAt |-> clock, voidAt |-> seen, stuck |-> IF threw THEN ixRow.stuck ELSE seen # voidedAt]

\* Indexer.tick: the cursor is stamped unless something is thrown, so also after
\* a catch-up that stopped at a transaction whose logs could not be read.
IndexerStamp(threw, seen) ==
  IF threw THEN [ixRow EXCEPT !.voidAt = seen]
  ELSE [updatedAt |-> clock, voidAt |-> seen, stuck |-> seen # voidedAt]

\* However the tick ends, the catch-up may have read the void or stopped short
\* of it.
IndexerTicks ==
  /\ ixProc.up /\ ixProc.tried < clock
  /\ \E threw \in BOOLEAN, seen \in {ixRow.voidAt, voidedAt} :
       /\ ixRow' = IndexerStamp(threw, seen)
       /\ ixProc' = IF threw THEN [Trouble(ixProc) EXCEPT !.tried = clock]
                    ELSE [up |-> TRUE, tried |-> clock, since |-> Never]
  /\ UNCHANGED <<clock, opRow, opProc, voidedAt, flag, shut>>

Dies ==
  /\ \/ opProc.up /\ opProc' = [Trouble(opProc) EXCEPT !.up = FALSE] /\ UNCHANGED ixProc
     \/ ixProc.up /\ ixProc' = [Trouble(ixProc) EXCEPT !.up = FALSE] /\ UNCHANGED opProc
  /\ UNCHANGED <<clock, opRow, ixRow, voidedAt, flag, shut>>

Restarts ==
  /\ \/ ~opProc.up /\ opProc' = [opProc EXCEPT !.up = TRUE] /\ UNCHANGED ixProc
     \/ ~ixProc.up /\ ixProc' = [ixProc EXCEPT !.up = TRUE] /\ UNCHANGED opProc
  /\ UNCHANGED <<clock, opRow, ixRow, voidedAt, flag, shut>>

ClockSecond ==
  /\ clock < MaxClock
  /\ \A proc \in {opProc, ixProc} : proc.up => clock < proc.tried + TickEvery
  /\ clock' = clock + 1
  /\ UNCHANGED <<opRow, opProc, ixRow, ixProc, voidedAt, flag, shut>>

RoundVoids ==
  /\ voidedAt = Never /\ voidedAt' = clock
  /\ UNCHANGED <<clock, opRow, opProc, ixRow, ixProc, flag, shut>>

Shutdown ==
  /\ ~shut /\ shut' = TRUE
  /\ UNCHANGED <<clock, opRow, opProc, ixRow, ixProc, voidedAt, flag>>

Flags ==
  /\ flag' = ~flag
  /\ UNCHANGED <<clock, opRow, opProc, ixRow, ixProc, voidedAt, shut>>

-----------------------------------------------------------------------------
(* evaluateAlerts over what getAlerts resolves at this instant.            *)

operatorFailing == opRow.lastError /\ clock - opRow.lastSuccessAt > FailingFor

voidedRecently == ixRow.voidAt # Never /\ ixRow.voidAt >= clock - Recent

evaluateAlerts ==
  UNION {
    IF ~shut /\ clock - opRow.lastTickAt > TickStale THEN {"OPERATOR_STALE"} ELSE {},
    IF operatorFailing THEN {"OPERATOR_FAILING"} ELSE {},
    IF clock - ixRow.updatedAt > IndexStale THEN {"INDEXER_STALE"} ELSE {},
    IF voidedRecently THEN {"ROUND_VOIDED_RECENTLY"} ELSE {},
    IF flag THEN {"HANDED_THROUGH"} ELSE {}}

MonitorInit ==
  /\ clock = 0 /\ voidedAt = Never /\ flag = FALSE /\ shut = FALSE
  /\ opRow = [lastTickAt |-> 0, lastSuccessAt |-> 0, lastError |-> FALSE]
  /\ opProc = [up |-> TRUE, tried |-> 0, since |-> Never] /\ ixProc = opProc
  /\ ixRow = [updatedAt |-> 0, voidAt |-> Never, stuck |-> FALSE]

MonitorNext ==
  \/ OperatorTicks \/ IndexerTicks \/ Dies \/ Restarts
  \/ ClockSecond \/ RoundVoids \/ Shutdown \/ Flags

MonitorSpec == MonitorInit /\ [][MonitorNext]_monitorVars

-----------------------------------------------------------------------------
Larger(a, b) == IF a > b THEN a ELSE b

\* An operator that has not finished a tick for longer than both thresholds is
\* paged for, whatever mix of errors, lost writes, deaths and restarts that was
\* (a dead operator of a shut-down pool is not); and nothing is paged for when
\* both services are well and no round voided.
OutagePaged ==
  /\ (~shut /\ InTrouble(opProc)
        /\ clock - opProc.since > Larger(TickStale, FailingFor) + TickEvery)
       => evaluateAlerts \cap {"OPERATOR_STALE", "OPERATOR_FAILING"} # {}
  /\ (~InTrouble(opProc) /\ ~InTrouble(ixProc) /\ voidedAt = Never /\ ~flag) => evaluateAlerts = {}

\* A voided round is paged for within IndexStale, or the indexer that has not
\* seen it is, for as long as the void counts as recent. Not so while it is
\* behind a transaction whose logs cannot be read (indexer.service.ts:1446):
\* then the cursor is stamped all the same, and neither is paged for.
VoidPaged ==
  (voidedAt # Never /\ clock - voidedAt > IndexStale /\ clock - voidedAt <= Recent /\ ~ixRow.stuck)
    => evaluateAlerts \cap {"ROUND_VOIDED_RECENTLY", "INDEXER_STALE"} # {}

\* alerts.controller.ts:95 as a whole: an outage and a voided round are paged for,
\* but for a void behind unreadable logs, and nothing is while all is well.
AlertsSound == OutagePaged /\ VoidPaged
=============================================================================
