------------------------------ MODULE AdminCli ------------------------------
(***************************************************************************)
(* The admin command line (admin/index.ts, ledger.ts, squads.ts): which    *)
(* key signs what, and the emergency crank that pays everyone out of a     *)
(* shut-down pool.                                                         *)
(*                                                                         *)
(* Part "keys": commands run one after another under any environment, over *)
(* the pool's roles and switches; an unsigned transaction exported for     *)
(* Squads is executed later or never. Part "crank": the crank runs while   *)
(* owners exit on their own and principal comes back.                      *)
(***************************************************************************)
EXTENDS Integers, Sequences, Totals

CONSTANTS
  HotKey, LedgerKey, SquadsKey, NoAddress,
  Debtors,        \* Players of the shut-down pool
  Balances,       \* what a Player may be owed
  BatchSize,      \* --batch
  MaxExports      \* bound on exports waiting at Squads

ASSUME AdminCliAssumption ==
  /\ Cardinality({HotKey, LedgerKey, SquadsKey, NoAddress}) = 4
  /\ IsFiniteSet(Debtors) /\ Balances \subseteq Nat \ {0} /\ BatchSize \in Nat \ {0} /\ MaxExports \in Nat

VARIABLES
  roles,      \* the pool: admin, pending, operator, paused, shutdown
  exports,    \* unsigned transactions printed for Squads
  lastSent,   \* the last transaction sent from here
  owed,       \* per Player, principal + pending_withdraw
  till,       \* principal vault
  lent,       \* principal out
  crankRun    \* the emergency-crank run

adminVars == <<roles, exports, lastSent, owed, till, lent, crankRun>>

AdminKeys == {HotKey, LedgerKey, SquadsKey}
crankVars == <<owed, till, lent, crankRun>>

-----------------------------------------------------------------------------
(* Keys and modes.                                                         *)

\* ADMIN_ADDRESS, and ADMIN_KEYPAIR: unset, a Ledger URI, or one that starts
\* with usb: and is misspelt.
Envs == [address : {NoAddress} \cup AdminKeys, selector : {"unset", "ledger", "misspelt"}]

\* Mutant: whatever is not a Ledger URI means the loaded key.
parseAdminKeypair_open(env) == env.selector

\* A misspelt one fails, it never falls back to the loaded key.
parseAdminKeypair(env) == IF env.selector = "misspelt" THEN "throws" ELSE env.selector

checkLedgerAddress(env) == env.address \in {NoAddress, LedgerKey}

Starts(env) ==
  /\ parseAdminKeypair(env) # "throws"
  /\ parseAdminKeypair(env) = "ledger" => checkLedgerAddress(env)

LocalKey(env) == IF parseAdminKeypair(env) = "ledger" THEN LedgerKey ELSE HotKey

adminMode(env) ==
  LET signer == IF env.address = NoAddress THEN LocalKey(env) ELSE env.address
  IN [signer |-> signer, multisig |-> signer # LocalKey(env)]

-----------------------------------------------------------------------------
(* What the program makes of a transaction signed by `by`.                 *)

\* The commands that need the admin's signature, each one instruction. What the
\* ones that move money or tickets do there is in Custody and Epochs.
unpause == [kind |-> "unpause"]
startFeature == [kind |-> "start"]
setParams == [kind |-> "set-params"]
grantTickets == [kind |-> "grant-tickets"]
withdrawPrincipal == [kind |-> "withdraw-principal"]
returnPrincipalCommand == [kind |-> "return-principal"]
sweepHouse == [kind |-> "sweep-house"]
shutdownCommand(confirm) == [kind |-> "shutdown", confirm |-> confirm]
acceptAdmin == [kind |-> "accept-admin"]
setOperator(key) == [kind |-> "set-operator", key |-> key]
proposeAdmin(key) == [kind |-> "propose-admin", key |-> key]

\* --confirm names the configured pool, or another.
Commands ==
  {unpause, startFeature, setParams, grantTickets, withdrawPrincipal, returnPrincipalCommand,
   sweepHouse, acceptAdmin}
  \cup {shutdownCommand(confirm) : confirm \in BOOLEAN}
  \cup {setOperator(key) : key \in AdminKeys} \cup {proposeAdmin(key) : key \in AdminKeys}

\* A transfer of the signer's own tokens needs no role.
Accepted(cmd, by) ==
  CASE cmd.kind = "accept-admin"     -> roles.pending = by
    [] cmd.kind = "return-principal" -> TRUE
    [] cmd.kind = "shutdown"         -> roles.admin = by /\ ~roles.shutdown
    [] cmd.kind = "sweep-house"      -> roles.admin = by /\ roles.shutdown
    [] cmd.kind = "grant-tickets"    -> by \in {roles.admin, roles.operator}
    [] OTHER                         -> roles.admin = by

Applied(cmd) ==
  CASE cmd.kind = "unpause"       -> [roles EXCEPT !.paused = @ \ {"pool"}]
    [] cmd.kind = "start"         -> [roles EXCEPT !.paused = @ \ {"feature"}]
    [] cmd.kind = "shutdown"      -> [roles EXCEPT !.shutdown = TRUE]
    [] cmd.kind = "set-operator"  -> [roles EXCEPT !.operator = cmd.key]
    [] cmd.kind = "propose-admin" -> [roles EXCEPT !.pending = cmd.key]
    [] cmd.kind = "accept-admin"  -> [roles EXCEPT !.admin = roles.pending, !.pending = NoAddress]
    [] OTHER                      -> roles

Land(cmd, by) == roles' = IF Accepted(cmd, by) THEN Applied(cmd) ELSE roles

-----------------------------------------------------------------------------
(* run, submit, sendWithLedger.                                            *)

\* startFeature looks at the pool first; shutdown wants the pool confirmed.
Refused(cmd, mode) ==
  \/ cmd.kind = "start" /\ mode.signer # roles.admin
  \/ cmd.kind = "shutdown" /\ ~cmd.confirm

\* submit: the Ledger signs when it is loaded, else the key in chain.keypair.
SigningKey(env) == LocalKey(env)

\* A command that needs the admin's signature.
AdminCommand(env, cmd) ==
  /\ Starts(env) /\ ~Refused(cmd, adminMode(env))
  /\ IF adminMode(env).multisig
     THEN /\ Cardinality(exports) < MaxExports
          /\ exports' = exports \cup {[cmd |-> cmd, needs |-> adminMode(env).signer, selector |-> env.selector]}
          /\ UNCHANGED <<roles, lastSent>>
     ELSE /\ lastSent' = [needs |-> adminMode(env).signer, by |-> SigningKey(env),
                        selector |-> env.selector]
          /\ Land(cmd, SigningKey(env))
          /\ UNCHANGED exports
  /\ UNCHANGED crankVars

\* pause, pauseFeature: sent with the loaded key, which the program takes from
\* the operator or the admin.
pause(feature) ==
  /\ roles' = IF HotKey \in {roles.operator, roles.admin}
              THEN [roles EXCEPT !.paused = @ \cup {feature}] ELSE roles
  /\ UNCHANGED <<exports, lastSent>> /\ UNCHANGED crankVars

SquadsExecutes(e) ==
  /\ e.needs = SquadsKey
  /\ Land(e.cmd, SquadsKey)
  /\ exports' = exports \ {e}
  /\ UNCHANGED <<lastSent>> /\ UNCHANGED crankVars

KeysNext ==
  \/ \E env \in Envs, cmd \in Commands : AdminCommand(env, cmd)
  \/ \E feature \in {"pool", "feature"} : pause(feature)
  \/ \E e \in exports : SquadsExecutes(e)

-----------------------------------------------------------------------------
(* The emergency crank.                                                    *)

NoCrank == [pc |-> "idle", list |-> <<>>, paid |-> {}, said |-> 0, report |-> "none"]
rolesVars == <<roles, exports, lastSent>>

\* playersOwedABalance, straight off the chain, in no particular order.
playersOwedABalance == {p \in Debtors : owed[p] > 0}

CrankStart ==
  /\ crankRun.pc = "idle" /\ playersOwedABalance # {}
  /\ \E list \in Injection(1..Cardinality(playersOwedABalance), playersOwedABalance) :
       crankRun' = [NoCrank EXCEPT !.pc = "batch", !.list = list]
  /\ UNCHANGED <<owed, till, lent>> /\ UNCHANGED rolesVars

\* Mutant: the batch leaves out its last Player, who is counted all the same.
CrankBatch_short == Range(SubSeq(crankRun.list, 1, BatchSize - 1))

CrankBatch == Range(SubSeq(crankRun.list, 1, IF Len(crankRun.list) < BatchSize THEN Len(crankRun.list) ELSE BatchSize))
AfterBatch == SubSeq(crankRun.list, BatchSize + 1, Len(crankRun.list))
Due(ps) == MapThenSumSet(LAMBDA p : owed[p], ps)

\* One transaction for the whole batch: all of it or nothing.
BatchValid == \A p \in CrankBatch : owed[p] > 0
BatchCovered == till >= Due(CrankBatch)
PayBatch == owed' = [p \in Debtors |-> IF p \in CrankBatch THEN 0 ELSE owed[p]] /\ till' = till - Due(CrankBatch)

CrankPays ==
  /\ crankRun.pc = "batch" /\ BatchValid /\ BatchCovered
  /\ PayBatch
  /\ crankRun' = [crankRun EXCEPT !.list = AfterBatch, !.paid = @ \cup CrankBatch,
                 !.said = @ + (IF Len(crankRun.list) < BatchSize THEN Len(crankRun.list) ELSE BatchSize),
                 !.pc = IF AfterBatch = <<>> THEN "idle" ELSE "batch",
                 !.report = IF AfterBatch = <<>> THEN "all" ELSE @]
  /\ UNCHANGED lent /\ UNCHANGED rolesVars

\* InsufficientVault stops the crank with a report.
CrankShort ==
  /\ crankRun.pc = "batch" /\ BatchValid /\ ~BatchCovered
  /\ crankRun' = [crankRun EXCEPT !.pc = "idle", !.report = "short"]
  /\ UNCHANGED <<owed, till, lent>> /\ UNCHANGED rolesVars

\* Any other failure ends the process: a Player of the batch is gone by now,
\* the send failed, or it landed and that was not learned.
CrankThrows ==
  /\ crankRun.pc = "batch"
  /\ \/ UNCHANGED <<owed, till>>
     \/ BatchValid /\ BatchCovered /\ PayBatch
  /\ crankRun' = NoCrank
  /\ UNCHANGED lent /\ UNCHANGED rolesVars

OwnerExits(p) ==
  /\ owed[p] > 0 /\ till >= owed[p]
  /\ owed' = [owed EXCEPT ![p] = 0] /\ till' = till - owed[p]
  /\ UNCHANGED <<lent, crankRun>> /\ UNCHANGED rolesVars

returnPrincipal ==
  /\ lent > 0
  /\ lent' = lent - 1 /\ till' = till + 1
  /\ UNCHANGED <<owed, crankRun>> /\ UNCHANGED rolesVars

CrankNext ==
  \/ CrankStart \/ CrankPays \/ CrankShort \/ CrankThrows \/ returnPrincipal
  \/ \E p \in Debtors : OwnerExits(p)

AdminInit ==
  /\ roles = [admin |-> LedgerKey, pending |-> NoAddress, operator |-> HotKey,
              paused |-> {"feature"}, shutdown |-> FALSE]
  /\ exports = {} /\ lastSent = [needs |-> NoAddress]
  /\ owed \in [Debtors -> Balances]
  /\ lent \in {0, 1, Due(Debtors)} /\ lent <= Due(Debtors) /\ till = Due(Debtors) - lent
  /\ crankRun = NoCrank

AdminSpec == AdminInit /\ [][KeysNext \/ CrankNext]_adminVars

-----------------------------------------------------------------------------
\* submit (index.ts:159): whatever the environment and however the roles have
\* moved, a transaction is only sent when the key it needs signed it, one that
\* asks for a hardware key is never signed by the hot key, and what is printed
\* unsigned is what nobody here can sign.
SignedByItsKey ==
  /\ lastSent.needs # NoAddress =>
       /\ lastSent.by = lastSent.needs
       /\ lastSent.selector # "unset" => lastSent.by # HotKey
  /\ \A e \in exports : e.needs # HotKey /\ e.selector = "unset"

\* emergencyCrank (index.ts:563): whatever happens beside it, everybody it says
\* it paid holds nothing any more.
CrankReportTrue ==
  /\ crankRun.said = Cardinality(crankRun.paid)
  /\ \A p \in crankRun.paid : owed[p] = 0

\* The command line does what it reports, with the key it names.
AdminHonest == SignedByItsKey /\ CrankReportTrue
=============================================================================
