---------------------------- MODULE Provisioning ----------------------------
(***************************************************************************)
(* The two scripts that bring an environment up: bootstrap.ts (mint, token *)
(* accounts, pool, switches) and sparring-setup.ts (the Sparring wallet    *)
(* and its one deposit). Each is a chain of transactions with no state of  *)
(* its own: it dies anywhere and is run again, and every step looks at the *)
(* chain before it acts. boot-guard.ts then checks a backend's environment *)
(* against what they left.                                                 *)
(***************************************************************************)
EXTENDS Integers, FiniteSets

CONSTANTS MaxMints,    \* bound on mints made
          MaxCrashes,  \* bound on runs that die
          MaxSpar      \* bound on sparring set-ups begun

Usdc == 99                 \* the cluster's own mint, nobody here controls it

\* Usdc is not one of the mints made here.
ASSUME ProvisioningAssumption ==
  {MaxMints, MaxCrashes, MaxSpar} \subseteq Nat /\ MaxMints < Usdc

VARIABLES
  net,       \* the cluster
  minted,    \* how many mints this key has created
  acct,      \* the seeded token accounts: label -> mint, 0 when missing
  vault,     \* the pool account
  boot,      \* the bootstrap run
  printed,   \* the KEY=value blocks printed so far
  spar,      \* the sparring-setup run and what it has put on chain
  crashes

setupVars == <<net, minted, acct, vault, boot, printed, spar, crashes>>

None == 0
Labels == {"treasury", "buyback"}
Explicit(label) == <<"explicit", label>>
Seeded(label) == <<"seeded", label>>
NoVault == [mint |-> None]
Exists == vault # NoVault
Mints == 1..minted \cup {Usdc}
NotRunning == [pc |-> "idle"]
Give(run) == boot' = run

-----------------------------------------------------------------------------
(* bootstrap.ts                                                            *)

\* "Hot" is the key in OPERATOR_KEYPAIR, which is the operator too.
assertMainnetSafe(in) ==
  net = "mainnet" => in.admin = "cold" /\ in.explicit /\ in.envMint # None

\* Mutant: the mint this run would use wins over the pool's.
ResolvedMint_env(in, fresh) == IF in.envMint # None THEN in.envMint ELSE fresh

\* An existing pool's mint wins, then ACCEPTED_MINT, then a fresh one.
ResolvedMint(in, fresh) ==
  IF Exists THEN vault.mint ELSE IF in.envMint # None THEN in.envMint ELSE fresh

\* main up to the first thing created: arguments, the mainnet guard, --start
\* needs the admin's key, the pool must agree with ACCEPTED_MINT.
BootStart(in) ==
  /\ boot.pc = "idle"
  /\ assertMainnetSafe(in)
  /\ in.start => in.admin = "hot"
  /\ (Exists /\ in.envMint # None) => vault.mint = in.envMint
  /\ Give([pc |-> "mint", in |-> in, mint |-> None, has |-> {}])
  /\ UNCHANGED <<net, minted, acct, vault, printed, spar, crashes>>

ensureMint ==
  /\ boot.pc = "mint"
  /\ ResolvedMint(boot.in, minted + 1) = minted + 1 => minted < MaxMints
  /\ minted' = IF ResolvedMint(boot.in, minted + 1) = minted + 1 THEN minted + 1 ELSE minted
  /\ Give([boot EXCEPT !.pc = "accounts", !.mint = ResolvedMint(boot.in, minted + 1)])
  /\ UNCHANGED <<net, acct, vault, printed, spar, crashes>>

\* Mutant: created without looking; the address is taken on a second run.
SeededThere_unchecked(label) == FALSE

SeededThere(label) == acct[label] # None

\* Treasury first. An explicit account must hold the mint; a seeded one that
\* is there is taken as it is.
ensureAccount(label) ==
  /\ boot.pc = "accounts" /\ label \notin boot.has
  /\ label = "buyback" => "treasury" \in boot.has
  /\ IF Exists \/ boot.in.explicit \/ SeededThere(label)
     THEN UNCHANGED acct
     ELSE acct[label] = None /\ acct' = [acct EXCEPT ![label] = boot.mint]
  /\ Give([boot EXCEPT !.has = @ \cup {label},
                       !.pc = IF label = "buyback" THEN "pool" ELSE @])
  /\ UNCHANGED <<net, minted, vault, printed, spar, crashes>>

AccountOf(label) == IF boot.in.explicit THEN Explicit(label) ELSE Seeded(label)
HoldsMint(label) == boot.in.explicit \/ acct[label] = boot.mint

\* create_pool refuses accounts of another mint, which ends the run.
createPool ==
  /\ boot.pc = "pool"
  /\ \/ Exists /\ UNCHANGED vault /\ Give([boot EXCEPT !.pc = "start"])
     \/ /\ ~Exists /\ \A label \in Labels : HoldsMint(label)
        /\ vault' = [mint |-> boot.mint, admin |-> boot.in.admin,
                     accounts |-> [label \in Labels |-> AccountOf(label)],
                     paused |-> {"jackpot", "game"}]
        /\ Give([boot EXCEPT !.pc = "start"])
     \/ /\ ~Exists /\ \E label \in Labels : ~HoldsMint(label)
        /\ Give(NotRunning) /\ UNCHANGED vault
  /\ UNCHANGED <<net, minted, acct, printed, spar, crashes>>

\* --start: jackpot then game, each only when it is still paused. The admin's
\* signature is required.
startPool ==
  /\ boot.pc = "start"
  /\ LET go == boot.in.start /\ vault.paused # {} IN
     IF ~go THEN UNCHANGED vault /\ Give([boot EXCEPT !.pc = "print"])
     ELSE IF vault.admin # "hot" THEN UNCHANGED vault /\ Give(NotRunning)
     ELSE /\ vault' = [vault EXCEPT !.paused = IF "jackpot" \in @ THEN @ \ {"jackpot"} ELSE {}]
          /\ UNCHANGED boot
  /\ UNCHANGED <<net, minted, acct, printed, spar, crashes>>

printBlock ==
  /\ boot.pc = "print"
  /\ printed' = printed \cup
       {[mint |-> boot.mint,
         accounts |-> [label \in Labels |-> IF Exists THEN vault.accounts[label] ELSE AccountOf(label)]]}
  /\ Give(NotRunning)
  /\ UNCHANGED <<net, minted, acct, vault, spar, crashes>>

\* Any step may throw, before or after its transaction landed.
BootDies ==
  /\ boot.pc # "idle" /\ crashes < MaxCrashes
  /\ Give(NotRunning) /\ crashes' = crashes + 1
  /\ UNCHANGED <<net, minted, acct, vault, printed, spar>>

Inputs ==
  [envMint : Mints \cup {None}, admin : {"hot", "cold"}, explicit : BOOLEAN, start : BOOLEAN]

BootSteps ==
  ensureMint \/ (\E label \in Labels : ensureAccount(label)) \/ createPool \/ startPool \/ printBlock

-----------------------------------------------------------------------------
\* runBootGuards, for a backend whose ACCEPTED_MINT comes from a block.
runBootGuards(block) == Exists => vault.mint = block.mint

-----------------------------------------------------------------------------
(* sparring-setup.ts. Amounts are in units of its one deposit.             *)

\* The wallet is generated once and its key saved from stdout; the mint and the
\* pool are the printed block's.
SparStart ==
  /\ spar.pc = "idle" /\ printed # {} /\ boot = NotRunning /\ spar.runs < MaxSpar
  /\ spar' = [spar EXCEPT !.pc = "sol", !.runs = @ + 1]
  /\ UNCHANGED <<net, minted, acct, vault, boot, printed, crashes>>

SparSol ==
  /\ spar.pc = "sol"
  /\ spar' = [spar EXCEPT !.pc = "principal", !.sol = TRUE]
  /\ UNCHANGED <<net, minted, acct, vault, boot, printed, crashes>>

SparPrincipal ==
  /\ spar.pc = "principal"
  /\ spar' = [spar EXCEPT !.pc = IF spar.principal > 0 THEN "idle" ELSE "fund"]
  /\ UNCHANGED <<net, minted, acct, vault, boot, printed, crashes>>

\* Mutant: minted for without looking at the wallet.
WalletHolds_unchecked == FALSE

WalletHolds == spar.ata > 0

\* A mint this key does not control ends the run here.
SparFund ==
  /\ spar.pc = "fund"
  /\ spar' = IF WalletHolds THEN [spar EXCEPT !.pc = "deposit"]
             ELSE IF vault.mint = Usdc THEN [spar EXCEPT !.pc = "idle"]
             ELSE [spar EXCEPT !.pc = "deposit", !.ata = @ + 1, !.made = @ + 1]
  /\ UNCHANGED <<net, minted, acct, vault, boot, printed, crashes>>

SparDeposit ==
  /\ spar.pc = "deposit" /\ spar.ata > 0
  /\ spar' = [spar EXCEPT !.pc = "idle", !.ata = @ - 1, !.principal = @ + 1]
  /\ UNCHANGED <<net, minted, acct, vault, boot, printed, crashes>>

SparDies ==
  /\ spar.pc # "idle"
  /\ spar' = [spar EXCEPT !.pc = "idle"]
  /\ UNCHANGED <<net, minted, acct, vault, boot, printed, crashes>>

-----------------------------------------------------------------------------
SetupInit ==
  /\ net \in {"devnet", "mainnet"} /\ minted = 0 /\ vault = NoVault /\ boot = NotRunning
  /\ acct = [label \in Labels |-> None] /\ printed = {} /\ crashes = 0
  /\ spar = [pc |-> "idle", runs |-> 0, sol |-> FALSE, ata |-> 0, made |-> 0, principal |-> 0]

SparNext == SparStart \/ SparSol \/ SparPrincipal \/ SparFund \/ SparDeposit \/ SparDies

\* One person runs both scripts, bootstrap first.
SetupNext ==
  \/ spar.runs = 0 /\ ((\E in \in Inputs : BootStart(in)) \/ BootSteps \/ BootDies)
  \/ SparNext

SetupSpec == SetupInit /\ [][SetupNext]_setupVars

-----------------------------------------------------------------------------
\* Whatever runs died before and whatever arguments later ones had, every block
\* a run printed describes the pool that exists, a backend configured from it
\* passes the boot guards, and on mainnet the pool has no hot-key default.
BlockIsPool ==
  /\ \A block \in printed :
       /\ Exists /\ runBootGuards(block)
       /\ \A label \in Labels :
            /\ block.accounts[label] = vault.accounts[label]
            /\ block.accounts[label] = Seeded(label) => acct[label] = block.mint
  /\ (Exists /\ net = "mainnet") =>
       vault.admin = "cold" /\ vault.mint # None /\ \A label \in Labels : vault.accounts[label] = Explicit(label)

\* "a second run creates nothing and prints the same block" (bootstrap.ts:3), for
\* runs that died as well: a pool is created once and nothing is made for it
\* after that, a seeded account is created once, one block is printed. The one
\* thing made twice is the mint: a run that died before create_pool leaves a mint
\* the next run does not find, unless ACCEPTED_MINT names it (bootstrap.ts:109).
SecondRunCreatesNothing ==
  /\ Exists => /\ minted' = minted /\ acct' = acct
               /\ vault'.mint = vault.mint /\ vault'.admin = vault.admin /\ vault'.accounts = vault.accounts
  /\ printed # {} => printed' = printed
  /\ \A label \in Labels : acct[label] # None => acct'[label] = acct[label]
  /\ (minted' # minted /\ minted > 0) => boot.in.envMint = None /\ crashes > 0

\* sparring-setup (sparring-setup.ts:2): however often it dies and is run
\* again, it mints and deposits once.
SparringOnce == spar.made <= 1 /\ spar.principal <= 1

\* Setting a cluster up as a whole: every block printed is the pool's, and runs
\* repeated after they finished or died create nothing twice but the mint of a
\* run that died before it had a pool.
SetupRepeatable == [][BlockIsPool' /\ SecondRunCreatesNothing /\ SparringOnce']_setupVars
=============================================================================
