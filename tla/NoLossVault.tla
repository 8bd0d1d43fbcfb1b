---------------------------- MODULE NoLossVault ----------------------------
(***************************************************************************)
(* What the pool promises a depositor, with no epochs, rounds or requests: *)
(* a Player has a claim in USDC that only ever grows by money that really  *)
(* arrived (or was set aside as yield budget beforehand) and only ever     *)
(* shrinks by paying that same amount out of the vault.                    *)
(*                                                                         *)
(* Amounts are the difference between the claim before and after a step,   *)
(* so the steps are stated without naming them.                            *)
(***************************************************************************)
EXTENDS Integers

CONSTANT Holder

VARIABLES
  claim,    \* claim[p]: what Player p owns or is waiting for
  owed,     \* the pool's own total of the claims
  vault,    \* USDC in the principal vault
  lent,     \* USDC the admin has taken out and not yet returned
  budget    \* USDC in the vault set aside for yield

avars == <<claim, owed, vault, lent, budget>>

AInit ==
  /\ claim = [p \in Holder |-> 0]
  /\ owed = 0 /\ vault = 0 /\ lent = 0 /\ budget = 0

\* Only p's claim moves, by d, and the total moves with it.
Moves(p, d) ==
  /\ claim' = [claim EXCEPT ![p] = @ + d]
  /\ owed' = owed + d

\* A deposit or a prize: the USDC arrives with the claim.
Credit(p) ==
  LET d == claim'[p] - claim[p] IN
  /\ d > 0
  /\ Moves(p, d)
  /\ vault' = vault + d
  /\ UNCHANGED <<lent, budget>>

\* Yield: the USDC was already in the vault, as budget.
CreditYield(p) ==
  LET d == claim'[p] - claim[p] IN
  /\ d > 0 /\ d <= budget
  /\ Moves(p, d)
  /\ budget' = budget - d
  /\ UNCHANGED <<lent, vault>>

\* A payout: the claim shrinks by exactly what leaves the vault.
Pay(p) ==
  LET d == claim[p] - claim'[p] IN
  /\ d > 0 /\ d <= vault
  /\ Moves(p, -d)
  /\ vault' = vault - d
  /\ UNCHANGED <<lent, budget>>

Fund ==
  /\ vault' - vault > 0
  /\ budget' - budget = vault' - vault
  /\ UNCHANGED <<claim, owed, lent>>

\* Protocol money leaves, never below what depositors are owed.
Sweep ==
  /\ vault' < vault /\ vault' >= owed
  /\ budget' >= 0
  /\ budget' - budget = vault' - vault
  /\ UNCHANGED <<claim, owed, lent>>

\* Lending out and bringing back moves USDC and nobody's claim.
Lend ==
  /\ vault' >= 0
  /\ lent' - lent = vault - vault'
  /\ UNCHANGED <<claim, owed, budget>>

ANext ==
  \/ \E p \in Holder : Credit(p) \/ CreditYield(p) \/ Pay(p)
  \/ Fund \/ Sweep \/ Lend

ASpec == AInit /\ [][ANext]_avars
=============================================================================
