------------------------------ MODULE Referrals ------------------------------
(***************************************************************************)
(* Referral bonuses. Once an epoch, every wallet whose referees have held  *)
(* enough for long enough is granted tickets: referralGrantsDue (indexer)  *)
(* records an amount per referrer and its split over the referees, decide  *)
(* (tick.ts, step 3b) sends the rows not sent yet and marks them. The      *)
(* amounts are clamped to the referrer's own principal and to a cap shared *)
(* by the whole pool, both of which the program enforces too.              *)
(***************************************************************************)
EXTENDS Integers, FiniteSets, Totals

CONSTANTS
  Holders,              \* wallets
  ReferrerOf,           \* referee -> referrer, the Referral rows
  Order,                \* holder -> number, the order of addresses
  RATE_TIERS,           \* records [min, rate]
  BPS,                  \* 10_000
  BASIS_CAP, QUALIFY_PRINCIPAL, QualifySeconds, CapBps, GRANT_BATCH,
  MaxHolding, MaxGrantEpoch, MaxMoves

ASSUME ReferralsAssumption ==
  /\ {BPS, BASIS_CAP, QUALIFY_PRINCIPAL, QualifySeconds, CapBps, GRANT_BATCH,
      MaxHolding, MaxGrantEpoch, MaxMoves} \subseteq Nat
  /\ BPS > 0 /\ IsFiniteSet(Holders) /\ DOMAIN ReferrerOf \subseteq Holders
  /\ \A w \in DOMAIN ReferrerOf : ReferrerOf[w] \in Holders \ {w}
  /\ RATE_TIERS \subseteq [min: Nat, rate: Nat]
  /\ \A v, w \in Holders : Order[w] \in Int /\ (Order[v] = Order[w] => v = w)

VARIABLES
  bank,     \* accounts on chain: principal, bonus epoch and amount, the epoch;
            \* for the properties, who withdrew and whose grant a tick missed
  book,     \* the mirror's copy of them
  held,     \* referee -> seconds above the threshold, -1 below it
  offers,   \* ReferralGrant rows of this epoch, with their shares
  crank     \* step 3b of the tick in flight

referralVars == <<bank, book, held, offers, crank>>

Referees == DOMAIN ReferrerOf
Referrers == {ReferrerOf[w] : w \in Referees}
Lower(a, b) == IF a < b THEN a ELSE b
Floor0(n) == IF n > 0 THEN n ELSE 0
PoolCap(principal) == (Total(principal) * CapBps) \div BPS

-----------------------------------------------------------------------------
(* The arithmetic.                                                         *)

rateBpsFor(count) ==
  LET reached == {t \in RATE_TIERS : count >= t.min}
  IN IF reached = {} THEN 0
     ELSE (CHOOSE t \in reached : \A u \in reached : u.min <= t.min).rate

isQualified(w) == held[w] >= QualifySeconds
Qualified(r) == {w \in Referees : ReferrerOf[w] = r /\ isQualified(w)}
Weights(r) == [w \in Qualified(r) |-> Lower(bank.principal[w], BASIS_CAP)]

remainingGrantCap(principal, granted) == Floor0(principal - granted)

preScaleBonus(r) ==
  LET raw == (Total(Weights(r)) * rateBpsFor(Cardinality(Qualified(r)))) \div BPS
      granted == IF book.bonusEpoch[r] = bank.epoch THEN book.granted[r] ELSE 0
  IN Lower(raw, remainingGrantCap(book.principal[r], granted))

\* Mutant: every call scales against the full cap.
Headroom_full(recorded) == PoolCap(book.principal)

\* What earlier rows of this epoch left of the pool's cap.
Headroom(recorded) == Floor0(PoolCap(book.principal) - recorded)

Positive(f) == [r \in {s \in DOMAIN f : f[s] > 0} |-> f[r]]
Scaled(pre, sum, cap) ==
  [r \in DOMAIN pre |-> IF sum <= cap THEN pre[r] ELSE (pre[r] * cap) \div sum]

\* computeBonuses, over the referrers that have no row yet.
computeBonuses(rs, recorded) ==
  LET pre == [r \in rs |-> preScaleBonus(r)]
  IN Positive(Scaled(pre, Total(pre), Headroom(recorded)))

\* Mutant: rounded down, nothing handed out for the remainders.
splitShares_floor(amount, weights) ==
  LET all == Total(weights)
  IN [w \in DOMAIN weights |-> IF all = 0 THEN 0 ELSE (amount * weights[w]) \div all]

Floors(amount, weights) ==
  [w \in DOMAIN weights |-> (amount * weights[w]) \div Total(weights)]
Remainders(amount, weights) ==
  [w \in DOMAIN weights |-> (amount * weights[w]) % Total(weights)]

\* How many come before w by largest remainder, then by address.
Before(rest, v, w) == rest[v] > rest[w] \/ (rest[v] = rest[w] /\ Order[v] < Order[w])
Place(rest, w) == Cardinality({v \in DOMAIN rest : Before(rest, v, w)})

\* Shares by weight, the leftover one by one to the largest remainders.
Rounded(amount, weights) ==
  LET left == amount - Total(Floors(amount, weights))
  IN [w \in DOMAIN weights |->
        Floors(amount, weights)[w] +
          (IF Place(Remainders(amount, weights), w) < left THEN 1 ELSE 0)]

splitShares(amount, weights) ==
  IF amount = 0 \/ Total(weights) = 0 THEN [w \in DOMAIN weights |-> 0]
  ELSE Rounded(amount, weights)

-----------------------------------------------------------------------------
(* What moves the inputs.                                                  *)

\* applyReferralEvent: the clock starts when the threshold is crossed.
applyReferralEvent(w, principal) ==
  IF principal < QUALIFY_PRINCIPAL THEN -1 ELSE IF held[w] = -1 THEN 0 ELSE held[w]

\* A deposit or a withdrawal request.
MovePrincipal(w, n) ==
  /\ n \in 0..MaxHolding \ {bank.principal[w]} /\ bank.moves < MaxMoves
  /\ bank' = [bank EXCEPT !.principal[w] = n, !.moves = @ + 1,
                          !.shrunk = @ \/ n < bank.principal[w]]
  /\ held' = IF w \in Referees THEN [held EXCEPT ![w] = applyReferralEvent(w, n)] ELSE held
  /\ UNCHANGED <<book, offers, crank>>

HoldOn ==
  /\ held' = [w \in Referees |-> IF held[w] = -1 THEN -1 ELSE Lower(held[w] + 1, QualifySeconds)]
  /\ UNCHANGED <<bank, book, offers, crank>>

Mirror(b) == [principal |-> b.principal, bonusEpoch |-> b.bonusEpoch, granted |-> b.granted]

MirrorSync ==
  /\ book' = Mirror(bank)
  /\ UNCHANGED <<bank, held, offers, crank>>

\* begin_epoch; rows of earlier epochs are not looked at again.
GrantEpoch ==
  /\ bank.epoch < MaxGrantEpoch /\ crank.pc = "idle"
  /\ bank' = [bank EXCEPT !.epoch = @ + 1, !.shrunk = (book.principal # bank.principal),
                          !.missed = {}]
  /\ offers' = <<>>
  /\ UNCHANGED <<book, held, crank>>

-----------------------------------------------------------------------------
(* Step 3b.                                                                *)

\* Mutant: a row not marked is due, whatever the mirror says.
AlreadyOnChain_no(r) == FALSE

\* The mirror shows that this epoch's grant has landed.
AlreadyOnChain(r) == book.bonusEpoch[r] = bank.epoch

\* referralGrantsDue: rows recorded for new referrers, the pending ones clamped to
\* the freshest principal.
Row(amount, shares) == [amount |-> amount, sent |-> FALSE, shares |-> shares]
Pending(rows) == {r \in DOMAIN rows : ~rows[r].sent /\ ~AlreadyOnChain(r)}

Recorded(new) ==
  [r \in DOMAIN offers \cup DOMAIN new |->
     IF r \in DOMAIN offers THEN offers[r] ELSE Row(new[r], splitShares(new[r], Weights(r)))]

ClampedRow(row, most) ==
  IF row.amount <= most THEN row ELSE Row(most, splitShares(most, row.shares))

Clamped(rows) ==
  [r \in DOMAIN rows |-> IF r \in Pending(rows)
                         THEN ClampedRow(rows[r], remainingGrantCap(book.principal[r], 0))
                         ELSE rows[r]]

Amounts(rows) == [r \in DOMAIN rows |-> rows[r].amount]

referralGrantsDue ==
  Clamped(Recorded(computeBonuses(Referrers \ DOMAIN offers, Total(Amounts(offers)))))

\* The first of what is left to send, in the order of the referrers.
ToSend(rows) == {r \in Pending(rows) : rows[r].amount > 0}
Batch(due) == {r \in due : Cardinality({s \in due : Order[s] < Order[r]}) < GRANT_BATCH}

\* A grant landed that neither its row nor the mirror shows.
Unseen == {r \in DOMAIN offers : /\ bank.bonusEpoch[r] = bank.epoch
                                /\ ~offers[r].sent /\ book.bonusEpoch[r] # bank.epoch}

GrantsDue ==
  /\ crank.pc = "idle" /\ bank.epoch > 0
  /\ offers' = referralGrantsDue
  /\ crank' = IF ToSend(offers') = {} THEN crank
              ELSE [pc |-> "send", batch |-> Batch(ToSend(offers')), fresh |-> book = Mirror(bank)]
  /\ bank' = [bank EXCEPT !.missed = @ \cup Unseen]
  /\ UNCHANGED <<book, held>>

\* grant_tickets: both caps, counting what this epoch already granted.
GrantedBefore(r) == IF bank.bonusEpoch[r] = bank.epoch THEN bank.granted[r] ELSE 0
GrantedInAll ==
  Total([r \in Holders |-> GrantedBefore(r)]) + Total([r \in crank.batch |-> offers[r].amount])
GrantsAccepted ==
  /\ \A r \in crank.batch : GrantedBefore(r) + offers[r].amount <= bank.principal[r]
  /\ GrantedInAll <= PoolCap(bank.principal)

TickIdle == [pc |-> "idle", batch |-> {}, fresh |-> FALSE]

\* Sent and confirmed; refused by a cap (a warning, the tick goes on); or landed
\* and never marked: the confirmation timed out or the process died.
SendGrants ==
  /\ crank.pc = "send"
  /\ \/ /\ GrantsAccepted
        /\ bank' = [bank EXCEPT
             !.granted = [r \in Holders |-> IF r \in crank.batch THEN GrantedBefore(r) + offers[r].amount
                                            ELSE @[r]],
             !.bonusEpoch = [r \in Holders |-> IF r \in crank.batch THEN bank.epoch ELSE @[r]]]
        /\ \E pc \in {"mark", "down"} : crank' = [crank EXCEPT !.pc = pc]
     \/ ~GrantsAccepted /\ crank' = TickIdle /\ UNCHANGED bank
  /\ UNCHANGED <<book, held, offers>>

\* markReferralGrantsSent.
MarkSent ==
  /\ crank.pc = "mark"
  /\ offers' = [r \in DOMAIN offers |-> [offers[r] EXCEPT !.sent = @ \/ r \in crank.batch]]
  /\ crank' = TickIdle
  /\ UNCHANGED <<bank, book, held>>

\* The next tick comes with the deadline, the safety interval, a wake or the
\* next boot, and waits for no mirror.
Recover ==
  /\ crank.pc = "down"
  /\ crank' = TickIdle
  /\ UNCHANGED <<bank, book, held, offers>>

ReferralsInit ==
  /\ bank = [principal |-> [w \in Holders |-> QUALIFY_PRINCIPAL], bonusEpoch |-> [w \in Holders |-> 0],
             granted |-> [w \in Holders |-> 0], epoch |-> 0, moves |-> 0, shrunk |-> FALSE,
             missed |-> {}]
  /\ book = Mirror(bank)
  /\ held \in [Referees -> {0, QualifySeconds}]
  /\ offers = <<>> /\ crank = TickIdle

ReferralsNext ==
  \/ \E w \in Holders, n \in 0..MaxHolding : MovePrincipal(w, n)
  \/ HoldOn \/ MirrorSync \/ GrantEpoch
  \/ GrantsDue \/ SendGrants \/ MarkSent \/ Recover

ReferralsSpec == ReferralsInit /\ [][ReferralsNext]_referralVars

-----------------------------------------------------------------------------
\* Step 3b (tick.ts:637): what the program granted a referrer this epoch is
\* exactly the one row recorded for it, through late qualifiers, re-clamping
\* and a landed grant that was never marked. Not so for one a later tick
\* missed, because the mirror did not show the landed grant when that tick
\* looked: its row can be clamped, and sent again.
GrantsMatchRows ==
  \A r \in Referrers \ bank.missed :
    (bank.epoch > 0 /\ bank.bonusEpoch[r] = bank.epoch) =>
      r \in DOMAIN offers /\ bank.granted[r] = offers[r].amount

\* splitShares (referral-bonus.ts:161): the referees' shares always add up to
\* the amount their referrer's row holds, also after it was clamped.
SharesAddUp ==
  \A r \in DOMAIN offers : Total(offers[r].shares) = offers[r].amount

\* computeBonuses (referral-bonus.ts:107): as long as nobody withdrew since the
\* epoch began, the mirror was current and no grant was missed, the program
\* accepts every batch: late referrers share what is left of the cap.
BatchFits ==
  crank.pc = "send" /\ crank.fresh /\ ~bank.shrunk /\ bank.missed = {} => GrantsAccepted

\* Step 3b as a whole (tick.ts:637, referral-bonus.ts:107): shares add up, and
\* but for a grant missed on a mirror that lagged, rows and chain agree and a
\* fresh batch is never refused, in whatever order deposits, the mirror and a
\* dying tick come.
GrantsSound == GrantsMatchRows /\ SharesAddUp /\ BatchFits
=============================================================================
