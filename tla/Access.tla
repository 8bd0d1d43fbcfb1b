-------------------------------- MODULE Access --------------------------------
(***************************************************************************)
(* Invite codes, the beta's door (access.controller.ts), and the referral  *)
(* a wallet may pick up on the way in (referrals.controller.ts). Redeeming *)
(* is one Postgres transaction at READ COMMITTED: it sees what others have *)
(* committed and its own writes, waits for a row or key another open       *)
(* transaction holds, and looks again when that one ends. Requests whose   *)
(* body or signature is refused never open a transaction.                  *)
(***************************************************************************)
EXTENDS Integers, FiniteSets, Totals

CONSTANTS
  Guests,                  \* wallets
  Doors,                   \* invite codes that may come to exist (a bound)
  OpenDoors,               \* the ones an admin issued before anyone came
  DoorUses,                \* their maxUses
  RefOwner,                \* owner of the one referral code going round
  Requests,                \* redeem requests that may be in flight at once
  INVITE_CODE_MAX_USES, CirculationCap, RedeemGrantCount,
  NoGuest, NoDoor

ASSUME AccessAssumption ==
  /\ OpenDoors \subseteq Doors /\ RefOwner \in Guests
  /\ {DoorUses, INVITE_CODE_MAX_USES, CirculationCap, RedeemGrantCount} \subseteq Nat
  /\ NoGuest \notin Guests /\ NoDoor \notin Doors
  /\ IsFiniteSet(Guests) /\ IsFiniteSet(Doors) /\ IsFiniteSet(Requests)

\* "Invite codes are single use from now on" (invite-code.ts:13); the count of
\* new codes is measured against a room counted in uses.
ASSUME SingleUse == INVITE_CODE_MAX_USES = 1

VARIABLES
  door,       \* committed InviteCode rows: maxUses, uses, ownerWallet
  redeemed,   \* committed InviteRedemption rows: wallet -> code
  referredBy, \* committed Referral rows: referee -> referrer
  redeem      \* the transactions in flight

accessVars == <<door, redeemed, referredBy, redeem>>

Issued == {c \in Doors : door[c].max > 0}
Circulation(rows) == Total([c \in Doors |-> rows[c].max - rows[c].uses])
NoTx == [pc |-> "idle", wallet |-> NoGuest, code |-> NoDoor, used |-> FALSE, row |-> FALSE,
         referrer |-> NoGuest, ref |-> FALSE, new |-> {}, seenMax |-> 0, crowded |-> FALSE]
Others(t) == Requests \ {t}

-----------------------------------------------------------------------------
(* POST /access/redeem.                                                    *)

\* The two lookups. A wallet that has redeemed, or a code that does not exist,
\* ends the request before anything is written.
RedeemBegin(t, w, c, ref) ==
  /\ redeem[t].pc = "idle"
  /\ c \in Issued /\ redeemed[w] = NoDoor
  /\ redeem' = [redeem EXCEPT ![t] =
       [NoTx EXCEPT !.pc = "use", !.wallet = w, !.code = c, !.ref = ref, !.seenMax = door[c].max]]
  /\ UNCHANGED <<door, redeemed, referredBy>>

\* Mutant: the use left is checked on the row read before.
UseLeft_read_before(t) == TRUE

\* The conditional update is evaluated on the latest committed row, once
\* nobody else holds it.
UseLeft(t) == door[redeem[t].code].uses < redeem[t].seenMax

Abort(t) == redeem' = [redeem EXCEPT ![t] = NoTx]

RedeemUse(t) ==
  /\ redeem[t].pc = "use"
  /\ \A u \in Others(t) : ~(redeem[u].used /\ redeem[u].code = redeem[t].code)
  /\ IF UseLeft(t) THEN redeem' = [redeem EXCEPT ![t].pc = "insert", ![t].used = TRUE]
     ELSE Abort(t)
  /\ UNCHANGED <<door, redeemed, referredBy>>

\* The redemption's primary key is the wallet.
RedeemInsert(t) ==
  /\ redeem[t].pc = "insert"
  /\ \A u \in Others(t) : ~(redeem[u].row /\ redeem[u].wallet = redeem[t].wallet)
  /\ IF redeemed[redeem[t].wallet] = NoDoor
     THEN redeem' = [redeem EXCEPT ![t].pc = "bind", ![t].row = TRUE]
     ELSE Abort(t)
  /\ UNCHANGED <<door, redeemed, referredBy>>

\* The referrer: a valid referral code wins over the invite code's owner, and
\* nobody refers themselves.
Referrer(t) ==
  LET w == redeem[t].wallet IN
  IF redeem[t].ref /\ RefOwner # w THEN RefOwner
  ELSE IF door[redeem[t].code].owner # w THEN door[redeem[t].code].owner
  ELSE NoGuest

\* An earlier Referral row is kept; one that appears under our feet fails the
\* insert, and the whole request with it.
RedeemBind(t) ==
  /\ redeem[t].pc = "bind"
  /\ redeem' = [redeem EXCEPT ![t].pc = "quota",
       ![t].referrer = IF referredBy[redeem[t].wallet] = NoGuest THEN Referrer(t) ELSE NoGuest]
  /\ UNCHANGED <<door, redeemed, referredBy>>

\* What this transaction sees: committed rows, its own use, its new codes.
RedeemedDoor(t) ==
  [c \in Doors |->
     IF c \in redeem[t].new
     THEN [max |-> INVITE_CODE_MAX_USES, uses |-> 0, owner |-> redeem[t].wallet]
     ELSE IF c = redeem[t].code THEN [door[c] EXCEPT !.uses = @ + 1]
     ELSE door[c]]

\* Mutant: nothing serialises the count.
QuotaFree_always(t) == TRUE

\* pg_advisory_xact_lock, held to the end of the transaction.
QuotaFree(t) == \A u \in Others(t) : redeem[u].pc # "commit"

inviteGrantCount(circulation) ==
  LET room == CirculationCap - circulation
  IN IF room <= 0 THEN 0 ELSE IF RedeemGrantCount < room THEN RedeemGrantCount ELSE room

\* generateInviteCode: some codes nobody has; which ones makes no difference.
Unused == Doors \ (Issued \cup UNION {redeem[u].new : u \in Requests})
Fresh(n) == CHOOSE new \in SUBSET Unused : Cardinality(new) = n

RedeemQuota(t) ==
  /\ redeem[t].pc = "quota" /\ QuotaFree(t)
  /\ Cardinality(Unused) >= RedeemGrantCount
  /\ redeem' = [redeem EXCEPT ![t].pc = "commit",
                   ![t].new = Fresh(inviteGrantCount(Circulation(RedeemedDoor(t))))]
  /\ UNCHANGED <<door, redeemed, referredBy>>

RedeemCommit(t) ==
  /\ redeem[t].pc = "commit"
  /\ LET w == redeem[t].wallet IN
     IF redeem[t].referrer # NoGuest /\ referredBy[w] # NoGuest
     THEN UNCHANGED <<door, redeemed, referredBy>>
     ELSE /\ door' = RedeemedDoor(t)
          /\ redeemed' = [redeemed EXCEPT ![w] = redeem[t].code]
          /\ referredBy' = IF redeem[t].referrer = NoGuest THEN referredBy
                           ELSE [referredBy EXCEPT ![w] = redeem[t].referrer]
  /\ Abort(t)

-----------------------------------------------------------------------------
\* POST /referrals/apply, one short transaction ending in one insert.
applyReferral(w) ==
  /\ referredBy[w] = NoGuest /\ w # RefOwner
  /\ referredBy' = [referredBy EXCEPT ![w] = RefOwner]
  /\ UNCHANGED <<door, redeemed, redeem>>

\* POST /access/invites by the admin: neither capped nor under the lock.
createInvites(owner) ==
  /\ Cardinality(Unused) > RedeemGrantCount * Cardinality(Requests)
  /\ door' = [door EXCEPT ![CHOOSE c \in Fresh(1) : TRUE] = [max |-> DoorUses, uses |-> 0, owner |-> owner]]
  /\ redeem' = [t \in Requests |->
       IF redeem[t].pc = "commit" THEN [redeem[t] EXCEPT !.crowded = TRUE] ELSE redeem[t]]
  /\ UNCHANGED <<redeemed, referredBy>>

AccessInit ==
  /\ door = [c \in Doors |-> [max |-> IF c \in OpenDoors THEN DoorUses ELSE 0,
                              uses |-> 0, owner |-> NoGuest]]
  /\ redeemed = [w \in Guests |-> NoDoor] /\ referredBy = [w \in Guests |-> NoGuest]
  /\ redeem = [t \in Requests |-> NoTx]

AccessNext ==
  \/ \E t \in Requests :
       \/ \E w \in Guests, c \in Doors, ref \in BOOLEAN : RedeemBegin(t, w, c, ref)
       \/ RedeemUse(t) \/ RedeemInsert(t) \/ RedeemBind(t) \/ RedeemQuota(t) \/ RedeemCommit(t)
  \/ \E w \in Guests : applyReferral(w)
  \/ \E owner \in {NoGuest, RefOwner} : createInvites(owner)

AccessSpec == AccessInit /\ [][AccessNext]_accessVars

-----------------------------------------------------------------------------
\* redeem (access.controller.ts:266): however requests for one code or by one
\* wallet interleave, every use a code has spent let exactly one wallet in,
\* and no code lets in more than its maxUses.
UsesAreRedemptions ==
  \A c \in Doors :
    /\ door[c].uses = Cardinality({w \in Guests : redeemed[w] = c})
    /\ door[c].uses <= door[c].max

\* The quota (access.controller.ts:323): a redemption that hands out new codes
\* leaves no more uses in circulation than the cap, unless the admin issued
\* codes while it held the lock.
QuotaKept ==
  \A t \in Requests :
    (redeem[t].pc = "commit" /\ redeem[t].new # {} /\ ~redeem[t].crowded /\ door' # door
       /\ redeem'[t].pc = "idle")
    => Circulation(door') <= CirculationCap

\* bindReferral (referral-code.ts:54): a wallet's referrer is never itself and
\* never changes, whichever of redeem and apply comes first.
ReferrerStays ==
  \A w \in Guests :
    /\ referredBy'[w] # w
    /\ referredBy[w] # NoGuest => referredBy'[w] = referredBy[w]

\* Redemptions as a whole: however requests interleave, uses are redemptions,
\* the circulation cap holds and a referrer stays.
CodesHonoured == [][UsesAreRedemptions' /\ QuotaKept /\ ReferrerStays]_accessVars
=============================================================================
