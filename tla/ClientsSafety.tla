--------------------------- MODULE ClientsSafety ---------------------------
(***************************************************************************)
(* Safety theorems of the parts beside the pool that run in the backend or *)
(* at a terminal. Every part is a small protocol of requests that overlap, *)
(* fail or die half way, over one table or one cached value; each          *)
(* invariant says what such a request may rely on while it is under way.   *)
(***************************************************************************)
EXTENDS Access, Faucet, Waitlist, ReadCache, Monitoring, Provisioning, AdminCli,
  TotalsTheory, FunctionTheorems, SequenceTheorems

-----------------------------------------------------------------------------
(* Invite codes: what a redeem transaction holds at each of its statements. *)

DoorRec == [max: Nat, uses: Nat, owner: Guests \cup {NoGuest}]
TxRec ==
  [pc: {"idle", "use", "insert", "bind", "quota", "commit"}, wallet: Guests \cup {NoGuest},
   code: Doors \cup {NoDoor}, used: BOOLEAN, row: BOOLEAN, referrer: Guests \cup {NoGuest},
   ref: BOOLEAN, new: SUBSET Doors, seenMax: Nat, crowded: BOOLEAN]

AccessType ==
  /\ door \in [Doors -> DoorRec]
  /\ redeemed \in [Guests -> Doors \cup {NoDoor}]
  /\ referredBy \in [Guests -> Guests \cup {NoGuest}]
  /\ redeem \in [Requests -> TxRec]

\* Past the conditional update, and past the insert, of a transaction x.
HoldsUse(x) == x.pc \in {"insert", "bind", "quota", "commit"}
HoldsRow(x) == x.pc \in {"bind", "quota", "commit"}

\* What the committed rows grant a transaction x at its statement.
Granted(x) ==
  /\ x.pc # "idle" => x.wallet \in Guests /\ x.code \in Issued /\ x.seenMax = door[x.code].max
  /\ x.used <=> HoldsUse(x)
  /\ x.row <=> HoldsRow(x)
  /\ HoldsUse(x) => door[x.code].uses < door[x.code].max
  /\ HoldsRow(x) => redeemed[x.wallet] = NoDoor
  /\ x.pc \in {"quota", "commit"} => x.referrer # x.wallet
  /\ x.pc # "commit" => x.new = {}
  /\ x.new \cap Issued = {}

\* No two transactions hold the same code, the same wallet or the quota's lock.
Apart(x, y) ==
  /\ ~(HoldsUse(x) /\ HoldsUse(y) /\ x.code = y.code)
  /\ ~(HoldsRow(x) /\ HoldsRow(y) /\ x.wallet = y.wallet)
  /\ ~(x.pc = "commit" /\ y.pc = "commit")

\* What t will have left in circulation fits under the cap.
Capped(t) ==
  (redeem[t].pc = "commit" /\ redeem[t].new # {} /\ ~redeem[t].crowded)
    => Circulation(RedeemedDoor(t)) <= CirculationCap

NobodyReferredSelf == \A w \in Guests : referredBy[w] # w

AccessInv ==
  /\ AccessType /\ UsesAreRedemptions /\ NobodyReferredSelf
  /\ \A t \in Requests : Granted(redeem[t]) /\ Capped(t)
  /\ \A t, u \in Requests : t # u => Apart(redeem[t], redeem[u])

\* A statement that writes only its own transaction.
LEMMA OwnStatement ==
  ASSUME AccessInv, NEW t \in Requests, NEW x \in TxRec, redeem' = [redeem EXCEPT ![t] = x],
         UNCHANGED <<door, redeemed, referredBy>>,
         Granted(x), \A u \in Others(t) : Apart(x, redeem[u]), Capped(t)'
  PROVE  AccessInv'
<1>1. AccessType'
  BY DEF AccessInv, AccessType
<1>2. UsesAreRedemptions' /\ NobodyReferredSelf'
  BY DEF AccessInv, UsesAreRedemptions, NobodyReferredSelf
<1>3. \A u \in Requests : redeem'[u] = IF u = t THEN x ELSE redeem[u]
  BY DEF AccessInv, AccessType
<1>4. ASSUME NEW u \in Requests PROVE Granted(redeem[u])'
  BY <1>3 DEF AccessInv, Granted, Issued, HoldsUse, HoldsRow
<1>5. ASSUME NEW u \in Requests PROVE Capped(u)'
  <2>1. CASE u = t
    BY <2>1
  <2>2. CASE u # t
    <3>1. redeem'[u] = redeem[u] /\ RedeemedDoor(u)' = RedeemedDoor(u)
      BY <1>3, <2>2 DEF RedeemedDoor
    <3>2. Circulation(RedeemedDoor(u))' = Circulation(RedeemedDoor(u))
      BY <3>1 DEF Circulation
    <3> QED
      BY <3>1, <3>2 DEF AccessInv, Capped
  <2> QED
    BY <2>1, <2>2
<1>6. ASSUME NEW u \in Requests, NEW v \in Requests, u # v
      PROVE  Apart(redeem[u], redeem[v])'
  <2>1. Apart(redeem'[u], redeem'[v])
    BY <1>3, <1>6 DEF AccessInv, Apart, Others
  <2> QED
    BY <2>1 DEF Apart, HoldsUse, HoldsRow
<1> QED
  BY <1>1, <1>2, <1>4, <1>5, <1>6 DEF AccessInv

\* The statements before the commit, each written for what it leaves behind.
LEMMA EarlyStatements ==
  ASSUME AccessInv, NEW t \in Requests,
         \/ \E w \in Guests, c \in Doors, ref \in BOOLEAN : RedeemBegin(t, w, c, ref)
         \/ RedeemUse(t) \/ RedeemInsert(t) \/ RedeemBind(t)
  PROVE  AccessInv'
<1>1. /\ redeem[t] \in TxRec /\ door \in [Doors -> DoorRec] /\ NoTx \in TxRec
      /\ Granted(redeem[t]) /\ Granted(NoTx)
      /\ \A u \in Others(t) : u \in Requests /\ redeem[u] \in TxRec /\ Granted(redeem[u])
                              /\ Apart(redeem[t], redeem[u]) /\ Apart(NoTx, redeem[u])
      /\ redeem \in [Requests -> TxRec]
  BY DEF AccessInv, AccessType, NoTx, TxRec, Granted, HoldsUse, HoldsRow, Others, Apart
<1>2. ASSUME NEW x \in TxRec, redeem' = [redeem EXCEPT ![t] = x],
             UNCHANGED <<door, redeemed, referredBy>>, x.pc # "commit",
             Granted(x), \A u \in Others(t) : Apart(x, redeem[u])
      PROVE  AccessInv'
  <2>1. Capped(t)'
    BY <1>1, <1>2 DEF Capped
  <2> QED
    BY <1>2, <2>1, OwnStatement
<1>3. ASSUME Abort(t), UNCHANGED <<door, redeemed, referredBy>>
      PROVE  AccessInv'
  BY <1>1, <1>2, <1>3 DEF Abort, NoTx
<1>4. ASSUME NEW w \in Guests, NEW c \in Doors, NEW ref \in BOOLEAN, RedeemBegin(t, w, c, ref)
      PROVE  AccessInv'
  <2> DEFINE x == [NoTx EXCEPT !.pc = "use", !.wallet = w, !.code = c, !.ref = ref,
                               !.seenMax = door[c].max]
  <2>1. x \in TxRec /\ x.pc = "use" /\ x.wallet = w /\ x.code = c /\ x.seenMax = door[c].max
        /\ x.used = FALSE /\ x.row = FALSE /\ x.new = {}
    <3>1. door[c].max \in Nat
      BY <1>1 DEF DoorRec
    <3>2. NoTx.pc = "idle" /\ NoTx.used = FALSE /\ NoTx.row = FALSE /\ NoTx.new = {}
      BY DEF NoTx
    <3>3. x \in TxRec
      BY <1>1, <3>1 DEF TxRec
    <3>4. DOMAIN NoTx = {"pc", "wallet", "code", "used", "row", "referrer", "ref", "new",
                         "seenMax", "crowded"}
      BY DEF NoTx
    <3> QED
      BY <3>1, <3>2, <3>3, <3>4
  <2>2. redeem' = [redeem EXCEPT ![t] = x] /\ c \in Issued
        /\ UNCHANGED <<door, redeemed, referredBy>>
    BY <1>4 DEF RedeemBegin
  <2> HIDE DEF x
  <2>3. Granted(x) /\ \A u \in Others(t) : Apart(x, redeem[u])
    BY <2>1, <2>2 DEF Granted, Apart, HoldsUse, HoldsRow
  <2> QED
    BY <1>2, <2>1, <2>2, <2>3
<1>5. CASE RedeemUse(t)
  <2> DEFINE x == [redeem[t] EXCEPT !.pc = "insert", !.used = TRUE]
  <2>1. x \in TxRec /\ x.pc = "insert" /\ x.used = TRUE /\ x.row = redeem[t].row
        /\ x.wallet = redeem[t].wallet /\ x.code = redeem[t].code /\ x.new = redeem[t].new
        /\ x.seenMax = redeem[t].seenMax
    BY <1>1 DEF TxRec
  <2>2. /\ redeem[t].pc = "use" /\ UNCHANGED <<door, redeemed, referredBy>>
        /\ \A u \in Others(t) : ~(redeem[u].used /\ redeem[u].code = redeem[t].code)
        /\ \/ UseLeft(t) /\ redeem' = [redeem EXCEPT ![t].pc = "insert", ![t].used = TRUE]
           \/ Abort(t)
    BY <1>5 DEF RedeemUse
  <2>3. CASE UseLeft(t) /\ redeem' = [redeem EXCEPT ![t].pc = "insert", ![t].used = TRUE]
    <3>1. redeem' = [redeem EXCEPT ![t] = x]
      BY <1>1, <2>3
    <3> HIDE DEF x
    <3>2. Granted(x)
      BY <1>1, <2>1, <2>2, <2>3 DEF Granted, UseLeft, HoldsUse, HoldsRow
    <3>3. \A u \in Others(t) : Apart(x, redeem[u])
      BY <1>1, <2>1, <2>2 DEF Granted, Apart, HoldsRow
    <3> QED
      BY <1>2, <2>1, <2>2, <3>1, <3>2, <3>3
  <2> QED
    BY <1>3, <2>2, <2>3
<1>6. CASE RedeemInsert(t)
  <2> DEFINE x == [redeem[t] EXCEPT !.pc = "bind", !.row = TRUE]
  <2>1. x \in TxRec /\ x.pc = "bind" /\ x.row = TRUE /\ x.used = redeem[t].used
        /\ x.wallet = redeem[t].wallet /\ x.code = redeem[t].code /\ x.new = redeem[t].new
        /\ x.seenMax = redeem[t].seenMax
    BY <1>1 DEF TxRec
  <2>2. /\ redeem[t].pc = "insert" /\ UNCHANGED <<door, redeemed, referredBy>>
        /\ \A u \in Others(t) : ~(redeem[u].row /\ redeem[u].wallet = redeem[t].wallet)
        /\ \/ /\ redeemed[redeem[t].wallet] = NoDoor
              /\ redeem' = [redeem EXCEPT ![t].pc = "bind", ![t].row = TRUE]
           \/ Abort(t)
    BY <1>6 DEF RedeemInsert
  <2>3. CASE /\ redeemed[redeem[t].wallet] = NoDoor
             /\ redeem' = [redeem EXCEPT ![t].pc = "bind", ![t].row = TRUE]
    <3>1. redeem' = [redeem EXCEPT ![t] = x]
      BY <1>1, <2>3
    <3> HIDE DEF x
    <3>2. Granted(x)
      BY <1>1, <2>1, <2>2, <2>3 DEF Granted, HoldsUse, HoldsRow
    <3>3. \A u \in Others(t) : Apart(x, redeem[u])
      BY <1>1, <2>1, <2>2 DEF Granted, Apart, HoldsUse
    <3> QED
      BY <1>2, <2>1, <2>2, <3>1, <3>2, <3>3
  <2> QED
    BY <1>3, <2>2, <2>3
<1>7. CASE RedeemBind(t)
  <2> DEFINE ref == IF referredBy[redeem[t].wallet] = NoGuest THEN Referrer(t) ELSE NoGuest
             x == [redeem[t] EXCEPT !.pc = "quota", !.referrer = ref]
  <2>1. redeem[t].pc = "bind" /\ UNCHANGED <<door, redeemed, referredBy>>
        /\ redeem' = [redeem EXCEPT ![t].pc = "quota", ![t].referrer = ref]
    BY <1>7 DEF RedeemBind
  <2>2. redeem[t].wallet \in Guests /\ redeem[t].code \in Doors
    BY <1>1, <2>1 DEF Granted, Issued
  <2>3. ref \in Guests \cup {NoGuest} /\ ref # redeem[t].wallet
    BY <1>1, <2>2, AccessAssumption DEF Referrer, DoorRec
  <2>4. redeem' = [redeem EXCEPT ![t] = x]
    BY <1>1, <2>1
  <2> HIDE DEF ref
  <2>5. x \in TxRec /\ x.pc = "quota" /\ x.row = redeem[t].row /\ x.used = redeem[t].used
        /\ x.wallet = redeem[t].wallet /\ x.code = redeem[t].code /\ x.new = redeem[t].new
        /\ x.seenMax = redeem[t].seenMax /\ x.referrer = ref
    BY <1>1, <2>3 DEF TxRec
  <2> HIDE DEF x
  <2>6. Granted(x)
    BY <1>1, <2>1, <2>3, <2>5 DEF Granted, HoldsUse, HoldsRow
  <2>7. \A u \in Others(t) : Apart(x, redeem[u])
    BY <1>1, <2>1, <2>5 DEF Apart, HoldsUse, HoldsRow
  <2> QED
    BY <1>2, <2>1, <2>4, <2>5, <2>6, <2>7
<1> QED
  BY <1>4, <1>5, <1>6, <1>7

\* generateInviteCode yields as many codes as asked for, and nobody has them.
LEMMA FreshCodes ==
  ASSUME NEW n \in Nat, n <= Cardinality(Unused)
  PROVE  Fresh(n) \in SUBSET Unused /\ Cardinality(Fresh(n)) = n
<1>1. IsFiniteSet(Unused)
  BY AccessAssumption, FS_Difference DEF Unused
<1>2. \E T \in SUBSET Unused : Cardinality(T) = n
  BY <1>1, SubsetOfSize
<1> QED
  BY <1>2 DEF Fresh

\* The circulation counts uses left.
LEMMA CirculationNat ==
  ASSUME NEW kept, \A c \in Doors : kept[c].max - kept[c].uses \in Nat
  PROVE  Circulation(kept) \in Nat
  BY AccessAssumption, TotalNat DEF Circulation

\* What one more set of single-use codes adds to the circulation.
LEMMA GrantedCirculation ==
  ASSUME NEW old, NEW kept, NEW new \in SUBSET Doors,
         \A c \in Doors : old[c].max - old[c].uses \in Nat,
         \A c \in new : old[c].max - old[c].uses = 0 /\ kept[c].max - kept[c].uses = 1,
         \A c \in Doors \ new : kept[c] = old[c]
  PROVE  Circulation(kept) = Circulation(old) + Cardinality(new)
<1> DEFINE f == [c \in Doors |-> old[c].max - old[c].uses]
           g == [c \in Doors |-> kept[c].max - kept[c].uses]
<1>1. /\ DOMAIN f = Doors /\ DOMAIN g = Doors /\ \A c \in Doors : f[c] \in Nat
      /\ \A c \in new : f[c] = 0 /\ g[c] = 1
      /\ \A c \in Doors \ new : g[c] = f[c]
      /\ Circulation(old) = Total(f) /\ Circulation(kept) = Total(g)
  BY DEF Circulation
<1> HIDE DEF f, g
<1> QED
  BY <1>1, AccessAssumption, TotalOnes

\* The rows as t leaves them, code by code.
LEMMA DoorsAfter ==
  ASSUME AccessInv, NEW t \in Requests, redeem[t].pc \in {"quota", "commit"}, NEW c \in Doors
  PROVE  /\ c \in redeem[t].new => RedeemedDoor(t)[c].max = 1 /\ RedeemedDoor(t)[c].uses = 0
                                   /\ door[c].max = 0 /\ door[c].uses = 0
         /\ (c = redeem[t].code /\ c \notin redeem[t].new) =>
              /\ RedeemedDoor(t)[c].max = door[c].max
              /\ RedeemedDoor(t)[c].uses = door[c].uses + 1
              /\ door[c].uses < door[c].max
         /\ (c # redeem[t].code /\ c \notin redeem[t].new) => RedeemedDoor(t)[c] = door[c]
         /\ redeem[t].code \in Doors /\ redeem[t].code \notin redeem[t].new
         /\ RedeemedDoor(t)[c] \in DoorRec
<1>1. /\ Granted(redeem[t]) /\ redeem[t] \in TxRec /\ door[c] \in DoorRec
      /\ door[c].uses <= door[c].max /\ UsesAreRedemptions
  BY DEF AccessInv, AccessType, UsesAreRedemptions
<1>2. redeem[t].code \in Doors /\ redeem[t].code \notin redeem[t].new /\ redeem[t].wallet \in Guests
  BY <1>1 DEF Granted, Issued
<1>3. c \in redeem[t].new => door[c].max = 0
  BY <1>1 DEF Granted, Issued, DoorRec, TxRec
<1>4. door[c].uses \in Nat /\ door[c].max \in Nat
  BY <1>1 DEF DoorRec
<1>5. redeem[t].code = c => door[c].uses < door[c].max
  BY <1>1 DEF Granted, HoldsUse
<1> QED
  BY <1>1, <1>2, <1>3, <1>4, <1>5, SingleUse DEF RedeemedDoor, DoorRec

\* The quota: the codes handed out fit under the cap next to what is there.
LEMMA QuotaStatement ==
  ASSUME AccessInv, NEW t \in Requests, RedeemQuota(t)
  PROVE  AccessInv'
<1> DEFINE n == inviteGrantCount(Circulation(RedeemedDoor(t)))
           x == [redeem[t] EXCEPT !.pc = "commit", !.new = Fresh(n)]
<1>1. /\ redeem[t] \in TxRec /\ door \in [Doors -> DoorRec] /\ Granted(redeem[t])
      /\ \A u \in Others(t) : Granted(redeem[u]) /\ Apart(redeem[t], redeem[u])
      /\ redeem \in [Requests -> TxRec]
  BY DEF AccessInv, AccessType, Others
<1>2. /\ redeem[t].pc = "quota" /\ redeem[t].new = {}
      /\ \A u \in Others(t) : redeem[u].pc # "commit"
      /\ Cardinality(Unused) >= RedeemGrantCount
      /\ redeem' = [redeem EXCEPT ![t].pc = "commit", ![t].new = Fresh(n)]
      /\ UNCHANGED <<door, redeemed, referredBy>>
  BY <1>1 DEF RedeemQuota, QuotaFree, Granted
<1>3. redeem' = [redeem EXCEPT ![t] = x]
  BY <1>1, <1>2
<1> DEFINE old == RedeemedDoor(t)
<1>4. \A c \in Doors : old[c].max - old[c].uses \in Nat
  <2> TAKE c \in Doors
  <2>1. door[c].max \in Nat /\ door[c].uses \in Nat /\ door[c].uses <= door[c].max
    BY <1>1 DEF AccessInv, UsesAreRedemptions, DoorRec
  <2> QED
    BY <1>2, <2>1, DoorsAfter
<1>5. Circulation(old) \in Nat
  BY <1>4, CirculationNat
<1>6. n \in Nat /\ n <= Cardinality(Unused) /\ (n > 0 => Circulation(old) + n <= CirculationCap)
  <2>1. IsFiniteSet(Unused)
    BY AccessAssumption, FS_Difference DEF Unused
  <2>2. Cardinality(Unused) \in Nat
    BY <2>1, FS_CardinalityType
  <2> HIDE DEF old
  <2> QED
    BY <1>2, <1>5, <2>2, AccessAssumption DEF inviteGrantCount, old
<1> HIDE DEF n
<1>7. Fresh(n) \in SUBSET Unused /\ Cardinality(Fresh(n)) = n
  BY <1>6, FreshCodes
<1>8. Fresh(n) \subseteq Doors /\ Fresh(n) \cap Issued = {}
  BY <1>7 DEF Unused
<1>9. /\ x \in TxRec /\ x.pc = "commit" /\ x.new = Fresh(n) /\ x.wallet = redeem[t].wallet
      /\ x.code = redeem[t].code /\ x.used = redeem[t].used /\ x.row = redeem[t].row
      /\ x.seenMax = redeem[t].seenMax /\ x.referrer = redeem[t].referrer
  BY <1>1, <1>8 DEF TxRec
<1> HIDE DEF x
<1>10. Granted(x)
  BY <1>1, <1>2, <1>8, <1>9 DEF Granted, HoldsUse, HoldsRow
<1>11. \A u \in Others(t) : Apart(x, redeem[u])
  BY <1>1, <1>2, <1>9 DEF Apart, HoldsUse, HoldsRow
<1>12. redeem'[t] = x
  BY <1>1, <1>3
<1>13. Capped(t)'
  <2>1. /\ \A c \in Fresh(n) : old[c].max - old[c].uses = 0
        /\ \A c \in Fresh(n) : RedeemedDoor(t)'[c].max - RedeemedDoor(t)'[c].uses = 1
        /\ \A c \in Doors \ Fresh(n) : RedeemedDoor(t)'[c] = old[c]
    <3>1. \A c \in Fresh(n) : c \in Doors /\ door[c].max = 0 /\ door[c].uses = 0 /\ c # redeem[t].code
      <4> TAKE c \in Fresh(n)
      <4>1. c \in Doors /\ c \notin Issued /\ redeem[t].code \in Issued
        BY <1>1, <1>2, <1>8 DEF Granted
      <4>2. door[c].max \in Nat /\ door[c].uses \in Nat /\ door[c].uses <= door[c].max
        BY <1>1, <4>1 DEF AccessInv, UsesAreRedemptions, DoorRec
      <4> QED
        BY <4>1, <4>2 DEF Issued
    <3>2. RedeemedDoor(t)' =
            [c \in Doors |->
               IF c \in Fresh(n)
               THEN [max |-> INVITE_CODE_MAX_USES, uses |-> 0, owner |-> redeem[t].wallet]
               ELSE IF c = redeem[t].code THEN [door[c] EXCEPT !.uses = @ + 1]
               ELSE door[c]]
      BY <1>2, <1>9, <1>12 DEF RedeemedDoor
    <3>3. old = [c \in Doors |-> IF c = redeem[t].code THEN [door[c] EXCEPT !.uses = @ + 1]
                                 ELSE door[c]]
      BY <1>2 DEF RedeemedDoor
    <3> QED
      BY <3>1, <3>2, <3>3, SingleUse
  <2> HIDE DEF old
  <2>2. Circulation(RedeemedDoor(t)') = Circulation(old) + Cardinality(Fresh(n))
    BY <1>4, <1>8, <2>1, GrantedCirculation
  <2>3. Circulation(RedeemedDoor(t))' = Circulation(RedeemedDoor(t)')
    BY DEF Circulation
  <2>4. Fresh(n) # {} => n > 0
    <3>1. IsFiniteSet(Fresh(n))
      BY <1>8, AccessAssumption, FS_Subset
    <3> QED
      BY <1>6, <1>7, <3>1, FS_EmptySet
  <2> QED
    BY <1>6, <1>7, <1>9, <1>12, <2>2, <2>3, <2>4 DEF Capped
<1> QED
  BY <1>3, <1>2, <1>9, <1>10, <1>11, <1>13, OwnStatement

\* A request that ends, by an answer or an abort, leaves nothing held.
LEMMA RequestEnds ==
  ASSUME AccessInv, NEW t \in Requests, Abort(t), UNCHANGED <<door, redeemed, referredBy>>
  PROVE  AccessInv'
<1>1. NoTx \in TxRec /\ NoTx.pc = "idle" /\ Granted(NoTx)
      /\ \A u \in Others(t) : Apart(NoTx, redeem[u])
  BY DEF NoTx, TxRec, Granted, HoldsUse, HoldsRow, Apart
<1>2. redeem' = [redeem EXCEPT ![t] = NoTx]
  BY DEF Abort
<1>3. Capped(t)'
  BY <1>1, <1>2 DEF Capped, AccessInv, AccessType
<1> QED
  BY <1>1, <1>2, <1>3, OwnStatement

\* The commit: one more use, one more wallet in.
LEMMA CommitStatement ==
  ASSUME AccessInv, NEW t \in Requests, RedeemCommit(t)
  PROVE  AccessInv'
<1> DEFINE w == redeem[t].wallet
           k == redeem[t].code
<1>1. /\ redeem \in [Requests -> TxRec] /\ door \in [Doors -> DoorRec]
      /\ redeemed \in [Guests -> Doors \cup {NoDoor}]
      /\ referredBy \in [Guests -> Guests \cup {NoGuest}]
      /\ redeem[t] \in TxRec /\ Granted(redeem[t]) /\ redeem[t].pc = "commit"
  BY DEF AccessInv, AccessType, RedeemCommit
<1>2. /\ w \in Guests /\ k \in Doors /\ k \in Issued /\ k \notin redeem[t].new
      /\ redeemed[w] = NoDoor /\ redeem[t].referrer # w
      /\ redeem[t].new \cap Issued = {} /\ door[k].uses < door[k].max
  BY <1>1 DEF Granted, HoldsUse, HoldsRow, Issued
<1>3. CASE UNCHANGED <<door, redeemed, referredBy>> /\ Abort(t)
  BY <1>3, RequestEnds
<1>4. CASE /\ door' = RedeemedDoor(t) /\ redeemed' = [redeemed EXCEPT ![w] = k]
           /\ referredBy' = IF redeem[t].referrer = NoGuest THEN referredBy
                            ELSE [referredBy EXCEPT ![w] = redeem[t].referrer]
           /\ Abort(t)
  <2>1. \A u \in Requests : redeem'[u] = IF u = t THEN NoTx ELSE redeem[u]
    BY <1>1, <1>4 DEF Abort
  <2>2. NoTx \in TxRec /\ NoTx.pc = "idle" /\ NoTx.new = {} /\ ~NoTx.used /\ ~NoTx.row
    BY DEF NoTx, TxRec
  <2>3. /\ \A c \in redeem[t].new : c \in Doors /\ door'[c].max = 1 /\ door'[c].uses = 0
                                    /\ door[c].max = 0 /\ door[c].uses = 0
        /\ door'[k].max = door[k].max /\ door'[k].uses = door[k].uses + 1
        /\ \A c \in Doors \ redeem[t].new : c # k => door'[c] = door[c]
        /\ \A c \in Doors : door'[c] \in DoorRec
    BY <1>1, <1>2, <1>4, DoorsAfter DEF TxRec
  <2>4. AccessType'
    <3>1. door' \in [Doors -> DoorRec]
      BY <1>4, <2>3 DEF RedeemedDoor
    <3>2. redeemed' \in [Guests -> Doors \cup {NoDoor}]
      BY <1>1, <1>2, <1>4
    <3>3. referredBy' \in [Guests -> Guests \cup {NoGuest}]
      BY <1>1, <1>2, <1>4 DEF TxRec
    <3>4. redeem' \in [Requests -> TxRec]
      BY <1>1, <1>4, <2>2 DEF Abort
    <3> QED
      BY <3>1, <3>2, <3>3, <3>4 DEF AccessType
  <2>5. UsesAreRedemptions'
    <3> SUFFICES ASSUME NEW c \in Doors
                 PROVE  /\ door'[c].uses = Cardinality({v \in Guests : redeemed'[v] = c})
                        /\ door'[c].uses <= door'[c].max
      BY DEF UsesAreRedemptions
    <3> DEFINE before == {v \in Guests : redeemed[v] = c}
               after  == {v \in Guests : redeemed'[v] = c}
    <3>1. /\ door[c].uses = Cardinality(before) /\ door[c].uses <= door[c].max
          /\ door[c].uses \in Nat /\ door[c].max \in Nat /\ IsFiniteSet(before)
      BY <1>1, AccessAssumption, FS_Subset DEF AccessInv, UsesAreRedemptions, DoorRec
    <3>2. CASE c = k
      <4>1. after = before \cup {w} /\ w \notin before
        BY <1>1, <1>2, <1>4, <3>2, AccessAssumption
      <4>2. Cardinality(after) = Cardinality(before) + 1
        BY <3>1, <4>1, FS_AddElement
      <4> HIDE DEF before, after
      <4>3. door'[c].uses = Cardinality(after) /\ door'[c].uses <= door'[c].max
        BY <1>2, <2>3, <3>1, <3>2, <4>2
      <4> QED
        BY <4>3 DEF after
    <3>3. CASE c # k
      <4>1. after = before
        BY <1>1, <1>2, <1>4, <3>3, AccessAssumption
      <4> HIDE DEF before, after
      <4>2. door'[c].uses = Cardinality(after) /\ door'[c].uses <= door'[c].max
        BY <2>3, <3>1, <3>3, <4>1
      <4> QED
        BY <4>2 DEF after
    <3> QED
      BY <3>2, <3>3
  <2>6. NobodyReferredSelf'
    BY <1>1, <1>2, <1>4 DEF AccessInv, NobodyReferredSelf
  <2>7. ASSUME NEW u \in Requests PROVE Granted(redeem[u])'
    <3>1. CASE u = t
      BY <2>1, <2>2, <3>1 DEF Granted, HoldsUse, HoldsRow
    <3>2. CASE u # t
      <4>1. /\ redeem'[u] = redeem[u] /\ redeem[u] \in TxRec /\ Granted(redeem[u])
            /\ Apart(redeem[u], redeem[t])
        BY <1>1, <2>1, <3>2 DEF AccessInv
      <4>2. redeem[u].new = {} /\ redeem[u].pc # "commit"
        BY <1>1, <4>1 DEF Apart, Granted
      <4>3. redeem[u].pc # "idle" => /\ redeem[u].code \in Doors /\ redeem[u].code \in Issued
                                     /\ redeem[u].code \notin redeem[t].new
        BY <1>2, <4>1 DEF Granted, Issued
      <4>4. redeem[u].pc # "idle" => /\ redeem[u].code \in Issued'
                                     /\ door'[redeem[u].code].max = door[redeem[u].code].max
        BY <2>3, <4>3 DEF Issued
      <4>5. HoldsUse(redeem[u]) => door'[redeem[u].code].uses < door'[redeem[u].code].max
        BY <1>1, <2>3, <4>1, <4>3 DEF Granted, Apart, HoldsUse
      <4>6. HoldsRow(redeem[u]) => redeemed'[redeem[u].wallet] = NoDoor
        BY <1>1, <1>2, <1>4, <4>1 DEF Granted, Apart, HoldsRow
      <4> QED
        BY <4>1, <4>2, <4>4, <4>5, <4>6 DEF Granted, HoldsUse, HoldsRow
    <3> QED
      BY <3>1, <3>2
  <2>8. ASSUME NEW u \in Requests PROVE redeem'[u].pc # "commit"
    BY <1>1, <2>1, <2>2 DEF AccessInv, Apart
  <2>9. ASSUME NEW u \in Requests, NEW v \in Requests, u # v
        PROVE  Apart(redeem[u], redeem[v])'
    BY <2>1, <2>2, <2>9 DEF AccessInv, Apart, HoldsUse, HoldsRow
  <2> QED
    BY <2>4, <2>5, <2>6, <2>7, <2>8, <2>9 DEF AccessInv, Capped
<1> QED
  BY <1>3, <1>4 DEF RedeemCommit

\* POST /referrals/apply touches no code and no transaction.
LEMMA ApplyStatement ==
  ASSUME AccessInv, NEW w \in Guests, applyReferral(w)
  PROVE  AccessInv'
<1>1. AccessType' /\ NobodyReferredSelf'
  BY AccessAssumption DEF AccessInv, AccessType, NobodyReferredSelf, applyReferral
<1>2. \A t \in Requests : RedeemedDoor(t)' = RedeemedDoor(t)
  BY DEF applyReferral, RedeemedDoor
<1>3. ASSUME NEW t \in Requests PROVE Capped(t)'
  <2>1. Circulation(RedeemedDoor(t))' = Circulation(RedeemedDoor(t))
    BY <1>2 DEF Circulation
  <2> QED
    BY <2>1 DEF AccessInv, Capped, applyReferral
<1>4. UsesAreRedemptions'
  BY DEF AccessInv, UsesAreRedemptions, applyReferral
<1>5. \A t \in Requests : Granted(redeem[t])'
  BY DEF AccessInv, Granted, Issued, HoldsUse, HoldsRow, applyReferral
<1>6. \A t, u \in Requests : t # u => Apart(redeem[t], redeem[u])'
  BY DEF AccessInv, Apart, HoldsUse, HoldsRow, applyReferral
<1> QED
  BY <1>1, <1>3, <1>4, <1>5, <1>6 DEF AccessInv

\* An admin's codes are new ones, and whoever holds the lock is told of them.
LEMMA InvitesStatement ==
  ASSUME AccessInv, NEW owner \in {NoGuest, RefOwner}, createInvites(owner)
  PROVE  AccessInv'
<1> DEFINE k == CHOOSE c \in Fresh(1) : TRUE
           row == [max |-> DoorUses, uses |-> 0, owner |-> owner]
<1>1. /\ redeem \in [Requests -> TxRec] /\ door \in [Doors -> DoorRec]
      /\ \A t \in Requests : Granted(redeem[t])
  BY DEF AccessInv, AccessType
<1>2. Cardinality(Unused) >= 1
  <2>1. IsFiniteSet(Unused)
    BY AccessAssumption, FS_Difference DEF Unused
  <2>2. Cardinality(Unused) \in Nat /\ Cardinality(Requests) \in Nat
    BY <2>1, AccessAssumption, FS_CardinalityType
  <2>3. RedeemGrantCount * Cardinality(Requests) \in Nat
    BY <2>2, AccessAssumption
  <2> QED
    BY <2>2, <2>3 DEF createInvites
<1>3. k \in Unused
  <2>1. Fresh(1) \in SUBSET Unused /\ Cardinality(Fresh(1)) = 1
    BY <1>2, FreshCodes
  <2>2. Fresh(1) # {}
    BY <2>1, FS_EmptySet
  <2> QED
    BY <2>1, <2>2
<1>4. k \in Doors /\ k \notin Issued /\ \A t \in Requests : k \notin redeem[t].new
  BY <1>3 DEF Unused
<1>5. door' = [door EXCEPT ![k] = row] /\ UNCHANGED <<redeemed, referredBy>>
      /\ redeem' = [t \in Requests |->
           IF redeem[t].pc = "commit" THEN [redeem[t] EXCEPT !.crowded = TRUE] ELSE redeem[t]]
  BY DEF createInvites
<1> HIDE DEF k
<1>6. door'[k].max = DoorUses /\ door'[k].uses = 0 /\ door'[k] \in DoorRec
      /\ \A c \in Doors \ {k} : door'[c] = door[c]
  BY <1>1, <1>4, <1>5, AccessAssumption DEF DoorRec
<1>7. \A t \in Requests :
        /\ redeem'[t] \in TxRec /\ redeem'[t].pc = redeem[t].pc /\ redeem'[t].wallet = redeem[t].wallet
        /\ redeem'[t].code = redeem[t].code /\ redeem'[t].used = redeem[t].used
        /\ redeem'[t].row = redeem[t].row /\ redeem'[t].referrer = redeem[t].referrer
        /\ redeem'[t].new = redeem[t].new /\ redeem'[t].seenMax = redeem[t].seenMax
        /\ redeem'[t].pc = "commit" => redeem'[t].crowded
  BY <1>1, <1>5 DEF TxRec
<1>8. AccessType'
  BY <1>1, <1>4, <1>5, <1>6, <1>7 DEF AccessInv, AccessType
<1>9. Issued \subseteq Issued' /\ Issued' \subseteq Issued \cup {k}
  BY <1>1, <1>4, <1>6 DEF Issued
<1>10. UsesAreRedemptions'
  <2> SUFFICES ASSUME NEW c \in Doors
               PROVE  /\ door'[c].uses = Cardinality({v \in Guests : redeemed[v] = c})
                      /\ door'[c].uses <= door'[c].max
    BY <1>5 DEF UsesAreRedemptions
  <2>1. /\ door[c].uses = Cardinality({v \in Guests : redeemed[v] = c})
        /\ door[c].uses <= door[c].max /\ door[c].uses \in Nat /\ door[c].max \in Nat
    BY <1>1 DEF AccessInv, UsesAreRedemptions, DoorRec
  <2>2. c = k => door[c].max = 0
    BY <1>4, <2>1 DEF Issued
  <2> QED
    BY <1>6, <2>1, <2>2, AccessAssumption
<1>11. ASSUME NEW t \in Requests PROVE Granted(redeem[t])' /\ Capped(t)'
  <2>1. redeem[t].pc # "idle" => /\ redeem[t].code \in Issued' /\ redeem[t].code # k
                                 /\ door'[redeem[t].code] = door[redeem[t].code]
    BY <1>1, <1>4, <1>6, <1>9 DEF Granted, Issued
  <2>2. redeem[t].new \cap Issued' = {}
    BY <1>1, <1>4, <1>9 DEF Granted
  <2>3. Granted(redeem[t])'
    BY <1>1, <1>5, <1>7, <2>1, <2>2 DEF Granted, HoldsUse, HoldsRow
  <2> QED
    BY <1>7, <2>3 DEF Capped
<1>12. \A t, u \in Requests : t # u => Apart(redeem[t], redeem[u])'
  BY <1>7 DEF AccessInv, Apart, HoldsUse, HoldsRow
<1>13. NobodyReferredSelf'
  BY <1>5 DEF AccessInv, NobodyReferredSelf
<1> QED
  BY <1>8, <1>10, <1>11, <1>12, <1>13 DEF AccessInv

\* Every step of a redemption or of an admin keeps what the others rely on.
LEMMA NextAccess ==
  ASSUME AccessInv, [AccessNext]_accessVars
  PROVE  AccessInv'
<1>1. CASE UNCHANGED accessVars
  <2>1. \A t \in Requests : RedeemedDoor(t)' = RedeemedDoor(t)
    BY <1>1 DEF accessVars, RedeemedDoor
  <2>2. \A t \in Requests : Circulation(RedeemedDoor(t))' = Circulation(RedeemedDoor(t))
    BY <2>1 DEF Circulation
  <2>3. \A t \in Requests : Capped(t)'
    BY <1>1, <2>2 DEF AccessInv, Capped, accessVars
  <2>4. AccessType' /\ UsesAreRedemptions' /\ NobodyReferredSelf'
    BY <1>1 DEF AccessInv, AccessType, UsesAreRedemptions, NobodyReferredSelf, accessVars
  <2>5. \A t \in Requests : Granted(redeem[t])'
    BY <1>1 DEF AccessInv, Granted, HoldsUse, HoldsRow, Issued, accessVars
  <2>6. \A t, u \in Requests : t # u => Apart(redeem[t], redeem[u])'
    BY <1>1 DEF AccessInv, Apart, HoldsUse, HoldsRow, accessVars
  <2> QED
    BY <2>3, <2>4, <2>5, <2>6 DEF AccessInv
<1> QED
  BY <1>1, EarlyStatements, QuotaStatement, CommitStatement, ApplyStatement, InvitesStatement
  DEF AccessNext

\* Nobody has redeemed and nothing is under way when the doors open.
LEMMA InitAccess == AccessInit => AccessInv
<1> SUFFICES ASSUME AccessInit PROVE AccessInv
  OBVIOUS
<1>1. NoTx \in TxRec /\ NoTx.pc = "idle" /\ Granted(NoTx)
  BY DEF NoTx, TxRec, Granted, HoldsUse, HoldsRow
<1>2. \A c \in Doors : /\ door[c].uses = 0 /\ door[c].max \in Nat /\ door[c].owner = NoGuest
                       /\ door[c] \in DoorRec
  BY AccessAssumption DEF AccessInit, DoorRec
<1>3. UsesAreRedemptions
  <2>1. \A c \in Doors : {w \in Guests : redeemed[w] = c} = {}
    BY AccessAssumption DEF AccessInit
  <2> QED
    BY <1>2, <2>1, FS_EmptySet DEF UsesAreRedemptions
<1>4. AccessType
  BY <1>1, <1>2 DEF AccessInit, AccessType
<1> QED
  BY <1>1, <1>3, <1>4, AccessAssumption
  DEF AccessInv, AccessInit, NobodyReferredSelf, Capped, Apart, HoldsUse, HoldsRow

\* Who commits with the quota's lock in hand stays under the cap, and nobody
\* else commits.
LEMMA QuotaStep ==
  ASSUME AccessInv, AccessNext
  PROVE  QuotaKept
<1> SUFFICES ASSUME NEW t \in Requests, redeem[t].pc = "commit", redeem[t].new # {},
                    ~redeem[t].crowded, door' # door, redeem'[t].pc = "idle"
             PROVE  Circulation(door') <= CirculationCap
  BY DEF QuotaKept
<1>1. redeem \in [Requests -> TxRec] /\ Capped(t)
      /\ \A u \in Requests : u # t => redeem[u].pc # "commit"
  BY DEF AccessInv, AccessType, Apart
<1>2. \A owner \in {NoGuest, RefOwner} : ~createInvites(owner)
  BY <1>1 DEF createInvites, TxRec
<1>3. PICK u \in Requests : RedeemCommit(u)
  BY <1>2 DEF AccessNext, RedeemBegin, RedeemUse, RedeemInsert, RedeemBind, RedeemQuota,
              applyReferral
<1>4. u = t
  BY <1>1, <1>3 DEF RedeemCommit
<1> QED
  BY <1>1, <1>3, <1>4 DEF RedeemCommit, Capped

\* A referrer once bound is never replaced: the insert that loses the race
\* fails, and its whole transaction with it.
LEMMA ReferrerStep ==
  ASSUME AccessInv, AccessInv', AccessNext
  PROVE  ReferrerStays
<1>1. referredBy \in [Guests -> Guests \cup {NoGuest}]
  BY DEF AccessInv, AccessType
<1>2. ASSUME NEW w \in Guests, referredBy[w] # NoGuest PROVE referredBy'[w] = referredBy[w]
  <2>1. CASE \E t \in Requests : RedeemCommit(t)
    BY <1>1, <1>2, <2>1 DEF RedeemCommit
  <2>2. CASE \E v \in Guests : applyReferral(v)
    BY <1>1, <1>2, <2>2 DEF applyReferral
  <2> QED
    BY <2>1, <2>2 DEF AccessNext, RedeemBegin, RedeemUse, RedeemInsert, RedeemBind, RedeemQuota,
              createInvites
<1> QED
  BY <1>2 DEF ReferrerStays, AccessInv, NobodyReferredSelf

\* Redemptions (access.controller.ts): for any number of wallets, codes and
\* requests in flight, every use spent let exactly one wallet in, the codes
\* handed out stay under the circulation cap, and a referrer never changes.
THEOREM RedemptionsHold == AccessSpec => CodesHonoured
<1>1. AccessInv /\ [AccessNext]_accessVars => AccessInv'
  BY NextAccess
<1>2. AccessInv /\ AccessInv' /\ [AccessNext]_accessVars
        => [UsesAreRedemptions' /\ QuotaKept /\ ReferrerStays]_accessVars
  BY QuotaStep, ReferrerStep DEF AccessInv
<1> QED
  BY <1>1, <1>2, InitAccess, PTL DEF AccessSpec, CodesHonoured

-----------------------------------------------------------------------------
(* The faucet: what a claim row and a request under way say of the chain.  *)

FaucetRequest ==
  [owner: Claimants \cup {"none"}, at: Int,
   step: {"none", "asked", "refused", "minting", "claiming"}]

FaucetType ==
  /\ faucetTime \in Nat
  /\ lastClaimAt \in [Claimants -> Int]
  /\ received \in [Claimants -> Int] /\ skipped \in [Claimants -> Int]
  /\ request \in [FaucetCalls -> FaucetRequest]

\* What a request's row says: a wallet that asked by now, and at each step what
\* the mints that ran make of it.
RequestTrue(x) ==
  /\ x.step # "none" => x.owner \in Claimants /\ x.at \in Nat /\ x.at <= faucetTime
  /\ x.step = "claiming" => RanSince(x.owner, x.at)
  /\ x.step = "refused" => RanSince(x.owner, x.at - ClaimInterval + 1)

\* A claim row is never later than the last mint that ran.
FaucetInv ==
  /\ FaucetType
  /\ \A o \in Claimants : /\ RanSince(o, lastClaimAt[o]) /\ lastClaimAt[o] >= NeverClaimed
                          /\ received[o] <= faucetTime /\ skipped[o] <= faucetTime
  /\ \A r \in FaucetCalls : RequestTrue(request[r])

\* No action of the faucet breaks what the rows say.
LEMMA FaucetStep == FaucetInv /\ [FaucetNext]_faucetVars => FaucetInv'
<1> SUFFICES ASSUME FaucetInv, [FaucetNext]_faucetVars PROVE FaucetInv'
  OBVIOUS
<1> USE FaucetAssumption DEF NeverClaimed, RanSince
<1>1. CASE FaucetSecond
  BY <1>1 DEF FaucetSecond, FaucetInv, FaucetType, FaucetRequest, RequestTrue
<1>2. CASE FaucetCrash
  BY <1>2 DEF FaucetCrash, FaucetInv, FaucetType, FaucetRequest, RequestTrue, NoRequest
<1>3. ASSUME NEW r \in FaucetCalls, NEW o \in Claimants, parseOwner(r, o) PROVE FaucetInv'
  BY <1>3 DEF parseOwner, FaucetInv, FaucetType, FaucetRequest, RequestTrue
<1>4. ASSUME NEW r \in FaucetCalls, findClaim(r) PROVE FaucetInv'
  <2>1. ASSUME TooSoon(r), request[r].step = "asked"
        PROVE RanSince(request[r].owner, request[r].at - ClaimInterval + 1)
    BY <2>1 DEF TooSoon, FaucetInv, FaucetType, FaucetRequest, RequestTrue
  <2>2. request'[r].step = "refused" => TooSoon(r)
    BY <1>4 DEF findClaim, FaucetInv, FaucetType
  <2>3. RequestTrue(request[r])'
    <3>1. /\ request'[r].owner = request[r].owner /\ request'[r].at = request[r].at
          /\ request'[r].step \in {"refused", "minting"} /\ request[r].step = "asked"
      BY <1>4 DEF findClaim, FaucetInv, FaucetType
    <3>2. UNCHANGED <<faucetTime, received, skipped>>
      BY <1>4 DEF findClaim
    <3>. QED BY <2>1, <2>2, <3>1, <3>2 DEF FaucetInv, RequestTrue
  <2>4. ASSUME NEW s \in FaucetCalls, s # r PROVE RequestTrue(request[s])'
    <3>1. request'[s] = request[s] /\ UNCHANGED <<faucetTime, received, skipped>>
      BY <1>4, <2>4 DEF findClaim, FaucetInv, FaucetType
    <3>. QED BY <3>1 DEF FaucetInv, RequestTrue
  <2>5. request' \in [FaucetCalls -> FaucetRequest]
    BY <1>4 DEF findClaim, FaucetInv, FaucetType, FaucetRequest
  <2>. QED BY <1>4, <2>3, <2>4, <2>5 DEF findClaim, FaucetInv, FaucetType
<1>5. ASSUME NEW r \in FaucetCalls, NEW outcome \in Outcomes, mintTo(r, outcome) PROVE FaucetInv'
  <2> DEFINE o == request[r].owner
  <2>1. /\ o \in Claimants /\ request[r].at \in Nat /\ request[r].at <= faucetTime
        /\ request[r].step = "minting" /\ faucetTime' = faucetTime
    BY <1>5 DEF mintTo, FaucetInv, RequestTrue
  <2>2. /\ received' \in [Claimants -> Int] /\ skipped' \in [Claimants -> Int]
        /\ \A p \in Claimants : /\ received'[p] >= received[p] /\ received'[p] <= faucetTime
                                /\ skipped'[p] >= skipped[p] /\ skipped'[p] <= faucetTime
        /\ MintTold(outcome) => received'[o] = faucetTime \/ skipped'[o] = faucetTime
    BY <1>5, <2>1 DEF mintTo, FaucetInv, FaucetType, MintLanded, MintTold
  <2>3. \/ request' = [request EXCEPT ![r] = NoRequest]
        \/ MintTold(outcome) /\ request' = [request EXCEPT ![r].step = "claiming"]
    BY <1>5 DEF mintTo, Claimed
  <2> HIDE DEF MintTold
  <2>4. RequestTrue(request[r])'
    BY <2>1, <2>2, <2>3 DEF FaucetInv, FaucetType, FaucetRequest, RequestTrue, NoRequest
  <2>5. ASSUME NEW p \in Claimants, NEW t \in Int, RanSince(p, t) PROVE RanSince(p, t)'
    BY <2>2, <2>5 DEF FaucetInv, FaucetType
  <2>6. ASSUME NEW s \in FaucetCalls, s # r PROVE RequestTrue(request[s])'
    <3>1. request'[s] = request[s]
      BY <2>3, <2>6 DEF FaucetInv, FaucetType
    <3>2. RequestTrue(request[s]) /\ request[s] \in FaucetRequest
      BY DEF FaucetInv, FaucetType
    <3>. QED BY <2>1, <2>2, <3>1, <3>2 DEF FaucetInv, FaucetType, FaucetRequest, RequestTrue
  <2>7. request' \in [FaucetCalls -> FaucetRequest]
    BY <2>3 DEF FaucetInv, FaucetType, FaucetRequest, NoRequest, NeverClaimed
  <2>8. \A p \in Claimants : RanSince(p, lastClaimAt[p])' /\ lastClaimAt'[p] >= NeverClaimed
    BY <1>5, <2>2 DEF mintTo, FaucetInv, FaucetType
  <2>. QED BY <1>5, <2>1, <2>2, <2>4, <2>6, <2>7, <2>8 DEF mintTo, FaucetInv, FaucetType
<1>6. ASSUME NEW r \in FaucetCalls, upsertClaim(r) PROVE FaucetInv'
  BY <1>6 DEF upsertClaim, FaucetInv, FaucetType, FaucetRequest, RequestTrue, NoRequest
<1>7. ASSUME NEW r \in FaucetCalls, AnswerRead(r) PROVE FaucetInv'
  BY <1>7 DEF AnswerRead, FaucetInv, FaucetType, FaucetRequest, RequestTrue, NoRequest
<1>8. CASE UNCHANGED faucetVars
  BY <1>8 DEF faucetVars, FaucetInv, FaucetType, FaucetRequest, RequestTrue
<1>. QED BY <1>1, <1>2, <1>3, <1>4, <1>5, <1>6, <1>7, <1>8 DEF FaucetNext

\* faucet.controller.ts: neither a failed send, nor a crash, nor a slow request
\* that writes its older time last makes a wallet wait for nothing: for whoever
\* is told to wait a mint ran within the interval. It landed, unless it was
\* taken from a status merely processed and was skipped.
THEOREM RefusalsHold == FaucetSpec => []RefusedOnlyIfRan
<1>1. FaucetInit => FaucetInv
  BY DEF FaucetInit, FaucetInv, FaucetType, FaucetRequest, RequestTrue, NoRequest, NeverClaimed, RanSince
<1>2. FaucetInv => RefusedOnlyIfRan
  BY DEF FaucetInv, RequestTrue, RefusedOnlyIfRan
<1>. QED BY <1>1, <1>2, FaucetStep, PTL DEF FaucetSpec

-----------------------------------------------------------------------------
(* The waitlist: what an instance's memoised schema says of the table.     *)

Visit == [email: Emails \cup {NoEmail}, step: {"none", "signup", "answer"}, attempt: Nat]

WaitlistType ==
  /\ DOMAIN rows \subseteq Emails /\ \A e \in DOMAIN rows : rows[e] \in Codes \cup {NoCode}
  /\ ready \in [Instances -> {"no", "filling", "yes"}]
  /\ missing \in [Instances -> SUBSET Emails]
  /\ visit \in [Instances -> Visit]
  /\ \A i \in Instances : visit[i].step = "signup" => visit[i].email \in Emails
  /\ given \in [Emails -> SUBSET Codes]

\* The rows without a code are among those an instance still has to backfill,
\* and a schema that is ready has none.
Backfilling(i) ==
  /\ missing[i] \subseteq DOMAIN rows
  /\ \A e \in DOMAIN rows : rows[e] = NoCode =>
       /\ ready[i] # "yes"
       /\ ready[i] = "filling" => e \in missing[i]

WaitlistInv ==
  /\ WaitlistType
  /\ \A i \in Instances : Backfilling(i)
  /\ GivenCodeKept

\* A code is given to a row that has none, or the row has raced.
LEMMA BackfillStep ==
  ASSUME WaitlistInv, NEW i \in Instances, NEW e \in Emails, NEW code \in Codes, Backfill(i, e, code)
  PROVE  WaitlistInv'
<1> USE WaitlistAssumption
<1>1. e \in DOMAIN rows /\ DOMAIN rows' = DOMAIN rows /\ rows'[e] = code
      /\ \A f \in DOMAIN rows : f # e => rows'[f] = rows[f]
  BY DEF Backfill, WaitlistInv, Backfilling
<1>2. missing'[i] = missing[i] \ {e} /\ \A j \in Instances : j # i => missing'[j] = missing[j]
  BY DEF Backfill, WaitlistInv, WaitlistType
<1>3. WaitlistType'
  BY <1>1 DEF Backfill, WaitlistInv, WaitlistType
<1>4. ASSUME NEW j \in Instances PROVE Backfilling(j)'
  BY <1>1, <1>2 DEF Backfill, WaitlistInv, Backfilling
<1>5. GivenCodeKept'
  <2> SUFFICES ASSUME NEW f \in Emails, f \notin raced', NEW c \in given'[f]
               PROVE f \in DOMAIN rows' /\ rows'[f] = c
    BY DEF GivenCodeKept
  <2>1. raced \subseteq raced' /\ given' = given
    BY DEF Backfill
  <2>2. f \in DOMAIN rows /\ rows[f] = c /\ c \in Codes
    BY <2>1 DEF WaitlistInv, GivenCodeKept, WaitlistType
  <2>3. f # e
    BY <2>2 DEF Backfill
  <2>. QED BY <1>1, <2>2, <2>3
<1>. QED BY <1>3, <1>4, <1>5 DEF WaitlistInv

\* A signup inserts a fresh code, or is answered the one the row has.
LEMMA SignupStep ==
  ASSUME WaitlistInv, NEW i \in Instances, NEW code \in Codes, Signup(i, code)
  PROVE  WaitlistInv'
<1> DEFINE e == visit[i].email
           kept == IF e \in DOMAIN rows THEN rows[e] ELSE code
<1> USE WaitlistAssumption
<1>1. e \in Emails /\ ready[i] = "yes" /\ UNCHANGED <<ready, missing, raced>>
  BY DEF Signup, WaitlistInv, WaitlistType
<1>2. kept \in Codes
  BY <1>1 DEF WaitlistInv, WaitlistType, Backfilling
<1>3. CASE UNCHANGED <<rows, given>>
  <2>1. visit' = [visit EXCEPT ![i].attempt = @ + 1] \/ visit' = [visit EXCEPT ![i] = NoVisit]
    BY DEF Signup
  <2>2. visit' \in [Instances -> Visit]
        /\ \A j \in Instances : visit'[j].step = "signup" => visit'[j].email \in Emails
    <3>1. CASE visit' = [visit EXCEPT ![i].attempt = @ + 1]
      <4>1. [visit[i] EXCEPT !.attempt = @ + 1] \in Visit
            /\ [visit[i] EXCEPT !.attempt = @ + 1].email = e
        BY DEF WaitlistInv, WaitlistType, Visit
      <4>. QED BY <1>1, <3>1, <4>1 DEF WaitlistInv, WaitlistType
    <3>2. CASE visit' = [visit EXCEPT ![i] = NoVisit]
      BY <3>2 DEF WaitlistInv, WaitlistType, Visit, NoVisit
    <3>. QED BY <2>1, <3>1, <3>2
  <2>. QED BY <1>1, <1>3, <2>2 DEF WaitlistInv, WaitlistType, Backfilling, GivenCodeKept
<1>4. CASE /\ rows' = [f \in DOMAIN rows \cup {e} |-> IF f = e THEN kept ELSE rows[f]]
           /\ given' = [given EXCEPT ![e] = @ \cup {kept}]
           /\ visit' = [visit EXCEPT ![i] = NoVisit]
  <2> HIDE DEF kept
  <2>1. WaitlistType'
    BY <1>1, <1>2, <1>4 DEF WaitlistInv, WaitlistType, Visit, NoVisit
  <2>2. ASSUME NEW j \in Instances PROVE Backfilling(j)'
    BY <1>1, <1>2, <1>4 DEF WaitlistInv, Backfilling
  <2>3. e \in DOMAIN rows => rows[e] = kept
    BY DEF kept
  <2>4. GivenCodeKept'
    BY <1>1, <1>4, <2>3 DEF WaitlistInv, WaitlistType, GivenCodeKept
  <2>. QED BY <2>1, <2>2, <2>4 DEF WaitlistInv
<1>5. \/ UNCHANGED <<rows, given>>
      \/ /\ rows' = [f \in DOMAIN rows \cup {e} |-> IF f = e THEN kept ELSE rows[f]]
         /\ given' = [given EXCEPT ![e] = @ \cup {kept}]
         /\ visit' = [visit EXCEPT ![i] = NoVisit]
  BY DEF Signup, OnConflict
<1>. QED BY <1>3, <1>4, <1>5

\* No step of the route breaks what the table holds.
LEMMA WaitlistStep == WaitlistInv /\ [WaitlistNext]_waitlistVars => WaitlistInv'
<1> SUFFICES ASSUME WaitlistInv, [WaitlistNext]_waitlistVars PROVE WaitlistInv'
  OBVIOUS
<1> USE DEF WaitlistInv, WaitlistType, Backfilling, GivenCodeKept
<1>1. ASSUME NEW i \in Instances, NEW e \in Emails, NEW step \in {"signup", "answer"}, handler(i, e, step)
      PROVE WaitlistInv'
  BY <1>1 DEF handler, Visit
<1>2. ASSUME NEW i \in Instances, ensureSchema(i) PROVE WaitlistInv'
  BY <1>2 DEF ensureSchema
<1>3. ASSUME NEW i \in Instances, SchemaReady(i) PROVE WaitlistInv'
  BY <1>3 DEF SchemaReady
<1>4. ASSUME NEW i \in Instances, handlerFails(i) PROVE WaitlistInv'
  BY <1>4 DEF handlerFails, Visit, NoVisit
<1>5. ASSUME NEW i \in Instances, answerQuestion(i) PROVE WaitlistInv'
  BY <1>5 DEF answerQuestion, Visit, NoVisit
<1>6. CASE UNCHANGED waitlistVars
  BY <1>6 DEF waitlistVars
<1>. QED BY <1>1, <1>2, <1>3, <1>4, <1>5, <1>6, BackfillStep, SignupStep DEF WaitlistNext

\* waitlist.js: "a repeat signup returns the original row (and its original
\* code)": a code answered to a visitor stays that signup's code, through
\* instances that backfill and insert at once, unless its row was raced.
THEOREM CodesKept == WaitlistSpec => []GivenCodeKept
<1>1. WaitlistInit => WaitlistInv
  BY WaitlistAssumption
     DEF WaitlistInit, WaitlistInv, WaitlistType, Backfilling, GivenCodeKept, Visit, NoVisit
<1>2. WaitlistInv => GivenCodeKept
  BY DEF WaitlistInv
<1>. QED BY <1>1, <1>2, WaitlistStep, PTL DEF WaitlistSpec

-----------------------------------------------------------------------------
(* The shared chain reads: what the cached read and every waiting request   *)
(* know of the reads begun before.                                          *)

Reading ==
  [at: Nat, state: {"running", "ok", "failed"}, seen: Int, value: Int,
   observedAt: Int]
Call == [kind: Kinds \cup {"none"}, read: Nat, since: Nat]

CacheType ==
  /\ wall \in Nat /\ chain \in Nat
  /\ reads \in [Kinds -> Seq(Reading)]
  /\ slot \in [Kinds -> Nat]
  /\ caller \in [Callers -> Call] /\ served \in Int

\* The chain's clock is within the drift behind wall time, and nothing ahead of
\* wall time was served.
ClocksApart == chain <= wall /\ wall - chain <= MaxDrift /\ served <= wall

\* A reading lies between its beginning and now, says what the chain's clock
\* was then, and is in once it is dated.
TrueAt(r, now) ==
  /\ r.at <= now
  /\ r.state = "running" => now <= r.at + Latency
  /\ \/ r.seen = -1
     \/ /\ r.at <= r.seen /\ r.seen <= now
        /\ r.value <= r.seen /\ r.seen - r.value <= MaxDrift
  /\ r.state = "ok" =>
       /\ r.seen # -1 /\ r.seen <= r.observedAt
       /\ r.observedAt <= now /\ r.observedAt <= r.at + Latency

ReadingTrue(r) == TrueAt(r, wall)

\* Only the last read begun is ever cached; without one, the last has failed.
LastCached(k) ==
  /\ slot[k] \in {0, Len(reads[k])}
  /\ slot[k] = 0 => Len(reads[k]) = 0 \/ reads[k][Len(reads[k])].state = "failed"

\* A request waits for a read begun no earlier than a TTL before it asked.
Waiting(c) ==
  caller[c] # NoCall =>
    /\ caller[c].kind \in Kinds
    /\ caller[c].read \in 1..Len(reads[caller[c].kind])
    /\ caller[c].since - Ttl <= reads[caller[c].kind][caller[c].read].at

InOrder(k) ==
  \A i, j \in 1..Len(reads[k]) :
    i < j => /\ reads[k][i].at <= reads[k][j].at
             /\ reads[k][j].at - reads[k][i].at <= Ttl => reads[k][i].state = "failed"

CacheInv ==
  /\ CacheType /\ ClocksApart
  /\ \A k \in Kinds : LastCached(k) /\ InOrder(k) /\ \A i \in 1..Len(reads[k]) : ReadingTrue(reads[k][i])
  /\ \A c \in Callers : Waiting(c)

\* A request that finds nothing to join begins a read: the last one failed or
\* is older than the TTL.
LEMMA AskStep ==
  ASSUME CacheInv, NEW c \in Callers, NEW k \in Kinds, Ask(c, k)
  PROVE  CacheInv'
<1> USE ReadCacheAssumption
<1> DEFINE n == Len(reads[k])
<1>0. n \in Nat /\ reads[k] \in Seq(Reading)
  BY LenProperties DEF CacheInv, CacheType
<1>1. CASE Usable(k)
  <2>1. /\ caller' = [caller EXCEPT ![c] = [kind |-> k, read |-> slot[k], since |-> wall]]
        /\ UNCHANGED <<reads, slot, wall, chain, served>>
    BY <1>1 DEF Ask
  <2>2. slot[k] = n /\ n \in 1..n /\ wall - reads[k][n].at <= Ttl
    BY <1>0, <1>1 DEF Usable, CacheInv, LastCached
  <2>3. CacheType'
    BY <2>1 DEF CacheInv, CacheType, Call
  <2>4. reads[k][n] \in Reading
    BY <1>0, <2>2, ElementOfSeq
  <2>5. ASSUME NEW d \in Callers PROVE Waiting(d)'
    <3>1. CASE d = c
      <4>1. caller'[d] = [kind |-> k, read |-> n, since |-> wall]
        BY <2>1, <2>2, <3>1 DEF CacheInv, CacheType
      <4>2. wall - Ttl <= reads[k][n].at
        BY <2>2, <2>4 DEF Reading, CacheInv, CacheType
      <4>. QED BY <2>1, <2>2, <4>1, <4>2 DEF Waiting
    <3>2. CASE d # c
      <4>1. caller'[d] = caller[d]
        BY <2>1, <3>2 DEF CacheInv, CacheType
      <4>. QED BY <2>1, <4>1 DEF CacheInv, Waiting
    <3>. QED BY <3>1, <3>2
  <2>. QED BY <2>1, <2>3, <2>5 DEF CacheInv, ClocksApart, LastCached, InOrder, ReadingTrue
<1>2. CASE ~Usable(k)
  <2> DEFINE rs == Append(reads[k], NewRead)
  <2>1. /\ reads' = [reads EXCEPT ![k] = rs] /\ slot' = [slot EXCEPT ![k] = n + 1]
        /\ caller' = [caller EXCEPT ![c] = [kind |-> k, read |-> n + 1, since |-> wall]]
        /\ UNCHANGED <<wall, chain, served>>
    BY <1>2 DEF Ask
  <2>2. NewRead \in Reading /\ wall \in Nat
    BY DEF NewRead, Reading, CacheInv, CacheType
  <2>3. /\ rs \in Seq(Reading) /\ Len(rs) = n + 1 /\ rs[n + 1] = NewRead
        /\ \A i \in 1..n : rs[i] = reads[k][i] /\ rs[i] \in Reading
    BY <1>0, <2>2, AppendProperties, ElementOfSeq
  <2>4. /\ reads'[k] = rs /\ slot'[k] = n + 1
        /\ \A l \in Kinds : l # k => reads'[l] = reads[l] /\ slot'[l] = slot[l]
    BY <2>1 DEF CacheInv, CacheType
  <2>5. CacheType'
    <3>1. [kind |-> k, read |-> n + 1, since |-> wall] \in Call
      BY <1>0, <2>2 DEF Call
    <3>. HIDE DEF rs
    <3>. QED BY <1>0, <2>1, <2>3, <3>1 DEF CacheInv, CacheType
  <2> HIDE DEF rs
  <2>6. n # 0 => reads[k][n].state = "failed" \/ ~(wall - reads[k][n].at <= Ttl)
    BY <1>0, <1>2 DEF Usable, CacheInv, LastCached
  <2>7. ASSUME NEW l \in Kinds
        PROVE  LastCached(l)' /\ InOrder(l)' /\ (\A i \in 1..Len(reads[l]) : ReadingTrue(reads[l][i]))'
    <3>1. CASE l = k
      <4>1. LastCached(k)'
        BY <1>0, <2>3, <2>4 DEF LastCached
      <4>2. ASSUME NEW i \in 1..(n + 1) PROVE ReadingTrue(reads[k][i])'
        <5>1. CASE i = n + 1
          <6>1. wall <= wall + Latency
            BY <2>2
          <6>. QED BY <2>1, <2>2, <2>3, <2>4, <5>1, <6>1 DEF ReadingTrue, TrueAt, NewRead
        <5>2. CASE i \in 1..n
          BY <2>1, <2>3, <2>4, <5>2 DEF CacheInv, ReadingTrue
        <5>. QED BY <1>0, <5>1, <5>2
      <4>3. ASSUME NEW i \in 1..(n + 1), NEW j \in 1..(n + 1), i < j
            PROVE  /\ rs[i].at <= rs[j].at
                   /\ rs[j].at - rs[i].at <= Ttl => rs[i].state = "failed"
        <5>1. i \in 1..n /\ rs[i] = reads[k][i] /\ rs[i] \in Reading
          BY <1>0, <2>3, <4>3
        <5>2. CASE j \in 1..n
          BY <2>3, <4>3, <5>1, <5>2 DEF CacheInv, InOrder
        <5>3. CASE j = n + 1
          <6>1. rs[j].at = wall
            BY <2>3, <5>3 DEF NewRead
          <6>2. rs[i].at <= wall /\ rs[i].at \in Nat
            BY <5>1 DEF CacheInv, ReadingTrue, TrueAt, Reading
          <6>3. n \in 1..n /\ reads[k][n] \in Reading
            BY <1>0, <2>3, <5>1
          <6>4. i # n => /\ reads[k][i].at <= reads[k][n].at
                         /\ reads[k][n].at - reads[k][i].at <= Ttl => reads[k][i].state = "failed"
            BY <1>0, <5>1, <6>3 DEF CacheInv, InOrder
          <6>5. wall - rs[i].at <= Ttl => rs[i].state = "failed"
            <7>1. CASE i = n
              BY <2>6, <5>1, <6>3, <7>1
            <7>2. CASE i # n
              <8>1. reads[k][n].at <= wall /\ reads[k][n].at \in Nat
                BY <6>3 DEF CacheInv, ReadingTrue, TrueAt, Reading
              <8>2. CASE wall - rs[i].at <= Ttl
                <9>1. reads[k][n].at - rs[i].at <= Ttl
                  <10> DEFINE a == rs[i].at
                              b == reads[k][n].at
                  <10>1. /\ a \in Nat /\ b \in Nat /\ wall \in Nat /\ Ttl \in Nat
                         /\ b <= wall /\ wall - a <= Ttl
                    BY <2>2, <6>2, <8>1, <8>2
                  <10> HIDE DEF a, b
                  <10>2. b - a <= Ttl
                    BY <10>1
                  <10>. QED BY <10>2 DEF a, b
                <9>. QED BY <5>1, <6>4, <7>2, <9>1
              <8>. QED BY <8>2
            <7>. QED BY <7>1, <7>2
          <6>. QED BY <6>1, <6>2, <6>5
        <5>. QED BY <1>0, <5>2, <5>3
      <4>4. InOrder(k)'
        BY <2>3, <2>4, <4>3 DEF InOrder
      <4>. QED BY <2>3, <2>4, <3>1, <4>1, <4>2, <4>4
    <3>2. CASE l # k
      <4>1. reads'[l] = reads[l] /\ slot'[l] = slot[l] /\ wall' = wall
        BY <2>1, <2>4, <3>2
      <4>2. LastCached(l) /\ InOrder(l) /\ \A i \in 1..Len(reads[l]) : ReadingTrue(reads[l][i])
        BY DEF CacheInv
      <4>3. LastCached(l)'
        BY <4>1, <4>2 DEF LastCached
      <4>4. InOrder(l)'
        BY <4>1, <4>2 DEF InOrder
      <4>5. (\A i \in 1..Len(reads[l]) : ReadingTrue(reads[l][i]))'
        BY <4>1, <4>2 DEF ReadingTrue
      <4>. QED BY <4>3, <4>4, <4>5
    <3>. QED BY <3>1, <3>2
  <2>8. ASSUME NEW d \in Callers PROVE Waiting(d)'
    <3>1. CASE d = c
      <4>1. caller'[d] = [kind |-> k, read |-> n + 1, since |-> wall]
        BY <2>1, <3>1 DEF CacheInv, CacheType
      <4>2. wall - Ttl <= rs[n + 1].at
        BY <2>2, <2>3 DEF NewRead
      <4>. QED BY <1>0, <2>3, <2>4, <4>1, <4>2 DEF Waiting
    <3>2. CASE d # c
      <4>1. caller'[d] = caller[d]
        BY <2>1, <3>2 DEF CacheInv, CacheType
      <4>2. CASE caller[d] # NoCall /\ caller[d].kind = k
        <5>1. /\ caller[d].read \in 1..n /\ caller[d].since - Ttl <= reads[k][caller[d].read].at
          BY <4>2 DEF CacheInv, Waiting
        <5>. QED BY <1>0, <2>3, <2>4, <4>1, <4>2, <5>1 DEF Waiting
      <4>3. CASE caller[d] # NoCall /\ caller[d].kind # k
        BY <2>4, <4>1, <4>3 DEF CacheInv, Waiting
      <4>. QED BY <4>1, <4>2, <4>3 DEF Waiting
    <3>. QED BY <3>1, <3>2
  <2>. QED BY <2>1, <2>5, <2>7, <2>8 DEF CacheInv, ClocksApart
<1>. QED BY <1>1, <1>2

\* A read that moves on: same beginning, and what it now says is true.
LEMMA ReadStep ==
  ASSUME CacheInv, NEW k \in Kinds, NEW i \in 1..Len(reads[k]), NEW r \in Reading,
         reads' = [reads EXCEPT ![k] = [@ EXCEPT ![i] = r]], r.at = reads[k][i].at, ReadingTrue(r),
         reads[k][i].state = "running",
         slot' = slot \/ (r.state = "failed" /\ slot[k] = i /\ slot' = [slot EXCEPT ![k] = 0]),
         UNCHANGED <<wall, chain, caller, served>>
  PROVE  CacheInv'
<1> USE ReadCacheAssumption
<1> DEFINE n == Len(reads[k])
           rs == [reads[k] EXCEPT ![i] = r]
<1>1. n \in Nat /\ reads[k] \in Seq(Reading)
  BY LenProperties DEF CacheInv, CacheType
<1>2. rs \in Seq(Reading) /\ Len(rs) = n /\ rs[i] = r /\ \A j \in 1..n : j # i => rs[j] = reads[k][j]
  BY <1>1, ExceptSeq
<1> HIDE DEF rs
<1>3. reads' = [reads EXCEPT ![k] = rs]
  BY DEF rs
<1>4. /\ reads'[k] = rs
      /\ \A l \in Kinds : l # k => reads'[l] = reads[l] /\ slot'[l] = slot[l]
      /\ \/ slot'[k] = slot[k]
         \/ r.state = "failed" /\ slot[k] = i /\ slot'[k] = 0
      /\ slot' \in [Kinds -> Nat]
  <2>1. slot \in [Kinds -> Nat] /\ reads \in [Kinds -> Seq(Reading)]
    BY DEF CacheInv, CacheType
  <2>2. CASE slot' = slot
    BY <1>3, <2>1, <2>2
  <2>3. CASE r.state = "failed" /\ slot[k] = i /\ slot' = [slot EXCEPT ![k] = 0]
    BY <1>3, <2>1, <2>3
  <2>. QED BY <2>2, <2>3
<1>5. CacheType'
  BY <1>2, <1>3, <1>4 DEF CacheInv, CacheType
<1>6. \A j \in 1..n : reads[k][j] \in Reading /\ rs[j] \in Reading
  BY <1>1, <1>2, ElementOfSeq
<1>7. \A j \in 1..n : rs[j].at = reads[k][j].at
  BY <1>2
<1>8. LastCached(k)'
  BY <1>1, <1>2, <1>4 DEF CacheInv, LastCached
<1>9. ASSUME NEW j \in 1..n PROVE ReadingTrue(reads[k][j])'
  BY <1>2, <1>4 DEF CacheInv, ReadingTrue
<1>10. InOrder(k)'
  <2>1. \A j \in 1..n : reads[k][j].state = "failed" => rs[j].state = "failed"
    BY <1>2
  <2>. QED BY <1>2, <1>4, <1>7, <2>1 DEF CacheInv, InOrder
<1>11. ASSUME NEW l \in Kinds, l # k
       PROVE  LastCached(l)' /\ InOrder(l)' /\ (\A j \in 1..Len(reads[l]) : ReadingTrue(reads[l][j]))'
  BY <1>4, <1>11 DEF CacheInv, LastCached, InOrder, ReadingTrue
<1>12. ASSUME NEW c \in Callers PROVE Waiting(c)'
  <2>1. caller'[c] = caller[c]
    OBVIOUS
  <2>2. SUFFICES ASSUME caller[c] # NoCall
                 PROVE  /\ caller[c].kind \in Kinds
                        /\ caller[c].read \in 1..Len(reads'[caller[c].kind])
                        /\ caller[c].since - Ttl <= reads'[caller[c].kind][caller[c].read].at
    BY <2>1 DEF Waiting
  <2>3. /\ caller[c].kind \in Kinds
        /\ caller[c].read \in 1..Len(reads[caller[c].kind])
        /\ caller[c].since - Ttl <= reads[caller[c].kind][caller[c].read].at
    BY <2>2 DEF CacheInv, Waiting
  <2>4. CASE caller[c].kind = k
    BY <1>2, <1>4, <1>7, <2>3, <2>4
  <2>5. CASE caller[c].kind # k
    BY <1>4, <2>3, <2>5
  <2>. QED BY <2>4, <2>5
<1>. QED BY <1>2, <1>4, <1>5, <1>8, <1>9, <1>10, <1>11, <1>12 DEF CacheInv, ClocksApart

\* The fields a read's steps write stay in their sets.
LEMMA ReadingUpdates ==
  ASSUME NEW x \in Reading, NEW n \in Nat, NEW t \in Nat
  PROVE  /\ [x EXCEPT !.seen = n, !.value = t] \in Reading
         /\ [x EXCEPT !.state = "ok", !.observedAt = n] \in Reading
<1> DEFINE y == [x EXCEPT !.state = "ok"]
           z == [x EXCEPT !.seen = n]
<1>1. y \in Reading /\ z \in Reading
  BY DEF Reading
<1>2. /\ [x EXCEPT !.state = "ok", !.observedAt = n] = [y EXCEPT !.observedAt = n]
      /\ [x EXCEPT !.seen = n, !.value = t] = [z EXCEPT !.value = t]
  BY DEF Reading
<1> HIDE DEF y, z
<1>3. [y EXCEPT !.observedAt = n] \in Reading /\ [z EXCEPT !.value = t] \in Reading
  BY <1>1 DEF Reading
<1>. QED BY <1>2, <1>3

\* No step of the cache breaks what its readings say.
LEMMA CacheStep == CacheInv /\ [CacheNext(Kinds)]_cacheVars => CacheInv'
<1> SUFFICES ASSUME CacheInv, [CacheNext(Kinds)]_cacheVars PROVE CacheInv'
  OBVIOUS
<1>0. /\ wall \in Nat /\ chain \in Nat /\ MaxDrift \in Nat /\ Latency \in Nat
      /\ \A k \in Kinds : DOMAIN reads[k] = 1..Len(reads[k])
  BY ReadCacheAssumption, LenProperties DEF CacheInv, CacheType
<1>1. CASE WallSecond
  <2>1. /\ wall' = wall + 1 /\ UNCHANGED <<reads, slot, caller, served>>
        /\ chain' \in chain..(wall + 1) /\ wall + 1 - chain' <= MaxDrift
        /\ \A k \in Kinds : \A i \in 1..Len(reads[k]) :
             reads[k][i].state = "running" => wall < reads[k][i].at + Latency
    BY <1>0, <1>1 DEF WallSecond, Running
  <2>2. CacheType' /\ ClocksApart'
    BY <1>0, <2>1 DEF CacheInv, CacheType, ClocksApart
  <2>3. ASSUME NEW k \in Kinds, NEW i \in 1..Len(reads[k]) PROVE ReadingTrue(reads[k][i])'
    <3>1. reads[k][i] \in Reading /\ ReadingTrue(reads[k][i])
      BY ElementOfSeq DEF CacheInv, CacheType
    <3>2. reads[k][i].state = "running" => wall + 1 <= reads[k][i].at + Latency
      BY <1>0, <2>1, <3>1 DEF Reading
    <3> DEFINE r == reads[k][i]
    <3>3. TrueAt(r, wall) /\ r \in Reading /\ (r.state = "running" => wall + 1 <= r.at + Latency)
      BY <3>1, <3>2 DEF ReadingTrue
    <3> HIDE DEF r
    <3>4. TrueAt(r, wall + 1)
      BY <1>0, <3>3 DEF TrueAt, Reading
    <3>. QED BY <2>1, <3>4 DEF ReadingTrue, r
  <2>. QED BY <2>1, <2>2, <2>3 DEF CacheInv, LastCached, InOrder, Waiting
<1>2. ASSUME NEW c \in Callers, Resume(c) PROVE CacheInv'
  <2> DEFINE call == caller[c]
             r == reads[call.kind][call.read]
  <2>1. UNCHANGED <<wall, chain, reads, slot>> /\ caller' = [caller EXCEPT ![c] = NoCall]
    BY <1>2 DEF Resume
  <2>2. /\ call.kind \in Kinds /\ call.read \in 1..Len(reads[call.kind])
    BY <1>2 DEF Resume, CacheInv, Waiting
  <2>3. r \in Reading /\ ReadingTrue(r)
    BY <2>2, ElementOfSeq DEF CacheInv, CacheType
  <2>4. served' \in {served, extrapolated(r)} /\ (r.state # "ok" => served' = served)
    BY <1>2 DEF Resume, Answered
  <2> HIDE DEF r
  <2>5. r.state = "ok" => extrapolated(r) \in Int /\ extrapolated(r) <= wall
    BY <2>3 DEF extrapolated, ReadingTrue, TrueAt, Reading, CacheInv, CacheType
  <2>6. CacheType' /\ ClocksApart'
    <3>1. NoCall \in Call
      BY DEF NoCall, Call
    <3>. QED BY <2>1, <2>4, <2>5, <3>1 DEF CacheInv, CacheType, ClocksApart
  <2>7. ASSUME NEW d \in Callers PROVE Waiting(d)'
    BY <2>1 DEF CacheInv, CacheType, Waiting
  <2>. QED BY <2>1, <2>6, <2>7 DEF CacheInv, LastCached, InOrder, ReadingTrue
<1>3. ASSUME NEW k \in Kinds, NEW i \in 1..Len(reads[k]), ReadSample(k, i) \/ Succeed(k, i) \/ Fail(k, i)
      PROVE CacheInv'
  <2>1. reads[k] \in Seq(Reading) /\ reads[k][i] \in Reading /\ ReadingTrue(reads[k][i]) /\ wall \in Nat
    BY <1>3, ElementOfSeq DEF CacheInv, CacheType
  <2>2. CASE ReadSample(k, i)
    <3> DEFINE r == [reads[k][i] EXCEPT !.seen = wall, !.value = chain]
    <3>1. r \in Reading /\ r.at = reads[k][i].at /\ ReadingTrue(r)
      <4>1. r \in Reading
        BY <1>0, <2>1, ReadingUpdates
      <4>2. /\ r.at = reads[k][i].at /\ r.state = "running" /\ reads[k][i].state = "running"
            /\ r.seen = wall /\ r.value = chain
        BY <2>1, <2>2 DEF Reading, ReadSample, Running
      <4> HIDE DEF r
      <4>3. r.at <= wall /\ wall <= r.at + Latency /\ chain <= wall /\ wall - chain <= MaxDrift
        BY <2>1, <4>2 DEF ReadingTrue, TrueAt, CacheInv, ClocksApart
      <4>. QED BY <1>0, <4>1, <4>2, <4>3 DEF ReadingTrue, TrueAt
    <3>2. reads' = [reads EXCEPT ![k] = [@ EXCEPT ![i] = r]]
      BY <2>2 DEF ReadSample
    <3> HIDE DEF r
    <3>3. reads[k][i].state = "running" /\ UNCHANGED <<wall, chain, slot, caller, served>>
      BY <2>2 DEF ReadSample, Running
    <3>. QED BY <3>1, <3>2, <3>3, ReadStep
  <2>3. CASE Succeed(k, i)
    <3> DEFINE r == [reads[k][i] EXCEPT !.state = "ok", !.observedAt = wall]
    <3>1. r \in Reading /\ r.at = reads[k][i].at /\ ReadingTrue(r)
      <4>1. r \in Reading
        BY <1>0, <2>1, ReadingUpdates
      <4>2. /\ r.at = reads[k][i].at /\ r.value = reads[k][i].value /\ r.observedAt = wall
            /\ r.seen = reads[k][i].seen /\ reads[k][i].seen # -1
            /\ r.state = "ok" /\ reads[k][i].state = "running"
        BY <2>1, <2>3 DEF Reading, Succeed, Running
      <4> HIDE DEF r
      <4>3. /\ r.at <= wall /\ wall <= r.at + Latency
            /\ r.at <= r.seen /\ r.seen <= wall /\ r.value <= r.seen /\ r.seen - r.value <= MaxDrift
        BY <2>1, <4>2 DEF ReadingTrue, TrueAt
      <4>. QED BY <1>0, <4>1, <4>2, <4>3 DEF ReadingTrue, TrueAt
    <3>2. reads' = [reads EXCEPT ![k] = [@ EXCEPT ![i] = r]]
      BY <2>3 DEF Succeed, ObservedAt
    <3> HIDE DEF r
    <3>3. reads[k][i].state = "running" /\ UNCHANGED <<wall, chain, slot, caller, served>>
      BY <2>3 DEF Succeed, Running
    <3>. QED BY <3>1, <3>2, <3>3, ReadStep
  <2>4. CASE Fail(k, i)
    <3> DEFINE r == [reads[k][i] EXCEPT !.state = "failed"]
    <3>1. r \in Reading /\ r.at = reads[k][i].at /\ ReadingTrue(r) /\ r.state = "failed"
      BY <2>1, <2>4 DEF Reading, ReadingTrue, TrueAt, Fail, Running
    <3>2. reads' = [reads EXCEPT ![k] = [@ EXCEPT ![i] = r]]
      BY <2>4 DEF Fail
    <3> HIDE DEF r
    <3>3. slot' = slot \/ (r.state = "failed" /\ slot[k] = i /\ slot' = [slot EXCEPT ![k] = 0])
      <4>1. CASE k = "balance" /\ Evict(k, i)
        BY <2>4, <3>1, <4>1 DEF Fail, Evict
      <4>2. CASE ~(k = "balance" /\ Evict(k, i))
        BY <2>4, <4>2 DEF Fail
      <4>. QED BY <4>1, <4>2
    <3>4. reads[k][i].state = "running" /\ UNCHANGED <<wall, chain, caller, served>>
      BY <2>4 DEF Fail, Running
    <3>. QED BY <3>1, <3>2, <3>3, <3>4, ReadStep
  <2>. QED BY <1>3, <2>2, <2>3, <2>4
<1>4. CASE UNCHANGED cacheVars
  BY <1>4 DEF cacheVars, CacheInv, CacheType, ClocksApart, LastCached, InOrder, ReadingTrue, Waiting
<1>. QED BY <1>0, <1>1, <1>2, <1>3, <1>4, AskStep DEF CacheNext

\* api.service.ts: two reads begun within one TTL mean the earlier failed, no
\* request is answered what was true longer than a TTL before it asked, and the
\* chain time answered is off the chain's clock by the drift of the two clocks
\* and a read's own delay at most, in whatever order shared reads overtake one
\* another and fail.
THEOREM SharedReadsHold == CacheSpec => []CacheSound
<1>1. CacheInit => CacheInv
  <2> SUFFICES ASSUME CacheInit PROVE CacheInv
    OBVIOUS
  <2>1. \A k \in Kinds : reads[k] = <<>> /\ Len(reads[k]) = 0 /\ reads[k] \in Seq(Reading)
    BY EmptySeq DEF CacheInit
  <2>2. NoCall \in Call
    BY DEF NoCall, Call
  <2>3. CacheType /\ ClocksApart
    BY <2>1, <2>2, ReadCacheAssumption DEF CacheInit, CacheType, ClocksApart
  <2>. QED BY <2>1, <2>3 DEF CacheInit, CacheInv, ClocksApart, LastCached, InOrder, Waiting
<1>2. CacheInv => CacheSound
  <2> SUFFICES ASSUME CacheInv PROVE CacheSound
    OBVIOUS
  <2>1. \A k \in Kinds : DOMAIN reads[k] = 1..Len(reads[k])
    BY LenProperties DEF CacheInv, CacheType
  <2>2. OneReadPerTtl
    BY <2>1 DEF OneReadPerTtl, CacheInv, InOrder
  <2>3. AnswerFresh
    <3> SUFFICES ASSUME NEW c \in Callers, caller[c] # NoCall,
                        reads[caller[c].kind][caller[c].read].state = "ok"
                 PROVE  reads[caller[c].kind][caller[c].read].seen >= caller[c].since - Ttl
      BY DEF AnswerFresh
    <3> DEFINE r == reads[caller[c].kind][caller[c].read]
    <3>1. /\ caller[c].kind \in Kinds /\ caller[c].read \in 1..Len(reads[caller[c].kind])
          /\ caller[c].since - Ttl <= r.at
      BY DEF CacheInv, Waiting
    <3>2. r \in Reading /\ ReadingTrue(r)
      BY <3>1, ElementOfSeq DEF CacheInv, CacheType
    <3>3. caller[c].since \in Nat
      BY DEF CacheInv, CacheType, Call
    <3> HIDE DEF r
    <3>4. r.at <= r.seen /\ r.at \in Nat /\ r.seen \in Int
      BY <3>2 DEF r, ReadingTrue, TrueAt, Reading
    <3>5. Ttl \in Nat
      BY ReadCacheAssumption
    <3>6. r.seen >= caller[c].since - Ttl
      BY <3>1, <3>3, <3>4, <3>5
    <3>. QED BY <3>6 DEF r
  <2>4. ServedNear
    <3> SUFFICES ASSUME NEW c \in Callers, caller[c].kind = "clock",
                        reads["clock"][caller[c].read].state = "ok"
                 PROVE  LET r == reads["clock"][caller[c].read]
                        IN  Answered(r) \in (chain - MaxDrift - Latency)..(chain + MaxDrift)
      BY DEF ServedNear
    <3> DEFINE r == reads["clock"][caller[c].read]
    <3>1. caller[c] # NoCall
      BY DEF NoCall
    <3>2. "clock" \in Kinds /\ caller[c].read \in 1..Len(reads["clock"])
      BY <3>1 DEF CacheInv, Waiting, Kinds
    <3>3. r \in Reading /\ ReadingTrue(r) /\ r.state = "ok"
      BY <3>2, ElementOfSeq DEF CacheInv, CacheType
    <3> HIDE DEF r
    <3>4. /\ {wall, chain, MaxDrift, Latency, served} \subseteq Int
          /\ chain <= wall /\ wall - chain <= MaxDrift /\ served <= wall
      BY ReadCacheAssumption DEF CacheInv, CacheType, ClocksApart
    <3>5. /\ {r.at, r.seen, r.value, r.observedAt} \subseteq Int
          /\ r.at <= r.seen /\ r.value <= r.seen /\ r.seen - r.value <= MaxDrift
          /\ r.seen <= r.observedAt /\ r.observedAt <= r.at + Latency
      BY <3>3 DEF Reading, ReadingTrue, TrueAt
    <3>6. /\ extrapolated(r) \in Int /\ extrapolated(r) <= wall
          /\ extrapolated(r) >= chain - MaxDrift - Latency
      BY <3>4, <3>5 DEF extrapolated
    <3>7. Answered(r) \in (chain - MaxDrift - Latency)..(chain + MaxDrift)
      BY <3>4, <3>6 DEF Answered
    <3>. QED BY <3>7 DEF r
  <2>. QED BY <2>2, <2>3, <2>4 DEF CacheSound
<1>. QED BY <1>1, <1>2, CacheStep, PTL DEF CacheSpec

-----------------------------------------------------------------------------
(* The alerts: what the two rows say of the services that write them.       *)

Proc == [up: BOOLEAN, tried: Nat, since: Nat \cup {Never}]

MonitorType ==
  /\ clock \in Nat /\ voidedAt \in Nat \cup {Never} /\ flag \in BOOLEAN /\ shut \in BOOLEAN
  /\ opRow \in [lastTickAt: Nat, lastSuccessAt: Nat, lastError: BOOLEAN]
  /\ opProc \in Proc /\ ixProc \in Proc
  /\ ixRow \in [updatedAt: Nat, voidAt: Nat \cup {Never}, stuck: BOOLEAN]

\* A service that is well is up and tried within its cadence.
Well(proc) == ~InTrouble(proc) => proc.up /\ clock <= proc.tried + TickEvery

\* The operator's row: of its last tick while it is well; no success since its
\* trouble began, and a tick since then was an error.
OperatorRow ==
  /\ ~InTrouble(opProc) => opRow.lastTickAt = opProc.tried /\ ~opRow.lastError
  /\ InTrouble(opProc) => /\ opRow.lastSuccessAt <= opProc.since
                          /\ opRow.lastTickAt > opProc.since => opRow.lastError

\* The cursor: of the last tick while the indexer is well; what it does not
\* show of a void happened after it, or was out of its reach.
CursorRow ==
  /\ ixRow.updatedAt <= clock
  /\ ~InTrouble(ixProc) => ixRow.updatedAt = ixProc.tried
  /\ \/ ixRow.voidAt = voidedAt
     \/ ixRow.voidAt = Never /\ (ixRow.updatedAt <= voidedAt \/ ixRow.stuck)

MonitorInv ==
  /\ MonitorType /\ Well(opProc) /\ Well(ixProc) /\ OperatorRow /\ CursorRow
  /\ opRow.lastSuccessAt <= clock /\ opRow.lastTickAt <= clock

\* Trouble keeps the second it began.
LEMMA TroubleKept ==
  ASSUME MonitorInv, NEW proc \in Proc
  PROVE  /\ Trouble(proc) \in Proc /\ InTrouble(Trouble(proc))
         /\ Trouble(proc).since = IF InTrouble(proc) THEN proc.since ELSE clock
BY DEF MonitorInv, MonitorType, Trouble, InTrouble, Proc, Never

\* Writing one field of a service keeps the others.
LEMMA ProcUpdates ==
  ASSUME NEW proc \in Proc, NEW n \in Nat, NEW b \in BOOLEAN
  PROVE  /\ [proc EXCEPT !.tried = n] \in Proc /\ [proc EXCEPT !.tried = n].since = proc.since
         /\ [proc EXCEPT !.up = b] \in Proc /\ [proc EXCEPT !.up = b].since = proc.since
         /\ [proc EXCEPT !.up = b].tried = proc.tried /\ [proc EXCEPT !.up = b].up = b
BY DEF Proc

\* The operator's tick, its row and the write that fails.
LEMMA OperatorTickStep == MonitorInv /\ OperatorTicks => MonitorInv'
<1> SUFFICES ASSUME MonitorInv, OperatorTicks PROVE MonitorInv'
  OBVIOUS
<1> USE DEF Never
<1>1. /\ UNCHANGED <<clock, ixRow, ixProc, voidedAt, flag, shut>> /\ clock \in Nat /\ opProc \in Proc
      /\ opRow \in [lastTickAt: Nat, lastSuccessAt: Nat, lastError: BOOLEAN]
      /\ opRow.lastSuccessAt <= clock
  BY DEF OperatorTicks, MonitorInv, MonitorType
<1>2. Well(ixProc)' /\ CursorRow'
  BY <1>1 DEF MonitorInv, Well, CursorRow, InTrouble
<1>3. ASSUME opProc' = [Trouble(opProc) EXCEPT !.tried = clock],
             opRow' = opRow \/ opRow' = [lastTickAt |-> clock, lastError |-> TRUE,
                                        lastSuccessAt |-> opRow.lastSuccessAt]
      PROVE  MonitorInv'
  <2> DEFINE p == Trouble(opProc)
  <2>1. p \in Proc /\ InTrouble(p) /\ p.since = (IF InTrouble(opProc) THEN opProc.since ELSE clock)
    BY <1>1, TroubleKept
  <2> HIDE DEF p
  <2>2. opProc' \in Proc /\ opProc'.since = p.since
    BY <1>1, <1>3, <2>1, ProcUpdates DEF p
  <2>3. InTrouble(opProc)' /\ opProc'.since = (IF InTrouble(opProc) THEN opProc.since ELSE clock)
    BY <2>1, <2>2 DEF InTrouble
  <2>4. CASE opRow' = opRow
    BY <1>1, <1>2, <2>2, <2>3, <2>4 DEF MonitorInv, MonitorType, OperatorRow, Well
  <2>5. CASE opRow' = [lastTickAt |-> clock, lastError |-> TRUE,
                       lastSuccessAt |-> opRow.lastSuccessAt]
    <3>1. /\ opRow' \in [lastTickAt: Nat, lastSuccessAt: Nat, lastError: BOOLEAN]
          /\ opRow'.lastSuccessAt = opRow.lastSuccessAt /\ opRow'.lastError /\ opRow'.lastTickAt = clock
      BY <1>1, <2>5
    <3>2. MonitorType'
      BY <1>1, <2>2, <3>1 DEF MonitorInv, MonitorType
    <3>3. OperatorRow' /\ Well(opProc)'
      BY <1>1, <2>3, <3>1 DEF MonitorInv, OperatorRow, Well
    <3>. QED BY <1>1, <1>2, <3>1, <3>2, <3>3 DEF MonitorInv
  <2>. QED BY <1>3, <2>4, <2>5
<1>4. ASSUME opProc' = [up |-> TRUE, tried |-> clock, since |-> Never],
             opRow' = [lastTickAt |-> clock, lastError |-> FALSE, lastSuccessAt |-> clock]
      PROVE  MonitorInv'
  <2>1. opProc' \in Proc /\ ~InTrouble(opProc)' /\ opProc'.up /\ opProc'.tried = clock
    BY <1>1, <1>4 DEF Proc, InTrouble
  <2>2. /\ opRow' \in [lastTickAt: Nat, lastSuccessAt: Nat, lastError: BOOLEAN]
        /\ opRow'.lastSuccessAt = clock /\ ~opRow'.lastError /\ opRow'.lastTickAt = clock
    BY <1>1, <1>4
  <2>3. TickEvery \in Nat
    BY MonitoringAssumption
  <2>. QED BY <1>1, <1>2, <2>1, <2>2, <2>3 DEF MonitorInv, MonitorType, OperatorRow, Well
<1>5. PICK error \in BOOLEAN :
        \/ /\ opRow' = writeState(opRow, error)
           /\ opProc' = IF error THEN [Trouble(opProc) EXCEPT !.tried = clock]
                        ELSE [up |-> TRUE, tried |-> clock, since |-> Never]
        \/ opProc' = [Trouble(opProc) EXCEPT !.tried = clock] /\ UNCHANGED opRow
  BY DEF OperatorTicks
<1>6. CASE error
  BY <1>3, <1>5, <1>6 DEF writeState
<1>7. CASE ~error
  BY <1>3, <1>4, <1>5, <1>7 DEF writeState
<1>. QED BY <1>6, <1>7

\* The indexer's tick: the cursor is stamped unless something is thrown.
LEMMA IndexerTickStep == MonitorInv /\ IndexerTicks => MonitorInv'
<1> SUFFICES ASSUME MonitorInv, IndexerTicks PROVE MonitorInv'
  OBVIOUS
<1> USE DEF Never
<1>1. /\ UNCHANGED <<clock, opRow, opProc, voidedAt, flag, shut>> /\ clock \in Nat /\ ixProc \in Proc
      /\ voidedAt \in Nat \cup {Never}
      /\ ixRow \in [updatedAt: Nat, voidAt: Nat \cup {Never}, stuck: BOOLEAN]
  BY DEF IndexerTicks, MonitorInv, MonitorType
<1>2. Well(opProc)' /\ OperatorRow'
  BY <1>1 DEF MonitorInv, Well, OperatorRow, InTrouble
<1>3. PICK threw \in BOOLEAN, seen \in {ixRow.voidAt, voidedAt} :
        /\ ixRow' = IndexerStamp(threw, seen)
        /\ ixProc' = IF threw THEN [Trouble(ixProc) EXCEPT !.tried = clock]
                     ELSE [up |-> TRUE, tried |-> clock, since |-> Never]
  BY DEF IndexerTicks
<1>4. seen \in Nat \cup {Never} /\ (seen = voidedAt \/ (seen = Never /\ ixRow.voidAt = Never))
  BY <1>1 DEF MonitorInv, CursorRow
<1>5. CASE ~threw
  <2> DEFINE short == (seen # voidedAt)
  <2>1. ixProc' = [up |-> TRUE, tried |-> clock, since |-> Never]
        /\ ixRow' = [updatedAt |-> clock, voidAt |-> seen, stuck |-> short]
    BY <1>3, <1>5 DEF IndexerStamp
  <2>2. ixProc' \in Proc /\ ~InTrouble(ixProc)' /\ ixProc'.up /\ ixProc'.tried = clock
    BY <1>1, <2>1 DEF Proc, InTrouble
  <2>3. short \in BOOLEAN
    OBVIOUS
  <2> HIDE DEF short
  <2>4. /\ ixRow' \in [updatedAt: Nat, voidAt: Nat \cup {Never}, stuck: BOOLEAN]
        /\ ixRow'.updatedAt = clock /\ ixRow'.voidAt = seen /\ ixRow'.stuck = short
    BY <1>1, <1>4, <2>1, <2>3
  <2>5. TickEvery \in Nat
    BY MonitoringAssumption
  <2>6. ixRow'.voidAt = voidedAt \/ (ixRow'.voidAt = Never /\ ixRow'.stuck)
    BY <1>4, <2>4 DEF short
  <2>7. CursorRow' /\ Well(ixProc)'
    BY <1>1, <2>2, <2>4, <2>5, <2>6 DEF CursorRow, Well
  <2>. QED BY <1>1, <1>2, <2>2, <2>4, <2>7 DEF MonitorInv, MonitorType
<1>6. CASE threw
  <2> DEFINE p == Trouble(ixProc)
  <2>1. p \in Proc /\ InTrouble(p)
    BY <1>1, TroubleKept
  <2> HIDE DEF p
  <2>2. ixProc' \in Proc /\ InTrouble(ixProc)'
    BY <1>1, <1>3, <1>6, <2>1, ProcUpdates DEF InTrouble, p
  <2>3. ixRow' = [ixRow EXCEPT !.voidAt = seen]
    BY <1>3, <1>6 DEF IndexerStamp
  <2>4. /\ ixRow' \in [updatedAt: Nat, voidAt: Nat \cup {Never}, stuck: BOOLEAN]
        /\ ixRow'.updatedAt = ixRow.updatedAt /\ ixRow'.voidAt = seen /\ ixRow'.stuck = ixRow.stuck
    BY <1>1, <1>4, <2>3
  <2>5. CursorRow'
    BY <1>1, <1>4, <2>2, <2>4 DEF MonitorInv, CursorRow
  <2>6. MonitorType' /\ Well(ixProc)'
    BY <1>1, <2>2, <2>4 DEF MonitorInv, MonitorType, Well
  <2>. QED BY <1>1, <1>2, <2>5, <2>6 DEF MonitorInv
<1>. QED BY <1>5, <1>6

\* A service dies: it is in trouble from now on, or since before.
LEMMA DiesStep == MonitorInv /\ Dies => MonitorInv'
<1> SUFFICES ASSUME MonitorInv, Dies PROVE MonitorInv'
  OBVIOUS
<1> USE DEF Never
<1>1. /\ UNCHANGED <<clock, opRow, ixRow, voidedAt, flag, shut>> /\ clock \in Nat
      /\ opProc \in Proc /\ ixProc \in Proc
  BY DEF Dies, MonitorInv, MonitorType
<1>2. ASSUME NEW proc \in Proc
      PROVE  /\ [Trouble(proc) EXCEPT !.up = FALSE] \in Proc
             /\ [Trouble(proc) EXCEPT !.up = FALSE].since = (IF InTrouble(proc) THEN proc.since ELSE clock)
             /\ InTrouble([Trouble(proc) EXCEPT !.up = FALSE])
  <2> DEFINE p == Trouble(proc)
  <2>1. p \in Proc /\ InTrouble(p) /\ p.since = (IF InTrouble(proc) THEN proc.since ELSE clock)
    BY TroubleKept
  <2> HIDE DEF p
  <2>2. [p EXCEPT !.up = FALSE] \in Proc /\ [p EXCEPT !.up = FALSE].since = p.since
    BY <2>1, ProcUpdates
  <2>. QED BY <2>1, <2>2 DEF p, InTrouble
<1>3. CASE opProc' = [Trouble(opProc) EXCEPT !.up = FALSE] /\ UNCHANGED ixProc
  <2>1. opProc' \in Proc /\ InTrouble(opProc)'
        /\ opProc'.since = (IF InTrouble(opProc) THEN opProc.since ELSE clock)
    BY <1>1, <1>2, <1>3 DEF InTrouble
  <2>2. OperatorRow'
    BY <1>1, <2>1 DEF MonitorInv, MonitorType, OperatorRow
  <2>. QED BY <1>1, <1>3, <2>1, <2>2 DEF MonitorInv, MonitorType, Well, CursorRow, InTrouble
<1>4. CASE ixProc' = [Trouble(ixProc) EXCEPT !.up = FALSE] /\ UNCHANGED opProc
  <2>1. ixProc' \in Proc /\ InTrouble(ixProc)'
    BY <1>1, <1>2, <1>4 DEF InTrouble
  <2>. QED BY <1>1, <1>4, <2>1 DEF MonitorInv, MonitorType, Well, OperatorRow, CursorRow, InTrouble
<1>. QED BY <1>3, <1>4 DEF Dies

\* A service comes back, in trouble until its next good tick.
LEMMA RestartsStep == MonitorInv /\ Restarts => MonitorInv'
<1> SUFFICES ASSUME MonitorInv, Restarts PROVE MonitorInv'
  OBVIOUS
<1> USE DEF Never
<1>1. /\ UNCHANGED <<clock, opRow, ixRow, voidedAt, flag, shut>>
      /\ opProc \in Proc /\ ixProc \in Proc
  BY DEF Restarts, MonitorInv, MonitorType
<1>2. CASE ~opProc.up /\ opProc' = [opProc EXCEPT !.up = TRUE] /\ UNCHANGED ixProc
  <2>1. opProc' \in Proc /\ opProc'.since = opProc.since /\ InTrouble(opProc)
    BY <1>1, <1>2, ProcUpdates DEF MonitorInv, Well
  <2>. QED BY <1>1, <1>2, <2>1 DEF MonitorInv, MonitorType, Well, OperatorRow, CursorRow, InTrouble
<1>3. CASE ~ixProc.up /\ ixProc' = [ixProc EXCEPT !.up = TRUE] /\ UNCHANGED opProc
  <2>1. ixProc' \in Proc /\ ixProc'.since = ixProc.since /\ InTrouble(ixProc)
    BY <1>1, <1>3, ProcUpdates DEF MonitorInv, Well
  <2>. QED BY <1>1, <1>3, <2>1 DEF MonitorInv, MonitorType, Well, OperatorRow, CursorRow, InTrouble
<1>. QED BY <1>2, <1>3 DEF Restarts

\* Time waits for a tick that is due.
LEMMA ClockStep == MonitorInv /\ ClockSecond => MonitorInv'
<1> SUFFICES ASSUME MonitorInv, ClockSecond PROVE MonitorInv'
  OBVIOUS
<1>1. /\ UNCHANGED <<opRow, opProc, ixRow, ixProc, voidedAt, flag, shut>> /\ clock' = clock + 1
      /\ opProc.up => clock < opProc.tried + TickEvery
      /\ ixProc.up => clock < ixProc.tried + TickEvery
  BY DEF ClockSecond
<1>2. /\ TickEvery \in Nat /\ clock \in Nat /\ opProc.tried \in Nat /\ ixProc.tried \in Nat
      /\ opRow.lastSuccessAt \in Nat /\ opRow.lastTickAt \in Nat /\ ixRow.updatedAt \in Nat
  BY MonitoringAssumption DEF MonitorInv, MonitorType, Proc
<1>3. Well(opProc)' /\ Well(ixProc)'
  BY <1>1, <1>2 DEF MonitorInv, Well, InTrouble
<1>4. OperatorRow' /\ CursorRow'
  BY <1>1, <1>2 DEF MonitorInv, OperatorRow, CursorRow, InTrouble
<1>5. MonitorType' /\ opRow'.lastSuccessAt <= clock' /\ opRow'.lastTickAt <= clock'
  BY <1>1, <1>2 DEF MonitorInv, MonitorType
<1>. QED BY <1>3, <1>4, <1>5 DEF MonitorInv

\* No step of the services or the pool breaks what the rows say.
LEMMA MonitorStep == MonitorInv /\ [MonitorNext]_monitorVars => MonitorInv'
<1> SUFFICES ASSUME MonitorInv, [MonitorNext]_monitorVars PROVE MonitorInv'
  OBVIOUS
<1>1. CASE RoundVoids
  BY <1>1 DEF RoundVoids, MonitorInv, MonitorType, Well, OperatorRow, CursorRow, InTrouble, Never
<1>2. CASE Shutdown
  BY <1>2 DEF Shutdown, MonitorInv, MonitorType, Well, OperatorRow, CursorRow, InTrouble
<1>3. CASE Flags
  BY <1>3 DEF Flags, MonitorInv, MonitorType, Well, OperatorRow, CursorRow, InTrouble
<1>4. CASE UNCHANGED monitorVars
  BY <1>4 DEF monitorVars, MonitorInv, MonitorType, Well, OperatorRow, CursorRow, InTrouble
<1>. QED BY <1>1, <1>2, <1>3, <1>4, OperatorTickStep, IndexerTickStep, DiesStep, RestartsStep, ClockStep
         DEF MonitorNext

\* alerts.controller.ts: an operator out of order for longer than the thresholds
\* and a voided round are paged for, and nothing is while all is well,
\* whatever mix of errors, lost writes, deaths and restarts that was; but for a
\* void behind logs the indexer could not read, whose cursor looks fresh.
THEOREM PagesHold == MonitorSpec => []AlertsSound
<1>1. MonitorInit => MonitorInv
  <2> SUFFICES ASSUME MonitorInit PROVE MonitorInv
    OBVIOUS
  <2>1. TickEvery \in Nat
    BY MonitoringAssumption
  <2>2. /\ opProc = [up |-> TRUE, tried |-> 0, since |-> Never] /\ ixProc = opProc
        /\ ~InTrouble(opProc)
    BY DEF MonitorInit, InTrouble
  <2>3. MonitorType
    <3>1. opProc \in Proc /\ ixProc \in Proc
      BY <2>2 DEF Proc
    <3>2. opRow = [lastTickAt |-> 0, lastSuccessAt |-> 0, lastError |-> FALSE]
          /\ ixRow = [updatedAt |-> 0, voidAt |-> Never, stuck |-> FALSE]
      BY DEF MonitorInit
    <3>3. opRow \in [lastTickAt: Nat, lastSuccessAt: Nat, lastError: BOOLEAN]
          /\ ixRow \in [updatedAt: Nat, voidAt: Nat \cup {Never}, stuck: BOOLEAN]
      BY <3>2
    <3>. QED BY <3>1, <3>3 DEF MonitorInit, MonitorType
  <2>4. Well(opProc) /\ OperatorRow /\ CursorRow
    BY <2>1, <2>2 DEF MonitorInit, Well, OperatorRow, CursorRow
  <2>. QED BY <2>2, <2>3, <2>4 DEF MonitorInit, MonitorInv
<1>2. ASSUME MonitorInv PROVE AlertsSound
  <2>1. /\ clock \in Nat /\ opRow.lastTickAt \in Nat /\ opRow.lastSuccessAt \in Nat
        /\ opProc.since \in Nat \cup {Never} /\ opProc.tried \in Nat /\ ixProc.tried \in Nat
        /\ ixRow.updatedAt \in Nat /\ voidedAt \in Nat \cup {Never} /\ ixRow.voidAt \in Nat \cup {Never}
    BY <1>2 DEF MonitorInv, MonitorType, Proc
  <2>2. /\ TickEvery \in Nat /\ TickStale \in Nat /\ FailingFor \in Nat /\ IndexStale \in Nat
        /\ Recent \in Nat /\ TickEvery <= TickStale /\ TickEvery <= FailingFor /\ TickEvery <= IndexStale
    BY MonitoringAssumption
  <2>3. ASSUME ~shut, InTrouble(opProc), clock - opProc.since > Larger(TickStale, FailingFor) + TickEvery
        PROVE  evaluateAlerts \cap {"OPERATOR_STALE", "OPERATOR_FAILING"} # {}
    <3>1. /\ opProc.since \in Nat /\ opRow.lastSuccessAt <= opProc.since
          /\ opRow.lastTickAt > opProc.since => opRow.lastError
      BY <1>2, <2>1, <2>3 DEF MonitorInv, OperatorRow, InTrouble
    <3>2. clock - opProc.since > TickStale /\ clock - opProc.since > FailingFor
      BY <2>1, <2>2, <2>3, <3>1 DEF Larger
    <3>3. CASE clock - opRow.lastTickAt > TickStale
      <4>1. "OPERATOR_STALE" \in evaluateAlerts
        BY <2>3, <3>3 DEF evaluateAlerts
      <4>. QED BY <4>1
    <3>4. CASE ~(clock - opRow.lastTickAt > TickStale)
      <4>1. opRow.lastError
        BY <2>1, <2>2, <3>1, <3>2, <3>4
      <4>2. operatorFailing
        BY <2>1, <2>2, <3>1, <3>2, <4>1 DEF operatorFailing
      <4>3. "OPERATOR_FAILING" \in evaluateAlerts
        BY <4>2 DEF evaluateAlerts
      <4>. QED BY <4>3
    <3>. QED BY <3>3, <3>4
  <2>4. ASSUME ~InTrouble(opProc), ~InTrouble(ixProc), voidedAt = Never, ~flag
        PROVE  evaluateAlerts = {}
    <3>1. ~(clock - opRow.lastTickAt > TickStale) /\ ~operatorFailing
      BY <1>2, <2>1, <2>2, <2>4 DEF MonitorInv, OperatorRow, Well, operatorFailing
    <3>2. ~(clock - ixRow.updatedAt > IndexStale)
      BY <1>2, <2>1, <2>2, <2>4 DEF MonitorInv, CursorRow, Well
    <3>3. ~voidedRecently
      BY <1>2, <2>4 DEF MonitorInv, CursorRow, voidedRecently
    <3>. QED BY <2>4, <3>1, <3>2, <3>3 DEF evaluateAlerts
  <2>5. ASSUME voidedAt # Never, clock - voidedAt > IndexStale, clock - voidedAt <= Recent,
               ~ixRow.stuck
        PROVE  evaluateAlerts \cap {"ROUND_VOIDED_RECENTLY", "INDEXER_STALE"} # {}
    <3>1. voidedAt \in Nat
      BY <2>1, <2>5
    <3>2. CASE ixRow.voidAt = voidedAt
      <4>1. voidedRecently
        BY <2>1, <2>2, <2>5, <3>1, <3>2 DEF voidedRecently
      <4>2. "ROUND_VOIDED_RECENTLY" \in evaluateAlerts
        BY <4>1 DEF evaluateAlerts
      <4>. QED BY <4>2
    <3>3. CASE ixRow.updatedAt <= voidedAt
      <4>1. clock - ixRow.updatedAt > IndexStale
        BY <2>1, <2>2, <2>5, <3>1, <3>3
      <4>2. "INDEXER_STALE" \in evaluateAlerts
        BY <4>1 DEF evaluateAlerts
      <4>. QED BY <4>2
    <3>. QED BY <1>2, <2>5, <3>2, <3>3 DEF MonitorInv, CursorRow
  <2>. QED BY <2>3, <2>4, <2>5 DEF AlertsSound, OutagePaged, VoidPaged
<1>. QED BY <1>1, <1>2, MonitorStep, PTL DEF MonitorSpec

-----------------------------------------------------------------------------
(* Setting a cluster up: what each step of a run has found on the chain.    *)

VaultRec ==
  [mint: Nat \ {None}, admin: {"hot", "cold"},
   accounts: [Labels -> {Explicit(label) : label \in Labels} \cup {Seeded(label) : label \in Labels}],
   paused: SUBSET {"jackpot", "game"}]
InRec == [envMint: Nat, admin: {"hot", "cold"}, explicit: BOOLEAN, start: BOOLEAN]
BootRec ==
  [pc: {"mint", "accounts", "pool", "start", "print"}, in: InRec, mint: Nat, has: SUBSET Labels]
SparRec ==
  [pc: {"idle", "sol", "principal", "fund", "deposit"}, runs: Nat, sol: BOOLEAN, ata: Nat, made: Nat,
   principal: Nat]

SetupType ==
  /\ minted \in Nat /\ minted <= MaxMints
  /\ acct \in [Labels -> Nat]
  /\ Exists => vault \in VaultRec
  /\ boot = NotRunning \/ boot \in BootRec
  /\ spar \in SparRec

\* Past the mint, a run goes by the pool's mint where there is a pool; past the
\* pool there is one. Its mainnet arguments name every account and key.
RunTrue ==
  boot # NotRunning =>
    /\ boot.in.envMint \in Mints \cup {None}
    /\ boot.pc # "mint" => boot.mint \in Mints /\ (Exists => vault.mint = boot.mint)
    /\ boot.pc \in {"start", "print"} => Exists
    /\ net = "mainnet" => boot.in.admin = "cold" /\ boot.in.explicit

\* The one block a pool's runs can print, and the accounts it names.
PoolBlock == [mint |-> vault.mint, accounts |-> [label \in Labels |-> vault.accounts[label]]]
BlocksTrue ==
  /\ printed \subseteq {PoolBlock} /\ (printed # {} => Exists)
  /\ Exists =>
       /\ vault.mint \in Mints
       /\ \A label \in Labels : vault.accounts[label] = Seeded(label) => acct[label] = vault.mint
       /\ net = "mainnet" => vault.admin = "cold"
                             /\ \A label \in Labels : vault.accounts[label] = Explicit(label)

\* What was minted for is in the wallet or deposited, and the wallet is only
\* funded while nothing is deposited.
SparTrue ==
  /\ spar.made = spar.ata + spar.principal /\ spar.made <= 1
  /\ spar.pc \in {"fund", "deposit"} => spar.principal = 0

SetupInv == SetupType /\ RunTrue /\ BlocksTrue /\ SparTrue

\* Until a run has died or a pool is there, at most the run under way has made
\* anything: one mint, and accounts of that mint. So its create_pool is not
\* refused, and no run ends without a pool but by dying.
CleanRun ==
  (crashes = 0 /\ ~Exists) =>
    /\ (boot = NotRunning \/ boot.pc = "mint") => minted = 0 /\ \A label \in Labels : acct[label] = None
    /\ boot.pc = "mint" => boot.has = {}
    /\ (boot # NotRunning /\ boot.pc # "mint") =>
         /\ \A label \in Labels : acct[label] \in {None, boot.mint}
         /\ \A label \in boot.has : HoldsMint(label)
         /\ boot.pc = "pool" => boot.has = Labels
CleanInv == crashes \in Nat /\ CleanRun

\* The two seeds are two addresses, and no mint is missing.
LEMMA Addresses ==
  /\ \A label \in Labels : Explicit(label) # Seeded(label)
  /\ SetupType => \A m \in Mints : m \in Nat /\ m # None
<1>1. ASSUME NEW label \in Labels PROVE Explicit(label) # Seeded(label)
  BY DEF Explicit, Seeded
<1>2. ASSUME SetupType, NEW m \in Mints PROVE m \in Nat /\ m # None
  BY <1>2 DEF SetupType, Mints, Usdc, None
<1>. QED BY <1>1, <1>2

\* A run that only moves on: it reads the pool and writes nothing.
LEMMA RunMoves ==
  ASSUME SetupInv, UNCHANGED <<net, minted, acct, vault, printed, spar>>,
         boot' = NotRunning \/ boot' \in BootRec,
         boot' # NotRunning =>
           /\ boot'.in.envMint \in Mints \cup {None}
           /\ boot'.pc # "mint" => boot'.mint \in Mints /\ (Exists => vault.mint = boot'.mint)
           /\ boot'.pc \in {"start", "print"} => Exists
           /\ net = "mainnet" => boot'.in.admin = "cold" /\ boot'.in.explicit
  PROVE  SetupInv'
<1>1. SetupType'
  BY DEF SetupInv, SetupType, Exists
<1>2. RunTrue'
  BY DEF RunTrue, Exists, Mints
<1>3. BlocksTrue' /\ SparTrue'
  BY DEF SetupInv, BlocksTrue, PoolBlock, Exists, Mints, SparTrue
<1>. QED BY <1>1, <1>2, <1>3 DEF SetupInv

\* main's arguments pass the mainnet guard.
LEMMA BootStartStep ==
  ASSUME SetupInv, NEW in \in Inputs, BootStart(in)
  PROVE  SetupInv' /\ UNCHANGED <<printed, minted, acct, vault>>
<1> DEFINE run == [pc |-> "mint", in |-> in, mint |-> None, has |-> {}]
<1>1. boot' = run /\ UNCHANGED <<net, minted, acct, vault, printed, spar>> /\ assertMainnetSafe(in)
  BY DEF BootStart, Give
<1>2. in \in InRec /\ in.envMint \in Mints \cup {None}
  BY Addresses DEF Inputs, InRec, SetupInv, None
<1>3. run \in BootRec
  BY <1>2 DEF BootRec, None
<1>4. run.in = in /\ run.pc = "mint"
  OBVIOUS
<1> HIDE DEF run
<1>5. net = "mainnet" => in.admin = "cold" /\ in.explicit
  BY <1>1 DEF assertMainnetSafe
<1>. QED BY <1>1, <1>2, <1>3, <1>4, <1>5, RunMoves

\* A run that finds a pool takes its mint and makes none.
LEMMA MintStep ==
  ASSUME SetupInv, ensureMint
  PROVE  /\ SetupInv' /\ UNCHANGED <<printed, acct, vault>> /\ (Exists => minted' = minted)
         /\ minted' # minted => boot.in.envMint = None
<1> DEFINE m == ResolvedMint(boot.in, minted + 1)
<1>1. /\ boot' = [boot EXCEPT !.pc = "accounts", !.mint = m]
      /\ m = minted + 1 => minted < MaxMints
      /\ minted' = IF m = minted + 1 THEN minted + 1 ELSE minted
      /\ UNCHANGED <<net, acct, vault, printed, spar>> /\ boot.pc = "mint"
  BY DEF ensureMint, Give
<1>2. boot \in BootRec /\ boot # NotRunning
  BY <1>1 DEF SetupInv, SetupType, NotRunning
<1>3. minted \in Nat /\ MaxMints \in Nat /\ minted <= MaxMints /\ MaxMints < Usdc /\ Usdc \in Nat
  BY ProvisioningAssumption DEF SetupInv, SetupType, Usdc
<1>4. Exists => m = vault.mint /\ vault.mint \in Mints
  BY DEF ResolvedMint, SetupInv, BlocksTrue
<1>5. m \in Mints \/ (m = minted + 1 /\ ~Exists)
  BY <1>2, <1>4 DEF ResolvedMint, SetupInv, RunTrue
<1>14. minted' # minted => boot.in.envMint = None
  <2> SUFFICES ASSUME minted' # minted, boot.in.envMint # None PROVE FALSE
    OBVIOUS
  <2>1. m = minted + 1 /\ minted < MaxMints
    BY <1>1
  <2>2. m \in Mints
    BY <1>2, <1>4 DEF ResolvedMint, SetupInv, RunTrue
  <2>3. m # minted + 1
    <3> HIDE DEF m
    <3>. QED BY <1>3, <2>1, <2>2 DEF Mints
  <2>. QED BY <2>1, <2>3
<1> HIDE DEF m
<1>6. Exists => minted' = minted
  BY <1>1, <1>3, <1>4 DEF Mints
<1>7. minted' \in Nat /\ minted' <= MaxMints /\ minted <= minted'
  BY <1>1, <1>3
<1>8. m \in Mints' /\ Mints \subseteq Mints'
  BY <1>1, <1>3, <1>5, <1>7 DEF Mints
<1>9. m \in Nat
  BY <1>3, <1>7, <1>8 DEF Mints
<1>10. boot' \in BootRec /\ boot'.in = boot.in /\ boot'.pc = "accounts" /\ boot'.mint = m
  <2> DEFINE b == [boot EXCEPT !.pc = "accounts"]
  <2>1. b \in BootRec /\ b.in = boot.in /\ b.pc = "accounts"
    BY <1>2 DEF BootRec
  <2>2. boot' = [b EXCEPT !.mint = m]
    BY <1>1
  <2> HIDE DEF b
  <2>. QED BY <1>9, <2>1, <2>2 DEF BootRec
<1>11. SetupType'
  BY <1>1, <1>7, <1>10 DEF SetupInv, SetupType, Exists
<1>12. RunTrue'
  BY <1>1, <1>2, <1>4, <1>8, <1>10 DEF SetupInv, RunTrue, Exists
<1>13. BlocksTrue' /\ SparTrue'
  BY <1>1, <1>8 DEF SetupInv, BlocksTrue, PoolBlock, Exists, SparTrue
<1>. QED BY <1>1, <1>6, <1>11, <1>12, <1>13, <1>14 DEF SetupInv

\* A run that finds a pool creates no account, and one that finds an account
\* does not create it.
LEMMA AccountStep ==
  ASSUME SetupInv, NEW label \in Labels, ensureAccount(label)
  PROVE  /\ SetupInv' /\ UNCHANGED <<printed, minted, vault>> /\ (Exists => acct' = acct)
         /\ \A l \in Labels : acct[l] # None => acct'[l] = acct[l]
<1>1. /\ boot' = [boot EXCEPT !.has = @ \cup {label}, !.pc = IF label = "buyback" THEN "pool" ELSE @]
      /\ UNCHANGED <<net, minted, vault, printed, spar>> /\ boot.pc = "accounts"
      /\ acct' = acct \/ (~Exists /\ acct[label] = None /\ acct' = [acct EXCEPT ![label] = boot.mint])
  BY DEF ensureAccount, Give
<1>2. boot \in BootRec /\ boot # NotRunning
  BY <1>1 DEF SetupInv, SetupType, NotRunning
<1>3. boot' \in BootRec /\ boot'.in = boot.in /\ boot'.pc \in {"accounts", "pool"} /\ boot'.mint = boot.mint
  <2> DEFINE b == [boot EXCEPT !.has = @ \cup {label}]
  <2>1. b \in BootRec /\ b.in = boot.in /\ b.pc = "accounts" /\ b.mint = boot.mint
    BY <1>1, <1>2 DEF BootRec
  <2>2. boot' = [b EXCEPT !.pc = IF label = "buyback" THEN "pool" ELSE @]
    BY <1>1
  <2> HIDE DEF b
  <2>3. CASE label = "buyback"
    BY <2>1, <2>2, <2>3 DEF BootRec
  <2>4. CASE label # "buyback"
    BY <2>1, <2>2, <2>4 DEF BootRec
  <2>. QED BY <2>3, <2>4
<1>4. acct' \in [Labels -> Nat]
  BY <1>1, <1>2 DEF SetupInv, SetupType, BootRec
<1>5. SetupType' /\ RunTrue'
  BY <1>1, <1>2, <1>3, <1>4 DEF SetupInv, SetupType, RunTrue, Exists, Mints
<1>6. BlocksTrue' /\ SparTrue'
  BY <1>1 DEF SetupInv, BlocksTrue, PoolBlock, Exists, Mints, SparTrue
<1>7. \A l \in Labels : acct[l] # None => acct'[l] = acct[l]
  BY <1>1 DEF SetupInv, SetupType
<1>. QED BY <1>1, <1>5, <1>6, <1>7 DEF SetupInv

\* A pool is created over accounts that hold the run's mint, once.
LEMMA CreateStep ==
  ASSUME SetupInv, createPool
  PROVE  SetupInv' /\ UNCHANGED <<printed, minted, acct>> /\ (Exists => vault' = vault)
<1>1. boot.pc = "pool" /\ UNCHANGED <<net, minted, acct, printed, spar>>
  BY DEF createPool
<1>2. boot \in BootRec /\ boot # NotRunning
  BY <1>1 DEF SetupInv, SetupType, NotRunning
<1>3. [boot EXCEPT !.pc = "start"] \in BootRec /\ [boot EXCEPT !.pc = "start"].in = boot.in
      /\ [boot EXCEPT !.pc = "start"].mint = boot.mint /\ [boot EXCEPT !.pc = "start"].pc = "start"
  BY <1>2 DEF BootRec
<1>4. boot.mint \in Mints /\ boot.mint \in Nat /\ boot.mint # None
  BY <1>1, <1>2, Addresses DEF SetupInv, RunTrue
<1>5. CASE UNCHANGED vault /\ boot' \in {NotRunning, [boot EXCEPT !.pc = "start"]}
           /\ (boot' = NotRunning \/ Exists)
  <2>1. boot' = NotRunning \/ boot' \in BootRec
    BY <1>3, <1>5
  <2>2. boot' # NotRunning =>
           /\ boot'.in.envMint \in Mints \cup {None}
           /\ boot'.pc # "mint" => boot'.mint \in Mints /\ (Exists => vault.mint = boot'.mint)
           /\ boot'.pc \in {"start", "print"} => Exists
           /\ net = "mainnet" => boot'.in.admin = "cold" /\ boot'.in.explicit
    BY <1>1, <1>2, <1>3, <1>5 DEF SetupInv, RunTrue
  <2>. QED BY <1>1, <1>5, <2>1, <2>2, RunMoves
<1>6. CASE /\ ~Exists /\ \A label \in Labels : HoldsMint(label)
           /\ vault' = [mint |-> boot.mint, admin |-> boot.in.admin,
                        accounts |-> [label \in Labels |-> AccountOf(label)],
                        paused |-> {"jackpot", "game"}]
           /\ boot' = [boot EXCEPT !.pc = "start"]
  <2>1. [label \in Labels |-> AccountOf(label)]
          \in [Labels -> {Explicit(label) : label \in Labels} \cup {Seeded(label) : label \in Labels}]
    BY DEF AccountOf
  <2>2. vault'.mint = boot.mint /\ vault'.admin = boot.in.admin
        /\ \A label \in Labels : vault'.accounts[label] = AccountOf(label)
    BY <1>6
  <2>3. vault' \in VaultRec
    <3>1. boot.in.admin \in {"hot", "cold"} /\ boot.mint \in Nat \ {None}
      BY <1>2, <1>4 DEF BootRec, InRec
    <3>2. {"jackpot", "game"} \in SUBSET {"jackpot", "game"}
      OBVIOUS
    <3>. QED BY <1>6, <2>1, <3>1, <3>2 DEF VaultRec
  <2>4. Exists'
    BY <1>4, <2>2 DEF Exists, NoVault
  <2>5. SetupType'
    BY <1>1, <1>3, <1>6, <2>3 DEF SetupInv, SetupType
  <2>6. RunTrue'
    BY <1>1, <1>2, <1>3, <1>4, <1>6, <2>2, <2>4 DEF SetupInv, RunTrue, Mints
  <2>7. BlocksTrue'
    <3>1. printed' = {}
      BY <1>1, <1>6 DEF SetupInv, BlocksTrue
    <3>2. ASSUME NEW label \in Labels, AccountOf(label) = Seeded(label) PROVE acct[label] = boot.mint
      BY <1>6, <3>2, Addresses DEF AccountOf, HoldsMint
    <3>3. net = "mainnet" => boot.in.admin = "cold" /\ \A label \in Labels : AccountOf(label) = Explicit(label)
      BY <1>2 DEF SetupInv, RunTrue, AccountOf
    <3>. QED BY <1>1, <1>4, <2>2, <2>4, <3>1, <3>2, <3>3 DEF BlocksTrue, Mints
  <2>8. SparTrue'
    BY <1>1 DEF SetupInv, SparTrue
  <2>. QED BY <1>1, <1>6, <2>5, <2>6, <2>7, <2>8 DEF SetupInv
<1>7. \/ UNCHANGED vault /\ boot' \in {NotRunning, [boot EXCEPT !.pc = "start"]}
         /\ (boot' = NotRunning \/ Exists)
      \/ /\ ~Exists /\ \A label \in Labels : HoldsMint(label)
         /\ vault' = [mint |-> boot.mint, admin |-> boot.in.admin,
                      accounts |-> [label \in Labels |-> AccountOf(label)],
                      paused |-> {"jackpot", "game"}]
         /\ boot' = [boot EXCEPT !.pc = "start"]
  BY DEF createPool, Give
<1>. QED BY <1>1, <1>5, <1>6, <1>7

\* Starting switches, and changes nothing a block names.
LEMMA StartStep ==
  ASSUME SetupInv, startPool
  PROVE  /\ SetupInv' /\ UNCHANGED <<printed, minted, acct>>
         /\ vault'.mint = vault.mint /\ vault'.admin = vault.admin /\ vault'.accounts = vault.accounts
<1>1. boot.pc = "start" /\ UNCHANGED <<net, minted, acct, printed, spar>>
  BY DEF startPool
<1>2. boot \in BootRec /\ boot # NotRunning
  BY <1>1 DEF SetupInv, SetupType, NotRunning
<1>3. Exists /\ vault \in VaultRec
  BY <1>1, <1>2 DEF SetupInv, SetupType, RunTrue
<1>4. [boot EXCEPT !.pc = "print"] \in BootRec /\ [boot EXCEPT !.pc = "print"].in = boot.in
      /\ [boot EXCEPT !.pc = "print"].mint = boot.mint /\ [boot EXCEPT !.pc = "print"].pc = "print"
  BY <1>2 DEF BootRec
<1>5. CASE UNCHANGED vault /\ boot' \in {NotRunning, [boot EXCEPT !.pc = "print"]}
  <2>1. boot' = NotRunning \/ boot' \in BootRec
    BY <1>4, <1>5
  <2>2. boot' # NotRunning =>
           /\ boot'.in.envMint \in Mints \cup {None}
           /\ boot'.pc # "mint" => boot'.mint \in Mints /\ (Exists => vault.mint = boot'.mint)
           /\ boot'.pc \in {"start", "print"} => Exists
           /\ net = "mainnet" => boot'.in.admin = "cold" /\ boot'.in.explicit
    BY <1>1, <1>2, <1>3, <1>4, <1>5 DEF SetupInv, RunTrue
  <2>. QED BY <1>1, <1>5, <2>1, <2>2, RunMoves
<1>6. CASE /\ vault' = [vault EXCEPT !.paused = IF "jackpot" \in @ THEN @ \ {"jackpot"} ELSE {}]
           /\ UNCHANGED boot
  <2>1. /\ vault' \in VaultRec /\ vault'.mint = vault.mint /\ vault'.admin = vault.admin
        /\ vault'.accounts = vault.accounts
    BY <1>3, <1>6 DEF VaultRec
  <2>2. Exists'
    BY <2>1 DEF Exists, NoVault, VaultRec, None
  <2>. QED BY <1>1, <1>3, <1>6, <2>1, <2>2
           DEF SetupInv, SetupType, RunTrue, BlocksTrue, PoolBlock, Mints, SparTrue
<1>. QED BY <1>1, <1>5, <1>6 DEF startPool, Give

\* A run that comes to its end prints the pool's block.
LEMMA PrintStep ==
  ASSUME SetupInv, printBlock
  PROVE  SetupInv' /\ UNCHANGED <<minted, acct, vault>> /\ (printed # {} => printed' = printed)
<1>1. /\ boot.pc = "print" /\ boot' = NotRunning /\ UNCHANGED <<net, minted, acct, vault, spar>>
  BY DEF printBlock, Give
<1>2. boot \in BootRec /\ boot # NotRunning /\ Exists /\ vault.mint = boot.mint
  BY <1>1 DEF SetupInv, SetupType, RunTrue, NotRunning
<1>3. printed' = printed \cup {PoolBlock}
  BY <1>2 DEF printBlock, PoolBlock
<1>4. printed \subseteq {PoolBlock}
  BY DEF SetupInv, BlocksTrue
<1>5. PoolBlock' = PoolBlock
  BY <1>1 DEF PoolBlock
<1>6. BlocksTrue'
  BY <1>1, <1>2, <1>3, <1>4, <1>5 DEF SetupInv, BlocksTrue, Exists, Mints
<1>7. SetupType' /\ RunTrue' /\ SparTrue'
  BY <1>1 DEF SetupInv, SetupType, RunTrue, SparTrue, Exists
<1>. QED BY <1>1, <1>3, <1>4, <1>6, <1>7 DEF SetupInv

\* The Sparring wallet is minted for and deposited once.
LEMMA SparStep ==
  ASSUME SetupInv, SparNext
  PROVE  SetupInv' /\ UNCHANGED <<printed, minted, acct, vault>>
<1>1. UNCHANGED <<net, minted, acct, vault, boot, printed>>
  BY DEF SparNext, SparStart, SparSol, SparPrincipal, SparFund, SparDeposit, SparDies
<1>2. spar \in SparRec /\ SparTrue
  BY DEF SetupInv, SetupType
<1>3. spar' \in SparRec /\ SparTrue'
  <2>1. ASSUME NEW p \in {"sol", "principal", "fund", "deposit", "idle"}, spar' = [spar EXCEPT !.pc = p],
               p = "deposit" => spar.pc = "fund",
               p = "fund" => spar.principal = 0
        PROVE  spar' \in SparRec /\ SparTrue'
    BY <1>2, <2>1 DEF SparRec, SparTrue
  <2>2. CASE SparStart
    <3>1. spar' = [pc |-> "sol", runs |-> spar.runs + 1, sol |-> spar.sol, ata |-> spar.ata,
                   made |-> spar.made, principal |-> spar.principal]
      BY <1>2, <2>2 DEF SparStart, SparRec
    <3>. QED BY <1>2, <3>1 DEF SparRec, SparTrue
  <2>3. CASE SparSol
    BY <1>2, <2>3 DEF SparSol, SparRec, SparTrue
  <2>4. CASE SparPrincipal
    BY <1>2, <2>1, <2>4 DEF SparPrincipal, SparRec
  <2>5. CASE SparFund
    <3>1. CASE spar' = [spar EXCEPT !.pc = "deposit", !.ata = @ + 1, !.made = @ + 1] /\ ~WalletHolds
      <4>1. spar.ata = 0 /\ spar.principal = 0 /\ spar.made = 0
        BY <1>2, <2>5, <3>1 DEF SparFund, WalletHolds, SparRec, SparTrue
      <4>2. /\ spar' = [pc |-> "deposit", runs |-> spar.runs, sol |-> spar.sol, ata |-> spar.ata + 1,
                        made |-> spar.made + 1, principal |-> spar.principal]
        BY <1>2, <3>1 DEF SparRec
      <4>. QED BY <1>2, <4>1, <4>2 DEF SparRec, SparTrue
    <3>2. CASE spar' = [spar EXCEPT !.pc = "deposit"] \/ spar' = [spar EXCEPT !.pc = "idle"]
      BY <2>1, <2>5, <3>2 DEF SparFund
    <3>. QED BY <2>5, <3>1, <3>2 DEF SparFund
  <2>6. CASE SparDeposit
    <3>1. /\ spar' = [pc |-> "idle", runs |-> spar.runs, sol |-> spar.sol, ata |-> spar.ata - 1,
                      made |-> spar.made, principal |-> spar.principal + 1] /\ spar.ata > 0
      BY <1>2, <2>6 DEF SparDeposit, SparRec
    <3>. QED BY <1>2, <3>1 DEF SparRec, SparTrue
  <2>7. CASE SparDies
    BY <2>1, <2>7 DEF SparDies
  <2>. QED BY <2>2, <2>3, <2>4, <2>5, <2>6, <2>7 DEF SparNext
<1>. QED BY <1>1, <1>3 DEF SetupInv, SetupType, RunTrue, BlocksTrue, PoolBlock, Exists, Mints

\* Every step keeps the run true to the chain.
LEMMA SetupKept == SetupInv /\ [SetupNext]_setupVars => SetupInv'
<1> SUFFICES ASSUME SetupInv, [SetupNext]_setupVars PROVE SetupInv'
  OBVIOUS
<1>1. CASE BootDies
  <2>1. boot' = NotRunning /\ UNCHANGED <<net, minted, acct, vault, printed, spar>>
    BY <1>1 DEF BootDies, Give
  <2>. QED BY <2>1, RunMoves
<1>2. CASE UNCHANGED setupVars
  BY <1>2 DEF setupVars, SetupInv, SetupType, RunTrue, BlocksTrue, PoolBlock, Exists, Mints, SparTrue
<1>3. CASE BootSteps
  BY <1>3, MintStep, AccountStep, CreateStep, StartStep, PrintStep DEF BootSteps
<1>4. ASSUME NEW in \in Inputs, BootStart(in) PROVE SetupInv'
  BY <1>4, BootStartStep
<1>5. CASE SparNext
  BY <1>5, SparStep
<1>. QED BY <1>1, <1>2, <1>3, <1>4, <1>5 DEF SetupNext

\* While nothing has died and there is no pool, what is there is the run's own.
LEMMA CleanStep == SetupInv /\ CleanInv /\ [SetupNext]_setupVars => CleanInv'
<1> SUFFICES ASSUME SetupInv, CleanInv, [SetupNext]_setupVars PROVE CleanInv'
  OBVIOUS
<1>1. SetupInv'
  BY SetupKept
<1>2. boot = NotRunning \/ (boot \in BootRec /\ boot # NotRunning /\ boot.pc # "idle")
  BY DEF SetupInv, SetupType, BootRec, NotRunning
<1>3. boot.pc \in {"start", "print"} => Exists
  BY <1>2 DEF SetupInv, RunTrue, NotRunning
<1>4. CASE BootDies
  BY <1>4 DEF BootDies, CleanInv, CleanRun
<1>5. CASE UNCHANGED setupVars \/ SparNext
  <2>1. UNCHANGED <<minted, acct, vault, boot, crashes>>
    BY <1>5 DEF setupVars, SparNext, SparStart, SparSol, SparPrincipal, SparFund, SparDeposit, SparDies
  <2>. QED BY <2>1 DEF CleanInv, CleanRun, Exists, HoldsMint
<1>6. ASSUME NEW in \in Inputs, BootStart(in) PROVE CleanInv'
  <2>1. /\ boot.pc = "idle" /\ boot'.pc = "mint" /\ boot'.has = {}
        /\ UNCHANGED <<minted, acct, vault, crashes>>
    BY <1>6 DEF BootStart, Give
  <2>2. boot = NotRunning
    BY <1>2, <2>1
  <2>. QED BY <2>1, <2>2 DEF CleanInv, CleanRun, Exists
<1>7. CASE ensureMint
  <2>1. /\ boot.pc = "mint" /\ UNCHANGED <<acct, vault, crashes>>
        /\ boot' = [boot EXCEPT !.pc = "accounts", !.mint = ResolvedMint(boot.in, minted + 1)]
    BY <1>7 DEF ensureMint, Give
  <2>2. boot \in BootRec
    BY <1>2, <2>1 DEF NotRunning
  <2>3. boot'.pc = "accounts" /\ boot'.has = boot.has
    BY <2>1, <2>2 DEF BootRec
  <2>4. boot' # NotRunning
    BY <2>3 DEF NotRunning
  <2>. QED BY <2>1, <2>3, <2>4 DEF CleanInv, CleanRun, Exists
<1>8. ASSUME NEW label \in Labels, ensureAccount(label) PROVE CleanInv'
  <2>1. /\ boot.pc = "accounts" /\ UNCHANGED <<minted, vault, crashes>>
        /\ label = "buyback" => "treasury" \in boot.has
        /\ boot' = [boot EXCEPT !.has = @ \cup {label}, !.pc = IF label = "buyback" THEN "pool" ELSE @]
        /\ \/ (Exists \/ boot.in.explicit \/ acct[label] # None) /\ acct' = acct
           \/ acct[label] = None /\ acct' = [acct EXCEPT ![label] = boot.mint]
    BY <1>8 DEF ensureAccount, Give, SeededThere
  <2>2. boot \in BootRec
    BY <1>2, <2>1 DEF NotRunning
  <2>3. /\ boot'.in = boot.in /\ boot'.mint = boot.mint /\ boot'.has = boot.has \cup {label}
        /\ boot'.pc = IF label = "buyback" THEN "pool" ELSE "accounts"
    BY <2>1, <2>2 DEF BootRec
  <2>4. boot # NotRunning /\ boot' # NotRunning
    <3>1. boot'.pc = "pool" \/ boot'.pc = "accounts"
      BY <2>3
    <3>2. NotRunning.pc = "idle"
      BY DEF NotRunning
    <3>. QED BY <2>1, <3>1, <3>2
  <2> SUFFICES ASSUME crashes = 0, ~Exists
               PROVE  /\ \A l \in Labels : acct'[l] \in {None, boot.mint}
                      /\ \A l \in boot'.has : boot.in.explicit \/ acct'[l] = boot.mint
                      /\ boot'.pc = "pool" => boot'.has = Labels
    BY <2>1, <2>3, <2>4 DEF CleanInv, CleanRun, Exists, HoldsMint
  <2>5. /\ \A l \in Labels : acct[l] \in {None, boot.mint}
        /\ \A l \in boot.has : boot.in.explicit \/ acct[l] = boot.mint
        /\ acct \in [Labels -> Nat] /\ boot.has \subseteq Labels
    BY <2>1, <2>2, <2>4 DEF CleanInv, CleanRun, HoldsMint, SetupInv, SetupType, BootRec
  <2>6. \A l \in Labels : acct'[l] \in {None, boot.mint}
    BY <2>1, <2>5
  <2>7. \A l \in boot'.has : boot.in.explicit \/ acct'[l] = boot.mint
    BY <2>1, <2>3, <2>5
  <2>8. boot'.pc = "pool" => boot'.has = Labels
    BY <2>1, <2>3, <2>5 DEF Labels
  <2>. QED BY <2>6, <2>7, <2>8
<1>9. CASE createPool
  <2>1. boot.pc = "pool" /\ UNCHANGED <<minted, acct, crashes>>
    BY <1>9 DEF createPool
  <2>2. boot \in BootRec /\ boot # NotRunning
    BY <1>2, <2>1 DEF NotRunning
  <2>3. boot' = [boot EXCEPT !.pc = "start"] \/ (boot' = NotRunning /\ ~Exists /\ \E label \in Labels : ~HoldsMint(label))
    BY <1>9 DEF createPool, Give
  <2>4. CASE boot' = [boot EXCEPT !.pc = "start"]
    <3>1. boot'.pc = "start" /\ boot' # NotRunning
      BY <2>2, <2>4 DEF BootRec, NotRunning
    <3>2. Exists'
      BY <1>1, <3>1 DEF SetupInv, RunTrue
    <3>. QED BY <2>1, <3>2 DEF CleanInv, CleanRun
  <2>5. CASE ~Exists /\ \E label \in Labels : ~HoldsMint(label)
    <3>1. crashes # 0
      BY <2>1, <2>2, <2>5 DEF CleanInv, CleanRun
    <3>. QED BY <2>1, <3>1 DEF CleanInv, CleanRun
  <2>. QED BY <2>3, <2>4, <2>5
<1>10. CASE startPool \/ printBlock
  <2>1. Exists /\ UNCHANGED crashes
    BY <1>3, <1>10 DEF startPool, printBlock
  <2>2. vault' = vault \/ (boot' = boot /\ boot.pc = "start")
    BY <1>10 DEF startPool, printBlock, Give
  <2>3. Exists'
    <3>1. CASE vault' = vault
      BY <2>1, <3>1 DEF Exists
    <3>2. CASE boot' = boot /\ boot.pc = "start"
      BY <1>1, <3>2 DEF SetupInv, RunTrue, NotRunning
    <3>. QED BY <2>2, <3>1, <3>2
  <2>. QED BY <2>1, <2>3 DEF CleanInv, CleanRun
<1>. QED BY <1>4, <1>5, <1>6, <1>7, <1>8, <1>9, <1>10 DEF SetupNext, BootSteps

\* Every step creates nothing twice, but the mint of a run that died.
LEMMA NothingTwice == SetupInv /\ CleanInv /\ [SetupNext]_setupVars => SecondRunCreatesNothing
<1> SUFFICES ASSUME SetupInv, CleanInv, [SetupNext]_setupVars PROVE SecondRunCreatesNothing
  OBVIOUS
<1>1. printed # {} => Exists
  BY DEF SetupInv, BlocksTrue
<1>2. CASE BootDies \/ UNCHANGED setupVars
  <2>1. UNCHANGED <<minted, acct, vault, printed>>
    BY <1>2 DEF BootDies, setupVars
  <2>. QED BY <2>1 DEF SecondRunCreatesNothing
<1>3. CASE ensureMint
  <2>1. (minted' # minted /\ minted > 0) => crashes > 0
    <3> SUFFICES ASSUME minted' # minted, minted > 0 PROVE crashes > 0
      OBVIOUS
    <3>1. ~Exists /\ boot.pc = "mint"
      BY <1>3, MintStep DEF ensureMint
    <3>2. crashes # 0
      BY <3>1 DEF CleanInv, CleanRun
    <3>. QED BY <3>2 DEF CleanInv
  <2>. QED BY <1>3, <2>1, MintStep DEF SecondRunCreatesNothing
<1>4. ASSUME NEW label \in Labels, ensureAccount(label) PROVE SecondRunCreatesNothing
  BY <1>4, AccountStep DEF SecondRunCreatesNothing
<1>5. CASE createPool \/ startPool
  BY <1>5, CreateStep, StartStep DEF SecondRunCreatesNothing
<1>6. CASE printBlock
  BY <1>6, PrintStep DEF SecondRunCreatesNothing
<1>7. ASSUME NEW in \in Inputs, BootStart(in) PROVE SecondRunCreatesNothing
  BY <1>7, BootStartStep DEF SecondRunCreatesNothing
<1>8. CASE SparNext
  BY <1>8, SparStep DEF SecondRunCreatesNothing
<1>. QED BY <1>2, <1>3, <1>4, <1>5, <1>6, <1>7, <1>8 DEF SetupNext, BootSteps

\* bootstrap.ts ("a second run creates nothing and prints the same block") and
\* sparring-setup.ts: every block printed is the pool's, on mainnet no hot key
\* stands in for what must be named, and however often runs die and are run
\* again no pool, account or deposit is made twice. A mint is, but only by a run
\* that is not given ACCEPTED_MINT after another died before create_pool.
THEOREM SetupHolds == SetupSpec => SetupRepeatable
<1>1. SetupInit => SetupInv
  BY ProvisioningAssumption
     DEF SetupInit, SetupInv, SetupType, RunTrue, BlocksTrue, SparTrue, SparRec, Exists, None
<1>2. ASSUME SetupInv PROVE BlockIsPool /\ SparringOnce
  <2>1. ASSUME NEW block \in printed
        PROVE  /\ Exists /\ runBootGuards(block)
               /\ \A label \in Labels :
                    /\ block.accounts[label] = vault.accounts[label]
                    /\ block.accounts[label] = Seeded(label) => acct[label] = block.mint
    <3>1. block = PoolBlock /\ Exists
      BY <1>2, <2>1 DEF SetupInv, BlocksTrue
    <3>. QED BY <1>2, <3>1 DEF SetupInv, BlocksTrue, PoolBlock, runBootGuards
  <2>2. Exists => vault.mint # None
    BY <1>2, Addresses DEF SetupInv, BlocksTrue
  <2>3. SparringOnce
    BY <1>2 DEF SetupInv, SetupType, SparTrue, SparRec, SparringOnce
  <2>. QED BY <1>2, <2>1, <2>2, <2>3 DEF SetupInv, BlocksTrue, BlockIsPool
<1>3. SetupInit => CleanInv
  BY DEF SetupInit, CleanInv, CleanRun, NotRunning, None, Labels
<1>4. SetupInv /\ [SetupNext]_setupVars => SetupInv'
  BY SetupKept
<1>5. SetupInv /\ CleanInv /\ [SetupNext]_setupVars => CleanInv' /\ SecondRunCreatesNothing
  BY CleanStep, NothingTwice
<1>. QED BY <1>1, <1>2, <1>3, <1>4, <1>5, PTL DEF SetupSpec, SetupRepeatable

-----------------------------------------------------------------------------
(* The admin command line: which key signed what, and whom the emergency    *)
(* crank has paid.                                                          *)

\* What is printed for Squads was meant for a key this machine does not hold.
ExportsForeign == \A e \in exports : e.needs # HotKey /\ e.selector = "unset"

SentProperly ==
  lastSent.needs # NoAddress =>
    /\ lastSent.by = lastSent.needs
    /\ lastSent.selector # "unset" => lastSent.by # HotKey

\* The Players still to be paid are distinct, and none of them has been paid:
\* only this makes the count of payments a count of Players.
CrankTrue ==
  /\ owed \in [Debtors -> Nat]
  /\ crankRun \in [pc: {"idle", "batch"}, list: Seq(Debtors), paid: SUBSET Debtors, said: Int,
                   report: {"none", "all", "short"}]
  /\ \A i, j \in 1..Len(crankRun.list) : crankRun.list[i] = crankRun.list[j] => i = j
  /\ \A i \in 1..Len(crankRun.list) : crankRun.list[i] \notin crankRun.paid
  /\ crankRun.said = Cardinality(crankRun.paid)
  /\ \A p \in crankRun.paid : owed[p] = 0

\* A command is signed by the loaded key, which is the key it needs, or printed.
LEMMA CommandSteps ==
  ASSUME ExportsForeign, SentProperly, KeysNext
  PROVE  ExportsForeign' /\ SentProperly' /\ UNCHANGED crankVars
<1>1. ASSUME NEW env \in Envs, NEW cmd \in Commands, AdminCommand(env, cmd)
      PROVE  ExportsForeign' /\ SentProperly' /\ UNCHANGED crankVars
  <2>1. env.selector \in {"unset", "ledger", "misspelt"} /\ UNCHANGED crankVars /\ Starts(env)
    BY <1>1 DEF AdminCommand, Envs
  <2>2. HotKey # LedgerKey
    <3>1. Cardinality({HotKey, LedgerKey, SquadsKey, NoAddress}) = 4
      BY AdminCliAssumption
    <3>2. CASE HotKey = LedgerKey
      <4> DEFINE S == {LedgerKey, SquadsKey, NoAddress}
                 two == {LedgerKey, SquadsKey}
      <4>1. IsFiniteSet(two) /\ Cardinality(two) <= 2
        <5>1. IsFiniteSet({LedgerKey}) /\ Cardinality({LedgerKey}) = 1
          BY FS_Singleton
        <5>2. two = {LedgerKey} \cup {SquadsKey}
          OBVIOUS
        <5>3. Cardinality({LedgerKey} \cup {SquadsKey}) \in {1, 2}
                /\ IsFiniteSet({LedgerKey} \cup {SquadsKey})
          BY <5>1, FS_AddElement
        <5>. QED BY <5>2, <5>3
      <4> HIDE DEF two
      <4>2. Cardinality(two \cup {NoAddress}) \in {Cardinality(two), Cardinality(two) + 1}
        BY <4>1, FS_AddElement
      <4>3. {HotKey, LedgerKey, SquadsKey, NoAddress} = two \cup {NoAddress}
        BY <3>2 DEF two
      <4>4. Cardinality(two) \in Nat
        BY <4>1, FS_CardinalityType
      <4>. QED BY <3>1, <4>1, <4>2, <4>3, <4>4
    <3>. QED BY <3>2
  <2>3. CASE adminMode(env).multisig
    <3>1. exports' = exports \cup {[cmd |-> cmd, needs |-> adminMode(env).signer, selector |-> env.selector]}
            /\ lastSent' = lastSent
      BY <1>1, <2>3 DEF AdminCommand
    <3>2. adminMode(env).signer # LocalKey(env)
      BY <2>3 DEF adminMode
    <3>3. env.address # NoAddress /\ adminMode(env).signer = env.address
      BY <3>2 DEF adminMode
    <3>4. env.selector = "unset"
      BY <2>1, <3>2, <3>3 DEF Starts, parseAdminKeypair, checkLedgerAddress, LocalKey
    <3>5. adminMode(env).signer # HotKey
      BY <3>2, <3>4 DEF LocalKey, parseAdminKeypair
    <3>. QED BY <2>1, <3>1, <3>4, <3>5 DEF ExportsForeign, SentProperly
  <2>4. CASE ~adminMode(env).multisig
    <3>1. /\ lastSent' = [needs |-> adminMode(env).signer, by |-> SigningKey(env),
                          selector |-> env.selector]
          /\ exports' = exports
      BY <1>1, <2>4 DEF AdminCommand
    <3>2. adminMode(env).signer = SigningKey(env)
      BY <2>4 DEF adminMode, SigningKey
    <3>3. env.selector # "unset" => SigningKey(env) # HotKey
      BY <2>1, <2>2 DEF Starts, parseAdminKeypair, SigningKey, LocalKey
    <3>. QED BY <2>1, <3>1, <3>2, <3>3 DEF ExportsForeign, SentProperly
  <2>. QED BY <2>3, <2>4
<1>2. ASSUME NEW feature \in {"pool", "feature"}, pause(feature)
      PROVE  ExportsForeign' /\ SentProperly' /\ UNCHANGED crankVars
  BY <1>2 DEF pause, ExportsForeign, SentProperly
<1>3. ASSUME NEW e \in exports, SquadsExecutes(e)
      PROVE  ExportsForeign' /\ SentProperly' /\ UNCHANGED crankVars
  BY <1>3 DEF SquadsExecutes, ExportsForeign, SentProperly
<1>. QED BY <1>1, <1>2, <1>3 DEF KeysNext

\* A batch is as many Players as it is long, none of them paid before, and what
\* is left to pay has none of them.
LEMMA BatchIsNew ==
  ASSUME NEW list \in Seq(Debtors), NEW n \in Nat, n <= Len(list),
         \A i, j \in 1..Len(list) : list[i] = list[j] => i = j
  PROVE  /\ SubSeq(list, 1, n) \in Seq(Debtors)
         /\ Range(SubSeq(list, 1, n)) = {list[i] : i \in 1..n}
         /\ IsFiniteSet({list[i] : i \in 1..n})
         /\ Cardinality({list[i] : i \in 1..n}) = n
<1> DEFINE f == [i \in 1..n |-> list[i]]
           S == {list[i] : i \in 1..n}
<1>0. Len(list) \in Nat /\ list \in [1..Len(list) -> Debtors] /\ 1..n \subseteq 1..Len(list)
  BY LenProperties
<1>1. SubSeq(list, 1, n) = f /\ f \in Seq(Debtors)
  <2>1. SubSeq(list, 1, n) \in [1..n -> Debtors]
        /\ \A i \in 1..n : SubSeq(list, 1, n)[i] = list[i]
    <3>1. CASE n = 0
      BY <1>0, <3>1, SubSeqEmpty
    <3>2. CASE n > 0
      <4>1. /\ Len(SubSeq(list, 1, n)) = n
            /\ \A i \in 1..n : SubSeq(list, 1, n)[i] = list[i]
        BY <1>0, <3>2
      <4>2. \A i \in 1..n : SubSeq(list, 1, n)[i] \in Debtors
        BY <1>0, <4>1
      <4>3. SubSeq(list, 1, n) \in Seq(Debtors)
        BY <1>0, <3>2
      <4>. QED BY <4>1, <4>3, LenProperties
    <3>. QED BY <3>1, <3>2
  <2>2. SubSeq(list, 1, n) = f
    BY <2>1
  <2>. QED BY <2>1, <2>2, IsASeq
<1>2. Range(f) = S
  BY DEF Range
<1>3. f \in Injection(1..n, S)
  BY <1>0 DEF Injection, IsInjective
<1>4. f \in Surjection(1..n, S)
  BY DEF Surjection
<1>5. ExistsBijection(1..n, S)
  BY <1>3, <1>4 DEF ExistsBijection, Bijection
<1>6. IsFiniteSet(1..n) /\ Cardinality(1..n) = n
  BY FS_Interval
<1>. QED BY <1>1, <1>2, <1>5, <1>6, FS_Bijection

\* Paying everyone at once.
LEMMA BatchPaid ==
  ASSUME CrankTrue, PayBatch
  PROVE  owed' \in [Debtors -> Nat] /\ (\A p \in crankRun.paid : owed'[p] = 0)
         /\ \A p \in CrankBatch \cap Debtors : owed'[p] = 0
  BY DEF CrankTrue, PayBatch

\* A batch that lands adds its Players to those paid.
LEMMA CrankPaysStep ==
  ASSUME CrankTrue, CrankPays
  PROVE  CrankTrue'
<1> DEFINE list == crankRun.list
           paid == crankRun.paid
           n == IF Len(list) < BatchSize THEN Len(list) ELSE BatchSize
           batch == {list[i] : i \in 1..n}
           rest == AfterBatch
<1>0. /\ list \in Seq(Debtors) /\ Len(list) \in Nat /\ list \in [1..Len(list) -> Debtors]
      /\ BatchSize \in Nat /\ BatchSize > 0
      /\ paid \in SUBSET Debtors /\ n \in Nat /\ n <= Len(list)
      /\ \A i, j \in 1..Len(list) : list[i] = list[j] => i = j
      /\ \A i \in 1..Len(list) : list[i] \notin paid
      /\ crankRun.said = Cardinality(paid) /\ crankRun.report \in {"none", "all", "short"}
  BY AdminCliAssumption, LenProperties DEF CrankTrue
<1>1. CrankBatch = batch /\ IsFiniteSet(batch) /\ Cardinality(batch) = n
  BY <1>0, BatchIsNew DEF CrankBatch
<1>2. batch \in SUBSET Debtors /\ batch \cap paid = {}
  BY <1>0
<1>3. IsFiniteSet(paid) /\ Cardinality(paid) \in Nat
  BY <1>0, AdminCliAssumption, FS_Subset, FS_CardinalityType
<1>4. Cardinality(paid \cup batch) = Cardinality(paid) + n
  <2>1. paid \cap batch = {}
    BY <1>2
  <2> HIDE DEF batch, paid, n
  <2>2. Cardinality(paid \cup batch) = Cardinality(paid) + Cardinality(batch) - Cardinality({})
    BY <1>1, <1>3, <2>1, FS_Union
  <2>. QED BY <1>0, <1>1, <1>3, <2>2, FS_EmptySet
<1>5. /\ rest \in Seq(Debtors)
      /\ \A i \in 1..Len(rest) : i + BatchSize \in 1..Len(list) /\ rest[i] = list[i + BatchSize]
  <2>1. CASE Len(list) > BatchSize
    <3>1. /\ SubSeq(list, BatchSize + 1, Len(list)) \in Seq(Debtors)
          /\ Len(SubSeq(list, BatchSize + 1, Len(list))) = Len(list) - BatchSize
          /\ \A i \in 1..(Len(list) - BatchSize) :
               SubSeq(list, BatchSize + 1, Len(list))[i] = list[i + BatchSize]
      <4> DEFINE m == BatchSize + 1
                 s == SubSeq(list, m, Len(list))
      <4> HIDE DEF s
      <4>1. m \in Int /\ m <= Len(list) /\ \A i \in m..Len(list) : list[i] \in Debtors
        BY <1>0, <2>1
      <4>2. /\ s \in Seq(Debtors) /\ Len(s) = Len(list) - m + 1
            /\ \A i \in 1..(Len(list) - m + 1) : s[i] = list[m + i - 1]
        BY <1>0, <4>1, SubSeqProperties DEF s
      <4>3. \A i \in 1..(Len(list) - BatchSize) : m + i - 1 = i + BatchSize
        BY <1>0
      <4>4. Len(s) = Len(list) - BatchSize
        BY <1>0, <4>2
      <4>5. \A i \in 1..(Len(list) - BatchSize) : s[i] = list[i + BatchSize]
        <5> SUFFICES ASSUME NEW i \in 1..(Len(list) - BatchSize) PROVE s[i] = list[i + BatchSize]
          OBVIOUS
        <5>1. i \in 1..(Len(list) - m + 1)
          BY <1>0
        <5>. QED BY <4>2, <4>3, <5>1
      <4>6. s = SubSeq(list, BatchSize + 1, Len(list))
        BY DEF s
      <4>. HIDE DEF m
      <4>. QED BY <4>2, <4>4, <4>5, <4>6
    <3>2. rest = SubSeq(list, BatchSize + 1, Len(list))
      BY DEF AfterBatch
    <3> HIDE DEF rest, list
    <3>3. rest \in Seq(Debtors) /\ Len(rest) = Len(list) - BatchSize
      BY <3>1, <3>2
    <3>4. ASSUME NEW i \in 1..(Len(list) - BatchSize)
          PROVE  i + BatchSize \in 1..Len(list) /\ rest[i] = list[i + BatchSize]
      <4>1. rest[i] = list[i + BatchSize]
        BY <3>1, <3>2
      <4>. QED BY <1>0, <4>1
    <3>. QED BY <3>3, <3>4
  <2>2. CASE Len(list) <= BatchSize
    <3>1. rest = << >>
      BY <1>0, <2>2, SubSeqEmpty DEF AfterBatch
    <3>2. Len(<< >>) = 0 /\ << >> \in Seq(Debtors)
      OBVIOUS
    <3>. QED BY <3>1, <3>2
  <2>3. Len(list) > BatchSize \/ Len(list) <= BatchSize
    BY <1>0
  <2>. QED BY <2>1, <2>2, <2>3
<1>6. Len(rest) \in Nat
  BY <1>5, LenProperties
<1>7. \A i \in 1..Len(rest) : rest[i] \notin paid \cup batch
  <2> SUFFICES ASSUME NEW i \in 1..Len(rest) PROVE rest[i] \notin paid \cup batch
    OBVIOUS
  <2>1. i + BatchSize \in 1..Len(list) /\ rest[i] = list[i + BatchSize] /\ i + BatchSize > n
    BY <1>0, <1>5, <1>6
  <2>2. \A j \in 1..n : j \in 1..Len(list) /\ j # i + BatchSize
    BY <1>0, <1>6, <2>1
  <2>. QED BY <1>0, <2>1, <2>2
<1>8. \A i, j \in 1..Len(rest) : rest[i] = rest[j] => i = j
  <2> SUFFICES ASSUME NEW i \in 1..Len(rest), NEW j \in 1..Len(rest), rest[i] = rest[j] PROVE i = j
    OBVIOUS
  <2>1. list[i + BatchSize] = list[j + BatchSize]
        /\ i + BatchSize \in 1..Len(list) /\ j + BatchSize \in 1..Len(list)
    BY <1>5
  <2>2. i + BatchSize = j + BatchSize
    BY <1>0, <2>1
  <2>3. i \in Int /\ j \in Int
    BY <1>6
  <2>. QED BY <1>0, <2>2, <2>3
<1>9. /\ owed' \in [Debtors -> Nat] /\ \A p \in paid \cup batch : owed'[p] = 0
  BY <1>1, <1>2, BatchPaid DEF CrankPays
<1>10. crankRun' = [pc |-> IF rest = <<>> THEN "idle" ELSE "batch", list |-> rest,
                    paid |-> paid \cup batch, said |-> crankRun.said + n,
                    report |-> IF rest = <<>> THEN "all" ELSE crankRun.report]
  <2>1. crankRun' = [crankRun EXCEPT !.list = AfterBatch, !.paid = @ \cup batch, !.said = @ + n,
                       !.pc = IF AfterBatch = <<>> THEN "idle" ELSE "batch",
                       !.report = IF AfterBatch = <<>> THEN "all" ELSE @]
    BY <1>1 DEF CrankPays
  <2> HIDE DEF batch, n, rest
  <2>2. rest = AfterBatch
    BY DEF rest
  <2>. QED BY <2>1, <2>2 DEF CrankTrue
<1> HIDE DEF batch, n, rest, list, paid
<1>11. crankRun.said + n \in Int /\ paid \cup batch \in SUBSET Debtors
  BY <1>0, <1>2, <1>3
<1>. QED BY <1>0, <1>3, <1>4, <1>5, <1>7, <1>8, <1>9, <1>10, <1>11 DEF CrankTrue

\* No step of the crank, of an owner beside it or of the house makes its count
\* or its list wrong.
LEMMA CrankSteps ==
  ASSUME CrankTrue, CrankNext
  PROVE  CrankTrue' /\ UNCHANGED rolesVars
<1>1. CASE CrankStart
  <2> DEFINE S == playersOwedABalance
  <2>1. PICK list \in Injection(1..Cardinality(S), S) :
          crankRun' = [NoCrank EXCEPT !.pc = "batch", !.list = list]
    BY <1>1 DEF CrankStart
  <2>2. UNCHANGED <<owed, roles, exports, lastSent>>
    BY <1>1 DEF CrankStart, rolesVars
  <2>3. S \in SUBSET Debtors /\ IsFiniteSet(S) /\ Cardinality(S) \in Nat
    BY AdminCliAssumption, FS_Subset, FS_CardinalityType DEF playersOwedABalance
  <2> HIDE DEF S
  <2>4. list \in [1..Cardinality(S) -> S] /\ \A i, j \in 1..Cardinality(S) : list[i] = list[j] => i = j
    BY <2>1 DEF Injection, IsInjective
  <2>5. list \in Seq(Debtors) /\ Len(list) = Cardinality(S)
    <3>1. list \in [1..Cardinality(S) -> Debtors]
      BY <2>3, <2>4
    <3>2. list \in Seq(Debtors)
      BY <2>3, <3>1, IsASeq
    <3>3. DOMAIN list = 1..Len(list) /\ DOMAIN list = 1..Cardinality(S) /\ Len(list) \in Nat
      BY <3>1, <3>2, LenProperties
    <3>. QED BY <2>3, <3>2, <3>3
  <2>6. crankRun' = [pc |-> "batch", list |-> list, paid |-> {}, said |-> 0, report |-> "none"]
    BY <2>1 DEF NoCrank
  <2>7. Cardinality({}) = 0
    BY FS_EmptySet
  <2>. QED BY <2>2, <2>4, <2>5, <2>6, <2>7 DEF CrankTrue, rolesVars
<1>2. CASE CrankPays
  BY <1>2, CrankPaysStep DEF CrankPays
<1>3. CASE CrankShort
  <2>1. crankRun' = [pc |-> "idle", list |-> crankRun.list, paid |-> crankRun.paid,
                     said |-> crankRun.said, report |-> "short"]
    BY <1>3 DEF CrankShort, CrankTrue
  <2>2. UNCHANGED <<owed, roles, exports, lastSent>>
    BY <1>3 DEF CrankShort, rolesVars
  <2>. QED BY <2>1, <2>2 DEF CrankTrue, rolesVars
<1>4. CASE CrankThrows
  <2>1. crankRun' = [pc |-> "idle", list |-> <<>>, paid |-> {}, said |-> 0, report |-> "none"]
    BY <1>4 DEF CrankThrows, NoCrank
  <2>2. UNCHANGED <<roles, exports, lastSent>>
    BY <1>4 DEF CrankThrows, rolesVars
  <2>3. owed' \in [Debtors -> Nat]
    BY <1>4, BatchPaid DEF CrankThrows, CrankTrue
  <2>4. Cardinality({}) = 0 /\ <<>> \in Seq(Debtors) /\ Len(<<>>) = 0
    BY FS_EmptySet
  <2>. QED BY <2>1, <2>2, <2>3, <2>4 DEF CrankTrue, rolesVars
<1>5. CASE returnPrincipal
  BY <1>5 DEF returnPrincipal, CrankTrue, rolesVars
<1>6. ASSUME NEW p \in Debtors, OwnerExits(p)
      PROVE  CrankTrue' /\ UNCHANGED rolesVars
  <2>1. owed' = [owed EXCEPT ![p] = 0] /\ UNCHANGED <<crankRun, roles, exports, lastSent>>
    BY <1>6 DEF OwnerExits, rolesVars
  <2>. QED BY <2>1 DEF CrankTrue, rolesVars
<1>. QED BY <1>1, <1>2, <1>3, <1>4, <1>5, <1>6 DEF CrankNext

AdminInv == ExportsForeign /\ SentProperly /\ CrankTrue

\* The invariant of the command line.
LEMMA AdminInductive == AdminSpec => []AdminInv
<1>1. AdminInit => AdminInv
  <2> SUFFICES ASSUME AdminInit PROVE AdminInv
    OBVIOUS
  <2>1. Cardinality({}) = 0 /\ <<>> \in Seq(Debtors) /\ Len(<<>>) = 0
    BY FS_EmptySet
  <2>2. owed \in [Debtors -> Nat]
    BY AdminCliAssumption DEF AdminInit
  <2>3. crankRun = [pc |-> "idle", list |-> <<>>, paid |-> {}, said |-> 0, report |-> "none"]
    BY DEF AdminInit, NoCrank
  <2>4. CrankTrue
    BY <2>1, <2>2, <2>3 DEF CrankTrue
  <2>. QED BY <2>4 DEF AdminInit, AdminInv, ExportsForeign, SentProperly
<1>2. AdminInv /\ [KeysNext \/ CrankNext]_adminVars => AdminInv'
  <2> SUFFICES ASSUME AdminInv, [KeysNext \/ CrankNext]_adminVars PROVE AdminInv'
    OBVIOUS
  <2>1. CASE KeysNext
    <3>1. ExportsForeign' /\ SentProperly' /\ UNCHANGED crankVars
      BY <2>1, CommandSteps DEF AdminInv
    <3>. QED BY <3>1 DEF AdminInv, CrankTrue, crankVars
  <2>2. CASE CrankNext
    <3>1. CrankTrue' /\ UNCHANGED rolesVars
      BY <2>2, CrankSteps DEF AdminInv
    <3>. QED BY <3>1 DEF AdminInv, ExportsForeign, SentProperly, rolesVars
  <2>3. CASE UNCHANGED adminVars
    BY <2>3 DEF AdminInv, ExportsForeign, SentProperly, CrankTrue, adminVars
  <2>. QED BY <2>1, <2>2, <2>3
<1>. QED BY <1>1, <1>2, PTL DEF AdminSpec

\* Whatever the environment, the roles and the keys, and for any number of
\* Players paid in batches of any size while they withdraw by themselves: what
\* is sent is signed by the key it needs, and whoever the crank reports paid is
\* paid, and counted once (index.ts:159, 563).
THEOREM ReportsHold == AdminSpec => []AdminHonest
<1>1. AdminInv => AdminHonest
  BY DEF AdminInv, AdminHonest, SignedByItsKey, CrankReportTrue, ExportsForeign, SentProperly, CrankTrue
<1>. QED BY <1>1, AdminInductive, PTL

=============================================================================
