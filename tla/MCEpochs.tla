------------------------------ MODULE MCEpochs ------------------------------
(* Epochs and roles in two slices chosen at the start. "program": the epoch     *)
(* lifecycle over three epochs, so that draws overlap each other and the next  *)
(* registration. "roles": the admin and the operator change hands, parameters  *)
(* change, tickets are bought and granted, the pool shuts down for good.       *)
EXTENDS ReadApi, TLC

VARIABLE slice

DrawParams ==
  [epoch_seconds |-> 1, epoch_anchor |-> 2, round_seconds |-> 1, close_buffer |-> 0,
   vrf_timeout |-> 1, min_deposit |-> 1, house_cut_bps |-> 0, min_jackpot |-> 1,
   registration_window |-> 0, payout_timeout |-> 1, base_rate_bps |-> 10,
   tickets_per_usdc |-> 1, bonus_cap_bps |-> 10]
RoleParams ==
  [DrawParams EXCEPT !.epoch_seconds = 2, !.epoch_anchor = 1, !.house_cut_bps = 5,
                     !.base_rate_bps = 0, !.tickets_per_usdc = 2]
\* set_params lengthens the epoch.
RoleChoices == {[RoleParams EXCEPT !.epoch_seconds = 3]}

Symmetry == Permutations(Owners)

\* The bounds of one slice, below those of the configuration.
Within(time, epoch, funds, depositors) ==
  /\ now' <= time /\ pool'.current_epoch_id <= epoch
  /\ HeldTokens' <= funds /\ (HeldTokens + tokens.admin)' <= funds
  /\ Cardinality({p \in Owners : players'[p].live}) <= depositors

\* The jackpot is switched on and funded.
Setup ==
  \/ \E s \in Keys : set_feature_pause(s, "Jackpot", FALSE)
  \/ \E amount \in Amounts : tokens.jackpot_vault = 0 /\ fund_jackpot(amount)

FirstDeposit == \E p \in Owners, amount \in Amounts : ~players[p].live /\ deposit(p, amount)

\* A yield budget, and a ticket for the House before the third epoch.
HouseAndYield ==
  \/ \E amount \in Amounts : pool.yield_budget = 0 /\ fund_yield(amount)
  \/ now < 4 /\ EntriesNow(House) = 0 /\ \E s \in Keys : grant_tickets_admin(s, House, 1)

\* Whoever holds the operator role, with no more care than the program asks.
ProgramSlice ==
  /\ Tick \/ Setup \/ FirstDeposit \/ HouseAndYield \/ OperatorEpochNext \/ AnyoneEpochNext
  /\ Within(5, 3, 3, 1)

\* The game stays off and the admin grants to the House only.
RolesSlice ==
  /\ \/ Tick
     \/ \E s \in Keys :
          \/ \E v \in ParamChoices : set_params(s, v)
          \/ set_pause(s, FALSE) \/ set_feature_pause(s, "Jackpot", FALSE)
          \/ shutdown(s)
          \/ \E k \in Keys : set_operator(s, k) \/ propose_admin(s, k)
          \/ accept_admin(s)
          \/ sweep_house(s)
     \/ OperatorEpochNext
     \/ \E s \in Keys, p \in Players, amount \in Amounts :
          \/ EntriesNow(p) <= 1 /\ grant_tickets_operator(s, p, amount)
          \/ p = House /\ EntriesNow(p) = 0 /\ grant_tickets_admin(s, p, amount)
     \/ \E p \in Players, amount \in Amounts :
          deposit(p, amount) \/ request_withdraw(p, amount) \/ buy_tickets(p, amount)
  /\ Within(3, 2, 2, 1)

SliceInit ==
  \/ slice = "program" /\ InitWith(DrawParams)
  \/ slice = "roles" /\ InitWith(RoleParams)
SliceNext ==
  /\ UNCHANGED slice
  /\ \/ slice = "program" /\ ProgramSlice
     \/ slice = "roles" /\ RolesSlice
SliceSpec == SliceInit /\ [][SliceNext]_<<vars, slice>>

\* The program's own hold, nothing else in the way.
HoldSliceSpec ==
  /\ SliceInit /\ slice = "program"
  /\ [][/\ Tick \/ Setup \/ FirstDeposit \/ OperatorEpochNext \/ AnyoneEpochNext
        /\ UNCHANGED slice]_<<vars, slice>>
=============================================================================
