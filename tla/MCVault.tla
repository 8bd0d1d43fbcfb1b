------------------------------- MODULE MCVault -------------------------------
(* The program in four slices, chosen at the start so that their states add up *)
(* instead of multiplying. "custody": deposits, requests, payouts, lending,    *)
(* shutdown and the exits after it, with epochs beginning underneath. "game":  *)
(* rounds open, fill, draw, settle and void while epochs begin underneath      *)
(* them, early or late. "accrual": epochs begun on time, late, and past whole  *)
(* grid points. "operated": three epochs, with the operator service's own      *)
(* conditions. The second-by-second reference of Weight runs beside all.       *)
EXTENDS EagerWeight, HonestOperator, TLC

VARIABLE slice

CustodyParams ==
  [epoch_seconds |-> 2, epoch_anchor |-> 1, round_seconds |-> 1, close_buffer |-> 0,
   vrf_timeout |-> 1, min_deposit |-> 1, house_cut_bps |-> 0, min_jackpot |-> 1,
   registration_window |-> 0, payout_timeout |-> 1, base_rate_bps |-> 0,
   tickets_per_usdc |-> 1, bonus_cap_bps |-> 10]
GameParams ==
  [CustodyParams EXCEPT !.epoch_seconds = 3, !.round_seconds = 2, !.close_buffer = 1,
                        !.house_cut_bps = 5]

AccrualParams == [CustodyParams EXCEPT !.base_rate_bps = 5]
DrawParams == [CustodyParams EXCEPT !.epoch_seconds = 1]

\* The same pool without a house cut.
NoCutParams == [GameParams EXCEPT !.house_cut_bps = 0]

Symmetry == Permutations(Owners)

\* The bounds of one slice, below those of the configuration.
Within(time, epoch, funds) ==
  /\ now' <= time /\ pool'.current_epoch_id <= epoch
  /\ HeldTokens' <= funds /\ (HeldTokens + tokens.admin)' <= funds

\* The pool is not paused: a pause takes instructions away and none needs one.
CustodySlice ==
  /\ \/ Tick
     \/ \E s \in Keys :
          \/ set_feature_pause(s, "Jackpot", FALSE)
          \/ shutdown(s)
          \/ begin_epoch(s)
     \/ \E p \in Players :
          \/ \E amount \in Amounts : deposit(p, amount) \/ request_withdraw(p, amount)
          \/ process_withdraw(p)
          \/ emergency_withdraw(p)
     \/ TreasuryNext
     \/ \E amount \in Amounts : fund_yield(amount)
  /\ Within(4, 2, 4)

\* The pool is set up in a fixed order at StartTime (one deposit each, then the
\* two switches); from then on the operator begins epochs when it likes, the
\* first one at second 1 or 2, and everything in Rounds may happen.
Setup ==
  \/ /\ pool.jackpot_paused
     /\ \/ \E p \in Owners, amount \in Amounts : ~players[p].live /\ deposit(p, amount)
        \/ \E s \in Keys : set_feature_pause(s, "Jackpot", FALSE)
  \/ /\ ~pool.jackpot_paused
     /\ \E s \in Keys : set_feature_pause(s, "Game", FALSE)

\* Stakes are placed in the first round only, on one tile or on both; later
\* rounds live off the carry.
GameNext ==
  \/ Setup
  \/ ~pool.game_paused /\ (pool.current_epoch_id > 0 \/ now < 2) /\ Tick
  \/ \E s \in Keys : begin_epoch(s)
  \/ OperatorRoundNext \/ AnyoneRoundNext
  \/ \E p \in Owners, r \in RoundIds :
       \/ /\ r = 1
          /\ \E tiles \in {{0}, Tiles}, stake \in Stakes : buy_position(p, r, tiles, stake)
       \/ settle_position(p, r)

GameSlice == GameNext /\ Within(5, 2, 4)

\* Deposits, requests, a grant and credited yield of one depositor.
AccrualSlice ==
  /\ \/ Tick
     \/ \E s \in Keys :
          \/ begin_epoch(s)
          \/ set_feature_pause(s, "Jackpot", FALSE)
          \/ \E p \in Owners : EntriesNow(p) \in Amounts /\ grant_tickets_admin(s, p, 1)
     \/ \E p \in Owners, amount \in Amounts : deposit(p, amount) \/ request_withdraw(p, amount)
     \/ \E amount \in Amounts : fund_yield(amount)
     \/ \E e \in EpochIds, p \in Owners : register(e, p)
  /\ Within(5, 3, 4)
  /\ Cardinality({p \in Owners : players'[p].live}) <= 1

\* The operator service's epochs, with everybody there from the start.
OperatedEpochs ==
  /\ \/ Tick
     \/ \E s \in Keys : set_feature_pause(s, "Jackpot", FALSE)
     \/ tokens.jackpot_vault = 0 /\ fund_jackpot(1)
     \/ \E p \in Owners : now = StartTime /\ ~players[p].live /\ deposit(p, 1)
     \/ AnyoneEpochNext
     \/ operator_begin_epoch \/ operator_close_registration
  /\ Within(5, 3, 3)

SliceInit ==
  /\ NothingEarned
  /\ \/ slice = "custody" /\ InitWith(CustodyParams)
     \/ slice = "game" /\ InitWith(GameParams)
     \/ slice = "accrual" /\ InitWith(AccrualParams)
     \/ slice = "operated" /\ InitWith(DrawParams)
SliceNext ==
  /\ UNCHANGED slice
  /\ \/ slice = "custody" /\ CustodySlice
     \/ slice = "game" /\ GameSlice
     \/ slice = "accrual" /\ AccrualSlice
     \/ slice = "operated" /\ OperatedEpochs
  /\ CountEagerly
SliceSpec == SliceInit /\ [][SliceNext]_<<evars, slice>>

\* The game with the operator service's own conditions on epochs and rounds.
OperatedGame ==
  /\ \/ Setup
     \/ ~pool.game_paused /\ Tick
     \/ operator_begin_epoch \/ operator_create_round
     \/ PlayNext \/ AnyoneRoundNext
  /\ UNCHANGED <<eager, slice>>

OperatedSliceSpec ==
  slice = "game" /\ NothingEarned /\ Init /\ [][OperatedGame]_<<evars, slice>>
=============================================================================
