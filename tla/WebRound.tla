------------------------------ MODULE WebRound ------------------------------
(***************************************************************************)
(* The browser's poll (useStatePoll.ts) and the reveal queue it feeds      *)
(* (useRoundEngine.ts, engine.ts).                                         *)
(*                                                                         *)
(* Requests carry the round the page tracks and may overtake one another.  *)
(* A poll goes on by a timer the response sets; a kick or the tab coming   *)
(* back runs one at once. `held` is the timer the variable names; a second *)
(* response while it is pending leaves the first one behind, an orphan     *)
(* that still fires.                                                       *)
(***************************************************************************)
EXTENDS Integers, Sequences, FiniteSets

CONSTANTS MaxRound,    \* bound on rounds
          MaxNudges    \* bound on kicks, returns to the tab and wallet changes

ASSUME WebRoundAssumption == {MaxRound, MaxNudges} \subseteq Nat

VARIABLES
  board,     \* the mirrored rounds: id -> status
  hidden,    \* document.hidden
  poll,      \* trackedRoundRef, the timers
  flight,    \* requests under way: slot -> what was asked, what was answered
  eng,       \* the engine: seenAnyRound, remembered, played, busy, and the
             \* animations running
  reveals,   \* the animations begun, in order
  watched,   \* rounds the page has shown before their result
  overtaken, \* two requests have been under way at once
  nudges

webVars == <<board, hidden, poll, flight, eng, reveals, watched, overtaken, nudges>>

Rounds == 1..MaxRound
NoRound == 0
Slots == 1..(MaxNudges + 1)
NoFlight == [pc |-> "free"]
InAir == {f \in Slots : flight[f].pc # "free"}

-----------------------------------------------------------------------------
(* The mirror.                                                             *)

\* "open" stands for Open and Requested, "revealed" for Settled and Forfeited.
Unresolved == {k \in Rounds : board[k] = "open"}
Opened == {k \in Rounds : board[k] # "none"}
Newest(ks) == IF ks = {} THEN NoRound ELSE CHOOSE k \in ks : \A j \in ks : j <= k

RoundOpens ==
  /\ Unresolved = {} /\ Newest(Opened) < MaxRound
  /\ board' = [board EXCEPT ![Newest(Opened) + 1] = "open"]
  /\ UNCHANGED <<hidden, poll, flight, eng, reveals, watched, overtaken, nudges>>

RoundEnds(k) ==
  /\ board[k] = "open"
  /\ \E status \in {"revealed", "voided"} : board' = [board EXCEPT ![k] = status]
  /\ UNCHANGED <<hidden, poll, flight, eng, reveals, watched, overtaken, nudges>>

\* getState's rounds: the open one, and the one asked for or else the open one.
getState(asked) ==
  LET open  == Newest(Unresolved)
      round == IF asked # NoRound THEN asked ELSE open
  IN [open |-> open, round |-> round, status |-> IF round = NoRound THEN "none" ELSE board[round]]

-----------------------------------------------------------------------------
(* The reveal queue.                                                       *)

isRevealed(status) == status = "revealed"
Oldest(ks) == CHOOSE k \in ks : \A j \in ks : k <= j

\* Mutant: a second animation begins while the first runs.
pump_busy(e, shown) ==
  LET waiting == e.remembered \ e.played IN
  IF waiting = {} THEN [eng |-> e, reveals |-> shown]
  ELSE [eng |-> [e EXCEPT !.played = @ \cup {Oldest(waiting)}, !.busy = TRUE,
                        !.running = @ \cup {Oldest(waiting)}],
        reveals |-> Append(shown, Oldest(waiting))]

\* pump: the oldest remembered round not played yet, one at a time.
pump(e, shown) ==
  LET waiting == e.remembered \ e.played IN
  IF e.busy \/ waiting = {} THEN [eng |-> e, reveals |-> shown]
  ELSE [eng |-> [e EXCEPT !.played = @ \cup {Oldest(waiting)}, !.busy = TRUE,
                        !.running = @ \cup {Oldest(waiting)}],
        reveals |-> Append(shown, Oldest(waiting))]

FirstSeen(e) == ~e.seenAnyRound

\* The effect on [round]: remember a result; the first round ever seen counts
\* as played.
noteRound(e, shown, round, status) ==
  LET seen == [e EXCEPT !.seenAnyRound = TRUE]
      kept == [seen EXCEPT !.remembered = @ \cup {round}]
  IN IF round = NoRound THEN [eng |-> e, reveals |-> shown]
     ELSE IF ~isRevealed(status) \/ round \in e.remembered THEN [eng |-> seen, reveals |-> shown]
     ELSE IF FirstSeen(e)
          THEN [eng |-> [kept EXCEPT !.played = @ \cup {round}], reveals |-> shown]
     ELSE pump(kept, shown)

\* runReveal's last timeout: not busy any more, pump again.
RevealDone(k) ==
  /\ k \in eng.running
  /\ LET next == pump([eng EXCEPT !.busy = FALSE, !.running = @ \ {k}], reveals) IN
     eng' = next.eng /\ reveals' = next.reveals
  /\ UNCHANGED <<board, hidden, poll, flight, watched, overtaken, nudges>>

-----------------------------------------------------------------------------
(* The poll.                                                               *)

\* Mutant: always asks for the open round.
Asked_open == NoRound

Asked == poll.tracked

FreeSlot == CHOOSE f \in Slots : flight[f].pc = "free"
Sent(air) == [air EXCEPT ![FreeSlot] = [pc |-> "sent", asked |-> Asked]]

\* run: forgets the named timer; a hidden tab asks nothing and sets no timer.
run(timers, away) ==
  /\ poll' = [timers EXCEPT !.held = FALSE]
  /\ flight' = IF away THEN flight ELSE Sent(flight)
  /\ overtaken' = (overtaken \/ (~away /\ InAir # {}))

TimerFires ==
  /\ \/ poll.held /\ run(poll, hidden)
     \/ poll.orphans > 0 /\ run([poll EXCEPT !.orphans = @ - 1], hidden)
  /\ UNCHANGED <<board, hidden, eng, reveals, watched, nudges>>

kick ==
  /\ nudges < MaxNudges /\ nudges' = nudges + 1
  /\ run(poll, hidden)
  /\ UNCHANGED <<board, hidden, eng, reveals, watched>>

Hide ==
  /\ ~hidden /\ hidden' = TRUE
  /\ UNCHANGED <<board, poll, flight, eng, reveals, watched, overtaken, nudges>>

\* Mutant: the tab coming back waits for a timer.
Resumes_by_timer == UNCHANGED <<poll, flight, overtaken>>

\* onVisibility
Resumes == run(poll, FALSE)

Show ==
  /\ hidden /\ hidden' = FALSE
  /\ nudges < MaxNudges /\ nudges' = nudges + 1
  /\ Resumes
  /\ UNCHANGED <<board, eng, reveals, watched>>

\* Another wallet: the effect is torn down, requests aborted, and run anew.
WalletChanges ==
  /\ nudges < MaxNudges /\ nudges' = nudges + 1
  /\ poll' = [poll EXCEPT !.held = FALSE, !.orphans = 0]
  /\ flight' = [f \in Slots |-> IF ~hidden /\ f = 1 THEN [pc |-> "sent", asked |-> Asked] ELSE NoFlight]
  /\ UNCHANGED <<board, hidden, eng, reveals, watched, overtaken>>

\* The backend reads its rows at some moment of a request.
Sample(f) ==
  /\ flight[f].pc = "sent"
  /\ flight' = [flight EXCEPT ![f] = [pc |-> "answered", got |-> getState(flight[f].asked)]]
  /\ UNCHANGED <<board, hidden, poll, eng, reveals, watched, overtaken, nudges>>

scheduleNext(tracked) ==
  [tracked |-> tracked, held |-> TRUE, orphans |-> poll.orphans + (IF poll.held THEN 1 ELSE 0)]

Arrive(f) ==
  /\ flight[f].pc = "answered"
  /\ LET got  == flight[f].got
         note == noteRound(eng, reveals, got.round, got.status)
     IN /\ poll' = scheduleNext(IF got.open # NoRound THEN got.open ELSE poll.tracked)
        /\ eng' = note.eng /\ reveals' = note.reveals
        /\ watched' = IF got.status = "open" THEN watched \cup {got.round} ELSE watched
  /\ flight' = [flight EXCEPT ![f] = NoFlight]
  /\ UNCHANGED <<board, hidden, overtaken, nudges>>

Fails(f) ==
  /\ flight[f].pc # "free"
  /\ poll' = scheduleNext(poll.tracked)
  /\ flight' = [flight EXCEPT ![f] = NoFlight]
  /\ UNCHANGED <<board, hidden, eng, reveals, watched, overtaken, nudges>>

WebInit ==
  /\ board \in {[k \in Rounds |-> IF k = 1 THEN status ELSE "none"] : status \in {"none", "open", "revealed"}}
  /\ hidden = FALSE /\ nudges = 0 /\ overtaken = FALSE
  /\ poll = [tracked |-> NoRound, held |-> FALSE, orphans |-> 0]
  /\ flight = [f \in Slots |-> IF f = 1 THEN [pc |-> "sent", asked |-> NoRound] ELSE NoFlight]
  /\ eng = [seenAnyRound |-> FALSE, remembered |-> {}, played |-> {}, busy |-> FALSE, running |-> {}]
  /\ reveals = <<>> /\ watched = {}

WebNext ==
  \/ RoundOpens \/ TimerFires \/ kick \/ Hide \/ Show \/ WalletChanges
  \/ \E k \in Rounds : RoundEnds(k) \/ RevealDone(k)
  \/ \E f \in Slots : Sample(f) \/ Arrive(f) \/ Fails(f)

WebSpec == WebInit /\ [][WebNext]_webVars

-----------------------------------------------------------------------------
\* pump (useRoundEngine.ts:261): whatever the order responses come in, one
\* animation runs at a time, each result is animated at most once and only a
\* result the mirror has, and while none runs nothing waits.
RevealsQueued ==
  /\ \A i, j \in DOMAIN reveals : reveals[i] = reveals[j] => i = j
  /\ \A i \in DOMAIN reveals : isRevealed(board[reveals[i]])
  /\ Cardinality(eng.running) <= 1 /\ (eng.busy <=> eng.running # {})
  /\ ~eng.busy => eng.remembered \subseteq eng.played

\* "the response keeps returning that Round's full state ... until a newer Round
\* replaces it" (useStatePoll.ts:9): a round the page showed running is not let go
\* of before its result was kept, however long the tab was hidden and whichever
\* requests failed. This is not said once two requests were under way at once
\* (`overtaken`): a kick sends one without waiting for the last
\* (useStatePoll.ts:96-98), and answers in the wrong order may skip a result.
ResultNotMissed ==
  \A k \in watched : (poll.tracked > k /\ ~overtaken) => k \in eng.remembered \/ board[k] = "voided"

\* A visible page always has a request under way or a timer to make one.
PollAlive == hidden \/ InAir # {} \/ poll.held \/ poll.orphans > 0

\* The page as a whole: it keeps asking, and animates each result it kept once,
\* one at a time, whatever order timers, kicks and answers come in; and it keeps
\* every result it was waiting for while its requests did not overtake each other.
RevealsSound == RevealsQueued /\ ResultNotMissed /\ PollAlive
=============================================================================
