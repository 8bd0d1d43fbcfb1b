------------------------------ MODULE Waitlist ------------------------------
(***************************************************************************)
(* The landing page's waitlist route (waitlist.js): a signup gets a share  *)
(* code, a repeat signup keeps its first one, and rows older than codes    *)
(* are given one by the first request of every warm instance. The route    *)
(* runs in several instances at once over one table.                       *)
(***************************************************************************)
EXTENDS Integers, FiniteSets

CONSTANTS Emails, OldEmails,   \* signups, and those made before codes existed
          Codes,               \* what newCode can draw
          Instances,
          CODE_ATTEMPTS

NoCode == "null"

ASSUME WaitlistAssumption ==
  OldEmails \subseteq Emails /\ CODE_ATTEMPTS \in Nat \ {0} /\ NoCode \notin Codes

VARIABLES
  rows,       \* the table: email -> code, NoCode for a row without one
  ready,      \* each instance's memoised ensureSchema
  missing,    \* each instance's rows still to backfill
  visit,      \* the request each instance is serving
  given,      \* email -> codes answered to its visitor
  answered,   \* signups with a follow-up answer
  raced       \* rows whose code a second instance's backfill replaced

waitlistVars == <<rows, ready, missing, visit, given, answered, raced>>

NoEmail == "nobody"
NoVisit == [email |-> NoEmail, step |-> "none", attempt |-> 0]

Taken == {rows[e] : e \in DOMAIN rows} \ {NoCode}

WaitlistInit ==
  /\ rows = [e \in OldEmails |-> NoCode]
  /\ ready = [i \in Instances |-> "no"]
  /\ missing = [i \in Instances |-> {}]
  /\ visit = [i \in Instances |-> NoVisit]
  /\ given = [e \in Emails |-> {}] /\ answered = {}
  /\ raced = {}

\* A POST arrives: a plausible address, or the answer to the follow-up question
\* of a signup.
handler(i, e, step) ==
  /\ visit[i] = NoVisit
  /\ visit' = [visit EXCEPT ![i] = [email |-> e, step |-> step, attempt |-> 1]]
  /\ UNCHANGED <<rows, ready, missing, given, answered, raced>>

\* The DDL is idempotent; the rows to backfill are read once.
ensureSchema(i) ==
  /\ visit[i] # NoVisit /\ ready[i] = "no"
  /\ ready' = [ready EXCEPT ![i] = "filling"]
  /\ missing' = [missing EXCEPT ![i] = {e \in DOMAIN rows : rows[e] = NoCode}]
  /\ UNCHANGED <<rows, visit, given, answered, raced>>

\* withCode around the update: a code that collides is drawn again.
Backfill(i, e, code) ==
  /\ ready[i] = "filling" /\ e \in missing[i] /\ code \notin Taken
  /\ rows' = [rows EXCEPT ![e] = code]
  /\ raced' = IF rows[e] # NoCode THEN raced \cup {e} ELSE raced
  /\ missing' = [missing EXCEPT ![i] = @ \ {e}]
  /\ UNCHANGED <<ready, visit, given, answered>>

SchemaReady(i) ==
  /\ ready[i] = "filling" /\ missing[i] = {}
  /\ ready' = [ready EXCEPT ![i] = "yes"]
  /\ UNCHANGED <<rows, missing, visit, given, answered, raced>>

\* A statement failed, or every draw collided: 500. A failed ensureSchema is
\* forgotten, so the next request starts it over.
handlerFails(i) ==
  /\ visit[i] # NoVisit
  /\ ready' = [ready EXCEPT ![i] = IF @ = "filling" THEN "no" ELSE @]
  /\ missing' = [missing EXCEPT ![i] = {}]
  /\ visit' = [visit EXCEPT ![i] = NoVisit]
  /\ UNCHANGED <<rows, given, answered, raced>>

\* update ... where id: 404 for an unknown signup.
answerQuestion(i) ==
  /\ visit[i].step = "answer" /\ ready[i] = "yes"
  /\ answered' = answered \cup ({visit[i].email} \cap DOMAIN rows)
  /\ visit' = [visit EXCEPT ![i] = NoVisit]
  /\ UNCHANGED <<rows, ready, missing, given, raced>>

\* Mutant: a repeat signup is given the code just drawn.
OnConflict_new_code(e, code) == code

\* on conflict (email) do update set email = excluded.email
OnConflict(e, code) == rows[e]

\* The insert with a fresh code. A new row whose code is taken draws again, at
\* most CODE_ATTEMPTS times; a repeat signup never inserts its code.
Signup(i, code) ==
  LET e        == visit[i].email
      repeated == e \in DOMAIN rows
      kept     == IF repeated THEN OnConflict(e, code) ELSE code
  IN
  /\ visit[i].step = "signup" /\ ready[i] = "yes"
  /\ IF ~repeated /\ code \in Taken
     THEN /\ visit[i].attempt < CODE_ATTEMPTS
          /\ visit' = [visit EXCEPT ![i].attempt = @ + 1]
          /\ UNCHANGED <<rows, given>>
     ELSE /\ rows' = [f \in DOMAIN rows \cup {e} |-> IF f = e THEN kept ELSE rows[f]]
          /\ given' = [given EXCEPT ![e] = @ \cup {kept}]
          /\ visit' = [visit EXCEPT ![i] = NoVisit]
  /\ UNCHANGED <<ready, missing, answered, raced>>

WaitlistNext ==
  \E i \in Instances :
    \/ \E e \in Emails, step \in {"signup", "answer"} : handler(i, e, step)
    \/ ensureSchema(i) \/ SchemaReady(i) \/ handlerFails(i) \/ answerQuestion(i)
    \/ \E e \in Emails, code \in Codes : Backfill(i, e, code)
    \/ \E code \in Codes : Signup(i, code)

WaitlistSpec == WaitlistInit /\ [][WaitlistNext]_waitlistVars

-----------------------------------------------------------------------------
\* "A repeat signup returns the original row (and its original code)": every code
\* ever answered to a visitor is still that signup's code, so referrals to it
\* keep counting, unless two instances backfilled the same old row.
GivenCodeKept ==
  \A e \in Emails \ raced : \A code \in given[e] : e \in DOMAIN rows /\ rows[e] = code
=============================================================================
