--------------------------- MODULE UserLifecycle ---------------------------
(***************************************************************************)
(* What POST /users promises about an account and its answer, without any  *)
(* of the machinery: an account appears whole or not at all, its            *)
(* verification e-mail is recorded as sent at most once and only after the  *)
(* account exists, and the client is told "created" only about an account   *)
(* in its final state.  An error answer or a lost connection promises       *)
(* nothing, because both occur after the first commit.                      *)
(***************************************************************************)
CONSTANT Requests

VARIABLES
    account,    \* account[r]: "absent", "created" or "notified"
    answer      \* answer[r]: "none", "created", "error" or "lost"

vars == <<account, answer>>

TypeOK ==
    /\ account \in [Requests -> {"absent", "created", "notified"}]
    /\ answer \in [Requests -> {"none", "created", "error", "lost"}]

Init ==
    /\ account = [r \in Requests |-> "absent"]
    /\ answer = [r \in Requests |-> "none"]

\* Both commits happen while the client is still waiting.
Advance(r, from, to) ==
    /\ answer[r] = "none"
    /\ account[r] = from
    /\ account' = [account EXCEPT ![r] = to]
    /\ UNCHANGED answer

Create(r) == Advance(r, "absent", "created")

Notify(r) == Advance(r, "created", "notified")

AnswerCreated(r) ==
    /\ answer[r] = "none"
    /\ account[r] = "notified"
    /\ answer' = [answer EXCEPT ![r] = "created"]
    /\ UNCHANGED account

AnswerError(r) ==
    /\ answer[r] = "none"
    /\ answer' = [answer EXCEPT ![r] = "error"]
    /\ UNCHANGED account

\* The process dies: every client it was serving is left without an answer.
Lose(served) ==
    /\ \A r \in served : answer[r] = "none"
    /\ answer' = [r \in Requests |-> IF r \in served THEN "lost" ELSE answer[r]]
    /\ UNCHANGED account

Next ==
    \/ \E r \in Requests :
          Create(r) \/ Notify(r) \/ AnswerCreated(r) \/ AnswerError(r)
    \/ \E served \in SUBSET Requests : Lose(served)

Spec == Init /\ [][Next]_vars
=============================================================================
