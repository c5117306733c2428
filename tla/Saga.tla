-------------------------------- MODULE Saga --------------------------------
(***************************************************************************)
(* SagaBuilder: one builder whose activities are run by executeAsync(), by   *)
(* one execution or by several at a time.                                    *)
(*                                                                          *)
(* An execution reads the builder's lists while it runs and awaits every      *)
(* callback, so whatever another execution or a callback adds to the builder  *)
(* meets it in the middle.  A callback is known by its position: compensation *)
(* 0 of an activity is its action.                                           *)
(***************************************************************************)
EXTENDS Naturals, Sequences, FiniteSets

CONSTANTS
    Executions,         \* calls of executeAsync()
    Names,              \* activity names
    MaxActivities,      \* bound: activities of the builder
    MaxCompensations    \* bound: compensations of one activity

ASSUME SagaAssumption == MaxActivities \in Nat /\ MaxCompensations \in Nat

VARIABLES
    activities,         \* the builder's activities, with their compensations
    activityResults,    \* the builder's results, of all executions
    status,             \* status[e]: the promise of executeAsync()
    at,                 \* at[e]: the callback execution e awaits
    result,             \* result[e]: the local variable of that name
    calls               \* history: calls[e]: callbacks that returned to e

sagaVars == <<activities, activityResults, status, at, result, calls>>

\* What an action resolves to; "nothing" is undefined.
Results == {"success", "failure", "nothing"}

Nowhere == [activity |-> 0, compensation |-> 0]

SagaInit ==
    /\ activities = <<>>
    /\ activityResults = <<>>
    /\ status = [e \in Executions |-> "idle"]
    /\ at = [e \in Executions |-> Nowhere]
    /\ result = [e \in Executions |-> "nothing"]
    /\ calls = [e \in Executions |-> <<>>]

-----------------------------------------------------------------------------
\* The builder.

Activity(name) ==
    /\ Len(activities) < MaxActivities
    /\ activities' = Append(activities, [name |-> name, compensations |-> 0])
    /\ UNCHANGED <<activityResults, status, at, result, calls>>

Named(name) == {i \in DOMAIN activities : activities[i].name = name}

Compensate(i) ==
    /\ activities[i].compensations < MaxCompensations
    /\ activities' = [activities EXCEPT ![i].compensations = @ + 1]
    /\ UNCHANGED <<activityResults, status, at, result, calls>>

\* Variant: the compensation goes to the activity added last.
CompensationActivityLast(name) ==
    \E i \in Named(name) : (\A k \in Named(name) : k <= i) /\ Compensate(i)

\* find(): the first of that name; a name nobody has is passed over in silence.
CompensationActivity(name) ==
    \E i \in Named(name) : (\A k \in Named(name) : i <= k) /\ Compensate(i)

-----------------------------------------------------------------------------
\* The executions.

\* Variant: executeAsync() stops after an activity without success.
GoOnIfSuccess(e, i, j) ==
    IF j < activities[i].compensations
      THEN at' = [at EXCEPT ![e].compensation = j + 1] /\ UNCHANGED status
    ELSE IF i < Len(activities) /\ result'[e] # "failure"
      THEN /\ at' = [at EXCEPT ![e] = [activity |-> i + 1, compensation |-> 0]]
           /\ UNCHANGED status
    ELSE /\ at' = [at EXCEPT ![e] = Nowhere]
         /\ status' = [status EXCEPT ![e] = "resolved"]

\* What e awaits after callback j of activity i: both loops look at the lists
\* as they are now.
GoOn(e, i, j) ==
    IF j < activities[i].compensations
      THEN at' = [at EXCEPT ![e].compensation = j + 1] /\ UNCHANGED status
    ELSE IF i < Len(activities)
      THEN /\ at' = [at EXCEPT ![e] = [activity |-> i + 1, compensation |-> 0]]
           /\ UNCHANGED status
    ELSE /\ at' = [at EXCEPT ![e] = Nowhere]
         /\ status' = [status EXCEPT ![e] = "resolved"]

\* executeAsync() of a builder with activities; of one without it resolves.
Start(e) ==
    /\ status[e] = "idle"
    /\ IF activities = <<>>
         THEN status' = [status EXCEPT ![e] = "resolved"] /\ UNCHANGED at
         ELSE /\ status' = [status EXCEPT ![e] = "running"]
              /\ at' = [at EXCEPT ![e].activity = 1]
    /\ UNCHANGED <<activities, activityResults, result, calls>>

Awaits(e, i, j) == status[e] = "running" /\ at[e] = [activity |-> i, compensation |-> j]

Return(e, i, j, r) ==
    calls' = [calls EXCEPT
                ![e] = Append(@, [activity |-> i, compensation |-> j, result |-> r])]

\* The action of activity i resolves; only a truthy result is kept.
ActionReturns(e, i) ==
    /\ Awaits(e, i, 0)
    /\ \E r \in Results :
          /\ result' = [result EXCEPT ![e] = r]
          /\ activityResults' =
               IF r = "nothing" THEN activityResults
               ELSE Append(activityResults, [name |-> activities[i].name, result |-> r])
          /\ Return(e, i, 0, r)
    /\ GoOn(e, i, 0)
    /\ UNCHANGED activities

\* Variant: the compensation gets the newest of the builder's results.
CompensationReturnsNewest(e, i, j) ==
    /\ Awaits(e, i, j) /\ j > 0
    /\ activityResults # <<>>
    /\ Return(e, i, j, activityResults[Len(activityResults)].result)
    /\ GoOn(e, i, j)
    /\ UNCHANGED <<activities, activityResults, result>>

\* Compensation j of activity i, called with the result of the action whether
\* that was a success or not, resolves.
CompensationReturns(e, i, j) ==
    /\ Awaits(e, i, j) /\ j > 0
    /\ UNCHANGED <<activities, activityResults, result>>
    /\ Return(e, i, j, result[e])
    /\ GoOn(e, i, j)

\* The callback awaited throws: executeAsync() logs it and throws it again.
Throw(e) ==
    /\ status[e] = "running"
    /\ status' = [status EXCEPT ![e] = "rejected"]
    /\ at' = [at EXCEPT ![e] = Nowhere]
    /\ UNCHANGED <<activities, activityResults, result, calls>>

-----------------------------------------------------------------------------
CallbackEnds(e) ==
    \/ Throw(e)
    \/ \E i \in DOMAIN activities :
          \/ ActionReturns(e, i)
          \/ \E j \in 1 .. activities[i].compensations : CompensationReturns(e, i, j)

SagaNext ==
    \/ \E name \in Names : Activity(name) \/ CompensationActivity(name)
    \/ \E e \in Executions : Start(e) \/ CallbackEnds(e)

\* No fairness and no claim that executions end: callbacks that go on adding to
\* the list keep executeAsync() iterating for ever, and only the bounds of this
\* module stop them.
SagaSpec == SagaInit /\ [][SagaNext]_sagaVars

-----------------------------------------------------------------------------
\* A compensation gets what its own activity returned to the same execution,
\* and runs right after it and after the compensations before it, however many
\* executions share the builder and its results (saga 93-104).
CompensatedWithOwnResult ==
    \A e \in Executions : \A k \in DOMAIN calls[e] :
        LET c == calls[e][k]
        IN  c.compensation > 0 =>
              /\ k > c.compensation
              /\ calls[e][k - c.compensation] = [c EXCEPT !.compensation = 0]

\* A name belongs to the first activity that has it: a second activity of that
\* name is run, but nothing compensates it (saga 81-86).
NamesakeIsNeverCompensated ==
    \A e \in Executions : \A k \in DOMAIN calls[e] :
        calls[e][k].compensation > 0 =>
            \A i \in 1 .. calls[e][k].activity - 1 :
                activities[i].name # activities[calls[e][k].activity].name

\* The calls of actions among the calls of an execution.
Actions(s) == {k \in DOMAIN s : s[k].compensation = 0}

\* The actions called are those of the first n activities, each once, in the
\* order of the builder.
RanUpTo(s, n) ==
    /\ {s[k].activity : k \in Actions(s)} = 1 .. n
    /\ \A k, l \in Actions(s) : k < l => s[k].activity < s[l].activity

\* An execution that resolves has called every action the builder has, once and
\* in the order of the builder, those after one without success and those added
\* meanwhile included (saga 91).
ResolvedMeansAllRan ==
    [][\A e \in Executions :
          status[e] # "resolved" /\ status'[e] = "resolved" =>
              RanUpTo(calls'[e], Len(activities))]_sagaVars
=============================================================================
