------------------------------ MODULE MCHelpers ------------------------------
(* The libraries that no feature uses yet, one of them at a time: they share    *)
(* no state, so a behaviour of all three would show no more.                    *)
EXTENDS Saga, Paging, Tokens

MCParameters == -1 .. 2

VARIABLE subject

helperVars == <<subject, sagaVars, pagingVars, tokenVars>>

HelpersInit ==
    /\ subject \in {"saga", "paging", "tokens"}
    /\ SagaInit /\ PagingInit /\ TokensInit

HelpersNext ==
    /\ UNCHANGED subject
    /\ \/ subject = "saga" /\ SagaNext /\ UNCHANGED <<pagingVars, tokenVars>>
       \/ subject = "paging" /\ PagingNext /\ UNCHANGED <<sagaVars, tokenVars>>
       \/ subject = "tokens" /\ TokensNext /\ UNCHANGED <<sagaVars, pagingVars>>

HelpersSpec == HelpersInit /\ [][HelpersNext]_helperVars
==============================================================================
