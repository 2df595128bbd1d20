------------------------- MODULE IdempotentRequest -------------------------
(***************************************************************************)
(* What an idempotency key promises.  Workers are sent to do a request,    *)
(* several for one request where a client repeats it.  One of them at a    *)
(* time answers for the request; it may give up only as long as it has not *)
(* acted, and once it has acted it answers for the request for good.       *)
(***************************************************************************)
CONSTANTS Requests, Workers, Nobody

VARIABLES answers,  \* the worker that answers for each request
          acted     \* the workers whose act may have happened

TypeOK ==
    /\ answers \in [Requests -> Workers \cup {Nobody}]
    /\ acted \subseteq Workers

Init ==
    /\ answers = [k \in Requests |-> Nobody]
    /\ acted = {}

(* A worker that has not acted takes a request nobody answers for, and     *)
(* leaves any other.                                                       *)
Take(w, k) ==
    /\ answers[k] = Nobody
    /\ w \notin acted
    /\ answers' = [j \in Requests |-> IF j = k THEN w
                                      ELSE IF answers[j] = w THEN Nobody ELSE answers[j]]
    /\ UNCHANGED acted

GiveUp(w) ==
    /\ w \notin acted
    /\ answers' = [j \in Requests |-> IF answers[j] = w THEN Nobody ELSE answers[j]]
    /\ UNCHANGED acted

Act(w) ==
    /\ \E k \in Requests : answers[k] = w
    /\ acted' = acted \cup {w}
    /\ UNCHANGED answers

Next == \E w \in Workers : (\E k \in Requests : Take(w, k)) \/ GiveUp(w) \/ Act(w)

Spec == Init /\ [][Next]_<<answers, acted>>

============================================================================
