------------------------------- MODULE Replies -------------------------------

(*******************************************************************************)
(* What a server that works off its requests one after the other promises: it  *)
(* takes a request, gives it exactly one answer, and only then takes the next. *)
(* The one thing that may come between is the end of the session.              *)
(*******************************************************************************)
EXTENDS Naturals

VARIABLES
    current,   \* number of the request at hand, or 0
    answered,  \* requests answered; they are numbered from 1
    ended

vars == <<current, answered, ended>>

Init == current = 0 /\ answered = 0 /\ ended = FALSE

Take == ~ended /\ current = 0 /\ current' = answered + 1 /\ UNCHANGED <<answered, ended>>

Answer == ~ended /\ current # 0 /\ answered' = current /\ current' = 0 /\ UNCHANGED ended

End == ~ended /\ ended' = TRUE /\ current' = 0 /\ UNCHANGED answered

Next == Take \/ Answer \/ End

Spec == Init /\ [][Next]_vars
=============================================================================
