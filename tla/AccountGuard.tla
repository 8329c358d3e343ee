---------------------------- MODULE AccountGuard ----------------------------
(***************************************************************************)
(* What the import lock promises: the Instagram account has at most one    *)
(* user at a time.  A user enters only when there is none and leaves       *)
(* before the next one enters.                                             *)
(***************************************************************************)
CONSTANT Actors

VARIABLE users

Init == users = {}

Enter(a) == users = {} /\ users' = {a}

Leave(a) == users = {a} /\ users' = {}

Next == \E a \in Actors : Enter(a) \/ Leave(a)

Spec == Init /\ [][Next]_users
=============================================================================
