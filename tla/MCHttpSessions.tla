---------------------------- MODULE MCHttpSessions ----------------------------
(* Instances of HttpSessions for TLC. *)
EXTENDS HttpSessions, TLC

TwoUsers == <<"cat", "dog">>

(* Both tokens have the last slot as home, so that searches wrap around. *)
Colliding == [u \in {"cat", "dog"} |-> 2]
(* Distinct homes, as those of the users the server knows. *)
Distinct == [u \in {"cat", "dog"} |-> IF u = "cat" THEN 1 ELSE 2]

Symmetry == Permutations(Workers) \cup Permutations(Browsers)

(* Units of a small arena: a parsed {"get":"username"} is larger than {} or the *)
(* answer built for it.                                                         *)
Units == [login |-> 2, user |-> 2, tags |-> 1, name |-> 1]
===============================================================================
