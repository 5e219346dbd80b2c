---------------------------- MODULE SessionSet ----------------------------
(***************************************************************************)
(* What the login table of the HTTP server promises, whatever its slots    *)
(* and its probing: a set of open sessions, one per user, on which a       *)
(* worker opens, closes or looks up a session in one atomic step.  ack[w]  *)
(* is the last thing worker w was told: "in" and "out" that the session is *)
(* open or closed, "yes" and "no" the result of a look-up.                 *)
(***************************************************************************)
CONSTANTS Users, Workers, None

VARIABLES sessions, ack

Verdicts == {"in", "out", "yes", "no"}
Nothing  == [says |-> "nothing", of |-> None]
Told(verdict, u) == [says |-> verdict, of |-> u]

AckType == [says : Verdicts, of : Users] \cup {Nothing}

Init == sessions = {} /\ ack = [w \in Workers |-> Nothing]

Open(w, u) == /\ sessions' = sessions \cup {u}
              /\ ack' = [ack EXCEPT ![w] = Told("in", u)]

End(w, u) == /\ sessions' = sessions \ {u}
             /\ ack' = [ack EXCEPT ![w] = Told("out", u)]

Check(w, u) == /\ ack' = [ack EXCEPT ![w] = Told(IF u \in sessions THEN "yes" ELSE "no", u)]
               /\ UNCHANGED sessions

Forget(w) == ack' = [ack EXCEPT ![w] = Nothing] /\ UNCHANGED sessions

\* The process ends: every session and every pending answer is lost.
Lose == sessions' = {} /\ ack' = [w \in Workers |-> Nothing]

Next == \/ \E w \in Workers, u \in Users : Open(w, u) \/ End(w, u) \/ Check(w, u)
        \/ \E w \in Workers : Forget(w)
        \/ Lose

SetSpec == Init /\ [][Next]_<<sessions, ack>>
===========================================================================
