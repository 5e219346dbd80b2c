--------------------------- MODULE MCHttpTaskQueue ---------------------------
(* Instances of HttpTaskQueue for TLC. *)
EXTENDS HttpTaskQueue, TLC

(* Workers and clients are interchangeable (safety runs only; Silent is empty *)
(* there).                                                                    *)
Symmetry == Permutations(Workers) \cup Permutations(Clients)
==============================================================================
