--------------------------- MODULE BoundedTaskPool ---------------------------
(***************************************************************************)
(* What the HTTP server's task queue promises to its callers, without the  *)
(* ring, the mutex or the condition variable: a bounded first-in first-out *)
(* pool of tasks that can be closed once.  Its one producer either has a   *)
(* task admitted or, once the pool is closed, refused.  An admitted task   *)
(* is then queued, even if the pool is closed in the meantime; the oldest  *)
(* queued task is handed to one worker, also after the pool is closed.     *)
(* HttpTaskQueue implements this module.                                   *)
(***************************************************************************)
EXTENDS Naturals, Sequences

CONSTANTS Tasks,     (* what may be submitted                 *)
          Capacity   (* how many tasks may wait at a time     *)

VARIABLES fifo,      (* the queued tasks, oldest first                       *)
          open,      (* FALSE once the pool is closed                        *)
          stage      (* where each task is                                   *)

poolVars == <<fifo, open, stage>>

Stages == {"outside", "admitted", "queued", "taken", "refused"}

PoolInit ==
  /\ fifo = <<>>
  /\ open = TRUE
  /\ stage = [c \in Tasks |-> "outside"]

(* A task is admitted, one at a time: while the pool is open and has room. *)
Admission(c) ==
  /\ open
  /\ stage[c] = "outside"
  /\ \A d \in Tasks : stage[d] # "admitted"
  /\ Len(fifo) < Capacity
  /\ stage' = [stage EXCEPT ![c] = "admitted"]
  /\ UNCHANGED <<fifo, open>>

(* It takes its place at the end of the queue, open or closed. *)
Put(c) ==
  /\ stage[c] = "admitted"
  /\ fifo' = Append(fifo, c)
  /\ stage' = [stage EXCEPT ![c] = "queued"]
  /\ UNCHANGED open

(* The oldest task is handed out, once and for all. *)
Take ==
  /\ fifo # <<>>
  /\ stage' = [stage EXCEPT ![Head(fifo)] = "taken"]
  /\ fifo' = Tail(fifo)
  /\ UNCHANGED open

Refuse(c) ==
  /\ ~open
  /\ stage[c] = "outside"
  /\ stage' = [stage EXCEPT ![c] = "refused"]
  /\ UNCHANGED <<fifo, open>>

Close ==
  /\ open
  /\ open' = FALSE
  /\ UNCHANGED <<fifo, stage>>

PoolNext == Take \/ Close \/ \E c \in Tasks : Admission(c) \/ Put(c) \/ Refuse(c)

PoolSpec == PoolInit /\ [][PoolNext]_poolVars

==============================================================================
