---------------------------- MODULE HttpTaskQueue ----------------------------
(***************************************************************************)
(* The thread pool of the HTTP server (RnD/Rackhamn/http/src/http.c): the  *)
(* main thread accepts connections and puts their sockets in a ring of     *)
(* MAX_QUEUE slots, MAX_THREADS workers take them out, read one request,   *)
(* answer it and close.  One mutex guards the ring; ONE condition variable *)
(* is shared by the producer, which waits while the ring is full, and the  *)
(* workers, which wait while it is empty.  The "quit" command and SIGINT   *)
(* clear `running` and broadcast WITHOUT taking the mutex.                 *)
(*                                                                         *)
(* A step is what a thread does between two points where another thread or *)
(* the signal handler can interfere: acquiring the mutex, testing the wait *)
(* condition, falling asleep (which releases the mutex), and the critical  *)
(* section that follows, up to the unlock.  The test of `running` and what *)
(* it decides (falling asleep, queueing the socket) are separate steps,    *)
(* since `running` is cleared by threads that do not hold the mutex; a     *)
(* worker's last test needs no step of its own, since `running` is never   *)
(* set again and only the mutex's owner changes task_count.                *)
(***************************************************************************)
EXTENDS Integers, Sequences, FiniteSets

CONSTANTS Workers,     (* the worker threads (MAX_THREADS of them)              *)
          Clients,     (* the connections that clients may open, each once      *)
          Silent,      (* the clients that connect and then never send or close *)
          MaxQueue,    (* MAX_QUEUE                                             *)
          MaxSignals,  (* bound: how many SIGINTs are delivered                 *)
          Main, Cli, Sig,  (* the main thread, the CLI thread, the handler      *)
          None         (* no socket; nobody                                     *)

ASSUME QueueAssumption ==
  /\ IsFiniteSet(Workers) /\ Workers # {}
  /\ Silent \subseteq Clients
  /\ None \notin Clients
  /\ MaxQueue \in Nat \ {0}
  /\ MaxSignals \in Nat
  /\ Main # Cli /\ Main # Sig /\ Cli # Sig
  /\ {Main, Cli, Sig, None} \cap Workers = {}
  /\ None \notin {Main, Cli, Sig}

(* MAX_THREADS = 4 and MAX_QUEUE = 128 (http.h).  The shared condition      *)
(* variable is only sound because the ring is this large: see NoLostProducer *)
ASSUME ThreadsFitQueue == Cardinality(Workers) < 2 * MaxQueue

VARIABLES
  task_queue, task_front, task_rear, task_count,  (* the ring                   *)
  running,
  mutex,     (* queue_mutex: its owner, or None                                  *)
  waiters,   (* queue_cond: the threads asleep in pthread_cond_wait             *)
  pc,        (* where each thread is                                             *)
  client,    (* the socket a thread holds: client_socket, request.socket        *)
  conn,      (* what became of each connection                                   *)
  signals    (* SIGINTs delivered so far                                         *)

ring == <<task_queue, task_front, task_rear, task_count>>
vars == <<task_queue, task_front, task_rear, task_count, running, mutex,
          waiters, pc, client, conn, signals>>

QueueThreads == Workers \cup {Main}
Slots == 0 .. MaxQueue - 1

Init ==
  /\ task_queue = [i \in Slots |-> None]
  /\ task_front = 0 /\ task_rear = 0 /\ task_count = 0
  /\ running = TRUE
  /\ mutex = None
  /\ waiters = {}
  /\ pc = [t \in QueueThreads \cup {Cli, Sig} |->
             CASE t \in Workers -> "lock" [] t = Main -> "while"
               [] t = Cli -> "poll"       [] t = Sig -> "idle"]
  /\ client = [t \in QueueThreads |-> None]
  /\ conn = [c \in Clients |-> "idle"]
  /\ signals = 0

Goto(t, label) == pc' = [pc EXCEPT ![t] = label]

-----------------------------------------------------------------------------
(* The mutex and the condition variable.                                      *)

(* pthread_mutex_lock on entry, or the reacquisition inside pthread_cond_wait *)
Lock(t) ==
  /\ mutex = None
  /\ \/ pc[t] = "lock"
     \/ pc[t] = "wait" /\ t \notin waiters
  /\ mutex' = t
  /\ Goto(t, "test")
  /\ UNCHANGED <<ring, running, waiters, client, conn, signals>>

(* FAULTY: the producer admits one task more than the ring has slots.         *)
MustWaitTooLate(t) ==
  /\ running
  /\ task_count = IF t = Main THEN MaxQueue + 1 ELSE 0

(* while(task_count == MAX_QUEUE && running == 1) for the producer,
   while(task_count == 0 && running == 1) for a worker.                       *)
MustWait(t) ==
  /\ running
  /\ task_count = IF t = Main THEN MaxQueue ELSE 0

Test(t) ==
  /\ pc[t] = "test"
  /\ Goto(t, IF MustWait(t) THEN "block" ELSE "check")
  /\ UNCHANGED <<ring, running, mutex, waiters, client, conn, signals>>

(* pthread_cond_wait: falls asleep and releases the mutex, atomically.        *)
CondWait(t) ==
  /\ pc[t] = "block"
  /\ waiters' = waiters \cup {t}
  /\ mutex' = None
  /\ Goto(t, "wait")
  /\ UNCHANGED <<ring, running, client, conn, signals>>

(* POSIX lets pthread_cond_wait return without a signal. *)
SpuriousWakeup(t) ==
  /\ t \in waiters
  /\ waiters' = waiters \ {t}
  /\ UNCHANGED <<ring, running, mutex, pc, client, conn, signals>>

(* FAULTY: the signal is forgotten. *)
NoSignal == UNCHANGED waiters

(* pthread_cond_signal wakes one sleeper, whichever it is; none if none sleeps *)
CondSignal ==
  \/ \E t \in waiters : waiters' = waiters \ {t}
  \/ waiters = {} /\ UNCHANGED waiters

-----------------------------------------------------------------------------
(* task_enqueue, after its wait loop, called by main with the accepted socket *)

(* FAULTY: `running` is not tested again after the wait. *)
AdmitAfterStop ==
  /\ pc[Main] = "check"
  /\ Goto(Main, "push")
  /\ UNCHANGED <<ring, running, mutex, waiters, client, conn, signals>>

(* `running` is not 0 when it is tested after the wait: the socket goes into *)
(* the ring, whatever becomes of `running` before it is there.               *)
Admit ==
  /\ pc[Main] = "check"
  /\ running
  /\ Goto(Main, "push")
  /\ UNCHANGED <<ring, running, mutex, waiters, client, conn, signals>>

Push ==
  /\ pc[Main] = "push"
  /\ task_queue' = [task_queue EXCEPT ![task_rear] = client[Main]]
  /\ task_rear' = (task_rear + 1) % MaxQueue
  /\ task_count' = task_count + 1
  /\ client' = [client EXCEPT ![Main] = None]
  /\ CondSignal
  /\ mutex' = None
  /\ Goto(Main, "while")
  /\ UNCHANGED <<task_front, running, conn, signals>>

(* running == 0: unlock, close(client), return. *)
Refuse ==
  /\ pc[Main] = "check"
  /\ ~running
  /\ conn' = [conn EXCEPT ![client[Main]] = "refused"]
  /\ client' = [client EXCEPT ![Main] = None]
  /\ mutex' = None
  /\ Goto(Main, "while")
  /\ UNCHANGED <<ring, running, waiters, signals>>

-----------------------------------------------------------------------------
(* task_dequeue, after its wait loop, and the rest of the worker's loop.      *)

(* FAULTY: task_front is advanced before the slot is read. *)
OldestSkipped == task_queue[(task_front + 1) % MaxQueue]

Oldest == task_queue[task_front]

Dequeue(w) ==
  /\ pc[w] = "check"
  /\ running \/ task_count # 0
  /\ client' = [client EXCEPT ![w] = Oldest]
  /\ task_front' = (task_front + 1) % MaxQueue
  /\ task_count' = task_count - 1
  /\ CondSignal
  /\ mutex' = None
  /\ Goto(w, "read")
  /\ UNCHANGED <<task_queue, task_rear, running, conn, signals>>

(* FAULTY: a worker leaves as soon as `running` is cleared. *)
RetireAtOnce(w) ==
  /\ pc[w] = "check"
  /\ ~running
  /\ mutex' = None
  /\ Goto(w, "exit")
  /\ UNCHANGED <<ring, running, waiters, client, conn, signals>>

(* running == 0 && task_count == 0: return -1, and the worker leaves its loop *)
Retire(w) ==
  /\ pc[w] = "check"
  /\ ~running
  /\ task_count = 0
  /\ mutex' = None
  /\ Goto(w, "exit")
  /\ UNCHANGED <<ring, running, waiters, client, conn, signals>>

(* mt_read_http_request: one blocking read, without a timeout. *)
ReadRequest(w) ==
  /\ pc[w] = "read"
  /\ client[w] \notin Silent
  /\ Goto(w, "handle")
  /\ UNCHANGED <<ring, running, mutex, waiters, client, conn, signals>>

(* The worker is done with its socket and goes back to task_dequeue. *)
Drop(w, outcome) ==
  /\ conn' = [conn EXCEPT ![client[w]] = outcome]
  /\ client' = [client EXCEPT ![w] = None]
  /\ Goto(w, "lock")
  /\ UNCHANGED <<ring, running, mutex, waiters, signals>>

(* bytes_read < 0: the socket is closed. *)
ReadError(w) ==
  /\ pc[w] = "read"
  /\ client[w] \notin Silent
  /\ Drop(w, "closed")

(* bytes_read == 0: -1 is returned and nobody closes the socket. *)
ReadEof(w) ==
  /\ pc[w] = "read"
  /\ client[w] \notin Silent
  /\ Drop(w, "leaked")

(* handle_request answers and closes. *)
HandleRequest(w) ==
  /\ pc[w] = "handle"
  /\ Drop(w, "closed")

-----------------------------------------------------------------------------
(* The accept loop of main, then its joins. *)

WhileRunning ==
  /\ pc[Main] = "while"
  /\ Goto(Main, IF running THEN "select" ELSE "join")
  /\ UNCHANGED <<ring, running, mutex, waiters, client, conn, signals>>

(* select times out after a second, or accept fails *)
NothingAccepted ==
  /\ pc[Main] = "select"
  /\ Goto(Main, "while")
  /\ UNCHANGED <<ring, running, mutex, waiters, client, conn, signals>>

(* select is interrupted by the handler that ran: res < 0, break. *)
SelectInterrupted ==
  /\ pc[Main] = "select"
  /\ signals > 0
  /\ pc[Sig] = "idle"
  /\ Goto(Main, "join")
  /\ UNCHANGED <<ring, running, mutex, waiters, client, conn, signals>>

Accept(c) ==
  /\ pc[Main] = "select"
  /\ conn[c] = "backlog"
  /\ conn' = [conn EXCEPT ![c] = "open"]
  /\ client' = [client EXCEPT ![Main] = c]
  /\ Goto(Main, "lock")
  /\ UNCHANGED <<ring, running, mutex, waiters, signals>>

(* All the pthread_joins return; the table and the server socket are freed. *)
JoinAll ==
  /\ pc[Main] = "join"
  /\ \A t \in Workers \cup {Cli} : pc[t] = "exit"
  /\ Goto(Main, "exit")
  /\ UNCHANGED <<ring, running, mutex, waiters, client, conn, signals>>

-----------------------------------------------------------------------------
(* The CLI thread and the signal handler. *)

(* cli_worker tests `running` under the mutex, once a second. *)
CliPoll ==
  /\ pc[Cli] = "poll"
  /\ mutex = None
  /\ Goto(Cli, IF running THEN "stdin" ELSE "exit")
  /\ UNCHANGED <<ring, running, mutex, waiters, client, conn, signals>>

(* No line within the second, or a command that changes nothing. *)
CliIdle ==
  /\ pc[Cli] = "stdin"
  /\ Goto(Cli, "poll")
  /\ UNCHANGED <<ring, running, mutex, waiters, client, conn, signals>>

CliQuit ==
  /\ pc[Cli] = "stdin"
  /\ running' = FALSE
  /\ Goto(Cli, "broadcast")
  /\ UNCHANGED <<ring, mutex, waiters, client, conn, signals>>

SigInt ==
  /\ pc[Sig] = "idle"
  /\ signals < MaxSignals
  /\ signals' = signals + 1
  /\ running' = FALSE
  /\ Goto(Sig, "broadcast")
  /\ UNCHANGED <<ring, mutex, waiters, client, conn>>

(* pthread_cond_broadcast, without the mutex. *)
Broadcast(t) ==
  /\ pc[t] = "broadcast"
  /\ waiters' = {}
  /\ Goto(t, IF t = Cli THEN "exit" ELSE "idle")
  /\ UNCHANGED <<ring, running, mutex, client, conn, signals>>

(* A client connects: the kernel completes the handshake into the backlog. *)
Connect(c) ==
  /\ conn[c] = "idle"
  /\ conn' = [conn EXCEPT ![c] = "backlog"]
  /\ UNCHANGED <<ring, running, mutex, waiters, pc, client, signals>>

-----------------------------------------------------------------------------
Monitor(t) == Lock(t) \/ Test(t) \/ CondWait(t)

WorkerStep(w) ==
  \/ Dequeue(w) \/ Retire(w)
  \/ ReadRequest(w) \/ ReadError(w) \/ ReadEof(w) \/ HandleRequest(w)

MainStep ==
  \/ Admit \/ Push \/ Refuse
  \/ WhileRunning \/ NothingAccepted \/ SelectInterrupted \/ JoinAll
  \/ \E c \in Clients : Accept(c)

Next ==
  \/ \E t \in QueueThreads : Monitor(t) \/ SpuriousWakeup(t)
  \/ \E w \in Workers : WorkerStep(w)
  \/ MainStep
  \/ CliPoll \/ CliIdle \/ CliQuit \/ SigInt
  \/ \E t \in {Cli, Sig} : Broadcast(t)
  \/ \E c \in Clients : Connect(c)

Spec == Init /\ [][Next]_vars

(***************************************************************************)
(* Every thread keeps running, and a thread that keeps asking for the      *)
(* mutex gets it: the critical sections are a few assignments long and the *)
(* only thread that takes it in a loop, the CLI, sleeps a second between   *)
(* two polls.  accept does not fail for ever while connections are         *)
(* pending.  Nothing is assumed of the clients (Connect), of the         *)
(* operator (CliQuit, SigInt) or of spurious wake-ups.  The workers' reads *)
(* are fair, except that a Silent client's never returns.                  *)
(***************************************************************************)
Fairness ==
  /\ \A t \in QueueThreads : SF_vars(Lock(t))
  /\ WF_vars(\E t \in QueueThreads : Test(t) \/ CondWait(t))
  /\ \A w \in Workers : WF_vars(WorkerStep(w))
  /\ WF_vars(MainStep)
  /\ SF_vars(\E c \in Clients : Accept(c))
  /\ SF_vars(CliPoll) /\ WF_vars(CliIdle)
  /\ \A t \in {Cli, Sig} : WF_vars(Broadcast(t))

FairSpec == Spec /\ Fairness

-----------------------------------------------------------------------------
Labels == {"lock", "test", "block", "wait", "check", "push", "read", "handle",
           "while", "select", "join", "poll", "stdin", "broadcast", "idle", "exit"}

Fates == {"idle", "backlog", "open", "closed", "leaked", "refused"}

(* Type invariant. *)
TypeOK ==
  /\ task_queue \in [Slots -> Clients \cup {None}]
  /\ task_front \in Slots
  /\ task_rear \in Slots
  /\ task_count \in 0 .. MaxQueue
  /\ running \in BOOLEAN
  /\ mutex \in QueueThreads \cup {None}
  /\ waiters \subseteq QueueThreads
  /\ pc \in [QueueThreads \cup {Cli, Sig} -> Labels]
  /\ client \in [QueueThreads -> Clients \cup {None}]
  /\ conn \in [Clients -> Fates]
  /\ signals \in 0 .. MaxSignals

(* The slots between front and rear: position i of the queue, oldest first.  *)
Live(i) == (task_front + i) % MaxQueue
Queued == [i \in 1 .. task_count |-> task_queue[Live(i - 1)]]

(***************************************************************************)
(* Every open connection has exactly one owner - main, one live slot of    *)
(* the ring, or one worker - and a connection that was closed, refused or  *)
(* lost, or that was never accepted, has none: no socket is dropped by the *)
(* ring (overwritten, skipped), answered twice, or used after its close.   *)
(***************************************************************************)
Owners(c) ==
  ({"thread"} \X {t \in QueueThreads : client[t] = c})
    \cup ({"slot"} \X {i \in 0 .. task_count - 1 : task_queue[Live(i)] = c})

OneOwner ==
  \A c \in Clients :
    IF conn[c] = "open" THEN \E o \in Owners(c) : Owners(c) = {o} ELSE Owners(c) = {}

(***************************************************************************)
(* The workers on their way to take a task: they hold the mutex in         *)
(* task_dequeue, wait for it, or were woken.  A worker that reads or       *)
(* handles a request is not: it may be kept there by its client.           *)
(***************************************************************************)
Taking == {w \in Workers \ waiters : pc[w] \in {"lock", "test", "block", "wait", "check"}}

(***************************************************************************)
(* A worker sleeps only while every queued task has a worker of its own on *)
(* the way to take it.  This is what makes pthread_cond_signal (one        *)
(* wake-up per task) enough, also while the other workers are stuck with a *)
(* silent client, and what drains the ring after `running` is cleared.     *)
(***************************************************************************)
SleepersNotNeeded ==
  waiters \cap Workers # {} => task_count <= Cardinality(Taking)

(***************************************************************************)
(* No task is left behind by the shutdown: while one is queued some worker *)
(* has not left its loop and is not asleep - although main may queue one   *)
(* after `running` was cleared, and nothing but the test of `running` at   *)
(* line 327 keeps it from doing so when the last worker has found the ring *)
(* empty and gone.                                                         *)
(***************************************************************************)
NoTaskAbandoned ==
  task_count > 0 => \E w \in Workers \ waiters : pc[w] # "exit"

(***************************************************************************)
(* The producer shares the condition variable with the workers, so a       *)
(* signal meant for it may wake a worker instead, which finds the ring     *)
(* empty and sleeps again.  With 2 * MAX_QUEUE > MAX_THREADS there are     *)
(* never enough sleeping workers to swallow every signal: main sleeps only *)
(* while a task is queued, whose removal signals once more.                *)
(***************************************************************************)
NoLostProducer == Main \in waiters => task_count > 0

(***************************************************************************)
(* The queue is a bounded first-in first-out pool that can be closed once: *)
(* nothing is admitted after running = 0, nothing is refused before, what  *)
(* was admitted is queued also when `running` is cleared between the two   *)
(* (the test of line 327 and the push of line 334), and tasks leave in the *)
(* order they came, each once.                                             *)
(***************************************************************************)
StageOf(c) ==
  IF conn[c] = "refused" THEN "refused"
  ELSE IF conn[c] \in {"closed", "leaked"} \/ \E w \in Workers : client[w] = c
       THEN "taken"
  ELSE IF pc[Main] = "push" /\ client[Main] = c THEN "admitted"
  ELSE IF \E i \in 1 .. task_count : Queued[i] = c THEN "queued" ELSE "outside"

Pool == INSTANCE BoundedTaskPool
          WITH Tasks <- Clients, Capacity <- MaxQueue, fifo <- Queued,
               open <- running, stage <- [c \in Clients |-> StageOf(c)]

ImplementsPool == Pool!PoolSpec

(***************************************************************************)
(* A client that connects while the server runs and sends its request is   *)
(* served (or its connection given up), or the server is told to stop: as  *)
(* long as fewer clients than workers keep silent, neither the full ring   *)
(* nor the shared condition variable can hold a connection back for ever.  *)
(***************************************************************************)
EventuallyServed ==
  \A c \in Clients \ Silent :
    conn[c] = "backlog" ~> (conn[c] \in {"closed", "leaked"} \/ ~running)

(***************************************************************************)
(* After running = 0 every queued connection that is not silent is still   *)
(* served, and main gets out of task_enqueue and the accept loop, whatever *)
(* the broadcast missed.                                                   *)
(***************************************************************************)
ShutdownDrains ==
  ~running ~> (task_count = 0 /\ pc[Main] \in {"join", "exit"})

(***************************************************************************)
(* "wake all threads!" says the broadcast of sig_handler: after running = 0 *)
(* no worker sleeps for ever and main joins them all.                       *)
(***************************************************************************)
WakesAllThreads == ~running ~> pc[Main] = "exit"

==============================================================================
