------------------------ MODULE HttpTaskQueue_proofs ------------------------
(***************************************************************************)
(* Proofs about HttpTaskQueue, for every number of workers, clients and    *)
(* slots that QueueAssumption and ThreadsFitQueue allow.                   *)
(***************************************************************************)
EXTENDS HttpTaskQueue, FiniteSetTheorems, SequenceTheorems, TLAPS

(* The places where each kind of thread can be. *)
InMonitor == {"lock", "test", "block", "wait", "check"}
MainLabels == InMonitor \cup {"push", "while", "select", "join", "exit"}
WorkerLabels == InMonitor \cup {"read", "handle", "exit"}

Roles ==
  /\ pc[Main] \in MainLabels
  /\ \A w \in Workers : pc[w] \in WorkerLabels
  /\ pc[Cli] \in {"poll", "stdin", "broadcast", "exit"}
  /\ pc[Sig] \in {"idle", "broadcast"}

(* The mutex is held between Lock and the unlock or the wait, by one thread. *)
MutexHeld ==
  \A t \in QueueThreads : mutex = t <=> pc[t] \in {"test", "block", "check", "push"}

SleepersWait == \A t \in waiters : pc[t] = "wait"

(* What the wait loop has established when it is left, or falls asleep: it   *)
(* stays true since only the owner of the mutex changes the ring.            *)
LoopLeft ==
  /\ pc[Main] = "check" /\ running => task_count < MaxQueue
  /\ pc[Main] = "push" => task_count < MaxQueue
  /\ pc[Main] = "block" => task_count = MaxQueue
  /\ \A w \in Workers :
       /\ pc[w] = "check" /\ running => task_count > 0
       /\ pc[w] = "block" => task_count = 0

(* Main holds a socket exactly while it is in task_enqueue, a worker at most *)
(* while it serves one.                                                      *)
SocketHeld ==
  /\ client[Main] # None <=> pc[Main] \in InMonitor \cup {"push"}
  /\ \A w \in Workers : client[w] # None => pc[w] \in {"read", "handle"}

ControlInv ==
  TypeOK /\ Roles /\ MutexHeld /\ SleepersWait /\ LoopLeft /\ SocketHeld

-----------------------------------------------------------------------------
(* The slot after the last one is where the next task goes, and every live   *)
(* slot holds a socket.                                                      *)
RingInv ==
  /\ task_rear = Live(task_count)
  /\ \A i \in 0 .. task_count - 1 : task_queue[Live(i)] \in Clients

Serving == \A w \in Workers : pc[w] \in {"read", "handle"} => client[w] # None

OwnerInv == ControlInv /\ RingInv /\ Serving /\ OneOwner

-----------------------------------------------------------------------------
Asleep == waiters \cap Workers

(* A worker that has left found the ring empty after `running` was cleared   *)
(* and while it held the mutex, so main was not about to queue a task then;  *)
(* and nothing is admitted after that.                                       *)
GoneMeansEmpty ==
  (\E w \in Workers : pc[w] = "exit") =>
    ~running /\ task_count = 0 /\ pc[Main] # "push"

(* While main sleeps the sleeping workers are too few to swallow the signals *)
(* of all the dequeues to come.                                              *)
SignalsSuffice ==
  Main \in waiters =>
    /\ task_count > 0
    /\ \/ Asleep = {} /\ task_count = MaxQueue
       \/ Cardinality(Asleep) + MaxQueue - task_count <= Cardinality(Workers) - MaxQueue

CountInv == ControlInv /\ GoneMeansEmpty /\ SleepersNotNeeded /\ SignalsSuffice
-----------------------------------------------------------------------------
(* Control: who holds the mutex, and what the wait loops have established. *)
LEMMA ControlInit == Init => ControlInv
BY QueueAssumption DEF Init, ControlInv, TypeOK, Roles, MutexHeld, SleepersWait,
   LoopLeft, SocketHeld, QueueThreads, Slots, Labels, Fates, MainLabels, WorkerLabels, InMonitor

(* Each step keeps the types and the mutual exclusion. *)
LEMMA ControlStep == ControlInv /\ [Next]_vars => ControlInv'
<1> SUFFICES ASSUME ControlInv, [Next]_vars PROVE ControlInv'
  OBVIOUS
<1> USE QueueAssumption
    DEF ControlInv, TypeOK, Roles, MutexHeld, SleepersWait, LoopLeft, SocketHeld,
        QueueThreads, Slots, Labels, Fates, MainLabels, WorkerLabels, InMonitor, ring
<1>1. ASSUME NEW t \in QueueThreads, Lock(t) PROVE ControlInv'
  BY <1>1 DEF Lock, Goto
<1>2. ASSUME NEW t \in QueueThreads, Test(t) PROVE ControlInv'
  BY <1>2 DEF Test, MustWait, Goto
<1>3. ASSUME NEW t \in QueueThreads, CondWait(t) PROVE ControlInv'
  BY <1>3 DEF CondWait, Goto
<1>4. ASSUME NEW t \in QueueThreads, SpuriousWakeup(t) PROVE ControlInv'
  BY <1>4 DEF SpuriousWakeup
<1>5. ASSUME NEW w \in Workers, Dequeue(w) PROVE ControlInv'
  BY <1>5 DEF Dequeue, Oldest, CondSignal, Goto
<1>6. ASSUME NEW w \in Workers, Retire(w) PROVE ControlInv'
  BY <1>6 DEF Retire, Goto
<1>7. ASSUME NEW w \in Workers, ReadRequest(w) PROVE ControlInv'
  BY <1>7 DEF ReadRequest, Goto
<1>8. ASSUME NEW w \in Workers, ReadError(w) PROVE ControlInv'
  BY <1>8 DEF ReadError, Drop, Goto
<1>9. ASSUME NEW w \in Workers, ReadEof(w) PROVE ControlInv'
  BY <1>9 DEF ReadEof, Drop, Goto
<1>10. ASSUME NEW w \in Workers, HandleRequest(w) PROVE ControlInv'
  BY <1>10 DEF HandleRequest, Drop, Goto
<1>11. ASSUME Admit \/ Push PROVE ControlInv'
  <2>1. CASE Admit
    BY <2>1 DEF Admit, Goto
  <2>2. CASE Push
    BY <2>2 DEF Push, CondSignal, Goto
  <2> QED
    BY <1>11, <2>1, <2>2
<1>12. ASSUME Refuse PROVE ControlInv'
  BY <1>12 DEF Refuse, Goto
<1>13. ASSUME WhileRunning \/ NothingAccepted \/ SelectInterrupted \/ JoinAll PROVE ControlInv'
  BY <1>13 DEF WhileRunning, NothingAccepted, SelectInterrupted, JoinAll, Goto
<1>14. ASSUME NEW c \in Clients, Accept(c) PROVE ControlInv'
  BY <1>14 DEF Accept, Goto
<1>15. ASSUME CliPoll \/ CliIdle PROVE ControlInv'
  BY <1>15 DEF CliPoll, CliIdle, Goto
<1>16. ASSUME CliQuit PROVE ControlInv'
  BY <1>16 DEF CliQuit, Goto
<1>17. ASSUME SigInt PROVE ControlInv'
  <2>1. signals' \in 0 .. MaxSignals
    BY <1>17 DEF SigInt
  <2>2. /\ UNCHANGED <<ring, mutex, waiters, client, conn>>
        /\ running' = FALSE
        /\ pc' = [pc EXCEPT ![Sig] = "broadcast"]
    BY <1>17 DEF SigInt, Goto
  <2> QED
    BY <2>1, <2>2
<1>18. ASSUME NEW t \in {Cli, Sig}, Broadcast(t) PROVE ControlInv'
  BY <1>18 DEF Broadcast, Goto
<1>19. ASSUME NEW c \in Clients, Connect(c) PROVE ControlInv'
  BY <1>19 DEF Connect
<1>20. ASSUME UNCHANGED vars PROVE ControlInv'
  BY <1>20 DEF vars
<1> HIDE QueueAssumption DEF ControlInv, QueueThreads, ring
<1> QED
  BY <1>1, <1>2, <1>3, <1>4, <1>5, <1>6, <1>7, <1>8, <1>9, <1>10, <1>11, <1>12,
     <1>13, <1>14, <1>15, <1>16, <1>17, <1>18, <1>19, <1>20
  DEF Next, Monitor, WorkerStep, MainStep

(* Every variable keeps its type; in particular 0 <= task_count <= MAX_QUEUE  *)
(* although `running` changes without the mutex.                             *)
THEOREM TypeCorrect == Spec => []TypeOK
<1>1. Spec => []ControlInv
  BY ControlInit, ControlStep, PTL DEF Spec
<1>2. ControlInv => TypeOK
  BY DEF ControlInv
<1> QED
  BY <1>1, <1>2, PTL

-----------------------------------------------------------------------------
(* The sizes of the two sets of workers that the counting argument compares. *)
LEMMA Sizes ==
  /\ IsFiniteSet(Asleep) /\ Cardinality(Asleep) \in Nat
  /\ IsFiniteSet(Taking) /\ Cardinality(Taking) \in Nat
  /\ Cardinality(Workers) \in Nat
  /\ Cardinality(Asleep) + Cardinality(Taking) <= Cardinality(Workers)
<1>1. IsFiniteSet(Workers) /\ Asleep \subseteq Workers /\ Taking \subseteq Workers
  BY QueueAssumption DEF Asleep, Taking
<1>2. /\ IsFiniteSet(Asleep) /\ IsFiniteSet(Taking)
      /\ IsFiniteSet(Asleep \cup Taking)
      /\ Cardinality(Asleep \cup Taking) <= Cardinality(Workers)
  BY <1>1, FS_Subset
<1>3. /\ Cardinality(Asleep) \in Nat /\ Cardinality(Taking) \in Nat
      /\ Cardinality(Workers) \in Nat
  BY <1>1, <1>2, FS_CardinalityType
<1>4. Asleep \cap Taking = {}
  BY DEF Asleep, Taking
<1>5. Cardinality(Asleep \cup Taking) = Cardinality(Asleep) + Cardinality(Taking)
  <2>1. Cardinality(Asleep \cap Taking) = 0
    BY <1>4, FS_EmptySet
  <2>2. Cardinality(Asleep \cup Taking)
          = Cardinality(Asleep) + Cardinality(Taking) - Cardinality(Asleep \cap Taking)
    BY <1>2, FS_Union
  <2> QED
    BY <2>1, <2>2, <1>3
<1> QED
  BY <1>2, <1>3, <1>5

(* At the start every worker is on its way and nobody sleeps. *)
LEMMA CountInit == Init => CountInv
<1> SUFFICES ASSUME Init PROVE GoneMeansEmpty /\ SleepersNotNeeded /\ SignalsSuffice
  BY ControlInit DEF CountInv
<1>1. waiters = {} /\ \A w \in Workers : pc[w] # "exit"
  BY QueueAssumption DEF Init, QueueThreads
<1> QED
  BY <1>1 DEF GoneMeansEmpty, SleepersNotNeeded, SignalsSuffice

(* A step after which the same workers sleep and at least the same workers  *)
(* are on their way to a task, with the ring as it was.                     *)
LEMMA CountUnchanged ==
  ASSUME CountInv, ControlInv', UNCHANGED <<task_count, waiters>>,
         Taking \subseteq Taking',
         running' => running, GoneMeansEmpty'
  PROVE  CountInv'
<1>1. Asleep' = Asleep
  BY DEF Asleep
<1>2. IsFiniteSet(Taking') /\ Cardinality(Taking') \in Nat
  <2>1. IsFiniteSet(Workers) /\ Taking' \subseteq Workers
    BY QueueAssumption DEF Taking
  <2> QED
    BY <2>1, FS_Subset, FS_CardinalityType
<1>3. Cardinality(Taking) <= Cardinality(Taking')
  <2> Taking \in SUBSET Taking'
    OBVIOUS
  <2> QED
    BY <1>2, FS_Subset
<1>4. task_count \in Int
  BY DEF CountInv, ControlInv, TypeOK
<1>5. SleepersNotNeeded'
  BY <1>1, <1>2, <1>3, <1>4, Sizes DEF CountInv, SleepersNotNeeded, Asleep
<1>6. SignalsSuffice'
  BY <1>1 DEF CountInv, SignalsSuffice
<1> QED
  BY <1>5, <1>6 DEF CountInv

(* The signal of task_enqueue and task_dequeue, and what it does to the two  *)
(* sets: nobody sleeps, or main is woken, or one sleeping worker is.         *)
LEMMA SignalCases ==
  ASSUME CondSignal, ControlInv
  PROVE  \/ waiters = {} /\ waiters' = {}
         \/ Main \in waiters /\ waiters' = waiters \ {Main} /\ Asleep' = Asleep
         \/ \E v \in Asleep :
              /\ waiters' = waiters \ {v}
              /\ Asleep' = Asleep \ {v}
              /\ pc[v] = "wait"
<1>1. CASE waiters = {}
  BY <1>1 DEF CondSignal
<1>2. ASSUME NEW t \in waiters, waiters' = waiters \ {t}
      PROVE  \/ t = Main /\ Asleep' = Asleep
             \/ t \in Asleep /\ Asleep' = Asleep \ {t} /\ pc[t] = "wait"
  BY <1>2, QueueAssumption DEF ControlInv, TypeOK, SleepersWait, QueueThreads, Asleep
<1> QED
  BY <1>1, <1>2 DEF CondSignal

(* A worker that takes a task leaves enough others on the way for the rest. *)
LEMMA CountDequeue ==
  ASSUME CountInv, ControlInv', NEW w \in Workers, Dequeue(w)
  PROVE  CountInv'
<1> USE DEF CountInv
<1>1. /\ pc[w] = "check" /\ pc' = [pc EXCEPT ![w] = "read"]
      /\ task_count' = task_count - 1 /\ running' = running
      /\ CondSignal
  BY DEF Dequeue, Goto
<1>2. /\ task_count \in 1 .. MaxQueue
      /\ w \in Taking /\ w \notin waiters
      /\ pc \in [QueueThreads \cup {Cli, Sig} -> Labels]
  BY <1>1 DEF Dequeue, ControlInv, TypeOK, LoopLeft, SleepersWait, Taking, QueueThreads
<1>3. GoneMeansEmpty'
  BY <1>1, <1>2 DEF GoneMeansEmpty, QueueThreads
<1>4. CASE waiters = {} /\ waiters' = {}
  BY <1>3, <1>4 DEF SleepersNotNeeded, SignalsSuffice
<1>5. CASE Main \in waiters /\ waiters' = waiters \ {Main} /\ Asleep' = Asleep
  <2>1. Taking' = Taking \ {w}
    BY <1>1, <1>2, <1>5, QueueAssumption DEF Taking, QueueThreads
  <2>2. Cardinality(Taking') = Cardinality(Taking) - 1
    BY <2>1, <1>2, Sizes, FS_RemoveElement
  <2>3. SleepersNotNeeded'
    BY <1>1, <1>2, <1>5, <2>2, Sizes DEF SleepersNotNeeded, Asleep
  <2> QED
    BY <1>3, <1>5, <2>3 DEF SignalsSuffice
<1>6. ASSUME NEW v \in Asleep, waiters' = waiters \ {v}, Asleep' = Asleep \ {v},
             pc[v] = "wait"
      PROVE  CountInv'
  <2>1. Taking' = (Taking \ {w}) \cup {v}
    BY <1>1, <1>2, <1>6 DEF Taking, QueueThreads, Asleep
  <2>2. Cardinality(Taking') = Cardinality(Taking)
    <3>1. v \notin Taking \ {w}
      BY DEF Taking, Asleep
    <3>2. IsFiniteSet(Taking \ {w}) /\ Cardinality(Taking \ {w}) = Cardinality(Taking) - 1
      BY <1>2, Sizes, FS_RemoveElement
    <3>3. Cardinality(Taking') = Cardinality(Taking \ {w}) + 1
      BY <2>1, <3>1, <3>2, FS_AddElement
    <3> QED
      BY <3>2, <3>3, Sizes
  <2>3. Cardinality(Asleep') = Cardinality(Asleep) - 1 /\ Cardinality(Asleep') \in Nat
    <3>1. IsFiniteSet(Asleep')
      BY <1>6, Sizes, FS_RemoveElement
    <3> QED
      BY <1>6, <3>1, Sizes, FS_RemoveElement, FS_CardinalityType
  <2>4. SleepersNotNeeded'
    BY <1>1, <1>2, <1>6, <2>2, Sizes DEF SleepersNotNeeded, Asleep
  <2>5. SignalsSuffice'
    BY <1>1, <1>2, <1>6, <2>3, Sizes, QueueAssumption, ThreadsFitQueue DEF SignalsSuffice
  <2> QED
    BY <1>3, <2>4, <2>5
<1> QED
  BY <1>1, <1>4, <1>5, <1>6, SignalCases

(* A new task comes with the wake-up of a sleeper, if one sleeps. *)
LEMMA CountPush ==
  ASSUME CountInv, ControlInv', Push
  PROVE  CountInv'
<1> USE DEF CountInv
<1>1. /\ pc[Main] = "push" /\ pc' = [pc EXCEPT ![Main] = "while"]
      /\ task_count' = task_count + 1 /\ running' = running
      /\ CondSignal
  BY DEF Push, Goto
<1>2. /\ task_count \in 0 .. MaxQueue
      /\ Main \notin waiters
      /\ pc \in [QueueThreads \cup {Cli, Sig} -> Labels]
  BY <1>1 DEF ControlInv, TypeOK, SleepersWait, QueueThreads
<1>3. GoneMeansEmpty'
  BY <1>1, <1>2, QueueAssumption DEF GoneMeansEmpty, QueueThreads
<1>4. CASE waiters = {} /\ waiters' = {}
  BY <1>3, <1>4 DEF SleepersNotNeeded, SignalsSuffice
<1>5. ASSUME NEW v \in Asleep, waiters' = waiters \ {v}, pc[v] = "wait"
      PROVE  CountInv'
  <2>1. Taking' = Taking \cup {v} /\ v \notin Taking
    BY <1>1, <1>2, <1>5, QueueAssumption DEF Taking, QueueThreads, Asleep
  <2>2. Cardinality(Taking') = Cardinality(Taking) + 1
    BY <2>1, Sizes, FS_AddElement
  <2>3. SleepersNotNeeded'
    BY <1>1, <1>2, <1>5, <2>2, Sizes DEF SleepersNotNeeded, Asleep
  <2> QED
    BY <1>2, <1>3, <1>5, <2>3 DEF SignalsSuffice
<1> QED
  BY <1>1, <1>2, <1>4, <1>5, SignalCases

(* A worker falls asleep only when no task is queued; main only when the ring is full. *)
LEMMA CountCondWait ==
  ASSUME CountInv, ControlInv', NEW t \in QueueThreads, CondWait(t)
  PROVE  CountInv'
<1> USE DEF CountInv
<1>1. /\ pc[t] = "block" /\ pc' = [pc EXCEPT ![t] = "wait"]
      /\ waiters' = waiters \cup {t}
      /\ UNCHANGED <<task_count, running>>
  BY DEF CondWait, Goto, ring
<1>2. /\ task_count \in 0 .. MaxQueue
      /\ pc \in [QueueThreads \cup {Cli, Sig} -> Labels]
      /\ MaxQueue \in Nat \ {0}
  BY QueueAssumption DEF ControlInv, TypeOK
<1>3. GoneMeansEmpty'
  BY <1>1, <1>2 DEF GoneMeansEmpty, QueueThreads
<1>4. CASE t = Main
  <2>1. Asleep' = Asleep /\ Taking' = Taking
    BY <1>1, <1>2, <1>4, QueueAssumption DEF Asleep, Taking, QueueThreads
  <2>2. task_count = MaxQueue
    BY <1>1, <1>4 DEF ControlInv, LoopLeft
  <2>3. SleepersNotNeeded'
    BY <1>1, <2>1 DEF SleepersNotNeeded, Asleep
  <2>4. Asleep # {} => Cardinality(Asleep) <= Cardinality(Workers) - MaxQueue
    BY <1>2, <2>2, Sizes DEF SleepersNotNeeded, Asleep
  <2>5. SignalsSuffice'
    BY <1>1, <1>2, <2>1, <2>2, <2>4, Sizes DEF SignalsSuffice
  <2> QED
    BY <1>3, <2>3, <2>5
<1>5. CASE t \in Workers
  <2>1. task_count = 0
    BY <1>1, <1>5 DEF ControlInv, LoopLeft
  <2>2. Main \notin waiters'
    BY <1>1, <1>5, <2>1, QueueAssumption DEF SignalsSuffice
  <2>3. IsFiniteSet(Taking') /\ Cardinality(Taking') \in Nat
    <3>1. IsFiniteSet(Workers) /\ Taking' \subseteq Workers
      BY QueueAssumption DEF Taking
    <3> QED
      BY <3>1, FS_Subset, FS_CardinalityType
  <2>4. SleepersNotNeeded'
    BY <1>1, <2>1, <2>3 DEF SleepersNotNeeded
  <2> QED
    BY <1>3, <2>2, <2>4 DEF SignalsSuffice
<1> QED
  BY <1>4, <1>5 DEF QueueThreads

(* A spurious wake-up only adds to the workers on their way. *)
LEMMA CountSpurious ==
  ASSUME CountInv, ControlInv', NEW t \in QueueThreads, SpuriousWakeup(t)
  PROVE  CountInv'
<1> USE DEF CountInv
<1>1. /\ t \in waiters /\ waiters' = waiters \ {t}
      /\ UNCHANGED <<task_count, running, pc>>
      /\ pc[t] = "wait" /\ task_count \in 0 .. MaxQueue /\ MaxQueue \in Nat
  BY QueueAssumption DEF SpuriousWakeup, ring, ControlInv, SleepersWait, TypeOK
<1>2. GoneMeansEmpty'
  BY <1>1 DEF GoneMeansEmpty
<1>3. CASE t = Main
  <2>1. Asleep' = Asleep /\ Taking' = Taking /\ Main \notin waiters'
    BY <1>1, <1>3, QueueAssumption DEF Asleep, Taking
  <2> QED
    BY <1>1, <1>2, <2>1 DEF SleepersNotNeeded, SignalsSuffice, Asleep
<1>4. CASE t \in Workers
  <2>1. Asleep' = Asleep \ {t} /\ t \in Asleep
    BY <1>1, <1>4 DEF Asleep
  <2>2. Taking' = Taking \cup {t} /\ t \notin Taking
    BY <1>1, <1>4 DEF Taking
  <2>3. Cardinality(Taking') = Cardinality(Taking) + 1
    BY <2>2, Sizes, FS_AddElement
  <2>4. IsFiniteSet(Asleep') /\ Cardinality(Asleep') = Cardinality(Asleep) - 1
    BY <2>1, Sizes, FS_RemoveElement
  <2>5. Cardinality(Asleep') \in Nat
    BY <2>4, FS_CardinalityType
  <2>6. SleepersNotNeeded'
    BY <1>1, <2>1, <2>3, Sizes DEF SleepersNotNeeded, Asleep
  <2>7. SignalsSuffice'
    BY <1>1, <1>4, <2>1, <2>4, <2>5, Sizes, QueueAssumption DEF SignalsSuffice
  <2> QED
    BY <1>2, <2>6, <2>7
<1> QED
  BY <1>3, <1>4 DEF QueueThreads

(* A worker retires only when no task is queued. *)
LEMMA CountRetire ==
  ASSUME CountInv, ControlInv', NEW w \in Workers, Retire(w)
  PROVE  CountInv'
<1> USE DEF CountInv
<1>1. /\ task_count = 0 /\ ~running
      /\ UNCHANGED <<task_count, running, waiters>>
  BY DEF Retire, ring
<1>0. pc'[Main] # "push"
  BY QueueAssumption DEF Retire, Goto, ControlInv, TypeOK, MutexHeld, QueueThreads
<1>2. IsFiniteSet(Taking') /\ Cardinality(Taking') \in Nat
  <2>1. IsFiniteSet(Workers) /\ Taking' \subseteq Workers
    BY QueueAssumption DEF Taking
  <2> QED
    BY <2>1, FS_Subset, FS_CardinalityType
<1> QED
  BY <1>0, <1>1, <1>2 DEF GoneMeansEmpty, SleepersNotNeeded, SignalsSuffice

(* After a broadcast nobody sleeps. *)
LEMMA CountBroadcast ==
  ASSUME CountInv, ControlInv', NEW t \in {Cli, Sig}, Broadcast(t)
  PROVE  CountInv'
<1>1. /\ waiters' = {} /\ UNCHANGED <<task_count, running>>
      /\ pc' = [pc EXCEPT ![t] = IF t = Cli THEN "exit" ELSE "idle"]
      /\ pc \in [QueueThreads \cup {Cli, Sig} -> Labels]
  BY DEF Broadcast, Goto, ring, CountInv, ControlInv, TypeOK
<1>2. GoneMeansEmpty'
  BY <1>1, QueueAssumption DEF CountInv, GoneMeansEmpty, QueueThreads
<1> QED
  BY <1>1, <1>2 DEF CountInv, SleepersNotNeeded, SignalsSuffice

(* The steps that leave the ring and the sleepers alone. *)
LEMMA CountOther ==
  ASSUME CountInv, ControlInv',
         \/ \E t \in QueueThreads : Lock(t) \/ Test(t)
         \/ \E w \in Workers : ReadRequest(w) \/ ReadError(w) \/ ReadEof(w)
                                 \/ HandleRequest(w)
         \/ Refuse \/ WhileRunning \/ NothingAccepted \/ SelectInterrupted \/ JoinAll
         \/ \E c \in Clients : Accept(c) \/ Connect(c)
         \/ CliPoll \/ CliIdle \/ CliQuit \/ SigInt
         \/ UNCHANGED vars
  PROVE  CountInv'
<1>1. pc \in [QueueThreads \cup {Cli, Sig} -> Labels] /\ \A t \in waiters : pc[t] = "wait"
  BY DEF CountInv, ControlInv, TypeOK, SleepersWait
<1>2. /\ UNCHANGED <<task_count, waiters>>
      /\ running' => running
  BY DEF Lock, Test, ReadRequest, ReadError, ReadEof, HandleRequest, Drop, Refuse,
         WhileRunning, NothingAccepted, SelectInterrupted, JoinAll, Accept, Connect,
         CliPoll, CliIdle, CliQuit, SigInt, vars, ring
<1> DEFINE Kept == /\ Taking \subseteq Taking'
                    /\ \A w \in Workers : pc'[w] = "exit" => pc[w] = "exit"
<1>3. Kept
  <2>1. ASSUME NEW t \in QueueThreads, Lock(t) \/ Test(t)
        PROVE  Kept
    BY <1>1, <1>2, <2>1, QueueAssumption DEF Lock, Test, Goto, Taking, QueueThreads
  <2>2. ASSUME NEW w \in Workers,
               ReadRequest(w) \/ ReadError(w) \/ ReadEof(w) \/ HandleRequest(w)
        PROVE  Kept
    BY <1>1, <1>2, <2>2, QueueAssumption
       DEF ReadRequest, ReadError, ReadEof, HandleRequest, Drop, Goto, Taking, QueueThreads
  <2>3. ASSUME \/ Refuse \/ WhileRunning \/ NothingAccepted \/ SelectInterrupted \/ JoinAll
               \/ \E c \in Clients : Accept(c)
        PROVE  Kept
    BY <1>1, <1>2, <2>3, QueueAssumption
       DEF Refuse, WhileRunning, NothingAccepted, SelectInterrupted, JoinAll, Accept,
           Goto, Taking, QueueThreads
  <2>4. ASSUME CliPoll \/ CliIdle \/ CliQuit \/ SigInt
        PROVE  Kept
    BY <1>1, <1>2, <2>4, QueueAssumption
       DEF CliPoll, CliIdle, CliQuit, SigInt, Goto, Taking, QueueThreads
  <2>5. ASSUME (\E c \in Clients : Connect(c)) \/ UNCHANGED vars
        PROVE  Kept
    BY <1>2, <2>5 DEF Connect, Taking, vars
  <2> QED
    BY <2>1, <2>2, <2>3, <2>4, <2>5
<1>4. pc'[Main] = "push" => pc[Main] = "push"
  BY <1>1, QueueAssumption
     DEF Lock, Test, ReadRequest, ReadError, ReadEof, HandleRequest, Drop, Refuse,
         WhileRunning, NothingAccepted, SelectInterrupted, JoinAll, Accept, Connect,
         CliPoll, CliIdle, CliQuit, SigInt, vars, Goto, QueueThreads
<1>5. GoneMeansEmpty'
  BY <1>2, <1>3, <1>4 DEF CountInv, GoneMeansEmpty
<1> QED
  BY <1>2, <1>3, <1>5, CountUnchanged

(* Main is about to queue a task: `running` was set, so no worker has left. *)
LEMMA CountAdmit ==
  ASSUME CountInv, ControlInv', Admit
  PROVE  CountInv'
<1>1. /\ UNCHANGED <<task_count, waiters, running>> /\ running
      /\ pc' = [pc EXCEPT ![Main] = "push"]
  BY DEF Admit, Goto, ring
<1>2. pc \in [QueueThreads \cup {Cli, Sig} -> Labels]
  BY DEF CountInv, ControlInv, TypeOK
<1>3. \A w \in Workers : pc'[w] = pc[w]
  BY <1>1, <1>2, QueueAssumption DEF QueueThreads
<1>4. Taking' = Taking /\ GoneMeansEmpty'
  BY <1>1, <1>3 DEF Taking, CountInv, GoneMeansEmpty
<1> QED
  BY <1>1, <1>4, CountUnchanged

(* Each step keeps the balance of queued tasks, sleepers and workers on the way. *)
LEMMA CountStep == CountInv /\ [Next]_vars => CountInv'
<1> SUFFICES ASSUME CountInv, [Next]_vars PROVE CountInv'
  OBVIOUS
<1>1. ControlInv'
  BY ControlStep DEF CountInv
<1> QED
  BY <1>1, CountCondWait, CountSpurious, CountDequeue, CountRetire, CountAdmit, CountPush,
     CountBroadcast, CountOther
  DEF Next, Monitor, WorkerStep, MainStep

(* One wake-up per task is enough, with any number of workers and slots:     *)
(* http.c's task_enqueue may signal instead of broadcasting.                 *)
THEOREM SleepersCorrect == Spec => []SleepersNotNeeded
<1>1. Spec => []CountInv
  BY CountInit, CountStep, PTL DEF Spec
<1>2. CountInv => SleepersNotNeeded
  BY DEF CountInv
<1> QED
  BY <1>1, <1>2, PTL

(* The producer is never stranded on the shared condition variable as long   *)
(* as MAX_THREADS < 2 * MAX_QUEUE.                                           *)
THEOREM ProducerCorrect == Spec => []NoLostProducer
<1>1. Spec => []CountInv
  BY CountInit, CountStep, PTL DEF Spec
<1>2. CountInv => NoLostProducer
  BY DEF CountInv, SignalsSuffice, NoLostProducer
<1> QED
  BY <1>1, <1>2, PTL

(* The shutdown leaves no queued connection without a worker. *)
THEOREM NothingAbandoned == Spec => []NoTaskAbandoned
<1>1. Spec => []CountInv
  BY CountInit, CountStep, PTL DEF Spec
<1>2. CountInv => NoTaskAbandoned
  <2> SUFFICES ASSUME CountInv, task_count > 0
               PROVE  \E w \in Workers \ waiters : pc[w] # "exit"
    BY DEF NoTaskAbandoned
  <2>1. \A w \in Workers : pc[w] # "exit"
    BY DEF CountInv, GoneMeansEmpty, ControlInv, TypeOK
  <2>2. CASE Asleep = {}
    BY <2>1, <2>2, QueueAssumption DEF Asleep
  <2>3. CASE Asleep # {}
    <3>1. Taking # {}
      BY <2>3, Sizes, FS_EmptySet DEF CountInv, SleepersNotNeeded, Asleep, ControlInv, TypeOK
    <3> QED
      BY <2>1, <3>1 DEF Taking
  <2> QED
    BY <2>2, <2>3
<1> QED
  BY <1>1, <1>2, PTL

-----------------------------------------------------------------------------
(* The ring's index arithmetic. *)
LEMMA ModWrap ==
  ASSUME NEW m \in Nat \ {0}, NEW x \in 0 .. 2 * m - 1
  PROVE  x % m = IF x < m THEN x ELSE x - m
<1>1. CASE x < m
  BY <1>1
<1>2. CASE x >= m
  <2>1. x = 1 * m + (x - m) /\ x - m \in 0 .. m - 1
    BY <1>2
  <2> QED
    BY <2>1
<1> QED
  BY <1>1, <1>2

(* Distinct positions of the queue are distinct slots of the ring. *)
LEMMA LiveSlots ==
  ASSUME NEW f \in Slots
  PROVE  /\ \A i \in 0 .. MaxQueue : (f + i) % MaxQueue \in Slots
         /\ \A i, j \in 0 .. MaxQueue - 1 :
              (f + i) % MaxQueue = (f + j) % MaxQueue => i = j
         /\ \A i \in 0 .. MaxQueue - 1 :
              /\ (((f + i) % MaxQueue) + 1) % MaxQueue = (f + (i + 1)) % MaxQueue
              /\ (((f + 1) % MaxQueue) + i) % MaxQueue = (f + (i + 1)) % MaxQueue
         /\ (f + 0) % MaxQueue = f
<1>1. MaxQueue \in Nat \ {0} /\ f \in 0 .. MaxQueue - 1
  BY QueueAssumption DEF Slots
<1>3. ASSUME NEW g \in 0 .. MaxQueue - 1, NEW i \in 0 .. MaxQueue
      PROVE  (g + i) % MaxQueue = IF g + i < MaxQueue THEN g + i ELSE g + i - MaxQueue
  <2>1. PICK x \in 0 .. 2 * MaxQueue - 1 : x = g + i
    BY <1>1
  <2>2. x % MaxQueue = IF x < MaxQueue THEN x ELSE x - MaxQueue
    BY <1>1, ModWrap
  <2>3. (g + i) % MaxQueue = x % MaxQueue
    BY <2>1, Zenon
  <2>4. (IF x < MaxQueue THEN x ELSE x - MaxQueue)
          = IF g + i < MaxQueue THEN g + i ELSE g + i - MaxQueue
    BY <2>1, <1>1, SMT
  <2> QED
    BY <2>2, <2>3, <2>4, Zenon
<1>2. \A i \in 0 .. MaxQueue :
        (f + i) % MaxQueue = IF f + i < MaxQueue THEN f + i ELSE f + i - MaxQueue
  BY <1>1, <1>3
<1>4. \A i \in 0 .. MaxQueue : (f + i) % MaxQueue \in Slots
  BY <1>1, <1>2 DEF Slots
<1>5. ASSUME NEW i \in 0 .. MaxQueue - 1, NEW j \in 0 .. MaxQueue - 1,
             (f + i) % MaxQueue = (f + j) % MaxQueue
      PROVE  i = j
  <2> HIDE QueueAssumption
  <2>1. (f + i) % MaxQueue = (IF f + i < MaxQueue THEN f + i ELSE f + i - MaxQueue)
    BY <1>1, <1>2
  <2>2. (f + j) % MaxQueue = (IF f + j < MaxQueue THEN f + j ELSE f + j - MaxQueue)
    BY <1>1, <1>2
  <2>3. (IF f + i < MaxQueue THEN f + i ELSE f + i - MaxQueue)
          = (IF f + j < MaxQueue THEN f + j ELSE f + j - MaxQueue)
    BY <1>5, <2>1, <2>2
  <2> QED
    BY <1>1, <2>3
<1>6. ASSUME NEW i \in 0 .. MaxQueue - 1
      PROVE  (((f + i) % MaxQueue) + 1) % MaxQueue = (f + (i + 1)) % MaxQueue
  <2> DEFINE g == (f + i) % MaxQueue
  <2>1. g = (IF f + i < MaxQueue THEN f + i ELSE f + i - MaxQueue) /\ g \in 0 .. MaxQueue - 1
    BY <1>1, <1>2
  <2>2. (g + 1) % MaxQueue = (IF g + 1 < MaxQueue THEN g + 1 ELSE g + 1 - MaxQueue)
    <3> 1 \in 0 .. MaxQueue
      BY <1>1
    <3> QED
      BY <1>3, <2>1
  <2>3. (f + (i + 1)) % MaxQueue
          = (IF f + (i + 1) < MaxQueue THEN f + (i + 1) ELSE f + (i + 1) - MaxQueue)
    <3> i + 1 \in 0 .. MaxQueue
      BY <1>1
    <3> QED
      BY <1>2
  <2> HIDE DEF g
  <2>4. (g + 1) % MaxQueue = (f + (i + 1)) % MaxQueue
    BY <1>1, <2>1, <2>2, <2>3
  <2> QED
    BY <2>4 DEF g
<1>7. ASSUME NEW i \in 0 .. MaxQueue - 1
      PROVE  (((f + 1) % MaxQueue) + i) % MaxQueue = (f + (i + 1)) % MaxQueue
  <2> DEFINE g == (f + 1) % MaxQueue
  <2>1. g = (IF f + 1 < MaxQueue THEN f + 1 ELSE f + 1 - MaxQueue) /\ g \in 0 .. MaxQueue - 1
    <3> 1 \in 0 .. MaxQueue
      BY <1>1
    <3> QED
      BY <1>1, <1>2
  <2>2. (g + i) % MaxQueue = (IF g + i < MaxQueue THEN g + i ELSE g + i - MaxQueue)
    <3> i \in 0 .. MaxQueue
      BY <1>1
    <3> HIDE DEF g
    <3> QED
      BY <1>3, <2>1
  <2>3. (f + (i + 1)) % MaxQueue
          = (IF f + (i + 1) < MaxQueue THEN f + (i + 1) ELSE f + (i + 1) - MaxQueue)
    <3> i + 1 \in 0 .. MaxQueue
      BY <1>1
    <3> QED
      BY <1>2
  <2> HIDE DEF g
  <2>4. (g + i) % MaxQueue = (f + (i + 1)) % MaxQueue
    BY <1>1, <2>1, <2>2, <2>3
  <2> QED
    BY <2>4 DEF g
<1>8. (f + 0) % MaxQueue = f
  BY <1>1, <1>2
<1> QED
  BY <1>4, <1>5, <1>6, <1>7, <1>8

(* Owners, element by element. *)
LEMMA OwnersDef ==
  ASSUME NEW c \in Clients
  PROVE  \A o : o \in Owners(c) <=>
           \/ \E t \in QueueThreads : client[t] = c /\ o = <<"thread", t>>
           \/ \E i \in 0 .. task_count - 1 : task_queue[Live(i)] = c /\ o = <<"slot", i>>
BY DEF Owners

(* At the start no connection is open and nobody holds one. *)
LEMMA OwnerInit == Init => OwnerInv
<1> SUFFICES ASSUME Init PROVE RingInv /\ Serving /\ OneOwner
  BY ControlInit DEF OwnerInv
<1>1. task_count = 0 /\ task_front = 0 /\ task_rear = 0 /\ 0 \in Slots
  BY QueueAssumption DEF Init, Slots
<1>2. RingInv
  BY <1>1, LiveSlots DEF RingInv, Live
<1>3. Serving
  BY QueueAssumption DEF Init, Serving, QueueThreads
<1>4. ASSUME NEW c \in Clients PROVE conn[c] # "open" /\ Owners(c) = {}
  BY <1>1, OwnersDef, QueueAssumption DEF Init
<1> QED
  BY <1>2, <1>3, <1>4 DEF OneOwner

(* The owners of a connection only depend on the ring and the held sockets. *)
LEMMA OwnersKept ==
  ASSUME NEW c \in Clients, UNCHANGED <<ring, client>>
  PROVE  Owners(c)' = Owners(c)
BY DEF ring, Owners, Live

(* A step that touches neither the ring, nor a held socket, nor an open      *)
(* connection.                                                               *)
LEMMA OwnerOther ==
  ASSUME OwnerInv, ControlInv', UNCHANGED <<ring, client>>,
         \A c \in Clients : conn'[c] = conn[c] \/ (conn[c] # "open" /\ conn'[c] # "open"),
         \A w \in Workers : pc'[w] \in {"read", "handle"} => pc[w] \in {"read", "handle"}
  PROVE  OwnerInv'
<1>1. RingInv' /\ Serving'
  BY DEF OwnerInv, RingInv, Serving, ring, Live
<1>2. OneOwner'
  BY OwnersKept DEF OwnerInv, OneOwner
<1> QED
  BY <1>1, <1>2 DEF OwnerInv

(* Main accepts a pending connection: it has no owner yet. *)
LEMMA OwnerAccept ==
  ASSUME OwnerInv, ControlInv', NEW d \in Clients, Accept(d)
  PROVE  OwnerInv'
<1> USE DEF OwnerInv
<1>1. /\ conn[d] = "backlog" /\ conn' = [conn EXCEPT ![d] = "open"]
      /\ client' = [client EXCEPT ![Main] = d] /\ client[Main] = None
      /\ pc' = [pc EXCEPT ![Main] = "lock"]
      /\ UNCHANGED <<task_queue, task_front, task_rear, task_count>>
      /\ client \in [QueueThreads -> Clients \cup {None}]
      /\ conn \in [Clients -> Fates] /\ pc \in [QueueThreads \cup {Cli, Sig} -> Labels]
  BY DEF Accept, Goto, ring, ControlInv, TypeOK, SocketHeld, InMonitor
<1>2. RingInv' /\ Serving'
  BY <1>1, QueueAssumption DEF RingInv, Serving, Live, QueueThreads
<1>3. ASSUME NEW c \in Clients, c # d
      PROVE  conn'[c] = conn[c] /\ Owners(c)' = Owners(c)
  BY <1>1, <1>3, QueueAssumption DEF Owners, Live, QueueThreads
<1>4. Owners(d)' = {<<"thread", Main>>}
  <2>1. Owners(d) = {}
    BY <1>1 DEF OneOwner
  <2>2. \A t \in QueueThreads : client[t] # d
    BY <2>1, OwnersDef
  <2>3. \A i \in 0 .. task_count - 1 : task_queue[Live(i)] # d
    BY <2>1, OwnersDef
  <2> QED
    BY <1>1, <2>2, <2>3 DEF Owners, Live, QueueThreads
<1>5. conn'[d] = "open"
  BY <1>1
<1>6. OneOwner'
  BY <1>3, <1>4, <1>5 DEF OneOwner
<1> QED
  BY <1>2, <1>6

(* Who owns a connection when one owner is known. *)
LEMMA SoleThread ==
  ASSUME OneOwner, NEW d \in Clients, NEW t \in QueueThreads, client[t] = d
  PROVE  /\ conn[d] = "open"
         /\ \A s \in QueueThreads : client[s] = d => s = t
         /\ \A i \in 0 .. task_count - 1 : task_queue[Live(i)] # d
<1>1. <<"thread", t>> \in Owners(d)
  BY OwnersDef
<1>2. conn[d] = "open" /\ Owners(d) = {<<"thread", t>>}
  BY <1>1 DEF OneOwner
<1>3. ASSUME NEW s \in QueueThreads, client[s] = d PROVE s = t
  <2>1. <<"thread", s>> \in Owners(d)
    BY <1>3, OwnersDef
  <2> QED
    BY <2>1, <1>2
<1>4. ASSUME NEW i \in 0 .. task_count - 1, task_queue[Live(i)] = d PROVE FALSE
  <2>1. <<"slot", i>> \in Owners(d)
    BY <1>4, OwnersDef
  <2>2. <<"slot", i>> = <<"thread", t>>
    BY <2>1, <1>2
  <2> QED
    BY <2>2
<1> QED
  BY <1>2, <1>3, <1>4

(* A connection in the ring is in one slot and no thread holds it. *)
LEMMA SoleSlot ==
  ASSUME OneOwner, NEW d \in Clients, NEW i \in 0 .. task_count - 1,
         task_queue[Live(i)] = d
  PROVE  /\ conn[d] = "open"
         /\ \A s \in QueueThreads : client[s] # d
         /\ \A j \in 0 .. task_count - 1 : task_queue[Live(j)] = d => j = i
<1>1. <<"slot", i>> \in Owners(d)
  BY OwnersDef
<1>2. conn[d] = "open" /\ Owners(d) = {<<"slot", i>>}
  BY <1>1 DEF OneOwner
<1>3. ASSUME NEW s \in QueueThreads, client[s] = d PROVE FALSE
  <2>1. <<"thread", s>> \in Owners(d)
    BY <1>3, OwnersDef
  <2>2. <<"slot", i>> = <<"thread", s>>
    BY <2>1, <1>2
  <2> QED
    BY <2>2
<1>4. ASSUME NEW j \in 0 .. task_count - 1, task_queue[Live(j)] = d PROVE j = i
  <2>1. <<"slot", j>> \in Owners(d)
    BY <1>4, OwnersDef
  <2>2. <<"slot", j>> = <<"slot", i>>
    BY <2>1, <1>2
  <2> QED
    BY <2>2
<1> QED
  BY <1>2, <1>3, <1>4

(* A thread closes, or forgets, the socket it holds. *)
LEMMA OwnerDrop ==
  ASSUME OwnerInv, ControlInv', NEW t \in QueueThreads,
         NEW d \in Clients, client[t] = d,
         UNCHANGED ring,
         client' = [client EXCEPT ![t] = None],
         NEW outcome, outcome # "open",
         conn' = [conn EXCEPT ![d] = outcome],
         \A w \in Workers : w # t => pc'[w] = pc[w],
         pc'[t] \notin {"read", "handle"}
  PROVE  OwnerInv'
<1> USE DEF OwnerInv
<1>1. /\ client \in [QueueThreads -> Clients \cup {None}]
      /\ conn \in [Clients -> Fates]
  BY DEF ControlInv, TypeOK
<1>2. RingInv' /\ Serving'
  BY <1>1 DEF RingInv, Serving, Live, ring, QueueThreads
<1>3. ASSUME NEW c \in Clients, c # d
      PROVE  conn'[c] = conn[c] /\ Owners(c)' = Owners(c)
  BY <1>1, <1>3, QueueAssumption DEF Owners, Live, QueueThreads, ring
<1>4. Owners(d)' = {}
  <2>1. /\ \A s \in QueueThreads : client[s] = d => s = t
        /\ \A i \in 0 .. task_count - 1 : task_queue[Live(i)] # d
    BY SoleThread
  <2> QED
    BY <1>1, <2>1, QueueAssumption DEF Owners, Live, QueueThreads, ring
<1>5. conn'[d] # "open"
  BY <1>1
<1>6. OneOwner'
  BY <1>3, <1>4, <1>5 DEF OneOwner
<1> QED
  BY <1>2, <1>6

(* Main's socket moves into the free slot behind the last one. *)
LEMMA OwnerPush ==
  ASSUME OwnerInv, ControlInv', Push
  PROVE  OwnerInv'
<1> USE DEF OwnerInv
<1>1. /\ pc[Main] = "push" /\ pc' = [pc EXCEPT ![Main] = "while"]
      /\ task_queue' = [task_queue EXCEPT ![task_rear] = client[Main]]
      /\ task_rear' = (task_rear + 1) % MaxQueue
      /\ task_count' = task_count + 1
      /\ client' = [client EXCEPT ![Main] = None]
      /\ UNCHANGED <<task_front, conn>>
  BY DEF Push, Goto
<1>2. /\ client \in [QueueThreads -> Clients \cup {None}]
      /\ conn \in [Clients -> Fates] /\ pc \in [QueueThreads \cup {Cli, Sig} -> Labels]
      /\ task_queue \in [Slots -> Clients \cup {None}]
      /\ task_count \in 0 .. MaxQueue - 1 /\ task_front \in Slots
      /\ MaxQueue \in Nat \ {0}
      /\ Main \in QueueThreads
  BY <1>1, QueueAssumption DEF ControlInv, TypeOK, LoopLeft, QueueThreads
<1>3. PICK d \in Clients : d = client[Main]
  BY <1>1, <1>2 DEF ControlInv, SocketHeld, InMonitor
<1>4. /\ \A i \in 0 .. task_count : Live(i) \in Slots
      /\ task_rear = Live(task_count)
      /\ \A i \in 0 .. task_count - 1 : Live(i) # task_rear
      /\ task_rear' = (task_front + (task_count + 1)) % MaxQueue
  <2>1. \A i \in 0 .. task_count : Live(i) \in Slots
    BY <1>2, LiveSlots DEF Live
  <2>2. task_rear = Live(task_count)
    BY DEF RingInv
  <2>3. ASSUME NEW i \in 0 .. task_count - 1 PROVE Live(i) # Live(task_count)
    <3>1. i \in 0 .. MaxQueue - 1 /\ task_count \in 0 .. MaxQueue - 1 /\ i # task_count
      BY <1>2
    <3> QED
      BY <1>2, <3>1, LiveSlots DEF Live
  <2>4. task_rear' = (task_front + (task_count + 1)) % MaxQueue
    BY <1>1, <1>2, <2>2, LiveSlots DEF Live
  <2> QED
    BY <2>1, <2>2, <2>3, <2>4
<1>5. /\ \A i \in 0 .. task_count - 1 : task_queue'[Live(i)] = task_queue[Live(i)]
      /\ task_queue'[Live(task_count)] = d
  BY <1>1, <1>2, <1>3, <1>4
<1>6. \A i : Live(i)' = Live(i)
  BY <1>1 DEF Live
<1>7. RingInv'
  <2>1. task_rear' = Live(task_count)'
    BY <1>1, <1>4 DEF Live
  <2>2. ASSUME NEW i \in 0 .. task_count PROVE task_queue'[Live(i)] \in Clients
    BY <1>2, <1>5 DEF RingInv
  <2> QED
    BY <1>1, <1>2, <1>6, <2>1, <2>2 DEF RingInv
<1>8. Serving'
  BY <1>1, <1>2, QueueAssumption DEF Serving, QueueThreads
<1>9. /\ conn[d] = "open"
      /\ \A s \in QueueThreads : client[s] = d => s = Main
      /\ \A i \in 0 .. task_count - 1 : task_queue[Live(i)] # d
  BY <1>2, <1>3, SoleThread
<1>10. 0 .. task_count' - 1 = (0 .. task_count - 1) \cup {task_count}
  BY <1>1, <1>2
<1>11. ASSUME NEW c \in Clients, c # d PROVE Owners(c)' = Owners(c)
  <2>1. {s \in QueueThreads : client'[s] = c} = {s \in QueueThreads : client[s] = c}
    BY <1>1, <1>2, <1>3, <1>11, QueueAssumption
  <2>2. {i \in 0 .. task_count' - 1 : task_queue'[Live(i)] = c}
          = {i \in 0 .. task_count - 1 : task_queue[Live(i)] = c}
    BY <1>5, <1>10, <1>11
  <2> QED
    BY <1>6, <2>1, <2>2 DEF Owners
<1>12. Owners(d)' = {<<"slot", task_count>>}
  <2>1. {s \in QueueThreads : client'[s] = d} = {}
    BY <1>1, <1>2, <1>9, QueueAssumption
  <2>2. {i \in 0 .. task_count' - 1 : task_queue'[Live(i)] = d} = {task_count}
    BY <1>5, <1>9, <1>10
  <2> QED
    BY <1>6, <2>1, <2>2 DEF Owners
<1>13. OneOwner'
  BY <1>1, <1>9, <1>11, <1>12 DEF OneOwner
<1> QED
  BY <1>7, <1>8, <1>13

(* The oldest task moves from its slot to the worker; the others move up. *)
LEMMA OwnerDequeue ==
  ASSUME OwnerInv, ControlInv', NEW w \in Workers, Dequeue(w)
  PROVE  OwnerInv'
<1> USE DEF OwnerInv
<1>1. /\ pc[w] = "check" /\ pc' = [pc EXCEPT ![w] = "read"]
      /\ running \/ task_count # 0
      /\ task_front' = (task_front + 1) % MaxQueue
      /\ task_count' = task_count - 1
      /\ client' = [client EXCEPT ![w] = task_queue[task_front]]
      /\ UNCHANGED <<task_queue, task_rear, conn>>
  BY DEF Dequeue, Oldest, Goto
<1>2. /\ client \in [QueueThreads -> Clients \cup {None}]
      /\ conn \in [Clients -> Fates] /\ pc \in [QueueThreads \cup {Cli, Sig} -> Labels]
      /\ task_queue \in [Slots -> Clients \cup {None}]
      /\ task_count \in 1 .. MaxQueue /\ task_front \in Slots
      /\ MaxQueue \in Nat \ {0}
      /\ w \in QueueThreads
  BY <1>1, QueueAssumption DEF ControlInv, TypeOK, LoopLeft, QueueThreads
<1>3. client[w] = None
  BY <1>1 DEF ControlInv, SocketHeld
<1>4. task_front = Live(0) /\ 0 \in 0 .. task_count - 1
  BY <1>2, LiveSlots DEF Live
<1>5. PICK d \in Clients : d = task_queue[task_front]
  BY <1>4 DEF RingInv
<1>6. \A i \in 0 .. task_count - 1 : Live(i)' = Live(i + 1)
  BY <1>1, <1>2, LiveSlots DEF Live
<1>7. RingInv'
  <2>1. task_rear' = Live(task_count)'
    <3>1. task_rear = Live(task_count)
      BY DEF RingInv
    <3>2. Live(task_count') = Live(task_count - 1)
      BY <1>1
    <3>3. Live(task_count - 1)' = (task_front' + (task_count' - 1)) % MaxQueue
      BY DEF Live
    <3>4. Live(task_count)' = (task_front' + (task_count - 1)) % MaxQueue
      BY <1>1 DEF Live
    <3>5. (((task_front + 1) % MaxQueue) + (task_count - 1)) % MaxQueue
            = (task_front + ((task_count - 1) + 1)) % MaxQueue
      <4> task_count - 1 \in 0 .. MaxQueue - 1
        BY <1>2
      <4> QED
        BY <1>2, LiveSlots
    <3>6. (task_count - 1) + 1 = task_count
      BY <1>2
    <3> QED
      BY <1>1, <3>1, <3>4, <3>5, <3>6 DEF Live
  <2>2. ASSUME NEW i \in 0 .. task_count - 2 PROVE task_queue[Live(i + 1)] \in Clients
    BY <1>2 DEF RingInv
  <2> QED
    BY <1>1, <1>2, <1>6, <2>1, <2>2 DEF RingInv
<1>8. Serving'
  BY <1>1, <1>2, <1>5, QueueAssumption DEF Serving, QueueThreads
<1>9. /\ conn[d] = "open"
      /\ \A s \in QueueThreads : client[s] # d
      /\ \A j \in 0 .. task_count - 1 : task_queue[Live(j)] = d => j = 0
  BY <1>4, <1>5, SoleSlot
<1>10. Owners(d)' = {<<"thread", w>>}
  <2>1. {s \in QueueThreads : client'[s] = d} = {w}
    BY <1>1, <1>2, <1>5, <1>9
  <2>2. \A i \in 0 .. task_count' - 1 : task_queue'[Live(i)'] # d
    <3> SUFFICES ASSUME NEW i \in 0 .. task_count - 2 PROVE task_queue[Live(i + 1)] # d
      BY <1>1, <1>2, <1>6
    <3> QED
      BY <1>2, <1>9
  <2> QED
    BY <2>1, <2>2 DEF Owners
<1>11. ASSUME NEW c \in Clients, c # d
       PROVE  IF conn[c] = "open" THEN \E o \in Owners(c)' : Owners(c)' = {o}
                                  ELSE Owners(c)' = {}
  <2>1. {s \in QueueThreads : client'[s] = c} = {s \in QueueThreads : client[s] = c}
    BY <1>1, <1>2, <1>3, <1>5, <1>11, QueueAssumption
  <2>2. \A i \in 0 .. task_count - 2 : task_queue'[Live(i)'] = task_queue[Live(i + 1)]
    BY <1>1, <1>2, <1>6
  <2>3. CASE \E t \in QueueThreads : client[t] = c
    <3>1. PICK t \in QueueThreads : client[t] = c
      BY <2>3
    <3>2. /\ conn[c] = "open"
          /\ \A s \in QueueThreads : client[s] = c => s = t
          /\ \A i \in 0 .. task_count - 1 : task_queue[Live(i)] # c
      BY <3>1, SoleThread
    <3>3. {s \in QueueThreads : client'[s] = c} = {t}
      BY <2>1, <3>1, <3>2
    <3>4. {i \in 0 .. task_count' - 1 : task_queue'[Live(i)'] = c} = {}
      BY <1>1, <1>2, <2>2, <3>2
    <3>5. Owners(c)' = {<<"thread", t>>}
      BY <3>3, <3>4 DEF Owners
    <3> QED
      BY <3>2, <3>5
  <2>4. CASE \E i \in 0 .. task_count - 1 : task_queue[Live(i)] = c
    <3>1. PICK i \in 0 .. task_count - 1 : task_queue[Live(i)] = c
      BY <2>4
    <3>2. /\ conn[c] = "open"
          /\ \A s \in QueueThreads : client[s] # c
          /\ \A j \in 0 .. task_count - 1 : task_queue[Live(j)] = c => j = i
      BY <3>1, SoleSlot
    <3>3. i # 0 /\ i - 1 \in 0 .. task_count - 2 /\ (i - 1) + 1 = i
      BY <1>2, <1>4, <1>5, <1>11, <3>1
    <3>4. {s \in QueueThreads : client'[s] = c} = {}
      BY <2>1, <3>2
    <3>5. {k \in 0 .. task_count' - 1 : task_queue'[Live(k)'] = c} = {i - 1}
      <4>1. task_queue'[Live(i - 1)'] = c
        BY <2>2, <3>1, <3>3
      <4>2. ASSUME NEW k \in 0 .. task_count - 2, task_queue'[Live(k)'] = c PROVE k = i - 1
        <5>1. k + 1 \in 0 .. task_count - 1 /\ task_queue[Live(k + 1)] = c
          BY <1>2, <2>2, <4>2
        <5>2. k + 1 = i
          BY <3>2, <5>1
        <5> QED
          BY <1>2, <5>2
      <4>3. task_count' - 1 = task_count - 2
        BY <1>1, <1>2
      <4> QED
        BY <3>3, <4>1, <4>2, <4>3
    <3>6. Owners(c)' = {<<"slot", i - 1>>}
      BY <3>4, <3>5 DEF Owners
    <3> QED
      BY <3>2, <3>6
  <2>5. CASE /\ \A t \in QueueThreads : client[t] # c
             /\ \A i \in 0 .. task_count - 1 : task_queue[Live(i)] # c
    <3>1. Owners(c) = {}
      BY <2>5, OwnersDef
    <3>2. conn[c] # "open"
      BY <3>1 DEF OneOwner
    <3>3. Owners(c)' = {}
      BY <1>1, <1>2, <2>1, <2>2, <2>5 DEF Owners
    <3> QED
      BY <3>2, <3>3
  <2> QED
    BY <2>3, <2>4, <2>5
<1>12. OneOwner'
  BY <1>1, <1>9, <1>10, <1>11 DEF OneOwner
<1> QED
  BY <1>7, <1>8, <1>12

(* Each step keeps one owner for every open connection. *)
LEMMA OwnerStep == OwnerInv /\ [Next]_vars => OwnerInv'
<1> SUFFICES ASSUME OwnerInv, [Next]_vars PROVE OwnerInv'
  OBVIOUS
<1> USE DEF OwnerInv
<1>1. ControlInv'
  BY ControlStep
<1>2. /\ pc \in [QueueThreads \cup {Cli, Sig} -> Labels]
      /\ conn \in [Clients -> Fates]
      /\ client \in [QueueThreads -> Clients \cup {None}]
  BY DEF ControlInv, TypeOK
<1>3. ASSUME NEW t \in QueueThreads, Lock(t) \/ Test(t) \/ CondWait(t) \/ SpuriousWakeup(t)
      PROVE  OwnerInv'
  <2>1. /\ UNCHANGED <<ring, client, conn>>
        /\ \A w \in Workers : pc'[w] \in {"read", "handle"} => pc[w] \in {"read", "handle"}
    BY <1>2, <1>3 DEF Lock, Test, CondWait, SpuriousWakeup, Goto, QueueThreads
  <2> QED
    BY <1>1, <2>1, OwnerOther
<1>4. ASSUME NEW w \in Workers, Retire(w) \/ ReadRequest(w)
      PROVE  OwnerInv'
  <2>1. /\ UNCHANGED <<ring, client, conn>>
        /\ \A v \in Workers : pc'[v] \in {"read", "handle"} => pc[v] \in {"read", "handle"}
    BY <1>2, <1>4 DEF Retire, ReadRequest, Goto, QueueThreads
  <2> QED
    BY <1>1, <2>1, OwnerOther
<1>5. ASSUME NEW w \in Workers, ReadError(w) \/ ReadEof(w) \/ HandleRequest(w)
      PROVE  OwnerInv'
  <2>1. PICK outcome \in {"closed", "leaked"} : Drop(w, outcome)
    BY <1>5 DEF ReadError, ReadEof, HandleRequest
  <2>2. pc[w] \in {"read", "handle"}
    BY <1>5 DEF ReadError, ReadEof, HandleRequest
  <2>3. PICK d \in Clients : client[w] = d
    BY <1>2, <2>2 DEF Serving, QueueThreads
  <2>4. /\ UNCHANGED ring
        /\ client' = [client EXCEPT ![w] = None]
        /\ conn' = [conn EXCEPT ![d] = outcome]
        /\ \A v \in Workers : v # w => pc'[v] = pc[v]
        /\ pc'[w] \notin {"read", "handle"} /\ outcome # "open"
    BY <1>2, <2>1, <2>3 DEF Drop, Goto, QueueThreads
  <2> QED
    BY <1>1, <2>3, <2>4, OwnerDrop DEF QueueThreads
<1>6. ASSUME Refuse PROVE OwnerInv'
  <2>0. PICK outcome : outcome = "refused"
    OBVIOUS
  <2>1. PICK d \in Clients : client[Main] = d
    BY <1>2, <1>6 DEF Refuse, ControlInv, SocketHeld, InMonitor, QueueThreads
  <2>2. /\ UNCHANGED ring
        /\ client' = [client EXCEPT ![Main] = None]
        /\ conn' = [conn EXCEPT ![d] = outcome]
        /\ outcome # "open"
        /\ \A v \in Workers : v # Main => pc'[v] = pc[v]
        /\ pc'[Main] \notin {"read", "handle"}
    BY <1>2, <1>6, <2>0, <2>1 DEF Refuse, Goto, QueueThreads
  <2>3. Main \in QueueThreads
    BY DEF QueueThreads
  <2> QED
    BY <1>1, <2>1, <2>2, <2>3, OwnerDrop
<1>7. ASSUME \/ Admit
             \/ WhileRunning \/ NothingAccepted \/ SelectInterrupted \/ JoinAll
             \/ CliPoll \/ CliIdle \/ CliQuit \/ SigInt
             \/ \E t \in {Cli, Sig} : Broadcast(t)
             \/ UNCHANGED vars
      PROVE  OwnerInv'
  <2>1. /\ UNCHANGED <<ring, client, conn>>
        /\ \A w \in Workers : pc'[w] \in {"read", "handle"} => pc[w] \in {"read", "handle"}
    BY <1>2, <1>7, QueueAssumption
       DEF Admit, WhileRunning, NothingAccepted, SelectInterrupted, JoinAll, CliPoll, CliIdle,
           CliQuit, SigInt, Broadcast, Goto, QueueThreads, vars, ring
  <2> QED
    BY <1>1, <2>1, OwnerOther
<1>8. ASSUME NEW c \in Clients, Connect(c) PROVE OwnerInv'
  <2>1. /\ UNCHANGED <<ring, client, pc>>
        /\ \A d \in Clients : conn'[d] = conn[d] \/ (conn[d] # "open" /\ conn'[d] # "open")
    BY <1>2, <1>8 DEF Connect
  <2> QED
    BY <1>1, <2>1, OwnerOther
<1> QED
  BY <1>1, <1>3, <1>4, <1>5, <1>6, <1>7, <1>8, OwnerPush, OwnerDequeue, OwnerAccept
  DEF Next, Monitor, WorkerStep, MainStep

(* Each accepted connection has exactly one owner until it is closed: no     *)
(* socket is overwritten in the ring, handed out twice, or used after its    *)
(* close.                                                                    *)
THEOREM OwnerCorrect == Spec => []OneOwner
<1>1. Spec => []OwnerInv
  BY OwnerInit, OwnerStep, PTL DEF Spec
<1>2. OwnerInv => OneOwner
  BY DEF OwnerInv
<1> QED
  BY <1>1, <1>2, PTL

-----------------------------------------------------------------------------
(***************************************************************************)
(* HttpTaskQueue implements BoundedTaskPool: the ring with its mutex and   *)
(* its one condition variable is a bounded first-in first-out pool that is *)
(* closed once.  Each step of a thread is one operation of the pool or     *)
(* none: the test of `running` admits or refuses, task_enqueue then puts,  *)
(* task_dequeue takes, the first "quit" or SIGINT closes, also between the *)
(* test and the put, and no other step shows.                              *)
(***************************************************************************)

InRing(c) == \E i \in 0 .. task_count - 1 : task_queue[Live(i)] = c
Held(c) == \E w \in Workers : client[w] = c
Over(c) == conn[c] \in {"refused", "closed", "leaked"}
Pushing(c) == pc[Main] = "push" /\ client[Main] = c

-----------------------------------------------------------------------------
(* Append and Tail, element by element. *)
LEMMA AppendIs ==
  ASSUME NEW S, NEW s \in Seq(S), NEW e \in S
  PROVE  Append(s, e) = [i \in 1 .. Len(s) + 1 |-> IF i \in 1 .. Len(s) THEN s[i] ELSE e]
<1>1. /\ Append(s, e) \in Seq(S) /\ Len(s) \in Nat /\ Len(Append(s, e)) = Len(s) + 1
      /\ \A i \in 1 .. Len(s) : Append(s, e)[i] = s[i]
      /\ Append(s, e)[Len(s) + 1] = e
  BY AppendProperties, LenProperties
<1>2. Append(s, e) \in [1 .. Len(s) + 1 -> S]
  BY <1>1, LenProperties
<1>3. \A i \in 1 .. Len(s) + 1 : i \notin 1 .. Len(s) => i = Len(s) + 1
  BY <1>1
<1> QED
  BY <1>1, <1>2, <1>3

LEMMA TailIs ==
  ASSUME NEW S, NEW s \in Seq(S), s # <<>>
  PROVE  Tail(s) = [i \in 1 .. Len(s) - 1 |-> s[i + 1]]
<1>1. /\ Tail(s) \in Seq(S) /\ Len(Tail(s)) = Len(s) - 1
      /\ \A i \in 1 .. Len(Tail(s)) : Tail(s)[i] = s[i + 1]
  BY HeadTailProperties
<1>2. Tail(s) \in [1 .. Len(s) - 1 -> S]
  BY <1>1, LenProperties
<1> QED
  BY <1>1, <1>2

(* The queue of the pool, as a sequence, and its elements. *)
LEMMA QueuedSequence ==
  ASSUME OwnerInv
  PROVE  /\ Queued \in Seq(Clients) /\ Len(Queued) = task_count
         /\ \A i \in 1 .. task_count : Queued[i] = task_queue[Live(i - 1)]
         /\ \A c : (\E i \in 1 .. task_count : Queued[i] = c) <=> InRing(c)
<1>1. task_count \in Nat
  BY DEF OwnerInv, ControlInv, TypeOK
<1>2. \A i \in 1 .. task_count : Queued[i] = task_queue[Live(i - 1)] /\ i - 1 \in 0 .. task_count - 1
  BY <1>1 DEF Queued
<1>3. Queued \in Seq(Clients) /\ Len(Queued) = task_count
  <2>1. \A i \in 1 .. task_count : task_queue[Live(i - 1)] \in Clients
    BY <1>2 DEF OwnerInv, RingInv
  <2> QED
    BY <1>1, <2>1 DEF Queued
<1>4. ASSUME NEW c PROVE (\E i \in 1 .. task_count : Queued[i] = c) <=> InRing(c)
  <2>1. ASSUME NEW i \in 0 .. task_count - 1, task_queue[Live(i)] = c
        PROVE  \E j \in 1 .. task_count : Queued[j] = c
    <3>1. i + 1 \in 1 .. task_count /\ (i + 1) - 1 = i
      BY <1>1
    <3>2. Queued[i + 1] = c
      BY <1>2, <2>1, <3>1
    <3> QED
      BY <3>1, <3>2
  <2> QED
    BY <1>2, <2>1 DEF InRing
<1> QED
  BY <1>2, <1>3, <1>4

(* Where a connection is, in the terms of the code. *)
Staged ==
  \A c \in Clients :
    StageOf(c) = IF conn[c] = "refused" THEN "refused"
                 ELSE IF Over(c) \/ Held(c) THEN "taken"
                 ELSE IF Pushing(c) THEN "admitted"
                 ELSE IF InRing(c) THEN "queued" ELSE "outside"

LEMMA StageCases == OwnerInv => Staged
BY QueuedSequence DEF Staged, StageOf, Over, Held, Pushing

LEMMA StageCasesNext == OwnerInv' => Staged'
BY StageCases, PTL

(* A step that neither takes main to the push nor from it. *)
LEMMA PushingKept ==
  ASSUME pc \in [QueueThreads \cup {Cli, Sig} -> Labels],
         pc'[Main] = "push" <=> pc[Main] = "push",
         client'[Main] = client[Main] \/ pc[Main] # "push",
         NEW c \in Clients
  PROVE  Pushing(c)' <=> Pushing(c)
BY DEF Pushing

(* A step that leaves the ring, what the workers hold and what main is about *)
(* to queue, and ends no connection, does not show.                          *)
LEMMA NoShow ==
  ASSUME OwnerInv, OwnerInv', UNCHANGED ring,
         \A c \in Clients : Over(c)' \/ Held(c)' <=> Over(c) \/ Held(c),
         \A c \in Clients : Pushing(c)' <=> Pushing(c),
         \A c \in Clients : conn'[c] = "refused" <=> conn[c] = "refused"
  PROVE  Queued' = Queued /\ \A c \in Clients : StageOf(c)' = StageOf(c)
<1>1. Queued' = Queued /\ \A c : InRing(c)' <=> InRing(c)
  BY DEF Queued, InRing, Live, ring
<1>2. ASSUME NEW c \in Clients PROVE StageOf(c)' = StageOf(c)
  BY <1>1, StageCases, StageCasesNext DEF Staged
<1> QED
  BY <1>1, <1>2

(* Main decides to queue its socket: `running` was set at the test. *)
LEMMA AdmitIsAdmission ==
  ASSUME OwnerInv, OwnerInv', Admit
  PROVE  \E c \in Clients : Pool!Admission(c)
<1>1. /\ pc[Main] = "check" /\ pc' = [pc EXCEPT ![Main] = "push"]
      /\ running /\ UNCHANGED <<ring, running, client, conn>>
  BY DEF Admit, Goto
<1>2. /\ client \in [QueueThreads -> Clients \cup {None}]
      /\ pc \in [QueueThreads \cup {Cli, Sig} -> Labels]
      /\ task_count \in 0 .. MaxQueue - 1
      /\ MaxQueue \in Nat \ {0}
  BY <1>1, QueueAssumption DEF OwnerInv, ControlInv, TypeOK, LoopLeft
<1>3. PICK d \in Clients : d = client[Main]
  BY <1>1, <1>2 DEF OwnerInv, ControlInv, SocketHeld, InMonitor, QueueThreads
<1>4. /\ conn[d] = "open" /\ ~ Held(d) /\ ~ InRing(d)
  <2>1. /\ conn[d] = "open"
        /\ \A s \in QueueThreads : client[s] = d => s = Main
        /\ \A i \in 0 .. task_count - 1 : task_queue[Live(i)] # d
    BY <1>3, SoleThread DEF OwnerInv, QueueThreads
  <2> QED
    BY <2>1, QueueAssumption DEF Held, InRing, QueueThreads
<1>5. Queued' = Queued /\ \A c : (InRing(c)' <=> InRing(c)) /\ (Held(c)' <=> Held(c))
  BY <1>1 DEF Queued, InRing, Live, Held, ring
<1>6. \A c \in Clients : (Over(c)' <=> Over(c)) /\ (Pushing(c)' <=> c = d) /\ ~ Pushing(c)
  BY <1>1, <1>2, <1>3 DEF Over, Pushing, QueueThreads
<1>7. /\ StageOf(d) = "outside" /\ StageOf(d)' = "admitted"
      /\ \A c \in Clients : c # d => StageOf(c)' = StageOf(c)
  <2>1. ~ Over(d) /\ conn' = conn
    BY <1>1, <1>4 DEF Over
  <2> QED
    BY <1>4, <1>5, <1>6, <2>1, StageCases, StageCasesNext DEF Staged
<1>8. \A c \in Clients : StageOf(c) # "admitted"
  BY <1>6, StageCases DEF Staged
<1>9. Len(Queued) < MaxQueue
  BY <1>2, QueuedSequence
<1>10. Pool!Admission(d)
  BY <1>1, <1>5, <1>7, <1>8, <1>9 DEF Pool!Admission
<1> QED
  BY <1>10

(* Main's socket goes to the end of the queue. *)
LEMMA PushIsPut ==
  ASSUME OwnerInv, OwnerInv', Push
  PROVE  \E c \in Clients : Pool!Put(c)
<1>1. /\ pc[Main] = "push" /\ pc' = [pc EXCEPT ![Main] = "while"]
      /\ running' = running
      /\ task_queue' = [task_queue EXCEPT ![task_rear] = client[Main]]
      /\ task_count' = task_count + 1
      /\ client' = [client EXCEPT ![Main] = None]
      /\ UNCHANGED <<task_front, conn>>
  BY DEF Push, Goto
<1>2. /\ client \in [QueueThreads -> Clients \cup {None}]
      /\ task_queue \in [Slots -> Clients \cup {None}]
      /\ task_count \in 0 .. MaxQueue - 1 /\ task_front \in Slots
      /\ task_rear = Live(task_count)
      /\ MaxQueue \in Nat \ {0}
  BY <1>1, QueueAssumption DEF OwnerInv, ControlInv, TypeOK, LoopLeft, RingInv
<1>3. PICK d \in Clients : d = client[Main]
  BY <1>1, <1>2 DEF OwnerInv, ControlInv, SocketHeld, InMonitor, QueueThreads
<1>4. /\ conn[d] = "open" /\ ~ Held(d) /\ ~ InRing(d)
  <2>1. /\ conn[d] = "open"
        /\ \A s \in QueueThreads : client[s] = d => s = Main
        /\ \A i \in 0 .. task_count - 1 : task_queue[Live(i)] # d
    BY <1>3, SoleThread DEF OwnerInv, QueueThreads
  <2> QED
    BY <2>1, QueueAssumption DEF Held, InRing, QueueThreads
<1>5. /\ \A i \in 0 .. task_count : Live(i) \in Slots /\ Live(i)' = Live(i)
      /\ \A i \in 0 .. task_count - 1 : Live(i) # Live(task_count)
  <2>1. \A i \in 0 .. task_count : Live(i) \in Slots /\ Live(i)' = Live(i)
    BY <1>1, <1>2, LiveSlots DEF Live
  <2>2. ASSUME NEW i \in 0 .. task_count - 1 PROVE Live(i) # Live(task_count)
    <3>1. i \in 0 .. MaxQueue - 1 /\ task_count \in 0 .. MaxQueue - 1 /\ i # task_count
      BY <1>2
    <3> QED
      BY <1>2, <3>1, LiveSlots DEF Live
  <2> QED
    BY <2>1, <2>2
<1>6. Queued' = Append(Queued, d)
  <2>1. PICK n \in Nat : n = task_count
    BY <1>2
  <2>2. task_queue'[Live(n)'] = d
    BY <1>1, <1>2, <1>3, <1>5, <2>1
  <2>3. ASSUME NEW i \in 1 .. n PROVE task_queue'[Live(i - 1)'] = Queued[i]
    <3>1. i - 1 \in 0 .. n - 1 /\ i - 1 \in 0 .. n
      BY <2>1
    <3>2. Live(i - 1)' = Live(i - 1) /\ task_queue'[Live(i - 1)] = task_queue[Live(i - 1)]
      BY <1>1, <1>2, <1>5, <2>1, <3>1
    <3> QED
      BY <2>1, <3>2, QueuedSequence
  <2>4. Queued' = [i \in 1 .. n + 1 |-> IF i \in 1 .. n THEN Queued[i] ELSE d]
    <3>1. Queued' = [i \in 1 .. n + 1 |-> task_queue'[Live(i - 1)']]
      BY <1>1, <2>1 DEF Queued
    <3>2. ASSUME NEW i \in 1 .. n + 1
          PROVE  task_queue'[Live(i - 1)'] = IF i \in 1 .. n THEN Queued[i] ELSE d
      <4>1. CASE i \in 1 .. n
        BY <2>3, <4>1
      <4>2. CASE i \notin 1 .. n
        <5>1. i - 1 = n
          BY <4>2
        <5> QED
          BY <2>2, <4>2, <5>1
      <4> QED
        BY <4>1, <4>2
    <3> QED
      BY <3>1, <3>2
  <2>5. Queued \in Seq(Clients) /\ Len(Queued) = n
    BY <2>1, QueuedSequence
  <2>6. Append(Queued, d) = [i \in 1 .. n + 1 |-> IF i \in 1 .. n THEN Queued[i] ELSE d]
    BY <2>5, AppendIs
  <2> QED
    BY <2>4, <2>6
<1>7. /\ StageOf(d) = "admitted" /\ StageOf(d)' = "queued"
      /\ \A c \in Clients : c # d => StageOf(c)' = StageOf(c)
  <2>1. \A c : InRing(c)' <=> InRing(c) \/ c = d
    <3>1. 0 .. task_count' - 1 = (0 .. task_count - 1) \cup {task_count}
      BY <1>1, <1>2
    <3> QED
      BY <1>1, <1>2, <1>3, <1>5, <3>1 DEF InRing
  <2>2. \A c \in Clients : Over(c)' = Over(c) /\ (Held(c)' <=> Held(c))
    BY <1>1, <1>2, QueueAssumption DEF Over, Held, QueueThreads
  <2>3. \A c \in Clients : ~ Pushing(c)' /\ (Pushing(c) <=> c = d)
    <3>1. pc \in [QueueThreads \cup {Cli, Sig} -> Labels]
      BY DEF OwnerInv, ControlInv, TypeOK
    <3> QED
      BY <1>1, <1>3, <3>1 DEF Pushing, QueueThreads
  <2>4. ~ Over(d)
    BY <1>4 DEF Over
  <2> QED
    BY <1>1, <1>4, <2>1, <2>2, <2>3, <2>4, StageCases, StageCasesNext DEF Staged, Over
<1>8. Pool!Put(d)
  BY <1>1, <1>6, <1>7 DEF Pool!Put
<1> QED
  BY <1>8

(* The oldest socket goes to a worker; the others move up. *)
LEMMA DequeueIsTake ==
  ASSUME OwnerInv, OwnerInv', NEW w \in Workers, Dequeue(w)
  PROVE  Pool!Take
<1>1. /\ pc[w] = "check"
      /\ running \/ task_count # 0
      /\ task_front' = (task_front + 1) % MaxQueue
      /\ task_count' = task_count - 1
      /\ client' = [client EXCEPT ![w] = task_queue[task_front]]
      /\ UNCHANGED <<task_queue, running, conn>>
  BY DEF Dequeue, Oldest
<1>2. /\ client \in [QueueThreads -> Clients \cup {None}]
      /\ task_count \in 1 .. MaxQueue /\ task_front \in Slots
      /\ MaxQueue \in Nat \ {0}
      /\ client[w] = None
  BY <1>1, QueueAssumption DEF OwnerInv, ControlInv, TypeOK, LoopLeft, SocketHeld
<1>3. PICK n \in Nat : n = task_count /\ n > 0
  BY <1>2
<1>4. /\ Queued \in Seq(Clients) /\ Len(Queued) = n /\ Queued # <<>>
      /\ \A i \in 1 .. n : Queued[i] = task_queue[Live(i - 1)]
  BY <1>3, QueuedSequence
<1>5. PICK d \in Clients : d = Head(Queued)
  BY <1>4, HeadTailProperties
<1>6. d = task_queue[task_front] /\ d = task_queue[Live(0)]
  <2>1. Head(Queued) = Queued[1] /\ 1 \in 1 .. n /\ 1 - 1 = 0
    BY <1>3, <1>4
  <2>2. Live(0) = task_front
    BY <1>2, LiveSlots DEF Live
  <2> QED
    BY <1>4, <1>5, <2>1, <2>2
<1>7. \A i \in 0 .. n - 1 : Live(i)' = Live(i + 1)
  BY <1>1, <1>2, <1>3, LiveSlots DEF Live
<1>8. Queued' = Tail(Queued)
  <2>1. Queued' = [i \in 1 .. n - 1 |-> task_queue[Live(i - 1)']]
    BY <1>1, <1>3 DEF Queued
  <2>2. ASSUME NEW i \in 1 .. n - 1 PROVE task_queue[Live(i - 1)'] = Queued[i + 1]
    <3>1. i - 1 \in 0 .. n - 1 /\ (i - 1) + 1 = i /\ i + 1 \in 1 .. n /\ (i + 1) - 1 = i
      BY <1>3
    <3>2. Live(i - 1)' = Live(i)
      BY <1>7, <3>1
    <3>3. Queued[i + 1] = task_queue[Live(i)]
      BY <1>4, <3>1
    <3> QED
      BY <3>2, <3>3
  <2>3. Tail(Queued) = [i \in 1 .. n - 1 |-> Queued[i + 1]]
    BY <1>4, TailIs
  <2> QED
    BY <2>1, <2>2, <2>3
<1>9. \A c : InRing(c) <=> InRing(c)' \/ c = d
  <2>1. ASSUME NEW c, InRing(c)' PROVE InRing(c)
    <3>1. PICK i \in 0 .. n - 2 : task_queue[Live(i)'] = c
      BY <1>1, <1>3, <2>1 DEF InRing
    <3>2. Live(i)' = Live(i + 1) /\ i + 1 \in 0 .. n - 1
      BY <1>3, <1>7
    <3> QED
      BY <1>3, <3>1, <3>2 DEF InRing
  <2>2. ASSUME NEW c, InRing(c), c # d PROVE InRing(c)'
    <3>1. PICK i \in 0 .. n - 1 : task_queue[Live(i)] = c
      BY <1>3, <2>2 DEF InRing
    <3>2. i # 0 /\ i - 1 \in 0 .. n - 2 /\ i - 1 \in 0 .. n - 1 /\ (i - 1) + 1 = i
      BY <1>3, <1>6, <2>2, <3>1
    <3>3. Live(i - 1)' = Live(i)
      BY <1>7, <3>2
    <3> QED
      BY <1>1, <1>3, <3>1, <3>2, <3>3 DEF InRing
  <2>3. InRing(d)
    BY <1>3, <1>6 DEF InRing
  <2> QED
    BY <2>1, <2>2, <2>3
<1>10. \A c \in Clients : Held(c)' <=> Held(c) \/ c = d
  BY <1>1, <1>2, <1>6, QueueAssumption DEF Held, QueueThreads
<1>11. conn[d] = "open" /\ \A c \in Clients : Over(c)' <=> Over(c)
  BY <1>1, <1>3, <1>6, SoleSlot DEF OwnerInv, Over
<1>14. \A c \in Clients : Pushing(c)' <=> Pushing(c)
  BY <1>2, QueueAssumption, PushingKept
     DEF Dequeue, Goto, OwnerInv, ControlInv, TypeOK, QueueThreads
<1>12. /\ StageOf(d)' = "taken"
       /\ \A c \in Clients : c # d => StageOf(c)' = StageOf(c)
  BY <1>1, <1>9, <1>10, <1>11, <1>14, StageCases, StageCasesNext DEF Staged
<1>13. [c \in Clients |-> StageOf(c)]' = [[c \in Clients |-> StageOf(c)] EXCEPT ![d] = "taken"]
  BY <1>12
<1> QED
  BY <1>1, <1>4, <1>5, <1>8, <1>13 DEF Pool!Take

(* Main closes the socket it could not put any more. *)
LEMMA RefuseIsRefuse ==
  ASSUME OwnerInv, OwnerInv', Refuse
  PROVE  \E c \in Clients : Pool!Refuse(c)
<1>1. /\ pc[Main] = "check" /\ ~ running
      /\ conn' = [conn EXCEPT ![client[Main]] = "refused"]
      /\ client' = [client EXCEPT ![Main] = None]
      /\ UNCHANGED <<task_queue, task_front, task_count, running>>
  BY DEF Refuse, ring
<1>2. client \in [QueueThreads -> Clients \cup {None}] /\ conn \in [Clients -> Fates]
  BY DEF OwnerInv, ControlInv, TypeOK
<1>3. PICK d \in Clients : d = client[Main]
  BY <1>1, <1>2 DEF OwnerInv, ControlInv, SocketHeld, InMonitor, QueueThreads
<1>4. /\ conn[d] = "open" /\ ~ Held(d) /\ ~ InRing(d)
  <2>1. /\ conn[d] = "open"
        /\ \A s \in QueueThreads : client[s] = d => s = Main
        /\ \A i \in 0 .. task_count - 1 : task_queue[Live(i)] # d
    BY <1>3, SoleThread DEF OwnerInv, QueueThreads
  <2> QED
    BY <2>1, QueueAssumption DEF Held, InRing, QueueThreads
<1>5. Queued' = Queued /\ \A c : InRing(c)' <=> InRing(c)
  BY <1>1 DEF Queued, InRing, Live
<1>6. \A c \in Clients : Held(c)' <=> Held(c)
  BY <1>1, <1>2, QueueAssumption DEF Held, QueueThreads
<1>7. /\ StageOf(d) = "outside" /\ StageOf(d)' = "refused"
      /\ \A c \in Clients : c # d => StageOf(c)' = StageOf(c)
  <2>1. conn'[d] = "refused" /\ \A c \in Clients : c # d => conn'[c] = conn[c]
    BY <1>1, <1>2, <1>3
  <2>2. \A c \in Clients : ~ Pushing(c) /\ ~ Pushing(c)'
    BY <1>1, QueueAssumption
       DEF Refuse, Goto, Pushing, OwnerInv, ControlInv, TypeOK, QueueThreads
  <2> QED
    BY <1>4, <1>5, <1>6, <2>1, <2>2, StageCases, StageCasesNext DEF Staged, Over
<1>8. Pool!Refuse(d)
  BY <1>1, <1>5, <1>7 DEF Pool!Refuse
<1> QED
  BY <1>8

(* "quit" and SIGINT close the pool, the first time. *)
LEMMA StopIsClose ==
  ASSUME OwnerInv, OwnerInv', CliQuit \/ SigInt
  PROVE  Pool!Close \/ UNCHANGED Pool!poolVars
<1>1. running \in BOOLEAN /\ running' = FALSE /\ UNCHANGED <<ring, client, conn>>
  BY DEF CliQuit, SigInt, OwnerInv, ControlInv, TypeOK
<1>5. \A c \in Clients : Pushing(c)' <=> Pushing(c)
  BY <1>1, QueueAssumption, PushingKept
     DEF CliQuit, SigInt, Goto, OwnerInv, ControlInv, TypeOK, QueueThreads
<1>2. Queued' = Queued /\ \A c \in Clients : StageOf(c)' = StageOf(c)
  BY <1>1, <1>5, NoShow DEF Held, Over
<1>3. CASE running
  BY <1>1, <1>2, <1>3 DEF Pool!Close
<1>4. CASE ~ running
  BY <1>1, <1>2, <1>4 DEF Pool!poolVars
<1> QED
  BY <1>1, <1>3, <1>4

(* A worker closes the connection it served, or leaves it: it was taken      *)
(* before and stays so.                                                      *)
LEMMA DropNoShow ==
  ASSUME OwnerInv, OwnerInv', NEW w \in Workers, ReadError(w) \/ ReadEof(w) \/ HandleRequest(w)
  PROVE  UNCHANGED Pool!poolVars
<1>1. PICK outcome \in {"closed", "leaked"} : Drop(w, outcome)
  BY DEF ReadError, ReadEof, HandleRequest
<1>2. pc[w] \in {"read", "handle"}
  BY DEF ReadError, ReadEof, HandleRequest
<1>3. client \in [QueueThreads -> Clients \cup {None}] /\ conn \in [Clients -> Fates]
  BY DEF OwnerInv, ControlInv, TypeOK
<1>4. PICK d \in Clients : d = client[w]
  BY <1>2, <1>3 DEF OwnerInv, Serving, QueueThreads
<1>5. /\ conn' = [conn EXCEPT ![d] = outcome]
      /\ client' = [client EXCEPT ![w] = None]
      /\ UNCHANGED <<ring, running>>
  BY <1>1, <1>4 DEF Drop
<1>6. /\ conn[d] = "open" /\ Held(d) /\ Over(d)' /\ conn'[d] # "refused"
      /\ \A c \in Clients : c # d => conn'[c] = conn[c] /\ (Held(c)' <=> Held(c))
  <2>1. conn[d] = "open" /\ Held(d)
    BY <1>4, SoleThread DEF OwnerInv, Held, QueueThreads
  <2>2. conn'[d] = outcome /\ \A c \in Clients : c # d => conn'[c] = conn[c]
    BY <1>3, <1>5
  <2>3. ASSUME NEW c \in Clients, c # d PROVE Held(c)' <=> Held(c)
    BY <1>3, <1>4, <1>5, <2>3, QueueAssumption DEF Held, QueueThreads
  <2> QED
    BY <2>1, <2>2, <2>3 DEF Over
<1>8. \A c \in Clients : Pushing(c)' <=> Pushing(c)
  BY <1>1, QueueAssumption, PushingKept
     DEF Drop, Goto, OwnerInv, ControlInv, TypeOK, QueueThreads
<1>7. Queued' = Queued /\ \A c \in Clients : StageOf(c)' = StageOf(c)
  BY <1>5, <1>6, <1>8, NoShow DEF Over
<1> QED
  BY <1>5, <1>7 DEF Pool!poolVars

(* The other steps touch neither the ring nor what a worker holds. *)
LEMMA OtherNoShow ==
  ASSUME OwnerInv, OwnerInv',
         \/ \E t \in QueueThreads : Monitor(t) \/ SpuriousWakeup(t)
         \/ \E w \in Workers : Retire(w) \/ ReadRequest(w)
         \/ WhileRunning \/ NothingAccepted \/ SelectInterrupted \/ JoinAll
         \/ \E c \in Clients : Accept(c) \/ Connect(c)
         \/ CliPoll \/ CliIdle \/ \E t \in {Cli, Sig} : Broadcast(t)
         \/ UNCHANGED vars
  PROVE  UNCHANGED Pool!poolVars
<1>1. client \in [QueueThreads -> Clients \cup {None}] /\ conn \in [Clients -> Fates]
  BY DEF OwnerInv, ControlInv, TypeOK
<1>5. \A c \in Clients : Pushing(c)' <=> Pushing(c)
  <2>1. pc \in [QueueThreads \cup {Cli, Sig} -> Labels] /\ Main \in QueueThreads
    BY DEF OwnerInv, ControlInv, TypeOK, QueueThreads
  <2>2. pc'[Main] = "push" <=> pc[Main] = "push"
    BY <2>1, QueueAssumption
       DEF Monitor, Lock, Test, CondWait, SpuriousWakeup, Retire, ReadRequest, WhileRunning,
           NothingAccepted, SelectInterrupted, JoinAll, Accept, Connect, CliPoll, CliIdle,
           Broadcast, Goto, vars
  <2>3. client'[Main] = client[Main] \/ pc[Main] # "push"
    BY DEF Monitor, Lock, Test, CondWait, SpuriousWakeup, Retire, ReadRequest, WhileRunning,
           NothingAccepted, SelectInterrupted, JoinAll, Accept, Connect, CliPoll, CliIdle,
           Broadcast, vars
  <2> QED
    BY <2>1, <2>2, <2>3, PushingKept
<1>2. CASE \E c \in Clients : Accept(c) \/ Connect(c)
  <2>1. PICK c \in Clients : Accept(c) \/ Connect(c)
    BY <1>2
  <2>2. /\ UNCHANGED <<ring, running>>
        /\ client' = client \/ \E d \in Clients : client' = [client EXCEPT ![Main] = d]
        /\ conn[c] \in {"idle", "backlog"}
        /\ \E fate \in {"open", "backlog"} : conn' = [conn EXCEPT ![c] = fate]
    BY <2>1 DEF Accept, Connect
  <2>3. \A d \in Clients : Held(d)' <=> Held(d)
    BY <1>1, <2>2, QueueAssumption DEF Held, QueueThreads
  <2>4. \A d \in Clients : (Over(d)' <=> Over(d)) /\ (conn'[d] = "refused" <=> conn[d] = "refused")
    BY <1>1, <2>2 DEF Over
  <2>5. Queued' = Queued /\ \A d \in Clients : StageOf(d)' = StageOf(d)
    BY <1>5, <2>2, <2>3, <2>4, NoShow
  <2> QED
    BY <2>2, <2>5 DEF Pool!poolVars
<1>3. CASE UNCHANGED <<ring, running, client, conn>>
  <2>1. Queued' = Queued /\ \A c \in Clients : StageOf(c)' = StageOf(c)
    BY <1>3, <1>5, NoShow DEF Held, Over
  <2> QED
    BY <1>3, <2>1 DEF Pool!poolVars
<1>4. \/ \E c \in Clients : Accept(c) \/ Connect(c)
      \/ UNCHANGED <<ring, running, client, conn>>
  BY DEF Monitor, Lock, Test, CondWait, SpuriousWakeup, Retire, ReadRequest, WhileRunning,
         NothingAccepted, SelectInterrupted, JoinAll, CliPoll, CliIdle, Broadcast, vars, ring
<1> QED
  BY <1>2, <1>3, <1>4

-----------------------------------------------------------------------------
(* At the start the pool is open and empty, and no connection was submitted. *)
LEMMA InitIsPoolInit == Init => Pool!PoolInit
<1> SUFFICES ASSUME Init PROVE Pool!PoolInit
  OBVIOUS
<1>1. OwnerInv
  BY OwnerInit
<1>2. /\ Queued = <<>> /\ running = TRUE
  <2>1. task_count = 0
    BY DEF Init
  <2> QED
    BY <2>1 DEF Queued, Init
<1>3. ASSUME NEW c \in Clients PROVE StageOf(c) = "outside"
  <2>1. conn[c] = "idle" /\ ~ Held(c) /\ ~ InRing(c) /\ ~ Pushing(c)
    BY QueueAssumption DEF Init, Held, InRing, Pushing, QueueThreads
  <2> QED
    BY <1>1, <2>1, StageCases DEF Staged, Over
<1> QED
  BY <1>2, <1>3 DEF Pool!PoolInit

(* Each step is an operation of the pool, or does not show. *)
LEMMA StepIsPoolStep ==
  OwnerInv /\ OwnerInv' /\ [Next]_vars => [Pool!PoolNext]_(Pool!poolVars)
<1> SUFFICES ASSUME OwnerInv, OwnerInv', [Next]_vars
             PROVE  Pool!PoolNext \/ UNCHANGED Pool!poolVars
  OBVIOUS
<1>1. ASSUME Admit \/ Push \/ Refuse PROVE Pool!PoolNext
  BY <1>1, AdmitIsAdmission, PushIsPut, RefuseIsRefuse DEF Pool!PoolNext
<1>2. ASSUME NEW w \in Workers, Dequeue(w) PROVE Pool!PoolNext
  BY <1>2, DequeueIsTake DEF Pool!PoolNext
<1>3. ASSUME CliQuit \/ SigInt PROVE Pool!PoolNext \/ UNCHANGED Pool!poolVars
  BY <1>3, StopIsClose DEF Pool!PoolNext
<1> QED
  BY <1>1, <1>2, <1>3, DropNoShow, OtherNoShow DEF Next, WorkerStep, MainStep

(* The ring, the mutex and the condition variable implement a bounded        *)
(* first-in first-out pool: no task is admitted after `running` is cleared   *)
(* and none is refused before; a task admitted while it was set is queued    *)
(* even if it is cleared before the push; and tasks leave in the order they  *)
(* came, each once, whatever the threads and the signal handler do.          *)
THEOREM PoolCorrect == Spec => ImplementsPool
<1>1. Spec => []OwnerInv
  BY OwnerInit, OwnerStep, PTL DEF Spec
<1>2. OwnerInv /\ OwnerInv' /\ [Next]_vars => [Pool!PoolNext]_(Pool!poolVars)
  BY StepIsPoolStep
<1> QED
  BY <1>1, <1>2, InitIsPoolInit, PTL DEF Spec, ImplementsPool, Pool!PoolSpec
=============================================================================
