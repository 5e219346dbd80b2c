--------------------------- MODULE PicoReader_proofs ---------------------------
(***************************************************************************)
(* The safety properties of the tag reader, for any cards and any number   *)
(* of connections.                                                         *)
(***************************************************************************)
EXTENDS PicoReader, TLAPS

\* What the loop knows of its connection at each of its steps, however the
\* callbacks fall between them.
LoopPart ==
  /\ pc \in {"boot", "scan", "giveup", "requeue"} => client_pcb = NULL
  /\ client_pcb # NULL => awaiting_response \/ pc \in {"sent", "await"}
  /\ pc \in {"send", "sent"} => message_pending
  /\ message_pending /\ client_pcb # NULL => pc = "sent"

\* While no callback strayed, lwIP and the reader agree on the connection, and
\* it carries the card in the uid buffer.
ConnPart ==
  ~stray =>
    /\ Live \subseteq {client_pcb}
    /\ pc = "forget" => Live = {}
    /\ pc = "scan" => ~response_ready
    /\ client_pcb # NULL => msg_send = uid
    /\ \A c \in Live : conn[c] = "open" => asked[c] = Text(uid)
    /\ response_ready => rec = Text(uid)

ReaderInv == TypeOK /\ LoopPart /\ ConnPart

USE DEF flags, lwip

\* The uids and what strlen makes of them stay in the sets of the type invariant.
LEMMA TextType ==
  ASSUME NEW u \in Uids
  PROVE  Text(u) \in Texts
  BY DEF Texts

\* The initial state has its types.
LEMMA TypeInit == Init => TypeOK
<1> SUFFICES ASSUME Init PROVE TypeOK
  OBVIOUS
<1>1. Blank \in Uids
  BY DEF Uids
<1>2. Text(Blank) \in Texts
  BY <1>1, TextType
<1>3. conn \in [Pcbs -> Conns] /\ asked \in [Pcbs -> Texts]
  BY <1>2 DEF Init, Conns
<1> QED
  BY <1>1, <1>2, <1>3 DEF Init, TypeOK, Steps

\* Each step keeps them.
LEMMA TypeStep == TypeOK /\ [Next]_vars => TypeOK'
<1> SUFFICES ASSUME TypeOK, [Next]_vars PROVE TypeOK'
  OBVIOUS
<1> USE DEF TypeOK
<1>1. Blank \in Uids /\ Text(Blank) \in Texts
  BY TextType DEF Uids
<1>2. CASE MainStep
  <2>1. CASE CloseOverdue
    <3>1. \A c \in Pcbs : Closed(c) \in Conns
      BY DEF Closed, Conns
    <3>2. conn' \in [Pcbs -> Conns]
      BY <2>1, <3>1 DEF CloseOverdue
    <3> QED
      BY <2>1, <3>2 DEF CloseOverdue, Goto, Steps
  <2>2. CASE Send
    <3>1. conn' \in [Pcbs -> Conns]
      BY <2>2 DEF Send, Conns
    <3>2. client_pcb' \in Pcbs \cup {NULL} /\ msg_send' \in Uids /\ overdue' \in BOOLEAN
      BY <2>2 DEF Send, Free
    <3> QED
      BY <2>2, <3>1, <3>2 DEF Send, Goto, Steps
  <2>3. CASE Scan
    <3>1. uid' \in Uids /\ link' \in BOOLEAN
      BY <2>3, <1>1 DEF Scan, Uids
    <3>2. message_pending' \in BOOLEAN
      BY <2>3 DEF Scan
    <3> QED
      BY <2>3, <3>1, <3>2 DEF Scan, Goto, Steps
  <2>4. CASE Boot
    BY <2>4 DEF Boot, Goto, Steps
  <2>5. CASE Top
    BY <2>5 DEF Top, Steps
  <2>6. CASE Pending
    BY <2>6 DEF Pending, Steps
  <2>7. CASE Timer
    BY <2>7 DEF Timer, Steps
  <2>8. CASE Sent \/ Await \/ Show \/ Forget \/ GiveUp \/ Requeue \/ Kick
    BY <2>8 DEF Sent, Await, Show, Forget, GiveUp, Requeue, Kick, Goto, Steps
  <2> QED
    BY <1>2, <2>1, <2>2, <2>3, <2>4, <2>5, <2>6, <2>7, <2>8 DEF MainStep
<1>3. ASSUME NEW c \in Pcbs, ConnectedSent(c) PROVE TypeOK'
  <2>1. conn' \in [Pcbs -> Conns]
    BY <1>3 DEF ConnectedSent, Conns
  <2>2. asked' \in [Pcbs -> Texts]
    BY <1>3, TextType DEF ConnectedSent
  <2>3. stray' \in BOOLEAN
    BY <1>3 DEF ConnectedSent, Interrupt
  <2> QED
    BY <1>3, <2>1, <2>2, <2>3 DEF ConnectedSent, Interrupt
<1>4. ASSUME NEW c \in Pcbs, ConnectedFailed(c) PROVE TypeOK'
  <2>1. conn' \in [Pcbs -> Conns]
    BY <1>4 DEF ConnectedFailed, Conns
  <2>3. stray' \in BOOLEAN
    BY <1>4 DEF ConnectedFailed, Interrupt
  <2> QED
    BY <1>4, <2>1, <2>3 DEF ConnectedFailed, Interrupt
<1>5. ASSUME NEW c \in Pcbs, RecvAnswer(c) PROVE TypeOK'
  <2>1. conn' \in [Pcbs -> Conns]
    BY <1>5 DEF RecvAnswer, Conns
  <2>2. rec' \in Texts
    BY <1>5 DEF RecvAnswer
  <2>3. stray' \in BOOLEAN
    BY <1>5 DEF RecvAnswer, Interrupt
  <2> QED
    BY <1>5, <2>1, <2>2, <2>3 DEF RecvAnswer, Interrupt
<1>6. ASSUME NEW c \in Pcbs, RecvEof(c) PROVE TypeOK'
  <2>1. conn' \in [Pcbs -> Conns]
    BY <1>6 DEF RecvEof, Conns
  <2>3. stray' \in BOOLEAN
    BY <1>6 DEF RecvEof, Interrupt
  <2> QED
    BY <1>6, <2>1, <2>3 DEF RecvEof, Interrupt
<1>7. ASSUME NEW c \in Pcbs, OnError(c) PROVE TypeOK'
  <2>0. \A d \in Pcbs : Closed(d) \in Conns
    BY DEF Closed, Conns
  <2>1. conn' \in [Pcbs -> Conns]
    BY <1>7, <2>0 DEF OnError, Conns
  <2>3. stray' \in BOOLEAN
    BY <1>7 DEF OnError, Interrupt
  <2> QED
    BY <1>7, <2>1, <2>3 DEF OnError, Interrupt
<1>8. CASE Elapse
  BY <1>8 DEF Elapse
<1>9. ASSUME NEW c \in Pcbs, Expire(c) PROVE TypeOK'
  <2>1. conn' \in [Pcbs -> Conns]
    BY <1>9 DEF Expire, Conns
  <2> QED
    BY <1>9, <2>1 DEF Expire
<1>10. CASE LinkChange
  BY <1>10 DEF LinkChange
<1>11. CASE Reset
  <2>1. conn' \in [Pcbs -> Conns] /\ asked' \in [Pcbs -> Texts]
    BY <1>11, <1>1 DEF Reset, Conns
  <2> QED
    BY <1>11, <1>1, <2>1 DEF Reset, Steps
<1>12. CASE UNCHANGED vars
  BY <1>12 DEF vars
<1> QED
  BY <1>2, <1>3, <1>4, <1>5, <1>6, <1>7, <1>8, <1>9, <1>10, <1>11, <1>12
     DEF Next, Callback, WatchdogReset, PoolFault

\* Every variable of the reader always has its type.
THEOREM TypeCorrect == Spec => []TypeOK
  BY TypeInit, TypeStep, PTL DEF Spec

-------------------------------------------------------------------------------
\* Each step keeps what the loop knows of its connection.
LEMMA LoopStep == TypeOK /\ LoopPart /\ [Next]_vars => LoopPart'
<1> SUFFICES ASSUME TypeOK, LoopPart, [Next]_vars PROVE LoopPart'
  OBVIOUS
<1> USE DEF LoopPart
<1>1. CASE MainStep
  <2>1. CASE Send
    BY <2>1 DEF Send, Goto
  <2>2. CASE Scan
    BY <2>2 DEF Scan, Goto
  <2>3. CASE Top
    BY <2>3 DEF Top, MayScan
  <2>4. CASE Pending \/ Timer \/ CloseOverdue
    BY <2>4 DEF Pending, Timer, CloseOverdue, Goto
  <2>5. CASE Boot \/ Sent \/ Await \/ Show
    BY <2>5 DEF Boot, Sent, Await, Show, Goto
  <2>6. CASE Forget \/ GiveUp \/ Requeue \/ Kick
    BY <2>6 DEF Forget, GiveUp, Requeue, Kick, Goto
  <2> QED
    BY <1>1, <2>1, <2>2, <2>3, <2>4, <2>5, <2>6 DEF MainStep
<1>2. CASE Callback
  <2> PICK c \in Pcbs : \/ ConnectedSent(c) \/ ConnectedFailed(c)
                        \/ RecvAnswer(c) \/ RecvEof(c) \/ OnError(c)
    BY <1>2 DEF Callback
  <2>1. CASE ConnectedSent(c)
    BY <2>1 DEF ConnectedSent, Interrupt
  <2>2. CASE ConnectedFailed(c)
    BY <2>2 DEF ConnectedFailed, Interrupt
  <2>3. CASE RecvAnswer(c)
    BY <2>3 DEF RecvAnswer, Interrupt
  <2>4. CASE RecvEof(c)
    BY <2>4 DEF RecvEof, Interrupt
  <2>5. CASE OnError(c)
    BY <2>5 DEF OnError, Interrupt
  <2> QED
    BY <2>1, <2>2, <2>3, <2>4, <2>5
<1>3. CASE Elapse \/ LinkChange \/ \E c \in Pcbs : Expire(c)
  BY <1>3 DEF Elapse, LinkChange, Expire
<1>4. CASE Reset
  BY <1>4 DEF Reset
<1>5. CASE UNCHANGED vars
  BY <1>5 DEF vars
<1> QED
  BY <1>1, <1>2, <1>3, <1>4, <1>5 DEF Next, WatchdogReset, PoolFault

\* The type invariant and the loop's knowledge hold together throughout.
LEMMA LoopInvariant == Spec => [](TypeOK /\ LoopPart)
<1>1. Init => TypeOK /\ LoopPart
  BY TypeInit DEF Init, LoopPart
<1>2. (TypeOK /\ LoopPart) /\ [Next]_vars => (TypeOK /\ LoopPart)'
  BY TypeStep, LoopStep
<1> QED
  BY <1>1, <1>2, PTL DEF Spec

\* The timeout watches every connection when the loop comes round.
THEOREM TimerCorrect == Spec => []TimerWatches
<1>1. TypeOK /\ LoopPart => TimerWatches
  BY DEF LoopPart, TimerWatches
<1> QED
  BY <1>1, LoopInvariant, PTL

\* No message on its way to send_tcp_message finds a connection in use.
THEOREM BusyCorrect == Spec => []NeverBusy
<1>1. TypeOK /\ LoopPart => NeverBusy
  BY DEF LoopPart, NeverBusy
<1> QED
  BY <1>1, LoopInvariant, PTL

-------------------------------------------------------------------------------
\* Each step keeps client_pcb from dangling.
LEMMA DanglingStep == TypeOK /\ LoopPart /\ NoDangling /\ [Next]_vars => NoDangling'
<1> SUFFICES ASSUME TypeOK, LoopPart, NoDangling, [Next]_vars PROVE NoDangling'
  OBVIOUS
<1> USE DEF NoDangling
<1>0. conn \in [Pcbs -> Conns] /\ client_pcb \in Pcbs \cup {NULL} /\ NULL \notin Pcbs
  BY ReaderAssumption DEF TypeOK
<1>1. CASE MainStep
  <2>1. CASE Send
    <3>1. CASE UNCHANGED <<msg_send, client_pcb, overdue, conn>>
      BY <2>1, <3>1 DEF Send, Goto
    <3>2. CASE \E c \in Pcbs : \E s \in {"connecting", "failed"} :
                 client_pcb' = c /\ conn' = [conn EXCEPT ![c] = s]
      BY <1>0, <3>2
    <3> QED
      BY <2>1, <3>1, <3>2 DEF Send, Free
  <2>2. CASE CloseOverdue
    BY <2>2 DEF CloseOverdue, Goto
  <2>3. CASE Forget
    BY <2>3 DEF Forget
  <2>4. CASE Scan \/ Top \/ Pending \/ Timer
    BY <2>4 DEF Scan, Top, Pending, Timer, Goto
  <2>5. CASE Boot \/ Sent \/ Await \/ Show
    BY <2>5 DEF Boot, Sent, Await, Show, Goto
  <2>6. CASE GiveUp \/ Requeue \/ Kick
    BY <2>6 DEF GiveUp, Requeue, Kick, Goto
  <2> QED
    BY <1>1, <2>1, <2>2, <2>3, <2>4, <2>5, <2>6 DEF MainStep
<1>2. CASE Callback
  <2> PICK c \in Pcbs : \/ ConnectedSent(c) \/ ConnectedFailed(c)
                        \/ RecvAnswer(c) \/ RecvEof(c) \/ OnError(c)
    BY <1>2 DEF Callback
  <2>1. CASE ConnectedSent(c)
    BY <1>0, <2>1 DEF ConnectedSent, Interrupt
  <2>2. CASE ConnectedFailed(c) \/ RecvAnswer(c) \/ RecvEof(c) \/ OnError(c)
    BY <2>2 DEF ConnectedFailed, RecvAnswer, RecvEof, OnError
  <2> QED
    BY <2>1, <2>2
<1>3. CASE Elapse \/ LinkChange
  BY <1>3 DEF Elapse, LinkChange
<1>4. ASSUME NEW c \in Pcbs, Expire(c) PROVE NoDangling'
  BY <1>0, <1>4 DEF Expire
<1>5. CASE Reset
  BY <1>5 DEF Reset
<1>6. CASE UNCHANGED vars
  BY <1>6 DEF vars
<1> QED
  BY <1>1, <1>2, <1>3, <1>4, <1>5, <1>6 DEF Next, WatchdogReset, PoolFault

\* Between any two steps, client_pcb points to no connection closed or freed, but
\* for the timeout's two statements, even after on_error's use of a freed
\* connection, inside its own step, has damaged lwIP's pool.
THEOREM DanglingCorrect == Spec => []NoDangling
<1>1. Init => NoDangling
  BY DEF Init, NoDangling
<1> QED
  BY <1>1, DanglingStep, LoopInvariant, PTL DEF Spec

-------------------------------------------------------------------------------
\* A callback of the connection in use keeps what lwIP and the reader agree on;
\* another connection's callback makes it vacuous.
LEMMA ConnCallback == ReaderInv /\ Callback => ConnPart'
<1> SUFFICES ASSUME ReaderInv, Callback PROVE ConnPart'
  OBVIOUS
<1> PICK c \in Pcbs : \/ ConnectedSent(c) \/ ConnectedFailed(c)
                      \/ RecvAnswer(c) \/ RecvEof(c) \/ OnError(c)
  BY DEF Callback
<1>1. Interrupt(c)
  BY DEF ConnectedSent, ConnectedFailed, RecvAnswer, RecvEof, OnError
<1>2. CASE stray'
  BY <1>2 DEF ConnPart
<1>3. CASE ~stray'
  <2>1. ~stray /\ c = client_pcb /\ client_pcb # NULL
    BY <1>1, <1>3, ReaderAssumption DEF Interrupt, ReaderInv, TypeOK
  <2>2. /\ Live \subseteq {c} /\ msg_send = uid
        /\ pc = "forget" => Live = {}
        /\ pc # "scan"
        /\ conn[c] = "open" => asked[c] = Text(uid)
        /\ response_ready => rec = Text(uid)
        /\ pc' = pc /\ uid' = uid /\ msg_send' = msg_send
    BY <1>1, <2>1 DEF ReaderInv, ConnPart, LoopPart, Interrupt, Live
  <2>3. conn \in [Pcbs -> Conns] /\ asked \in [Pcbs -> Texts]
    BY DEF ReaderInv, TypeOK
  <2>4. CASE ConnectedSent(c)
    <3>1. /\ Live' \subseteq {c} /\ client_pcb' = c /\ asked'[c] = Text(uid)
          /\ pc # "forget"
      BY <2>1, <2>2, <2>3, <2>4 DEF ConnectedSent, Live
    <3> QED
      BY <2>2, <2>4, <3>1 DEF ConnPart, ConnectedSent, Live
  <2>5. CASE ConnectedFailed(c) \/ RecvEof(c)
    <3>1. Live' = {} /\ client_pcb' = NULL /\ rec' = rec
          /\ response_ready' = response_ready
      BY <2>2, <2>3, <2>5 DEF ConnectedFailed, RecvEof, Live
    <3> QED
      BY <2>2, <3>1 DEF ConnPart
  <2>6. CASE RecvAnswer(c)
    <3>1. Live' = {} /\ client_pcb' = NULL /\ rec' = Text(uid)
      BY <2>2, <2>3, <2>6 DEF RecvAnswer, Live
    <3> QED
      BY <2>2, <3>1 DEF ConnPart
  <2>7. CASE OnError(c)
    <3>1. Live' = {} /\ client_pcb' = NULL /\ rec' = rec
          /\ response_ready' = response_ready
      BY <2>2, <2>3, <2>7 DEF OnError, Live, Closed
    <3> QED
      BY <2>2, <3>1 DEF ConnPart
  <2> QED
    BY <2>4, <2>5, <2>6, <2>7
<1> QED
  BY <1>2, <1>3

\* Each step of the loop, of time and of the world keeps that agreement.
LEMMA ConnStep == ReaderInv /\ [Next]_vars => ConnPart'
<1> SUFFICES ASSUME ReaderInv, [Next]_vars PROVE ConnPart'
  OBVIOUS
<1> USE DEF ReaderInv
<1>2. CASE MainStep
  <2> SUFFICES ASSUME ~stray, stray' = stray PROVE ConnPart'
    BY <1>2 DEF ConnPart, MainStep, Boot, Top, Scan, Pending, Send, Sent, Await, Show,
                Timer, CloseOverdue, Forget, GiveUp, Requeue, Kick
  <2>0. conn \in [Pcbs -> Conns] /\ client_pcb \in Pcbs \cup {NULL} /\ NULL \notin Pcbs
    BY ReaderAssumption DEF TypeOK
  <2>1. CASE Send
    <3>1. CASE UNCHANGED <<msg_send, client_pcb, overdue, conn>>
      BY <2>1, <3>1 DEF Send, ConnPart, Live, Goto
    <3>2. CASE client_pcb = NULL /\ ~UNCHANGED <<msg_send, client_pcb, overdue, conn>>
      <4>1. PICK c \in Pcbs, s \in {"connecting", "failed"} :
              client_pcb' = c /\ conn' = [conn EXCEPT ![c] = s] /\ msg_send' = uid
        BY <2>1, <3>2 DEF Send, Free
      <4>2. Live = {}
        BY <2>0, <3>2 DEF ConnPart, Live
      <4>3. Live' \subseteq {c} /\ \A d \in Pcbs : conn'[d] = "open" => d # c /\ conn[d] = "open"
        BY <2>0, <4>1, <4>2 DEF Live
      <4>4. \A d \in Live' : conn'[d] # "open"
        BY <4>2, <4>3 DEF Live
      <4> QED
        BY <2>1, <4>1, <4>3, <4>4 DEF Send, ConnPart, Goto
    <3> QED
      BY <2>1, <3>1, <3>2 DEF Send
  <2>2. CASE CloseOverdue
    <3>1. Live' = {}
      BY <2>0, <2>2 DEF CloseOverdue, ConnPart, Live, Closed
    <3> QED
      BY <2>2, <3>1 DEF CloseOverdue, ConnPart, Goto
  <2>3. CASE Forget
    BY <2>3 DEF Forget, ConnPart, Live, Goto
  <2>4. CASE Scan
    <3>1. client_pcb = NULL /\ ~response_ready /\ Live = {}
      BY <2>0, <2>4 DEF Scan, Goto, ConnPart, LoopPart, Live
    <3> QED
      BY <2>4, <3>1 DEF Scan, ConnPart, Live, Goto
  <2>5. CASE Top
    BY <2>5 DEF Top, MayScan, ConnPart, Live
  <2>6. CASE Pending \/ Timer
    BY <2>6 DEF Pending, Timer, ConnPart, Live
  <2>7. CASE Boot \/ Sent \/ Await \/ Show
    BY <2>7 DEF Boot, Sent, Await, Show, ConnPart, Live, Goto
  <2>8. CASE GiveUp \/ Requeue \/ Kick
    BY <2>8 DEF GiveUp, Requeue, Kick, ConnPart, Live, Goto
  <2> QED
    BY <1>2, <2>1, <2>2, <2>3, <2>4, <2>5, <2>6, <2>7, <2>8 DEF MainStep
<1>3. CASE Callback
  BY <1>3, ConnCallback
<1>4. CASE Elapse \/ LinkChange
  BY <1>4 DEF Elapse, LinkChange, ConnPart, Live
<1>5. ASSUME NEW c \in Pcbs, Expire(c) PROVE ConnPart'
  <2>1. Live' = Live /\ \A d \in Live : conn'[d] = conn[d]
    BY <1>5 DEF Expire, Live, TypeOK
  <2> QED
    BY <1>5, <2>1 DEF Expire, ConnPart
<1>6. CASE Reset
  BY <1>6 DEF Reset, ConnPart, Live
<1>7. CASE UNCHANGED vars
  BY <1>7 DEF vars, ConnPart, Live
<1> QED
  BY <1>2, <1>3, <1>4, <1>5, <1>6, <1>7 DEF Next, WatchdogReset, PoolFault

\* The whole invariant holds throughout.
LEMMA ReaderInvariant == Spec => []ReaderInv
<1>1. Init => ReaderInv
  BY TypeInit DEF Init, ReaderInv, LoopPart, ConnPart, Live
<1>2. ReaderInv /\ [Next]_vars => ReaderInv'
  BY TypeStep, LoopStep, ConnStep DEF ReaderInv
<1> QED
  BY <1>1, <1>2, PTL DEF Spec

\* Unless an earlier connection's callback came late, the reader holds every
\* connection it has in client_pcb.
THEOREM ConnectionCorrect == Spec => []OneConnection
<1>1. ReaderInv => OneConnection
  BY DEF ReaderInv, ConnPart, OneConnection
<1> QED
  BY <1>1, ReaderInvariant, PTL

\* Unless an earlier connection's callback came late, the answer to be shown is
\* about the card in the uid buffer.
THEOREM AnswerCorrect == Spec => []AnswerForCard
<1>1. ReaderInv => AnswerForCard
  BY DEF ReaderInv, ConnPart, AnswerForCard
<1> QED
  BY <1>1, ReaderInvariant, PTL
===============================================================================
