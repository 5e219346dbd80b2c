------------------------------ MODULE PicoReader ------------------------------
(***************************************************************************)
(* The Pico W tag reader of RnD/stormtomten/pico_reader.                   *)
(*                                                                         *)
(* One thread, the loop of main(), scans a card, sends its uid to the      *)
(* backend over one TCP connection, shows the answer and gives up a        *)
(* connection that takes ten seconds.  The firmware is linked with         *)
(* pico_cyw43_arch_lwip_threadsafe_background, so lwIP calls on_connected, *)
(* on_recv and on_error from an interrupt, between any two steps of the    *)
(* loop; a callback itself is not interrupted by the loop.  The two share  *)
(* client_pcb and the three flags, with no lock.                           *)
(*                                                                         *)
(* lwIP is external.  What the model takes from it: tcp_close frees a      *)
(* connection that is not established yet or that has unread data, and     *)
(* otherwise leaves it "closing" with its callbacks still registered       *)
(* (nothing here calls tcp_recv(pcb, NULL) or tcp_err(pcb, NULL)); an      *)
(* answer that reaches a closing connection aborts it, which calls         *)
(* on_error, and the peer's FIN calls on_recv with no data.  on_error is   *)
(* called for a connection that lwIP has freed already (a time-out, an     *)
(* abort) or frees next (a reset), and closes client_pcb all the same: the *)
(* connection may go back to lwIP's pool twice.  What follows from a pool  *)
(* damaged so is that tcp_new may hand out a connection that is in use, or *)
(* that lwIP loops or faults until the watchdog resets the board.          *)
(***************************************************************************)
EXTENDS Naturals, Sequences, FiniteSets

CONSTANTS
  Cards,     \* the uids of the cards that can be held to the reader
  UidLen,    \* the bytes of a uid (5 in the code: the uid and its check byte)
  Pcbs,      \* the connections lwIP can hold at a time (MEMP_NUM_TCP_PCB)
  NULL       \* no connection

ASSUME ReaderAssumption ==
  /\ UidLen \in Nat \ {0}
  /\ Cards \subseteq [1 .. UidLen -> Nat]
  /\ NULL \notin Pcbs

VARIABLES
  pc,                 \* where the loop is
  link,               \* the Wi-Fi link is up
  uid,                \* the buffer read_card fills
  msg_send,           \* the buffer send_tcp_message copies uid into
  rec,                \* the text the answer in rec is about
  message_pending, awaiting_response, response_ready,
  client_pcb,         \* the connection in use, or NULL
  overdue,            \* CONNECTION_TIMEOUT_MS passed since connection_start_time
  conn,               \* what lwIP knows of each connection
  asked,              \* the text written on each connection
  damaged,            \* a connection went back to lwIP's pool twice
  stray               \* a callback ran for another connection than client_pcb

flags == <<message_pending, awaiting_response, response_ready>>
lwip == <<conn, asked, damaged>>
vars == <<pc, link, uid, msg_send, rec, flags, client_pcb, overdue, lwip, stray>>

\* A cleared uid buffer.
Blank == [i \in 1 .. UidLen |-> 0]

\* What strncpy and strlen make of a buffer: the bytes before its first zero.
Text(u) ==
  LET n == CHOOSE k \in 0 .. UidLen :
             /\ \A i \in 1 .. k : u[i] # 0
             /\ k = UidLen \/ u[k + 1] = 0
  IN  [i \in 1 .. n |-> u[i]]

Uids == Cards \cup {Blank}
Texts == {Text(u) : u \in Uids}

Steps == {"boot", "top", "scan", "pending", "send", "sent", "await", "show",
          "timer", "close", "forget", "giveup", "requeue", "kick"}

\* What lwIP knows of a connection: connecting, open, closed by the reader but
\* with its callbacks still registered, a pcb whose tcp_connect failed, or none.
Conns == {"none", "failed", "connecting", "open", "closing"}

\* The connections that still exist for the reader's peer.
Live == {c \in Pcbs : conn[c] \in {"connecting", "open"}}

Init ==
  /\ pc = "boot" /\ link \in BOOLEAN
  /\ uid = Blank /\ msg_send = Blank /\ rec = Text(Blank)
  /\ message_pending = FALSE /\ awaiting_response = FALSE /\ response_ready = FALSE
  /\ client_pcb = NULL /\ overdue = FALSE
  /\ conn = [c \in Pcbs |-> "none"]
  /\ asked = [c \in Pcbs |-> Text(Blank)]
  /\ damaged = FALSE
  /\ stray = FALSE

(***************************************************************************)
(* The loop of main().                                                     *)
(***************************************************************************)
Goto(from, to) == pc = from /\ pc' = to

\* wifi_connect at boot; the loop starts whether or not it succeeds.
Boot ==
  /\ Goto("boot", "top")
  /\ \/ link' = TRUE
     \/ UNCHANGED link
  /\ UNCHANGED <<uid, msg_send, rec, flags, client_pcb, overdue, lwip, stray>>

\* A slip: the answer still to be shown is not looked at.
ScanAnyway == ~awaiting_response /\ client_pcb = NULL

\* The condition under which the loop looks for a card.
MayScan == ~awaiting_response /\ ~response_ready /\ client_pcb = NULL

Top ==
  /\ pc = "top"
  /\ pc' = IF MayScan THEN "scan" ELSE "pending"
  /\ UNCHANGED <<link, uid, msg_send, rec, flags, client_pcb, overdue, lwip, stray>>

\* check_and_reconnect_wifi, then read_card: the buffer is cleared first, so it
\* stays cleared when no card answers; anticoll fills it and the card is pending.
Scan ==
  /\ Goto("scan", "pending")
  /\ link' \in IF link THEN {TRUE} ELSE BOOLEAN
  /\ \/ uid' = Blank /\ UNCHANGED message_pending
     \/ uid' \in Cards /\ message_pending' = TRUE
  /\ UNCHANGED <<msg_send, rec, awaiting_response, response_ready, client_pcb,
                 overdue, lwip, stray>>

Pending ==
  /\ pc = "pending"
  /\ pc' = IF message_pending THEN "send" ELSE "show"
  /\ UNCHANGED <<link, uid, msg_send, rec, flags, client_pcb, overdue, lwip, stray>>

\* The connections tcp_new may hand out.
Free == {c \in Pcbs : conn[c] = "none" \/ damaged}

\* send_tcp_message.  The caller ignores its result, and it ignores tcp_connect's.
Send ==
  /\ Goto("send", "sent")
  /\ \/ UNCHANGED <<msg_send, client_pcb, overdue, conn>>   \* busy, or no memory
     \/ /\ client_pcb = NULL
        /\ \E c \in Free :
             /\ client_pcb' = c
             /\ \E s \in {"connecting", "failed"} : conn' = [conn EXCEPT ![c] = s]
        /\ msg_send' = uid
        /\ overdue' = FALSE
  /\ UNCHANGED <<link, uid, rec, flags, asked, damaged, stray>>

Sent ==
  /\ Goto("sent", "await")
  /\ message_pending' = FALSE
  /\ UNCHANGED <<link, uid, msg_send, rec, awaiting_response, response_ready,
                 client_pcb, overdue, lwip, stray>>

Await ==
  /\ Goto("await", "show")
  /\ awaiting_response' = TRUE
  /\ UNCHANGED <<link, uid, msg_send, rec, message_pending, response_ready,
                 client_pcb, overdue, lwip, stray>>

Show ==
  /\ Goto("show", "timer")
  /\ response_ready' = FALSE
  /\ UNCHANGED <<link, uid, msg_send, rec, message_pending, awaiting_response,
                 client_pcb, overdue, lwip, stray>>

\* A slip: the test of client_pcb turned round.
OverdueInverted == awaiting_response /\ client_pcb = NULL /\ overdue

\* The check for a connection timeout.
Overdue == awaiting_response /\ client_pcb # NULL /\ overdue

Timer ==
  /\ pc = "timer"
  /\ pc' = IF Overdue THEN "close" ELSE "kick"
  /\ UNCHANGED <<link, uid, msg_send, rec, flags, client_pcb, overdue, lwip, stray>>

\* tcp_close(c): a connection not established yet is freed at once.
Closed(c) == IF conn[c] \in {"open", "closing"} THEN "closing" ELSE "none"

\* A slip that leaks the connection: tcp_close is not called.
NotClosed == pc = "close" /\ pc' = "forget"
  /\ UNCHANGED <<link, uid, msg_send, rec, flags, client_pcb, overdue, lwip, stray>>

\* tcp_close(client_pcb), which an interrupt may have set to NULL since the
\* check: lwIP answers ERR_ARG then.
CloseOverdue ==
  /\ Goto("close", "forget")
  /\ conn' = [c \in Pcbs |-> IF c = client_pcb THEN Closed(c) ELSE conn[c]]
  /\ UNCHANGED <<link, uid, msg_send, rec, flags, client_pcb, overdue, asked, damaged, stray>>

Forget ==
  /\ Goto("forget", "giveup")
  /\ client_pcb' = NULL
  /\ UNCHANGED <<link, uid, msg_send, rec, flags, overdue, lwip, stray>>

GiveUp ==
  /\ Goto("giveup", "requeue")
  /\ awaiting_response' = FALSE
  /\ UNCHANGED <<link, uid, msg_send, rec, message_pending, response_ready,
                 client_pcb, overdue, lwip, stray>>

Requeue ==
  /\ Goto("requeue", "kick")
  /\ message_pending' = TRUE
  /\ UNCHANGED <<link, uid, msg_send, rec, awaiting_response, response_ready,
                 client_pcb, overdue, lwip, stray>>

\* watchdog_kick and the sleep.
Kick ==
  /\ Goto("kick", "top")
  /\ UNCHANGED <<link, uid, msg_send, rec, flags, client_pcb, overdue, lwip, stray>>

MainStep ==
  \/ Boot \/ Top \/ Scan \/ Pending \/ Send \/ Sent \/ Await \/ Show
  \/ Timer \/ CloseOverdue \/ Forget \/ GiveUp \/ Requeue \/ Kick

(***************************************************************************)
(* The callbacks, run from the interrupt.                                  *)
(***************************************************************************)
Interrupt(c) ==
  /\ stray' = (stray \/ c # client_pcb)
  /\ UNCHANGED <<pc, link, uid, msg_send, overdue>>

\* on_connected, the connection up and the message written.
ConnectedSent(c) ==
  /\ link /\ conn[c] = "connecting"
  /\ conn' = [conn EXCEPT ![c] = "open"]
  /\ asked' = [asked EXCEPT ![c] = Text(msg_send)]
  /\ UNCHANGED <<rec, flags, client_pcb, damaged>>
  /\ Interrupt(c)

\* A slip of the next handler: the closed connection stays in client_pcb.
FailedKeepsPcb(c) ==
  /\ conn[c] = "connecting"
  /\ conn' = [conn EXCEPT ![c] = "closing"]
  /\ UNCHANGED <<rec, flags, asked, client_pcb, damaged>>
  /\ Interrupt(c)

\* on_connected with an error, or when tcp_write fails: the connection is closed
\* and forgotten, and nothing else changes.
ConnectedFailed(c) ==
  /\ conn[c] = "connecting"
  /\ conn' = [conn EXCEPT ![c] = "closing"]
  /\ client_pcb' = NULL
  /\ UNCHANGED <<rec, flags, asked, damaged>>
  /\ Interrupt(c)

\* A slip of the next handler: the copied answer is not cut at its end.
AnswerUncut(c) ==
  /\ link /\ conn[c] = "open"
  /\ rec' = msg_send
  /\ response_ready' = TRUE
  /\ awaiting_response' = FALSE
  /\ conn' = [conn EXCEPT ![c] = "none"]
  /\ client_pcb' = NULL
  /\ UNCHANGED <<message_pending, asked, damaged>>
  /\ Interrupt(c)

\* on_recv with data; the data was not taken with tcp_recved, so tcp_close frees
\* the connection.
RecvAnswer(c) ==
  /\ link /\ conn[c] = "open"
  /\ rec' = asked[c]
  /\ response_ready' = TRUE
  /\ awaiting_response' = FALSE
  /\ conn' = [conn EXCEPT ![c] = "none"]
  /\ client_pcb' = NULL
  /\ UNCHANGED <<message_pending, asked, damaged>>
  /\ Interrupt(c)

\* A slip of the next handler: the connection is not forgotten.
EofKeepsPcb(c) ==
  /\ link /\ conn[c] \in {"open", "closing"}
  /\ conn' = [conn EXCEPT ![c] = IF @ = "open" THEN "closing" ELSE "none"]
  /\ awaiting_response' = FALSE
  /\ UNCHANGED <<rec, message_pending, response_ready, asked, client_pcb, damaged>>
  /\ Interrupt(c)

\* on_recv without data: the peer closed.  client_pcb is forgotten whichever
\* connection this is.
RecvEof(c) ==
  /\ link /\ conn[c] \in {"open", "closing"}
  /\ conn' = [conn EXCEPT ![c] = IF @ = "open" THEN "closing" ELSE "none"]
  /\ awaiting_response' = FALSE
  /\ client_pcb' = NULL
  /\ UNCHANGED <<rec, message_pending, response_ready, asked, damaged>>
  /\ Interrupt(c)

\* A slip of the next handler: the connection is not forgotten.
ErrorKeepsPcb(c) ==
  /\ conn[c] \in {"connecting", "open", "closing"}
  /\ conn' = [conn EXCEPT ![c] = "none"]
  /\ awaiting_response' = FALSE
  /\ message_pending' = TRUE
  /\ UNCHANGED <<rec, response_ready, asked, client_pcb, damaged>>
  /\ Interrupt(c)

\* on_error(c) finds in client_pcb a connection that lwIP frees on its own.
FreedBefore(c) == client_pcb = c \/ conn[client_pcb] = "none"

\* on_error: refused, reset, given up by lwIP, or an answer on a closing
\* connection.  lwIP frees c; the handler closes client_pcb, whichever that is:
\* mostly c itself, which may so be freed twice, or one that the timeout has just
\* closed and not yet forgotten.
OnError(c) ==
  /\ conn[c] \in {"connecting", "open", "closing"}
  /\ conn' = [d \in Pcbs |-> IF d = c THEN "none"
                             ELSE IF d = client_pcb THEN Closed(d)
                             ELSE conn[d]]
  /\ client_pcb' = NULL
  /\ awaiting_response' = FALSE
  /\ message_pending' = TRUE
  /\ \/ UNCHANGED damaged
     \/ client_pcb # NULL /\ FreedBefore(c) /\ damaged' = TRUE
  /\ UNCHANGED <<rec, response_ready, asked>>
  /\ Interrupt(c)

Callback ==
  \E c \in Pcbs : \/ ConnectedSent(c) \/ ConnectedFailed(c)
                  \/ RecvAnswer(c) \/ RecvEof(c) \/ OnError(c)

(***************************************************************************)
(* The world around the reader.                                            *)
(***************************************************************************)
\* Ten seconds pass on the current attempt.
Elapse ==
  /\ client_pcb # NULL /\ ~overdue
  /\ overdue' = TRUE
  /\ UNCHANGED <<pc, link, uid, msg_send, rec, flags, client_pcb, lwip, stray>>

\* A closing connection ends without the peer being heard of again.
Expire(c) ==
  /\ conn[c] = "closing"
  /\ conn' = [conn EXCEPT ![c] = "none"]
  /\ UNCHANGED <<pc, link, uid, msg_send, rec, flags, client_pcb, overdue, asked,
                 damaged, stray>>

LinkChange ==
  /\ link' = ~link
  /\ UNCHANGED <<pc, uid, msg_send, rec, flags, client_pcb, overdue, lwip, stray>>

\* The board starts again.
Reset ==
  /\ pc' = "boot"
  /\ uid' = Blank /\ msg_send' = Blank /\ rec' = Text(Blank)
  /\ message_pending' = FALSE /\ awaiting_response' = FALSE /\ response_ready' = FALSE
  /\ client_pcb' = NULL /\ overdue' = FALSE
  /\ conn' = [c \in Pcbs |-> "none"]
  /\ asked' = [c \in Pcbs |-> Text(Blank)]
  /\ damaged' = FALSE
  /\ stray' = FALSE
  /\ UNCHANGED link

\* Joining the network blocks for up to ten seconds, the watchdog's period: the
\* board may be reset at boot and whenever the loop finds the link down.
WatchdogReset == (pc = "boot" \/ (pc = "scan" /\ ~link)) /\ Reset

\* lwIP loops or faults on its damaged pool, and the watchdog resets the board.
PoolFault == damaged /\ Reset

Next ==
  \/ MainStep
  \/ Callback
  \/ Elapse
  \/ \E c \in Pcbs : Expire(c)
  \/ LinkChange
  \/ WatchdogReset \/ PoolFault

Spec == Init /\ [][Next]_vars

\* The loop runs on and time passes; callbacks, resets and the link owe nothing.
Fairness == WF_vars(MainStep) /\ WF_vars(Elapse)

FairSpec == Spec /\ Fairness

(***************************************************************************)
(* Properties.                                                             *)
(***************************************************************************)
TypeOK ==
  /\ pc \in Steps /\ link \in BOOLEAN
  /\ uid \in Uids /\ msg_send \in Uids /\ rec \in Texts
  /\ message_pending \in BOOLEAN /\ awaiting_response \in BOOLEAN
  /\ response_ready \in BOOLEAN
  /\ client_pcb \in Pcbs \cup {NULL}
  /\ overdue \in BOOLEAN
  /\ conn \in [Pcbs -> Conns]
  /\ asked \in [Pcbs -> Texts]
  /\ damaged \in BOOLEAN
  /\ stray \in BOOLEAN

\* The timeout watches every connection: whenever the loop comes round, a
\* connection in use has awaiting_response set, however the callbacks fell
\* between the loop's tcp_connect and its assignment of the flag.
TimerWatches == pc = "top" /\ client_pcb # NULL => awaiting_response

\* No message is lost to ERR_INPROGRESS: a message on its way to
\* send_tcp_message never finds a connection in use, although timeouts and errors
\* queue messages again from two threads.
NeverBusy == pc = "send" => client_pcb = NULL

\* Between any two steps of the loop and the callbacks, client_pcb does not dangle:
\* except between the timeout's tcp_close and the next statement, the connection
\* it points to is one the reader has not closed and lwIP has not freed, even when
\* callbacks of earlier connections come late and when lwIP's pool was damaged.
\* So the loop and the other callbacks never use a freed connection; on_error does
\* (network.c:74), within the one step that this says nothing of, and leaves
\* client_pcb NULL.
NoDangling ==
  client_pcb # NULL /\ pc # "forget" =>
    conn[client_pcb] \in {"failed", "connecting", "open"}

\* Unless a callback of an earlier connection came late, the reader never has a
\* connection it does not hold in client_pcb, and so never two.
OneConnection == ~stray => Live \subseteq {client_pcb}

\* Unless a callback of an earlier connection came late, the answer about to be
\* shown is about the card in the uid buffer: no scan replaces the uid between
\* the question and the answer, even when the answer races the timeout.
AnswerForCard == ~stray /\ response_ready => rec = Text(uid)

\* A silent server does not hold the reader: a connection is always given up in
\* the end.
ServerCannotHold == []<>(client_pcb = NULL)

\* The reader's state diagram says "Connecting --> Idle : Connection Failed":
\* when a connection fails the reader looks for cards again.
BackToIdle ==
  (awaiting_response /\ client_pcb = NULL) ~> (pc = "scan" \/ pc = "boot")
===============================================================================
