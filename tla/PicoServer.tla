------------------------------ MODULE PicoServer ------------------------------
(***************************************************************************)
(* The Pico W program of RnD/Gabbemannen00/pico_w/main.py and the programs *)
(* of the Pi Zero that talk to it.  The board joins the Wi-Fi, waits for a *)
(* known card, and then serves one TCP connection at a time: it sends each *)
(* message back.  Nothing on either side has a time-out, messages have no  *)
(* framing, and the board may lose its power or its network at any time.   *)
(*                                                                         *)
(* client.py sends its messages one by one and waits for each answer;      *)
(* auto_client.py sends one.  A message fits in one segment and arrives    *)
(* whole.  Other machines may connect too: a silent one sends nothing, a   *)
(* foreign one sends bytes that are not UTF-8.  The display, the lights    *)
(* and the buzzer are left out.                                            *)
(***************************************************************************)
EXTENDS Naturals, Sequences

CONSTANTS
  Programs, Autos, Silent, Foreign,   \* who may connect, each once
  NumMsgs,     \* Len(MESSAGES) of client.py
  Attempts,    \* the attempts of connect_wifi
  Cards,       \* the cards that may be held to the reader
  Approved,    \* CARD_UID and TAG_UID
  None

Clients == Programs \cup Autos \cup Silent \cup Foreign

ASSUME ServerAssumption ==
  /\ NumMsgs \in Nat \ {0} /\ Attempts \in Nat \ {0}
  /\ Approved \subseteq Cards
  /\ None \notin Clients /\ None \notin Cards
  /\ Programs \cap Autos = {} /\ Programs \cap Silent = {} /\ Programs \cap Foreign = {}
  /\ Autos \cap Silent = {} /\ Autos \cap Foreign = {} /\ Silent \cap Foreign = {}

VARIABLES
  pc,          \* where the board is
  wlan,        \* the Wi-Fi: "off", "joining" or "up"
  tries,       \* the attempts of connect_wifi so far
  online,      \* the reader answered when the program asked for it
  uid,         \* the card read last
  slot,        \* the connection that waits for accept, listen(1)
  serving,     \* client_socket
  received,    \* received_message
  at,          \* where each client is
  sent,        \* how many messages it sent
  replies,     \* the answers it received
  peer,        \* the connection: up, "closed" or "reset" by the client, "orphan"
               \* when the board closed it, "gone" when the board forgot it
  to, back,    \* the messages in flight, to the board and back
  cut          \* the board lost its power or its network: once, a bound of the model

board == <<pc, wlan, tries, online, uid, slot, serving, received>>
net == <<peer, to, back>>
clients == <<at, sent, replies>>
vars == <<pc, wlan, tries, online, uid, slot, serving, received,
          at, sent, replies, peer, to, back, cut>>

Message(c, n) == [from |-> c, number |-> n]
Limit(c) == IF c \in Programs THEN NumMsgs ELSE 1

\* What one end of c's connection sends reaches the other.
Reachable(c) == wlan = "up" /\ peer[c] = "up"

Init ==
  /\ pc = "wifi" /\ wlan = "joining" /\ tries = 0 /\ online = FALSE /\ uid = None
  /\ slot = None /\ serving = None /\ received = None
  /\ at = [c \in Clients |-> "off"]
  /\ sent = [c \in Clients |-> 0]
  /\ replies = [c \in Clients |-> <<>>]
  /\ peer = [c \in Clients |-> "up"]
  /\ to = [c \in Clients |-> <<>>] /\ back = [c \in Clients |-> <<>>]
  /\ cut = FALSE

-----------------------------------------------------------------------------
(* The board, up to its server. *)

\* A slip: one attempt more than the loop makes.
WifiOnceMore ==
  /\ pc = "wifi" /\ wlan # "up" /\ tries <= Attempts
  /\ tries' = tries + 1
  /\ UNCHANGED <<pc, wlan, online, uid, slot, serving, received, clients, net, cut>>

\* connect_wifi asks ten times whether the network has been joined ...
WifiWait ==
  /\ pc = "wifi" /\ wlan # "up" /\ tries < Attempts
  /\ tries' = tries + 1
  /\ UNCHANGED <<pc, wlan, online, uid, slot, serving, received, clients, net, cut>>

\* ... and its result is not looked at: the program goes on either way.
WifiDone ==
  /\ pc = "wifi" /\ pc' = "find"
  /\ wlan = "up" \/ tries = Attempts
  /\ tries' = 0
  /\ UNCHANGED <<wlan, online, uid, slot, serving, received, clients, net, cut>>

\* rfid.request: without a reader the program passes over the scan.
FindReader ==
  /\ pc = "find"
  /\ online' \in BOOLEAN
  /\ pc' = IF online' THEN "scan" ELSE "bind"
  /\ UNCHANGED <<wlan, tries, uid, slot, serving, received, clients, net, cut>>

\* A slip: "uid_list == TAG_UID or CARD_UID", which is always true.
AnyCard(card) == TRUE

\* uid_list == TAG_UID or uid_list == CARD_UID
Recognized(card) == card \in Approved

\* One card is read; the loop ends with the first that is known.
Scan ==
  /\ pc = "scan"
  /\ uid' \in Cards
  /\ pc' = IF Recognized(uid') THEN "bind" ELSE "scan"
  /\ UNCHANGED <<wlan, tries, online, slot, serving, received, clients, net, cut>>

\* socket, bind and listen, which may raise: the program is over then.
Bind ==
  /\ pc = "bind" /\ pc' \in {"accept", "over"}
  /\ UNCHANGED <<wlan, tries, online, uid, slot, serving, received, clients, net, cut>>

-----------------------------------------------------------------------------
(* The board's server. *)

Accept ==
  /\ pc = "accept" /\ slot # None
  /\ pc' = "recv"
  /\ serving' = slot /\ slot' = None
  /\ UNCHANGED <<wlan, tries, online, uid, received, clients, net, cut>>

\* A slip of the next step: the message of an earlier client is kept.
RecvKeepsMessage ==
  /\ pc = "recv" /\ peer[serving] # "reset" /\ to[serving] # <<>>
  /\ to' = [to EXCEPT ![serving] = Tail(@)]
  /\ received' = IF received = None THEN Head(to[serving]) ELSE received
  /\ pc' = "echo"
  /\ UNCHANGED <<wlan, tries, online, uid, slot, serving, clients, peer, back, cut>>

\* recv returns a message.  When it cannot be decoded the exception ends the
\* connection.
Recv ==
  /\ pc = "recv" /\ peer[serving] # "reset" /\ to[serving] # <<>>
  /\ to' = [to EXCEPT ![serving] = Tail(@)]
  /\ IF serving \in Foreign
       THEN pc' = "close" /\ UNCHANGED received
       ELSE pc' = "echo" /\ received' = Head(to[serving])
  /\ UNCHANGED <<wlan, tries, online, uid, slot, serving, clients, peer, back, cut>>

\* A slip of the next step: an empty result of recv does not end the loop.
EndIgnored ==
  /\ pc = "recv" /\ peer[serving] = "reset"
  /\ pc' = "close"
  /\ UNCHANGED <<wlan, tries, online, uid, slot, serving, received, clients, net, cut>>

\* recv returns no data, or raises since the connection was reset.
End ==
  /\ pc = "recv"
  /\ peer[serving] = "reset" \/ (peer[serving] = "closed" /\ to[serving] = <<>>)
  /\ pc' = "close"
  /\ UNCHANGED <<wlan, tries, online, uid, slot, serving, received, clients, net, cut>>

\* A slip: a send that is taken for a failure is made again.
EchoTwice ==
  /\ pc = "echo" /\ pc' = "recv"
  /\ back' = [back EXCEPT ![serving] = @ \o <<received, received>>]
  /\ UNCHANGED <<wlan, tries, online, uid, slot, serving, received, clients, peer, to, cut>>

\* The message is sent back.  A client that is gone resets the connection; send
\* raises when it is reset already.
Echo ==
  /\ pc = "echo"
  /\ pc' = IF peer[serving] = "reset" THEN "close" ELSE "recv"
  /\ IF peer[serving] = "up"
       THEN /\ back' = IF Reachable(serving) THEN [back EXCEPT ![serving] = Append(@, received)]
                                             ELSE back
            /\ UNCHANGED peer
       ELSE peer' = [peer EXCEPT ![serving] = "reset"] /\ UNCHANGED back
  /\ UNCHANGED <<wlan, tries, online, uid, slot, serving, received, clients, to, cut>>

\* "finally": the connection is closed, and the board waits for the next.  A
\* client that still waits for an answer finds the connection ended.
Close ==
  /\ pc = "close" /\ pc' = "accept"
  /\ peer' = [peer EXCEPT ![serving] = IF @ = "up" THEN "orphan" ELSE @]
  /\ to' = [to EXCEPT ![serving] = <<>>]
  /\ serving' = None
  /\ UNCHANGED <<wlan, tries, online, uid, slot, received, clients, back, cut>>

Board ==
  \/ WifiWait \/ WifiDone \/ FindReader \/ Scan \/ Bind
  \/ Accept \/ Recv \/ End \/ Echo \/ Close

-----------------------------------------------------------------------------
(* The clients. *)

Listening == wlan = "up" /\ pc \in {"accept", "recv", "echo", "close"}

\* connect: refused when the board does not listen, and when a connection
\* already waits in the backlog of one.
Connect(c) ==
  /\ at[c] = "off"
  /\ \/ /\ Listening /\ slot = None
        /\ slot' = c
        /\ at' = [at EXCEPT ![c] = IF c \in Silent THEN "mute" ELSE "send"]
     \/ /\ ~Listening \/ slot # None
        /\ at' = [at EXCEPT ![c] = "end"]
        /\ UNCHANGED slot
  /\ UNCHANGED <<pc, wlan, tries, online, uid, serving, received, sent, replies, net, cut>>

\* sendall(message).  A board that was started again resets the connection it
\* does not know.
Send(c) ==
  /\ at[c] = "send"
  /\ at' = [at EXCEPT ![c] = "recv"]
  /\ sent' = [sent EXCEPT ![c] = @ + 1]
  /\ to' = IF Reachable(c) THEN [to EXCEPT ![c] = Append(@, Message(c, sent'[c]))] ELSE to
  /\ peer' = [peer EXCEPT ![c] = IF @ = "gone" /\ wlan = "up" THEN "orphan" ELSE @]
  /\ UNCHANGED <<board, replies, back, cut>>

\* recv returns the answer; after the last one the connection is closed.
Receive(c) ==
  /\ at[c] = "recv" /\ back[c] # <<>>
  /\ back' = [back EXCEPT ![c] = Tail(@)]
  /\ replies' = [replies EXCEPT ![c] = Append(@, Head(back[c]))]
  /\ IF sent[c] = Limit(c)
       THEN /\ at' = [at EXCEPT ![c] = "end"]
            /\ peer' = [peer EXCEPT ![c] = IF Reachable(c) THEN "closed" ELSE @]
       ELSE at' = [at EXCEPT ![c] = "send"] /\ UNCHANGED peer
  /\ UNCHANGED <<board, sent, to, cut>>

\* The board closed the connection: recv returns nothing or raises, and so does
\* what the program tries next.
Lost(c) ==
  /\ at[c] = "recv" /\ back[c] = <<>> /\ peer[c] = "orphan"
  /\ at' = [at EXCEPT ![c] = "end"]
  /\ UNCHANGED <<board, sent, replies, net, cut>>

\* The program is stopped by its user, or the machine closes the connection.
Quit(c) ==
  /\ at[c] \in {"send", "recv", "mute"}
  /\ at' = [at EXCEPT ![c] = "end"]
  /\ peer' = [peer EXCEPT ![c] = IF ~Reachable(c) THEN @
                                 ELSE IF back[c] = <<>> THEN "closed" ELSE "reset"]
  /\ back' = [back EXCEPT ![c] = <<>>]
  /\ UNCHANGED <<board, sent, replies, to, cut>>

-----------------------------------------------------------------------------
(* The world around them. *)

\* The network is joined in the background, also after connect_wifi gave up.
Join ==
  /\ wlan = "joining"
  /\ wlan' = "up"
  /\ UNCHANGED <<pc, tries, online, uid, slot, serving, received, clients, net, cut>>

\* The network is lost; main.py never joins it again.
LoseWifi ==
  /\ wlan = "up" /\ ~cut
  /\ wlan' = "off" /\ cut' = TRUE
  /\ UNCHANGED <<pc, tries, online, uid, slot, serving, received, clients, net>>

\* The board loses its power and starts again; it knows nothing of the
\* connections it had, and their clients are not told: one that waits in recv,
\* and whose answer was lost, waits for good.
PowerCut ==
  /\ ~cut /\ cut' = TRUE
  /\ pc' = "wifi" /\ wlan' = "joining" /\ tries' = 0 /\ online' = FALSE /\ uid' = None
  /\ slot' = None /\ serving' = None /\ received' = None
  /\ to' = [c \in Clients |-> <<>>]
  /\ \E lost \in SUBSET Clients : back' = [c \in Clients |-> IF c \in lost THEN <<>> ELSE back[c]]
  /\ peer' = [c \in Clients |-> IF at[c] # "off" /\ peer[c] = "up" THEN "gone" ELSE peer[c]]
  /\ UNCHANGED clients

Next ==
  \/ Board
  \/ \E c \in Clients : Connect(c) \/ Send(c) \/ Receive(c) \/ Lost(c) \/ Quit(c)
  \/ Join \/ LoseWifi \/ PowerCut

Spec == Init /\ [][Next]_vars

\* The board and a client that runs go on.  Nobody need connect or stop, and no
\* card need come.
Fairness ==
  /\ WF_vars(Board)
  /\ \A c \in Clients : WF_vars(Send(c) \/ Receive(c) \/ Lost(c))

FairSpec == Spec /\ Fairness

-----------------------------------------------------------------------------
TypeOK ==
  /\ pc \in {"wifi", "find", "scan", "bind", "accept", "recv", "echo", "close", "over"}
  /\ wlan \in {"off", "joining", "up"} /\ tries \in 0 .. Attempts
  /\ online \in BOOLEAN /\ uid \in Cards \cup {None}
  /\ slot \in Clients \cup {None} /\ serving \in Clients \cup {None}
  /\ received \in [from : Clients, number : 1 .. NumMsgs] \cup {None}
  /\ at \in [Clients -> {"off", "send", "recv", "mute", "end"}]
  /\ sent \in [Clients -> 0 .. NumMsgs]
  /\ peer \in [Clients -> {"up", "closed", "reset", "orphan", "gone"}]
  /\ cut \in BOOLEAN

\* Every answer a client gets is its own message of that number, although the
\* stream has no framing and the board keeps one received_message for all.
EchoMatches ==
  \A c \in Clients : \A i \in DOMAIN replies[c] : replies[c][i] = Message(c, i)

\* This is why no framing is needed: of each connection one message at most is on
\* its way, to the board, in received_message or back.
Held(c) == IF pc = "echo" /\ serving = c THEN 1 ELSE 0
OneOutstanding ==
  \A c \in Clients : Len(to[c]) + Held(c) + Len(back[c]) <= 1

\* The board serves nobody before a known card was held to the reader, unless it
\* found no reader when it started.
LockedUntilApproved == slot # None \/ serving # None => ~online \/ uid \in Approved

\* client.py and auto_client.py end, whoever connects before or after them: the
\* board and a client never wait for each other.  Only a client that is silent for
\* good, a lost network or a power cut keeps them waiting.
ClientsFinish ==
  \A c \in Programs \cup Autos :
    [](at[c] \in {"send", "recv"} =>
         <>(at[c] = "end" \/ cut \/ [](serving \in Silent)))
===============================================================================
