-------------------------- MODULE PicoServer_proofs --------------------------
(***************************************************************************)
(* Proofs about PicoServer, for every set of client programs, every number *)
(* of messages and every set of cards: with no framing and one buffer for  *)
(* all connections, each client gets back its own messages in order, and   *)
(* nobody is served before a known card was held to the reader.            *)
(***************************************************************************)
EXTENDS PicoServer, SequenceTheorems, TLAPS

Messages == [from : Clients, number : 1 .. NumMsgs]

(* The message a client sent last: no other can be on its way. *)
Last(c) == Message(c, sent[c])
Holding(c) == pc = "echo" /\ serving = c

Types ==
  /\ TypeOK
  /\ to \in [Clients -> Seq(Messages)] /\ back \in [Clients -> Seq(Messages)]
  /\ replies \in [Clients -> Seq(Messages)]
  /\ \A c \in Clients : sent[c] <= Limit(c)

(* The message on its way is the last one that was sent, in one place. *)
Flight ==
  /\ \A c \in Clients :
       /\ to[c] # <<>> => to[c] = <<Last(c)>> /\ back[c] = <<>> /\ ~ Holding(c)
       /\ back[c] # <<>> => back[c] = <<Last(c)>> /\ ~ Holding(c)
       /\ Holding(c) => received = Last(c)
       /\ to[c] # <<>> \/ back[c] # <<>> \/ Holding(c) => sent[c] > 0

(* A client sends when everything it sent has been answered, and waits for  *)
(* one answer.                                                              *)
Lockstep ==
  \A c \in Clients :
    /\ at[c] \in {"off", "send", "mute"} =>
         /\ to[c] = <<>> /\ back[c] = <<>> /\ ~ Holding(c)
         /\ Len(replies[c]) = sent[c]
    /\ at[c] = "recv" => sent[c] > 0 /\ Len(replies[c]) = sent[c] - 1
    /\ at[c] \in {"off", "send"} => sent[c] < Limit(c)

(* Who the board serves. *)
Connections ==
  /\ pc \in {"recv", "echo", "close"} <=> serving # None
  /\ pc \in {"wifi", "find", "scan", "bind", "over"} => slot = None
  /\ \A c \in Clients : at[c] = "off" => slot # c /\ serving # c

(* The program gets past the scan without a reader, or with a known card. *)
Unlocked ==
  pc \in {"bind", "accept", "recv", "echo", "close"} => ~ online \/ uid \in Approved

ServerInv == Types /\ Flight /\ Lockstep /\ Connections /\ Unlocked /\ EchoMatches

-----------------------------------------------------------------------------
(* What the definitions say of one client, and of the constants. *)
LEMMA Limits ==
  /\ NumMsgs \in Nat /\ Attempts \in Nat
  /\ \A c \in Clients : Limit(c) \in 1 .. NumMsgs
  /\ None \notin Clients
  /\ \A c \in Clients : \A n \in 1 .. NumMsgs : Message(c, n) \in Messages
BY ServerAssumption DEF Limit, Message, Messages

(* What adding a message to a stream and taking one from it give, when one  *)
(* at most is on its way.                                                   *)
LEMMA OneMessage ==
  ASSUME NEW S, NEW m \in S
  PROVE  /\ Append(<<>>, m) = <<m>> /\ <<m>> \in Seq(S) /\ <<m>> # <<>>
         /\ Tail(<<m>>) = <<>> /\ Head(<<m>>) = m
         /\ <<>> \in Seq(S)
OBVIOUS

(* At the start no client has connected. *)
LEMMA ServerInit == Init => ServerInv
<1> SUFFICES ASSUME Init PROVE ServerInv
  OBVIOUS
<1> USE Limits DEF Init
<1>1. Types
  <2>1. <<>> \in Seq(Messages)
    OBVIOUS
  <2>2. tries \in 0 .. Attempts /\ sent \in [Clients -> 0 .. NumMsgs]
    BY Limits
  <2>3. TypeOK
    BY <2>2, Zenon DEF TypeOK
  <2> QED
    BY <2>1, <2>3 DEF Types
<1>2. Flight /\ Lockstep /\ Connections /\ Unlocked /\ EchoMatches
  BY DEF Flight, Lockstep, Connections, Unlocked, EchoMatches, Holding
<1> QED
  BY <1>1, <1>2 DEF ServerInv

(* A step of the board that touches no message: who holds one stays the same. *)
LEMMA MessagesStay ==
  ASSUME ServerInv, UNCHANGED <<clients, to, back>>,
         \A c \in Clients : Holding(c)' => Holding(c) /\ received' = received
  PROVE  Flight' /\ Lockstep' /\ EchoMatches'
<1> USE DEF ServerInv, clients
<1>1. Flight'
  BY DEF Flight, Last, Message
<1>2. Lockstep'
  BY DEF Lockstep
<1>3. EchoMatches'
  BY DEF EchoMatches
<1> QED
  BY <1>1, <1>2, <1>3

(* The board until it listens. *)
LEMMA StartStep ==
  ASSUME ServerInv, WifiWait \/ WifiDone \/ FindReader \/ Scan \/ Bind
  PROVE  ServerInv'
<1> USE Limits DEF ServerInv
<1>1. /\ pc \in {"wifi", "find", "scan", "bind"}
      /\ pc' \in {"wifi", "find", "scan", "bind", "accept", "over"}
      /\ tries' \in 0 .. Attempts
      /\ online' \in BOOLEAN /\ uid' \in Cards \cup {None}
      /\ UNCHANGED <<wlan, slot, serving, received, clients, net, cut>>
  BY DEF WifiWait, WifiDone, FindReader, Scan, Bind, Types, TypeOK
<1>2. Types'
  <2>1. Types /\ TypeOK
    BY DEF Types
  <2> HIDE DEF ServerInv
  <2>2. TypeOK'
    BY <1>1, <2>1 DEF TypeOK, clients, net
  <2> QED
    BY <1>1, <2>1, <2>2 DEF Types, clients, net
<1>3. Flight' /\ Lockstep' /\ EchoMatches'
  BY <1>1, MessagesStay DEF Holding, net
<1>4. Connections'
  BY <1>1 DEF Connections, clients
<1>5. Unlocked'
  BY DEF Unlocked, WifiWait, WifiDone, FindReader, Scan, Bind, Recognized
<1> QED
  BY <1>2, <1>3, <1>4, <1>5

(* A connection is accepted, has ended, or the network comes and goes. *)
LEMMA QuietStep ==
  ASSUME ServerInv, Accept \/ End \/ Join \/ LoseWifi
  PROVE  ServerInv'
<1> USE Limits DEF ServerInv
<1>1. /\ UNCHANGED <<tries, online, uid, received, clients, net>>
      /\ pc' = pc \/ (pc \in {"accept", "recv"} /\ pc' \in {"recv", "close"})
      /\ wlan' \in {wlan, "up", "off"} /\ cut' \in BOOLEAN
      /\ <<slot', serving'>> \in {<<slot, serving>>, <<None, slot>>}
  BY DEF Accept, End, Join, LoseWifi, Types, TypeOK
<1>2. Types'
  <2>1. Types /\ TypeOK
    BY DEF Types
  <2> HIDE DEF ServerInv
  <2>2. TypeOK'
    BY <1>1, <2>1 DEF TypeOK, clients, net
  <2> QED
    BY <1>1, <2>1, <2>2 DEF Types, clients, net
<1>3. \A c \in Clients : Holding(c)' => Holding(c)
  BY DEF Holding, Accept, End, Join, LoseWifi
<1>4. Flight' /\ Lockstep' /\ EchoMatches'
  BY <1>1, <1>3, MessagesStay DEF net
<1>5. Connections'
  BY DEF Connections, Accept, End, Join, LoseWifi, clients, Types, TypeOK
<1>6. Unlocked'
  BY <1>1 DEF Unlocked
<1> QED
  BY <1>2, <1>4, <1>5, <1>6

(* recv returns the message that was on its way: it is now in the board's    *)
(* buffer, unless it could not be decoded.                                   *)
LEMMA RecvStep == ASSUME ServerInv, Recv PROVE ServerInv'
<1> USE Limits DEF ServerInv
<1>1. /\ pc = "recv" /\ to[serving] # <<>>
      /\ to' = [to EXCEPT ![serving] = Tail(@)]
      /\ \/ pc' = "close" /\ received' = received
         \/ pc' = "echo" /\ received' = Head(to[serving])
      /\ UNCHANGED <<wlan, tries, online, uid, slot, serving, clients, peer, back, cut>>
  BY DEF Recv
<1> DEFINE c == serving
<1>2. /\ c \in Clients /\ to \in [Clients -> Seq(Messages)]
      /\ to[c] = <<Last(c)>> /\ back[c] = <<>> /\ sent[c] > 0
      /\ \A d \in Clients : ~ Holding(d)
  BY <1>1 DEF Connections, Types, TypeOK, Flight, Holding
<1>3. Last(c) \in Messages
  BY <1>2 DEF Last, Types, TypeOK
<1>4. /\ to' = [to EXCEPT ![c] = <<>>] /\ <<>> \in Seq(Messages)
      /\ pc' = "echo" => received' = Last(c)
  BY <1>1, <1>2, <1>3, OneMessage
<1> HIDE DEF c
<1>5. Types'
  <2>1. to' \in [Clients -> Seq(Messages)]
    BY <1>2, <1>4
  <2>2. received' \in Messages \cup {None}
    BY <1>1, <1>3, <1>4 DEF Types, TypeOK, Messages
  <2>3. TypeOK'
    BY <1>1, <2>2 DEF Types, TypeOK, Messages, clients
  <2> QED
    BY <1>1, <2>1, <2>3 DEF Types, clients
<1>6. ASSUME NEW d \in Clients PROVE Holding(d)' => d = c /\ received' = Last(c)
  BY <1>1, <1>4 DEF Holding, c
<1>7. Flight'
  BY <1>1, <1>2, <1>4, <1>6 DEF Flight, Last, Message, clients
<1>8. Lockstep'
  <2>1. at[c] \notin {"off", "send", "mute"}
    BY <1>1, <1>2 DEF Lockstep, c
  <2> QED
    BY <1>1, <1>2, <1>4, <1>6, <2>1 DEF Lockstep, clients
<1>9. Connections' /\ Unlocked' /\ EchoMatches'
  BY <1>1 DEF Connections, Unlocked, EchoMatches, clients
<1> QED
  BY <1>5, <1>7, <1>8, <1>9

(* The message goes back, or the connection is found to be reset. *)
LEMMA EchoStep == ASSUME ServerInv, Echo PROVE ServerInv'
<1> USE Limits DEF ServerInv
<1> DEFINE c == serving
<1>1. /\ pc = "echo" /\ pc' \in {"close", "recv"}
      /\ back' = back \/ back' = [back EXCEPT ![c] = Append(@, received)]
      /\ UNCHANGED <<wlan, tries, online, uid, slot, serving, received, clients, to, cut>>
      /\ peer' = peer \/ peer' = [peer EXCEPT ![c] = "reset"]
  BY DEF Echo
<1>2. /\ c \in Clients /\ Holding(c) /\ received = Last(c)
      /\ to[c] = <<>> /\ back[c] = <<>> /\ sent[c] > 0
      /\ back \in [Clients -> Seq(Messages)]
      /\ \A d \in Clients : ~ Holding(d)'
  BY <1>1 DEF Connections, Types, TypeOK, Flight, Holding
<1>3. Last(c) \in Messages
  BY <1>2 DEF Last, Types, TypeOK
<1>4. back' = back \/ back' = [back EXCEPT ![c] = <<Last(c)>>]
  BY <1>1, <1>2, <1>3, OneMessage
<1> HIDE DEF c
<1>5. Types'
  <2>1. back' \in [Clients -> Seq(Messages)]
    BY <1>2, <1>3, <1>4, OneMessage
  <2>2. TypeOK'
    BY <1>1 DEF Types, TypeOK, clients
  <2> QED
    BY <1>1, <2>1, <2>2 DEF Types, clients
<1>6. Flight'
  BY <1>1, <1>2, <1>4 DEF Flight, Last, Message, clients
<1>7. Lockstep'
  <2>1. at[c] \notin {"off", "send", "mute"}
    BY <1>2 DEF Lockstep
  <2> QED
    BY <1>1, <1>2, <1>4, <2>1 DEF Lockstep, clients
<1>8. Connections' /\ Unlocked' /\ EchoMatches'
  BY <1>1 DEF Connections, Unlocked, EchoMatches, clients
<1> QED
  BY <1>5, <1>6, <1>7, <1>8

(* The board ends the connection; what was still to be read is dropped. *)
LEMMA CloseStep == ASSUME ServerInv, Close PROVE ServerInv'
<1> USE Limits DEF ServerInv
<1>1. /\ pc = "close" /\ pc' = "accept" /\ serving' = None
      /\ to' = [to EXCEPT ![serving] = <<>>]
      /\ peer' = [peer EXCEPT ![serving] = IF @ = "up" THEN "orphan" ELSE @]
      /\ UNCHANGED <<wlan, tries, online, uid, slot, received, clients, back, cut>>
  BY DEF Close
<1>2. /\ <<>> \in Seq(Messages) /\ to \in [Clients -> Seq(Messages)]
      /\ \A d \in Clients : ~ Holding(d)' /\ (to'[d] = to[d] \/ to'[d] = <<>>)
  BY <1>1 DEF Types, Holding
<1>3. Types'
  BY <1>1, <1>2 DEF Types, TypeOK, clients
<1>4. Flight' /\ Lockstep'
  BY <1>1, <1>2 DEF Flight, Lockstep, Last, Message, clients
<1>5. Connections' /\ Unlocked' /\ EchoMatches'
  BY <1>1 DEF Connections, Unlocked, EchoMatches, clients
<1> QED
  BY <1>3, <1>4, <1>5

(* A client takes the one place in the backlog, or is refused. *)
LEMMA ConnectStep == ASSUME ServerInv, NEW c \in Clients, Connect(c) PROVE ServerInv'
<1> USE Limits DEF ServerInv
<1>1. /\ at[c] = "off"
      /\ \/ Listening /\ slot' = c /\ at' = [at EXCEPT ![c] = IF c \in Silent THEN "mute" ELSE "send"]
         \/ slot' = slot /\ at' = [at EXCEPT ![c] = "end"]
      /\ UNCHANGED <<pc, wlan, tries, online, uid, serving, received, sent, replies, net, cut>>
  BY DEF Connect
<1>2. PICK next \in {"mute", "send", "end"} : at' = [at EXCEPT ![c] = next]
  BY <1>1
<1>3. /\ at \in [Clients -> {"off", "send", "recv", "mute", "end"}]
      /\ at'[c] = next /\ \A d \in Clients : d # c => at'[d] = at[d]
  BY <1>2 DEF Types, TypeOK
<1>4. Types'
  <2>1. slot' \in Clients \cup {None} /\ at' \in [Clients -> {"off", "send", "recv", "mute", "end"}]
    BY <1>1, <1>2, <1>3 DEF Types, TypeOK
  <2>2. TypeOK'
    BY <1>1, <2>1 DEF Types, TypeOK, net
  <2> QED
    BY <1>1, <2>2 DEF Types, net
<1>5. Flight' /\ EchoMatches'
  BY <1>1 DEF Flight, Last, Message, Holding, EchoMatches, net
<1>6. Lockstep'
  BY <1>1, <1>3 DEF Lockstep, Holding, net
<1>7. Connections' /\ Unlocked'
  BY <1>1, <1>3 DEF Connections, Unlocked, Listening
<1> QED
  BY <1>4, <1>5, <1>6, <1>7

(* A client sends its next message, and it is the only one on its way. *)
LEMMA SendStep == ASSUME ServerInv, NEW c \in Clients, Send(c) PROVE ServerInv'
<1> USE Limits DEF ServerInv
<1>1. /\ at[c] = "send" /\ at' = [at EXCEPT ![c] = "recv"]
      /\ sent' = [sent EXCEPT ![c] = @ + 1]
      /\ to' = to \/ to' = [to EXCEPT ![c] = Append(@, Message(c, sent'[c]))]
      /\ \E p \in {"orphan", peer[c]} : peer' = [peer EXCEPT ![c] = p]
      /\ UNCHANGED <<pc, wlan, tries, online, uid, slot, serving, received, replies, back, cut>>
  BY DEF Send, board
<1>2. /\ to[c] = <<>> /\ back[c] = <<>> /\ ~ Holding(c) /\ Len(replies[c]) = sent[c]
      /\ sent[c] < Limit(c)
      /\ to \in [Clients -> Seq(Messages)] /\ sent \in [Clients -> 0 .. NumMsgs]
      /\ at \in [Clients -> {"off", "send", "recv", "mute", "end"}]
  BY <1>1 DEF Lockstep, Types, TypeOK
<1>3. /\ sent[c] \in Nat /\ sent'[c] = sent[c] + 1 /\ sent'[c] \in 1 .. NumMsgs /\ sent'[c] <= Limit(c)
      /\ \A d \in Clients : d # c => sent'[d] = sent[d]
  BY <1>1, <1>2
<1>4. Message(c, sent'[c]) \in Messages
  BY <1>3
<1>5. /\ to' = to \/ to' = [to EXCEPT ![c] = <<Message(c, sent'[c])>>]
      /\ <<Message(c, sent'[c])>> \in Seq(Messages)
  BY <1>1, <1>2, <1>4, OneMessage
<1>6. at'[c] = "recv" /\ \A d \in Clients : d # c => at'[d] = at[d]
  BY <1>1, <1>2
<1>7. Types'
  <2>1. to' \in [Clients -> Seq(Messages)]
    BY <1>2, <1>5
  <2>2. sent' \in [Clients -> 0 .. NumMsgs] /\ \A d \in Clients : sent'[d] <= Limit(d)
    BY <1>1, <1>2, <1>3 DEF Types
  <2>3. /\ peer' \in [Clients -> {"up", "closed", "reset", "orphan", "gone"}]
        /\ at' \in [Clients -> {"off", "send", "recv", "mute", "end"}]
    <3>1. peer \in [Clients -> {"up", "closed", "reset", "orphan", "gone"}]
      BY DEF Types, TypeOK
    <3> HIDE DEF ServerInv
    <3> QED
      BY <1>1, <1>2, <3>1
  <2>4. TypeOK'
    <3>1. TypeOK
      BY DEF Types
    <3> HIDE DEF ServerInv
    <3> QED
      BY <1>1, <2>2, <2>3, <3>1 DEF TypeOK
  <2> QED
    BY <1>1, <2>1, <2>2, <2>4 DEF Types
<1>8. ASSUME NEW d \in Clients
      PROVE  /\ d # c => to'[d] = to[d] /\ Last(d)' = Last(d)
             /\ d = c => to'[d] = <<>> \/ to'[d] = <<Last(d)'>>
             /\ Holding(d)' <=> Holding(d)
  BY <1>1, <1>2, <1>3, <1>5 DEF Last, Holding
<1>9. Flight'
  BY <1>1, <1>2, <1>3, <1>8 DEF Flight
<1>10. Lockstep'
  BY <1>1, <1>2, <1>3, <1>6, <1>8 DEF Lockstep
<1>11. Connections' /\ Unlocked' /\ EchoMatches'
  BY <1>1, <1>6 DEF Connections, Unlocked, EchoMatches
<1> QED
  BY <1>7, <1>9, <1>10, <1>11

(* A client gets the answer to its last message. *)
LEMMA ReceiveStep == ASSUME ServerInv, NEW c \in Clients, Receive(c) PROVE ServerInv'
<1> USE Limits DEF ServerInv
<1>1. /\ at[c] = "recv" /\ back[c] # <<>>
      /\ back' = [back EXCEPT ![c] = Tail(@)]
      /\ replies' = [replies EXCEPT ![c] = Append(@, Head(back[c]))]
      /\ \/ at' = [at EXCEPT ![c] = "end"]
         \/ sent[c] # Limit(c) /\ at' = [at EXCEPT ![c] = "send"]
      /\ peer' = peer \/ \E p \in {"closed", peer[c]} : peer' = [peer EXCEPT ![c] = p]
      /\ UNCHANGED <<pc, wlan, tries, online, uid, slot, serving, received, sent, to, cut>>
  BY DEF Receive, board
<1>2. /\ back[c] = <<Last(c)>> /\ to[c] = <<>> /\ ~ Holding(c)
      /\ sent[c] > 0 /\ sent[c] \in 1 .. NumMsgs /\ sent[c] <= Limit(c)
      /\ Len(replies[c]) = sent[c] - 1
      /\ back \in [Clients -> Seq(Messages)] /\ replies \in [Clients -> Seq(Messages)]
      /\ at \in [Clients -> {"off", "send", "recv", "mute", "end"}]
  <2>1. Types
    OBVIOUS
  <2>2. /\ back[c] = <<Last(c)>> /\ ~ Holding(c)
        /\ Len(replies[c]) = sent[c] - 1 /\ sent[c] > 0
    BY <1>1 DEF Lockstep, Flight
  <2>3. to[c] = <<>>
    BY <1>1 DEF Flight
  <2>4. /\ sent[c] \in 0 .. NumMsgs /\ sent[c] <= Limit(c)
        /\ back \in [Clients -> Seq(Messages)] /\ replies \in [Clients -> Seq(Messages)]
        /\ at \in [Clients -> {"off", "send", "recv", "mute", "end"}]
    BY <2>1 DEF Types, TypeOK
  <2> HIDE DEF ServerInv
  <2> QED
    BY <2>2, <2>3, <2>4
<1>3. Last(c) \in Messages
  BY <1>2 DEF Last
<1>4. /\ back' = [back EXCEPT ![c] = <<>>] /\ <<>> \in Seq(Messages)
      /\ replies' = [replies EXCEPT ![c] = Append(@, Last(c))]
  BY <1>1, <1>2, <1>3, OneMessage
<1>5. /\ Append(replies[c], Last(c)) \in Seq(Messages)
      /\ Len(Append(replies[c], Last(c))) = sent[c]
      /\ \A i \in 1 .. sent[c] :
           Append(replies[c], Last(c))[i] = IF i = sent[c] THEN Last(c) ELSE replies[c][i]
  BY <1>2, <1>3
<1>6. /\ replies'[c] = Append(replies[c], Last(c))
      /\ \A d \in Clients : d # c => replies'[d] = replies[d] /\ back'[d] = back[d] /\ at'[d] = at[d]
      /\ back'[c] = <<>>
      /\ at'[c] = "end" \/ (at'[c] = "send" /\ sent[c] < Limit(c))
  BY <1>1, <1>2, <1>4
<1>7. Types'
  <2>1. back' \in [Clients -> Seq(Messages)] /\ replies' \in [Clients -> Seq(Messages)]
    BY <1>2, <1>4, <1>5
  <2>2. /\ at' \in [Clients -> {"off", "send", "recv", "mute", "end"}]
        /\ peer' \in [Clients -> {"up", "closed", "reset", "orphan", "gone"}]
    <3>1. peer \in [Clients -> {"up", "closed", "reset", "orphan", "gone"}]
      BY DEF Types, TypeOK
    <3> HIDE DEF ServerInv
    <3> QED
      BY <1>1, <1>2, <3>1
  <2>3. Types /\ TypeOK
    BY DEF Types
  <2> HIDE DEF ServerInv
  <2>4. TypeOK'
    BY <1>1, <2>2, <2>3 DEF TypeOK
  <2> QED
    BY <1>1, <2>1, <2>3, <2>4 DEF Types
<1>8. Flight'
  BY <1>1, <1>2, <1>6 DEF Flight, Last, Message, Holding
<1>9. Lockstep'
  <2>1. Lockstep /\ UNCHANGED <<sent, to, pc, serving>>
    BY <1>1
  <2> HIDE DEF ServerInv
  <2>2. /\ Len(replies'[c]) = sent[c]
        /\ \A d \in Clients : Holding(d)' <=> Holding(d)
    BY <1>5, <1>6, <2>1 DEF Holding
  <2> QED
    BY <1>2, <1>6, <2>1, <2>2 DEF Lockstep
<1>10. EchoMatches'
  <2>1. ASSUME NEW i \in DOMAIN replies'[c] PROVE replies'[c][i] = Message(c, i)
    <3>1. i \in 1 .. sent[c] /\ (i # sent[c] => i \in DOMAIN replies[c])
      BY <1>2, <1>5, <1>6, <2>1
    <3> QED
      BY <1>5, <1>6, <3>1 DEF EchoMatches, Last
  <2> QED
    BY <1>6, <2>1 DEF EchoMatches
<1>11. Connections' /\ Unlocked'
  BY <1>1, <1>6 DEF Connections, Unlocked
<1> QED
  BY <1>7, <1>8, <1>9, <1>10, <1>11

(* A client stops, or finds that the board closed its connection: what was   *)
(* on its way to it is dropped, what it sent may still be read.              *)
LEMMA StopStep == ASSUME ServerInv, NEW c \in Clients, Lost(c) \/ Quit(c) PROVE ServerInv'
<1> USE Limits DEF ServerInv
<1>1. /\ at[c] # "off" /\ at' = [at EXCEPT ![c] = "end"]
      /\ back' = back \/ back' = [back EXCEPT ![c] = <<>>]
      /\ peer' = peer \/ \E p \in {"closed", "reset", peer[c]} : peer' = [peer EXCEPT ![c] = p]
      /\ UNCHANGED <<pc, wlan, tries, online, uid, slot, serving, received, sent, replies, to, cut>>
  BY DEF Lost, Quit, board, net
<1>2. /\ back' \in [Clients -> Seq(Messages)]
      /\ at' \in [Clients -> {"off", "send", "recv", "mute", "end"}]
      /\ peer' \in [Clients -> {"up", "closed", "reset", "orphan", "gone"}]
      /\ \A d \in Clients : back'[d] = back[d] \/ back'[d] = <<>>
      /\ at'[c] = "end" /\ \A d \in Clients : d # c => at'[d] = at[d]
  <2>1. back \in [Clients -> Seq(Messages)] /\ <<>> \in Seq(Messages)
    BY DEF Types
  <2>2. back' \in [Clients -> Seq(Messages)] /\ \A d \in Clients : back'[d] = back[d] \/ back'[d] = <<>>
    BY <1>1, <2>1
  <2>3. /\ at \in [Clients -> {"off", "send", "recv", "mute", "end"}]
        /\ peer \in [Clients -> {"up", "closed", "reset", "orphan", "gone"}]
    BY DEF Types, TypeOK
  <2>4. /\ at' \in [Clients -> {"off", "send", "recv", "mute", "end"}]
        /\ at'[c] = "end" /\ \A d \in Clients : d # c => at'[d] = at[d]
    BY <1>1, <2>3
  <2>5. peer' \in [Clients -> {"up", "closed", "reset", "orphan", "gone"}]
    BY <1>1, <2>3
  <2> QED
    BY <2>2, <2>4, <2>5
<1>3. Types'
  <2>1. Types /\ TypeOK
    BY DEF Types
  <2> HIDE DEF ServerInv
  <2>2. TypeOK'
    BY <1>1, <1>2, <2>1 DEF TypeOK
  <2> QED
    BY <1>1, <1>2, <2>1, <2>2 DEF Types
<1>4. Flight' /\ Lockstep'
  BY <1>1, <1>2 DEF Flight, Lockstep, Last, Message, Holding
<1>5. Connections' /\ Unlocked' /\ EchoMatches'
  BY <1>1, <1>2 DEF Connections, Unlocked, EchoMatches
<1> QED
  BY <1>3, <1>4, <1>5

(* A board that starts again has dropped what it held. *)
LEMMA PowerCutStep == ASSUME ServerInv, PowerCut PROVE ServerInv'
<1> USE Limits DEF ServerInv
<1>1. /\ pc' = "wifi" /\ wlan' = "joining" /\ tries' = 0 /\ online' = FALSE /\ uid' = None
      /\ slot' = None /\ serving' = None /\ received' = None /\ cut' = TRUE
      /\ to' = [c \in Clients |-> <<>>]
      /\ UNCHANGED clients
  BY DEF PowerCut
<1>2. PICK lost \in SUBSET Clients : back' = [c \in Clients |-> IF c \in lost THEN <<>> ELSE back[c]]
  BY DEF PowerCut
<1>3. <<>> \in Seq(Messages)
  OBVIOUS
<1>4. /\ to' \in [Clients -> Seq(Messages)] /\ back' \in [Clients -> Seq(Messages)]
      /\ peer' \in [Clients -> {"up", "closed", "reset", "orphan", "gone"}]
      /\ \A d \in Clients : /\ to'[d] = <<>> /\ ~ Holding(d)'
                            /\ back'[d] = back[d] \/ back'[d] = <<>>
  <2>1. to' \in [Clients -> Seq(Messages)] /\ back' \in [Clients -> Seq(Messages)]
    BY <1>1, <1>2, <1>3 DEF Types
  <2>2. peer' \in [Clients -> {"up", "closed", "reset", "orphan", "gone"}]
    BY DEF PowerCut, Types, TypeOK
  <2> QED
    BY <1>1, <1>2, <2>1, <2>2 DEF Holding
<1>5. Types'
  <2>1. tries' \in 0 .. Attempts
    BY <1>1
  <2>2. TypeOK'
    BY <1>1, <1>4, <2>1 DEF Types, TypeOK, clients
  <2> QED
    BY <1>1, <1>4, <2>2 DEF Types, clients
<1>6. Flight' /\ Lockstep'
  BY <1>1, <1>4 DEF Flight, Lockstep, Last, Message, clients
<1>7. Connections' /\ Unlocked' /\ EchoMatches'
  BY <1>1 DEF Connections, Unlocked, EchoMatches, clients
<1> QED
  BY <1>5, <1>6, <1>7

(* Each step keeps the invariant. *)
LEMMA ServerStep == ServerInv /\ [Next]_vars => ServerInv'
<1> SUFFICES ASSUME ServerInv, [Next]_vars PROVE ServerInv'
  OBVIOUS
<1>1. ASSUME UNCHANGED vars PROVE ServerInv'
  <2> USE DEF ServerInv, vars
  <2>1. Types'
    BY <1>1 DEF Types, TypeOK
  <2>2. Flight' /\ Lockstep' /\ EchoMatches'
    BY <1>1, MessagesStay DEF Holding, clients
  <2>3. Connections' /\ Unlocked'
    BY <1>1 DEF Connections, Unlocked
  <2> QED
    BY <2>1, <2>2, <2>3
<1> QED
  BY <1>1, StartStep, QuietStep, RecvStep, EchoStep, CloseStep, ConnectStep, SendStep,
     ReceiveStep, StopStep, PowerCutStep
  DEF Next, Board

LEMMA ServerAlways == Spec => []ServerInv
BY ServerInit, ServerStep, PTL DEF Spec
-----------------------------------------------------------------------------
(* Every variable keeps its type. *)
THEOREM TypeCorrect == Spec => []TypeOK
<1>1. ServerInv => TypeOK
  BY DEF ServerInv, Types
<1> QED
  BY <1>1, ServerAlways, PTL

(* The n-th answer of a client is its own n-th message, although the stream  *)
(* has no framing, clients quit at any point and the board keeps one buffer. *)
THEOREM EchoCorrect == Spec => []EchoMatches
<1>1. ServerInv => EchoMatches
  BY DEF ServerInv
<1> QED
  BY <1>1, ServerAlways, PTL

(* Of each connection one message at most is on its way.                     *)
THEOREM OutstandingCorrect == Spec => []OneOutstanding
<1>1. ServerInv => OneOutstanding
  <2> SUFFICES ASSUME ServerInv, NEW c \in Clients
               PROVE  Len(to[c]) + Held(c) + Len(back[c]) <= 1
    BY DEF OneOutstanding
  <2>1. /\ Len(<<>>) = 0 /\ Len(<<Last(c)>>) = 1
        /\ Held(c) = IF Holding(c) THEN 1 ELSE 0
    BY DEF Held, Holding
  <2>2. CASE to[c] # <<>>
    <3>1. to[c] = <<Last(c)>> /\ back[c] = <<>> /\ ~ Holding(c)
      BY <2>2 DEF ServerInv, Flight
    <3> QED
      BY <2>1, <3>1
  <2>3. CASE to[c] = <<>> /\ back[c] # <<>>
    <3>1. back[c] = <<Last(c)>> /\ ~ Holding(c)
      BY <2>3 DEF ServerInv, Flight
    <3> QED
      BY <2>1, <2>3, <3>1
  <2>4. CASE to[c] = <<>> /\ back[c] = <<>>
    BY <2>1, <2>4
  <2> QED
    BY <2>2, <2>3, <2>4
<1> QED
  BY <1>1, ServerAlways, PTL

(* Nobody is served before a known card was held to the reader, unless the   *)
(* program found no reader when it asked for it.                             *)
THEOREM LockCorrect == Spec => []LockedUntilApproved
<1>1. ServerInv => LockedUntilApproved
  BY ServerAssumption DEF ServerInv, Types, TypeOK, Connections, Unlocked, LockedUntilApproved
<1> QED
  BY <1>1, ServerAlways, PTL
===============================================================================
