-------------------------- MODULE TcpBackend_proofs --------------------------
(***************************************************************************)
(* Proofs about TcpBackend, for every set of clients and every number of   *)
(* descriptors: the descriptor set stays true to the descriptor table, the *)
(* one thread never blocks on a client, and each client is answered once   *)
(* at most, from its own query.                                            *)
(***************************************************************************)
EXTENDS TcpBackend, FiniteSetTheorems, SequenceTheorems, WellFoundedInduction, TLAPS

(* The table of descriptors: read_fds is what it says, a connection has one *)
(* descriptor, and only open connections have one.                          *)
Table ==
  /\ read_fds = {Listener} \cup {f \in Fds : owner[f] # None}
  /\ \A f \in Fds : owner[f] # None => f <= max_fd
  /\ \A f, g \in Fds : owner[f] # None /\ owner[f] = owner[g] => f = g
  /\ \A c \in Clients : conn[c] = "open" <=> \E f \in Fds : owner[f] = c

(* A connection that waits for accept() waits once. *)
Waiting ==
  /\ \A i \in 1 .. Len(backlog) : conn[backlog[i]] = "queued"
  /\ \A i, j \in 1 .. Len(backlog) : backlog[i] = backlog[j] => i = j
  /\ pc = "accept" /\ Listener \in temp_fds => backlog # <<>>

Readable(f) == owner[f] # None /\ (owner[f] \in inbox \/ peer[owner[f]] # "up")

(* What select() reported stays true until the connection is served: a      *)
(* descriptor that was free cannot have been reported, and no other step    *)
(* reads what arrived or closes.                                            *)
StillReady ==
  \A f \in temp_fds \ {Listener} :
    /\ pc = "accept" => Readable(f)
    /\ pc \in {"serve", "recv"} /\ fd <= f => Readable(f)
    /\ pc \in {"send", "close"} /\ fd < f => Readable(f)

(* The connection being served, whose query the buffer holds. *)
Served ==
  /\ pc \in {"recv", "send", "close"} => fd \in Fds /\ fd \in temp_fds /\ owner[fd] # None
  /\ pc = "send" => query = owner[fd]

(* An answered client is closed next, or closed. *)
AnsweredOnce ==
  /\ OneOwnAnswer
  /\ \A c \in Clients : got[c] # <<>> => conn[c] = "shut" \/ (pc = "close" /\ owner[fd] = c)

BackendInv == TypeOK /\ Table /\ Waiting /\ StillReady /\ Served /\ AnsweredOnce

-----------------------------------------------------------------------------
Below == {p \in Nat \X Nat : p[1] < p[2]}

(* The least descriptor of a set is one of them: what accept() returns, and *)
(* the next that the serving loop takes.                                    *)
LEMMA LeastIn ==
  ASSUME NEW S, S \subseteq Nat, S # {}
  PROVE  Least(S) \in S /\ \A m \in S : Least(S) <= m
<1>1. IsWellFoundedOn(Below, Nat)
  BY NatLessThanWellFounded DEF OpToRel, Below
<1>2. PICK n \in S : \A m \in S : <<m, n>> \notin Below
  BY <1>1, WFMin
<1>3. ASSUME NEW m \in S PROVE n <= m
  <2>1. m \in Nat /\ n \in Nat /\ <<m, n>> \notin Below
    BY <1>2
  <2>2. ~ (m < n)
    BY <2>1 DEF Below
  <2> QED
    BY <2>1, <2>2
<1> QED
  BY <1>3 DEF Least

(* The new max_fd is the larger of the two. *)
LEMMA LargestOfTwo ==
  ASSUME NEW m \in Int, NEW n \in Int
  PROVE  /\ Largest({m, n}) \in {m, n}
         /\ m <= Largest({m, n}) /\ n <= Largest({m, n})
<1>1. \E k \in {m, n} : \A j \in {m, n} : j <= k
  OBVIOUS
<1> QED
  BY <1>1 DEF Largest

(* What the library calls on the backlog return. *)
LEMMA HeadTail ==
  ASSUME NEW S, NEW s \in Seq(S), s # <<>>
  PROVE  /\ Head(s) \in S /\ Head(s) = s[1] /\ Tail(s) \in Seq(S)
         /\ Len(s) \in Nat \ {0} /\ Len(Tail(s)) = Len(s) - 1
         /\ \A i \in 1 .. Len(Tail(s)) : Tail(s)[i] = s[i + 1] /\ i + 1 \in 1 .. Len(s)
OBVIOUS

-----------------------------------------------------------------------------
(* At the start only the listener is known and nobody has connected. *)
LEMMA BackendInit == Init => BackendInv
<1> SUFFICES ASSUME Init PROVE BackendInv
  OBVIOUS
<1> USE BackendAssumption DEF Init
<1>1. TypeOK
  BY DEF TypeOK, Listener, Fds
<1>2. Table /\ Waiting /\ StillReady /\ Served
  BY DEF Table, Waiting, StillReady, Served, Fds, Listener
<1>3. AnsweredOnce
  BY DEF AnsweredOnce, OneOwnAnswer
<1> QED
  BY <1>1, <1>2, <1>3 DEF BackendInv

(* The serving thread takes a connection from the backlog and gives it a    *)
(* free descriptor.                                                         *)
LEMMA AcceptStep == BackendInv /\ Accept => BackendInv'
<1> SUFFICES ASSUME BackendInv, Accept PROVE BackendInv'
  OBVIOUS
<1> USE BackendAssumption DEF BackendInv, Listener
<1> DEFINE free == {f \in Fds : owner[f] = None}
<1>1. /\ pc = "accept" /\ pc' = "serve" /\ fd' = 0
      /\ UNCHANGED <<run, temp_fds, query, peer, inbox, written, got>>
  BY DEF Accept
<1>2. CASE UNCHANGED <<owner, conn, read_fds, max_fd, backlog>>
  <2>1. TypeOK' /\ Table' /\ Served'
    BY <1>1, <1>2 DEF TypeOK, Table, Served, Fds
  <2>2. Waiting'
    BY <1>1, <1>2 DEF Waiting
  <2>3. StillReady'
    BY <1>1, <1>2 DEF StillReady, Readable, TypeOK, Fds
  <2>4. AnsweredOnce'
    BY <1>1, <1>2 DEF AnsweredOnce, OneOwnAnswer
  <2> QED
    BY <2>1, <2>2, <2>3, <2>4
<1>3. CASE Listener \in temp_fds /\ free # {} /\ ~ UNCHANGED <<owner, conn, read_fds, max_fd, backlog>>
  <2> DEFINE f == Least(free)
             c == Head(backlog)
  <2>1. /\ owner' = [owner EXCEPT ![f] = c]
        /\ conn' = [conn EXCEPT ![c] = "open"]
        /\ read_fds' = read_fds \cup {f}
        /\ max_fd' = Largest({max_fd, f})
        /\ backlog' = Tail(backlog)
    BY <1>3 DEF Accept
  <2>2. f \in Fds /\ owner[f] = None
    <3>1. free \subseteq Nat
      BY DEF Fds
    <3> QED
      BY <1>3, <3>1, LeastIn
  <2>3. /\ c \in Clients /\ conn[c] = "queued" /\ backlog # <<>>
        /\ \A i \in 1 .. Len(backlog') : backlog'[i] = backlog[i + 1] /\ i + 1 \in 1 .. Len(backlog)
        /\ \A i \in 1 .. Len(backlog') : backlog'[i] # c
        /\ Len(backlog') \in Nat /\ backlog' \in Seq(Clients)
    <3>1. backlog # <<>> /\ backlog \in Seq(Clients)
      BY <1>1, <1>3 DEF Waiting, TypeOK
    <3>2. /\ c \in Clients /\ c = backlog[1] /\ backlog' \in Seq(Clients)
          /\ Len(backlog) \in Nat \ {0} /\ Len(backlog') = Len(backlog) - 1
          /\ \A i \in 1 .. Len(backlog') : backlog'[i] = backlog[i + 1] /\ i + 1 \in 1 .. Len(backlog)
      BY <2>1, <3>1, HeadTail
    <3>3. conn[c] = "queued"
      BY <3>2 DEF Waiting
    <3>4. ASSUME NEW i \in 1 .. Len(backlog') PROVE backlog'[i] # c
      <4>1. 1 \in 1 .. Len(backlog) /\ i + 1 \in 1 .. Len(backlog) /\ i + 1 # 1
        BY <3>2
      <4> QED
        BY <3>2, <4>1 DEF Waiting
    <3> QED
      BY <3>1, <3>2, <3>3, <3>4
  <2>4. /\ max_fd \in Int /\ f \in Int
        /\ max_fd' \in {max_fd, f} /\ max_fd <= max_fd' /\ f <= max_fd'
    <3>1. max_fd \in Int /\ f \in Int
      BY <2>2 DEF TypeOK, Fds
    <3> QED
      BY <2>1, <3>1, LargestOfTwo
  <2> HIDE DEF f, c, free
  <2>5. TypeOK'
    BY <1>1, <2>1, <2>2, <2>3, <2>4 DEF TypeOK, Fds
  <2>6. /\ owner \in [Fds -> Clients \cup {None}] /\ conn \in [Clients -> {"out", "queued", "open", "shut"}]
    BY DEF TypeOK
  <2>7. Table'
    <3>1. read_fds' = {0} \cup {g \in Fds : owner'[g] # None}
      BY <2>1, <2>2, <2>3, <2>6 DEF Table
    <3>2. \A g \in Fds : owner'[g] # None => g <= max_fd'
      BY <2>1, <2>2, <2>3, <2>4, <2>6 DEF Table, Fds
    <3>3. \A g \in Fds : owner[g] # c
      BY <2>3 DEF Table
    <3>4. \A g, h \in Fds : owner'[g] # None /\ owner'[g] = owner'[h] => g = h
      BY <2>1, <2>2, <2>3, <2>6, <3>3 DEF Table
    <3>5. ASSUME NEW d \in Clients PROVE conn'[d] = "open" <=> \E g \in Fds : owner'[g] = d
      BY <2>1, <2>2, <2>3, <2>6, <3>3 DEF Table
    <3> QED
      BY <3>1, <3>2, <3>4, <3>5 DEF Table
  <2>8. Waiting'
    <3>1. \A i \in 1 .. Len(backlog') : conn'[backlog'[i]] = "queued"
      BY <2>1, <2>3, <2>6 DEF Waiting
    <3>2. ASSUME NEW i \in 1 .. Len(backlog'), NEW j \in 1 .. Len(backlog'), backlog'[i] = backlog'[j]
          PROVE  i = j
      <4>1. i + 1 = j + 1
        BY <2>3, <3>2 DEF Waiting
      <4> QED
        BY <4>1
    <3> QED
      BY <1>1, <3>1, <3>2 DEF Waiting
  <2>9. StillReady'
    <3>1. \A g \in temp_fds \ {0} : Readable(g) /\ g # f
      BY <1>1, <2>2 DEF StillReady, Readable
    <3> QED
      BY <1>1, <2>1, <2>6, <3>1 DEF StillReady, Readable, TypeOK
  <2>10. Served' /\ AnsweredOnce'
    BY <1>1, <2>1, <2>3, <2>6 DEF Served, AnsweredOnce, OneOwnAnswer
  <2> QED
    BY <2>5, <2>7, <2>8, <2>9, <2>10
<1> QED
  BY <1>2, <1>3 DEF Accept

(* The connection of a descriptor in use is closed. *)
LEMMA ShutTable ==
  ASSUME BackendInv, NEW f \in Fds, owner[f] # None, Shut(f), max_fd' = max_fd
  PROVE  /\ Table'
         /\ owner' \in [Fds -> Clients \cup {None}]
         /\ conn' \in [Clients -> {"out", "queued", "open", "shut"}]
         /\ read_fds' \subseteq {Listener} \cup Fds
         /\ \A g \in Fds \ {f} : owner'[g] = owner[g]
         /\ \A c \in Clients : conn'[c] = IF c = owner[f] THEN "shut" ELSE conn[c]
         /\ owner[f] \in Clients /\ conn[owner[f]] = "open"
<1> USE BackendAssumption DEF BackendInv, Listener
<1> DEFINE c == owner[f]
<1>1. /\ owner \in [Fds -> Clients \cup {None}] /\ conn \in [Clients -> {"out", "queued", "open", "shut"}]
      /\ c \in Clients
  BY DEF TypeOK
<1>2. /\ owner' = [owner EXCEPT ![f] = None]
      /\ conn' = [conn EXCEPT ![c] = "shut"]
      /\ read_fds' = read_fds \ {f}
  BY DEF Shut
<1>3. conn[c] = "open" /\ \A g \in Fds : owner[g] = c => g = f
  BY <1>1 DEF Table
<1>4. Table'
  <2>1. read_fds' = {0} \cup {g \in Fds : owner'[g] # None}
    BY <1>1, <1>2 DEF Table, Fds
  <2>2. \A g \in Fds : owner'[g] # None => g <= max_fd'
    BY <1>1, <1>2 DEF Table
  <2>3. \A g, h \in Fds : owner'[g] # None /\ owner'[g] = owner'[h] => g = h
    BY <1>1, <1>2 DEF Table
  <2>4. \A d \in Clients : conn'[d] = "open" <=> \E g \in Fds : owner'[g] = d
    BY <1>1, <1>2, <1>3 DEF Table
  <2> QED
    BY <2>1, <2>2, <2>3, <2>4 DEF Table
<1> QED
  BY <1>1, <1>2, <1>3, <1>4 DEF TypeOK

(* Closing keeps the backlog, and what is said of it, when the closed       *)
(* connection was open.                                                     *)
LEMMA ShutRest ==
  ASSUME BackendInv, NEW c \in Clients, conn[c] = "open",
         \A d \in Clients : conn'[d] = IF d = c THEN "shut" ELSE conn[d],
         pc' # "accept", backlog' = backlog
  PROVE  Waiting'
<1> USE DEF BackendInv
<1>1. \A i \in 1 .. Len(backlog) : backlog[i] \in Clients
  BY DEF TypeOK
<1>2. \A i \in 1 .. Len(backlog) : backlog[i] # c
  BY DEF Waiting
<1> QED
  BY <1>1, <1>2 DEF Waiting

(* handle_client ends: the descriptor is closed and cleared, and the loop   *)
(* goes on behind it.                                                       *)
LEMMA CloseStep == BackendInv /\ Close => BackendInv'
<1> SUFFICES ASSUME BackendInv, Close PROVE BackendInv'
  OBVIOUS
<1> USE BackendAssumption DEF BackendInv, Listener
<1>1. /\ pc = "close" /\ pc' = "serve" /\ Shut(fd) /\ fd' = fd + 1
      /\ UNCHANGED <<run, temp_fds, max_fd, query, backlog, peer, inbox, written, got>>
  BY DEF Close
<1>2. fd \in Fds /\ owner[fd] # None
  BY <1>1 DEF Served
<1>3. /\ Table'
      /\ owner' \in [Fds -> Clients \cup {None}]
      /\ conn' \in [Clients -> {"out", "queued", "open", "shut"}]
      /\ read_fds' \subseteq {0} \cup Fds
      /\ \A g \in Fds \ {fd} : owner'[g] = owner[g]
      /\ \A c \in Clients : conn'[c] = IF c = owner[fd] THEN "shut" ELSE conn[c]
      /\ owner[fd] \in Clients /\ conn[owner[fd]] = "open"
  BY <1>1, <1>2, ShutTable
<1>4. TypeOK'
  BY <1>1, <1>2, <1>3 DEF TypeOK, Fds
<1>5. Waiting'
  BY <1>1, <1>3, ShutRest
<1>6. StillReady'
  <2> SUFFICES ASSUME NEW f \in temp_fds \ {0}, fd + 1 <= f PROVE Readable(f)'
    BY <1>1 DEF StillReady
  <2>1. f \in Fds /\ fd \in Int /\ f \in Int
    BY <1>2 DEF TypeOK, Fds
  <2>2. fd < f
    BY <2>1
  <2>3. Readable(f) /\ owner'[f] = owner[f]
    BY <1>1, <1>3, <2>1, <2>2 DEF StillReady
  <2> QED
    BY <1>1, <2>3 DEF Readable
<1>7. Served' /\ AnsweredOnce'
  BY <1>1, <1>3 DEF Served, AnsweredOnce, OneOwnAnswer
<1> QED
  BY <1>3, <1>4, <1>5, <1>6, <1>7

(* After the loop every connection is closed, then the listener. *)
LEMMA ShutdownStep == BackendInv /\ Shutdown => BackendInv'
<1> SUFFICES ASSUME BackendInv, Shutdown PROVE BackendInv'
  OBVIOUS
<1> USE BackendAssumption DEF BackendInv, Listener
<1> DEFINE open == {f \in read_fds \ {Listener} : f <= max_fd}
<1>1. /\ pc = "shutdown"
      /\ UNCHANGED <<run, temp_fds, max_fd, fd, query, peer, inbox, written, got>>
  BY DEF Shutdown
<1>2. ASSUME open # {}, Shut(Least(open)), UNCHANGED <<pc, backlog>> PROVE BackendInv'
  <2> DEFINE f == Least(open)
  <2>1. f \in Fds /\ owner[f] # None
    <3>1. open \subseteq Fds
      BY DEF TypeOK
    <3>2. open \subseteq Nat
      BY <3>1 DEF Fds
    <3>3. f \in open
      BY <1>2, <3>2, LeastIn
    <3> QED
      BY <3>1, <3>3 DEF Table
  <2>2. Shut(f)
    BY <1>2
  <2> HIDE DEF f, open
  <2>3. /\ Table'
        /\ owner' \in [Fds -> Clients \cup {None}]
        /\ conn' \in [Clients -> {"out", "queued", "open", "shut"}]
        /\ read_fds' \subseteq {0} \cup Fds
        /\ \A c \in Clients : conn'[c] = IF c = owner[f] THEN "shut" ELSE conn[c]
        /\ owner[f] \in Clients /\ conn[owner[f]] = "open"
    BY <1>1, <2>1, <2>2, ShutTable
  <2>4. TypeOK'
    BY <1>1, <1>2, <2>3 DEF TypeOK
  <2>5. Waiting'
    BY <1>1, <1>2, <2>3, ShutRest
  <2>6. StillReady' /\ Served' /\ AnsweredOnce'
    BY <1>1, <1>2, <2>3 DEF StillReady, Served, AnsweredOnce, OneOwnAnswer
  <2> QED
    BY <2>3, <2>4, <2>5, <2>6
<1>3. ASSUME /\ pc' = "down"
             /\ conn' = [c \in Clients |-> IF conn[c] = "queued" THEN "shut" ELSE conn[c]]
             /\ backlog' = <<>>
             /\ UNCHANGED <<owner, read_fds>>
      PROVE  BackendInv'
  <2>1. TypeOK'
    BY <1>1, <1>3 DEF TypeOK
  <2>2. Table'
    BY <1>1, <1>3 DEF Table, TypeOK
  <2>3. Waiting'
    BY <1>3 DEF Waiting
  <2>4. StillReady' /\ Served'
    BY <1>1, <1>3 DEF StillReady, Served
  <2>5. AnsweredOnce'
    BY <1>1, <1>3 DEF AnsweredOnce, OneOwnAnswer, TypeOK
  <2> QED
    BY <2>1, <2>2, <2>3, <2>4, <2>5
<1> QED
  BY <1>2, <1>3 DEF Shutdown

(* The next descriptor that was reported. *)
LEMMA NextFdStep == BackendInv /\ NextFd => BackendInv'
<1> SUFFICES ASSUME BackendInv, NextFd PROVE BackendInv'
  OBVIOUS
<1> USE BackendAssumption DEF BackendInv, Listener
<1>1. /\ pc = "serve"
      /\ UNCHANGED <<run, read_fds, temp_fds, max_fd, query, owner, net>>
  BY DEF NextFd
<1>2. CASE pc' = "while" /\ UNCHANGED fd
  BY <1>1, <1>2 DEF TypeOK, Table, Waiting, StillReady, Served, AnsweredOnce, OneOwnAnswer, net
<1>3. CASE Pending # {} /\ pc' = "recv" /\ fd' = Least(Pending)
  <2>1. /\ fd' \in Fds /\ fd' \in temp_fds /\ fd <= fd'
    <3>1. Pending \subseteq Fds
      BY DEF Pending, TypeOK
    <3>2. Pending \subseteq Nat
      BY <3>1 DEF Fds
    <3>3. fd' \in Pending
      BY <1>3, <3>2, LeastIn
    <3> QED
      BY <3>1, <3>3 DEF Pending
  <2>2. Readable(fd')
    BY <1>1, <2>1 DEF StillReady, Fds
  <2>3. TypeOK'
    BY <1>1, <1>3, <2>1 DEF TypeOK, Fds, net
  <2>4. Table' /\ Waiting'
    BY <1>1, <1>3 DEF Table, Waiting, net
  <2>5. StillReady'
    <3> SUFFICES ASSUME NEW f \in temp_fds \ {0}, fd' <= f PROVE Readable(f)'
      BY <1>1, <1>3 DEF StillReady
    <3>1. fd <= f
      BY <2>1 DEF TypeOK, Fds
    <3> QED
      BY <1>1, <3>1 DEF StillReady, Readable, net
  <2>6. Served' /\ AnsweredOnce'
    BY <1>1, <1>3, <2>1, <2>2 DEF Served, AnsweredOnce, OneOwnAnswer, Readable, net
  <2> QED
    BY <2>3, <2>4, <2>5, <2>6
<1> QED
  BY <1>2, <1>3 DEF NextFd

(* recv() and send(): only the connection being served is read, so what was *)
(* reported of the others stays true.                                       *)
LEMMA ServeStep == BackendInv /\ (Recv \/ Send) => BackendInv'
<1> SUFFICES ASSUME BackendInv, Recv \/ Send PROVE BackendInv'
  OBVIOUS
<1> USE BackendAssumption DEF BackendInv, Listener
<1> DEFINE c == owner[fd]
<1>1. /\ pc \in {"recv", "send"} /\ fd \in Fds /\ fd \in temp_fds /\ c # None
      /\ UNCHANGED <<run, read_fds, temp_fds, max_fd, fd, owner, backlog, conn, peer, written>>
  BY DEF Recv, Send, Served, fds
<1>2. /\ c \in Clients /\ conn[c] = "open"
      /\ \A f \in Fds : owner[f] = c => f = fd
  BY <1>1 DEF TypeOK, Table
<1> HIDE DEF c
<1>3. ASSUME Recv PROVE BackendInv'
  <2>1. /\ pc = "recv" /\ pc' \in {"send", "close"} /\ got' = got
        /\ inbox \ {c} \subseteq inbox' /\ inbox' \subseteq inbox
        /\ query' \in {query, c}
        /\ pc' = "send" => query' = c
    BY <1>3 DEF Recv, c
  <2>2. TypeOK'
    <3>1. inbox' \subseteq Clients /\ query' \in Clients \cup {None}
      BY <1>2, <2>1 DEF TypeOK
    <3> QED
      BY <1>1, <2>1, <3>1 DEF TypeOK
  <2>3. Table' /\ Waiting'
    BY <1>1, <2>1 DEF Table, Waiting
  <2>4. StillReady'
    <3> SUFFICES ASSUME NEW f \in temp_fds \ {0}, fd < f PROVE Readable(f)'
      BY <1>1, <2>1 DEF StillReady
    <3>1. f \in Fds /\ fd <= f /\ f # fd
      BY <1>1 DEF TypeOK, Fds
    <3>2. Readable(f) /\ owner[f] # c
      BY <1>2, <2>1, <3>1 DEF StillReady
    <3> QED
      BY <1>1, <2>1, <3>2 DEF Readable
  <2>5. Served' /\ AnsweredOnce'
    BY <1>1, <2>1 DEF Served, AnsweredOnce, OneOwnAnswer, c
  <2> QED
    BY <2>2, <2>3, <2>4, <2>5
<1>4. ASSUME Send PROVE BackendInv'
  <2>1. /\ pc = "send" /\ query = c /\ UNCHANGED <<query, inbox>>
        /\ \/ pc' = "close" /\ got' = [got EXCEPT ![c] = Append(@, query)]
           \/ pc' \in {"close", "killed"} /\ got' = got
    BY <1>4 DEF Send, Served, c
  <2>2. got[c] = <<>> /\ got \in [Clients -> Seq(Clients)]
    BY <1>2, <2>1 DEF AnsweredOnce, TypeOK
  <2>3. \/ pc' = "close" /\ got' = [got EXCEPT ![c] = <<c>>]
        \/ pc' \in {"close", "killed"} /\ got' = got
    BY <1>2, <2>1, <2>2
  <2>4. TypeOK'
    <3>1. <<c>> \in Seq(Clients)
      BY <1>2
    <3>2. got' \in [Clients -> Seq(Clients)]
      BY <2>2, <2>3, <3>1
    <3> QED
      BY <1>1, <2>1, <2>3, <3>2 DEF TypeOK
  <2>5. Table' /\ Waiting'
    BY <1>1, <2>3 DEF Table, Waiting
  <2>6. StillReady'
    BY <1>1, <2>1, <2>3 DEF StillReady, Readable
  <2>7. Served'
    BY <1>1, <2>1, <2>3 DEF Served
  <2>8. AnsweredOnce'
    <3>1. CASE pc' = "close" /\ got' = [got EXCEPT ![c] = <<c>>]
      <4>1. /\ got'[c] = <<c>>
            /\ \A d \in Clients \ {c} : got'[d] = got[d]
        BY <1>2, <2>2, <3>1
      <4>2. /\ Len(<<c>>) <= 1 /\ \A i \in DOMAIN <<c>> : <<c>>[i] = c
        OBVIOUS
      <4>3. OneOwnAnswer'
        BY <4>1, <4>2 DEF AnsweredOnce, OneOwnAnswer
      <4>4. \A d \in Clients : got'[d] # <<>> => conn'[d] = "shut" \/ (pc' = "close" /\ owner'[fd'] = d)
        BY <1>1, <2>1, <3>1, <4>1 DEF AnsweredOnce, c
      <4> QED
        BY <4>3, <4>4 DEF AnsweredOnce
    <3>2. CASE got' = got
      <4>1. \A d \in Clients : got[d] # <<>> => conn[d] = "shut"
        BY <2>1 DEF AnsweredOnce
      <4> QED
        BY <1>1, <3>2, <4>1 DEF AnsweredOnce, OneOwnAnswer
    <3> QED
      BY <2>3, <3>1, <3>2
  <2> QED
    BY <2>4, <2>5, <2>6, <2>7, <2>8
<1> QED
  BY <1>3, <1>4

(* A client joins the backlog, behind the others. *)
LEMMA ConnectStep == ASSUME BackendInv, NEW c \in Clients, Connect(c) PROVE BackendInv'
<1> USE BackendAssumption DEF BackendInv, Listener
<1>1. /\ conn[c] = "out" /\ conn' = [conn EXCEPT ![c] = "queued"]
      /\ backlog' = Append(backlog, c)
      /\ UNCHANGED <<pc, run, fds, query, owner, peer, inbox, written, got>>
  BY DEF Connect
<1>2. conn \in [Clients -> {"out", "queued", "open", "shut"}] /\ backlog \in Seq(Clients)
  BY DEF TypeOK
<1>3. /\ Len(backlog) \in Nat /\ Len(backlog') = Len(backlog) + 1 /\ backlog' \in Seq(Clients)
      /\ \A i \in 1 .. Len(backlog) : backlog'[i] = backlog[i] /\ backlog[i] \in Clients
      /\ backlog'[Len(backlog) + 1] = c
  BY <1>1, <1>2
<1>4. \A i \in 1 .. Len(backlog') : i \in 1 .. Len(backlog) \/ i = Len(backlog) + 1
  BY <1>3
<1>5. TypeOK'
  BY <1>1, <1>3 DEF TypeOK, fds
<1>6. Table' /\ StillReady' /\ Served'
  BY <1>1, <1>2 DEF Table, StillReady, Readable, Served, fds
<1>7. Waiting'
  <2>1. \A i \in 1 .. Len(backlog) : backlog[i] # c /\ conn'[backlog[i]] = "queued"
    BY <1>1, <1>2, <1>3 DEF Waiting
  <2>2. \A i \in 1 .. Len(backlog') : conn'[backlog'[i]] = "queued"
    BY <1>1, <1>2, <1>3, <1>4, <2>1
  <2>3. ASSUME NEW i \in 1 .. Len(backlog'), NEW j \in 1 .. Len(backlog'), backlog'[i] = backlog'[j]
        PROVE  i = j
    <3>1. i \in 1 .. Len(backlog) <=> j \in 1 .. Len(backlog)
      BY <1>3, <1>4, <2>1, <2>3
    <3>2. CASE i \in 1 .. Len(backlog)
      BY <1>3, <2>3, <3>1, <3>2 DEF Waiting
    <3> QED
      BY <1>4, <3>1, <3>2
  <2>4. backlog' # <<>>
    BY <1>3
  <2> QED
    BY <2>2, <2>3, <2>4 DEF Waiting
<1>8. AnsweredOnce'
  BY <1>1, <1>2 DEF AnsweredOnce, OneOwnAnswer, fds
<1> QED
  BY <1>5, <1>6, <1>7, <1>8

(* Each step keeps the invariant. *)
LEMMA BackendStep == BackendInv /\ [Next]_vars => BackendInv'
<1> SUFFICES ASSUME BackendInv, [Next]_vars PROVE BackendInv'
  OBVIOUS
<1> USE DEF BackendInv
<1>1. ASSUME While \/ Call PROVE BackendInv'
  <2>1. /\ pc' \notin {"accept", "serve", "recv", "send", "close"} /\ pc # "close"
        /\ pc' \in {"call", "shutdown", "select"}
        /\ UNCHANGED <<run, fds, query, owner, net>>
    BY <1>1 DEF While, Call
  <2>2. TypeOK' /\ Table' /\ Waiting'
    BY <2>1 DEF TypeOK, Table, Waiting, fds, net
  <2>3. StillReady' /\ Served' /\ AnsweredOnce'
    BY <2>1 DEF StillReady, Served, AnsweredOnce, OneOwnAnswer, fds, net
  <2> QED
    BY <2>2, <2>3
<1>2. ASSUME Select PROVE BackendInv'
  <2>1. /\ pc = "select" /\ pc' = "accept" /\ temp_fds' = Ready
        /\ UNCHANGED <<run, read_fds, max_fd, fd, query, owner, net>>
    BY <1>2 DEF Select
  <2>2. TypeOK'
    BY <2>1 DEF TypeOK, net, Ready
  <2>3. Table' /\ Served' /\ AnsweredOnce'
    BY <2>1 DEF Table, Served, AnsweredOnce, OneOwnAnswer, net
  <2>4. Waiting'
    BY <2>1 DEF Waiting, Ready, net
  <2>5. StillReady'
    BY <2>1 DEF StillReady, Readable, Ready, net
  <2> QED
    BY <2>2, <2>3, <2>4, <2>5
<1>3. ASSUME CtrlC PROVE BackendInv'
  <2>1. /\ pc' = pc \/ (pc = "select" /\ pc' = "shutdown")
        /\ run' = FALSE
        /\ UNCHANGED <<fds, query, owner, net>>
    BY <1>3 DEF CtrlC
  <2>2. TypeOK' /\ Table' /\ Waiting'
    <3>1. TypeOK'
      BY <2>1 DEF TypeOK, fds, net
    <3>2. Table'
      BY <2>1 DEF Table, fds, net
    <3>3. Waiting'
      BY <2>1 DEF Waiting, fds, net
    <3> QED
      BY <3>1, <3>2, <3>3
  <2>3. StillReady'
    <3>1. \A f \in temp_fds : Readable(f)' <=> Readable(f)
      BY <2>1 DEF Readable, net
    <3>2. temp_fds' = temp_fds /\ fd' = fd
      BY <2>1 DEF fds
    <3> QED
      BY <2>1, <3>1, <3>2 DEF StillReady
  <2>4. Served' /\ AnsweredOnce'
    BY <2>1 DEF Served, AnsweredOnce, OneOwnAnswer, fds, net
  <2> QED
    BY <2>2, <2>3, <2>4
<1>4. ASSUME NEW c \in Clients, Write(c) \/ Leave(c) PROVE BackendInv'
  <2>1. /\ inbox \subseteq inbox' /\ inbox' \subseteq inbox \cup {c}
        /\ written' \subseteq written \cup {c}
        /\ \E how \in {"up", "fin", "rst"} :
             peer' = peer \/ (how # "up" /\ peer' = [peer EXCEPT ![c] = how])
        /\ UNCHANGED <<pc, run, fds, query, owner, backlog, conn, got>>
    BY <1>4 DEF Write, Leave
  <2>2. /\ peer' \in [Clients -> {"up", "fin", "rst"}]
        /\ \A d \in Clients : peer[d] # "up" => peer'[d] # "up"
    BY <2>1 DEF TypeOK
  <2>3. TypeOK'
    BY <2>1, <2>2 DEF TypeOK, fds
  <2>4. Table' /\ Waiting' /\ Served' /\ AnsweredOnce'
    BY <2>1 DEF Table, Waiting, Served, AnsweredOnce, OneOwnAnswer, fds
  <2>5. StillReady'
    <3>1. \A f \in temp_fds \ {0} : f \in Fds /\ owner[f] \in Clients \cup {None}
      BY DEF TypeOK, Listener
    <3> QED
      BY <2>1, <2>2, <3>1 DEF StillReady, Readable, Listener, fds
  <2> QED
    BY <2>3, <2>4, <2>5
<1>5. ASSUME UNCHANGED vars PROVE BackendInv'
  BY <1>5 DEF TypeOK, Table, Waiting, StillReady, Readable, Served, AnsweredOnce, OneOwnAnswer, vars, fds, net
<1> QED
  BY <1>1, <1>2, <1>3, <1>4, <1>5, AcceptStep, NextFdStep, ServeStep, CloseStep, ShutdownStep, ConnectStep
  DEF Next, Server

LEMMA BackendAlways == Spec => []BackendInv
BY BackendInit, BackendStep, PTL DEF Spec
-----------------------------------------------------------------------------
(* Every variable keeps its type; the loop variable stays within the        *)
(* descriptors although the set it runs over was taken before accept().     *)
THEOREM TypeCorrect == Spec => []TypeOK
<1>1. BackendInv => TypeOK
  BY DEF BackendInv
<1> QED
  BY <1>1, BackendAlways, PTL

(* What select() is given is the listener and the open connections, none    *)
(* beyond max_fd, and each open connection has one descriptor, however      *)
(* descriptors are closed and given out again.                              *)
THEOREM DescriptorsCorrect == Spec => []DescriptorsKnown
<1>1. BackendInv => DescriptorsKnown
  <2> SUFFICES ASSUME BackendInv PROVE DescriptorsKnown
    OBVIOUS
  <2> USE BackendAssumption DEF BackendInv, Table, Listener
  <2>1. \A f \in read_fds : f <= max_fd
    BY DEF TypeOK, Fds
  <2>2. ASSUME NEW c \in Clients
        PROVE  conn[c] = "open" <=> Cardinality({f \in Fds : owner[f] = c}) = 1
    <3> DEFINE mine == {f \in Fds : owner[f] = c}
    <3>1. CASE mine = {}
      BY <3>1, FS_EmptySet
    <3>2. ASSUME NEW f \in mine PROVE conn[c] = "open" /\ Cardinality(mine) = 1
      <4>1. mine = {f}
        BY <3>2
      <4> QED
        BY <3>2, <4>1, FS_Singleton
    <3> QED
      BY <3>1, <3>2
  <2> QED
    BY <2>1, <2>2 DEF DescriptorsKnown
<1> QED
  BY <1>1, BackendAlways, PTL

(* The connection that recv() is called on is open and has something to     *)
(* read: the one thread never blocks on a client.                           *)
THEOREM NeverBlocksCorrect == Spec => []NeverBlocks
<1>1. BackendInv => NeverBlocks
  BY DEF BackendInv, TypeOK, StillReady, Served, Readable, NeverBlocks, Fds, Listener
<1> QED
  BY <1>1, BackendAlways, PTL

(* A client gets one answer at most, and it is made from its own query.     *)
THEOREM AnswerCorrect == Spec => []OneOwnAnswer
<1>1. BackendInv => OneOwnAnswer
  BY DEF BackendInv, AnsweredOnce
<1> QED
  BY <1>1, BackendAlways, PTL
===============================================================================
