------------------------------ MODULE TcpBackend ------------------------------
(***************************************************************************)
(* The tag backend of RnD/stormtomten/tcp_backend: one thread that waits   *)
(* in select(), accepts, and answers each readable connection once and     *)
(* closes it.  Ctrl-C runs a handler that clears "run".                    *)
(*                                                                         *)
(* External: the kernel's sockets and the clients.  A client sends one     *)
(* query, which arrives whole, and may finish sending (a FIN) or abort (a  *)
(* RST) at any time.  The database is read-only: an answer is named by the *)
(* client whose query it was made from.                                    *)
(***************************************************************************)
EXTENDS Integers, Sequences, FiniteSets

CONSTANTS
  Clients,
  NumFds,    \* the descriptors left to the process for its connections
  None

ASSUME BackendAssumption ==
  NumFds \in Nat \ {0} /\ None \notin Clients

VARIABLES
  pc,
  run,               \* cleared by catch_ctrl_c
  read_fds, temp_fds, max_fd,
  fd,                \* the loop variable of the serving loop
  query,             \* whose query recv returned last
  owner,             \* the kernel's descriptor table
  backlog,           \* connections waiting for accept
  conn,              \* each client's connection, as the server has it
  peer,              \* what the client did with its end
  inbox,             \* the clients whose query arrived and is not yet read
  written,           \* the clients that sent their query
  got                \* the answers the client received

fds == <<read_fds, temp_fds, max_fd, fd>>
net == <<backlog, conn, peer, inbox, written, got>>
vars == <<pc, run, fds, query, owner, net>>

Listener == 0
Fds == 1 .. NumFds
Largest(S) == CHOOSE n \in S : \A m \in S : m <= n
Least(S) == CHOOSE n \in S : \A m \in S : n <= m

Init ==
  /\ pc = "while" /\ run = TRUE
  /\ read_fds = {Listener} /\ temp_fds = {} /\ max_fd = Listener
  /\ fd = 0 /\ query = None
  /\ owner = [f \in Fds |-> None]
  /\ backlog = <<>>
  /\ conn = [c \in Clients |-> "out"]
  /\ peer = [c \in Clients |-> "up"]
  /\ inbox = {} /\ written = {}
  /\ got = [c \in Clients |-> <<>>]

(***************************************************************************)
(* The loop of main().                                                     *)
(***************************************************************************)
While ==
  /\ pc = "while"
  /\ pc' = IF run THEN "call" ELSE "shutdown"
  /\ UNCHANGED <<run, fds, query, owner, net>>

\* The loop has tested "run" and now enters select().
Call ==
  /\ pc = "call" /\ pc' = "select"
  /\ UNCHANGED <<run, fds, query, owner, net>>

\* The descriptors select() reports: the listener with a connection to accept, a
\* connection with data, its end, or an error to read.
Ready ==
  {f \in read_fds : IF f = Listener THEN backlog # <<>>
                    ELSE owner[f] # None /\ (owner[f] \in inbox \/ peer[owner[f]] # "up")}

Select ==
  /\ pc = "select" /\ Ready # {}
  /\ pc' = "accept"
  /\ temp_fds' = Ready
  /\ UNCHANGED <<run, read_fds, max_fd, fd, query, owner, net>>

\* A slip: the result of accept() is used unchecked, FD_SET(-1, read_fds).
AcceptUnchecked ==
  /\ pc = "accept" /\ pc' = "serve"
  /\ fd' = 0
  /\ read_fds' = IF Listener \in temp_fds THEN read_fds \cup {-1} ELSE read_fds
  /\ UNCHANGED <<run, temp_fds, max_fd, query, owner, net>>

\* accept_new_client.  accept() takes the lowest free descriptor; with none free
\* it fails, and the loop goes on with the connection still waiting.
Accept ==
  /\ pc = "accept" /\ pc' = "serve"
  /\ fd' = 0
  /\ LET free == {f \in Fds : owner[f] = None} IN
     \/ /\ Listener \in temp_fds /\ free # {}
        /\ LET f == Least(free)
               c == Head(backlog)
           IN  /\ owner' = [owner EXCEPT ![f] = c]
               /\ conn' = [conn EXCEPT ![c] = "open"]
               /\ read_fds' = read_fds \cup {f}
               /\ max_fd' = Largest({max_fd, f})
        /\ backlog' = Tail(backlog)
     \/ /\ Listener \notin temp_fds \/ free = {}
        /\ UNCHANGED <<owner, conn, read_fds, max_fd, backlog>>
  /\ UNCHANGED <<run, temp_fds, query, peer, inbox, written, got>>

\* A slip: the loop looks at read_fds, not at what select() reported.
AllKnown == {f \in read_fds \ {Listener} : fd <= f /\ f <= max_fd}

\* A slip: the loop stops before max_fd.
StopShort == {f \in temp_fds \ {Listener} : fd <= f /\ f < max_fd}

\* The descriptors the serving loop has still to serve.
Pending == {f \in temp_fds \ {Listener} : fd <= f /\ f <= max_fd}

NextFd ==
  /\ pc = "serve"
  /\ IF Pending = {} THEN pc' = "while" /\ UNCHANGED fd
                     ELSE pc' = "recv" /\ fd' = Least(Pending)
  /\ UNCHANGED <<run, read_fds, temp_fds, max_fd, query, owner, net>>

\* A slip of the next step: the buffer of an earlier client is used again.
RecvStale ==
  /\ pc = "recv"
  /\ LET c == owner[fd] IN
     \/ /\ peer[c] = "rst" \/ (c \notin inbox /\ peer[c] = "fin")
        /\ pc' = "close"
        /\ UNCHANGED <<query, inbox>>
     \/ /\ peer[c] # "rst" /\ c \in inbox
        /\ pc' = "send"
        /\ query' = IF query = None THEN c ELSE query
        /\ inbox' = inbox \ {c}
  /\ UNCHANGED <<run, fds, owner, backlog, conn, peer, written, got>>

\* recv() in handle_client: what has arrived, or the end, or an error.  It blocks
\* when there is neither.
Recv ==
  /\ pc = "recv"
  /\ LET c == owner[fd] IN
     \/ /\ peer[c] = "rst" \/ (c \notin inbox /\ peer[c] = "fin")
        /\ pc' = "close"
        /\ UNCHANGED <<query, inbox>>
     \/ /\ peer[c] # "rst" /\ c \in inbox
        /\ pc' = "send"
        /\ query' = c
        /\ inbox' = inbox \ {c}
  /\ UNCHANGED <<run, fds, owner, backlog, conn, peer, written, got>>

\* process_client_query and send(), whose failure main() does not look at.  To a
\* client that aborted it fails, with an error or with SIGPIPE, which is not
\* ignored and ends the process.
Send ==
  /\ pc = "send"
  /\ LET c == owner[fd] IN
     \/ /\ peer[c] # "rst"
        /\ pc' = "close"
        /\ got' = [got EXCEPT ![c] = Append(@, query)]
     \/ /\ peer[c] = "rst"
        /\ pc' \in {"close", "killed"}
        /\ UNCHANGED got
  /\ UNCHANGED <<run, fds, query, owner, backlog, conn, peer, inbox, written>>

\* A slip: FD_CLR is forgotten.
ShutKeepsBit(f) ==
  /\ owner' = [owner EXCEPT ![f] = None]
  /\ conn' = [conn EXCEPT ![owner[f]] = "shut"]
  /\ UNCHANGED read_fds

\* The connection of descriptor f ends on the server's side.
Shut(f) ==
  /\ owner' = [owner EXCEPT ![f] = None]
  /\ conn' = [conn EXCEPT ![owner[f]] = "shut"]
  /\ read_fds' = read_fds \ {f}

Close ==
  /\ pc = "close" /\ pc' = "serve"
  /\ Shut(fd)
  /\ fd' = fd + 1
  /\ UNCHANGED <<run, temp_fds, max_fd, query, backlog, peer, inbox, written, got>>

\* After the loop: every connection still in read_fds is closed, then the listener.
Shutdown ==
  /\ pc = "shutdown"
  /\ LET open == {f \in read_fds \ {Listener} : f <= max_fd} IN
     \/ /\ open # {}
        /\ Shut(Least(open))
        /\ UNCHANGED <<pc, backlog>>
     \/ /\ open = {}
        /\ pc' = "down"
        /\ conn' = [c \in Clients |-> IF conn[c] = "queued" THEN "shut" ELSE conn[c]]
        /\ backlog' = <<>>
        /\ UNCHANGED <<owner, read_fds>>
  /\ UNCHANGED <<run, temp_fds, max_fd, fd, query, peer, inbox, written, got>>

Server == While \/ Call \/ Select \/ Accept \/ NextFd \/ Recv \/ Send \/ Close \/ Shutdown

\* SIGINT: the handler clears "run"; a process waiting in select() gets EINTR and
\* leaves the loop.
CtrlC ==
  /\ run /\ pc \notin {"down", "killed"}
  /\ run' = FALSE
  /\ pc' = IF pc = "select" THEN "shutdown" ELSE pc
  /\ UNCHANGED <<fds, query, owner, net>>

(***************************************************************************)
(* The clients.                                                            *)
(***************************************************************************)
Connect(c) ==
  /\ conn[c] = "out" /\ pc \notin {"down", "killed"}
  /\ conn' = [conn EXCEPT ![c] = "queued"]
  /\ backlog' = Append(backlog, c)
  /\ UNCHANGED <<pc, run, fds, query, owner, peer, inbox, written, got>>

\* The client's query reaches the server.
Write(c) ==
  /\ conn[c] \in {"queued", "open"} /\ peer[c] = "up" /\ c \notin written
  /\ written' = written \cup {c}
  /\ inbox' = inbox \cup {c}
  /\ UNCHANGED <<pc, run, fds, query, owner, backlog, conn, peer, got>>

Leave(c) ==
  /\ conn[c] \in {"queued", "open"} /\ peer[c] = "up"
  /\ \E how \in {"fin", "rst"} : peer' = [peer EXCEPT ![c] = how]
  /\ UNCHANGED <<pc, run, fds, query, owner, backlog, conn, inbox, written, got>>

Next == Server \/ CtrlC \/ \E c \in Clients : Connect(c) \/ Write(c) \/ Leave(c)

Spec == Init /\ [][Next]_vars

\* The server runs; nobody has to connect, write, leave or interrupt.
FairSpec == Spec /\ WF_vars(Server)

(***************************************************************************)
(* Properties.                                                             *)
(***************************************************************************)
Ended == pc \in {"down", "killed"}

TypeOK ==
  /\ pc \in {"while", "call", "select", "accept", "serve", "recv", "send", "close",
             "shutdown", "down", "killed"}
  /\ run \in BOOLEAN
  /\ read_fds \subseteq {Listener} \cup Fds /\ temp_fds \subseteq {Listener} \cup Fds
  /\ max_fd \in {Listener} \cup Fds /\ fd \in 0 .. NumFds + 1
  /\ query \in Clients \cup {None}
  /\ owner \in [Fds -> Clients \cup {None}]
  /\ backlog \in Seq(Clients)
  /\ conn \in [Clients -> {"out", "queued", "open", "shut"}]
  /\ peer \in [Clients -> {"up", "fin", "rst"}]
  /\ inbox \subseteq Clients /\ written \subseteq Clients
  /\ got \in [Clients -> Seq(Clients)]

\* The descriptor set is the descriptor table: what select() is given is exactly
\* the listener and the open connections, none beyond max_fd, each connection
\* with one descriptor, however descriptors are closed and reused within a pass.
DescriptorsKnown ==
  /\ read_fds = {Listener} \cup {f \in Fds : owner[f] # None}
  /\ \A f \in read_fds : f <= max_fd
  /\ \A c \in Clients :
       conn[c] = "open" <=> Cardinality({f \in Fds : owner[f] = c}) = 1

\* The one thread never blocks on one client: the connection it reads from is
\* open and has something to read.
NeverBlocks ==
  pc = "recv" => /\ owner[fd] # None
                 /\ owner[fd] \in inbox \/ peer[owner[fd]] # "up"

\* A client is answered once at most, and from its own query.
OneOwnAnswer ==
  \A c \in Clients : /\ Len(got[c]) <= 1
                     /\ \A i \in DOMAIN got[c] : got[c][i] = c

\* Every client that sent something is answered in the end, unless it left, the
\* server was told to stop or died, or idle clients hold every descriptor for good.
Answered ==
  \A c \in Clients :
    [](c \in written /\ conn[c] \in {"queued", "open"} =>
         <>(\/ got[c] # <<>> \/ peer[c] # "up" \/ ~run \/ Ended
            \/ [](\A f \in Fds : owner[f] # None)))

\* The README says "Ctrl-C will shut down the server gracefully".
GracefulShutdown == ~run ~> Ended
===============================================================================
