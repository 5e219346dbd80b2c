---------------------------- MODULE HttpSessions ----------------------------
(***************************************************************************)
(* Requests and sessions of the HTTP server (RnD/Rackhamn/http/src/http.c):*)
(* what a worker does with the request it has read.  The login table is an *)
(* open-addressing hash table guarded by login_mutex, yet the pointer that *)
(* get_user_entry_ptr takes out of it (request.user) is read after the     *)
(* unlock, while other workers log users in and out.  Each worker parses   *)
(* JSON into an arena of its own that only a login clears; once it is full *)
(* a request for the user's name makes the server follow a NULL pointer,   *)
(* and the watchdog may start it again, with an empty table.               *)
(*                                                                         *)
(* A step is what a worker does between two reads or writes that another   *)
(* worker can interfere with.  A session token is SHA-256 of the username, *)
(* so the token, its djb2 hash and the username are one value here.        *)
(***************************************************************************)
EXTENDS Integers, Sequences, FiniteSets

CONSTANTS users,      (* the known usernames, in the order of users[]            *)
          Stranger,   (* a username that is not known                            *)
          Capacity,   (* login_ht.capacity                                       *)
          Home,       (* Home[u]: hash of u's token % Capacity                   *)
          Workers, Browsers,
          ArenaSize,  (* the size of a worker's JSON arena, in units             *)
          Cost,       (* the units that a document, or the built answer, takes   *)
          None,       (* no user, no token; the empty string                     *)
          Garbled     (* a name copied while it was being written                *)

Users == {users[i] : i \in 1 .. Len(users)}
Slots == 0 .. Capacity - 1
NoSlot == -1

ASSUME SessionAssumption ==
  /\ users \in Seq(Users)
  /\ Stranger \notin Users /\ None \notin Users /\ Garbled \notin Users
  /\ None # Garbled /\ None \notin Workers
  /\ Capacity \in Nat \ {0}
  /\ Home \in [Users -> Slots]
  /\ ArenaSize \in Nat
  /\ Cost \in [{"login", "user", "tags", "name"} -> 1 .. ArenaSize]

(* init_login_ht makes the table four times as large as the planned number of *)
(* users.                                                                     *)
ASSUME TableFits == Cardinality(Users) <= Capacity

VARIABLES
  hash,         (* login_ht.entry[i].hash; None stands for 0                     *)
  name,         (* login_ht.entry[i].user.username                               *)
  login_mutex,  (* its owner, or None                                            *)
  pc,           (* where each worker is                                          *)
  req,          (* the request it serves                                         *)
  user,         (* request.user: the slot pointed into, or NoSlot for NULL       *)
  seen,         (* what it has read through that pointer                         *)
  at,           (* the entry of users[] that /tags compares next                 *)
  arena,        (* thread_json_arena.offset                                      *)
  out,          (* the response it is about to send                              *)
  cookie,       (* the sessionID cookie each browser holds                       *)
  up            (* the server process runs                                       *)

table == <<hash, name, login_mutex>>
local == <<pc, req, user, seen, at, arena, out>>
vars == <<hash, name, login_mutex, pc, req, user, seen, at, arena, out, cookie, up>>

NoRequest == [kind |-> "none", from |-> None, token |-> None, login |-> None]
Response(status, about) == [status |-> status, about |-> about]
NoResponse == Response("none", None)

Fresh ==
  [hash |-> [i \in Slots |-> None], name |-> [i \in Slots |-> None],
   pc |-> [w \in Workers |-> "idle"], req |-> [w \in Workers |-> NoRequest],
   user |-> [w \in Workers |-> NoSlot], seen |-> [w \in Workers |-> None],
   at |-> [w \in Workers |-> 1], arena |-> [w \in Workers |-> 0],
   out |-> [w \in Workers |-> NoResponse]]

Init ==
  /\ hash = Fresh.hash /\ name = Fresh.name /\ login_mutex = None
  /\ pc = Fresh.pc /\ req = Fresh.req /\ user = Fresh.user /\ seen = Fresh.seen
  /\ at = Fresh.at /\ arena = Fresh.arena /\ out = Fresh.out
  /\ cookie = [b \in Browsers |-> None]
  /\ up = TRUE
-----------------------------------------------------------------------------
(* The hash table.  A search starts at the token's home slot, runs to the end *)
(* of the table and then from slot 0 to the home slot.                        *)

Probe(u, k) == (Home[u] + k) % Capacity

FirstProbe(u, wanted) ==
  LET hits == {k \in Slots : hash[Probe(u, k)] \in wanted}
  IN IF hits = {} THEN NoSlot
     ELSE Probe(u, CHOOSE k \in hits : \A j \in hits : k <= j)

(* A search that gives up at the first empty slot. *)
FindToHole(u) ==
  LET i == FirstProbe(u, {u, None}) IN IF i # NoSlot /\ hash[i] = u THEN i ELSE NoSlot

(* login_ht_get_hash_index: the whole table is searched, holes included. *)
Find(u) == FirstProbe(u, {u})

(* An insertion that takes the first slot it can, from the start of the table. *)
InsertAnywhere(u) ==
  LET free == {i \in Slots : hash[i] \in {u, None}}
  IN IF free = {} THEN NoSlot ELSE CHOOSE i \in free : \A j \in free : i <= j

(* login_ht_insert_hash *)
Insert(u) == FirstProbe(u, {u, None})

(* handle_login without its search: only an insertion. *)
PlaceBlindly(u) == Insert(u)

(* handle_login: the slot that already holds the token, else a new one. *)
PlaceFor(u) == IF Find(u) # NoSlot THEN Find(u) ELSE Insert(u)
-----------------------------------------------------------------------------
Goto(w, label) == pc' = [pc EXCEPT ![w] = label]

Respond(w, status, about) ==
  /\ out' = [out EXCEPT ![w] = Response(status, about)]
  /\ Goto(w, "reply")

(* handle_request and handle_api_request, once the token has been looked up: *)
(* login needs no session, everything else redirects to login.html without.  *)
Route(w, kind, loggedIn) ==
  IF kind = "login" \/ (loggedIn /\ kind # "page")
    THEN Goto(w, kind) /\ UNCHANGED out
    ELSE Respond(w, IF loggedIn THEN "file" ELSE "redirect", None)

(* A worker has read browser b's request; mt_parse_http_request takes the     *)
(* token from its cookie.  `login` is the username of a login request.        *)
Receive(w, b, kind, login) ==
  /\ up /\ pc[w] = "idle"
  /\ (kind = "login") = (login # None)
  /\ req' = [req EXCEPT ![w] = [kind |-> kind, from |-> b,
                                token |-> cookie[b], login |-> login]]
  /\ IF cookie[b] = None THEN Route(w, kind, FALSE)
     ELSE Goto(w, "lookup") /\ UNCHANGED out
  /\ UNCHANGED <<table, user, seen, at, arena, cookie, up>>

(* get_user_entry_ptr *)
Lookup(w) ==
  /\ pc[w] = "lookup" /\ login_mutex = None
  /\ user' = [user EXCEPT ![w] = Find(req[w].token)]
  /\ Route(w, req[w].kind, user'[w] # NoSlot)
  /\ UNCHANGED <<table, req, seen, at, arena, cookie, up>>

(* handle_login clears the arena, parses the body and matches the username; *)
(* the new token overwrites the request's.                                  *)
LoginParse(w) ==
  /\ pc[w] = "login"
  /\ arena' = [arena EXCEPT ![w] = Cost["login"]]
  /\ \/ /\ req[w].login \notin Users
        /\ Respond(w, "unauthorized", None)
        /\ UNCHANGED req
     \/ /\ req[w].login \in Users
        /\ req' = [req EXCEPT ![w].token = req[w].login]
        /\ Goto(w, "login_lock")
        /\ UNCHANGED out
  /\ UNCHANGED <<table, user, seen, at, cookie, up>>

Acquire(w, from, to) ==
  /\ pc[w] = from /\ login_mutex = None
  /\ login_mutex' = w
  /\ Goto(w, to)
  /\ UNCHANGED <<hash, name, req, user, seen, at, arena, out, cookie, up>>

LoginLock(w) == Acquire(w, "login_lock", "login_store")

(* The critical section of handle_login.  The answer is 200 with the cookie *)
(* even when no slot was found.                                             *)
LoginStore(w) ==
  /\ pc[w] = "login_store"
  /\ LET u == req[w].token
         i == PlaceFor(u)
     IN IF i = NoSlot THEN UNCHANGED <<hash, name>>
        ELSE /\ hash' = [hash EXCEPT ![i] = u]
             /\ name' = [name EXCEPT ![i] = u]
  /\ login_mutex' = None
  /\ Respond(w, "welcome", req[w].token)
  /\ UNCHANGED <<req, user, seen, at, arena, cookie, up>>

(* handle_logout; the body is empty, so parsing it takes no memory. *)
LogoutLock(w) == Acquire(w, "logout", "logout_clear")

(* The early return that forgets to unlock. *)
LogoutKeepsLock(w) ==
  /\ pc[w] = "logout_clear"
  /\ LET i == Find(req[w].token)
     IN IF i = NoSlot THEN UNCHANGED table
        ELSE /\ hash' = [hash EXCEPT ![i] = None]
             /\ name' = [name EXCEPT ![i] = None]
             /\ login_mutex' = None
  /\ Respond(w, "bye", None)
  /\ UNCHANGED <<req, user, seen, at, arena, cookie, up>>

LogoutClear(w) ==
  /\ pc[w] = "logout_clear"
  /\ LET i == Find(req[w].token)
     IN IF i = NoSlot THEN UNCHANGED <<hash, name>>
        ELSE /\ hash' = [hash EXCEPT ![i] = None]
             /\ name' = [name EXCEPT ![i] = None]
  /\ login_mutex' = None
  /\ Respond(w, "bye", None)
  /\ UNCHANGED <<req, user, seen, at, arena, cookie, up>>
-----------------------------------------------------------------------------
(* The JSON arena, and the requests that need it. *)

Fits(w, what) == arena[w] + Cost[what] <= ArenaSize
Allocate(w, what) == arena' = [arena EXCEPT ![w] = @ + Cost[what]]

(* A NULL pointer is followed: the process dies with all that it holds; the *)
(* browsers keep their cookies.                                             *)
Crash ==
  /\ up' = FALSE
  /\ hash' = Fresh.hash /\ name' = Fresh.name /\ login_mutex' = None
  /\ pc' = Fresh.pc /\ req' = Fresh.req /\ user' = Fresh.user /\ seen' = Fresh.seen
  /\ at' = Fresh.at /\ arena' = Fresh.arena /\ out' = Fresh.out
  /\ UNCHANGED cookie

(* The watchdog sees its child killed by a signal and starts it again, with an *)
(* empty table.  It may never come to that: its fork may fail, or the new      *)
(* process may end in a way that ends the watchdog too (HttpRequest follows    *)
(* both), and nothing here assumes that this step is ever taken.               *)
Restart == ~up /\ up' = TRUE /\ UNCHANGED <<table, local, cookie>>

(* {"get": "username"} is parsed; its "get" is read without a test for NULL. *)
UserParse(w) ==
  /\ pc[w] = "user"
  /\ \/ /\ Fits(w, "user")
        /\ Allocate(w, "user")
        /\ Goto(w, "measure")
        /\ UNCHANGED <<table, req, user, seen, at, out, cookie, up>>
     \/ ~Fits(w, "user") /\ Crash

(* json_make_string takes strlen(request.user->username) ...  *)
Measure(w) ==
  /\ pc[w] = "measure"
  /\ seen' = [seen EXCEPT ![w] = name[user[w]]]
  /\ Goto(w, "copy")
  /\ UNCHANGED <<table, req, user, at, arena, out, cookie, up>>

(* ... and copies that many bytes and one more, whatever is there by now: a   *)
(* name that came after an empty one is cut before its terminating zero, and  *)
(* one that came after another name may be.                                   *)
Copied(measured, now) ==
  IF now \in {measured, None} THEN {now}
  ELSE IF measured = None THEN {Garbled} ELSE {now, Garbled}

(* When the arena is full, building the answer follows a NULL pointer, or, if *)
(* only its last parts did not fit, leaves the object empty.                  *)
CopyName(w) ==
  /\ pc[w] = "copy"
  /\ \/ /\ Fits(w, "name")
        /\ Allocate(w, "name")
        /\ \E copy \in Copied(seen[w], name[user[w]]) : Respond(w, "name", copy)
        /\ UNCHANGED <<table, req, user, seen, at, cookie, up>>
     \/ /\ ~Fits(w, "name")
        /\ arena' = [arena EXCEPT ![w] = ArenaSize]
        /\ Respond(w, "name", None)
        /\ UNCHANGED <<table, req, user, seen, at, cookie, up>>
     \/ ~Fits(w, "name") /\ Crash

(* The body of /tags is parsed, and the result is not used. *)
TagsParse(w) ==
  /\ pc[w] = "tags"
  /\ IF Fits(w, "tags") THEN Allocate(w, "tags") ELSE UNCHANGED arena
  /\ Goto(w, "compare")
  /\ UNCHANGED <<table, req, user, seen, at, out, cookie, up>>

(* One strcmp of request.user->username for each known user, and for each that *)
(* matches that user's tags become the answer ("{}" before any does).          *)
Compare(w) ==
  /\ pc[w] = "compare" /\ at[w] <= Len(users)
  /\ seen' = [seen EXCEPT ![w] = IF name[user[w]] = users[at[w]] THEN users[at[w]] ELSE @]
  /\ at' = [at EXCEPT ![w] = @ + 1]
  /\ UNCHANGED <<table, pc, req, user, arena, out, cookie, up>>

TagsAnswer(w) ==
  /\ pc[w] = "compare" /\ at[w] > Len(users)
  /\ Respond(w, "tags", seen[w])
  /\ UNCHANGED <<table, req, user, seen, at, arena, cookie, up>>

(* The response reaches the browser, which keeps or drops its cookie, and the *)
(* worker is done with the request.                                           *)
Reply(w) ==
  /\ pc[w] = "reply"
  /\ cookie' = [cookie EXCEPT ![req[w].from] =
                  CASE out[w].status = "welcome" -> out[w].about
                    [] out[w].status = "bye" -> None
                    [] OTHER -> @]
  /\ Goto(w, "idle")
  /\ req' = [req EXCEPT ![w] = NoRequest]
  /\ user' = [user EXCEPT ![w] = NoSlot]
  /\ seen' = [seen EXCEPT ![w] = None]
  /\ at' = [at EXCEPT ![w] = 1]
  /\ out' = [out EXCEPT ![w] = NoResponse]
  /\ UNCHANGED <<table, arena, up>>
-----------------------------------------------------------------------------
Kinds == {"login", "logout", "user", "tags", "page"}

Arrive(w) == \E b \in Browsers, kind \in Kinds, login \in Users \cup {Stranger, None} :
                Receive(w, b, kind, login)
Contend(w) == Lookup(w) \/ LoginLock(w) \/ LogoutLock(w)
Proceed(w) == \/ LoginParse(w) \/ LoginStore(w) \/ LogoutClear(w)
              \/ UserParse(w) \/ Measure(w) \/ CopyName(w)
              \/ TagsParse(w) \/ Compare(w) \/ TagsAnswer(w) \/ Reply(w)

Next == \/ \E w \in Workers : Arrive(w) \/ Contend(w) \/ Proceed(w)
        \/ Restart

Spec == Init /\ [][Next]_vars

(* Threads are scheduled, and a mutex that is released again and again is one *)
(* day acquired by each thread that wants it.  Nothing is assumed of Restart. *)
Fairness == \A w \in Workers : WF_vars(Proceed(w)) /\ SF_vars(Contend(w))
FairSpec == Spec /\ Fairness
-----------------------------------------------------------------------------
Labels == {"idle", "lookup", "login", "login_lock", "login_store", "logout",
           "logout_clear", "user", "measure", "copy", "tags", "compare", "reply"}
Tokens == Users \cup {None}
Abouts == Tokens \cup {Garbled}
Statuses == {"none", "welcome", "bye", "unauthorized", "redirect", "file", "name", "tags"}
Holding == {"login_store", "logout_clear"}
Reading == {"user", "measure", "copy", "tags", "compare"}

RequestType == [kind : Kinds \cup {"none"}, from : Browsers \cup {None},
                token : Tokens, login : Tokens \cup {Stranger}]

(* Every variable has its type, login_mutex is owned by exactly the worker in *)
(* a critical section, and a worker that reads through request.user has a     *)
(* slot to read.                                                              *)
TypeOK ==
  /\ hash \in [Slots -> Tokens]
  /\ name \in [Slots -> Tokens]
  /\ login_mutex \in Workers \cup {None}
  /\ pc \in [Workers -> Labels]
  /\ req \in [Workers -> RequestType]
  /\ user \in [Workers -> Slots \cup {NoSlot}]
  /\ seen \in [Workers -> Tokens]
  /\ at \in [Workers -> 1 .. Len(users) + 1]
  /\ arena \in [Workers -> 0 .. ArenaSize]
  /\ out \in [Workers -> [status : Statuses, about : Abouts]]
  /\ cookie \in [Browsers -> Tokens]
  /\ up \in BOOLEAN
  /\ \A w \in Workers : (pc[w] \in Holding) = (login_mutex = w)
  /\ \A w \in Workers : pc[w] \in Reading => user[w] # NoSlot

(* A token is stored in at most one slot, through every mixture of logins and *)
(* logouts: logins search the table past the holes that logouts leave before  *)
(* they insert (handle_login, login_ht_insert_hash).                          *)
OneSlotPerToken ==
  \A i, j \in Slots : hash[i] = hash[j] /\ hash[i] # None => i = j

(* Whatever the other workers do to the table between the look-up and the     *)
(* reads through request.user, the name and the tags a request gets are those *)
(* of the user whose token it sent, or none (handle_api_request); a name may  *)
(* come out garbled, never as another user's.  It holds when no two users     *)
(* share a home slot, as admin, cat and dog do not (86, 366 and 234 of 512).  *)
OwnAnswers ==
  \A w \in Workers : out[w].status \in {"name", "tags"} =>
                       out[w].about \in {req[w].token, None, Garbled}

(* The table, with its probing and its locking, is a set of sessions that     *)
(* every login, logout and look-up changes or reads in one atomic step, at a  *)
(* moment between the request and its answer.                                 *)
ackOf == [w \in Workers |->
  LET u == req[w].token
      told(verdict) == [says |-> verdict, of |-> u]
  IN CASE pc[w] = "reply" /\ out[w].status = "welcome" -> told("in")
       [] pc[w] = "reply" /\ out[w].status = "bye" -> told("out")
       [] pc[w] \in {"idle", "lookup", "login_lock", "login_store"} \/ u = None
            -> [says |-> "nothing", of |-> None]
       [] OTHER -> told(IF user[w] = NoSlot THEN "no" ELSE "yes")]

Sessions == INSTANCE SessionSet WITH sessions <- {hash[i] : i \in Slots} \ {None}, ack <- ackOf
ImplementsSessionSet == Sessions!SetSpec

(* No request hangs on login_mutex, the fear of the comment in                *)
(* handle_api_request ("a thread seemingly gets hung ... it seems like the    *)
(* mutex is still locked"): every request is answered, or lost in a crash.    *)
EveryRequestEnds == \A w \in Workers : pc[w] # "idle" ~> pc[w] = "idle"
=============================================================================
