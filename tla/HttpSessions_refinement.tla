---------------------- MODULE HttpSessions_refinement ----------------------
(***************************************************************************)
(* The login table implements the set of sessions that SessionSet states:  *)
(* for every list of users, every home slot, every table that is large     *)
(* enough and every number of workers, each step of HttpSessions is one    *)
(* atomic step of SessionSet or none at all.                               *)
(*                                                                         *)
(* The set is what the slots hold (Stored), and a worker is told of it     *)
(* what its place and its answer say (Said).                               *)
(***************************************************************************)
EXTENDS HttpSessions_proofs, FiniteSetTheorems

Stored == {hash[i] : i \in Slots} \ {None}

(* What a worker has been told when it is at `label` with an answer of the   *)
(* given status, a request with token u, and the slot that was looked up.    *)
Said(label, status, u, slot) ==
  CASE label = "reply" /\ status = "welcome" -> [says |-> "in", of |-> u]
    [] label = "reply" /\ status = "bye" -> [says |-> "out", of |-> u]
    [] label \in {"idle", "lookup", "login_lock", "login_store"} \/ u = None
         -> [says |-> "nothing", of |-> None]
    [] OTHER -> [says |-> IF slot = NoSlot THEN "no" ELSE "yes", of |-> u]

SaidTo(w) == Said(pc[w], out[w].status, req[w].token, user[w])

(* The table and the invariant that its proofs rest on. *)
TableInv == TypeInv /\ OneSlotPerToken
-----------------------------------------------------------------------------
(* The table is large enough. *)

(* The list of known users is finite. *)
LEMMA UsersFinite == IsFiniteSet(Users)
<1>1. users \in Seq(Users) /\ Len(users) \in Nat
  BY SessionAssumption, KnownUsers
<1>2. users \in Surjection(1 .. Len(users), Users)
  <2>1. users \in [1 .. Len(users) -> Users]
    BY <1>1
  <2>2. \A u \in Users : \E i \in 1 .. Len(users) : users[i] = u
    BY DEF Users
  <2> QED
    BY <2>1, <2>2 DEF Surjection
<1>3. IsFiniteSet(1 .. Len(users))
  BY <1>1, FS_Interval
<1> QED
  BY <1>2, <1>3, FS_Surjection

(* A login always finds a slot: were every one taken by another token, two   *)
(* slots would hold the same.                                                *)
LEMMA RoomLeft ==
  ASSUME TableInv, NEW u \in Users
  PROVE  PlaceFor(u) # NoSlot
<1>1. SUFFICES ASSUME PlaceFor(u) = NoSlot PROVE FALSE
  OBVIOUS
<1>2. \A i \in Slots : hash[i] \notin {u, None}
  BY <1>1, PlaceCorrect
<1>3. hash \in [Slots -> Users \ {u}]
  BY <1>2 DEF TableInv, TypeInv, TypeOK, Tokens
<1>4. /\ IsFiniteSet(Users \ {u})
      /\ Cardinality(Users \ {u}) = Cardinality(Users) - 1
  BY UsersFinite, FS_RemoveElement
<1>5. IsFiniteSet(Slots) /\ Cardinality(Slots) = Capacity
  <2>1. 0 \in Int /\ Capacity - 1 \in Int /\ Capacity - 1 >= 0
    BY SessionAssumption
  <2>2. IsFiniteSet(0 .. Capacity - 1) /\ Cardinality(0 .. Capacity - 1) = Capacity - 1 - 0 + 1
    BY <2>1, FS_Interval
  <2> QED
    BY <2>2, SessionAssumption DEF Slots
<1>6. Cardinality(Users \ {u}) < Cardinality(Slots)
  <2>1. Cardinality(Users) \in Nat /\ Cardinality(Users) <= Capacity /\ Capacity \in Nat
    BY UsersFinite, FS_CardinalityType, TableFits, SessionAssumption
  <2> QED
    BY <1>4, <1>5, <2>1
<1>7. \E i, j \in Slots : i # j /\ hash[i] = hash[j]
  BY <1>3, <1>4, <1>5, <1>6, FS_PigeonHole
<1> QED
  BY <1>2, <1>7 DEF TableInv, OneSlotPerToken

-----------------------------------------------------------------------------
(* What the workers are told. *)

(* The refinement mapping, worker by worker. *)
LEMMA AckIs == ackOf = [w \in Workers |-> SaidTo(w)]
BY DEF ackOf, SaidTo, Said

LEMMA AckIsNext == (ackOf = [w \in Workers |-> SaidTo(w)])'
BY AckIs, PTL

(* A step of worker w shows in what w is told, and nowhere else. *)
LEMMA AckByWorker ==
  ASSUME TypeOK, NEW w \in Workers, ~Crash, Arrive(w) \/ Contend(w) \/ Proceed(w)
  PROVE  ackOf' = [ackOf EXCEPT ![w] = Said(pc'[w], out'[w].status, req'[w].token, user'[w])]
<1>1. \A v \in Workers : v # w => SaidTo(v)' = SaidTo(v)
  BY OthersKept DEF SaidTo
<1>2. SaidTo(w)' = Said(pc'[w], out'[w].status, req'[w].token, user'[w])
  BY DEF SaidTo
<1>3. ackOf = [v \in Workers |-> SaidTo(v)] /\ ackOf' = [v \in Workers |-> SaidTo(v)']
  BY AckIs, AckIsNext
<1> QED
  BY <1>1, <1>2, <1>3

(* A step of worker w that tells it nothing new and keeps the table shows *)
(* nowhere.                                                               *)
LEMMA NoShow ==
  ASSUME TypeOK, NEW w \in Workers, ~Crash, Arrive(w) \/ Contend(w) \/ Proceed(w),
         hash' = hash,
         Said(pc'[w], out'[w].status, req'[w].token, user'[w]) = SaidTo(w)
  PROVE  UNCHANGED <<Stored, ackOf>>
<1>1. ackOf' = [ackOf EXCEPT ![w] = SaidTo(w)] /\ ackOf = [v \in Workers |-> SaidTo(v)]
  BY AckByWorker, AckIs
<1>2. ackOf' = ackOf
  BY <1>1
<1> QED
  BY <1>2 DEF Stored

(* A step after which worker w is told nothing, and which keeps the table,   *)
(* makes it forget.                                                          *)
LEMMA ForgetShow ==
  ASSUME TypeOK, NEW w \in Workers, ~Crash, Arrive(w) \/ Contend(w) \/ Proceed(w),
         hash' = hash, pc'[w] \in {"idle", "lookup", "login_lock", "login_store"}
  PROVE  Sessions!Forget(w)
<1>1. Said(pc'[w], out'[w].status, req'[w].token, user'[w]) = Sessions!Nothing
  BY DEF Said, Sessions!Nothing
<1> QED
  BY <1>1, AckByWorker DEF Sessions!Forget
-----------------------------------------------------------------------------
(* Each action of the server is an action of the set, or none. *)

(* A request arrives: its worker is told nothing yet. *)
LEMMA ArriveNoShow ==
  ASSUME TableInv, NEW w \in Workers, ~Crash, Arrive(w)
  PROVE  UNCHANGED <<Stored, ackOf>>
<1>1. PICK b \in Browsers, kind \in Kinds, login \in Users \cup {Stranger, None} :
             Receive(w, b, kind, login)
  BY DEF Arrive
<1>2. TypeOK /\ pc[w] = "idle" /\ hash' = hash
  BY <1>1 DEF Receive, table, TableInv, TypeInv
<1>3. SaidTo(w) = [says |-> "nothing", of |-> None]
  BY <1>2 DEF SaidTo, Said
<1>4. req'[w].token = cookie[b]
  BY <1>1, <1>2 DEF Receive, TypeOK
<1>5. CASE cookie[b] # None
  <2>1. pc'[w] = "lookup"
    BY <1>1, <1>2, <1>5 DEF Receive, Goto, TypeOK
  <2> QED
    BY <1>2, <1>3, <2>1, NoShow DEF Said
<1>6. CASE cookie[b] = None
  <2>1. /\ pc'[w] \in {"login", "reply"}
        /\ pc'[w] = "reply" => out'[w].status = "redirect"
    BY <1>1, <1>2, <1>6 DEF Receive, Route, Respond, Response, Goto, TypeOK
  <2>2. Said(pc'[w], out'[w].status, req'[w].token, user'[w]) = [says |-> "nothing", of |-> None]
    BY <1>4, <1>6, <2>1 DEF Said
  <2> QED
    BY <1>2, <1>3, <2>2, NoShow
<1> QED
  BY <1>5, <1>6

(* The look-up checks the session of the request's token. *)
LEMMA LookupIsCheck ==
  ASSUME TableInv, NEW w \in Workers, ~Crash, Lookup(w)
  PROVE  \E u \in Users : Sessions!Check(w, u)
<1>1. TypeOK /\ pc[w] = "lookup" /\ hash' = hash
  BY DEF Lookup, table, TableInv, TypeInv
<1>2. PICK u \in Users : u = req[w].token /\ u # None
  BY <1>1, SessionAssumption DEF TableInv, TypeInv, TokenKnown
<1>3. PICK slot : slot = Find(u)
  OBVIOUS
<1>4. slot # NoSlot <=> u \in Stored
  BY <1>2, <1>3, FindCorrect DEF Stored
<1>5. user'[w] = slot /\ req'[w].token = u
  BY <1>1, <1>2, <1>3 DEF Lookup, TypeOK
<1>6. /\ pc'[w] \in {"login", "logout", "user", "tags", "reply"}
      /\ pc'[w] = "reply" => out'[w].status \in {"file", "redirect"}
  <2>1. req[w].kind \in Kinds
    BY <1>1 DEF TableInv, TypeInv, TokenKnown
  <2> QED
    BY <1>1, <2>1 DEF Lookup, Route, Respond, Response, Goto, Kinds, TypeOK
<1>7. Said(pc'[w], out'[w].status, req'[w].token, user'[w])
        = Sessions!Told(IF u \in Stored THEN "yes" ELSE "no", u)
  BY <1>2, <1>4, <1>5, <1>6 DEF Said, Sessions!Told
<1>8. ackOf' = [ackOf EXCEPT ![w] = Sessions!Told(IF u \in Stored THEN "yes" ELSE "no", u)]
  BY <1>1, <1>7, AckByWorker DEF Contend
<1> QED
  BY <1>1, <1>8 DEF Sessions!Check, Stored

(* A login that parses forgets what the look-up said; one that does not      *)
(* leaves it.                                                                *)
LEMMA LoginParseIsForget ==
  ASSUME TableInv, NEW w \in Workers, ~Crash, LoginParse(w)
  PROVE  Sessions!Forget(w) \/ UNCHANGED <<Stored, ackOf>>
<1>1. TypeOK /\ pc[w] = "login" /\ hash' = hash /\ user' = user
  BY DEF LoginParse, table, TableInv, TypeInv
<1>2. CASE req[w].login \in Users
  <2>1. pc'[w] = "login_lock"
    BY <1>1, <1>2 DEF LoginParse, Goto, TypeOK
  <2> QED
    BY <1>1, <2>1, ForgetShow DEF Proceed
<1>3. CASE req[w].login \notin Users
  <2>1. pc'[w] = "reply" /\ out'[w].status = "unauthorized" /\ req' = req
    BY <1>1, <1>3 DEF LoginParse, Respond, Response, Goto, TypeOK
  <2>2. Said(pc'[w], out'[w].status, req'[w].token, user'[w]) = SaidTo(w)
    BY <1>1, <2>1 DEF SaidTo, Said
  <2> QED
    BY <1>1, <2>2, NoShow DEF Proceed
<1> QED
  BY <1>2, <1>3

(* Taking the mutex tells a worker nothing. *)
LEMMA AcquireNoShow ==
  ASSUME TableInv, NEW w \in Workers, ~Crash, LoginLock(w) \/ LogoutLock(w)
  PROVE  UNCHANGED <<Stored, ackOf>>
<1>1. TypeOK /\ hash' = hash /\ user' = user /\ req' = req /\ out' = out
  BY DEF LoginLock, LogoutLock, Acquire, TableInv, TypeInv
<1>2. \/ pc[w] = "login_lock" /\ pc'[w] = "login_store"
      \/ pc[w] = "logout" /\ pc'[w] = "logout_clear"
  BY <1>1 DEF LoginLock, LogoutLock, Acquire, Goto, TypeOK
<1>3. Said(pc'[w], out'[w].status, req'[w].token, user'[w]) = SaidTo(w)
  BY <1>1, <1>2 DEF SaidTo, Said
<1> QED
  BY <1>1, <1>3, NoShow DEF Contend

(* The critical section of a login opens the session. *)
LEMMA LoginIsOpen ==
  ASSUME TableInv, NEW w \in Workers, ~Crash, LoginStore(w)
  PROVE  \E u \in Users : Sessions!Open(w, u)
<1>1. /\ TypeOK /\ pc[w] = "login_store" /\ req' = req
      /\ hash \in [Slots -> Tokens]
  BY DEF LoginStore, TableInv, TypeInv, TypeOK
<1>2. PICK u \in Users : u = req[w].token /\ u # None
  BY <1>1, SessionAssumption DEF TableInv, TypeInv, TokenKnown
<1>3. PICK i \in Slots : /\ i = PlaceFor(u)
                        /\ \/ hash[i] = u
                           \/ hash[i] = None
  BY <1>2, RoomLeft, PlaceCorrect
<1>4. hash' = [hash EXCEPT ![i] = u]
  BY <1>2, <1>3, RoomLeft DEF LoginStore
<1>5. Stored' = Stored \cup {u}
  <2>1. hash'[i] = u /\ \A j \in Slots : j # i => hash'[j] = hash[j]
    BY <1>1, <1>4
  <2>2. ASSUME NEW x PROVE x \in Stored' <=> x \in Stored \/ x = u
    BY <1>2, <1>3, <2>1 DEF Stored
  <2> QED
    BY <2>2
<1>6. pc'[w] = "reply" /\ out'[w].status = "welcome"
  BY <1>1 DEF LoginStore, Respond, Response, Goto, TypeOK
<1>7. Said(pc'[w], out'[w].status, req'[w].token, user'[w]) = Sessions!Told("in", u)
  BY <1>1, <1>2, <1>6 DEF Said, Sessions!Told
<1>8. ackOf' = [ackOf EXCEPT ![w] = Sessions!Told("in", u)]
  BY <1>1, <1>7, AckByWorker DEF Proceed
<1> QED
  BY <1>5, <1>8 DEF Sessions!Open, Stored

(* The critical section of a logout ends the session, whichever slot it is   *)
(* in: no other slot holds it.                                               *)
LEMMA LogoutIsEnd ==
  ASSUME TableInv, NEW w \in Workers, ~Crash, LogoutClear(w)
  PROVE  \E u \in Users : Sessions!End(w, u)
<1>1. /\ TypeOK /\ pc[w] = "logout_clear" /\ req' = req
      /\ hash \in [Slots -> Tokens]
  BY DEF LogoutClear, TableInv, TypeInv, TypeOK
<1>2. PICK u \in Users : u = req[w].token /\ u # None
  BY <1>1, SessionAssumption DEF TableInv, TypeInv, TokenKnown
<1>3. Stored' = Stored \ {u}
  <2>1. CASE Find(u) = NoSlot
    <3>1. hash' = hash /\ u \notin Stored
      BY <1>2, <2>1, FindCorrect DEF LogoutClear, Stored
    <3> QED
      BY <3>1 DEF Stored
  <2>2. CASE Find(u) # NoSlot
    <3>1. PICK i \in Slots : i = Find(u) /\ hash[i] = u
      BY <2>2, FindCorrect
    <3>2. hash' = [hash EXCEPT ![i] = None]
      BY <1>2, <2>2, <3>1 DEF LogoutClear
    <3>3. hash'[i] = None /\ \A j \in Slots : j # i => hash'[j] = hash[j]
      BY <1>1, <3>2
    <3>4. \A j \in Slots : hash[j] = u => j = i
      BY <1>2, <3>1 DEF TableInv, OneSlotPerToken
    <3>5. ASSUME NEW x PROVE x \in Stored' <=> x \in Stored /\ x # u
      BY <1>2, <3>1, <3>3, <3>4 DEF Stored
    <3> QED
      BY <3>5
  <2> QED
    BY <2>1, <2>2
<1>4. pc'[w] = "reply" /\ out'[w].status = "bye"
  BY <1>1 DEF LogoutClear, Respond, Response, Goto, TypeOK
<1>5. Said(pc'[w], out'[w].status, req'[w].token, user'[w]) = Sessions!Told("out", u)
  BY <1>1, <1>2, <1>4 DEF Said, Sessions!Told
<1>6. ackOf' = [ackOf EXCEPT ![w] = Sessions!Told("out", u)]
  BY <1>1, <1>5, AckByWorker DEF Proceed
<1> QED
  BY <1>3, <1>6 DEF Sessions!End, Stored

(* Serving a user's name or tags changes neither the table nor what the      *)
(* look-up said.                                                             *)
LEMMA ServeNoShow ==
  ASSUME TableInv, NEW w \in Workers, ~Crash,
         \/ UserParse(w) \/ Measure(w) \/ CopyName(w)
         \/ TagsParse(w) \/ Compare(w) \/ TagsAnswer(w)
  PROVE  UNCHANGED <<Stored, ackOf>>
<1>1. TypeOK /\ hash' = hash /\ user' = user /\ req' = req
  BY DEF UserParse, Measure, CopyName, TagsParse, Compare, TagsAnswer, table, TableInv, TypeInv
<1>2. /\ pc[w] \in Reading
      /\ pc'[w] \in Reading \cup {"reply"}
      /\ pc'[w] = "reply" => out'[w].status \in {"name", "tags"}
  BY <1>1 DEF UserParse, Measure, CopyName, TagsParse, Compare, TagsAnswer, Respond, Response,
     Goto, Reading, TypeOK
<1>3. Said(pc'[w], out'[w].status, req'[w].token, user'[w]) = SaidTo(w)
  BY <1>1, <1>2 DEF SaidTo, Said, Reading
<1> QED
  BY <1>1, <1>3, NoShow DEF Proceed

(* Once its answer is sent a worker forgets it. *)
LEMMA ReplyIsForget ==
  ASSUME TableInv, NEW w \in Workers, ~Crash, Reply(w)
  PROVE  Sessions!Forget(w)
<1>1. TypeOK /\ hash' = hash /\ pc'[w] = "idle"
  BY DEF Reply, Goto, table, TableInv, TypeInv, TypeOK
<1> QED
  BY <1>1, ForgetShow DEF Proceed

(* A crash loses every session and every pending answer. *)
LEMMA CrashIsLose == Crash => Sessions!Lose
<1> SUFFICES ASSUME Crash PROVE Sessions!Lose
  OBVIOUS
<1>1. hash' = [i \in Slots |-> None] /\ pc' = [w \in Workers |-> "idle"]
      /\ out' = [w \in Workers |-> NoResponse]
  BY DEF Crash, Fresh
<1>2. Stored' = {}
  BY <1>1 DEF Stored
<1>3. \A w \in Workers : SaidTo(w)' = Sessions!Nothing
  BY <1>1 DEF SaidTo, Said, Sessions!Nothing
<1>4. ackOf' = [w \in Workers |-> Sessions!Nothing]
  BY <1>3, AckIsNext
<1> QED
  BY <1>2, <1>4 DEF Sessions!Lose, Stored
-----------------------------------------------------------------------------
(* The server starts with no session and nobody told anything. *)
LEMMA InitIsSetInit == Init => Sessions!Init
<1> SUFFICES ASSUME Init PROVE Sessions!Init
  OBVIOUS
<1>1. hash = [i \in Slots |-> None] /\ pc = [w \in Workers |-> "idle"]
      /\ out = [w \in Workers |-> NoResponse]
  BY DEF Init, Fresh
<1>2. Stored = {}
  BY <1>1 DEF Stored
<1>3. \A w \in Workers : SaidTo(w) = Sessions!Nothing
  BY <1>1 DEF SaidTo, Said, Sessions!Nothing
<1>4. ackOf = [w \in Workers |-> Sessions!Nothing]
  BY <1>3, AckIs
<1> QED
  BY <1>2, <1>4 DEF Sessions!Init, Stored

(* Every step of the server is a step of the set, or changes nothing of it. *)
LEMMA StepIsSetStep == TableInv /\ [Next]_vars => [Sessions!Next]_<<Stored, ackOf>>
<1> SUFFICES ASSUME TableInv, [Next]_vars PROVE Sessions!Next \/ UNCHANGED <<Stored, ackOf>>
  OBVIOUS
<1>1. CASE Crash
  BY <1>1, CrashIsLose DEF Sessions!Next
<1>2. CASE Restart \/ UNCHANGED vars
  <2>1. UNCHANGED <<hash, pc, out, req, user>>
    BY <1>2 DEF Restart, vars, table, local
  <2>2. \A w \in Workers : SaidTo(w)' = SaidTo(w)
    BY <2>1 DEF SaidTo
  <2> QED
    BY <2>1, <2>2, AckIs, AckIsNext DEF Stored
<1>3. ASSUME NEW w \in Workers, ~Crash, Arrive(w) \/ Contend(w) \/ Proceed(w)
      PROVE  Sessions!Next \/ UNCHANGED <<Stored, ackOf>>
  <2>1. CASE Arrive(w)
    BY <1>3, <2>1, ArriveNoShow
  <2>2. CASE Contend(w)
    <3>1. CASE Lookup(w)
      BY <1>3, <3>1, LookupIsCheck DEF Sessions!Next
    <3>2. CASE LoginLock(w) \/ LogoutLock(w)
      BY <1>3, <3>2, AcquireNoShow
    <3> QED
      BY <2>2, <3>1, <3>2 DEF Contend
  <2>3. CASE Proceed(w)
    <3>1. CASE LoginParse(w)
      BY <1>3, <3>1, LoginParseIsForget DEF Sessions!Next
    <3>2. CASE LoginStore(w)
      BY <1>3, <3>2, LoginIsOpen DEF Sessions!Next
    <3>3. CASE LogoutClear(w)
      BY <1>3, <3>3, LogoutIsEnd DEF Sessions!Next
    <3>4. CASE \/ UserParse(w) \/ Measure(w) \/ CopyName(w)
               \/ TagsParse(w) \/ Compare(w) \/ TagsAnswer(w)
      BY <1>3, <3>4, ServeNoShow
    <3>5. CASE Reply(w)
      BY <1>3, <3>5, ReplyIsForget DEF Sessions!Next
    <3> QED
      BY <2>3, <3>1, <3>2, <3>3, <3>4, <3>5 DEF Proceed
  <2> QED
    BY <1>3, <2>1, <2>2, <2>3
<1> QED
  BY <1>1, <1>2, <1>3 DEF Next

(* The login table is a set of sessions: although it is searched slot by     *)
(* slot, probed past the holes of old sessions and shared by all workers,    *)
(* every login, logout and look-up opens, ends or checks its user's session  *)
(* in one atomic step (handle_login, handle_logout, get_user_entry_ptr), and *)
(* a login always finds room.                                                *)
THEOREM SetCorrect == Spec => ImplementsSessionSet
<1>1. Init => TableInv
  <2>1. Init => OneSlotPerToken
    BY DEF Init, Fresh, OneSlotPerToken
  <2> QED
    BY <2>1, TypeInit DEF TableInv
<1>2. TableInv /\ [Next]_vars => TableInv'
  BY TypeStep, OneSlotStep DEF TableInv
<1>3. TableInv /\ [Next]_vars => [Sessions!Next]_<<{hash[i] : i \in Slots} \ {None}, ackOf>>
  BY StepIsSetStep DEF Stored
<1> QED
  BY <1>1, <1>2, <1>3, InitIsSetInit, PTL DEF Spec, ImplementsSessionSet, Sessions!SetSpec
=============================================================================
