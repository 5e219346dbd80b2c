------------------------ MODULE HttpSessions_proofs ------------------------
(***************************************************************************)
(* Proofs about HttpSessions, for every list of users, every table that    *)
(* holds them and every number of workers and browsers.                    *)
(***************************************************************************)
EXTENDS HttpSessions, WellFoundedInduction, TLAPS

(* From the look-up on, the worker has a token, and it came with a request. *)
TokenKnown ==
  \A w \in Workers :
    /\ pc[w] \notin {"idle", "login", "reply"} => req[w].token \in Users
    /\ pc[w] = "lookup" => req[w].kind \in Kinds

(* The cookie that a login sends is a user's token; nothing is said before *)
(* the request is decided.                                                 *)
AnswerKnown ==
  \A w \in Workers : /\ out[w].status = "welcome" => out[w].about \in Users
                     /\ pc[w] # "reply" => out[w].status = "none"

TypeInv == TypeOK /\ TokenKnown /\ AnswerKnown

(* The table is searched with the remainder of a division. *)
LEMMA ModWrap ==
  ASSUME NEW m \in Nat \ {0}, NEW x \in 0 .. 2 * m - 1
  PROVE  x % m = IF x < m THEN x ELSE x - m
<1>1. CASE x < m
  BY <1>1
<1>2. CASE x >= m
  <2>1. x = 1 * m + (x - m) /\ x - m \in 0 .. m - 1
    BY <1>2
  <2> QED
    BY <2>1
<1> QED
  BY <1>1, <1>2

(* A non-empty set of natural numbers has a least element. *)
LEMMA LeastElement ==
  ASSUME NEW T \in SUBSET Nat, T # {}
  PROVE  \E k \in T : \A j \in T : k <= j
<1> DEFINE R == OpToRel(<, Nat)
<1>1. IsWellFoundedOn(R, Nat)
  BY NatLessThanWellFounded
<1>2. \A x, y \in Nat : x < y => <<x, y>> \in R
  BY DEF OpToRel
<1> HIDE DEF R
<1>3. PICK x \in T : \A y \in T : ~(<<y, x>> \in R)
  BY <1>1, WFMin
<1>4. \A y \in T : ~(y < x)
  BY <1>2, <1>3
<1> QED
  BY <1>4

(* A search visits slots of the table, and every one of them. *)
LEMMA ProbeIsSlot ==
  ASSUME NEW u \in Users, NEW k \in Slots
  PROVE  Probe(u, k) = IF Home[u] + k < Capacity THEN Home[u] + k
                                                 ELSE Home[u] + k - Capacity
<1>1. PICK x \in 0 .. 2 * Capacity - 1 : x = Home[u] + k
  BY SessionAssumption DEF Slots
<1>2. x % Capacity = IF x < Capacity THEN x ELSE x - Capacity
  BY <1>1, SessionAssumption, ModWrap
<1>3. Probe(u, k) = x % Capacity
  BY <1>1, Zenon DEF Probe
<1>4. (IF x < Capacity THEN x ELSE x - Capacity)
        = IF Home[u] + k < Capacity THEN Home[u] + k ELSE Home[u] + k - Capacity
  BY <1>1, SessionAssumption DEF Slots
<1> QED
  BY <1>2, <1>3, <1>4, Zenon

(* A search from any home slot probes every slot of the table. *)
LEMMA ProbeCovers ==
  ASSUME NEW u \in Users, NEW i \in Slots
  PROVE  \E k \in Slots : Probe(u, k) = i
<1>1. Home[u] \in Slots /\ Capacity \in Nat \ {0}
  BY SessionAssumption
<1>2. PICK k \in Slots : k = IF Home[u] <= i THEN i - Home[u] ELSE i + Capacity - Home[u]
  BY <1>1 DEF Slots
<1>3. Probe(u, k) = i
  BY <1>1, <1>2, ProbeIsSlot DEF Slots
<1> QED
  BY <1>3

(* The first slot in probing order that holds one of the wanted values, if   *)
(* any slot does; the home slot when that one does.                          *)
LEMMA FirstProbeFinds ==
  ASSUME NEW u \in Users, NEW wanted
  PROVE  LET i == FirstProbe(u, wanted)
         IN /\ i = NoSlot => \A j \in Slots : hash[j] \notin wanted
            /\ i # NoSlot => i \in Slots /\ hash[i] \in wanted
            /\ hash[Home[u]] \in wanted => i = Home[u]
<1> DEFINE hits == {k \in Slots : hash[Probe(u, k)] \in wanted}
           least == CHOOSE k \in hits : \A j \in hits : k <= j
<1>0. Capacity \in Nat \ {0} /\ Home[u] \in Slots
  BY SessionAssumption
<1>1. \A k \in Slots : Probe(u, k) \in Slots
  BY <1>0, ProbeIsSlot DEF Slots
<1>2. FirstProbe(u, wanted) = IF hits = {} THEN NoSlot ELSE Probe(u, least)
  BY DEF FirstProbe
<1>3. hits # {} => least \in hits /\ \A j \in hits : least <= j
  <2>1. hits \in SUBSET Nat
    BY <1>0 DEF Slots
  <2> HIDE DEF hits
  <2> QED
    BY <2>1, LeastElement
<1>4. 0 \in Slots /\ Probe(u, 0) = Home[u]
  BY <1>0, ProbeIsSlot DEF Slots
<1>5. NoSlot \notin Slots
  BY DEF NoSlot, Slots
<1>6. CASE hits = {}
  <2>1. \A j \in Slots : hash[j] \notin wanted
    BY <1>6, ProbeCovers
  <2> QED
    BY <1>0, <1>2, <1>6, <2>1
<1>7. CASE hits # {}
  <2>1. least \in Slots /\ hash[Probe(u, least)] \in wanted
    BY <1>3, <1>7
  <2>2. hash[Home[u]] \in wanted => Probe(u, least) = Home[u]
    <3>1. hash[Home[u]] \in wanted => 0 \in hits
      BY <1>4
    <3>2. 0 \in hits => least = 0
      <4>1. 0 \in hits => least <= 0
        BY <1>3
      <4> HIDE DEF least
      <4> QED
        BY <1>0, <2>1, <4>1 DEF Slots
    <3> QED
      BY <1>4, <3>1, <3>2
  <2> HIDE DEF least, hits
  <2> QED
    BY <1>1, <1>2, <1>5, <1>7, <2>1, <2>2
<1> QED
  BY <1>6, <1>7

(* login_ht_get_hash_index finds a token exactly when some slot holds it. *)
LEMMA FindCorrect ==
  ASSUME NEW u \in Users
  PROVE  /\ Find(u) = NoSlot => \A j \in Slots : hash[j] # u
         /\ Find(u) # NoSlot => Find(u) \in Slots /\ hash[Find(u)] = u
BY FirstProbeFinds DEF Find

(* The slot a login takes holds its token already, or is empty while no slot *)
(* holds it; without a slot, every one is taken by another token.            *)
LEMMA PlaceCorrect ==
  ASSUME NEW u \in Users
  PROVE  /\ PlaceFor(u) = NoSlot => \A j \in Slots : hash[j] \notin {u, None}
         /\ PlaceFor(u) # NoSlot =>
              /\ PlaceFor(u) \in Slots
              /\ \/ hash[PlaceFor(u)] = u
                 \/ hash[PlaceFor(u)] = None /\ \A j \in Slots : hash[j] # u
<1>1. CASE Find(u) # NoSlot
  BY <1>1, FindCorrect DEF PlaceFor
<1>2. CASE Find(u) = NoSlot
  <2>1. PlaceFor(u) = FirstProbe(u, {u, None})
    BY <1>2 DEF PlaceFor, Insert
  <2>2. \A j \in Slots : hash[j] # u
    BY <1>2, FindCorrect
  <2> QED
    BY <2>1, <2>2, FirstProbeFinds
<1> QED
  BY <1>1, <1>2
-----------------------------------------------------------------------------
(* Types *)

(* The initial state has its types, with the mutex free. *)
LEMMA TypeInit == Init => TypeInv
BY SessionAssumption
DEF Init, Fresh, TypeInv, TypeOK, TokenKnown, AnswerKnown, NoRequest, NoResponse, Response,
    RequestType, Tokens, Abouts, Statuses, Labels, Kinds, Holding, Reading, Slots, NoSlot

(* An action of worker w that moves it from one label to another, keeps the  *)
(* mutex as the two labels demand and the other workers where they are.      *)
LEMMA MutexKept ==
  ASSUME TypeOK, NEW w \in Workers, NEW label \in Labels, Goto(w, label),
         \/ pc[w] \notin Holding /\ label \notin Holding /\ login_mutex' = login_mutex
         \/ pc[w] \notin Holding /\ label \in Holding /\ login_mutex = None /\ login_mutex' = w
         \/ pc[w] \in Holding /\ label \notin Holding /\ login_mutex' = None
  PROVE  /\ pc' \in [Workers -> Labels]
         /\ login_mutex' \in Workers \cup {None}
         /\ \A v \in Workers : (pc'[v] \in Holding) = (login_mutex' = v)
<1>1. pc \in [Workers -> Labels] /\ login_mutex \in Workers \cup {None}
  BY DEF TypeOK
<1>2. pc'[w] = label /\ \A v \in Workers : v # w => pc'[v] = pc[v]
  BY <1>1 DEF Goto
<1>3. pc' \in [Workers -> Labels]
  BY <1>1 DEF Goto
<1>4. \A v \in Workers : (pc[v] \in Holding) <=> (login_mutex = v)
  BY DEF TypeOK
<1>5. None \notin Workers
  BY SessionAssumption
<1>6. \A v \in Workers : (pc'[v] \in Holding) <=> (login_mutex' = v)
  BY <1>2, <1>4, <1>5
<1>7. login_mutex' \in Workers \cup {None}
  BY <1>1
<1> QED
  BY <1>3, <1>6, <1>7

(* What TypeInv demands of the variables other than pc and login_mutex. *)
DataType ==
  /\ hash \in [Slots -> Tokens]
  /\ name \in [Slots -> Tokens]
  /\ req \in [Workers -> RequestType]
  /\ user \in [Workers -> Slots \cup {NoSlot}]
  /\ seen \in [Workers -> Tokens]
  /\ at \in [Workers -> 1 .. Len(users) + 1]
  /\ arena \in [Workers -> 0 .. ArenaSize]
  /\ out \in [Workers -> [status : Statuses, about : Abouts]]
  /\ cookie \in [Browsers -> Tokens]
  /\ up \in BOOLEAN

(* What TypeInv demands of one worker. *)
WorkerInv(w) ==
  /\ pc[w] \in Reading => user[w] # NoSlot
  /\ pc[w] \notin {"idle", "login", "reply"} => req[w].token \in Users
  /\ pc[w] = "lookup" => req[w].kind \in Kinds
  /\ out[w].status = "welcome" => out[w].about \in Users
  /\ pc[w] # "reply" => out[w].status = "none"

(* A step of worker w leaves the other workers' part of the invariant alone, *)
(* so its own part and the types are all there is to show.                   *)
LEMMA TypeByWorker ==
  ASSUME TypeInv, NEW w \in Workers, NEW label \in Labels, Goto(w, label),
         \/ pc[w] \notin Holding /\ label \notin Holding /\ login_mutex' = login_mutex
         \/ pc[w] \notin Holding /\ label \in Holding /\ login_mutex = None /\ login_mutex' = w
         \/ pc[w] \in Holding /\ label \notin Holding /\ login_mutex' = None,
         DataType', WorkerInv(w)',
         \A v \in Workers : v # w => /\ user'[v] = user[v] /\ req'[v] = req[v]
                                    /\ out'[v] = out[v]
  PROVE  TypeInv'
<1>1. pc' \in [Workers -> Labels] /\ login_mutex' \in Workers \cup {None}
      /\ \A v \in Workers : (pc'[v] \in Holding) = (login_mutex' = v)
  BY MutexKept DEF TypeInv
<1>2. \A v \in Workers : v # w => pc'[v] = pc[v]
  BY DEF Goto, TypeInv, TypeOK
<1>3. \A v \in Workers : v # w => WorkerInv(v)'
  BY <1>2 DEF TypeInv, TypeOK, TokenKnown, AnswerKnown, WorkerInv
<1>4. \A v \in Workers : WorkerInv(v)'
  BY <1>3
<1>5. (\A v \in Workers : pc[v] \in Reading => user[v] # NoSlot)'
  BY <1>4 DEF WorkerInv
<1>6. TokenKnown' /\ AnswerKnown'
  BY <1>4 DEF WorkerInv, TokenKnown, AnswerKnown
<1>7. TypeOK'
  BY <1>1, <1>5 DEF TypeOK, DataType
<1> QED
  BY <1>6, <1>7 DEF TypeInv

(* What a worker answers, and where Route sends it. *)
LEMMA TypeRoute ==
  ASSUME TypeInv, NEW w \in Workers, NEW kind \in Kinds, NEW loggedIn \in BOOLEAN,
         pc[w] \notin Holding, pc[w] # "reply", UNCHANGED table,
         Route(w, kind, loggedIn),
         NEW v \in Slots \cup {NoSlot}, NEW r \in RequestType,
         user' = [user EXCEPT ![w] = v], req' = [req EXCEPT ![w] = r],
         loggedIn => v # NoSlot /\ r.token \in Users,
         UNCHANGED <<seen, at, arena, cookie, up>>
  PROVE  TypeInv'
<1> USE DEF TypeInv
<1>1. user' \in [Workers -> Slots \cup {NoSlot}] /\ req' \in [Workers -> RequestType]
  BY DEF TypeOK
<1>2. /\ \A x \in Workers : x # w => user'[x] = user[x] /\ req'[x] = req[x]
      /\ user'[w] = v /\ req'[w] = r
  BY DEF TypeOK
<1>3. CASE kind = "login" \/ (loggedIn /\ kind # "page")
  <2>1. Goto(w, kind) /\ out' = out
    BY <1>3 DEF Route
  <2>2. kind \in Labels /\ kind \notin Holding /\ pc'[w] = kind
    BY <1>3, <2>1 DEF Kinds, Labels, Holding, Goto, TypeOK
  <2>3. DataType'
    BY <1>1, <2>1 DEF TypeOK, DataType, table
  <2>4. WorkerInv(w)'
    BY <1>2, <1>3, <2>1, <2>2 DEF WorkerInv, AnswerKnown, Reading, Kinds
  <2> QED
    BY <1>2, <2>1, <2>2, <2>3, <2>4, TypeByWorker DEF table
<1>4. CASE ~(kind = "login" \/ (loggedIn /\ kind # "page"))
  <2>1. PICK status \in {"file", "redirect"} :
          out' = [out EXCEPT ![w] = Response(status, None)] /\ Goto(w, "reply")
    BY <1>4 DEF Route, Respond
  <2>2. out'[w] = Response(status, None) /\ pc'[w] = "reply"
    BY <2>1 DEF Goto, TypeOK
  <2>3. out' \in [Workers -> [status : Statuses, about : Abouts]]
    BY <2>1 DEF TypeOK, Response, Statuses, Abouts, Tokens
  <2>4. DataType'
    BY <1>1, <2>3 DEF TypeOK, DataType, table
  <2>5. WorkerInv(w)'
    BY <1>2, <2>2 DEF WorkerInv, Response, Reading
  <2>6. \A x \in Workers : x # w => out'[x] = out[x]
    BY <2>1 DEF TypeOK
  <2> QED
    BY <1>2, <2>1, <2>4, <2>5, <2>6, TypeByWorker DEF table, Labels, Holding
<1> QED
  BY <1>3, <1>4

(* An action that answers, and changes no other worker. *)
LEMMA TypeRespond ==
  ASSUME TypeInv, NEW w \in Workers,
         NEW status \in Statuses, NEW about \in Abouts, Respond(w, status, about),
         status = "welcome" => about \in Users,
         \/ pc[w] \notin Holding /\ login_mutex' = login_mutex
         \/ pc[w] \in Holding /\ login_mutex' = None,
         hash' \in [Slots -> Tokens], name' \in [Slots -> Tokens],
         arena' \in [Workers -> 0 .. ArenaSize],
         UNCHANGED <<req, user, seen, at, cookie, up>>
  PROVE  TypeInv'
<1>1. out'[w] = Response(status, about) /\ pc'[w] = "reply" /\ Goto(w, "reply")
  BY DEF Respond, Goto, TypeInv, TypeOK
<1>2. out' \in [Workers -> [status : Statuses, about : Abouts]]
  BY DEF Respond, Response, TypeInv, TypeOK
<1>3. DataType'
  BY <1>2 DEF TypeInv, TypeOK, DataType
<1>4. WorkerInv(w)'
  BY <1>1 DEF WorkerInv, Response, Reading
<1>5. \A x \in Workers : x # w => out'[x] = out[x]
  BY DEF Respond, TypeInv, TypeOK
<1> QED
  BY <1>1, <1>3, <1>4, <1>5, TypeByWorker DEF Labels, Holding

(* The tables after a step of the login table. *)
LEMMA TableType ==
  ASSUME TypeInv, NEW i \in Slots, NEW u \in Tokens
  PROVE  /\ [hash EXCEPT ![i] = u] \in [Slots -> Tokens]
         /\ [name EXCEPT ![i] = u] \in [Slots -> Tokens]
BY DEF TypeInv, TypeOK

(* A crash leaves a fresh process. *)
LEMMA TypeCrash == ASSUME TypeInv, Crash PROVE TypeInv'
<1>1. /\ hash' = [i \in Slots |-> None] /\ name' = [i \in Slots |-> None]
      /\ login_mutex' = None /\ pc' = [w \in Workers |-> "idle"]
      /\ req' = [w \in Workers |-> NoRequest] /\ user' = [w \in Workers |-> NoSlot]
      /\ seen' = [w \in Workers |-> None] /\ at' = [w \in Workers |-> 1]
      /\ arena' = [w \in Workers |-> 0] /\ out' = [w \in Workers |-> NoResponse]
      /\ cookie' = cookie /\ up' = FALSE
  BY DEF Crash, Fresh
<1>2. NoRequest \in RequestType /\ NoResponse \in [status : Statuses, about : Abouts]
      /\ NoResponse.status = "none" /\ None \in Tokens /\ 1 \in 1 .. Len(users) + 1
      /\ 0 \in 0 .. ArenaSize /\ "idle" \in Labels \ Holding /\ None \notin Workers
      /\ "idle" \notin Reading
  BY SessionAssumption DEF NoRequest, RequestType, NoResponse, Response, Statuses, Abouts, Tokens,
     Labels, Holding, Reading
<1>3. (\A w \in Workers : (pc[w] \in Holding) = (login_mutex = w))'
  BY <1>1, <1>2
<1>4. cookie \in [Browsers -> Tokens]
  BY DEF TypeInv, TypeOK
<1>5. TypeOK'
  BY <1>1, <1>2, <1>3, <1>4 DEF TypeOK
<1>6. TokenKnown' /\ AnswerKnown'
  BY <1>1, <1>2 DEF TokenKnown, AnswerKnown
<1> QED
  BY <1>5, <1>6 DEF TypeInv

(* A worker that serves a user's name or tags, or moves on without an answer. *)
LEMMA TypeMove ==
  ASSUME TypeInv, NEW w \in Workers, NEW label \in Labels, Goto(w, label),
         pc[w] \notin {"idle", "login", "reply"}, label \notin {"lookup", "reply"},
         label \in Reading => pc[w] \in Reading,
         \/ pc[w] \notin Holding /\ label \notin Holding /\ login_mutex' = login_mutex
         \/ pc[w] \notin Holding /\ label \in Holding /\ login_mutex = None /\ login_mutex' = w,
         seen' \in [Workers -> Tokens], at' \in [Workers -> 1 .. Len(users) + 1],
         arena' \in [Workers -> 0 .. ArenaSize],
         UNCHANGED <<hash, name, req, user, out, cookie, up>>
  PROVE  TypeInv'
<1>1. DataType'
  BY DEF TypeInv, TypeOK, DataType
<1>2. pc'[w] = label
  BY DEF Goto, TypeInv, TypeOK
<1>3. req[w].token \in Users /\ out[w].status = "none"
  BY DEF TypeInv, TokenKnown, AnswerKnown
<1>4. label \in Reading => user[w] # NoSlot
  BY DEF TypeInv, TypeOK
<1>6. out'[w] = out[w] /\ req'[w] = req[w] /\ user'[w] = user[w]
  OBVIOUS
<1>7. out'[w].status = "none"
  BY <1>3, <1>6, Zenon
<1>8. pc'[w] # "lookup" /\ pc'[w] # "reply"
  BY <1>2
<1>5. WorkerInv(w)'
  BY <1>2, <1>3, <1>4, <1>6, <1>7, <1>8 DEF WorkerInv
<1> QED
  BY <1>1, <1>5, TypeByWorker

(* What the assumptions say of the list of users. *)
LEMMA KnownUsers ==
  /\ Len(users) \in Nat /\ ArenaSize \in Nat
  /\ \A i \in 1 .. Len(users) : users[i] \in Users
  /\ None \notin Users
<1>1. users \in Seq(Users) /\ ArenaSize \in Nat /\ None \notin Users
  BY SessionAssumption
<1>2. Len(users) \in Nat
  BY <1>1
<1>3. \A i \in 1 .. Len(users) : users[i] \in Users
  BY DEF Users
<1> QED
  BY <1>1, <1>2, <1>3

(* Every action keeps the types and what they rest on. *)
LEMMA TypeStep == TypeInv /\ [Next]_vars => TypeInv'
<1> SUFFICES ASSUME TypeInv, [Next]_vars PROVE TypeInv'
  OBVIOUS
<1>0. Len(users) \in Nat /\ ArenaSize \in Nat /\ (\A i \in 1 .. Len(users) : users[i] \in Users)
      /\ None \notin Users
  BY KnownUsers
<1>1. ASSUME NEW w \in Workers, Arrive(w) PROVE TypeInv'
  <2>1. PICK b \in Browsers, kind \in Kinds, login \in Users \cup {Stranger, None} :
               Receive(w, b, kind, login)
    BY <1>1 DEF Arrive
  <2> DEFINE r == [kind |-> kind, from |-> b, token |-> cookie[b], login |-> login]
  <2>2. r \in RequestType /\ cookie[b] \in Tokens
    BY DEF RequestType, TypeInv, TypeOK, Tokens
  <2>3. pc[w] = "idle" /\ pc[w] \notin Holding /\ user[w] \in Slots \cup {NoSlot}
    BY <2>1 DEF Receive, Holding, TypeInv, TypeOK
  <2>4. /\ req' = [req EXCEPT ![w] = r] /\ user' = [user EXCEPT ![w] = user[w]]
        /\ UNCHANGED table /\ UNCHANGED <<seen, at, arena, cookie, up>>
    BY <2>1 DEF Receive, TypeInv, TypeOK
  <2> HIDE DEF r
  <2>5. CASE cookie[b] = None
    <3>1. Route(w, kind, FALSE)
      BY <2>1, <2>5 DEF Receive
    <3> QED
      BY <2>2, <2>3, <2>4, <3>1, TypeRoute
  <2>6. CASE cookie[b] # None
    <3>1. Goto(w, "lookup") /\ out' = out
      BY <2>1, <2>6 DEF Receive
    <3>2. r.token \in Users
      BY <2>2, <2>6 DEF r, Tokens
    <3>3. DataType'
      BY <2>2, <2>4, <3>1 DEF TypeInv, TypeOK, DataType, table
    <3>4. req'[w] = r /\ pc'[w] = "lookup" /\ \A x \in Workers : x # w => req'[x] = req[x]
      BY <2>4, <3>1 DEF TypeInv, TypeOK, Goto
    <3>6. r.kind \in Kinds
      BY DEF r
    <3>5. WorkerInv(w)'
      BY <2>3, <3>6, <3>1, <3>2, <3>4 DEF WorkerInv, TypeInv, AnswerKnown, Reading
    <3> QED
      BY <2>3, <2>4, <3>1, <3>3, <3>4, <3>5, TypeByWorker
      DEF table, Labels, Holding, TypeInv, TypeOK
  <2> QED
    BY <2>5, <2>6
<1>2. ASSUME NEW w \in Workers, Lookup(w) PROVE TypeInv'
  <2>1. pc[w] = "lookup" /\ pc[w] \notin Holding /\ req[w].token \in Users
    BY <1>2 DEF Lookup, Holding, TypeInv, TokenKnown
  <2>2. PICK v : v = Find(req[w].token)
    OBVIOUS
  <2>3. v \in Slots \cup {NoSlot}
    BY <2>1, <2>2, FindCorrect
  <2>4. PICK kind \in Kinds : kind = req[w].kind
    BY <2>1 DEF TypeInv, TokenKnown
  <2>5. user' = [user EXCEPT ![w] = v] /\ user'[w] = v /\ req' = [req EXCEPT ![w] = req[w]]
    BY <1>2, <2>2 DEF Lookup, TypeInv, TypeOK
  <2>6. PICK loggedIn \in BOOLEAN : loggedIn = (v # NoSlot)
    OBVIOUS
  <2>7. Route(w, kind, loggedIn) /\ UNCHANGED <<table, seen, at, arena, cookie, up>>
    BY <1>2, <2>4, <2>5, <2>6 DEF Lookup
  <2>8. req[w] \in RequestType
    BY DEF TypeInv, TypeOK
  <2> QED
    BY <2>1, <2>3, <2>5, <2>6, <2>7, <2>8, TypeRoute
<1>3. ASSUME NEW w \in Workers, LoginParse(w) PROVE TypeInv'
  <2>1. Cost["login"] \in 0 .. ArenaSize /\ arena' \in [Workers -> 0 .. ArenaSize]
    BY <1>0, <1>3, SessionAssumption DEF LoginParse, TypeInv, TypeOK
  <2>2. CASE req[w].login \notin Users
    BY <1>3, <2>1, <2>2, TypeRespond
    DEF LoginParse, table, Statuses, Abouts, Tokens, Holding, TypeInv, TypeOK
  <2>3. CASE req[w].login \in Users
    <3>1. req' = [req EXCEPT ![w].token = req[w].login] /\ Goto(w, "login_lock") /\ out' = out
          /\ UNCHANGED <<table, user, seen, at, cookie, up>> /\ pc[w] = "login"
      BY <1>3, <2>3 DEF LoginParse
    <3>6. PICK r : r = [req[w] EXCEPT !.token = req[w].login]
      OBVIOUS
    <3>9. req[w] \in RequestType
      BY DEF TypeInv, TypeOK
    <3>7. r \in RequestType /\ r.token \in Users
      BY <2>3, <3>6, <3>9 DEF RequestType, Tokens
    <3>8. req' = [req EXCEPT ![w] = r]
      BY <3>1, <3>6
    <3>2. req' \in [Workers -> RequestType] /\ req'[w].token \in Users
          /\ \A x \in Workers : x # w => req'[x] = req[x]
      BY <3>7, <3>8 DEF TypeInv, TypeOK
    <3>3. DataType'
      BY <2>1, <3>1, <3>2 DEF TypeInv, TypeOK, DataType, table
    <3>4. pc'[w] = "login_lock"
      BY <3>1 DEF Goto, TypeInv, TypeOK
    <3>5. WorkerInv(w)'
      BY <3>1, <3>2, <3>4 DEF WorkerInv, TypeInv, AnswerKnown, Reading
    <3> QED
      BY <3>1, <3>2, <3>3, <3>5, TypeByWorker DEF table, Labels, Holding
  <2> QED
    BY <2>2, <2>3
<1>4. ASSUME NEW w \in Workers, LoginLock(w) \/ LogoutLock(w) PROVE TypeInv'
  <2>1. PICK from \in {"login_lock", "logout"}, to \in Holding : Acquire(w, from, to)
    BY <1>4 DEF LoginLock, LogoutLock, Holding
  <2>2. /\ pc[w] = from /\ Goto(w, to) /\ login_mutex = None /\ login_mutex' = w
        /\ UNCHANGED <<hash, name, req, user, seen, at, arena, out, cookie, up>>
    BY <2>1 DEF Acquire
  <2>3. /\ from \notin Holding \cup {"idle", "login", "reply"} /\ to \in Labels
        /\ to \notin Reading \cup {"lookup", "reply"}
    BY <1>4, <2>1 DEF Holding, Labels, Reading
  <2>4. /\ seen \in [Workers -> Tokens] /\ at \in [Workers -> 1 .. Len(users) + 1]
        /\ arena \in [Workers -> 0 .. ArenaSize]
    BY DEF TypeInv, TypeOK
  <2> QED
    BY <2>2, <2>3, <2>4, TypeMove
<1>5. ASSUME NEW w \in Workers, LoginStore(w) PROVE TypeInv'
  <2>1. PICK u \in Users : u = req[w].token
    BY <1>5 DEF LoginStore, TypeInv, TokenKnown
  <2>2. PICK i : i = PlaceFor(u)
    OBVIOUS
  <2>3. i \in Slots \cup {NoSlot} /\ u \in Tokens
    BY <2>1, <2>2, PlaceCorrect DEF Tokens
  <2>4. IF i = NoSlot THEN UNCHANGED <<hash, name>>
        ELSE /\ hash' = [hash EXCEPT ![i] = u]
             /\ name' = [name EXCEPT ![i] = u]
    BY <1>5, <2>1, <2>2 DEF LoginStore
  <2>5. hash' \in [Slots -> Tokens] /\ name' \in [Slots -> Tokens]
    <3>1. CASE i = NoSlot
      BY <2>4, <3>1 DEF TypeInv, TypeOK
    <3>2. CASE i # NoSlot
      BY <2>3, <2>4, <3>2, TableType
    <3> QED
      BY <3>1, <3>2
  <2> QED
    BY <1>5, <2>1, <2>3, <2>5, TypeRespond
    DEF LoginStore, Statuses, Abouts, Holding, TypeInv, TypeOK
<1>6. ASSUME NEW w \in Workers, LogoutClear(w) PROVE TypeInv'
  <2>1. PICK u \in Users : u = req[w].token
    BY <1>6 DEF LogoutClear, TypeInv, TokenKnown
  <2>2. PICK i : i = Find(u)
    OBVIOUS
  <2>3. i \in Slots \cup {NoSlot} /\ None \in Tokens
    BY <2>1, <2>2, FindCorrect DEF Tokens
  <2>4. IF i = NoSlot THEN UNCHANGED <<hash, name>>
        ELSE /\ hash' = [hash EXCEPT ![i] = None]
             /\ name' = [name EXCEPT ![i] = None]
    BY <1>6, <2>1, <2>2 DEF LogoutClear
  <2>5. hash' \in [Slots -> Tokens] /\ name' \in [Slots -> Tokens]
    <3>1. CASE i = NoSlot
      BY <2>4, <3>1 DEF TypeInv, TypeOK
    <3>2. CASE i # NoSlot
      BY <2>3, <2>4, <3>2, TableType
    <3> QED
      BY <3>1, <3>2
  <2> QED
    BY <1>6, <2>3, <2>5, TypeRespond
    DEF LogoutClear, Statuses, Abouts, Holding, TypeInv, TypeOK
<1>7. ASSUME NEW w \in Workers, NEW what \in {"user", "name", "tags"}, Fits(w, what), Allocate(w, what)
      PROVE  arena' \in [Workers -> 0 .. ArenaSize]
  <2>1. arena[w] \in Nat /\ Cost[what] \in Nat /\ arena[w] + Cost[what] \in 0 .. ArenaSize
    BY <1>0, <1>7, SessionAssumption DEF Fits, TypeInv, TypeOK
  <2> QED
    BY <1>7, <2>1 DEF Allocate, TypeInv, TypeOK
<1>8. ASSUME NEW w \in Workers, UserParse(w) PROVE TypeInv'
  <2>1. CASE Crash
    BY <2>1, TypeCrash
  <2>2. CASE ~Crash
    <3>1. Fits(w, "user") /\ Allocate(w, "user") /\ Goto(w, "measure") /\ pc[w] = "user"
          /\ UNCHANGED <<table, req, user, seen, at, out, cookie, up>>
      BY <1>8, <2>2 DEF UserParse
    <3>2. arena' \in [Workers -> 0 .. ArenaSize]
      BY <1>7, <3>1
    <3> QED
      BY <3>1, <3>2, TypeMove DEF table, Labels, Holding, Reading, TypeInv, TypeOK
  <2> QED
    BY <2>1, <2>2
<1>9. ASSUME NEW w \in Workers, Measure(w) PROVE TypeInv'
  <2>1. pc[w] = "measure" /\ user[w] \in Slots
    BY <1>9 DEF Measure, Reading, TypeInv, TypeOK
  <2>2. seen' \in [Workers -> Tokens]
    BY <1>9, <2>1 DEF Measure, TypeInv, TypeOK
  <2> QED
    BY <1>9, <2>1, <2>2, TypeMove DEF Measure, table, Labels, Holding, Reading, TypeInv, TypeOK
<1>10. ASSUME NEW w \in Workers, CopyName(w) PROVE TypeInv'
  <2>1. pc[w] = "copy" /\ name[user[w]] \in Tokens
    BY <1>10 DEF CopyName, Reading, TypeInv, TypeOK
  <2>2. CASE Crash
    BY <2>2, TypeCrash
  <2>3. CASE Fits(w, "name") /\ ~Crash
    <3>1. PICK copy \in Copied(seen[w], name[user[w]]) : Respond(w, "name", copy)
      BY <1>10, <2>3 DEF CopyName
    <3>2. copy \in Abouts
      BY <2>1, <3>1 DEF Copied, Abouts
    <3>3. /\ arena' \in [Workers -> 0 .. ArenaSize]
          /\ UNCHANGED <<table, req, user, seen, at, cookie, up>>
      BY <1>7, <1>10, <2>3 DEF CopyName
    <3> QED
      BY <2>1, <3>1, <3>2, <3>3, TypeRespond DEF table, Statuses, Holding, TypeInv, TypeOK
  <2>4. CASE ~Fits(w, "name") /\ ~Crash
    <3>1. /\ arena' = [arena EXCEPT ![w] = ArenaSize] /\ Respond(w, "name", None)
          /\ UNCHANGED <<table, req, user, seen, at, cookie, up>>
      BY <1>10, <2>4 DEF CopyName
    <3>2. arena' \in [Workers -> 0 .. ArenaSize] /\ None \in Abouts
      BY <1>0, <3>1 DEF TypeInv, TypeOK, Abouts, Tokens
    <3> QED
      BY <2>1, <3>1, <3>2, TypeRespond DEF table, Statuses, Holding, TypeInv, TypeOK
  <2> QED
    BY <2>2, <2>3, <2>4
<1>11. ASSUME NEW w \in Workers, TagsParse(w) PROVE TypeInv'
  <2>1. arena' \in [Workers -> 0 .. ArenaSize]
    BY <1>7, <1>11 DEF TagsParse, TypeInv, TypeOK
  <2> QED
    BY <1>11, <2>1, TypeMove DEF TagsParse, table, Labels, Holding, Reading, TypeInv, TypeOK
<1>12. ASSUME NEW w \in Workers, Compare(w) PROVE TypeInv'
  <2>1. at[w] \in 1 .. Len(users) /\ users[at[w]] \in Tokens /\ pc[w] = "compare"
    BY <1>0, <1>12 DEF Compare, TypeInv, TypeOK, Tokens
  <2>2. at' \in [Workers -> 1 .. Len(users) + 1] /\ seen' \in [Workers -> Tokens]
    BY <1>0, <1>12, <2>1 DEF Compare, TypeInv, TypeOK
  <2>3. pc' = [pc EXCEPT ![w] = "compare"]
    BY <1>12, <2>1 DEF Compare, TypeInv, TypeOK
  <2> QED
    BY <1>12, <2>1, <2>2, <2>3, TypeMove
    DEF Compare, Goto, table, Labels, Holding, Reading, TypeInv, TypeOK
<1>13. ASSUME NEW w \in Workers, TagsAnswer(w) PROVE TypeInv'
  BY <1>13, TypeRespond DEF TagsAnswer, table, Statuses, Abouts, Holding, TypeInv, TypeOK
<1>14. ASSUME NEW w \in Workers, Reply(w) PROVE TypeInv'
  <2>1. DataType'
    <3>1. cookie' \in [Browsers -> Tokens]
      <4>1. PICK v : cookie' = [cookie EXCEPT ![req[w].from] = v]
                     /\ (v \in Tokens \/ v = cookie[req[w].from])
        <5>1. CASE out[w].status = "welcome"
          BY <1>14, <5>1 DEF Reply, TypeInv, AnswerKnown, Tokens
        <5>2. CASE out[w].status = "bye"
          BY <1>14, <5>2 DEF Reply, Tokens
        <5>3. CASE out[w].status \notin {"welcome", "bye"}
          BY <1>14, <5>3 DEF Reply
        <5> QED
          BY <5>1, <5>2, <5>3
      <4>2. cookie \in [Browsers -> Tokens]
        BY DEF TypeInv, TypeOK
      <4>3. CASE req[w].from \in Browsers
        BY <4>1, <4>2, <4>3
      <4>4. CASE req[w].from \notin Browsers
        BY <4>1, <4>2, <4>4
      <4> QED
        BY <4>3, <4>4
    <3>2. req' \in [Workers -> RequestType] /\ user' \in [Workers -> Slots \cup {NoSlot}]
          /\ seen' \in [Workers -> Tokens] /\ at' \in [Workers -> 1 .. Len(users) + 1]
          /\ out' \in [Workers -> [status : Statuses, about : Abouts]]
      BY <1>0, <1>14 DEF Reply, TypeInv, TypeOK, NoRequest, RequestType, NoResponse, Response,
         Statuses, Abouts, Tokens
    <3> QED
      BY <1>14, <3>1, <3>2 DEF Reply, TypeInv, TypeOK, DataType, table
  <2>2. pc'[w] = "idle" /\ out'[w] = NoResponse
    BY <1>14 DEF Reply, Goto, TypeInv, TypeOK
  <2>3. WorkerInv(w)'
    BY <2>2 DEF WorkerInv, NoResponse, Response, Reading
  <2>4. \A x \in Workers : x # w => user'[x] = user[x] /\ req'[x] = req[x] /\ out'[x] = out[x]
    BY <1>14 DEF Reply, TypeInv, TypeOK
  <2> QED
    BY <1>14, <2>1, <2>3, <2>4, TypeByWorker DEF Reply, table, Labels, Holding, TypeInv, TypeOK
<1>15. ASSUME Restart \/ UNCHANGED vars PROVE TypeInv'
  <2>1. UNCHANGED <<table, local, cookie>>
    BY <1>15 DEF Restart, vars, table, local
  <2>2. up' \in BOOLEAN
    BY <1>15 DEF Restart, vars, TypeInv, TypeOK
  <2>3. TypeOK'
    BY <2>1, <2>2 DEF table, local, TypeInv, TypeOK
  <2>4. TokenKnown' /\ AnswerKnown'
    BY <2>1 DEF local, TypeInv, TokenKnown, AnswerKnown
  <2> QED
    BY <2>3, <2>4 DEF TypeInv
<1> QED
  BY <1>1, <1>2, <1>3, <1>4, <1>5, <1>6, <1>8, <1>9, <1>10, <1>11, <1>12, <1>13, <1>14, <1>15
  DEF Next, Contend, Proceed

(* Every variable keeps its type, and login_mutex is held by the worker in a *)
(* critical section, by nobody when there is none: no path of handle_login,  *)
(* handle_logout or get_user_entry_ptr leaves it locked.                     *)
THEOREM TypeCorrect == Spec => []TypeOK
<1>1. Spec => []TypeInv
  BY TypeInit, TypeStep, PTL DEF Spec
<1>2. TypeInv => TypeOK
  BY DEF TypeInv
<1> QED
  BY <1>1, <1>2, PTL

-----------------------------------------------------------------------------
(* The table *)

(* Only logins and logouts change the table, and a crash empties it. *)
LEMMA TableSteps ==
  ASSUME TypeInv, [Next]_vars,
         ~Crash, \A w \in Workers : ~LoginStore(w) /\ ~LogoutClear(w)
  PROVE  hash' = hash /\ name' = name
BY DEF Next, Arrive, Contend, Proceed, Receive, Lookup, LoginParse, LoginLock, LogoutLock,
   Acquire, UserParse, Measure, CopyName, TagsParse, Compare, TagsAnswer, Reply, Restart,
   vars, table

(* What a login does to the table. *)
LEMMA LoginTable ==
  ASSUME TypeInv, NEW w \in Workers, LoginStore(w)
  PROVE  /\ req[w].token \in Users
         /\ \/ UNCHANGED <<hash, name>>
            \/ \E i \in Slots :
                 /\ i = PlaceFor(req[w].token)
                 /\ hash' = [hash EXCEPT ![i] = req[w].token]
                 /\ name' = [name EXCEPT ![i] = req[w].token]
                 /\ \/ hash[i] = req[w].token
                    \/ hash[i] = None /\ \A j \in Slots : hash[j] # req[w].token
<1>1. req[w].token \in Users
  BY DEF LoginStore, TypeInv, TokenKnown
<1>2. PICK i : i = PlaceFor(req[w].token)
  OBVIOUS
<1>3. IF i = NoSlot THEN UNCHANGED <<hash, name>>
      ELSE /\ hash' = [hash EXCEPT ![i] = req[w].token]
           /\ name' = [name EXCEPT ![i] = req[w].token]
  BY <1>2 DEF LoginStore
<1>4. i # NoSlot => /\ i \in Slots
                    /\ \/ hash[i] = req[w].token
                       \/ hash[i] = None /\ \A j \in Slots : hash[j] # req[w].token
  BY <1>1, <1>2, PlaceCorrect
<1> QED
  BY <1>1, <1>2, <1>3, <1>4

(* What a logout does to the table. *)
LEMMA LogoutTable ==
  ASSUME TypeInv, NEW w \in Workers, LogoutClear(w)
  PROVE  \/ UNCHANGED <<hash, name>>
         \/ \E i \in Slots : /\ hash' = [hash EXCEPT ![i] = None]
                             /\ name' = [name EXCEPT ![i] = None]
<1>1. req[w].token \in Users
  BY DEF LogoutClear, TypeInv, TokenKnown
<1>2. PICK i : i = Find(req[w].token)
  OBVIOUS
<1>3. i # NoSlot => i \in Slots
  BY <1>1, <1>2, FindCorrect
<1>4. IF i = NoSlot THEN UNCHANGED <<hash, name>>
      ELSE /\ hash' = [hash EXCEPT ![i] = None]
           /\ name' = [name EXCEPT ![i] = None]
  BY <1>2 DEF LogoutClear
<1> QED
  BY <1>3, <1>4

(* Logins and logouts keep each token in one slot. *)
LEMMA OneSlotStep == TypeInv /\ OneSlotPerToken /\ [Next]_vars => OneSlotPerToken'
<1> SUFFICES ASSUME TypeInv, OneSlotPerToken, [Next]_vars PROVE OneSlotPerToken'
  OBVIOUS
<1>0. hash \in [Slots -> Tokens]
  BY DEF TypeInv, TypeOK
<1>1. CASE Crash
  BY <1>1 DEF Crash, Fresh, OneSlotPerToken
<1>2. ASSUME NEW w \in Workers, LoginStore(w) PROVE OneSlotPerToken'
  <2>1. CASE UNCHANGED <<hash, name>>
    BY <2>1 DEF OneSlotPerToken
  <2>2. CASE ~UNCHANGED <<hash, name>>
    <3>1. PICK u : u = req[w].token
      OBVIOUS
    <3>2. PICK i \in Slots : /\ hash' = [hash EXCEPT ![i] = u]
                             /\ hash[i] = u \/ (hash[i] = None /\ \A j \in Slots : hash[j] # u)
      BY <1>2, <2>2, <3>1, LoginTable
    <3>3. hash'[i] = u /\ \A j \in Slots : j # i => hash'[j] = hash[j]
      BY <1>0, <3>2
    <3>4. \A j \in Slots : j # i /\ hash[j] = u => u = None
      BY <3>2 DEF OneSlotPerToken
    <3> QED
      BY <3>3, <3>4 DEF OneSlotPerToken
  <2> QED
    BY <2>1, <2>2
<1>3. ASSUME NEW w \in Workers, LogoutClear(w) PROVE OneSlotPerToken'
  <2>1. CASE UNCHANGED <<hash, name>>
    BY <2>1 DEF OneSlotPerToken
  <2>2. CASE ~UNCHANGED <<hash, name>>
    <3>1. PICK i \in Slots : hash' = [hash EXCEPT ![i] = None]
      BY <1>3, <2>2, LogoutTable
    <3>2. hash'[i] = None /\ \A j \in Slots : j # i => hash'[j] = hash[j]
      BY <1>0, <3>1
    <3> QED
      BY <3>2 DEF OneSlotPerToken
  <2> QED
    BY <2>1, <2>2
<1>4. CASE ~Crash /\ \A w \in Workers : ~LoginStore(w) /\ ~LogoutClear(w)
  <2>1. hash' = hash
    BY <1>4, TableSteps
  <2> QED
    BY <2>1 DEF OneSlotPerToken
<1> QED
  BY <1>1, <1>2, <1>3, <1>4

(* A token never occupies two slots, for every assignment of home slots: what *)
(* logouts empty, later logins may fill, but a login finds its token first.   *)
THEOREM OneSlotCorrect == Spec => []OneSlotPerToken
<1>1. Init => OneSlotPerToken
  BY DEF Init, Fresh, OneSlotPerToken
<1>2. Spec => [](TypeInv /\ OneSlotPerToken)
  BY <1>1, TypeInit, TypeStep, OneSlotStep, PTL DEF Spec
<1> QED
  BY <1>2, PTL

-----------------------------------------------------------------------------
(* Answers *)

(* No two users share a home slot. *)
Collisionless == \A u, v \in Users : Home[u] = Home[v] => u = v

(* Every stored session is at its home slot, under its user's name. *)
AtHome == \A i \in Slots : /\ name[i] = hash[i]
                           /\ hash[i] # None => Home[hash[i]] = i

(* A worker that reads the table reads its own user's home slot, has seen     *)
(* there its own user's name or nothing, and answers accordingly.             *)
OwnPart(w) ==
  /\ pc[w] \in Reading => user[w] = Home[req[w].token] /\ seen[w] \in {None, req[w].token}
  /\ pc[w] \notin Reading \cup {"reply"} => seen[w] = None
  /\ out[w].status \in {"name", "tags"} => out[w].about \in {req[w].token, None, Garbled}

OwnInv == TypeInv /\ AtHome /\ \A w \in Workers : OwnPart(w)

(* Without collisions a search never leaves the home slot. *)
LEMMA StaysHome ==
  ASSUME Collisionless, TypeInv, AtHome, NEW u \in Users
  PROVE  /\ PlaceFor(u) = Home[u]
         /\ Find(u) # NoSlot => Find(u) = Home[u]
         /\ name[Home[u]] \in {None, u}
<1>1. Home[u] \in Slots /\ hash[Home[u]] \in Tokens
  BY SessionAssumption DEF TypeInv, TypeOK
<1>2. hash[Home[u]] \in {u, None}
  BY <1>1 DEF Collisionless, AtHome, Tokens
<1>3. Find(u) # NoSlot => Find(u) = Home[u]
  BY FindCorrect, SessionAssumption DEF AtHome
<1>4. Insert(u) = Home[u]
  BY <1>2, FirstProbeFinds DEF Insert
<1> QED
  BY <1>1, <1>2, <1>3, <1>4 DEF PlaceFor, AtHome

(* Without collisions, each step keeps every session in its token's home slot. *)
LEMMA AtHomeStep ==
  ASSUME Collisionless, TypeInv, AtHome, [Next]_vars
  PROVE  AtHome'
<1>0. hash \in [Slots -> Tokens] /\ name \in [Slots -> Tokens]
  BY DEF TypeInv, TypeOK
<1>1. CASE Crash
  BY <1>1 DEF Crash, Fresh, AtHome
<1>2. ASSUME NEW w \in Workers, LoginStore(w) PROVE AtHome'
  <2>1. CASE UNCHANGED <<hash, name>>
    BY <2>1 DEF AtHome
  <2>2. CASE ~UNCHANGED <<hash, name>>
    <3>1. PICK u \in Users : u = req[w].token
      BY <1>2, LoginTable
    <3>2. PICK i \in Slots : /\ i = PlaceFor(u)
                             /\ hash' = [hash EXCEPT ![i] = u]
                             /\ name' = [name EXCEPT ![i] = u]
      BY <1>2, <2>2, <3>1, LoginTable
    <3>3. i = Home[u]
      BY <3>2, StaysHome
    <3> QED
      BY <1>0, <3>2, <3>3 DEF AtHome
  <2> QED
    BY <2>1, <2>2
<1>3. ASSUME NEW w \in Workers, LogoutClear(w) PROVE AtHome'
  <2>1. CASE UNCHANGED <<hash, name>>
    BY <2>1 DEF AtHome
  <2>2. CASE ~UNCHANGED <<hash, name>>
    <3>1. PICK i \in Slots : /\ hash' = [hash EXCEPT ![i] = None]
                             /\ name' = [name EXCEPT ![i] = None]
      BY <1>3, <2>2, LogoutTable
    <3> QED
      BY <1>0, <3>1 DEF AtHome
  <2> QED
    BY <2>1, <2>2
<1>4. CASE ~Crash /\ \A w \in Workers : ~LoginStore(w) /\ ~LogoutClear(w)
  <2>1. hash' = hash /\ name' = name
    BY <1>4, TableSteps
  <2> QED
    BY <2>1 DEF AtHome
<1> QED
  BY <1>1, <1>2, <1>3, <1>4

(* Only a crash changes more than one worker. *)
LEMMA OthersKept ==
  ASSUME TypeOK, NEW w \in Workers, ~Crash, Arrive(w) \/ Contend(w) \/ Proceed(w)
  PROVE  \A v \in Workers : v # w =>
            /\ pc'[v] = pc[v] /\ user'[v] = user[v] /\ req'[v] = req[v]
            /\ seen'[v] = seen[v] /\ out'[v] = out[v]
<1>1. CASE Arrive(w)
  BY <1>1 DEF TypeOK, Arrive, Receive, Route, Goto, Respond
<1>2. CASE Contend(w)
  BY <1>2 DEF TypeOK, Contend, Lookup, LoginLock, LogoutLock, Acquire, Route, Goto, Respond
<1>3. CASE Proceed(w)
  BY <1>3 DEF TypeOK, Proceed, LoginParse, LoginStore, LogoutClear, UserParse, Measure,
     CopyName, TagsParse, Compare, TagsAnswer, Reply, Goto, Respond
<1> QED
  BY <1>1, <1>2, <1>3

(* A step of one worker leaves what the others have seen and answer alone. *)
LEMMA OwnByWorker ==
  ASSUME \A v \in Workers : OwnPart(v), NEW w \in Workers, OwnPart(w)',
         \A v \in Workers : v # w =>
           /\ pc'[v] = pc[v] /\ user'[v] = user[v] /\ req'[v] = req[v]
           /\ seen'[v] = seen[v] /\ out'[v] = out[v]
  PROVE  (\A v \in Workers : OwnPart(v))'
<1>1. \A v \in Workers : v # w => OwnPart(v)'
  BY DEF OwnPart
<1> QED
  BY <1>1

(* Each step keeps what a worker read through request.user its own user's. *)
LEMMA OwnStep ==
  ASSUME Collisionless, OwnInv, [Next]_vars
  PROVE  OwnInv'
<1>0. TypeInv /\ AtHome /\ TypeOK /\ (\A w \in Workers : OwnPart(w)) /\ TypeInv' /\ AtHome'
  BY TypeStep, AtHomeStep DEF OwnInv, TypeInv
<1>1. SUFFICES (\A w \in Workers : OwnPart(w))'
  BY <1>0 DEF OwnInv
<1>2. CASE Crash
  BY <1>2 DEF Crash, Fresh, OwnPart, Reading, NoResponse, Response
<1>3. CASE Restart \/ UNCHANGED vars
  BY <1>0, <1>3 DEF Restart, vars, local, OwnPart
<1>4. ASSUME NEW w \in Workers, ~Crash, Arrive(w) \/ Contend(w) \/ Proceed(w)
      PROVE  (\A v \in Workers : OwnPart(v))'
  <2>1. \A v \in Workers : v # w =>
           /\ pc'[v] = pc[v] /\ user'[v] = user[v] /\ req'[v] = req[v]
           /\ seen'[v] = seen[v] /\ out'[v] = out[v]
    BY <1>0, <1>4, OthersKept
  <2>2. OwnPart(w)'
    <3>0. OwnPart(w) /\ pc[w] \in Labels
      BY <1>0 DEF TypeOK
    <3>1. CASE Arrive(w)
      <4>1. pc[w] = "idle" /\ seen'[w] = seen[w] /\ pc'[w] \notin Reading
            /\ out'[w].status \notin {"name", "tags"}
        BY <1>0, <3>1 DEF TypeInv, TypeOK, AnswerKnown, Arrive, Receive, Route, Goto, Respond,
           Response, Reading
      <4> QED
        BY <3>0, <4>1 DEF OwnPart, Reading
    <3>2. CASE Lookup(w)
      <4>1. pc[w] = "lookup" /\ seen[w] = None /\ seen'[w] = None /\ req[w].token \in Users
            /\ req' = req /\ out'[w].status \notin {"name", "tags"}
            /\ user'[w] = Find(req[w].token)
        <5>1. pc[w] = "lookup" /\ req[w].token \in Users /\ out[w].status = "none"
          BY <1>0, <3>2 DEF TypeInv, TokenKnown, AnswerKnown, Lookup
        <5>2. seen[w] = None
          BY <3>0, <5>1 DEF OwnPart, Reading
        <5>3. seen' = seen /\ req' = req /\ user'[w] = Find(req[w].token)
          BY <1>0, <3>2 DEF TypeOK, Lookup
        <5>4. out' = out \/ \E status \in {"file", "redirect"} :
                              out' = [out EXCEPT ![w] = Response(status, None)]
          BY <3>2 DEF Lookup, Route, Respond
        <5>5. out'[w].status \notin {"name", "tags"}
          BY <1>0, <5>1, <5>4 DEF TypeOK, Response
        <5> QED
          BY <5>1, <5>2, <5>3, <5>5
      <4>2. pc'[w] \in Reading => user'[w] # NoSlot
        BY <1>0 DEF TypeInv, TypeOK
      <4>3. pc'[w] \in Reading => user'[w] = Home[req[w].token]
        BY <1>0, <4>1, <4>2, StaysHome
      <4> QED
        BY <4>1, <4>3 DEF OwnPart
    <3>3. CASE LoginParse(w) \/ LoginLock(w) \/ LogoutLock(w) \/ LoginStore(w) \/ LogoutClear(w)
      <4>1. pc[w] \notin Reading \cup {"reply"} /\ pc'[w] \notin Reading /\ seen' = seen
            /\ out'[w].status \notin {"name", "tags"}
        BY <1>0, <3>3 DEF TypeInv, TypeOK, AnswerKnown, LoginParse, LoginLock, LogoutLock,
           LoginStore, LogoutClear, Acquire, Goto, Respond, Response, Reading
      <4> QED
        BY <3>0, <4>1 DEF OwnPart
    <3>4. CASE UserParse(w) \/ TagsParse(w)
      <4>1. pc[w] \in Reading /\ pc'[w] \in Reading /\ UNCHANGED <<user, req, seen, out>>
        BY <1>0, <1>4, <3>4 DEF TypeOK, UserParse, TagsParse, Goto, Reading
      <4> QED
        BY <3>0, <4>1 DEF OwnPart
    <3>5. CASE Measure(w)
      <4>1. pc[w] \in Reading /\ pc'[w] \in Reading /\ UNCHANGED <<user, req, out>>
            /\ seen'[w] = name[user[w]] /\ req[w].token \in Users
        BY <1>0, <3>5 DEF TypeInv, TypeOK, TokenKnown, Measure, Goto, Reading
      <4>2. seen'[w] \in {None, req[w].token}
        BY <1>0, <3>0, <4>1, StaysHome DEF OwnPart
      <4> QED
        BY <3>0, <4>1, <4>2 DEF OwnPart
    <3>6. CASE CopyName(w)
      <4>1. pc[w] = "copy" /\ pc'[w] = "reply" /\ UNCHANGED <<user, req, seen>>
            /\ req[w].token \in Users
        BY <1>0, <1>4, <3>6 DEF TypeInv, TypeOK, TokenKnown, CopyName, Goto, Respond
      <4>2. name[user[w]] \in {None, req[w].token} /\ seen[w] \in {None, req[w].token}
        BY <1>0, <3>0, <4>1, StaysHome DEF OwnPart, Reading
      <4>3. out'[w].about \in {req[w].token, None, Garbled}
        BY <1>0, <1>4, <3>6, <4>2 DEF TypeOK, CopyName, Respond, Response, Copied
      <4> QED
        BY <4>1, <4>3 DEF OwnPart, Reading
    <3>7. CASE Compare(w)
      <4>1. pc[w] = "compare" /\ pc' = pc /\ UNCHANGED <<user, req, out>>
            /\ req[w].token \in Users /\ seen'[w] \in {seen[w], name[user[w]]}
        BY <1>0, <3>7 DEF TypeInv, TypeOK, TokenKnown, Compare
      <4>2. name[user[w]] \in {None, req[w].token} /\ seen[w] \in {None, req[w].token}
        BY <1>0, <3>0, <4>1, StaysHome DEF OwnPart, Reading
      <4>3. seen'[w] \in {None, req'[w].token} /\ user'[w] = Home[req'[w].token]
        BY <3>0, <4>1, <4>2 DEF OwnPart, Reading
      <4>4. pc'[w] \in Reading /\ out'[w] = out[w] /\ req'[w] = req[w]
        BY <4>1 DEF Reading
      <4> QED
        BY <3>0, <4>3, <4>4 DEF OwnPart
    <3>8. CASE TagsAnswer(w)
      <4>1. pc[w] \in Reading /\ pc'[w] = "reply" /\ UNCHANGED <<user, req, seen>>
            /\ out'[w].about = seen[w]
        BY <1>0, <3>8 DEF TypeOK, TagsAnswer, Goto, Respond, Response, Reading
      <4> QED
        BY <3>0, <4>1 DEF OwnPart, Reading
    <3>9. CASE Reply(w)
      BY <1>0, <3>9 DEF TypeOK, Reply, Goto, OwnPart, NoResponse, Response, Reading
    <3> QED
      BY <1>4, <3>1, <3>2, <3>3, <3>4, <3>5, <3>6, <3>7, <3>8, <3>9 DEF Contend, Proceed
  <2> QED
    BY <1>0, <2>1, <2>2, OwnByWorker
<1> QED
  BY <1>2, <1>3, <1>4 DEF Next

(* When no two users share a home slot, no answer carries another user's name *)
(* or tags, although handle_api_request reads the table entry after unlocking *)
(* it while other workers log users out and in.                               *)
THEOREM AnswersCorrect == ASSUME Collisionless PROVE Spec => []OwnAnswers
<1>1. Init => OwnInv
  <2>1. Init => AtHome /\ \A w \in Workers : OwnPart(w)
    BY DEF Init, Fresh, AtHome, OwnPart, Reading, NoResponse, Response
  <2> QED
    BY <2>1, TypeInit DEF OwnInv
<1>2. OwnInv /\ [Next]_vars => OwnInv'
  BY OwnStep
<1>3. OwnInv => OwnAnswers
  BY DEF OwnInv, OwnPart, OwnAnswers
<1> QED
  BY <1>1, <1>2, <1>3, PTL DEF Spec

=============================================================================
