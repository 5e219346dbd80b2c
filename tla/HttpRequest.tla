---------------------------- MODULE HttpRequest ----------------------------
(***************************************************************************)
(* One request from its bytes to its response, in one worker of the HTTP   *)
(* server (RnD/Rackhamn/http/src/http.c): the parser, the route, the       *)
(* handlers with the JSON they read and write, the files, the cookie that  *)
(* carries the session, and a crash of the process, which the watchdog     *)
(* starts again with no session and an empty arena.                        *)
(*                                                                         *)
(* Workers that interfere with each other are in HttpSessions; here the    *)
(* data is followed instead: the body as a text of JSON lexemes, the       *)
(* cookie as hexadecimal digits, the response as the pieces that are sent. *)
(* The process is followed from the watchdog's fork through its options and *)
(* sockets to its exit, and back.                                           *)
(*                                                                         *)
(* The parser and the writer of the JSON library are parameters: what the  *)
(* server needs of them is LibraryAssumption, and JsonText has them.       *)
(***************************************************************************)
EXTENDS JsonArena

CONSTANTS Users,              (* users[]; strings                                  *)
          TokenSize, Token,   (* TOKEN_SIZE; each user's token: SHA-256 of the name*)
          Paths,              (* the paths that are asked for                      *)
          ApiPaths, LoginPaths, GuardedPaths,   (* those that begin with "/api",   *)
                              (* "/api/v1/login", and a name of is_protected_path  *)
          Ext,                (* what follows the last period of a path, or None   *)
          Disk,               (* the paths with a file at real_path                *)
          FileSize,           (* the pieces of 1024 bytes a file is sent in, and   *)
                              (* the most that a writer leaves of them to be sent  *)
          Methods,            (* the methods that are used                         *)
          Bodies,             (* the JSON texts that are sent to each path         *)
          HashSize,           (* sizeof user_t.password_hash                       *)
          RootDirSize,        (* ROOT_DIR_SIZE                                     *)
          Directories,        (* how long the directory of option -d may be        *)
          username, password, get,         (* the keys the handlers look for       *)
          json_parse(_, _), json_write(_), (* the library's parser and writer      *)
          Denoted(_), Footprint(_)         (* the documents that a text stands for, *)
                              (* and the memory that a document takes              *)

Byte == 0 .. 255
ASSUME RequestAssumption ==
  /\ TokenSize \in Nat \ {0} /\ Token \in [Users -> [1 .. TokenSize -> Byte]]
  /\ \A u, v \in Users : Token[u] = Token[v] => u = v
  /\ \A u \in Users : Token[u] # [i \in 1 .. TokenSize |-> 0]
  /\ LoginPaths \subseteq ApiPaths /\ ApiPaths \cup GuardedPaths \cup Disk \subseteq Paths
  /\ FileSize \in Nat /\ HashSize \in Nat /\ RootDirSize \in Nat \ {0} /\ Directories \subseteq Nat
  /\ Users \cup {username, password, get} \subseteq DOMAIN Length
  /\ None \notin Users \cup {"application/json"}

(* What the handlers ask the library to read and to write.                  *)
Texts == (UNION {Bodies[path] : path \in Paths}) \cup {<<>>, <<Mark("junk")>>}
NameValue(u) == [type |-> "string", s |-> u]
NameAnswer(u) == Composite("{", <<<<username, NameValue(u)>>>>)
Answers == {NameAnswer(u) : u \in Users} \cup {Composite("{", <<>>)}

(* The parser returns what the text stands for, provided that it fits into  *)
(* the arena, takes as much of it as the document needs, and stays in it    *)
(* when it fails; the writer writes a text.                                 *)
ASSUME LibraryAssumption ==
  /\ \A text \in Texts, off \in 0 .. ArenaSize :
       LET result == json_parse(text, off) IN
       /\ {result.v} \ {None} = {v \in Denoted(text) : Footprint(v) <= ArenaSize - off}
       /\ result.off \in off .. ArenaSize
       /\ result.v # None => result.off = off + Footprint(result.v)
  /\ \A text \in Texts : \A v \in Denoted(text) : Footprint(v) \in Nat
  /\ \A v \in Answers : Len(json_write(v)) \in Nat
  /\ None \notin Answers \cup {NameValue(u) : u \in Users}

VARIABLES
  life,     (* the server's process, as its watchdog sees it                       *)
  dir,      (* strlen(root_dir), while main starts                                 *)
  sessions, (* whose tokens are in login_ht                                        *)
  arena,    (* thread_json_arena.offset                                            *)
  jar,      (* the browser's sessionID: hexadecimal digits, or none                *)
  pc,       (* where the worker is                                                 *)
  conn,     (* what the browser sends: method, path, header, body; whether the     *)
            (* body is late: not, or not all of what Content-Length says, in the   *)
            (* same segment as the header; and whether a word is overlong: in the  *)
            (* request line or behind "sessionID=", longer than its buffer         *)
  req,      (* http_request_t                                                      *)
  left,     (* what is left to read of the open file                               *)
  steady,   (* ghost: nobody wrote to the file after fstat, and no read failed     *)
  sent,     (* the response: what the handlers hand to send, whose result they do  *)
            (* not look at                                                         *)
  closed,   (* how often the connection was closed                                 *)
  fault     (* ghost: the request and the arena with which the process died, or    *)
            (* answered without the name that was asked for                        *)

process == <<life, dir>>
vars == <<process, sessions, arena, jar, pc, conn, req, left, steady, sent, closed, fault>>

NoRequest == [token |-> None, has_cookie |-> FALSE, user |-> None, text |-> <<>>]

Up == life = "up"

Init ==
  /\ life = "fork" /\ dir = 0
  /\ sessions = {} /\ arena = 0
  /\ jar = <<>>
  /\ pc = "idle" /\ conn = None /\ req = NoRequest
  /\ left = 0 /\ steady = TRUE /\ sent = <<>> /\ closed = 0
  /\ fault = None
-----------------------------------------------------------------------------
(* hex_encode, hex_decode.  Decoding stops at what is no digit: the bytes   *)
(* from there on keep the zeros the request began with.                     *)
HexEncode(token) ==
  [i \in 1 .. 2 * TokenSize |->
     IF i % 2 = 1 THEN token[(i + 1) \div 2] \div 16 ELSE token[i \div 2] % 16]

HexDecode(hex) ==
  [i \in 1 .. TokenSize |-> IF 2 * i <= Len(hex) THEN hex[2 * i - 1] * 16 + hex[2 * i] ELSE 0]

\* A slip: the cookie is cut one digit short.
ShortCookie(token) == SubSeq(HexEncode(token), 1, 2 * TokenSize - 1)

(* "sessionID=%.64s" *)
CookieOf(token) == SubSeq(HexEncode(token), 1, 2 * TokenSize)

(* The Cookie line a browser sends: its cookies in any order, or no line.   *)
Digits(hex) == [i \in DOMAIN hex |-> [k |-> "digit", v |-> hex[i]]]
SessionPart(hex) == <<Mark("sessionID=")>> \o Digits(hex)
OtherPart == <<Mark("theme=dark")>>
Semicolon == <<Mark(";"), Space>>
HeaderMarks == {"Cookie:", "sessionID=", "theme=dark", ";", "space", "CRLF", "digit"}
HeaderLexemes == [k : HeaderMarks, v : {None} \cup 0 .. 15]
CookieLines(hex) ==
  {<<>>, <<Mark("Cookie:"), Space>> \o OtherPart \o <<Mark("CRLF")>>}
    \cup (IF hex = <<>> THEN {}
          ELSE {<<Mark("Cookie:"), Space>> \o line \o <<Mark("CRLF")>> :
                  line \in {SessionPart(hex) \o Semicolon \o OtherPart,
                            OtherPart \o Semicolon \o SessionPart(hex)}})

(* extract_sessionid_token: the digits between "sessionID=" and the next    *)
(* semicolon, space or end of line.                                         *)
Find(header, k, from) ==
  LET hits == {i \in from .. Len(header) : header[i].k = k} IN
  IF hits = {} THEN 0 ELSE CHOOSE i \in hits : \A j \in hits : i <= j

ExtractSession(header) ==
  LET line  == Find(header, "Cookie:", 1)
      start == Find(header, "sessionID=", line + 1)
      ends  == {i \in start .. Len(header) : header[i].k \in {";", "space", "CRLF"}}
      end   == CHOOSE i \in ends : \A j \in ends : i <= j
  IN IF line = 0 \/ start = 0 THEN <<>>
     ELSE [i \in 1 .. end - start - 1 |-> header[start + i].v]

(* get_user_entry_ptr (the search itself is in HttpSessions).               *)
UserOf(token) ==
  LET owners == {u \in sessions : Token[u] = token} IN
  IF owners = {} THEN None ELSE CHOOSE u \in owners : TRUE
-----------------------------------------------------------------------------
(* The pieces of a response.                                                *)
Piece(p, v) == [p |-> p, v |-> v]
EndOfHeader == Piece("end", 0)

http_send_200 == <<Piece("status", 200), EndOfHeader>>
http_send_302 == <<Piece("status", 302), Piece("location", "/login.html"),
                   Piece("length", 0), EndOfHeader>>
http_send_401 == <<Piece("status", 401), EndOfHeader>>
http_send_404 == <<Piece("status", 404), EndOfHeader>>
http_send_500 == <<Piece("status", 500), EndOfHeader>>

http_send(mime, size, data) ==
  <<Piece("status", 200), Piece("type", mime), Piece("length", size), EndOfHeader>>
    \o (IF data THEN <<Piece("body", size)>> ELSE <<>>)

http_send_wcookie(cookie, mime, size) ==
  <<Piece("status", 200)>>
    \o (IF mime # None THEN <<Piece("type", mime)>> ELSE <<>>)
    \o (IF size # 0 THEN <<Piece("length", size)>> ELSE <<>>)
    \o <<Piece("cookie", cookie), EndOfHeader>>
    \o (IF size # 0 THEN <<Piece("body", size)>> ELSE <<>>)

(* get_mime_type: an extension that the table lacks has no type, and the    *)
(* header then says "(null)".                                               *)
Html == {"html", "htm"}
mime_type_table == Html \cup {"css", "js", "jpg", "png", "svg", "ico"}
get_mime_type(ext) ==
  IF ext \in Html THEN "text/html" ELSE IF ext \in mime_type_table THEN ext ELSE None

(* get_http_method_from_string compares the first letters only.             *)
get_http_method(method) == IF method = "POSTS" THEN "POST" ELSE method
-----------------------------------------------------------------------------
(* A browser connects and sends a request.  Of a body that is late, nothing *)
(* is ever read.                                                            *)
Ask(method, path, header, text, late, overlong) ==
  /\ Up /\ pc = "idle"
  /\ text # <<>> \/ late => method # "GET"
  /\ late => text = <<>> /\ Bodies[path] # {}
  /\ conn' = [method |-> method, path |-> path, header |-> header, text |-> text,
              late |-> late, overlong |-> overlong]
  /\ pc' = "read"
  /\ UNCHANGED <<process, sessions, arena, jar, req, left, steady, sent, closed, fault>>

(* The process dies.                                                        *)
Fault == [path |-> conn.path, text |-> conn.text, late |-> conn.late,
          overlong |-> conn.overlong, arena |-> arena]
Die ==
  /\ life' = "signal"
  /\ fault' = Fault
  /\ UNCHANGED <<dir, sessions, arena, jar, pc, conn, req, left, steady, sent, closed>>

(* sscanf and extract_sessionid_token write overlong words behind their     *)
(* buffers.  The process dies of that, or ParseRequest goes on, the words   *)
(* behind it, with conn.path as it then reads.                              *)
Overflow == Up /\ pc = "read" /\ conn.overlong /\ Die

(* content_ptr is counted back by Content-Length from the end of what was   *)
(* read: while the body is late, it points into the header or before the    *)
(* buffer, where anything may stand.                                        *)
ContentAt == IF conn.late THEN Texts ELSE {conn.text}

(* mt_parse_http_request *)
ParseRequest ==
  LET hex   == ExtractSession(conn.header)
      token == HexDecode(hex)
  IN
  /\ Up /\ pc = "read"
  /\ \E text \in ContentAt :
       req' = [token |-> token, has_cookie |-> hex # <<>>,
               user |-> IF hex # <<>> THEN UserOf(token) ELSE None, text |-> text]
  /\ conn' = [conn EXCEPT !.overlong = FALSE]
  /\ pc' = "route"
  /\ UNCHANGED <<process, sessions, arena, jar, left, steady, sent, closed, fault>>

(* Send the rest of the response and close the connection.                  *)
AnswerWith(pieces, why) ==
  /\ sent' = sent \o pieces
  /\ closed' = closed + 1
  /\ pc' = "done"
  /\ fault' = why
  /\ UNCHANGED <<process, jar, conn, req, steady>>
Answer(pieces) == AnswerWith(pieces, fault)

Guarded == conn.path \in GuardedPaths /\ req.user = None
IsApi == conn.path \in ApiPaths

(* handle_request: a page that needs a session redirects to login.html.     *)
RedirectPage ==
  /\ Up /\ pc = "route" /\ Guarded
  /\ Answer(http_send_302)
  /\ UNCHANGED <<sessions, arena, left>>

RouteApi ==
  /\ Up /\ pc = "route" /\ ~Guarded /\ IsApi
  /\ pc' = IF conn.path \in LoginPaths THEN "login" ELSE "api"
  /\ UNCHANGED <<process, sessions, arena, jar, conn, req, left, steady, sent, closed, fault>>

NoExtension ==
  /\ Up /\ pc = "route" /\ ~Guarded /\ ~IsApi /\ Ext[conn.path] = None
  /\ Answer(http_send_401)
  /\ UNCHANGED <<sessions, arena, left>>

IsFile == ~Guarded /\ ~IsApi /\ Ext[conn.path] # None
IsFavicon == conn.method = "GET" /\ conn.path = "/favicon.ico"

Favicon ==
  /\ Up /\ pc = "route" /\ IsFile /\ IsFavicon
  /\ Answer(http_send("image/x-icon", 1, TRUE))
  /\ UNCHANGED <<sessions, arena, left>>

(* load_and_send_file *)
NoFile ==
  /\ Up /\ pc = "route" /\ IsFile /\ ~IsFavicon /\ conn.path \notin Disk
  /\ Answer(http_send_404)
  /\ UNCHANGED <<sessions, arena, left>>

FileNotStat ==
  /\ Up /\ pc = "route" /\ IsFile /\ ~IsFavicon /\ conn.path \in Disk
  /\ Answer(http_send_500)
  /\ UNCHANGED <<sessions, arena, left>>

OpenFile ==
  /\ Up /\ pc = "route" /\ IsFile /\ ~IsFavicon /\ conn.path \in Disk
  /\ sent' = http_send(get_mime_type(Ext[conn.path]), FileSize, FALSE)
  /\ left' = FileSize
  /\ pc' = "file"
  /\ UNCHANGED <<process, sessions, arena, jar, conn, req, steady, closed, fault>>

(* One turn of the loop, which goes on until read returns 0, however many   *)
(* bytes fstat has announced.                                               *)
SendChunk ==
  /\ Up /\ pc = "file" /\ left > 0
  /\ sent' = Append(sent, Piece("body", 1))
  /\ left' = left - 1
  /\ UNCHANGED <<process, sessions, arena, jar, pc, conn, req, steady, closed, fault>>

EndOfFile ==
  /\ Up /\ pc = "file" /\ left = 0
  /\ Answer(<<>>)
  /\ UNCHANGED <<sessions, arena, left>>

(* read returns -1, which ends the loop too.                                *)
FileNotRead ==
  /\ Up /\ pc = "file" /\ steady
  /\ steady' = FALSE /\ left' = 0
  /\ UNCHANGED <<process, sessions, arena, jar, pc, conn, req, sent, closed, fault>>

(* Somebody else makes the file shorter or longer while it is sent (once in *)
(* a request).                                                              *)
WriteFile ==
  /\ Up /\ pc = "file" /\ steady
  /\ steady' = FALSE /\ left' \in 0 .. FileSize
  /\ UNCHANGED <<process, sessions, arena, jar, pc, conn, req, sent, closed, fault>>
-----------------------------------------------------------------------------
Is(v, type) == IF v = None THEN FALSE ELSE v.type = type

(* handle_login, with the arena cleared first.  It follows pointers without *)
(* a test for NULL, or a member of the union that is not the one that was   *)
(* set, and copies a password of any length into password_hash, behind      *)
(* which the stack goes on: the process dies of that, or nothing comes of   *)
(* it.                                                                      *)
LoginIn(from) ==
  LET result == json_parse(req.text, from)
      name   == FindByPath(result.v, username)
      secret == FindByPath(result.v, password)
      known  == Is(name, "string") /\ name.s \in Users
  IN
  /\ Up /\ pc = "login"
  /\ \/ ~Is(name, "string") /\ Die
     \/ /\ name # None /\ ~known
        /\ Answer(http_send_401)
        /\ arena' = result.off
        /\ UNCHANGED <<sessions, left>>
     \/ known /\ ~Is(secret, "string") /\ Die
     \/ known /\ Is(secret, "string") /\ Length[secret.s] > HashSize /\ Die
     \/ /\ known /\ secret # None
        /\ sessions' = sessions \cup {name.s}
        /\ Answer(http_send_wcookie(CookieOf(Token[name.s]), "application/json", 1))
        /\ arena' = result.off
        /\ UNCHANGED left

\* A slip: handle_login does not clear the arena.
LoginUncleared == LoginIn(arena)

Login == LoginIn(0)

(* handle_api_request for everything else.                                  *)
RedirectApi ==
  /\ Up /\ pc = "api" /\ req.user = None
  /\ Answer(http_send_302)
  /\ UNCHANGED <<sessions, arena, left>>

(* The request is parsed whatever its method and path are.                  *)
Parsed == json_parse(req.text, arena)
Posted(path) == get_http_method(conn.method) = "POST" /\ conn.path = path
Api == Up /\ pc = "api" /\ req.user # None

(* What stands before the buffer may not be readable.                       *)
ContentNotReadable == ((Up /\ pc = "login") \/ Api) /\ conn.late /\ Die

Logout ==
  /\ Api /\ Posted("/api/v1/logout")
  /\ sessions' = sessions \ {req.user}
  /\ arena' = Parsed.off
  /\ Answer(http_send_wcookie(<<>>, None, 0))
  /\ UNCHANGED left

(* The answer to {"get":"username"}; the results of json_make_* and of      *)
(* json_object_add are not looked at.                                       *)
NameDocument(off) ==
  LET object == MakeObject(off)
      name   == MakeString(object.off, req.user)
  IN IF object.at = 0 THEN object ELSE ObjectAdd(name.off, object.v, username, name.v)

Writable(doc) == doc # None /\ \A i \in DOMAIN doc.members : doc.members[i][2] # None

Wanted == FindByPath(Parsed.v, get)
AsksName == Is(Wanted, "string") /\ Wanted.s = username

(* json_sb_put compares its own offset, which counts from arena->offset on, *)
(* with the size of the whole arena: a text that finds too little room (one *)
(* byte per lexeme, and the zero at its end) is written past the arena.     *)
Overruns(off, v) == off + Len(json_write(v)) + 1 > ArenaSize

(* Memory behind the arena may be anything: the process may die.            *)
UserName ==
  LET doc == NameDocument(Parsed.off) IN
  /\ Api /\ Posted("/api/v1/user") /\ AsksName
  /\ \/ ~Writable(doc.v) /\ Die
     \/ Writable(doc.v) /\ Overruns(doc.off, doc.v) /\ Die
     \/ /\ Writable(doc.v)
        /\ AnswerWith(http_send("application/json", Len(json_write(doc.v)), TRUE),
                      IF doc.v.members = <<>> THEN Fault ELSE None)
        /\ arena' = doc.off
        /\ UNCHANGED <<sessions, left>>

(* Another string, or an array, whose elements are printed as strings; then *)
(* the end of the function.                                                 *)
UserOther ==
  /\ Api /\ Posted("/api/v1/user") /\ ~AsksName
  /\ \/ Wanted = None /\ Die
     \/ /\ Is(Wanted, "array")
        /\ \E i \in DOMAIN Wanted.items : Wanted.items[i].type # "string"
        /\ Die
     \/ /\ Wanted # None
        /\ Answer(http_send_200)
        /\ arena' = Parsed.off
        /\ UNCHANGED <<sessions, left>>

\* A slip: the branch of /api/v1/tags does not return.
TagsFallThrough ==
  /\ Api /\ Posted("/api/v1/tags")
  /\ arena' = Parsed.off
  /\ Answer(http_send("application/json", 1, TRUE) \o http_send_200)
  /\ UNCHANGED <<sessions, left>>

Tags ==
  /\ Api /\ Posted("/api/v1/tags")
  /\ arena' = Parsed.off
  /\ Answer(http_send("application/json", 1, TRUE))
  /\ UNCHANGED <<sessions, left>>

Handled == {"/api/v1/logout", "/api/v1/user", "/api/v1/tags"}
OtherApi ==
  /\ Api /\ \A path \in Handled : ~Posted(path)
  /\ arena' = Parsed.off
  /\ Answer(http_send_200)
  /\ UNCHANGED <<sessions, left>>
-----------------------------------------------------------------------------
(* The browser takes the response: a cookie replaces the one it has, and an *)
(* empty one deletes it.  Any send may have taken less than it was given,   *)
(* and the cookie may not be in what arrives.                               *)
Cookies == {i \in DOMAIN sent : sent[i].p = "cookie"}
Took ==
  /\ Up /\ pc = "done"
  /\ jar' \in {jar} \cup {sent[i].v : i \in Cookies}
  /\ pc' = "idle" /\ conn' = None /\ req' = NoRequest
  /\ left' = 0 /\ steady' = TRUE /\ sent' = <<>> /\ closed' = 0 /\ fault' = None
  /\ UNCHANGED <<process, sessions, arena>>

-----------------------------------------------------------------------------
(* The watchdog and the life of the server's process.                       *)
Untouched == UNCHANGED <<sessions, arena, jar, pc, conn, req, left, steady, sent, closed, fault>>

(* Whatever ended the last process, a new one starts with nothing.          *)
FreshProcess ==
  /\ dir' = 0 /\ sessions' = {} /\ arena' = 0
  /\ pc' = "idle" /\ conn' = None /\ req' = NoRequest
  /\ left' = 0 /\ steady' = TRUE /\ sent' = <<>> /\ closed' = 0 /\ fault' = None

(* fork and execvp.  A child whose execvp fails leaves the loop and returns *)
(* 0; a fork that fails, or no command to start, ends the watchdog.         *)
Fork ==
  /\ life = "fork"
  /\ life' \in {"options", "exit 0", "ended"}
  /\ UNCHANGED dir /\ Untouched

(* waitpid: an exit with code 0 ends the watchdog, any other end of the     *)
(* child makes it fork again.                                               *)
Reap ==
  /\ life \in {"signal", "exit 0", "exit 1"}
  /\ life' = IF life = "exit 0" THEN "ended" ELSE "fork"
  /\ FreshProcess
  /\ UNCHANGED jar

(* Somebody starts the watchdog again.                                      *)
Operator ==
  /\ life = "ended"
  /\ life' = "fork"
  /\ UNCHANGED dir /\ Untouched

(* Option -d copies at most RootDirSize - 1 characters and refuses more;    *)
(* afterwards a directory that leaves no room for a slash is refused too.   *)
Copied(len) == IF len >= RootDirSize - 1 THEN RootDirSize - 1 ELSE len
\* A slip: no room for the slash.
AcceptsFull(len) == Copied(len) = len /\ len < RootDirSize /\ len # 0
Accepts(len) == Copied(len) = len /\ len + 1 < RootDirSize /\ len # 0

(* main up to init_login_ht: --help, an option it does not know, or a root  *)
(* directory, to which a slash is added in front; none is one of length 0.  *)
Options(then, size) ==
  /\ life = "options"
  /\ life' = then /\ dir' = size
  /\ Untouched

Help == Options("exit 0", 0)
UnknownOption == Options("exit 1", 0)
RootDirectory ==
  \E len \in Directories, slash \in 0 .. 1 :
    IF Accepts(len) THEN Options("boot", len + 1 - slash) ELSE Options("exit 1", 0)

(* The rest of main before the threads: without memory, or without the      *)
(* image it loads, the process follows a NULL pointer; without its socket   *)
(* (the port may still be taken) it exits with 1.  The directory goes with  *)
(* the context that is zeroed: handle_request has its own.                  *)
Boot ==
  /\ life = "boot"
  /\ life' \in {"signal", "exit 1", "up"}
  /\ dir' = 0
  /\ Untouched

(* quit or SIGINT (HttpTaskQueue): main returns 0 when no request is left.  *)
Quit ==
  /\ Up /\ pc = "idle"
  /\ life' = "exit 0"
  /\ UNCHANGED dir /\ Untouched

Server ==
  \/ Overflow \/ ParseRequest
  \/ RedirectPage \/ RouteApi \/ NoExtension \/ Favicon
  \/ NoFile \/ FileNotStat \/ OpenFile \/ SendChunk \/ EndOfFile \/ FileNotRead
  \/ Login \/ ContentNotReadable \/ RedirectApi \/ Logout \/ UserName \/ UserOther \/ Tags \/ OtherApi
  \/ Help \/ UnknownOption \/ RootDirectory \/ Boot

Browser ==
  \/ \E method \in Methods, path \in Paths, header \in CookieLines(jar),
        late \in BOOLEAN, overlong \in BOOLEAN :
       \E text \in Bodies[path] \cup {<<>>} : Ask(method, path, header, text, late, overlong)
  \/ Took

Watchdog == Fork \/ Reap

Next == Server \/ Watchdog \/ Browser \/ WriteFile \/ Operator \/ Quit
Spec == Init /\ [][Next]_vars
-----------------------------------------------------------------------------
Requests == [method : Methods, path : Paths, header : Seq(HeaderLexemes), text : Texts,
             late : BOOLEAN, overlong : BOOLEAN]
(* No request is the value that stands for no request.                      *)
ASSUME NoneIsNoRequest == None \notin Requests

TypeOK ==
  /\ life \in {"fork", "options", "boot", "up", "signal", "exit 0", "exit 1", "ended"}
  /\ dir \in 0 .. RootDirSize - 1
  /\ req.has_cookie \in BOOLEAN
  /\ sessions \subseteq Users
  /\ arena \in 0 .. ArenaSize
  /\ jar \in Seq(0 .. 15)
  /\ pc \in {"idle", "read", "route", "file", "login", "api", "done"}
  /\ conn \in Requests \cup {None} /\ (conn = None <=> pc = "idle")
  /\ left \in 0 .. FileSize /\ steady \in BOOLEAN
  /\ closed \in 0 .. 1
  /\ req.user \in Users \cup {None}

(* What is between "the connection was read" and "the connection is closed" *)
(* is exactly one response: one status line, headers, one end of headers,   *)
(* and a body of the announced length, unless it is a file that somebody    *)
(* wrote to after fstat or that could not be read to its end; and one close *)
(* behind it, in all the ways through http.c 1709-2165.  This is about what *)
(* the handlers give to send: less of it may arrive.                        *)
At(p) == {i \in DOMAIN sent : sent[i].p = p}
BodyLength == Cardinality(UNION {{i} \X (1 .. sent[i].v) : i \in At("body")})
OneResponse ==
  pc = "done" =>
    /\ closed = 1
    /\ At("status") = {1}
    /\ Cardinality(At("end")) = 1
    /\ \A i \in At("end") : \A j \in DOMAIN sent : (j > i) <=> sent[j].p = "body"
    /\ steady => \A i \in At("length") : sent[i].v = BodyLength

(* The session survives the trip through the browser.  What the browser     *)
(* keeps is the whole token of a user; and the token that a login hashed,   *)
(* printed as hexadecimal digits, stored, sent back among other cookies,    *)
(* found in the header and decoded is the token of a user whose session the *)
(* server then has - and nobody is taken for logged in otherwise (http.c    *)
(* 225-269, 414-440, 1464-1476, 1489-1527).                                 *)
CookieReturns ==
  /\ jar # <<>> => \E u \in Users : jar = HexEncode(Token[u])
  /\ pc \in {"route", "api"} =>
    /\ \A u \in sessions :
         req.user = u <=> jar = HexEncode(Token[u])
                          /\ Find(conn.header, "sessionID=", 1) # 0
    /\ req.user \in sessions \cup {None}

(* Why the server may die, or leave the name out of an answer: a word or a  *)
(* password that is longer than its buffer, a body that lacks what the      *)
(* handler looks for, or that is late, or - for the user's name only - an   *)
(* arena with too little room left for the answer and its text.  What       *)
(* earlier requests left in the arena matters to the last of these only: no *)
(* login dies of it (http.c 387, 429, 1370-1395, 1454-1455, 1514-1517,      *)
(* 1807-1876, json_write.h 38-42).                                          *)
Meaning == IF fault.late \/ fault.overlong THEN {} ELSE Denoted(fault.text)
HasString(v, key) == Is(FindByPath(v, key), "string")
PasswordFits(v) == HasString(v, password) /\ ~(Length[FindByPath(v, password).s] > HashSize)
Spare(v) == ArenaSize - fault.arena - Footprint(v)
NameCost(u) == 2 * NodeBytes + MemberBytes + Length[u] + 1 + Length[username] + 1
                 + Len(json_write(NameAnswer(u))) + 1
FaultExplained ==
  fault # None =>
    \A v \in Meaning :
      \/ fault.path \in LoginPaths /\ ~(HasString(v, username) /\ PasswordFits(v))
      \/ fault.path \in LoginPaths /\ Footprint(v) > ArenaSize
      \/ fault.path = "/api/v1/user" /\ ~HasString(v, get)
      \/ fault.path = "/api/v1/user" /\ \E u \in Users : Spare(v) < NameCost(u)
=============================================================================
