--------------------------- MODULE MCHttpRequest ---------------------------
(* The server's paths, and, beside it, JSON texts written lexeme by lexeme:  *)
(* a text only grows while the server has not been asked anything, and the   *)
(* server is only asked while no text has been begun.                        *)
EXTENDS HttpRequest, JsonText

CONSTANTS cat, dog, fox, wordy, long, short, Lexemes, MaxText, Budgets
VARIABLE text

MCToken == [u \in Users |-> IF u = cat THEN <<0, 171>> ELSE <<240, 9>>]
MCLength == [s \in {cat, dog, fox, wordy, username, password, get} |-> IF s = wordy THEN 2 ELSE 0]
MCRounded == [n \in {short, long} |-> short]

MCGuarded == {"/app.html"}
MCLogin == {"/api/v1/login"}
MCApi == MCLogin \cup {"/api/v1/user", "/api/v1/tags", "/api/v1/logout"}
MCDisk == {"/login.html", "/app.html", "/style/style.css", "/LICENSE.xyz"}
MCPaths == MCDisk \cup MCApi \cup {"/", "/favicon.ico", "/missing.html"}
MCExt == [p \in MCPaths |->
  CASE p \in {"/login.html", "/app.html", "/missing.html"} -> "html"
    [] p = "/style/style.css" -> "css"
    [] p = "/LICENSE.xyz" -> "xyz"
    [] p = "/favicon.ico" -> "ico"
    [] OTHER -> None]

MCDenoted(t) == Denotes(Plain(t))

Pair(key, value) == <<Str(key), Mark(":"), value>>
Object(pairs) == <<Mark("{")>> \o pairs \o <<Mark("}")>>
LoginWith(u, secret) ==
  Object(Pair(username, Str(u)) \o <<Mark(",")>> \o Pair(password, Str(secret)))
LoginText(u) == LoginWith(u, fox)
Get(value) == Object(Pair(get, value))
LoginBodies ==
  {LoginText(cat), LoginText(dog), LoginText(fox), LoginWith(cat, wordy), Object(<<>>), Object(Pair(username, Str(cat)))}
UserBodies ==
  {Get(Str(username)), Object(<<>>)}
    \cup {Object(Pair(get, Mark("[")) \o <<x, Mark("]")>>) : x \in {Str(username), Number(short)}}
MCBodies ==
  [p \in MCPaths |-> IF p \in MCLogin THEN LoginBodies
                     ELSE IF p = "/api/v1/user" THEN UserBodies
                     ELSE IF p = "/api/v1/tags" THEN {LoginText(cat)} ELSE {}]

MCLexemes ==
  {Mark(k) : k \in {"{", "}", "[", "]", ":", ",", "space"}}
    \cup {Str(cat), Number(long)}

(* Texts that are longer than those that are written, or hold other lexemes. *)
Samples ==
  {LoginText(dog), <<Mark("{")>> \o Pair(cat, Mark("open")), <<Mark("["), Mark("open"), Mark("]")>>,
   <<Mark("{"), Mark("}"), Mark("junk")>>,
   Object(Pair(cat, Str(dog)) \o <<Mark(",")>>), Object(Pair(cat, Str(dog)) \o Pair(dog, Str(cat))),
   <<Mark("["), Number(long), Mark(","), Mark("["), Str(cat), Mark(","), Mark("null"), Mark("]"),
     Mark("]")>>,
   Object(Pair(get, Mark("{")) \o Pair(cat, Mark("false")) \o <<Mark(","), Space>>
          \o Pair(cat, Number(short)) \o <<Mark("}")>>)}

Touching(a, b) == a.k = "number" /\ b.k = "number"
Extends(x) ==
  /\ text # <<>> => ~Touching(text[Len(text)], x)
  /\ x.k = "string" => \A i \in DOMAIN text : text[i].k # "open"

MCInit == Init /\ text \in Samples \cup {<<>>}
WriteOn ==
  /\ pc = "idle" /\ sessions = {} /\ jar = <<>> /\ arena = 0 /\ Up
  /\ Len(text) < MaxText
  /\ \E x \in Lexemes : Extends(x) /\ text' = Append(text, x)
  /\ UNCHANGED vars
ThrowAway == text # <<>> /\ text' = <<>> /\ UNCHANGED vars
MCNext == WriteOn \/ ThrowAway \/ (text = <<>> /\ Next /\ UNCHANGED text)
MCSpec == MCInit /\ [][MCNext]_<<vars, text>>

(* The parser accepts exactly the texts of the grammar, returns what they    *)
(* mean, and needs the memory their values take: with less it returns        *)
(* nothing rather than a part (json_cpac.h 81-331).                          *)
ParserIsGrammar ==
  \A budget \in Budgets :
    LET result == Parse(text, ArenaSize - budget)
        fits   == {v \in Denotes(Plain(text)) : Cost(v) <= budget}
    IN /\ {result.v} \ {None} = fits
       /\ result.off \in ArenaSize - budget .. ArenaSize
       /\ result.v # None => result.off = ArenaSize - budget + Cost(result.v)

(* What json_write writes, json_parse reads: the same document but for the   *)
(* digits that %g drops, and from then on the same text.  A document that is *)
(* put together with json_make is written as the one that was parsed         *)
(* (json_write.h 72-190, json_make.h 11-151).                                *)
RoundTrip ==
  LET first  == Parse(text, 0)
      again  == Parse(Write(first.v), 0)
      built  == Build(first.v, 0)
  IN first.v # None =>
       /\ again.v # None /\ Write(again.v) = Write(first.v)
       /\ (\A i \in DOMAIN text : text[i] # Number(long)) => again.v = first.v
       /\ built.v # None /\ Write(built.v) = Write(first.v)
============================================================================
