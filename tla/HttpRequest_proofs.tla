------------------------- MODULE HttpRequest_proofs -------------------------
(***************************************************************************)
(* Proofs about HttpRequest, for any users, tokens, paths, files, bodies,  *)
(* sizes and any JSON library as LibraryAssumption describes it: every     *)
(* request gets exactly one response, a session survives the trip through  *)
(* the browser, and what the server dies of is in the request, or the      *)
(* arena is full.                                                          *)
(***************************************************************************)
EXTENDS HttpRequest, FiniteSetTheorems, SequenceTheorems, TLAPS

(* A request under way came with the cookie that the browser still has, and *)
(* the handlers read its body, or anything if that is late.                 *)
Asked ==
  /\ conn # None => conn.header \in CookieLines(jar)
  /\ pc \in {"route", "login", "api"} => req.text \in ContentAt
  /\ pc = "login" => conn.path \in LoginPaths

(* The cookies that are on their way to the browser are tokens of users.    *)
IsToken(hex) == \E u \in Users : hex = HexEncode(Token[u])
KnownCookies(pieces) ==
  \A i \in DOMAIN pieces :
    pieces[i].p = "cookie" => pieces[i].v = <<>> \/ IsToken(pieces[i].v)
CookiesKnown == KnownCookies(sent)

(* Nothing is sent before the request is decided; what is sent of a file is *)
(* the header and one piece for each that was read.                         *)
FileHeader == http_send(get_mime_type(Ext[conn.path]), FileSize, FALSE)
FilePieces == {FileHeader[i] : i \in 1 .. 4} \cup {Piece("body", 1)}
Replying ==
  /\ pc # "done" => closed = 0
  /\ pc \in {"idle", "read", "route", "login", "api"} => sent = <<>> /\ left = 0
  /\ pc = "file" =>
       /\ sent \in Seq(FilePieces) /\ Len(sent) >= 4
       /\ steady => Len(sent) = 4 + FileSize - left
       /\ \A i \in 1 .. Len(sent) : sent[i] = IF i <= 4 THEN FileHeader[i] ELSE Piece("body", 1)

RequestInv ==
  TypeOK /\ Asked /\ CookiesKnown /\ Replying /\ OneResponse /\ CookieReturns /\ FaultExplained

-----------------------------------------------------------------------------
(* The token as hexadecimal digits, and back. *)

LEMMA Nibbles ==
  ASSUME NEW b \in Byte
  PROVE  /\ b \div 16 \in 0 .. 15 /\ b % 16 \in 0 .. 15
         /\ (b \div 16) * 16 + (b % 16) = b
BY DEF Byte

(* What the digits of a token are. *)
LEMMA Encoded ==
  ASSUME NEW u \in Users
  PROVE  /\ HexEncode(Token[u]) \in Seq(0 .. 15)
         /\ Len(HexEncode(Token[u])) = 2 * TokenSize
         /\ HexEncode(Token[u]) # <<>>
         /\ CookieOf(Token[u]) = HexEncode(Token[u])
<1> DEFINE token == Token[u]
           hex == HexEncode(token)
<1>1. TokenSize \in Nat \ {0} /\ token \in [1 .. TokenSize -> Byte]
  BY RequestAssumption
<1>2. ASSUME NEW i \in 1 .. 2 * TokenSize
      PROVE  (IF i % 2 = 1 THEN token[(i + 1) \div 2] \div 16 ELSE token[i \div 2] % 16) \in 0 .. 15
  <2>1. CASE i % 2 = 1
    <3>1. (i + 1) \div 2 \in 1 .. TokenSize
      BY <1>1, <2>1
    <3> QED
      BY <1>1, <2>1, <3>1, Nibbles
  <2>2. CASE i % 2 # 1
    <3>1. i \div 2 \in 1 .. TokenSize
      BY <1>1, <2>2
    <3> QED
      BY <1>1, <2>2, <3>1, Nibbles
  <2> QED
    BY <2>1, <2>2
<1>3. hex \in [1 .. 2 * TokenSize -> 0 .. 15]
  BY <1>2 DEF HexEncode
<1>4. hex \in Seq(0 .. 15) /\ Len(hex) = 2 * TokenSize
  BY <1>1, <1>3
<1>5. hex # <<>>
  BY <1>1, <1>4
<1>6. SubSeq(hex, 1, 2 * TokenSize) = hex
  BY <1>4, SubSeqFull
<1> QED
  BY <1>4, <1>5, <1>6 DEF CookieOf

(* Decoding gives back the token. *)
LEMMA Decoded ==
  ASSUME NEW u \in Users
  PROVE  HexDecode(HexEncode(Token[u])) = Token[u]
<1> DEFINE token == Token[u]
           hex == HexEncode(token)
<1>1. TokenSize \in Nat \ {0} /\ token \in [1 .. TokenSize -> Byte]
  BY RequestAssumption
<1>2. Len(hex) = 2 * TokenSize
  BY Encoded
<1>3. ASSUME NEW i \in 1 .. TokenSize
      PROVE  2 * i <= Len(hex) /\ hex[2 * i - 1] * 16 + hex[2 * i] = token[i]
  <2>1. /\ 2 * i - 1 \in 1 .. 2 * TokenSize /\ 2 * i \in 1 .. 2 * TokenSize
        /\ (2 * i - 1) % 2 = 1 /\ (2 * i) % 2 = 0
        /\ (2 * i - 1 + 1) \div 2 = i /\ (2 * i) \div 2 = i
    BY <1>1
  <2>2. hex[2 * i - 1] = token[i] \div 16 /\ hex[2 * i] = token[i] % 16
    BY <2>1 DEF HexEncode
  <2>3. (token[i] \div 16) * 16 + (token[i] % 16) = token[i]
    BY <1>1, Nibbles
  <2> QED
    BY <1>2, <2>1, <2>2, <2>3
<1>4. HexDecode(hex) = [i \in 1 .. TokenSize |-> token[i]]
  BY <1>3 DEF HexDecode
<1> QED
  BY <1>1, <1>4

(* Therefore two users never have the same cookie. *)
LEMMA CookieIsOwn ==
  ASSUME NEW u \in Users, NEW v \in Users, HexEncode(Token[u]) = HexEncode(Token[v])
  PROVE  u = v
BY Decoded, RequestAssumption

-----------------------------------------------------------------------------
(* The Cookie line. *)

(* Where the session stands in a header: behind "sessionID=", up to the end *)
(* of the cookie.                                                           *)
SessionAt(header, hex, start) ==
  /\ start \in 2 .. Len(header) /\ start + Len(hex) + 1 \in 1 .. Len(header)
  /\ header[1].k = "Cookie:"
  /\ \A i \in 1 .. Len(header) : header[i].k = "sessionID=" <=> i = start
  /\ \A i \in 1 .. Len(hex) : header[start + i].k = "digit" /\ header[start + i].v = hex[i]
  /\ header[start + Len(hex) + 1].k \in {";", "CRLF"}

LEMMA MarksAreLexemes ==
  /\ Mark("Cookie:") \in HeaderLexemes /\ Mark("Cookie:").k = "Cookie:"
  /\ Mark("sessionID=") \in HeaderLexemes /\ Mark("sessionID=").k = "sessionID="
  /\ Mark("theme=dark") \in HeaderLexemes /\ Mark("theme=dark").k = "theme=dark"
  /\ Mark(";") \in HeaderLexemes /\ Mark(";").k = ";"
  /\ Mark("CRLF") \in HeaderLexemes /\ Mark("CRLF").k = "CRLF"
  /\ Space \in HeaderLexemes /\ Space.k = "space"
BY DEF HeaderMarks, HeaderLexemes, Mark, Space

LEMMA OneAndTwo ==
  ASSUME NEW S, NEW a \in S, NEW b \in S
  PROVE  /\ <<a>> \in Seq(S) /\ Len(<<a>>) = 1 /\ <<a>>[1] = a
         /\ <<a, b>> \in Seq(S) /\ Len(<<a, b>>) = 2 /\ <<a, b>>[1] = a /\ <<a, b>>[2] = b
OBVIOUS

(* A concatenation, element by element. *)
LEMMA HeaderConcat ==
  ASSUME NEW s \in Seq(HeaderLexemes), NEW t \in Seq(HeaderLexemes)
  PROVE  /\ s \o t \in Seq(HeaderLexemes) /\ Len(s \o t) = Len(s) + Len(t)
         /\ Len(s) \in Nat /\ Len(t) \in Nat
         /\ \A i \in 1 .. Len(s) : (s \o t)[i] = s[i]
         /\ \A i \in 1 .. Len(t) : (s \o t)[Len(s) + i] = t[i]
<1>1. Len(s) \in Nat /\ Len(t) \in Nat
  BY LenProperties
<1>2. /\ s \o t \in Seq(HeaderLexemes) /\ Len(s \o t) = Len(s) + Len(t)
      /\ \A i \in 1 .. Len(s) + Len(t) :
           (s \o t)[i] = IF i <= Len(s) THEN s[i] ELSE t[i - Len(s)]
  BY ConcatProperties
<1>3. ASSUME NEW i \in 1 .. Len(s) PROVE (s \o t)[i] = s[i]
  <2>1. i \in 1 .. Len(s) + Len(t) /\ i <= Len(s)
    BY <1>1
  <2> QED
    BY <1>2, <2>1
<1>4. ASSUME NEW i \in 1 .. Len(t) PROVE (s \o t)[Len(s) + i] = t[i]
  <2>1. /\ Len(s) + i \in 1 .. Len(s) + Len(t) /\ ~ (Len(s) + i <= Len(s))
        /\ Len(s) + i - Len(s) = i
    BY <1>1
  <2> QED
    BY <1>2, <2>1
<1> QED
  BY <1>1, <1>2, <1>3, <1>4

(* The pieces that a Cookie line is made of. *)
LEMMA PartsOfLine ==
  ASSUME NEW hex \in Seq(0 .. 15)
  PROVE  /\ SessionPart(hex) \in Seq(HeaderLexemes) /\ Len(SessionPart(hex)) = 1 + Len(hex)
         /\ SessionPart(hex)[1].k = "sessionID="
         /\ \A i \in 1 .. Len(hex) :
              SessionPart(hex)[1 + i].k = "digit" /\ SessionPart(hex)[1 + i].v = hex[i]
         /\ OtherPart \in Seq(HeaderLexemes) /\ Len(OtherPart) = 1
         /\ OtherPart[1].k = "theme=dark"
         /\ Semicolon \in Seq(HeaderLexemes) /\ Len(Semicolon) = 2
         /\ Semicolon[1].k = ";" /\ Semicolon[2].k = "space"
<1> DEFINE mark == <<Mark("sessionID=")>>
           digits == Digits(hex)
<1>1. mark \in Seq(HeaderLexemes) /\ Len(mark) = 1 /\ mark[1].k = "sessionID="
  BY MarksAreLexemes, OneAndTwo
<1>2. /\ digits \in Seq(HeaderLexemes) /\ Len(digits) = Len(hex)
      /\ \A i \in 1 .. Len(hex) : digits[i].k = "digit" /\ digits[i].v = hex[i]
  <2>1. Len(hex) \in Nat /\ DOMAIN hex = 1 .. Len(hex) /\ \A i \in 1 .. Len(hex) : hex[i] \in 0 .. 15
    OBVIOUS
  <2>2. \A i \in 1 .. Len(hex) : [k |-> "digit", v |-> hex[i]] \in HeaderLexemes
    BY <2>1 DEF HeaderLexemes, HeaderMarks
  <2>3. digits \in [1 .. Len(hex) -> HeaderLexemes]
    BY <2>1, <2>2 DEF Digits
  <2> QED
    BY <2>1, <2>3 DEF Digits
<1>3. OtherPart \in Seq(HeaderLexemes) /\ Len(OtherPart) = 1 /\ OtherPart[1].k = "theme=dark"
  BY MarksAreLexemes, OneAndTwo DEF OtherPart
<1>4. /\ Semicolon \in Seq(HeaderLexemes) /\ Len(Semicolon) = 2
      /\ Semicolon[1].k = ";" /\ Semicolon[2].k = "space"
  BY MarksAreLexemes, OneAndTwo DEF Semicolon
<1>5. SessionPart(hex) = mark \o digits
  BY DEF SessionPart
<1> HIDE DEF mark, digits
<1>6. /\ mark \o digits \in Seq(HeaderLexemes)
      /\ Len(mark \o digits) = Len(mark) + Len(digits)
      /\ \A i \in 1 .. Len(mark) : (mark \o digits)[i] = mark[i]
      /\ \A i \in 1 .. Len(digits) : (mark \o digits)[Len(mark) + i] = digits[i]
  BY <1>1, <1>2, HeaderConcat, Zenon
<1>7. /\ Len(SessionPart(hex)) = 1 + Len(hex) /\ SessionPart(hex)[1] = mark[1]
      /\ \A i \in 1 .. Len(hex) : SessionPart(hex)[1 + i] = digits[i]
  BY <1>1, <1>2, <1>5, <1>6
<1> QED
  BY <1>1, <1>2, <1>3, <1>4, <1>5, <1>6, <1>7

(* A cookie line around a session or another cookie. *)
LEMMA LineOf ==
  ASSUME NEW line \in Seq(HeaderLexemes)
  PROVE  LET header == <<Mark("Cookie:"), Space>> \o line \o <<Mark("CRLF")>>
         IN /\ header \in Seq(HeaderLexemes) /\ Len(header) = Len(line) + 3
            /\ header[1].k = "Cookie:" /\ header[2].k = "space"
            /\ \A i \in 1 .. Len(line) : header[2 + i] = line[i]
            /\ header[Len(line) + 3].k = "CRLF"
<1> DEFINE start == <<Mark("Cookie:"), Space>>
           end == <<Mark("CRLF")>>
           front == start \o line
<1>1. /\ start \in Seq(HeaderLexemes) /\ Len(start) = 2
      /\ start[1].k = "Cookie:" /\ start[2].k = "space"
      /\ end \in Seq(HeaderLexemes) /\ Len(end) = 1 /\ end[1].k = "CRLF"
  BY MarksAreLexemes, OneAndTwo
<1> HIDE DEF start, end
<1>2. /\ front \in Seq(HeaderLexemes) /\ Len(front) = 2 + Len(line) /\ Len(line) \in Nat
      /\ \A i \in 1 .. 2 : front[i] = start[i]
      /\ \A i \in 1 .. Len(line) : front[2 + i] = line[i]
  <2>1. /\ start \o line \in Seq(HeaderLexemes) /\ Len(start \o line) = Len(start) + Len(line)
        /\ Len(line) \in Nat
        /\ \A i \in 1 .. Len(start) : (start \o line)[i] = start[i]
        /\ \A i \in 1 .. Len(line) : (start \o line)[Len(start) + i] = line[i]
    BY <1>1, HeaderConcat, Zenon
  <2> QED
    BY <1>1, <2>1
<1> HIDE DEF front
<1>3. /\ front \o end \in Seq(HeaderLexemes) /\ Len(front \o end) = Len(front) + Len(end)
      /\ \A i \in 1 .. Len(front) : (front \o end)[i] = front[i]
      /\ \A i \in 1 .. Len(end) : (front \o end)[Len(front) + i] = end[i]
  BY <1>1, <1>2, HeaderConcat, Zenon
<1>4. \A i \in 1 .. Len(line) : (front \o end)[2 + i] = line[i]
  BY <1>2, <1>3
<1>5. /\ (front \o end)[1].k = "Cookie:" /\ (front \o end)[2].k = "space"
      /\ (front \o end)[Len(line) + 3].k = "CRLF"
  BY <1>1, <1>2, <1>3
<1> QED
  BY <1>1, <1>2, <1>3, <1>4, <1>5 DEF front, start, end

(* The line with the session in front of the other cookie. *)
LEMMA SessionFirst ==
  ASSUME NEW hex \in Seq(0 .. 15)
  PROVE  LET line == SessionPart(hex) \o Semicolon \o OtherPart
             header == <<Mark("Cookie:"), Space>> \o line \o <<Mark("CRLF")>>
         IN header \in Seq(HeaderLexemes) /\ SessionAt(header, hex, 3)
<1> DEFINE front == SessionPart(hex) \o Semicolon
           line == front \o OtherPart
           header == <<Mark("Cookie:"), Space>> \o line \o <<Mark("CRLF")>>
           n == Len(hex)
<1>0. n \in Nat
  OBVIOUS
<1>1. /\ SessionPart(hex) \in Seq(HeaderLexemes) /\ Len(SessionPart(hex)) = 1 + n
      /\ SessionPart(hex)[1].k = "sessionID="
      /\ \A i \in 1 .. n : SessionPart(hex)[1 + i].k = "digit" /\ SessionPart(hex)[1 + i].v = hex[i]
      /\ OtherPart \in Seq(HeaderLexemes) /\ Len(OtherPart) = 1
      /\ OtherPart[1].k = "theme=dark"
      /\ Semicolon \in Seq(HeaderLexemes) /\ Len(Semicolon) = 2
      /\ Semicolon[1].k = ";" /\ Semicolon[2].k = "space"
  BY PartsOfLine
<1> HIDE DEF n
<1>2. /\ front \in Seq(HeaderLexemes) /\ Len(front) = n + 3
      /\ \A i \in 1 .. n + 1 : front[i] = SessionPart(hex)[i]
      /\ front[n + 2] = Semicolon[1] /\ front[n + 3] = Semicolon[2]
  <2>1. /\ front \in Seq(HeaderLexemes) /\ Len(front) = Len(SessionPart(hex)) + Len(Semicolon)
        /\ \A i \in 1 .. Len(SessionPart(hex)) : front[i] = SessionPart(hex)[i]
        /\ \A i \in 1 .. Len(Semicolon) : front[Len(SessionPart(hex)) + i] = Semicolon[i]
    BY <1>1, HeaderConcat, Zenon
  <2> HIDE DEF front
  <2>2. /\ 1 + n = n + 1 /\ (1 + n) + 2 = n + 3 /\ (1 + n) + 1 = n + 2
        /\ 1 \in 1 .. 2 /\ 2 \in 1 .. 2
    BY <1>0
  <2>3. /\ front[(1 + n) + 1] = Semicolon[1] /\ front[(1 + n) + 2] = Semicolon[2]
        /\ Len(front) = (1 + n) + 2 /\ \A i \in 1 .. 1 + n : front[i] = SessionPart(hex)[i]
    BY <1>1, <2>1, <2>2, Zenon
  <2> QED
    BY <2>1, <2>2, <2>3, Zenon
<1> HIDE DEF front
<1>3. /\ line \in Seq(HeaderLexemes) /\ Len(line) = n + 4
      /\ \A i \in 1 .. n + 3 : line[i] = front[i]
      /\ line[n + 4] = OtherPart[1]
  <2>1. /\ line \in Seq(HeaderLexemes) /\ Len(line) = Len(front) + Len(OtherPart)
        /\ \A i \in 1 .. Len(front) : line[i] = front[i]
        /\ \A i \in 1 .. Len(OtherPart) : line[Len(front) + i] = OtherPart[i]
    BY <1>1, <1>2, HeaderConcat, Zenon
  <2> HIDE DEF line
  <2>2. (n + 3) + 1 = n + 4 /\ 1 \in 1 .. 1
    BY <1>0
  <2>3. /\ Len(line) = (n + 3) + 1 /\ line[(n + 3) + 1] = OtherPart[1]
        /\ \A i \in 1 .. n + 3 : line[i] = front[i]
    BY <1>1, <1>2, <2>1, <2>2, Zenon
  <2> QED
    BY <2>1, <2>2, <2>3, Zenon
<1> HIDE DEF line
<1>4. /\ header \in Seq(HeaderLexemes) /\ Len(header) = n + 7
      /\ header[1].k = "Cookie:" /\ header[2].k = "space"
      /\ \A i \in 1 .. n + 4 : header[2 + i] = line[i]
      /\ header[n + 7].k = "CRLF"
  <2>1. /\ header \in Seq(HeaderLexemes) /\ Len(header) = Len(line) + 3
        /\ header[1].k = "Cookie:" /\ header[2].k = "space"
        /\ \A i \in 1 .. Len(line) : header[2 + i] = line[i]
        /\ header[Len(line) + 3].k = "CRLF"
    BY <1>3, LineOf, Zenon
  <2> HIDE DEF header
  <2>2. n + 4 + 3 = n + 7
    BY <1>0
  <2> QED
    BY <1>0, <1>3, <2>1, <2>2 DEF header
<1> HIDE DEF header
<1>5. ASSUME NEW i \in 1 .. n + 1 PROVE line[i] = SessionPart(hex)[i]
  <2>1. i \in 1 .. n + 3
    BY <1>0
  <2> QED
    BY <1>2, <1>3, <2>1, Zenon
<1>6. line[n + 2] = Semicolon[1] /\ line[n + 3] = Semicolon[2]
  <2>1. n + 2 \in 1 .. n + 3 /\ n + 3 \in 1 .. n + 3
    BY <1>0
  <2> QED
    BY <1>2, <1>3, <2>1, Zenon
<1>7. ASSUME NEW i \in 1 .. n PROVE header[3 + i] = SessionPart(hex)[1 + i]
  <2>1. 1 + i \in 1 .. n + 1 /\ 1 + i \in 1 .. n + 4 /\ 2 + (1 + i) = 3 + i
    BY <1>0
  <2> QED
    BY <1>4, <1>5, <2>1
<1>8. /\ header[3].k = "sessionID="
      /\ \A i \in 1 .. n : header[3 + i].k = "digit" /\ header[3 + i].v = hex[i]
      /\ header[n + 4].k = ";" /\ header[n + 5].k = "space" /\ header[n + 6].k = "theme=dark"
  <2>1. /\ 1 \in 1 .. n + 1 /\ 1 \in 1 .. n + 4 /\ 2 + 1 = 3
        /\ n + 2 \in 1 .. n + 4 /\ 2 + (n + 2) = n + 4
        /\ n + 3 \in 1 .. n + 4 /\ 2 + (n + 3) = n + 5
        /\ n + 4 \in 1 .. n + 4 /\ 2 + (n + 4) = n + 6
    BY <1>0
  <2>2. /\ header[3] = line[1] /\ header[n + 4] = line[n + 2]
        /\ header[n + 5] = line[n + 3] /\ header[n + 6] = line[n + 4]
    BY <1>4, <2>1
  <2>3. line[1] = SessionPart(hex)[1]
    BY <1>5, <2>1
  <2>4. header[3].k = "sessionID="
    BY <1>1, <2>2, <2>3
  <2>5. header[n + 4].k = ";" /\ header[n + 5].k = "space" /\ header[n + 6].k = "theme=dark"
    BY <1>1, <1>3, <1>6, <2>2
  <2>6. ASSUME NEW i \in 1 .. n PROVE header[3 + i].k = "digit" /\ header[3 + i].v = hex[i]
    <3>1. header[3 + i] = SessionPart(hex)[1 + i]
      BY <1>7
    <3> QED
      BY <1>1, <3>1
  <2> QED
    BY <2>4, <2>5, <2>6
<1>9. \A i \in 1 .. n + 7 : header[i].k = "sessionID=" <=> i = 3
  <2> SUFFICES ASSUME NEW i \in 1 .. n + 7, i # 3
               PROVE  header[i].k # "sessionID="
    BY <1>0, <1>1, <1>8
  <2>1. \/ i \in {1, 2, n + 4, n + 5, n + 6, n + 7}
        \/ i - 3 \in 1 .. n /\ i = 3 + (i - 3)
    BY <1>0
  <2> QED
    BY <1>0, <1>4, <1>8, <2>1
<1>10. header[3 + n + 1].k = ";" /\ 3 \in 2 .. n + 7 /\ 3 + n + 1 \in 1 .. n + 7
  <2>1. 3 + n + 1 = n + 4 /\ 3 \in 2 .. n + 7 /\ 3 + n + 1 \in 1 .. n + 7
    BY <1>0
  <2> QED
    BY <1>8, <2>1, Zenon
<1>11. SessionAt(header, hex, 3)
  BY <1>0, <1>4, <1>8, <1>9, <1>10 DEF SessionAt, n
<1> QED
  BY <1>4, <1>11 DEF header, line, front

(* The line with the session behind the other cookie. *)
LEMMA SessionLast ==
  ASSUME NEW hex \in Seq(0 .. 15)
  PROVE  LET line == OtherPart \o Semicolon \o SessionPart(hex)
             header == <<Mark("Cookie:"), Space>> \o line \o <<Mark("CRLF")>>
         IN header \in Seq(HeaderLexemes) /\ SessionAt(header, hex, 6)
<1> DEFINE front == OtherPart \o Semicolon
           line == front \o SessionPart(hex)
           header == <<Mark("Cookie:"), Space>> \o line \o <<Mark("CRLF")>>
           n == Len(hex)
<1>0. n \in Nat
  OBVIOUS
<1>1. /\ SessionPart(hex) \in Seq(HeaderLexemes) /\ Len(SessionPart(hex)) = 1 + n
      /\ SessionPart(hex)[1].k = "sessionID="
      /\ \A i \in 1 .. n : SessionPart(hex)[1 + i].k = "digit" /\ SessionPart(hex)[1 + i].v = hex[i]
      /\ OtherPart \in Seq(HeaderLexemes) /\ Len(OtherPart) = 1
      /\ OtherPart[1].k = "theme=dark"
      /\ Semicolon \in Seq(HeaderLexemes) /\ Len(Semicolon) = 2
      /\ Semicolon[1].k = ";" /\ Semicolon[2].k = "space"
  BY PartsOfLine
<1> HIDE DEF n
<1>2. /\ front \in Seq(HeaderLexemes) /\ Len(front) = 3
      /\ front[1] = OtherPart[1] /\ front[2] = Semicolon[1] /\ front[3] = Semicolon[2]
  <2>1. /\ front \in Seq(HeaderLexemes) /\ Len(front) = Len(OtherPart) + Len(Semicolon)
        /\ \A i \in 1 .. Len(OtherPart) : front[i] = OtherPart[i]
        /\ \A i \in 1 .. Len(Semicolon) : front[Len(OtherPart) + i] = Semicolon[i]
    BY <1>0, <1>1, HeaderConcat, Zenon
  <2> HIDE DEF front
  <2>2. /\ 1 + 1 = 2 /\ 1 + 2 = 3 /\ 1 \in 1 .. 1 /\ 1 \in 1 .. 2 /\ 2 \in 1 .. 2
    OBVIOUS
  <2>3. /\ Len(front) = 1 + 2 /\ front[1] = OtherPart[1]
        /\ front[1 + 1] = Semicolon[1] /\ front[1 + 2] = Semicolon[2]
    BY <1>1, <2>1, <2>2, Zenon
  <2> QED
    BY <2>1, <2>2, <2>3, Zenon
<1> HIDE DEF front
<1>3. /\ line \in Seq(HeaderLexemes) /\ Len(line) = n + 4
      /\ \A i \in 1 .. 3 : line[i] = front[i]
      /\ \A i \in 1 .. n + 1 : line[3 + i] = SessionPart(hex)[i]
  <2>1. /\ line \in Seq(HeaderLexemes) /\ Len(line) = Len(front) + Len(SessionPart(hex))
        /\ \A i \in 1 .. Len(front) : line[i] = front[i]
        /\ \A i \in 1 .. Len(SessionPart(hex)) : line[Len(front) + i] = SessionPart(hex)[i]
    BY <1>0, <1>1, <1>2, HeaderConcat, Zenon
  <2> HIDE DEF line
  <2>2. 3 + (1 + n) = n + 4 /\ 1 + n = n + 1
    BY <1>0
  <2> QED
    BY <1>0, <1>1, <1>2, <2>1, <2>2
<1> HIDE DEF line
<1>4. /\ header \in Seq(HeaderLexemes) /\ Len(header) = n + 7
      /\ header[1].k = "Cookie:" /\ header[2].k = "space"
      /\ \A i \in 1 .. n + 4 : header[2 + i] = line[i]
      /\ header[n + 7].k = "CRLF"
  <2>1. /\ header \in Seq(HeaderLexemes) /\ Len(header) = Len(line) + 3
        /\ header[1].k = "Cookie:" /\ header[2].k = "space"
        /\ \A i \in 1 .. Len(line) : header[2 + i] = line[i]
        /\ header[Len(line) + 3].k = "CRLF"
    BY <1>3, LineOf, Zenon
  <2> HIDE DEF header
  <2>2. n + 4 + 3 = n + 7
    BY <1>0
  <2> QED
    BY <1>0, <1>3, <2>1, <2>2 DEF header
<1> HIDE DEF header
<1>5. /\ line[1] = OtherPart[1] /\ line[2] = Semicolon[1] /\ line[3] = Semicolon[2]
      /\ line[4] = SessionPart(hex)[1]
  <2>1. 1 \in 1 .. 3 /\ 2 \in 1 .. 3 /\ 3 \in 1 .. 3 /\ 1 \in 1 .. n + 1 /\ 3 + 1 = 4
    BY <1>0
  <2> QED
    BY <1>2, <1>3, <2>1
<1>6. /\ header[3] = line[1] /\ header[4] = line[2] /\ header[5] = line[3]
      /\ header[6] = line[4]
  <2>1. /\ 1 \in 1 .. n + 4 /\ 2 \in 1 .. n + 4 /\ 3 \in 1 .. n + 4 /\ 4 \in 1 .. n + 4
        /\ 2 + 1 = 3 /\ 2 + 2 = 4 /\ 2 + 3 = 5 /\ 2 + 4 = 6
    BY <1>0
  <2> QED
    BY <1>4, <2>1
<1>7. ASSUME NEW i \in 1 .. n PROVE header[6 + i] = SessionPart(hex)[1 + i]
  <2>1. /\ 1 + i \in 1 .. n + 1 /\ 3 + (1 + i) = 4 + i
        /\ 4 + i \in 1 .. n + 4 /\ 2 + (4 + i) = 6 + i
    BY <1>0
  <2>2. line[4 + i] = SessionPart(hex)[1 + i]
    BY <1>3, <2>1
  <2>3. header[6 + i] = line[4 + i]
    BY <1>4, <2>1
  <2> QED
    BY <2>2, <2>3
<1>8. /\ header[3].k = "theme=dark" /\ header[4].k = ";" /\ header[5].k = "space"
      /\ header[6].k = "sessionID="
      /\ \A i \in 1 .. n : header[6 + i].k = "digit" /\ header[6 + i].v = hex[i]
  BY <1>0, <1>1, <1>5, <1>6, <1>7
<1>9. \A i \in 1 .. n + 7 : header[i].k = "sessionID=" <=> i = 6
  <2> SUFFICES ASSUME NEW i \in 1 .. n + 7, i # 6
               PROVE  header[i].k # "sessionID="
    BY <1>0, <1>1, <1>8
  <2>1. \/ i \in {1, 2, 3, 4, 5, n + 7}
        \/ i - 6 \in 1 .. n /\ i = 6 + (i - 6)
    BY <1>0
  <2> QED
    BY <1>0, <1>4, <1>8, <2>1
<1>10. header[6 + n + 1].k = "CRLF" /\ 6 \in 2 .. n + 7 /\ 6 + n + 1 \in 1 .. n + 7
  <2>1. 6 + n + 1 = n + 7 /\ 6 \in 2 .. n + 7 /\ 6 + n + 1 \in 1 .. n + 7
    BY <1>0
  <2> QED
    BY <1>4, <2>1, Zenon
<1>11. SessionAt(header, hex, 6)
  BY <1>0, <1>4, <1>8, <1>9, <1>10 DEF SessionAt, n
<1> QED
  BY <1>4, <1>11 DEF header, line, front

(* A header has no session, or the one that the browser keeps. *)
LEMMA HeaderForm ==
  ASSUME NEW hex \in Seq(0 .. 15), NEW header \in CookieLines(hex)
  PROVE  /\ header \in Seq(HeaderLexemes)
         /\ \/ /\ \A i \in 1 .. Len(header) : header[i].k # "sessionID="
               /\ header = <<>> \/ (header[1].k = "Cookie:" /\ Len(header) >= 1)
            \/ hex # <<>> /\ \E start \in Nat : SessionAt(header, hex, start)
<1>1. CASE header = <<>>
  BY <1>1
<1>2. CASE header = <<Mark("Cookie:"), Space>> \o OtherPart \o <<Mark("CRLF")>>
  <2>1. /\ header \in Seq(HeaderLexemes) /\ Len(header) = Len(OtherPart) + 3
        /\ header[1].k = "Cookie:" /\ header[2].k = "space"
        /\ \A i \in 1 .. Len(OtherPart) : header[2 + i] = OtherPart[i]
        /\ header[Len(OtherPart) + 3].k = "CRLF"
    BY <1>2, PartsOfLine, LineOf, Zenon
  <2>2. Len(header) = 4 /\ header[3].k = "theme=dark" /\ header[4].k = "CRLF"
    <3>1. Len(OtherPart) = 1 /\ OtherPart[1].k = "theme=dark"
      BY PartsOfLine
    <3>2. 1 + 3 = 4 /\ 2 + 1 = 3 /\ 1 \in 1 .. 1
      OBVIOUS
    <3> QED
      BY <2>1, <3>1, <3>2
  <2>3. ASSUME NEW i \in 1 .. 4 PROVE header[i].k # "sessionID="
    <3>1. i \in {1, 2, 3, 4}
      OBVIOUS
    <3> QED
      BY <2>1, <2>2, <3>1
  <2>4. 4 >= 1
    OBVIOUS
  <2> QED
    BY <2>1, <2>2, <2>3, <2>4, Zenon
<1>3. CASE /\ hex # <<>>
           /\ \/ header = <<Mark("Cookie:"), Space>>
                           \o (SessionPart(hex) \o Semicolon \o OtherPart) \o <<Mark("CRLF")>>
              \/ header = <<Mark("Cookie:"), Space>>
                           \o (OtherPart \o Semicolon \o SessionPart(hex)) \o <<Mark("CRLF")>>
  <2>1. header \in Seq(HeaderLexemes) /\ (SessionAt(header, hex, 3) \/ SessionAt(header, hex, 6))
    BY <1>3, SessionFirst, SessionLast, Zenon
  <2> QED
    BY <1>3, <2>1
<1> QED
  BY <1>1, <1>2, <1>3 DEF CookieLines

LEMMA LeastIs ==
  ASSUME NEW S \in SUBSET Nat, NEW m \in S, \A j \in S : m <= j
  PROVE  (CHOOSE i \in S : \A j \in S : i <= j) = m
<1> DEFINE least == CHOOSE i \in S : \A j \in S : i <= j
<1>1. least \in S /\ \A j \in S : least <= j
  OBVIOUS
<1> HIDE DEF least
<1>2. least <= m /\ m <= least /\ least \in Nat /\ m \in Nat
  BY <1>1
<1>3. least = m
  BY <1>2
<1> QED
  BY <1>3 DEF least

FirstAt(header, k, from, m) ==
  /\ m \in from .. Len(header) /\ header[m].k = k
  /\ \A j \in from .. Len(header) : header[j].k = k => m <= j

LEMMA FindIs ==
  ASSUME NEW header \in Seq(HeaderLexemes), NEW k, NEW from \in Nat,
         NEW m, FirstAt(header, k, from, m)
  PROVE  Find(header, k, from) = m
<1> DEFINE hits == {i \in from .. Len(header) : header[i].k = k}
<1>1. hits \in SUBSET Nat /\ m \in hits /\ \A j \in hits : m <= j
  BY DEF FirstAt
<1>2. Find(header, k, from) = IF hits = {} THEN 0 ELSE CHOOSE i \in hits : \A j \in hits : i <= j
  BY DEF Find
<1> HIDE DEF hits
<1>3. hits # {} /\ (CHOOSE i \in hits : \A j \in hits : i <= j) = m
  BY <1>1, LeastIs
<1> QED
  BY <1>2, <1>3

LEMMA FindNone ==
  ASSUME NEW header, NEW k, NEW from \in Nat,
         \A j \in from .. Len(header) : header[j].k # k
  PROVE  Find(header, k, from) = 0
BY DEF Find

(* The session that stands in a header is the one that is read. *)
LEMMA SessionFound ==
  ASSUME NEW hex \in Seq(0 .. 15), NEW header \in Seq(HeaderLexemes), NEW start \in Nat,
         SessionAt(header, hex, start)
  PROVE  ExtractSession(header) = hex /\ Find(header, "sessionID=", 1) # 0
<1> DEFINE n == Len(hex)
           size == Len(header)
           ends == {i \in start .. size : header[i].k \in {";", "space", "CRLF"}}
           end == CHOOSE i \in ends : \A j \in ends : i <= j
<1>1. hex = [i \in 1 .. n |-> hex[i]]
  OBVIOUS
<1>0. n \in Nat /\ size \in Nat /\ start \in 2 .. size /\ start + n + 1 \in 1 .. size
  <2>1. n \in Nat /\ size \in Nat
    OBVIOUS
  <2>2. start \in 2 .. size /\ start + n + 1 \in 1 .. size
    BY Zenon DEF SessionAt
  <2> QED
    BY <2>1, <2>2
<1>2. /\ start \in 2 .. size /\ start + n + 1 \in 1 .. size
      /\ header[1].k = "Cookie:"
      /\ \A i \in 1 .. size : header[i].k = "sessionID=" <=> i = start
      /\ \A i \in 1 .. n : header[start + i].k = "digit" /\ header[start + i].v = hex[i]
      /\ header[start + n + 1].k \in {";", "CRLF"}
  BY DEF SessionAt
<1> HIDE DEF n, size
<1>3. Find(header, "Cookie:", 1) = 1
  <2>1. 1 \in 1 .. size /\ 1 \in Nat /\ \A j \in 1 .. size : 1 <= j
    BY <1>0
  <2>2. \A j \in 1 .. size : header[j].k = "Cookie:" => 1 <= j
    BY <2>1, Zenon
  <2>3. FirstAt(header, "Cookie:", 1, 1)
    BY <1>2, <2>1, <2>2, Zenon DEF FirstAt, size
  <2> QED
    BY <2>1, <2>3, FindIs, Zenon
<1>4. Find(header, "sessionID=", 1 + 1) = start /\ Find(header, "sessionID=", 1) = start
  <2>1. /\ start \in (1 + 1) .. size /\ start \in 1 .. size /\ start <= start
        /\ \A j \in (1 + 1) .. size : j \in 1 .. size
    BY <1>0
  <2>2. header[start].k = "sessionID="
    BY <1>2, <2>1, Zenon
  <2>3. ASSUME NEW j \in 1 .. size, header[j].k = "sessionID=" PROVE start <= j
    <3>1. j = start
      BY <1>2, <2>3, Zenon
    <3> QED
      BY <2>1, <3>1
  <2>4. \A j \in (1 + 1) .. size : header[j].k = "sessionID=" => start <= j
    BY <2>1, <2>3, Zenon
  <2>5. FirstAt(header, "sessionID=", 1 + 1, start) /\ FirstAt(header, "sessionID=", 1, start)
    BY <2>1, <2>2, <2>3, <2>4, Zenon DEF FirstAt, size
  <2>6. 1 \in Nat /\ 1 + 1 \in Nat
    OBVIOUS
  <2> QED
    BY <2>5, <2>6, FindIs, Zenon
<1>5. end = start + n + 1
  <2>1. start + n + 1 \in start .. size /\ start .. size \subseteq Nat
    BY <1>0
  <2>2. start + n + 1 \in ends
    BY <1>2, <2>1
  <2>3. ASSUME NEW j \in start .. size, j < start + n + 1
        PROVE  header[j].k \in {"sessionID=", "digit"}
    <3>1. CASE j = start
      <4>1. j \in 1 .. size
        BY <1>0, <3>1
      <4> QED
        BY <1>2, <3>1, <4>1
    <3>2. CASE j # start
      <4>1. j - start \in 1 .. n /\ j = start + (j - start)
        BY <1>0, <2>3, <3>2
      <4>2. PICK i \in 1 .. n : j = start + i
        BY <4>1
      <4> QED
        BY <1>2, <4>2
    <3> QED
      BY <3>1, <3>2
  <2>5. \A j \in ends : start + n + 1 <= j
    <3>1. \A j \in start .. size : j < start + n + 1 \/ start + n + 1 <= j
      BY <1>0
    <3>2. \A j \in ends : j \in start .. size /\ header[j].k \notin {"sessionID=", "digit"}
      OBVIOUS
    <3> QED
      BY <2>3, <3>1, <3>2
  <2>4. ends \in SUBSET Nat
    BY <2>1
  <2> HIDE DEF ends
  <2> QED
    BY <2>2, <2>4, <2>5, LeastIs
<1>6. ExtractSession(header) = [i \in 1 .. end - start - 1 |-> header[start + i].v]
  <2>1. start # 0
    BY <1>0
  <2>2. Find(header, "Cookie:", 1) # 0 /\ Find(header, "sessionID=", Find(header, "Cookie:", 1) + 1) = start
    BY <1>3, <1>4
  <2>3. (IF Find(header, "Cookie:", 1) = 0 THEN 0
         ELSE Find(header, "sessionID=", Find(header, "Cookie:", 1) + 1)) = start
    BY <2>2
  <2> QED
    BY <2>1, <2>3 DEF ExtractSession, size
<1> HIDE DEF end
<1>7. end - start - 1 = n
  BY <1>0, <1>5
<1>8. ExtractSession(header) = [i \in 1 .. n |-> hex[i]]
  BY <1>2, <1>6, <1>7
<1> QED
  BY <1>0, <1>1, <1>4, <1>8

(* What the server reads from a Cookie line. *)
LEMMA SessionRead ==
  ASSUME NEW hex \in Seq(0 .. 15), NEW header \in CookieLines(hex)
  PROVE  \/ hex # <<>> /\ ExtractSession(header) = hex /\ Find(header, "sessionID=", 1) # 0
         \/ ExtractSession(header) = <<>> /\ Find(header, "sessionID=", 1) = 0
<1>1. header \in Seq(HeaderLexemes)
  BY HeaderForm
<1>2. CASE hex # <<>> /\ \E start \in Nat : SessionAt(header, hex, start)
  BY <1>1, <1>2, SessionFound
<1>3. CASE /\ \A i \in 1 .. Len(header) : header[i].k # "sessionID="
           /\ header = <<>> \/ (header[1].k = "Cookie:" /\ Len(header) >= 1)
  <2>1. Find(header, "sessionID=", 1) = 0
    BY <1>3, FindNone
  <2>2. CASE header = <<>>
    <3>1. Len(header) = 0 /\ \A j \in 1 .. 0 : FALSE
      BY <2>2
    <3>2. Find(header, "Cookie:", 1) = 0
      BY <3>1, FindNone
    <3> QED
      BY <2>1, <3>2 DEF ExtractSession
  <2>3. CASE header[1].k = "Cookie:" /\ Len(header) >= 1
    <3>1. Len(header) \in Nat /\ 1 \in 1 .. Len(header) /\ \A j \in 1 .. Len(header) : 1 <= j
      BY <1>1, <2>3
    <3>2. Find(header, "Cookie:", 1) = 1
      <4>1. FirstAt(header, "Cookie:", 1, 1) /\ 1 \in Nat
        BY <2>3, <3>1 DEF FirstAt
      <4> QED
        BY <1>1, <4>1, FindIs, Zenon
    <3>3. \A j \in (1 + 1) .. Len(header) : j \in 1 .. Len(header)
      BY <3>1
    <3>4. Find(header, "sessionID=", 1 + 1) = 0
      BY <1>3, <3>3, FindNone
    <3> QED
      BY <2>1, <3>2, <3>4 DEF ExtractSession
  <2> QED
    BY <1>3, <2>2, <2>3
<1> QED
  BY <1>2, <1>3, HeaderForm

-----------------------------------------------------------------------------
(* The response.  OneResponse says of sent and steady what Complete says of *)
(* any pieces, which have the length that they announce if that is exact.   *)
In(pieces, p) == {i \in DOMAIN pieces : pieces[i].p = p}
BodySize(pieces) ==
  Cardinality(UNION {{i} \X (1 .. pieces[i].v) : i \in In(pieces, "body")})
Complete(pieces, exact) ==
  /\ In(pieces, "status") = {1}
  /\ Cardinality(In(pieces, "end")) = 1
  /\ \A i \in In(pieces, "end") : \A j \in DOMAIN pieces : (j > i) <=> pieces[j].p = "body"
  /\ exact => \A i \in In(pieces, "length") : pieces[i].v = BodySize(pieces)

LEMMA OneResponseIs ==
  /\ OneResponse <=> (pc = "done" => closed = 1 /\ Complete(sent, steady))
  /\ OneResponse' <=> (pc' = "done" => closed' = 1 /\ Complete(sent', steady'))
BY DEF OneResponse, At, BodyLength, In, BodySize, Complete

LEMMA NoBody ==
  ASSUME NEW pieces, In(pieces, "body") = {}
  PROVE  BodySize(pieces) = 0
<1>1. UNION {{i} \X (1 .. pieces[i].v) : i \in In(pieces, "body")} = {}
  OBVIOUS
<1> QED
  BY <1>1, FS_EmptySet DEF BodySize

(* As many pieces as there are in the bodies that are all of the same size. *)
LEMMA SameBodies ==
  ASSUME NEW pieces, NEW a \in Nat, NEW b \in Nat, a <= b + 1, NEW size \in Nat,
         In(pieces, "body") = a .. b, \A i \in a .. b : pieces[i].v = size
  PROVE  BodySize(pieces) = (b + 1 - a) * size
<1>1. UNION {{i} \X (1 .. pieces[i].v) : i \in In(pieces, "body")} = (a .. b) \X (1 .. size)
  <2>1. {{i} \X (1 .. pieces[i].v) : i \in In(pieces, "body")}
          = {{i} \X (1 .. size) : i \in a .. b}
    OBVIOUS
  <2>2. UNION {{i} \X (1 .. size) : i \in a .. b} = (a .. b) \X (1 .. size)
    OBVIOUS
  <2> QED
    BY <2>1, <2>2
<1>2. IsFiniteSet(a .. b) /\ Cardinality(a .. b) = IF a > b THEN 0 ELSE b - a + 1
  BY FS_Interval
<1>3. IsFiniteSet(1 .. size) /\ Cardinality(1 .. size) = IF 1 > size THEN 0 ELSE size - 1 + 1
  BY FS_Interval
<1>4. Cardinality((a .. b) \X (1 .. size)) = Cardinality(a .. b) * Cardinality(1 .. size)
  BY <1>2, <1>3, FS_Product
<1>5. Cardinality(a .. b) = b + 1 - a /\ Cardinality(1 .. size) = size
  BY <1>2, <1>3
<1> QED
  BY <1>1, <1>4, <1>5 DEF BodySize

(* One status line in front, one end of the headers at e, bodies behind it. *)
Shaped(pieces, n, e, exact) ==
  /\ DOMAIN pieces = 1 .. n
  /\ \A i \in 1 .. n :
       /\ (pieces[i].p = "status" <=> i = 1) /\ (pieces[i].p = "end" <=> i = e)
       /\ (pieces[i].p = "body" <=> i > e)
       /\ (exact => (pieces[i].p = "length" => pieces[i].v = BodySize(pieces)))

LEMMA Shape ==
  ASSUME NEW pieces, NEW n \in Nat, NEW e \in 2 .. n, NEW exact \in BOOLEAN,
         Shaped(pieces, n, e, exact)
  PROVE  Complete(pieces, exact)
<1>1. 1 \in 1 .. n /\ e \in 1 .. n
  OBVIOUS
<1>2. In(pieces, "status") = {1} /\ In(pieces, "end") = {e}
  BY <1>1 DEF In, Shaped
<1>3. Cardinality({e}) = 1
  BY FS_Singleton
<1>4. /\ exact => \A i \in In(pieces, "length") : pieces[i].v = BodySize(pieces)
      /\ \A j \in DOMAIN pieces : (j > e) <=> pieces[j].p = "body"
  BY Zenon DEF In, Shaped
<1> QED
  BY <1>2, <1>3, <1>4, Zenon DEF Complete

(* The responses without a body, and those with one. *)
LEMMA ShortResponses ==
  /\ \A code \in Nat : /\ Complete(<<Piece("status", code), EndOfHeader>>, TRUE)
                        /\ KnownCookies(<<Piece("status", code), EndOfHeader>>)
  /\ Complete(http_send_302, TRUE) /\ KnownCookies(http_send_302)
<1>1. ASSUME NEW code \in Nat
      PROVE  /\ Complete(<<Piece("status", code), EndOfHeader>>, TRUE)
             /\ KnownCookies(<<Piece("status", code), EndOfHeader>>)
  <2> DEFINE pieces == <<Piece("status", code), EndOfHeader>>
  <2>1. DOMAIN pieces = 1 .. 2 /\ pieces[1] = Piece("status", code) /\ pieces[2] = EndOfHeader
    OBVIOUS
  <2> HIDE DEF pieces
  <2>2. pieces[1].p = "status" /\ pieces[2].p = "end"
    BY <2>1 DEF Piece, EndOfHeader
  <2>3. \A i \in 1 .. 2 :
          /\ (pieces[i].p = "status" <=> i = 1) /\ (pieces[i].p = "end" <=> i = 2)
          /\ (pieces[i].p = "body" <=> i > 2) /\ pieces[i].p # "length" /\ pieces[i].p # "cookie"
    BY <2>2
  <2>4. 2 \in Nat /\ 2 \in 2 .. 2 /\ Shaped(pieces, 2, 2, TRUE)
    BY <2>1, <2>3 DEF Shaped
  <2>5. Complete(pieces, TRUE) /\ KnownCookies(pieces)
    <3>1. Complete(pieces, TRUE)
      BY <2>4, Shape, Zenon
    <3>2. KnownCookies(pieces)
      BY <2>1, <2>3, Zenon DEF KnownCookies
    <3> QED
      BY <3>1, <3>2
  <2> QED
    BY <2>5 DEF pieces
<1>2. Complete(http_send_302, TRUE) /\ KnownCookies(http_send_302)
  <2> DEFINE pieces == http_send_302
  <2>1. /\ DOMAIN pieces = 1 .. 4 /\ pieces[1] = Piece("status", 302)
        /\ pieces[2] = Piece("location", "/login.html") /\ pieces[3] = Piece("length", 0)
        /\ pieces[4] = EndOfHeader
    BY DEF http_send_302
  <2> HIDE DEF pieces
  <2>2. /\ pieces[1].p = "status" /\ pieces[2].p = "location" /\ pieces[3].p = "length"
        /\ pieces[4].p = "end" /\ pieces[3].v = 0
    BY <2>1 DEF Piece, EndOfHeader
  <2>3. \A i \in 1 .. 4 :
           /\ (pieces[i].p = "status" <=> i = 1) /\ (pieces[i].p = "end" <=> i = 4)
           /\ (pieces[i].p = "body" <=> i > 4) /\ (pieces[i].p = "length" => pieces[i].v = 0)
           /\ pieces[i].p # "cookie" /\ pieces[i].p # "body"
    BY <2>2
  <2>4. BodySize(pieces) = 0
    BY <2>1, <2>3, NoBody DEF In
  <2>5. 4 \in Nat /\ 4 \in 2 .. 4 /\ Shaped(pieces, 4, 4, TRUE)
    BY <2>1, <2>3, <2>4 DEF Shaped
  <2>6. Complete(pieces, TRUE) /\ KnownCookies(pieces)
    <3>1. Complete(pieces, TRUE)
      BY <2>5, Shape, Zenon
    <3>2. KnownCookies(pieces)
      BY <2>1, <2>3, Zenon DEF KnownCookies
    <3> QED
      BY <3>1, <3>2
  <2> QED
    BY <2>6 DEF pieces
<1> QED
  BY <1>1, <1>2, Zenon

(* A body in the last piece. *)
EndsWithBody(pieces, n, size) ==
  /\ DOMAIN pieces = 1 .. n
  /\ \A i \in 1 .. n : pieces[i].p = "body" <=> i = n
  /\ pieces[n].v = size

LEMMA LastBody ==
  ASSUME NEW pieces, NEW n \in Nat \ {0}, NEW size \in Nat, EndsWithBody(pieces, n, size)
  PROVE  BodySize(pieces) = size
<1>1. In(pieces, "body") = n .. n
  BY DEF In, EndsWithBody
<1>2. n \in Nat /\ n <= n + 1 /\ \A i \in n .. n : pieces[i].v = size
  BY DEF EndsWithBody
<1>3. BodySize(pieces) = (n + 1 - n) * size
  <2>1. n \in Nat /\ n <= n + 1
    OBVIOUS
  <2> QED
    BY <1>1, <1>2, <2>1, SameBodies
<1>4. (n + 1 - n) * size = size
  <2>1. n + 1 - n = 1
    OBVIOUS
  <2> QED
    BY <2>1
<1> QED
  BY <1>3, <1>4

LEMMA FullResponse ==
  ASSUME NEW mime, NEW size \in Nat
  PROVE  Complete(http_send(mime, size, TRUE), TRUE) /\ KnownCookies(http_send(mime, size, TRUE))
<1> DEFINE pieces == http_send(mime, size, TRUE)
<1>1. /\ DOMAIN pieces = 1 .. 5 /\ pieces[1] = Piece("status", 200)
      /\ pieces[2] = Piece("type", mime) /\ pieces[3] = Piece("length", size)
      /\ pieces[4] = EndOfHeader /\ pieces[5] = Piece("body", size)
  <2>1. pieces = <<Piece("status", 200), Piece("type", mime), Piece("length", size), EndOfHeader>>
                   \o <<Piece("body", size)>>
    BY Zenon DEF http_send
  <2> HIDE DEF pieces
  <2> QED
    BY <2>1
<1> HIDE DEF pieces
<1>2. /\ pieces[1].p = "status" /\ pieces[2].p = "type" /\ pieces[3].p = "length"
      /\ pieces[4].p = "end" /\ pieces[5].p = "body" /\ pieces[3].v = size /\ pieces[5].v = size
  BY <1>1 DEF Piece, EndOfHeader
<1>3. \A i \in 1 .. 5 :
        /\ (pieces[i].p = "status" <=> i = 1) /\ (pieces[i].p = "end" <=> i = 4)
        /\ (pieces[i].p = "body" <=> i > 4) /\ (pieces[i].p = "body" <=> i = 5)
        /\ (pieces[i].p = "length" => pieces[i].v = size) /\ pieces[i].p # "cookie"
  BY <1>2
<1>4. 5 \in Nat \ {0} /\ 4 \in 2 .. 5 /\ 5 \in Nat
  OBVIOUS
<1>5. BodySize(pieces) = size
  <2>1. \A i \in 1 .. 5 : pieces[i].p = "body" <=> i = 5
    BY <1>3
  <2>2. EndsWithBody(pieces, 5, size)
    BY <1>1, <1>2, <2>1, Zenon DEF EndsWithBody
  <2>3. 5 \in Nat \ {0} /\ size \in Nat
    OBVIOUS
  <2> QED
    BY <2>2, <2>3, LastBody, Zenon
<1>6. Shaped(pieces, 5, 4, TRUE)
  BY <1>1, <1>3, <1>5, Zenon DEF Shaped
<1>7. Complete(pieces, TRUE) /\ KnownCookies(pieces)
  <2>1. Complete(pieces, TRUE)
    BY <1>4, <1>6, Shape, Zenon
  <2>2. KnownCookies(pieces)
    BY <1>1, <1>3, ZenonT(30) DEF KnownCookies
  <2> QED
    BY <2>1, <2>2
<1> QED
  BY <1>7 DEF pieces

LEMMA LoginResponse ==
  ASSUME NEW hex, IsToken(hex)
  PROVE  /\ Complete(http_send_wcookie(hex, "application/json", 1), TRUE)
         /\ KnownCookies(http_send_wcookie(hex, "application/json", 1))
<1> DEFINE pieces == http_send_wcookie(hex, "application/json", 1)
<1>1. /\ DOMAIN pieces = 1 .. 6 /\ pieces[1] = Piece("status", 200)
      /\ pieces[2] = Piece("type", "application/json") /\ pieces[3] = Piece("length", 1)
      /\ pieces[4] = Piece("cookie", hex) /\ pieces[5] = EndOfHeader /\ pieces[6] = Piece("body", 1)
  <2>1. "application/json" # None /\ 1 # 0
    BY RequestAssumption
  <2>2. pieces = <<Piece("status", 200)>> \o <<Piece("type", "application/json")>>
                   \o <<Piece("length", 1)>> \o <<Piece("cookie", hex), EndOfHeader>>
                   \o <<Piece("body", 1)>>
    BY <2>1, Zenon DEF http_send_wcookie
  <2> HIDE DEF pieces
  <2> QED
    BY <2>2
<1> HIDE DEF pieces
<1>2. /\ pieces[1].p = "status" /\ pieces[2].p = "type" /\ pieces[3].p = "length"
      /\ pieces[4].p = "cookie" /\ pieces[5].p = "end" /\ pieces[6].p = "body"
      /\ pieces[3].v = 1 /\ pieces[4].v = hex /\ pieces[6].v = 1
  BY <1>1 DEF Piece, EndOfHeader
<1>3. \A i \in 1 .. 6 :
        /\ (pieces[i].p = "status" <=> i = 1) /\ (pieces[i].p = "end" <=> i = 5)
        /\ (pieces[i].p = "body" <=> i > 5) /\ (pieces[i].p = "body" <=> i = 6)
        /\ (pieces[i].p = "length" => pieces[i].v = 1)
        /\ (pieces[i].p = "cookie" => pieces[i].v = hex)
  BY <1>2
<1>4. 6 \in Nat \ {0} /\ 5 \in 2 .. 6 /\ 6 \in Nat /\ 1 \in Nat
  OBVIOUS
<1>5. BodySize(pieces) = 1
  <2>1. \A i \in 1 .. 6 : pieces[i].p = "body" <=> i = 6
    BY <1>3
  <2>2. EndsWithBody(pieces, 6, 1)
    BY <1>1, <1>2, <2>1, Zenon DEF EndsWithBody
  <2>3. 6 \in Nat \ {0} /\ 1 \in Nat
    OBVIOUS
  <2> QED
    BY <2>2, <2>3, LastBody, Zenon
<1>6. Shaped(pieces, 6, 5, TRUE)
  BY <1>1, <1>3, <1>5, Zenon DEF Shaped
<1>7. Complete(pieces, TRUE) /\ KnownCookies(pieces)
  <2>1. Complete(pieces, TRUE)
    BY <1>4, <1>6, Shape, Zenon
  <2>2. KnownCookies(pieces)
    <3>1. ASSUME NEW i \in DOMAIN pieces, pieces[i].p = "cookie"
          PROVE  IsToken(pieces[i].v)
      <4>1. pieces[i].v = hex
        BY <1>1, <1>3, <3>1
      <4> QED
        BY <4>1, Zenon DEF IsToken
    <3> QED
      BY <3>1, Zenon DEF KnownCookies
  <2> QED
    BY <2>1, <2>2
<1> QED
  BY <1>7 DEF pieces

LEMMA LogoutResponse ==
  /\ Complete(http_send_wcookie(<<>>, None, 0), TRUE)
  /\ KnownCookies(http_send_wcookie(<<>>, None, 0))
<1> DEFINE pieces == http_send_wcookie(<<>>, None, 0)
<1>1. /\ DOMAIN pieces = 1 .. 3 /\ pieces[1] = Piece("status", 200)
      /\ pieces[2] = Piece("cookie", <<>>) /\ pieces[3] = EndOfHeader
  <2>1. pieces = <<Piece("status", 200)>> \o <<>> \o <<>>
                   \o <<Piece("cookie", <<>>), EndOfHeader>> \o <<>>
    BY Zenon DEF http_send_wcookie
  <2> HIDE DEF pieces
  <2> QED
    BY <2>1
<1> HIDE DEF pieces
<1>2. /\ pieces[1].p = "status" /\ pieces[2].p = "cookie" /\ pieces[3].p = "end"
      /\ pieces[2].v = <<>>
  BY <1>1 DEF Piece, EndOfHeader
<1>3. \A i \in 1 .. 3 :
        /\ (pieces[i].p = "status" <=> i = 1) /\ (pieces[i].p = "end" <=> i = 3)
        /\ (pieces[i].p = "body" <=> i > 3) /\ pieces[i].p # "length"
        /\ (pieces[i].p = "cookie" => pieces[i].v = <<>>)
  BY <1>2
<1>4. 3 \in 2 .. 3 /\ 3 \in Nat
  OBVIOUS
<1>5. Shaped(pieces, 3, 3, TRUE)
  BY <1>1, <1>3, Zenon DEF Shaped
<1>6. Complete(pieces, TRUE) /\ KnownCookies(pieces)
  <2>1. Complete(pieces, TRUE)
    BY <1>4, <1>5, Shape, Zenon
  <2>2. KnownCookies(pieces)
    BY <1>1, <1>3, ZenonT(30) DEF KnownCookies
  <2> QED
    BY <2>1, <2>2
<1> QED
  BY <1>6 DEF pieces

LEMMA FileHeaderIs ==
  ASSUME NEW mime
  PROVE  /\ Len(http_send(mime, FileSize, FALSE)) = 4
         /\ DOMAIN http_send(mime, FileSize, FALSE) = 1 .. 4
         /\ http_send(mime, FileSize, FALSE)[1] = Piece("status", 200)
         /\ http_send(mime, FileSize, FALSE)[2] = Piece("type", mime)
         /\ http_send(mime, FileSize, FALSE)[3] = Piece("length", FileSize)
         /\ http_send(mime, FileSize, FALSE)[4] = EndOfHeader
<1> DEFINE pieces == http_send(mime, FileSize, FALSE)
<1>1. pieces = <<Piece("status", 200), Piece("type", mime), Piece("length", FileSize), EndOfHeader>>
                 \o <<>>
  BY Zenon DEF http_send
<1> HIDE DEF pieces
<1>2. /\ Len(pieces) = 4 /\ DOMAIN pieces = 1 .. 4 /\ pieces[1] = Piece("status", 200)
      /\ pieces[2] = Piece("type", mime) /\ pieces[3] = Piece("length", FileSize)
      /\ pieces[4] = EndOfHeader
  BY <1>1
<1> QED
  BY <1>2 DEF pieces

(* A file's response, as far as count pieces of its body. *)
FilePart(pieces, header, count) ==
  /\ DOMAIN pieces = 1 .. 4 + count
  /\ \A i \in DOMAIN pieces : pieces[i] = IF i <= 4 THEN header[i] ELSE Piece("body", 1)

LEMMA FileResponse ==
  ASSUME NEW mime, NEW count \in Nat, NEW pieces, NEW exact \in BOOLEAN,
         exact => count = FileSize,
         FilePart(pieces, http_send(mime, FileSize, FALSE), count)
  PROVE  Complete(pieces, exact) /\ KnownCookies(pieces)
<1> DEFINE n == 4 + count
           header == http_send(mime, FileSize, FALSE)
<1>1. FileSize \in Nat
  BY RequestAssumption
<1>2. n \in Nat /\ 4 \in 2 .. n /\ DOMAIN pieces = 1 .. n
  BY <1>1 DEF FilePart
<1>3. \A i \in 1 .. n : pieces[i] = IF i <= 4 THEN header[i] ELSE Piece("body", 1)
  BY <1>2 DEF FilePart
<1>4. n + 1 - 5 = count /\ 5 <= n + 1
  BY <1>1
<1>5. /\ header[1].p = "status" /\ header[2].p = "type" /\ header[3].p = "length"
      /\ header[4].p = "end" /\ header[3].v = FileSize
  <2>1. /\ header[1] = Piece("status", 200) /\ header[2] = Piece("type", mime)
        /\ header[3] = Piece("length", FileSize) /\ header[4] = EndOfHeader
    BY FileHeaderIs, Zenon
  <2> HIDE DEF header
  <2> QED
    BY <2>1 DEF Piece, EndOfHeader
<1> HIDE DEF n, header
<1>6. n \in Nat /\ n >= 4
  BY <1>2
<1>7. ASSUME NEW i \in 1 .. n
      PROVE  /\ (pieces[i].p = "status" <=> i = 1) /\ (pieces[i].p = "end" <=> i = 4)
             /\ (pieces[i].p = "body" <=> i > 4) /\ (pieces[i].p = "length" => pieces[i].v = FileSize)
             /\ (i > 4 => pieces[i].v = 1) /\ pieces[i].p # "cookie"
  <2>1. CASE i <= 4
    <3>1. i \in {1, 2, 3, 4} /\ ~ (i > 4)
      BY <1>6, <2>1
    <3>2. pieces[i] = header[i]
      BY <1>3, <2>1
    <3> QED
      BY <1>5, <3>1, <3>2
  <2>2. CASE i > 4
    <3>1. ~ (i <= 4) /\ i # 1 /\ i # 4
      BY <1>6, <2>2
    <3>2. pieces[i] = Piece("body", 1)
      BY <1>3, <3>1
    <3>3. pieces[i].p = "body" /\ pieces[i].v = 1
      BY <3>2 DEF Piece
    <3> QED
      BY <2>2, <3>1, <3>3
  <2> QED
    BY <1>6, <2>1, <2>2
<1>8. In(pieces, "body") = 5 .. n
  <2>1. \A i : i \in 1 .. n /\ i > 4 <=> i \in 5 .. n
    BY <1>6
  <2>2. \A i : i \in In(pieces, "body") <=> i \in 1 .. n /\ i > 4
    BY <1>2, <1>7, Zenon DEF In
  <2> QED
    BY <2>1, <2>2, Zenon
<1>9. BodySize(pieces) = (n + 1 - 5) * 1
  <2>1. \A i \in 5 .. n : i \in 1 .. n /\ i > 4
    BY <1>6
  <2>2. 5 \in Nat /\ 1 \in Nat
    OBVIOUS
  <2>3. \A i \in 5 .. n : pieces[i].v = 1
    BY <1>7, <2>1, Zenon
  <2> QED
    BY <1>4, <1>6, <1>8, <2>2, <2>3, SameBodies, Zenon
<1>10. exact => BodySize(pieces) = FileSize
  BY <1>1, <1>4, <1>9
<1>11. Shaped(pieces, n, 4, exact)
  BY <1>2, <1>7, <1>10, Zenon DEF Shaped
<1> QED
  BY <1>2, <1>7, <1>11, Shape, Zenon DEF KnownCookies

-----------------------------------------------------------------------------
(* What the process dies of.  FaultExplained says of fault what ExplainedBy *)
(* says of any fault.                                                       *)
Reason(why, v) ==
  \/ why.path \in LoginPaths /\ ~(HasString(v, username) /\ PasswordFits(v))
  \/ why.path \in LoginPaths /\ Footprint(v) > ArenaSize
  \/ why.path = "/api/v1/user" /\ ~HasString(v, get)
  \/ why.path = "/api/v1/user" /\ \E u \in Users : ArenaSize - why.arena - Footprint(v) < NameCost(u)
ExplainedBy(why) ==
  why # None =>
    \A v \in (IF why.late \/ why.overlong THEN {} ELSE Denoted(why.text)) : Reason(why, v)

LEMMA FaultExplainedIs ==
  /\ FaultExplained <=> ExplainedBy(fault)
  /\ FaultExplained' <=> ExplainedBy(fault')
BY DEF FaultExplained, ExplainedBy, Reason, Meaning, Spare

(* What the handlers need of the library: a text is read into what it       *)
(* stands for if that fits.                                                 *)
LEMMA ReadsText ==
  ASSUME NEW text \in Texts, NEW off \in 0 .. ArenaSize
  PROVE  /\ json_parse(text, off).off \in off .. ArenaSize
         /\ json_parse(text, off).off \in 0 .. ArenaSize
         /\ \A v \in Denoted(text) :
              /\ Footprint(v) \in Nat
              /\ Footprint(v) <= ArenaSize - off =>
                   /\ v = json_parse(text, off).v
                   /\ json_parse(text, off).off = off + Footprint(v)
<1> DEFINE result == json_parse(text, off)
<1>1. /\ {result.v} \ {None} = {v \in Denoted(text) : Footprint(v) <= ArenaSize - off}
      /\ result.off \in off .. ArenaSize
      /\ result.v # None => result.off = off + Footprint(result.v)
  BY LibraryAssumption, Zenon
<1>2. \A v \in Denoted(text) : Footprint(v) \in Nat
  BY LibraryAssumption, Zenon
<1>3. ASSUME NEW v \in Denoted(text), Footprint(v) <= ArenaSize - off
      PROVE  v = result.v /\ result.off = off + Footprint(v)
  <2>1. v \in {result.v} \ {None}
    BY <1>1, <1>3
  <2>2. v = result.v /\ result.v # None
    BY <2>1
  <2> QED
    BY <1>1, <2>2
<1>4. result.off \in 0 .. ArenaSize
  BY <1>1, JsonAssumption
<1> QED
  BY <1>1, <1>2, <1>3, <1>4

LEMMA AllocIs ==
  ASSUME NEW off \in 0 .. ArenaSize, NEW bytes \in Nat, NEW v, NEW at
  PROVE  /\ Alloc(off, bytes, v, at).off \in off .. ArenaSize
         /\ off + bytes > ArenaSize => Alloc(off, bytes, v, at) = [v |-> None, at |-> 0, off |-> off]
         /\ ~ (off + bytes > ArenaSize) =>
              Alloc(off, bytes, v, at) = [v |-> v, at |-> at, off |-> off + bytes]
BY JsonAssumption DEF Alloc, Failed

(* The document that the answer with the user's name is made of.            *)
NoName == Composite("{", <<<<username, None>>>>)
LEMMA NameDocumentIs ==
  ASSUME req.user \in Users, NEW off \in 0 .. ArenaSize
  PROVE  /\ NameDocument(off).off \in off .. ArenaSize
         /\ NameDocument(off).v \in {None, Composite("{", <<>>), NoName, NameAnswer(req.user)}
         /\ off + 2 * NodeBytes + MemberBytes + Length[req.user] + 1 + Length[username] + 1
                <= ArenaSize =>
              /\ NameDocument(off).v = NameAnswer(req.user)
              /\ NameDocument(off).off =
                   off + 2 * NodeBytes + MemberBytes + Length[req.user] + 1 + Length[username] + 1
<1> DEFINE u == req.user
           empty == Composite("{", <<>>)
           object == MakeObject(off)
           copy == Alloc(object.off, Length[u] + 1, None, 1)
           name == MakeString(object.off, u)
           grown == Alloc(name.off, MemberBytes, None, 1)
           key == Alloc(grown.off, Length[username] + 1, None, 1)
           doc == NameDocument(off)
           ulen == Length[u] + 1
           klen == Length[username] + 1
<1>1. /\ ArenaSize \in Nat /\ NodeBytes \in Nat \ {0} /\ MemberBytes \in Nat \ {0}
      /\ ulen \in Nat /\ klen \in Nat /\ off \in Nat /\ off <= ArenaSize
  BY JsonAssumption, RequestAssumption
<1>2. /\ off + NodeBytes > ArenaSize => object.v = None /\ object.at = 0 /\ object.off = off
      /\ ~ (off + NodeBytes > ArenaSize) =>
           object.v = empty /\ object.at = 1 /\ object.off = off + NodeBytes
  BY DEF MakeObject, Alloc, Failed, Composite
<1>3. /\ object.at = 0 => doc = object
      /\ object.at # 0 => doc = ObjectAdd(name.off, object.v, username, name.v)
  BY Zenon DEF NameDocument
<1>4. /\ object.off + ulen > ArenaSize =>
           copy.v = None /\ copy.at = 0 /\ copy.off = object.off
      /\ ~ (object.off + ulen > ArenaSize) =>
           copy.v = None /\ copy.at = 1 /\ copy.off = object.off + ulen
  BY DEF Alloc, Failed
<1>5. /\ copy.at = 0 => name = copy
      /\ copy.at # 0 => name = Alloc(copy.off, NodeBytes, NameValue(u), copy.at)
  BY Zenon DEF MakeString, StringAt, StringIn, NameValue
<1>6. /\ name.off + MemberBytes > ArenaSize => grown.at = 0 /\ grown.off = name.off
      /\ ~ (name.off + MemberBytes > ArenaSize) => grown.at = 1 /\ grown.off = name.off + MemberBytes
  BY DEF Alloc, Failed
<1>7. /\ grown.off + klen > ArenaSize => key.at = 0
      /\ ~ (grown.off + klen > ArenaSize) => key.at = 1 /\ key.off = grown.off + klen
  BY DEF Alloc, Failed
<1>8. ASSUME doc = ObjectAdd(name.off, empty, username, name.v)
      PROVE  /\ grown.at = 0 \/ key.at = 0 => doc.v = empty /\ doc.off = grown.off
             /\ ~ (grown.at = 0 \/ key.at = 0) =>
                  doc.v = Composite("{", <<<<username, name.v>>>>) /\ doc.off = key.off
  <2>1. (Len(empty.members) + 1) * MemberBytes = MemberBytes
    BY <1>1 DEF Composite
  <2>2. /\ grown = Alloc(name.off, (Len(empty.members) + 1) * MemberBytes, None, 1)
        /\ key = Alloc(grown.off, Length[username] + 1, None, 1)
    BY <2>1, Zenon
  <2>3. [empty EXCEPT !.members = Append(@, <<username, name.v>>)]
          = Composite("{", <<<<username, name.v>>>>)
    BY DEF Composite
  <2> HIDE DEF empty, grown, key, name, doc
  <2>4. doc = IF grown.at = 0 \/ key.at = 0 THEN [v |-> empty, at |-> 0, off |-> grown.off]
              ELSE [v |-> [empty EXCEPT !.members = Append(@, <<username, name.v>>)], at |-> 1,
                    off |-> key.off]
    BY <1>8, <2>2, Zenon DEF ObjectAdd
  <2> QED
    BY <2>3, <2>4
<1> HIDE DEF empty, object, copy, grown, key, doc, ulen, klen, u
<1>9. ASSUME ~ (off + NodeBytes > ArenaSize)
      PROVE  /\ name.off \in object.off .. ArenaSize /\ name.v \in {None, NameValue(u)}
             /\ off + NodeBytes + ulen + NodeBytes <= ArenaSize =>
                  name.v = NameValue(u) /\ name.off = off + NodeBytes + ulen + NodeBytes
  <2>1. object.off = off + NodeBytes /\ object.off \in Nat /\ object.off <= ArenaSize
    BY <1>1, <1>2, <1>9
  <2>2. CASE object.off + ulen > ArenaSize
    <3>1. name.v = None /\ name.off = object.off
      BY <1>4, <1>5, <2>2, Zenon
    <3> HIDE DEF name
    <3> QED
      BY <1>1, <2>1, <2>2, <3>1
  <2>3. CASE ~ (object.off + ulen > ArenaSize)
    <3>1. copy.at = 1 /\ copy.off = object.off + ulen
      BY <1>4, <2>3, Zenon
    <3>2. name = Alloc(copy.off, NodeBytes, NameValue(u), 1)
      BY <1>5, <3>1
    <3> HIDE DEF name
    <3>3. /\ copy.off + NodeBytes > ArenaSize => name.v = None /\ name.off = copy.off
          /\ ~ (copy.off + NodeBytes > ArenaSize) =>
               name.v = NameValue(u) /\ name.off = copy.off + NodeBytes
      BY <3>2 DEF Alloc, Failed
    <3> QED
      BY <1>1, <2>1, <2>3, <3>1, <3>3
  <2> QED
    BY <2>2, <2>3
<1> HIDE DEF name
<1> DEFINE need == off + NodeBytes + ulen + NodeBytes + MemberBytes + klen
<1>10. /\ doc.off \in off .. ArenaSize /\ doc.v \in {None, empty, NoName, NameAnswer(u)}
       /\ need <= ArenaSize => doc.v = NameAnswer(u) /\ doc.off = need
  <2>1. CASE off + NodeBytes > ArenaSize
    <3>1. doc.v = None /\ doc.off = off
      BY <1>2, <1>3, <2>1, Zenon
    <3> QED
      BY <1>1, <2>1, <3>1
  <2>2. CASE ~ (off + NodeBytes > ArenaSize)
    <3>1. object.v = empty /\ object.at = 1 /\ object.off = off + NodeBytes
      BY <1>2, <2>2, Zenon
    <3>2. doc = ObjectAdd(name.off, empty, username, name.v)
      BY <1>3, <3>1
    <3>3. /\ grown.at = 0 \/ key.at = 0 => doc.v = empty /\ doc.off = grown.off
          /\ ~ (grown.at = 0 \/ key.at = 0) =>
               doc.v = Composite("{", <<<<username, name.v>>>>) /\ doc.off = key.off
      BY <1>8, <3>2, Zenon
    <3>4. /\ name.off \in Nat /\ off + NodeBytes <= name.off /\ name.off <= ArenaSize
          /\ name.v \in {None, NameValue(u)}
          /\ off + NodeBytes + ulen + NodeBytes <= ArenaSize =>
               name.v = NameValue(u) /\ name.off = off + NodeBytes + ulen + NodeBytes
      BY <1>1, <1>9, <2>2, <3>1
    <3>5. CASE name.off + MemberBytes > ArenaSize
      <4>1. doc.v = empty /\ doc.off = name.off
        BY <1>6, <3>3, <3>5, Zenon
      <4> QED
        BY <1>1, <3>4, <3>5, <4>1
    <3>6. CASE ~ (name.off + MemberBytes > ArenaSize)
      <4>1. grown.at = 1 /\ grown.off = name.off + MemberBytes
        BY <1>6, <3>6, Zenon
      <4>2. CASE grown.off + klen > ArenaSize
        <5>1. doc.v = empty /\ doc.off = grown.off
          BY <1>7, <3>3, <4>2, Zenon
        <5> QED
          BY <1>1, <3>4, <3>6, <4>1, <4>2, <5>1
      <4>3. CASE ~ (grown.off + klen > ArenaSize)
        <5>1. grown.at # 0 /\ key.at # 0 /\ key.off = grown.off + klen
          BY <1>7, <4>1, <4>3
        <5>2. doc.v = Composite("{", <<<<username, name.v>>>>) /\ doc.off = grown.off + klen
          BY <3>3, <5>1, Zenon
        <5>3. doc.v \in {NoName, NameAnswer(u)} /\ (name.v = NameValue(u) => doc.v = NameAnswer(u))
          BY <3>4, <5>2, Zenon DEF NoName, NameAnswer
        <5>4. doc.off = name.off + MemberBytes + klen /\ doc.off <= ArenaSize
          <6>1. /\ grown.off \in Nat /\ klen \in Nat /\ ArenaSize \in Nat
                /\ grown.off + klen = name.off + MemberBytes + klen
            BY <1>1, <3>4, <4>1
          <6>2. ~ (grown.off + klen > ArenaSize) /\ doc.off = grown.off + klen
            BY <4>3, <5>2, Zenon
          <6> QED
            BY <6>1, <6>2
        <5>5. doc.off \in off .. ArenaSize
          BY <1>1, <3>4, <5>4
        <5>6. need <= ArenaSize => off + NodeBytes + ulen + NodeBytes <= ArenaSize
          BY <1>1
        <5>7. need <= ArenaSize => name.v = NameValue(u) /\ doc.off = need
          BY <1>1, <3>4, <5>4, <5>6
        <5> QED
          BY <5>3, <5>5, <5>7, Zenon
      <4> QED
        BY <4>2, <4>3
    <3> QED
      BY <3>5, <3>6
  <2> QED
    BY <2>1, <2>2
<1>11. need = off + 2 * NodeBytes + MemberBytes + Length[u] + 1 + Length[username] + 1
  <2>1. Length[u] \in Nat /\ Length[username] \in Nat
    BY JsonAssumption, RequestAssumption DEF u
  <2> QED
    BY <1>1, <2>1 DEF ulen, klen
<1> QED
  BY <1>10, <1>11, Zenon DEF doc, u, empty, need

(* The document is never written when it is not one of the answers.         *)
LEMMA AnswerIs ==
  ASSUME req.user \in Users, NEW off \in 0 .. ArenaSize
  PROVE  /\ Writable(NameDocument(off).v) =>
              NameDocument(off).v \in Answers /\ Len(json_write(NameDocument(off).v)) \in Nat
         /\ NameCost(req.user) \in Nat
         /\ NameCost(req.user) <= ArenaSize - off =>
              /\ Writable(NameDocument(off).v)
              /\ ~ Overruns(NameDocument(off).off, NameDocument(off).v)
              /\ NameDocument(off).v.members # <<>>
<1> DEFINE u == req.user
           doc == NameDocument(off)
           size == Len(json_write(NameAnswer(u)))
           need == off + 2 * NodeBytes + MemberBytes + Length[u] + 1 + Length[username] + 1
<1>1. /\ doc.off \in off .. ArenaSize
      /\ doc.v \in {None, Composite("{", <<>>), NoName, NameAnswer(u)}
      /\ need <= ArenaSize => doc.v = NameAnswer(u) /\ doc.off = need
  BY NameDocumentIs
<1>2. /\ ArenaSize \in Nat /\ NodeBytes \in Nat /\ MemberBytes \in Nat
      /\ Length[u] \in Nat /\ Length[username] \in Nat
  BY JsonAssumption, RequestAssumption
<1>3. NameAnswer(u) \in Answers /\ Composite("{", <<>>) \in Answers
  BY DEF Answers
<1>4. size \in Nat /\ \A v \in Answers : Len(json_write(v)) \in Nat
  BY <1>3, LibraryAssumption, Zenon
<1>5. NameCost(u) = 2 * NodeBytes + MemberBytes + Length[u] + 1 + Length[username] + 1 + size + 1
  BY DEF NameCost
<1>6. ~ Writable(None) /\ ~ Writable(NoName)
  BY DEF Writable, NoName, Composite
<1>7. Writable(NameAnswer(u)) /\ NameAnswer(u).members # <<>>
  <2>1. NameAnswer(u) # None /\ NameValue(u) # None
    BY <1>3, LibraryAssumption
  <2>2. /\ DOMAIN NameAnswer(u).members = {1} /\ NameAnswer(u).members[1][2] = NameValue(u)
        /\ NameAnswer(u).members # <<>>
    BY DEF NameAnswer, Composite
  <2> QED
    BY <2>1, <2>2, Zenon DEF Writable
<1> HIDE DEF doc, size, u
<1>8. NameCost(u) \in Nat
  BY <1>2, <1>4, <1>5
<1>9. Writable(doc.v) => doc.v \in Answers /\ Len(json_write(doc.v)) \in Nat
  BY <1>1, <1>3, <1>4, <1>6, Zenon
<1>10. ASSUME NameCost(u) <= ArenaSize - off
       PROVE  Writable(doc.v) /\ ~ Overruns(doc.off, doc.v) /\ doc.v.members # <<>>
  <2>1. need <= ArenaSize /\ need + size + 1 <= ArenaSize /\ need \in Nat
    <3>1. /\ off \in Nat /\ size \in Nat /\ need \in Nat
          /\ off + NameCost(u) = need + size + 1
      BY <1>2, <1>4, <1>5, SMTT(30)
    <3>2. NameCost(u) <= ArenaSize - off /\ NameCost(u) \in Nat /\ ArenaSize \in Nat
      BY <1>2, <1>8, <1>10
    <3> HIDE DEF need
    <3> QED
      BY <3>1, <3>2
  <2>2. doc.v = NameAnswer(u) /\ doc.off = need
    BY <1>1, <2>1, Zenon
  <2> HIDE DEF need
  <2>3. ~ (need + size + 1 > ArenaSize)
    BY <1>2, <1>4, <2>1
  <2> QED
    BY <1>7, <2>2, <2>3, Zenon DEF Overruns, size
<1> QED
  BY <1>8, <1>9, <1>10, Zenon DEF doc, u

-----------------------------------------------------------------------------
(* What a request under way asks is readable.                               *)
LEMMA ContentIs ==
  ASSUME conn \in Requests, req.text \in ContentAt
  PROVE  req.text \in Texts /\ (~ conn.late => req.text = conn.text) /\ conn.text \in Texts
BY DEF Requests, ContentAt

LEMMA FaultIs ==
  /\ Fault.path = conn.path /\ Fault.text = conn.text /\ Fault.late = conn.late
  /\ Fault.overlong = conn.overlong /\ Fault.arena = arena
BY DEF Fault

(* What a late body or an overlong word does needs no other explanation. *)
LEMMA OutsideFault ==
  ASSUME conn.late \/ conn.overlong
  PROVE  ExplainedBy(Fault)
BY FaultIs, Zenon DEF ExplainedBy

(* A login that dies. *)
LEMMA LoginFault ==
  ASSUME TypeOK, conn \in Requests, req.text \in ContentAt, conn.path \in LoginPaths,
         ~ (/\ Is(FindByPath(json_parse(req.text, 0).v, username), "string")
            /\ PasswordFits(json_parse(req.text, 0).v))
  PROVE  ExplainedBy(Fault)
<1> SUFFICES ASSUME ~ conn.late, NEW v \in Denoted(conn.text)
             PROVE  Reason(Fault, v)
  BY FaultIs, Zenon DEF ExplainedBy
<1>1. req.text = conn.text /\ conn.text \in Texts
  BY ContentIs
<1>2. ArenaSize \in Nat /\ 0 \in 0 .. ArenaSize /\ ArenaSize - 0 = ArenaSize
  BY JsonAssumption
<1>3. Footprint(v) \in Nat /\ (Footprint(v) <= ArenaSize - 0 => v = json_parse(req.text, 0).v)
  BY <1>1, <1>2, ReadsText, Zenon
<1>4. CASE Footprint(v) > ArenaSize
  BY <1>4, FaultIs, Zenon DEF Reason
<1>5. CASE v = json_parse(req.text, 0).v
  BY <1>5, FaultIs, Zenon DEF Reason, HasString
<1> QED
  BY <1>2, <1>3, <1>4, <1>5

(* A question for the name that is not answered. *)
LEMMA UserFault ==
  ASSUME TypeOK, conn \in Requests, req.text \in ContentAt, conn.path = "/api/v1/user",
         req.user \in Users,
         LET doc == NameDocument(Parsed.off) IN
           \/ ~ Is(Wanted, "string") \/ ~ Writable(doc.v) \/ Overruns(doc.off, doc.v)
           \/ doc.v.members = <<>>
  PROVE  ExplainedBy(Fault)
<1> SUFFICES ASSUME ~ conn.late, NEW v \in Denoted(conn.text), HasString(v, get),
                    ~ (ArenaSize - arena - Footprint(v) < NameCost(req.user))
             PROVE  FALSE
  BY FaultIs, Zenon DEF ExplainedBy, Reason
<1>1. req.text = conn.text /\ conn.text \in Texts
  BY ContentIs
<1>2. ArenaSize \in Nat /\ arena \in 0 .. ArenaSize
  BY JsonAssumption DEF TypeOK
<1>3. /\ Parsed.off \in 0 .. ArenaSize
      /\ Footprint(v) \in Nat
      /\ Footprint(v) <= ArenaSize - arena => v = Parsed.v /\ Parsed.off = arena + Footprint(v)
  BY <1>1, <1>2, ReadsText, Zenon DEF Parsed
<1>4. NameCost(req.user) \in Nat
  BY <1>3, AnswerIs
<1>5. Footprint(v) <= ArenaSize - arena
  BY <1>2, <1>3, <1>4
<1>6. v = Parsed.v /\ Parsed.off = arena + Footprint(v)
  BY <1>3, <1>5
<1>7. Is(Wanted, "string")
  BY <1>6, Zenon DEF Wanted, HasString
<1>8. NameCost(req.user) <= ArenaSize - Parsed.off
  BY <1>2, <1>3, <1>4, <1>6
<1> QED
  BY <1>3, <1>7, <1>8, AnswerIs, Zenon

-----------------------------------------------------------------------------
(* The invariant. *)

LEMMA FromNothing ==
  /\ \A code : <<>> \o <<Piece("status", code), EndOfHeader>>
                 = <<Piece("status", code), EndOfHeader>>
  /\ <<>> \o http_send_302 = http_send_302
  /\ \A mime, size : <<>> \o http_send(mime, size, TRUE) = http_send(mime, size, TRUE)
  /\ \A hex : <<>> \o http_send_wcookie(hex, "application/json", 1)
                = http_send_wcookie(hex, "application/json", 1)
  /\ <<>> \o http_send_wcookie(<<>>, None, 0) = http_send_wcookie(<<>>, None, 0)
<1>1. \A code : <<>> \o <<Piece("status", code), EndOfHeader>>
                  = <<Piece("status", code), EndOfHeader>>
  OBVIOUS
<1>2. <<>> \o http_send_302 = http_send_302
  BY DEF http_send_302
<1>3. \A mime, size : <<>> \o http_send(mime, size, TRUE) = http_send(mime, size, TRUE)
  BY DEF http_send
<1>4. \A hex : <<>> \o http_send_wcookie(hex, "application/json", 1)
                 = http_send_wcookie(hex, "application/json", 1)
  BY DEF http_send_wcookie
<1>5. <<>> \o http_send_wcookie(<<>>, None, 0) = http_send_wcookie(<<>>, None, 0)
  BY DEF http_send_wcookie
<1> QED
  BY <1>1, <1>2, <1>3, <1>4, <1>5, Zenon

(* The responses that are a status line only. *)
LEMMA CodeResponses ==
  /\ Complete(http_send_401, TRUE) /\ KnownCookies(http_send_401)
  /\ <<>> \o http_send_401 = http_send_401
  /\ Complete(http_send_404, TRUE) /\ KnownCookies(http_send_404)
  /\ <<>> \o http_send_404 = http_send_404
  /\ Complete(http_send_500, TRUE) /\ KnownCookies(http_send_500)
  /\ <<>> \o http_send_500 = http_send_500
<1>1. 401 \in Nat /\ 404 \in Nat /\ 500 \in Nat
  OBVIOUS
<1>2. \A code \in Nat : LET pieces == <<Piece("status", code), EndOfHeader>> IN
        Complete(pieces, TRUE) /\ KnownCookies(pieces) /\ <<>> \o pieces = pieces
  BY ShortResponses, FromNothing, Zenon
<1>3. /\ Complete(http_send_401, TRUE) /\ KnownCookies(http_send_401)
      /\ <<>> \o http_send_401 = http_send_401
  BY <1>1, <1>2, Zenon DEF http_send_401
<1>4. /\ Complete(http_send_404, TRUE) /\ KnownCookies(http_send_404)
      /\ <<>> \o http_send_404 = http_send_404
  BY <1>1, <1>2, Zenon DEF http_send_404
<1>5. /\ Complete(http_send_500, TRUE) /\ KnownCookies(http_send_500)
      /\ <<>> \o http_send_500 = http_send_500
  BY <1>1, <1>2, Zenon DEF http_send_500
<1> QED
  BY <1>3, <1>4, <1>5

LEMMA InitInv == Init => RequestInv
<1> SUFFICES ASSUME Init PROVE RequestInv
  OBVIOUS
<1>1. TypeOK
  BY RequestAssumption, JsonAssumption DEF Init, TypeOK, NoRequest
<1>2. Asked
  BY DEF Init, Asked
<1>3. CookiesKnown
  BY DEF Init, CookiesKnown, KnownCookies
<1>4. Replying
  BY DEF Init, Replying
<1>5. OneResponse
  BY DEF Init, OneResponse
<1>6. CookieReturns
  BY DEF Init, CookieReturns
<1>7. FaultExplained
  BY DEF Init, FaultExplained
<1> QED
  BY <1>1, <1>2, <1>3, <1>4, <1>5, <1>6, <1>7 DEF RequestInv

Lives == {"fork", "options", "boot", "up", "signal", "exit 0", "exit 1", "ended"}

(* Steps of the process that leave the worker alone. *)
LEMMA UntouchedKeeps ==
  ASSUME RequestInv, Untouched, life' \in Lives, dir' \in 0 .. RootDirSize - 1
  PROVE  RequestInv'
<1> USE DEF RequestInv, Untouched
<1>1. TypeOK'
  BY DEF TypeOK, Lives
<1>2. Asked'
  BY Zenon DEF Asked, ContentAt
<1>3. CookiesKnown'
  BY Zenon DEF CookiesKnown
<1>4. Replying'
  BY Zenon DEF Replying, FilePieces, FileHeader
<1>5. OneResponse'
  BY OneResponseIs, Zenon
<1>6. CookieReturns'
  BY Zenon DEF CookieReturns
<1>7. FaultExplained'
  BY FaultExplainedIs, Zenon
<1> QED
  BY <1>1, <1>2, <1>3, <1>4, <1>5, <1>6, <1>7

(* A crash that has an explanation. *)
LEMMA DieKeeps ==
  ASSUME RequestInv, Die, ExplainedBy(Fault)
  PROVE  RequestInv'
<1> USE DEF RequestInv, Die
<1>1. TypeOK'
  BY DEF TypeOK
<1>2. Asked'
  BY Zenon DEF Asked, ContentAt
<1>3. CookiesKnown'
  BY Zenon DEF CookiesKnown
<1>4. Replying'
  BY Zenon DEF Replying, FilePieces, FileHeader
<1>5. OneResponse'
  BY OneResponseIs, Zenon
<1>6. CookieReturns'
  BY Zenon DEF CookieReturns
<1>7. FaultExplained'
  BY FaultExplainedIs, Zenon
<1> QED
  BY <1>1, <1>2, <1>3, <1>4, <1>5, <1>6, <1>7

(* A whole response, sent where nothing has been sent yet. *)
LEMMA AnswerKeeps ==
  ASSUME RequestInv, pc \in {"route", "login", "api"},
         NEW pieces, Complete(pieces, TRUE), KnownCookies(pieces), <<>> \o pieces = pieces,
         NEW why, ExplainedBy(why), AnswerWith(pieces, why),
         arena' \in 0 .. ArenaSize, sessions' \subseteq Users, UNCHANGED left
  PROVE  RequestInv'
<1> USE DEF RequestInv
<1>1. sent = <<>> /\ left = 0 /\ closed = 0
  BY DEF Replying
<1>2. /\ sent' = pieces /\ closed' = 1 /\ pc' = "done" /\ fault' = why /\ left' = 0
      /\ UNCHANGED <<life, dir, jar, conn, req, steady>>
  BY <1>1 DEF AnswerWith, process
<1>3. TypeOK'
  <2>1. TypeOK
    OBVIOUS
  <2> HIDE DEF RequestInv
  <2>2. /\ 1 \in 0 .. 1 /\ 0 \in 0 .. FileSize
        /\ pc' \in {"idle", "read", "route", "file", "login", "api", "done"}
    BY <1>2, RequestAssumption
  <2>3. conn' \in Requests \cup {None} /\ (conn' = None <=> pc' = "idle")
    BY <1>2, <2>1 DEF TypeOK
  <2> QED
    BY <1>2, <2>1, <2>2, <2>3, Zenon DEF TypeOK
<1>4. Asked'
  BY <1>2 DEF Asked
<1>5. CookiesKnown'
  BY <1>2, Zenon DEF CookiesKnown
<1>6. Replying'
  BY <1>2 DEF Replying
<1>7. OneResponse'
  <2>1. Complete(pieces, steady')
    BY Zenon DEF Complete
  <2> QED
    BY <1>2, <2>1, OneResponseIs, Zenon
<1>8. CookieReturns'
  BY <1>2 DEF CookieReturns
<1>9. FaultExplained'
  BY <1>2, FaultExplainedIs, Zenon
<1> QED
  BY <1>3, <1>4, <1>5, <1>6, <1>7, <1>8, <1>9

(* Steps up to the decision, with nothing sent. *)
LEMMA SilentKeeps ==
  ASSUME RequestInv, sent = <<>>, closed = 0, left = 0,
         pc' \in {"idle", "read", "route", "login", "api"},
         UNCHANGED <<life, dir, sessions, arena, left, steady, sent, closed, fault>>,
         TypeOK', Asked', CookieReturns'
  PROVE  RequestInv'
<1>1. CookiesKnown'
  BY Zenon DEF RequestInv, CookiesKnown
<1>2. Replying'
  BY DEF Replying
<1>3. OneResponse'
  BY DEF OneResponse
<1>4. FaultExplained'
  BY FaultExplainedIs, Zenon DEF RequestInv
<1> QED
  BY <1>1, <1>2, <1>3, <1>4 DEF RequestInv

LEMMA AskKeeps ==
  ASSUME RequestInv, NEW method \in Methods, NEW path \in Paths, NEW header \in CookieLines(jar),
         NEW late \in BOOLEAN, NEW overlong \in BOOLEAN, NEW text \in Bodies[path] \cup {<<>>},
         Ask(method, path, header, text, late, overlong)
  PROVE  RequestInv'
<1> USE DEF RequestInv
<1>1. /\ pc = "idle" /\ pc' = "read"
      /\ conn' = [method |-> method, path |-> path, header |-> header, text |-> text,
                  late |-> late, overlong |-> overlong]
      /\ UNCHANGED <<life, dir, sessions, arena, jar, req, left, steady, sent, closed, fault>>
  BY DEF Ask, process
<1>2. sent = <<>> /\ closed = 0 /\ left = 0
  BY <1>1 DEF Replying
<1>3. header \in Seq(HeaderLexemes)
  BY HeaderForm DEF TypeOK
<1>4. text \in Texts
  <2>1. Bodies[path] \subseteq UNION {Bodies[p] : p \in Paths}
    OBVIOUS
  <2> QED
    BY <2>1 DEF Texts
<1>5. conn' \in Requests /\ conn' # None
  <2>1. conn' \in Requests
    BY <1>1, <1>3, <1>4 DEF Requests
  <2> QED
    BY <2>1, NoneIsNoRequest
<1>6. TypeOK'
  BY <1>1, <1>5 DEF TypeOK
<1>7. Asked'
  BY <1>1 DEF Asked
<1>8. CookieReturns'
  BY <1>1 DEF CookieReturns
<1> QED
  BY <1>1, <1>2, <1>6, <1>7, <1>8, SilentKeeps

(* Crashes of words and bodies that are not where they should be. *)
LEMMA OutsideKeeps ==
  ASSUME RequestInv, Overflow \/ ContentNotReadable
  PROVE  RequestInv'
<1>1. Die /\ (conn.late \/ conn.overlong)
  BY DEF Overflow, ContentNotReadable
<1> QED
  BY <1>1, OutsideFault, DieKeeps

(* Whom the server takes the request for. *)
LEMMA ParseRequestKeeps ==
  ASSUME RequestInv, ParseRequest
  PROVE  RequestInv'
<1> USE DEF RequestInv
<1> DEFINE hex == ExtractSession(conn.header)
           token == HexDecode(hex)
           user == IF hex # <<>> THEN UserOf(token) ELSE None
<1>1. /\ pc = "read" /\ pc' = "route"
      /\ \E text \in ContentAt :
           req' = [token |-> token, has_cookie |-> hex # <<>>, user |-> user, text |-> text]
      /\ conn' = [conn EXCEPT !.overlong = FALSE]
      /\ UNCHANGED <<life, dir, sessions, arena, jar, left, steady, sent, closed, fault>>
  BY DEF ParseRequest, process
<1>2. sent = <<>> /\ closed = 0 /\ left = 0
  BY <1>1 DEF Replying
<1>3. conn \in Requests /\ conn # None /\ conn.header \in CookieLines(jar)
  BY <1>1 DEF TypeOK, Asked
<1>4. jar \in Seq(0 .. 15) /\ sessions \subseteq Users /\ None \notin Users
  BY RequestAssumption DEF TypeOK
<1>5. /\ user \in sessions \cup {None}
      /\ \A u \in sessions :
           user = u <=> jar = HexEncode(Token[u]) /\ Find(conn.header, "sessionID=", 1) # 0
  <2>1. CASE hex = <<>> /\ Find(conn.header, "sessionID=", 1) = 0
    BY <1>4, <2>1
  <2>2. CASE jar # <<>> /\ hex = jar /\ Find(conn.header, "sessionID=", 1) # 0
    <3>1. PICK w \in Users : jar = HexEncode(Token[w])
      BY <2>2 DEF CookieReturns
    <3>2. token = Token[w]
      BY <2>2, <3>1, Decoded
    <3>3. user = UserOf(Token[w])
      BY <2>2, <3>2
    <3>4. {u \in sessions : Token[u] = Token[w]} = sessions \cap {w}
      BY <1>4, RequestAssumption
    <3>5. UserOf(Token[w]) = IF w \in sessions THEN w ELSE None
      BY <3>4 DEF UserOf
    <3> HIDE DEF user, hex
    <3>6. \A u \in sessions : jar = HexEncode(Token[u]) <=> u = w
      BY <1>4, <3>1, CookieIsOwn
    <3> QED
      BY <1>4, <2>2, <3>3, <3>5, <3>6
  <2> QED
    BY <1>3, <1>4, <2>1, <2>2, SessionRead
<1> HIDE DEF user
<1>6. req'.user = user /\ req'.text \in ContentAt /\ req'.has_cookie \in BOOLEAN
  BY <1>1
<1>10. /\ conn' \in Requests /\ conn'.header = conn.header /\ conn'.late = conn.late
       /\ conn'.text = conn.text
  BY <1>1, <1>3 DEF Requests
<1>11. conn' # None
  BY <1>10, NoneIsNoRequest
<1>7. TypeOK'
  BY <1>1, <1>4, <1>5, <1>6, <1>10, <1>11 DEF TypeOK
<1>8. Asked'
  BY <1>1, <1>3, <1>6, <1>10 DEF Asked, ContentAt
<1>9. CookieReturns'
  BY <1>1, <1>5, <1>6, <1>10 DEF CookieReturns
<1> QED
  BY <1>1, <1>2, <1>7, <1>8, <1>9, SilentKeeps

LEMMA RouteApiKeeps ==
  ASSUME RequestInv, RouteApi
  PROVE  RequestInv'
<1> USE DEF RequestInv
<1>1. /\ pc = "route" /\ pc' \in {"login", "api"} /\ (pc' = "login" => conn.path \in LoginPaths)
      /\ UNCHANGED <<life, dir, sessions, arena, jar, conn, req, left, steady, sent, closed, fault>>
  BY DEF RouteApi, process
<1>2. sent = <<>> /\ closed = 0 /\ left = 0
  BY <1>1 DEF Replying
<1>3. TypeOK'
  BY <1>1 DEF TypeOK
<1>4. Asked'
  BY <1>1 DEF Asked, ContentAt
<1>5. CookieReturns'
  BY <1>1 DEF CookieReturns
<1> QED
  BY <1>1, <1>2, <1>3, <1>4, <1>5, SilentKeeps

(* The answers that need no more than the request. *)
LEMMA AnswersKeep ==
  ASSUME RequestInv, RedirectPage \/ NoExtension \/ Favicon \/ NoFile \/ FileNotStat \/ RedirectApi
  PROVE  RequestInv'
<1>1. PICK pieces : /\ Complete(pieces, TRUE) /\ KnownCookies(pieces) /\ <<>> \o pieces = pieces
                    /\ Answer(pieces)
  <2>1. CASE RedirectPage \/ RedirectApi
    BY <2>1, ShortResponses, FromNothing, Zenon DEF RedirectPage, RedirectApi
  <2>2. CASE NoExtension
    BY <2>2, CodeResponses, Zenon DEF NoExtension
  <2>3. CASE Favicon
    BY <2>3, FullResponse, FromNothing DEF Favicon
  <2>4. CASE NoFile
    BY <2>4, CodeResponses, Zenon DEF NoFile
  <2>5. CASE FileNotStat
    BY <2>5, CodeResponses, Zenon DEF FileNotStat
  <2> QED
    BY <2>1, <2>2, <2>3, <2>4, <2>5
<1>2. /\ pc \in {"route", "api"} /\ UNCHANGED <<sessions, arena, left>>
      /\ AnswerWith(pieces, fault)
  BY <1>1 DEF RedirectPage, NoExtension, Favicon, NoFile, FileNotStat, RedirectApi, Answer
<1>3. arena' \in 0 .. ArenaSize /\ sessions' \subseteq Users /\ ExplainedBy(fault)
  BY <1>2, FaultExplainedIs DEF RequestInv, TypeOK
<1> QED
  BY <1>1, <1>2, <1>3, AnswerKeeps

(* The header of a file, the pieces of it, and the end. *)
LEMMA OpenFileKeeps ==
  ASSUME RequestInv, OpenFile
  PROVE  RequestInv'
<1> USE DEF RequestInv
<1> DEFINE header == FileHeader
<1>1. /\ pc = "route" /\ pc' = "file" /\ sent' = header /\ left' = FileSize
      /\ UNCHANGED <<life, dir, sessions, arena, jar, conn, req, steady, closed, fault>>
  BY DEF OpenFile, process, FileHeader
<1>2. FileSize \in Nat /\ FileSize \in 0 .. FileSize /\ 4 + FileSize - FileSize = 4
      /\ 0 \in Nat /\ 4 + 0 = 4 /\ 4 >= 4
  BY RequestAssumption
<1>3. Len(header) = 4 /\ DOMAIN header = 1 .. 4
  BY FileHeaderIs, Zenon DEF FileHeader
<1>4. header \in Seq(FilePieces)
  <2>1. \A i \in 1 .. 4 : header[i] \in FilePieces
    BY DEF FilePieces
  <2>2. header = <<header[1], header[2], header[3], header[4]>>
    <3>1. header = <<Piece("status", 200), Piece("type", get_mime_type(Ext[conn.path])),
                     Piece("length", FileSize), EndOfHeader>> \o <<>>
      BY Zenon DEF FileHeader, http_send
    <3> HIDE DEF header
    <3> QED
      BY <3>1
  <2> HIDE DEF header
  <2>3. header[1] \in FilePieces /\ header[2] \in FilePieces /\ header[3] \in FilePieces
        /\ header[4] \in FilePieces
    BY <2>1
  <2>4. ASSUME NEW a \in FilePieces, NEW b \in FilePieces, NEW c \in FilePieces, NEW d \in FilePieces
        PROVE  <<a, b, c, d>> \in Seq(FilePieces)
    OBVIOUS
  <2>5. <<header[1], header[2], header[3], header[4]>> \in Seq(FilePieces)
    BY <2>3, <2>4, Zenon
  <2> QED
    BY <2>2, <2>5, Zenon
<1>5. FileHeader' = FileHeader /\ FilePieces' = FilePieces
  BY <1>1 DEF FileHeader, FilePieces
<1>6. KnownCookies(header)
  <2>1. \A i \in DOMAIN header : i <= 4
    BY <1>3
  <2>2. \A i \in DOMAIN header : header[i] = IF i <= 4 THEN header[i] ELSE Piece("body", 1)
    BY <2>1
  <2>3. FilePart(header, header, 0)
    BY <1>2, <1>3, <2>2 DEF FilePart
  <2>4. FALSE \in BOOLEAN /\ (FALSE => 0 = FileSize)
    OBVIOUS
  <2> QED
    BY <1>2, <2>3, <2>4, FileResponse, Zenon DEF FileHeader
<1> HIDE DEF header
<1>7. TypeOK'
  BY <1>1, <1>2 DEF TypeOK
<1>8. Asked'
  BY <1>1 DEF Asked
<1>9. CookiesKnown'
  BY <1>1, <1>6, Zenon DEF CookiesKnown
<1>10. Replying'
  <2>1. closed' = 0
    BY <1>1 DEF Replying
  <2>2. \A i \in 1 .. Len(sent') : i <= 4
    BY <1>1, <1>3
  <2>3. \A i \in 1 .. Len(sent') : sent'[i] = IF i <= 4 THEN FileHeader'[i] ELSE Piece("body", 1)
    BY <1>1, <1>5, <2>2 DEF header
  <2>4. sent' \in Seq(FilePieces') /\ Len(sent') >= 4 /\ Len(sent') = 4 + FileSize - left'
    BY <1>1, <1>2, <1>3, <1>4, <1>5
  <2> QED
    BY <1>1, <2>1, <2>3, <2>4 DEF Replying
<1>11. OneResponse'
  BY <1>1 DEF OneResponse
<1>12. CookieReturns'
  BY <1>1 DEF CookieReturns
<1>13. FaultExplained'
  BY <1>1, FaultExplainedIs, Zenon
<1> QED
  BY <1>7, <1>8, <1>9, <1>10, <1>11, <1>12, <1>13

LEMMA SendChunkKeeps ==
  ASSUME RequestInv, SendChunk
  PROVE  RequestInv'
<1> USE DEF RequestInv
<1>1. /\ pc = "file" /\ pc' = "file" /\ left > 0 /\ left' = left - 1
      /\ sent' = Append(sent, Piece("body", 1))
      /\ UNCHANGED <<life, dir, sessions, arena, jar, conn, req, steady, closed, fault>>
  BY DEF SendChunk, process
<1>2. FileSize \in Nat /\ left \in 0 .. FileSize
  BY RequestAssumption DEF TypeOK
<1>3. /\ closed = 0 /\ sent \in Seq(FilePieces) /\ Len(sent) >= 4
      /\ steady => Len(sent) = 4 + FileSize - left
      /\ \A i \in 1 .. Len(sent) : sent[i] = IF i <= 4 THEN FileHeader[i] ELSE Piece("body", 1)
  BY <1>1 DEF Replying
<1>4. FileHeader' = FileHeader /\ FilePieces' = FilePieces
  BY <1>1 DEF FileHeader, FilePieces
<1>5. Piece("body", 1) \in FilePieces
  BY DEF FilePieces
<1>6. /\ sent' \in Seq(FilePieces) /\ Len(sent') = Len(sent) + 1
      /\ \A i \in 1 .. Len(sent) : sent'[i] = sent[i]
      /\ sent'[Len(sent) + 1] = Piece("body", 1)
  BY <1>1, <1>3, <1>5, AppendProperties
<1>7. left' \in 0 .. FileSize /\ Len(sent) \in Nat /\ Len(sent) >= 4 /\ Len(sent) + 1 >= 4
      /\ (steady => Len(sent) + 1 = 4 + FileSize - left')
  BY <1>1, <1>2, <1>3
<1>8. \A i \in 1 .. Len(sent') : sent'[i] = IF i <= 4 THEN FileHeader[i] ELSE Piece("body", 1)
  <2> SUFFICES ASSUME NEW i \in 1 .. Len(sent) + 1
               PROVE  sent'[i] = IF i <= 4 THEN FileHeader[i] ELSE Piece("body", 1)
    BY <1>6
  <2>1. CASE i \in 1 .. Len(sent)
    <3>1. sent'[i] = sent[i]
      BY <1>6, <2>1, Zenon
    <3>2. sent[i] = IF i <= 4 THEN FileHeader[i] ELSE Piece("body", 1)
      BY <1>3, <2>1, Zenon
    <3> QED
      BY <3>1, <3>2
  <2>2. CASE i = Len(sent) + 1
    <3>1. ~ (i <= 4)
      BY <1>7, <2>2
    <3>2. sent'[i] = Piece("body", 1)
      BY <1>6, <2>2, Zenon
    <3> QED
      BY <3>1, <3>2
  <2> QED
    BY <1>7, <2>1, <2>2
<1>9. Len(sent') - 4 \in Nat /\ Len(sent') = 4 + (Len(sent') - 4) /\ DOMAIN sent' = 1 .. Len(sent')
  BY <1>6, <1>7
<1>10. KnownCookies(sent')
  <2>1. \A i \in DOMAIN sent' : sent'[i] = IF i <= 4 THEN FileHeader[i] ELSE Piece("body", 1)
    BY <1>8, <1>9, Zenon
  <2>2. FilePart(sent', FileHeader, Len(sent') - 4)
    BY <1>9, <2>1, Zenon DEF FilePart
  <2>3. FALSE \in BOOLEAN /\ (FALSE => Len(sent') - 4 = FileSize)
    OBVIOUS
  <2> QED
    BY <1>9, <2>2, <2>3, FileResponse, Zenon DEF FileHeader
<1>11. TypeOK'
  BY <1>1, <1>7 DEF TypeOK
<1>12. Asked'
  BY <1>1 DEF Asked
<1>13. CookiesKnown'
  BY <1>10, Zenon DEF CookiesKnown
<1>14. Replying'
  <2>1. closed' = 0 /\ Len(sent') >= 4 /\ (steady' => Len(sent') = 4 + FileSize - left')
    BY <1>1, <1>3, <1>6, <1>7
  <2> QED
    BY <1>1, <1>4, <1>6, <1>8, <2>1 DEF Replying
<1>15. OneResponse'
  BY <1>1 DEF OneResponse
<1>16. CookieReturns'
  BY <1>1 DEF CookieReturns
<1>17. FaultExplained'
  BY <1>1, FaultExplainedIs, Zenon
<1> QED
  BY <1>11, <1>12, <1>13, <1>14, <1>15, <1>16, <1>17

LEMMA EndOfFileKeeps ==
  ASSUME RequestInv, EndOfFile
  PROVE  RequestInv'
<1> USE DEF RequestInv
<1>1. /\ pc = "file" /\ left = 0 /\ pc' = "done" /\ sent' = sent \o <<>> /\ closed' = closed + 1
      /\ UNCHANGED <<life, dir, sessions, arena, jar, conn, req, left, steady, fault>>
  BY DEF EndOfFile, Answer, AnswerWith, process
<1>2. FileSize \in Nat /\ left \in 0 .. FileSize
  BY RequestAssumption DEF TypeOK
<1>3. /\ closed = 0 /\ sent \in Seq(FilePieces) /\ Len(sent) >= 4
      /\ steady => Len(sent) = 4 + FileSize - left
      /\ \A i \in 1 .. Len(sent) : sent[i] = IF i <= 4 THEN FileHeader[i] ELSE Piece("body", 1)
  BY <1>1 DEF Replying
<1>4. sent' = sent
  BY <1>1, <1>3
<1>5. Complete(sent, steady) /\ KnownCookies(sent)
  <2>1. DOMAIN sent = 1 .. Len(sent) /\ Len(sent) - 4 \in Nat /\ Len(sent) = 4 + (Len(sent) - 4)
        /\ (steady => Len(sent) - 4 = FileSize)
    BY <1>1, <1>2, <1>3
  <2>2. \A i \in DOMAIN sent : sent[i] = IF i <= 4 THEN FileHeader[i] ELSE Piece("body", 1)
    BY <1>3, <2>1, Zenon
  <2>3. FilePart(sent, FileHeader, Len(sent) - 4)
    BY <2>1, <2>2, Zenon DEF FilePart
  <2>4. steady \in BOOLEAN
    BY DEF TypeOK
  <2> QED
    BY <2>1, <2>3, <2>4, FileResponse, Zenon DEF FileHeader
<1>6. TypeOK'
  <2>1. closed' \in 0 .. 1
    BY <1>1, <1>3
  <2> QED
    BY <1>1, <2>1 DEF TypeOK
<1>7. Asked'
  BY <1>1 DEF Asked
<1>8. CookiesKnown'
  BY <1>4, <1>5, Zenon DEF CookiesKnown
<1>9. Replying'
  BY <1>1 DEF Replying
<1>10. OneResponse'
  <2>1. closed' = 1
    BY <1>1, <1>3
  <2> QED
    BY <1>1, <1>4, <1>5, <2>1, OneResponseIs, Zenon
<1>11. CookieReturns'
  BY <1>1 DEF CookieReturns
<1>12. FaultExplained'
  BY <1>1, FaultExplainedIs, Zenon
<1> QED
  BY <1>6, <1>7, <1>8, <1>9, <1>10, <1>11, <1>12

(* The file changes, or what is left of it cannot be read. *)
LEMMA FileChangeKeeps ==
  ASSUME RequestInv, WriteFile \/ FileNotRead
  PROVE  RequestInv'
<1> USE DEF RequestInv
<1>1. /\ pc = "file" /\ ~ steady' /\ steady' \in BOOLEAN /\ left' \in 0 .. FileSize
      /\ UNCHANGED <<life, dir, sessions, arena, jar, pc, conn, req, sent, closed, fault>>
  <2>1. 0 \in 0 .. FileSize
    BY RequestAssumption
  <2> QED
    BY <2>1 DEF WriteFile, FileNotRead, process
<1>2. TypeOK'
  BY <1>1 DEF TypeOK
<1>3. Asked'
  BY <1>1 DEF Asked
<1>4. CookiesKnown'
  BY <1>1, Zenon DEF CookiesKnown
<1>5. Replying'
  BY <1>1, Zenon DEF Replying, FilePieces, FileHeader
<1>6. OneResponse'
  BY <1>1 DEF OneResponse
<1>7. CookieReturns'
  BY <1>1 DEF CookieReturns
<1>8. FaultExplained'
  BY <1>1, FaultExplainedIs, Zenon
<1> QED
  BY <1>2, <1>3, <1>4, <1>5, <1>6, <1>7, <1>8

LEMMA LoginKeeps ==
  ASSUME RequestInv, Login
  PROVE  RequestInv'
<1> DEFINE result == json_parse(req.text, 0)
           name == FindByPath(result.v, username)
           secret == FindByPath(result.v, password)
           known == Is(name, "string") /\ name.s \in Users
<1>1. /\ pc = "login"
      /\ \/ ~Is(name, "string") /\ Die
         \/ /\ name # None /\ ~known /\ Answer(http_send_401)
            /\ arena' = result.off /\ UNCHANGED <<sessions, left>>
         \/ known /\ ~Is(secret, "string") /\ Die
         \/ known /\ Is(secret, "string") /\ Length[secret.s] > HashSize /\ Die
         \/ /\ known /\ secret # None
            /\ sessions' = sessions \cup {name.s}
            /\ Answer(http_send_wcookie(CookieOf(Token[name.s]), "application/json", 1))
            /\ arena' = result.off /\ UNCHANGED left
  BY DEF Login, LoginIn
<1>2. TypeOK /\ ExplainedBy(fault)
  BY FaultExplainedIs DEF RequestInv
<1>3. conn \in Requests /\ req.text \in ContentAt /\ conn.path \in LoginPaths
  BY <1>1, <1>2 DEF RequestInv, TypeOK, Asked
<1>4. result.off \in 0 .. ArenaSize
  <2>1. 0 \in 0 .. ArenaSize
    BY JsonAssumption
  <2> QED
    BY <1>3, <2>1, ContentIs, ReadsText
<1>5. sessions \subseteq Users
  BY <1>2 DEF TypeOK
<1> HIDE DEF known
<1>6. CASE Die /\ (~Is(name, "string") \/ ~PasswordFits(result.v))
  <2>1. ExplainedBy(Fault)
    BY <1>2, <1>3, <1>6, LoginFault, Zenon
  <2> QED
    BY <1>6, <2>1, DieKeeps, Zenon
<1>7. CASE Answer(http_send_401) /\ arena' = result.off /\ UNCHANGED <<sessions, left>>
  <2>1. /\ Complete(http_send_401, TRUE) /\ KnownCookies(http_send_401)
        /\ <<>> \o http_send_401 = http_send_401
    BY CodeResponses, Zenon
  <2> QED
    BY <1>1, <1>2, <1>4, <1>5, <1>7, <2>1, AnswerKeeps DEF Answer
<1>8. CASE /\ known /\ sessions' = sessions \cup {name.s}
           /\ Answer(http_send_wcookie(CookieOf(Token[name.s]), "application/json", 1))
           /\ arena' = result.off /\ UNCHANGED left
  <2> DEFINE pieces == http_send_wcookie(CookieOf(Token[name.s]), "application/json", 1)
  <2>1. name.s \in Users
    BY <1>8 DEF known
  <2>2. IsToken(CookieOf(Token[name.s]))
    BY <2>1, Encoded DEF IsToken
  <2>3. Complete(pieces, TRUE) /\ KnownCookies(pieces) /\ <<>> \o pieces = pieces
    BY <2>2, LoginResponse, FromNothing
  <2>4. sessions' \subseteq Users /\ arena' \in 0 .. ArenaSize
    BY <1>4, <1>5, <1>8, <2>1
  <2>5. AnswerWith(pieces, fault) /\ UNCHANGED left
    BY <1>8 DEF Answer
  <2> HIDE DEF pieces
  <2> QED
    BY <1>1, <1>2, <2>3, <2>4, <2>5, AnswerKeeps
<1>9. /\ ~Is(secret, "string") => ~PasswordFits(result.v)
      /\ Is(secret, "string") /\ Length[secret.s] > HashSize => ~PasswordFits(result.v)
  BY Zenon DEF PasswordFits, HasString
<1> QED
  BY <1>1, <1>6, <1>7, <1>8, <1>9

LEMMA ApiFacts ==
  ASSUME RequestInv, Api
  PROVE  /\ TypeOK /\ ExplainedBy(fault) /\ pc = "api" /\ req.user \in Users /\ sessions \subseteq Users
         /\ conn \in Requests /\ req.text \in ContentAt
         /\ Parsed.off \in 0 .. ArenaSize
<1>1. pc = "api" /\ req.user # None
  BY DEF Api
<1>2. TypeOK /\ ExplainedBy(fault)
  BY FaultExplainedIs DEF RequestInv
<1>3. conn \in Requests /\ req.text \in ContentAt /\ req.user \in Users /\ sessions \subseteq Users
  BY <1>1, <1>2 DEF RequestInv, TypeOK, Asked
<1>4. arena \in 0 .. ArenaSize
  BY <1>2 DEF TypeOK
<1>5. Parsed.off \in 0 .. ArenaSize
  BY <1>3, <1>4, ContentIs, ReadsText DEF Parsed
<1> QED
  BY <1>1, <1>2, <1>3, <1>5

LEMMA ApiKeeps ==
  ASSUME RequestInv, Logout \/ Tags \/ OtherApi
  PROVE  RequestInv'
<1>1. /\ Api /\ arena' = Parsed.off /\ UNCHANGED left
      /\ sessions' = sessions \/ sessions' = sessions \ {req.user}
      /\ \E pieces : /\ Complete(pieces, TRUE) /\ KnownCookies(pieces) /\ <<>> \o pieces = pieces
                     /\ Answer(pieces)
  <2>1. CASE Logout
    BY <2>1, LogoutResponse, FromNothing DEF Logout
  <2>2. CASE Tags
    <3>1. 1 \in Nat
      OBVIOUS
    <3> QED
      BY <2>2, <3>1, FullResponse, FromNothing DEF Tags
  <2>3. CASE OtherApi
    BY <2>3, ShortResponses, FromNothing, ZenonT(40) DEF OtherApi, http_send_200
  <2> QED
    BY <2>1, <2>2, <2>3
<1>2. PICK pieces : /\ Complete(pieces, TRUE) /\ KnownCookies(pieces) /\ <<>> \o pieces = pieces
                    /\ AnswerWith(pieces, fault)
  BY <1>1 DEF Answer
<1>3. /\ ExplainedBy(fault) /\ pc = "api" /\ arena' \in 0 .. ArenaSize
      /\ sessions' \subseteq Users
  BY <1>1, ApiFacts
<1> QED
  BY <1>1, <1>2, <1>3, AnswerKeeps

LEMMA UserNameKeeps ==
  ASSUME RequestInv, UserName
  PROVE  RequestInv'
<1> DEFINE doc == NameDocument(Parsed.off)
           why == IF doc.v.members = <<>> THEN Fault ELSE None
<1>1. /\ Api /\ conn.path = "/api/v1/user"
      /\ \/ ~Writable(doc.v) /\ Die
         \/ Writable(doc.v) /\ Overruns(doc.off, doc.v) /\ Die
         \/ /\ Writable(doc.v)
            /\ AnswerWith(http_send("application/json", Len(json_write(doc.v)), TRUE), why)
            /\ arena' = doc.off /\ UNCHANGED <<sessions, left>>
  BY DEF UserName, Posted
<1>2. /\ TypeOK /\ pc = "api" /\ req.user \in Users /\ sessions \subseteq Users
      /\ conn \in Requests /\ req.text \in ContentAt /\ Parsed.off \in 0 .. ArenaSize
  BY <1>1, ApiFacts
<1>3. doc.off \in Parsed.off .. ArenaSize
  BY <1>2, NameDocumentIs
<1>4. doc.off \in 0 .. ArenaSize
  BY <1>2, <1>3, JsonAssumption
<1>5. ~ Writable(doc.v) \/ Overruns(doc.off, doc.v) \/ doc.v.members = <<>> => ExplainedBy(Fault)
  BY <1>1, <1>2, UserFault, Zenon
<1>6. Writable(doc.v) => Len(json_write(doc.v)) \in Nat
  BY <1>2, AnswerIs
<1>7. ExplainedBy(None)
  BY DEF ExplainedBy
<1> HIDE DEF doc
<1>8. CASE Die /\ (~ Writable(doc.v) \/ Overruns(doc.off, doc.v))
  BY <1>5, <1>8, DieKeeps, Zenon
<1>9. CASE /\ Writable(doc.v)
           /\ AnswerWith(http_send("application/json", Len(json_write(doc.v)), TRUE), why)
           /\ arena' = doc.off /\ UNCHANGED <<sessions, left>>
  <2> DEFINE pieces == http_send("application/json", Len(json_write(doc.v)), TRUE)
  <2>1. Complete(pieces, TRUE) /\ KnownCookies(pieces) /\ <<>> \o pieces = pieces
    BY <1>6, <1>9, FullResponse, FromNothing, Zenon
  <2>2. ExplainedBy(why)
    BY <1>5, <1>7
  <2>3. AnswerWith(pieces, why) /\ UNCHANGED left /\ arena' \in 0 .. ArenaSize /\ sessions' \subseteq Users
    BY <1>2, <1>4, <1>9
  <2> HIDE DEF pieces, why
  <2> QED
    BY <1>2, <2>1, <2>2, <2>3, AnswerKeeps
<1> QED
  BY <1>1, <1>8, <1>9

LEMMA UserOtherKeeps ==
  ASSUME RequestInv, UserOther
  PROVE  RequestInv'
<1>1. /\ Api /\ conn.path = "/api/v1/user"
      /\ \/ Wanted = None /\ Die
         \/ Is(Wanted, "array") /\ Die
         \/ /\ Answer(http_send_200) /\ arena' = Parsed.off /\ UNCHANGED <<sessions, left>>
  BY DEF UserOther, Posted
<1>2. /\ TypeOK /\ pc = "api" /\ req.user \in Users /\ sessions \subseteq Users /\ ExplainedBy(fault)
      /\ conn \in Requests /\ req.text \in ContentAt /\ Parsed.off \in 0 .. ArenaSize
  BY <1>1, ApiFacts
<1>3. CASE Die /\ (Wanted = None \/ Is(Wanted, "array"))
  <2>1. ~ Is(Wanted, "string")
    BY <1>3 DEF Is
  <2>2. ExplainedBy(Fault)
    BY <1>1, <1>2, <2>1, UserFault, Zenon
  <2> QED
    BY <1>3, <2>2, DieKeeps, Zenon
<1>4. CASE Answer(http_send_200) /\ arena' = Parsed.off /\ UNCHANGED <<sessions, left>>
  <2>1. /\ Complete(http_send_200, TRUE) /\ KnownCookies(http_send_200)
        /\ <<>> \o http_send_200 = http_send_200
    BY ShortResponses, FromNothing, ZenonT(40) DEF http_send_200
  <2> QED
    BY <1>2, <1>4, <2>1, AnswerKeeps DEF Answer
<1> QED
  BY <1>1, <1>3, <1>4

(* The browser keeps the cookie that was sent, which is a user's. *)
LEMMA TookKeeps ==
  ASSUME RequestInv, Took
  PROVE  RequestInv'
<1> USE DEF RequestInv
<1>1. /\ pc' = "idle" /\ conn' = None /\ req' = NoRequest /\ left' = 0 /\ steady' = TRUE /\ sent' = <<>>
      /\ closed' = 0 /\ fault' = None /\ UNCHANGED <<life, dir, sessions, arena>>
      /\ jar' \in {jar} \cup {sent[i].v : i \in Cookies}
  BY DEF Took, process
<1>2. jar' = jar \/ jar' = <<>> \/ IsToken(jar')
  <2>1. CASE jar' = jar
    BY <2>1
  <2>2. CASE jar' # jar
    <3>1. PICK i \in Cookies : jar' = sent[i].v
      BY <1>1, <2>2
    <3> QED
      BY <3>1 DEF Cookies, CookiesKnown, KnownCookies
  <2> QED
    BY <2>1, <2>2
<1>3. jar' \in Seq(0 .. 15) /\ (jar' # <<>> => IsToken(jar'))
  <2>1. jar \in Seq(0 .. 15) /\ (jar # <<>> => IsToken(jar))
    BY DEF TypeOK, CookieReturns, IsToken
  <2>2. CASE IsToken(jar')
    <3>1. PICK u \in Users : jar' = HexEncode(Token[u])
      BY <2>2 DEF IsToken
    <3> QED
      BY <2>2, <3>1, Encoded
  <2>3. <<>> \in Seq(0 .. 15)
    OBVIOUS
  <2> HIDE DEF RequestInv
  <2> QED
    BY <1>2, <2>1, <2>2, <2>3, Zenon
<1>4. TypeOK'
  <2>1. 0 \in 0 .. FileSize /\ 0 \in 0 .. 1
    BY RequestAssumption
  <2> QED
    BY <1>1, <1>3, <2>1 DEF TypeOK, NoRequest
<1>5. Asked'
  BY <1>1 DEF Asked
<1>6. CookiesKnown'
  BY <1>1 DEF CookiesKnown, KnownCookies
<1>7. Replying'
  BY <1>1 DEF Replying
<1>8. OneResponse'
  BY <1>1 DEF OneResponse
<1>9. CookieReturns'
  BY <1>1, <1>3 DEF CookieReturns, IsToken
<1>10. FaultExplained'
  BY <1>1 DEF FaultExplained
<1> QED
  BY <1>4, <1>5, <1>6, <1>7, <1>8, <1>9, <1>10

(* A new process has nothing but the browser's cookie. *)
LEMMA ReapKeeps ==
  ASSUME RequestInv, Reap
  PROVE  RequestInv'
<1> USE DEF RequestInv
<1>1. /\ life' \in Lives /\ dir' = 0 /\ sessions' = {} /\ arena' = 0 /\ UNCHANGED jar
      /\ pc' = "idle" /\ conn' = None /\ req' = NoRequest
      /\ left' = 0 /\ steady' = TRUE /\ sent' = <<>> /\ closed' = 0 /\ fault' = None
  BY DEF Reap, FreshProcess, Lives
<1>2. TypeOK'
  <2>1. 0 \in 0 .. FileSize /\ 0 \in 0 .. 1 /\ 0 \in 0 .. ArenaSize /\ 0 \in 0 .. RootDirSize - 1
    BY RequestAssumption, JsonAssumption
  <2> QED
    BY <1>1, <2>1 DEF TypeOK, NoRequest, Lives
<1>3. Asked'
  BY <1>1 DEF Asked
<1>4. CookiesKnown'
  BY <1>1 DEF CookiesKnown, KnownCookies
<1>5. Replying'
  BY <1>1 DEF Replying
<1>6. OneResponse'
  BY <1>1 DEF OneResponse
<1>7. CookieReturns'
  BY <1>1 DEF CookieReturns
<1>8. FaultExplained'
  BY <1>1 DEF FaultExplained
<1> QED
  BY <1>2, <1>3, <1>4, <1>5, <1>6, <1>7, <1>8

(* The process starts and ends; a directory is accepted if it fits with its slash. *)
LEMMA ProcessKeeps ==
  ASSUME RequestInv, Fork \/ Operator \/ Help \/ UnknownOption \/ RootDirectory \/ Boot \/ Quit
  PROVE  RequestInv'
<1>1. dir \in 0 .. RootDirSize - 1 /\ RootDirSize \in Nat \ {0} /\ 0 \in 0 .. RootDirSize - 1
  <2>1. dir \in 0 .. RootDirSize - 1
    BY DEF RequestInv, TypeOK
  <2>2. RootDirSize \in Nat \ {0}
    BY RequestAssumption
  <2>3. 0 \in 0 .. RootDirSize - 1
    BY <2>2
  <2> QED
    BY <2>1, <2>2, <2>3
<1>2. CASE Fork \/ Operator \/ Quit
  BY <1>1, <1>2, UntouchedKeeps DEF Fork, Operator, Quit, Lives
<1>3. CASE Help \/ UnknownOption \/ Boot
  BY <1>1, <1>3, UntouchedKeeps DEF Help, UnknownOption, Options, Boot, Lives
<1>4. CASE RootDirectory
  <2>1. PICK len \in Directories, slash \in 0 .. 1 :
          IF Accepts(len) THEN Options("boot", len + 1 - slash) ELSE Options("exit 1", 0)
    BY <1>4 DEF RootDirectory
  <2>2. len \in Nat
    BY RequestAssumption
  <2>3. Accepts(len) => len + 1 - slash \in 0 .. RootDirSize - 1
    BY <1>1, <2>2 DEF Accepts
  <2>4. Untouched /\ life' \in Lives /\ dir' \in 0 .. RootDirSize - 1
    BY <1>1, <2>1, <2>3 DEF Options, Lives
  <2> QED
    BY <2>4, UntouchedKeeps
<1> QED
  BY <1>2, <1>3, <1>4

LEMMA NextInv == RequestInv /\ [Next]_vars => RequestInv'
<1> SUFFICES ASSUME RequestInv, [Next]_vars PROVE RequestInv'
  OBVIOUS
<1>1. CASE UNCHANGED vars
  <2>1. Untouched /\ life' = life /\ dir' = dir
    BY <1>1 DEF vars, process, Untouched
  <2>2. life' \in Lives /\ dir' \in 0 .. RootDirSize - 1
    BY <2>1 DEF RequestInv, TypeOK, Lives
  <2> QED
    BY <2>1, <2>2, UntouchedKeeps
<1>2. CASE Server
  <2>1. CASE ParseRequest
    BY <2>1, ParseRequestKeeps
  <2>2. CASE RedirectPage \/ NoExtension \/ Favicon \/ NoFile \/ FileNotStat \/ RedirectApi
    BY <2>2, AnswersKeep
  <2>3. CASE RouteApi
    BY <2>3, RouteApiKeeps
  <2>4. CASE OpenFile
    BY <2>4, OpenFileKeeps
  <2>5. CASE SendChunk
    BY <2>5, SendChunkKeeps
  <2>6. CASE EndOfFile
    BY <2>6, EndOfFileKeeps
  <2>12. CASE FileNotRead
    BY <2>12, FileChangeKeeps
  <2>13. CASE Overflow \/ ContentNotReadable
    BY <2>13, OutsideKeeps
  <2>7. CASE Login
    BY <2>7, LoginKeeps
  <2>8. CASE Logout \/ Tags \/ OtherApi
    BY <2>8, ApiKeeps
  <2>9. CASE UserName
    BY <2>9, UserNameKeeps
  <2>10. CASE UserOther
    BY <2>10, UserOtherKeeps
  <2>11. CASE Help \/ UnknownOption \/ RootDirectory \/ Boot
    BY <2>11, ProcessKeeps
  <2> QED
    BY <1>2, <2>1, <2>2, <2>3, <2>4, <2>5, <2>6, <2>7, <2>8, <2>9, <2>10, <2>11,
       <2>12, <2>13 DEF Server
<1>3. CASE Watchdog
  BY <1>3, ProcessKeeps, ReapKeeps DEF Watchdog
<1>4. CASE Browser
  BY <1>4, AskKeeps, TookKeeps DEF Browser
<1>5. CASE Operator \/ Quit
  BY <1>5, ProcessKeeps
<1>6. CASE WriteFile
  BY <1>6, FileChangeKeeps
<1> QED
  BY <1>1, <1>2, <1>3, <1>4, <1>5, <1>6 DEF Next

LEMMA InvariantHolds == Spec => []RequestInv
BY InitInv, NextInv, PTL DEF Spec

(* The state of the server, its worker, and the browser is always one of    *)
(* the typed ones: the arena's offset and the copied directory stay within  *)
(* their buffers, and a request is under way exactly while the worker is.   *)
THEOREM TypeCorrect == Spec => []TypeOK
BY InvariantHolds, PTL DEF RequestInv

(* Whatever is asked and whichever way the handlers take, what they hand to *)
(* send for a connection they close is exactly one response, with a body of *)
(* the length that was announced, unless somebody wrote to the file while   *)
(* it was sent or a read of it failed.                                      *)
THEOREM ResponseCorrect == Spec => []OneResponse
BY InvariantHolds, PTL DEF RequestInv

(* The token of a session survives hex_encode, the browser, the Cookie line *)
(* with other cookies around it, extract_sessionid_token and hex_decode,    *)
(* for tokens of any size; nobody else is taken for logged in.              *)
THEOREM CookieCorrect == Spec => []CookieReturns
BY InvariantHolds, PTL DEF RequestInv

(* If the library reads what a text stands for whenever it fits, then a     *)
(* server that dies, or leaves out the name that it was asked for, was sent *)
(* a word or a password longer than its buffer, a body without what the     *)
(* handler looks for, one that was late, or, when asked for the name, one   *)
(* that left too little of the arena; so no login dies of what the arena    *)
(* was filled with before.                                                  *)
THEOREM FaultCorrect == Spec => []FaultExplained
BY InvariantHolds, PTL DEF RequestInv
=============================================================================
