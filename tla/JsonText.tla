------------------------------ MODULE JsonText ------------------------------
(***************************************************************************)
(* The JSON library (RnD/Rackhamn/json/src): the parser and the writer     *)
(* over texts of lexemes, and the grammar they are measured by.            *)
(***************************************************************************)
EXTENDS JsonArena, SequencesExt

Literals == {"null", "true", "false"}

Kind(text, i) == IF i \in DOMAIN text THEN text[i].k ELSE "end"

(* json_skip_whitespace *)
Skip(text, i) ==
  CHOOSE j \in i .. Len(text) + 1 :
    Kind(text, j) # "space" /\ \A m \in i .. j - 1 : Kind(text, m) = "space"
-----------------------------------------------------------------------------
ParseString(text, i, off) ==
  IF Kind(text, i) = "string" THEN StringAt(off, text[i].v, i + 1) ELSE Failed(off)

ParseLiteral(text, i, off) == Alloc(off, NodeBytes, [type |-> Kind(text, i)], i + 1)

ParseNumber(text, i, off) ==
  Alloc(off, NodeBytes, [type |-> "number", n |-> text[i].v], i + 1)

Closing(open) == IF open = "[" THEN "]" ELSE "}"
EntryBytes(open) == IF open = "[" THEN PointerBytes ELSE MemberBytes

RECURSIVE ParseValue(_, _, _), ParseItems(_, _, _, _, _)

(* A member of an object: a key, a colon, a value.                          *)
Pairing(key, value) ==
  IF value.at = 0 THEN value ELSE [value EXCEPT !.v = <<key.v.s, value.v>>]
AfterKey(text, key, colon) ==
  IF Kind(text, colon) # ":" THEN Failed(key.off)
  ELSE Pairing(key, ParseValue(text, Skip(text, colon + 1), key.off))
MemberOf(text, key) == IF key.at = 0 THEN key ELSE AfterKey(text, key, Skip(text, key.at))
ParseElement(text, i, off, open) ==
  IF open = "[" THEN ParseValue(text, i, off) ELSE MemberOf(text, ParseString(text, i, off))

\* A slip: a comma may be followed by the closing bracket.
EndsLoosely(text, list, open) ==
  IF list.at = 0 THEN list
  ELSE LET next == IF Kind(text, list.at) = "," THEN Skip(text, list.at + 1) ELSE list.at IN
       IF Kind(text, next) = Closing(open)
       THEN Alloc(list.off, NodeBytes, Composite(open, list.v), next + 1)
       ELSE IF next > list.at THEN ParseItems(text, next, list.off, list.v, open)
       ELSE Failed(list.off)

(* The loop of json_parse_array and json_parse_object: the list is copied   *)
(* into a longer one for every element; then a bracket or a comma.          *)
EndsOrGoesOn(text, list, open) ==
  IF list.at = 0 THEN list
  ELSE IF Kind(text, list.at) = Closing(open)
    THEN Alloc(list.off, NodeBytes, Composite(open, list.v), list.at + 1)
  ELSE IF Kind(text, list.at) = "," THEN ParseItems(text, list.at + 1, list.off, list.v, open)
  ELSE Failed(list.off)

Grow(text, item, sofar, open) ==
  IF item.at = 0 THEN item
  ELSE EndsOrGoesOn(text, Alloc(item.off, (Len(sofar) + 1) * EntryBytes(open),
                                Append(sofar, item.v), Skip(text, item.at)), open)

ParseItems(text, i, off, sofar, open) ==
  Grow(text, ParseElement(text, Skip(text, i), off, open), sofar, open)

ParseComposite(text, i, off) ==
  LET open  == Kind(text, i)
      first == Skip(text, i + 1)
  IN IF Kind(text, first) = Closing(open)
     THEN Alloc(off, NodeBytes, Composite(open, <<>>), first + 1)
     ELSE ParseItems(text, first, off, <<>>, open)

(* json_parse_value *)
ParseValue(text, from, off) ==
  LET i == Skip(text, from)
      k == Kind(text, i)
  IN CASE k = "string"     -> ParseString(text, i, off)
       [] k \in {"{", "["} -> ParseComposite(text, i, off)
       [] k \in Literals   -> ParseLiteral(text, i, off)
       [] k = "number"     -> ParseNumber(text, i, off)
       [] OTHER            -> Failed(off)

(* json_parse, in an arena that is used up to off.                          *)
Parse(text, off) ==
  LET root == ParseValue(text, 1, off) IN
  IF root.at = 0 \/ Kind(text, Skip(text, root.at)) # "end" THEN Failed(root.off) ELSE root

-----------------------------------------------------------------------------
(* A document built as the tests build theirs, in memory that holds zeros,  *)
(* which is the type of an array.                                           *)
RECURSIVE Build(_, _)
Build(v, off) ==
  CASE v.type = "null"   -> MakeNull(off)
    [] v.type = "true"   -> MakeBool(off, TRUE)
    [] v.type = "false"  -> MakeBool(off, FALSE)
    [] v.type = "number" -> MakeNumber(off, v.n)
    [] v.type = "string" -> MakeString(off, v.s)
    [] v.type = "array"  ->
         FoldLeft(LAMBDA acc, x : LET made == Build(x, acc.off) IN
                                  ArrayAppend(made.off, acc.v, made.v),
                  MakeArray(off, "array"), v.items)
    [] v.type = "object" ->
         FoldLeft(LAMBDA acc, m : LET made == Build(m[2], acc.off) IN
                                  ObjectAdd(made.off, acc.v, m[1], made.v),
                  MakeObject(off), v.members)
-----------------------------------------------------------------------------
(* json_write.h, but for the lines and the indentation, which Skip passes   *)
(* over.                                                                    *)

\* A slip: the comma after the last element too.
CommaAfterAll(parts) == FlattenSeq([i \in DOMAIN parts |-> Append(parts[i], Mark(","))])

Separated(parts) ==
  FlattenSeq([i \in DOMAIN parts |->
    parts[i] \o (IF i < Len(parts) THEN <<Mark(",")>> ELSE <<>>)])

RECURSIVE WriteValue(_)
WriteArray(v) ==
  <<Mark("[")>> \o Separated([i \in DOMAIN v.items |-> WriteValue(v.items[i])]) \o <<Mark("]")>>
WriteObject(v) ==
  <<Mark("{")>>
    \o Separated([i \in DOMAIN v.members |-> <<Str(v.members[i][1]), Mark(":")>>
                                                \o WriteValue(v.members[i][2])])
    \o <<Mark("}")>>
WriteValue(v) ==
  CASE v.type \in Literals -> <<Mark(v.type)>>
    [] v.type = "bool"     -> <<Mark(IF v.b THEN "true" ELSE "false")>>
    [] v.type = "number"   -> <<Number(Rounded[v.n])>>
    [] v.type = "string"   -> <<Str(v.s)>>
    [] v.type = "array"    -> WriteArray(v)
    [] v.type = "object"   -> WriteObject(v)
    [] OTHER               -> <<>>

(* json_write *)
Write(v) == WriteValue(v)

-----------------------------------------------------------------------------
(* What a text means, by the grammar: not a scan, but every way to split it.*)
Plain(text) == SelectSeq(text, LAMBDA x : x.k # "space")
Commas(text) == {i \in DOMAIN text : text[i].k = ","}
Before(text, i) == SubSeq(text, 1, i - 1)
Behind(text, i) == SubSeq(text, i + 1, Len(text))

RECURSIVE Denotes(_), Row(_, _)
Entry(text, open) ==
  IF open = "[" THEN Denotes(text)
  ELSE IF Kind(text, 1) = "string" /\ Kind(text, 2) = ":"
  THEN {<<text[1].v, v>> : v \in Denotes(Behind(text, 2))} ELSE {}
Row(text, open) ==
  {<<v>> : v \in Entry(text, open)}
    \cup UNION {{<<v>> \o row : v \in Entry(Before(text, i), open),
                                row \in Row(Behind(text, i), open)} : i \in Commas(text)}
Denotes(text) ==
  LET open == Kind(text, 1)
      inner == SubSeq(text, 2, Len(text) - 1)
  IN IF Len(text) = 1
     THEN CASE open \in Literals -> {[type |-> open]}
            [] open = "number"   -> {[type |-> "number", n |-> text[1].v]}
            [] open = "string"   -> {[type |-> "string", s |-> text[1].v]}
            [] OTHER             -> {}
     ELSE IF open \in {"[", "{"} /\ Kind(text, Len(text)) = Closing(open)
     THEN IF inner = <<>> THEN {Composite(open, <<>>)}
          ELSE {Composite(open, row) : row \in Row(inner, open)}
     ELSE {}

Sum(n, f(_)) == FoldLeft(LAMBDA acc, i : acc + f(i), 0, [i \in 1 .. n |-> i])

(* The memory a document takes in all.                                      *)
RECURSIVE Cost(_)
Cost(v) ==
  NodeBytes +
  CASE v.type = "string" -> Length[v.s] + 1
    [] v.type = "array"  -> LET f(i) == Cost(v.items[i]) + i * PointerBytes
                            IN Sum(Len(v.items), f)
    [] v.type = "object" -> LET f(i) == Length[v.members[i][1]] + 1 + NodeBytes
                                          + Cost(v.members[i][2]) + i * MemberBytes
                            IN Sum(Len(v.members), f)
    [] OTHER -> 0
=============================================================================
