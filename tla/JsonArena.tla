------------------------------ MODULE JsonArena ------------------------------
(***************************************************************************)
(* The JSON library's values and the arena that they are allocated from    *)
(* (RnD/Rackhamn/arena/arena.c, and json_make.h and json_find.h of         *)
(* RnD/Rackhamn/json/src): all that does not walk through a whole text or  *)
(* a whole document, which is in JsonText.                                 *)
(*                                                                         *)
(* A text is a sequence of lexemes: a mark, a literal, a number (all that  *)
(* strtod takes), a string up to its second quote, an opened string that   *)
(* is never closed, white space, or junk.  Two numbers never touch, and no *)
(* string follows an opened one: as characters they would be other         *)
(* lexemes.  Strings hold no character that json_write_string escapes; the *)
(* parser knows no escapes.                                                *)
(***************************************************************************)
EXTENDS Integers, Sequences, FiniteSets

CONSTANTS Length,        (* strlen of each string                              *)
          NodeBytes, PointerBytes, MemberBytes,    (* sizeof                    *)
          ArenaSize,     (* arena_t.size                                        *)
          Rounded,       (* what %g keeps of each number                        *)
          None           (* NULL; the lexeme's value where it has none          *)

ASSUME JsonAssumption ==
  /\ {NodeBytes, PointerBytes, MemberBytes} \subseteq Nat \ {0}
  /\ ArenaSize \in Nat
  /\ \A s \in DOMAIN Length : Length[s] \in Nat
  /\ \A n \in DOMAIN Rounded : Rounded[Rounded[n]] = Rounded[n]

Mark(k) == [k |-> k, v |-> None]
Str(s) == [k |-> "string", v |-> s]
Number(n) == [k |-> "number", v |-> n]
Space == Mark("space")
-----------------------------------------------------------------------------
(* A result is a value, where the text goes on, and the arena's new offset; *)
(* at = 0 stands for a NULL.  What was allocated before a failure stays.    *)
Failed(off) == [v |-> None, at |-> 0, off |-> off]

(* arena_alloc, and the value that is made of the memory.                   *)
Alloc(off, bytes, v, at) ==
  IF off + bytes > ArenaSize THEN Failed(off)
  ELSE [v |-> v, at |-> at, off |-> off + bytes]

(* A copy of a string, then the value that points to it.                    *)
StringIn(copy, s) ==
  IF copy.at = 0 THEN copy
  ELSE Alloc(copy.off, NodeBytes, [type |-> "string", s |-> s], copy.at)
StringAt(off, s, at) == StringIn(Alloc(off, Length[s] + 1, None, at), s)

Composite(open, parts) ==
  IF open = "[" THEN [type |-> "array", items |-> parts]
  ELSE [type |-> "object", members |-> parts]

(* json_find_by_path, for a path of one name, as the server's are: the      *)
(* value of the first member of that name.                                  *)
FindByPath(v, key) ==
  IF v = None THEN None
  ELSE IF v.type # "object" THEN None
  ELSE LET hits == {i \in DOMAIN v.members : v.members[i][1] = key} IN
       IF hits = {} THEN None
       ELSE v.members[CHOOSE i \in hits : \A j \in hits : i <= j][2]

(* json_make.h.  json_make_array does not set the type: it is what the      *)
(* memory held.                                                             *)
MakeNull(off) == Alloc(off, NodeBytes, [type |-> "null"], 1)
MakeBool(off, b) == Alloc(off, NodeBytes, [type |-> "bool", b |-> b], 1)
MakeNumber(off, n) == Alloc(off, NodeBytes, [type |-> "number", n |-> n], 1)
MakeString(off, s) == StringAt(off, s, 1)
MakeArray(off, was) == Alloc(off, NodeBytes, [type |-> was, items |-> <<>>], 1)
MakeObject(off) == Alloc(off, NodeBytes, [type |-> "object", members |-> <<>>], 1)

(* The functions that add return the array or object, as it is if there is  *)
(* no room for one more; the list alone may still have been allocated.      *)
ArrayAppend(off, array, item) ==
  LET grown == Alloc(off, (Len(array.items) + 1) * PointerBytes, None, 1) IN
  IF grown.at = 0 THEN [v |-> array, at |-> 0, off |-> off]
  ELSE [v |-> [array EXCEPT !.items = Append(@, item)], at |-> 1, off |-> grown.off]

ObjectAdd(off, object, key, value) ==
  LET grown == Alloc(off, (Len(object.members) + 1) * MemberBytes, None, 1)
      copy  == Alloc(grown.off, Length[key] + 1, None, 1)
  IN IF grown.at = 0 \/ copy.at = 0 THEN [v |-> object, at |-> 0, off |-> grown.off]
     ELSE [v |-> [object EXCEPT !.members = Append(@, <<key, value>>)], at |-> 1,
           off |-> copy.off]
=============================================================================
