---------------------------- MODULE MCWriteUnit ----------------------------
(* One table of every shape the write path distinguishes, two keys where   *)
(* the plans of several keys matter, and the objects a key may start with. *)
EXTENDS WriteUnit

CONSTANTS k1, k2, ks, a, b, v1, v2, null

Shape(type, packed, keyset, keys, fields, ttls) ==
  [type |-> type, packed |-> packed, keyset |-> keyset, keys |-> keys,
   fields |-> fields, ttls |-> ttls]

Strings == Shape("string", FALSE, TRUE, {k1, k2}, <<>>, <<>>)
Hashes == Shape("hash", FALSE, TRUE, {k1}, <<a, b>>, <<b>>)
Narrow == Shape("hash", FALSE, FALSE, {k1}, <<a>>, <<>>)
Sets == Shape("set", FALSE, FALSE, {k1}, <<>>, <<>>)
ZSets == Shape("zset", FALSE, FALSE, {k1}, <<>>, <<>>)
Lists == Shape("list", FALSE, FALSE, {k1}, <<>>, <<>>)
PackedSets == Shape("set", TRUE, TRUE, {k1}, <<>>, <<>>)
PackedLists == Shape("list", TRUE, FALSE, {k1}, <<>>, <<>>)
PackedHashes == Shape("hash", TRUE, FALSE, {k1}, <<>>, <<>>)

PlainStrings == [Strings EXCEPT !.keyset = FALSE]

AllShapes ==
  {Strings, Hashes, Narrow, Sets, ZSets, Lists, PackedSets, PackedLists, PackedHashes}
OnlyStrings == {Strings}
OnlyPlainStrings == {PlainStrings}
OnlyHashes == {Hashes}
OnlySets == {Sets}
OnlyLists == {Lists}

Obj(t, map, seq) ==
  [t |-> t, exp |-> {}, seq |-> seq,
   map |-> [s \in Content |-> IF s \in DOMAIN map THEN map[s] ELSE None]]

Hash(fields, v) == Obj("hash", [s \in fields |-> v], <<>>)
Set(members) == Obj("set", [s \in members |-> Member], <<>>)
Num(v) == Obj("zset", [s \in {a} |-> v], <<>>)

(* Nothing, something of another type, and something of the table's own.   *)
OwnObjects ==
  [string |-> {Str(v2)}, hash |-> {Hash({b}, v2), Hash({a, b}, v2)},
   set |-> {Set({a}), Set({a, b})}, zset |-> {Num(v2)},
   list |-> {Obj("list", <<>>, <<a, b, a>>)}]
Foreign(type) == IF type = "string" THEN Set({b}) ELSE Str(v1)
MCStored == [t \in AllShapes \union OnlyPlainStrings |-> {NoObj, Foreign(t.type)} \union OwnObjects[t.type]]
MCGiven ==
  [t \in AllShapes \union OnlyPlainStrings |->
     CASE t.packed /\ t.type = "hash" -> {<<>>, <<a, v1>>, <<b, v1>>}
       [] t.packed /\ t.type # "hash" -> {<<>>, <<a>>, <<b, a>>}
       [] t.type \in {"string", "zset"} /\ ~t.packed -> {v1, v2}
       [] OTHER -> {v1}]

SomeIndex == {NoObj, Set({k1})}
AnyIndex == SomeIndex \union {Str(v1)}
=============================================================================
