------------------------------ MODULE Keyspace ------------------------------
(***************************************************************************)
(* The part of Valkey the write program talks to: typed objects, the read  *)
(* verbs of its phase 1 and the write verbs of its phase 2.  The server is *)
(* external; its verbs are modelled from how the CHECK and ACTION tables   *)
(* of the Lua text in vfdw_script.c call them and read their replies.      *)
(***************************************************************************)
EXTENDS Integers, Sequences, SequencesExt, FiniteSets

CONSTANTS
  Keys,     \* the keys tables map
  Keyset,   \* the key that holds a table's keyset, when it has one
  Subs,     \* hash fields, members and list elements
  Vals,     \* string values, field values and scores
  None      \* no value; also SQL's NULL

AllKeys == Keys \union {Keyset}
Content == Subs \union Keys

(* A set's members map to this; it is no string, field value or score.     *)
Member == "member"

(* map holds a hash's fields, a set's members or a zset's scores, exp the  *)
(* fields with an expiry, seq a list's elements or a string's one value.   *)
NoObj == [t |-> "none", map |-> [s \in Content |-> None], exp |-> {}, seq |-> <<>>]

Str(v) == [NoObj EXCEPT !.t = "string", !.seq = <<v>>]
Exists(db, k) == db[k].t # "none"
Holds(o, s) == o.map[s] # None
Count(o, s) == Cardinality({i \in 1..Len(o.seq) : o.seq[i] = s})

(* A collection that loses its last element is gone.                       *)
Kept(o) ==
  IF o.seq = <<>> /\ \A s \in Content : ~Holds(o, s) THEN NoObj ELSE o

Put(db, k, o) == [db EXCEPT ![k] = Kept(o)]
Entry(o, t, s, v) ==
  [o EXCEPT !.t = t, !.map[s] = v, !.exp = @ \ {s}]
DropFirst(l, s) ==
  LET i == CHOOSE i \in 1..Len(l) : l[i] = s /\ \A j \in 1..i-1 : l[j] # s
  IN  IF s \in {l[j] : j \in 1..Len(l)} THEN RemoveAt(l, i) ELSE l

-----------------------------------------------------------------------------
(* Steps: an opcode and its two arguments, on the key of their plan.       *)

TypeOf(op) ==
  CASE op \in {"HSET", "HDEL", "HPEXPIRE", "HPERSIST"} -> "hash"
    [] op \in {"SADD", "SREM", "KSET_ADD", "KSET_REM"} -> "set"
    [] op \in {"ZADD", "ZREM"} -> "zset"
    [] op \in {"RPUSH", "LREM1"} -> "list"

(* The key a step works on: the keyset's verbs leave their plan's key.     *)
Target(k, a) == IF a.op \in {"KSET_ADD", "KSET_REM"} THEN a.x ELSE k

(* server.pcall answers no error: RENAME wants its source, every typed     *)
(* verb an object of its type or none at all.                              *)
Succeeds(db, k, a) ==
  CASE a.op \in {"SET", "DEL"} -> TRUE
    [] a.op = "RENAME" -> Exists(db, a.x)
    [] OTHER -> db[Target(k, a)].t \in {"none", TypeOf(a.op)}

Effect(db, k, a) ==
  LET o == db[Target(k, a)]
  IN CASE a.op = "SET" -> Put(db, k, Str(a.x))
       [] a.op = "DEL" -> Put(db, k, NoObj)
       [] a.op = "RENAME" -> [db EXCEPT ![k] = db[a.x], ![a.x] = NoObj]
       [] a.op = "HSET" -> Put(db, k, Entry(o, "hash", a.x, a.y))
       [] a.op = "ZADD" -> Put(db, k, Entry(o, "zset", a.x, a.y))
       [] a.op = "SADD" -> Put(db, k, Entry(o, "set", a.x, Member))
       [] a.op = "KSET_ADD" -> Put(db, a.x, Entry(o, "set", a.y, Member))
       [] a.op \in {"HDEL", "ZREM", "SREM"} -> Put(db, k, Entry(o, o.t, a.x, None))
       [] a.op = "KSET_REM" -> Put(db, a.x, Entry(o, o.t, a.y, None))
       [] a.op = "HPEXPIRE" -> IF Holds(o, a.x)
                               THEN Put(db, k, [o EXCEPT !.exp = @ \union {a.x}]) ELSE db
       [] a.op = "HPERSIST" -> Put(db, k, [o EXCEPT !.exp = @ \ {a.x}])
       [] a.op = "RPUSH" -> Put(db, k, [o EXCEPT !.t = "list", !.seq = Append(@, a.x)])
       [] a.op = "LREM1" -> Put(db, k, [o EXCEPT !.seq = DropFirst(@, a.x)])

(* The CHECK table: what a failing check answers, or "ok".                 *)
Verdict(db, k, c) ==
  LET o == db[k]
      bad(code, fails) == IF fails THEN code ELSE "ok"
  IN CASE c.op = "KEY_ABSENT" -> bad("CONFLICT", Exists(db, k))
       [] c.op = "KEY_PRESENT" -> bad("MISSING", ~Exists(db, k))
       [] c.op = "SUB_ABSENT" -> bad("CONFLICT", Holds(o, c.x))
       [] c.op = "SUB_PRESENT" -> bad("MISSING", ~Holds(o, c.x))
       [] c.op = "COUNT_GE" -> bad("MISSING", Count(o, c.x) < c.y)
=============================================================================
