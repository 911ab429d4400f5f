------------------------------- MODULE Ledger -------------------------------
(***************************************************************************)
(* The fold of vfdw_ledger.c and vfdw_ledger_fold.c: one plan per key, in  *)
(* first-touch order, each with its checks and its actions, and one entry  *)
(* per field, member or list value a transaction has touched.              *)
(*                                                                         *)
(* The fold is written as operators from a ledger to a ledger, because it  *)
(* runs twice: once for every row, and again over the surviving log after  *)
(* a subtransaction abort.  The HFIELD_, SMEMBER_ and ZMEMBER_ opcodes are *)
(* one SUB_ opcode here, the plan's type telling them apart.               *)
(***************************************************************************)
EXTENDS Keyspace

(* A table: its Valkey type, whether legacy_value packs the whole key into *)
(* one row, whether it has a keyset, the keys under its prefix, its mapped *)
(* hash fields and the ttl columns among them (in column order).           *)
Table == [type: {"string", "hash", "list", "set", "zset"}, packed: BOOLEAN,
          keyset: BOOLEAN, keys: SUBSET Keys, fields: Seq(Subs), ttls: Seq(Subs)]

Step(op, x, y) == [op |-> op, x |-> x, y |-> y]

NoPlan == [on |-> FALSE, type |-> "none", state |-> "CREATED",
           checks |-> <<>>, actions |-> <<>>]
NoEntry == [known |-> FALSE, present |-> FALSE, count |-> 0, removals |-> 0]

(* vfdw_ledger_reset.                                                      *)
EmptyLedger ==
  [order |-> <<>>, plan |-> [k \in Keys |-> NoPlan],
   mem |-> [k \in Keys |-> [s \in Subs |-> NoEntry]]]

AddCheck(L, k, c) == [L EXCEPT !.plan[k].checks = Append(@, c)]
AddAction(L, k, a) == [L EXCEPT !.plan[k].actions = Append(@, a)]

(* Mutant: the plan is found by its key but never linked into the list.    *)
PlanForUnlisted(L, k, type) ==
  IF L.plan[k].on THEN L
  ELSE [L EXCEPT !.plan[k] = [NoPlan EXCEPT !.on = TRUE, !.type = type]]

(* vfdw_ledger_plan_for.  TYPE_OK, every plan's first check, is the type   *)
(* the plan carries: the program tests it before the listed ones.          *)
PlanFor(L, k, type) ==
  IF L.plan[k].on THEN L
  ELSE [L EXCEPT !.order = Append(@, k),
                 !.plan[k] = [NoPlan EXCEPT !.on = TRUE, !.type = type]]

(* vfdw_ledger_keyset.                                                     *)
FoldKeyset(L, tab, at, op, k) ==
  IF tab.keyset THEN AddAction(L, at, Step(op, Keyset, k)) ELSE L

(* Mutant: a key an UPDATE or DELETE opens is not asked for.               *)
PreconditionOnlyAbsent(L, k, first, creates) ==
  IF ~first THEN L
  ELSE IF creates
       THEN [AddCheck(L, k, Step("KEY_ABSENT", None, None)) EXCEPT !.plan[k].state = "CREATED"]
       ELSE [L EXCEPT !.plan[k].state = "LIVE"]

(* vfdw_ledger_precondition.                                               *)
Precondition(L, k, first, creates) ==
  IF ~first THEN L
  ELSE IF creates
       THEN [AddCheck(L, k, Step("KEY_ABSENT", None, None)) EXCEPT !.plan[k].state = "CREATED"]
       ELSE [AddCheck(L, k, Step("KEY_PRESENT", None, None)) EXCEPT !.plan[k].state = "LIVE"]

IsRename(op) == op.kind = "UPDATE" /\ op.oldkey # op.key

(* Mutant: a deleted key counts as taken.                                  *)
DuplicateKeyEvenDeleted(L, op) ==
  op.kind = "INSERT" /\ L.plan[op.key].on /\ L.plan[op.key].type = "string"

(* vfdw_ledger_check_duplicate raises.                                     *)
DuplicateKey(L, op) ==
  /\ op.kind = "INSERT" /\ L.plan[op.key].on
  /\ L.plan[op.key].state # "DELETED"
  /\ L.plan[op.key].type = "string"

(* vfdw_ledger_fold_rename.                                                *)
FoldRename(L, tab, op) ==
  IF ~IsRename(op) THEN L
  ELSE LET moved == AddAction(L, op.key, Step("RENAME", op.oldkey, None))
           out == FoldKeyset(moved, tab, op.key, "KSET_REM", op.oldkey)
           in == FoldKeyset(out, tab, op.key, "KSET_ADD", op.key)
           old == PlanFor(in, op.oldkey, tab.type)
       IN  Precondition(old, op.oldkey, ~in.plan[op.oldkey].on, FALSE)

-----------------------------------------------------------------------------
(* One level down: the first touch of a field or member.                   *)

FirstTouch(L, k, s, insert) ==
  LET known == [L EXCEPT !.mem[k][s].known = TRUE]
  IN  IF L.mem[k][s].known THEN L
      ELSE IF L.plan[k].state = "CREATED" THEN known
      ELSE AddCheck(known, k, Step(IF insert THEN "SUB_ABSENT" ELSE "SUB_PRESENT", s, None))

(* vfdw_ledger_fold_fields, one field: a NULL is an HDEL.                  *)
FoldField(L, op, s) ==
  LET touched == FirstTouch(L, op.key, s, op.kind = "INSERT")
      set == op.f[s] # None
      step == IF set THEN Step("HSET", s, op.f[s]) ELSE Step("HDEL", s, None)
  IN  [AddAction(touched, op.key, step) EXCEPT !.mem[op.key][s].present = set]

(* vfdw_ledger_fold_ttls, one column.                                      *)
FoldTtl(L, op, s) ==
  AddAction(L, op.key, Step(IF s \in op.x THEN "HPEXPIRE" ELSE "HPERSIST", s, None))

(* Mutant: the expiries first, which HSET then clears.                     *)
FoldHashTtlFirst(L, tab, op) ==
  LET ttls == FoldLeft(LAMBDA l, s : FoldTtl(l, op, s), L, tab.ttls)
  IN  FoldLeft(LAMBDA l, s : FoldField(l, op, s), ttls, tab.fields)

(* vfdw_ledger_fold_hash: the fields, and then their expiries.             *)
FoldHash(L, tab, op) ==
  LET fields == FoldLeft(LAMBDA l, s : FoldField(l, op, s), L, tab.fields)
  IN  FoldLeft(LAMBDA l, s : FoldTtl(l, op, s), fields, tab.ttls)

(* vfdw_refuse_duplicate_member, from either caller.                       *)
DuplicateSub(L, tab, op) ==
  /\ op.kind = "INSERT" /\ ~tab.packed
  /\ \/ tab.type = "hash" /\ \E s \in ToSet(tab.fields) : L.mem[op.key][s].present
     \/ tab.type \in {"set", "zset"} /\ L.mem[op.key][op.m].present

(* vfdw_ledger_fold_member.                                                *)
FoldMember(L, tab, op) ==
  LET k == op.key
      touched == FirstTouch(L, k, op.oldm, op.kind = "INSERT")
      gone(s) == [AddAction(touched, k, Step(IF tab.type = "zset" THEN "ZREM" ELSE "SREM", s, None))
                    EXCEPT !.mem[k][s].present = FALSE]
      add == IF tab.type = "zset" THEN Step("ZADD", op.m, op.v) ELSE Step("SADD", op.m, None)
      left == IF op.kind = "UPDATE" /\ op.oldm # op.m THEN gone(op.oldm) ELSE touched
  IN  IF op.kind = "DELETE" THEN gone(op.m)
      ELSE [AddAction(left, k, add) EXCEPT !.mem[k][op.m].known = TRUE,
                                           !.mem[k][op.m].present = TRUE]

(* Mutant: every removal is asked of the server, own pushes included.      *)
FoldListCountsAll(L, op) ==
  LET k == op.key
      owed == [AddCheck(L, k, Step("COUNT_GE", op.m, L.mem[k][op.m].removals + 1))
                 EXCEPT !.mem[k][op.m].removals = @ + 1]
  IN  IF op.kind = "DELETE" THEN AddAction(owed, k, Step("LREM1", op.m, None))
      ELSE AddAction(L, k, Step("RPUSH", op.m, None))

(* vfdw_ledger_fold_list: a removal first uses up what this transaction    *)
(* pushed itself, and asks the server only for the rest.                   *)
FoldList(L, op) ==
  LET k == op.key
      e == L.mem[k][op.m]
      owed == [AddCheck(L, k, Step("COUNT_GE", op.m, e.removals + 1))
                 EXCEPT !.mem[k][op.m].removals = @ + 1]
      used == [L EXCEPT !.mem[k][op.m].count = @ - 1]
  IN  IF op.kind = "DELETE"
      THEN AddAction(IF e.count > 0 THEN used ELSE owed, k, Step("LREM1", op.m, None))
      ELSE [AddAction(L, k, Step("RPUSH", op.m, None)) EXCEPT !.mem[k][op.m].count = @ + 1]

(* vfdw_ledger_fold_packed: empty the key, then fill it.                   *)
FoldPacked(L, tab, op) ==
  LET verb == CASE tab.type = "list" -> "RPUSH" [] tab.type = "set" -> "SADD"
                [] tab.type = "hash" -> "HSET"
      fill(l, i) == IF tab.type # "hash" THEN AddAction(l, op.key, Step(verb, op.p[i], None))
                    ELSE IF i % 2 = 1 /\ i < Len(op.p)
                         THEN AddAction(l, op.key, Step(verb, op.p[i], op.p[i + 1])) ELSE l
  IN  FoldLeft(fill, AddAction(L, op.key, Step("DEL", None, None)),
               [i \in 1..Len(op.p) |-> i])

-----------------------------------------------------------------------------
(* vfdw_ledger_note, of an operation that is no duplicate.                 *)

WholeKey(tab) == tab.type \in {"string", "hash"} \/ tab.packed


(* vfdw_ledger_fold_key_delete.                                            *)
FoldDelete(L, tab, op) ==
  [FoldKeyset(AddAction(L, op.key, Step("DEL", None, None)), tab, op.key, "KSET_REM", op.key)
     EXCEPT !.plan[op.key].state = "DELETED"]

FoldShape(L, tab, op) ==
  CASE tab.packed -> FoldPacked(L, tab, op)
    [] tab.type = "string" /\ ~tab.packed -> AddAction(L, op.key, Step("SET", op.v, None))
    [] tab.type = "hash" /\ ~tab.packed -> FoldHash(L, tab, op)
    [] tab.type \in {"set", "zset"} /\ ~tab.packed -> FoldMember(L, tab, op)
    [] tab.type = "list" /\ ~tab.packed -> FoldList(L, op)

Note(L, tab, op) ==
  LET first == ~L.plan[op.key].on
      planned == PlanFor(L, op.key, tab.type)
      required == Precondition(planned, op.key, first, op.kind = "INSERT" \/ IsRename(op))
      renamed == FoldRename(required, tab, op)
      shaped == FoldShape(renamed, tab, op)
      indexed == IF op.kind = "INSERT"
                 THEN FoldKeyset(shaped, tab, op.key, "KSET_ADD", op.key) ELSE shaped
      revived == [indexed EXCEPT !.plan[op.key].state = IF @ = "DELETED" THEN "LIVE" ELSE @]
  IN  IF op.kind = "DELETE" /\ WholeKey(tab) THEN FoldDelete(renamed, tab, op) ELSE revived

Duplicate(L, tab, op) == DuplicateKey(L, op) \/ DuplicateSub(L, tab, op)
=============================================================================
