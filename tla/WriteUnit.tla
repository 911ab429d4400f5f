----------------------------- MODULE WriteUnit -----------------------------
(***************************************************************************)
(* One transaction's writes to one foreign table, from the statements that *)
(* buffer them to the program that applies them: vfdw_modify.c builds the  *)
(* operations from rows its own scan produced, the ledger folds them, and  *)
(* at commit the Lua program checks every plan and then runs every action. *)
(* Other clients may change the keyspace at any time before the program,   *)
(* which the server runs without interleaving.                             *)
(***************************************************************************)
EXTENDS Ledger

CONSTANTS
  Tables,    \* the table definitions to explore
  Given,     \* for each of them, the values, or packed arrays, of its rows
  Stored,    \* and the objects its keys may hold, or be given by another client
  Indexes,   \* objects the keyset key may hold
  Renames,   \* whether UPDATE may change the key column
  MaxOps     \* bound: operations in the transaction

ASSUME UnitAssumption ==
  /\ \A t \in Tables :
       t.keys \subseteq Keys /\ NoObj \in Stored[t] /\ (t.packed \/ Given[t] \subseteq Vals)
  /\ NoObj \in Indexes
  /\ Renames \in BOOLEAN /\ MaxOps \in Nat

VARIABLES
  tab,       \* the foreign table
  db,        \* the keyspace
  log,       \* the live operations of the write buffer
  cur,       \* how many of them are older than the running command
  led,       \* the ledger
  disturbed, \* another client has changed the keyspace since the first write
  before,    \* history: the keyspace the program found
  outcome    \* "open", then what the commit, or the refused row, reported

vars == <<tab, db, log, cur, led, disturbed, before, outcome>>

Mapped == ToSet(tab.fields)
Multi == ~WholeKey(tab)

-----------------------------------------------------------------------------
(* Rows and operations.                                                    *)

NoFields == [s \in Subs |-> None]
Blank == [v |-> None, m |-> None, f |-> NoFields, x |-> {}, p |-> <<>>]

(* What vfdw_render.c makes of a row: every mapped field, NULLs included.  *)
FieldRows == {f \in [Subs -> Given[tab] \union {None}] : \A s \in Subs \ Mapped : f[s] = None}

Payloads ==
  IF tab.packed THEN {[Blank EXCEPT !.p = p] : p \in Given[tab]}
  ELSE CASE tab.type = "string" -> {[Blank EXCEPT !.v = v] : v \in Given[tab]}
         [] tab.type = "hash" -> {[Blank EXCEPT !.f = f, !.x = x] :
                                    f \in FieldRows, x \in SUBSET ToSet(tab.ttls)}
         [] tab.type = "zset" -> {[Blank EXCEPT !.m = m, !.v = v] : m \in Subs, v \in Given[tab]}
         [] OTHER -> {[Blank EXCEPT !.m = m] : m \in Subs}

(* vfdw_val_error_all_fields_null, for INSERT only.                        *)
Insertable(pay) == tab.type = "hash" /\ ~tab.packed => pay.f # NoFields

Op(kind, k, pay, oldk, oldm) ==
  [kind |-> kind, key |-> k, v |-> pay.v, m |-> pay.m, f |-> pay.f, x |-> pay.x,
   p |-> pay.p, oldkey |-> oldk, oldm |-> oldm]

-----------------------------------------------------------------------------
(* What a scan of this transaction shows (vfdw_overlay_check,              *)
(* vfdw_overlay_iter_next and vfdw_scan_one_key): the newest operation the *)
(* command may see, whole key by whole key, and otherwise the server.      *)

OnServer(d, k) == IF tab.keyset THEN Holds(d[Keyset], k) ELSE d[k].t = tab.type

Scanned(d, l, k) ==
  OnServer(d, k) \/ \E i \in 1..Len(l) : l[i].key = k /\ l[i].kind = "INSERT"

RowOf(k, o, m) ==
  [k |-> k, m |-> m,
   v |-> IF tab.type = "string" /\ ~tab.packed THEN o.seq[1]
         ELSE IF tab.type = "zset" THEN o.map[m] ELSE None,
   f |-> IF tab.type = "hash" /\ ~tab.packed
         THEN [s \in Subs |-> IF s \in Mapped THEN o.map[s] ELSE None] ELSE NoFields]

Identities(o) ==
  IF ~Multi THEN {None}
  ELSE {s \in Subs : Holds(o, s) \/ Count(o, s) > 0}

ServerRows(d, k) ==
  IF d[k].t # tab.type THEN {} ELSE {RowOf(k, d[k], m) : m \in Identities(d[k])}

(* Mutant: the oldest operation on the key decides.                        *)
OldestOn(l, k) == l[Min({i \in 1..Len(l) : l[i].key = k})]

NewestOn(l, k) == l[Max({i \in 1..Len(l) : l[i].key = k})]

OverlaidRows(d, l, k) ==
  IF \A i \in 1..Len(l) : l[i].key # k THEN ServerRows(d, k)
  ELSE LET o == NewestOn(l, k)
       IN  IF o.kind = "DELETE" THEN {} ELSE {[k |-> k, m |-> o.m, v |-> o.v, f |-> o.f]}

(* SELECT * of the table.                                                  *)
SelectRows(d, l) == UNION {OverlaidRows(d, l, k) : k \in {j \in tab.keys : Scanned(d, l, j)}}

(* How many rows of one identity the running command's scan returns; a     *)
(* restriction on the key also reaches keys no scan would list.            *)
Shown(k, m) ==
  LET l == SubSeq(log, 1, cur)
      rows == {r \in OverlaidRows(db, l, k) : r.m = m}
  IN  IF rows = {} \/ (tab.keyset /\ ~Scanned(db, l, k)) THEN 0
      ELSE IF tab.type = "list" /\ Multi /\ \A i \in 1..cur : l[i].key # k
           THEN Count(db[k], m) ELSE 1

Processed(k, m) ==
  Cardinality({i \in cur+1..Len(log) :
                 log[i].kind # "INSERT" /\ log[i].oldkey = k /\ log[i].oldm = m})

-----------------------------------------------------------------------------
Init ==
  /\ tab \in Tables
  /\ \E d \in [Keys -> Stored[tab]], ix \in Indexes :
       /\ \A k \in Keys \ tab.keys : d[k] = NoObj
       /\ tab.keyset \/ ix = NoObj
       /\ db = [k \in AllKeys |-> IF k = Keyset THEN ix ELSE d[k]]
  /\ log = <<>> /\ cur = 0 /\ led = EmptyLedger
  /\ disturbed = FALSE /\ before = db /\ outcome = "open"

(* vfdw_modify_insert, _update and _delete end with vfdw_wbuf_append and   *)
(* vfdw_ledger_note; the note of a duplicate raises.                       *)
Write(op) ==
  /\ outcome = "open" /\ Len(log) < MaxOps
  /\ log' = Append(log, op)
  /\ IF Duplicate(led, tab, op)
     THEN outcome' = "DUPLICATE" /\ UNCHANGED led
     ELSE led' = Note(led, tab, op) /\ UNCHANGED outcome
  /\ UNCHANGED <<tab, db, cur, disturbed, before>>

Insert(k, pay) == Insertable(pay) /\ Write(Op("INSERT", k, pay, k, pay.m))

Update(k, m, newk, pay) ==
  /\ tab.type = "list" => tab.packed
  /\ Renames \/ newk = k
  /\ Processed(k, m) < Shown(k, m)
  /\ Write(Op("UPDATE", newk, pay, k, m))

Delete(k, m) ==
  /\ Processed(k, m) < Shown(k, m)
  /\ Write(Op("DELETE", k, [Blank EXCEPT !.m = m], k, m))

(* CommandCounterIncrement: the next statement sees this one's rows.       *)
NextStatement ==
  /\ outcome = "open" /\ cur < Len(log)
  /\ cur' = Len(log)
  /\ UNCHANGED <<tab, db, log, led, disturbed, before, outcome>>

OtherClient(k, o) ==
  /\ outcome = "open" /\ ~disturbed /\ log # <<>> /\ o # db[k]
  /\ db' = [db EXCEPT ![k] = o] /\ disturbed' = TRUE
  /\ UNCHANGED <<tab, log, cur, led, before, outcome>>

-----------------------------------------------------------------------------
(* The write program.                                                      *)

(* TYPE first, then the checks in order: the first that fails answers.     *)
PlanVerdict(d, k) ==
  LET pl == led.plan[k]
      bad == {c \in 1..Len(pl.checks) : Verdict(d, k, pl.checks[c]) # "ok"}
  IN  IF d[k].t \notin {"none", pl.type} THEN "WRONGTYPE"
      ELSE IF bad = {} THEN "ok" ELSE Verdict(d, k, pl.checks[Min(bad)])

(* Mutant: the loop over the plans starts at the second.                   *)
Phase1FromTwo(d) ==
  LET bad == {p \in 2..Len(led.order) : PlanVerdict(d, led.order[p]) # "ok"}
  IN  IF bad = {} THEN "ok" ELSE PlanVerdict(d, led.order[Min(bad)])

Phase1(d) ==
  LET bad == {p \in 1..Len(led.order) : PlanVerdict(d, led.order[p]) # "ok"}
  IN  IF bad = {} THEN "ok" ELSE PlanVerdict(d, led.order[Min(bad)])

RunAction(s, k, a) ==
  IF s.ok /\ Succeeds(s.db, k, a) THEN [s EXCEPT !.db = Effect(s.db, k, a)]
  ELSE [s EXCEPT !.ok = FALSE]

RunPlan(s, k) == FoldLeft(LAMBDA r, a : RunAction(r, k, a), s, led.plan[k].actions)

Phase2(d) == FoldLeft(RunPlan, [ok |-> TRUE, db |-> d], led.order)

Commit ==
  /\ outcome = "open" /\ log # <<>>
  /\ before' = db
  /\ IF Phase1(db) # "ok"
     THEN outcome' = Phase1(db) /\ UNCHANGED db
     ELSE LET end == Phase2(db)
          IN  db' = end.db /\ outcome' = IF end.ok THEN "OK" ELSE "INTERNAL"
  /\ UNCHANGED <<tab, log, cur, led, disturbed>>

(* Afterwards the session waits for the next transaction.                  *)
Idle == outcome # "open" /\ UNCHANGED vars

Next ==
  \/ \E k \in tab.keys :
       \/ \E pay \in Payloads : Insert(k, pay)
       \/ \E m \in Subs \union {None} :
            \/ Delete(k, m)
            \/ \E newk \in tab.keys, pay \in Payloads : Update(k, m, newk, pay)
       \/ \E o \in Stored[tab] : OtherClient(k, o)
  \/ NextStatement \/ Commit \/ Idle

Spec == Init /\ [][Next]_vars

-----------------------------------------------------------------------------
(* The reference: the rows of SQL, applied one after the other.            *)

SqlObject(o, op) ==
  IF op.kind = "DELETE"
  THEN IF ~Multi THEN NoObj
       ELSE IF tab.type = "list" THEN [o EXCEPT !.seq = DropFirst(@, op.m)]
       ELSE [o EXCEPT !.map[op.m] = None]
  ELSE IF tab.packed
  THEN CASE tab.type = "list" -> [NoObj EXCEPT !.t = "list", !.seq = op.p]
         [] tab.type = "set" -> [NoObj EXCEPT !.t = "set", !.map =
              [s \in Content |-> IF s \in ToSet(op.p) THEN Member ELSE None]]
         [] tab.type = "hash" -> [NoObj EXCEPT !.t = "hash", !.map =
              [s \in Content |-> IF op.p # <<>> /\ s = op.p[1] THEN op.p[2] ELSE None]]
  ELSE CASE tab.type = "string" -> Str(op.v)
         [] tab.type = "list" -> [o EXCEPT !.t = "list", !.seq = Append(@, op.m)]
         [] tab.type = "set" -> [o EXCEPT !.t = "set", !.map =
              [@ EXCEPT ![op.oldm] = None, ![op.m] = Member]]
         [] tab.type = "zset" -> [o EXCEPT !.t = "zset", !.map =
              [@ EXCEPT ![op.oldm] = None, ![op.m] = op.v]]
         [] tab.type = "hash" ->
              [o EXCEPT !.t = "hash",
                        !.map = [s \in Content |-> IF s \in Mapped THEN op.f[s] ELSE @[s]],
                        !.exp = (@ \ Mapped) \union {s \in op.x : op.f[s] # None}]

SqlRun(d, l) == FoldLeft(LAMBDA e, op : Put(e, op.key, SqlObject(e[op.key], op)), d, l)

RowIn(d, k, m) == d[k].t = tab.type /\ m \in Identities(d[k])

(* The i-th operation is the first on its key, on its row.                 *)
FirstOnKey(i) == \A j \in 1..i-1 : log[j].key # log[i].key
OpenedByInsert(k) ==
  \E i \in 1..Len(log) : log[i].key = k /\ log[i].kind = "INSERT" /\ FirstOnKey(i)
FirstOnRow(i) ==
  \A j \in 1..i-1 : \/ log[j].key # log[i].key
                    \/ Multi /\ log[i].oldm \notin {log[j].m, log[j].oldm}

(* A row that leaves nothing in its key: emptying a row deletes it.        *)
Emptied(op) ==
  op.kind # "DELETE" /\ tab.type # "string" /\ ~Multi /\ op.f = NoFields /\ op.p = <<>>

(* A row first written by INSERT was absent, one first written by UPDATE   *)
(* or DELETE was there, when the program ran; a list held every element    *)
(* removed from it.  A member of a key this transaction creates is never   *)
(* asked for: one the same command's older snapshot still showed is        *)
(* written without a check.                                                *)
Unconflicted(d) ==
  \A i \in 1..Len(log) :
    LET op == log[i]
        on(kind) == Cardinality({j \in 1..i : /\ log[j].kind = kind
                                              /\ log[j].key = op.key /\ log[j].m = op.m})
    IN  IF tab.type = "list" /\ Multi
        THEN on("DELETE") <= Count(d[op.key], op.m) + on("INSERT")
        ELSE IF op.kind = "INSERT" THEN FirstOnRow(i) => ~RowIn(d, op.key, op.m)
        ELSE FirstOnRow(i) /\ ~OpenedByInsert(op.key) => RowIn(d, op.key, op.oldm)

(* What the fold can honour: an INSERT that opens its key finds none, a    *)
(* hash is inserted only into an absent key and updated only when it has   *)
(* all its mapped fields.                                                  *)
Honoured(d) ==
  \A i \in 1..Len(log) :
    LET op == log[i]
        there == Exists(d, op.key)
    IN  /\ d[op.key].t \in {"none", tab.type}
        /\ op.kind = "INSERT" /\ FirstOnKey(i) => ~there
        /\ tab.type = "hash" /\ ~tab.packed /\ there =>
             /\ op.kind # "INSERT"
             /\ op.kind = "UPDATE" => \A s \in Mapped : Holds(d[op.key], s)

-----------------------------------------------------------------------------
(* The types; the plan list holds exactly the plans there are.             *)
TypeOK ==
  /\ tab \in Tables
  /\ \A k \in AllKeys : db[k].t \in {"none", "string", "hash", "list", "set", "zset"}
  /\ \A k \in AllKeys : Exists(db, k) <=> Kept(db[k]) # NoObj
  /\ cur \in 0..Len(log) /\ Len(log) <= MaxOps
  /\ ToSet(led.order) = {k \in Keys : led.plan[k].on}
  /\ outcome \in {"open", "OK", "CONFLICT", "MISSING", "WRONGTYPE", "INTERNAL", "DUPLICATE"}

(* A transaction that commits has done what its statements say, in order:  *)
(* the plans, grouped by key and stripped of per-row checks, are the same  *)
(* as the rows applied one by one (vfdw_ledger_note, the write program).   *)
AppliedIsSql ==
  outcome = "OK" => \A k \in Keys : db[k] = SqlRun(before, log)[k]

(* No conflict with another client goes unnoticed: whatever changed        *)
(* between the statement and the commit, the program only applies rows     *)
(* whose first touch still holds (the preconditions of vfdw_ledger.h).     *)
NoConflictMissed == outcome = "OK" => Unconflicted(before)

(* The program never stops half way through its actions: the checks of     *)
(* phase 1 are strong enough that no verb of phase 2 can fail.             *)
NeverPartial == outcome # "INTERNAL"

(* A transaction nobody interfered with is not turned away at commit.      *)
NoFalseRefusal ==
  /\ outcome \in {"OK", "CONFLICT", "MISSING", "WRONGTYPE"} /\ ~disturbed
  /\ Unconflicted(before) /\ Honoured(before)
  => outcome = "OK"

(* A duplicate raised while the row is buffered is one: the transaction's  *)
(* own earlier rows left that row in place (vfdw_ledger_check_duplicate,   *)
(* vfdw_refuse_duplicate_member).  Hash rows are excepted.                 *)
DuplicateIsReal ==
  outcome = "DUPLICATE" /\ tab.type # "hash" =>
    LET op == Last(log) IN RowIn(SqlRun(db, Front(log)), op.key, op.m)

(* The rows a SELECT shows at the end of the transaction are the rows it   *)
(* shows once the transaction has committed, rows of NULLs aside.          *)
SameRows(shown, committed) ==
  LET solid(rows) == {r \in rows : r.m # None \/ r.v # None \/ r.f # NoFields}
  IN  solid(shown) = solid(committed)

(* The overlay and the write program agree for one row per key             *)
(* ("what a SELECT sees inside the transaction and what COMMIT applies").  *)
SelectAgreesWithCommit ==
  outcome = "OK" /\ ~Multi /\ ~tab.packed =>
    SameRows(SelectRows(before, log), SelectRows(db, <<>>))


-----------------------------------------------------------------------------
(* Statements of the repository that the code does not keep.               *)

(* "What a SELECT sees inside the transaction and what COMMIT applies      *)
(* cannot disagree" (vfdw_ledger.h), also for one row per member.          *)
SelectAlwaysAgrees ==
  outcome = "OK" => SameRows(SelectRows(before, log), SelectRows(db, <<>>))

(* "A field the statement did not assign is simply not in the array"       *)
(* (INTERNALS.md), so an UPDATE of a row nobody touched finds its fields.  *)
UpdateFindsItsFields ==
  outcome = "MISSING" => disturbed
=============================================================================
