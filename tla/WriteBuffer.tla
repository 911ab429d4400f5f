---------------------------- MODULE WriteBuffer ----------------------------
(***************************************************************************)
(* The deferred write buffer of one backend (vfdw_wbuf.c) and the          *)
(* transaction and subtransaction callbacks that drive it (vfdw_xact.c).   *)
(*                                                                         *)
(* A modify statement binds the transaction to one Valkey unit, appends    *)
(* one operation per row, and nothing reaches the wire before the          *)
(* pre-commit flush.  Operations and the binding carry the nest level they *)
(* were made at, so that an aborting subtransaction can take back exactly  *)
(* what it did.                                                            *)
(*                                                                         *)
(* PostgreSQL's side (nest level, command counter, which statements are    *)
(* running, when an error leaves a subtransaction) is external: it is      *)
(* modelled from how the callbacks use it.                                 *)
(***************************************************************************)
EXTENDS Integers, Sequences

CONSTANTS
  Rels,          \* the foreign tables that are written
  Units,         \* Valkey units: server, user mapping and logical database
  UnitOf,        \* the unit each table belongs to
  Rows,          \* what a buffered row says, beyond the table it is for
  MaxOps,        \* write_max_ops of the bound server
  MaxBytes,      \* write_max_bytes of the bound server
  MaxRowBytes,   \* the largest row, in allocation units
  MaxNest,       \* bound: nest levels
  MaxCid,        \* bound: command ids
  MaxStmts,      \* bound: modify statements running inside one another
  MaxXacts       \* bound: transactions in the backend's life

ASSUME BufferAssumption ==
  /\ UnitOf \in [Rels -> Units]
  /\ MaxOps \in Nat /\ MaxBytes \in Nat /\ MaxRowBytes \in Nat \ {0}
  /\ MaxNest \in Nat \ {0} /\ MaxCid \in Nat /\ MaxStmts \in Nat
  /\ MaxXacts \in Nat

VARIABLES
  nest,      \* GetCurrentTransactionNestLevel(); 0 outside a transaction
  failed,    \* an error was raised and no abort has handled it yet
  stmts,     \* the running modify statements, innermost last
  cid,       \* GetCurrentCommandId()
  ops,       \* the live list, vfdw_wbuf_head to vfdw_wbuf_tail
  unit,      \* vfdw_wbuf_unit
  bytes,     \* what vfdw_wbuf_cxt has allocated over its baseline
  gen,       \* vfdw_wbuf_gen
  shrinkGen, \* vfdw_wbuf_shrink_gen
  ledger,    \* the operations the ledger has folded, in order
  flushed,   \* vfdw_flush_flushed
  xacts,     \* history: transactions begun so far
  marks      \* history: log and binding when each open subtransaction began

buffer == <<ops, unit, bytes, gen, shrinkGen, ledger>>
vars == <<nest, failed, stmts, cid, buffer, flushed, xacts, marks>>

Op == [id: Nat, rel: Rels, row: Rows, level: Nat, cid: Nat]
Stmt == [rel: Rels, level: Nat, cid: Nat]
Unit == [bound: BOOLEAN, id: Units, level: Nat, xact: Nat]
Mark == [log: Seq(Nat), bound: BOOLEAN, id: Units]

(* An operation is its address; addresses are reused only after a reset.   *)
Ids(log) == [i \in 1..Len(log) |-> log[i].id]

(* The types of the buffer, its binding and the marks.                     *)
TypeOK ==
  /\ nest \in Nat /\ failed \in BOOLEAN /\ flushed \in BOOLEAN
  /\ stmts \in Seq(Stmt)
  /\ cid \in Nat /\ bytes \in Nat /\ gen \in Nat /\ shrinkGen \in Nat
  /\ xacts \in Nat
  /\ ops \in Seq(Op)
  /\ unit \in Unit
  /\ ledger \in Seq(Nat)
  /\ marks \in Seq(Mark)

Init ==
  /\ nest = 0 /\ failed = FALSE /\ stmts = <<>> /\ cid = 0
  /\ ops = <<>> /\ bytes = 0 /\ gen = 0 /\ shrinkGen = 0 /\ ledger = <<>>
  /\ \E u \in Units : unit = [bound |-> FALSE, id |-> u, level |-> 0, xact |-> 0]
  /\ flushed = FALSE /\ xacts = 0 /\ marks = <<>>

-----------------------------------------------------------------------------
(* PostgreSQL: transactions, subtransactions, statements and errors.       *)

Live == nest > 0 /\ ~failed /\ ~flushed

Begin ==
  /\ nest = 0 /\ xacts < MaxXacts
  /\ nest' = 1 /\ cid' = 0 /\ xacts' = xacts + 1
  /\ UNCHANGED <<failed, stmts, buffer, flushed, marks>>

(* Between transactions a session may wait, or end.                        *)
Idle == nest = 0 /\ UNCHANGED vars

(* Any error: the executor's, a function's, another extension's.           *)
Raise ==
  /\ nest > 0 /\ ~failed
  /\ failed' = TRUE
  /\ UNCHANGED <<nest, stmts, cid, buffer, flushed, xacts, marks>>

(* SUBXACT_EVENT_START_SUB: nothing to do, operations carry their level.   *)
SubStart ==
  /\ Live /\ nest < MaxNest
  /\ nest' = nest + 1
  /\ marks' = Append(marks, [log |-> Ids(ops), bound |-> unit.bound, id |-> unit.id])
  /\ UNCHANGED <<failed, stmts, cid, buffer, flushed, xacts>>

-----------------------------------------------------------------------------
(* The modify statement and its rows.                                      *)

(* Mutant: the unit already bound is not compared.                         *)
BindAnyUnit(r) ==
  \/ /\ ~unit.bound
     /\ unit' = [bound |-> TRUE, id |-> UnitOf[r], level |-> nest, xact |-> xacts]
  \/ unit.bound /\ UNCHANGED unit

(* vfdw_wbuf_bind, on a free buffer or by the unit that holds it already.  *)
Bind(r) ==
  \/ /\ ~unit.bound
     /\ unit' = [bound |-> TRUE, id |-> UnitOf[r], level |-> nest, xact |-> xacts]
  \/ /\ unit.bound /\ unit.id = UnitOf[r]
     /\ UNCHANGED unit

(* A statement inside another one gets a command id of its own.            *)
NextCid == IF stmts = <<>> THEN cid ELSE cid + 1

BeginModify(r) ==
  /\ Live /\ cid < MaxCid /\ Len(stmts) < MaxStmts
  /\ Bind(r)
  /\ cid' = NextCid
  /\ stmts' = Append(stmts, [rel |-> r, level |-> nest, cid |-> NextCid])
  /\ UNCHANGED <<nest, failed, ops, bytes, gen, shrinkGen, ledger, flushed, xacts, marks>>

(* vfdw_wbuf_bind refusing a second server, mapping or database.           *)
BindRefused(r) ==
  /\ Live /\ cid < MaxCid /\ Len(stmts) < MaxStmts
  /\ unit.bound /\ unit.id # UnitOf[r]
  /\ failed' = TRUE /\ cid' = NextCid
  /\ UNCHANGED <<nest, stmts, buffer, flushed, xacts, marks>>

(* The statement whose turn it is: an outer one waits for its functions.   *)
Running == Live /\ stmts # <<>> /\ stmts[Len(stmts)].level = nest

Top == stmts[Len(stmts)]

(* Mutant: rendering goes on over the byte cap.                            *)
RowRefusedUncapped(size) ==
  /\ Running
  /\ unit.bound /\ bytes' = bytes + size
  /\ failed' = TRUE
  /\ UNCHANGED <<nest, stmts, cid, ops, unit, gen, shrinkGen, ledger, flushed, xacts, marks>>

(* The elog of vfdw_wbuf_op_new, its byte cap, and a row whose rendering   *)
(* raises after size bytes, or that either cap of vfdw_wbuf_append refuses.*)
RowRefused(size) ==
  /\ Running
  /\ \/ (~unit.bound \/ bytes > MaxBytes) /\ UNCHANGED bytes
     \/ unit.bound /\ bytes <= MaxBytes /\ bytes' = bytes + size
  /\ failed' = TRUE
  /\ UNCHANGED <<nest, stmts, cid, ops, unit, gen, shrinkGen, ledger, flushed, xacts, marks>>

(* vfdw_wbuf_op_new's test, and the two of vfdw_wbuf_append.               *)
Admits(size) ==
  /\ unit.bound
  /\ bytes <= MaxBytes
  /\ Len(ops) + 1 <= MaxOps
  /\ bytes + size <= MaxBytes

(* vfdw_wbuf_op_new, the rendering and vfdw_wbuf_append.                   *)
Link(row, size) ==
  /\ Running /\ Admits(size)
  /\ bytes' = bytes + size
  /\ ops' = Append(ops, [id |-> bytes + size, rel |-> Top.rel, row |-> row,
                         level |-> nest, cid |-> cid])
  /\ gen' = gen + 1
  /\ UNCHANGED <<nest, stmts, cid, unit, shrinkGen, flushed, xacts, marks>>

(* Mutant: the row is appended and not noted.                              *)
WriteRowUnnoted(row, size) == Link(row, size) /\ UNCHANGED <<ledger, failed>>

(* vfdw_modify_insert, _update and _delete: append, then vfdw_ledger_note. *)
WriteRow(row, size) ==
  /\ Link(row, size)
  /\ ledger' = Append(ledger, bytes + size)
  /\ UNCHANGED failed

(* vfdw_ledger_note raises (a duplicate) with the operation linked already *)
(* and the fold possibly half done.                                        *)
NoteRaises(row, size) ==
  /\ Link(row, size)
  /\ ledger' \in {ledger, Append(ledger, bytes + size)}
  /\ failed' = TRUE

(* The statement ends and the command counter advances.                    *)
EndModify ==
  /\ Running
  /\ stmts' = SubSeq(stmts, 1, Len(stmts) - 1)
  /\ cid' = cid + 1
  /\ UNCHANGED <<nest, failed, buffer, flushed, xacts, marks>>

-----------------------------------------------------------------------------
(* vfdw_xact_subxact_callback -> vfdw_wbuf_subxact.                        *)

(* What the pop loop leaves: the tail is unlinked while its level is at    *)
(* least the aborting one, so the first n operations survive.              *)
Survives(n) ==
  /\ n > 0 => ops[n].level < nest
  /\ \A i \in n+1..Len(ops) : ops[i].level >= nest

(* Mutant: an empty list always unbinds.                                   *)
RebindWhenEmpty(n) == IF n = 0 THEN [unit EXCEPT !.bound = FALSE] ELSE unit

(* vfdw_wbuf_rebind_after_truncate, n operations being left.               *)
RebindAfterTruncate(n) ==
  IF n = 0 /\ unit.level >= nest THEN [unit EXCEPT !.bound = FALSE] ELSE unit

(* Statements begun at the aborted level are gone with it.                 *)
StmtsBelow(n) ==
  /\ n > 0 => stmts[n].level < nest
  /\ \A i \in n+1..Len(stmts) : stmts[i].level >= nest

SubAbort ==
  /\ nest > 1
  /\ \E n \in 0..Len(ops) :
       /\ Survives(n)
       /\ ops' = SubSeq(ops, 1, n)
       /\ gen' = IF n < Len(ops) THEN gen + 1 ELSE gen
       /\ shrinkGen' = IF n < Len(ops) THEN shrinkGen + 1 ELSE shrinkGen
       /\ unit' = RebindAfterTruncate(n)
       /\ ledger' = Ids(SubSeq(ops, 1, n))
  /\ \E n \in 0..Len(stmts) : StmtsBelow(n) /\ stmts' = SubSeq(stmts, 1, n)
  /\ nest' = nest - 1 /\ failed' = FALSE
  /\ marks' = SubSeq(marks, 1, Len(marks) - 1)
  /\ UNCHANGED <<cid, bytes, flushed, xacts>>

(* Mutant: operations keep the committed child's level.                    *)
Unpromoted(i) == ops[i]

(* The walk of PRE_COMMIT_SUB stops at the first operation below the       *)
(* committing level; it is its parent's work from here on.                 *)
Promoted(i) ==
  IF \A j \in i..Len(ops) : ops[j].level >= nest
  THEN [ops[i] EXCEPT !.level = nest - 1]
  ELSE ops[i]

(* Mutant: the binding keeps the committed child's level.                  *)
UnpromotedUnit == unit

PromotedUnit ==
  IF unit.bound /\ unit.level >= nest THEN [unit EXCEPT !.level = nest - 1] ELSE unit

SubCommit ==
  /\ Live /\ nest > 1
  /\ \A i \in 1..Len(stmts) : stmts[i].level < nest
  /\ ops' = [i \in 1..Len(ops) |-> Promoted(i)]
  /\ unit' = PromotedUnit
  /\ nest' = nest - 1
  /\ marks' = SubSeq(marks, 1, Len(marks) - 1)
  /\ UNCHANGED <<failed, stmts, cid, bytes, gen, shrinkGen, ledger, flushed, xacts>>

-----------------------------------------------------------------------------
(* vfdw_xact_callback.                                                     *)

(* Mutant: the level is reset to none rather than to zero.                 *)
ResetBelowZero ==
  /\ ops' = <<>> /\ bytes' = 0 /\ ledger' = <<>>
  /\ unit' = [unit EXCEPT !.bound = FALSE, !.level = -1]
  /\ gen' = gen + 1 /\ shrinkGen' = shrinkGen + 1
  /\ flushed' = FALSE

(* vfdw_wbuf_reset and vfdw_flush_reset.                                   *)
Reset ==
  /\ ops' = <<>> /\ bytes' = 0 /\ ledger' = <<>>
  /\ unit' = [unit EXCEPT !.bound = FALSE, !.level = 0]
  /\ gen' = gen + 1 /\ shrinkGen' = shrinkGen + 1
  /\ flushed' = FALSE

(* XACT_EVENT_PRE_COMMIT: the flush came back without an error.  A flush   *)
(* that raises is Raise.                                                   *)
PreCommit ==
  /\ Live /\ nest = 1 /\ stmts = <<>>
  /\ flushed' = TRUE
  /\ UNCHANGED <<nest, failed, stmts, cid, buffer, xacts, marks>>

(* XACT_EVENT_COMMIT.                                                      *)
Commit ==
  /\ nest = 1 /\ ~failed /\ flushed
  /\ Reset
  /\ nest' = 0
  /\ UNCHANGED <<failed, stmts, cid, xacts, marks>>

(* XACT_EVENT_ABORT, every open subtransaction having been aborted.        *)
Abort ==
  /\ nest = 1
  /\ Reset
  /\ nest' = 0 /\ failed' = FALSE /\ stmts' = <<>>
  /\ UNCHANGED <<cid, xacts, marks>>

(* XACT_EVENT_PRE_PREPARE and XACT_EVENT_PREPARE: refused when something   *)
(* is buffered, and otherwise nothing is reset.                            *)
PrepareRefused ==
  /\ Live /\ nest = 1 /\ stmts = <<>>
  /\ ops # <<>>
  /\ failed' = TRUE
  /\ UNCHANGED <<nest, stmts, cid, buffer, flushed, xacts, marks>>

Prepare ==
  /\ Live /\ nest = 1 /\ stmts = <<>>
  /\ ops = <<>>
  /\ nest' = 0
  /\ UNCHANGED <<failed, stmts, cid, buffer, flushed, xacts, marks>>

-----------------------------------------------------------------------------
Next ==
  \/ Begin \/ Idle \/ Raise \/ SubStart \/ SubAbort \/ SubCommit
  \/ \E r \in Rels : BeginModify(r) \/ BindRefused(r)
  \/ \E size \in 1..MaxRowBytes :
       \/ RowRefused(size)
       \/ \E row \in Rows : WriteRow(row, size) \/ NoteRaises(row, size)
  \/ EndModify
  \/ PreCommit \/ Commit \/ Abort \/ PrepareRefused \/ Prepare

Spec == Init /\ [][Next]_vars

-----------------------------------------------------------------------------
(* The list is a stack of levels: a later operation is never of a lower    *)
(* level than an earlier one, none is above the current nest level, and    *)
(* none is below the binding it was made under.  vfdw_wbuf_subxact's two   *)
(* backwards walks, which stop at the first lower level, rest on it.       *)
LevelOrder ==
  /\ \A i, j \in 1..Len(ops) : i <= j => ops[i].level <= ops[j].level
  /\ \A i \in 1..Len(ops) : ops[i].level \in unit.level..nest

(* All live operations belong to the one unit the flush will address, and  *)
(* while there is one, the buffer is bound (vfdw_wbuf_bind against         *)
(* vfdw_wbuf_rebind_after_truncate).                                       *)
OneUnit ==
  \A i \in 1..Len(ops) : unit.bound /\ UnitOf[ops[i].rel] = unit.id

(* A running modify statement never loses its binding, whatever            *)
(* subtransactions commit or abort inside the functions it calls before    *)
(* its first row: the elog of vfdw_wbuf_op_new cannot fire.                *)
BoundWhileRunning ==
  \A i \in 1..Len(stmts) : unit.bound /\ unit.id = UnitOf[stmts[i].rel]

(* Outside error handling the ledger has folded exactly the live list, in  *)
(* order: what the flush would send is what the buffer holds, also after a *)
(* fold that raised half way and was caught.                               *)
LedgerInStep == ~failed => ledger = Ids(ops)

(* The buffer's memory stays within write_max_bytes plus the one row in    *)
(* flight, however many rows are refused or rolled back.                   *)
ByteBudget == bytes <= MaxBytes + MaxRowBytes

(* What ROLLBACK TO SAVEPOINT, or a caught error, must put back: the list, *)
(* the ledger and the binding exactly as they stood when the               *)
(* subtransaction began, promotions of inner savepoints notwithstanding.   *)
Restored(m) ==
  /\ Ids(ops') = m.log /\ ledger' = m.log
  /\ unit'.bound = m.bound
  /\ m.bound => unit'.id = m.id

RollbackRestores == [][SubAbort => Restored(marks[Len(marks)])]_vars

(* The binding a statement is tested against was taken by the transaction  *)
(* the statement runs in ("the one Valkey identity a transaction's writes  *)
(* may address").                                                          *)
BindingIsThisTransactions ==
  nest > 0 /\ unit.bound => unit.xact = xacts
=============================================================================
