------------------------- MODULE WriteBufferProofs -------------------------
(***************************************************************************)
(* Safety of the write buffer for every set of tables, units and rows, and *)
(* every value of the caps and bounds.                                     *)
(***************************************************************************)
EXTENDS WriteBuffer, SequenceTheorems, TLAPS

(* The binding and the running statements are levels of the same stack.    *)
UnitLevel ==
  unit.bound => unit.level \in 1..(IF nest = 0 THEN 1 ELSE nest)

StmtOrder ==
  /\ \A i, j \in 1..Len(stmts) : i <= j => stmts[i].level <= stmts[j].level
  /\ \A i \in 1..Len(stmts) : stmts[i].level \in unit.level..nest

(* What the mark of the subtransaction at level l + 1 says of the present: *)
(* its log is the part of the list at levels up to l, and it was bound     *)
(* exactly when today's binding is at a level up to l.                     *)
MarkAgrees(l) ==
  LET m == marks[l] IN
  /\ Len(m.log) <= Len(ops)
  /\ \A i \in 1..Len(m.log) : m.log[i] = ops[i].id /\ ops[i].level <= l
  /\ \A i \in Len(m.log)+1..Len(ops) : ops[i].level > l
  /\ m.bound => unit.bound /\ unit.id = m.id /\ unit.level <= l
  /\ ~m.bound => m.log = <<>> /\ (unit.bound => unit.level > l)

MarkDepth ==
  /\ nest = 0 => ops = <<>> /\ stmts = <<>> /\ Len(marks) = 0
  /\ nest > 0 => Len(marks) = nest - 1

(* The flush runs after the last statement.                                *)
FlushIsLast == flushed => stmts = <<>>

(* The inductive invariant.                                                *)
IInv ==
  /\ TypeOK
  /\ LevelOrder /\ OneUnit /\ BoundWhileRunning /\ LedgerInStep /\ ByteBudget
  /\ UnitLevel /\ StmtOrder /\ MarkDepth /\ FlushIsLast
  /\ \A l \in 1..Len(marks) : MarkAgrees(l)

-----------------------------------------------------------------------------
(* Facts about the sequences the buffer is made of.                        *)

(* A prefix of a sequence: its type, its length and its elements.          *)
LEMMA PrefixFacts ==
  ASSUME NEW S, NEW s \in Seq(S), NEW n \in 0..Len(s)
  PROVE  /\ SubSeq(s, 1, n) \in Seq(S)
         /\ Len(SubSeq(s, 1, n)) = n
         /\ \A i \in 1..n : SubSeq(s, 1, n)[i] = s[i]
  BY SubSeqProperties

(* One element more at the end, as an append to any of the lists makes.    *)
LEMMA AppendFacts ==
  ASSUME NEW S, NEW s \in Seq(S), NEW e \in S
  PROVE  /\ Append(s, e) \in Seq(S)
         /\ Len(Append(s, e)) = Len(s) + 1
         /\ \A i \in 1..Len(s) : Append(s, e)[i] = s[i]
         /\ Append(s, e)[Len(s) + 1] = e
  BY AppendProperties

(* A function on 1..n is a sequence of length n.                           *)
LEMMA FunctionIsSeq ==
  ASSUME NEW S, NEW n \in Nat, NEW f \in [1..n -> S]
  PROVE  f \in Seq(S) /\ Len(f) = n
<1>1. f \in Seq(S)
  BY SeqDef
<1> QED
  BY <1>1, LenProperties

(* A buffered operation has the fields its type says.                      *)
LEMMA OpFields ==
  ASSUME NEW s \in Seq(Op), NEW i \in 1..Len(s)
  PROVE  /\ s[i] \in Op
         /\ s[i].id \in Nat /\ s[i].level \in Nat /\ s[i].rel \in Rels
<1>1. s[i] \in Op
  BY ElementOfSeq
<1> QED
  BY <1>1 DEF Op

(* And so has a statement.                                                 *)
LEMMA StmtFields ==
  ASSUME NEW s \in Seq(Stmt), NEW i \in 1..Len(s)
  PROVE  s[i] \in Stmt /\ s[i].level \in Nat /\ s[i].rel \in Rels
<1>1. s[i] \in Stmt
  BY ElementOfSeq
<1> QED
  BY <1>1 DEF Stmt

(* The addresses of a list of operations, element by element.              *)
LEMMA IdsFacts ==
  ASSUME NEW s \in Seq(Op)
  PROVE  /\ Ids(s) \in Seq(Nat)
         /\ Len(Ids(s)) = Len(s)
         /\ \A i \in 1..Len(s) : Ids(s)[i] = s[i].id
<1>1. Len(s) \in Nat
  BY LenProperties
<1>2. \A i \in 1..Len(s) : s[i].id \in Nat
  BY OpFields
<1>3. Ids(s) \in [1..Len(s) -> Nat]
  BY <1>2 DEF Ids
<1>4. Ids(s) \in Seq(Nat) /\ Len(Ids(s)) = Len(s)
  BY <1>1, <1>3, FunctionIsSeq
<1> QED
  BY <1>4 DEF Ids

(* The place after a, when a is below b and b not above c.                 *)
LEMMA NextPlace ==
  ASSUME NEW a \in Nat, NEW b \in Nat, NEW c \in Nat, a < b, b <= c
  PROVE  a + 1 \in 1..b /\ a + 1 \in a+1..c
  OBVIOUS

(* Two sequences with the same elements are equal.                         *)
LEMMA SameSeq ==
  ASSUME NEW S, NEW s \in Seq(S), NEW t \in Seq(S), Len(s) = Len(t),
         \A i \in 1..Len(s) : s[i] = t[i]
  PROVE  s = t
  BY SeqEqual

-----------------------------------------------------------------------------
(* A backend starts with an empty list, no binding and no statement.       *)
LEMMA InitInv == Init => IInv
<1> SUFFICES ASSUME Init PROVE IInv
  OBVIOUS
<1>1. Len(ops) = 0 /\ Len(stmts) = 0 /\ Len(marks) = 0
  BY DEF Init
<1>2. Ids(ops) = <<>>
  BY <1>1 DEF Ids
<1>3. failed \in BOOLEAN /\ flushed \in BOOLEAN
  BY Zenon DEF Init
<1>4. unit \in Unit /\ ~unit.bound
  BY DEF Init, Unit
<1>5. TypeOK
  BY <1>3, <1>4, EmptySeq DEF Init, TypeOK
<1> QED
  BY <1>1, <1>2, <1>4, <1>5, BufferAssumption
  DEF Init, IInv, LevelOrder, OneUnit, BoundWhileRunning, LedgerInStep, ByteBudget,
      UnitLevel, StmtOrder, MarkDepth, FlushIsLast

(* A step that leaves list, binding, statements, levels and marks alone.   *)
LEMMA QuietInv ==
  ASSUME IInv, UNCHANGED <<ops, unit, stmts, nest, marks, ledger>>,
         TypeOK', ByteBudget', failed => failed', FlushIsLast'
  PROVE  IInv'
<1>1. \A l \in 1..Len(marks) : MarkAgrees(l)'
  BY DEF IInv, MarkAgrees
<1>2. LevelOrder' /\ OneUnit' /\ BoundWhileRunning' /\ UnitLevel' /\ StmtOrder' /\ MarkDepth'
  BY DEF IInv, LevelOrder, OneUnit, BoundWhileRunning, UnitLevel, StmtOrder, MarkDepth
<1>3. LedgerInStep'
  BY DEF IInv, LedgerInStep
<1> QED
  BY <1>1, <1>2, <1>3 DEF IInv

(* An error, the decision to flush and the refusals that buffer nothing    *)
(* change no list, binding, statement or mark.                             *)
LEMMA QuietActions ==
  ASSUME IInv,
         \/ Raise \/ Idle \/ PreCommit \/ PrepareRefused
         \/ \E r \in Rels : BindRefused(r)
         \/ \E size \in 1..MaxRowBytes : RowRefused(size)
         \/ UNCHANGED vars
  PROVE  IInv'
<1>1. UNCHANGED <<ops, unit, stmts, nest, marks, ledger, gen, shrinkGen, xacts>>
  BY DEF Raise, Idle, PreCommit, PrepareRefused, BindRefused, RowRefused, vars, buffer
<1>2. failed' \in BOOLEAN /\ flushed' \in BOOLEAN /\ (failed => failed')
  BY Zenon
  DEF IInv, TypeOK, Raise, Idle, PreCommit, PrepareRefused, BindRefused, RowRefused,
      vars, buffer
<1>5. cid' \in Nat
  <2>1. cid \in Nat
    BY DEF IInv, TypeOK
  <2>2. cid' = cid \/ cid' = NextCid
    BY DEF Raise, Idle, PreCommit, PrepareRefused, BindRefused, RowRefused, vars, buffer
  <2> QED
    BY <2>1, <2>2 DEF NextCid
<1>3. bytes' \in Nat /\ bytes' <= MaxBytes + MaxRowBytes
  BY BufferAssumption
  DEF IInv, TypeOK, ByteBudget, Raise, Idle, PreCommit, PrepareRefused, BindRefused,
      RowRefused, vars, buffer
<1>4. TypeOK'
  BY <1>1, <1>2, <1>3, <1>5 DEF IInv, TypeOK
<1>6. FlushIsLast'
  BY <1>1
  DEF IInv, FlushIsLast, Raise, Idle, PreCommit, PrepareRefused, BindRefused, RowRefused,
      vars, buffer
<1> QED
  BY <1>1, <1>2, <1>3, <1>4, <1>6, QuietInv DEF ByteBudget

(* BEGIN, and PREPARE of a transaction that buffered nothing: only the     *)
(* nest level moves, between 0 and 1, over an empty list.                  *)
LEMMA BoundaryInv ==
  ASSUME IInv, Begin \/ Prepare
  PROVE  IInv'
<1>1. UNCHANGED <<ops, unit, stmts, marks, ledger, failed, bytes, gen, shrinkGen, flushed>>
  BY DEF Begin, Prepare, buffer
<1>2. ops = <<>> /\ stmts = <<>> /\ Len(marks) = 0
  BY DEF IInv, MarkDepth, TypeOK, Begin, Prepare
<1>3. nest' \in {0, 1} /\ cid' \in Nat /\ xacts' \in Nat
  BY DEF IInv, TypeOK, Begin, Prepare
<1>4. TypeOK'
  BY <1>1, <1>3 DEF IInv, TypeOK
<1>5. UnitLevel'
  BY <1>1, <1>3 DEF IInv, UnitLevel, Begin, Prepare
<1>6. LedgerInStep' /\ ByteBudget' /\ FlushIsLast'
  BY <1>1 DEF IInv, LedgerInStep, ByteBudget, FlushIsLast
<1>7. LevelOrder' /\ OneUnit' /\ BoundWhileRunning' /\ StmtOrder'
  BY <1>1, <1>2 DEF LevelOrder, OneUnit, BoundWhileRunning, StmtOrder
<1>8. MarkDepth' /\ \A l \in 1..Len(marks') : MarkAgrees(l)'
  BY <1>1, <1>2, <1>3 DEF MarkDepth
<1> QED
  BY <1>4, <1>5, <1>6, <1>7, <1>8 DEF IInv

(* vfdw_wbuf_reset leaves nothing for the next transaction.                *)
LEMMA ResetInv ==
  ASSUME IInv, Commit \/ Abort
  PROVE  IInv'
<1>1. ops' = <<>> /\ ledger' = <<>> /\ bytes' = 0 /\ nest' = 0 /\ Len(marks') = 0
  BY DEF IInv, MarkDepth, TypeOK, Commit, Abort, Reset
<1>2. stmts' = <<>>
  BY DEF IInv, FlushIsLast, Commit, Abort
<1>3. unit' \in Unit /\ ~unit'.bound
  <2>1. unit \in Unit
    BY DEF IInv, TypeOK
  <2>2. unit' = [unit EXCEPT !.bound = FALSE, !.level = 0]
    BY Zenon DEF Commit, Abort, Reset
  <2> QED
    BY <2>1, <2>2 DEF Unit
<1>4. failed' \in BOOLEAN /\ flushed' \in BOOLEAN
  BY Zenon DEF IInv, TypeOK, Commit, Abort, Reset
<1>5. gen' \in Nat /\ shrinkGen' \in Nat /\ UNCHANGED <<cid, xacts, marks>>
  <2>1. gen \in Nat /\ shrinkGen \in Nat
    BY DEF IInv, TypeOK
  <2>2. gen' = gen + 1 /\ shrinkGen' = shrinkGen + 1 /\ UNCHANGED <<cid, xacts, marks>>
    BY Zenon DEF Commit, Abort, Reset
  <2> QED
    BY <2>1, <2>2
<1>6. TypeOK'
  BY <1>1, <1>2, <1>3, <1>4, <1>5, EmptySeq DEF IInv, TypeOK
<1>7. Ids(ops') = <<>>
  BY <1>1 DEF Ids
<1> QED
  BY <1>1, <1>2, <1>3, <1>6, <1>7, BufferAssumption
  DEF IInv, LevelOrder, OneUnit, BoundWhileRunning, LedgerInStep, ByteBudget,
      UnitLevel, StmtOrder, MarkDepth, FlushIsLast

-----------------------------------------------------------------------------
(* Statements.                                                             *)

(* vfdw_wbuf_bind: a statement begins under the binding that is there, or  *)
(* makes one at its own level.                                             *)
LEMMA BeginModifyInv ==
  ASSUME IInv, NEW r \in Rels, BeginModify(r)
  PROVE  IInv'
<1> DEFINE s == [rel |-> r, level |-> nest, cid |-> NextCid]
<1>1. UNCHANGED <<nest, failed, ops, bytes, gen, shrinkGen, ledger, flushed, xacts, marks>>
  BY DEF BeginModify
<1>2. s \in Stmt /\ cid' \in Nat /\ nest > 0 /\ ~flushed /\ nest \in Nat
  BY DEF IInv, TypeOK, Stmt, BeginModify, NextCid, Live
<1>3. /\ stmts' \in Seq(Stmt) /\ Len(stmts') = Len(stmts) + 1 /\ Len(stmts) \in Nat
      /\ \A i \in 1..Len(stmts) : stmts'[i] = stmts[i]
      /\ stmts'[Len(stmts) + 1] = s
  <2>1. stmts \in Seq(Stmt) /\ stmts' = Append(stmts, s)
    BY DEF IInv, TypeOK, BeginModify
  <2> QED
    BY <1>2, <2>1, AppendFacts
<1>4. unit' \in Unit /\ unit'.bound /\ unit'.id = UnitOf[r]
  <2>1. unit \in Unit /\ xacts \in Nat /\ UnitOf[r] \in Units /\ Bind(r)
    BY BufferAssumption DEF IInv, TypeOK, BeginModify
  <2>2. CASE ~unit.bound
    <3>1. unit' = [bound |-> TRUE, id |-> UnitOf[r], level |-> nest, xact |-> xacts]
      BY <2>1, <2>2 DEF Bind
    <3> QED
      BY <2>1, <3>1, <1>2 DEF Unit
  <2>3. CASE unit.bound
    BY <2>1, <2>3 DEF Bind
  <2> QED
    BY <2>2, <2>3
<1>5. /\ ~unit.bound => unit'.level = nest
      /\ unit.bound => unit' = unit
  BY DEF BeginModify, Bind
<1>6. ~unit.bound => Len(ops) = 0 /\ Len(stmts) = 0
  <2>1. Len(ops) \in Nat
    BY LenProperties DEF IInv, TypeOK
  <2>2. OneUnit /\ BoundWhileRunning
    BY DEF IInv
  <2> QED
    BY <1>3, <2>1, <2>2 DEF OneUnit, BoundWhileRunning
<1>7. TypeOK'
  BY <1>1, <1>2, <1>3, <1>4 DEF IInv, TypeOK
<1>8. UnitLevel' /\ LedgerInStep' /\ ByteBudget' /\ FlushIsLast' /\ MarkDepth'
  BY <1>1, <1>2, <1>4, <1>5
  DEF IInv, UnitLevel, LedgerInStep, ByteBudget, FlushIsLast, MarkDepth
<1>9. LevelOrder' /\ OneUnit'
  BY <1>1, <1>4, <1>5, <1>6 DEF IInv, LevelOrder, OneUnit
<1>10. BoundWhileRunning'
  <2>1. \A i \in 1..Len(stmts) : unit.bound /\ unit.id = UnitOf[stmts[i].rel]
    BY DEF IInv, BoundWhileRunning
  <2>2. ASSUME NEW i \in 1..Len(stmts')
        PROVE  unit'.bound /\ unit'.id = UnitOf[stmts'[i].rel]
    <3>1. CASE i = Len(stmts) + 1
      BY <3>1, <1>3, <1>4
    <3>2. CASE i # Len(stmts) + 1
      <4>1. i \in 1..Len(stmts)
        BY <3>2, <1>3
      <4> QED
        BY <4>1, <2>1, <1>3, <1>4, <1>5
    <3> QED
      BY <3>1, <3>2
  <2> QED
    BY <2>2 DEF BoundWhileRunning
<1>11. StmtOrder'
  <2>1. StmtOrder /\ UnitLevel
    BY DEF IInv
  <2>2. \A i \in 1..Len(stmts) : stmts[i].level \in Nat
    BY StmtFields DEF IInv, TypeOK
  <2>3. unit'.level \in Nat /\ unit'.level <= nest
    BY <1>2, <1>4, <1>5, <2>1 DEF Unit, UnitLevel
  <2>4. ASSUME NEW i \in 1..Len(stmts')
        PROVE  stmts'[i].level \in unit'.level..nest'
    <3>1. CASE i = Len(stmts) + 1
      BY <3>1, <1>1, <1>2, <1>3, <2>3
    <3>2. CASE i # Len(stmts) + 1
      <4>1. i \in 1..Len(stmts)
        BY <3>2, <1>3
      <4>2. unit' = unit
        BY <4>1, <1>3, <1>5, <1>6
      <4> QED
        BY <4>1, <4>2, <2>1, <1>1, <1>3 DEF StmtOrder
    <3> QED
      BY <3>1, <3>2
  <2>5. ASSUME NEW i \in 1..Len(stmts'), NEW j \in 1..Len(stmts'), i <= j
        PROVE  stmts'[i].level <= stmts'[j].level
    <3>1. CASE j = Len(stmts) + 1
      BY <3>1, <1>1, <1>2, <1>3, <2>3, <2>4
    <3>2. CASE j # Len(stmts) + 1
      <4>1. i \in 1..Len(stmts) /\ j \in 1..Len(stmts)
        BY <3>2, <2>5, <1>3
      <4> QED
        BY <4>1, <2>1, <2>5, <1>3 DEF StmtOrder
    <3> QED
      BY <3>1, <3>2
  <2> QED
    BY <2>4, <2>5 DEF StmtOrder
<1>12. \A l \in 1..Len(marks') : MarkAgrees(l)'
  <2>1. ASSUME NEW l \in 1..Len(marks)
        PROVE  MarkAgrees(l)'
    <3>1. MarkAgrees(l) /\ l < nest
      BY <1>2 DEF IInv, MarkDepth
    <3>2. unit.bound \/ ~marks[l].bound
      BY <3>1 DEF MarkAgrees
    <3> QED
      BY <3>1, <3>2, <1>1, <1>2, <1>4, <1>5 DEF MarkAgrees
  <2> QED
    BY <2>1, <1>1
<1> QED
  BY <1>7, <1>8, <1>9, <1>10, <1>11, <1>12 DEF IInv

(* A statement that ends leaves list and binding to the transaction.       *)
LEMMA EndModifyInv ==
  ASSUME IInv, EndModify
  PROVE  IInv'
<1>1. UNCHANGED <<nest, failed, ops, unit, bytes, gen, shrinkGen, ledger, flushed, xacts, marks>>
  BY DEF EndModify, buffer
<1>2. Len(stmts) \in Nat /\ stmts \in Seq(Stmt) /\ stmts # <<>> /\ cid' \in Nat
  BY LenProperties DEF IInv, TypeOK, EndModify, Running
<1>3. Len(stmts) - 1 \in 0..Len(stmts)
  BY <1>2, EmptySeq
<1>4. /\ stmts' \in Seq(Stmt) /\ Len(stmts') = Len(stmts) - 1
      /\ \A i \in 1..Len(stmts') : stmts'[i] = stmts[i]
  BY <1>2, <1>3, PrefixFacts DEF EndModify
<1>5. TypeOK'
  BY <1>1, <1>2, <1>4 DEF IInv, TypeOK
<1>6. BoundWhileRunning' /\ StmtOrder'
  <2>1. BoundWhileRunning /\ StmtOrder
    BY DEF IInv
  <2>2. ASSUME NEW i \in 1..Len(stmts')
        PROVE  i \in 1..Len(stmts) /\ stmts'[i] = stmts[i]
    BY <1>2, <1>4
  <2> QED
    BY <1>1, <2>1, <2>2 DEF BoundWhileRunning, StmtOrder
<1>7. LevelOrder' /\ OneUnit' /\ UnitLevel' /\ LedgerInStep' /\ ByteBudget'
  BY <1>1 DEF IInv, LevelOrder, OneUnit, UnitLevel, LedgerInStep, ByteBudget
<1>8. FlushIsLast' /\ MarkDepth'
  BY <1>1 DEF IInv, TypeOK, FlushIsLast, MarkDepth, EndModify, Running, Live
<1>9. \A l \in 1..Len(marks') : MarkAgrees(l)'
  BY <1>1 DEF IInv, MarkAgrees
<1> QED
  BY <1>5, <1>6, <1>7, <1>8, <1>9 DEF IInv

(* One operation more at the current nest level, which is the highest      *)
(* level there is, under the binding of the running statement.             *)
LEMMA LinkInv ==
  ASSUME IInv, NEW row \in Rows, NEW size \in 1..MaxRowBytes, Link(row, size),
         ledger' \in Seq(Nat), failed' \in BOOLEAN,
         ~failed' => ~failed /\ ledger' = Append(ledger, bytes + size)
  PROVE  IInv'
<1> DEFINE e == [id |-> bytes + size, rel |-> Top.rel, row |-> row,
                 level |-> nest, cid |-> cid]
<1>1. UNCHANGED <<nest, stmts, cid, unit, shrinkGen, flushed, xacts, marks>>
  BY DEF Link
<1>2. TypeOK /\ LevelOrder /\ OneUnit /\ BoundWhileRunning /\ LedgerInStep /\ UnitLevel
      /\ StmtOrder /\ MarkDepth /\ FlushIsLast /\ \A l \in 1..Len(marks) : MarkAgrees(l)
  BY DEF IInv
<1>3. nest \in Nat /\ nest > 0 /\ bytes \in Nat /\ size \in Nat /\ cid \in Nat /\ gen \in Nat
  BY <1>2, BufferAssumption DEF TypeOK, Link, Running, Live
<1>4. unit.bound /\ bytes + size <= MaxBytes
  BY DEF Link, Admits
<1>5. Len(stmts) \in 1..Len(stmts) /\ Top \in Stmt /\ Top.rel \in Rels /\ UnitOf[Top.rel] = unit.id
  <2>1. stmts # <<>> /\ stmts \in Seq(Stmt)
    BY <1>2 DEF TypeOK, Link, Running
  <2>2. Len(stmts) \in 1..Len(stmts)
    BY <2>1, EmptySeq
  <2> QED
    BY <1>2, <2>1, <2>2, StmtFields DEF Top, BoundWhileRunning
<1>6. e \in Op
  BY <1>3, <1>5 DEF Op
<1>7. /\ ops \in Seq(Op) /\ Len(ops) \in Nat
      /\ ops' \in Seq(Op) /\ Len(ops') = Len(ops) + 1
      /\ \A i \in 1..Len(ops) : ops'[i] = ops[i]
      /\ ops'[Len(ops) + 1] = e
  <2>1. ops \in Seq(Op) /\ ops' = Append(ops, e)
    BY <1>2 DEF TypeOK, Link
  <2> QED
    BY <1>6, <2>1, AppendFacts, LenProperties
<1>8. bytes' = bytes + size /\ gen' = gen + 1
  BY DEF Link
<1>9. TypeOK'
  BY <1>1, <1>2, <1>3, <1>7, <1>8 DEF TypeOK
<1>10. ByteBudget' /\ UnitLevel' /\ BoundWhileRunning' /\ StmtOrder' /\ FlushIsLast' /\ MarkDepth'
  BY <1>1, <1>2, <1>3, <1>4, <1>8, BufferAssumption
  DEF ByteBudget, UnitLevel, BoundWhileRunning, StmtOrder, FlushIsLast, MarkDepth
<1>11. ASSUME NEW i \in 1..Len(ops')
       PROVE  \/ i = Len(ops) + 1 /\ ops'[i] = e
              \/ i \in 1..Len(ops) /\ ops'[i] = ops[i]
  BY <1>7
<1>12. OneUnit'
  BY <1>1, <1>2, <1>4, <1>5, <1>11 DEF OneUnit
<1>13. LevelOrder'
  <2>1. \A i \in 1..Len(ops) : ops[i].level \in unit.level..nest
    BY <1>2 DEF LevelOrder
  <2>2. unit.level \in Nat /\ unit.level <= nest
    BY <1>2, <1>3, <1>4 DEF TypeOK, Unit, UnitLevel
  <2>3. ASSUME NEW i \in 1..Len(ops')
        PROVE  ops'[i].level \in unit'.level..nest'
    <3>1. CASE i = Len(ops) + 1
      <4>1. ops'[i].level = nest
        BY <3>1, <1>7
      <4> QED
        BY <4>1, <1>1, <1>3, <2>2
    <3>2. CASE i # Len(ops) + 1
      BY <3>2, <1>1, <1>11, <2>1
    <3> QED
      BY <3>1, <3>2
  <2>4. ASSUME NEW i \in 1..Len(ops'), NEW j \in 1..Len(ops'), i <= j
        PROVE  ops'[i].level <= ops'[j].level
    <3>1. CASE j = Len(ops) + 1
      <4>1. ops'[j].level = nest
        BY <3>1, <1>7
      <4>2. ops'[i].level <= nest
        BY <1>1, <1>3, <2>2, <2>3
      <4> QED
        BY <4>1, <4>2
    <3>2. CASE j # Len(ops) + 1
      <4>1. i \in 1..Len(ops) /\ j \in 1..Len(ops)
        BY <3>2, <2>4, <1>7
      <4> QED
        BY <4>1, <2>4, <1>2, <1>7 DEF LevelOrder
    <3> QED
      BY <3>1, <3>2
  <2> QED
    BY <2>3, <2>4 DEF LevelOrder
<1>14. LedgerInStep'
  <2> SUFFICES ASSUME ~failed' PROVE ledger' = Ids(ops')
    BY DEF LedgerInStep
  <2>1. ledger = Ids(ops) /\ ledger' = Append(ledger, bytes + size)
    BY <1>2 DEF LedgerInStep
  <2>2. /\ ledger \in Seq(Nat) /\ Len(ledger) = Len(ops)
        /\ \A i \in 1..Len(ops) : ledger[i] = ops[i].id
    BY <1>7, <2>1, IdsFacts
  <2>3. /\ Len(ledger') = Len(ops) + 1
        /\ \A i \in 1..Len(ops) : ledger'[i] = ops[i].id
        /\ ledger'[Len(ops) + 1] = bytes + size
    BY <1>3, <2>1, <2>2, AppendFacts
  <2>4. /\ Ids(ops') \in Seq(Nat) /\ Len(Ids(ops')) = Len(ops')
        /\ \A i \in 1..Len(ops') : Ids(ops')[i] = ops'[i].id
    BY <1>7, IdsFacts
  <2>5. ASSUME NEW i \in 1..Len(ledger')
        PROVE  ledger'[i] = Ids(ops')[i]
    <3>1. i \in 1..Len(ops') /\ Ids(ops')[i] = ops'[i].id
      BY <1>7, <2>3, <2>4
    <3>2. CASE i = Len(ops) + 1
      BY <3>1, <3>2, <1>7, <2>3
    <3>3. CASE i # Len(ops) + 1
      BY <3>1, <3>3, <1>11, <2>3
    <3> QED
      BY <3>2, <3>3
  <2> QED
    BY <1>7, <2>3, <2>4, <2>5, SameSeq
<1>15. \A l \in 1..Len(marks') : MarkAgrees(l)'
  <2>1. ASSUME NEW l \in 1..Len(marks)
        PROVE  MarkAgrees(l)'
    <3> DEFINE m == marks[l]
    <3>1. MarkAgrees(l) /\ l < nest /\ m.log \in Seq(Nat) /\ Len(m.log) \in Nat
      <4>1. m \in Mark
        BY <1>2, ElementOfSeq DEF TypeOK
      <4> QED
        BY <4>1, <1>2, <1>3, LenProperties DEF MarkDepth, Mark
    <3>2. Len(m.log) <= Len(ops')
      BY <3>1, <1>7 DEF MarkAgrees
    <3>3. ASSUME NEW i \in 1..Len(m.log)
          PROVE  m.log[i] = ops'[i].id /\ ops'[i].level <= l
      <4>1. i \in 1..Len(ops) /\ m.log[i] = ops[i].id /\ ops[i].level <= l
        BY <3>1, <1>7 DEF MarkAgrees
      <4> QED
        BY <4>1, <1>7
    <3>4. ASSUME NEW i \in Len(m.log)+1..Len(ops')
          PROVE  ops'[i].level > l
      <4>1. CASE i = Len(ops) + 1
        BY <4>1, <3>1, <1>3, <1>7
      <4>2. CASE i # Len(ops) + 1
        <5>1. i \in Len(m.log)+1..Len(ops) /\ i \in 1..Len(ops)
          BY <4>2, <3>1, <1>7
        <5> QED
          BY <5>1, <3>1, <1>7 DEF MarkAgrees
      <4> QED
        BY <4>1, <4>2
    <3> QED
      BY <3>1, <3>2, <3>3, <3>4, <1>1 DEF MarkAgrees
  <2> QED
    BY <2>1, <1>1
<1> QED
  BY <1>9, <1>10, <1>12, <1>13, <1>14, <1>15 DEF IInv

(* A row that is written, and one whose ledger note raises, after which    *)
(* nothing but an abort can follow.                                        *)
LEMMA WriteInv ==
  ASSUME IInv, NEW row \in Rows, NEW size \in 1..MaxRowBytes,
         WriteRow(row, size) \/ NoteRaises(row, size)
  PROVE  IInv'
<1>1. ledger \in Seq(Nat) /\ bytes + size \in Nat
  BY BufferAssumption DEF IInv, TypeOK
<1>2. Append(ledger, bytes + size) \in Seq(Nat)
  BY <1>1, AppendFacts
<1>3. Link(row, size) /\ ledger' \in Seq(Nat)
  BY <1>1, <1>2 DEF WriteRow, NoteRaises
<1>4. failed' \in BOOLEAN
  BY Zenon DEF WriteRow, NoteRaises, IInv, TypeOK
<1>5. ~failed' => ~failed /\ ledger' = Append(ledger, bytes + size)
  BY Zenon DEF WriteRow, NoteRaises
<1> QED
  BY <1>3, <1>4, <1>5, LinkInv

-----------------------------------------------------------------------------
(* Subtransactions.                                                        *)

(* The mark of an open subtransaction, with its type.                      *)
LEMMA MarkFields ==
  ASSUME IInv, NEW l \in 1..Len(marks)
  PROVE  /\ marks[l] \in Mark /\ marks[l].log \in Seq(Nat) /\ Len(marks[l].log) \in Nat
         /\ marks[l].bound \in BOOLEAN
         /\ l \in Nat /\ nest \in Nat /\ nest > 0 /\ Len(marks) = nest - 1
         /\ MarkAgrees(l)
<1>1. marks[l] \in Mark
  BY ElementOfSeq DEF IInv, TypeOK
<1>2. marks[l].log \in Seq(Nat) /\ marks[l].bound \in BOOLEAN
  BY <1>1 DEF Mark
<1>3. nest \in Nat /\ Len(marks) \in Nat /\ MarkDepth /\ MarkAgrees(l)
  BY LenProperties DEF IInv, TypeOK
<1> QED
  BY <1>1, <1>2, <1>3, LenProperties DEF MarkDepth

(* A savepoint marks what its rollback has to bring back.                  *)
LEMMA SubStartInv ==
  ASSUME IInv, SubStart
  PROVE  IInv'
<1> DEFINE m == [log |-> Ids(ops), bound |-> unit.bound, id |-> unit.id]
<1>1. UNCHANGED <<failed, stmts, cid, ops, unit, bytes, gen, shrinkGen, ledger, flushed, xacts>>
  BY DEF SubStart, buffer
<1>2. TypeOK /\ LevelOrder /\ OneUnit /\ BoundWhileRunning /\ LedgerInStep /\ ByteBudget
      /\ UnitLevel /\ StmtOrder /\ MarkDepth /\ FlushIsLast
  BY DEF IInv
<1>3. nest \in Nat /\ nest > 0 /\ nest' = nest + 1 /\ Len(marks) = nest - 1
  BY <1>2 DEF TypeOK, SubStart, Live, MarkDepth
<1>4. /\ ops \in Seq(Op) /\ Len(ops) \in Nat
      /\ Ids(ops) \in Seq(Nat) /\ Len(Ids(ops)) = Len(ops)
      /\ \A i \in 1..Len(ops) : Ids(ops)[i] = ops[i].id
  BY <1>2, LenProperties, IdsFacts DEF TypeOK
<1>5. m \in Mark
  <2>1. unit.bound \in BOOLEAN /\ unit.id \in Units
    BY <1>2 DEF TypeOK, Unit
  <2> QED
    BY <1>4, <2>1 DEF Mark
<1>6. /\ marks' \in Seq(Mark) /\ Len(marks') = nest
      /\ \A l \in 1..Len(marks) : marks'[l] = marks[l]
      /\ marks'[nest] = m
  <2>1. marks \in Seq(Mark) /\ marks' = Append(marks, m)
    BY <1>2 DEF TypeOK, SubStart
  <2> QED
    BY <1>3, <1>5, <2>1, AppendFacts
<1>7. TypeOK'
  BY <1>1, <1>2, <1>3, <1>6 DEF TypeOK
<1>8. \A i \in 1..Len(ops) : ops[i].level \in Nat
  BY <1>4, OpFields
<1>9. LevelOrder'
  BY <1>1, <1>2, <1>3, <1>8 DEF LevelOrder
<1>10. StmtOrder'
  BY <1>1, <1>2, <1>3 DEF StmtOrder
<1>11. OneUnit' /\ BoundWhileRunning' /\ LedgerInStep' /\ ByteBudget' /\ FlushIsLast'
  BY <1>1, <1>2 DEF OneUnit, BoundWhileRunning, LedgerInStep, ByteBudget, FlushIsLast
<1>12. UnitLevel' /\ MarkDepth'
  BY <1>1, <1>2, <1>3, <1>6 DEF UnitLevel, MarkDepth
<1>13. ASSUME NEW l \in 1..Len(marks')
       PROVE  MarkAgrees(l)'
  <2>1. CASE l = nest
    <3>1. \A i \in 1..Len(ops) : ops[i].level <= l
      BY <2>1, <1>2, <1>3, <1>8 DEF LevelOrder
    <3>2. unit.bound => unit.level <= l
      BY <2>1, <1>2, <1>3 DEF UnitLevel
    <3>3. ~unit.bound => Len(ops) = 0
      BY <1>2, <1>4 DEF OneUnit
    <3>4. ~unit.bound => Ids(ops) = <<>>
      BY <1>4, <3>3, EmptySeq
    <3> QED
      BY <2>1, <3>1, <3>2, <3>4, <1>1, <1>4, <1>6 DEF MarkAgrees
  <2>2. CASE l # nest
    <3>1. l \in 1..Len(marks)
      BY <2>2, <1>3, <1>6
    <3> QED
      BY <3>1, <1>1, <1>6, MarkFields DEF MarkAgrees
  <2> QED
    BY <2>1, <2>2
<1> QED
  BY <1>7, <1>9, <1>10, <1>11, <1>12, <1>13 DEF IInv

(* The pop loop stops exactly at the length the list had when the          *)
(* aborting subtransaction began.                                          *)
LEMMA SurvivorsAreTheMark ==
  ASSUME IInv, nest > 1, NEW n \in 0..Len(ops), Survives(n)
  PROVE  n = Len(marks[nest - 1].log)
<1> DEFINE k == Len(marks[nest - 1].log)
<1>1. nest \in Nat /\ Len(ops) \in Nat
  BY LenProperties DEF IInv, TypeOK
<1>2. nest - 1 \in 1..Len(marks)
  BY <1>1 DEF IInv, MarkDepth
<1>3. k \in Nat /\ MarkAgrees(nest - 1)
  BY <1>2, MarkFields
<1>4. /\ k <= Len(ops)
      /\ \A i \in 1..k : ops[i].level <= nest - 1
      /\ \A i \in k+1..Len(ops) : ops[i].level > nest - 1
  BY <1>3 DEF MarkAgrees
<1>5. \A i \in 1..Len(ops) : ops[i].level \in Nat
  BY OpFields DEF IInv, TypeOK
<1>6. ~(n > k)
  <2> SUFFICES ASSUME n > k PROVE FALSE
    OBVIOUS
  <2>1. ops[n].level < nest
    BY <1>3 DEF Survives
  <2>2. ops[n].level > nest - 1 /\ ops[n].level \in Nat
    BY <1>3, <1>4, <1>5
  <2> QED
    BY <1>1, <2>1, <2>2
<1>7. ~(n < k)
  <2> SUFFICES ASSUME n < k PROVE FALSE
    OBVIOUS
  <2>1. ops[n + 1].level >= nest
    BY <1>1, <1>3, <1>4 DEF Survives
  <2>2. ops[n + 1].level <= nest - 1 /\ ops[n + 1].level \in Nat
    BY <1>1, <1>3, <1>4, <1>5
  <2> QED
    BY <1>1, <2>1, <2>2
<1> QED
  BY <1>3, <1>6, <1>7

(* What an abort leaves, in terms of the mark of the aborted level.        *)
LEMMA AbortShape ==
  ASSUME IInv, SubAbort
  PROVE  LET m == marks[nest - 1]
             n == Len(m.log)
         IN  /\ n \in 0..Len(ops)
             /\ ops' \in Seq(Op) /\ Len(ops') = n
             /\ \A i \in 1..n : ops'[i] = ops[i]
             /\ ledger' = Ids(ops')
             /\ unit' = RebindAfterTruncate(n)
             /\ gen' \in Nat /\ shrinkGen' \in Nat
<1> DEFINE m == marks[nest - 1]
           k == Len(m.log)
<1>1. PICK n \in 0..Len(ops) :
        /\ Survives(n)
        /\ ops' = SubSeq(ops, 1, n)
        /\ gen' = IF n < Len(ops) THEN gen + 1 ELSE gen
        /\ shrinkGen' = IF n < Len(ops) THEN shrinkGen + 1 ELSE shrinkGen
        /\ unit' = RebindAfterTruncate(n)
        /\ ledger' = Ids(SubSeq(ops, 1, n))
  BY DEF SubAbort
<1>2. n = k
  BY <1>1, SurvivorsAreTheMark DEF SubAbort
<1>3. ops \in Seq(Op) /\ gen \in Nat /\ shrinkGen \in Nat
  BY DEF IInv, TypeOK
<1>4. ops' \in Seq(Op) /\ Len(ops') = n /\ \A i \in 1..n : ops'[i] = ops[i]
  BY <1>1, <1>3, PrefixFacts
<1>5. gen' \in Nat /\ shrinkGen' \in Nat
  BY <1>1, <1>3
<1>6. ledger' = Ids(ops')
  BY <1>1
<1> QED
  BY <1>1, <1>2, <1>4, <1>5, <1>6

(* The binding after the abort is the one of the mark.                     *)
LEMMA AbortUnit ==
  ASSUME IInv, SubAbort
  PROVE  LET m == marks[nest - 1]
         IN  /\ unit' \in Unit /\ unit'.id = unit.id /\ unit'.level = unit.level
             /\ unit.level < nest => unit' = unit
             /\ unit'.bound => unit.bound
             /\ m.bound => unit' = unit /\ unit.bound /\ unit.id = m.id /\ unit.level < nest
             /\ ~m.bound => ~unit'.bound
<1> DEFINE m == marks[nest - 1]
           n == Len(m.log)
<1>1. unit' = RebindAfterTruncate(n)
  BY AbortShape
<1>2. unit \in Unit /\ unit.level \in Nat /\ nest \in Nat /\ nest > 1
  BY DEF IInv, TypeOK, Unit, SubAbort
<1>3. unit' \in Unit /\ unit'.id = unit.id /\ unit'.level = unit.level
  BY <1>1, <1>2 DEF RebindAfterTruncate, Unit
<1>4. unit.level < nest => unit' = unit
  BY <1>1, <1>2 DEF RebindAfterTruncate
<1>5. unit'.bound => unit.bound
  BY <1>1, <1>2 DEF RebindAfterTruncate, Unit
<1>6. nest - 1 \in 1..Len(marks)
  BY <1>2 DEF IInv, MarkDepth
<1>7. MarkAgrees(nest - 1)
  BY <1>6, MarkFields
<1>8. m.bound => unit' = unit /\ unit.bound /\ unit.id = m.id /\ unit.level < nest
  BY <1>2, <1>4, <1>7 DEF MarkAgrees
<1>9. ASSUME ~m.bound PROVE ~unit'.bound
  <2>1. n = 0 /\ (unit.bound => unit.level > nest - 1)
    BY <1>7, <1>9 DEF MarkAgrees
  <2>2. CASE unit.bound
    <3>1. unit' = [unit EXCEPT !.bound = FALSE]
      BY <2>1, <2>2, <1>1, <1>2 DEF RebindAfterTruncate
    <3> QED
      BY <3>1, <1>2 DEF Unit
  <2>3. CASE ~unit.bound
    BY <2>3, <1>5
  <2> QED
    BY <2>2, <2>3
<1> QED
  BY <1>3, <1>4, <1>5, <1>8, <1>9

(* List, ledger and binding after the abort are those of the mark.         *)
LEMMA AbortRestores ==
  ASSUME IInv, SubAbort
  PROVE  Restored(marks[Len(marks)])
<1> DEFINE m == marks[nest - 1]
<1>1. nest \in Nat /\ nest > 1 /\ Len(marks) = nest - 1 /\ nest - 1 \in 1..Len(marks)
  BY DEF IInv, TypeOK, MarkDepth, SubAbort
<1>2. m.log \in Seq(Nat) /\ Len(m.log) \in Nat /\ MarkAgrees(nest - 1) /\ m.bound \in BOOLEAN
  BY <1>1, MarkFields
<1>3. /\ ops' \in Seq(Op) /\ Len(ops') = Len(m.log) /\ ledger' = Ids(ops')
      /\ \A i \in 1..Len(m.log) : ops'[i] = ops[i]
  BY AbortShape
<1>4. /\ Ids(ops') \in Seq(Nat) /\ Len(Ids(ops')) = Len(m.log)
      /\ \A i \in 1..Len(m.log) : Ids(ops')[i] = ops'[i].id
  BY <1>3, IdsFacts
<1>5. \A i \in 1..Len(m.log) : Ids(ops')[i] = m.log[i]
  BY <1>2, <1>3, <1>4 DEF MarkAgrees
<1>6. Ids(ops') = m.log
  BY <1>2, <1>4, <1>5, SameSeq
<1>7. unit'.bound \in BOOLEAN
  BY AbortUnit DEF Unit
<1>8. unit'.bound = m.bound
  BY <1>2, <1>7, AbortUnit
<1>9. m.bound => unit'.id = m.id
  BY AbortUnit
<1> QED
  BY <1>1, <1>3, <1>6, <1>8, <1>9 DEF Restored

(* vfdw_wbuf_subxact at ABORT_SUB keeps the invariant.                     *)
LEMMA SubAbortInv ==
  ASSUME IInv, SubAbort
  PROVE  IInv'
<1> DEFINE m == marks[nest - 1]
           n == Len(m.log)
<1>1. UNCHANGED <<cid, bytes, flushed, xacts>> /\ nest' = nest - 1 /\ failed' = FALSE
  BY DEF SubAbort
<1>2. TypeOK /\ LevelOrder /\ OneUnit /\ BoundWhileRunning /\ LedgerInStep /\ ByteBudget
      /\ UnitLevel /\ StmtOrder /\ MarkDepth /\ FlushIsLast
  BY DEF IInv
<1>3. nest \in Nat /\ nest > 1 /\ Len(marks) = nest - 1 /\ nest - 1 \in 1..Len(marks)
  BY <1>2 DEF TypeOK, MarkDepth, SubAbort
<1>4. n \in Nat /\ MarkAgrees(nest - 1)
  BY <1>3, MarkFields
<1>5. /\ n \in 0..Len(ops) /\ Len(ops) \in Nat
      /\ ops' \in Seq(Op) /\ Len(ops') = n /\ \A i \in 1..n : ops'[i] = ops[i]
      /\ ledger' = Ids(ops') /\ gen' \in Nat /\ shrinkGen' \in Nat
  BY AbortShape, LenProperties, <1>2 DEF TypeOK
<1>6. /\ unit' \in Unit /\ unit'.id = unit.id /\ unit'.level = unit.level
      /\ unit.level \in Nat
      /\ unit.level < nest => unit' = unit
      /\ unit'.bound => unit.bound
      /\ unit'.bound => m.bound
      /\ m.bound => unit.level < nest
  BY AbortUnit, <1>2 DEF TypeOK, Unit
<1>7. PICK k \in 0..Len(stmts) : StmtsBelow(k) /\ stmts' = SubSeq(stmts, 1, k)
  BY DEF SubAbort
<1>8. /\ stmts \in Seq(Stmt) /\ Len(stmts) \in Nat
      /\ stmts' \in Seq(Stmt) /\ Len(stmts') = k /\ \A i \in 1..k : stmts'[i] = stmts[i]
  BY <1>2, <1>7, PrefixFacts, LenProperties DEF TypeOK
<1>9. /\ marks' \in Seq(Mark) /\ Len(marks') = nest - 2
      /\ \A l \in 1..nest - 2 : marks'[l] = marks[l]
  <2>1. marks \in Seq(Mark) /\ marks' = SubSeq(marks, 1, Len(marks) - 1)
    BY <1>2 DEF TypeOK, SubAbort
  <2>2. Len(marks) - 1 \in 0..Len(marks) /\ Len(marks) - 1 = nest - 2
    BY <1>3
  <2> QED
    BY <2>1, <2>2, PrefixFacts
<1>10. TypeOK'
  <2>1. ledger' \in Seq(Nat)
    BY <1>5, IdsFacts
  <2>2. failed' \in BOOLEAN
    BY <1>1, Zenon
  <2>3. nest' \in Nat
    BY <1>1, <1>3
  <2> QED
    BY <1>1, <1>2, <1>5, <1>6, <1>8, <1>9, <2>1, <2>2, <2>3 DEF TypeOK
<1>11. ASSUME NEW i \in 1..k
       PROVE  /\ stmts[i].level \in Nat /\ stmts[i].level < nest /\ i \in 1..Len(stmts)
              /\ stmts[i].level >= unit.level
  <2>1. i \in 1..Len(stmts) /\ k \in 1..Len(stmts) /\ i <= k
    BY <1>7, <1>8
  <2>2. stmts[i].level \in Nat /\ stmts[k].level \in Nat
    BY <2>1, <1>8, StmtFields
  <2>3. stmts[k].level < nest
    BY <2>1, <1>7 DEF StmtsBelow
  <2>4. stmts[i].level <= stmts[k].level /\ stmts[i].level >= unit.level
    BY <2>1, <2>2, <1>2, <1>6 DEF StmtOrder
  <2> QED
    BY <2>1, <2>2, <2>3, <2>4, <1>3
<1>12. BoundWhileRunning'
  <2>1. ASSUME NEW i \in 1..k
        PROVE  unit'.bound /\ unit'.id = UnitOf[stmts'[i].rel]
    <3>1. unit' = unit
      BY <1>11, <1>6, <1>3
    <3> QED
      BY <3>1, <1>2, <1>8, <1>11 DEF BoundWhileRunning
  <2> QED
    BY <2>1, <1>8 DEF BoundWhileRunning
<1>13. StmtOrder'
  <2>1. \A i \in 1..k : stmts'[i].level \in unit'.level..nest'
    BY <1>1, <1>3, <1>6, <1>8, <1>11
  <2>2. \A i, j \in 1..k : i <= j => stmts'[i].level <= stmts'[j].level
    BY <1>2, <1>8, <1>11 DEF StmtOrder
  <2> QED
    BY <2>1, <2>2, <1>8 DEF StmtOrder
<1>14. ASSUME NEW i \in 1..n
       PROVE  /\ i \in 1..Len(ops) /\ ops[i].level \in Nat /\ ops[i].level <= nest - 1
              /\ ops[i].level >= unit.level
  <2>1. i \in 1..Len(ops) /\ ops[i].level \in Nat
    <3>1. i \in 1..Len(ops)
      BY <1>5
    <3> QED
      BY <3>1, <1>2, OpFields DEF TypeOK
  <2>2. ops[i].level <= nest - 1
    BY <1>4 DEF MarkAgrees
  <2>3. ops[i].level >= unit.level
    BY <2>1, <1>2, <1>6 DEF LevelOrder
  <2> QED
    BY <2>1, <2>2, <2>3
<1>15. LevelOrder'
  <2>1. ASSUME NEW i \in 1..n
        PROVE  ops'[i].level \in unit'.level..nest'
    <3>1. ops'[i].level = ops[i].level
      BY <1>5
    <3> QED
      BY <3>1, <1>1, <1>3, <1>6, <1>14
  <2>2. \A i, j \in 1..n : i <= j => ops'[i].level <= ops'[j].level
    BY <1>2, <1>5, <1>14 DEF LevelOrder
  <2> QED
    BY <2>1, <2>2, <1>5 DEF LevelOrder
<1>16. OneUnit'
  <2>1. ASSUME NEW i \in 1..n
        PROVE  unit'.bound /\ UnitOf[ops'[i].rel] = unit'.id
    <3>1. unit' = unit
      BY <1>14, <1>6, <1>3
    <3> QED
      BY <3>1, <1>2, <1>5, <1>14 DEF OneUnit
  <2> QED
    BY <2>1, <1>5 DEF OneUnit
<1>17. LedgerInStep' /\ ByteBudget' /\ FlushIsLast'
  <2>1. flushed => stmts' = <<>>
    BY <1>2, <1>7, <1>8, EmptySeq DEF FlushIsLast
  <2> QED
    BY <1>1, <1>2, <1>5, <2>1 DEF LedgerInStep, ByteBudget, FlushIsLast
<1>18. UnitLevel'
  BY <1>1, <1>2, <1>3, <1>6 DEF UnitLevel
<1>19. MarkDepth'
  BY <1>1, <1>3, <1>9 DEF MarkDepth
<1>20. ASSUME NEW l \in 1..Len(marks')
       PROVE  MarkAgrees(l)'
  <2> DEFINE ml == marks[l]
  <2>1. l \in 1..Len(marks) /\ l <= nest - 2 /\ marks'[l] = ml
    BY <1>3, <1>9
  <2>2. MarkAgrees(l) /\ Len(ml.log) \in Nat /\ ml.bound \in BOOLEAN
    BY <2>1, MarkFields
  <2>3. ASSUME NEW i \in n+1..Len(ops)
        PROVE  ops[i].level > nest - 1 /\ ops[i].level \in Nat
    <3>1. ops[i].level > nest - 1
      BY <1>4 DEF MarkAgrees
    <3>2. i \in 1..Len(ops) /\ ops \in Seq(Op)
      BY <1>2, <1>4, <1>5 DEF TypeOK
    <3> QED
      BY <3>1, <3>2, OpFields
  <2>4. Len(ml.log) <= n
    <3> SUFFICES ASSUME Len(ml.log) > n PROVE FALSE
      BY <1>4, <2>2
    <3>0. Len(ml.log) <= Len(ops)
      BY <2>2 DEF MarkAgrees
    <3>1. n + 1 \in 1..Len(ml.log) /\ n + 1 \in n+1..Len(ops)
      <4>1. Len(ops) \in Nat
        BY <1>5
      <4>2. n < Len(ml.log)
        BY <1>4, <2>2
      <4> QED
        BY <1>4, <2>2, <3>0, <4>1, <4>2, NextPlace
    <3>2. ops[n + 1].level <= l
      BY <2>2, <3>1 DEF MarkAgrees
    <3>3. ops[n + 1].level > nest - 1 /\ ops[n + 1].level \in Nat
      BY <2>3, <3>1
    <3>4. l \in Nat /\ nest \in Nat /\ l <= nest - 2
      BY <1>3, <2>1
    <3> HIDE DEF n
    <3> QED
      BY <3>2, <3>3, <3>4
  <2>5. ASSUME NEW i \in 1..Len(ml.log)
        PROVE  ml.log[i] = ops'[i].id /\ ops'[i].level <= l
    <3>1. i \in 1..n
      BY <1>4, <2>2, <2>4
    <3>2. ops'[i] = ops[i]
      BY <1>5, <3>1
    <3> QED
      BY <2>2, <3>2 DEF MarkAgrees
  <2>6. ASSUME NEW i \in Len(ml.log)+1..Len(ops')
        PROVE  ops'[i].level > l
    <3>1. i \in 1..n /\ i \in Len(ml.log)+1..Len(ops)
      <4>1. /\ Len(ops) \in Nat /\ n \in Nat /\ n <= Len(ops) /\ Len(ml.log) \in Nat
            /\ i \in Len(ml.log)+1..n
        BY <1>4, <1>5, <2>2
      <4> HIDE DEF n, ml
      <4> QED
        BY <4>1
    <3> QED
      BY <3>1, <1>5, <2>2 DEF MarkAgrees
  <2>7. ml.bound => unit'.bound /\ unit'.id = ml.id /\ unit'.level <= l
    BY <1>3, <1>6, <2>1, <2>2 DEF MarkAgrees
  <2>8. ~ml.bound => ml.log = <<>> /\ (unit'.bound => unit'.level > l)
    BY <1>6, <2>2 DEF MarkAgrees
  <2> QED
    BY <2>1, <2>4, <2>5, <2>6, <2>7, <2>8, <1>5 DEF MarkAgrees
<1> QED
  BY <1>10, <1>12, <1>13, <1>15, <1>16, <1>17, <1>18, <1>19, <1>20 DEF IInv

(* On a list in level order, the walk of PRE_COMMIT_SUB lowers exactly the *)
(* operations of the committing level.                                     *)
LEMMA PromotionShape ==
  ASSUME IInv, SubCommit
  PROVE  /\ ops' \in Seq(Op) /\ Len(ops') = Len(ops)
         /\ \A i \in 1..Len(ops) :
              /\ ops'[i].id = ops[i].id /\ ops'[i].rel = ops[i].rel
              /\ ops[i].level < nest => ops'[i].level = ops[i].level
              /\ ops[i].level = nest => ops'[i].level = nest - 1
<1>1. ops \in Seq(Op) /\ Len(ops) \in Nat /\ nest \in Nat /\ nest - 1 \in Nat
  BY LenProperties DEF IInv, TypeOK, SubCommit
<1>2. ops' = [i \in 1..Len(ops) |-> Promoted(i)]
  BY DEF SubCommit
<1>3. ASSUME NEW i \in 1..Len(ops)
      PROVE  /\ Promoted(i) \in Op
             /\ Promoted(i).id = ops[i].id /\ Promoted(i).rel = ops[i].rel
             /\ ops[i].level < nest => Promoted(i).level = ops[i].level
             /\ ops[i].level = nest => Promoted(i).level = nest - 1
  <2>1. ops[i] \in Op /\ ops[i].level \in Nat
    BY <1>1, OpFields
  <2>2. CASE \A j \in i..Len(ops) : ops[j].level >= nest
    <3>1. Promoted(i) = [ops[i] EXCEPT !.level = nest - 1]
      BY <2>2 DEF Promoted
    <3>2. ops[i].level >= nest
      BY <2>2, <1>1
    <3>3. Promoted(i) \in Op
      BY <3>1, <2>1, <1>1 DEF Op
    <3>4. /\ Promoted(i).id = ops[i].id /\ Promoted(i).rel = ops[i].rel
          /\ Promoted(i).level = nest - 1
      BY <3>1, <2>1 DEF Op
    <3> QED
      BY <3>2, <3>3, <3>4, <2>1, <1>1
  <2>3. CASE ~\A j \in i..Len(ops) : ops[j].level >= nest
    <3>1. Promoted(i) = ops[i]
      BY <2>3 DEF Promoted
    <3>2. PICK j \in i..Len(ops) : ~(ops[j].level >= nest)
      BY <2>3
    <3>3. j \in 1..Len(ops) /\ i <= j
      BY <1>1
    <3>4. ops[j].level \in Nat /\ ops[i].level <= ops[j].level
      BY <1>1, <3>3, OpFields DEF IInv, LevelOrder
    <3>5. ops[i].level # nest
      BY <1>1, <2>1, <3>2, <3>4
    <3> QED
      BY <3>1, <3>5, <2>1
  <2> QED
    BY <2>2, <2>3
<1>4. ops' \in [1..Len(ops) -> Op]
  BY <1>2, <1>3
<1>5. ops' \in Seq(Op) /\ Len(ops') = Len(ops)
  BY <1>1, <1>4, FunctionIsSeq
<1> QED
  BY <1>2, <1>3, <1>5

(* vfdw_wbuf_subxact at PRE_COMMIT_SUB keeps the invariant.                *)
LEMMA SubCommitInv ==
  ASSUME IInv, SubCommit
  PROVE  IInv'
<1>1. UNCHANGED <<failed, stmts, cid, bytes, gen, shrinkGen, ledger, flushed, xacts>>
  BY DEF SubCommit
<1>2. TypeOK /\ LevelOrder /\ OneUnit /\ BoundWhileRunning /\ LedgerInStep /\ ByteBudget
      /\ UnitLevel /\ StmtOrder /\ MarkDepth /\ FlushIsLast
  BY DEF IInv
<1>3. nest \in Nat /\ nest > 1 /\ nest' = nest - 1 /\ Len(marks) = nest - 1
  BY <1>2 DEF TypeOK, MarkDepth, SubCommit
<1>4. /\ ops \in Seq(Op) /\ Len(ops) \in Nat
      /\ ops' \in Seq(Op) /\ Len(ops') = Len(ops)
  BY <1>2, PromotionShape, LenProperties DEF TypeOK
<1>5. ASSUME NEW i \in 1..Len(ops)
      PROVE  /\ ops'[i].id = ops[i].id /\ ops'[i].rel = ops[i].rel
             /\ ops[i].level \in Nat /\ ops[i].level <= nest /\ ops[i].level >= unit.level
             /\ ops'[i].level = IF ops[i].level = nest THEN nest - 1 ELSE ops[i].level
  <2>1. ops[i].level \in Nat
    BY <1>4, OpFields
  <2>2. unit.level \in Nat
    BY <1>2 DEF TypeOK, Unit
  <2>3. ops[i].level <= nest /\ ops[i].level >= unit.level
    BY <2>1, <2>2, <1>2, <1>3 DEF LevelOrder
  <2> QED
    BY <2>1, <2>3, <1>3, PromotionShape
<1>6. /\ unit' \in Unit /\ unit'.bound = unit.bound /\ unit'.id = unit.id
      /\ unit.level \in Nat /\ unit'.level \in Nat /\ unit'.level <= unit.level
      /\ unit.level < nest => unit' = unit
      /\ unit.bound => unit'.level = IF unit.level = nest THEN nest - 1 ELSE unit.level
  <2>1. unit \in Unit /\ unit.level \in Nat /\ nest - 1 \in Nat /\ unit' = PromotedUnit
    BY <1>2, <1>3 DEF TypeOK, Unit, SubCommit
  <2>2. unit.bound => unit.level <= nest
    BY <1>2, <1>3 DEF UnitLevel
  <2>3. CASE unit.bound /\ unit.level >= nest
    <3>1. unit' = [unit EXCEPT !.level = nest - 1]
      BY <2>1, <2>3 DEF PromotedUnit
    <3>2. /\ unit' \in Unit /\ unit'.bound = unit.bound /\ unit'.id = unit.id
          /\ unit'.level = nest - 1
      BY <3>1, <2>1 DEF Unit
    <3> QED
      BY <3>2, <2>1, <2>2, <2>3, <1>3
  <2>4. CASE ~(unit.bound /\ unit.level >= nest)
    <3>1. unit' = unit
      BY <2>1, <2>4 DEF PromotedUnit
    <3> QED
      BY <3>1, <2>1, <2>2, <2>4, <1>3
  <2> QED
    BY <2>3, <2>4
<1>7. /\ marks' \in Seq(Mark) /\ Len(marks') = nest - 2
      /\ \A l \in 1..nest - 2 : marks'[l] = marks[l]
  <2>1. marks \in Seq(Mark) /\ marks' = SubSeq(marks, 1, Len(marks) - 1)
    BY <1>2 DEF TypeOK, SubCommit
  <2>2. Len(marks) - 1 \in 0..Len(marks) /\ Len(marks) - 1 = nest - 2
    BY <1>3
  <2> QED
    BY <2>1, <2>2, PrefixFacts
<1>8. TypeOK'
  BY <1>1, <1>2, <1>3, <1>4, <1>6, <1>7 DEF TypeOK
<1>9. ASSUME NEW i \in 1..Len(stmts)
      PROVE  stmts[i].level \in Nat /\ stmts[i].level < nest /\ stmts[i].level >= unit.level
             /\ unit' = unit
  <2>1. stmts[i].level \in Nat
    BY <1>2, StmtFields DEF TypeOK
  <2>2. stmts[i].level < nest
    BY DEF SubCommit
  <2>3. stmts[i].level >= unit.level
    BY <2>1, <1>2, <1>6 DEF StmtOrder
  <2> QED
    BY <2>1, <2>2, <2>3, <1>3, <1>6
<1>10. StmtOrder' /\ BoundWhileRunning'
  <2>1. ASSUME NEW i \in 1..Len(stmts)
        PROVE  stmts[i].level \in unit'.level..nest'
    BY <1>3, <1>6, <1>9
  <2>2. StmtOrder'
    BY <1>1, <1>2, <2>1 DEF StmtOrder
  <2>3. BoundWhileRunning'
    BY <1>1, <1>2, <1>9 DEF BoundWhileRunning
  <2> QED
    BY <2>2, <2>3
<1>11. OneUnit'
  BY <1>2, <1>4, <1>5, <1>6 DEF OneUnit
<1>12. LevelOrder'
  <2>1. ASSUME NEW i \in 1..Len(ops')
        PROVE  ops'[i].level \in unit'.level..nest'
    <3>1. i \in 1..Len(ops)
      BY <1>4
    <3>2. unit.bound
      BY <3>1, <1>2 DEF OneUnit
    <3> QED
      BY <3>1, <3>2, <1>3, <1>5, <1>6
  <2>2. ASSUME NEW i \in 1..Len(ops'), NEW j \in 1..Len(ops'), i <= j
        PROVE  ops'[i].level <= ops'[j].level
    <3>1. i \in 1..Len(ops) /\ j \in 1..Len(ops)
      BY <1>4
    <3>2. ops[i].level <= ops[j].level
      BY <3>1, <2>2, <1>2 DEF LevelOrder
    <3> QED
      BY <3>1, <3>2, <1>3, <1>5
  <2> QED
    BY <2>1, <2>2 DEF LevelOrder
<1>13. LedgerInStep'
  <2>1. /\ Ids(ops) \in Seq(Nat) /\ Len(Ids(ops)) = Len(ops)
        /\ \A i \in 1..Len(ops) : Ids(ops)[i] = ops[i].id
    BY <1>4, IdsFacts
  <2>2. /\ Ids(ops') \in Seq(Nat) /\ Len(Ids(ops')) = Len(ops)
        /\ \A i \in 1..Len(ops) : Ids(ops')[i] = ops'[i].id
    BY <1>4, IdsFacts
  <2>3. \A i \in 1..Len(ops) : Ids(ops)[i] = Ids(ops')[i]
    BY <1>5, <2>1, <2>2
  <2>4. Ids(ops) = Ids(ops')
    BY <2>1, <2>2, <2>3, SameSeq
  <2> QED
    BY <1>1, <1>2, <2>4 DEF LedgerInStep
<1>14. ByteBudget' /\ FlushIsLast' /\ MarkDepth'
  BY <1>1, <1>2, <1>3, <1>7 DEF ByteBudget, FlushIsLast, MarkDepth
<1>15. UnitLevel'
  BY <1>2, <1>3, <1>6 DEF UnitLevel
<1>16. ASSUME NEW l \in 1..Len(marks')
       PROVE  MarkAgrees(l)'
  <2> DEFINE ml == marks[l]
  <2>1. l \in 1..Len(marks) /\ l <= nest - 2 /\ marks'[l] = ml
    BY <1>3, <1>7
  <2>2. MarkAgrees(l) /\ Len(ml.log) \in Nat /\ ml.bound \in BOOLEAN
    BY <2>1, MarkFields
  <2>3. Len(ml.log) <= Len(ops')
    BY <1>4, <2>2 DEF MarkAgrees
  <2>4. ASSUME NEW i \in 1..Len(ml.log)
        PROVE  ml.log[i] = ops'[i].id /\ ops'[i].level <= l
    <3>1. i \in 1..Len(ops)
      BY <1>4, <2>2, <2>3
    <3>2. ml.log[i] = ops[i].id /\ ops[i].level <= l
      BY <2>2 DEF MarkAgrees
    <3> QED
      BY <3>1, <3>2, <1>3, <1>5, <2>1
  <2>5. ASSUME NEW i \in Len(ml.log)+1..Len(ops')
        PROVE  ops'[i].level > l
    <3>1. i \in 1..Len(ops) /\ i \in Len(ml.log)+1..Len(ops)
      BY <1>4, <2>2
    <3>2. ops[i].level > l
      BY <3>1, <2>2 DEF MarkAgrees
    <3> QED
      BY <3>1, <3>2, <1>3, <1>5, <2>1
  <2>6. ml.bound => unit'.bound /\ unit'.id = ml.id /\ unit'.level <= l
    BY <1>3, <1>6, <2>1, <2>2 DEF MarkAgrees
  <2>7. ~ml.bound => ml.log = <<>> /\ (unit'.bound => unit'.level > l)
    BY <1>3, <1>6, <2>1, <2>2 DEF MarkAgrees
  <2> QED
    BY <2>1, <2>3, <2>4, <2>5, <2>6, <2>7 DEF MarkAgrees
<1> QED
  BY <1>8, <1>10, <1>11, <1>12, <1>13, <1>14, <1>15, <1>16 DEF IInv

-----------------------------------------------------------------------------
(* The invariant is inductive: one case for each action of the buffer.     *)
LEMMA NextInv == IInv /\ [Next]_vars => IInv'
<1> SUFFICES ASSUME IInv, [Next]_vars PROVE IInv'
  OBVIOUS
<1>1. CASE Raise \/ Idle \/ PreCommit \/ PrepareRefused \/ UNCHANGED vars
  BY <1>1, QuietActions
<1>2. CASE \E r \in Rels : BindRefused(r)
  BY <1>2, QuietActions
<1>3. CASE \E size \in 1..MaxRowBytes : RowRefused(size)
  BY <1>3, QuietActions
<1>4. CASE Begin \/ Prepare
  BY <1>4, BoundaryInv
<1>5. CASE Commit \/ Abort
  BY <1>5, ResetInv
<1>6. CASE \E r \in Rels : BeginModify(r)
  BY <1>6, BeginModifyInv
<1>7. CASE EndModify
  BY <1>7, EndModifyInv
<1>8. CASE \E size \in 1..MaxRowBytes, row \in Rows :
             WriteRow(row, size) \/ NoteRaises(row, size)
  BY <1>8, WriteInv
<1>9. CASE SubStart
  BY <1>9, SubStartInv
<1>10. CASE SubAbort
  BY <1>10, SubAbortInv
<1>11. CASE SubCommit
  BY <1>11, SubCommitInv
<1> QED
  BY <1>1, <1>2, <1>3, <1>4, <1>5, <1>6, <1>7, <1>8, <1>9, <1>10, <1>11 DEF Next

(* The inductive invariant holds in every reachable state of the buffer:   *)
(* types, level order, one unit, marks that agree with the list.           *)
THEOREM Inductive == Spec => []IInv
  BY InitInv, NextInv, PTL DEF Spec

(* Type correctness of the buffer's state.                                 *)
THEOREM TypeCorrect == Spec => []TypeOK
  BY Inductive, PTL DEF IInv

(* No subtransaction boundary can take a running statement's binding: the  *)
(* "write buffer unit is not bound" elog is unreachable.                   *)
THEOREM RunningStatementsStayBound == Spec => []BoundWhileRunning
  BY Inductive, PTL DEF IInv

(* The list the flush carries is in level order and belongs to one unit.   *)
THEOREM BufferIsOneUnitInLevelOrder == Spec => [](LevelOrder /\ OneUnit)
  BY Inductive, PTL DEF IInv

(* The ledger is the fold of the live list, and the memory stays within    *)
(* the cap and one row.                                                    *)
THEOREM LedgerAndBudget == Spec => [](LedgerInStep /\ ByteBudget)
  BY Inductive, PTL DEF IInv

(* ROLLBACK TO SAVEPOINT, or a caught error, puts list, ledger and binding *)
(* back exactly, at any depth and after any inner savepoints.              *)
THEOREM RollbackIsExact == Spec => RollbackRestores
<1>1. IInv /\ [Next]_vars => [SubAbort => Restored(marks[Len(marks)])]_vars
  BY AbortRestores
<1> QED
  BY <1>1, Inductive, PTL DEF Spec, RollbackRestores
=============================================================================
