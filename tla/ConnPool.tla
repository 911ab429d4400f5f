------------------------------ MODULE ConnPool ------------------------------
(***************************************************************************)
(* The connection pool of one backend, for one server and user             *)
(* (vfdw_conn_pool.c, vfdw_conn.c), and what the end of a transaction or a *)
(* subtransaction does to it (vfdw_conn_xact.c).                           *)
(*                                                                         *)
(* A scan leases a slot and keeps a batch open on its connection, and so   *)
(* the connection in conversation, from begin to end.  Several scans run   *)
(* inside one another, in subtransactions that end while outer scans stay  *)
(* open.  An error cleans nothing up: the callbacks do.                    *)
(***************************************************************************)
EXTENDS Integers, Sequences, FiniteSets, FiniteSetsExt

CONSTANTS
  NSlots,     \* VFDW_MAX_CONN_SLOTS
  Tables,     \* what scans ask for: [node, db, ttl]
  Home,       \* the server's own endpoint
  MaxReaders, \* bound: scans open at once
  MaxNest,    \* bound: nest levels
  MaxSubs,    \* bound: subtransaction ids
  MaxVer      \* bound: versions of the server's definition

ASSUME PoolAssumption ==
  /\ NSlots \in Nat \ {0} /\ MaxReaders \in Nat /\ MaxNest \in Nat \ {0}
  /\ MaxSubs \in Nat \ {0} /\ MaxVer \in Nat
  /\ \A t \in Tables : t.db \in Nat /\ t.ttl \in BOOLEAN

Slots == 1..NSlots

VARIABLES
  pool,     \* the entries, VfdwConn, with what is true of their sockets
  readers,  \* the open scans: slot, nest level, table, version at lease
  subs,     \* the open (sub)transactions' ids, outermost first
  nextSub,  \* the next subtransaction id
  ver,      \* the version of the server's definition in the catalogs
  failed    \* an error was raised and no abort has handled it yet

vars == <<pool, readers, subs, nextSub, ver, failed>>

Nest == Len(subs)
Live == Nest > 0 /\ ~failed

(* vfdw_conn_init_entry leaves field_ttl as the allocator gave it.  peer,  *)
(* made, at and unread are the socket's: where it goes, the version it was *)
(* opened under, the database it is in, and whether a reply is due or      *)
(* unread; tainted is history, an interrupted expiry probe.                *)
NewEntry(cap) ==
  [open |-> FALSE, conv |-> FALSE, inval |-> FALSE, leased |-> FALSE, sub |-> 0,
   node |-> Home, db |-> -1, ttl |-> cap,
   peer |-> Home, made |-> 0, at |-> 0, unread |-> FALSE, tainted |-> FALSE]

Init ==
  /\ \E cap \in {"UNKNOWN", "PRESENT", "ABSENT"} : pool = [s \in Slots |-> NewEntry(cap)]
  /\ readers = <<>> /\ subs = <<>> /\ nextSub = 1 /\ ver = 0 /\ failed = FALSE

-----------------------------------------------------------------------------
(* Opening, closing and choosing.                                          *)

(* Mutant: a connection is freed and its conversation is not.              *)
ClosedTalking(e) == [e EXCEPT !.open = FALSE, !.db = -1, !.peer = Home, !.made = 0,
                              !.at = 0, !.unread = FALSE, !.tainted = FALSE]

(* vfdw_conn_close: field_ttl stays.                                       *)
Closed(e) == [e EXCEPT !.open = FALSE, !.conv = FALSE, !.db = -1, !.peer = Home, !.made = 0,
                       !.at = 0, !.unread = FALSE, !.tainted = FALSE]

(* vfdw_conn_open, once its setup has succeeded.                           *)
Opened(e) ==
  IF e.open THEN e
  ELSE [e EXCEPT !.open = TRUE, !.peer = e.node, !.made = ver, !.at = 0, !.db = -1]

(* Mutant: a lease does not keep others out.                               *)
FreeAnyway(s) == TRUE

Free(s) == ~pool[s].leased

(* vfdw_conn_take_free_slot: a slot that points there already, or one with *)
(* nothing open, or the first free one.                                    *)
Choice(node) ==
  LET free == {s \in Slots : Free(s)}
      match == {s \in free : pool[s].node = node}
      virgin == {s \in free : ~pool[s].open}
  IN  Min(IF match # {} THEN match ELSE IF virgin # {} THEN virgin ELSE free)

(* Mutant: repointing keeps the socket.                                    *)
ClaimedOpen(e, node) == [e EXCEPT !.node = node]

(* vfdw_conn_claim, or the reuse of an entry that matches.                 *)
Claimed(e, node) == IF e.node = node THEN e ELSE [Closed(e) EXCEPT !.node = node]

(* vfdw_get_connection_internal as far as the socket.                      *)
Leased(s, node) ==
  LET e == [Claimed(pool[s], node) EXCEPT !.leased = TRUE, !.sub = subs[Nest]]
  IN  IF e.inval THEN [Closed(e) EXCEPT !.inval = FALSE] ELSE e

(* vfdw_conn_select_db: nothing is sent when the entry says it is there.   *)
Selected(e, db) == IF e.db = db THEN e ELSE [e EXCEPT !.db = db, !.at = db]

(* vfdw_ttl_require, when the answer is not known yet.                     *)
Probed(e, t, cap) ==
  IF t.ttl /\ e.ttl = "UNKNOWN" THEN [e EXCEPT !.ttl = cap] ELSE e

-----------------------------------------------------------------------------
(* A scan begins, or fails to.                                             *)

Wants(t) == Live /\ Len(readers) < MaxReaders /\ \E s \in Slots : Free(s)

(* The error leaves the entry as e.                                        *)
RaiseWith(s, e) ==
  /\ pool' = [pool EXCEPT ![s] = e]
  /\ failed' = TRUE
  /\ UNCHANGED <<readers, subs, nextSub, ver>>

(* vfdw_scan_state_create.                                                 *)
OpenScan(t) ==
  /\ Wants(t)
  /\ \E cap \in {"PRESENT", "ABSENT"} :
       LET s == Choice(t.node)
           e == Probed(Selected(Opened(Leased(s, t.node)), t.db), t, cap)
       IN  IF t.ttl /\ e.ttl = "ABSENT" THEN RaiseWith(s, e)
           ELSE /\ pool' = [pool EXCEPT ![s] = [e EXCEPT !.conv = TRUE]]
                /\ readers' = Append(readers, [slot |-> s, level |-> Nest, tab |-> t,
                                               ver |-> ver, lost |-> FALSE])
                /\ UNCHANGED <<subs, nextSub, ver, failed>>

(* The password rule, a cluster refusal, or a connect that fails.          *)
ConnectFails(t) ==
  /\ Wants(t)
  /\ LET s == Choice(t.node) IN RaiseWith(s, Leased(s, t.node))

(* AUTH, HELLO or the probe of vfdw_conn_open is refused or interrupted.   *)
SetupFails(t) ==
  /\ Wants(t)
  /\ LET s == Choice(t.node)
         e == Leased(s, t.node)
     IN  ~e.open /\ RaiseWith(s, [Opened(e) EXCEPT !.conv = TRUE, !.unread = TRUE])

(* SELECT is refused or interrupted: the database is unknown.              *)
SelectFails(t) ==
  /\ Wants(t)
  /\ LET s == Choice(t.node)
         e == Opened(Leased(s, t.node))
     IN  /\ e.db # t.db
         /\ \E db \in {e.at, t.db} :
              RaiseWith(s, [e EXCEPT !.db = -1, !.at = db, !.conv = TRUE, !.unread = TRUE])

(* vfdw_ttl_probe is interrupted: it does not mark the conversation.       *)
ProbeFails(t) ==
  /\ Wants(t) /\ t.ttl
  /\ LET s == Choice(t.node)
         e == Selected(Opened(Leased(s, t.node)), t.db)
     IN  e.ttl = "UNKNOWN" /\ RaiseWith(s, [e EXCEPT !.unread = TRUE, !.tainted = TRUE])

(* vfdw_conn_no_slots.                                                     *)
TooMany ==
  /\ Live /\ ~\E s \in Slots : Free(s)
  /\ failed' = TRUE
  /\ UNCHANGED <<pool, readers, subs, nextSub, ver>>

-----------------------------------------------------------------------------
(* The open scans.  One whose connection was closed under it has a freed   *)
(* context in its batch: reading through it is taken to raise, and ending  *)
(* it without a reply due touches the entry alone.                         *)

Without(i) == [j \in 1..Len(readers)-1 |-> readers[IF j < i THEN j ELSE j + 1]]

(* Commands go out; their replies are read.                                *)
Fetch(i) ==
  /\ Live /\ ~readers[i].lost
  /\ pool' = [pool EXCEPT ![readers[i].slot].unread = ~@]
  /\ UNCHANGED <<readers, subs, nextSub, ver, failed>>

(* Mutant: replies nobody read stay on the stream.                         *)
EndUndrained(i) ==
  /\ Live
  /\ pool' = [pool EXCEPT ![readers[i].slot] =
                [@ EXCEPT !.conv = FALSE, !.leased = FALSE, !.sub = 0]]
  /\ readers' = Without(i)
  /\ UNCHANGED <<subs, nextSub, ver, failed>>

(* vfdw_scan_end: vfdw_batch_end drains, and the lease is given back.      *)
EndScan(i) ==
  /\ Live
  /\ pool' = [pool EXCEPT ![readers[i].slot] =
                [@ EXCEPT !.unread = FALSE, !.conv = FALSE, !.leased = FALSE, !.sub = 0]]
  /\ readers' = Without(i)
  /\ UNCHANGED <<subs, nextSub, ver, failed>>

Raise ==
  /\ Live
  /\ failed' = TRUE
  /\ UNCHANGED <<pool, readers, subs, nextSub, ver>>

(* vfdw_conn_inval_callback: ALTER SERVER, here or in another session.     *)
AlterServer ==
  /\ ver < MaxVer
  /\ ver' = ver + 1
  /\ pool' = [s \in Slots |-> [pool[s] EXCEPT !.inval = @ \/ pool[s].open]]
  /\ UNCHANGED <<readers, subs, nextSub, failed>>

-----------------------------------------------------------------------------
(* Transactions and subtransactions.                                       *)

Start ==
  /\ Nest < MaxNest /\ ~failed /\ nextSub <= MaxSubs
  /\ subs' = Append(subs, nextSub) /\ nextSub' = nextSub + 1
  /\ UNCHANGED <<pool, readers, ver, failed>>

(* A session that has used up its ids waits.                               *)
Idle == Nest = 0 /\ nextSub > MaxSubs /\ UNCHANGED vars

Pop == SubSeq(subs, 1, Nest - 1)

(* A committed subtransaction's portals are its parent's; leases keep its  *)
(* id.                                                                     *)
SubCommit ==
  /\ Live /\ Nest > 1
  /\ subs' = Pop
  /\ readers' = [i \in 1..Len(readers) |->
                   [readers[i] EXCEPT !.level = IF @ = Nest THEN Nest - 1 ELSE @]]
  /\ UNCHANGED <<pool, nextSub, ver, failed>>


(* vfdw_conn_subxact.                                                      *)
Aborted(e) ==
  LET c == IF e.open /\ e.conv THEN Closed(e) ELSE e
  IN  IF c.leased /\ c.sub = subs[Nest] THEN [c EXCEPT !.leased = FALSE, !.sub = 0] ELSE c

(* Scans of the aborted level are gone; what is left of the others keeps   *)
(* its order.                                                              *)
SubAbort ==
  /\ Nest > 1
  /\ pool' = [s \in Slots |-> Aborted(pool[s])]
  /\ readers' = LET outer == SelectSeq(readers, LAMBDA r : r.level < Nest)
                IN  [i \in 1..Len(outer) |-> [outer[i] EXCEPT !.lost =
                       @ \/ ~Aborted(pool[outer[i].slot]).open]]
  /\ subs' = Pop /\ failed' = FALSE
  /\ UNCHANGED <<nextSub, ver>>


(* vfdw_conn_xact: an entry with no connection is passed over.             *)
Swept(e) ==
  IF ~e.open THEN e
  ELSE [(IF e.conv \/ e.inval THEN Closed(e) ELSE e) EXCEPT !.leased = FALSE, !.sub = 0]

(* vfdw_conn_peek.                                                         *)
Peek == {s \in Slots : pool[s].open /\ pool[s].conv}

(* The end of a transaction: every entry is swept, no scan is left.        *)
EndXact(entries) ==
  /\ Nest = 1
  /\ pool' = [s \in Slots |-> Swept(entries[s])]
  /\ readers' = <<>> /\ subs' = <<>> /\ failed' = FALSE
  /\ UNCHANGED <<nextSub, ver>>

(* A commit with nothing to write: the executor has ended every scan.      *)
Commit == ~failed /\ readers = <<>> /\ EndXact(pool)

(* A commit with writes: vfdw_flush_acquire takes a connection and the     *)
(* sweep takes its lease back.  What else can fail on the way to that      *)
(* connection is ConnectFails, SetupFails and SelectFails.                 *)
CommitWrites(t) ==
  /\ Wants(t) /\ readers = <<>>
  /\ LET s == Choice(t.node)
         e == Selected(Opened(Leased(s, t.node)), t.db)
     IN  IF Peek = {} THEN EndXact([pool EXCEPT ![s] = e])
         ELSE Nest = 1 /\ RaiseWith(s, pool[s])

Abort == failed /\ EndXact(pool)

(* XACT_EVENT_PREPARE sweeps nothing.                                      *)
Prepare ==
  /\ Live /\ Nest = 1 /\ readers = <<>>
  /\ subs' = <<>>
  /\ UNCHANGED <<pool, readers, nextSub, ver, failed>>

Next ==
  \/ \E t \in Tables : \/ OpenScan(t) \/ ConnectFails(t) \/ SetupFails(t)
                       \/ SelectFails(t) \/ ProbeFails(t) \/ CommitWrites(t)
  \/ \E i \in 1..Len(readers) : Fetch(i) \/ EndScan(i)
  \/ TooMany \/ Raise \/ AlterServer
  \/ Start \/ SubCommit \/ SubAbort \/ Commit \/ Abort \/ Prepare \/ Idle

Spec == Init /\ [][Next]_vars

-----------------------------------------------------------------------------
(* The types; a lease names its subtransaction, and conversations and      *)
(* unread replies are those of open connections.                           *)
TypeOK ==
  /\ \A s \in Slots :
       LET e == pool[s]
       IN  /\ {e.open, e.conv, e.inval, e.leased, e.unread, e.tainted} \subseteq BOOLEAN
           /\ e.ttl \in {"UNKNOWN", "PRESENT", "ABSENT"}
           /\ e.sub \in 0..MaxSubs /\ (e.leased <=> e.sub # 0)
           /\ e.conv \/ e.unread => e.open
  /\ \A i \in 1..Len(readers) : readers[i].slot \in Slots /\ readers[i].level \in 1..Nest
  /\ Nest <= MaxNest /\ ver \in 0..MaxVer /\ failed \in BOOLEAN

(* A connection has one reader: no two open scans are on one slot, and     *)
(* each one's slot is leased for as long as it is open, whatever           *)
(* subtransactions commit and abort around it.                             *)
OneReader ==
  /\ \A i, j \in 1..Len(readers) : i # j => readers[i].slot # readers[j].slot
  /\ \A i \in 1..Len(readers) : pool[readers[i].slot].leased

(* A connection that can be handed out has nothing on its stream and no    *)
(* conversation: the next reply belongs to the next command.  An           *)
(* interrupted expiry probe is excepted.                                   *)
QuietWhenFree ==
  \A s \in Slots : ~pool[s].leased /\ pool[s].open /\ ~pool[s].tainted =>
                     ~pool[s].conv /\ ~pool[s].unread

(* A scan reads what its table names: its socket goes to the node it asked *)
(* for, is in its database, and was opened under the server definition     *)
(* that was current when the scan began.                                   *)
ScanReadsItsTable ==
  \A i \in 1..Len(readers) : ~readers[i].lost =>
    LET e == pool[readers[i].slot]
    IN  /\ e.open /\ e.conv
        /\ e.peer = readers[i].tab.node /\ e.at = readers[i].tab.db
        /\ e.made = readers[i].ver



-----------------------------------------------------------------------------
(* Statements of the repository that the code does not keep.               *)

(* A scan that raised leaves its lease held, and "the transaction callback *)
(* releases it along with everything else" (vfdw_release_connection).      *)
NoLeaseOutlivesItsTransaction == Nest = 0 => \A s \in Slots : ~pool[s].leased

(* A live outer scan is "rightly holding its connection" while             *)
(* subtransactions inside it fail (vfdw_conn_subxact).                     *)
OuterScanKeepsItsConnection == \A i \in 1..Len(readers) : ~readers[i].lost

(* "The pool must not believe this connection is quiescent" while a reply  *)
(* is outstanding (vfdw_conn_command).                                     *)
NothingUnreadWhenFree ==
  \A s \in Slots : Free(s) /\ pool[s].open => ~pool[s].unread
=============================================================================
