# A TLA+ verification of valkey_fdw

valkey_fdw is a PostgreSQL foreign data wrapper for Valkey. A backend reads
Valkey during a statement and defers every write to the end of the transaction,
where one Lua program checks and applies all of them. This directory holds
TLA+ models of the parts in which state, concurrency and failure meet, the TLC
configurations that check them and the proofs TLAPS checks.

## The system and its parts

| part | source (`src/src/`) | model |
|---|---|---|
| transaction sequencing | `vfdw_xact.c` | `WriteBuffer`, `ConnPool` |
| write buffer | `vfdw_wbuf.c` | `WriteBuffer`, `WriteBufferProofs` |
| modify statements, rendering | `vfdw_modify.c`, `vfdw_render.c` | `WriteBuffer` (lifecycle), `WriteUnit` (operations) |
| ledger | `vfdw_ledger.c`, `vfdw_ledger_fold.c`, `vfdw_refuse.c` | `Ledger` |
| write program | `vfdw_script.c`, `vfdw_script_encode.c` | `WriteUnit`, `Keyspace` |
| flush | `vfdw_flush.c` | `Flush`, abstract `CommitOutcome` |
| connection pool | `vfdw_conn*.c` | `ConnPool` |
| batches, I/O | `vfdw_cmd.c`, `vfdw_io.c` | in `ConnPool` and `Flush`; pairing of replies planned |
| per-field expiry | `vfdw_ttl.c` | probe in `ConnPool`, order in `Ledger` |
| overlay | `vfdw_overlay.c`, `vfdw_scan_overlay.c` | result in `WriteUnit`; index planned |
| scan | `vfdw_scan.c`, `vfdw_scan_open.c`, `vfdw_row.c` | open and close in `ConnPool`, rows in `WriteUnit`; pages planned |
| cluster scan, slot map | `vfdw_scan_cluster.c`, `vfdw_cluster.c`, `vfdw_slot.c` | planned |
| planning, options, shapes, values | `vfdw_plan*.c`, `vfdw_map*.c`, `vfdw_option.c`, `vfdw_val.c`, `vfdw_score.c`, `vfdw_vec.c` | planned in part |
| vector search, filters | `vfdw_knn.c`, `vfdw_search*.c`, `vfdw_filter.c` | planned |
| TLS, errors, registration, test functions | `vfdw_tls.c`, `vfdw_error.c`, `valkey_fdw.c`, `vfdw_test*.c` | not modelled: library calls, tables of codes, diagnostics |

How they meet: a modify statement binds the transaction to one Valkey unit and
appends operations to the buffer; the ledger folds each as it arrives; a scan
leases a connection and shows the server's rows under the transaction's own
operations; the pre-commit callback encodes the ledger's plans, sends them and
classifies the answer; the commit, abort and subtransaction callbacks restore
buffer, ledger and pool.

## Modules

**WriteBuffer** — one backend's list of operations with nest levels, the bound
unit, byte and operation caps, the ledger as the sequence of operations folded,
and the callbacks. PostgreSQL's nest level, command id, running statements and
errors are external and as free as PostgreSQL leaves them. `marks` is history:
what each open subtransaction found when it began.

**Keyspace, Ledger, WriteUnit** — `Keyspace` is Valkey as the Lua program uses
it (external). `Ledger` is the fold: plans per key, in order, with checks and
actions; entries per field or member. `WriteUnit` runs one transaction on one
table of any shape: rows chosen from what the transaction's own scan shows,
another client's change at any moment, and the two phases of the program. Its
reference is the rows applied one by one (`SqlRun`).

**CommitOutcome, Flush** — `CommitOutcome` is the promise: at most one effect
for each transaction, and a report that is true and stays true. `Flush` is
`vfdw_flush.c` with its connection, a server with a script cache that others
empty and fill, lost connections and commands that execute after they were
abandoned; it is checked to implement `CommitOutcome`.

**ConnPool** — the slots of one server and user: leases with the subtransaction
that took them, conversations, invalidation, node and database; open scans at
nest levels; every point at which getting a connection can fail. Socket facts
(where it goes, which database it is in, what is unread) are kept beside what
the entry believes.

## Runs

| run | checks | bounds |
|---|---|---|
| `WriteBuffer` | level order, one unit, binding of running statements, ledger in step, byte budget, exact rollback | 2 tables of 2 units, 3 operations, 3 nest levels, 2 statements inside one another, 2 transactions |
| `WriteUnit` | applied = SQL, no conflict missed, never partial, no false refusal, duplicates real, SELECT = COMMIT, keyset follows | 2 keys, 2 subs, 2 values, 3 operations, all 9 shapes, one foreign change, no key renames |
| `Flush` | refines `CommitOutcome`, phase true, stream clean, attempt bound, every flush ends | 2 transactions, 2 retries, pipeline of 2 |
| `ConnPool` | one reader, quiet when free, scan reads its table, flush never blocked, open means usable | 2 slots, 2 scans, 3 nest levels, 3 subtransaction ids, 3 tables on 2 nodes and 2 databases, 1 ALTER SERVER |

Why the bounds are enough: a buffer of three operations at three levels shows a
truncation that stops in the middle and a promotion followed by an abort; three
rows on two keys show insert, delete, insert and a conflict on a second key; two
commits show what one leaves to the next on the connection; two slots with three
tables force reuse, repointing and exhaustion.

Key renames are left out of the passing `WriteUnit` run because of what
`RenamePartial` shows.

The remaining runs are disagreements between the code and what the repository
says of it; each has a finding in `PROJECT.json` that quotes the statement.

- `PreparedBinding`: PREPARE TRANSACTION keeps the binding of a transaction that is gone.
- `RenamePartial`: two renames away from one key fail in phase 2.
- `NullField`: a hash row with a NULL mapped field cannot be updated.
- `SelectSet`: after a member of a set is deleted the transaction's SELECT hides the others.
- `FlushLoad`: a failed SCRIPT LOAD does not prove that the EVALSHA behind it did not run.
- `LeaseLeak`: a failed connect leaves its slot leased for the life of the session.
- `OuterScan`: a caught error inside a scan closes the scan's connection.
- `ProbeUnread`: an interrupted expiry probe leaves its reply for the next statement.

Further disagreements, seen while modelling, that the models carry and no run is
about:

- a keyset key of another type passes phase 1 and fails phase 2, for it has no
  TYPE_OK (`vfdw_ledger.c:276`); the `WriteUnit` run gives it a set or nothing;
- an UPDATE may rename a member onto an existing one (`vfdw_ledger_fold.c:144`);
- a hash row deleted and inserted again in one transaction is refused at commit,
  its fields' absence being checked before the DEL (`INTERNALS.md:912`);
  `Honoured` leaves it out of `NoFalseRefusal`;
- an INSERT that opens a list key carries KEY_ABSENT (`README.md:319`);
- a lease taken in a committed subtransaction keeps the child's id, and the
  parent's abort does not release it (`vfdw_conn_xact.c:71`);
- `field_ttl` is neither initialised nor reset (`vfdw_conn_internal.h:143`):
  `Init` of `ConnPool` leaves it open and `Closed` leaves it alone.

## Fairness

Only `Flush` states fairness: weak fairness of the backend's own steps. The
backend is sequential and runs, and every wait on the socket has a deadline
(`command_timeout_ms` is at least 1 and each attempt is a fresh batch with a
fresh deadline), so `ReadFails` is always possible. Nothing is assumed of the
server. No run turns deadlock checking off.

## Proofs

`WriteBufferProofs` proves, for any tables, units, caps and nesting depth:

- `Inductive`: the invariant `IInv`;
- `TypeCorrect`, `RunningStatementsStayBound`, `BufferIsOneUnitInLevelOrder`,
  `LedgerAndBudget`: the invariants of the `WriteBuffer` run;
- `RollbackIsExact`: the action property `RollbackRestores`.

The assumption is `BufferAssumption` (types of the constants). The argument: the
checked invariants are not inductive, because a rollback is exact only if the
marks of all open subtransactions agree with the list. `IInv` adds that each
mark is a prefix of the list, that the operations above it are exactly those
with a level above the mark's, and that the binding's level tells whether it is
older than the mark. Then the pop loop stops at the mark (`SurvivorsAreTheMark`),
the binding after it is the mark's (`AbortUnit`), and the promotion at a commit
moves exactly the committing level (`PromotionShape`).

Only model-checked: everything about `WriteUnit`, `Flush` and `ConnPool`;
`EveryFlushEnds`, because liveness is outside the prover's reach; what the
ledger's folds compute, because induction over data is.

## Plan

1. `Overlay`: the index with its generation and shrink counters over
   `WriteBuffer`, iterators that survive an append and restart after a rebuild,
   the seen-set; a finished scan has no duplicate and shows the reference view.
   Two tables of different types on one key.
2. `Batch`: queue, in-flight limit and reply pairing; `ScanPage`: pages, absent
   and retyped keys, rescans; `ScanCluster`: slot map, redirects, retry passes,
   composed with a migrating cluster.
3. Operators with references: slot and hash tags, score grammar, packed pairs,
   option validation, table shapes and writability, filter compiler, over-fetch.
4. A composition of `Flush` and `ConnPool`; a `WriteUnit` run with renames
   restricted to those the code carries.
5. Theorems: `ConnPool` (`OneReader`, `QuietWhenFree`, `ScanReadsItsTable`),
   `Flush` (`StreamClean`, `PhaseIsTrue`, refinement of `CommitOutcome`),
   `Overlay`.
