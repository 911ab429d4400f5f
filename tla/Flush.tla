------------------------------- MODULE Flush -------------------------------
(***************************************************************************)
(* The pre-commit flush of vfdw_flush.c: the write program's EVALSHA, with *)
(* a SCRIPT LOAD pipelined before it when the connection has not loaded    *)
(* it, the classification of the replies, the two kinds of retry, and what *)
(* COMMIT reports.                                                         *)
(*                                                                         *)
(* The server executes a command some time after it was written, and other *)
(* clients' commands in between; SCRIPT FLUSH or a restart empties its     *)
(* script cache and other backends fill it.  A connection that is given up *)
(* may leave an EVALSHA behind that the server still executes.             *)
(***************************************************************************)
EXTENDS Integers, Sequences

CONSTANTS
  MaxRetries,   \* write_retry_count
  MaxInflight,  \* pipeline_batch
  MaxXacts      \* bound: transactions of the backend

ASSUME FlushAssumption ==
  MaxRetries \in Nat /\ MaxInflight \in Nat \ {0} /\ MaxXacts \in Nat

Xacts == 1..MaxXacts

VARIABLES
  pc,       \* "idle", "connect", "attempt", or the reply waited for: "load", "eval"
  xact,     \* the transaction being committed
  up,       \* the pooled connection is open
  loaded,   \* its script_loaded
  force,    \* force_load
  busy,     \* busy_retries
  phase,    \* vfdw_flush_phase
  out,      \* commands written to the connection and not executed
  in,       \* replies not read
  cached,   \* the server has the program
  orphans,  \* transactions whose EVALSHA is on a connection given up
  effect,   \* what each transaction's program has done
  said,     \* what each COMMIT reported
  tries     \* history: attempts of this flush

backend == <<pc, xact, up, loaded, force, busy, phase, said, tries>>
server == <<cached, orphans, effect>>
vars == <<backend, out, in, server>>

Init ==
  /\ pc = "idle" /\ xact = 0 /\ up = FALSE /\ loaded = FALSE
  /\ force = FALSE /\ busy = 0 /\ phase = "BEFORE_SEND" /\ tries = 0
  /\ out = <<>> /\ in = <<>> /\ cached \in BOOLEAN /\ orphans = {}
  /\ effect = [x \in Xacts |-> "none"] /\ said = [x \in Xacts |-> "nothing"]

-----------------------------------------------------------------------------
(* The server.                                                             *)

(* The write program waits in a queue of commands.                         *)
Holds(queue) == \E i \in 1..Len(queue) : queue[i] = "EVAL"

(* Running a program that has run already is what must never happen.       *)
Run(x, e) ==
  effect' = [effect EXCEPT ![x] = IF @ = "none" THEN e ELSE "twice"]

Answer(r) == in' = Append(in, r) /\ out' = Tail(out)

ExecuteLoad ==
  /\ out # <<>> /\ Head(out) = "LOAD"
  /\ \/ cached' = TRUE /\ Answer("LOADED")
     \/ UNCHANGED cached /\ Answer("LOADERR")
  /\ UNCHANGED <<backend, orphans, effect>>

(* Turned away before it runs; NOSCRIPT when the program is not there.     *)
RejectEval ==
  /\ out # <<>> /\ Head(out) = "EVAL"
  /\ \/ ~cached /\ Answer("NOSCRIPT")
     \/ \E r \in {"TRYAGAIN", "PROOF", "ODD"} : Answer(r)
  /\ UNCHANGED <<backend, server>>

(* The program's own answers, and a reply nobody recognises.               *)
ExecuteEval ==
  /\ out # <<>> /\ Head(out) = "EVAL" /\ cached
  /\ \/ UNCHANGED effect /\ Answer("SENTINEL")
     \/ Run(xact, "full") /\ (Answer("OK") \/ Answer("ODD"))
     \/ Run(xact, "part") /\ Answer("INTERNAL")
  /\ UNCHANGED <<backend, cached, orphans>>

(* An EVALSHA nobody waits for runs late, or is lost with its connection.  *)
Orphan(x) ==
  /\ x \in orphans
  /\ orphans' = orphans \ {x}
  /\ \/ cached /\ \E e \in {"full", "part"} : Run(x, e)
     \/ UNCHANGED effect
  /\ UNCHANGED <<backend, out, in, cached>>

(* SCRIPT FLUSH or a restart; another backend's SCRIPT LOAD.               *)
OtherClients ==
  /\ cached' = ~cached
  /\ UNCHANGED <<backend, out, in, orphans, effect>>

-----------------------------------------------------------------------------
(* The backend.                                                            *)

(* Mutant: an error leaves the connection in the pool as it is.            *)
ReportKeeping(r, ended) ==
  /\ said' = [said EXCEPT ![xact] = r]
  /\ pc' = "idle"
  /\ UNCHANGED <<up, loaded, out, in, orphans>>

(* COMMIT returns, or raises.  A batch that was not ended leaves the       *)
(* connection in conversation, and vfdw_conn_xact closes it.               *)
Report(r, ended) ==
  /\ said' = [said EXCEPT ![xact] = r]
  /\ pc' = "idle"
  /\ IF ended THEN UNCHANGED <<up, loaded, out, in, orphans>>
     ELSE /\ up' = FALSE /\ loaded' = FALSE /\ out' = <<>> /\ in' = <<>>
          /\ orphans' = IF Holds(out) THEN orphans \union {xact} ELSE orphans

(* vfdw_flush_pre_commit, of a buffer that is not empty.                   *)
PreCommit ==
  /\ pc = "idle" /\ xact < MaxXacts
  /\ xact' = xact + 1
  /\ pc' = IF up THEN "attempt" ELSE "connect"
  /\ force' = FALSE /\ busy' = 0 /\ phase' = "BEFORE_SEND" /\ tries' = 0
  /\ UNCHANGED <<up, loaded, out, in, server, said>>

(* vfdw_flush_acquire: vfdw_conn_probe_script loads the program, or the    *)
(* server says LOADING or BUSY.                                            *)
Connect ==
  /\ pc = "connect"
  /\ up' = TRUE /\ pc' = "attempt"
  /\ \/ loaded' = TRUE /\ cached' = TRUE
     \/ loaded' = FALSE /\ UNCHANGED cached
  /\ UNCHANGED <<xact, force, busy, phase, out, in, orphans, effect, said, tries>>

ConnectFails ==
  /\ pc = "connect"
  /\ Report("clean", FALSE)
  /\ UNCHANGED <<xact, force, busy, phase, cached, effect, tries>>

Commands == IF force \/ ~loaded THEN <<"LOAD", "EVAL">> ELSE <<"EVAL">>

(* vfdw_flush_attempt as far as the first reply.  The write may complete   *)
(* inside vfdw_batch_add, when pipeline_batch is that small, or in the     *)
(* first vfdw_batch_next; nothing can raise between it and "SENT".         *)
Send ==
  /\ pc = "attempt"
  /\ out' = out \o Commands
  /\ phase' = "SENT" /\ tries' = tries + 1
  /\ pc' = IF Len(Commands) = 2 THEN "load" ELSE "eval"
  /\ UNCHANGED <<xact, up, loaded, force, busy, in, server, said>>

(* The write itself fails, or is cancelled, short of its last byte: inside *)
(* vfdw_batch_add the phase is still "BEFORE_SEND".                        *)
SendFails ==
  /\ pc = "attempt"
  /\ tries' = tries + 1
  /\ IF MaxInflight <= Len(Commands)
     THEN UNCHANGED phase /\ Report("clean", FALSE)
     ELSE phase' = "SENT" /\ Report("unknown", FALSE)
  /\ UNCHANGED <<xact, force, busy, cached, effect>>

(* A failed load is raised as proven clean.                                *)
ReadLoad ==
  /\ pc = "load" /\ in # <<>>
  /\ IF Head(in) = "LOADERR"
     THEN phase' = "PROVEN_CLEAN" /\ Report("load failed", FALSE)
     ELSE /\ pc' = "eval" /\ in' = Tail(in)
          /\ UNCHANGED <<up, loaded, out, orphans, phase, said>>
  /\ UNCHANGED <<xact, force, busy, cached, effect, tries>>

(* Mutant: a reply that is not understood counts as proof.                 *)
ProvesTooMuch == {"SENTINEL", "PROOF", "ODD"}

(* Replies that prove that nothing was applied: the sentinels of phase 1,  *)
(* and the prefixes of vfdw_flush_proves_not_applied.                      *)
ProvesNotApplied == {"SENTINEL", "PROOF"}

(* Mutant: a reply that is not understood is worth another attempt.        *)
RetriesTooMuch == {"NOSCRIPT", "TRYAGAIN", "ODD"}

(* NOSCRIPT, and vfdw_flush_is_retryable: TRYAGAIN stands for LOADING too. *)
Retryable == {"NOSCRIPT", "TRYAGAIN"}

(* vfdw_flush_classify and vfdw_flush_classify_error, terminal cases.      *)
Verdict(reply) ==
  CASE reply = "OK" -> "applied"
    [] reply = "INTERNAL" -> "partial"
    [] reply \in ProvesNotApplied -> "clean"
    [] OTHER -> "unknown"

ReadVerdict ==
  /\ pc = "eval" /\ in # <<>> /\ Head(in) \notin Retryable
  /\ LET r == Verdict(Head(in))
     IN  /\ phase' = IF r = "clean" THEN "PROVEN_CLEAN" ELSE phase
         /\ IF r = "applied"
            THEN /\ said' = [said EXCEPT ![xact] = r] /\ pc' = "idle"
                 /\ loaded' = TRUE /\ in' = Tail(in)
                 /\ UNCHANGED <<up, out, orphans>>
            ELSE Report(r, FALSE)
  /\ UNCHANGED <<xact, force, busy, cached, effect, tries>>

(* Mutant: as many reloads as it takes.                                    *)
NeverGivesUp == FALSE

(* One forced reload, however large write_retry_count is.                  *)
ReloadedAlready == force

ReadNoscript ==
  /\ pc = "eval" /\ in # <<>> /\ Head(in) = "NOSCRIPT"
  /\ phase' = "BEFORE_SEND"
  /\ in' = Tail(in)
  /\ IF ReloadedAlready
     THEN /\ said' = [said EXCEPT ![xact] = "clean"] /\ pc' = "idle"
          /\ UNCHANGED <<loaded, force>>
     ELSE /\ loaded' = FALSE /\ force' = TRUE /\ pc' = "attempt"
          /\ UNCHANGED said
  /\ UNCHANGED <<xact, up, busy, out, server, tries>>

(* Mutant: the budget is compared after the increment.                     *)
BudgetPlusOne == busy > MaxRetries

BudgetSpent == busy >= MaxRetries

ReadBusy ==
  /\ pc = "eval" /\ in # <<>> /\ Head(in) \in Retryable \ {"NOSCRIPT"}
  /\ phase' = "BEFORE_SEND"
  /\ in' = Tail(in)
  /\ IF BudgetSpent
     THEN /\ said' = [said EXCEPT ![xact] = "clean"] /\ pc' = "idle"
          /\ UNCHANGED busy
     ELSE busy' = busy + 1 /\ pc' = "attempt" /\ UNCHANGED said
  /\ UNCHANGED <<xact, up, loaded, force, out, server, tries>>

(* Mutant: no deadline.                                                    *)
WaitForever == FALSE /\ UNCHANGED vars

(* Beneath the classifier: the connection is lost, the deadline passes, a  *)
(* cancel arrives, a frame is malformed.  vfdw_flush_rethrow_indeterminate *)
(* makes it 08007, or the context line says as much.                       *)
ReadFails ==
  /\ pc \in {"load", "eval"}
  /\ Report("unknown", FALSE)
  /\ UNCHANGED <<xact, force, busy, phase, cached, effect, tries>>

Step ==
  \/ Connect \/ ConnectFails \/ Send \/ SendFails
  \/ ReadLoad \/ ReadVerdict \/ ReadNoscript \/ ReadBusy \/ ReadFails

Next ==
  \/ PreCommit \/ Step
  \/ ExecuteLoad \/ RejectEval \/ ExecuteEval \/ OtherClients
  \/ \E x \in Xacts : Orphan(x)

(* The backend runs, and every wait for the socket has a deadline          *)
(* (command_timeout_ms is at least 1); nothing is asked of the server.     *)
Spec == Init /\ [][Next]_vars /\ WF_vars(Step)

-----------------------------------------------------------------------------
(* The types; the retry budget is never overdrawn.                         *)
TypeOK ==
  /\ pc \in {"idle", "connect", "attempt", "load", "eval"}
  /\ xact \in 0..MaxXacts /\ busy \in 0..MaxRetries
  /\ up \in BOOLEAN /\ loaded \in BOOLEAN /\ force \in BOOLEAN /\ cached \in BOOLEAN
  /\ phase \in {"BEFORE_SEND", "SENT", "PROVEN_CLEAN"}
  /\ out \in Seq({"LOAD", "EVAL"})
  /\ in \in Seq({"LOADED", "LOADERR", "NOSCRIPT", "TRYAGAIN", "PROOF", "ODD",
                 "SENTINEL", "OK", "INTERNAL"})
  /\ orphans \subseteq Xacts
  /\ \A x \in Xacts : /\ effect[x] \in {"none", "full", "part", "twice"}
                      /\ said[x] \in {"nothing", "applied", "clean", "partial",
                                      "unknown", "load failed"}

(* The flush keeps the promise of CommitOutcome: retries never apply the   *)
(* unit twice, and each report is true then and ever after.  A load that   *)
(* failed is counted with the unknown outcomes here.                       *)
Outcome == INSTANCE CommitOutcome WITH
  said <- [x \in Xacts |-> IF said[x] = "load failed" THEN "unknown" ELSE said[x]]

KeepsItsPromise == Outcome!Spec

(* The context line under an error raised now would be true: while the     *)
(* phase says that nothing was applied, this transaction's program has not *)
(* run and is on no wire.                                                  *)
PhaseIsTrue ==
  pc # "idle" /\ phase # "SENT" =>
    effect[xact] = "none" /\ ~Holds(out)

(* A connection on which a new attempt starts, or that goes back to the    *)
(* pool, has nothing unread and nothing unexecuted: the next reply read    *)
(* belongs to the next command.                                            *)
StreamClean == pc \in {"idle", "attempt"} => in = <<>> /\ out = <<>>

(* However NOSCRIPT and TRYAGAIN alternate, a flush makes at most          *)
(* write_retry_count + 2 attempts.                                         *)
AttemptBound == tries <= MaxRetries + 2

(* Every COMMIT comes back, whatever the server answers or fails to.       *)
EveryFlushEnds == pc # "idle" ~> pc = "idle"

(* "An error here means the EVALSHA behind it necessarily saw NOSCRIPT and *)
(* nothing ran" (vfdw_flush_attempt, of a SCRIPT LOAD that failed).        *)
LoadFailureMeansNothing ==
  \A x \in Xacts : said[x] = "load failed" => effect[x] = "none"
=============================================================================
