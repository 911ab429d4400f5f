--------------------------- MODULE CommitOutcome ---------------------------
(***************************************************************************)
(* What the pre-commit flush promises of each transaction, whatever the    *)
(* network and the server do: its program takes effect at most once, and   *)
(* the report is true of what happened and of what can still happen.  Only *)
(* a report of an unknown outcome leaves the effect open.                  *)
(***************************************************************************)
CONSTANT Xacts

VARIABLES
  effect,   \* what a transaction's program has done to the keyspace
  said      \* what its COMMIT reported

vars == <<effect, said>>

Init ==
  /\ effect = [x \in Xacts |-> "none"]
  /\ said = [x \in Xacts |-> "nothing"]

Apply(x) ==
  /\ effect[x] = "none" /\ said[x] \in {"nothing", "unknown"}
  /\ \E e \in {"full", "part"} : effect' = [effect EXCEPT ![x] = e]
  /\ UNCHANGED said

Report(x) ==
  /\ said[x] = "nothing"
  /\ \E r \in {"applied", "clean", "partial", "unknown"} :
       /\ r = "applied" => effect[x] = "full"
       /\ r = "clean" => effect[x] = "none"
       /\ r = "partial" => effect[x] = "part"
       /\ said' = [said EXCEPT ![x] = r]
  /\ UNCHANGED effect

Next == \E x \in Xacts : Apply(x) \/ Report(x)

Spec == Init /\ [][Next]_vars
=============================================================================
