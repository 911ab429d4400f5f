----------------------------- MODULE MCConnPool -----------------------------
(* Two slots; tables on the server's endpoint in two databases, one with a *)
(* ttl column, and a table's keys on another node of a cluster.            *)
EXTENDS ConnPool

CONSTANTS home, other

Ask(node, db, ttl) == [node |-> node, db |-> db, ttl |-> ttl]
MCTables == {Ask(home, 0, FALSE), Ask(home, 1, TRUE), Ask(other, 0, FALSE)}
=============================================================================
