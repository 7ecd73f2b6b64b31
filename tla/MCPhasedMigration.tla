-------------------------- MODULE MCPhasedMigration -------------------------
(* Three requests, two of which may compete for a job, and a small table.  *)
EXTENDS PhasedMigration

(* Time stamps that PostgreSQL tells apart or not, with a precision of 2.  *)
MCVals == {0, 1}
MCContent == {0, 1, 2}

(* Two starting points: an empty store, and two requests with times below  *)
(* the precision and two events of which the first was deleted.            *)
MCInit ==
    /\ Init
    /\ Rows(req) \in {{}, {1, 2}}
    /\ \A i \in Rows(req) : req[i].val = 1 /\ (i = 1 => req[i].job # NoJob)
    /\ small = NoTables
    /\ eseq = Cardinality(Rows(req)) /\ events = {e \in EventIds : e = 2 /\ e <= eseq}

MCSpec == MCInit /\ [][Next]_vars
=============================================================================
