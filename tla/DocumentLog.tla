---- MODULE DocumentLog ----
(***************************************************************************)
(* What the document database client promises: every source has a queue of *)
(* documents, the first one is written at least once before it is left,    *)
(* and no document is written before those in front of it.  Queues are     *)
(* lost with the process, and collections are emptied at any time.         *)
(***************************************************************************)
EXTENDS SequencesExt

CONSTANTS Sources,
          Written(_, _)     \* what writing a document makes of the database

VARIABLES pending,       \* the documents of each source that are not left yet
          written,       \* whether the first one was written
          db             \* the documents in the database

logVars == <<pending, written, db>>

LogInit ==
    /\ pending = [s \in Sources |-> <<>>]
    /\ written = [s \in Sources |-> FALSE]
    /\ db = {}

Hand(s) ==
    /\ IsPrefix(pending[s], pending'[s])
    /\ pending' = [pending EXCEPT ![s] = pending'[s]]
    /\ UNCHANGED <<written, db>>

Write(s) ==
    /\ pending[s] # <<>>
    /\ db' = Written(db, Head(pending[s]))
    /\ written' = [written EXCEPT ![s] = TRUE]
    /\ UNCHANGED pending

Leave(s) ==
    /\ written[s]
    /\ pending' = [pending EXCEPT ![s] = Tail(@)]
    /\ written' = [written EXCEPT ![s] = FALSE]
    /\ UNCHANGED db

Truncate ==
    /\ db' \subseteq db
    /\ \A d \in db \ db', e \in db' : d.coll # e.coll
    /\ UNCHANGED <<pending, written>>

Lose ==
    /\ pending' = [s \in Sources |-> <<>>]
    /\ written' = [s \in Sources |-> FALSE]
    /\ UNCHANGED db

LogNext == Truncate \/ Lose \/ \E s \in Sources : Hand(s) \/ Write(s) \/ Leave(s)

LogSpec == LogInit /\ [][LogNext]_logVars
====
