---------------------------- MODULE ArangoHelper ----------------------------
(***************************************************************************)
(* The documents of the node on their way to ArangoDB (data/arango.rs and  *)
(* block/json.rs).  An engine has a helper: it hands the documents of each *)
(* block to a channel, whose worker thread posts them one after the other  *)
(* and tries for ever.  A control request stops the engine, may empty the  *)
(* collections, and makes a new engine with a helper of its own; the old   *)
(* worker ends when its channel is empty, and until then posts on.         *)
(*                                                                         *)
(* The database may be out of reach, refuse a request, or lose its answer; *)
(* a request that was given up is never carried out later.                 *)
(***************************************************************************)
EXTENDS Naturals, FiniteSets, SequencesExt

CONSTANTS
    Accounts, Messages,    \* the ids of documents that several blocks may have
    MaxBlocks,             \* bound on the blocks
    MaxHelpers,            \* bound on the engines of a process
    MaxFailures,           \* bound on the requests refused or with a lost answer, and on outages
    MaxCrashes             \* bound on the crashes of the node

ASSUME HelperBounds ==
    /\ MaxBlocks \in Nat /\ MaxHelpers \in Nat \ {0}
    /\ MaxFailures \in Nat /\ MaxCrashes \in Nat
    /\ IsFiniteSet(Accounts) /\ IsFiniteSet(Messages)

VARIABLES
    node,          \* the engine: running, stopped, or its database being cleared
    cleared,       \* number of collections emptied by clear_db
    helper,        \* the helper of the last engine
    pending,       \* for each helper: the document its worker has, and its channel
    job,           \* for each helper: what its worker does
    timeout,       \* for each helper: the pause before the next attempt, in ms
    trouble,       \* for each helper: has_delivery_problems
    reachable,     \* whether the database can be reached
    db,            \* the documents in the database
    blocks, failures, crashes,
    written,       \* history: whether the worker's document was written
    due,           \* history: the documents that should be in the database or get there
    tangled,       \* history: keys whose documents two workers had at once
    first          \* history: the first block since the collections were emptied

Helpers == 1..MaxHelpers

workers == <<pending, job, timeout, trouble, written>>
engine  == <<node, cleared, helper>>
counts  == <<blocks, failures, crashes>>
history == <<due, tangled, first>>
vars == <<engine, workers, reachable, db, counts, history>>

FirstTimeout == 1000
MaxTimeout   == 20000

-----------------------------------------------------------------------------
(* Documents                                                               *)

(* The collections in the order in which clear_db empties them.            *)
Collections == <<"accounts", "blocks", "messages", "transactions">>

Document == [coll : Range(Collections), id : Accounts \union Messages \union Nat, block : Nat]

Key(d) == [coll |-> d.coll, id |-> d.id]

SameKey(d, e) == Key(d) = Key(e)

(* The documents of a message, of the blocks that send and receive it, are *)
(* merged by the database; other documents are replaced.                   *)
Updated(d) == d.coll = "messages"

(* Fault: every document replaces the one with its key.                    *)
Replaced(docs, d) == {e \in docs : ~SameKey(d, e)} \union {d}

Written(docs, d) == {e \in docs : Updated(d) \/ ~SameKey(d, e)} \union {d}

(* reflect_block_in_db: a block's documents in the order they are put.     *)
DocumentsOf(n, accounts, messages) ==
    LET Of(coll, ids) == SetToSeq({[coll |-> coll, id |-> i, block |-> n] : i \in ids})
    IN  Of("blocks", {n}) \o Of("accounts", accounts) \o Of("transactions", {n})
            \o Of("messages", messages)

Init ==
    /\ node = "running" /\ cleared = 0 /\ helper = 1
    /\ pending = [h \in Helpers |-> <<>>]
    /\ job = [h \in Helpers |-> IF h = 1 THEN "wait" ELSE "none"]
    /\ timeout = [h \in Helpers |-> FirstTimeout]
    /\ trouble = [h \in Helpers |-> FALSE]
    /\ reachable = TRUE /\ db = {}
    /\ blocks = 0 /\ failures = 0 /\ crashes = 0
    /\ written = [h \in Helpers |-> FALSE]
    /\ due = {} /\ tangled = {} /\ first = 1

(* put_block, put_account, put_transaction, put_message.                   *)
ReflectBlock ==
    /\ node = "running" /\ blocks < MaxBlocks
    /\ blocks' = blocks + 1
    /\ \E accounts \in SUBSET Accounts \ {{}}, messages \in SUBSET Messages :
          LET docs == DocumentsOf(blocks', accounts, messages)
          IN  /\ pending' = [pending EXCEPT ![helper] = @ \o docs]
              /\ due' = due \union Range(docs)
              /\ tangled' = tangled \union
                    {Key(d) : d \in {e \in Range(docs) :
                        \E h \in Helpers \ {helper} : \E o \in Range(pending[h]) : SameKey(o, e)}}
    /\ UNCHANGED <<engine, job, timeout, trouble, written, reachable, db,
                   failures, crashes, first>>

-----------------------------------------------------------------------------
(* The worker: put_records_worker, post_to_arango                          *)

TakeDocument(h) ==
    /\ job[h] = "wait" /\ pending[h] # <<>>
    /\ job' = [job EXCEPT ![h] = "post"]
    /\ timeout' = [timeout EXCEPT ![h] = FirstTimeout]
    /\ UNCHANGED <<engine, pending, trouble, written, reachable, db, counts, history>>

WriteDocument(h) ==
    /\ db' = Written(db, Head(pending[h]))
    /\ written' = [written EXCEPT ![h] = TRUE]

Post(h) ==
    /\ job[h] = "post" /\ reachable
    /\ WriteDocument(h)
    /\ job' = [job EXCEPT ![h] = "posted"]
    /\ UNCHANGED <<engine, pending, timeout, trouble, reachable, counts, history>>

Answered(h) ==
    /\ job[h] = "posted"
    /\ job' = [job EXCEPT ![h] = "wait"]
    /\ pending' = [pending EXCEPT ![h] = Tail(@)]
    /\ trouble' = [trouble EXCEPT ![h] = FALSE]
    /\ written' = [written EXCEPT ![h] = FALSE]
    /\ UNCHANGED <<engine, timeout, reachable, db, counts, history>>

Fail == failures < MaxFailures /\ failures' = failures + 1

(* Fault: the document is put back at the end of the channel.              *)
PutBack(h) == [pending EXCEPT ![h] = Append(Tail(@), Head(@))]

Kept(h) == pending

(* Fault: an error status is taken for an answer.                          *)
AnyAnswer == "posted"

AfterError == "sleep"

(* An error status, an answer that is lost, or no connection.              *)
PostFails(h) ==
    /\ job[h] = "post"
    /\ trouble' = [trouble EXCEPT ![h] = TRUE]
    /\ job' = [job EXCEPT ![h] = AfterError]
    /\ pending' = Kept(h)
    /\ \/ reachable /\ Fail /\ UNCHANGED <<db, written>>
       \/ reachable /\ Fail /\ WriteDocument(h)
       \/ ~reachable /\ UNCHANGED <<db, written, failures>>
    /\ UNCHANGED <<engine, timeout, reachable, blocks, crashes, history>>

(* Fault: the timeout has no limit.                                        *)
DoubledTimeout(t) == 2 * t

(* TIMEOUT_BACKOFF_MULTIPLIER, 1.2, is cut to an integer first.            *)
NextTimeout(t) ==
    LET next == t * (12 \div 10) IN IF next < MaxTimeout THEN next ELSE MaxTimeout

WakeUp(h) ==
    /\ job[h] = "sleep"
    /\ job' = [job EXCEPT ![h] = "post"]
    /\ timeout' = [timeout EXCEPT ![h] = NextTimeout(@)]
    /\ UNCHANGED <<engine, pending, trouble, written, reachable, db, counts, history>>

(* Fault: the worker ends with its engine.                                 *)
DrainedAnyway(h) == TRUE

(* The receiver gives what is in the channel before it says it is closed.  *)
Drained(h) == pending[h] = <<>>

WorkerEnds(h) ==
    /\ job[h] = "wait" /\ h # helper /\ Drained(h)
    /\ job' = [job EXCEPT ![h] = "none"]
    /\ UNCHANGED <<engine, pending, timeout, trouble, written, reachable, db, counts, history>>

Worker(h) ==
    TakeDocument(h) \/ Post(h) \/ Answered(h) \/ PostFails(h) \/ WakeUp(h) \/ WorkerEnds(h)

-----------------------------------------------------------------------------
(* The engine manager                                                      *)

Stop ==
    /\ node = "running" /\ helper < MaxHelpers
    /\ node' = "stopped"
    /\ UNCHANGED <<cleared, helper, workers, reachable, db, counts, history>>

BeginClear ==
    /\ node = "stopped"
    /\ node' = "clearing" /\ cleared' = 0
    /\ UNCHANGED <<helper, workers, reachable, db, counts, history>>

(* Documents that a worker has not seen through are written again later.   *)
ToBeWritten(d) ==
    \E h \in Helpers : \E i \in DOMAIN pending[h] :
        pending[h][i] = d /\ (i > 1 \/ job[h] # "posted")

Emptied(coll) ==
    /\ db' = {d \in db : d.coll # coll}
    /\ due' = {d \in due : d.coll # coll \/ ToBeWritten(d)}

(* clear_db                                                                *)
ClearCollection ==
    /\ node = "clearing" /\ reachable
    /\ Emptied(Collections[cleared + 1])
    /\ cleared' = cleared + 1
    /\ node' = IF cleared' = Len(Collections) THEN "cleared" ELSE node
    /\ first' = IF cleared' = Len(Collections) THEN blocks + 1 ELSE first
    /\ UNCHANGED <<helper, workers, reachable, counts, tangled>>

ClearFails ==
    /\ node = "clearing"
    /\ node' = "stopped" /\ cleared' = 0
    /\ \/ reachable /\ Fail /\ UNCHANGED <<db, due>>
       \/ reachable /\ Fail /\ Emptied(Collections[cleared + 1])
       \/ ~reachable /\ UNCHANGED <<db, due, failures>>
    /\ UNCHANGED <<helper, workers, reachable, blocks, crashes, tangled, first>>

(* create_engine and the assignment that drops the engine before.          *)
NewEngine ==
    /\ node \in {"stopped", "cleared"}
    /\ node' = "running" /\ cleared' = 0 /\ helper' = helper + 1
    /\ job' = [job EXCEPT ![helper'] = "wait"]
    /\ UNCHANGED <<pending, timeout, trouble, written, reachable, db, counts, history>>

(* The process ends, and the channels with it, and is started again.       *)
Crash ==
    /\ crashes < MaxCrashes
    /\ crashes' = crashes + 1
    /\ node' = "running" /\ cleared' = 0 /\ helper' = 1
    /\ pending' = [h \in Helpers |-> <<>>]
    /\ job' = [h \in Helpers |-> IF h = 1 THEN "wait" ELSE "none"]
    /\ timeout' = [h \in Helpers |-> FirstTimeout]
    /\ trouble' = [h \in Helpers |-> FALSE]
    /\ written' = [h \in Helpers |-> FALSE]
    /\ due' = {d \in due : d \in db \/ \A h \in Helpers : d \notin Range(pending[h])}
    /\ UNCHANGED <<reachable, db, blocks, failures, tangled, first>>

Outage ==
    /\ reachable /\ Fail
    /\ reachable' = FALSE
    /\ UNCHANGED <<engine, workers, db, blocks, crashes, history>>

Recover ==
    /\ ~reachable
    /\ reachable' = TRUE
    /\ UNCHANGED <<engine, workers, db, counts, history>>

Next ==
    \/ ReflectBlock
    \/ \E h \in Helpers : Worker(h)
    \/ Stop \/ BeginClear \/ ClearCollection \/ ClearFails \/ NewEngine
    \/ Crash \/ Outage \/ Recover

(* Worker threads run, and an outage ends.                                 *)
Fairness == WF_vars(Recover) /\ \A h \in Helpers : WF_vars(Worker(h))

Spec == Init /\ [][Next]_vars

FairSpec == Spec /\ Fairness

-----------------------------------------------------------------------------
(* Properties                                                              *)

(* The variables have their types; a worker with a document to post or     *)
(* posted has one, and its pause is within the limits of the constants.    *)
TypeOK ==
    /\ node \in {"running", "stopped", "clearing", "cleared"}
    /\ cleared \in 0..Len(Collections) /\ helper \in Helpers
    /\ pending \in [Helpers -> Seq(Document)]
    /\ job \in [Helpers -> {"none", "wait", "post", "posted", "sleep"}]
    /\ timeout \in [Helpers -> FirstTimeout..MaxTimeout]
    /\ trouble \in [Helpers -> BOOLEAN] /\ written \in [Helpers -> BOOLEAN]
    /\ reachable \in BOOLEAN /\ db \subseteq Document
    /\ blocks \in 0..MaxBlocks /\ failures \in 0..MaxFailures
    /\ crashes \in 0..MaxCrashes
    /\ due \subseteq Document /\ first \in 1..(MaxBlocks + 1)
    /\ \A h \in Helpers : job[h] \in {"post", "posted", "sleep"} => pending[h] # <<>>

(* The worker keeps the promise of DocumentLog: each document is written,  *)
(* in the order of the channel, whatever was refused or lost in between.   *)
Promised == INSTANCE DocumentLog WITH Sources <- Helpers

ImplementsDocumentLog == Promised!LogSpec

(* Once no worker has a document of a key, the database has of that key    *)
(* what the documents handed over since it was emptied make: the newest    *)
(* one, or all of a message.  Only the documents of an account that two    *)
(* workers had at once may have overtaken each other.                      *)
DatabaseFollowsLog ==
    \A d \in due \union db :
        LET OfKey(docs) == {e \in docs : SameKey(d, e)}
            newest      == {e \in OfKey(due) : \A f \in OfKey(due) : f.block <= e.block}
        IN  \/ \E h \in Helpers : OfKey(Range(pending[h])) # {}
            \/ Key(d) \in tangled
            \/ OfKey(db) = IF Updated(d) THEN OfKey(due) ELSE newest

(* The document of an account never goes back to that of an earlier block, *)
(* though posts are repeated, unless two workers had it at once.           *)
NewestStays ==
    [][\A d \in db : \A e \in db' \ db :
          (d.coll = "accounts" /\ SameKey(d, e) /\ Key(d) \notin tangled) => d.block <= e.block]_vars

(* Every document handed over is posted in the end, those of an engine     *)
(* that was replaced as well, unless the process ends.                     *)
ChannelsDrain == \A h \in Helpers : pending[h] # <<>> ~> pending[h] = <<>>

(* A reset leaves nothing of the blocks before it in the database.         *)
ResetClearsDocuments == node = "running" => \A d \in db : d.block >= first
=============================================================================
