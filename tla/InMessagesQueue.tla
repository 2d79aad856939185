-------------------------- MODULE InMessagesQueue --------------------------
(***************************************************************************)
(* The inbound message queue (engine/messages.rs) with the threads that    *)
(* meet at it: the request threads of the message API, which post the      *)
(* records of one request each (service/message_api.rs), the engine thread *)
(* (engine/engine.rs, run and execute_queued_messages) and the control     *)
(* request that stops the engine (service/engine_manager.rs, stop).        *)
(*                                                                         *)
(* A step is what the code does atomically: one atomic load or store, or   *)
(* one critical section of the storage mutex.  parking_lot's condition     *)
(* variable has no spurious wake-ups; a notification that finds nobody     *)
(* parked is lost.                                                         *)
(***************************************************************************)
EXTENDS Naturals, SequencesExt

CONSTANTS
    Messages,       \* the records ever posted, each with its message
    Senders,        \* the request threads
    Request,        \* the records of each sender's request, in order
    Workchain,      \* the node's workchain
    Masterchain,    \* the masterchain
    WorkchainOf,    \* the workchain of a message: one of the two, or another one
    Keyless,        \* records without a key or without a value
    Garbled,        \* records that are no message, or not the one of their key
    Capacity,       \* the queue's capacity
    MaxFailures,    \* bound on the block generations that fail
    MayStop         \* whether a control request may stop the engine

ASSUME RequestAssumption ==
    /\ Request \in [Senders -> Seq(Messages)]
    /\ \A s, t \in Senders :
         \A i \in 1..Len(Request[s]), j \in 1..Len(Request[t]) :
            Request[s][i] = Request[t][j] => s = t /\ i = j

ASSUME CapacityAssumption == Capacity \in Nat \ {0}

ASSUME BoundsAssumption == MaxFailures \in Nat /\ MayStop \in BOOLEAN

ASSUME WorkchainAssumption == Workchain # Masterchain

VARIABLES
    storage,    \* the queue, oldest message first
    stopped,    \* the queue's stopped flag
    spc,        \* where each sender is
    next,       \* index of the record each sender is posting
    epc,        \* where the engine thread is
    progress,   \* continue_processing of execute_queued_messages
    failures,   \* failed block generations so far
    cpc,        \* where the control request is
    ticket,     \* history: arrival number of a message, 0 if not accepted
    count,      \* history: number of accepted messages
    missed,     \* history: accepted between the engine's last look and its parking
    late        \* history: accepted after the stopped flag was set

senderVars == <<spc, next>>
engineVars == <<epc, progress, failures>>
history    == <<ticket, count, missed, late>>
vars == <<storage, stopped, senderVars, engineVars, cpc, history>>

SenderSteps  == {"skip", "node", "check", "push", "ok", "bad request", "refused"}
EngineSteps  == {"workchain", "masterchain", "empty", "enter", "park", "parked", "woken", "done"}
ControlSteps == {"idle", "notify", "join", "stopped"}

Message(s) == Request[s][next[s]]

Incomplete(s, n) == Request[s][n] \in Keyless

(* The records of a request that have a key and a value.                   *)
Complete(s) == {n \in 1..Len(Request[s]) : ~Incomplete(s, n)}

(* Fault: a record that cannot be parsed is posted like any other.         *)
SenderStepUnparsed(s, n) ==
    IF n > Len(Request[s]) THEN "ok" ELSE IF Incomplete(s, n) THEN "skip" ELSE "node"

(* A record is parsed only if it has a key and a value.                    *)
Unparsable(s, n) == ~Incomplete(s, n) /\ Request[s][n] \in Garbled

(* A request with no record left is answered with OK, one whose next       *)
(* record cannot be parsed with an error.                                  *)
SenderStep(s, n) ==
    IF n > Len(Request[s]) THEN "ok"
    ELSE IF Incomplete(s, n) THEN "skip"
    ELSE IF Unparsable(s, n) THEN "bad request" ELSE "node"

Init ==
    /\ storage = <<>>
    /\ stopped = FALSE
    /\ next = [s \in Senders |-> 1]
    /\ spc = [s \in Senders |-> SenderStep(s, 1)]
    /\ epc = "workchain"
    /\ progress = FALSE
    /\ failures = 0
    /\ cpc = "idle"
    /\ ticket = [m \in Messages |-> 0]
    /\ count = 0
    /\ missed = {}
    /\ late = {}

-----------------------------------------------------------------------------
(* The senders.                                                            *)

(* The manager's lock is held for writing from the flag to the join.       *)
Locked == cpc \in {"notify", "join"}

(* process_request: a record without a key or a value is passed over, and  *)
(* the request goes on as if it had been posted.                           *)
SkipRecord(s) ==
    /\ spc[s] = "skip"
    /\ next' = [next EXCEPT ![s] = @ + 1]
    /\ spc' = [spc EXCEPT ![s] = SenderStep(s, next[s] + 1)]
    /\ UNCHANGED <<storage, stopped, engineVars, cpc, history>>

(* process_request: each attempt fetches the node under the read lock.     *)
GetNode(s) ==
    /\ spc[s] = "node"
    /\ ~Locked
    /\ spc' = [spc EXCEPT ![s] = "check"]
    /\ UNCHANGED <<storage, stopped, next, engineVars, cpc, history>>

(* queue: the stopped flag is read before the lock is taken.  A stopped    *)
(* queue refuses, and the whole request is answered with an error.         *)
CheckStopped(s) ==
    /\ spc[s] = "check"
    /\ spc' = [spc EXCEPT ![s] = IF stopped THEN "refused" ELSE "push"]
    /\ UNCHANGED <<storage, stopped, next, engineVars, cpc, history>>

(* Fault: the capacity is checked with > instead of >=.                    *)
IsFullLate == Len(storage) > Capacity

IsFull == Len(storage) >= Capacity

(* Fault: the message of a full queue is dropped, not given back.          *)
RejectFullAndDrop(s) ==
    /\ spc[s] = "push"
    /\ IsFull
    /\ next' = [next EXCEPT ![s] = @ + 1]
    /\ spc' = [spc EXCEPT ![s] = SenderStep(s, next[s] + 1)]
    /\ UNCHANGED <<storage, stopped, engineVars, cpc, history>>

(* queue: a full queue gives the message back, and after a pause the       *)
(* request thread posts the same message again.                            *)
RejectFull(s) ==
    /\ spc[s] = "push"
    /\ IsFull
    /\ spc' = [spc EXCEPT ![s] = "node"]
    /\ UNCHANGED <<storage, stopped, next, engineVars, cpc, history>>

(* notify_one wakes the engine thread, the only one that ever waits.       *)
Notified == IF epc = "parked" THEN "woken" ELSE epc

(* queue: the message goes to the end, then the engine is notified.        *)
Push(s) ==
    /\ spc[s] = "push"
    /\ ~IsFull
    /\ storage' = Append(storage, Message(s))
    /\ epc' = Notified
    /\ next' = [next EXCEPT ![s] = @ + 1]
    /\ spc' = [spc EXCEPT ![s] = SenderStep(s, next[s] + 1)]
    /\ count' = count + 1
    /\ ticket' = [ticket EXCEPT ![Message(s)] = count + 1]
    /\ missed' = IF epc \in {"enter", "park"} THEN missed \union {Message(s)} ELSE missed
    /\ late' = IF stopped THEN late \union {Message(s)} ELSE late
    /\ UNCHANGED <<stopped, progress, failures, cpc>>

-----------------------------------------------------------------------------
(* The engine thread.                                                      *)

(* The workchain whose block is being built.                               *)
Collating == IF epc = "workchain" THEN Workchain ELSE Masterchain

(* The positions of the messages of workchain w.                           *)
Addressed(w) == {i \in 1..Len(storage) : WorkchainOf[storage[i]] = w}

(* Fault: the newest message of the workchain is dequeued.                 *)
Newest(w) == {i \in Addressed(w) : \A j \in Addressed(w) : j <= i}

(* The position of the oldest message of workchain w, if there is one.     *)
Oldest(w) == {i \in Addressed(w) : \A j \in Addressed(w) : i <= j}

(* Fault: the messages behind it leave the queue with it.                  *)
Truncated(i) == SubSeq(storage, 1, i - 1)

Removed(i) == RemoveAt(storage, i)

(* dequeue: the first message of the workchain leaves the queue.  A        *)
(* masterchain block may be full after it (is_limits_reached), then the    *)
(* loop of execute_queued_messages starts over; a full workchain block is  *)
(* followed by another workchain block.                                    *)
Dequeue ==
    /\ epc \in {"workchain", "masterchain"}
    /\ \E i \in Oldest(Collating) : storage' = Removed(i)
    /\ \E full \in BOOLEAN :
         /\ epc' = IF full THEN "workchain" ELSE epc
         /\ progress' = ~(full /\ epc = "masterchain")
    /\ UNCHANGED <<stopped, senderVars, failures, cpc, history>>

(* dequeue finds no message: the block ends, and with it the inner loop or *)
(* one turn of the outer loop.                                             *)
DequeueNone ==
    /\ epc \in {"workchain", "masterchain"}
    /\ Addressed(Collating) = {}
    /\ IF epc = "workchain"
         THEN epc' = "masterchain" /\ progress' = progress
         ELSE epc' = (IF progress THEN "workchain" ELSE "empty") /\ progress' = FALSE
    /\ UNCHANGED <<storage, stopped, senderVars, failures, cpc, history>>

(* A block generation fails: execute_queued_messages returns the error,    *)
(* run logs it.  Internal messages may be left in an out queue, then       *)
(* message_queues_are_empty is false before it looks at this queue.        *)
FailGeneration ==
    /\ epc \in {"workchain", "masterchain"}
    /\ failures < MaxFailures
    /\ failures' = failures + 1
    /\ \E left \in BOOLEAN : epc' = IF left THEN "workchain" ELSE "empty"
    /\ progress' = FALSE
    /\ UNCHANGED <<storage, stopped, senderVars, cpc, history>>

(* Fault: only messages of the node's own workchain count.                 *)
NoneForWorkchain == Addressed(Workchain) = {}

NothingQueued == storage = <<>>

(* run: message_queues_are_empty looks at the storage under the lock, and  *)
(* gives the lock back.                                                    *)
LookEmpty ==
    /\ epc = "empty"
    /\ epc' = IF NothingQueued THEN "enter" ELSE "workchain"
    /\ UNCHANGED <<storage, stopped, senderVars, progress, failures, cpc, history>>

(* Fault: the flag is not read before the wait.                            *)
EnterWaitBlind ==
    /\ epc = "enter"
    /\ epc' = "park"
    /\ UNCHANGED <<storage, stopped, senderVars, progress, failures, cpc, history>>

(* wait_new_message: the stopped flag is read before the lock is taken.    *)
EnterWait ==
    /\ epc = "enter"
    /\ epc' = IF stopped THEN "done" ELSE "park"
    /\ UNCHANGED <<storage, stopped, senderVars, progress, failures, cpc, history>>

(* wait_new_message: under the lock, the thread waits, whatever the        *)
(* storage holds by now.                                                   *)
Park ==
    /\ epc = "park"
    /\ epc' = "parked"
    /\ UNCHANGED <<storage, stopped, senderVars, progress, failures, cpc, history>>

(* Fault: the flag is not read again after the wait.                       *)
AfterWaitAlways == "workchain"

AfterWait == IF stopped THEN "done" ELSE "workchain"

(* wait_new_message: the woken thread reads the stopped flag again.        *)
WakeUp ==
    /\ epc = "woken"
    /\ epc' = AfterWait
    /\ UNCHANGED <<storage, stopped, senderVars, progress, failures, cpc, history>>

-----------------------------------------------------------------------------
(* The control request that stops the engine.                              *)

(* stop: with the manager's lock, but not the storage's, the flag is set,  *)
SetStopped ==
    /\ MayStop
    /\ cpc = "idle"
    /\ stopped' = TRUE
    /\ cpc' = "notify"
    /\ UNCHANGED <<storage, senderVars, engineVars, history>>

(* then the engine thread is notified, ...                                 *)
NotifyStopped ==
    /\ cpc = "notify"
    /\ epc' = Notified
    /\ cpc' = "join"
    /\ UNCHANGED <<storage, stopped, senderVars, progress, failures, history>>

(* ... and the manager waits for the engine thread to end.                 *)
Join ==
    /\ cpc = "join"
    /\ epc = "done"
    /\ cpc' = "stopped"
    /\ UNCHANGED <<storage, stopped, senderVars, engineVars, history>>

-----------------------------------------------------------------------------

Sender(s) == SkipRecord(s) \/ GetNode(s) \/ CheckStopped(s) \/ RejectFull(s) \/ Push(s)

Engine == Dequeue \/ DequeueNone \/ LookEmpty \/ EnterWait \/ Park \/ WakeUp

Control == SetStopped \/ NotifyStopped \/ Join

Next == (\E s \in Senders : Sender(s)) \/ Engine \/ FailGeneration \/ Control

Spec == Init /\ [][Next]_vars

(* The operating system runs every thread that can run: the request        *)
(* threads, the engine thread, and a stop request that has begun.  Nothing *)
(* forces a stop request to come, or a block generation to fail.           *)
Fairness ==
    /\ \A s \in Senders : WF_vars(Sender(s))
    /\ WF_vars(Engine)
    /\ WF_vars(NotifyStopped \/ Join)

FairSpec == Spec /\ Fairness
-----------------------------------------------------------------------------
(* The properties.                                                         *)

Queued(m) == \E i \in 1..Len(storage) : storage[i] = m

Taken(m) == ticket[m] > 0 /\ ~Queued(m)

(* Every variable has its type, and however many request threads push at   *)
(* once, the queue never holds more than its capacity.                     *)
TypeOK ==
    /\ storage \in Seq(Messages)
    /\ Len(storage) <= Capacity
    /\ stopped \in BOOLEAN
    /\ spc \in [Senders -> SenderSteps]
    /\ next \in [Senders -> Nat]
    /\ \A s \in Senders : next[s] \in 1..Len(Request[s]) + 1
    /\ epc \in EngineSteps
    /\ progress \in BOOLEAN
    /\ failures \in 0..MaxFailures
    /\ cpc \in ControlSteps
    /\ count \in Nat
    /\ ticket \in [Messages -> 0..count]
    /\ missed \subseteq Messages
    /\ late \subseteq Messages

(* A request answered with OK has had every record with a key and a value  *)
(* accepted, although the queue may have been full in between and emptied  *)
(* or stopped at any time; and at most its last such record came after the *)
(* stop flag was set, between the reading of the flag and the lock, so to  *)
(* an engine that may have ended (process_request, queue).  Accepted is    *)
(* not executed: what is queued when the engine ends is dropped with it.   *)
OkMeansAccepted ==
    \A s \in Senders : spc[s] = "ok" =>
        \A i \in Complete(s) :
            /\ ticket[Request[s][i]] > 0
            /\ Request[s][i] \in late => \A j \in Complete(s) : j <= i

(* A request answered with a parse error has had the records with a key    *)
(* and a value before the unparsable one accepted; that one and those      *)
(* behind it never are, whatever the queue and a stop did in between       *)
(* (process_request returns in the middle of its loop).                    *)
BadRequestAcceptsPrefix ==
    \A s \in Senders :
        /\ spc[s] = "bad request" =>
              \E n \in 1..Len(Request[s]) :
                  /\ Unparsable(s, n)
                  /\ \A i \in Complete(s) : i < n => ticket[Request[s][i]] > 0
        /\ \A n \in 1..Len(Request[s]) : Unparsable(s, n) =>
              \A i \in n..Len(Request[s]) : ticket[Request[s][i]] = 0

(* The records of one request that go to one workchain are executed in the *)
(* order of the request: none is taken while an earlier one, with a key    *)
(* and a value, is not.                                                    *)
RequestOrderKept ==
    \A s \in Senders : \A i, j \in Complete(s) :
        /\ i < j
        /\ WorkchainOf[Request[s][i]] = WorkchainOf[Request[s][j]]
        /\ Taken(Request[s][j])
        => Taken(Request[s][i])

(* The queue with its threads is a mailbox: each message accepted at most  *)
(* once, taken at most once, first-in first-out within each workchain.     *)
Box == INSTANCE Inbox WITH waiting <- {m \in Messages : Queued(m)}

ImplementsInbox == Box!BoxSpec

(* Once accepted, a message of one of the node's two chains is taken by    *)
(* the engine or the engine is stopped, whatever blocks fail meanwhile;    *)
(* the one exception is a message that came between the engine's last look *)
(* at the queue and its parking, for as long as it stays parked.           *)
AcceptedIsTaken ==
    \A m \in Messages : WorkchainOf[m] \in {Workchain, Masterchain} =>
        (Queued(m) /\ ~(m \in missed /\ epc \in {"enter", "park", "parked"}))
            ~> (Taken(m) \/ stopped)

(* The unqualified form of AcceptedIsTaken: every accepted message of the  *)
(* node's two chains is taken, or the engine is stopped.                   *)
EveryAcceptedIsTaken ==
    \A m \in Messages : WorkchainOf[m] \in {Workchain, Masterchain} =>
        Queued(m) ~> (Taken(m) \/ stopped)

(* A stop request that finds the engine parked, or already woken by a last *)
(* message, ends with the engine thread ended and joined.                  *)
StopReachesParkedEngine ==
    (cpc = "notify" /\ epc \in {"parked", "woken"}) ~> (epc = "done" /\ cpc = "stopped")

(* A message of a workchain the node does not have is queued: no block     *)
(* takes it, so message_queues_are_empty is false for as long as the       *)
(* engine lives.                                                           *)
ForeignQueued ==
    \E i \in 1..Len(storage) : WorkchainOf[storage[i]] \notin {Workchain, Masterchain}

(* A stop request that finds the engine at work, before its last look at   *)
(* the flag, ends too: the engine executes what is queued, also what comes *)
(* past the flag, and then sees the flag with no need to be notified.  The *)
(* one exception is a queued message of another workchain, with which the  *)
(* engine never looks at the flag and the stop may wait for ever.          *)
StopReachesWorkingEngine ==
    (cpc = "notify" /\ epc \in {"workchain", "masterchain", "empty", "enter"})
        ~> (cpc = "stopped" \/ ForeignQueued)

(* The unqualified form: every stop request ends.                          *)
StopEnds == (cpc = "notify") ~> (cpc = "stopped")
=============================================================================
