--------------------------- MODULE EngineManager ---------------------------
(***************************************************************************)
(* Control requests and the engines they stop and make: the REST handler   *)
(* (service/control_api.rs), the manager with the lock around the engine   *)
(* and its thread (service/engine_manager.rs), the configuration fetched   *)
(* from a forked network (data/fork_provider.rs), the start of the process *)
(* (service/mod.rs, main.rs), and the files of both chains.                *)
(* The node may start on the files of an earlier run.                      *)
(*                                                                         *)
(* The generation of a chain is one more than the number of times files    *)
(* were cleared before it began.  A thread ended by a stop may also miss   *)
(* it and wait for ever: InMessagesQueue has that in detail.               *)
(***************************************************************************)
EXTENDS Naturals, Sequences

CONSTANTS
    Clients,          \* the threads that serve requests
    Original,         \* the configuration in the node's file: "own" or "fork"
    MaxRequests,      \* bound on the requests
    MaxFailures,      \* bound on the failures of files, database and start of an engine
    MaxCrashes        \* bound on the crashes

(* No engine, no thread, no client, no files.                              *)
None == 0

ASSUME ManagerBounds ==
    /\ None \notin Clients
    /\ Original \in {"own", "fork"}
    /\ MaxRequests \in Nat /\ MaxFailures \in Nat /\ MaxCrashes \in Nat

VARIABLES
    manager,       \* the engine and the thread that the manager has
    lock,          \* the client that keeps the manager's lock while it waits
    engines,       \* the engines of the process, as they were made
    threads,       \* the threads of the process that run an engine
    files,         \* the generation of the files of each chain
    generation,    \* number of times the files were cleared, and one
    step,          \* for each client: the next step of its request, or its answer
    command,       \* for each client: the command
    own,           \* for each client: the thread it waits for, or the engine it made
    requests, failures, crashes,
    since,         \* history: the generation when the client's reset came
    raced,         \* history: whether two requests were past their stops at once
    cut            \* history: whether a race or a clearing cut off may have mixed the files

process == <<manager, lock, engines, threads>>
disk    == <<files, generation>>
clients == <<step, command, own>>
counts  == <<requests, failures, crashes>>
history == <<since, raced, cut>>
vars == <<process, disk, clients, counts, history>>

Chains == {"workchain", "masterchain"}
Clearing == {"clear documents", "clear workchain", "clear masterchain"}
PastStop == Clearing \union {"create", "assign", "start"}
Answers  == {"ok", "bad request", "server error"}
Steps    == PastStop \union Answers \union {"idle", "node", "stop", "join"}

(* What a thread does: it runs, it was stopped and is busy for ever, it    *)
(* missed the stop and waits for ever, or it has ended.                    *)
ThreadStates == {"runs", "busy", "parked", "ended"}

Live == {t \in DOMAIN threads : threads[t].state # "ended"}

(* The clients between their stop and their answer.                        *)
Rebuilding == {c \in Clients : step[c] \in PastStop}

-----------------------------------------------------------------------------
(* Commands: ControlCommand::from_req                                      *)

TimeCommands == {"increase-time", "set-time-mode", "time"}

(* A request has a required parameter (delta, mode or endpoint, of which   *)
(* any text will do) and resetData.  "time" stands for all that only read  *)
(* or reset the clock and have no parameter.                               *)
Request == [name      : TimeCommands \union {"reset", "fork", "unfork", "unknown"},
            required  : {"missing", "garbled", "given"},
            resetData : {"missing", "garbled", "true", "false"}]

WellFormed(q) ==
    /\ q.name # "unknown"
    /\ q.name \in {"increase-time", "set-time-mode", "fork"} => q.required # "missing"
    /\ q.name \in {"increase-time", "set-time-mode"} => q.required # "garbled"
    /\ q.name \in {"fork", "unfork"} => q.resetData # "garbled"

Command(q) ==
    [fork  |-> q.name = "fork",
     reset |-> q.name = "reset" \/ (q.name \in {"fork", "unfork"} /\ q.resetData = "true")]

NoCommand == [fork |-> FALSE, reset |-> FALSE]

-----------------------------------------------------------------------------
(* The configuration of an engine: ForkProvider                            *)

(* What may come of a query: no answer, or one that is not JSON, reports   *)
(* errors, or has data.                                                    *)
Responses == {"none", "not json", "errors"}
                 \union {"no block", "no key block", "no config", "config"}

Query(response) ==
    IF response \in {"none", "not json", "errors"} THEN "error" ELSE response

BlockchainConfig(response) ==
    IF Query(response) = "config" THEN "fork" ELSE "error"

(* Fault: a request other than fork keeps the configuration in use.        *)
ConfigInUse(cmd) == IF cmd.fork THEN "fork" ELSE engines[manager.engine].config

ConfigFor(cmd) == IF cmd.fork THEN "fork" ELSE Original

(* create_engine: a chain without files begins anew.                       *)
Loaded(chain) == IF files[chain] = None THEN generation ELSE files[chain]

Engine == [config : {"own", "fork", "none"}, stopped : BOOLEAN, chain : [Chains -> Nat]]

EngineWith(config) ==
    [config |-> config, stopped |-> FALSE, chain |-> [c \in Chains |-> Loaded(c)]]

Dropped == [config |-> "none", stopped |-> TRUE, chain |-> [c \in Chains |-> None]]

Creatable(config) ==
    config = "fork" => \E r \in Responses : BlockchainConfig(r) = config

-----------------------------------------------------------------------------
(* The process                                                             *)

Init ==
    /\ manager = [engine |-> None, thread |-> None] /\ lock = None
    /\ engines = <<>> /\ threads = <<>>
    /\ files \in [Chains -> {None, 1}] /\ generation = 1
    /\ step = [c \in Clients |-> "idle"] /\ command = [c \in Clients |-> NoCommand]
    /\ own = [c \in Clients |-> None]
    /\ requests = 0 /\ failures = 0 /\ crashes = 0
    /\ since = [c \in Clients |-> 0] /\ raced = FALSE /\ cut = FALSE

Up == manager.engine # None

StartThread ==
    /\ threads' = Append(threads, [engine |-> manager'.engine, state |-> "runs"])
    /\ manager'.thread = Len(threads')

(* main: the configuration is read, an engine made and started, and then   *)
(* requests are served.  If any of it fails the process ends.              *)
Boot ==
    /\ ~Up
    /\ engines' = <<EngineWith(Original)>>
    /\ manager' = [engine |-> 1, thread |-> 1]
    /\ StartThread
    /\ UNCHANGED <<lock, disk, clients, counts, history>>

(* Before the first request the process is as at its start.                *)
Crash ==
    /\ Up /\ requests > 0 /\ crashes < MaxCrashes
    /\ crashes' = crashes + 1
    /\ manager' = [engine |-> None, thread |-> None] /\ lock' = None
    /\ engines' = <<>> /\ threads' = <<>>
    /\ step' = [c \in Clients |-> "idle"] /\ command' = [c \in Clients |-> NoCommand]
    /\ own' = [c \in Clients |-> None]
    /\ since' = [c \in Clients |-> 0] /\ raced' = FALSE
    /\ cut' = (cut \/ raced \/ \E c \in Clients : step[c] = "clear masterchain")
    /\ UNCHANGED <<disk, requests, failures>>

Fail == failures < MaxFailures /\ failures' = failures + 1

-----------------------------------------------------------------------------
(* The threads of engines                                                  *)

(* A block becomes durable, of either chain: messages to the masterchain,  *)
(* or a changed configuration, make one where the workchain has none.      *)
SaveBlock(t) ==
    LET chain == engines[threads[t].engine].chain
    IN  /\ threads[t].state \in {"runs", "busy"}
        /\ \E c \in Chains :
              /\ files[c] # chain[c]
              /\ files' = [files EXCEPT ![c] = chain[c]]
        /\ UNCHANGED <<process, generation, clients, counts, history>>

Stopped(t) == threads[t].state = "runs" /\ engines[threads[t].engine].stopped

(* The engine looks for a stop only when its three queues are empty.  They *)
(* never are again once it has a message for a chain that it does not      *)
(* have, an internal message that fails each time, or internal messages    *)
(* that send others without end.  Until it is stopped that makes no        *)
(* difference, and is told apart only then.                                *)
StayBusy(t) ==
    /\ Stopped(t)
    /\ threads' = [threads EXCEPT ![t].state = "busy"]
    /\ UNCHANGED <<manager, lock, engines, disk, clients, counts, history>>

SeeStop(t) ==
    /\ Stopped(t)
    /\ threads' = [threads EXCEPT ![t].state = "ended"]
    /\ UNCHANGED <<manager, lock, engines, disk, clients, counts, history>>

MissStop(t) ==
    /\ Stopped(t)
    /\ threads' = [threads EXCEPT ![t].state = "parked"]
    /\ UNCHANGED <<manager, lock, engines, disk, clients, counts, history>>

-----------------------------------------------------------------------------
(* The requests: ControlApi::process_request                               *)

Goto(c, next) == step' = [step EXCEPT ![c] = next]

Answer(c, status) ==
    /\ Goto(c, status)
    /\ command' = [command EXCEPT ![c] = NoCommand]
    /\ since' = [since EXCEPT ![c] = 0]

Receive(c) ==
    /\ Up /\ step[c] \in Answers \union {"idle"} /\ requests < MaxRequests
    /\ requests' = requests + 1
    /\ \E q \in Request :
          /\ command' = [command EXCEPT ![c] = IF WellFormed(q) THEN Command(q) ELSE NoCommand]
          /\ Goto(c, IF ~WellFormed(q) THEN "bad request"
                     ELSE IF q.name \in TimeCommands THEN "node" ELSE "stop")
          /\ since' = [since EXCEPT ![c] = IF command'[c].reset THEN generation ELSE 0]
    /\ UNCHANGED <<process, disk, own, failures, crashes, raced, cut>>

(* The lock is taken for reading, for the engine whose clock is used.      *)
UseClock(c) ==
    /\ step[c] = "node" /\ lock = None
    /\ Answer(c, "ok")
    /\ UNCHANGED <<process, disk, own, counts, raced, cut>>

(* Fault: the queue is stopped after the thread has ended.                 *)
NotStoppedYet == engines

StoppedQueue == [engines EXCEPT ![manager.engine].stopped = TRUE]

Stop(c) ==
    /\ step[c] = "stop" /\ lock = None
    /\ lock' = c
    /\ engines' = StoppedQueue
    /\ own' = [own EXCEPT ![c] = manager.thread]
    /\ manager' = [manager EXCEPT !.thread = None]
    /\ Goto(c, "join")
    /\ UNCHANGED <<threads, disk, command, counts, history>>

(* Fault: the thread is not waited for.                                    *)
EndedOrNot(c) == TRUE

Ended(c) == own[c] # None => threads[own[c]].state = "ended"

(* Fault: the lock is kept until the request is answered.                  *)
LockKept == lock

LockGivenBack == None

Join(c) ==
    /\ step[c] = "join" /\ Ended(c)
    /\ lock' = LockGivenBack
    /\ own' = [own EXCEPT ![c] = None]
    /\ raced' = (raced \/ Rebuilding # {})
    /\ Goto(c, IF command[c].reset THEN "clear documents" ELSE "create")
    /\ UNCHANGED <<manager, engines, threads, disk, command, counts, since, cut>>

(* clear_db: the documents first, whose fate is told in ArangoHelper.      *)
ClearDocuments(c) ==
    /\ step[c] = "clear documents"
    /\ Goto(c, "clear workchain")
    /\ UNCHANGED <<process, disk, command, own, counts, history>>

(* Fault: only the files of the workchain are cleared.                     *)
AfterWorkchainCreate == "create"

AfterWorkchain == "clear masterchain"

ClearWorkchain(c) ==
    /\ step[c] = "clear workchain"
    /\ files' = [files EXCEPT !["workchain"] = None]
    /\ generation' = generation + 1
    /\ Goto(c, AfterWorkchain)
    /\ UNCHANGED <<process, command, own, counts, history>>

ClearMasterchain(c) ==
    /\ step[c] = "clear masterchain"
    /\ files' = [files EXCEPT !["masterchain"] = None]
    /\ cut' = FALSE
    /\ Goto(c, "create")
    /\ UNCHANGED <<process, generation, command, own, counts, since, raced>>

(* The first file of the workchain may be gone already.                    *)
ClearFails(c) ==
    /\ step[c] \in Clearing /\ Fail
    /\ \/ UNCHANGED disk /\ cut' = (cut \/ step[c] = "clear masterchain")
       \/ /\ step[c] = "clear workchain" /\ cut' = TRUE
          /\ files' = [files EXCEPT !["workchain"] = None]
          /\ generation' = generation + 1
    /\ Answer(c, "server error")
    /\ UNCHANGED <<process, own, requests, crashes, raced>>

CreateEngine(c) ==
    /\ step[c] = "create" /\ Creatable(ConfigFor(command[c]))
    /\ engines' = Append(engines, EngineWith(ConfigFor(command[c])))
    /\ own' = [own EXCEPT ![c] = Len(engines')]
    /\ Goto(c, "assign")
    /\ UNCHANGED <<manager, lock, threads, disk, command, counts, history>>

(* The fork gives no configuration, or files or database are no good.      *)
CreateFails(c) ==
    /\ step[c] = "create"
    /\ \/ /\ ConfigFor(command[c]) = "fork"
          /\ \E r \in Responses : BlockchainConfig(r) = "error"
          /\ UNCHANGED failures
       \/ Fail
    /\ Answer(c, "server error")
    /\ UNCHANGED <<process, disk, own, requests, crashes, raced, cut>>

(* Fault: an engine is made and not started.                               *)
AfterAssignOk == "ok"

AfterAssign == "start"

(* The engine before is dropped, but for a thread that runs it: that one   *)
(* goes on, and nobody has its handle.                                     *)
AssignEngine(c) ==
    /\ step[c] = "assign" /\ lock = None
    /\ engines' = IF \E t \in Live : threads[t].engine = manager.engine
                  THEN engines ELSE [engines EXCEPT ![manager.engine] = Dropped]
    /\ manager' = [engine |-> own[c], thread |-> None]
    /\ own' = [own EXCEPT ![c] = None]
    /\ Goto(c, AfterAssign)
    /\ UNCHANGED <<lock, threads, disk, command, counts, history>>

(* Whatever engine the manager has is started.                             *)
StartEngine(c) ==
    /\ step[c] = "start" /\ lock = None
    /\ manager' = [manager EXCEPT !.thread = Len(threads) + 1]
    /\ StartThread
    /\ Answer(c, "ok")
    /\ UNCHANGED <<lock, engines, disk, own, counts, raced, cut>>

Handle(c) ==
    \/ UseClock(c) \/ Stop(c) \/ Join(c)
    \/ ClearDocuments(c) \/ ClearWorkchain(c) \/ ClearMasterchain(c) \/ ClearFails(c)
    \/ CreateEngine(c) \/ CreateFails(c) \/ AssignEngine(c) \/ StartEngine(c)

Run(t) == SaveBlock(t) \/ StayBusy(t) \/ SeeStop(t) \/ MissStop(t)

Next ==
    \/ Boot \/ Crash
    \/ \E c \in Clients : Receive(c) \/ Handle(c)
    \/ \E t \in DOMAIN threads : Run(t)

(* The threads of requests run, and those of engines, which come to look   *)
(* at their flag unless they are busy for ever: nothing is assumed of a    *)
(* busy thread.  That suffices for the lock, too: it is waited for only    *)
(* while others are given it, and requests are bounded here.               *)
Fairness ==
    /\ \A c \in Clients : WF_vars(Handle(c))
    /\ \A t \in 1..(MaxRequests + 1) : WF_vars(t \in DOMAIN threads /\ (SeeStop(t) \/ MissStop(t)))

Spec == Init /\ [][Next]_vars

FairSpec == Spec /\ Fairness

-----------------------------------------------------------------------------
(* Properties                                                              *)

(* The variables have their types, and the lock is kept over several steps *)
(* only by a client that waits for a thread.                               *)
TypeOK ==
    /\ manager \in [engine : 0..Len(engines), thread : 0..Len(threads)]
    /\ lock \in Clients \union {None}
    /\ engines \in Seq(Engine)
    /\ threads \in Seq([engine : DOMAIN engines, state : ThreadStates])
    /\ files \in [Chains -> 0..generation] /\ generation \in Nat \ {0}
    /\ step \in [Clients -> Steps] /\ own \in [Clients -> Nat]
    /\ command \in [Clients -> [fork : BOOLEAN, reset : BOOLEAN]]
    /\ \A c \in Clients : lock = c <=> step[c] = "join"
    /\ requests \in 0..MaxRequests /\ failures \in 0..MaxFailures /\ crashes \in 0..MaxCrashes
    /\ since \in [Clients -> 0..generation] /\ raced \in BOOLEAN /\ cut \in BOOLEAN

(* At most one engine runs, the one the manager has, and none while files  *)
(* are cleared and an engine is made from them; unless requests raced.     *)
OneEngineRuns ==
    raced \/ /\ \A s, t \in Live : s = t
             /\ \A t \in Live : threads[t].engine = manager.engine
             /\ Rebuilding # {} => Live = {}

(* A running engine has a masterchain and a workchain of one generation,   *)
(* and so have the files; unless requests raced, or a clearing was cut off *)
(* and the files were not wholly cleared since.                            *)
OneGeneration ==
    raced \/ cut \/
        /\ \A t \in Live : \A c, d \in Chains :
              engines[threads[t].engine].chain[c] = engines[threads[t].engine].chain[d]
        /\ \A c, d \in Chains : files[c] = None \/ files[d] = None \/ files[c] = files[d]

(* The manager's engine, while the flag of its queue is not set, is run by *)
(* a thread or about to be, after any failure and with any number of       *)
(* requests at once: no request leaves an engine behind that goes on       *)
(* accepting messages while nobody takes them.  It is about the flag, not  *)
(* about a message that was let in past it: one whose sender read the flag *)
(* before the stop may still be pushed to an engine that ended.            *)
AcceptingEngineIsServed ==
    Up => \/ engines[manager.engine].stopped
          \/ \E t \in DOMAIN threads :
                threads[t] = [engine |-> manager.engine, state |-> "runs"]
          \/ \E c \in Clients : step[c] = "start"

(* A command answered with OK was carried out: the manager's engine runs,  *)
(* accepts messages, has the configuration asked for and, after a reset,   *)
(* nothing of the chains before; unless requests raced.                    *)
OkMeansDone ==
    [][\A c \in Clients :
          (step[c] \notin Answers \union {"node"} /\ step'[c] = "ok" /\ ~raced') =>
              LET e == engines'[manager'.engine]
              IN  /\ ~e.stopped /\ manager'.thread \in DOMAIN threads'
                  /\ e.config = IF command[c].fork THEN "fork" ELSE Original
                  /\ command[c].reset => \A d \in Chains : e.chain[d] > since[c]]_vars

(* Every request is answered, whatever other requests do, unless one waits *)
(* with the lock for a thread that missed its stop, or for one so busy     *)
(* that it never looks for it.                                             *)
RequestsEnd ==
    \A c \in Clients :
        step[c] \notin Answers \union {"idle"}
            ~> \/ step[c] \in Answers \union {"idle"}
               \/ \E d \in Clients :
                     step[d] = "join" /\ ~Ended(d) /\ threads[own[d]].state \in {"parked", "busy"}
=============================================================================
