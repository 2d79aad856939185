------------------------------- MODULE Engine -------------------------------
(***************************************************************************)
(* The engine (engine/engine.rs) over its two chains: the loop that makes  *)
(* workchain blocks, registers each with the masterchain                   *)
(* (engine/masterchain.rs) and makes masterchain blocks listing the last   *)
(* registered one, the clock that dates them (engine/time.rs), and what a  *)
(* restart keeps of it all.                                                *)
(*                                                                         *)
(* Messages are counted, by the chain they are addressed to; how a queue   *)
(* hands them out is InMessagesQueue, what a block does with them is       *)
(* BlockBuilder, and how a block becomes durable is BlockFinality: here a  *)
(* block is durable when finality succeeds and is only in memory when it   *)
(* fails.  The commands that change the clock come between any two steps.  *)
(***************************************************************************)
EXTENDS Integers, FiniteSets, SequencesExt

CONSTANTS
    Uses,            \* the sets of threads that may use the engine: "run" is its own loop,
                     \* any other thread calls process_message
    Deltas,          \* the seconds a client adds to the time
    MaxNow,          \* bound on the system clock
    MaxMessages,     \* bound on the messages sent to the node or by its transactions
    MaxCommands,     \* bound on the commands that change the clock
    MaxFailures,     \* bound on the blocks that fail
    MaxRestarts      \* bound on the restarts

ASSUME UsesAssumption == \A use \in Uses : use # {}

ASSUME EngineBounds ==
    /\ Deltas \subseteq Nat
    /\ MaxNow \in Nat /\ MaxMessages \in Nat /\ MaxCommands \in Nat
    /\ MaxFailures \in Nat /\ MaxRestarts \in Nat

VARIABLES
    users,          \* the threads that use the engine; it never changes
    now,            \* the system clock, in seconds
    delta, lastTime, mode,     \* BlockTime
    queued,         \* messages in the message queue, by chain
    notified,       \* a message was queued since the engine's loop last ran
    log,            \* the blocks of each chain, in the order they became its tip
    saved,          \* how many of them finality has made durable
    shards,         \* Masterchain.shards: sequence number of the shard block last registered
    changed,        \* Masterchain.shards_has_been_changed
    thread,         \* local variables of the threads in execute_queued_messages
    up,             \* whether the constructor of the engine has returned
    failed,         \* history: the last execute_queued_messages returned an error
    registered,     \* history: the shard blocks registered
    forgotten,      \* history: those a restart found in no durable masterchain block
    epoch,          \* history: number of commands and restarts that may set the time back
    messages, commands, failures, restarts

clock   == <<delta, lastTime, mode>>
chains  == <<log, saved, shards, changed, registered, forgotten>>
bounds  == <<commands, failures, restarts>>
vars == <<users, now, clock, queued, notified, chains, thread, up, failed, epoch, messages, bounds>>

Chains  == {"wc", "mc"}
Modes   == {"System", "Seq"}
Threads == {"run"} \union UNION Uses

(* What a chain keeps of a block: its number, the messages it leaves in    *)
(* the outbound queue, its gen_utime, the mode it was built in, the        *)
(* masterchain number it is filed under, and, for a masterchain block, the *)
(* shard block it lists.  epoch is the history's.                          *)
Zerostate == [seq |-> 0, out |-> 0, utime |-> 0, mode |-> "System", mc |-> 0,
              shard |-> 0, epoch |-> 0]

Tip(c) == IF log[c] = <<>> THEN Zerostate ELSE Last(log[c])

AtRest == [pc |-> "rest", genTime |-> 0, epoch |-> 0, mcSeqNo |-> 0, again |-> FALSE,
           block |-> Zerostate]

(* with_params of a node without data; the constructor executes before the *)
(* threads that will use the engine exist, and as "run".                   *)
Init ==
    /\ users \in Uses
    /\ now = 0
    /\ delta = 0 /\ lastTime = 1 /\ mode = "System"
    /\ queued = [c \in Chains |-> 0]
    /\ notified = FALSE
    /\ log = [c \in Chains |-> <<>>]
    /\ saved = [c \in Chains |-> 0]
    /\ shards = 0 /\ changed = FALSE
    /\ thread = [t \in Threads |->
                    IF t = "run" THEN [AtRest EXCEPT !.pc = "start"] ELSE AtRest]
    /\ up = FALSE /\ failed = FALSE
    /\ registered = {} /\ forgotten = {} /\ epoch = 0
    /\ messages = 0 /\ commands = 0 /\ failures = 0 /\ restarts = 0

-----------------------------------------------------------------------------
(* The clock.                                                              *)

Tick ==
    /\ now < MaxNow
    /\ now' = now + 1
    /\ UNCHANGED <<users, clock, queued, notified, chains, thread, up, failed, epoch,
                   messages, bounds>>

(* Fault: the sequential time forgets the delta it was given.              *)
NextTimeNoDelta == IF mode = "System" THEN now + delta ELSE lastTime + 1

(* BlockTime::get_next; seq_mode_interval is always 1.                     *)
NextTime == IF mode = "System" THEN now + delta ELSE lastTime + 1 + delta

(* Fault: the subtraction does not stop at zero.                           *)
UnboundedLast(time) == time - delta

(* BlockTime::set_last.                                                    *)
TimeLessDelta(time) == IF time < delta THEN 0 ELSE time - delta

(* Commands reach an engine that is running.                               *)
ClockCommand ==
    /\ up
    /\ commands < MaxCommands
    /\ commands' = commands + 1
    /\ UNCHANGED <<users, now, lastTime, queued, notified, chains, thread, up, failed,
                   messages, failures, restarts>>

IncreaseDelta ==
    /\ ClockCommand
    /\ \E d \in Deltas : delta' = delta + d
    /\ UNCHANGED <<mode, epoch>>

ResetDelta ==
    /\ ClockCommand
    /\ delta' = 0
    /\ epoch' = epoch + 1
    /\ UNCHANGED mode

SetMode ==
    /\ ClockCommand
    /\ mode' \in Modes
    /\ epoch' = epoch + 1
    /\ UNCHANGED delta

-----------------------------------------------------------------------------
(* Messages.                                                               *)

(* A message addressed to one of the two chains is put into the queue.     *)
Queued ==
    /\ up
    /\ messages < MaxMessages
    /\ messages' = messages + 1
    /\ \E c \in Chains : queued' = [queued EXCEPT ![c] = @ + 1]
    /\ notified' = TRUE
    /\ UNCHANGED <<users, now, clock, chains, up, failed, epoch, bounds>>

EnqueueMessage == Queued /\ UNCHANGED thread

(* Another thread enqueues a message and executes the queue itself.        *)
ProcessMessage(t) ==
    /\ t \in users \ {"run"}
    /\ thread[t].pc = "rest"
    /\ Queued
    /\ thread' = [thread EXCEPT ![t].pc = "start"]

NothingPending(c) == queued[c] = 0 /\ Tip(c).out = 0

(* A step of thread t in execute_queued_messages.                          *)
At(t, pc) == thread[t].pc = pc

(* run: the engine executes again while anything is left to do, and when   *)
(* a message is notified.                                                  *)
RunLoop ==
    /\ "run" \in users
    /\ At("run", "rest") /\ up
    /\ notified \/ \E c \in Chains : ~NothingPending(c)
    /\ notified' = FALSE
    /\ thread' = [thread EXCEPT !["run"].pc = "start"]
    /\ UNCHANGED <<users, now, clock, queued, chains, up, failed, epoch, messages, bounds>>

-----------------------------------------------------------------------------
(* execute_queued_messages.                                                *)

Begin(t) ==
    /\ At(t, "start")
    /\ thread' = [thread EXCEPT ![t].pc = "turn", ![t].genTime = NextTime, ![t].epoch = epoch]
    /\ UNCHANGED <<users, now, clock, queued, notified, chains, up, failed, epoch,
                   messages, bounds>>

(* Fault: the number after that of the last durable block.                 *)
DurableSeqNo(c) == saved[c] + 1

NextSeqNo(c) == Tip(c).seq + 1

(* Fault: the number is read once, before the loop.                        *)
FirstMcSeqNo(t) == IF thread[t].mcSeqNo = 0 THEN NextSeqNo("mc") ELSE thread[t].mcSeqNo

TurnMcSeqNo(t) == NextSeqNo("mc")

Turn(t) ==
    /\ At(t, "turn")
    /\ thread' = [thread EXCEPT ![t].pc = "wc", ![t].mcSeqNo = TurnMcSeqNo(t),
                                ![t].again = FALSE]
    /\ UNCHANGED <<users, now, clock, queued, notified, chains, up, failed, epoch,
                   messages, bounds>>

(* build_block: the outbound queue of the chain first, then the messages   *)
(* queued for it, until a limit is reached; in sequential mode the limit   *)
(* is one message.  Messages its transactions send are left in the         *)
(* outbound queue once the limit is reached.                               *)
Execute(c, md, imported, taken, sent) ==
    /\ imported \in 0..Tip(c).out /\ taken \in 0..queued[c]
    /\ sent \in 0..(MaxMessages - messages)
    /\ taken > 0 => imported = Tip(c).out
    /\ IF NothingPending(c) THEN sent = 0 ELSE imported + taken > 0
    /\ md = "Seq" => imported + taken <= 1
    /\ queued' = [queued EXCEPT ![c] = @ - taken]
    /\ messages' = messages + sent

(* The block built by t becomes its candidate; put_block_with_info follows *)
(* after the lock on the chain was released and taken again.               *)
Build(t, c, md, time, mcSeqNo, next) ==
    \E imported, taken, sent \in 0..MaxMessages :
        /\ Execute(c, md, imported, taken, sent)
        /\ thread' = [thread EXCEPT
              ![t].pc = next,
              ![t].block = [seq |-> NextSeqNo(c), out |-> Tip(c).out - imported + sent,
                            utime |-> time, mode |-> md, mc |-> mcSeqNo,
                            shard |-> IF c = "mc" THEN shards ELSE 0,
                            epoch |-> thread[t].epoch]]

BuildShardBlock(t) ==
    /\ At(t, "wc")
    /\ ~NothingPending("wc")
    /\ Build(t, "wc", mode, thread[t].genTime, thread[t].mcSeqNo, "wc put")
    /\ UNCHANGED <<users, now, clock, notified, chains, up, failed, epoch, bounds>>

NoShardBlock(t) ==
    /\ At(t, "wc")
    /\ NothingPending("wc")
    /\ thread' = [thread EXCEPT ![t].pc = "mc"]
    /\ UNCHANGED <<users, now, clock, queued, notified, chains, up, failed, epoch,
                   messages, bounds>>

(* The candidate becomes the tip, whatever the tip is by now.              *)
Put(t, c) ==
    /\ log' = [log EXCEPT ![c] = Append(@, thread[t].block)]
    /\ saved' = [saved EXCEPT ![c] = Len(log[c]) + 1]

PutShardBlock(t) ==
    /\ At(t, "wc put")
    /\ Put(t, "wc")
    /\ thread' = [thread EXCEPT ![t].pc = "wc set"]
    /\ UNCHANGED <<users, now, clock, queued, notified, shards, changed, registered, forgotten,
                   up, failed, epoch, messages, bounds>>

(* set_last_time and register_new_shard_block.                             *)
RegisterShardBlock(t) ==
    /\ At(t, "wc set")
    /\ lastTime' = TimeLessDelta(thread[t].genTime)
    /\ shards' = thread[t].block.seq
    /\ changed' = TRUE
    /\ registered' = registered \union {thread[t].block.seq}
    /\ thread' = [thread EXCEPT ![t].pc = "wc next", ![t].again = TRUE]
    /\ UNCHANGED <<users, now, delta, mode, queued, notified, log, saved, forgotten, up, failed,
                   epoch, messages, bounds>>

(* Fault: the time of the last shard block is used again.                  *)
KeptTime(t) == thread[t].genTime

TimeAfterShardBlock(t) == NextTime

NextShardBlock(t) ==
    /\ At(t, "wc next")
    /\ thread' = [thread EXCEPT ![t].pc = "wc", ![t].genTime = TimeAfterShardBlock(t),
                                ![t].epoch = epoch, ![t].block = Zerostate]
    /\ UNCHANGED <<users, now, clock, queued, notified, chains, up, failed, epoch,
                   messages, bounds>>

(* Fault: only its own messages make a masterchain block.                  *)
NoMessageForMaster == NothingPending("mc")

NothingForMaster == NothingPending("mc") /\ ~changed

BuildMasterBlock(t) ==
    /\ At(t, "mc")
    /\ ~NothingForMaster
    /\ Build(t, "mc", mode, thread[t].genTime, thread[t].mcSeqNo, "mc put")
    /\ UNCHANGED <<users, now, clock, notified, chains, up, failed, epoch, bounds>>

PutMasterBlock(t) ==
    /\ At(t, "mc put")
    /\ Put(t, "mc")
    /\ changed' = FALSE
    /\ thread' = [thread EXCEPT ![t].pc = "mc set"]
    /\ UNCHANGED <<users, now, clock, queued, notified, shards, registered, forgotten, up, failed,
                   epoch, messages, bounds>>

(* set_last_time; another turn follows, with the time of this block.       *)
MasterBlockDone(t) ==
    /\ At(t, "mc set")
    /\ lastTime' = TimeLessDelta(thread[t].genTime)
    /\ thread' = [thread EXCEPT ![t].pc = "turn", ![t].block = Zerostate]
    /\ UNCHANGED <<users, now, delta, mode, queued, notified, chains, up, failed, epoch,
                   messages, bounds>>

(* No masterchain block: another turn if this one made shard blocks, or    *)
(* the end; the constructor returns when its execution ends.               *)
NoMasterBlock(t) ==
    /\ At(t, "mc")
    /\ NothingForMaster
    /\ IF thread[t].again
       THEN /\ thread' = [thread EXCEPT ![t].pc = "turn"]
            /\ UNCHANGED <<up, failed>>
       ELSE /\ thread' = [thread EXCEPT ![t] = AtRest]
            /\ up' = TRUE
            /\ failed' = FALSE
    /\ UNCHANGED <<users, now, clock, queued, notified, chains, epoch, messages, bounds>>

-----------------------------------------------------------------------------
(* Failures and restarts.                                                  *)

(* An error ends the execution: run logs it and goes on, process_message   *)
(* returns it, and a constructor that meets it gives no engine.            *)
Fail(t) ==
    /\ failures < MaxFailures
    /\ failures' = failures + 1
    /\ thread' = [thread EXCEPT ![t] = IF up THEN AtRest ELSE [AtRest EXCEPT !.pc = "down"]]
    /\ failed' = TRUE
    /\ UNCHANGED <<users, now, clock, notified, shards, changed, registered, forgotten, up, epoch,
                   messages, commands, restarts>>

BuildSteps(c) == IF c = "wc" THEN {"wc"} ELSE {"mc", "config"}

PutSteps(c) == IF c = "wc" THEN {"wc put"} ELSE {"mc put", "config put"}

(* The execution of an internal message fails: the state is kept, and the  *)
(* messages taken from the queue before it are lost with the block.        *)
BuildFails(t) ==
    \E c \in Chains, taken \in 0..MaxMessages :
        /\ thread[t].pc \in BuildSteps(c)
        /\ taken \in 0..queued[c]
        /\ taken > 0 \/ Tip(c).out > 0
        /\ mode = "Seq" => taken = 0
        /\ queued' = [queued EXCEPT ![c] = @ - taken]
        /\ Fail(t)
        /\ UNCHANGED <<log, saved>>

(* Finality fails after the block became the current one.                  *)
PutFails(t) ==
    /\ \E c \in Chains :
        /\ thread[t].pc \in PutSteps(c)
        /\ log' = [log EXCEPT ![c] = Append(@, thread[t].block)]
    /\ Fail(t)
    /\ UNCHANGED <<queued, saved>>

(* The masterchain blocks that list shard block k or a later one.          *)
Listing(k) == {j \in DOMAIN log["mc"] : log["mc"][j].shard >= k}

(* The process ends between any two steps and is started again, or a fork  *)
(* or unfork request makes a new engine: the durable blocks are all that   *)
(* is left.                                                                *)
Restart ==
    /\ restarts < MaxRestarts
    /\ restarts' = restarts + 1
    /\ log' = [c \in Chains |-> SubSeq(log[c], 1, saved[c])]
    /\ delta' = 0 /\ lastTime' = 1 /\ mode' = "System"
    /\ queued' = [c \in Chains |-> 0]
    /\ notified' = FALSE
    /\ shards' = 0 /\ changed' = FALSE
    /\ thread' = [t \in Threads |->
                     IF t = "run" THEN [AtRest EXCEPT !.pc = "restore"] ELSE AtRest]
    /\ up' = FALSE /\ failed' = FALSE
    /\ forgotten' = forgotten \union
                       {k \in registered : \A j \in Listing(k) : j > saved["mc"]}
    /\ epoch' = epoch + 1
    /\ UNCHANGED <<users, now, saved, registered, messages, commands, failures>>

(* Fault: the shard blocks listed before are not read back.                *)
NoneListed == 0

LastListed == Tip("mc").shard

(* restore_state, if the workchain had been loaded: the shards of the last *)
(* masterchain block count as changed; a configuration other than the      *)
(* last block's is put into a block of its own.                            *)
RestoreState ==
    /\ At("run", "restore")
    /\ IF log["wc"] # <<>> /\ log["mc"] # <<>>
       THEN /\ shards' = LastListed
            /\ changed' = TRUE
            /\ \E configChanged \in BOOLEAN :
                 thread' = [thread EXCEPT !["run"].epoch = epoch,
                                !["run"].pc = IF configChanged THEN "config" ELSE "start"]
       ELSE /\ thread' = [thread EXCEPT !["run"].pc = "start"]
            /\ UNCHANGED <<shards, changed>>
    /\ UNCHANGED <<users, now, clock, queued, notified, log, saved, registered, forgotten, up,
                   failed, epoch, messages, bounds>>

(* generate_block(next_seq_no, 0, System).                                 *)
BuildConfigBlock ==
    /\ At("run", "config")
    /\ Build("run", "mc", "System", 0, NextSeqNo("mc"), "config put")
    /\ UNCHANGED <<users, now, clock, notified, chains, up, failed, epoch, bounds>>

PutConfigBlock ==
    /\ At("run", "config put")
    /\ Put("run", "mc")
    /\ changed' = FALSE
    /\ thread' = [thread EXCEPT !["run"] = [AtRest EXCEPT !.pc = "start"]]
    /\ UNCHANGED <<users, now, clock, queued, notified, shards, registered, forgotten, up, failed,
                   epoch, messages, bounds>>

-----------------------------------------------------------------------------
Executing(t) ==
    \/ Begin(t) \/ Turn(t)
    \/ BuildShardBlock(t) \/ NoShardBlock(t) \/ PutShardBlock(t)
    \/ RegisterShardBlock(t) \/ NextShardBlock(t)
    \/ BuildMasterBlock(t) \/ PutMasterBlock(t) \/ MasterBlockDone(t) \/ NoMasterBlock(t)
    \/ BuildFails(t) \/ PutFails(t)

Next ==
    \/ Tick
    \/ IncreaseDelta \/ ResetDelta \/ SetMode
    \/ EnqueueMessage
    \/ \E t \in Threads : ProcessMessage(t)
    \/ RunLoop
    \/ \E t \in Threads : Executing(t)
    \/ Restart \/ RestoreState \/ BuildConfigBlock \/ PutConfigBlock

Spec == Init /\ [][Next]_vars

-----------------------------------------------------------------------------
Block == [seq : Nat, out : Nat, utime : Nat, mode : Modes, mc : Nat, shard : Nat, epoch : Nat]

Steps == {"rest", "start", "turn", "wc", "wc put", "wc set", "wc next", "mc", "mc put",
          "mc set", "restore", "config", "config put", "down"}

Local == [pc : Steps, genTime : Nat, epoch : Nat, mcSeqNo : Nat, again : BOOLEAN,
          block : Block]

(* The variables have their types: above all, the time the clock keeps     *)
(* never falls below zero, though delta may grow between the time a block  *)
(* was given and the moment it is subtracted again (set_last).             *)
TypeOK ==
    /\ users \in Uses
    /\ now \in Nat /\ delta \in Nat /\ lastTime \in Nat /\ mode \in Modes
    /\ queued \in [Chains -> Nat] /\ notified \in BOOLEAN
    /\ log \in [Chains -> Seq(Block)] /\ saved \in [Chains -> Nat]
    /\ shards \in Nat /\ changed \in BOOLEAN
    /\ thread \in [Threads -> Local]
    /\ up \in BOOLEAN /\ failed \in BOOLEAN
    /\ registered \subseteq Nat /\ forgotten \subseteq registered /\ epoch \in Nat
    /\ messages \in Nat /\ commands \in Nat /\ failures \in Nat /\ restarts \in Nat

(* Every thread waits, and the last execution of messages had no error.    *)
Quiescent == (\A t \in Threads : At(t, "rest")) /\ up /\ ~failed

(* When the engine is quiescent, every shard block registered is listed in *)
(* the masterchain, but for those a restart forgot: one that came after    *)
(* the block was registered and before a masterchain block that lists it   *)
(* was durable (EveryBlockListed).  The flag shards_has_been_changed and   *)
(* the loop around the two generate_block calls lose none to blocks that   *)
(* fail, nor to the restart itself what was listed before it.              *)
ListedAtRest == Quiescent => \A k \in registered \ forgotten : Listing(k) # {}

(* "Produces masterchain block for each workchain block" (CHANGELOG.md):   *)
(* no exception for restarts.  restore_state reads the shards back from    *)
(* the last masterchain block alone, whatever the workchain has.           *)
EveryBlockListed == Quiescent => \A k \in registered : Listing(k) # {}

(* The masterchain number a shard block is filed under (mc_seq_no, read    *)
(* before the block is built) is that of the first masterchain block that  *)
(* lists it, although blocks may fail between the two; a block a restart   *)
(* forgot is excepted, which a later number lists, or an earlier one.  A   *)
(* masterchain block is filed under its own number.                        *)
FiledUnderItsMasterBlock ==
    /\ \A i \in DOMAIN log["wc"] :
         LET b == log["wc"][i]
             listing == {log["mc"][j].seq : j \in Listing(b.seq)}
         IN  b.seq \in registered \ forgotten /\ listing # {} =>
                 b.mc \in listing /\ \A n \in listing : b.mc <= n
    /\ \A j \in DOMAIN log["mc"] : log["mc"][j].mc = log["mc"][j].seq

(* The masterchain never lists a shard block older than one it listed      *)
(* before, whatever a restart reads back (restore_state).                  *)
ShardsNeverGoBack ==
    \A i, j \in DOMAIN log["mc"] : i < j => log["mc"][i].shard <= log["mc"][j].shard

(* Between two commands or restarts that may set the time back, the times  *)
(* of the blocks of a chain never do, and a masterchain block is never     *)
(* dated before a shard block it lists, although a time is read long       *)
(* before it is used and delta may grow in between (get_next, set_last).   *)
TimeNeverGoesBack ==
    /\ \A c \in Chains : \A i, j \in DOMAIN log[c] :
         i < j /\ log[c][i].epoch = log[c][j].epoch => log[c][i].utime <= log[c][j].utime
    /\ \A i \in DOMAIN log["wc"], j \in DOMAIN log["mc"] :
         /\ log["wc"][i].seq <= log["mc"][j].shard
         /\ log["wc"][i].epoch = log["mc"][j].epoch
         => log["wc"][i].utime <= log["mc"][j].utime

(* In sequential mode each registered workchain block is dated later than  *)
(* the one before: the time is read again after every shard block.         *)
SeqShardTimesIncrease ==
    \A i, j \in DOMAIN log["wc"] :
        LET a == log["wc"][i]
            b == log["wc"][j]
        IN  /\ i < j /\ a.epoch = b.epoch /\ {a.seq, b.seq} \subseteq registered
            /\ a.mode = "Seq" /\ b.mode = "Seq"
            => a.utime < b.utime

(* "Each block has unique gen_utime" in sequential mode (README.md:230):   *)
(* the masterchain block takes the time read for the next block and that   *)
(* next block keeps it.                                                    *)
SeqTimesUnique ==
    \A i \in DOMAIN log["wc"], j \in DOMAIN log["mc"] :
        LET a == log["wc"][i]
            b == log["mc"][j]
        IN  a.epoch = b.epoch /\ a.mode = "Seq" /\ b.mode = "Seq" => a.utime # b.utime

(* No two blocks of a chain have the same number, also when one failed to  *)
(* be made durable and its successor was built on it, or a restart took it *)
(* back, as long as the loop and process_message do not use the engine at  *)
(* once (build_block reads the last block, and gives the lock back).       *)
NumbersUnique ==
    \A c \in Chains : \A i, j \in DOMAIN log[c] : i # j => log[c][i].seq # log[c][j].seq

=============================================================================
