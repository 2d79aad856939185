--------------------------- MODULE BlockFinality ---------------------------
(***************************************************************************)
(* The finality of one shard (block/finality.rs) over its key-value files  *)
(* (data/shard_storage.rs, data/fs_storage.rs) and the document database   *)
(* (block/json.rs): how a block is made durable write by write, with       *)
(* crashes between and inside the writes, failing writes, the restart that *)
(* loads what is there, and the reset that removes it.                     *)
(*                                                                         *)
(* A block is the sequence of the numbers of its ancestors and itself: the *)
(* hash of a block commits to all before it, two blocks never have the     *)
(* same hash (the seed is random), and the sequence number is the length.  *)
(* <<>> is the state before the first block.  The masterchain and the      *)
(* workchain have one such component each.                                 *)
(*                                                                         *)
(* blocks_by_hash and blocks_by_no have no variable: the block that        *)
(* put_block_with_info inserts is taken out again before the first write,  *)
(* so the index never lists a block besides the two it names.              *)
(***************************************************************************)
EXTENDS Naturals, SequencesExt

CONSTANTS
    MaxBlocks,     \* bound on the blocks made
    MaxErrors,     \* bound on the reads, writes and removals that fail
    MaxCrashes,    \* bound on the crashes
    MaxRestarts    \* bound on the control requests that restart the engine

ASSUME FinalityBounds ==
    /\ MaxBlocks \in Nat /\ MaxErrors \in Nat
    /\ MaxCrashes \in Nat /\ MaxRestarts \in Nat

VARIABLES
    pc,              \* the next write, or what the component is doing
    current,         \* current_block
    lastFinalized,   \* last_finalized_block
    shardState,      \* the file shard_state.block
    shardInfo,       \* the file shard.info
    raw,             \* the files blocks/block_<seq_no>, by sequence number
    whole,           \* the blocks whose file in block_finality/ is complete
    torn,            \* the blocks whose file in block_finality/ is cut short
    index,           \* the file blocks_finality.info: the current and the last block
    docs,            \* the blocks whose documents were handed to the database
    made,            \* number of blocks made
    errors, crashes, restarts,
    skipped,         \* history: blocks whose finalization failed before the raw file was there
    unreflected,     \* history: blocks whose documents could not be made
    wiped,           \* history: the chain whose documents the last reset removed
    named,           \* history: the chain the last complete index named, until a reset
    blind,           \* history: the engine started from the zerostate past an unread index
    overwritten      \* history: blocks whose raw file a blind engine overwrote

memory  == <<current, lastFinalized>>
files   == <<shardState, shardInfo, raw, whole, torn, index>>
counts  == <<made, errors, crashes, restarts>>
lack    == <<skipped, unreflected, wiped>>
history == <<lack, named, blind, overwritten>>
vars == <<pc, memory, files, docs, counts, history>>

Saving   == {"state", "info", "raw"}
Writing  == Saving \union {"bf_current", "bf_final", "index"}
Clearing == {"clear_index", "clear_info", "clear_state"}
Running  == Writing \union {"idle", "reflect"}
Steps    == Running \union Clearing \union {"load", "stopped", "down", "dead"}

Ids    == 1..MaxBlocks
Blocks == Seq(Ids)

(* A file is absent, cut short, or holds what was written to it.           *)
Absent   == [file |-> "absent", of |-> <<>>]
Torn     == [file |-> "torn", of |-> <<>>]
Whole(b) == [file |-> "whole", of |-> b]

(* The blocks of chain b, from the first to b itself.                      *)
ChainOf(b) == {SubSeq(b, 1, n) : n \in 1..Len(b)}

(* The chain a restart finds.                                              *)
Tip == IF index.file = "whole" THEN index.of[1] ELSE <<>>

Init ==
    /\ pc = "idle"
    /\ current = <<>> /\ lastFinalized = <<>>
    /\ shardState = Absent /\ shardInfo = Absent /\ index = Absent
    /\ raw = <<>>
    /\ whole = {} /\ torn = {} /\ docs = {}
    /\ made = 0 /\ errors = 0 /\ crashes = 0 /\ restarts = 0
    /\ skipped = {} /\ unreflected = {} /\ wiped = <<>>
    /\ named = <<>> /\ blind = FALSE /\ overwritten = {}

-----------------------------------------------------------------------------
(* A block is made durable.                                                *)

(* put_block_with_info: the block, built on the current one, becomes the   *)
(* current one before anything is written.                                 *)
PutBlock ==
    /\ pc = "idle"
    /\ made < MaxBlocks
    /\ made' = made + 1
    /\ current' = Append(current, made + 1)
    /\ pc' = "state"
    /\ UNCHANGED <<lastFinalized, files, docs, errors, crashes, restarts, history>>

(* save_serialized_shardstate_ex writes two files.                         *)
SaveShardState ==
    /\ pc = "state"
    /\ shardState' = Whole(current)
    /\ pc' = "info"
    /\ UNCHANGED <<memory, shardInfo, raw, whole, torn, index, docs, counts, history>>

SaveShardInfo ==
    /\ pc = "info"
    /\ shardInfo' = Whole(current)
    /\ pc' = "raw"
    /\ UNCHANGED <<memory, shardState, raw, whole, torn, index, docs, counts, history>>

(* Fault: the sequence number after the block's own.                       *)
NextBlockKey == Len(current) + 1

BlockKey == Len(current)

(* Fault: a file that is there already is kept.                            *)
RawFilesKept(b) ==
    [n \in DOMAIN raw \union {BlockKey} |-> IF n \in DOMAIN raw THEN raw[n] ELSE b]

RawFiles(b) ==
    [n \in DOMAIN raw \union {BlockKey} |-> IF n = BlockKey THEN b ELSE raw[n]]

(* The durable block that lost its raw file to a block of a blind engine.  *)
NowOverwritten == {b \in ChainOf(named) : blind /\ Len(b) = BlockKey}

(* save_raw_block overwrites.                                              *)
SaveRawBlock ==
    /\ pc = "raw"
    /\ raw' = RawFiles(Whole(current))
    /\ overwritten' = overwritten \union NowOverwritten
    /\ pc' = "reflect"
    /\ UNCHANGED <<memory, shardState, shardInfo, whole, torn, index, docs, counts,
                   lack, named, blind>>

(* Fault: the documents of the block before are handed over.               *)
ReflectedBefore == lastFinalized

Reflected == current

(* Fault: the index is written without the blocks' own files.              *)
AfterReflectIndex == "index"

AfterReflect == "bf_current"

(* reflect_block_in_db hands the documents over; when it fails, that is    *)
(* only logged.  Then the block is the last finalized one.                 *)
ReflectBlock ==
    /\ pc = "reflect"
    /\ \/ /\ docs' = docs \union {Reflected}
          /\ UNCHANGED <<errors, unreflected>>
       \/ /\ errors < MaxErrors
          /\ errors' = errors + 1
          /\ unreflected' = unreflected \union {current}
          /\ UNCHANGED docs
    /\ lastFinalized' = current
    /\ pc' = AfterReflect
    /\ UNCHANGED <<current, files, made, crashes, restarts, skipped, wiped,
                   named, blind, overwritten>>

(* save_non_finalized_block does not overwrite: a file of that name is     *)
(* taken to hold the block.                                                *)
WithBlockFile(b) == IF b \in torn THEN whole ELSE whole \union {b}

(* save_finality: the current block's file, ...                            *)
SaveCurrent ==
    /\ pc = "bf_current"
    /\ whole' = WithBlockFile(current)
    /\ pc' = "bf_final"
    /\ UNCHANGED <<memory, shardState, shardInfo, raw, torn, index, docs, counts, history>>

(* ... the last finalized block's file, ...                                *)
SaveLastFinalized ==
    /\ pc = "bf_final"
    /\ whole' = WithBlockFile(lastFinalized)
    /\ pc' = "index"
    /\ UNCHANGED <<memory, shardState, shardInfo, raw, torn, index, docs, counts, history>>

(* ... and the index that names both.                                      *)
SaveIndex ==
    /\ pc = "index"
    /\ index' = Whole(<<current, lastFinalized>>)
    /\ named' = current
    /\ blind' = FALSE
    /\ pc' = "idle"
    /\ UNCHANGED <<memory, shardState, shardInfo, raw, whole, torn, docs, counts,
                   lack, overwritten>>

-----------------------------------------------------------------------------
(* Failing writes and crashes.                                             *)

(* The file that is being written is cut short.                            *)
TearFile ==
    \/ /\ pc = "state"
       /\ shardState' = Torn
       /\ UNCHANGED <<shardInfo, raw, whole, torn, index, overwritten>>
    \/ /\ pc = "info"
       /\ shardInfo' = Torn
       /\ UNCHANGED <<shardState, raw, whole, torn, index, overwritten>>
    \/ /\ pc = "raw"
       /\ raw' = RawFiles(Torn)
       /\ overwritten' = overwritten \union NowOverwritten
       /\ UNCHANGED <<shardState, shardInfo, whole, torn, index>>
    \/ /\ pc = "bf_current" /\ current \notin whole \union torn
       /\ torn' = torn \union {current}
       /\ UNCHANGED <<shardState, shardInfo, raw, whole, index, overwritten>>
    \/ /\ pc = "bf_final" /\ lastFinalized \notin whole \union torn
       /\ torn' = torn \union {lastFinalized}
       /\ UNCHANGED <<shardState, shardInfo, raw, whole, index, overwritten>>
    \/ /\ pc = "index"
       /\ index' = Torn
       /\ UNCHANGED <<shardState, shardInfo, raw, whole, torn, overwritten>>

(* set creates the file anew and then writes it: when that is cut off, the *)
(* file is as it was or cut short.                                         *)
Interrupted == UNCHANGED <<files, overwritten>> \/ TearFile

(* A write fails: put_block_with_info returns the error, with the block as *)
(* the current one.  The engine goes on from there.                        *)
WriteFails ==
    /\ pc \in Writing
    /\ errors < MaxErrors
    /\ errors' = errors + 1
    /\ Interrupted
    /\ skipped' = IF pc \in Saving THEN skipped \union {current} ELSE skipped
    /\ pc' = "idle"
    /\ UNCHANGED <<memory, docs, made, crashes, restarts, unreflected, wiped, named, blind>>

(* The process dies, at any point.                                         *)
Crash ==
    /\ pc \notin {"down", "dead"}
    /\ crashes < MaxCrashes
    /\ crashes' = crashes + 1
    /\ Interrupted
    /\ pc' = "down"
    /\ current' = <<>> /\ lastFinalized' = <<>>
    /\ blind' = FALSE
    /\ UNCHANGED <<docs, made, errors, restarts, lack, named>>

-----------------------------------------------------------------------------
(* Loading and clearing.                                                   *)

(* A block can be read back if its file is complete; the state before the  *)
(* first block needs no file.                                              *)
Readable(b) == b = <<>> \/ b \in whole

Loadable ==
    \/ index.file = "absent"
    \/ /\ index.file = "whole"
       /\ Readable(index.of[1]) /\ Readable(index.of[2])

(* Fault: the chain starts over from the zerostate.                        *)
LoadedZero == <<>>

LoadedCurrent == Tip

(* load, on the start of the process and of a new engine: the blocks the   *)
(* index names, or the zerostate without an index.  What does not hold     *)
(* what was written to it fails the start, now and whenever it is tried.   *)
Load ==
    /\ pc \in {"down", "load"}
    /\ IF Loadable
         THEN /\ pc' = "idle"
              /\ current' = LoadedCurrent
              /\ lastFinalized' = IF index.file = "whole" THEN index.of[2] ELSE <<>>
         ELSE /\ pc' = IF pc = "down" THEN "dead" ELSE "stopped"
              /\ UNCHANGED memory
    /\ UNCHANGED <<files, docs, counts, history>>

(* load: when the index cannot be read, whatever the error, it counts as   *)
(* absent, and the engine starts from the zerostate beside what is there.  *)
LoadPastIndex ==
    /\ pc \in {"down", "load", "dead"}
    /\ index.file # "absent"
    /\ errors < MaxErrors
    /\ errors' = errors + 1
    /\ pc' = "idle"
    /\ current' = <<>> /\ lastFinalized' = <<>>
    /\ blind' = TRUE
    /\ UNCHANGED <<files, docs, made, crashes, restarts, lack, named, overwritten>>

(* load: an error reading a block's file, or the zerostate, fails this     *)
(* start; the next one may succeed.                                        *)
LoadFails ==
    /\ pc \in {"down", "load"}
    /\ Loadable
    /\ errors < MaxErrors
    /\ errors' = errors + 1
    /\ pc' = IF pc = "down" THEN "down" ELSE "stopped"
    /\ UNCHANGED <<memory, files, docs, made, crashes, restarts, history>>

(* fork and unfork without resetData: the engine is stopped between two    *)
(* blocks and a new one is loaded.                                         *)
RestartEngine ==
    /\ pc \in {"idle", "stopped"}
    /\ restarts < MaxRestarts
    /\ restarts' = restarts + 1
    /\ pc' = "load"
    /\ current' = <<>> /\ lastFinalized' = <<>>
    /\ blind' = FALSE
    /\ UNCHANGED <<files, docs, made, errors, crashes, lack, named, overwritten>>

(* reset, and fork and unfork with resetData: the engine is stopped, then  *)
(* the documents are removed, ...                                          *)
ClearDocuments ==
    /\ pc \in {"idle", "stopped"}
    /\ restarts < MaxRestarts
    /\ restarts' = restarts + 1
    /\ docs' = {}
    /\ wiped' = Tip
    /\ pc' = "clear_index"
    /\ current' = <<>> /\ lastFinalized' = <<>>
    /\ blind' = FALSE
    /\ UNCHANGED <<files, made, errors, crashes, skipped, unreflected, named, overwritten>>

(* ... then three of the files, the index first; the blocks stay.          *)
ClearIndex ==
    /\ pc = "clear_index"
    /\ index' = Absent
    /\ named' = <<>>
    /\ pc' = "clear_info"
    /\ UNCHANGED <<memory, shardState, shardInfo, raw, whole, torn, docs, counts,
                   lack, blind, overwritten>>

ClearShardInfo ==
    /\ pc = "clear_info"
    /\ shardInfo' = Absent
    /\ pc' = "clear_state"
    /\ UNCHANGED <<memory, shardState, raw, whole, torn, index, docs, counts, history>>

ClearShardState ==
    /\ pc = "clear_state"
    /\ shardState' = Absent
    /\ pc' = "load"
    /\ UNCHANGED <<memory, shardInfo, raw, whole, torn, index, docs, counts, history>>

(* A removal fails: the request fails and leaves the engine stopped.       *)
ClearFails ==
    /\ pc \in Clearing
    /\ errors < MaxErrors
    /\ errors' = errors + 1
    /\ pc' = "stopped"
    /\ UNCHANGED <<memory, files, docs, made, crashes, restarts, history>>

-----------------------------------------------------------------------------

Put == PutBlock \/ SaveShardState \/ SaveShardInfo \/ SaveRawBlock \/ ReflectBlock
       \/ SaveCurrent \/ SaveLastFinalized \/ SaveIndex

Reset == ClearDocuments \/ ClearIndex \/ ClearShardInfo \/ ClearShardState \/ ClearFails

Start == Load \/ LoadPastIndex \/ LoadFails

Next == Put \/ WriteFails \/ Crash \/ Start \/ RestartEngine \/ Reset

Spec == Init /\ [][Next]_vars

-----------------------------------------------------------------------------
(* The properties.                                                         *)

(* Every variable has its type, and no block is filed under a sequence     *)
(* number that was never reached.                                          *)
TypeOK ==
    /\ pc \in Steps
    /\ current \in Blocks /\ lastFinalized \in Blocks
    /\ shardState.file \in {"absent", "torn", "whole"}
    /\ shardInfo.file \in {"absent", "torn", "whole"}
    /\ DOMAIN raw \subseteq 1..made
    /\ whole \subseteq Blocks /\ torn \subseteq Blocks
    /\ \/ index = Absent
       \/ index = Torn
       \/ index = Whole(index.of) /\ index.of \in Blocks \X Blocks
    /\ docs \subseteq Blocks
    /\ made \in 0..MaxBlocks
    /\ errors \in 0..MaxErrors /\ crashes \in 0..MaxCrashes /\ restarts \in 0..MaxRestarts
    /\ skipped \subseteq Blocks /\ unreflected \subseteq Blocks /\ wiped \in Blocks
    /\ named \in Blocks /\ blind \in BOOLEAN /\ overwritten \subseteq Blocks

(* The durable chain, the one the last complete index named, is extended,  *)
(* or forgotten by a reset, or begun anew by an engine that could not read *)
(* the index: crashes, failing writes and restarts change nothing of it.   *)
Durable == INSTANCE FinalizedChain WITH chain <- named, blind <- blind

ImplementsChain == Durable!ChainSpec

(* The raw file of every block of the durable chain holds that block, not  *)
(* one of an abandoned fork or of before a reset; only a block whose own   *)
(* finalization failed lacks it, and one that an engine started past an    *)
(* unread index overwrote.                                                 *)
RawBlocksMatchChain ==
    \A b \in ChainOf(Tip) : b \notin skipped \union overwritten =>
        Len(b) \in DOMAIN raw /\ raw[Len(b)] = Whole(b)

(* The documents of every block of the durable chain were handed to the    *)
(* database's client, which holds them in memory (ArangoHelper has what    *)
(* becomes of them there): only a block that failed to finalize or to be   *)
(* parsed was not, or one that a reset, cut off after it emptied the       *)
(* database, left.                                                         *)
DocumentsCoverChain ==
    \A b \in ChainOf(Tip) : b \in docs \union skipped \union unreflected \/ IsPrefix(b, wiped)

(* The node can always be started again from the files it wrote, whatever  *)
(* wrote them: crashes, failing writes, restarts and resets.               *)
NeverDead == pc # "dead"

(* What the code gives instead: only an index cut short keeps the node     *)
(* from starting; no block file that was cut short, or is missing, ever    *)
(* does, since the index names none.                                       *)
OnlyTornIndexIsFatal == pc = "dead" => index = Torn
=============================================================================
