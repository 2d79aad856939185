------------------------ MODULE BlockFinality_proofs ------------------------
(***************************************************************************)
(* Proofs about BlockFinality, for any number of blocks, failing writes,   *)
(* crashes and restarts: type correctness, that nothing but an index cut   *)
(* short keeps the node from starting, that the durable chain implements   *)
(* FinalizedChain, and that its raw blocks and documents are there.        *)
(***************************************************************************)
EXTENDS BlockFinality, SequenceTheorems, TLAPS

(* The steps between putting a block and its index entry.                  *)
InPut == Running \ {"idle"}

(* A block built of the first n numbers, and of those that were given out. *)
BuiltOf(b, n) == b \in Blocks /\ Len(b) <= n /\ \A i \in 1..Len(b) : b[i] <= n

Known(b) == BuiltOf(b, made)

(* All blocks in memory and in files are known.                            *)
AllKnown ==
    /\ Known(current) /\ Known(lastFinalized)
    /\ \A b \in whole \union torn : Known(b)
    /\ index.file = "whole" => Known(index.of[1]) /\ Known(index.of[2])
    /\ Known(named)

(* A block's own file is written under a name no file has yet, and it is   *)
(* complete before the index names it.                                     *)
FilesPrecedeIndex ==
    /\ pc \in InPut => current # <<>>
    /\ pc \in Saving \union {"reflect", "bf_current"} => current \notin whole \union torn
    /\ pc \in {"bf_current", "bf_final", "index"} => lastFinalized = current
    /\ pc \in {"bf_final", "index"} => current \in whole

(* What the index names can be read back.                                  *)
IndexIsLoadable == index.file = "whole" => Readable(index.of[1]) /\ Readable(index.of[2])

(* The chain named last is the one the index names, unless the index was   *)
(* cut short since.                                                        *)
NamedIsTip == index.file # "torn" => named = Tip

(* What was named is behind what the running engine builds on, never       *)
(* beside it, and strictly behind while a block is put; unless the engine  *)
(* started past an unread index.                                           *)
MemoryExtendsDisk ==
    /\ pc \in Running /\ ~blind => IsPrefix(named, current)
    /\ pc \in InPut /\ ~blind => IsStrictPrefix(named, current)
    /\ blind => pc \in Running

IInv ==
    /\ TypeOK
    /\ AllKnown
    /\ FilesPrecedeIndex
    /\ IndexIsLoadable
    /\ NamedIsTip
    /\ MemoryExtendsDisk
    /\ OnlyTornIndexIsFatal

-----------------------------------------------------------------------------
(* Prefixes.                                                               *)

LEMMA PrefixRefl ==
    ASSUME NEW S, NEW s \in Seq(S)
    PROVE  IsPrefix(s, s) /\ IsPrefix(<<>>, s)
<1>1. Len(<<>>) = 0 /\ Len(s) \in Nat
  BY EmptySeq, LenProperties
<1>2. SubSeq(<<>>, 1, 0) = <<>> /\ SubSeq(s, 1, 0) = <<>>
  BY SubSeqEmpty
<1> QED BY <1>1, <1>2 DEF IsPrefix

LEMMA PrefixOfAppend ==
    ASSUME NEW S, NEW s \in Seq(S), NEW t \in Seq(S), NEW e \in S, IsPrefix(s, t)
    PROVE  IsStrictPrefix(s, Append(t, e))
<1> DEFINE u == Append(t, e)
<1>1. /\ u \in Seq(S)
      /\ Len(u) = Len(t) + 1
      /\ \A i \in 1..Len(t) : u[i] = t[i]
  BY AppendProperties
<1>2. Len(s) \in Nat /\ Len(t) \in Nat /\ Len(s) <= Len(t)
  BY LenProperties DEF IsPrefix
<1> HIDE DEF u
<1>3. \A i \in 1..Len(s) : t[i] \in S /\ u[i] \in S /\ u[i] = t[i]
  BY <1>1, <1>2, ElementOfSeq
<1>4. /\ SubSeq(t, 1, Len(s)) \in Seq(S)
      /\ Len(SubSeq(t, 1, Len(s))) = Len(s)
      /\ \A i \in 1..Len(s) : SubSeq(t, 1, Len(s))[i] = t[i]
  BY <1>2, <1>3, SubSeqProperties
<1>5. /\ SubSeq(u, 1, Len(s)) \in Seq(S)
      /\ Len(SubSeq(u, 1, Len(s))) = Len(s)
      /\ \A i \in 1..Len(s) : SubSeq(u, 1, Len(s))[i] = u[i]
  BY <1>2, <1>3, SubSeqProperties
<1>6. SubSeq(u, 1, Len(s)) = SubSeq(t, 1, Len(s))
  BY <1>3, <1>4, <1>5, SeqEqual
<1>7. IsPrefix(s, u)
  BY <1>1, <1>2, <1>6 DEF IsPrefix
<1>8. s # u
  BY <1>1, <1>2
<1> QED BY <1>7, <1>8 DEF IsStrictPrefix, u

-----------------------------------------------------------------------------

(* The chain of a block: prefixes of it, each with its own length.         *)
LEMMA ChainOfBlock ==
    ASSUME NEW c \in Blocks, NEW b \in ChainOf(c)
    PROVE  /\ b \in Blocks /\ Len(b) \in 1..Len(c)
           /\ IsPrefix(b, c)
           /\ Len(b) = Len(c) => b = c
<1>1. PICK n \in 1..Len(c) : b = SubSeq(c, 1, n)
  BY DEF ChainOf
<1>2. c \in Seq(Ids) /\ Len(c) \in Nat /\ \A i \in 1..Len(c) : c[i] \in Ids
  BY LenProperties, ElementOfSeq DEF Blocks
<1>3. n \in Int /\ 1 <= n /\ n <= Len(c) /\ \A i \in 1..n : c[i] \in Ids
  BY <1>1, <1>2
<1>4. /\ SubSeq(c, 1, n) \in Seq(Ids)
      /\ Len(SubSeq(c, 1, n)) = IF 1 <= n THEN n - 1 + 1 ELSE 0
  BY <1>3, SubSeqProperties
<1>5. b \in Seq(Ids) /\ Len(b) = n
  BY <1>1, <1>3, <1>4
<1>6. IsPrefix(b, c)
  BY <1>1, <1>3, <1>5, SubSeqFull DEF IsPrefix
<1>7. Len(b) = Len(c) => b = c
  BY <1>1, <1>2, <1>5, SubSeqFull
<1> QED BY <1>2, <1>3, <1>5, <1>6, <1>7 DEF Blocks

(* Known blocks stay known when a block is made.                           *)
LEMMA StillKnown ==
    ASSUME NEW n \in Nat, NEW m \in Nat, n <= m, NEW b, BuiltOf(b, n)
    PROVE  BuiltOf(b, m)
<1>1. Len(b) \in Nat /\ \A i \in 1..Len(b) : b[i] \in Nat
  BY LenProperties, ElementOfSeq, FinalityBounds DEF BuiltOf, Blocks, Ids
<1> QED BY <1>1 DEF BuiltOf

(* The block that is made next is new, and built of one number more.       *)
LEMMA NewBlock ==
    ASSUME NEW n \in Nat, n < MaxBlocks, NEW b, BuiltOf(b, n)
    PROVE  /\ BuiltOf(Append(b, n + 1), n + 1)
           /\ ~BuiltOf(Append(b, n + 1), n)
           /\ Append(b, n + 1) # <<>>
<1> DEFINE c == Append(b, n + 1)
<1>1. n + 1 \in Ids /\ b \in Seq(Ids)
  BY FinalityBounds DEF Ids, BuiltOf, Blocks
<1>2. /\ c \in Seq(Ids) /\ c # <<>>
      /\ Len(c) = Len(b) + 1
      /\ \A i \in 1..Len(b) : c[i] = b[i]
      /\ c[Len(b) + 1] = n + 1
  BY <1>1, AppendProperties
<1>3. Len(b) \in Nat /\ Len(b) <= n /\ \A i \in 1..Len(b) : b[i] \in Nat /\ b[i] <= n
  BY <1>1, LenProperties, ElementOfSeq, FinalityBounds DEF BuiltOf, Ids
<1> HIDE DEF c
<1>4. \A i \in 1..Len(c) : c[i] <= n + 1
  BY <1>2, <1>3
<1>5. ~BuiltOf(c, n)
  <2>1. Len(b) + 1 \in 1..Len(c) /\ ~(c[Len(b) + 1] <= n)
    BY <1>2, <1>3
  <2> QED BY <2>1 DEF BuiltOf
<1>6. BuiltOf(c, n + 1)
  BY <1>2, <1>3, <1>4 DEF BuiltOf, Blocks
<1> QED BY <1>2, <1>5, <1>6 DEF c

LEMMA InitIInv == Init => IInv
<1> SUFFICES ASSUME Init PROVE IInv
  OBVIOUS
<1> USE DEF Init
<1>1. <<>> \in Blocks /\ Len(<<>>) = 0 /\ DOMAIN <<>> = {}
  BY EmptySeq DEF Blocks
<1>2. Tip = <<>> /\ index.file = "absent"
  BY DEF Tip, Absent
<1>3. TypeOK
  <2>1. pc \in Steps /\ DOMAIN raw \subseteq 1..made
    BY <1>1 DEF Steps, Running
  <2>2. shardState.file \in {"absent", "torn", "whole"} /\ shardInfo.file \in {"absent", "torn", "whole"}
    BY DEF Absent
  <2>3. /\ made \in 0..MaxBlocks /\ errors \in 0..MaxErrors
        /\ crashes \in 0..MaxCrashes /\ restarts \in 0..MaxRestarts
    BY FinalityBounds
  <2> QED BY <1>1, <2>1, <2>2, <2>3 DEF TypeOK
<1>4. AllKnown
  <2>1. \A i \in 1..0 : FALSE
    OBVIOUS
  <2>2. BuiltOf(<<>>, made)
    BY <1>1, <2>1 DEF BuiltOf
  <2>3. /\ current = <<>> /\ lastFinalized = <<>> /\ named = <<>>
        /\ whole \union torn = {} /\ index.file # "whole"
    BY <1>2
  <2> HIDE DEF Init
  <2> QED BY <2>2, <2>3 DEF AllKnown, Known
<1>5. MemoryExtendsDisk /\ NamedIsTip
  <2>1. IsPrefix(named, current)
    BY <1>1, PrefixRefl DEF Blocks
  <2> QED BY <1>2, <2>1 DEF MemoryExtendsDisk, NamedIsTip, InPut
<1>6. FilesPrecedeIndex /\ IndexIsLoadable /\ OnlyTornIndexIsFatal
  BY <1>2 DEF FilesPrecedeIndex, IndexIsLoadable, OnlyTornIndexIsFatal, InPut, Saving
<1> QED BY <1>2, <1>3, <1>4, <1>5, <1>6 DEF IInv

(* Making a block.                                                         *)
LEMMA PutBlockKeepsIInv == IInv /\ PutBlock => IInv'
<1> SUFFICES ASSUME IInv, PutBlock PROVE IInv'
  OBVIOUS
<1> USE DEF files, lack, history
<1>1. made \in Nat /\ made < MaxBlocks /\ made' = made + 1 /\ Known(current)
  BY DEF PutBlock, IInv, TypeOK, AllKnown
<1>2. /\ current' = Append(current, made + 1)
      /\ BuiltOf(current', made') /\ ~Known(current') /\ current' # <<>>
  BY <1>1, NewBlock DEF Known, PutBlock
<1>3. UNCHANGED <<lastFinalized, shardState, shardInfo, raw, whole, torn, index, docs,
                  errors, crashes, restarts, skipped, unreflected, wiped,
                  named, blind, overwritten>>
  BY DEF PutBlock
<1>4. pc = "idle" /\ pc' = "state"
  BY DEF PutBlock
<1>5. TypeOK'
  <2>1. current' \in Blocks
    BY <1>2 DEF BuiltOf
  <2>2. made' \in 0..MaxBlocks /\ 1..made \subseteq 1..made'
    BY <1>1, FinalityBounds
  <2>3. pc' \in Steps
    BY <1>4 DEF Steps, Running, Writing, Saving
  <2> QED BY <1>3, <2>1, <2>2, <2>3 DEF IInv, TypeOK
<1>6. AllKnown'
  <2>1. \A b : Known(b) => BuiltOf(b, made')
    BY <1>1, StillKnown DEF Known
  <2> QED BY <1>2, <1>3, <2>1 DEF IInv, AllKnown, Known
<1>7. FilesPrecedeIndex'
  <2>1. current' \notin whole \union torn
    BY <1>2 DEF IInv, AllKnown
  <2> QED BY <1>2, <1>3, <1>4, <2>1 DEF FilesPrecedeIndex
<1>8. IndexIsLoadable' /\ NamedIsTip' /\ OnlyTornIndexIsFatal'
  BY <1>3, <1>4 DEF IInv, IndexIsLoadable, Readable, NamedIsTip, Tip, OnlyTornIndexIsFatal
<1>9. MemoryExtendsDisk'
  <2>1. named \in Blocks /\ current \in Blocks /\ made + 1 \in Ids
    BY <1>1, FinalityBounds DEF IInv, TypeOK, Ids
  <2>2. pc \in Running /\ pc' \in Running
    BY <1>4 DEF Running, Writing, Saving
  <2>3. ~blind => IsStrictPrefix(named, current')
    <3> SUFFICES ASSUME ~blind PROVE IsStrictPrefix(named, current')
      OBVIOUS
    <3>1. IsPrefix(named, current)
      BY <2>2 DEF IInv, MemoryExtendsDisk
    <3> QED BY <1>2, <2>1, <3>1, PrefixOfAppend DEF Blocks
  <2> QED BY <1>3, <2>2, <2>3 DEF MemoryExtendsDisk, IsStrictPrefix
<1> QED BY <1>5, <1>6, <1>7, <1>8, <1>9 DEF IInv

(* The facts about a block being put that its later steps use.             *)
LEMMA BlockInPut ==
    ASSUME IInv, pc \in InPut
    PROVE  /\ current \in Blocks /\ Len(current) \in 1..made
           /\ ~blind => IsStrictPrefix(named, current)
<1>1. /\ current \in Seq(Ids) /\ current # <<>>
      /\ made \in Nat /\ Len(current) <= made
  BY DEF IInv, TypeOK, AllKnown, Known, BuiltOf, FilesPrecedeIndex, Blocks
<1>2. Len(current) \in Nat /\ Len(current) # 0
  BY <1>1, EmptySeq, LenProperties
<1> QED BY <1>1, <1>2 DEF IInv, MemoryExtendsDisk, Blocks

(* Writing, or tearing, a raw file adds at most the block's own number.    *)
LEMMA RawDomain ==
    ASSUME IInv, pc \in InPut, NEW f, raw' = RawFiles(f)
    PROVE  DOMAIN raw' \subseteq 1..made
<1>1. DOMAIN raw' = {BlockKey} \union DOMAIN raw
  BY DEF RawFiles
<1> QED BY <1>1, BlockInPut DEF IInv, TypeOK, BlockKey

(* The writes of a block's state, info and raw file.                       *)
LEMMA SavingKeepsIInv ==
    IInv /\ (SaveShardState \/ SaveShardInfo \/ SaveRawBlock) => IInv'
<1> SUFFICES ASSUME IInv, SaveShardState \/ SaveShardInfo \/ SaveRawBlock PROVE IInv'
  OBVIOUS
<1>1. /\ UNCHANGED <<current, lastFinalized, whole, torn, index, docs, made,
                     errors, crashes, restarts, skipped, unreflected, wiped, named, blind>>
      /\ pc \in Saving /\ pc' \in {"info", "raw", "reflect"}
  BY DEF SaveShardState, SaveShardInfo, SaveRawBlock, memory, counts, lack, history, Saving
<1>2. pc \in InPut /\ pc' \in InPut /\ pc' \in Steps /\ pc' # "dead"
  BY <1>1 DEF InPut, Running, Writing, Saving, Steps
<1>3. shardState'.file \in {"absent", "torn", "whole"} /\ shardInfo'.file \in {"absent", "torn", "whole"}
  BY DEF SaveShardState, SaveShardInfo, SaveRawBlock, Whole, IInv, TypeOK
<1>4. DOMAIN raw' \subseteq 1..made'
  BY <1>1, <1>2, RawDomain DEF SaveShardState, SaveShardInfo, SaveRawBlock, IInv, TypeOK
<1>5. overwritten' \subseteq Blocks
  <2>1. overwritten' \subseteq overwritten \union ChainOf(named)
    BY DEF SaveShardState, SaveShardInfo, SaveRawBlock, history, NowOverwritten
  <2> QED BY <2>1, ChainOfBlock DEF IInv, TypeOK
<1>6. TypeOK'
  BY <1>1, <1>2, <1>3, <1>4, <1>5 DEF IInv, TypeOK
<1>7. AllKnown' /\ IndexIsLoadable' /\ NamedIsTip' /\ OnlyTornIndexIsFatal'
  BY <1>1, <1>2 DEF IInv, AllKnown, Known, IndexIsLoadable, Readable, NamedIsTip, Tip,
                    OnlyTornIndexIsFatal
<1>8. FilesPrecedeIndex'
  BY <1>1, <1>2 DEF IInv, FilesPrecedeIndex
<1>9. MemoryExtendsDisk'
  BY <1>1, <1>2 DEF IInv, MemoryExtendsDisk, InPut, IsStrictPrefix
<1> QED BY <1>6, <1>7, <1>8, <1>9 DEF IInv

(* The documents are handed over, and the block is finalized.              *)
LEMMA ReflectKeepsIInv == IInv /\ ReflectBlock => IInv'
<1> SUFFICES ASSUME IInv, ReflectBlock PROVE IInv'
  OBVIOUS
<1>1. /\ UNCHANGED <<current, shardState, shardInfo, raw, whole, torn, index, made,
                     crashes, restarts, skipped, wiped, named, blind, overwritten>>
      /\ pc = "reflect" /\ pc' = "bf_current" /\ lastFinalized' = current
  BY DEF ReflectBlock, AfterReflect, files
<1>2. pc \in InPut /\ pc' \in InPut /\ pc' \in Steps /\ pc' # "dead"
  BY <1>1 DEF InPut, Running, Writing, Saving, Steps
<1>3. current \in Blocks
  BY <1>2, BlockInPut
<1>4. docs' \subseteq Blocks /\ unreflected' \subseteq Blocks
  BY <1>3 DEF ReflectBlock, Reflected, IInv, TypeOK
<1>5. errors' \in 0..MaxErrors
  BY FinalityBounds DEF ReflectBlock, IInv, TypeOK
<1>6. TypeOK'
  BY <1>1, <1>2, <1>3, <1>4, <1>5 DEF IInv, TypeOK
<1>7. AllKnown' /\ IndexIsLoadable' /\ NamedIsTip' /\ OnlyTornIndexIsFatal'
  BY <1>1, <1>2 DEF IInv, AllKnown, Known, IndexIsLoadable, Readable, NamedIsTip, Tip,
                    OnlyTornIndexIsFatal
<1>8. FilesPrecedeIndex'
  BY <1>1, <1>2 DEF IInv, FilesPrecedeIndex, Saving
<1>9. MemoryExtendsDisk'
  BY <1>1, <1>2 DEF IInv, MemoryExtendsDisk, InPut, IsStrictPrefix
<1> QED BY <1>1, <1>6, <1>7, <1>8, <1>9 DEF IInv

(* The block's own file is written, twice under the same name.             *)
LEMMA BlockFileKeepsIInv == IInv /\ (SaveCurrent \/ SaveLastFinalized) => IInv'
<1> SUFFICES ASSUME IInv, SaveCurrent \/ SaveLastFinalized PROVE IInv'
  OBVIOUS
<1>1. /\ UNCHANGED <<current, lastFinalized, shardState, shardInfo, raw, torn, index, docs, made,
                     errors, crashes, restarts, skipped, unreflected, wiped,
                     named, blind, overwritten>>
      /\ \/ pc = "bf_current" /\ pc' = "bf_final"
         \/ pc = "bf_final" /\ pc' = "index"
  BY DEF SaveCurrent, SaveLastFinalized, memory, counts, lack, history
<1>2. pc \in InPut /\ pc' \in InPut /\ pc' \in Steps /\ pc' # "dead"
  BY <1>1 DEF InPut, Running, Writing, Saving, Steps
<1>3. current \in Blocks /\ Known(current) /\ lastFinalized = current
  BY <1>1, <1>2, BlockInPut DEF IInv, AllKnown, FilesPrecedeIndex
<1>4. whole' = whole \union {current}
  BY <1>1, <1>3 DEF SaveCurrent, SaveLastFinalized, WithBlockFile, IInv, FilesPrecedeIndex
<1>5. TypeOK'
  BY <1>1, <1>2, <1>3, <1>4 DEF IInv, TypeOK
<1>6. AllKnown' /\ IndexIsLoadable' /\ NamedIsTip' /\ OnlyTornIndexIsFatal'
  BY <1>1, <1>2, <1>3, <1>4 DEF IInv, AllKnown, Known, IndexIsLoadable, Readable,
                                NamedIsTip, Tip, OnlyTornIndexIsFatal
<1>7. FilesPrecedeIndex'
  BY <1>1, <1>2, <1>3, <1>4 DEF IInv, FilesPrecedeIndex, Saving
<1>8. MemoryExtendsDisk'
  BY <1>1, <1>2 DEF IInv, MemoryExtendsDisk, InPut, IsStrictPrefix
<1> QED BY <1>5, <1>6, <1>7, <1>8 DEF IInv

(* The index is written.                                                   *)
LEMMA IndexKeepsIInv == IInv /\ SaveIndex => IInv'
<1> SUFFICES ASSUME IInv, SaveIndex PROVE IInv'
  OBVIOUS
<1>1. /\ UNCHANGED <<current, lastFinalized, shardState, shardInfo, raw, whole, torn, docs, made,
                     errors, crashes, restarts, skipped, unreflected, wiped, overwritten>>
      /\ pc = "index" /\ pc' = "idle"
      /\ index' = Whole(<<current, lastFinalized>>)
      /\ named' = current /\ blind' = FALSE
  BY DEF SaveIndex, memory, counts, lack
<1>2. pc \in InPut /\ pc' \in Steps
  BY <1>1 DEF InPut, Running, Writing, Saving, Steps
<1>3. /\ index'.file = "whole" /\ index'.of = <<current, lastFinalized>>
      /\ index'.of[1] = current /\ index'.of[2] = lastFinalized
  BY <1>1 DEF Whole
<1>4. current \in Blocks /\ lastFinalized = current /\ current \in whole /\ Known(current)
  BY <1>1, <1>2, BlockInPut DEF IInv, FilesPrecedeIndex, AllKnown
<1>5. TypeOK'
  <2>1. index'.of \in Blocks \X Blocks /\ index' = Whole(index'.of)
    BY <1>1, <1>3, <1>4
  <2> QED BY <1>1, <1>2, <1>4, <2>1 DEF IInv, TypeOK
<1>6. AllKnown' /\ IndexIsLoadable'
  <2>1. current' = current /\ lastFinalized' = current /\ named' = current
        /\ made' = made /\ whole' = whole /\ torn' = torn
    BY <1>1, <1>4
  <2>2. BuiltOf(current, made) /\ \A b \in whole \union torn : BuiltOf(b, made)
    BY <1>4 DEF IInv, AllKnown, Known
  <2>3. index'.of[1] = current /\ index'.of[2] = current
    BY <1>3, <1>4
  <2>4. AllKnown'
    BY <2>1, <2>2, <2>3 DEF AllKnown, Known
  <2>5. IndexIsLoadable'
    BY <1>4, <2>1, <2>3 DEF IndexIsLoadable, Readable
  <2> QED BY <2>4, <2>5
<1>7. FilesPrecedeIndex' /\ NamedIsTip' /\ OnlyTornIndexIsFatal'
  BY <1>1, <1>3 DEF FilesPrecedeIndex, NamedIsTip, Tip, OnlyTornIndexIsFatal, InPut, Saving
<1>8. MemoryExtendsDisk'
  <2>1. IsPrefix(named', current')
    BY <1>1, <1>4, PrefixRefl DEF Blocks
  <2> QED BY <1>1, <2>1 DEF MemoryExtendsDisk, InPut
<1> QED BY <1>5, <1>6, <1>7, <1>8 DEF IInv

(* What a write that does not come to its end may leave behind.            *)
LEMMA InterruptedFiles ==
    ASSUME IInv, Interrupted
    PROVE  /\ shardState'.file \in {"absent", "torn", "whole"}
           /\ shardInfo'.file \in {"absent", "torn", "whole"}
           /\ DOMAIN raw' \subseteq 1..made
           /\ whole' = whole
           /\ torn' \subseteq torn \union {current, lastFinalized}
           /\ index' \in {index, Torn}
           /\ overwritten' \subseteq Blocks
<1>1. CASE UNCHANGED <<files, overwritten>>
  BY <1>1 DEF files, IInv, TypeOK
<1>2. CASE TearFile
  <2>1. /\ shardState' \in {shardState, Torn}
        /\ shardInfo' \in {shardInfo, Torn}
        /\ whole' = whole
        /\ torn' \subseteq torn \union {current, lastFinalized}
        /\ index' \in {index, Torn}
        /\ overwritten' \subseteq overwritten \union ChainOf(named)
    BY <1>2 DEF TearFile, NowOverwritten
  <2>2. raw' = raw \/ (raw' = RawFiles(Torn) /\ pc \in InPut)
    BY <1>2 DEF TearFile, InPut, Running, Writing, Saving
  <2>3. DOMAIN raw' \subseteq 1..made
    BY <2>2, RawDomain DEF IInv, TypeOK
  <2>4. overwritten' \subseteq Blocks
    BY <2>1, ChainOfBlock DEF IInv, TypeOK
  <2> QED BY <2>1, <2>3, <2>4 DEF Torn, IInv, TypeOK
<1> QED BY <1>1, <1>2 DEF Interrupted

(* A step that writes no block's file and leaves no block being put, into  *)
(* whatever state of the index and of the memory is consistent.            *)
LEMMA OutsidePutKeepsIInv ==
    ASSUME IInv, TypeOK', pc' \notin InPut,
           whole' = whole, made' = made,
           torn' \subseteq torn \union {current, lastFinalized},
           \/ index' \in {index, Torn} /\ named' = named
           \/ index' = Absent /\ named' = <<>>,
           current' \in {current, <<>>, Tip},
           \/ lastFinalized' \in {lastFinalized, <<>>}
           \/ lastFinalized' = index.of[2] /\ index.file = "whole",
           pc' \in Running /\ ~blind' => IsPrefix(named', current'),
           blind' => pc' \in Running,
           pc' = "dead" => index' = Torn
    PROVE  IInv'
<1>1. AllKnown'
  <2>1. Known(<<>>)
    BY EmptySeq DEF Known, BuiltOf, Blocks, IInv, TypeOK
  <2>2. Known(Tip)
    BY <2>1 DEF Tip, IInv, AllKnown
  <2>3. BuiltOf(current', made) /\ BuiltOf(lastFinalized', made) /\ BuiltOf(named', made)
    BY <2>1, <2>2 DEF IInv, AllKnown, Known
  <2> QED BY <2>3 DEF IInv, AllKnown, Known, Absent, Torn
<1>2. FilesPrecedeIndex'
  BY DEF FilesPrecedeIndex, InPut, Running, Writing, Saving
<1>3. IndexIsLoadable'
  BY DEF IInv, IndexIsLoadable, Readable, Absent, Torn
<1>4. MemoryExtendsDisk' /\ OnlyTornIndexIsFatal'
  BY DEF MemoryExtendsDisk, OnlyTornIndexIsFatal
<1>5. NamedIsTip'
  BY DEF IInv, NamedIsTip, Tip, Absent, Torn
<1> QED BY <1>1, <1>2, <1>3, <1>4, <1>5 DEF IInv

LEMMA FailureKeepsIInv == IInv /\ (WriteFails \/ Crash) => IInv'
<1> SUFFICES ASSUME IInv, WriteFails \/ Crash PROVE IInv'
  OBVIOUS
<1>1. /\ shardState'.file \in {"absent", "torn", "whole"}
      /\ shardInfo'.file \in {"absent", "torn", "whole"}
      /\ DOMAIN raw' \subseteq 1..made
      /\ whole' = whole
      /\ torn' \subseteq torn \union {current, lastFinalized}
      /\ index' \in {index, Torn}
      /\ overwritten' \subseteq Blocks
  BY InterruptedFiles DEF WriteFails, Crash
<1>2. /\ UNCHANGED <<docs, made, restarts, unreflected, wiped, named>>
      /\ pc' \in {"idle", "down"}
      /\ pc' = "idle" => pc \in InPut /\ UNCHANGED <<current, lastFinalized, blind>>
      /\ pc' = "down" => current' = <<>> /\ lastFinalized' = <<>> /\ blind' = FALSE
  BY DEF WriteFails, Crash, memory, lack, InPut, Running, Writing, Saving
<1>3. /\ pc' \notin InPut /\ pc' # "dead" /\ pc' \in Steps
      /\ pc' \in Running <=> pc' = "idle"
  BY <1>2 DEF InPut, Running, Writing, Saving, Steps
<1>4. errors' \in 0..MaxErrors /\ crashes' \in 0..MaxCrashes
  BY FinalityBounds DEF WriteFails, Crash, IInv, TypeOK
<1>5. /\ current' \in Blocks /\ lastFinalized' \in Blocks
      /\ blind' \in BOOLEAN /\ (blind' => pc' \in Running)
  BY <1>2, <1>3, EmptySeq DEF IInv, TypeOK, Blocks
<1>6. skipped' \subseteq Blocks
  BY DEF WriteFails, Crash, lack, IInv, TypeOK
<1>7. TypeOK'
  BY <1>1, <1>2, <1>3, <1>4, <1>5, <1>6 DEF IInv, TypeOK, AllKnown, Known, BuiltOf, Torn
<1>8. pc' \in Running /\ ~blind' => IsPrefix(named', current')
  BY <1>2, <1>3 DEF IInv, MemoryExtendsDisk, InPut
<1> QED BY <1>1, <1>2, <1>3, <1>5, <1>7, <1>8, OutsidePutKeepsIInv

LEMMA LoadKeepsIInv == IInv /\ Load => IInv'
<1> SUFFICES ASSUME IInv, Load PROVE IInv'
  OBVIOUS
<1>1. UNCHANGED <<shardState, shardInfo, raw, whole, torn, index, docs, made, errors, crashes,
                  restarts, skipped, unreflected, wiped, named, blind, overwritten>>
  BY DEF Load, files, counts, lack, history
<1>2. Tip \in Blocks /\ (index.file = "whole" => index.of[2] \in Blocks)
  BY EmptySeq DEF Tip, IInv, AllKnown, Known, BuiltOf, Blocks
<1>3. ~blind
  <2>1. pc \notin Running
    BY DEF Load, Running, Writing, Saving
  <2> QED BY <2>1 DEF IInv, MemoryExtendsDisk
<1>4. CASE Loadable
  <2>1. /\ pc' = "idle" /\ current' = Tip
        /\ lastFinalized' = IF index.file = "whole" THEN index.of[2] ELSE <<>>
    BY <1>4 DEF Load, LoadedCurrent
  <2>2. TypeOK'
    BY <1>1, <1>2, <2>1, EmptySeq DEF IInv, TypeOK, Steps, Running, Blocks
  <2>3. named = Tip
    BY <1>4 DEF Loadable, IInv, NamedIsTip
  <2>4. IsPrefix(named', current')
    BY <1>1, <1>2, <2>1, <2>3, PrefixRefl DEF Blocks
  <2> QED BY <1>1, <1>3, <2>1, <2>2, <2>4, OutsidePutKeepsIInv DEF InPut
<1>5. CASE ~Loadable
  <2>1. pc' \in {"dead", "stopped"} /\ UNCHANGED <<current, lastFinalized>>
    BY <1>5 DEF Load, memory
  <2>2. TypeOK'
    BY <1>1, <2>1 DEF IInv, TypeOK, Steps
  <2>3. index = Torn
    BY <1>5 DEF Loadable, IInv, TypeOK, IndexIsLoadable, Absent, Torn, Whole
  <2>4. pc' \notin Running
    BY <2>1 DEF Running, Writing, Saving
  <2> QED BY <1>1, <1>3, <2>1, <2>2, <2>3, <2>4, OutsidePutKeepsIInv DEF InPut
<1> QED BY <1>4, <1>5

(* A start that meets an error: past the index, or not at all.             *)
LEMMA FailedLoadKeepsIInv == IInv /\ (LoadPastIndex \/ LoadFails) => IInv'
<1> SUFFICES ASSUME IInv, LoadPastIndex \/ LoadFails PROVE IInv'
  OBVIOUS
<1>1. UNCHANGED <<shardState, shardInfo, raw, whole, torn, index, docs, made, crashes,
                  restarts, skipped, unreflected, wiped, named, overwritten>>
  BY DEF LoadPastIndex, LoadFails, files, lack, history
<1>2. errors' \in 0..MaxErrors
  BY FinalityBounds DEF LoadPastIndex, LoadFails, IInv, TypeOK
<1>3. CASE LoadPastIndex
  <2>1. pc' = "idle" /\ current' = <<>> /\ lastFinalized' = <<>> /\ blind' = TRUE
    BY <1>3 DEF LoadPastIndex
  <2>2. pc' \in Running /\ pc' \in Steps /\ pc' \notin InPut
    BY <2>1 DEF Running, Steps, InPut
  <2>3. TypeOK'
    BY <1>1, <1>2, <2>1, <2>2, EmptySeq DEF IInv, TypeOK, Blocks
  <2> QED BY <1>1, <2>1, <2>2, <2>3, OutsidePutKeepsIInv
<1>4. CASE LoadFails
  <2>1. /\ pc \in {"down", "load"} /\ pc' \in {"down", "stopped"}
        /\ UNCHANGED <<current, lastFinalized, blind>>
    BY <1>4 DEF LoadFails, memory, history
  <2>2. pc \notin Running /\ pc' \notin Running /\ pc' \in Steps /\ pc' \notin InPut
    BY <2>1 DEF Running, Writing, Saving, Steps, InPut
  <2>3. TypeOK'
    BY <1>1, <1>2, <2>1, <2>2 DEF IInv, TypeOK
  <2>4. ~blind'
    BY <2>1, <2>2 DEF IInv, MemoryExtendsDisk
  <2> QED BY <1>1, <2>1, <2>2, <2>3, <2>4, OutsidePutKeepsIInv
<1> QED BY <1>3, <1>4

LEMMA RestartKeepsIInv == IInv /\ (RestartEngine \/ Reset) => IInv'
<1> SUFFICES ASSUME IInv, RestartEngine \/ Reset PROVE IInv'
  OBVIOUS
<1> USE DEF RestartEngine, Reset, ClearDocuments, ClearIndex, ClearShardInfo, ClearShardState,
            ClearFails, memory, files, counts, lack, history
<1>1. /\ UNCHANGED <<raw, whole, torn, made, crashes, skipped, unreflected, overwritten>>
      /\ \/ index' = index /\ named' = named
         \/ index' = Absent /\ named' = <<>>
      /\ shardState' \in {shardState, Absent} /\ shardInfo' \in {shardInfo, Absent}
      /\ docs' \in {docs, {}} /\ wiped' \in {wiped, Tip}
      /\ current' \in {current, <<>>} /\ lastFinalized' \in {lastFinalized, <<>>}
  OBVIOUS
<1>2. /\ pc' \in Clearing \union {"load", "stopped"}
      /\ blind' = FALSE \/ (pc \in Clearing /\ blind' = blind)
  BY DEF Clearing
<1>3. pc' \in Steps /\ pc' \notin Running /\ pc' # "dead"
  BY <1>2 DEF Steps, Clearing, Running, Writing, Saving
<1>4. errors' \in 0..MaxErrors /\ restarts' \in 0..MaxRestarts
  BY FinalityBounds DEF IInv, TypeOK
<1> HIDE DEF RestartEngine, Reset, ClearDocuments, ClearIndex, ClearShardInfo, ClearShardState,
             ClearFails, memory, files, counts, lack, history
<1>5. Tip \in Blocks /\ <<>> \in Blocks
  BY EmptySeq DEF Tip, IInv, AllKnown, Known, BuiltOf, Blocks
<1>6. blind' = FALSE
  <2>1. pc \in Clearing => pc \notin Running
    BY DEF Clearing, Running, Writing, Saving
  <2> QED BY <1>2, <2>1 DEF IInv, MemoryExtendsDisk, TypeOK
<1>7. TypeOK'
  <2>1. index' = index \/ index' = Absent
    BY <1>1
  <2>2. /\ current' \in Blocks /\ lastFinalized' \in Blocks
        /\ named' \in Blocks /\ wiped' \in Blocks
    BY <1>1, <1>5 DEF IInv, TypeOK
  <2>3. /\ shardState'.file \in {"absent", "torn", "whole"}
        /\ shardInfo'.file \in {"absent", "torn", "whole"}
    BY <1>1 DEF IInv, TypeOK, Absent
  <2>4. \/ index' = Absent
        \/ index' = Torn
        \/ index' = Whole(index'.of) /\ index'.of \in Blocks \X Blocks
    BY <2>1 DEF IInv, TypeOK
  <2>5. docs' \subseteq Blocks
    BY <1>1 DEF IInv, TypeOK
  <2> QED BY <1>1, <1>3, <1>4, <1>6, <2>2, <2>3, <2>4, <2>5 DEF IInv, TypeOK
<1> QED BY <1>1, <1>3, <1>6, <1>7, OutsidePutKeepsIInv DEF InPut

LEMMA NextKeepsIInv == IInv /\ [Next]_vars => IInv'
<1> SUFFICES ASSUME IInv, [Next]_vars PROVE IInv'
  OBVIOUS
<1>1. CASE Put
  BY <1>1, PutBlockKeepsIInv, SavingKeepsIInv, ReflectKeepsIInv, BlockFileKeepsIInv,
     IndexKeepsIInv DEF Put
<1>2. CASE WriteFails \/ Crash
  BY <1>2, FailureKeepsIInv
<1>3. CASE Start
  BY <1>3, LoadKeepsIInv, FailedLoadKeepsIInv DEF Start
<1>4. CASE RestartEngine \/ Reset
  BY <1>4, RestartKeepsIInv
<1>5. CASE UNCHANGED vars
  <2>1. UNCHANGED <<pc, current, lastFinalized, whole, torn, index, made, named, blind>> /\ TypeOK'
    BY <1>5 DEF vars, memory, files, counts, lack, history, IInv, TypeOK
  <2> QED BY <2>1 DEF IInv, AllKnown, Known, FilesPrecedeIndex, IndexIsLoadable, Readable,
                      NamedIsTip, MemoryExtendsDisk, OnlyTornIndexIsFatal, Tip, IsStrictPrefix
<1> QED BY <1>1, <1>2, <1>3, <1>4, <1>5 DEF Next

(* The variables keep their types.                                         *)
THEOREM TypeCorrect == Spec => []TypeOK
<1>1. IInv => TypeOK
  BY DEF IInv
<1> QED BY InitIInv, NextKeepsIInv, <1>1, PTL DEF Spec

(* Of all that crashes, failing reads and writes, restarts and resets may  *)
(* leave, only an index cut short makes a start impossible.                *)
THEOREM FatalOnlyByTornIndex == Spec => []OnlyTornIndexIsFatal
<1>1. IInv => OnlyTornIndexIsFatal
  BY DEF IInv
<1> QED BY InitIInv, NextKeepsIInv, <1>1, PTL DEF Spec

(* Whatever the index file, what it names once it is whole can be read.    *)
THEOREM IndexLoadable == Spec => []IndexIsLoadable
<1>1. IInv => IndexIsLoadable
  BY DEF IInv
<1> QED BY InitIInv, NextKeepsIInv, <1>1, PTL DEF Spec

-----------------------------------------------------------------------------
(* The refinement.                                                         *)

(* Only the index entry of a block extends the durable chain, or replaces  *)
(* it after a start past the index, and only a reset makes it empty.       *)
LEMMA StepIsChainStep == IInv /\ [Next]_vars => [Durable!ChainNext]_(Durable!chainVars)
<1> SUFFICES ASSUME IInv, [Next]_vars
             PROVE  [Durable!ChainNext]_(Durable!chainVars)
  OBVIOUS
<1> USE DEF Durable!ChainNext
<1>1. CASE SaveIndex
  <2>1. pc \in InPut
    BY <1>1 DEF SaveIndex, InPut, Running, Writing
  <2>2. current # <<>> /\ (~blind => IsStrictPrefix(named, current))
    BY <2>1, BlockInPut DEF IInv, FilesPrecedeIndex
  <2>3. named' = current /\ ~blind'
    BY <1>1 DEF SaveIndex
  <2>4. CASE ~blind
    <3>1. IsStrictPrefix(named, named')
      BY <2>2, <2>3, <2>4
    <3>2. Durable!Extend
      BY <2>3, <2>4, <3>1
         DEF Durable!Extend, Durable!IsStrictPrefix, Durable!IsPrefix, IsStrictPrefix, IsPrefix
    <3> QED BY <3>2
  <2>5. CASE blind
    BY <2>2, <2>3, <2>5 DEF Durable!StartOver
  <2> QED BY <2>4, <2>5
<1>2. CASE LoadPastIndex
  <2>1. pc \notin Running /\ named' = named /\ blind'
    BY <1>2 DEF LoadPastIndex, Running, Writing, Saving
  <2> QED BY <2>1 DEF IInv, MemoryExtendsDisk, Durable!Overlook
<1>3. CASE ClearIndex
  <2>1. pc \notin Running /\ named' = <<>> /\ blind' = blind
    BY <1>3 DEF ClearIndex, Running, Writing, Saving
  <2> QED BY <2>1 DEF IInv, MemoryExtendsDisk, Durable!Forget
<1>4. CASE named' = named /\ (blind' = blind \/ ~blind')
  <2>1. blind \in BOOLEAN /\ blind' \in BOOLEAN
    BY NextKeepsIInv DEF IInv, TypeOK
  <2>2. CASE blind' = blind
    BY <1>4, <2>2 DEF Durable!chainVars
  <2>3. CASE blind /\ ~blind'
    BY <1>4, <2>3 DEF Durable!GiveUp
  <2> QED BY <1>4, <2>1, <2>2, <2>3
<1>5. \/ SaveIndex \/ LoadPastIndex \/ ClearIndex
      \/ named' = named /\ (blind' = blind \/ ~blind')
  <2> USE DEF lack, history
  <2>1. CASE Put
    BY <2>1 DEF Put, PutBlock, SaveShardState, SaveShardInfo, SaveRawBlock, ReflectBlock,
                SaveCurrent, SaveLastFinalized
  <2>2. CASE WriteFails \/ Crash \/ RestartEngine
    BY <2>2 DEF WriteFails, Crash, RestartEngine
  <2>3. CASE Start
    BY <2>3 DEF Start, Load, LoadFails
  <2>4. CASE Reset
    BY <2>4 DEF Reset, ClearDocuments, ClearShardInfo, ClearShardState, ClearFails
  <2>5. CASE UNCHANGED vars
    BY <2>5 DEF vars
  <2> QED BY <2>1, <2>2, <2>3, <2>4, <2>5 DEF Next
<1> QED BY <1>1, <1>2, <1>3, <1>4, <1>5

(* The durable chain implements FinalizedChain, with nothing assumed about *)
(* how the index is written or whether it can be read.                     *)
THEOREM DurableChain == Spec => ImplementsChain
<1>1. Init => Durable!ChainInit
  BY DEF Init, Durable!ChainInit
<1> QED
  BY InitIInv, NextKeepsIInv, StepIsChainStep, <1>1, PTL
     DEF Spec, ImplementsChain, Durable!ChainSpec
-----------------------------------------------------------------------------
(* The chain and what is filed about it.                                   *)

(* The chain of a block made is that of the block it is built on, and it.  *)
LEMMA ChainOfAppend ==
    ASSUME NEW c \in Blocks, NEW e \in Ids, NEW b \in ChainOf(Append(c, e))
    PROVE  b \in ChainOf(c) \/ b = Append(c, e)
<1> DEFINE d == Append(c, e)
<1>1. c \in Seq(Ids) /\ Len(c) \in Nat
  BY LenProperties DEF Blocks
<1>2. /\ d \in Seq(Ids) /\ Len(d) = Len(c) + 1
      /\ \A i \in 1..Len(c) : d[i] = c[i]
  BY <1>1, AppendProperties
<1>3. PICK n \in 1..Len(d) : b = SubSeq(d, 1, n)
  BY DEF ChainOf
<1> HIDE DEF d
<1>4. CASE n = Len(d)
  BY <1>2, <1>3, <1>4, SubSeqFull DEF d
<1>5. CASE n \in 1..Len(c)
  <2>1. n \in Int /\ 1 <= n /\ \A i \in 1..n : c[i] \in Ids /\ d[i] = c[i]
    BY <1>1, <1>2, <1>5, ElementOfSeq
  <2>2. ASSUME NEW s, \A i \in 1..n : s[i] \in Ids
        PROVE  /\ SubSeq(s, 1, n) \in Seq(Ids) /\ Len(SubSeq(s, 1, n)) = n
               /\ \A i \in 1..n : SubSeq(s, 1, n)[i] = s[i]
    <3>1. /\ SubSeq(s, 1, n) \in Seq(Ids)
          /\ Len(SubSeq(s, 1, n)) = IF 1 <= n THEN n - 1 + 1 ELSE 0
          /\ \A i \in 1..n - 1 + 1 : SubSeq(s, 1, n)[i] = s[1 + i - 1]
      BY <2>1, <2>2, SubSeqProperties
    <3>2. n - 1 + 1 = n /\ \A i \in 1..n : 1 + i - 1 = i
      BY <2>1
    <3> QED BY <2>1, <3>1, <3>2
  <2>3. \A i \in 1..n : c[i] \in Ids /\ d[i] \in Ids
    BY <2>1
  <2>4. SubSeq(d, 1, n) = SubSeq(c, 1, n)
    BY <2>1, <2>2, <2>3, SeqEqual
  <2> QED BY <1>3, <1>5, <2>4 DEF ChainOf
<1>6. n = Len(d) \/ n \in 1..Len(c)
  BY <1>1, <1>2, <1>3
<1> QED BY <1>4, <1>5, <1>6

LEMMA NoChain == ChainOf(<<>>) = {}
<1>1. Len(<<>>) = 0
  BY EmptySeq
<1> QED BY <1>1 DEF ChainOf

(* The raw file of a block is there, unless its finalization failed or an  *)
(* engine that had not seen it overwrote the file.                         *)
RawFiled(b) ==
    b \in skipped \union overwritten \/ (Len(b) \in DOMAIN raw /\ raw[Len(b)] = Whole(b))

Documented(b) == b \in docs \union skipped \union unreflected \/ IsPrefix(b, wiped)

(* Raw files and documents of the durable chain and of the chain in memory *)
(* are there, those of the block that is put as far as it has come.  The   *)
(* chain in memory is needed since a block that failed after its raw file  *)
(* is not in the durable chain yet, and gets there with the next block.    *)
ChainsFiled ==
    /\ \A b \in ChainOf(Tip) : RawFiled(b) /\ Documented(b)
    /\ pc \in Running => \A b \in ChainOf(current) :
          /\ RawFiled(b) \/ (b = current /\ pc \in Saving)
          /\ Documented(b) \/ (b = current /\ pc \in Saving \union {"reflect"})

FInv == IInv /\ ChainsFiled

(* Only the raw file of the block being put is written, and the documents  *)
(* only go when they are cleared.                                          *)
LEMMA FilingFacts ==
    ASSUME IInv, [Next]_vars
    PROVE  /\ \/ raw' = raw
              \/ /\ pc = "raw" /\ \E f : raw' = RawFiles(f)
                 /\ NowOverwritten \subseteq overwritten'
           /\ skipped \subseteq skipped' /\ unreflected \subseteq unreflected'
           /\ overwritten \subseteq overwritten'
           /\ ClearDocuments \/ (docs \subseteq docs' /\ wiped' = wiped)
<1>1. Interrupted =>
         /\ \/ raw' = raw
            \/ /\ pc = "raw" /\ \E f : raw' = RawFiles(f)
               /\ NowOverwritten \subseteq overwritten'
         /\ overwritten \subseteq overwritten'
  BY DEF Interrupted, TearFile, files
<1> USE DEF files, lack, history
<1>2. CASE Put
  BY <1>2 DEF Put, PutBlock, SaveShardState, SaveShardInfo, SaveRawBlock, ReflectBlock,
              SaveCurrent, SaveLastFinalized, SaveIndex
<1>3. CASE WriteFails \/ Crash
  BY <1>1, <1>3 DEF WriteFails, Crash
<1>4. CASE Start \/ RestartEngine
  BY <1>4 DEF Start, Load, LoadPastIndex, LoadFails, RestartEngine
<1>5. CASE Reset
  BY <1>5 DEF Reset, ClearDocuments, ClearIndex, ClearShardInfo, ClearShardState, ClearFails
<1>6. CASE UNCHANGED vars
  BY <1>6 DEF vars
<1> QED BY <1>2, <1>3, <1>4, <1>5, <1>6 DEF Next

(* What is filed stays filed: the file that is overwritten is one that a   *)
(* block of another fork has, of the length of the block being put.        *)
LEMMA StaysFiled ==
    ASSUME IInv, [Next]_vars, NEW b, RawFiled(b),
           pc = "raw" => Len(b) # Len(current) \/ b \in NowOverwritten
    PROVE  RawFiled(b)'
<1>1. skipped \subseteq skipped' /\ overwritten \subseteq overwritten'
  BY FilingFacts
<1>2. CASE raw' = raw
  BY <1>1, <1>2 DEF RawFiled
<1>3. CASE /\ pc = "raw" /\ \E f : raw' = RawFiles(f)
           /\ NowOverwritten \subseteq overwritten'
  <2>1. PICK f : raw' = RawFiles(f)
    BY <1>3
  <2> QED BY <1>1, <1>3, <2>1 DEF RawFiled, RawFiles, BlockKey
<1> QED BY <1>2, <1>3, FilingFacts

LEMMA StaysDocumented ==
    ASSUME IInv, [Next]_vars, ~ClearDocuments, NEW b, Documented(b)
    PROVE  Documented(b)'
BY FilingFacts DEF Documented

(* Blocks of the durable chain are shorter than the block being put, or it *)
(* is a blind engine that puts the block.                                  *)
LEMMA DurableStaysFiled ==
    ASSUME FInv, [Next]_vars, NEW b \in ChainOf(Tip)
    PROVE  RawFiled(b)' /\ (~ClearDocuments => Documented(b)')
<1>1. RawFiled(b) /\ Documented(b)
  BY DEF FInv, ChainsFiled
<1>2. pc = "raw" => Len(b) # Len(current) \/ b \in NowOverwritten
  <2> SUFFICES ASSUME pc = "raw", Len(b) = Len(current) PROVE b \in NowOverwritten
    OBVIOUS
  <2>1. pc \in InPut
    BY DEF InPut, Running, Writing, Saving
  <2>2. named = Tip
    <3>1. index.file = "whole"
      BY NoChain DEF Tip
    <3> QED BY <3>1 DEF FInv, IInv, NamedIsTip
  <2>3. current \in Seq(Ids) /\ Tip \in Seq(Ids)
    BY <2>2 DEF FInv, IInv, TypeOK, Blocks
  <2>4. Len(b) \in 1..Len(Tip)
    BY <2>3, ChainOfBlock DEF Blocks
  <2>5. blind
    <3> SUFFICES ASSUME ~blind PROVE FALSE
      OBVIOUS
    <3>1. /\ Len(Tip) \in Nat /\ Len(current) \in Nat
          /\ Len(Tip) <= Len(current) /\ Tip = SubSeq(current, 1, Len(Tip)) /\ Tip # current
      BY <2>1, <2>2, <2>3, BlockInPut, LenProperties DEF FInv, IsStrictPrefix, IsPrefix
    <3>2. Len(Tip) # Len(current)
      BY <2>3, <3>1, SubSeqFull
    <3> QED BY <2>4, <3>1, <3>2
  <2> QED BY <2>2, <2>5 DEF NowOverwritten, BlockKey
<1> QED BY <1>1, <1>2, StaysFiled, StaysDocumented DEF FInv

(* So do the blocks of the chain in memory, but for the raw file that the  *)
(* block being put overwrites.                                             *)
LEMMA MemoryStaysFiled ==
    ASSUME FInv, [Next]_vars, NEW b \in ChainOf(current)
    PROVE  /\ RawFiled(b) /\ (b # current \/ pc # "raw") => RawFiled(b)'
           /\ Documented(b) /\ ~ClearDocuments => Documented(b)'
<1>1. current \in Blocks
  BY DEF FInv, IInv, TypeOK
<1>2. b # current => Len(b) # Len(current)
  BY <1>1, ChainOfBlock
<1> QED BY <1>2, StaysFiled, StaysDocumented DEF FInv

-----------------------------------------------------------------------------

LEMMA PutBlockKeepsFiled == FInv /\ PutBlock => ChainsFiled'
<1> SUFFICES ASSUME FInv, PutBlock PROVE ChainsFiled'
  OBVIOUS
<1>1. /\ pc = "idle" /\ pc' = "state" /\ index' = index
      /\ made < MaxBlocks /\ current' = Append(current, made + 1)
  BY DEF PutBlock, files
<1>2. [Next]_vars /\ ~ClearDocuments /\ pc \in Running /\ pc' \in Saving
  BY <1>1 DEF Next, Put, PutBlock, ClearDocuments, Running, Saving
<1>3. Tip' = Tip
  BY <1>1 DEF Tip
<1>4. current \in Blocks /\ made + 1 \in Ids
  BY <1>1, FinalityBounds DEF FInv, IInv, TypeOK, Ids
<1>5. ASSUME NEW b \in ChainOf(current) PROVE RawFiled(b)' /\ Documented(b)'
  <2>1. RawFiled(b) /\ Documented(b)
    BY <1>1, <1>2 DEF FInv, ChainsFiled, Saving
  <2> QED BY <1>1, <1>2, <2>1, MemoryStaysFiled
<1>6. ASSUME NEW b \in ChainOf(current') PROVE b \in ChainOf(current) \/ b = current'
  BY <1>1, <1>4, ChainOfAppend
<1>7. ASSUME NEW b \in ChainOf(Tip) PROVE RawFiled(b)' /\ Documented(b)'
  BY <1>2, DurableStaysFiled
<1> QED BY <1>2, <1>3, <1>5, <1>6, <1>7 DEF ChainsFiled

LEMMA SavingKeepsFiled ==
    FInv /\ (SaveShardState \/ SaveShardInfo \/ SaveRawBlock) => ChainsFiled'
<1> SUFFICES ASSUME FInv, SaveShardState \/ SaveShardInfo \/ SaveRawBlock PROVE ChainsFiled'
  OBVIOUS
<1>1. /\ current' = current /\ index' = index
      /\ \/ pc \in {"state", "info"} /\ pc' \in {"info", "raw"}
         \/ pc = "raw" /\ pc' = "reflect" /\ raw' = RawFiles(Whole(current))
  BY DEF SaveShardState, SaveShardInfo, SaveRawBlock, memory
<1>2. [Next]_vars /\ ~ClearDocuments /\ pc \in Running /\ pc \in Saving
  BY <1>1 DEF Next, Put, ClearDocuments, Running, Writing, Saving
<1>3. Tip' = Tip
  BY <1>1 DEF Tip
<1>4. ASSUME NEW b \in ChainOf(current), b # current PROVE RawFiled(b)' /\ Documented(b)'
  <2>1. RawFiled(b) /\ Documented(b)
    BY <1>2, <1>4 DEF FInv, ChainsFiled
  <2> QED BY <1>2, <1>4, <2>1, MemoryStaysFiled
<1>5. pc' \in Saving \/ (pc' = "reflect" /\ RawFiled(current)')
  BY <1>1 DEF Saving, RawFiled, RawFiles, BlockKey
<1>6. ASSUME NEW b \in ChainOf(Tip) PROVE RawFiled(b)' /\ Documented(b)'
  BY <1>2, DurableStaysFiled
<1> QED BY <1>1, <1>3, <1>4, <1>5, <1>6 DEF ChainsFiled

LEMMA ReflectKeepsFiled == FInv /\ ReflectBlock => ChainsFiled'
<1> SUFFICES ASSUME FInv, ReflectBlock PROVE ChainsFiled'
  OBVIOUS
<1>1. /\ current' = current /\ index' = index
      /\ pc = "reflect" /\ pc' = "bf_current"
      /\ docs' = docs \union {current} \/ unreflected' = unreflected \union {current}
  BY DEF ReflectBlock, Reflected, AfterReflect, files
<1>2. /\ [Next]_vars /\ ~ClearDocuments /\ pc \in Running /\ pc \notin Saving
      /\ pc' \notin Saving \union {"reflect"}
  BY <1>1 DEF Next, Put, ClearDocuments, Running, Saving
<1>3. Tip' = Tip
  BY <1>1 DEF Tip
<1>4. ASSUME NEW b \in ChainOf(current) PROVE RawFiled(b)'
  <2>1. RawFiled(b)
    BY <1>2 DEF FInv, ChainsFiled
  <2> QED BY <1>1, <1>2, <2>1, MemoryStaysFiled
<1>5. ASSUME NEW b \in ChainOf(current) PROVE Documented(b)'
  <2>1. CASE b = current
    BY <1>1, <2>1 DEF Documented
  <2>2. CASE b # current
    <3>1. Documented(b)
      BY <1>2, <2>2 DEF FInv, ChainsFiled
    <3> QED BY <1>2, <3>1, MemoryStaysFiled
  <2> QED BY <2>1, <2>2
<1>6. ASSUME NEW b \in ChainOf(Tip) PROVE RawFiled(b)' /\ Documented(b)'
  BY <1>2, DurableStaysFiled
<1> QED BY <1>1, <1>3, <1>4, <1>5, <1>6 DEF ChainsFiled

(* The block gets into the durable chain once all of it is filed.          *)
LEMMA BlockFileKeepsFiled ==
    FInv /\ (SaveCurrent \/ SaveLastFinalized \/ SaveIndex) => ChainsFiled'
<1> SUFFICES ASSUME FInv, SaveCurrent \/ SaveLastFinalized \/ SaveIndex PROVE ChainsFiled'
  OBVIOUS
<1>1. /\ current' = current
      /\ pc \in {"bf_current", "bf_final", "index"} /\ pc' \in {"bf_final", "index", "idle"}
      /\ index' = index \/ index' = Whole(<<current, lastFinalized>>)
  BY DEF SaveCurrent, SaveLastFinalized, SaveIndex, memory
<1>2. /\ [Next]_vars /\ ~ClearDocuments /\ pc \in Running
      /\ pc \notin Saving \union {"reflect"}
  BY <1>1 DEF Next, Put, ClearDocuments, Running, Writing, Saving
<1>3. Tip' \in {Tip, current}
  BY <1>1 DEF Tip, Whole
<1>4. ASSUME NEW b \in ChainOf(current) PROVE RawFiled(b)' /\ Documented(b)'
  <2>1. RawFiled(b) /\ Documented(b)
    BY <1>2 DEF FInv, ChainsFiled
  <2> QED BY <1>1, <1>2, <2>1, MemoryStaysFiled
<1>5. ASSUME NEW b \in ChainOf(Tip) PROVE RawFiled(b)' /\ Documented(b)'
  BY <1>2, DurableStaysFiled
<1> QED BY <1>1, <1>3, <1>4, <1>5 DEF ChainsFiled

(* A block that fails before its raw file is there is skipped; one that    *)
(* fails later is filed.                                                   *)
LEMMA WriteFailsKeepsFiled == FInv /\ WriteFails => ChainsFiled'
<1> SUFFICES ASSUME FInv, WriteFails PROVE ChainsFiled'
  OBVIOUS
<1>1. /\ current' = current /\ pc \in Writing
      /\ pc \in Saving => current \in skipped'
  BY DEF WriteFails, memory
<1>2. [Next]_vars /\ ~ClearDocuments /\ pc \in Running /\ pc # "reflect"
  BY <1>1 DEF Next, ClearDocuments, Running, Writing, Saving
<1>3. Tip' \in {Tip, <<>>}
  <2>1. index' = index \/ index' = Torn
    BY InterruptedFiles DEF WriteFails, FInv
  <2> QED BY <2>1 DEF Tip, Torn
<1>4. ASSUME NEW b \in ChainOf(current) PROVE RawFiled(b)' /\ Documented(b)'
  <2>1. CASE b = current /\ pc \in Saving
    BY <1>1, <2>1 DEF RawFiled, Documented
  <2>2. CASE ~(b = current /\ pc \in Saving)
    <3>1. RawFiled(b) /\ Documented(b)
      BY <1>2, <2>2 DEF FInv, ChainsFiled
    <3>2. b # current \/ pc # "raw"
      BY <2>2 DEF Saving
    <3> QED BY <1>2, <3>1, <3>2, MemoryStaysFiled
  <2> QED BY <2>1, <2>2
<1>5. ASSUME NEW b \in ChainOf(Tip) PROVE RawFiled(b)' /\ Documented(b)'
  BY <1>2, DurableStaysFiled
<1> QED BY <1>1, <1>3, <1>4, <1>5, NoChain DEF ChainsFiled

LEMMA StartKeepsFiled == FInv /\ Start => ChainsFiled'
<1> SUFFICES ASSUME FInv, Start PROVE ChainsFiled'
  OBVIOUS
<1>1. /\ index' = index
      /\ \/ pc' = "idle" /\ current' \in {Tip, <<>>}
         \/ pc' \in {"dead", "stopped", "down"}
      /\ pc \in {"down", "load", "dead"}
  BY DEF Start, Load, LoadPastIndex, LoadFails, LoadedCurrent, files
<1>2. [Next]_vars /\ ~ClearDocuments
  BY <1>1 DEF Next, ClearDocuments
<1>3. Tip' = Tip
  BY <1>1 DEF Tip
<1>4. pc' \in Running => current' \in {Tip, <<>>}
  BY <1>1 DEF Running, Writing, Saving
<1>5. ASSUME NEW b \in ChainOf(Tip) PROVE RawFiled(b)' /\ Documented(b)'
  BY <1>2, DurableStaysFiled
<1> QED BY <1>3, <1>4, <1>5, NoChain DEF ChainsFiled

(* The steps of a process or an engine that ends, up to the next load.     *)
LEMMA EndKeepsFiled ==
    FInv /\ (Crash \/ RestartEngine \/ (Reset /\ ~ClearDocuments)) => ChainsFiled'
<1> SUFFICES ASSUME FInv, Crash \/ RestartEngine \/ (Reset /\ ~ClearDocuments)
             PROVE  ChainsFiled'
  OBVIOUS
<1>1. [Next]_vars
  BY DEF Next
<1>2. pc' \in Clearing \union {"load", "stopped", "down"}
  BY DEF Crash, RestartEngine, Reset, ClearDocuments, ClearIndex, ClearShardInfo,
         ClearShardState, ClearFails, Clearing
<1>3. pc' \notin Running
  BY <1>2 DEF Clearing, Running, Writing, Saving
<1>4. ~ClearDocuments
  BY <1>2 DEF Crash, RestartEngine, ClearDocuments
<1>5. Tip' \in {Tip, <<>>}
  <2>1. index' = index \/ index' \in {Torn, Absent}
    BY InterruptedFiles
       DEF Crash, RestartEngine, Reset, ClearIndex, ClearShardInfo, ClearShardState,
           ClearFails, files, FInv
  <2> QED BY <2>1 DEF Tip, Torn, Absent
<1>6. ASSUME NEW b \in ChainOf(Tip) PROVE RawFiled(b)' /\ Documented(b)'
  BY <1>1, <1>4, DurableStaysFiled
<1> QED BY <1>3, <1>5, <1>6, NoChain DEF ChainsFiled

(* The documents that are removed are those of the chain that is wiped.    *)
LEMMA ClearDocumentsKeepsFiled == FInv /\ ClearDocuments => ChainsFiled'
<1> SUFFICES ASSUME FInv, ClearDocuments PROVE ChainsFiled'
  OBVIOUS
<1>1. index' = index /\ wiped' = Tip /\ pc' = "clear_index"
  BY DEF ClearDocuments, files
<1>2. [Next]_vars
  BY DEF Next, Reset
<1>3. Tip' = Tip
  BY <1>1 DEF Tip
<1>4. pc' \notin Running
  BY <1>1 DEF Running, Writing, Saving
<1>5. Tip \in Blocks
  BY EmptySeq DEF FInv, IInv, AllKnown, Known, BuiltOf, Tip, Blocks
<1>6. ASSUME NEW b \in ChainOf(Tip) PROVE RawFiled(b)' /\ Documented(b)'
  <2>1. IsPrefix(b, Tip)
    BY <1>5, ChainOfBlock
  <2> QED BY <1>1, <1>2, <2>1, DurableStaysFiled DEF Documented
<1> QED BY <1>3, <1>4, <1>6 DEF ChainsFiled

LEMMA InitFInv == Init => FInv
<1> SUFFICES ASSUME Init PROVE FInv
  OBVIOUS
<1>1. Tip = <<>> /\ current = <<>>
  BY DEF Init, Tip, Absent
<1> QED BY <1>1, NoChain, InitIInv DEF FInv, ChainsFiled

LEMMA NextKeepsFInv == FInv /\ [Next]_vars => FInv'
<1> SUFFICES ASSUME FInv, [Next]_vars PROVE IInv' /\ ChainsFiled'
  BY DEF FInv
<1>1. IInv'
  BY NextKeepsIInv DEF FInv
<1>2. Put => ChainsFiled'
  BY PutBlockKeepsFiled, SavingKeepsFiled, ReflectKeepsFiled, BlockFileKeepsFiled DEF Put
<1>3. WriteFails \/ Crash \/ Start \/ RestartEngine \/ Reset => ChainsFiled'
  BY WriteFailsKeepsFiled, StartKeepsFiled, EndKeepsFiled, ClearDocumentsKeepsFiled
<1>4. UNCHANGED vars => ChainsFiled'
  <2> SUFFICES ASSUME UNCHANGED vars PROVE ChainsFiled'
    OBVIOUS
  <2>1. UNCHANGED <<pc, current, raw, index, docs, skipped, unreflected, wiped, overwritten>>
    BY DEF vars, memory, files, lack, history
  <2>2. Tip' = Tip /\ \A b : RawFiled(b) => RawFiled(b)'
    BY <2>1 DEF RawFiled, Tip
  <2>3. \A b : Documented(b) => Documented(b)'
    BY <2>1 DEF Documented
  <2> QED BY <2>1, <2>2, <2>3 DEF FInv, ChainsFiled
<1> QED BY <1>1, <1>2, <1>3, <1>4 DEF Next

(* The raw file of every block of the durable chain holds that block,      *)
(* whatever forks were abandoned after crashes and before resets; only a   *)
(* block whose own finalization failed lacks it, or one whose file an      *)
(* engine overwrote that started past an unread index.                     *)
THEOREM RawBlocksAreOfChain == Spec => []RawBlocksMatchChain
<1>1. FInv => RawBlocksMatchChain
  BY DEF FInv, ChainsFiled, RawFiled, RawBlocksMatchChain
<1> QED BY InitFInv, NextKeepsFInv, <1>1, PTL DEF Spec

(* The documents of every block of the durable chain were handed to the    *)
(* database's client, but for blocks that failed to finalize or to be      *)
(* parsed and those that a reset left when it was cut off.                 *)
THEOREM DocumentsOfChain == Spec => []DocumentsCoverChain
<1>1. FInv => DocumentsCoverChain
  BY DEF FInv, ChainsFiled, Documented, DocumentsCoverChain
<1> QED BY InitFInv, NextKeepsFInv, <1>1, PTL DEF Spec
=============================================================================
