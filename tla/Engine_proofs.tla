--------------------------- MODULE Engine_proofs ----------------------------
(***************************************************************************)
(* Proofs about Engine, for any bounds, increases of the time, failures    *)
(* and restarts.  The types are proved for any number of threads; what is  *)
(* said of the chains holds while one thread uses the engine.              *)
(***************************************************************************)
EXTENDS Engine, SequenceTheorems, TLAPS

Shard  == log["wc"]
Master == log["mc"]

(* One thread uses the engine.                                             *)
Alone == \A s, t \in users : s = t

Active(t) == ~At(t, "rest")

Restoring == At("run", "restore")

-----------------------------------------------------------------------------
(* TypeOK, with the bound that Restart needs.                              *)
Typed == TypeOK /\ \A c \in Chains : saved[c] <= Len(log[c])

(* The constructor executes as "run"; later only users execute, and each   *)
(* of them alone.                                                          *)
SoleInv ==
    /\ \A s, t \in Threads : Active(s) /\ Active(t) => s = t
    /\ \A t \in Threads : Active(t) => IF up THEN t \in users ELSE t = "run"
    /\ \A t \in Threads : thread[t].pc \in {"restore", "config", "config put", "down"} => ~up

(* The blocks of a chain are numbered without gaps, and a candidate has    *)
(* the next number until it is put.                                        *)
Numbered == \A c \in Chains : \A i \in DOMAIN log[c] : log[c][i].seq = i

NumberLocal(t) ==
    /\ At(t, "wc put") => thread[t].block.seq = Len(Shard) + 1
    /\ thread[t].pc \in {"mc put", "config put"} => thread[t].block.seq = Len(Master) + 1
    /\ At(t, "wc set") => /\ Shard # <<>> /\ saved["wc"] = Len(Shard)
                          /\ thread[t].block = Shard[Len(Shard)]

NumberInv == Numbered /\ \A t \in Threads : NumberLocal(t)

(* The registered shard blocks that no restart has forgotten.              *)
Kept == registered \ forgotten

(* What is registered is durable.  But for the moment before a restart has *)
(* read the masterchain back, shards is the last one kept, nothing later   *)
(* is listed, and unless it counts as changed it is listed; in that moment *)
(* all that is kept is listed.                                             *)
Listed ==
    /\ shards <= saved["wc"] /\ registered \subseteq 1..saved["wc"]
    /\ \A j \in DOMAIN Master : Master[j].shard <= saved["wc"]
    /\ ShardsNeverGoBack
    /\ Restoring => shards = 0 /\ \A k \in Kept : Listing(k) # {}
    /\ ~Restoring => /\ Kept \subseteq 1..shards
                     /\ \A j \in DOMAIN Master : Master[j].shard <= shards
                     /\ changed \/ \A k \in Kept : Listing(k) # {}

ListLocal(t) ==
    /\ thread[t].pc \in {"mc put", "config put"} => thread[t].block.shard = shards
    /\ At(t, "wc set") => shards < thread[t].block.seq

(* Nothing is left to be listed when all threads are at rest.              *)
Settled == (\A t \in Threads : At(t, "rest")) /\ up /\ ~failed => ~changed

ListInv == Listed /\ Settled /\ \A t \in Threads : ListLocal(t)

(* A shard block k that is kept is filed under the first masterchain block *)
(* that lists it, or under the next one.                                   *)
Filed ==
    /\ \A j \in DOMAIN Master : Master[j].mc = j
    /\ \A k \in Kept :
         /\ Shard[k].mc # 0
         /\ \A j \in DOMAIN Master : j < Shard[k].mc <=> Master[j].shard < k
         /\ ~Restoring => Shard[k].mc <= Len(Master) + 1

FiledLocal(t) ==
    /\ thread[t].pc \in {"wc", "wc put", "wc set", "wc next", "mc", "mc put"} =>
         thread[t].mcSeqNo = Len(Master) + 1
    /\ thread[t].pc \in {"wc put", "wc set"} => thread[t].block.mc = thread[t].mcSeqNo
    /\ thread[t].pc \in {"mc put", "config put"} => thread[t].block.mc = thread[t].block.seq

FiledInv == Filed /\ \A t \in Threads : FiledLocal(t)

(* The blocks are of epoch e or before it, those of e dated time or before *)
(* it; all are of an epoch before e.                                       *)
DatedIn(l, e, time) ==
    \A c \in Chains : \A i \in DOMAIN l[c] :
        l[c][i].epoch <= e /\ (l[c][i].epoch = e => l[c][i].utime <= time)

OlderIn(l, e) == \A c \in Chains : \A i \in DOMAIN l[c] : l[c][i].epoch < e

(* What was dated in this epoch is not ahead of the clock, and what was    *)
(* dated in the epoch of a thread's time is not after that time.           *)
Dated == DatedIn(log, epoch, NextTime)

Timed(t) ==
    /\ thread[t].epoch <= epoch
    /\ thread[t].epoch = epoch => thread[t].genTime <= NextTime
    /\ DatedIn(log, thread[t].epoch, thread[t].genTime)

DatedLocal(t) ==
    /\ thread[t].pc \in {"turn", "wc", "wc put", "wc set", "wc next", "mc", "mc put", "mc set",
                         "config", "config put"} => Timed(t)
    /\ thread[t].pc \in {"wc put", "wc set", "mc put", "config put"} =>
         thread[t].block.utime = thread[t].genTime /\ thread[t].block.epoch = thread[t].epoch
    /\ thread[t].pc \in {"restore", "config", "config put"} =>
         thread[t].genTime = 0 /\ OlderIn(log, epoch)

TimeInv == Dated /\ TimeNeverGoesBack /\ \A t \in Threads : DatedLocal(t)

(* In sequential mode the clock is ahead of the registered blocks of its   *)
(* epoch, and so is a time that was read after them.                       *)
Ahead ==
    /\ \A i \in DOMAIN Shard : Shard[i].epoch = epoch => Shard[i].mode = mode
    /\ \A k \in registered :
         Shard[k].epoch = epoch /\ Shard[k].mode = "Seq" => Shard[k].utime < NextTime

AheadLocal(t) ==
    /\ thread[t].pc \in {"wc put", "wc set"} /\ thread[t].block.epoch = epoch =>
         thread[t].block.mode = mode
    /\ thread[t].pc \in {"turn", "wc", "wc put", "wc set", "mc", "mc put", "mc set"} =>
         \A k \in registered :
           Shard[k].epoch = thread[t].epoch /\ Shard[k].mode = "Seq" =>
             Shard[k].utime < thread[t].genTime

RegisteredTimes ==
    \A i, j \in registered :
        i < j /\ Shard[i].epoch = Shard[j].epoch /\ Shard[i].mode = "Seq" /\ Shard[j].mode = "Seq"
          => Shard[i].utime < Shard[j].utime

SeqInv == Ahead /\ RegisteredTimes /\ \A t \in Threads : AheadLocal(t)
-----------------------------------------------------------------------------
(* Sequences.                                                              *)

LEMMA OfSeq ==
    ASSUME NEW S, NEW s \in Seq(S)
    PROVE  /\ Len(s) \in Nat /\ DOMAIN s = 1..Len(s)
           /\ \A i \in DOMAIN s : s[i] \in S
           /\ s # <<>> => Len(s) \in DOMAIN s /\ Last(s) = s[Len(s)] /\ Last(s) \in S
           /\ s = <<>> => Len(s) = 0
<1>1. Len(s) \in Nat /\ DOMAIN s = 1..Len(s) /\ \A i \in DOMAIN s : s[i] \in S
  BY LenProperties
<1>2. Len(s) = 0 <=> s = <<>>
  BY EmptySeq
<1>3. s # <<>> => Len(s) \in DOMAIN s
  BY <1>1, <1>2
<1> QED BY <1>1, <1>2, <1>3 DEF Last

LEMMA OfAppend ==
    ASSUME NEW S, NEW s \in Seq(S), NEW e \in S
    PROVE  /\ Append(s, e) \in Seq(S)
           /\ Len(s) \in Nat /\ DOMAIN s = 1..Len(s)
           /\ Len(Append(s, e)) = Len(s) + 1
           /\ DOMAIN Append(s, e) = 1..Len(s) + 1
           /\ \A i \in DOMAIN s : Append(s, e)[i] = s[i]
           /\ Append(s, e)[Len(s) + 1] = e
<1> DEFINE t == Append(s, e)
<1>1. /\ t \in Seq(S) /\ Len(t) = Len(s) + 1
      /\ \A i \in 1..Len(s) : t[i] = s[i]
      /\ t[Len(s) + 1] = e
  BY AppendProperties
<1> HIDE DEF t
<1>2. Len(s) \in Nat /\ DOMAIN s = 1..Len(s) /\ DOMAIN t = 1..Len(t)
  BY <1>1, LenProperties
<1> QED BY <1>1, <1>2 DEF t

(* The first k elements.                                                   *)
LEMMA OfPrefix ==
    ASSUME NEW S, NEW s \in Seq(S), NEW k \in Nat, k <= Len(s)
    PROVE  /\ SubSeq(s, 1, k) \in Seq(S)
           /\ Len(SubSeq(s, 1, k)) = k
           /\ DOMAIN SubSeq(s, 1, k) = 1..k
           /\ \A i \in 1..k : SubSeq(s, 1, k)[i] = s[i] /\ i \in DOMAIN s
<1> DEFINE t == SubSeq(s, 1, k)
<1>1. Len(s) \in Nat /\ DOMAIN s = 1..Len(s)
  BY LenProperties
<1>2. /\ t \in Seq(S) /\ Len(t) = k
      /\ \A i \in 1..k : t[i] = s[i]
  <2>1. \A i \in 1..k : s[i] \in S
    BY <1>1, LenProperties
  <2>2. /\ 1 \in Nat /\ k \in Nat
        /\ Len(t) = IF 1 <= k THEN k - 1 + 1 ELSE 0
        /\ t \in Seq(S)
        /\ \A i \in 1..k - 1 + 1 : t[i] = s[1 + i - 1]
    BY <1>1, <2>1, SubSeqProperties
  <2>3. \A i \in 1..k : i \in 1..k - 1 + 1 /\ 1 + i - 1 = i
    OBVIOUS
  <2> HIDE DEF t
  <2> QED BY <2>2, <2>3
<1> HIDE DEF t
<1>3. DOMAIN t = 1..k
  BY <1>2, LenProperties
<1> QED BY <1>1, <1>2, <1>3 DEF t

-----------------------------------------------------------------------------
(* Types.                                                                  *)

LEMMA RunIsThread == "run" \in Threads
BY DEF Threads

LEMMA RecordTypes == Zerostate \in Block /\ AtRest \in Local
<1>1. Zerostate \in Block
  BY DEF Zerostate, Block, Modes
<1> QED BY <1>1 DEF AtRest, Local, Steps

(* The last block of a chain, the zerostate if it has none.                *)
LEMMA TipType ==
    ASSUME Typed, NEW c \in Chains
    PROVE  /\ log[c] \in Seq(Block) /\ Len(log[c]) \in Nat
           /\ Tip(c) \in Block /\ Tip(c).seq \in Nat /\ Tip(c).out \in Nat /\ Tip(c).shard \in Nat
<1>1. log[c] \in Seq(Block)
  BY DEF Typed, TypeOK
<1>2. Tip(c) \in Block
  BY <1>1, OfSeq, RecordTypes DEF Tip
<1> QED BY <1>1, <1>2, OfSeq DEF Block

LEMMA ThreadType ==
    ASSUME Typed, NEW t \in Threads
    PROVE  /\ thread[t] \in Local /\ thread[t].pc \in Steps /\ thread[t].genTime \in Nat
           /\ thread[t].epoch \in Nat /\ thread[t].mcSeqNo \in Nat
           /\ thread[t].block \in Block
BY DEF Typed, TypeOK, Local

LEMMA NextTimeType == Typed => NextTime \in Nat /\ NextTime >= delta
BY DEF Typed, TypeOK, NextTime, Modes

(* The clock without its delta.                                            *)
LEMMA TimeLessDeltaType ==
    ASSUME Typed, NEW g \in Nat
    PROVE  TimeLessDelta(g) \in Nat /\ TimeLessDelta(g) + delta >= g
BY DEF Typed, TypeOK, TimeLessDelta

-----------------------------------------------------------------------------
(* What the actions do.                                                    *)

(* Only thread t moves on.                                                 *)
Moves(t) ==
    /\ t \in Threads
    /\ thread' \in [Threads -> Local]
    /\ \A s \in Threads \ {t} : thread'[s] = thread[s]

ClockSame  == now' = now /\ delta' = delta /\ mode' = mode /\ epoch' = epoch
ChainsSame == /\ log' = log /\ saved' = saved /\ shards' = shards /\ changed' = changed
              /\ registered' = registered /\ forgotten' = forgotten
StatusSame == users' = users /\ up' = up /\ failed' = failed
CountsSame == commands' = commands /\ failures' = failures /\ restarts' = restarts

LEMMA Moving ==
    ASSUME Typed, NEW t \in Threads, NEW l \in Local, thread' = [thread EXCEPT ![t] = l]
    PROVE  Moves(t) /\ thread'[t] = l
BY DEF Typed, TypeOK, Moves

LEMMA NextSeqNoType == ASSUME Typed, NEW c \in Chains PROVE NextSeqNo(c) \in Nat
BY TipType DEF NextSeqNo

LEMMA ChainsAre == "wc" \in Chains /\ "mc" \in Chains /\ "wc" # "mc"
BY DEF Chains

LEMMA BeginFacts ==
    ASSUME Typed, NEW t \in Threads, Begin(t)
    PROVE  /\ Moves(t)
           /\ thread[t].pc = "start"
           /\ thread'[t].pc = "turn"
           /\ thread'[t].genTime = NextTime
           /\ thread'[t].epoch = epoch
           /\ thread'[t].mcSeqNo = thread[t].mcSeqNo /\ thread'[t].again = thread[t].again
           /\ thread'[t].block = thread[t].block
           /\ lastTime' = lastTime /\ ClockSame /\ ChainsSame /\ StatusSame /\ CountsSame
           /\ queued' = queued /\ messages' = messages /\ notified' = notified
<1> DEFINE l == [thread[t] EXCEPT !.pc = "turn", !.genTime = NextTime, !.epoch = epoch]
<1>1. thread[t] \in Local /\ NextTime \in Nat /\ epoch \in Nat
  BY ThreadType, NextTimeType DEF Typed, TypeOK
<1>2. /\ l \in Local /\ l.pc = "turn" /\ l.genTime = NextTime /\ l.epoch = epoch
      /\ l.mcSeqNo = thread[t].mcSeqNo /\ l.again = thread[t].again /\ l.block = thread[t].block
  BY <1>1 DEF Local, Steps
<1>3. thread[t].pc = "start" /\ thread' = [thread EXCEPT ![t] = l]
  BY DEF Begin, At, Typed, TypeOK
<1> HIDE DEF l
<1>4. Moves(t) /\ thread'[t] = l
  BY <1>2, <1>3, Moving
<1>5. /\ lastTime' = lastTime /\ ClockSame /\ ChainsSame /\ StatusSame /\ CountsSame
      /\ queued' = queued /\ messages' = messages /\ notified' = notified
  BY DEF Begin, clock, chains, bounds, ClockSame, ChainsSame, StatusSame, CountsSame
<1> QED BY <1>2, <1>3, <1>4, <1>5

LEMMA TurnFacts ==
    ASSUME Typed, NEW t \in Threads, Turn(t)
    PROVE  /\ Moves(t)
           /\ thread[t].pc = "turn"
           /\ thread'[t].pc = "wc"
           /\ thread'[t].mcSeqNo = NextSeqNo("mc")
           /\ thread'[t].again = FALSE
           /\ thread'[t].genTime = thread[t].genTime /\ thread'[t].epoch = thread[t].epoch
           /\ thread'[t].block = thread[t].block
           /\ lastTime' = lastTime /\ ClockSame /\ ChainsSame /\ StatusSame /\ CountsSame
           /\ queued' = queued /\ messages' = messages /\ notified' = notified
<1> DEFINE l == [thread[t] EXCEPT !.pc = "wc", !.mcSeqNo = NextSeqNo("mc"), !.again = FALSE]
<1>1. thread[t] \in Local /\ NextSeqNo("mc") \in Nat
  BY ThreadType, NextSeqNoType, ChainsAre DEF Typed, TypeOK
<1>2. /\ l \in Local /\ l.pc = "wc" /\ l.mcSeqNo = NextSeqNo("mc") /\ l.again = FALSE
      /\ l.genTime = thread[t].genTime /\ l.epoch = thread[t].epoch /\ l.block = thread[t].block
  BY <1>1 DEF Local, Steps
<1>3. thread[t].pc = "turn" /\ thread' = [thread EXCEPT ![t] = l]
  BY DEF Turn, TurnMcSeqNo, At, Typed, TypeOK
<1> HIDE DEF l
<1>4. Moves(t) /\ thread'[t] = l
  BY <1>2, <1>3, Moving
<1>5. /\ lastTime' = lastTime /\ ClockSame /\ ChainsSame /\ StatusSame /\ CountsSame
      /\ queued' = queued /\ messages' = messages /\ notified' = notified
  BY DEF Turn, clock, chains, bounds, ClockSame, ChainsSame, StatusSame, CountsSame, TurnMcSeqNo
<1> QED BY <1>2, <1>3, <1>4, <1>5

LEMMA NoShardBlockFacts ==
    ASSUME Typed, NEW t \in Threads, NoShardBlock(t)
    PROVE  /\ Moves(t)
           /\ thread[t].pc = "wc"
           /\ thread'[t].pc = "mc"
           /\ thread'[t].genTime = thread[t].genTime /\ thread'[t].epoch = thread[t].epoch
           /\ thread'[t].mcSeqNo = thread[t].mcSeqNo /\ thread'[t].again = thread[t].again
           /\ thread'[t].block = thread[t].block
           /\ lastTime' = lastTime /\ ClockSame /\ ChainsSame /\ StatusSame /\ CountsSame
           /\ queued' = queued /\ messages' = messages /\ notified' = notified
<1> DEFINE l == [thread[t] EXCEPT !.pc = "mc"]
<1>1. thread[t] \in Local
  BY ThreadType DEF Typed, TypeOK
<1>2. /\ l \in Local /\ l.pc = "mc"
      /\ l.genTime = thread[t].genTime /\ l.epoch = thread[t].epoch
      /\ l.mcSeqNo = thread[t].mcSeqNo /\ l.again = thread[t].again /\ l.block = thread[t].block
  BY <1>1 DEF Local, Steps
<1>3. thread[t].pc = "wc" /\ thread' = [thread EXCEPT ![t] = l]
  BY DEF NoShardBlock, At, Typed, TypeOK
<1> HIDE DEF l
<1>4. Moves(t) /\ thread'[t] = l
  BY <1>2, <1>3, Moving
<1>5. /\ lastTime' = lastTime /\ ClockSame /\ ChainsSame /\ StatusSame /\ CountsSame
      /\ queued' = queued /\ messages' = messages /\ notified' = notified
  BY DEF NoShardBlock, clock, chains, bounds, ClockSame, ChainsSame, StatusSame, CountsSame
<1> QED BY <1>2, <1>3, <1>4, <1>5

LEMMA NextShardBlockFacts ==
    ASSUME Typed, NEW t \in Threads, NextShardBlock(t)
    PROVE  /\ Moves(t)
           /\ thread[t].pc = "wc next"
           /\ thread'[t].pc = "wc"
           /\ thread'[t].genTime = NextTime
           /\ thread'[t].epoch = epoch
           /\ thread'[t].block = Zerostate
           /\ thread'[t].mcSeqNo = thread[t].mcSeqNo /\ thread'[t].again = thread[t].again
           /\ lastTime' = lastTime /\ ClockSame /\ ChainsSame /\ StatusSame /\ CountsSame
           /\ queued' = queued /\ messages' = messages /\ notified' = notified
<1> DEFINE l == [thread[t] EXCEPT !.pc = "wc", !.genTime = NextTime, !.epoch = epoch,
                              !.block = Zerostate]
<1>1. thread[t] \in Local /\ NextTime \in Nat /\ epoch \in Nat /\ Zerostate \in Block
  BY ThreadType, NextTimeType, RecordTypes DEF Typed, TypeOK
<1>2. /\ l \in Local /\ l.pc = "wc" /\ l.genTime = NextTime /\ l.epoch = epoch
      /\ l.block = Zerostate
      /\ l.mcSeqNo = thread[t].mcSeqNo /\ l.again = thread[t].again
  BY <1>1 DEF Local, Steps
<1>3. thread[t].pc = "wc next" /\ thread' = [thread EXCEPT ![t] = l]
  BY DEF NextShardBlock, TimeAfterShardBlock, At, Typed, TypeOK
<1> HIDE DEF l
<1>4. Moves(t) /\ thread'[t] = l
  BY <1>2, <1>3, Moving
<1>5. /\ lastTime' = lastTime /\ ClockSame /\ ChainsSame /\ StatusSame /\ CountsSame
      /\ queued' = queued /\ messages' = messages /\ notified' = notified
  BY DEF NextShardBlock, clock, chains, bounds, ClockSame, ChainsSame, StatusSame, CountsSame,
     TimeAfterShardBlock
<1> QED BY <1>2, <1>3, <1>4, <1>5

LEMMA MasterBlockDoneFacts ==
    ASSUME Typed, NEW t \in Threads, MasterBlockDone(t)
    PROVE  /\ Moves(t)
           /\ thread[t].pc = "mc set"
           /\ thread'[t].pc = "turn"
           /\ thread'[t].block = Zerostate
           /\ thread'[t].genTime = thread[t].genTime /\ thread'[t].epoch = thread[t].epoch
           /\ thread'[t].mcSeqNo = thread[t].mcSeqNo /\ thread'[t].again = thread[t].again
           /\ lastTime' = TimeLessDelta(thread[t].genTime) /\ ClockSame /\ ChainsSame
           /\ StatusSame /\ CountsSame
           /\ queued' = queued /\ messages' = messages /\ notified' = notified
<1> DEFINE l == [thread[t] EXCEPT !.pc = "turn", !.block = Zerostate]
<1>1. thread[t] \in Local /\ Zerostate \in Block
  BY ThreadType, RecordTypes DEF Typed, TypeOK
<1>2. /\ l \in Local /\ l.pc = "turn" /\ l.block = Zerostate
      /\ l.genTime = thread[t].genTime /\ l.epoch = thread[t].epoch
      /\ l.mcSeqNo = thread[t].mcSeqNo /\ l.again = thread[t].again
  BY <1>1 DEF Local, Steps
<1>3. thread[t].pc = "mc set" /\ thread' = [thread EXCEPT ![t] = l]
  BY DEF MasterBlockDone, At, Typed, TypeOK
<1> HIDE DEF l
<1>4. Moves(t) /\ thread'[t] = l
  BY <1>2, <1>3, Moving
<1>5. /\ lastTime' = TimeLessDelta(thread[t].genTime) /\ ClockSame /\ ChainsSame /\ StatusSame
      /\ CountsSame
      /\ queued' = queued /\ messages' = messages /\ notified' = notified
  BY DEF MasterBlockDone, clock, chains, bounds, ClockSame, ChainsSame, StatusSame, CountsSame
<1> QED BY <1>2, <1>3, <1>4, <1>5

LEMMA RegisterShardBlockFacts ==
    ASSUME Typed, NEW t \in Threads, RegisterShardBlock(t)
    PROVE  /\ Moves(t)
           /\ thread[t].pc = "wc set"
           /\ thread'[t].pc = "wc next"
           /\ thread'[t].again = TRUE
           /\ thread'[t].genTime = thread[t].genTime /\ thread'[t].epoch = thread[t].epoch
           /\ thread'[t].mcSeqNo = thread[t].mcSeqNo /\ thread'[t].block = thread[t].block
           /\ lastTime' = TimeLessDelta(thread[t].genTime) /\ ClockSame /\ StatusSame /\ CountsSame
           /\ log' = log /\ saved' = saved /\ shards' = thread[t].block.seq /\ changed' = TRUE
           /\ registered' = registered \union {thread[t].block.seq} /\ forgotten' = forgotten
           /\ queued' = queued /\ messages' = messages /\ notified' = notified
<1> DEFINE l == [thread[t] EXCEPT !.pc = "wc next", !.again = TRUE]
<1>1. thread[t] \in Local
  BY ThreadType DEF Typed, TypeOK
<1>2. /\ l \in Local /\ l.pc = "wc next" /\ l.again = TRUE
      /\ l.genTime = thread[t].genTime /\ l.epoch = thread[t].epoch
      /\ l.mcSeqNo = thread[t].mcSeqNo /\ l.block = thread[t].block
  BY <1>1 DEF Local, Steps
<1>3. thread[t].pc = "wc set" /\ thread' = [thread EXCEPT ![t] = l]
  BY DEF RegisterShardBlock, At, Typed, TypeOK
<1> HIDE DEF l
<1>4. Moves(t) /\ thread'[t] = l
  BY <1>2, <1>3, Moving
<1>5. /\ lastTime' = TimeLessDelta(thread[t].genTime) /\ ClockSame /\ StatusSame /\ CountsSame
      /\ log' = log /\ saved' = saved /\ shards' = thread[t].block.seq /\ changed' = TRUE
      /\ registered' = registered \union {thread[t].block.seq} /\ forgotten' = forgotten
      /\ queued' = queued /\ messages' = messages /\ notified' = notified
  BY DEF RegisterShardBlock, clock, chains, bounds, ClockSame, ChainsSame, StatusSame, CountsSame
<1> QED BY <1>2, <1>3, <1>4, <1>5

LEMMA PutShardBlockFacts ==
    ASSUME Typed, NEW t \in Threads, PutShardBlock(t)
    PROVE  /\ Moves(t)
           /\ thread[t].pc = "wc put"
           /\ thread'[t].pc = "wc set"
           /\ thread'[t].genTime = thread[t].genTime /\ thread'[t].epoch = thread[t].epoch
           /\ thread'[t].mcSeqNo = thread[t].mcSeqNo /\ thread'[t].again = thread[t].again
           /\ thread'[t].block = thread[t].block
           /\ lastTime' = lastTime /\ ClockSame /\ StatusSame /\ CountsSame
           /\ log' = [log EXCEPT !["wc"] = Append(@, thread[t].block)]
           /\ saved' = [saved EXCEPT !["wc"] = Len(log["wc"]) + 1]
           /\ shards' = shards /\ changed' = changed
           /\ registered' = registered /\ forgotten' = forgotten
           /\ queued' = queued /\ messages' = messages /\ notified' = notified
<1> DEFINE l == [thread[t] EXCEPT !.pc = "wc set"]
<1>1. thread[t] \in Local
  BY ThreadType DEF Typed, TypeOK
<1>2. /\ l \in Local /\ l.pc = "wc set"
      /\ l.genTime = thread[t].genTime /\ l.epoch = thread[t].epoch
      /\ l.mcSeqNo = thread[t].mcSeqNo /\ l.again = thread[t].again /\ l.block = thread[t].block
  BY <1>1 DEF Local, Steps
<1>3. thread[t].pc = "wc put" /\ thread' = [thread EXCEPT ![t] = l]
  BY DEF PutShardBlock, Put, At, Typed, TypeOK
<1> HIDE DEF l
<1>4. Moves(t) /\ thread'[t] = l
  BY <1>2, <1>3, Moving
<1>5. /\ lastTime' = lastTime /\ ClockSame /\ StatusSame /\ CountsSame
      /\ log' = [log EXCEPT !["wc"] = Append(@, thread[t].block)]
      /\ saved' = [saved EXCEPT !["wc"] = Len(log["wc"]) + 1]
      /\ shards' = shards /\ changed' = changed
      /\ registered' = registered /\ forgotten' = forgotten
      /\ queued' = queued /\ messages' = messages /\ notified' = notified
  BY DEF PutShardBlock, clock, chains, bounds, ClockSame, ChainsSame, StatusSame, CountsSame, Put
<1> QED BY <1>2, <1>3, <1>4, <1>5

LEMMA PutMasterBlockFacts ==
    ASSUME Typed, NEW t \in Threads, PutMasterBlock(t)
    PROVE  /\ Moves(t)
           /\ thread[t].pc = "mc put"
           /\ thread'[t].pc = "mc set"
           /\ thread'[t].genTime = thread[t].genTime /\ thread'[t].epoch = thread[t].epoch
           /\ thread'[t].mcSeqNo = thread[t].mcSeqNo /\ thread'[t].again = thread[t].again
           /\ thread'[t].block = thread[t].block
           /\ lastTime' = lastTime /\ ClockSame /\ StatusSame /\ CountsSame
           /\ log' = [log EXCEPT !["mc"] = Append(@, thread[t].block)]
           /\ saved' = [saved EXCEPT !["mc"] = Len(log["mc"]) + 1]
           /\ shards' = shards /\ changed' = FALSE
           /\ registered' = registered /\ forgotten' = forgotten
           /\ queued' = queued /\ messages' = messages /\ notified' = notified
<1> DEFINE l == [thread[t] EXCEPT !.pc = "mc set"]
<1>1. thread[t] \in Local
  BY ThreadType DEF Typed, TypeOK
<1>2. /\ l \in Local /\ l.pc = "mc set"
      /\ l.genTime = thread[t].genTime /\ l.epoch = thread[t].epoch
      /\ l.mcSeqNo = thread[t].mcSeqNo /\ l.again = thread[t].again /\ l.block = thread[t].block
  BY <1>1 DEF Local, Steps
<1>3. thread[t].pc = "mc put" /\ thread' = [thread EXCEPT ![t] = l]
  BY DEF PutMasterBlock, Put, At, Typed, TypeOK
<1> HIDE DEF l
<1>4. Moves(t) /\ thread'[t] = l
  BY <1>2, <1>3, Moving
<1>5. /\ lastTime' = lastTime /\ ClockSame /\ StatusSame /\ CountsSame
      /\ log' = [log EXCEPT !["mc"] = Append(@, thread[t].block)]
      /\ saved' = [saved EXCEPT !["mc"] = Len(log["mc"]) + 1]
      /\ shards' = shards /\ changed' = FALSE
      /\ registered' = registered /\ forgotten' = forgotten
      /\ queued' = queued /\ messages' = messages /\ notified' = notified
  BY DEF PutMasterBlock, clock, chains, bounds, ClockSame, ChainsSame, StatusSame, CountsSame, Put
<1> QED BY <1>2, <1>3, <1>4, <1>5

(* A block is built, with a limit after any message.                       *)
LEMMA BuildFacts ==
    ASSUME Typed, NEW t \in Threads, NEW c \in Chains, NEW md \in Modes, NEW time \in Nat,
           NEW mcSeqNo \in Nat, NEW next \in Steps,
           Build(t, c, md, time, mcSeqNo, next)
    PROVE  /\ Moves(t)
           /\ thread'[t].pc = next
           /\ thread'[t].genTime = thread[t].genTime /\ thread'[t].epoch = thread[t].epoch
           /\ thread'[t].mcSeqNo = thread[t].mcSeqNo /\ thread'[t].again = thread[t].again
           /\ thread'[t].block.seq = NextSeqNo(c) /\ thread'[t].block.utime = time
           /\ thread'[t].block.mode = md /\ thread'[t].block.mc = mcSeqNo
           /\ thread'[t].block.shard = (IF c = "mc" THEN shards ELSE 0)
           /\ thread'[t].block.epoch = thread[t].epoch
           /\ queued' \in [Chains -> Nat] /\ messages' \in Nat
<1>1. PICK imported, taken, sent \in 0..MaxMessages :
        /\ Execute(c, md, imported, taken, sent)
        /\ thread' = [thread EXCEPT
              ![t].pc = next,
              ![t].block = [seq |-> NextSeqNo(c), out |-> Tip(c).out - imported + sent,
                            utime |-> time, mode |-> md, mc |-> mcSeqNo,
                            shard |-> IF c = "mc" THEN shards ELSE 0,
                            epoch |-> thread[t].epoch]]
  BY DEF Build
<1>2. /\ imported \in 0..Tip(c).out /\ taken \in 0..queued[c] /\ sent \in Nat
      /\ queued' = [queued EXCEPT ![c] = @ - taken] /\ messages' = messages + sent
  <2>1. imported \in 0..Tip(c).out /\ taken \in 0..queued[c] /\ sent \in 0..(MaxMessages - messages)
        /\ queued' = [queued EXCEPT ![c] = @ - taken] /\ messages' = messages + sent
    BY <1>1 DEF Execute
  <2>2. messages \in Nat /\ MaxMessages \in Nat
    BY EngineBounds DEF Typed, TypeOK
  <2> QED BY <2>1, <2>2
<1>3. /\ thread[t] \in Local /\ thread[t].epoch \in Nat /\ NextSeqNo(c) \in Nat
      /\ Tip(c).out \in Nat /\ shards \in Nat /\ messages \in Nat
      /\ queued \in [Chains -> Nat] /\ queued[c] \in Nat
  BY ThreadType, NextSeqNoType, TipType DEF Typed, TypeOK
<1>4. queued' \in [Chains -> Nat] /\ messages' \in Nat
  <2>1. queued[c] - taken \in Nat
    BY <1>2, <1>3
  <2> QED BY <1>2, <1>3, <2>1
<1> DEFINE b == [seq |-> NextSeqNo(c), out |-> Tip(c).out - imported + sent,
                 utime |-> time, mode |-> md, mc |-> mcSeqNo,
                 shard |-> IF c = "mc" THEN shards ELSE 0, epoch |-> thread[t].epoch]
<1>5. /\ b \in Block
      /\ b.seq = NextSeqNo(c) /\ b.utime = time /\ b.mode = md /\ b.mc = mcSeqNo
      /\ b.shard = (IF c = "mc" THEN shards ELSE 0) /\ b.epoch = thread[t].epoch
  <2>1. Tip(c).out - imported + sent \in Nat
    BY <1>2, <1>3
  <2> QED BY <1>3, <2>1 DEF Block
<1>6. thread' = [thread EXCEPT ![t].pc = next, ![t].block = b]
  BY <1>1
<1> HIDE DEF b
<1> DEFINE l == [thread[t] EXCEPT !.pc = next, !.block = b]
<1>7. /\ l \in Local /\ l.pc = next /\ l.block = b
      /\ l.genTime = thread[t].genTime /\ l.epoch = thread[t].epoch
      /\ l.mcSeqNo = thread[t].mcSeqNo /\ l.again = thread[t].again
  BY <1>3, <1>5 DEF Local
<1>8. thread' = [thread EXCEPT ![t] = l]
  BY <1>6 DEF Typed, TypeOK
<1> HIDE DEF l
<1>9. Moves(t) /\ thread'[t] = l
  BY <1>7, <1>8, Moving
<1> QED BY <1>4, <1>5, <1>7, <1>9

LEMMA BuildShardBlockFacts ==
    ASSUME Typed, NEW t \in Threads, BuildShardBlock(t)
    PROVE  /\ Moves(t)
           /\ thread[t].pc = "wc" /\ thread'[t].pc = "wc put"
           /\ thread'[t].genTime = thread[t].genTime /\ thread'[t].epoch = thread[t].epoch
           /\ thread'[t].mcSeqNo = thread[t].mcSeqNo
           /\ thread'[t].block.seq = NextSeqNo("wc") /\ thread'[t].block.mode = mode
           /\ thread'[t].block.mc = thread[t].mcSeqNo
           /\ thread'[t].block.utime = thread[t].genTime
           /\ thread'[t].block.epoch = thread[t].epoch
           /\ queued' \in [Chains -> Nat] /\ messages' \in Nat /\ notified' = notified
           /\ lastTime' = lastTime /\ ClockSame /\ ChainsSame /\ StatusSame /\ CountsSame
<1>1. /\ thread[t].pc = "wc"
      /\ Build(t, "wc", mode, thread[t].genTime, thread[t].mcSeqNo, "wc put")
  BY DEF BuildShardBlock, At
<1>2. notified' = notified /\ lastTime' = lastTime /\ ClockSame /\ ChainsSame /\ StatusSame
      /\ CountsSame
  BY DEF BuildShardBlock, clock, chains, bounds, ClockSame, ChainsSame, StatusSame, CountsSame
<1>3. mode \in Modes /\ thread[t].genTime \in Nat /\ thread[t].mcSeqNo \in Nat /\ "wc put" \in Steps
  BY ThreadType DEF Typed, TypeOK, Steps
<1>4. PICK c \in Chains, md \in Modes, g \in Nat, m \in Nat, next \in Steps :
          /\ c = "wc" /\ md = mode /\ g = thread[t].genTime /\ m = thread[t].mcSeqNo
          /\ next = "wc put"
  BY <1>3, ChainsAre
<1>5. Build(t, c, md, g, m, next)
  BY <1>1, <1>4
<1>6. /\ Moves(t)
      /\ thread'[t].pc = next
      /\ thread'[t].genTime = thread[t].genTime /\ thread'[t].epoch = thread[t].epoch
      /\ thread'[t].mcSeqNo = thread[t].mcSeqNo
      /\ thread'[t].block.seq = NextSeqNo(c) /\ thread'[t].block.utime = g
      /\ thread'[t].block.mode = md /\ thread'[t].block.mc = m
      /\ thread'[t].block.shard = (IF c = "mc" THEN shards ELSE 0)
      /\ thread'[t].block.epoch = thread[t].epoch
      /\ queued' \in [Chains -> Nat] /\ messages' \in Nat
  BY <1>5, BuildFacts
<1> QED BY <1>1, <1>2, <1>4, <1>6

LEMMA BuildMasterBlockFacts ==
    ASSUME Typed, NEW t \in Threads, BuildMasterBlock(t)
    PROVE  /\ Moves(t)
           /\ thread[t].pc = "mc" /\ thread'[t].pc = "mc put"
           /\ thread'[t].genTime = thread[t].genTime /\ thread'[t].epoch = thread[t].epoch
           /\ thread'[t].mcSeqNo = thread[t].mcSeqNo
           /\ thread'[t].block.seq = NextSeqNo("mc") /\ thread'[t].block.shard = shards
           /\ thread'[t].block.mc = thread[t].mcSeqNo
           /\ thread'[t].block.utime = thread[t].genTime
           /\ thread'[t].block.epoch = thread[t].epoch
           /\ queued' \in [Chains -> Nat] /\ messages' \in Nat /\ notified' = notified
           /\ lastTime' = lastTime /\ ClockSame /\ ChainsSame /\ StatusSame /\ CountsSame
<1>1. /\ thread[t].pc = "mc"
      /\ Build(t, "mc", mode, thread[t].genTime, thread[t].mcSeqNo, "mc put")
  BY DEF BuildMasterBlock, At
<1>2. notified' = notified /\ lastTime' = lastTime /\ ClockSame /\ ChainsSame /\ StatusSame
      /\ CountsSame
  BY DEF BuildMasterBlock, clock, chains, bounds, ClockSame, ChainsSame, StatusSame, CountsSame
<1>3. mode \in Modes /\ thread[t].genTime \in Nat /\ thread[t].mcSeqNo \in Nat /\ "mc put" \in Steps
  BY ThreadType DEF Typed, TypeOK, Steps
<1>4. PICK c \in Chains, md \in Modes, g \in Nat, m \in Nat, next \in Steps :
          /\ c = "mc" /\ md = mode /\ g = thread[t].genTime /\ m = thread[t].mcSeqNo
          /\ next = "mc put"
  BY <1>3, ChainsAre
<1>5. Build(t, c, md, g, m, next)
  BY <1>1, <1>4
<1>6. /\ Moves(t)
      /\ thread'[t].pc = next
      /\ thread'[t].genTime = thread[t].genTime /\ thread'[t].epoch = thread[t].epoch
      /\ thread'[t].mcSeqNo = thread[t].mcSeqNo
      /\ thread'[t].block.seq = NextSeqNo(c) /\ thread'[t].block.utime = g
      /\ thread'[t].block.mode = md /\ thread'[t].block.mc = m
      /\ thread'[t].block.shard = (IF c = "mc" THEN shards ELSE 0)
      /\ thread'[t].block.epoch = thread[t].epoch
      /\ queued' \in [Chains -> Nat] /\ messages' \in Nat
  BY <1>5, BuildFacts
<1> QED BY <1>1, <1>2, <1>4, <1>6

LEMMA BuildConfigBlockFacts ==
    ASSUME Typed, BuildConfigBlock
    PROVE  /\ Moves("run")
           /\ thread["run"].pc = "config" /\ thread'["run"].pc = "config put"
           /\ thread'["run"].genTime = thread["run"].genTime
           /\ thread'["run"].epoch = thread["run"].epoch
           /\ thread'["run"].block.seq = NextSeqNo("mc") /\ thread'["run"].block.shard = shards
           /\ thread'["run"].block.mc = NextSeqNo("mc") /\ thread'["run"].block.utime = 0
           /\ thread'["run"].block.epoch = thread["run"].epoch
           /\ queued' \in [Chains -> Nat] /\ messages' \in Nat /\ notified' = notified
           /\ lastTime' = lastTime /\ ClockSame /\ ChainsSame /\ StatusSame /\ CountsSame
<1>1. /\ thread["run"].pc = "config"
      /\ Build("run", "mc", "System", 0, NextSeqNo("mc"), "config put")
  BY DEF BuildConfigBlock, At
<1>2. notified' = notified /\ lastTime' = lastTime /\ ClockSame /\ ChainsSame /\ StatusSame
      /\ CountsSame
  BY DEF BuildConfigBlock, clock, chains, bounds, ClockSame, ChainsSame, StatusSame, CountsSame
<1>3. "System" \in Modes /\ 0 \in Nat /\ NextSeqNo("mc") \in Nat /\ "config put" \in Steps
  BY NextSeqNoType, ChainsAre DEF Modes, Steps
<1>4. PICK c \in Chains, md \in Modes, g \in Nat, m \in Nat, next \in Steps :
          /\ c = "mc" /\ md = "System" /\ g = 0 /\ m = NextSeqNo("mc")
          /\ next = "config put"
  BY <1>3, ChainsAre
<1>5. Build("run", c, md, g, m, next)
  BY <1>1, <1>4
<1>6. /\ Moves("run")
      /\ thread'["run"].pc = next
      /\ thread'["run"].genTime = thread["run"].genTime
      /\ thread'["run"].epoch = thread["run"].epoch
      /\ thread'["run"].mcSeqNo = thread["run"].mcSeqNo
      /\ thread'["run"].block.seq = NextSeqNo(c) /\ thread'["run"].block.utime = g
      /\ thread'["run"].block.mode = md /\ thread'["run"].block.mc = m
      /\ thread'["run"].block.shard = (IF c = "mc" THEN shards ELSE 0)
      /\ thread'["run"].block.epoch = thread["run"].epoch
      /\ queued' \in [Chains -> Nat] /\ messages' \in Nat
  BY <1>5, RunIsThread, BuildFacts
<1> QED BY <1>1, <1>2, <1>4, <1>6

LEMMA NoMasterBlockFacts ==
    ASSUME Typed, NEW t \in Threads, NoMasterBlock(t)
    PROVE  /\ Moves(t) /\ thread[t].pc = "mc" /\ ~changed
           /\ \/ /\ thread'[t].pc = "turn" /\ up' = up /\ failed' = failed
                 /\ thread'[t].genTime = thread[t].genTime /\ thread'[t].epoch = thread[t].epoch
              \/ thread'[t].pc = "rest" /\ up' = TRUE /\ failed' = FALSE
           /\ users' = users /\ lastTime' = lastTime /\ ClockSame /\ ChainsSame /\ CountsSame
           /\ queued' = queued /\ messages' = messages /\ notified' = notified
<1>1. /\ thread[t].pc = "mc" /\ ~changed
      /\ users' = users /\ lastTime' = lastTime /\ ClockSame /\ ChainsSame /\ CountsSame
      /\ queued' = queued /\ messages' = messages /\ notified' = notified
  BY DEF NoMasterBlock, NothingForMaster, At, clock, chains, bounds, ClockSame, ChainsSame,
         CountsSame
<1>2. thread[t] \in Local
  BY ThreadType
<1>3. CASE thread[t].again
  <2> DEFINE l == [thread[t] EXCEPT !.pc = "turn"]
  <2>1. /\ l \in Local /\ l.pc = "turn" /\ l.genTime = thread[t].genTime
        /\ l.epoch = thread[t].epoch
    BY <1>2 DEF Local, Steps
  <2>2. thread' = [thread EXCEPT ![t] = l] /\ up' = up /\ failed' = failed
    BY <1>3 DEF NoMasterBlock, Typed, TypeOK
  <2> HIDE DEF l
  <2>3. Moves(t) /\ thread'[t] = l
    BY <2>1, <2>2, Moving
  <2> QED BY <1>1, <2>1, <2>2, <2>3
<1>4. CASE ~thread[t].again
  <2>1. AtRest \in Local /\ AtRest.pc = "rest"
    BY RecordTypes DEF AtRest
  <2>2. thread' = [thread EXCEPT ![t] = AtRest] /\ up' = TRUE /\ failed' = FALSE
    BY <1>4 DEF NoMasterBlock
  <2>3. Moves(t) /\ thread'[t] = AtRest
    BY <2>1, <2>2, Moving
  <2> QED BY <1>1, <2>1, <2>2, <2>3
<1> QED BY <1>3, <1>4

LEMMA FailFacts ==
    ASSUME Typed, NEW t \in Threads, Fail(t)
    PROVE  /\ Moves(t) /\ thread'[t].pc = (IF up THEN "rest" ELSE "down")
           /\ failed' = TRUE /\ users' = users /\ up' = up
           /\ shards' = shards /\ changed' = changed
           /\ registered' = registered /\ forgotten' = forgotten
           /\ lastTime' = lastTime /\ ClockSame /\ messages' = messages /\ notified' = notified
           /\ commands' = commands /\ failures' \in Nat /\ restarts' = restarts
<1> DEFINE l == IF up THEN AtRest ELSE [AtRest EXCEPT !.pc = "down"]
<1>1. l \in Local /\ l.pc = (IF up THEN "rest" ELSE "down")
  <2>1. AtRest \in Local /\ AtRest.pc = "rest"
    BY RecordTypes DEF AtRest
  <2>2. [AtRest EXCEPT !.pc = "down"] \in Local /\ [AtRest EXCEPT !.pc = "down"].pc = "down"
    BY <2>1 DEF Local, Steps
  <2> QED BY <2>1, <2>2
<1>2. /\ failed' = TRUE /\ users' = users /\ up' = up
      /\ shards' = shards /\ changed' = changed
      /\ registered' = registered /\ forgotten' = forgotten
      /\ lastTime' = lastTime /\ ClockSame /\ messages' = messages /\ notified' = notified
      /\ commands' = commands /\ failures' = failures + 1 /\ restarts' = restarts
  BY DEF Fail, clock, ClockSame
<1>3. thread' = [thread EXCEPT ![t] = l]
  BY DEF Fail
<1> HIDE DEF l
<1>4. Moves(t) /\ thread'[t] = l
  BY <1>1, <1>3, Moving
<1>5. failures' \in Nat
  BY <1>2 DEF Typed, TypeOK
<1> QED BY <1>1, <1>2, <1>4, <1>5

LEMMA BuildFailsFacts ==
    ASSUME Typed, NEW t \in Threads, BuildFails(t)
    PROVE  /\ Fail(t) /\ thread[t].pc \in {"wc", "mc", "config"}
           /\ log' = log /\ saved' = saved /\ queued' \in [Chains -> Nat]
<1>1. PICK c \in Chains, taken \in 0..MaxMessages :
        /\ thread[t].pc \in BuildSteps(c) /\ taken \in 0..queued[c]
        /\ queued' = [queued EXCEPT ![c] = @ - taken]
        /\ Fail(t) /\ log' = log /\ saved' = saved
  BY DEF BuildFails
<1>2. thread[t].pc \in {"wc", "mc", "config"}
  BY <1>1 DEF BuildSteps
<1>3. queued \in [Chains -> Nat] /\ queued[c] - taken \in Nat
  BY <1>1 DEF Typed, TypeOK
<1>4. queued' \in [Chains -> Nat]
  BY <1>1, <1>3
<1> QED BY <1>1, <1>2, <1>4

LEMMA PutFailsFacts ==
    ASSUME Typed, NEW t \in Threads, PutFails(t)
    PROVE  /\ Fail(t) /\ queued' = queued /\ saved' = saved
           /\ \/ /\ thread[t].pc = "wc put"
                 /\ log' = [log EXCEPT !["wc"] = Append(@, thread[t].block)]
              \/ /\ thread[t].pc \in {"mc put", "config put"}
                 /\ log' = [log EXCEPT !["mc"] = Append(@, thread[t].block)]
BY DEF PutFails, PutSteps, Chains

LEMMA PutConfigBlockFacts ==
    ASSUME Typed, PutConfigBlock
    PROVE  /\ Moves("run")
           /\ thread["run"].pc = "config put" /\ thread'["run"].pc = "start"
           /\ lastTime' = lastTime /\ ClockSame /\ StatusSame /\ CountsSame
           /\ log' = [log EXCEPT !["mc"] = Append(@, thread["run"].block)]
           /\ saved' = [saved EXCEPT !["mc"] = Len(log["mc"]) + 1]
           /\ shards' = shards /\ changed' = FALSE
           /\ registered' = registered /\ forgotten' = forgotten
           /\ queued' = queued /\ messages' = messages /\ notified' = notified
<1> DEFINE l == [AtRest EXCEPT !.pc = "start"]
<1>1. l \in Local /\ l.pc = "start"
  BY RecordTypes DEF Local, Steps
<1>2. thread["run"].pc = "config put" /\ thread' = [thread EXCEPT !["run"] = l]
  BY DEF PutConfigBlock, At
<1> HIDE DEF l
<1>3. Moves("run") /\ thread'["run"] = l
  BY <1>1, <1>2, RunIsThread, Moving
<1>4. /\ lastTime' = lastTime /\ ClockSame /\ StatusSame /\ CountsSame
      /\ log' = [log EXCEPT !["mc"] = Append(@, thread["run"].block)]
      /\ saved' = [saved EXCEPT !["mc"] = Len(log["mc"]) + 1]
      /\ shards' = shards /\ changed' = FALSE
      /\ registered' = registered /\ forgotten' = forgotten
      /\ queued' = queued /\ messages' = messages /\ notified' = notified
  BY DEF PutConfigBlock, Put, clock, bounds, ClockSame, StatusSame, CountsSame
<1> QED BY <1>1, <1>2, <1>3, <1>4

(* A thread that begins to execute: the loop, or a caller with a message.  *)
Enters(t) ==
    /\ Moves(t) /\ t \in users /\ up
    /\ thread[t].pc = "rest" /\ thread'[t].pc = "start"
    /\ lastTime' = lastTime /\ ClockSame /\ ChainsSame /\ StatusSame /\ CountsSame
    /\ queued' \in [Chains -> Nat] /\ messages' \in Nat /\ notified' \in BOOLEAN

LEMMA QueuedFacts ==
    ASSUME Typed, Queued
    PROVE  /\ up /\ queued' \in [Chains -> Nat] /\ messages' \in Nat /\ notified' = TRUE
           /\ lastTime' = lastTime /\ ClockSame /\ ChainsSame /\ StatusSame /\ CountsSame
<1>1. /\ up /\ notified' = TRUE /\ messages' = messages + 1
      /\ lastTime' = lastTime /\ ClockSame /\ ChainsSame /\ StatusSame /\ CountsSame
  BY DEF Queued, clock, chains, bounds, ClockSame, ChainsSame, StatusSame, CountsSame
<1>2. PICK c \in Chains : queued' = [queued EXCEPT ![c] = @ + 1]
  BY DEF Queued
<1>3. queued' \in [Chains -> Nat] /\ messages' \in Nat
  <2>1. queued \in [Chains -> Nat] /\ messages \in Nat
    BY DEF Typed, TypeOK
  <2> QED BY <1>1, <1>2, <2>1
<1> QED BY <1>1, <1>3

LEMMA EntersFacts ==
    ASSUME Typed, NEW t \in Threads, ProcessMessage(t) \/ (t = "run" /\ RunLoop)
    PROVE  Enters(t)
<1> DEFINE l == [thread[t] EXCEPT !.pc = "start"]
<1>1. l \in Local /\ l.pc = "start"
  BY ThreadType DEF Local, Steps
<1>2. /\ thread[t].pc = "rest" /\ thread' = [thread EXCEPT ![t] = l]
      /\ t \in users /\ up
      /\ lastTime' = lastTime /\ ClockSame /\ ChainsSame /\ StatusSame /\ CountsSame
      /\ queued' \in [Chains -> Nat] /\ messages' \in Nat /\ notified' \in BOOLEAN
  <2>1. CASE ProcessMessage(t)
    <3>1. /\ thread[t].pc = "rest" /\ thread' = [thread EXCEPT ![t] = l] /\ t \in users /\ Queued
      BY <2>1 DEF ProcessMessage, Typed, TypeOK
    <3> QED BY <3>1, QueuedFacts
  <2>2. CASE t = "run" /\ RunLoop
    <3>1. /\ thread[t].pc = "rest" /\ thread' = [thread EXCEPT ![t] = l] /\ t \in users /\ up
      BY <2>2 DEF RunLoop, At, Typed, TypeOK
    <3>2. /\ lastTime' = lastTime /\ ClockSame /\ ChainsSame /\ StatusSame /\ CountsSame
          /\ queued' = queued /\ messages' = messages /\ notified' = FALSE
      BY <2>2 DEF RunLoop, clock, chains, bounds, ClockSame, ChainsSame, StatusSame, CountsSame
    <3>3. queued \in [Chains -> Nat] /\ messages \in Nat
      BY DEF Typed, TypeOK
    <3> QED BY <3>1, <3>2, <3>3
  <2> QED BY <2>1, <2>2
<1> HIDE DEF l
<1>3. Moves(t) /\ thread'[t] = l
  BY <1>1, <1>2, Moving
<1> QED BY <1>1, <1>2, <1>3 DEF Enters

(* Nothing but the clock, its settings and the queues changes; in an epoch *)
(* the clock only goes forward.                                            *)
Waits ==
    /\ thread' = thread /\ ChainsSame /\ StatusSame
    /\ now' \in Nat /\ delta' \in Nat /\ lastTime' = lastTime /\ mode' \in Modes /\ epoch' \in Nat
    /\ \/ epoch' = epoch /\ mode' = mode /\ NextTime' >= NextTime
       \/ epoch' = epoch + 1 /\ up
    /\ queued' \in [Chains -> Nat] /\ messages' \in Nat /\ notified' \in BOOLEAN
    /\ commands' \in Nat /\ failures' = failures /\ restarts' = restarts

LEMMA ClockForward ==
    ASSUME Typed, now' \in Nat, delta' \in Nat, now' >= now, delta' >= delta,
           mode' = mode, lastTime' = lastTime
    PROVE  NextTime' >= NextTime
<1>1. now \in Nat /\ delta \in Nat /\ lastTime \in Nat
  BY DEF Typed, TypeOK
<1>2. PICK n \in Nat, d \in Nat : n = now' /\ d = delta' /\ n >= now /\ d >= delta
  OBVIOUS
<1>3. now + delta <= n + d /\ lastTime + 1 + delta <= lastTime + 1 + d
  <2>1. now <= n /\ delta <= d
    BY <1>2
  <2> QED BY <1>1, <2>1
<1>4. CASE mode = "System"
  <2>1. NextTime = now + delta /\ NextTime' = n + d
    BY <1>2, <1>4 DEF NextTime
  <2> QED BY <1>3, <2>1
<1>5. CASE mode # "System"
  <2>1. NextTime = lastTime + 1 + delta /\ NextTime' = lastTime + 1 + d
    BY <1>2, <1>5 DEF NextTime
  <2> QED BY <1>3, <2>1
<1> QED BY <1>4, <1>5

LEMMA WaitsFacts ==
    ASSUME Typed,
           Tick \/ IncreaseDelta \/ ResetDelta \/ SetMode \/ EnqueueMessage \/ UNCHANGED vars
    PROVE  Waits
<1>1. /\ now \in Nat /\ delta \in Nat /\ mode \in Modes /\ epoch \in Nat /\ lastTime \in Nat
      /\ queued \in [Chains -> Nat] /\ messages \in Nat /\ notified \in BOOLEAN /\ commands \in Nat
  BY DEF Typed, TypeOK
<1>2. CASE Tick
  <2>1. /\ thread' = thread /\ ChainsSame /\ StatusSame /\ CountsSame
        /\ now' = now + 1 /\ delta' = delta /\ lastTime' = lastTime /\ mode' = mode
        /\ epoch' = epoch
        /\ queued' = queued /\ messages' = messages /\ notified' = notified
    BY <1>2 DEF Tick, clock, chains, bounds, ChainsSame, StatusSame, CountsSame
  <2>2. NextTime' >= NextTime
    BY <1>1, <2>1, ClockForward
  <2> QED BY <1>1, <2>1, <2>2 DEF Waits, CountsSame
<1>3. ASSUME ClockCommand
      PROVE  /\ thread' = thread /\ ChainsSame /\ StatusSame /\ up
             /\ now' = now /\ lastTime' = lastTime /\ commands' = commands + 1
             /\ queued' = queued /\ messages' = messages /\ notified' = notified
             /\ failures' = failures /\ restarts' = restarts
  BY <1>3 DEF ClockCommand, chains, ChainsSame, StatusSame
<1>4. CASE IncreaseDelta
  <2>1. ClockCommand /\ mode' = mode /\ epoch' = epoch /\ \E d \in Deltas : delta' = delta + d
    BY <1>4 DEF IncreaseDelta
  <2>2. delta' \in Nat /\ delta' >= delta
    BY <1>1, <2>1, EngineBounds
  <2>3. NextTime' >= NextTime
    BY <1>1, <1>3, <2>1, <2>2, ClockForward
  <2> QED BY <1>1, <1>3, <2>1, <2>2, <2>3 DEF Waits
<1>5. CASE ResetDelta
  <2>1. ClockCommand /\ mode' = mode /\ epoch' = epoch + 1 /\ delta' = 0
    BY <1>5 DEF ResetDelta
  <2> QED BY <1>1, <1>3, <2>1 DEF Waits
<1>6. CASE SetMode
  <2>1. ClockCommand /\ mode' \in Modes /\ epoch' = epoch + 1 /\ delta' = delta
    BY <1>6 DEF SetMode
  <2> QED BY <1>1, <1>3, <2>1 DEF Waits
<1>7. CASE EnqueueMessage
  <2>1. Queued /\ thread' = thread
    BY <1>7 DEF EnqueueMessage
  <2>2. NextTime' >= NextTime
    BY <1>1, <2>1, QueuedFacts, ClockForward DEF ClockSame
  <2> QED BY <1>1, <2>1, <2>2, QueuedFacts DEF Waits, ClockSame, CountsSame
<1>8. CASE UNCHANGED vars
  <2>1. /\ thread' = thread /\ ChainsSame /\ StatusSame /\ CountsSame
        /\ now' = now /\ delta' = delta /\ lastTime' = lastTime /\ mode' = mode /\ epoch' = epoch
        /\ queued' = queued /\ messages' = messages /\ notified' = notified
    BY <1>8 DEF vars, clock, chains, bounds, ChainsSame, StatusSame, CountsSame
  <2>2. NextTime' >= NextTime
    BY <1>1, <2>1, ClockForward
  <2> QED BY <1>1, <2>1, <2>2 DEF Waits, CountsSame
<1> QED BY <1>2, <1>4, <1>5, <1>6, <1>7, <1>8

LEMMA RestartFacts ==
    ASSUME Typed, Restart
    PROVE  /\ thread' \in [Threads -> Local]
           /\ thread'["run"].pc = "restore" /\ thread'["run"].genTime = 0
           /\ \A t \in Threads \ {"run"} : thread'[t].pc = "rest"
           /\ log' = [c \in Chains |-> SubSeq(log[c], 1, saved[c])] /\ saved' = saved
           /\ shards' = 0 /\ changed' = FALSE /\ registered' = registered
           /\ forgotten' = forgotten \union
                              {k \in registered : \A j \in Listing(k) : j > saved["mc"]}
           /\ users' = users /\ up' = FALSE /\ failed' = FALSE
           /\ now' = now /\ delta' = 0 /\ lastTime' = 1 /\ mode' = "System" /\ epoch' = epoch + 1
           /\ queued' \in [Chains -> Nat] /\ notified' = FALSE
           /\ messages' = messages /\ commands' = commands /\ failures' = failures
           /\ restarts' \in Nat
<1> DEFINE l == [AtRest EXCEPT !.pc = "restore"]
<1>1. /\ l \in Local /\ l.pc = "restore" /\ l.genTime = 0
      /\ AtRest \in Local /\ AtRest.pc = "rest"
  BY RecordTypes DEF AtRest, Local, Steps
<1>2. thread' = [t \in Threads |-> IF t = "run" THEN l ELSE AtRest]
  BY DEF Restart
<1> HIDE DEF l
<1>3. /\ thread' \in [Threads -> Local]
      /\ thread'["run"] = l /\ \A t \in Threads \ {"run"} : thread'[t] = AtRest
  BY <1>1, <1>2, RunIsThread
<1>4. /\ log' = [c \in Chains |-> SubSeq(log[c], 1, saved[c])] /\ saved' = saved
      /\ shards' = 0 /\ changed' = FALSE /\ registered' = registered
      /\ forgotten' = forgotten \union
                         {k \in registered : \A j \in Listing(k) : j > saved["mc"]}
      /\ users' = users /\ up' = FALSE /\ failed' = FALSE
      /\ now' = now /\ delta' = 0 /\ lastTime' = 1 /\ mode' = "System" /\ epoch' = epoch + 1
      /\ queued' = [c \in Chains |-> 0] /\ notified' = FALSE
      /\ messages' = messages /\ commands' = commands /\ failures' = failures
      /\ restarts' = restarts + 1
  BY DEF Restart
<1>5. queued' \in [Chains -> Nat] /\ restarts' \in Nat
  BY <1>4 DEF Typed, TypeOK
<1> QED BY <1>1, <1>3, <1>4, <1>5

LEMMA RestoreStateFacts ==
    ASSUME Typed, RestoreState
    PROVE  /\ Moves("run") /\ thread["run"].pc = "restore"
           /\ \/ /\ log["wc"] # <<>> /\ log["mc"] # <<>>
                 /\ shards' = Tip("mc").shard /\ changed' = TRUE
                 /\ thread'["run"].pc \in {"config", "start"} /\ thread'["run"].epoch = epoch
                 /\ thread'["run"].genTime = thread["run"].genTime
              \/ /\ log["wc"] = <<>> \/ log["mc"] = <<>>
                 /\ shards' = shards /\ changed' = changed
                 /\ thread'["run"].pc = "start"
           /\ registered' = registered /\ forgotten' = forgotten
           /\ log' = log /\ saved' = saved /\ lastTime' = lastTime
           /\ ClockSame /\ StatusSame /\ CountsSame
           /\ queued' = queued /\ messages' = messages /\ notified' = notified
<1>1. /\ thread["run"].pc = "restore" /\ registered' = registered /\ forgotten' = forgotten
      /\ log' = log /\ saved' = saved /\ lastTime' = lastTime
      /\ ClockSame /\ StatusSame /\ CountsSame
      /\ queued' = queued /\ messages' = messages /\ notified' = notified
  BY DEF RestoreState, At, clock, bounds, ClockSame, StatusSame, CountsSame
<1>2. thread["run"] \in Local /\ epoch \in Nat
  BY ThreadType, RunIsThread DEF Typed, TypeOK
<1>3. CASE log["wc"] # <<>> /\ log["mc"] # <<>>
  <2>1. /\ shards' = Tip("mc").shard /\ changed' = TRUE
        /\ \E configChanged \in BOOLEAN :
              thread' = [thread EXCEPT !["run"].epoch = epoch,
                             !["run"].pc = IF configChanged THEN "config" ELSE "start"]
    BY <1>3 DEF RestoreState, LastListed
  <2>2. PICK next \in {"config", "start"} :
           thread' = [thread EXCEPT !["run"].epoch = epoch, !["run"].pc = next]
    BY <2>1
  <2> DEFINE l == [thread["run"] EXCEPT !.epoch = epoch, !.pc = next]
  <2>3. /\ l \in Local /\ l.pc = next /\ l.epoch = epoch /\ l.genTime = thread["run"].genTime
    BY <1>2 DEF Local, Steps
  <2>4. thread' = [thread EXCEPT !["run"] = l]
    BY <2>2 DEF Typed, TypeOK
  <2> HIDE DEF l
  <2>5. Moves("run") /\ thread'["run"] = l
    BY <2>3, <2>4, RunIsThread, Moving
  <2> QED BY <1>1, <1>3, <2>1, <2>3, <2>5
<1>4. CASE ~(log["wc"] # <<>> /\ log["mc"] # <<>>)
  <2>1. /\ shards' = shards /\ changed' = changed
        /\ thread' = [thread EXCEPT !["run"].pc = "start"]
    BY <1>4 DEF RestoreState
  <2> DEFINE l == [thread["run"] EXCEPT !.pc = "start"]
  <2>2. l \in Local /\ l.pc = "start"
    BY <1>2 DEF Local, Steps
  <2>3. thread' = [thread EXCEPT !["run"] = l]
    BY <2>1 DEF Typed, TypeOK
  <2> HIDE DEF l
  <2>4. Moves("run") /\ thread'["run"] = l
    BY <2>2, <2>3, RunIsThread, Moving
  <2> QED BY <1>1, <1>4, <2>1, <2>2, <2>4
<1> QED BY <1>3, <1>4

(* A block is put on top of chain c.                                       *)
LEMMA AppendedLog ==
    ASSUME Typed, NEW c \in Chains, NEW b \in Block, log' = [log EXCEPT ![c] = Append(@, b)]
    PROVE  /\ log' \in [Chains -> Seq(Block)]
           /\ log'[c] = Append(log[c], b) /\ \A d \in Chains \ {c} : log'[d] = log[d]
           /\ Len(log[c]) \in Nat /\ DOMAIN log[c] = 1..Len(log[c])
           /\ Len(log'[c]) = Len(log[c]) + 1 /\ DOMAIN log'[c] = 1..Len(log[c]) + 1
           /\ \A i \in DOMAIN log[c] : log'[c][i] = log[c][i]
           /\ log'[c][Len(log[c]) + 1] = b
<1>1. log \in [Chains -> Seq(Block)] /\ log[c] \in Seq(Block)
  BY DEF Typed, TypeOK
<1>2. /\ Append(log[c], b) \in Seq(Block)
      /\ Len(log[c]) \in Nat /\ DOMAIN log[c] = 1..Len(log[c])
      /\ Len(Append(log[c], b)) = Len(log[c]) + 1
      /\ DOMAIN Append(log[c], b) = 1..Len(log[c]) + 1
      /\ \A i \in DOMAIN log[c] : Append(log[c], b)[i] = log[c][i]
      /\ Append(log[c], b)[Len(log[c]) + 1] = b
  BY <1>1, OfAppend
<1>3. /\ log' \in [Chains -> Seq(Block)]
      /\ log'[c] = Append(log[c], b) /\ \A d \in Chains \ {c} : log'[d] = log[d]
  BY <1>1, <1>2
<1> QED BY <1>2, <1>3

(* Only the durable blocks are left.                                       *)
LEMMA CutLog ==
    ASSUME Typed, log' = [c \in Chains |-> SubSeq(log[c], 1, saved[c])]
    PROVE  /\ log' \in [Chains -> Seq(Block)]
           /\ \A c \in Chains :
                /\ Len(log'[c]) = saved[c] /\ DOMAIN log'[c] = 1..saved[c]
                /\ \A i \in 1..saved[c] : i \in DOMAIN log[c] /\ log'[c][i] = log[c][i]
<1>1. ASSUME NEW c \in Chains
      PROVE  /\ SubSeq(log[c], 1, saved[c]) \in Seq(Block)
             /\ Len(SubSeq(log[c], 1, saved[c])) = saved[c]
             /\ DOMAIN SubSeq(log[c], 1, saved[c]) = 1..saved[c]
             /\ \A i \in 1..saved[c] :
                   SubSeq(log[c], 1, saved[c])[i] = log[c][i] /\ i \in DOMAIN log[c]
  <2>1. log[c] \in Seq(Block) /\ saved[c] \in Nat /\ saved[c] <= Len(log[c])
    BY DEF Typed, TypeOK
  <2> QED BY <2>1, OfPrefix
<1>2. \A c \in Chains : log'[c] = SubSeq(log[c], 1, saved[c])
  OBVIOUS
<1>3. log' \in [Chains -> Seq(Block)]
  BY <1>1
<1> QED BY <1>1, <1>2, <1>3

-----------------------------------------------------------------------------
(* Type correctness.                                                       *)

ClockTyped  == now \in Nat /\ delta \in Nat /\ lastTime \in Nat /\ mode \in Modes /\ epoch \in Nat
LogTyped    == /\ log \in [Chains -> Seq(Block)] /\ saved \in [Chains -> Nat]
               /\ \A c \in Chains : saved[c] <= Len(log[c])
ShardsTyped == /\ shards \in Nat /\ changed \in BOOLEAN
               /\ registered \subseteq Nat /\ forgotten \subseteq registered
StatusTyped == users \in Uses /\ up \in BOOLEAN /\ failed \in BOOLEAN
QueuesTyped == queued \in [Chains -> Nat] /\ notified \in BOOLEAN /\ messages \in Nat
CountsTyped == commands \in Nat /\ failures \in Nat /\ restarts \in Nat

LEMMA TypedInParts ==
    Typed <=> /\ ClockTyped /\ LogTyped /\ ShardsTyped /\ StatusTyped /\ QueuesTyped /\ CountsTyped
              /\ thread \in [Threads -> Local]
BY DEF Typed, TypeOK, ClockTyped, LogTyped, ShardsTyped, StatusTyped, QueuesTyped, CountsTyped

LEMMA TypedInPartsNext ==
    Typed' <=> /\ ClockTyped' /\ LogTyped' /\ ShardsTyped' /\ StatusTyped' /\ QueuesTyped'
               /\ CountsTyped' /\ thread' \in [Threads -> Local]
BY DEF Typed, TypeOK, ClockTyped, LogTyped, ShardsTyped, StatusTyped, QueuesTyped, CountsTyped

LEMMA InitTyped == Init => Typed
<1> SUFFICES ASSUME Init PROVE Typed
  OBVIOUS
<1>1. ClockTyped /\ ShardsTyped /\ StatusTyped /\ QueuesTyped /\ CountsTyped
  BY DEF Init, ClockTyped, ShardsTyped, StatusTyped, QueuesTyped, CountsTyped, Modes
<1>2. LogTyped
  <2>1. log = [c \in Chains |-> <<>>] /\ saved = [c \in Chains |-> 0]
    BY DEF Init
  <2>2. <<>> \in Seq(Block) /\ Len(<<>>) = 0
    BY EmptySeq
  <2> QED BY <2>1, <2>2 DEF LogTyped
<1>3. thread \in [Threads -> Local]
  <2>1. AtRest \in Local /\ [AtRest EXCEPT !.pc = "start"] \in Local
    BY RecordTypes DEF Local, Steps
  <2> QED BY <2>1 DEF Init
<1> QED BY <1>1, <1>2, <1>3, TypedInParts

(* The variables that a step leaves alone keep their types.                *)
LEMMA SameTyped ==
    ASSUME Typed
    PROVE  /\ ClockSame /\ lastTime' \in Nat => ClockTyped'
           /\ log' = log /\ saved' = saved => LogTyped'
           /\ ChainsSame => ShardsTyped'
           /\ (shards' = shards /\ changed' = changed /\ registered' = registered
               /\ forgotten' = forgotten) => ShardsTyped'
           /\ StatusSame => StatusTyped'
           /\ users' = users /\ up' \in BOOLEAN /\ failed' \in BOOLEAN => StatusTyped'
           /\ queued' = queued /\ messages' = messages /\ notified' = notified => QueuesTyped'
           /\ queued' \in [Chains -> Nat] /\ messages' \in Nat /\ notified' = notified
                => QueuesTyped'
           /\ CountsSame => CountsTyped'
           /\ lastTime \in Nat
<1>1. ClockTyped /\ LogTyped /\ ShardsTyped /\ StatusTyped /\ QueuesTyped /\ CountsTyped
  BY TypedInParts
<1>2. (ClockSame /\ lastTime' \in Nat => ClockTyped') /\ lastTime \in Nat
  BY <1>1 DEF ClockSame, ClockTyped
<1>3. log' = log /\ saved' = saved => LogTyped'
  BY <1>1 DEF LogTyped
<1>4. /\ ChainsSame => ShardsTyped'
      /\ (shards' = shards /\ changed' = changed /\ registered' = registered
          /\ forgotten' = forgotten) => ShardsTyped'
  BY <1>1 DEF ShardsTyped, ChainsSame
<1>5. /\ StatusSame => StatusTyped'
      /\ users' = users /\ up' \in BOOLEAN /\ failed' \in BOOLEAN => StatusTyped'
  BY <1>1 DEF StatusTyped, StatusSame
<1>6. /\ queued' = queued /\ messages' = messages /\ notified' = notified => QueuesTyped'
      /\ (queued' \in [Chains -> Nat] /\ messages' \in Nat /\ notified' = notified) => QueuesTyped'
  BY <1>1 DEF QueuesTyped
<1>7. CountsSame => CountsTyped'
  BY <1>1 DEF CountsSame, CountsTyped
<1> QED BY <1>2, <1>3, <1>4, <1>5, <1>6, <1>7

(* Putting a block keeps the type of the log, whether it is made durable.  *)
LEMMA PutTyped ==
    ASSUME Typed, NEW c \in Chains, NEW b \in Block, log' = [log EXCEPT ![c] = Append(@, b)],
           saved' = saved \/ saved' = [saved EXCEPT ![c] = Len(log[c]) + 1]
    PROVE  LogTyped'
<1>1. /\ saved \in [Chains -> Nat] /\ \A d \in Chains : saved[d] \in Nat /\ saved[d] <= Len(log[d])
  BY DEF Typed, TypeOK
<1>2. /\ log' \in [Chains -> Seq(Block)] /\ Len(log[c]) \in Nat
      /\ Len(log'[c]) = Len(log[c]) + 1 /\ \A d \in Chains \ {c} : log'[d] = log[d]
  BY AppendedLog
<1>3. saved' \in [Chains -> Nat] /\ saved'[c] <= Len(log[c]) + 1
      /\ \A d \in Chains \ {c} : saved'[d] = saved[d]
  BY <1>1, <1>2
<1>4. \A d \in Chains : saved'[d] <= Len(log'[d])
  BY <1>1, <1>2, <1>3
<1> QED BY <1>2, <1>3, <1>4 DEF LogTyped

(* The steps, the threads' own among them.                                 *)
LEMMA StepCases ==
    ASSUME Typed, [Next]_vars
    PROVE  \/ Waits
           \/ \E t \in Threads : Enters(t) \/ Executing(t)
           \/ Restart \/ RestoreState \/ BuildConfigBlock \/ PutConfigBlock
<1>1. CASE Tick \/ IncreaseDelta \/ ResetDelta \/ SetMode \/ EnqueueMessage \/ UNCHANGED vars
  BY <1>1, WaitsFacts
<1>2. CASE \E t \in Threads : ProcessMessage(t)
  BY <1>2, EntersFacts
<1>3. CASE RunLoop
  BY <1>3, EntersFacts, RunIsThread
<1> QED BY <1>1, <1>2, <1>3 DEF Next

LEMMA ExecutingTyped ==
    ASSUME Typed, NEW t \in Threads, Executing(t)
    PROVE  Typed'
<1>1. CASE Begin(t)
  BY <1>1, BeginFacts, SameTyped, TypedInPartsNext DEF Moves, ChainsSame
<1>2. CASE Turn(t)
  BY <1>2, TurnFacts, SameTyped, TypedInPartsNext DEF Moves, ChainsSame
<1>3. CASE BuildShardBlock(t)
  BY <1>3, BuildShardBlockFacts, SameTyped, TypedInPartsNext DEF Moves, ChainsSame
<1>4. CASE NoShardBlock(t)
  BY <1>4, NoShardBlockFacts, SameTyped, TypedInPartsNext DEF Moves, ChainsSame
<1>5. CASE PutShardBlock(t)
  <2>1. ShardsTyped'
    BY <1>5, PutShardBlockFacts, SameTyped, TypedInPartsNext
  <2>2. LogTyped'
    BY <1>5, PutShardBlockFacts, ThreadType, ChainsAre, PutTyped
  <2> QED BY <1>5, <2>1, <2>2, PutShardBlockFacts, SameTyped, TypedInPartsNext DEF Moves
<1>6. CASE RegisterShardBlock(t)
  <2>1. thread[t].block.seq \in Nat
    BY ThreadType DEF Block
  <2>2. ShardsTyped'
    <3>1. /\ shards' = thread[t].block.seq /\ changed' = TRUE
          /\ registered' = registered \union {thread[t].block.seq} /\ registered \subseteq Nat
          /\ forgotten' = forgotten /\ forgotten \subseteq registered
      BY <1>6, RegisterShardBlockFacts, TypedInParts DEF ShardsTyped
    <3> QED BY <2>1, <3>1 DEF ShardsTyped
  <2>3. lastTime' \in Nat
    <3>1. lastTime' = TimeLessDelta(thread[t].genTime) /\ thread[t].genTime \in Nat
      BY <1>6, RegisterShardBlockFacts, ThreadType
    <3> QED BY <3>1, TimeLessDeltaType
  <2> QED BY <1>6, <2>2, <2>3, RegisterShardBlockFacts, SameTyped, TypedInPartsNext DEF Moves
<1>7. CASE NextShardBlock(t)
  BY <1>7, NextShardBlockFacts, SameTyped, TypedInPartsNext DEF Moves, ChainsSame
<1>8. CASE BuildMasterBlock(t)
  BY <1>8, BuildMasterBlockFacts, SameTyped, TypedInPartsNext DEF Moves, ChainsSame
<1>9. CASE PutMasterBlock(t)
  <2>1. ShardsTyped'
    BY <1>9, PutMasterBlockFacts, TypedInParts DEF ShardsTyped
  <2>2. LogTyped'
    BY <1>9, PutMasterBlockFacts, ThreadType, ChainsAre, PutTyped
  <2> QED BY <1>9, <2>1, <2>2, PutMasterBlockFacts, SameTyped, TypedInPartsNext DEF Moves
<1>10. CASE MasterBlockDone(t)
  <2>1. lastTime' \in Nat
    BY <1>10, MasterBlockDoneFacts, ThreadType, TimeLessDeltaType
  <2> QED BY <1>10, <2>1, MasterBlockDoneFacts, SameTyped, TypedInPartsNext DEF Moves, ChainsSame
<1>11. CASE NoMasterBlock(t)
  <2>1. StatusTyped'
    BY <1>11, NoMasterBlockFacts, TypedInParts DEF StatusTyped
  <2> QED BY <1>11, <2>1, NoMasterBlockFacts, SameTyped, TypedInPartsNext DEF Moves, ChainsSame
<1>12. ASSUME Fail(t)
       PROVE  /\ thread' \in [Threads -> Local] /\ ClockTyped' /\ ShardsTyped'
              /\ messages' \in Nat /\ notified' = notified /\ StatusTyped' /\ CountsTyped'
  <2>1. CountsTyped' /\ StatusTyped' /\ messages' \in Nat
    BY <1>12, FailFacts, TypedInParts DEF CountsTyped, StatusTyped, QueuesTyped
  <2> QED BY <1>12, <2>1, FailFacts, SameTyped, TypedInPartsNext DEF Moves
<1>13. CASE BuildFails(t)
  BY <1>12, <1>13, BuildFailsFacts, SameTyped, TypedInPartsNext
<1>14. CASE PutFails(t)
  <2>1. LogTyped'
    BY <1>14, PutFailsFacts, ThreadType, ChainsAre, PutTyped
  <2>2. QueuesTyped'
    BY <1>14, PutFailsFacts, FailFacts, SameTyped, TypedInPartsNext
  <2> QED BY <1>12, <1>14, <2>1, <2>2, PutFailsFacts, SameTyped, TypedInPartsNext
<1> QED BY <1>1, <1>2, <1>3, <1>4, <1>5, <1>6, <1>7, <1>8, <1>9, <1>10, <1>11, <1>13, <1>14
        DEF Executing

LEMMA TypedStep == Typed /\ [Next]_vars => Typed'
<1> SUFFICES ASSUME Typed, [Next]_vars PROVE Typed'
  OBVIOUS
<1>1. CASE Waits
  <2>1. ClockTyped' /\ QueuesTyped' /\ CountsTyped'
    BY <1>1, TypedInParts DEF Waits, ClockTyped, QueuesTyped, CountsTyped
  <2>2. LogTyped' /\ ShardsTyped' /\ StatusTyped'
    BY <1>1, SameTyped, TypedInPartsNext DEF Waits, ChainsSame
  <2>3. thread' \in [Threads -> Local]
    BY <1>1, TypedInParts DEF Waits
  <2> QED BY <2>1, <2>2, <2>3, SameTyped, TypedInPartsNext
<1>2. CASE \E t \in Threads : Enters(t)
  <2>1. QueuesTyped'
    BY <1>2 DEF Enters, QueuesTyped
  <2> QED BY <1>2, <2>1, SameTyped, TypedInPartsNext DEF Enters, Moves, ChainsSame
<1>3. CASE Restart
  <2>1. ClockTyped' /\ QueuesTyped' /\ CountsTyped' /\ StatusTyped' /\ ShardsTyped'
    BY <1>3, RestartFacts, TypedInParts DEF ClockTyped, QueuesTyped, CountsTyped, StatusTyped,
       ShardsTyped, Modes
  <2>2. LogTyped'
    BY <1>3, RestartFacts, CutLog, TypedInParts DEF LogTyped
  <2> QED BY <1>3, <2>1, <2>2, RestartFacts, SameTyped, TypedInPartsNext
<1>4. CASE RestoreState
  <2>1. ShardsTyped'
    BY <1>4, RestoreStateFacts, TipType, ChainsAre, TypedInParts DEF ShardsTyped
  <2> QED BY <1>4, <2>1, RestoreStateFacts, SameTyped, TypedInPartsNext DEF Moves
<1>5. CASE BuildConfigBlock
  BY <1>5, BuildConfigBlockFacts, SameTyped, TypedInPartsNext DEF Moves, ChainsSame
<1>6. CASE PutConfigBlock
  <2>1. ShardsTyped'
    BY <1>6, PutConfigBlockFacts, TypedInParts DEF ShardsTyped
  <2>2. LogTyped'
    BY <1>6, PutConfigBlockFacts, ThreadType, RunIsThread, ChainsAre, PutTyped
  <2> QED BY <1>6, <2>1, <2>2, PutConfigBlockFacts, SameTyped, TypedInPartsNext DEF Moves
<1> QED BY <1>1, <1>2, <1>3, <1>4, <1>5, <1>6, ExecutingTyped, StepCases

(* The variables keep their types, whatever threads use the engine: the    *)
(* time that is kept never falls below zero, though delta may have grown   *)
(* since the time it is subtracted from was given.                         *)
THEOREM TypeCorrect == Spec => []TypeOK
<1>1. Typed => TypeOK
  BY DEF Typed
<1> QED BY <1>1, InitTyped, TypedStep, PTL DEF Spec

-----------------------------------------------------------------------------
(* One thread at a time.                                                   *)

(* All threads but t are at rest.                                          *)
Only(t) == \A s \in Threads \ {t} : thread[s].pc = "rest"

LEMMA MovesAlone == ASSUME NEW t \in Threads, Only(t), Moves(t) PROVE Only(t)'
BY DEF Only, Moves

LEMMA ActingAlone ==
    ASSUME SoleInv, NEW t \in Threads, thread[t].pc # "rest"
    PROVE  Only(t) /\ (IF up THEN t \in users ELSE t = "run")
BY DEF SoleInv, Active, At, Only

(* What the steps of an executing thread do to it and to the status.       *)
LEMMA ExecutingStatus ==
    ASSUME Typed, NEW t \in Threads, Executing(t)
    PROVE  /\ Moves(t) /\ thread[t].pc \notin {"rest", "restore"} /\ users' = users
           /\ thread'[t].pc \notin {"restore", "config", "config put"}
           /\ \/ up' = up /\ (thread'[t].pc = "down" => ~up)
              \/ thread'[t].pc = "rest"
<1>1. CASE Begin(t) \/ Turn(t)
  BY <1>1, BeginFacts, TurnFacts DEF StatusSame
<1>2. CASE BuildShardBlock(t) \/ NoShardBlock(t)
  BY <1>2, BuildShardBlockFacts, NoShardBlockFacts DEF StatusSame
<1>3. CASE PutShardBlock(t) \/ RegisterShardBlock(t) \/ NextShardBlock(t)
  BY <1>3, PutShardBlockFacts, RegisterShardBlockFacts, NextShardBlockFacts DEF StatusSame
<1>4. CASE BuildMasterBlock(t) \/ PutMasterBlock(t) \/ MasterBlockDone(t)
  BY <1>4, BuildMasterBlockFacts, PutMasterBlockFacts, MasterBlockDoneFacts DEF StatusSame
<1>5. CASE NoMasterBlock(t)
  BY <1>5, NoMasterBlockFacts
<1>6. CASE BuildFails(t)
  BY <1>6, BuildFailsFacts, FailFacts
<1>7. CASE PutFails(t)
  BY <1>7, PutFailsFacts, FailFacts
<1> QED BY <1>1, <1>2, <1>3, <1>4, <1>5, <1>6, <1>7 DEF Executing

(* If one thread is active, the invariant is about that one.               *)
LEMMA SoleAfter ==
    ASSUME NEW t \in Threads, Only(t)',
           thread'[t].pc # "rest" => IF up' THEN t \in users' ELSE t = "run",
           thread'[t].pc \in {"restore", "config", "config put", "down"} => ~up'
    PROVE  SoleInv'
BY DEF SoleInv, Active, At, Only

LEMMA InitSole == Init => SoleInv
<1> SUFFICES ASSUME Init PROVE SoleInv
  OBVIOUS
<1>1. /\ ~up /\ thread["run"].pc = "start"
      /\ \A t \in Threads \ {"run"} : thread[t].pc = "rest"
  <2>1. [AtRest EXCEPT !.pc = "start"].pc = "start" /\ AtRest.pc = "rest"
    BY DEF AtRest
  <2> QED BY <2>1, RunIsThread DEF Init
<1> QED BY <1>1, RunIsThread DEF SoleInv, Active, At

LEMMA SoleStep == Typed /\ Alone /\ SoleInv /\ [Next]_vars => Alone' /\ SoleInv'
<1> SUFFICES ASSUME Typed, Alone, SoleInv, [Next]_vars PROVE Alone' /\ SoleInv'
  OBVIOUS
<1>1. CASE Waits
  BY <1>1 DEF Waits, StatusSame, Alone, SoleInv, Active, At
<1>2. ASSUME NEW t \in Threads, Enters(t) PROVE Alone' /\ SoleInv'
  <2>1. Only(t)
    BY <1>2 DEF Enters, Only, SoleInv, Active, At, Alone
  <2>2. /\ Only(t)' /\ users' = users /\ up' = up /\ up /\ t \in users
        /\ thread'[t].pc = "start"
    BY <1>2, <2>1, MovesAlone DEF Enters, StatusSame
  <2> QED BY <2>2, SoleAfter DEF Alone
<1>3. ASSUME NEW t \in Threads, Executing(t) PROVE Alone' /\ SoleInv'
  <2>1. Only(t) /\ (IF up THEN t \in users ELSE t = "run")
    BY <1>3, ExecutingStatus, ActingAlone
  <2>2. Only(t)' /\ users' = users
    BY <1>3, <2>1, ExecutingStatus, MovesAlone
  <2> QED BY <1>3, <2>1, <2>2, ExecutingStatus, SoleAfter DEF Alone
<1>4. CASE Restart
  <2>1. Only("run")' /\ users' = users /\ ~up'
    BY <1>4, RestartFacts DEF Only
  <2> QED BY <2>1, RunIsThread, SoleAfter DEF Alone
<1>5. ASSUME Moves("run"), StatusSame, thread["run"].pc \in {"restore", "config", "config put"}
      PROVE  Alone' /\ SoleInv'
  <2>1. ~up /\ Only("run")
    BY <1>5, RunIsThread, ActingAlone DEF SoleInv
  <2>2. Only("run")' /\ users' = users /\ ~up'
    BY <1>5, <2>1, RunIsThread, MovesAlone DEF StatusSame
  <2> QED BY <2>2, RunIsThread, SoleAfter DEF Alone
<1>6. CASE RestoreState \/ BuildConfigBlock \/ PutConfigBlock
  BY <1>5, <1>6, RestoreStateFacts, BuildConfigBlockFacts, PutConfigBlockFacts
<1> QED BY <1>1, <1>2, <1>3, <1>4, <1>6, StepCases

-----------------------------------------------------------------------------
(* What a step does to the chains.                                         *)

Good == Typed /\ Alone /\ SoleInv

(* The candidate of t becomes the tip of chain c.                          *)
Puts(t, c) ==
    /\ t \in Threads /\ thread[t].pc \in PutSteps(c) /\ Only(t)'
    /\ log' = [log EXCEPT ![c] = Append(@, thread[t].block)]
    /\ saved' = saved \/ saved' = [saved EXCEPT ![c] = Len(log[c]) + 1]
    /\ shards' = shards /\ registered' = registered /\ forgotten' = forgotten
    /\ lastTime' = lastTime /\ ClockSame
    /\ thread'[t].pc \in {"wc set", "mc set", "rest", "down", "start"}
    /\ thread'[t].pc = "rest" => failed'

PutsShard(t) ==
    /\ Puts(t, "wc") /\ changed' = changed
    /\ thread'[t].pc = "wc set" =>
         /\ saved' = [saved EXCEPT !["wc"] = Len(log["wc"]) + 1]
         /\ thread'[t].genTime = thread[t].genTime /\ thread'[t].epoch = thread[t].epoch
         /\ thread'[t].mcSeqNo = thread[t].mcSeqNo /\ thread'[t].block = thread[t].block
    /\ thread'[t].pc # "mc set"

PutsMaster(t) ==
    /\ Puts(t, "mc")
    /\ changed' = changed \/ changed' = FALSE
    /\ thread'[t].pc = "mc set" =>
         /\ thread[t].pc = "mc put"
         /\ thread'[t].genTime = thread[t].genTime /\ thread'[t].epoch = thread[t].epoch
    /\ thread'[t].pc # "wc set"

(* Another step of a thread: it leaves the chains alone.                   *)
Works(t) ==
    /\ ChainsSame
    /\ \/ Begin(t) \/ Turn(t) \/ BuildShardBlock(t) \/ NoShardBlock(t) \/ NextShardBlock(t)
       \/ BuildMasterBlock(t) \/ MasterBlockDone(t) \/ NoMasterBlock(t) \/ BuildFails(t)
       \/ Enters(t) \/ (t = "run" /\ BuildConfigBlock)

LEMMA PutsShardFacts ==
    ASSUME Good, NEW t \in Threads,
           PutShardBlock(t) \/ (PutFails(t) /\ thread[t].pc = "wc put")
    PROVE  PutsShard(t)
<1>1. "wc put" \in PutSteps("wc")
  BY DEF PutSteps
<1>2. CASE PutShardBlock(t)
  <2>1. Only(t)'
    BY <1>2, PutShardBlockFacts, ActingAlone, MovesAlone DEF Good
  <2> QED BY <1>1, <1>2, <2>1, PutShardBlockFacts DEF Good, PutsShard, Puts
<1>3. CASE PutFails(t) /\ thread[t].pc = "wc put"
  <2>1. Only(t)'
    BY <1>3, PutFailsFacts, FailFacts, ActingAlone, MovesAlone DEF Good
  <2>2. thread'[t].pc \in {"rest", "down"}
    BY <1>3, PutFailsFacts, FailFacts DEF Good
  <2>3. log' = [log EXCEPT !["wc"] = Append(@, thread[t].block)]
    BY <1>3, PutFailsFacts DEF Good
  <2> QED BY <1>1, <1>3, <2>1, <2>2, <2>3, PutFailsFacts, FailFacts DEF Good, PutsShard, Puts
<1> QED BY <1>2, <1>3

LEMMA PutsMasterFacts ==
    ASSUME Good, NEW t \in Threads,
           \/ PutMasterBlock(t) \/ (t = "run" /\ PutConfigBlock)
           \/ PutFails(t) /\ thread[t].pc # "wc put"
    PROVE  PutsMaster(t)
<1>1. "mc put" \in PutSteps("mc") /\ "config put" \in PutSteps("mc")
  BY DEF PutSteps
<1>2. CASE PutMasterBlock(t)
  <2>1. Only(t)'
    BY <1>2, PutMasterBlockFacts, ActingAlone, MovesAlone DEF Good
  <2> QED BY <1>1, <1>2, <2>1, PutMasterBlockFacts DEF Good, PutsMaster, Puts
<1>3. CASE t = "run" /\ PutConfigBlock
  <2>1. Only(t)'
    BY <1>3, PutConfigBlockFacts, ActingAlone, MovesAlone DEF Good
  <2> QED BY <1>1, <1>3, <2>1, PutConfigBlockFacts DEF Good, PutsMaster, Puts
<1>4. CASE PutFails(t) /\ thread[t].pc # "wc put"
  <2>1. Only(t)'
    BY <1>4, PutFailsFacts, FailFacts, ActingAlone, MovesAlone DEF Good
  <2>2. thread'[t].pc \in {"rest", "down"}
    BY <1>4, PutFailsFacts, FailFacts DEF Good
  <2>3. /\ thread[t].pc \in {"mc put", "config put"}
        /\ log' = [log EXCEPT !["mc"] = Append(@, thread[t].block)]
    BY <1>4, PutFailsFacts DEF Good
  <2> QED BY <1>1, <1>4, <2>1, <2>2, <2>3, PutFailsFacts, FailFacts DEF Good, PutsMaster, Puts
<1> QED BY <1>2, <1>3, <1>4

LEMMA StepKinds ==
    ASSUME Good, [Next]_vars
    PROVE  \/ Waits
           \/ \E t \in Threads :
                Works(t) \/ PutsShard(t) \/ PutsMaster(t) \/ RegisterShardBlock(t)
           \/ Restart \/ RestoreState
<1>1. ASSUME NEW t \in Threads, Executing(t)
      PROVE  Works(t) \/ PutsShard(t) \/ PutsMaster(t) \/ RegisterShardBlock(t)
  <2>1. CASE PutShardBlock(t) \/ PutMasterBlock(t) \/ PutFails(t)
    BY <2>1, PutsShardFacts, PutsMasterFacts
  <2>2. CASE Begin(t) \/ Turn(t) \/ BuildShardBlock(t) \/ NoShardBlock(t) \/ NextShardBlock(t)
    <3>1. ChainsSame
      BY <2>2, BeginFacts, TurnFacts, BuildShardBlockFacts, NoShardBlockFacts,
         NextShardBlockFacts DEF Good
    <3> QED BY <2>2, <3>1 DEF Works
  <2>3. CASE BuildMasterBlock(t) \/ MasterBlockDone(t) \/ NoMasterBlock(t)
    <3>1. ChainsSame
      BY <2>3, BuildMasterBlockFacts, MasterBlockDoneFacts, NoMasterBlockFacts DEF Good
    <3> QED BY <2>3, <3>1 DEF Works
  <2>4. CASE BuildFails(t)
    <3>1. ChainsSame
      BY <2>4, BuildFailsFacts, FailFacts DEF Good, ChainsSame
    <3> QED BY <2>4, <3>1 DEF Works
  <2> QED BY <1>1, <2>1, <2>2, <2>3, <2>4 DEF Executing
<1>2. ASSUME NEW t \in Threads, Enters(t) PROVE Works(t)
  BY <1>2 DEF Enters, Works
<1>3. CASE BuildConfigBlock
  BY <1>3, BuildConfigBlockFacts, RunIsThread DEF Good, Works
<1>4. CASE PutConfigBlock
  BY <1>4, RunIsThread, PutsMasterFacts
<1> QED BY <1>1, <1>2, <1>3, <1>4, StepCases DEF Good

(* A thread that works was alone and is.                                   *)
LEMMA WorksAlone ==
    ASSUME Good, NEW t \in Threads, Works(t)
    PROVE  /\ Only(t) /\ Only(t)' /\ thread[t].pc # "restore"
           /\ thread'[t].pc \notin {"restore", "config", "wc set"}
<1>1. CASE Enters(t)
  <2>1. Only(t)
    BY <1>1 DEF Good, Enters, Only, SoleInv, Active, At, Alone
  <2> QED BY <1>1, <2>1, MovesAlone DEF Enters
<1>2. CASE t = "run" /\ BuildConfigBlock
  BY <1>2, BuildConfigBlockFacts, ActingAlone, MovesAlone DEF Good
<1>3. CASE Executing(t)
  <2>1. Only(t) /\ Only(t)' /\ thread[t].pc # "restore"
    BY <1>3, ExecutingStatus, ActingAlone, MovesAlone DEF Good
  <2>2. thread'[t].pc \notin {"restore", "config", "wc set"}
    <3>1. CASE Begin(t) \/ Turn(t) \/ BuildShardBlock(t) \/ NoShardBlock(t) \/ NextShardBlock(t)
      BY <3>1, BeginFacts, TurnFacts, BuildShardBlockFacts, NoShardBlockFacts,
         NextShardBlockFacts DEF Good
    <3>2. CASE BuildMasterBlock(t) \/ MasterBlockDone(t) \/ NoMasterBlock(t) \/ BuildFails(t)
      BY <3>2, BuildMasterBlockFacts, MasterBlockDoneFacts, NoMasterBlockFacts,
         BuildFailsFacts, FailFacts DEF Good
    <3>3. CASE Enters(t) \/ (t = "run" /\ BuildConfigBlock)
      BY <3>3, BuildConfigBlockFacts DEF Good, Enters
    <3> QED BY <3>1, <3>2, <3>3 DEF Works
  <2> QED BY <2>1, <2>2
<1> QED BY <1>1, <1>2, <1>3 DEF Works, Executing

-----------------------------------------------------------------------------
(* Numbers of blocks.                                                      *)

LEMMA NextIsLength ==
    ASSUME Typed, Numbered, NEW c \in Chains
    PROVE  NextSeqNo(c) = Len(log[c]) + 1 /\ Len(log[c]) \in Nat
<1>1. log[c] \in Seq(Block)
  BY DEF Typed, TypeOK
<1>2. CASE log[c] = <<>>
  BY <1>1, <1>2, OfSeq DEF NextSeqNo, Tip, Zerostate
<1>3. CASE log[c] # <<>>
  <2>1. Tip(c) = log[c][Len(log[c])] /\ Len(log[c]) \in DOMAIN log[c] /\ Len(log[c]) \in Nat
    BY <1>1, <1>3, OfSeq DEF Tip
  <2> QED BY <2>1 DEF NextSeqNo, Numbered
<1> QED BY <1>2, <1>3

(* A candidate has the next number of the chain it is put on.              *)
LEMMA CandidateNumber ==
    ASSUME NumberInv, NEW t \in Threads, NEW c \in Chains, thread[t].pc \in PutSteps(c)
    PROVE  thread[t].block.seq = Len(log[c]) + 1
BY DEF NumberInv, NumberLocal, At, PutSteps, Chains, Shard, Master

LEMMA PutsNumbered ==
    ASSUME Typed, NumberInv, NEW c \in Chains, NEW t, Puts(t, c)
    PROVE  Numbered'
<1>1. /\ t \in Threads /\ thread[t].block \in Block
      /\ log' = [log EXCEPT ![c] = Append(@, thread[t].block)]
      /\ thread[t].block.seq = Len(log[c]) + 1
  BY ThreadType, CandidateNumber DEF Puts
<1>2. /\ DOMAIN log'[c] = 1..Len(log[c]) + 1 /\ DOMAIN log[c] = 1..Len(log[c])
      /\ Len(log[c]) \in Nat
      /\ \A i \in DOMAIN log[c] : log'[c][i] = log[c][i]
      /\ log'[c][Len(log[c]) + 1] = thread[t].block
      /\ \A d \in Chains \ {c} : log'[d] = log[d]
  BY <1>1, AppendedLog
<1>3. \A i \in DOMAIN log'[c] : i \in DOMAIN log[c] \/ i = Len(log[c]) + 1
  BY <1>2
<1>4. \A i \in DOMAIN log'[c] : log'[c][i].seq = i
  BY <1>1, <1>2, <1>3 DEF NumberInv, Numbered
<1>5. \A d \in Chains \ {c} : \A i \in DOMAIN log'[d] : log'[d][i].seq = i
  BY <1>2 DEF NumberInv, Numbered
<1> QED BY <1>4, <1>5 DEF Numbered

(* All threads at rest but t: the invariant is about the locals of t.      *)
LEMMA NumberAfter ==
    ASSUME NEW t \in Threads, Only(t)', NumberLocal(t)', Numbered'
    PROVE  NumberInv'
BY DEF NumberInv, NumberLocal, Only, At

(* A thread that has no candidate.                                         *)
LEMMA NoCandidate ==
    ASSUME NEW t, thread'[t].pc \notin {"wc put", "mc put", "config put", "wc set"}
    PROVE  NumberLocal(t)'
BY DEF NumberLocal, At, Shard, Master

LEMMA WorksNumber ==
    ASSUME Good, NumberInv, NEW t \in Threads, Works(t)
    PROVE  NumberInv'
<1>1. log' = log /\ saved' = saved /\ Only(t)' /\ Numbered'
  <2>1. log' = log /\ saved' = saved
    BY DEF Works, ChainsSame
  <2> QED BY <2>1, WorksAlone DEF NumberInv, Numbered
<1>2. \A c \in Chains : NextSeqNo(c) = Len(log[c]) + 1
  BY NextIsLength DEF Good, NumberInv
<1>3. NumberLocal(t)'
  <2>1. CASE Begin(t) \/ Turn(t) \/ NoShardBlock(t) \/ NextShardBlock(t) \/ MasterBlockDone(t)
    BY <2>1, NoCandidate, BeginFacts, TurnFacts, NoShardBlockFacts, NextShardBlockFacts,
       MasterBlockDoneFacts DEF Good
  <2>2. CASE NoMasterBlock(t) \/ BuildFails(t) \/ Enters(t)
    BY <2>2, NoCandidate, NoMasterBlockFacts, BuildFailsFacts, FailFacts DEF Good, Enters
  <2>3. CASE BuildShardBlock(t)
    <3>1. thread'[t].pc = "wc put" /\ thread'[t].block.seq = Len(log["wc"]) + 1
      BY <2>3, <1>2, ChainsAre, BuildShardBlockFacts DEF Good
    <3> QED BY <1>1, <3>1 DEF NumberLocal, At, Shard, Master
  <2>4. CASE BuildMasterBlock(t)
    <3>1. thread'[t].pc = "mc put" /\ thread'[t].block.seq = Len(log["mc"]) + 1
      BY <2>4, <1>2, ChainsAre, BuildMasterBlockFacts DEF Good
    <3> QED BY <1>1, <3>1 DEF NumberLocal, At, Shard, Master
  <2>5. CASE t = "run" /\ BuildConfigBlock
    <3>1. thread'[t].pc = "config put" /\ thread'[t].block.seq = Len(log["mc"]) + 1
      BY <2>5, <1>2, ChainsAre, BuildConfigBlockFacts DEF Good
    <3> QED BY <1>1, <3>1 DEF NumberLocal, At, Shard, Master
  <2> QED BY <2>1, <2>2, <2>3, <2>4, <2>5 DEF Works
<1> QED BY <1>1, <1>3, NumberAfter

LEMMA PutsNumber ==
    ASSUME Good, NumberInv, NEW t \in Threads, PutsShard(t) \/ PutsMaster(t)
    PROVE  NumberInv'
<1>1. Only(t)' /\ Numbered'
  BY ChainsAre, PutsNumbered DEF Good, PutsShard, PutsMaster, Puts
<1>2. NumberLocal(t)'
  <2>1. CASE thread'[t].pc # "wc set"
    BY <2>1, NoCandidate DEF PutsShard, PutsMaster, Puts
  <2>2. CASE thread'[t].pc = "wc set"
    <3>1. /\ PutsShard(t) /\ thread[t].block \in Block
          /\ log' = [log EXCEPT !["wc"] = Append(@, thread[t].block)]
          /\ saved' = [saved EXCEPT !["wc"] = Len(log["wc"]) + 1]
          /\ thread'[t].block = thread[t].block
      BY <2>2, ThreadType DEF Good, PutsShard, PutsMaster, Puts
    <3>2. /\ Len(log'["wc"]) = Len(log["wc"]) + 1 /\ Len(log["wc"]) \in Nat
          /\ log'["wc"][Len(log["wc"]) + 1] = thread[t].block
          /\ log'["wc"] \in Seq(Block)
      BY <3>1, ChainsAre, AppendedLog DEF Good
    <3>3. saved'["wc"] = Len(log["wc"]) + 1
      BY <3>1, ChainsAre DEF Good, Typed, TypeOK
    <3>4. log'["wc"] # <<>>
      BY <3>2, EmptySeq
    <3> QED BY <2>2, <3>1, <3>2, <3>3, <3>4 DEF NumberLocal, At, Shard, Master
  <2> QED BY <2>1, <2>2
<1> QED BY <1>1, <1>2, NumberAfter

LEMMA NumberStep == Good /\ NumberInv /\ [Next]_vars => NumberInv'
<1> SUFFICES ASSUME Good, NumberInv, [Next]_vars PROVE NumberInv'
  OBVIOUS
<1>1. CASE Waits
  BY <1>1 DEF Waits, ChainsSame, NumberInv, Numbered, NumberLocal, At, Shard, Master
<1>2. ASSUME NEW t \in Threads, RegisterShardBlock(t) PROVE NumberInv'
  <2>1. /\ Only(t)' /\ log' = log /\ saved' = saved /\ thread'[t].pc = "wc next"
    BY <1>2, RegisterShardBlockFacts, ActingAlone, MovesAlone DEF Good
  <2> QED BY <2>1, NoCandidate, NumberAfter DEF NumberInv, Numbered
<1>3. CASE Restart
  <2>1. Numbered'
    <3>1. log' = [c \in Chains |-> SubSeq(log[c], 1, saved[c])]
      BY <1>3, RestartFacts DEF Good
    <3>2. \A c \in Chains : \A i \in DOMAIN log'[c] : i \in DOMAIN log[c] /\ log'[c][i] = log[c][i]
      BY <3>1, CutLog DEF Good
    <3> QED BY <3>2 DEF NumberInv, Numbered
  <2>2. Only("run")' /\ thread'["run"].pc = "restore"
    BY <1>3, RestartFacts DEF Good, Only
  <2> QED BY <2>1, <2>2, NoCandidate, NumberAfter, RunIsThread
<1>4. CASE RestoreState
  <2>1. /\ Only("run")' /\ log' = log /\ saved' = saved
        /\ thread'["run"].pc \in {"config", "start"}
    BY <1>4, RestoreStateFacts, RunIsThread, ActingAlone, MovesAlone DEF Good
  <2> QED BY <2>1, NoCandidate, NumberAfter, RunIsThread DEF NumberInv, Numbered
<1> QED BY <1>1, <1>2, <1>3, <1>4, WorksNumber, PutsNumber, StepKinds

-----------------------------------------------------------------------------
(* Shard blocks in the masterchain.                                        *)

LEMMA NotRestoring ==
    ASSUME NEW t \in Threads, Only(t), thread[t].pc # "restore"
    PROVE  ~Restoring
BY RunIsThread DEF Only, Restoring, At

LEMMA NotRestoringNext ==
    ASSUME NEW t \in Threads, Only(t)', thread'[t].pc # "restore"
    PROVE  ~Restoring'
BY RunIsThread DEF Only, Restoring, At

LEMMA ShardTypes ==
    ASSUME Typed
    PROVE  /\ Shard \in Seq(Block) /\ Len(Shard) \in Nat /\ DOMAIN Shard = 1..Len(Shard)
           /\ Master \in Seq(Block) /\ Len(Master) \in Nat /\ DOMAIN Master = 1..Len(Master)
           /\ \A i \in DOMAIN Shard : Shard[i] \in Block
           /\ \A j \in DOMAIN Master : Master[j] \in Block /\ Master[j].shard \in Nat
           /\ shards \in Nat /\ saved["wc"] \in Nat /\ saved["wc"] <= Len(Shard)
           /\ registered \subseteq Nat
<1>1. log["wc"] \in Seq(Block) /\ log["mc"] \in Seq(Block)
  BY ChainsAre DEF Typed, TypeOK
<1>2. /\ Len(Shard) \in Nat /\ DOMAIN Shard = 1..Len(Shard)
      /\ \A i \in DOMAIN Shard : Shard[i] \in Block
  BY <1>1, OfSeq DEF Shard
<1>3. /\ Len(Master) \in Nat /\ DOMAIN Master = 1..Len(Master)
      /\ \A j \in DOMAIN Master : Master[j] \in Block
  BY <1>1, OfSeq DEF Master
<1>4. \A b \in Block : b.shard \in Nat
  BY DEF Block
<1>5. shards \in Nat /\ saved["wc"] \in Nat /\ saved["wc"] <= Len(Shard) /\ registered \subseteq Nat
  BY ChainsAre DEF Typed, TypeOK, Shard
<1> QED BY <1>1, <1>2, <1>3, <1>4, <1>5 DEF Shard, Master

LEMMA SameListed ==
    ASSUME Listed, ChainsSame, Restoring' <=> Restoring
    PROVE  Listed'
BY DEF Listed, Kept, ChainsSame, ShardsNeverGoBack, Listing, Master

LEMMA PutsShardListed ==
    ASSUME Good, ListInv, NEW t \in Threads, PutsShard(t)
    PROVE  Listed'
<1>1. ~Restoring /\ ~Restoring'
  <2>1. thread[t].pc = "wc put"
    BY DEF PutsShard, Puts, PutSteps
  <2>2. Only(t)
    BY <2>1, ActingAlone DEF Good
  <2> QED BY <2>1, <2>2, NotRestoring, NotRestoringNext DEF PutsShard, Puts
<1>2. /\ log'["mc"] = log["mc"]
      /\ saved'["wc"] = saved["wc"] \/ saved'["wc"] = Len(Shard) + 1
      /\ shards' = shards /\ registered' = registered /\ changed' = changed /\ Kept' = Kept
  <2>1. /\ log' = [log EXCEPT !["wc"] = Append(@, thread[t].block)]
        /\ saved' = saved \/ saved' = [saved EXCEPT !["wc"] = Len(log["wc"]) + 1]
        /\ shards' = shards /\ registered' = registered /\ changed' = changed /\ Kept' = Kept
    BY DEF PutsShard, Puts, Kept
  <2> QED BY <2>1, ChainsAre DEF Good, Typed, TypeOK, Shard
<1>3. Master' = Master
  BY <1>2 DEF Master
<1>4. saved'["wc"] \in Nat /\ saved["wc"] <= saved'["wc"] /\ saved["wc"] \in Nat
  BY <1>2, ShardTypes DEF Good
<1>5. ShardsNeverGoBack' /\ \A k : Listing(k)' = Listing(k)
  BY <1>2 DEF ListInv, Listed, ShardsNeverGoBack, Listing
<1> DEFINE s == saved'["wc"]
<1>6. /\ shards <= s /\ registered \subseteq 1..s
      /\ \A j \in DOMAIN Master : Master[j].shard <= s
  <2>1. PICK n \in Nat : n = s
    BY <1>4
  <2>2. saved["wc"] <= n
    BY <1>4, <2>1
  <2>3. /\ shards <= saved["wc"] /\ registered \subseteq 1..saved["wc"]
        /\ \A j \in DOMAIN Master : Master[j].shard <= saved["wc"]
    BY DEF ListInv, Listed
  <2> HIDE DEF s
  <2>4. /\ shards <= n /\ registered \subseteq 1..n
        /\ \A j \in DOMAIN Master : Master[j].shard <= n
    BY <2>2, <2>3, ShardTypes DEF Good
  <2> QED BY <2>1, <2>4
<1>7. /\ Kept \subseteq 1..shards /\ \A j \in DOMAIN Master : Master[j].shard <= shards
      /\ changed \/ \A k \in Kept : Listing(k) # {}
  BY <1>1 DEF ListInv, Listed
<1> QED BY <1>1, <1>2, <1>3, <1>5, <1>6, <1>7 DEF Listed

LEMMA PutsMasterListed ==
    ASSUME Good, ListInv, NEW t \in Threads, PutsMaster(t)
    PROVE  Listed'
<1>1. thread[t].pc \in {"mc put", "config put"} /\ thread[t].block \in Block
  BY ThreadType DEF PutsMaster, Puts, PutSteps, Good
<1>2. ~Restoring /\ ~Restoring'
  <2>1. Only(t)
    BY <1>1, ActingAlone DEF Good
  <2> QED BY <1>1, <2>1, NotRestoring, NotRestoringNext DEF PutsMaster, Puts
<1>3. /\ shards' = shards /\ registered' = registered /\ Kept' = Kept
      /\ saved'["wc"] = saved["wc"]
      /\ log' = [log EXCEPT !["mc"] = Append(@, thread[t].block)]
  <2>1. /\ saved' = saved \/ saved' = [saved EXCEPT !["mc"] = Len(log["mc"]) + 1]
        /\ shards' = shards /\ registered' = registered /\ Kept' = Kept
        /\ log' = [log EXCEPT !["mc"] = Append(@, thread[t].block)]
    BY DEF PutsMaster, Puts, Kept
  <2> QED BY <2>1, ChainsAre DEF Good, Typed, TypeOK
<1> DEFINE n == Len(Master) + 1
           new == Master'
<1>4. /\ Len(Master) \in Nat /\ DOMAIN Master = 1..Len(Master)
      /\ DOMAIN new = 1..n /\ \A j \in DOMAIN Master : new[j] = Master[j]
      /\ new[n].shard = shards
  <2>1. thread[t].block.shard = shards
    BY <1>1 DEF ListInv, ListLocal
  <2> QED BY <1>1, <1>3, <2>1, ChainsAre, AppendedLog DEF Good, Master
<1>5. n \in DOMAIN new /\ \A j \in DOMAIN new : j = n \/ (j \in DOMAIN Master /\ j < n)
  BY <1>4
<1>6. /\ shards <= saved["wc"] /\ registered \subseteq 1..saved["wc"]
      /\ Kept \subseteq 1..shards
      /\ \A j \in DOMAIN Master : Master[j].shard <= shards /\ Master[j].shard <= saved["wc"]
      /\ \A i, j \in DOMAIN Master : i < j => Master[i].shard <= Master[j].shard
  BY <1>2 DEF ListInv, Listed, ShardsNeverGoBack, Master
<1>7. shards \in Nat
  BY ShardTypes DEF Good
<1> HIDE DEF new
<1>8. \A j \in DOMAIN new : new[j].shard <= shards /\ new[j].shard <= saved["wc"]
  BY <1>4, <1>5, <1>6, <1>7
<1>9. \A i, j \in DOMAIN new : i < j => new[i].shard <= new[j].shard
  <2> SUFFICES ASSUME NEW i \in DOMAIN new, NEW j \in DOMAIN new, i < j
               PROVE  new[i].shard <= new[j].shard
    OBVIOUS
  <2>1. i \in DOMAIN Master
    BY <1>4, <1>5
  <2>2. CASE j = n
    BY <1>4, <1>6, <2>1, <2>2
  <2>3. CASE j \in DOMAIN Master
    BY <1>4, <1>6, <2>1, <2>3
  <2> QED BY <1>5, <2>2, <2>3
<1>10. \A k \in Kept : new[n].shard >= k
  BY <1>4, <1>6, <1>7
<1>11. ShardsNeverGoBack'
  BY <1>9 DEF ShardsNeverGoBack, new, Master
<1>12. \A k \in Kept : Listing(k)' # {}
  <2>1. \A k \in Kept : n \in Listing(k)'
    BY <1>5, <1>10 DEF Listing, new, Master
  <2> QED BY <2>1
<1> QED BY <1>2, <1>3, <1>6, <1>8, <1>11, <1>12 DEF Listed, new

(* The block that is registered is the last one, and durable.              *)
LEMMA RegisteringFacts ==
    ASSUME Good, NumberInv, ListInv, NEW t \in Threads, RegisterShardBlock(t)
    PROVE  /\ Only(t) /\ Only(t)' /\ ~Restoring /\ ~Restoring'
           /\ Shard # <<>> /\ Len(Shard) \in DOMAIN Shard
           /\ thread[t].block = Shard[Len(Shard)] /\ thread[t].block.seq = Len(Shard)
           /\ saved["wc"] = Len(Shard) /\ shards < Len(Shard)
           /\ shards' = Len(Shard) /\ registered' = registered \union {Len(Shard)}
           /\ Kept' \subseteq Kept \union {Len(Shard)}
<1>1. thread[t].pc = "wc set" /\ thread'[t].pc = "wc next" /\ Moves(t)
  BY RegisterShardBlockFacts DEF Good
<1>2. Only(t) /\ Only(t)' /\ ~Restoring /\ ~Restoring'
  <2>1. Only(t) /\ Only(t)'
    BY <1>1, ActingAlone, MovesAlone DEF Good
  <2> QED BY <1>1, <2>1, NotRestoring, NotRestoringNext
<1>3. /\ Shard # <<>> /\ saved["wc"] = Len(Shard) /\ thread[t].block = Shard[Len(Shard)]
      /\ shards < thread[t].block.seq
  BY <1>1 DEF NumberInv, NumberLocal, ListInv, ListLocal, At
<1>4. Len(Shard) \in DOMAIN Shard
  BY <1>3, ShardTypes, OfSeq DEF Good
<1>5. thread[t].block.seq = Len(Shard)
  BY <1>3, <1>4, ChainsAre DEF NumberInv, Numbered, Shard
<1>6. /\ shards' = Len(Shard) /\ registered' = registered \union {Len(Shard)}
      /\ forgotten' = forgotten
  BY <1>5, RegisterShardBlockFacts DEF Good
<1>7. Kept' \subseteq Kept \union {Len(Shard)}
  BY <1>6 DEF Kept
<1> QED BY <1>2, <1>3, <1>4, <1>5, <1>6, <1>7

LEMMA RegisterListed ==
    ASSUME Good, NumberInv, ListInv, NEW t \in Threads, RegisterShardBlock(t)
    PROVE  Listed'
<1>1. /\ shards' = Len(Shard) /\ registered' = registered \union {Len(Shard)} /\ ~Restoring'
      /\ saved' = saved /\ log' = log /\ changed' = TRUE /\ ~Restoring
      /\ Len(Shard) \in Nat \ {0} /\ saved["wc"] = Len(Shard) /\ shards < Len(Shard)
  <2>1. saved' = saved /\ log' = log /\ changed' = TRUE
    BY RegisterShardBlockFacts DEF Good
  <2>2. Len(Shard) \in Nat /\ DOMAIN Shard = 1..Len(Shard)
    BY ShardTypes DEF Good
  <2>3. Len(Shard) \in DOMAIN Shard
    BY RegisteringFacts
  <2>4. Len(Shard) \in Nat \ {0}
    BY <2>2, <2>3
  <2> QED BY <2>1, <2>4, RegisteringFacts
<1>2. /\ registered \subseteq 1..Len(Shard) /\ ShardsNeverGoBack
      /\ \A j \in DOMAIN Master : Master[j].shard <= Len(Shard)
  BY <1>1 DEF ListInv, Listed
<1>3. registered' \subseteq 1..Len(Shard) /\ Kept' \subseteq 1..Len(Shard)
  <2>1. Len(Shard) \in 1..Len(Shard)
    BY <1>1
  <2>2. registered' \subseteq 1..Len(Shard)
    BY <1>1, <1>2, <2>1
  <2> QED BY <2>2 DEF Kept
<1>4. /\ Master' = Master /\ ShardsNeverGoBack' /\ shards' <= saved'["wc"]
  BY <1>1, <1>2 DEF Master, ShardsNeverGoBack
<1> QED BY <1>1, <1>2, <1>3, <1>4 DEF Listed

LEMMA RestartListed ==
    ASSUME Good, ListInv, Restart
    PROVE  Listed'
<1>1. /\ shards' = 0 /\ registered' = registered /\ saved' = saved /\ Restoring'
      /\ log' = [c \in Chains |-> SubSeq(log[c], 1, saved[c])]
      /\ Kept' \subseteq {k \in registered : \E j \in Listing(k) : ~(j > saved["mc"])}
  BY RestartFacts DEF Good, Restoring, At, Kept
<1> DEFINE new == Master'
<1>2. /\ \A j \in DOMAIN new : j \in DOMAIN Master /\ new[j] = Master[j]
      /\ DOMAIN new = 1..saved["mc"]
  BY <1>1, ChainsAre, CutLog DEF Good, Master
<1>3. /\ registered \subseteq 1..saved["wc"] /\ saved["wc"] \in Nat
      /\ \A j \in DOMAIN Master : Master[j].shard <= saved["wc"]
      /\ \A i, j \in DOMAIN Master : i < j => Master[i].shard <= Master[j].shard
  BY ShardTypes DEF ListInv, Listed, ShardsNeverGoBack, Master, Good
<1> HIDE DEF new
<1>4. /\ \A j \in DOMAIN new : new[j].shard <= saved["wc"]
      /\ \A i, j \in DOMAIN new : i < j => new[i].shard <= new[j].shard
  BY <1>2, <1>3
<1>5. ShardsNeverGoBack'
  BY <1>4 DEF ShardsNeverGoBack, new, Master
<1>6. shards' <= saved'["wc"]
  BY <1>1, <1>3
<1>7. \A k \in Kept' : Listing(k)' # {}
  <2> SUFFICES ASSUME NEW k \in Kept' PROVE Listing(k)' # {}
    OBVIOUS
  <2>1. PICK j \in DOMAIN Master : ~(j > saved["mc"]) /\ Master[j].shard >= k
    BY <1>1 DEF Listing, Master
  <2>2. j \in Nat /\ 1 <= j /\ saved["mc"] \in Nat
    BY ShardTypes, ChainsAre DEF Good, Typed, TypeOK
  <2>3. j \in DOMAIN new
    BY <1>2, <2>1, <2>2
  <2>4. new[j].shard >= k
    BY <1>2, <2>1, <2>3
  <2> QED BY <2>3, <2>4 DEF Listing, new, Master
<1> QED BY <1>1, <1>3, <1>4, <1>5, <1>6, <1>7 DEF Listed, new

(* What a restart reads back: the last shard block that is listed.         *)
LEMMA RestoringFacts ==
    ASSUME Good, ListInv, RestoreState
    PROVE  /\ Only("run")' /\ ~Restoring' /\ Restoring
           /\ log' = log /\ saved' = saved
           /\ shards' \in Nat /\ registered' = registered /\ Kept' = Kept
           /\ \A j \in DOMAIN Master : Master[j].shard <= shards'
           /\ \A k \in Kept : k \in 1..shards' /\ Listing(k) # {}
           /\ \/ Kept = {}
              \/ Len(Master) \in DOMAIN Master /\ Master[Len(Master)].shard = shards'
<1>1. /\ Only("run")' /\ ~Restoring' /\ Restoring
      /\ log' = log /\ saved' = saved /\ registered' = registered /\ Kept' = Kept
  <2>1. /\ thread["run"].pc = "restore" /\ thread'["run"].pc \in {"config", "start"}
        /\ Moves("run")
    BY RestoreStateFacts DEF Good
  <2>2. Only("run")'
    BY <2>1, RunIsThread, ActingAlone, MovesAlone DEF Good
  <2> QED BY <2>1, <2>2, RestoreStateFacts DEF Good, Restoring, At, Kept
<1>2. /\ shards = 0 /\ shards <= saved["wc"] /\ registered \subseteq 1..saved["wc"]
      /\ \A j \in DOMAIN Master : Master[j].shard <= saved["wc"]
      /\ \A i, j \in DOMAIN Master : i < j => Master[i].shard <= Master[j].shard
  BY <1>1 DEF ListInv, Listed, ShardsNeverGoBack, Master
<1> DEFINE KeptListed == \A k \in Kept :
                       k \in Nat /\ 1 <= k /\ \E j \in DOMAIN Master : Master[j].shard >= k
<1>6. KeptListed /\ \A k \in Kept : Listing(k) # {}
  <2> SUFFICES ASSUME NEW k \in Kept
               PROVE  /\ k \in Nat /\ 1 <= k /\ Listing(k) # {}
                      /\ \E j \in DOMAIN Master : Master[j].shard >= k
    OBVIOUS
  <2>1. k \in 1..saved["wc"] /\ saved["wc"] \in Nat
    BY <1>2, ShardTypes DEF Kept, Good
  <2>2. Listing(k) # {}
    BY <1>1 DEF ListInv, Listed
  <2> QED BY <2>1, <2>2 DEF Listing, Master
<1> HIDE DEF KeptListed
<1>3. CASE log["wc"] # <<>> /\ log["mc"] # <<>>
  <2>1. /\ Len(Master) \in DOMAIN Master /\ Tip("mc") = Master[Len(Master)]
        /\ DOMAIN Master = 1..Len(Master) /\ Len(Master) \in Nat
    BY <1>3, ShardTypes, OfSeq DEF Good, Tip, Master
  <2>2. shards' = Master[Len(Master)].shard
    BY <1>3, <2>1, RestoreStateFacts DEF Good
  <2> DEFINE s == Master[Len(Master)].shard
  <2>3. s \in Nat
    BY <2>1, ShardTypes DEF Good
  <2>4. \A j \in DOMAIN Master : Master[j].shard <= s
    <3> TAKE j \in DOMAIN Master
    <3>1. CASE j = Len(Master)
      BY <2>3, <3>1
    <3>2. CASE j # Len(Master)
      <4>1. j < Len(Master)
        BY <2>1, <3>2
      <4> QED BY <1>2, <2>1, <4>1
    <3> QED BY <3>1, <3>2
  <2>5. \A k \in Kept : k \in 1..s
    <3> SUFFICES ASSUME NEW k \in Kept PROVE k \in 1..s
      OBVIOUS
    <3>1. k \in Nat /\ 1 <= k
      BY <1>6 DEF KeptListed
    <3>2. PICK j \in DOMAIN Master : Master[j].shard >= k
      BY <1>6 DEF KeptListed
    <3>3. PICK m \in Nat, n \in Nat : m = Master[j].shard /\ n = s
      BY <2>3, <3>2, ShardTypes DEF Good
    <3>4. k <= m /\ m <= n
      BY <2>4, <3>1, <3>2, <3>3
    <3> QED BY <3>1, <3>3, <3>4
  <2> QED BY <1>1, <1>6, <2>1, <2>2, <2>3, <2>4, <2>5
<1>4. CASE log["wc"] = <<>>
  <2>1. saved["wc"] = 0
    BY <1>4, ShardTypes, OfSeq DEF Good, Shard
  <2>2. registered = {} /\ \A j \in DOMAIN Master : Master[j].shard <= 0
    BY <1>2, <2>1
  <2>3. shards' = 0
    BY <1>2, <1>4, RestoreStateFacts DEF Good
  <2>4. Kept = {}
    BY <2>2 DEF Kept
  <2> QED BY <1>1, <2>2, <2>3, <2>4
<1>5. CASE log["mc"] = <<>>
  <2>1. DOMAIN Master = {}
    BY <1>5, ShardTypes, OfSeq DEF Good, Master
  <2>2. shards' = 0
    BY <1>2, <1>5, RestoreStateFacts DEF Good
  <2>3. Kept = {}
    BY <1>6, <2>1 DEF KeptListed
  <2> QED BY <1>1, <2>1, <2>2, <2>3
<1> QED BY <1>3, <1>4, <1>5

LEMMA RestoreListed ==
    ASSUME Good, ListInv, RestoreState
    PROVE  Listed'
<1> DEFINE s == shards'
<1>1. /\ ~Restoring' /\ log' = log /\ saved' = saved
      /\ s \in Nat /\ registered' = registered /\ Kept' = Kept
      /\ \A j \in DOMAIN Master : Master[j].shard <= s
      /\ \A k \in Kept : k \in 1..s /\ Listing(k) # {}
  BY RestoringFacts
<1>2. /\ registered \subseteq 1..saved["wc"] /\ saved["wc"] \in Nat
      /\ \A j \in DOMAIN Master : Master[j].shard <= saved["wc"]
      /\ shards = 0 /\ ShardsNeverGoBack
  BY RestoringFacts, ShardTypes DEF ListInv, Listed, Good
<1>3. s <= saved["wc"]
  <2>1. s = 0 \/ \E j \in DOMAIN Master : Master[j].shard = s
    <3>1. \/ log["wc"] # <<>> /\ log["mc"] # <<>> /\ s = Tip("mc").shard
          \/ s = shards
      BY RestoreStateFacts DEF Good
    <3>2. log["mc"] # <<>> => Tip("mc") = Master[Len(Master)] /\ Len(Master) \in DOMAIN Master
      BY ShardTypes, OfSeq DEF Good, Tip, Master
    <3> HIDE DEF s
    <3> QED BY <1>2, <3>1, <3>2
  <2> HIDE DEF s
  <2> QED BY <1>2, <2>1
<1> HIDE DEF s
<1>5. Master' = Master /\ ShardsNeverGoBack' /\ \A k : Listing(k)' = Listing(k)
  BY <1>1, <1>2 DEF Master, ShardsNeverGoBack, Listing
<1> QED BY <1>1, <1>2, <1>3, <1>5 DEF Listed, s

LEMMA ListAfter ==
    ASSUME NEW t \in Threads, Only(t)', ListLocal(t)', Listed', Settled'
    PROVE  ListInv'
BY DEF ListInv, ListLocal, Only, At

LEMMA WorksList ==
    ASSUME Good, ListInv, NEW t \in Threads, Works(t)
    PROVE  ListInv'
<1>1. /\ Only(t) /\ Only(t)' /\ ~Restoring /\ ~Restoring'
      /\ thread'[t].pc # "wc set"
  BY WorksAlone, NotRestoring, NotRestoringNext
<1>2. Listed'
  BY <1>1, SameListed DEF Works, ListInv
<1>3. changed' = changed /\ shards' = shards
  BY DEF Works, ChainsSame
<1>4. thread'[t].pc \in {"mc put", "config put"} => thread'[t].block.shard = shards
  <2>1. CASE Begin(t) \/ Turn(t) \/ NoShardBlock(t) \/ NextShardBlock(t) \/ MasterBlockDone(t)
    BY <2>1, BeginFacts, TurnFacts, NoShardBlockFacts, NextShardBlockFacts,
       MasterBlockDoneFacts DEF Good
  <2>2. CASE NoMasterBlock(t) \/ BuildFails(t) \/ Enters(t)
    BY <2>2, NoMasterBlockFacts, BuildFailsFacts, FailFacts DEF Good, Enters
  <2>3. CASE BuildShardBlock(t) \/ BuildMasterBlock(t) \/ (t = "run" /\ BuildConfigBlock)
    BY <2>3, BuildShardBlockFacts, BuildMasterBlockFacts, BuildConfigBlockFacts DEF Good
  <2> QED BY <2>1, <2>2, <2>3 DEF Works
<1>5. thread'[t].pc = "rest" => failed' \/ ~changed'
  <2>1. CASE Begin(t) \/ Turn(t) \/ NoShardBlock(t) \/ NextShardBlock(t) \/ MasterBlockDone(t)
    BY <2>1, BeginFacts, TurnFacts, NoShardBlockFacts, NextShardBlockFacts,
       MasterBlockDoneFacts DEF Good
  <2>2. CASE NoMasterBlock(t) \/ BuildFails(t) \/ Enters(t)
    BY <1>3, <2>2, NoMasterBlockFacts, BuildFailsFacts, FailFacts DEF Good, Enters
  <2>3. CASE BuildShardBlock(t) \/ BuildMasterBlock(t) \/ (t = "run" /\ BuildConfigBlock)
    BY <2>3, BuildShardBlockFacts, BuildMasterBlockFacts, BuildConfigBlockFacts DEF Good
  <2> QED BY <2>1, <2>2, <2>3 DEF Works
<1>6. ListLocal(t)' /\ Settled'
  BY <1>1, <1>3, <1>4, <1>5 DEF ListLocal, Settled, At
<1> QED BY <1>1, <1>2, <1>6, ListAfter

LEMMA Under ==
    ASSUME NEW a \in Nat, NEW b \in Nat, NEW n \in Nat, a <= b, b <= n
    PROVE  a < n + 1
OBVIOUS

LEMMA PutsList ==
    ASSUME Good, NumberInv, ListInv, NEW t \in Threads, PutsShard(t) \/ PutsMaster(t)
    PROVE  ListInv'
<1>1. Listed'
  BY PutsShardListed, PutsMasterListed
<1>2. /\ Only(t)' /\ shards' = shards
      /\ thread'[t].pc \in {"wc set", "mc set", "rest", "down", "start"}
      /\ thread'[t].pc = "rest" => failed'
  BY DEF PutsShard, PutsMaster, Puts
<1>3. thread'[t].pc = "wc set" => shards < thread'[t].block.seq
  <2> SUFFICES ASSUME thread'[t].pc = "wc set" PROVE shards < thread'[t].block.seq
    OBVIOUS
  <2>1. thread[t].pc = "wc put" /\ thread'[t].block = thread[t].block
    BY DEF PutsShard, PutsMaster, Puts, PutSteps
  <2>2. thread[t].block.seq = Len(Shard) + 1
    BY <2>1 DEF NumberInv, NumberLocal, At
  <2>3. shards <= saved["wc"] /\ saved["wc"] <= Len(Shard)
    BY ShardTypes DEF ListInv, Listed, Good
  <2>4. shards < Len(Shard) + 1
    <3>1. shards \in Nat /\ saved["wc"] \in Nat /\ Len(Shard) \in Nat
      BY ShardTypes DEF Good
    <3> QED BY <2>3, <3>1, Under
  <2> QED BY <2>1, <2>2, <2>4
<1>4. ListLocal(t)' /\ Settled'
  BY <1>2, <1>3 DEF ListLocal, Settled, At
<1> QED BY <1>1, <1>2, <1>4, ListAfter

LEMMA InitNumber == Init => NumberInv
<1> SUFFICES ASSUME Init PROVE NumberInv
  OBVIOUS
<1>1. \A c \in Chains : log[c] = <<>> /\ DOMAIN log[c] = {}
  BY DEF Init
<1>2. \A t \in Threads : thread[t].pc \in {"rest", "start"}
  BY DEF Init, AtRest
<1> QED BY <1>1, <1>2 DEF NumberInv, Numbered, NumberLocal, At

LEMMA InitList == Init => ListInv
<1> SUFFICES ASSUME Init PROVE ListInv
  OBVIOUS
<1>1. Master = <<>> /\ DOMAIN Master = {} /\ saved["wc"] = 0
  BY DEF Init, Master, Chains
<1>2. \A t \in Threads : thread[t].pc \in {"rest", "start"}
  BY DEF Init, AtRest
<1>3. shards = 0 /\ registered = {} /\ ~up
  BY DEF Init
<1>4. ~Restoring
  BY <1>2, RunIsThread DEF Restoring, At
<1>5. Listed
  BY <1>1, <1>3, <1>4 DEF Listed, Kept, ShardsNeverGoBack, Master
<1> QED BY <1>2, <1>3, <1>5 DEF ListInv, ListLocal, Settled, At

LEMMA ListStep == Good /\ NumberInv /\ ListInv /\ [Next]_vars => ListInv'
<1> SUFFICES ASSUME Good, NumberInv, ListInv, [Next]_vars PROVE ListInv'
  OBVIOUS
<1>1. CASE Waits
  <2>1. thread' = thread /\ ChainsSame /\ StatusSame
    BY <1>1 DEF Waits
  <2>2. Restoring' <=> Restoring
    BY <2>1 DEF Restoring, At
  <2>3. Listed'
    BY <2>1, <2>2, SameListed DEF ListInv
  <2> QED BY <2>1, <2>3 DEF ListInv, ListLocal, Settled, At, ChainsSame, StatusSame
<1>2. ASSUME NEW t \in Threads, RegisterShardBlock(t) PROVE ListInv'
  <2>1. Listed' /\ Only(t)' /\ thread'[t].pc = "wc next"
    BY <1>2, RegisterListed, RegisteringFacts, RegisterShardBlockFacts DEF Good
  <2> QED BY <2>1, ListAfter DEF ListLocal, Settled, At
<1>3. CASE Restart
  <2>1. Listed' /\ Only("run")' /\ thread'["run"].pc = "restore"
    BY <1>3, RestartListed, RestartFacts DEF Good, Only
  <2> QED BY <2>1, RunIsThread, ListAfter DEF ListLocal, Settled, At
<1>4. CASE RestoreState
  <2>1. Listed' /\ Only("run")' /\ thread'["run"].pc \in {"config", "start"}
    BY <1>4, RestoreListed, RestoringFacts, RestoreStateFacts DEF Good
  <2> QED BY <2>1, RunIsThread, ListAfter DEF ListLocal, Settled, At
<1> QED BY <1>1, <1>2, <1>3, <1>4, WorksList, PutsList, StepKinds

-----------------------------------------------------------------------------
(* The masterchain number of a shard block.                                *)

(* A registered shard block is in the chain.                               *)
LEMMA RegisteredTypes ==
    ASSUME Good, ListInv, NEW k \in registered
    PROVE  /\ k \in Nat /\ k \in DOMAIN Shard /\ k \in 1..saved["wc"]
           /\ Shard[k].mc \in Nat /\ Shard[k].epoch \in Nat /\ Shard[k].utime \in Nat
<1>1. k \in 1..saved["wc"]
  BY DEF ListInv, Listed
<1>2. k \in DOMAIN Shard /\ k \in Nat
  BY <1>1, ShardTypes DEF Good
<1>3. Shard[k] \in Block
  BY <1>2, ShardTypes DEF Good
<1> QED BY <1>1, <1>2, <1>3 DEF Block

(* A registered shard block stays where it is.                             *)
LEMMA RegisteredStay ==
    ASSUME Good, ListInv, NEW t \in Threads, PutsShard(t)
    PROVE  /\ Master' = Master /\ registered' = registered /\ Kept' = Kept
           /\ Len(Shard)' = Len(Shard) + 1 /\ (DOMAIN Shard)' = 1..Len(Shard) + 1
           /\ \A k \in DOMAIN Shard : Shard'[k] = Shard[k]
           /\ Shard'[Len(Shard) + 1] = thread[t].block
           /\ \A k \in registered : k \in DOMAIN Shard /\ k <= Len(Shard)
<1>1. /\ thread[t].block \in Block /\ registered' = registered /\ Kept' = Kept
      /\ log' = [log EXCEPT !["wc"] = Append(@, thread[t].block)]
  BY ThreadType DEF Good, PutsShard, Puts, Kept
<1>2. /\ \A k \in DOMAIN log["wc"] : log'["wc"][k] = log["wc"][k]
      /\ log'["mc"] = log["mc"]
      /\ Len(log'["wc"]) = Len(log["wc"]) + 1 /\ DOMAIN log'["wc"] = 1..Len(log["wc"]) + 1
      /\ log'["wc"][Len(log["wc"]) + 1] = thread[t].block
  BY <1>1, ChainsAre, AppendedLog DEF Good
<1>3. \A k \in registered : k \in DOMAIN Shard /\ k <= Len(Shard)
  BY RegisteredTypes, ShardTypes DEF Good
<1> QED BY <1>1, <1>2, <1>3 DEF Shard, Master

(* A masterchain block is added that lists all shard blocks kept.          *)
LEMMA ListingBlock ==
    ASSUME Good, NumberInv, ListInv, NEW t \in Threads, PutsMaster(t)
    PROVE  /\ ~Restoring /\ Shard' = Shard /\ registered' = registered /\ Kept' = Kept
           /\ Len(Master) \in Nat /\ DOMAIN Master = 1..Len(Master)
           /\ DOMAIN Master' = 1..Len(Master) + 1 /\ Len(Master)' = Len(Master) + 1
           /\ \A j \in DOMAIN Master : Master'[j] = Master[j]
           /\ Master'[Len(Master) + 1] = thread[t].block
           /\ thread[t].pc \in {"mc put", "config put"}
           /\ thread[t].block.seq = Len(Master) + 1
           /\ \A k \in Kept : ~(thread[t].block.shard < k)
<1>1. thread[t].pc \in {"mc put", "config put"} /\ thread[t].block \in Block
  BY ThreadType DEF PutsMaster, Puts, PutSteps, Good
<1>2. ~Restoring
  <2>1. Only(t)
    BY <1>1, ActingAlone DEF Good
  <2> QED BY <1>1, <2>1, NotRestoring
<1>3. /\ registered' = registered /\ Kept' = Kept
      /\ log' = [log EXCEPT !["mc"] = Append(@, thread[t].block)]
  BY DEF PutsMaster, Puts, Kept
<1>4. /\ log'["wc"] = log["wc"]
      /\ Len(log["mc"]) \in Nat /\ DOMAIN log["mc"] = 1..Len(log["mc"])
      /\ DOMAIN log'["mc"] = 1..Len(log["mc"]) + 1 /\ Len(log'["mc"]) = Len(log["mc"]) + 1
      /\ \A j \in DOMAIN log["mc"] : log'["mc"][j] = log["mc"][j]
      /\ log'["mc"][Len(log["mc"]) + 1] = thread[t].block
  BY <1>1, <1>3, ChainsAre, AppendedLog DEF Good
<1>5. thread[t].block.seq = Len(Master) + 1 /\ thread[t].block.shard = shards
  BY <1>1 DEF NumberInv, NumberLocal, ListInv, ListLocal
<1>6. \A k \in Kept : ~(shards < k)
  BY <1>2, ShardTypes DEF ListInv, Listed, Good
<1> QED BY <1>1, <1>2, <1>3, <1>4, <1>5, <1>6 DEF Shard, Master

LEMMA SameFiled ==
    ASSUME Filed, ChainsSame, Restoring' <=> Restoring
    PROVE  Filed'
BY DEF Filed, Kept, ChainsSame, Master, Shard

LEMMA PutsShardFiled ==
    ASSUME Good, ListInv, FiledInv, NEW t \in Threads, PutsShard(t)
    PROVE  Filed'
<1>1. /\ Master' = Master /\ Kept' = Kept
      /\ \A k \in Kept : Shard'[k] = Shard[k]
  BY RegisteredStay DEF Kept
<1>2. ~Restoring
  <2>1. thread[t].pc = "wc put"
    BY DEF PutsShard, Puts, PutSteps
  <2>2. Only(t)
    BY <2>1, ActingAlone DEF Good
  <2> QED BY <2>1, <2>2, NotRestoring
<1> QED BY <1>1, <1>2 DEF FiledInv, Filed

LEMMA PutsMasterFiled ==
    ASSUME Good, NumberInv, ListInv, FiledInv, NEW t \in Threads, PutsMaster(t)
    PROVE  Filed'
<1> DEFINE n == Len(Master) + 1
           new == Master'
<1>1. /\ ~Restoring /\ Shard' = Shard /\ Kept' = Kept
      /\ Len(Master) \in Nat /\ DOMAIN Master = 1..Len(Master)
      /\ DOMAIN new = 1..n /\ Len(Master)' = n
      /\ \A j \in DOMAIN Master : new[j] = Master[j]
      /\ new[n] = thread[t].block /\ thread[t].block.seq = n
      /\ thread[t].pc \in {"mc put", "config put"}
      /\ \A k \in Kept : ~(thread[t].block.shard < k)
  BY ListingBlock
<1> HIDE DEF new
<1>2. \A j \in DOMAIN new : j = n \/ (j \in DOMAIN Master /\ j < n)
  <2>1. Len(Master) \in Nat /\ DOMAIN Master = 1..Len(Master) /\ DOMAIN new = 1..n
    BY <1>1
  <2> QED BY <2>1
<1>3. thread[t].block.mc = n
  BY <1>1 DEF FiledInv, FiledLocal
<1>4. ASSUME NEW j \in DOMAIN new
      PROVE  new[j].mc = j
  <2>1. CASE j = n
    BY <2>1, <1>1, <1>3
  <2>2. CASE j \in DOMAIN Master
    <3>1. Master[j].mc = j
      BY <2>2 DEF FiledInv, Filed
    <3>2. new[j] = Master[j]
      BY <2>2, <1>1
    <3> QED BY <3>1, <3>2
  <2> QED BY <1>2, <2>1, <2>2
<1>5. ASSUME NEW k \in Kept
      PROVE  /\ Shard[k].mc # 0 /\ Shard[k].mc <= n + 1
             /\ \A j \in DOMAIN new : j < Shard[k].mc <=> new[j].shard < k
  <2>1. /\ Shard[k].mc # 0 /\ Shard[k].mc <= n /\ Shard[k].mc \in Nat
        /\ \A j \in DOMAIN Master : j < Shard[k].mc <=> Master[j].shard < k
    BY <1>1, RegisteredTypes DEF FiledInv, Filed, Kept
  <2>2. ~(n < Shard[k].mc) /\ Shard[k].mc <= n + 1
    <3>1. Len(Master) \in Nat
      BY <1>1
    <3>2. Shard[k].mc \in Nat /\ Shard[k].mc <= n
      BY <2>1
    <3> QED BY <3>1, <3>2
  <2>3. ~(new[n].shard < k)
    BY <1>1
  <2>4. ASSUME NEW j \in DOMAIN new
        PROVE  j < Shard[k].mc <=> new[j].shard < k
    <3>1. CASE j = n
      BY <3>1, <2>2, <2>3
    <3>2. CASE j \in DOMAIN Master
      <4>1. new[j] = Master[j]
        BY <3>2, <1>1
      <4> QED BY <3>2, <4>1, <2>1
    <3> QED BY <1>2, <3>1, <3>2
  <2> QED BY <2>1, <2>2, <2>4
<1> QED BY <1>1, <1>4, <1>5 DEF Filed, new

LEMMA RegisterFiled ==
    ASSUME Good, NumberInv, ListInv, FiledInv, NEW t \in Threads, RegisterShardBlock(t)
    PROVE  Filed'
<1>1. /\ ~Restoring /\ Kept' \subseteq Kept \union {Len(Shard)} /\ log' = log
      /\ thread[t].block = Shard[Len(Shard)] /\ shards < Len(Shard)
      /\ thread[t].pc = "wc set"
  BY RegisteringFacts, RegisterShardBlockFacts DEF Good
<1>2. Shard[Len(Shard)].mc = Len(Master) + 1
  BY <1>1 DEF FiledInv, FiledLocal
<1>3. /\ Len(Master) \in Nat /\ DOMAIN Master = 1..Len(Master)
      /\ shards \in Nat /\ Len(Shard) \in Nat /\ \A j \in DOMAIN Master : Master[j].shard \in Nat
  BY ShardTypes DEF Good
<1>4. \A j \in DOMAIN Master : Master[j].shard <= shards
  BY <1>1 DEF ListInv, Listed
<1>5. \A j \in DOMAIN Master : j < Len(Master) + 1 /\ Master[j].shard < Len(Shard)
  <2> TAKE j \in DOMAIN Master
  <2>1. j < Len(Master) + 1
    <3>1. Len(Master) \in Nat /\ j \in 1..Len(Master)
      BY <1>3
    <3> QED BY <3>1
  <2>2. Master[j].shard < Len(Shard)
    <3>1. /\ Master[j].shard \in Nat /\ shards \in Nat /\ Len(Shard) \in Nat
          /\ Master[j].shard <= shards /\ shards < Len(Shard)
      BY <1>1, <1>3, <1>4
    <3> QED BY <3>1
  <2> QED BY <2>1, <2>2
<1>6. Len(Master) + 1 # 0 /\ Len(Master) + 1 <= Len(Master) + 1
  BY <1>3
<1>7. Master' = Master /\ Shard' = Shard
  BY <1>1 DEF Master, Shard
<1> QED BY <1>1, <1>2, <1>5, <1>6, <1>7 DEF FiledInv, Filed

LEMMA RestartFiled ==
    ASSUME Good, ListInv, FiledInv, Restart
    PROVE  Filed'
<1>1. /\ Kept' \subseteq Kept /\ Restoring'
      /\ log' = [c \in Chains |-> SubSeq(log[c], 1, saved[c])]
  BY RestartFacts DEF Good, Restoring, At, Kept
<1> DEFINE new == Master'
<1>2. /\ \A j \in DOMAIN new : j \in DOMAIN Master /\ new[j] = Master[j]
      /\ \A k \in 1..saved["wc"] : Shard'[k] = Shard[k]
  BY <1>1, ChainsAre, CutLog DEF Good, Master, Shard
<1>3. \A k \in Kept : Shard'[k] = Shard[k]
  BY <1>2, RegisteredTypes DEF Kept
<1> HIDE DEF new
<1> QED BY <1>1, <1>2, <1>3 DEF FiledInv, Filed, new

LEMMA RestoreFiled ==
    ASSUME Good, ListInv, FiledInv, RestoreState
    PROVE  Filed'
<1> DEFINE s == shards'
<1>1. /\ log' = log /\ s \in Nat /\ Kept' = Kept
      /\ \A k \in Kept : k \in 1..s
      /\ Kept = {} \/ (Len(Master) \in DOMAIN Master /\ Master[Len(Master)].shard = s)
  BY RestoringFacts
<1> HIDE DEF s
<1>2. Master' = Master /\ Shard' = Shard
  BY <1>1 DEF Master, Shard
<1>3. ASSUME NEW k \in Kept PROVE Shard[k].mc <= Len(Master) + 1
  <2>1. /\ k \in registered /\ k <= s
        /\ Len(Master) \in DOMAIN Master /\ Master[Len(Master)].shard = s
    BY <1>1 DEF Kept
  <2>2. k \in Nat /\ Shard[k].mc \in Nat /\ Len(Master) \in Nat
    BY <2>1, RegisteredTypes, ShardTypes DEF Good
  <2>3. ~(Master[Len(Master)].shard < k)
    BY <1>1, <2>1, <2>2
  <2>4. ~(Len(Master) < Shard[k].mc)
    BY <2>1, <2>3 DEF FiledInv, Filed
  <2> QED BY <2>1, <2>2, <2>4
<1> QED BY <1>1, <1>2, <1>3 DEF FiledInv, Filed

(* All threads at rest but t: the invariant is about the locals of t.      *)
LEMMA FiledAfter ==
    ASSUME NEW t \in Threads, Only(t)', FiledLocal(t)', Filed'
    PROVE  FiledInv'
BY DEF FiledInv, FiledLocal, Only

(* A thread that has read no masterchain number.                           *)
LEMMA NoNumberRead ==
    ASSUME NEW t, thread'[t].pc \notin {"wc", "wc put", "wc set", "wc next", "mc", "mc put",
                                        "config put"}
    PROVE  FiledLocal(t)'
BY DEF FiledLocal, Master

LEMMA WorksFiled ==
    ASSUME Good, NumberInv, FiledInv, NEW t \in Threads, Works(t)
    PROVE  FiledInv'
<1>1. /\ Only(t) /\ Only(t)' /\ ~Restoring /\ ~Restoring'
      /\ ChainsSame /\ log' = log /\ Master' = Master
  BY WorksAlone, NotRestoring, NotRestoringNext DEF Works, ChainsSame, Master
<1>2. Filed'
  BY <1>1, SameFiled DEF FiledInv
<1>3. NextSeqNo("mc") = Len(Master) + 1
  BY ChainsAre, NextIsLength DEF Good, NumberInv, Master
<1>4. FiledLocal(t)
  BY DEF FiledInv
<1>5. FiledLocal(t)'
  <2>1. CASE Begin(t) \/ MasterBlockDone(t) \/ NoMasterBlock(t) \/ BuildFails(t) \/ Enters(t)
    BY <2>1, NoNumberRead, BeginFacts, MasterBlockDoneFacts, NoMasterBlockFacts, BuildFailsFacts,
       FailFacts DEF Good, Enters
  <2>2. CASE Turn(t)
    <3>1. thread'[t].pc = "wc" /\ thread'[t].mcSeqNo = Len(Master) + 1
      BY <1>3, <2>2, TurnFacts DEF Good
    <3> QED BY <1>1, <3>1 DEF FiledLocal
  <2>3. CASE NoShardBlock(t) \/ NextShardBlock(t)
    <3>1. /\ thread[t].pc \in {"wc", "wc next"} /\ thread'[t].pc \in {"wc", "mc"}
          /\ thread'[t].mcSeqNo = thread[t].mcSeqNo
      BY <2>3, NoShardBlockFacts, NextShardBlockFacts DEF Good
    <3> QED BY <1>1, <1>4, <3>1 DEF FiledLocal
  <2>4. CASE BuildShardBlock(t)
    <3>1. /\ thread[t].pc = "wc" /\ thread'[t].pc = "wc put"
          /\ thread'[t].mcSeqNo = thread[t].mcSeqNo
          /\ thread'[t].block.mc = thread[t].mcSeqNo
      BY <2>4, BuildShardBlockFacts DEF Good
    <3> QED BY <1>1, <1>4, <3>1 DEF FiledLocal
  <2>5. CASE BuildMasterBlock(t)
    <3>1. /\ thread[t].pc = "mc" /\ thread'[t].pc = "mc put"
          /\ thread'[t].mcSeqNo = thread[t].mcSeqNo
          /\ thread'[t].block.mc = thread[t].mcSeqNo
          /\ thread'[t].block.seq = Len(Master) + 1
      BY <1>3, <2>5, BuildMasterBlockFacts DEF Good
    <3> QED BY <1>1, <1>4, <3>1 DEF FiledLocal
  <2>6. CASE t = "run" /\ BuildConfigBlock
    <3>1. /\ thread'[t].pc = "config put"
          /\ thread'[t].block.mc = thread'[t].block.seq
      BY <2>6, BuildConfigBlockFacts DEF Good
    <3> QED BY <3>1 DEF FiledLocal
  <2> QED BY <2>1, <2>2, <2>3, <2>4, <2>5, <2>6 DEF Works
<1> QED BY <1>1, <1>2, <1>5, FiledAfter

LEMMA PutsFiled ==
    ASSUME Good, NumberInv, ListInv, FiledInv, NEW t \in Threads, PutsShard(t) \/ PutsMaster(t)
    PROVE  FiledInv'
<1>1. Filed'
  BY PutsShardFiled, PutsMasterFiled
<1>2. Only(t)' /\ thread'[t].pc \in {"wc set", "mc set", "rest", "down", "start"}
  BY DEF PutsShard, PutsMaster, Puts
<1>3. FiledLocal(t)'
  <2>1. CASE thread'[t].pc # "wc set"
    BY <1>2, <2>1, NoNumberRead
  <2>2. CASE thread'[t].pc = "wc set"
    <3>1. /\ PutsShard(t) /\ thread[t].pc = "wc put"
          /\ thread'[t].mcSeqNo = thread[t].mcSeqNo /\ thread'[t].block = thread[t].block
      BY <2>2 DEF PutsShard, PutsMaster, Puts, PutSteps
    <3>2. Master' = Master
      BY <3>1, RegisteredStay
    <3>3. FiledLocal(t)
      BY DEF FiledInv
    <3> QED BY <2>2, <3>1, <3>2, <3>3 DEF FiledLocal
  <2> QED BY <2>1, <2>2
<1> QED BY <1>1, <1>2, <1>3, FiledAfter

LEMMA InitFiled == Init => FiledInv
<1> SUFFICES ASSUME Init PROVE FiledInv
  OBVIOUS
<1>1. DOMAIN Master = {} /\ registered = {}
  BY DEF Init, Master, Chains
<1>2. \A t \in Threads : thread[t].pc \in {"rest", "start"}
  BY DEF Init, AtRest
<1> QED BY <1>1, <1>2 DEF FiledInv, Filed, FiledLocal, Kept

LEMMA FiledStep ==
    Good /\ NumberInv /\ ListInv /\ FiledInv /\ [Next]_vars => FiledInv'
<1> SUFFICES ASSUME Good, NumberInv, ListInv, FiledInv, [Next]_vars PROVE FiledInv'
  OBVIOUS
<1>1. CASE Waits
  <2>1. thread' = thread /\ ChainsSame /\ Master' = Master
    BY <1>1 DEF Waits, ChainsSame, Master
  <2>2. Restoring' <=> Restoring
    BY <2>1 DEF Restoring, At
  <2>3. Filed'
    BY <2>1, <2>2, SameFiled DEF FiledInv
  <2> QED BY <2>1, <2>3 DEF FiledInv, FiledLocal
<1>2. ASSUME NEW t \in Threads, RegisterShardBlock(t) PROVE FiledInv'
  <2>1. Filed' /\ Only(t)'
    BY <1>2, RegisterFiled, RegisteringFacts
  <2>2. /\ thread[t].pc = "wc set" /\ thread'[t].pc = "wc next"
        /\ thread'[t].mcSeqNo = thread[t].mcSeqNo /\ Master' = Master
    BY <1>2, RegisterShardBlockFacts DEF Good, Master
  <2>3. FiledLocal(t)
    BY DEF FiledInv
  <2>4. FiledLocal(t)'
    BY <2>2, <2>3 DEF FiledLocal
  <2> QED BY <2>1, <2>4, FiledAfter
<1>3. CASE Restart
  <2>1. Filed' /\ Only("run")' /\ thread'["run"].pc = "restore"
    BY <1>3, RestartFiled, RestartFacts DEF Good, Only
  <2> QED BY <2>1, RunIsThread, NoNumberRead, FiledAfter
<1>4. CASE RestoreState
  <2>1. Filed' /\ Only("run")' /\ thread'["run"].pc \in {"config", "start"}
    BY <1>4, RestoreFiled, RestoringFacts, RestoreStateFacts DEF Good
  <2> QED BY <2>1, RunIsThread, NoNumberRead, FiledAfter
<1> QED BY <1>1, <1>2, <1>3, <1>4, WorksFiled, PutsFiled, StepKinds

-----------------------------------------------------------------------------
(* Times.                                                                  *)

LEMMA BlockTypes ==
    ASSUME NEW l \in [Chains -> Seq(Block)], NEW c \in Chains, NEW i \in DOMAIN l[c]
    PROVE  l[c][i] \in Block /\ l[c][i].epoch \in Nat /\ l[c][i].utime \in Nat
<1>1. l[c] \in Seq(Block)
  OBVIOUS
<1>2. l[c][i] \in Block
  BY <1>1, OfSeq
<1> QED BY <1>2 DEF Block

LEMMA DatedFurther ==
    ASSUME NEW l \in [Chains -> Seq(Block)], NEW e \in Nat, NEW x \in Nat, NEW f \in Nat,
           NEW y \in Nat, DatedIn(l, e, x), e <= f, e = f => x <= y
    PROVE  DatedIn(l, f, y)
<1> SUFFICES ASSUME NEW c \in Chains, NEW i \in DOMAIN l[c]
             PROVE  l[c][i].epoch <= f /\ (l[c][i].epoch = f => l[c][i].utime <= y)
  BY DEF DatedIn
<1>1. PICK a \in Nat, u \in Nat : a = l[c][i].epoch /\ u = l[c][i].utime
  BY BlockTypes
<1>2. a <= e /\ (a = e => u <= x)
  BY <1>1 DEF DatedIn
<1>3. a <= f /\ (a = f => u <= y)
  BY <1>1, <1>2
<1> QED BY <1>1, <1>3

LEMMA OlderDated ==
    ASSUME NEW l \in [Chains -> Seq(Block)], NEW e \in Nat, OlderIn(l, e), NEW x
    PROVE  DatedIn(l, e, x)
<1> SUFFICES ASSUME NEW c \in Chains, NEW i \in DOMAIN l[c]
             PROVE  l[c][i].epoch <= e /\ l[c][i].epoch # e
  BY DEF DatedIn
<1>1. l[c][i].epoch \in Nat /\ l[c][i].epoch < e
  BY BlockTypes DEF OlderIn
<1> QED BY <1>1

LEMMA DatedOlder ==
    ASSUME NEW l \in [Chains -> Seq(Block)], NEW e \in Nat, NEW x, DatedIn(l, e, x),
           NEW f \in Nat, e < f
    PROVE  OlderIn(l, f)
<1> SUFFICES ASSUME NEW c \in Chains, NEW i \in DOMAIN l[c]
             PROVE  l[c][i].epoch < f
  BY DEF OlderIn
<1>1. l[c][i].epoch \in Nat /\ l[c][i].epoch <= e
  BY BlockTypes DEF DatedIn
<1> QED BY <1>1

LEMMA OlderFurther ==
    ASSUME NEW l \in [Chains -> Seq(Block)], NEW e \in Nat, OlderIn(l, e), NEW f \in Nat, e <= f
    PROVE  OlderIn(l, f)
<1> SUFFICES ASSUME NEW c \in Chains, NEW i \in DOMAIN l[c]
             PROVE  l[c][i].epoch < f
  BY DEF OlderIn
<1>1. l[c][i].epoch \in Nat /\ l[c][i].epoch < e
  BY BlockTypes DEF OlderIn
<1> QED BY <1>1

(* The log has grown by block b of chain c.                                *)
LEMMA DatedPut ==
    ASSUME Typed, NEW c \in Chains, NEW b \in Block, log' = [log EXCEPT ![c] = Append(@, b)],
           NEW e, NEW x, DatedIn(log, e, x),
           b.epoch <= e, b.epoch = e => b.utime <= x
    PROVE  DatedIn(log', e, x)
<1>1. /\ \A d \in Chains \ {c} : log'[d] = log[d]
      /\ Len(log[c]) \in Nat /\ DOMAIN log[c] = 1..Len(log[c])
      /\ DOMAIN log'[c] = 1..Len(log[c]) + 1
      /\ \A i \in DOMAIN log[c] : log'[c][i] = log[c][i]
      /\ log'[c][Len(log[c]) + 1] = b
  BY AppendedLog
<1>2. \A i \in DOMAIN log'[c] : i = Len(log[c]) + 1 \/ i \in DOMAIN log[c]
  BY <1>1
<1> QED BY <1>1, <1>2 DEF DatedIn

(* The log has been cut by a restart.                                      *)
LEMMA DatedCut ==
    ASSUME Typed, log' = [c \in Chains |-> SubSeq(log[c], 1, saved[c])],
           NEW e, NEW x, DatedIn(log, e, x)
    PROVE  DatedIn(log', e, x)
<1> SUFFICES ASSUME NEW c \in Chains, NEW i \in DOMAIN log'[c]
             PROVE  /\ log'[c][i].epoch <= e
                    /\ log'[c][i].epoch = e => log'[c][i].utime <= x
  BY DEF DatedIn
<1>1. i \in DOMAIN log[c] /\ log'[c][i] = log[c][i]
  BY CutLog
<1> QED BY <1>1 DEF DatedIn

(* set_last: the time that is given next is not before the time set.       *)
LEMMA SetLast ==
    ASSUME Typed, NEW g \in Nat, ClockSame, lastTime' = TimeLessDelta(g)
    PROVE  /\ g <= NextTime => g <= NextTime'
           /\ mode = "Seq" => g < NextTime'
<1>1. now' = now /\ delta' = delta /\ mode' = mode /\ mode \in {"System", "Seq"}
  BY DEF ClockSame, Typed, TypeOK, Modes
<1>2. PICK s \in Nat : s = TimeLessDelta(g) /\ s + delta >= g
  BY TimeLessDeltaType
<1>3. delta \in Nat
  BY DEF Typed, TypeOK
<1>4. CASE mode = "System"
  <2>1. NextTime' = NextTime
    BY <1>1, <1>4 DEF NextTime
  <2> QED BY <1>4, <2>1
<1>5. CASE mode = "Seq"
  <2>1. NextTime' = s + 1 + delta
    BY <1>1, <1>2, <1>5 DEF NextTime
  <2>2. g < s + 1 + delta /\ g <= s + 1 + delta
    <3>1. s + delta >= g
      BY <1>2
    <3> QED BY <1>2, <1>3, <3>1
  <2> QED BY <2>1, <2>2
<1> QED BY <1>1, <1>4, <1>5

LEMMA SameTime == ASSUME ClockSame, lastTime' = lastTime PROVE NextTime' = NextTime
BY DEF ClockSame, NextTime

(* The state's types that the times need.                                  *)
TimesTyped ==
    /\ log \in [Chains -> Seq(Block)] /\ epoch \in Nat /\ NextTime \in Nat
    /\ \A t \in Threads : thread[t].epoch \in Nat /\ thread[t].genTime \in Nat

LEMMA TimeTypes == Typed => TimesTyped
BY NextTimeType, ThreadType DEF Typed, TypeOK, TimesTyped

LEMMA TimeTypesNext == Typed' => TimesTyped'
BY TimeTypes, PTL

(* A candidate is dated after all blocks of its epoch.                     *)
LEMMA CandidateTime ==
    ASSUME TimeInv, NEW t \in Threads, NEW c \in Chains, thread[t].pc \in PutSteps(c)
    PROVE  /\ thread[t].block.utime = thread[t].genTime
           /\ thread[t].block.epoch = thread[t].epoch
           /\ Timed(t)
<1>1. thread[t].pc \in {"wc put", "mc put", "config put"}
  BY DEF PutSteps, Chains
<1> QED BY <1>1 DEF TimeInv, DatedLocal

LEMMA PutsTimes ==
    ASSUME Good, NumberInv, ListInv, TimeInv, NEW t \in Threads, NEW c \in Chains, Puts(t, c)
    PROVE  TimeNeverGoesBack'
<1> DEFINE b == thread[t].block
           n == Len(log[c]) + 1
<1>1. /\ b \in Block /\ log' = [log EXCEPT ![c] = Append(@, b)]
      /\ thread[t].pc \in PutSteps(c)
  BY ThreadType DEF Puts, Good
<1>2. b.seq = n /\ DatedIn(log, b.epoch, b.utime)
  BY <1>1, CandidateNumber, CandidateTime DEF Timed
<1> HIDE DEF b
<1>3. /\ \A d \in Chains \ {c} : log'[d] = log[d]
      /\ Len(log[c]) \in Nat /\ DOMAIN log[c] = 1..Len(log[c]) /\ DOMAIN log'[c] = 1..n
      /\ \A i \in DOMAIN log[c] : log'[c][i] = log[c][i]
      /\ log'[c][n] = b
  BY <1>1, AppendedLog DEF Good
<1>4. \A i \in DOMAIN log'[c] : i = n \/ (i \in DOMAIN log[c] /\ i < n)
  <2>1. Len(log[c]) \in Nat /\ DOMAIN log[c] = 1..Len(log[c]) /\ DOMAIN log'[c] = 1..n
    BY <1>3
  <2> QED BY <2>1
<1>5. \A d \in Chains : \A i \in DOMAIN log[d] :
         log[d][i].epoch = b.epoch => log[d][i].utime <= b.utime
  BY <1>2 DEF DatedIn
<1>6. ASSUME NEW d \in Chains, NEW i \in DOMAIN log'[d], NEW j \in DOMAIN log'[d], i < j,
             log'[d][i].epoch = log'[d][j].epoch
      PROVE  log'[d][i].utime <= log'[d][j].utime
  <2>1. CASE d # c
    <3>1. log'[d] = log[d]
      BY <1>3, <2>1
    <3> QED BY <1>6, <3>1 DEF TimeInv, TimeNeverGoesBack
  <2>2. CASE d = c
    <3>1. i \in DOMAIN log[c] /\ log'[c][i] = log[c][i]
      <4>1. i # n
        <5>1. j <= n /\ i \in Nat /\ j \in Nat /\ n \in Nat
          BY <1>3, <2>2
        <5> QED BY <1>6, <5>1
      <4> QED BY <1>3, <1>4, <2>2, <4>1
    <3>2. CASE j = n
      BY <1>3, <1>5, <1>6, <2>2, <3>1, <3>2
    <3>3. CASE j # n
      <4>1. j \in DOMAIN log[c] /\ log'[c][j] = log[c][j]
        BY <1>3, <1>4, <2>2, <3>3
      <4> QED BY <1>6, <2>2, <3>1, <4>1 DEF TimeInv, TimeNeverGoesBack
    <3> QED BY <3>2, <3>3
  <2> QED BY <2>1, <2>2
<1>7. ASSUME NEW i \in DOMAIN log'["wc"], NEW j \in DOMAIN log'["mc"],
             log'["wc"][i].seq <= log'["mc"][j].shard,
             log'["wc"][i].epoch = log'["mc"][j].epoch
      PROVE  log'["wc"][i].utime <= log'["mc"][j].utime
  <2>1. CASE i \in DOMAIN log["wc"] /\ log'["wc"][i] = log["wc"][i]
    <3>1. CASE j \in DOMAIN log["mc"] /\ log'["mc"][j] = log["mc"][j]
      BY <1>7, <2>1, <3>1 DEF TimeInv, TimeNeverGoesBack
    <3>2. CASE log'["mc"][j] = b
      BY <1>5, <1>7, <2>1, <3>2, ChainsAre
    <3>3. \/ j \in DOMAIN log["mc"] /\ log'["mc"][j] = log["mc"][j]
          \/ log'["mc"][j] = b
      BY <1>3, <1>4, ChainsAre
    <3> QED BY <3>1, <3>2, <3>3
  <2>2. CASE c = "wc" /\ i = n
    <3>1. log'["mc"] = log["mc"] /\ log'["wc"][i].seq = n
      BY <1>2, <1>3, <2>2, ChainsAre
    <3>2. /\ Master[j].shard <= saved["wc"] /\ saved["wc"] <= Len(log["wc"])
          /\ Master[j].shard \in Nat /\ saved["wc"] \in Nat /\ Len(log["wc"]) \in Nat
      BY <3>1, ShardTypes DEF ListInv, Listed, Good, Shard, Master
    <3>3. Master[j].shard < Len(log["wc"]) + 1
      BY <3>2, Under
    <3>4. Len(log["wc"]) + 1 <= Master[j].shard
      BY <1>7, <2>2, <3>1 DEF Master
    <3> QED BY <3>2, <3>3, <3>4
  <2>3. \/ i \in DOMAIN log["wc"] /\ log'["wc"][i] = log["wc"][i]
        \/ c = "wc" /\ i = n
    BY <1>3, <1>4, ChainsAre
  <2> QED BY <2>1, <2>2, <2>3
<1> QED BY <1>6, <1>7 DEF TimeNeverGoesBack

LEMMA RestartTimes ==
    ASSUME Good, TimeInv, Restart
    PROVE  TimeNeverGoesBack'
<1>1. log' = [c \in Chains |-> SubSeq(log[c], 1, saved[c])]
  BY RestartFacts DEF Good
<1>2. \A c \in Chains : \A i \in DOMAIN log'[c] : i \in DOMAIN log[c] /\ log'[c][i] = log[c][i]
  BY <1>1, CutLog DEF Good
<1>3. /\ \A i \in DOMAIN log'["wc"] : i \in DOMAIN log["wc"] /\ log'["wc"][i] = log["wc"][i]
      /\ \A j \in DOMAIN log'["mc"] : j \in DOMAIN log["mc"] /\ log'["mc"][j] = log["mc"][j]
  BY <1>2, ChainsAre
<1>4. /\ \A c \in Chains : \A i, j \in DOMAIN log'[c] :
           i < j /\ log'[c][i].epoch = log'[c][j].epoch => log'[c][i].utime <= log'[c][j].utime
  BY <1>2 DEF TimeInv, TimeNeverGoesBack
<1>5. \A i \in DOMAIN log'["wc"], j \in DOMAIN log'["mc"] :
         /\ log'["wc"][i].seq <= log'["mc"][j].shard
         /\ log'["wc"][i].epoch = log'["mc"][j].epoch
         => log'["wc"][i].utime <= log'["mc"][j].utime
  BY <1>3 DEF TimeInv, TimeNeverGoesBack
<1> QED BY <1>4, <1>5 DEF TimeNeverGoesBack

(* A thread's time stays good: the clock is where it was, or was set to    *)
(* that very time.                                                         *)
LEMMA TimedStays ==
    ASSUME Typed, Typed', NEW t \in Threads, Timed(t), ClockSame,
           thread'[t].genTime = thread[t].genTime, thread'[t].epoch = thread[t].epoch,
           lastTime' = lastTime \/ lastTime' = TimeLessDelta(thread[t].genTime),
           DatedIn(log', thread[t].epoch, thread[t].genTime)
    PROVE  Timed(t)'
<1>1. PICK g \in Nat : g = thread[t].genTime
  BY TimeTypes DEF TimesTyped
<1>2. g <= NextTime => g <= NextTime'
  <2>1. CASE lastTime' = lastTime
    BY <2>1, SameTime
  <2>2. CASE lastTime' = TimeLessDelta(thread[t].genTime)
    BY <1>1, <2>2, SetLast
  <2> QED BY <2>1, <2>2
<1>3. epoch' = epoch
  BY DEF ClockSame
<1> QED BY <1>1, <1>2, <1>3 DEF Timed

(* A thread reads the time.                                                *)
LEMMA TimedRead ==
    ASSUME Typed, Typed', NEW t \in Threads, Dated, ClockSame, lastTime' = lastTime, log' = log,
           thread'[t].genTime = NextTime, thread'[t].epoch = epoch
    PROVE  Timed(t)'
<1>1. NextTime' = NextTime /\ epoch' = epoch
  BY SameTime DEF ClockSame
<1>2. PICK n \in Nat, e \in Nat : n = NextTime /\ e = epoch
  BY TimeTypes DEF TimesTyped
<1>3. n <= n /\ e <= e
  OBVIOUS
<1> QED BY <1>1, <1>2, <1>3 DEF Timed, Dated

LEMMA DatedAfterTimed ==
    ASSUME Typed', NEW t \in Threads, Timed(t)'
    PROVE  Dated'
<1>1. PICK l \in [Chains -> Seq(Block)], e \in Nat, x \in Nat, f \in Nat, y \in Nat :
         l = log' /\ e = thread'[t].epoch /\ x = thread'[t].genTime /\ f = epoch' /\ y = NextTime'
  BY TimeTypesNext DEF TimesTyped
<1>2. DatedIn(l, e, x) /\ e <= f /\ (e = f => x <= y)
  BY <1>1 DEF Timed
<1>3. DatedIn(l, f, y)
  BY <1>2, DatedFurther
<1> QED BY <1>1, <1>3 DEF Dated

LEMMA DatedSame ==
    ASSUME Dated, ClockSame, lastTime' = lastTime, log' = log
    PROVE  Dated'
<1>1. NextTime' = NextTime /\ epoch' = epoch
  BY SameTime DEF ClockSame
<1> QED BY <1>1 DEF Dated

(* All threads at rest but t: the invariant is about the locals of t.      *)
LEMMA TimeAfter ==
    ASSUME NEW t \in Threads, Only(t)', DatedLocal(t)', Dated', TimeNeverGoesBack'
    PROVE  TimeInv'
BY DEF TimeInv, DatedLocal, Only

(* A thread that has no time.                                              *)
LEMMA NoTime ==
    ASSUME NEW t, thread'[t].pc \in {"rest", "start", "down"}
    PROVE  DatedLocal(t)'
BY DEF DatedLocal

LEMMA WorksTime ==
    ASSUME Good, Typed', TimeInv, NEW t \in Threads, Works(t)
    PROVE  TimeInv'
<1>1. Only(t)' /\ log' = log
  BY WorksAlone DEF Works, ChainsSame
<1>2. TimeNeverGoesBack'
  BY <1>1 DEF TimeInv, TimeNeverGoesBack
<1>3. Typed /\ Dated /\ DatedLocal(t)
  BY DEF TimeInv, Good
<1>4. CASE Begin(t) \/ NextShardBlock(t)
  <2>1. /\ ClockSame /\ lastTime' = lastTime /\ thread'[t].pc \in {"turn", "wc"}
        /\ thread'[t].genTime = NextTime /\ thread'[t].epoch = epoch
    BY <1>3, <1>4, BeginFacts, NextShardBlockFacts
  <2>2. Timed(t)'
    BY <1>1, <1>3, <2>1, TimedRead
  <2>3. DatedLocal(t)'
    BY <2>1, <2>2 DEF DatedLocal
  <2> QED BY <1>1, <1>2, <1>3, <2>1, <2>3, DatedSame, TimeAfter
<1>5. ASSUME thread[t].pc \in {"turn", "wc", "mc", "mc set"}, ClockSame,
             thread'[t].genTime = thread[t].genTime, thread'[t].epoch = thread[t].epoch,
             lastTime' = lastTime \/ lastTime' = TimeLessDelta(thread[t].genTime)
      PROVE  Timed(t)' /\ Dated'
  <2>1. Timed(t)
    BY <1>3, <1>5 DEF DatedLocal
  <2>2. Timed(t)'
    BY <1>1, <1>3, <1>5, <2>1, TimedStays DEF Timed
  <2> QED BY <2>2, DatedAfterTimed
<1>6. CASE Turn(t) \/ NoShardBlock(t) \/ MasterBlockDone(t)
  <2>1. /\ thread[t].pc \in {"turn", "wc", "mc set"} /\ ClockSame
        /\ thread'[t].genTime = thread[t].genTime /\ thread'[t].epoch = thread[t].epoch
        /\ lastTime' = lastTime \/ lastTime' = TimeLessDelta(thread[t].genTime)
        /\ thread'[t].pc \in {"turn", "wc", "mc"}
    BY <1>3, <1>6, TurnFacts, NoShardBlockFacts, MasterBlockDoneFacts
  <2>2. Timed(t)' /\ Dated'
    BY <1>5, <2>1
  <2>3. DatedLocal(t)'
    BY <2>1, <2>2 DEF DatedLocal
  <2> QED BY <1>1, <1>2, <2>2, <2>3, TimeAfter
<1>7. CASE BuildShardBlock(t) \/ BuildMasterBlock(t)
  <2>1. /\ thread[t].pc \in {"wc", "mc"} /\ ClockSame
        /\ thread'[t].genTime = thread[t].genTime /\ thread'[t].epoch = thread[t].epoch
        /\ lastTime' = lastTime
        /\ thread'[t].pc \in {"wc put", "mc put"}
        /\ thread'[t].block.utime = thread[t].genTime
        /\ thread'[t].block.epoch = thread[t].epoch
    BY <1>3, <1>7, BuildShardBlockFacts, BuildMasterBlockFacts
  <2>2. Timed(t)' /\ Dated'
    BY <1>5, <2>1
  <2>3. DatedLocal(t)'
    BY <2>1, <2>2 DEF DatedLocal
  <2> QED BY <1>1, <1>2, <2>2, <2>3, TimeAfter
<1>8. CASE NoMasterBlock(t) \/ BuildFails(t) \/ Enters(t)
  <2>1. ClockSame /\ lastTime' = lastTime
    BY <1>3, <1>8, NoMasterBlockFacts, BuildFailsFacts, FailFacts DEF Enters
  <2>2. \/ thread'[t].pc \in {"rest", "start", "down"}
        \/ /\ thread[t].pc = "mc" /\ thread'[t].pc = "turn"
           /\ thread'[t].genTime = thread[t].genTime /\ thread'[t].epoch = thread[t].epoch
    BY <1>3, <1>8, NoMasterBlockFacts, BuildFailsFacts, FailFacts DEF Enters
  <2>3. DatedLocal(t)'
    <3>1. CASE thread'[t].pc \in {"rest", "start", "down"}
      BY <3>1, NoTime
    <3>2. CASE thread'[t].pc \notin {"rest", "start", "down"}
      <4>1. Timed(t)' /\ thread'[t].pc = "turn"
        BY <1>5, <2>1, <2>2, <3>2
      <4> QED BY <4>1 DEF DatedLocal
    <3> QED BY <3>1, <3>2
  <2> QED BY <1>1, <1>2, <1>3, <2>1, <2>3, DatedSame, TimeAfter
<1>9. CASE t = "run" /\ BuildConfigBlock
  <2>1. /\ ClockSame /\ lastTime' = lastTime /\ thread[t].pc = "config"
        /\ thread'[t].pc = "config put"
        /\ thread'[t].genTime = thread[t].genTime /\ thread'[t].epoch = thread[t].epoch
        /\ thread'[t].block.utime = 0 /\ thread'[t].block.epoch = thread[t].epoch
    BY <1>3, <1>9, BuildConfigBlockFacts
  <2>2. Timed(t) /\ thread[t].genTime = 0 /\ OlderIn(log, epoch)
    BY <1>3, <2>1 DEF DatedLocal
  <2>3. Timed(t)'
    BY <1>1, <1>3, <2>1, <2>2, TimedStays DEF Timed
  <2>4. epoch' = epoch
    BY <2>1 DEF ClockSame
  <2>5. DatedLocal(t)'
    BY <1>1, <2>1, <2>2, <2>3, <2>4 DEF DatedLocal
  <2> QED BY <1>1, <1>2, <1>3, <2>1, <2>5, DatedSame, TimeAfter
<1> QED BY <1>4, <1>6, <1>7, <1>8, <1>9 DEF Works

LEMMA PutsDated ==
    ASSUME Good, TimeInv, NEW t \in Threads, NEW c \in Chains, Puts(t, c)
    PROVE  DatedIn(log', thread[t].epoch, thread[t].genTime) /\ Dated'
<1>1. /\ thread[t].block \in Block /\ thread[t].pc \in PutSteps(c)
      /\ log' = [log EXCEPT ![c] = Append(@, thread[t].block)]
      /\ ClockSame /\ lastTime' = lastTime
  BY ThreadType DEF Puts, Good
<1>2. PICK b \in Block : b = thread[t].block
  BY <1>1
<1>3. PICK p \in Nat, g \in Nat, e \in Nat, n \in Nat :
         p = thread[t].epoch /\ g = thread[t].genTime /\ e = epoch /\ n = NextTime
  BY TimeTypes DEF TimesTyped, Good
<1>4. /\ b.epoch = p /\ b.utime = g /\ DatedIn(log, p, g)
      /\ p <= e /\ (p = e => g <= n)
  BY <1>1, <1>2, <1>3, CandidateTime DEF Timed
<1>5. log' = [log EXCEPT ![c] = Append(@, b)]
  BY <1>1, <1>2
<1>6. b.epoch <= p /\ b.utime <= g
  BY <1>3, <1>4
<1>7. DatedIn(log', p, g)
  BY <1>4, <1>5, <1>6, DatedPut DEF Good
<1>8. DatedIn(log, e, n)
  BY <1>3 DEF TimeInv, Dated
<1>9. DatedIn(log', e, n)
  BY <1>4, <1>5, <1>8, DatedPut DEF Good
<1>10. NextTime' = NextTime /\ epoch' = epoch
  BY <1>1, SameTime DEF ClockSame
<1> QED BY <1>3, <1>7, <1>9, <1>10 DEF Dated

LEMMA PutsTime ==
    ASSUME Good, Typed', NumberInv, ListInv, TimeInv, NEW t \in Threads,
           PutsShard(t) \/ PutsMaster(t)
    PROVE  TimeInv'
<1>1. PICK c \in Chains : Puts(t, c)
  BY ChainsAre DEF PutsShard, PutsMaster
<1>2. /\ Only(t)' /\ ClockSame /\ lastTime' = lastTime
      /\ thread'[t].pc \in {"wc set", "mc set", "rest", "down", "start"}
      /\ thread[t].pc \in PutSteps(c)
  BY <1>1 DEF Puts
<1>3. DatedIn(log', thread[t].epoch, thread[t].genTime) /\ Dated' /\ TimeNeverGoesBack'
  BY <1>1, PutsDated, PutsTimes
<1>4. DatedLocal(t)'
  <2>1. CASE thread'[t].pc \in {"wc set", "mc set"}
    <3>1. /\ thread'[t].genTime = thread[t].genTime /\ thread'[t].epoch = thread[t].epoch
          /\ thread'[t].pc = "wc set" => thread'[t].block = thread[t].block
      BY <2>1 DEF PutsShard, PutsMaster
    <3>2. /\ thread[t].block.utime = thread[t].genTime
          /\ thread[t].block.epoch = thread[t].epoch /\ Timed(t)
      BY <1>2, CandidateTime
    <3>3. Timed(t)'
      BY <1>2, <1>3, <3>1, <3>2, TimedStays DEF Timed, Good
    <3> QED BY <2>1, <3>1, <3>2, <3>3 DEF DatedLocal
  <2>2. CASE thread'[t].pc \notin {"wc set", "mc set"}
    BY <1>2, <2>2 DEF DatedLocal
  <2> QED BY <2>1, <2>2
<1> QED BY <1>2, <1>3, <1>4, TimeAfter

LEMMA RegisterTime ==
    ASSUME Good, Typed', NumberInv, ListInv, TimeInv, NEW t \in Threads, RegisterShardBlock(t)
    PROVE  TimeInv'
<1>1. /\ Only(t)' /\ ClockSame /\ log' = log
      /\ thread[t].pc = "wc set" /\ thread'[t].pc = "wc next"
      /\ thread'[t].genTime = thread[t].genTime /\ thread'[t].epoch = thread[t].epoch
      /\ lastTime' = TimeLessDelta(thread[t].genTime)
  BY RegisteringFacts, RegisterShardBlockFacts DEF Good
<1>2. Timed(t)
  BY <1>1 DEF TimeInv, DatedLocal
<1>3. Timed(t)'
  BY <1>1, <1>2, TimedStays DEF Timed, Good
<1>4. DatedLocal(t)'
  BY <1>1, <1>3 DEF DatedLocal
<1>5. Dated' /\ TimeNeverGoesBack'
  BY <1>1, <1>3, DatedAfterTimed DEF TimeInv, TimeNeverGoesBack
<1> QED BY <1>1, <1>4, <1>5, TimeAfter

LEMMA RestartTime ==
    ASSUME Good, Typed', TimeInv, Restart
    PROVE  TimeInv'
<1>1. /\ Only("run")' /\ thread'["run"].pc = "restore" /\ thread'["run"].genTime = 0
      /\ log' = [c \in Chains |-> SubSeq(log[c], 1, saved[c])] /\ epoch' = epoch + 1
  BY RestartFacts DEF Good, Only
<1>2. PICK l \in [Chains -> Seq(Block)], e \in Nat, f \in Nat, n \in Nat :
         l = log' /\ e = epoch /\ f = epoch' /\ n = NextTime
  BY TimeTypes, TimeTypesNext DEF TimesTyped, Good
<1>3. DatedIn(l, e, n)
  <2>1. DatedIn(log, e, n)
    BY <1>2 DEF TimeInv, Dated
  <2> QED BY <1>1, <1>2, <2>1, DatedCut DEF Good
<1>4. e < f
  BY <1>1, <1>2
<1>5. OlderIn(l, f)
  BY <1>2, <1>3, <1>4, DatedOlder
<1>6. PICK y \in Nat : y = NextTime'
  BY TimeTypesNext DEF TimesTyped
<1>7. DatedIn(l, f, y)
  BY <1>2, <1>5, OlderDated
<1>8. Dated'
  BY <1>2, <1>6, <1>7 DEF Dated
<1>9. DatedLocal("run")'
  BY <1>1, <1>2, <1>5 DEF DatedLocal
<1> QED BY <1>1, <1>8, <1>9, RestartTimes, RunIsThread, TimeAfter

LEMMA RestoreTime ==
    ASSUME Good, Typed', ListInv, TimeInv, RestoreState
    PROVE  TimeInv'
<1>1. /\ Only("run")' /\ ClockSame /\ log' = log /\ lastTime' = lastTime
      /\ thread["run"].pc = "restore"
      /\ \/ /\ thread'["run"].pc = "config" /\ thread'["run"].epoch = epoch
            /\ thread'["run"].genTime = thread["run"].genTime
         \/ thread'["run"].pc = "start"
  BY RestoringFacts, RestoreStateFacts DEF Good
<1>2. Dated' /\ TimeNeverGoesBack'
  BY <1>1, DatedSame DEF TimeInv, TimeNeverGoesBack
<1>3. thread["run"].genTime = 0 /\ OlderIn(log, epoch)
  BY <1>1, RunIsThread DEF TimeInv, DatedLocal
<1>4. DatedLocal("run")'
  <2>1. CASE thread'["run"].pc = "config"
    <3>1. /\ thread'["run"].epoch = epoch /\ thread'["run"].genTime = 0 /\ epoch' = epoch
          /\ NextTime' = NextTime
      BY <1>1, <1>3, <2>1, SameTime DEF ClockSame
    <3>2. epoch \in Nat /\ NextTime \in Nat /\ log \in [Chains -> Seq(Block)]
      BY TimeTypes DEF TimesTyped, Good
    <3>3. DatedIn(log, epoch, 0)
      BY <1>3, <3>2, OlderDated
    <3>4. epoch <= epoch /\ 0 <= NextTime
      BY <3>2
    <3>5. Timed("run")'
      BY <1>1, <3>1, <3>3, <3>4 DEF Timed
    <3> QED BY <1>1, <1>3, <2>1, <3>1, <3>5 DEF DatedLocal
  <2>2. CASE thread'["run"].pc = "start"
    BY <2>2, NoTime
  <2> QED BY <1>1, <2>1, <2>2
<1> QED BY <1>1, <1>2, <1>4, RunIsThread, TimeAfter

(* Nothing but the clock moves, and in an epoch it goes forward.           *)
LEMMA WaitsTime ==
    ASSUME Good, Typed', TimeInv, Waits
    PROVE  TimeInv'
<1>1. log' = log /\ thread' = thread
  BY DEF Waits, ChainsSame
<1>2. PICK e \in Nat, f \in Nat, n \in Nat, y \in Nat, l \in [Chains -> Seq(Block)] :
         e = epoch /\ f = epoch' /\ n = NextTime /\ y = NextTime' /\ l = log
  BY TimeTypes, TimeTypesNext DEF TimesTyped, Good
<1>3. e < f \/ (e = f /\ n <= y)
  <2>1. CASE epoch' = epoch /\ NextTime' >= NextTime
    BY <1>2, <2>1
  <2>2. CASE epoch' = epoch + 1
    BY <1>2, <2>2
  <2> QED BY <2>1, <2>2 DEF Waits
<1>4. e <= f /\ (e = f => n <= y)
  BY <1>2, <1>3
<1>5. Dated'
  <2>1. DatedIn(l, e, n)
    BY <1>2 DEF TimeInv, Dated
  <2>2. DatedIn(l, f, y)
    BY <1>4, <2>1, DatedFurther
  <2> QED BY <1>1, <1>2, <2>2 DEF Dated
<1>6. ASSUME NEW t \in Threads, Timed(t) PROVE Timed(t)'
  <2>1. PICK p \in Nat, g \in Nat : p = thread[t].epoch /\ g = thread[t].genTime
    BY TimeTypes DEF TimesTyped, Good
  <2>2. p <= e /\ (p = e => g <= n)
    BY <1>2, <1>6, <2>1 DEF Timed
  <2>3. p <= f /\ (p = f => g <= y)
    BY <1>4, <2>2
  <2>4. DatedIn(log, p, g)
    BY <1>6, <2>1 DEF Timed
  <2> QED BY <1>1, <1>2, <2>1, <2>3, <2>4 DEF Timed
<1>7. OlderIn(log, epoch) => OlderIn(log', epoch')
  BY <1>1, <1>2, <1>4, OlderFurther
<1>8. ASSUME NEW t \in Threads PROVE DatedLocal(t)'
  <2>1. DatedLocal(t)
    BY DEF TimeInv
  <2> QED BY <1>1, <1>6, <1>7, <2>1 DEF DatedLocal
<1>9. TimeNeverGoesBack'
  BY <1>1 DEF TimeInv, TimeNeverGoesBack
<1> QED BY <1>5, <1>8, <1>9 DEF TimeInv

LEMMA InitTime == Init => TimeInv
<1> SUFFICES ASSUME Init PROVE TimeInv
  OBVIOUS
<1>1. \A c \in Chains : DOMAIN log[c] = {}
  BY DEF Init
<1>2. \A t \in Threads : thread[t].pc \in {"rest", "start"}
  BY DEF Init, AtRest
<1>3. Dated /\ TimeNeverGoesBack
  BY <1>1, ChainsAre DEF Dated, DatedIn, TimeNeverGoesBack
<1> QED BY <1>2, <1>3 DEF TimeInv, DatedLocal

LEMMA TimeStep ==
    Good /\ Typed' /\ NumberInv /\ ListInv /\ TimeInv /\ [Next]_vars => TimeInv'
BY StepKinds, WaitsTime, WorksTime, PutsTime, RegisterTime, RestartTime, RestoreTime

-----------------------------------------------------------------------------
(* Times of registered shard blocks in sequential mode.                    *)

(* What is registered and dated in this epoch in sequential mode was dated *)
(* before the time the clock gives next, if the clock was just set to the  *)
(* time of the blocks.                                                     *)
LEMMA AheadOfLast ==
    ASSUME Good, NEW t \in Threads, Timed(t), Ahead, ClockSame, log' = log,
           lastTime' = TimeLessDelta(thread[t].genTime)
    PROVE  \A k \in DOMAIN Shard :
             Shard[k].epoch = epoch /\ Shard[k].mode = "Seq" => Shard[k].utime < NextTime'
<1> SUFFICES ASSUME NEW k \in DOMAIN Shard, Shard[k].epoch = epoch, Shard[k].mode = "Seq"
             PROVE  Shard[k].utime < NextTime'
  OBVIOUS
<1>1. mode = "Seq"
  BY DEF Ahead
<1>2. /\ epoch \in Nat /\ NextTime \in Nat /\ thread[t].epoch \in Nat
      /\ log \in [Chains -> Seq(Block)]
  BY TimeTypes DEF TimesTyped, Good
<1>3. PICK g \in Nat : g = thread[t].genTime
  BY TimeTypes DEF TimesTyped, Good
<1>4. /\ Shard[k].epoch <= thread[t].epoch /\ thread[t].epoch <= epoch
      /\ Shard[k].epoch = thread[t].epoch => Shard[k].utime <= g
  BY <1>3, ChainsAre DEF Timed, DatedIn, Shard
<1>5. thread[t].epoch = epoch
  BY <1>2, <1>4
<1>6. PICK u \in Nat : u = Shard[k].utime
  BY <1>2, ChainsAre, BlockTypes DEF Shard
<1>7. u <= g
  BY <1>4, <1>5, <1>6
<1>8. g < NextTime'
  BY <1>1, <1>3, SetLast DEF Good
<1>9. PICK y \in Nat : y = NextTime'
  <2>1. now' = now /\ delta' = delta /\ mode' = mode /\ TimeLessDelta(g) \in Nat
    BY TimeLessDeltaType DEF ClockSame, Good
  <2>2. NextTime' = TimeLessDelta(g) + 1 + delta
    BY <1>1, <1>3, <2>1 DEF NextTime
  <2>3. delta \in Nat
    BY DEF Good, Typed, TypeOK
  <2> QED BY <2>1, <2>2, <2>3
<1>10. u < y
  BY <1>6, <1>7, <1>8, <1>9
<1> QED BY <1>6, <1>9, <1>10

LEMMA AheadSame ==
    ASSUME Ahead, ClockSame, lastTime' = lastTime, log' = log, registered' \subseteq registered
    PROVE  Ahead'
<1>1. NextTime' = NextTime /\ epoch' = epoch /\ mode' = mode /\ Shard' = Shard
  BY SameTime DEF ClockSame, Shard
<1> QED BY <1>1 DEF Ahead

LEMMA RegisteredTimesStay ==
    ASSUME RegisteredTimes, registered' \subseteq registered,
           \A k \in registered : Shard'[k] = Shard[k]
    PROVE  RegisteredTimes'
BY DEF RegisteredTimes

(* All threads at rest but t: the invariant is about the locals of t.      *)
LEMMA SeqAfter ==
    ASSUME NEW t \in Threads, Only(t)', AheadLocal(t)', Ahead', RegisteredTimes'
    PROVE  SeqInv'
BY DEF SeqInv, AheadLocal, Only

LEMMA WorksSeq ==
    ASSUME Good, ListInv, TimeInv, SeqInv, NEW t \in Threads, Works(t)
    PROVE  SeqInv'
<1>1. Only(t)' /\ log' = log /\ registered' = registered /\ Shard' = Shard
  BY WorksAlone DEF Works, ChainsSame, Shard
<1>2. RegisteredTimes'
  BY <1>1, RegisteredTimesStay DEF SeqInv
<1>3. Typed /\ Ahead /\ AheadLocal(t) /\ DatedLocal(t)
  BY DEF SeqInv, TimeInv, Good
<1>4. ASSUME ClockSame, lastTime' = lastTime, AheadLocal(t)' PROVE SeqInv'
  BY <1>1, <1>2, <1>3, <1>4, AheadSame, SeqAfter
<1>5. CASE Begin(t) \/ NextShardBlock(t)
  <2>1. /\ ClockSame /\ lastTime' = lastTime /\ thread'[t].pc \in {"turn", "wc"}
        /\ thread'[t].genTime = NextTime /\ thread'[t].epoch = epoch
    BY <1>3, <1>5, BeginFacts, NextShardBlockFacts
  <2>2. AheadLocal(t)'
    BY <1>1, <1>3, <2>1 DEF Ahead, AheadLocal
  <2> QED BY <1>4, <2>1, <2>2
<1>6. CASE Turn(t) \/ NoShardBlock(t) \/ BuildMasterBlock(t)
  <2>1. /\ ClockSame /\ lastTime' = lastTime /\ thread[t].pc \in {"turn", "wc", "mc"}
        /\ thread'[t].pc \in {"wc", "mc", "mc put"}
        /\ thread'[t].genTime = thread[t].genTime /\ thread'[t].epoch = thread[t].epoch
    BY <1>3, <1>6, TurnFacts, NoShardBlockFacts, BuildMasterBlockFacts
  <2>2. AheadLocal(t)'
    BY <1>1, <1>3, <2>1 DEF AheadLocal
  <2> QED BY <1>4, <2>1, <2>2
<1>7. CASE BuildShardBlock(t)
  <2>1. /\ ClockSame /\ lastTime' = lastTime /\ thread[t].pc = "wc" /\ thread'[t].pc = "wc put"
        /\ thread'[t].genTime = thread[t].genTime /\ thread'[t].epoch = thread[t].epoch
        /\ thread'[t].block.mode = mode /\ mode' = mode
    BY <1>3, <1>7, BuildShardBlockFacts DEF ClockSame
  <2>2. AheadLocal(t)'
    BY <1>1, <1>3, <2>1 DEF AheadLocal
  <2> QED BY <1>4, <2>1, <2>2
<1>8. CASE MasterBlockDone(t)
  <2>1. /\ ClockSame /\ lastTime' = TimeLessDelta(thread[t].genTime)
        /\ thread[t].pc = "mc set" /\ thread'[t].pc = "turn"
        /\ thread'[t].genTime = thread[t].genTime /\ thread'[t].epoch = thread[t].epoch
    BY <1>3, <1>8, MasterBlockDoneFacts
  <2>2. AheadLocal(t)'
    BY <1>1, <1>3, <2>1 DEF AheadLocal
  <2>3. Timed(t)
    BY <1>3, <2>1 DEF DatedLocal
  <2>4. epoch' = epoch /\ mode' = mode
    BY <2>1 DEF ClockSame
  <2>5. \A k \in registered : k \in DOMAIN Shard
    BY RegisteredTypes
  <2>6. \A k \in registered :
           Shard[k].epoch = epoch /\ Shard[k].mode = "Seq" => Shard[k].utime < NextTime'
    BY <1>1, <1>3, <2>1, <2>3, <2>5, AheadOfLast
  <2>7. Ahead'
    BY <1>1, <1>3, <2>4, <2>6 DEF Ahead
  <2> QED BY <1>1, <1>2, <2>2, <2>7, SeqAfter
<1>9. CASE NoMasterBlock(t) \/ BuildFails(t) \/ Enters(t) \/ (t = "run" /\ BuildConfigBlock)
  <2>1. ClockSame /\ lastTime' = lastTime
    BY <1>3, <1>9, NoMasterBlockFacts, BuildFailsFacts, FailFacts, BuildConfigBlockFacts
       DEF Enters
  <2>2. \/ thread'[t].pc \in {"rest", "start", "down", "config put"}
        \/ /\ thread[t].pc = "mc" /\ thread'[t].pc = "turn"
           /\ thread'[t].genTime = thread[t].genTime /\ thread'[t].epoch = thread[t].epoch
    BY <1>3, <1>9, NoMasterBlockFacts, BuildFailsFacts, FailFacts, BuildConfigBlockFacts
       DEF Enters
  <2>3. AheadLocal(t)'
    BY <1>1, <1>3, <2>2 DEF AheadLocal
  <2> QED BY <1>4, <2>1, <2>3
<1> QED BY <1>5, <1>6, <1>7, <1>8, <1>9 DEF Works

LEMMA PutsShardSeq ==
    ASSUME Good, ListInv, TimeInv, SeqInv, NEW t \in Threads, PutsShard(t)
    PROVE  SeqInv'
<1> DEFINE b == thread[t].block
           n == Len(Shard) + 1
           new == Shard'
<1>1. /\ Only(t)' /\ ClockSame /\ lastTime' = lastTime /\ thread[t].pc = "wc put"
      /\ thread'[t].pc \in {"wc set", "rest", "down", "start"}
      /\ thread'[t].pc = "wc set" =>
           /\ thread'[t].genTime = thread[t].genTime /\ thread'[t].epoch = thread[t].epoch
           /\ thread'[t].block = b
  BY DEF PutsShard, Puts, PutSteps
<1>2. /\ registered' = registered /\ DOMAIN new = 1..n
      /\ \A k \in DOMAIN Shard : new[k] = Shard[k]
      /\ new[n] = b
      /\ \A k \in registered : k \in DOMAIN Shard
  BY RegisteredStay
<1> HIDE DEF new
<1>3. \A i \in DOMAIN new : i = n \/ i \in DOMAIN Shard
  <2>1. Len(Shard) \in Nat /\ DOMAIN Shard = 1..Len(Shard) /\ DOMAIN new = 1..n
    BY <1>2, ShardTypes DEF Good
  <2> QED BY <2>1
<1>4. b.epoch = epoch => b.mode = mode
  BY <1>1 DEF SeqInv, AheadLocal
<1>5. NextTime' = NextTime /\ epoch' = epoch /\ mode' = mode
  BY <1>1, SameTime DEF ClockSame
<1> HIDE DEF b
<1>6. Ahead'
  <2>1. \A i \in DOMAIN new : new[i].epoch = epoch => new[i].mode = mode
    BY <1>2, <1>3, <1>4 DEF SeqInv, Ahead
  <2>2. \A k \in registered :
          new[k].epoch = epoch /\ new[k].mode = "Seq" => new[k].utime < NextTime
    BY <1>2 DEF SeqInv, Ahead
  <2> QED BY <1>2, <1>5, <2>1, <2>2 DEF Ahead, new
<1>7. RegisteredTimes'
  <2>1. \A k \in registered : Shard'[k] = Shard[k]
    BY <1>2 DEF new
  <2> QED BY <1>2, <2>1, RegisteredTimesStay DEF SeqInv
<1>8. AheadLocal(t)'
  <2>1. CASE thread'[t].pc = "wc set"
    <3>1. AheadLocal(t) /\ \A k \in registered : new[k] = Shard[k]
      BY <1>2 DEF SeqInv
    <3> QED BY <1>1, <1>2, <1>4, <1>5, <2>1, <3>1 DEF AheadLocal, new
  <2>2. CASE thread'[t].pc # "wc set"
    BY <1>1, <2>2 DEF AheadLocal
  <2> QED BY <2>1, <2>2
<1> QED BY <1>1, <1>6, <1>7, <1>8, SeqAfter

LEMMA PutsMasterSeq ==
    ASSUME Good, NumberInv, ListInv, TimeInv, SeqInv, NEW t \in Threads, PutsMaster(t)
    PROVE  SeqInv'
<1>1. /\ Only(t)' /\ ClockSame /\ lastTime' = lastTime /\ thread[t].pc \in {"mc put", "config put"}
      /\ thread'[t].pc \in {"mc set", "rest", "down", "start"}
      /\ thread'[t].pc = "mc set" =>
           thread'[t].genTime = thread[t].genTime /\ thread'[t].epoch = thread[t].epoch
  BY DEF PutsMaster, Puts, PutSteps
<1>2. Shard' = Shard /\ registered' = registered
  BY ListingBlock
<1>3. NextTime' = NextTime /\ epoch' = epoch /\ mode' = mode
  BY <1>1, SameTime DEF ClockSame
<1>4. Ahead' /\ RegisteredTimes'
  BY <1>2, <1>3 DEF SeqInv, Ahead, RegisteredTimes
<1>5. thread'[t].pc = "mc set" => thread[t].pc = "mc put"
  BY DEF PutsMaster
<1>6. AheadLocal(t)'
  <2>1. AheadLocal(t)
    BY DEF SeqInv
  <2> QED BY <1>1, <1>2, <1>5, <2>1 DEF AheadLocal
<1> QED BY <1>1, <1>4, <1>6, SeqAfter

LEMMA RegisterSeq ==
    ASSUME Good, NumberInv, ListInv, TimeInv, SeqInv, NEW t \in Threads, RegisterShardBlock(t)
    PROVE  SeqInv'
<1> DEFINE n == Len(Shard)
           b == Shard[n]
<1>1. /\ Only(t)' /\ ClockSame /\ log' = log /\ Shard' = Shard
      /\ thread[t].pc = "wc set" /\ thread'[t].pc = "wc next"
      /\ lastTime' = TimeLessDelta(thread[t].genTime)
      /\ registered' = registered \union {n} /\ thread[t].block = b
      /\ n \in DOMAIN Shard
  BY RegisteringFacts, RegisterShardBlockFacts DEF Good, Shard
<1>2. /\ Timed(t) /\ b.utime = thread[t].genTime /\ b.epoch = thread[t].epoch
  BY <1>1 DEF TimeInv, DatedLocal
<1>3. \A k \in registered : k \in Nat /\ k \in DOMAIN Shard /\ k <= n
  BY RegisteredTypes, ShardTypes DEF Good
<1>4. Ahead'
  <2>1. \A k \in DOMAIN Shard :
           Shard[k].epoch = epoch /\ Shard[k].mode = "Seq" => Shard[k].utime < NextTime'
    BY <1>1, <1>2, AheadOfLast DEF SeqInv
  <2>2. \A k \in registered' : k \in DOMAIN Shard
    BY <1>1, <1>3
  <2>3. epoch' = epoch /\ mode' = mode
    BY <1>1 DEF ClockSame
  <2> QED BY <1>1, <2>1, <2>2, <2>3 DEF SeqInv, Ahead
<1>5. \A k \in registered :
         Shard[k].epoch = b.epoch /\ Shard[k].mode = "Seq" => Shard[k].utime < b.utime
  BY <1>1, <1>2 DEF SeqInv, AheadLocal
<1> HIDE DEF b
<1>6. RegisteredTimes'
  <2> SUFFICES ASSUME NEW i \in registered', NEW j \in registered', i < j,
                      Shard[i].epoch = Shard[j].epoch,
                      Shard[i].mode = "Seq", Shard[j].mode = "Seq"
               PROVE  Shard[i].utime < Shard[j].utime
    BY <1>1 DEF RegisteredTimes
  <2>1. n \in Nat
    BY ShardTypes DEF Good
  <2>2. i \in registered
    <3>1. j \in Nat /\ j <= n /\ i \in Nat
      <4>1. \A k \in registered' : k \in registered \/ k = n
        BY <1>1
      <4>2. n <= n
        BY <2>1
      <4>3. \A k \in registered' : k \in Nat /\ k <= n
        BY <1>3, <2>1, <4>1, <4>2
      <4> QED BY <4>3
    <3>2. i # n
      BY <2>1, <3>1
    <3> QED BY <1>1, <3>2
  <2>3. CASE j = n
    BY <1>5, <2>2, <2>3 DEF b
  <2>4. CASE j # n
    BY <1>1, <2>2, <2>4 DEF SeqInv, RegisteredTimes
  <2> QED BY <2>3, <2>4
<1>7. AheadLocal(t)'
  BY <1>1 DEF AheadLocal
<1> QED BY <1>1, <1>4, <1>6, <1>7, SeqAfter

(* After a restart no block is of the epoch.                               *)
LEMMA RestartSeq ==
    ASSUME Good, Typed', ListInv, TimeInv', SeqInv, Restart
    PROVE  SeqInv'
<1>1. /\ Only("run")' /\ thread'["run"].pc = "restore" /\ registered' = registered
      /\ log' = [c \in Chains |-> SubSeq(log[c], 1, saved[c])]
  BY RestartFacts DEF Good, Only
<1>2. /\ DOMAIN Shard' = 1..saved["wc"]
      /\ \A k \in 1..saved["wc"] : Shard'[k] = Shard[k]
  BY <1>1, ChainsAre, CutLog DEF Good, Shard
<1>3. \A k \in registered : k \in 1..saved["wc"]
  BY RegisteredTypes
<1>4. RegisteredTimes'
  BY <1>1, <1>2, <1>3, RegisteredTimesStay DEF SeqInv
<1>5. OlderIn(log', epoch')
  BY <1>1, RunIsThread DEF TimeInv, DatedLocal
<1>6. \A i \in DOMAIN Shard' : Shard'[i].epoch # epoch'
  <2>1. PICK l \in [Chains -> Seq(Block)], f \in Nat : l = log' /\ f = epoch'
    BY TimeTypesNext DEF TimesTyped
  <2>2. OlderIn(l, f)
    BY <1>5, <2>1
  <2>3. \A i \in DOMAIN l["wc"] : l["wc"][i].epoch # f
    BY <2>2, ChainsAre, BlockTypes DEF OlderIn
  <2> QED BY <2>1, <2>3 DEF Shard
<1>7. Ahead'
  BY <1>1, <1>2, <1>3, <1>6 DEF Ahead
<1>8. AheadLocal("run")'
  BY <1>1 DEF AheadLocal
<1> QED BY <1>1, <1>4, <1>7, <1>8, RunIsThread, SeqAfter

LEMMA RestoreSeq ==
    ASSUME Good, ListInv, SeqInv, RestoreState
    PROVE  SeqInv'
<1>1. /\ Only("run")' /\ ClockSame /\ log' = log /\ lastTime' = lastTime
      /\ registered' \subseteq registered /\ Shard' = Shard
      /\ thread'["run"].pc \in {"config", "start"}
  BY RestoringFacts, RestoreStateFacts DEF Good, Shard
<1>2. Ahead' /\ RegisteredTimes'
  BY <1>1, AheadSame, RegisteredTimesStay DEF SeqInv
<1>3. AheadLocal("run")'
  BY <1>1 DEF AheadLocal
<1> QED BY <1>1, <1>2, <1>3, RunIsThread, SeqAfter

LEMMA NotLater ==
    ASSUME NEW p \in Nat, NEW e \in Nat, NEW f \in Nat, p <= e, e < f
    PROVE  p # f
OBVIOUS

LEMMA WaitsSeq ==
    ASSUME Good, Typed', ListInv, TimeInv, SeqInv, Waits
    PROVE  SeqInv'
<1>1. log' = log /\ thread' = thread /\ registered' = registered /\ Shard' = Shard
  BY DEF Waits, ChainsSame, Shard
<1>2. RegisteredTimes'
  BY <1>1 DEF SeqInv, RegisteredTimes
<1>3. CASE epoch' = epoch /\ mode' = mode /\ NextTime' >= NextTime
  <2>1. PICK n \in Nat, y \in Nat : n = NextTime /\ y = NextTime' /\ n <= y
    <3>1. PICK n \in Nat, y \in Nat : n = NextTime /\ y = NextTime'
      BY TimeTypes, TimeTypesNext DEF TimesTyped, Good
    <3> QED BY <1>3, <3>1
  <2>2. ASSUME NEW k \in registered, Shard[k].epoch = epoch, Shard[k].mode = "Seq"
        PROVE  Shard[k].utime < y
    <3>1. PICK u \in Nat : u = Shard[k].utime
      BY RegisteredTypes
    <3>2. u < n
      BY <2>1, <2>2, <3>1 DEF SeqInv, Ahead
    <3>3. u < y
      BY <2>1, <3>1, <3>2
    <3> QED BY <3>1, <3>3
  <2>3. Ahead'
    BY <1>1, <1>3, <2>1, <2>2 DEF SeqInv, Ahead
  <2>4. \A t \in Threads : AheadLocal(t)'
    BY <1>1, <1>3 DEF SeqInv, AheadLocal
  <2> QED BY <1>2, <2>3, <2>4 DEF SeqInv
<1>4. CASE epoch' = epoch + 1
  <2>1. PICK e \in Nat, f \in Nat : e = epoch /\ f = epoch' /\ e < f
    <3>1. epoch \in Nat
      BY TimeTypes DEF TimesTyped, Good
    <3> QED BY <1>4, <3>1
  <2>2. ASSUME NEW i \in DOMAIN Shard PROVE Shard[i].epoch # f
    <3>1. Shard[i].epoch \in Nat /\ Shard[i].epoch <= e
      BY <2>1, ChainsAre, TimeTypes, BlockTypes
         DEF TimesTyped, Good, TimeInv, Dated, DatedIn, Shard
    <3> QED BY <2>1, <3>1
  <2>3. \A k \in registered : k \in DOMAIN Shard
    BY RegisteredTypes
  <2>4. Ahead'
    BY <1>1, <2>1, <2>2, <2>3 DEF Ahead
  <2>5. ASSUME NEW t \in Threads PROVE AheadLocal(t)'
    <3>1. AheadLocal(t) /\ DatedLocal(t)
      BY DEF SeqInv, TimeInv
    <3>2. thread[t].pc \in {"wc put", "wc set"} => thread[t].block.epoch # f
      <4> SUFFICES ASSUME thread[t].pc \in {"wc put", "wc set"} PROVE thread[t].block.epoch # f
        OBVIOUS
      <4>1. thread[t].block.epoch = thread[t].epoch /\ thread[t].epoch <= e
        BY <2>1, <3>1 DEF DatedLocal, Timed
      <4>2. PICK p \in Nat : p = thread[t].epoch
        BY TimeTypes DEF TimesTyped, Good
      <4>3. p <= e
        BY <4>1, <4>2
      <4>4. p # f
        BY <2>1, <4>2, <4>3, NotLater
      <4> QED BY <4>1, <4>2, <4>4
    <3> QED BY <1>1, <2>1, <3>1, <3>2 DEF AheadLocal
  <2> QED BY <1>2, <2>4, <2>5 DEF SeqInv
<1> QED BY <1>3, <1>4 DEF Waits

LEMMA InitSeq == Init => SeqInv
<1> SUFFICES ASSUME Init PROVE SeqInv
  OBVIOUS
<1>1. DOMAIN Shard = {} /\ registered = {}
  BY DEF Init, Shard, Chains
<1>2. \A t \in Threads : thread[t].pc \in {"rest", "start"}
  BY DEF Init, AtRest
<1> QED BY <1>1, <1>2 DEF SeqInv, Ahead, RegisteredTimes, AheadLocal

LEMMA SeqStep ==
    Good /\ Typed' /\ NumberInv /\ ListInv /\ TimeInv /\ TimeInv' /\ SeqInv /\ [Next]_vars
      => SeqInv'
BY StepKinds, WaitsSeq, WorksSeq, PutsShardSeq, PutsMasterSeq, RegisterSeq, RestartSeq, RestoreSeq

-----------------------------------------------------------------------------
(* What holds of the chains while one thread uses the engine.              *)

ChainInv ==
    Typed /\ (Alone => SoleInv /\ NumberInv /\ ListInv /\ FiledInv /\ TimeInv /\ SeqInv)

LEMMA ChainInvStep == ChainInv /\ [Next]_vars => ChainInv'
<1> SUFFICES ASSUME ChainInv, [Next]_vars PROVE ChainInv'
  OBVIOUS
<1>1. Typed /\ Typed'
  BY TypedStep DEF ChainInv
<1>2. Alone' => Alone
  <2>1. users' = users
    <3>1. CASE \E t \in Threads : Enters(t) \/ Executing(t)
      BY <1>1, <3>1, ExecutingStatus DEF Enters, StatusSame
    <3>2. CASE Restart
      BY <1>1, <3>2, RestartFacts
    <3>3. CASE Waits \/ RestoreState \/ BuildConfigBlock \/ PutConfigBlock
      BY <1>1, <3>3, RestoreStateFacts, BuildConfigBlockFacts, PutConfigBlockFacts
         DEF Waits, StatusSame
    <3> QED BY <1>1, <3>1, <3>2, <3>3, StepCases
  <2> QED BY <2>1 DEF Alone
<1>3. ASSUME Alone
      PROVE  SoleInv' /\ NumberInv' /\ ListInv' /\ FiledInv' /\ TimeInv' /\ SeqInv'
  <2>1. Good /\ NumberInv /\ ListInv /\ FiledInv /\ TimeInv /\ SeqInv
    BY <1>3 DEF ChainInv, Good
  <2>2. SoleInv' /\ NumberInv' /\ ListInv' /\ FiledInv'
    BY <2>1, SoleStep, NumberStep, ListStep, FiledStep DEF Good
  <2>3. TimeInv'
    BY <1>1, <2>1, TimeStep
  <2>4. SeqInv'
    BY <1>1, <2>1, <2>3, SeqStep
  <2> QED BY <2>2, <2>3, <2>4
<1> QED BY <1>1, <1>2, <1>3 DEF ChainInv

LEMMA ChainInvHolds == Spec => []ChainInv
<1>1. Init => ChainInv
  BY InitTyped, InitSole, InitNumber, InitList, InitFiled, InitTime, InitSeq DEF ChainInv
<1> QED BY <1>1, ChainInvStep, PTL DEF Spec

(* While one thread uses the engine, the blocks of a chain have different  *)
(* numbers, the ones whose finality failed among them.                     *)
THEOREM NumbersAreUnique == Spec => [](Alone => NumbersUnique)
<1>1. ChainInv => (Alone => NumbersUnique)
  BY DEF ChainInv, NumberInv, Numbered, NumbersUnique
<1> QED BY <1>1, ChainInvHolds, PTL

(* While one thread uses the engine, no masterchain block lists an older   *)
(* shard block than one before it, across failures and restarts.           *)
THEOREM ShardsOnlyAdvance == Spec => [](Alone => ShardsNeverGoBack)
<1>1. ChainInv => (Alone => ShardsNeverGoBack)
  BY DEF ChainInv, ListInv, Listed
<1> QED BY <1>1, ChainInvHolds, PTL

(* While one thread uses the engine, every registered shard block is       *)
(* listed once the engine waits after an execution without error; it may   *)
(* be left unlisted only if the node was restarted between the two.        *)
THEOREM AllListedAtRest == Spec => [](Alone => ListedAtRest)
<1>1. ChainInv => (Alone => ListedAtRest)
  <2> SUFFICES ASSUME ChainInv, Alone, \A t \in Threads : At(t, "rest"), up, ~failed
               PROVE  \A k \in registered \ forgotten : Listing(k) # {}
    BY DEF ListedAtRest, Quiescent
  <2>1. ListInv
    BY DEF ChainInv
  <2>2. ~Restoring
    BY RunIsThread DEF Restoring, At
  <2>3. ~changed
    BY <2>1 DEF ListInv, Settled
  <2> QED BY <2>1, <2>2, <2>3 DEF ListInv, Listed, Kept
<1> QED BY <1>1, ChainInvHolds, PTL

(* While one thread uses the engine, a registered shard block that no      *)
(* restart forgot is filed under the first masterchain block that lists    *)
(* it, and a masterchain block under its own number.                       *)
THEOREM FiledRight == Spec => [](Alone => FiledUnderItsMasterBlock)
<1>1. ChainInv => (Alone => FiledUnderItsMasterBlock)
  <2> SUFFICES ASSUME ChainInv, Alone PROVE FiledUnderItsMasterBlock
    OBVIOUS
  <2>1. Good /\ NumberInv /\ ListInv /\ FiledInv
    BY DEF ChainInv, Good
  <2>2. \A j \in DOMAIN Master : Master[j].seq = j /\ Master[j].mc = j
    BY <2>1, ChainsAre DEF NumberInv, Numbered, FiledInv, Filed, Master
  <2>3. \A i \in DOMAIN Shard : Shard[i].seq = i
    BY <2>1, ChainsAre DEF NumberInv, Numbered, Shard
  <2>4. ASSUME NEW k \in Kept, NEW j \in DOMAIN Master, Master[j].shard >= k
        PROVE  Shard[k].mc \in DOMAIN Master /\ Master[Shard[k].mc].shard >= k /\ Shard[k].mc <= j
    <3>1. PICK m \in Nat : m = Shard[k].mc
      BY <2>1, RegisteredTypes DEF Kept
    <3>2. /\ m # 0 /\ k \in Nat
          /\ \A i \in DOMAIN Master : i < m <=> Master[i].shard < k
      BY <2>1, <3>1, RegisteredTypes DEF FiledInv, Filed, Kept
    <3>3. /\ Len(Master) \in Nat /\ DOMAIN Master = 1..Len(Master)
          /\ \A i \in DOMAIN Master : Master[i].shard \in Nat
      BY <2>1, ShardTypes DEF Good
    <3>4. ~(Master[j].shard < k) /\ j \in Nat /\ j <= Len(Master)
      BY <2>4, <3>2, <3>3
    <3>5. m <= j
      BY <3>1, <3>2, <3>4
    <3>6. m \in DOMAIN Master
      BY <3>1, <3>2, <3>3, <3>4, <3>5
    <3>7. Master[m].shard >= k
      <4>1. ~(m < m)
        BY <3>1
      <4>2. ~(Master[m].shard < k)
        BY <3>2, <3>6, <4>1
      <4> QED BY <3>2, <3>3, <3>6, <4>2
    <3> QED BY <3>1, <3>5, <3>6, <3>7
  <2>5. ASSUME NEW i \in DOMAIN Shard, Shard[i].seq \in Kept,
               NEW listing, listing = {Master[j].seq : j \in Listing(Shard[i].seq)},
               listing # {}
        PROVE  Shard[i].mc \in listing /\ \A n \in listing : Shard[i].mc <= n
    <3>1. i \in Kept /\ Shard[i].seq = i
      BY <2>3, <2>5
    <3>2. Listing(i) = {j \in DOMAIN Master : Master[j].shard >= i}
      BY DEF Listing, Master
    <3>3. listing = Listing(i)
      BY <2>2, <2>5, <3>1, <3>2
    <3> QED BY <2>4, <2>5, <3>1, <3>2, <3>3
  <2> QED BY <2>2, <2>5 DEF FiledUnderItsMasterBlock, Shard, Master, Kept
<1> QED BY <1>1, ChainInvHolds, PTL

(* While one thread uses the engine, times never go back between two       *)
(* commands or restarts that may set the clock back, nor from a shard      *)
(* block to a masterchain block that lists it.                             *)
THEOREM TimeOnlyAdvances == Spec => [](Alone => TimeNeverGoesBack)
<1>1. ChainInv => (Alone => TimeNeverGoesBack)
  BY DEF ChainInv, TimeInv
<1> QED BY <1>1, ChainInvHolds, PTL

(* While one thread uses the engine, registered shard blocks of sequential *)
(* mode have ever later times.                                             *)
THEOREM SeqTimesAdvance == Spec => [](Alone => SeqShardTimesIncrease)
<1>1. ChainInv => (Alone => SeqShardTimesIncrease)
  <2> SUFFICES ASSUME ChainInv, Alone PROVE SeqShardTimesIncrease
    OBVIOUS
  <2>1. NumberInv /\ SeqInv
    BY DEF ChainInv
  <2>2. \A i \in DOMAIN log["wc"] : log["wc"][i].seq = i
    BY <2>1, ChainsAre DEF NumberInv, Numbered
  <2> QED BY <2>1, <2>2 DEF SeqInv, RegisteredTimes, SeqShardTimesIncrease, Shard
<1> QED BY <1>1, ChainInvHolds, PTL
=============================================================================
