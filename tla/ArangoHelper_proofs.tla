------------------------ MODULE ArangoHelper_proofs ------------------------
(***************************************************************************)
(* Proofs about ArangoHelper, for any documents and any number of blocks,  *)
(* engines, failures and crashes: type correctness, that the workers       *)
(* implement DocumentLog, and that the database follows what was handed    *)
(* over.                                                                   *)
(***************************************************************************)
EXTENDS ArangoHelper, SequenceTheorems, FiniteSetTheorems, TLAPS

(* A new engine is made only after the one before stopped, and a helper    *)
(* that has no engine yet has no worker.                                   *)
EnginesInTurn ==
    /\ node # "running" => helper < MaxHelpers
    /\ node = "clearing" => cleared < Len(Collections)
    /\ \A h \in Helpers : h > helper => job[h] = "none"

(* What the worker has the answer for was written.                         *)
AnsweredIsWritten == \A h \in Helpers : job[h] = "posted" => written[h]

Typed == TypeOK /\ EnginesInTurn /\ AnsweredIsWritten

(* Channels hold the documents in the order of their blocks.               *)
ChannelsInOrder ==
    \A h \in Helpers : \A i, j \in DOMAIN pending[h] :
        i <= j => pending[h][i].block <= pending[h][j].block

NoneFromLater ==
    /\ \A h \in Helpers : \A d \in Range(pending[h]) : d.block <= blocks
    /\ \A d \in due : d.block <= blocks

(* Two workers have documents of one key only if it is tangled.            *)
SharedAreTangled ==
    \A g, h \in Helpers : g # h =>
        \A d \in Range(pending[g]), e \in Range(pending[h]) :
            SameKey(d, e) => Key(d) \in tangled

(* What is in the database is not newer than what waits to be written.     *)
NoneOvertaken ==
    \A d \in db, h \in Helpers : \A e \in Range(pending[h]) :
        SameKey(d, e) => Key(d) \in tangled \/ d.block <= e.block

(* Documents in the database and on their way to it are due.               *)
DueInv ==
    /\ db \subseteq due
    /\ \A d : ToBeWritten(d) => d \in due

(* The database has one document of a key, but for messages.               *)
OneOfAKey == \A d, e \in db : SameKey(d, e) /\ ~Updated(d) => d = e

Covered(d) == \E e \in db : SameKey(d, e) /\ IF Updated(d) THEN e = d ELSE d.block <= e.block

(* A document that no worker is to write any more is in the database, or a *)
(* newer one is, or the order of its key is lost.                          *)
DueIsCovered == \A d \in due : ToBeWritten(d) \/ Covered(d) \/ Key(d) \in tangled

OrderInv == ChannelsInOrder /\ NoneFromLater /\ SharedAreTangled /\ NoneOvertaken

ContentInv == DueInv /\ OneOfAKey /\ DueIsCovered

IInv == Typed /\ OrderInv /\ ContentInv

-----------------------------------------------------------------------------
(* Documents and channels.                                                 *)

LEMMA CollectionNames ==
    /\ Len(Collections) = 4
    /\ {"accounts", "blocks", "messages", "transactions"} \subseteq Range(Collections)
<1>1. /\ Collections[1] = "accounts" /\ Collections[2] = "blocks"
      /\ Collections[3] = "messages" /\ Collections[4] = "transactions"
      /\ DOMAIN Collections = 1..4 /\ Len(Collections) = 4
  BY DEF Collections
<1> QED BY <1>1 DEF Range

(* The order in which a set is enumerated is left open.                    *)
LEMMA SetToSeqOfFinite ==
    ASSUME NEW S, IsFiniteSet(S)
    PROVE  SetToSeq(S) \in Seq(S)
<1>1. Cardinality(S) \in Nat /\ ExistsBijection(1..Cardinality(S), S)
  BY FS_CardinalityType
<1>2. \E f \in [1..Cardinality(S) -> S] : IsInjective(f)
  BY <1>1 DEF ExistsBijection, Bijection, Injection
<1>3. SetToSeq(S) \in [1..Cardinality(S) -> S]
  BY <1>2 DEF SetToSeq
<1> QED BY <1>1, <1>3

(* The documents of one collection that a block has.                       *)
LEMMA DocumentsOfCollection ==
    ASSUME NEW n \in Nat, NEW coll \in Range(Collections),
           NEW ids \in SUBSET (Accounts \union Messages \union Nat), IsFiniteSet(ids)
    PROVE  SetToSeq({[coll |-> coll, id |-> i, block |-> n] : i \in ids})
               \in Seq({d \in Document : d.block = n})
<1> DEFINE Doc(i) == [coll |-> coll, id |-> i, block |-> n]
           S == {Doc(i) : i \in ids}
           f == [i \in ids |-> Doc(i)]
<1>1. f \in Surjection(ids, S)
  BY DEF Surjection
<1>2. IsFiniteSet(S)
  BY <1>1, FS_Surjection
<1>3. S \subseteq {d \in Document : d.block = n}
  BY DEF Document
<1>4. SetToSeq(S) \in Seq(S)
  BY <1>2, SetToSeqOfFinite
<1> HIDE DEF S
<1>5. SetToSeq(S) \in Seq({d \in Document : d.block = n})
  BY <1>3, <1>4, SeqMonotonic
<1> QED BY <1>5 DEF S

LEMMA DocumentsOfBlock ==
    ASSUME NEW n \in Nat, NEW accounts \in SUBSET Accounts, NEW messages \in SUBSET Messages
    PROVE  DocumentsOf(n, accounts, messages) \in Seq({d \in Document : d.block = n})
<1> DEFINE D == {d \in Document : d.block = n}
           Of(coll, ids) == SetToSeq({[coll |-> coll, id |-> i, block |-> n] : i \in ids})
<1>1. IsFiniteSet({n}) /\ IsFiniteSet(accounts) /\ IsFiniteSet(messages)
  BY FS_Singleton, FS_Subset, HelperBounds
<1>2. /\ {n} \in SUBSET (Accounts \union Messages \union Nat)
      /\ accounts \in SUBSET (Accounts \union Messages \union Nat)
      /\ messages \in SUBSET (Accounts \union Messages \union Nat)
  OBVIOUS
<1>3. /\ "accounts" \in Range(Collections) /\ "blocks" \in Range(Collections)
      /\ "messages" \in Range(Collections) /\ "transactions" \in Range(Collections)
  BY CollectionNames
<1>4. Of("blocks", {n}) \in Seq(D)
  BY <1>1, <1>2, <1>3, DocumentsOfCollection
<1>5. Of("accounts", accounts) \in Seq(D)
  BY <1>1, <1>2, <1>3, DocumentsOfCollection
<1>6. Of("transactions", {n}) \in Seq(D)
  BY <1>1, <1>2, <1>3, DocumentsOfCollection
<1>7. Of("messages", messages) \in Seq(D)
  BY <1>1, <1>2, <1>3, DocumentsOfCollection
<1>8. DocumentsOf(n, accounts, messages) =
          Of("blocks", {n}) \o Of("accounts", accounts) \o Of("transactions", {n})
              \o Of("messages", messages)
  BY DEF DocumentsOf
<1> HIDE DEF D, Of
<1>9. Of("blocks", {n}) \o Of("accounts", accounts) \in Seq(D)
  BY <1>4, <1>5, ConcatProperties
<1>10. Of("blocks", {n}) \o Of("accounts", accounts) \o Of("transactions", {n}) \in Seq(D)
  BY <1>6, <1>9, ConcatProperties
<1>11. DocumentsOf(n, accounts, messages) \in Seq(D)
  BY <1>7, <1>8, <1>10, ConcatProperties
<1> QED BY <1>11 DEF D

(* The documents of a sequence are those at its places.                    *)
LEMMA Places ==
    ASSUME NEW S, NEW s \in Seq(S)
    PROVE  /\ DOMAIN s = 1..Len(s) /\ Len(s) \in Nat
           /\ \A x : x \in Range(s) <=> \E i \in 1..Len(s) : s[i] = x
           /\ \A x \in Range(s) : x \in S
<1>1. DOMAIN s = 1..Len(s) /\ Len(s) \in Nat
  BY LenProperties
<1>2. \A i \in 1..Len(s) : s[i] \in S
  BY <1>1, ElementOfSeq
<1> QED BY <1>1, <1>2 DEF Range

(* What is handed over is put behind what is there.                        *)
LEMMA Joined ==
    ASSUME NEW S, NEW s \in Seq(S), NEW t \in Seq(S)
    PROVE  /\ s \o t \in Seq(S)
           /\ DOMAIN (s \o t) = 1..Len(s) + Len(t)
           /\ \A i \in 1..Len(s) : (s \o t)[i] = s[i]
           /\ \A i \in Len(s) + 1..Len(s) + Len(t) :
                 (s \o t)[i] = t[i - Len(s)] /\ i - Len(s) \in 1..Len(t)
           /\ Range(s \o t) = Range(s) \union Range(t)
           /\ IsPrefix(s, s \o t)
           /\ (s # <<>> => s \o t # <<>>)
<1> DEFINE u == s \o t
<1>1. /\ u \in Seq(S) /\ Len(u) = Len(s) + Len(t)
      /\ \A i \in 1..Len(u) : u[i] = IF i <= Len(s) THEN s[i] ELSE t[i - Len(s)]
  BY ConcatProperties
<1>2. Len(s) \in Nat /\ Len(t) \in Nat /\ DOMAIN u = 1..Len(u)
  BY <1>1, LenProperties
<1>3. Range(u) = Range(s) \union Range(t)
  BY RangeConcatenation
<1> HIDE DEF u
<1>4. \A i \in 1..Len(s) : u[i] = s[i] /\ s[i] \in S
  BY <1>1, <1>2, ElementOfSeq
<1>5. /\ SubSeq(u, 1, Len(s)) \in Seq(S) /\ Len(SubSeq(u, 1, Len(s))) = Len(s)
      /\ \A i \in 1..Len(s) : SubSeq(u, 1, Len(s))[i] = u[i]
  <2>1. \A i \in 1..Len(s) : u[i] \in S
    BY <1>4
  <2>2. /\ SubSeq(u, 1, Len(s)) \in Seq(S)
        /\ Len(SubSeq(u, 1, Len(s))) = IF 1 <= Len(s) THEN Len(s) - 1 + 1 ELSE 0
        /\ \A i \in 1..Len(s) - 1 + 1 : SubSeq(u, 1, Len(s))[i] = u[1 + i - 1]
    BY <1>2, <2>1, SubSeqProperties
  <2>3. Len(s) - 1 + 1 = Len(s) /\ \A i \in 1..Len(s) : 1 + i - 1 = i
    BY <1>2
  <2> QED BY <1>2, <2>2, <2>3
<1>6. SubSeq(u, 1, Len(s)) = s
  BY <1>4, <1>5, SeqEqual
<1>7. IsPrefix(s, u)
  BY <1>1, <1>2, <1>6, SubSeqFull DEF IsPrefix
<1>8. s # <<>> => u # <<>>
  <2>1. s # <<>> => Len(s) # 0
    BY EmptySeq
  <2>2. u = <<>> => Len(u) = 0
    BY EmptySeq
  <2> QED BY <1>1, <1>2, <2>1, <2>2
<1>9. \A i \in Len(s) + 1..Len(s) + Len(t) : u[i] = t[i - Len(s)] /\ i - Len(s) \in 1..Len(t)
  BY <1>1, <1>2
<1> QED BY <1>1, <1>2, <1>3, <1>4, <1>7, <1>8, <1>9 DEF u

(* What is left of a channel once its first document is through.           *)
LEMMA Rest ==
    ASSUME NEW S, NEW s \in Seq(S), s # <<>>
    PROVE  /\ Tail(s) \in Seq(S) /\ DOMAIN Tail(s) = 1..Len(s) - 1
           /\ Len(s) \in Nat /\ 1 \in DOMAIN s /\ Head(s) = s[1] /\ Head(s) \in Range(s)
           /\ \A i \in 1..Len(s) - 1 : Tail(s)[i] = s[i + 1] /\ i + 1 \in DOMAIN s
           /\ Range(Tail(s)) \subseteq Range(s)
<1>1. /\ Tail(s) \in Seq(S) /\ Len(Tail(s)) = Len(s) - 1
      /\ \A i \in 1..Len(Tail(s)) : Tail(s)[i] = s[i + 1]
  BY HeadTailProperties
<1>2. Len(s) \in Nat /\ DOMAIN s = 1..Len(s) /\ DOMAIN Tail(s) = 1..Len(Tail(s)) /\ Len(s) # 0
  BY <1>1, LenProperties, EmptySeq
<1>3. Head(s) = s[1] /\ 1 \in DOMAIN s
  BY <1>2
<1>4. \A i \in 1..Len(s) - 1 : Tail(s)[i] = s[i + 1] /\ i + 1 \in DOMAIN s
  BY <1>1, <1>2
<1>5. Range(Tail(s)) \subseteq Range(s)
  BY <1>1, <1>2, <1>4 DEF Range
<1>6. Head(s) \in Range(s)
  BY <1>3 DEF Range
<1> QED BY <1>1, <1>2, <1>3, <1>4, <1>5, <1>6

LEMMA NothingLeft == DOMAIN <<>> = {} /\ Range(<<>>) = {} /\ <<>> \in Seq(Document)
BY EmptySeq DEF Range

-----------------------------------------------------------------------------
(* Types.                                                                  *)

LEMMA TimeoutLimits == FirstTimeout \in Nat /\ MaxTimeout \in Nat /\ FirstTimeout <= MaxTimeout
BY DEF FirstTimeout, MaxTimeout

LEMMA InitTyped == Init => Typed
<1> SUFFICES ASSUME Init PROVE Typed
  OBVIOUS
<1> USE DEF Init
<1>1. 1 \in Helpers /\ helper = 1
  BY HelperBounds DEF Helpers
<1>2. <<>> \in Seq(Document)
  BY NothingLeft
<1>3. /\ pending \in [Helpers -> Seq(Document)]
      /\ job \in [Helpers -> {"none", "wait", "post", "posted", "sleep"}]
      /\ timeout \in [Helpers -> FirstTimeout..MaxTimeout]
      /\ trouble \in [Helpers -> BOOLEAN] /\ written \in [Helpers -> BOOLEAN]
  <2>1. FirstTimeout \in FirstTimeout..MaxTimeout
    BY TimeoutLimits
  <2> QED BY <1>2, <2>1
<1>4. /\ blocks \in 0..MaxBlocks /\ failures \in 0..MaxFailures /\ crashes \in 0..MaxCrashes
      /\ cleared \in 0..Len(Collections) /\ first \in 1..(MaxBlocks + 1)
  BY HelperBounds, CollectionNames
<1>5. \A h \in Helpers : job[h] \notin {"post", "posted", "sleep"}
  OBVIOUS
<1>6. \A h \in Helpers : h > helper => job[h] = "none"
  BY <1>1 DEF Helpers
<1>7. TypeOK
  BY <1>1, <1>3, <1>4, <1>5 DEF TypeOK
<1> QED BY <1>5, <1>6, <1>7 DEF Typed, EnginesInTurn, AnsweredIsWritten

(* The first document of a channel that is not empty.                      *)
LEMMA FirstDocument ==
    ASSUME Typed, NEW h \in Helpers, job[h] \in {"post", "posted", "sleep"}
    PROVE  /\ pending[h] \in Seq(Document) /\ pending[h] # <<>>
           /\ Head(pending[h]) \in Document
           /\ Tail(pending[h]) \in Seq(Document)
<1>1. pending[h] \in Seq(Document) /\ pending[h] # <<>>
  BY DEF Typed, TypeOK
<1> QED BY <1>1, HeadTailProperties

(* The pause keeps its length.                                             *)
LEMMA NextTimeoutInRange ==
    ASSUME NEW t \in FirstTimeout..MaxTimeout
    PROVE  NextTimeout(t) \in FirstTimeout..MaxTimeout
<1>1. t \in Int /\ FirstTimeout <= t /\ t <= MaxTimeout
  BY TimeoutLimits
<1>2. t * (12 \div 10) = t
  <2>1. 12 \div 10 = 1
    OBVIOUS
  <2> QED BY <1>1, <2>1
<1>3. NextTimeout(t) = IF t < MaxTimeout THEN t ELSE MaxTimeout
  BY <1>2 DEF NextTimeout
<1> QED BY <1>1, <1>3, TimeoutLimits

(* A worker that takes a document, wakes up or ends.                       *)
LEMMA WorkerWaitsTyped ==
    ASSUME Typed, NEW h \in Helpers, TakeDocument(h) \/ WakeUp(h) \/ WorkerEnds(h)
    PROVE  Typed'
<1>1. UNCHANGED <<node, cleared, helper, pending, trouble, written, reachable, db,
                  blocks, failures, crashes, due, tangled, first>>
  BY DEF TakeDocument, WakeUp, WorkerEnds, engine, counts, history
<1>2. \E j \in {"none", "wait", "post"} :
          job' = [job EXCEPT ![h] = j] /\ (j = "post" => pending[h] # <<>>)
  BY DEF TakeDocument, WakeUp, WorkerEnds, Typed, TypeOK
<1>3. job[h] # "none"
  BY DEF TakeDocument, WakeUp, WorkerEnds
<1>4. timeout' \in [Helpers -> FirstTimeout..MaxTimeout]
  <2>1. timeout \in [Helpers -> FirstTimeout..MaxTimeout]
    BY DEF Typed, TypeOK
  <2>2. NextTimeout(timeout[h]) \in FirstTimeout..MaxTimeout
    BY <2>1, NextTimeoutInRange
  <2>3. FirstTimeout \in FirstTimeout..MaxTimeout
    BY TimeoutLimits
  <2>4. \/ timeout' = timeout
        \/ timeout' = [timeout EXCEPT ![h] = FirstTimeout]
        \/ timeout' = [timeout EXCEPT ![h] = NextTimeout(timeout[h])]
    BY DEF TakeDocument, WakeUp, WorkerEnds
  <2> QED BY <2>1, <2>2, <2>3, <2>4
<1>5. PICK j \in {"none", "wait", "post"} :
          job' = [job EXCEPT ![h] = j] /\ (j = "post" => pending[h] # <<>>)
  BY <1>2
<1>6. /\ job' \in [Helpers -> {"none", "wait", "post", "posted", "sleep"}]
      /\ job'[h] = j /\ \A g \in Helpers : g # h => job'[g] = job[g]
  BY <1>5 DEF Typed, TypeOK
<1>7. \A g \in Helpers : job'[g] \in {"post", "posted", "sleep"} => pending'[g] # <<>>
  BY <1>1, <1>5, <1>6 DEF Typed, TypeOK
<1>8. TypeOK'
  BY <1>1, <1>4, <1>6, <1>7 DEF Typed, TypeOK
<1>9. EnginesInTurn'
  BY <1>1, <1>3, <1>6 DEF Typed, EnginesInTurn
<1>10. AnsweredIsWritten'
  BY <1>1, <1>5, <1>6 DEF Typed, AnsweredIsWritten
<1> QED BY <1>8, <1>9, <1>10 DEF Typed

LEMMA WrittenDocuments ==
    ASSUME Typed, NEW h \in Helpers, job[h] = "post", WriteDocument(h)
    PROVE  /\ db' \subseteq Document
           /\ written' \in [Helpers -> BOOLEAN] /\ written'[h] = TRUE
           /\ \A g \in Helpers : g # h => written'[g] = written[g]
<1>1. Head(pending[h]) \in Document
  BY FirstDocument
<1>2. db' = Written(db, Head(pending[h])) /\ written' = [written EXCEPT ![h] = TRUE]
  BY DEF WriteDocument
<1>3. db \subseteq Document /\ written \in [Helpers -> BOOLEAN]
  BY DEF Typed, TypeOK
<1> QED BY <1>1, <1>2, <1>3 DEF Written

(* A post, with or without an answer.                                      *)
LEMMA PostTyped ==
    ASSUME Typed, NEW h \in Helpers, Post(h) \/ PostFails(h)
    PROVE  Typed'
<1>1. /\ UNCHANGED <<node, cleared, helper, pending, timeout, reachable,
                     blocks, crashes, due, tangled, first>>
      /\ job[h] = "post"
  BY DEF Post, PostFails, Kept, engine, counts, history
<1>2. failures' \in 0..MaxFailures
  BY HelperBounds DEF Post, PostFails, Fail, counts, Typed, TypeOK
<1>3. trouble' \in [Helpers -> BOOLEAN]
  BY DEF Post, PostFails, Typed, TypeOK
<1>4. \/ job' = [job EXCEPT ![h] = "posted"] /\ WriteDocument(h)
      \/ job' = [job EXCEPT ![h] = "sleep"] /\ (WriteDocument(h) \/ UNCHANGED <<db, written>>)
  BY DEF Post, PostFails, AfterError
<1>5. /\ job' \in [Helpers -> {"none", "wait", "post", "posted", "sleep"}]
      /\ \A g \in Helpers : g # h => job'[g] = job[g]
  BY <1>4 DEF Typed, TypeOK
<1>6. /\ db' \subseteq Document /\ written' \in [Helpers -> BOOLEAN]
      /\ \A g \in Helpers : g # h => written'[g] = written[g]
      /\ WriteDocument(h) => written'[h]
  <2>1. CASE WriteDocument(h)
    BY <1>1, <2>1, WrittenDocuments
  <2>2. CASE UNCHANGED <<db, written>>
    <3>1. db' \subseteq Document /\ written' \in [Helpers -> BOOLEAN]
      BY <2>2 DEF Typed, TypeOK
    <3>2. WriteDocument(h) => written'[h]
      BY <1>1, WrittenDocuments
    <3> QED BY <2>2, <3>1, <3>2
  <2> QED BY <1>4, <2>1, <2>2
<1>7. \A g \in Helpers : job'[g] \in {"post", "posted", "sleep"} => pending'[g] # <<>>
  BY <1>1, <1>5 DEF Typed, TypeOK
<1>8. job'[h] = "posted" => WriteDocument(h)
  BY <1>4 DEF Typed, TypeOK
<1>9. TypeOK'
  BY <1>1, <1>2, <1>3, <1>5, <1>6, <1>7 DEF Typed, TypeOK
<1>10. EnginesInTurn'
  BY <1>1, <1>5 DEF Typed, EnginesInTurn
<1>11. AnsweredIsWritten'
  BY <1>5, <1>6, <1>8 DEF Typed, AnsweredIsWritten
<1> QED BY <1>9, <1>10, <1>11 DEF Typed

LEMMA AnsweredTyped ==
    ASSUME Typed, NEW h \in Helpers, Answered(h)
    PROVE  Typed'
<1>1. /\ UNCHANGED <<node, cleared, helper, timeout, reachable, db,
                     blocks, failures, crashes, due, tangled, first>>
      /\ job[h] = "posted" /\ job' = [job EXCEPT ![h] = "wait"]
      /\ pending' = [pending EXCEPT ![h] = Tail(pending[h])]
      /\ trouble' = [trouble EXCEPT ![h] = FALSE]
      /\ written' = [written EXCEPT ![h] = FALSE]
  BY DEF Answered, engine, counts, history
<1>2. Tail(pending[h]) \in Seq(Document)
  BY <1>1, FirstDocument
<1>3. /\ pending' \in [Helpers -> Seq(Document)]
      /\ job' \in [Helpers -> {"none", "wait", "post", "posted", "sleep"}]
      /\ trouble' \in [Helpers -> BOOLEAN] /\ written' \in [Helpers -> BOOLEAN]
      /\ job'[h] = "wait"
      /\ \A g \in Helpers : g # h => /\ job'[g] = job[g] /\ written'[g] = written[g]
                                     /\ pending'[g] = pending[g]
  BY <1>1, <1>2 DEF Typed, TypeOK
<1>4. \A g \in Helpers : job'[g] \in {"post", "posted", "sleep"} => pending'[g] # <<>>
  BY <1>3 DEF Typed, TypeOK
<1>5. TypeOK'
  BY <1>1, <1>3, <1>4 DEF Typed, TypeOK
<1>6. EnginesInTurn'
  BY <1>1, <1>3 DEF Typed, EnginesInTurn
<1>7. AnsweredIsWritten'
  BY <1>3 DEF Typed, AnsweredIsWritten
<1> QED BY <1>5, <1>6, <1>7 DEF Typed

(* The documents of a block, as they get to the channel.                   *)
Handed(docs) ==
    /\ pending' = [pending EXCEPT ![helper] = pending[helper] \o docs]
    /\ due' = due \union Range(docs)
    /\ tangled' = tangled \union
          {Key(d) : d \in {e \in Range(docs) :
              \E h \in Helpers \ {helper} : \E o \in Range(pending[h]) : SameKey(o, e)}}

LEMMA ReflectFacts ==
    ASSUME Typed, ReflectBlock
    PROVE  /\ blocks' = blocks + 1 /\ blocks' \in 0..MaxBlocks /\ node = "running"
           /\ UNCHANGED <<node, cleared, helper, job, timeout, trouble, written, reachable, db,
                          failures, crashes, first>>
           /\ \E docs \in Seq({d \in Document : d.block = blocks'}) : Handed(docs)
<1>1. /\ node = "running" /\ blocks < MaxBlocks /\ blocks' = blocks + 1
      /\ UNCHANGED <<node, cleared, helper, job, timeout, trouble, written, reachable, db,
                     failures, crashes, first>>
  BY DEF ReflectBlock, engine
<1>2. blocks' \in 0..MaxBlocks /\ blocks' \in Nat
  BY <1>1, HelperBounds DEF Typed, TypeOK
<1>3. PICK accounts \in SUBSET Accounts, messages \in SUBSET Messages :
          Handed(DocumentsOf(blocks', accounts, messages))
  BY DEF ReflectBlock, Handed
<1>4. DocumentsOf(blocks', accounts, messages) \in Seq({d \in Document : d.block = blocks'})
  BY <1>2, <1>3, DocumentsOfBlock
<1> QED BY <1>1, <1>2, <1>3, <1>4

LEMMA ReflectTyped == Typed /\ ReflectBlock => Typed'
<1> SUFFICES ASSUME Typed, ReflectBlock PROVE Typed'
  OBVIOUS
<1>1. /\ UNCHANGED <<node, cleared, helper, job, timeout, trouble, written, reachable, db,
                     failures, crashes, first>>
      /\ blocks' \in 0..MaxBlocks
  BY ReflectFacts
<1>2. PICK docs \in Seq({d \in Document : d.block = blocks'}) : Handed(docs)
  BY ReflectFacts
<1>3. docs \in Seq(Document)
  <2>1. {d \in Document : d.block = blocks'} \subseteq Document
    OBVIOUS
  <2> QED BY <1>2, <2>1, SeqMonotonic
<1>4. helper \in Helpers /\ pending[helper] \in Seq(Document)
  BY DEF Typed, TypeOK
<1>5. /\ pending[helper] \o docs \in Seq(Document)
      /\ pending[helper] # <<>> => pending[helper] \o docs # <<>>
  BY <1>3, <1>4, Joined
<1>6. pending' = [pending EXCEPT ![helper] = pending[helper] \o docs]
  BY <1>2 DEF Handed
<1>7. /\ pending' \in [Helpers -> Seq(Document)]
      /\ \A h \in Helpers : pending[h] # <<>> => pending'[h] # <<>>
  BY <1>4, <1>5, <1>6 DEF Typed, TypeOK
<1>8. due' \subseteq Document
  <2>1. Range(docs) \subseteq Document
    BY <1>3, Places
  <2> QED BY <1>2, <2>1 DEF Handed, Typed, TypeOK
<1>9. \A h \in Helpers : job'[h] \in {"post", "posted", "sleep"} => pending'[h] # <<>>
  BY <1>1, <1>7 DEF Typed, TypeOK
<1>10. TypeOK'
  BY <1>1, <1>7, <1>8, <1>9 DEF Typed, TypeOK
<1>11. EnginesInTurn' /\ AnsweredIsWritten'
  BY <1>1 DEF Typed, EnginesInTurn, AnsweredIsWritten
<1> QED BY <1>10, <1>11 DEF Typed

(* The control requests.                                                   *)
LEMMA ManagerTyped ==
    ASSUME Typed, Stop \/ BeginClear \/ ClearCollection \/ ClearFails
    PROVE  Typed'
<1>1. /\ UNCHANGED <<helper, pending, job, timeout, trouble, written, reachable, blocks, crashes,
                     tangled>>
      /\ helper < MaxHelpers
  BY DEF Stop, BeginClear, ClearCollection, ClearFails, workers, counts, history,
         Typed, EnginesInTurn
<1>2. /\ node' \in {"stopped", "clearing", "cleared"}
      /\ cleared' \in 0..Len(Collections)
      /\ node' = "clearing" => cleared' < Len(Collections)
  BY CollectionNames
     DEF Stop, BeginClear, ClearCollection, ClearFails, Typed, TypeOK, EnginesInTurn
<1>3. failures' \in 0..MaxFailures
  <2>1. failures' = failures \/ Fail
    BY DEF Stop, BeginClear, ClearCollection, ClearFails, counts
  <2> QED BY <2>1, HelperBounds DEF Fail, Typed, TypeOK
<1>4. first' \in 1..(MaxBlocks + 1)
  <2>1. first' = first \/ first' = blocks + 1
    BY DEF Stop, BeginClear, ClearCollection, ClearFails, history
  <2>2. first \in 1..(MaxBlocks + 1) /\ blocks \in 0..MaxBlocks
    BY DEF Typed, TypeOK
  <2> QED BY <2>1, <2>2, HelperBounds
<1>5. db' \subseteq db /\ due' \subseteq due
  BY DEF Stop, BeginClear, ClearCollection, ClearFails, history, Emptied
<1>6. TypeOK'
  BY <1>1, <1>2, <1>3, <1>4, <1>5 DEF Typed, TypeOK
<1>7. EnginesInTurn' /\ AnsweredIsWritten'
  BY <1>1, <1>2 DEF Typed, EnginesInTurn, AnsweredIsWritten
<1> QED BY <1>6, <1>7 DEF Typed

LEMMA NewEngineTyped == Typed /\ NewEngine => Typed'
<1> SUFFICES ASSUME Typed, NewEngine PROVE Typed'
  OBVIOUS
<1>1. /\ UNCHANGED <<pending, timeout, trouble, written, reachable, db, blocks, failures, crashes,
                     due, tangled, first>>
      /\ node' = "running" /\ cleared' = 0 /\ helper' = helper + 1
      /\ job' = [job EXCEPT ![helper'] = "wait"]
      /\ helper < MaxHelpers
  BY DEF NewEngine, counts, history, Typed, EnginesInTurn
<1>2. helper \in Nat /\ helper' \in Helpers /\ cleared' \in 0..Len(Collections)
  BY <1>1, HelperBounds, CollectionNames DEF Typed, TypeOK, Helpers
<1>3. /\ job' \in [Helpers -> {"none", "wait", "post", "posted", "sleep"}]
      /\ \A h \in Helpers : job'[h] = IF h = helper' THEN "wait" ELSE job[h]
  BY <1>1, <1>2 DEF Typed, TypeOK
<1>4. \A h \in Helpers : job'[h] \in {"post", "posted", "sleep"} => job'[h] = job[h]
  BY <1>3
<1>5. \A h \in Helpers : h > helper' => job'[h] = "none"
  <2>1. \A h \in Helpers : h > helper' => h > helper /\ h # helper'
    BY <1>1, <1>2 DEF Helpers
  <2> QED BY <1>3, <2>1 DEF Typed, EnginesInTurn
<1>6. TypeOK'
  BY <1>1, <1>2, <1>3, <1>4 DEF Typed, TypeOK
<1>7. EnginesInTurn' /\ AnsweredIsWritten'
  BY <1>1, <1>4, <1>5 DEF Typed, EnginesInTurn, AnsweredIsWritten
<1> QED BY <1>6, <1>7 DEF Typed

LEMMA CrashTyped == Typed /\ Crash => Typed'
<1> SUFFICES ASSUME Typed, Crash PROVE Typed'
  OBVIOUS
<1> USE DEF Crash
<1>1. /\ UNCHANGED <<reachable, db, blocks, failures, first>>
      /\ node' = "running" /\ cleared' = 0 /\ helper' = 1
      /\ due' \subseteq due
  OBVIOUS
<1>2. 1 \in Helpers /\ cleared' \in 0..Len(Collections) /\ crashes' \in 0..MaxCrashes
  BY HelperBounds, CollectionNames DEF Helpers, Typed, TypeOK
<1>3. /\ pending' \in [Helpers -> Seq(Document)]
      /\ job' \in [Helpers -> {"none", "wait", "post", "posted", "sleep"}]
      /\ timeout' \in [Helpers -> FirstTimeout..MaxTimeout]
      /\ trouble' \in [Helpers -> BOOLEAN] /\ written' \in [Helpers -> BOOLEAN]
      /\ \A h \in Helpers : job'[h] = IF h = 1 THEN "wait" ELSE "none"
  <2>1. FirstTimeout \in FirstTimeout..MaxTimeout /\ <<>> \in Seq(Document)
    BY NothingLeft, TimeoutLimits
  <2> QED BY <2>1
<1> HIDE DEF Crash
<1>4. TypeOK'
  BY <1>1, <1>2, <1>3 DEF Typed, TypeOK
<1>5. EnginesInTurn' /\ AnsweredIsWritten'
  BY <1>1, <1>2, <1>3 DEF EnginesInTurn, AnsweredIsWritten, Helpers
<1> QED BY <1>4, <1>5 DEF Typed

LEMMA NextTyped == Typed /\ [Next]_vars => Typed'
<1> SUFFICES ASSUME Typed, [Next]_vars PROVE Typed'
  OBVIOUS
<1>1. ASSUME NEW h \in Helpers, Worker(h) PROVE Typed'
  BY <1>1, WorkerWaitsTyped, PostTyped, AnsweredTyped DEF Worker
<1>2. CASE Outage \/ Recover \/ UNCHANGED vars
  <2>1. /\ UNCHANGED <<node, cleared, helper, pending, job, timeout, trouble, written, db,
                       blocks, crashes, due, tangled, first>>
        /\ reachable' \in BOOLEAN
    BY <1>2 DEF Outage, Recover, vars, engine, workers, counts, history, Typed, TypeOK
  <2>2. failures' \in 0..MaxFailures
    BY <1>2, HelperBounds DEF Outage, Recover, Fail, vars, counts, Typed, TypeOK
  <2> QED BY <2>1, <2>2 DEF Typed, TypeOK, EnginesInTurn, AnsweredIsWritten
<1> QED BY <1>1, <1>2, ReflectTyped, ManagerTyped, NewEngineTyped, CrashTyped DEF Next

(* The variables keep their types, a worker that posts has a document, and *)
(* its pause stays within the limits.                                      *)
THEOREM TypeCorrect == Spec => []TypeOK
<1>1. Typed => TypeOK
  BY DEF Typed
<1> QED BY InitTyped, NextTyped, <1>1, PTL DEF Spec

-----------------------------------------------------------------------------
(* The refinement.                                                         *)

LEMMA HandIsLogStep == Typed /\ ReflectBlock => \E h \in Helpers : Promised!Hand(h)
<1> SUFFICES ASSUME Typed, ReflectBlock PROVE \E h \in Helpers : Promised!Hand(h)
  OBVIOUS
<1>1. UNCHANGED <<written, db>>
  BY ReflectFacts
<1>2. PICK docs \in Seq({d \in Document : d.block = blocks'}) : Handed(docs)
  BY ReflectFacts
<1>3. docs \in Seq(Document)
  <2>1. {d \in Document : d.block = blocks'} \subseteq Document
    OBVIOUS
  <2> QED BY <1>2, <2>1, SeqMonotonic
<1>4. /\ helper \in Helpers /\ pending[helper] \in Seq(Document)
      /\ pending \in [Helpers -> Seq(Document)]
  BY DEF Typed, TypeOK
<1>5. IsPrefix(pending[helper], pending[helper] \o docs)
  BY <1>3, <1>4, Joined
<1>6. pending' = [pending EXCEPT ![helper] = pending[helper] \o docs]
  BY <1>2 DEF Handed
<1>7. pending'[helper] = pending[helper] \o docs
  BY <1>4, <1>6
<1>8. Promised!IsPrefix(pending[helper], pending'[helper])
  BY <1>5, <1>7 DEF IsPrefix, Promised!IsPrefix
<1>9. Promised!Hand(helper)
  BY <1>1, <1>6, <1>7, <1>8 DEF Promised!Hand
<1> QED BY <1>4, <1>9

(* Posts write the first document, whether or not the answer arrives.      *)
LEMMA WorkerIsLogStep ==
    ASSUME Typed, NEW h \in Helpers, Worker(h)
    PROVE  Promised!Write(h) \/ Promised!Leave(h) \/ UNCHANGED <<pending, written, db>>
<1>1. CASE TakeDocument(h) \/ WakeUp(h) \/ WorkerEnds(h)
  BY <1>1 DEF TakeDocument, WakeUp, WorkerEnds
<1>2. CASE Post(h) \/ PostFails(h)
  <2>1. job[h] = "post" /\ pending' = pending
    BY <1>2 DEF Post, PostFails, Kept
  <2>2. WriteDocument(h) \/ UNCHANGED <<written, db>>
    BY <1>2 DEF Post, PostFails
  <2>3. pending[h] # <<>>
    BY <2>1, FirstDocument
  <2>4. WriteDocument(h) => Promised!Write(h)
    BY <2>1, <2>3 DEF WriteDocument, Promised!Write
  <2> QED BY <2>1, <2>2, <2>4
<1>3. CASE Answered(h)
  <2>1. written[h]
    BY <1>3 DEF Answered, Typed, AnsweredIsWritten
  <2> QED BY <1>3, <2>1 DEF Answered, Promised!Leave
<1> QED BY <1>1, <1>2, <1>3 DEF Worker

(* A collection is emptied as a whole.                                     *)
LEMMA ClearIsLogStep ==
    ClearCollection \/ ClearFails => Promised!Truncate \/ UNCHANGED <<pending, written, db>>
<1> SUFFICES ASSUME ClearCollection \/ ClearFails
             PROVE  Promised!Truncate \/ UNCHANGED <<pending, written, db>>
  OBVIOUS
<1>1. UNCHANGED <<pending, written>>
  BY DEF ClearCollection, ClearFails, workers
<1>2. db' = db \/ \E coll : db' = {d \in db : d.coll # coll}
  BY DEF ClearCollection, ClearFails, Emptied
<1> QED BY <1>1, <1>2 DEF Promised!Truncate

LEMMA StepIsLogStep == Typed /\ [Next]_vars => [Promised!LogNext]_<<pending, written, db>>
<1> SUFFICES ASSUME Typed, [Next]_vars
             PROVE  Promised!LogNext \/ UNCHANGED <<pending, written, db>>
  OBVIOUS
<1>1. ReflectBlock => Promised!LogNext
  BY HandIsLogStep DEF Promised!LogNext
<1>2. ASSUME NEW h \in Helpers, Worker(h)
      PROVE  Promised!LogNext \/ UNCHANGED <<pending, written, db>>
  BY <1>2, WorkerIsLogStep DEF Promised!LogNext
<1>3. ClearCollection \/ ClearFails => Promised!LogNext \/ UNCHANGED <<pending, written, db>>
  BY ClearIsLogStep DEF Promised!LogNext
<1>4. Crash => Promised!LogNext
  BY DEF Crash, Promised!LogNext, Promised!Lose
<1>5. Stop \/ BeginClear \/ NewEngine \/ Outage \/ Recover \/ UNCHANGED vars
          => UNCHANGED <<pending, written, db>>
  BY DEF Stop, BeginClear, NewEngine, Outage, Recover, vars, workers
<1> QED BY <1>1, <1>2, <1>3, <1>4, <1>5 DEF Next

(* The workers keep the promise of DocumentLog: each document is written   *)
(* before it is left, and in the order of its channel.                     *)
THEOREM WorkersKeepLog == Spec => ImplementsDocumentLog
<1>1. Init => Promised!LogInit
  BY DEF Init, Promised!LogInit
<1>2. Typed /\ [Next]_vars => [Promised!LogNext]_(Promised!logVars)
  BY StepIsLogStep DEF Promised!logVars
<1> QED BY InitTyped, NextTyped, <1>1, <1>2, PTL DEF Spec, ImplementsDocumentLog, Promised!LogSpec

-----------------------------------------------------------------------------
(* The kinds of step, as far as documents are concerned.                   *)

Hands ==
    /\ blocks' = blocks + 1
    /\ UNCHANGED <<db, job>>
    /\ \E docs \in Seq({d \in Document : d.block = blocks'}) : Handed(docs)

Writes(h) ==
    /\ job[h] = "post" /\ \A g \in Helpers : g # h => job'[g] = job[g]
    /\ db' = Written(db, Head(pending[h]))
    /\ UNCHANGED <<pending, due, tangled, blocks>>

Leaves(h) ==
    /\ job[h] = "posted" /\ job' = [job EXCEPT ![h] = "wait"]
    /\ pending' = [pending EXCEPT ![h] = Tail(pending[h])]
    /\ UNCHANGED <<db, due, tangled, blocks>>

Empties ==
    /\ \E coll : Emptied(coll)
    /\ UNCHANGED <<pending, job, tangled, blocks>>

Loses ==
    /\ pending' = [h \in Helpers |-> <<>>]
    /\ due' = {d \in due : d \in db \/ \A h \in Helpers : d \notin Range(pending[h])}
    /\ UNCHANGED <<db, tangled, blocks>>

Waits ==
    /\ \A h \in Helpers : job'[h] = "posted" <=> job[h] = "posted"
    /\ UNCHANGED <<pending, db, due, tangled, blocks>>

LEMMA WorkerKinds ==
    ASSUME Typed, NEW h \in Helpers, Worker(h)
    PROVE  Waits \/ Writes(h) \/ Leaves(h)
<1>1. job \in [Helpers -> {"none", "wait", "post", "posted", "sleep"}]
  BY DEF Typed, TypeOK
<1>2. CASE TakeDocument(h) \/ WakeUp(h) \/ WorkerEnds(h)
  <2>1. /\ UNCHANGED <<pending, db, due, tangled, blocks>>
        /\ job[h] # "posted" /\ \E j \in {"post", "none"} : job' = [job EXCEPT ![h] = j]
    BY <1>2 DEF TakeDocument, WakeUp, WorkerEnds, counts, history
  <2> QED BY <1>1, <2>1 DEF Waits
<1>3. CASE Post(h) \/ PostFails(h)
  <2>1. /\ UNCHANGED <<pending, due, tangled, blocks>>
        /\ job[h] = "post" /\ \E j \in {"posted", "sleep"} : job' = [job EXCEPT ![h] = j]
        /\ job' = [job EXCEPT ![h] = "posted"] => WriteDocument(h)
    BY <1>1, <1>3 DEF Post, PostFails, Kept, AfterError, counts, history
  <2>2. \A g \in Helpers : g # h => job'[g] = job[g]
    BY <1>1, <2>1
  <2>3. WriteDocument(h) \/ (db' = db /\ job' = [job EXCEPT ![h] = "sleep"])
    BY <1>3 DEF Post, PostFails, AfterError
  <2>4. WriteDocument(h) => Writes(h)
    BY <2>1, <2>2 DEF WriteDocument, Writes
  <2>5. db' = db /\ job' = [job EXCEPT ![h] = "sleep"] => Waits
    BY <1>1, <2>1 DEF Waits
  <2> QED BY <2>3, <2>4, <2>5
<1>4. CASE Answered(h)
  BY <1>4 DEF Answered, Leaves, counts, history
<1> QED BY <1>2, <1>3, <1>4 DEF Worker

LEMMA StepKinds ==
    ASSUME Typed, [Next]_vars
    PROVE  \/ Hands \/ Empties \/ Loses \/ Waits
           \/ \E h \in Helpers : Writes(h) \/ Leaves(h)
<1>1. ReflectBlock => Hands
  BY ReflectFacts DEF Hands
<1>2. ASSUME NEW h \in Helpers, Worker(h) PROVE Waits \/ Writes(h) \/ Leaves(h)
  BY <1>2, WorkerKinds
<1>3. ClearCollection \/ ClearFails => Empties \/ Waits
  <2>1. ClearCollection \/ ClearFails => UNCHANGED <<pending, job, tangled, blocks>>
    BY DEF ClearCollection, ClearFails, workers, counts
  <2>2. ClearCollection \/ ClearFails => UNCHANGED <<db, due>> \/ \E coll : Emptied(coll)
    BY DEF ClearCollection, ClearFails
  <2> QED BY <2>1, <2>2 DEF Empties, Waits
<1>4. Crash => Loses
  BY DEF Crash, Loses
<1>5. NewEngine => Waits
  <2> SUFFICES ASSUME NewEngine PROVE Waits
    OBVIOUS
  <2>1. /\ UNCHANGED <<pending, db, due, tangled, blocks>>
        /\ job' = [job EXCEPT ![helper + 1] = "wait"] /\ helper < MaxHelpers
    BY DEF NewEngine, counts, history, Typed, EnginesInTurn
  <2>2. helper \in Helpers /\ MaxHelpers \in Nat
    BY HelperBounds DEF Typed, TypeOK
  <2>3. helper + 1 \in Helpers /\ helper + 1 > helper
    BY <2>1, <2>2 DEF Helpers
  <2>4. job[helper + 1] = "none"
    BY <2>3 DEF Typed, EnginesInTurn
  <2>5. job \in [Helpers -> {"none", "wait", "post", "posted", "sleep"}]
    BY DEF Typed, TypeOK
  <2>6. \A h \in Helpers : job'[h] = IF h = helper + 1 THEN "wait" ELSE job[h]
    BY <2>1, <2>3, <2>5
  <2> QED BY <2>1, <2>4, <2>6 DEF Waits
<1>6. Stop \/ BeginClear \/ Outage \/ Recover \/ UNCHANGED vars => Waits
  <2>1. Stop \/ BeginClear \/ Outage \/ Recover \/ UNCHANGED vars
            => UNCHANGED <<pending, job, db, due, tangled, blocks>>
    BY DEF Stop, BeginClear, Outage, Recover, vars, workers, counts, history
  <2> QED BY <2>1 DEF Waits
<1> QED BY <1>1, <1>2, <1>3, <1>4, <1>5, <1>6 DEF Next

-----------------------------------------------------------------------------
(* The order of the documents.                                             *)

LEMMA Channels ==
    ASSUME Typed, NEW h \in Helpers
    PROVE  /\ pending[h] \in Seq(Document)
           /\ Len(pending[h]) \in Nat /\ DOMAIN pending[h] = 1..Len(pending[h])
           /\ \A d \in Range(pending[h]) : d \in Document
<1>1. pending[h] \in Seq(Document)
  BY DEF Typed, TypeOK
<1> QED BY <1>1, Places

LEMMA BlockNumbers ==
    /\ \A d \in Document : d.block \in Nat
    /\ Typed => blocks \in Nat /\ due \subseteq Document /\ db \subseteq Document
BY DEF Document, Typed, TypeOK

(* Nothing gets out of order when channels and database only lose some.    *)
LEMMA LessIsInOrder ==
    ASSUME OrderInv, ChannelsInOrder',
           db' \subseteq db, due' \subseteq due, tangled' = tangled, blocks' = blocks,
           \A h \in Helpers : Range(pending'[h]) \subseteq Range(pending[h])
    PROVE  OrderInv'
<1>1. NoneFromLater'
  BY DEF OrderInv, NoneFromLater
<1>2. SharedAreTangled'
  BY DEF OrderInv, SharedAreTangled
<1>3. NoneOvertaken'
  BY DEF OrderInv, NoneOvertaken
<1> QED BY <1>1, <1>2, <1>3 DEF OrderInv

LEMMA LeavesInOrder ==
    ASSUME Typed, OrderInv, NEW h \in Helpers, Leaves(h)
    PROVE  OrderInv'
<1> DEFINE s == pending[h]
<1>1. s \in Seq(Document) /\ s # <<>>
  BY FirstDocument DEF Leaves
<1>2. /\ DOMAIN Tail(s) = 1..Len(s) - 1 /\ Len(s) \in Nat
      /\ \A i \in 1..Len(s) - 1 : Tail(s)[i] = s[i + 1] /\ i + 1 \in DOMAIN s
      /\ Range(Tail(s)) \subseteq Range(s)
  BY <1>1, Rest
<1>3. \A g \in Helpers : pending'[g] = IF g = h THEN Tail(s) ELSE pending[g]
  BY DEF Leaves, Typed, TypeOK
<1>4. \A i, j \in DOMAIN s : i <= j => s[i].block <= s[j].block
  BY DEF OrderInv, ChannelsInOrder
<1> HIDE DEF s
<1>5. \A i, j \in DOMAIN Tail(s) : i <= j => Tail(s)[i].block <= Tail(s)[j].block
  <2> SUFFICES ASSUME NEW i \in DOMAIN Tail(s), NEW j \in DOMAIN Tail(s), i <= j
               PROVE  Tail(s)[i].block <= Tail(s)[j].block
    OBVIOUS
  <2>1. i \in 1..Len(s) - 1 /\ j \in 1..Len(s) - 1 /\ i + 1 <= j + 1
    BY <1>2
  <2> QED BY <1>2, <1>4, <2>1
<1>6. ChannelsInOrder'
  BY <1>3, <1>5 DEF OrderInv, ChannelsInOrder
<1>7. \A g \in Helpers : Range(pending'[g]) \subseteq Range(pending[g])
  BY <1>2, <1>3 DEF s
<1> QED BY <1>6, <1>7, LessIsInOrder DEF Leaves

LEMMA LosesInOrder == OrderInv /\ (Loses \/ Empties \/ Waits) => OrderInv'
<1> SUFFICES ASSUME OrderInv, Loses \/ Empties \/ Waits PROVE OrderInv'
  OBVIOUS
<1>1. db' \subseteq db /\ due' \subseteq due /\ tangled' = tangled /\ blocks' = blocks
  BY DEF Loses, Empties, Waits, Emptied
<1>2. pending' = pending \/ pending' = [h \in Helpers |-> <<>>]
  BY DEF Loses, Empties, Waits
<1>3. \A h \in Helpers : pending'[h] = pending[h] \/ pending'[h] = <<>>
  BY <1>2
<1>4. \A h \in Helpers : Range(pending'[h]) \subseteq Range(pending[h])
  BY <1>3, NothingLeft
<1>5. ChannelsInOrder'
  BY <1>3, NothingLeft DEF OrderInv, ChannelsInOrder
<1> QED BY <1>1, <1>4, <1>5, LessIsInOrder

(* A document that is written is not newer than those behind it.           *)
LEMMA WritesInOrder ==
    ASSUME Typed, OrderInv, NEW h \in Helpers, Writes(h)
    PROVE  OrderInv'
<1> DEFINE p == Head(pending[h])
<1>1. pending[h] \in Seq(Document) /\ pending[h] # <<>>
  BY FirstDocument DEF Writes
<1>2. /\ p = pending[h][1] /\ 1 \in DOMAIN pending[h] /\ p \in Range(pending[h])
  BY <1>1, Rest
<1>3. UNCHANGED <<pending, due, tangled, blocks>>
  BY DEF Writes
<1>4. db' \subseteq db \union {p}
  BY DEF Writes, Written
<1> HIDE DEF p
<1>5. ASSUME NEW g \in Helpers, NEW e \in Range(pending[g]), SameKey(p, e)
      PROVE  Key(p) \in tangled \/ p.block <= e.block
  <2>1. CASE g # h
    BY <1>2, <1>5, <2>1 DEF OrderInv, SharedAreTangled
  <2>2. CASE g = h
    <3>1. PICK j \in DOMAIN pending[h] : pending[h][j] = e
      BY <2>2 DEF Range
    <3>2. 1 <= j
      BY <3>1, Channels
    <3> QED BY <1>2, <3>1, <3>2 DEF OrderInv, ChannelsInOrder
  <2> QED BY <2>1, <2>2
<1>6. NoneOvertaken'
  BY <1>3, <1>4, <1>5 DEF OrderInv, NoneOvertaken
<1>7. ChannelsInOrder' /\ NoneFromLater' /\ SharedAreTangled'
  BY <1>3 DEF OrderInv, ChannelsInOrder, NoneFromLater, SharedAreTangled
<1> QED BY <1>6, <1>7 DEF OrderInv

(* What a block hands over, at its places in the channel.                  *)
LEMMA HandedFacts ==
    ASSUME Typed, NEW docs \in Seq({d \in Document : d.block = blocks'}), Handed(docs)
    PROVE  /\ helper \in Helpers
           /\ \A h \in Helpers : h # helper => pending'[h] = pending[h]
           /\ Range(pending'[helper]) = Range(pending[helper]) \union Range(docs)
           /\ \A d \in Range(docs) : d.block = blocks' /\ d \in Document
           /\ DOMAIN pending[helper] \subseteq DOMAIN pending'[helper]
           /\ \A i \in DOMAIN pending[helper] : pending'[helper][i] = pending[helper][i]
           /\ \A i \in DOMAIN pending'[helper] \ DOMAIN pending[helper] :
                 /\ pending'[helper][i] \in Range(docs)
                 /\ i > 1 \/ pending[helper] = <<>>
           /\ \A i \in DOMAIN pending'[helper], j \in DOMAIN pending[helper] :
                 i <= j => i \in DOMAIN pending[helper]
           /\ \A d \in Range(docs) :
                 \E i \in DOMAIN pending'[helper] \ DOMAIN pending[helper] : pending'[helper][i] = d
<1> DEFINE s == pending[helper]
           D == {d \in Document : d.block = blocks'}
<1>1. helper \in Helpers /\ pending \in [Helpers -> Seq(Document)]
  BY DEF Typed, TypeOK
<1>2. s \in Seq(Document) /\ docs \in Seq(Document) /\ docs \in Seq(D)
  <2>1. D \subseteq Document
    OBVIOUS
  <2> QED BY <1>1, <2>1, SeqMonotonic
<1>3. pending' = [pending EXCEPT ![helper] = s \o docs]
  BY DEF Handed
<1>4. /\ pending'[helper] = s \o docs
      /\ \A h \in Helpers : h # helper => pending'[h] = pending[h]
  BY <1>1, <1>3
<1>5. /\ DOMAIN s = 1..Len(s) /\ Len(s) \in Nat
      /\ DOMAIN docs = 1..Len(docs) /\ Len(docs) \in Nat
      /\ \A d : d \in Range(docs) <=> \E i \in 1..Len(docs) : docs[i] = d
      /\ \A d \in Range(docs) : d \in D
  BY <1>2, Places
<1> DEFINE u == s \o docs
<1>6. /\ DOMAIN u = 1..Len(s) + Len(docs)
      /\ \A i \in 1..Len(s) : u[i] = s[i]
      /\ \A i \in Len(s) + 1..Len(s) + Len(docs) :
            u[i] = docs[i - Len(s)] /\ i - Len(s) \in 1..Len(docs)
      /\ Range(u) = Range(s) \union Range(docs)
  BY <1>2, Joined
<1>7. s = <<>> \/ Len(s) >= 1
  <2>1. s # <<>> => Len(s) # 0
    BY <1>2, EmptySeq
  <2> QED BY <1>5, <2>1
<1> HIDE DEF s, u
<1>8. DOMAIN s \subseteq DOMAIN u /\ \A i \in DOMAIN s : u[i] = s[i]
  BY <1>5, <1>6
<1>9. \A i \in DOMAIN u \ DOMAIN s : i \in Len(s) + 1..Len(s) + Len(docs)
  BY <1>5, <1>6
<1>10. ASSUME NEW i \in DOMAIN u \ DOMAIN s
       PROVE  u[i] \in Range(docs) /\ (i > 1 \/ s = <<>>)
  <2>1. i \in Len(s) + 1..Len(s) + Len(docs)
    BY <1>9
  <2>2. u[i] = docs[i - Len(s)] /\ i - Len(s) \in 1..Len(docs)
    BY <1>6, <2>1
  <2>3. u[i] \in Range(docs)
    BY <1>5, <2>2
  <2>4. i > 1 \/ s = <<>>
    BY <1>5, <1>7, <2>1
  <2> QED BY <2>3, <2>4
<1>11. \A i \in DOMAIN u, j \in DOMAIN s : i <= j => i \in DOMAIN s
  BY <1>5, <1>6
<1>12. ASSUME NEW d \in Range(docs)
       PROVE  \E i \in DOMAIN u \ DOMAIN s : u[i] = d
  <2>1. PICK k \in 1..Len(docs) : docs[k] = d
    BY <1>5
  <2>2. k + Len(s) \in Len(s) + 1..Len(s) + Len(docs) /\ (k + Len(s)) - Len(s) = k
    BY <1>5, <2>1
  <2>3. u[k + Len(s)] = d
    BY <1>6, <2>1, <2>2
  <2>4. k + Len(s) \in DOMAIN u \ DOMAIN s
    BY <1>5, <1>6, <2>1
  <2> QED BY <2>3, <2>4
<1> QED BY <1>1, <1>4, <1>5, <1>6, <1>8, <1>10, <1>11, <1>12 DEF s, u

LEMMA HandsInOrder == Typed /\ OrderInv /\ ContentInv /\ Hands => OrderInv'
<1> SUFFICES ASSUME Typed, OrderInv, ContentInv, Hands PROVE OrderInv'
  OBVIOUS
<1>1. blocks' = blocks + 1 /\ db' = db /\ blocks \in Nat
  BY BlockNumbers DEF Hands
<1>2. PICK docs \in Seq({d \in Document : d.block = blocks'}) : Handed(docs)
  BY DEF Hands
<1>3. /\ due' = due \union Range(docs)
      /\ tangled' = tangled \union
            {Key(d) : d \in {e \in Range(docs) :
                \E h \in Helpers \ {helper} : \E o \in Range(pending[h]) : SameKey(o, e)}}
  BY <1>2 DEF Handed
<1>4. /\ helper \in Helpers
      /\ \A h \in Helpers : h # helper => pending'[h] = pending[h]
      /\ Range(pending'[helper]) = Range(pending[helper]) \union Range(docs)
      /\ \A d \in Range(docs) : d.block = blocks'
  BY <1>2, HandedFacts
<1>5. /\ \A i \in DOMAIN pending[helper] : pending'[helper][i] = pending[helper][i]
      /\ \A i \in DOMAIN pending'[helper] \ DOMAIN pending[helper] :
            pending'[helper][i] \in Range(docs)
      /\ \A i \in DOMAIN pending'[helper], j \in DOMAIN pending[helper] :
            i <= j => i \in DOMAIN pending[helper]
  BY <1>2, HandedFacts
<1>6. \A h \in Helpers : \A d \in Range(pending[h]) : d.block \in Nat /\ d.block <= blocks
  BY Channels, BlockNumbers DEF OrderInv, NoneFromLater
<1>7. \A d \in due : d.block \in Nat /\ d.block <= blocks
  BY BlockNumbers DEF OrderInv, NoneFromLater
<1>8. \A h \in Helpers : \A d \in Range(pending'[h]) :
          d \in Range(pending[h]) \/ (h = helper /\ d \in Range(docs))
  BY <1>4
<1>9. ChannelsInOrder'
  <2> SUFFICES ASSUME NEW h \in Helpers, NEW i \in DOMAIN pending'[h], NEW j \in DOMAIN pending'[h],
                      i <= j
               PROVE  pending'[h][i].block <= pending'[h][j].block
    BY DEF ChannelsInOrder
  <2>1. CASE h # helper
    BY <1>4, <2>1 DEF OrderInv, ChannelsInOrder
  <2>2. CASE h = helper /\ j \in DOMAIN pending[h]
    <3>1. i \in DOMAIN pending[h]
      BY <1>5, <2>2
    <3> QED BY <1>5, <2>2, <3>1 DEF OrderInv, ChannelsInOrder
  <2>3. CASE h = helper /\ j \notin DOMAIN pending[h]
    <3>1. pending'[h][j].block = blocks'
      BY <1>4, <1>5, <2>3
    <3>2. pending'[h][i] \in Range(pending[h]) \/ pending'[h][i].block = blocks'
      BY <1>4, <1>5, <2>3 DEF Range
    <3> QED BY <1>1, <1>6, <3>1, <3>2
  <2> QED BY <2>1, <2>2, <2>3
<1>10. NoneFromLater'
  <2>1. \A h \in Helpers : \A d \in Range(pending'[h]) : d.block <= blocks'
    BY <1>1, <1>4, <1>6, <1>8
  <2>2. \A d \in due' : d.block <= blocks'
    BY <1>1, <1>3, <1>4, <1>7
  <2> QED BY <2>1, <2>2 DEF NoneFromLater
<1>11. SharedAreTangled'
  <2> SUFFICES ASSUME NEW g \in Helpers, NEW h \in Helpers, g # h,
                      NEW d \in Range(pending'[g]), NEW e \in Range(pending'[h]), SameKey(d, e)
               PROVE  Key(d) \in tangled'
    BY DEF SharedAreTangled
  <2>1. Key(d) = Key(e)
    BY DEF SameKey
  <2>2. CASE d \in Range(pending[g]) /\ e \in Range(pending[h])
    BY <1>3, <2>2 DEF OrderInv, SharedAreTangled
  <2>3. CASE g = helper /\ d \in Range(docs)
    <3>1. h # helper /\ e \in Range(pending[h]) /\ SameKey(e, d)
      BY <1>4, <2>1, <2>3 DEF SameKey
    <3> QED BY <1>3, <2>3, <3>1
  <2>4. CASE h = helper /\ e \in Range(docs)
    <3>1. g # helper /\ d \in Range(pending[g]) /\ SameKey(d, e)
      BY <1>4, <2>4
    <3> QED BY <1>3, <2>1, <2>4, <3>1
  <2> QED BY <1>8, <2>2, <2>3, <2>4
<1>12. NoneOvertaken'
  <2> SUFFICES ASSUME NEW d \in db, NEW h \in Helpers, NEW e \in Range(pending'[h]), SameKey(d, e)
               PROVE  Key(d) \in tangled' \/ d.block <= e.block
    BY <1>1 DEF NoneOvertaken
  <2>1. CASE e \in Range(pending[h])
    BY <1>3, <2>1 DEF OrderInv, NoneOvertaken
  <2>2. CASE e \in Range(docs)
    <3>1. d \in due
      BY DEF ContentInv, DueInv
    <3> QED BY <1>1, <1>4, <1>7, <2>2, <3>1
  <2> QED BY <1>8, <2>1, <2>2
<1> QED BY <1>9, <1>10, <1>11, <1>12 DEF OrderInv

-----------------------------------------------------------------------------
(* The contents of the database.                                           *)

(* A document that is in the database covers itself.                       *)
LEMMA CoversItself ==
    ASSUME NEW d \in db, d \in Document
    PROVE  Covered(d)
<1>1. d.block <= d.block
  BY BlockNumbers
<1> QED BY <1>1 DEF Covered, SameKey

LEMMA HandsContent == Typed /\ ContentInv /\ Hands => ContentInv'
<1> SUFFICES ASSUME Typed, ContentInv, Hands PROVE ContentInv'
  OBVIOUS
<1>1. db' = db /\ job' = job
  BY DEF Hands
<1>2. PICK docs \in Seq({d \in Document : d.block = blocks'}) : Handed(docs)
  BY DEF Hands
<1>3. due' = due \union Range(docs) /\ tangled \subseteq tangled'
  BY <1>2 DEF Handed
<1>4. /\ helper \in Helpers
      /\ \A h \in Helpers : h # helper => pending'[h] = pending[h]
  BY <1>2, HandedFacts
<1>5. /\ DOMAIN pending[helper] \subseteq DOMAIN pending'[helper]
      /\ \A i \in DOMAIN pending[helper] : pending'[helper][i] = pending[helper][i]
      /\ \A i \in DOMAIN pending'[helper] \ DOMAIN pending[helper] :
            /\ pending'[helper][i] \in Range(docs)
            /\ i > 1 \/ pending[helper] = <<>>
      /\ \A d \in Range(docs) :
            \E i \in DOMAIN pending'[helper] \ DOMAIN pending[helper] : pending'[helper][i] = d
  BY <1>2, HandedFacts
<1>6. ASSUME NEW d, ToBeWritten(d) PROVE ToBeWritten(d)'
  <2>1. PICK h \in Helpers : \E i \in DOMAIN pending[h] :
            pending[h][i] = d /\ (i > 1 \/ job[h] # "posted")
    BY <1>6 DEF ToBeWritten
  <2>2. PICK i \in DOMAIN pending[h] : pending[h][i] = d /\ (i > 1 \/ job[h] # "posted")
    BY <2>1
  <2>3. i \in DOMAIN pending'[h] /\ pending'[h][i] = d
    BY <1>4, <1>5, <2>2
  <2> QED BY <1>1, <2>2, <2>3 DEF ToBeWritten
<1>7. ASSUME NEW d, ToBeWritten(d)' PROVE ToBeWritten(d) \/ d \in Range(docs)
  <2>1. PICK h \in Helpers : \E i \in DOMAIN pending'[h] :
            pending'[h][i] = d /\ (i > 1 \/ job'[h] # "posted")
    BY <1>7 DEF ToBeWritten
  <2>2. PICK i \in DOMAIN pending'[h] : pending'[h][i] = d /\ (i > 1 \/ job'[h] # "posted")
    BY <2>1
  <2>3. (i \in DOMAIN pending[h] /\ pending[h][i] = d) \/ d \in Range(docs)
    BY <1>4, <1>5, <2>2
  <2> QED BY <1>1, <2>2, <2>3 DEF ToBeWritten
<1>8. ASSUME NEW d \in Range(docs) PROVE ToBeWritten(d)'
  <2>1. PICK i \in DOMAIN pending'[helper] \ DOMAIN pending[helper] : pending'[helper][i] = d
    BY <1>5
  <2>2. i > 1 \/ pending[helper] = <<>>
    BY <1>5
  <2>3. pending[helper] = <<>> => job[helper] # "posted"
    BY <1>4 DEF Typed, TypeOK
  <2> QED BY <1>1, <1>4, <2>1, <2>2, <2>3 DEF ToBeWritten
<1>9. DueInv'
  BY <1>1, <1>3, <1>7 DEF ContentInv, DueInv
<1>10. OneOfAKey'
  BY <1>1 DEF ContentInv, OneOfAKey
<1>11. \A d : Covered(d) => Covered(d)'
  BY <1>1 DEF Covered
<1>12. DueIsCovered'
  BY <1>3, <1>6, <1>8, <1>11 DEF ContentInv, DueIsCovered
<1> QED BY <1>9, <1>10, <1>12 DEF ContentInv

(* A document is written over what it covers at least as well.             *)
LEMMA WritesContent ==
    ASSUME Typed, OrderInv, ContentInv, NEW h \in Helpers, Writes(h)
    PROVE  ContentInv'
<1>0. PICK p : p = Head(pending[h])
  OBVIOUS
<1>1. pending[h] \in Seq(Document) /\ pending[h] # <<>> /\ p \in Document
  BY <1>0, FirstDocument DEF Writes
<1>2. /\ p = pending[h][1] /\ 1 \in DOMAIN pending[h] /\ p \in Range(pending[h])
  BY <1>0, <1>1, Rest
<1>3. /\ UNCHANGED <<pending, due, tangled>> /\ job[h] = "post"
      /\ \A g \in Helpers : g # h => job'[g] = job[g]
  BY DEF Writes
<1>4. db' = {e \in db : Updated(p) \/ ~SameKey(p, e)} \union {p}
  BY <1>0 DEF Writes, Written
<1>5. db \subseteq Document /\ due \subseteq Document
  BY BlockNumbers
<1>6. ToBeWritten(p)
  BY <1>2, <1>3 DEF ToBeWritten
<1>7. \A d : ToBeWritten(d)' => ToBeWritten(d)
  BY <1>3 DEF ToBeWritten
<1>8. ASSUME NEW d, ToBeWritten(d), d # p PROVE ToBeWritten(d)'
  <2>1. PICK g \in Helpers : \E i \in DOMAIN pending[g] :
            pending[g][i] = d /\ (i > 1 \/ job[g] # "posted")
    BY <1>8 DEF ToBeWritten
  <2>2. PICK i \in DOMAIN pending[g] : pending[g][i] = d /\ (i > 1 \/ job[g] # "posted")
    BY <2>1
  <2>3. CASE g # h
    BY <1>3, <2>2, <2>3 DEF ToBeWritten
  <2>4. CASE g = h
    <3>1. i # 1
      BY <1>2, <1>8, <2>2, <2>4
    <3>2. i > 1
      BY <2>2, <3>1, Channels
    <3> QED BY <1>3, <2>2, <3>2 DEF ToBeWritten
  <2> QED BY <2>3, <2>4
<1>9. DueInv'
  BY <1>3, <1>4, <1>6, <1>7 DEF ContentInv, DueInv
<1>10. OneOfAKey'
  BY <1>4 DEF ContentInv, OneOfAKey, SameKey, Key, Updated
<1>11. Covered(p)'
  <2>1. p.block <= p.block
    BY <1>1, BlockNumbers
  <2>2. p \in db' /\ SameKey(p, p)
    BY <1>4 DEF SameKey
  <2> QED BY <2>1, <2>2 DEF Covered
<1>12. ASSUME NEW d \in due, Covered(d) PROVE Covered(d)' \/ Key(d) \in tangled
  <2>1. PICK e \in db : SameKey(d, e) /\ IF Updated(d) THEN e = d ELSE d.block <= e.block
    BY <1>12 DEF Covered
  <2>2. CASE e \in db'
    BY <2>1, <2>2 DEF Covered
  <2>3. CASE e \notin db'
    <3>1. ~Updated(p) /\ SameKey(p, e) /\ SameKey(e, p) /\ SameKey(d, p)
      BY <1>4, <2>1, <2>3 DEF SameKey
    <3>2. ~Updated(d) /\ Key(d) = Key(e)
      BY <3>1, <2>1 DEF SameKey, Key, Updated
    <3>3. d.block <= e.block
      BY <2>1, <3>2
    <3>4. Key(e) \in tangled \/ e.block <= p.block
      BY <1>2, <3>1 DEF OrderInv, NoneOvertaken
    <3>5. d.block \in Nat /\ e.block \in Nat /\ p.block \in Nat
      BY <1>1, <1>5, <2>1, BlockNumbers
    <3>6. Key(d) \in tangled \/ d.block <= p.block
      BY <3>2, <3>3, <3>4, <3>5
    <3> QED BY <1>4, <3>1, <3>2, <3>6 DEF Covered
  <2> QED BY <2>2, <2>3
<1>13. DueIsCovered'
  <2> SUFFICES ASSUME NEW d \in due
               PROVE  ToBeWritten(d)' \/ Covered(d)' \/ Key(d) \in tangled
    BY <1>3 DEF DueIsCovered
  <2>1. ToBeWritten(d) \/ Covered(d) \/ Key(d) \in tangled
    BY DEF ContentInv, DueIsCovered
  <2>2. CASE ToBeWritten(d) /\ d # p
    BY <1>8, <2>2
  <2>3. CASE d = p
    BY <1>11, <2>3
  <2>4. CASE Covered(d)
    BY <1>12, <2>4
  <2> QED BY <2>1, <2>2, <2>3, <2>4
<1> QED BY <1>9, <1>10, <1>13 DEF ContentInv

LEMMA LeavesContent ==
    ASSUME Typed, ContentInv, NEW h \in Helpers, Leaves(h)
    PROVE  ContentInv'
<1> DEFINE s == pending[h]
<1>1. s \in Seq(Document) /\ s # <<>>
  BY FirstDocument DEF Leaves
<1>2. /\ DOMAIN Tail(s) = 1..Len(s) - 1 /\ Len(s) \in Nat /\ DOMAIN s = 1..Len(s)
      /\ \A i \in 1..Len(s) - 1 : Tail(s)[i] = s[i + 1] /\ i + 1 \in DOMAIN s
  BY <1>1, Rest, Channels
<1>3. /\ \A g \in Helpers : pending'[g] = IF g = h THEN Tail(s) ELSE pending[g]
      /\ \A g \in Helpers : job'[g] = IF g = h THEN "wait" ELSE job[g]
      /\ job[h] = "posted" /\ UNCHANGED <<db, due, tangled>>
  BY DEF Leaves, Typed, TypeOK
<1>4. ASSUME NEW d, ToBeWritten(d) PROVE ToBeWritten(d)'
  <2>1. PICK g \in Helpers : \E i \in DOMAIN pending[g] :
            pending[g][i] = d /\ (i > 1 \/ job[g] # "posted")
    BY <1>4 DEF ToBeWritten
  <2>2. PICK i \in DOMAIN pending[g] : pending[g][i] = d /\ (i > 1 \/ job[g] # "posted")
    BY <2>1
  <2>3. CASE g # h
    BY <1>3, <2>2, <2>3 DEF ToBeWritten
  <2>4. CASE g = h
    <3>1. i \in 1..Len(s) /\ i > 1
      BY <1>2, <1>3, <2>2, <2>4
    <3>2. i - 1 \in 1..Len(s) - 1 /\ (i - 1) + 1 = i
      BY <1>2, <3>1
    <3>3. Tail(s)[i - 1] = d /\ i - 1 \in DOMAIN Tail(s)
      BY <1>2, <2>2, <2>4, <3>2
    <3>4. pending'[h] = Tail(s) /\ job'[h] # "posted"
      BY <1>3
    <3> QED BY <3>3, <3>4 DEF ToBeWritten
  <2> QED BY <2>3, <2>4
<1>5. ASSUME NEW d, ToBeWritten(d)' PROVE ToBeWritten(d)
  <2>1. PICK g \in Helpers : \E i \in DOMAIN pending'[g] :
            pending'[g][i] = d /\ (i > 1 \/ job'[g] # "posted")
    BY <1>5 DEF ToBeWritten
  <2>2. PICK i \in DOMAIN pending'[g] : pending'[g][i] = d /\ (i > 1 \/ job'[g] # "posted")
    BY <2>1
  <2>3. CASE g # h
    BY <1>3, <2>2, <2>3 DEF ToBeWritten
  <2>4. CASE g = h
    <3>1. i \in 1..Len(s) - 1 /\ Tail(s)[i] = d
      BY <1>2, <1>3, <2>2, <2>4
    <3>2. s[i + 1] = d /\ i + 1 \in DOMAIN s /\ i + 1 > 1
      BY <1>2, <3>1
    <3> QED BY <3>2 DEF ToBeWritten
  <2> QED BY <2>3, <2>4
<1> HIDE DEF s
<1>6. DueInv'
  BY <1>3, <1>5 DEF ContentInv, DueInv
<1>7. OneOfAKey'
  BY <1>3 DEF ContentInv, OneOfAKey
<1>8. \A d : Covered(d) => Covered(d)'
  BY <1>3 DEF Covered
<1>9. DueIsCovered'
  BY <1>3, <1>4, <1>8 DEF ContentInv, DueIsCovered
<1> QED BY <1>6, <1>7, <1>9 DEF ContentInv

(* A collection loses all its documents but those still to be written.     *)
LEMMA EmptiesContent == ContentInv /\ Empties => ContentInv'
<1> SUFFICES ASSUME ContentInv, Empties PROVE ContentInv'
  OBVIOUS
<1>1. PICK coll : Emptied(coll)
  BY DEF Empties
<1>2. /\ db' = {d \in db : d.coll # coll}
      /\ due' = {d \in due : d.coll # coll \/ ToBeWritten(d)}
      /\ tangled' = tangled
  BY <1>1 DEF Emptied, Empties
<1>3. \A d : ToBeWritten(d)' <=> ToBeWritten(d)
  BY DEF Empties, ToBeWritten
<1>4. DueInv'
  BY <1>2, <1>3 DEF ContentInv, DueInv
<1>5. OneOfAKey'
  BY <1>2 DEF ContentInv, OneOfAKey
<1>6. ASSUME NEW d, d.coll # coll, Covered(d) PROVE Covered(d)'
  <2>1. PICK e \in db : SameKey(d, e) /\ IF Updated(d) THEN e = d ELSE d.block <= e.block
    BY <1>6 DEF Covered
  <2>2. e.coll = d.coll
    BY <2>1 DEF SameKey, Key
  <2>3. e \in db'
    BY <1>2, <1>6, <2>2
  <2> QED BY <2>1, <2>3 DEF Covered
<1>7. DueIsCovered'
  <2> SUFFICES ASSUME NEW d \in due' PROVE ToBeWritten(d)' \/ Covered(d)' \/ Key(d) \in tangled'
    BY DEF DueIsCovered
  <2>1. d \in due /\ (d.coll # coll \/ ToBeWritten(d))
    BY <1>2
  <2>2. ToBeWritten(d) \/ Covered(d) \/ Key(d) \in tangled
    BY <2>1 DEF ContentInv, DueIsCovered
  <2> QED BY <1>2, <1>3, <1>6, <2>1, <2>2
<1> QED BY <1>4, <1>5, <1>7 DEF ContentInv

(* A crash takes what is only in a channel.                                *)
LEMMA LosesContent == Typed /\ ContentInv /\ Loses => ContentInv'
<1> SUFFICES ASSUME Typed, ContentInv, Loses PROVE ContentInv'
  OBVIOUS
<1>1. /\ due' = {d \in due : d \in db \/ \A h \in Helpers : d \notin Range(pending[h])}
      /\ db' = db /\ tangled' = tangled
      /\ \A h \in Helpers : pending'[h] = <<>>
  BY DEF Loses
<1>2. \A d : ~ToBeWritten(d)'
  BY <1>1, NothingLeft DEF ToBeWritten
<1>3. DueInv' /\ OneOfAKey'
  BY <1>1, <1>2 DEF ContentInv, DueInv, OneOfAKey
<1>4. \A d : Covered(d) => Covered(d)'
  BY <1>1 DEF Covered
<1>5. \A d : ToBeWritten(d) => \E h \in Helpers : d \in Range(pending[h])
  BY DEF ToBeWritten, Range
<1>6. ASSUME NEW d \in due' PROVE Covered(d) \/ Key(d) \in tangled
  <2>1. CASE d \in db
    BY <2>1, BlockNumbers, CoversItself
  <2>2. CASE d \notin db
    BY <1>1, <1>5, <2>2 DEF ContentInv, DueIsCovered
  <2> QED BY <2>1, <2>2
<1>7. DueIsCovered'
  BY <1>1, <1>4, <1>6 DEF DueIsCovered
<1> QED BY <1>3, <1>7 DEF ContentInv

LEMMA WaitsContent == ContentInv /\ Waits => ContentInv'
<1> SUFFICES ASSUME ContentInv, Waits PROVE ContentInv'
  OBVIOUS
<1>1. UNCHANGED <<pending, db, due, tangled>>
  BY DEF Waits
<1>2. \A d : ToBeWritten(d)' <=> ToBeWritten(d)
  BY DEF Waits, ToBeWritten
<1>3. \A d : Covered(d)' <=> Covered(d)
  BY <1>1 DEF Covered
<1> QED BY <1>1, <1>2, <1>3 DEF ContentInv, DueInv, OneOfAKey, DueIsCovered

-----------------------------------------------------------------------------

LEMMA InitIInv == Init => IInv
<1> SUFFICES ASSUME Init PROVE IInv
  OBVIOUS
<1>1. db = {} /\ due = {} /\ \A h \in Helpers : pending[h] = <<>>
  BY DEF Init
<1>2. \A d : ~ToBeWritten(d)
  BY <1>1, NothingLeft DEF ToBeWritten
<1>3. OrderInv
  BY <1>1, NothingLeft
     DEF OrderInv, ChannelsInOrder, NoneFromLater, SharedAreTangled, NoneOvertaken
<1>4. ContentInv
  BY <1>1, <1>2 DEF ContentInv, DueInv, OneOfAKey, DueIsCovered
<1> QED BY <1>3, <1>4, InitTyped DEF IInv

LEMMA NextKeepsIInv == IInv /\ [Next]_vars => IInv'
<1> SUFFICES ASSUME IInv, [Next]_vars PROVE IInv'
  OBVIOUS
<1>1. Typed /\ OrderInv /\ ContentInv /\ Typed'
  BY NextTyped DEF IInv
<1>2. ASSUME NEW h \in Helpers, Writes(h) \/ Leaves(h) PROVE OrderInv' /\ ContentInv'
  BY <1>1, <1>2, WritesInOrder, LeavesInOrder, WritesContent, LeavesContent
<1>3. Hands => OrderInv' /\ ContentInv'
  BY <1>1, HandsInOrder, HandsContent
<1>4. Empties \/ Loses \/ Waits => OrderInv' /\ ContentInv'
  BY <1>1, LosesInOrder, EmptiesContent, LosesContent, WaitsContent
<1>5. OrderInv' /\ ContentInv'
  BY <1>1, <1>2, <1>3, <1>4, StepKinds
<1> QED BY <1>1, <1>5 DEF IInv

(* Every due document of a key is covered once no worker has one of it.    *)
LEMMA ContentIsDue == IInv => DatabaseFollowsLog
<1> SUFFICES ASSUME IInv, NEW d \in due \union db,
                    \A h \in Helpers : {e \in Range(pending[h]) : SameKey(d, e)} = {},
                    Key(d) \notin tangled
             PROVE  {e \in db : SameKey(d, e)} =
                        IF Updated(d) THEN {e \in due : SameKey(d, e)}
                        ELSE {e \in {f \in due : SameKey(d, f)} :
                                 \A f \in {f \in due : SameKey(d, f)} : f.block <= e.block}
  BY DEF DatabaseFollowsLog
<1>1. db \subseteq due /\ due \subseteq Document
  BY BlockNumbers DEF IInv, ContentInv, DueInv
<1>2. ASSUME NEW e, SameKey(d, e)
      PROVE  Key(e) = Key(d) /\ Updated(e) = Updated(d) /\ ~ToBeWritten(e) /\ Key(e) \notin tangled
  <2>1. Key(e) = Key(d) /\ e.coll = d.coll
    BY <1>2 DEF SameKey, Key
  <2>2. ToBeWritten(e) => \E h \in Helpers : e \in Range(pending[h])
    BY DEF ToBeWritten, Range
  <2>3. ~ToBeWritten(e)
    BY <1>2, <2>2
  <2> QED BY <2>1, <2>3 DEF Updated
<1>3. ASSUME NEW e \in due, SameKey(d, e)
      PROVE  \E f \in db : SameKey(d, f) /\ IF Updated(d) THEN f = e ELSE e.block <= f.block
  <2>1. Covered(e)
    BY <1>2, <1>3 DEF IInv, ContentInv, DueIsCovered
  <2>2. PICK f \in db : SameKey(e, f) /\ IF Updated(e) THEN f = e ELSE e.block <= f.block
    BY <2>1 DEF Covered
  <2>3. SameKey(d, f)
    BY <1>3, <2>2 DEF SameKey
  <2>4. Updated(e) = Updated(d)
    BY <1>2, <1>3
  <2> QED BY <2>2, <2>3, <2>4
<1>4. CASE Updated(d)
  BY <1>1, <1>3, <1>4
<1>5. CASE ~Updated(d)
  <2>1. ASSUME NEW x \in db, SameKey(d, x), NEW f \in due, SameKey(d, f)
        PROVE  f.block <= x.block
    <3>1. PICK y \in db : SameKey(d, y) /\ f.block <= y.block
      BY <1>3, <1>5, <2>1
    <3>2. SameKey(x, y) /\ ~Updated(x)
      BY <1>2, <1>5, <2>1, <3>1 DEF SameKey
    <3>3. x = y
      BY <3>2 DEF IInv, ContentInv, OneOfAKey
    <3> QED BY <3>1, <3>3
  <2>2. ASSUME NEW e \in due, SameKey(d, e),
               \A f \in {f \in due : SameKey(d, f)} : f.block <= e.block
        PROVE  e \in db
    <3>1. PICK y \in db : SameKey(d, y) /\ e.block <= y.block
      BY <1>3, <1>5, <2>2
    <3>2. y.block <= e.block /\ y \in Document /\ e \in Document
      BY <1>1, <2>2, <3>1
    <3>3. y.block = e.block
      BY <3>1, <3>2, BlockNumbers
    <3>4. y.coll = e.coll /\ y.id = e.id
      BY <2>2, <3>1 DEF SameKey, Key
    <3>5. y = e
      BY <3>2, <3>3, <3>4 DEF Document
    <3> QED BY <3>5
  <2> QED BY <1>1, <1>5, <2>1, <2>2
<1> QED BY <1>4, <1>5

(* Once no worker has a document of a key, the database has the newest of  *)
(* those due, or all of a message, whatever was refused, lost, repeated or *)
(* emptied in between, unless two workers had the key at once.             *)
THEOREM DatabaseHasWhatIsDue == Spec => []DatabaseFollowsLog
BY InitIInv, NextKeepsIInv, ContentIsDue, PTL DEF Spec

(* The document of an account never goes back to that of an earlier block: *)
(* a write replaces it by the first document of a channel, none of which   *)
(* it has overtaken.                                                       *)
THEOREM NewestAreKept == Spec => NewestStays
<1> DEFINE NoneGoesBack ==
        \A d \in db : \A e \in db' \ db :
            (d.coll = "accounts" /\ SameKey(d, e) /\ Key(d) \notin tangled) => d.block <= e.block
<1>1. IInv /\ [Next]_vars => NoneGoesBack
  <2> SUFFICES ASSUME IInv, [Next]_vars, NEW d \in db, NEW e \in db' \ db,
                      SameKey(d, e), Key(d) \notin tangled
               PROVE  d.block <= e.block
    OBVIOUS
  <2>1. Hands \/ Empties \/ Loses \/ Waits => db' \subseteq db
    BY DEF Hands, Empties, Emptied, Loses, Waits
  <2>2. ASSUME NEW h \in Helpers, Writes(h) PROVE e \in Range(pending[h])
    <3>1. e = Head(pending[h])
      BY <2>2 DEF Writes, Written
    <3>2. pending[h] \in Seq(Document) /\ pending[h] # <<>>
      BY <2>2, FirstDocument DEF Writes, IInv
    <3> QED BY <3>1, <3>2, Rest
  <2>3. ASSUME NEW h \in Helpers, Leaves(h) PROVE db' = db
    BY <2>3 DEF Leaves
  <2>4. \E h \in Helpers : e \in Range(pending[h])
    BY <2>1, <2>2, <2>3, StepKinds DEF IInv
  <2> QED BY <2>4 DEF IInv, OrderInv, NoneOvertaken
<1>2. IInv /\ [Next]_vars => [NoneGoesBack]_vars
  BY <1>1
<1> QED BY InitIInv, NextKeepsIInv, <1>2, PTL DEF Spec, NewestStays
=============================================================================
