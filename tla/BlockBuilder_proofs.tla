------------------------ MODULE BlockBuilder_proofs -------------------------
(***************************************************************************)
(* Proofs about BlockBuilder, for any accounts, messages, limits, failing  *)
(* executions and removed accounts.  The history of the chain, done, and   *)
(* the block in the making are looked at as one sequence of executions:    *)
(* executing a message appends to it, finishing a block moves its end into *)
(* the chain, and dropping a block cuts that end off.                      *)
(***************************************************************************)
EXTENDS BlockBuilder, SequenceTheorems, FiniteSetTheorems, TLAPS

Internals == {m \in Message : ~External(m)}
Externals == {m \in Message : External(m)}

Execution == [msg : Message, account : Accounts, lt : Nat, sends : Seq(Internals),
              removed : BOOLEAN, height : Nat]

AccountStates == [Accounts -> [trans : Nat, time : Nat]]

BlockRecord == [seq : BOOLEAN, start : Nat, end : Nat, out : SUBSET Internals,
                account : AccountStates \union {<<>>}, fresh : Seq(Internals),
                full : BOOLEAN, empty : BOOLEAN, executed : Seq(Execution)]

Building == phase # "idle"

(* TypeOK, with the types of the block and of the history.                 *)
Typed ==
    /\ TypeOK
    /\ done \in Seq(Execution)
    /\ block \in BlockRecord
    /\ Building => block.account \in AccountStates

(* The executions of the chain and of the block in the making.             *)
Executions == done \o block.executed

-----------------------------------------------------------------------------
(* Logical times of a sequence s of executions.                            *)

(* s[i] and what it sends are dated up to lt.                              *)
UpTo(s, i, lt) == s[i].lt <= lt /\ \A m \in Range(s[i].sends) : m.lt <= lt

(* An execution comes after its message and before what it sends.          *)
AfterMessage(s) ==
    \A i \in DOMAIN s :
        s[i].msg.lt < s[i].lt /\ \A m \in Range(s[i].sends) : s[i].lt < m.lt

(* s[j] comes after s[i] and what that sent.                               *)
Later(s, i, j) == s[i].lt < s[j].lt /\ \A m \in Range(s[i].sends) : m.lt < s[j].lt

(* Account a is removed from s[i] on, before s[j], in a block of height h. *)
RemovedFrom(s, i, j, a, h) ==
    \E k \in i..(j - 1) : s[k].account = a /\ s[k].removed /\ s[k].height = h

AccountsFollow(s) ==
    \A i, j \in DOMAIN s :
        (i < j /\ s[i].account = s[j].account) =>
            Later(s, i, j) \/ RemovedFrom(s, i, j, s[i].account, s[j].height)

HeightsFollow(s) == \A i, j \in DOMAIN s : i < j => s[i].height <= s[j].height

Disjoint(s) == \A i, j \in DOMAIN s : s[i].height < s[j].height => Later(s, i, j)

TimesOK(s) == AfterMessage(s) /\ AccountsFollow(s) /\ HeightsFollow(s) /\ Disjoint(s)

(* Blocks that are finished lie below the end of the last one.             *)
DoneBelowEnd ==
    /\ \A i \in DOMAIN done : done[i].height <= height /\ UpTo(done, i, endLt)
    /\ \A i \in DOMAIN Executions :
          /\ Executions[i].height <= height + 1
          /\ Executions[i].height <= height => UpTo(Executions, i, endLt)

BlockBelowEnd == Building => \A i \in DOMAIN Executions : UpTo(Executions, i, block.end)

(* The state of an account in the block is ahead of all it did before, but *)
(* for what it did before it was removed in the block.                     *)
AccountsAhead ==
    Building => \A i \in DOMAIN Executions :
        LET t == Executions[i]
            a == block.account[t.account]
        IN  \/ t.height <= height
            \/ t.lt <= a.trans /\ \A m \in Range(t.sends) : m.lt < a.time
            \/ RemovedFrom(Executions, i, Len(Executions) + 1, t.account, height + 1)

LtInv ==
    /\ TimesOK(done) /\ TimesOK(Executions)
    /\ DoneBelowEnd /\ BlockBelowEnd /\ AccountsAhead

(* In sequential mode the first execution fills the block.                 *)
SeqInv ==
    block.seq => (block.executed = <<>> \/ (Len(block.executed) = 1 /\ block.full))

-----------------------------------------------------------------------------
(* Messages sent and executed.                                             *)

SentIn(s) == UNION {Range(s[i].sends) : i \in DOMAIN s}

TookInternal(s) == {m \in {s[i].msg : i \in DOMAIN s} : ~External(m)}

(* The numbers of what is sent grow with the executions, up to k, and so   *)
(* do the logical times in one execution.                                  *)
NumbersGrow(s, k) ==
    /\ \A i, j \in DOMAIN s : i < j =>
          \A m \in Range(s[i].sends), n \in Range(s[j].sends) : m.no < n.no
    /\ \A i \in DOMAIN s : \A m, n \in Range(s[i].sends) : m.no < n.no => m.lt < n.lt
    /\ \A i \in DOMAIN s : \A m \in Range(s[i].sends) :
          m.src = s[i].account /\ m.no <= k

ByNumber(q) == \A i, j \in DOMAIN q : i < j => q[i].no < q[j].no

ExecutedOnce(s) ==
    \A i, j \in DOMAIN s : (i # j /\ ~External(s[i].msg)) => s[i].msg # s[j].msg

(* What s sent is executed, waits in out, or is new.                       *)
Accounted(s, out, new) ==
    /\ TookInternal(s) \intersect (out \union new) = {}
    /\ out \intersect new = {}
    /\ SentIn(s) = TookInternal(s) \union out \union new

SentInv ==
    /\ NumbersGrow(done, sent) /\ NumbersGrow(Executions, sent)
    /\ ExecutedOnce(done) /\ ExecutedOnce(Executions)
    /\ Accounted(done, outQueue, {})
    /\ Building => Accounted(Executions, block.out, Range(block.fresh))
    /\ ByNumber(block.fresh)

(* What may wait in the out queue of the block in each phase.              *)
OutInv ==
    /\ phase = "import" => \A m \in block.out, n \in Range(block.fresh) : m.no < n.no
    /\ phase = "external" => block.out = {}
    /\ phase = "new" /\ ~block.full => \A m \in block.out : m.dst \in Foreign

BeganAnew(s, m, n) ==
    \E i, j, k \in DOMAIN s :
        /\ m \in Range(s[i].sends) /\ n \in Range(s[j].sends)
        /\ s[k].account = m.src /\ s[k].removed
        /\ s[i].height = s[k].height /\ s[j].height = s[k].height

Delivered(s) ==
    \A m, n \in SentIn(s) :
        (m.src = n.src /\ m.dst = n.dst /\ m.no < n.no /\ ~BeganAnew(s, m, n)) =>
            \A j \in DOMAIN s : s[j].msg = n => \E i \in 1..(j - 1) : s[i].msg = m

DeliveryInv == Delivered(done) /\ Delivered(Executions)

-----------------------------------------------------------------------------
(* External messages, by number.                                           *)

TakenNumbers(s) == {t.msg.no : t \in {u \in Range(s) : External(u.msg)}}
WaitingNumbers == {m.no : m \in Range(inbox)}
FailedNumbers  == {m.no : m \in rejected}

ExternalInv ==
    /\ TakenNumbers(Executions) \union WaitingNumbers \union FailedNumbers = 1..posted
    /\ TakenNumbers(Executions) \intersect WaitingNumbers = {}
    /\ TakenNumbers(Executions) \intersect FailedNumbers = {}
    /\ WaitingNumbers \intersect FailedNumbers = {}
    /\ TakenNumbers(done) \intersect TakenNumbers(block.executed) = {}
    /\ ByNumber(inbox)
    /\ block.empty => block.executed = <<>>

-----------------------------------------------------------------------------
(* Sequences.                                                              *)

LEMMA OfSeq ==
    ASSUME NEW S, NEW s \in Seq(S)
    PROVE  /\ Len(s) \in Nat /\ DOMAIN s = 1..Len(s)
           /\ \A i \in DOMAIN s : s[i] \in S
           /\ \A e : e \in Range(s) <=> \E i \in DOMAIN s : e = s[i]
           /\ \A e \in Range(s) : e \in S
<1>1. Len(s) \in Nat /\ DOMAIN s = 1..Len(s) /\ \A i \in DOMAIN s : s[i] \in S
  BY LenProperties
<1> QED BY <1>1 DEF Range

LEMMA OfAppend ==
    ASSUME NEW S, NEW s \in Seq(S), NEW e \in S
    PROVE  /\ Append(s, e) \in Seq(S)
           /\ Len(s) \in Nat /\ DOMAIN s = 1..Len(s)
           /\ Len(Append(s, e)) = Len(s) + 1
           /\ DOMAIN Append(s, e) = DOMAIN s \union {Len(s) + 1}
           /\ \A i \in DOMAIN s : Append(s, e)[i] = s[i]
           /\ Append(s, e)[Len(s) + 1] = e
           /\ Range(Append(s, e)) = Range(s) \union {e}
<1> DEFINE t == Append(s, e)
<1>1. /\ t \in Seq(S) /\ Len(t) = Len(s) + 1
      /\ \A i \in 1..Len(s) : t[i] = s[i]
      /\ t[Len(s) + 1] = e
  BY AppendProperties
<1> HIDE DEF t
<1>2. Len(s) \in Nat /\ DOMAIN s = 1..Len(s) /\ DOMAIN t = 1..Len(t)
  BY <1>1, LenProperties
<1>3. DOMAIN t = DOMAIN s \union {Len(s) + 1}
  BY <1>1, <1>2
<1>4. Range(t) = Range(s) \union {e}
  BY <1>1, <1>2, <1>3 DEF Range
<1> QED BY <1>1, <1>2, <1>3, <1>4 DEF t

LEMMA OfConcat ==
    ASSUME NEW S, NEW s \in Seq(S), NEW t \in Seq(S)
    PROVE  /\ s \o t \in Seq(S)
           /\ Len(s \o t) = Len(s) + Len(t)
           /\ \A i \in 1..Len(s) : (s \o t)[i] = s[i]
           /\ \A i \in 1..Len(t) : (s \o t)[Len(s) + i] = t[i]
           /\ \A i \in 1..(Len(s) + Len(t)) :
                 i \in 1..Len(s) \/ \E k \in 1..Len(t) : i = Len(s) + k
           /\ Range(s \o t) = Range(s) \union Range(t)
<1>1. Len(s) \in Nat /\ Len(t) \in Nat
  BY LenProperties
<1>2. /\ s \o t \in Seq(S)
      /\ Len(s \o t) = Len(s) + Len(t)
      /\ \A i \in 1 .. Len(s) + Len(t) :
            (s \o t)[i] = IF i <= Len(s) THEN s[i] ELSE t[i - Len(s)]
  BY ConcatProperties
<1> DEFINE u == s \o t
<1> HIDE DEF u
<1>3. \A i \in 1..Len(s) : u[i] = s[i]
  BY <1>1, <1>2 DEF u
<1>4. \A i \in 1..Len(t) : u[Len(s) + i] = t[i]
  <2> TAKE i \in 1..Len(t)
  <2>1. Len(s) + i \in 1..Len(s) + Len(t) /\ ~(Len(s) + i <= Len(s)) /\ Len(s) + i - Len(s) = i
    BY <1>1
  <2> QED BY <1>2, <2>1 DEF u
<1>5. \A i \in 1..(Len(s) + Len(t)) :
         i \in 1..Len(s) \/ \E k \in 1..Len(t) : i = Len(s) + k
  <2> TAKE i \in 1..(Len(s) + Len(t))
  <2>1. CASE i <= Len(s)
    BY <1>1, <2>1
  <2>2. CASE ~(i <= Len(s))
    <3>1. i - Len(s) \in 1..Len(t) /\ i = Len(s) + (i - Len(s))
      BY <1>1, <2>2
    <3> QED BY <3>1
  <2> QED BY <2>1, <2>2
<1> QED BY <1>2, <1>3, <1>4, <1>5, RangeConcatenation DEF u

(* The first element and the others.                                       *)
LEMMA OfTail ==
    ASSUME NEW S, NEW q \in Seq(S), q # <<>>
    PROVE  /\ Head(q) \in S /\ Tail(q) \in Seq(S)
           /\ Head(q) = q[1]
           /\ Len(q) \in Nat \ {0} /\ Len(Tail(q)) = Len(q) - 1
           /\ \A i \in 1..Len(Tail(q)) : Tail(q)[i] = q[i + 1]
           /\ Range(q) = {Head(q)} \union Range(Tail(q))
<1>1. /\ Head(q) \in S /\ Tail(q) \in Seq(S)
      /\ Len(Tail(q)) = Len(q) - 1
      /\ \A i \in 1..Len(Tail(q)) : Tail(q)[i] = q[i + 1]
  BY HeadTailProperties
<1>2. Len(q) \in Nat \ {0} /\ DOMAIN q = 1..Len(q) /\ DOMAIN Tail(q) = 1..Len(Tail(q))
  BY <1>1, EmptySeq, LenProperties
<1>3. Head(q) = q[1]
  OBVIOUS
<1> DEFINE r == Tail(q)
           h == Head(q)
<1> HIDE DEF r, h
<1>4. \A i \in 1..Len(q) : q[i] = h \/ \E k \in 1..Len(r) : q[i] = r[k]
  <2> TAKE i \in 1..Len(q)
  <2>1. CASE i = 1
    BY <1>3, <2>1 DEF h
  <2>2. CASE i # 1
    <3>1. i - 1 \in 1..Len(r) /\ i = (i - 1) + 1
      BY <1>1, <1>2, <2>2 DEF r
    <3> QED BY <1>1, <3>1 DEF r
  <2> QED BY <2>1, <2>2
<1>5. \A k \in 1..Len(r) : \E i \in 1..Len(q) : q[i] = r[k]
  <2> TAKE k \in 1..Len(r)
  <2>1. k + 1 \in 1..Len(q) /\ r[k] = q[k + 1]
    BY <1>1, <1>2 DEF r
  <2> QED BY <2>1
<1>6. 1 \in 1..Len(q)
  BY <1>2
<1>7. Range(q) = {h} \union Range(r)
  <2>1. Range(q) = {q[i] : i \in 1..Len(q)}
    BY <1>2 DEF Range
  <2>2. Range(r) = {r[i] : i \in 1..Len(r)}
    BY <1>2 DEF Range, r
  <2>3. \A i \in 1..Len(q) : q[i] \in {h} \union Range(r)
    BY <1>4, <2>2
  <2>4. h \in Range(q) /\ \A k \in 1..Len(r) : r[k] \in Range(q)
    BY <1>3, <1>5, <1>6, <2>1 DEF h
  <2> QED BY <2>1, <2>2, <2>3, <2>4
<1> QED BY <1>1, <1>2, <1>3, <1>7 DEF r, h

LEMMA EmptySequence ==
    ASSUME NEW S
    PROVE  <<>> \in Seq(S) /\ Len(<<>>) = 0 /\ DOMAIN <<>> = {} /\ Range(<<>>) = {}
<1>1. <<>> \in Seq(S) /\ Len(<<>>) = 0 /\ DOMAIN <<>> = 1..0
  BY EmptySeq, LenProperties
<1>2. DOMAIN <<>> = {}
  BY <1>1
<1> QED BY <1>1, <1>2 DEF Range

-----------------------------------------------------------------------------
(* Executing a message.                                                    *)

(* What an execution t of message m does to the block, when out and fresh  *)
(* are its messages without m.                                             *)
Executes(m, t, out, fresh) ==
    /\ t \in Execution
    /\ t.msg = m /\ t.account = AccountOf(m) /\ t.height = height + 1
    /\ block.start <= t.lt /\ m.lt < t.lt
    /\ block.account[t.account].trans < t.lt /\ block.account[t.account].time <= t.lt
    /\ sent' \in Nat /\ sent <= sent'
    /\ \A x \in Range(t.sends) : /\ x.src = t.account
                                 /\ t.lt < x.lt /\ x.lt <= block'.end
                                 /\ sent < x.no /\ x.no <= sent'
    /\ ByNumber(t.sends)
    /\ \A x, y \in Range(t.sends) : x.no < y.no => x.lt < y.lt
    /\ block' \in BlockRecord /\ block'.account \in AccountStates
    /\ block'.executed = Append(block.executed, t)
    /\ block'.fresh = fresh \o t.sends
    /\ block'.out = out /\ block'.seq = block.seq
    /\ block'.start = block.start /\ block'.empty = FALSE
    /\ block.end <= block'.end /\ t.lt <= block'.end
    /\ \A a \in Accounts : a # t.account => block'.account[a] = block.account[a]
    /\ \/ t.removed
       \/ /\ t.lt <= block'.account[t.account].trans
          /\ t.lt <= block'.account[t.account].time
          /\ \A x \in Range(t.sends) : x.lt < block'.account[t.account].time
    /\ block.seq => block'.full

(* A step that executes m.                                                 *)
Executing(m, t, out, fresh) ==
    /\ Building /\ ~block.full
    /\ m \in Message /\ out \in SUBSET Internals /\ fresh \in Seq(Internals)
    /\ Executes(m, t, out, fresh)
    /\ posted + sent' <= MaxMessages /\ gone' \in 0..MaxGone
    /\ UNCHANGED <<phase, chain, posted, rejected, failures>>

LEMMA AccountOfType ==
    ASSUME NEW m \in Message
    PROVE  AccountOf(m) \in Accounts
BY AddressAssumption DEF Message, Addresses, AccountOf

(* The logical time of a transaction.                                      *)
LEMMA TransactionLtBounds ==
    ASSUME NEW b \in BlockRecord, b.account \in AccountStates, NEW m \in Message
    PROVE  /\ TransactionLt(b, m) \in Nat
           /\ b.start <= TransactionLt(b, m) /\ m.lt < TransactionLt(b, m)
           /\ b.account[AccountOf(m)].trans < TransactionLt(b, m)
           /\ b.account[AccountOf(m)].time <= TransactionLt(b, m)
<1> DEFINE s == b.account[AccountOf(m)]
<1>1. s \in [trans : Nat, time : Nat]
  BY AccountOfType DEF AccountStates
<1>2. s.trans \in Nat /\ s.time \in Nat /\ b.start \in Nat /\ m.lt \in Nat
  BY <1>1 DEF BlockRecord, Message
<1>3. TransactionLt(b, m) = Larger(Larger(s.time, b.start), Larger(s.trans, m.lt) + 1)
  BY DEF TransactionLt
<1> HIDE DEF s
<1> QED BY <1>2, <1>3 DEF Larger, s

(* The messages that a transaction sends.                                  *)
LEMMA SendsFacts ==
    ASSUME sent \in Nat, NEW a \in Accounts, NEW lt \in Nat,
           NEW n \in Nat, NEW dsts \in [1..n -> Addresses]
    PROVE  LET q == Sends(a, lt, dsts) IN
           /\ Len(dsts) = n
           /\ q \in Seq(Internals)
           /\ \A x \in Range(q) : /\ x.src = a
                                  /\ lt < x.lt /\ x.lt < lt + 1 + n
                                  /\ sent < x.no /\ x.no <= sent + n
           /\ ByNumber(q)
           /\ \A x, y \in Range(q) : x.no < y.no => x.lt < y.lt
<1> DEFINE q == Sends(a, lt, dsts)
<1>1. DOMAIN dsts = 1..n /\ Len(dsts) = n
  <2>1. dsts \in Seq(Addresses)
    BY SeqDef
  <2> QED BY <2>1, LenProperties
<1>2. /\ DOMAIN q = 1..n
      /\ \A i \in 1..n :
            q[i] = [no |-> sent + i, src |-> a, dst |-> dsts[i], lt |-> lt + i]
  BY <1>1 DEF Sends
<1>3. \A i \in 1..n : /\ q[i] \in Internals
                      /\ q[i].src = a /\ q[i].no = sent + i /\ q[i].lt = lt + i
  <2> TAKE i \in 1..n
  <2>1. q[i] = [no |-> sent + i, src |-> a, dst |-> dsts[i], lt |-> lt + i]
    BY <1>2
  <2>2. dsts[i] \in Addresses /\ sent + i \in Nat /\ lt + i \in Nat
    OBVIOUS
  <2>3. a \in Accounts \union {Origin} /\ a # Origin
    BY AddressAssumption
  <2> HIDE DEF q
  <2>4. q[i] \in Message /\ q[i].src # Origin
    BY <2>1, <2>2, <2>3 DEF Message
  <2> QED BY <2>1, <2>4 DEF Internals, External
<1>4. q \in Seq(Internals)
  <2>1. q = [i \in 1..n |-> q[i]]
    BY <1>1 DEF Sends
  <2> HIDE DEF q
  <2>2. q \in [1..n -> Internals]
    BY <1>3, <2>1
  <2> QED BY <2>2, SeqDef
<1> HIDE DEF q
<1>5. \A x \in Range(q) : \E i \in 1..n : x = q[i]
  BY <1>2 DEF Range
<1>6. \A x \in Range(q) : /\ x.src = a
                          /\ lt < x.lt /\ x.lt < lt + 1 + n
                          /\ sent < x.no /\ x.no <= sent + n
  <2> TAKE x \in Range(q)
  <2>1. PICK i \in 1..n : x = q[i]
    BY <1>5
  <2>2. x.src = a /\ x.no = sent + i /\ x.lt = lt + i
    BY <1>3, <2>1
  <2> QED BY <2>2
<1>7. \A x, y \in Range(q) : x.no < y.no => x.lt < y.lt
  <2> TAKE x \in Range(q), y \in Range(q)
  <2>1. PICK i \in 1..n : x = q[i]
    BY <1>5
  <2>2. PICK j \in 1..n : y = q[j]
    BY <1>5
  <2>3. x.no = sent + i /\ x.lt = lt + i /\ y.no = sent + j /\ y.lt = lt + j
    BY <1>3, <2>1, <2>2
  <2> QED BY <2>3
<1>8. ByNumber(q)
  BY <1>2, <1>3 DEF ByNumber
<1> QED BY <1>1, <1>4, <1>6, <1>7, <1>8 DEF q

LEMMA ExecuteFacts ==
    ASSUME Typed, NEW b \in BlockRecord, b.account \in AccountStates, NEW m \in Message,
           b.seq = block.seq, b.start = block.start, b.end = block.end, b.empty = FALSE,
           b.account = block.account, b.executed = block.executed,
           Execute(b, m)
    PROVE  /\ \E t : Executes(m, t, b.out, b.fresh)
           /\ posted + sent' <= MaxMessages /\ gone' \in 0..MaxGone
           /\ UNCHANGED failures
<1>0. PICK n \in 0..MaxSends : \E dsts \in [1..n -> Addresses] :
         \E refused, removed \in BOOLEAN, full \in LimitsReached :
            /\ refused => External(m) /\ n = 0
            /\ removed => gone < MaxGone
            /\ posted + sent + n <= MaxMessages
            /\ sent' = sent + n
            /\ gone' = IF removed THEN gone + 1 ELSE gone
            /\ block' = Executed(b, m, dsts, refused, removed, full)
            /\ UNCHANGED failures
  BY DEF Execute
<1>1. PICK dsts \in [1..n -> Addresses], refused \in BOOLEAN, removed \in BOOLEAN,
           full \in LimitsReached :
        /\ refused => n = 0
        /\ removed => gone < MaxGone
        /\ posted + sent + n <= MaxMessages
        /\ sent' = sent + n
        /\ gone' = IF removed THEN gone + 1 ELSE gone
        /\ block' = Executed(b, m, dsts, refused, removed, full)
        /\ UNCHANGED failures
  BY <1>0
<1> DEFINE a == AccountOf(m)
           lt == TransactionLt(b, m)
           last == IF refused THEN lt ELSE lt + 1 + Len(dsts)
           sends == Sends(a, lt, dsts)
           t == [msg |-> m, account |-> a, lt |-> lt, sends |-> sends,
                 removed |-> removed, height |-> height + 1]
           state == IF removed THEN Absent(a) ELSE [trans |-> lt, time |-> last]
<1>2. n \in Nat /\ sent \in Nat /\ posted \in Nat /\ gone \in Nat /\ height \in Nat
  BY <1>1, BuilderBounds DEF Typed, TypeOK
<1>3. /\ a \in Accounts
      /\ lt \in Nat /\ b.start <= lt /\ m.lt < lt
      /\ b.account[a].trans < lt /\ b.account[a].time <= lt
  BY AccountOfType, TransactionLtBounds
<1> HIDE DEF a, lt
<1>4. /\ Len(dsts) = n
      /\ sends \in Seq(Internals)
      /\ \A x \in Range(sends) : /\ x.src = a
                                 /\ lt < x.lt /\ x.lt < lt + 1 + n
                                 /\ sent < x.no /\ x.no <= sent + n
      /\ ByNumber(sends)
      /\ \A x, y \in Range(sends) : x.no < y.no => x.lt < y.lt
  BY <1>1, <1>2, <1>3, SendsFacts
<1> HIDE DEF sends
<1>5. /\ last \in Nat /\ lt <= last
      /\ \A x \in Range(sends) : x.lt < last
  <2>1. CASE refused
    <3>1. n = 0 /\ last = lt
      BY <1>1, <2>1
    <3>2. Range(sends) = {}
      <4>1. \A x \in Range(sends) : x.no \in Nat
        BY <1>4, OfSeq DEF Internals, Message
      <4> QED BY <1>2, <1>4, <3>1, <4>1
    <3> QED BY <1>3, <3>1, <3>2
  <2>2. CASE ~refused
    <3>1. last = lt + 1 + n
      BY <1>4, <2>2
    <3> QED BY <1>2, <1>3, <1>4, <3>1
  <2> QED BY <2>1, <2>2
<1> HIDE DEF last
<1>6. t \in Execution
  BY <1>2, <1>3, <1>4 DEF Execution
<1>7. state \in [trans : Nat, time : Nat]
  BY <1>3, <1>5, AddressAssumption DEF Absent
<1>8. block' = [b EXCEPT !.end = Larger(b.end, last),
                         !.account[a] = state,
                         !.fresh = @ \o sends,
                         !.full = full,
                         !.executed = Append(@, t)]
  BY <1>1 DEF Executed, EndLt, a, lt, last, sends
<1> HIDE DEF t, state
<1>9. /\ b.executed \in Seq(Execution) /\ b.fresh \in Seq(Internals)
      /\ b.end \in Nat /\ b.start \in Nat /\ b.out \in SUBSET Internals
      /\ b.seq \in BOOLEAN /\ b.empty \in BOOLEAN
      /\ DOMAIN b = {"seq", "start", "end", "out", "account", "fresh", "full", "empty", "executed"}
  BY DEF BlockRecord
<1>10. block' = [seq |-> b.seq, start |-> b.start, end |-> Larger(b.end, last),
                 out |-> b.out, account |-> [b.account EXCEPT ![a] = state],
                 fresh |-> b.fresh \o sends, full |-> full, empty |-> b.empty,
                 executed |-> Append(b.executed, t)]
  BY <1>8 DEF BlockRecord
<1>11. /\ block'.seq = b.seq /\ block'.start = b.start /\ block'.end = Larger(b.end, last)
       /\ block'.out = b.out /\ block'.account = [b.account EXCEPT ![a] = state]
       /\ block'.fresh = b.fresh \o sends /\ block'.full = full /\ block'.empty = b.empty
       /\ block'.executed = Append(b.executed, t)
  BY <1>10
<1>12. /\ Larger(b.end, last) \in Nat /\ b.end <= Larger(b.end, last)
       /\ last <= Larger(b.end, last)
  BY <1>5, <1>9 DEF Larger
<1>13. full \in BOOLEAN /\ (b.seq => full)
  BY DEF LimitsReached
<1>14. [b.account EXCEPT ![a] = state] \in AccountStates
  BY <1>3, <1>7 DEF AccountStates
<1>15. block' \in BlockRecord
  <2>1. b.fresh \o sends \in Seq(Internals) /\ Append(b.executed, t) \in Seq(Execution)
    BY <1>4, <1>6, <1>9, OfConcat, OfAppend
  <2> QED BY <1>9, <1>10, <1>12, <1>13, <1>14, <2>1 DEF BlockRecord
<1>16. /\ t.msg = m /\ t.account = a /\ t.lt = lt /\ t.sends = sends
       /\ t.removed = removed /\ t.height = height + 1
  BY DEF t
<1>17. /\ \A c \in Accounts : c # a => block'.account[c] = b.account[c]
       /\ block'.account[a] = state
  BY <1>3, <1>11 DEF AccountStates
<1>18. removed \/ (state.trans = lt /\ state.time = last)
  BY DEF state
<1>19. \/ t.removed
       \/ /\ t.lt <= block'.account[t.account].trans
          /\ t.lt <= block'.account[t.account].time
          /\ \A x \in Range(t.sends) : x.lt < block'.account[t.account].time
  <2>1. CASE removed
    <3>1. t.removed
      BY <1>16, <2>1, Zenon
    <3> QED BY <3>1
  <2>2. CASE ~removed
    BY <1>3, <1>5, <1>16, <1>17, <1>18, <2>2
  <2> QED BY <2>1, <2>2
<1>20. sent' \in Nat /\ sent <= sent'
  BY <1>1, <1>2
<1>21. \A x \in Range(t.sends) : /\ x.src = t.account
                                 /\ t.lt < x.lt /\ x.lt <= block'.end
                                 /\ sent < x.no /\ x.no <= sent'
  <2> TAKE x \in Range(t.sends)
  <2>1. x \in Range(sends) /\ x.lt \in Nat
    BY <1>4, <1>16, OfSeq DEF Internals, Message
  <2>2. x.src = a /\ lt < x.lt /\ sent < x.no /\ x.no <= sent + n
    BY <1>4, <2>1
  <2>3. x.lt < last /\ last <= block'.end
    BY <1>5, <1>11, <1>12, <2>1
  <2>4. x.lt <= block'.end
    BY <1>5, <1>11, <1>12, <2>1, <2>3
  <2> QED BY <1>1, <1>16, <2>2, <2>4
<1>22. t.lt <= block'.end
  BY <1>3, <1>5, <1>9, <1>11, <1>12, <1>16
<1>23. Executes(m, t, b.out, b.fresh)
  <2>1. /\ block.start <= t.lt /\ m.lt < t.lt
        /\ block.account[t.account].trans < t.lt /\ block.account[t.account].time <= t.lt
    BY <1>3, <1>16
  <2>2. /\ ByNumber(t.sends)
        /\ \A x, y \in Range(t.sends) : x.no < y.no => x.lt < y.lt
    BY <1>4, <1>16
  <2>3. /\ block'.fresh = b.fresh \o t.sends
        /\ \A c \in Accounts : c # t.account => block'.account[c] = block.account[c]
        /\ block'.account \in AccountStates
        /\ block.end <= block'.end
        /\ block'.executed = Append(block.executed, t)
        /\ block'.seq = block.seq /\ block'.start = block.start /\ block'.out = b.out
    BY <1>11, <1>12, <1>14, <1>16, <1>17
  <2>4. t.msg = m /\ t.account = AccountOf(m) /\ t.height = height + 1
    BY <1>16 DEF a
  <2>5. block'.empty = FALSE
    BY <1>11
  <2>6. block.seq => block'.full
    BY <1>11, <1>13
  <2> QED BY <1>6, <1>15, <1>19, <1>20, <1>21, <1>22, <2>1, <2>2, <2>3, <2>4, <2>5, <2>6
          DEF Executes
<1>24. gone' \in 0..MaxGone
  <2>1. gone \in 0..MaxGone
    BY DEF Typed, TypeOK
  <2>2. CASE removed
    BY <1>1, <1>2, <2>1, <2>2, BuilderBounds
  <2>3. CASE ~removed
    BY <1>1, <1>2, <2>1, <2>3, BuilderBounds
  <2> QED BY <2>2, <2>3
<1>25. posted + sent' <= MaxMessages
  BY <1>1, <1>2, BuilderBounds
<1> QED BY <1>1, <1>23, <1>24, <1>25

(* The block without a message that is taken of it.                        *)
LEMMA WithoutMessage ==
    ASSUME NEW x \in BlockRecord
    PROVE  /\ \A o \in SUBSET Internals :
                LET b == [x EXCEPT !.out = o, !.empty = FALSE] IN
                /\ b \in BlockRecord
                /\ b.seq = x.seq /\ b.start = x.start /\ b.end = x.end /\ b.empty = FALSE
                /\ b.account = x.account /\ b.executed = x.executed
                /\ b.out = o /\ b.fresh = x.fresh
           /\ \A f \in Seq(Internals) :
                LET b == [x EXCEPT !.fresh = f, !.empty = FALSE] IN
                /\ b \in BlockRecord
                /\ b.seq = x.seq /\ b.start = x.start /\ b.end = x.end /\ b.empty = FALSE
                /\ b.account = x.account /\ b.executed = x.executed
                /\ b.out = x.out /\ b.fresh = f
<1>1. ASSUME NEW o \in SUBSET Internals
      PROVE  LET b == [x EXCEPT !.out = o, !.empty = FALSE] IN
             /\ b.seq = x.seq /\ b.start = x.start /\ b.end = x.end /\ b.empty = FALSE
             /\ b.account = x.account /\ b.executed = x.executed
             /\ b.out = o /\ b.fresh = x.fresh
  BY DEF BlockRecord
<1>2. ASSUME NEW o \in SUBSET Internals
      PROVE  [x EXCEPT !.out = o, !.empty = FALSE] \in BlockRecord
  BY DEF BlockRecord
<1>3. ASSUME NEW f \in Seq(Internals)
      PROVE  LET b == [x EXCEPT !.fresh = f, !.empty = FALSE] IN
             /\ b.seq = x.seq /\ b.start = x.start /\ b.end = x.end /\ b.empty = FALSE
             /\ b.account = x.account /\ b.executed = x.executed
             /\ b.out = x.out /\ b.fresh = f
  BY DEF BlockRecord
<1>4. ASSUME NEW f \in Seq(Internals)
      PROVE  [x EXCEPT !.fresh = f, !.empty = FALSE] \in BlockRecord
  BY DEF BlockRecord
<1> QED BY <1>1, <1>2, <1>3, <1>4

LEMMA TakenFacts ==
    ASSUME block \in BlockRecord
    PROVE  /\ Taken \in BlockRecord
           /\ Taken.seq = block.seq /\ Taken.start = block.start /\ Taken.end = block.end
           /\ Taken.empty = FALSE
           /\ Taken.account = block.account /\ Taken.executed = block.executed
           /\ Taken.out = block.out /\ Taken.fresh = block.fresh
<1>1. Taken \in BlockRecord
  BY DEF BlockRecord, Taken
<1> QED BY <1>1 DEF BlockRecord, Taken

(* The steps that execute a message.                                       *)
LEMMA ImportFacts ==
    ASSUME Typed, Import
    PROVE  \E m, t :
              /\ m \in block.out /\ \A x \in block.out : m.lt <= x.lt
              /\ Executing(m, t, block.out \ {m}, block.fresh)
              /\ phase = "import" /\ inbox' = inbox
<1>1. PICK m \in OldestOut :
          Execute([block EXCEPT !.out = LeftAfterImport(m), !.empty = FALSE], m)
  BY DEF Import
<1> DEFINE b == [block EXCEPT !.out = LeftAfterImport(m), !.empty = FALSE]
<1>2. phase = "import" /\ ~block.full /\ UNCHANGED <<phase, inbox, chain, rejected, posted>>
  BY DEF Import
<1>3. Building /\ block \in BlockRecord /\ block.account \in AccountStates
  BY <1>2 DEF Building, Typed
<1>4. m \in block.out /\ \A x \in block.out : m.lt <= x.lt
  BY DEF OldestOut
<1>5. block.out \in SUBSET Internals /\ block.fresh \in Seq(Internals)
  BY <1>3 DEF BlockRecord
<1>6. m \in Message
  BY <1>4, <1>5 DEF Internals
<1> HIDE DEF b
<1>8. /\ b \in BlockRecord
      /\ b.seq = block.seq /\ b.start = block.start /\ b.end = block.end /\ b.empty = FALSE
      /\ b.account = block.account /\ b.executed = block.executed
      /\ b.out = block.out \ {m} /\ b.fresh = block.fresh
  <2>1. LeftAfterImport(m) \in SUBSET Internals /\ LeftAfterImport(m) = block.out \ {m}
    BY <1>5 DEF LeftAfterImport
  <2>2. /\ b \in BlockRecord
        /\ b.seq = block.seq /\ b.start = block.start /\ b.end = block.end /\ b.empty = FALSE
        /\ b.account = block.account /\ b.executed = block.executed
        /\ b.out = LeftAfterImport(m) /\ b.fresh = block.fresh
    BY <1>3, <2>1, WithoutMessage DEF b
  <2> QED BY <2>1, <2>2
<1>10. Execute(b, m)
  BY <1>1 DEF b
<1>11. /\ \E t : Executes(m, t, b.out, b.fresh)
       /\ posted + sent' <= MaxMessages /\ gone' \in 0..MaxGone
       /\ UNCHANGED failures
  BY <1>3, <1>6, <1>8, <1>10, ExecuteFacts
<1>12. PICK t : Executes(m, t, block.out \ {m}, block.fresh)
  BY <1>8, <1>11
<1>13. Executing(m, t, block.out \ {m}, block.fresh)
  BY <1>2, <1>3, <1>5, <1>6, <1>11, <1>12 DEF Executing
<1> QED BY <1>2, <1>4, <1>13

LEMMA ImportExternalFacts ==
    ASSUME Typed, ImportExternal
    PROVE  /\ \E t : Executing(Head(inbox), t, block.out, block.fresh)
           /\ phase = "external" /\ inbox # <<>> /\ inbox' = Tail(inbox)
<1> DEFINE m == Head(inbox)
<1>1. /\ phase = "external" /\ ~block.full /\ inbox # <<>>
      /\ Execute(Taken, m)
      /\ inbox' = Tail(inbox)
      /\ UNCHANGED <<phase, chain, rejected, posted>>
  BY DEF ImportExternal
<1>2. Building /\ block \in BlockRecord /\ block.account \in AccountStates
  BY <1>1 DEF Building, Typed
<1>3. block.out \in SUBSET Internals /\ block.fresh \in Seq(Internals)
  BY <1>2 DEF BlockRecord
<1>4. m \in Message
  <2>1. inbox \in Seq(Externals)
    BY DEF Typed, TypeOK, Externals
  <2> QED BY <1>1, <2>1, OfTail DEF Externals
<1>6. /\ Taken \in BlockRecord
      /\ Taken.seq = block.seq /\ Taken.start = block.start /\ Taken.end = block.end
      /\ Taken.empty = FALSE
      /\ Taken.account = block.account /\ Taken.executed = block.executed
      /\ Taken.out = block.out /\ Taken.fresh = block.fresh
  BY <1>2, TakenFacts
<1>8. /\ \E t : Executes(m, t, Taken.out, Taken.fresh)
      /\ posted + sent' <= MaxMessages /\ gone' \in 0..MaxGone
      /\ UNCHANGED failures
  BY <1>1, <1>2, <1>4, <1>6, ExecuteFacts
<1>9. PICK t : Executes(m, t, block.out, block.fresh)
  BY <1>6, <1>8
<1>10. Executing(m, t, block.out, block.fresh)
  BY <1>1, <1>2, <1>3, <1>4, <1>8, <1>9 DEF Executing
<1> QED BY <1>1, <1>10

LEMMA ExecuteNewFacts ==
    ASSUME Typed, ExecuteNew
    PROVE  /\ \E t : Executing(Head(block.fresh), t, block.out, Tail(block.fresh))
           /\ phase = "new" /\ block.fresh # <<>> /\ inbox' = inbox
           /\ Head(block.fresh).dst \notin Foreign
<1> DEFINE m == Head(block.fresh)
           b == [block EXCEPT !.fresh = Tail(@), !.empty = FALSE]
<1>1. /\ phase = "new" /\ block.fresh # <<>> /\ ~block.full /\ m.dst \notin Foreign
      /\ Execute(b, m)
      /\ UNCHANGED <<phase, inbox, chain, rejected, posted>>
  BY DEF ExecuteNew, LeftForLater
<1>2. Building /\ block \in BlockRecord /\ block.account \in AccountStates
  BY <1>1 DEF Building, Typed
<1>3. block.out \in SUBSET Internals /\ block.fresh \in Seq(Internals)
  BY <1>2 DEF BlockRecord
<1>4. m \in Message /\ Tail(block.fresh) \in Seq(Internals)
  BY <1>1, <1>3, OfTail DEF Internals
<1> HIDE DEF b
<1>6. /\ b \in BlockRecord
      /\ b.seq = block.seq /\ b.start = block.start /\ b.end = block.end /\ b.empty = FALSE
      /\ b.account = block.account /\ b.executed = block.executed
      /\ b.out = block.out /\ b.fresh = Tail(block.fresh)
  BY <1>2, <1>4, WithoutMessage DEF b
<1>8. /\ \E t : Executes(m, t, b.out, b.fresh)
      /\ posted + sent' <= MaxMessages /\ gone' \in 0..MaxGone
      /\ UNCHANGED failures
  BY <1>1, <1>2, <1>4, <1>6, ExecuteFacts
<1>9. PICK t : Executes(m, t, block.out, Tail(block.fresh))
  BY <1>6, <1>8
<1>10. Executing(m, t, block.out, Tail(block.fresh))
  BY <1>1, <1>2, <1>3, <1>4, <1>8, <1>9 DEF Executing
<1> QED BY <1>1, <1>10

-----------------------------------------------------------------------------
(* Types.                                                                  *)

ChainTyped ==
    /\ outQueue \subseteq Internals /\ account \in AccountStates
    /\ endLt \in Nat /\ height \in Nat /\ done \in Seq(Execution)

BlockTyped ==
    /\ phase \in {"idle", "import", "external", "new"} /\ block \in BlockRecord
    /\ Building => /\ block.account \in AccountStates
                   /\ endLt < block.start /\ block.start < block.end
    /\ ~Building => block = NoBlock

CountsTyped ==
    /\ posted \in 0..MaxExternal /\ sent \in Nat /\ posted + sent <= MaxMessages
    /\ failures \in 0..MaxFailures /\ gone \in 0..MaxGone

OutsideTyped == inbox \in Seq(Externals) /\ rejected \subseteq Externals

LEMMA TypedInParts == Typed <=> ChainTyped /\ BlockTyped /\ CountsTyped /\ OutsideTyped
BY DEF Typed, TypeOK, ChainTyped, BlockTyped, CountsTyped, OutsideTyped, Building,
       Internals, Externals, AccountStates

LEMMA NoBlockTyped == NoBlock \in BlockRecord /\ NoBlock.executed = <<>> /\ NoBlock.fresh = <<>>
<1>1. <<>> \in Seq(Internals) /\ <<>> \in Seq(Execution)
  BY EmptySequence
<1> QED BY <1>1 DEF NoBlock, BlockRecord

LEMMA InitTyped == Init => Typed
<1> SUFFICES ASSUME Init PROVE Typed
  OBVIOUS
<1>1. <<>> \in Seq(Externals) /\ <<>> \in Seq(Execution)
  BY EmptySequence
<1>2. account \in AccountStates
  BY AddressAssumption DEF Init, Absent, AccountStates
<1>3. ChainTyped /\ OutsideTyped
  BY <1>1, <1>2 DEF Init, ChainTyped, OutsideTyped
<1>4. BlockTyped
  BY NoBlockTyped DEF Init, BlockTyped, Building
<1>5. CountsTyped
  BY BuilderBounds DEF Init, CountsTyped
<1> QED BY <1>3, <1>4, <1>5, TypedInParts

(* The other kinds of step.                                                *)

(* Nothing is executed and the block, if there is one, stays.              *)
Quiet ==
    /\ UNCHANGED <<chain, sent, gone>>
    /\ block' \in BlockRecord
    /\ block'.executed = block.executed /\ block'.account = block.account
    /\ block'.start = block.start /\ block'.end = block.end /\ block'.seq = block.seq
    /\ Building' <=> Building
    /\ ~Building' => block' = block
    /\ block.full => block'.full

(* The block is dropped.                                                   *)
Dropped ==
    /\ UNCHANGED <<chain, inbox, posted, sent, gone>>
    /\ Building /\ ~Building'
    /\ block' = NoBlock

LEMMA PostFacts ==
    ASSUME Typed, Post
    PROVE  /\ Quiet /\ UNCHANGED <<phase, block, rejected, counts>>
           /\ posted' = posted + 1
           /\ posted < MaxExternal /\ posted + sent < MaxMessages
           /\ \E m \in Externals : m.no = posted' /\ inbox' = Append(inbox, m)
<1>1. UNCHANGED <<phase, chain, block, rejected, counts>> /\ posted' = posted + 1
      /\ posted < MaxExternal /\ posted + sent < MaxMessages
  BY DEF Post
<1>2. PICK a \in Accounts :
          inbox' = Append(inbox, [no |-> posted', src |-> Origin, dst |-> a, lt |-> 0])
  BY DEF Post
<1> DEFINE m == [no |-> posted', src |-> Origin, dst |-> a, lt |-> 0]
<1>3. posted' \in Nat
  BY <1>1 DEF Typed, TypeOK
<1>4. m \in Message /\ m.src = Origin /\ m.no = posted'
  BY <1>3 DEF Message, Addresses
<1>5. m \in Externals
  BY <1>4 DEF Externals, External
<1>6. Quiet
  BY <1>1 DEF Quiet, counts, Building, Typed
<1> QED BY <1>1, <1>2, <1>4, <1>5, <1>6

LEMMA ExternalFailsFacts ==
    ASSUME Typed, ExternalFails
    PROVE  /\ Quiet /\ UNCHANGED <<phase, posted>>
           /\ phase = "external" /\ ~block.full /\ inbox # <<>>
           /\ failures < MaxFailures /\ failures' = failures + 1
           /\ inbox' = Tail(inbox) /\ rejected' = rejected \union {Head(inbox)}
           /\ block'.out = block.out /\ block'.fresh = block.fresh
           /\ block'.empty = FALSE /\ (block.seq => block'.full)
<1>1. /\ phase = "external" /\ ~block.full /\ inbox # <<>>
      /\ failures < MaxFailures /\ failures' = failures + 1
      /\ UNCHANGED <<sent, gone>>
      /\ block' = [Taken EXCEPT !.full = block.seq]
      /\ inbox' = Tail(inbox) /\ rejected' = rejected \union {Head(inbox)}
      /\ UNCHANGED <<phase, chain, posted>>
  BY DEF ExternalFails, ExecutionFails
<1>2. Building /\ block \in BlockRecord
  BY <1>1 DEF Building, Typed
<1>3. /\ block' \in BlockRecord
      /\ block'.executed = Taken.executed /\ block'.account = Taken.account
      /\ block'.start = Taken.start /\ block'.end = Taken.end /\ block'.seq = Taken.seq
      /\ block'.out = Taken.out /\ block'.fresh = Taken.fresh /\ block'.empty = Taken.empty
      /\ (block.seq => block'.full)
  <2>1. Taken \in BlockRecord /\ block.seq \in BOOLEAN
    BY <1>2, TakenFacts DEF BlockRecord
  <2> QED BY <1>1, <2>1 DEF BlockRecord
<1>4. /\ block'.executed = block.executed /\ block'.account = block.account
      /\ block'.start = block.start /\ block'.end = block.end /\ block'.seq = block.seq
      /\ block'.out = block.out /\ block'.fresh = block.fresh /\ block'.empty = FALSE
  BY <1>2, <1>3, TakenFacts
<1>5. Building'
  BY <1>1 DEF Building
<1>6. Quiet
  BY <1>1, <1>2, <1>3, <1>4, <1>5 DEF Quiet
<1> QED BY <1>1, <1>3, <1>4, <1>6

LEMMA LeaveNewFacts ==
    ASSUME Typed, LeaveNew
    PROVE  /\ Quiet /\ UNCHANGED <<phase, inbox, rejected, posted, counts>>
           /\ phase = "new" /\ block.fresh # <<>>
           /\ Head(block.fresh).dst \in Foreign \/ block.full
           /\ block'.out = block.out \union {Head(block.fresh)}
           /\ block'.fresh = Tail(block.fresh)
           /\ block'.empty = FALSE /\ block'.full = block.full
<1> DEFINE m == Head(block.fresh)
<1>1. /\ phase = "new" /\ block.fresh # <<>>
      /\ Head(block.fresh).dst \in Foreign \/ block.full
      /\ block' = [block EXCEPT !.fresh = Tail(@), !.out = @ \union {m}, !.empty = FALSE]
      /\ UNCHANGED <<phase, inbox, chain, rejected, posted, counts>>
  BY DEF LeaveNew, LeftForLater
<1>2. Building /\ block \in BlockRecord /\ Building'
  BY <1>1 DEF Building, Typed
<1>3. m \in Internals /\ Tail(block.fresh) \in Seq(Internals)
  <2>1. block.fresh \in Seq(Internals)
    BY <1>2 DEF BlockRecord
  <2> QED BY <1>1, <2>1, OfTail
<1> HIDE DEF m
<1>4. /\ block'.executed = block.executed /\ block'.account = block.account
      /\ block'.start = block.start /\ block'.end = block.end /\ block'.seq = block.seq
      /\ block'.out = block.out \union {m} /\ block'.fresh = Tail(block.fresh)
      /\ block'.empty = FALSE /\ block'.full = block.full
  BY <1>1, <1>2 DEF BlockRecord
<1>5. block' \in BlockRecord
  BY <1>1, <1>2, <1>3 DEF BlockRecord
<1>6. Quiet
  BY <1>1, <1>2, <1>4, <1>5 DEF Quiet, counts
<1> QED BY <1>1, <1>4, <1>6 DEF m

(* The end of a phase, and no step at all.                                 *)
LEMMA StillFacts ==
    ASSUME Typed, ImportDone \/ ExternalDone \/ UNCHANGED vars
    PROVE  /\ Quiet /\ UNCHANGED <<inbox, block, rejected, posted, counts>>
           /\ phase' \in {"idle", "import", "external", "new"}
<1>1. /\ UNCHANGED <<inbox, chain, block, rejected, posted, counts>>
      /\ phase' \in {"idle", "import", "external", "new"}
      /\ phase' = "idle" <=> phase = "idle"
  BY DEF ImportDone, ExternalDone, vars, Typed, TypeOK
<1>2. Building' <=> Building
  BY <1>1 DEF Building
<1> QED BY <1>1, <1>2 DEF Quiet, counts, Typed

LEMMA DiscardFacts ==
    ASSUME Typed, ImportFails \/ NewFails
    PROVE  /\ Dropped /\ phase' = "idle"
           /\ failures < MaxFailures /\ failures' = failures + 1
           /\ rejected' = rejected \union
                 {m \in {t.msg : t \in Range(block.executed)} : External(m)}
BY DEF ImportFails, NewFails, ExecutionFails, Discard, Dropped, Building

LEMMA DropEmptyFacts ==
    ASSUME Typed, DropEmpty
    PROVE  /\ Dropped /\ phase' = "idle" /\ UNCHANGED <<rejected, counts>>
           /\ block.empty
BY DEF DropEmpty, Dropped, Building, counts

LEMMA StartFacts ==
    ASSUME Typed, StartBlock
    PROVE  /\ UNCHANGED <<inbox, chain, rejected, posted, counts>>
           /\ ~Building /\ phase' = "import" /\ Building'
           /\ block' \in BlockRecord /\ block'.account = account
           /\ block'.start = endLt + 1 /\ block'.end = endLt + 2
           /\ block'.out = outQueue /\ block'.fresh = <<>> /\ block'.executed = <<>>
<1>1. PICK seq \in BOOLEAN :
          block' = [NoBlock EXCEPT !.seq = seq, !.start = StartLt, !.end = StartLt + 1,
                                   !.out = outQueue, !.account = account]
  BY DEF StartBlock
<1>2. /\ UNCHANGED <<inbox, chain, rejected, posted, counts>>
      /\ phase = "idle" /\ phase' = "import"
  BY DEF StartBlock
<1>3. ChainTyped
  BY TypedInParts
<1>4. NoBlock \in BlockRecord /\ NoBlock.executed = <<>> /\ NoBlock.fresh = <<>>
  BY NoBlockTyped
<1>5. endLt \in Nat /\ StartLt = endLt + 1 /\ StartLt + 1 = endLt + 2
  BY <1>3 DEF ChainTyped, StartLt
<1>6. /\ block'.account = account /\ block'.start = endLt + 1 /\ block'.end = endLt + 2
      /\ block'.out = outQueue /\ block'.fresh = <<>> /\ block'.executed = <<>>
  BY <1>1, <1>4, <1>5 DEF BlockRecord
<1>7. block' \in BlockRecord
  <2>1. /\ StartLt \in Nat /\ StartLt + 1 \in Nat /\ outQueue \in SUBSET Internals
        /\ account \in AccountStates
    BY <1>3, <1>5 DEF ChainTyped
  <2> QED BY <1>1, <1>4, <2>1 DEF BlockRecord
<1> QED BY <1>2, <1>6, <1>7 DEF Building

LEMMA FinalizeFacts ==
    ASSUME Typed, FinalizeBlock
    PROVE  /\ phase = "new" /\ block.fresh = <<>>
           /\ Building /\ ~Building' /\ phase' = "idle" /\ block' = NoBlock
           /\ outQueue' = block.out /\ account' = block.account
           /\ endLt' \in Nat /\ block.end <= endLt'
           /\ done' = Executions /\ height' = height + 1
           /\ UNCHANGED <<inbox, rejected, posted, counts>>
<1>1. /\ phase = "new" /\ block.fresh = <<>> /\ phase' = "idle" /\ block' = NoBlock
      /\ outQueue' = block.out /\ account' = block.account
      /\ endLt' = Larger(block.end, block.start + 1)
      /\ done' = Executions /\ height' = height + 1
      /\ UNCHANGED <<inbox, rejected, posted, counts>>
  BY DEF FinalizeBlock, Executions
<1>2. block.end \in Nat /\ block.start \in Nat
  BY DEF Typed, BlockRecord
<1>3. endLt' \in Nat /\ block.end <= endLt'
  BY <1>1, <1>2 DEF Larger
<1> QED BY <1>1, <1>3 DEF Building

LEMMA ExecutingTyped ==
    ASSUME Typed, NEW m, NEW t, NEW out, NEW fresh, Executing(m, t, out, fresh),
           OutsideTyped'
    PROVE  Typed'
<1>1. ChainTyped /\ BlockTyped /\ CountsTyped
  BY TypedInParts
<1>2. /\ UNCHANGED <<phase, chain, posted, rejected, failures>> /\ Building
      /\ Executes(m, t, out, fresh)
      /\ posted + sent' <= MaxMessages /\ gone' \in 0..MaxGone
  BY DEF Executing
<1>3. /\ block' \in BlockRecord /\ block'.account \in AccountStates
      /\ block'.start = block.start /\ block.end <= block'.end /\ sent' \in Nat
  BY <1>2 DEF Executes
<1>4. ChainTyped'
  BY <1>1, <1>2 DEF ChainTyped, chain
<1>5. BlockTyped'
  <2>1. endLt \in Nat /\ endLt' = endLt
    BY <1>1, <1>2 DEF ChainTyped, chain
  <2>2. block.start \in Nat /\ block.end \in Nat /\ block'.end \in Nat
    BY <1>1, <1>3 DEF BlockTyped, BlockRecord
  <2>3. endLt' < block'.start /\ block'.start < block'.end
    BY <1>1, <1>2, <1>3, <2>1, <2>2 DEF BlockTyped
  <2> QED BY <1>1, <1>2, <1>3, <2>3 DEF BlockTyped, Building
<1>6. CountsTyped'
  BY <1>1, <1>2, <1>3 DEF CountsTyped
<1> QED BY <1>4, <1>5, <1>6, TypedInParts, PTL

LEMMA QuietTyped ==
    ASSUME Typed, Quiet, OutsideTyped', CountsTyped',
           phase' \in {"idle", "import", "external", "new"}
    PROVE  Typed'
<1>1. ChainTyped /\ BlockTyped
  BY TypedInParts
<1>2. ChainTyped'
  BY <1>1 DEF Quiet, ChainTyped, chain
<1>3. BlockTyped'
  BY <1>1 DEF Quiet, BlockTyped, chain
<1> QED BY <1>2, <1>3, TypedInParts, PTL

LEMMA DroppedTyped ==
    ASSUME Typed, Dropped, phase' = "idle", OutsideTyped', CountsTyped'
    PROVE  Typed'
<1>1. ChainTyped
  BY TypedInParts
<1>2. ChainTyped'
  BY <1>1 DEF Dropped, ChainTyped, chain
<1>3. BlockTyped'
  BY NoBlockTyped DEF Dropped, BlockTyped
<1> QED BY <1>2, <1>3, TypedInParts, PTL

LEMMA ExternalsOfExecutions ==
    ASSUME Typed, NEW m \in {t.msg : t \in Range(block.executed)}, External(m)
    PROVE  m \in Externals
<1>1. PICK t \in Range(block.executed) : m = t.msg
  OBVIOUS
<1>2. block.executed \in Seq(Execution)
  BY DEF Typed, BlockRecord
<1>3. t \in Execution
  BY <1>1, <1>2, OfSeq
<1> QED BY <1>1, <1>3 DEF Externals, Execution

LEMMA TypedStep == Typed /\ [Next]_vars => Typed'
<1> SUFFICES ASSUME Typed, [Next]_vars PROVE Typed'
  OBVIOUS
<1>0. ChainTyped /\ BlockTyped /\ CountsTyped /\ OutsideTyped
  BY TypedInParts
<1>1. CASE Post
  <2>1. CountsTyped'
    BY <1>0, <1>1, PostFacts, BuilderBounds DEF CountsTyped, counts
  <2>2. OutsideTyped'
    <3>1. PICK m \in Externals : inbox' = Append(inbox, m)
      BY <1>1, PostFacts
    <3>2. rejected' = rejected
      BY <1>1, PostFacts
    <3> QED BY <1>0, <3>1, <3>2, OfAppend DEF OutsideTyped
  <2>3. phase' = phase
    BY <1>1, PostFacts
  <2> QED BY <1>0, <1>1, <2>1, <2>2, <2>3, PostFacts, QuietTyped DEF BlockTyped
<1>2. CASE StartBlock
  <2>1. /\ UNCHANGED <<inbox, chain, rejected, posted, counts>>
        /\ phase' = "import"
        /\ block' \in BlockRecord /\ block'.account = account
        /\ block'.start = endLt + 1 /\ block'.end = endLt + 2
    BY <1>2, StartFacts
  <2>2. ChainTyped' /\ CountsTyped' /\ OutsideTyped'
    BY <1>0, <2>1 DEF ChainTyped, CountsTyped, OutsideTyped, chain, counts
  <2>3. BlockTyped'
    <3>1. endLt \in Nat /\ endLt' = endLt /\ account \in AccountStates
      BY <1>0, <2>1 DEF ChainTyped, chain
    <3>2. endLt' < block'.start /\ block'.start < block'.end
      BY <2>1, <3>1
    <3> QED BY <2>1, <3>1, <3>2 DEF BlockTyped, Building
  <2> QED BY <2>2, <2>3, TypedInParts, PTL
<1>3. CASE Import
  <2>1. PICK m, t : Executing(m, t, block.out \ {m}, block.fresh) /\ inbox' = inbox
    BY <1>3, ImportFacts
  <2>2. OutsideTyped'
    BY <1>0, <2>1 DEF OutsideTyped, Executing
  <2> QED BY <2>1, <2>2, ExecutingTyped
<1>4. CASE ImportExternal
  <2>1. PICK t : Executing(Head(inbox), t, block.out, block.fresh)
    BY <1>4, ImportExternalFacts
  <2>2. inbox # <<>> /\ inbox' = Tail(inbox)
    BY <1>4, ImportExternalFacts
  <2>3. OutsideTyped'
    BY <1>0, <2>1, <2>2, OfTail DEF OutsideTyped, Executing
  <2> QED BY <2>1, <2>3, ExecutingTyped
<1>5. CASE ExecuteNew
  <2>1. PICK t : Executing(Head(block.fresh), t, block.out, Tail(block.fresh))
    BY <1>5, ExecuteNewFacts
  <2>2. inbox' = inbox
    BY <1>5, ExecuteNewFacts
  <2>3. OutsideTyped'
    BY <1>0, <2>1, <2>2 DEF OutsideTyped, Executing
  <2> QED BY <2>1, <2>3, ExecutingTyped
<1>6. CASE ExternalFails
  <2>1. /\ Quiet /\ UNCHANGED <<phase, posted>> /\ inbox # <<>>
        /\ failures < MaxFailures /\ failures' = failures + 1
        /\ inbox' = Tail(inbox) /\ rejected' = rejected \union {Head(inbox)}
    BY <1>6, ExternalFailsFacts
  <2>2. CountsTyped'
    BY <1>0, <2>1, BuilderBounds DEF CountsTyped, Quiet
  <2>3. OutsideTyped'
    BY <1>0, <2>1, OfTail DEF OutsideTyped
  <2> QED BY <1>0, <2>1, <2>2, <2>3, QuietTyped DEF BlockTyped
<1>7. CASE LeaveNew
  <2>1. Quiet /\ UNCHANGED <<phase, inbox, rejected, posted, counts>>
    BY <1>7, LeaveNewFacts
  <2>2. CountsTyped' /\ OutsideTyped'
    BY <1>0, <2>1 DEF CountsTyped, OutsideTyped, counts
  <2> QED BY <1>0, <2>1, <2>2, QuietTyped DEF BlockTyped
<1>8. CASE ImportDone \/ ExternalDone \/ UNCHANGED vars
  <2>1. /\ Quiet /\ UNCHANGED <<inbox, rejected, posted, counts>>
        /\ phase' \in {"idle", "import", "external", "new"}
    BY <1>8, StillFacts
  <2>2. CountsTyped' /\ OutsideTyped'
    BY <1>0, <2>1 DEF CountsTyped, OutsideTyped, counts
  <2> QED BY <2>1, <2>2, QuietTyped
<1>9. CASE ImportFails \/ NewFails
  <2>1. /\ Dropped /\ phase' = "idle"
        /\ failures < MaxFailures /\ failures' = failures + 1
        /\ rejected' = rejected \union
              {m \in {t.msg : t \in Range(block.executed)} : External(m)}
    BY <1>9, DiscardFacts
  <2>2. CountsTyped'
    BY <1>0, <2>1, BuilderBounds DEF CountsTyped, Dropped
  <2>3. OutsideTyped'
    BY <1>0, <2>1, ExternalsOfExecutions DEF OutsideTyped, Dropped
  <2> QED BY <2>1, <2>2, <2>3, DroppedTyped
<1>10. CASE DropEmpty
  <2>1. Dropped /\ phase' = "idle" /\ UNCHANGED <<rejected, counts>>
    BY <1>10, DropEmptyFacts
  <2>2. CountsTyped' /\ OutsideTyped'
    BY <1>0, <2>1 DEF CountsTyped, OutsideTyped, counts, Dropped
  <2> QED BY <2>1, <2>2, DroppedTyped
<1>11. CASE FinalizeBlock
  <2>1. /\ Building /\ phase' = "idle" /\ block' = NoBlock
        /\ outQueue' = block.out /\ account' = block.account
        /\ endLt' \in Nat
        /\ done' = Executions /\ height' = height + 1
        /\ UNCHANGED <<inbox, rejected, posted, counts>>
    BY <1>11, FinalizeFacts
  <2>2. ChainTyped'
    <3>1. block.out \in SUBSET Internals /\ block.executed \in Seq(Execution)
      BY <1>0 DEF BlockTyped, BlockRecord
    <3>2. done' \in Seq(Execution)
      BY <1>0, <2>1, <3>1, OfConcat DEF ChainTyped, Executions
    <3> QED BY <1>0, <2>1, <3>1, <3>2 DEF ChainTyped, BlockTyped
  <2>3. CountsTyped' /\ OutsideTyped'
    BY <1>0, <2>1 DEF CountsTyped, OutsideTyped, counts
  <2>4. BlockTyped'
    BY <2>1, NoBlockTyped DEF BlockTyped, Building
  <2> QED BY <2>2, <2>3, <2>4, TypedInParts, PTL
<1> QED
  BY <1>1, <1>2, <1>3, <1>4, <1>5, <1>6, <1>7, <1>8, <1>9, <1>10, <1>11 DEF Next

(* The state keeps its types, and a block in the making begins after the   *)
(* last one, for any messages, limits and failures.                        *)
THEOREM TypeCorrect == Spec => []TypeOK
<1>1. Spec => []Typed
  BY InitTyped, TypedStep, PTL DEF Spec
<1>2. Typed => TypeOK
  BY DEF Typed
<1> QED BY <1>1, <1>2, PTL

-----------------------------------------------------------------------------
(* How a step changes the sequence of executions.                          *)

LEMMA ExecutionsType ==
    ASSUME Typed
    PROVE  /\ done \in Seq(Execution) /\ block.executed \in Seq(Execution)
           /\ Executions \in Seq(Execution)
           /\ \A i \in DOMAIN done : i \in DOMAIN Executions /\ Executions[i] = done[i]
           /\ Range(Executions) = Range(done) \union Range(block.executed)
<1>1. done \in Seq(Execution) /\ block.executed \in Seq(Execution)
  BY DEF Typed, BlockRecord
<1>2. /\ Executions \in Seq(Execution)
      /\ Len(Executions) = Len(done) + Len(block.executed)
      /\ \A i \in 1..Len(done) : Executions[i] = done[i]
      /\ Range(Executions) = Range(done) \union Range(block.executed)
  BY <1>1, OfConcat DEF Executions
<1>3. /\ DOMAIN done = 1..Len(done) /\ Len(done) \in Nat /\ Len(block.executed) \in Nat
      /\ DOMAIN Executions = 1..Len(Executions)
  BY <1>1, <1>2, OfSeq
<1>4. \A i \in DOMAIN done : i \in DOMAIN Executions
  BY <1>2, <1>3
<1> QED BY <1>1, <1>2, <1>3, <1>4

LEMMA NoExecutions ==
    ASSUME Typed, block.executed = <<>>
    PROVE  Executions = done
BY ExecutionsType, ConcatEmptySeq DEF Executions

LEMMA IdleExecutions ==
    ASSUME Typed, ~Building
    PROVE  block = NoBlock /\ Executions = done
<1>1. block = NoBlock /\ block.executed = <<>>
  BY TypedInParts, NoBlockTyped DEF BlockTyped
<1> QED BY <1>1, NoExecutions

LEMMA ExecutingExecutions ==
    ASSUME Typed, NEW m, NEW t, NEW out, NEW fresh, Executing(m, t, out, fresh)
    PROVE  done' = done /\ Executions' = Append(Executions, t) /\ t \in Execution
<1>1. done' = done /\ block'.executed = Append(block.executed, t) /\ t \in Execution
  BY DEF Executing, Executes, chain
<1>2. done \in Seq(Execution) /\ block.executed \in Seq(Execution) /\ <<t>> \in Seq(Execution)
  BY <1>1, ExecutionsType
<1>3. Append(block.executed, t) = block.executed \o <<t>>
  BY <1>1, <1>2, AppendIsConcat
<1>4. Append(Executions, t) = Executions \o <<t>>
  BY <1>1, ExecutionsType, AppendIsConcat
<1>5. Executions' = done \o (block.executed \o <<t>>)
  BY <1>1, <1>3 DEF Executions
<1>6. (done \o block.executed) \o <<t>> = done \o (block.executed \o <<t>>)
  <2>1. \A a, b, c \in Seq(Execution) : (a \o b) \o c = a \o (b \o c)
    BY ConcatAssociative
  <2> QED BY <1>2, <2>1
<1> QED BY <1>1, <1>4, <1>5, <1>6 DEF Executions

LEMMA QuietExecutions ==
    ASSUME Quiet
    PROVE  done' = done /\ Executions' = Executions
BY DEF Quiet, chain, Executions

LEMMA DroppedExecutions ==
    ASSUME Typed, Dropped
    PROVE  done' = done /\ Executions' = done
<1>1. done' = done /\ block'.executed = <<>>
  BY NoBlockTyped DEF Dropped, chain
<1>2. Executions' = done \o <<>>
  BY <1>1 DEF Executions
<1> QED BY <1>1, <1>2, ExecutionsType, ConcatEmptySeq

LEMMA StartExecutions ==
    ASSUME Typed, StartBlock
    PROVE  done' = done /\ Executions' = done /\ Executions = done
<1>1. done' = done /\ block'.executed = <<>> /\ ~Building
  BY StartFacts DEF chain
<1>2. Executions' = done \o <<>>
  BY <1>1 DEF Executions
<1> QED BY <1>1, <1>2, ExecutionsType, ConcatEmptySeq, IdleExecutions

LEMMA FinalizeExecutions ==
    ASSUME Typed, FinalizeBlock
    PROVE  done' = Executions /\ Executions' = Executions
<1>1. done' = Executions /\ block'.executed = <<>>
  BY FinalizeFacts, NoBlockTyped
<1>2. Executions' = Executions \o <<>>
  BY <1>1 DEF Executions
<1> QED BY <1>1, <1>2, ExecutionsType, ConcatEmptySeq

(* Every step is of one of five kinds.                                     *)
LEMMA StepKinds ==
    ASSUME Typed, [Next]_vars
    PROVE  \/ Quiet
           \/ Dropped
           \/ StartBlock
           \/ \E m, t, out, fresh : Executing(m, t, out, fresh)
           \/ FinalizeBlock
<1>1. CASE Post
  BY <1>1, PostFacts
<1>2. CASE Import
  BY <1>2, ImportFacts
<1>3. CASE ImportExternal
  BY <1>3, ImportExternalFacts
<1>4. CASE ExecuteNew
  BY <1>4, ExecuteNewFacts
<1>5. CASE ExternalFails
  BY <1>5, ExternalFailsFacts
<1>6. CASE LeaveNew
  BY <1>6, LeaveNewFacts
<1>7. CASE ImportDone \/ ExternalDone \/ UNCHANGED vars
  BY <1>7, StillFacts
<1>8. CASE ImportFails \/ NewFails
  BY <1>8, DiscardFacts
<1>9. CASE DropEmpty
  BY <1>9, DropEmptyFacts
<1> QED
  BY <1>1, <1>2, <1>3, <1>4, <1>5, <1>6, <1>7, <1>8, <1>9 DEF Next

-----------------------------------------------------------------------------
(* Logical times.                                                          *)

(* One more execution, dated after all blocks before and after what its    *)
(* account did, or removed, in its own.                                    *)
LEMMA TimesOKAppend ==
    ASSUME NEW s \in Seq(Execution), NEW t \in Execution, TimesOK(s),
           t.msg.lt < t.lt, \A x \in Range(t.sends) : t.lt < x.lt,
           \A i \in DOMAIN s : s[i].height <= t.height,
           \A i \in DOMAIN s : s[i].height < t.height =>
              s[i].lt < t.lt /\ \A x \in Range(s[i].sends) : x.lt < t.lt,
           \A i \in DOMAIN s : s[i].height = t.height /\ s[i].account = t.account =>
              \/ s[i].lt < t.lt /\ \A x \in Range(s[i].sends) : x.lt < t.lt
              \/ RemovedFrom(s, i, Len(s) + 1, t.account, t.height)
    PROVE  TimesOK(Append(s, t))
<1> DEFINE u == Append(s, t)
           n == Len(s) + 1
<1>1. /\ u \in Seq(Execution) /\ Len(s) \in Nat /\ DOMAIN s = 1..Len(s)
      /\ DOMAIN u = DOMAIN s \union {n}
      /\ \A i \in DOMAIN s : u[i] = s[i]
      /\ u[n] = t
  BY OfAppend
<1>2. \A i \in DOMAIN s : i < n /\ ~(n < i)
  BY <1>1
<1>3. ~(n < n) /\ t.height \in Nat /\ ~(t.height < t.height)
      /\ \A i \in DOMAIN s : s[i].height \in Nat
  <2>1. \A i \in DOMAIN s : s[i] \in Execution
    BY OfSeq
  <2>2. t.height \in Nat /\ \A i \in DOMAIN s : s[i].height \in Nat
    BY <2>1 DEF Execution
  <2> QED BY <1>1, <2>2
<1>4. n \in Nat
  BY <1>1
<1> HIDE DEF u, n
<1>5. AfterMessage(u)
  BY <1>1 DEF TimesOK, AfterMessage
<1>6. HeightsFollow(u)
  BY <1>1, <1>2, <1>3 DEF TimesOK, HeightsFollow
<1>7. Disjoint(u)
  <2> SUFFICES ASSUME NEW i \in DOMAIN u, NEW j \in DOMAIN u, u[i].height < u[j].height
               PROVE  Later(u, i, j)
    BY DEF Disjoint
  <2>1. CASE i \in DOMAIN s /\ j \in DOMAIN s
    <3>1. Later(s, i, j)
      BY <1>1, <2>1 DEF TimesOK, Disjoint
    <3> QED BY <1>1, <2>1, <3>1 DEF Later
  <2>2. CASE i \in DOMAIN s /\ j = n
    BY <1>1, <2>2 DEF Later
  <2>3. CASE i = n
    <3>1. ~(u[i].height < u[j].height)
      BY <1>1, <1>3, <2>3
    <3> QED BY <3>1
  <2> QED BY <1>1, <2>1, <2>2, <2>3
<1>8. AccountsFollow(u)
  <2> SUFFICES ASSUME NEW i \in DOMAIN u, NEW j \in DOMAIN u, i < j,
                      u[i].account = u[j].account
               PROVE  Later(u, i, j) \/ RemovedFrom(u, i, j, u[i].account, u[j].height)
    BY DEF AccountsFollow
  <2>0. i \in DOMAIN s
    BY <1>1, <1>2, <1>3
  <2>1. CASE j \in DOMAIN s
    <3>1. Later(s, i, j) \/ RemovedFrom(s, i, j, s[i].account, s[j].height)
      BY <1>1, <2>0, <2>1 DEF TimesOK, AccountsFollow
    <3>2. CASE Later(s, i, j)
      BY <1>1, <2>0, <2>1, <3>2 DEF Later
    <3>3. CASE RemovedFrom(s, i, j, s[i].account, s[j].height)
      <4>1. PICK k \in i..(j - 1) : /\ s[k].account = s[i].account /\ s[k].removed
                                    /\ s[k].height = s[j].height
        BY <3>3 DEF RemovedFrom
      <4>2. k \in DOMAIN s
        BY <1>1, <2>0, <2>1
      <4>3. u[k] = s[k] /\ u[i] = s[i] /\ u[j] = s[j]
        BY <1>1, <2>0, <2>1, <4>2
      <4> QED BY <4>1, <4>3 DEF RemovedFrom
    <3> QED BY <3>1, <3>2, <3>3
  <2>2. CASE j = n
    <3>0. u[j] = t /\ u[i] = s[i] /\ s[i].account = t.account
      BY <1>1, <2>0, <2>2
    <3>1. CASE s[i].lt < t.lt /\ \A x \in Range(s[i].sends) : x.lt < t.lt
      BY <3>0, <3>1 DEF Later
    <3>2. CASE RemovedFrom(s, i, n, t.account, t.height)
      <4>1. PICK k \in i..(n - 1) : /\ s[k].account = t.account /\ s[k].removed
                                    /\ s[k].height = t.height
        BY <3>2 DEF RemovedFrom
      <4>2. k \in DOMAIN s
        BY <1>1, <2>0 DEF n
      <4>3. u[k] = s[k]
        BY <1>1, <4>2
      <4> QED BY <2>2, <3>0, <4>1, <4>3 DEF RemovedFrom
    <3>3. s[i].height < t.height \/ s[i].height = t.height
      BY <1>3, <2>0
    <3> QED BY <2>0, <3>0, <3>1, <3>2, <3>3 DEF n
  <2> QED BY <1>1, <2>1, <2>2
<1> QED BY <1>5, <1>6, <1>7, <1>8 DEF TimesOK, u

LEMMA InitLt == Init => LtInv
<1> SUFFICES ASSUME Init PROVE LtInv
  OBVIOUS
<1>1. Executions = done /\ done = <<>> /\ ~Building
  BY InitTyped, IdleExecutions DEF Init, Building
<1>2. DOMAIN <<>> = {}
  BY EmptySequence
<1>3. TimesOK(done) /\ TimesOK(Executions)
  BY <1>1, <1>2 DEF TimesOK, AfterMessage, AccountsFollow, HeightsFollow, Disjoint
<1>4. DoneBelowEnd
  BY <1>1, <1>2 DEF DoneBelowEnd
<1> QED BY <1>1, <1>3, <1>4 DEF LtInv, BlockBelowEnd, AccountsAhead

(* An execution is dated after the blocks before, and after what its       *)
(* account did in its own block, or removed.                               *)
LEMMA ExecutingLt ==
    ASSUME Typed, LtInv, NEW m, NEW t, NEW out, NEW fresh, Executing(m, t, out, fresh)
    PROVE  LtInv'
<1> DEFINE s == Executions
           n == Len(s) + 1
<1>1. /\ done' = done /\ s \in Seq(Execution) /\ t \in Execution
      /\ s' = Append(s, t)
      /\ endLt' = endLt /\ height' = height /\ Building /\ Building'
  <2>1. UNCHANGED <<phase, endLt, height>> /\ Building
    BY DEF Executing, chain
  <2> QED BY <2>1, ExecutingExecutions, ExecutionsType DEF Building
<1>2. /\ Len(s) \in Nat /\ DOMAIN s = 1..Len(s)
      /\ DOMAIN s' = DOMAIN s \union {n}
      /\ \A i \in DOMAIN s : s'[i] = s[i]
      /\ s'[n] = t
  BY <1>1, OfAppend
<1>3. Executes(m, t, out, fresh)
  BY DEF Executing
<1>4. /\ endLt \in Nat /\ height \in Nat /\ endLt < block.start
      /\ block.start \in Nat /\ block.end \in Nat /\ block'.end \in Nat
  <2>1. block \in BlockRecord /\ block' \in BlockRecord
    BY <1>3 DEF Typed, Executes
  <2> QED BY <1>1, <2>1 DEF Typed, TypeOK, Building, BlockRecord
<1>5. /\ t.lt \in Nat /\ t.height = height + 1 /\ t.account \in Accounts
      /\ block.start <= t.lt /\ t.msg.lt < t.lt /\ t.lt <= block'.end
      /\ \A x \in Range(t.sends) : t.lt < x.lt /\ x.lt <= block'.end
      /\ block.end <= block'.end
  BY <1>1, <1>3 DEF Executes, Execution
<1>6. /\ block.account[t.account].trans \in Nat /\ block.account[t.account].time \in Nat
      /\ block.account[t.account].trans < t.lt /\ block.account[t.account].time <= t.lt
  <2>1. block.account[t.account] \in [trans : Nat, time : Nat]
    BY <1>1, <1>5 DEF Typed, AccountStates
  <2> QED BY <1>3, <2>1 DEF Executes
<1>7. \A i \in DOMAIN s : /\ s[i].lt \in Nat /\ s[i].height \in Nat /\ s[i].account \in Accounts
                          /\ \A x \in Range(s[i].sends) : x.lt \in Nat
  <2> TAKE i \in DOMAIN s
  <2>1. s[i] \in Execution
    BY <1>1, OfSeq
  <2>2. s[i].sends \in Seq(Internals)
    BY <2>1 DEF Execution
  <2>3. \A x \in Range(s[i].sends) : x.lt \in Nat
    BY <2>2, OfSeq DEF Internals, Message
  <2> QED BY <2>1, <2>3 DEF Execution
<1> HIDE DEF s, n
<1>8. \A i \in DOMAIN s : /\ s[i].height <= height + 1
                          /\ s[i].height <= height => UpTo(s, i, endLt)
                          /\ UpTo(s, i, block.end)
  BY <1>1 DEF LtInv, DoneBelowEnd, BlockBelowEnd, s
<1>9. \A i \in DOMAIN s :
         \/ s[i].height <= height
         \/ /\ s[i].lt <= block.account[s[i].account].trans
            /\ \A x \in Range(s[i].sends) : x.lt < block.account[s[i].account].time
         \/ RemovedFrom(s, i, n, s[i].account, height + 1)
  BY <1>1 DEF LtInv, AccountsAhead, s, n
<1>10. TimesOK(Append(s, t))
  <2>1. \A i \in DOMAIN s : s[i].height <= t.height
    BY <1>5, <1>8
  <2>2. ASSUME NEW i \in DOMAIN s, s[i].height < t.height
        PROVE  s[i].lt < t.lt /\ \A x \in Range(s[i].sends) : x.lt < t.lt
    <3>1. s[i].height <= height
      BY <1>4, <1>5, <1>7, <2>2
    <3>2. s[i].lt <= endLt /\ \A x \in Range(s[i].sends) : x.lt <= endLt
      BY <1>8, <3>1 DEF UpTo
    <3> QED BY <1>4, <1>5, <1>7, <3>2
  <2>3. ASSUME NEW i \in DOMAIN s, s[i].height = t.height, s[i].account = t.account
        PROVE  \/ s[i].lt < t.lt /\ \A x \in Range(s[i].sends) : x.lt < t.lt
               \/ RemovedFrom(s, i, Len(s) + 1, t.account, t.height)
    <3>1. ~(s[i].height <= height)
      BY <1>4, <1>5, <2>3
    <3>2. CASE /\ s[i].lt <= block.account[s[i].account].trans
               /\ \A x \in Range(s[i].sends) : x.lt < block.account[s[i].account].time
      <4>1. s[i].lt < t.lt
        BY <1>5, <1>6, <1>7, <2>3, <3>2
      <4>2. \A x \in Range(s[i].sends) : x.lt < t.lt
        BY <1>5, <1>6, <1>7, <2>3, <3>2
      <4> QED BY <4>1, <4>2
    <3>3. CASE RemovedFrom(s, i, n, s[i].account, height + 1)
      BY <1>5, <2>3, <3>3 DEF n
    <3> QED BY <1>9, <3>1, <3>2, <3>3
  <2>4. TimesOK(s)
    BY DEF LtInv, s
  <2> QED BY <1>1, <1>5, <2>1, <2>2, <2>3, <2>4, TimesOKAppend
<1>11. TimesOK(done)' /\ TimesOK(Executions)'
  BY <1>1, <1>10 DEF LtInv, s
<1>12. DoneBelowEnd'
  <2>1. \A i \in DOMAIN done : done[i].height <= height /\ UpTo(done, i, endLt)
    BY DEF LtInv, DoneBelowEnd
  <2>2. ASSUME NEW i \in DOMAIN s'
        PROVE  s'[i].height <= height + 1 /\ (s'[i].height <= height => UpTo(s', i, endLt))
    <3>1. CASE i \in DOMAIN s
      BY <1>2, <1>8, <3>1 DEF UpTo
    <3>2. CASE i = n
      <4>1. s'[i].height = height + 1
        BY <1>2, <1>5, <3>2
      <4> QED BY <1>4, <4>1
    <3> QED BY <1>2, <3>1, <3>2
  <2> QED BY <1>1, <2>1, <2>2 DEF DoneBelowEnd, s, UpTo
<1>13. BlockBelowEnd'
  <2>1. ASSUME NEW i \in DOMAIN s'
        PROVE  UpTo(s', i, block'.end)
    <3>1. CASE i \in DOMAIN s
      <4>1. s'[i] = s[i] /\ s[i].lt <= block.end /\ \A x \in Range(s[i].sends) : x.lt <= block.end
        BY <1>2, <1>8, <3>1 DEF UpTo
      <4> QED BY <1>4, <1>5, <1>7, <3>1, <4>1 DEF UpTo
    <3>2. CASE i = n
      BY <1>2, <1>5, <3>2 DEF UpTo
    <3> QED BY <1>2, <3>1, <3>2
  <2> QED BY <2>1 DEF BlockBelowEnd, s, UpTo
<1>14. AccountsAhead'
  <2>1. Len(s') = n /\ n \in Nat
    BY <1>1, <1>2, OfAppend DEF n
  <2>2. ASSUME NEW i \in DOMAIN s'
        PROVE  \/ s'[i].height <= height
               \/ /\ s'[i].lt <= block'.account[s'[i].account].trans
                  /\ \A x \in Range(s'[i].sends) : x.lt < block'.account[s'[i].account].time
               \/ RemovedFrom(s', i, Len(s') + 1, s'[i].account, height + 1)
    <3>1. CASE i = n
      <4>0. s'[i] = t
        BY <1>2, <3>1
      <4>1. CASE t.removed
        <5>1. n \in n..(Len(s') + 1 - 1)
          BY <2>1
        <5>2. s'[n].account = t.account /\ s'[n].removed /\ s'[n].height = height + 1
          BY <1>2, <1>5, <4>1
        <5> QED BY <3>1, <4>0, <5>1, <5>2 DEF RemovedFrom
      <4>2. CASE /\ t.lt <= block'.account[t.account].trans
                 /\ \A x \in Range(t.sends) : x.lt < block'.account[t.account].time
        BY <4>0, <4>2
      <4> QED BY <1>3, <4>1, <4>2 DEF Executes
    <3>2. CASE i \in DOMAIN s
      <4>0. s'[i] = s[i]
        BY <1>2, <3>2
      <4>1. CASE s[i].height <= height
        BY <4>0, <4>1
      <4>2. CASE RemovedFrom(s, i, n, s[i].account, height + 1)
        <5>1. PICK k \in i..(n - 1) : /\ s[k].account = s[i].account /\ s[k].removed
                                      /\ s[k].height = height + 1
          BY <4>2 DEF RemovedFrom
        <5>2. k \in DOMAIN s /\ k \in i..(Len(s') + 1 - 1)
          BY <1>2, <2>1, <3>2, <5>1 DEF n
        <5>3. s'[k] = s[k]
          BY <1>2, <5>2
        <5> QED BY <4>0, <5>1, <5>2, <5>3 DEF RemovedFrom
      <4>3. CASE /\ s[i].lt <= block.account[s[i].account].trans
                 /\ \A x \in Range(s[i].sends) : x.lt < block.account[s[i].account].time
        <5>1. CASE s[i].account # t.account
          <6>1. block'.account[s[i].account] = block.account[s[i].account]
            BY <1>3, <1>7, <3>2, <5>1 DEF Executes
          <6> QED BY <4>0, <4>3, <6>1
        <5>2. CASE s[i].account = t.account /\ ~t.removed
          <6>1. /\ t.lt <= block'.account[t.account].trans
                /\ t.lt <= block'.account[t.account].time
            BY <1>3, <5>2 DEF Executes
          <6>2. /\ block'.account[t.account].trans \in Nat
                /\ block'.account[t.account].time \in Nat
            <7>1. block'.account[t.account] \in [trans : Nat, time : Nat]
              BY <1>3, <1>5 DEF Executes, AccountStates
            <7> QED BY <7>1
          <6>3. s[i].lt <= block'.account[t.account].trans
            BY <1>5, <1>6, <1>7, <3>2, <4>3, <5>2, <6>1, <6>2
          <6>4. \A x \in Range(s[i].sends) : x.lt < block'.account[t.account].time
            BY <1>5, <1>6, <1>7, <3>2, <4>3, <5>2, <6>1, <6>2
          <6> QED BY <4>0, <5>2, <6>3, <6>4
        <5>3. CASE s[i].account = t.account /\ t.removed
          <6>1. n \in i..(Len(s') + 1 - 1)
            BY <1>2, <2>1, <3>2 DEF n
          <6>2. s'[n].account = s[i].account /\ s'[n].removed /\ s'[n].height = height + 1
            BY <1>2, <1>5, <5>3
          <6> QED BY <4>0, <6>1, <6>2 DEF RemovedFrom
        <5> QED BY <5>1, <5>2, <5>3
      <4> QED BY <1>9, <3>2, <4>1, <4>2, <4>3
    <3> QED BY <1>2, <3>1, <3>2
  <2> QED BY <1>1, <2>2 DEF AccountsAhead, s
<1> QED BY <1>11, <1>12, <1>13, <1>14 DEF LtInv


(* The other steps execute nothing.                                        *)
LEMMA QuietLt == ASSUME Typed, LtInv, Quiet PROVE LtInv'
<1>1. /\ done' = done /\ Executions' = Executions
      /\ endLt' = endLt /\ height' = height
      /\ block'.account = block.account /\ block'.end = block.end
      /\ Building' <=> Building
  BY QuietExecutions DEF Quiet, chain
<1>2. TimesOK(done)' /\ TimesOK(Executions)'
  BY <1>1 DEF LtInv
<1>3. DoneBelowEnd'
  BY <1>1 DEF LtInv, DoneBelowEnd, UpTo
<1>4. BlockBelowEnd'
  BY <1>1 DEF LtInv, BlockBelowEnd, UpTo
<1>5. AccountsAhead'
  BY <1>1 DEF LtInv, AccountsAhead, RemovedFrom
<1> QED BY <1>2, <1>3, <1>4, <1>5 DEF LtInv

LEMMA DroppedLt == ASSUME Typed, LtInv, Dropped PROVE LtInv'
<1>1. /\ done' = done /\ Executions' = done /\ endLt' = endLt /\ height' = height
      /\ ~Building'
  BY DroppedExecutions DEF Dropped, chain
<1>2. TimesOK(done)' /\ TimesOK(Executions)'
  BY <1>1 DEF LtInv
<1>3. DoneBelowEnd'
  <2>1. \A i \in DOMAIN done : done[i].height <= height /\ UpTo(done, i, endLt)
    BY DEF LtInv, DoneBelowEnd
  <2>2. \A i \in DOMAIN done : done[i].height <= height + 1
    <3>1. \A i \in DOMAIN done : done[i] \in Execution
      BY ExecutionsType, OfSeq
    <3>2. \A i \in DOMAIN done : done[i].height \in Nat
      BY <3>1 DEF Execution
    <3> QED BY <2>1, <3>2 DEF Typed, TypeOK
  <2> QED BY <1>1, <2>1, <2>2 DEF DoneBelowEnd, UpTo
<1> QED BY <1>1, <1>2, <1>3 DEF LtInv, BlockBelowEnd, AccountsAhead

LEMMA StartLtInv == ASSUME Typed, LtInv, StartBlock PROVE LtInv'
<1>1. /\ done' = done /\ Executions' = done /\ Executions = done
      /\ endLt' = endLt /\ height' = height
      /\ block'.end = endLt + 2
  BY StartExecutions, StartFacts DEF chain
<1>2. TimesOK(done)' /\ TimesOK(Executions)'
  BY <1>1 DEF LtInv
<1>3. DoneBelowEnd'
  BY <1>1 DEF LtInv, DoneBelowEnd, UpTo
<1>4. \A i \in DOMAIN done : done[i].height <= height /\ UpTo(done, i, endLt)
  BY DEF LtInv, DoneBelowEnd
<1>5. \A i \in DOMAIN done : /\ done[i].lt \in Nat
                             /\ \A x \in Range(done[i].sends) : x.lt \in Nat
  <2> TAKE i \in DOMAIN done
  <2>1. done[i] \in Execution
    BY ExecutionsType, OfSeq
  <2>2. done[i].sends \in Seq(Internals)
    BY <2>1 DEF Execution
  <2>3. \A x \in Range(done[i].sends) : x.lt \in Nat
    BY <2>2, OfSeq DEF Internals, Message
  <2> QED BY <2>1, <2>3 DEF Execution
<1>6. BlockBelowEnd'
  <2>1. endLt \in Nat
    BY DEF Typed, TypeOK
  <2>2. \A i \in DOMAIN done : UpTo(done, i, endLt + 2)
    BY <1>4, <1>5, <2>1 DEF UpTo
  <2> QED BY <1>1, <2>2 DEF BlockBelowEnd, UpTo
<1>7. AccountsAhead'
  BY <1>1, <1>4 DEF AccountsAhead
<1> QED BY <1>2, <1>3, <1>6, <1>7 DEF LtInv

LEMMA FinalizeLt == ASSUME Typed, LtInv, FinalizeBlock PROVE LtInv'
<1>1. /\ done' = Executions /\ Executions' = Executions
      /\ block.end <= endLt' /\ height' = height + 1 /\ Building /\ ~Building'
      /\ endLt' \in Nat /\ block.end \in Nat /\ height \in Nat
  <2>1. block.end \in Nat /\ height \in Nat
    BY DEF Typed, TypeOK, BlockRecord
  <2> QED BY <2>1, FinalizeExecutions, FinalizeFacts
<1>2. TimesOK(done)' /\ TimesOK(Executions)'
  BY <1>1 DEF LtInv
<1>3. \A i \in DOMAIN Executions :
         /\ Executions[i].lt \in Nat /\ Executions[i].height \in Nat
         /\ \A x \in Range(Executions[i].sends) : x.lt \in Nat
  <2> TAKE i \in DOMAIN Executions
  <2>1. Executions[i] \in Execution
    BY ExecutionsType, OfSeq
  <2>2. Executions[i].sends \in Seq(Internals)
    BY <2>1 DEF Execution
  <2>3. \A x \in Range(Executions[i].sends) : x.lt \in Nat
    BY <2>2, OfSeq DEF Internals, Message
  <2> QED BY <2>1, <2>3 DEF Execution
<1> DEFINE s == Executions
<1> HIDE DEF s
<1>4. \A i \in DOMAIN s : s[i].height <= height + 1 /\ UpTo(s, i, block.end)
  BY <1>1 DEF LtInv, DoneBelowEnd, BlockBelowEnd, s
<1>5. \A i \in DOMAIN s : s[i].height <= height + 1 + 1 /\ UpTo(s, i, endLt')
  BY <1>1, <1>3, <1>4 DEF UpTo, s
<1>6. DoneBelowEnd'
  BY <1>1, <1>4, <1>5 DEF DoneBelowEnd, UpTo, s
<1> QED BY <1>1, <1>2, <1>6 DEF LtInv, BlockBelowEnd, AccountsAhead

LEMMA LtStep == Typed /\ LtInv /\ [Next]_vars => LtInv'
BY StepKinds, QuietLt, DroppedLt, StartLtInv, ExecutingLt, FinalizeLt

(* A transaction comes after its message in logical time, and after what   *)
(* its account did and sent before, whatever executions fail and accounts  *)
(* are removed.                                                            *)
THEOREM TimesAreCausal == Spec => []LtCausal
<1>1. Spec => [](Typed /\ LtInv)
  BY InitTyped, InitLt, TypedStep, LtStep, PTL DEF Spec
<1>2. Typed /\ LtInv => LtCausal
  <2> SUFFICES ASSUME Typed, LtInv PROVE LtCausal
    OBVIOUS
  <2>1. AfterMessage(done) /\ AccountsFollow(done)
    BY DEF LtInv, TimesOK
  <2>2. \A t \in Transaction : t.msg.lt < t.lt
    BY <2>1, ExecutionsType, OfSeq DEF Transaction, AfterMessage
  <2> QED BY <2>1, <2>2 DEF LtCausal, AccountsFollow, Later, RemovedFrom
<1> QED BY <1>1, <1>2, PTL

(* The logical times of a block, messages included, lie after those of all *)
(* blocks before.                                                          *)
THEOREM BlocksAreDisjoint == Spec => []BlocksDisjoint
<1>1. Spec => [](Typed /\ LtInv)
  BY InitTyped, InitLt, TypedStep, LtStep, PTL DEF Spec
<1>2. Typed /\ LtInv => BlocksDisjoint
  <2> SUFFICES ASSUME Typed, LtInv, NEW i \in DOMAIN done, NEW j \in DOMAIN done,
                      done[i].height < done[j].height
               PROVE  done[j].lt > done[i].lt /\ \A m \in Range(done[i].sends) : done[j].lt > m.lt
    BY DEF BlocksDisjoint
  <2>1. Later(done, i, j)
    BY DEF LtInv, TimesOK, Disjoint
  <2>2. done[i] \in Execution /\ done[j] \in Execution
    BY ExecutionsType, OfSeq
  <2>3. done[i].lt \in Nat /\ done[j].lt \in Nat /\ done[i].sends \in Seq(Internals)
    BY <2>2 DEF Execution
  <2>4. \A m \in Range(done[i].sends) : m.lt \in Nat
    BY <2>3, OfSeq DEF Internals, Message
  <2> QED BY <2>1, <2>3, <2>4 DEF Later
<1> QED BY <1>1, <1>2, PTL

(* The first execution fills a block in sequential mode, and nothing is    *)
(* executed in a block that is full.                                       *)
LEMMA SeqStep == Typed /\ SeqInv /\ [Next]_vars => SeqInv'
<1> SUFFICES ASSUME Typed, SeqInv, [Next]_vars PROVE SeqInv'
  OBVIOUS
<1>1. CASE \E m, t, out, fresh : Executing(m, t, out, fresh)
  <2>1. PICK m, t, out, fresh : Executing(m, t, out, fresh)
    BY <1>1
  <2>2. /\ ~block.full /\ block'.seq = block.seq /\ (block.seq => block'.full)
        /\ block'.executed = Append(block.executed, t) /\ t \in Execution
    BY <2>1 DEF Executing, Executes
  <2>3. CASE block.seq
    <3>1. block.executed = <<>>
      BY <2>2, <2>3 DEF SeqInv
    <3>2. Len(block'.executed) = Len(block.executed) + 1 /\ Len(block.executed) = 0
      BY <2>2, <3>1, ExecutionsType, OfAppend, EmptySequence
    <3> QED BY <2>2, <2>3, <3>2 DEF SeqInv
  <2> QED BY <2>2, <2>3 DEF SeqInv
<1>2. CASE ~Building'
  <2>1. Typed'
    BY TypedStep
  <2>2. BlockTyped'
    BY <2>1, TypedInParts, PTL
  <2>3. block'.executed = <<>>
    BY <1>2, <2>2, NoBlockTyped DEF BlockTyped
  <2> QED BY <2>3 DEF SeqInv
<1>3. CASE StartBlock
  BY <1>3, StartFacts DEF SeqInv
<1>4. CASE Quiet
  BY <1>4 DEF Quiet, SeqInv
<1> QED BY <1>1, <1>2, <1>3, <1>4, StepKinds, FinalizeFacts DEF Dropped

(* In sequential mode a block has one transaction at most, through all     *)
(* three of its phases.                                                    *)
THEOREM OneMessageInSequence == Spec => []SeqSingle
<1>1. Init => SeqInv
  BY NoBlockTyped DEF Init, SeqInv
<1>2. Spec => [](Typed /\ SeqInv)
  BY <1>1, InitTyped, TypedStep, SeqStep, PTL DEF Spec
<1>3. Typed /\ SeqInv => SeqSingle
  <2> SUFFICES ASSUME Typed, SeqInv PROVE block.seq => Len(block.executed) <= 1
    BY DEF SeqSingle
  <2>1. Len(<<>>) = 0 /\ 0 <= 1 /\ 1 <= 1
    BY EmptySequence
  <2> QED BY <2>1, Zenon DEF SeqInv
<1> QED BY <1>2, <1>3, PTL

-----------------------------------------------------------------------------
(* Messages sent and executed.                                             *)

LEMMA InSentIn ==
    ASSUME NEW s, NEW x
    PROVE  x \in SentIn(s) <=> \E i \in DOMAIN s : x \in Range(s[i].sends)
BY DEF SentIn

LEMMA InTook ==
    ASSUME NEW s, NEW x
    PROVE  x \in TookInternal(s) <=> ~External(x) /\ \E i \in DOMAIN s : x = s[i].msg
BY DEF TookInternal

(* What a sequence of executions sent is internal and has numbers.         *)
LEMMA SentType ==
    ASSUME NEW s \in Seq(Execution)
    PROVE  /\ \A i \in DOMAIN s : /\ s[i] \in Execution /\ s[i].sends \in Seq(Internals)
                                  /\ s[i].account \in Accounts
                                  /\ s[i].lt \in Nat /\ s[i].height \in Nat
                                  /\ \A x \in Range(s[i].sends) : x \in Internals
           /\ \A x \in SentIn(s) : /\ x \in Internals /\ ~External(x)
                                   /\ x.no \in Nat /\ x.lt \in Nat
<1>1. \A i \in DOMAIN s : s[i] \in Execution
  BY OfSeq
<1>2. \A i \in DOMAIN s : /\ s[i].sends \in Seq(Internals) /\ s[i].account \in Accounts
                          /\ s[i].lt \in Nat /\ s[i].height \in Nat
  BY <1>1 DEF Execution
<1>3. \A i \in DOMAIN s : \A x \in Range(s[i].sends) : x \in Internals
  BY <1>2, OfSeq
<1>4. \A x \in Internals : ~External(x) /\ x.no \in Nat /\ x.lt \in Nat
  BY DEF Internals, Message
<1>5. \A x \in SentIn(s) : x \in Internals
  BY <1>3, InSentIn
<1> QED BY <1>1, <1>2, <1>3, <1>4, <1>5

LEMMA SentAppend ==
    ASSUME NEW s \in Seq(Execution), NEW t \in Execution
    PROVE  /\ SentIn(Append(s, t)) = SentIn(s) \union Range(t.sends)
           /\ External(t.msg) => TookInternal(Append(s, t)) = TookInternal(s)
           /\ ~External(t.msg) => TookInternal(Append(s, t)) = TookInternal(s) \union {t.msg}
<1> DEFINE u == Append(s, t)
           n == Len(s) + 1
<1>1. /\ DOMAIN u = DOMAIN s \union {n}
      /\ \A i \in DOMAIN s : u[i] = s[i]
      /\ u[n] = t
  BY OfAppend
<1> HIDE DEF u, n
<1>2. SentIn(u) = SentIn(s) \union Range(t.sends)
  <2>1. ASSUME NEW x \in SentIn(u) PROVE x \in SentIn(s) \union Range(t.sends)
    BY <1>1, <2>1, InSentIn
  <2>2. ASSUME NEW x \in SentIn(s) \union Range(t.sends) PROVE x \in SentIn(u)
    BY <1>1, <2>2, InSentIn
  <2> QED BY <2>1, <2>2
<1>3. ASSUME NEW x
      PROVE  x \in TookInternal(u) <=> x \in TookInternal(s) \/ (~External(x) /\ x = t.msg)
  BY <1>1, InTook
<1> QED BY <1>2, <1>3 DEF u

(* The message m is taken from out or from new, or from outside.           *)
TakenFrom(m, out, new, restOut, restNew) ==
    /\ restOut \subseteq out /\ restNew \subseteq new
    /\ External(m) => restOut = out /\ restNew = new
    /\ ~External(m) => m \in out \union new /\ restOut \union restNew = (out \union new) \ {m}

LEMMA AccountedAppend ==
    ASSUME NEW s \in Seq(Execution), NEW t \in Execution,
           NEW out, NEW new, NEW restOut, NEW restNew,
           Accounted(s, out, new), ExecutedOnce(s),
           TakenFrom(t.msg, out, new, restOut, restNew),
           Range(t.sends) \intersect SentIn(s) = {}
    PROVE  /\ Accounted(Append(s, t), restOut, restNew \union Range(t.sends))
           /\ ExecutedOnce(Append(s, t))
<1> DEFINE u == Append(s, t)
           n == Len(s) + 1
           sends == Range(t.sends)
<1>1. /\ DOMAIN u = DOMAIN s \union {n}
      /\ \A i \in DOMAIN s : u[i] = s[i]
      /\ u[n] = t
  BY OfAppend
<1>2. /\ SentIn(u) = SentIn(s) \union sends
      /\ External(t.msg) => TookInternal(u) = TookInternal(s)
      /\ ~External(t.msg) => TookInternal(u) = TookInternal(s) \union {t.msg}
  BY SentAppend
<1>3. \A i \in DOMAIN s : ~External(s[i].msg) => s[i].msg \in TookInternal(s)
  BY InTook
<1> HIDE DEF u, n, sends
<1>4. /\ TookInternal(s) \intersect (out \union new) = {}
      /\ out \intersect new = {}
      /\ SentIn(s) = TookInternal(s) \union out \union new
  BY DEF Accounted
<1>5. sends \intersect SentIn(s) = {}
  BY DEF sends
<1>6. CASE External(t.msg)
  <2>1. TookInternal(u) = TookInternal(s) /\ restOut = out /\ restNew = new
    BY <1>2, <1>6 DEF TakenFrom
  <2>2. Accounted(u, out, new \union sends)
    BY <1>2, <1>4, <1>5, <2>1 DEF Accounted
  <2>3. ExecutedOnce(u)
    <3> SUFFICES ASSUME NEW i \in DOMAIN u, NEW j \in DOMAIN u, i # j,
                        ~External(u[i].msg), u[i].msg = u[j].msg
                 PROVE  FALSE
      BY DEF ExecutedOnce
    <3>1. i # n /\ j # n
      BY <1>1, <1>6
    <3> QED BY <1>1, <3>1 DEF ExecutedOnce
  <2> QED BY <2>1, <2>2, <2>3 DEF u, sends
<1>7. CASE ~External(t.msg)
  <2>1. /\ TookInternal(u) = TookInternal(s) \union {t.msg}
        /\ t.msg \in out \union new /\ restOut \union restNew = (out \union new) \ {t.msg}
        /\ restOut \subseteq out /\ restNew \subseteq new
    BY <1>2, <1>7 DEF TakenFrom
  <2>2. Accounted(u, restOut, restNew \union sends)
    <3>1. TookInternal(u) \intersect (restOut \union (restNew \union sends)) = {}
      BY <1>4, <1>5, <2>1
    <3>2. restOut \intersect (restNew \union sends) = {}
      BY <1>4, <1>5, <2>1
    <3>3. SentIn(u) = TookInternal(u) \union restOut \union (restNew \union sends)
      BY <1>2, <1>4, <1>5, <2>1
    <3> QED BY <3>1, <3>2, <3>3 DEF Accounted
  <2>3. ExecutedOnce(u)
    <3> SUFFICES ASSUME NEW i \in DOMAIN u, NEW j \in DOMAIN u, i # j,
                        ~External(u[i].msg), u[i].msg = u[j].msg
                 PROVE  FALSE
      BY DEF ExecutedOnce
    <3>1. CASE i \in DOMAIN s /\ j \in DOMAIN s
      BY <1>1, <3>1 DEF ExecutedOnce
    <3>2. CASE i \in DOMAIN s /\ j = n
      <4>1. t.msg \in TookInternal(s)
        BY <1>1, <1>3, <1>7, <3>2
      <4> QED BY <1>4, <2>1, <4>1
    <3>3. CASE i = n /\ j \in DOMAIN s
      <4>1. t.msg \in TookInternal(s)
        BY <1>1, <1>3, <1>7, <3>3
      <4> QED BY <1>4, <2>1, <4>1
    <3> QED BY <1>1, <3>1, <3>2, <3>3
  <2> QED BY <2>2, <2>3 DEF u, sends
<1> QED BY <1>6, <1>7

LEMMA NumbersAppend ==
    ASSUME NEW s \in Seq(Execution), NEW t \in Execution, NEW k \in Nat, NEW l \in Nat, k <= l,
           NumbersGrow(s, k),
           \A x \in Range(t.sends) : x.src = t.account /\ k < x.no /\ x.no <= l,
           \A x, y \in Range(t.sends) : x.no < y.no => x.lt < y.lt
    PROVE  /\ NumbersGrow(Append(s, t), l)
           /\ Range(t.sends) \intersect SentIn(s) = {}
           /\ \A x \in SentIn(s), y \in Range(t.sends) : x.no < y.no
<1> DEFINE u == Append(s, t)
           n == Len(s) + 1
<1>1. /\ Len(s) \in Nat /\ DOMAIN s = 1..Len(s)
      /\ DOMAIN u = DOMAIN s \union {n}
      /\ \A i \in DOMAIN s : u[i] = s[i]
      /\ u[n] = t
  BY OfAppend
<1>2. \A i \in DOMAIN s : ~(n < i)
  BY <1>1
<1>3. ~(n < n)
  BY <1>1
<1> HIDE DEF u, n
<1>4. \A x \in Range(t.sends) : x.no \in Nat
  <2>1. t.sends \in Seq(Internals)
    BY DEF Execution
  <2> QED BY <2>1, OfSeq DEF Internals, Message
<1>5. \A i \in DOMAIN s : \A x \in Range(s[i].sends) : x.no \in Nat /\ x.no <= k
  BY SentType, InSentIn DEF NumbersGrow
<1>6. \A i \in DOMAIN s : \A x \in Range(s[i].sends), y \in Range(t.sends) : x.no < y.no
  BY <1>4, <1>5
<1>7. \A x \in SentIn(s), y \in Range(t.sends) : x.no < y.no
  BY <1>6, InSentIn
<1>8. Range(t.sends) \intersect SentIn(s) = {}
  <2> SUFFICES ASSUME NEW x \in Range(t.sends), x \in SentIn(s) PROVE FALSE
    OBVIOUS
  <2>1. x.no < x.no
    BY <1>7
  <2> QED BY <1>4, <2>1
<1>9. NumbersGrow(u, l)
  <2>1. ASSUME NEW i \in DOMAIN u, NEW j \in DOMAIN u, i < j,
               NEW x \in Range(u[i].sends), NEW y \in Range(u[j].sends)
        PROVE  x.no < y.no
    <3>1. i \in DOMAIN s
      BY <1>1, <1>2, <1>3, <2>1
    <3>2. CASE j \in DOMAIN s
      BY <1>1, <2>1, <3>1, <3>2 DEF NumbersGrow
    <3>3. CASE j = n
      BY <1>1, <1>6, <3>1, <3>3
    <3> QED BY <1>1, <3>2, <3>3
  <2>2. ASSUME NEW i \in DOMAIN u, NEW x \in Range(u[i].sends), NEW y \in Range(u[i].sends),
               x.no < y.no
        PROVE  x.lt < y.lt
    BY <1>1, <2>2 DEF NumbersGrow
  <2>3. ASSUME NEW i \in DOMAIN u, NEW x \in Range(u[i].sends)
        PROVE  x.src = u[i].account /\ x.no <= l
    <3>1. CASE i \in DOMAIN s
      <4>1. x.src = s[i].account /\ x.no \in Nat /\ x.no <= k
        BY <1>1, <1>5, <3>1 DEF NumbersGrow
      <4> QED BY <1>1, <3>1, <4>1
    <3>2. CASE i = n
      BY <1>1, <3>2
    <3> QED BY <1>1, <3>1, <3>2
  <2> QED BY <2>1, <2>2, <2>3 DEF NumbersGrow
<1> QED BY <1>7, <1>8, <1>9 DEF u

(* The first of a sequence in the order of numbers has the least number.   *)
LEMMA FirstByNumber ==
    ASSUME NEW S, S \subseteq Message, NEW q \in Seq(S), q # <<>>, ByNumber(q)
    PROVE  /\ ByNumber(Tail(q))
           /\ \A x \in Range(Tail(q)) : Head(q).no < x.no
           /\ Head(q) \notin Range(Tail(q))
<1>1. /\ Head(q) \in S /\ Tail(q) \in Seq(S) /\ Head(q) = q[1]
      /\ Len(q) \in Nat \ {0} /\ Len(Tail(q)) = Len(q) - 1
      /\ \A i \in 1..Len(Tail(q)) : Tail(q)[i] = q[i + 1]
  BY OfTail
<1>2. DOMAIN q = 1..Len(q) /\ DOMAIN Tail(q) = 1..Len(Tail(q))
  BY <1>1, OfSeq
<1>3. \A i \in 1..Len(Tail(q)) : i + 1 \in DOMAIN q /\ 1 < i + 1
  BY <1>1, <1>2
<1>4. 1 \in DOMAIN q
  BY <1>1, <1>2
<1>5. ByNumber(Tail(q))
  <2> SUFFICES ASSUME NEW i \in 1..Len(Tail(q)), NEW j \in 1..Len(Tail(q)), i < j
               PROVE  Tail(q)[i].no < Tail(q)[j].no
    BY <1>2 DEF ByNumber
  <2>1. i + 1 < j + 1
    OBVIOUS
  <2> QED BY <1>1, <1>3, <2>1 DEF ByNumber
<1>6. \A x \in Range(Tail(q)) : Head(q).no < x.no
  <2> TAKE x \in Range(Tail(q))
  <2>1. PICK i \in 1..Len(Tail(q)) : x = Tail(q)[i]
    BY <1>2 DEF Range
  <2> QED BY <1>1, <1>3, <1>4, <2>1 DEF ByNumber
<1>7. Head(q) \notin Range(Tail(q))
  <2>1. Head(q).no \in Nat
    BY <1>1 DEF Message
  <2> QED BY <1>6, <2>1
<1> QED BY <1>5, <1>6, <1>7

LEMMA ByNumberConcat ==
    ASSUME NEW S, S \subseteq Message, NEW q \in Seq(S), NEW r \in Seq(S),
           ByNumber(q), ByNumber(r),
           \A x \in Range(q), y \in Range(r) : x.no < y.no
    PROVE  ByNumber(q \o r)
<1> DEFINE u == q \o r
<1>1. /\ Len(u) = Len(q) + Len(r) /\ u \in Seq(S)
      /\ \A i \in 1..Len(q) : u[i] = q[i]
      /\ \A i \in 1..Len(r) : u[Len(q) + i] = r[i]
      /\ \A i \in 1..(Len(q) + Len(r)) :
            i \in 1..Len(q) \/ \E k \in 1..Len(r) : i = Len(q) + k
  BY OfConcat
<1> HIDE DEF u
<1>2. /\ Len(q) \in Nat /\ Len(r) \in Nat /\ DOMAIN q = 1..Len(q) /\ DOMAIN r = 1..Len(r)
      /\ DOMAIN u = 1..(Len(q) + Len(r))
  BY <1>1, OfSeq
<1> SUFFICES ASSUME NEW i \in DOMAIN u, NEW j \in DOMAIN u, i < j PROVE u[i].no < u[j].no
  BY DEF ByNumber, u
<1>3. CASE i \in 1..Len(q) /\ j \in 1..Len(q)
  BY <1>1, <1>2, <1>3 DEF ByNumber
<1>4. CASE i \in 1..Len(q) /\ \E k \in 1..Len(r) : j = Len(q) + k
  <2>1. PICK k \in 1..Len(r) : j = Len(q) + k
    BY <1>4
  <2>2. u[i] \in Range(q) /\ u[j] \in Range(r)
    BY <1>1, <1>2, <1>4, <2>1 DEF Range
  <2> QED BY <2>2
<1>5. CASE \E k \in 1..Len(r) : i = Len(q) + k
  <2>1. PICK k \in 1..Len(r) : i = Len(q) + k
    BY <1>5
  <2>2. PICK l \in 1..Len(r) : j = Len(q) + l
    <3>1. ~(j \in 1..Len(q))
      BY <1>2, <2>1
    <3> QED BY <1>1, <1>2, <3>1
  <2>3. k < l /\ u[i] = r[k] /\ u[j] = r[l]
    BY <1>1, <1>2, <2>1, <2>2
  <2> QED BY <1>2, <2>3 DEF ByNumber
<1> QED BY <1>1, <1>2, <1>3, <1>4, <1>5

(* What waits in a block was sent, and has a number that was given out.    *)
LEMMA WaitingInBlock ==
    ASSUME Typed, SentInv, Building
    PROVE  \A x \in block.out \union Range(block.fresh) :
              /\ x \in SentIn(Executions) /\ x \in Internals /\ ~External(x)
              /\ x.no \in Nat /\ x.no <= sent
<1>1. SentIn(Executions) =
         TookInternal(Executions) \union block.out \union Range(block.fresh)
  BY DEF SentInv, Accounted
<1>2. \A x \in SentIn(Executions) : x \in Internals /\ ~External(x) /\ x.no \in Nat
  BY ExecutionsType, SentType
<1>3. \A x \in SentIn(Executions) : x.no <= sent
  BY InSentIn DEF SentInv, NumbersGrow
<1> QED BY <1>1, <1>2, <1>3

LEMMA ExecutingSent ==
    ASSUME Typed, SentInv, NEW m, NEW t, NEW out, NEW fresh, Executing(m, t, out, fresh),
           TakenFrom(m, block.out, Range(block.fresh), out, Range(fresh)), ByNumber(fresh)
    PROVE  SentInv' /\ \A x \in SentIn(Executions), y \in Range(t.sends) : x.no < y.no
<1> DEFINE s == Executions
<1>1. /\ done' = done /\ s' = Append(s, t) /\ t \in Execution /\ s \in Seq(Execution)
      /\ outQueue' = outQueue /\ Building /\ Building'
  <2>1. UNCHANGED <<phase, outQueue>> /\ Building
    BY DEF Executing, chain
  <2> QED BY <2>1, ExecutingExecutions, ExecutionsType DEF Building
<1>2. /\ t.msg = m /\ sent' \in Nat /\ sent <= sent'
      /\ \A x \in Range(t.sends) : x.src = t.account /\ sent < x.no /\ x.no <= sent'
      /\ ByNumber(t.sends)
      /\ \A x, y \in Range(t.sends) : x.no < y.no => x.lt < y.lt
      /\ block'.fresh = fresh \o t.sends /\ block'.out = out
  BY DEF Executing, Executes
<1>3. sent \in Nat
  BY DEF Typed, TypeOK
<1> HIDE DEF s
<1>4. /\ NumbersGrow(Append(s, t), sent')
      /\ Range(t.sends) \intersect SentIn(s) = {}
      /\ \A x \in SentIn(s), y \in Range(t.sends) : x.no < y.no
  BY <1>1, <1>2, <1>3, NumbersAppend DEF SentInv, s
<1>5. /\ Accounted(Append(s, t), out, Range(fresh) \union Range(t.sends))
      /\ ExecutedOnce(Append(s, t))
  <2>1. Accounted(s, block.out, Range(block.fresh)) /\ ExecutedOnce(s)
    BY <1>1 DEF SentInv, s
  <2> QED BY <1>1, <1>2, <1>4, <2>1, AccountedAppend
<1>6. NumbersGrow(done, sent')
  <2>1. \A i \in DOMAIN done : \A x \in Range(done[i].sends) : x.no \in Nat
    BY ExecutionsType, SentType, InSentIn
  <2>2. \A i \in DOMAIN done : \A x \in Range(done[i].sends) : x.no <= sent'
    BY <1>2, <1>3, <2>1 DEF SentInv, NumbersGrow
  <2> QED BY <2>2 DEF SentInv, NumbersGrow
<1>7. fresh \in Seq(Internals) /\ t.sends \in Seq(Internals)
  BY <1>1 DEF Executing, Execution
<1>8. Range(block'.fresh) = Range(fresh) \union Range(t.sends)
  BY <1>2, <1>7, OfConcat
<1>9. ByNumber(block'.fresh)
  <2>1. \A x \in Range(fresh) : x \in SentIn(s)
    <3>1. Range(fresh) \subseteq Range(block.fresh)
      BY DEF TakenFrom
    <3> QED BY <1>1, <3>1, WaitingInBlock DEF s
  <2>2. Internals \subseteq Message
    BY DEF Internals
  <2> QED BY <1>2, <1>4, <1>7, <2>1, <2>2, ByNumberConcat
<1>10. SentInv'
  <2>1. NumbersGrow(done, sent)' /\ NumbersGrow(Executions, sent)'
    BY <1>1, <1>4, <1>6 DEF s
  <2>2. ExecutedOnce(done)' /\ ExecutedOnce(Executions)'
    BY <1>1, <1>5 DEF SentInv, s
  <2>3. Accounted(done, outQueue, {})'
    BY <1>1 DEF SentInv
  <2>4. Accounted(Executions, block.out, Range(block.fresh))'
    BY <1>1, <1>2, <1>5, <1>8 DEF s
  <2> QED BY <1>9, <2>1, <2>2, <2>3, <2>4 DEF SentInv
<1> QED BY <1>4, <1>10 DEF s

(* What the three steps that execute a message take it from.               *)
LEMMA ImportTakes ==
    ASSUME Typed, SentInv, Building, NEW m \in block.out
    PROVE  /\ TakenFrom(m, block.out, Range(block.fresh), block.out \ {m}, Range(block.fresh))
           /\ ByNumber(block.fresh) /\ ~External(m)
<1>1. ~External(m)
  BY WaitingInBlock
<1>2. block.out \intersect Range(block.fresh) = {}
  BY DEF SentInv, Accounted
<1> QED BY <1>1, <1>2 DEF TakenFrom, SentInv

LEMMA ImportExternalTakes ==
    ASSUME Typed, SentInv, inbox # <<>>
    PROVE  /\ TakenFrom(Head(inbox), block.out, Range(block.fresh),
                        block.out, Range(block.fresh))
           /\ ByNumber(block.fresh) /\ External(Head(inbox))
<1>1. inbox \in Seq(Externals)
  BY DEF Typed, TypeOK, Externals
<1>2. External(Head(inbox))
  BY <1>1, OfTail DEF Externals
<1> QED BY <1>2 DEF TakenFrom, SentInv

LEMMA NewTakes ==
    ASSUME Typed, SentInv, Building, block.fresh # <<>>
    PROVE  LET m == Head(block.fresh) IN
           /\ TakenFrom(m, block.out, Range(block.fresh), block.out, Range(Tail(block.fresh)))
           /\ ByNumber(Tail(block.fresh)) /\ ~External(m)
           /\ m \in Range(block.fresh) /\ m \notin Range(Tail(block.fresh))
           /\ \A x \in Range(Tail(block.fresh)) : m.no < x.no
           /\ Range(block.fresh) = {m} \union Range(Tail(block.fresh))
           /\ Tail(block.fresh) \in Seq(Internals)
<1> DEFINE m == Head(block.fresh)
<1>1. block.fresh \in Seq(Internals)
  BY DEF Typed, BlockRecord
<1>2. /\ Range(block.fresh) = {m} \union Range(Tail(block.fresh))
      /\ Tail(block.fresh) \in Seq(Internals)
  BY <1>1, OfTail
<1>3. /\ ByNumber(Tail(block.fresh))
      /\ \A x \in Range(Tail(block.fresh)) : m.no < x.no
      /\ m \notin Range(Tail(block.fresh))
  <2>1. Internals \subseteq Message /\ ByNumber(block.fresh)
    BY DEF Internals, SentInv
  <2> QED BY <1>1, <2>1, FirstByNumber
<1> HIDE DEF m
<1>4. ~External(m)
  BY <1>2, WaitingInBlock
<1>5. block.out \intersect Range(block.fresh) = {}
  BY DEF SentInv, Accounted
<1>6. TakenFrom(m, block.out, Range(block.fresh), block.out, Range(Tail(block.fresh)))
  BY <1>2, <1>3, <1>4, <1>5 DEF TakenFrom
<1> QED BY <1>2, <1>3, <1>4, <1>6 DEF m

-----------------------------------------------------------------------------
LEMMA InitSent == Init => SentInv /\ OutInv
<1> SUFFICES ASSUME Init PROVE SentInv /\ OutInv
  OBVIOUS
<1>1. Executions = done /\ done = <<>> /\ ~Building /\ block.fresh = <<>>
  BY InitTyped, IdleExecutions, NoBlockTyped DEF Init, Building
<1>2. DOMAIN <<>> = {}
  BY EmptySequence
<1>3. SentIn(<<>>) = {} /\ TookInternal(<<>>) = {}
  BY <1>2 DEF SentIn, TookInternal
<1>4. Accounted(<<>>, {}, {}) /\ NumbersGrow(<<>>, sent) /\ ExecutedOnce(<<>>) /\ ByNumber(<<>>)
  BY <1>2, <1>3 DEF Accounted, NumbersGrow, ExecutedOnce, ByNumber
<1>5. SentInv
  BY <1>1, <1>4 DEF SentInv, Init
<1> QED BY <1>5 DEF OutInv, Init

(* Neither the messages of the chain nor those of the block change.        *)
LEMMA StillSent ==
    ASSUME SentInv, Quiet, block'.out = block.out, block'.fresh = block.fresh
    PROVE  SentInv'
<1>1. /\ done' = done /\ Executions' = Executions /\ outQueue' = outQueue /\ sent' = sent
      /\ Building' <=> Building
  BY QuietExecutions DEF Quiet, chain
<1> QED BY <1>1 DEF SentInv

LEMMA LeaveNewSent ==
    ASSUME Typed, SentInv, LeaveNew
    PROVE  SentInv'
<1> DEFINE m == Head(block.fresh)
<1>1. /\ Quiet /\ block.fresh # <<>> /\ Building
      /\ block'.out = block.out \union {m} /\ block'.fresh = Tail(block.fresh)
  BY LeaveNewFacts DEF Building
<1>2. /\ done' = done /\ Executions' = Executions /\ outQueue' = outQueue /\ sent' = sent
  BY <1>1, QuietExecutions DEF Quiet, chain
<1>3. /\ Range(block.fresh) = {m} \union Range(Tail(block.fresh))
      /\ m \notin Range(Tail(block.fresh)) /\ ByNumber(Tail(block.fresh))
  BY <1>1, NewTakes
<1> HIDE DEF m
<1>4. Accounted(Executions, block.out \union {m}, Range(Tail(block.fresh)))
  <2>1. Accounted(Executions, block.out, Range(block.fresh))
    BY <1>1 DEF SentInv
  <2> QED BY <1>3, <2>1 DEF Accounted
<1>5. Accounted(Executions, block.out, Range(block.fresh))'
  BY <1>1, <1>2, <1>4
<1> QED BY <1>1, <1>2, <1>3, <1>5 DEF SentInv

LEMMA DroppedSent == ASSUME Typed, SentInv, Dropped PROVE SentInv'
<1>1. /\ done' = done /\ Executions' = done /\ outQueue' = outQueue /\ sent' = sent
      /\ ~Building' /\ block'.fresh = <<>>
  BY DroppedExecutions, NoBlockTyped DEF Dropped, chain
<1>2. DOMAIN <<>> = {}
  BY EmptySequence
<1>3. ByNumber(<<>>)
  BY <1>2 DEF ByNumber
<1> QED BY <1>1, <1>3 DEF SentInv

LEMMA StartSent == ASSUME Typed, SentInv, StartBlock PROVE SentInv'
<1>1. /\ done' = done /\ Executions' = done /\ outQueue' = outQueue /\ sent' = sent
      /\ block'.fresh = <<>> /\ block'.out = outQueue
  BY StartExecutions, StartFacts DEF chain, counts
<1>2. DOMAIN <<>> = {} /\ Range(<<>>) = {}
  BY EmptySequence
<1>3. ByNumber(<<>>)
  BY <1>2 DEF ByNumber
<1>4. Accounted(Executions, block.out, Range(block.fresh))'
  BY <1>1, <1>2 DEF SentInv
<1> QED BY <1>1, <1>3, <1>4 DEF SentInv

LEMMA FinalizeSent == ASSUME Typed, SentInv, FinalizeBlock PROVE SentInv'
<1>1. /\ done' = Executions /\ Executions' = Executions /\ sent' = sent
      /\ block.fresh = <<>> /\ outQueue' = block.out /\ Building /\ ~Building'
      /\ block'.fresh = <<>>
  BY FinalizeExecutions, FinalizeFacts, NoBlockTyped DEF counts
<1>2. DOMAIN <<>> = {} /\ Range(<<>>) = {}
  BY EmptySequence
<1>3. ByNumber(<<>>)
  BY <1>2 DEF ByNumber
<1>4. Accounted(done, outQueue, {})'
  BY <1>1, <1>2 DEF SentInv
<1> QED BY <1>1, <1>3, <1>4 DEF SentInv

LEMMA SentStep == Typed /\ SentInv /\ [Next]_vars => SentInv'
<1> SUFFICES ASSUME Typed, SentInv, [Next]_vars PROVE SentInv'
  OBVIOUS
<1>1. CASE Post
  BY <1>1, PostFacts, StillSent
<1>2. CASE Import
  <2>1. PICK m, t : /\ m \in block.out
                    /\ Executing(m, t, block.out \ {m}, block.fresh)
    BY <1>2, ImportFacts
  <2>2. Building
    BY <2>1 DEF Executing
  <2> QED BY <2>1, <2>2, ImportTakes, ExecutingSent
<1>3. CASE ImportExternal
  <2>1. PICK t : Executing(Head(inbox), t, block.out, block.fresh)
    BY <1>3, ImportExternalFacts
  <2>2. inbox # <<>>
    BY <1>3, ImportExternalFacts
  <2> QED BY <2>1, <2>2, ImportExternalTakes, ExecutingSent
<1>4. CASE ExecuteNew
  <2>1. PICK t : Executing(Head(block.fresh), t, block.out, Tail(block.fresh))
    BY <1>4, ExecuteNewFacts
  <2>2. block.fresh # <<>> /\ Building
    BY <1>4, ExecuteNewFacts DEF Building
  <2> QED BY <2>1, <2>2, NewTakes, ExecutingSent
<1>5. CASE ExternalFails
  BY <1>5, ExternalFailsFacts, StillSent
<1>6. CASE LeaveNew
  BY <1>6, LeaveNewSent
<1>7. CASE ImportDone \/ ExternalDone \/ UNCHANGED vars
  BY <1>7, StillFacts, StillSent
<1>8. CASE ImportFails \/ NewFails
  BY <1>8, DiscardFacts, DroppedSent
<1>9. CASE DropEmpty
  BY <1>9, DropEmptyFacts, DroppedSent
<1>10. CASE StartBlock
  BY <1>10, StartSent
<1>11. CASE FinalizeBlock
  BY <1>11, FinalizeSent
<1> QED
  BY <1>1, <1>2, <1>3, <1>4, <1>5, <1>6, <1>7, <1>8, <1>9, <1>10, <1>11 DEF Next

(* Every internal message is executed once or waits in the out queue, and  *)
(* nothing is executed that was not sent.                                  *)
THEOREM ExecutedExactlyOnce == Spec => []SentOnceExecutedOnce
<1>1. Spec => [](Typed /\ SentInv)
  BY InitTyped, InitSent, TypedStep, SentStep, PTL DEF Spec
<1>2. Typed /\ SentInv => SentOnceExecutedOnce
  <2> SUFFICES ASSUME Typed, SentInv PROVE SentOnceExecutedOnce
    OBVIOUS
  <2> DEFINE internal == {i \in DOMAIN done : ~External(done[i].msg)}
             executed == {done[i].msg : i \in internal}
  <2>1. executed = TookInternal(done)
    BY DEF TookInternal
  <2>2. SentMessages = SentIn(done)
    <3>1. \A t : t \in Range(done) <=> \E i \in DOMAIN done : t = done[i]
      BY ExecutionsType, OfSeq
    <3> QED BY <3>1 DEF SentMessages, Transaction, SentIn
  <2>3. \A i, j \in internal : i # j => done[i].msg # done[j].msg
    BY DEF SentInv, ExecutedOnce
  <2>4. executed \intersect outQueue = {} /\ executed \union outQueue = SentMessages
    BY <2>1, <2>2 DEF SentInv, Accounted
  <2> QED BY <2>3, <2>4 DEF SentOnceExecutedOnce
<1> QED BY <1>1, <1>2, PTL

-----------------------------------------------------------------------------
(* The order of delivery.                                                  *)

LEMMA OutStep == Typed /\ SentInv /\ OutInv /\ [Next]_vars => OutInv'
<1> SUFFICES ASSUME Typed, SentInv, OutInv, [Next]_vars PROVE OutInv'
  OBVIOUS
<1>1. CASE Post
  BY <1>1, PostFacts DEF OutInv
<1>2. CASE Import
  <2>1. PICK m, t : Executing(m, t, block.out \ {m}, block.fresh)
    BY <1>2, ImportFacts
  <2>2. phase = "import" /\ phase' = "import" /\ Building
    BY <1>2, <2>1, ImportFacts DEF Executing, Building
  <2>3. /\ block'.out = block.out \ {m} /\ block'.fresh = block.fresh \o t.sends
        /\ \A x \in Range(t.sends) : sent < x.no
        /\ t.sends \in Seq(Internals) /\ block.fresh \in Seq(Internals)
    BY <2>1 DEF Executing, Executes, Execution
  <2>4. Range(block'.fresh) = Range(block.fresh) \union Range(t.sends)
    BY <2>3, OfConcat
  <2>5. \A x \in Range(t.sends) : x.no \in Nat
    BY <2>3, OfSeq DEF Internals, Message
  <2>6. \A x \in block.out, y \in Range(t.sends) : x.no < y.no
    <3>1. \A x \in block.out : x.no \in Nat /\ x.no <= sent
      BY <2>2, WaitingInBlock
    <3> QED BY <2>3, <2>5, <3>1 DEF Typed, TypeOK
  <2> QED BY <2>2, <2>3, <2>4, <2>6 DEF OutInv
<1>3. CASE ImportExternal
  <2>1. PICK t : Executing(Head(inbox), t, block.out, block.fresh)
    BY <1>3, ImportExternalFacts
  <2>2. phase = "external" /\ phase' = "external" /\ block'.out = block.out
    BY <1>3, <2>1, ImportExternalFacts DEF Executing, Executes
  <2> QED BY <2>2 DEF OutInv
<1>4. CASE ExecuteNew
  <2>1. PICK t : Executing(Head(block.fresh), t, block.out, Tail(block.fresh))
    BY <1>4, ExecuteNewFacts
  <2>2. phase = "new" /\ phase' = "new" /\ block'.out = block.out /\ ~block.full
    BY <1>4, <2>1, ExecuteNewFacts DEF Executing, Executes
  <2> QED BY <2>2 DEF OutInv
<1>5. CASE ExternalFails
  BY <1>5, ExternalFailsFacts DEF OutInv
<1>6. CASE LeaveNew
  BY <1>6, LeaveNewFacts DEF OutInv
<1>7. CASE ImportDone
  BY <1>7 DEF ImportDone, OutInv
<1>8. CASE ExternalDone
  BY <1>8 DEF ExternalDone, OutInv
<1>9. CASE ImportFails \/ NewFails \/ DropEmpty \/ FinalizeBlock
  <2>1. phase' = "idle"
    BY <1>9, DiscardFacts, DropEmptyFacts, FinalizeFacts
  <2> QED BY <2>1 DEF OutInv
<1>10. CASE StartBlock
  <2>1. phase' = "import" /\ Range(block'.fresh) = {}
    BY <1>10, StartFacts, EmptySequence
  <2> QED BY <2>1 DEF OutInv
<1>11. CASE UNCHANGED vars
  BY <1>11 DEF vars, OutInv
<1> QED
  BY <1>1, <1>2, <1>3, <1>4, <1>5, <1>6, <1>7, <1>8, <1>9, <1>10, <1>11 DEF Next

(* What an account sends grows in logical time with its number, but for    *)
(* an account that began anew.                                             *)
LEMMA SentInLtOrder ==
    ASSUME NEW s \in Seq(Execution), NEW k, TimesOK(s), NumbersGrow(s, k),
           NEW m \in SentIn(s), NEW n \in SentIn(s), m.src = n.src, m.no < n.no
    PROVE  m.lt < n.lt \/ BeganAnew(s, m, n)
<1>1. PICK i \in DOMAIN s : m \in Range(s[i].sends)
  BY InSentIn
<1>2. PICK j \in DOMAIN s : n \in Range(s[j].sends)
  BY InSentIn
<1>3. /\ m.no \in Nat /\ n.no \in Nat /\ m.lt \in Nat /\ n.lt \in Nat
      /\ s[i].lt \in Nat /\ s[j].lt \in Nat /\ s[i].height \in Nat /\ s[j].height \in Nat
      /\ DOMAIN s = 1..Len(s) /\ Len(s) \in Nat
  BY SentType, OfSeq
<1>4. m.src = s[i].account /\ n.src = s[j].account /\ s[j].lt < n.lt
  BY <1>1, <1>2 DEF NumbersGrow, TimesOK, AfterMessage
<1>5. CASE i = j
  BY <1>1, <1>2, <1>5 DEF NumbersGrow
<1>6. CASE j < i
  <2>1. n.no < m.no
    BY <1>1, <1>2, <1>6 DEF NumbersGrow
  <2> QED BY <1>3, <2>1
<1>7. CASE i < j
  <2>1. CASE Later(s, i, j)
    <3>1. m.lt < s[j].lt
      BY <1>1, <2>1 DEF Later
    <3> QED BY <1>3, <1>4, <3>1
  <2>2. CASE s[i].height < s[j].height
    <3>1. Later(s, i, j)
      BY <2>2 DEF TimesOK, Disjoint
    <3> QED BY <2>1, <3>1
  <2>3. CASE s[i].height = s[j].height /\ RemovedFrom(s, i, j, s[i].account, s[j].height)
    <3>1. PICK r \in i..(j - 1) : /\ s[r].account = s[i].account /\ s[r].removed
                                  /\ s[r].height = s[j].height
      BY <2>3 DEF RemovedFrom
    <3>2. r \in DOMAIN s
      BY <1>3, <3>1
    <3> QED BY <1>1, <1>2, <1>4, <2>3, <3>1, <3>2 DEF BeganAnew
  <2>4. Later(s, i, j) \/ RemovedFrom(s, i, j, s[i].account, s[j].height)
    BY <1>4, <1>7 DEF TimesOK, AccountsFollow
  <2>5. s[i].height < s[j].height \/ s[i].height = s[j].height
    <3>1. s[i].height <= s[j].height
      BY <1>7 DEF TimesOK, HeightsFollow
    <3> QED BY <1>3, <3>1
  <2> QED BY <2>1, <2>2, <2>3, <2>4, <2>5
<1> QED BY <1>3, <1>5, <1>6, <1>7

LEMMA BeganAnewStays ==
    ASSUME NEW s \in Seq(Execution), NEW t \in Execution, NEW m, NEW n, BeganAnew(s, m, n)
    PROVE  BeganAnew(Append(s, t), m, n)
<1> DEFINE u == Append(s, t)
<1>1. DOMAIN s \subseteq DOMAIN u /\ \A i \in DOMAIN s : u[i] = s[i]
  BY OfAppend
<1> HIDE DEF u
<1>2. BeganAnew(u, m, n)
  BY <1>1 DEF BeganAnew
<1> QED BY <1>2 DEF u

(* The order is kept by one more execution, if all that must come before   *)
(* its message was executed.                                               *)
LEMMA DeliveredAppend ==
    ASSUME NEW s \in Seq(Execution), NEW t \in Execution, NEW k, Delivered(s),
           NumbersGrow(s, k), TookInternal(s) \subseteq SentIn(s),
           \A x \in SentIn(s), y \in Range(t.sends) : x.no < y.no,
           ~External(t.msg) => t.msg \in SentIn(s),
           \A x \in SentIn(s) :
              (/\ ~External(t.msg) /\ x.src = t.msg.src /\ x.dst = t.msg.dst
               /\ x.no < t.msg.no /\ ~BeganAnew(s, x, t.msg))
              => x \in TookInternal(s)
    PROVE  Delivered(Append(s, t))
<1> DEFINE u == Append(s, t)
           l == Len(s) + 1
<1>1. /\ Len(s) \in Nat /\ DOMAIN s = 1..Len(s)
      /\ DOMAIN u = DOMAIN s \union {l}
      /\ \A i \in DOMAIN s : u[i] = s[i]
      /\ u[l] = t /\ u \in Seq(Execution)
  BY OfAppend
<1>2. SentIn(u) = SentIn(s) \union Range(t.sends)
  BY SentAppend
<1>3. \A x \in SentIn(u) : x.no \in Nat /\ ~External(x)
  BY <1>1, SentType
<1>4. \A i \in DOMAIN s : i \in 1..(l - 1) /\ 1..(i - 1) \subseteq DOMAIN s
  BY <1>1
<1>5. \A m, n : BeganAnew(s, m, n) => BeganAnew(u, m, n)
  BY BeganAnewStays
<1> HIDE DEF u, l
<1> SUFFICES ASSUME NEW m \in SentIn(u), NEW n \in SentIn(u),
                    m.src = n.src, m.dst = n.dst, m.no < n.no, ~BeganAnew(u, m, n),
                    NEW j \in DOMAIN u, u[j].msg = n
             PROVE  \E i \in 1..(j - 1) : u[i].msg = m
  BY DEF Delivered, u
<1>6. n \in SentIn(s)
  <2>1. CASE j \in DOMAIN s
    <3>1. n \in TookInternal(s)
      BY <1>1, <1>3, <2>1, InTook
    <3> QED BY <3>1
  <2>2. CASE j = l
    BY <1>1, <1>3, <2>2
  <2> QED BY <1>1, <2>1, <2>2
<1>7. m \in SentIn(s)
  <2>1. CASE m \in Range(t.sends)
    <3>1. n.no < m.no
      BY <1>6, <2>1
    <3> QED BY <1>3, <3>1
  <2> QED BY <1>2, <2>1
<1>8. ~BeganAnew(s, m, n)
  BY <1>5
<1>9. CASE j \in DOMAIN s
  <2>1. PICK i \in 1..(j - 1) : s[i].msg = m
    BY <1>1, <1>6, <1>7, <1>8, <1>9 DEF Delivered
  <2> QED BY <1>1, <1>4, <1>9, <2>1
<1>10. CASE j = l
  <2>1. n = t.msg /\ ~External(t.msg)
    BY <1>1, <1>3, <1>10
  <2>2. m \in TookInternal(s)
    BY <1>7, <1>8, <2>1
  <2>3. PICK i \in DOMAIN s : s[i].msg = m
    BY <2>2, InTook
  <2> QED BY <1>1, <1>4, <1>10, <2>3
<1> QED BY <1>1, <1>9, <1>10

LEMMA ExecutingDelivered ==
    ASSUME Typed, LtInv, SentInv, DeliveryInv,
           NEW m, NEW t, NEW out, NEW fresh, Executing(m, t, out, fresh),
           TakenFrom(m, block.out, Range(block.fresh), out, Range(fresh)), ByNumber(fresh),
           \A x \in block.out \union Range(block.fresh) :
              (/\ ~External(m) /\ x.src = m.src /\ x.dst = m.dst
               /\ x.no < m.no)
              => BeganAnew(Executions, x, m)
    PROVE  DeliveryInv'
<1> DEFINE s == Executions
<1>1. /\ done' = done /\ s' = Append(s, t) /\ t \in Execution /\ s \in Seq(Execution)
      /\ Building /\ t.msg = m
  BY ExecutingExecutions, ExecutionsType DEF Executing, Executes
<1>2. \A x \in SentIn(s), y \in Range(t.sends) : x.no < y.no
  BY ExecutingSent
<1>3. Accounted(s, block.out, Range(block.fresh)) /\ NumbersGrow(s, sent)
  BY <1>1 DEF SentInv
<1> HIDE DEF s
<1>4. ~External(m) => m \in SentIn(s)
  BY <1>3 DEF TakenFrom, Accounted
<1>5. TookInternal(s) \subseteq SentIn(s)
  BY <1>3 DEF Accounted
<1>6. \A x \in SentIn(s) :
         (/\ ~External(m) /\ x.src = m.src /\ x.dst = m.dst
          /\ x.no < m.no /\ ~BeganAnew(s, x, m))
         => x \in TookInternal(s)
  <2>1. \A x \in SentIn(s) : x \in TookInternal(s) \/ x \in block.out \union Range(block.fresh)
    BY <1>3 DEF Accounted
  <2> QED BY <2>1 DEF s
<1>7. Delivered(s)
  BY DEF DeliveryInv, s
<1>8. Delivered(Append(s, t))
  BY <1>1, <1>2, <1>3, <1>4, <1>5, <1>6, <1>7, DeliveredAppend
<1> QED BY <1>1, <1>8 DEF DeliveryInv, s

LEMMA DeliveryStep ==
    Typed /\ LtInv /\ SentInv /\ OutInv /\ DeliveryInv /\ [Next]_vars => DeliveryInv'
<1> SUFFICES ASSUME Typed, LtInv, SentInv, OutInv, DeliveryInv, [Next]_vars
             PROVE  DeliveryInv'
  OBVIOUS
<1>0. TimesOK(Executions) /\ NumbersGrow(Executions, sent)
  BY DEF LtInv, SentInv
<1>1. CASE Import
  <2>1. PICK m, t : /\ m \in block.out /\ \A x \in block.out : m.lt <= x.lt
                    /\ Executing(m, t, block.out \ {m}, block.fresh)
    BY <1>1, ImportFacts
  <2>2. phase = "import" /\ Building
    BY <1>1, ImportFacts DEF Building
  <2>3. \A x \in block.out \union Range(block.fresh) :
           (/\ ~External(m) /\ x.src = m.src /\ x.dst = m.dst /\ x.no < m.no)
           => BeganAnew(Executions, x, m)
    <3> SUFFICES ASSUME NEW x \in block.out \union Range(block.fresh),
                        x.src = m.src, x.no < m.no
                 PROVE  BeganAnew(Executions, x, m)
      OBVIOUS
    <3>1. x \in SentIn(Executions) /\ m \in SentIn(Executions)
      BY <2>1, <2>2, WaitingInBlock
    <3>2. x.no \in Nat /\ m.no \in Nat /\ x.lt \in Nat /\ m.lt \in Nat
      BY <3>1, ExecutionsType, SentType
    <3>3. x \in block.out
      <4>1. CASE x \in Range(block.fresh)
        <5>1. m.no < x.no
          BY <2>1, <2>2, <4>1 DEF OutInv
        <5> QED BY <3>2, <5>1
      <4> QED BY <4>1
    <3>4. ~(x.lt < m.lt)
      BY <2>1, <3>2, <3>3
    <3> QED BY <1>0, <3>1, <3>4, ExecutionsType, SentInLtOrder
  <2>4. /\ TakenFrom(m, block.out, Range(block.fresh), block.out \ {m}, Range(block.fresh))
        /\ ByNumber(block.fresh)
    BY <2>1, <2>2, ImportTakes
  <2> QED BY <2>1, <2>3, <2>4, ExecutingDelivered
<1>2. CASE ImportExternal
  <2>1. PICK t : Executing(Head(inbox), t, block.out, block.fresh)
    BY <1>2, ImportExternalFacts
  <2>2. /\ TakenFrom(Head(inbox), block.out, Range(block.fresh), block.out, Range(block.fresh))
        /\ ByNumber(block.fresh) /\ External(Head(inbox))
    BY <1>2, ImportExternalFacts, ImportExternalTakes
  <2> QED BY <2>1, <2>2, ExecutingDelivered
<1>3. CASE ExecuteNew
  <2> DEFINE m == Head(block.fresh)
  <2>1. PICK t : Executing(m, t, block.out, Tail(block.fresh))
    BY <1>3, ExecuteNewFacts
  <2>2. phase = "new" /\ Building /\ block.fresh # <<>> /\ m.dst \notin Foreign /\ ~block.full
    BY <1>3, <2>1, ExecuteNewFacts DEF Building, Executing
  <2>3. /\ TakenFrom(m, block.out, Range(block.fresh), block.out, Range(Tail(block.fresh)))
        /\ ByNumber(Tail(block.fresh))
        /\ m \in Range(block.fresh)
        /\ \A x \in Range(Tail(block.fresh)) : m.no < x.no
        /\ Range(block.fresh) = {m} \union Range(Tail(block.fresh))
    BY <2>2, NewTakes
  <2> HIDE DEF m
  <2>4. \A x \in block.out \union Range(block.fresh) :
           ~(x.dst = m.dst /\ x.no < m.no)
    <3> SUFFICES ASSUME NEW x \in block.out \union Range(block.fresh),
                        x.dst = m.dst, x.no < m.no
                 PROVE  FALSE
      OBVIOUS
    <3>1. x.no \in Nat /\ m.no \in Nat
      BY <2>2, <2>3, WaitingInBlock
    <3>2. x \notin block.out
      BY <2>2 DEF OutInv
    <3>3. m.no < x.no \/ x = m
      BY <2>3, <3>2
    <3> QED BY <3>1, <3>3
  <2>5. \A x \in block.out \union Range(block.fresh) :
           (/\ ~External(m) /\ x.src = m.src /\ x.dst = m.dst /\ x.no < m.no)
           => BeganAnew(Executions, x, m)
    BY <2>4
  <2> QED BY <2>1, <2>3, <2>5, ExecutingDelivered
<1>4. CASE Quiet
  BY <1>4, QuietExecutions DEF DeliveryInv
<1>5. CASE Dropped
  BY <1>5, DroppedExecutions DEF DeliveryInv
<1>6. CASE StartBlock
  BY <1>6, StartExecutions DEF DeliveryInv
<1>7. CASE FinalizeBlock
  BY <1>7, FinalizeExecutions DEF DeliveryInv
<1>8. \/ Quiet \/ Dropped \/ StartBlock \/ FinalizeBlock
      \/ Import \/ ImportExternal \/ ExecuteNew
  BY PostFacts, ExternalFailsFacts, LeaveNewFacts, StillFacts, DiscardFacts, DropEmptyFacts
     DEF Next
<1> QED BY <1>1, <1>2, <1>3, <1>4, <1>5, <1>6, <1>7, <1>8

LEMMA InitDelivery == Init => DeliveryInv
<1> SUFFICES ASSUME Init PROVE DeliveryInv
  OBVIOUS
<1>1. Executions = done /\ done = <<>>
  BY InitTyped, IdleExecutions DEF Init, Building
<1>2. DOMAIN <<>> = {}
  BY EmptySequence
<1>3. Delivered(<<>>)
  BY <1>2 DEF Delivered
<1> QED BY <1>1, <1>3 DEF DeliveryInv

(* Messages from one account to one address are executed in the order they *)
(* were sent, in whichever phase and block they are, unless the account    *)
(* was removed in the block that sent them.                                *)
THEOREM DeliveredInOrder == Spec => []DeliveryOrder
<1>1. Spec => [](Typed /\ LtInv /\ SentInv /\ OutInv /\ DeliveryInv)
  BY InitTyped, InitLt, InitSent, InitDelivery, TypedStep, LtStep, SentStep, OutStep,
     DeliveryStep, PTL DEF Spec
<1>2. Typed /\ LtInv /\ DeliveryInv => DeliveryOrder
  <2> SUFFICES ASSUME Typed, LtInv, DeliveryInv PROVE DeliveryOrder
    OBVIOUS
  <2>0. \A t : t \in Transaction <=> \E i \in DOMAIN done : t = done[i]
    BY ExecutionsType, OfSeq DEF Transaction
  <2>1. SentMessages = SentIn(done)
    BY <2>0 DEF SentMessages, SentIn
  <2>2. \A m, n : BeganAnew(done, m, n) => SenderBeganAnew(m, n)
    <3> SUFFICES ASSUME NEW m, NEW n, BeganAnew(done, m, n) PROVE SenderBeganAnew(m, n)
      OBVIOUS
    <3>1. PICK i \in DOMAIN done, j \in DOMAIN done, k \in DOMAIN done :
             /\ m \in Range(done[i].sends) /\ n \in Range(done[j].sends)
             /\ done[k].account = m.src /\ done[k].removed
             /\ done[i].height = done[k].height /\ done[j].height = done[k].height
      BY DEF BeganAnew
    <3>2. done[i] \in Transaction /\ done[j] \in Transaction /\ done[k] \in Transaction
      BY <2>0
    <3>3. {done[i].height, done[j].height} = {done[k].height}
      BY <3>1
    <3> QED BY <3>1, <3>2, <3>3 DEF SenderBeganAnew
  <2>3. Delivered(done)
    BY DEF DeliveryInv
  <2> QED BY <2>1, <2>2, <2>3 DEF DeliveryOrder, Delivered
<1> QED BY <1>1, <1>2, PTL

-----------------------------------------------------------------------------
(* External messages.                                                      *)

LEMMA InTaken ==
    ASSUME NEW s, NEW x
    PROVE  x \in TakenNumbers(s) <=> \E t \in Range(s) : External(t.msg) /\ x = t.msg.no
BY DEF TakenNumbers

LEMMA InWaiting ==
    ASSUME NEW x
    PROVE  x \in WaitingNumbers <=> \E m \in Range(inbox) : x = m.no
BY DEF WaitingNumbers

LEMMA InFailed ==
    ASSUME NEW x
    PROVE  x \in FailedNumbers <=> \E m \in rejected : x = m.no
BY DEF FailedNumbers

LEMMA TakenUnion ==
    ASSUME NEW s, NEW t, NEW u, Range(u) = Range(s) \union Range(t)
    PROVE  TakenNumbers(u) = TakenNumbers(s) \union TakenNumbers(t)
<1>1. ASSUME NEW x
      PROVE  x \in TakenNumbers(u) <=> x \in TakenNumbers(s) \/ x \in TakenNumbers(t)
  BY InTaken
<1> QED BY <1>1

LEMMA TakenAppend ==
    ASSUME NEW s \in Seq(Execution), NEW t \in Execution
    PROVE  /\ External(t.msg) =>
                 TakenNumbers(Append(s, t)) = TakenNumbers(s) \union {t.msg.no}
           /\ ~External(t.msg) => TakenNumbers(Append(s, t)) = TakenNumbers(s)
<1>1. Range(Append(s, t)) = Range(s) \union {t}
  BY OfAppend
<1>2. ASSUME NEW x
      PROVE  x \in TakenNumbers(Append(s, t)) <=>
                x \in TakenNumbers(s) \/ (External(t.msg) /\ x = t.msg.no)
  BY <1>1, InTaken
<1> QED BY <1>2

LEMMA TakenNothing == TakenNumbers(<<>>) = {}
<1>1. Range(<<>>) = {}
  BY EmptySequence
<1> QED BY <1>1, InTaken

(* The conjuncts of the invariant about the sets of numbers.               *)
Apart(taken, waiting, failed, n) ==
    /\ taken \union waiting \union failed = 1..n
    /\ taken \intersect waiting = {} /\ taken \intersect failed = {}
    /\ waiting \intersect failed = {}

LEMMA ExternalInvParts ==
    ExternalInv <=> /\ Apart(TakenNumbers(Executions), WaitingNumbers, FailedNumbers, posted)
                    /\ TakenNumbers(done) \intersect TakenNumbers(block.executed) = {}
                    /\ ByNumber(inbox)
                    /\ block.empty => block.executed = <<>>
BY DEF ExternalInv, Apart

(* The first message of the queue is taken from it.                        *)
LEMMA WaitingTail ==
    ASSUME Typed, ExternalInv, inbox # <<>>, inbox' = Tail(inbox)
    PROVE  /\ WaitingNumbers' = WaitingNumbers \ {Head(inbox).no}
           /\ Head(inbox).no \in WaitingNumbers
           /\ ByNumber(inbox')
<1>1. inbox \in Seq(Externals) /\ Externals \subseteq Message
  BY DEF Typed, TypeOK, Externals
<1>2. Range(inbox) = {Head(inbox)} \union Range(Tail(inbox)) /\ Head(inbox) \in Externals
      /\ Tail(inbox) \in Seq(Externals)
  BY <1>1, OfTail
<1>3. /\ ByNumber(Tail(inbox))
      /\ \A x \in Range(Tail(inbox)) : Head(inbox).no < x.no
  BY <1>1, FirstByNumber DEF ExternalInv
<1>4. Head(inbox).no \in Nat /\ \A x \in Range(Tail(inbox)) : x.no \in Nat
  BY <1>1, <1>2, OfSeq DEF Message
<1>5. \A x \in Range(Tail(inbox)) : x.no # Head(inbox).no
  BY <1>3, <1>4
<1>6. WaitingNumbers' = {m.no : m \in Range(Tail(inbox))}
  BY DEF WaitingNumbers
<1>7. WaitingNumbers = {Head(inbox).no} \union {m.no : m \in Range(Tail(inbox))}
  BY <1>2 DEF WaitingNumbers
<1>8. Head(inbox).no \notin {m.no : m \in Range(Tail(inbox))}
  BY <1>5
<1> QED BY <1>3, <1>6, <1>7, <1>8

LEMMA InitExternal == Init => ExternalInv
<1> SUFFICES ASSUME Init PROVE ExternalInv
  OBVIOUS
<1>1. Executions = <<>> /\ done = <<>> /\ block.executed = <<>>
  BY InitTyped, IdleExecutions, NoBlockTyped DEF Init, Building
<1>2. Range(<<>>) = {} /\ DOMAIN <<>> = {}
  BY EmptySequence
<1>3. WaitingNumbers = {} /\ FailedNumbers = {}
  BY <1>2, InWaiting, InFailed DEF Init
<1>4. 1..posted = {} /\ inbox = <<>>
  BY DEF Init
<1>5. ByNumber(<<>>)
  BY <1>2 DEF ByNumber
<1> QED BY <1>1, <1>3, <1>4, <1>5, TakenNothing DEF ExternalInv

(* The number of an external message that is executed goes from those that *)
(* wait to those that were taken; an internal message changes nothing.     *)
LEMMA ExecutingExternal ==
    ASSUME Typed, ExternalInv, NEW m, NEW t, NEW out, NEW fresh,
           Executing(m, t, out, fresh),
           \/ ~External(m) /\ inbox' = inbox
           \/ External(m) /\ inbox # <<>> /\ m = Head(inbox) /\ inbox' = Tail(inbox)
    PROVE  ExternalInv'
<1>1. /\ done' = done /\ Executions' = Append(Executions, t) /\ t \in Execution
      /\ block'.executed = Append(block.executed, t)
      /\ t.msg = m /\ block'.empty = FALSE
      /\ posted' = posted /\ rejected' = rejected
  BY ExecutingExecutions DEF Executing, Executes
<1>2. FailedNumbers' = FailedNumbers
  BY <1>1 DEF FailedNumbers
<1>3. TakenNumbers(Executions) = TakenNumbers(done) \union TakenNumbers(block.executed)
  BY ExecutionsType, TakenUnion
<1>4. /\ Executions \in Seq(Execution) /\ block.executed \in Seq(Execution)
  BY ExecutionsType
<1>5. CASE ~External(m) /\ inbox' = inbox
  <2>1. WaitingNumbers' = WaitingNumbers
    BY <1>5 DEF WaitingNumbers
  <2>2. TakenNumbers(Executions)' = TakenNumbers(Executions)
    BY <1>1, <1>4, <1>5, TakenAppend
  <2>3. TakenNumbers(block.executed)' = TakenNumbers(block.executed)
    BY <1>1, <1>4, <1>5, TakenAppend
  <2>4. TakenNumbers(done)' = TakenNumbers(done)
    BY <1>1
  <2> QED BY <1>1, <1>2, <1>5, <2>1, <2>2, <2>3, <2>4 DEF ExternalInv
<1>6. CASE External(m) /\ inbox # <<>> /\ m = Head(inbox) /\ inbox' = Tail(inbox)
  <2>1. /\ WaitingNumbers' = WaitingNumbers \ {m.no}
        /\ m.no \in WaitingNumbers /\ ByNumber(inbox')
    BY <1>6, WaitingTail
  <2>2. TakenNumbers(Executions)' = TakenNumbers(Executions) \union {m.no}
    BY <1>1, <1>4, <1>6, TakenAppend
  <2>3. TakenNumbers(block.executed)' = TakenNumbers(block.executed) \union {m.no}
    BY <1>1, <1>4, <1>6, TakenAppend
  <2>4. TakenNumbers(done)' = TakenNumbers(done)
    BY <1>1
  <2>5. Apart(TakenNumbers(Executions), WaitingNumbers, FailedNumbers, posted)
    BY ExternalInvParts
  <2>6. Apart(TakenNumbers(Executions)', WaitingNumbers', FailedNumbers', posted')
    BY <1>1, <1>2, <2>1, <2>2, <2>5 DEF Apart
  <2>7. TakenNumbers(done)' \intersect TakenNumbers(block.executed)' = {}
    <3>1. m.no \notin TakenNumbers(done)
      BY <1>3, <2>1, <2>5 DEF Apart
    <3> QED BY <2>3, <2>4, <3>1 DEF ExternalInv
  <2> QED BY <1>1, <2>1, <2>6, <2>7 DEF ExternalInv, Apart
<1> QED BY <1>5, <1>6

(* Steps that leave the queue, the failed messages and the executions.     *)
LEMMA StillExternal ==
    ASSUME ExternalInv, Quiet, inbox' = inbox, rejected' = rejected, posted' = posted,
           block'.empty => block.empty
    PROVE  ExternalInv'
<1>1. done' = done /\ Executions' = Executions /\ block'.executed = block.executed
  BY QuietExecutions DEF Quiet
<1>2. WaitingNumbers' = WaitingNumbers /\ FailedNumbers' = FailedNumbers
  BY DEF WaitingNumbers, FailedNumbers
<1> QED BY <1>1, <1>2 DEF ExternalInv

LEMMA PostExternal == ASSUME Typed, ExternalInv, Post PROVE ExternalInv'
<1>1. PICK m \in Externals : m.no = posted' /\ inbox' = Append(inbox, m)
  BY PostFacts
<1>2. /\ Quiet /\ UNCHANGED <<block, rejected>> /\ posted' = posted + 1
  BY PostFacts
<1>3. done' = done /\ Executions' = Executions
  BY <1>2, QuietExecutions
<1>4. posted \in Nat /\ inbox \in Seq(Externals)
  BY DEF Typed, TypeOK, Externals
<1>5. /\ Range(inbox') = Range(inbox) \union {m}
      /\ DOMAIN inbox' = DOMAIN inbox \union {Len(inbox) + 1}
      /\ \A i \in DOMAIN inbox : inbox'[i] = inbox[i]
      /\ inbox'[Len(inbox) + 1] = m
      /\ Len(inbox) \in Nat /\ DOMAIN inbox = 1..Len(inbox)
  BY <1>1, <1>4, OfAppend
<1>6. WaitingNumbers' = WaitingNumbers \union {posted'}
  BY <1>1, <1>5 DEF WaitingNumbers
<1>7. FailedNumbers' = FailedNumbers
  BY <1>2 DEF FailedNumbers
<1>8. Apart(TakenNumbers(Executions), WaitingNumbers, FailedNumbers, posted)
  BY ExternalInvParts
<1>9. 1..posted' = (1..posted) \union {posted'} /\ posted' \notin 1..posted
  BY <1>2, <1>4
<1>10. TakenNumbers(Executions)' = TakenNumbers(Executions)
  BY <1>3
<1>11. Apart(TakenNumbers(Executions)', WaitingNumbers', FailedNumbers', posted')
  BY <1>6, <1>7, <1>8, <1>9, <1>10 DEF Apart
<1>12. ByNumber(inbox')
  <2>1. \A i \in DOMAIN inbox : inbox[i].no \in 1..posted
    <3>1. \A i \in DOMAIN inbox : inbox[i] \in Range(inbox)
      BY DEF Range
    <3>2. \A i \in DOMAIN inbox : inbox[i].no \in WaitingNumbers
      BY <3>1, InWaiting
    <3> QED BY <1>8, <3>2 DEF Apart
  <2>2. \A i \in DOMAIN inbox : inbox[i].no < m.no
    BY <1>1, <1>2, <1>4, <2>1
  <2>3. ByNumber(inbox)
    BY DEF ExternalInv
  <2> SUFFICES ASSUME NEW i \in DOMAIN inbox', NEW j \in DOMAIN inbox', i < j
               PROVE  inbox'[i].no < inbox'[j].no
    BY DEF ByNumber
  <2>4. i \in DOMAIN inbox
    BY <1>5
  <2>5. CASE j \in DOMAIN inbox
    BY <1>5, <2>3, <2>4, <2>5 DEF ByNumber
  <2>6. CASE j = Len(inbox) + 1
    BY <1>5, <2>2, <2>4, <2>6
  <2> QED BY <1>5, <2>5, <2>6
<1>13. TakenNumbers(done)' \intersect TakenNumbers(block.executed)' = {}
  BY <1>2, <1>3 DEF ExternalInv
<1>14. block'.empty => block'.executed = <<>>
  BY <1>2 DEF ExternalInv
<1> QED BY <1>11, <1>12, <1>13, <1>14 DEF ExternalInv, Apart

(* The message whose execution fails is lost.                              *)
LEMMA FailingExternal == ASSUME Typed, ExternalInv, ExternalFails PROVE ExternalInv'
<1> DEFINE h == Head(inbox)
<1>1. /\ Quiet /\ posted' = posted /\ inbox # <<>>
      /\ inbox' = Tail(inbox) /\ rejected' = rejected \union {h}
      /\ block'.empty = FALSE
  BY ExternalFailsFacts
<1>2. /\ done' = done /\ Executions' = Executions /\ block'.executed = block.executed
  BY <1>1, QuietExecutions DEF Quiet
<1>3. /\ WaitingNumbers' = WaitingNumbers \ {h.no} /\ h.no \in WaitingNumbers
      /\ ByNumber(inbox')
  BY <1>1, WaitingTail
<1>4. FailedNumbers' = FailedNumbers \union {h.no}
  BY <1>1 DEF FailedNumbers
<1>5. Apart(TakenNumbers(Executions), WaitingNumbers, FailedNumbers, posted)
  BY ExternalInvParts
<1> HIDE DEF h
<1>6. TakenNumbers(Executions)' = TakenNumbers(Executions)
  BY <1>2
<1>7. Apart(TakenNumbers(Executions)', WaitingNumbers', FailedNumbers', posted')
  BY <1>1, <1>3, <1>4, <1>5, <1>6 DEF Apart
<1>8. TakenNumbers(done)' \intersect TakenNumbers(block.executed)' = {}
  BY <1>2 DEF ExternalInv
<1> QED BY <1>1, <1>3, <1>7, <1>8 DEF ExternalInv, Apart

(* The external messages of a block that is dropped are lost.              *)
LEMMA DroppedExternal ==
    ASSUME Typed, ExternalInv, Dropped,
           \/ /\ rejected' = rejected \union
                    {m \in {t.msg : t \in Range(block.executed)} : External(m)}
           \/ rejected' = rejected /\ block.empty
    PROVE  ExternalInv'
<1>1. /\ done' = done /\ Executions' = done /\ block'.executed = <<>>
      /\ inbox' = inbox /\ posted' = posted
  BY DroppedExecutions, NoBlockTyped DEF Dropped
<1>2. WaitingNumbers' = WaitingNumbers
  BY <1>1 DEF WaitingNumbers
<1>3. TakenNumbers(Executions) = TakenNumbers(done) \union TakenNumbers(block.executed)
  BY ExecutionsType, TakenUnion
<1>4. FailedNumbers' = FailedNumbers \union TakenNumbers(block.executed)
  <2>1. CASE rejected' = rejected \union
                {m \in {t.msg : t \in Range(block.executed)} : External(m)}
    <3>1. ASSUME NEW x
          PROVE  x \in FailedNumbers' <=> x \in FailedNumbers \/ x \in TakenNumbers(block.executed)
      <4>1. x \in FailedNumbers' <=> \E m \in rejected' : x = m.no
        BY DEF FailedNumbers
      <4>2. x \in TakenNumbers(block.executed) <=>
               \E t \in Range(block.executed) : External(t.msg) /\ x = t.msg.no
        BY InTaken
      <4> QED BY <2>1, <4>1, <4>2, InFailed
    <3> QED BY <3>1
  <2>2. CASE rejected' = rejected /\ block.empty
    <3>1. TakenNumbers(block.executed) = {}
      BY <2>2, TakenNothing DEF ExternalInv
    <3> QED BY <2>2, <3>1 DEF FailedNumbers
  <2> QED BY <2>1, <2>2
<1>5. /\ Apart(TakenNumbers(Executions), WaitingNumbers, FailedNumbers, posted)
      /\ TakenNumbers(done) \intersect TakenNumbers(block.executed) = {}
  BY ExternalInvParts
<1>6. Apart(TakenNumbers(done), WaitingNumbers', FailedNumbers', posted')
  BY <1>1, <1>2, <1>3, <1>4, <1>5 DEF Apart
<1>7. TakenNumbers(Executions)' = TakenNumbers(done) /\ TakenNumbers(done)' = TakenNumbers(done)
  BY <1>1
<1>8. TakenNumbers(block.executed)' = {}
  BY <1>1, TakenNothing
<1>9. ByNumber(inbox)'
  BY <1>1 DEF ExternalInv
<1> QED BY <1>1, <1>6, <1>7, <1>8, <1>9 DEF ExternalInv, Apart

(* A block begins, or what it took becomes part of the chain.              *)
LEMMA BetweenBlocksExternal ==
    ASSUME Typed, ExternalInv, StartBlock \/ FinalizeBlock
    PROVE  ExternalInv'
<1>1. /\ Executions' = Executions /\ block'.executed = <<>>
      /\ UNCHANGED <<inbox, rejected, posted>>
  BY StartFacts, StartExecutions, FinalizeFacts, FinalizeExecutions, NoBlockTyped
<1>2. WaitingNumbers' = WaitingNumbers /\ FailedNumbers' = FailedNumbers
  BY <1>1 DEF WaitingNumbers, FailedNumbers
<1>3. TakenNumbers(block.executed)' = {}
  BY <1>1, TakenNothing
<1> QED BY <1>1, <1>2, <1>3 DEF ExternalInv

LEMMA ExternalStep == Typed /\ SentInv /\ ExternalInv /\ [Next]_vars => ExternalInv'
<1> SUFFICES ASSUME Typed, SentInv, ExternalInv, [Next]_vars PROVE ExternalInv'
  OBVIOUS
<1>1. CASE Import
  <2>1. PICK m, t : /\ m \in block.out /\ Executing(m, t, block.out \ {m}, block.fresh)
    BY <1>1, ImportFacts
  <2>2. ~External(m) /\ inbox' = inbox
    BY <1>1, <2>1, ImportFacts, ImportTakes DEF Executing
  <2> QED BY <2>1, <2>2, ExecutingExternal
<1>2. CASE ImportExternal
  <2>1. PICK t : Executing(Head(inbox), t, block.out, block.fresh)
    BY <1>2, ImportExternalFacts
  <2>2. External(Head(inbox)) /\ inbox # <<>> /\ inbox' = Tail(inbox)
    BY <1>2, ImportExternalFacts, ImportExternalTakes
  <2> QED BY <2>1, <2>2, ExecutingExternal
<1>3. CASE ExecuteNew
  <2>1. PICK t : Executing(Head(block.fresh), t, block.out, Tail(block.fresh))
    BY <1>3, ExecuteNewFacts
  <2>2. ~External(Head(block.fresh)) /\ inbox' = inbox
    BY <1>3, <2>1, ExecuteNewFacts, NewTakes DEF Executing
  <2> QED BY <2>1, <2>2, ExecutingExternal
<1>4. CASE Post
  BY <1>4, PostExternal
<1>5. CASE ExternalFails
  BY <1>5, FailingExternal
<1>6. CASE LeaveNew
  BY <1>6, LeaveNewFacts, StillExternal
<1>7. CASE ImportDone \/ ExternalDone \/ UNCHANGED vars
  BY <1>7, StillFacts, StillExternal
<1>8. CASE ImportFails \/ NewFails
  BY <1>8, DiscardFacts, DroppedExternal
<1>9. CASE DropEmpty
  BY <1>9, DropEmptyFacts, DroppedExternal
<1>10. CASE StartBlock \/ FinalizeBlock
  BY <1>10, BetweenBlocksExternal
<1> QED BY <1>1, <1>2, <1>3, <1>4, <1>5, <1>6, <1>7, <1>8, <1>9, <1>10 DEF Next

(* The numbers of three sets apart add up.                                 *)
LEMMA ApartAddUp ==
    ASSUME NEW n \in Nat, NEW taken, NEW waiting, NEW failed, Apart(taken, waiting, failed, n)
    PROVE  Cardinality(taken) + Cardinality(waiting) + Cardinality(failed) = n
<1>1. IsFiniteSet(1..n) /\ Cardinality(1..n) = n
  <2>1. IsFiniteSet(1..n) /\ Cardinality(1..n) = IF 1 > n THEN 0 ELSE n - 1 + 1
    BY FS_Interval
  <2> QED BY <2>1
<1>2. /\ taken \subseteq 1..n /\ waiting \subseteq 1..n /\ failed \subseteq 1..n
      /\ taken \intersect waiting = {} /\ (taken \union waiting) \intersect failed = {}
      /\ (taken \union waiting) \union failed = 1..n
  BY DEF Apart
<1>3. IsFiniteSet(taken) /\ IsFiniteSet(waiting) /\ IsFiniteSet(failed)
  BY <1>1, <1>2, FS_Subset
<1>4. /\ Cardinality(taken) \in Nat /\ Cardinality(waiting) \in Nat
      /\ Cardinality(failed) \in Nat
  BY <1>3, FS_CardinalityType
<1>5. Cardinality({}) = 0
  BY FS_EmptySet
<1>6. /\ IsFiniteSet(taken \union waiting)
      /\ Cardinality(taken \union waiting) = Cardinality(taken) + Cardinality(waiting)
  <2>1. /\ IsFiniteSet(taken \union waiting)
        /\ Cardinality(taken \union waiting) =
              Cardinality(taken) + Cardinality(waiting) - Cardinality(taken \intersect waiting)
    BY <1>3, FS_Union
  <2>2. Cardinality(taken \intersect waiting) = 0
    BY <1>2, <1>5
  <2> QED BY <1>4, <2>1, <2>2
<1>7. Cardinality((taken \union waiting) \union failed) =
         Cardinality(taken \union waiting) + Cardinality(failed)
  <2>1. Cardinality((taken \union waiting) \union failed) =
           Cardinality(taken \union waiting) + Cardinality(failed)
           - Cardinality((taken \union waiting) \intersect failed)
    BY <1>3, <1>6, FS_Union
  <2>2. Cardinality((taken \union waiting) \intersect failed) = 0
    BY <1>2, <1>5
  <2> QED BY <1>4, <1>6, <2>1, <2>2
<1>8. Cardinality((taken \union waiting) \union failed) = n
  BY <1>1, <1>2
<1> QED BY <1>4, <1>6, <1>7, <1>8

(* An external message that was taken from the queue is in a block, or was *)
(* lost with an execution that failed; none is both.                       *)
THEOREM ExternalsAddUp == Spec => []ExternalsAccounted
<1>1. Spec => [](Typed /\ SentInv /\ ExternalInv)
  BY InitTyped, InitSent, InitExternal, TypedStep, SentStep, ExternalStep, PTL DEF Spec
<1>2. Typed /\ ExternalInv => ExternalsAccounted
  <2> SUFFICES ASSUME Typed, ExternalInv PROVE ExternalsAccounted
    OBVIOUS
  <2>1. Apart(TakenNumbers(Executions), WaitingNumbers, FailedNumbers, posted)
    BY ExternalInvParts
  <2>2. posted \in Nat
    BY DEF Typed, TypeOK
  <2>3. Cardinality(TakenNumbers(Executions)) + Cardinality(WaitingNumbers)
           + Cardinality(FailedNumbers) = posted
    BY <2>1, <2>2, ApartAddUp
  <2>4. Transaction \union Range(block.executed) = Range(Executions)
    BY ExecutionsType DEF Transaction
  <2>5. TakenNumbers(Executions) \union WaitingNumbers \union FailedNumbers = 1..posted
    BY <2>1 DEF Apart
  <2> QED BY <2>3, <2>4, <2>5 DEF ExternalsAccounted, TakenNumbers, WaitingNumbers, FailedNumbers
<1> QED BY <1>1, <1>2, PTL

=============================================================================
