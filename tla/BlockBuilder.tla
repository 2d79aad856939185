---------------------------- MODULE BlockBuilder ----------------------------
(***************************************************************************)
(* The block builder of one chain (block/builder.rs): which messages a     *)
(* block executes and in which order, which it leaves for the next one,    *)
(* and the logical times it gives them.                                    *)
(*                                                                         *)
(* A block executes messages in three phases: those left in the outbound   *)
(* queue by earlier blocks, the external ones of the message queue, and    *)
(* the new ones its own transactions send.  Once a limit is reached, new   *)
(* messages are left in the outbound queue.  The phases work on a copy of  *)
(* the chain's state; it replaces the state when the block is finished and *)
(* is thrown away when an execution fails.  What has been dequeued stays   *)
(* dequeued.                                                               *)
(*                                                                         *)
(* What the virtual machine does with a message is external: it sends      *)
(* messages, or refuses the message and sends none, and the account may be *)
(* gone afterwards.                                                        *)
(***************************************************************************)
EXTENDS Naturals, FiniteSets, SequencesExt

CONSTANTS
    Accounts,        \* the accounts of the chain
    Foreign,         \* addresses in another workchain
    SameId,          \* the account of the chain with the id of a foreign address
    Origin,          \* the source of external messages
    FirstLt,         \* logical time of an account without state: 0, or that of a forked network
    MaxExternal,     \* bound on the external messages
    MaxMessages,     \* bound on all messages, those sent by transactions included
    MaxSends,        \* bound on the messages sent by one of them
    MaxFailures,     \* bound on the executions that fail
    MaxGone          \* bound on the transactions that remove their account

ASSUME AddressAssumption ==
    /\ Accounts \intersect Foreign = {}
    /\ Origin \notin Accounts
    /\ SameId \in [Foreign -> Accounts]
    /\ FirstLt \in [Accounts -> Nat]

ASSUME BuilderBounds ==
    /\ MaxExternal \in Nat /\ MaxMessages \in Nat /\ MaxSends \in Nat
    /\ MaxFailures \in Nat /\ MaxGone \in Nat

VARIABLES
    phase,        \* what build_block is doing
    inbox,        \* the external messages in the message queue for the chain
    outQueue,     \* out_msg_queue of the chain's state
    account,      \* accounts of the chain's state: last transaction and logical time
    endLt,        \* end_lt of the last block
    block,        \* the block being built: its own variables and copies of the state
    done,         \* history: the transactions of the chain, in the order of execution
    height,       \* history: number of blocks
    rejected,     \* history: external messages lost with an execution that failed
    posted, sent, failures, gone

chain  == <<outQueue, account, endLt, done, height>>
counts == <<sent, failures, gone>>
vars   == <<phase, inbox, chain, block, rejected, posted, counts>>

Addresses == Accounts \union Foreign

Larger(m, n) == IF m < n THEN n ELSE m

(* A message has a number: messages differ in their contents.  lt is       *)
(* created_lt, which external messages do not have.                        *)
Message == [no : Nat, src : Accounts \union {Origin}, dst : Addresses, lt : Nat]

External(m) == m.src = Origin

(* An account that is not in the state is fetched from the forked network. *)
Absent(a) == [trans |-> 0, time |-> FirstLt[a]]

NoBlock == [seq |-> FALSE, start |-> 0, end |-> 0, out |-> {}, account |-> <<>>,
            fresh |-> <<>>, full |-> FALSE, empty |-> TRUE, executed |-> <<>>]

Init ==
    /\ phase = "idle" /\ inbox = <<>> /\ block = NoBlock
    /\ outQueue = {} /\ account = [a \in Accounts |-> Absent(a)] /\ endLt = 0
    /\ done = <<>> /\ height = 0 /\ rejected = {}
    /\ posted = 0 /\ sent = 0 /\ failures = 0 /\ gone = 0

Post ==
    /\ posted < MaxExternal /\ posted + sent < MaxMessages
    /\ posted' = posted + 1
    /\ \E a \in Accounts :
          inbox' = Append(inbox, [no |-> posted', src |-> Origin, dst |-> a, lt |-> 0])
    /\ UNCHANGED <<phase, chain, block, rejected, counts>>

-----------------------------------------------------------------------------
(* Executing a message m in a block b.                                     *)

(* int_dst_account_id drops the workchain of an address.                   *)
AccountOf(m) == IF m.dst \in Foreign THEN SameId[m.dst] ELSE m.dst

(* Fault: the logical time of the message is not looked at.                *)
TransactionLtAnyMessage(b, m) ==
    LET a == b.account[AccountOf(m)]
    IN  Larger(a.time, Larger(b.start, a.trans + 1))

(* Not before the block, and after the account's last transaction, what it *)
(* sent, and the message.                                                  *)
TransactionLt(b, m) ==
    LET a == b.account[AccountOf(m)]
    IN  Larger(Larger(a.time, b.start), Larger(a.trans, m.lt) + 1)

(* The messages a transaction at lt sends, at lt + 1, lt + 2 ...           *)
Sends(a, lt, dsts) ==
    [i \in DOMAIN dsts |-> [no |-> sent + i, src |-> a, dst |-> dsts[i], lt |-> lt + i]]

(* Fault: only the logical time of the transaction counts.                 *)
EndLtOfTransaction(b, lt, last) == Larger(b.end, lt)

EndLt(b, lt, last) == Larger(b.end, last)

(* The block after the transaction; the one of a refused message has no    *)
(* logical time but its own.                                               *)
Executed(b, m, dsts, refused, removed, full) ==
    LET a     == AccountOf(m)
        lt    == TransactionLt(b, m)
        last  == IF refused THEN lt ELSE lt + 1 + Len(dsts)
        sends == Sends(a, lt, dsts)
    IN  [b EXCEPT !.end = EndLt(b, lt, last),
                  !.account[a] = IF removed THEN Absent(a) ELSE [trans |-> lt, time |-> last],
                  !.fresh = @ \o sends,
                  !.full = full,
                  !.executed = Append(@, [msg |-> m, account |-> a, lt |-> lt, sends |-> sends,
                                          removed |-> removed, height |-> height + 1])]

(* is_limits_reached: the gas used may exceed the limit after any message; *)
(* in sequential mode one message is the limit.                            *)
LimitsReached == IF block.seq THEN {TRUE} ELSE BOOLEAN

(* Only an external message may not be accepted, or find no funds.         *)
Execute(b, m) ==
    \E n \in 0..MaxSends : \E dsts \in [1..n -> Addresses] :
    \E refused, removed \in BOOLEAN, full \in LimitsReached :
        /\ refused => External(m) /\ n = 0
        /\ removed => gone < MaxGone
        /\ posted + sent + n <= MaxMessages
        /\ sent' = sent + n
        /\ gone' = IF removed THEN gone + 1 ELSE gone
        /\ block' = Executed(b, m, dsts, refused, removed, full)
        /\ UNCHANGED failures

(* Errors of the executor and of the fork provider.                        *)
ExecutionFails ==
    /\ failures < MaxFailures
    /\ failures' = failures + 1
    /\ UNCHANGED <<sent, gone>>

(* The builder is dropped, and with it the block and the copies.           *)
Discard ==
    /\ phase' = "idle"
    /\ block' = NoBlock
    /\ rejected' = rejected \union {m \in {t.msg : t \in Range(block.executed)} : External(m)}
    /\ UNCHANGED <<inbox, chain, posted>>

-----------------------------------------------------------------------------
(* build_block                                                             *)

(* Fault: the block begins where the last one ends.                        *)
StartLtAtEnd == endLt

StartLt == endLt + 1

StartBlock ==
    /\ phase = "idle"
    /\ phase' = "import"
    /\ \E seq \in BOOLEAN :
          block' = [NoBlock EXCEPT !.seq = seq, !.start = StartLt, !.end = StartLt + 1,
                                   !.out = outQueue, !.account = account]
    /\ UNCHANGED <<inbox, chain, rejected, posted, counts>>

(* Fault: the queue is sorted the other way round.                         *)
NewestOut == {m \in block.out : \A other \in block.out : other.lt <= m.lt}

(* The out queue is sorted by logical time.                                *)
OldestOut == {m \in block.out : \A other \in block.out : m.lt <= other.lt}

(* Fault: the message is removed after the check of the limits.            *)
KeptAfterImport(m) == block.out

LeftAfterImport(m) == block.out \ {m}

Import ==
    /\ phase = "import" /\ ~block.full
    /\ \E m \in OldestOut :
          Execute([block EXCEPT !.out = LeftAfterImport(m), !.empty = FALSE], m)
    /\ UNCHANGED <<phase, inbox, chain, rejected, posted>>

ImportFails ==
    /\ phase = "import" /\ ~block.full /\ block.out # {}
    /\ ExecutionFails
    /\ Discard

ImportDone ==
    /\ phase = "import"
    /\ block.full \/ block.out = {}
    /\ phase' = IF block.full THEN "new" ELSE "external"
    /\ UNCHANGED <<inbox, chain, block, rejected, posted, counts>>

(* Fault: a block with nothing but external messages is empty.             *)
TakenQuietly == block

Taken == [block EXCEPT !.empty = FALSE]

ImportExternal ==
    /\ phase = "external" /\ ~block.full /\ inbox # <<>>
    /\ Execute(Taken, Head(inbox))
    /\ inbox' = Tail(inbox)
    /\ UNCHANGED <<phase, chain, rejected, posted>>

(* The error is logged, and the message counts.                            *)
ExternalFails ==
    /\ phase = "external" /\ ~block.full /\ inbox # <<>>
    /\ ExecutionFails
    /\ block' = [Taken EXCEPT !.full = block.seq]
    /\ inbox' = Tail(inbox)
    /\ rejected' = rejected \union {Head(inbox)}
    /\ UNCHANGED <<phase, chain, posted>>

ExternalDone ==
    /\ phase = "external"
    /\ block.full \/ inbox = <<>>
    /\ phase' = "new"
    /\ UNCHANGED <<inbox, chain, block, rejected, posted, counts>>

(* Fault: the limits do not hold for new messages.                         *)
LeftIfForeign(m) == m.dst \in Foreign

LeftForLater(m) == m.dst \in Foreign \/ block.full

LeaveNew ==
    /\ phase = "new" /\ block.fresh # <<>> /\ LeftForLater(Head(block.fresh))
    /\ block' = [block EXCEPT !.fresh = Tail(@), !.out = @ \union {Head(block.fresh)},
                              !.empty = FALSE]
    /\ UNCHANGED <<phase, inbox, chain, rejected, posted, counts>>

ExecuteNew ==
    /\ phase = "new" /\ block.fresh # <<>> /\ ~LeftForLater(Head(block.fresh))
    /\ Execute([block EXCEPT !.fresh = Tail(@), !.empty = FALSE], Head(block.fresh))
    /\ UNCHANGED <<phase, inbox, chain, rejected, posted>>

NewFails ==
    /\ phase = "new" /\ block.fresh # <<>> /\ ~LeftForLater(Head(block.fresh))
    /\ ExecutionFails
    /\ Discard

(* An empty block of a workchain is dropped.                               *)
DropEmpty ==
    /\ phase = "new" /\ block.fresh = <<>> /\ block.empty
    /\ phase' = "idle"
    /\ block' = NoBlock
    /\ UNCHANGED <<inbox, chain, rejected, posted, counts>>

FinalizeBlock ==
    /\ phase = "new" /\ block.fresh = <<>> /\ ~block.empty
    /\ phase' = "idle"
    /\ outQueue' = block.out
    /\ account' = block.account
    /\ endLt' = Larger(block.end, block.start + 1)
    /\ done' = done \o block.executed
    /\ height' = height + 1
    /\ block' = NoBlock
    /\ UNCHANGED <<inbox, rejected, posted, counts>>

Next ==
    \/ Post
    \/ StartBlock
    \/ Import \/ ImportFails \/ ImportDone
    \/ ImportExternal \/ ExternalFails \/ ExternalDone
    \/ LeaveNew \/ ExecuteNew \/ NewFails
    \/ DropEmpty \/ FinalizeBlock

Spec == Init /\ [][Next]_vars

-----------------------------------------------------------------------------
(* Properties                                                              *)

Transaction == Range(done)
SentMessages == UNION {Range(t.sends) : t \in Transaction}

(* The state has its types, and a block in the making begins after the     *)
(* last one.                                                               *)
TypeOK ==
    /\ phase \in {"idle", "import", "external", "new"}
    /\ inbox \in Seq({m \in Message : External(m)})
    /\ outQueue \subseteq {m \in Message : ~External(m)}
    /\ account \in [Accounts -> [trans : Nat, time : Nat]]
    /\ endLt \in Nat /\ height \in Nat
    /\ rejected \subseteq {m \in Message : External(m)}
    /\ posted \in 0..MaxExternal /\ sent \in Nat /\ posted + sent <= MaxMessages
    /\ failures \in 0..MaxFailures /\ gone \in 0..MaxGone
    /\ phase = "idle" => block = NoBlock
    /\ phase # "idle" => endLt < block.start /\ block.start < block.end

(* Every internal message is executed exactly once or waits in the out     *)
(* queue, across limits, failed blocks and the foreign messages that pass  *)
(* through the queue; nothing is executed that was not sent.               *)
SentOnceExecutedOnce ==
    LET internal == {i \in DOMAIN done : ~External(done[i].msg)}
        executed == {done[i].msg : i \in internal}
    IN  /\ \A i, j \in internal : i # j => done[i].msg # done[j].msg
        /\ executed \intersect outQueue = {}
        /\ executed \union outQueue = SentMessages

(* Two messages were sent by an account that was removed in the block that *)
(* sent them, and began anew with an old logical time.                     *)
SenderBeganAnew(m, n) ==
    \E s, t, r \in Transaction :
        /\ m \in Range(s.sends) /\ n \in Range(t.sends)
        /\ r.account = m.src /\ r.removed
        /\ {s.height, t.height} = {r.height}

(* Messages from one account to one address are executed in the order they *)
(* were sent, whichever of them were left in the out queue by a limit and  *)
(* in whichever phase they come.  Only a sender that was removed in the    *)
(* block may break it: the queue is sorted by logical time.                *)
DeliveryOrder ==
    \A m, n \in SentMessages :
        (m.src = n.src /\ m.dst = n.dst /\ m.no < n.no /\ ~SenderBeganAnew(m, n)) =>
            \A j \in DOMAIN done : done[j].msg = n => \E i \in 1..(j - 1) : done[i].msg = m

(* A transaction comes after the message it executes in logical time, and  *)
(* the transactions of an account follow each other, with all that the     *)
(* earlier one sent in between, unless the account was removed.            *)
LtCausal ==
    /\ \A t \in Transaction : t.msg.lt < t.lt
    /\ \A i, j \in DOMAIN done :
          (i < j /\ done[i].account = done[j].account) =>
              \/ /\ done[i].lt < done[j].lt
                 /\ \A m \in Range(done[i].sends) : m.lt < done[j].lt
              \/ \E k \in i..(j - 1) : /\ done[k].account = done[i].account /\ done[k].removed
                                       /\ done[k].height = done[j].height

(* The logical times of a block, messages included, lie after those of all *)
(* blocks before, though accounts of a forked network are ahead of the     *)
(* chain.                                                                  *)
BlocksDisjoint ==
    \A i, j \in DOMAIN done :
        done[i].height < done[j].height =>
            done[j].lt > done[i].lt /\ \A m \in Range(done[i].sends) : done[j].lt > m.lt

(* In sequential mode a block has one transaction at most, the messages it *)
(* sends being left for the blocks to come.                                *)
SeqSingle == block.seq => Len(block.executed) <= 1

(* An external message taken from the queue is in a block, or was lost     *)
(* with an execution that failed; no block that took one is dropped.       *)
ExternalsAccounted ==
    LET taken == {t.msg.no : t \in {u \in Transaction \union Range(block.executed) :
                                       External(u.msg)}}
        waiting == {m.no : m \in Range(inbox)}
        failed  == {m.no : m \in rejected}
    IN  /\ taken \union waiting \union failed = 1..posted
        /\ Cardinality(taken) + Cardinality(waiting) + Cardinality(failed) = posted

=============================================================================
