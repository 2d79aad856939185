----------------------- MODULE InMessagesQueue_proofs -----------------------
(***************************************************************************)
(* Proofs about InMessagesQueue, for any senders, requests and capacity:   *)
(* type correctness, what the answers mean, the order of the records of a  *)
(* request, and that the queue implements Inbox.                           *)
(***************************************************************************)
EXTENDS InMessagesQueue, SequenceTheorems, TLAPS

(* Where a request thread is tells how far its request has got.            *)
StepMatches(step, s, n) ==
    /\ step = "ok" => n = Len(Request[s]) + 1
    /\ step = "skip" => n <= Len(Request[s]) /\ Incomplete(s, n)
    /\ step \in {"node", "check", "push"} =>
          n <= Len(Request[s]) /\ ~Incomplete(s, n) /\ ~Unparsable(s, n)
    /\ step = "bad request" => n <= Len(Request[s]) /\ Unparsable(s, n)

NextMatchesStep == \A s \in Senders : StepMatches(spc[s], s, next[s])

(* No record that was passed is unparsable.                                *)
PassedAreParsable ==
    \A s \in Senders : \A i \in 1..Len(Request[s]) :
        i < next[s] => ~Unparsable(s, i)

(* The accepted records of a request are those before the current one that *)
(* have a key and a value.                                                 *)
AcceptedPrefix ==
    \A s \in Senders : \A i \in 1..Len(Request[s]) :
        ticket[Request[s][i]] > 0 <=> i < next[s] /\ ~Incomplete(s, i)

(* The accepted records of a request are accepted in their order.          *)
TicketsFollowRequest ==
    \A s \in Senders : \A i, j \in Complete(s) :
        i < j /\ j < next[s] => ticket[Request[s][i]] < ticket[Request[s][j]]

(* After a late record of a request no other is accepted: none between it  *)
(* and the current one, and the current one is not about to be pushed.     *)
LateIsLast ==
    \A s \in Senders : \A i \in 1..Len(Request[s]) :
        Request[s][i] \in late =>
            /\ stopped
            /\ i < next[s]
            /\ spc[s] # "push"
            /\ \A j \in Complete(s) : j < next[s] => j <= i

(* The queue holds accepted messages, in the order of their acceptance.    *)
StorageFollowsTickets ==
    /\ \A i \in 1..Len(storage) : ticket[storage[i]] > 0
    /\ \A i, j \in 1..Len(storage) : i < j => ticket[storage[i]] < ticket[storage[j]]

IInv ==
    /\ TypeOK
    /\ NextMatchesStep
    /\ PassedAreParsable
    /\ AcceptedPrefix
    /\ TicketsFollowRequest
    /\ LateIsLast
    /\ StorageFollowsTickets
    /\ RequestOrderKept

-----------------------------------------------------------------------------

(* What is left of a sequence when its element i is removed.               *)
LEMMA RemoveAtFacts ==
    ASSUME NEW S, NEW q \in Seq(S), NEW i \in 1..Len(q)
    PROVE  /\ RemoveAt(q, i) \in Seq(S)
           /\ Len(RemoveAt(q, i)) = Len(q) - 1
           /\ \A j \in 1..Len(q) - 1 : RemoveAt(q, i)[j] = IF j < i THEN q[j] ELSE q[j + 1]
<1> DEFINE front == SubSeq(q, 1, i - 1)
           back  == SubSeq(q, i + 1, Len(q))
<1>1. /\ front \in Seq(S)
      /\ Len(front) = i - 1
      /\ \A j \in 1..i - 1 : front[j] = q[j]
  BY SubSeqProperties
<1>2. /\ back \in Seq(S)
      /\ Len(back) = Len(q) - i
      /\ \A j \in 1..Len(q) - i : back[j] = q[i + j]
  BY SubSeqProperties
<1>3. RemoveAt(q, i) = front \o back
  BY DEF RemoveAt
<1> HIDE DEF front, back
<1>4. /\ front \o back \in Seq(S)
      /\ Len(front \o back) = Len(q) - 1
      /\ \A j \in 1..Len(q) - 1 :
            (front \o back)[j] = IF j <= i - 1 THEN front[j] ELSE back[j - (i - 1)]
  <2>1. /\ front \o back \in Seq(S)
        /\ Len(front \o back) = Len(front) + Len(back)
        /\ \A j \in 1..Len(front) + Len(back) :
              (front \o back)[j] = IF j <= Len(front) THEN front[j] ELSE back[j - Len(front)]
    BY <1>1, <1>2, ConcatProperties
  <2>2. Len(q) \in Nat /\ Len(front) + Len(back) = Len(q) - 1
    BY <1>1, <1>2, LenProperties
  <2> QED BY <1>1, <2>1, <2>2
<1>5. ASSUME NEW j \in 1..Len(q) - 1
      PROVE  RemoveAt(q, i)[j] = IF j < i THEN q[j] ELSE q[j + 1]
  <2>1. CASE j < i
    BY <2>1, <1>1, <1>3, <1>4
  <2>2. CASE j >= i
    <3>1. j - (i - 1) \in 1..Len(q) - i /\ i + (j - (i - 1)) = j + 1
      <4>1. Len(q) \in Nat
        BY LenProperties
      <4>2. i \in Nat /\ j \in Nat /\ i <= j /\ j <= Len(q) - 1
        BY <2>2, <4>1
      <4> QED BY <4>1, <4>2
    <3>2. back[j - (i - 1)] = q[j + 1]
      BY <1>2, <3>1
    <3>3. ~(j <= i - 1) /\ ~(j < i)
      BY <2>2
    <3>4. (front \o back)[j] = back[j - (i - 1)]
      BY <1>4, <3>3
    <3> QED BY <1>3, <3>2, <3>3, <3>4
  <2> QED BY <2>1, <2>2
<1> QED BY <1>3, <1>4, <1>5

(* The request of a thread that is posting has a current record, and it is *)
(* a message that was not accepted before.                                 *)
LEMMA PostedIsNew ==
    ASSUME IInv, NEW s \in Senders, spc[s] = "push"
    PROVE  /\ next[s] \in 1..Len(Request[s])
           /\ Message(s) \in Messages
           /\ ticket[Message(s)] = 0
           /\ ~Queued(Message(s))
<1>1. Request[s] \in Seq(Messages)
  BY RequestAssumption
<1>2. next[s] \in 1..Len(Request[s])
  <2>1. Len(Request[s]) \in Nat /\ next[s] \in 1..Len(Request[s]) + 1
    BY <1>1, LenProperties DEF IInv, TypeOK
  <2>2. next[s] <= Len(Request[s])
    BY DEF IInv, NextMatchesStep, StepMatches
  <2> QED BY <2>1, <2>2
<1>3. Message(s) \in Messages
  BY <1>1, <1>2, ElementOfSeq DEF Message
<1>4. ticket[Message(s)] = 0
  BY <1>2, <1>3 DEF IInv, TypeOK, AcceptedPrefix, Message
<1>5. ~Queued(Message(s))
  BY <1>4 DEF Queued, IInv, StorageFollowsTickets
<1> QED BY <1>2, <1>3, <1>4, <1>5

(* Appending an element to the storage.                                    *)
LEMMA StorageAppended ==
    ASSUME TypeOK, NEW m \in Messages, storage' = Append(storage, m)
    PROVE  /\ storage' \in Seq(Messages)
           /\ Len(storage') = Len(storage) + 1
           /\ \A i \in 1..Len(storage) : storage'[i] = storage[i]
           /\ storage'[Len(storage) + 1] = m
           /\ \A k : Queued(k)' <=> Queued(k) \/ k = m
<1>1. /\ storage' \in Seq(Messages)
      /\ Len(storage') = Len(storage) + 1
      /\ \A i \in 1..Len(storage) : storage'[i] = storage[i]
      /\ storage'[Len(storage) + 1] = m
  BY AppendProperties DEF TypeOK
<1>2. ASSUME NEW k
      PROVE  Queued(k)' <=> Queued(k) \/ k = m
  BY <1>1, LenProperties DEF Queued, TypeOK
<1> QED BY <1>1, <1>2

(* Taking an element out of the storage: nothing else leaves it, and the   *)
(* order of the rest stays.                                                *)
LEMMA StorageRemoved ==
    ASSUME IInv, NEW i \in 1..Len(storage), storage' = RemoveAt(storage, i)
    PROVE  /\ storage' \in Seq(Messages)
           /\ Len(storage') = Len(storage) - 1
           /\ \A j \in 1..Len(storage') :
                 storage'[j] = IF j < i THEN storage[j] ELSE storage[j + 1]
           /\ \A k : Queued(k)' <=> Queued(k) /\ k # storage[i]
<1>1. /\ storage' \in Seq(Messages)
      /\ Len(storage') = Len(storage) - 1
      /\ \A j \in 1..Len(storage') :
            storage'[j] = IF j < i THEN storage[j] ELSE storage[j + 1]
  BY RemoveAtFacts DEF IInv, TypeOK
<1>2. Len(storage) \in Nat /\ \A j \in 1..Len(storage) : storage[j] \in Messages
  BY ElementOfSeq, LenProperties DEF IInv, TypeOK
<1>3. \A j \in 1..Len(storage) : ticket[storage[j]] \in Nat
  BY <1>2 DEF IInv, TypeOK
<1>4. \A j \in 1..Len(storage) : j # i => storage[j] # storage[i]
  BY <1>2, <1>3 DEF IInv, StorageFollowsTickets
<1>5. ASSUME NEW k
      PROVE  Queued(k)' <=> Queued(k) /\ k # storage[i]
  <2>1. ASSUME NEW j \in 1..Len(storage')
        PROVE  Queued(storage'[j]) /\ storage'[j] # storage[i]
    <3>1. CASE j < i
      BY <1>1, <1>2, <1>4, <2>1, <3>1 DEF Queued
    <3>2. CASE j >= i
      BY <1>1, <1>2, <1>4, <2>1, <3>2 DEF Queued
    <3> QED BY <3>1, <3>2, <1>2
  <2>2. ASSUME NEW j \in 1..Len(storage), j # i
        PROVE  \E l \in 1..Len(storage') : storage'[l] = storage[j]
    <3>1. CASE j < i
      <4>1. j \in 1..Len(storage') /\ storage'[j] = storage[j]
        BY <1>1, <1>2, <3>1
      <4> QED BY <4>1
    <3>2. CASE j > i
      <4>1. j - 1 \in 1..Len(storage') /\ storage'[j - 1] = storage[j]
        BY <1>1, <1>2, <3>2
      <4> QED BY <4>1
    <3> QED BY <2>2, <3>1, <3>2, <1>2
  <2>3. ASSUME Queued(k)' PROVE Queued(k) /\ k # storage[i]
    <3>1. PICK j \in 1..Len(storage') : storage'[j] = k
      BY <2>3 DEF Queued
    <3> QED BY <2>1, <3>1
  <2>4. ASSUME Queued(k), k # storage[i] PROVE Queued(k)'
    <3>1. PICK j \in 1..Len(storage) : storage[j] = k
      BY <2>4 DEF Queued
    <3>2. j # i
      BY <2>4, <3>1
    <3>3. \E l \in 1..Len(storage') : storage'[l] = k
      BY <2>2, <3>1, <3>2
    <3> QED BY <3>3 DEF Queued
  <2> QED BY <2>3, <2>4
<1> QED BY <1>1, <1>5

-----------------------------------------------------------------------------

(* The step a request starts a record with matches the record.             *)
LEMMA StartMatches ==
    ASSUME NEW s \in Senders, NEW n \in Nat, Len(Request[s]) \in Nat,
           n <= Len(Request[s]) + 1
    PROVE  StepMatches(SenderStep(s, n), s, n)
<1>1. CASE n > Len(Request[s])
  <2>1. SenderStep(s, n) = "ok"
    BY <1>1 DEF SenderStep
  <2>2. n = Len(Request[s]) + 1
    BY <1>1
  <2> QED BY <2>1, <2>2 DEF StepMatches
<1>2. CASE n <= Len(Request[s]) /\ Unparsable(s, n)
  <2>1. SenderStep(s, n) = "bad request"
    BY <1>2 DEF SenderStep, Unparsable
  <2> QED BY <1>2, <2>1 DEF StepMatches
<1>3. CASE n <= Len(Request[s]) /\ Incomplete(s, n)
  <2>1. SenderStep(s, n) = "skip"
    BY <1>3 DEF SenderStep
  <2> QED BY <1>3, <2>1 DEF StepMatches
<1>4. CASE n <= Len(Request[s]) /\ ~Incomplete(s, n) /\ ~Unparsable(s, n)
  <2>1. SenderStep(s, n) = "node"
    BY <1>4 DEF SenderStep
  <2> QED BY <1>4, <2>1 DEF StepMatches
<1> QED BY <1>1, <1>2, <1>3, <1>4

LEMMA InitIInv == Init => IInv
<1> SUFFICES ASSUME Init PROVE IInv
  OBVIOUS
<1> USE DEF Init
<1>1. \A s \in Senders : Len(Request[s]) \in Nat
  BY RequestAssumption, LenProperties
<1>2. \A s \in Senders : \A i \in 1..Len(Request[s]) : Request[s][i] \in Messages
  BY RequestAssumption, ElementOfSeq
<1>3. TypeOK
  <2>1. storage \in Seq(Messages) /\ Len(storage) = 0
    BY EmptySeq
  <2>2. spc \in [Senders -> SenderSteps]
    BY DEF SenderStep, SenderSteps
  <2>3. next \in [Senders -> Nat] /\ \A s \in Senders : next[s] \in 1..Len(Request[s]) + 1
    BY <1>1
  <2>4. ticket \in [Messages -> 0..count]
    OBVIOUS
  <2>5. failures \in 0..MaxFailures /\ count \in Nat
    BY BoundsAssumption
  <2>6. /\ epc \in EngineSteps /\ cpc \in ControlSteps
        /\ missed \subseteq Messages /\ late \subseteq Messages
        /\ stopped \in BOOLEAN /\ progress \in BOOLEAN
    BY DEF EngineSteps, ControlSteps
  <2> HIDE DEF Init
  <2>7. Len(storage) <= Capacity
    BY <2>1, CapacityAssumption
  <2> QED BY <2>1, <2>2, <2>3, <2>4, <2>5, <2>6, <2>7 DEF TypeOK
<1>4. NextMatchesStep
  <2> SUFFICES ASSUME NEW s \in Senders PROVE StepMatches(spc[s], s, next[s])
    BY DEF NextMatchesStep
  <2>1. StepMatches(SenderStep(s, 1), s, 1)
    BY <1>1, StartMatches
  <2>2. next[s] = 1 /\ spc[s] = SenderStep(s, 1)
    OBVIOUS
  <2> QED BY <2>1, <2>2, Zenon
<1>5. PassedAreParsable
  BY <1>1 DEF PassedAreParsable
<1>6. AcceptedPrefix /\ TicketsFollowRequest /\ LateIsLast
  BY <1>1, <1>2 DEF AcceptedPrefix, TicketsFollowRequest, LateIsLast, Complete
<1>7. StorageFollowsTickets
  BY DEF StorageFollowsTickets
<1>8. RequestOrderKept
  BY <1>1, <1>2 DEF RequestOrderKept, Taken, Complete
<1> QED BY <1>3, <1>4, <1>5, <1>6, <1>7, <1>8 DEF IInv

(* Push keeps the invariant: the new message has the highest ticket, and   *)
(* it becomes the last of the accepted records of its request.             *)
LEMMA PushKeepsIInv ==
    ASSUME IInv, NEW s \in Senders, Push(s)
    PROVE  IInv'
<1> DEFINE m == Message(s)
<1>1. /\ next[s] \in 1..Len(Request[s])
      /\ m \in Messages
      /\ ticket[m] = 0
      /\ ~Queued(m)
  BY PostedIsNew DEF Push
<1>2. /\ storage' \in Seq(Messages)
      /\ Len(storage') = Len(storage) + 1
      /\ \A i \in 1..Len(storage) : storage'[i] = storage[i]
      /\ storage'[Len(storage) + 1] = m
      /\ \A k : Queued(k)' <=> Queued(k) \/ k = m
  BY <1>1, StorageAppended DEF IInv, Push
<1>3. \A t \in Senders : Len(Request[t]) \in Nat
  BY RequestAssumption, LenProperties
<1>4. \A t \in Senders : \A i \in 1..Len(Request[t]) : Request[t][i] \in Messages
  BY RequestAssumption, ElementOfSeq
<1>5. \A t \in Senders : \A i \in 1..Len(Request[t]) :
         Request[t][i] = m <=> t = s /\ i = next[s]
  BY <1>1, RequestAssumption DEF Message
<1>6. /\ count \in Nat
      /\ ticket \in [Messages -> 0..count]
      /\ count' = count + 1
      /\ ticket' = [ticket EXCEPT ![m] = count + 1]
  BY DEF Push, IInv, TypeOK
<1>7. /\ next \in [Senders -> Nat]
      /\ next' = [next EXCEPT ![s] = @ + 1]
      /\ spc' = [spc EXCEPT ![s] = SenderStep(s, next[s] + 1)]
  BY DEF Push, IInv, TypeOK
<1>8. Len(storage) \in Nat /\ \A i \in 1..Len(storage) : storage[i] \in Messages /\ storage[i] # m
  BY <1>1, ElementOfSeq, LenProperties DEF IInv, TypeOK, Queued
<1> HIDE DEF m
<1>9. TypeOK'
  <2>1. Len(storage') <= Capacity
    BY <1>2, <1>8, CapacityAssumption DEF Push, IsFull
  <2>2. epc' \in EngineSteps
    BY DEF Push, Notified, IInv, TypeOK, EngineSteps
  <2>3. spc' \in [Senders -> SenderSteps]
    BY <1>7 DEF IInv, TypeOK, SenderStep, SenderSteps
  <2>4. next' \in [Senders -> Nat] /\ \A t \in Senders : next'[t] \in 1..Len(Request[t]) + 1
    BY <1>1, <1>3, <1>7 DEF IInv, TypeOK
  <2>5. count' \in Nat /\ ticket' \in [Messages -> 0..count']
    BY <1>1, <1>6
  <2>6. missed' \subseteq Messages /\ late' \subseteq Messages
    BY <1>1 DEF Push, IInv, TypeOK, m
  <2>7. UNCHANGED <<stopped, progress, failures, cpc>>
    BY DEF Push
  <2> QED BY <1>2, <2>1, <2>2, <2>3, <2>4, <2>5, <2>6, <2>7 DEF IInv, TypeOK
<1>10. NextMatchesStep' /\ PassedAreParsable'
  <2>1. spc[s] = "push"
    BY DEF Push
  <2>2. ~Unparsable(s, next[s])
    BY <2>1 DEF IInv, NextMatchesStep, StepMatches
  <2>3. ASSUME NEW t \in Senders, t # s
        PROVE  next'[t] = next[t] /\ spc'[t] = spc[t]
    BY <1>7, <2>3 DEF IInv, TypeOK
  <2>4. next'[s] = next[s] + 1 /\ spc'[s] = SenderStep(s, next'[s])
    BY <1>7 DEF IInv, TypeOK
  <2>5. NextMatchesStep'
    <3> SUFFICES ASSUME NEW t \in Senders
                 PROVE  StepMatches(spc'[t], t, next'[t])
      BY DEF NextMatchesStep, StepMatches, Unparsable, Incomplete
    <3>1. CASE t = s
      <4>1. StepMatches(SenderStep(s, next[s] + 1), s, next[s] + 1)
        BY <1>1, <1>3, StartMatches
      <4> QED BY <2>4, <3>1, <4>1, Zenon
    <3>2. CASE t # s
      <4>1. StepMatches(spc[t], t, next[t])
        BY DEF IInv, NextMatchesStep
      <4> QED BY <2>3, <3>2, <4>1, Zenon
    <3> QED BY <3>1, <3>2
  <2>6. PassedAreParsable'
    BY <1>1, <1>3, <1>7, <2>2, <2>3, <2>4 DEF IInv, PassedAreParsable, Unparsable, Incomplete
  <2> QED BY <2>5, <2>6
<1>11. AcceptedPrefix'
  <2> SUFFICES ASSUME NEW t \in Senders, NEW i \in 1..Len(Request[t])
               PROVE  ticket'[Request[t][i]] > 0 <=> i < next'[t] /\ ~Incomplete(t, i)
    BY DEF AcceptedPrefix, Incomplete
  <2>1. ticket[Request[t][i]] > 0 <=> i < next[t] /\ ~Incomplete(t, i)
    BY DEF IInv, AcceptedPrefix
  <2>2. CASE t = s /\ i = next[s]
    <3>1. ~Incomplete(s, next[s])
      BY DEF Push, IInv, NextMatchesStep, StepMatches
    <3> QED BY <1>1, <1>5, <1>6, <1>7, <2>2, <3>1
  <2>3. CASE t = s /\ i # next[s]
    BY <1>1, <1>3, <1>4, <1>5, <1>6, <1>7, <2>1, <2>3
  <2>4. CASE t # s
    BY <1>4, <1>5, <1>6, <1>7, <2>1, <2>4
  <2> QED BY <2>2, <2>3, <2>4
<1>12. TicketsFollowRequest'
  <2> SUFFICES ASSUME NEW t \in Senders,
                      NEW i \in Complete(t), NEW j \in Complete(t),
                      i < j, j < next'[t]
               PROVE  ticket'[Request[t][i]] < ticket'[Request[t][j]]
    BY DEF TicketsFollowRequest, Complete, Incomplete
  <2> i \in 1..Len(Request[t]) /\ j \in 1..Len(Request[t])
    BY DEF Complete
  <2>1. CASE t = s /\ j = next[s]
    BY <1>1, <1>3, <1>4, <1>5, <1>6, <1>7, <2>1
  <2>2. CASE ~(t = s /\ j = next[s])
    <3>1. j < next[t] /\ i < next[t]
      BY <1>1, <1>3, <1>7, <2>2
    <3>2. Request[t][i] # m /\ Request[t][j] # m
      BY <1>1, <1>5, <3>1
    <3> QED BY <1>4, <1>6, <3>1, <3>2 DEF IInv, TicketsFollowRequest
  <2> QED BY <2>1, <2>2
<1>13. StorageFollowsTickets'
  <2>1. \A i \in 1..Len(storage) : ticket'[storage'[i]] = ticket[storage[i]]
    BY <1>2, <1>6, <1>8
  <2>2. ticket'[storage'[Len(storage) + 1]] = count + 1
    BY <1>1, <1>2, <1>6
  <2>3. \A i \in 1..Len(storage) : ticket[storage[i]] \in 0..count
    BY <1>6, <1>8
  <2>4. \A i \in 1..Len(storage') : ticket'[storage'[i]] > 0
    <3>1. \A i \in 1..Len(storage) : ticket[storage[i]] > 0
      BY DEF IInv, StorageFollowsTickets
    <3> QED BY <1>2, <1>6, <1>8, <2>1, <2>2, <3>1
  <2>5. ASSUME NEW i \in 1..Len(storage'), NEW j \in 1..Len(storage'), i < j
        PROVE  ticket'[storage'[i]] < ticket'[storage'[j]]
    <3>1. CASE j = Len(storage) + 1
      BY <1>2, <1>6, <1>8, <2>1, <2>2, <2>3, <2>5, <3>1
    <3>2. CASE j \in 1..Len(storage)
      BY <1>2, <1>8, <2>1, <2>5, <3>2 DEF IInv, StorageFollowsTickets
    <3> QED BY <1>2, <1>8, <3>1, <3>2
  <2> QED BY <2>4, <2>5 DEF StorageFollowsTickets
<1>14. RequestOrderKept'
  <2>1. \A t \in Senders : \A i \in 1..Len(Request[t]) :
           Taken(Request[t][i])' <=> Taken(Request[t][i])
    BY <1>1, <1>2, <1>4, <1>6 DEF Taken
  <2> QED BY <2>1 DEF IInv, RequestOrderKept, Complete, Incomplete
<1>15. LateIsLast'
  <2> SUFFICES ASSUME NEW t \in Senders, NEW i \in 1..Len(Request[t]),
                      Request[t][i] \in late'
               PROVE  /\ stopped'
                      /\ i < next'[t]
                      /\ spc'[t] # "push"
                      /\ \A j \in Complete(t) : j < next'[t] => j <= i
    BY DEF LateIsLast, Complete, Incomplete
  <2>1. stopped' = stopped /\ spc[s] = "push"
    BY DEF Push
  <2>2. next'[s] = next[s] + 1 /\ spc'[s] # "push"
    BY <1>7 DEF SenderStep, IInv, TypeOK
  <2>3. Complete(t) \subseteq 1..Len(Request[t])
    BY DEF Complete
  <2>4. CASE Request[t][i] \in late
    <3>1. t # s
      BY <2>1, <2>4 DEF IInv, LateIsLast
    <3>2. next'[t] = next[t] /\ spc'[t] = spc[t]
      BY <1>7, <3>1 DEF IInv, TypeOK
    <3> QED BY <2>1, <2>4, <3>2 DEF IInv, LateIsLast
  <2>5. CASE Request[t][i] \notin late
    <3>1. stopped /\ Request[t][i] = m
      BY <2>5 DEF Push, m
    <3>2. t = s /\ i = next[s]
      BY <1>5, <3>1
    <3> QED BY <1>1, <1>3, <2>1, <2>2, <2>3, <3>1, <3>2
  <2> QED BY <2>4, <2>5
<1> QED BY <1>9, <1>10, <1>11, <1>12, <1>13, <1>14, <1>15 DEF IInv

(* Dequeue keeps the invariant: only the oldest message of a workchain     *)
(* leaves, so no record is taken before an earlier one of its request.     *)
LEMMA DequeueKeepsIInv ==
    ASSUME IInv, Dequeue
    PROVE  IInv'
<1> PICK i \in Oldest(Collating) : storage' = RemoveAt(storage, i)
  BY DEF Dequeue, Removed
<1>1. /\ i \in 1..Len(storage)
      /\ \A j \in 1..Len(storage) :
            WorkchainOf[storage[j]] = WorkchainOf[storage[i]] => i <= j
  BY DEF Oldest, Addressed
<1>2. /\ storage' \in Seq(Messages)
      /\ Len(storage') = Len(storage) - 1
      /\ \A j \in 1..Len(storage') :
            storage'[j] = IF j < i THEN storage[j] ELSE storage[j + 1]
      /\ \A k : Queued(k)' <=> Queued(k) /\ k # storage[i]
  BY <1>1, StorageRemoved
<1>3. UNCHANGED <<stopped, spc, next, failures, cpc, ticket, count, missed, late>>
  BY DEF Dequeue, senderVars, history
<1>4. Len(storage) \in Nat /\ \A j \in 1..Len(storage) : storage[j] \in Messages
  BY ElementOfSeq, LenProperties DEF IInv, TypeOK
<1>5. TypeOK'
  <2>1. Len(storage') <= Capacity
    BY <1>2, <1>4, CapacityAssumption DEF IInv, TypeOK
  <2>2. epc' \in EngineSteps /\ progress' \in BOOLEAN
    BY DEF Dequeue, EngineSteps
  <2> QED BY <1>2, <1>3, <2>1, <2>2 DEF IInv, TypeOK
<1>6. /\ NextMatchesStep' /\ PassedAreParsable' /\ AcceptedPrefix'
      /\ TicketsFollowRequest' /\ LateIsLast'
  BY <1>3 DEF IInv, NextMatchesStep, StepMatches, PassedAreParsable, AcceptedPrefix,
              TicketsFollowRequest, LateIsLast, Unparsable, Incomplete, Complete
<1>7. StorageFollowsTickets'
  <2> DEFINE old(j) == IF j < i THEN j ELSE j + 1
  <2>1. \A j \in 1..Len(storage') :
           old(j) \in 1..Len(storage) /\ storage'[j] = storage[old(j)]
    BY <1>1, <1>2, <1>4
  <2>2. \A j, l \in 1..Len(storage') : j < l => old(j) < old(l)
    BY <1>1, <1>2, <1>4
  <2> HIDE DEF old
  <2> QED BY <1>3, <2>1, <2>2 DEF IInv, StorageFollowsTickets
<1>8. RequestOrderKept'
  <2> SUFFICES ASSUME NEW s \in Senders,
                      NEW a \in Complete(s), NEW b \in Complete(s),
                      a < b,
                      WorkchainOf[Request[s][a]] = WorkchainOf[Request[s][b]],
                      Taken(Request[s][b])'
               PROVE  Taken(Request[s][a])'
    BY <1>3 DEF RequestOrderKept, Complete, Incomplete
  <2> a \in 1..Len(Request[s]) /\ b \in 1..Len(Request[s]) /\ ~Incomplete(s, a)
    BY DEF Complete
  <2>1. Len(Request[s]) \in Nat /\ Request[s][a] \in Messages /\ Request[s][b] \in Messages
    BY RequestAssumption, ElementOfSeq, LenProperties
  <2>2. ticket[Request[s][b]] > 0 /\ b < next[s]
    BY <1>3 DEF Taken, IInv, AcceptedPrefix
  <2>3. a < next[s] /\ ticket[Request[s][a]] > 0
    BY <2>1, <2>2 DEF IInv, TypeOK, AcceptedPrefix
  <2>4. CASE Taken(Request[s][b])
    <3>1. Taken(Request[s][a])
      BY <2>4 DEF IInv, RequestOrderKept
    <3> QED BY <1>2, <1>3, <2>3, <3>1 DEF Taken
  <2>5. CASE ~Taken(Request[s][b])
    <3>1. Request[s][b] = storage[i]
      BY <1>2, <1>3, <2>2, <2>5 DEF Taken
    <3>2. ticket[Request[s][a]] < ticket[storage[i]]
      BY <2>2, <3>1 DEF IInv, TicketsFollowRequest
    <3>3. ~Queued(Request[s][a])
      <4> SUFFICES ASSUME NEW j \in 1..Len(storage), storage[j] = Request[s][a]
                   PROVE  FALSE
        BY DEF Queued
      <4>1. i <= j
        BY <1>1, <3>1
      <4>2. i # j => ticket[storage[i]] < ticket[storage[j]]
        BY <1>1, <1>4, <4>1 DEF IInv, StorageFollowsTickets
      <4>3. ticket[storage[i]] \in Nat /\ ticket[storage[j]] \in Nat
        <5>1. ticket \in [Messages -> 0..count] /\ count \in Nat
          BY DEF IInv, TypeOK
        <5>2. storage[i] \in Messages /\ storage[j] \in Messages
          BY <1>1, <1>4
        <5> QED BY <5>1, <5>2
      <4> QED BY <3>2, <4>2, <4>3
    <3> QED BY <1>2, <1>3, <2>3, <3>3 DEF Taken
  <2> QED BY <2>4, <2>5
<1> QED BY <1>5, <1>6, <1>7, <1>8 DEF IInv

(* A step that leaves the queue and the requests' progress alone.          *)
LEMMA OtherStepKeepsIInv ==
    ASSUME IInv, TypeOK', NextMatchesStep', LateIsLast',
           UNCHANGED <<storage, next, ticket>>
    PROVE  IInv'
BY DEF IInv, PassedAreParsable, AcceptedPrefix, TicketsFollowRequest,
       StorageFollowsTickets, RequestOrderKept, Taken, Queued, Unparsable,
       Incomplete, Complete

(* Nor does it disturb what is known of the late records, if no thread     *)
(* that posted one gets to push and the flag is not given back.            *)
LEMMA LateStaysLast ==
    ASSUME IInv, UNCHANGED <<next, late>>, stopped => stopped',
           \A s \in Senders : spc'[s] = "push" => spc[s] = "push" \/ ~stopped
    PROVE  LateIsLast'
BY DEF IInv, LateIsLast, Complete, Incomplete

(* Passing over a record keeps the invariant: the record is not one that   *)
(* counts.                                                                 *)
LEMMA SkipKeepsIInv ==
    ASSUME IInv, NEW s \in Senders, SkipRecord(s)
    PROVE  IInv'
<1>1. /\ UNCHANGED <<storage, stopped, epc, progress, failures, cpc, ticket, count, missed, late>>
      /\ spc[s] = "skip"
      /\ next \in [Senders -> Nat]
      /\ next' = [next EXCEPT ![s] = @ + 1]
      /\ spc' = [spc EXCEPT ![s] = SenderStep(s, next[s] + 1)]
  BY DEF SkipRecord, engineVars, history, IInv, TypeOK
<1>2. \A t \in Senders : Len(Request[t]) \in Nat
  BY RequestAssumption, LenProperties
<1>3. next[s] \in 1..Len(Request[s]) /\ Incomplete(s, next[s])
  <2>1. StepMatches("skip", s, next[s])
    BY <1>1 DEF IInv, NextMatchesStep
  <2>2. next[s] \in 1..Len(Request[s]) + 1
    BY DEF IInv, TypeOK
  <2> QED BY <1>2, <2>1, <2>2 DEF StepMatches
<1>4. ASSUME NEW t \in Senders, t # s
      PROVE  next'[t] = next[t] /\ spc'[t] = spc[t]
  BY <1>1, <1>4 DEF IInv, TypeOK
<1>5. next'[s] = next[s] + 1 /\ spc'[s] = SenderStep(s, next'[s])
  BY <1>1 DEF IInv, TypeOK
<1>6. TypeOK'
  <2>1. spc' \in [Senders -> SenderSteps]
    BY <1>1 DEF IInv, TypeOK, SenderStep, SenderSteps
  <2>2. next' \in [Senders -> Nat] /\ \A t \in Senders : next'[t] \in 1..Len(Request[t]) + 1
    BY <1>1, <1>2, <1>3 DEF IInv, TypeOK
  <2> QED BY <1>1, <2>1, <2>2 DEF IInv, TypeOK
<1>7. NextMatchesStep'
  <2> SUFFICES ASSUME NEW t \in Senders
               PROVE  StepMatches(spc'[t], t, next'[t])
    BY DEF NextMatchesStep, StepMatches, Unparsable, Incomplete
  <2>1. CASE t = s
    <3>1. StepMatches(SenderStep(s, next[s] + 1), s, next[s] + 1)
      BY <1>2, <1>3, StartMatches
    <3> QED BY <1>5, <2>1, <3>1, Zenon
  <2>2. CASE t # s
    <3>1. StepMatches(spc[t], t, next[t])
      BY DEF IInv, NextMatchesStep
    <3> QED BY <1>4, <2>2, <3>1, Zenon
  <2> QED BY <2>1, <2>2
<1>8. \A t \in Senders : \A i \in 1..Len(Request[t]) :
         ~Incomplete(t, i) => (i < next'[t] <=> i < next[t])
  BY <1>2, <1>3, <1>4, <1>5
<1>9. PassedAreParsable'
  BY <1>8 DEF IInv, PassedAreParsable, Unparsable, Incomplete
<1>10. AcceptedPrefix'
  BY <1>1, <1>8 DEF IInv, AcceptedPrefix, Incomplete
<1>11. TicketsFollowRequest'
  BY <1>1, <1>8 DEF IInv, TicketsFollowRequest, Complete, Incomplete
<1>12. LateIsLast'
  <2> SUFFICES ASSUME NEW t \in Senders, NEW i \in 1..Len(Request[t]),
                      Request[t][i] \in late
               PROVE  /\ stopped
                      /\ i < next'[t]
                      /\ spc'[t] # "push"
                      /\ \A j \in Complete(t) : j < next'[t] => j <= i
    BY <1>1 DEF LateIsLast, Complete, Incomplete
  <2>1. /\ stopped /\ i < next[t] /\ spc[t] # "push"
        /\ \A j \in Complete(t) : j < next[t] => j <= i
    BY DEF IInv, LateIsLast
  <2>2. spc'[t] # "push"
    BY <1>4, <1>5, <2>1 DEF SenderStep
  <2>3. i < next'[t]
    BY <1>1, <1>2, <1>3, <1>4, <1>5, <2>1
  <2>4. \A j \in Complete(t) : j < next'[t] => j < next[t]
    BY <1>8 DEF Complete
  <2> QED BY <2>1, <2>2, <2>3, <2>4
<1>13. StorageFollowsTickets' /\ RequestOrderKept'
  BY <1>1 DEF IInv, StorageFollowsTickets, RequestOrderKept, Taken, Queued, Complete, Incomplete
<1> QED BY <1>6, <1>7, <1>9, <1>10, <1>11, <1>12, <1>13 DEF IInv

LEMMA NextKeepsIInv == IInv /\ [Next]_vars => IInv'
<1> SUFFICES ASSUME IInv, [Next]_vars PROVE IInv'
  OBVIOUS
<1> USE DEF senderVars, engineVars, history
<1>1. ASSUME NEW s \in Senders, GetNode(s) \/ CheckStopped(s) \/ RejectFull(s)
      PROVE  IInv'
  <2>1. /\ UNCHANGED <<storage, stopped, next, epc, progress, failures, cpc,
                       ticket, count, missed, late>>
        /\ spc[s] \in {"node", "check", "push"}
        /\ \E to \in {"node", "check", "push", "refused"} :
              spc' = [spc EXCEPT ![s] = to] /\ (to = "push" => ~stopped)
    BY <1>1 DEF GetNode, CheckStopped, RejectFull
  <2>2. TypeOK'
    BY <2>1 DEF IInv, TypeOK, SenderSteps
  <2>3. NextMatchesStep'
    BY <2>1 DEF IInv, TypeOK, NextMatchesStep, StepMatches, Unparsable, Incomplete
  <2>4. LateIsLast'
    <3>1. \A t \in Senders : spc'[t] = "push" => spc[t] = "push" \/ ~stopped
      BY <2>1 DEF IInv, TypeOK
    <3> QED BY <2>1, <3>1, LateStaysLast
  <2> QED BY <2>1, <2>2, <2>3, <2>4, OtherStepKeepsIInv
<1>2. ASSUME NEW s \in Senders, Push(s)
      PROVE  IInv'
  BY <1>2, PushKeepsIInv
<1>3. CASE Dequeue
  BY <1>3, DequeueKeepsIInv
<1>4. CASE DequeueNone \/ FailGeneration \/ LookEmpty \/ EnterWait \/ Park \/ WakeUp
  <2>1. UNCHANGED <<storage, stopped, spc, next, cpc, ticket, count, missed, late>>
    BY <1>4 DEF DequeueNone, FailGeneration, LookEmpty, EnterWait, Park, WakeUp
  <2>2. epc' \in EngineSteps /\ progress' \in BOOLEAN
    BY <1>4 DEF DequeueNone, FailGeneration, LookEmpty, EnterWait, Park, WakeUp, AfterWait,
                EngineSteps, IInv, TypeOK
  <2>3. failures' \in 0..MaxFailures
    BY <1>4, BoundsAssumption
       DEF DequeueNone, FailGeneration, LookEmpty, EnterWait, Park, WakeUp, IInv, TypeOK
  <2>4. TypeOK'
    BY <2>1, <2>2, <2>3 DEF IInv, TypeOK
  <2>5. NextMatchesStep'
    BY <2>1 DEF IInv, NextMatchesStep, StepMatches, Unparsable, Incomplete
  <2> QED BY <2>1, <2>4, <2>5, LateStaysLast, OtherStepKeepsIInv
<1>5. CASE Control
  <2>1. UNCHANGED <<storage, spc, next, progress, failures, ticket, count, missed, late>>
    BY <1>5 DEF Control, SetStopped, NotifyStopped, Join
  <2>2. stopped' \in BOOLEAN /\ epc' \in EngineSteps /\ cpc' \in ControlSteps
    BY <1>5 DEF Control, SetStopped, NotifyStopped, Join, Notified,
                EngineSteps, ControlSteps, IInv, TypeOK
  <2>3. TypeOK'
    BY <2>1, <2>2 DEF IInv, TypeOK
  <2>4. NextMatchesStep'
    BY <2>1 DEF IInv, NextMatchesStep, StepMatches, Unparsable, Incomplete
  <2>5. stopped => stopped'
    BY <1>5 DEF Control, SetStopped, NotifyStopped, Join
  <2> QED BY <2>1, <2>3, <2>4, <2>5, LateStaysLast, OtherStepKeepsIInv
<1>6. CASE UNCHANGED vars
  <2>1. UNCHANGED <<storage, stopped, spc, next, epc, progress, failures, cpc, ticket, count, missed, late>>
    BY <1>6 DEF vars
  <2>2. TypeOK'
    BY <2>1 DEF IInv, TypeOK
  <2>3. NextMatchesStep'
    BY <2>1 DEF IInv, NextMatchesStep, StepMatches, Unparsable, Incomplete
  <2> QED BY <2>1, <2>2, <2>3, LateStaysLast, OtherStepKeepsIInv
<1>7. ASSUME NEW s \in Senders, SkipRecord(s)
      PROVE  IInv'
  BY <1>7, SkipKeepsIInv
<1> QED BY <1>1, <1>2, <1>3, <1>4, <1>5, <1>6, <1>7 DEF Next, Sender, Engine

(* The queue's variables keep their types and the queue its capacity.      *)
THEOREM TypeCorrect == Spec => []TypeOK
<1>1. IInv => TypeOK
  BY DEF IInv
<1> QED BY InitIInv, NextKeepsIInv, <1>1, PTL DEF Spec

(* An OK answer means that all the records of the request that have a key *)
(* and a value were accepted, and none but the last after the stop flag    *)
(* was set.                                                                *)
THEOREM OkIsAccepted == Spec => []OkMeansAccepted
<1>1. IInv => OkMeansAccepted
  <2> SUFFICES ASSUME IInv, NEW s \in Senders, spc[s] = "ok", NEW i \in Complete(s)
               PROVE  /\ ticket[Request[s][i]] > 0
                      /\ Request[s][i] \in late => \A j \in Complete(s) : j <= i
    BY DEF OkMeansAccepted
  <2>1. Len(Request[s]) \in Nat /\ next[s] = Len(Request[s]) + 1
    BY RequestAssumption, LenProperties DEF IInv, NextMatchesStep, StepMatches
  <2>2. \A j \in Complete(s) : j \in 1..Len(Request[s]) /\ j < next[s] /\ ~Incomplete(s, j)
    BY <2>1 DEF Complete
  <2>3. ticket[Request[s][i]] > 0
    BY <2>2 DEF IInv, AcceptedPrefix
  <2>4. Request[s][i] \in late => \A j \in Complete(s) : j <= i
    BY <2>2 DEF IInv, LateIsLast
  <2> QED BY <2>3, <2>4
<1> QED BY InitIInv, NextKeepsIInv, <1>1, PTL DEF Spec

(* A parse error means that the records with a key and a value before the  *)
(* unparsable one, and none behind, were accepted.                         *)
THEOREM BadRequestIsPrefix == Spec => []BadRequestAcceptsPrefix
<1>1. IInv => BadRequestAcceptsPrefix
  <2> SUFFICES ASSUME IInv, NEW s \in Senders
               PROVE  /\ spc[s] = "bad request" =>
                            \E n \in 1..Len(Request[s]) :
                               /\ Unparsable(s, n)
                               /\ \A i \in Complete(s) : i < n => ticket[Request[s][i]] > 0
                      /\ \A n \in 1..Len(Request[s]) : Unparsable(s, n) =>
                            \A i \in n..Len(Request[s]) : ticket[Request[s][i]] = 0
    BY DEF BadRequestAcceptsPrefix
  <2>1. Len(Request[s]) \in Nat /\ next[s] \in 1..Len(Request[s]) + 1
    BY RequestAssumption, LenProperties DEF IInv, TypeOK
  <2>2. \A i \in 1..Len(Request[s]) :
           ticket[Request[s][i]] > 0 <=> i < next[s] /\ ~Incomplete(s, i)
    BY DEF IInv, AcceptedPrefix
  <2>3. ASSUME spc[s] = "bad request"
        PROVE  \E n \in 1..Len(Request[s]) :
                  /\ Unparsable(s, n)
                  /\ \A i \in Complete(s) : i < n => ticket[Request[s][i]] > 0
    <3>1. next[s] <= Len(Request[s]) /\ Unparsable(s, next[s])
      BY <2>3 DEF IInv, NextMatchesStep, StepMatches
    <3>2. next[s] \in 1..Len(Request[s])
      BY <2>1, <3>1
    <3>3. \A i \in Complete(s) : i < next[s] => ticket[Request[s][i]] > 0
      BY <2>2 DEF Complete
    <3> QED BY <3>1, <3>2, <3>3
  <2>4. ASSUME NEW n \in 1..Len(Request[s]), Unparsable(s, n),
               NEW i \in n..Len(Request[s])
        PROVE  ticket[Request[s][i]] = 0
    <3>1. n >= next[s]
      BY <2>1, <2>4 DEF IInv, PassedAreParsable
    <3>2. i \in 1..Len(Request[s]) /\ ~(i < next[s])
      BY <2>1, <3>1
    <3>3. Request[s][i] \in Messages
      BY <3>2, RequestAssumption, ElementOfSeq
    <3>4. ticket[Request[s][i]] \in Nat
      BY <3>3 DEF IInv, TypeOK
    <3> QED BY <2>2, <3>2, <3>4
  <2> QED BY <2>3, <2>4
<1> QED BY InitIInv, NextKeepsIInv, <1>1, PTL DEF Spec

(* Records of one request for one workchain are taken in their order.      *)
THEOREM RequestOrder == Spec => []RequestOrderKept
<1>1. IInv => RequestOrderKept
  BY DEF IInv
<1> QED BY InitIInv, NextKeepsIInv, <1>1, PTL DEF Spec

-----------------------------------------------------------------------------
(* The refinement.                                                         *)

(* A step that leaves the storage and the tickets alone is a stutter.      *)
LEMMA OtherStepIsStutter ==
    ASSUME UNCHANGED <<storage, ticket, count>>
    PROVE  UNCHANGED Box!boxVars
BY DEF Box!boxVars, Queued

(* Every step of the queue is a step of the mailbox or none.               *)
LEMMA StepIsBoxStep == IInv /\ [Next]_vars => [Box!BoxNext]_(Box!boxVars)
<1> SUFFICES ASSUME IInv, [Next]_vars PROVE [Box!BoxNext]_(Box!boxVars)
  OBVIOUS
<1> DEFINE queued == {m \in Messages : Queued(m)}
<1>1. ASSUME NEW s \in Senders, Push(s)
      PROVE  Box!BoxNext
  <2>1. /\ Message(s) \in Messages
        /\ ticket[Message(s)] = 0
    BY <1>1, PostedIsNew DEF Push
  <2>2. \A k : Queued(k)' <=> Queued(k) \/ k = Message(s)
    BY <1>1, <2>1, StorageAppended DEF IInv, Push
  <2>3. queued' = queued \union {Message(s)}
    BY <2>1, <2>2
  <2>4. Box!Accept(Message(s))
    BY <1>1, <2>1, <2>3 DEF Box!Accept, Push
  <2> QED BY <2>1, <2>4 DEF Box!BoxNext
<1>2. CASE Dequeue
  <2> PICK i \in Oldest(Collating) : storage' = RemoveAt(storage, i)
    BY <1>2 DEF Dequeue, Removed
  <2>1. /\ i \in 1..Len(storage)
        /\ \A j \in 1..Len(storage) :
              WorkchainOf[storage[j]] = WorkchainOf[storage[i]] => i <= j
    BY DEF Oldest, Addressed
  <2>2. Len(storage) \in Nat /\ \A j \in 1..Len(storage) : storage[j] \in Messages
    BY ElementOfSeq, LenProperties DEF IInv, TypeOK
  <2>3. \A k : Queued(k)' <=> Queued(k) /\ k # storage[i]
    BY <2>1, StorageRemoved
  <2>4. storage[i] \in queued /\ queued' = queued \ {storage[i]}
    BY <2>1, <2>2, <2>3 DEF Queued
  <2>5. ASSUME NEW k \in queued, WorkchainOf[k] = WorkchainOf[storage[i]]
        PROVE  ticket[storage[i]] <= ticket[k]
    <3> PICK j \in 1..Len(storage) : storage[j] = k
      BY DEF Queued
    <3>1. i <= j
      BY <2>1, <2>5
    <3>2. i # j => ticket[storage[i]] < ticket[storage[j]]
      BY <2>1, <2>2, <3>1 DEF IInv, StorageFollowsTickets
    <3>3. ticket[storage[i]] \in Nat /\ ticket[storage[j]] \in Nat
      BY <2>1, <2>2 DEF IInv, TypeOK
    <3> QED BY <3>2, <3>3
  <2>6. UNCHANGED <<ticket, count>>
    BY <1>2 DEF Dequeue, history
  <2>7. Box!Take(storage[i])
    BY <2>4, <2>5, <2>6 DEF Box!Take
  <2> QED BY <2>1, <2>2, <2>7 DEF Box!BoxNext
<1>3. CASE \/ \E s \in Senders : SkipRecord(s) \/ GetNode(s) \/ CheckStopped(s) \/ RejectFull(s)
           \/ DequeueNone \/ FailGeneration \/ LookEmpty \/ EnterWait \/ Park \/ WakeUp
           \/ Control
           \/ UNCHANGED vars
  <2>1. UNCHANGED <<storage, ticket, count>>
    BY <1>3 DEF SkipRecord, GetNode, CheckStopped, RejectFull,
                DequeueNone, FailGeneration, LookEmpty, EnterWait, Park, WakeUp, Control, SetStopped, NotifyStopped, Join,
                vars, senderVars, engineVars, history
  <2> QED BY <2>1, OtherStepIsStutter
<1> QED BY <1>1, <1>2, <1>3 DEF Next, Sender, Engine

(* The queue with its threads implements the mailbox.                      *)
THEOREM QueueImplementsInbox == Spec => ImplementsInbox
<1>1. Init => Box!BoxInit
  BY DEF Init, Box!BoxInit, Queued
<1> QED
  BY InitIInv, NextKeepsIInv, StepIsBoxStep, <1>1, PTL DEF Spec, ImplementsInbox, Box!BoxSpec
=============================================================================
