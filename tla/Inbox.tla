---- MODULE Inbox ----
(***************************************************************************)
(* What the inbound message queue promises: a mailbox that several senders *)
(* put messages into, that gives every accepted message to at most one     *)
(* reader, and that is first-in first-out within each workchain (messages  *)
(* of different workchains may overtake each other).                       *)
(***************************************************************************)
EXTENDS Naturals

CONSTANTS Messages,      \* the messages ever posted
          WorkchainOf    \* the workchain a message is addressed to

VARIABLES waiting,       \* accepted and not taken yet
          ticket,        \* 0 until a message is accepted, then its arrival number
          count          \* how many messages have been accepted

boxVars == <<waiting, ticket, count>>

Accepted(m) == ticket[m] > 0

Taken(m) == Accepted(m) /\ m \notin waiting

BoxInit ==
    /\ waiting = {}
    /\ ticket = [m \in Messages |-> 0]
    /\ count = 0

(* A message is accepted once, and behind all that were accepted before.   *)
Accept(m) ==
    /\ ticket[m] = 0
    /\ count' = count + 1
    /\ ticket' = [ticket EXCEPT ![m] = count + 1]
    /\ waiting' = waiting \union {m}

(* Only the oldest waiting message of its workchain can be taken.          *)
Take(m) ==
    /\ m \in waiting
    /\ \A k \in waiting : WorkchainOf[k] = WorkchainOf[m] => ticket[m] <= ticket[k]
    /\ waiting' = waiting \ {m}
    /\ UNCHANGED <<ticket, count>>

BoxNext == \E m \in Messages : Accept(m) \/ Take(m)

BoxSpec == BoxInit /\ [][BoxNext]_boxVars
====
