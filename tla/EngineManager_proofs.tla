------------------------ MODULE EngineManager_proofs ------------------------
(***************************************************************************)
(* Proofs about EngineManager, for any number of clients, requests,        *)
(* failures and crashes: type correctness, one running engine on chains of *)
(* one generation, no engine that accepts messages and is not run, and     *)
(* what the answer OK means.                                               *)
(***************************************************************************)
EXTENDS EngineManager, SequenceTheorems, TLAPS

(* A process that is down has no thread and no request; what a client owns *)
(* exists; and the manager has no thread while one is waited for.          *)
Owned ==
    /\ ~Up => threads = <<>> /\ \A c \in Clients : step[c] = "idle"
    /\ \A c \in Clients : step[c] = "join" => own[c] \in 0..Len(threads)
    /\ \A c \in Clients : step[c] = "assign" => own[c] \in 1..Len(engines)
    /\ lock # None => manager.thread = None

TInv == TypeOK /\ Owned

(* Unless requests raced, one of them at most is past its stop, and then   *)
(* no thread lives; otherwise the only one is the manager's or the one     *)
(* that is waited for.                                                     *)
Alone ==
    ~raced =>
        /\ \A c, d \in Clients : step[c] \in PastStop /\ step[d] \in PastStop => c = d
        /\ \A t \in Live : t = manager.thread \/ \E c \in Clients : step[c] = "join" /\ own[c] = t
        /\ \A t \in Live : threads[t].engine = manager.engine
        /\ \A c \in Clients : step[c] \in PastStop => Live = {}
        /\ \A c \in Clients : step[c] = "assign" => own[c] # manager.engine

Current(e) == \A c \in Chains : engines[e].chain[c] = generation

(* Files and engines are of the last generation, but for the files of the  *)
(* masterchain while they are the next to be cleared.                      *)
Generations ==
    ~raced =>
        /\ \A k \in Clients : step[k] = "clear masterchain" => files["workchain"] = None
        /\ ~cut =>
              /\ files["workchain"] \in {None, generation}
              /\ \/ files["masterchain"] \in {None, generation}
                 \/ \E k \in Clients : step[k] = "clear masterchain"
              /\ \A t \in Live : Current(threads[t].engine)
              /\ \A k \in Clients : step[k] = "assign" => Current(own[k])
              /\ \A k \in Clients : step[k] = "start" => Current(manager.engine)

(* Engine e is what the command of client c asks for.                      *)
AsAsked(e, c) ==
    /\ engines[e].stopped = FALSE
    /\ engines[e].config = ConfigFor(command[c])
    /\ command[c].reset => \A d \in Chains : engines[e].chain[d] > since[c]

(* How far a command was carried out at each step.                         *)
Promise ==
    ~raced => \A c \in Clients :
        /\ step[c] = "clear masterchain" => generation > since[c]
        /\ step[c] = "create" /\ command[c].reset =>
              generation > since[c] /\ \A d \in Chains : files[d] = None
        /\ step[c] = "assign" => AsAsked(own[c], c)
        /\ step[c] = "start" /\ lock = None => AsAsked(manager.engine, c)

-----------------------------------------------------------------------------
(* Types                                                                   *)

(* What the types say of the sequences, of the lock and of its holder.     *)
LEMMA Typed ==
    ASSUME TypeOK
    PROVE  /\ Len(engines) \in Nat /\ DOMAIN engines = 1..Len(engines)
           /\ \A e \in 1..Len(engines) : engines[e] \in Engine
           /\ Len(threads) \in Nat /\ DOMAIN threads = 1..Len(threads)
           /\ \A t \in 1..Len(threads) :
                 /\ threads[t] \in [engine : 1..Len(engines), state : ThreadStates]
                 /\ threads[t].engine \in 1..Len(engines)
                 /\ threads[t].state \in ThreadStates
           /\ manager.engine \in 0..Len(engines) /\ manager.thread \in 0..Len(threads)
           /\ \A c \in Clients : step[c] = "join" <=> lock = c
           /\ None \notin Clients
<1>1. /\ engines \in Seq(Engine)
      /\ threads \in Seq([engine : DOMAIN engines, state : ThreadStates])
  BY DEF TypeOK
<1>2. /\ Len(engines) \in Nat /\ DOMAIN engines = 1..Len(engines)
      /\ Len(threads) \in Nat /\ DOMAIN threads = 1..Len(threads)
  BY <1>1, LenProperties
<1>3. \A e \in 1..Len(engines) : engines[e] \in Engine
  BY <1>1, ElementOfSeq
<1>4. \A t \in 1..Len(threads) :
         threads[t] \in [engine : 1..Len(engines), state : ThreadStates]
  BY <1>1, <1>2, ElementOfSeq
<1> QED BY <1>2, <1>3, <1>4, ManagerBounds DEF TypeOK

(* A chain without files begins with the generation of the files.          *)
LEMMA EngineTyped ==
    ASSUME TypeOK, NEW config \in {"own", "fork"}
    PROVE  /\ EngineWith(config) \in Engine
           /\ EngineWith(config).config = config
           /\ EngineWith(config).stopped = FALSE
           /\ \A c \in Chains : EngineWith(config).chain[c] = Loaded(c)
  BY DEF TypeOK, EngineWith, Engine, Loaded, None

(* An engine more, or a thread more.                                       *)
LEMMA EngineAppended ==
    ASSUME TypeOK, NEW e \in Engine, engines' = Append(engines, e)
    PROVE  /\ engines' \in Seq(Engine)
           /\ Len(engines') = Len(engines) + 1
           /\ \A i \in 1..Len(engines) : engines'[i] = engines[i]
           /\ engines'[Len(engines) + 1] = e
           /\ threads \in Seq([engine : DOMAIN engines', state : ThreadStates])
<1>1. engines \in Seq(Engine)
  BY DEF TypeOK
<1>2. /\ engines' \in Seq(Engine)
      /\ Len(engines') = Len(engines) + 1
      /\ \A i \in 1..Len(engines) : engines'[i] = engines[i]
      /\ engines'[Len(engines) + 1] = e
  BY <1>1, AppendProperties
<1>3. DOMAIN engines \subseteq DOMAIN engines'
  BY <1>1, <1>2, LenProperties
<1>4. threads \in Seq([engine : DOMAIN engines', state : ThreadStates])
  <2> DEFINE S == [engine : DOMAIN engines, state : ThreadStates]
             T == [engine : DOMAIN engines', state : ThreadStates]
  <2>1. S \subseteq T
    BY <1>3
  <2>2. threads \in Seq(S)
    BY DEF TypeOK
  <2> HIDE DEF S, T
  <2>3. threads \in Seq(T)
    BY <2>1, <2>2, SeqMonotonic
  <2> QED BY <2>3 DEF T
<1> QED BY <1>2, <1>4

LEMMA ThreadAppended ==
    ASSUME TypeOK, NEW e \in 1..Len(engines),
           threads' = Append(threads, [engine |-> e, state |-> "runs"])
    PROVE  /\ threads' \in Seq([engine : DOMAIN engines, state : ThreadStates])
           /\ Len(threads') = Len(threads) + 1
           /\ \A i \in 1..Len(threads) : threads'[i] = threads[i]
           /\ threads'[Len(threads) + 1] = [engine |-> e, state |-> "runs"]
<1> DEFINE S == [engine : DOMAIN engines, state : ThreadStates]
<1>1. threads \in Seq(S)
  BY DEF TypeOK
<1>2. [engine |-> e, state |-> "runs"] \in S
  BY Typed DEF ThreadStates
<1> HIDE DEF S
<1>3. /\ threads' \in Seq(S)
      /\ Len(threads') = Len(threads) + 1
      /\ \A i \in 1..Len(threads) : threads'[i] = threads[i]
      /\ threads'[Len(threads) + 1] = [engine |-> e, state |-> "runs"]
  BY <1>1, <1>2, AppendProperties
<1> QED BY <1>3 DEF S

(* An engine changed in place.                                             *)
LEMMA EngineChanged ==
    ASSUME TypeOK, NEW i \in 1..Len(engines), NEW e \in Engine,
           engines' = [engines EXCEPT ![i] = e]
    PROVE  /\ engines' \in Seq(Engine)
           /\ Len(engines') = Len(engines) /\ DOMAIN engines' = DOMAIN engines
           /\ engines'[i] = e
           /\ \A j \in 1..Len(engines) : j # i => engines'[j] = engines[j]
<1>1. engines \in Seq(Engine)
  BY DEF TypeOK
<1> QED BY <1>1, ExceptSeq, LenProperties

(* The state of a thread changed.                                          *)
LEMMA ThreadChanged ==
    ASSUME TypeOK, NEW t \in DOMAIN threads, NEW s \in {"busy", "parked", "ended"},
           threads' = [threads EXCEPT ![t].state = s]
    PROVE  /\ threads' \in Seq([engine : DOMAIN engines, state : ThreadStates])
           /\ Len(threads') = Len(threads) /\ DOMAIN threads' = DOMAIN threads
           /\ threads'[t].engine = threads[t].engine /\ threads'[t].state = s
           /\ \A j \in 1..Len(threads) : j # t => threads'[j] = threads[j]
           /\ \A j \in 1..Len(threads) : threads'[j].engine = threads[j].engine
<1> DEFINE S == [engine : DOMAIN engines, state : ThreadStates]
           e == [threads[t] EXCEPT !.state = s]
<1>1. threads \in Seq(S)
  BY DEF TypeOK
<1>2. t \in 1..Len(threads) /\ threads[t] \in S
  <2> HIDE DEF S
  <2>1. t \in 1..Len(threads)
    BY <1>1, LenProperties
  <2> QED BY <1>1, <2>1, ElementOfSeq
<1>3. e \in S /\ e.engine = threads[t].engine /\ e.state = s
  BY <1>2 DEF ThreadStates
<1>4. threads' = [threads EXCEPT ![t] = e]
  OBVIOUS
<1> HIDE DEF S, e
<1>5. /\ threads' \in Seq(S)
      /\ Len(threads') = Len(threads)
      /\ \A j \in 1..Len(threads) : threads'[j] = IF j = t THEN e ELSE threads[j]
  BY <1>1, <1>2, <1>3, <1>4, ExceptSeq
<1>6. DOMAIN threads' = DOMAIN threads
  BY <1>1, <1>5, LenProperties
<1> QED BY <1>2, <1>3, <1>5, <1>6 DEF S

(* The four parts of the types.                                           *)
ProcessTyped ==
    /\ manager \in [engine : 0..Len(engines), thread : 0..Len(threads)]
    /\ engines \in Seq(Engine)
    /\ threads \in Seq([engine : DOMAIN engines, state : ThreadStates])

ClientsTyped ==
    /\ lock \in Clients \union {None}
    /\ step \in [Clients -> Steps] /\ own \in [Clients -> Nat]
    /\ command \in [Clients -> [fork : BOOLEAN, reset : BOOLEAN]]
    /\ \A c \in Clients : lock = c <=> step[c] = "join"

DiskTyped ==
    /\ files \in [Chains -> 0..generation] /\ generation \in Nat \ {0}
    /\ since \in [Clients -> 0..generation]

CountsTyped ==
    /\ requests \in 0..MaxRequests /\ failures \in 0..MaxFailures /\ crashes \in 0..MaxCrashes
    /\ raced \in BOOLEAN /\ cut \in BOOLEAN

LEMMA TypeParts == TypeOK <=> ProcessTyped /\ ClientsTyped /\ DiskTyped /\ CountsTyped
  BY DEF TypeOK, ProcessTyped, ClientsTyped, DiskTyped, CountsTyped

LEMMA ProcessUnchanged ==
    ASSUME TypeOK, UNCHANGED <<manager, engines, threads>>
    PROVE  ProcessTyped'
  BY DEF TypeOK, ProcessTyped

LEMMA InitTInv == Init => TInv
<1> SUFFICES ASSUME Init PROVE TInv
  OBVIOUS
<1>1. engines \in Seq(Engine) /\ Len(engines) = 0
  BY EmptySeq DEF Init
<1>2. threads \in Seq([engine : DOMAIN engines, state : ThreadStates])
      /\ Len(threads) = 0
  BY EmptySeq DEF Init
<1>3. manager \in [engine : 0..Len(engines), thread : 0..Len(threads)]
  BY <1>1, <1>2 DEF Init, None
<1>4. files \in [Chains -> 0..generation] /\ generation \in Nat \ {0}
  BY DEF Init, None
<1>5. /\ step \in [Clients -> Steps] /\ own \in [Clients -> Nat]
      /\ command \in [Clients -> [fork : BOOLEAN, reset : BOOLEAN]]
      /\ since \in [Clients -> 0..generation]
  BY <1>4 DEF Init, None, Steps, NoCommand
<1>6. TypeOK
  <2>1. ProcessTyped
    BY <1>1, <1>2, <1>3 DEF ProcessTyped
  <2>2. ClientsTyped
    BY <1>5, ManagerBounds DEF Init, ClientsTyped
  <2>3. DiskTyped
    BY <1>4, <1>5 DEF DiskTyped
  <2>4. CountsTyped
    <3>1. requests = 0 /\ failures = 0 /\ crashes = 0 /\ raced = FALSE /\ cut = FALSE
      BY DEF Init
    <3>2. raced \in BOOLEAN /\ cut \in BOOLEAN
      BY <3>1, Zenon
    <3> QED BY <3>1, <3>2, ManagerBounds DEF CountsTyped
  <2> QED BY <2>1, <2>2, <2>3, <2>4, TypeParts
<1>7. Owned
  BY DEF Init, Owned
<1> QED BY <1>6, <1>7 DEF TInv

(* A client goes from one step to another, and the lock stays as it is.    *)
LEMMA ClientMoved ==
    ASSUME TypeOK, NEW c \in Clients, NEW s \in Steps, Goto(c, s),
           step[c] # "join", s # "join", UNCHANGED lock,
           own' \in [Clients -> Nat],
           command' \in [Clients -> [fork : BOOLEAN, reset : BOOLEAN]]
    PROVE  ClientsTyped'
<1>1. step' = [step EXCEPT ![c] = s]
  BY DEF Goto
<1>2. step' \in [Clients -> Steps]
  BY <1>1 DEF TypeOK
<1>3. \A d \in Clients : lock' = d <=> step'[d] = "join"
  BY <1>1 DEF TypeOK
<1> QED BY <1>2, <1>3 DEF TypeOK, ClientsTyped

(* The same when the process stays as it is.                               *)
LEMMA ClientMovedAlone ==
    ASSUME TInv, NEW c \in Clients, NEW s \in Steps, Goto(c, s), Up, UNCHANGED <<process, own>>,
           step[c] # "join", s \notin {"join", "assign"},
           command' \in [Clients -> [fork : BOOLEAN, reset : BOOLEAN]]
    PROVE  ProcessTyped' /\ ClientsTyped' /\ Owned'
<1>1. UNCHANGED <<manager, lock, engines, threads, own>>
  BY DEF process
<1>2. ProcessTyped'
  BY <1>1, ProcessUnchanged DEF TInv
<1>3. ClientsTyped'
  BY <1>1, ClientMoved DEF TInv, TypeOK
<1>4. \A d \in Clients : step'[d] = IF d = c THEN s ELSE step[d]
  BY DEF Goto, TInv, TypeOK
<1>5. Owned'
  BY <1>1, <1>4 DEF TInv, Owned, Up
<1> QED BY <1>2, <1>3, <1>5

LEMMA CommandDropped ==
    ASSUME TypeOK, NEW c \in Clients,
           UNCHANGED command \/ command' = [command EXCEPT ![c] = NoCommand]
    PROVE  command' \in [Clients -> [fork : BOOLEAN, reset : BOOLEAN]]
<1>1. NoCommand \in [fork : BOOLEAN, reset : BOOLEAN]
  BY DEF NoCommand
<1>2. command \in [Clients -> [fork : BOOLEAN, reset : BOOLEAN]]
  BY DEF TypeOK
<1> HIDE DEF NoCommand
<1> QED BY <1>1, <1>2

LEMMA CountsUnchanged ==
    ASSUME TypeOK, UNCHANGED counts, raced' \in BOOLEAN, cut' \in BOOLEAN
    PROVE  CountsTyped'
<1>1. UNCHANGED <<requests, failures, crashes>>
  BY DEF counts
<1>2. requests \in 0..MaxRequests /\ failures \in 0..MaxFailures /\ crashes \in 0..MaxCrashes
  BY DEF TypeOK
<1>3. requests' \in 0..MaxRequests /\ failures' \in 0..MaxFailures /\ crashes' \in 0..MaxCrashes
  BY <1>1, <1>2
<1> QED BY <1>3, Zenon DEF CountsTyped

LEMMA FailureCounted ==
    ASSUME TypeOK, Fail \/ UNCHANGED failures, UNCHANGED <<requests, crashes, raced>>, cut' \in BOOLEAN
    PROVE  CountsTyped'
<1>1. requests \in 0..MaxRequests /\ failures \in 0..MaxFailures /\ crashes \in 0..MaxCrashes
      /\ raced \in BOOLEAN
  BY DEF TypeOK
<1>2. requests' \in 0..MaxRequests /\ failures' \in 0..MaxFailures /\ crashes' \in 0..MaxCrashes
  BY <1>1, ManagerBounds DEF Fail
<1>3. raced' \in BOOLEAN
  BY <1>1
<1> QED BY <1>2, <1>3, Zenon DEF CountsTyped

LEMMA DiskUnchanged ==
    ASSUME TypeOK, UNCHANGED disk, UNCHANGED since \/ \E c \in Clients : since' = [since EXCEPT ![c] = 0]
    PROVE  DiskTyped'
<1>1. files' \in [Chains -> 0..generation'] /\ generation' \in Nat \ {0}
  BY DEF TypeOK, disk
<1>2. since \in [Clients -> 0..generation'] /\ 0 \in 0..generation'
  BY <1>1 DEF TypeOK, disk
<1>3. since' \in [Clients -> 0..generation']
  BY <1>2
<1> QED BY <1>1, <1>3 DEF DiskTyped

LEMMA FilesChanged ==
    ASSUME TypeOK, NEW k \in Chains, NEW n \in 0..generation', files' = [files EXCEPT ![k] = n],
           generation' \in {generation, generation + 1},
           UNCHANGED since \/ \E c \in Clients : since' = [since EXCEPT ![c] = 0]
    PROVE  DiskTyped'
<1>1. generation \in Nat \ {0} /\ files \in [Chains -> 0..generation] /\ since \in [Clients -> 0..generation]
  BY DEF TypeOK
<1>2. generation' \in Nat \ {0} /\ 0..generation \subseteq 0..generation' /\ 0 \in 0..generation'
  BY <1>1
<1>3. files' \in [Chains -> 0..generation']
  BY <1>1, <1>2
<1>4. since' \in [Clients -> 0..generation']
  <2>1. since \in [Clients -> 0..generation']
    BY <1>1, <1>2
  <2> QED BY <1>2, <2>1
<1> QED BY <1>2, <1>3, <1>4 DEF DiskTyped

(* Every step keeps the types.                                             *)
LEMMA BootTyped ==
    ASSUME TInv, Boot PROVE TInv'
<1>1. EngineWith(Original) \in Engine
  BY EngineTyped, ManagerBounds DEF TInv
<1>2. threads = <<>> /\ \A c \in Clients : step[c] = "idle"
  BY DEF Boot, TInv, Owned
<1>3. engines' = <<EngineWith(Original)>> /\ threads' = <<[engine |-> 1, state |-> "runs"]>>
  BY <1>2 DEF Boot, StartThread
<1>4. engines' \in Seq(Engine) /\ Len(engines') = 1 /\ DOMAIN engines' = 1..1
  BY <1>1, <1>3
<1>5. /\ threads' \in Seq([engine : DOMAIN engines', state : ThreadStates])
      /\ Len(threads') = 1
  BY <1>3, <1>4 DEF ThreadStates
<1>6. /\ manager' = [engine |-> 1, thread |-> 1]
      /\ UNCHANGED <<lock, disk, clients, counts, history>>
  BY DEF Boot
<1>7. ProcessTyped'
  BY <1>4, <1>5, <1>6 DEF ProcessTyped
<1>8. ClientsTyped' /\ DiskTyped' /\ CountsTyped'
  BY <1>6 DEF TInv, TypeOK, ClientsTyped, DiskTyped, CountsTyped, disk, clients, counts, history
<1>9. Owned'
  <2>1. lock = None
    BY <1>2, ManagerBounds DEF TInv, TypeOK
  <2> QED BY <1>2, <1>6, <2>1 DEF Owned, Up, None, clients
<1> QED BY <1>7, <1>8, <1>9, TypeParts DEF TInv, TypeOK, ProcessTyped, ClientsTyped, DiskTyped, CountsTyped

LEMMA CrashTyped ==
    ASSUME TInv, Crash PROVE TInv'
<1>1. engines' \in Seq(Engine) /\ Len(engines') = 0
  BY EmptySeq DEF Crash
<1>2. /\ threads' \in Seq([engine : DOMAIN engines', state : ThreadStates])
      /\ Len(threads') = 0
  BY EmptySeq DEF Crash
<1>3. manager' = [engine |-> None, thread |-> None] /\ lock' = None
  BY DEF Crash
<1>4. ProcessTyped'
  BY <1>1, <1>2, <1>3 DEF ProcessTyped, None
<1>5. ClientsTyped'
  BY ManagerBounds DEF Crash, ClientsTyped, NoCommand, Steps, None
<1>6. DiskTyped'
  <2>1. files' \in [Chains -> 0..generation'] /\ generation' \in Nat \ {0}
    BY DEF Crash, TInv, TypeOK, disk
  <2>2. since' = [c \in Clients |-> 0]
    BY DEF Crash
  <2>3. 0 \in 0..generation'
    BY <2>1
  <2> QED BY <2>1, <2>2, <2>3 DEF DiskTyped
<1>7. CountsTyped'
  <2>1. raced' \in BOOLEAN /\ cut' \in BOOLEAN
    <3> DEFINE P == cut \/ raced \/ \E c \in Clients : step[c] = "clear masterchain"
    <3>1. raced' = FALSE /\ cut' = P
      BY DEF Crash
    <3>2. CASE P
      BY <3>1, <3>2, Zenon
    <3>3. CASE ~P
      BY <3>1, <3>3, Zenon
    <3> QED BY <3>2, <3>3
  <2>2. requests' \in 0..MaxRequests /\ failures' \in 0..MaxFailures /\ crashes' \in 0..MaxCrashes
    <3>1. requests' = requests /\ failures' = failures /\ crashes' = crashes + 1 /\ crashes < MaxCrashes
      BY DEF Crash
    <3>2. requests \in 0..MaxRequests /\ failures \in 0..MaxFailures /\ crashes \in 0..MaxCrashes
      BY DEF TInv, TypeOK
    <3> QED BY <3>1, <3>2, ManagerBounds
  <2> QED BY <2>1, <2>2, Zenon DEF CountsTyped
<1>8. Owned'
  BY DEF Crash, Owned, Up
<1> QED BY <1>4, <1>5, <1>6, <1>7, <1>8
        DEF TInv, TypeOK, ProcessTyped, ClientsTyped, DiskTyped, CountsTyped

LEMMA Assembled ==
    ASSUME ProcessTyped', ClientsTyped', DiskTyped', CountsTyped', Owned'
    PROVE  TInv'
  BY DEF TInv, TypeOK, ProcessTyped, ClientsTyped, DiskTyped, CountsTyped

LEMMA ReceiveTyped ==
    ASSUME TInv, NEW c \in Clients, Receive(c) PROVE TInv'
<1>1. PICK q \in Request :
         /\ command' = [command EXCEPT ![c] = IF WellFormed(q) THEN Command(q) ELSE NoCommand]
         /\ Goto(c, IF ~WellFormed(q) THEN "bad request"
                     ELSE IF q.name \in TimeCommands THEN "node" ELSE "stop")
         /\ since' = [since EXCEPT ![c] = IF command'[c].reset THEN generation ELSE 0]
  BY DEF Receive
<1>2. /\ Up /\ step[c] \in Answers \union {"idle"} /\ requests < MaxRequests /\ requests' = requests + 1
      /\ UNCHANGED <<process, disk, own, failures, crashes, raced, cut>>
  BY DEF Receive
<1>3. Command(q) \in [fork : BOOLEAN, reset : BOOLEAN] /\ NoCommand \in [fork : BOOLEAN, reset : BOOLEAN]
  BY DEF Command, NoCommand
<1>4. command' \in [Clients -> [fork : BOOLEAN, reset : BOOLEAN]]
  <2>1. command \in [Clients -> [fork : BOOLEAN, reset : BOOLEAN]]
    BY DEF TInv, TypeOK
  <2> QED BY <1>1, <1>3, <2>1
<1>5. ProcessTyped' /\ ClientsTyped' /\ Owned'
  <2> DEFINE s == IF ~WellFormed(q) THEN "bad request"
                  ELSE IF q.name \in TimeCommands THEN "node" ELSE "stop"
  <2>1. Goto(c, s) /\ s \in Steps /\ s \notin {"join", "assign"}
    BY <1>1 DEF Steps, Answers
  <2>2. step[c] # "join"
    BY <1>2 DEF Answers
  <2> HIDE DEF s
  <2> QED BY <1>2, <1>4, <2>1, <2>2, ClientMovedAlone
<1>6. DiskTyped'
  <2>1. files' \in [Chains -> 0..generation'] /\ generation' \in Nat \ {0} /\ generation' = generation
    BY <1>2 DEF TInv, TypeOK, disk
  <2>2. since \in [Clients -> 0..generation'] /\ 0 \in 0..generation' /\ generation \in 0..generation'
    BY <2>1 DEF TInv, TypeOK
  <2>3. (IF command'[c].reset THEN generation ELSE 0) \in 0..generation'
    BY <2>2
  <2>4. since' \in [Clients -> 0..generation']
    BY <1>1, <2>2, <2>3
  <2> QED BY <2>1, <2>4 DEF DiskTyped
<1>7. CountsTyped'
  <2>1. requests \in 0..MaxRequests /\ failures \in 0..MaxFailures /\ crashes \in 0..MaxCrashes
        /\ raced \in BOOLEAN /\ cut \in BOOLEAN
    BY DEF TInv, TypeOK
  <2>2. requests' \in 0..MaxRequests /\ failures' \in 0..MaxFailures /\ crashes' \in 0..MaxCrashes
    BY <1>2, <2>1, ManagerBounds
  <2>3. raced' \in BOOLEAN /\ cut' \in BOOLEAN
    BY <1>2, <2>1
  <2> QED BY <2>2, <2>3, Zenon DEF CountsTyped
<1> QED BY <1>5, <1>6, <1>7, Assembled

LEMMA UseClockTyped ==
    ASSUME TInv, NEW c \in Clients, UseClock(c) PROVE TInv'
<1>1. /\ step[c] = "node" /\ Goto(c, "ok")
      /\ command' = [command EXCEPT ![c] = NoCommand]
      /\ since' = [since EXCEPT ![c] = 0]
      /\ UNCHANGED <<process, disk, own, counts, raced, cut>>
  BY DEF UseClock, Answer
<1>2. Up
  BY <1>1 DEF TInv, Owned
<1>3. ProcessTyped' /\ ClientsTyped' /\ Owned'
  BY <1>1, <1>2, CommandDropped, ClientMovedAlone DEF TInv, Steps, Answers
<1>4. DiskTyped'
  BY <1>1, DiskUnchanged DEF TInv
<1>5. CountsTyped'
  BY <1>1, CountsUnchanged DEF TInv, TypeOK
<1> QED BY <1>3, <1>4, <1>5, Assembled

LEMMA ClearDocumentsTyped ==
    ASSUME TInv, NEW c \in Clients, ClearDocuments(c) PROVE TInv'
<1>1. /\ step[c] = "clear documents" /\ Goto(c, "clear workchain")
      /\ UNCHANGED <<process, disk, command, own, counts, since, raced, cut>>
  BY DEF ClearDocuments, history
<1>2. Up
  BY <1>1 DEF TInv, Owned
<1>3. ProcessTyped' /\ ClientsTyped' /\ Owned'
  BY <1>1, <1>2, CommandDropped, ClientMovedAlone DEF TInv, Steps, PastStop, Clearing
<1>4. DiskTyped'
  BY <1>1, DiskUnchanged DEF TInv
<1>5. CountsTyped'
  BY <1>1, CountsUnchanged DEF TInv, TypeOK
<1> QED BY <1>3, <1>4, <1>5, Assembled

LEMMA ClearWorkchainTyped ==
    ASSUME TInv, NEW c \in Clients, ClearWorkchain(c) PROVE TInv'
<1>1. /\ step[c] = "clear workchain" /\ Goto(c, "clear masterchain")
      /\ files' = [files EXCEPT !["workchain"] = None] /\ generation' = generation + 1
      /\ UNCHANGED <<process, command, own, counts, since, raced, cut>>
  BY DEF ClearWorkchain, AfterWorkchain, history
<1>2. Up
  BY <1>1 DEF TInv, Owned
<1>3. ProcessTyped' /\ ClientsTyped' /\ Owned'
  BY <1>1, <1>2, CommandDropped, ClientMovedAlone DEF TInv, Steps, PastStop, Clearing
<1>4. DiskTyped'
  <2>1. generation \in Nat
    BY DEF TInv, TypeOK
  <2>2. generation' = generation + 1
    BY <1>1
  <2>3. None \in 0..generation' /\ generation' \in {generation, generation + 1}
    BY <2>1, <2>2 DEF None
  <2>4. "workchain" \in Chains
    BY DEF Chains
  <2>5. UNCHANGED since
    BY <1>1
  <2>6. files' = [files EXCEPT !["workchain"] = None]
    BY <1>1
  <2> QED BY <2>4, <2>5, <2>6, <2>3, FilesChanged DEF TInv
<1>5. CountsTyped'
  BY <1>1, CountsUnchanged DEF TInv, TypeOK
<1> QED BY <1>3, <1>4, <1>5, Assembled

LEMMA ClearMasterchainTyped ==
    ASSUME TInv, NEW c \in Clients, ClearMasterchain(c) PROVE TInv'
<1>1. /\ step[c] = "clear masterchain" /\ Goto(c, "create")
      /\ files' = [files EXCEPT !["masterchain"] = None] /\ cut' = FALSE
      /\ UNCHANGED <<process, generation, command, own, counts, since, raced>>
  BY DEF ClearMasterchain
<1>2. Up
  BY <1>1 DEF TInv, Owned
<1>3. ProcessTyped' /\ ClientsTyped' /\ Owned'
  BY <1>1, <1>2, CommandDropped, ClientMovedAlone DEF TInv, Steps, PastStop, Clearing
<1>4. DiskTyped'
  <2>1. generation \in Nat
    BY DEF TInv, TypeOK
  <2>2. generation' = generation
    BY <1>1
  <2>3. None \in 0..generation' /\ generation' \in {generation, generation + 1}
    BY <2>1, <2>2 DEF None
  <2>4. "masterchain" \in Chains
    BY DEF Chains
  <2>5. UNCHANGED since
    BY <1>1
  <2>6. files' = [files EXCEPT !["masterchain"] = None]
    BY <1>1
  <2> QED BY <2>4, <2>5, <2>6, <2>3, FilesChanged DEF TInv
<1>5. cut' \in BOOLEAN /\ raced' \in BOOLEAN
  BY <1>1 DEF TInv, TypeOK
<1>6. CountsTyped'
  BY <1>1, <1>5, CountsUnchanged DEF TInv
<1> QED BY <1>3, <1>4, <1>6, Assembled

LEMMA ClearFailsTyped ==
    ASSUME TInv, NEW c \in Clients, ClearFails(c) PROVE TInv'
<1>1. /\ step[c] \in Clearing /\ Fail /\ Goto(c, "server error")
      /\ command' = [command EXCEPT ![c] = NoCommand]
      /\ since' = [since EXCEPT ![c] = 0]
      /\ UNCHANGED <<process, own, requests, crashes, raced>>
  BY DEF ClearFails, Answer
<1>2. \/ UNCHANGED disk /\ cut' = (cut \/ step[c] = "clear masterchain")
      \/ /\ step[c] = "clear workchain" /\ cut' = TRUE
         /\ files' = [files EXCEPT !["workchain"] = None]
         /\ generation' = generation + 1
  BY DEF ClearFails
<1>3. Up
  BY <1>1 DEF TInv, Owned, Clearing
<1>4. ProcessTyped' /\ ClientsTyped' /\ Owned'
  BY <1>1, <1>3, CommandDropped, ClientMovedAlone DEF TInv, Steps, Answers, Clearing
<1>5. DiskTyped'
  <2>1. CASE UNCHANGED disk
    BY <1>1, <2>1, DiskUnchanged DEF TInv
  <2>2. CASE /\ files' = [files EXCEPT !["workchain"] = None]
             /\ generation' = generation + 1
    <3>1. generation \in Nat
      BY DEF TInv, TypeOK
    <3>2. None \in 0..generation' /\ generation' \in {generation, generation + 1}
      BY <2>2, <3>1 DEF None
    <3> QED BY <1>1, <2>2, <3>2, FilesChanged DEF TInv, Chains
  <2> QED BY <1>2, <2>1, <2>2
<1>6. cut' \in BOOLEAN
  <2>1. CASE cut' = TRUE
    BY <2>1
  <2>2. CASE cut' = (cut \/ step[c] = "clear masterchain")
    <3>1. CASE cut \/ step[c] = "clear masterchain"
      BY <2>2, <3>1, Zenon
    <3>2. CASE ~(cut \/ step[c] = "clear masterchain")
      BY <2>2, <3>2, Zenon
    <3> QED BY <3>1, <3>2
  <2> QED BY <1>2, <2>1, <2>2
<1>7. CountsTyped'
  BY <1>1, <1>6, FailureCounted DEF TInv
<1> QED BY <1>4, <1>5, <1>7, Assembled

LEMMA CreateFailsTyped ==
    ASSUME TInv, NEW c \in Clients, CreateFails(c) PROVE TInv'
<1>1. /\ step[c] = "create" /\ Goto(c, "server error")
      /\ command' = [command EXCEPT ![c] = NoCommand]
      /\ since' = [since EXCEPT ![c] = 0]
      /\ Fail \/ UNCHANGED failures
      /\ UNCHANGED <<process, disk, own, requests, crashes, raced, cut>>
  BY DEF CreateFails, Answer
<1>2. Up
  BY <1>1 DEF TInv, Owned
<1>3. ProcessTyped' /\ ClientsTyped' /\ Owned'
  BY <1>1, <1>2, CommandDropped, ClientMovedAlone DEF TInv, Steps, Answers
<1>4. DiskTyped'
  BY <1>1, DiskUnchanged DEF TInv
<1>5. cut' \in BOOLEAN
  BY <1>1 DEF TInv, TypeOK
<1>6. CountsTyped'
  BY <1>1, <1>5, FailureCounted DEF TInv
<1> QED BY <1>3, <1>4, <1>6, Assembled

(* The lock is taken for the wait, and given back after it.                *)
LEMMA StopTyped ==
    ASSUME TInv, NEW c \in Clients, Stop(c) PROVE TInv'
<1>1. /\ step[c] = "stop" /\ lock = None /\ lock' = c
      /\ engines' = [engines EXCEPT ![manager.engine].stopped = TRUE]
      /\ own' = [own EXCEPT ![c] = manager.thread]
      /\ manager' = [manager EXCEPT !.thread = None]
      /\ step' = [step EXCEPT ![c] = "join"]
      /\ UNCHANGED <<threads, disk, command, counts, since, raced, cut>>
  BY DEF Stop, StoppedQueue, Goto, history
<1> DEFINE e == [engines[manager.engine] EXCEPT !.stopped = TRUE]
<1>2. manager.engine \in 1..Len(engines) /\ engines[manager.engine] \in Engine
  <2>1. Up
    BY <1>1 DEF TInv, Owned
  <2> QED BY <2>1, Typed DEF TInv, Up, None
<1>3. e \in Engine
  BY <1>2 DEF Engine
<1>4. engines' = [engines EXCEPT ![manager.engine] = e]
  BY <1>1
<1> HIDE DEF e
<1>5. /\ engines' \in Seq(Engine)
      /\ Len(engines') = Len(engines) /\ DOMAIN engines' = DOMAIN engines
  BY <1>2, <1>3, <1>4, EngineChanged DEF TInv
<1>6. manager' \in [engine : 0..Len(engines'), thread : 0..Len(threads')]
      /\ manager'.thread = None /\ manager'.engine = manager.engine
  <2>1. manager \in [engine : 0..Len(engines), thread : 0..Len(threads)]
    BY DEF TInv, TypeOK
  <2>2. None \in 0..Len(threads)
    BY Typed DEF TInv, None
  <2> QED BY <1>1, <1>5, <2>1, <2>2
<1>7. ProcessTyped'
  BY <1>1, <1>5, <1>6 DEF TInv, TypeOK, ProcessTyped
<1>8. own' \in [Clients -> Nat] /\ own'[c] \in 0..Len(threads')
  <2>1. own \in [Clients -> Nat] /\ manager.thread \in 0..Len(threads) /\ Len(threads) \in Nat
    BY Typed DEF TInv, TypeOK
  <2> QED BY <1>1, <2>1
<1>9. ClientsTyped'
  <2>1. step' \in [Clients -> Steps] /\ \A d \in Clients : step'[d] = IF d = c THEN "join" ELSE step[d]
    BY <1>1 DEF TInv, TypeOK, Steps
  <2>2. \A d \in Clients : step[d] # "join"
    BY <1>1, Typed DEF TInv
  <2>3. command' \in [Clients -> [fork : BOOLEAN, reset : BOOLEAN]]
    BY <1>1 DEF TInv, TypeOK
  <2> QED BY <1>1, <1>8, <2>1, <2>2, <2>3 DEF ClientsTyped
<1>10. DiskTyped'
  BY <1>1, DiskUnchanged DEF TInv
<1>11. CountsTyped'
  BY <1>1, CountsUnchanged DEF TInv, TypeOK
<1>12. Owned'
  <2>1. \A d \in Clients : step'[d] = (IF d = c THEN "join" ELSE step[d])
                          /\ own'[d] = (IF d = c THEN manager.thread ELSE own[d])
    BY <1>1 DEF TInv, TypeOK
  <2>2. Up'
    BY <1>2, <1>6 DEF Up, None
  <2> QED BY <1>1, <1>5, <1>6, <1>8, <2>1, <2>2 DEF TInv, Owned
<1> QED BY <1>7, <1>9, <1>10, <1>11, <1>12, Assembled

LEMMA JoinTyped ==
    ASSUME TInv, NEW c \in Clients, Join(c) PROVE TInv'
<1> DEFINE s == IF command[c].reset THEN "clear documents" ELSE "create"
<1>1. /\ step[c] = "join" /\ lock' = None
      /\ own' = [own EXCEPT ![c] = None]
      /\ raced' = (raced \/ Rebuilding # {})
      /\ step' = [step EXCEPT ![c] = s]
      /\ UNCHANGED <<manager, engines, threads, disk, command, counts, since, cut>>
  BY DEF Join, LockGivenBack, Goto
<1>2. s \in Steps /\ s \notin {"join", "assign", "idle"}
  BY DEF Steps, PastStop, Clearing
<1> HIDE DEF s
<1>3. ProcessTyped'
  BY <1>1, ProcessUnchanged DEF TInv
<1>4. \A d \in Clients : step'[d] = (IF d = c THEN s ELSE step[d])
                        /\ own'[d] = (IF d = c THEN None ELSE own[d])
  BY <1>1 DEF TInv, TypeOK
<1>5. lock = c
  BY <1>1, Typed DEF TInv
<1>6. ClientsTyped'
  <2>1. step' \in [Clients -> Steps] /\ own' \in [Clients -> Nat]
    BY <1>1, <1>2 DEF TInv, TypeOK, None
  <2>2. \A d \in Clients : step'[d] # "join" /\ lock' # d
    BY <1>1, <1>2, <1>4, <1>5, Typed DEF TInv
  <2>3. command' \in [Clients -> [fork : BOOLEAN, reset : BOOLEAN]]
    BY <1>1 DEF TInv, TypeOK
  <2> QED BY <1>1, <2>1, <2>2, <2>3 DEF ClientsTyped
<1>7. DiskTyped'
  BY <1>1, DiskUnchanged DEF TInv
<1>8. raced' \in BOOLEAN /\ cut' \in BOOLEAN
  <2>1. raced \in BOOLEAN /\ cut \in BOOLEAN
    BY DEF TInv, TypeOK
  <2>2. CASE raced \/ Rebuilding # {}
    BY <1>1, <2>1, <2>2, Zenon
  <2>3. CASE ~(raced \/ Rebuilding # {})
    BY <1>1, <2>1, <2>3, Zenon
  <2> QED BY <2>2, <2>3
<1>9. CountsTyped'
  BY <1>1, <1>8, CountsUnchanged DEF TInv
<1>10. Owned'
  <2>1. Up
    BY <1>1 DEF TInv, Owned
  <2> QED BY <1>1, <1>2, <1>4, <2>1 DEF TInv, Owned, Up
<1> QED BY <1>3, <1>6, <1>7, <1>9, <1>10, Assembled

LEMMA CreateEngineTyped ==
    ASSUME TInv, NEW c \in Clients, CreateEngine(c) PROVE TInv'
<1> DEFINE e == EngineWith(ConfigFor(command[c]))
<1>1. /\ step[c] = "create"
      /\ engines' = Append(engines, e)
      /\ own' = [own EXCEPT ![c] = Len(engines')]
      /\ Goto(c, "assign")
      /\ UNCHANGED <<manager, lock, threads, disk, command, counts, since, raced, cut>>
  BY DEF CreateEngine, history
<1>2. e \in Engine
  BY EngineTyped, ManagerBounds DEF TInv, ConfigFor
<1> HIDE DEF e
<1>3. /\ engines' \in Seq(Engine) /\ Len(engines') = Len(engines) + 1
      /\ threads \in Seq([engine : DOMAIN engines', state : ThreadStates])
  BY <1>1, <1>2, EngineAppended DEF TInv
<1>4. Len(engines) \in Nat
  BY Typed DEF TInv
<1>5. ProcessTyped'
  <2>1. manager \in [engine : 0..Len(engines), thread : 0..Len(threads)]
    BY DEF TInv, TypeOK
  <2>2. 0..Len(engines) \subseteq 0..Len(engines')
    BY <1>3, <1>4
  <2>3. manager' \in [engine : 0..Len(engines'), thread : 0..Len(threads')]
    BY <1>1, <2>1, <2>2
  <2> QED BY <1>1, <1>3, <2>3 DEF ProcessTyped
<1>6. own' \in [Clients -> Nat]
  <2>1. own \in [Clients -> Nat]
    BY DEF TInv, TypeOK
  <2> QED BY <1>1, <1>3, <1>4, <2>1
<1>7. ClientsTyped'
  <2>1. "assign" \in Steps
    BY DEF Steps, PastStop
  <2>2. command' \in [Clients -> [fork : BOOLEAN, reset : BOOLEAN]]
    BY <1>1 DEF TInv, TypeOK
  <2> QED BY <1>1, <1>6, <2>1, <2>2, ClientMoved DEF TInv
<1>8. DiskTyped'
  BY <1>1, DiskUnchanged DEF TInv
<1>9. CountsTyped'
  BY <1>1, CountsUnchanged DEF TInv, TypeOK
<1>10. Owned'
  <2>1. Up
    BY <1>1 DEF TInv, Owned
  <2>2. \A d \in Clients : step'[d] = (IF d = c THEN "assign" ELSE step[d])
                          /\ own'[d] = (IF d = c THEN Len(engines) + 1 ELSE own[d])
    BY <1>1, <1>3 DEF TInv, TypeOK, Goto
  <2>3. \A d \in Clients : step'[d] = "assign" => own'[d] \in 1..Len(engines')
    BY <1>3, <1>4, <2>2 DEF TInv, Owned
  <2>4. \A d \in Clients : step'[d] = "join" => own'[d] \in 0..Len(threads')
    BY <1>1, <2>2 DEF TInv, Owned
  <2> QED BY <1>1, <2>1, <2>3, <2>4 DEF TInv, Owned, Up
<1> QED BY <1>5, <1>7, <1>8, <1>9, <1>10, Assembled

LEMMA AssignEngineTyped ==
    ASSUME TInv, NEW c \in Clients, AssignEngine(c) PROVE TInv'
<1>1. /\ step[c] = "assign" /\ lock = None
      /\ \/ UNCHANGED engines
         \/ engines' = [engines EXCEPT ![manager.engine] = Dropped]
      /\ manager' = [engine |-> own[c], thread |-> None]
      /\ own' = [own EXCEPT ![c] = None]
      /\ Goto(c, "start")
      /\ UNCHANGED <<lock, threads, disk, command, counts, since, raced, cut>>
  BY DEF AssignEngine, AfterAssign, history
<1>2. manager.engine \in 1..Len(engines) /\ own[c] \in 1..Len(engines)
  <2>1. Up /\ own[c] \in 1..Len(engines)
    BY <1>1 DEF TInv, Owned
  <2> QED BY <2>1, Typed DEF TInv, Up, None
<1>3. /\ engines' \in Seq(Engine)
      /\ Len(engines') = Len(engines) /\ DOMAIN engines' = DOMAIN engines
  <2>1. Dropped \in Engine
    BY DEF Dropped, Engine, None
  <2>2. CASE UNCHANGED engines
    BY <2>2 DEF TInv, TypeOK
  <2>3. CASE engines' = [engines EXCEPT ![manager.engine] = Dropped]
    BY <1>2, <2>1, <2>3, EngineChanged DEF TInv
  <2> QED BY <1>1, <2>2, <2>3
<1>4. ProcessTyped'
  <2>1. Len(threads) \in Nat /\ Len(engines) \in Nat
    BY Typed DEF TInv
  <2>2. manager' \in [engine : 0..Len(engines'), thread : 0..Len(threads')]
    BY <1>1, <1>2, <1>3, <2>1 DEF None
  <2>3. threads \in Seq([engine : DOMAIN engines, state : ThreadStates])
    BY DEF TInv, TypeOK
  <2> QED BY <1>1, <1>3, <2>2, <2>3 DEF ProcessTyped
<1>5. ClientsTyped'
  <2>1. "start" \in Steps
    BY DEF Steps, PastStop
  <2>2. command' \in [Clients -> [fork : BOOLEAN, reset : BOOLEAN]] /\ own' \in [Clients -> Nat]
    BY <1>1 DEF TInv, TypeOK, None
  <2> QED BY <1>1, <2>1, <2>2, ClientMoved DEF TInv
<1>6. DiskTyped'
  BY <1>1, DiskUnchanged DEF TInv
<1>7. CountsTyped'
  BY <1>1, CountsUnchanged DEF TInv, TypeOK
<1>8. Owned'
  <2>1. \A d \in Clients : step'[d] = (IF d = c THEN "start" ELSE step[d])
                          /\ own'[d] = (IF d = c THEN None ELSE own[d])
    BY <1>1 DEF TInv, TypeOK, Goto
  <2>2. Up'
    BY <1>1, <1>2 DEF Up, None
  <2> QED BY <1>1, <1>3, <2>1, <2>2 DEF TInv, Owned
<1> QED BY <1>4, <1>5, <1>6, <1>7, <1>8, Assembled

LEMMA StartEngineTyped ==
    ASSUME TInv, NEW c \in Clients, StartEngine(c) PROVE TInv'
<1>1. /\ step[c] = "start" /\ lock = None
      /\ manager' = [manager EXCEPT !.thread = Len(threads) + 1]
      /\ threads' = Append(threads, [engine |-> manager'.engine, state |-> "runs"])
      /\ Goto(c, "ok")
      /\ command' = [command EXCEPT ![c] = NoCommand]
      /\ since' = [since EXCEPT ![c] = 0]
      /\ UNCHANGED <<lock, engines, disk, own, counts, raced, cut>>
  BY DEF StartEngine, StartThread, Answer
<1>2. /\ manager.engine \in 1..Len(engines)
      /\ Len(threads) \in Nat /\ Len(engines) \in Nat
  <2>1. Up
    BY <1>1 DEF TInv, Owned
  <2> QED BY <2>1, Typed DEF TInv, Up, None
<1>3. manager \in [engine : 0..Len(engines), thread : 0..Len(threads)]
  BY DEF TInv, TypeOK
<1>4. manager'.engine = manager.engine /\ manager'.thread = Len(threads) + 1
  BY <1>1, <1>3
<1>5. /\ threads' \in Seq([engine : DOMAIN engines, state : ThreadStates])
      /\ Len(threads') = Len(threads) + 1
  BY <1>1, <1>2, <1>4, ThreadAppended DEF TInv
<1>6. ProcessTyped'
  <2>1. manager' \in [engine : 0..Len(engines'), thread : 0..Len(threads')]
    BY <1>1, <1>2, <1>3, <1>5
  <2>2. engines' \in Seq(Engine) /\ DOMAIN engines' = DOMAIN engines
    BY <1>1 DEF TInv, TypeOK
  <2> QED BY <1>5, <2>1, <2>2 DEF ProcessTyped
<1>7. ClientsTyped'
  <2>1. "ok" \in Steps
    BY DEF Steps, Answers
  <2>2. command' \in [Clients -> [fork : BOOLEAN, reset : BOOLEAN]]
    BY <1>1, CommandDropped DEF TInv
  <2>3. own' \in [Clients -> Nat]
    BY <1>1 DEF TInv, TypeOK
  <2> QED BY <1>1, <2>1, <2>2, <2>3, ClientMoved DEF TInv
<1>8. DiskTyped'
  BY <1>1, DiskUnchanged DEF TInv
<1>9. CountsTyped'
  BY <1>1, CountsUnchanged DEF TInv, TypeOK
<1>10. Owned'
  <2>1. \A d \in Clients : step'[d] = IF d = c THEN "ok" ELSE step[d]
    BY <1>1 DEF TInv, TypeOK, Goto
  <2>2. Up'
    BY <1>2, <1>4 DEF Up, None
  <2>3. \A d \in Clients : step'[d] # "join"
    BY <1>1, <2>1, Typed DEF TInv
  <2>4. \A d \in Clients : step'[d] = "assign" => own'[d] \in 1..Len(engines')
    BY <1>1, <2>1 DEF TInv, Owned
  <2> QED BY <1>1, <2>2, <2>3, <2>4 DEF Owned
<1> QED BY <1>6, <1>7, <1>8, <1>9, <1>10, Assembled

(* No engine is of a generation to come.                                   *)
Bounded == \A e \in 1..Len(engines), c \in Chains : engines[e].chain[c] <= generation

LEMMA SaveBlockTyped ==
    ASSUME TInv, Bounded, NEW t \in DOMAIN threads, SaveBlock(t) PROVE TInv'
<1>1. PICK k \in Chains : files' = [files EXCEPT ![k] = engines[threads[t].engine].chain[k]]
  BY DEF SaveBlock
<1>2. UNCHANGED <<process, generation, clients, counts, history>>
  BY DEF SaveBlock
<1>3. engines[threads[t].engine].chain[k] \in 0..generation'
  <2>1. threads[t].engine \in 1..Len(engines) /\ engines[threads[t].engine] \in Engine
    BY Typed DEF TInv
  <2>2. engines[threads[t].engine].chain[k] \in Nat
    BY <2>1 DEF Engine
  <2>3. engines[threads[t].engine].chain[k] <= generation
    BY <2>1 DEF Bounded
  <2>4. generation' = generation /\ generation \in Nat
    BY <1>2 DEF TInv, TypeOK
  <2> QED BY <2>2, <2>3, <2>4
<1>4. UNCHANGED since /\ generation' \in {generation, generation + 1}
  BY <1>2 DEF history
<1>5. DiskTyped'
  BY <1>1, <1>3, <1>4, FilesChanged DEF TInv
<1>6. ProcessTyped' /\ ClientsTyped' /\ CountsTyped' /\ Owned'
  BY <1>2 DEF TInv, TypeOK, ProcessTyped, ClientsTyped, CountsTyped, Owned, Up,
              process, clients, counts, history
<1> QED BY <1>5, <1>6, Assembled

(* The steps that change the state of a thread.                            *)
LEMMA ThreadSteps ==
    ASSUME NEW t \in DOMAIN threads, StayBusy(t) \/ SeeStop(t) \/ MissStop(t)
    PROVE  /\ \E s \in {"busy", "parked", "ended"} : threads' = [threads EXCEPT ![t].state = s]
           /\ threads[t].state # "ended"
           /\ UNCHANGED <<manager, lock, engines, disk, clients, counts, history>>
  BY DEF StayBusy, SeeStop, MissStop, Stopped

(* A thread is too busy to see that its engine is stopped, sees or misses  *)
(* it.                                                                     *)
LEMMA StopsTyped ==
    ASSUME TInv, NEW t \in DOMAIN threads, StayBusy(t) \/ SeeStop(t) \/ MissStop(t) PROVE TInv'
<1>1. PICK s \in {"busy", "parked", "ended"} : threads' = [threads EXCEPT ![t].state = s]
  BY ThreadSteps
<1>2. UNCHANGED <<manager, lock, engines, disk, clients, counts, history>>
  BY ThreadSteps
<1>3. /\ threads' \in Seq([engine : DOMAIN engines, state : ThreadStates])
      /\ Len(threads') = Len(threads)
  BY <1>1, ThreadChanged DEF TInv
<1>4. ProcessTyped'
  BY <1>2, <1>3 DEF TInv, TypeOK, ProcessTyped
<1>5. ClientsTyped' /\ DiskTyped' /\ CountsTyped'
  BY <1>2 DEF TInv, TypeOK, ClientsTyped, DiskTyped, CountsTyped, disk, clients, counts, history
<1>6. Owned'
  <2>1. Up
    BY Typed DEF TInv, Owned
  <2> QED BY <1>2, <1>3, <2>1 DEF TInv, Owned, Up, clients
<1> QED BY <1>4, <1>5, <1>6, Assembled

LEMMA StutterTyped ==
    ASSUME TInv, UNCHANGED vars PROVE TInv'
<1>1. UNCHANGED <<process, disk, clients, counts, history>>
  BY DEF vars
<1> QED BY <1>1 DEF TInv, TypeOK, Owned, Up, process, disk, clients, counts, history

LEMMA TypesKept ==
    ASSUME TInv, Bounded, [Next]_vars PROVE TInv'
<1>1. CASE Boot
  BY <1>1, BootTyped
<1>2. CASE Crash
  BY <1>2, CrashTyped
<1>3. ASSUME NEW c \in Clients, Receive(c) PROVE TInv'
  BY <1>3, ReceiveTyped
<1>4. ASSUME NEW c \in Clients, Handle(c) PROVE TInv'
  BY <1>4, UseClockTyped, StopTyped, JoinTyped, ClearDocumentsTyped, ClearWorkchainTyped,
     ClearMasterchainTyped, ClearFailsTyped, CreateEngineTyped, CreateFailsTyped,
     AssignEngineTyped, StartEngineTyped DEF Handle
<1>5. ASSUME NEW t \in DOMAIN threads, Run(t) PROVE TInv'
  BY <1>5, SaveBlockTyped, StopsTyped DEF Run
<1>6. CASE UNCHANGED vars
  BY <1>6, StutterTyped
<1> QED BY <1>1, <1>2, <1>3, <1>4, <1>5, <1>6 DEF Next

(* An engine begins with the files there are, or anew.                     *)
LEMMA LoadedBounded ==
    ASSUME TypeOK PROVE \A c \in Chains : Loaded(c) <= generation
<1>1. files \in [Chains -> 0..generation] /\ generation \in Nat
  BY DEF TypeOK
<1> QED BY <1>1 DEF Loaded

LEMMA BoundedKept ==
    ASSUME TInv, Bounded, [Next]_vars PROVE Bounded'
<1>1. TypeOK /\ generation \in Nat /\ \A e \in 1..Len(engines) : engines[e] \in Engine
  BY Typed DEF TInv, TypeOK
<1>2. ASSUME UNCHANGED engines, generation' \in {generation, generation + 1} PROVE Bounded'
  <2> SUFFICES ASSUME NEW e \in 1..Len(engines), NEW c \in Chains
               PROVE  engines[e].chain[c] <= generation'
    BY <1>2 DEF Bounded
  <2>1. engines[e].chain[c] \in Nat /\ engines[e].chain[c] <= generation
    BY <1>1 DEF Bounded, Engine
  <2> QED BY <1>1, <1>2, <2>1
<1>3. ASSUME NEW config \in {"own", "fork"}, NEW c \in Chains
      PROVE  EngineWith(config).chain[c] <= generation
  BY <1>1, EngineTyped, LoadedBounded
<1>4. CASE Boot
  <2>1. engines' = <<EngineWith(Original)>> /\ generation' = generation
    BY <1>4 DEF Boot, disk
  <2> DEFINE e == EngineWith(Original)
  <2>2. \A c \in Chains : e.chain[c] <= generation
    BY <1>3, ManagerBounds
  <2> HIDE DEF e
  <2>3. Len(engines') = 1 /\ engines'[1] = e
    BY <2>1 DEF e
  <2>4. generation' = generation
    BY <2>1
  <2>5. \A i \in 1..Len(engines') : i = 1
    BY <2>3
  <2> QED BY <2>2, <2>3, <2>4, <2>5 DEF Bounded
<1>5. CASE Crash
  <2>1. engines' = <<>>
    BY <1>5 DEF Crash
  <2>2. 1..Len(engines') = {}
    BY <2>1
  <2> QED BY <2>2 DEF Bounded
<1>6. ASSUME NEW c \in Clients, Stop(c) PROVE Bounded'
  <2>1. engines' = [engines EXCEPT ![manager.engine].stopped = TRUE] /\ UNCHANGED disk
    BY <1>6 DEF Stop, StoppedQueue
  <2>2. \A e \in 1..Len(engines) : engines'[e].chain = engines[e].chain
    BY <1>1, <2>1, Typed DEF Engine
  <2>3. Len(engines') = Len(engines)
    BY <2>1, <1>1 DEF TypeOK
  <2> QED BY <2>1, <2>2, <2>3 DEF Bounded, disk
<1>7. ASSUME NEW c \in Clients, CreateEngine(c) PROVE Bounded'
  <2>1. /\ engines' = Append(engines, EngineWith(ConfigFor(command[c])))
        /\ UNCHANGED disk
    BY <1>7 DEF CreateEngine
  <2>2. ConfigFor(command[c]) \in {"own", "fork"}
    BY ManagerBounds DEF ConfigFor
  <2>3. /\ Len(engines') = Len(engines) + 1 /\ Len(engines) \in Nat
        /\ \A i \in 1..Len(engines) : engines'[i] = engines[i]
        /\ engines'[Len(engines) + 1] = EngineWith(ConfigFor(command[c]))
    BY <1>1, <2>1, <2>2, EngineTyped, EngineAppended, Typed
  <2> QED BY <1>3, <2>1, <2>2, <2>3 DEF Bounded, disk
<1>8. ASSUME NEW c \in Clients, AssignEngine(c) PROVE Bounded'
  <2>1. CASE UNCHANGED engines
    BY <1>2, <1>8, <2>1 DEF AssignEngine, disk
  <2>2. CASE engines' = [engines EXCEPT ![manager.engine] = Dropped]
    <3>1. UNCHANGED disk
      BY <1>8 DEF AssignEngine
    <3>2. Len(engines') = Len(engines)
      BY <1>1, <2>2 DEF TypeOK
    <3>3. \A e \in 1..Len(engines) : engines'[e] = engines[e] \/ engines'[e] = Dropped
      BY <2>2, Typed, <1>1
    <3>4. \A k \in Chains : Dropped.chain[k] = 0
      BY DEF Dropped, None
    <3> QED BY <1>1, <3>1, <3>2, <3>3, <3>4 DEF Bounded, disk
  <2> QED BY <1>8, <2>1, <2>2 DEF AssignEngine
<1>9. ASSUME NEW c \in Clients, Receive(c) \/ Handle(c), ~Stop(c), ~CreateEngine(c), ~AssignEngine(c)
      PROVE  Bounded'
  <2>1. UNCHANGED engines
    BY <1>9 DEF Receive, Handle, UseClock, Join, ClearDocuments, ClearWorkchain, ClearMasterchain,
                ClearFails, CreateFails, StartEngine, process
  <2>2. generation' \in {generation, generation + 1}
    BY <1>9 DEF Receive, Handle, UseClock, Join, ClearDocuments, ClearWorkchain, ClearMasterchain,
                ClearFails, CreateFails, StartEngine, disk
  <2> QED BY <1>2, <2>1, <2>2
<1>10. ASSUME NEW t \in DOMAIN threads, Run(t) PROVE Bounded'
  BY <1>2, <1>10 DEF Run, SaveBlock, StayBusy, SeeStop, MissStop, process, disk
<1>11. CASE UNCHANGED vars
  BY <1>2, <1>11 DEF vars, process, disk
<1> QED BY <1>4, <1>5, <1>6, <1>7, <1>8, <1>9, <1>10, <1>11 DEF Next, Handle

LEMMA Typing == Spec => []TInv
<1>1. Init => TInv /\ Bounded
  BY InitTInv DEF Init, Bounded
<1>2. TInv /\ Bounded /\ [Next]_vars => (TInv /\ Bounded)'
  BY TypesKept, BoundedKept
<1> QED BY <1>1, <1>2, PTL DEF Spec

(* The variables have their types.                                         *)
THEOREM TypeCorrect == Spec => []TypeOK
<1>1. TInv => TypeOK
  BY DEF TInv
<1> QED BY <1>1, Typing, PTL

-----------------------------------------------------------------------------
(* Frames                                                                  *)

(* A step of a client moves no other client.                               *)
LEMMA OthersStay ==
    ASSUME TInv, NEW c \in Clients, Receive(c) \/ Handle(c)
    PROVE  \A d \in Clients : d # c =>
              /\ step'[d] = step[d] /\ own'[d] = own[d]
              /\ command'[d] = command[d] /\ since'[d] = since[d]
<1> SUFFICES ASSUME NEW d \in Clients, d # c
             PROVE  /\ step'[d] = step[d] /\ own'[d] = own[d]
                    /\ command'[d] = command[d] /\ since'[d] = since[d]
  OBVIOUS
<1>1. PICK s : step' = [step EXCEPT ![c] = s]
  BY DEF Receive, Handle, UseClock, Stop, Join, ClearDocuments, ClearWorkchain, ClearMasterchain,
         ClearFails, CreateEngine, CreateFails, AssignEngine, StartEngine, Answer, Goto
<1>2. own' = own \/ \E o : own' = [own EXCEPT ![c] = o]
  BY DEF Receive, Handle, UseClock, Stop, Join, ClearDocuments, ClearWorkchain, ClearMasterchain,
         ClearFails, CreateEngine, CreateFails, AssignEngine, StartEngine
<1>3. command' = command \/ \E o : command' = [command EXCEPT ![c] = o]
  BY DEF Receive, Handle, UseClock, Stop, Join, ClearDocuments, ClearWorkchain, ClearMasterchain,
         ClearFails, CreateEngine, CreateFails, AssignEngine, StartEngine, Answer
<1>4. since' = since \/ \E o : since' = [since EXCEPT ![c] = o]
  BY DEF Receive, Handle, UseClock, Stop, Join, ClearDocuments, ClearWorkchain, ClearMasterchain,
         ClearFails, CreateEngine, CreateFails, AssignEngine, StartEngine, Answer, history
<1>5. step'[d] = step[d]
  BY <1>1 DEF TInv, TypeOK
<1>6. own'[d] = own[d]
  BY <1>2 DEF TInv, TypeOK
<1>7. command'[d] = command[d]
  BY <1>3 DEF TInv, TypeOK
<1>8. since'[d] = since[d]
  BY <1>4 DEF TInv, TypeOK
<1> QED BY <1>5, <1>6, <1>7, <1>8

(* The steps of a client that leave engines, threads and manager alone.    *)
Quiet(c) ==
    \/ Receive(c) \/ UseClock(c) \/ Join(c)
    \/ ClearDocuments(c) \/ ClearWorkchain(c) \/ ClearMasterchain(c) \/ ClearFails(c)
    \/ CreateFails(c)

LEMMA QuietStep ==
    ASSUME TInv, NEW c \in Clients, Quiet(c)
    PROVE  /\ UNCHANGED <<manager, engines, threads>>
           /\ step[c] \notin {"stop", "assign", "start"}
           /\ step'[c] \notin {"join", "assign", "start"}
<1>1. UNCHANGED <<manager, engines, threads>>
  BY DEF Quiet, Receive, UseClock, Join, ClearDocuments, ClearWorkchain, ClearMasterchain,
         ClearFails, CreateFails, process
<1>2. step[c] \notin {"stop", "assign", "start"}
  BY DEF Quiet, Receive, UseClock, Join, ClearDocuments, ClearWorkchain, ClearMasterchain,
         ClearFails, CreateFails, Clearing, Answers
<1>3. PICK s \in Steps \ {"join", "assign", "start"} : step' = [step EXCEPT ![c] = s]
  <2>1. CASE Receive(c)
    BY <2>1 DEF Receive, Goto, Steps, Answers
  <2>2. CASE ~Receive(c)
    BY <2>2 DEF Quiet, UseClock, Join, ClearDocuments, ClearWorkchain, ClearMasterchain,
         ClearFails, CreateFails, Answer, Goto, AfterWorkchain, Steps, Answers, PastStop, Clearing
  <2> QED BY <2>1, <2>2
<1>4. step'[c] = s
  BY <1>3 DEF TInv, TypeOK
<1> QED BY <1>1, <1>2, <1>3, <1>4

LEMMA ClientSteps ==
    ASSUME NEW c \in Clients, Receive(c) \/ Handle(c)
    PROVE  Quiet(c) \/ Stop(c) \/ CreateEngine(c) \/ AssignEngine(c) \/ StartEngine(c)
  BY DEF Quiet, Handle

-----------------------------------------------------------------------------
(* An engine that accepts messages is served                               *)

LEMMA ServedKept ==
    ASSUME TInv, AcceptingEngineIsServed, [Next]_vars PROVE AcceptingEngineIsServed'
<1> DEFINE Serving(t) == threads[t] = [engine |-> manager.engine, state |-> "runs"]
<1>1. CASE Boot
  <2>1. threads = <<>>
    BY <1>1 DEF Boot, TInv, Owned
  <2>2. threads' = <<[engine |-> manager'.engine, state |-> "runs"]>>
    BY <1>1, <2>1 DEF Boot, StartThread
  <2>3. 1 \in DOMAIN threads' /\ threads'[1] = [engine |-> manager'.engine, state |-> "runs"]
    BY <2>2
  <2> QED BY <2>3 DEF AcceptingEngineIsServed
<1>2. CASE Crash
  BY <1>2 DEF Crash, AcceptingEngineIsServed, Up
<1>3. ASSUME NEW c \in Clients, Quiet(c) PROVE AcceptingEngineIsServed'
  <2>1. UNCHANGED <<manager, engines, threads>> /\ step[c] # "start"
    BY <1>3, QuietStep
  <2>2. \A d \in Clients : d # c => step'[d] = step[d]
    BY <1>3, OthersStay DEF Quiet, Handle
  <2> QED BY <2>1, <2>2 DEF AcceptingEngineIsServed, Up
<1>4. ASSUME NEW c \in Clients, Stop(c) PROVE AcceptingEngineIsServed'
  <2>1. manager.engine \in DOMAIN engines /\ engines[manager.engine] \in Engine
    BY <1>4, Typed DEF Stop, TInv, Owned, Up, None
  <2>2. engines' = [engines EXCEPT ![manager.engine].stopped = TRUE]
    BY <1>4 DEF Stop, StoppedQueue
  <2>3. manager'.engine = manager.engine
    BY <1>4 DEF Stop, TInv, TypeOK
  <2>4. engines'[manager'.engine].stopped = TRUE
    BY <2>1, <2>2, <2>3 DEF Engine
  <2> QED BY <2>4 DEF AcceptingEngineIsServed
<1>5. ASSUME NEW c \in Clients, CreateEngine(c) PROVE AcceptingEngineIsServed'
  <2>1. /\ engines' = Append(engines, EngineWith(ConfigFor(command[c])))
        /\ UNCHANGED <<manager, threads>> /\ step[c] = "create"
    BY <1>5 DEF CreateEngine
  <2>2. Up
    BY <2>1 DEF TInv, Owned
  <2>3. ConfigFor(command[c]) \in {"own", "fork"}
    BY ManagerBounds DEF ConfigFor
  <2>4. engines'[manager.engine] = engines[manager.engine]
    BY <2>1, <2>2, <2>3, EngineTyped, EngineAppended, Typed DEF TInv, Up, None
  <2>5. \A d \in Clients : d # c => step'[d] = step[d]
    BY <1>5, OthersStay DEF Handle
  <2> QED BY <2>1, <2>2, <2>4, <2>5 DEF AcceptingEngineIsServed
<1>6. ASSUME NEW c \in Clients, AssignEngine(c) PROVE AcceptingEngineIsServed'
  <2>1. step' = [step EXCEPT ![c] = "start"]
    BY <1>6 DEF AssignEngine, AfterAssign, Goto
  <2>2. step'[c] = "start"
    BY <2>1 DEF TInv, TypeOK
  <2> QED BY <2>2 DEF AcceptingEngineIsServed
<1>7. ASSUME NEW c \in Clients, StartEngine(c) PROVE AcceptingEngineIsServed'
  <2>1. threads' = Append(threads, [engine |-> manager'.engine, state |-> "runs"])
    BY <1>7 DEF StartEngine, StartThread
  <2>2. /\ Len(threads) \in Nat
        /\ threads \in Seq([engine : DOMAIN engines, state : ThreadStates])
    BY Typed DEF TInv, TypeOK
  <2>3. /\ Len(threads) + 1 \in DOMAIN threads'
        /\ threads'[Len(threads) + 1] = [engine |-> manager'.engine, state |-> "runs"]
    BY <2>1, <2>2
  <2> QED BY <2>3 DEF AcceptingEngineIsServed
<1>8. ASSUME NEW t \in DOMAIN threads, SaveBlock(t) PROVE AcceptingEngineIsServed'
  BY <1>8 DEF SaveBlock, process, clients, AcceptingEngineIsServed, Up
<1>9. ASSUME NEW t \in DOMAIN threads, StayBusy(t) \/ SeeStop(t) \/ MissStop(t) PROVE AcceptingEngineIsServed'
  <2>1. PICK s \in {"busy", "parked", "ended"} : threads' = [threads EXCEPT ![t].state = s]
    BY <1>9, ThreadSteps
  <2>2. engines[threads[t].engine].stopped /\ UNCHANGED <<manager, engines, step>>
    BY <1>9 DEF StayBusy, SeeStop, MissStop, Stopped, clients
  <2>3. CASE Serving(t)
    BY <2>2, <2>3 DEF AcceptingEngineIsServed
  <2>4. CASE ~Serving(t)
    <3>1. DOMAIN threads' = DOMAIN threads /\ \A i \in DOMAIN threads : i # t => threads'[i] = threads[i]
      BY <2>1, ThreadChanged, Typed DEF TInv
    <3> QED BY <2>2, <2>4, <3>1 DEF AcceptingEngineIsServed, Up
  <2> QED BY <2>3, <2>4
<1>10. CASE UNCHANGED vars
  BY <1>10 DEF vars, process, clients, AcceptingEngineIsServed, Up
<1> QED BY <1>1, <1>2, <1>3, <1>4, <1>5, <1>6, <1>7, <1>8, <1>9, <1>10, ClientSteps DEF Next, Run

(* An engine whose queue accepts messages is run by a thread or about to   *)
(* be, whatever fails and however requests race.                           *)
THEOREM Served == Spec => []AcceptingEngineIsServed
<1>1. Init => AcceptingEngineIsServed
  BY DEF Init, AcceptingEngineIsServed, Up
<1>2. TInv /\ AcceptingEngineIsServed /\ [Next]_vars => AcceptingEngineIsServed'
  BY ServedKept
<1> QED BY <1>1, <1>2, Typing, PTL DEF Spec

-----------------------------------------------------------------------------
(* One engine runs                                                         *)

LEMMA LiveThreads ==
    ASSUME TypeOK
    PROVE  \A t : t \in Live <=> t \in 1..Len(threads) /\ threads[t].state # "ended"
  BY Typed DEF Live

(* The parts of Alone, for a state without a race.                         *)
OneRebuilds == \A c, d \in Clients : step[c] \in PastStop /\ step[d] \in PastStop => c = d

OneLives ==
    /\ \A t \in Live : t = manager.thread \/ \E c \in Clients : step[c] = "join" /\ own[c] = t
    /\ \A t \in Live : threads[t].engine = manager.engine

NoneLives == \A c \in Clients : step[c] \in PastStop => Live = {}

OwnEngine == \A c \in Clients : step[c] = "assign" => own[c] # manager.engine

LEMMA AloneParts == Alone <=> (~raced => OneRebuilds /\ OneLives /\ NoneLives /\ OwnEngine)
  BY DEF Alone, OneRebuilds, OneLives, NoneLives, OwnEngine

(* After the wait no thread lives.                                         *)
LEMMA JoinedNoneLive ==
    ASSUME TInv, NEW c \in Clients, Join(c), OneLives
    PROVE  Live = {}
<1>1. step[c] = "join" /\ Ended(c)
  BY DEF Join
<1>2. lock = c /\ lock # None /\ manager.thread = None
  BY <1>1, Typed DEF TInv, Owned
<1> SUFFICES ASSUME NEW t \in Live PROVE FALSE
  OBVIOUS
<1>3. t \in 1..Len(threads) /\ threads[t].state # "ended"
  BY LiveThreads DEF TInv
<1>4. t # None /\ t # manager.thread
  BY <1>2, <1>3 DEF None
<1>5. PICK d \in Clients : step[d] = "join" /\ own[d] = t
  BY <1>4 DEF OneLives
<1>6. d = c
  BY <1>2, <1>5, Typed DEF TInv
<1> QED BY <1>1, <1>3, <1>4, <1>5, <1>6 DEF Ended

(* Steps that only clients notice, Join apart.                             *)
LEMMA QuietAlone ==
    ASSUME TInv, NEW c \in Clients, Quiet(c), ~Join(c), OneRebuilds, OneLives, NoneLives, OwnEngine
    PROVE  (OneRebuilds /\ OneLives /\ NoneLives /\ OwnEngine)'
<1>1. /\ UNCHANGED <<manager, engines, threads>>
      /\ step'[c] \notin {"join", "assign", "start"}
  BY QuietStep
<1>2. Live' = Live
  BY <1>1 DEF Live
<1>3. \A d \in Clients : d # c => step'[d] = step[d] /\ own'[d] = own[d]
  BY OthersStay DEF Quiet, Handle
<1>4. step'[c] \in PastStop => step[c] \in PastStop
  <2>1. CASE step[c] \in PastStop
    BY <2>1
  <2>2. CASE step[c] \notin PastStop
    <3>1. Receive(c) \/ UseClock(c)
      BY <2>2 DEF Quiet, ClearDocuments, ClearWorkchain, ClearMasterchain, ClearFails, CreateFails,
                  PastStop, Clearing
    <3>2. PICK s \in {"bad request", "node", "stop", "ok"} : step' = [step EXCEPT ![c] = s]
      BY <3>1 DEF Receive, UseClock, Answer, Goto
    <3>3. step'[c] = s
      BY <3>2 DEF TInv, TypeOK
    <3> QED BY <3>3 DEF PastStop, Clearing
  <2> QED BY <2>1, <2>2
<1>5. step[c] # "join"
  BY DEF Quiet, Receive, UseClock, ClearDocuments, ClearWorkchain, ClearMasterchain, ClearFails,
         CreateFails, Answers, Clearing
<1>6. OneRebuilds' /\ NoneLives'
  BY <1>2, <1>3, <1>4 DEF OneRebuilds, NoneLives
<1>7. OneLives'
  BY <1>1, <1>2, <1>3, <1>5 DEF OneLives
<1>8. OwnEngine'
  BY <1>1, <1>3 DEF OwnEngine
<1> QED BY <1>6, <1>7, <1>8

LEMMA JoinAlone ==
    ASSUME TInv, NEW c \in Clients, Join(c), Rebuilding = {}, OneLives
    PROVE  (OneRebuilds /\ OneLives /\ NoneLives /\ OwnEngine)'
<1>1. /\ UNCHANGED <<manager, engines, threads>>
      /\ step'[c] \notin {"join", "assign", "start"}
  BY QuietStep DEF Quiet
<1>2. Live' = {}
  BY <1>1, JoinedNoneLive DEF Live
<1>3. \A d \in Clients : d # c => step'[d] = step[d] /\ step[d] \notin PastStop
  BY OthersStay DEF Handle, Rebuilding
<1>4. \A d \in Clients : step'[d] \in PastStop => d = c
  BY <1>3
<1>5. \A d \in Clients : step'[d] # "assign"
  BY <1>1, <1>3 DEF PastStop
<1> QED BY <1>2, <1>4, <1>5 DEF OneRebuilds, OneLives, NoneLives, OwnEngine

LEMMA StopAlone ==
    ASSUME TInv, NEW c \in Clients, Stop(c), OneRebuilds, OneLives, NoneLives, OwnEngine
    PROVE  (OneRebuilds /\ OneLives /\ NoneLives /\ OwnEngine)'
<1>1. /\ step[c] = "stop" /\ lock = None
      /\ own' = [own EXCEPT ![c] = manager.thread]
      /\ step' = [step EXCEPT ![c] = "join"]
      /\ UNCHANGED threads
  BY DEF Stop, Goto
<1>2. manager'.engine = manager.engine
  BY DEF Stop, TInv, TypeOK
<1>3. step'[c] = "join" /\ own'[c] = manager.thread
  BY <1>1 DEF TInv, TypeOK
<1>4. \A d \in Clients : d # c => step'[d] = step[d] /\ own'[d] = own[d]
  BY OthersStay DEF Handle
<1>5. Live' = Live
  BY <1>1 DEF Live
<1>6. \A d \in Clients : step[d] # "join"
  BY <1>1, Typed DEF TInv
<1>7. OneLives'
  BY <1>1, <1>2, <1>3, <1>5, <1>6 DEF OneLives
<1>8. "join" \notin PastStop /\ "assign" # "join"
  BY DEF PastStop, Clearing
<1> QED BY <1>2, <1>3, <1>4, <1>5, <1>7, <1>8 DEF OneRebuilds, NoneLives, OwnEngine

LEMMA CreateAlone ==
    ASSUME TInv, NEW c \in Clients, CreateEngine(c), OneRebuilds, OneLives, NoneLives, OwnEngine
    PROVE  (OneRebuilds /\ OneLives /\ NoneLives /\ OwnEngine)'
<1>1. /\ step[c] = "create" /\ UNCHANGED <<manager, threads>>
      /\ engines' = Append(engines, EngineWith(ConfigFor(command[c])))
      /\ own' = [own EXCEPT ![c] = Len(engines')]
      /\ step' = [step EXCEPT ![c] = "assign"]
  BY DEF CreateEngine, Goto
<1>2. step'[c] = "assign" /\ own'[c] = Len(engines')
  BY <1>1 DEF TInv, TypeOK
<1>3. \A d \in Clients : d # c => step'[d] = step[d] /\ own'[d] = own[d]
  BY OthersStay DEF Handle
<1>4. Live' = Live
  BY <1>1 DEF Live
<1>5. {"create", "assign"} \subseteq PastStop /\ "join" \notin {"create", "assign"}
  BY DEF PastStop
<1>6. OneRebuilds' /\ NoneLives'
  BY <1>1, <1>2, <1>3, <1>4, <1>5 DEF OneRebuilds, NoneLives
<1>7. OneLives'
  BY <1>1, <1>3, <1>4, <1>5 DEF OneLives
<1>8. Len(engines') = Len(engines) + 1 /\ manager.engine \in 0..Len(engines) /\ Len(engines) \in Nat
  <2>1. ConfigFor(command[c]) \in {"own", "fork"}
    BY ManagerBounds DEF ConfigFor
  <2> QED BY <1>1, <2>1, EngineTyped, EngineAppended, Typed DEF TInv
<1>9. own'[c] # manager.engine
  BY <1>2, <1>8
<1> QED BY <1>1, <1>3, <1>6, <1>7, <1>9 DEF OwnEngine

LEMMA AssignAlone ==
    ASSUME TInv, NEW c \in Clients, AssignEngine(c), OneRebuilds, NoneLives
    PROVE  (OneRebuilds /\ OneLives /\ NoneLives /\ OwnEngine)'
<1>1. /\ step[c] = "assign" /\ UNCHANGED threads
      /\ step' = [step EXCEPT ![c] = "start"]
  BY DEF AssignEngine, AfterAssign, Goto
<1>2. step'[c] = "start"
  BY <1>1 DEF TInv, TypeOK
<1>3. \A d \in Clients : d # c => step'[d] = step[d]
  BY OthersStay DEF Handle
<1>4. Live' = {}
  BY <1>1 DEF Live, NoneLives, PastStop
<1>5. \A d \in Clients : step'[d] \in PastStop => d = c
  BY <1>1, <1>3 DEF OneRebuilds, PastStop
<1>6. \A d \in Clients : step'[d] # "assign"
  BY <1>2, <1>5 DEF PastStop
<1> QED BY <1>4, <1>5, <1>6 DEF OneRebuilds, OneLives, NoneLives, OwnEngine

LEMMA StartAlone ==
    ASSUME TInv, NEW c \in Clients, StartEngine(c), OneRebuilds, NoneLives
    PROVE  (OneRebuilds /\ OneLives /\ NoneLives /\ OwnEngine)'
<1>1. /\ step[c] = "start"
      /\ manager' = [manager EXCEPT !.thread = Len(threads) + 1]
      /\ threads' = Append(threads, [engine |-> manager'.engine, state |-> "runs"])
      /\ step' = [step EXCEPT ![c] = "ok"]
  BY DEF StartEngine, StartThread, Answer, Goto
<1>2. step'[c] = "ok"
  BY <1>1 DEF TInv, TypeOK
<1>3. \A d \in Clients : d # c => step'[d] = step[d]
  BY OthersStay DEF Handle
<1>4. \A d \in Clients : step'[d] \notin PastStop
  BY <1>1, <1>2, <1>3 DEF OneRebuilds, PastStop, Clearing
<1>5. Len(threads) \in Nat /\ \A t \in 1..Len(threads) : threads[t].state = "ended"
  <2>1. Live = {}
    BY <1>1 DEF NoneLives, PastStop
  <2> QED BY <2>1, LiveThreads, Typed DEF TInv
<1>6. /\ Len(threads') = Len(threads) + 1 /\ DOMAIN threads' = 1..Len(threads')
      /\ \A t \in 1..Len(threads) : threads'[t] = threads[t]
      /\ threads'[Len(threads) + 1].engine = manager'.engine
  <2>1. threads \in Seq([engine : DOMAIN engines, state : ThreadStates])
    BY DEF TInv, TypeOK
  <2> QED BY <1>1, <2>1
<1>7. manager'.thread = Len(threads) + 1
  BY <1>1 DEF TInv, TypeOK
<1>8. \A t \in Live' : t = Len(threads) + 1
  BY <1>5, <1>6 DEF Live
<1>9. OneLives'
  BY <1>6, <1>7, <1>8 DEF OneLives
<1>10. "assign" \in PastStop
  BY DEF PastStop
<1> QED BY <1>4, <1>9, <1>10 DEF OneRebuilds, NoneLives, OwnEngine

LEMMA RunAlone ==
    ASSUME TInv, NEW t \in DOMAIN threads, Run(t), OneRebuilds, OneLives, NoneLives, OwnEngine
    PROVE  (OneRebuilds /\ OneLives /\ NoneLives /\ OwnEngine)'
<1>1. UNCHANGED <<manager, step, own>>
  BY DEF Run, SaveBlock, StayBusy, SeeStop, MissStop, process, clients
<1>2. Live' \subseteq Live /\ \A i \in Live : threads'[i].engine = threads[i].engine
  <2>1. CASE SaveBlock(t)
    BY <2>1 DEF SaveBlock, process, Live
  <2>2. CASE StayBusy(t) \/ SeeStop(t) \/ MissStop(t)
    <3>1. PICK s \in {"busy", "parked", "ended"} : threads' = [threads EXCEPT ![t].state = s]
      BY <2>2, ThreadSteps
    <3>2. threads[t].state # "ended"
      BY <2>2, ThreadSteps
    <3>3. /\ DOMAIN threads' = DOMAIN threads
          /\ \A i \in 1..Len(threads) : i # t => threads'[i] = threads[i]
          /\ \A i \in 1..Len(threads) : threads'[i].engine = threads[i].engine
      BY <3>1, ThreadChanged DEF TInv
    <3> QED BY <3>2, <3>3, Typed DEF TInv, Live
  <2> QED BY <2>1, <2>2 DEF Run
<1> QED BY <1>1, <1>2 DEF OneRebuilds, OneLives, NoneLives, OwnEngine

(* The steps that change whether requests raced.                           *)
LEMMA RacedSteps ==
    ASSUME [Next]_vars, ~raced'
    PROVE  Crash \/ (~raced /\ \A c \in Clients : Join(c) => Rebuilding = {})
<1>1. CASE Crash
  BY <1>1
<1>2. ASSUME NEW c \in Clients, Join(c) PROVE ~raced /\ Rebuilding = {}
  BY <1>2 DEF Join
<1>3. ASSUME ~Crash, \A c \in Clients : ~Join(c) PROVE raced' = raced
  BY <1>3 DEF Next, Boot, Receive, Handle, UseClock, Stop, ClearDocuments, ClearWorkchain,
              ClearMasterchain, ClearFails, CreateEngine, CreateFails, AssignEngine, StartEngine,
              Run, SaveBlock, StayBusy, SeeStop, MissStop, vars, history
<1> QED BY <1>1, <1>2, <1>3

LEMMA AloneKept ==
    ASSUME TInv, Alone, [Next]_vars PROVE Alone'
<1> DEFINE Parts == OneRebuilds /\ OneLives /\ NoneLives /\ OwnEngine
<1> SUFFICES ASSUME ~raced' PROVE Parts'
  BY DEF Alone, OneRebuilds, OneLives, NoneLives, OwnEngine
<1>1. CASE Crash
  <2>1. threads' = <<>> /\ \A c \in Clients : step'[c] = "idle"
    BY <1>1 DEF Crash
  <2>2. Live' = {}
    BY <2>1 DEF Live
  <2> QED BY <2>1, <2>2 DEF PastStop, Clearing, OneRebuilds, OneLives, NoneLives, OwnEngine
<1>2. CASE ~Crash
  <2>1. ~raced /\ \A c \in Clients : Join(c) => Rebuilding = {}
    BY <1>2, RacedSteps
  <2>2. OneRebuilds /\ OneLives /\ NoneLives /\ OwnEngine
    BY <2>1, AloneParts
  <2>3. CASE Boot
    <3>1. /\ \A c \in Clients : step'[c] = "idle"
          /\ manager' = [engine |-> 1, thread |-> 1]
      BY <2>3 DEF Boot, clients, TInv, Owned
    <3>2. threads = <<>>
      BY <2>3 DEF Boot, TInv, Owned
    <3>3. threads' = <<[engine |-> 1, state |-> "runs"]>>
      BY <2>3, <3>2, <3>1 DEF Boot, StartThread
    <3>4. DOMAIN threads' = {1} /\ threads'[1].engine = 1
      BY <3>3
    <3>5. \A t \in Live' : t = 1
      BY <3>4 DEF Live
    <3> QED BY <3>1, <3>4, <3>5 DEF PastStop, Clearing, OneRebuilds, OneLives, NoneLives, OwnEngine
  <2>4. ASSUME NEW c \in Clients, Receive(c) \/ Handle(c) PROVE Parts'
    BY <2>1, <2>2, <2>4, ClientSteps, QuietAlone, JoinAlone, StopAlone, CreateAlone, AssignAlone, StartAlone
  <2>5. ASSUME NEW t \in DOMAIN threads, Run(t) PROVE Parts'
    BY <2>2, <2>5, RunAlone
  <2>6. CASE UNCHANGED vars
    BY <2>2, <2>6 DEF vars, process, clients, Live, OneRebuilds, OneLives, NoneLives, OwnEngine
  <2> QED BY <1>2, <2>3, <2>4, <2>5, <2>6 DEF Next
<1> QED BY <1>1, <1>2

LEMMA AlwaysAlone == Spec => [](TInv /\ Alone)
<1>1. Init => Alone
  <2> SUFFICES ASSUME Init PROVE Alone
    OBVIOUS
  <2>1. Live = {} /\ \A c \in Clients : step[c] = "idle"
    BY DEF Init, Live
  <2> QED BY <2>1 DEF Alone, PastStop, Clearing
<1>2. TInv /\ Alone /\ [Next]_vars => Alone'
  BY AloneKept
<1> QED BY <1>1, <1>2, Typing, PTL DEF Spec

(* At most one engine runs, the one that the manager has, and none while   *)
(* files are cleared and an engine is made, unless requests raced.         *)
THEOREM OnlyOneRuns == Spec => []OneEngineRuns
<1>1. ASSUME TInv, Alone PROVE OneEngineRuns
  <2> SUFFICES ASSUME ~raced
               PROVE  /\ \A s, t \in Live : s = t
                      /\ \A t \in Live : threads[t].engine = manager.engine
                      /\ Rebuilding # {} => Live = {}
    BY DEF OneEngineRuns
  <2>1. OneLives /\ NoneLives
    BY <1>1, AloneParts
  <2>2. \A t \in Live : t # None
    BY <1>1, LiveThreads DEF TInv, None
  <2>3. CASE lock = None
    <3>1. \A c \in Clients : step[c] # "join"
      BY <1>1, <2>3, Typed DEF TInv
    <3> QED BY <2>1, <3>1 DEF OneLives, NoneLives, Rebuilding
  <2>4. CASE lock # None
    <3>1. manager.thread = None
      BY <1>1, <2>4 DEF TInv, Owned
    <3>2. \A c \in Clients : step[c] = "join" => c = lock
      BY <1>1, Typed DEF TInv
    <3> QED BY <2>1, <2>2, <3>1, <3>2 DEF OneLives, NoneLives, Rebuilding
  <2> QED BY <2>3, <2>4
<1>2. TInv /\ Alone => OneEngineRuns
  BY <1>1
<1> QED BY <1>2, AlwaysAlone, PTL

-----------------------------------------------------------------------------
(* One generation                                                          *)

(* The parts of Generations, for a state without a race.                   *)
NextToClear == \A k \in Clients : step[k] = "clear masterchain" => files["workchain"] = None

FilesCurrent ==
    /\ files["workchain"] \in {None, generation}
    /\ \/ files["masterchain"] \in {None, generation}
       \/ \E k \in Clients : step[k] = "clear masterchain"

EnginesCurrent ==
    /\ \A t \in Live : Current(threads[t].engine)
    /\ \A k \in Clients : step[k] = "assign" => Current(own[k])
    /\ \A k \in Clients : step[k] = "start" => Current(manager.engine)

AllCurrent == NextToClear /\ (~cut => FilesCurrent /\ EnginesCurrent)

LEMMA GenerationsParts == Generations <=> (~raced => AllCurrent)
  BY DEF Generations, AllCurrent, NextToClear, FilesCurrent, EnginesCurrent

(* What is loaded from the files, or anew, is of the last generation.      *)
LEMMA LoadedCurrent ==
    ASSUME FilesCurrent, \A k \in Clients : step[k] # "clear masterchain"
    PROVE  \A d \in Chains : Loaded(d) = generation
<1> SUFFICES ASSUME NEW d \in Chains PROVE Loaded(d) = generation
  OBVIOUS
<1>1. files[d] \in {None, generation}
  BY DEF FilesCurrent, Chains
<1> QED BY <1>1 DEF Loaded

(* Steps that leave files and engines as they are.                         *)
LEMMA IdleCurrent ==
    ASSUME TInv, NEW c \in Clients,
           Receive(c) \/ UseClock(c) \/ Join(c) \/ ClearDocuments(c) \/ CreateFails(c), AllCurrent
    PROVE  AllCurrent'
<1>1. /\ UNCHANGED <<manager, engines, threads>>
      /\ step'[c] \notin {"assign", "start"}
  BY QuietStep DEF Quiet
<1>2. UNCHANGED <<files, generation, cut>>
  BY DEF Receive, UseClock, Join, ClearDocuments, CreateFails, disk, history
<1>3. \A d \in Clients : d # c => step'[d] = step[d] /\ own'[d] = own[d]
  BY OthersStay DEF Handle
<1>4. step[c] # "clear masterchain"
  BY DEF Receive, UseClock, Join, ClearDocuments, CreateFails, Answers
<1>5. step'[c] # "clear masterchain"
  <2>1. PICK s \in {"bad request", "node", "stop", "ok", "clear documents", "create",
                    "clear workchain", "server error"} :
           step' = [step EXCEPT ![c] = s]
    <3>1. CASE Receive(c)
      BY <3>1 DEF Receive, Goto
    <3>2. CASE UseClock(c) \/ Join(c) \/ ClearDocuments(c) \/ CreateFails(c)
      BY <3>2 DEF UseClock, Join, ClearDocuments, CreateFails, Answer, Goto
    <3> QED BY <3>1, <3>2
  <2> QED BY <2>1 DEF TInv, TypeOK
<1>6. NextToClear' <=> NextToClear
  BY <1>2, <1>3, <1>4, <1>5 DEF NextToClear
<1>7. FilesCurrent' <=> FilesCurrent
  BY <1>2, <1>3, <1>4, <1>5 DEF FilesCurrent
<1>8. EnginesCurrent => EnginesCurrent'
  BY <1>1, <1>2, <1>3 DEF EnginesCurrent, Current, Live
<1> QED BY <1>2, <1>6, <1>7, <1>8 DEF AllCurrent

(* While one request rebuilds, its step is the only one that counts.       *)
LEMMA OthersDone ==
    ASSUME TInv, NEW c \in Clients, Receive(c) \/ Handle(c), step[c] \in PastStop, OneRebuilds
    PROVE  \A d \in Clients : d # c => step[d] \notin PastStop /\ step'[d] \notin PastStop
<1>1. \A d \in Clients : d # c => step[d] \notin PastStop
  BY DEF OneRebuilds
<1> QED BY <1>1, OthersStay

LEMMA ClearingCurrent ==
    ASSUME TInv, NEW c \in Clients, ClearWorkchain(c) \/ ClearMasterchain(c) \/ ClearFails(c),
           OneRebuilds, NoneLives, AllCurrent
    PROVE  AllCurrent'
<1>1. step[c] \in Clearing
  BY DEF ClearWorkchain, ClearMasterchain, ClearFails, Clearing
<1>2. \A d \in Clients : d # c => step[d] \notin PastStop /\ step'[d] \notin PastStop
  BY <1>1, OthersDone DEF Handle, PastStop
<1>3. Live' = {}
  BY <1>1, QuietStep DEF Quiet, NoneLives, PastStop, Live
<1>4. step'[c] \notin {"assign", "start"}
  BY QuietStep DEF Quiet
<1>5. EnginesCurrent'
  BY <1>2, <1>3, <1>4 DEF EnginesCurrent, PastStop
<1>6. "workchain" \in DOMAIN files /\ "masterchain" \in DOMAIN files
  BY DEF TInv, TypeOK, Chains
<1>7. CASE ClearWorkchain(c)
  <2>1. files' = [files EXCEPT !["workchain"] = None] /\ step' = [step EXCEPT ![c] = "clear masterchain"]
    BY <1>7 DEF ClearWorkchain, AfterWorkchain, Goto
  <2>2. step'[c] = "clear masterchain"
    BY <2>1 DEF TInv, TypeOK
  <2>3. files'["workchain"] = None
    BY <1>6, <2>1
  <2> QED BY <1>5, <2>2, <2>3 DEF AllCurrent, NextToClear, FilesCurrent
<1>8. CASE ClearMasterchain(c)
  <2>1. /\ step[c] = "clear masterchain"
        /\ files' = [files EXCEPT !["masterchain"] = None] /\ step' = [step EXCEPT ![c] = "create"]
    BY <1>8 DEF ClearMasterchain, Goto
  <2>2. step'[c] # "clear masterchain"
    BY <2>1 DEF TInv, TypeOK
  <2>3. \A d \in Clients : step'[d] # "clear masterchain"
    BY <1>2, <2>2 DEF PastStop, Clearing
  <2>4. files["workchain"] = None
    BY <2>1 DEF AllCurrent, NextToClear
  <2>5. files'["workchain"] = None /\ files'["masterchain"] = None
    BY <1>6, <2>1, <2>4
  <2> QED BY <1>5, <2>3, <2>5 DEF AllCurrent, NextToClear, FilesCurrent
<1>9. CASE ClearFails(c)
  <2>1. step' = [step EXCEPT ![c] = "server error"]
    BY <1>9 DEF ClearFails, Answer, Goto
  <2>2. step'[c] # "clear masterchain"
    BY <2>1 DEF TInv, TypeOK
  <2>3. \A d \in Clients : step'[d] # "clear masterchain"
    BY <1>2, <2>2 DEF PastStop, Clearing
  <2>4. NextToClear'
    BY <2>3 DEF NextToClear
  <2>5. CASE cut' = TRUE
    BY <2>4, <2>5 DEF AllCurrent
  <2>6. CASE UNCHANGED disk /\ cut' = (cut \/ step[c] = "clear masterchain")
    <3> SUFFICES ASSUME ~cut' PROVE FilesCurrent'
      BY <1>5, <2>4 DEF AllCurrent
    <3>1. ~cut /\ step[c] # "clear masterchain" /\ UNCHANGED <<files, generation>>
      BY <2>6 DEF disk
    <3>2. \A d \in Clients : step[d] # "clear masterchain"
      BY <1>2, <3>1 DEF PastStop, Clearing
    <3> QED BY <3>1, <3>2 DEF AllCurrent, FilesCurrent
  <2> QED BY <1>9, <2>5, <2>6 DEF ClearFails
<1> QED BY <1>7, <1>8, <1>9

LEMMA StopCurrent ==
    ASSUME TInv, NEW c \in Clients, Stop(c), AllCurrent
    PROVE  AllCurrent'
<1>1. /\ step[c] = "stop"
      /\ engines' = [engines EXCEPT ![manager.engine].stopped = TRUE]
      /\ step' = [step EXCEPT ![c] = "join"]
      /\ UNCHANGED <<threads, files, generation, cut>>
  BY DEF Stop, StoppedQueue, Goto, disk, history
<1>2. manager'.engine = manager.engine
  BY DEF Stop, TInv, TypeOK
<1>3. step'[c] = "join"
  BY <1>1 DEF TInv, TypeOK
<1>4. \A d \in Clients : d # c => step'[d] = step[d] /\ own'[d] = own[d]
  BY OthersStay DEF Handle
<1>5. \A e \in 1..Len(engines) : engines'[e].chain = engines[e].chain
  BY <1>1, Typed DEF TInv, Engine
<1>6. \A e \in 1..Len(engines) : Current(e) => Current(e)'
  BY <1>1, <1>5 DEF Current
<1>7. NextToClear' <=> NextToClear
  BY <1>1, <1>3, <1>4 DEF NextToClear
<1>8. FilesCurrent' <=> FilesCurrent
  BY <1>1, <1>3, <1>4 DEF FilesCurrent
<1>9. EnginesCurrent => EnginesCurrent'
  <2>1. \A t \in Live' :
           t \in Live /\ threads'[t].engine = threads[t].engine /\ threads[t].engine \in 1..Len(engines)
    BY <1>1, Typed DEF TInv, Live
  <2>2. \A d \in Clients : step'[d] = "assign" =>
           step[d] = "assign" /\ own'[d] = own[d] /\ own[d] \in 1..Len(engines)
    BY <1>3, <1>4 DEF TInv, Owned
  <2>3. \A d \in Clients : step'[d] = "start" => step[d] = "start"
    BY <1>3, <1>4
  <2>4. manager.engine \in 1..Len(engines)
    BY <1>1, Typed DEF TInv, Owned, Up, None
  <2> QED BY <1>2, <1>6, <2>1, <2>2, <2>3, <2>4 DEF EnginesCurrent
<1> QED BY <1>1, <1>7, <1>8, <1>9 DEF AllCurrent

LEMMA CreateCurrent ==
    ASSUME TInv, NEW c \in Clients, CreateEngine(c), OneRebuilds, NoneLives, AllCurrent
    PROVE  AllCurrent'
<1> DEFINE e == EngineWith(ConfigFor(command[c]))
<1>1. /\ step[c] = "create" /\ UNCHANGED <<threads, files, generation, cut>>
      /\ engines' = Append(engines, e)
      /\ own' = [own EXCEPT ![c] = Len(engines')]
      /\ step' = [step EXCEPT ![c] = "assign"]
  BY DEF CreateEngine, Goto, disk, history
<1>2. step'[c] = "assign" /\ own'[c] = Len(engines')
  BY <1>1 DEF TInv, TypeOK
<1>3. \A d \in Clients : d # c => step[d] \notin PastStop /\ step'[d] \notin PastStop
  BY <1>1, OthersDone DEF Handle, PastStop
<1>4. \A d \in Clients : step[d] # "clear masterchain" /\ step'[d] # "clear masterchain"
  BY <1>1, <1>2, <1>3 DEF PastStop, Clearing
<1>5. Live' = {}
  BY <1>1 DEF Live, NoneLives, PastStop
<1>6. ConfigFor(command[c]) \in {"own", "fork"}
  BY ManagerBounds DEF ConfigFor
<1>7. engines'[Len(engines')] = e
  BY <1>1, <1>6, EngineTyped, EngineAppended DEF TInv
<1>8. \A d \in Chains : e.chain[d] = Loaded(d)
  BY <1>6, EngineTyped DEF TInv
<1> HIDE DEF e
<1>9. FilesCurrent => Current(own[c])'
  BY <1>1, <1>2, <1>4, <1>7, <1>8, LoadedCurrent DEF Current
<1>10. FilesCurrent => EnginesCurrent'
  BY <1>2, <1>3, <1>5, <1>9 DEF EnginesCurrent, PastStop
<1>11. NextToClear' /\ (FilesCurrent => FilesCurrent')
  BY <1>1, <1>4 DEF NextToClear, FilesCurrent
<1> QED BY <1>1, <1>10, <1>11 DEF AllCurrent

LEMMA AssignCurrent ==
    ASSUME TInv, NEW c \in Clients, AssignEngine(c), OneRebuilds, NoneLives, OwnEngine, AllCurrent
    PROVE  AllCurrent'
<1>1. /\ step[c] = "assign" /\ UNCHANGED <<threads, files, generation, cut>>
      /\ engines' = engines \/ engines' = [engines EXCEPT ![manager.engine] = Dropped]
      /\ manager'.engine = own[c]
      /\ step' = [step EXCEPT ![c] = "start"]
  BY DEF AssignEngine, AfterAssign, Goto, disk, history
<1>2. step'[c] = "start"
  BY <1>1 DEF TInv, TypeOK
<1>3. \A d \in Clients : d # c => step[d] \notin PastStop /\ step'[d] \notin PastStop
  BY <1>1, OthersDone DEF Handle, PastStop
<1>4. \A d \in Clients : step[d] # "clear masterchain" /\ step'[d] # "clear masterchain"
  BY <1>1, <1>2, <1>3 DEF PastStop, Clearing
<1>5. Live' = {}
  BY <1>1 DEF Live, NoneLives, PastStop
<1>6. engines'[own[c]] = engines[own[c]]
  <2>1. own[c] # manager.engine
    BY <1>1 DEF OwnEngine
  <2> QED BY <1>1, <2>1, Typed DEF TInv, Owned
<1>7. Current(own[c]) => Current(manager.engine)'
  BY <1>1, <1>6 DEF Current
<1>8. EnginesCurrent => EnginesCurrent'
  BY <1>1, <1>2, <1>3, <1>5, <1>7 DEF EnginesCurrent, PastStop
<1>9. NextToClear' /\ (FilesCurrent => FilesCurrent')
  BY <1>1, <1>4 DEF NextToClear, FilesCurrent
<1> QED BY <1>1, <1>8, <1>9 DEF AllCurrent

LEMMA StartCurrent ==
    ASSUME TInv, NEW c \in Clients, StartEngine(c), OneRebuilds, NoneLives, AllCurrent
    PROVE  AllCurrent'
<1>1. /\ step[c] = "start" /\ UNCHANGED <<engines, files, generation, cut>>
      /\ threads' = Append(threads, [engine |-> manager'.engine, state |-> "runs"])
      /\ step' = [step EXCEPT ![c] = "ok"]
  BY DEF StartEngine, StartThread, Answer, Goto, disk
<1>2. step'[c] = "ok"
  BY <1>1 DEF TInv, TypeOK
<1>3. \A d \in Clients : d # c => step[d] \notin PastStop /\ step'[d] \notin PastStop
  BY <1>1, OthersDone DEF Handle, PastStop
<1>4. \A d \in Clients : step[d] # "clear masterchain" /\ step'[d] \notin PastStop
  BY <1>1, <1>2, <1>3 DEF PastStop, Clearing
<1>5. manager'.engine = manager.engine
  BY DEF StartEngine, TInv, TypeOK
<1>6. Len(threads) \in Nat /\ \A t \in 1..Len(threads) : threads[t].state = "ended"
  <2>1. Live = {}
    BY <1>1 DEF NoneLives, PastStop
  <2> QED BY <2>1, LiveThreads, Typed DEF TInv
<1>7. /\ Len(threads') = Len(threads) + 1 /\ DOMAIN threads' = 1..Len(threads')
      /\ \A t \in 1..Len(threads) : threads'[t] = threads[t]
      /\ threads'[Len(threads) + 1].engine = manager.engine
  <2>1. threads \in Seq([engine : DOMAIN engines, state : ThreadStates])
    BY DEF TInv, TypeOK
  <2> QED BY <1>1, <1>5, <2>1
<1>8. \A t \in Live' : threads'[t].engine = manager.engine
  BY <1>6, <1>7 DEF Live
<1>9. Current(manager.engine) => Current(manager.engine)'
  BY <1>1, <1>5 DEF Current
<1>10. EnginesCurrent => EnginesCurrent'
  BY <1>1, <1>4, <1>5, <1>8, <1>9 DEF EnginesCurrent, PastStop, Current
<1>11. NextToClear' /\ (FilesCurrent => FilesCurrent')
  BY <1>1, <1>4 DEF NextToClear, FilesCurrent, PastStop, Clearing
<1> QED BY <1>1, <1>10, <1>11 DEF AllCurrent

LEMMA RunCurrent ==
    ASSUME TInv, NEW t \in DOMAIN threads, Run(t), NoneLives, AllCurrent
    PROVE  AllCurrent'
<1>1. UNCHANGED <<manager, engines, step, own, generation, cut>>
  BY DEF Run, SaveBlock, StayBusy, SeeStop, MissStop, process, disk, clients, history
<1>2. CASE SaveBlock(t)
  <2>1. t \in Live /\ Live' = Live /\ UNCHANGED threads
    BY <1>2 DEF SaveBlock, process, Live
  <2>2. PICK k \in Chains : files' = [files EXCEPT ![k] = engines[threads[t].engine].chain[k]]
    BY <1>2 DEF SaveBlock
  <2>3. \A c \in Clients : step[c] \notin PastStop
    BY <2>1 DEF NoneLives
  <2>4. \A c \in Clients : step'[c] # "clear masterchain" /\ step[c] # "clear masterchain"
    BY <1>1, <2>3 DEF PastStop, Clearing
  <2>5. EnginesCurrent => EnginesCurrent'
    BY <1>1, <2>1 DEF EnginesCurrent, Current
  <2>6. EnginesCurrent => engines[threads[t].engine].chain[k] = generation
    BY <2>1, <2>2 DEF EnginesCurrent, Current
  <2>7. files \in [Chains -> 0..generation] /\ Chains = {"workchain", "masterchain"}
    BY DEF TInv, TypeOK, Chains
  <2>8. FilesCurrent /\ EnginesCurrent => FilesCurrent'
    BY <1>1, <2>2, <2>4, <2>6, <2>7 DEF FilesCurrent
  <2> QED BY <1>1, <2>4, <2>5, <2>8 DEF AllCurrent, NextToClear
<1>3. CASE StayBusy(t) \/ SeeStop(t) \/ MissStop(t)
  <2>1. PICK s \in {"busy", "parked", "ended"} : threads' = [threads EXCEPT ![t].state = s]
    BY <1>3, ThreadSteps
  <2>2. threads[t].state # "ended" /\ UNCHANGED files
    BY <1>3, ThreadSteps DEF disk
  <2>3. /\ DOMAIN threads' = DOMAIN threads
        /\ \A i \in 1..Len(threads) : i # t => threads'[i] = threads[i]
        /\ \A i \in 1..Len(threads) : threads'[i].engine = threads[i].engine
    BY <2>1, ThreadChanged DEF TInv
  <2>4. \A i \in Live' : i \in Live /\ threads'[i].engine = threads[i].engine
    BY <2>2, <2>3, Typed DEF TInv, Live
  <2>5. EnginesCurrent => EnginesCurrent'
    BY <1>1, <2>4 DEF EnginesCurrent, Current
  <2>6. (NextToClear => NextToClear') /\ (FilesCurrent => FilesCurrent')
    BY <1>1, <2>2 DEF NextToClear, FilesCurrent
  <2> QED BY <1>1, <2>5, <2>6 DEF AllCurrent
<1> QED BY <1>2, <1>3 DEF Run

LEMMA GenerationsKept ==
    ASSUME TInv, Alone, Generations, [Next]_vars PROVE Generations'
<1> SUFFICES ASSUME ~raced' PROVE AllCurrent'
  BY DEF Generations, AllCurrent, NextToClear, FilesCurrent, EnginesCurrent
<1>1. CASE Crash
  <2>1. /\ threads' = <<>> /\ \A c \in Clients : step'[c] = "idle"
        /\ UNCHANGED <<files, generation>>
    BY <1>1 DEF Crash, disk
  <2>2. Live' = {}
    BY <2>1 DEF Live
  <2>3. NextToClear' /\ EnginesCurrent'
    BY <2>1, <2>2 DEF NextToClear, EnginesCurrent
  <2>4. ~cut' => FilesCurrent'
    <3> SUFFICES ASSUME ~cut' PROVE FilesCurrent'
      OBVIOUS
    <3>1. ~cut /\ ~raced /\ \A c \in Clients : step[c] # "clear masterchain"
      BY <1>1, Zenon DEF Crash
    <3>2. FilesCurrent
      BY <3>1, GenerationsParts DEF AllCurrent
    <3> QED BY <2>1, <3>1, <3>2 DEF FilesCurrent
  <2> QED BY <2>3, <2>4 DEF AllCurrent
<1>2. CASE ~Crash
  <2>1. ~raced
    BY <1>2, RacedSteps
  <2>2. OneRebuilds /\ NoneLives /\ OwnEngine /\ AllCurrent
    BY <2>1, AloneParts, GenerationsParts
  <2>3. CASE Boot
    <3>1. /\ \A c \in Clients : step[c] = "idle" /\ step'[c] = "idle"
          /\ threads = <<>> /\ UNCHANGED <<files, generation, cut>>
      BY <2>3 DEF Boot, clients, disk, history, TInv, Owned
    <3>2. manager' = [engine |-> 1, thread |-> 1] /\ engines' = <<EngineWith(Original)>>
      BY <2>3 DEF Boot
    <3>3. threads' = <<[engine |-> 1, state |-> "runs"]>>
      BY <2>3, <3>1, <3>2 DEF Boot, StartThread
    <3>4. DOMAIN threads' = {1} /\ threads'[1].engine = 1
      BY <3>3
    <3>5. \A t \in Live' : threads'[t].engine = 1
      BY <3>4 DEF Live
    <3>6. engines'[1] = EngineWith(Original)
      BY <3>2
    <3>7. \A d \in Chains : EngineWith(Original).chain[d] = Loaded(d)
      BY EngineTyped, ManagerBounds DEF TInv
    <3>8. FilesCurrent => Current(1)'
      BY <3>1, <3>6, <3>7, LoadedCurrent DEF Current
    <3>9. FilesCurrent => FilesCurrent' /\ EnginesCurrent'
      BY <3>1, <3>5, <3>8 DEF FilesCurrent, EnginesCurrent
    <3>10. NextToClear'
      BY <3>1 DEF NextToClear
    <3> QED BY <2>2, <3>1, <3>9, <3>10 DEF AllCurrent
  <2>4. ASSUME NEW c \in Clients, Receive(c) \/ Handle(c) PROVE AllCurrent'
    BY <2>2, <2>4, IdleCurrent, ClearingCurrent, StopCurrent, CreateCurrent, AssignCurrent, StartCurrent
       DEF Handle
  <2>5. ASSUME NEW t \in DOMAIN threads, Run(t) PROVE AllCurrent'
    BY <2>2, <2>5, RunCurrent
  <2>6. CASE UNCHANGED vars
    BY <2>2, <2>6 DEF vars, process, disk, clients, history, Live, Current, AllCurrent,
                      NextToClear, FilesCurrent, EnginesCurrent
  <2> QED BY <1>2, <2>3, <2>4, <2>5, <2>6 DEF Next
<1> QED BY <1>1, <1>2

LEMMA AlwaysGenerations == Spec => [](TInv /\ Alone /\ Generations)
<1>1. Init => Generations
  <2> SUFFICES ASSUME Init PROVE Generations
    OBVIOUS
  <2>1. /\ Live = {} /\ \A c \in Clients : step[c] = "idle"
        /\ files \in [Chains -> {None, 1}] /\ generation = 1
    BY DEF Init, Live
  <2>2. files["workchain"] \in {None, 1} /\ files["masterchain"] \in {None, 1}
    BY <2>1 DEF Chains
  <2> QED BY <2>1, <2>2 DEF Generations
<1>2. TInv /\ Alone /\ Generations /\ [Next]_vars => Generations'
  BY GenerationsKept
<1> QED BY <1>1, <1>2, AlwaysAlone, PTL DEF Spec

(* A running engine has both chains of one generation, and so have the     *)
(* files, unless requests raced or a clearing was cut off.                 *)
THEOREM ChainsAgree == Spec => []OneGeneration
<1>1. ASSUME Generations PROVE OneGeneration
  <2> SUFFICES ASSUME ~raced, ~cut
               PROVE  /\ \A t \in Live : \A c, d \in Chains :
                            engines[threads[t].engine].chain[c] = engines[threads[t].engine].chain[d]
                      /\ \A c, d \in Chains : files[c] = None \/ files[d] = None \/ files[c] = files[d]
    BY DEF OneGeneration
  <2>1. NextToClear /\ FilesCurrent /\ EnginesCurrent
    BY <1>1, GenerationsParts DEF AllCurrent
  <2>2. \/ files["workchain"] = None
        \/ files["workchain"] = generation /\ files["masterchain"] \in {None, generation}
    BY <2>1 DEF NextToClear, FilesCurrent
  <2>3. \A c, d \in Chains : files[c] = None \/ files[d] = None \/ files[c] = files[d]
    BY <2>2 DEF Chains
  <2>4. \A t \in Live : \A c \in Chains : engines[threads[t].engine].chain[c] = generation
    BY <2>1 DEF EnginesCurrent, Current
  <2> QED BY <2>3, <2>4
<1>2. Generations => OneGeneration
  BY <1>1
<1> QED BY <1>2, AlwaysGenerations, PTL

-----------------------------------------------------------------------------
(* What the answer OK means                                                *)

(* Promise for one client, in a state without a race.                      *)
Promised(c) ==
    /\ step[c] = "clear masterchain" => generation > since[c]
    /\ step[c] = "create" /\ command[c].reset =>
          generation > since[c] /\ \A d \in Chains : files[d] = None
    /\ step[c] = "assign" => AsAsked(own[c], c)
    /\ step[c] = "start" /\ lock = None => AsAsked(manager.engine, c)

LEMMA PromiseParts == Promise <=> (~raced => \A c \in Clients : Promised(c))
  BY DEF Promise, Promised

LEMMA NothingPromised ==
    ASSUME NEW c \in Clients, step'[c] \notin PastStop PROVE Promised(c)'
  BY DEF Promised, PastStop, Clearing

(* The request that rebuilds, and the others, that do not.                 *)
LEMMA OthersPromised ==
    ASSUME TInv, NEW c \in Clients, Receive(c) \/ Handle(c), step[c] \in PastStop, OneRebuilds
    PROVE  \A d \in Clients : d # c => Promised(d)'
  BY OthersDone, NothingPromised

(* Requests that have not stopped an engine yet, or stop it now.           *)
LEMMA EarlyPromised ==
    ASSUME TInv, NEW c \in Clients, Receive(c) \/ UseClock(c) \/ Stop(c), OwnEngine,
           NEW d \in Clients, Promised(d)
    PROVE  Promised(d)'
<1>1. PICK s \in {"bad request", "node", "stop", "ok", "join"} : step' = [step EXCEPT ![c] = s]
  BY DEF Receive, UseClock, Stop, Answer, Goto
<1>2. CASE d = c
  <2>1. step'[d] = s
    BY <1>1, <1>2 DEF TInv, TypeOK
  <2> QED BY <2>1, NothingPromised DEF PastStop, Clearing
<1>3. CASE d # c
  <2>1. /\ step'[d] = step[d] /\ own'[d] = own[d]
        /\ command'[d] = command[d] /\ since'[d] = since[d]
    BY <1>3, OthersStay DEF Handle
  <2>2. UNCHANGED <<files, generation>>
    BY DEF Receive, UseClock, Stop, disk
  <2>3. CASE Receive(c) \/ UseClock(c)
    <3>1. UNCHANGED <<manager, lock, engines>>
      BY <2>3 DEF Receive, UseClock, process
    <3> QED BY <2>1, <2>2, <3>1 DEF Promised, AsAsked, ConfigFor
  <2>4. CASE Stop(c)
    <3>1. engines' = [engines EXCEPT ![manager.engine].stopped = TRUE] /\ lock' = c
      BY <2>4 DEF Stop, StoppedQueue
    <3>2. lock' # None
      BY <3>1, ManagerBounds
    <3>3. step[d] = "assign" => own[d] \in 1..Len(engines) /\ own[d] # manager.engine
      BY DEF TInv, Owned, OwnEngine
    <3>4. step[d] = "assign" => engines'[own[d]] = engines[own[d]]
      BY <3>1, <3>3, Typed DEF TInv
    <3>5. step'[d] = "assign" => AsAsked(own[d], d)'
      BY <2>1, <3>4 DEF Promised, AsAsked, ConfigFor
    <3> QED BY <2>1, <2>2, <3>2, <3>5 DEF Promised
  <2> QED BY <2>3, <2>4
<1> QED BY <1>2, <1>3

LEMMA JoinPromised ==
    ASSUME TInv, NEW c \in Clients, Join(c), Rebuilding = {}, NEW d \in Clients
    PROVE  Promised(d)'
<1>1. /\ step' = [step EXCEPT ![c] = IF command[c].reset THEN "clear documents" ELSE "create"]
      /\ UNCHANGED command
  BY DEF Join, Goto
<1>2. CASE d = c
  <2>1. step'[d] = IF command[d].reset THEN "clear documents" ELSE "create"
    BY <1>1, <1>2 DEF TInv, TypeOK
  <2>2. CASE command[d].reset
    BY <2>1, <2>2 DEF Promised
  <2>3. CASE ~command[d].reset
    <3>1. step'[d] = "create" /\ ~command'[d].reset
      BY <1>1, <2>1, <2>3
    <3> QED BY <3>1 DEF Promised
  <2> QED BY <2>2, <2>3
<1>3. CASE d # c
  BY <1>3, OthersStay, NothingPromised DEF Handle, Rebuilding
<1> QED BY <1>2, <1>3

LEMMA ClearingPromised ==
    ASSUME TInv, NEW c \in Clients,
           ClearDocuments(c) \/ ClearWorkchain(c) \/ ClearMasterchain(c) \/ ClearFails(c) \/ CreateFails(c),
           OneRebuilds, NextToClear, Promised(c), NEW d \in Clients
    PROVE  Promised(d)'
<1>1. step[c] \in PastStop
  BY DEF ClearDocuments, ClearWorkchain, ClearMasterchain, ClearFails, CreateFails, PastStop, Clearing
<1>2. CASE d # c
  BY <1>1, <1>2, OthersPromised DEF Handle
<1>3. Promised(c)'
  <2>1. CASE ClearDocuments(c)
    <3>1. step' = [step EXCEPT ![c] = "clear workchain"]
      BY <2>1 DEF ClearDocuments, Goto
    <3>2. step'[c] = "clear workchain"
      BY <3>1 DEF TInv, TypeOK
    <3> QED BY <3>2 DEF Promised
  <2>2. CASE ClearWorkchain(c)
    <3>1. /\ step' = [step EXCEPT ![c] = "clear masterchain"]
          /\ generation' = generation + 1 /\ UNCHANGED since
      BY <2>2 DEF ClearWorkchain, AfterWorkchain, Goto, history
    <3>2. step'[c] = "clear masterchain"
      BY <3>1 DEF TInv, TypeOK
    <3>3. since[c] \in Nat /\ generation \in Nat /\ since[c] <= generation
      <4>1. since \in [Clients -> 0..generation] /\ generation \in Nat
        BY DEF TInv, TypeOK
      <4>2. since[c] \in 0..generation
        BY <4>1
      <4> QED BY <4>1, <4>2
    <3>4. generation' = generation + 1 /\ since'[c] = since[c]
      BY <3>1
    <3>5. generation' > since'[c]
      BY <3>3, <3>4
    <3> QED BY <3>2, <3>5 DEF Promised
  <2>3. CASE ClearMasterchain(c)
    <3>1. /\ step[c] = "clear masterchain"
          /\ files' = [files EXCEPT !["masterchain"] = None]
          /\ step' = [step EXCEPT ![c] = "create"]
          /\ UNCHANGED <<generation, since>>
      BY <2>3 DEF ClearMasterchain, Goto
    <3>2. step'[c] = "create"
      BY <3>1 DEF TInv, TypeOK
    <3>3. \A k \in Chains : files'[k] = None
      BY <3>1 DEF TInv, TypeOK, NextToClear, Chains
    <3>4. generation' > since'[c]
      BY <3>1 DEF Promised
    <3> QED BY <3>2, <3>3, <3>4 DEF Promised
  <2>4. CASE ClearFails(c) \/ CreateFails(c)
    <3>1. step' = [step EXCEPT ![c] = "server error"]
      BY <2>4 DEF ClearFails, CreateFails, Answer, Goto
    <3>2. step'[c] = "server error"
      BY <3>1 DEF TInv, TypeOK
    <3> QED BY <3>2 DEF Promised
  <2> QED BY <2>1, <2>2, <2>3, <2>4
<1> QED BY <1>2, <1>3

LEMMA CreatePromised ==
    ASSUME TInv, NEW c \in Clients, CreateEngine(c), OneRebuilds, Promised(c), NEW d \in Clients
    PROVE  Promised(d)'
<1> DEFINE e == EngineWith(ConfigFor(command[c]))
<1>1. /\ step[c] = "create" /\ engines' = Append(engines, e)
      /\ own' = [own EXCEPT ![c] = Len(engines')]
      /\ step' = [step EXCEPT ![c] = "assign"]
      /\ UNCHANGED <<command, since>>
  BY DEF CreateEngine, Goto, history
<1>2. step'[c] = "assign" /\ own'[c] = Len(engines')
  BY <1>1 DEF TInv, TypeOK
<1>3. ConfigFor(command[c]) \in {"own", "fork"}
  BY ManagerBounds DEF ConfigFor
<1>4. engines'[Len(engines')] = e
  BY <1>1, <1>3, EngineTyped, EngineAppended DEF TInv
<1>5. /\ e.stopped = FALSE /\ e.config = ConfigFor(command[c])
      /\ \A k \in Chains : e.chain[k] = Loaded(k)
  BY <1>3, EngineTyped DEF TInv
<1> HIDE DEF e
<1>6. command[c].reset => \A k \in Chains : Loaded(k) > since[c]
  BY <1>1 DEF Promised, Loaded
<1>7. AsAsked(own[c], c)'
  BY <1>1, <1>2, <1>4, <1>5, <1>6 DEF AsAsked, ConfigFor
<1>8. CASE d = c
  BY <1>2, <1>7, <1>8 DEF Promised
<1>9. CASE d # c
  BY <1>1, <1>9, OthersPromised DEF Handle, PastStop
<1> QED BY <1>8, <1>9

LEMMA AssignPromised ==
    ASSUME TInv, NEW c \in Clients, AssignEngine(c), OneRebuilds, OwnEngine, Promised(c), NEW d \in Clients
    PROVE  Promised(d)'
<1>1. /\ step[c] = "assign"
      /\ engines' = engines \/ engines' = [engines EXCEPT ![manager.engine] = Dropped]
      /\ manager'.engine = own[c]
      /\ step' = [step EXCEPT ![c] = "start"]
      /\ UNCHANGED <<command, since>>
  BY DEF AssignEngine, AfterAssign, Goto, history
<1>2. step'[c] = "start"
  BY <1>1 DEF TInv, TypeOK
<1>3. engines'[own[c]] = engines[own[c]]
  <2>1. own[c] # manager.engine
    BY <1>1 DEF OwnEngine
  <2> QED BY <1>1, <2>1, Typed DEF TInv, Owned
<1>4. AsAsked(manager.engine, c)'
  BY <1>1, <1>3 DEF Promised, AsAsked, ConfigFor
<1>5. CASE d = c
  BY <1>2, <1>4, <1>5 DEF Promised
<1>6. CASE d # c
  BY <1>1, <1>6, OthersPromised DEF Handle, PastStop
<1> QED BY <1>5, <1>6

LEMMA StartPromised ==
    ASSUME TInv, NEW c \in Clients, StartEngine(c), OneRebuilds, NEW d \in Clients
    PROVE  Promised(d)'
<1>1. step[c] = "start" /\ step' = [step EXCEPT ![c] = "ok"]
  BY DEF StartEngine, Answer, Goto
<1>2. step'[c] = "ok"
  BY <1>1 DEF TInv, TypeOK
<1>3. CASE d = c
  BY <1>2, <1>3 DEF Promised
<1>4. CASE d # c
  BY <1>1, <1>4, OthersPromised DEF Handle, PastStop
<1> QED BY <1>3, <1>4

(* A block is saved only when no request rebuilds.                         *)
LEMMA RunPromised ==
    ASSUME TInv, NEW t \in DOMAIN threads, Run(t), NoneLives, NEW d \in Clients, Promised(d)
    PROVE  Promised(d)'
<1>1. UNCHANGED <<manager, lock, engines, clients, generation, since>>
  BY DEF Run, SaveBlock, StayBusy, SeeStop, MissStop, process, disk, history
<1>2. CASE SaveBlock(t)
  <2>1. t \in Live
    BY <1>2 DEF SaveBlock, Live
  <2>2. step[d] \notin PastStop
    BY <2>1 DEF NoneLives
  <2> QED BY <1>1, <2>2, NothingPromised DEF clients
<1>3. CASE UNCHANGED files
  BY <1>1, <1>3 DEF clients, Promised, AsAsked, ConfigFor
<1> QED BY <1>2, <1>3 DEF Run, StayBusy, SeeStop, MissStop, disk

LEMMA PromiseKept ==
    ASSUME TInv, Alone, Generations, Promise, [Next]_vars PROVE Promise'
<1> SUFFICES ASSUME ~raced', NEW d \in Clients PROVE Promised(d)'
  BY DEF Promise, Promised
<1>1. CASE Crash
  BY <1>1 DEF Crash, Promised
<1>2. CASE ~Crash
  <2>1. ~raced /\ \A c \in Clients : Join(c) => Rebuilding = {}
    BY <1>2, RacedSteps
  <2>2. OneRebuilds /\ NoneLives /\ OwnEngine /\ NextToClear
    BY <2>1, AloneParts, GenerationsParts DEF AllCurrent
  <2>3. \A c \in Clients : Promised(c)
    BY <2>1, PromiseParts
  <2>4. CASE Boot
    <3>1. step'[d] = "idle"
      BY <2>4 DEF Boot, clients, TInv, Owned
    <3> QED BY <3>1 DEF Promised
  <2>5. ASSUME NEW c \in Clients, Receive(c) \/ Handle(c) PROVE Promised(d)'
    BY <2>1, <2>2, <2>3, <2>5, EarlyPromised, JoinPromised, ClearingPromised, CreatePromised,
       AssignPromised, StartPromised DEF Handle
  <2>6. ASSUME NEW t \in DOMAIN threads, Run(t) PROVE Promised(d)'
    BY <2>2, <2>3, <2>6, RunPromised
  <2>7. CASE UNCHANGED vars
    BY <2>3, <2>7 DEF vars, process, disk, clients, history, Promised, AsAsked, ConfigFor
  <2> QED BY <1>2, <2>4, <2>5, <2>6, <2>7 DEF Next
<1> QED BY <1>1, <1>2

(* Only the start of an engine answers a command past its stop with OK.    *)
LEMMA OkIsStart ==
    ASSUME TInv, [Next]_vars, NEW c \in Clients, step[c] \notin Answers \union {"node"}, step'[c] = "ok"
    PROVE  StartEngine(c)
<1>1. \A d \in Clients : Receive(d) \/ Handle(d) => d = c
  BY OthersStay DEF Answers
<1>2. CASE Boot \/ UNCHANGED vars \/ \E t \in DOMAIN threads : Run(t)
  <2>1. UNCHANGED step
    BY <1>2 DEF Boot, vars, clients, Run, SaveBlock, StayBusy, SeeStop, MissStop
  <2> QED BY <2>1 DEF Answers
<1>3. CASE Crash
  BY <1>3 DEF Crash
<1>4. ASSUME Receive(c) PROVE FALSE
  <2>1. PICK s \in {"bad request", "node", "stop"} : step' = [step EXCEPT ![c] = s]
    BY <1>4 DEF Receive, Goto
  <2> QED BY <2>1 DEF TInv, TypeOK
<1>5. ASSUME Handle(c), ~StartEngine(c) PROVE FALSE
  <2>1. step[c] # "node"
    OBVIOUS
  <2>2. PICK s \in Steps \ {"ok"} : step' = [step EXCEPT ![c] = s]
    BY <1>5, <2>1 DEF Handle, UseClock, Stop, Join, ClearDocuments, ClearWorkchain, ClearMasterchain,
       ClearFails, CreateEngine, CreateFails, AssignEngine, AfterWorkchain, AfterAssign, Answer, Goto,
       Steps, PastStop, Clearing, Answers
  <2> QED BY <2>2 DEF TInv, TypeOK
<1> QED BY <1>1, <1>2, <1>3, <1>4, <1>5 DEF Next

(* A command answered with OK was carried out: the engine runs, accepts    *)
(* messages, and has the configuration and the new chains asked for,       *)
(* unless requests raced.                                                  *)
THEOREM OkIsKept == Spec => OkMeansDone
<1> DEFINE Done(c) ==
             LET e == engines'[manager'.engine]
             IN  /\ ~e.stopped /\ manager'.thread \in DOMAIN threads'
                 /\ e.config = IF command[c].fork THEN "fork" ELSE Original
                 /\ command[c].reset => \A d \in Chains : e.chain[d] > since[c]
           Kept == \A c \in Clients :
                     step[c] \notin Answers \union {"node"} /\ step'[c] = "ok" /\ ~raced' => Done(c)
<1>1. ASSUME TInv, Promise, [Next]_vars PROVE Kept
  <2> SUFFICES ASSUME NEW c \in Clients,
                      step[c] \notin Answers \union {"node"}, step'[c] = "ok", ~raced'
               PROVE  Done(c)
    OBVIOUS
  <2>1. StartEngine(c)
    BY <1>1, OkIsStart
  <2>2. /\ step[c] = "start" /\ lock = None /\ ~raced /\ UNCHANGED engines
        /\ manager' = [manager EXCEPT !.thread = Len(threads) + 1]
        /\ threads' = Append(threads, [engine |-> manager'.engine, state |-> "runs"])
    BY <2>1 DEF StartEngine, StartThread
  <2>3. AsAsked(manager.engine, c)
    BY <1>1, <2>2, PromiseParts DEF Promised
  <2>4. manager'.engine = manager.engine /\ manager'.thread = Len(threads) + 1
    BY <1>1, <2>2 DEF TInv, TypeOK
  <2>5. Len(threads) + 1 \in DOMAIN threads'
    <3>1. threads \in Seq([engine : DOMAIN engines, state : ThreadStates])
      BY <1>1 DEF TInv, TypeOK
    <3> QED BY <2>2, <3>1
  <2> QED BY <2>2, <2>3, <2>4, <2>5 DEF AsAsked, ConfigFor
<1>2. TInv /\ Alone /\ Generations /\ Promise /\ [Next]_vars => Promise' /\ Kept
  BY <1>1, PromiseKept
<1>3. Init => Promise
  BY DEF Init, Promise
<1> HIDE DEF Kept
<1>4. Spec => [][Kept]_vars
  BY <1>2, <1>3, AlwaysGenerations, PTL DEF Spec
<1> QED BY <1>4, PTL DEF OkMeansDone, Kept

=============================================================================
