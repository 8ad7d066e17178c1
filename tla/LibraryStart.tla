---------------------------- MODULE LibraryStart ----------------------------
(***************************************************************************)
(* How Protocol Buffers makes the tables of a generated file (EVO.pb.mm)   *)
(* the first time somebody asks for them, with several threads asking.     *)
(*                                                                         *)
(* GoogleOnceInit (stubs/once.h, stubs/once.cc) runs a function once; the  *)
(* functions it runs ask for other things made once and lock mutexes, so   *)
(* whether it is safe to wait inside depends on the whole graph of them.   *)
(* Straight-line code is a program, a sequence of instructions; a thread   *)
(* is a stack of frames, each at an instruction of its program.  Memory is *)
(* sequentially consistent: the code uses acquire loads and release stores.*)
(***************************************************************************)
EXTENDS Integers, Sequences, FiniteSets

CONSTANTS
    Threads,
    Main,           \* the thread of the static initialisers and of main()
    MaxCalls        \* bound: calls of each thread

ASSUME MainAssumption == Main \in Threads
ASSUME CallBoundAssumption == MaxCalls \in Nat

VARIABLES
    once,           \* ProtobufOnceType of each thing made once
    holder,         \* the set of threads that hold each mutex: none or one
    made,           \* how often each thing was made or registered
    stack,          \* the frames of each thread, the innermost last
    calls           \* calls each thread has begun, for the bound

vars == <<once, holder, made, stack, calls>>

-----------------------------------------------------------------------------
(* Programs.                                                               *)

Once(o) == <<[op |-> "once", arg |-> o, skip |-> 0]>>
Lock(m) == <<[op |-> "lock", arg |-> m, skip |-> 0]>>
Unlock(m) == <<[op |-> "unlock", arg |-> m, skip |-> 0]>>
Make(x) == <<[op |-> "make", arg |-> x, skip |-> 0]>>

(* The block runs only when x is not there yet.                            *)
Unless(x, block) == <<[op |-> "unless", arg |-> x, skip |-> Len(block)]>> \o block

(* Adds a function to the list that ShutdownProtobufLibrary calls.         *)
OnShutdown(cleanup) ==
    Once("shutdown") \o Lock("shutdown") \o Make(cleanup) \o Unlock("shutdown")

InitShutdownFunctions == Make("shutdown")
InitGeneratedPool == Make("pool") \o OnShutdown("poolCleanup")
InitGeneratedMessageFactory == Make("factory") \o OnShutdown("factoryCleanup")

(* The static bool already_here is set before the work is done.            *)
AddDesc ==
    Unless("alreadyHere",
           Make("alreadyHere") \o Once("pool") \o Make("encodedFile")
           \o Once("factory") \o Make("registration")
           \o Make("defaultInstance") \o OnShutdown("fileCleanup"))

(* faulty variant: the encoded form is parsed by means of its descriptor.  *)
FindFileByReflection ==
    Lock("pool") \o Unless("file", Once("assign") \o Make("file")) \o Unlock("pool")

(* faulty variant: the mutex is released only where the file is built.     *)
FindFileKeepsLock ==
    Lock("pool") \o Unless("file", Make("file") \o Unlock("pool"))

(* The file is built from its encoded form under the mutex of the pool.    *)
(* The parser of the encoded form must not ask for descriptors.            *)
FindFileByName ==
    Lock("pool") \o Unless("file", Make("file")) \o Unlock("pool")

AssignDesc ==
    AddDesc \o Once("pool") \o FindFileByName
    \o Once("pool") \o Once("factory") \o Make("descriptor")

GetMetadata == Once("assign")

(* protobuf_RegisterTypes, called by GetPrototype under its mutex.         *)
RegisterTypes ==
    Once("assign") \o Unless("defaultInstance", AddDesc) \o Once("factory") \o Make("type")

(* faulty variant: the map is not looked at again under the second lock.   *)
GetPrototypeUnchecked ==
    Once("factory") \o Lock("factory")
    \o Unless("type", Unlock("factory") \o Once("pool") \o Lock("factory")
                      \o RegisterTypes)
    \o Unlock("factory")

(* Looks under one lock, and when the type is not there again under a      *)
(* second one: another thread may have registered it in between.           *)
GetPrototype ==
    Once("factory") \o Lock("factory")
    \o Unless("type", Unlock("factory") \o Once("pool") \o Lock("factory")
                      \o Unless("type", RegisterTypes))
    \o Unlock("factory")

Onces == {"shutdown", "pool", "factory", "assign"}
Mutexes == {"shutdown", "pool", "factory"}
Things == Mutexes
          \cup {"poolCleanup", "factoryCleanup", "fileCleanup", "alreadyHere",
                "encodedFile", "registration", "defaultInstance", "file",
                "descriptor", "type"}

(* What the static initialisers may do: another file's initialiser may ask *)
(* for the descriptor before this file's own initialiser has run.          *)
Statics == {"static", "staticAfterUse"}

(* What a thread may ask for: the metadata of a message it has, or a       *)
(* message of a type it finds by name.                                     *)
Requests == {"metadata", "newByName"}

Program ==
    [r \in Onces \cup Statics \cup Requests |->
        CASE r = "shutdown" -> InitShutdownFunctions
          [] r = "pool" -> InitGeneratedPool
          [] r = "factory" -> InitGeneratedMessageFactory
          [] r = "assign" -> AssignDesc
          [] r = "static" -> AddDesc
          [] r = "staticAfterUse" -> GetMetadata \o AddDesc
          [] r = "metadata" -> GetMetadata
          [] r = "newByName" -> Once("pool") \o FindFileByName \o GetPrototype]

-----------------------------------------------------------------------------
(* Threads.                                                                *)

Frame(r) == [of |-> r, pc |-> 1, at |-> "start"]
Top(t) == stack[t][Len(stack[t])]
AtEnd(f) == f.pc > Len(Program[f.of])
Instruction(f) == Program[f.of][f.pc]

(* Thread t stands before an instruction of this kind, at this stage of it.*)
Before(t, op, at) ==
    /\ stack[t] # <<>>
    /\ ~AtEnd(Top(t))
    /\ Instruction(Top(t)).op = op
    /\ Top(t).at = at

Arg(t) == Instruction(Top(t)).arg

SetTop(t, f) == stack' = [stack EXCEPT ![t][Len(stack[t])] = f]
Onwards(t, n) == SetTop(t, [Top(t) EXCEPT !.pc = @ + n, !.at = "start"])
Stage(t, at) == SetTop(t, [Top(t) EXCEPT !.at = at])

StaticsDone == \A k \in 1..Len(stack[Main]) : stack[Main][k].of \notin Statics

Init ==
    /\ once = [o \in Onces |-> "UNINITIALIZED"]
    /\ holder = [m \in Mutexes |-> {}]
    /\ made = [x \in Things |-> 0]
    /\ calls = [t \in Threads |-> 0]
    /\ \E r \in Statics :
         stack = [t \in Threads |-> IF t = Main THEN <<Frame(r)>> ELSE <<>>]

(* A thread asks for something, after the static initialisers have run.    *)
Call(t, r) ==
    /\ StaticsDone
    /\ stack[t] = <<>>
    /\ calls[t] < MaxCalls
    /\ calls' = [calls EXCEPT ![t] = @ + 1]
    /\ stack' = [stack EXCEPT ![t] = <<Frame(r)>>]
    /\ UNCHANGED <<once, holder, made>>

(* GoogleOnceInit: the load before any closure is made.                    *)
Load(t) ==
    /\ Before(t, "once", "start")
    /\ IF once[Arg(t)] = "DONE" THEN Onwards(t, 1) ELSE Stage(t, "swap")
    /\ UNCHANGED <<once, holder, made, calls>>

(* faulty variant: the state is stored without being compared.             *)
SwapBlindly(t) ==
    /\ Before(t, "once", "swap")
    /\ once' = [once EXCEPT ![Arg(t)] = "EXECUTING_CLOSURE"]
    /\ stack' = [stack EXCEPT ![t] =
                    Append([@ EXCEPT ![Len(@)].at = "run"], Frame(Arg(t)))]
    /\ UNCHANGED <<holder, made, calls>>

(* faulty variant: only the first thread has anything to wait for.         *)
SwapGoesOn(t) ==
    /\ Before(t, "once", "swap")
    /\ IF once[Arg(t)] = "UNINITIALIZED"
       THEN /\ once' = [once EXCEPT ![Arg(t)] = "EXECUTING_CLOSURE"]
            /\ stack' = [stack EXCEPT ![t] =
                            Append([@ EXCEPT ![Len(@)].at = "run"], Frame(Arg(t)))]
       ELSE Onwards(t, 1) /\ once' = once
    /\ UNCHANGED <<holder, made, calls>>

(* faulty variant: the state is done before the closure has run.           *)
SwapToDone(t) ==
    /\ Before(t, "once", "swap")
    /\ CASE once[Arg(t)] = "UNINITIALIZED" ->
              /\ once' = [once EXCEPT ![Arg(t)] = "DONE"]
              /\ stack' = [stack EXCEPT ![t] =
                              Append([@ EXCEPT ![Len(@)].at = "run"], Frame(Arg(t)))]
         [] once[Arg(t)] = "EXECUTING_CLOSURE" -> Stage(t, "wait") /\ once' = once
         [] once[Arg(t)] = "DONE" -> Onwards(t, 1) /\ once' = once
    /\ UNCHANGED <<holder, made, calls>>

(* GoogleOnceInitImpl: compare and swap.  The first thread calls the       *)
(* closure, others wait for it or have nothing left to do.                 *)
Swap(t) ==
    /\ Before(t, "once", "swap")
    /\ CASE once[Arg(t)] = "UNINITIALIZED" ->
              /\ once' = [once EXCEPT ![Arg(t)] = "EXECUTING_CLOSURE"]
              /\ stack' = [stack EXCEPT ![t] =
                              Append([@ EXCEPT ![Len(@)].at = "run"], Frame(Arg(t)))]
         [] once[Arg(t)] = "EXECUTING_CLOSURE" -> Stage(t, "wait") /\ once' = once
         [] once[Arg(t)] = "DONE" -> Onwards(t, 1) /\ once' = once
    /\ UNCHANGED <<holder, made, calls>>

(* The loop of SchedYield and load, left when the state is another one.    *)
Wait(t) ==
    /\ Before(t, "once", "wait")
    /\ once[Arg(t)] # "EXECUTING_CLOSURE"
    /\ Onwards(t, 1)
    /\ UNCHANGED <<once, holder, made, calls>>

(* A program ends.  A closure returns to GoogleOnceInitImpl, which then    *)
(* stores the new state in a step of its own.                              *)
Return(t) ==
    /\ stack[t] # <<>>
    /\ AtEnd(Top(t))
    /\ IF Len(stack[t]) = 1
       THEN stack' = [stack EXCEPT ![t] = <<>>]
       ELSE stack' = [stack EXCEPT ![t] =
                         LET rest == SubSeq(@, 1, Len(@) - 1)
                         IN [rest EXCEPT ![Len(rest)].at = "store"]]
    /\ UNCHANGED <<once, holder, made, calls>>

Store(t) ==
    /\ Before(t, "once", "store")
    /\ once' = [once EXCEPT ![Arg(t)] = "DONE"]
    /\ Onwards(t, 1)
    /\ UNCHANGED <<holder, made, calls>>

(* The mutexes are not recursive: their holder waits for itself.           *)
Acquire(t) ==
    /\ Before(t, "lock", "start")
    /\ holder[Arg(t)] = {}
    /\ holder' = [holder EXCEPT ![Arg(t)] = {t}]
    /\ Onwards(t, 1)
    /\ UNCHANGED <<once, made, calls>>

Release(t) ==
    /\ Before(t, "unlock", "start")
    /\ holder' = [holder EXCEPT ![Arg(t)] = {}]
    /\ Onwards(t, 1)
    /\ UNCHANGED <<once, made, calls>>

MakeThing(t) ==
    /\ Before(t, "make", "start")
    /\ made' = [made EXCEPT ![Arg(t)] = @ + 1]
    /\ Onwards(t, 1)
    /\ UNCHANGED <<once, holder, calls>>

(* faulty variant: a block that is left out takes the next step with it.   *)
DecideAndSkip(t) ==
    /\ Before(t, "unless", "start")
    /\ Onwards(t, IF made[Arg(t)] = 0 THEN 1 ELSE Instruction(Top(t)).skip + 2)
    /\ UNCHANGED <<once, holder, made, calls>>

Decide(t) ==
    /\ Before(t, "unless", "start")
    /\ Onwards(t, IF made[Arg(t)] = 0 THEN 1 ELSE Instruction(Top(t)).skip + 1)
    /\ UNCHANGED <<once, holder, made, calls>>

Step(t) ==
    \/ Load(t) \/ Swap(t) \/ Wait(t) \/ Return(t) \/ Store(t)
    \/ Acquire(t) \/ Release(t) \/ MakeThing(t) \/ Decide(t)

Next == \E t \in Threads : Step(t) \/ \E r \in Requests : Call(t, r)

Spec == Init /\ [][Next]_vars

(* Every thread that can run does run.                                     *)
FairSpec == Spec /\ \A t \in Threads : WF_vars(Step(t))

-----------------------------------------------------------------------------
(* Properties.                                                             *)

Frames == [of : DOMAIN Program, pc : Nat \ {0},
           at : {"start", "swap", "run", "wait", "store"}]

(* Every frame stands within its program or at its end, and frames inside  *)
(* others are closures: nothing recurses.                                  *)
TypeOK ==
    /\ once \in [Onces -> {"UNINITIALIZED", "EXECUTING_CLOSURE", "DONE"}]
    /\ holder \in [Mutexes -> SUBSET Threads]
    /\ made \in [Things -> Nat]
    /\ calls \in [Threads -> 0..MaxCalls]
    /\ stack \in [Threads -> Seq(Frames)]
    /\ \A t \in Threads :
         /\ Len(stack[t]) <= 1 + Cardinality(Onces)
         /\ \A k \in 1..Len(stack[t]) :
              stack[t][k].pc <= Len(Program[stack[t][k].of]) + 1

(* Thread t is in the closure of o, or about to store that it is done.     *)
Runs(t, o) ==
    \E k \in 1..Len(stack[t]) :
        /\ stack[t][k].at \in {"run", "store"}
        /\ Instruction(stack[t][k]).arg = o

(* "Will invoke init_func on the first call only" (stubs/once.h): a state  *)
(* of EXECUTING_CLOSURE means that exactly one thread is in the closure,   *)
(* which no other thread is in, and it is there only once.                 *)
OneRunner ==
    /\ \A o \in Onces :
         Cardinality({t \in Threads : Runs(t, o)})
            = IF once[o] = "EXECUTING_CLOSURE" THEN 1 ELSE 0
    /\ \A t \in Threads : \A i, j \in 1..Len(stack[t]) :
         i # j => stack[t][i].of # stack[t][j].of

(* "None of the calls return before that first call to init_func has       *)
(* finished" (stubs/once.h): a thread that has got past a GoogleOnceInit   *)
(* finds everything there that its function makes.                         *)
Finished(o) ==
    \A k \in 1..Len(Program[o]) :
        /\ Program[o][k].op = "make" => made[Program[o][k].arg] > 0
        /\ Program[o][k].op = "once" => once[Program[o][k].arg] = "DONE"

ReadyOnReturn ==
    \A t \in Threads : \A k \in 1..Len(stack[t]) : \A i \in 1..stack[t][k].pc - 1 :
        LET passed == Program[stack[t][k].of][i] IN
        passed.op = "once" => once[passed.arg] = "DONE" /\ Finished(passed.arg)

(* Nothing is made twice: a second registration of a file or a type is a   *)
(* fatal error (message.cc), a second cleanup a double delete.             *)
MadeOnce == \A x \in Things : made[x] <= 1

(* What has to be there before a thing can be made, or a mutex locked.     *)
Needs(x) ==
    CASE x \in {"poolCleanup", "factoryCleanup", "fileCleanup"} -> {"shutdown"}
      [] x = "encodedFile" -> {"pool"}
      [] x = "registration" -> {"factory"}
      [] x = "file" -> {"encodedFile", "pool"}
      [] x = "descriptor" -> {"file", "defaultInstance"}
      [] x = "type" -> {"descriptor", "defaultInstance", "registration"}
      [] OTHER -> {}

(* No null pointer is used: the pool, the factory, the list of functions   *)
(* and the descriptor are there when they are locked or read.              *)
NeedsThere ==
    \A t \in Threads :
        /\ Before(t, "make", "start") => \A x \in Needs(Arg(t)) : made[x] > 0
        /\ Before(t, "lock", "start") => made[Arg(t)] > 0

(* What thread t is about to do has nothing to wait for.                   *)
CanStep(t) ==
    /\ stack[t] # <<>>
    /\ \/ AtEnd(Top(t))
       \/ \E op \in {"once", "unlock", "make", "unless"} : Before(t, op, "start")
       \/ \E at \in {"swap", "store"} : Before(t, "once", at)
       \/ Before(t, "once", "wait") /\ once[Arg(t)] # "EXECUTING_CLOSURE"
       \/ Before(t, "lock", "start") /\ holder[Arg(t)] = {}

(* Thread u runs the closure, or holds the mutex, that t has to wait for.  *)
WaitsFor(t, u) ==
    \/ Before(t, "once", "wait") /\ Runs(u, Arg(t))
    \/ Before(t, "lock", "start") /\ u \in holder[Arg(t)]

(* "Infinite recursion or deadlock" (descriptor.cc): threads that cannot   *)
(* go on never wait for nobody but each other, or themselves, or for one   *)
(* that has left and taken a mutex with it.                                *)
NoCircle ==
    \A S \in SUBSET {t \in Threads : stack[t] # <<>> /\ ~CanStep(t)} :
        S # {} => \E t \in S, u \in Threads \ S : WaitsFor(t, u) /\ stack[u] # <<>>

(* "Infinite recursion or deadlock" (descriptor.cc): every call returns,   *)
(* though threads wait for closures that lock mutexes, and hold mutexes    *)
(* while they wait for closures.                                           *)
CallsReturn == \A t \in Threads : stack[t] # <<>> ~> stack[t] = <<>>
=============================================================================
