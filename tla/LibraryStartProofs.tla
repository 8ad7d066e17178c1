------------------------- MODULE LibraryStartProofs -------------------------
(***************************************************************************)
(* Proofs about LibraryStart, for any threads and any number of calls:     *)
(* one thread runs a closure, who is past a GoogleOnceInit finds all that  *)
(* it makes, everything needed is there, nothing is made twice, and no     *)
(* threads wait for each other in a circle.                                *)
(*                                                                         *)
(* The programs are first shown to be explicit lists.  The invariant has   *)
(* four layers, each proved with the ones before it: TypeInv (a closure    *)
(* only asks for closures of a lower rank, so that no stack repeats one),  *)
(* RunInv (the state of a once against the thread that runs it), FactInv   *)
(* (what a place in a program says of the things already done) and MadeInv *)
(* (who alone can make a thing: its closure, the block of AddDesc, or the  *)
(* holder of a mutex).                                                     *)
(* HoldInv, beside them, finds the frame of whoever holds a mutex.  What   *)
(* threads wait for has levels, and who is waited for waits further in.    *)
(***************************************************************************)
EXTENDS LibraryStart, SequenceTheorems, FiniteSetTheorems, TLAPS

-----------------------------------------------------------------------------
(* The programs, written out.                                              *)
I(op, arg) == [op |-> op, arg |-> arg, skip |-> 0]
U(arg, n) == [op |-> "unless", arg |-> arg, skip |-> n]

Instructions == [op : {"once", "lock", "unlock", "make", "unless"},
                 arg : Onces \cup Mutexes \cup Things, skip : Nat]

ShutdownList == <<I("make", "shutdown")>>

PoolList == <<I("make", "pool"), I("once", "shutdown"), I("lock", "shutdown"),
              I("make", "poolCleanup"), I("unlock", "shutdown")>>

FactoryList == <<I("make", "factory"), I("once", "shutdown"), I("lock", "shutdown"),
                 I("make", "factoryCleanup"), I("unlock", "shutdown")>>

AssignList ==
    <<U("alreadyHere", 10), I("make", "alreadyHere"), I("once", "pool"),
      I("make", "encodedFile"), I("once", "factory"), I("make", "registration"),
      I("make", "defaultInstance"), I("once", "shutdown"), I("lock", "shutdown"),
      I("make", "fileCleanup"), I("unlock", "shutdown"),
      I("once", "pool"), I("lock", "pool"), U("file", 1), I("make", "file"),
      I("unlock", "pool"), I("once", "pool"), I("once", "factory"), I("make", "descriptor")>>

StaticList ==
    <<U("alreadyHere", 10), I("make", "alreadyHere"), I("once", "pool"),
      I("make", "encodedFile"), I("once", "factory"), I("make", "registration"),
      I("make", "defaultInstance"), I("once", "shutdown"), I("lock", "shutdown"),
      I("make", "fileCleanup"), I("unlock", "shutdown")>>

StaticAfterUseList ==
    <<I("once", "assign"), U("alreadyHere", 10), I("make", "alreadyHere"), I("once", "pool"),
      I("make", "encodedFile"), I("once", "factory"), I("make", "registration"),
      I("make", "defaultInstance"), I("once", "shutdown"), I("lock", "shutdown"),
      I("make", "fileCleanup"), I("unlock", "shutdown")>>

MetadataList == <<I("once", "assign")>>

NewByNameList ==
    <<I("once", "pool"), I("lock", "pool"), U("file", 1), I("make", "file"),
      I("unlock", "pool"), I("once", "factory"), I("lock", "factory"), U("type", 19),
      I("unlock", "factory"), I("once", "pool"), I("lock", "factory"), U("type", 15),
      I("once", "assign"), U("defaultInstance", 11),
      U("alreadyHere", 10), I("make", "alreadyHere"), I("once", "pool"),
      I("make", "encodedFile"), I("once", "factory"), I("make", "registration"),
      I("make", "defaultInstance"), I("once", "shutdown"), I("lock", "shutdown"),
      I("make", "fileCleanup"), I("unlock", "shutdown"),
      I("once", "factory"), I("make", "type"), I("unlock", "factory")>>

(* The n instructions of s are those of the list after the first k.        *)
Reads(s, n, list, k) ==
    /\ s \in Seq(Instructions) /\ Len(s) = n
    /\ \A i \in 1..n : s[i] = list[k + i]

LEMMA Joined ==
    ASSUME NEW list, NEW k \in Nat, NEW m \in Nat, NEW n \in Nat, NEW s, NEW t,
           Reads(s, m, list, k), Reads(t, n, list, k + m)
    PROVE  Reads(s \o t, m + n, list, k)
<1>1. /\ s \in Seq(Instructions) /\ t \in Seq(Instructions) /\ Len(s) = m /\ Len(t) = n
      /\ \A i \in 1..m : s[i] = list[k + i]
      /\ \A i \in 1..n : t[i] = list[k + m + i]
  BY DEF Reads
<1>2. s \o t \in Seq(Instructions) /\ Len(s \o t) = m + n
  BY <1>1, ConcatProperties
<1>3. \A i \in 1..(m + n) : (s \o t)[i] = list[k + i]
  <2> TAKE i \in 1..(m + n)
  <2>1. (s \o t)[i] = IF i <= m THEN s[i] ELSE t[i - m]
    BY <1>1, ConcatProperties
  <2>2. CASE i <= m
    BY <1>1, <2>1, <2>2
  <2>3. CASE ~(i <= m)
    <3>1. i - m \in 1..n /\ k + m + (i - m) = k + i
      BY <2>3
    <3> QED
      BY <1>1, <2>1, <2>3, <3>1
  <2> QED
    BY <2>2, <2>3
<1> QED
  BY <1>2, <1>3 DEF Reads

LEMMA Single ==
    ASSUME NEW list, NEW k \in Nat, NEW x \in Instructions, x = list[k + 1]
    PROVE  Reads(<<x>>, 1, list, k)
BY DEF Reads

LEMMA IsInstruction ==
    /\ \A o \in Onces : I("once", o) \in Instructions
    /\ \A m \in Mutexes : I("lock", m) \in Instructions /\ I("unlock", m) \in Instructions
    /\ \A x \in Things : I("make", x) \in Instructions
    /\ \A x \in Things, n \in Nat : U(x, n) \in Instructions
BY DEF I, U, Instructions

(* One instruction more.                                                   *)
LEMMA ThenOnce ==
    ASSUME NEW list, NEW k \in Nat, NEW m \in Nat, NEW s, Reads(s, m, list, k),
           NEW o \in Onces, list[k + m + 1] = I("once", o)
    PROVE  Reads(s \o Once(o), m + 1, list, k)
<1>1. Once(o) = <<I("once", o)>> /\ I("once", o) \in Instructions
  BY IsInstruction DEF Once, I
<1>2. Reads(Once(o), 1, list, k + m)
  BY <1>1, Single
<1> QED
  BY <1>2, Joined

LEMMA ThenMake ==
    ASSUME NEW list, NEW k \in Nat, NEW m \in Nat, NEW s, Reads(s, m, list, k),
           NEW x \in Things, list[k + m + 1] = I("make", x)
    PROVE  Reads(s \o Make(x), m + 1, list, k)
<1>1. Make(x) = <<I("make", x)>> /\ I("make", x) \in Instructions
  BY IsInstruction DEF Make, I
<1>2. Reads(Make(x), 1, list, k + m)
  BY <1>1, Single
<1> QED
  BY <1>2, Joined

LEMMA ThenLock ==
    ASSUME NEW list, NEW k \in Nat, NEW m \in Nat, NEW s, Reads(s, m, list, k),
           NEW x \in Mutexes, list[k + m + 1] = I("lock", x)
    PROVE  Reads(s \o Lock(x), m + 1, list, k)
<1>1. Lock(x) = <<I("lock", x)>> /\ I("lock", x) \in Instructions
  BY IsInstruction DEF Lock, I
<1>2. Reads(Lock(x), 1, list, k + m)
  BY <1>1, Single
<1> QED
  BY <1>2, Joined

LEMMA ThenUnlock ==
    ASSUME NEW list, NEW k \in Nat, NEW m \in Nat, NEW s, Reads(s, m, list, k),
           NEW x \in Mutexes, list[k + m + 1] = I("unlock", x)
    PROVE  Reads(s \o Unlock(x), m + 1, list, k)
<1>1. Unlock(x) = <<I("unlock", x)>> /\ I("unlock", x) \in Instructions
  BY IsInstruction DEF Unlock, I
<1>2. Reads(Unlock(x), 1, list, k + m)
  BY <1>1, Single
<1> QED
  BY <1>2, Joined

LEMMA UnlessReads ==
    ASSUME NEW list, NEW k \in Nat, NEW n \in Nat, NEW s, NEW x \in Things,
           list[k + 1] = U(x, n), Reads(s, n, list, k + 1)
    PROVE  Reads(Unless(x, s), n + 1, list, k)
<1>1. Len(s) = n /\ U(x, n) \in Instructions
  BY IsInstruction DEF Reads
<1>2. Unless(x, s) = <<U(x, n)>> \o s
  BY <1>1 DEF Unless, U
<1>3. Reads(<<U(x, n)>>, 1, list, k)
  BY <1>1, Single
<1>4. Reads(<<U(x, n)>> \o s, 1 + n, list, k)
  BY <1>3, Joined
<1> QED
  BY <1>2, <1>4

LEMMA First ==
    ASSUME NEW list, NEW k \in Nat
    PROVE  /\ \A o \in Onces : list[k + 1] = I("once", o) => Reads(Once(o), 1, list, k)
           /\ \A m \in Mutexes : list[k + 1] = I("lock", m) => Reads(Lock(m), 1, list, k)
           /\ \A m \in Mutexes : list[k + 1] = I("unlock", m) => Reads(Unlock(m), 1, list, k)
           /\ \A x \in Things : list[k + 1] = I("make", x) => Reads(Make(x), 1, list, k)
BY IsInstruction, Single DEF Once, Lock, Unlock, Make, I

(* A program is its list.                                                  *)
LEMMA IsList ==
    ASSUME NEW list, NEW n \in Nat, NEW s, Reads(s, n, list, 0),
           Len(list) = n, list \in Seq(Instructions)
    PROVE  s = list
<1>1. s \in Seq(Instructions) /\ Len(s) = n /\ \A i \in 1..n : s[i] = list[0 + i]
  BY DEF Reads
<1>2. \A i \in 1..Len(s) : s[i] = list[i]
  BY <1>1
<1> QED
  BY <1>1, <1>2, SeqEqual

LEMMA OnShutdownReads ==
    ASSUME NEW c \in Things, NEW list, NEW k \in Nat,
           list[k + 1] = I("once", "shutdown"), list[k + 2] = I("lock", "shutdown"),
           list[k + 3] = I("make", c), list[k + 4] = I("unlock", "shutdown")
    PROVE  Reads(OnShutdown(c), 4, list, k)
<1>1. "shutdown" \in Onces /\ "shutdown" \in Mutexes /\ k + 1 + 1 = k + 2 /\ k + 2 + 1 = k + 3
      /\ k + 3 + 1 = k + 4
  BY DEF Onces, Mutexes
<1>2. Reads(Once("shutdown"), 1, list, k)
  BY <1>1, First
<1>3. Reads(Once("shutdown") \o Lock("shutdown"), 2, list, k)
  BY <1>1, <1>2, ThenLock
<1>4. Reads(Once("shutdown") \o Lock("shutdown") \o Make(c), 3, list, k)
  BY <1>1, <1>3, ThenMake
<1>5. Reads(Once("shutdown") \o Lock("shutdown") \o Make(c) \o Unlock("shutdown"), 4, list, k)
  BY <1>1, <1>4, ThenUnlock
<1> QED
  BY <1>5 DEF OnShutdown

(* The initialiser of the file, wherever it is called.                     *)
AddDescAt(list, k) ==
    /\ list[k + 1] = U("alreadyHere", 10) /\ list[k + 2] = I("make", "alreadyHere")
    /\ list[k + 3] = I("once", "pool") /\ list[k + 4] = I("make", "encodedFile")
    /\ list[k + 5] = I("once", "factory") /\ list[k + 6] = I("make", "registration")
    /\ list[k + 7] = I("make", "defaultInstance") /\ list[k + 8] = I("once", "shutdown")
    /\ list[k + 9] = I("lock", "shutdown") /\ list[k + 10] = I("make", "fileCleanup")
    /\ list[k + 11] = I("unlock", "shutdown")

LEMMA AddDescReads ==
    ASSUME NEW list, NEW k \in Nat, AddDescAt(list, k)
    PROVE  Reads(AddDesc, 11, list, k)
<1>1. /\ {"alreadyHere", "encodedFile", "registration", "defaultInstance", "fileCleanup"}
            \subseteq Things
      /\ {"pool", "factory"} \subseteq Onces
  BY DEF Things, Onces, Mutexes
<1>2. /\ (k + 1) + 1 = k + 2 /\ (k + 1) + 1 + 1 = k + 3 /\ (k + 1) + 2 + 1 = k + 4
      /\ (k + 1) + 3 + 1 = k + 5 /\ (k + 1) + 4 + 1 = k + 6 /\ (k + 1) + 5 + 1 = k + 7
      /\ (k + 1) + 6 = k + 7 /\ k + 7 + 1 = k + 8 /\ k + 7 + 2 = k + 9 /\ k + 7 + 3 = k + 10
      /\ k + 7 + 4 = k + 11 /\ k + 1 \in Nat /\ k + 7 \in Nat
  OBVIOUS
<1> DEFINE s1 == Make("alreadyHere")
           s2 == s1 \o Once("pool")
           s3 == s2 \o Make("encodedFile")
           s4 == s3 \o Once("factory")
           s5 == s4 \o Make("registration")
           s6 == s5 \o Make("defaultInstance")
<1>3. AddDesc = Unless("alreadyHere", s6 \o OnShutdown("fileCleanup"))
  BY DEF AddDesc
<1>4. Reads(s1, 1, list, k + 1)
  BY <1>1, <1>2, First DEF AddDescAt
<1> HIDE DEF s1
<1>5. Reads(s2, 2, list, k + 1)
  BY <1>1, <1>2, <1>4, ThenOnce DEF AddDescAt
<1> HIDE DEF s2
<1>6. Reads(s3, 3, list, k + 1)
  BY <1>1, <1>2, <1>5, ThenMake DEF AddDescAt
<1> HIDE DEF s3
<1>7. Reads(s4, 4, list, k + 1)
  BY <1>1, <1>2, <1>6, ThenOnce DEF AddDescAt
<1> HIDE DEF s4
<1>8. Reads(s5, 5, list, k + 1)
  BY <1>1, <1>2, <1>7, ThenMake DEF AddDescAt
<1> HIDE DEF s5
<1>9. Reads(s6, 6, list, k + 1)
  BY <1>1, <1>2, <1>8, ThenMake DEF AddDescAt
<1> HIDE DEF s6
<1>10. Reads(OnShutdown("fileCleanup"), 4, list, (k + 1) + 6)
  BY <1>1, <1>2, OnShutdownReads DEF AddDescAt
<1>11. Reads(s6 \o OnShutdown("fileCleanup"), 6 + 4, list, k + 1)
  BY <1>2, <1>9, <1>10, Joined
<1>12. Reads(Unless("alreadyHere", s6 \o OnShutdown("fileCleanup")), 10 + 1, list, k)
  <2>1. Reads(s6 \o OnShutdown("fileCleanup"), 10, list, k + 1)
    BY <1>11
  <2> QED
    BY <1>1, <2>1, UnlessReads DEF AddDescAt
<1> QED
  BY <1>3, <1>12

LEMMA FindFileReads ==
    ASSUME NEW list, NEW k \in Nat,
           list[k + 1] = I("lock", "pool"), list[k + 2] = U("file", 1),
           list[k + 3] = I("make", "file"), list[k + 4] = I("unlock", "pool")
    PROVE  Reads(FindFileByName, 4, list, k)
<1>1. "pool" \in Mutexes /\ "file" \in Things
  BY DEF Mutexes, Things
<1>2. Reads(Lock("pool"), 1, list, k)
  BY <1>1, First
<1>3. Reads(Make("file"), 1, list, k + 1 + 1)
  <2>1. k + 1 + 1 \in Nat /\ k + 1 + 1 + 1 = k + 3
    OBVIOUS
  <2> QED
    BY <1>1, <2>1, First
<1>4. Reads(Unless("file", Make("file")), 1 + 1, list, k + 1)
  <2>1. k + 1 \in Nat /\ k + 1 + 1 = k + 2
    OBVIOUS
  <2> QED
    BY <1>1, <1>3, <2>1, UnlessReads
<1>5. Reads(Lock("pool") \o Unless("file", Make("file")), 1 + 2, list, k)
  BY <1>2, <1>4, Joined
<1>6. Reads(Lock("pool") \o Unless("file", Make("file")) \o Unlock("pool"), 3 + 1, list, k)
  <2>1. Reads(Lock("pool") \o Unless("file", Make("file")), 3, list, k) /\ k + 3 + 1 = k + 4
    BY <1>5
  <2> QED
    BY <1>1, <2>1, ThenUnlock
<1> QED
  BY <1>6 DEF FindFileByName

LEMMA ListsAreCode ==
    /\ ShutdownList \in Seq(Instructions) /\ PoolList \in Seq(Instructions)
    /\ FactoryList \in Seq(Instructions) /\ AssignList \in Seq(Instructions)
    /\ StaticList \in Seq(Instructions) /\ StaticAfterUseList \in Seq(Instructions)
    /\ MetadataList \in Seq(Instructions) /\ NewByNameList \in Seq(Instructions)
    /\ Len(ShutdownList) = 1 /\ Len(PoolList) = 5 /\ Len(FactoryList) = 5
    /\ Len(AssignList) = 19 /\ Len(StaticList) = 11 /\ Len(StaticAfterUseList) = 12
    /\ Len(MetadataList) = 1 /\ Len(NewByNameList) = 28
<1>1. /\ {"shutdown", "pool", "factory"} \subseteq Mutexes
      /\ {"shutdown", "pool", "factory", "assign"} \subseteq Onces
      /\ {"shutdown", "pool", "factory", "poolCleanup", "factoryCleanup", "fileCleanup",
          "alreadyHere", "encodedFile", "registration", "defaultInstance", "file",
          "descriptor", "type"} \subseteq Things
  BY DEF Mutexes, Onces, Things
<1> QED
  BY <1>1, IsInstruction DEF ShutdownList, PoolList, FactoryList, AssignList, StaticList,
     StaticAfterUseList, MetadataList, NewByNameList

LEMMA AssignIs == Program["assign"] = AssignList
<1>1. /\ {"pool", "factory"} \subseteq Onces /\ "descriptor" \in Things
  BY DEF Things, Onces, Mutexes
<1>2. Reads(AddDesc, 11, AssignList, 0)
  BY AddDescReads DEF AddDescAt, AssignList
<1>3. Reads(AddDesc \o Once("pool"), 12, AssignList, 0)
  <2>1. AssignList[0 + 11 + 1] = I("once", "pool")
    BY DEF AssignList
  <2> QED
    BY <1>1, <1>2, <2>1, ThenOnce
<1>4. Reads(FindFileByName, 4, AssignList, 0 + 12)
  BY FindFileReads DEF AssignList
<1>5. Reads(AddDesc \o Once("pool") \o FindFileByName, 16, AssignList, 0)
  <2>1. Reads(AddDesc \o Once("pool") \o FindFileByName, 12 + 4, AssignList, 0)
    BY <1>3, <1>4, Joined
  <2> QED
    BY <2>1
<1>6. Reads(AddDesc \o Once("pool") \o FindFileByName \o Once("pool"), 17, AssignList, 0)
  <2>1. AssignList[0 + 16 + 1] = I("once", "pool")
    BY DEF AssignList
  <2> QED
    BY <1>1, <1>5, <2>1, ThenOnce
<1>7. Reads(AddDesc \o Once("pool") \o FindFileByName \o Once("pool") \o Once("factory"),
            18, AssignList, 0)
  <2>1. AssignList[0 + 17 + 1] = I("once", "factory")
    BY DEF AssignList
  <2> QED
    BY <1>1, <1>6, <2>1, ThenOnce
<1>8. Reads(AddDesc \o Once("pool") \o FindFileByName \o Once("pool") \o Once("factory")
            \o Make("descriptor"), 19, AssignList, 0)
  <2>1. AssignList[0 + 18 + 1] = I("make", "descriptor")
    BY DEF AssignList
  <2> QED
    BY <1>1, <1>7, <2>1, ThenMake
<1>9. Reads(AssignDesc, 19, AssignList, 0)
  BY <1>8 DEF AssignDesc
<1>10. AssignDesc = AssignList
  BY <1>9, IsList, ListsAreCode
<1> QED
  BY <1>10 DEF Program, Onces

LEMMA SmallOnes ==
    /\ Program["shutdown"] = ShutdownList
    /\ Program["pool"] = PoolList
    /\ Program["factory"] = FactoryList
    /\ Program["static"] = StaticList
    /\ Program["metadata"] = MetadataList
<1>1. /\ {"shutdown", "pool", "factory", "poolCleanup", "factoryCleanup"} \subseteq Things
      /\ "assign" \in Onces
  BY DEF Things, Onces, Mutexes
<1>2. Make("shutdown") = ShutdownList
  BY DEF Make, ShutdownList, I
<1>3. Make("pool") \o OnShutdown("poolCleanup") = PoolList
  <2>1. Reads(Make("pool"), 1, PoolList, 0)
    BY <1>1, First DEF PoolList
  <2>2. Reads(OnShutdown("poolCleanup"), 4, PoolList, 0 + 1)
    BY <1>1, OnShutdownReads DEF PoolList
  <2>3. Reads(Make("pool") \o OnShutdown("poolCleanup"), 1 + 4, PoolList, 0)
    BY <2>1, <2>2, Joined
  <2>4. Reads(Make("pool") \o OnShutdown("poolCleanup"), 5, PoolList, 0)
    BY <2>3
  <2> QED
    BY <2>4, IsList, ListsAreCode
<1>4. Make("factory") \o OnShutdown("factoryCleanup") = FactoryList
  <2>1. Reads(Make("factory"), 1, FactoryList, 0)
    BY <1>1, First DEF FactoryList
  <2>2. Reads(OnShutdown("factoryCleanup"), 4, FactoryList, 0 + 1)
    BY <1>1, OnShutdownReads DEF FactoryList
  <2>3. Reads(Make("factory") \o OnShutdown("factoryCleanup"), 1 + 4, FactoryList, 0)
    BY <2>1, <2>2, Joined
  <2>4. Reads(Make("factory") \o OnShutdown("factoryCleanup"), 5, FactoryList, 0)
    BY <2>3
  <2> QED
    BY <2>4, IsList, ListsAreCode
<1>5. AddDesc = StaticList
  <2>1. Reads(AddDesc, 11, StaticList, 0)
    BY AddDescReads DEF AddDescAt, StaticList
  <2> QED
    BY <2>1, IsList, ListsAreCode
<1>6. Once("assign") = MetadataList
  BY DEF Once, MetadataList, I
<1> QED
  BY <1>2, <1>3, <1>4, <1>5, <1>6 DEF Program, Onces, Statics, Requests, InitShutdownFunctions,
     InitGeneratedPool, InitGeneratedMessageFactory, GetMetadata

LEMMA StaticAfterUseIs == Program["staticAfterUse"] = StaticAfterUseList
<1>1. "assign" \in Onces
  BY DEF Onces
<1>2. Reads(Once("assign"), 1, StaticAfterUseList, 0)
  BY <1>1, First DEF StaticAfterUseList
<1>3. Reads(AddDesc, 11, StaticAfterUseList, 0 + 1)
  BY AddDescReads DEF AddDescAt, StaticAfterUseList
<1>4. Reads(Once("assign") \o AddDesc, 1 + 11, StaticAfterUseList, 0)
  BY <1>2, <1>3, Joined
<1>5. Reads(Once("assign") \o AddDesc, 12, StaticAfterUseList, 0)
  BY <1>4
<1>6. Once("assign") \o AddDesc = StaticAfterUseList
  BY <1>5, IsList, ListsAreCode
<1> QED
  BY <1>6 DEF Program, Statics, GetMetadata

LEMMA NewByNameIs == Program["newByName"] = NewByNameList
<1> DEFINE L == NewByNameList
<1>1. /\ {"pool", "factory", "assign"} \subseteq Onces /\ {"pool", "factory"} \subseteq Mutexes
      /\ {"type", "defaultInstance", "alreadyHere"} \subseteq Things
  BY DEF Things, Onces, Mutexes
<1>2. Reads(AddDesc, 11, L, 14)
  BY AddDescReads DEF AddDescAt, NewByNameList
<1>3. Reads(Unless("defaultInstance", AddDesc), 12, L, 13)
  <2>1. L[13 + 1] = U("defaultInstance", 11)
    BY DEF NewByNameList
  <2>2. Reads(AddDesc, 11, L, 13 + 1)
    BY <1>2
  <2>3. Reads(Unless("defaultInstance", AddDesc), 11 + 1, L, 13)
    BY <1>1, <2>1, <2>2, UnlessReads
  <2> QED
    BY <2>3
<1>4. Reads(Once("assign") \o Unless("defaultInstance", AddDesc), 13, L, 12)
  <2>1. L[12 + 1] = I("once", "assign")
    BY DEF NewByNameList
  <2>2. Reads(Once("assign"), 1, L, 12)
    BY <1>1, <2>1, First
  <2>3. Reads(Unless("defaultInstance", AddDesc), 12, L, 12 + 1)
    BY <1>3
  <2>4. Reads(Once("assign") \o Unless("defaultInstance", AddDesc), 1 + 12, L, 12)
    BY <2>2, <2>3, Joined
  <2> QED
    BY <2>4
<1>5. Reads(RegisterTypes, 15, L, 12)
  <2> DEFINE s1 == Once("assign") \o Unless("defaultInstance", AddDesc)
  <2>1. L[12 + 13 + 1] = I("once", "factory") /\ L[12 + 14 + 1] = I("make", "type")
    BY DEF NewByNameList
  <2>2. Reads(s1, 13, L, 12)
    BY <1>4
  <2> HIDE DEF L
  <2>3. RegisterTypes = s1 \o Once("factory") \o Make("type")
    BY DEF RegisterTypes
  <2> HIDE DEF s1
  <2>4. Reads(s1 \o Once("factory"), 14, L, 12)
    <3>1. Reads(s1 \o Once("factory"), 13 + 1, L, 12)
      BY <1>1, <2>1, <2>2, ThenOnce
    <3> QED
      BY <3>1
  <2>5. Reads(s1 \o Once("factory") \o Make("type"), 14 + 1, L, 12)
    BY <1>1, <2>1, <2>4, ThenMake
  <2> QED
    BY <2>3, <2>5
<1>6. Reads(Unless("type", RegisterTypes), 16, L, 11)
  <2>1. L[11 + 1] = U("type", 15)
    BY DEF NewByNameList
  <2>2. Reads(RegisterTypes, 15, L, 11 + 1)
    BY <1>5
  <2>3. Reads(Unless("type", RegisterTypes), 15 + 1, L, 11)
    BY <1>1, <2>1, <2>2, UnlessReads
  <2> QED
    BY <2>3
<1> DEFINE m1 == Unlock("factory") \o Once("pool") \o Lock("factory")
           m2 == m1 \o Unless("type", RegisterTypes)
<1>7. Reads(m1, 3, L, 8)
  <2>1. /\ L[8 + 1] = I("unlock", "factory") /\ L[8 + 1 + 1] = I("once", "pool")
        /\ L[8 + 2 + 1] = I("lock", "factory")
    BY DEF NewByNameList
  <2> HIDE DEF L
  <2>2. Reads(Unlock("factory"), 1, L, 8)
    BY <1>1, <2>1, First
  <2>3. Reads(Unlock("factory") \o Once("pool"), 2, L, 8)
    <3>1. Reads(Unlock("factory") \o Once("pool"), 1 + 1, L, 8)
      BY <1>1, <2>1, <2>2, ThenOnce
    <3> QED
      BY <3>1
  <2>4. Reads(m1, 2 + 1, L, 8)
    BY <1>1, <2>1, <2>3, ThenLock
  <2> QED
    BY <2>4
<1>8. Reads(m2, 19, L, 8)
  <2>1. Reads(Unless("type", RegisterTypes), 16, L, 8 + 3)
    BY <1>6
  <2> HIDE DEF m1, L
  <2>2. Reads(m2, 3 + 16, L, 8)
    BY <1>7, <2>1, Joined
  <2> QED
    BY <2>2
<1>9. Reads(Unless("type", m2), 20, L, 7)
  <2>1. L[7 + 1] = U("type", 19)
    BY DEF NewByNameList
  <2> HIDE DEF m2, L
  <2>2. Reads(m2, 19, L, 7 + 1)
    BY <1>8
  <2>3. Reads(Unless("type", m2), 19 + 1, L, 7)
    BY <1>1, <2>1, <2>2, UnlessReads
  <2> QED
    BY <2>3
<1> DEFINE g1 == Once("factory") \o Lock("factory")
           g2 == g1 \o Unless("type", m2)
<1>10. Reads(g1, 2, L, 5)
  <2>1. L[5 + 1] = I("once", "factory") /\ L[5 + 1 + 1] = I("lock", "factory")
    BY DEF NewByNameList
  <2> HIDE DEF L
  <2>2. Reads(Once("factory"), 1, L, 5)
    BY <1>1, <2>1, First
  <2>3. Reads(g1, 1 + 1, L, 5)
    BY <1>1, <2>1, <2>2, ThenLock
  <2> QED
    BY <2>3
<1>11. Reads(g2, 22, L, 5)
  <2> HIDE DEF m2, g1, L
  <2>1. Reads(Unless("type", m2), 20, L, 5 + 2)
    BY <1>9
  <2>2. Reads(g2, 2 + 20, L, 5)
    BY <1>10, <2>1, Joined
  <2> QED
    BY <2>2
<1>12. Reads(GetPrototype, 23, L, 5)
  <2>1. L[5 + 22 + 1] = I("unlock", "factory")
    BY DEF NewByNameList
  <2>2. GetPrototype = g2 \o Unlock("factory")
    BY DEF GetPrototype
  <2> HIDE DEF g2, L
  <2>3. Reads(g2 \o Unlock("factory"), 22 + 1, L, 5)
    BY <1>1, <1>11, <2>1, ThenUnlock
  <2> QED
    BY <2>2, <2>3
<1>13. Reads(Once("pool") \o FindFileByName, 5, L, 0)
  <2>1. L[0 + 1] = I("once", "pool")
    BY DEF NewByNameList
  <2>2. Reads(FindFileByName, 4, L, 0 + 1)
    BY FindFileReads DEF NewByNameList
  <2> HIDE DEF L
  <2>3. Reads(Once("pool"), 1, L, 0)
    BY <1>1, <2>1, First
  <2>4. Reads(Once("pool") \o FindFileByName, 1 + 4, L, 0)
    BY <2>2, <2>3, Joined
  <2> QED
    BY <2>4
<1>14. Reads(Once("pool") \o FindFileByName \o GetPrototype, 28, L, 0)
  <2> HIDE DEF L
  <2>1. Reads(GetPrototype, 23, L, 0 + 5)
    BY <1>12
  <2>2. Reads(Once("pool") \o FindFileByName \o GetPrototype, 5 + 23, L, 0)
    BY <1>13, <2>1, Joined
  <2> QED
    BY <2>2
<1>15. Once("pool") \o FindFileByName \o GetPrototype = NewByNameList
  BY <1>14, IsList, ListsAreCode
<1> QED
  BY <1>15 DEF Program, Requests

-----------------------------------------------------------------------------
(* What the programs have in common.                                       *)
Rank(r) ==
    CASE r = "shutdown" -> 1
      [] r \in {"pool", "factory"} -> 2
      [] r = "assign" -> 3
      [] OTHER -> 4

(* A closure asks only for things of a lower rank, and a block that is     *)
(* left out ends within the program.                                       *)
WellFormed(list, r) ==
    \A i \in 1..Len(list) :
        /\ list[i].op = "once" => list[i].arg \in Onces /\ Rank(list[i].arg) < Rank(r)
        /\ list[i].op \in {"lock", "unlock"} => list[i].arg \in Mutexes
        /\ list[i].op \in {"make", "unless"} => list[i].arg \in Things
        /\ list[i].op = "unless" => i + list[i].skip <= Len(list)

LEMMA ListsWellFormed ==
    /\ WellFormed(ShutdownList, "shutdown") /\ WellFormed(PoolList, "pool")
    /\ WellFormed(FactoryList, "factory") /\ WellFormed(AssignList, "assign")
    /\ WellFormed(StaticList, "static")
    /\ WellFormed(StaticAfterUseList, "staticAfterUse")
    /\ WellFormed(MetadataList, "metadata") /\ WellFormed(NewByNameList, "newByName")
<1>1. /\ {"shutdown", "pool", "factory"} \subseteq Mutexes
      /\ {"shutdown", "pool", "factory", "assign"} \subseteq Onces
      /\ {"shutdown", "pool", "factory", "poolCleanup", "factoryCleanup", "fileCleanup",
          "alreadyHere", "encodedFile", "registration", "defaultInstance", "file",
          "descriptor", "type"} \subseteq Things
  BY DEF Mutexes, Onces, Things
<1>2. /\ Rank("shutdown") = 1 /\ Rank("pool") = 2 /\ Rank("factory") = 2 /\ Rank("assign") = 3
      /\ Rank("static") = 4 /\ Rank("staticAfterUse") = 4 /\ Rank("metadata") = 4
      /\ Rank("newByName") = 4
  BY DEF Rank
<1>3. WellFormed(ShutdownList, "shutdown") /\ WellFormed(MetadataList, "metadata")
  BY <1>1, <1>2, ListsAreCode DEF WellFormed, ShutdownList, MetadataList, I, U
<1>4. WellFormed(PoolList, "pool") /\ WellFormed(FactoryList, "factory")
  BY <1>1, <1>2, ListsAreCode DEF WellFormed, PoolList, FactoryList, I, U
<1>5. WellFormed(AssignList, "assign")
  <2>1. Len(AssignList) = 19
    BY ListsAreCode
  <2>2. \A i \in 1..19 :
          i = 1 \/ i = 2 \/ i = 3 \/ i = 4 \/ i = 5 \/ i = 6 \/ i = 7 \/ i = 8 \/ i = 9 \/
          i = 10 \/ i = 11 \/ i = 12 \/ i = 13 \/ i = 14 \/ i = 15 \/ i = 16 \/ i = 17 \/
          i = 18 \/ i = 19
    OBVIOUS
  <2> QED
    BY <1>1, <1>2, <2>1, <2>2 DEF WellFormed, AssignList, I, U
<1>6. WellFormed(StaticList, "static")
  <2>1. Len(StaticList) = 11
    BY ListsAreCode
  <2>2. \A i \in 1..11 :
          i = 1 \/ i = 2 \/ i = 3 \/ i = 4 \/ i = 5 \/ i = 6 \/ i = 7 \/ i = 8 \/ i = 9 \/
          i = 10 \/ i = 11
    OBVIOUS
  <2> QED
    BY <1>1, <1>2, <2>1, <2>2 DEF WellFormed, StaticList, I, U
<1>7. WellFormed(StaticAfterUseList, "staticAfterUse")
  <2>1. Len(StaticAfterUseList) = 12
    BY ListsAreCode
  <2>2. \A i \in 1..12 :
          i = 1 \/ i = 2 \/ i = 3 \/ i = 4 \/ i = 5 \/ i = 6 \/ i = 7 \/ i = 8 \/ i = 9 \/
          i = 10 \/ i = 11 \/ i = 12
    OBVIOUS
  <2> QED
    BY <1>1, <1>2, <2>1, <2>2 DEF WellFormed, StaticAfterUseList, I, U
<1>8. WellFormed(NewByNameList, "newByName")
  <2>1. Len(NewByNameList) = 28
    BY ListsAreCode
  <2>2. \A i \in 1..28 :
          i = 1 \/ i = 2 \/ i = 3 \/ i = 4 \/ i = 5 \/ i = 6 \/ i = 7 \/ i = 8 \/ i = 9 \/
          i = 10 \/ i = 11 \/ i = 12 \/ i = 13 \/ i = 14 \/ i = 15 \/ i = 16 \/ i = 17 \/
          i = 18 \/ i = 19 \/ i = 20 \/ i = 21 \/ i = 22 \/ i = 23 \/ i = 24 \/ i = 25 \/
          i = 26 \/ i = 27 \/ i = 28
    OBVIOUS
  <2> QED
    BY <1>1, <1>2, <2>1, <2>2 DEF WellFormed, NewByNameList, I, U
<1> QED
  BY <1>3, <1>4, <1>5, <1>6, <1>7, <1>8

LEMMA ProgramFacts ==
    ASSUME NEW r \in DOMAIN Program
    PROVE  Program[r] \in Seq(Instructions) /\ WellFormed(Program[r], r)
<1>1. DOMAIN Program = {"shutdown", "pool", "factory", "assign", "static", "staticAfterUse",
                        "metadata", "newByName"}
  BY DEF Program, Onces, Statics, Requests
<1> QED
  BY <1>1, AssignIs, SmallOnes, StaticAfterUseIs, NewByNameIs, ListsAreCode, ListsWellFormed

LEMMA RankFacts ==
    /\ \A r : Rank(r) \in 1..4
    /\ \A o \in Onces : Rank(o) < 4
    /\ DOMAIN Program = Onces \cup Statics \cup Requests
    /\ Onces \cap (Statics \cup Requests) = {}
<1>1. \A r : Rank(r) \in 1..4
  BY DEF Rank
<1>2. \A o \in Onces : Rank(o) < 4
  BY DEF Rank, Onces
<1>3. DOMAIN Program = Onces \cup Statics \cup Requests
  BY DEF Program
<1>4. Onces \cap (Statics \cup Requests) = {}
  BY DEF Onces, Statics, Requests
<1> QED
  BY <1>1, <1>2, <1>3, <1>4

LEMMA InstructionFacts ==
    ASSUME NEW f \in Frames, ~AtEnd(f)
    PROVE  /\ f.pc \in 1..Len(Program[f.of]) /\ f.of \in DOMAIN Program
           /\ Instruction(f) \in Instructions
           /\ Instruction(f).op = "once" =>
                Instruction(f).arg \in Onces /\ Rank(Instruction(f).arg) < Rank(f.of)
           /\ Instruction(f).op \in {"lock", "unlock"} => Instruction(f).arg \in Mutexes
           /\ Instruction(f).op \in {"make", "unless"} => Instruction(f).arg \in Things
           /\ Instruction(f).op = "unless" =>
                Instruction(f).skip \in Nat /\ f.pc + Instruction(f).skip <= Len(Program[f.of])
<1>1. f.of \in DOMAIN Program /\ f.pc \in Nat \ {0}
  BY DEF Frames
<1>2. Program[f.of] \in Seq(Instructions) /\ WellFormed(Program[f.of], f.of)
  BY <1>1, ProgramFacts
<1>3. Len(Program[f.of]) \in Nat
  BY <1>2, LenProperties
<1>4. f.pc \in 1..Len(Program[f.of])
  BY <1>1, <1>3 DEF AtEnd
<1>5. Program[f.of][f.pc] \in Instructions
  BY <1>2, <1>4, ElementOfSeq
<1>6. Instruction(f).skip \in Nat
  BY <1>5 DEF Instruction, Instructions
<1> QED
  BY <1>1, <1>2, <1>4, <1>5, <1>6 DEF WellFormed, Instruction

-----------------------------------------------------------------------------
(* Stacks.  A thread stands in the closures its frames have called; all    *)
(* frames but the last are in the middle of GoogleOnceInit.                *)
AtOnce(f) == ~AtEnd(f) /\ Instruction(f).op = "once"

Stands(s) ==
    /\ s \in Seq(Frames)
    /\ \A k \in 1..Len(s) :
         /\ s[k].pc <= Len(Program[s[k].of]) + 1
         /\ s[k].at # "start" => AtOnce(s[k])
         /\ (s[k].at = "run") <=> (k < Len(s))
         /\ Rank(s[k].of) <= 5 - k
         /\ k = 1 => s[k].of \in Statics \cup Requests
         /\ k > 1 => s[k].of = Instruction(s[k - 1]).arg
    /\ \A i, j \in 1..Len(s) : i < j => Rank(s[j].of) < Rank(s[i].of)

(* The last frame moves; calls a closure; has gone; the thread begins.     *)
Moved(s, r, pc, at) ==
    /\ r \in Seq(Frames) /\ Len(r) = Len(s)
    /\ \A k \in 1..(Len(s) - 1) : r[k] = s[k]
    /\ r[Len(s)].of = s[Len(s)].of /\ r[Len(s)].pc = pc /\ r[Len(s)].at = at

Pushed(s, r, o) ==
    /\ r \in Seq(Frames) /\ Len(r) = Len(s) + 1
    /\ \A k \in 1..(Len(s) - 1) : r[k] = s[k]
    /\ r[Len(s)].of = s[Len(s)].of /\ r[Len(s)].pc = s[Len(s)].pc /\ r[Len(s)].at = "run"
    /\ r[Len(s) + 1].of = o /\ r[Len(s) + 1].pc = 1 /\ r[Len(s) + 1].at = "start"

Popped(s, r) ==
    /\ r \in Seq(Frames) /\ Len(s) > 1 /\ Len(r) = Len(s) - 1
    /\ \A k \in 1..(Len(s) - 2) : r[k] = s[k]
    /\ r[Len(s) - 1].of = s[Len(s) - 1].of /\ r[Len(s) - 1].pc = s[Len(s) - 1].pc
    /\ r[Len(s) - 1].at = "store"

LEMMA MovedStands ==
    ASSUME NEW s, NEW r, NEW pc, NEW at, Stands(s), s # <<>>, Moved(s, r, pc, at),
           pc <= Len(Program[s[Len(s)].of]) + 1, at # "run",
           at = "start" \/ (pc = s[Len(s)].pc /\ AtOnce(s[Len(s)]))
    PROVE  Stands(r)
<1> DEFINE n == Len(s)
<1>1. s \in Seq(Frames) /\ n \in Nat /\ n > 0 /\ Len(r) = n /\ r \in Seq(Frames)
  BY EmptySeq, LenProperties DEF Stands, Moved
<1>2. \A k \in 1..n : k \in 1..(n - 1) \/ k = n
  BY <1>1
<1>3. \A k \in 1..n : r[k].of = s[k].of
  BY <1>1, <1>2 DEF Moved
<1>4. \A k \in 1..n : r[k].pc <= Len(Program[r[k].of]) + 1
  BY <1>1, <1>2, <1>3 DEF Moved, Stands
<1>5. \A k \in 1..n : r[k].at # "start" => AtOnce(r[k])
  <2> TAKE k \in 1..n
  <2>1. CASE k \in 1..(n - 1)
    BY <1>1, <2>1 DEF Moved, Stands
  <2>2. CASE k = n
    BY <1>1, <2>2 DEF Moved, AtOnce, AtEnd, Instruction
  <2> QED
    BY <1>2, <2>1, <2>2
<1>6. \A k \in 1..n : (r[k].at = "run") <=> (k < n)
  <2> TAKE k \in 1..n
  <2>1. CASE k \in 1..(n - 1)
    BY <1>1, <2>1 DEF Moved, Stands
  <2>2. CASE k = n
    BY <1>1, <2>2 DEF Moved
  <2> QED
    BY <1>2, <2>1, <2>2
<1>7. \A k \in 1..n : k > 1 => r[k].of = Instruction(r[k - 1]).arg
  <2> TAKE k \in 1..n
  <2> HAVE k > 1
  <2>1. k - 1 \in 1..(n - 1)
    BY <1>1
  <2>2. r[k - 1] = s[k - 1]
    BY <2>1 DEF Moved
  <2> QED
    BY <1>3, <2>2 DEF Stands
<1>8. \A k \in 1..n : Rank(r[k].of) <= 5 - k /\ (k = 1 => r[k].of \in Statics \cup Requests)
  BY <1>3 DEF Stands
<1>9. \A i, j \in 1..n : i < j => Rank(r[j].of) < Rank(r[i].of)
  BY <1>3 DEF Stands
<1> HIDE DEF n
<1>10. Len(r) = n
  BY <1>1
<1> QED
  BY <1>1, <1>10, <1>4, <1>5, <1>6, <1>7, <1>8, <1>9 DEF Stands

LEMMA PushedStands ==
    ASSUME NEW s, NEW r, NEW o, Stands(s), s # <<>>, Pushed(s, r, o),
           AtOnce(s[Len(s)]), o = Instruction(s[Len(s)]).arg
    PROVE  Stands(r)
<1> DEFINE n == Len(s)
<1>1. s \in Seq(Frames) /\ n \in Nat /\ n > 0 /\ Len(r) = n + 1 /\ r \in Seq(Frames)
  BY EmptySeq, LenProperties DEF Stands, Pushed
<1>2. \A k \in 1..(n + 1) : k \in 1..(n - 1) \/ k = n \/ k = n + 1
  BY <1>1
<1>3. \A k \in 1..n : r[k].of = s[k].of /\ r[k].pc = s[k].pc
  BY <1>1 DEF Pushed
<1>4. s[n] \in Frames /\ n \in 1..n
  BY <1>1, ElementOfSeq
<1>5. o \in Onces /\ Rank(o) < Rank(s[n].of) /\ o \in DOMAIN Program
  BY <1>4, InstructionFacts, RankFacts DEF AtOnce
<1>6. \A k \in 1..n : AtOnce(r[k]) = AtOnce(s[k]) /\ Instruction(r[k]) = Instruction(s[k])
  BY <1>3 DEF AtOnce, AtEnd, Instruction
<1>7. r[n + 1].of = o /\ r[n + 1].pc = 1 /\ r[n + 1].at = "start" /\ r[n].at = "run"
  BY DEF Pushed
<1>8. Rank(s[n].of) \in 1..4 /\ Rank(o) \in 1..4 /\ Rank(s[n].of) <= 5 - n
  BY <1>1, <1>4, RankFacts DEF Stands
<1>9. Len(Program[o]) \in Nat
  BY <1>5, ProgramFacts, LenProperties
<1>10. \A k \in 1..(n + 1) : r[k].pc <= Len(Program[r[k].of]) + 1
  <2>1. \A k \in 1..n : r[k].pc <= Len(Program[r[k].of]) + 1
    BY <1>3 DEF Stands
  <2> QED
    BY <1>1, <1>2, <1>7, <1>9, <2>1
<1>11. \A k \in 1..(n + 1) : r[k].at # "start" => AtOnce(r[k])
  <2>1. \A k \in 1..(n - 1) : r[k].at # "start" => AtOnce(r[k])
    BY <1>1 DEF Pushed, Stands
  <2>2. AtOnce(r[n])
    BY <1>4, <1>6
  <2> QED
    BY <1>1, <1>2, <1>7, <2>1, <2>2
<1>12. \A k \in 1..(n + 1) : (r[k].at = "run") <=> (k < n + 1)
  <2>1. \A k \in 1..(n - 1) : r[k].at = "run"
    BY <1>1 DEF Pushed, Stands
  <2> QED
    BY <1>1, <1>2, <1>7, <2>1
<1>13. \A k \in 1..(n + 1) : k > 1 => r[k].of = Instruction(r[k - 1]).arg
  <2> TAKE k \in 1..(n + 1)
  <2> HAVE k > 1
  <2>1. k - 1 \in 1..n
    BY <1>1
  <2>2. CASE k = n + 1
    BY <1>6, <1>7, <2>1, <2>2
  <2>3. CASE k \in 1..n
    BY <1>3, <1>6, <2>1, <2>3 DEF Stands
  <2> QED
    BY <1>1, <2>2, <2>3
<1>14. \A k \in 1..(n + 1) : Rank(r[k].of) <= 5 - k
  <2>1. \A k \in 1..n : Rank(r[k].of) <= 5 - k
    BY <1>3 DEF Stands
  <2>2. Rank(r[n + 1].of) <= 5 - (n + 1)
    BY <1>1, <1>5, <1>7, <1>8
  <2> QED
    BY <1>1, <1>2, <2>1, <2>2
<1>15. \A k \in 1..(n + 1) : k = 1 => r[k].of \in Statics \cup Requests
  BY <1>1, <1>3 DEF Stands
<1>16. \A i, j \in 1..(n + 1) : i < j => Rank(r[j].of) < Rank(r[i].of)
  <2>1. \A i, j \in 1..n : i < j => Rank(r[j].of) < Rank(r[i].of)
    BY <1>3 DEF Stands
  <2>2. \A i \in 1..n : Rank(r[i].of) \in 1..4 /\ Rank(r[n].of) <= Rank(r[i].of)
    <3> TAKE i \in 1..n
    <3>1. i = n \/ i < n
      BY <1>1
    <3> QED
      BY <1>4, <3>1, <2>1, RankFacts
  <2>3. \A i \in 1..n : Rank(r[n + 1].of) < Rank(r[i].of)
    <3> TAKE i \in 1..n
    <3>1. Rank(o) < Rank(r[n].of) /\ Rank(r[n].of) \in 1..4 /\ Rank(r[i].of) \in 1..4
      BY <1>3, <1>4, <1>5, RankFacts
    <3> QED
      BY <1>7, <1>8, <2>2, <3>1
  <2>4. \A i \in 1..(n + 1) : i \in 1..n \/ i = n + 1
    BY <1>1
  <2>5. \A i, j \in 1..(n + 1) : i < j => (i \in 1..n /\ (j \in 1..n \/ j = n + 1))
    BY <1>1
  <2> QED
    BY <2>1, <2>3, <2>5
<1> HIDE DEF n
<1>17. Len(r) = n + 1
  BY <1>1
<1> QED
  BY <1>1, <1>17, <1>10, <1>11, <1>12, <1>13, <1>14, <1>15, <1>16 DEF Stands

LEMMA PoppedStands ==
    ASSUME NEW s, NEW r, Stands(s), Popped(s, r)
    PROVE  Stands(r) /\ AtOnce(s[Len(s) - 1])
<1> DEFINE n == Len(s) - 1
<1>1. s \in Seq(Frames) /\ n \in Nat /\ n > 0 /\ Len(r) = n /\ r \in Seq(Frames)
      /\ Len(s) = n + 1
  BY LenProperties DEF Stands, Popped
<1>2. \A k \in 1..n : (k \in 1..(n - 1) \/ k = n) /\ k \in 1..Len(s)
  BY <1>1
<1>3. \A k \in 1..n : r[k].of = s[k].of /\ r[k].pc = s[k].pc
  BY <1>1, <1>2 DEF Popped
<1>4. \A k \in 1..n : AtOnce(r[k]) = AtOnce(s[k]) /\ Instruction(r[k]) = Instruction(s[k])
  BY <1>3 DEF AtOnce, AtEnd, Instruction
<1>5. \A k \in 1..n : s[k].at = "run" /\ AtOnce(s[k])
  <2> TAKE k \in 1..n
  <2>1. k < Len(s) /\ k \in 1..Len(s)
    BY <1>1
  <2>2. s[k].at = "run"
    BY <2>1 DEF Stands
  <2> QED
    BY <2>1, <2>2 DEF Stands
<1>6. \A k \in 1..n : (r[k].at = "run") <=> (k < n)
  <2> TAKE k \in 1..n
  <2>1. CASE k \in 1..(n - 1)
    BY <1>1, <1>5, <2>1 DEF Popped
  <2>2. CASE k = n
    BY <1>1, <2>2 DEF Popped
  <2> QED
    BY <1>2, <2>1, <2>2
<1>7. \A k \in 1..n : k > 1 => r[k].of = Instruction(r[k - 1]).arg
  <2> TAKE k \in 1..n
  <2> HAVE k > 1
  <2>1. k - 1 \in 1..n /\ k \in 1..Len(s)
    BY <1>1
  <2> QED
    BY <1>3, <1>4, <2>1 DEF Stands
<1>8. \A k \in 1..n : /\ Rank(r[k].of) <= 5 - k /\ (k = 1 => r[k].of \in Statics \cup Requests)
                      /\ r[k].pc <= Len(Program[r[k].of]) + 1
  BY <1>2, <1>3 DEF Stands
<1>9. \A i, j \in 1..n : i < j => Rank(r[j].of) < Rank(r[i].of)
  BY <1>2, <1>3 DEF Stands
<1>10. AtOnce(s[Len(s) - 1])
  BY <1>1, <1>5
<1> HIDE DEF n
<1>11. Len(r) = n
  BY <1>1
<1> QED
  BY <1>1, <1>10, <1>11, <1>4, <1>5, <1>6, <1>7, <1>8, <1>9 DEF Stands

LEMMA BegunStands ==
    ASSUME NEW r \in Statics \cup Requests
    PROVE  Stands(<<Frame(r)>>) /\ Stands(<<>>)
<1>1. r \in DOMAIN Program /\ Rank(r) \in 1..4
  BY RankFacts
<1>2. Frame(r) \in Frames /\ Frame(r).of = r /\ Frame(r).pc = 1 /\ Frame(r).at = "start"
  BY <1>1 DEF Frame, Frames
<1>3. Len(Program[r]) \in Nat
  BY <1>1, ProgramFacts, LenProperties
<1>4. Stands(<<>>)
  BY DEF Stands
<1> DEFINE s == <<Frame(r)>>
<1>5. s \in Seq(Frames) /\ Len(s) = 1 /\ s[1] = Frame(r)
  BY <1>2
<1> HIDE DEF s
<1>6. \A k \in 1..Len(s) : k = 1
  BY <1>5
<1>7. \A k \in 1..Len(s) :
         /\ s[k].pc <= Len(Program[s[k].of]) + 1
         /\ s[k].at # "start" => AtOnce(s[k])
         /\ (s[k].at = "run") <=> (k < Len(s))
         /\ Rank(s[k].of) <= 5 - k
         /\ k = 1 => s[k].of \in Statics \cup Requests
         /\ k > 1 => s[k].of = Instruction(s[k - 1]).arg
  BY <1>1, <1>2, <1>3, <1>5, <1>6
<1>8. Stands(s)
  BY <1>5, <1>6, <1>7 DEF Stands
<1> QED
  BY <1>4, <1>8 DEF s

-----------------------------------------------------------------------------
(* The types.                                                              *)
TypeInv ==
    /\ once \in [Onces -> {"UNINITIALIZED", "EXECUTING_CLOSURE", "DONE"}]
    /\ holder \in [Mutexes -> SUBSET Threads]
    /\ made \in [Things -> Nat]
    /\ calls \in [Threads -> 0..MaxCalls]
    /\ stack \in [Threads -> Seq(Frames)]
    /\ \A t \in Threads : Stands(stack[t])

OthersStay(t) ==
    /\ stack' \in [Threads -> Seq(Frames)]
    /\ \A u \in Threads : u # t => stack'[u] = stack[u]

LEMMA TopFacts ==
    ASSUME TypeInv, NEW t \in Threads, stack[t] # <<>>
    PROVE  /\ Len(stack[t]) \in Nat \ {0} /\ Top(t) = stack[t][Len(stack[t])]
           /\ Top(t) \in Frames /\ Len(stack[t]) \in 1..Len(stack[t])
           /\ Top(t).pc \in Nat \ {0} /\ Top(t).of \in DOMAIN Program
           /\ Len(Program[Top(t).of]) \in Nat /\ Top(t).pc <= Len(Program[Top(t).of]) + 1
           /\ Top(t).at # "run"
<1>1. stack[t] \in Seq(Frames) /\ Stands(stack[t])
  BY DEF TypeInv
<1>2. Len(stack[t]) \in Nat \ {0}
  BY <1>1, EmptySeq, LenProperties
<1>3. Len(stack[t]) \in 1..Len(stack[t]) /\ Top(t) = stack[t][Len(stack[t])]
  BY <1>2 DEF Top
<1>4. Top(t) \in Frames
  BY <1>1, <1>3, ElementOfSeq
<1>5. Top(t).pc <= Len(Program[Top(t).of]) + 1 /\ Top(t).at # "run"
  BY <1>1, <1>2, <1>3 DEF Stands
<1> QED
  BY <1>2, <1>3, <1>4, <1>5, ProgramFacts, LenProperties DEF Frames

LEMMA SetTopMoves ==
    ASSUME TypeInv, NEW t \in Threads, stack[t] # <<>>, NEW f \in Frames,
           f.of = Top(t).of, SetTop(t, f)
    PROVE  Moved(stack[t], stack'[t], f.pc, f.at) /\ OthersStay(t)
<1>1. stack \in [Threads -> Seq(Frames)] /\ Len(stack[t]) \in 1..Len(stack[t])
      /\ Top(t) = stack[t][Len(stack[t])]
  BY TopFacts DEF TypeInv
<1> DEFINE r == [stack[t] EXCEPT ![Len(stack[t])] = f]
<1>2. stack[t] \in Seq(Frames)
  BY <1>1
<1>3. r \in Seq(Frames) /\ Len(r) = Len(stack[t])
      /\ \A k \in 1..Len(stack[t]) : r[k] = IF k = Len(stack[t]) THEN f ELSE stack[t][k]
  BY <1>1, <1>2, ExceptSeq
<1>4. stack' = [stack EXCEPT ![t] = r]
  BY DEF SetTop
<1> HIDE DEF r
<1>5. stack' \in [Threads -> Seq(Frames)] /\ stack'[t] = r
      /\ \A u \in Threads : u # t => stack'[u] = stack[u]
  BY <1>1, <1>3, <1>4
<1>6. \A k \in 1..(Len(stack[t]) - 1) : k \in 1..Len(stack[t]) /\ k # Len(stack[t])
  BY <1>1, <1>2, LenProperties
<1>7. \A k \in 1..(Len(stack[t]) - 1) : r[k] = stack[t][k]
  BY <1>3, <1>6
<1> QED
  BY <1>1, <1>3, <1>5, <1>7 DEF Moved, OthersStay

LEMMA OnwardsMoves ==
    ASSUME TypeInv, NEW t \in Threads, stack[t] # <<>>, NEW n \in Nat, Onwards(t, n)
    PROVE  Moved(stack[t], stack'[t], Top(t).pc + n, "start") /\ OthersStay(t)
<1> DEFINE f == [Top(t) EXCEPT !.pc = @ + n, !.at = "start"]
<1>1. Top(t) \in Frames
  BY TopFacts
<1>2. f \in Frames /\ f.of = Top(t).of /\ f.pc = Top(t).pc + n /\ f.at = "start"
  <2>1. Top(t).pc \in Nat \ {0}
    BY <1>1 DEF Frames
  <2>2. Top(t).pc + n \in Nat \ {0}
    BY <2>1
  <2> QED
    BY <1>1, <2>2 DEF Frames
<1>3. SetTop(t, f)
  BY DEF Onwards
<1> HIDE DEF f
<1>4. Moved(stack[t], stack'[t], f.pc, f.at) /\ OthersStay(t)
  BY <1>2, <1>3, SetTopMoves
<1> QED
  BY <1>2, <1>4

LEMMA StageMoves ==
    ASSUME TypeInv, NEW t \in Threads, stack[t] # <<>>, NEW at \in {"swap", "wait"},
           Stage(t, at)
    PROVE  Moved(stack[t], stack'[t], Top(t).pc, at) /\ OthersStay(t)
<1> DEFINE f == [Top(t) EXCEPT !.at = at]
<1>1. Top(t) \in Frames
  BY TopFacts
<1>2. f \in Frames /\ f.of = Top(t).of /\ f.pc = Top(t).pc /\ f.at = at
  BY <1>1 DEF Frames
<1>3. SetTop(t, f)
  BY DEF Stage
<1> HIDE DEF f
<1>4. Moved(stack[t], stack'[t], f.pc, f.at) /\ OthersStay(t)
  BY <1>2, <1>3, SetTopMoves
<1> QED
  BY <1>2, <1>4

LEMMA PushMoves ==
    ASSUME TypeInv, NEW t \in Threads, stack[t] # <<>>, NEW o \in Onces,
           stack' = [stack EXCEPT ![t] = Append([@ EXCEPT ![Len(@)].at = "run"], Frame(o))]
    PROVE  Pushed(stack[t], stack'[t], o) /\ OthersStay(t)
<1> DEFINE s == stack[t]
           n == Len(s)
           f == [s[n] EXCEPT !.at = "run"]
           r == [s EXCEPT ![n] = f]
           g == Frame(o)
<1>1. stack \in [Threads -> Seq(Frames)] /\ n \in 1..n /\ n \in Nat /\ s[n] \in Frames
      /\ s \in Seq(Frames)
  BY TopFacts DEF TypeInv
<1>2. f \in Frames /\ f.of = s[n].of /\ f.pc = s[n].pc /\ f.at = "run"
  BY <1>1 DEF Frames
<1>3. g \in Frames /\ g.of = o /\ g.pc = 1 /\ g.at = "start"
  BY RankFacts DEF Frames, Frame
<1>4. stack' = [stack EXCEPT ![t] = Append(r, g)]
  OBVIOUS
<1> HIDE DEF f, g
<1>5. r \in Seq(Frames) /\ Len(r) = n /\ \A k \in 1..n : r[k] = IF k = n THEN f ELSE s[k]
  BY <1>1, <1>2, ExceptSeq
<1> HIDE DEF r
<1>6. Append(r, g) \in Seq(Frames) /\ Len(Append(r, g)) = n + 1
      /\ (\A k \in 1..n : Append(r, g)[k] = r[k]) /\ Append(r, g)[n + 1] = g
  BY <1>3, <1>5, AppendProperties
<1>7. stack' \in [Threads -> Seq(Frames)] /\ stack'[t] = Append(r, g)
      /\ \A u \in Threads : u # t => stack'[u] = stack[u]
  BY <1>1, <1>4, <1>6
<1>8. \A k \in 1..(n - 1) : k \in 1..n /\ k # n
  BY <1>1
<1>9. \A k \in 1..(n - 1) : Append(r, g)[k] = s[k]
  BY <1>5, <1>6, <1>8
<1>10. Append(r, g)[n] = f
  BY <1>1, <1>5, <1>6
<1> QED
  BY <1>2, <1>3, <1>6, <1>7, <1>9, <1>10 DEF Pushed, OthersStay

LEMMA OneLess ==
    \A x \in Nat : x # 0 /\ x # 1 =>
        x - 1 \in Nat /\ x - 1 > 0 /\ x = (x - 1) + 1 /\ x - 1 \in 1..(x - 1)
OBVIOUS

LEMMA PopMoves ==
    ASSUME TypeInv, NEW t \in Threads, stack[t] # <<>>, Len(stack[t]) # 1,
           stack' = [stack EXCEPT ![t] =
                        LET rest == SubSeq(@, 1, Len(@) - 1)
                        IN [rest EXCEPT ![Len(rest)].at = "store"]]
    PROVE  Popped(stack[t], stack'[t]) /\ OthersStay(t)
<1> DEFINE s == stack[t]
           n == Len(s) - 1
           rest == SubSeq(s, 1, n)
           f == [rest[n] EXCEPT !.at = "store"]
           r == [rest EXCEPT ![n] = f]
<1>1. stack \in [Threads -> Seq(Frames)] /\ Len(s) \in Nat \ {0} /\ s \in Seq(Frames)
  BY TopFacts DEF TypeInv
<1>2. n \in Nat /\ n > 0 /\ Len(s) = n + 1 /\ n \in 1..n
  <2>1. Len(s) \in Nat /\ Len(s) # 0 /\ Len(s) # 1
    BY <1>1
  <2> QED
    BY <2>1, OneLess
<1>3. rest \in Seq(Frames) /\ Len(rest) = n /\ \A k \in 1..n : rest[k] = s[k]
  <2>1. 1 \in 1..(Len(s) + 1) /\ n \in (1 - 1)..Len(s) /\ n - 1 + 1 = n
    BY <1>2
  <2>2. rest \in Seq(Frames) /\ Len(rest) = n - 1 + 1
        /\ \A k \in 1..(n - 1 + 1) : rest[k] = s[1 + k - 1]
    BY <1>1, <1>2, SubSeqProperties
  <2>3. \A k \in 1..n : 1 + k - 1 = k
    BY <1>2
  <2> QED
    BY <1>2, <2>1, <2>2, <2>3
<1>4. stack' = [stack EXCEPT ![t] = r]
  <2>1. Len(rest) = n
    BY <1>3
  <2> QED
    BY <2>1
<1> HIDE DEF rest, n
<1>5. rest[n] \in Frames
  BY <1>2, <1>3, ElementOfSeq
<1>6. f \in Frames /\ f.of = s[n].of /\ f.pc = s[n].pc /\ f.at = "store"
  BY <1>2, <1>3, <1>5 DEF Frames
<1> HIDE DEF f
<1>7. r \in Seq(Frames) /\ Len(r) = n /\ \A k \in 1..n : r[k] = IF k = n THEN f ELSE rest[k]
  BY <1>2, <1>3, <1>6, ExceptSeq
<1> HIDE DEF r
<1>8. stack' \in [Threads -> Seq(Frames)] /\ stack'[t] = r
      /\ \A u \in Threads : u # t => stack'[u] = stack[u]
  BY <1>1, <1>4, <1>7
<1>9. \A k \in 1..(n - 1) : k \in 1..n /\ k # n
  BY <1>2
<1>10. \A k \in 1..(n - 1) : r[k] = s[k]
  BY <1>3, <1>7, <1>9
<1>11. r[n] = f
  BY <1>2, <1>7
<1>12. Len(s) > 1 /\ Len(r) = Len(s) - 1 /\ Len(s) - 1 = n /\ Len(s) - 2 = n - 1
  BY <1>2, <1>7
<1> HIDE DEF s
<1>13. Popped(s, r)
  BY <1>6, <1>7, <1>10, <1>11, <1>12 DEF Popped
<1> QED
  BY <1>8, <1>13 DEF OthersStay, s

LEMMA BeforeFacts ==
    ASSUME TypeInv, NEW t \in Threads, NEW op, NEW at, Before(t, op, at)
    PROVE  /\ stack[t] # <<>> /\ ~AtEnd(Top(t)) /\ Top(t).at = at
           /\ Instruction(Top(t)).op = op /\ Arg(t) = Instruction(Top(t)).arg
           /\ Top(t).pc + 1 <= Len(Program[Top(t).of]) + 1
           /\ op = "once" => Arg(t) \in Onces /\ AtOnce(Top(t))
           /\ op \in {"lock", "unlock"} => Arg(t) \in Mutexes
           /\ op \in {"make", "unless"} => Arg(t) \in Things
           /\ op = "unless" =>
                /\ Instruction(Top(t)).skip \in Nat
                /\ Top(t).pc + (Instruction(Top(t)).skip + 1) <= Len(Program[Top(t).of]) + 1
<1>1. stack[t] # <<>> /\ ~AtEnd(Top(t)) /\ Top(t).at = at /\ Instruction(Top(t)).op = op
  BY DEF Before
<1>2. Top(t) \in Frames /\ Top(t).pc \in Nat /\ Len(Program[Top(t).of]) \in Nat
  BY <1>1, TopFacts
<1>3. Top(t).pc <= Len(Program[Top(t).of])
  BY <1>1, <1>2 DEF AtEnd
<1>4. Top(t).pc + 1 <= Len(Program[Top(t).of]) + 1
  BY <1>2, <1>3
<1>5. op = "unless" =>
         /\ Instruction(Top(t)).skip \in Nat
         /\ Top(t).pc + Instruction(Top(t)).skip <= Len(Program[Top(t).of])
  BY <1>1, <1>2, InstructionFacts
<1>6. op = "unless" =>
        Top(t).pc + (Instruction(Top(t)).skip + 1) <= Len(Program[Top(t).of]) + 1
  BY <1>2, <1>5
<1> QED
  BY <1>1, <1>2, <1>4, <1>5, <1>6, InstructionFacts DEF Arg, AtOnce

(* What the stacks are after a step of each kind.                          *)
StacksStand == stack \in [Threads -> Seq(Frames)] /\ \A t \in Threads : Stands(stack[t])

LEMMA StacksKept ==
    ASSUME TypeInv, NEW t \in Threads, OthersStay(t), Stands(stack'[t])
    PROVE  StacksStand'
BY DEF TypeInv, OthersStay, StacksStand

LEMMA OnwardsStands ==
    ASSUME TypeInv, NEW t \in Threads, stack[t] # <<>>, NEW n \in Nat, Onwards(t, n),
           Top(t).pc + n <= Len(Program[Top(t).of]) + 1
    PROVE  StacksStand'
<1>1. Moved(stack[t], stack'[t], Top(t).pc + n, "start") /\ OthersStay(t)
  BY OnwardsMoves
<1>2. Stands(stack'[t])
  BY <1>1, MovedStands, TopFacts DEF TypeInv
<1> QED
  BY <1>1, <1>2, StacksKept

LEMMA StageStands ==
    ASSUME TypeInv, NEW t \in Threads, stack[t] # <<>>, NEW at \in {"swap", "wait"},
           Stage(t, at), AtOnce(Top(t))
    PROVE  StacksStand'
<1>1. Moved(stack[t], stack'[t], Top(t).pc, at) /\ OthersStay(t)
  BY StageMoves
<1>2. Stands(stack[t]) /\ Top(t) = stack[t][Len(stack[t])] /\ at # "run"
      /\ Top(t).pc <= Len(Program[Top(t).of]) + 1
  BY TopFacts DEF TypeInv
<1>3. Stands(stack'[t])
  BY <1>1, <1>2, MovedStands
<1> QED
  BY <1>1, <1>3, StacksKept

LEMMA PushStands ==
    ASSUME TypeInv, NEW t \in Threads, Before(t, "once", "swap"),
           stack' = [stack EXCEPT ![t] = Append([@ EXCEPT ![Len(@)].at = "run"], Frame(Arg(t)))]
    PROVE  StacksStand'
<1>1. stack[t] # <<>> /\ AtOnce(Top(t)) /\ Arg(t) = Instruction(Top(t)).arg /\ Arg(t) \in Onces
  BY BeforeFacts
<1>2. Pushed(stack[t], stack'[t], Arg(t)) /\ OthersStay(t)
  BY <1>1, PushMoves
<1>3. Stands(stack'[t])
  BY <1>1, <1>2, PushedStands, TopFacts DEF TypeInv
<1> QED
  BY <1>2, <1>3, StacksKept

LEMMA TypeInit == Init => TypeInv
<1> SUFFICES ASSUME Init PROVE TypeInv
  OBVIOUS
<1>1. PICK r \in Statics :
        stack = [t \in Threads |-> IF t = Main THEN <<Frame(r)>> ELSE <<>>]
  BY DEF Init
<1>2. Stands(<<Frame(r)>>) /\ Stands(<<>>)
  BY BegunStands
<1>3. <<Frame(r)>> \in Seq(Frames) /\ <<>> \in Seq(Frames)
  BY <1>2 DEF Stands
<1>4. stack \in [Threads -> Seq(Frames)] /\ \A t \in Threads : Stands(stack[t])
  BY <1>1, <1>2, <1>3
<1> QED
  BY <1>4, CallBoundAssumption DEF Init, TypeInv

LEMMA TypeStep == TypeInv /\ [Next]_vars => TypeInv'
<1> SUFFICES ASSUME TypeInv, [Next]_vars PROVE TypeInv'
  OBVIOUS
<1> DEFINE Rest == /\ once \in [Onces -> {"UNINITIALIZED", "EXECUTING_CLOSURE", "DONE"}]
                   /\ holder \in [Mutexes -> SUBSET Threads]
                   /\ made \in [Things -> Nat]
                   /\ calls \in [Threads -> 0..MaxCalls]
<1>1. Rest
  BY DEF TypeInv
<1>2. ASSUME NEW t \in Threads, Load(t) PROVE Rest' /\ StacksStand'
  <2>1. Rest'
    BY <1>1, <1>2 DEF Load
  <2>2. Before(t, "once", "start") /\ (Onwards(t, 1) \/ Stage(t, "swap"))
    BY <1>2 DEF Load
  <2> QED
    BY <2>1, <2>2, BeforeFacts, OnwardsStands, StageStands
<1>3. ASSUME NEW t \in Threads, Swap(t) PROVE Rest' /\ StacksStand'
  <2>1. Before(t, "once", "swap") /\ Arg(t) \in Onces
    BY <1>3, BeforeFacts DEF Swap
  <2>2. /\ once' = once \/ once' = [once EXCEPT ![Arg(t)] = "EXECUTING_CLOSURE"]
        /\ UNCHANGED <<holder, made, calls>>
    BY <1>1, <1>3, <2>1 DEF Swap
  <2>3. Rest'
    BY <1>1, <2>1, <2>2
  <2>4. \/ stack' = [stack EXCEPT ![t] =
                        Append([@ EXCEPT ![Len(@)].at = "run"], Frame(Arg(t)))]
        \/ Stage(t, "wait") \/ Onwards(t, 1)
    BY <1>1, <1>3, <2>1 DEF Swap
  <2> QED
    BY <2>1, <2>3, <2>4, BeforeFacts, OnwardsStands, StageStands, PushStands
<1>4. ASSUME NEW t \in Threads, Wait(t) PROVE Rest' /\ StacksStand'
  BY <1>1, <1>4, BeforeFacts, OnwardsStands DEF Wait
<1>5. ASSUME NEW t \in Threads, Return(t) PROVE Rest' /\ StacksStand'
  <2>1. Rest' /\ stack[t] # <<>> /\ Stands(stack[t])
    BY <1>1, <1>5 DEF Return, TypeInv
  <2>2. CASE Len(stack[t]) = 1
    <3>1. stack' = [stack EXCEPT ![t] = <<>>]
      BY <1>5, <2>2 DEF Return
    <3>2. Stands(<<>>) /\ <<>> \in Seq(Frames)
      BY DEF Stands
    <3>3. StacksStand'
      BY <3>1, <3>2 DEF TypeInv, StacksStand
    <3> QED
      BY <2>1, <3>3
  <2>3. CASE Len(stack[t]) # 1
    <3>1. Popped(stack[t], stack'[t]) /\ OthersStay(t)
      BY <1>5, <2>1, <2>3, PopMoves DEF Return
    <3> QED
      BY <2>1, <3>1, PoppedStands, StacksKept
  <2> QED
    BY <2>2, <2>3
<1>6. ASSUME NEW t \in Threads, Store(t) PROVE Rest' /\ StacksStand'
  <2>1. Before(t, "once", "store") /\ Onwards(t, 1) /\ Arg(t) \in Onces
    BY <1>6, BeforeFacts DEF Store
  <2>2. Rest'
    BY <1>1, <1>6, <2>1 DEF Store
  <2> QED
    BY <2>1, <2>2, BeforeFacts, OnwardsStands
<1>7. ASSUME NEW t \in Threads, Acquire(t) PROVE Rest' /\ StacksStand'
  <2>1. Before(t, "lock", "start") /\ Onwards(t, 1) /\ Arg(t) \in Mutexes
    BY <1>7, BeforeFacts DEF Acquire
  <2>2. Rest'
    BY <1>1, <1>7, <2>1 DEF Acquire
  <2> QED
    BY <2>1, <2>2, BeforeFacts, OnwardsStands
<1>8. ASSUME NEW t \in Threads, Release(t) PROVE Rest' /\ StacksStand'
  <2>1. Before(t, "unlock", "start") /\ Onwards(t, 1) /\ Arg(t) \in Mutexes
    BY <1>8, BeforeFacts DEF Release
  <2>2. Rest'
    BY <1>1, <1>8, <2>1 DEF Release
  <2> QED
    BY <2>1, <2>2, BeforeFacts, OnwardsStands
<1>9. ASSUME NEW t \in Threads, MakeThing(t) PROVE Rest' /\ StacksStand'
  <2>1. Before(t, "make", "start") /\ Onwards(t, 1) /\ Arg(t) \in Things
    BY <1>9, BeforeFacts DEF MakeThing
  <2>2. Rest'
    BY <1>1, <1>9, <2>1 DEF MakeThing
  <2> QED
    BY <2>1, <2>2, BeforeFacts, OnwardsStands
<1>10. ASSUME NEW t \in Threads, Decide(t) PROVE Rest' /\ StacksStand'
  <2>1. Before(t, "unless", "start") /\ Rest'
        /\ (Onwards(t, 1) \/ Onwards(t, Instruction(Top(t)).skip + 1))
    BY <1>1, <1>10 DEF Decide
  <2>2. Instruction(Top(t)).skip + 1 \in Nat
    BY <2>1, BeforeFacts
  <2> QED
    BY <2>1, <2>2, BeforeFacts, OnwardsStands
<1>11. ASSUME NEW t \in Threads, NEW r \in Requests, Call(t, r) PROVE Rest' /\ StacksStand'
  <2>1. calls' \in [Threads -> 0..MaxCalls]
    BY <1>1, <1>11, CallBoundAssumption DEF Call
  <2>2. Rest' /\ stack' = [stack EXCEPT ![t] = <<Frame(r)>>]
    BY <1>1, <1>11, <2>1 DEF Call
  <2>3. Stands(<<Frame(r)>>) /\ <<Frame(r)>> \in Seq(Frames)
    BY BegunStands DEF Stands
  <2>4. StacksStand'
    BY <2>2, <2>3 DEF TypeInv, StacksStand
  <2> QED
    BY <2>2, <2>4
<1>12. CASE UNCHANGED vars
  BY <1>12 DEF vars, TypeInv, StacksStand
<1>13. Rest' /\ StacksStand'
  BY <1>2, <1>3, <1>4, <1>5, <1>6, <1>7, <1>8, <1>9, <1>10, <1>11, <1>12
     DEF Next, Step, vars, TypeInv, StacksStand
<1> QED
  BY <1>13 DEF StacksStand, TypeInv

LEMMA TypeAlways == Spec => []TypeInv
BY TypeInit, TypeStep, PTL DEF Spec

(* Every frame stands within its program or at its end, and no closure     *)
(* calls itself: the types are right for any threads and calls.            *)
THEOREM StartTypes == Spec => []TypeOK
<1>1. TypeInv => TypeOK
  <2> SUFFICES ASSUME TypeInv PROVE TypeOK
    OBVIOUS
  <2>1. Cardinality(Onces) = 4
    <3>1. IsFiniteSet({}) /\ Cardinality({}) = 0
      BY FS_EmptySet
    <3>2. IsFiniteSet({"shutdown"}) /\ Cardinality({"shutdown"}) = 1
      BY FS_Singleton
    <3>3. IsFiniteSet({"shutdown", "pool"}) /\ Cardinality({"shutdown", "pool"}) = 2
      <4>1. {"shutdown", "pool"} = {"shutdown"} \cup {"pool"} /\ "pool" \notin {"shutdown"}
        OBVIOUS
      <4> QED
        BY <3>2, <4>1, FS_AddElement
    <3>4. IsFiniteSet({"shutdown", "pool", "factory"})
          /\ Cardinality({"shutdown", "pool", "factory"}) = 3
      <4>1. /\ {"shutdown", "pool", "factory"} = {"shutdown", "pool"} \cup {"factory"}
            /\ "factory" \notin {"shutdown", "pool"}
        OBVIOUS
      <4> QED
        BY <3>3, <4>1, FS_AddElement
    <3>5. Onces = {"shutdown", "pool", "factory"} \cup {"assign"}
          /\ "assign" \notin {"shutdown", "pool", "factory"}
      BY DEF Onces
    <3> QED
      BY <3>4, <3>5, FS_AddElement
  <2>2. ASSUME NEW t \in Threads PROVE Len(stack[t]) <= 1 + Cardinality(Onces)
    <3>1. Stands(stack[t])
      BY DEF TypeInv
    <3>2. Len(stack[t]) \in Nat
      BY <3>1, LenProperties DEF Stands
    <3>3. CASE Len(stack[t]) = 0
      BY <2>1, <3>3
    <3>4. CASE Len(stack[t]) > 0
      <4>1. Len(stack[t]) \in 1..Len(stack[t])
        BY <3>2, <3>4
      <4>2. Rank(stack[t][Len(stack[t])].of) <= 5 - Len(stack[t])
        BY <3>1, <4>1 DEF Stands
      <4> QED
        BY <2>1, <3>2, <4>2, RankFacts
    <3> QED
      BY <3>2, <3>3, <3>4
  <2> QED
    BY <2>2 DEF TypeOK, TypeInv, Stands
<1> QED
  BY <1>1, TypeAlways, PTL

-----------------------------------------------------------------------------
(* Who runs a closure.                                                     *)
RunsIn(s, o) ==
    \E k \in 1..Len(s) : s[k].at \in {"run", "store"} /\ Instruction(s[k]).arg = o

LEMMA RunsOnce ==
    ASSUME NEW s, Stands(s), NEW i \in 1..Len(s), NEW j \in 1..Len(s),
           s[i].at \in {"run", "store"}, s[j].at \in {"run", "store"},
           Instruction(s[i]).arg = Instruction(s[j]).arg
    PROVE  i = j
<1>0. s \in Seq(Frames) /\ Len(s) \in Nat
  BY LenProperties DEF Stands
<1>1. ASSUME NEW a \in 1..Len(s), NEW b \in 1..Len(s), a < b, s[b].at \in {"run", "store"},
             Instruction(s[a]).arg = Instruction(s[b]).arg
      PROVE  FALSE
  <2>1. a + 1 \in 1..Len(s) /\ a + 1 > 1 /\ (a + 1) - 1 = a /\ (a + 1 = b \/ a + 1 < b)
    BY <1>0, <1>1
  <2>2. s[a + 1].of = Instruction(s[a]).arg
    BY <2>1 DEF Stands
  <2>3. s[b] \in Frames /\ AtOnce(s[b])
    BY <1>0, <1>1, ElementOfSeq DEF Stands
  <2>4. Rank(Instruction(s[b]).arg) < Rank(s[b].of)
    BY <2>3, InstructionFacts DEF AtOnce
  <2>5. Rank(s[b].of) <= Rank(s[a + 1].of)
    <3>1. Rank(s[b].of) \in 1..4
      BY RankFacts
    <3>2. CASE a + 1 = b
      BY <3>1, <3>2
    <3>3. CASE a + 1 < b
      <4>1. Rank(s[b].of) < Rank(s[a + 1].of)
        BY <1>1, <2>1, <3>3 DEF Stands
      <4> QED
        BY <4>1, RankFacts
    <3> QED
      BY <2>1, <3>2, <3>3
  <2>6. Rank(s[a + 1].of) < Rank(s[b].of)
    BY <1>1, <2>2, <2>4
  <2>7. Rank(s[a + 1].of) \in 1..4 /\ Rank(s[b].of) \in 1..4
    BY RankFacts
  <2> QED
    BY <2>5, <2>6, <2>7
<1>2. i < j \/ j < i \/ i = j
  BY <1>0
<1> QED
  BY <1>1, <1>2

LEMMA MovedRuns ==
    ASSUME NEW s, NEW r, NEW pc, NEW at, Stands(s), s # <<>>, Moved(s, r, pc, at),
           at \in {"start", "swap", "wait"}, NEW o
    PROVE  /\ s[Len(s)].at # "store" => (RunsIn(r, o) <=> RunsIn(s, o))
           /\ s[Len(s)].at = "store" =>
                (RunsIn(r, o) <=> RunsIn(s, o) /\ o # Instruction(s[Len(s)]).arg)
<1> DEFINE n == Len(s)
<1>1. n \in Nat /\ n > 0 /\ Len(r) = n /\ \A k \in 1..n : k \in 1..(n - 1) \/ k = n
  <2>1. n \in Nat /\ n > 0
    BY EmptySeq, LenProperties DEF Stands
  <2> QED
    BY <2>1 DEF Moved
<1>2. \A k \in 1..(n - 1) : r[k] = s[k] /\ k \in 1..n /\ k # n
  BY <1>1 DEF Moved
<1>3. r[n].at = at /\ r[n].at \notin {"run", "store"} /\ s[n].at # "run" /\ n \in 1..n
  BY <1>1 DEF Moved, Stands
<1>4. RunsIn(r, o) <=> \E k \in 1..(n - 1) : s[k].at \in {"run", "store"}
                                             /\ Instruction(s[k]).arg = o
  BY <1>1, <1>2, <1>3 DEF RunsIn
<1>5. CASE s[n].at # "store"
  <2>1. s[n].at \notin {"run", "store"}
    BY <1>3, <1>5
  <2>2. RunsIn(s, o) <=> \E k \in 1..(n - 1) : s[k].at \in {"run", "store"}
                                               /\ Instruction(s[k]).arg = o
    BY <1>1, <1>2, <2>1 DEF RunsIn
  <2> QED
    BY <1>4, <1>5, <2>2
<1>6. CASE s[n].at = "store"
  <2>1. ASSUME NEW k \in 1..(n - 1), s[k].at \in {"run", "store"}, Instruction(s[k]).arg = o,
               o = Instruction(s[n]).arg
        PROVE  FALSE
    <3>1. k = n
      BY <1>2, <1>3, <1>6, <2>1, RunsOnce
    <3> QED
      BY <1>2, <3>1
  <2>2. RunsIn(s, o) <=> (o = Instruction(s[n]).arg
                          \/ \E k \in 1..(n - 1) : s[k].at \in {"run", "store"}
                                                   /\ Instruction(s[k]).arg = o)
    BY <1>1, <1>2, <1>3, <1>6 DEF RunsIn
  <2> QED
    BY <1>4, <1>6, <2>1, <2>2
<1> QED
  BY <1>5, <1>6

LEMMA PushedRuns ==
    ASSUME NEW s, NEW r, NEW p, Stands(s), s # <<>>, Pushed(s, r, p),
           s[Len(s)].at \notin {"run", "store"}, NEW o
    PROVE  RunsIn(r, o) <=> RunsIn(s, o) \/ o = Instruction(s[Len(s)]).arg
<1> DEFINE n == Len(s)
<1>1. n \in Nat /\ n > 0 /\ Len(r) = n + 1 /\ n \in 1..n
      /\ (\A k \in 1..n : k \in 1..(n - 1) \/ k = n)
      /\ (\A k \in 1..(n + 1) : k \in 1..(n - 1) \/ k = n \/ k = n + 1)
  <2>1. n \in Nat /\ n > 0
    BY EmptySeq, LenProperties DEF Stands
  <2> QED
    BY <2>1 DEF Pushed
<1>2. \A k \in 1..(n - 1) : r[k] = s[k] /\ k \in 1..n /\ k \in 1..(n + 1)
  BY <1>1 DEF Pushed
<1>3. /\ r[n].at = "run" /\ Instruction(r[n]) = Instruction(s[n]) /\ n \in 1..(n + 1)
      /\ r[n + 1].at \notin {"run", "store"}
  BY <1>1 DEF Pushed, Instruction
<1>4. RunsIn(r, o) <=> (o = Instruction(s[n]).arg
                        \/ \E k \in 1..(n - 1) : s[k].at \in {"run", "store"}
                                                 /\ Instruction(s[k]).arg = o)
  BY <1>1, <1>2, <1>3 DEF RunsIn
<1>5. RunsIn(s, o) <=> \E k \in 1..(n - 1) : s[k].at \in {"run", "store"}
                                             /\ Instruction(s[k]).arg = o
  BY <1>1, <1>2 DEF RunsIn
<1> QED
  BY <1>4, <1>5

LEMMA PoppedRuns ==
    ASSUME NEW s, NEW r, Stands(s), Popped(s, r), s[Len(s)].at \notin {"run", "store"}, NEW o
    PROVE  RunsIn(r, o) <=> RunsIn(s, o)
<1> DEFINE n == Len(s) - 1
<1>1. s \in Seq(Frames) /\ n \in Nat /\ n > 0 /\ Len(r) = n /\ Len(s) = n + 1 /\ n \in 1..n
  BY LenProperties DEF Stands, Popped
<1>2. \A k \in 1..n : /\ (k \in 1..(n - 1) \/ k = n) /\ k \in 1..Len(s)
  BY <1>1
<1>3. \A k \in 1..n : s[k].at = "run"
  BY <1>1, <1>2 DEF Stands
<1>4. \A k \in 1..n : Instruction(r[k]) = Instruction(s[k]) /\ r[k].at \in {"run", "store"}
  <2> TAKE k \in 1..n
  <2>1. CASE k \in 1..(n - 1)
    <3>1. r[k] = s[k]
      BY <1>1, <2>1 DEF Popped
    <3> QED
      BY <1>3, <3>1
  <2>2. CASE k = n
    BY <1>1, <2>2 DEF Popped, Instruction
  <2> QED
    BY <1>2, <2>1, <2>2
<1>5. \A k \in 1..Len(s) : k \in 1..n \/ k = Len(s)
  BY <1>1
<1> HIDE DEF n
<1> QED
  BY <1>1, <1>2, <1>3, <1>4, <1>5 DEF RunsIn

(* A state of EXECUTING_CLOSURE belongs to exactly one thread, and who     *)
(* waits does so because somebody runs, or has run, the closure.           *)
RunInv ==
    /\ \A o \in Onces : once[o] = "EXECUTING_CLOSURE" <=> \E t \in Threads : RunsIn(stack[t], o)
    /\ \A o \in Onces : \A t, u \in Threads :
         RunsIn(stack[t], o) /\ RunsIn(stack[u], o) => t = u
    /\ \A t \in Threads :
         stack[t] # <<>> /\ Top(t).at = "wait" => once[Arg(t)] # "UNINITIALIZED"

LEMMA EmptyRuns == \A o : ~RunsIn(<<>>, o)
BY DEF RunsIn

LEMMA BegunRuns ==
    ASSUME NEW r
    PROVE  \A o : ~RunsIn(<<Frame(r)>>, o)
<1> DEFINE s == <<Frame(r)>>
<1>1. Len(s) = 1 /\ s[1].at = "start"
  BY DEF Frame
<1> HIDE DEF s
<1>2. \A o : ~RunsIn(s, o)
  BY <1>1 DEF RunsIn
<1> QED
  BY <1>2 DEF s

LEMMA RunInit == Init => RunInv
<1> SUFFICES ASSUME Init PROVE RunInv
  OBVIOUS
<1>1. PICK r \in Statics :
        stack = [t \in Threads |-> IF t = Main THEN <<Frame(r)>> ELSE <<>>]
  BY DEF Init
<1>2. \A t \in Threads : stack[t] = <<Frame(r)>> \/ stack[t] = <<>>
  BY <1>1
<1>3. \A t \in Threads : \A o : ~RunsIn(stack[t], o)
  BY <1>2, EmptyRuns, BegunRuns
<1>4. \A t \in Threads : stack[t] # <<>> => Top(t).at # "wait"
  BY <1>2 DEF Top, Frame
<1>5. \A o \in Onces : once[o] = "UNINITIALIZED"
  BY DEF Init
<1> QED
  BY <1>3, <1>4, <1>5 DEF RunInv

(* The thread goes on with what it runs; the others stay as they are.      *)
LEMMA RunsKept ==
    ASSUME RunInv, NEW t \in Threads, OthersStay(t), once' = once,
           \A o \in Onces : RunsIn(stack'[t], o) <=> RunsIn(stack[t], o),
           stack'[t] # <<>> /\ Top(t)'.at = "wait" => once[Arg(t)'] # "UNINITIALIZED"
    PROVE  RunInv'
<1>1. \A u \in Threads : \A o \in Onces : RunsIn(stack'[u], o) <=> RunsIn(stack[u], o)
  BY DEF OthersStay
<1>2. \A u \in Threads : u # t => Top(u)' = Top(u) /\ Arg(u)' = Arg(u)
  BY DEF OthersStay, Top, Arg, Instruction
<1>3. \A u \in Threads : stack'[u] # <<>> /\ Top(u)'.at = "wait" => once'[Arg(u)'] # "UNINITIALIZED"
  <2> TAKE u \in Threads
  <2>1. CASE u = t
    BY <2>1
  <2>2. CASE u # t
    BY <1>2, <2>2 DEF RunInv, OthersStay
  <2> QED
    BY <2>1, <2>2
<1> QED
  BY <1>1, <1>3 DEF RunInv

(* The last frame after a move.                                            *)
LEMMA TopAfter ==
    ASSUME TypeInv, NEW t \in Threads, stack[t] # <<>>, NEW pc, NEW at,
           Moved(stack[t], stack'[t], pc, at)
    PROVE  /\ Top(t)'.of = Top(t).of /\ Top(t)'.pc = pc /\ Top(t)'.at = at
           /\ pc = Top(t).pc => Arg(t)' = Arg(t)
BY TopFacts DEF Moved, Top, Arg, Instruction

LEMMA OnwardsRuns ==
    ASSUME TypeInv, RunInv, NEW t \in Threads, stack[t] # <<>>, NEW n \in Nat, Onwards(t, n),
           Top(t).at # "store", once' = once
    PROVE  RunInv'
<1>1. Moved(stack[t], stack'[t], Top(t).pc + n, "start") /\ OthersStay(t)
  BY OnwardsMoves
<1>2. \A o \in Onces : RunsIn(stack'[t], o) <=> RunsIn(stack[t], o)
  BY <1>1, MovedRuns, TopFacts DEF TypeInv
<1>3. Top(t)'.at = "start"
  BY <1>1, TopAfter
<1> QED
  BY <1>1, <1>2, <1>3, RunsKept

LEMMA StageRuns ==
    ASSUME TypeInv, RunInv, NEW t \in Threads, stack[t] # <<>>, NEW at \in {"swap", "wait"},
           Stage(t, at), Top(t).at # "store", once' = once,
           at = "wait" => once[Arg(t)] # "UNINITIALIZED"
    PROVE  RunInv'
<1>1. Moved(stack[t], stack'[t], Top(t).pc, at) /\ OthersStay(t)
  BY StageMoves
<1>2. \A o \in Onces : RunsIn(stack'[t], o) <=> RunsIn(stack[t], o)
  BY <1>1, MovedRuns, TopFacts DEF TypeInv
<1>3. Top(t)'.at = at /\ Arg(t)' = Arg(t)
  BY <1>1, TopAfter
<1> QED
  BY <1>1, <1>2, <1>3, RunsKept

(* A thread that waits stands in GoogleOnceInit.                           *)
LEMMA WaitsAtOnce ==
    ASSUME TypeInv, NEW u \in Threads, stack[u] # <<>>, Top(u).at = "wait"
    PROVE  Arg(u) \in Onces
<1>1. Stands(stack[u]) /\ Top(u) = stack[u][Len(stack[u])]
      /\ Len(stack[u]) \in 1..Len(stack[u]) /\ Top(u) \in Frames
  BY TopFacts DEF TypeInv
<1>2. AtOnce(Top(u))
  BY <1>1 DEF Stands
<1> QED
  BY <1>1, <1>2, InstructionFacts DEF AtOnce, Arg

LEMMA PushRuns ==
    ASSUME TypeInv, RunInv, NEW t \in Threads, Before(t, "once", "swap"),
           once[Arg(t)] = "UNINITIALIZED",
           once' = [once EXCEPT ![Arg(t)] = "EXECUTING_CLOSURE"],
           stack' = [stack EXCEPT ![t] = Append([@ EXCEPT ![Len(@)].at = "run"], Frame(Arg(t)))]
    PROVE  RunInv'
<1> DEFINE p == Arg(t)
<1>1. stack[t] # <<>> /\ p = Instruction(Top(t)).arg /\ p \in Onces /\ Top(t).at = "swap"
  BY BeforeFacts
<1>2. Pushed(stack[t], stack'[t], p) /\ OthersStay(t)
  BY <1>1, PushMoves
<1>3. \A o : RunsIn(stack'[t], o) <=> RunsIn(stack[t], o) \/ o = p
  <2>1. Stands(stack[t]) /\ stack[t][Len(stack[t])] = Top(t)
        /\ Top(t).at \notin {"run", "store"}
    BY <1>1, TopFacts DEF TypeInv
  <2> HIDE DEF p
  <2> QED
    BY <1>1, <1>2, <2>1, PushedRuns
<1>4. once \in [Onces -> {"UNINITIALIZED", "EXECUTING_CLOSURE", "DONE"}] /\ once[p] = "UNINITIALIZED"
  BY DEF TypeInv
<1>5. \A o \in Onces : once'[o] = IF o = p THEN "EXECUTING_CLOSURE" ELSE once[o]
  BY <1>1, <1>4
<1>6. \A u \in Threads : ~RunsIn(stack[u], p)
  BY <1>1, <1>4 DEF RunInv
<1>7. \A u \in Threads : u # t => \A o : RunsIn(stack'[u], o) <=> RunsIn(stack[u], o)
  BY <1>2 DEF OthersStay
<1>8. \A u \in Threads : u # t => Top(u)' = Top(u) /\ Arg(u)' = Arg(u) /\ stack'[u] = stack[u]
  BY <1>2 DEF OthersStay, Top, Arg, Instruction
<1>9. Top(t)'.at = "start"
  <2>1. Len(stack'[t]) = Len(stack[t]) + 1
    BY <1>2 DEF Pushed
  <2> QED
    BY <1>2, <2>1 DEF Pushed, Top
<1> HIDE DEF p
<1>10. \A o \in Onces : once'[o] = "EXECUTING_CLOSURE" <=> \E u \in Threads : RunsIn(stack'[u], o)
  <2> TAKE o \in Onces
  <2>1. CASE o = p
    BY <1>3, <1>5, <2>1
  <2>2. CASE o # p
    <3>1. \A u \in Threads : RunsIn(stack'[u], o) <=> RunsIn(stack[u], o)
      BY <1>3, <1>7, <2>2
    <3> QED
      BY <1>5, <2>2, <3>1 DEF RunInv
  <2> QED
    BY <2>1, <2>2
<1>11. \A o \in Onces : \A u, v \in Threads :
         RunsIn(stack'[u], o) /\ RunsIn(stack'[v], o) => u = v
  <2> TAKE o \in Onces
  <2>1. CASE o = p
    <3>1. \A u \in Threads : RunsIn(stack'[u], o) => u = t
      BY <1>6, <1>7, <2>1
    <3> QED
      BY <3>1
  <2>2. CASE o # p
    <3>1. \A u \in Threads : RunsIn(stack'[u], o) <=> RunsIn(stack[u], o)
      BY <1>3, <1>7, <2>2
    <3> QED
      BY <3>1 DEF RunInv
  <2> QED
    BY <2>1, <2>2
<1>12. \A u \in Threads : stack'[u] # <<>> /\ Top(u)'.at = "wait" => once'[Arg(u)'] # "UNINITIALIZED"
  <2> TAKE u \in Threads
  <2> HAVE stack'[u] # <<>> /\ Top(u)'.at = "wait"
  <2>1. u # t
    BY <1>9
  <2>2. stack[u] # <<>> /\ Top(u).at = "wait" /\ once[Arg(u)] # "UNINITIALIZED" /\ Arg(u)' = Arg(u)
    BY <1>8, <2>1 DEF RunInv
  <2>3. Arg(u) \in Onces
    BY <2>2, WaitsAtOnce
  <2> QED
    BY <1>5, <2>2, <2>3
<1> QED
  BY <1>10, <1>11, <1>12 DEF RunInv

LEMMA ReturnRuns ==
    ASSUME TypeInv, RunInv, NEW t \in Threads, Return(t)
    PROVE  RunInv'
<1>1. stack[t] # <<>> /\ AtEnd(Top(t)) /\ once' = once /\ Stands(stack[t])
  BY DEF Return, TypeInv
<1>2. /\ Top(t) = stack[t][Len(stack[t])] /\ Len(stack[t]) \in 1..Len(stack[t])
      /\ Len(stack[t]) \in Nat \ {0}
  BY <1>1, TopFacts
<1>3. stack[t][Len(stack[t])].at = "start"
  BY <1>1, <1>2 DEF Stands, AtOnce
<1>4. CASE Len(stack[t]) = 1
  <2>1. stack' = [stack EXCEPT ![t] = <<>>]
    BY <1>4 DEF Return
  <2>2. OthersStay(t) /\ stack'[t] = <<>>
    <3>1. <<>> \in Seq(Frames) /\ stack \in [Threads -> Seq(Frames)]
      BY DEF TypeInv
    <3> QED
      BY <2>1, <3>1 DEF OthersStay
  <2>3. \A k \in 1..Len(stack[t]) : k = Len(stack[t])
    BY <1>4
  <2>4. \A o : ~RunsIn(stack[t], o)
    BY <1>3, <2>3 DEF RunsIn
  <2> QED
    BY <1>1, <2>2, <2>4, EmptyRuns, RunsKept
<1>5. CASE Len(stack[t]) # 1
  <2>1. Popped(stack[t], stack'[t]) /\ OthersStay(t)
    BY <1>1, <1>5, PopMoves DEF Return
  <2>2. \A o : RunsIn(stack'[t], o) <=> RunsIn(stack[t], o)
    BY <1>1, <1>3, <2>1, PoppedRuns
  <2>3. Top(t)'.at = "store"
    BY <2>1 DEF Popped, Top
  <2> QED
    BY <1>1, <2>1, <2>2, <2>3, RunsKept
<1> QED
  BY <1>4, <1>5

LEMMA StoreRuns ==
    ASSUME TypeInv, RunInv, NEW t \in Threads, Store(t)
    PROVE  RunInv' /\ once[Arg(t)] = "EXECUTING_CLOSURE"
<1> DEFINE p == Arg(t)
<1>1. /\ stack[t] # <<>> /\ p = Instruction(Top(t)).arg /\ p \in Onces /\ Top(t).at = "store"
      /\ Onwards(t, 1) /\ once' = [once EXCEPT ![p] = "DONE"]
  BY BeforeFacts DEF Store
<1>2. Moved(stack[t], stack'[t], Top(t).pc + 1, "start") /\ OthersStay(t)
  BY <1>1, OnwardsMoves
<1>3. /\ Stands(stack[t]) /\ stack[t][Len(stack[t])] = Top(t)
      /\ Len(stack[t]) \in 1..Len(stack[t])
  BY <1>1, TopFacts DEF TypeInv
<1>4. once \in [Onces -> {"UNINITIALIZED", "EXECUTING_CLOSURE", "DONE"}]
  BY DEF TypeInv
<1>5. \A o \in Onces : once'[o] = IF o = p THEN "DONE" ELSE once[o]
  BY <1>1, <1>4
<1>6. RunsIn(stack[t], p)
  BY <1>1, <1>3 DEF RunsIn
<1>7. once[p] = "EXECUTING_CLOSURE" /\ \A u \in Threads : RunsIn(stack[u], p) => u = t
  BY <1>1, <1>6 DEF RunInv
<1>8. Top(t)'.at = "start"
  BY <1>1, <1>2, TopAfter
<1> HIDE DEF p
<1>9. \A o : RunsIn(stack'[t], o) <=> RunsIn(stack[t], o) /\ o # p
  BY <1>1, <1>2, <1>3, MovedRuns
<1>10. \A u \in Threads : u # t => /\ Top(u)' = Top(u) /\ Arg(u)' = Arg(u) /\ stack'[u] = stack[u]
                                   /\ \A o : RunsIn(stack'[u], o) <=> RunsIn(stack[u], o)
  BY <1>2 DEF OthersStay, Top, Arg, Instruction
<1>11. \A u \in Threads : ~RunsIn(stack'[u], p)
  BY <1>7, <1>9, <1>10
<1>12. \A o \in Onces : o # p =>
         \A u \in Threads : RunsIn(stack'[u], o) <=> RunsIn(stack[u], o)
  BY <1>9, <1>10
<1>13. \A o \in Onces : once'[o] = "EXECUTING_CLOSURE" <=> \E u \in Threads : RunsIn(stack'[u], o)
  <2> TAKE o \in Onces
  <2>1. CASE o = p
    BY <1>5, <1>11, <2>1
  <2>2. CASE o # p
    BY <1>5, <1>12, <2>2 DEF RunInv
  <2> QED
    BY <2>1, <2>2
<1>14. \A o \in Onces : \A u, v \in Threads :
         RunsIn(stack'[u], o) /\ RunsIn(stack'[v], o) => u = v
  <2> TAKE o \in Onces
  <2>1. CASE o = p
    BY <1>11, <2>1
  <2>2. CASE o # p
    BY <1>12, <2>2 DEF RunInv
  <2> QED
    BY <2>1, <2>2
<1>15. \A u \in Threads : stack'[u] # <<>> /\ Top(u)'.at = "wait" => once'[Arg(u)'] # "UNINITIALIZED"
  <2> TAKE u \in Threads
  <2> HAVE stack'[u] # <<>> /\ Top(u)'.at = "wait"
  <2>1. u # t
    BY <1>8
  <2>2. stack[u] # <<>> /\ Top(u).at = "wait" /\ once[Arg(u)] # "UNINITIALIZED" /\ Arg(u)' = Arg(u)
    BY <1>10, <2>1 DEF RunInv
  <2>3. Arg(u) \in Onces
    BY <2>2, WaitsAtOnce
  <2> QED
    BY <1>5, <2>2, <2>3
<1>16. RunInv'
  BY <1>13, <1>14, <1>15 DEF RunInv
<1> QED
  BY <1>7, <1>16 DEF p

LEMMA RunStep == TypeInv /\ RunInv /\ [Next]_vars => RunInv'
<1> SUFFICES ASSUME TypeInv, RunInv, [Next]_vars PROVE RunInv'
  OBVIOUS
<1>1. ASSUME NEW t \in Threads, Load(t) PROVE RunInv'
  <2>1. /\ Before(t, "once", "start") /\ once' = once
        /\ Onwards(t, 1) \/ Stage(t, "swap")
    BY <1>1 DEF Load
  <2> QED
    BY <2>1, BeforeFacts, OnwardsRuns, StageRuns
<1>2. ASSUME NEW t \in Threads, Swap(t) PROVE RunInv'
  <2>1. Before(t, "once", "swap") /\ Arg(t) \in Onces /\ stack[t] # <<>> /\ Top(t).at = "swap"
    BY <1>2, BeforeFacts DEF Swap
  <2>2. once[Arg(t)] \in {"UNINITIALIZED", "EXECUTING_CLOSURE", "DONE"}
    BY <2>1 DEF TypeInv
  <2>3. CASE once[Arg(t)] = "UNINITIALIZED"
    BY <1>2, <2>1, <2>3, PushRuns DEF Swap
  <2>4. CASE once[Arg(t)] = "EXECUTING_CLOSURE"
    <3>1. Stage(t, "wait") /\ once' = once
      BY <1>2, <2>4 DEF Swap
    <3> QED
      BY <2>1, <2>4, <3>1, StageRuns
  <2>5. CASE once[Arg(t)] = "DONE"
    <3>1. Onwards(t, 1) /\ once' = once
      BY <1>2, <2>5 DEF Swap
    <3> QED
      BY <2>1, <3>1, OnwardsRuns
  <2> QED
    BY <2>2, <2>3, <2>4, <2>5
<1>3. ASSUME NEW t \in Threads, Wait(t) PROVE RunInv'
  BY <1>3, BeforeFacts, OnwardsRuns DEF Wait
<1>4. ASSUME NEW t \in Threads, Acquire(t) \/ Release(t) \/ MakeThing(t) PROVE RunInv'
  <2>1. /\ \E op \in {"lock", "unlock", "make"} : Before(t, op, "start")
        /\ once' = once /\ Onwards(t, 1)
    BY <1>4 DEF Acquire, Release, MakeThing
  <2> QED
    BY <2>1, BeforeFacts, OnwardsRuns
<1>5. ASSUME NEW t \in Threads, Decide(t) PROVE RunInv'
  <2>1. Before(t, "unless", "start") /\ once' = once
        /\ (Onwards(t, 1) \/ Onwards(t, Instruction(Top(t)).skip + 1))
    BY <1>5 DEF Decide
  <2>2. Instruction(Top(t)).skip + 1 \in Nat
    BY <2>1, BeforeFacts
  <2> QED
    BY <2>1, <2>2, BeforeFacts, OnwardsRuns
<1>6. ASSUME NEW t \in Threads, NEW r \in Requests, Call(t, r) PROVE RunInv'
  <2>1. stack[t] = <<>> /\ stack' = [stack EXCEPT ![t] = <<Frame(r)>>] /\ once' = once
    BY <1>6 DEF Call
  <2>2. OthersStay(t) /\ stack'[t] = <<Frame(r)>>
    <3>1. <<Frame(r)>> \in Seq(Frames) /\ stack \in [Threads -> Seq(Frames)]
      BY BegunStands DEF TypeInv, Stands
    <3> QED
      BY <2>1, <3>1 DEF OthersStay
  <2>3. Top(t)'.at = "start"
    BY <2>2 DEF Top, Frame
  <2> QED
    BY <2>1, <2>2, <2>3, EmptyRuns, BegunRuns, RunsKept
<1>7. CASE UNCHANGED vars
  <2>1. once' = once /\ stack' = stack
    BY <1>7 DEF vars
  <2>2. \A u \in Threads : Top(u)' = Top(u) /\ Arg(u)' = Arg(u)
    BY <2>1 DEF Top, Arg, Instruction
  <2> QED
    BY <2>1, <2>2 DEF RunInv
<1> QED
  BY <1>1, <1>2, <1>3, <1>4, <1>5, <1>6, <1>7, ReturnRuns, StoreRuns DEF Next, Step

LEMMA RunAlways == Spec => [](TypeInv /\ RunInv)
<1>1. Init => TypeInv /\ RunInv
  BY TypeInit, RunInit
<1>2. (TypeInv /\ RunInv) /\ [Next]_vars => (TypeInv /\ RunInv)'
  BY TypeStep, RunStep
<1> QED
  BY <1>1, <1>2, PTL DEF Spec

(* The first call only: one thread runs a closure, and only while its      *)
(* state says so.                                                          *)
THEOREM OneRunnerHolds == Spec => []OneRunner
<1>1. TypeInv /\ RunInv => OneRunner
  <2> SUFFICES ASSUME TypeInv, RunInv PROVE OneRunner
    OBVIOUS
  <2>1. \A t \in Threads, o \in Onces : Runs(t, o) <=> RunsIn(stack[t], o)
    BY DEF Runs, RunsIn
  <2>2. ASSUME NEW o \in Onces
        PROVE  Cardinality({t \in Threads : Runs(t, o)})
                 = IF once[o] = "EXECUTING_CLOSURE" THEN 1 ELSE 0
    <3>1. CASE once[o] = "EXECUTING_CLOSURE"
      <4>1. PICK t \in Threads : RunsIn(stack[t], o)
        BY <3>1 DEF RunInv
      <4>2. {u \in Threads : Runs(u, o)} = {t}
        BY <2>1, <4>1 DEF RunInv
      <4> QED
        BY <3>1, <4>2, FS_Singleton
    <3>2. CASE once[o] # "EXECUTING_CLOSURE"
      <4>1. {u \in Threads : Runs(u, o)} = {}
        BY <2>1, <3>2 DEF RunInv
      <4> QED
        BY <3>2, <4>1, FS_EmptySet
    <3> QED
      BY <3>1, <3>2
  <2>3. ASSUME NEW t \in Threads, NEW i \in 1..Len(stack[t]), NEW j \in 1..Len(stack[t]), i # j
        PROVE  stack[t][i].of # stack[t][j].of
    <3>1. Stands(stack[t]) /\ (i < j \/ j < i)
      BY <2>3, LenProperties DEF TypeInv
    <3>2. Rank(stack[t][i].of) # Rank(stack[t][j].of)
      <4>1. Rank(stack[t][i].of) \in 1..4 /\ Rank(stack[t][j].of) \in 1..4
        BY RankFacts
      <4>2. Rank(stack[t][i].of) < Rank(stack[t][j].of) \/ Rank(stack[t][j].of) < Rank(stack[t][i].of)
        BY <3>1 DEF Stands
      <4> QED
        BY <4>1, <4>2
    <3> QED
      BY <3>2
  <2> QED
    BY <2>2, <2>3 DEF OneRunner
<1> QED
  BY <1>1, RunAlways, PTL

-----------------------------------------------------------------------------
(* Where the programs do what.                                             *)
BlockThings == {"alreadyHere", "encodedFile", "registration", "defaultInstance", "fileCleanup"}
BlockOnces == {"pool", "factory", "shutdown"}

LEMMA Lengths ==
    /\ Len(Program["shutdown"]) = 1 /\ Len(Program["pool"]) = 5 /\ Len(Program["factory"]) = 5
    /\ Len(Program["assign"]) = 19 /\ Len(Program["static"]) = 11
    /\ Len(Program["staticAfterUse"]) = 12 /\ Len(Program["metadata"]) = 1
    /\ Len(Program["newByName"]) = 28
BY ListsAreCode, AssignIs, SmallOnes, StaticAfterUseIs, NewByNameIs

LEMMA AddDescPlaces ==
    /\ AddDescAt(Program["assign"], 0) /\ AddDescAt(Program["static"], 0)
    /\ AddDescAt(Program["staticAfterUse"], 1) /\ AddDescAt(Program["newByName"], 14)
<1>1. AddDescAt(Program["assign"], 0)
  BY AssignIs DEF AddDescAt, AssignList
<1>2. AddDescAt(Program["static"], 0)
  BY SmallOnes DEF AddDescAt, StaticList
<1>3. AddDescAt(Program["staticAfterUse"], 1)
  BY StaticAfterUseIs DEF AddDescAt, StaticAfterUseList
<1>4. AddDescAt(Program["newByName"], 14)
  BY NewByNameIs DEF AddDescAt, NewByNameList
<1> QED
  BY <1>1, <1>2, <1>3, <1>4

(* The other instructions of the two longer programs.                      *)
LEMMA AssignCode ==
    LET p == Program["assign"] IN
    /\ p[12] = I("once", "pool") /\ p[13] = I("lock", "pool") /\ p[14] = U("file", 1)
    /\ p[15] = I("make", "file") /\ p[16] = I("unlock", "pool") /\ p[17] = I("once", "pool")
    /\ p[18] = I("once", "factory") /\ p[19] = I("make", "descriptor")
BY AssignIs DEF AssignList

LEMMA NewByNameCode ==
    LET p == Program["newByName"] IN
    /\ p[1] = I("once", "pool") /\ p[2] = I("lock", "pool") /\ p[3] = U("file", 1)
    /\ p[4] = I("make", "file") /\ p[5] = I("unlock", "pool") /\ p[6] = I("once", "factory")
    /\ p[7] = I("lock", "factory") /\ p[8] = U("type", 19) /\ p[9] = I("unlock", "factory")
    /\ p[10] = I("once", "pool") /\ p[11] = I("lock", "factory") /\ p[12] = U("type", 15)
    /\ p[13] = I("once", "assign") /\ p[14] = U("defaultInstance", 11)
    /\ p[26] = I("once", "factory") /\ p[27] = I("make", "type") /\ p[28] = I("unlock", "factory")
BY NewByNameIs DEF NewByNameList

LEMMA ShortCode ==
    /\ Program["shutdown"][1] = I("make", "shutdown")
    /\ Program["metadata"][1] = I("once", "assign")
    /\ Program["staticAfterUse"][1] = I("once", "assign")
    /\ LET p == Program["pool"] IN
         /\ p[1] = I("make", "pool") /\ p[2] = I("once", "shutdown") /\ p[3] = I("lock", "shutdown")
         /\ p[4] = I("make", "poolCleanup") /\ p[5] = I("unlock", "shutdown")
    /\ LET p == Program["factory"] IN
         /\ p[1] = I("make", "factory") /\ p[2] = I("once", "shutdown")
         /\ p[3] = I("lock", "shutdown") /\ p[4] = I("make", "factoryCleanup")
         /\ p[5] = I("unlock", "shutdown")
BY SmallOnes, StaticAfterUseIs DEF ShutdownList, MetadataList, PoolList, FactoryList,
   StaticAfterUseList

LEMMA BlockCode ==
    ASSUME NEW list, NEW k \in Nat, AddDescAt(list, k), NEW i \in (k + 2)..(k + 11)
    PROVE  /\ list[i].op = "once" => list[i].arg \in BlockOnces
           /\ list[i].op = "make" => list[i].arg \in BlockThings
           /\ list[i].op # "unless"
<1>1. \/ i = k + 2 \/ i = k + 3 \/ i = k + 4 \/ i = k + 5 \/ i = k + 6 \/ i = k + 7
      \/ i = k + 8 \/ i = k + 9 \/ i = k + 10 \/ i = k + 11
  OBVIOUS
<1> QED
  BY <1>1 DEF AddDescAt, I, U, BlockThings, BlockOnces

(* An instruction of the block of AddDesc is at one of ten places.         *)
Block(r) ==
    CASE r \in {"assign", "static"} -> 2..11
      [] r = "staticAfterUse" -> 3..12
      [] r = "newByName" -> 16..25
      [] OTHER -> {}

LEMMA Blocks ==
    /\ Block("assign") = 2..11 /\ Block("static") = 2..11 /\ Block("staticAfterUse") = 3..12
    /\ Block("newByName") = 16..25
BY DEF Block

LEMMA BlockFacts ==
    ASSUME NEW r \in DOMAIN Program, NEW i \in Block(r)
    PROVE  /\ i \in 1..Len(Program[r])
           /\ Program[r][i].op = "once" => Program[r][i].arg \in BlockOnces
           /\ Program[r][i].op = "make" => Program[r][i].arg \in BlockThings
           /\ Program[r][i].op # "unless"
<1>1. CASE r = "assign" \/ r = "static"
  <2>1. Block(r) = 2..11 /\ (Len(Program[r]) = 19 \/ Len(Program[r]) = 11)
    BY <1>1, Lengths, Blocks
  <2>2. \A j \in 2..11 : j \in (0 + 2)..(0 + 11) /\ j \in 1..19 /\ j \in 1..11
    OBVIOUS
  <2>3. AddDescAt(Program[r], 0)
    BY <1>1, AddDescPlaces
  <2>4. i \in 2..11
    BY <2>1
  <2>5. i \in (0 + 2)..(0 + 11) /\ i \in 1..Len(Program[r])
    BY <2>1, <2>2, <2>4
  <2> QED
    BY <2>3, <2>5, BlockCode
<1>2. CASE r = "staticAfterUse"
  <2>1. AddDescAt(Program[r], 1) /\ i \in (1 + 2)..(1 + 11) /\ i \in 1..Len(Program[r])
    BY <1>2, AddDescPlaces, Lengths DEF Block
  <2> QED
    BY <2>1, BlockCode
<1>3. CASE r = "newByName"
  <2>1. AddDescAt(Program[r], 14) /\ i \in (14 + 2)..(14 + 11) /\ i \in 1..Len(Program[r])
    BY <1>3, AddDescPlaces, Lengths DEF Block
  <2> QED
    BY <2>1, BlockCode
<1>4. r \in {"assign", "static"} \/ r = "staticAfterUse" \/ r = "newByName"
  BY DEF Block
<1> QED
  BY <1>1, <1>2, <1>3, <1>4

(* Everything that is asked for before it is done, and where.              *)
UnlessAt(r, i, x, n) == Program[r][i].arg = x /\ Program[r][i].skip = n

LEMMA UnlessPlaces ==
    /\ UnlessAt("assign", 1, "alreadyHere", 10) /\ UnlessAt("assign", 14, "file", 1)
    /\ UnlessAt("static", 1, "alreadyHere", 10)
    /\ UnlessAt("staticAfterUse", 2, "alreadyHere", 10)
    /\ UnlessAt("newByName", 3, "file", 1) /\ UnlessAt("newByName", 8, "type", 19)
    /\ UnlessAt("newByName", 12, "type", 15) /\ UnlessAt("newByName", 14, "defaultInstance", 11)
    /\ UnlessAt("newByName", 15, "alreadyHere", 10)
<1>1. /\ Program["assign"][0 + 1] = U("alreadyHere", 10)
      /\ Program["static"][0 + 1] = U("alreadyHere", 10)
      /\ Program["staticAfterUse"][1 + 1] = U("alreadyHere", 10)
      /\ Program["newByName"][14 + 1] = U("alreadyHere", 10)
  BY AddDescPlaces DEF AddDescAt
<1>2. /\ Program["assign"][1] = U("alreadyHere", 10)
      /\ Program["static"][1] = U("alreadyHere", 10)
      /\ Program["staticAfterUse"][2] = U("alreadyHere", 10)
      /\ Program["newByName"][15] = U("alreadyHere", 10)
  BY <1>1
<1>3. \A x, n : U(x, n).arg = x /\ U(x, n).skip = n
  BY DEF U
<1>4. /\ Program["assign"][14] = U("file", 1) /\ Program["newByName"][3] = U("file", 1)
      /\ Program["newByName"][8] = U("type", 19) /\ Program["newByName"][12] = U("type", 15)
      /\ Program["newByName"][14] = U("defaultInstance", 11)
  BY AssignCode, NewByNameCode
<1> QED
  BY <1>2, <1>3, <1>4 DEF UnlessAt

LEMMA NotUnless ==
    /\ \A j \in {12, 13, 15, 16, 17, 18, 19} : Program["assign"][j].op # "unless"
    /\ \A j \in {1, 2, 4, 5, 6, 7, 9, 10, 11, 13, 26, 27, 28} : Program["newByName"][j].op # "unless"
<1>1. \A op, x : I(op, x).op = op
  BY DEF I
<1>2. \A j \in {12, 13, 15, 16, 17, 18, 19} : Program["assign"][j].op # "unless"
  BY <1>1, AssignCode
<1>3. \A j \in {1, 2, 4, 5, 6, 7} : Program["newByName"][j].op # "unless"
  BY <1>1, NewByNameCode
<1>4. \A j \in {9, 10, 11, 13, 26, 27, 28} : Program["newByName"][j].op # "unless"
  BY <1>1, NewByNameCode
<1>5. \A j \in {1, 2, 4, 5, 6, 7, 9, 10, 11, 13, 26, 27, 28} :
        j \in {1, 2, 4, 5, 6, 7} \/ j \in {9, 10, 11, 13, 26, 27, 28}
  OBVIOUS
<1> QED
  BY <1>2, <1>3, <1>4, <1>5

LEMMA UnlessFacts ==
    ASSUME NEW r \in DOMAIN Program, NEW i \in 1..Len(Program[r]), Program[r][i].op = "unless"
    PROVE  \/ r \in {"assign", "static"} /\ i = 1 /\ UnlessAt(r, i, "alreadyHere", 10)
           \/ r = "staticAfterUse" /\ i = 2 /\ UnlessAt(r, i, "alreadyHere", 10)
           \/ r = "newByName" /\ i = 15 /\ UnlessAt(r, i, "alreadyHere", 10)
           \/ r = "assign" /\ i = 14 /\ UnlessAt(r, i, "file", 1)
           \/ r = "newByName" /\ i = 3 /\ UnlessAt(r, i, "file", 1)
           \/ r = "newByName" /\ i = 8 /\ UnlessAt(r, i, "type", 19)
           \/ r = "newByName" /\ i = 12 /\ UnlessAt(r, i, "type", 15)
           \/ r = "newByName" /\ i = 14 /\ UnlessAt(r, i, "defaultInstance", 11)
<1>1. \/ r = "assign" \/ r = "static" \/ r = "staticAfterUse" \/ r = "newByName"
      \/ r = "shutdown" \/ r = "pool" \/ r = "factory" \/ r = "metadata"
  BY RankFacts DEF Onces, Statics, Requests
<1>2. i \notin Block(r)
  BY BlockFacts
<1>3. CASE r = "assign"
  <2>1. \A j \in 1..19 : j = 1 \/ j \in 2..11 \/ j = 12 \/ j = 13 \/ j = 14 \/ j = 15 \/ j = 16
                         \/ j = 17 \/ j = 18 \/ j = 19
    OBVIOUS
  <2>2. i \in 1..19 /\ i \notin 2..11
    BY <1>2, <1>3, Lengths DEF Block
  <2>3. \A j \in {12, 13, 15, 16, 17, 18, 19} : Program["assign"][j].op # "unless"
    BY NotUnless
  <2>4. i = 1 \/ i = 14
    BY <1>3, <2>1, <2>2, <2>3
  <2>5. UnlessAt("assign", 1, "alreadyHere", 10) /\ UnlessAt("assign", 14, "file", 1)
    BY UnlessPlaces
  <2> QED
    BY <1>3, <2>4, <2>5
<1>4. CASE r = "static"
  <2>1. \A j \in 1..11 : j = 1 \/ j \in 2..11
    OBVIOUS
  <2>2. i \in 1..11 /\ i \notin 2..11
    BY <1>2, <1>4, Lengths DEF Block
  <2>3. i = 1
    BY <2>1, <2>2
  <2>4. UnlessAt("static", 1, "alreadyHere", 10)
    BY UnlessPlaces
  <2> QED
    BY <1>4, <2>3, <2>4
<1>5. CASE r = "staticAfterUse"
  <2>1. \A j \in 1..12 : j = 1 \/ j = 2 \/ j \in 3..12
    OBVIOUS
  <2>2. i \in 1..12 /\ i \notin 3..12
    BY <1>2, <1>5, Lengths DEF Block
  <2>3. Program["staticAfterUse"][1].op # "unless"
    BY ShortCode DEF I
  <2>4. i = 2
    BY <1>5, <2>1, <2>2, <2>3
  <2>5. UnlessAt("staticAfterUse", 2, "alreadyHere", 10)
    BY UnlessPlaces
  <2> QED
    BY <1>5, <2>4, <2>5
<1>6. CASE r = "newByName"
  <2>1. \A j \in 1..28 : \/ j = 1 \/ j = 2 \/ j = 3 \/ j = 4 \/ j = 5 \/ j = 6 \/ j = 7 \/ j = 8
                         \/ j = 9 \/ j = 10 \/ j = 11 \/ j = 12 \/ j = 13 \/ j = 14 \/ j = 15
                         \/ j \in 16..25 \/ j = 26 \/ j = 27 \/ j = 28
    OBVIOUS
  <2>2. i \in 1..28 /\ i \notin 16..25
    BY <1>2, <1>6, Lengths DEF Block
  <2>3. \A j \in {1, 2, 4, 5, 6, 7, 9, 10, 11, 13, 26, 27, 28} :
          Program["newByName"][j].op # "unless"
    BY NotUnless
  <2>4. i = 3 \/ i = 8 \/ i = 12 \/ i = 14 \/ i = 15
    BY <1>6, <2>1, <2>2, <2>3
  <2>5. /\ UnlessAt("newByName", 3, "file", 1) /\ UnlessAt("newByName", 8, "type", 19)
        /\ UnlessAt("newByName", 12, "type", 15)
        /\ UnlessAt("newByName", 14, "defaultInstance", 11)
    BY UnlessPlaces
  <2>6. UnlessAt("newByName", 15, "alreadyHere", 10)
    BY UnlessPlaces
  <2> QED
    BY <1>6, <2>4, <2>5, <2>6
<1>7. CASE r \in {"shutdown", "metadata"}
  <2>1. Len(Program[r]) = 1
    BY <1>7, Lengths
  <2>2. i = 1
    BY <2>1
  <2>3. Program[r][1].op # "unless"
    BY <1>7, ShortCode DEF I
  <2> QED
    BY <2>2, <2>3
<1>8. CASE r \in {"pool", "factory"}
  <2>1. \A j \in 1..5 : j = 1 \/ j = 2 \/ j = 3 \/ j = 4 \/ j = 5
    OBVIOUS
  <2>2. Len(Program[r]) = 5
    BY <1>8, Lengths
  <2>3. i = 1 \/ i = 2 \/ i = 3 \/ i = 4 \/ i = 5
    BY <2>1, <2>2
  <2>4. \A j \in {1, 2, 3, 4, 5} : /\ Program["pool"][j].op # "unless"
                                  /\ Program["factory"][j].op # "unless"
    BY ShortCode DEF I
  <2> QED
    BY <1>8, <2>3, <2>4
<1> QED
  BY <1>1, <1>3, <1>4, <1>5, <1>6, <1>7, <1>8

-----------------------------------------------------------------------------
(* What a step does to the frames, in general.                             *)
Done(r, i) ==
    /\ Program[r][i].op = "once" => once[Program[r][i].arg] = "DONE"
    /\ Program[r][i].op = "make" => made[Program[r][i].arg] > 0

(* The same after the step.                                                *)
DoneAfter(r, i) ==
    /\ Program[r][i].op = "once" => once'[Program[r][i].arg] = "DONE"
    /\ Program[r][i].op = "make" => made'[Program[r][i].arg] > 0

Passed(f) == \A i \in 1..(f.pc - 1) : Done(f.of, i)

(* The last frame of t goes on: past an instruction that has been carried  *)
(* out, into a block because its thing is not there, or past it because it *)
(* is.                                                                     *)
GoesOn(t, f) ==
    /\ stack[t] # <<>> /\ ~AtEnd(Top(t)) /\ f.of = Top(t).of
    /\ \/ /\ f.pc = Top(t).pc + 1 /\ DoneAfter(Top(t).of, Top(t).pc)
          /\ Instruction(Top(t)).op = "unless" => made[Arg(t)] = 0
       \/ /\ Instruction(Top(t)).op = "unless" /\ made[Arg(t)] # 0
          /\ f.pc = Top(t).pc + (Instruction(Top(t)).skip + 1)

(* A new frame is of a request, or of a closure that nobody has run.       *)
Begins(r) == r \in Requests \/ (r \in Onces /\ once[r] = "UNINITIALIZED")

(* Every frame was there, has gone on, or is new.                          *)
Origins(t) ==
    \A u \in Threads : \A k \in 1..Len(stack'[u]) :
        \/ /\ k \in 1..Len(stack[u])
           /\ stack'[u][k].of = stack[u][k].of /\ stack'[u][k].pc = stack[u][k].pc
        \/ stack'[u][k].pc = 1 /\ Begins(stack'[u][k].of)
        \/ u = t /\ k = Len(stack[t]) /\ GoesOn(t, stack'[u][k])

(* Every frame is still there, has gone on, or was at its end.             *)
Persists(t) ==
    \A u \in Threads : \A k \in 1..Len(stack[u]) :
        \/ /\ k \in 1..Len(stack'[u])
           /\ stack'[u][k].of = stack[u][k].of /\ stack'[u][k].pc = stack[u][k].pc
        \/ u = t /\ k = Len(stack[t]) /\ k \in 1..Len(stack'[t]) /\ GoesOn(t, stack'[u][k])
        \/ u = t /\ k = Len(stack[t]) /\ AtEnd(stack[t][k]) /\ stack[t][k] = Top(t)

(* A thread is about to store when it was, or when its closure has ended.  *)
StoreAfterEnd(t) ==
    \A u \in Threads : stack'[u] # <<>> /\ Top(u)'.at = "store" =>
        \/ stack[u] # <<>> /\ Top(u).at = "store" /\ Arg(u)' = Arg(u)
        \/ u = t /\ stack[t] # <<>> /\ AtEnd(Top(t)) /\ Top(t).of = Arg(t)'

FramesFollow(t) == Origins(t) /\ Persists(t) /\ StoreAfterEnd(t)

LEMMA OthersFrames ==
    ASSUME NEW t \in Threads, OthersStay(t), NEW u \in Threads, u # t
    PROVE  /\ stack'[u] = stack[u]
           /\ Top(u)' = Top(u) /\ Arg(u)' = Arg(u)
BY DEF OthersStay, Top, Arg, Instruction

LEMMA MovedFrames ==
    ASSUME TypeInv, NEW t \in Threads, stack[t] # <<>>, NEW pc, NEW at, OthersStay(t),
           Moved(stack[t], stack'[t], pc, at), at # "store",
           pc = Top(t).pc \/ GoesOn(t, stack'[t][Len(stack[t])])
    PROVE  FramesFollow(t)
<1> DEFINE n == Len(stack[t])
<1>1. n \in Nat \ {0} /\ n \in 1..n /\ Top(t) = stack[t][n]
  BY TopFacts
<1>2. /\ Len(stack'[t]) = n /\ stack'[t][n].of = Top(t).of /\ stack'[t][n].pc = pc
      /\ \A k \in 1..(n - 1) : stack'[t][k] = stack[t][k]
  BY <1>1 DEF Moved
<1>3. \A k \in 1..n : k = n \/ (k \in 1..(n - 1) /\ k \in 1..n)
  BY <1>1
<1>4. \A u \in Threads : u # t => stack'[u] = stack[u] /\ Top(u)' = Top(u) /\ Arg(u)' = Arg(u)
  BY OthersFrames
<1>5. Top(t)'.at # "store"
  BY TopAfter
<1> HIDE DEF n
<1>6. \A k \in 1..n :
        \/ stack'[t][k].of = stack[t][k].of /\ stack'[t][k].pc = stack[t][k].pc
        \/ k = n /\ GoesOn(t, stack'[t][k])
  <2> TAKE k \in 1..n
  <2>1. CASE k = n
    BY <1>1, <1>2, <2>1 DEF n
  <2>2. CASE k \in 1..(n - 1)
    BY <1>2, <2>2
  <2> QED
    BY <1>3, <2>1, <2>2
<1>7. Origins(t)
  <2> SUFFICES ASSUME NEW u \in Threads, NEW k \in 1..Len(stack'[u])
               PROVE  \/ /\ k \in 1..Len(stack[u])
                         /\ stack'[u][k].of = stack[u][k].of /\ stack'[u][k].pc = stack[u][k].pc
                      \/ u = t /\ k = Len(stack[t]) /\ GoesOn(t, stack'[u][k])
    BY DEF Origins
  <2>1. CASE u = t
    BY <1>2, <1>6, <2>1 DEF n
  <2>2. CASE u # t
    BY <1>4, <2>2
  <2> QED
    BY <2>1, <2>2
<1>8. Persists(t)
  <2> SUFFICES ASSUME NEW u \in Threads, NEW k \in 1..Len(stack[u])
               PROVE  \/ /\ k \in 1..Len(stack'[u])
                         /\ stack'[u][k].of = stack[u][k].of /\ stack'[u][k].pc = stack[u][k].pc
                      \/ u = t /\ k = Len(stack[t]) /\ k \in 1..Len(stack'[t])
                         /\ GoesOn(t, stack'[u][k])
    BY DEF Persists
  <2>1. CASE u = t
    BY <1>2, <1>6, <2>1 DEF n
  <2>2. CASE u # t
    BY <1>4, <2>2
  <2> QED
    BY <2>1, <2>2
<1>9. StoreAfterEnd(t)
  BY <1>4, <1>5 DEF StoreAfterEnd
<1> QED
  BY <1>7, <1>8, <1>9 DEF FramesFollow

LEMMA PushedFrames ==
    ASSUME TypeInv, NEW t \in Threads, stack[t] # <<>>, NEW o \in Onces, OthersStay(t),
           Pushed(stack[t], stack'[t], o), once[o] = "UNINITIALIZED"
    PROVE  FramesFollow(t)
<1> DEFINE n == Len(stack[t])
<1>1. n \in Nat \ {0} /\ n \in 1..n /\ Top(t) = stack[t][n]
  BY TopFacts
<1>2. /\ Len(stack'[t]) = n + 1 /\ stack'[t][n].of = stack[t][n].of
      /\ stack'[t][n].pc = stack[t][n].pc
      /\ \A k \in 1..(n - 1) : stack'[t][k] = stack[t][k]
      /\ stack'[t][n + 1].of = o /\ stack'[t][n + 1].pc = 1 /\ stack'[t][n + 1].at = "start"
  BY <1>1 DEF Pushed
<1>3. /\ \A k \in 1..n : k = n \/ k \in 1..(n - 1)
      /\ \A k \in 1..n : k \in 1..(n + 1)
      /\ \A k \in 1..(n + 1) : k = n + 1 \/ k \in 1..n
  BY <1>1
<1>4. \A u \in Threads : u # t => stack'[u] = stack[u] /\ Top(u)' = Top(u) /\ Arg(u)' = Arg(u)
  BY OthersFrames
<1>5. Top(t)'.at # "store"
  BY <1>2 DEF Top
<1> HIDE DEF n
<1>6. \A k \in 1..n : stack'[t][k].of = stack[t][k].of /\ stack'[t][k].pc = stack[t][k].pc
  BY <1>2, <1>3
<1>7. Origins(t)
  <2> SUFFICES ASSUME NEW u \in Threads, NEW k \in 1..Len(stack'[u])
               PROVE  \/ /\ k \in 1..Len(stack[u])
                         /\ stack'[u][k].of = stack[u][k].of /\ stack'[u][k].pc = stack[u][k].pc
                      \/ stack'[u][k].pc = 1 /\ Begins(stack'[u][k].of)
    BY DEF Origins
  <2>1. CASE u = t
    BY <1>2, <1>3, <1>6, <2>1 DEF n, Begins
  <2>2. CASE u # t
    BY <1>4, <2>2
  <2> QED
    BY <2>1, <2>2
<1>8. Persists(t)
  <2> SUFFICES ASSUME NEW u \in Threads, NEW k \in 1..Len(stack[u])
               PROVE  /\ k \in 1..Len(stack'[u])
                      /\ stack'[u][k].of = stack[u][k].of /\ stack'[u][k].pc = stack[u][k].pc
    BY DEF Persists
  <2>1. CASE u = t
    BY <1>2, <1>3, <1>6, <2>1 DEF n
  <2>2. CASE u # t
    BY <1>4, <2>2
  <2> QED
    BY <2>1, <2>2
<1>9. StoreAfterEnd(t)
  BY <1>4, <1>5 DEF StoreAfterEnd
<1> QED
  BY <1>7, <1>8, <1>9 DEF FramesFollow

LEMMA ReturnFrames ==
    ASSUME TypeInv, NEW t \in Threads, Return(t)
    PROVE  FramesFollow(t)
<1> DEFINE n == Len(stack[t])
<1>1. stack[t] # <<>> /\ AtEnd(Top(t)) /\ Stands(stack[t])
  BY DEF Return, TypeInv
<1>2. n \in Nat \ {0} /\ n \in 1..n /\ Top(t) = stack[t][n]
  BY <1>1, TopFacts
<1>3. CASE n = 1
  <2>1. OthersStay(t) /\ stack'[t] = <<>>
    <3>1. stack' = [stack EXCEPT ![t] = <<>>]
      BY <1>3 DEF Return
    <3>2. <<>> \in Seq(Frames) /\ stack \in [Threads -> Seq(Frames)]
      BY DEF TypeInv
    <3> QED
      BY <3>1, <3>2 DEF OthersStay
  <2>2. \A u \in Threads : u # t => stack'[u] = stack[u] /\ Top(u)' = Top(u) /\ Arg(u)' = Arg(u)
    BY <2>1, OthersFrames
  <2>3. \A k \in 1..n : k = n
    BY <1>3
  <2> HIDE DEF n
  <2>4. Origins(t)
    <3> SUFFICES ASSUME NEW u \in Threads, NEW k \in 1..Len(stack'[u])
                 PROVE  /\ k \in 1..Len(stack[u])
                        /\ stack'[u][k].of = stack[u][k].of /\ stack'[u][k].pc = stack[u][k].pc
      BY DEF Origins
    <3>1. u # t
      BY <2>1
    <3> QED
      BY <2>2, <3>1
  <2>5. Persists(t)
    <3> SUFFICES ASSUME NEW u \in Threads, NEW k \in 1..Len(stack[u])
                 PROVE  \/ /\ k \in 1..Len(stack'[u])
                           /\ stack'[u][k].of = stack[u][k].of /\ stack'[u][k].pc = stack[u][k].pc
                        \/ u = t /\ k = Len(stack[t]) /\ AtEnd(stack[t][k]) /\ stack[t][k] = Top(t)
      BY DEF Persists
    <3>1. CASE u = t
      BY <1>1, <1>2, <2>3, <3>1 DEF n
    <3>2. CASE u # t
      BY <2>2, <3>2
    <3> QED
      BY <3>1, <3>2
  <2>6. StoreAfterEnd(t)
    BY <2>1, <2>2 DEF StoreAfterEnd
  <2> QED
    BY <2>4, <2>5, <2>6 DEF FramesFollow
<1>4. CASE n # 1
  <2>1. Popped(stack[t], stack'[t]) /\ OthersStay(t)
    BY <1>1, <1>4, PopMoves DEF Return
  <2>2. \A u \in Threads : u # t => stack'[u] = stack[u] /\ Top(u)' = Top(u) /\ Arg(u)' = Arg(u)
    BY <2>1, OthersFrames
  <2> DEFINE m == n - 1
  <2>3. m \in Nat /\ m > 0 /\ n = m + 1 /\ m \in 1..m
    BY <1>2, <1>4, OneLess
  <2>4. /\ Len(stack'[t]) = m /\ stack'[t][m].of = stack[t][m].of
        /\ stack'[t][m].pc = stack[t][m].pc
        /\ \A k \in 1..(m - 1) : stack'[t][k] = stack[t][k]
    <3>1. n - 2 = m - 1
      BY <1>2
    <3> QED
      BY <2>1, <3>1 DEF Popped
  <2> HIDE DEF m
  <2>5. /\ \A k \in 1..m : (k = m \/ k \in 1..(m - 1)) /\ k \in 1..n
        /\ \A k \in 1..n : k = n \/ k \in 1..m
    BY <2>3
  <2> HIDE DEF n
  <2>6. \A k \in 1..m : stack'[t][k].of = stack[t][k].of /\ stack'[t][k].pc = stack[t][k].pc
    BY <2>4, <2>5
  <2>7. Origins(t)
    <3> SUFFICES ASSUME NEW u \in Threads, NEW k \in 1..Len(stack'[u])
                 PROVE  /\ k \in 1..Len(stack[u])
                        /\ stack'[u][k].of = stack[u][k].of /\ stack'[u][k].pc = stack[u][k].pc
      BY DEF Origins
    <3>1. CASE u = t
      BY <2>4, <2>5, <2>6, <3>1 DEF n
    <3>2. CASE u # t
      BY <2>2, <3>2
    <3> QED
      BY <3>1, <3>2
  <2>8. Persists(t)
    <3> SUFFICES ASSUME NEW u \in Threads, NEW k \in 1..Len(stack[u])
                 PROVE  \/ /\ k \in 1..Len(stack'[u])
                           /\ stack'[u][k].of = stack[u][k].of /\ stack'[u][k].pc = stack[u][k].pc
                        \/ u = t /\ k = Len(stack[t]) /\ AtEnd(stack[t][k]) /\ stack[t][k] = Top(t)
      BY DEF Persists
    <3>1. CASE u = t
      BY <1>1, <1>2, <2>4, <2>5, <2>6, <3>1 DEF n
    <3>2. CASE u # t
      BY <2>2, <3>2
    <3> QED
      BY <3>1, <3>2
  <2>9. Top(t).of = Arg(t)'
    <3>1. n \in 1..n /\ n > 1 /\ n - 1 = m
      BY <2>3 DEF n, m
    <3>2. stack[t][n].of = Instruction(stack[t][m]).arg
      BY <1>1, <3>1 DEF Stands, n
    <3>3. Top(t)' = stack'[t][m]
      BY <2>4 DEF Top
    <3>4. Instruction(Top(t)') = Instruction(stack[t][m])
      BY <2>4, <3>3 DEF Instruction
    <3>5. Arg(t)' = Instruction(Top(t)').arg
      BY DEF Arg, Instruction
    <3> QED
      BY <1>2, <3>2, <3>4, <3>5 DEF n
  <2>10. StoreAfterEnd(t)
    BY <1>1, <2>2, <2>9 DEF StoreAfterEnd
  <2> QED
    BY <2>7, <2>8, <2>10 DEF FramesFollow
<1> QED
  BY <1>3, <1>4

LEMMA OnwardsFrames ==
    ASSUME TypeInv, NEW t \in Threads, stack[t] # <<>>, ~AtEnd(Top(t)), Onwards(t, 1),
           DoneAfter(Top(t).of, Top(t).pc),
           Instruction(Top(t)).op = "unless" => made[Arg(t)] = 0
    PROVE  FramesFollow(t)
<1>1. Moved(stack[t], stack'[t], Top(t).pc + 1, "start") /\ OthersStay(t)
  BY OnwardsMoves
<1>2. stack'[t][Len(stack[t])].of = Top(t).of /\ stack'[t][Len(stack[t])].pc = Top(t).pc + 1
  BY <1>1, TopFacts DEF Moved
<1>3. GoesOn(t, stack'[t][Len(stack[t])])
  BY <1>2 DEF GoesOn
<1> QED
  BY <1>1, <1>3, MovedFrames

LEMMA StageFrames ==
    ASSUME TypeInv, NEW t \in Threads, stack[t] # <<>>, NEW at \in {"swap", "wait"}, Stage(t, at)
    PROVE  FramesFollow(t)
<1>1. Moved(stack[t], stack'[t], Top(t).pc, at) /\ OthersStay(t) /\ at # "store"
  BY StageMoves
<1> QED
  BY <1>1, MovedFrames

(* Nothing that is done or made is undone.                                 *)
Grows ==
    /\ \A o \in Onces : once[o] = "DONE" => once'[o] = "DONE"
    /\ \A x \in Things : made[x] > 0 => made'[x] > 0

LEMMA StepFollows ==
    ASSUME TypeInv, RunInv, NEW t \in Threads, Step(t)
    PROVE  FramesFollow(t) /\ Grows
<1>0. /\ once \in [Onces -> {"UNINITIALIZED", "EXECUTING_CLOSURE", "DONE"}]
      /\ made \in [Things -> Nat]
  BY DEF TypeInv
<1>1. ASSUME NEW op, NEW at, Before(t, op, at)
      PROVE  /\ stack[t] # <<>> /\ ~AtEnd(Top(t)) /\ Arg(t) = Program[Top(t).of][Top(t).pc].arg
             /\ Program[Top(t).of][Top(t).pc].op = op /\ Instruction(Top(t)).op = op
  BY <1>1, BeforeFacts DEF Instruction
<1>2. CASE Load(t)
  <2>1. Before(t, "once", "start") /\ once' = once /\ made' = made
    BY <1>2 DEF Load
  <2>2. CASE once[Arg(t)] = "DONE"
    <3>1. Onwards(t, 1)
      BY <1>2, <2>2 DEF Load
    <3>2. DoneAfter(Top(t).of, Top(t).pc)
      BY <1>1, <2>1, <2>2 DEF DoneAfter
    <3> QED
      BY <1>1, <2>1, <3>1, <3>2, OnwardsFrames DEF Grows
  <2>3. CASE once[Arg(t)] # "DONE"
    BY <1>1, <1>2, <2>1, <2>3, StageFrames DEF Load, Grows
  <2> QED
    BY <2>2, <2>3
<1>3. CASE Swap(t)
  <2>1. Before(t, "once", "swap") /\ Arg(t) \in Onces /\ made' = made
    BY <1>3, BeforeFacts DEF Swap
  <2>2. once[Arg(t)] \in {"UNINITIALIZED", "EXECUTING_CLOSURE", "DONE"}
    BY <1>0, <2>1
  <2>3. CASE once[Arg(t)] = "UNINITIALIZED"
    <3>1. /\ once' = [once EXCEPT ![Arg(t)] = "EXECUTING_CLOSURE"]
          /\ stack' = [stack EXCEPT ![t] =
                          Append([@ EXCEPT ![Len(@)].at = "run"], Frame(Arg(t)))]
      BY <1>3, <2>3 DEF Swap
    <3>2. Grows
      BY <1>0, <2>1, <2>3, <3>1 DEF Grows
    <3>3. stack[t] # <<>>
      BY <1>1, <2>1
    <3>4. Pushed(stack[t], stack'[t], Arg(t)) /\ OthersStay(t)
      BY <2>1, <3>1, <3>3, PushMoves
    <3> QED
      BY <2>1, <2>3, <3>2, <3>3, <3>4, PushedFrames
  <2>4. CASE once[Arg(t)] = "EXECUTING_CLOSURE"
    <3>1. Stage(t, "wait") /\ once' = once
      BY <1>3, <2>4 DEF Swap
    <3> QED
      BY <1>1, <2>1, <3>1, StageFrames DEF Grows
  <2>5. CASE once[Arg(t)] = "DONE"
    <3>1. Onwards(t, 1) /\ once' = once
      BY <1>3, <2>5 DEF Swap
    <3>2. DoneAfter(Top(t).of, Top(t).pc)
      BY <1>1, <2>1, <2>5, <3>1 DEF DoneAfter
    <3> QED
      BY <1>1, <2>1, <3>1, <3>2, OnwardsFrames DEF Grows
  <2> QED
    BY <2>2, <2>3, <2>4, <2>5
<1>4. CASE Wait(t)
  <2>1. /\ Before(t, "once", "wait") /\ Arg(t) \in Onces /\ once' = once /\ made' = made
        /\ Onwards(t, 1) /\ once[Arg(t)] # "EXECUTING_CLOSURE" /\ stack[t] # <<>>
        /\ Top(t).at = "wait"
    BY <1>4, BeforeFacts DEF Wait
  <2>2. once[Arg(t)] = "DONE"
    BY <1>0, <2>1 DEF RunInv
  <2>3. DoneAfter(Top(t).of, Top(t).pc)
    BY <1>1, <2>1, <2>2 DEF DoneAfter
  <2> QED
    BY <1>1, <2>1, <2>3, OnwardsFrames DEF Grows
<1>5. CASE Return(t)
  <2>1. once' = once /\ made' = made
    BY <1>5 DEF Return
  <2> QED
    BY <1>5, <2>1, ReturnFrames DEF Grows
<1>6. CASE Store(t)
  <2>1. /\ Before(t, "once", "store") /\ Arg(t) \in Onces /\ made' = made
        /\ Onwards(t, 1) /\ once' = [once EXCEPT ![Arg(t)] = "DONE"]
    BY <1>6, BeforeFacts DEF Store
  <2>2. \A o \in Onces : once'[o] = IF o = Arg(t) THEN "DONE" ELSE once[o]
    BY <1>0, <2>1
  <2>3. DoneAfter(Top(t).of, Top(t).pc)
    BY <1>1, <2>1, <2>2 DEF DoneAfter
  <2> QED
    BY <1>1, <2>1, <2>2, <2>3, OnwardsFrames DEF Grows
<1>7. CASE Acquire(t) \/ Release(t)
  <2>1. /\ \E op \in {"lock", "unlock"} : Before(t, op, "start")
        /\ once' = once /\ made' = made /\ Onwards(t, 1)
    BY <1>7 DEF Acquire, Release
  <2>2. DoneAfter(Top(t).of, Top(t).pc)
    BY <1>1, <2>1 DEF DoneAfter
  <2> QED
    BY <1>1, <2>1, <2>2, OnwardsFrames DEF Grows
<1>8. CASE MakeThing(t)
  <2>1. /\ Before(t, "make", "start") /\ Arg(t) \in Things /\ once' = once
        /\ Onwards(t, 1) /\ made' = [made EXCEPT ![Arg(t)] = @ + 1]
    BY <1>8, BeforeFacts DEF MakeThing
  <2>2. \A x \in Things : made'[x] = (IF x = Arg(t) THEN made[x] + 1 ELSE made[x])
                            /\ made[x] \in Nat
    BY <1>0, <2>1
  <2>3. \A x \in Things : (made[x] > 0 => made'[x] > 0) /\ (x = Arg(t) => made'[x] > 0)
    <3> TAKE x \in Things
    <3>1. CASE x = Arg(t)
      BY <2>2, <3>1
    <3>2. CASE x # Arg(t)
      BY <2>2, <3>2
    <3> QED
      BY <3>1, <3>2
  <2>4. DoneAfter(Top(t).of, Top(t).pc)
    BY <1>1, <2>1, <2>3 DEF DoneAfter
  <2> QED
    BY <1>1, <2>1, <2>3, <2>4, OnwardsFrames DEF Grows
<1>9. CASE Decide(t)
  <2>1. Before(t, "unless", "start") /\ once' = once /\ made' = made
    BY <1>9 DEF Decide
  <2>2. CASE made[Arg(t)] = 0
    <3>1. Onwards(t, 1)
      BY <1>9, <2>2 DEF Decide
    <3>2. DoneAfter(Top(t).of, Top(t).pc)
      BY <1>1, <2>1 DEF DoneAfter
    <3> QED
      BY <1>1, <2>1, <2>2, <3>1, <3>2, OnwardsFrames DEF Grows
  <2>3. CASE made[Arg(t)] # 0
    <3> DEFINE m == Instruction(Top(t)).skip + 1
    <3>1. Onwards(t, m)
      BY <1>9, <2>3 DEF Decide
    <3>2. m \in Nat /\ stack[t] # <<>> /\ ~AtEnd(Top(t)) /\ Instruction(Top(t)).op = "unless"
      BY <2>1, BeforeFacts
    <3> HIDE DEF m
    <3>3. Moved(stack[t], stack'[t], Top(t).pc + m, "start") /\ OthersStay(t)
      BY <3>1, <3>2, OnwardsMoves
    <3>4. stack'[t][Len(stack[t])].of = Top(t).of /\ stack'[t][Len(stack[t])].pc = Top(t).pc + m
      BY <3>2, <3>3, TopFacts DEF Moved
    <3>5. GoesOn(t, stack'[t][Len(stack[t])])
      BY <2>3, <3>2, <3>4 DEF GoesOn, m
    <3> QED
      BY <2>1, <3>2, <3>3, <3>5, MovedFrames DEF Grows
  <2> QED
    BY <2>2, <2>3
<1> QED
  BY <1>2, <1>3, <1>4, <1>5, <1>6, <1>7, <1>8, <1>9 DEF Step

LEMMA CallFollows ==
    ASSUME TypeInv, NEW t \in Threads, NEW r \in Requests, Call(t, r)
    PROVE  FramesFollow(t) /\ once' = once /\ made' = made
<1>1. /\ stack[t] = <<>> /\ stack' = [stack EXCEPT ![t] = <<Frame(r)>>] /\ once' = once
      /\ made' = made
  BY DEF Call
<1>2. OthersStay(t) /\ stack'[t] = <<Frame(r)>>
  <2>1. <<Frame(r)>> \in Seq(Frames) /\ stack \in [Threads -> Seq(Frames)]
    BY BegunStands DEF TypeInv, Stands
  <2> QED
    BY <1>1, <2>1 DEF OthersStay
<1>3. \A u \in Threads : u # t => stack'[u] = stack[u] /\ Top(u)' = Top(u) /\ Arg(u)' = Arg(u)
  BY <1>2, OthersFrames
<1>4. Top(t)'.at = "start"
  BY <1>2 DEF Top, Frame
<1>5. \A k \in 1..Len(stack'[t]) : stack'[t][k].pc = 1 /\ Begins(stack'[t][k].of)
  BY <1>2 DEF Frame, Begins
<1>6. Origins(t)
  BY <1>3, <1>5 DEF Origins
<1>7. Persists(t)
  <2> SUFFICES ASSUME NEW u \in Threads, NEW k \in 1..Len(stack[u])
               PROVE  /\ k \in 1..Len(stack'[u])
                      /\ stack'[u][k].of = stack[u][k].of /\ stack'[u][k].pc = stack[u][k].pc
    BY DEF Persists
  <2>1. u # t
    BY <1>1
  <2> QED
    BY <1>3, <2>1
<1>8. StoreAfterEnd(t)
  BY <1>3, <1>4 DEF StoreAfterEnd
<1> QED
  BY <1>1, <1>6, <1>7, <1>8 DEF FramesFollow

-----------------------------------------------------------------------------
(* What is there once somebody has got past an instruction.                *)
BlockDone ==
    /\ \A x \in BlockThings : made[x] > 0
    /\ \A o \in BlockOnces : once[o] = "DONE"

(* A frame is in the middle of the block of AddDesc.                       *)
InBlock(f) == f.of \in {"static", "assign", "staticAfterUse"} /\ f.pc \in Block(f.of)

(* It is in it, or has to decide about it.                                 *)
NearBlock(f) ==
    \/ InBlock(f)
    \/ f.of \in {"static", "assign"} /\ f.pc = 1
    \/ f.of = "staticAfterUse" /\ f.pc = 2

(* The static initialisers have not ended.                                 *)
Starting == stack[Main] # <<>> /\ stack[Main][1].of \in Statics

FactInv ==
    /\ \A o \in Onces : once[o] = "DONE" => Finished(o)
    /\ \A t \in Threads : \A k \in 1..Len(stack[t]) : Passed(stack[t][k])
    /\ \A t \in Threads : stack[t] # <<>> /\ Top(t).at = "store" => Finished(Arg(t))
    /\ made["type"] > 0 => once["assign"] = "DONE"
    /\ Starting => \A t \in Threads : t # Main => stack[t] = <<>>
    /\ Starting \/ BlockDone
    /\ made["alreadyHere"] > 0 =>
         BlockDone \/ \E k \in 1..Len(stack[Main]) : InBlock(stack[Main][k])

LEMMA StartingIs ==
    ASSUME TypeInv
    PROVE  StaticsDone <=> ~Starting
<1>1. Stands(stack[Main]) /\ Len(stack[Main]) \in Nat /\ stack[Main] \in Seq(Frames)
  BY MainAssumption, LenProperties DEF TypeInv
<1>2. ASSUME NEW k \in 1..Len(stack[Main]), stack[Main][k].of \in Statics PROVE k = 1
  <2>1. k = 1 \/ k > 1
    BY <1>1
  <2>2. CASE k > 1
    <3>1. k - 1 \in 1..Len(stack[Main]) /\ k - 1 < Len(stack[Main])
      BY <1>1, <2>2
    <3>2. stack[Main][k - 1].at = "run" /\ stack[Main][k - 1] \in Frames
      BY <1>1, <3>1, ElementOfSeq DEF Stands
    <3>3. AtOnce(stack[Main][k - 1])
      BY <1>1, <3>1, <3>2 DEF Stands
    <3>4. stack[Main][k].of \in Onces
      BY <1>1, <2>2, <3>2, <3>3, InstructionFacts DEF Stands, AtOnce
    <3> QED
      BY <1>2, <3>4, RankFacts
  <2> QED
    BY <2>1, <2>2
<1>3. stack[Main] # <<>> <=> 1 \in 1..Len(stack[Main])
  BY <1>1, EmptySeq
<1> QED
  BY <1>2, <1>3 DEF StaticsDone, Starting

(* A frame that has been asked for runs after the static initialisers, and *)
(* a frame of another thread too.                                          *)
LEMMA AfterStart ==
    ASSUME TypeInv, FactInv, NEW t \in Threads, NEW k \in 1..Len(stack[t]),
           t # Main \/ stack[t][k].of \in Requests
    PROVE  ~Starting /\ BlockDone
<1>1. Stands(stack[t]) /\ Len(stack[t]) \in Nat /\ stack[t] \in Seq(Frames) /\ stack[t] # <<>>
  BY LenProperties, EmptySeq DEF TypeInv
<1>2. CASE t # Main
  BY <1>1, <1>2 DEF FactInv
<1>3. CASE stack[t][k].of \in Requests
  <2>1. k = 1
    <3>1. k = 1 \/ k > 1
      BY <1>1
    <3>2. CASE k > 1
      <4>1. k - 1 \in 1..Len(stack[t]) /\ k - 1 < Len(stack[t])
        BY <1>1, <3>2
      <4>2. stack[t][k - 1].at = "run" /\ stack[t][k - 1] \in Frames
        BY <1>1, <4>1, ElementOfSeq DEF Stands
      <4>3. AtOnce(stack[t][k - 1])
        BY <1>1, <4>1, <4>2 DEF Stands
      <4>4. stack[t][k].of \in Onces
        BY <1>1, <3>2, <4>2, <4>3, InstructionFacts DEF Stands, AtOnce
      <4> QED
        BY <1>3, <4>4, RankFacts
    <3> QED
      BY <3>1, <3>2
  <2>2. stack[t][1].of \notin Statics
    BY <1>3, <2>1 DEF Statics, Requests
  <2>3. ~Starting
    BY <1>1, <2>2 DEF Starting, FactInv
  <2> QED
    BY <2>3 DEF FactInv
<1> QED
  BY <1>2, <1>3

(* Two frames of a stack are not both near the block.                      *)
LEMMA OneBlock ==
    ASSUME NEW s, Stands(s), NEW i \in 1..Len(s), NEW j \in 1..Len(s),
           NearBlock(s[i]), NearBlock(s[j])
    PROVE  i = j
<1>0. s \in Seq(Frames) /\ Len(s) \in Nat
  BY LenProperties DEF Stands
<1>1. ASSUME NEW a \in 1..Len(s), NEW b \in 1..Len(s), a < b, NearBlock(s[a]), NearBlock(s[b])
      PROVE  FALSE
  <2>1. a + 1 \in 1..Len(s) /\ a + 1 > 1 /\ (a + 1) - 1 = a /\ (a + 1 = b \/ a + 1 < b)
        /\ a < Len(s)
    BY <1>0, <1>1
  <2>2. s[a] \in Frames /\ s[a].at = "run"
    BY <1>0, <2>1, ElementOfSeq DEF Stands
  <2>3. AtOnce(s[a]) /\ s[a + 1].of = Instruction(s[a]).arg
    BY <2>1, <2>2 DEF Stands
  <2>4. s[a].pc \in 1..Len(Program[s[a].of]) /\ s[a].of \in DOMAIN Program
        /\ Program[s[a].of][s[a].pc].op = "once"
    BY <2>2, <2>3, InstructionFacts DEF AtOnce, Instruction
  <2>5. s[a].pc \in Block(s[a].of)
    <3>1. /\ Program["static"][1].op = "unless" /\ Program["assign"][1].op = "unless"
          /\ Program["staticAfterUse"][2].op = "unless"
      <4>1. /\ Program["static"][0 + 1] = U("alreadyHere", 10)
            /\ Program["assign"][0 + 1] = U("alreadyHere", 10)
            /\ Program["staticAfterUse"][1 + 1] = U("alreadyHere", 10)
        BY AddDescPlaces DEF AddDescAt
      <4>2. U("alreadyHere", 10).op = "unless"
        BY DEF U
      <4> QED
        BY <4>1, <4>2
    <3> QED
      BY <1>1, <2>4, <3>1 DEF NearBlock, InBlock
  <2>6. s[a + 1].of \in BlockOnces
    BY <2>3, <2>4, <2>5, BlockFacts DEF Instruction
  <2>7. Rank(s[a + 1].of) <= 2
    BY <2>6 DEF BlockOnces, Rank
  <2>8. Rank(s[b].of) <= 2
    <3>1. CASE a + 1 = b
      BY <2>7, <3>1
    <3>2. CASE a + 1 < b
      <4>1. Rank(s[b].of) < Rank(s[a + 1].of) /\ Rank(s[b].of) \in 1..4
            /\ Rank(s[a + 1].of) \in 1..4
        BY <2>1, <3>2, RankFacts DEF Stands
      <4> QED
        BY <2>7, <4>1
    <3> QED
      BY <2>1, <3>1, <3>2
  <2>9. Rank(s[b].of) >= 3
    <3>1. s[b].of \in {"static", "assign", "staticAfterUse"}
      BY <1>1 DEF NearBlock, InBlock
    <3> QED
      BY <3>1 DEF Rank
  <2>10. Rank(s[b].of) \in 1..4
    BY RankFacts
  <2> QED
    BY <2>8, <2>9, <2>10
<1>2. i < j \/ j < i \/ i = j
  BY <1>0
<1> QED
  BY <1>1, <1>2

(* Who is past the block has done what is in it, and the other way round.  *)
LEMMA BlockGives ==
    ASSUME BlockDone, NEW r \in DOMAIN Program, NEW i \in Block(r)
    PROVE  Done(r, i)
BY BlockFacts DEF BlockDone, Done

LEMMA AddDescGives ==
    ASSUME NEW r \in DOMAIN Program, NEW k \in Nat, AddDescAt(Program[r], k),
           \A i \in (k + 2)..(k + 11) : Done(r, i)
    PROVE  BlockDone
<1>1. /\ k + 2 \in (k + 2)..(k + 11) /\ k + 3 \in (k + 2)..(k + 11) /\ k + 4 \in (k + 2)..(k + 11)
      /\ k + 5 \in (k + 2)..(k + 11) /\ k + 6 \in (k + 2)..(k + 11) /\ k + 7 \in (k + 2)..(k + 11)
      /\ k + 8 \in (k + 2)..(k + 11) /\ k + 10 \in (k + 2)..(k + 11)
  OBVIOUS
<1>2. /\ Done(r, k + 2) /\ Done(r, k + 3) /\ Done(r, k + 4) /\ Done(r, k + 5)
      /\ Done(r, k + 6) /\ Done(r, k + 7) /\ Done(r, k + 8) /\ Done(r, k + 10)
  BY <1>1
<1>3. \A op, x : I(op, x).op = op /\ I(op, x).arg = x
  BY DEF I
<1>4. /\ made["alreadyHere"] > 0 /\ made["encodedFile"] > 0 /\ made["registration"] > 0
      /\ made["defaultInstance"] > 0 /\ made["fileCleanup"] > 0
  BY <1>2, <1>3 DEF Done, AddDescAt
<1>5. once["pool"] = "DONE" /\ once["factory"] = "DONE" /\ once["shutdown"] = "DONE"
  BY <1>2, <1>3 DEF Done, AddDescAt
<1> QED
  BY <1>4, <1>5 DEF BlockDone, BlockThings, BlockOnces

LEMMA PastBlock ==
    ASSUME NEW r \in {"static", "assign", "staticAfterUse"}, \A i \in Block(r) : Done(r, i)
    PROVE  BlockDone
<1>1. r \in DOMAIN Program
  BY RankFacts DEF Onces, Statics
<1>2. CASE r \in {"static", "assign"}
  <2>1. AddDescAt(Program[r], 0) /\ Block(r) = 2..11
    BY <1>2, AddDescPlaces, Blocks
  <2>2. \A i \in (0 + 2)..(0 + 11) : i \in 2..11
    OBVIOUS
  <2> QED
    BY <1>1, <2>1, <2>2, AddDescGives
<1>3. CASE r = "staticAfterUse"
  <2>1. AddDescAt(Program[r], 1) /\ Block(r) = 3..12
    BY <1>3, AddDescPlaces, Blocks
  <2>2. \A i \in (1 + 2)..(1 + 11) : i \in 3..12
    OBVIOUS
  <2> QED
    BY <1>1, <2>1, <2>2, AddDescGives
<1> QED
  BY <1>2, <1>3

LEMMA FinishedIs ==
    ASSUME NEW o
    PROVE  Finished(o) <=> \A i \in 1..Len(Program[o]) : Done(o, i)
BY DEF Finished, Done

LEMMA AssignGives ==
    ASSUME Finished("assign")
    PROVE  /\ BlockDone /\ made["file"] > 0 /\ made["descriptor"] > 0
<1>1. \A i \in 1..19 : Done("assign", i)
  BY FinishedIs, Lengths
<1>2. \A i \in 2..11 : i \in 1..19
  OBVIOUS
<1>3. BlockDone
  BY <1>1, <1>2, PastBlock, Blocks
<1>4. Done("assign", 15) /\ Done("assign", 19)
  BY <1>1
<1>5. \A op, x : I(op, x).op = op /\ I(op, x).arg = x
  BY DEF I
<1> QED
  BY <1>3, <1>4, <1>5, AssignCode DEF Done

(* A block that is left out has nothing left to do.                        *)
LEMMA SkipDone ==
    ASSUME TypeInv, FactInv, NEW t \in Threads, stack[t] # <<>>, ~AtEnd(Top(t)),
           Instruction(Top(t)).op = "unless", made[Arg(t)] # 0
    PROVE  \A i \in Top(t).pc..(Top(t).pc + Instruction(Top(t)).skip) : Done(Top(t).of, i)
<1> DEFINE r == Top(t).of
           p == Top(t).pc
           n == Instruction(Top(t)).skip
<1>1. /\ r \in DOMAIN Program /\ p \in 1..Len(Program[r]) /\ Program[r][p].op = "unless"
      /\ Arg(t) = Program[r][p].arg /\ n = Program[r][p].skip /\ Arg(t) \in Things
  BY TopFacts, InstructionFacts DEF Instruction, Arg
<1>2. made[Arg(t)] > 0
  BY <1>1 DEF TypeInv
<1>3. Passed(Top(t)) /\ Len(stack[t]) \in 1..Len(stack[t]) /\ Top(t) = stack[t][Len(stack[t])]
  BY TopFacts DEF FactInv
<1>4. Done(r, p)
  BY <1>1 DEF Done
<1> HIDE DEF n
<1>5. ASSUME UnlessAt(r, p, "alreadyHere", 10), Block(r) = (p + 1)..(p + 10),
             r = "newByName" \/ NearBlock(Top(t))
      PROVE  \A i \in p..(p + n) : Done(r, i)
  <2>1. BlockDone
    <3>1. SUFFICES ASSUME ~BlockDone PROVE FALSE
      OBVIOUS
    <3>2. Starting
      BY <3>1 DEF FactInv
    <3>3. t = Main /\ r # "newByName"
      BY <1>3, <3>2, AfterStart DEF Requests
    <3>4. PICK k \in 1..Len(stack[Main]) : InBlock(stack[Main][k])
      BY <1>1, <1>2, <1>5, <3>1 DEF FactInv, UnlessAt
    <3>5. k = Len(stack[Main])
      <4>1. Stands(stack[Main])
        BY MainAssumption DEF TypeInv
      <4>2. NearBlock(stack[Main][k]) /\ NearBlock(stack[Main][Len(stack[Main])])
        BY <1>3, <1>5, <3>3, <3>4 DEF NearBlock
      <4> QED
        BY <1>3, <3>3, <3>4, <4>1, <4>2, OneBlock
    <3>6. p \in Block(r)
      BY <1>3, <3>3, <3>4, <3>5 DEF InBlock
    <3> QED
      BY <1>1, <3>6, BlockFacts
  <2>2. n = 10 /\ \A i \in p..(p + 10) : i = p \/ i \in (p + 1)..(p + 10)
    BY <1>1, <1>5 DEF UnlessAt
  <2> QED
    BY <1>1, <1>4, <1>5, <2>1, <2>2, BlockGives
<1>6. ASSUME UnlessAt(r, p, "file", 1), Program[r][p + 1] = I("make", "file")
      PROVE  \A i \in p..(p + n) : Done(r, i)
  <2>1. made["file"] > 0 /\ n = 1
    BY <1>1, <1>2, <1>6 DEF UnlessAt
  <2>2. Done(r, p + 1)
    BY <1>6, <2>1 DEF Done, I
  <2>3. \A i \in p..(p + 1) : i = p \/ i = p + 1
    BY <1>1
  <2> QED
    BY <1>4, <2>1, <2>2, <2>3
<1>7. ASSUME Finished("assign")
      PROVE  /\ \A i \in 16..25 : Done("newByName", i)
             /\ \A i \in {8, 9, 11, 12, 14, 15} : Done("newByName", i)
             /\ \A i \in {10, 26} : Done("newByName", i)
  <2>1. BlockDone
    BY <1>7, AssignGives
  <2>2. \A i \in 16..25 : Done("newByName", i)
    BY <2>1, BlockGives, Blocks, RankFacts DEF Requests
  <2>3. \A op, x : I(op, x).op = op /\ I(op, x).arg = x
    BY DEF I
  <2>4. \A x, m : U(x, m).op = "unless"
    BY DEF U
  <2>5. Program["newByName"][14 + 1] = U("alreadyHere", 10)
    BY AddDescPlaces DEF AddDescAt
  <2>6. \A i \in {8, 9, 11, 12, 14, 15} : Done("newByName", i)
    <3>1. /\ Program["newByName"][8].op = "unless" /\ Program["newByName"][9].op = "unlock"
          /\ Program["newByName"][11].op = "lock" /\ Program["newByName"][12].op = "unless"
          /\ Program["newByName"][14].op = "unless"
      BY <2>3, <2>4, NewByNameCode
    <3>2. Program["newByName"][15].op = "unless"
      BY <2>4, <2>5
    <3>3. "unless" \notin {"once", "make"} /\ "lock" \notin {"once", "make"}
          /\ "unlock" \notin {"once", "make"}
      OBVIOUS
    <3>4. \A i \in {8, 9, 11, 12, 14, 15} : Program["newByName"][i].op \notin {"once", "make"}
      BY <3>1, <3>2, <3>3
    <3> QED
      BY <3>4 DEF Done
  <2>7. once["pool"] = "DONE" /\ once["factory"] = "DONE"
    BY <2>1 DEF BlockDone, BlockOnces
  <2>8. \A i \in {10, 26} : Done("newByName", i)
    BY <2>3, <2>7, NewByNameCode DEF Done
  <2> QED
    BY <2>2, <2>6, <2>8
<1>8. ASSUME r = "newByName", p \in {8, 12}, UnlessAt(r, p, "type", 27 - p)
      PROVE  \A i \in p..(p + n) : Done(r, i)
  <2>1. made["type"] > 0 /\ n = 27 - p
    BY <1>1, <1>2, <1>8 DEF UnlessAt
  <2>2. once["assign"] = "DONE" /\ Finished("assign")
    BY <2>1 DEF FactInv, Onces
  <2>3. \A op, x : I(op, x).op = op /\ I(op, x).arg = x
    BY DEF I
  <2>4. Done("newByName", 13) /\ Done("newByName", 27)
    BY <2>1, <2>2, <2>3, NewByNameCode DEF Done
  <2>5. \A i \in 8..27 : i \in 16..25 \/ i \in {8, 9, 11, 12, 14, 15} \/ i \in {10, 26} \/ i = 13
                         \/ i = 27
    OBVIOUS
  <2>6. \A i \in 8..27 : Done("newByName", i)
    BY <1>7, <2>2, <2>4, <2>5
  <2>7. \A i \in p..(p + n) : i \in 8..27
    BY <1>8, <2>1
  <2> QED
    BY <1>8, <2>6, <2>7
<1>9. ASSUME r = "newByName", p = 14, UnlessAt(r, p, "defaultInstance", 11)
      PROVE  \A i \in p..(p + n) : Done(r, i)
  <2>1. n = 11
    BY <1>1, <1>9 DEF UnlessAt
  <2>2. 13 \in 1..(Top(t).pc - 1)
    BY <1>9
  <2>3. Done("newByName", 13)
    BY <1>3, <1>9, <2>2 DEF Passed
  <2>4. once["assign"] = "DONE"
    BY <2>3, NewByNameCode DEF Done, I
  <2>5. Finished("assign")
    BY <2>4 DEF FactInv, Onces
  <2>6. \A i \in 14..25 : i \in 16..25 \/ i \in {8, 9, 11, 12, 14, 15}
    OBVIOUS
  <2>7. \A i \in 14..25 : Done("newByName", i)
    BY <1>7, <2>5, <2>6
  <2>8. \A i \in p..(p + n) : i \in 14..25
    BY <1>9, <2>1
  <2> QED
    BY <1>9, <2>7, <2>8
<1>10. \/ r \in {"assign", "static"} /\ p = 1 /\ UnlessAt(r, p, "alreadyHere", 10)
       \/ r = "staticAfterUse" /\ p = 2 /\ UnlessAt(r, p, "alreadyHere", 10)
       \/ r = "newByName" /\ p = 15 /\ UnlessAt(r, p, "alreadyHere", 10)
       \/ r = "assign" /\ p = 14 /\ UnlessAt(r, p, "file", 1)
       \/ r = "newByName" /\ p = 3 /\ UnlessAt(r, p, "file", 1)
       \/ r = "newByName" /\ p = 8 /\ UnlessAt(r, p, "type", 19)
       \/ r = "newByName" /\ p = 12 /\ UnlessAt(r, p, "type", 15)
       \/ r = "newByName" /\ p = 14 /\ UnlessAt(r, p, "defaultInstance", 11)
  BY <1>1, UnlessFacts
<1>11. CASE r \in {"assign", "static"} /\ p = 1 /\ UnlessAt(r, p, "alreadyHere", 10)
  <2>1. Block(r) = (p + 1)..(p + 10) /\ NearBlock(Top(t))
    BY <1>11, Blocks DEF NearBlock
  <2> QED
    BY <1>5, <1>11, <2>1 DEF n
<1>12. CASE r = "staticAfterUse" /\ p = 2 /\ UnlessAt(r, p, "alreadyHere", 10)
  <2>1. Block(r) = (p + 1)..(p + 10) /\ NearBlock(Top(t))
    BY <1>12, Blocks DEF NearBlock
  <2> QED
    BY <1>5, <1>12, <2>1 DEF n
<1>13. CASE r = "newByName" /\ p = 15 /\ UnlessAt(r, p, "alreadyHere", 10)
  <2>1. Block(r) = (p + 1)..(p + 10)
    BY <1>13, Blocks
  <2> QED
    BY <1>5, <1>13, <2>1 DEF n
<1>14. CASE r = "assign" /\ p = 14 /\ UnlessAt(r, p, "file", 1)
  <2>1. Program[r][p + 1] = I("make", "file")
    BY <1>14, AssignCode
  <2> QED
    BY <1>6, <1>14, <2>1 DEF n
<1>15. CASE r = "newByName" /\ p = 3 /\ UnlessAt(r, p, "file", 1)
  <2>1. Program[r][p + 1] = I("make", "file")
    BY <1>15, NewByNameCode
  <2> QED
    BY <1>6, <1>15, <2>1 DEF n
<1>16. CASE r = "newByName" /\ p = 8 /\ UnlessAt(r, p, "type", 19)
  <2>1. UnlessAt(r, p, "type", 27 - p)
    BY <1>16
  <2> QED
    BY <1>8, <1>16, <2>1 DEF n
<1>17. CASE r = "newByName" /\ p = 12 /\ UnlessAt(r, p, "type", 15)
  <2>1. UnlessAt(r, p, "type", 27 - p)
    BY <1>17
  <2> QED
    BY <1>8, <1>17, <2>1 DEF n
<1>18. CASE r = "newByName" /\ p = 14 /\ UnlessAt(r, p, "defaultInstance", 11)
  BY <1>9, <1>18 DEF n
<1> QED
  BY <1>10, <1>11, <1>12, <1>13, <1>14, <1>15, <1>16, <1>17, <1>18

LEMMA FactInit == Init => FactInv
<1> SUFFICES ASSUME Init PROVE FactInv
  OBVIOUS
<1>1. PICK r \in Statics :
        stack = [t \in Threads |-> IF t = Main THEN <<Frame(r)>> ELSE <<>>]
  BY DEF Init
<1>2. \A t \in Threads : stack[t] = IF t = Main THEN <<Frame(r)>> ELSE <<>>
  BY <1>1
<1>3. /\ \A o \in Onces : once[o] = "UNINITIALIZED"
      /\ \A x \in Things : made[x] = 0
  BY DEF Init
<1>4. \A t \in Threads : \A k \in 1..Len(stack[t]) : stack[t][k].pc = 1
  <2>1. <<Frame(r)>>[1].pc = 1 /\ Len(<<Frame(r)>>) = 1 /\ Len(<<>>) = 0
    BY DEF Frame
  <2> QED
    BY <1>2, <2>1
<1>5. \A t \in Threads : \A k \in 1..Len(stack[t]) : Passed(stack[t][k])
  <2> SUFFICES ASSUME NEW t \in Threads, NEW k \in 1..Len(stack[t]) PROVE Passed(stack[t][k])
    OBVIOUS
  <2>1. stack[t][k].pc - 1 = 0
    BY <1>4
  <2> QED
    BY <2>1 DEF Passed
<1>6. \A t \in Threads : stack[t] # <<>> => Top(t).at # "store"
  BY <1>2 DEF Top, Frame
<1>7. "type" \in Things /\ "alreadyHere" \in Things
  BY DEF Things
<1>8. Starting
  BY <1>2, MainAssumption DEF Starting, Frame
<1>9. \A t \in Threads : t # Main => stack[t] = <<>>
  BY <1>2
<1> QED
  BY <1>3, <1>5, <1>6, <1>7, <1>8, <1>9 DEF FactInv

(* What is done stays done.                                                *)
LEMMA DoneGrows ==
    ASSUME Grows, NEW r \in DOMAIN Program, NEW i \in 1..Len(Program[r]), Done(r, i)
    PROVE  DoneAfter(r, i)
<1>1. WellFormed(Program[r], r)
  BY ProgramFacts
<1>2. /\ Program[r][i].op = "once" => Program[r][i].arg \in Onces
      /\ Program[r][i].op = "make" => Program[r][i].arg \in Things
  BY <1>1 DEF WellFormed
<1> QED
  BY <1>2 DEF Done, DoneAfter, Grows

LEMMA FinishedGrows ==
    ASSUME Grows, NEW o \in DOMAIN Program, Finished(o)
    PROVE  \A i \in 1..Len(Program[o]) : DoneAfter(o, i)
BY FinishedIs, DoneGrows

LEMMA BlockDoneGrows ==
    ASSUME Grows, BlockDone
    PROVE  BlockDone'
<1>1. BlockThings \subseteq Things /\ BlockOnces \subseteq Onces
  BY DEF BlockThings, BlockOnces, Things, Onces
<1> QED
  BY <1>1 DEF BlockDone, Grows

(* Whoever goes on has done what it goes past.                             *)
LEMMA GoesOnPassed ==
    ASSUME TypeInv, FactInv, NEW t \in Threads, Grows, NEW f, GoesOn(t, f)
    PROVE  \A i \in 1..(f.pc - 1) : DoneAfter(f.of, i)
<1> DEFINE r == Top(t).of
           p == Top(t).pc
           n == Instruction(Top(t)).skip
<1>1. /\ stack[t] # <<>> /\ ~AtEnd(Top(t)) /\ f.of = r
  BY DEF GoesOn
<1>2. /\ r \in DOMAIN Program /\ p \in 1..Len(Program[r]) /\ Len(Program[r]) \in Nat
      /\ Instruction(Top(t)).op = "unless" => n \in Nat /\ p + n <= Len(Program[r])
  BY <1>1, TopFacts, InstructionFacts
<1>3. \A i \in 1..(p - 1) : Done(r, i) /\ i \in 1..Len(Program[r])
  <2>1. Passed(Top(t))
    BY <1>1, TopFacts DEF FactInv
  <2>2. \A i \in 1..(p - 1) : Done(r, i)
    BY <2>1 DEF Passed
  <2> HIDE DEF r, p
  <2>3. \A i \in 1..(p - 1) : i \in 1..Len(Program[r])
    BY <1>2
  <2> QED
    BY <2>2, <2>3
<1>4. \A i \in 1..(p - 1) : DoneAfter(r, i)
  BY <1>2, <1>3, DoneGrows
<1>5. CASE f.pc = p + 1 /\ DoneAfter(r, p)
  <2>1. \A i \in 1..p : i = p \/ i \in 1..(p - 1)
    BY <1>2
  <2>2. f.pc - 1 = p
    BY <1>2, <1>5
  <2> QED
    BY <1>1, <1>4, <1>5, <2>1, <2>2
<1>6. CASE /\ Instruction(Top(t)).op = "unless" /\ made[Arg(t)] # 0
           /\ f.pc = p + (n + 1)
  <2>1. \A i \in p..(p + n) : Done(r, i)
    BY <1>1, <1>6, SkipDone
  <2>2. n \in Nat /\ p + n <= Len(Program[r])
    BY <1>2, <1>6
  <2>3. f.pc - 1 = p + n
    <3>1. f.pc = p + (n + 1)
      BY <1>6
    <3> HIDE DEF p, n
    <3> QED
      BY <1>2, <2>2, <3>1
  <2> HIDE DEF p, n, r
  <2>4. \A i \in 1..(p + n) : i \in 1..(p - 1) \/ (i \in p..(p + n) /\ i \in 1..Len(Program[r]))
    BY <1>2, <2>2
  <2>5. \A i \in p..(p + n) : i \in 1..Len(Program[r]) => DoneAfter(r, i)
    BY <1>2, <2>1, DoneGrows
  <2> QED
    BY <1>1, <1>4, <2>3, <2>4, <2>5
<1> QED
  BY <1>5, <1>6 DEF GoesOn

LEMMA PassedFollows ==
    ASSUME TypeInv, FactInv, NEW t \in Threads, Origins(t), Grows
    PROVE  \A u \in Threads : \A k \in 1..Len(stack'[u]) :
              \A i \in 1..(stack'[u][k].pc - 1) : DoneAfter(stack'[u][k].of, i)
<1> SUFFICES ASSUME NEW u \in Threads, NEW k \in 1..Len(stack'[u])
             PROVE  \A i \in 1..(stack'[u][k].pc - 1) : DoneAfter(stack'[u][k].of, i)
  OBVIOUS
<1>1. CASE k \in 1..Len(stack[u]) /\ stack'[u][k].of = stack[u][k].of
           /\ stack'[u][k].pc = stack[u][k].pc
  <2> DEFINE f == stack[u][k]
  <2>1. /\ f \in Frames /\ f.pc <= Len(Program[f.of]) + 1
    BY <1>1, ElementOfSeq DEF TypeInv, Stands
  <2>2. f.pc \in Nat \ {0} /\ f.of \in DOMAIN Program /\ Len(Program[f.of]) \in Nat
    BY <2>1, ProgramFacts, LenProperties DEF Frames
  <2>3. \A i \in 1..(f.pc - 1) : Done(f.of, i)
    BY <1>1 DEF FactInv, Passed
  <2>4. stack'[u][k].of = f.of /\ stack'[u][k].pc = f.pc
    BY <1>1
  <2> HIDE DEF f
  <2>5. \A i \in 1..(f.pc - 1) : i \in 1..Len(Program[f.of])
    BY <2>1, <2>2
  <2> QED
    BY <2>2, <2>3, <2>4, <2>5, DoneGrows
<1>2. CASE stack'[u][k].pc = 1
  <2>1. stack'[u][k].pc - 1 = 0
    BY <1>2
  <2> QED
    BY <2>1
<1>3. CASE GoesOn(t, stack'[u][k])
  BY <1>3, GoesOnPassed
<1> QED
  BY <1>1, <1>2, <1>3 DEF Origins

-----------------------------------------------------------------------------
(* Everything that is made, and where.                                     *)
LEMMA NotMake ==
    /\ \A j \in {1, 12, 13, 14, 16, 17, 18} : Program["assign"][j].op # "make"
    /\ \A j \in {1, 2, 3, 5, 6, 7, 8, 9, 10, 11, 12, 13, 14, 15, 26, 28} :
         Program["newByName"][j].op # "make"
    /\ Program["static"][1].op # "make"
    /\ \A j \in {1, 2} : Program["staticAfterUse"][j].op # "make"
    /\ Program["metadata"][1].op # "make"
<1>1. \A op, x : I(op, x).op = op
  BY DEF I
<1>2. \A x, n : U(x, n).op = "unless"
  BY DEF U
<1>3. /\ Program["assign"][0 + 1] = U("alreadyHere", 10)
      /\ Program["static"][0 + 1] = U("alreadyHere", 10)
      /\ Program["staticAfterUse"][1 + 1] = U("alreadyHere", 10)
      /\ Program["newByName"][14 + 1] = U("alreadyHere", 10)
  BY AddDescPlaces DEF AddDescAt
<1>4. /\ Program["assign"][1].op = "unless" /\ Program["static"][1].op = "unless"
      /\ Program["staticAfterUse"][2].op = "unless" /\ Program["newByName"][15].op = "unless"
  BY <1>2, <1>3
<1>5. \A j \in {12, 13, 14, 16, 17, 18} : Program["assign"][j].op # "make"
  BY <1>1, <1>2, AssignCode
<1>6. \A j \in {1, 2, 3, 5, 6, 7} : Program["newByName"][j].op # "make"
  BY <1>1, <1>2, NewByNameCode
<1>7. \A j \in {8, 9, 10, 11, 12} : Program["newByName"][j].op # "make"
  BY <1>1, <1>2, NewByNameCode
<1>8. \A j \in {13, 14, 26, 28} : Program["newByName"][j].op # "make"
  BY <1>1, <1>2, NewByNameCode
<1>9. Program["staticAfterUse"][1].op # "make" /\ Program["metadata"][1].op # "make"
  BY <1>1, ShortCode
<1>10. \A j \in {1, 2, 3, 5, 6, 7, 8, 9, 10, 11, 12, 13, 14, 15, 26, 28} :
         j \in {1, 2, 3, 5, 6, 7} \/ j \in {8, 9, 10, 11, 12} \/ j \in {13, 14, 26, 28} \/ j = 15
  OBVIOUS
<1>11. \A j \in {1, 2, 3, 5, 6, 7, 8, 9, 10, 11, 12, 13, 14, 15, 26, 28} :
         Program["newByName"][j].op # "make"
  BY <1>4, <1>6, <1>7, <1>8, <1>10
<1>12. \A j \in {1, 12, 13, 14, 16, 17, 18} : Program["assign"][j].op # "make"
  BY <1>4, <1>5
<1>13. /\ Program["static"][1].op # "make"
       /\ \A j \in {1, 2} : Program["staticAfterUse"][j].op # "make"
  BY <1>4, <1>9
<1> QED
  BY <1>9, <1>11, <1>12, <1>13

LEMMA MakeFacts ==
    ASSUME NEW r \in DOMAIN Program, NEW i \in 1..Len(Program[r]), Program[r][i].op = "make"
    PROVE  \/ r = "shutdown" /\ i = 1 /\ Program[r][i].arg = "shutdown"
           \/ r = "pool" /\ i = 1 /\ Program[r][i].arg = "pool"
           \/ r = "pool" /\ i = 4 /\ Program[r][i].arg = "poolCleanup"
           \/ r = "factory" /\ i = 1 /\ Program[r][i].arg = "factory"
           \/ r = "factory" /\ i = 4 /\ Program[r][i].arg = "factoryCleanup"
           \/ r = "assign" /\ i = 15 /\ Program[r][i].arg = "file"
           \/ r = "assign" /\ i = 19 /\ Program[r][i].arg = "descriptor"
           \/ r = "newByName" /\ i = 4 /\ Program[r][i].arg = "file"
           \/ r = "newByName" /\ i = 27 /\ Program[r][i].arg = "type"
           \/ r \in {"assign", "static", "staticAfterUse", "newByName"} /\ i \in Block(r)
<1>1. \/ r = "assign" \/ r = "static" \/ r = "staticAfterUse" \/ r = "newByName"
      \/ r = "shutdown" \/ r = "pool" \/ r = "factory" \/ r = "metadata"
  BY RankFacts DEF Onces, Statics, Requests
<1>2. \A op, x : I(op, x).op = op /\ I(op, x).arg = x
  BY DEF I
<1>3. CASE r = "assign"
  <2>1. \A j \in 1..19 : j = 1 \/ j \in 2..11 \/ j = 12 \/ j = 13 \/ j = 14 \/ j = 15 \/ j = 16
                         \/ j = 17 \/ j = 18 \/ j = 19
    OBVIOUS
  <2>2. i \in 1..19 /\ Block(r) = 2..11
    BY <1>3, Lengths, Blocks
  <2>3. i \notin {1, 12, 13, 14, 16, 17, 18}
    BY <1>3, NotMake
  <2>4. i = 15 \/ i = 19 \/ i \in 2..11
    BY <2>1, <2>2, <2>3
  <2>5. Program["assign"][15].arg = "file" /\ Program["assign"][19].arg = "descriptor"
    BY <1>2, AssignCode
  <2> QED
    BY <1>3, <2>2, <2>4, <2>5
<1>4. CASE r = "static"
  <2>1. \A j \in 1..11 : j = 1 \/ j \in 2..11
    OBVIOUS
  <2>2. i \in 1..11 /\ Block(r) = 2..11 /\ i # 1
    BY <1>4, Lengths, Blocks, NotMake
  <2> QED
    BY <1>4, <2>1, <2>2
<1>5. CASE r = "staticAfterUse"
  <2>1. \A j \in 1..12 : j = 1 \/ j = 2 \/ j \in 3..12
    OBVIOUS
  <2>2. i \in 1..12 /\ Block(r) = 3..12 /\ i \notin {1, 2}
    BY <1>5, Lengths, Blocks, NotMake
  <2> QED
    BY <1>5, <2>1, <2>2
<1>6. CASE r = "newByName"
  <2>1. \A j \in 1..28 : \/ j = 1 \/ j = 2 \/ j = 3 \/ j = 4 \/ j = 5 \/ j = 6 \/ j = 7 \/ j = 8
                         \/ j = 9 \/ j = 10 \/ j = 11 \/ j = 12 \/ j = 13 \/ j = 14 \/ j = 15
                         \/ j \in 16..25 \/ j = 26 \/ j = 27 \/ j = 28
    OBVIOUS
  <2>2. i \in 1..28 /\ Block(r) = 16..25
    BY <1>6, Lengths, Blocks
  <2>3. i \notin {1, 2, 3, 5, 6, 7, 8, 9, 10, 11, 12, 13, 14, 15, 26, 28}
    BY <1>6, NotMake
  <2>4. i = 4 \/ i = 27 \/ i \in 16..25
    BY <2>1, <2>2, <2>3
  <2>5. Program["newByName"][4].arg = "file" /\ Program["newByName"][27].arg = "type"
    BY <1>2, NewByNameCode
  <2> QED
    BY <1>6, <2>2, <2>4, <2>5
<1>7. CASE r \in {"shutdown", "metadata"}
  <2>1. Len(Program[r]) = 1
    BY <1>7, Lengths
  <2>2. i = 1
    BY <2>1
  <2>3. Program["shutdown"][1].arg = "shutdown"
    BY <1>2, ShortCode
  <2> QED
    BY <1>7, <2>2, <2>3, NotMake
<1>8. CASE r \in {"pool", "factory"}
  <2>1. \A j \in 1..5 : j = 1 \/ j = 2 \/ j = 3 \/ j = 4 \/ j = 5
    OBVIOUS
  <2>2. Len(Program[r]) = 5
    BY <1>8, Lengths
  <2>3. i = 1 \/ i = 2 \/ i = 3 \/ i = 4 \/ i = 5
    BY <2>1, <2>2
  <2>4. \A j \in {2, 3, 5} : /\ Program["pool"][j].op # "make"
                             /\ Program["factory"][j].op # "make"
    BY <1>2, ShortCode
  <2>5. /\ Program["pool"][1].arg = "pool" /\ Program["pool"][4].arg = "poolCleanup"
        /\ Program["factory"][1].arg = "factory" /\ Program["factory"][4].arg = "factoryCleanup"
    BY <1>2, ShortCode
  <2> QED
    BY <1>8, <2>3, <2>4, <2>5
<1> QED
  BY <1>1, <1>3, <1>4, <1>5, <1>6, <1>7, <1>8

(* Where something new is done or made, and where the threads stand.       *)
LEMMA StepNews ==
    ASSUME TypeInv, NEW t \in Threads, Step(t)
    PROVE  /\ stack[t] # <<>> /\ \A u \in Threads : u # t => stack'[u] = stack[u]
           /\ \A o \in Onces : once'[o] = "DONE" =>
                \/ once[o] = "DONE"
                \/ Top(t).at = "store" /\ Arg(t) = o
           /\ \A x \in Things : made'[x] = made[x] \/
                /\ ~AtEnd(Top(t)) /\ Program[Top(t).of][Top(t).pc].op = "make"
                /\ Program[Top(t).of][Top(t).pc].arg = x /\ made'[x] = made[x] + 1
<1>0. /\ once \in [Onces -> {"UNINITIALIZED", "EXECUTING_CLOSURE", "DONE"}]
      /\ made \in [Things -> Nat] /\ stack \in [Threads -> Seq(Frames)]
  BY DEF TypeInv
<1>1. stack[t] # <<>>
  BY DEF Step, Load, Swap, Wait, Return, Store, Acquire, Release, MakeThing, Decide, Before
<1>2. \E s : stack' = [stack EXCEPT ![t] = s]
  <2>1. \A f : SetTop(t, f) => \E s : stack' = [stack EXCEPT ![t] = s]
    BY DEF SetTop
  <2>2. \A n : Onwards(t, n) => \E s : stack' = [stack EXCEPT ![t] = s]
    BY <2>1 DEF Onwards
  <2>3. \A at : Stage(t, at) => \E s : stack' = [stack EXCEPT ![t] = s]
    BY <2>1 DEF Stage
  <2>4. CASE Load(t)
    BY <2>2, <2>3, <2>4 DEF Load
  <2>5. CASE Swap(t)
    <3>1. once[Arg(t)] \in {"UNINITIALIZED", "EXECUTING_CLOSURE", "DONE"}
      BY <1>0, <2>5, BeforeFacts DEF Swap
    <3> QED
      BY <2>2, <2>3, <2>5, <3>1 DEF Swap
  <2>6. CASE Return(t)
    BY <2>6 DEF Return
  <2>7. CASE Wait(t) \/ Store(t) \/ Acquire(t) \/ Release(t) \/ MakeThing(t) \/ Decide(t)
    BY <2>2, <2>7 DEF Wait, Store, Acquire, Release, MakeThing, Decide
  <2> QED
    BY <2>4, <2>5, <2>6, <2>7 DEF Step
<1>3. \A u \in Threads : u # t => stack'[u] = stack[u]
  BY <1>0, <1>2
<1>4. CASE Store(t)
  <2>1. /\ Top(t).at = "store" /\ Arg(t) \in Onces /\ made' = made
        /\ once' = [once EXCEPT ![Arg(t)] = "DONE"]
    BY <1>4, BeforeFacts DEF Store
  <2> QED
    BY <1>0, <1>1, <1>3, <2>1
<1>5. CASE Swap(t)
  <2>1. Arg(t) \in Onces /\ made' = made
    BY <1>5, BeforeFacts DEF Swap
  <2>2. once[Arg(t)] \in {"UNINITIALIZED", "EXECUTING_CLOSURE", "DONE"}
    BY <1>0, <2>1
  <2>3. once' = once \/ once' = [once EXCEPT ![Arg(t)] = "EXECUTING_CLOSURE"]
    BY <1>5, <2>2 DEF Swap
  <2> QED
    BY <1>0, <1>1, <1>3, <2>1, <2>3
<1>6. CASE MakeThing(t)
  <2>1. /\ Before(t, "make", "start") /\ Arg(t) \in Things /\ once' = once
        /\ made' = [made EXCEPT ![Arg(t)] = @ + 1]
    BY <1>6, BeforeFacts DEF MakeThing
  <2>2. /\ ~AtEnd(Top(t)) /\ Program[Top(t).of][Top(t).pc].op = "make"
        /\ Program[Top(t).of][Top(t).pc].arg = Arg(t)
    BY <2>1 DEF Before, Instruction, Arg
  <2>3. \A x \in Things : made'[x] = IF x = Arg(t) THEN made[x] + 1 ELSE made[x]
    BY <1>0, <2>1
  <2> QED
    BY <1>1, <1>3, <2>1, <2>2, <2>3
<1>7. CASE Load(t) \/ Wait(t) \/ Return(t) \/ Acquire(t) \/ Release(t) \/ Decide(t)
  <2>1. once' = once /\ made' = made
    BY <1>7 DEF Load, Wait, Return, Acquire, Release, Decide
  <2> QED
    BY <1>1, <1>3, <2>1
<1> QED
  BY <1>4, <1>5, <1>6, <1>7 DEF Step

-----------------------------------------------------------------------------
(* The facts hold after every step.                                        *)
LEMMA PassedPrimed ==
    ASSUME TypeInv, FactInv, NEW t \in Threads, Origins(t), Grows
    PROVE  (\A u \in Threads : \A k \in 1..Len(stack[u]) : Passed(stack[u][k]))'
<1>1. \A u \in Threads : \A k \in 1..Len(stack'[u]) :
         \A i \in 1..(stack'[u][k].pc - 1) : DoneAfter(stack'[u][k].of, i)
  BY PassedFollows
<1> QED
  BY <1>1 DEF Passed, Done, DoneAfter

LEMMA FinishedPrimed ==
    ASSUME Grows, NEW o \in DOMAIN Program, Finished(o)
    PROVE  Finished(o)'
<1>1. \A i \in 1..Len(Program[o]) : DoneAfter(o, i)
  BY FinishedGrows
<1> QED
  BY <1>1 DEF Finished, DoneAfter

LEMMA PastBlockAfter ==
    \A r \in {"static", "assign", "staticAfterUse"} :
        (\A i \in Block(r) : DoneAfter(r, i)) => BlockDone'
<1> DEFINE Fact == \A r \in {"static", "assign", "staticAfterUse"} :
                       (\A i \in Block(r) : Done(r, i)) => BlockDone
<1>1. Fact
  BY PastBlock
<1>2. Fact'
  BY <1>1, PTL
<1> QED
  BY <1>2 DEF Done, DoneAfter

(* The frame in the block stays in it or gets past it.                     *)
LEMMA BlockGoesOn ==
    ASSUME TypeInv, FactInv, NEW t \in Threads, Origins(t), Persists(t), Grows,
           NEW k \in 1..Len(stack[Main]), InBlock(stack[Main][k])
    PROVE  BlockDone' \/ \E j \in 1..Len(stack'[Main]) : InBlock(stack'[Main][j])
<1> DEFINE f == stack[Main][k]
           g == stack'[Main][k]
<1>1. /\ f.of \in {"static", "assign", "staticAfterUse"} /\ f.pc \in Block(f.of)
      /\ f.of \in DOMAIN Program
  BY RankFacts DEF InBlock, Onces, Statics
<1>2. f.pc \in 1..Len(Program[f.of]) /\ Program[f.of][f.pc].op # "unless"
  BY <1>1, BlockFacts
<1>3. ~AtEnd(f)
  BY <1>2, ProgramFacts, LenProperties DEF AtEnd
<1>4. CASE k \in 1..Len(stack'[Main]) /\ g.of = f.of /\ g.pc = f.pc
  BY <1>1, <1>4 DEF InBlock
<1>5. CASE /\ Main = t /\ k = Len(stack[t]) /\ k \in 1..Len(stack'[t]) /\ GoesOn(t, g)
  <2>1. f = Top(t) /\ stack[t] # <<>>
    BY <1>5 DEF Top, GoesOn
  <2>2. g.of = f.of /\ g.pc = f.pc + 1
    BY <1>2, <1>5, <2>1 DEF GoesOn, Instruction
  <2>3. CASE f.pc + 1 \in Block(f.of)
    BY <1>1, <1>5, <2>2, <2>3 DEF InBlock
  <2>4. CASE f.pc + 1 \notin Block(f.of)
    <3>1. \A i \in 1..(g.pc - 1) : DoneAfter(f.of, i)
      BY <1>5, <2>2, GoesOnPassed
    <3>2. \A i \in Block(f.of) : i \in 1..(g.pc - 1)
      <4>1. Block(f.of) = 2..11 \/ Block(f.of) = 3..12
        BY <1>1, Blocks
      <4> HIDE DEF f, g
      <4>2. f.pc \in Block(f.of) /\ f.pc + 1 \notin Block(f.of)
        BY <1>1, <2>4
      <4>3. CASE Block(f.of) = 2..11
        <5>1. f.pc = 11 /\ g.pc = 12
          BY <2>2, <4>2, <4>3
        <5> QED
          BY <4>3, <5>1
      <4>4. CASE Block(f.of) = 3..12
        <5>1. f.pc = 12 /\ g.pc = 13
          BY <2>2, <4>2, <4>4
        <5> QED
          BY <4>4, <5>1
      <4> QED
        BY <4>1, <4>3, <4>4
    <3>3. \A i \in Block(f.of) : DoneAfter(f.of, i)
      BY <3>1, <3>2
    <3> QED
      BY <1>1, <3>3, PastBlockAfter
  <2> QED
    BY <2>3, <2>4
<1>6. \/ k \in 1..Len(stack'[Main]) /\ g.of = f.of /\ g.pc = f.pc
      \/ Main = t /\ k = Len(stack[t]) /\ k \in 1..Len(stack'[t]) /\ GoesOn(t, g)
  BY <1>3, MainAssumption DEF Persists
<1> QED
  BY <1>4, <1>5, <1>6

LEMMA StartingFollows ==
    ASSUME TypeInv, NEW t \in Threads, Origins(t), stack' \in [Threads -> Seq(Frames)], Starting'
    PROVE  Starting
<1>1. stack'[Main] # <<>> /\ stack'[Main][1].of \in Statics
  BY DEF Starting
<1>2. stack'[Main] \in Seq(Frames) /\ stack[Main] \in Seq(Frames)
  BY MainAssumption DEF TypeInv
<1>3. 1 \in 1..Len(stack'[Main])
  BY <1>1, <1>2, EmptySeq, LenProperties
<1>4. ~Begins(stack'[Main][1].of)
  BY <1>1 DEF Statics, Onces, Requests, Begins
<1>5. CASE 1 \in 1..Len(stack[Main]) /\ stack'[Main][1].of = stack[Main][1].of
  BY <1>1, <1>2, <1>5, EmptySeq DEF Starting
<1>6. CASE Main = t /\ 1 = Len(stack[t]) /\ GoesOn(t, stack'[Main][1])
  <2>1. stack[t] # <<>> /\ stack'[Main][1].of = stack[t][1].of
    BY <1>6 DEF GoesOn, Top
  <2> QED
    BY <1>1, <1>6, <2>1 DEF Starting
<1> QED
  BY <1>3, <1>4, <1>5, <1>6, MainAssumption DEF Origins

(* The static initialisers go on, or have run the block.                   *)
LEMMA StartingEnds ==
    ASSUME TypeInv, FactInv, NEW t \in Threads, Persists(t), Grows,
           stack' \in [Threads -> Seq(Frames)]
    PROVE  Starting' \/ BlockDone'
<1>1. CASE BlockDone
  BY <1>1, BlockDoneGrows
<1>2. CASE Starting
  <2> DEFINE f == stack[Main][1]
             g == stack'[Main][1]
  <2>1. /\ stack[Main] \in Seq(Frames) /\ stack'[Main] \in Seq(Frames) /\ stack[Main] # <<>>
        /\ f.of \in Statics
    BY <1>2, MainAssumption DEF TypeInv, Starting
  <2>2. 1 \in 1..Len(stack[Main])
    BY <2>1, EmptySeq, LenProperties
  <2>3. CASE 1 \in 1..Len(stack'[Main]) /\ g.of = f.of
    BY <2>1, <2>3, EmptySeq DEF Starting
  <2>4. CASE AtEnd(f)
    <3>1. Passed(f) /\ f \in Frames
      BY <2>1, <2>2, MainAssumption, ElementOfSeq DEF FactInv
    <3>2. f.of \in {"static", "staticAfterUse"} /\ f.of \in DOMAIN Program
      BY <2>1, RankFacts DEF Statics
    <3>3. f.pc > Len(Program[f.of]) /\ f.pc \in Nat /\ Len(Program[f.of]) \in Nat
      BY <2>4, <3>1, <3>2, ProgramFacts, LenProperties DEF AtEnd, Frames
    <3>4. \A i \in 1..Len(Program[f.of]) : i \in 1..(f.pc - 1)
      <4> HIDE DEF f
      <4> QED
        BY <3>3
    <3>5. \A i \in Block(f.of) : Done(f.of, i)
      BY <3>1, <3>2, <3>4, BlockFacts DEF Passed
    <3>6. BlockDone
      BY <3>2, <3>5, PastBlock
    <3> QED
      BY <3>6, BlockDoneGrows
  <2>5. GoesOn(t, g) => g.of = Top(t).of
    BY DEF GoesOn
  <2> QED
    BY <2>2, <2>3, <2>4, <2>5, MainAssumption DEF Persists, Top
<1> QED
  BY <1>1, <1>2 DEF FactInv

LEMMA StoreFinished ==
    ASSUME TypeInv, FactInv, NEW t \in Threads, StoreAfterEnd(t), Grows, TypeInv'
    PROVE  (\A u \in Threads : stack[u] # <<>> /\ Top(u).at = "store" => Finished(Arg(u)))'
<1> SUFFICES ASSUME NEW u \in Threads, stack'[u] # <<>>, Top(u)'.at = "store"
             PROVE  Finished(Arg(u))'
  OBVIOUS
<1>1. ASSUME NEW o \in DOMAIN Program, Finished(o), Arg(u)' = o
      PROVE  Finished(Arg(u))'
  <2>1. Finished(o)'
    BY <1>1, FinishedPrimed
  <2> QED
    BY <1>1, <2>1 DEF Finished
<1>2. CASE stack[u] # <<>> /\ Top(u).at = "store" /\ Arg(u)' = Arg(u)
  <2>1. Finished(Arg(u))
    BY <1>2 DEF FactInv
  <2>2. Arg(u) \in DOMAIN Program
    <3>1. /\ Stands(stack[u]) /\ Len(stack[u]) \in 1..Len(stack[u]) /\ Top(u) \in Frames
          /\ Top(u) = stack[u][Len(stack[u])]
      BY <1>2, TopFacts DEF TypeInv
    <3>2. AtOnce(Top(u))
      BY <1>2, <3>1 DEF Stands
    <3> QED
      BY <3>1, <3>2, InstructionFacts, RankFacts DEF AtOnce, Arg
  <2> QED
    BY <1>1, <1>2, <2>1, <2>2
<1>3. CASE u = t /\ stack[t] # <<>> /\ AtEnd(Top(t)) /\ Top(t).of = Arg(t)'
  <2>1. /\ Passed(Top(t)) /\ Top(t).of \in DOMAIN Program /\ Top(t).pc \in Nat
        /\ Len(Program[Top(t).of]) \in Nat
    BY <1>3, TopFacts DEF FactInv
  <2>2. \A i \in 1..Len(Program[Top(t).of]) : i \in 1..(Top(t).pc - 1)
    BY <1>3, <2>1 DEF AtEnd
  <2>3. Finished(Top(t).of)
    BY <2>1, <2>2, FinishedIs DEF Passed
  <2> QED
    BY <1>1, <1>3, <2>1, <2>3
<1> QED
  BY <1>2, <1>3 DEF StoreAfterEnd

LEMMA FactStep == TypeInv /\ RunInv /\ FactInv /\ [Next]_vars => FactInv'
<1> SUFFICES ASSUME TypeInv, RunInv, FactInv, [Next]_vars PROVE FactInv'
  OBVIOUS
<1>1. TypeInv'
  BY TypeStep
<1>2. stack' \in [Threads -> Seq(Frames)]
  BY <1>1 DEF TypeInv
<1>3. ASSUME NEW t \in Threads, Step(t) PROVE FactInv'
  <2>1. Origins(t) /\ Persists(t) /\ StoreAfterEnd(t) /\ Grows
    BY <1>3, StepFollows DEF FramesFollow
  <2>2. /\ stack[t] # <<>> /\ \A u \in Threads : u # t => stack'[u] = stack[u]
        /\ \A o \in Onces : once'[o] = "DONE" =>
             \/ once[o] = "DONE"
             \/ Top(t).at = "store" /\ Arg(t) = o
        /\ \A x \in Things : made'[x] = made[x] \/
             /\ ~AtEnd(Top(t)) /\ Program[Top(t).of][Top(t).pc].op = "make"
             /\ Program[Top(t).of][Top(t).pc].arg = x
    BY <1>3, StepNews
  <2>3. (\A o \in Onces : once[o] = "DONE" => Finished(o))'
    <3> SUFFICES ASSUME NEW o \in Onces, once'[o] = "DONE" PROVE Finished(o)'
      OBVIOUS
    <3>1. Finished(o)
      BY <2>2 DEF FactInv
    <3> QED
      BY <2>1, <3>1, FinishedPrimed, RankFacts
  <2>4. (\A u \in Threads : \A k \in 1..Len(stack[u]) : Passed(stack[u][k]))'
    BY <2>1, PassedPrimed
  <2>5. (\A u \in Threads : stack[u] # <<>> /\ Top(u).at = "store" => Finished(Arg(u)))'
    BY <1>1, <2>1, StoreFinished
  <2>6. made'["type"] > 0 => once'["assign"] = "DONE"
    <3>1. CASE made'["type"] = made["type"]
      BY <2>1, <3>1 DEF FactInv, Grows, Onces
    <3>2. CASE /\ ~AtEnd(Top(t)) /\ Program[Top(t).of][Top(t).pc].op = "make"
               /\ Program[Top(t).of][Top(t).pc].arg = "type"
      <4>1. /\ Top(t).of \in DOMAIN Program /\ Top(t).pc \in 1..Len(Program[Top(t).of])
            /\ Passed(Top(t))
        BY <2>2, <3>2, TopFacts, InstructionFacts DEF FactInv
      <4>2. Top(t).of = "newByName" /\ Top(t).pc = 27
        <5>1. "type" \notin BlockThings
          BY DEF BlockThings
        <5>2. Top(t).pc \notin Block(Top(t).of)
          BY <3>2, <4>1, <5>1, BlockFacts
        <5> QED
          BY <3>2, <4>1, <5>2, MakeFacts
      <4>3. Done("newByName", 13)
        BY <4>1, <4>2 DEF Passed
      <4>4. once["assign"] = "DONE"
        BY <4>3, NewByNameCode DEF Done, I
      <4> QED
        BY <2>1, <4>4 DEF Grows, Onces
    <3> QED
      BY <2>2, <3>1, <3>2 DEF Things
  <2>7. (Starting => \A u \in Threads : u # Main => stack[u] = <<>>)'
    <3> SUFFICES ASSUME Starting', NEW u \in Threads, u # Main PROVE stack'[u] = <<>>
      OBVIOUS
    <3>1. Starting
      BY <1>2, <2>1, StartingFollows
    <3> QED
      BY <2>2, <3>1 DEF FactInv
  <2>8. (Starting \/ BlockDone)'
    BY <1>2, <2>1, StartingEnds
  <2>9. (made["alreadyHere"] > 0 =>
           BlockDone \/ \E k \in 1..Len(stack[Main]) : InBlock(stack[Main][k]))'
    <3> SUFFICES ASSUME made'["alreadyHere"] > 0
                 PROVE  BlockDone' \/ \E k \in 1..Len(stack'[Main]) : InBlock(stack'[Main][k])
      BY DEF InBlock
    <3>1. CASE BlockDone
      BY <2>1, <3>1, BlockDoneGrows
    <3>2. CASE \E k \in 1..Len(stack[Main]) : InBlock(stack[Main][k])
      BY <2>1, <3>2, BlockGoesOn
    <3>3. CASE made'["alreadyHere"] = made["alreadyHere"]
      BY <3>1, <3>2, <3>3 DEF FactInv
    <3>4. CASE /\ ~AtEnd(Top(t)) /\ Program[Top(t).of][Top(t).pc].op = "make"
               /\ Program[Top(t).of][Top(t).pc].arg = "alreadyHere"
      <4>1. /\ Top(t).of \in DOMAIN Program /\ Top(t).pc \in 1..Len(Program[Top(t).of])
            /\ Len(stack[t]) \in 1..Len(stack[t]) /\ Top(t) = stack[t][Len(stack[t])]
        BY <2>2, <3>4, TopFacts, InstructionFacts
      <4>2. /\ Top(t).of \in {"assign", "static", "staticAfterUse", "newByName"}
            /\ Top(t).pc \in Block(Top(t).of)
        BY <3>4, <4>1, MakeFacts
      <4>3. CASE t = Main /\ Top(t).of # "newByName"
        <5>1. InBlock(stack[Main][Len(stack[Main])])
          BY <4>1, <4>2, <4>3 DEF InBlock
        <5> QED
          BY <3>2, <4>1, <4>3, <5>1
      <4>4. CASE t # Main \/ Top(t).of = "newByName"
        <5>1. t # Main \/ stack[t][Len(stack[t])].of \in Requests
          BY <4>1, <4>4 DEF Requests
        <5>2. BlockDone
          BY <4>1, <5>1, AfterStart
        <5> QED
          BY <3>1, <5>2
      <4> QED
        BY <4>3, <4>4
    <3> QED
      BY <2>2, <3>3, <3>4 DEF Things
  <2> QED
    BY <2>3, <2>4, <2>5, <2>6, <2>7, <2>8, <2>9 DEF FactInv
<1>4. ASSUME NEW t \in Threads, NEW r \in Requests, Call(t, r) PROVE FactInv'
  <2>1. Origins(t) /\ Persists(t) /\ StoreAfterEnd(t) /\ once' = once /\ made' = made
    BY <1>4, CallFollows DEF FramesFollow
  <2>2. Grows
    BY <2>1 DEF Grows
  <2>3. ~Starting
    BY <1>4, StartingIs DEF Call
  <2>4. BlockDone'
    BY <2>2, <2>3, BlockDoneGrows DEF FactInv
  <2>5. ~Starting'
    BY <1>2, <2>1, <2>3, StartingFollows
  <2>6. (\A u \in Threads : \A k \in 1..Len(stack[u]) : Passed(stack[u][k]))'
    BY <2>1, <2>2, PassedPrimed
  <2>7. (\A u \in Threads : stack[u] # <<>> /\ Top(u).at = "store" => Finished(Arg(u)))'
    BY <1>1, <2>1, <2>2, StoreFinished
  <2>8. (\A o \in Onces : once[o] = "DONE" => Finished(o))'
    BY <2>1, <2>2, FinishedPrimed, RankFacts DEF FactInv
  <2>9. made'["type"] > 0 => once'["assign"] = "DONE"
    BY <2>1 DEF FactInv
  <2> QED
    BY <2>4, <2>5, <2>6, <2>7, <2>8, <2>9 DEF FactInv
<1>5. CASE UNCHANGED vars
  <2>1. once' = once /\ made' = made /\ stack' = stack
    BY <1>5 DEF vars
  <2>2. \A u \in Threads : Top(u)' = Top(u) /\ Arg(u)' = Arg(u)
    BY <2>1 DEF Top, Arg, Instruction
  <2>3. (\A o \in Onces : once[o] = "DONE" => Finished(o))'
    BY <2>1 DEF FactInv, Finished
  <2>4. (\A u \in Threads : \A k \in 1..Len(stack[u]) : Passed(stack[u][k]))'
    BY <2>1 DEF FactInv, Passed, Done
  <2>5. (\A u \in Threads : stack[u] # <<>> /\ Top(u).at = "store" => Finished(Arg(u)))'
    BY <2>1, <2>2 DEF FactInv, Finished
  <2>6. (Starting <=> Starting') /\ (BlockDone <=> BlockDone')
    BY <2>1 DEF Starting, BlockDone
  <2>7. (Starting => \A u \in Threads : u # Main => stack[u] = <<>>)' /\ (Starting \/ BlockDone)'
    BY <2>1, <2>6 DEF FactInv
  <2>8. (made["alreadyHere"] > 0 =>
           BlockDone \/ \E k \in 1..Len(stack[Main]) : InBlock(stack[Main][k]))'
    BY <2>1, <2>6 DEF FactInv, InBlock
  <2>9. (made["type"] > 0 => once["assign"] = "DONE")'
    BY <2>1 DEF FactInv
  <2> QED
    BY <2>3, <2>4, <2>5, <2>7, <2>8, <2>9 DEF FactInv
<1> QED
  BY <1>3, <1>4, <1>5 DEF Next

LEMMA FactAlways == Spec => [](TypeInv /\ RunInv /\ FactInv)
<1>1. Init => TypeInv /\ RunInv /\ FactInv
  BY TypeInit, RunInit, FactInit
<1>2. (TypeInv /\ RunInv /\ FactInv) /\ [Next]_vars => (TypeInv /\ RunInv /\ FactInv)'
  BY TypeStep, RunStep, FactStep
<1> QED
  BY <1>1, <1>2, PTL DEF Spec

(* What a frame stands at, or is past, is an instruction of its program.   *)
LEMMA PlaceFacts ==
    ASSUME TypeInv, NEW t \in Threads, NEW k \in 1..Len(stack[t])
    PROVE  /\ stack[t][k].of \in DOMAIN Program /\ WellFormed(Program[stack[t][k].of], stack[t][k].of)
           /\ stack[t][k].pc \in Nat \ {0} /\ Len(Program[stack[t][k].of]) \in Nat
           /\ stack[t][k].pc <= Len(Program[stack[t][k].of]) + 1
           /\ \A i \in 1..(stack[t][k].pc - 1) : i \in 1..Len(Program[stack[t][k].of])
<1> DEFINE f == stack[t][k]
<1>1. /\ f \in Frames /\ f.pc <= Len(Program[f.of]) + 1
  BY ElementOfSeq DEF TypeInv, Stands
<1>2. /\ f.pc \in Nat \ {0} /\ f.of \in DOMAIN Program /\ Len(Program[f.of]) \in Nat
      /\ WellFormed(Program[f.of], f.of)
  BY <1>1, ProgramFacts, LenProperties DEF Frames
<1> HIDE DEF f
<1>3. \A i \in 1..(f.pc - 1) : i \in 1..Len(Program[f.of])
  BY <1>1, <1>2
<1> QED
  BY <1>1, <1>2, <1>3 DEF f

(* "None of the calls return before that first call to init_func has       *)
(* finished" (stubs/once.h): whoever is past a GoogleOnceInit finds        *)
(* everything there that its function makes.                               *)
THEOREM ReadyOnReturnHolds == Spec => []ReadyOnReturn
<1>1. TypeInv /\ FactInv => ReadyOnReturn
  <2> SUFFICES ASSUME TypeInv, FactInv, NEW t \in Threads, NEW k \in 1..Len(stack[t]),
                      NEW i \in 1..(stack[t][k].pc - 1),
                      Program[stack[t][k].of][i].op = "once"
               PROVE  /\ once[Program[stack[t][k].of][i].arg] = "DONE"
                      /\ Finished(Program[stack[t][k].of][i].arg)
    BY DEF ReadyOnReturn
  <2> DEFINE o == Program[stack[t][k].of][i].arg
  <2>1. once[o] = "DONE"
    BY DEF FactInv, Passed, Done
  <2>2. o \in Onces
    BY PlaceFacts DEF WellFormed
  <2> QED
    BY <2>1, <2>2 DEF FactInv
<1> QED
  BY <1>1, FactAlways, PTL

-----------------------------------------------------------------------------
(* What has to be there when something is made or locked.                  *)
Base(r) ==
    CASE r \in {"assign", "static"} -> 0
      [] r = "staticAfterUse" -> 1
      [] OTHER -> 14

LEMMA BaseFacts ==
    ASSUME NEW r \in {"assign", "static", "staticAfterUse", "newByName"}
    PROVE  /\ Base(r) \in Nat /\ AddDescAt(Program[r], Base(r))
           /\ Block(r) = (Base(r) + 2)..(Base(r) + 11)
<1>1. CASE r \in {"assign", "static"}
  <2>1. Base(r) = 0 /\ Block(r) = 2..11 /\ AddDescAt(Program[r], 0)
    BY <1>1, Blocks, AddDescPlaces DEF Base
  <2> QED
    BY <2>1
<1>2. CASE r = "staticAfterUse"
  <2>1. Base(r) = 1 /\ Block(r) = 3..12 /\ AddDescAt(Program[r], 1)
    BY <1>2, Blocks, AddDescPlaces DEF Base
  <2> QED
    BY <2>1
<1>3. CASE r = "newByName"
  <2>1. Base(r) = 14 /\ Block(r) = 16..25 /\ AddDescAt(Program[r], 14)
    BY <1>3, Blocks, AddDescPlaces DEF Base
  <2> QED
    BY <2>1
<1> QED
  BY <1>1, <1>2, <1>3

(* What the block makes, and what it asks for just before.                 *)
LEMMA BlockMakes ==
    ASSUME NEW list, NEW k \in Nat, AddDescAt(list, k), NEW i \in (k + 2)..(k + 11),
           list[i].op = "make"
    PROVE  \/ i = k + 2 /\ list[i].arg = "alreadyHere"
           \/ i = k + 4 /\ list[i].arg = "encodedFile"
           \/ i = k + 6 /\ list[i].arg = "registration"
           \/ i = k + 7 /\ list[i].arg = "defaultInstance"
           \/ i = k + 10 /\ list[i].arg = "fileCleanup"
<1>1. \/ i = k + 2 \/ i = k + 3 \/ i = k + 4 \/ i = k + 5 \/ i = k + 6 \/ i = k + 7
      \/ i = k + 8 \/ i = k + 9 \/ i = k + 10 \/ i = k + 11
  OBVIOUS
<1> QED
  BY <1>1 DEF AddDescAt, I, U

LEMMA BlockAsks ==
    ASSUME NEW list, NEW k \in Nat, AddDescAt(list, k)
    PROVE  /\ list[k + 3].op = "once" /\ list[k + 3].arg = "pool"
           /\ list[k + 5].op = "once" /\ list[k + 5].arg = "factory"
           /\ list[k + 8].op = "once" /\ list[k + 8].arg = "shutdown"
           /\ list[k + 9].op = "lock" /\ list[k + 9].arg = "shutdown"
BY DEF AddDescAt, I

LEMMA BlockLocks ==
    ASSUME NEW list, NEW k \in Nat, AddDescAt(list, k), NEW i \in (k + 2)..(k + 11),
           list[i].op = "lock"
    PROVE  i = k + 9
<1>1. \/ i = k + 2 \/ i = k + 3 \/ i = k + 4 \/ i = k + 5 \/ i = k + 6 \/ i = k + 7
      \/ i = k + 8 \/ i = k + 9 \/ i = k + 10 \/ i = k + 11
  OBVIOUS
<1> QED
  BY <1>1 DEF AddDescAt, I, U

LEMMA NotLock ==
    /\ \A j \in {1, 12, 14, 15, 16, 17, 18, 19} : Program["assign"][j].op # "lock"
    /\ \A j \in {1, 3, 4, 5, 6, 8, 9, 10, 12, 13, 14, 15, 26, 27, 28} :
         Program["newByName"][j].op # "lock"
    /\ Program["static"][1].op # "lock"
    /\ \A j \in {1, 2} : Program["staticAfterUse"][j].op # "lock"
<1>1. \A op, x : I(op, x).op = op
  BY DEF I
<1>2. \A x, n : U(x, n).op = "unless"
  BY DEF U
<1>3. /\ Program["assign"][0 + 1] = U("alreadyHere", 10)
      /\ Program["static"][0 + 1] = U("alreadyHere", 10)
      /\ Program["staticAfterUse"][1 + 1] = U("alreadyHere", 10)
      /\ Program["newByName"][14 + 1] = U("alreadyHere", 10)
  BY AddDescPlaces DEF AddDescAt
<1>4. /\ Program["assign"][1].op = "unless" /\ Program["static"][1].op = "unless"
      /\ Program["staticAfterUse"][2].op = "unless" /\ Program["newByName"][15].op = "unless"
  BY <1>2, <1>3
<1>5. \A j \in {12, 14, 15, 16, 17, 18, 19} : Program["assign"][j].op # "lock"
  BY <1>1, <1>2, AssignCode
<1>6. \A j \in {1, 3, 4, 5, 6} : Program["newByName"][j].op # "lock"
  BY <1>1, <1>2, NewByNameCode
<1>7. \A j \in {8, 9, 10, 12} : Program["newByName"][j].op # "lock"
  BY <1>1, <1>2, NewByNameCode
<1>8. \A j \in {13, 14, 26, 27, 28} : Program["newByName"][j].op # "lock"
  BY <1>1, <1>2, NewByNameCode
<1>9. Program["staticAfterUse"][1].op # "lock"
  BY <1>1, ShortCode
<1>10. \A j \in {1, 3, 4, 5, 6, 8, 9, 10, 12, 13, 14, 15, 26, 27, 28} :
         j \in {1, 3, 4, 5, 6} \/ j \in {8, 9, 10, 12} \/ j \in {13, 14, 26, 27, 28} \/ j = 15
  OBVIOUS
<1>11. \A j \in {1, 3, 4, 5, 6, 8, 9, 10, 12, 13, 14, 15, 26, 27, 28} :
         Program["newByName"][j].op # "lock"
  BY <1>4, <1>6, <1>7, <1>8, <1>10
<1>12. \A j \in {1, 12, 14, 15, 16, 17, 18, 19} : Program["assign"][j].op # "lock"
  BY <1>4, <1>5
<1>13. /\ Program["static"][1].op # "lock"
       /\ \A j \in {1, 2} : Program["staticAfterUse"][j].op # "lock"
  BY <1>4, <1>9
<1> QED
  BY <1>11, <1>12, <1>13

(* Every mutex belongs to something made once, which is asked for first.   *)
LEMMA LockFacts ==
    ASSUME NEW r \in DOMAIN Program, NEW i \in 1..Len(Program[r]), Program[r][i].op = "lock"
    PROVE  \E j \in 1..(i - 1) : Program[r][j].op = "once" /\ Program[r][j].arg = Program[r][i].arg
<1>1. \/ r = "assign" \/ r = "static" \/ r = "staticAfterUse" \/ r = "newByName"
      \/ r = "shutdown" \/ r = "pool" \/ r = "factory" \/ r = "metadata"
  BY RankFacts DEF Onces, Statics, Requests
<1>2. \A op, x : I(op, x).op = op /\ I(op, x).arg = x
  BY DEF I
<1>3. CASE r \in {"assign", "static", "staticAfterUse", "newByName"} /\ i \in Block(r)
  <2> DEFINE k == Base(r)
  <2>1. k \in Nat /\ AddDescAt(Program[r], k) /\ i \in (k + 2)..(k + 11)
    BY <1>3, BaseFacts
  <2> HIDE DEF k
  <2>2. i = k + 9
    BY <2>1, BlockLocks
  <2>3. k + 8 \in 1..(i - 1)
    BY <2>1, <2>2
  <2>4. /\ Program[r][k + 8].op = "once" /\ Program[r][k + 8].arg = "shutdown"
        /\ Program[r][k + 9].arg = "shutdown"
    BY <2>1, BlockAsks
  <2> QED
    BY <2>2, <2>3, <2>4
<1>4. CASE r = "assign" /\ i \notin Block(r)
  <2>1. \A j \in 1..19 : j = 1 \/ j \in 2..11 \/ j = 12 \/ j = 13 \/ j = 14 \/ j = 15 \/ j = 16
                         \/ j = 17 \/ j = 18 \/ j = 19
    OBVIOUS
  <2>2. i \in 1..19 /\ i \notin 2..11 /\ i \notin {1, 12, 14, 15, 16, 17, 18, 19}
    BY <1>4, Lengths, Blocks, NotLock
  <2>3. i = 13 /\ 12 \in 1..(i - 1)
    BY <2>1, <2>2
  <2>4. /\ Program["assign"][12].op = "once" /\ Program["assign"][12].arg = "pool"
        /\ Program["assign"][13].arg = "pool"
    BY <1>2, AssignCode
  <2> QED
    BY <1>4, <2>3, <2>4
<1>5. CASE r = "static" /\ i \notin Block(r)
  <2>1. \A j \in 1..11 : j = 1 \/ j \in 2..11
    OBVIOUS
  <2> QED
    BY <1>5, <2>1, Lengths, Blocks, NotLock
<1>6. CASE r = "staticAfterUse" /\ i \notin Block(r)
  <2>1. \A j \in 1..12 : j = 1 \/ j = 2 \/ j \in 3..12
    OBVIOUS
  <2> QED
    BY <1>6, <2>1, Lengths, Blocks, NotLock
<1>7. CASE r = "newByName" /\ i \notin Block(r)
  <2>1. \A j \in 1..28 : \/ j = 1 \/ j = 2 \/ j = 3 \/ j = 4 \/ j = 5 \/ j = 6 \/ j = 7 \/ j = 8
                         \/ j = 9 \/ j = 10 \/ j = 11 \/ j = 12 \/ j = 13 \/ j = 14 \/ j = 15
                         \/ j \in 16..25 \/ j = 26 \/ j = 27 \/ j = 28
    OBVIOUS
  <2>2. i \in 1..28 /\ i \notin 16..25
        /\ i \notin {1, 3, 4, 5, 6, 8, 9, 10, 12, 13, 14, 15, 26, 27, 28}
    BY <1>7, Lengths, Blocks, NotLock
  <2>3. i = 2 \/ i = 7 \/ i = 11
    BY <2>1, <2>2
  <2>4. /\ Program["newByName"][1].op = "once" /\ Program["newByName"][1].arg = "pool"
        /\ Program["newByName"][6].op = "once" /\ Program["newByName"][6].arg = "factory"
        /\ Program["newByName"][2].arg = "pool" /\ Program["newByName"][7].arg = "factory"
        /\ Program["newByName"][11].arg = "factory"
    BY <1>2, NewByNameCode
  <2>5. CASE i = 2
    <3>1. 1 \in 1..(i - 1)
      BY <2>5
    <3> QED
      BY <1>7, <2>4, <2>5, <3>1
  <2>6. CASE i = 7 \/ i = 11
    <3>1. 6 \in 1..(i - 1)
      BY <2>6
    <3> QED
      BY <1>7, <2>4, <2>6, <3>1
  <2> QED
    BY <2>3, <2>5, <2>6
<1>8. CASE r \in {"shutdown", "metadata"}
  <2>1. i = 1
    <3>1. Len(Program[r]) = 1
      BY <1>8, Lengths
    <3> QED
      BY <3>1
  <2> QED
    BY <1>2, <1>8, <2>1, ShortCode
<1>9. CASE r \in {"pool", "factory"}
  <2>1. \A j \in 1..5 : j = 1 \/ j = 2 \/ j = 3 \/ j = 4 \/ j = 5
    OBVIOUS
  <2>2. i \in 1..5
    BY <1>9, Lengths
  <2>3. \A j \in {1, 2, 4, 5} : Program["pool"][j].op # "lock" /\ Program["factory"][j].op # "lock"
    BY <1>2, ShortCode
  <2>4. i = 3
    BY <1>9, <2>1, <2>2, <2>3
  <2>5. 2 \in 1..(i - 1)
    BY <2>4
  <2>6. /\ Program["pool"][2].op = "once" /\ Program["pool"][2].arg = "shutdown"
        /\ Program["factory"][2].op = "once" /\ Program["factory"][2].arg = "shutdown"
        /\ Program["pool"][3].arg = "shutdown" /\ Program["factory"][3].arg = "shutdown"
    BY <1>2, ShortCode
  <2> QED
    BY <1>9, <2>4, <2>5, <2>6
<1> QED
  BY <1>1, <1>3, <1>4, <1>5, <1>6, <1>7, <1>8, <1>9

LEMMA OnceMakes ==
    ASSUME FactInv, NEW m \in Mutexes, once[m] = "DONE"
    PROVE  made[m] > 0
<1>1. m \in Onces /\ m \in {"shutdown", "pool", "factory"}
  BY DEF Mutexes, Onces
<1>2. 1 \in 1..Len(Program[m]) /\ Finished(m)
  <2>1. Len(Program[m]) = 1 \/ Len(Program[m]) = 5
    BY <1>1, Lengths
  <2>2. 1 \in 1..Len(Program[m])
    BY <2>1
  <2> QED
    BY <1>1, <2>2 DEF FactInv
<1>3. Done(m, 1)
  BY <1>2, FinishedIs
<1>4. Program[m][1] = I("make", m)
  BY <1>1, ShortCode
<1> QED
  BY <1>3, <1>4 DEF Done, I

LEMMA NeedsAre ==
    /\ Needs("shutdown") = {} /\ Needs("pool") = {} /\ Needs("factory") = {}
    /\ Needs("alreadyHere") = {} /\ Needs("defaultInstance") = {}
    /\ Needs("poolCleanup") = {"shutdown"} /\ Needs("factoryCleanup") = {"shutdown"}
    /\ Needs("fileCleanup") = {"shutdown"}
    /\ Needs("encodedFile") = {"pool"} /\ Needs("registration") = {"factory"}
    /\ Needs("file") = {"encodedFile", "pool"}
    /\ Needs("descriptor") = {"file", "defaultInstance"}
    /\ Needs("type") = {"descriptor", "defaultInstance", "registration"}
BY DEF Needs

LEMMA MakeNeeds ==
    ASSUME TypeInv, FactInv, NEW t \in Threads, Before(t, "make", "start")
    PROVE  \A x \in Needs(Arg(t)) : made[x] > 0
<1> DEFINE r == Top(t).of
           i == Top(t).pc
<1>1. /\ stack[t] # <<>> /\ r \in DOMAIN Program /\ i \in 1..Len(Program[r])
      /\ Program[r][i].op = "make" /\ Arg(t) = Program[r][i].arg
  BY BeforeFacts, TopFacts, InstructionFacts DEF Instruction
<1>2. /\ Len(stack[t]) \in 1..Len(stack[t]) /\ Top(t) = stack[t][Len(stack[t])]
  BY <1>1, TopFacts
<1>3. \A j \in 1..(i - 1) : Done(r, j)
  BY <1>2 DEF FactInv, Passed
<1>4. r = "newByName" => BlockDone
  <2> SUFFICES ASSUME r = "newByName" PROVE BlockDone
    OBVIOUS
  <2>1. stack[t][Len(stack[t])].of \in Requests
    BY <1>2 DEF Requests
  <2> QED
    BY <1>2, <2>1, AfterStart
<1> HIDE DEF r, i
<1>5. /\ once["pool"] = "DONE" => made["pool"] > 0
      /\ once["factory"] = "DONE" => made["factory"] > 0
      /\ once["shutdown"] = "DONE" => made["shutdown"] > 0
  BY OnceMakes DEF Mutexes
<1>6. BlockDone => /\ made["encodedFile"] > 0 /\ made["defaultInstance"] > 0
                   /\ made["registration"] > 0 /\ made["pool"] > 0
  BY <1>5 DEF BlockDone, BlockThings, BlockOnces
<1>7. CASE i = 1 /\ Arg(t) \in {"shutdown", "pool", "factory"}
  BY <1>7, NeedsAre
<1>8. CASE r \in {"pool", "factory"} /\ i = 4 /\ Arg(t) \in {"poolCleanup", "factoryCleanup"}
  <2>1. 2 \in 1..(i - 1)
    BY <1>8
  <2>2. Done(r, 2)
    BY <1>3, <2>1
  <2>3. once["shutdown"] = "DONE"
    BY <1>8, <2>2, ShortCode DEF Done, I
  <2> QED
    BY <1>5, <1>8, <2>3, NeedsAre
<1>9. CASE r = "assign" /\ i \in {15, 19} /\ i \notin Block(r)
  <2>1. \A j \in 2..11 : j \in 1..(i - 1)
    BY <1>9
  <2>2. \A j \in Block("assign") : Done("assign", j)
    BY <1>3, <1>9, <2>1, Blocks
  <2>3. BlockDone
    BY <2>2, PastBlock
  <2>4. CASE i = 15
    <3>1. Arg(t) = "file"
      BY <1>1, <1>9, <2>4, AssignCode DEF I
    <3> QED
      BY <1>6, <2>3, <3>1, NeedsAre
  <2>5. CASE i = 19
    <3>1. 15 \in 1..(i - 1)
      BY <2>5
    <3>2. Done("assign", 15)
      BY <1>3, <1>9, <3>1
    <3>3. made["file"] > 0
      BY <3>2, AssignCode DEF Done, I
    <3>4. Arg(t) = "descriptor"
      BY <1>1, <1>9, <2>5, AssignCode DEF I
    <3> QED
      BY <1>6, <2>3, <3>3, <3>4, NeedsAre
  <2> QED
    BY <1>9, <2>4, <2>5
<1>10. CASE r = "newByName" /\ i = 4 /\ Arg(t) = "file"
  BY <1>4, <1>6, <1>10, NeedsAre
<1>11. CASE r = "newByName" /\ i = 27 /\ Arg(t) = "type"
  <2>1. 13 \in 1..(i - 1)
    BY <1>11
  <2>2. Done("newByName", 13)
    BY <1>3, <1>11, <2>1
  <2>3. once["assign"] = "DONE"
    BY <2>2, NewByNameCode DEF Done, I
  <2>4. made["descriptor"] > 0
    BY <2>3, AssignGives DEF FactInv, Onces
  <2> QED
    BY <1>4, <1>6, <1>11, <2>4, NeedsAre
<1>12. CASE r \in {"assign", "static", "staticAfterUse", "newByName"} /\ i \in Block(r)
  <2> DEFINE k == Base(r)
  <2>1. k \in Nat /\ AddDescAt(Program[r], k) /\ i \in (k + 2)..(k + 11)
    BY <1>12, BaseFacts
  <2> HIDE DEF k
  <2>2. /\ Program[r][k + 3].op = "once" /\ Program[r][k + 3].arg = "pool"
        /\ Program[r][k + 5].op = "once" /\ Program[r][k + 5].arg = "factory"
        /\ Program[r][k + 8].op = "once" /\ Program[r][k + 8].arg = "shutdown"
    BY <2>1, BlockAsks
  <2>3. \/ i = k + 2 /\ Arg(t) = "alreadyHere"
        \/ i = k + 4 /\ Arg(t) = "encodedFile"
        \/ i = k + 6 /\ Arg(t) = "registration"
        \/ i = k + 7 /\ Arg(t) = "defaultInstance"
        \/ i = k + 10 /\ Arg(t) = "fileCleanup"
    BY <1>1, <2>1, BlockMakes
  <2>4. CASE i = k + 4 /\ Arg(t) = "encodedFile"
    <3>1. k + 3 \in 1..(i - 1)
      BY <2>1, <2>4
    <3>2. once["pool"] = "DONE"
      BY <1>3, <2>2, <3>1 DEF Done
    <3> QED
      BY <1>5, <2>4, <3>2, NeedsAre
  <2>5. CASE i = k + 6 /\ Arg(t) = "registration"
    <3>1. k + 5 \in 1..(i - 1)
      BY <2>1, <2>5
    <3>2. once["factory"] = "DONE"
      BY <1>3, <2>2, <3>1 DEF Done
    <3> QED
      BY <1>5, <2>5, <3>2, NeedsAre
  <2>6. CASE i = k + 10 /\ Arg(t) = "fileCleanup"
    <3>1. k + 8 \in 1..(i - 1)
      BY <2>1, <2>6
    <3>2. once["shutdown"] = "DONE"
      BY <1>3, <2>2, <3>1 DEF Done
    <3> QED
      BY <1>5, <2>6, <3>2, NeedsAre
  <2>7. CASE Arg(t) \in {"alreadyHere", "defaultInstance"}
    BY <2>7, NeedsAre
  <2> QED
    BY <2>3, <2>4, <2>5, <2>6, <2>7
<1>13. \/ r = "shutdown" /\ i = 1 /\ Arg(t) = "shutdown"
       \/ r = "pool" /\ i = 1 /\ Arg(t) = "pool"
       \/ r = "pool" /\ i = 4 /\ Arg(t) = "poolCleanup"
       \/ r = "factory" /\ i = 1 /\ Arg(t) = "factory"
       \/ r = "factory" /\ i = 4 /\ Arg(t) = "factoryCleanup"
       \/ r = "assign" /\ i = 15 /\ Arg(t) = "file"
       \/ r = "assign" /\ i = 19 /\ Arg(t) = "descriptor"
       \/ r = "newByName" /\ i = 4 /\ Arg(t) = "file"
       \/ r = "newByName" /\ i = 27 /\ Arg(t) = "type"
       \/ r \in {"assign", "static", "staticAfterUse", "newByName"} /\ i \in Block(r)
  BY <1>1, MakeFacts
<1> QED
  BY <1>7, <1>8, <1>9, <1>10, <1>11, <1>12, <1>13

LEMMA LockNeeds ==
    ASSUME TypeInv, FactInv, NEW t \in Threads, Before(t, "lock", "start")
    PROVE  made[Arg(t)] > 0
<1> DEFINE r == Top(t).of
           i == Top(t).pc
<1>1. /\ stack[t] # <<>> /\ r \in DOMAIN Program /\ i \in 1..Len(Program[r])
      /\ Program[r][i].op = "lock" /\ Arg(t) = Program[r][i].arg /\ Arg(t) \in Mutexes
  BY BeforeFacts, TopFacts, InstructionFacts DEF Instruction
<1>2. \A j \in 1..(i - 1) : Done(r, j)
  BY <1>1, TopFacts DEF FactInv, Passed
<1>3. PICK j \in 1..(i - 1) : Program[r][j].op = "once" /\ Program[r][j].arg = Program[r][i].arg
  BY <1>1, LockFacts
<1>4. once[Arg(t)] = "DONE"
  BY <1>1, <1>2, <1>3 DEF Done
<1> QED
  BY <1>1, <1>4, OnceMakes

(* "No null pointer is used": the pool, the factory, the list of functions *)
(* and the descriptor are there when they are locked or read.              *)
THEOREM NeedsThereHolds == Spec => []NeedsThere
<1>1. TypeInv /\ FactInv => NeedsThere
  BY MakeNeeds, LockNeeds DEF NeedsThere
<1> QED
  BY <1>1, FactAlways, PTL

-----------------------------------------------------------------------------
(* Nothing is made twice.  What a closure makes of its own is not there    *)
(* before, because nobody else runs the closure and nobody has run it.     *)
Owned == {"shutdown", "pool", "poolCleanup", "factory", "factoryCleanup", "descriptor"}

Owner(x) ==
    CASE x \in {"pool", "poolCleanup"} -> "pool"
      [] x \in {"factory", "factoryCleanup"} -> "factory"
      [] x = "shutdown" -> "shutdown"
      [] OTHER -> "assign"

Place(x) ==
    CASE x \in {"poolCleanup", "factoryCleanup"} -> 4
      [] x = "descriptor" -> 19
      [] OTHER -> 1

OwnInv ==
    \A x \in Owned :
        /\ once[Owner(x)] = "UNINITIALIZED" => made[x] = 0
        /\ \A t \in Threads : \A k \in 1..Len(stack[t]) :
             stack[t][k].of = Owner(x) /\ stack[t][k].pc <= Place(x) => made[x] = 0

(* The block of AddDesc is run once: by the thread of the static           *)
(* initialisers, which sets already_here first.                            *)
BlockInv ==
    /\ made["alreadyHere"] = 0 => \A x \in BlockThings : made[x] = 0
    /\ \A t \in Threads : \A k \in 1..Len(stack[t]) :
         /\ InBlock(stack[t][k]) =>
              /\ t = Main
              /\ \A i \in Block(stack[t][k].of) :
                   i >= stack[t][k].pc /\ Program[stack[t][k].of][i].op = "make"
                     => made[Program[stack[t][k].of][i].arg] = 0
         /\ stack[t][k].of = "newByName" => stack[t][k].pc \notin 15..25

(* Between a lock of the mutex and its unlock.                             *)
Inside(r, i, m) ==
    \/ m = "pool" /\ r = "assign" /\ i \in 14..16
    \/ m = "pool" /\ r = "newByName" /\ i \in 3..5
    \/ m = "factory" /\ r = "newByName" /\ i \in 8..9
    \/ m = "factory" /\ r = "newByName" /\ i \in 12..28

MakesFile(r, i) == (r = "assign" /\ i = 15) \/ (r = "newByName" /\ i = 4)
MakesType(r, i) == r = "newByName" /\ i \in 13..27

(* The file and the type are not there when a thread has looked for them   *)
(* under the mutex and still holds it.                                     *)
LockInv ==
    \A t \in Threads : \A k \in 1..Len(stack[t]) :
        /\ \A m \in {"pool", "factory"} :
             Inside(stack[t][k].of, stack[t][k].pc, m) => holder[m] = {t}
        /\ MakesFile(stack[t][k].of, stack[t][k].pc) => made["file"] = 0
        /\ MakesType(stack[t][k].of, stack[t][k].pc) => made["type"] = 0

(* The last frame of t goes on by one and nothing else moves.              *)
OneOn(t) ==
    /\ \A u \in Threads : Len(stack'[u]) = Len(stack[u])
    /\ \A u \in Threads : \A k \in 1..Len(stack[u]) :
         /\ stack'[u][k].of = stack[u][k].of
         /\ u # t \/ k # Len(stack[t]) => stack'[u][k].pc = stack[u][k].pc
    /\ stack'[t][Len(stack[t])].pc = Top(t).pc + 1

LEMMA OnwardsOne ==
    ASSUME TypeInv, NEW t \in Threads, stack[t] # <<>>, Onwards(t, 1)
    PROVE  OneOn(t)
<1> DEFINE n == Len(stack[t])
<1>1. Moved(stack[t], stack'[t], Top(t).pc + 1, "start") /\ OthersStay(t)
  BY OnwardsMoves
<1>2. n \in Nat \ {0} /\ n \in 1..n /\ Top(t) = stack[t][n]
  BY TopFacts
<1>3. /\ Len(stack'[t]) = n /\ stack'[t][n].of = stack[t][n].of
      /\ stack'[t][n].pc = Top(t).pc + 1
      /\ \A k \in 1..(n - 1) : stack'[t][k] = stack[t][k]
  BY <1>1 DEF Moved
<1>4. \A k \in 1..n : k = n \/ k \in 1..(n - 1)
  BY <1>2
<1>5. \A u \in Threads : u # t => stack'[u] = stack[u]
  BY <1>1 DEF OthersStay
<1> HIDE DEF n
<1>6. \A k \in 1..n : /\ stack'[t][k].of = stack[t][k].of
                      /\ k # n => stack'[t][k].pc = stack[t][k].pc
  BY <1>3, <1>4
<1>7. \A u \in Threads : Len(stack'[u]) = Len(stack[u])
  BY <1>3, <1>5 DEF n
<1>8. \A u \in Threads : \A k \in 1..Len(stack[u]) :
         /\ stack'[u][k].of = stack[u][k].of
         /\ u # t \/ k # Len(stack[t]) => stack'[u][k].pc = stack[u][k].pc
  BY <1>5, <1>6 DEF n
<1> QED
  BY <1>3, <1>7, <1>8 DEF OneOn, n

LEMMA MakeMoves ==
    ASSUME TypeInv, NEW t \in Threads, MakeThing(t)
    PROVE  /\ OneOn(t) /\ stack[t] # <<>> /\ ~AtEnd(Top(t)) /\ Arg(t) \in Things
           /\ Top(t).of \in DOMAIN Program /\ Top(t).pc \in 1..Len(Program[Top(t).of])
           /\ Program[Top(t).of][Top(t).pc].op = "make"
           /\ Program[Top(t).of][Top(t).pc].arg = Arg(t)
           /\ \A x \in Things : made'[x] = IF x = Arg(t) THEN made[x] + 1 ELSE made[x]
           /\ once' = once /\ holder' = holder
<1>1. /\ Before(t, "make", "start") /\ Arg(t) \in Things /\ once' = once /\ holder' = holder
      /\ Onwards(t, 1) /\ made' = [made EXCEPT ![Arg(t)] = @ + 1] /\ stack[t] # <<>>
      /\ ~AtEnd(Top(t))
  BY BeforeFacts DEF MakeThing
<1>2. /\ Top(t).of \in DOMAIN Program /\ Top(t).pc \in 1..Len(Program[Top(t).of])
  BY <1>1, TopFacts, InstructionFacts
<1>3. /\ Program[Top(t).of][Top(t).pc].op = "make" /\ Program[Top(t).of][Top(t).pc].arg = Arg(t)
  BY <1>1 DEF Before, Instruction, Arg
<1>4. \A x \in Things : made'[x] = IF x = Arg(t) THEN made[x] + 1 ELSE made[x]
  BY <1>1 DEF TypeInv
<1> QED
  BY <1>1, <1>2, <1>3, <1>4, OnwardsOne

(* What is not MakeThing makes nothing.                                    *)
LEMMA OtherSteps ==
    ASSUME TypeInv, NEW t \in Threads, Step(t)
    PROVE  /\ MakeThing(t) \/ made' = made
           /\ \A o \in Onces : once'[o] = "UNINITIALIZED" => once[o] = "UNINITIALIZED"
           /\ Acquire(t) \/ Release(t) \/
                /\ holder' = holder
                /\ stack[t] # <<>> /\ ~AtEnd(Top(t)) => Instruction(Top(t)).op \notin {"lock", "unlock"}
<1>0. once \in [Onces -> {"UNINITIALIZED", "EXECUTING_CLOSURE", "DONE"}]
  BY DEF TypeInv
<1>1. CASE Load(t) \/ Wait(t)
  BY <1>1 DEF Load, Wait, Before
<1>2. CASE Swap(t)
  <2>1. Arg(t) \in Onces /\ made' = made /\ holder' = holder /\ Instruction(Top(t)).op = "once"
    BY <1>2, BeforeFacts DEF Swap
  <2>2. once[Arg(t)] \in {"UNINITIALIZED", "EXECUTING_CLOSURE", "DONE"}
    BY <1>0, <2>1
  <2>3. once' = once \/ once' = [once EXCEPT ![Arg(t)] = "EXECUTING_CLOSURE"]
    BY <1>2, <2>2 DEF Swap
  <2> QED
    BY <1>0, <2>1, <2>3
<1>3. CASE Return(t)
  BY <1>3 DEF Return
<1>4. CASE Store(t)
  <2>1. Arg(t) \in Onces /\ made' = made /\ holder' = holder /\ Instruction(Top(t)).op = "once"
        /\ once' = [once EXCEPT ![Arg(t)] = "DONE"]
    BY <1>4, BeforeFacts DEF Store
  <2> QED
    BY <1>0, <2>1
<1>5. CASE Acquire(t) \/ Release(t)
  BY <1>5 DEF Acquire, Release
<1>6. CASE MakeThing(t) \/ Decide(t)
  BY <1>6 DEF MakeThing, Decide, Before
<1> QED
  BY <1>1, <1>2, <1>3, <1>4, <1>5, <1>6 DEF Step

(* A closure is run by one frame of one thread.                            *)
LEMMA OwnRunner ==
    ASSUME TypeInv, RunInv, NEW t \in Threads, NEW k \in 1..Len(stack[t]),
           stack[t][k].of \in Onces
    PROVE  /\ once[stack[t][k].of] = "EXECUTING_CLOSURE"
           /\ RunsIn(stack[t], stack[t][k].of)
<1>1. Stands(stack[t]) /\ stack[t] \in Seq(Frames) /\ Len(stack[t]) \in Nat
  BY LenProperties DEF TypeInv
<1>2. k > 1
  <2>1. k = 1 \/ k > 1
    BY <1>1
  <2>2. k # 1
    BY <1>1, RankFacts DEF Stands
  <2> QED
    BY <2>1, <2>2
<1>3. k - 1 \in 1..Len(stack[t]) /\ k - 1 < Len(stack[t])
  BY <1>1, <1>2
<1>4. stack[t][k - 1].at = "run" /\ Instruction(stack[t][k - 1]).arg = stack[t][k].of
  BY <1>1, <1>2, <1>3 DEF Stands
<1>5. RunsIn(stack[t], stack[t][k].of)
  BY <1>3, <1>4 DEF RunsIn
<1> QED
  BY <1>5 DEF RunInv

LEMMA OneFrame ==
    ASSUME TypeInv, RunInv, NEW t \in Threads, NEW k \in 1..Len(stack[t]),
           NEW u \in Threads, NEW j \in 1..Len(stack[u]),
           stack[t][k].of \in Onces, stack[u][j].of = stack[t][k].of
    PROVE  u = t /\ j = k
<1>1. u = t
  BY OwnRunner DEF RunInv
<1>2. Stands(stack[t]) /\ Len(stack[t]) \in Nat
  BY LenProperties DEF TypeInv, Stands
<1>3. Rank(stack[t][k].of) \in 1..4
  BY RankFacts
<1>4. k < j \/ j < k \/ k = j
  BY <1>1, <1>2
<1>5. \A a, b \in 1..Len(stack[t]) : a < b => Rank(stack[t][b].of) < Rank(stack[t][a].of)
  BY <1>2 DEF Stands
<1> QED
  BY <1>1, <1>3, <1>4, <1>5

LEMMA OwnedFacts ==
    /\ Owned \subseteq Things /\ \A x \in Owned : Owner(x) \in Onces
    /\ Owned \cap BlockThings = {} /\ "file" \notin Owned /\ "type" \notin Owned
BY DEF Owned, Things, Mutexes, Owner, Onces, BlockThings

(* Who makes a thing of its own is at its place.                           *)
LEMMA OwnPlace ==
    ASSUME TypeInv, NEW t \in Threads, MakeThing(t), Arg(t) \in Owned
    PROVE  Top(t).of = Owner(Arg(t)) /\ Top(t).pc = Place(Arg(t))
<1> DEFINE r == Top(t).of
           i == Top(t).pc
<1>1. /\ r \in DOMAIN Program /\ i \in 1..Len(Program[r])
      /\ Program[r][i].op = "make" /\ Program[r][i].arg = Arg(t)
  BY MakeMoves
<1> HIDE DEF r, i
<1>2. i \notin Block(r)
  <2>1. Arg(t) \notin BlockThings
    BY OwnedFacts
  <2> QED
    BY <1>1, <2>1, BlockFacts
<1>3. \/ r = "shutdown" /\ i = 1 /\ Arg(t) = "shutdown"
      \/ r = "pool" /\ i = 1 /\ Arg(t) = "pool"
      \/ r = "pool" /\ i = 4 /\ Arg(t) = "poolCleanup"
      \/ r = "factory" /\ i = 1 /\ Arg(t) = "factory"
      \/ r = "factory" /\ i = 4 /\ Arg(t) = "factoryCleanup"
      \/ r = "assign" /\ i = 19 /\ Arg(t) = "descriptor"
  <2>1. Arg(t) \notin {"file", "type"}
    BY OwnedFacts
  <2> QED
    BY <1>1, <1>2, <2>1, MakeFacts
<1>4. r = Owner(Arg(t)) /\ i = Place(Arg(t))
  BY <1>3 DEF Owner, Place
<1> QED
  BY <1>4 DEF r, i

LEMMA OwnQuiet ==
    ASSUME TypeInv, OwnInv, NEW t \in Threads, Origins(t), NEW x \in Owned,
           made'[x] = made[x],
           once'[Owner(x)] = "UNINITIALIZED" => once[Owner(x)] = "UNINITIALIZED"
    PROVE  /\ once'[Owner(x)] = "UNINITIALIZED" => made'[x] = 0
           /\ \A u \in Threads : \A k \in 1..Len(stack'[u]) :
                stack'[u][k].of = Owner(x) /\ stack'[u][k].pc <= Place(x) => made'[x] = 0
<1>1. x \in Things /\ Owner(x) \in Onces
  BY OwnedFacts
<1>2. Place(x) \in Nat
  BY DEF Place
<1>3. once'[Owner(x)] = "UNINITIALIZED" => made'[x] = 0
  BY DEF OwnInv
<1>4. ASSUME NEW u \in Threads, NEW k \in 1..Len(stack'[u]),
             stack'[u][k].of = Owner(x), stack'[u][k].pc <= Place(x)
      PROVE  made[x] = 0
  <2>1. CASE k \in 1..Len(stack[u]) /\ stack'[u][k].of = stack[u][k].of
             /\ stack'[u][k].pc = stack[u][k].pc
    BY <1>4, <2>1 DEF OwnInv
  <2>2. CASE Begins(stack'[u][k].of)
    <3>1. Owner(x) \notin Requests
      BY <1>1, RankFacts
    <3> QED
      BY <1>4, <2>2, <3>1 DEF Begins, OwnInv
  <2>3. CASE GoesOn(t, stack'[u][k])
    <3>1. /\ stack[t] # <<>> /\ ~AtEnd(Top(t)) /\ Top(t).of = Owner(x)
      BY <1>4, <2>3 DEF GoesOn
    <3>2. /\ Len(stack[t]) \in 1..Len(stack[t]) /\ Top(t) = stack[t][Len(stack[t])]
          /\ Top(t) \in Frames /\ Top(t).pc \in Nat
      BY <3>1, TopFacts
    <3>3. Instruction(Top(t)).op = "unless" => Instruction(Top(t)).skip \in Nat
      BY <3>1, <3>2, InstructionFacts
    <3>4. \/ stack'[u][k].pc = Top(t).pc + 1
          \/ /\ Instruction(Top(t)).skip \in Nat
             /\ stack'[u][k].pc = Top(t).pc + (Instruction(Top(t)).skip + 1)
      BY <2>3, <3>3 DEF GoesOn
    <3>5. Top(t).pc <= Place(x)
      BY <1>2, <1>4, <3>2, <3>4
    <3> QED
      BY <3>1, <3>2, <3>5 DEF OwnInv
  <2> QED
    BY <2>1, <2>2, <2>3 DEF Origins
<1> QED
  BY <1>3, <1>4

LEMMA OwnStep ==
    ASSUME TypeInv, RunInv, FactInv, OwnInv, NEW t \in Threads, Step(t)
    PROVE  OwnInv'
<1> SUFFICES ASSUME NEW x \in Owned
             PROVE  /\ once'[Owner(x)] = "UNINITIALIZED" => made'[x] = 0
                    /\ \A u \in Threads : \A k \in 1..Len(stack'[u]) :
                         stack'[u][k].of = Owner(x) /\ stack'[u][k].pc <= Place(x)
                           => made'[x] = 0
  BY DEF OwnInv
<1>1. x \in Things /\ Owner(x) \in Onces
  BY OwnedFacts
<1>2. once'[Owner(x)] = "UNINITIALIZED" => once[Owner(x)] = "UNINITIALIZED"
  BY <1>1, OtherSteps
<1>3. Place(x) \in Nat
  BY DEF Place
<1>4. CASE made'[x] = made[x]
  BY <1>2, <1>4, StepFollows, OwnQuiet DEF FramesFollow
<1>5. CASE made'[x] # made[x]
  <2>1. MakeThing(t)
    BY <1>5, OtherSteps
  <2>2. Arg(t) = x
    BY <1>1, <1>5, <2>1, MakeMoves
  <2>3. Top(t).of = Owner(x) /\ Top(t).pc = Place(x)
    BY <2>1, <2>2, OwnPlace
  <2>4. /\ Len(stack[t]) \in 1..Len(stack[t]) /\ Top(t) = stack[t][Len(stack[t])] /\ OneOn(t)
    BY <2>1, MakeMoves, TopFacts
  <2>5. once[Owner(x)] = "EXECUTING_CLOSURE"
    BY <1>1, <2>3, <2>4, OwnRunner
  <2>6. ASSUME NEW u \in Threads, NEW k \in 1..Len(stack'[u]),
               stack'[u][k].of = Owner(x), stack'[u][k].pc <= Place(x)
        PROVE  FALSE
    <3>1. k \in 1..Len(stack[u]) /\ stack[u][k].of = Owner(x)
      BY <2>4, <2>6 DEF OneOn
    <3>2. u = t /\ k = Len(stack[t])
      BY <1>1, <2>3, <2>4, <3>1, OneFrame
    <3>3. stack'[u][k].pc = Place(x) + 1
      BY <2>3, <2>4, <3>2 DEF OneOn
    <3> QED
      BY <1>3, <2>6, <3>3
  <2> QED
    BY <1>2, <2>5, <2>6
<1> QED
  BY <1>4, <1>5

-----------------------------------------------------------------------------
(* The block of AddDesc.                                                   *)
LEMMA FirstOnly ==
    ASSUME TypeInv, NEW t \in Threads, NEW k \in 1..Len(stack[t]),
           stack[t][k].of \in Statics \cup Requests
    PROVE  k = 1
<1>1. Stands(stack[t]) /\ Len(stack[t]) \in Nat /\ stack[t] \in Seq(Frames)
  BY LenProperties DEF TypeInv
<1>2. k = 1 \/ k > 1
  BY <1>1
<1>3. CASE k > 1
  <2>1. k - 1 \in 1..Len(stack[t]) /\ k - 1 < Len(stack[t])
    BY <1>1, <1>3
  <2>2. stack[t][k - 1].at = "run" /\ stack[t][k - 1] \in Frames
    BY <1>1, <2>1, ElementOfSeq DEF Stands
  <2>3. AtOnce(stack[t][k - 1])
    BY <1>1, <2>1, <2>2 DEF Stands
  <2>4. stack[t][k].of \in Onces
    BY <1>1, <1>3, <2>2, <2>3, InstructionFacts DEF Stands, AtOnce
  <2> QED
    BY <2>4, RankFacts
<1> QED
  BY <1>2, <1>3

(* How a frame comes to its next place: from the one before it, or over    *)
(* one of the blocks.                                                      *)
Skips(r, i, j) ==
    \/ r \in {"assign", "static"} /\ i = 1 /\ j = 12
    \/ r = "staticAfterUse" /\ i = 2 /\ j = 13
    \/ r = "newByName" /\ i = 15 /\ j = 26
    \/ r = "assign" /\ i = 14 /\ j = 16
    \/ r = "newByName" /\ i = 3 /\ j = 5
    \/ r = "newByName" /\ i = 8 /\ j = 28
    \/ r = "newByName" /\ i = 12 /\ j = 28
    \/ r = "newByName" /\ i = 14 /\ j = 26

LEMMA GoesTo ==
    ASSUME TypeInv, NEW t \in Threads, NEW f, GoesOn(t, f)
    PROVE  /\ f.of = Top(t).of /\ Top(t).of \in DOMAIN Program
           /\ Top(t).pc \in 1..Len(Program[Top(t).of])
           /\ Len(stack[t]) \in 1..Len(stack[t]) /\ Top(t) = stack[t][Len(stack[t])]
           /\ Instruction(Top(t)) = Program[Top(t).of][Top(t).pc]
           /\ Arg(t) = Program[Top(t).of][Top(t).pc].arg
           /\ stack[t] # <<>> /\ ~AtEnd(Top(t))
           /\ \/ /\ f.pc = Top(t).pc + 1
                 /\ Instruction(Top(t)).op = "unless" => made[Arg(t)] = 0
              \/ Skips(Top(t).of, Top(t).pc, f.pc)
<1> DEFINE r == Top(t).of
           i == Top(t).pc
<1>1. stack[t] # <<>> /\ ~AtEnd(Top(t)) /\ f.of = r
  BY DEF GoesOn
<1>2. /\ r \in DOMAIN Program /\ i \in 1..Len(Program[r])
      /\ Len(stack[t]) \in 1..Len(stack[t]) /\ Top(t) = stack[t][Len(stack[t])]
  BY <1>1, TopFacts, InstructionFacts
<1>3. Instruction(Top(t)) = Program[r][i] /\ Arg(t) = Program[r][i].arg
  BY DEF Arg, Instruction
<1>4. CASE Instruction(Top(t)).op = "unless" /\ f.pc = i + (Instruction(Top(t)).skip + 1)
  <2> DEFINE n == Instruction(Top(t)).skip
             j == f.pc
  <2>1. n = Program[r][i].skip /\ Program[r][i].op = "unless" /\ j = i + (n + 1)
    BY <1>3, <1>4
  <2> HIDE DEF r, i, n, j
  <2>2. \/ r \in {"assign", "static"} /\ i = 1 /\ n = 10
        \/ r = "staticAfterUse" /\ i = 2 /\ n = 10
        \/ r = "newByName" /\ i = 15 /\ n = 10
        \/ r = "assign" /\ i = 14 /\ n = 1
        \/ r = "newByName" /\ i = 3 /\ n = 1
        \/ r = "newByName" /\ i = 8 /\ n = 19
        \/ r = "newByName" /\ i = 12 /\ n = 15
        \/ r = "newByName" /\ i = 14 /\ n = 11
    BY <1>2, <2>1, UnlessFacts DEF UnlessAt
  <2>3. Skips(r, i, j)
    BY <2>1, <2>2 DEF Skips
  <2> QED
    BY <1>1, <1>2, <1>3, <2>3 DEF r, i, j
<1>5. CASE f.pc = i + 1 /\ (Instruction(Top(t)).op = "unless" => made[Arg(t)] = 0)
  BY <1>1, <1>2, <1>3, <1>5
<1> QED
  BY <1>4, <1>5 DEF GoesOn

LEMMA NearCode ==
    /\ Program["static"][1].op = "unless" /\ Program["static"][1].arg = "alreadyHere"
    /\ Program["assign"][1].op = "unless" /\ Program["assign"][1].arg = "alreadyHere"
    /\ Program["staticAfterUse"][2].op = "unless"
    /\ Program["staticAfterUse"][2].arg = "alreadyHere"
<1>1. /\ Program["static"][0 + 1] = U("alreadyHere", 10)
      /\ Program["assign"][0 + 1] = U("alreadyHere", 10)
      /\ Program["staticAfterUse"][1 + 1] = U("alreadyHere", 10)
  BY AddDescPlaces DEF AddDescAt
<1>2. /\ Program["static"][1] = U("alreadyHere", 10)
      /\ Program["assign"][1] = U("alreadyHere", 10)
      /\ Program["staticAfterUse"][2] = U("alreadyHere", 10)
  BY <1>1
<1>3. \A x, n : U(x, n).op = "unless" /\ U(x, n).arg = x
  BY DEF U
<1> QED
  BY <1>2, <1>3

(* Only the main thread comes into the block, and finds nothing there.     *)
LEMMA EntersBlock ==
    ASSUME TypeInv, FactInv, BlockInv, NEW t \in Threads, NEW f, GoesOn(t, f), InBlock(f)
    PROVE  \/ InBlock(Top(t)) /\ f.pc = Top(t).pc + 1
           \/ t = Main /\ \A x \in BlockThings : made[x] = 0
<1> DEFINE r == Top(t).of
           i == Top(t).pc
           j == f.pc
<1>1. /\ f.of = r /\ r \in {"static", "assign", "staticAfterUse"} /\ j \in Block(r)
      /\ i \in 1..Len(Program[r]) /\ stack[t] # <<>>
  BY GoesTo DEF InBlock
<1>2. Arg(t) = Program[r][i].arg /\ Instruction(Top(t)).op = Program[r][i].op
  BY GoesTo
<1>3. /\ j = i + 1 /\ (Program[r][i].op = "unless" => made[Arg(t)] = 0)
      \/ Skips(r, i, j)
  BY <1>2, GoesTo
<1>4. InBlock(Top(t)) <=> i \in Block(r)
  BY <1>1 DEF InBlock
<1> HIDE DEF r, i, j
<1>5. Block(r) = IF r = "staticAfterUse" THEN 3..12 ELSE 2..11
  BY <1>1, Blocks
<1>6. ~Skips(r, i, j)
  BY <1>1, <1>5 DEF Skips
<1>7. j = i + 1 /\ (Program[r][i].op = "unless" => made[Arg(t)] = 0)
  BY <1>3, <1>6
<1>8. i \in Nat /\ i > 0
  BY <1>1
<1>9. CASE i \notin Block(r)
  <2>1. i = IF r = "staticAfterUse" THEN 2 ELSE 1
    <3>1. CASE r = "staticAfterUse"
      <4>1. Block(r) = 3..12
        BY <1>5, <3>1
      <4> QED
        BY <1>1, <1>7, <1>8, <1>9, <3>1, <4>1
    <3>2. CASE r # "staticAfterUse"
      <4>1. Block(r) = 2..11
        BY <1>5, <3>2
      <4> QED
        BY <1>1, <1>7, <1>8, <1>9, <3>2, <4>1
    <3> QED
      BY <3>1, <3>2
  <2>2. Program[r][i].op = "unless" /\ Program[r][i].arg = "alreadyHere"
    BY <1>1, <2>1, NearCode
  <2>3. made["alreadyHere"] = 0
    BY <1>2, <1>7, <2>2
  <2>4. \A x \in BlockThings : made[x] = 0
    BY <2>3 DEF BlockInv
  <2>5. ~BlockDone
    BY <2>3 DEF BlockDone, BlockThings
  <2>6. t = Main
    BY <1>1, <2>5 DEF FactInv
  <2> QED
    BY <2>4, <2>6
<1>10. CASE i \in Block(r)
  <2>1. j = i + 1
    BY <1>7
  <2> QED
    BY <1>4, <1>10, <2>1 DEF i, j
<1> QED
  BY <1>9, <1>10

(* Nobody runs the block for a type found by name.                         *)
LEMMA NotByName ==
    ASSUME TypeInv, FactInv, BlockInv, NEW t \in Threads, NEW f, GoesOn(t, f),
           f.of = "newByName"
    PROVE  f.pc \notin 15..25
<1> DEFINE i == Top(t).pc
           j == f.pc
<1>1. /\ Top(t).of = "newByName" /\ i \in 1..Len(Program["newByName"])
      /\ Len(stack[t]) \in 1..Len(stack[t]) /\ Top(t) = stack[t][Len(stack[t])]
  BY GoesTo
<1>2. Arg(t) = Program["newByName"][i].arg /\ Instruction(Top(t)) = Program["newByName"][i]
  BY <1>1, GoesTo
<1>3. /\ j = i + 1 /\ (Program["newByName"][i].op = "unless" => made[Arg(t)] = 0)
      \/ Skips("newByName", i, j)
  BY <1>1, <1>2, GoesTo
<1>4. i \notin 15..25
  BY <1>1 DEF BlockInv
<1>5. BlockDone
  <2>1. stack[t][Len(stack[t])].of \in Requests
    BY <1>1 DEF Requests
  <2> QED
    BY <1>1, <2>1, AfterStart
<1>6. i # 14 \/ j # i + 1 \/ Program["newByName"][14].op # "unless"
      \/ Program["newByName"][14].arg # "defaultInstance"
  <2>1. made["defaultInstance"] # 0
    BY <1>5 DEF BlockDone, BlockThings
  <2> HIDE DEF i, j
  <2>2. ~Skips("newByName", 14, 15)
    BY DEF Skips
  <2> QED
    BY <1>2, <1>3, <2>1, <2>2
<1>7. Program["newByName"][14].op = "unless" /\ Program["newByName"][14].arg = "defaultInstance"
  BY NewByNameCode DEF U
<1> HIDE DEF i, j
<1>8. i \in Nat
  BY <1>1
<1>9. Skips("newByName", i, j) => j \in {5, 26, 28}
  BY DEF Skips
<1>10. j = i + 1 => j \notin 15..25
  BY <1>4, <1>6, <1>7, <1>8
<1>11. j \notin 15..25
  BY <1>3, <1>9, <1>10
<1> QED
  BY <1>11 DEF j

LEMMA BlockQuiet ==
    ASSUME TypeInv, RunInv, FactInv, BlockInv, NEW t \in Threads, Origins(t),
           \A x \in BlockThings : made'[x] = made[x]
    PROVE  BlockInv'
<1>1. (made["alreadyHere"] = 0 => \A x \in BlockThings : made[x] = 0)'
  BY DEF BlockInv, BlockThings
<1>2. ASSUME NEW u \in Threads, NEW k \in 1..Len(stack'[u]), InBlock(stack'[u][k])
      PROVE  /\ u = Main
             /\ \A i \in Block(stack'[u][k].of) :
                  i >= stack'[u][k].pc /\ Program[stack'[u][k].of][i].op = "make"
                    => made'[Program[stack'[u][k].of][i].arg] = 0
  <2> DEFINE f == stack'[u][k]
  <2>1. f.of \in {"static", "assign", "staticAfterUse"} /\ f.of \in DOMAIN Program
        /\ f.pc \in Block(f.of)
    BY <1>2, RankFacts DEF InBlock, Statics, Onces
  <2>2. \A i \in Block(f.of) : Program[f.of][i].op = "make" => Program[f.of][i].arg \in BlockThings
    BY <2>1, BlockFacts
  <2>3. ASSUME u = Main,
               \A i \in Block(f.of) : i >= f.pc /\ Program[f.of][i].op = "make"
                                        => made[Program[f.of][i].arg] = 0
        PROVE  /\ u = Main
               /\ \A i \in Block(f.of) : i >= f.pc /\ Program[f.of][i].op = "make"
                                           => made'[Program[f.of][i].arg] = 0
    BY <2>2, <2>3
  <2>4. CASE k \in 1..Len(stack[u]) /\ f.of = stack[u][k].of /\ f.pc = stack[u][k].pc
    <3>1. InBlock(stack[u][k])
      BY <1>2, <2>4 DEF InBlock
    <3>2. /\ u = Main
          /\ \A i \in Block(stack[u][k].of) :
               i >= stack[u][k].pc /\ Program[stack[u][k].of][i].op = "make"
                 => made[Program[stack[u][k].of][i].arg] = 0
      BY <2>4, <3>1 DEF BlockInv
    <3> HIDE DEF f
    <3>3. \A i \in Block(f.of) : i >= f.pc /\ Program[f.of][i].op = "make"
                                   => made[Program[f.of][i].arg] = 0
      BY <2>4, <3>2
    <3> QED
      BY <2>3, <3>2, <3>3 DEF f
  <2>5. CASE f.pc = 1
    BY <2>1, <2>5, Blocks
  <2>6. CASE u = t /\ GoesOn(t, f)
    <3>1. CASE t = Main /\ \A x \in BlockThings : made[x] = 0
      BY <2>2, <2>3, <2>6, <3>1
    <3>2. CASE InBlock(Top(t)) /\ f.pc = Top(t).pc + 1
      <4>1. /\ Len(stack[t]) \in 1..Len(stack[t]) /\ Top(t) = stack[t][Len(stack[t])]
            /\ f.of = Top(t).of
        BY <2>6, GoesTo
      <4>2. /\ t = Main
            /\ \A i \in Block(Top(t).of) :
                 i >= Top(t).pc /\ Program[Top(t).of][i].op = "make"
                   => made[Program[Top(t).of][i].arg] = 0
        <5> DEFINE g == stack[t][Len(stack[t])]
        <5>1. InBlock(g)
          BY <3>2, <4>1
        <5>2. /\ t = Main
              /\ \A i \in Block(g.of) : i >= g.pc /\ Program[g.of][i].op = "make"
                                          => made[Program[g.of][i].arg] = 0
          BY <4>1, <5>1 DEF BlockInv
        <5> QED
          BY <4>1, <5>2
      <4>3. \A i \in Block(f.of) : i >= f.pc => i >= Top(t).pc
        <5>1. Block(f.of) = 2..11 \/ Block(f.of) = 3..12
          BY <2>1, Blocks
        <5>2. \A i \in Block(f.of) : i \in Int
          BY <5>1
        <5>3. Top(t).pc \in Int
          BY <3>2, <4>1, <5>2 DEF InBlock
        <5> HIDE DEF f
        <5> QED
          BY <3>2, <5>2, <5>3
      <4> QED
        BY <2>3, <2>6, <4>1, <4>2, <4>3
    <3> QED
      BY <1>2, <2>6, <3>1, <3>2, EntersBlock
  <2> QED
    BY <2>4, <2>5, <2>6 DEF Origins
<1>3. ASSUME NEW u \in Threads, NEW k \in 1..Len(stack'[u]), stack'[u][k].of = "newByName"
      PROVE  stack'[u][k].pc \notin 15..25
  <2>1. CASE k \in 1..Len(stack[u]) /\ stack'[u][k].of = stack[u][k].of
             /\ stack'[u][k].pc = stack[u][k].pc
    BY <1>3, <2>1 DEF BlockInv
  <2>2. CASE stack'[u][k].pc = 1
    BY <2>2
  <2>3. CASE GoesOn(t, stack'[u][k])
    BY <1>3, <2>3, NotByName
  <2> QED
    BY <2>1, <2>2, <2>3 DEF Origins
<1> QED
  BY <1>1, <1>2, <1>3 DEF BlockInv, InBlock

LEMMA BlockMake ==
    ASSUME TypeInv, FactInv, BlockInv, NEW t \in Threads, MakeThing(t),
           Arg(t) \in BlockThings
    PROVE  BlockInv' /\ made[Arg(t)] = 0
<1> DEFINE r == Top(t).of
           i == Top(t).pc
           n == Len(stack[t])
           b == Base(r)
<1>1. /\ r \in DOMAIN Program /\ i \in 1..Len(Program[r]) /\ Program[r][i].op = "make"
      /\ Program[r][i].arg = Arg(t) /\ OneOn(t) /\ stack[t] # <<>>
      /\ \A x \in Things : made'[x] = IF x = Arg(t) THEN made[x] + 1 ELSE made[x]
  BY MakeMoves
<1>2. n \in 1..n /\ Top(t) = stack[t][n]
  BY <1>1, TopFacts
<1>3. r \in {"assign", "static", "staticAfterUse", "newByName"} /\ i \in Block(r)
  <2>1. Arg(t) \notin {"shutdown", "pool", "poolCleanup", "factory", "factoryCleanup", "file",
                       "descriptor", "type"}
    BY DEF BlockThings
  <2> HIDE DEF r, i
  <2> QED
    BY <1>1, <2>1, MakeFacts
<1>4. r # "newByName"
  <2>1. r = "newByName" => i \notin 15..25
    BY <1>2 DEF BlockInv
  <2> HIDE DEF r, i
  <2> QED
    BY <1>3, <2>1, Blocks
<1>5. InBlock(stack[t][n])
  BY <1>2, <1>3, <1>4 DEF InBlock
<1>6. /\ t = Main
      /\ \A j \in Block(r) : j >= i /\ Program[r][j].op = "make"
                               => made[Program[r][j].arg] = 0
  <2> DEFINE g == stack[t][n]
  <2>1. /\ t = Main
        /\ \A j \in Block(g.of) : j >= g.pc /\ Program[g.of][j].op = "make"
                                    => made[Program[g.of][j].arg] = 0
    BY <1>2, <1>5 DEF BlockInv
  <2> QED
    BY <1>2, <2>1
<1>7. Passed(stack[t][n])
  BY <1>2 DEF FactInv
<1>8. \A j \in 1..(i - 1) : Done(r, j)
  BY <1>2, <1>7 DEF Passed
<1>9. \A u \in Threads : \A k \in 1..Len(stack[u]) :
        InBlock(stack[u][k]) => u = t /\ k = n
  <2> SUFFICES ASSUME NEW u \in Threads, NEW k \in 1..Len(stack[u]), InBlock(stack[u][k])
               PROVE  u = t /\ k = n
    OBVIOUS
  <2>1. u = t
    BY <1>6 DEF BlockInv
  <2>2. Stands(stack[t]) /\ NearBlock(stack[t][k]) /\ NearBlock(stack[t][n])
    BY <1>5, <2>1 DEF TypeInv, NearBlock
  <2> QED
    BY <1>2, <2>1, <2>2, OneBlock
<1> HIDE DEF r, i, b
<1>10. /\ b \in Nat /\ AddDescAt(Program[r], b) /\ Block(r) = (b + 2)..(b + 11)
  BY <1>3, BaseFacts DEF b
<1>11. i \in (b + 2)..(b + 11)
  BY <1>3, <1>10
<1>12. made[Arg(t)] = 0
  <2>1. i >= i
    BY <1>11
  <2> QED
    BY <1>1, <1>3, <1>6, <2>1
<1>13. Arg(t) = "alreadyHere" \/ made["alreadyHere"] > 0
  <2>1. SUFFICES ASSUME Arg(t) # "alreadyHere" PROVE made["alreadyHere"] > 0
    OBVIOUS
  <2>2. i # b + 2
    <3>1. Program[r][b + 2].arg = "alreadyHere"
      BY <1>10 DEF AddDescAt, I
    <3> QED
      BY <1>1, <2>1, <3>1
  <2>3. b + 2 \in 1..(i - 1)
    BY <1>10, <1>11, <2>2
  <2>4. Done(r, b + 2)
    BY <1>8, <2>3
  <2> QED
    BY <1>10, <2>4 DEF Done, AddDescAt, I
<1>14. made'["alreadyHere"] > 0
  <2>1. "alreadyHere" \in Things /\ made["alreadyHere"] \in Nat
    BY DEF Things, TypeInv
  <2>2. CASE Arg(t) = "alreadyHere"
    BY <1>1, <2>1, <2>2
  <2>3. CASE Arg(t) # "alreadyHere"
    BY <1>1, <1>13, <2>1, <2>3
  <2> QED
    BY <2>2, <2>3
<1>15. \A j \in (b + 2)..(b + 11) : j # i /\ Program[r][j].op = "make"
                                      => Program[r][j].arg # Arg(t)
  <2> SUFFICES ASSUME NEW j \in (b + 2)..(b + 11), j # i, Program[r][j].op = "make"
               PROVE  Program[r][j].arg # Arg(t)
    OBVIOUS
  <2>1. \/ j = b + 2 /\ Program[r][j].arg = "alreadyHere"
        \/ j = b + 4 /\ Program[r][j].arg = "encodedFile"
        \/ j = b + 6 /\ Program[r][j].arg = "registration"
        \/ j = b + 7 /\ Program[r][j].arg = "defaultInstance"
        \/ j = b + 10 /\ Program[r][j].arg = "fileCleanup"
    BY <1>10, BlockMakes
  <2>2. \/ i = b + 2 /\ Program[r][i].arg = "alreadyHere"
        \/ i = b + 4 /\ Program[r][i].arg = "encodedFile"
        \/ i = b + 6 /\ Program[r][i].arg = "registration"
        \/ i = b + 7 /\ Program[r][i].arg = "defaultInstance"
        \/ i = b + 10 /\ Program[r][i].arg = "fileCleanup"
    BY <1>1, <1>10, <1>11, BlockMakes
  <2> QED
    BY <1>1, <2>1, <2>2
<1>16. ASSUME NEW u \in Threads, NEW k \in 1..Len(stack'[u]), InBlock(stack'[u][k])
       PROVE  /\ u = Main
              /\ \A j \in Block(stack'[u][k].of) :
                   j >= stack'[u][k].pc /\ Program[stack'[u][k].of][j].op = "make"
                     => made'[Program[stack'[u][k].of][j].arg] = 0
  <2>1. k \in 1..Len(stack[u]) /\ stack'[u][k].of = stack[u][k].of
    BY <1>1 DEF OneOn
  <2>2. u = t /\ k = n
    <3>1. SUFFICES ASSUME u # t \/ k # n PROVE FALSE
      OBVIOUS
    <3>2. stack'[u][k].pc = stack[u][k].pc
      BY <1>1, <2>1, <3>1 DEF OneOn
    <3>3. InBlock(stack[u][k])
      BY <1>16, <2>1, <3>2 DEF InBlock
    <3> QED
      BY <1>9, <2>1, <3>1, <3>3
  <2>3. stack'[u][k].of = r /\ stack'[u][k].pc = i + 1
    BY <1>1, <1>2, <2>1, <2>2 DEF OneOn, r, i
  <2>4. ASSUME NEW j \in Block(r), j >= i + 1, Program[r][j].op = "make"
        PROVE  made'[Program[r][j].arg] = 0
    <3>1. j \in (b + 2)..(b + 11) /\ j # i /\ j >= i
      BY <1>10, <1>11, <2>4
    <3>2. Program[r][j].arg # Arg(t)
      BY <1>15, <2>4, <3>1
    <3>3. made[Program[r][j].arg] = 0
      BY <1>6, <2>4, <3>1
    <3>4. Program[r][j].arg \in Things
      BY <1>1, <2>4, BlockFacts DEF BlockThings, Things
    <3> QED
      BY <1>1, <3>2, <3>3, <3>4
  <2> QED
    BY <1>6, <2>2, <2>3, <2>4
<1>17. ASSUME NEW u \in Threads, NEW k \in 1..Len(stack'[u]), stack'[u][k].of = "newByName"
       PROVE  stack'[u][k].pc \notin 15..25
  <2>1. k \in 1..Len(stack[u]) /\ stack'[u][k].of = stack[u][k].of
    BY <1>1 DEF OneOn
  <2>2. u # t \/ k # n
    BY <1>2, <1>4, <1>17, <2>1 DEF r
  <2>3. stack'[u][k].pc = stack[u][k].pc
    BY <1>1, <2>1, <2>2 DEF OneOn
  <2> QED
    BY <1>17, <2>1, <2>3 DEF BlockInv
<1>18. (made["alreadyHere"] = 0 => \A x \in BlockThings : made[x] = 0)'
  BY <1>14
<1>19. BlockInv'
  BY <1>16, <1>17, <1>18 DEF BlockInv, InBlock
<1> QED
  BY <1>12, <1>19

-----------------------------------------------------------------------------
(* The file and the type, made under a mutex.                              *)
LEMMA NotUnlock ==
    /\ \A j \in {1, 12, 13, 14, 15, 17, 18, 19} : Program["assign"][j].op # "unlock"
    /\ \A j \in {1, 2, 3, 4, 6, 7, 8, 10, 11, 12, 13, 14, 15, 26, 27} :
         Program["newByName"][j].op # "unlock"
    /\ Program["static"][1].op # "unlock"
    /\ \A j \in {1, 2} : Program["staticAfterUse"][j].op # "unlock"
<1>1. \A op, x : I(op, x).op = op
  BY DEF I
<1>2. \A x, n : U(x, n).op = "unless"
  BY DEF U
<1>3. /\ Program["assign"][0 + 1] = U("alreadyHere", 10)
      /\ Program["static"][0 + 1] = U("alreadyHere", 10)
      /\ Program["staticAfterUse"][1 + 1] = U("alreadyHere", 10)
      /\ Program["newByName"][14 + 1] = U("alreadyHere", 10)
  BY AddDescPlaces DEF AddDescAt
<1>4. /\ Program["assign"][1].op = "unless" /\ Program["static"][1].op = "unless"
      /\ Program["staticAfterUse"][2].op = "unless" /\ Program["newByName"][15].op = "unless"
  BY <1>2, <1>3
<1>5. \A j \in {12, 13, 14, 15, 17, 18, 19} : Program["assign"][j].op # "unlock"
  BY <1>1, <1>2, AssignCode
<1>6. \A j \in {1, 2, 3, 4, 6, 7} : Program["newByName"][j].op # "unlock"
  BY <1>1, <1>2, NewByNameCode
<1>7. \A j \in {8, 10, 11, 12} : Program["newByName"][j].op # "unlock"
  BY <1>1, <1>2, NewByNameCode
<1>8. \A j \in {13, 14, 26, 27} : Program["newByName"][j].op # "unlock"
  BY <1>1, <1>2, NewByNameCode
<1>9. Program["staticAfterUse"][1].op # "unlock"
  BY <1>1, ShortCode
<1>10. \A j \in {1, 2, 3, 4, 6, 7, 8, 10, 11, 12, 13, 14, 15, 26, 27} :
         j \in {1, 2, 3, 4, 6, 7} \/ j \in {8, 10, 11, 12} \/ j \in {13, 14, 26, 27} \/ j = 15
  OBVIOUS
<1>11. \A j \in {1, 2, 3, 4, 6, 7, 8, 10, 11, 12, 13, 14, 15, 26, 27} :
         Program["newByName"][j].op # "unlock"
  BY <1>4, <1>6, <1>7, <1>8, <1>10
<1>12. \A j \in {1, 12, 13, 14, 15, 17, 18, 19} : Program["assign"][j].op # "unlock"
  BY <1>4, <1>5
<1>13. /\ Program["static"][1].op # "unlock"
       /\ \A j \in {1, 2} : Program["staticAfterUse"][j].op # "unlock"
  BY <1>4, <1>9
<1> QED
  BY <1>11, <1>12, <1>13

LEMMA BlockUnlocks ==
    ASSUME NEW list, NEW k \in Nat, AddDescAt(list, k), NEW i \in (k + 2)..(k + 11),
           list[i].op = "unlock"
    PROVE  list[i].arg = "shutdown"
<1>1. \/ i = k + 2 \/ i = k + 3 \/ i = k + 4 \/ i = k + 5 \/ i = k + 6 \/ i = k + 7
      \/ i = k + 8 \/ i = k + 9 \/ i = k + 10 \/ i = k + 11
  OBVIOUS
<1> QED
  BY <1>1 DEF AddDescAt, I, U

LEMMA UnlockFacts ==
    ASSUME NEW r \in DOMAIN Program, NEW i \in 1..Len(Program[r]), Program[r][i].op = "unlock"
    PROVE  \/ Program[r][i].arg = "shutdown"
           \/ r = "assign" /\ i = 16 /\ Program[r][i].arg = "pool"
           \/ r = "newByName" /\ i = 5 /\ Program[r][i].arg = "pool"
           \/ r = "newByName" /\ i \in {9, 28} /\ Program[r][i].arg = "factory"
<1>1. \/ r = "assign" \/ r = "static" \/ r = "staticAfterUse" \/ r = "newByName"
      \/ r = "shutdown" \/ r = "pool" \/ r = "factory" \/ r = "metadata"
  BY RankFacts DEF Onces, Statics, Requests
<1>2. \A op, x : I(op, x).op = op /\ I(op, x).arg = x
  BY DEF I
<1>3. CASE r \in {"assign", "static", "staticAfterUse", "newByName"} /\ i \in Block(r)
  <2> DEFINE k == Base(r)
  <2>1. k \in Nat /\ AddDescAt(Program[r], k) /\ i \in (k + 2)..(k + 11)
    BY <1>3, BaseFacts
  <2> HIDE DEF k
  <2> QED
    BY <2>1, BlockUnlocks
<1>4. CASE r = "assign" /\ i \notin Block(r)
  <2>1. \A j \in 1..19 : j = 1 \/ j \in 2..11 \/ j = 12 \/ j = 13 \/ j = 14 \/ j = 15 \/ j = 16
                         \/ j = 17 \/ j = 18 \/ j = 19
    OBVIOUS
  <2>2. i \in 1..19 /\ i \notin 2..11 /\ i \notin {1, 12, 13, 14, 15, 17, 18, 19}
    BY <1>4, Lengths, Blocks, NotUnlock
  <2>3. i = 16
    BY <2>1, <2>2
  <2> QED
    BY <1>2, <1>4, <2>3, AssignCode
<1>5. CASE r = "static" /\ i \notin Block(r)
  <2>1. \A j \in 1..11 : j = 1 \/ j \in 2..11
    OBVIOUS
  <2> QED
    BY <1>5, <2>1, Lengths, Blocks, NotUnlock
<1>6. CASE r = "staticAfterUse" /\ i \notin Block(r)
  <2>1. \A j \in 1..12 : j = 1 \/ j = 2 \/ j \in 3..12
    OBVIOUS
  <2> QED
    BY <1>6, <2>1, Lengths, Blocks, NotUnlock
<1>7. CASE r = "newByName" /\ i \notin Block(r)
  <2>1. \A j \in 1..28 : \/ j = 1 \/ j = 2 \/ j = 3 \/ j = 4 \/ j = 5 \/ j = 6 \/ j = 7 \/ j = 8
                         \/ j = 9 \/ j = 10 \/ j = 11 \/ j = 12 \/ j = 13 \/ j = 14 \/ j = 15
                         \/ j \in 16..25 \/ j = 26 \/ j = 27 \/ j = 28
    OBVIOUS
  <2>2. i \in 1..28 /\ i \notin 16..25
        /\ i \notin {1, 2, 3, 4, 6, 7, 8, 10, 11, 12, 13, 14, 15, 26, 27}
    BY <1>7, Lengths, Blocks, NotUnlock
  <2>3. i = 5 \/ i = 9 \/ i = 28
    BY <2>1, <2>2
  <2>4. /\ Program["newByName"][5].arg = "pool" /\ Program["newByName"][9].arg = "factory"
        /\ Program["newByName"][28].arg = "factory"
    BY <1>2, NewByNameCode
  <2> QED
    BY <1>7, <2>3, <2>4
<1>8. CASE r \in {"shutdown", "metadata"}
  <2>1. i = 1
    <3>1. Len(Program[r]) = 1
      BY <1>8, Lengths
    <3> QED
      BY <3>1
  <2> QED
    BY <1>2, <1>8, <2>1, ShortCode
<1>9. CASE r \in {"pool", "factory"}
  <2>1. \A j \in 1..5 : j = 1 \/ j = 2 \/ j = 3 \/ j = 4 \/ j = 5
    OBVIOUS
  <2>2. i \in 1..5
    BY <1>9, Lengths
  <2>3. \A j \in {1, 2, 3, 4} : /\ Program["pool"][j].op # "unlock"
                                /\ Program["factory"][j].op # "unlock"
    BY <1>2, ShortCode
  <2>4. i = 5
    BY <1>9, <2>1, <2>2, <2>3
  <2>5. Program["pool"][5].arg = "shutdown" /\ Program["factory"][5].arg = "shutdown"
    BY <1>2, ShortCode
  <2> QED
    BY <1>9, <2>4, <2>5
<1> QED
  BY <1>1, <1>3, <1>4, <1>5, <1>6, <1>7, <1>8, <1>9

LEMMA EntersCode ==
    /\ Program["assign"][13].op = "lock" /\ Program["assign"][13].arg = "pool"
    /\ Program["newByName"][2].op = "lock" /\ Program["newByName"][2].arg = "pool"
    /\ Program["newByName"][7].op = "lock" /\ Program["newByName"][7].arg = "factory"
    /\ Program["newByName"][11].op = "lock" /\ Program["newByName"][11].arg = "factory"
    /\ Program["assign"][14].op = "unless" /\ Program["assign"][14].arg = "file"
    /\ Program["newByName"][3].op = "unless" /\ Program["newByName"][3].arg = "file"
    /\ Program["newByName"][12].op = "unless" /\ Program["newByName"][12].arg = "type"
<1>1. \A op, x : I(op, x).op = op /\ I(op, x).arg = x
  BY DEF I
<1>2. \A x, n : U(x, n).op = "unless" /\ U(x, n).arg = x
  BY DEF U
<1> QED
  BY <1>1, <1>2, AssignCode, NewByNameCode

(* Whoever comes between lock and unlock was there or has locked.          *)
LEMMA ComesInside ==
    ASSUME TypeInv, NEW t \in Threads, NEW f, GoesOn(t, f), NEW m \in {"pool", "factory"},
           Inside(f.of, f.pc, m)
    PROVE  \/ Inside(Top(t).of, Top(t).pc, m)
           \/ Instruction(Top(t)).op = "lock" /\ Arg(t) = m
<1> DEFINE r == Top(t).of
           i == Top(t).pc
           j == f.pc
<1>1. /\ f.of = r /\ i \in 1..Len(Program[r]) /\ Instruction(Top(t)) = Program[r][i]
      /\ Arg(t) = Program[r][i].arg /\ (j = i + 1 \/ Skips(r, i, j))
  BY GoesTo
<1>2. Inside(r, j, m)
  BY <1>1
<1> HIDE DEF r, i, j
<1>3. CASE Skips(r, i, j)
  <2>1. Inside(r, i, m)
    BY <1>2, <1>3 DEF Skips, Inside
  <2> QED
    BY <2>1 DEF r, i
<1>4. CASE j = i + 1
  <2>1. i \in Nat
    BY <1>1
  <2>2. \/ Inside(r, i, m)
        \/ r = "assign" /\ i = 13 /\ m = "pool"
        \/ r = "newByName" /\ i = 2 /\ m = "pool"
        \/ r = "newByName" /\ i = 7 /\ m = "factory"
        \/ r = "newByName" /\ i = 11 /\ m = "factory"
    BY <1>2, <1>4, <2>1 DEF Inside
  <2>3. Inside(r, i, m) \/ (Program[r][i].op = "lock" /\ Program[r][i].arg = m)
    BY <2>2, EntersCode
  <2> QED
    BY <1>1, <2>3 DEF r, i
<1> QED
  BY <1>1, <1>3, <1>4

(* One frame at a time is between lock and unlock.                         *)
LEMMA OneInside ==
    ASSUME TypeInv, LockInv, NEW m \in {"pool", "factory"},
           NEW t \in Threads, NEW k \in 1..Len(stack[t]),
           NEW u \in Threads, NEW j \in 1..Len(stack[u]),
           Inside(stack[t][k].of, stack[t][k].pc, m), Inside(stack[u][j].of, stack[u][j].pc, m)
    PROVE  u = t /\ j = k
<1>1. holder[m] = {t} /\ holder[m] = {u}
  BY DEF LockInv
<1>2. u = t
  BY <1>1
<1>3. CASE m = "factory"
  <2>1. stack[t][k].of \in Requests /\ stack[t][j].of \in Requests
    BY <1>2, <1>3 DEF Inside, Requests
  <2> QED
    BY <1>2, <2>1, FirstOnly
<1>4. CASE m = "pool"
  <2>1. ASSUME NEW a \in 1..Len(stack[t]), Inside(stack[t][a].of, stack[t][a].pc, "pool")
        PROVE  a = Len(stack[t])
    <3>1. Stands(stack[t]) /\ Len(stack[t]) \in Nat
      BY LenProperties DEF TypeInv, Stands
    <3>2. a < Len(stack[t]) => AtOnce(stack[t][a])
      BY <3>1 DEF Stands
    <3>3. Program[stack[t][a].of][stack[t][a].pc].op # "once"
      <4> DEFINE r == stack[t][a].of
                 i == stack[t][a].pc
      <4> HIDE DEF r, i
      <4>1. \/ r = "assign" /\ i \in {14, 15, 16}
            \/ r = "newByName" /\ i \in {3, 4, 5}
        BY <2>1 DEF Inside, r, i
      <4>2. \A op, x : I(op, x).op = op
        BY DEF I
      <4>3. /\ \A a1 \in {14, 15, 16} : Program["assign"][a1].op # "once"
            /\ \A a1 \in {3, 4, 5} : Program["newByName"][a1].op # "once"
        <5>1. /\ Program["assign"][14].op = "unless" /\ Program["assign"][15].op = "make"
              /\ Program["assign"][16].op = "unlock"
          BY <4>2, AssignCode, EntersCode
        <5>2. /\ Program["newByName"][3].op = "unless" /\ Program["newByName"][4].op = "make"
              /\ Program["newByName"][5].op = "unlock"
          BY <4>2, NewByNameCode, EntersCode
        <5> QED
          BY <5>1, <5>2
      <4>4. Program[r][i].op # "once"
        BY <4>1, <4>3
      <4> QED
        BY <4>4 DEF r, i
    <3> QED
      BY <3>1, <3>2, <3>3 DEF AtOnce, Instruction
  <2> QED
    BY <1>2, <1>4, <2>1
<1> QED
  BY <1>2, <1>3, <1>4

(* A thread that is about to make the file or the type has found that it   *)
(* is not there, and still holds the mutex.                                *)
LEMMA Looked ==
    ASSUME TypeInv, LockInv, NEW t \in Threads, Origins(t),
           NEW u \in Threads, NEW k \in 1..Len(stack'[u])
    PROVE  /\ MakesFile(stack'[u][k].of, stack'[u][k].pc) => made["file"] = 0
           /\ MakesType(stack'[u][k].of, stack'[u][k].pc) => made["type"] = 0
<1> DEFINE f == stack'[u][k]
<1>1. CASE k \in 1..Len(stack[u]) /\ f.of = stack[u][k].of /\ f.pc = stack[u][k].pc
  BY <1>1 DEF LockInv
<1>2. CASE f.pc = 1
  BY <1>2 DEF MakesFile, MakesType
<1>3. CASE GoesOn(t, f)
  <2> DEFINE r == Top(t).of
             i == Top(t).pc
             j == f.pc
  <2>1. /\ f.of = r /\ i \in 1..Len(Program[r])
        /\ Len(stack[t]) \in 1..Len(stack[t]) /\ Top(t) = stack[t][Len(stack[t])]
        /\ \/ j = i + 1 /\ (Program[r][i].op = "unless" => made[Program[r][i].arg] = 0)
           \/ Skips(r, i, j)
    BY <1>3, GoesTo
  <2>2. MakesType(r, i) => made["type"] = 0
    BY <2>1 DEF LockInv
  <2> HIDE DEF r, i, j
  <2>3. Skips(r, i, j) => ~MakesFile(r, j) /\ (MakesType(r, j) => MakesType(r, i))
    BY DEF Skips, MakesFile, MakesType
  <2>4. /\ (j = i + 1 /\ MakesFile(r, j)) =>
             ((r = "assign" /\ i = 14) \/ (r = "newByName" /\ i = 3))
        /\ (j = i + 1 /\ MakesType(r, j)) =>
             (MakesType(r, i) \/ (r = "newByName" /\ i = 12))
    <3>1. i \in Nat
      BY <2>1
    <3>2. j = i + 1 /\ j \in 13..27 => i \in 13..27 \/ i = 12
      BY <3>1
    <3>3. j = i + 1 => (j = 15 => i = 14) /\ (j = 4 => i = 3)
      BY <3>1
    <3> QED
      BY <3>2, <3>3 DEF MakesFile, MakesType
  <2>5. MakesFile(r, j) => made["file"] = 0
    BY <2>1, <2>3, <2>4, EntersCode
  <2>6. MakesType(r, j) => made["type"] = 0
    BY <2>1, <2>2, <2>3, <2>4, EntersCode
  <2> QED
    BY <2>1, <2>5, <2>6 DEF j
<1> QED
  BY <1>1, <1>2, <1>3 DEF Origins

(* Who is between lock and unlock after a step that locks nothing.         *)
LEMMA StillInside ==
    ASSUME TypeInv, LockInv, NEW t \in Threads, Origins(t), NEW m \in {"pool", "factory"},
           holder'[m] = holder[m],
           stack[t] # <<>> /\ ~AtEnd(Top(t)) /\ Instruction(Top(t)).op = "lock" => Arg(t) # m,
           NEW u \in Threads, NEW k \in 1..Len(stack'[u]),
           Inside(stack'[u][k].of, stack'[u][k].pc, m)
    PROVE  holder'[m] = {u}
<1> DEFINE f == stack'[u][k]
<1>1. CASE k \in 1..Len(stack[u]) /\ f.of = stack[u][k].of /\ f.pc = stack[u][k].pc
  BY <1>1 DEF LockInv
<1>2. CASE f.pc = 1
  BY <1>2 DEF Inside
<1>3. CASE u = t /\ GoesOn(t, f)
  <2>1. Inside(Top(t).of, Top(t).pc, m)
    BY <1>3, ComesInside DEF GoesOn
  <2> QED
    BY <1>3, <2>1, GoesTo DEF LockInv
<1> QED
  BY <1>1, <1>2, <1>3 DEF Origins

(* The mutex and what is made under it.                                    *)
LEMMA LockMake ==
    ASSUME TypeInv, LockInv, NEW t \in Threads, MakeThing(t), Arg(t) \in {"file", "type"}
    PROVE  /\ made[Arg(t)] = 0
           /\ \A u \in Threads : \A k \in 1..Len(stack'[u]) :
                /\ Arg(t) = "file" => ~MakesFile(stack'[u][k].of, stack'[u][k].pc)
                /\ Arg(t) = "type" => ~MakesType(stack'[u][k].of, stack'[u][k].pc)
<1> DEFINE r == Top(t).of
           i == Top(t).pc
           n == Len(stack[t])
           m == IF Arg(t) = "file" THEN "pool" ELSE "factory"
<1>1. /\ r \in DOMAIN Program /\ i \in 1..Len(Program[r]) /\ Program[r][i].op = "make"
      /\ Program[r][i].arg = Arg(t) /\ OneOn(t) /\ stack[t] # <<>>
  BY MakeMoves
<1>2. n \in 1..n /\ Top(t) = stack[t][n]
  BY <1>1, TopFacts
<1> HIDE DEF r, i
<1>3. \/ Arg(t) = "file" /\ r = "assign" /\ i = 15
      \/ Arg(t) = "file" /\ r = "newByName" /\ i = 4
      \/ Arg(t) = "type" /\ r = "newByName" /\ i = 27
  <2>1. Arg(t) \notin {"shutdown", "pool", "poolCleanup", "factory", "factoryCleanup",
                       "descriptor"}
    OBVIOUS
  <2>2. Arg(t) \notin BlockThings
    BY DEF BlockThings
  <2>3. i \notin Block(r)
    BY <1>1, <2>2, BlockFacts
  <2> QED
    BY <1>1, <2>1, <2>3, MakeFacts
<1>4. Inside(r, i, m) /\ m \in {"pool", "factory"}
  BY <1>3 DEF Inside
<1>5. \/ Arg(t) = "file" /\ MakesFile(r, i)
      \/ Arg(t) = "type" /\ MakesType(r, i)
  BY <1>3 DEF MakesFile, MakesType
<1>6. made[Arg(t)] = 0
  BY <1>2, <1>5 DEF LockInv, r, i
<1>7. \A s, j : /\ Arg(t) = "file" /\ MakesFile(s, j) => Inside(s, j, m)
                /\ Arg(t) = "type" /\ MakesType(s, j) => Inside(s, j, m)
  BY DEF MakesFile, MakesType, Inside
<1>8. /\ Arg(t) = "file" => ~MakesFile(r, i + 1)
      /\ Arg(t) = "type" => ~MakesType(r, i + 1)
  BY <1>3 DEF MakesFile, MakesType
<1>9. ASSUME NEW u \in Threads, NEW k \in 1..Len(stack'[u]),
             \/ Arg(t) = "file" /\ MakesFile(stack'[u][k].of, stack'[u][k].pc)
             \/ Arg(t) = "type" /\ MakesType(stack'[u][k].of, stack'[u][k].pc)
      PROVE  FALSE
  <2>1. k \in 1..Len(stack[u]) /\ stack'[u][k].of = stack[u][k].of
    BY <1>1 DEF OneOn
  <2>2. CASE u = t /\ k = n
    <3>1. stack'[u][k].of = r /\ stack'[u][k].pc = i + 1
      BY <1>1, <1>2, <2>1, <2>2 DEF OneOn, r, i
    <3> QED
      BY <1>8, <1>9, <3>1
  <2>3. CASE u # t \/ k # n
    <3>1. stack'[u][k].pc = stack[u][k].pc
      BY <1>1, <2>1, <2>3 DEF OneOn
    <3>2. Inside(stack[u][k].of, stack[u][k].pc, m)
      BY <1>7, <1>9, <2>1, <3>1
    <3>3. Inside(stack[t][n].of, stack[t][n].pc, m)
      BY <1>2, <1>4 DEF r, i
    <3>4. u = t /\ k = n
      BY <1>2, <1>4, <2>1, <3>2, <3>3, OneInside
    <3> QED
      BY <2>3, <3>4
  <2> QED
    BY <2>2, <2>3
<1> QED
  BY <1>6, <1>9

LEMMA AcquireMoves ==
    ASSUME TypeInv, NEW t \in Threads, Acquire(t) \/ Release(t)
    PROVE  /\ OneOn(t) /\ stack[t] # <<>> /\ ~AtEnd(Top(t)) /\ made' = made
           /\ Top(t).of \in DOMAIN Program /\ Top(t).pc \in 1..Len(Program[Top(t).of])
           /\ Program[Top(t).of][Top(t).pc].op = Instruction(Top(t)).op
           /\ Program[Top(t).of][Top(t).pc].arg = Arg(t)
           /\ Acquire(t) => /\ Instruction(Top(t)).op = "lock" /\ holder[Arg(t)] = {}
                            /\ \A m \in Mutexes :
                                 holder'[m] = IF m = Arg(t) THEN {t} ELSE holder[m]
           /\ Release(t) => /\ Instruction(Top(t)).op = "unlock"
                            /\ \A m \in Mutexes :
                                 holder'[m] = IF m = Arg(t) THEN {} ELSE holder[m]
<1>1. /\ stack[t] # <<>> /\ ~AtEnd(Top(t)) /\ made' = made /\ Onwards(t, 1)
  BY DEF Acquire, Release, Before
<1>2. /\ Top(t).of \in DOMAIN Program /\ Top(t).pc \in 1..Len(Program[Top(t).of])
  BY <1>1, TopFacts, InstructionFacts
<1>3. /\ Program[Top(t).of][Top(t).pc].op = Instruction(Top(t)).op
      /\ Program[Top(t).of][Top(t).pc].arg = Arg(t)
  BY DEF Instruction, Arg
<1>4. holder \in [Mutexes -> SUBSET Threads]
  BY DEF TypeInv
<1>5. Acquire(t) => /\ Instruction(Top(t)).op = "lock" /\ holder[Arg(t)] = {}
                    /\ \A m \in Mutexes :
                         holder'[m] = IF m = Arg(t) THEN {t} ELSE holder[m]
  BY <1>4 DEF Acquire, Before
<1>6. Release(t) => /\ Instruction(Top(t)).op = "unlock"
                    /\ \A m \in Mutexes :
                         holder'[m] = IF m = Arg(t) THEN {} ELSE holder[m]
  BY <1>4 DEF Release, Before
<1> QED
  BY <1>1, <1>2, <1>3, <1>5, <1>6, OnwardsOne

LEMMA LockStep ==
    ASSUME TypeInv, LockInv, NEW t \in Threads, Step(t), Origins(t)
    PROVE  LockInv'
<1> DEFINE n == Len(stack[t])
<1>1. ASSUME NEW u \in Threads, NEW k \in 1..Len(stack'[u]), NEW m \in {"pool", "factory"},
             Inside(stack'[u][k].of, stack'[u][k].pc, m)
      PROVE  holder'[m] = {u}
  <2> DEFINE f == stack'[u][k]
  <2>1. m \in Mutexes /\ m # "shutdown"
    BY DEF Mutexes
  <2>2. ASSUME OneOn(t), u # t \/ k # n
        PROVE  k \in 1..Len(stack[u]) /\ Inside(stack[u][k].of, stack[u][k].pc, m)
    <3>1. k \in 1..Len(stack[u]) /\ f.of = stack[u][k].of
      BY <2>2 DEF OneOn
    <3>2. f.pc = stack[u][k].pc
      BY <2>2, <3>1 DEF OneOn
    <3> QED
      BY <1>1, <3>1, <3>2
  <2>3. CASE Acquire(t)
    <3>1. /\ OneOn(t) /\ holder[Arg(t)] = {}
          /\ \A x \in Mutexes : holder'[x] = IF x = Arg(t) THEN {t} ELSE holder[x]
      BY <2>3, AcquireMoves
    <3>2. CASE m = Arg(t)
      <4>1. u = t
        <5>1. SUFFICES ASSUME u # t PROVE FALSE
          OBVIOUS
        <5>2. holder[m] = {u}
          BY <2>2, <3>1, <5>1 DEF LockInv
        <5> QED
          BY <3>1, <3>2, <5>2
      <4> QED
        BY <2>1, <3>1, <3>2, <4>1
    <3>3. CASE m # Arg(t)
      <4>1. holder'[m] = holder[m]
        BY <2>1, <3>1, <3>3
      <4> QED
        BY <1>1, <3>3, <4>1, StillInside
    <3> QED
      BY <3>2, <3>3
  <2>4. CASE Release(t)
    <3>1. /\ OneOn(t) /\ Instruction(Top(t)).op = "unlock" /\ stack[t] # <<>>
          /\ \A x \in Mutexes : holder'[x] = IF x = Arg(t) THEN {} ELSE holder[x]
      BY <2>4, AcquireMoves
    <3>2. CASE m = Arg(t)
      <4> DEFINE r == Top(t).of
                 i == Top(t).pc
      <4>1. /\ r \in DOMAIN Program /\ i \in 1..Len(Program[r])
            /\ Program[r][i].op = "unlock" /\ Program[r][i].arg = m
        BY <2>4, <3>1, <3>2, AcquireMoves
      <4>2. n \in 1..n /\ Top(t) = stack[t][n]
        BY <3>1, TopFacts
      <4> HIDE DEF r, i
      <4>3. \/ r = "assign" /\ i = 16 /\ m = "pool"
            \/ r = "newByName" /\ i = 5 /\ m = "pool"
            \/ r = "newByName" /\ i \in {9, 28} /\ m = "factory"
        BY <2>1, <4>1, UnlockFacts
      <4>4. Inside(r, i, m) /\ ~Inside(r, i + 1, m)
        BY <4>3 DEF Inside
      <4>5. u = t /\ k = n
        <5>1. SUFFICES ASSUME u # t \/ k # n PROVE FALSE
          OBVIOUS
        <5>2. k \in 1..Len(stack[u]) /\ Inside(stack[u][k].of, stack[u][k].pc, m)
          BY <2>2, <3>1, <5>1
        <5>3. Inside(stack[t][n].of, stack[t][n].pc, m)
          BY <4>2, <4>4 DEF r, i
        <5>4. u = t /\ k = n
          BY <4>2, <5>2, <5>3, OneInside
        <5> QED
          BY <5>1, <5>4
      <4>6. f.of = r /\ f.pc = i + 1
        BY <3>1, <4>2, <4>5 DEF OneOn, r, i
      <4> QED
        BY <1>1, <4>4, <4>6
    <3>3. CASE m # Arg(t)
      <4>1. holder'[m] = holder[m]
        BY <2>1, <3>1, <3>3
      <4> QED
        BY <1>1, <3>1, <4>1, StillInside
    <3> QED
      BY <3>2, <3>3
  <2>5. CASE /\ holder' = holder
             /\ stack[t] # <<>> /\ ~AtEnd(Top(t)) => Instruction(Top(t)).op \notin {"lock", "unlock"}
    <3>1. stack[t] # <<>> /\ ~AtEnd(Top(t)) /\ Instruction(Top(t)).op = "lock" => Arg(t) # m
      BY <2>5
    <3> QED
      BY <1>1, <2>5, <3>1, StillInside
  <2> QED
    BY <2>3, <2>4, <2>5, OtherSteps
<1>2. /\ made'["file"] = made["file"] \/ (MakeThing(t) /\ Arg(t) = "file")
      /\ made'["type"] = made["type"] \/ (MakeThing(t) /\ Arg(t) = "type")
  <2>1. "file" \in Things /\ "type" \in Things
    BY DEF Things
  <2> QED
    BY <2>1, OtherSteps, MakeMoves
<1>3. ASSUME NEW u \in Threads, NEW k \in 1..Len(stack'[u])
      PROVE  /\ MakesFile(stack'[u][k].of, stack'[u][k].pc) => made'["file"] = 0
             /\ MakesType(stack'[u][k].of, stack'[u][k].pc) => made'["type"] = 0
  BY <1>2, Looked, LockMake
<1> QED
  BY <1>1, <1>3 DEF LockInv

-----------------------------------------------------------------------------
(* Everything together.                                                    *)
MadeInv == MadeOnce /\ OwnInv /\ BlockInv /\ LockInv

LEMMA AllThings == \A x \in Things : x \in Owned \/ x \in BlockThings \/ x \in {"file", "type"}
BY DEF Things, Mutexes, Owned, BlockThings

LEMMA MadeInit == Init => MadeInv
<1> SUFFICES ASSUME Init PROVE MadeInv
  OBVIOUS
<1>1. PICK s \in Statics :
        stack = [t \in Threads |-> IF t = Main THEN <<Frame(s)>> ELSE <<>>]
  BY DEF Init
<1>2. \A t \in Threads : \A k \in 1..Len(stack[t]) : stack[t][k].pc = 1
  <2>1. <<Frame(s)>>[1].pc = 1 /\ Len(<<Frame(s)>>) = 1 /\ Len(<<>>) = 0
    BY DEF Frame
  <2> QED
    BY <1>1, <2>1
<1>3. \A x \in Things : made[x] = 0
  BY DEF Init
<1>4. MadeOnce
  BY <1>3 DEF MadeOnce
<1>5. OwnInv
  BY <1>3, OwnedFacts DEF OwnInv
<1>6. BlockInv
  <2>1. BlockThings \subseteq Things
    BY DEF BlockThings, Things
  <2>2. \A f : f.pc = 1 => ~InBlock(f) /\ f.pc \notin 15..25
    BY Blocks DEF InBlock
  <2> QED
    BY <1>2, <1>3, <2>1, <2>2 DEF BlockInv
<1>7. LockInv
  <2>1. \A r, m : ~Inside(r, 1, m) /\ ~MakesFile(r, 1) /\ ~MakesType(r, 1)
    BY DEF Inside, MakesFile, MakesType
  <2> QED
    BY <1>2, <2>1 DEF LockInv
<1> QED
  BY <1>4, <1>5, <1>6, <1>7 DEF MadeInv

(* What a thread makes is not there yet.                                   *)
LEMMA MakesNew ==
    ASSUME TypeInv, RunInv, FactInv, MadeInv, NEW t \in Threads, MakeThing(t)
    PROVE  made[Arg(t)] = 0
<1>1. Arg(t) \in Things /\ stack[t] # <<>>
  BY MakeMoves
<1>2. CASE Arg(t) \in Owned
  <2>1. Top(t).of = Owner(Arg(t)) /\ Top(t).pc = Place(Arg(t))
    BY <1>2, OwnPlace
  <2>2. Len(stack[t]) \in 1..Len(stack[t]) /\ Top(t) = stack[t][Len(stack[t])]
    BY <1>1, TopFacts
  <2>3. Place(Arg(t)) <= Place(Arg(t))
    BY DEF Place
  <2> QED
    BY <1>2, <2>1, <2>2, <2>3 DEF MadeInv, OwnInv
<1>3. CASE Arg(t) \in BlockThings
  BY <1>3, BlockMake DEF MadeInv
<1>4. CASE Arg(t) \in {"file", "type"}
  BY <1>4, LockMake DEF MadeInv
<1> QED
  BY <1>1, <1>2, <1>3, <1>4, AllThings

LEMMA MadeStep == TypeInv /\ RunInv /\ FactInv /\ MadeInv /\ [Next]_vars => MadeInv'
<1> SUFFICES ASSUME TypeInv, RunInv, FactInv, MadeInv, [Next]_vars PROVE MadeInv'
  OBVIOUS
<1>0. MadeOnce /\ OwnInv /\ BlockInv /\ LockInv
  BY DEF MadeInv
<1>1. ASSUME NEW t \in Threads, Step(t) PROVE MadeInv'
  <2>1. Origins(t)
    BY <1>1, StepFollows DEF FramesFollow
  <2>2. OwnInv' /\ LockInv'
    BY <1>0, <1>1, <2>1, OwnStep, LockStep
  <2>3. MakeThing(t) \/ made' = made
    BY <1>1, OtherSteps
  <2>4. BlockInv'
    <3>1. CASE MakeThing(t) /\ Arg(t) \in BlockThings
      BY <1>0, <3>1, BlockMake
    <3>2. CASE MakeThing(t) /\ Arg(t) \notin BlockThings
      <4>1. \A x \in BlockThings : x \in Things /\ x # Arg(t)
        BY <3>2 DEF BlockThings, Things
      <4>2. \A x \in BlockThings : made'[x] = made[x]
        BY <3>2, <4>1, MakeMoves
      <4> QED
        BY <1>0, <2>1, <4>2, BlockQuiet
    <3>3. CASE made' = made
      BY <1>0, <2>1, <3>3, BlockQuiet
    <3> QED
      BY <2>3, <3>1, <3>2, <3>3
  <2>5. MadeOnce'
    <3>1. CASE MakeThing(t)
      <4>1. made[Arg(t)] = 0
        BY <3>1, MakesNew
      <4>2. \A x \in Things : made'[x] = IF x = Arg(t) THEN made[x] + 1 ELSE made[x]
        BY <3>1, MakeMoves
      <4>3. \A x \in Things : made'[x] <= 1
        BY <1>0, <4>1, <4>2 DEF MadeOnce
      <4> QED
        BY <4>3 DEF MadeOnce
    <3>2. CASE made' = made
      BY <1>0, <3>2 DEF MadeOnce
    <3> QED
      BY <2>3, <3>1, <3>2
  <2> QED
    BY <2>2, <2>4, <2>5 DEF MadeInv
<1>2. ASSUME NEW t \in Threads, NEW r \in Requests, Call(t, r) PROVE MadeInv'
  <2>1. Origins(t) /\ once' = once /\ made' = made /\ holder' = holder /\ stack[t] = <<>>
    BY <1>2, CallFollows DEF FramesFollow, Call
  <2>2. MadeOnce'
    BY <1>0, <2>1 DEF MadeOnce
  <2>3. OwnInv'
    <3>1. ASSUME NEW x \in Owned
          PROVE  /\ once'[Owner(x)] = "UNINITIALIZED" => made'[x] = 0
                 /\ \A u \in Threads : \A k \in 1..Len(stack'[u]) :
                      stack'[u][k].of = Owner(x) /\ stack'[u][k].pc <= Place(x)
                        => made'[x] = 0
      BY <1>0, <2>1, OwnQuiet
    <3> QED
      BY <3>1 DEF OwnInv
  <2>4. BlockInv'
    BY <1>0, <2>1, BlockQuiet
  <2>5. LockInv'
    <3>1. ASSUME NEW u \in Threads, NEW k \in 1..Len(stack'[u]), NEW m \in {"pool", "factory"},
                 Inside(stack'[u][k].of, stack'[u][k].pc, m)
          PROVE  holder'[m] = {u}
      BY <1>0, <2>1, <3>1, StillInside
    <3>2. ASSUME NEW u \in Threads, NEW k \in 1..Len(stack'[u])
          PROVE  /\ MakesFile(stack'[u][k].of, stack'[u][k].pc) => made'["file"] = 0
                 /\ MakesType(stack'[u][k].of, stack'[u][k].pc) => made'["type"] = 0
      BY <1>0, <2>1, Looked
    <3> QED
      BY <3>1, <3>2 DEF LockInv
  <2> QED
    BY <2>2, <2>3, <2>4, <2>5 DEF MadeInv
<1>3. CASE UNCHANGED vars
  <2>1. once' = once /\ made' = made /\ stack' = stack /\ holder' = holder
    BY <1>3 DEF vars
  <2>2. MadeOnce' /\ OwnInv' /\ LockInv'
    BY <1>0, <2>1 DEF MadeOnce, OwnInv, LockInv
  <2>3. BlockInv'
    BY <1>0, <2>1 DEF BlockInv, InBlock
  <2> QED
    BY <2>2, <2>3 DEF MadeInv
<1> QED
  BY <1>1, <1>2, <1>3 DEF Next

(* Nothing is made twice: a second registration of a file or a type is a   *)
(* fatal error (message.cc), a second cleanup a double delete.             *)
THEOREM MadeOnceHolds == Spec => []MadeOnce
<1>1. Init => TypeInv /\ RunInv /\ FactInv /\ MadeInv
  BY TypeInit, RunInit, FactInit, MadeInit
<1>2. (TypeInv /\ RunInv /\ FactInv /\ MadeInv) /\ [Next]_vars
        => (TypeInv /\ RunInv /\ FactInv /\ MadeInv)'
  BY TypeStep, RunStep, FactStep, MadeStep
<1>3. MadeInv => MadeOnce
  BY DEF MadeInv
<1> QED
  BY <1>1, <1>2, <1>3, PTL DEF Spec

-----------------------------------------------------------------------------
(* Who waits for whom.  A mutex that is held has a frame between its lock  *)
(* and its unlock.                                                         *)
Section(r, i, m) ==
    \/ Inside(r, i, m)
    \/ m = "shutdown" /\ r \in {"pool", "factory"} /\ i \in 4..5
    \/ m = "shutdown" /\ r \in {"assign", "static"} /\ i \in 10..11
    \/ m = "shutdown" /\ r = "staticAfterUse" /\ i \in 11..12
    \/ m = "shutdown" /\ r = "newByName" /\ i \in 24..25

HoldInv ==
    \A m \in Mutexes : \A t \in Threads : t \in holder[m] =>
        \E k \in 1..Len(stack[t]) : Section(stack[t][k].of, stack[t][k].pc, m)

(* The ends of those places, in the programs.                              *)
LEMMA SectionEnds ==
    /\ \A r \in {"pool", "factory"} :
         Program[r][4].op = "make" /\ Program[r][5] = I("unlock", "shutdown")
    /\ \A r \in {"assign", "static"} :
         Program[r][10].op = "make" /\ Program[r][11] = I("unlock", "shutdown")
    /\ Program["staticAfterUse"][11].op = "make"
    /\ Program["staticAfterUse"][12] = I("unlock", "shutdown")
    /\ Program["newByName"][24].op = "make"
    /\ Program["newByName"][25] = I("unlock", "shutdown")
    /\ Program["assign"][14].op = "unless" /\ Program["assign"][15].op = "make"
    /\ Program["assign"][16] = I("unlock", "pool")
    /\ Program["newByName"][3].op = "unless" /\ Program["newByName"][4].op = "make"
    /\ Program["newByName"][5] = I("unlock", "pool")
    /\ Program["newByName"][9] = I("unlock", "factory")
    /\ Program["newByName"][28] = I("unlock", "factory")
<1>1. \A op, x : I(op, x).op = op
  BY DEF I
<1>2. \A x, n : U(x, n).op = "unless"
  BY DEF U
<1>3. \A r \in {"pool", "factory"} :
         Program[r][4].op = "make" /\ Program[r][5] = I("unlock", "shutdown")
  BY <1>1, ShortCode
<1>4. \A r \in {"assign", "static"} :
         Program[r][10].op = "make" /\ Program[r][11] = I("unlock", "shutdown")
  <2> SUFFICES ASSUME NEW r \in {"assign", "static"}
               PROVE  Program[r][10].op = "make" /\ Program[r][11] = I("unlock", "shutdown")
    OBVIOUS
  <2>1. AddDescAt(Program[r], 0)
    BY AddDescPlaces
  <2>2. /\ Program[r][0 + 10] = I("make", "fileCleanup")
        /\ Program[r][0 + 11] = I("unlock", "shutdown")
    BY <2>1 DEF AddDescAt
  <2> QED
    BY <1>1, <2>2
<1>5. /\ Program["staticAfterUse"][11].op = "make"
      /\ Program["staticAfterUse"][12] = I("unlock", "shutdown")
  <2>1. /\ Program["staticAfterUse"][1 + 10] = I("make", "fileCleanup")
        /\ Program["staticAfterUse"][1 + 11] = I("unlock", "shutdown")
    BY AddDescPlaces DEF AddDescAt
  <2> QED
    BY <1>1, <2>1
<1>6. /\ Program["newByName"][24].op = "make"
      /\ Program["newByName"][25] = I("unlock", "shutdown")
  <2>1. /\ Program["newByName"][14 + 10] = I("make", "fileCleanup")
        /\ Program["newByName"][14 + 11] = I("unlock", "shutdown")
    BY AddDescPlaces DEF AddDescAt
  <2> QED
    BY <1>1, <2>1
<1>7. /\ Program["assign"][14].op = "unless" /\ Program["assign"][15].op = "make"
      /\ Program["assign"][16] = I("unlock", "pool")
  BY <1>1, <1>2, AssignCode
<1>8. /\ Program["newByName"][3].op = "unless" /\ Program["newByName"][4].op = "make"
      /\ Program["newByName"][5] = I("unlock", "pool")
      /\ Program["newByName"][9] = I("unlock", "factory")
      /\ Program["newByName"][28] = I("unlock", "factory")
  BY <1>1, <1>2, NewByNameCode
<1> QED
  BY <1>3, <1>4, <1>5, <1>6, <1>7, <1>8

(* A frame leaves such a place by the unlock only, and no program ends in  *)
(* one.                                                                    *)
LEMMA SectionGoesOn ==
    ASSUME NEW r, NEW i \in Nat, NEW m, NEW j, Section(r, i, m),
           j = i + 1 \/ Skips(r, i, j),
           ~(Program[r][i].op = "unlock" /\ Program[r][i].arg = m)
    PROVE  Section(r, j, m)
<1>1. \A op, x : I(op, x).op = op /\ I(op, x).arg = x
  BY DEF I
<1>2. CASE Skips(r, i, j)
  BY <1>2 DEF Section, Inside, Skips
<1>3. CASE j = i + 1
  <2>1. /\ ~(m = "pool" /\ r = "assign" /\ i = 16) /\ ~(m = "pool" /\ r = "newByName" /\ i = 5)
        /\ ~(m = "factory" /\ r = "newByName" /\ i = 9)
        /\ ~(m = "factory" /\ r = "newByName" /\ i = 28)
    BY <1>1, SectionEnds
  <2>2. /\ ~(m = "shutdown" /\ r \in {"pool", "factory"} /\ i = 5)
        /\ ~(m = "shutdown" /\ r \in {"assign", "static"} /\ i = 11)
        /\ ~(m = "shutdown" /\ r = "staticAfterUse" /\ i = 12)
        /\ ~(m = "shutdown" /\ r = "newByName" /\ i = 25)
    BY <1>1, SectionEnds
  <2>3. CASE Inside(r, i, m)
    <3>1. Inside(r, j, m)
      BY <1>3, <2>1, <2>3 DEF Inside
    <3> QED
      BY <3>1 DEF Section
  <2>4. CASE ~Inside(r, i, m)
    BY <1>3, <2>2, <2>4 DEF Section
  <2> QED
    BY <2>3, <2>4
<1> QED
  BY <1>2, <1>3

LEMMA SectionWithin ==
    ASSUME NEW r, NEW i \in Nat, NEW m, Section(r, i, m)
    PROVE  i <= Len(Program[r])
<1>1. \/ r = "assign" /\ i <= 19
      \/ r = "newByName" /\ i <= 28
      \/ r = "pool" /\ i <= 5
      \/ r = "factory" /\ i <= 5
      \/ r = "static" /\ i <= 11
      \/ r = "staticAfterUse" /\ i <= 12
  BY DEF Section, Inside
<1> QED
  BY <1>1, Lengths

(* Where the mutexes are locked.                                           *)
LEMMA LockPlaces ==
    ASSUME NEW r \in DOMAIN Program, NEW i \in 1..Len(Program[r]), Program[r][i].op = "lock"
    PROVE  /\ Section(r, i + 1, Program[r][i].arg)
           /\ Program[r][i].arg = "factory" => r = "newByName" /\ i \in {7, 11}
<1>1. \/ r = "assign" \/ r = "static" \/ r = "staticAfterUse" \/ r = "newByName"
      \/ r = "shutdown" \/ r = "pool" \/ r = "factory" \/ r = "metadata"
  BY RankFacts DEF Onces, Statics, Requests
<1>2. \A op, x : I(op, x).op = op /\ I(op, x).arg = x
  BY DEF I
<1>3. CASE r \in {"assign", "static", "staticAfterUse", "newByName"} /\ i \in Block(r)
  <2>1. Base(r) \in Nat /\ AddDescAt(Program[r], Base(r)) /\ i \in (Base(r) + 2)..(Base(r) + 11)
    BY <1>3, BaseFacts
  <2>2. i = Base(r) + 9 /\ Program[r][Base(r) + 9].arg = "shutdown"
    BY <2>1, BlockLocks, BlockAsks
  <2>3. Program[r][i].arg = "shutdown"
    BY <2>2
  <2>4. \/ r \in {"assign", "static"} /\ i = 9
        \/ r = "staticAfterUse" /\ i = 10
        \/ r = "newByName" /\ i = 23
    BY <1>3, <2>2 DEF Base
  <2> QED
    BY <2>3, <2>4 DEF Section
<1>4. CASE r = "assign" /\ i \notin Block(r)
  <2>1. \A j \in 1..19 : j = 1 \/ j \in 2..11 \/ j = 12 \/ j = 13 \/ j = 14 \/ j = 15 \/ j = 16
                         \/ j = 17 \/ j = 18 \/ j = 19
    OBVIOUS
  <2>2. i \in 1..19 /\ i \notin 2..11 /\ i \notin {1, 12, 14, 15, 16, 17, 18, 19}
    BY <1>4, Lengths, Blocks, NotLock
  <2>3. i = 13
    BY <2>1, <2>2
  <2> QED
    BY <1>4, <2>3, EntersCode DEF Section, Inside
<1>5. CASE r = "static" /\ i \notin Block(r)
  <2>1. \A j \in 1..11 : j = 1 \/ j \in 2..11
    OBVIOUS
  <2> QED
    BY <1>5, <2>1, Lengths, Blocks, NotLock
<1>6. CASE r = "staticAfterUse" /\ i \notin Block(r)
  <2>1. \A j \in 1..12 : j = 1 \/ j = 2 \/ j \in 3..12
    OBVIOUS
  <2> QED
    BY <1>6, <2>1, Lengths, Blocks, NotLock
<1>7. CASE r = "newByName" /\ i \notin Block(r)
  <2>1. \A j \in 1..28 : \/ j = 1 \/ j = 2 \/ j = 3 \/ j = 4 \/ j = 5 \/ j = 6 \/ j = 7 \/ j = 8
                         \/ j = 9 \/ j = 10 \/ j = 11 \/ j = 12 \/ j = 13 \/ j = 14 \/ j = 15
                         \/ j \in 16..25 \/ j = 26 \/ j = 27 \/ j = 28
    OBVIOUS
  <2>2. i \in 1..28 /\ i \notin 16..25
        /\ i \notin {1, 3, 4, 5, 6, 8, 9, 10, 12, 13, 14, 15, 26, 27, 28}
    BY <1>7, Lengths, Blocks, NotLock
  <2>3. i = 2 \/ i = 7 \/ i = 11
    BY <2>1, <2>2
  <2> QED
    BY <1>7, <2>3, EntersCode DEF Section, Inside
<1>8. CASE r \in {"shutdown", "metadata"}
  <2>1. i = 1
    <3>1. Len(Program[r]) = 1
      BY <1>8, Lengths
    <3> QED
      BY <3>1
  <2> QED
    BY <1>2, <1>8, <2>1, ShortCode
<1>9. CASE r \in {"pool", "factory"}
  <2>1. \A j \in 1..5 : j = 1 \/ j = 2 \/ j = 3 \/ j = 4 \/ j = 5
    OBVIOUS
  <2>2. i \in 1..5
    BY <1>9, Lengths
  <2>3. \A j \in {1, 2, 4, 5} : Program["pool"][j].op # "lock" /\ Program["factory"][j].op # "lock"
    BY <1>2, ShortCode
  <2>4. i = 3
    BY <1>9, <2>1, <2>2, <2>3
  <2>5. Program["pool"][3].arg = "shutdown" /\ Program["factory"][3].arg = "shutdown"
    BY <1>2, ShortCode
  <2> QED
    BY <1>9, <2>4, <2>5 DEF Section
<1> QED
  BY <1>1, <1>3, <1>4, <1>5, <1>6, <1>7, <1>8, <1>9

(* The holder of one of the inner mutexes does nothing it has to wait for. *)
LEMMA SectionCode ==
    ASSUME NEW r, NEW i \in Nat, NEW m \in {"shutdown", "pool"}, Section(r, i, m)
    PROVE  Program[r][i].op \in {"make", "unless", "unlock"}
<1>1. \A op, x : I(op, x).op = op
  BY DEF I
<1>2. CASE m = "pool"
  <2>1. \/ r = "assign" /\ (i = 14 \/ i = 15 \/ i = 16)
        \/ r = "newByName" /\ (i = 3 \/ i = 4 \/ i = 5)
    BY <1>2 DEF Section, Inside
  <2> QED
    BY <1>1, <2>1, SectionEnds
<1>3. CASE m = "shutdown"
  <2>1. \/ r \in {"pool", "factory"} /\ (i = 4 \/ i = 5)
        \/ r \in {"assign", "static"} /\ (i = 10 \/ i = 11)
        \/ r = "staticAfterUse" /\ (i = 11 \/ i = 12)
        \/ r = "newByName" /\ (i = 24 \/ i = 25)
    BY <1>3 DEF Section, Inside
  <2> QED
    BY <1>1, <2>1, SectionEnds
<1> QED
  BY <1>2, <1>3

(* A step keeps the frame of whoever still holds the mutex.                *)
LEMMA SectionKept ==
    ASSUME TypeInv, NEW t \in Threads, Persists(t), NEW m, NEW u \in Threads,
           NEW k \in 1..Len(stack[u]), Section(stack[u][k].of, stack[u][k].pc, m),
           stack[t] # <<>> /\ ~AtEnd(Top(t)) /\ Instruction(Top(t)).op = "unlock" => Arg(t) # m
    PROVE  \E j \in 1..Len(stack'[u]) : Section(stack'[u][j].of, stack'[u][j].pc, m)
<1> DEFINE f == stack'[u][k]
<1>1. CASE /\ k \in 1..Len(stack'[u])
           /\ f.of = stack[u][k].of /\ f.pc = stack[u][k].pc
  <2>1. Section(f.of, f.pc, m)
    BY <1>1
  <2> QED
    BY <1>1, <2>1
<1>2. CASE u = t /\ k = Len(stack[t]) /\ k \in 1..Len(stack'[t]) /\ GoesOn(t, f)
  <2> DEFINE r == Top(t).of
             i == Top(t).pc
             j == f.pc
  <2>1. /\ f.of = r /\ i \in 1..Len(Program[r]) /\ Instruction(Top(t)) = Program[r][i]
        /\ Arg(t) = Program[r][i].arg /\ (j = i + 1 \/ Skips(r, i, j))
        /\ stack[t] # <<>> /\ ~AtEnd(Top(t)) /\ Top(t) = stack[t][Len(stack[t])]
    BY <1>2, GoesTo
  <2>2. Section(r, i, m) /\ ~(Program[r][i].op = "unlock" /\ Program[r][i].arg = m)
    BY <1>2, <2>1
  <2> HIDE DEF r, i, j
  <2>3. i \in Nat
    BY <2>1
  <2>4. Section(r, j, m)
    BY <2>1, <2>2, <2>3, SectionGoesOn
  <2> QED
    BY <1>2, <2>1, <2>4 DEF j
<1>3. CASE u = t /\ k = Len(stack[t]) /\ AtEnd(stack[t][k]) /\ stack[t][k] = Top(t)
  <2>1. /\ stack[t][k].pc \in Nat /\ Len(Program[stack[t][k].of]) \in Nat
    BY <1>3, PlaceFacts
  <2>2. stack[t][k].pc <= Len(Program[stack[t][k].of])
    BY <1>3, <2>1, SectionWithin
  <2> QED
    BY <1>3, <2>1, <2>2 DEF AtEnd
<1> QED
  BY <1>1, <1>2, <1>3 DEF Persists

LEMMA HoldInit == Init => HoldInv
BY DEF Init, HoldInv

LEMMA HoldStep == TypeInv /\ RunInv /\ HoldInv /\ [Next]_vars => HoldInv'
<1> SUFFICES ASSUME TypeInv, RunInv, HoldInv, [Next]_vars PROVE HoldInv'
  OBVIOUS
<1>1. ASSUME NEW t \in Threads, Step(t) PROVE HoldInv'
  <2>1. Persists(t)
    BY <1>1, StepFollows DEF FramesFollow
  <2> SUFFICES ASSUME NEW m \in Mutexes, NEW u \in Threads, u \in holder'[m]
               PROVE  \E k \in 1..Len(stack'[u]) : Section(stack'[u][k].of, stack'[u][k].pc, m)
    BY DEF HoldInv
  <2>2. CASE Acquire(t) /\ m = Arg(t)
    <3> DEFINE r == Top(t).of
               i == Top(t).pc
               n == Len(stack[t])
    <3>1. /\ OneOn(t) /\ stack[t] # <<>> /\ r \in DOMAIN Program /\ i \in 1..Len(Program[r])
          /\ Program[r][i].op = "lock" /\ Program[r][i].arg = m /\ holder'[m] = {t}
      BY <2>2, AcquireMoves
    <3>2. n \in 1..n /\ Top(t) = stack[t][n] /\ u = t
      BY <3>1, TopFacts
    <3>3. n \in 1..Len(stack'[t]) /\ stack'[t][n].of = r /\ stack'[t][n].pc = i + 1
      BY <3>1, <3>2 DEF OneOn
    <3> HIDE DEF r, i, n
    <3>4. Section(r, i + 1, m)
      BY <3>1, LockPlaces
    <3> QED
      BY <3>2, <3>3, <3>4
  <2>3. CASE ~(Acquire(t) /\ m = Arg(t))
    <3>1. /\ u \in holder[m]
          /\ stack[t] # <<>> /\ ~AtEnd(Top(t)) /\ Instruction(Top(t)).op = "unlock" => Arg(t) # m
      <4>1. CASE Acquire(t)
        BY <2>3, <4>1, AcquireMoves
      <4>2. CASE Release(t)
        BY <4>2, AcquireMoves
      <4>3. CASE /\ holder' = holder
                 /\ stack[t] # <<>> /\ ~AtEnd(Top(t)) => Instruction(Top(t)).op \notin {"lock", "unlock"}
        BY <4>3
      <4> QED
        BY <1>1, <4>1, <4>2, <4>3, OtherSteps
    <3>2. PICK k \in 1..Len(stack[u]) : Section(stack[u][k].of, stack[u][k].pc, m)
      BY <3>1 DEF HoldInv
    <3> QED
      BY <2>1, <3>1, <3>2, SectionKept
  <2> QED
    BY <2>2, <2>3
<1>2. ASSUME NEW t \in Threads, NEW r \in Requests, Call(t, r) PROVE HoldInv'
  <2>1. Persists(t) /\ holder' = holder /\ stack[t] = <<>>
    BY <1>2, CallFollows DEF FramesFollow, Call
  <2> SUFFICES ASSUME NEW m \in Mutexes, NEW u \in Threads, u \in holder'[m]
               PROVE  \E k \in 1..Len(stack'[u]) : Section(stack'[u][k].of, stack'[u][k].pc, m)
    BY DEF HoldInv
  <2>2. PICK k \in 1..Len(stack[u]) : Section(stack[u][k].of, stack[u][k].pc, m)
    BY <2>1 DEF HoldInv
  <2> QED
    BY <2>1, <2>2, SectionKept
<1>3. CASE UNCHANGED vars
  BY <1>3 DEF vars, HoldInv
<1> QED
  BY <1>1, <1>2, <1>3 DEF Next

-----------------------------------------------------------------------------
(* A thread that cannot go on waits for a closure or for a mutex.          *)
LEMMA BlockedHow ==
    ASSUME TypeInv, NEW t \in Threads, stack[t] # <<>>, ~CanStep(t)
    PROVE  \/ Before(t, "once", "wait") /\ once[Arg(t)] = "EXECUTING_CLOSURE"
           \/ Before(t, "lock", "start") /\ holder[Arg(t)] # {}
<1>1. /\ ~AtEnd(Top(t)) /\ Top(t) \in Frames /\ Top(t).at # "run"
      /\ Top(t) = stack[t][Len(stack[t])] /\ Len(stack[t]) \in 1..Len(stack[t])
  BY TopFacts DEF CanStep
<1>2. Stands(stack[t])
  BY DEF TypeInv
<1>3. Top(t).at # "start" => Instruction(Top(t)).op = "once"
  BY <1>1, <1>2 DEF Stands, AtOnce
<1>4. /\ Top(t).at \in {"start", "swap", "wait", "store"}
      /\ Instruction(Top(t)).op \in {"once", "lock", "unlock", "make", "unless"}
  BY <1>1, InstructionFacts DEF Frames, Instructions
<1>5. \A op, at : Before(t, op, at) <=> Instruction(Top(t)).op = op /\ Top(t).at = at
  BY <1>1 DEF Before
<1> QED
  BY <1>3, <1>4, <1>5 DEF CanStep

(* How far in what a thread waits for is: the inner mutexes, then the      *)
(* closures by their rank, then the mutex under which closures are run.    *)
Level(t) ==
    IF Instruction(Top(t)).op = "once" THEN Rank(Arg(t))
    ELSE IF Arg(t) = "factory" THEN 4 ELSE 0

LEMMA LevelFacts ==
    ASSUME TypeInv, NEW t \in Threads, stack[t] # <<>>, ~CanStep(t)
    PROVE  /\ Level(t) \in 0..4
           /\ Instruction(Top(t)).op = "once" =>
                Level(t) = Rank(Arg(t)) /\ Rank(Arg(t)) < Rank(Top(t).of) /\ Level(t) < 4
           /\ Instruction(Top(t)).op # "once" =>
                /\ Instruction(Top(t)).op = "lock" /\ Top(t).pc \in 1..Len(Program[Top(t).of])
                /\ Level(t) = 0 \/ (Arg(t) = "factory" /\ Top(t).of = "newByName" /\ Top(t).pc \in {7, 11})
<1>1. \/ Before(t, "once", "wait")
      \/ Before(t, "lock", "start")
  BY BlockedHow
<1>2. CASE Before(t, "once", "wait")
  <2>1. /\ Instruction(Top(t)).op = "once" /\ Arg(t) \in Onces /\ ~AtEnd(Top(t))
        /\ Arg(t) = Instruction(Top(t)).arg /\ Top(t) \in Frames
    BY <1>2, BeforeFacts, TopFacts
  <2>2. Rank(Arg(t)) < Rank(Top(t).of) /\ Rank(Arg(t)) \in 1..4 /\ Rank(Arg(t)) < 4
    BY <2>1, InstructionFacts, RankFacts
  <2> QED
    BY <2>1, <2>2 DEF Level
<1>3. CASE Before(t, "lock", "start")
  <2> DEFINE r == Top(t).of
             i == Top(t).pc
  <2>1. /\ Instruction(Top(t)).op = "lock" /\ ~AtEnd(Top(t)) /\ Top(t) \in Frames
        /\ Arg(t) = Instruction(Top(t)).arg
    BY <1>3, BeforeFacts, TopFacts
  <2>2. /\ r \in DOMAIN Program /\ i \in 1..Len(Program[r])
        /\ Program[r][i].op = "lock" /\ Program[r][i].arg = Arg(t)
    BY <2>1, InstructionFacts DEF Instruction
  <2> HIDE DEF r, i
  <2>3. Arg(t) = "factory" => r = "newByName" /\ i \in {7, 11}
    BY <2>2, LockPlaces
  <2> QED
    BY <2>1, <2>2, <2>3 DEF Level, r, i
<1> QED
  BY <1>1, <1>2, <1>3

(* Whoever runs the closure that t waits for is busy; if it waits itself,  *)
(* then for something further in.                                          *)
LEMMA RunnerIsLower ==
    ASSUME TypeInv, RunInv, NEW t \in Threads, Before(t, "once", "wait"),
           once[Arg(t)] = "EXECUTING_CLOSURE", ~CanStep(t)
    PROVE  \E u \in Threads :
              /\ WaitsFor(t, u) /\ stack[u] # <<>>
              /\ ~CanStep(u) => Level(u) < Level(t)
<1> DEFINE o == Arg(t)
<1>1. /\ stack[t] # <<>> /\ o \in Onces /\ Level(t) = Rank(o)
  BY BeforeFacts, LevelFacts
<1>2. PICK u \in Threads : RunsIn(stack[u], o)
  BY <1>1 DEF RunInv
<1>3. PICK k \in 1..Len(stack[u]) :
         stack[u][k].at \in {"run", "store"} /\ Instruction(stack[u][k]).arg = o
  BY <1>2 DEF RunsIn
<1>4. WaitsFor(t, u)
  BY <1>3 DEF WaitsFor, Runs
<1>5. /\ Stands(stack[u]) /\ Len(stack[u]) \in Nat /\ stack[u] # <<>>
  BY <1>3, LenProperties, EmptySeq DEF TypeInv
<1>6. ASSUME ~CanStep(u) PROVE Level(u) < Level(t)
  <2> DEFINE n == Len(stack[u])
  <2>1. /\ n \in 1..n /\ Top(u) = stack[u][n] /\ Top(u).at \in {"wait", "start"}
    BY <1>5, <1>6, TopFacts, BlockedHow DEF Before
  <2>2. k < n
    BY <1>3, <1>5, <2>1
  <2>3. stack[u][k + 1].of = o
    <3>1. k + 1 \in 1..n /\ k + 1 > 1 /\ (k + 1) - 1 = k
      BY <1>5, <2>2
    <3> QED
      BY <1>3, <1>5, <3>1 DEF Stands
  <2>4. Rank(Top(u).of) <= Rank(o)
    <3>1. k + 1 \in 1..n /\ (k + 1 = n \/ k + 1 < n)
      BY <1>5, <2>2
    <3>2. Rank(Top(u).of) \in 1..4 /\ Rank(o) \in 1..4
      BY RankFacts
    <3>3. k + 1 < n => Rank(Top(u).of) < Rank(o)
      BY <1>5, <2>1, <2>3, <3>1 DEF Stands
    <3> QED
      BY <2>1, <2>3, <3>1, <3>2, <3>3
  <2>5. Top(u).of # "newByName"
    <3>1. Rank("newByName") = 4
      BY DEF Rank
    <3>2. Rank(o) < 4 /\ Rank(o) \in 1..4
      BY <1>1, RankFacts
    <3> HIDE DEF o
    <3> SUFFICES ASSUME Top(u).of = "newByName" PROVE FALSE
      OBVIOUS
    <3>3. 4 <= Rank(o)
      BY <2>4, <3>1
    <3> QED
      BY <3>2, <3>3
  <2>6. /\ Rank(o) \in 1..4 /\ Rank(Top(u).of) \in 1..4 /\ Rank(Arg(u)) \in 1..4
    BY RankFacts
  <2>7. \/ Level(u) = Rank(Arg(u)) /\ Rank(Arg(u)) < Rank(Top(u).of)
        \/ Level(u) = 0
    BY <1>5, <1>6, <2>5, LevelFacts
  <2> HIDE DEF n, o
  <2> QED
    BY <1>1, <2>4, <2>6, <2>7
<1> QED
  BY <1>4, <1>5, <1>6

(* Whoever holds the mutex that t waits for is busy; the holder of an      *)
(* inner mutex can go on, and that of the outer one waits for closures.    *)
LEMMA HolderIsLower ==
    ASSUME TypeInv, RunInv, HoldInv, NEW t \in Threads, Before(t, "lock", "start"),
           holder[Arg(t)] # {}, ~CanStep(t)
    PROVE  \E u \in Threads :
              /\ WaitsFor(t, u) /\ stack[u] # <<>>
              /\ ~CanStep(u) => Level(u) < Level(t)
<1> DEFINE m == Arg(t)
<1>1. /\ stack[t] # <<>> /\ m \in Mutexes /\ Instruction(Top(t)).op = "lock"
      /\ m = "factory" => Level(t) = 4
  BY BeforeFacts DEF Level
<1>2. PICK u \in Threads : u \in holder[m]
  BY <1>1 DEF TypeInv
<1>3. WaitsFor(t, u)
  BY <1>2 DEF WaitsFor
<1>4. PICK k \in 1..Len(stack[u]) : Section(stack[u][k].of, stack[u][k].pc, m)
  BY <1>1, <1>2 DEF HoldInv
<1>5. /\ Stands(stack[u]) /\ Len(stack[u]) \in Nat /\ stack[u] # <<>>
      /\ stack[u][k].pc \in Nat
  <2>1. Stands(stack[u]) /\ Len(stack[u]) \in Nat /\ stack[u] # <<>>
    BY <1>4, LenProperties, EmptySeq DEF TypeInv
  <2> QED
    BY <1>4, <2>1, PlaceFacts
<1>6. ASSUME ~CanStep(u) PROVE Level(u) < Level(t)
  <2> DEFINE n == Len(stack[u])
  <2>1. n \in 1..n /\ Top(u) = stack[u][n]
    BY <1>5, TopFacts
  <2>2. CASE m \in {"shutdown", "pool"}
    <3>1. Instruction(stack[u][k]).op \in {"make", "unless", "unlock"}
      BY <1>4, <1>5, <2>2, SectionCode DEF Instruction
    <3>2. k = n
      <4>1. k = n \/ k < n
        BY <1>4, <1>5
      <4>2. k < n => AtOnce(stack[u][k])
        BY <1>5 DEF Stands
      <4> QED
        BY <3>1, <4>1, <4>2 DEF AtOnce
    <3>3. Instruction(Top(u)).op \in {"once", "lock"}
      BY <1>5, <1>6, LevelFacts
    <3> QED
      BY <2>1, <3>1, <3>2, <3>3
  <2>3. CASE m = "factory"
    <3>1. Level(t) = 4 /\ Level(u) \in 0..4
      BY <1>1, <1>5, <1>6, <2>3, LevelFacts
    <3>2. ASSUME Arg(u) = "factory", Top(u).of = "newByName", Top(u).pc \in {7, 11} PROVE FALSE
      <4>1. stack[u][k].of \in Requests /\ stack[u][n].of \in Requests
        BY <1>4, <2>1, <2>3, <3>2 DEF Section, Inside, Requests
      <4>2. k = n
        BY <2>1, <4>1, FirstOnly
      <4>3. ~Section("newByName", 7, "factory") /\ ~Section("newByName", 11, "factory")
        BY DEF Section, Inside
      <4> QED
        BY <1>4, <2>1, <2>3, <3>2, <4>2, <4>3
    <3>3. Level(u) < 4 \/ Level(u) = 0
      BY <1>5, <1>6, <3>2, LevelFacts
    <3> QED
      BY <3>1, <3>3
  <2> QED
    BY <1>1, <2>2, <2>3 DEF Mutexes
<1> QED
  BY <1>3, <1>5, <1>6

(* "Infinite recursion or deadlock" (descriptor.cc): threads that cannot   *)
(* go on never wait for nobody but each other.  Whoever waits waits for    *)
(* something of a higher level than the thread it waits for.               *)
THEOREM NoCircleHolds == Spec => []NoCircle
<1>1. Init => TypeInv /\ RunInv /\ HoldInv
  BY TypeInit, RunInit, HoldInit
<1>2. (TypeInv /\ RunInv /\ HoldInv) /\ [Next]_vars => (TypeInv /\ RunInv /\ HoldInv)'
  BY TypeStep, RunStep, HoldStep
<1>3. TypeInv /\ RunInv /\ HoldInv => NoCircle
  <2> SUFFICES ASSUME TypeInv, RunInv, HoldInv,
                      NEW S \in SUBSET {t \in Threads : stack[t] # <<>> /\ ~CanStep(t)}, S # {}
               PROVE  \E t \in S, u \in Threads \ S : WaitsFor(t, u) /\ stack[u] # <<>>
    BY DEF NoCircle
  <2>1. \A t \in S : t \in Threads /\ stack[t] # <<>> /\ ~CanStep(t)
    OBVIOUS
  <2>2. \A t \in S : Level(t) \in 0..4
    BY <2>1, LevelFacts
  <2>3. PICK t \in S : \A u \in S : Level(t) <= Level(u)
    <3>1. CASE \E t \in S : Level(t) = 0
      BY <2>2, <3>1
    <3>2. CASE (\E t \in S : Level(t) = 1) /\ ~(\E t \in S : Level(t) = 0)
      BY <2>2, <3>2
    <3>3. CASE (\E t \in S : Level(t) = 2) /\ ~(\E t \in S : Level(t) \in 0..1)
      BY <2>2, <3>3
    <3>4. CASE (\E t \in S : Level(t) = 3) /\ ~(\E t \in S : Level(t) \in 0..2)
      BY <2>2, <3>4
    <3>5. CASE ~(\E t \in S : Level(t) \in 0..3)
      BY <2>2, <3>5
    <3> QED
      BY <2>2, <3>1, <3>2, <3>3, <3>4, <3>5
  <2>4. PICK u \in Threads :
           WaitsFor(t, u) /\ stack[u] # <<>> /\ (~CanStep(u) => Level(u) < Level(t))
    BY <2>1, BlockedHow, RunnerIsLower, HolderIsLower
  <2>5. u \notin S
    BY <2>1, <2>2, <2>3, <2>4
  <2> QED
    BY <2>4, <2>5
<1> QED
  BY <1>1, <1>2, <1>3, PTL DEF Spec
=============================================================================
