---------------------- MODULE EvoSharedDocumentProofs ----------------------
(***************************************************************************)
(* Proof that EvoEditor implements SharedDocument, for any number of       *)
(* devices and whatever the bounds.                                        *)
(***************************************************************************)
EXTENDS EvoSharedDocument, EvoEditorProofs

\* A device that has not opened its editor counts nothing, and only the
\* creator's lobby drops events.
EntryInv ==
    /\ \A c \in Clients : phase[c] = "entering" => BRCounter[c] = 0
    /\ \A c \in Joiners : missed[c] = 0

\* At first every counter is 0 and no event is missed.
LEMMA EntryInit == Init => EntryInv
BY DEF Init, EntryInv, Joiners

\* Every step keeps EntryInv: counters start at 0 and joiners miss nothing.
LEMMA EntryStep == TypeInv /\ EntryInv /\ [Next]_vars => EntryInv'
<1> SUFFICES ASSUME TypeInv, EntryInv, [Next]_vars PROVE EntryInv'
  OBVIOUS
<1>0. /\ phase \in [Clients -> Phase] /\ BRCounter \in [Clients -> Int]
      /\ missed \in [Clients -> Nat]
  BY DEF TypeInv, TypeOK
<1>1. ASSUME UNCHANGED <<BRCounter, missed>>,
             \A c \in Clients : phase'[c] = "entering" => phase[c] = "entering"
      PROVE  EntryInv'
  BY <1>1 DEF EntryInv, Joiners
<1>2. CASE Order
  BY <1>1, <1>2 DEF Order, process, editor, queue
<1>3. CASE Lose
  BY <1>1, <1>3 DEF Lose, process, editor, queue
<1>4. CASE EndSession
  <2>1. phase' = [phase EXCEPT ![Creator] = "left"] /\ UNCHANGED <<BRCounter, missed>>
    BY <1>4 DEF EndSession, editor, queue
  <2> QED BY <1>0, <1>1, <2>1
<1>5. ASSUME NEW d \in Clients, OpenEditor(d) PROVE EntryInv'
  <2>1. /\ phase' = [phase EXCEPT ![d] = "editing"]
        /\ BRCounter' = [BRCounter EXCEPT ![d] = 0] /\ UNCHANGED missed
    BY <1>5 DEF OpenEditor, queue
  <2> QED BY <1>0, <2>1 DEF EntryInv, Joiners
<1>6. ASSUME NEW d \in Clients, UserEdit(d) PROVE EntryInv'
  <2>1. /\ phase[d] = "editing" /\ UNCHANGED missed
        /\ \A c \in Clients : c # d => phase'[c] = phase[c] /\ BRCounter'[c] = BRCounter[c]
        /\ phase'[d] # "entering"
    BY <1>0, <1>6 DEF UserEdit, Changed, ChangeRaises, editor, queue
  <2> QED BY <1>0, <2>1 DEF EntryInv, Joiners
<1>7. ASSUME NEW d \in Clients, Deliver(d) PROVE EntryInv'
  <2>1. /\ UNCHANGED <<phase, BRCounter>>
        /\ \/ UNCHANGED missed
           \/ d = Creator /\ missed' = [missed EXCEPT ![d] = @ + 1]
    BY <1>7 DEF Deliver, Paused, process, editor
  <2> QED BY <1>0, <2>1 DEF EntryInv, Joiners
<1>8. ASSUME NEW d \in Clients, RunBlock(d) PROVE EntryInv'
  <2>1. /\ phase[d] = "editing" /\ UNCHANGED missed
        /\ \/ UNCHANGED phase
           \/ phase' = [phase EXCEPT ![d] = "crashed"]
        /\ \A c \in Clients : c # d => BRCounter'[c] = BRCounter[c]
    BY <1>0, <1>8 DEF RunBlock, OwnEvent, OtherEvent, editor
  <2> QED BY <1>0, <2>1 DEF EntryInv, Joiners
<1>9. ASSUME NEW d \in Clients, Kill(d) PROVE EntryInv'
  <2>1. phase' = [phase EXCEPT ![d] = "stopped"] /\ UNCHANGED <<BRCounter, missed>>
    BY <1>9 DEF Kill, editor, queue
  <2> QED BY <1>0, <1>1, <2>1
<1>10. ASSUME NEW d \in Clients, Relaunch(d) PROVE EntryInv'
  <2>1. /\ phase' = [phase EXCEPT ![d] = "entering"]
        /\ BRCounter' = [BRCounter EXCEPT ![d] = 0]
        /\ missed' = [missed EXCEPT ![d] = 0]
    BY <1>10 DEF Relaunch
  <2> QED BY <1>0, <2>1 DEF EntryInv, Joiners
<1>11. CASE UNCHANGED vars
  BY <1>1, <1>11 DEF vars, process, editor, queue
<1> QED BY <1>2, <1>3, <1>4, <1>5, <1>6, <1>7, <1>8, <1>9, <1>10, <1>11 DEF Next

\* EntryInv holds in every reachable state.
LEMMA EntryInvAlways == Spec => []EntryInv
BY EntryInit, EntryStep, TypeInvAlways, PTL DEF Spec

FullInv == TypeInv /\ CountInv /\ ViewInv /\ SideInv /\ EntryInv

\* All that the refinement rests on holds in every reachable state.
LEMMA FullInvAlways == Spec => []FullInv
BY TypeInvAlways, CountInvAlways, ViewInvAlways, SideInvAlways, EntryInvAlways,
   PTL DEF FullInv

-----------------------------------------------------------------------------
\* A function that differs from another one in at most one place is an EXCEPT of it.
LEMMA SetFlag ==
    ASSUME NEW S, NEW d \in S, NEW f \in [S -> BOOLEAN], NEW g \in [S -> BOOLEAN],
           NEW b, g[d] = b, \A c \in S : c # d => g[c] = f[c]
    PROVE  g = [f EXCEPT ![d] = b]
OBVIOUS

\* Waiting is a flag of every joiner.
LEMMA WaitingType == Waiting \in [Joiners -> BOOLEAN]
BY DEF Waiting

\* A step that changes at most one counter sets at most one flag.
LEMMA WaitingChange ==
    ASSUME NEW d \in Joiners, NEW b \in BOOLEAN, (BRCounter'[d] > 0) <=> b,
           \A c \in Joiners : c # d => BRCounter'[c] = BRCounter[c]
    PROVE  Waiting' = [Waiting EXCEPT ![d] = b]
<1>1. Waiting \in [Joiners -> BOOLEAN] /\ Waiting' \in [Joiners -> BOOLEAN]
  BY DEF Waiting
<1>2. Waiting'[d] = b
  <2>1. Waiting'[d] = (BRCounter'[d] > 0)
    BY Zenon DEF Waiting
  <2>2. Waiting'[d] <=> b
    BY <2>1
  <2>3. Waiting'[d] \in BOOLEAN
    BY <1>1
  <2> QED BY <2>2, <2>3
<1>3. \A c \in Joiners : c # d => Waiting'[c] = Waiting[c]
  BY Zenon DEF Waiting
<1> QED BY <1>1, <1>2, <1>3, SetFlag

\* The initial states are those of a shared document without text.
LEMMA InitRefines == Init => Shared!Init
<1> SUFFICES ASSUME Init PROVE Shared!Init
  OBVIOUS
<1>1. /\ versions = << <<>> >>
      /\ OfJoiners(executed) = [c \in Joiners |-> 0]
      /\ OfJoiners(sideString) = [c \in Joiners |-> <<>>]
      /\ OfJoiners(myText) = [c \in Joiners |-> <<>>]
  BY DEF Init, OfJoiners, Joiners
<1>2. Waiting = [c \in Joiners |-> FALSE]
  <2>1. \A c \in Joiners : ~(BRCounter[c] > 0)
    BY DEF Init, Joiners
  <2>2. \A c \in Joiners : ~Waiting[c]
    BY <2>1 DEF Waiting
  <2> QED BY <2>2, WaitingType
<1> QED BY <1>1, <1>2 DEF Shared!Init

\* Steps that leave alone all a document is made of.
LEMMA StutterRefines ==
    ASSUME UNCHANGED <<versions, executed, sideString, myText>>,
           \A c \in Joiners : (BRCounter'[c] > 0) = (BRCounter[c] > 0)
    PROVE  UNCHANGED Shared!vars
BY DEF Shared!vars, OfJoiners, Waiting

\* Ordering a submission publishes the text it makes.
LEMMA OrderRefines ==
    ASSUME TypeInv, TypeInv', Order PROVE Shared!Publish
<1>1. /\ UNCHANGED <<executed, sideString, myText, BRCounter>>
      /\ \E v : versions' = Append(versions, v)
  BY DEF Order, editor, queue
<1>2. PICK v : versions' = Append(versions, v)
  BY <1>1
<1>3. versions \in Seq(Seq(Char)) /\ versions' \in Seq(Seq(Char))
  BY DEF TypeInv, TypeOK
<1>4. Len(versions) \in Nat /\ Len(versions') = Len(versions) + 1
  BY <1>2, <1>3, LenProperties
<1>5. versions'[Len(versions')] = v
  BY <1>2, <1>3, <1>4
<1>6. versions'[Len(versions')] \in Seq(Char)
  <2>1. Len(versions') \in 1..Len(versions')
    BY <1>4
  <2> QED BY <1>3, <2>1, ElementOfSeq
<1>7. UNCHANGED <<OfJoiners(executed), OfJoiners(sideString), OfJoiners(myText), Waiting>>
  BY <1>1 DEF OfJoiners, Waiting
<1> QED BY <1>2, <1>4, <1>5, <1>6, <1>7 DEF Shared!Publish

\* An edit changes one draft and makes it wait.
LEMMA UserEditRefines ==
    ASSUME FullInv, TypeInv', NEW d \in Clients, UserEdit(d)
    PROVE  UNCHANGED Shared!vars \/ (d \in Joiners /\ Shared!Edit(d))
<1>1. /\ phase[d] = "editing" /\ UNCHANGED <<versions, executed, sideString>>
      /\ \/ UNCHANGED <<myText, BRCounter>>
         \/ /\ \E text : myText' = [myText EXCEPT ![d] = text]
            /\ BRCounter' = [BRCounter EXCEPT ![d] = @ + 1]
  BY DEF UserEdit, Changed, ChangeRaises, service, editor, queue
<1>2. /\ myText \in [Clients -> Seq(Char)] /\ myText' \in [Clients -> Seq(Char)]
      /\ BRCounter \in [Clients -> Int] /\ BRCounter[d] \in Nat
  BY <1>1, CounterNatural DEF FullInv, TypeInv, TypeOK
<1>3. CASE UNCHANGED <<myText, BRCounter>>
  BY <1>1, <1>3, StutterRefines
<1>4. CASE /\ \E text : myText' = [myText EXCEPT ![d] = text]
           /\ BRCounter' = [BRCounter EXCEPT ![d] = @ + 1]
  <2>1. PICK text : myText' = [myText EXCEPT ![d] = text]
    BY <1>4
  <2>2. CASE d \in Joiners
    <3>1. myText'[d] = text /\ text \in Seq(Char)
      BY <1>2, <2>1
    <3>2. OfJoiners(myText)' = [OfJoiners(myText) EXCEPT ![d] = text]
      BY <1>2, <2>1, <2>2 DEF OfJoiners, Joiners
    <3>3. Waiting' = [Waiting EXCEPT ![d] = TRUE]
      <4>1. /\ BRCounter'[d] > 0
            /\ \A c \in Joiners : c # d => BRCounter'[c] = BRCounter[c]
        BY <1>2, <1>4 DEF Joiners
      <4> QED BY <2>2, <4>1, WaitingChange
    <3>4. OfJoiners(myText)'[d] = text
      BY <2>2, <3>1 DEF OfJoiners
    <3>5. UNCHANGED <<versions, OfJoiners(executed), OfJoiners(sideString)>>
      BY <1>1 DEF OfJoiners
    <3> QED BY <2>2, <3>1, <3>2, <3>3, <3>4, <3>5 DEF Shared!Edit
  <2>3. CASE d \notin Joiners
    <3>1. \A c \in Joiners : myText'[c] = myText[c] /\ BRCounter'[c] = BRCounter[c]
      BY <1>2, <1>4, <2>1, <2>3 DEF Joiners
    <3> QED BY <1>1, <3>1 DEF Shared!vars, OfJoiners, Waiting
  <2> QED BY <2>2, <2>3
<1> QED BY <1>1, <1>3, <1>4

\* A block that runs to its end catches up with one published text; one that raises changes nothing.
LEMMA RunBlockRefines ==
    ASSUME FullInv, FullInv', NEW d \in Clients, RunBlock(d)
    PROVE  UNCHANGED Shared!vars \/ (d \in Joiners /\ Shared!Advance(d))
<1> DEFINE m == log[executed[d] + 1]
<1>1. TypeInv /\ TypeInv' /\ CountInv /\ CountInv' /\ ViewInv' /\ SideInv' /\ EntryInv'
  BY DEF FullInv
<1>2. /\ phase[d] = "editing" /\ executed[d] + 1 \in 1..Len(log)
      /\ UNCHANGED versions
  BY <1>1, RunBlockCases DEF service
<1>3. /\ executed \in [Clients -> Nat] /\ BRCounter \in [Clients -> Int]
      /\ myText \in [Clients -> Seq(Char)] /\ sideString \in [Clients -> Seq(Char)]
      /\ Len(log) \in Nat /\ Len(versions) = Len(log) + 1
  BY <1>1, LenProperties DEF TypeInv, TypeOK, Cursors
<1>4. CASE /\ OwnEvent(d, m) \/ OtherEvent(d, m)
           /\ executed' = [executed EXCEPT ![d] = @ + 1]
           /\ UNCHANGED phase
  <2> HIDE DEF m
  <2>1. ASSUME NEW c \in Clients, c # d
        PROVE  /\ executed'[c] = executed[c] /\ BRCounter'[c] = BRCounter[c]
               /\ myText'[c] = myText[c] /\ sideString'[c] = sideString[c]
    BY <1>3, <1>4, <2>1 DEF OwnEvent, OtherEvent
  <2>2. CASE d \notin Joiners
    <3>1. \A c \in Joiners : c \in Clients /\ c # d
      BY <2>2 DEF Joiners
    <3> QED BY <1>2, <2>1, <3>1 DEF Shared!vars, OfJoiners, Waiting
  <2>3. CASE d \in Joiners
    <3>1. executed'[d] = executed[d] + 1
      BY <1>3, <1>4
    <3>2. sideString'[d] = versions[executed[d] + 2]
      <4>1. missed'[d] = 0 /\ InPlace(d)'
        BY <1>1, <2>3 DEF EntryInv, SideInv
      <4>2. sideString'[d] = versions'[executed'[d] + 1]
        BY <4>1 DEF InPlace
      <4>3. executed'[d] + 1 = executed[d] + 2
        BY <1>3, <3>1
      <4> QED BY <1>2, <4>2, <4>3
    <3>3. BRCounter[d] \in Nat /\ BRCounter'[d] \in {BRCounter[d], BRCounter[d] - 1}
      BY <1>1, <1>2, <1>3, <1>4, CounterNatural DEF OwnEvent, OtherEvent
    <3>4. BRCounter'[d] \in Nat /\ (BRCounter'[d] = 0 => myText'[d] = sideString'[d])
      <4>1. phase'[d] = "editing"
        BY <1>2, <1>4
      <4>2. Balance(d)' /\ (failed[d] \in Nat)'
        BY <1>1, <4>1 DEF CountInv, TypeInv, TypeOK
      <4>3. (/\ IsFiniteSet(OwnPending(d)) /\ Cardinality(OwnPending(d)) \in Nat
             /\ IsFiniteSet(OwnUnread(d)) /\ Cardinality(OwnUnread(d)) \in Nat)'
        <5>1. OwnPending(d)' \in SUBSET pending' /\ IsFiniteSet(pending')
          BY <1>1 DEF OwnPending, CountInv
        <5>2. executed'[d] + 1 \in Int /\ Len(log') \in Int
          <6>1. executed' \in [Clients -> Nat] /\ log' \in Seq(Message)'
            BY <1>1 DEF TypeInv, TypeOK
          <6> QED BY <6>1, LenProperties
        <5>3. OwnUnread(d)' \in SUBSET (executed'[d] + 1 .. Len(log'))
          BY DEF OwnUnread
        <5>4. IsFiniteSet(executed'[d] + 1 .. Len(log'))
          BY <5>2, FS_Interval
        <5> QED BY <5>1, <5>3, <5>4, FS_Subset, FS_CardinalityType
      <4>4. BRCounter'[d] \in Nat
        BY <4>2, <4>3 DEF Balance
      <4> QED BY <1>1, <4>1, <4>4 DEF ViewInv, QuiescentAgreement
    <3>5. myText'[d] = myText[d] \/ BRCounter'[d] = 0
      BY <1>1, <1>3, <3>1, BlockSparesView
    <3> DEFINE next == versions[executed[d] + 2]
    <3>6. OfJoiners(executed)' = [OfJoiners(executed) EXCEPT ![d] = executed[d] + 1]
      BY <2>1, <2>3, <3>1 DEF OfJoiners, Joiners
    <3>7. OfJoiners(sideString)' = [OfJoiners(sideString) EXCEPT ![d] = next]
      BY <2>1, <2>3, <3>2 DEF OfJoiners, Joiners
    <3>8. OfJoiners(executed)[d] = executed[d]
      BY <2>3 DEF OfJoiners
    <3> HIDE DEF next
    <3>9. CASE BRCounter'[d] = 0
      <4>1. OfJoiners(myText)' = [OfJoiners(myText) EXCEPT ![d] = next]
        BY <2>1, <2>3, <3>2, <3>4, <3>9 DEF OfJoiners, Joiners, next
      <4>2. Waiting' = [Waiting EXCEPT ![d] = FALSE]
        <5>1. ~(BRCounter'[d] > 0)
          BY <3>9
        <5>2. \A c \in Joiners : c # d => BRCounter'[c] = BRCounter[c]
          BY <2>1 DEF Joiners
        <5> QED BY <2>3, <5>1, <5>2, WaitingChange
      <4> QED BY <1>2, <1>3, <2>3, <3>6, <3>7, <3>8, <4>1, <4>2
              DEF Shared!Advance, next
    <3>10. CASE BRCounter'[d] # 0
      <4>1. BRCounter'[d] > 0 /\ BRCounter[d] > 0 /\ myText'[d] = myText[d]
        BY <3>3, <3>4, <3>5, <3>10
      <4>2. /\ OfJoiners(myText)' = OfJoiners(myText)
            /\ Waiting' = Waiting
        BY <2>1, <4>1 DEF OfJoiners, Joiners, Waiting
      <4>3. Waiting[d]
        BY <2>3, <4>1 DEF Waiting
      <4> QED BY <1>2, <1>3, <2>3, <3>6, <3>7, <3>8, <4>2, <4>3
              DEF Shared!Advance, next
    <3> QED BY <3>9, <3>10
  <2> QED BY <2>2, <2>3
<1>5. CASE UNCHANGED <<editor, executed>>
  BY <1>2, <1>5, StutterRefines DEF editor
<1> QED BY <1>1, <1>4, <1>5, RunBlockCases

\* Delivery is a stutter: no joiner drops an event.
LEMMA DeliverRefines ==
    ASSUME TypeInv, NEW d \in Clients, Deliver(d) PROVE UNCHANGED Shared!vars
<1>1. /\ UNCHANGED <<versions, sideString, myText, BRCounter>>
      /\ \/ UNCHANGED executed
         \/ d = Creator /\ executed' = [executed EXCEPT ![d] = @ + 1]
  BY DEF Deliver, Paused, service, editor
<1>2. executed \in [Clients -> Nat]
  BY DEF TypeInv, TypeOK
<1>3. \A c \in Joiners : executed'[c] = executed[c]
  BY <1>1, <1>2 DEF Joiners
<1> QED BY <1>1, <1>3 DEF Shared!vars, OfJoiners, Waiting

\* Opening the editor is a stutter: the text is the one of the entry.
LEMMA OpenEditorRefines ==
    ASSUME FullInv, NEW d \in Clients, OpenEditor(d) PROVE UNCHANGED Shared!vars
<1>1. /\ phase[d] = "entering"
      /\ sideString' = [sideString EXCEPT ![d] = myText[d]]
      /\ BRCounter' = [BRCounter EXCEPT ![d] = 0]
      /\ UNCHANGED <<versions, myText, executed>>
  BY DEF OpenEditor, service, queue
<1>2. myText[d] = sideString[d] /\ BRCounter[d] = 0
  BY <1>1 DEF FullInv, SideInv, InPlace, EntryInv
<1>3. sideString \in [Clients -> Seq(Char)] /\ BRCounter \in [Clients -> Int]
  BY DEF FullInv, TypeInv, TypeOK
<1>4. UNCHANGED <<sideString, BRCounter>>
  BY <1>1, <1>2, <1>3
<1> QED BY <1>1, <1>4, StutterRefines

\* A new run is a new reader of the document.
LEMMA RelaunchRefines ==
    ASSUME TypeInv, NEW d \in Clients, Relaunch(d)
    PROVE  UNCHANGED Shared!vars \/ (d \in Joiners /\ Shared!Restart(d))
<1>1. /\ executed' = [executed EXCEPT ![d] = 0]
      /\ sideString' = [sideString EXCEPT ![d] = <<>>]
      /\ myText' = [myText EXCEPT ![d] = <<>>]
      /\ BRCounter' = [BRCounter EXCEPT ![d] = 0]
      /\ UNCHANGED versions
  BY DEF Relaunch, service
<1>2. /\ executed \in [Clients -> Nat] /\ BRCounter \in [Clients -> Int]
      /\ myText \in [Clients -> Seq(Char)] /\ sideString \in [Clients -> Seq(Char)]
  BY DEF TypeInv, TypeOK
<1>3. CASE d \in Joiners
  <2>1. /\ OfJoiners(executed)' = [OfJoiners(executed) EXCEPT ![d] = 0]
        /\ OfJoiners(sideString)' = [OfJoiners(sideString) EXCEPT ![d] = <<>>]
        /\ OfJoiners(myText)' = [OfJoiners(myText) EXCEPT ![d] = <<>>]
    BY <1>1, <1>2, <1>3 DEF OfJoiners, Joiners
  <2>2. Waiting' = [Waiting EXCEPT ![d] = FALSE]
    <3>1. /\ ~(BRCounter'[d] > 0)
          /\ \A c \in Joiners : c # d => BRCounter'[c] = BRCounter[c]
      BY <1>1, <1>2, <1>3 DEF Joiners
    <3> QED BY <1>3, <3>1, WaitingChange
  <2> QED BY <1>1, <1>3, <2>1, <2>2 DEF Shared!Restart
<1>4. CASE d \notin Joiners
  <2>1. \A c \in Joiners : /\ executed'[c] = executed[c] /\ BRCounter'[c] = BRCounter[c]
                           /\ myText'[c] = myText[c] /\ sideString'[c] = sideString[c]
    BY <1>1, <1>2, <1>4 DEF Joiners
  <2> QED BY <1>1, <2>1 DEF Shared!vars, OfJoiners, Waiting
<1> QED BY <1>3, <1>4

\* Every step is a step of the shared document or a stutter.
LEMMA StepRefines == FullInv /\ FullInv' /\ [Next]_vars => [Shared!Next]_(Shared!vars)
<1> SUFFICES ASSUME FullInv, FullInv', [Next]_vars
             PROVE  Shared!Next \/ UNCHANGED Shared!vars
  OBVIOUS
<1> USE DEF Shared!Next
<1>0. TypeInv /\ TypeInv'
  BY DEF FullInv
<1>1. CASE Order
  BY <1>0, <1>1, OrderRefines
<1>2. CASE Lose \/ EndSession \/ UNCHANGED vars
  <2>1. UNCHANGED <<versions, executed, sideString, myText, BRCounter>>
    <3>1. CASE Lose
      BY <3>1 DEF Lose, editor, queue
    <3>2. CASE EndSession
      BY <3>2 DEF EndSession, editor, queue
    <3>3. CASE UNCHANGED vars
      BY <3>3 DEF vars, service, editor, queue
    <3> QED BY <1>2, <3>1, <3>2, <3>3
  <2> QED BY <2>1, StutterRefines
<1>3. ASSUME NEW d \in Clients, OpenEditor(d) PROVE UNCHANGED Shared!vars
  BY <1>3, OpenEditorRefines
<1>4. ASSUME NEW d \in Clients, UserEdit(d) PROVE Shared!Next \/ UNCHANGED Shared!vars
  BY <1>0, <1>4, UserEditRefines
<1>5. ASSUME NEW d \in Clients, Deliver(d) PROVE UNCHANGED Shared!vars
  BY <1>0, <1>5, DeliverRefines
<1>6. ASSUME NEW d \in Clients, RunBlock(d) PROVE Shared!Next \/ UNCHANGED Shared!vars
  BY <1>6, RunBlockRefines
<1>7. ASSUME NEW d \in Clients, Kill(d) PROVE UNCHANGED Shared!vars
  <2>1. UNCHANGED <<versions, executed, sideString, myText, BRCounter>>
    BY <1>7 DEF Kill, service, editor, queue
  <2> QED BY <2>1, StutterRefines
<1>8. ASSUME NEW d \in Clients, Relaunch(d) PROVE Shared!Next \/ UNCHANGED Shared!vars
  BY <1>0, <1>8, RelaunchRefines
<1> QED BY <1>1, <1>2, <1>3, <1>4, <1>5, <1>6, <1>7, <1>8 DEF Next

\* The editor keeps the promise of SharedDocument: every device that joined
\* goes through the one sequence of published texts, in order, and its user
\* sees that copy unless changes of his own are on the way.
THEOREM SharedSpecHolds == Spec => SharedSpec
BY InitRefines, StepRefines, FullInvAlways, PTL DEF Spec, SharedSpec, Shared!Spec

=============================================================================
