-------------------------- MODULE EvoEditorProofs --------------------------
(***************************************************************************)
(* Proofs about EvoEditor, for any devices, letters, inputs and bounds.    *)
(* The inductive invariant is built in layers, each proved with the ones   *)
(* before it.                                                              *)
(***************************************************************************)
EXTENDS EvoEditor, TextOpsProofs, FiniteSetTheorems

\* an insertion carries one unit that UTF-8 can encode
WellFormed(m) == m.type = "Insert" => \E u \in Encodable : m.text = <<u>>

\* Layer 1: types, with what the indices of the handlers rest on.
MessagesWellFormed ==
    /\ \A m \in pending : WellFormed(m) /\ m.id <= edits
    /\ \A i \in 1..Len(log) : WellFormed(log[i])

Cursors ==
    /\ Len(versions) = Len(log) + 1
    /\ \A c \in Clients : /\ missed[c] <= executed[c]
                          /\ executed[c] <= received[c]
                          /\ received[c] <= Len(log)

TypeInv == TypeOK /\ MessagesWellFormed /\ Cursors

-----------------------------------------------------------------------------
\* The fields of a message have the types of textChangeMessage.
LEMMA MessageFields ==
    ASSUME NEW m \in Message
    PROVE  /\ m.client \in Clients /\ m.life \in Nat /\ m.id \in Nat
           /\ m.text \in Seq(Char) /\ m.loc \in Nat /\ m.num \in Nat
BY DEF Message

\* Every event a device can process makes a text of a text.
LEMMA ApplyType ==
    ASSUME NEW s \in Seq(Char), NEW m \in Message, WellFormed(m), Fits(s, m)
    PROVE  Apply(s, m) \in Seq(Char)
<1>1. m.loc \in Nat /\ m.num \in Nat
  BY DEF Message
<1>2. CASE m.type = "Insert"
  <2>1. PICK u \in Encodable : m.text = <<u>>
    BY <1>2 DEF WellFormed
  <2>2. TextOf(m) \in Seq(Char)
    BY <2>1, TextAssumption DEF TextOf
  <2>3. InsertFits(s, m.loc, m.num)
    BY <1>2 DEF Fits
  <2>4. InsertText(s, TextOf(m), m.loc, m.num) \in Seq(Char)
    BY <1>1, <2>2, <2>3, InsertTextType
  <2> QED BY <1>2, <2>4 DEF Apply
<1>3. CASE m.type # "Insert"
  <2>1. DeleteFits(s, m.loc, m.num)
    BY <1>3 DEF Fits
  <2>2. DeleteText(s, m.loc, m.num) \in Seq(Char)
    BY <1>1, <2>1, DeleteTextProperties
  <2> QED BY <1>3, <2>2 DEF Apply
<1> QED BY <1>2, <1>3

\* The caret stays a position.
LEMMA ClampType ==
    ASSUME NEW s \in Seq(Char), NEW n \in Nat
    PROVE  Clamp(n, s) \in Nat
BY LenProperties DEF Clamp

\* What textViewDidChange sends is a message, numbered by the edit.
LEMMA MessageForType ==
    ASSUME TypeOK, NEW c \in Clients, NEW text \in Seq(Char),
           NEW at \in 0..Len(text), CanSend(c, text, at)
    PROVE  /\ MessageFor(c, text, at) \in Message
           /\ WellFormed(MessageFor(c, text, at))
           /\ MessageFor(c, text, at).id = edits + 1
           /\ MessageFor(c, text, at).client = c
           /\ MessageFor(c, text, at).life = life[c]
<1>1. /\ Len(text) \in Nat /\ textSize[c] \in Nat
      /\ edits + 1 \in Nat /\ life[c] \in Nat /\ at \in Nat
  BY LenProperties DEF TypeOK
<1>2. Distance(textSize[c], Len(text)) \in Nat
  BY <1>1, DistanceType
<1>3. CASE textSize[c] < Len(text)
  <2>1. at \in 1..Len(text) /\ text[at] \in Encodable
    BY <1>1, <1>3 DEF CanSend
  <2>2. <<text[at]>> \in Seq(Char)
    BY <2>1, TextAssumption
  <2>3. MessageFor(c, text, at) = InsertMessage(c, text, at)
    BY <1>3 DEF MessageFor
  <2>4. InsertMessage(c, text, at) \in Message
    BY <1>1, <1>2, <2>2 DEF InsertMessage, Message
  <2> QED BY <2>1, <2>3, <2>4 DEF InsertMessage, WellFormed
<1>4. CASE ~(textSize[c] < Len(text))
  <2>1. MessageFor(c, text, at) = DeleteMessage(c, text, at)
    BY <1>4 DEF MessageFor
  <2>2. DeleteMessage(c, text, at) \in Message
    BY <1>1, <1>2, EmptySeq DEF DeleteMessage, Message
  <2> QED BY <2>1, <2>2 DEF DeleteMessage, WellFormed
<1> QED BY <1>3, <1>4

-----------------------------------------------------------------------------
\* Every device starts in the lobby with an empty text.
LEMMA TypeInvInit == Init => TypeInv
<1> SUFFICES ASSUME Init PROVE TypeInv
  OBVIOUS
<1>1. <<>> \in Seq(Message) /\ <<>> \in Seq(Char) /\ << <<>> >> \in Seq(Seq(Char))
  BY EmptySeq
<1>2. Len(<<>>) = 0 /\ Len(<< <<>> >>) = 1
  OBVIOUS
<1>3. TypeOK
  <2>1. log \in Seq(Message) /\ versions \in Seq(Seq(Char))
    BY <1>1 DEF Init
  <2>2. myText \in [Clients -> Seq(Char)] /\ sideString \in [Clients -> Seq(Char)]
    BY <1>1 DEF Init
  <2>3. /\ pending \in SUBSET Message /\ ended \in BOOLEAN
        /\ phase \in [Clients -> Phase] /\ life \in [Clients -> Nat]
    BY DEF Init, Phase
  <2>4. /\ caret \in [Clients -> Nat] /\ textSize \in [Clients -> Nat]
        /\ BRCounter \in [Clients -> Int] /\ edits \in Nat
    BY DEF Init
  <2>5. /\ received \in [Clients -> Nat] /\ executed \in [Clients -> Nat]
        /\ missed \in [Clients -> Nat] /\ failed \in [Clients -> Nat]
    BY DEF Init
  <2> QED BY <2>1, <2>2, <2>3, <2>4, <2>5 DEF TypeOK
<1>4. MessagesWellFormed
  BY <1>2 DEF Init, MessagesWellFormed
<1>5. Cursors
  BY <1>2 DEF Init, Cursors
<1> QED BY <1>3, <1>4, <1>5 DEF TypeInv

\* showViewController keeps the types: the view opens on the text it is given.
LEMMA OpenEditorType ==
    ASSUME TypeInv, NEW c \in Clients, OpenEditor(c) PROVE TypeInv'
<1>0. TypeOK /\ MessagesWellFormed /\ Cursors
  BY DEF TypeInv
<1>1. /\ phase' = [phase EXCEPT ![c] = "editing"]
      /\ textSize' = [textSize EXCEPT ![c] = 0]
      /\ sideString' = [sideString EXCEPT ![c] = myText[c]]
      /\ BRCounter' = [BRCounter EXCEPT ![c] = 0]
      /\ UNCHANGED <<service, life, failed, myText, caret, queue, edits>>
  BY DEF OpenEditor
<1>2. TypeOK'
  <2>1. /\ phase \in [Clients -> Phase] /\ textSize \in [Clients -> Nat]
        /\ myText \in [Clients -> Seq(Char)] /\ sideString \in [Clients -> Seq(Char)]
        /\ BRCounter \in [Clients -> Int]
    BY <1>0 DEF TypeOK
  <2>2. phase' \in [Clients -> Phase]
    BY <1>1, <2>1 DEF Phase
  <2>3. textSize' \in [Clients -> Nat] /\ BRCounter' \in [Clients -> Int]
    BY <1>1, <2>1
  <2>4. sideString' \in [Clients -> Seq(Char)]
    BY <1>1, <2>1
  <2>5. UNCHANGED <<log, pending, ended, versions, life, failed, myText, caret,
                    received, executed, missed, edits>>
    BY <1>1 DEF service, queue
  <2> QED BY <1>0, <2>2, <2>3, <2>4, <2>5 DEF TypeOK
<1>3. MessagesWellFormed'
  BY <1>0, <1>1 DEF MessagesWellFormed, WellFormed, service
<1>4. Cursors'
  BY <1>0, <1>1 DEF Cursors, service, queue
<1> QED BY <1>2, <1>3, <1>4 DEF TypeInv

\* The edits are numbered one by one.
LEMMA IdsBelow ==
    ASSUME TypeOK, MessagesWellFormed
    PROVE  \A x \in pending : x.id \in Nat /\ x.id <= edits + 1
<1>1. SUFFICES ASSUME NEW x \in pending PROVE x.id \in Nat /\ x.id <= edits + 1
  OBVIOUS
<1>2. x \in Message /\ edits \in Nat
  BY DEF TypeOK
<1>3. x.id \in Nat
  BY <1>2, MessageFields
<1>4. x.id <= edits
  BY DEF MessagesWellFormed
<1> QED BY <1>2, <1>3, <1>4

\* An edit in the view and its textViewDidChange keep the types; the caret
\* moves only to positions of the text, so the diff cuts what is there.
LEMMA UserEditType ==
    ASSUME TypeInv, NEW c \in Clients, UserEdit(c) PROVE TypeInv'
<1>1. TypeOK /\ MessagesWellFormed /\ Cursors
  BY DEF TypeInv
<1>2. edits' = edits + 1 /\ edits' \in Nat
  BY <1>1 DEF UserEdit, TypeOK
<1>3. PICK p \in 0..Len(myText[c]), m \in 0..MaxSelect, w \in Inputs :
          /\ p + m <= Len(myText[c])
          /\ \/ Changed(c, Splice(myText[c], p, m, w), p + Len(w))
             \/ ChangeRaises(c, Splice(myText[c], p, m, w), p + Len(w))
  BY DEF UserEdit
<1> DEFINE text == Splice(myText[c], p, m, w)
           at == p + Len(w)
<1>4. text \in Seq(Char) /\ at \in 0..Len(text)
  <2>1. /\ myText[c] \in Seq(Char) /\ w \in Seq(Char) /\ Len(myText[c]) \in Nat
        /\ Len(w) \in Nat
    BY <1>1, TextAssumption, LenProperties DEF TypeOK
  <2>2. p \in Nat /\ m \in Nat
    BY <2>1, BoundAssumption
  <2> DEFINE old == myText[c]
  <2>3. /\ old \in Seq(Char) /\ w \in Seq(Char)
        /\ p \in Nat /\ m \in Nat /\ p + m <= Len(old)
    BY <2>1, <2>2, <1>3
  <2> HIDE DEF old
  <2>4. /\ Splice(old, p, m, w) \in Seq(Char)
        /\ Len(Splice(old, p, m, w)) = Len(old) - m + Len(w)
    BY <2>3, SpliceType
  <2>5. text = Splice(old, p, m, w) /\ Len(old) \in Nat
    BY <2>1 DEF old
  <2> HIDE DEF text
  <2> QED BY <2>1, <2>2, <2>3, <2>4, <2>5
<1> HIDE DEF text, at
<1>5. CASE Changed(c, text, at)
  <2> DEFINE msg == MessageFor(c, text, at)
  <2>1. CanSend(c, text, at)
    BY <1>5 DEF Changed
  <2>2. msg \in Message /\ WellFormed(msg) /\ msg.id = edits + 1
    BY <1>1, <1>4, <2>1, MessageForType
  <2>3. /\ pending' \in SUBSET (pending \union {msg})
        /\ failed' \in [Clients -> Nat]
    <3> pending \in SUBSET Message /\ failed \in [Clients -> Nat]
      BY <1>1 DEF TypeOK
    <3> HIDE DEF msg
    <3>1. CASE Accepted(c, msg)
      BY <3>1 DEF Accepted
    <3>2. CASE Refused(c)
      BY <3>2 DEF Refused
    <3> QED BY <1>5, <3>1, <3>2 DEF Changed, msg
  <2>4. /\ phase' \in [Clients -> Phase] /\ myText' \in [Clients -> Seq(Char)]
        /\ caret' \in [Clients -> Nat] /\ BRCounter' \in [Clients -> Int]
        /\ textSize' \in [Clients -> Nat]
    <3>1. Len(text) \in Nat /\ at \in Nat
      BY <1>4, LenProperties
    <3>2. phase' \in [Clients -> Phase]
      BY <1>1, <1>5 DEF Changed, TypeOK, Phase
    <3>3. /\ myText' = [myText EXCEPT ![c] = text]
          /\ caret' = [caret EXCEPT ![c] = at]
          /\ BRCounter' = [BRCounter EXCEPT ![c] = @ + 1]
          /\ textSize' = [textSize EXCEPT ![c] = Len(text)]
      BY <1>5 DEF Changed
    <3>4. /\ myText \in [Clients -> Seq(Char)] /\ caret \in [Clients -> Nat]
          /\ BRCounter \in [Clients -> Int] /\ textSize \in [Clients -> Nat]
      BY <1>1 DEF TypeOK
    <3>5. myText' \in [Clients -> Seq(Char)]
      BY <1>4, <3>3, <3>4
    <3>6. caret' \in [Clients -> Nat] /\ textSize' \in [Clients -> Nat]
      BY <3>1, <3>3, <3>4
    <3>7. BRCounter' \in [Clients -> Int]
      BY <3>3, <3>4
    <3> QED BY <3>2, <3>5, <3>6, <3>7
  <2>5. UNCHANGED <<log, ended, versions, life, sideString, received, executed, missed>>
    BY <1>5 DEF Changed, queue
  <2> HIDE DEF msg
  <2>6. TypeOK'
    BY <1>1, <1>2, <2>2, <2>3, <2>4, <2>5 DEF TypeOK
  <2>7. MessagesWellFormed'
    <3>1. \A x \in pending : x.id \in Nat /\ x.id <= edits + 1
      BY <1>1, IdsBelow
    <3>2. edits + 1 \in Nat
      BY <1>1 DEF TypeOK
    <3> QED BY <1>1, <1>2, <2>2, <2>3, <2>5, <3>1, <3>2 DEF MessagesWellFormed, WellFormed
  <2>8. Cursors'
    BY <1>1, <2>5 DEF Cursors
  <2> QED BY <2>6, <2>7, <2>8 DEF TypeInv
<1>6. CASE ChangeRaises(c, text, at)
  <2>1. UNCHANGED <<service, life, failed, editor, queue>>
    BY <1>6 DEF ChangeRaises
  <2>2. phase' \in [Clients -> Phase]
    BY <1>1, <1>6 DEF ChangeRaises, TypeOK, Phase
  <2>3. TypeOK'
    BY <1>1, <1>2, <2>1, <2>2 DEF TypeOK, service, editor, queue
  <2>4. MessagesWellFormed'
    <3>1. \A x \in pending : x.id \in Nat /\ x.id <= edits + 1
      BY <1>1, IdsBelow
    <3> QED BY <1>1, <1>2, <2>1, <3>1 DEF MessagesWellFormed, WellFormed, service
  <2>5. Cursors'
    BY <1>1, <2>1 DEF Cursors, service, queue
  <2> QED BY <2>3, <2>4, <2>5 DEF TypeInv
<1> QED BY <1>3, <1>5, <1>6 DEF text, at

\* A submission that the service orders becomes the next event of the session.
LEMMA OrderType ==
    ASSUME TypeInv, Order PROVE TypeInv'
<1>1. TypeOK /\ MessagesWellFormed /\ Cursors
  BY DEF TypeInv
<1>2. UNCHANGED <<ended, phase, life, failed, editor, queue, edits>>
  BY DEF Order, process
<1> DEFINE s == versions[Len(versions)]
           Merged(m) == IF Fits(s, m) THEN Apply(s, m) ELSE s
<1>3. PICK m \in pending : /\ pending' = pending \ {m}
                           /\ log' = Append(log, m)
                           /\ versions' = Append(versions, Merged(m))
  BY DEF Order
<1>4. m \in Message /\ WellFormed(m)
  BY <1>1 DEF TypeOK, MessagesWellFormed
<1>5. Len(versions) \in Nat /\ Len(log) \in Nat /\ Len(versions) = Len(log) + 1
  BY <1>1, LenProperties DEF TypeOK, Cursors
<1>6. s \in Seq(Char)
  <2>1. Len(versions) \in 1..Len(versions)
    BY <1>5
  <2> QED BY <1>1, <2>1, ElementOfSeq DEF TypeOK
<1> HIDE DEF s
<1>7. Merged(m) \in Seq(Char)
  BY <1>4, <1>6, ApplyType
<1> HIDE DEF Merged
<1>8. /\ log' \in Seq(Message) /\ Len(log') = Len(log) + 1
      /\ \A i \in 1..Len(log) : log'[i] = log[i]
      /\ log'[Len(log) + 1] = m
  BY <1>1, <1>3, <1>4, AppendProperties DEF TypeOK
<1>9. versions' \in Seq(Seq(Char)) /\ Len(versions') = Len(versions) + 1
  BY <1>1, <1>3, <1>7, AppendProperties DEF TypeOK
<1>10. TypeOK'
  BY <1>1, <1>2, <1>3, <1>8, <1>9 DEF TypeOK, editor, queue
<1>11. MessagesWellFormed'
  <2>1. \A x \in pending' : WellFormed(x) /\ x.id <= edits'
    BY <1>1, <1>2, <1>3 DEF MessagesWellFormed
  <2>2. \A i \in 1..Len(log') : WellFormed(log'[i])
    <3> TAKE i \in 1..Len(log')
    <3>1. i \in 1..Len(log) \/ i = Len(log) + 1
      BY <1>5, <1>8
    <3> QED BY <1>1, <1>4, <1>8, <3>1 DEF MessagesWellFormed
  <2> QED BY <2>1, <2>2 DEF MessagesWellFormed, WellFormed
<1>12. Cursors'
  <2>1. \A c \in Clients : received[c] \in Nat /\ received[c] <= Len(log) + 1
    BY <1>1, <1>5 DEF TypeOK, Cursors
  <2> QED BY <1>1, <1>2, <1>5, <1>8, <1>9, <2>1 DEF Cursors, queue
<1> QED BY <1>10, <1>11, <1>12 DEF TypeInv

\* A submission that dies with its run only leaves the queue.
LEMMA LoseType ==
    ASSUME TypeInv, Lose PROVE TypeInv'
<1>1. TypeOK /\ MessagesWellFormed /\ Cursors
  BY DEF TypeInv
<1>2. /\ pending' \in SUBSET pending
      /\ UNCHANGED <<log, ended, versions, phase, life, failed, editor, queue, edits>>
  BY DEF Lose, process
<1>3. TypeOK'
  BY <1>1, <1>2 DEF TypeOK, editor, queue
<1>4. MessagesWellFormed'
  BY <1>1, <1>2 DEF MessagesWellFormed, WellFormed
<1>5. Cursors'
  BY <1>1, <1>2 DEF Cursors, queue
<1> QED BY <1>3, <1>4, <1>5 DEF TypeInv

\* receivedEvent keeps the types, whether the editor queues a block or the
\* creator's lobby drops the event.
LEMMA DeliverType ==
    ASSUME TypeInv, NEW c \in Clients, Deliver(c) PROVE TypeInv'
<1>1. TypeOK /\ MessagesWellFormed /\ Cursors
  BY DEF TypeInv
<1>2. /\ received[c] < Len(log)
      /\ received' = [received EXCEPT ![c] = @ + 1]
      /\ UNCHANGED <<service, process, editor, edits>>
      /\ \/ UNCHANGED <<executed, missed>>
         \/ /\ executed' = [executed EXCEPT ![c] = @ + 1]
            /\ missed' = [missed EXCEPT ![c] = @ + 1]
  BY DEF Deliver
<1>3. TypeOK'
  <2>1. /\ received \in [Clients -> Nat] /\ executed \in [Clients -> Nat]
        /\ missed \in [Clients -> Nat]
    BY <1>1 DEF TypeOK
  <2>2. received' \in [Clients -> Nat]
    BY <1>2, <2>1
  <2>3. executed' \in [Clients -> Nat] /\ missed' \in [Clients -> Nat]
    <3>1. CASE UNCHANGED <<executed, missed>>
      BY <2>1, <3>1
    <3>2. CASE /\ executed' = [executed EXCEPT ![c] = @ + 1]
               /\ missed' = [missed EXCEPT ![c] = @ + 1]
      BY <2>1, <3>2
    <3> QED BY <1>2, <3>1, <3>2
  <2> QED BY <1>1, <1>2, <2>2, <2>3 DEF TypeOK, service, process, editor
<1>4. MessagesWellFormed'
  BY <1>1, <1>2 DEF MessagesWellFormed, WellFormed, service
<1>5. Cursors'
  <2>1. Len(log) \in Nat
    BY <1>1, LenProperties DEF TypeOK
  <2>2. log' = log /\ versions' = versions
    BY <1>2 DEF service
  <2>3. ASSUME NEW d \in Clients
        PROVE  /\ missed'[d] <= executed'[d] /\ executed'[d] <= received'[d]
               /\ received'[d] <= Len(log)
    <3>1. /\ missed[d] \in Nat /\ executed[d] \in Nat /\ received[d] \in Nat
          /\ missed[d] <= executed[d] /\ executed[d] <= received[d]
          /\ received[d] <= Len(log)
      BY <1>1 DEF TypeOK, Cursors
    <3>2. received'[d] = IF d = c THEN received[d] + 1 ELSE received[d]
      BY <1>1, <1>2 DEF TypeOK
    <3>3. \/ executed'[d] = executed[d] /\ missed'[d] = missed[d]
          \/ d = c /\ executed'[d] = executed[d] + 1 /\ missed'[d] = missed[d] + 1
      BY <1>1, <1>2 DEF TypeOK
    <3> QED BY <1>2, <2>1, <3>1, <3>2, <3>3
  <2> QED BY <1>1, <2>2, <2>3 DEF Cursors
<1> QED BY <1>3, <1>4, <1>5 DEF TypeInv

\* A block that runs to its end finds every text it cuts long enough.
LEMMA RunBlockCases ==
    ASSUME TypeInv, NEW c \in Clients, RunBlock(c)
    PROVE  /\ phase[c] = "editing"
           /\ executed[c] + 1 \in 1..Len(log) /\ executed[c] < received[c]
           /\ log[executed[c] + 1] \in Message /\ WellFormed(log[executed[c] + 1])
           /\ UNCHANGED <<service, life, failed, received, missed, edits>>
           /\ \/ /\ Fits(sideString[c], log[executed[c] + 1])
                 /\ ~IsSelf(c, log[executed[c] + 1]) /\ BRCounter[c] = 0
                       => Fits(myText[c], log[executed[c] + 1])
                 /\ \/ OwnEvent(c, log[executed[c] + 1])
                    \/ OtherEvent(c, log[executed[c] + 1])
                 /\ executed' = [executed EXCEPT ![c] = @ + 1]
                 /\ UNCHANGED phase
              \/ /\ \/ ~Fits(sideString[c], log[executed[c] + 1])
                    \/ /\ ~IsSelf(c, log[executed[c] + 1]) /\ BRCounter[c] = 0
                       /\ ~Fits(myText[c], log[executed[c] + 1])
                 /\ phase' = [phase EXCEPT ![c] = "crashed"]
                 /\ UNCHANGED <<editor, executed>>
<1>1. TypeOK /\ MessagesWellFormed /\ Cursors
  BY DEF TypeInv
<1>2. /\ executed[c] \in Nat /\ received[c] \in Nat /\ Len(log) \in Nat
      /\ executed[c] < received[c] /\ received[c] <= Len(log)
  BY <1>1, LenProperties DEF TypeOK, Cursors, RunBlock
<1>3. executed[c] + 1 \in 1..Len(log)
  BY <1>2
<1>4. log[executed[c] + 1] \in Message /\ WellFormed(log[executed[c] + 1])
  BY <1>1, <1>3, ElementOfSeq DEF TypeOK, MessagesWellFormed
<1> DEFINE m == log[executed[c] + 1]
<1>5. /\ sideString[c] \in Cut(c, m)
      /\ ~IsSelf(c, m) /\ BRCounter[c] = 0 => myText[c] \in Cut(c, m)
      /\ \A s \in Cut(c, m) :
            s = sideString[c] \/ (s = myText[c] /\ ~IsSelf(c, m) /\ BRCounter[c] = 0)
  <2> HIDE DEF m
  <2>1. CASE ~IsSelf(c, m) /\ BRCounter[c] = 0
    <3>1. Cut(c, m) = {myText[c], sideString[c]}
      BY <2>1 DEF Cut
    <3> QED BY <2>1, <3>1
  <2>2. CASE ~(~IsSelf(c, m) /\ BRCounter[c] = 0)
    <3>1. Cut(c, m) = {sideString[c]}
      BY <2>2 DEF Cut
    <3> QED BY <2>2, <3>1
  <2> QED BY <2>1, <2>2
<1> QED BY <1>2, <1>3, <1>4, <1>5 DEF RunBlock

\* A block of receivedEvent keeps the types, whether it runs to its end or
\* raises NSRangeException.
LEMMA RunBlockType ==
    ASSUME TypeInv, NEW c \in Clients, RunBlock(c) PROVE TypeInv'
<1>1. TypeOK /\ MessagesWellFormed /\ Cursors
  BY DEF TypeInv
<1>2. UNCHANGED <<service, life, failed, received, missed, edits>>
  BY RunBlockCases
<1> DEFINE m == log[executed[c] + 1]
<1>3. MessagesWellFormed'
  BY <1>1, <1>2 DEF MessagesWellFormed, WellFormed, service
<1>4. CASE /\ Fits(sideString[c], m)
           /\ ~IsSelf(c, m) /\ BRCounter[c] = 0 => Fits(myText[c], m)
           /\ OwnEvent(c, m) \/ OtherEvent(c, m)
           /\ executed' = [executed EXCEPT ![c] = @ + 1]
           /\ UNCHANGED phase
  <2>1. /\ m \in Message /\ WellFormed(m)
        /\ executed[c] < received[c]
    BY RunBlockCases
  <2> HIDE DEF m
  <2>2. m.loc \in Nat /\ sideString[c] \in Seq(Char) /\ myText[c] \in Seq(Char)
    BY <1>1, <2>1, MessageFields DEF TypeOK
  <2> DEFINE side == Apply(sideString[c], m)
             main == Apply(myText[c], m)
  <2>3. side \in Seq(Char)
    BY <1>4, <2>1, <2>2, ApplyType
  <2>4. ~IsSelf(c, m) /\ BRCounter[c] = 0 => main \in Seq(Char) /\ Len(main) \in Nat
    BY <1>4, <2>1, <2>2, ApplyType, LenProperties
  <2>5. caret[c] \in Nat /\ executed[c] \in Nat
    BY <1>1 DEF TypeOK
  <2>6. /\ Clamp(m.loc, side) \in Nat
        /\ ~IsSelf(c, m) /\ BRCounter[c] = 0 => Clamp(caret[c], main) \in Nat
    BY <2>2, <2>3, <2>4, <2>5, ClampType
  <2>7. /\ sideString' = [sideString EXCEPT ![c] = side]
        /\ BRCounter' = BRCounter \/ BRCounter' = [BRCounter EXCEPT ![c] = @ - 1]
        /\ \/ UNCHANGED <<myText, caret, textSize>>
           \/ /\ myText' = [myText EXCEPT ![c] = side]
              /\ caret' = [caret EXCEPT ![c] = Clamp(m.loc, side)]
              /\ UNCHANGED textSize
           \/ /\ ~IsSelf(c, m) /\ BRCounter[c] = 0
              /\ myText' = [myText EXCEPT ![c] = main]
              /\ caret' = [caret EXCEPT ![c] = Clamp(caret[c], main)]
              /\ textSize' = [textSize EXCEPT ![c] = Len(main)]
    BY <1>4 DEF OwnEvent, OtherEvent
  <2> HIDE DEF side, main
  <2>8. /\ sideString' \in [Clients -> Seq(Char)] /\ BRCounter' \in [Clients -> Int]
        /\ executed' \in [Clients -> Nat]
    <3>1. /\ sideString \in [Clients -> Seq(Char)] /\ BRCounter \in [Clients -> Int]
          /\ executed \in [Clients -> Nat]
      BY <1>1 DEF TypeOK
    <3>2. sideString' \in [Clients -> Seq(Char)]
      BY <2>3, <2>7, <3>1
    <3>3. BRCounter' \in [Clients -> Int]
      BY <2>7, <3>1
    <3>4. executed' \in [Clients -> Nat]
      BY <1>4, <3>1
    <3> QED BY <3>2, <3>3, <3>4
  <2>9. /\ myText' \in [Clients -> Seq(Char)] /\ caret' \in [Clients -> Nat]
        /\ textSize' \in [Clients -> Nat]
    <3>1. /\ myText \in [Clients -> Seq(Char)] /\ caret \in [Clients -> Nat]
          /\ textSize \in [Clients -> Nat]
      BY <1>1 DEF TypeOK
    <3>2. myText' \in [Clients -> Seq(Char)]
      BY <2>3, <2>4, <2>7, <3>1
    <3>3. caret' \in [Clients -> Nat]
      BY <2>6, <2>7, <3>1
    <3>4. textSize' \in [Clients -> Nat]
      BY <2>4, <2>7, <3>1
    <3> QED BY <3>2, <3>3, <3>4
  <2>10. TypeOK'
    BY <1>1, <1>2, <1>4, <2>8, <2>9 DEF TypeOK, service
  <2>11. Cursors'
    <3>1. /\ UNCHANGED <<log, versions, received, missed>>
          /\ executed' = [executed EXCEPT ![c] = @ + 1]
      BY <1>2, <1>4 DEF service
    <3>2. /\ executed \in [Clients -> Nat] /\ received \in [Clients -> Nat]
          /\ missed \in [Clients -> Nat]
      BY <1>1 DEF TypeOK
    <3>3. ASSUME NEW d \in Clients
          PROVE  missed[d] <= executed'[d] /\ executed'[d] <= received[d]
      <4>1. missed[d] <= executed[d] /\ executed[d] <= received[d]
        BY <1>1 DEF Cursors
      <4>2. CASE d = c
        BY <2>1, <3>1, <3>2, <4>1, <4>2
      <4>3. CASE d # c
        BY <3>1, <3>2, <4>1, <4>3
      <4> QED BY <4>2, <4>3
    <3> QED BY <1>1, <3>1, <3>3 DEF Cursors
  <2> QED BY <1>3, <2>10, <2>11 DEF TypeInv
<1>5. CASE /\ phase' = [phase EXCEPT ![c] = "crashed"]
           /\ UNCHANGED <<editor, executed>>
  <2>1. TypeOK'
    BY <1>1, <1>2, <1>5 DEF TypeOK, Phase, service, editor
  <2>2. Cursors'
    BY <1>1, <1>2, <1>5 DEF Cursors, service
  <2> QED BY <1>3, <2>1, <2>2 DEF TypeInv
<1> QED BY <1>4, <1>5, RunBlockCases

\* The end of a run keeps the types.
LEMMA KillType ==
    ASSUME TypeInv, NEW c \in Clients, Kill(c) PROVE TypeInv'
<1>1. TypeOK /\ MessagesWellFormed /\ Cursors
  BY DEF TypeInv
<1>2. /\ phase' = [phase EXCEPT ![c] = "stopped"]
      /\ UNCHANGED <<service, life, failed, editor, queue, edits>>
  BY DEF Kill
<1>3. TypeOK'
  BY <1>1, <1>2 DEF TypeOK, Phase, service, editor, queue
<1>4. MessagesWellFormed'
  BY <1>1, <1>2 DEF MessagesWellFormed, WellFormed, service
<1>5. Cursors'
  BY <1>1, <1>2 DEF Cursors, service, queue
<1> QED BY <1>3, <1>4, <1>5 DEF TypeInv

\* Deleting the session keeps the types.
LEMMA EndSessionType ==
    ASSUME TypeInv, EndSession PROVE TypeInv'
<1>1. TypeOK /\ MessagesWellFormed /\ Cursors
  BY DEF TypeInv
<1>2. /\ phase' = [phase EXCEPT ![Creator] = "left"] /\ ended' = TRUE
      /\ UNCHANGED <<log, pending, versions, life, failed, editor, queue, edits>>
  BY DEF EndSession
<1>3. TypeOK'
  BY <1>1, <1>2 DEF TypeOK, Phase, editor, queue
<1>4. MessagesWellFormed'
  BY <1>1, <1>2 DEF MessagesWellFormed, WellFormed
<1>5. Cursors'
  BY <1>1, <1>2 DEF Cursors, queue
<1> QED BY <1>3, <1>4, <1>5 DEF TypeInv

\* A new run keeps the types: all it holds is empty, its cursors are 0.
LEMMA RelaunchType ==
    ASSUME TypeInv, NEW c \in Clients, Relaunch(c) PROVE TypeInv'
<1>1. TypeOK /\ MessagesWellFormed /\ Cursors
  BY DEF TypeInv
<1>2. /\ phase' = [phase EXCEPT ![c] = "entering"]
      /\ life' = [life EXCEPT ![c] = @ + 1]
      /\ UNCHANGED <<service, edits>>
  BY DEF Relaunch
<1>3. /\ myText' = [myText EXCEPT ![c] = <<>>]
      /\ sideString' = [sideString EXCEPT ![c] = <<>>]
      /\ caret' = [caret EXCEPT ![c] = 0]
      /\ textSize' = [textSize EXCEPT ![c] = 0]
      /\ BRCounter' = [BRCounter EXCEPT ![c] = 0]
      /\ failed' = [failed EXCEPT ![c] = 0]
  BY DEF Relaunch
<1>4. /\ received' = [received EXCEPT ![c] = 0]
      /\ executed' = [executed EXCEPT ![c] = 0]
      /\ missed' = [missed EXCEPT ![c] = 0]
  BY DEF Relaunch
<1>5. TypeOK'
  <2>1. <<>> \in Seq(Char)
    BY EmptySeq
  <2>2. myText' \in [Clients -> Seq(Char)] /\ sideString' \in [Clients -> Seq(Char)]
    BY <1>1, <1>3, <2>1 DEF TypeOK
  <2>3. phase' \in [Clients -> Phase] /\ life' \in [Clients -> Nat]
    BY <1>1, <1>2 DEF TypeOK, Phase
  <2>4. /\ caret' \in [Clients -> Nat] /\ textSize' \in [Clients -> Nat]
        /\ BRCounter' \in [Clients -> Int] /\ failed' \in [Clients -> Nat]
    BY <1>1, <1>3 DEF TypeOK
  <2>5. /\ received' \in [Clients -> Nat] /\ executed' \in [Clients -> Nat]
        /\ missed' \in [Clients -> Nat]
    BY <1>1, <1>4 DEF TypeOK
  <2> QED BY <1>1, <1>2, <2>2, <2>3, <2>4, <2>5 DEF TypeOK, service
<1>6. MessagesWellFormed'
  BY <1>1, <1>2 DEF MessagesWellFormed, WellFormed, service
<1>7. Cursors'
  <2>1. Len(log) \in Nat
    BY <1>1, LenProperties DEF TypeOK
  <2> QED BY <1>1, <1>2, <1>4, <2>1 DEF Cursors, TypeOK, service
<1> QED BY <1>5, <1>6, <1>7 DEF TypeInv

\* Every step keeps the type invariant.
LEMMA TypeInvStep == TypeInv /\ [Next]_vars => TypeInv'
<1> SUFFICES ASSUME TypeInv, [Next]_vars PROVE TypeInv'
  OBVIOUS
<1>1. CASE Order
  BY <1>1, OrderType
<1>2. CASE Lose
  BY <1>2, LoseType
<1>3. CASE EndSession
  BY <1>3, EndSessionType
<1>4. ASSUME NEW c \in Clients, OpenEditor(c) PROVE TypeInv'
  BY <1>4, OpenEditorType
<1>5. ASSUME NEW c \in Clients, UserEdit(c) PROVE TypeInv'
  BY <1>5, UserEditType
<1>6. ASSUME NEW c \in Clients, Deliver(c) PROVE TypeInv'
  BY <1>6, DeliverType
<1>7. ASSUME NEW c \in Clients, RunBlock(c) PROVE TypeInv'
  BY <1>7, RunBlockType
<1>8. ASSUME NEW c \in Clients, Kill(c) PROVE TypeInv'
  BY <1>8, KillType
<1>9. ASSUME NEW c \in Clients, Relaunch(c) PROVE TypeInv'
  BY <1>9, RelaunchType
<1>10. CASE UNCHANGED vars
  BY <1>10 DEF vars, service, process, editor, queue, TypeInv, TypeOK,
               MessagesWellFormed, WellFormed, Cursors
<1> QED BY <1>1, <1>2, <1>3, <1>4, <1>5, <1>6, <1>7, <1>8, <1>9, <1>10 DEF Next

\* The type invariant holds in every reachable state.
LEMMA TypeInvAlways == Spec => []TypeInv
BY TypeInvInit, TypeInvStep, PTL DEF Spec

\* Type correctness: the handlers never build anything but texts, positions
\* and messages, and every cursor stays within the session's events.
THEOREM TypeCorrect == Spec => []TypeOK
<1>1. TypeInv => TypeOK
  BY DEF TypeInv
<1> QED BY <1>1, TypeInvAlways, PTL

-----------------------------------------------------------------------------
(***************************************************************************)
(* Layer 2: the accounting of BRCounter.  No message is from a run that    *)
(* has not begun, or has not opened its editor yet.                        *)
(***************************************************************************)
Past(m) == /\ m.life <= life[m.client]
           /\ phase[m.client] = "entering" => m.life < life[m.client]

MessagesPast ==
    /\ \A m \in pending : Past(m)
    /\ \A i \in 1..Len(log) : Past(log[i])

Balance(c) ==
    BRCounter[c] = Cardinality(OwnPending(c)) + Cardinality(OwnUnread(c)) + failed[c]

CountInv ==
    /\ IsFiniteSet(pending)
    /\ MessagesPast
    /\ \A c \in Clients : phase[c] = "entering" => failed[c] = 0
    /\ \A c \in Clients : phase[c] = "editing" => Balance(c)

\* The two sets the counter counts are finite.
LEMMA OwnFinite ==
    ASSUME TypeInv, IsFiniteSet(pending), NEW c \in Clients
    PROVE  /\ IsFiniteSet(OwnPending(c)) /\ Cardinality(OwnPending(c)) \in Nat
           /\ IsFiniteSet(OwnUnread(c)) /\ Cardinality(OwnUnread(c)) \in Nat
<1>1. OwnPending(c) \in SUBSET pending
  BY DEF OwnPending
<1>2. executed[c] + 1 \in Int /\ Len(log) \in Int
  BY LenProperties DEF TypeInv, TypeOK
<1>3. OwnUnread(c) \in SUBSET (executed[c] + 1 .. Len(log))
  BY DEF OwnUnread
<1>4. IsFiniteSet(executed[c] + 1 .. Len(log))
  BY <1>2, FS_Interval
<1> QED BY <1>1, <1>3, <1>4, FS_Subset, FS_CardinalityType

\* A device whose part of the state a step leaves alone stays in balance.
LEMMA BalanceFrame ==
    ASSUME NEW c \in Clients, Balance(c), UNCHANGED <<pending, log, life>>,
           executed'[c] = executed[c], BRCounter'[c] = BRCounter[c],
           failed'[c] = failed[c]
    PROVE  Balance(c)'
<1>1. OwnPending(c)' = OwnPending(c)
  BY DEF OwnPending, IsSelf
<1>2. OwnUnread(c)' = OwnUnread(c)
  BY DEF OwnUnread, IsSelf
<1> QED BY <1>1, <1>2 DEF Balance

\* With no message anywhere the balance of every device is 0.
LEMMA CountInit == Init => CountInv
<1> SUFFICES ASSUME Init PROVE CountInv
  OBVIOUS
<1>1. IsFiniteSet(pending)
  BY FS_EmptySet DEF Init
<1>2. Len(log) = 0 /\ pending = {}
  BY EmptySeq DEF Init
<1>3. MessagesPast
  BY <1>2 DEF MessagesPast
<1> QED BY <1>1, <1>3 DEF Init, CountInv

\* Steps that leave the messages alone, and in which no run begins.
LEMMA PastFrame ==
    ASSUME MessagesPast, UNCHANGED <<pending, log, life>>,
           \A c \in Clients : phase'[c] = "entering" => phase[c] = "entering",
           TypeInv
    PROVE  MessagesPast'
<1>1. \A m \in pending : m.client \in Clients
  BY MessageFields DEF TypeInv, TypeOK
<1>2. \A i \in 1..Len(log) : log[i].client \in Clients
  BY MessageFields, ElementOfSeq DEF TypeInv, TypeOK
<1> QED BY <1>1, <1>2 DEF MessagesPast, Past

\* Opening the editor finds no message of that device under way.
LEMMA OpenEditorCount ==
    ASSUME TypeInv, CountInv, NEW d \in Clients, OpenEditor(d) PROVE CountInv'
<1>1. /\ phase[d] = "entering" /\ phase' = [phase EXCEPT ![d] = "editing"]
      /\ BRCounter' = [BRCounter EXCEPT ![d] = 0]
      /\ UNCHANGED <<pending, log, life, failed, executed>>
  BY DEF OpenEditor, service, queue
<1>2. phase \in [Clients -> Phase] /\ BRCounter \in [Clients -> Int]
  BY DEF TypeInv, TypeOK
<1>3. MessagesPast'
  BY <1>1, <1>2, PastFrame DEF CountInv
<1>4. ASSUME NEW c \in Clients, phase'[c] = "editing" PROVE Balance(c)'
  <2>1. CASE c = d
    <3>1. \A m \in pending : ~IsSelf(d, m)
      <4>1. \A m \in pending : m.life \in Nat /\ life[d] \in Nat
        BY MessageFields DEF TypeInv, TypeOK
      <4> QED BY <1>1, <4>1 DEF CountInv, MessagesPast, Past, IsSelf
    <3>2. \A i \in 1..Len(log) : ~IsSelf(d, log[i])
      <4>1. \A i \in 1..Len(log) : log[i].life \in Nat /\ life[d] \in Nat
        BY MessageFields, ElementOfSeq DEF TypeInv, TypeOK
      <4> QED BY <1>1, <4>1 DEF CountInv, MessagesPast, Past, IsSelf
    <3>3. OwnPending(d)' = {}
      BY <1>1, <3>1 DEF OwnPending, IsSelf
    <3>4. executed[d] \in Nat
      BY DEF TypeInv, TypeOK
    <3>5. OwnUnread(d)' = {}
      <4>1. OwnUnread(d)' = OwnUnread(d)
        BY <1>1 DEF OwnUnread, IsSelf
      <4>2. Len(log) \in Nat
        BY LenProperties DEF TypeInv, TypeOK
      <4>3. \A i \in executed[d] + 1 .. Len(log) : i \in 1..Len(log)
        BY <3>4, <4>2
      <4> QED BY <3>2, <4>1, <4>3 DEF OwnUnread
    <3>6. BRCounter'[d] = 0 /\ failed'[d] = 0
      BY <1>1, <1>2 DEF CountInv
    <3> QED BY <2>1, <3>3, <3>5, <3>6, FS_EmptySet DEF Balance
  <2>2. CASE c # d
    <3>1. phase[c] = "editing" /\ BRCounter'[c] = BRCounter[c]
      BY <1>1, <1>2, <1>4, <2>2
    <3> QED BY <1>1, <3>1, BalanceFrame DEF CountInv
  <2> QED BY <2>1, <2>2
<1>5. \A c \in Clients : phase'[c] = "entering" => failed'[c] = 0
  BY <1>1, <1>2 DEF CountInv
<1> QED BY <1>1, <1>3, <1>4, <1>5 DEF CountInv

\* An edit adds its submission to the messages that the counter awaits.
LEMMA UserEditCount ==
    ASSUME TypeInv, CountInv, NEW d \in Clients, UserEdit(d) PROVE CountInv'
<1>0. /\ phase \in [Clients -> Phase] /\ BRCounter \in [Clients -> Int]
      /\ failed \in [Clients -> Nat] /\ phase[d] = "editing" /\ TypeOK
  BY DEF TypeInv, TypeOK, UserEdit
<1>1. PICK p \in 0..Len(myText[d]), k \in 0..MaxSelect, w \in Inputs :
          /\ p + k <= Len(myText[d])
          /\ \/ Changed(d, Splice(myText[d], p, k, w), p + Len(w))
             \/ ChangeRaises(d, Splice(myText[d], p, k, w), p + Len(w))
  BY DEF UserEdit
<1> DEFINE text == Splice(myText[d], p, k, w)
           at == p + Len(w)
           msg == MessageFor(d, text, at)
<1>2. /\ UNCHANGED <<log, life, executed>>
      /\ phase' = [phase EXCEPT ![d] = phase'[d]] /\ phase'[d] # "entering"
      /\ \A c \in Clients : c # d => phase'[c] = phase[c]
  BY <1>0, <1>1 DEF Changed, ChangeRaises, service, queue
<1>3. msg.client = d /\ msg.life = life[d] /\ msg.id = edits + 1
  BY DEF MessageFor, InsertMessage, DeleteMessage
<1> HIDE DEF msg, text, at
<1>4. CASE Changed(d, text, at)
  <2>1. BRCounter' = [BRCounter EXCEPT ![d] = @ + 1]
    BY <1>4 DEF Changed
  <2>2. CASE Accepted(d, msg)
    <3>1. pending' = pending \union {msg} /\ failed' = failed
      BY <2>2 DEF Accepted
    <3>2. msg \notin pending
      <4>1. \A m \in pending : m.id <= edits
        BY DEF TypeInv, MessagesWellFormed
      <4>2. edits \in Nat
        BY <1>0 DEF TypeOK
      <4> QED BY <1>3, <4>1, <4>2
    <3>3. MessagesPast'
      <4>1. \A m \in pending : m.client \in Clients
        BY MessageFields DEF TypeInv, TypeOK
      <4>2. \A i \in 1..Len(log) : log[i].client \in Clients
        BY MessageFields, ElementOfSeq DEF TypeInv, TypeOK
      <4>3. life[d] <= life[d]
        BY <1>0 DEF TypeOK
      <4>4. MessagesPast
        BY DEF CountInv
      <4>5. \A m \in pending' : Past(m)'
        BY <1>0, <1>2, <1>3, <3>1, <4>1, <4>3, <4>4 DEF MessagesPast, Past
      <4>6. \A i \in 1..Len(log) : Past(log[i])'
        BY <1>0, <1>2, <4>2, <4>4 DEF MessagesPast, Past
      <4> QED BY <1>2, <4>5, <4>6 DEF MessagesPast, Past
    <3>4. OwnPending(d)' = OwnPending(d) \union {msg} /\ msg \notin OwnPending(d)
      BY <1>2, <1>3, <3>1, <3>2 DEF OwnPending, IsSelf
    <3>5. Cardinality(OwnPending(d)') = Cardinality(OwnPending(d)) + 1
      BY <3>4, OwnFinite, FS_AddElement DEF CountInv
    <3>6. OwnUnread(d)' = OwnUnread(d)
      BY <1>2 DEF OwnUnread, IsSelf
    <3>7. Balance(d)'
      <4>1. Balance(d)
        BY <1>0 DEF CountInv
      <4>2. Cardinality(OwnPending(d)) \in Nat /\ Cardinality(OwnUnread(d)) \in Nat
        BY OwnFinite DEF CountInv
      <4>3. BRCounter'[d] = BRCounter[d] + 1 /\ failed'[d] = failed[d]
        BY <1>0, <2>1, <3>1
      <4>4. failed[d] \in Nat
        BY <1>0
      <4> QED BY <3>5, <3>6, <4>1, <4>2, <4>3, <4>4 DEF Balance
    <3>8. ASSUME NEW c \in Clients, c # d, phase'[c] = "editing" PROVE Balance(c)'
      <4>1. OwnPending(c)' = OwnPending(c)
        BY <1>2, <1>3, <3>1, <3>8 DEF OwnPending, IsSelf
      <4>2. OwnUnread(c)' = OwnUnread(c)
        BY <1>2 DEF OwnUnread, IsSelf
      <4>3. BRCounter'[c] = BRCounter[c] /\ phase[c] = "editing"
        BY <1>0, <1>2, <2>1, <3>8
      <4> QED BY <3>1, <4>1, <4>2, <4>3 DEF Balance, CountInv
    <3>9. IsFiniteSet(pending')
      BY <3>1, FS_AddElement DEF CountInv
    <3>10. \A c \in Clients : phase'[c] = "entering" => failed'[c] = 0
      BY <1>2, <3>1 DEF CountInv
    <3> QED BY <3>3, <3>7, <3>8, <3>9, <3>10 DEF CountInv
  <2>3. CASE Refused(d)
    <3>1. pending' = pending /\ failed' = [failed EXCEPT ![d] = @ + 1]
      BY <2>3 DEF Refused
    <3>2. MessagesPast'
      BY <1>0, <1>2, <3>1, PastFrame DEF CountInv
    <3>3. Balance(d)'
      <4>1. OwnPending(d)' = OwnPending(d)
        BY <1>2, <3>1 DEF OwnPending, IsSelf
      <4>2. OwnUnread(d)' = OwnUnread(d)
        BY <1>2 DEF OwnUnread, IsSelf
      <4>3. Balance(d)
        BY <1>0 DEF CountInv
      <4>4. Cardinality(OwnPending(d)) \in Nat /\ Cardinality(OwnUnread(d)) \in Nat
        BY OwnFinite DEF CountInv
      <4>5. BRCounter'[d] = BRCounter[d] + 1 /\ failed'[d] = failed[d] + 1
        BY <1>0, <2>1, <3>1
      <4>6. failed[d] \in Nat
        BY <1>0
      <4> QED BY <4>1, <4>2, <4>3, <4>4, <4>5, <4>6 DEF Balance
    <3>4. ASSUME NEW c \in Clients, c # d, phase'[c] = "editing" PROVE Balance(c)'
      <4>1. /\ BRCounter'[c] = BRCounter[c] /\ failed'[c] = failed[c]
            /\ phase[c] = "editing" /\ executed'[c] = executed[c]
        BY <1>0, <1>2, <2>1, <3>1, <3>4
      <4> QED BY <1>2, <3>1, <4>1, BalanceFrame DEF CountInv
    <3>5. \A c \in Clients : phase'[c] = "entering" => failed'[c] = 0
      BY <1>0, <1>2, <3>1 DEF CountInv
    <3> QED BY <3>1, <3>2, <3>3, <3>4, <3>5 DEF CountInv
  <2> QED BY <1>4, <2>2, <2>3 DEF Changed, msg
<1>5. CASE ChangeRaises(d, text, at)
  <2>1. /\ UNCHANGED <<pending, failed, BRCounter>> /\ phase'[d] = "stopped"
    BY <1>0, <1>5 DEF ChangeRaises, service, editor
  <2>2. MessagesPast'
    BY <1>2, <2>1, PastFrame DEF CountInv
  <2>3. ASSUME NEW c \in Clients, phase'[c] = "editing" PROVE Balance(c)'
    <3>1. phase[c] = "editing"
      BY <1>2, <2>1, <2>3
    <3> QED BY <1>2, <2>1, <3>1, BalanceFrame DEF CountInv
  <2> QED BY <1>2, <2>1, <2>2, <2>3 DEF CountInv
<1> QED BY <1>1, <1>4, <1>5 DEF text, at

\* Ordering moves a submission from the pending ones to the unread events.
LEMMA OrderCount ==
    ASSUME TypeInv, CountInv, Order PROVE CountInv'
<1>1. UNCHANGED <<phase, life, failed, BRCounter, executed>>
  BY DEF Order, process, editor, queue
<1>2. PICK m \in pending : pending' = pending \ {m} /\ log' = Append(log, m)
  BY DEF Order
<1>3. /\ log \in Seq(Message) /\ m \in Message /\ Len(log) \in Nat
      /\ IsFiniteSet(pending) /\ MessagesPast
  BY LenProperties DEF TypeInv, TypeOK, CountInv
<1>4. /\ Len(log') = Len(log) + 1 /\ log'[Len(log) + 1] = m
      /\ \A i \in 1..Len(log) : log'[i] = log[i]
  BY <1>2, <1>3, AppendProperties
<1>5. MessagesPast'
  <2>1. Past(m) /\ \A i \in 1..Len(log) : Past(log[i])
    BY <1>3 DEF MessagesPast
  <2>2. \A x \in pending' : Past(x)
    BY <1>2, <1>3 DEF MessagesPast
  <2>3. \A i \in 1..Len(log') : Past(log'[i])
    <3> TAKE i \in 1..Len(log')
    <3>1. i \in 1..Len(log) \/ i = Len(log) + 1
      BY <1>3, <1>4
    <3> QED BY <1>4, <2>1, <3>1
  <2> QED BY <1>1, <2>2, <2>3 DEF MessagesPast, Past
<1>6. ASSUME NEW c \in Clients, phase[c] = "editing" PROVE Balance(c)'
  <2>1. /\ Balance(c) /\ executed[c] \in Nat /\ executed[c] <= Len(log)
        /\ BRCounter[c] \in Int /\ failed[c] \in Nat
    <3>1. /\ executed[c] \in Nat /\ received[c] \in Nat
          /\ executed[c] <= received[c] /\ received[c] <= Len(log)
      BY DEF TypeInv, TypeOK, Cursors
    <3> QED BY <1>3, <1>6, <3>1 DEF CountInv, TypeInv, TypeOK
  <2> DEFINE n == Len(log) + 1
  <2>2. n \notin OwnUnread(c)
    BY <1>3 DEF OwnUnread
  <2>3. \A i \in executed[c] + 1 .. Len(log) : i \in 1..Len(log)
    BY <1>3, <2>1
  <2>4. OwnPending(c)' = OwnPending(c) \ {m}
    BY <1>1, <1>2 DEF OwnPending, IsSelf
  <2>5. OwnUnread(c)' = IF IsSelf(c, m) THEN OwnUnread(c) \union {n} ELSE OwnUnread(c)
    <3>1. executed[c] + 1 .. n = (executed[c] + 1 .. Len(log)) \union {n}
      BY <1>3, <2>1
    <3>2. OwnUnread(c)' = {i \in executed[c] + 1 .. n : IsSelf(c, log'[i])}
      BY <1>1, <1>4 DEF OwnUnread, IsSelf
    <3>3. \A i \in executed[c] + 1 .. Len(log) : log'[i] = log[i]
      BY <1>4, <2>3
    <3>4. log'[n] = m
      BY <1>4
    <3> HIDE DEF n
    <3> QED BY <3>1, <3>2, <3>3, <3>4 DEF OwnUnread
  <2>6. /\ IsFiniteSet(OwnPending(c)) /\ Cardinality(OwnPending(c)) \in Nat
        /\ IsFiniteSet(OwnUnread(c)) /\ Cardinality(OwnUnread(c)) \in Nat
    BY <1>3, OwnFinite
  <2> HIDE DEF n
  <2>7. CASE IsSelf(c, m)
    <3>1. m \in OwnPending(c)
      BY <2>7 DEF OwnPending
    <3>2. Cardinality(OwnPending(c)') = Cardinality(OwnPending(c)) - 1
      BY <2>4, <2>6, <3>1, FS_RemoveElement
    <3>3. Cardinality(OwnUnread(c)') = Cardinality(OwnUnread(c)) + 1
      BY <2>2, <2>5, <2>6, <2>7, FS_AddElement
    <3> QED BY <1>1, <2>1, <2>6, <3>2, <3>3 DEF Balance
  <2>8. CASE ~IsSelf(c, m)
    <3>1. OwnPending(c)' = OwnPending(c)
      BY <2>4, <2>8 DEF OwnPending
    <3>2. OwnUnread(c)' = OwnUnread(c)
      BY <2>5, <2>8
    <3> QED BY <1>1, <2>1, <3>1, <3>2 DEF Balance
  <2> QED BY <2>7, <2>8
<1>7. IsFiniteSet(pending')
  BY <1>2, <1>3, FS_RemoveElement
<1> QED BY <1>1, <1>5, <1>6, <1>7 DEF CountInv

\* A submission is lost with its run, so no open editor awaits it.
LEMMA LoseCount ==
    ASSUME TypeInv, CountInv, Lose PROVE CountInv'
<1>1. UNCHANGED <<log, phase, life, failed, BRCounter, executed>>
  BY DEF Lose, process, editor, queue
<1>2. PICK m \in pending : /\ m.life # life[m.client] \/ phase[m.client] \in {"crashed", "stopped"}
                           /\ pending' = pending \ {m}
  BY DEF Lose
<1>3. MessagesPast'
  BY <1>1, <1>2 DEF CountInv, MessagesPast, Past
<1>4. ASSUME NEW c \in Clients, phase[c] = "editing" PROVE Balance(c)'
  <2>1. ~IsSelf(c, m)
    BY <1>2, <1>4 DEF IsSelf
  <2>2. OwnPending(c)' = OwnPending(c)
    BY <1>1, <1>2, <2>1 DEF OwnPending, IsSelf
  <2>3. OwnUnread(c)' = OwnUnread(c)
    BY <1>1 DEF OwnUnread, IsSelf
  <2> QED BY <1>1, <1>4, <2>2, <2>3 DEF Balance, CountInv
<1>5. IsFiniteSet(pending')
  BY <1>2, FS_RemoveElement DEF CountInv
<1> QED BY <1>1, <1>3, <1>4, <1>5 DEF CountInv

\* Steps in which some device stops editing and no counter moves.
LEMMA StopCount ==
    ASSUME TypeInv, CountInv, NEW d \in Clients, NEW q \in {"stopped", "left", "crashed"},
           phase' = [phase EXCEPT ![d] = q],
           UNCHANGED <<pending, log, life, failed, BRCounter, executed>>
    PROVE  CountInv'
<1>1. phase \in [Clients -> Phase]
  BY DEF TypeInv, TypeOK
<1>2. MessagesPast'
  BY <1>1, PastFrame DEF CountInv
<1>3. ASSUME NEW c \in Clients, phase'[c] = "editing" PROVE Balance(c)'
  <2>1. phase[c] = "editing"
    BY <1>1, <1>3
  <2> QED BY <2>1, BalanceFrame DEF CountInv
<1> QED BY <1>1, <1>2, <1>3 DEF CountInv

\* What a counter awaits is counted from executed, so delivery changes nothing.
LEMMA DeliverCount ==
    ASSUME TypeInv, CountInv, NEW d \in Clients, Deliver(d) PROVE CountInv'
<1>1. UNCHANGED <<pending, log, life, failed, BRCounter, phase>>
  BY DEF Deliver, service, process, editor
<1>2. MessagesPast'
  BY <1>1, PastFrame DEF CountInv
<1>3. ASSUME NEW c \in Clients, phase[c] = "editing" PROVE Balance(c)'
  <2>1. executed'[c] = executed[c]
    BY <1>3 DEF Deliver, TypeInv, TypeOK
  <2> QED BY <1>1, <1>3, <2>1, BalanceFrame DEF CountInv
<1> QED BY <1>1, <1>2, <1>3 DEF CountInv

\* A block for an own event removes the event and its share of the counter; a
\* block for another device's event touches neither.
LEMMA RunBlockCount ==
    ASSUME TypeInv, CountInv, NEW d \in Clients, RunBlock(d) PROVE CountInv'
<1> DEFINE n == executed[d] + 1
           m == log[n]
<1>1. /\ phase[d] = "editing" /\ n \in 1..Len(log)
      /\ UNCHANGED <<pending, log, life, failed>>
  BY RunBlockCases DEF service
<1>2. CASE /\ OwnEvent(d, m) \/ OtherEvent(d, m)
           /\ executed' = [executed EXCEPT ![d] = @ + 1]
           /\ UNCHANGED phase
  <2>1. /\ executed \in [Clients -> Nat] /\ BRCounter \in [Clients -> Int]
        /\ failed[d] \in Nat /\ Len(log) \in Nat
    BY LenProperties DEF TypeInv, TypeOK
  <2>2. MessagesPast'
    BY <1>1, <1>2, PastFrame DEF CountInv
  <2>3. /\ IsFiniteSet(OwnUnread(d)) /\ Cardinality(OwnUnread(d)) \in Nat
        /\ Cardinality(OwnPending(d)) \in Nat
    BY OwnFinite DEF CountInv
  <2>4. OwnPending(d)' = OwnPending(d)
    BY <1>1 DEF OwnPending, IsSelf
  <2>5. OwnUnread(d)' = OwnUnread(d) \ {n}
    <3>1. executed'[d] + 1 .. Len(log) = (n .. Len(log)) \ {n}
      BY <1>1, <1>2, <2>1
    <3>2. OwnUnread(d)' = {i \in executed'[d] + 1 .. Len(log) : IsSelf(d, log[i])}
      BY <1>1 DEF OwnUnread, IsSelf
    <3> QED BY <3>1, <3>2 DEF OwnUnread
  <2>6. n \in OwnUnread(d) <=> IsSelf(d, m)
    BY <1>1, <2>1 DEF OwnUnread
  <2>7. Balance(d)
    BY <1>1 DEF CountInv
  <2> HIDE DEF n, m
  <2>8. Balance(d)'
    <3>1. CASE OwnEvent(d, m)
      <4>1. IsSelf(d, m) /\ BRCounter'[d] = BRCounter[d] - 1
        BY <2>1, <3>1 DEF OwnEvent
      <4>2. Cardinality(OwnUnread(d)') = Cardinality(OwnUnread(d)) - 1
        BY <2>3, <2>5, <2>6, <4>1, FS_RemoveElement
      <4> QED BY <1>1, <2>1, <2>3, <2>4, <2>7, <4>1, <4>2 DEF Balance
    <3>2. CASE OtherEvent(d, m)
      <4>1. ~IsSelf(d, m) /\ BRCounter' = BRCounter
        BY <3>2 DEF OtherEvent
      <4>2. OwnUnread(d)' = OwnUnread(d)
        BY <2>5, <2>6, <4>1
      <4> QED BY <1>1, <2>4, <2>7, <4>1, <4>2 DEF Balance
    <3> QED BY <1>2, <3>1, <3>2
  <2>9. ASSUME NEW c \in Clients, c # d, phase[c] = "editing" PROVE Balance(c)'
    <3>1. executed'[c] = executed[c] /\ BRCounter'[c] = BRCounter[c]
      BY <1>2, <2>1, <2>9 DEF OwnEvent, OtherEvent
    <3> QED BY <1>1, <2>9, <3>1, BalanceFrame DEF CountInv
  <2> QED BY <1>1, <1>2, <2>2, <2>8, <2>9 DEF CountInv
<1>3. CASE /\ phase' = [phase EXCEPT ![d] = "crashed"]
           /\ UNCHANGED <<editor, executed>>
  BY <1>1, <1>3, StopCount DEF editor
<1> QED BY <1>2, <1>3, RunBlockCases

\* A new run answers for none of its former runs' messages.
LEMMA RelaunchCount ==
    ASSUME TypeInv, CountInv, NEW d \in Clients, Relaunch(d) PROVE CountInv'
<1>1. /\ phase' = [phase EXCEPT ![d] = "entering"]
      /\ life' = [life EXCEPT ![d] = @ + 1]
      /\ BRCounter' = [BRCounter EXCEPT ![d] = 0]
      /\ executed' = [executed EXCEPT ![d] = 0]
      /\ failed' = [failed EXCEPT ![d] = 0]
      /\ UNCHANGED <<pending, log>>
  BY DEF Relaunch, service
<1>2. /\ phase \in [Clients -> Phase] /\ life \in [Clients -> Nat]
      /\ BRCounter \in [Clients -> Int] /\ executed \in [Clients -> Nat]
      /\ failed \in [Clients -> Nat]
  BY DEF TypeInv, TypeOK
<1>3. MessagesPast'
  <2>1. ASSUME NEW m \in Message, Past(m) PROVE Past(m)'
    <3>1. m.client \in Clients /\ m.life \in Nat
      BY MessageFields
    <3>2. CASE m.client = d
      <4>1. life'[d] = life[d] + 1 /\ life[d] \in Nat /\ m.life <= life[d]
        BY <1>1, <1>2, <2>1, <3>2 DEF Past
      <4> QED BY <3>1, <3>2, <4>1 DEF Past
    <3>3. CASE m.client # d
      BY <1>1, <1>2, <2>1, <3>1, <3>3 DEF Past
    <3> QED BY <3>2, <3>3
  <2>2. \A m \in pending : m \in Message
    BY DEF TypeInv, TypeOK
  <2>3. \A i \in 1..Len(log) : log[i] \in Message
    BY ElementOfSeq DEF TypeInv, TypeOK
  <2> QED BY <1>1, <2>1, <2>2, <2>3 DEF CountInv, MessagesPast
<1>4. ASSUME NEW c \in Clients, phase'[c] = "editing" PROVE Balance(c)'
  <2>1. c # d /\ phase[c] = "editing"
    BY <1>1, <1>2, <1>4
  <2>2. /\ life'[c] = life[c] /\ executed'[c] = executed[c]
        /\ BRCounter'[c] = BRCounter[c] /\ failed'[c] = failed[c]
    BY <1>1, <1>2, <2>1
  <2>3. OwnPending(c)' = OwnPending(c)
    BY <1>1, <2>2 DEF OwnPending, IsSelf
  <2>4. OwnUnread(c)' = OwnUnread(c)
    BY <1>1, <2>2 DEF OwnUnread, IsSelf
  <2> QED BY <2>1, <2>2, <2>3, <2>4 DEF Balance, CountInv
<1>5. \A c \in Clients : phase'[c] = "entering" => failed'[c] = 0
  BY <1>1, <1>2 DEF CountInv
<1> QED BY <1>1, <1>3, <1>4, <1>5 DEF CountInv

\* Every step keeps the balance of every device.
LEMMA CountStep == TypeInv /\ CountInv /\ [Next]_vars => CountInv'
<1> SUFFICES ASSUME TypeInv, CountInv, [Next]_vars PROVE CountInv'
  OBVIOUS
<1>1. CASE Order
  BY <1>1, OrderCount
<1>2. CASE Lose
  BY <1>2, LoseCount
<1>3. CASE EndSession
  <2>1. /\ phase' = [phase EXCEPT ![Creator] = "left"]
        /\ UNCHANGED <<pending, log, life, failed, BRCounter, executed>>
    BY <1>3 DEF EndSession, editor, queue
  <2> QED BY <2>1, CreatorAssumption, StopCount
<1>4. ASSUME NEW c \in Clients, OpenEditor(c) PROVE CountInv'
  BY <1>4, OpenEditorCount
<1>5. ASSUME NEW c \in Clients, UserEdit(c) PROVE CountInv'
  BY <1>5, UserEditCount
<1>6. ASSUME NEW c \in Clients, Deliver(c) PROVE CountInv'
  BY <1>6, DeliverCount
<1>7. ASSUME NEW c \in Clients, RunBlock(c) PROVE CountInv'
  BY <1>7, RunBlockCount
<1>8. ASSUME NEW c \in Clients, Kill(c) PROVE CountInv'
  <2>1. /\ phase' = [phase EXCEPT ![c] = "stopped"]
        /\ UNCHANGED <<pending, log, life, failed, BRCounter, executed>>
    BY <1>8 DEF Kill, service, editor, queue
  <2> QED BY <2>1, StopCount
<1>9. ASSUME NEW c \in Clients, Relaunch(c) PROVE CountInv'
  BY <1>9, RelaunchCount
<1>10. CASE UNCHANGED vars
  <2>1. UNCHANGED <<pending, log, life, failed, BRCounter, executed, phase>>
    BY <1>10 DEF vars, service, process, editor, queue
  <2>2. MessagesPast'
    BY <2>1, PastFrame DEF CountInv
  <2>3. ASSUME NEW c \in Clients, phase[c] = "editing" PROVE Balance(c)'
    BY <2>1, <2>3, BalanceFrame DEF CountInv
  <2> QED BY <2>1, <2>2, <2>3 DEF CountInv
<1> QED BY <1>1, <1>2, <1>3, <1>4, <1>5, <1>6, <1>7, <1>8, <1>9, <1>10 DEF Next

\* The balance holds in every reachable state.
LEMMA CountInvAlways == Spec => []CountInv
BY CountInit, CountStep, TypeInvAlways, PTL DEF Spec

\* EVO rules 2 and 3: whatever the interleaving of edits, blocks, restarts and
\* lost submissions, BRCounter is the broadcasts to come back plus those that
\* failed.
THEOREM CounterAccountingHolds == Spec => []CounterAccounting
<1>1. CountInv => CounterAccounting
  BY DEF CountInv, CounterAccounting, Balance
<1> QED BY <1>1, CountInvAlways, PTL

-----------------------------------------------------------------------------
(***************************************************************************)
(* Layer 3: the text view and sideString.                                  *)
(***************************************************************************)
ViewInv == QuiescentAgreement /\ TextSizeWhileCounting

\* While a device edits, its counter is not negative.
LEMMA CounterNatural ==
    ASSUME TypeInv, CountInv, NEW c \in Clients, phase[c] = "editing"
    PROVE  BRCounter[c] \in Nat
<1>1. Balance(c) /\ failed[c] \in Nat
  BY DEF CountInv, TypeInv, TypeOK
<1>2. Cardinality(OwnPending(c)) \in Nat /\ Cardinality(OwnUnread(c)) \in Nat
  BY OwnFinite DEF CountInv
<1> QED BY <1>1, <1>2 DEF Balance

\* No editor is open at first.
LEMMA ViewInit == Init => ViewInv
BY DEF Init, ViewInv, QuiescentAgreement, TextSizeWhileCounting

\* Steps that leave the editors alone and open none.
LEMMA ViewFrame ==
    ASSUME ViewInv, UNCHANGED editor,
           \A c \in Clients : phase'[c] = "editing" => phase[c] = "editing"
    PROVE  ViewInv'
BY DEF ViewInv, QuiescentAgreement, TextSizeWhileCounting, editor

\* showViewController makes the two copies equal.
LEMMA OpenEditorView ==
    ASSUME TypeInv, ViewInv, NEW d \in Clients, OpenEditor(d) PROVE ViewInv'
<1>1. /\ phase' = [phase EXCEPT ![d] = "editing"]
      /\ textSize' = [textSize EXCEPT ![d] = 0]
      /\ sideString' = [sideString EXCEPT ![d] = myText[d]]
      /\ BRCounter' = [BRCounter EXCEPT ![d] = 0]
      /\ UNCHANGED myText
  BY DEF OpenEditor
<1>2. TypeOK
  BY DEF TypeInv
<1>3. ASSUME NEW c \in Clients, phase'[c] = "editing"
      PROVE  /\ BRCounter'[c] = 0 => myText'[c] = sideString'[c]
             /\ BRCounter'[c] > 0 => textSize'[c] = Len(myText'[c])
  <2>1. CASE c = d
    <3>1. BRCounter'[c] = 0 /\ sideString'[c] = myText[c]
      BY <1>1, <1>2, <2>1 DEF TypeOK
    <3> QED BY <1>1, <3>1
  <2>2. CASE c # d
    <3>1. /\ phase[c] = "editing" /\ BRCounter'[c] = BRCounter[c]
          /\ sideString'[c] = sideString[c] /\ textSize'[c] = textSize[c]
      BY <1>1, <1>2, <1>3, <2>2 DEF TypeOK
    <3> QED BY <1>1, <3>1 DEF ViewInv, QuiescentAgreement, TextSizeWhileCounting
  <2> QED BY <2>1, <2>2
<1> QED BY <1>3 DEF ViewInv, QuiescentAgreement, TextSizeWhileCounting

\* An edit that makes the copies differ raises BRCounter.
LEMMA UserEditView ==
    ASSUME TypeInv, CountInv, ViewInv, NEW d \in Clients, UserEdit(d) PROVE ViewInv'
<1>1. TypeOK /\ phase[d] = "editing"
  BY DEF TypeInv, UserEdit
<1>2. PICK p \in 0..Len(myText[d]), k \in 0..MaxSelect, w \in Inputs :
          \/ Changed(d, Splice(myText[d], p, k, w), p + Len(w))
          \/ ChangeRaises(d, Splice(myText[d], p, k, w), p + Len(w))
  BY DEF UserEdit
<1> DEFINE text == Splice(myText[d], p, k, w)
           at == p + Len(w)
<1> HIDE DEF text, at
<1>3. CASE Changed(d, text, at)
  <2>1. /\ phase' = [phase EXCEPT ![d] = IF ended THEN "left" ELSE @]
        /\ myText' = [myText EXCEPT ![d] = text]
        /\ BRCounter' = [BRCounter EXCEPT ![d] = @ + 1]
        /\ textSize' = [textSize EXCEPT ![d] = Len(text)]
        /\ UNCHANGED sideString
    BY <1>3 DEF Changed
  <2>2. BRCounter[d] \in Nat
    BY <1>1, CounterNatural
  <2>3. ASSUME NEW c \in Clients, phase'[c] = "editing"
        PROVE  /\ BRCounter'[c] = 0 => myText'[c] = sideString'[c]
               /\ BRCounter'[c] > 0 => textSize'[c] = Len(myText'[c])
    <3>1. CASE c = d
      <4>1. /\ BRCounter'[c] = BRCounter[d] + 1
            /\ myText'[c] = text /\ textSize'[c] = Len(text)
        BY <1>1, <2>1, <3>1 DEF TypeOK
      <4> QED BY <2>2, <4>1
    <3>2. CASE c # d
      <4>1. /\ phase[c] = "editing" /\ BRCounter'[c] = BRCounter[c]
            /\ myText'[c] = myText[c] /\ textSize'[c] = textSize[c]
        BY <1>1, <2>1, <2>3, <3>2 DEF TypeOK
      <4> QED BY <2>1, <4>1 DEF ViewInv, QuiescentAgreement, TextSizeWhileCounting
    <3> QED BY <3>1, <3>2
  <2> QED BY <2>3 DEF ViewInv, QuiescentAgreement, TextSizeWhileCounting
<1>4. CASE ChangeRaises(d, text, at)
  <2>1. UNCHANGED editor /\ phase' = [phase EXCEPT ![d] = "stopped"]
    BY <1>4 DEF ChangeRaises
  <2>2. \A c \in Clients : phase'[c] = "editing" => phase[c] = "editing"
    BY <1>1, <2>1 DEF TypeOK
  <2> QED BY <2>1, <2>2, ViewFrame
<1> QED BY <1>2, <1>3, <1>4 DEF text, at

\* A block that leaves BRCounter at 0 has copied the ordered text to the view.
LEMMA RunBlockView ==
    ASSUME TypeInv, ViewInv, NEW d \in Clients, RunBlock(d) PROVE ViewInv'
<1> DEFINE m == log[executed[d] + 1]
<1>1. TypeOK /\ phase[d] = "editing"
  BY RunBlockCases DEF TypeInv
<1>2. CASE (OwnEvent(d, m) \/ OtherEvent(d, m)) /\ UNCHANGED phase
  <2> HIDE DEF m
  <2>1. /\ BRCounter[d] = 0 => myText[d] = sideString[d]
        /\ BRCounter[d] > 0 => textSize[d] = Len(myText[d])
        /\ BRCounter[d] \in Int
    BY <1>1 DEF ViewInv, QuiescentAgreement, TextSizeWhileCounting, TypeOK
  <2> DEFINE side == Apply(sideString[d], m)
             main == Apply(myText[d], m)
  <2>2. sideString'[d] = side
    BY <1>1, <1>2 DEF OwnEvent, OtherEvent, TypeOK
  <2>3. \/ /\ BRCounter'[d] = BRCounter[d] - 1 /\ textSize'[d] = textSize[d]
           /\ IF BRCounter[d] - 1 = 0 THEN myText'[d] = side ELSE myText'[d] = myText[d]
        \/ /\ BRCounter'[d] = BRCounter[d]
           /\ IF BRCounter[d] = 0 THEN myText'[d] = main
              ELSE myText'[d] = myText[d] /\ textSize'[d] = textSize[d]
    BY <1>1, <1>2 DEF OwnEvent, OtherEvent, TypeOK
  <2>4. myText[d] = sideString[d] => main = side
    OBVIOUS
  <2> HIDE DEF side, main
  <2>5. /\ BRCounter'[d] = 0 => myText'[d] = sideString'[d]
        /\ BRCounter'[d] > 0 => textSize'[d] = Len(myText'[d])
    BY <2>1, <2>2, <2>3, <2>4
  <2>6. ASSUME NEW c \in Clients, c # d
        PROVE  /\ BRCounter'[c] = BRCounter[c] /\ myText'[c] = myText[c]
               /\ sideString'[c] = sideString[c] /\ textSize'[c] = textSize[c]
    <3>1. /\ BRCounter \in [Clients -> Int] /\ myText \in [Clients -> Seq(Char)]
          /\ sideString \in [Clients -> Seq(Char)] /\ textSize \in [Clients -> Nat]
      BY <1>1 DEF TypeOK
    <3>2. CASE OwnEvent(d, m)
      BY <2>6, <3>1, <3>2 DEF OwnEvent
    <3>3. CASE OtherEvent(d, m)
      BY <2>6, <3>1, <3>3 DEF OtherEvent
    <3> QED BY <1>2, <3>2, <3>3
  <2> QED BY <1>2, <2>5, <2>6 DEF ViewInv, QuiescentAgreement, TextSizeWhileCounting
<1>3. CASE phase' = [phase EXCEPT ![d] = "crashed"] /\ UNCHANGED <<editor, executed>>
  <2>1. \A c \in Clients : phase'[c] = "editing" => phase[c] = "editing"
    BY <1>1, <1>3 DEF TypeOK
  <2> QED BY <1>3, <2>1, ViewFrame
<1> QED BY <1>2, <1>3, RunBlockCases

\* Joining again opens no editor yet.
LEMMA RelaunchView ==
    ASSUME TypeInv, ViewInv, NEW d \in Clients, Relaunch(d) PROVE ViewInv'
<1>1. /\ phase' = [phase EXCEPT ![d] = "entering"]
      /\ BRCounter' = [BRCounter EXCEPT ![d] = 0]
      /\ myText' = [myText EXCEPT ![d] = <<>>]
      /\ sideString' = [sideString EXCEPT ![d] = <<>>]
      /\ textSize' = [textSize EXCEPT ![d] = 0]
  BY DEF Relaunch
<1>2. ASSUME NEW c \in Clients, phase'[c] = "editing"
      PROVE  /\ c # d /\ phase[c] = "editing" /\ BRCounter'[c] = BRCounter[c]
             /\ myText'[c] = myText[c] /\ sideString'[c] = sideString[c]
             /\ textSize'[c] = textSize[c]
  BY <1>1, <1>2 DEF TypeInv, TypeOK
<1> QED BY <1>2 DEF ViewInv, QuiescentAgreement, TextSizeWhileCounting

\* Every step keeps the agreement of the copies on quiet devices.
LEMMA ViewStep == TypeInv /\ CountInv /\ ViewInv /\ [Next]_vars => ViewInv'
<1> SUFFICES ASSUME TypeInv, CountInv, ViewInv, [Next]_vars PROVE ViewInv'
  OBVIOUS
<1>0. phase \in [Clients -> Phase]
  BY DEF TypeInv, TypeOK
<1>1. CASE Order
  BY <1>1, ViewFrame DEF Order, process
<1>2. CASE Lose
  BY <1>2, ViewFrame DEF Lose, process
<1>3. CASE EndSession
  <2>1. UNCHANGED editor /\ phase' = [phase EXCEPT ![Creator] = "left"]
    BY <1>3 DEF EndSession
  <2>2. \A c \in Clients : phase'[c] = "editing" => phase[c] = "editing"
    BY <1>0, <2>1
  <2> QED BY <2>1, <2>2, ViewFrame
<1>4. ASSUME NEW c \in Clients, OpenEditor(c) PROVE ViewInv'
  BY <1>4, OpenEditorView
<1>5. ASSUME NEW c \in Clients, UserEdit(c) PROVE ViewInv'
  BY <1>5, UserEditView
<1>6. ASSUME NEW c \in Clients, Deliver(c) PROVE ViewInv'
  BY <1>6, ViewFrame DEF Deliver, process
<1>7. ASSUME NEW c \in Clients, RunBlock(c) PROVE ViewInv'
  BY <1>7, RunBlockView
<1>8. ASSUME NEW c \in Clients, Kill(c) PROVE ViewInv'
  <2>1. UNCHANGED editor /\ phase' = [phase EXCEPT ![c] = "stopped"]
    BY <1>8 DEF Kill
  <2>2. \A d \in Clients : phase'[d] = "editing" => phase[d] = "editing"
    BY <1>0, <2>1
  <2> QED BY <2>1, <2>2, ViewFrame
<1>9. ASSUME NEW c \in Clients, Relaunch(c) PROVE ViewInv'
  BY <1>9, RelaunchView
<1>10. CASE UNCHANGED vars
  BY <1>10, ViewFrame DEF vars, process
<1> QED BY <1>1, <1>2, <1>3, <1>4, <1>5, <1>6, <1>7, <1>8, <1>9, <1>10 DEF Next

\* The agreement on quiet devices holds in every reachable state.
LEMMA ViewInvAlways == Spec => []ViewInv
BY ViewInit, ViewStep, TypeInvAlways, CountInvAlways, PTL DEF Spec

\* EVO rules 5 and 6: when no own broadcast is outstanding, what the user sees
\* is the ordered copy, on every device and after any history.
THEOREM QuiescentAgreementHolds == Spec => []QuiescentAgreement
<1>1. ViewInv => QuiescentAgreement
  BY DEF ViewInv
<1> QED BY <1>1, ViewInvAlways, PTL

\* textSize can only lag behind the view when BRCounter is 0.
THEOREM TextSizeWhileCountingHolds == Spec => []TextSizeWhileCounting
<1>1. ViewInv => TextSizeWhileCounting
  BY DEF ViewInv
<1> QED BY <1>1, ViewInvAlways, PTL

-----------------------------------------------------------------------------
(***************************************************************************)
(* Layer 4: sideString and the texts the order of the session makes.       *)
(***************************************************************************)
Merge(s, m) == IF Fits(s, m) THEN Apply(s, m) ELSE s

Chain ==
    /\ versions[1] = <<>>
    /\ \A i \in 1..Len(log) : versions[i + 1] = Merge(versions[i], log[i])

\* the event with which the device's next block deals does not fit
Blocked(c) ==
    /\ executed[c] < Len(log)
    /\ ~Fits(versions[executed[c] + 1], log[executed[c] + 1])

InPlace(c) ==
    /\ missed[c] = 0 =>
          /\ sideString[c] = versions[executed[c] + 1]
          /\ \A i \in 1..executed[c] : Fits(versions[i], log[i])
          /\ phase[c] = "crashed" => Blocked(c)
    /\ phase[c] = "entering" => /\ myText[c] = <<>> /\ sideString[c] = <<>>
                                /\ executed[c] = missed[c]

SideInv == Chain /\ \A c \in Clients : InPlace(c)

\* The order of the session is only ever extended.
HistoryGrows ==
    /\ Len(log) <= Len(log')
    /\ \A i \in 1..Len(log) : log'[i] = log[i]
    /\ \A i \in 1..Len(log) + 1 : versions'[i] = versions[i]

\* At first the history is one empty text, on which every device stands.
LEMMA SideInit == Init => SideInv
<1> SUFFICES ASSUME Init PROVE SideInv
  OBVIOUS
<1>1. /\ log = <<>> /\ versions = << <<>> >>
      /\ \A c \in Clients : /\ phase[c] = "entering" /\ missed[c] = 0 /\ executed[c] = 0
                            /\ myText[c] = <<>> /\ sideString[c] = <<>>
  BY DEF Init
<1>2. versions[1] = <<>> /\ Len(log) = 0
  BY <1>1
<1>3. Chain
  BY <1>2 DEF Chain
<1>4. ASSUME NEW c \in Clients PROVE InPlace(c)
  <2>1. versions[executed[c] + 1] = <<>>
    BY <1>1, <1>2
  <2> QED BY <1>1, <2>1 DEF InPlace
<1> QED BY <1>3, <1>4 DEF SideInv

\* Only Order touches the history, and it appends.
LEMMA HistoryStep ==
    ASSUME TypeInv, [Next]_vars PROVE HistoryGrows /\ (Chain => Chain')
<1>1. /\ log \in Seq(Message) /\ versions \in Seq(Seq(Char))
      /\ Len(log) \in Nat /\ Len(versions) = Len(log) + 1
  BY LenProperties DEF TypeInv, TypeOK, Cursors
<1>2. CASE UNCHANGED <<log, versions>>
  BY <1>1, <1>2 DEF HistoryGrows, Chain
<1>3. CASE Order
  <2> DEFINE s == versions[Len(versions)]
  <2>1. PICK m \in pending : /\ log' = Append(log, m)
                             /\ versions' = Append(versions, Merge(s, m))
    BY <1>3 DEF Order, Merge
  <2>2. m \in Message
    BY DEF TypeInv, TypeOK
  <2>3. s \in Seq(Char)
    <3>1. Len(versions) \in 1..Len(versions)
      BY <1>1
    <3> QED BY <1>1, <3>1, ElementOfSeq
  <2>4. Merge(s, m) \in Seq(Char)
    <3>1. WellFormed(m)
      BY DEF TypeInv, MessagesWellFormed
    <3> QED BY <2>2, <2>3, <3>1, ApplyType DEF Merge
  <2>5. s = versions[Len(log) + 1]
    BY <1>1
  <2> HIDE DEF s
  <2>6. /\ Len(log') = Len(log) + 1 /\ log'[Len(log) + 1] = m
        /\ \A i \in 1..Len(log) : log'[i] = log[i]
    BY <1>1, <2>1, <2>2, AppendProperties
  <2>7. /\ versions'[Len(log) + 2] = Merge(s, m)
        /\ \A i \in 1..Len(log) + 1 : versions'[i] = versions[i]
    <3>1. /\ versions'[Len(versions) + 1] = Merge(s, m)
          /\ \A i \in 1..Len(versions) : versions'[i] = versions[i]
      BY <1>1, <2>1, <2>4, AppendProperties
    <3>2. Len(versions) + 1 = Len(log) + 2
      BY <1>1
    <3> QED BY <1>1, <3>1, <3>2
  <2>8. HistoryGrows
    BY <1>1, <2>6, <2>7 DEF HistoryGrows
  <2>9. ASSUME Chain, NEW i \in 1..Len(log')
        PROVE  versions'[i + 1] = Merge(versions'[i], log'[i])
    <3>1. CASE i \in 1..Len(log)
      <4>1. i \in 1..Len(log) + 1 /\ i + 1 \in 1..Len(log) + 1
        BY <1>1, <3>1
      <4>2. /\ versions'[i + 1] = versions[i + 1] /\ versions'[i] = versions[i]
            /\ log'[i] = log[i]
        BY <2>6, <2>7, <3>1, <4>1
      <4> QED BY <2>9, <3>1, <4>2 DEF Chain
    <3>2. CASE i = Len(log) + 1
      <4>1. i + 1 = Len(log) + 2 /\ i \in 1..Len(log) + 1
        BY <1>1, <3>2
      <4> QED BY <2>5, <2>6, <2>7, <3>2, <4>1
    <3>3. i \in 1..Len(log) \/ i = Len(log) + 1
      BY <1>1, <2>6
    <3> QED BY <3>1, <3>2, <3>3
  <2>10. Chain => versions'[1] = <<>>
    BY <1>1, <2>7 DEF Chain
  <2> QED BY <2>8, <2>9, <2>10 DEF Chain, Merge, Fits, Apply, TextOf
<1>4. \/ Order
      \/ UNCHANGED <<log, versions>>
  BY DEF Next, vars, service, Lose, EndSession, OpenEditor, UserEdit, Changed,
         ChangeRaises, Deliver, RunBlock, Kill, Relaunch
<1> QED BY <1>2, <1>3, <1>4

\* What a device has processed stays where it was in the order.
LEMMA InPlaceFrame ==
    ASSUME TypeInv, HistoryGrows, NEW c \in Clients, InPlace(c),
           sideString'[c] = sideString[c], executed'[c] = executed[c],
           missed'[c] = missed[c],
           phase'[c] \in {phase[c], "editing", "left", "stopped"},
           phase'[c] = "entering" => myText'[c] = myText[c]
    PROVE  InPlace(c)'
<1>1. /\ executed[c] \in Nat /\ Len(log) \in Nat /\ executed[c] <= Len(log)
  BY LenProperties DEF TypeInv, TypeOK, Cursors
<1>2. Len(log) <= Len(log')
  BY <1>1 DEF HistoryGrows
<1>3. ASSUME missed[c] = 0
      PROVE  /\ sideString'[c] = versions'[executed[c] + 1]
             /\ \A i \in 1..executed[c] : Fits(versions'[i], log'[i])
  <2>1. executed[c] + 1 \in 1..Len(log) + 1
    BY <1>1
  <2>2. ASSUME NEW i \in 1..executed[c]
        PROVE  versions'[i] = versions[i] /\ log'[i] = log[i]
    <3>1. i \in 1..Len(log) /\ i \in 1..Len(log) + 1
      BY <1>1
    <3> QED BY <3>1 DEF HistoryGrows
  <2> QED BY <1>3, <2>1, <2>2 DEF InPlace, HistoryGrows
<1>4. ASSUME missed[c] = 0, phase'[c] = "crashed"
      PROVE  /\ executed[c] < Len(log')
             /\ ~Fits(versions'[executed[c] + 1], log'[executed[c] + 1])
  <2>1. /\ executed[c] < Len(log)
        /\ ~Fits(versions[executed[c] + 1], log[executed[c] + 1])
    BY <1>4 DEF InPlace, Blocked
  <2>2. executed[c] + 1 \in 1..Len(log) /\ executed[c] + 1 \in 1..Len(log) + 1
    BY <1>1, <2>1
  <2>3. /\ versions'[executed[c] + 1] = versions[executed[c] + 1]
        /\ log'[executed[c] + 1] = log[executed[c] + 1]
    BY <2>2 DEF HistoryGrows
  <2> QED BY <1>1, <1>2, <2>1, <2>3 DEF HistoryGrows
<1>5. phase'[c] = "entering" => /\ myText'[c] = <<>> /\ sideString'[c] = <<>>
                                /\ executed'[c] = missed'[c]
  BY DEF InPlace
<1> QED BY <1>3, <1>4, <1>5 DEF InPlace, Blocked, Fits

\* Opening the editor copies the place the device joined at.
LEMMA OpenEditorPlace ==
    ASSUME TypeInv, HistoryGrows, NEW d \in Clients, OpenEditor(d),
           NEW c \in Clients, InPlace(c)
    PROVE  InPlace(c)'
<1>1. /\ phase[d] = "entering"
      /\ phase' = [phase EXCEPT ![d] = "editing"]
      /\ sideString' = [sideString EXCEPT ![d] = myText[d]]
      /\ UNCHANGED <<myText, executed, missed>>
  BY DEF OpenEditor, queue
<1>2. phase \in [Clients -> Phase] /\ sideString \in [Clients -> Seq(Char)]
  BY DEF TypeInv, TypeOK
<1>3. sideString'[c] = sideString[c]
  BY <1>1, <1>2 DEF InPlace
<1>4. phase'[c] \in {phase[c], "editing"}
  BY <1>1, <1>2
<1> QED BY <1>1, <1>3, <1>4, InPlaceFrame

\* An edit changes the view and not the ordered copy.
LEMMA UserEditPlace ==
    ASSUME TypeInv, HistoryGrows, NEW d \in Clients, UserEdit(d),
           NEW c \in Clients, InPlace(c)
    PROVE  InPlace(c)'
<1>1. phase \in [Clients -> Phase] /\ phase[d] = "editing"
  BY DEF TypeInv, TypeOK, UserEdit
<1>2. UNCHANGED <<sideString, executed, missed>>
  BY DEF UserEdit, Changed, ChangeRaises, editor, queue
<1>3. \/ phase' = [phase EXCEPT ![d] = IF ended THEN "left" ELSE @]
      \/ phase' = [phase EXCEPT ![d] = "stopped"]
  BY DEF UserEdit, Changed, ChangeRaises
<1>4. phase'[c] \in {phase[c], "left", "stopped"}
  BY <1>1, <1>3
<1>5. phase'[c] = "entering" => myText'[c] = myText[c]
  <2>1. c # d => myText'[c] = myText[c]
    <3>1. myText' = myText \/ \E text : myText' = [myText EXCEPT ![d] = text]
      BY DEF UserEdit, Changed, ChangeRaises, editor
    <3>2. myText \in [Clients -> Seq(Char)]
      BY DEF TypeInv, TypeOK
    <3> QED BY <3>1, <3>2
  <2> QED BY <1>1, <1>4, <2>1
<1> QED BY <1>2, <1>4, <1>5, InPlaceFrame

\* Queueing a block leaves its effect to RunBlock; an event the lobby drops is
\* missed.
LEMMA DeliverPlace ==
    ASSUME TypeInv, HistoryGrows, NEW d \in Clients, Deliver(d),
           NEW c \in Clients, InPlace(c)
    PROVE  InPlace(c)'
<1>1. UNCHANGED <<log, versions, phase, myText, sideString>>
  BY DEF Deliver, service, process, editor
<1>2. CASE UNCHANGED <<executed, missed>>
  BY <1>1, <1>2, InPlaceFrame
<1>3. CASE /\ phase[d] = "entering"
           /\ executed' = [executed EXCEPT ![d] = @ + 1]
           /\ missed' = [missed EXCEPT ![d] = @ + 1]
  <2>1. executed \in [Clients -> Nat] /\ missed \in [Clients -> Nat]
    BY DEF TypeInv, TypeOK
  <2>2. CASE c # d
    BY <1>1, <1>3, <2>1, <2>2, InPlaceFrame
  <2>3. CASE c = d
    <3>1. missed'[c] # 0 /\ (executed[c] = missed[c] => executed'[c] = missed'[c])
      BY <1>3, <2>1, <2>3
    <3> QED BY <1>1, <1>3, <2>3, <3>1 DEF InPlace
  <2> QED BY <2>2, <2>3
<1> QED BY <1>2, <1>3 DEF Deliver

\* A block moves the ordered copy to the next text of the history, or stops
\* in front of an event that does not fit.
LEMMA RunBlockPlace ==
    ASSUME TypeInv, ViewInv, Chain, HistoryGrows, NEW d \in Clients, RunBlock(d),
           NEW c \in Clients, InPlace(c)
    PROVE  InPlace(c)'
<1> DEFINE n == executed[d] + 1
           m == log[n]
<1>1. /\ phase[d] = "editing" /\ n \in 1..Len(log)
      /\ UNCHANGED <<log, versions, missed>>
  BY RunBlockCases DEF service
<1>2. /\ executed \in [Clients -> Nat] /\ phase \in [Clients -> Phase]
      /\ sideString \in [Clients -> Seq(Char)] /\ Len(log) \in Nat
  BY LenProperties DEF TypeInv, TypeOK
<1>3. CASE /\ Fits(sideString[d], m)
           /\ OwnEvent(d, m) \/ OtherEvent(d, m)
           /\ executed' = [executed EXCEPT ![d] = @ + 1]
           /\ UNCHANGED phase
  <2>1. sideString' = [sideString EXCEPT ![d] = Apply(@, m)]
    BY <1>3 DEF OwnEvent, OtherEvent
  <2>2. CASE c # d
    <3>1. /\ sideString'[c] = sideString[c] /\ executed'[c] = executed[c]
      BY <1>2, <1>3, <2>1, <2>2
    <3>2. phase'[c] # "entering" \/ myText'[c] = myText[c]
      <4>1. myText \in [Clients -> Seq(Char)]
        BY DEF TypeInv, TypeOK
      <4>2. CASE OwnEvent(d, m)
        BY <2>2, <4>1, <4>2 DEF OwnEvent
      <4>3. CASE OtherEvent(d, m)
        BY <2>2, <4>1, <4>3 DEF OtherEvent
      <4> QED BY <1>3, <4>2, <4>3
    <3> QED BY <1>1, <1>3, <3>1, <3>2, InPlaceFrame
  <2>3. CASE c = d
    <3>1. executed'[c] = n /\ phase'[c] = "editing" /\ missed'[c] = missed[c]
      BY <1>1, <1>2, <1>3, <2>3
    <3>2. ASSUME missed[c] = 0
          PROVE  /\ sideString'[c] = versions[n + 1]
                 /\ \A i \in 1..n : Fits(versions[i], log[i])
      <4>1. sideString[d] = versions[n]
        BY <2>3, <3>2 DEF InPlace
      <4>2. versions[n + 1] = Merge(versions[n], m)
        BY <1>1 DEF Chain
      <4>3. sideString'[c] = Apply(sideString[d], m)
        BY <1>2, <2>1, <2>3
      <4>4. \A i \in 1..executed[d] : Fits(versions[i], log[i])
        BY <2>3, <3>2 DEF InPlace
      <4>5. \A i \in 1..n : i \in 1..executed[d] \/ i = n
        BY <1>2
      <4> HIDE DEF n
      <4> QED BY <1>3, <4>1, <4>2, <4>3, <4>4, <4>5 DEF Merge
    <3> HIDE DEF n, m
    <3> QED BY <1>1, <3>1, <3>2 DEF InPlace
  <2> QED BY <2>2, <2>3
<1>4. CASE /\ \/ ~Fits(sideString[d], m)
              \/ /\ ~IsSelf(d, m) /\ BRCounter[d] = 0
                 /\ ~Fits(myText[d], m)
           /\ phase' = [phase EXCEPT ![d] = "crashed"]
           /\ UNCHANGED <<editor, executed>>
  <2>1. UNCHANGED <<sideString, myText, executed>>
    BY <1>4 DEF editor
  <2>2. CASE c # d
    BY <1>1, <1>2, <1>4, <2>1, <2>2, InPlaceFrame
  <2>3. CASE c = d
    <3>1. ~Fits(sideString[d], m)
      BY <1>1, <1>4 DEF ViewInv, QuiescentAgreement
    <3>2. missed[c] = 0 => Blocked(c)
      BY <1>1, <1>2, <2>3, <3>1 DEF InPlace, Blocked
    <3>3. phase'[c] = "crashed"
      BY <1>2, <1>4, <2>3
    <3> QED BY <1>1, <2>1, <3>2, <3>3 DEF InPlace, Blocked
  <2> QED BY <2>2, <2>3
<1> QED BY <1>3, <1>4, RunBlockCases

\* A new run starts at the beginning of the history, with an empty text.
LEMMA RelaunchPlace ==
    ASSUME TypeInv, Chain, HistoryGrows, NEW d \in Clients, Relaunch(d),
           NEW c \in Clients, InPlace(c)
    PROVE  InPlace(c)'
<1>1. /\ phase' = [phase EXCEPT ![d] = "entering"]
      /\ myText' = [myText EXCEPT ![d] = <<>>]
      /\ sideString' = [sideString EXCEPT ![d] = <<>>]
      /\ executed' = [executed EXCEPT ![d] = 0]
      /\ missed' = [missed EXCEPT ![d] = 0]
      /\ UNCHANGED <<log, versions>>
  BY DEF Relaunch, service
<1>2. /\ phase \in [Clients -> Phase] /\ executed \in [Clients -> Nat]
      /\ missed \in [Clients -> Nat] /\ myText \in [Clients -> Seq(Char)]
      /\ sideString \in [Clients -> Seq(Char)]
  BY DEF TypeInv, TypeOK
<1>3. CASE c # d
  <2>1. /\ phase'[c] = phase[c] /\ myText'[c] = myText[c]
        /\ sideString'[c] = sideString[c] /\ executed'[c] = executed[c]
        /\ missed'[c] = missed[c]
    BY <1>1, <1>2, <1>3
  <2> QED BY <2>1, InPlaceFrame
<1>4. CASE c = d
  <2>1. /\ phase'[c] = "entering" /\ myText'[c] = <<>>
        /\ sideString'[c] = <<>> /\ executed'[c] = 0 /\ missed'[c] = 0
    BY <1>1, <1>2, <1>4
  <2>2. versions'[1] = <<>>
    BY <1>1 DEF Chain
  <2> QED BY <2>1, <2>2 DEF InPlace
<1> QED BY <1>3, <1>4

\* Every step keeps each device at its place in the history.
LEMMA SideStep == TypeInv /\ ViewInv /\ SideInv /\ [Next]_vars => SideInv'
<1> SUFFICES ASSUME TypeInv, ViewInv, SideInv, [Next]_vars PROVE SideInv'
  OBVIOUS
<1>0. HistoryGrows /\ Chain /\ Chain'
  BY HistoryStep DEF SideInv
<1> SUFFICES ASSUME NEW c \in Clients PROVE InPlace(c)'
  BY <1>0 DEF SideInv
<1>1. HistoryGrows /\ Chain /\ InPlace(c)
  BY <1>0 DEF SideInv
<1>2. phase \in [Clients -> Phase]
  BY DEF TypeInv, TypeOK
<1>3. ASSUME UNCHANGED <<phase, myText, sideString, executed, missed>>
      PROVE  InPlace(c)'
  BY <1>1, <1>3, InPlaceFrame
<1>4. CASE Order
  BY <1>3, <1>4 DEF Order, process, editor, queue
<1>12. CASE Lose
  BY <1>3, <1>12 DEF Lose, process, editor, queue
<1>13. CASE UNCHANGED vars
  BY <1>3, <1>13 DEF vars, process, editor, queue
<1>5. CASE EndSession
  <2>1. /\ phase' = [phase EXCEPT ![Creator] = "left"]
        /\ UNCHANGED <<myText, sideString, executed, missed>>
    BY <1>5 DEF EndSession, editor, queue
  <2>2. phase'[c] \in {phase[c], "left"}
    BY <1>2, <2>1
  <2> QED BY <1>1, <2>1, <2>2, InPlaceFrame
<1>6. ASSUME NEW d \in Clients, OpenEditor(d) PROVE InPlace(c)'
  BY <1>1, <1>6, OpenEditorPlace
<1>7. ASSUME NEW d \in Clients, UserEdit(d) PROVE InPlace(c)'
  BY <1>1, <1>7, UserEditPlace
<1>8. ASSUME NEW d \in Clients, Deliver(d) PROVE InPlace(c)'
  BY <1>1, <1>8, DeliverPlace
<1>9. ASSUME NEW d \in Clients, RunBlock(d) PROVE InPlace(c)'
  BY <1>1, <1>9, RunBlockPlace
<1>10. ASSUME NEW d \in Clients, Kill(d) PROVE InPlace(c)'
  <2>1. /\ phase' = [phase EXCEPT ![d] = "stopped"]
        /\ UNCHANGED <<myText, sideString, executed, missed>>
    BY <1>10 DEF Kill, editor, queue
  <2>2. phase'[c] \in {phase[c], "stopped"}
    BY <1>2, <2>1
  <2> QED BY <1>1, <2>1, <2>2, InPlaceFrame
<1>11. ASSUME NEW d \in Clients, Relaunch(d) PROVE InPlace(c)'
  BY <1>1, <1>11, RelaunchPlace
<1> QED BY <1>4, <1>5, <1>6, <1>7, <1>8, <1>9, <1>10, <1>11, <1>12, <1>13 DEF Next

\* Each device's ordered copy is the history's text at its place, always.
LEMMA SideInvAlways == Spec => []SideInv
BY SideInit, SideStep, TypeInvAlways, ViewInvAlways, PTL DEF Spec

\* EVO rules 4 to 6: what a device typed meanwhile has no influence on what
\* the order of the session makes of its sideString.
THEOREM ConvergenceHolds == Spec => []Convergence
<1>1. SideInv => Convergence
  BY DEF SideInv, InPlace, Convergence
<1> QED BY <1>1, SideInvAlways, PTL

\* No device gets past an event that raised NSRangeException on another one.
THEOREM CrashIsCommonHolds == Spec => []CrashIsCommon
<1>1. ASSUME TypeInv, SideInv PROVE CrashIsCommon
  <2>1. ASSUME NEW c \in Clients, NEW d \in Clients,
               phase[c] = "crashed", missed[c] = 0, missed[d] = 0
        PROVE  executed[d] <= executed[c]
    <3>1. executed[c] \in Nat /\ executed[d] \in Nat
      BY <1>1 DEF TypeInv, TypeOK
    <3>2. ~Fits(versions[executed[c] + 1], log[executed[c] + 1])
      BY <1>1, <2>1 DEF SideInv, InPlace, Blocked
    <3>3. \A i \in 1..executed[d] : Fits(versions[i], log[i])
      BY <1>1, <2>1 DEF SideInv, InPlace
    <3>4. executed[c] + 1 \notin 1..executed[d]
      BY <3>2, <3>3
    <3> QED BY <3>1, <3>4
  <2> QED BY <2>1 DEF CrashIsCommon
<1> QED BY <1>1, TypeInvAlways, SideInvAlways, PTL

-----------------------------------------------------------------------------
(***************************************************************************)
(* The action property: a view under edit is left alone.                   *)
(***************************************************************************)
\* A block changes the view only when it leaves BRCounter at 0.
LEMMA BlockSparesView ==
    ASSUME TypeInv, NEW d \in Clients, RunBlock(d),
           NEW c \in Clients, executed'[c] > executed[c]
    PROVE  myText'[c] = myText[c] \/ BRCounter'[c] = 0
<1> DEFINE m == log[executed[d] + 1]
<1>1. /\ executed \in [Clients -> Nat] /\ BRCounter \in [Clients -> Int]
      /\ myText \in [Clients -> Seq(Char)]
  BY DEF TypeInv, TypeOK
<1>2. CASE /\ OwnEvent(d, m) \/ OtherEvent(d, m)
           /\ executed' = [executed EXCEPT ![d] = @ + 1]
  <2> HIDE DEF m
  <2>1. c = d
    BY <1>1, <1>2
  <2>2. CASE OwnEvent(d, m)
    <3>1. BRCounter'[c] = BRCounter[c] - 1
      BY <1>1, <2>1, <2>2 DEF OwnEvent
    <3>2. BRCounter[c] - 1 # 0 => UNCHANGED myText
      BY <2>1, <2>2 DEF OwnEvent
    <3> QED BY <3>1, <3>2
  <2>3. CASE OtherEvent(d, m)
    BY <2>1, <2>3 DEF OtherEvent
  <2> QED BY <1>2, <2>2, <2>3
<1>3. CASE UNCHANGED <<editor, executed>>
  BY <1>1, <1>3
<1> QED BY <1>2, <1>3, RunBlockCases

\* A counter at 0 awaits nothing.
Idle == \A c \in Clients : phase[c] = "editing" /\ BRCounter[c] = 0
                              => OwnPending(c) = {} /\ OwnUnread(c) = {}

\* A counter at 0 awaits nothing, in every reachable state.
LEMMA IdleAlways == Spec => []Idle
<1>1. ASSUME TypeInv, CountInv PROVE Idle
  <2>1. ASSUME NEW c \in Clients, phase[c] = "editing", BRCounter[c] = 0
        PROVE  OwnPending(c) = {} /\ OwnUnread(c) = {}
    <3>1. Balance(c) /\ failed[c] \in Nat
      BY <1>1, <2>1 DEF CountInv, TypeInv, TypeOK
    <3>2. /\ IsFiniteSet(OwnPending(c)) /\ Cardinality(OwnPending(c)) \in Nat
          /\ IsFiniteSet(OwnUnread(c)) /\ Cardinality(OwnUnread(c)) \in Nat
      BY <1>1, OwnFinite DEF CountInv
    <3>3. Cardinality(OwnPending(c)) = 0 /\ Cardinality(OwnUnread(c)) = 0
      BY <2>1, <3>1, <3>2 DEF Balance
    <3> QED BY <3>2, <3>3, FS_EmptySet
  <2> QED BY <2>1 DEF Idle
<1> QED BY <1>1, TypeInvAlways, CountInvAlways, PTL

\* EVO rule 5: the events of others do not touch the text of a user whose
\* broadcasts are under way; they are merged when the last one is back.
THEOREM NoChangeWhileOwnUnderWayHolds == Spec => NoChangeWhileOwnUnderWay
<1> DEFINE Spared(c) == /\ phase[c] = "editing" /\ phase'[c] = "editing"
                        /\ executed'[c] > executed[c]
                        /\ OwnPending(c)' # {} \/ OwnUnread(c)' # {}
                        => myText'[c] = myText[c]
<1>1. TypeInv /\ Idle' /\ [Next]_vars => \A c \in Clients : Spared(c)
  <2> SUFFICES ASSUME TypeInv, Idle', [Next]_vars, NEW c \in Clients,
                      phase'[c] = "editing", executed'[c] > executed[c],
                      myText'[c] # myText[c]
               PROVE  OwnPending(c)' = {} /\ OwnUnread(c)' = {}
    OBVIOUS
  <2>1. executed \in [Clients -> Nat]
    BY DEF TypeInv, TypeOK
  <2>2. UNCHANGED executed => FALSE
    BY <2>1
  <2>3. PICK d \in Clients : RunBlock(d) \/ Deliver(d) \/ Relaunch(d)
    BY <2>2 DEF Next, vars, Order, Lose, EndSession, OpenEditor, UserEdit, Changed,
                ChangeRaises, Kill, queue
  <2>4. ~Deliver(d)
    BY DEF Deliver, editor
  <2>5. ~Relaunch(d)
    <3>1. Relaunch(d) => executed' = [executed EXCEPT ![d] = 0]
      BY DEF Relaunch
    <3>2. executed' = [executed EXCEPT ![d] = 0] => executed'[c] = executed[c] \/ executed'[c] = 0
      BY <2>1
    <3>3. executed[c] \in Nat
      BY <2>1
    <3> QED BY <3>1, <3>2, <3>3
  <2>6. BRCounter'[c] = 0
    BY <2>3, <2>4, <2>5, BlockSparesView
  <2> QED BY <2>6 DEF Idle
<1> QED BY <1>1, TypeInvAlways, IdleAlways, PTL DEF NoChangeWhileOwnUnderWay, Spec

=============================================================================
