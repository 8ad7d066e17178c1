----------------------------- MODULE EvoEditor -----------------------------
(***************************************************************************)
(* The shared editor of WeWrite (EECS441P1/ViewController.mm) on several   *)
(* devices, with the Collabrify service that orders their broadcasts.      *)
(*                                                                         *)
(* Every device keeps the text of its text view (myText), a second copy    *)
(* (sideString) to which every event is applied in the service's order,    *)
(* and BRCounter, the number of its own broadcasts it has not received     *)
(* back.  The text view follows sideString only while BRCounter is 0.      *)
(*                                                                         *)
(* The service is external: a broadcast is submitted, sooner or later it   *)
(* gets the next place in the one order of the session, and the client     *)
(* library of each device calls receivedEvent... on a thread of its own,   *)
(* in that order.  The handler queues a block on the main queue, and the   *)
(* blocks interleave there with the user's edits.                          *)
(***************************************************************************)
EXTENDS Integers, Sequences, FiniteSets, TextOps

CONSTANTS
    Clients,        \* the devices
    Creator,        \* the device that created the session
    Char,           \* UTF-16 units
    Encodable,      \* the units UTF8String can encode (not a lone surrogate)
    Decode,         \* the text defaultCStringEncoding makes of a unit's UTF-8
    InOrder,        \* does the service keep the order of one device's broadcasts
    Inputs,         \* what one keystroke, correction or paste may put in
    MaxSelect,      \* bound: units one edit may replace
    MaxEdits,       \* bound: edits of all devices together
    MaxFailures,    \* bound: broadcasts of a device that fail
    MaxLives,       \* bound: times a device starts the application again
    MayEnd          \* may the owner delete the session

ASSUME CreatorAssumption == Creator \in Clients
ASSUME TextAssumption == /\ Encodable \subseteq Char
                         /\ Decode \in [Encodable -> Seq(Char)]
                         /\ Inputs \subseteq Seq(Char)
ASSUME OrderAssumption == InOrder \in BOOLEAN
ASSUME BoundAssumption == /\ MaxSelect \in Nat
                          /\ MaxEdits \in Nat
                          /\ MaxFailures \in Nat
                          /\ MaxLives \in Nat
                          /\ MayEnd \in BOOLEAN

VARIABLES
    log,            \* the session's events in order (the order id is the index)
    pending,        \* broadcasts submitted and not yet ordered
    ended,          \* has the session been deleted (currentSessionHasEnded)
    phase,          \* where each device is, see Phase
    life,           \* which run of the application this is on the device
    myText,         \* text of the text view
    caret,          \* selectedRange.location of the text view
    textSize,       \* the property textSize
    sideString,     \* the property sideString
    BRCounter,      \* the property BRCounter
    received,       \* events the library has handed to its delegate
    executed,       \* of these, the ones whose block has run or was never queued
    missed,         \* of these, the ones the lobby ignored
    edits,          \* edits so far, over all devices
    failed,         \* history: broadcasts of this run that returned -1
    versions        \* history: the text after each event of the log

service == <<log, pending, ended, versions>>
process == <<phase, life, failed>>
editor == <<myText, caret, textSize, sideString, BRCounter>>
queue == <<received, executed, missed>>
vars == <<service, process, editor, queue, edits>>

(***************************************************************************)
(* entering: in the session, the editor's viewDidLoad has not run yet.     *)
(* crashed: a block raised NSRangeException.  stopped: the process is gone *)
(* for another reason.  left: back in the lobby.                           *)
(***************************************************************************)
Phase == {"entering", "editing", "crashed", "stopped", "left"}

\* textChangeMessage, with the event type and the run that sent it
Message == [client : Clients, life : Nat, id : Nat,
            type : {"Insert", "Delete"}, text : Seq(Char), loc : Nat, num : Nat]

TypeOK ==
    /\ log \in Seq(Message)
    /\ pending \in SUBSET Message
    /\ ended \in BOOLEAN
    /\ phase \in [Clients -> Phase]
    /\ life \in [Clients -> Nat]
    /\ myText \in [Clients -> Seq(Char)]
    /\ caret \in [Clients -> Nat]
    /\ textSize \in [Clients -> Nat]
    /\ sideString \in [Clients -> Seq(Char)]
    /\ BRCounter \in [Clients -> Int]
    /\ received \in [Clients -> Nat]
    /\ executed \in [Clients -> Nat]
    /\ missed \in [Clients -> Nat]
    /\ edits \in Nat
    /\ failed \in [Clients -> Nat]
    /\ versions \in Seq(Seq(Char))

-----------------------------------------------------------------------------
(***************************************************************************)
(* What an event does to a text.                                           *)
(***************************************************************************)
Fits(s, m) == IF m.type = "Insert" THEN InsertFits(s, m.loc, m.num)
                                   ELSE DeleteFits(s, m.loc, m.num)

\* contentmodified() read back with the default C string encoding
TextOf(m) == Decode[m.text[1]]

Apply(s, m) == IF m.type = "Insert" THEN InsertText(s, TextOf(m), m.loc, m.num)
                                    ELSE DeleteText(s, m.loc, m.num)

\* UITextView keeps a range it is given inside its text
Clamp(n, s) == IF n > Len(s) THEN Len(s) ELSE n

\* faulty variant: tells own events by the user's name
IsSelfByName(c, m) == m.client = c

\* submissionRegistrationID is not -1: this run of the application sent it
IsSelf(c, m) == m.client = c /\ m.life = life[c]

-----------------------------------------------------------------------------
Init ==
    /\ log = <<>>
    /\ pending = {}
    /\ ended = FALSE
    /\ phase = [c \in Clients |-> "entering"]
    /\ life = [c \in Clients |-> 0]
    /\ myText = [c \in Clients |-> <<>>]
    /\ caret = [c \in Clients |-> 0]
    /\ textSize = [c \in Clients |-> 0]
    /\ sideString = [c \in Clients |-> <<>>]
    /\ BRCounter = [c \in Clients |-> 0]
    /\ received = [c \in Clients |-> 0]
    /\ executed = [c \in Clients |-> 0]
    /\ missed = [c \in Clients |-> 0]
    /\ edits = 0
    /\ failed = [c \in Clients |-> 0]
    /\ versions = << <<>> >>

\* viewDidLoad, down to resumeEvents
OpenEditor(c) ==
    /\ phase[c] = "entering"
    /\ phase' = [phase EXCEPT ![c] = "editing"]
    /\ textSize' = [textSize EXCEPT ![c] = 0]
    /\ sideString' = [sideString EXCEPT ![c] = myText[c]]
    /\ BRCounter' = [BRCounter EXCEPT ![c] = 0]
    /\ UNCHANGED <<service, life, failed, myText, caret, queue, edits>>

-----------------------------------------------------------------------------
(***************************************************************************)
(* The user edits: the text view changes first, then textViewDidChange     *)
(* runs with the caret behind what was put in.  A text longer than         *)
(* textSize is sent as an insertion of its last unit before the caret,     *)
(* any other one as a deletion.                                            *)
(***************************************************************************)
\* faulty variant: without abs()
InsertMessageSigned(c, text, at) ==
    [client |-> c, life |-> life[c], id |-> edits + 1, type |-> "Insert",
     text |-> <<text[at]>>, loc |-> at, num |-> textSize[c] - Len(text)]

InsertMessage(c, text, at) ==
    [client |-> c, life |-> life[c], id |-> edits + 1, type |-> "Insert",
     text |-> <<text[at]>>, loc |-> at, num |-> Distance(textSize[c], Len(text))]

DeleteMessage(c, text, at) ==
    [client |-> c, life |-> life[c], id |-> edits + 1, type |-> "Delete",
     text |-> <<>>, loc |-> at, num |-> Distance(textSize[c], Len(text))]

MessageFor(c, text, at) == IF textSize[c] < Len(text) THEN InsertMessage(c, text, at)
                                                      ELSE DeleteMessage(c, text, at)

\* characterAtIndex: raises at caret 0; UTF8String of a lone surrogate is NULL
CanSend(c, text, at) ==
    textSize[c] < Len(text) => at > 0 /\ text[at] \in Encodable

\* broadcast:eventType: returned a registration id
Accepted(c, m) ==
    /\ ~ended
    /\ pending' = pending \union {m}
    /\ UNCHANGED failed

\* it returned -1, which nobody looks at
Refused(c) ==
    /\ ended \/ failed[c] < MaxFailures
    /\ failed' = [failed EXCEPT ![c] = @ + 1]
    /\ UNCHANGED pending

\* faulty variant: the former size is not updated
ChangedSizeKept(c, text, at) ==
    /\ CanSend(c, text, at)
    /\ phase' = [phase EXCEPT ![c] = IF ended THEN "left" ELSE @]
    /\ myText' = [myText EXCEPT ![c] = text]
    /\ caret' = [caret EXCEPT ![c] = at]
    /\ BRCounter' = [BRCounter EXCEPT ![c] = @ + 1]
    /\ Accepted(c, MessageFor(c, text, at)) \/ Refused(c)
    /\ UNCHANGED <<log, ended, versions, life, textSize, sideString, queue>>

\* the view controller is popped first when the session has ended
Changed(c, text, at) ==
    /\ CanSend(c, text, at)
    /\ phase' = [phase EXCEPT ![c] = IF ended THEN "left" ELSE @]
    /\ myText' = [myText EXCEPT ![c] = text]
    /\ caret' = [caret EXCEPT ![c] = at]
    /\ BRCounter' = [BRCounter EXCEPT ![c] = @ + 1]
    /\ Accepted(c, MessageFor(c, text, at)) \/ Refused(c)
    /\ textSize' = [textSize EXCEPT ![c] = Len(text)]
    /\ UNCHANGED <<log, ended, versions, life, sideString, queue>>

ChangeRaises(c, text, at) ==
    /\ ~CanSend(c, text, at)
    /\ phase' = [phase EXCEPT ![c] = "stopped"]
    /\ UNCHANGED <<service, life, failed, editor, queue>>

UserEdit(c) ==
    /\ phase[c] = "editing"
    /\ edits < MaxEdits
    /\ edits' = edits + 1
    /\ \E p \in 0..Len(myText[c]), m \in 0..MaxSelect, w \in Inputs :
          /\ p + m <= Len(myText[c])
          /\ m > 0 \/ w # <<>>
          /\ LET text == Splice(myText[c], p, m, w)
                 at == p + Len(w)
             IN  Changed(c, text, at) \/ ChangeRaises(c, text, at)

-----------------------------------------------------------------------------
(***************************************************************************)
(* The service and the client library.                                     *)
(***************************************************************************)
Order ==
    \E m \in pending :
        /\ InOrder => \A n \in pending : n.client = m.client => m.id <= n.id
        /\ pending' = pending \ {m}
        /\ log' = Append(log, m)
        /\ versions' = Append(versions, LET s == versions[Len(versions)]
                                        IN  IF Fits(s, m) THEN Apply(s, m) ELSE s)
        /\ UNCHANGED <<ended, process, editor, queue, edits>>

\* a run that is over may take what it had not yet sent with it
Lose ==
    \E m \in pending :
        /\ m.life # life[m.client] \/ phase[m.client] \in {"crashed", "stopped"}
        /\ pending' = pending \ {m}
        /\ UNCHANGED <<log, ended, versions, process, editor, queue, edits>>

\* joinSession passes startPaused:YES, createSession startPaused:NO
Paused(c) == ~(c = Creator /\ life[c] = 0)

\* receivedEvent...: the editor queues a block, the lobby has no such method
Deliver(c) ==
    /\ received[c] < Len(log)
    /\ received' = [received EXCEPT ![c] = @ + 1]
    /\ \/ /\ phase[c] = "editing"
          /\ UNCHANGED <<executed, missed>>
       \/ /\ phase[c] = "entering"
          /\ ~Paused(c)
          /\ executed' = [executed EXCEPT ![c] = @ + 1]
          /\ missed' = [missed EXCEPT ![c] = @ + 1]
    /\ UNCHANGED <<service, process, editor, edits>>

-----------------------------------------------------------------------------
(***************************************************************************)
(* The block receivedEvent... queued.                                      *)
(***************************************************************************)
\* faulty variant: BRCounter is not decremented
OwnEventUncounted(c, m) ==
    /\ IsSelf(c, m)
    /\ sideString' = [sideString EXCEPT ![c] = Apply(@, m)]
    /\ UNCHANGED <<BRCounter, myText, caret, textSize>>

\* faulty variant: BRCounter is looked at before it is decremented
OwnEventCountedLate(c, m) ==
    /\ IsSelf(c, m)
    /\ BRCounter' = [BRCounter EXCEPT ![c] = @ - 1]
    /\ sideString' = [sideString EXCEPT ![c] = Apply(@, m)]
    /\ myText' = [myText EXCEPT ![c] = IF BRCounter[c] = 0 THEN Apply(sideString[c], m) ELSE @]
    /\ UNCHANGED <<caret, textSize>>

\* faulty variant: the text view takes sideString on every own event
OwnEventEager(c, m) ==
    /\ IsSelf(c, m)
    /\ BRCounter' = [BRCounter EXCEPT ![c] = @ - 1]
    /\ sideString' = [sideString EXCEPT ![c] = Apply(@, m)]
    /\ myText' = [myText EXCEPT ![c] = Apply(sideString[c], m)]
    /\ UNCHANGED <<caret, textSize>>

\* faulty variant: the text view has the user's change already and keeps it
OwnEventSkipsView(c, m) ==
    /\ IsSelf(c, m)
    /\ BRCounter' = [BRCounter EXCEPT ![c] = @ - 1]
    /\ sideString' = [sideString EXCEPT ![c] = Apply(@, m)]
    /\ UNCHANGED <<myText, caret, textSize>>

OwnEvent(c, m) ==
    /\ IsSelf(c, m)
    /\ BRCounter' = [BRCounter EXCEPT ![c] = @ - 1]
    /\ sideString' = [sideString EXCEPT ![c] = Apply(@, m)]
    /\ IF BRCounter[c] - 1 = 0
       THEN /\ myText' = [myText EXCEPT ![c] = Apply(sideString[c], m)]
            /\ caret' = [caret EXCEPT ![c] = Clamp(m.loc, Apply(sideString[c], m))]
       ELSE UNCHANGED <<myText, caret>>
    /\ UNCHANGED textSize

\* faulty variant: an event goes to the text view or to sideString
OtherEventOneText(c, m) ==
    /\ ~IsSelf(c, m)
    /\ IF BRCounter[c] = 0
       THEN /\ myText' = [myText EXCEPT ![c] = Apply(@, m)]
            /\ textSize' = [textSize EXCEPT ![c] = Len(Apply(myText[c], m))]
            /\ UNCHANGED sideString
       ELSE /\ sideString' = [sideString EXCEPT ![c] = Apply(@, m)]
            /\ UNCHANGED <<myText, textSize>>
    /\ UNCHANGED <<caret, BRCounter>>

OtherEvent(c, m) ==
    /\ ~IsSelf(c, m)
    /\ sideString' = [sideString EXCEPT ![c] = Apply(@, m)]
    /\ IF BRCounter[c] = 0
       THEN /\ myText' = [myText EXCEPT ![c] = Apply(@, m)]
            /\ caret' = [caret EXCEPT ![c] = Clamp(@, Apply(myText[c], m))]
            /\ textSize' = [textSize EXCEPT ![c] = Len(Apply(myText[c], m))]
       ELSE UNCHANGED <<myText, caret, textSize>>
    /\ UNCHANGED BRCounter

\* faulty variant: the text view is cut even while broadcasts are under way
CutAlways(c, m) == {myText[c], sideString[c]}

\* the texts the block cuts up: another device's event goes to the view first
Cut(c, m) == IF ~IsSelf(c, m) /\ BRCounter[c] = 0 THEN {myText[c], sideString[c]}
                                                  ELSE {sideString[c]}

RunBlock(c) ==
    /\ phase[c] = "editing"
    /\ executed[c] < received[c]
    /\ LET m == log[executed[c] + 1]
       IN  \/ /\ \A s \in Cut(c, m) : Fits(s, m)
              /\ OwnEvent(c, m) \/ OtherEvent(c, m)
              /\ executed' = [executed EXCEPT ![c] = @ + 1]
              /\ UNCHANGED phase
           \/ /\ \E s \in Cut(c, m) : ~Fits(s, m)
              /\ phase' = [phase EXCEPT ![c] = "crashed"]
              /\ UNCHANGED <<editor, executed>>
    /\ UNCHANGED <<service, life, failed, received, missed, edits>>

-----------------------------------------------------------------------------
(***************************************************************************)
(* Runs of the application, and the end of the session.                    *)
(***************************************************************************)
Kill(c) ==
    /\ phase[c] \in {"entering", "editing"}
    /\ life[c] < MaxLives
    /\ phase' = [phase EXCEPT ![c] = "stopped"]
    /\ UNCHANGED <<service, life, failed, editor, queue, edits>>

\* faulty variant: the new run is only sent the events the last one did not get
RelaunchResumes(c) ==
    /\ phase[c] \in {"crashed", "stopped"}
    /\ ~ended
    /\ life[c] < MaxLives
    /\ phase' = [phase EXCEPT ![c] = "entering"]
    /\ life' = [life EXCEPT ![c] = @ + 1]
    /\ myText' = [myText EXCEPT ![c] = <<>>]
    /\ caret' = [caret EXCEPT ![c] = 0]
    /\ textSize' = [textSize EXCEPT ![c] = 0]
    /\ sideString' = [sideString EXCEPT ![c] = <<>>]
    /\ BRCounter' = [BRCounter EXCEPT ![c] = 0]
    /\ failed' = [failed EXCEPT ![c] = 0]
    /\ UNCHANGED <<service, queue, edits>>

\* a new run joins the session as a new participant and gets every event
Relaunch(c) ==
    /\ phase[c] \in {"crashed", "stopped"}
    /\ ~ended
    /\ life[c] < MaxLives
    /\ phase' = [phase EXCEPT ![c] = "entering"]
    /\ life' = [life EXCEPT ![c] = @ + 1]
    /\ myText' = [myText EXCEPT ![c] = <<>>]
    /\ caret' = [caret EXCEPT ![c] = 0]
    /\ textSize' = [textSize EXCEPT ![c] = 0]
    /\ sideString' = [sideString EXCEPT ![c] = <<>>]
    /\ BRCounter' = [BRCounter EXCEPT ![c] = 0]
    /\ received' = [received EXCEPT ![c] = 0]
    /\ executed' = [executed EXCEPT ![c] = 0]
    /\ missed' = [missed EXCEPT ![c] = 0]
    /\ failed' = [failed EXCEPT ![c] = 0]
    /\ UNCHANGED <<service, edits>>

\* the owner answers Yes to "Do you want to delete this group?"
EndSession ==
    /\ MayEnd /\ ~ended
    /\ phase[Creator] = "editing" /\ life[Creator] = 0
    /\ ended' = TRUE
    /\ phase' = [phase EXCEPT ![Creator] = "left"]
    /\ UNCHANGED <<log, pending, versions, life, failed, editor, queue, edits>>

Next ==
    \/ Order
    \/ Lose
    \/ EndSession
    \/ \E c \in Clients : \/ OpenEditor(c)
                          \/ UserEdit(c)
                          \/ Deliver(c)
                          \/ RunBlock(c)
                          \/ Kill(c)
                          \/ Relaunch(c)

\* nothing makes a user type, an application die or an owner leave
Fairness ==
    /\ WF_vars(Order)
    /\ \A c \in Clients : /\ WF_vars(OpenEditor(c))
                          /\ WF_vars(Deliver(c))
                          /\ WF_vars(RunBlock(c))

Spec == Init /\ [][Next]_vars
FairSpec == Spec /\ Fairness

-----------------------------------------------------------------------------
(***************************************************************************)
(* Properties.                                                             *)
(***************************************************************************)

\* the broadcasts of this run the device has still to process
OwnPending(c) == {m \in pending : IsSelf(c, m)}
OwnUnread(c) == {i \in executed[c] + 1 .. Len(log) : IsSelf(c, log[i])}

\* BRCounter is the broadcasts that are still to come back plus the failed
\* ones: no interleaving of edits, blocks and restarts makes the increment of
\* textViewDidChange and the decrement of the block drift apart.
CounterAccounting ==
    \A c \in Clients : phase[c] = "editing" =>
        BRCounter[c] = Cardinality(OwnPending(c)) + Cardinality(OwnUnread(c)) + failed[c]

\* While no own broadcast is outstanding the user sees sideString: after any
\* run of merged edits the text view has caught up with the ordered copy.
QuiescentAgreement ==
    \A c \in Clients :
        phase[c] = "editing" /\ BRCounter[c] = 0 => myText[c] = sideString[c]

\* textSize may lag behind the view only after the last own broadcast came
\* back: as long as one is missing, the next edit is measured correctly.
TextSizeWhileCounting ==
    \A c \in Clients :
        phase[c] = "editing" /\ BRCounter[c] > 0 => textSize[c] = Len(myText[c])

\* Devices that have processed the same number of events have the same
\* sideString, whatever each of them typed meanwhile, unless the lobby
\* swallowed events of one of them.
Convergence ==
    \A c, d \in Clients :
        /\ phase[c] = "editing" /\ missed[c] = 0
        /\ phase[d] = "editing" /\ missed[d] = 0
        /\ executed[c] = executed[d]
        => sideString[c] = sideString[d]

\* An event that brings one device down cannot be processed by any other one
\* that got every event: all stop in front of it, and so does every new run.
CrashIsCommon ==
    \A c, d \in Clients :
        /\ phase[c] = "crashed" /\ missed[c] = 0
        /\ phase[d] = "editing" /\ missed[d] = 0
        => executed[d] <= executed[c]

\* EVO rule 5: what others send never changes the text under a user whose own
\* broadcasts are still under way.
NoChangeWhileOwnUnderWay ==
    [][\A c \in Clients :
          /\ phase[c] = "editing" /\ phase'[c] = "editing"
          /\ executed'[c] > executed[c]
          /\ OwnPending(c)' # {} \/ OwnUnread(c)' # {}
          => myText'[c] = myText[c]]_vars

\* When typing stops, every device that is still in its editor and got every
\* event shows the text the session's events make, and awaits nothing.
EventualAgreement ==
    <>[](\A c \in Clients : phase[c] = "editing" =>
            /\ BRCounter[c] = 0
            /\ missed[c] = 0 => myText[c] = versions[Len(versions)])

=============================================================================
