------------------------------- MODULE Lobby -------------------------------
(***************************************************************************)
(* The lobby of WeWrite (ViewController2.mm) and the way out of the editor *)
(* (EECS441P1/ViewController.mm) on several devices.                       *)
(*                                                                         *)
(* The user walks through alerts; their answers call the client library,   *)
(* which calls a completion handler on the main thread some time later.    *)
(* Meanwhile the buttons stay usable: a second walk may start while a call *)
(* of the first one is under way, and its alerts lie on top of others.     *)
(*                                                                         *)
(* Service and client library are external: CollabrifyClient.h says what   *)
(* they are asked for and CollabrifyError.h how they can refuse.           *)
(***************************************************************************)
EXTENDS Integers, Sequences, FiniteSets

CONSTANTS
    Devices,
    Names,          \* names of groups a user may type
    NoName,         \* stands for a name that does not matter
    Slots,          \* bound: one for each call of a device that may be under way
    Hasty,          \* devices whose user does not wait for an answer
    MaxSessions     \* bound: sessions created

ASSUME HastyAssumption == Hasty \subseteq Devices
ASSUME NameAssumption == NoName \notin Names
ASSUME LobbyBoundAssumption == MaxSessions \in Nat /\ IsFiniteSet(Slots)

VARIABLES
    sessions,       \* the service: every session ever created, by its id
    client,         \* the client library: the session it is in and the role
    calls,          \* calls whose completion handler has not run yet
    found,          \* the lobby's property session, 0 for nil
    alerts,         \* the alerts on screen, the one in front last
    editors,        \* editors on the navigation stack above the lobby
    running,        \* is the application alive
    asked,          \* history: the group the user asked to join
    unseated,       \* history: how the client may lack a session under an editor
    overlapped      \* history: the user did not wait for an answer in this walk

vars == <<sessions, client, calls, found, alerts, editors, running,
          asked, unseated, overlapped>>
history == <<asked, unseated, overlapped>>

None == 0

Session == [name : Names, locked : BOOLEAN, ended : BOOLEAN]

\* participantID and currentSessionOwner: owner is that the two agree, which they
\* do not outside a session, where participantID is -1 and nobody is the owner
Client == [session : Nat, owner : BOOLEAN]

\* NewName and NewNameAndPassword are "Enter a Group Name[ and Password]", the
\* blank ones "Error: Blank Fields"; GroupName is "Enter the Group Name"
Alert == {"SelectConfiguration", "NewName", "NewNameAndPassword", "BlankName",
          "BlankNameOrPassword", "GroupName", "GroupPassword", "LeavingGroup",
          "Orphan",     \* LeavingGroup whose editor has been popped
          "Notice"}     \* any alert whose answer does nothing

SessionOp == {"create", "join", "leave", "delete"}
Op == {"ListToCreate", "ListToJoin"} \union SessionOp

\* popped: the editor whose completion handler this is has been popped
Call ==
    {k \in [slot : Slots, op : Op, name : Names \union {NoName}, locked : BOOLEAN,
            session : Nat, password : Nat, refused : BOOLEAN, popped : BOOLEAN] :
        k.op \in {"ListToCreate", "create"} => k.name \in Names}

\* an editor on the stack was opened by a failed join; the client left its
\* session for an editor that was no longer on the stack
Unseated == {"failedJoin", "lateLeave"}

TypeOK ==
    /\ sessions \in Seq(Session)
    /\ client \in [Devices -> Client]
    /\ calls \in [Devices -> SUBSET Call]
    /\ found \in [Devices -> Nat]
    /\ alerts \in [Devices -> Seq(Alert)]
    /\ editors \in [Devices -> Nat]
    /\ running \in [Devices -> BOOLEAN]
    /\ asked \in [Devices -> Names \union {NoName}]
    /\ unseated \in [Devices -> SUBSET Unseated]
    /\ overlapped \in [Devices -> BOOLEAN]

Init ==
    /\ sessions = <<>>
    /\ client = [d \in Devices |-> [session |-> None, owner |-> FALSE]]
    /\ calls = [d \in Devices |-> {}]
    /\ found = [d \in Devices |-> None]
    /\ alerts = [d \in Devices |-> <<>>]
    /\ editors = [d \in Devices |-> 0]
    /\ running = [d \in Devices |-> TRUE]
    /\ asked = [d \in Devices |-> NoName]
    /\ unseated = [d \in Devices |-> {}]
    /\ overlapped = [d \in Devices |-> FALSE]

-----------------------------------------------------------------------------
(***************************************************************************)
(* Calls of the client library.                                            *)
(***************************************************************************)
Request(slot, op, name, locked, session, password) ==
    [slot |-> slot, op |-> op, name |-> name, locked |-> locked,
     session |-> session, password |-> password, refused |-> FALSE, popped |-> FALSE]

\* one session action at a time; create and join outside, leave inside a session
Refuses(d, k, others) ==
    /\ k.op \in SessionOp
    /\ \/ \E o \in others : o.op \in SessionOp /\ ~o.refused
       \/ (client[d].session = None) = (k.op \in {"leave", "delete"})

Started(d, k, others) ==
    others \union {IF Refuses(d, k, others) THEN [k EXCEPT !.refused = TRUE] ELSE k}

FreeSlots(d) == {slot \in Slots : \A o \in calls[d] : o.slot # slot}

\* a call the user's answer makes
Begin(d, op, name, locked, session, password) ==
    \E slot \in FreeSlots(d) :
        calls' = [calls EXCEPT ![d] =
            Started(d, Request(slot, op, name, locked, session, password), @)]

\* one that an editor makes after it was popped
BeginLate(d, op) ==
    \E slot \in FreeSlots(d) :
        LET request == Request(slot, op, NoName, FALSE, None, None)
        IN  calls' = [calls EXCEPT ![d] = Started(d, [request EXCEPT !.popped = TRUE], @)]

\* a call the completion handler of k makes
Continue(d, k, op, name, session) ==
    calls' = [calls EXCEPT ![d] =
        Started(d, Request(k.slot, op, name, k.locked, session, None), @ \ {k})]

Finish(d, k) == calls' = [calls EXCEPT ![d] = @ \ {k}]

Live == {s \in DOMAIN sessions : ~sessions[s].ended}

Named(name) == {s \in Live : sessions[s].name = name}

-----------------------------------------------------------------------------
(***************************************************************************)
(* What the user does.                                                     *)
(***************************************************************************)
\* a hasty user goes on although something he started is still under way
GoesOn(d) ==
    /\ running[d]
    /\ calls[d] = {} \/ d \in Hasty

Show(d, alert) == alerts' = [alerts EXCEPT ![d] = Append(@, alert)]

Front(d, titles) ==
    /\ running[d]
    /\ alerts[d] # <<>>
    /\ alerts[d][Len(alerts[d])] \in titles

Without(stack) == SubSeq(stack, 1, Len(stack) - 1)

Dismiss(d) == alerts' = [alerts EXCEPT ![d] = Without(@)]
Replace(d, alert) == alerts' = [alerts EXCEPT ![d] = Append(Without(@), alert)]

\* createGroupClick: and joinGroupClicked:
PressLobbyButton(d) ==
    /\ editors[d] = 0 /\ alerts[d] = <<>>
    /\ GoesOn(d)
    /\ \E alert \in {"SelectConfiguration", "GroupName", "Notice"} :
          Show(d, alert)                                    \* Notice: no network
    /\ overlapped' = [overlapped EXCEPT ![d] = calls[d] # {}]
    /\ UNCHANGED <<sessions, client, calls, found, editors, running, asked, unseated>>

AnswerConfiguration(d) ==
    /\ Front(d, {"SelectConfiguration"})
    /\ \E alert \in {"NewName", "NewNameAndPassword"} : Replace(d, alert)
    /\ UNCHANGED <<sessions, client, calls, found, editors, running, history>>

AnswerNewName(d) ==
    /\ Front(d, {"NewName", "NewNameAndPassword"})
    /\ LET locked == alerts[d][Len(alerts[d])] = "NewNameAndPassword"
       IN  \/ Dismiss(d) /\ UNCHANGED calls                 \* Cancel
           \/ /\ Replace(d, IF locked THEN "BlankNameOrPassword" ELSE "BlankName")
              /\ UNCHANGED calls
           \/ /\ Dismiss(d)
              /\ \E n \in Names : Begin(d, "ListToCreate", n, locked, None, None)
    /\ UNCHANGED <<sessions, client, found, editors, running, history>>

\* "Error: Blank Fields": every answer shows the same form again
AnswerBlank(d) ==
    /\ Front(d, {"BlankName", "BlankNameOrPassword"})
    /\ Replace(d, IF alerts[d][Len(alerts[d])] = "BlankName" THEN "NewName"
                  ELSE "NewNameAndPassword")
    /\ UNCHANGED <<sessions, client, calls, found, editors, running, history>>

\* a blank name is looked up like any name no group has
AnswerGroup(d) ==
    /\ Front(d, {"GroupName"})
    /\ Dismiss(d)
    /\ \/ UNCHANGED <<calls, asked>>                        \* Cancel
       \/ \E n \in Names : /\ asked' = [asked EXCEPT ![d] = n]
                           /\ Begin(d, "ListToJoin", n, FALSE, None, None)
    /\ UNCHANGED <<sessions, client, found, editors, running, unseated, overlapped>>

\* both buttons join; the password of a group is its id, None one of no group
AnswerPassword(d) ==
    /\ Front(d, {"GroupPassword"})
    /\ Dismiss(d)
    /\ \E password \in {None} \union DOMAIN sessions :
          Begin(d, "join", NoName, FALSE, found[d], password)
    /\ UNCHANGED <<sessions, client, found, editors, running, history>>

AnswerNotice(d) ==
    /\ Front(d, {"Notice"})
    /\ Dismiss(d)
    /\ UNCHANGED <<sessions, client, calls, found, editors, running, history>>

\* faulty variant: the owner is asked and leaves without an answer
PressBackLeaves(d) ==
    /\ editors[d] > 0 /\ alerts[d] = <<>>
    /\ GoesOn(d)
    /\ IF client[d].owner THEN Show(d, "LeavingGroup") ELSE UNCHANGED alerts
    /\ Begin(d, "leave", NoName, FALSE, None, None)
    /\ overlapped' = [overlapped EXCEPT ![d] = @ \/ calls[d] # {}]
    /\ UNCHANGED <<sessions, client, found, editors, running, asked, unseated>>

\* segueBack:
PressBack(d) ==
    /\ editors[d] > 0 /\ alerts[d] = <<>>
    /\ GoesOn(d)
    /\ IF client[d].owner
       THEN Show(d, "LeavingGroup") /\ UNCHANGED calls
       ELSE Begin(d, "leave", NoName, FALSE, None, None) /\ UNCHANGED alerts
    /\ overlapped' = [overlapped EXCEPT ![d] = @ \/ calls[d] # {}]
    /\ UNCHANGED <<sessions, client, found, editors, running, asked, unseated>>

\* Yes deletes the group
AnswerLeaving(d) ==
    /\ Front(d, {"LeavingGroup"})
    /\ Dismiss(d)
    /\ \E op \in {"leave", "delete"} : Begin(d, op, NoName, FALSE, None, None)
    /\ UNCHANGED <<sessions, client, found, editors, running, history>>

\* the alert does not keep its delegate: it may be still there, gone, or its
\* memory that of a newer editor
AnswerOrphan(d) ==
    /\ Front(d, {"Orphan"})
    /\ Dismiss(d)
    /\ \/ \E op \in {"leave", "delete"} : BeginLate(d, op)
       \/ UNCHANGED calls
       \/ editors[d] > 0 /\ \E op \in {"leave", "delete"} :
                                Begin(d, op, NoName, FALSE, None, None)
    /\ UNCHANGED <<sessions, client, found, editors, running, history>>

\* the process is gone with all it kept
CrashOnOrphan(d) ==
    /\ Front(d, {"Orphan"})
    /\ running' = [running EXCEPT ![d] = FALSE]
    /\ client' = [client EXCEPT ![d] = [session |-> None, owner |-> FALSE]]
    /\ calls' = [calls EXCEPT ![d] = {}]
    /\ found' = [found EXCEPT ![d] = None]
    /\ alerts' = [alerts EXCEPT ![d] = <<>>]
    /\ editors' = [editors EXCEPT ![d] = 0]
    /\ unseated' = [unseated EXCEPT ![d] = {}]
    /\ UNCHANGED <<sessions, asked, overlapped>>

Orphaned(titles) == [i \in DOMAIN titles |->
                        IF titles[i] = "LeavingGroup" THEN "Orphan" ELSE titles[i]]

\* the handlers keep their editor, but it is on no stack any more
Late(handlers) == {IF o.op \in {"leave", "delete"} THEN [o EXCEPT !.popped = TRUE] ELSE o :
                      o \in handlers}

\* sent by an editor on the stack; the calls under way are others from now on
PopToRoot(d, others) ==
    /\ editors' = [editors EXCEPT ![d] = 0]
    /\ unseated' = [unseated EXCEPT ![d] = {}]
    /\ alerts' = [alerts EXCEPT ![d] = Orphaned(@)]
    /\ calls' = [calls EXCEPT ![d] = Late(others)]

\* faulty variant: pops from a session that has not ended
TypePops(d) ==
    /\ running[d] /\ editors[d] > 0 /\ alerts[d] = <<>>
    /\ client[d].session \in DOMAIN sessions
    /\ PopToRoot(d, calls[d])
    /\ UNCHANGED <<sessions, client, found, running, asked, overlapped>>

\* textViewDidChange: when the client knows that the session has ended
TypeAfterEnd(d) ==
    /\ running[d] /\ editors[d] > 0 /\ alerts[d] = <<>>
    /\ client[d].session \in DOMAIN sessions \ Live
    /\ PopToRoot(d, calls[d])
    /\ UNCHANGED <<sessions, client, found, running, asked, overlapped>>

-----------------------------------------------------------------------------
(***************************************************************************)
(* Completion handlers, each with what the service did with the call: it   *)
(* may also fail for a reason of its own.  The handlers look at the answer *)
(* only, so nothing is lost by letting both happen at once.                *)
(***************************************************************************)
OpenEditor(d) == editors' = [editors EXCEPT ![d] = @ + 1]

\* the list has no such name: the group is created
NameIsFree(d, k) ==
    /\ k.op = "ListToCreate"
    /\ Named(k.name) = {}
    /\ Continue(d, k, "create", k.name, None)
    /\ UNCHANGED <<sessions, client, found, alerts, editors, unseated, asked>>

\* "Group Name Already In Use", or a lost look-up: indexOfObjectPassingTest:
\* of a nil list is 0
NameIsTaken(d, k) ==
    /\ k.op = "ListToCreate"
    /\ Finish(d, k)
    /\ Show(d, "Notice")
    /\ UNCHANGED <<sessions, client, found, editors, unseated, asked>>

GroupFound(d, k) ==
    /\ k.op = "ListToJoin"
    /\ \E s \in Named(k.name) :
          /\ found' = [found EXCEPT ![d] = s]
          /\ IF sessions[s].locked
             THEN Finish(d, k) /\ Show(d, "GroupPassword")
             ELSE Continue(d, k, "join", NoName, s) /\ UNCHANGED alerts
    /\ UNCHANGED <<sessions, client, editors, unseated, asked>>

GroupNotFound(d, k) ==
    /\ k.op = "ListToJoin"
    /\ Named(k.name) = {}
    /\ Finish(d, k)
    /\ Show(d, "Notice")
    /\ asked' = [asked EXCEPT ![d] = NoName]
    /\ UNCHANGED <<sessions, client, found, editors, unseated>>

\* faulty variant: a lost look-up keeps the session of an earlier one
GroupLookupKept(d, k) ==
    /\ k.op = "ListToJoin"
    /\ IF found[d] # None /\ sessions[found[d]].locked
       THEN Finish(d, k) /\ Show(d, "GroupPassword")
       ELSE Continue(d, k, "join", NoName, found[d]) /\ UNCHANGED alerts
    /\ UNCHANGED <<sessions, client, found, editors, unseated, asked>>

\* the nil list counts as found at 0: nil is joined, without a password
GroupLookupLost(d, k) ==
    /\ k.op = "ListToJoin"
    /\ found' = [found EXCEPT ![d] = None]
    /\ Continue(d, k, "join", NoName, None)
    /\ UNCHANGED <<sessions, client, alerts, editors, unseated, asked>>

Created(d, k) ==
    /\ k.op = "create" /\ ~k.refused
    /\ Len(sessions) < MaxSessions
    /\ Named(k.name) = {}
    /\ Finish(d, k)
    /\ sessions' = Append(sessions,
                          [name |-> k.name, locked |-> k.locked, ended |-> FALSE])
    /\ client' = [client EXCEPT ![d] = [session |-> Len(sessions) + 1, owner |-> TRUE]]
    /\ OpenEditor(d)
    /\ UNCHANGED <<found, alerts, unseated, asked>>

\* faulty variant: the completion handler does not look at the error
NotCreatedUnseen(d, k) ==
    /\ k.op = "create"
    /\ Finish(d, k)
    /\ OpenEditor(d)
    /\ UNCHANGED <<sessions, client, found, alerts, unseated, asked>>

\* nobody is told
NotCreated(d, k) ==
    /\ k.op = "create"
    /\ Finish(d, k)
    /\ UNCHANGED <<sessions, client, found, alerts, editors, unseated, asked>>

Opens(k) == ~sessions[k.session].locked \/ k.password = k.session

Joined(d, k) ==
    /\ k.op = "join" /\ ~k.refused
    /\ k.session \in Live
    /\ Opens(k)
    /\ Finish(d, k)
    /\ client' = [client EXCEPT ![d] = [session |-> k.session, owner |-> FALSE]]
    /\ OpenEditor(d)
    /\ asked' = [asked EXCEPT ![d] = NoName]
    /\ UNCHANGED <<sessions, found, alerts, unseated>>

BadPassword(d, k) ==
    /\ k.op = "join" /\ ~k.refused
    /\ k.session \in Live
    /\ ~Opens(k)
    /\ Finish(d, k)
    /\ Show(d, "Notice")
    /\ asked' = [asked EXCEPT ![d] = NoName]
    /\ UNCHANGED <<sessions, client, found, editors, unseated>>

\* every error but a bad password is taken for success
NotJoined(d, k) ==
    /\ k.op = "join"
    /\ Finish(d, k)
    /\ OpenEditor(d)
    /\ unseated' = [unseated EXCEPT ![d] = @ \union {"failedJoin"}]
    /\ asked' = [asked EXCEPT ![d] = NoName]
    /\ UNCHANGED <<sessions, client, found, alerts>>

\* faulty variant: the lobby pops one view controller, whoever left
PopOneAnyway(d, k) ==
    /\ editors' = [editors EXCEPT ![d] = @ - 1]
    /\ unseated' = [unseated EXCEPT ![d] = {}]
    /\ alerts' = [alerts EXCEPT ![d] = Orphaned(@)]
    /\ calls' = [calls EXCEPT ![d] = Late(@ \ {k})]

\* the navigation controller of an editor that was popped before is nil
PopIfThere(d, k) ==
    \/ ~k.popped /\ PopToRoot(d, calls[d] \ {k})
    \/ /\ k.popped /\ Finish(d, k)
       /\ unseated' = [unseated EXCEPT ![d] =
             IF editors[d] > 0 THEN @ \union {"lateLeave"} ELSE @]
       /\ UNCHANGED <<alerts, editors>>

\* only the owner deletes
Left(d, k) ==
    /\ k.op \in {"leave", "delete"} /\ ~k.refused
    /\ sessions' = [s \in DOMAIN sessions |->
          IF s = client[d].session /\ k.op = "delete" /\ client[d].owner
          THEN [sessions[s] EXCEPT !.ended = TRUE] ELSE sessions[s]]
    /\ client' = [client EXCEPT ![d] = [session |-> None, owner |-> FALSE]]
    /\ PopIfThere(d, k)
    /\ UNCHANGED <<found, asked>>

\* faulty variant: the completion handler does not look at success
NotLeftUnseen(d, k) ==
    /\ k.op \in {"leave", "delete"}
    /\ PopIfThere(d, k)
    /\ UNCHANGED <<sessions, client, found, asked>>

NotLeft(d, k) ==
    /\ k.op \in {"leave", "delete"}
    /\ Finish(d, k)
    /\ UNCHANGED <<sessions, client, found, alerts, editors, unseated, asked>>

Complete(d) ==
    /\ running[d]
    /\ \E k \in calls[d] :
          \/ NameIsFree(d, k)
          \/ NameIsTaken(d, k)
          \/ GroupFound(d, k)
          \/ GroupNotFound(d, k)
          \/ GroupLookupLost(d, k)
          \/ Created(d, k)
          \/ NotCreated(d, k)
          \/ Joined(d, k)
          \/ BadPassword(d, k)
          \/ NotJoined(d, k)
          \/ Left(d, k)
          \/ NotLeft(d, k)
    /\ UNCHANGED <<running, overlapped>>

Next ==
    \E d \in Devices :
        \/ PressLobbyButton(d)
        \/ AnswerConfiguration(d)
        \/ AnswerNewName(d)
        \/ AnswerBlank(d)
        \/ AnswerGroup(d)
        \/ AnswerPassword(d)
        \/ AnswerNotice(d)
        \/ PressBack(d)
        \/ AnswerLeaving(d)
        \/ AnswerOrphan(d)
        \/ CrashOnOrphan(d)
        \/ TypeAfterEnd(d)
        \/ Complete(d)

Spec == Init /\ [][Next]_vars

-----------------------------------------------------------------------------
(***************************************************************************)
(* Properties.                                                             *)
(***************************************************************************)

\* An editor is on screen without a session only because a join failed with
\* another error than a bad password, or because the user did not wait and an
\* editor that was popped before has left the session the newer one was opened
\* for: lost creations, the race for a name and the owner's deletion never
\* leave one behind.
EditorHasSession ==
    \A d \in Devices :
        editors[d] > 0 /\ client[d].session = None =>
            \/ "failedJoin" \in unseated[d]
            \/ "lateLeave" \in unseated[d] /\ overlapped[d]

\* A user back in the lobby whose client is still in a session was popped
\* because that session has ended; every other way back leaves it.
LobbyLeftSession ==
    \A d \in Devices :
        editors[d] = 0 /\ client[d].session # None => sessions[client[d].session].ended

\* Only a user who goes on while a call is under way gets several editors or
\* alerts on top of each other, or an alert whose editor is gone.
OneThingAtATime ==
    \A d \in Devices : ~overlapped[d] =>
        /\ editors[d] <= 1
        /\ Len(alerts[d]) <= 1
        /\ Cardinality(calls[d]) <= 1
        /\ calls[d] # {} => alerts[d] = <<>>
        /\ running[d]

\* A user who waits for answers joins the group he named, through look-ups and
\* password forms, failed ones included.
JoinsWhatIsAsked ==
    [][\A d \in Devices :
          /\ client'[d] # client[d]
          /\ client'[d].session # None
          /\ ~client'[d].owner
          /\ ~overlapped[d]
          => sessions[client'[d].session].name = asked[d]]_vars

\* The return button of an editor without a session does nothing: leaving
\* fails, and nothing else closes the editor but the end of the process.
NoWayBack ==
    [][\A d \in Devices :
          editors[d] > 0 /\ client[d].session = None /\ running'[d]
          => editors'[d] >= editors[d]]_vars

=============================================================================
