# WeWrite, the EVO editor: models, checks and proofs

WeWrite (`EECS441P1/`) is an iOS text editor that several devices share through
the Collabrify service. This directory holds TLA+ modules translated from its
sources, TLC configurations that check them on small instances, and proofs that
TLAPS checks for every instance. Paths below are relative to the repository.

## 1. The system

| part | source | state | operations |
|---|---|---|---|
| Shared editor | `EECS441P1/ViewController.mm` | text of `myTextView` and its caret, `sideString`, `BRCounter`, `textSize` | `viewDidLoad`, `textViewDidChange:`, `sendBroadcastInsert`, `sendBroadcastDelete`, `client:receivedEventWithOrderID:...` and the block it queues, `insertMain/Side`, `deleteMain/Side` |
| Lobby | `ViewController2.mm` | `client`, `session`, the alerts on screen, calls under way | create, list, join, password, segue to the editor |
| Leaving | `ViewController.mm:83-110, 187, 255-269, 323-331` | the client's session, the navigation stack | leave, leave and delete, pop |
| Undo and redo buttons | `ViewController.mm:232-287` | enabled flags against the undo manager | `undo:`, `redo:`, end of editing |
| Keyboard and caret | `ViewController.mm:112-156, 222-243, 295-321` | insets, `caretVisibilityTimer`, `oldRect` | notifications, timer |
| Message | `EECS441P1/EVO.proto`, `EVO.pb.*` (generated) | `cursorLocation`, `contentModified`, `numChars`, presence bits, unknown fields | set, clear, serialize, parse |
| Coded input | `Google Protocol Buffers/.../io/coded_stream.*` | buffer, two kinds of limits, bytes put aside | read, skip, expect, push and pop limits, destroy |
| Lazy start | `.../stubs/once.*`, `stubs/common.cc`, `message.cc`, `descriptor.cc`, `EVO.pb.mm:30-98` | once flags, mutexes, tables | `GoogleOnceInit`, `GetMetadata`, `GetPrototype`, static initialisers |
| Collabrify service and client library | headers in `Collabrify.framework` only | sessions, ordered events, submissions, whether events are paused | list, create, join, leave, `broadcast:eventType:`, delivery, `resumeEvents`, `currentSessionHasEnded` |
| Application start | `main.m`, `AppDelegate.m` | none | empty template methods |

Not built or never called: `textChangePB.*`, `test.cpp`, `EECS441P1/ViewController2.*`,
`pbWorker` (built, unused), `sendBroadcastUndoRedo` (no caller). Vendored:
`Google Protocol Buffers/`, of which the message and its parser use the two parts
in the table. The only unit test is the template's `STFail`.

**How they interact.** A change of the text view happens first; UIKit then calls
`textViewDidChange:` on the main thread, which counts `BRCounter` up and calls
`broadcast:`. The library submits the message; the service gives it the next
order id; the library of every device, the sender's included, calls the delegate
with every event in order, *on a thread of its own*. The handler queues a block
on the main queue, and there the blocks interleave with further edits. An event
that this client sent carries its registration id, all others carry -1.

**The algorithm** is stated as "EVO ALGO", `ViewController.mm:509-521`: local
changes show at once; a counter holds the own broadcasts that are not back yet;
while it is above 0 the events of others go to `sideString` only; at 0 the view
becomes `sideString` again. No operation is transformed: places in messages are
absolute offsets.

The lobby's alerts call the client library, whose completion handlers run on the
main thread some time later, when another walk through the alerts may be under
way. The editor's screen is driven by notifications of UIKit and a timer. A
message is serialized before `broadcast:` and parsed in the receive handler, by
the generated class, through a coded input over the event's bytes; the first use
of the class makes its tables, from whichever thread comes first.

**What is hard**: the interleaving of edits with queued blocks; counting that has
to survive failed broadcasts, restarts and the end of the session; offsets that
are stale when they are applied; exceptions that nothing catches; events that
arrive before there is an editor; answers that come late or not at all; limits,
buffers and ends of input that coincide; closures that wait for each other.
`PROJECT.json` lists the hazards line by line.

**What makes the editor correct**: the counter is exactly what is under way;
with nothing under way the user sees the ordered copy; equal numbers of
processed events mean equal copies; what the user is typing is not changed under
him; when typing stops all agree. **The lobby**: an editor has a session, a lobby
has none, and the session joined is the one asked for. **The screen**: insets and
timers come and go in pairs, the buttons follow the undo manager. **The message
and its parser**: what is sent is what is received, and nothing is read past a
limit. **The start**: everything is made once, before it is used, and nobody waits
for ever.

## 2. Modules

| module | models |
|---|---|
| `TextOps` | the four edit methods as functions on sequences of UTF-16 units, and when an `NSString` index raises |
| `EvoEditor` | editors, service, library, restarts, end of session; the properties |
| `SharedDocument` | what the editor promises, without messages or counters |
| `EvoSharedDocument` | the mapping of `EvoEditor` onto `SharedDocument` |
| `EvoClaims` | what comments say and the code does not do |
| `Lobby` | the way into a session and out of it, on several devices |
| `EditorScreen` | insets, timer, undo and redo buttons |
| `TextChangeMessage` | the generated message class, its encoder and parser |
| `ByteReader` | what a coded input promises, without buffers |
| `CodedInput` | `CodedInputStream`; refines `ByteReader` |
| `LibraryStart` | what the generated file makes on first use, by several threads |
| `MC...` | constants for TLC |
| `...Proofs` | the proofs: `TextOps`, `EvoEditor`, `EvoSharedDocument`, `Lobby`, `EditorScreen`, `TextChangeMessage`, `CodedInput`, `LibraryStart` |

### State and actions of EvoEditor

| model | code |
|---|---|
| `myText`, `caret` | `myTextView.text`, `myTextView.selectedRange.location` |
| `sideString`, `BRCounter`, `textSize` | the properties of the same names |
| `log`, `pending`, `ended` | the service: ordered events, submitted ones, a deleted session |
| `received`, `executed` | events handed to the delegate; those whose block has run. The events in between are the main queue |
| `missed` | events the lobby, which has no receive method, ignored |
| `phase`, `life` | which view controller a device is in, or how its process ended; which run of the application it is |
| `edits`, `failed`, `versions` | history: edits so far, failed broadcasts, the text after each event |

| action | code |
|---|---|
| `OpenEditor` | `viewDidLoad`: `textSize`, `sideString`, `BRCounter`, then `resumeEvents` |
| `UserEdit` | UIKit replaces up to `MaxSelect` units by one of `Inputs`, then the whole of `textViewDidChange:`: pop when the session has ended, choice of insert or delete by `textSize`, count up, broadcast, new `textSize`. One main-thread step, as nothing else runs on that thread meanwhile. `ChangeRaises`: `characterAtIndex:` before the first unit, or `UTF8String` of half a surrogate pair |
| `Accepted`, `Refused` | the two results of `broadcast:`; -1 is ignored by the code, and is certain once the session has ended |
| `Order`, `Lose` | the service takes a submission; a process that is gone may take unsent ones with it |
| `Deliver` | the library's call of the delegate; before the editor exists only for a client that is not paused, that is the creator |
| `RunBlock` | the queued block, as one main-thread step: `OwnEvent` (lines 356-410), `OtherEvent` (411-438), or an `NSRangeException` that ends the process |
| `Kill`, `Relaunch` | iOS ends the application; a new run joins and gets every event from the first on |
| `EndSession` | the owner confirms the deletion of the group |

Left out because nothing reads it back: `sideCursorLoc`, the view controller's own
`selectedRange` (its stale value is why the caret does not move, line 600). A message's text is a sequence of units; only its length and its
re-decoding matter: `Decode` is what `stringWithCString:encoding:` with the
*default C string encoding* makes of the UTF-8 of a unit.

The service is external. Assumed of it: one order, delivery of every event in
that order to every joined client that is not paused, the sender's registration
id on its own events, -1 for everything else, and that a new run of the
application is a new client. `InOrder` says whether it keeps the order of one
device's submissions; no property needs it, so the passing runs do without
(`FALSE`), and the refuted claims do not depend on reordering (`TRUE`).

### State and actions of Lobby

| model | code |
|---|---|
| `sessions` | the service: every session created, with its name, whether it has a password, whether it has ended |
| `client` | the library: the session the client is in and whether its user is the owner |
| `calls` | calls of the library whose completion handler has not run; `popped` if the editor that the handler keeps is on no stack any more |
| `found` | `session` of the lobby: the last group looked up |
| `alerts`, `editors` | the alerts on screen, the view controllers above the lobby |
| `asked`, `unseated`, `overlapped` | history: the group named, how an editor may have come to lack a session (`failedJoin`, `lateLeave`), whether the user went on before an answer |

| action | code |
|---|---|
| `PressLobbyButton`, `Answer...` | the buttons of the lobby and the branches of `alertView:clickedButtonAtIndex:` of both view controllers; a blank name to join is looked up like any other |
| `NameIsFree`, `NameIsTaken`, `Created`, `NotCreated` | the completion handlers of a creation; a lost list counts as "taken" since `indexOfObjectPassingTest:` of nil is 0 |
| `GroupFound`, `GroupNotFound`, `GroupLookupLost`, `Joined`, `BadPassword`, `NotJoined` | those of a join; a lost list sets `session` to nil and joins it; every error but a wrong password opens the editor |
| `PressBack`, `Left`, `NotLeft`, `TypeAfterEnd` | `segueBack:` and its handlers, the pop in `textViewDidChange:` |
| `PopToRoot`, `PopIfThere` | `popToRootViewControllerAnimated:`, sent to the navigation controller of the handler's own editor, which is nil once that editor was popped |
| `AnswerOrphan`, `CrashOnOrphan` | the answer to an alert whose delegate, not retained, has been popped: it is still there (its timer keeps it) and leaves late, it is gone and nothing or a crash follows, or its memory is a newer editor's |

The answer of the service and the completion handler are one step: handlers look
at nothing but the answer, and between the two only other devices could tell the
difference, for whom the call is then simply later. The service is assumed to
refuse a name that a live session has (`CollabrifyClient.h`: "Needs to be
unique"), to carry out one session action of a client at a time, and may refuse
anything for reasons of its own (`CollabrifyError.h`). `Hasty` are the devices
whose user presses buttons before an answer. Restarts are in `EvoEditor`; here a
process ends only by the orphaned alert.

### State and actions of EditorScreen

| model | code |
|---|---|
| `keyboard`, `editing` | what UIKit shows; the text view is first responder |
| `inset` | bottom of `contentInset` and `scrollIndicatorInsets`, which change together |
| `timerValid`, `timers` | `caretVisibilityTimer`; timers in the run loop that target this editor |
| `changed` | `oldText` and `myTextView.text` are two objects |
| `undos`, `redos`, `undoOn`, `redoOn` | the undo manager, the two buttons |
| `kept`, `gone`, `crashed` | popped editors a timer retains; freed ones still registered for notifications; one was sent one |
| `reshown`, `stray`, `retaken`, `shaken` | history: the exceptions the properties name |

`KeyboardOpened`, `KeyboardClosed`, `TextViewDidBeginEditing`,
`TextViewDidEndEditing`, `Undo` and `Redo` are the methods of these names; `Type`,
`Merge`, `Shake` and `Pop` are what UIKit and the rest of the editor do to their
state. UIKit is assumed to show the keyboard and begin editing in either order, to
show it again with another height without hiding it, and to hide the one it shows.

### State and actions of TextChangeMessage

`msg` is the object, with its presence bits `has` and its `unknown` fields; `wire`
the encoding being parsed, a sequence of fields; `at` the fields read; `stage`
where `MergePartialFromCodedStream` stands: at the head of its loop, in the
switch, or in a case it jumped into after `ExpectTag`. A field has its number,
wire type and value, and where its bytes run out, if they do (`cut`). The loop ends
at a tag of 0, which is number 0 as a varint (`IsZeroTag`); a field of number 0 of
another wire type is kept like any unknown one, as `SkipField` does not look at the
number. `SetField`
is any accessor, `Parse` is `ParseFromArray` into an object that may have been
used, `ReadTag`, `ReadValue` and `HandleUninterpreted` are the loop, the three
cases and the default branch. A parse that fails part-way leaves what it left: a
bit is set before its string is read. Bytes of a field are below this module;
`CodedInput` has them.

### State and actions of CodedInput

The variables are the members of `CodedInputStream` (named beside each) and of its
input: the bytes given so far, how far it may be backed up, whether it failed. A
pointer is the offset of the byte it points at. A byte is its continuation bit: a
varint is all the reader interprets. A call is `Ask`ed, takes one step for each
refill of the buffer and each byte of the slow path, and is answered; calls that
never refill are one step. `RefreshGets`, `RefreshStops`, `RefreshMeetsEnd` and
`RefreshCallsNull` are the outcomes of `Refresh`, the size of the next buffer
being the input's choice. `TypeOK` bounds every counter by `IntMax`, which is
small, so that arithmetic near `INT_MAX` happens.

The client is assumed to keep the rules of `coded_stream.h`: it pops the limits it
pushed, the last first, only destroys a reader one of whose reads failed, and
does not raise the total limit between the end of a message and its check
(`legitimate_message_end_` would be stale). `last_tag_`, the recursion depth and
`GetDirectBufferPointerInline` are left out: they guard or change nothing here.

`ByteReader` is the same reader without buffers: a position, limits and a sequence
of bytes. A read either moves past exactly its bytes, or fails because they are
not there; the end of a message is announced only at a limit or the end of the
input. The mapping takes a call to happen at its answer.

### State and actions of LibraryStart

Straight-line code is a *program*, a sequence of instructions (`once`, `lock`,
`unlock`, `make`, `unless`); `AddDesc`, `AssignDesc`, `GetPrototype` and the others
are the functions of these names. A thread is a stack of frames, each at an
instruction of its program. `Load`, `Swap`, `Wait`, `Store` are the steps of
`GoogleOnceInit`, so that threads interleave between them. `made` counts how often
each table, registration or cleanup was made. The static initialisers run first,
on the main thread, in one of two orders: this file's own, or after another file's
initialiser asked for the descriptor. Memory is sequentially consistent (the code
uses acquire loads and release stores); the two loads at the start of
`GoogleOnceInit` and `GoogleOnceInitImpl` are one; the list of files that could not
be found is left out, as this file is registered before anyone looks for it.

Definitions called "faulty variant" are used by no action: each is the
definition after it with a plausible bug. `PROJECT.json` says which property
notices which of them; they show that the properties can fail.

## 3. What TLC checks

`CHECK_DEADLOCK FALSE` everywhere: what users and devices do is bounded, so every
behaviour may come to rest. Where nothing may rest, a liveness property says so.

| run | bounds | shows | states |
|---|---|---|---|
| `EvoEdits` | 2 devices, 3 edits, pastes, 1 failed broadcast each | the view against the ordered copy, and that blocks leave a text under edit alone | 957,636 |
| `EvoRestarts` | 2 devices, 3 edits, 1 failure, 1 restart each, session may end | the counter, convergence and crashes over runs; `EvoEditor` implements `SharedDocument` | 2,279,363 |
| `EvoSettles` | 2 devices, 2 edits, letters that decode to two, emoji, 1 restart each, session may end, no failures, fairness | in the end every view is the text of the session, even when that is not what was typed | 258,064 |
| `LobbyPatient` | 2 devices, one user hasty, 2 names, at most 2 calls under way (both may be of the hasty one), 1 session; names and slots symmetric | the properties of the lobby | 1,290,149 |
| `EditorScreens` | 2 keyboard heights, insets to 9, 2 undos, 2 popped editors | the properties of the screen | 49,428 |
| `TextChangeMessages` | encodings of up to 2 fields, 2 values each, unknown, malformed and cut fields, number 0 in every wire type; any message with its own encoding, fairness | the parser reads what it should, jumps or not, and a message comes back as it was | 36,965 |
| `CodedInputs` | 5 inputs of up to 7 bytes in buffers of up to 3, `INT_MAX` 6, total limit 5, varints to 3 bytes, 2 limits put aside, failing inputs, fairness | `CodedInput` implements `ByteReader`, stays in bounds, and answers | 285,554 |
| `LibraryStarts` | 3 threads, 2 calls each, both orders of the static initialisers, fairness | things are made once, before they are used; no deadlock | 82,720 |

Properties of the shared editor:

* `CounterAccounting`: `BRCounter` = own submissions + own unprocessed events + failures.
* `QuiescentAgreement`: counter 0 implies view = `sideString`.
* `TextSizeWhileCounting`: `textSize` is right while the counter is above 0.
* `Convergence`: same number of processed events, same `sideString`.
* `CrashIsCommon`: nobody gets past an event that raised on somebody else.
* `NoChangeWhileOwnUnderWay` (action): a block that leaves own broadcasts under way does not touch the view.
* `SharedSpec` (refinement): each joined device goes through the one sequence of
  texts without skipping; its view is the copy unless own changes are under way.
* `EventualAgreement` (liveness): in the end counter 0 and view = the session's text.

Of the lobby:

* `EditorHasSession`: an editor without a session comes from a failed join, or from the
  late leave of an editor that was popped before, which takes the client out of the
  session and cannot pop the newer editor; the latter only if the user did not wait.
  That either leaves an editor behind is a flaw of the code; nothing else does.
* `LobbyLeftSession`: a client that is in a session while its user is in the lobby
  was popped because that session had ended.
* `OneThingAtATime`: a user who waits for answers has one alert, call or editor.
* `JoinsWhatIsAsked` (action): such a user joins the group he named. A hasty one may not:
  `found` is shared by the walks, and the exception is necessary.
* `NoWayBack` (action): an editor without a session is not closed by its button.

Of the screen: `InsetBalance`, `OneTimer`, `ButtonsReach` and
`KeptOnlyByEditing` (action). Each names the exceptions TLC found necessary:
a keyboard shown twice, one shown outside editing, `oldText` taken in the middle of
editing, a shaken device.

Of the message: `DefaultUnlessPresent` (a field without its bit is the default, also
after a parse that failed), `MeansWhatWasRead` (with or without jumps, the message
holds the last value read of each field and everything else in its order),
`AcceptedIsWhole` (action: nothing cut short is accepted), `RoundTrip` (action: the parse
of a serialized message is accepted and yields that message), `ParseEnds` (liveness).

Of the coded input: `InputInStep`, `WithinLimits`, `BackUpAllowed`, `FlatNeedsNoInput`,
`ReadsAsPromised` (refinement of `ByteReader`), `CallsEnd` (liveness).

Of the start: `OneRunner` and `ReadyOnReturn` (the two promises of `stubs/once.h`),
`MadeOnce`, `NeedsThere`, `NoCircle` (threads that cannot go on never wait for nobody but
each other, nor for one that is gone), `CallsReturn` (liveness).

**Why the bounds are enough.** The protocol's cases need: one own event while
others' are queued, two own events under way with one of another between them,
an edit after an echo (stale `textSize`), and two concurrent deletions. Three
edits give all of them. The claims below are refuted within three or four edits, so
the interesting cases do occur within the bounds. A text has at most three or so
units, enough for the start, middle and end branches of every edit method. What
three edits do not reach is the raise in `characterAtIndex:` (`ChangeRaises` with
a caret at 0): it takes a device that was two merges behind. The proofs have no such bound.
In the lobby two calls of one device give every overlap of two walks, and two
names a group that is not the one asked for; one session suffices, as a second one
only adds another wrong group. Two fields give every pair the parser may guess about.
In the coded input, buffers are smaller and larger than varints, limits and the
distance to `INT_MAX`. Three threads give one that runs a closure, one that waits and
one that comes late.

**Fairness.** `EvoSettles`: weak fairness of `Order` (the service is alive),
`OpenEditor` (a segue completes), `Deliver` (the library's thread runs) and
`RunBlock` (the main queue is served); none for edits, `Kill`, `Lose`, `Relaunch` or
`EndSession`; `MaxFailures = 0`, since with failures the property is false, which is
`ClaimCounterIsUnderWay`. `CodedInputs` and `TextChangeMessages`: a call that has been
made is carried on (`ReadStep`, `ParseStep`), which is a thread running sequential
code over an input that answers. `LibraryStarts`: each thread that can take a step
takes one, which the scheduler of the system gives; none for the calls.

**Claims the code does not keep.** Each `Claim...` run checks one statement of the
source and TLC finds the counterexample:

| run | statement | what happens |
|---|---|---|
| `ClaimTextSizeIsFormerSize` | `:162`, `:186` | the echo replaces the text and not `textSize` (line 400 is commented out) |
| `ClaimCounterIsUnderWay` | `:514` | a failed broadcast stays counted for ever |
| `ClaimBroadcastsAreNormal` | `:517` | two devices delete the same unit: the second deletion comes to a device with a counter of 0 and raises `NSRangeException` (`:613`), as it does on every other |
| `ClaimEchoKeepsText` | `:554` | the first of two units is replaced, which is sent as a deletion of none (`:209`); at its echo "Delete is at end" is off by one and drops the last unit |

Other disagreements are visible in the modules and need no run: a paste is sent as
its last unit (`EVO.proto:9`); an event delivered while the creator is still in the
lobby reaches neither text (`ViewController.mm:517`); a reader of an array does not
look at the total limit (`coded_stream.h:491`), and `ExpectAtEnd` takes the total
limit for an end (`coded_stream.cc:369` says that it is none).

## 4. What is proved

### The shared editor

From the assumptions named in `EvoEditor` (a creator among the clients, texts
over `Char`, natural bounds), for any number of devices, any letters, inputs and
bounds, with restarts, failures and lost submissions:

| theorem | states |
|---|---|
| `SpliceType`, `SpliceUnit`, `InsertTextType`, `InsertTextUnit`, `DeleteTextProperties` | what the edit methods return, unit by unit for an insertion |
| `TypeCorrect` | `Spec => []TypeOK` |
| `CounterAccountingHolds` | `Spec => []CounterAccounting` |
| `QuiescentAgreementHolds`, `TextSizeWhileCountingHolds` | the two invariants of the view |
| `ConvergenceHolds`, `CrashIsCommonHolds` | the two invariants between devices |
| `NoChangeWhileOwnUnderWayHolds` | the action property |
| `SharedSpecHolds` | `Spec => SharedSpec`, the refinement |

The inductive invariant is built in layers, each using the ones before:

1. `TypeInv`: `TypeOK`, insertions carry one encodable unit (else `TextOf` is
   undefined), message numbers are not in the future, and
   `missed <= executed <= received <= Len(log)`, `Len(versions) = Len(log) + 1`,
   without which the block could read past the log.
2. `CountInv`: every message comes from this or an earlier run of its sender
   (`Past`), the submissions are finite, a device that has not opened its editor
   has no failures, and the balance for every open editor. `Past` is why a new
   run owns nothing, so that a counter of 0 is right when its editor opens; the
   numbering makes a new message new, so that the cardinality grows.
3. `ViewInv`: the two invariants of the view together. It needs from layer 2 that
   the counter of an open editor is not negative.
4. `SideInv`: `versions` is the fold of the log (`Chain`); `sideString` is the
   version after the processed events; all processed events fitted; a crashed
   device stands before an event that does not fit. That the *view* raising
   implies that `sideString` does too is layer 3.
5. `EntryInv`: counter 0 before the editor opens, nothing missed by joined
   devices. With the rest it maps every step to a step of `SharedDocument` or to
   a stutter.

### The lobby

From the assumptions of `Lobby` (`NoName` is not a name, finitely many slots), for
any devices, hasty or not, any names, calls and sessions:

| theorem | states |
|---|---|
| `LobbyTypeCorrect` | `Spec => []TypeOK` |
| `EditorsHaveSessions`, `LobbyHasLeft`, `WaitingKeepsOrder` | the three invariants |
| `WaitingJoinsWhatIsAsked`, `NoWayBackHolds` | the two action properties |

The inductive invariant is `TypeOK` and, for each device, `DeviceInv`: `Placed` (the
sessions the client and the lobby refer to exist), `OneAction` (at most one session
action has been accepted, a create or join only outside a session, a leave only
inside one), `EditorInv` (`EditorHasSession` and `LobbyLeftSession`), and, while the
user waits, `Walk`: where in his walk through alerts, calls and the editor he is, with
the group he asked for, and that a popped editor's call is under way only while there is
no other editor. `OneThingAtATime` alone is not inductive:
it does not say that the one call on its way carries the group asked for, nor that an
editor and a call to create another cannot be there together.

### The screen

For any heights and bounds:

| theorem | states |
|---|---|
| `ScreenTypeCorrect` | `Spec => []TypeOK` |
| `ScreenBalanced`, `OneTimerHolds` | `InsetBalance`, `OneTimer` |
| `ButtonsReachHolds` | `ButtonsReach` |
| `KeptOnlyByEditingHolds` | the action property |

That the inset is a natural number needs the balance, and that the number of timers is
one needs `OneTimer`, so `TypeOK` and these two are one invariant (`ScreenInv`).
`ButtonsReach` says nothing of the undo button in the middle of editing; `UndoPending` does:
what cannot be undone yet is what the end of editing will find changed (`ButtonInv`).

### The message

From `TextChangeMessageAssumption` (the defaults are values, what is left of a string cut
short is none, encodings that arrive are encodings), for any values and any encodings of
any length:

| theorem | states |
|---|---|
| `MessageTypes` | `Spec => []TypeOK`: a jump reads only a field that is there and was expected |
| `DefaultsShow`, `ReadMeansWhatItSays` | `DefaultUnlessPresent`, `MeansWhatWasRead` |
| `OnlyWholeAccepted`, `WhatIsSentIsRead` | the action properties `AcceptedIsWhole`, `RoundTrip` |

The inductive invariant `MessageInv` has five parts. `StageInv`: where the parser stands,
and that a jump goes to the field whose tag was guessed. `MessageOK`: the defaults, and
that nothing kept aside is a field of this version, without which a message would not
be read back as it was. `WholeInv`: everything read was whole. `MeansWhatWasRead` itself:
fields kept aside are related to the encoding by the places they were read at, a witness
that grows with each of them, so that no induction over the encoding is needed.
`SentInv`: the encoding of a sent message is known field by field (`Encodes`), and what
has been built is what its first `at` fields say (`IsReadTo`).

### The coded input

For any inputs, cut into buffers in any way, any sizes and limits, *if flat arrays are
not longer than the default total limit* (`MaxFlat <= DefaultTotal`, 64 MB in the
code; the constructor does not look at that limit, and without the hypothesis a
reader may stand past it):

| theorem | states |
|---|---|
| `ReaderTypeCorrect` | `TypeOK`: no counter leaves the ints |
| `StaysInStep`, `StaysWithinLimits` | `InputInStep`, `WithinLimits` |
| `BacksUpLastBuffer`, `FlatIsNeverRefilled` | `BackUpAllowed`, `FlatNeedsNoInput` |
| `ImplementsByteReader` | `ReadsAsPromised`, the refinement of `ByteReader` |

The inductive invariant relates the counters: `BufferInv` (what lies beyond the nearest
limit and nothing else is put aside; the buffer starts at the current position),
`ChunkInv` (what has not been read comes from the last buffer), `FlatInv` (no limit
is beyond the end of an array), `LimitsInv` (limits put aside are not nearer than the
current one) and `CallInv` (only an open reader is at work). The state of the buffer
changes by a few moves (consume, a buffer comes, none comes, limits move, skip, hand
back); each move has a lemma, each action is one of them.

The refinement needs to know more of the call under way, `PlaceInv`: how much of what
was asked has been consumed, and on the slow path that all of it goes on (`CallPlace`);
that nothing can be read behind an end that was announced (`EndPlace`); where a failed
reader leaves its input (`FailedPlace`). With it each step of the code is one step of
`ByteReader`, at the answer of the call, or none.

### The start

For any number of threads (`Main` is one of them) and of calls, either order of the
static initialisers:

| theorem | states |
|---|---|
| `StartTypes` | `TypeOK`: nothing recurses, so that no stack is deeper than the closures are many |
| `OneRunnerHolds`, `ReadyOnReturnHolds` | the two promises of `stubs/once.h` |
| `NeedsThereHolds`, `MadeOnceHolds` | `NeedsThere`, `MadeOnce` |
| `NoCircleHolds` | `NoCircle`: no deadlock, of all threads or of some |

The model builds the programs by concatenation, the proofs need them by index: they are
first shown to be explicit lists (`ProgramFacts`). Then, in layers:

1. `TypeInv`: ranks fall strictly up a stack (`Stands`), as a closure asks only for
   closures of a lower rank. This is the reason that nothing recurses.
2. `RunInv`: a state of `EXECUTING_CLOSURE` belongs to exactly one thread, and nobody waits
   for a closure that has not been begun.
3. `FactInv`: a closure whose state is `DONE` is `Finished`, and each frame's place says
   what has been done before it. The block of `AddDesc` is the exception: `already_here` is
   set before the work is done, so that a caller may skip work that is still under way.
   It is safe because only the thread of the static initialisers is there meanwhile
   (`Starting`), the nested caller included.
4. `MadeInv`: who alone can make a thing. What belongs to a closure is not there while
   its state is `UNINITIALIZED` or its frame has not come to the place (`OwnInv`); what
   belongs to the block is made by the main thread, in its order (`BlockInv`); the file
   and the type are not there while a thread that has looked for them still
   holds the mutex (`LockInv`).

`NoCircle` needs the first two layers and `HoldInv`: a mutex that is held has a frame of
its holder between its lock and its unlock. What a thread can wait for has a `Level`:
0 for the mutexes of the pool and of the shutdown list, under which nothing is waited for;
1 to 3 for the closures, by rank; 4 for the mutex of the factory, under which `GetPrototype`
runs closures. Whoever is waited for can go on or waits for a lower level, so that of any
set of waiting threads the one at the lowest level waits for a thread outside it.

### Only model-checked

`EventualAgreement`, `CallsEnd`, `ParseEnds` and `CallsReturn`: liveness under fairness is
out of the prover's reach. Every invariant, every action property and both refinements
of the passing runs are theorems; only those about the coded input have a hypothesis
besides the assumptions of their module, the one on flat arrays.

## 5. Not modelled

* Most of the vendored Protocol Buffers (descriptors and their builder, reflection,
  text format, extensions, code for `.proto` files, string utilities). It is over nine
  tenths of the lines in the repository, and the application uses none of it: it sets
  and reads fields, serializes and parses. The parts on that path whose state is hard
  to get right are `TextChangeMessage`, `CodedInput` and `LibraryStart`.
* `CodedOutputStream` and `ByteSize`: what is written is `Serialize`.
* `ShutdownProtobufLibrary`: nothing calls it.
* `scrollCaretToVisible` and everything else that only lays out.
* `sideCursorLoc`, `pbWorker`, `textChangePB`, the application delegate: nothing reads
  them, calls them or builds them, or they are empty.
* Base files, participants, background tasks of the Collabrify library: not used.

What could be added: a history of what each user typed, so that the edits that are
lost at their echo (`ViewController.mm:209`) are counted rather than only shown by
`ClaimEchoKeepsText`; the crash of a new run that finds a session whose log raises,
as a liveness question.
