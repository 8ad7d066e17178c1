---------------------------- MODULE EditorScreen ----------------------------
(***************************************************************************)
(* The editor's screen (EECS441P1/ViewController.mm): the insets that keep *)
(* the text above the keyboard, the timer that keeps the caret in sight,   *)
(* and the undo and redo buttons.  One device; an editor that is popped is *)
(* followed by a new one.                                                  *)
(*                                                                         *)
(* UIKit is external.  It tells the editor about the keyboard and the      *)
(* beginning and end of editing in either order, may show the keyboard     *)
(* again with another height without hiding it, and keeps the undo manager *)
(* of the text view, which setText: may empty and shaking the device       *)
(* drives without the buttons.                                             *)
(***************************************************************************)
EXTENDS Integers

CONSTANTS
    Heights,        \* heights of keyboards
    Bar,            \* height of the bar above the keyboard
    MaxInset,       \* bound: largest inset
    MaxUndo,        \* bound: changes the undo manager keeps
    MaxPops         \* bound: editors popped

ASSUME HeightAssumption == Heights \subseteq Nat \ {0} /\ Bar \in Nat
ASSUME ScreenBoundAssumption == MaxInset \in Nat /\ MaxUndo \in Nat /\ MaxPops \in Nat

VARIABLES
    keyboard,       \* height of the keyboard on screen, 0 without
    editing,        \* is the text view first responder
    inset,          \* bottom of contentInset and of scrollIndicatorInsets
    timerValid,     \* is caretVisibilityTimer a valid timer
    timers,         \* timers of this editor in the run loop
    changed,        \* is the text another object than oldText
    undos, redos,   \* what the undo manager can undo and redo
    undoOn, redoOn, \* undoButton.enabled, redoButton.enabled
    kept,           \* popped editors a timer keeps alive
    gone,           \* popped editors freed, still registered for notifications
    crashed,        \* a notification went to a freed editor
    reshown,        \* history: the keyboard was shown while it was on screen
    stray,          \* history: it was shown while the text view was not edited
    retaken,        \* history: oldText was taken in the middle of editing
    shaken          \* history: undone or redone without the buttons

screen == <<keyboard, editing, inset, timerValid, timers>>
buttons == <<changed, undos, redos, undoOn, redoOn>>
former == <<kept, gone, crashed>>
history == <<reshown, stray, retaken, shaken>>
vars == <<screen, buttons, former, history>>

Counts ==
    /\ keyboard \in Nat /\ inset \in Nat
    /\ timers \in Nat
    /\ undos \in Nat /\ redos \in Nat
    /\ kept \in Nat /\ gone \in Nat

Flags ==
    /\ editing \in BOOLEAN /\ timerValid \in BOOLEAN
    /\ changed \in BOOLEAN
    /\ undoOn \in BOOLEAN /\ redoOn \in BOOLEAN
    /\ crashed \in BOOLEAN
    /\ reshown \in BOOLEAN /\ stray \in BOOLEAN
    /\ retaken \in BOOLEAN /\ shaken \in BOOLEAN

TypeOK == Counts /\ Flags

\* viewDidLoad switches both buttons off
Init ==
    /\ keyboard = 0
    /\ editing = FALSE
    /\ inset = 0
    /\ timerValid = FALSE
    /\ timers = 0
    /\ changed = FALSE
    /\ undos = 0 /\ redos = 0
    /\ undoOn = FALSE /\ redoOn = FALSE
    /\ reshown = FALSE /\ stray = FALSE
    /\ retaken = FALSE /\ shaken = FALSE
    /\ kept = 0 /\ gone = 0
    /\ crashed = FALSE

-----------------------------------------------------------------------------
(***************************************************************************)
(* Keyboard and editing.                                                   *)
(***************************************************************************)
\* faulty variant: does not ask whether the timer is still valid
StartAnotherTimer ==
    /\ timerValid' = TRUE
    /\ timers' = timers + 1

StartTimer ==
    /\ timerValid' = TRUE
    /\ timers' = IF timerValid THEN timers ELSE timers + 1

\* every editor popped before is still sent the notification
Notify == crashed' \in IF gone > 0 THEN BOOLEAN ELSE {FALSE}

KeyboardOpened ==
    /\ ~crashed
    /\ \E height \in Heights :
          /\ inset + height + Bar <= MaxInset
          /\ keyboard' = height
          /\ inset' = inset + height + Bar
    /\ StartTimer
    /\ changed' = FALSE
    /\ Notify
    /\ reshown' = (reshown \/ keyboard # 0)
    /\ stray' = (stray \/ ~editing)
    /\ retaken' = (retaken \/ (editing /\ changed))
    /\ UNCHANGED <<editing, undos, redos, undoOn, redoOn, kept, gone, shaken>>

\* faulty variant: the bar is not taken back
KeyboardClosedKeepsBar ==
    /\ ~crashed
    /\ keyboard # 0
    /\ keyboard' = 0
    /\ inset' = inset - keyboard
    /\ Notify
    /\ UNCHANGED <<editing, timerValid, timers, buttons, kept, gone, history>>

KeyboardClosed ==
    /\ ~crashed
    /\ keyboard # 0
    /\ keyboard' = 0
    /\ inset' = inset - keyboard - Bar
    /\ Notify
    /\ UNCHANGED <<editing, timerValid, timers, buttons, kept, gone, history>>

TextViewDidBeginEditing ==
    /\ ~crashed /\ ~editing
    /\ editing' = TRUE
    /\ StartTimer
    /\ changed' = FALSE
    /\ UNCHANGED <<keyboard, inset, undos, redos, undoOn, redoOn, former, history>>

\* faulty variant: the property is cleared and the timer is not
EndEditingKeepsTimer ==
    /\ ~crashed /\ editing
    /\ editing' = FALSE
    /\ timerValid' = FALSE
    /\ stray' = FALSE
    /\ \E differs \in IF changed THEN {TRUE} ELSE BOOLEAN :
          undoOn' = (undoOn \/ (differs /\ undos > 0))
    /\ retaken' = (retaken /\ ~undoOn')
    /\ UNCHANGED <<keyboard, inset, timers, changed, undos, redos, redoOn, former,
                   reshown, shaken>>

\* oldText and text are compared as objects, and oldText is a weak reference:
\* the same text may count as another one
TextViewDidEndEditing ==
    /\ ~crashed /\ editing
    /\ editing' = FALSE
    /\ timerValid' = FALSE
    /\ timers' = IF timerValid THEN timers - 1 ELSE timers
    /\ stray' = FALSE
    /\ \E differs \in IF changed THEN {TRUE} ELSE BOOLEAN :
          undoOn' = (undoOn \/ (differs /\ undos > 0))
    /\ retaken' = (retaken /\ ~undoOn')
    /\ UNCHANGED <<keyboard, inset, changed, undos, redos, redoOn, former,
                   reshown, shaken>>

-----------------------------------------------------------------------------
(***************************************************************************)
(* The undo manager and its buttons.                                       *)
(***************************************************************************)
\* typing adds to the last change or begins a new one
Type ==
    /\ ~crashed /\ editing
    /\ undos' \in {undos, undos + 1} \intersect 1..MaxUndo
    /\ redos' = 0
    /\ changed' = TRUE
    /\ UNCHANGED <<screen, undoOn, redoOn, former, history>>

\* an event gives the view another text, and may empty the undo manager
Merge ==
    /\ ~crashed
    /\ changed' = TRUE
    /\ \/ UNCHANGED <<undos, redos>>
       \/ undos' = 0 /\ redos' = 0
    /\ UNCHANGED <<screen, undoOn, redoOn, former, history>>

UndoOne ==
    /\ undos > 0
    /\ undos' = undos - 1 /\ redos' = redos + 1
    /\ changed' = TRUE

RedoOne ==
    /\ redos > 0
    /\ redos' = redos - 1 /\ undos' = undos + 1
    /\ changed' = TRUE

Undo ==
    /\ ~crashed /\ undoOn
    /\ UndoOne \/ (undos = 0 /\ UNCHANGED <<undos, redos, changed>>)
    /\ undoOn' = (undos' > 0)
    /\ redoOn' = TRUE
    /\ UNCHANGED <<screen, former, history>>

\* faulty variant: redo leaves the undo button alone
RedoOnly ==
    /\ ~crashed /\ redoOn
    /\ RedoOne \/ (redos = 0 /\ UNCHANGED <<undos, redos, changed>>)
    /\ redoOn' = (redos' > 0)
    /\ UNCHANGED <<screen, undoOn, former, history>>

\* faulty variant: does not ask the undo manager first
RedoBlindly ==
    /\ ~crashed /\ redoOn
    /\ redos' = redos - 1 /\ undos' = undos + 1
    /\ changed' = TRUE
    /\ redoOn' = (redos' > 0)
    /\ undoOn' = TRUE
    /\ UNCHANGED <<screen, former, history>>

Redo ==
    /\ ~crashed /\ redoOn
    /\ RedoOne \/ (redos = 0 /\ UNCHANGED <<undos, redos, changed>>)
    /\ redoOn' = (redos' > 0)
    /\ undoOn' = TRUE
    /\ UNCHANGED <<screen, former, history>>

\* the device is shaken: UIKit undoes or redoes, the editor is not told
Shake ==
    /\ ~crashed
    /\ UndoOne \/ RedoOne
    /\ shaken' = TRUE
    /\ UNCHANGED <<screen, undoOn, redoOn, former, reshown, stray, retaken>>

\* the editor is popped, and the user opens another one
Pop ==
    /\ ~crashed
    /\ kept + gone < MaxPops
    /\ keyboard' = 0
    /\ editing' = FALSE
    /\ inset' = 0
    /\ timerValid' = FALSE
    /\ timers' = 0
    /\ changed' = FALSE
    /\ undos' = 0 /\ redos' = 0
    /\ undoOn' = FALSE /\ redoOn' = FALSE
    /\ reshown' = FALSE /\ stray' = FALSE
    /\ retaken' = FALSE /\ shaken' = FALSE
    /\ IF timers > 0 THEN kept' = kept + 1 /\ UNCHANGED gone
                     ELSE gone' = gone + 1 /\ UNCHANGED kept
    /\ UNCHANGED crashed

Next ==
    \/ KeyboardOpened
    \/ KeyboardClosed
    \/ TextViewDidBeginEditing
    \/ TextViewDidEndEditing
    \/ Type
    \/ Merge
    \/ Undo
    \/ Redo
    \/ Shake
    \/ Pop

Spec == Init /\ [][Next]_vars

-----------------------------------------------------------------------------
(***************************************************************************)
(* Properties.                                                             *)
(***************************************************************************)

\* The inset never leaves text below the keyboard, and it is exactly what the
\* keyboard takes, nothing without one, unless the keyboard was shown twice.
InsetBalance ==
    LET needed == IF keyboard = 0 THEN 0 ELSE keyboard + Bar
    IN  /\ inset >= needed
        /\ ~reshown => inset = needed

\* Beginning to edit and the keyboard may come in either order and repeatedly:
\* there is one timer while editing, and one outside it only after a keyboard
\* that opened outside it.
OneTimer ==
    /\ timers = IF timerValid THEN 1 ELSE 0
    /\ editing => timerValid
    /\ timerValid => editing \/ stray

UndoReachable ==
    ~editing /\ undos > 0 /\ ~undoOn => retaken \/ shaken

RedoReachable ==
    redos > 0 /\ ~redoOn => shaken

\* What can be undone after editing can be undone with the button, unless oldText
\* was replaced while editing or the change did not come through the buttons; what
\* can be redone can be redone with the button, unless the device was shaken.
ButtonsReach == UndoReachable /\ RedoReachable

\* An editor outlives its screen only if it is popped while it is edited, or
\* after a keyboard that opened outside editing.
KeptOnlyByEditing ==
    [][kept' > kept => editing \/ stray]_vars

=============================================================================
