------------------------- MODULE EditorScreenProofs -------------------------
(***************************************************************************)
(* Proofs of the properties of EditorScreen, for any keyboards and bounds. *)
(*                                                                         *)
(* ScreenInv is inductive: that the inset stays a natural number needs the *)
(* balance, and that the number of timers does needs OneTimer.  ButtonInv  *)
(* adds what holds of the undo button in the middle of editing.            *)
(***************************************************************************)
EXTENDS EditorScreen, TLAPS

ScreenInv == TypeOK /\ InsetBalance /\ OneTimer

(* While the text is edited, what can be undone without a button is what   *)
(* the end of editing will find changed, unless oldText was replaced.      *)
UndoPending ==
    undos > 0 /\ ~undoOn => retaken \/ shaken \/ (editing /\ changed)

ButtonInv == UndoPending /\ RedoReachable

(* The first editor has no keyboard, no timer and both buttons off.        *)
LEMMA InitScreen == Init => ScreenInv /\ ButtonInv
<1> SUFFICES ASSUME Init PROVE ScreenInv /\ ButtonInv
  OBVIOUS
<1>1. Counts
  BY DEF Init, Counts
<1>2. Flags
  BY DEF Init, Flags
<1>3. InsetBalance /\ OneTimer
  BY DEF Init, InsetBalance, OneTimer
<1>4. ButtonInv
  BY DEF Init, ButtonInv, UndoPending, RedoReachable
<1> QED
  BY <1>1, <1>2, <1>3, <1>4 DEF ScreenInv, TypeOK

(* The flags stay flags.                                                   *)
LEMMA FlagsStep == TypeOK /\ [Next]_vars => Flags'
<1> SUFFICES ASSUME TypeOK, [Next]_vars PROVE Flags'
  OBVIOUS
<1> USE DEF TypeOK, Flags
<1>1. CASE KeyboardOpened
  BY <1>1 DEF KeyboardOpened, StartTimer, Notify
<1>2. CASE KeyboardClosed
  BY <1>2 DEF KeyboardClosed, Notify, buttons, history
<1>3. CASE TextViewDidBeginEditing
  BY <1>3 DEF TextViewDidBeginEditing, StartTimer, former, history
<1>4. CASE TextViewDidEndEditing
  BY <1>4 DEF TextViewDidEndEditing, former
<1>5. CASE Type
  BY <1>5 DEF Type, screen, former, history
<1>6. CASE Merge
  BY <1>6 DEF Merge, screen, former, history
<1>7. CASE Undo
  <2>1. undos \in Nat /\ redos \in Nat /\ changed' \in BOOLEAN
    BY <1>7 DEF Undo, UndoOne, Counts
  <2>2. (undos' > 0) \in BOOLEAN /\ (redos' > 0) \in BOOLEAN
    OBVIOUS
  <2>3. undoOn' \in BOOLEAN /\ redoOn' \in BOOLEAN
    BY <1>7, <2>2 DEF Undo
  <2> QED
    BY <1>7, <2>1, <2>3 DEF Undo, screen, former, history
<1>8. CASE Redo
  <2>1. undos \in Nat /\ redos \in Nat /\ changed' \in BOOLEAN
    BY <1>8 DEF Redo, RedoOne, Counts
  <2>2. (undos' > 0) \in BOOLEAN /\ (redos' > 0) \in BOOLEAN
    OBVIOUS
  <2>3. undoOn' \in BOOLEAN /\ redoOn' \in BOOLEAN
    BY <1>8, <2>2 DEF Redo
  <2> QED
    BY <1>8, <2>1, <2>3 DEF Redo, screen, former, history
<1>9. CASE Shake
  BY <1>9 DEF Shake, UndoOne, RedoOne, screen, former
<1>10. CASE Pop
  BY <1>10 DEF Pop
<1>11. CASE UNCHANGED vars
  BY <1>11 DEF vars, screen, buttons, former, history
<1> QED
  BY <1>1, <1>2, <1>3, <1>4, <1>5, <1>6, <1>7, <1>8, <1>9, <1>10, <1>11 DEF Next

(* Nothing is counted below zero: what is taken back was added before.     *)
LEMMA CountsStep == ScreenInv /\ [Next]_vars => Counts'
<1> SUFFICES ASSUME ScreenInv, [Next]_vars PROVE Counts'
  OBVIOUS
<1> USE HeightAssumption, ScreenBoundAssumption DEF ScreenInv, Counts, TypeOK, OneTimer, InsetBalance
<1>1. CASE KeyboardOpened
  BY <1>1 DEF KeyboardOpened, StartTimer
<1>2. CASE KeyboardClosed
  BY <1>2 DEF KeyboardClosed, buttons
<1>3. CASE TextViewDidBeginEditing
  BY <1>3 DEF TextViewDidBeginEditing, StartTimer, former
<1>4. CASE TextViewDidEndEditing
  BY <1>4 DEF TextViewDidEndEditing, former
<1>5. CASE Type
  BY <1>5 DEF Type, screen, former
<1>6. CASE Merge
  BY <1>6 DEF Merge, screen, former
<1>7. CASE Undo
  BY <1>7 DEF Undo, UndoOne, screen, former
<1>8. CASE Redo
  BY <1>8 DEF Redo, RedoOne, screen, former
<1>9. CASE Shake
  BY <1>9 DEF Shake, UndoOne, RedoOne, screen, former
<1>10. CASE Pop
  BY <1>10 DEF Pop
<1>11. CASE UNCHANGED vars
  BY <1>11 DEF vars, screen, buttons, former, history
<1> QED
  BY <1>1, <1>2, <1>3, <1>4, <1>5, <1>6, <1>7, <1>8, <1>9, <1>10, <1>11 DEF Next

(* The keyboard is given its room and gives it back.                       *)
LEMMA BalanceStep == TypeOK /\ InsetBalance /\ [Next]_vars => InsetBalance'
<1> SUFFICES ASSUME TypeOK, InsetBalance, [Next]_vars PROVE InsetBalance'
  OBVIOUS
<1> USE HeightAssumption DEF Counts, Flags, TypeOK, InsetBalance
<1>1. CASE KeyboardOpened
  <2>1. PICK height \in Heights : keyboard' = height /\ inset' = inset + height + Bar
    BY <1>1 DEF KeyboardOpened
  <2>2. reshown' = (reshown \/ keyboard # 0)
    BY <1>1 DEF KeyboardOpened
  <2>3. height \in Nat /\ height # 0 /\ Bar \in Nat /\ inset \in Nat /\ keyboard \in Nat
    BY HeightAssumption
  <2>4. inset' >= height + Bar
    BY <2>1, <2>3
  <2>5. keyboard = 0 /\ ~reshown => inset' = height + Bar
    BY <2>1, <2>3
  <2> QED
    BY <2>1, <2>2, <2>3, <2>4, <2>5
<1>2. CASE KeyboardClosed
  BY <1>2 DEF KeyboardClosed, history
<1>3. CASE TextViewDidBeginEditing
  BY <1>3 DEF TextViewDidBeginEditing, history
<1>4. CASE TextViewDidEndEditing
  BY <1>4 DEF TextViewDidEndEditing
<1>5. CASE Type
  BY <1>5 DEF Type, screen, history
<1>6. CASE Merge
  BY <1>6 DEF Merge, screen, history
<1>7. CASE Undo
  BY <1>7 DEF Undo, screen, history
<1>8. CASE Redo
  BY <1>8 DEF Redo, screen, history
<1>9. CASE Shake
  BY <1>9 DEF Shake, screen
<1>10. CASE Pop
  BY <1>10 DEF Pop
<1>11. CASE UNCHANGED vars
  BY <1>11 DEF vars, screen, buttons, former, history
<1> QED
  BY <1>1, <1>2, <1>3, <1>4, <1>5, <1>6, <1>7, <1>8, <1>9, <1>10, <1>11 DEF Next

(* One timer: StartTimer asks for a valid one, the end of editing stops it.*)
LEMMA TimerStep == TypeOK /\ OneTimer /\ [Next]_vars => OneTimer'
<1> SUFFICES ASSUME TypeOK, OneTimer, [Next]_vars PROVE OneTimer'
  OBVIOUS
<1> USE DEF TypeOK, Counts, Flags, OneTimer
<1>1. CASE KeyboardOpened
  <2>1. timers' = 1 /\ timerValid'
    BY <1>1 DEF KeyboardOpened, StartTimer
  <2>2. stray' = (stray \/ ~editing) /\ editing' = editing
    BY <1>1 DEF KeyboardOpened
  <2>3. editing' \/ stray'
    BY <2>2
  <2> QED
    BY <2>1, <2>3
<1>2. CASE KeyboardClosed
  BY <1>2 DEF KeyboardClosed, history
<1>3. CASE TextViewDidBeginEditing
  BY <1>3 DEF TextViewDidBeginEditing, StartTimer, history
<1>4. CASE TextViewDidEndEditing
  BY <1>4 DEF TextViewDidEndEditing
<1>5. CASE Type
  BY <1>5 DEF Type, screen, history
<1>6. CASE Merge
  BY <1>6 DEF Merge, screen, history
<1>7. CASE Undo
  BY <1>7 DEF Undo, screen, history
<1>8. CASE Redo
  BY <1>8 DEF Redo, screen, history
<1>9. CASE Shake
  BY <1>9 DEF Shake, screen
<1>10. CASE Pop
  BY <1>10 DEF Pop
<1>11. CASE UNCHANGED vars
  BY <1>11 DEF vars, screen, buttons, former, history
<1> QED
  BY <1>1, <1>2, <1>3, <1>4, <1>5, <1>6, <1>7, <1>8, <1>9, <1>10, <1>11 DEF Next

(* The undo button against the undo manager.                               *)
LEMMA UndoStep == TypeOK /\ UndoPending /\ [Next]_vars => UndoPending'
<1> SUFFICES ASSUME TypeOK, UndoPending, [Next]_vars PROVE UndoPending'
  OBVIOUS
<1> USE DEF TypeOK, Counts, Flags, UndoPending
<1>1. CASE KeyboardOpened
  BY <1>1 DEF KeyboardOpened
<1>2. CASE KeyboardClosed
  BY <1>2 DEF KeyboardClosed, buttons, history
<1>3. CASE TextViewDidBeginEditing
  BY <1>3 DEF TextViewDidBeginEditing, history
<1>4. CASE TextViewDidEndEditing
  BY <1>4 DEF TextViewDidEndEditing
<1>5. CASE Type
  BY <1>5 DEF Type, screen, history
<1>6. CASE Merge
  BY <1>6 DEF Merge, screen, history
<1>7. CASE Undo
  BY <1>7 DEF Undo, UndoOne, screen, history
<1>8. CASE Redo
  BY <1>8 DEF Redo, RedoOne, screen, history
<1>9. CASE Shake
  BY <1>9 DEF Shake, UndoOne, RedoOne, screen
<1>10. CASE Pop
  BY <1>10 DEF Pop
<1>11. CASE UNCHANGED vars
  BY <1>11 DEF vars, screen, buttons, former, history
<1> QED
  BY <1>1, <1>2, <1>3, <1>4, <1>5, <1>6, <1>7, <1>8, <1>9, <1>10, <1>11 DEF Next

(* The redo button against the undo manager.                               *)
LEMMA RedoStep == TypeOK /\ RedoReachable /\ [Next]_vars => RedoReachable'
<1> SUFFICES ASSUME TypeOK, RedoReachable, [Next]_vars PROVE RedoReachable'
  OBVIOUS
<1> USE DEF TypeOK, Counts, Flags, RedoReachable
<1>1. CASE KeyboardOpened
  BY <1>1 DEF KeyboardOpened
<1>2. CASE KeyboardClosed
  BY <1>2 DEF KeyboardClosed, buttons, history
<1>3. CASE TextViewDidBeginEditing
  BY <1>3 DEF TextViewDidBeginEditing, history
<1>4. CASE TextViewDidEndEditing
  BY <1>4 DEF TextViewDidEndEditing
<1>5. CASE Type
  BY <1>5 DEF Type, screen, history
<1>6. CASE Merge
  BY <1>6 DEF Merge, screen, history
<1>7. CASE Undo
  BY <1>7 DEF Undo, UndoOne, screen, history
<1>8. CASE Redo
  BY <1>8 DEF Redo, RedoOne, screen, history
<1>9. CASE Shake
  BY <1>9 DEF Shake, UndoOne, RedoOne, screen
<1>10. CASE Pop
  BY <1>10 DEF Pop
<1>11. CASE UNCHANGED vars
  BY <1>11 DEF vars, screen, buttons, former, history
<1> QED
  BY <1>1, <1>2, <1>3, <1>4, <1>5, <1>6, <1>7, <1>8, <1>9, <1>10, <1>11 DEF Next

(* ScreenInv is inductive.                                                 *)
LEMMA ScreenStep == ScreenInv /\ [Next]_vars => ScreenInv'
<1> SUFFICES ASSUME ScreenInv, [Next]_vars PROVE ScreenInv'
  OBVIOUS
<1>1. TypeOK /\ InsetBalance /\ OneTimer
  BY DEF ScreenInv
<1>2. Counts' /\ Flags'
  BY <1>1, CountsStep, FlagsStep
<1>3. InsetBalance' /\ OneTimer'
  BY <1>1, BalanceStep, TimerStep
<1> QED
  BY <1>2, <1>3 DEF ScreenInv, TypeOK

(* Everything of the screen keeps its type; in particular the inset never  *)
(* goes below zero and no timer is invalidated that is not there.          *)
THEOREM ScreenTypeCorrect == Spec => []TypeOK
<1>1. ScreenInv => TypeOK
  BY DEF ScreenInv
<1> QED
  BY InitScreen, ScreenStep, <1>1, PTL DEF Spec

(* keyboardOpened: and keyboardClosed: balance, in any order of keyboard,  *)
(* editing and pops.                                                       *)
THEOREM ScreenBalanced == Spec => []InsetBalance
<1>1. ScreenInv => InsetBalance
  BY DEF ScreenInv
<1> QED
  BY InitScreen, ScreenStep, <1>1, PTL DEF Spec

(* Keyboard and editing each start the timer: there is still only one, and *)
(* none outside editing but after a keyboard that opened there.            *)
THEOREM OneTimerHolds == Spec => []OneTimer
<1>1. ScreenInv => OneTimer
  BY DEF ScreenInv
<1> QED
  BY InitScreen, ScreenStep, <1>1, PTL DEF Spec

(* The invariant of the buttons, from the first state on.                  *)
LEMMA ButtonsKept == Spec => []ButtonInv
<1>1. ScreenInv => TypeOK
  BY DEF ScreenInv
<1>2. TypeOK /\ ButtonInv /\ [Next]_vars => ButtonInv'
  BY UndoStep, RedoStep DEF ButtonInv
<1> QED
  BY InitScreen, ScreenStep, <1>1, <1>2, PTL DEF Spec

(* What can be undone or redone can be with the button, except after the   *)
(* two things the editor is not told of.                                   *)
THEOREM ButtonsReachHolds == Spec => []ButtonsReach
<1>1. ButtonInv => ButtonsReach
  BY DEF ButtonInv, UndoPending, ButtonsReach, UndoReachable, RedoReachable
<1> QED
  BY ButtonsKept, <1>1, PTL

(* Only popping an editor in the middle of editing, or after a keyboard    *)
(* outside editing, leaves a timer that keeps it alive.                    *)
THEOREM KeptOnlyByEditingHolds == Spec => KeptOnlyByEditing
<1>1. ScreenInv /\ [Next]_vars => [kept' > kept => editing \/ stray]_vars
  <2> SUFFICES ASSUME ScreenInv, Next, kept' > kept PROVE editing \/ stray
    BY DEF vars
  <2>1. kept' = kept \/ Pop
    BY DEF Next, KeyboardOpened, KeyboardClosed, TextViewDidBeginEditing,
           TextViewDidEndEditing, Type, Merge, Undo, Redo, Shake, former
  <2>2. kept \in Nat /\ timers \in Nat
    BY DEF ScreenInv, TypeOK, Counts
  <2>3. timers > 0
    BY <2>1, <2>2 DEF Pop
  <2> QED
    BY <2>2, <2>3 DEF ScreenInv, OneTimer
<1> QED
  BY InitScreen, ScreenStep, <1>1, PTL DEF Spec, KeptOnlyByEditing
=============================================================================
