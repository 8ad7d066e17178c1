---------------------------- MODULE LobbyProofs ----------------------------
(***************************************************************************)
(* Proofs about Lobby, for any number of devices, names, sessions and      *)
(* calls under way: what its invariants and action properties say holds of *)
(* every behaviour.                                                        *)
(*                                                                         *)
(* The invariant is one of each device, DeviceInv: a step of a device      *)
(* leaves the variables of the others alone, and what it does to the       *)
(* sessions of the service is that they end or that one is added.          *)
(***************************************************************************)
EXTENDS Lobby, SequenceTheorems, FiniteSetTheorems, TLAPS

(* The client is in a session that was created, and found one.             *)
Placed(d) ==
    /\ client[d].session # None => client[d].session \in DOMAIN sessions
    /\ found[d] # None => found[d] \in DOMAIN sessions

(* A session action the library took on is the only one of the device, and *)
(* fits the session the client is in: no other can have changed that.      *)
Active(k) == k.op \in SessionOp /\ ~k.refused

OneAction(d) ==
    /\ \A k \in calls[d] : Active(k) =>
          (client[d].session # None <=> k.op \in {"leave", "delete"})
    /\ \A k, l \in calls[d] : Active(k) /\ Active(l) => k = l

EditorInv(d) ==
    /\ editors[d] > 0 /\ client[d].session = None =>
          \/ "failedJoin" \in unseated[d]
          \/ "lateLeave" \in unseated[d] /\ overlapped[d]
    /\ editors[d] = 0 /\ client[d].session # None => sessions[client[d].session].ended

(* A walk of a user who waits for answers: a call or an alert at a time,   *)
(* the alerts of the lobby in the lobby, and all about the group he asked  *)
(* for.                                                                    *)
WalkCall(d, k) ==
    /\ alerts[d] = <<>>
    /\ k.op \notin {"leave", "delete"} \/ k.popped => editors[d] = 0
    /\ k.op = "ListToJoin" => k.name = asked[d]
    /\ k.op = "join" /\ k.session # None =>
          k.session \in DOMAIN sessions /\ sessions[k.session].name = asked[d]

WalkAlert(d, a) ==
    /\ a # "Orphan"
    /\ a # "LeavingGroup" => editors[d] = 0
    /\ a = "GroupPassword" /\ found[d] # None => sessions[found[d]].name = asked[d]

Walk(d) ==
    /\ running[d]
    /\ editors[d] \in {0, 1}
    /\ calls[d] = {} \/ \E k \in calls[d] : calls[d] = {k} /\ WalkCall(d, k)
    /\ alerts[d] = <<>> \/ \E a \in Alert : alerts[d] = <<a>> /\ WalkAlert(d, a)

DeviceInv(d) ==
    /\ Placed(d) /\ OneAction(d) /\ EditorInv(d)
    /\ ~overlapped[d] => Walk(d)

IInv == TypeOK /\ \A d \in Devices : DeviceInv(d)

-----------------------------------------------------------------------------
(* What a step of a device does to the sessions.                           *)
Grows ==
    /\ DOMAIN sessions \subseteq DOMAIN sessions'
    /\ \A s \in DOMAIN sessions :
          /\ sessions'[s].name = sessions[s].name
          /\ sessions[s].ended => sessions'[s].ended

(* What it does not touch of another device.                               *)
Same(e) ==
    /\ client'[e] = client[e] /\ calls'[e] = calls[e] /\ found'[e] = found[e]
    /\ alerts'[e] = alerts[e] /\ editors'[e] = editors[e] /\ running'[e] = running[e]
    /\ asked'[e] = asked[e] /\ unseated'[e] = unseated[e]
    /\ overlapped'[e] = overlapped[e]

LEMMA OthersKeep ==
    ASSUME NEW e \in Devices, DeviceInv(e), Same(e), Grows
    PROVE  DeviceInv(e)'
<1>1. Placed(e)'
  BY DEF DeviceInv, Placed, Same, Grows
<1>2. OneAction(e)'
  BY Zenon DEF DeviceInv, OneAction, Active, Same
<1>3. EditorInv(e)'
  BY DEF DeviceInv, EditorInv, Placed, Same, Grows
<1>4. ~overlapped[e] => Walk(e)'
  <2> SUFFICES ASSUME ~overlapped[e] PROVE Walk(e)'
    OBVIOUS
  <2>1. Walk(e) /\ Placed(e)
    BY DEF DeviceInv
  <2>2. \A k : WalkCall(e, k) => WalkCall(e, k)'
    BY DEF WalkCall, Same, Grows
  <2>3. \A a : WalkAlert(e, a) => WalkAlert(e, a)'
    BY <2>1 DEF WalkAlert, Same, Grows, Placed
  <2> QED
    BY <2>1, <2>2, <2>3, Zenon DEF Walk, Same
<1> QED
  BY <1>1, <1>2, <1>3, <1>4, Zenon DEF DeviceInv, Same

(* One device of a function on devices.                                    *)
LEMMA Updated ==
    ASSUME NEW S, NEW f \in [Devices -> S], NEW d \in Devices, NEW v \in S,
           NEW g, g = [f EXCEPT ![d] = v]
    PROVE  g \in [Devices -> S] /\ g[d] = v /\ \A e \in Devices : e # d => g[e] = f[e]
OBVIOUS

(* The calls of the device but for some, perhaps with one that was begun.  *)
CallsStep(d) ==
    \E others \in SUBSET calls[d] :
        \/ calls' = [calls EXCEPT ![d] = others]
        \/ \E k \in Call :
              /\ calls' = [calls EXCEPT ![d] = others \union {k}]
              /\ Active(k) => /\ \A o \in others : ~Active(o)
                              /\ client[d].session # None <=> k.op \in {"leave", "delete"}

LEMMA CallsMove ==
    ASSUME IInv, NEW d \in Devices, CallsStep(d)
    PROVE  /\ calls' \in [Devices -> SUBSET Call]
           /\ \A e \in Devices : e # d => calls'[e] = calls[e]
           /\ client' = client => OneAction(d)'
<1>1. calls \in [Devices -> SUBSET Call] /\ OneAction(d)
  BY DEF IInv, TypeOK, DeviceInv
<1>2. PICK others \in SUBSET calls[d] :
        \/ calls' = [calls EXCEPT ![d] = others]
        \/ \E k \in Call :
              /\ calls' = [calls EXCEPT ![d] = others \union {k}]
              /\ Active(k) => /\ \A o \in others : ~Active(o)
                              /\ client[d].session # None <=> k.op \in {"leave", "delete"}
  BY DEF CallsStep
<1>3. CASE calls' = [calls EXCEPT ![d] = others]
  <2>1. calls' \in [Devices -> SUBSET Call] /\ calls'[d] = others
        /\ \A e \in Devices : e # d => calls'[e] = calls[e]
    BY <1>1, <1>3
  <2> QED
    BY <1>1, <2>1 DEF OneAction, Active
<1>4. CASE \E k \in Call :
              /\ calls' = [calls EXCEPT ![d] = others \union {k}]
              /\ Active(k) => /\ \A o \in others : ~Active(o)
                              /\ client[d].session # None <=> k.op \in {"leave", "delete"}
  <2>0. PICK k \in Call :
              /\ calls' = [calls EXCEPT ![d] = others \union {k}]
              /\ Active(k) => /\ \A o \in others : ~Active(o)
                              /\ client[d].session # None <=> k.op \in {"leave", "delete"}
    BY <1>4
  <2>1. calls' \in [Devices -> SUBSET Call] /\ calls'[d] = others \union {k}
        /\ \A e \in Devices : e # d => calls'[e] = calls[e]
    BY <1>1, <2>0
  <2>3. Active(k) => /\ \A o \in others : ~Active(o)
                     /\ client[d].session # None <=> k.op \in {"leave", "delete"}
    BY <2>0
  <2>4. others \subseteq calls[d]
    OBVIOUS
  <2>2. ASSUME client' = client PROVE OneAction(d)'
    <3>1. \A c \in calls'[d] : Active(c) =>
             (client'[d].session # None <=> c.op \in {"leave", "delete"})
      BY <1>1, <2>1, <2>2, <2>3, <2>4, SMTT(20) DEF OneAction
    <3>2. \A c, l \in calls'[d] : Active(c) /\ Active(l) => c = l
      BY <1>1, <2>1, <2>3, <2>4, SMTT(20) DEF OneAction
    <3> QED
      BY <3>1, <3>2, Zenon DEF OneAction, Active
  <2> QED
    BY <2>1, <2>2
<1> QED
  BY <1>2, <1>3, <1>4, Zenon

-----------------------------------------------------------------------------
(* Alerts.                                                                 *)
LEMMA WithoutLast ==
    ASSUME NEW s \in Seq(Alert), s # <<>>
    PROVE  /\ Without(s) \in Seq(Alert) /\ s[Len(s)] \in Alert
           /\ \A a : s = <<a>> => Without(s) = <<>> /\ s[Len(s)] = a
<1>1. Len(s) \in Nat /\ Len(s) - 1 \in Int /\ Len(s) # 0
  BY EmptySeq, LenProperties
<1>2. \A i \in 1..(Len(s) - 1) : s[i] \in Alert
  BY <1>1, ElementOfSeq
<1>3. Without(s) \in Seq(Alert)
  BY <1>1, <1>2, SubSeqProperties DEF Without
<1>4. s[Len(s)] \in Alert
  BY <1>1, ElementOfSeq
<1>5. ASSUME NEW a, s = <<a>> PROVE Without(s) = <<>> /\ s[Len(s)] = a
  <2>1. Len(s) = 1 /\ s[1] = a
    BY <1>5
  <2>2. SubSeq(s, 1, 0) = <<>>
    BY SubSeqEmpty
  <2> QED
    BY <2>1, <2>2 DEF Without
<1> QED
  BY <1>3, <1>4, <1>5

LEMMA OneMore ==
    ASSUME NEW s \in Seq(Alert), NEW a \in Alert
    PROVE  Append(s, a) \in Seq(Alert) /\ (s = <<>> => Append(s, a) = <<a>>)
<1>1. Append(s, a) \in Seq(Alert)
  OBVIOUS
<1>2. ASSUME s = <<>> PROVE Append(s, a) = <<a>>
  <2>1. Append(<<>>, a) = <<a>>
    OBVIOUS
  <2> QED
    BY <1>2, <2>1
<1> QED
  BY <1>1, <1>2

LEMMA FunctionIsSequence ==
    ASSUME NEW S, NEW n \in Nat, NEW f \in [1..n -> S]
    PROVE  f \in Seq(S) /\ Len(f) = n
OBVIOUS

AlertsTyped(d) ==
    /\ alerts' \in [Devices -> Seq(Alert)]
    /\ \A e \in Devices : e # d => alerts'[e] = alerts[e]

LEMMA Shows ==
    ASSUME TypeOK, NEW d \in Devices, NEW a \in Alert, Show(d, a)
    PROVE  AlertsTyped(d) /\ (alerts[d] = <<>> => alerts'[d] = <<a>>)
<1>1. alerts \in [Devices -> Seq(Alert)] /\ alerts[d] \in Seq(Alert)
  BY DEF TypeOK
<1>2. Append(alerts[d], a) \in Seq(Alert) /\ (alerts[d] = <<>> => Append(alerts[d], a) = <<a>>)
  BY <1>1, OneMore
<1>3. alerts' = [alerts EXCEPT ![d] = Append(alerts[d], a)]
  BY DEF Show
<1> QED
  BY <1>1, <1>2, <1>3 DEF AlertsTyped

LEMMA Replaces ==
    ASSUME TypeOK, NEW d \in Devices, NEW a \in Alert, alerts[d] # <<>>, Replace(d, a)
    PROVE  AlertsTyped(d) /\ \A b : alerts[d] = <<b>> => alerts'[d] = <<a>>
<1>1. alerts \in [Devices -> Seq(Alert)] /\ alerts[d] \in Seq(Alert)
  BY DEF TypeOK
<1>2. Without(alerts[d]) \in Seq(Alert) /\ \A b : alerts[d] = <<b>> => Without(alerts[d]) = <<>>
  BY <1>1, WithoutLast
<1>3. Append(Without(alerts[d]), a) \in Seq(Alert)
      /\ (Without(alerts[d]) = <<>> => Append(Without(alerts[d]), a) = <<a>>)
  BY <1>2, OneMore
<1>4. alerts' = [alerts EXCEPT ![d] = Append(Without(alerts[d]), a)]
  BY DEF Replace
<1> QED
  BY <1>1, <1>2, <1>3, <1>4 DEF AlertsTyped

LEMMA Dismisses ==
    ASSUME TypeOK, NEW d \in Devices, alerts[d] # <<>>, Dismiss(d)
    PROVE  AlertsTyped(d) /\ \A b : alerts[d] = <<b>> => alerts'[d] = <<>>
<1>1. alerts \in [Devices -> Seq(Alert)] /\ alerts[d] \in Seq(Alert)
  BY DEF TypeOK
<1>2. Without(alerts[d]) \in Seq(Alert) /\ \A b : alerts[d] = <<b>> => Without(alerts[d]) = <<>>
  BY <1>1, WithoutLast
<1>3. alerts' = [alerts EXCEPT ![d] = Without(alerts[d])]
  BY DEF Dismiss
<1> QED
  BY <1>1, <1>2, <1>3 DEF AlertsTyped

LEMMA Pops ==
    ASSUME TypeOK, NEW d \in Devices, NEW others, PopToRoot(d, others)
    PROVE  /\ AlertsTyped(d) /\ (alerts[d] = <<>> => alerts'[d] = <<>>)
           /\ editors' = [editors EXCEPT ![d] = 0]
           /\ unseated' = [unseated EXCEPT ![d] = {}]
           /\ calls' = [calls EXCEPT ![d] = Late(others)]
<1> DEFINE new == [i \in DOMAIN alerts[d] |->
                     IF alerts[d][i] = "LeavingGroup" THEN "Orphan" ELSE alerts[d][i]]
<1>1. alerts \in [Devices -> Seq(Alert)] /\ alerts[d] \in Seq(Alert)
  BY DEF TypeOK
<1>2. DOMAIN alerts[d] = 1..Len(alerts[d]) /\ Len(alerts[d]) \in Nat
      /\ \A i \in DOMAIN alerts[d] : alerts[d][i] \in Alert
  BY <1>1, LenProperties, ElementOfSeq
<1>3. "Orphan" \in Alert
  BY DEF Alert
<1>4. new \in [1..Len(alerts[d]) -> Alert]
  BY <1>2, <1>3
<1>5. new \in Seq(Alert) /\ Len(new) = Len(alerts[d])
  BY <1>2, <1>4, FunctionIsSequence
<1>6. alerts[d] = <<>> => new = <<>>
  BY <1>1, <1>5, EmptySeq
<1>7. /\ alerts' = [alerts EXCEPT ![d] = new]
      /\ editors' = [editors EXCEPT ![d] = 0]
      /\ unseated' = [unseated EXCEPT ![d] = {}]
      /\ calls' = [calls EXCEPT ![d] = Late(others)]
  BY DEF PopToRoot, Orphaned
<1> QED
  BY <1>1, <1>5, <1>6, <1>7 DEF AlertsTyped

(* What a pop makes of a call under way.                                   *)
Marked(o) == IF o.op \in {"leave", "delete"} THEN [o EXCEPT !.popped = TRUE] ELSE o

LEMMA Lates ==
    ASSUME TypeOK, NEW d \in Devices, NEW others \in SUBSET calls[d],
           calls' = [calls EXCEPT ![d] = Late(others)]
    PROVE  /\ calls' \in [Devices -> SUBSET Call]
           /\ \A e \in Devices : e # d => calls'[e] = calls[e]
           /\ calls'[d] = {Marked(o) : o \in others}
           /\ \A o \in others : /\ Marked(o) \in Call
                               /\ Marked(o).op = o.op /\ Marked(o).name = o.name
                               /\ Marked(o).session = o.session
                               /\ Marked(o).refused = o.refused
<1>1. calls \in [Devices -> SUBSET Call] /\ others \subseteq Call
  BY DEF TypeOK
<1>2. ASSUME NEW o \in others
      PROVE  /\ Marked(o) \in Call /\ Marked(o).op = o.op /\ Marked(o).name = o.name
             /\ Marked(o).session = o.session /\ Marked(o).refused = o.refused
  BY <1>1 DEF Marked, Call
<1>3. Late(others) = {Marked(o) : o \in others}
  BY DEF Late, Marked
<1>4. Late(others) \in SUBSET Call
  BY <1>2, <1>3
<1> QED
  BY <1>1, <1>2, <1>3, <1>4

-----------------------------------------------------------------------------
LEMMA StepKeeps ==
    ASSUME IInv, NEW d \in Devices, TypeOK', Grows,
           \A e \in Devices : e # d => Same(e),
           DeviceInv(d)'
    PROVE  IInv'
<1>1. \A e \in Devices : DeviceInv(e)'
  <2> TAKE e \in Devices
  <2>1. CASE e = d
    BY <2>1
  <2>2. CASE e # d
    BY <2>2, OthersKeep DEF IInv
  <2> QED
    BY <2>1, <2>2
<1> QED
  BY <1>1 DEF IInv

LEMMA CallsStill ==
    ASSUME TypeOK, NEW d \in Devices, calls' = calls
    PROVE  CallsStep(d)
<1>1. calls[d] \in SUBSET calls[d] /\ calls' = [calls EXCEPT ![d] = calls[d]]
  BY DEF TypeOK
<1> QED
  BY <1>1 DEF CallsStep

LEMMA CallsLess ==
    ASSUME NEW d \in Devices, NEW k, Finish(d, k)
    PROVE  CallsStep(d)
<1>1. calls[d] \ {k} \in SUBSET calls[d]
  OBVIOUS
<1> QED
  BY <1>1 DEF CallsStep, Finish

(* A step that changes alerts, calls and history only.                     *)
LEMMA AnswerMove ==
    ASSUME IInv, NEW d \in Devices,
           UNCHANGED <<sessions, client, found, editors, running, unseated>>,
           AlertsTyped(d), CallsStep(d),
           asked' \in [Devices -> Names \union {NoName}],
           \A e \in Devices : e # d => asked'[e] = asked[e],
           overlapped' \in [Devices -> BOOLEAN],
           \A e \in Devices : e # d => overlapped'[e] = overlapped[e],
           overlapped[d] /\ editors[d] > 0 => overlapped'[d],
           ~overlapped'[d] => Walk(d)'
    PROVE  IInv'
<1>1. /\ calls' \in [Devices -> SUBSET Call] /\ OneAction(d)'
      /\ \A e \in Devices : e # d => calls'[e] = calls[e]
  BY CallsMove
<1>2. TypeOK'
  BY <1>1 DEF IInv, TypeOK, AlertsTyped
<1>3. \A e \in Devices : e # d => Same(e)
  BY <1>1, Zenon DEF Same, AlertsTyped
<1>4. Grows
  BY DEF Grows
<1>5. Placed(d)' /\ EditorInv(d)'
  BY DEF IInv, DeviceInv, Placed, EditorInv
<1>6. DeviceInv(d)'
  BY <1>1, <1>5 DEF DeviceInv
<1> QED
  BY <1>2, <1>3, <1>4, <1>6, StepKeeps

(* An answer of a user who waits.                                          *)
LEMMA FrontWalk ==
    ASSUME IInv, NEW d \in Devices, alerts[d] # <<>>, ~overlapped[d]
    PROVE  LET a == alerts[d][Len(alerts[d])]
           IN  /\ calls[d] = {} /\ editors[d] \in {0, 1}
               /\ alerts[d] = <<a>> /\ a # "Orphan"
               /\ a # "LeavingGroup" => editors[d] = 0
               /\ a = "GroupPassword" /\ found[d] # None =>
                    sessions[found[d]].name = asked[d]
<1>1. alerts[d] \in Seq(Alert) /\ Walk(d)
  BY DEF IInv, TypeOK, DeviceInv
<1>2. PICK a \in Alert : alerts[d] = <<a>> /\ WalkAlert(d, a)
  BY <1>1, Zenon DEF Walk
<1>3. a = alerts[d][Len(alerts[d])]
  BY <1>1, <1>2, WithoutLast
<1>4. calls[d] = {}
  BY <1>1, Zenon DEF Walk, WalkCall
<1>5. editors[d] \in {0, 1}
  BY <1>1 DEF Walk
<1> QED
  BY <1>2, <1>3, <1>4, <1>5, Zenon DEF WalkAlert

(* No call is under way, no alert or one is in front.                      *)
LEMMA WalkWithAlert ==
    ASSUME NEW d \in Devices, running'[d], editors'[d] \in {0, 1}, calls'[d] = {},
           alerts'[d] = <<>> \/ \E a \in Alert : alerts'[d] = <<a>> /\ WalkAlert(d, a)'
    PROVE  Walk(d)'
BY Zenon DEF Walk

(* A call is under way.                                                    *)
LEMMA WalkWithCall ==
    ASSUME NEW d \in Devices, running'[d], editors'[d] \in {0, 1},
           NEW k, calls'[d] = {k}, alerts'[d] = <<>>, WalkCall(d, k)'
    PROVE  Walk(d)'
BY Zenon DEF Walk

LEMMA AnswerConfigurationKeeps ==
    ASSUME IInv, NEW d \in Devices, AnswerConfiguration(d)
    PROVE  IInv'
<1>0. UNCHANGED <<sessions, client, calls, found, editors, running, asked, unseated, overlapped>>
  BY DEF AnswerConfiguration, history
<1>1. PICK alert \in {"NewName", "NewNameAndPassword"} : Replace(d, alert)
  BY DEF AnswerConfiguration
<1>2. alert \in Alert /\ alert \notin {"Orphan", "LeavingGroup", "GroupPassword"}
  BY DEF Alert
<1>3. /\ TypeOK /\ running[d] /\ alerts[d] # <<>>
      /\ alerts[d][Len(alerts[d])] \in {"SelectConfiguration"}
  BY DEF IInv, Front, AnswerConfiguration
<1>4. AlertsTyped(d) /\ \A b : alerts[d] = <<b>> => alerts'[d] = <<alert>>
  BY <1>1, <1>2, <1>3, Replaces
<1>5. CallsStep(d)
  BY <1>0, <1>3, CallsStill
<1>6. ASSUME ~overlapped[d] PROVE Walk(d)'
  <2>1. /\ calls[d] = {} /\ editors[d] = 0 /\ running[d]
        /\ alerts[d] = <<"SelectConfiguration">>
    BY <1>3, <1>6, FrontWalk
  <2>2. WalkAlert(d, alert)'
    BY <1>0, <1>2, <2>1 DEF WalkAlert
  <2> QED
    BY <1>0, <1>2, <1>4, <2>1, <2>2, WalkWithAlert
<1> QED
  BY <1>0, <1>3, <1>4, <1>5, <1>6, AnswerMove DEF TypeOK

LEMMA AnswerBlankKeeps ==
    ASSUME IInv, NEW d \in Devices, AnswerBlank(d)
    PROVE  IInv'
<1>0. UNCHANGED <<sessions, client, calls, found, editors, running, asked, unseated, overlapped>>
  BY DEF AnswerBlank, history
<1>1. PICK alert \in {"NewName", "NewNameAndPassword"} : Replace(d, alert)
  BY DEF AnswerBlank
<1>2. alert \in Alert /\ alert \notin {"Orphan", "LeavingGroup", "GroupPassword"}
  BY DEF Alert
<1>3. /\ TypeOK /\ running[d] /\ alerts[d] # <<>>
      /\ alerts[d][Len(alerts[d])] \in {"BlankName", "BlankNameOrPassword"}
  BY DEF IInv, Front, AnswerBlank
<1>4. AlertsTyped(d) /\ \A b : alerts[d] = <<b>> => alerts'[d] = <<alert>>
  BY <1>1, <1>2, <1>3, Replaces
<1>5. CallsStep(d)
  BY <1>0, <1>3, CallsStill
<1>6. ASSUME ~overlapped[d] PROVE Walk(d)'
  <2>1. PICK a \in {"BlankName", "BlankNameOrPassword"} :
           calls[d] = {} /\ editors[d] = 0 /\ running[d] /\ alerts[d] = <<a>>
    BY <1>3, <1>6, FrontWalk
  <2>2. WalkAlert(d, alert)'
    BY <1>0, <1>2, <2>1 DEF WalkAlert
  <2> QED
    BY <1>0, <1>2, <1>4, <2>1, <2>2, WalkWithAlert
<1> QED
  BY <1>0, <1>3, <1>4, <1>5, <1>6, AnswerMove DEF TypeOK

LEMMA AnswerNoticeKeeps ==
    ASSUME IInv, NEW d \in Devices, AnswerNotice(d)
    PROVE  IInv'
<1>0. UNCHANGED <<sessions, client, calls, found, editors, running, asked, unseated, overlapped>>
  BY DEF AnswerNotice, history
<1>1. /\ TypeOK /\ running[d] /\ alerts[d] # <<>> /\ Dismiss(d)
      /\ alerts[d][Len(alerts[d])] \in {"Notice"}
  BY DEF IInv, Front, AnswerNotice
<1>2. AlertsTyped(d) /\ \A b : alerts[d] = <<b>> => alerts'[d] = <<>>
  BY <1>1, Dismisses
<1>3. CallsStep(d)
  BY <1>0, <1>1, CallsStill
<1>4. ASSUME ~overlapped[d] PROVE Walk(d)'
  <2>1. /\ calls[d] = {} /\ editors[d] \in {0, 1} /\ running[d]
        /\ alerts[d] = <<"Notice">>
    BY <1>1, <1>4, FrontWalk
  <2> QED
    BY <1>0, <1>2, <2>1, WalkWithAlert
<1> QED
  BY <1>0, <1>1, <1>2, <1>3, <1>4, AnswerMove DEF TypeOK

(* A call that the user's answer begins.                                   *)
BeginsAs(d, r) == calls' = [calls EXCEPT ![d] = Started(d, r, calls[d])]

LEMMA Begins ==
    ASSUME TypeOK, NEW d \in Devices, NEW r \in Call, ~r.refused, BeginsAs(d, r)
    PROVE  /\ CallsStep(d)
           /\ calls[d] = {} => \E k \in Call : /\ calls'[d] = {k} /\ k.op = r.op
                                             /\ k.name = r.name /\ k.session = r.session
                                             /\ k.popped = r.popped
<1> DEFINE k == IF Refuses(d, r, calls[d]) THEN [r EXCEPT !.refused = TRUE] ELSE r
<1>3. calls' = [calls EXCEPT ![d] = calls[d] \union {k}]
  BY DEF BeginsAs, Started
<1>4. /\ k \in Call /\ k.op = r.op /\ k.name = r.name /\ k.session = r.session
      /\ k.popped = r.popped
      /\ Refuses(d, r, calls[d]) => k.refused
  BY DEF Call
<1> HIDE DEF k
<1>5. Active(k) => /\ \A o \in calls[d] : ~Active(o)
                   /\ client[d].session # None <=> k.op \in {"leave", "delete"}
  BY <1>4 DEF Active, Refuses
<1>6. CallsStep(d)
  BY <1>3, <1>4, <1>5, Zenon DEF CallsStep
<1>7. calls[d] = {} => calls'[d] = {k}
  BY <1>3 DEF TypeOK
<1> QED
  BY <1>4, <1>6, <1>7

(* A call that the completion handler of another makes.                    *)
ContinuesAs(d, c, r) == calls' = [calls EXCEPT ![d] = Started(d, r, calls[d] \ {c})]

LEMMA Continues ==
    ASSUME TypeOK, NEW d \in Devices, NEW c \in calls[d], NEW r \in Call,
           ~r.refused, ContinuesAs(d, c, r)
    PROVE  /\ CallsStep(d)
           /\ calls[d] = {c} => \E k \in Call : /\ calls'[d] = {k} /\ k.op = r.op
                                              /\ k.name = r.name /\ k.session = r.session
                                             /\ k.popped = r.popped
<1> DEFINE k == IF Refuses(d, r, calls[d] \ {c}) THEN [r EXCEPT !.refused = TRUE] ELSE r
<1>3. calls' = [calls EXCEPT ![d] = (calls[d] \ {c}) \union {k}]
  BY DEF ContinuesAs, Started
<1>4. /\ k \in Call /\ k.op = r.op /\ k.name = r.name /\ k.session = r.session
      /\ k.popped = r.popped
      /\ Refuses(d, r, calls[d] \ {c}) => k.refused
  BY DEF Call
<1> HIDE DEF k
<1>5. Active(k) => /\ \A o \in calls[d] \ {c} : ~Active(o)
                   /\ client[d].session # None <=> k.op \in {"leave", "delete"}
  BY <1>4 DEF Active, Refuses
<1>6. CallsStep(d)
  <2>1. calls[d] \ {c} \in SUBSET calls[d]
    OBVIOUS
  <2> QED
    BY <1>3, <1>4, <1>5, <2>1, Zenon DEF CallsStep
<1>7. calls[d] = {c} => calls'[d] = {k}
  BY <1>3 DEF TypeOK
<1> QED
  BY <1>4, <1>6, <1>7

LEMMA AnswerNewNameKeeps ==
    ASSUME IInv, NEW d \in Devices, AnswerNewName(d)
    PROVE  IInv'
<1>0. UNCHANGED <<sessions, client, found, editors, running, asked, unseated, overlapped>>
  BY DEF AnswerNewName, history
<1>1. /\ TypeOK /\ running[d] /\ alerts[d] # <<>>
      /\ alerts[d][Len(alerts[d])] \in {"NewName", "NewNameAndPassword"}
  BY DEF IInv, Front, AnswerNewName
<1>2. \/ Dismiss(d) /\ calls' = calls
      \/ (\E alert \in {"BlankName", "BlankNameOrPassword"} : Replace(d, alert)) /\ calls' = calls
      \/ Dismiss(d) /\ \E n \in Names, locked \in BOOLEAN :
                          Begin(d, "ListToCreate", n, locked, None, None)
  <2> DEFINE locked == alerts[d][Len(alerts[d])] = "NewNameAndPassword"
  <2>1. PICK b \in BOOLEAN : b = locked
    OBVIOUS
  <2>2. \/ Dismiss(d) /\ calls' = calls
        \/ Replace(d, IF locked THEN "BlankNameOrPassword" ELSE "BlankName") /\ calls' = calls
        \/ Dismiss(d) /\ \E n \in Names : Begin(d, "ListToCreate", n, locked, None, None)
    BY Zenon DEF AnswerNewName
  <2>3. Replace(d, IF locked THEN "BlankNameOrPassword" ELSE "BlankName") =>
          \E alert \in {"BlankName", "BlankNameOrPassword"} : Replace(d, alert)
    BY DEF Replace
  <2>4. \A n : Begin(d, "ListToCreate", n, locked, None, None)
                => Begin(d, "ListToCreate", n, b, None, None)
    BY <2>1, Zenon DEF Begin
  <2> QED
    BY <2>2, <2>3, <2>4, Zenon
<1>3. ASSUME Dismiss(d) PROVE AlertsTyped(d) /\ \A b : alerts[d] = <<b>> => alerts'[d] = <<>>
  BY <1>1, <1>3, Dismisses
<1>4. /\ ~overlapped[d] => calls[d] = {} /\ editors[d] = 0 /\ \E a : alerts[d] = <<a>>
      /\ ~overlapped'[d] => ~overlapped[d]
  BY <1>0, <1>1, FrontWalk
<1>5. CASE Dismiss(d) /\ calls' = calls
  <2>1. CallsStep(d)
    BY <1>1, <1>5, CallsStill
  <2>2. ~overlapped'[d] => Walk(d)'
    BY <1>0, <1>1, <1>3, <1>4, <1>5, WalkWithAlert
  <2> QED
    BY <1>0, <1>1, <1>3, <1>5, <2>1, <2>2, AnswerMove DEF TypeOK
<1>6. CASE (\E alert \in {"BlankName", "BlankNameOrPassword"} : Replace(d, alert)) /\ calls' = calls
  <2>1. PICK alert \in {"BlankName", "BlankNameOrPassword"} : Replace(d, alert)
    BY <1>6
  <2>2. alert \in Alert /\ alert \notin {"Orphan", "LeavingGroup", "GroupPassword"}
    BY DEF Alert
  <2>3. AlertsTyped(d) /\ \A b : alerts[d] = <<b>> => alerts'[d] = <<alert>>
    BY <1>1, <2>1, <2>2, Replaces
  <2>4. CallsStep(d)
    BY <1>1, <1>6, CallsStill
  <2>5. ~overlapped'[d] => Walk(d)'
    <3> SUFFICES ASSUME ~overlapped'[d] PROVE Walk(d)'
      OBVIOUS
    <3>1. WalkAlert(d, alert)'
      BY <1>0, <1>4, <2>2 DEF WalkAlert
    <3> QED
      BY <1>0, <1>1, <1>4, <1>6, <2>2, <2>3, <3>1, WalkWithAlert
  <2> QED
    BY <1>0, <1>1, <2>3, <2>4, <2>5, AnswerMove DEF TypeOK
<1>7. CASE Dismiss(d) /\ \E n \in Names, locked \in BOOLEAN :
                          Begin(d, "ListToCreate", n, locked, None, None)
  <2>1. PICK n \in Names, locked \in BOOLEAN : Begin(d, "ListToCreate", n, locked, None, None)
    BY <1>7
  <2>2. PICK r \in Call : ~r.refused /\ ~r.popped /\ r.op = "ListToCreate" /\ BeginsAs(d, r)
    BY <2>1 DEF Begin, FreeSlots, BeginsAs, Request, Call, Op, None
  <2>3. /\ CallsStep(d)
        /\ calls[d] = {} => \E k \in Call : calls'[d] = {k} /\ ~k.popped /\ k.op = "ListToCreate"
    BY <1>1, <2>2, Begins
  <2>4. ~overlapped'[d] => Walk(d)'
    <3> SUFFICES ASSUME ~overlapped'[d] PROVE Walk(d)'
      OBVIOUS
    <3>1. PICK k \in Call : calls'[d] = {k} /\ ~k.popped /\ k.op = "ListToCreate"
      BY <1>4, <2>3
    <3>2. alerts'[d] = <<>>
      BY <1>3, <1>4, <1>7
    <3>3. WalkCall(d, k)'
      BY <1>0, <1>4, <3>1, <3>2 DEF WalkCall
    <3> QED
      BY <1>0, <1>1, <1>4, <3>1, <3>2, <3>3, WalkWithCall
  <2> QED
    BY <1>0, <1>1, <1>3, <1>7, <2>3, <2>4, AnswerMove DEF TypeOK
<1> QED
  BY <1>2, <1>5, <1>6, <1>7

LEMMA AnswerGroupKeeps ==
    ASSUME IInv, NEW d \in Devices, AnswerGroup(d)
    PROVE  IInv'
<1>0. UNCHANGED <<sessions, client, found, editors, running, unseated, overlapped>>
  BY DEF AnswerGroup
<1>1. /\ TypeOK /\ running[d] /\ alerts[d] # <<>> /\ Dismiss(d)
      /\ alerts[d][Len(alerts[d])] \in {"GroupName"}
  BY DEF IInv, Front, AnswerGroup
<1>2. AlertsTyped(d) /\ \A b : alerts[d] = <<b>> => alerts'[d] = <<>>
  BY <1>1, Dismisses
<1>3. /\ ~overlapped[d] => calls[d] = {} /\ editors[d] = 0 /\ \E a : alerts[d] = <<a>>
      /\ ~overlapped'[d] => ~overlapped[d]
  BY <1>0, <1>1, FrontWalk
<1>4. CASE calls' = calls /\ asked' = asked
  <2>1. CallsStep(d)
    BY <1>1, <1>4, CallsStill
  <2>2. ~overlapped'[d] => Walk(d)'
    BY <1>0, <1>1, <1>2, <1>3, <1>4, WalkWithAlert
  <2> QED
    BY <1>0, <1>1, <1>2, <1>4, <2>1, <2>2, AnswerMove DEF TypeOK
<1>5. CASE \E n \in Names : /\ asked' = [asked EXCEPT ![d] = n]
                           /\ Begin(d, "ListToJoin", n, FALSE, None, None)
  <2>1. PICK n \in Names : /\ asked' = [asked EXCEPT ![d] = n]
                           /\ Begin(d, "ListToJoin", n, FALSE, None, None)
    BY <1>5
  <2>2. PICK r \in Call : /\ ~r.refused /\ ~r.popped /\ r.op = "ListToJoin" /\ r.name = n
                          /\ BeginsAs(d, r)
    BY <2>1 DEF Begin, FreeSlots, BeginsAs, Request, Call, Op, None
  <2>3. /\ CallsStep(d)
        /\ calls[d] = {} => \E k \in Call : calls'[d] = {k} /\ ~k.popped /\ k.op = "ListToJoin" /\ k.name = n
    BY <1>1, <2>2, Begins
  <2>4. /\ asked' \in [Devices -> Names \union {NoName}] /\ asked'[d] = n
        /\ \A e \in Devices : e # d => asked'[e] = asked[e]
    BY <1>1, <2>1 DEF TypeOK
  <2>5. ~overlapped'[d] => Walk(d)'
    <3> SUFFICES ASSUME ~overlapped'[d] PROVE Walk(d)'
      OBVIOUS
    <3>1. PICK k \in Call : calls'[d] = {k} /\ ~k.popped /\ k.op = "ListToJoin" /\ k.name = n
      BY <1>3, <2>3
    <3>2. alerts'[d] = <<>>
      BY <1>2, <1>3
    <3>3. WalkCall(d, k)'
      BY <1>0, <1>3, <2>4, <3>1, <3>2 DEF WalkCall
    <3> QED
      BY <1>0, <1>1, <1>3, <3>1, <3>2, <3>3, WalkWithCall
  <2> QED
    BY <1>0, <1>1, <1>2, <2>3, <2>4, <2>5, AnswerMove DEF TypeOK
<1> QED
  BY <1>4, <1>5 DEF AnswerGroup

LEMMA AnswerPasswordKeeps ==
    ASSUME IInv, NEW d \in Devices, AnswerPassword(d)
    PROVE  IInv'
<1>0. UNCHANGED <<sessions, client, found, editors, running, asked, unseated, overlapped>>
  BY DEF AnswerPassword, history
<1>1. /\ TypeOK /\ running[d] /\ alerts[d] # <<>> /\ Dismiss(d)
      /\ alerts[d][Len(alerts[d])] \in {"GroupPassword"}
  BY DEF IInv, Front, AnswerPassword
<1>2. AlertsTyped(d) /\ \A b : alerts[d] = <<b>> => alerts'[d] = <<>>
  BY <1>1, Dismisses
<1>3. /\ ~overlapped[d] => /\ calls[d] = {} /\ editors[d] = 0 /\ \E a : alerts[d] = <<a>>
                           /\ found[d] # None => sessions[found[d]].name = asked[d]
      /\ ~overlapped'[d] => ~overlapped[d]
  BY <1>0, <1>1, FrontWalk
<1>4. PICK password \in {None} \union DOMAIN sessions :
          Begin(d, "join", NoName, FALSE, found[d], password)
  BY DEF AnswerPassword
<1>5. password \in Nat /\ found[d] \in Nat
  BY <1>1 DEF IInv, TypeOK, DeviceInv, Placed, None
<1>6. PICK r \in Call : /\ ~r.refused /\ ~r.popped /\ r.op = "join" /\ r.session = found[d]
                        /\ BeginsAs(d, r)
  BY <1>4, <1>5 DEF Begin, FreeSlots, BeginsAs, Request, Call, Op, SessionOp
<1>7. /\ CallsStep(d)
      /\ calls[d] = {} => \E k \in Call : calls'[d] = {k} /\ ~k.popped /\ k.op = "join" /\ k.session = found[d]
  BY <1>1, <1>6, Begins
<1>8. ~overlapped'[d] => Walk(d)'
  <2> SUFFICES ASSUME ~overlapped'[d] PROVE Walk(d)'
    OBVIOUS
  <2>1. PICK k \in Call : calls'[d] = {k} /\ ~k.popped /\ k.op = "join" /\ k.session = found[d]
    BY <1>3, <1>7
  <2>2. alerts'[d] = <<>>
    BY <1>2, <1>3
  <2>3. WalkCall(d, k)'
    BY <1>0, <1>3, <2>1, <2>2 DEF WalkCall, IInv, DeviceInv, Placed
  <2> QED
    BY <1>0, <1>1, <1>3, <2>1, <2>2, <2>3, WalkWithCall
<1> QED
  BY <1>0, <1>1, <1>2, <1>7, <1>8, AnswerMove DEF TypeOK

LEMMA AnswerLeavingKeeps ==
    ASSUME IInv, NEW d \in Devices, AnswerLeaving(d)
    PROVE  IInv'
<1>0. UNCHANGED <<sessions, client, found, editors, running, asked, unseated, overlapped>>
  BY DEF AnswerLeaving, history
<1>1. /\ TypeOK /\ running[d] /\ alerts[d] # <<>> /\ Dismiss(d)
      /\ alerts[d][Len(alerts[d])] \in {"LeavingGroup"}
  BY DEF IInv, Front, AnswerLeaving
<1>2. AlertsTyped(d) /\ \A b : alerts[d] = <<b>> => alerts'[d] = <<>>
  BY <1>1, Dismisses
<1>3. /\ ~overlapped[d] => calls[d] = {} /\ editors[d] \in {0, 1} /\ \E a : alerts[d] = <<a>>
      /\ ~overlapped'[d] => ~overlapped[d]
  BY <1>0, <1>1, FrontWalk
<1>4. PICK op \in {"leave", "delete"} : Begin(d, op, NoName, FALSE, None, None)
  BY DEF AnswerLeaving
<1>5. PICK r \in Call : ~r.refused /\ ~r.popped /\ r.op = op /\ BeginsAs(d, r)
  BY <1>4 DEF Begin, FreeSlots, BeginsAs, Request, Call, Op, SessionOp, None
<1>6. /\ CallsStep(d)
      /\ calls[d] = {} => \E k \in Call : calls'[d] = {k} /\ ~k.popped /\ k.op = op
  BY <1>1, <1>5, Begins
<1>7. ~overlapped'[d] => Walk(d)'
  <2> SUFFICES ASSUME ~overlapped'[d] PROVE Walk(d)'
    OBVIOUS
  <2>1. PICK k \in Call : calls'[d] = {k} /\ ~k.popped /\ k.op = op
    BY <1>3, <1>6
  <2>2. alerts'[d] = <<>>
    BY <1>2, <1>3
  <2>3. WalkCall(d, k)'
    BY <2>1, <2>2 DEF WalkCall
  <2> QED
    BY <1>0, <1>1, <1>3, <2>1, <2>2, <2>3, WalkWithCall
<1> QED
  BY <1>0, <1>1, <1>2, <1>6, <1>7, AnswerMove DEF TypeOK

(* Only a user who did not wait sees an alert whose editor is gone.        *)
LEMMA AnswerOrphanKeeps ==
    ASSUME IInv, NEW d \in Devices, AnswerOrphan(d)
    PROVE  IInv'
<1>0. UNCHANGED <<sessions, client, found, editors, running, asked, unseated, overlapped>>
  BY DEF AnswerOrphan, history
<1>1. /\ TypeOK /\ alerts[d] # <<>> /\ Dismiss(d)
      /\ alerts[d][Len(alerts[d])] = "Orphan"
  BY DEF IInv, Front, AnswerOrphan
<1>2. AlertsTyped(d)
  BY <1>1, Dismisses
<1>3. overlapped'[d]
  <2>1. overlapped[d]
    BY <1>1, FrontWalk
  <2> QED
    BY <1>0, <2>1
<1>4. CallsStep(d)
  <2>1. CASE calls' = calls
    BY <1>1, <2>1, CallsStill
  <2>2. CASE \E op \in {"leave", "delete"} : BeginLate(d, op)
    <3>1. PICK op \in {"leave", "delete"} : BeginLate(d, op)
      BY <2>2
    <3>2. PICK slot \in Slots :
            BeginsAs(d, [Request(slot, op, NoName, FALSE, None, None) EXCEPT !.popped = TRUE])
      BY <3>1 DEF BeginLate, FreeSlots, BeginsAs
    <3>3. /\ [Request(slot, op, NoName, FALSE, None, None) EXCEPT !.popped = TRUE] \in Call
          /\ ~[Request(slot, op, NoName, FALSE, None, None) EXCEPT !.popped = TRUE].refused
      BY DEF Request, Call, Op, SessionOp, None
    <3> QED
      BY <1>1, <3>2, <3>3, Begins
  <2>3. CASE \E op \in {"leave", "delete"} : Begin(d, op, NoName, FALSE, None, None)
    <3>1. PICK op \in {"leave", "delete"} : Begin(d, op, NoName, FALSE, None, None)
      BY <2>3
    <3>2. PICK r \in Call : ~r.refused /\ ~r.popped /\ BeginsAs(d, r)
      BY <3>1 DEF Begin, FreeSlots, BeginsAs, Request, Call, Op, SessionOp, None
    <3> QED
      BY <1>1, <3>2, Begins
  <2> QED
    BY <2>1, <2>2, <2>3, Zenon DEF AnswerOrphan
<1> QED
  BY <1>0, <1>1, <1>2, <1>3, <1>4, AnswerMove DEF TypeOK

LEMMA PressLobbyButtonKeeps ==
    ASSUME IInv, NEW d \in Devices, PressLobbyButton(d)
    PROVE  IInv'
<1>0. /\ UNCHANGED <<sessions, client, calls, found, editors, running, asked, unseated>>
      /\ editors[d] = 0 /\ alerts[d] = <<>> /\ running[d] /\ TypeOK
      /\ overlapped' = [overlapped EXCEPT ![d] = calls[d] # {}]
  BY DEF PressLobbyButton, GoesOn, IInv
<1>1. PICK alert \in {"SelectConfiguration", "GroupName", "Notice"} : Show(d, alert)
  BY DEF PressLobbyButton
<1>2. alert \in Alert
  BY DEF Alert
<1>3. AlertsTyped(d) /\ alerts'[d] = <<alert>>
  BY <1>0, <1>1, <1>2, Shows
<1>4. CallsStep(d)
  BY <1>0, CallsStill
<1>5. /\ overlapped' \in [Devices -> BOOLEAN]
      /\ \A e \in Devices : e # d => overlapped'[e] = overlapped[e]
      /\ ~overlapped'[d] => calls[d] = {}
  BY <1>0, Zenon DEF TypeOK
<1>6. ~overlapped'[d] => Walk(d)'
  <2> SUFFICES ASSUME ~overlapped'[d] PROVE Walk(d)'
    OBVIOUS
  <2>1. WalkAlert(d, alert)'
    BY <1>0 DEF WalkAlert
  <2> QED
    BY <1>0, <1>2, <1>3, <1>5, <2>1, WalkWithAlert
<1>7. ~(editors[d] > 0)
  BY <1>0
<1> QED
  BY <1>0, <1>3, <1>4, <1>5, <1>6, <1>7, AnswerMove DEF TypeOK

LEMMA PressBackKeeps ==
    ASSUME IInv, NEW d \in Devices, PressBack(d)
    PROVE  IInv'
<1>0. /\ UNCHANGED <<sessions, client, found, editors, running, asked, unseated>>
      /\ editors[d] > 0 /\ alerts[d] = <<>> /\ running[d] /\ TypeOK
  BY DEF PressBack, GoesOn, IInv
<1>1. overlapped' = [overlapped EXCEPT ![d] = @ \/ calls[d] # {}]
  BY DEF PressBack
<1>2. /\ overlapped' \in [Devices -> BOOLEAN]
      /\ \A e \in Devices : e # d => overlapped'[e] = overlapped[e]
      /\ ~overlapped'[d] => calls[d] = {} /\ ~overlapped[d]
  BY <1>0, <1>1, Zenon DEF TypeOK
<1>3. ~overlapped'[d] => editors'[d] \in {0, 1}
  BY <1>0, <1>2 DEF IInv, DeviceInv, Walk
<1>4. CASE Show(d, "LeavingGroup") /\ calls' = calls
  <2>1. "LeavingGroup" \in Alert
    BY DEF Alert
  <2>2. AlertsTyped(d) /\ alerts'[d] = <<"LeavingGroup">>
    BY <1>0, <1>4, <2>1, Shows
  <2>3. CallsStep(d)
    BY <1>0, <1>4, CallsStill
  <2>4. WalkAlert(d, "LeavingGroup")'
    BY DEF WalkAlert
  <2>5. ~overlapped'[d] => Walk(d)'
    BY <1>0, <1>2, <1>3, <1>4, <2>1, <2>2, <2>4, WalkWithAlert
  <2> QED
    BY <1>0, <1>2, <2>2, <2>3, <2>5, AnswerMove DEF TypeOK
<1>5. CASE Begin(d, "leave", NoName, FALSE, None, None) /\ alerts' = alerts
  <2>1. AlertsTyped(d) /\ alerts'[d] = <<>>
    BY <1>0, <1>5 DEF AlertsTyped, TypeOK
  <2>2. PICK r \in Call : ~r.refused /\ ~r.popped /\ r.op = "leave" /\ BeginsAs(d, r)
    BY <1>5 DEF Begin, FreeSlots, BeginsAs, Request, Call, Op, SessionOp, None
  <2>3. /\ CallsStep(d)
        /\ calls[d] = {} => \E k \in Call : calls'[d] = {k} /\ ~k.popped /\ k.op = "leave"
    BY <1>0, <2>2, Begins
  <2>4. ~overlapped'[d] => Walk(d)'
    <3> SUFFICES ASSUME ~overlapped'[d] PROVE Walk(d)'
      OBVIOUS
    <3>1. PICK k \in Call : calls'[d] = {k} /\ ~k.popped /\ k.op = "leave"
      BY <1>2, <2>3
    <3>2. WalkCall(d, k)'
      BY <2>1, <3>1 DEF WalkCall
    <3> QED
      BY <1>0, <1>3, <2>1, <3>1, <3>2, WalkWithCall
  <2> QED
    BY <1>0, <1>2, <2>1, <2>3, <2>4, AnswerMove DEF TypeOK
<1> QED
  BY <1>4, <1>5, Zenon DEF PressBack

(* The session has ended, so the editor goes and the client stays in it.   *)
LEMMA TypeAfterEndKeeps ==
    ASSUME IInv, NEW d \in Devices, TypeAfterEnd(d)
    PROVE  IInv'
<1>0. /\ UNCHANGED <<sessions, client, found, running, asked, overlapped>>
      /\ running[d] /\ alerts[d] = <<>> /\ PopToRoot(d, calls[d]) /\ TypeOK /\ DeviceInv(d)
      /\ client[d].session \in DOMAIN sessions /\ sessions[client[d].session].ended
  BY DEF TypeAfterEnd, IInv, Live
<1>1. /\ AlertsTyped(d) /\ alerts'[d] = <<>>
      /\ editors' = [editors EXCEPT ![d] = 0]
      /\ unseated' = [unseated EXCEPT ![d] = {}]
      /\ calls' = [calls EXCEPT ![d] = Late(calls[d])]
  BY <1>0, Pops
<1>2. /\ editors' \in [Devices -> Nat] /\ editors'[d] = 0
      /\ unseated' \in [Devices -> SUBSET Unseated]
      /\ \A e \in Devices : e # d => editors'[e] = editors[e] /\ unseated'[e] = unseated[e]
  BY <1>0, <1>1 DEF TypeOK
<1>3. /\ calls' \in [Devices -> SUBSET Call]
      /\ \A e \in Devices : e # d => calls'[e] = calls[e]
      /\ calls'[d] = {Marked(o) : o \in calls[d]}
      /\ \A o \in calls[d] : /\ Marked(o) \in Call
                            /\ Marked(o).op = o.op /\ Marked(o).name = o.name
                            /\ Marked(o).session = o.session
                            /\ Marked(o).refused = o.refused
  <2>1. calls[d] \in SUBSET calls[d]
    OBVIOUS
  <2> QED
    BY <1>0, <1>1, <2>1, Lates
<1>4. TypeOK'
  BY <1>0, <1>1, <1>2, <1>3 DEF TypeOK, AlertsTyped
<1>5. OneAction(d)'
  <2>1. OneAction(d)
    BY <1>0 DEF DeviceInv
  <2>2. \A c \in calls'[d] : \E o \in calls[d] : c = Marked(o) /\ c.op = o.op /\ (Active(c) => Active(o))
    BY <1>3 DEF Active
  <2>3. \A c \in calls'[d] : Active(c) =>
           (client'[d].session # None <=> c.op \in {"leave", "delete"})
    BY <1>0, <2>1, <2>2 DEF OneAction
  <2>4. \A c, l \in calls'[d] : Active(c) /\ Active(l) => c = l
    BY <2>1, <2>2, Zenon DEF OneAction
  <2> QED
    BY <2>3, <2>4, Zenon DEF OneAction, Active
<1>6. Grows /\ \A e \in Devices : e # d => Same(e)
  BY <1>0, <1>1, <1>2, <1>3 DEF Grows, Same, AlertsTyped
<1>7. Placed(d)' /\ EditorInv(d)'
  BY <1>0, <1>2 DEF DeviceInv, Placed, EditorInv
<1>8. ~overlapped'[d] => Walk(d)'
  <2> SUFFICES ASSUME ~overlapped'[d] PROVE Walk(d)'
    OBVIOUS
  <2>1. Walk(d)
    BY <1>0 DEF DeviceInv
  <2>2. CASE calls[d] = {}
    <3>1. calls'[d] = {}
      BY <1>3, <2>2
    <3> QED
      BY <1>0, <1>1, <1>2, <3>1, WalkWithAlert
  <2>3. CASE \E k \in calls[d] : calls[d] = {k} /\ WalkCall(d, k)
    <3>1. PICK k \in calls[d] : calls[d] = {k} /\ WalkCall(d, k)
      BY <2>3
    <3>2. calls'[d] = {Marked(k)}
      BY <1>3, <3>1
    <3>3. WalkCall(d, Marked(k))'
      <4>1. /\ Marked(k).op = k.op /\ Marked(k).name = k.name
            /\ Marked(k).session = k.session
        BY <1>3
      <4>2. (Marked(k) = Marked(k)') /\ asked'[d] = asked[d]
            /\ sessions' = sessions /\ editors'[d] = 0 /\ alerts'[d] = <<>>
        BY <1>0, <1>1, <1>2 DEF Marked
      <4> HIDE DEF Marked
      <4> QED
        BY <3>1, <4>1, <4>2 DEF WalkCall
    <3> QED
      BY <1>0, <1>1, <1>2, <3>2, <3>3, WalkWithCall
  <2> QED
    BY <2>1, <2>2, <2>3, Zenon DEF Walk
<1> QED
  BY <1>4, <1>5, <1>6, <1>7, <1>8, StepKeeps DEF DeviceInv

LEMMA CrashOnOrphanKeeps ==
    ASSUME IInv, NEW d \in Devices, CrashOnOrphan(d)
    PROVE  IInv'
<1>0. TypeOK /\ alerts[d] # <<>> /\ alerts[d][Len(alerts[d])] = "Orphan"
  BY DEF IInv, Front, CrashOnOrphan
<1>1. overlapped'[d]
  <2>1. overlapped[d]
    BY <1>0, FrontWalk
  <2> QED
    BY <2>1 DEF CrashOnOrphan
<1>2. [session |-> None, owner |-> FALSE] \in Client
  BY DEF Client, None
<1>3. TypeOK'
  BY <1>0, <1>2, EmptySeq DEF TypeOK, CrashOnOrphan, None
<1>4. Grows /\ \A e \in Devices : e # d => Same(e)
  BY <1>0 DEF Grows, Same, TypeOK, CrashOnOrphan
<1>5. /\ client'[d].session = None /\ found'[d] = None /\ editors'[d] = 0
      /\ calls'[d] = {}
  BY <1>0 DEF TypeOK, CrashOnOrphan
<1>6. Placed(d)' /\ OneAction(d)' /\ EditorInv(d)'
  BY <1>5 DEF Placed, OneAction, EditorInv
<1> QED
  BY <1>1, <1>3, <1>4, <1>6, StepKeeps DEF DeviceInv

-----------------------------------------------------------------------------
(* What a completion handler changes of the device's own state.            *)
Touches(d) ==
    /\ AlertsTyped(d)
    /\ found' \in [Devices -> Nat]
    /\ editors' \in [Devices -> Nat]
    /\ asked' \in [Devices -> Names \union {NoName}]
    /\ unseated' \in [Devices -> SUBSET Unseated]
    /\ \A e \in Devices : e # d => /\ found'[e] = found[e] /\ editors'[e] = editors[e]
                                 /\ asked'[e] = asked[e] /\ unseated'[e] = unseated[e]

(* A completion handler that leaves session and client alone.              *)
LEMMA HandlerMove ==
    ASSUME IInv, NEW d \in Devices,
           UNCHANGED <<sessions, client, running, overlapped>>,
           CallsStep(d), Touches(d),
           found'[d] # None => found'[d] \in DOMAIN sessions,
           EditorInv(d)', ~overlapped[d] => Walk(d)'
    PROVE  IInv'
<1>1. /\ calls' \in [Devices -> SUBSET Call] /\ OneAction(d)'
      /\ \A e \in Devices : e # d => calls'[e] = calls[e]
  BY CallsMove
<1>2. TypeOK'
  BY <1>1 DEF IInv, TypeOK, Touches, AlertsTyped
<1>3. \A e \in Devices : e # d => Same(e)
  BY <1>1, Zenon DEF Same, Touches, AlertsTyped
<1>4. Grows
  BY DEF Grows
<1>5. Placed(d)'
  BY DEF IInv, DeviceInv, Placed
<1>6. DeviceInv(d)'
  BY <1>1, <1>5 DEF DeviceInv
<1> QED
  BY <1>2, <1>3, <1>4, <1>6, StepKeeps

(* The call of a user who waits is the only one.                           *)
LEMMA CallWalk ==
    ASSUME IInv, NEW d \in Devices, NEW k \in calls[d], ~overlapped[d]
    PROVE  /\ running[d] /\ editors[d] \in {0, 1}
           /\ calls[d] = {k} /\ WalkCall(d, k) /\ alerts[d] = <<>>
BY DEF IInv, DeviceInv, Walk, WalkCall

LEMMA Finished ==
    ASSUME TypeOK, NEW d \in Devices, NEW k \in calls[d], Finish(d, k)
    PROVE  /\ CallsStep(d) /\ calls'[d] = calls[d] \ {k}
           /\ calls[d] = {k} => calls'[d] = {}
<1>1. CallsStep(d)
  BY CallsLess
<1>2. calls'[d] = calls[d] \ {k}
  BY DEF Finish, TypeOK
<1> QED
  BY <1>1, <1>2

LEMMA NameIsFreeKeeps ==
    ASSUME IInv, NEW d \in Devices, NEW k \in calls[d], NameIsFree(d, k),
           UNCHANGED <<running, overlapped>>
    PROVE  IInv'
<1>0. /\ UNCHANGED <<sessions, client, found, alerts, editors, unseated, asked>>
      /\ TypeOK /\ DeviceInv(d) /\ k \in Call /\ k.op = "ListToCreate"
      /\ Continue(d, k, "create", k.name, None)
  BY DEF NameIsFree, IInv, TypeOK
<1>1. PICK r \in Call : ~r.refused /\ ~r.popped /\ r.op = "create" /\ ContinuesAs(d, k, r)
  BY <1>0 DEF Continue, ContinuesAs, Request, Call, Op, SessionOp, None
<1>2. /\ CallsStep(d)
      /\ calls[d] = {k} => \E c \in Call : calls'[d] = {c} /\ ~c.popped /\ c.op = "create"
  BY <1>0, <1>1, Continues
<1>3. Touches(d)
  BY <1>0 DEF Touches, AlertsTyped, TypeOK
<1>4. EditorInv(d)' /\ (found'[d] # None => found'[d] \in DOMAIN sessions)
  BY <1>0 DEF DeviceInv, EditorInv, Placed
<1>5. ASSUME ~overlapped[d] PROVE Walk(d)'
  <2>1. /\ running[d] /\ editors[d] = 0 /\ calls[d] = {k} /\ alerts[d] = <<>>
    BY <1>0, <1>5, CallWalk DEF WalkCall
  <2>2. PICK c \in Call : calls'[d] = {c} /\ ~c.popped /\ c.op = "create"
    BY <1>2, <2>1
  <2>3. WalkCall(d, c)'
    BY <1>0, <2>1, <2>2 DEF WalkCall
  <2> QED
    BY <1>0, <2>1, <2>2, <2>3, WalkWithCall
<1> QED
  BY <1>0, <1>2, <1>3, <1>4, <1>5, HandlerMove

(* A completion handler that shows an alert and ends the walk.             *)
LEMMA NoticeKeeps ==
    ASSUME IInv, NEW d \in Devices, NEW k \in calls[d],
           k.op \in {"ListToCreate", "ListToJoin", "join"},
           Finish(d, k), Show(d, "Notice"),
           asked' = asked \/ asked' = [asked EXCEPT ![d] = NoName],
           UNCHANGED <<sessions, client, found, editors, unseated, running, overlapped>>
    PROVE  IInv'
<1>0. TypeOK /\ DeviceInv(d) /\ "Notice" \in Alert
  BY DEF IInv, Alert
<1>1. AlertsTyped(d) /\ (alerts[d] = <<>> => alerts'[d] = <<"Notice">>)
  BY <1>0, Shows
<1>2. CallsStep(d) /\ (calls[d] = {k} => calls'[d] = {})
  BY <1>0, Finished
<1>3. Touches(d)
  BY <1>0, <1>1 DEF Touches, TypeOK
<1>4. EditorInv(d)' /\ (found'[d] # None => found'[d] \in DOMAIN sessions)
  BY <1>0 DEF DeviceInv, EditorInv, Placed
<1>5. ASSUME ~overlapped[d] PROVE Walk(d)'
  <2>1. /\ running[d] /\ editors[d] = 0 /\ calls[d] = {k} /\ alerts[d] = <<>>
    BY <1>5, CallWalk DEF WalkCall
  <2>2. WalkAlert(d, "Notice")'
    BY <2>1 DEF WalkAlert
  <2> QED
    BY <1>0, <1>1, <1>2, <2>1, <2>2, WalkWithAlert
<1> QED
  BY <1>2, <1>3, <1>4, <1>5, HandlerMove

LEMMA GroupFoundKeeps ==
    ASSUME IInv, NEW d \in Devices, NEW k \in calls[d], GroupFound(d, k),
           UNCHANGED <<running, overlapped>>
    PROVE  IInv'
<1>0. /\ UNCHANGED <<sessions, client, editors, unseated, asked>>
      /\ TypeOK /\ DeviceInv(d) /\ k \in Call /\ k.op = "ListToJoin"
  BY DEF GroupFound, IInv, TypeOK
<1>1. PICK s \in Named(k.name) :
          /\ found' = [found EXCEPT ![d] = s]
          /\ \/ Finish(d, k) /\ Show(d, "GroupPassword")
             \/ Continue(d, k, "join", NoName, s) /\ UNCHANGED alerts
  BY Zenon DEF GroupFound
<1>2. s \in Nat /\ s \in DOMAIN sessions /\ sessions[s].name = k.name
  BY <1>0 DEF Named, Live, TypeOK
<1>3. /\ found' \in [Devices -> Nat] /\ found'[d] = s
      /\ \A e \in Devices : e # d => found'[e] = found[e]
  BY <1>0, <1>1, <1>2 DEF TypeOK
<1>4. EditorInv(d)' /\ (found'[d] # None => found'[d] \in DOMAIN sessions)
  BY <1>0, <1>2, <1>3 DEF DeviceInv, EditorInv
<1>5. ~overlapped[d] => /\ running[d] /\ editors[d] = 0 /\ calls[d] = {k}
                        /\ alerts[d] = <<>> /\ asked[d] = k.name
  BY <1>0, CallWalk DEF WalkCall
<1>6. CASE Finish(d, k) /\ Show(d, "GroupPassword")
  <2>0. "GroupPassword" \in Alert
    BY DEF Alert
  <2>1. AlertsTyped(d) /\ (alerts[d] = <<>> => alerts'[d] = <<"GroupPassword">>)
    BY <1>0, <1>6, <2>0, Shows
  <2>2. CallsStep(d) /\ (calls[d] = {k} => calls'[d] = {})
    BY <1>0, <1>6, Finished
  <2>3. Touches(d)
    BY <1>0, <1>3, <2>1 DEF Touches, TypeOK
  <2>4. ASSUME ~overlapped[d] PROVE Walk(d)'
    <3>1. WalkAlert(d, "GroupPassword")'
      BY <1>0, <1>2, <1>3, <1>5, <2>4 DEF WalkAlert
    <3> QED
      BY <1>0, <1>5, <2>0, <2>1, <2>2, <2>4, <3>1, WalkWithAlert
  <2> QED
    BY <1>0, <1>4, <2>2, <2>3, <2>4, HandlerMove
<1>7. CASE Continue(d, k, "join", NoName, s) /\ UNCHANGED alerts
  <2>1. PICK r \in Call : ~r.refused /\ ~r.popped /\ r.op = "join" /\ r.session = s /\ ContinuesAs(d, k, r)
    BY <1>0, <1>2, <1>7 DEF Continue, ContinuesAs, Request, Call, Op, SessionOp, None
  <2>2. /\ CallsStep(d)
        /\ calls[d] = {k} => \E c \in Call : calls'[d] = {c} /\ ~c.popped /\ c.op = "join" /\ c.session = s
    BY <1>0, <2>1, Continues
  <2>3. Touches(d)
    BY <1>0, <1>3, <1>7 DEF Touches, AlertsTyped, TypeOK
  <2>4. ASSUME ~overlapped[d] PROVE Walk(d)'
    <3>1. PICK c \in Call : calls'[d] = {c} /\ ~c.popped /\ c.op = "join" /\ c.session = s
      BY <1>5, <2>2, <2>4
    <3>2. WalkCall(d, c)'
      BY <1>0, <1>2, <1>5, <1>7, <2>4, <3>1 DEF WalkCall
    <3> QED
      BY <1>0, <1>5, <1>7, <2>4, <3>1, <3>2, WalkWithCall
  <2> QED
    BY <1>0, <1>4, <2>2, <2>3, <2>4, HandlerMove
<1> QED
  BY <1>1, <1>6, <1>7

LEMMA GroupLookupLostKeeps ==
    ASSUME IInv, NEW d \in Devices, NEW k \in calls[d], GroupLookupLost(d, k),
           UNCHANGED <<running, overlapped>>
    PROVE  IInv'
<1>0. /\ UNCHANGED <<sessions, client, alerts, editors, unseated, asked>>
      /\ TypeOK /\ DeviceInv(d) /\ k \in Call /\ k.op = "ListToJoin"
      /\ found' = [found EXCEPT ![d] = None]
      /\ Continue(d, k, "join", NoName, None)
  BY DEF GroupLookupLost, IInv, TypeOK
<1>1. PICK r \in Call : ~r.refused /\ ~r.popped /\ r.op = "join" /\ r.session = None /\ ContinuesAs(d, k, r)
  BY <1>0 DEF Continue, ContinuesAs, Request, Call, Op, SessionOp, None
<1>2. /\ CallsStep(d)
      /\ calls[d] = {k} => \E c \in Call : calls'[d] = {c} /\ ~c.popped /\ c.op = "join" /\ c.session = None
  BY <1>0, <1>1, Continues
<1>3. Touches(d) /\ found'[d] = None
  BY <1>0 DEF Touches, AlertsTyped, TypeOK, None
<1>4. EditorInv(d)'
  BY <1>0 DEF DeviceInv, EditorInv
<1>5. ASSUME ~overlapped[d] PROVE Walk(d)'
  <2>1. /\ running[d] /\ editors[d] = 0 /\ calls[d] = {k} /\ alerts[d] = <<>>
    BY <1>0, <1>5, CallWalk DEF WalkCall
  <2>2. PICK c \in Call : calls'[d] = {c} /\ ~c.popped /\ c.op = "join" /\ c.session = None
    BY <1>2, <2>1
  <2>3. WalkCall(d, c)'
    BY <1>0, <2>1, <2>2 DEF WalkCall
  <2> QED
    BY <1>0, <2>1, <2>2, <2>3, WalkWithCall
<1> QED
  BY <1>0, <1>2, <1>3, <1>4, <1>5, HandlerMove

(* NotCreated and NotLeft.                                                 *)
LEMMA NothingHappensKeeps ==
    ASSUME IInv, NEW d \in Devices, NEW k \in calls[d], Finish(d, k),
           UNCHANGED <<sessions, client, found, alerts, editors, unseated, asked,
                       running, overlapped>>
    PROVE  IInv'
<1>0. TypeOK /\ DeviceInv(d)
  BY DEF IInv
<1>1. CallsStep(d) /\ (calls[d] = {k} => calls'[d] = {})
  BY <1>0, Finished
<1>2. Touches(d)
  BY <1>0 DEF Touches, AlertsTyped, TypeOK
<1>3. EditorInv(d)' /\ (found'[d] # None => found'[d] \in DOMAIN sessions)
  BY <1>0 DEF DeviceInv, EditorInv, Placed
<1>4. ASSUME ~overlapped[d] PROVE Walk(d)'
  <2>1. running[d] /\ editors[d] \in {0, 1} /\ calls[d] = {k} /\ alerts[d] = <<>>
    BY <1>4, CallWalk
  <2> QED
    BY <1>1, <2>1, WalkWithAlert
<1> QED
  BY <1>1, <1>2, <1>3, <1>4, HandlerMove

LEMMA NotJoinedKeeps ==
    ASSUME IInv, NEW d \in Devices, NEW k \in calls[d], NotJoined(d, k),
           UNCHANGED <<running, overlapped>>
    PROVE  IInv'
<1>0. /\ UNCHANGED <<sessions, client, found, alerts>>
      /\ TypeOK /\ DeviceInv(d) /\ k.op = "join" /\ Finish(d, k)
      /\ editors' = [editors EXCEPT ![d] = @ + 1]
      /\ unseated' = [unseated EXCEPT ![d] = @ \union {"failedJoin"}]
      /\ asked' = [asked EXCEPT ![d] = NoName]
  BY DEF NotJoined, OpenEditor, IInv
<1>1. CallsStep(d) /\ (calls[d] = {k} => calls'[d] = {})
  BY <1>0, Finished
<1>2. Touches(d) /\ editors'[d] = editors[d] + 1 /\ "failedJoin" \in unseated'[d] /\ editors[d] \in Nat
  BY <1>0 DEF Touches, AlertsTyped, TypeOK, Unseated
<1>3. EditorInv(d)' /\ (found'[d] # None => found'[d] \in DOMAIN sessions)
  BY <1>0, <1>2 DEF DeviceInv, EditorInv, Placed
<1>4. ASSUME ~overlapped[d] PROVE Walk(d)'
  <2>1. running[d] /\ editors[d] = 0 /\ calls[d] = {k} /\ alerts[d] = <<>>
    BY <1>0, <1>4, CallWalk DEF WalkCall
  <2> QED
    BY <1>0, <1>1, <1>2, <2>1, WalkWithAlert
<1> QED
  BY <1>0, <1>1, <1>2, <1>3, <1>4, HandlerMove

(* A session action that succeeds was the only one under way.              *)
CallsDone(d, k) ==
    /\ calls' \in [Devices -> SUBSET Call]
    /\ \A e \in Devices : e # d => calls'[e] = calls[e]
    /\ \A c \in calls'[d] : ~Active(c)
    /\ calls[d] = {k} => calls'[d] = {}

LEMMA FinishedDone ==
    ASSUME IInv, NEW d \in Devices, NEW k \in calls[d], Active(k), Finish(d, k)
    PROVE  CallsDone(d, k)
<1>1. TypeOK /\ OneAction(d)
  BY DEF IInv, DeviceInv
<1>2. CallsStep(d) /\ calls'[d] = calls[d] \ {k}
  BY <1>1, Finished
<1>3. /\ calls' \in [Devices -> SUBSET Call]
      /\ \A e \in Devices : e # d => calls'[e] = calls[e]
  BY <1>2, CallsMove
<1>4. \A c \in calls'[d] : ~Active(c)
  BY <1>1, <1>2, Zenon DEF OneAction
<1> QED
  BY <1>2, <1>3, <1>4 DEF CallsDone

LEMMA PoppedDone ==
    ASSUME IInv, NEW d \in Devices, NEW k \in calls[d], Active(k),
           calls' = [calls EXCEPT ![d] = Late(calls[d] \ {k})]
    PROVE  CallsDone(d, k)
<1> DEFINE others == calls[d] \ {k}
<1>1. TypeOK /\ OneAction(d) /\ others \in SUBSET calls[d]
  BY DEF IInv, DeviceInv
<1>2. \A o \in others : ~Active(o)
  BY <1>1, Zenon DEF OneAction
<1> HIDE DEF others
<1>3. calls' = [calls EXCEPT ![d] = Late(others)]
  BY DEF others
<1>4. /\ calls' \in [Devices -> SUBSET Call]
      /\ \A e \in Devices : e # d => calls'[e] = calls[e]
      /\ calls'[d] = {Marked(o) : o \in others}
      /\ \A o \in others : Marked(o).op = o.op /\ Marked(o).refused = o.refused
  BY <1>1, <1>3, Lates
<1>5. \A c \in calls'[d] : ~Active(c)
  <2> SUFFICES ASSUME NEW o \in others PROVE ~Active(Marked(o))
    BY <1>4, Zenon
  <2>1. Marked(o).op = o.op /\ Marked(o).refused = o.refused /\ ~Active(o)
    BY <1>2, <1>4
  <2> QED
    BY <2>1, Zenon DEF Active
<1>6. calls[d] = {k} => calls'[d] = {}
  BY <1>4 DEF others
<1> QED
  BY <1>4, <1>5, <1>6 DEF CallsDone

(* Whatever the client is in from now on.                                  *)
LEMMA SessionMove ==
    ASSUME IInv, NEW d \in Devices, NEW k \in calls[d], Active(k), CallsDone(d, k),
           Touches(d), Grows, sessions' \in Seq(Session),
           client' \in [Devices -> Client],
           \A e \in Devices : e # d => client'[e] = client[e],
           UNCHANGED <<found, running, overlapped>>,
           client'[d].session # None => client'[d].session \in DOMAIN sessions',
           EditorInv(d)',
           ~overlapped[d] => editors'[d] \in {0, 1} /\ alerts'[d] = <<>>
    PROVE  IInv'
<1>0. TypeOK /\ DeviceInv(d)
  BY DEF IInv
<1>2. /\ calls' \in [Devices -> SUBSET Call]
      /\ \A e \in Devices : e # d => calls'[e] = calls[e]
      /\ \A c \in calls'[d] : ~Active(c)
      /\ calls[d] = {k} => calls'[d] = {}
  BY DEF CallsDone
<1>3. TypeOK'
  BY <1>0, <1>2 DEF TypeOK, Touches, AlertsTyped
<1>4. \A e \in Devices : e # d => Same(e)
  BY <1>2, Zenon DEF Same, Touches, AlertsTyped
<1>5. OneAction(d)'
  BY <1>2, Zenon DEF OneAction, Active
<1>6. Placed(d)'
  BY <1>0 DEF DeviceInv, Placed, Grows
<1>7. ASSUME ~overlapped[d] PROVE Walk(d)'
  <2>1. running[d] /\ calls[d] = {k}
    BY <1>7, CallWalk
  <2> QED
    BY <1>2, <1>7, <2>1, WalkWithAlert
<1> QED
  BY <1>3, <1>4, <1>5, <1>6, <1>7, StepKeeps DEF DeviceInv

LEMMA CreatedKeeps ==
    ASSUME IInv, NEW d \in Devices, NEW k \in calls[d], Created(d, k),
           UNCHANGED <<running, overlapped>>
    PROVE  IInv'
<1> DEFINE new == [name |-> k.name, locked |-> k.locked, ended |-> FALSE]
<1>0. /\ UNCHANGED <<found, alerts, unseated, asked>>
      /\ TypeOK /\ DeviceInv(d) /\ k \in Call /\ k.op = "create" /\ ~k.refused /\ Finish(d, k)
      /\ sessions' = Append(sessions, new)
      /\ client' = [client EXCEPT ![d] = [session |-> Len(sessions) + 1, owner |-> TRUE]]
      /\ editors' = [editors EXCEPT ![d] = @ + 1]
  BY DEF Created, OpenEditor, IInv, TypeOK
<1>1. Active(k)
  BY <1>0 DEF Active, SessionOp
<1>2. new \in Session /\ sessions \in Seq(Session)
  BY <1>0 DEF Session, Call, TypeOK
<1> HIDE DEF new
<1>3. /\ sessions' \in Seq(Session) /\ Len(sessions') = Len(sessions) + 1
      /\ Len(sessions) \in Nat
      /\ DOMAIN sessions' = 1..(Len(sessions) + 1) /\ DOMAIN sessions = 1..Len(sessions)
      /\ \A s \in DOMAIN sessions : sessions'[s] = sessions[s]
  BY <1>0, <1>2, AppendProperties, LenProperties
<1>4. Grows
  BY <1>3 DEF Grows
<1>5. /\ client' \in [Devices -> Client] /\ client'[d].session = Len(sessions) + 1
      /\ \A e \in Devices : e # d => client'[e] = client[e]
  BY <1>0, <1>3 DEF TypeOK, Client
<1>6. /\ client'[d].session \in DOMAIN sessions'
      /\ client'[d].session # None
  BY <1>3, <1>5 DEF None
<1>7. Touches(d) /\ editors'[d] = editors[d] + 1 /\ editors[d] \in Nat
  BY <1>0 DEF Touches, AlertsTyped, TypeOK
<1>8. EditorInv(d)'
  BY <1>6, <1>7 DEF EditorInv
<1>9. ~overlapped[d] => editors'[d] \in {0, 1} /\ alerts'[d] = <<>>
  BY <1>0, <1>7, CallWalk DEF WalkCall
<1>10. CallsDone(d, k)
  BY <1>0, <1>1, FinishedDone
<1> QED
  BY <1>0, <1>1, <1>3, <1>4, <1>5, <1>6, <1>7, <1>8, <1>9, <1>10, SessionMove

LEMMA JoinedKeeps ==
    ASSUME IInv, NEW d \in Devices, NEW k \in calls[d], Joined(d, k),
           UNCHANGED <<running, overlapped>>
    PROVE  IInv'
<1>0. /\ UNCHANGED <<sessions, found, alerts, unseated>>
      /\ TypeOK /\ DeviceInv(d) /\ k \in Call /\ k.op = "join" /\ ~k.refused /\ Finish(d, k)
      /\ k.session \in DOMAIN sessions
      /\ client' = [client EXCEPT ![d] = [session |-> k.session, owner |-> FALSE]]
      /\ editors' = [editors EXCEPT ![d] = @ + 1]
      /\ asked' = [asked EXCEPT ![d] = NoName]
  BY DEF Joined, OpenEditor, Live, IInv, TypeOK
<1>1. Active(k)
  BY <1>0 DEF Active, SessionOp
<1>2. Grows
  BY <1>0 DEF Grows
<1>3. k.session \in Nat /\ k.session # None
  BY <1>0 DEF TypeOK, None
<1>4. /\ client' \in [Devices -> Client] /\ client'[d].session = k.session
      /\ \A e \in Devices : e # d => client'[e] = client[e]
  BY <1>0, <1>3 DEF TypeOK, Client
<1>5. Touches(d) /\ editors'[d] = editors[d] + 1 /\ editors[d] \in Nat
  BY <1>0 DEF Touches, AlertsTyped, TypeOK
<1>6. EditorInv(d)'
  BY <1>3, <1>4, <1>5 DEF EditorInv
<1>7. ~overlapped[d] => editors'[d] \in {0, 1} /\ alerts'[d] = <<>>
  BY <1>0, <1>5, CallWalk DEF WalkCall
<1>8. sessions' \in Seq(Session)
  BY <1>0 DEF TypeOK
<1>9. CallsDone(d, k)
  BY <1>0, <1>1, FinishedDone
<1> QED
  BY <1>0, <1>1, <1>2, <1>4, <1>5, <1>6, <1>7, <1>8, <1>9, SessionMove

LEMMA LeftKeeps ==
    ASSUME IInv, NEW d \in Devices, NEW k \in calls[d], Left(d, k),
           UNCHANGED <<running, overlapped>>
    PROVE  IInv'
<1> DEFINE after(s) == IF s = client[d].session /\ k.op = "delete" /\ client[d].owner
                       THEN [sessions[s] EXCEPT !.ended = TRUE] ELSE sessions[s]
<1>0. /\ UNCHANGED <<found, asked>>
      /\ TypeOK /\ DeviceInv(d) /\ k.op \in {"leave", "delete"} /\ ~k.refused
      /\ sessions' = [s \in DOMAIN sessions |-> after(s)]
      /\ client' = [client EXCEPT ![d] = [session |-> None, owner |-> FALSE]]
      /\ PopIfThere(d, k)
  BY DEF Left, IInv
<1>1. Active(k)
  BY <1>0 DEF Active, SessionOp
<1>2. sessions \in Seq(Session) /\ DOMAIN sessions = 1..Len(sessions) /\ Len(sessions) \in Nat
      /\ \A s \in DOMAIN sessions : sessions[s] \in Session
  BY <1>0, LenProperties, ElementOfSeq DEF TypeOK
<1>3. \A s \in DOMAIN sessions : /\ after(s) \in Session
                                 /\ after(s).name = sessions[s].name
                                 /\ sessions[s].ended => after(s).ended
  BY <1>2 DEF Session
<1> HIDE DEF after
<1>4. sessions' \in [1..Len(sessions) -> Session]
  BY <1>0, <1>2, <1>3
<1>5. sessions' \in Seq(Session)
  BY <1>2, <1>4, FunctionIsSequence
<1>6. Grows
  BY <1>0, <1>3 DEF Grows
<1>7. /\ client' \in [Devices -> Client] /\ client'[d].session = None
      /\ \A e \in Devices : e # d => client'[e] = client[e]
  BY <1>0 DEF TypeOK, Client, None
<1>8. CASE ~k.popped /\ PopToRoot(d, calls[d] \ {k})
  <2>1. /\ AlertsTyped(d) /\ (alerts[d] = <<>> => alerts'[d] = <<>>)
        /\ editors' = [editors EXCEPT ![d] = 0]
        /\ unseated' = [unseated EXCEPT ![d] = {}]
        /\ calls' = [calls EXCEPT ![d] = Late(calls[d] \ {k})]
    BY <1>0, <1>8, Pops
  <2>2. Touches(d) /\ editors'[d] = 0
    BY <1>0, <2>1 DEF Touches, TypeOK
  <2>3. EditorInv(d)'
    BY <1>7, <2>2 DEF EditorInv
  <2>4. ~overlapped[d] => alerts[d] = <<>>
    BY CallWalk
  <2>5. CallsDone(d, k)
    BY <1>1, <2>1, PoppedDone
  <2> QED
    BY <1>0, <1>1, <1>5, <1>6, <1>7, <2>1, <2>2, <2>3, <2>4, <2>5, SessionMove
<1>9. CASE /\ k.popped /\ Finish(d, k)
           /\ unseated' = [unseated EXCEPT ![d] =
                 IF editors[d] > 0 THEN @ \union {"lateLeave"} ELSE @]
           /\ UNCHANGED <<alerts, editors>>
  <2>1. /\ Touches(d) /\ editors'[d] = editors[d]
        /\ editors[d] > 0 => "lateLeave" \in unseated'[d]
    BY <1>0, <1>9 DEF Touches, AlertsTyped, TypeOK, Unseated
  <2>2. ~overlapped[d] => editors[d] = 0 /\ alerts[d] = <<>>
    BY <1>9, CallWalk DEF WalkCall
  <2>3. EditorInv(d)'
    BY <1>0, <1>7, <2>1, <2>2 DEF EditorInv, TypeOK
  <2>4. CallsDone(d, k)
    BY <1>1, <1>9, FinishedDone
  <2> QED
    BY <1>0, <1>1, <1>5, <1>6, <1>7, <1>9, <2>1, <2>2, <2>3, <2>4, SessionMove
<1> QED
  BY <1>0, <1>8, <1>9, Zenon DEF PopIfThere

LEMMA CompleteKeeps ==
    ASSUME IInv, NEW d \in Devices, Complete(d)
    PROVE  IInv'
<1>0. UNCHANGED <<running, overlapped>>
  BY DEF Complete
<1>1. PICK k \in calls[d] :
          \/ NameIsFree(d, k)
          \/ NameIsTaken(d, k)
          \/ GroupFound(d, k)
          \/ GroupNotFound(d, k)
          \/ GroupLookupLost(d, k)
          \/ Created(d, k)
          \/ NotCreated(d, k)
          \/ Joined(d, k)
          \/ BadPassword(d, k)
          \/ NotJoined(d, k)
          \/ Left(d, k)
          \/ NotLeft(d, k)
  BY Zenon DEF Complete
<1>2. CASE NameIsFree(d, k)
  BY <1>0, <1>2, NameIsFreeKeeps
<1>3. CASE NameIsTaken(d, k)
  BY <1>0, <1>3, NoticeKeeps DEF NameIsTaken
<1>4. CASE GroupFound(d, k)
  BY <1>0, <1>4, GroupFoundKeeps
<1>5. CASE GroupNotFound(d, k)
  BY <1>0, <1>5, NoticeKeeps DEF GroupNotFound
<1>6. CASE GroupLookupLost(d, k)
  BY <1>0, <1>6, GroupLookupLostKeeps
<1>7. CASE Created(d, k)
  BY <1>0, <1>7, CreatedKeeps
<1>8. CASE NotCreated(d, k)
  BY <1>0, <1>8, NothingHappensKeeps DEF NotCreated
<1>9. CASE Joined(d, k)
  BY <1>0, <1>9, JoinedKeeps
<1>10. CASE BadPassword(d, k)
  BY <1>0, <1>10, NoticeKeeps DEF BadPassword
<1>11. CASE NotJoined(d, k)
  BY <1>0, <1>11, NotJoinedKeeps
<1>12. CASE Left(d, k)
  BY <1>0, <1>12, LeftKeeps
<1>13. CASE NotLeft(d, k)
  BY <1>0, <1>13, NothingHappensKeeps DEF NotLeft
<1> QED
  BY <1>1, <1>2, <1>3, <1>4, <1>5, <1>6, <1>7, <1>8, <1>9, <1>10, <1>11, <1>12, <1>13

-----------------------------------------------------------------------------
LEMMA InitEstablishes ==
    ASSUME Init
    PROVE  IInv
<1>1. TypeOK
  BY EmptySeq DEF Init, TypeOK, Client, None
<1>2. \A d \in Devices : DeviceInv(d)
  BY DEF Init, DeviceInv, Placed, OneAction, EditorInv, Walk
<1> QED
  BY <1>1, <1>2 DEF IInv

LEMMA NextKeeps ==
    ASSUME IInv, [Next]_vars
    PROVE  IInv'
<1>1. CASE UNCHANGED vars
  BY <1>1 DEF vars, IInv, TypeOK, DeviceInv, Placed, OneAction, Active, EditorInv,
              Walk, WalkCall, WalkAlert
<1>2. ASSUME NEW d \in Devices,
             \/ PressLobbyButton(d)
             \/ AnswerConfiguration(d)
             \/ AnswerNewName(d)
             \/ AnswerBlank(d)
             \/ AnswerGroup(d)
             \/ AnswerPassword(d)
             \/ AnswerNotice(d)
             \/ PressBack(d)
             \/ AnswerLeaving(d)
             \/ AnswerOrphan(d)
             \/ CrashOnOrphan(d)
             \/ TypeAfterEnd(d)
             \/ Complete(d)
      PROVE  IInv'
  BY <1>2, PressLobbyButtonKeeps, AnswerConfigurationKeeps, AnswerNewNameKeeps,
     AnswerBlankKeeps, AnswerGroupKeeps, AnswerPasswordKeeps, AnswerNoticeKeeps,
     PressBackKeeps, AnswerLeavingKeeps, AnswerOrphanKeeps, CrashOnOrphanKeeps,
     TypeAfterEndKeeps, CompleteKeeps
<1> QED
  BY <1>1, <1>2, Zenon DEF Next

LEMMA Invariance == Spec => []IInv
<1>1. Init => IInv
  BY InitEstablishes
<1>2. IInv /\ [Next]_vars => IInv'
  BY NextKeeps
<1> QED
  BY <1>1, <1>2, PTL DEF Spec

(* Every variable of the lobby keeps its type; in particular the sessions  *)
(* of the service stay a sequence of groups with names.                    *)
THEOREM LobbyTypeCorrect == Spec => []TypeOK
<1>1. IInv => TypeOK
  BY DEF IInv
<1> QED
  BY <1>1, Invariance, PTL

(* An editor is on screen without a session only when a failed join opened *)
(* it (ViewController2.mm:63), or when the user did not wait and a popped  *)
(* editor left the session (ViewController.mm:92, :101), with any number   *)
(* of devices and overlapping walks.                                       *)
THEOREM EditorsHaveSessions == Spec => []EditorHasSession
<1>1. IInv => EditorHasSession
  BY DEF IInv, DeviceInv, EditorInv, EditorHasSession
<1> QED
  BY <1>1, Invariance, PTL

(* Back in the lobby the client has left its session, or the session has   *)
(* ended (ViewController.mm:187).                                          *)
THEOREM LobbyHasLeft == Spec => []LobbyLeftSession
<1>1. IInv => LobbyLeftSession
  BY DEF IInv, DeviceInv, EditorInv, LobbyLeftSession
<1> QED
  BY <1>1, Invariance, PTL

(* A user who waits for every answer never has two editors, two alerts or  *)
(* two calls, nor a dead application.                                      *)
THEOREM WaitingKeepsOrder == Spec => []OneThingAtATime
<1>1. IInv => OneThingAtATime
  <2> SUFFICES ASSUME IInv, NEW d \in Devices, ~overlapped[d]
               PROVE  /\ editors[d] <= 1
                      /\ Len(alerts[d]) <= 1
                      /\ Cardinality(calls[d]) <= 1
                      /\ calls[d] # {} => alerts[d] = <<>>
                      /\ running[d]
    BY DEF OneThingAtATime
  <2>1. Walk(d)
    BY DEF IInv, DeviceInv
  <2>2. editors[d] <= 1 /\ running[d] /\ (calls[d] # {} => alerts[d] = <<>>)
    BY <2>1 DEF Walk, WalkCall
  <2>3. Len(alerts[d]) <= 1
    <3>1. CASE alerts[d] = <<>>
      BY <3>1
    <3>2. CASE \E a \in Alert : alerts[d] = <<a>>
      BY <3>2
    <3> QED
      BY <2>1, <3>1, <3>2 DEF Walk
  <2>4. Cardinality(calls[d]) <= 1
    <3>1. CASE calls[d] = {}
      BY <3>1, FS_EmptySet
    <3>2. CASE \E k \in calls[d] : calls[d] = {k}
      <4>1. PICK k \in calls[d] : calls[d] = {k}
        BY <3>2
      <4>2. Cardinality({k}) = 1
        BY FS_Singleton
      <4> QED
        BY <4>1, <4>2
    <3> QED
      BY <2>1, <3>1, <3>2 DEF Walk
  <2> QED
    BY <2>2, <2>3, <2>4
<1> QED
  BY <1>1, Invariance, PTL

(* A user who waits joins the group he named, whatever look-ups failed on  *)
(* the way (ViewController2.mm:339).                                       *)
THEOREM WaitingJoinsWhatIsAsked == Spec => JoinsWhatIsAsked
<1>1. ASSUME IInv, [Next]_vars, ~UNCHANGED vars, NEW d \in Devices,
             client'[d] # client[d], client'[d].session # None,
             ~client'[d].owner, ~overlapped[d]
      PROVE  sessions[client'[d].session].name = asked[d]
  <2>0. client \in [Devices -> Client]
    BY <1>1 DEF IInv, TypeOK
  <2>1. PICK e \in Devices : client' # client /\ (CrashOnOrphan(e) \/ Complete(e))
    <3>1. client' # client
      BY <1>1
    <3> QED
      BY <1>1, <3>1, Zenon DEF Next, history, PressLobbyButton, AnswerConfiguration, AnswerNewName,
         AnswerBlank, AnswerGroup, AnswerPassword, AnswerNotice, PressBack, AnswerLeaving,
         AnswerOrphan, TypeAfterEnd
  <2>2. ~CrashOnOrphan(e)
    BY <1>1, <2>0 DEF CrashOnOrphan
  <2>3. PICK k \in calls[e] : Created(e, k) \/ Joined(e, k) \/ Left(e, k)
    BY <2>1, <2>2, Zenon DEF Complete, NameIsFree, NameIsTaken, GroupFound, GroupNotFound,
       GroupLookupLost, NotCreated, BadPassword, NotJoined, NotLeft
  <2>4. ~Created(e, k) /\ ~Left(e, k)
    BY <1>1, <2>0 DEF Created, Left
  <2>5. /\ k.op = "join" /\ k.session \in DOMAIN sessions
        /\ client' = [client EXCEPT ![e] = [session |-> k.session, owner |-> FALSE]]
    BY <2>3, <2>4 DEF Joined, Live
  <2>6. e = d /\ client'[d].session = k.session
    BY <1>1, <2>0, <2>5
  <2>7. WalkCall(d, k)
    BY <1>1, <2>6, CallWalk
  <2> QED
    BY <1>1, <2>5, <2>6, <2>7 DEF WalkCall
<1>2. IInv /\ [Next]_vars =>
        [\A d \in Devices :
          /\ client'[d] # client[d]
          /\ client'[d].session # None
          /\ ~client'[d].owner
          /\ ~overlapped[d]
          => sessions[client'[d].session].name = asked[d]]_vars
  BY <1>1
<1> QED
  BY <1>2, Invariance, PTL DEF Spec, JoinsWhatIsAsked

(* The editor a failed join opened is never closed while the application   *)
(* runs (ViewController.mm, segueBack:).                                   *)
THEOREM NoWayBackHolds == Spec => NoWayBack
<1>1. ASSUME IInv, [Next]_vars, ~UNCHANGED vars, NEW d \in Devices,
             editors[d] > 0, client[d].session = None, running'[d]
      PROVE  editors'[d] >= editors[d]
  <2>0. /\ TypeOK /\ DeviceInv(d) /\ editors \in [Devices -> Nat]
        /\ running \in [Devices -> BOOLEAN]
    BY <1>1 DEF IInv, TypeOK
  <2>1. CASE editors' = editors
    BY <2>0, <2>1
  <2>2. CASE editors' # editors
    <3>1. PICK e \in Devices : CrashOnOrphan(e) \/ TypeAfterEnd(e) \/ Complete(e)
      BY <1>1, <2>2, Zenon DEF Next, history, PressLobbyButton, AnswerConfiguration, AnswerNewName,
         AnswerBlank, AnswerGroup, AnswerPassword, AnswerNotice, PressBack, AnswerLeaving,
         AnswerOrphan
    <3>2. CASE CrashOnOrphan(e)
      BY <1>1, <2>0, <3>2 DEF CrashOnOrphan
    <3>3. CASE TypeAfterEnd(e)
      <4>1. e # d
        BY <1>1, <2>0, <3>3 DEF TypeAfterEnd, TypeOK, None
      <4> QED
        BY <2>0, <3>3, <4>1 DEF TypeAfterEnd, PopToRoot
    <3>4. CASE Complete(e)
      <4>0. PICK k \in calls[e] : OpenEditor(e) \/ Left(e, k)
        BY <2>2, <3>4, Zenon DEF Complete, NameIsFree, NameIsTaken, GroupFound, GroupNotFound,
           GroupLookupLost, Created, NotCreated, Joined, BadPassword, NotJoined, NotLeft
      <4>1. OpenEditor(e) \/ (Left(e, k) /\ editors' = [editors EXCEPT ![e] = 0])
        BY <2>2, <4>0, Zenon DEF Left, PopIfThere, PopToRoot
      <4>2. CASE OpenEditor(e)
        BY <2>0, <4>2 DEF OpenEditor
      <4>3. CASE Left(e, k) /\ editors' = [editors EXCEPT ![e] = 0]
        <5>1. Active(k) /\ k.op \in {"leave", "delete"}
          BY <4>3 DEF Left, Active, SessionOp
        <5>2. e # d
          BY <1>1, <2>0, <5>1, Zenon DEF DeviceInv, OneAction
        <5> QED
          BY <2>0, <4>3, <5>2
      <4> QED
        BY <4>1, <4>2, <4>3
    <3> QED
      BY <3>1, <3>2, <3>3, <3>4
  <2> QED
    BY <2>1, <2>2
<1>2. IInv /\ [Next]_vars =>
        [\A d \in Devices :
          editors[d] > 0 /\ client[d].session = None /\ running'[d]
          => editors'[d] >= editors[d]]_vars
  BY <1>1
<1> QED
  BY <1>2, Invariance, PTL DEF Spec, NoWayBack
=============================================================================
