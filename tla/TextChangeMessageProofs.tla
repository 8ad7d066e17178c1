---------------------- MODULE TextChangeMessageProofs ----------------------
(***************************************************************************)
(* Proofs about TextChangeMessage, for any values, any strings and any     *)
(* encodings that may arrive: the jumps of the parser read only what is    *)
(* there, a message shows its defaults where nothing was set, what has     *)
(* been read means what it says, only whole encodings are accepted and a   *)
(* message that is serialized and parsed comes out as it went in.          *)
(***************************************************************************)
EXTENDS TextChangeMessage, SequenceTheorems, TLAPS

Stages == {"idle", "loop", "switch", "jump"}

(* The parser stands before a field that is there; a jump is made only to  *)
(* the field whose tag was guessed.                                        *)
StageInv ==
    /\ stage \in Stages /\ accepted \in BOOLEAN
    /\ IsWire(wire) /\ at \in 0..Len(wire)
    /\ stage \in {"switch", "jump"} => TagWhole(at + 1)
    /\ stage = "switch" => ~IsZeroTag(wire[at + 1])
    /\ stage = "jump" => /\ at > 0 /\ wire[at].number \in {1, 2}
                         /\ IsField(wire[at + 1], wire[at].number + 1)

(* A message a program can hold: defaults where no bit is set, and nothing *)
(* kept aside that is a field of this version.                             *)
MessageOK(m) ==
    /\ m \in Message
    /\ \A number \in (1..3) \ m.has : m.value[number] = Default(number)
    /\ \A i \in 1..Len(m.unknown) : /\ ~IsKnown(m.unknown[i])
                                   /\ m.unknown[i].value \in Values(m.unknown[i].type)

(* Everything read so far was whole.                                       *)
WholeInv ==
    \A i \in 1..at : wire[i].cut = "no" /\ wire[i].type \notin {"endGroup", "bad"}

(* How many fields of this version a message with number as its last has.  *)
Bit(m, number) == IF number \in m.has THEN 1 ELSE 0
KnownTo(m, number) ==
    Bit(m, 1) + (IF number >= 2 THEN Bit(m, 2) ELSE 0) + (IF number = 3 THEN Bit(m, 3) ELSE 0)
KnownOf(m) == KnownTo(m, 3)

(* w is the encoding of m.                                                 *)
Encodes(w, m) ==
    /\ Len(w) = KnownOf(m) + Len(m.unknown)
    /\ \A number \in m.has : w[KnownTo(m, number)] = Field(number, m.value[number])
    /\ \A i \in 1..Len(m.unknown) : w[KnownOf(m) + i] = m.unknown[i]

(* m is what the first n fields of the encoding of s say.                  *)
IsReadTo(m, s, n) ==
    /\ m.has = {number \in s.has : KnownTo(s, number) <= n}
    /\ \A number \in m.has : m.value[number] = s.value[number]
    /\ n <= KnownOf(s) => m.unknown = <<>>
    /\ n > KnownOf(s) => m.unknown = SubSeq(s.unknown, 1, n - KnownOf(s))

(* The message under construction is the part of the sent one read so far. *)
SentInv ==
    sent # None => /\ stage # "idle"
                   /\ MessageOK(sent) /\ Encodes(wire, sent)
                   /\ IsReadTo(msg, sent, at)

MessageInv ==
    StageInv /\ MessageOK(msg) /\ WholeInv /\ MeansWhatWasRead /\ SentInv

(***************************************************************************)
(* What the accessors of a message do.                                     *)
(***************************************************************************)
LEMMA Constants ==
    /\ Zero \in Ints /\ Empty \in Strings /\ Partial \notin Strings \cup Ints
    /\ \A w \in Wires : IsWire(w)
BY TextChangeMessageAssumption

LEMMA NewIsOK == MessageOK(New) /\ New.has = {} /\ New.unknown = <<>>
BY Constants DEF MessageOK, New, Message, Default, Values, WireType

(* set_ stores a value with its bit and changes nothing else.              *)
LEMMA SetFacts ==
    ASSUME NEW m, MessageOK(m), NEW number \in 1..3, NEW value \in Values(WireType(number))
    PROVE  /\ MessageOK(Set(m, number, value))
           /\ Set(m, number, value).has = m.has \cup {number}
           /\ Set(m, number, value).unknown = m.unknown
           /\ Set(m, number, value).value = [m.value EXCEPT ![number] = value]
<1>1. m \in Message
  BY DEF MessageOK
<1>2. value \in Ints \cup Strings \cup {Partial}
  BY Constants DEF Values, WireType
<1>3. /\ Set(m, number, value) \in Message
      /\ Set(m, number, value).has = m.has \cup {number}
      /\ Set(m, number, value).unknown = m.unknown
      /\ Set(m, number, value).value = [m.value EXCEPT ![number] = value]
  BY <1>1, <1>2 DEF Set, Message
<1> QED
  BY <1>1, <1>3 DEF MessageOK, Message

(* clear_ takes the bit away and puts the default back.                    *)
LEMMA UnsetFacts ==
    ASSUME NEW m, MessageOK(m), NEW number \in 1..3
    PROVE  MessageOK(Unset(m, number))
<1>1. m \in Message
  BY DEF MessageOK
<1>2. Default(number) \in Values(WireType(number))
  BY Constants DEF Default, Values, WireType
<1>3. Default(number) \in Ints \cup Strings \cup {Partial}
  BY Constants DEF Default
<1>4. /\ Unset(m, number) \in Message
      /\ Unset(m, number).has = m.has \ {number}
      /\ Unset(m, number).unknown = m.unknown
      /\ Unset(m, number).value = [m.value EXCEPT ![number] = Default(number)]
  BY <1>1, <1>2, <1>3 DEF Unset, Message
<1> QED
  BY <1>1, <1>4 DEF MessageOK, Message

(* Clear empties a string only if its bit is set: a message is New again,  *)
(* because without a bit there is nothing to empty.                        *)
LEMMA ClearFacts ==
    ASSUME NEW m, MessageOK(m)
    PROVE  Clear(m) = New
<1>1. m \in Message
  BY DEF MessageOK
<1>2. \A number \in 1..3 : number \notin m.has => m.value[number] = Default(number)
  BY <1>1 DEF MessageOK, Message
<1>3. Clear(m).value = New.value
  <2> DEFINE cleared(number) == IF number = 2 THEN 2 \in m.has ELSE m.has # {}
  <2>1. \A number \in 1..3 : ~cleared(number) => m.value[number] = Default(number)
    BY <1>2
  <2>2. Clear(m).value = [number \in 1..3 |->
                            IF cleared(number) THEN Default(number) ELSE m.value[number]]
    BY DEF Clear
  <2> HIDE DEF cleared
  <2> QED
    BY <2>1, <2>2 DEF New
<1> QED
  BY <1>3 DEF Clear, New

(* A field kept aside comes after the ones kept before.                    *)
LEMMA KeepFacts ==
    ASSUME NEW m, MessageOK(m), NEW f \in KeptFields, ~IsKnown(f), f.value \in Values(f.type)
    PROVE  LET k == [m EXCEPT !.unknown = Append(@, f)]
           IN  /\ MessageOK(k) /\ k.has = m.has /\ k.value = m.value
               /\ k.unknown = Append(m.unknown, f)
<1> DEFINE k == [m EXCEPT !.unknown = Append(@, f)]
<1>1. m \in Message /\ m.unknown \in Seq(KeptFields)
  BY DEF MessageOK, Message
<1>2. /\ k \in Message /\ k.has = m.has /\ k.value = m.value
      /\ k.unknown = Append(m.unknown, f)
  <2>1. Append(m.unknown, f) \in Seq(KeptFields)
    BY <1>1
  <2> QED
    BY <1>1, <2>1 DEF Message
<1>3. \A i \in 1..Len(k.unknown) : /\ ~IsKnown(k.unknown[i])
                                   /\ k.unknown[i].value \in Values(k.unknown[i].type)
  BY <1>1, <1>2 DEF MessageOK
<1> HIDE DEF k
<1>4. MessageOK(k)
  BY <1>1, <1>2, <1>3 DEF MessageOK
<1> QED
  BY <1>2, <1>4 DEF k

(* Two sequences in a row.                                                 *)
LEMMA Joined ==
    ASSUME NEW S, NEW s \in Seq(S), NEW t \in Seq(S)
    PROVE  /\ Len(s \o t) = Len(s) + Len(t)
           /\ \A i \in 1..Len(s) : (s \o t)[i] = s[i]
           /\ \A i \in 1..Len(t) : (s \o t)[Len(s) + i] = t[i]
<1>1. Len(s) \in Nat /\ Len(t) \in Nat
  OBVIOUS
<1> QED
  BY <1>1, ConcatProperties

(* The start of a sequence, and the same with one element more.            *)
LEMMA OneMore ==
    ASSUME NEW S, NEW s \in Seq(S), NEW n \in 1..Len(s)
    PROVE  SubSeq(s, 1, n) = SubSeq(s, 1, n - 1) \o <<s[n]>>
<1>1. Len(s) \in Nat /\ 1 \in 1..Len(s)
  OBVIOUS
<1> QED
  BY <1>1, SubSeqRecursiveSecond

(* The fields of this version are numbered without gaps, in order.         *)
LEMMA KnownPlaces ==
    ASSUME NEW m, m.has \subseteq 1..3
    PROVE  /\ KnownOf(m) \in 0..3
           /\ \A number \in m.has : KnownTo(m, number) \in 1..KnownOf(m)
           /\ \A n, o \in m.has : n < o <=> KnownTo(m, n) < KnownTo(m, o)
           /\ \A i \in 1..KnownOf(m) : \E number \in m.has : KnownTo(m, number) = i
<1>1. CASE 1 \in m.has /\ 2 \in m.has
  BY <1>1 DEF KnownOf, KnownTo, Bit
<1>2. CASE 1 \in m.has /\ 2 \notin m.has
  BY <1>2 DEF KnownOf, KnownTo, Bit
<1>3. CASE 1 \notin m.has /\ 2 \in m.has
  BY <1>3 DEF KnownOf, KnownTo, Bit
<1>4. CASE 1 \notin m.has /\ 2 \notin m.has
  BY <1>4 DEF KnownOf, KnownTo, Bit
<1> QED
  BY <1>1, <1>2, <1>3, <1>4

(* The encoder writes what Encodes says, and an encoding a parser may get. *)
LEMMA SerializeFacts ==
    ASSUME NEW m, MessageOK(m)
    PROVE  Encodes(Serialize(m), m) /\ IsWire(Serialize(m))
<1> DEFINE Known(number) ==
             IF number \in m.has THEN <<Field(number, m.value[number])>> ELSE <<>>
           F == [number : Nat, type : {"varint", "fixed", "bytes", "group", "endGroup", "bad"},
                  value : Ints \cup Strings \cup {Partial}, cut : {"no", "tag", "value"}]
           head == (Known(1) \o Known(2)) \o Known(3)
<1>1. /\ m \in Message /\ m.unknown \in Seq(KeptFields) /\ m.has \subseteq 1..3
      /\ \A number \in 1..3 : m.value[number] \in Values(WireType(number))
  BY DEF MessageOK, Message
<1>2. \A number \in 1..3 : Field(number, m.value[number]) \in F
  BY <1>1, Constants DEF Field, WireType, Values
<1>3. \A number \in 1..3 : Known(number) \in Seq(F) /\ Len(Known(number)) = Bit(m, number)
  <2> SUFFICES ASSUME NEW number \in 1..3
               PROVE  Known(number) \in Seq(F) /\ Len(Known(number)) = Bit(m, number)
    OBVIOUS
  <2>1. Field(number, m.value[number]) \in F
    BY <1>2
  <2> HIDE DEF F
  <2>2. CASE number \in m.has
    BY <2>1, <2>2 DEF Bit
  <2>3. CASE number \notin m.has
    BY <2>3 DEF Bit
  <2> QED
    BY <2>2, <2>3
<1>4. \A number \in 1..3 : number \in m.has => Known(number)[1] = Field(number, m.value[number])
  OBVIOUS
<1>5. \A number \in 1..3 : Bit(m, number) \in {0, 1} /\ (Bit(m, number) = 1 <=> number \in m.has)
  BY DEF Bit
<1>6. Serialize(m) = head \o m.unknown
  BY DEF Serialize
<1> HIDE DEF Known, F
<1>7. /\ head \in Seq(F) /\ Len(head) = KnownOf(m)
      /\ \A number \in m.has : head[KnownTo(m, number)] = Field(number, m.value[number])
  <2>1. Known(1) \o Known(2) \in Seq(F) /\ Len(Known(1) \o Known(2)) = Bit(m, 1) + Bit(m, 2)
    BY <1>3, <1>5
  <2>2. head \in Seq(F) /\ Len(head) = KnownOf(m)
    BY <1>3, <1>5, <2>1 DEF KnownOf, KnownTo
  <2>3. \A number \in m.has : head[KnownTo(m, number)] = Field(number, m.value[number])
    <3>1. 1 \in m.has => head[KnownTo(m, 1)] = Field(1, m.value[1])
      BY <1>3, <1>4, <1>5, <2>1 DEF KnownTo
    <3>2. 2 \in m.has => head[KnownTo(m, 2)] = Field(2, m.value[2])
      BY <1>3, <1>4, <1>5, <2>1 DEF KnownTo
    <3>3. 3 \in m.has => head[KnownTo(m, 3)] = Field(3, m.value[3])
      BY <1>3, <1>4, <1>5, <2>1 DEF KnownTo
    <3>4. ASSUME NEW number \in m.has
          PROVE  head[KnownTo(m, number)] = Field(number, m.value[number])
      <4>1. number = 1 \/ number = 2 \/ number = 3
        BY <1>1, <3>4
      <4> HIDE DEF head
      <4> QED
        BY <3>1, <3>2, <3>3, <4>1, Zenon
    <3> QED
      BY <3>4
  <2> QED
    BY <2>2, <2>3
<1> HIDE DEF head
<1>8. KnownOf(m) \in Nat /\ \A number \in m.has : KnownTo(m, number) \in 1..KnownOf(m)
  BY <1>1, <1>5 DEF KnownOf, KnownTo
<1>9. m.unknown \in Seq(F)
  <2>1. KeptFields \subseteq F
    BY DEF KeptFields, KeptTypes, F
  <2> QED
    BY <1>1, <2>1, SeqMonotonic
<1>10. Encodes(Serialize(m), m)
  <2>1. /\ Len(Serialize(m)) = KnownOf(m) + Len(m.unknown)
        /\ \A i \in 1..KnownOf(m) : Serialize(m)[i] = head[i]
        /\ \A i \in 1..Len(m.unknown) : Serialize(m)[KnownOf(m) + i] = m.unknown[i]
    <3>1. head \in Seq(F) /\ m.unknown \in Seq(F) /\ Len(head) = KnownOf(m)
      BY <1>7, <1>9
    <3>2. /\ Len(head \o m.unknown) = Len(head) + Len(m.unknown)
          /\ \A i \in 1..Len(head) : (head \o m.unknown)[i] = head[i]
          /\ \A i \in 1..Len(m.unknown) : (head \o m.unknown)[Len(head) + i] = m.unknown[i]
      <4>1. ASSUME NEW s \in Seq(F), NEW t \in Seq(F)
            PROVE  /\ Len(s \o t) = Len(s) + Len(t)
                   /\ \A i \in 1..Len(s) : (s \o t)[i] = s[i]
                   /\ \A i \in 1..Len(t) : (s \o t)[Len(s) + i] = t[i]
        BY Joined
      <4> QED
        BY <3>1, <4>1, Zenon
    <3> QED
      BY <1>6, <3>1, <3>2, Zenon
  <2> QED
    BY <1>7, <1>8, <2>1 DEF Encodes
<1>11. Serialize(m) \in Seq(F)
  BY <1>6, <1>7, <1>9
<1>12. \A i \in 1..Len(Serialize(m)) : Serialize(m)[i].value \in Values(Serialize(m)[i].type)
  <2> DEFINE w == Serialize(m)
  <2> SUFFICES ASSUME NEW i \in 1..Len(w) PROVE w[i].value \in Values(w[i].type)
    OBVIOUS
  <2>1. m.unknown \in Seq(KeptFields) /\ Len(m.unknown) \in Nat
    BY <1>1
  <2>2. CASE i <= KnownOf(m)
    <3>1. PICK number \in m.has : KnownTo(m, number) = i
      BY <1>1, <1>8, <2>2, KnownPlaces
    <3>2. w[i] = Field(number, m.value[number])
      BY <1>10, <3>1 DEF Encodes
    <3> QED
      BY <1>1, <3>1, <3>2 DEF Field
  <2>3. CASE ~(i <= KnownOf(m))
    <3>1. i - KnownOf(m) \in 1..Len(m.unknown) /\ KnownOf(m) + (i - KnownOf(m)) = i
      BY <1>8, <1>10, <2>1, <2>3 DEF Encodes
    <3>2. w[i] = m.unknown[i - KnownOf(m)]
      BY <1>10, <3>1 DEF Encodes
    <3> QED
      BY <3>1, <3>2 DEF MessageOK
  <2> QED
    BY <2>2, <2>3
<1> QED
  BY <1>10, <1>11, <1>12 DEF IsWire, F

(* An encoding of a message is whole.                                      *)
LEMMA EncodedIsWhole ==
    ASSUME NEW m, MessageOK(m), NEW w, Encodes(w, m), NEW i \in 1..Len(w)
    PROVE  /\ w[i].cut = "no" /\ w[i].number \in Nat /\ ~IsZeroTag(w[i])
           /\ w[i].type \in KeptTypes
           /\ i <= KnownOf(m) => /\ IsKnown(w[i]) /\ w[i].number \in m.has
                                 /\ KnownTo(m, w[i].number) = i
                                 /\ w[i].value = m.value[w[i].number]
           /\ i > KnownOf(m) => /\ i - KnownOf(m) \in 1..Len(m.unknown)
                                /\ w[i] = m.unknown[i - KnownOf(m)] /\ ~IsKnown(w[i])
<1>1. /\ m.has \subseteq 1..3 /\ m.unknown \in Seq(KeptFields) /\ Len(m.unknown) \in Nat
      /\ KnownOf(m) \in Nat /\ i \in Nat
  BY KnownPlaces DEF MessageOK, Message
<1>2. CASE i <= KnownOf(m)
  <2>1. PICK number \in m.has : KnownTo(m, number) = i
    BY <1>1, <1>2, KnownPlaces
  <2>2. w[i] = Field(number, m.value[number]) /\ number \in 1..3
    BY <1>1, <2>1 DEF Encodes
  <2>3. /\ w[i].number = number /\ w[i].type = WireType(number) /\ w[i].cut = "no"
        /\ w[i].value = m.value[number]
    BY <2>2 DEF Field
  <2>4. IsKnown(w[i])
    BY <2>2, <2>3 DEF IsKnown, IsField
  <2>5. w[i].type \in KeptTypes /\ w[i].number \in Nat /\ ~IsZeroTag(w[i])
    BY <2>2, <2>3 DEF WireType, KeptTypes, IsZeroTag
  <2> QED
    BY <1>1, <1>2, <2>1, <2>3, <2>4, <2>5
<1>3. CASE i > KnownOf(m)
  <2>1. i - KnownOf(m) \in 1..Len(m.unknown) /\ KnownOf(m) + (i - KnownOf(m)) = i
    BY <1>1, <1>3 DEF Encodes
  <2>2. w[i] = m.unknown[i - KnownOf(m)]
    BY <2>1 DEF Encodes
  <2>3. w[i] \in KeptFields
    BY <1>1, <2>1, <2>2
  <2>4. ~IsKnown(w[i])
    BY <2>1, <2>2 DEF MessageOK
  <2> QED
    BY <1>1, <1>3, <2>1, <2>2, <2>3, <2>4 DEF KeptFields
<1> QED
  BY <1>1, <1>2, <1>3

-----------------------------------------------------------------------------
(***************************************************************************)
(* Moves of the parser: a parse begins, a field is stored or kept aside,   *)
(* the parse returns.                                                      *)
(***************************************************************************)

(* Before a parse has read anything, nothing is all that was read.         *)
LEMMA BeginMove ==
    ASSUME MessageInv, NEW w, IsWire(w), Parse(w)
    PROVE  StageInv' /\ msg' = New /\ MessageOK(msg)' /\ WholeInv' /\ MeansWhatWasRead'
<1>1. /\ msg' = New /\ wire' = w /\ at' = 0 /\ stage' = "loop" /\ accepted' = FALSE
      /\ Len(w) \in Nat
  BY ClearFacts DEF Parse, MessageInv, IsWire
<1>2. StageInv'
  <2>1. IsWire(wire')
    BY <1>1
  <2>2. accepted' \in BOOLEAN
    BY <1>1, Zenon
  <2>4. stage' \in Stages /\ at' \in 0..Len(wire')
    BY <1>1 DEF Stages
  <2>3. stage' # "switch" /\ stage' # "jump"
    BY <1>1
  <2> QED
    BY <2>1, <2>2, <2>3, <2>4 DEF StageInv
<1>3. MessageOK(msg)'
  BY <1>1, NewIsOK DEF MessageOK, Message, KeptFields, IsKnown, IsField, Default, Values, WireType
<1>4. WholeInv'
  BY <1>1 DEF WholeInv
<1>5. MeansWhatWasRead'
  <2>1. \A number \in 1..3 : HasLastValue(number)'
    BY <1>1, NewIsOK DEF HasLastValue
  <2>2. Others' = {} /\ 1..Len(msg'.unknown) = {}
    BY <1>1, NewIsOK DEF Others
  <2>3. \E place \in [1..Len(msg'.unknown) -> Others'] : KeptAsRead(place)'
    <3> DEFINE none == [k \in {} |-> k]
    <3>1. none \in [1..Len(msg'.unknown) -> Others']
      BY <2>2
    <3>2. KeptAsRead(none)'
      BY <2>2 DEF KeptAsRead
    <3> HIDE DEF none
    <3> QED
      BY <3>1, <3>2
  <2> QED
    BY <2>1, <2>3 DEF MeansWhatWasRead
<1> QED
  BY <1>1, <1>2, <1>3, <1>4, <1>5

(* A parse that returns leaves nothing but the message.                    *)
LEMMA ReturnMove ==
    ASSUME NEW ok \in BOOLEAN, Returns(ok)
    PROVE  StageInv' /\ WholeInv' /\ MeansWhatWasRead' /\ SentInv'
<1>1. /\ stage' = "idle" /\ accepted' = ok /\ wire' = <<>> /\ at' = 0 /\ sent' = None
  BY DEF Returns
<1>2. StageInv'
  BY <1>1 DEF StageInv, Stages, IsWire
<1> QED
  BY <1>1, <1>2 DEF WholeInv, MeansWhatWasRead, SentInv

(* The field the parser stands before has a number, and a value fit for    *)
(* its wire type.                                                          *)
LEMMA NextField ==
    ASSUME MessageInv, at + 1 \in 1..Len(wire)
    PROVE  /\ wire[at + 1].number \in Nat
           /\ wire[at + 1].type \in {"varint", "fixed", "bytes", "group", "endGroup", "bad"}
           /\ wire[at + 1].value \in Ints \cup Strings \cup {Partial}
           /\ wire[at + 1].value \in Values(wire[at + 1].type)
           /\ at \in Nat /\ Len(wire) \in Nat
<1> DEFINE F == [number : Nat, type : {"varint", "fixed", "bytes", "group", "endGroup", "bad"},
                 value : Ints \cup Strings \cup {Partial}, cut : {"no", "tag", "value"}]
<1>1. wire \in Seq(F) /\ \A i \in 1..Len(wire) : wire[i].value \in Values(wire[i].type)
  BY DEF MessageInv, StageInv, IsWire
<1>2. at \in Nat /\ Len(wire) \in Nat
  BY <1>1 DEF MessageInv, StageInv
<1>3. wire[at + 1] \in F
  <2> HIDE DEF F
  <2> QED
    BY <1>1, ElementOfSeq
<1> QED
  BY <1>1, <1>2, <1>3

(* A field that was whole adds to the whole ones.                          *)
LEMMA WholeMove ==
    ASSUME MessageInv, at + 1 \in 1..Len(wire), wire' = wire, at' = at + 1,
           wire[at + 1].cut = "no", wire[at + 1].type \notin {"endGroup", "bad"}
    PROVE  WholeInv'
<1>1. at \in Nat
  BY DEF MessageInv, StageInv
<1> QED
  BY <1>1 DEF MessageInv, WholeInv

(* A value that is stored is the last one read of its field.               *)
LEMMA StoreMove ==
    ASSUME MessageInv, stage # "idle", at + 1 \in 1..Len(wire), NEW number \in 1..3,
           IsField(wire[at + 1], number), msg' = Set(msg, number, wire[at + 1].value),
           wire' = wire, at' = at + 1
    PROVE  MessageOK(msg') /\ MeansWhatWasRead'
<1> DEFINE f == wire[at + 1]
<1>1. at \in Nat /\ MessageOK(msg) /\ f.number = number /\ f.type = WireType(number)
  BY DEF MessageInv, StageInv, IsField
<1>2. f.value \in Values(WireType(number))
  BY <1>1, NextField
<1>3. /\ MessageOK(msg') /\ msg'.has = msg.has \cup {number} /\ msg'.unknown = msg.unknown
      /\ msg'.value = [msg.value EXCEPT ![number] = f.value]
  BY <1>1, <1>2, SetFacts
<1>4. msg.value \in [1..3 -> Ints \cup Strings \cup {Partial}]
  BY <1>1 DEF MessageOK, Message
<1>5. /\ \A n \in 1..3 : HasLastValue(n)
      /\ \E place \in [1..Len(msg.unknown) -> Others] : KeptAsRead(place)
  BY DEF MessageInv, MeansWhatWasRead
<1>6. \A n \in 1..3 : HasLastValue(n)'
  <2> SUFFICES ASSUME NEW n \in 1..3 PROVE HasLastValue(n)'
    OBVIOUS
  <2>1. CASE n = number
    <3>1. \E i \in 1..at' : i = at + 1 /\ IsLast(i, number)'
      <4>1. PICK i \in 1..at' : i = at + 1
        BY <1>1
      <4>2. IsLast(i, number)'
        BY <1>1, <4>1 DEF IsLast, IsField
      <4> QED
        BY <4>1, <4>2
    <3> QED
      BY <1>3, <1>4, <2>1, <3>1 DEF HasLastValue, IsLast
  <2>2. CASE n # number
    <3>1. ~IsField(f, n)
      BY <1>1, <2>2 DEF IsField
    <3>2. (n \in msg'.has <=> n \in msg.has) /\ msg'.value[n] = msg.value[n]
      BY <1>3, <1>4, <2>2
    <3>3. \A i \in 1..at : IsLast(i, n) => IsLast(i, n)'
      BY <1>1, <3>1 DEF IsLast
    <3>4. CASE n \in msg.has
      <4>1. PICK i \in 1..at : IsLast(i, n) /\ msg.value[n] = wire[i].value
        BY <1>5, <3>4 DEF HasLastValue
      <4>2. i \in 1..at' /\ IsLast(i, n)' /\ msg'.value[n] = wire'[i].value
        BY <1>1, <3>2, <3>3, <4>1
      <4> QED
        BY <3>2, <3>4, <4>2 DEF HasLastValue
    <3>5. CASE n \notin msg.has
      <4>1. \A i \in 1..at : ~IsField(wire[i], n)
        BY <1>5, <3>5 DEF HasLastValue
      <4>2. \A i \in 1..at' : i \in 1..at \/ i = at + 1
        BY <1>1
      <4>3. \A i \in 1..at' : ~IsField(wire'[i], n)
        BY <1>1, <3>1, <4>1, <4>2
      <4> QED
        BY <3>2, <3>5, <4>3 DEF HasLastValue
    <3> QED
      BY <3>4, <3>5
  <2> QED
    BY <2>1, <2>2
<1>7. Others' = Others
  BY <1>1 DEF Others, IsKnown
<1>8. \E place \in [1..Len(msg'.unknown) -> Others'] : KeptAsRead(place)'
  <2>1. PICK place \in [1..Len(msg.unknown) -> Others] : KeptAsRead(place)
    BY <1>5
  <2>2. KeptAsRead(place)'
    BY <1>3, <1>7, <2>1 DEF KeptAsRead
  <2> QED
    BY <1>3, <1>7, <2>1, <2>2
<1> QED
  BY <1>3, <1>6, <1>8 DEF MeansWhatWasRead

(* What is kept aside comes after everything that was.                     *)
LEMMA KeepMove ==
    ASSUME MessageInv, stage # "idle", at + 1 \in 1..Len(wire), ~IsKnown(wire[at + 1]),
           wire[at + 1] \in KeptFields, msg' = [msg EXCEPT !.unknown = Append(@, wire[at + 1])],
           wire' = wire, at' = at + 1
    PROVE  MessageOK(msg') /\ MeansWhatWasRead'
<1> DEFINE f == wire[at + 1]
           n == Len(msg.unknown)
<1>1. at \in Nat /\ MessageOK(msg) /\ f.value \in Values(f.type)
  BY NextField DEF MessageInv
<1>2. /\ MessageOK(msg') /\ msg'.has = msg.has /\ msg'.value = msg.value
      /\ msg'.unknown = Append(msg.unknown, f)
  BY <1>1, KeepFacts
<1>3. msg.unknown \in Seq(KeptFields) /\ n \in Nat
  BY <1>1 DEF MessageOK, Message
<1>4. /\ \A number \in 1..3 : HasLastValue(number)
      /\ \E place \in [1..n -> Others] : KeptAsRead(place)
  BY DEF MessageInv, MeansWhatWasRead
<1>5. \A number \in 1..3 : HasLastValue(number)'
  <2> SUFFICES ASSUME NEW number \in 1..3 PROVE HasLastValue(number)'
    OBVIOUS
  <2>1. ~IsField(f, number)
    BY DEF IsKnown
  <2>2. \A i \in 1..at : IsLast(i, number) => IsLast(i, number)'
    BY <1>1, <2>1 DEF IsLast
  <2> QED
    <3>1. HasLastValue(number)
      BY <1>4
    <3>2. /\ number \in msg'.has <=> number \in msg.has
          /\ msg'.value[number] = msg.value[number]
      BY <1>2
    <3>3. 1..at' = (1..at) \cup {at + 1} /\ ~IsField(wire'[at + 1], number)
      BY <1>1, <2>1
    <3> QED
      BY <2>2, <3>1, <3>2, <3>3, Zenon DEF HasLastValue
<1>6. Others' = Others \cup {at + 1} /\ \A i \in Others : i < at + 1
  BY <1>1 DEF Others
<1>7. Len(msg'.unknown) = n + 1 /\ msg'.unknown[n + 1] = f
      /\ \A k \in 1..n : msg'.unknown[k] = msg.unknown[k]
  BY <1>2, <1>3
<1>8. PICK place \in [1..n -> Others] : KeptAsRead(place)
  BY <1>4
<1>0. DOMAIN place = 1..n /\ \A k \in 1..n : place[k] \in Others
  BY <1>8
<1>9. PICK longer \in [1..(n + 1) -> Others'] :
           longer[n + 1] = at + 1 /\ \A k \in 1..n : longer[k] = place[k]
  <2> DEFINE function == [k \in 1..(n + 1) |-> IF k = n + 1 THEN at + 1 ELSE place[k]]
  <2>1. function \in [1..(n + 1) -> Others']
    BY <1>0, <1>3, <1>6
  <2>2. function[n + 1] = at + 1 /\ \A k \in 1..n : function[k] = place[k]
    BY <1>3
  <2> HIDE DEF function
  <2> QED
    BY <2>1, <2>2
<1>10. /\ longer[n + 1] = at + 1 /\ \A k \in 1..n : longer[k] = place[k] /\ place[k] \in Others
       /\ DOMAIN longer = 1..(n + 1)
  BY <1>0, <1>9
<1>11. KeptAsRead(longer)'
  <2> HIDE DEF n, f
  <2>1. \A i \in Others' : \E k \in 1..(n + 1) : longer[k] = i
    <3>1. \A i \in Others : \E k \in 1..n : place[k] = i
      BY <1>0, <1>8 DEF KeptAsRead
    <3> QED
      BY <1>3, <1>6, <1>10, <3>1
  <2>2. \A k \in 1..(n + 1) : msg'.unknown[k] = wire'[longer[k]]
    <3>1. \A k \in 1..n : msg.unknown[k] = wire[place[k]]
      BY <1>0, <1>8 DEF KeptAsRead
    <3> QED
      BY <1>3, <1>7, <1>10, <3>1 DEF f
  <2>3. \A k, l \in 1..(n + 1) : k < l => longer[k] < longer[l]
    <3>1. \A k, l \in 1..n : k < l => place[k] < place[l]
      BY <1>0, <1>8 DEF KeptAsRead
    <3>2. \A k \in 1..n : longer[k] \in Int /\ longer[k] < at + 1
      BY <1>1, <1>6, <1>10 DEF Others
    <3> QED
      BY <1>1, <1>3, <1>10, <3>1, <3>2
  <2> QED
    BY <1>10, <2>1, <2>2, <2>3, Zenon DEF KeptAsRead
<1>12. \E place2 \in [1..Len(msg'.unknown) -> Others'] : KeptAsRead(place2)'
  BY <1>7, <1>9, <1>11
<1> QED
  BY <1>2, <1>5, <1>12 DEF MeansWhatWasRead

(* What is read of the encoding of a message goes where it came from.      *)
LEMMA StoreReads ==
    ASSUME MessageInv, sent # None, at + 1 \in 1..Len(wire), NEW number \in 1..3,
           IsField(wire[at + 1], number), msg' = Set(msg, number, wire[at + 1].value)
    PROVE  MessageOK(msg') /\ IsReadTo(msg', sent, at + 1)
<1>1. /\ MessageOK(sent) /\ Encodes(wire, sent) /\ at \in Nat /\ MessageOK(msg)
      /\ msg.has = {n \in sent.has : KnownTo(sent, n) <= at}
      /\ \A n \in msg.has : msg.value[n] = sent.value[n]
      /\ at <= KnownOf(sent) => msg.unknown = <<>>
  BY DEF MessageInv, SentInv, StageInv, IsReadTo
<1>2. sent.has \subseteq 1..3 /\ msg.value \in [1..3 -> Ints \cup Strings \cup {Partial}]
  BY <1>1 DEF MessageOK, Message
<1>3. KnownOf(sent) \in Nat /\ \A n \in sent.has : KnownTo(sent, n) \in Nat
  BY <1>2, KnownPlaces
<1>4. wire[at + 1].number = number /\ IsKnown(wire[at + 1])
  BY DEF IsKnown, IsField
<1>5. at + 1 <= KnownOf(sent) /\ number \in sent.has /\ KnownTo(sent, number) = at + 1
      /\ wire[at + 1].value = sent.value[number]
  BY <1>1, <1>3, <1>4, EncodedIsWhole
<1>6. wire[at + 1].value \in Values(WireType(number))
  BY NextField DEF IsField
<1>7. /\ msg'.has = msg.has \cup {number} /\ msg'.unknown = msg.unknown
      /\ msg'.value = [msg.value EXCEPT ![number] = wire[at + 1].value]
      /\ MessageOK(msg')
  BY <1>1, <1>6, SetFacts
<1>8. \A n, o \in sent.has : n < o <=> KnownTo(sent, n) < KnownTo(sent, o)
  BY <1>2, KnownPlaces
<1>9. msg'.has = {n \in sent.has : KnownTo(sent, n) <= at + 1}
  <2>1. \A n \in sent.has : KnownTo(sent, n) = at + 1 => n = number
    BY <1>2, <1>3, <1>5, <1>8
  <2>2. \A n \in sent.has : KnownTo(sent, n) <= at + 1
                              <=> KnownTo(sent, n) <= at \/ n = number
    BY <1>1, <1>3, <1>5, <2>1
  <2> QED
    BY <1>1, <1>5, <1>7, <2>2
<1>10. \A n \in msg'.has : msg'.value[n] = sent.value[n]
  BY <1>1, <1>2, <1>5, <1>7
<1>11. msg'.unknown = <<>>
  BY <1>1, <1>3, <1>5, <1>7
<1> QED
  BY <1>1, <1>3, <1>5, <1>7, <1>9, <1>10, <1>11 DEF IsReadTo

LEMMA StoreSentMove ==
    ASSUME MessageInv, at + 1 \in 1..Len(wire), NEW number \in 1..3,
           IsField(wire[at + 1], number), msg' = Set(msg, number, wire[at + 1].value),
           wire' = wire, at' = at + 1, sent' = sent, stage' # "idle"
    PROVE  SentInv'
<1> SUFFICES ASSUME sent # None PROVE SentInv'
  BY DEF SentInv
<1>1. MessageOK(sent) /\ Encodes(wire, sent)
  BY DEF MessageInv, SentInv
<1>2. IsReadTo(msg', sent, at + 1)
  BY StoreReads
<1> QED
  BY <1>1, <1>2, Zenon DEF SentInv

LEMMA KeepSentMove ==
    ASSUME MessageInv, at + 1 \in 1..Len(wire), ~IsKnown(wire[at + 1]),
           wire[at + 1] \in KeptFields, msg'.has = msg.has, msg'.value = msg.value,
           msg'.unknown = Append(msg.unknown, wire[at + 1]),
           wire' = wire, at' = at + 1, sent' = sent, stage' # "idle"
    PROVE  SentInv'
<1> SUFFICES ASSUME sent # None PROVE SentInv'
  BY DEF SentInv
<1> DEFINE K == KnownOf(sent)
           u == sent.unknown
           f == wire[at + 1]
<1>1. /\ MessageOK(sent) /\ Encodes(wire, sent) /\ at \in Nat /\ MessageOK(msg)
      /\ msg.has = {n \in sent.has : KnownTo(sent, n) <= at}
      /\ \A n \in msg.has : msg.value[n] = sent.value[n]
      /\ at <= K => msg.unknown = <<>>
      /\ at > K => msg.unknown = SubSeq(u, 1, at - K)
  BY DEF MessageInv, SentInv, StageInv, IsReadTo
<1>2. sent.has \subseteq 1..3 /\ u \in Seq(KeptFields)
  BY <1>1 DEF MessageOK, Message
<1>3. K \in Nat /\ \A n \in sent.has : KnownTo(sent, n) \in 1..K
  BY <1>2, KnownPlaces
<1>4. at + 1 > K /\ (at + 1) - K \in 1..Len(u) /\ f = u[(at + 1) - K]
  BY <1>1, <1>3, EncodedIsWhole
<1>5. /\ msg'.has = msg.has /\ msg'.value = msg.value
      /\ msg'.unknown = Append(msg.unknown, f)
  OBVIOUS
<1> HIDE DEF u, f, K
<1>6. msg'.has = {n \in sent.has : KnownTo(sent, n) <= at + 1}
  <2>1. \A n \in sent.has : KnownTo(sent, n) <= at + 1 <=> KnownTo(sent, n) <= at
    BY <1>1, <1>3, <1>4
  <2> QED
    BY <1>1, <1>5, <2>1
<1>7. msg'.unknown = SubSeq(u, 1, (at + 1) - K)
  <2>1. SubSeq(u, 1, (at + 1) - K) = SubSeq(u, 1, (at + 1) - K - 1) \o <<u[(at + 1) - K]>>
    <3>1. PICK n \in 1..Len(u) : n = (at + 1) - K
      BY <1>4
    <3>2. SubSeq(u, 1, n) = SubSeq(u, 1, n - 1) \o <<u[n]>>
      BY <1>2, OneMore
    <3> QED
      BY <3>1, <3>2, Zenon
  <2>2. (at + 1) - K - 1 = at - K
    BY <1>1, <1>3
  <2>3. SubSeq(u, 1, at - K) = msg.unknown
    <3>1. CASE at > K
      BY <1>1, <3>1
    <3>2. CASE ~(at > K)
      <4>1. at - K < 1 /\ at - K \in Int /\ at <= K
        BY <1>1, <1>3, <3>2
      <4>2. \A n \in Int : n < 1 => SubSeq(u, 1, n) = <<>>
        BY SubSeqEmpty
      <4> QED
        BY <1>1, <4>1, <4>2
    <3> QED
      BY <3>1, <3>2
  <2>4. msg.unknown \in Seq(KeptFields) /\ f \in KeptFields
    BY <1>1 DEF MessageOK, Message, f
  <2>5. Append(msg.unknown, f) = msg.unknown \o <<f>>
    BY <2>4
  <2> QED
    BY <1>4, <1>5, <2>1, <2>2, <2>3, <2>5
<1>8. \A n \in msg'.has : msg'.value[n] = sent.value[n]
  BY <1>1, <1>5
<1>9. at + 1 > K /\ ~(at + 1 <= K)
  BY <1>1, <1>3, <1>4
<1>10. IsReadTo(msg', sent, at + 1)
  <2>1. /\ ~(at + 1 <= KnownOf(sent))
        /\ msg'.unknown = SubSeq(sent.unknown, 1, (at + 1) - KnownOf(sent))
    BY <1>7, <1>9 DEF K, u
  <2> QED
    BY <1>6, <1>8, <2>1, Zenon DEF IsReadTo
<1> QED
  BY <1>1, <1>10, Zenon DEF SentInv

(* A message that has been read to the end of its encoding is the one that *)
(* was encoded.                                                            *)
LEMMA SentIsRead ==
    ASSUME NEW m, NEW s, MessageOK(m), MessageOK(s), NEW end \in Nat,
           end = KnownOf(s) + Len(s.unknown), IsReadTo(m, s, end)
    PROVE  m = s
<1>0. /\ m.has = {n \in s.has : KnownTo(s, n) <= end}
      /\ \A n \in m.has : m.value[n] = s.value[n]
      /\ end <= KnownOf(s) => m.unknown = <<>>
      /\ end > KnownOf(s) => m.unknown = SubSeq(s.unknown, 1, end - KnownOf(s))
  BY DEF IsReadTo
<1>1. m \in Message /\ s \in Message
  BY DEF MessageOK
<1>2. /\ s.has \subseteq 1..3 /\ s.unknown \in Seq(KeptFields) /\ Len(s.unknown) \in Nat
      /\ m.value \in [1..3 -> Ints \cup Strings \cup {Partial}]
      /\ s.value \in [1..3 -> Ints \cup Strings \cup {Partial}]
  BY <1>1 DEF Message
<1>3. KnownOf(s) \in Nat /\ \A n \in s.has : KnownTo(s, n) \in 1..KnownOf(s)
  BY <1>2, KnownPlaces
<1>4. m.has = s.has
  BY <1>0, <1>2, <1>3
<1>5. \A n \in 1..3 : m.value[n] = s.value[n]
  BY <1>0, <1>4 DEF MessageOK
<1>6. m.value = s.value
  BY <1>2, <1>5
<1>7. m.unknown = s.unknown
  <2>1. CASE s.unknown = <<>>
    BY <1>0, <1>2, <1>3, <2>1
  <2>2. CASE s.unknown # <<>>
    <3>1. end > KnownOf(s) /\ end - KnownOf(s) = Len(s.unknown)
      BY <1>2, <1>3, <2>2
    <3> QED
      BY <1>0, <1>2, <3>1, SubSeqFull
  <2> QED
    BY <2>1, <2>2
<1> QED
  BY <1>1, <1>4, <1>6, <1>7 DEF Message

-----------------------------------------------------------------------------
(***************************************************************************)
(* Each action preserves the invariant.                                    *)
(***************************************************************************)

LEMMA InitStep == Init => MessageInv
<1> SUFFICES ASSUME Init PROVE MessageInv
  OBVIOUS
<1>1. /\ msg = New /\ wire = <<>> /\ at = 0 /\ stage = "idle" /\ accepted = FALSE /\ sent = None
  BY DEF Init
<1>2. StageInv
  <2>1. accepted \in BOOLEAN
    BY <1>1, Zenon
  <2> QED
    BY <1>1, <2>1 DEF StageInv, Stages, IsWire
<1> QED
  BY <1>1, <1>2, NewIsOK DEF MessageInv, WholeInv, MeansWhatWasRead, SentInv

(* The accessors are called between parses only.                           *)
LEMMA SetFieldStep ==
    ASSUME MessageInv, SetField
    PROVE  MessageInv'
<1>1. /\ stage = "idle" /\ stage' = stage /\ wire' = wire /\ at' = at
      /\ accepted' = accepted /\ sent' = sent /\ sent = None
  BY DEF SetField, MessageInv, SentInv
<1>2. MessageOK(msg) /\ StageInv /\ WholeInv
  BY DEF MessageInv
<1>3. MessageOK(msg')
  <2>1. CASE \E v \in Ints, number \in {1, 3} : msg' = Set(msg, number, v)
    <3>1. PICK v \in Ints, number \in {1, 3} : msg' = Set(msg, number, v)
      BY <2>1
    <3>2. number \in 1..3 /\ v \in Values(WireType(number))
      BY <3>1 DEF Values, WireType
    <3> QED
      BY <1>2, <3>1, <3>2, SetFacts
  <2>2. CASE \E s \in Strings : msg' = Set(msg, 2, s)
    <3>1. PICK s \in Strings : msg' = Set(msg, 2, s)
      BY <2>2
    <3>2. 2 \in 1..3 /\ s \in Values(WireType(2))
      BY <3>1 DEF Values, WireType
    <3> QED
      BY <1>2, <3>1, <3>2, SetFacts
  <2>3. CASE \E number \in 1..3 : msg' = Unset(msg, number)
    BY <1>2, <2>3, UnsetFacts
  <2> QED
    BY <2>1, <2>2, <2>3 DEF SetField
<1>4. StageInv' /\ WholeInv'
  BY <1>1, <1>2 DEF StageInv, WholeInv, TagWhole, IsField
<1> QED
  BY <1>1, <1>3, <1>4 DEF MessageInv, MeansWhatWasRead, SentInv

(* Another encoding arrives, or a message of this version is sent and      *)
(* received: a parse begins.                                               *)
LEMMA ReceiveStep ==
    ASSUME MessageInv, Receive
    PROVE  MessageInv'
<1>1. PICK w \in Wires : Parse(w) /\ sent' = None
  BY DEF Receive
<1>2. IsWire(w)
  BY Constants
<1> QED
  BY <1>1, <1>2, BeginMove DEF MessageInv, SentInv

LEMMA SendAndReceiveStep ==
    ASSUME MessageInv, SendAndReceive
    PROVE  MessageInv'
<1>1. Parse(Serialize(msg)) /\ sent' = msg /\ MessageOK(msg)
  BY DEF SendAndReceive, MessageInv
<1>2. Encodes(Serialize(msg), msg) /\ IsWire(Serialize(msg))
  BY <1>1, SerializeFacts
<1>3. StageInv' /\ msg' = New /\ MessageOK(msg)' /\ WholeInv' /\ MeansWhatWasRead'
  BY <1>1, <1>2, BeginMove
<1>4. wire' = Serialize(msg) /\ at' = 0 /\ stage' = "loop"
  BY <1>1 DEF Parse
<1>5. IsReadTo(New, msg, 0)
  <2>1. msg.has \subseteq 1..3
    BY <1>1 DEF MessageOK, Message
  <2>2. KnownOf(msg) \in Nat /\ \A n \in msg.has : KnownTo(msg, n) \in 1..KnownOf(msg)
    BY <2>1, KnownPlaces
  <2> QED
    BY <2>2, NewIsOK DEF IsReadTo
<1>6. SentInv'
  BY <1>1, <1>2, <1>3, <1>4, <1>5, Zenon DEF SentInv
<1> QED
  BY <1>3, <1>6 DEF MessageInv

LEMMA ReadTagStep ==
    ASSUME MessageInv, ReadTag
    PROVE  MessageInv'
<1>1. stage = "loop" /\ msg' = msg /\ MessageOK(msg) /\ at \in Nat
  BY DEF ReadTag, MessageInv, StageInv
<1>2. CASE \E ok \in BOOLEAN : Returns(ok)
  BY <1>1, <1>2, ReturnMove DEF MessageInv
<1>3. CASE TagWhole(at + 1) /\ ~IsZeroTag(wire[at + 1]) /\ GoesOn("switch", at)
  <2>1. /\ stage' = "switch" /\ at' = at /\ wire' = wire /\ accepted' = accepted /\ sent' = sent
        /\ TagWhole(at + 1) /\ ~IsZeroTag(wire[at + 1])
    BY <1>3 DEF GoesOn
  <2>2. StageInv'
    <3>1. StageInv
      BY DEF MessageInv
    <3> QED
      BY <2>1, <3>1 DEF StageInv, Stages, TagWhole
  <2>3. WholeInv' /\ MeansWhatWasRead'
    BY <1>1, <2>1 DEF MessageInv, WholeInv, MeansWhatWasRead, HasLastValue, IsLast, IsField,
                      Others, IsKnown, KeptAsRead
  <2>4. SentInv'
    BY <1>1, <2>1 DEF MessageInv, SentInv
  <2> QED
    BY <1>1, <2>2, <2>3, <2>4 DEF MessageInv
<1> QED
  BY <1>2, <1>3, Zenon DEF ReadTag

(* What the parser stands before when it reads a value.                    *)
LEMMA ValueIsThere ==
    ASSUME MessageInv, NEW number \in 1..3, ReadValue(number)
    PROVE  /\ stage # "idle" /\ at + 1 \in 1..Len(wire) /\ at \in Nat /\ MessageOK(msg)
           /\ wire[at + 1].cut # "tag" /\ IsField(wire[at + 1], number)
<1>1. StageInv /\ MessageOK(msg)
  BY DEF MessageInv
<1>2. \/ stage = "switch" /\ IsField(wire[at + 1], number)
      \/ stage = "jump" /\ number = wire[at].number + 1
  BY DEF ReadValue
<1> QED
  BY <1>1, <1>2 DEF StageInv, TagWhole, IsWire

(* A value is stored, and the parser jumps, goes on or returns; a value    *)
(* that is cut short fails the parse.                                      *)
LEMMA ReadValueStep ==
    ASSUME MessageInv, NEW number \in 1..3, ReadValue(number)
    PROVE  MessageInv'
<1> DEFINE f == wire[at + 1]
<1>1. /\ stage # "idle" /\ at + 1 \in 1..Len(wire) /\ at \in Nat /\ MessageOK(msg)
      /\ f.cut # "tag" /\ IsField(f, number)
  BY ValueIsThere
<1>2. Len(wire) \in Nat /\ f.type = WireType(number) /\ f.number = number
  BY <1>1, NextField DEF IsField
<1>3. CASE f.cut = "no"
  <2>1. msg' = Set(msg, number, f.value)
    BY <1>3 DEF ReadValue
  <2>2. CASE number = 3 /\ at + 1 = Len(wire) /\ Returns(TRUE)
    <3>1. f.value \in Values(WireType(number))
      BY <1>1, <1>2, NextField
    <3> QED
      BY <1>1, <2>1, <2>2, <3>1, ReturnMove, SetFacts DEF MessageInv
  <2>3. ASSUME NEW next \in {"jump", "loop"}, GoesOn(next, at + 1),
               next = "jump" => Guessed(number, at + 2)
        PROVE  MessageInv'
    <3>1. /\ stage' = next /\ at' = at + 1 /\ wire' = wire /\ accepted' = accepted /\ sent' = sent
      BY <2>3 DEF GoesOn
    <3>2. StageInv'
      <4>1. StageInv
        BY DEF MessageInv
      <4>2. stage' = "jump" => number \in {1, 2} /\ TagWhole(at + 2) /\ IsField(wire[at + 2], number + 1)
        BY <2>3, <3>1 DEF Guessed
      <4>3. at' \in 0..Len(wire') /\ stage' \in Stages
        BY <1>1, <1>2, <3>1, <2>3 DEF Stages
      <4>4. stage' = "jump" => /\ TagWhole(at + 1)' /\ at' > 0 /\ wire'[at'].number \in {1, 2}
                               /\ IsField(wire[at + 1], wire[at].number + 1)'
        BY <1>1, <1>2, <3>1, <4>2 DEF TagWhole, IsField
      <4>5. stage' # "switch" /\ IsWire(wire') /\ accepted' \in BOOLEAN
        BY <2>3, <3>1, <4>1, Zenon DEF StageInv
      <4> QED
        BY <4>3, <4>4, <4>5 DEF StageInv
    <3>3. MessageOK(msg') /\ MeansWhatWasRead'
      BY <1>1, <2>1, <3>1, StoreMove
    <3>4. WholeInv'
      BY <1>1, <1>2, <1>3, <3>1, WholeMove DEF WireType
    <3>5. SentInv'
      BY <1>1, <2>1, <2>3, <3>1, StoreSentMove
    <3> QED
      BY <3>2, <3>3, <3>4, <3>5 DEF MessageInv
  <2> QED
    BY <1>3, <2>2, <2>3 DEF ReadValue
<1>4. CASE f.cut # "no"
  <2>1. Returns(FALSE)
    BY <1>4 DEF ReadValue
  <2>2. MessageOK(msg')
    <3>1. CASE msg' = msg
      BY <1>1, <3>1
    <3>2. CASE number = 2 /\ \E s \in {msg.value[2], Partial} : msg' = Set(msg, 2, s)
      <4>1. PICK s \in {msg.value[2], Partial} : msg' = Set(msg, 2, s)
        BY <3>2
      <4>2. s \in Values(WireType(2)) /\ 2 \in 1..3
        BY <1>1, <4>1 DEF MessageOK, Message, Values, WireType
      <4> QED
        BY <1>1, <4>1, <4>2, SetFacts
    <3> QED
      BY <1>4, <3>1, <3>2 DEF ReadValue
  <2> QED
    BY <2>1, <2>2, ReturnMove DEF MessageInv
<1> QED
  BY <1>3, <1>4

(* What is not of this version is kept aside or, cut short, fails.         *)
LEMMA HandleUninterpretedStep ==
    ASSUME MessageInv, HandleUninterpreted
    PROVE  MessageInv'
<1> DEFINE f == wire[at + 1]
           F == [number : Nat, type : {"varint", "fixed", "bytes", "group", "endGroup", "bad"},
                 value : Ints \cup Strings \cup {Partial}, cut : {"no", "tag", "value"}]
           Kept(g) == [msg EXCEPT !.unknown = Append(@, g)]
<1>1. /\ stage = "switch" /\ TagWhole(at + 1) /\ ~IsZeroTag(f) /\ MessageOK(msg)
      /\ ~IsKnown(f) /\ at \in Nat /\ wire \in Seq(F)
  BY DEF HandleUninterpreted, MessageInv, StageInv, IsWire
<1>2. at + 1 \in 1..Len(wire) /\ Len(wire) \in Nat /\ f.value \in Values(f.type)
  BY <1>1, NextField DEF TagWhole
<1>3. f \in F
  <2> HIDE DEF F
  <2> QED
    BY <1>1, <1>2, ElementOfSeq
<1>4. CASE f.cut = "no" /\ f.type \in KeptTypes
  <2>1. msg' = Kept(f) /\ GoesOn("loop", at + 1)
    BY <1>4 DEF HandleUninterpreted
  <2>2. f \in KeptFields
    BY <1>1, <1>3, <1>4 DEF KeptFields
  <2>3. /\ stage' = "loop" /\ at' = at + 1 /\ wire' = wire /\ accepted' = accepted /\ sent' = sent
    BY <2>1 DEF GoesOn
  <2>4. MessageOK(msg') /\ MeansWhatWasRead'
    BY <1>1, <1>2, <2>1, <2>2, <2>3, KeepMove
  <2>5. /\ msg'.has = msg.has /\ msg'.value = msg.value
        /\ msg'.unknown = Append(msg.unknown, f)
    BY <1>1, <1>2, <2>1, <2>2, KeepFacts
  <2>6. SentInv'
    <3>1. stage' # "idle"
      BY <2>3
    <3> QED
      BY <1>1, <1>2, <2>2, <2>3, <2>5, <3>1, KeepSentMove
  <2>7. WholeInv'
    BY <1>2, <1>4, <2>3, WholeMove DEF KeptTypes
  <2>8. StageInv'
    <3>1. IsWire(wire') /\ accepted' \in BOOLEAN
      BY <2>3, Zenon DEF MessageInv, StageInv
    <3>2. at' \in 0..Len(wire') /\ stage' \in Stages
      BY <1>1, <1>2, <2>3 DEF Stages
    <3> QED
      BY <2>3, <3>1, <3>2 DEF StageInv
  <2> QED
    BY <2>4, <2>6, <2>7, <2>8 DEF MessageInv
<1>5. CASE ~(f.cut = "no" /\ f.type \in KeptTypes)
  <2>1. Returns(FALSE)
    BY <1>5 DEF HandleUninterpreted
  <2>2. MessageOK(msg')
    <3>1. CASE msg' = msg
      BY <1>1, <3>1
    <3>2. CASE /\ f.type \in {"bytes", "group"}
               /\ msg' = Kept([f EXCEPT !.value = Partial, !.cut = "no"])
      <4>1. PICK g : /\ g = [f EXCEPT !.value = Partial, !.cut = "no"]
                     /\ msg' = Kept(g)
        BY <3>2
      <4>2. /\ g.number = f.number /\ g.type = f.type /\ g.value = Partial
            /\ g \in KeptFields
        BY <1>1, <1>3, <3>2, <4>1 DEF KeptFields, KeptTypes, IsZeroTag
      <4>3. ~IsKnown(g)
        BY <1>1, <4>2 DEF IsKnown, IsField
      <4>4. g.value \in Values(g.type)
        BY <3>2, <4>2 DEF Values
      <4> QED
        BY <1>1, <4>1, <4>2, <4>3, <4>4, KeepFacts
    <3> QED
      BY <1>5, <3>1, <3>2 DEF HandleUninterpreted
  <2> QED
    BY <2>1, <2>2, ReturnMove DEF MessageInv
<1> QED
  BY <1>4, <1>5

LEMMA StutterStep ==
    ASSUME MessageInv, UNCHANGED vars
    PROVE  MessageInv'
<1>1. /\ msg' = msg /\ wire' = wire /\ at' = at /\ stage' = stage
      /\ accepted' = accepted /\ sent' = sent
  BY DEF vars
<1>2. MessageOK(msg')
  BY <1>1 DEF MessageInv
<1>3. StageInv'
  BY <1>1, Zenon DEF MessageInv, StageInv, TagWhole
<1>4. WholeInv' /\ MeansWhatWasRead'
  BY <1>1 DEF MessageInv, WholeInv, MeansWhatWasRead, HasLastValue, IsLast, IsField,
              Others, IsKnown, KeptAsRead
<1>5. SentInv'
  BY <1>1 DEF MessageInv, SentInv
<1> QED
  BY <1>2, <1>3, <1>4, <1>5 DEF MessageInv

LEMMA NextStep == MessageInv /\ [Next]_vars => MessageInv'
<1> SUFFICES ASSUME MessageInv, [Next]_vars PROVE MessageInv'
  OBVIOUS
<1>1. CASE SetField
  BY <1>1, SetFieldStep
<1>2. CASE Receive
  BY <1>2, ReceiveStep
<1>3. CASE SendAndReceive
  BY <1>3, SendAndReceiveStep
<1>4. CASE ReadTag
  BY <1>4, ReadTagStep
<1>5. ASSUME NEW number \in 1..3, ReadValue(number) PROVE MessageInv'
  BY <1>5, ReadValueStep
<1>6. CASE HandleUninterpreted
  BY <1>6, HandleUninterpretedStep
<1>7. CASE UNCHANGED vars
  BY <1>7, StutterStep
<1> QED
  BY <1>1, <1>2, <1>3, <1>4, <1>5, <1>6, <1>7 DEF Next, ParseStep

LEMMA Invariant == Spec => []MessageInv
<1> QED
  BY InitStep, NextStep, PTL DEF Spec

-----------------------------------------------------------------------------
(***************************************************************************)
(* The properties.                                                         *)
(***************************************************************************)

(* The types, and no jump to a field that is not there: what               *)
(* MergePartialFromCodedStream reads after an ExpectTag that succeeded is  *)
(* the field it expected, whatever bytes arrive.                           *)
THEOREM MessageTypes == Spec => []TypeOK
<1>1. MessageInv => TypeOK
  <2> SUFFICES ASSUME MessageInv PROVE TypeOK
    OBVIOUS
  <2>1. StageInv /\ msg \in Message
    BY DEF MessageInv, MessageOK
  <2>2. sent \in Message \cup {None}
    BY DEF MessageInv, SentInv, MessageOK
  <2>3. at \in 0..Len(wire) /\ stage \in {"idle", "loop", "switch", "jump"}
    BY <2>1 DEF StageInv, Stages
  <2>4. stage = "jump" => at > 0 /\ wire[at + 1].number \in {2, 3}
    BY <2>1 DEF StageInv, IsField
  <2>5. accepted \in BOOLEAN /\ (stage \in {"switch", "jump"} => TagWhole(at + 1))
    BY <2>1, Zenon DEF StageInv
  <2> QED
    BY <2>1, <2>2, <2>3, <2>4, <2>5 DEF TypeOK
<1> QED
  BY <1>1, Invariant, PTL

(* A field without its bit has its default, after a parse that failed      *)
(* half-way too: Clear, which empties the string only if its bit is set,   *)
(* leaves nothing of an earlier message.                                   *)
THEOREM DefaultsShow == Spec => []DefaultUnlessPresent
<1>1. MessageInv => DefaultUnlessPresent
  BY DEF MessageInv, MessageOK, DefaultUnlessPresent
<1> QED
  BY <1>1, Invariant, PTL

(* What was read means the same with the jumps as without them: the last   *)
(* value of each field, everything else kept in its order.                 *)
THEOREM ReadMeansWhatItSays == Spec => []MeansWhatWasRead
<1>1. MessageInv => MeansWhatWasRead
  BY DEF MessageInv
<1> QED
  BY <1>1, Invariant, PTL

(* ParseFromArray says yes only to an encoding that is whole to its last   *)
(* field.                                                                  *)
THEOREM OnlyWholeAccepted == Spec => AcceptedIsWhole
<1>1. MessageInv /\ [Next]_vars =>
        [stage # "idle" /\ stage' = "idle" /\ accepted' =>
           /\ at + 1 >= Len(wire)
           /\ \A i \in 1..Len(wire) :
                  wire[i].cut = "no" /\ wire[i].type \notin {"endGroup", "bad"}]_vars
  <2> SUFFICES ASSUME MessageInv, Next, stage # "idle", stage' = "idle", accepted'
               PROVE  /\ at + 1 >= Len(wire)
                      /\ \A i \in 1..Len(wire) :
                             wire[i].cut = "no" /\ wire[i].type \notin {"endGroup", "bad"}
    OBVIOUS
  <2>1. ~SetField /\ ~Receive /\ ~SendAndReceive
    BY DEF SetField, Receive, SendAndReceive, Parse
  <2>2. Len(wire) \in Nat /\ at \in Nat /\ WholeInv
    BY DEF MessageInv, StageInv, IsWire
  <2>3. CASE ReadTag
    <3>1. at = Len(wire)
      BY <2>3 DEF ReadTag, Returns, GoesOn
    <3> QED
      BY <2>2, <3>1 DEF WholeInv
  <2>4. ASSUME NEW number \in 1..3, ReadValue(number)
        PROVE  /\ at + 1 >= Len(wire)
               /\ \A i \in 1..Len(wire) :
                      wire[i].cut = "no" /\ wire[i].type \notin {"endGroup", "bad"}
    <3>1. wire[at + 1].cut = "no" /\ at + 1 = Len(wire)
      BY <2>4 DEF ReadValue, Returns, GoesOn
    <3>2. wire[at + 1].type = WireType(number)
      BY <2>4, ValueIsThere DEF IsField
    <3> QED
      BY <2>2, <3>1, <3>2 DEF WholeInv, WireType
  <2>5. ~HandleUninterpreted
    BY DEF HandleUninterpreted, Returns, GoesOn
  <2> QED
    BY <2>1, <2>3, <2>4, <2>5 DEF Next, ParseStep
<1> QED
  BY <1>1, Invariant, PTL DEF Spec, AcceptedIsWhole

(* What one editor serializes the parser of another accepts, and reads the *)
(* same message from it: every field, its presence, and what was kept      *)
(* aside of other versions.                                                *)
THEOREM WhatIsSentIsRead == Spec => RoundTrip
<1>1. MessageInv /\ [Next]_vars =>
        [stage # "idle" /\ stage' = "idle" /\ sent # None => accepted' /\ msg' = sent]_vars
  <2> SUFFICES ASSUME MessageInv, Next, stage # "idle", stage' = "idle", sent # None
               PROVE  accepted' /\ msg' = sent
    OBVIOUS
  <2>1. ~SetField /\ ~Receive /\ ~SendAndReceive
    BY DEF SetField, Receive, SendAndReceive, Parse
  <2>2. /\ MessageOK(sent) /\ Encodes(wire, sent) /\ IsReadTo(msg, sent, at)
        /\ MessageOK(msg) /\ at \in Nat /\ Len(wire) \in Nat
    BY DEF MessageInv, SentInv, StageInv, IsWire
  <2>3. Len(wire) = KnownOf(sent) + Len(sent.unknown)
    BY <2>2 DEF Encodes
  <2>4. CASE ReadTag
    <3>1. CASE at = Len(wire) /\ Returns(TRUE)
      <4>1. msg' = sent
        BY <2>2, <2>3, <2>4, <3>1, SentIsRead DEF ReadTag
      <4> QED
        BY <3>1, <4>1, Zenon DEF Returns
    <3>2. CASE at < Len(wire) /\ (wire[at + 1].cut = "tag" \/ IsZeroTag(wire[at + 1]))
      <4>1. at + 1 \in 1..Len(wire)
        BY <2>2, <3>2
      <4> QED
        BY <2>2, <3>2, <4>1, EncodedIsWhole
    <3> QED
      BY <2>4, <3>1, <3>2 DEF ReadTag, GoesOn
  <2>5. ASSUME NEW number \in 1..3, ReadValue(number)
        PROVE  accepted' /\ msg' = sent
    <3>1. at + 1 \in 1..Len(wire) /\ IsField(wire[at + 1], number)
      BY <2>5, ValueIsThere
    <3>2. wire[at + 1].cut = "no"
      BY <2>2, <3>1, EncodedIsWhole
    <3>3. msg' = Set(msg, number, wire[at + 1].value) /\ at + 1 = Len(wire) /\ Returns(TRUE)
      BY <2>5, <3>2 DEF ReadValue, GoesOn
    <3>4. MessageOK(msg') /\ IsReadTo(msg', sent, at + 1)
      BY <3>1, <3>3, StoreReads
    <3>5. msg' = sent
      BY <2>2, <2>3, <3>3, <3>4, SentIsRead
    <3> QED
      BY <3>3, <3>5, Zenon DEF Returns
  <2>6. ~HandleUninterpreted
    <3> SUFFICES ASSUME HandleUninterpreted PROVE FALSE
      OBVIOUS
    <3>1. TagWhole(at + 1)
      BY DEF HandleUninterpreted, MessageInv, StageInv
    <3>2. at + 1 \in 1..Len(wire)
      BY <2>2, <3>1 DEF TagWhole
    <3>3. wire[at + 1].cut = "no" /\ wire[at + 1].type \in KeptTypes
      BY <2>2, <3>2, EncodedIsWhole
    <3> QED
      BY <3>3 DEF HandleUninterpreted, GoesOn
  <2> QED
    BY <2>1, <2>4, <2>5, <2>6 DEF Next, ParseStep
<1> QED
  BY <1>1, Invariant, PTL DEF Spec, RoundTrip

=============================================================================
