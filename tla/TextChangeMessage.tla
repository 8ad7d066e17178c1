------------------------- MODULE TextChangeMessage -------------------------
(***************************************************************************)
(* The message class generated from EVO.proto: three optional fields with  *)
(* presence bits, fields of other versions kept aside, the encoder and the *)
(* parser, which guesses the next tag (ExpectTag) and jumps.               *)
(*                                                                         *)
(* The encoding is abstracted to a sequence of fields; a field is its      *)
(* number, its wire type, its value and the place where the bytes run out, *)
(* if they do.  int64 values and strings are members of small sets with    *)
(* their default; a field of 32 or 64 bits no field of this message has,   *)
(* and an unknown group is one field.                                      *)
(***************************************************************************)
EXTENDS Naturals, Sequences

CONSTANTS
    Ints,       \* values of int64 fields
    Strings,    \* values of strings
    Zero,       \* the int64 default
    Empty,      \* the empty string
    Partial,    \* what is left of a string that is cut short
    Wires       \* the encodings that may arrive, beside those serialized here

(* What a decoder can make of bytes: a varint is an int64, and so on.      *)
Values(type) == CASE type = "varint" -> Ints
                  [] type = "bytes" -> Strings \cup {Partial}
                  [] type = "fixed" -> {Zero}
                  [] OTHER -> {Zero, Partial}

IsWire(w) ==
    /\ w \in Seq([number : Nat, type : {"varint", "fixed", "bytes", "group", "endGroup", "bad"},
                  value : Ints \cup Strings \cup {Partial}, cut : {"no", "tag", "value"}])
    /\ \A i \in 1..Len(w) : w[i].value \in Values(w[i].type)

ASSUME TextChangeMessageAssumption ==
    /\ Zero \in Ints /\ Empty \in Strings /\ Partial \notin Strings \cup Ints
    /\ \A w \in Wires : IsWire(w)

VARIABLES
    msg,        \* the message object
    wire,       \* what is parsed
    at,         \* how many of its fields have been read
    stage,      \* where MergePartialFromCodedStream is
    accepted,   \* what ParseFromArray returned last
    sent        \* the message `wire' was serialized from, if it was

vars == <<msg, wire, at, stage, accepted, sent>>

(***************************************************************************)
(* Messages and fields.                                                    *)
(***************************************************************************)
None == [has |-> {}]    \* no message

Default(number) == IF number = 2 THEN Empty ELSE Zero

(* SharedCtor; a value of each field, by its number *)
New == [value |-> [number \in 1..3 |-> Default(number)], has |-> {}, unknown |-> <<>>]

WireType(number) == IF number = 2 THEN "bytes" ELSE "varint"

Field(number, value) ==
    [number |-> number, type |-> WireType(number), value |-> value, cut |-> "no"]

(* set_cursorlocation, set_contentmodified, set_numchars *)
Set(m, number, value) ==
    [m EXCEPT !.value = [@ EXCEPT ![number] = value], !.has = @ \cup {number}]

(* clear_cursorlocation, clear_contentmodified, clear_numchars *)
Unset(m, number) ==
    [m EXCEPT !.value = [@ EXCEPT ![number] = Default(number)], !.has = @ \ {number}]

(* Clear: a string is emptied only if its bit is set, the rest if any is *)
Clear(m) ==
    LET cleared(number) == IF number = 2 THEN 2 \in m.has ELSE m.has # {}
    IN  [value |-> [number \in 1..3 |->
                       IF cleared(number) THEN Default(number) ELSE m.value[number]],
         has |-> {}, unknown |-> <<>>]

\* faulty variant: a default value is left out
SerializeNoDefaults(m) ==
    LET Known(number) == IF number \in m.has /\ m.value[number] # Default(number)
                           THEN <<Field(number, m.value[number])>> ELSE <<>>
    IN  Known(1) \o Known(2) \o Known(3) \o m.unknown

(* SerializeWithCachedSizes: by number, what is not known at the end *)
Serialize(m) ==
    LET Known(number) == IF number \in m.has THEN <<Field(number, m.value[number])>> ELSE <<>>
    IN  Known(1) \o Known(2) \o Known(3) \o m.unknown

(***************************************************************************)
(* Parsing.                                                                *)
(***************************************************************************)
TagWhole(i) == i <= Len(wire) /\ wire[i].cut # "tag"

\* the whole tag is 0, not only the number of its field
IsZeroTag(f) == f.number = 0 /\ f.type = "varint"

IsField(f, number) == f.number = number /\ f.type = WireType(number)

IsKnown(f) == \E number \in 1..3 : IsField(f, number)

\* faulty variant: the field after the next one will do
GuessedAny(number, i) ==
    /\ number < 3 /\ TagWhole(i)
    /\ \E n \in (number + 1)..3 : IsField(wire[i], n)

\* faulty variant: the wire type is not looked at
GuessedNumber(number, i) == number < 3 /\ i <= Len(wire) /\ wire[i].number = number + 1

(* ExpectTag: the next tag is that of the field after this one *)
Guessed(number, i) == number < 3 /\ TagWhole(i) /\ IsField(wire[i], number + 1)

Init ==
    /\ msg = New /\ wire = <<>> /\ at = 0
    /\ stage = "idle" /\ accepted = FALSE /\ sent = None

SetField ==
    /\ stage = "idle"
    /\ \/ \E v \in Ints, number \in {1, 3} : msg' = Set(msg, number, v)
       \/ \E s \in Strings : msg' = Set(msg, 2, s)
       \/ \E number \in 1..3 : msg' = Unset(msg, number)
    /\ UNCHANGED <<wire, at, stage, accepted, sent>>

(* ParseFromArray, on an object that may have been used before *)
Parse(w) ==
    /\ stage = "idle"
    /\ msg' = Clear(msg)
    /\ wire' = w /\ at' = 0 /\ stage' = "loop" /\ accepted' = FALSE

Receive == \E w \in Wires : Parse(w) /\ sent' = None

(* what one device serializes another one parses, into an object of its own *)
SendAndReceive == Parse(Serialize(msg)) /\ sent' = msg

Returns(ok) ==
    /\ stage' = "idle" /\ accepted' = ok
    /\ wire' = <<>> /\ at' = 0 /\ sent' = None

GoesOn(next, read) ==
    /\ stage' = next /\ at' = read
    /\ UNCHANGED <<wire, accepted, sent>>

\* faulty variant: an end of the input inside a tag is an end of the message
ReadTagEndsAnywhere ==
    /\ stage = "loop"
    /\ \/ (at < Len(wire) => wire[at + 1].cut = "tag") /\ Returns(TRUE)
       \/ TagWhole(at + 1) /\ IsZeroTag(wire[at + 1]) /\ Returns(FALSE)
       \/ TagWhole(at + 1) /\ ~IsZeroTag(wire[at + 1]) /\ GoesOn("switch", at)
    /\ UNCHANGED msg

(* the tag read at the head of the loop; 0 ends it, and the message is      *)
(* accepted if ConsumedEntireMessage knows that the input ended there       *)
ReadTag ==
    /\ stage = "loop"
    /\ \/ at = Len(wire) /\ Returns(TRUE)
       \/ /\ at < Len(wire) /\ (wire[at + 1].cut = "tag" \/ IsZeroTag(wire[at + 1]))
          /\ Returns(FALSE)
       \/ TagWhole(at + 1) /\ ~IsZeroTag(wire[at + 1]) /\ GoesOn("switch", at)
    /\ UNCHANGED msg

\* faulty variant: the bit of the string is set when all of it has been read
ReadValueThenSet(number) ==
    LET f == wire[at + 1]
    IN  /\ \/ stage = "switch" /\ IsField(f, number)
           \/ stage = "jump" /\ number = wire[at].number + 1
        /\ IF f.cut = "no"
             THEN /\ msg' = Set(msg, number, f.value)
                  /\ \/ Guessed(number, at + 2) /\ GoesOn("jump", at + 1)
                     \/ number = 3 /\ at + 1 = Len(wire) /\ Returns(TRUE)
                     \/ ~Guessed(number, at + 2) /\ (number = 3 => at + 1 < Len(wire))
                          /\ GoesOn("loop", at + 1)
             ELSE /\ \/ msg' = msg
                     \/ number = 2 /\ msg' = [msg EXCEPT !.value[2] = Partial]
                  /\ Returns(FALSE)

(* the value of a field, by its case or by the jump to it; the bit of the   *)
(* string is set before the string is read                                  *)
ReadValue(number) ==
    LET f == wire[at + 1]
    IN  /\ \/ stage = "switch" /\ IsField(f, number)
           \/ stage = "jump" /\ number = wire[at].number + 1
        /\ IF f.cut = "no"
             THEN /\ msg' = Set(msg, number, f.value)
                  /\ \/ Guessed(number, at + 2) /\ GoesOn("jump", at + 1)
                     \/ number = 3 /\ at + 1 = Len(wire) /\ Returns(TRUE)
                     \/ ~Guessed(number, at + 2) /\ (number = 3 => at + 1 < Len(wire))
                          /\ GoesOn("loop", at + 1)
             ELSE /\ \/ number # 2 /\ msg' = msg
                     \/ number = 2 /\ \E s \in {msg.value[2], Partial} : msg' = Set(msg, 2, s)
                  /\ Returns(FALSE)

KeptTypes == {"varint", "fixed", "bytes", "group"}

\* faulty variant: what is not known is looked at again
UninterpretedStays ==
    LET f == wire[at + 1]
    IN  /\ stage = "switch" /\ ~IsKnown(f)
        /\ IF f.cut = "no" /\ f.type \in KeptTypes
             THEN GoesOn("loop", at)
             ELSE Returns(FALSE)
        /\ UNCHANGED msg

(* handle_uninterpreted: the end of a group returns, another field is kept, *)
(* one that is cut short perhaps as far as it goes                          *)
HandleUninterpreted ==
    LET f == wire[at + 1]
        Kept(g) == [msg EXCEPT !.unknown = Append(@, g)]
    IN  /\ stage = "switch" /\ ~IsKnown(f)
        /\ IF f.cut = "no" /\ f.type \in KeptTypes
             THEN msg' = Kept(f) /\ GoesOn("loop", at + 1)
             ELSE /\ \/ msg' = msg
                     \/ f.type \in {"bytes", "group"}
                          /\ msg' = Kept([f EXCEPT !.value = Partial, !.cut = "no"])
                  /\ Returns(FALSE)

ParseStep ==
    \/ ReadTag
    \/ \E number \in 1..3 : ReadValue(number)
    \/ HandleUninterpreted

Next == SetField \/ Receive \/ SendAndReceive \/ ParseStep

Spec == Init /\ [][Next]_vars /\ WF_vars(ParseStep)

(***************************************************************************)
(* Properties.                                                             *)
(***************************************************************************)
KeptFields ==
    {f \in [number : Nat, type : KeptTypes, value : Ints \cup Strings \cup {Partial},
            cut : {"no"}] : ~IsZeroTag(f)}

Message ==
    {m \in [value : [1..3 -> Ints \cup Strings \cup {Partial}],
            has : SUBSET (1..3), unknown : Seq(KeptFields)] :
        \A number \in 1..3 : m.value[number] \in Values(WireType(number))}

(* A jump never reads a field that is not there. *)
TypeOK ==
    /\ msg \in Message /\ sent \in Message \cup {None}
    /\ at \in 0..Len(wire)
    /\ stage \in {"idle", "loop", "switch", "jump"}
    /\ stage \in {"switch", "jump"} => TagWhole(at + 1)
    /\ stage = "jump" => at > 0 /\ wire[at + 1].number \in {2, 3}
    /\ accepted \in BOOLEAN

(* A field whose bit is not set has its default value, after a parse that   *)
(* failed half-way too.  Clear and the getters rely on it: a second parse   *)
(* into the same object must not show anything of the first.                *)
DefaultUnlessPresent ==
    \A number \in 1..3 \ msg.has : msg.value[number] = Default(number)

(* What has been read of the encoding means the same with the jumps of      *)
(* ExpectTag as without them: of each field the last value, and everything  *)
(* else kept in its order.                                                  *)
IsLast(i, number) ==
    IsField(wire[i], number) /\ \A j \in (i + 1)..at : ~IsField(wire[j], number)

HasLastValue(number) ==
    \/ number \in msg.has /\ \E i \in 1..at : IsLast(i, number) /\ msg.value[number] = wire[i].value
    \/ number \notin msg.has /\ \A i \in 1..at : ~IsField(wire[i], number)

Others == {i \in 1..at : ~IsKnown(wire[i])}

\* place[k] is where the k-th field kept aside was read
KeptAsRead(place) ==
    /\ \A i \in Others : \E k \in DOMAIN place : place[k] = i
    /\ \A k \in DOMAIN place : msg.unknown[k] = wire[place[k]]
    /\ \A k, l \in DOMAIN place : k < l => place[k] < place[l]

MeansWhatWasRead ==
    stage # "idle" =>
        /\ \A number \in 1..3 : HasLastValue(number)
        /\ \E place \in [1..Len(msg.unknown) -> Others] : KeptAsRead(place)

(* A message is accepted only if every byte of it was understood: nothing   *)
(* is cut short, no group ends that never began.                            *)
AcceptedIsWhole ==
    [][stage # "idle" /\ stage' = "idle" /\ accepted' =>
         /\ at + 1 >= Len(wire)
         /\ \A i \in 1..Len(wire) :
                wire[i].cut = "no" /\ wire[i].type \notin {"endGroup", "bad"}]_vars

(* Every parse comes to an end: neither the loop nor the jumps stand still. *)
ParseEnds == stage # "idle" ~> stage = "idle"

(* An encoding of a message is accepted and yields that message: what one   *)
(* editor broadcasts is what the others apply.                              *)
RoundTrip ==
    [][stage # "idle" /\ stage' = "idle" /\ sent # None => accepted' /\ msg' = sent]_vars
=============================================================================
