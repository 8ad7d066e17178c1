------------------------ MODULE MCTextChangeMessage ------------------------
(* Encodings of up to MaxFields fields for TextChangeMessage, of this and of *)
(* other versions, sound, malformed, and cut short in the last field.        *)
EXTENDS TextChangeMessage

CONSTANT MaxFields

(* the fields of the message with every value; what it keeps aside or        *)
(* refuses with one, of number 0 too                                         *)
MCFields ==
    [number : {1, 2, 3}, type : {"varint"}, value : Ints]
      \cup [number : {2}, type : {"bytes"}, value : Strings]
      \cup [number : {0, 1}, type : {"bytes"}, value : {Empty}]
      \cup [number : {0, 2}, type : {"group"}, value : {Zero}]
      \cup [number : {0, 1}, type : {"fixed"}, value : {Zero}]
      \cup { [number |-> 4, type |-> "varint", value |-> Zero],
             [number |-> 4, type |-> "endGroup", value |-> Zero],
             [number |-> 0, type |-> "varint", value |-> Zero],
             [number |-> 1, type |-> "bad", value |-> Zero] }

Cut(f, where) == [number |-> f.number, type |-> f.type, value |-> f.value, cut |-> where]

MCWires ==
    LET Whole(n) == [1..n -> {Cut(f, "no") : f \in MCFields}]
    IN  UNION { { Append(w, Cut(f, where)) : w \in Whole(n),
                    f \in MCFields, where \in {"no", "tag", "value"} } : n \in 0..(MaxFields - 1) }
          \cup { <<>> }
=============================================================================
