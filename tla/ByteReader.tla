----------------------------- MODULE ByteReader -----------------------------
(***************************************************************************)
(* What a reader of coded input promises its client, whatever buffers the  *)
(* bytes arrive in.  Each read is one call: asked, then answered.  Until   *)
(* the answer nothing seems to move; a read that succeeds moves the        *)
(* position past exactly the bytes it returned and never past a limit; a   *)
(* read fails only when the bytes it needs are not there to be had; and    *)
(* the end of a message is announced only where a message may end.         *)
(***************************************************************************)
EXTENDS Integers, Sequences

CONSTANTS
    Contents,       \* the inputs: sequences of bytes, TRUE if the byte goes on
    MaxVarint,      \* the longest variable-length integer
    Sizes,          \* the sizes clients ask for
    IntMax,         \* the largest int
    DefaultTotal    \* the total limit of a new reader

VARIABLES
    content,    \* the bytes of the input
    inputFailed,\* the input has failed before its end
    pos,        \* the position of the reader, at which the input is handed back
    limit,      \* the nearest of the limits in force
    limits,     \* the limits put aside, the oldest first
    total,      \* the limit on everything that is read
    ended,      \* the last end met is one where a message may end
    asked,      \* the read under way
    status      \* "open", "failed" or "closed"

vars == <<content, inputFailed, pos, limit, limits, total, ended, asked, status>>

Nothing == [name |-> "none", n |-> 0]

Requests == [name : {"bytes", "skip"}, n : Sizes]
              \cup [name : {"varint", "tag", "direct"}, n : {0}]

Least(S) == CHOOSE x \in S : \A y \in S : x <= y

Bound == Least({limit, total, Len(content)})

(* a variable-length integer of k bytes lies at the position *)
VarintHere(k) ==
    /\ k \in 1..MaxVarint
    /\ pos + k <= Len(content)
    /\ ~content[pos + k]
    /\ \A i \in 1..(k - 1) : content[pos + i]

Reads(k) == pos + k <= Bound

Init ==
    /\ content \in Contents
    /\ inputFailed = FALSE
    /\ pos = 0
    /\ limit \in {IntMax, Len(content)}
    /\ limits = <<>>
    /\ total = DefaultTotal
    /\ ended = FALSE
    /\ asked = Nothing
    /\ status = "open"

InputFails ==
    /\ ~inputFailed
    /\ inputFailed' = TRUE
    /\ UNCHANGED <<content, pos, limit, limits, total, ended, asked, status>>

Ask(r) ==
    /\ status = "open" /\ asked = Nothing
    /\ asked' = r
    /\ UNCHANGED <<content, inputFailed, pos, limit, limits, total, ended, status>>

(* the read has its k bytes *)
Advances(k) ==
    /\ Reads(k)
    /\ pos' = pos + k /\ asked' = Nothing
    /\ UNCHANGED <<content, inputFailed, limit, limits, total, ended, status>>

(* bytes are missing: a limit, the end of the input or a failed input *)
CannotRead ==
    \/ inputFailed'
    \/ asked.name \in {"bytes", "skip"} /\ (asked.n < 0 \/ ~Reads(asked.n))
    \/ asked.name \in {"varint", "tag"} /\ ~ \E k \in 1..MaxVarint : VarintHere(k) /\ Reads(k)

Fails ==
    /\ asked # Nothing /\ CannotRead
    /\ inputFailed => inputFailed'
    /\ status' = "failed" /\ asked' = Nothing
    /\ ended' \in {ended, FALSE}
    /\ UNCHANGED <<content, pos, limit, limits, total>>

(* no tag, but a message may end here: at a limit or where the input ends *)
Ends ==
    /\ asked.name = "tag"
    /\ pos \in {limit, Len(content)} \/ inputFailed'
    /\ inputFailed => inputFailed'
    /\ ended' = TRUE /\ asked' = Nothing
    /\ UNCHANGED <<content, pos, limit, limits, total, status>>

(* bytes to look at, which stay unread, or none *)
Looks ==
    /\ asked.name = "direct"
    /\ inputFailed => inputFailed'
    /\ asked' = Nothing
    /\ UNCHANGED <<content, pos, limit, limits, total, ended, status>>

Answer ==
    \/ asked.name \in {"bytes", "skip"} /\ asked.n >= 0 /\ Advances(asked.n)
    \/ asked.name \in {"varint", "tag"} /\ \E k \in 1..MaxVarint : VarintHere(k) /\ Advances(k)
    \/ Ends
    \/ Looks
    \/ Fails

(* a tag known to come next, recognised or not *)
Expect ==
    /\ status = "open" /\ asked = Nothing
    /\ \E k \in 1..2 : VarintHere(k) /\ Advances(k)

(* the reader knows without reading that it stands at a limit *)
ExpectEnd ==
    /\ status = "open" /\ asked = Nothing
    /\ pos \in {limit, total}
    /\ ended' = TRUE
    /\ UNCHANGED <<content, inputFailed, pos, limit, limits, total, asked, status>>

(* a size that is negative or beyond the integers asks for no limit          *)
Push(n) ==
    /\ status = "open" /\ asked = Nothing
    /\ limit' = IF n >= 0 /\ pos + n <= IntMax THEN Least({limit, pos + n}) ELSE limit
    /\ limits' = Append(limits, limit)
    /\ UNCHANGED <<content, inputFailed, pos, total, ended, asked, status>>

Pop ==
    /\ status = "open" /\ asked = Nothing /\ limits # <<>>
    /\ limit' = limits[Len(limits)]
    /\ limits' = SubSeq(limits, 1, Len(limits) - 1)
    /\ ended' = FALSE
    /\ UNCHANGED <<content, inputFailed, pos, total, asked, status>>

SetTotal(n) ==
    /\ status = "open" /\ asked = Nothing
    /\ total' = IF n >= pos THEN n ELSE pos
    /\ UNCHANGED <<content, inputFailed, pos, limit, limits, ended, asked, status>>

(* the input is handed back at the first unread byte; after a failure       *)
(* anywhere between the last value read and the nearest limit               *)
Close ==
    /\ status # "closed" /\ asked = Nothing
    /\ status' = "closed"
    /\ status = "open" => pos' = pos
    /\ pos' \in pos..Bound
    /\ UNCHANGED <<content, inputFailed, limit, limits, total, ended, asked>>

Next ==
    \/ InputFails
    \/ \E r \in Requests : Ask(r)
    \/ Answer
    \/ Expect
    \/ ExpectEnd
    \/ \E n \in Sizes : Push(n)
    \/ Pop
    \/ \E n \in Sizes : SetTotal(n)
    \/ Close

Spec == Init /\ [][Next]_vars
=============================================================================
