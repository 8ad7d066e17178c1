----------------------------- MODULE CodedInput -----------------------------
(***************************************************************************)
(* io::CodedInputStream: every message the application and the Collabrify  *)
(* library exchange is read through it.  It hands out bytes from the       *)
(* buffers of an input stream, or from one flat array, under two kinds of  *)
(* limits, and gives the input back at the first byte that was not read.   *)
(*                                                                         *)
(* A byte is abstracted to its continuation bit (0x80), a buffer pointer   *)
(* to the offset in the input of the bytes it points at, NULL to 0.  A     *)
(* read is one call: it is asked, takes one step per refill of the buffer  *)
(* and per byte of the slow path, and is answered.  The client keeps the   *)
(* rules of the header: it pops the limits it pushed, the last one first,  *)
(* only destroys a reader one of whose reads failed, and does not raise    *)
(* the total limit between the end of a message and its check of that end. *)
(***************************************************************************)
EXTENDS Integers, Sequences

CONSTANTS
    Contents,       \* the inputs: sequences of bytes, TRUE if the byte goes on
    MaxVarint,      \* kMaxVarintBytes
    IntMax,         \* INT_MAX
    DefaultTotal,   \* kDefaultTotalBytesLimit
    MaxFlat,        \* bound: the longest flat array
    MaxChunk,       \* bound: the largest buffer the input hands out
    Sizes,          \* the sizes clients ask for, for limits too
    MaxLimits,      \* bound: limits put aside at a time
    MayFail         \* whether the input may fail before its end

ASSUME CodedInputAssumption ==
    /\ MaxVarint \in Nat \ {0} /\ MaxChunk \in Nat /\ MaxLimits \in Nat
    /\ IntMax \in Nat /\ DefaultTotal \in 0..IntMax /\ MaxFlat \in 0..IntMax
    /\ Contents \subseteq Seq(BOOLEAN)
    /\ Sizes \subseteq Int /\ \A n \in Sizes : n <= IntMax
    /\ MayFail \in BOOLEAN

VARIABLES
    content,        \* the bytes of the input
    given,          \* external: ByteCount() of the input
    lastChunk,      \* external: how much the input lets itself be backed up
    inputFailed,    \* external: the input has met an error
    flat,           \* input_ == NULL: the reader reads one array
    buffer,         \* buffer_
    bufferEnd,      \* buffer_end_
    totalRead,      \* total_bytes_read_
    overflow,       \* overflow_bytes_
    afterLimit,     \* buffer_size_after_limit_
    currentLimit,   \* current_limit_
    totalLimit,     \* total_bytes_limit_
    legitimateEnd,  \* legitimate_message_end_
    oldLimits,      \* what PushLimit returned to the client, the oldest first
    asked,          \* the read under way
    stage,          \* how far it is
    need,           \* the bytes it still needs, or has read on the slow path
    start,          \* the position at which it was asked
    status,         \* "open", "failed" or "closed"
    nullCalled      \* a method of input_ was called on NULL

inputVars == <<content, given, lastChunk, inputFailed>>
bufferVars == <<buffer, bufferEnd, totalRead, overflow, afterLimit>>
limitVars == <<currentLimit, totalLimit, oldLimits>>
callVars == <<asked, stage, need, start, status>>
vars == <<inputVars, flat, bufferVars, limitVars, legitimateEnd, callVars, nullCalled>>

(***************************************************************************)
(* Helpers.                                                                *)
(***************************************************************************)
Smaller(a, b) == IF a <= b THEN a ELSE b
Larger(a, b) == IF a >= b THEN a ELSE b

BufferSize == bufferEnd - buffer

CurrentPosition == totalRead - (BufferSize + afterLimit)

ClosestLimit == Smaller(currentLimit, totalLimit)

(* the byte after the first p goes on in the next one *)
GoesOn(p) == content[p + 1]

(* a variable-length integer of k bytes starts where the buffer does *)
VarintAt(k) ==
    /\ k \in 1..MaxVarint /\ buffer + k <= Len(content)
    /\ ~GoesOn(buffer + k - 1)
    /\ \A i \in 0..(k - 2) : GoesOn(buffer + i)

Request(name, n) == [name |-> name, n |-> n]
Nothing == Request("none", 0)
Requests == [name : {"bytes", "skip"}, n : Sizes]
              \cup [name : {"varint", "tag", "direct"}, n : {0}]

\* faulty variant: the total limit is not looked at
RecomputeForOneLimit(end, read, current, total) ==
    /\ afterLimit' = Larger(0, read - current)
    /\ bufferEnd' = end - Larger(0, read - current)

\* faulty variant: what was put aside at an earlier limit is counted still
RecomputeKeepsAside(end, read, current, total) ==
    LET closest == Smaller(current, total)
    IN  IF closest < read
          THEN afterLimit' = read - closest /\ bufferEnd' = end - (read - closest)
          ELSE afterLimit' = afterLimit /\ bufferEnd' = end

(* the buffer ends at the nearest limit; what lies beyond is put aside.     *)
(* `end' and `read' are buffer_end_ with the bytes put aside and            *)
(* total_bytes_read_                                                        *)
RecomputeBufferLimits(end, read, current, total) ==
    LET closest == Smaller(current, total)
    IN  IF closest < read
          THEN /\ afterLimit' = read - closest
               /\ bufferEnd' = end - (read - closest)
          ELSE /\ afterLimit' = 0
               /\ bufferEnd' = end

(***************************************************************************)
(* Refresh: the buffer is empty, get another one.  At a limit it stops     *)
(* without asking the input.  The size of the buffer that comes is the     *)
(* input's choice; empty buffers are passed over.                          *)
(***************************************************************************)
AtStop == afterLimit > 0 \/ overflow > 0 \/ totalRead = currentLimit

\* faulty variant: the bytes beyond INT_MAX are left in the buffer
RefreshKeepsOverflow ==
    /\ ~AtStop /\ ~flat /\ ~inputFailed
    /\ \E n \in 1..MaxChunk :
        /\ given + n <= Len(content)
        /\ given' = given + n /\ lastChunk' = n
        /\ buffer' = given
        /\ overflow' = Larger(0, totalRead - (IntMax - n))
        /\ totalRead' = Smaller(totalRead + n, IntMax)
        /\ RecomputeBufferLimits(given + n, Smaller(totalRead + n, IntMax),
                                 currentLimit, totalLimit)
    /\ UNCHANGED <<content, inputFailed, nullCalled>>

\* faulty variant: the bytes beyond INT_MAX are counted
RefreshOverflows ==
    /\ ~AtStop /\ ~flat /\ ~inputFailed
    /\ \E n \in 1..MaxChunk :
        /\ given + n <= Len(content)
        /\ given' = given + n /\ lastChunk' = n
        /\ buffer' = given
        /\ totalRead' = totalRead + n
        /\ RecomputeBufferLimits(given + n, totalRead + n, currentLimit, totalLimit)
    /\ UNCHANGED <<content, inputFailed, overflow, nullCalled>>

RefreshGets ==
    /\ ~AtStop /\ ~flat /\ ~inputFailed
    /\ \E n \in 1..MaxChunk :
        /\ given + n <= Len(content)
        /\ given' = given + n /\ lastChunk' = n
        /\ buffer' = given
        /\ overflow' = Larger(0, totalRead - (IntMax - n))
        /\ totalRead' = Smaller(totalRead + n, IntMax)
        /\ RecomputeBufferLimits(given + n - Larger(0, totalRead - (IntMax - n)),
                                 Smaller(totalRead + n, IntMax), currentLimit, totalLimit)
    /\ UNCHANGED <<content, inputFailed, nullCalled>>

RefreshStops ==
    /\ AtStop
    /\ buffer' = bufferEnd
    /\ UNCHANGED <<inputVars, bufferEnd, totalRead, overflow, afterLimit, nullCalled>>

RefreshMeetsEnd ==
    /\ ~AtStop /\ ~flat
    /\ \/ given = Len(content) /\ inputFailed' = inputFailed
       \/ MayFail /\ inputFailed' = TRUE
    /\ lastChunk' = 0
    /\ buffer' = 0 /\ bufferEnd' = 0
    /\ UNCHANGED <<content, given, totalRead, overflow, afterLimit, nullCalled>>

RefreshCallsNull ==
    /\ ~AtStop /\ flat
    /\ nullCalled' = TRUE
    /\ UNCHANGED <<inputVars, bufferVars>>

RefreshFails == RefreshStops \/ RefreshMeetsEnd \/ RefreshCallsNull

(***************************************************************************)
(* Creation.  A reader of an input refills its buffer at once.             *)
(***************************************************************************)
\* faulty variant: no limit at the end of a flat array
InitUnlimited ==
    /\ content \in Contents
    /\ flat \in {b \in BOOLEAN : b => Len(content) <= MaxFlat}
    /\ given = 0 /\ lastChunk = 0 /\ inputFailed = FALSE
    /\ buffer = 0 /\ overflow = 0 /\ afterLimit = 0
    /\ bufferEnd = IF flat THEN Len(content) ELSE 0
    /\ totalRead = bufferEnd
    /\ currentLimit = IntMax
    /\ totalLimit = DefaultTotal
    /\ oldLimits = <<>>
    /\ legitimateEnd = FALSE
    /\ asked = Nothing /\ need = 0 /\ start = 0 /\ status = "open"
    /\ stage = IF flat THEN "idle" ELSE "create"
    /\ nullCalled = FALSE

Init ==
    /\ content \in Contents
    /\ flat \in {b \in BOOLEAN : b => Len(content) <= MaxFlat}
    /\ given = 0 /\ lastChunk = 0 /\ inputFailed = FALSE
    /\ buffer = 0 /\ overflow = 0 /\ afterLimit = 0
    /\ bufferEnd = IF flat THEN Len(content) ELSE 0
    /\ totalRead = bufferEnd
    /\ currentLimit = IF flat THEN Len(content) ELSE IntMax
    /\ totalLimit = DefaultTotal
    /\ oldLimits = <<>>
    /\ legitimateEnd = FALSE
    /\ asked = Nothing /\ need = 0 /\ start = 0 /\ status = "open"
    /\ stage = IF flat THEN "idle" ELSE "create"
    /\ nullCalled = FALSE

Create ==
    /\ stage = "create"
    /\ RefreshGets \/ RefreshFails
    /\ stage' = "idle"
    /\ UNCHANGED <<flat, limitVars, legitimateEnd, asked, need, start, status>>

(***************************************************************************)
(* Calls.                                                                  *)
(***************************************************************************)
Idle == stage = "idle" /\ status = "open"

Ask(r) ==
    /\ Idle
    /\ asked' = r /\ stage' = r.name /\ need' = r.n /\ start' = CurrentPosition
    /\ UNCHANGED <<inputVars, flat, bufferVars, limitVars, legitimateEnd, status, nullCalled>>

Answered == asked' = Nothing /\ stage' = "idle" /\ need' = 0

Succeeds == Answered /\ start' = 0 /\ UNCHANGED status
Breaks == Answered /\ status' = "failed" /\ UNCHANGED start

(* the call goes on *)
Goes(s, n) == stage' = s /\ need' = n /\ UNCHANGED <<asked, start, status>>

BufferKept == UNCHANGED <<bufferEnd, totalRead, overflow, afterLimit>>

Advance(n) == buffer' = buffer + n /\ BufferKept

(* the parts of the state no read changes *)
ReadFrame == UNCHANGED <<flat, limitVars>>

(* false or tag 0; a client takes tag 0 for the end of the message if       *)
(* ConsumedEntireMessage says so                                            *)
NoValue(consumed) == IF asked.name = "tag" /\ consumed THEN Succeeds ELSE Breaks

(***************************************************************************)
(* ReadRaw, ReadString: take what the buffer has and refill it until the   *)
(* rest of the bytes is in the buffer.                                     *)
(***************************************************************************)
ReadBytes ==
    /\ stage = "bytes"
    /\ \/ asked.n < 0 /\ Breaks /\ UNCHANGED <<inputVars, bufferVars, nullCalled>>
       \/ /\ need \in 0..BufferSize
          /\ Advance(need) /\ Succeeds
          /\ UNCHANGED <<inputVars, nullCalled>>
       \/ need > BufferSize /\ RefreshGets /\ Goes("bytes", need - BufferSize)
       \/ asked.n >= 0 /\ need > BufferSize /\ RefreshFails /\ Breaks
    /\ ReadFrame /\ UNCHANGED legitimateEnd

(***************************************************************************)
(* ReadVarint32, ReadVarint64.  If the integer is known to end inside the  *)
(* buffer, or the buffer is long enough for any, it is read without a look *)
(* at the end of the buffer; else byte by byte.                            *)
(***************************************************************************)
ReadsFromArray ==
    \/ BufferSize >= MaxVarint
    \/ BufferSize > 0 /\ ~(GoesOn(bufferEnd - 1) /\ GoesOn(buffer))

ReadVarintFromArray ==
    /\ \/ \E k \in 1..MaxVarint : VarintAt(k) /\ Advance(k) /\ Succeeds
       \/ (\A k \in 1..MaxVarint : ~VarintAt(k)) /\ UNCHANGED bufferVars /\ NoValue(legitimateEnd)
    /\ UNCHANGED <<inputVars, legitimateEnd, nullCalled>>

ReadVarint ==
    /\ stage = "varint"
    /\ \/ ReadsFromArray /\ ReadVarintFromArray
       \/ /\ ~ReadsFromArray /\ Goes("slow", 0)
          /\ UNCHANGED <<inputVars, bufferVars, legitimateEnd, nullCalled>>
    /\ ReadFrame

\* faulty variant: the loop takes no notice of a refill that fails
ReadVarintForever ==
    /\ stage = "slow"
    /\ \/ /\ need = MaxVarint /\ NoValue(legitimateEnd)
          /\ UNCHANGED <<inputVars, bufferVars, nullCalled>>
       \/ /\ need < MaxVarint /\ BufferSize = 0
          /\ RefreshGets \/ RefreshFails
          /\ Goes("slow", need)
       \/ /\ need < MaxVarint /\ BufferSize # 0
          /\ Advance(1)
          /\ IF GoesOn(buffer) THEN Goes("slow", need + 1) ELSE Succeeds
          /\ UNCHANGED <<inputVars, nullCalled>>
    /\ ReadFrame /\ UNCHANGED legitimateEnd

ReadVarintSlow ==
    /\ stage = "slow"
    /\ \/ /\ need = MaxVarint /\ NoValue(legitimateEnd)
          /\ UNCHANGED <<inputVars, bufferVars, nullCalled>>
       \/ /\ need < MaxVarint /\ BufferSize = 0
          /\ \/ RefreshGets /\ Goes("slow", need)
             \/ RefreshFails /\ NoValue(legitimateEnd)
       \/ /\ need < MaxVarint /\ BufferSize # 0
          /\ Advance(1)
          /\ IF GoesOn(buffer) THEN Goes("slow", need + 1) ELSE Succeeds
          /\ UNCHANGED <<inputVars, nullCalled>>
    /\ ReadFrame /\ UNCHANGED legitimateEnd

(***************************************************************************)
(* ReadTag.  Without a byte left it finds out whether a message may end    *)
(* here: at a limit or at the end of the input, not at the total limit.    *)
(***************************************************************************)
AtLimitForTag ==
    /\ BufferSize = 0
    /\ afterLimit > 0 \/ totalRead = currentLimit
    /\ totalRead - afterLimit < totalLimit

ReadTag ==
    /\ stage = "tag" /\ ReadsFromArray /\ ReadVarintFromArray
    /\ ReadFrame

ReadTagAtLimit ==
    /\ stage = "tag" /\ ~ReadsFromArray /\ AtLimitForTag
    /\ legitimateEnd' = TRUE /\ NoValue(TRUE)
    /\ ReadFrame /\ UNCHANGED <<inputVars, bufferVars, nullCalled>>

\* faulty variant: the total limit is taken for the end of the message
ReadTagEndsAnywhere ==
    /\ stage = "tag" /\ ~ReadsFromArray /\ ~AtLimitForTag
    /\ \/ /\ BufferSize = 0 /\ RefreshFails
          /\ legitimateEnd' = TRUE
          /\ NoValue(legitimateEnd')
       \/ BufferSize = 0 /\ RefreshGets /\ Goes("varint", 0) /\ UNCHANGED legitimateEnd
       \/ /\ BufferSize > 0 /\ Goes("varint", 0)
          /\ UNCHANGED <<inputVars, bufferVars, legitimateEnd, nullCalled>>
    /\ ReadFrame

ReadTagSlow ==
    /\ stage = "tag" /\ ~ReadsFromArray /\ ~AtLimitForTag
    /\ \/ /\ BufferSize = 0 /\ RefreshFails
          /\ legitimateEnd' = (totalRead - afterLimit >= totalLimit => currentLimit = totalLimit)
          /\ NoValue(legitimateEnd')
       \/ BufferSize = 0 /\ RefreshGets /\ Goes("varint", 0) /\ UNCHANGED legitimateEnd
       \/ /\ BufferSize > 0 /\ Goes("varint", 0)
          /\ UNCHANGED <<inputVars, bufferVars, legitimateEnd, nullCalled>>
    /\ ReadFrame

(***************************************************************************)
(* Skip.  Beyond the buffer the input itself is made to skip, but not past *)
(* a limit.                                                                *)
(***************************************************************************)

(* external: the input skips n bytes, or as many as it has, or fails *)
InputSkips(n) == ~flat /\ ~inputFailed /\ given + n <= Len(content) /\ given' = given + n
                   /\ UNCHANGED <<inputFailed, nullCalled>>
InputSkipsLess(n) ==
    \/ /\ ~flat /\ given + n > Len(content) /\ given' = Len(content)
       /\ UNCHANGED <<inputFailed, nullCalled>>
    \/ ~flat /\ MayFail /\ inputFailed' = TRUE /\ given' = given /\ UNCHANGED nullCalled
    \/ flat /\ nullCalled' = TRUE /\ UNCHANGED <<given, inputFailed>>

SkipInBuffer ==
    /\ stage = "skip" /\ need <= BufferSize
    /\ \/ need < 0 /\ Breaks /\ UNCHANGED bufferVars
       \/ need >= 0 /\ Advance(need) /\ Succeeds
    /\ ReadFrame /\ UNCHANGED <<inputVars, legitimateEnd, nullCalled>>

SkipToLimitInBuffer ==
    /\ stage = "skip" /\ need > BufferSize /\ afterLimit > 0
    /\ Advance(BufferSize) /\ Breaks
    /\ ReadFrame /\ UNCHANGED <<inputVars, legitimateEnd, nullCalled>>

SkipBeyondBuffer ==
    /\ stage = "skip" /\ need > BufferSize /\ afterLimit = 0
    /\ buffer' = 0 /\ bufferEnd' = 0
    /\ LET rest == need - BufferSize
           untilLimit == ClosestLimit - totalRead
       IN  \/ /\ untilLimit < rest /\ untilLimit > 0
              /\ totalRead' = ClosestLimit /\ lastChunk' = 0
              /\ (InputSkips(untilLimit) \/ InputSkipsLess(untilLimit))
              /\ Breaks
           \/ /\ untilLimit < rest /\ untilLimit <= 0 /\ Breaks
              /\ UNCHANGED <<given, lastChunk, inputFailed, totalRead, nullCalled>>
           \/ /\ rest <= untilLimit
              /\ totalRead' = totalRead + rest /\ lastChunk' = 0
              /\ \/ InputSkips(rest) /\ Succeeds
                 \/ InputSkipsLess(rest) /\ Breaks
    /\ ReadFrame /\ UNCHANGED <<content, overflow, afterLimit, legitimateEnd>>

(* GetDirectBufferPointer *)
GetDirectBufferPointer ==
    /\ stage = "direct" /\ Succeeds
    /\ \/ BufferSize # 0 /\ UNCHANGED <<inputVars, bufferVars, nullCalled>>
       \/ BufferSize = 0 /\ (RefreshGets \/ RefreshFails)
    /\ ReadFrame /\ UNCHANGED legitimateEnd

(***************************************************************************)
(* Calls that never look for more input.                                   *)
(***************************************************************************)
ExpectTag ==
    /\ Idle
    /\ \E k \in 1..2 : BufferSize >= k /\ VarintAt(k) /\ Advance(k)
    /\ ReadFrame /\ UNCHANGED <<inputVars, legitimateEnd, callVars, nullCalled>>

ExpectAtEnd ==
    /\ Idle /\ buffer = bufferEnd
    /\ afterLimit # 0 \/ totalRead = currentLimit
    /\ legitimateEnd' = TRUE
    /\ ReadFrame /\ UNCHANGED <<inputVars, bufferVars, callVars, nullCalled>>

PushLimit(n) ==
    LET asks == n >= 0 /\ n <= IntMax - CurrentPosition
        new == Smaller(currentLimit, IF asks THEN CurrentPosition + n ELSE IntMax)
    IN  /\ Idle /\ Len(oldLimits) < MaxLimits
        /\ oldLimits' = Append(oldLimits, currentLimit)
        /\ currentLimit' = new
        /\ RecomputeBufferLimits(bufferEnd + afterLimit, totalRead, new, totalLimit)
        /\ UNCHANGED <<inputVars, flat, buffer, totalRead, overflow, totalLimit,
                       legitimateEnd, callVars, nullCalled>>

PopLimit ==
    LET old == oldLimits[Len(oldLimits)]
    IN  /\ Idle /\ oldLimits # <<>>
        /\ oldLimits' = SubSeq(oldLimits, 1, Len(oldLimits) - 1)
        /\ currentLimit' = old
        /\ RecomputeBufferLimits(bufferEnd + afterLimit, totalRead, old, totalLimit)
        /\ legitimateEnd' = FALSE
        /\ UNCHANGED <<inputVars, flat, buffer, totalRead, overflow, totalLimit,
                       callVars, nullCalled>>

SetTotalBytesLimit(n) ==
    LET new == Larger(CurrentPosition, n)
    IN  /\ Idle /\ ~legitimateEnd
        /\ totalLimit' = new
        /\ RecomputeBufferLimits(bufferEnd + afterLimit, totalRead, currentLimit, new)
        /\ UNCHANGED <<inputVars, flat, buffer, totalRead, overflow, currentLimit, oldLimits,
                       legitimateEnd, callVars, nullCalled>>

(* ~CodedInputStream: the unread bytes go back to the input *)
Destroy ==
    LET backUp == BufferSize + afterLimit + overflow
    IN  /\ stage = "idle" /\ status # "closed"
        /\ status' = "closed"
        /\ IF flat \/ backUp <= 0
             THEN UNCHANGED <<inputVars, bufferVars>>
             ELSE /\ given' = given - backUp /\ lastChunk' = lastChunk - backUp
                  /\ totalRead' = totalRead - (BufferSize + afterLimit)
                  /\ bufferEnd' = buffer /\ afterLimit' = 0 /\ overflow' = 0
                  /\ UNCHANGED <<content, inputFailed, buffer>>
        /\ UNCHANGED <<flat, limitVars, legitimateEnd, asked, stage, need, start, nullCalled>>

(***************************************************************************)
(* The specification.  Fairness: a call under way is carried on; the input *)
(* answers.                                                                *)
(***************************************************************************)
ReadStep ==
    \/ Create
    \/ ReadBytes
    \/ ReadVarint \/ ReadVarintSlow
    \/ ReadTag \/ ReadTagAtLimit \/ ReadTagSlow
    \/ SkipInBuffer \/ SkipToLimitInBuffer \/ SkipBeyondBuffer
    \/ GetDirectBufferPointer

Next ==
    \/ \E r \in Requests : Ask(r)
    \/ ReadStep
    \/ ExpectTag \/ ExpectAtEnd
    \/ \E n \in Sizes : PushLimit(n)
    \/ \E n \in Sizes : SetTotalBytesLimit(n)
    \/ PopLimit
    \/ Destroy

Spec == Init /\ [][Next]_vars

FairSpec == Spec /\ WF_vars(ReadStep)

(***************************************************************************)
(* Properties.                                                             *)
(***************************************************************************)

(* Every counter stays an int: none of the additions of the reader runs     *)
(* over INT_MAX or below zero, on any path.                                 *)
TypeOK ==
    /\ content \in Contents
    /\ given \in 0..Len(content) /\ lastChunk \in 0..MaxChunk
    /\ inputFailed \in BOOLEAN /\ flat \in BOOLEAN
    /\ buffer \in 0..IntMax /\ bufferEnd \in 0..IntMax
    /\ totalRead \in 0..IntMax /\ overflow \in 0..MaxChunk /\ afterLimit \in 0..IntMax
    /\ currentLimit \in 0..IntMax /\ totalLimit \in 0..IntMax
    /\ legitimateEnd \in BOOLEAN
    /\ oldLimits \in Seq(0..IntMax) /\ Len(oldLimits) <= MaxLimits
    /\ asked \in Requests \cup {Nothing}
    /\ stage \in {"create", "idle", "bytes", "varint", "slow", "tag", "skip", "direct"}
    /\ need \in Int /\ start \in 0..IntMax
    /\ status \in {"open", "failed", "closed"}
    /\ nullCalled \in BOOLEAN

(* The reader and its input agree on where they are, however the bytes were *)
(* cut into buffers and whatever limits came and went: what the buffer      *)
(* points at is the byte at the current position, and the input has given   *)
(* the bytes read, those put aside at limits and those beyond INT_MAX.      *)
InputInStep ==
    status = "open" =>
        /\ flat \/ given = totalRead + overflow
        /\ buffer <= bufferEnd
        /\ BufferSize + afterLimit > 0 => buffer = CurrentPosition

(* No read goes past a limit that was in force when it was asked, nor past  *)
(* any limit the client will fall back to.                                  *)
WithinLimits ==
    /\ CurrentPosition <= ClosestLimit
    /\ \A i \in 1..Len(oldLimits) : CurrentPosition <= oldLimits[i]

(* What the destructor hands back is part of the last buffer the input      *)
(* gave, which is all BackUp() may be asked for.                            *)
BackUpAllowed ==
    ~flat /\ status # "closed" =>
        LET backUp == BufferSize + afterLimit + overflow
        IN  backUp > 0 => backUp <= lastChunk

(* A reader of a flat array never turns to the input it does not have:      *)
(* setting current_limit_ to the size is enough, as the constructor says.   *)
FlatNeedsNoInput == ~nullCalled

(* Every read is answered: no loop refills the buffer for ever.             *)
CallsEnd == stage # "idle" ~> stage = "idle"

(* The reader is a ByteReader: a call takes effect at its answer.           *)
ReaderPosition ==
    IF asked # Nothing \/ status = "failed" THEN start
    ELSE IF status = "closed" /\ ~flat THEN given
    ELSE CurrentPosition

Reader == INSTANCE ByteReader WITH
    pos <- ReaderPosition, limit <- currentLimit, limits <- oldLimits,
    total <- totalLimit, ended <- legitimateEnd

ReadsAsPromised == Reader!Spec
=============================================================================
