-------------------------- MODULE CodedInputProofs --------------------------
(***************************************************************************)
(* Proofs about CodedInput: that no counter leaves the ints, that reader   *)
(* and input stay in step, that limits hold, that the input is never asked *)
(* to back up further than it can, that a flat array is never refilled,    *)
(* and that the reader implements ByteReader.                              *)
(* They hold for every input, however it is cut into buffers, and every    *)
(* bound, if the flat arrays are not longer than the default total limit,  *)
(* which the constructor of such a reader does not look at.                *)
(*                                                                         *)
(* The state of the buffer is changed by a few moves: bytes are consumed,  *)
(* a buffer comes, none comes, limits move, bytes beyond the buffer are    *)
(* skipped, and the rest goes back.  Each has a lemma; an action is one of *)
(* them with a change of the call under way.                               *)
(***************************************************************************)
EXTENDS CodedInput, SequenceTheorems, TLAPS

Numbers ==
    /\ given \in 0..Len(content) /\ lastChunk \in 0..MaxChunk
    /\ buffer \in 0..IntMax /\ bufferEnd \in 0..IntMax
    /\ totalRead \in 0..IntMax /\ overflow \in 0..MaxChunk /\ afterLimit \in 0..IntMax
    /\ currentLimit \in 0..IntMax /\ totalLimit \in 0..IntMax

(* What lies beyond the nearest limit, and nothing else, is put aside; the *)
(* buffer starts at the current position.                                  *)
BufferInv ==
    /\ buffer <= bufferEnd
    /\ BufferSize + afterLimit > 0 => buffer = CurrentPosition
    /\ totalRead > ClosestLimit => afterLimit = totalRead - ClosestLimit
    /\ totalRead <= ClosestLimit => afterLimit = 0
    /\ overflow > 0 => totalRead = IntMax

(* What has not been read comes from the last buffer.                      *)
ChunkInv ==
    /\ lastChunk <= given
    /\ ~flat /\ BufferSize + afterLimit + overflow > 0
         => BufferSize + afterLimit + overflow <= lastChunk

(* A flat array is all the bytes there will be: no limit is beyond it.     *)
FlatInv ==
    /\ nullCalled = FALSE
    /\ flat => totalRead = Len(content) /\ currentLimit <= totalRead /\ overflow = 0

Core == Numbers /\ BufferInv /\ ChunkInv /\ FlatInv

InStep == flat \/ given = totalRead + overflow

ContentOK == content \in Contents

-----------------------------------------------------------------------------
(* The constants are numbers, and so is the length of an input.            *)
LEMMA Constants ==
    /\ IntMax \in Nat /\ MaxChunk \in Nat /\ MaxLimits \in Nat /\ MaxVarint \in Nat \ {0}
    /\ DefaultTotal \in 0..IntMax /\ MaxFlat \in 0..IntMax
    /\ ContentOK => Len(content) \in Nat /\ content \in Seq(BOOLEAN)
BY CodedInputAssumption DEF ContentOK

(* Consuming bytes of the buffer.                                          *)
LEMMA AdvanceMove ==
    ASSUME Core, ContentOK, NEW n \in 0..BufferSize, Advance(n),
           UNCHANGED <<inputVars, flat, limitVars, nullCalled>>
    PROVE  Core' /\ (InStep => InStep')
<1> USE Constants DEF Core, Numbers
<1>1. n \in Nat /\ buffer + n <= bufferEnd /\ buffer' = buffer + n
  BY DEF Advance, BufferSize
<1>2. UNCHANGED <<content, given, lastChunk, inputFailed, flat, bufferEnd, totalRead, overflow,
                  afterLimit, currentLimit, totalLimit, nullCalled>>
  BY DEF Advance, BufferKept, inputVars, limitVars
<1>3. Numbers'
  BY <1>1, <1>2
<1>4. BufferInv'
  BY <1>1, <1>2 DEF BufferInv, BufferSize, CurrentPosition, ClosestLimit, Smaller
<1>5. ChunkInv'
  BY <1>1, <1>2 DEF ChunkInv, BufferInv, BufferSize
<1>6. FlatInv' /\ (InStep => InStep')
  BY <1>2 DEF FlatInv, InStep
<1> QED
  BY <1>3, <1>4, <1>5, <1>6

(* What a buffer of n bytes adds, if t bytes were counted.                 *)
LEMMA Counted ==
    ASSUME NEW t \in 0..IntMax, NEW n \in Nat
    PROVE  LET read == Smaller(t + n, IntMax)
               over == Larger(0, t - (IntMax - n))
           IN  /\ read \in 0..IntMax /\ over \in 0..n /\ read + over = t + n
               /\ over > 0 => read = IntMax
               /\ read >= t
<1>1. IntMax \in Nat
  BY Constants
<1>2. CASE t + n <= IntMax
  BY <1>1, <1>2 DEF Smaller, Larger
<1>3. CASE ~(t + n <= IntMax)
  BY <1>1, <1>3 DEF Smaller, Larger
<1> QED
  BY <1>2, <1>3

(* A buffer comes after the last one has been read to its end.             *)
LEMMA RefreshGetsMove ==
    ASSUME Core, ContentOK, InStep, RefreshGets, UNCHANGED <<flat, limitVars>>
    PROVE  Core' /\ InStep'
<1>0. PICK n \in 1..MaxChunk :
        /\ given + n <= Len(content)
        /\ given' = given + n /\ lastChunk' = n
        /\ buffer' = given
        /\ overflow' = Larger(0, totalRead - (IntMax - n))
        /\ totalRead' = Smaller(totalRead + n, IntMax)
        /\ RecomputeBufferLimits(given + n - Larger(0, totalRead - (IntMax - n)),
                                 Smaller(totalRead + n, IntMax), currentLimit, totalLimit)
  BY DEF RefreshGets
<1> DEFINE read == Smaller(totalRead + n, IntMax)
           over == Larger(0, totalRead - (IntMax - n))
<1>1. /\ n \in Nat /\ n > 0 /\ n <= MaxChunk /\ MaxChunk \in Nat /\ IntMax \in Nat
      /\ Len(content) \in Nat /\ totalRead \in 0..IntMax /\ given \in Nat
      /\ currentLimit \in 0..IntMax /\ totalLimit \in 0..IntMax
  BY Constants DEF Core, Numbers
<1>2. /\ ~AtStop /\ ~flat /\ ~flat' /\ nullCalled' = FALSE
      /\ content' = content /\ currentLimit' = currentLimit /\ totalLimit' = totalLimit
  BY DEF RefreshGets, limitVars, Core, FlatInv
<1>3. overflow = 0 /\ afterLimit = 0 /\ given = totalRead
  BY <1>1, <1>2 DEF AtStop, InStep, Core, Numbers
<1>4. totalRead <= ClosestLimit /\ ClosestLimit \in 0..IntMax /\ ClosestLimit' = ClosestLimit
  BY <1>1, <1>2, <1>3 DEF Core, BufferInv, ClosestLimit, Smaller
<1>5. /\ read \in 0..IntMax /\ over \in 0..n /\ read + over = given + n
      /\ over > 0 => read = IntMax
      /\ read >= totalRead
  BY <1>1, <1>3, Counted
<1>6. /\ given' = given + n /\ lastChunk' = n /\ buffer' = given /\ given + n <= Len(content)
      /\ overflow' = over /\ totalRead' = read
  BY <1>0
<1>7. RecomputeBufferLimits(given + n - over, read, currentLimit, totalLimit)
  BY <1>0
<1> HIDE DEF read, over
<1>8. \/ ClosestLimit < read /\ afterLimit' = read - ClosestLimit /\ bufferEnd' = ClosestLimit
      \/ read <= ClosestLimit /\ afterLimit' = 0 /\ bufferEnd' = read
  <2>1. /\ ClosestLimit < read => /\ afterLimit' = read - ClosestLimit
                                  /\ bufferEnd' = (given + n - over) - (read - ClosestLimit)
        /\ ~(ClosestLimit < read) => afterLimit' = 0 /\ bufferEnd' = given + n - over
    BY <1>7, Zenon DEF RecomputeBufferLimits, ClosestLimit
  <2>2. given + n - over = read
    BY <1>1, <1>5
  <2> QED
    BY <1>1, <1>4, <1>5, <2>1, <2>2
<1>9. Numbers'
  BY <1>1, <1>2, <1>3, <1>4, <1>5, <1>6, <1>8 DEF Numbers
<1>10. BufferInv'
  BY <1>1, <1>3, <1>4, <1>5, <1>6, <1>8 DEF BufferInv, BufferSize, CurrentPosition
<1>11. ChunkInv'
  BY <1>1, <1>3, <1>4, <1>5, <1>6, <1>8 DEF ChunkInv, BufferSize
<1>12. FlatInv' /\ InStep'
  BY <1>2, <1>5, <1>6 DEF FlatInv, InStep
<1> QED
  BY <1>9, <1>10, <1>11, <1>12 DEF Core

(* None comes.  A flat array always stops, so that NULL is not called.     *)
LEMMA RefreshFailsMove ==
    ASSUME Core, ContentOK, RefreshFails, UNCHANGED <<flat, limitVars>>
    PROVE  Core' /\ (InStep => InStep')
<1> USE Constants DEF Core, Numbers
<1>0. UNCHANGED <<flat, currentLimit, totalLimit>>
  BY DEF limitVars
<1>1. CASE RefreshStops
  <2>1. /\ buffer' = bufferEnd
        /\ UNCHANGED <<content, given, lastChunk, bufferEnd, totalRead, overflow, afterLimit,
                       nullCalled>>
    BY <1>1 DEF RefreshStops, inputVars
  <2>2. Numbers'
    BY <1>0, <2>1
  <2>3. BufferInv'
    BY <1>0, <2>1 DEF BufferInv, BufferSize, CurrentPosition, ClosestLimit, Smaller
  <2>4. ChunkInv' /\ FlatInv' /\ (InStep => InStep')
    BY <1>0, <2>1 DEF ChunkInv, FlatInv, InStep, BufferInv, BufferSize
  <2> QED
    BY <2>2, <2>3, <2>4
<1>2. CASE RefreshMeetsEnd
  <2>1. /\ buffer' = 0 /\ bufferEnd' = 0 /\ lastChunk' = 0 /\ afterLimit = 0 /\ overflow = 0
        /\ UNCHANGED <<content, given, totalRead, overflow, afterLimit, nullCalled>>
    BY <1>2 DEF RefreshMeetsEnd, AtStop
  <2>2. Numbers'
    BY <1>0, <2>1
  <2>3. BufferInv'
    BY <1>0, <2>1 DEF BufferInv, BufferSize, CurrentPosition, ClosestLimit, Smaller
  <2>4. ChunkInv' /\ FlatInv' /\ (InStep => InStep')
    BY <1>0, <2>1 DEF ChunkInv, FlatInv, InStep, BufferSize
  <2> QED
    BY <2>2, <2>3, <2>4
<1>3. CASE RefreshCallsNull
  <2>1. flat /\ afterLimit = 0 /\ totalRead # currentLimit /\ totalRead <= ClosestLimit
    BY <1>3 DEF RefreshCallsNull, AtStop, BufferInv, ClosestLimit, Smaller
  <2>2. FALSE
    BY <2>1 DEF FlatInv, ClosestLimit, Smaller
  <2> QED
    BY <2>2
<1> QED
  BY <1>1, <1>2, <1>3 DEF RefreshFails

(* A limit moves, but not before the current position.                     *)
LEMMA LimitMove ==
    ASSUME Core, ContentOK, NEW current \in 0..IntMax, NEW total \in 0..IntMax,
           CurrentPosition <= current, CurrentPosition <= total,
           flat => current <= totalRead,
           RecomputeBufferLimits(bufferEnd + afterLimit, totalRead, current, total),
           currentLimit' = current, totalLimit' = total,
           UNCHANGED <<inputVars, flat, buffer, totalRead, overflow, nullCalled>>
    PROVE  Core' /\ (InStep => InStep')
<1> DEFINE near == Smaller(current, total)
<1>1. UNCHANGED <<content, given, lastChunk, flat, buffer, totalRead, overflow, nullCalled>>
  BY DEF inputVars
<1>2. Numbers /\ BufferInv /\ ChunkInv /\ FlatInv /\ IntMax \in Nat
  BY Constants DEF Core
<1>3. /\ buffer \in 0..IntMax /\ bufferEnd \in 0..IntMax /\ totalRead \in 0..IntMax
      /\ overflow \in Nat /\ afterLimit \in 0..IntMax
  BY <1>2, Constants DEF Numbers
<1>4. near \in 0..IntMax /\ CurrentPosition <= near /\ ClosestLimit' = near
  BY <1>2, <1>3 DEF Smaller, ClosestLimit
<1>5. \/ /\ near < totalRead /\ afterLimit' = totalRead - near
         /\ bufferEnd' = (bufferEnd + afterLimit) - (totalRead - near)
      \/ ~(near < totalRead) /\ afterLimit' = 0 /\ bufferEnd' = bufferEnd + afterLimit
  BY Zenon DEF RecomputeBufferLimits
<1> HIDE DEF near
<1>6. CurrentPosition + (bufferEnd - buffer) + afterLimit = totalRead /\ CurrentPosition \in Int
  BY <1>3 DEF CurrentPosition, BufferSize
<1>7. /\ buffer <= bufferEnd /\ (bufferEnd - buffer + afterLimit > 0 => buffer = CurrentPosition)
      /\ overflow > 0 => totalRead = IntMax
  BY <1>2 DEF BufferInv, BufferSize
<1>8. bufferEnd' + afterLimit' = bufferEnd + afterLimit /\ bufferEnd' \in Int /\ afterLimit' \in Nat
  BY <1>3, <1>4, <1>5
<1>0. (bufferEnd' - buffer) + afterLimit' = (bufferEnd - buffer) + afterLimit
  <2>1. CASE near < totalRead
    BY <1>3, <1>4, <1>5, <2>1
  <2>2. CASE ~(near < totalRead)
    BY <1>3, <1>4, <1>5, <2>2
  <2> QED
    BY <2>1, <2>2
<1>9. buffer <= bufferEnd'
  BY <1>3, <1>4, <1>5, <1>6, <1>7
<1>10. afterLimit' \in 0..IntMax /\ bufferEnd' \in 0..IntMax
  BY <1>2, <1>3, <1>4, <1>5, <1>6, <1>7, <1>8, <1>9
<1>11. Numbers'
  BY <1>1, <1>2, <1>10 DEF Numbers
<1>12. BufferInv'
  <2>1. CurrentPosition' = CurrentPosition
    BY <1>0, <1>1 DEF CurrentPosition, BufferSize
  <2>2. BufferSize' + afterLimit' > 0 => buffer' = CurrentPosition'
    BY <1>0, <1>1, <1>7, <2>1 DEF BufferSize
  <2> QED
    BY <1>1, <1>3, <1>4, <1>5, <1>7, <1>9, <2>2 DEF BufferInv
<1>13. ChunkInv'
  <2>1. BufferSize' + afterLimit' + overflow' = BufferSize + afterLimit + overflow
    BY <1>0, <1>1 DEF BufferSize
  <2> QED
    BY <1>1, <1>2, <2>1 DEF ChunkInv
<1>14. FlatInv' /\ (InStep => InStep')
  BY <1>1, <1>2 DEF FlatInv, InStep
<1> QED
  BY <1>11, <1>12, <1>13, <1>14 DEF Core

(* The input skips what lies beyond the buffer, up to the nearest limit.   *)
LEMMA SkipMove ==
    ASSUME Core, ContentOK, InStep, need \in Int, SkipBeyondBuffer
    PROVE  Core' /\ (InStep' \/ status' = "failed")
<1> DEFINE rest == need - BufferSize
           untilLimit == ClosestLimit - totalRead
<1>1. Numbers /\ BufferInv /\ ChunkInv /\ FlatInv /\ IntMax \in Nat /\ MaxChunk \in Nat
      /\ Len(content) \in Nat
  BY Constants DEF Core
<1>2. /\ need > BufferSize /\ afterLimit = 0 /\ buffer' = 0 /\ bufferEnd' = 0
      /\ overflow' = overflow /\ afterLimit' = 0 /\ content' = content
      /\ flat' = flat /\ currentLimit' = currentLimit /\ totalLimit' = totalLimit
  BY DEF SkipBeyondBuffer, ReadFrame, limitVars
<1>3. \/ /\ untilLimit < rest /\ untilLimit > 0
         /\ totalRead' = ClosestLimit /\ lastChunk' = 0
         /\ (InputSkips(untilLimit) \/ InputSkipsLess(untilLimit))
         /\ status' = "failed"
      \/ /\ status' = "failed"
         /\ UNCHANGED <<given, lastChunk, inputFailed, totalRead, nullCalled>>
      \/ /\ rest <= untilLimit
         /\ totalRead' = totalRead + rest /\ lastChunk' = 0
         /\ \/ InputSkips(rest)
            \/ InputSkipsLess(rest) /\ status' = "failed"
  BY DEF SkipBeyondBuffer, Breaks
<1>4. /\ rest \in Int /\ rest > 0 /\ untilLimit \in Int /\ totalRead + untilLimit = ClosestLimit
      /\ ClosestLimit \in 0..IntMax /\ ClosestLimit' = ClosestLimit /\ totalRead \in 0..IntMax
      /\ ClosestLimit <= currentLimit /\ currentLimit \in 0..IntMax
      /\ buffer \in Int /\ bufferEnd \in Int
  BY <1>1, <1>2 DEF Numbers, BufferSize, ClosestLimit, Smaller
<1> HIDE DEF rest, untilLimit
<1>5. totalRead <= ClosestLimit
  BY <1>1, <1>2, <1>4 DEF BufferInv
<1>6. CASE status' = "failed" /\ UNCHANGED <<given, lastChunk, inputFailed, totalRead, nullCalled>>
  <2>1. /\ given' = given /\ lastChunk' = lastChunk /\ totalRead' = totalRead
        /\ nullCalled' = nullCalled
    BY <1>6
  <2>2. Numbers'
    BY <1>1, <1>2, <2>1 DEF Numbers
  <2>3. BufferInv'
    BY <1>1, <1>2, <1>4, <1>5, <2>1 DEF BufferInv, BufferSize
  <2>4. ChunkInv'
    <3>1. overflow \in Nat /\ lastChunk \in Nat /\ bufferEnd - buffer \in Nat
      BY <1>1, <1>4 DEF Numbers, BufferInv
    <3> QED
      BY <1>1, <1>2, <2>1, <3>1 DEF ChunkInv, BufferSize
  <2>5. FlatInv'
    BY <1>1, <1>2, <2>1 DEF FlatInv
  <2> QED
    BY <1>6, <2>2, <2>3, <2>4, <2>5 DEF Core
<1>7. ASSUME NEW n \in Int, n > 0, n <= untilLimit, totalRead' = totalRead + n, lastChunk' = 0,
             InputSkips(n) \/ InputSkipsLess(n)
      PROVE  Core' /\ (InputSkips(n) => InStep')
  <2>1. ~flat /\ overflow = 0 /\ totalRead' \in 0..IntMax /\ totalRead' <= ClosestLimit
    <3>1. overflow \in Nat /\ (overflow > 0 => totalRead = IntMax)
      BY <1>1 DEF Numbers, BufferInv
    <3>2. flat => currentLimit <= totalRead
      BY <1>1 DEF FlatInv
    <3>3. totalRead' \in Int /\ totalRead < totalRead' /\ totalRead' <= ClosestLimit
      BY <1>4, <1>7
    <3> QED
      BY <1>1, <1>4, <3>1, <3>2, <3>3
  <2>2. nullCalled' = FALSE /\ given' \in 0..Len(content)
    BY <1>1, <1>7, <2>1 DEF InputSkips, InputSkipsLess, FlatInv, Numbers
  <2>3. Numbers'
    BY <1>1, <1>2, <1>7, <2>1, <2>2 DEF Numbers
  <2>4. BufferInv'
    <3>1. BufferSize' = 0
      BY <1>2 DEF BufferSize
    <3>2. ClosestLimit' = ClosestLimit /\ ClosestLimit \in Int
      BY <1>4
    <3>3. /\ buffer' = 0 /\ bufferEnd' = 0 /\ overflow' = 0 /\ afterLimit' = 0
          /\ totalRead' \in Int /\ totalRead' <= ClosestLimit'
      BY <1>2, <2>1, <3>2
    <3>4. ~(BufferSize' + afterLimit' > 0) /\ ~(overflow' > 0) /\ buffer' <= bufferEnd'
      BY <3>1, <3>3
    <3>5. ~(totalRead' > ClosestLimit')
      BY <3>2, <3>3
    <3> QED
      BY <3>3, <3>4, <3>5, Zenon DEF BufferInv
  <2>5. ChunkInv' /\ FlatInv'
    BY <1>2, <1>7, <2>1, <2>2 DEF ChunkInv, FlatInv, BufferSize
  <2>6. InputSkips(n) => InStep'
    BY <1>1, <1>2, <1>7, <2>1 DEF InputSkips, InStep, Numbers
  <2> QED
    BY <2>3, <2>4, <2>5, <2>6 DEF Core
<1>8. CASE /\ untilLimit < rest /\ untilLimit > 0
           /\ totalRead' = ClosestLimit /\ lastChunk' = 0
           /\ (InputSkips(untilLimit) \/ InputSkipsLess(untilLimit))
           /\ status' = "failed"
  BY <1>4, <1>7, <1>8
<1>9. CASE /\ rest <= untilLimit
           /\ totalRead' = totalRead + rest /\ lastChunk' = 0
           /\ \/ InputSkips(rest)
              \/ InputSkipsLess(rest) /\ status' = "failed"
  BY <1>4, <1>7, <1>9
<1> QED
  BY <1>3, <1>6, <1>8, <1>9

(* The unread bytes go back.                                               *)
LEMMA DestroyMove ==
    ASSUME Core, ContentOK, Destroy
    PROVE  Core'
<1> DEFINE aside == BufferSize + afterLimit
<1>1. Numbers /\ BufferInv /\ ChunkInv /\ FlatInv /\ IntMax \in Nat /\ MaxChunk \in Nat
      /\ Len(content) \in Nat
  BY Constants DEF Core
<1>2. flat' = flat /\ currentLimit' = currentLimit /\ totalLimit' = totalLimit
      /\ nullCalled' = nullCalled
  BY DEF Destroy, limitVars
<1>3. CASE flat \/ aside + overflow <= 0
  <2>1. UNCHANGED <<inputVars, bufferVars>>
    BY <1>3 DEF Destroy
  <2> QED
    BY <1>1, <1>2, <2>1 DEF inputVars, bufferVars, Core, Numbers, BufferInv, ChunkInv, FlatInv,
                            BufferSize, CurrentPosition, ClosestLimit
<1>4. CASE ~(flat \/ aside + overflow <= 0)
  <2>1. /\ given' = given - (aside + overflow) /\ lastChunk' = lastChunk - (aside + overflow)
        /\ totalRead' = totalRead - aside
        /\ bufferEnd' = buffer /\ afterLimit' = 0 /\ overflow' = 0
        /\ content' = content /\ buffer' = buffer
    BY <1>4 DEF Destroy
  <2>2. /\ aside \in Nat /\ overflow \in Nat /\ given \in 0..Len(content) /\ lastChunk \in 0..MaxChunk
        /\ totalRead \in 0..IntMax /\ aside + overflow > 0
        /\ aside + overflow <= lastChunk /\ lastChunk <= given
    BY <1>1, <1>4 DEF Numbers, BufferInv, ChunkInv, BufferSize
  <2>3. totalRead - aside \in 0..IntMax /\ totalRead - aside <= ClosestLimit
    <3>1. /\ buffer \in Nat /\ bufferEnd \in Nat /\ buffer <= bufferEnd /\ afterLimit \in Nat
          /\ ClosestLimit \in Nat
      BY <1>1 DEF Numbers, BufferInv, ClosestLimit, Smaller
    <3>2. aside > 0 => totalRead - aside = buffer
      BY <1>1 DEF BufferInv, CurrentPosition
    <3>3. totalRead - aside <= ClosestLimit
      <4>1. afterLimit <= aside
        BY <3>1 DEF BufferSize
      <4> QED
        BY <1>1, <2>2, <3>1, <4>1 DEF BufferInv
    <3> HIDE DEF aside
    <3> QED
      BY <1>1, <2>2, <3>1, <3>2, <3>3
  <2>4. ClosestLimit' = ClosestLimit
    BY <1>2 DEF ClosestLimit
  <2> HIDE DEF aside
  <2>5. Numbers'
    BY <1>1, <1>2, <2>1, <2>2, <2>3 DEF Numbers
  <2>6. BufferInv'
    <3>1. ClosestLimit \in Int /\ buffer \in Int
      BY <1>1 DEF Numbers, ClosestLimit, Smaller
    <3> QED
      BY <2>1, <2>3, <2>4, <3>1 DEF BufferInv, BufferSize
  <2>7. ChunkInv'
    BY <2>1, <2>2, <1>1 DEF ChunkInv, BufferSize, Numbers
  <2>8. FlatInv'
    BY <1>1, <1>2, <1>4 DEF FlatInv
  <2> QED
    BY <2>5, <2>6, <2>7, <2>8 DEF Core
<1> QED
  BY <1>3, <1>4

(* An integer read without a look at the end of the buffer ends in it.     *)
LEMMA VarintInBuffer ==
    ASSUME Core, ReadsFromArray, NEW k \in 1..MaxVarint, VarintAt(k)
    PROVE  k \in 0..BufferSize
<1>1. buffer \in Nat /\ bufferEnd \in Nat /\ MaxVarint \in Nat /\ k \in Nat /\ k <= MaxVarint
  BY Constants DEF Core, Numbers
<1>2. SUFFICES ASSUME ~(k <= BufferSize) PROVE FALSE
  BY <1>1 DEF BufferSize
<1>3. BufferSize \in Int /\ BufferSize > 0 /\ ~(GoesOn(bufferEnd - 1) /\ GoesOn(buffer))
  BY <1>1, <1>2 DEF ReadsFromArray, BufferSize
<1>4. \A i \in 0..(k - 2) : GoesOn(buffer + i)
  BY DEF VarintAt
<1>5. GoesOn(buffer + 0) /\ GoesOn(buffer + (BufferSize - 1))
  <2>1. 0 \in 0..(k - 2) /\ BufferSize - 1 \in 0..(k - 2)
    BY <1>1, <1>2, <1>3
  <2> QED
    BY <1>4, <2>1
<1>6. buffer + 0 = buffer /\ buffer + (BufferSize - 1) = bufferEnd - 1
  BY <1>1 DEF BufferSize
<1> QED
  BY <1>3, <1>5, <1>6

(* The current position lies within the nearest limit.                     *)
LEMMA Position ==
    ASSUME Core
    PROVE  /\ CurrentPosition \in 0..IntMax /\ CurrentPosition <= ClosestLimit
           /\ CurrentPosition <= currentLimit /\ CurrentPosition <= totalLimit
<1>1. Numbers /\ BufferInv /\ IntMax \in Nat
  BY Constants DEF Core
<1>2. /\ buffer \in 0..IntMax /\ bufferEnd \in 0..IntMax /\ totalRead \in 0..IntMax
      /\ afterLimit \in 0..IntMax /\ ClosestLimit \in 0..IntMax /\ buffer <= bufferEnd
  BY <1>1 DEF Numbers, BufferInv, ClosestLimit, Smaller
<1>3. BufferSize \in Nat
  BY <1>2 DEF BufferSize
<1>4. BufferSize + afterLimit > 0 => CurrentPosition = buffer
  BY <1>1 DEF BufferInv
<1>5. totalRead > ClosestLimit => afterLimit = totalRead - ClosestLimit
  BY <1>1 DEF BufferInv
<1>6. CurrentPosition = totalRead - (BufferSize + afterLimit)
  BY DEF CurrentPosition
<1>7. CurrentPosition \in 0..IntMax
  BY <1>1, <1>2, <1>3, <1>4, <1>6
<1>8. CurrentPosition <= ClosestLimit
  <2>1. CASE totalRead > ClosestLimit
    BY <1>2, <1>3, <1>5, <1>6, <2>1
  <2>2. CASE ~(totalRead > ClosestLimit)
    BY <1>2, <1>3, <1>6, <2>2
  <2> QED
    BY <2>1, <2>2
<1>9. CurrentPosition <= currentLimit /\ CurrentPosition <= totalLimit
  <2>1. currentLimit \in Int /\ totalLimit \in Int
    BY <1>1 DEF Numbers
  <2> QED
    BY <1>7, <1>8, <2>1 DEF ClosestLimit, Smaller
<1> QED
  BY <1>7, <1>8, <1>9

-----------------------------------------------------------------------------
(* The limits put aside are nested, and none is beyond the end of an array. *)
LimitsInv ==
    /\ oldLimits \in Seq(0..IntMax) /\ Len(oldLimits) <= MaxLimits
    /\ \A i \in 1..Len(oldLimits) : /\ currentLimit <= oldLimits[i]
                                    /\ flat => oldLimits[i] <= Len(content)
    /\ \A i, j \in 1..Len(oldLimits) : i <= j => oldLimits[j] <= oldLimits[i]

Stages == {"create", "idle", "bytes", "varint", "slow", "tag", "skip", "direct"}

(* Only an open reader is at work.                                         *)
CallInv ==
    /\ asked \in Requests \cup {Nothing} /\ stage \in Stages
    /\ need \in Int /\ start \in 0..IntMax
    /\ status \in {"open", "failed", "closed"}
    /\ stage # "idle" => status = "open"

Flags == inputFailed \in BOOLEAN /\ flat \in BOOLEAN /\ legitimateEnd \in BOOLEAN

IInv ==
    /\ ContentOK /\ Core /\ LimitsInv /\ CallInv /\ Flags
    /\ status = "open" => InStep

(* How a call goes on.                                                     *)
LEMMA CallMove ==
    ASSUME CallInv,
           \/ Succeeds \/ Breaks
           \/ stage # "idle" /\ \E s \in Stages, n \in Int : Goes(s, n)
    PROVE  CallInv' /\ status' \in {status, "failed"}
<1>1. IntMax \in Nat /\ 0 \in 0..IntMax /\ 0 \in Int
  BY Constants
<1>2. CASE Succeeds
  BY <1>1, <1>2, Zenon DEF CallInv, Succeeds, Answered, Stages
<1>3. CASE Breaks
  BY <1>1, <1>3, Zenon DEF CallInv, Breaks, Answered, Stages
<1>4. CASE stage # "idle" /\ \E s \in Stages, n \in Int : Goes(s, n)
  BY <1>1, <1>4, Zenon DEF CallInv, Goes
<1> QED
  BY <1>2, <1>3, <1>4

LEMMA NoValueMove ==
    ASSUME CallInv, NEW consumed, NoValue(consumed)
    PROVE  CallInv' /\ status' \in {status, "failed"}
<1>1. Succeeds \/ Breaks
  BY DEF NoValue
<1> QED
  BY <1>1, CallMove

(* A read that leaves the limits alone and the core in order.              *)
LEMMA ReadMove ==
    ASSUME IInv, stage # "idle", Core', InStep' \/ status' = "failed",
           CallInv', status' \in {status, "failed"},
           ReadFrame, content' = content, inputFailed' \in BOOLEAN, legitimateEnd' \in BOOLEAN
    PROVE  IInv'
<1>1. flat' = flat /\ oldLimits' = oldLimits /\ currentLimit' = currentLimit /\ status = "open"
  BY DEF ReadFrame, limitVars, IInv, CallInv
<1>2. ContentOK' /\ LimitsInv'
  BY <1>1 DEF IInv, ContentOK, LimitsInv
<1>3. Flags'
  BY <1>1 DEF IInv, Flags
<1>4. status' = "open" => InStep'
  OBVIOUS
<1> QED
  BY <1>2, <1>3, <1>4 DEF IInv

(* What a refill leaves alone.                                             *)
LEMMA RefreshLeaves ==
    ASSUME IInv, RefreshGets \/ RefreshFails
    PROVE  content' = content /\ inputFailed' \in BOOLEAN
BY DEF IInv, Flags, RefreshGets, RefreshFails, RefreshStops, RefreshMeetsEnd, RefreshCallsNull,
       inputVars

(* A step of a call that leaves the buffer alone.                          *)
LEMMA StillMove ==
    ASSUME Core, UNCHANGED <<inputVars, flat, bufferVars, limitVars, nullCalled>>
    PROVE  Core' /\ (InStep => InStep') /\ content' = content /\ inputFailed' = inputFailed
BY DEF Core, Numbers, BufferInv, ChunkInv, FlatInv, InStep, BufferSize, CurrentPosition,
       ClosestLimit, inputVars, bufferVars, limitVars

(* The moves of the buffer a read is made of, but for the skip.            *)
BufferMoves ==
    \/ UNCHANGED <<inputVars, bufferVars, nullCalled>>
    \/ \E n \in 0..BufferSize : Advance(n) /\ UNCHANGED <<inputVars, nullCalled>>
    \/ RefreshGets
    \/ RefreshFails

CallMoves ==
    \/ Succeeds \/ Breaks
    \/ \E s \in Stages, n \in Int : Goes(s, n)
    \/ \E b \in BOOLEAN : NoValue(b)

LEMMA ReadStepMove ==
    ASSUME IInv, stage # "idle", ReadFrame, BufferMoves, CallMoves, legitimateEnd' \in BOOLEAN
    PROVE  IInv'
<1>1. /\ Core /\ ContentOK /\ CallInv /\ status = "open" /\ InStep /\ inputFailed \in BOOLEAN
      /\ UNCHANGED <<flat, limitVars>>
  BY DEF IInv, CallInv, ReadFrame, Flags
<1>2. CallInv' /\ status' \in {status, "failed"}
  BY <1>1, CallMove, NoValueMove DEF CallMoves
<1>3. Core' /\ InStep' /\ content' = content /\ inputFailed' \in BOOLEAN
  <2>1. CASE UNCHANGED <<inputVars, bufferVars, nullCalled>>
    BY <1>1, <2>1, StillMove
  <2>2. CASE \E n \in 0..BufferSize : Advance(n) /\ UNCHANGED <<inputVars, nullCalled>>
    BY <1>1, <2>2, AdvanceMove DEF inputVars
  <2>3. CASE RefreshGets
    BY <1>1, <2>3, RefreshGetsMove, RefreshLeaves
  <2>4. CASE RefreshFails
    BY <1>1, <2>4, RefreshFailsMove, RefreshLeaves
  <2> QED
    BY <2>1, <2>2, <2>3, <2>4 DEF BufferMoves
<1> QED
  BY <1>2, <1>3, ReadMove

-----------------------------------------------------------------------------
(* Each step of a read is made of these moves.                             *)
LEMMA Types ==
    ASSUME IInv
    PROVE  BufferSize \in Nat /\ need \in Int /\ legitimateEnd \in BOOLEAN
<1>1. buffer \in Nat /\ bufferEnd \in Nat /\ buffer <= bufferEnd
  BY Constants DEF IInv, Core, Numbers, BufferInv
<1> QED
  BY <1>1 DEF IInv, CallInv, Flags, BufferSize

LEMMA CreateKeeps == IInv /\ Create => IInv'
<1> SUFFICES ASSUME IInv, Create PROVE IInv'
  OBVIOUS
<1>1. /\ Core /\ ContentOK /\ CallInv /\ stage = "create" /\ status = "open" /\ InStep
      /\ ReadFrame
  BY DEF IInv, CallInv, Create, ReadFrame
<1>2. RefreshGets \/ RefreshFails
  BY DEF Create
<1>3. CallInv' /\ status' = status
  BY <1>1, Zenon DEF CallInv, Create, Stages
<1>4. Core' /\ InStep' /\ content' = content /\ inputFailed' \in BOOLEAN
  BY <1>1, <1>2, RefreshGetsMove, RefreshFailsMove, RefreshLeaves DEF ReadFrame
<1>5. legitimateEnd' \in BOOLEAN
  BY DEF Create, IInv, Flags
<1> QED
  BY <1>1, <1>3, <1>4, <1>5, ReadMove

LEMMA ReadBytesKeeps == IInv /\ ReadBytes => IInv'
<1> SUFFICES ASSUME IInv, ReadBytes PROVE IInv'
  OBVIOUS
<1>1. /\ stage = "bytes" /\ "bytes" \in Stages /\ ReadFrame /\ legitimateEnd' \in BOOLEAN
      /\ need - BufferSize \in Int
  BY Types DEF ReadBytes, Stages
<1>2. BufferMoves /\ CallMoves
  BY <1>1, Zenon DEF ReadBytes, BufferMoves, CallMoves
<1> QED
  BY <1>1, <1>2, ReadStepMove

LEMMA FromArrayMoves ==
    ASSUME IInv, ReadsFromArray, ReadVarintFromArray
    PROVE  BufferMoves /\ CallMoves /\ legitimateEnd' \in BOOLEAN
<1>1. legitimateEnd' = legitimateEnd /\ legitimateEnd \in BOOLEAN
      /\ UNCHANGED <<inputVars, nullCalled>>
  BY Types DEF ReadVarintFromArray
<1>2. CASE \E k \in 1..MaxVarint : VarintAt(k) /\ Advance(k) /\ Succeeds
  <2>1. PICK k \in 1..MaxVarint : VarintAt(k) /\ Advance(k) /\ Succeeds
    BY <1>2
  <2>2. k \in 0..BufferSize
    BY <2>1, VarintInBuffer DEF IInv
  <2> QED
    BY <1>1, <2>1, <2>2, Zenon DEF BufferMoves, CallMoves
<1>3. CASE UNCHANGED bufferVars /\ NoValue(legitimateEnd)
  BY <1>1, <1>3, Zenon DEF BufferMoves, CallMoves
<1> QED
  BY <1>2, <1>3 DEF ReadVarintFromArray

LEMMA ReadVarintKeeps == IInv /\ ReadVarint => IInv'
<1> SUFFICES ASSUME IInv, ReadVarint PROVE IInv'
  OBVIOUS
<1>1. stage = "varint" /\ "slow" \in Stages /\ ReadFrame /\ 0 \in Int
  BY DEF ReadVarint, Stages
<1>2. CASE ReadsFromArray /\ ReadVarintFromArray
  BY <1>1, <1>2, FromArrayMoves, ReadStepMove
<1>3. CASE Goes("slow", 0) /\ UNCHANGED <<inputVars, bufferVars, legitimateEnd, nullCalled>>
  <2>1. BufferMoves /\ CallMoves /\ legitimateEnd' \in BOOLEAN
    BY <1>1, <1>3, Types, Zenon DEF BufferMoves, CallMoves
  <2> QED
    BY <1>1, <2>1, ReadStepMove
<1> QED
  BY <1>2, <1>3 DEF ReadVarint

LEMMA ReadVarintSlowKeeps == IInv /\ ReadVarintSlow => IInv'
<1> SUFFICES ASSUME IInv, ReadVarintSlow PROVE IInv'
  OBVIOUS
<1>1. /\ stage = "slow" /\ "slow" \in Stages /\ ReadFrame /\ need \in Int /\ need + 1 \in Int
      /\ legitimateEnd' = legitimateEnd /\ legitimateEnd \in BOOLEAN
  BY Types DEF ReadVarintSlow, Stages
<1>2. BufferSize # 0 => 1 \in 0..BufferSize
  BY Types
<1>3. BufferMoves /\ CallMoves
  BY <1>1, <1>2, Zenon DEF ReadVarintSlow, BufferMoves, CallMoves
<1> QED
  BY <1>1, <1>3, ReadStepMove

LEMMA ReadTagKeeps == IInv /\ ReadTag => IInv'
BY FromArrayMoves, ReadStepMove DEF ReadTag

LEMMA ReadTagAtLimitKeeps == IInv /\ ReadTagAtLimit => IInv'
<1> SUFFICES ASSUME IInv, ReadTagAtLimit PROVE IInv'
  OBVIOUS
<1>1. stage = "tag" /\ ReadFrame /\ legitimateEnd' \in BOOLEAN
  BY DEF ReadTagAtLimit
<1>2. BufferMoves /\ CallMoves
  BY Zenon DEF ReadTagAtLimit, BufferMoves, CallMoves
<1> QED
  BY <1>1, <1>2, ReadStepMove

LEMMA ReadTagSlowKeeps == IInv /\ ReadTagSlow => IInv'
<1> SUFFICES ASSUME IInv, ReadTagSlow PROVE IInv'
  OBVIOUS
<1>1. stage = "tag" /\ ReadFrame /\ "varint" \in Stages /\ 0 \in Int
  BY DEF ReadTagSlow, Stages
<1>2. legitimateEnd' \in BOOLEAN
  BY Types, Zenon DEF ReadTagSlow
<1>3. BufferMoves /\ CallMoves
  BY <1>1, <1>2, Zenon DEF ReadTagSlow, BufferMoves, CallMoves
<1> QED
  BY <1>1, <1>2, <1>3, ReadStepMove

LEMMA SkipInBufferKeeps == IInv /\ SkipInBuffer => IInv'
<1> SUFFICES ASSUME IInv, SkipInBuffer PROVE IInv'
  OBVIOUS
<1>1. /\ stage = "skip" /\ ReadFrame /\ legitimateEnd' \in BOOLEAN
      /\ need >= 0 => need \in 0..BufferSize
  BY Types DEF SkipInBuffer
<1>2. BufferMoves /\ CallMoves
  BY <1>1, Zenon DEF SkipInBuffer, BufferMoves, CallMoves
<1> QED
  BY <1>1, <1>2, ReadStepMove

LEMMA SkipToLimitInBufferKeeps == IInv /\ SkipToLimitInBuffer => IInv'
<1> SUFFICES ASSUME IInv, SkipToLimitInBuffer PROVE IInv'
  OBVIOUS
<1>1. stage = "skip" /\ ReadFrame /\ legitimateEnd' \in BOOLEAN /\ BufferSize \in 0..BufferSize
  BY Types DEF SkipToLimitInBuffer
<1>2. BufferMoves /\ CallMoves
  BY <1>1, Zenon DEF SkipToLimitInBuffer, BufferMoves, CallMoves
<1> QED
  BY <1>1, <1>2, ReadStepMove

LEMMA SkipBeyondBufferKeeps == IInv /\ SkipBeyondBuffer => IInv'
<1> SUFFICES ASSUME IInv, SkipBeyondBuffer PROVE IInv'
  OBVIOUS
<1>1. /\ stage = "skip" /\ ReadFrame /\ content' = content /\ legitimateEnd' \in BOOLEAN
      /\ Core /\ ContentOK /\ InStep /\ need \in Int /\ CallInv
  BY Types DEF SkipBeyondBuffer, IInv, CallInv
<1>2. Core' /\ (InStep' \/ status' = "failed")
  BY <1>1, SkipMove
<1>3. Succeeds \/ Breaks
  BY Zenon DEF SkipBeyondBuffer
<1>4. CallInv' /\ status' \in {status, "failed"}
  BY <1>1, <1>3, CallMove
<1>5. inputFailed' = inputFailed \/ inputFailed' = TRUE
  BY Zenon DEF SkipBeyondBuffer, InputSkips, InputSkipsLess
<1>6. inputFailed' \in BOOLEAN
  BY <1>5 DEF IInv, Flags
<1> QED
  BY <1>1, <1>2, <1>4, <1>6, ReadMove

LEMMA GetDirectBufferPointerKeeps == IInv /\ GetDirectBufferPointer => IInv'
<1> SUFFICES ASSUME IInv, GetDirectBufferPointer PROVE IInv'
  OBVIOUS
<1>1. stage = "direct" /\ ReadFrame /\ legitimateEnd' \in BOOLEAN
  BY Types DEF GetDirectBufferPointer
<1>2. BufferMoves /\ CallMoves
  BY <1>1, Zenon DEF GetDirectBufferPointer, BufferMoves, CallMoves
<1> QED
  BY <1>1, <1>2, ReadStepMove

-----------------------------------------------------------------------------
(* The calls that are over at once.                                        *)
LEMMA AskKeeps == ASSUME NEW r \in Requests PROVE IInv /\ Ask(r) => IInv'
<1> SUFFICES ASSUME IInv, Ask(r) PROVE IInv'
  OBVIOUS
<1>1. /\ Core /\ CallInv /\ InStep /\ status = "open"
      /\ UNCHANGED <<inputVars, flat, bufferVars, limitVars, legitimateEnd, status, nullCalled>>
      /\ asked' = r /\ stage' = r.name /\ need' = r.n /\ start' = CurrentPosition
  BY DEF IInv, Ask, Idle
<1>2. Core' /\ InStep' /\ content' = content /\ inputFailed' = inputFailed
  BY <1>1, StillMove
<1>3. CurrentPosition \in 0..IntMax
  BY <1>1, Position
<1>4. r.name \in Stages /\ r.n \in Int
  <2>1. Sizes \subseteq Int /\ 0 \in Int
    BY CodedInputAssumption
  <2>2. CASE r \in [name : {"bytes", "skip"}, n : Sizes]
    BY <2>1, <2>2 DEF Stages
  <2>3. CASE r \in [name : {"varint", "tag", "direct"}, n : {0}]
    BY <2>1, <2>3 DEF Stages
  <2> QED
    BY <2>2, <2>3 DEF Requests
<1>5. CallInv'
  BY <1>1, <1>3, <1>4, Zenon DEF CallInv
<1>6. LimitsInv' /\ ContentOK' /\ Flags'
  BY <1>1, <1>2 DEF IInv, LimitsInv, ContentOK, Flags, limitVars
<1> QED
  BY <1>2, <1>5, <1>6 DEF IInv

LEMMA ExpectTagKeeps == IInv /\ ExpectTag => IInv'
<1> SUFFICES ASSUME IInv, ExpectTag PROVE IInv'
  OBVIOUS
<1>1. /\ Core /\ ContentOK /\ InStep /\ ReadFrame
      /\ UNCHANGED <<inputVars, legitimateEnd, callVars, nullCalled>>
  BY DEF IInv, ExpectTag, Idle
<1>2. PICK k \in 1..2 : BufferSize >= k /\ Advance(k)
  BY DEF ExpectTag
<1>3. k \in 0..BufferSize
  BY <1>2, Types
<1>4. Core' /\ InStep'
  BY <1>1, <1>2, <1>3, AdvanceMove DEF ReadFrame
<1>5. LimitsInv' /\ ContentOK' /\ Flags' /\ CallInv'
  BY <1>1 DEF IInv, LimitsInv, ContentOK, Flags, CallInv, ReadFrame, inputVars, limitVars, callVars
<1> QED
  BY <1>4, <1>5 DEF IInv

LEMMA ExpectAtEndKeeps == IInv /\ ExpectAtEnd => IInv'
<1> SUFFICES ASSUME IInv, ExpectAtEnd PROVE IInv'
  OBVIOUS
<1>1. /\ Core /\ InStep /\ legitimateEnd' = TRUE
      /\ UNCHANGED <<inputVars, flat, bufferVars, limitVars, callVars, nullCalled>>
  BY DEF IInv, ExpectAtEnd, Idle, ReadFrame
<1>2. Core' /\ InStep' /\ content' = content /\ inputFailed' = inputFailed
  BY <1>1, StillMove
<1>3. LimitsInv' /\ ContentOK' /\ Flags' /\ CallInv'
  BY <1>1, <1>2 DEF IInv, LimitsInv, ContentOK, Flags, CallInv, limitVars, callVars
<1> QED
  BY <1>2, <1>3 DEF IInv

(* What a call that moves a limit leaves alone.                            *)
LEMMA LimitCallMove ==
    ASSUME IInv, status = "open", Core', InStep => InStep', LimitsInv', legitimateEnd' \in BOOLEAN,
           UNCHANGED <<inputVars, flat, callVars>>
    PROVE  IInv'
<1>1. ContentOK' /\ Flags' /\ CallInv'
  BY DEF IInv, ContentOK, Flags, CallInv, inputVars, callVars
<1> QED
  BY <1>1 DEF IInv

LEMMA PushLimitKeeps == ASSUME NEW n \in Sizes PROVE IInv /\ PushLimit(n) => IInv'
<1> SUFFICES ASSUME IInv, PushLimit(n) PROVE IInv'
  OBVIOUS
<1> DEFINE asks == n >= 0 /\ n <= IntMax - CurrentPosition
           new == Smaller(currentLimit, IF asks THEN CurrentPosition + n ELSE IntMax)
<1>1. /\ Core /\ ContentOK /\ status = "open" /\ Len(oldLimits) < MaxLimits
      /\ oldLimits' = Append(oldLimits, currentLimit) /\ currentLimit' = new
      /\ RecomputeBufferLimits(bufferEnd + afterLimit, totalRead, new, totalLimit)
      /\ totalLimit' = totalLimit
      /\ UNCHANGED <<inputVars, flat, buffer, totalRead, overflow, nullCalled>>
      /\ UNCHANGED <<legitimateEnd, callVars>>
  BY DEF IInv, PushLimit, Idle
<1>2. /\ n \in Int /\ IntMax \in Nat /\ currentLimit \in 0..IntMax /\ totalLimit \in 0..IntMax
      /\ flat => currentLimit <= totalRead
  BY <1>1, CodedInputAssumption DEF Core, Numbers, FlatInv
<1>3. /\ CurrentPosition \in 0..IntMax /\ CurrentPosition <= currentLimit
      /\ CurrentPosition <= totalLimit
  BY <1>1, <1>2, Position
<1>4. new \in 0..IntMax /\ CurrentPosition <= new /\ new <= currentLimit
  BY <1>2, <1>3 DEF Smaller
<1> HIDE DEF new
<1>5. flat => new <= totalRead
  <2>1. totalRead \in Int
    BY <1>1 DEF Core, Numbers
  <2> QED
    BY <1>2, <1>4, <2>1
<1>6. Core' /\ (InStep => InStep')
  BY <1>1, <1>2, <1>3, <1>4, <1>5, LimitMove
<1>7. LimitsInv'
  <2>1. /\ oldLimits \in Seq(0..IntMax) /\ MaxLimits \in Nat
        /\ flat => currentLimit <= Len(content)
        /\ \A i \in 1..Len(oldLimits) : /\ currentLimit <= oldLimits[i]
                                        /\ flat => oldLimits[i] <= Len(content)
        /\ \A i, j \in 1..Len(oldLimits) : i <= j => oldLimits[j] <= oldLimits[i]
    BY Constants DEF IInv, LimitsInv, Core, FlatInv
  <2>2. /\ oldLimits' \in Seq(0..IntMax) /\ Len(oldLimits') = Len(oldLimits) + 1
        /\ Len(oldLimits) \in Nat
        /\ \A i \in 1..Len(oldLimits) : oldLimits'[i] = oldLimits[i] /\ oldLimits[i] \in 0..IntMax
        /\ oldLimits'[Len(oldLimits) + 1] = currentLimit
    BY <1>1, <1>2, <2>1
  <2>3. content' = content /\ flat' = flat
    BY <1>1 DEF inputVars
  <2>4. \A i \in 1..Len(oldLimits') : /\ currentLimit' <= oldLimits'[i]
                                      /\ flat' => oldLimits'[i] <= Len(content')
    <3> TAKE i \in 1..Len(oldLimits')
    <3>1. i \in 1..Len(oldLimits) \/ i = Len(oldLimits) + 1
      BY <2>2
    <3>2. CASE i \in 1..Len(oldLimits)
      BY <1>1, <1>2, <1>4, <2>1, <2>2, <2>3, <3>2
    <3>3. CASE i = Len(oldLimits) + 1
      BY <1>1, <1>2, <1>4, <2>1, <2>2, <2>3, <3>3
    <3> QED
      BY <3>1, <3>2, <3>3
  <2>5. \A i, j \in 1..Len(oldLimits') : i <= j => oldLimits'[j] <= oldLimits'[i]
    <3> SUFFICES ASSUME NEW i \in 1..Len(oldLimits'), NEW j \in 1..Len(oldLimits'), i <= j
                 PROVE  oldLimits'[j] <= oldLimits'[i]
      OBVIOUS
    <3>1. CASE j \in 1..Len(oldLimits)
      BY <2>1, <2>2, <3>1
    <3>2. CASE i \in 1..Len(oldLimits) /\ j = Len(oldLimits) + 1
      BY <2>1, <2>2, <3>2
    <3>3. CASE i = Len(oldLimits) + 1 /\ j = Len(oldLimits) + 1
      BY <1>2, <2>2, <3>3
    <3> QED
      BY <2>2, <3>1, <3>2, <3>3
  <2>6. Len(oldLimits') <= MaxLimits
    BY <1>1, <2>1, <2>2
  <2>7. oldLimits' \in Seq(0..IntMax)
    BY <2>2
  <2> HIDE DEF new
  <2> QED
    BY <2>4, <2>5, <2>6, <2>7, Zenon DEF LimitsInv
<1>8. legitimateEnd' \in BOOLEAN
  BY <1>1, Types
<1> QED
  BY <1>1, <1>6, <1>7, <1>8, LimitCallMove

(* A sequence without its last element.                                    *)
LEMMA LastOf ==
    ASSUME NEW S, NEW s \in Seq(S), s # <<>>
    PROVE  /\ Len(s) \in Nat /\ Len(s) > 0 /\ s[Len(s)] \in S
           /\ SubSeq(s, 1, Len(s) - 1) \in Seq(S)
           /\ Len(SubSeq(s, 1, Len(s) - 1)) = Len(s) - 1
           /\ \A i \in 1..(Len(s) - 1) : SubSeq(s, 1, Len(s) - 1)[i] = s[i]
<1>1. Len(s) \in Nat /\ Len(s) > 0 /\ \A i \in 1..Len(s) : s[i] \in S
  OBVIOUS
<1>2. Len(s) \in 1..Len(s) /\ 1 \in Int /\ Len(s) - 1 \in Int
      /\ \A i \in 1..(Len(s) - 1) : s[i] \in S
  BY <1>1
<1>3. /\ SubSeq(s, 1, Len(s) - 1) \in Seq(S)
      /\ Len(SubSeq(s, 1, Len(s) - 1)) = IF 1 <= Len(s) - 1 THEN Len(s) - 1 - 1 + 1 ELSE 0
      /\ \A i \in 1..Len(s) - 1 - 1 + 1 : SubSeq(s, 1, Len(s) - 1)[i] = s[1 + i - 1]
  BY <1>2, SubSeqProperties
<1>4. Len(SubSeq(s, 1, Len(s) - 1)) = Len(s) - 1
  <2>1. CASE 1 <= Len(s) - 1
    BY <1>1, <1>3, <2>1
  <2>2. CASE ~(1 <= Len(s) - 1)
    <3>1. Len(s) = 1
      <4> DEFINE n == Len(s)
      <4>1. n \in Nat /\ n > 0 /\ ~(1 <= n - 1)
        BY <1>1, <2>2
      <4> HIDE DEF n
      <4>2. n = 1
        BY <4>1
      <4> QED
        BY <4>2 DEF n
    <3>2. Len(SubSeq(s, 1, Len(s) - 1)) = 0
      BY <1>3, <2>2, Zenon
    <3> QED
      BY <3>1, <3>2
  <2> QED
    BY <2>1, <2>2
<1>5. \A i \in 1..(Len(s) - 1) : SubSeq(s, 1, Len(s) - 1)[i] = s[i]
  <2> TAKE i \in 1..(Len(s) - 1)
  <2>1. i \in 1..Len(s) - 1 - 1 + 1 /\ 1 + i - 1 = i
    BY <1>1
  <2> QED
    BY <1>3, <2>1
<1> QED
  BY <1>1, <1>2, <1>3, <1>4, <1>5

LEMMA PopLimitKeeps == IInv /\ PopLimit => IInv'
<1> SUFFICES ASSUME IInv, PopLimit PROVE IInv'
  OBVIOUS
<1> DEFINE last == Len(oldLimits)
           old == oldLimits[last]
<1>1. /\ Core /\ ContentOK /\ status = "open" /\ oldLimits # <<>>
      /\ oldLimits' = SubSeq(oldLimits, 1, last - 1) /\ currentLimit' = old
      /\ RecomputeBufferLimits(bufferEnd + afterLimit, totalRead, old, totalLimit)
      /\ totalLimit' = totalLimit
      /\ UNCHANGED <<inputVars, flat, buffer, totalRead, overflow, nullCalled>>
      /\ legitimateEnd' = FALSE /\ UNCHANGED callVars
  BY DEF IInv, PopLimit, Idle
<1>2. /\ oldLimits \in Seq(0..IntMax) /\ Len(oldLimits) <= MaxLimits /\ MaxLimits \in Nat
      /\ \A i \in 1..Len(oldLimits) : /\ currentLimit <= oldLimits[i]
                                      /\ flat => oldLimits[i] <= Len(content)
      /\ \A i, j \in 1..Len(oldLimits) : i <= j => oldLimits[j] <= oldLimits[i]
  BY Constants DEF IInv, LimitsInv
<1>3. last \in Nat /\ last > 0 /\ last \in 1..Len(oldLimits) /\ old \in 0..IntMax
  <2>1. Len(oldLimits) \in Nat /\ Len(oldLimits) > 0 /\ oldLimits[Len(oldLimits)] \in 0..IntMax
    BY <1>1, <1>2, LastOf
  <2> QED
    BY <2>1
<1>4. /\ IntMax \in Nat /\ currentLimit \in 0..IntMax /\ totalLimit \in 0..IntMax
      /\ totalRead \in 0..IntMax
      /\ flat => totalRead = Len(content)
  BY <1>1, Constants DEF Core, Numbers, FlatInv
<1>5. currentLimit <= old /\ (flat => old <= totalRead)
  BY <1>2, <1>3, <1>4
<1> HIDE DEF old
<1>6. /\ CurrentPosition \in 0..IntMax /\ CurrentPosition <= old /\ CurrentPosition <= totalLimit
  BY <1>1, <1>3, <1>4, <1>5, Position
<1>7. Core' /\ (InStep => InStep')
  BY <1>1, <1>3, <1>4, <1>5, <1>6, LimitMove
<1>8. LimitsInv'
  <2>1. /\ oldLimits' \in Seq(0..IntMax) /\ Len(oldLimits') = last - 1
        /\ \A i \in 1..(last - 1) : oldLimits'[i] = oldLimits[i]
    BY <1>1, <1>2, LastOf
  <2>2. content' = content /\ flat' = flat
    BY <1>1 DEF inputVars
  <2>3. \A i \in 1..(last - 1) : i \in 1..Len(oldLimits) /\ i <= last
    BY <1>3
  <2>4. \A i \in 1..(last - 1) : old <= oldLimits[i]
    BY <1>2, <1>3, <2>3 DEF old
  <2>5. Len(oldLimits') <= MaxLimits
    BY <1>2, <1>3, <2>1
  <2>6. \A i \in 1..Len(oldLimits') : /\ currentLimit' <= oldLimits'[i]
                                      /\ flat' => oldLimits'[i] <= Len(content')
    BY <1>1, <1>2, <2>1, <2>2, <2>3, <2>4
  <2>7. \A i, j \in 1..Len(oldLimits') : i <= j => oldLimits'[j] <= oldLimits'[i]
    BY <1>2, <2>1, <2>3
  <2>8. oldLimits' \in Seq(0..IntMax)
    BY <2>1
  <2> QED
    BY <2>5, <2>6, <2>7, <2>8, Zenon DEF LimitsInv
<1> QED
  BY <1>1, <1>7, <1>8, LimitCallMove

LEMMA SetTotalBytesLimitKeeps ==
    ASSUME NEW n \in Sizes PROVE IInv /\ SetTotalBytesLimit(n) => IInv'
<1> SUFFICES ASSUME IInv, SetTotalBytesLimit(n) PROVE IInv'
  OBVIOUS
<1> DEFINE new == Larger(CurrentPosition, n)
<1>1. /\ Core /\ ContentOK /\ status = "open" /\ totalLimit' = new
      /\ RecomputeBufferLimits(bufferEnd + afterLimit, totalRead, currentLimit, new)
      /\ oldLimits' = oldLimits /\ currentLimit' = currentLimit
      /\ UNCHANGED <<inputVars, flat, buffer, totalRead, overflow, nullCalled>>
      /\ UNCHANGED <<legitimateEnd, callVars>>
  BY DEF IInv, SetTotalBytesLimit, Idle
<1>2. /\ n \in Int /\ n <= IntMax /\ IntMax \in Nat /\ currentLimit \in 0..IntMax
      /\ totalLimit \in 0..IntMax /\ flat => currentLimit <= totalRead
  BY <1>1, CodedInputAssumption DEF Core, Numbers, FlatInv
<1> HIDE DEF new
<1>3. CurrentPosition \in 0..IntMax /\ CurrentPosition <= currentLimit
  BY <1>1, Position
<1>4. new \in 0..IntMax /\ CurrentPosition <= new
  BY <1>2, <1>3 DEF new, Larger
<1>5. Core' /\ (InStep => InStep')
  <2>1. flat => currentLimit <= totalRead
    BY <1>1 DEF Core, FlatInv
  <2> QED
    BY <1>1, <1>2, <1>3, <1>4, <2>1, LimitMove, SMTT(30)
<1>6. LimitsInv'
  BY <1>1 DEF IInv, LimitsInv, inputVars
<1>7. legitimateEnd' \in BOOLEAN
  BY <1>1, Types
<1> QED
  BY <1>1, <1>5, <1>6, <1>7, LimitCallMove

LEMMA DestroyKeeps == IInv /\ Destroy => IInv'
<1> SUFFICES ASSUME IInv, Destroy PROVE IInv'
  OBVIOUS
<1>1. /\ Core /\ ContentOK /\ stage = "idle" /\ status' = "closed"
      /\ UNCHANGED <<flat, limitVars, legitimateEnd, asked, stage, need, start, nullCalled>>
  BY DEF IInv, Destroy
<1>2. Core'
  BY <1>1, DestroyMove
<1>3. content' = content /\ inputFailed' = inputFailed
  BY DEF Destroy, inputVars
<1>4. LimitsInv' /\ ContentOK' /\ Flags' /\ CallInv'
  BY <1>1, <1>3 DEF IInv, LimitsInv, ContentOK, Flags, CallInv, limitVars
<1> QED
  BY <1>1, <1>2, <1>4 DEF IInv

-----------------------------------------------------------------------------
(* A flat array no longer than the default total limit.                    *)
LEMMA Starts == MaxFlat <= DefaultTotal /\ Init => IInv
<1> SUFFICES ASSUME MaxFlat <= DefaultTotal, Init PROVE IInv
  OBVIOUS
<1>1. ContentOK /\ flat \in BOOLEAN /\ (flat => Len(content) <= MaxFlat)
  BY DEF Init, ContentOK
<1>2. /\ IntMax \in Nat /\ MaxChunk \in Nat /\ MaxLimits \in Nat /\ Len(content) \in Nat
      /\ DefaultTotal \in 0..IntMax /\ MaxFlat \in 0..IntMax
  BY <1>1, Constants
<1>3. /\ given = 0 /\ lastChunk = 0 /\ buffer = 0 /\ overflow = 0 /\ afterLimit = 0
      /\ totalRead = bufferEnd /\ totalLimit = DefaultTotal
      /\ nullCalled = FALSE /\ oldLimits = <<>>
  BY DEF Init
<1>4. \/ flat /\ bufferEnd = Len(content) /\ currentLimit = Len(content)
      \/ ~flat /\ bufferEnd = 0 /\ currentLimit = IntMax
  BY DEF Init
<1>5. Numbers
  BY <1>1, <1>2, <1>3, <1>4 DEF Numbers
<1>6. BufferInv
  <2>1. totalRead <= ClosestLimit /\ ClosestLimit \in Int
    BY <1>1, <1>2, <1>3, <1>4 DEF ClosestLimit, Smaller
  <2>2. bufferEnd \in Nat
    BY <1>2, <1>4
  <2>3. CurrentPosition = 0
    BY <1>3, <2>2 DEF CurrentPosition, BufferSize
  <2> QED
    BY <1>3, <2>1, <2>2, <2>3 DEF BufferInv
<1>7. ChunkInv
  BY <1>2, <1>3, <1>4 DEF ChunkInv, BufferSize
<1>8. FlatInv /\ InStep
  BY <1>2, <1>3, <1>4 DEF FlatInv, InStep
<1>9. LimitsInv
  BY <1>2, <1>3 DEF LimitsInv
<1>10. CallInv /\ Flags
  <2>1. 0 \in 0..IntMax /\ 0 \in Int
    BY <1>2
  <2> QED
    BY <2>1, Zenon DEF Init, CallInv, Flags, Stages
<1> QED
  BY <1>1, <1>5, <1>6, <1>7, <1>8, <1>9, <1>10 DEF IInv, Core

LEMMA Steps == IInv /\ [Next]_vars => IInv'
<1> SUFFICES ASSUME IInv, [Next]_vars PROVE IInv'
  OBVIOUS
<1>1. CASE UNCHANGED vars
  <2>1. UNCHANGED <<inputVars, flat, bufferVars, limitVars, legitimateEnd, callVars, nullCalled>>
    BY <1>1 DEF vars
  <2>2. Core' /\ (InStep => InStep') /\ content' = content /\ inputFailed' = inputFailed
    BY <2>1, StillMove DEF IInv
  <2>3. ContentOK' /\ LimitsInv' /\ CallInv' /\ Flags' /\ status' = status
    BY <2>1, <2>2 DEF IInv, ContentOK, LimitsInv, CallInv, Flags, limitVars, callVars
  <2> QED
    BY <2>2, <2>3 DEF IInv
<1>2. CASE \E r \in Requests : Ask(r)
  BY <1>2, AskKeeps
<1>3. CASE ReadStep
  BY <1>3, CreateKeeps, ReadBytesKeeps, ReadVarintKeeps, ReadVarintSlowKeeps, ReadTagKeeps,
     ReadTagAtLimitKeeps, ReadTagSlowKeeps, SkipInBufferKeeps, SkipToLimitInBufferKeeps,
     SkipBeyondBufferKeeps, GetDirectBufferPointerKeeps DEF ReadStep
<1>4. CASE ExpectTag \/ ExpectAtEnd \/ PopLimit \/ Destroy
  BY <1>4, ExpectTagKeeps, ExpectAtEndKeeps, PopLimitKeeps, DestroyKeeps
<1>5. CASE \E n \in Sizes : PushLimit(n)
  BY <1>5, PushLimitKeeps
<1>6. CASE \E n \in Sizes : SetTotalBytesLimit(n)
  BY <1>6, SetTotalBytesLimitKeeps
<1> QED
  BY <1>1, <1>2, <1>3, <1>4, <1>5, <1>6 DEF Next

LEMMA Invariant == MaxFlat <= DefaultTotal /\ Spec => []IInv
<1>1. MaxFlat <= DefaultTotal /\ Init => IInv
  BY Starts
<1>2. IInv /\ [Next]_vars => IInv'
  BY Steps
<1> QED
  BY <1>1, <1>2, PTL DEF Spec

-----------------------------------------------------------------------------
(* No counter of the reader runs over INT_MAX or below zero.               *)
THEOREM ReaderTypeCorrect == MaxFlat <= DefaultTotal /\ Spec => []TypeOK
<1>1. IInv => TypeOK
  BY DEF IInv, ContentOK, Core, Numbers, FlatInv, LimitsInv, CallInv, Flags, Stages, TypeOK
<1> QED
  BY <1>1, Invariant, PTL

(* However the bytes are cut into buffers, and whatever limits come and    *)
(* go, what the buffer points at is the byte at the current position.      *)
THEOREM StaysInStep == MaxFlat <= DefaultTotal /\ Spec => []InputInStep
<1>1. IInv => InputInStep
  BY DEF IInv, Core, BufferInv, InStep, InputInStep
<1> QED
  BY <1>1, Invariant, PTL

(* No read goes past a limit in force, nor past one put aside.             *)
THEOREM StaysWithinLimits == MaxFlat <= DefaultTotal /\ Spec => []WithinLimits
<1>1. IInv => WithinLimits
  <2> SUFFICES ASSUME IInv PROVE WithinLimits
    OBVIOUS
  <2>1. /\ CurrentPosition \in Int /\ CurrentPosition <= ClosestLimit
        /\ CurrentPosition <= currentLimit
    BY Position, Constants DEF IInv
  <2>2. currentLimit \in Int
    BY DEF IInv, Core, Numbers
  <2>3. \A i \in 1..Len(oldLimits) : oldLimits[i] \in Int /\ currentLimit <= oldLimits[i]
    BY Constants DEF IInv, LimitsInv
  <2>4. \A i \in 1..Len(oldLimits) : CurrentPosition <= oldLimits[i]
    BY <2>1, <2>2, <2>3
  <2> QED
    BY <2>1, <2>4 DEF WithinLimits
<1> QED
  BY <1>1, Invariant, PTL

(* What is handed back is part of the last buffer the input gave.          *)
THEOREM BacksUpLastBuffer == MaxFlat <= DefaultTotal /\ Spec => []BackUpAllowed
<1>1. IInv => BackUpAllowed
  BY DEF IInv, Core, ChunkInv, BackUpAllowed
<1> QED
  BY <1>1, Invariant, PTL

(* A reader of an array never turns to the input it does not have.         *)
THEOREM FlatIsNeverRefilled == MaxFlat <= DefaultTotal /\ Spec => []FlatNeedsNoInput
<1>1. IInv => FlatNeedsNoInput
  BY DEF IInv, Core, FlatInv, FlatNeedsNoInput
<1> QED
  BY <1>1, Invariant, PTL

-----------------------------------------------------------------------------
(***************************************************************************)
(* The refinement of ByteReader.  A call takes effect at its answer, so    *)
(* what has been consumed since it was asked must be known until then.     *)
(***************************************************************************)

(* There is nothing in the buffer, and nothing will come.                  *)
AtEnd == BufferSize = 0 /\ (AtStop \/ given = Len(content) \/ inputFailed)

(* Where the call under way has got to: how much of what was asked has     *)
(* been consumed, and on the slow path that all of it goes on.             *)
CallPlace ==
    /\ asked = Nothing <=> stage \in {"idle", "create"}
    /\ stage = "create" => BufferSize = 0
    /\ stage \in {"bytes", "skip", "tag", "direct"} => asked.name = stage
    /\ stage \in {"varint", "slow"} => asked.name \in {"varint", "tag"}
    /\ stage = "bytes" => start + asked.n = CurrentPosition + need /\ need <= asked.n
    /\ stage = "skip" => need = asked.n
    /\ stage \in {"skip", "varint", "tag", "direct"} => start = CurrentPosition
    /\ stage = "slow" => /\ need \in 0..MaxVarint /\ start + need = CurrentPosition
                         /\ \A i \in 1..need : content[start + i]

(* A reader that knows of an end has nothing to read; a tag is looked for  *)
(* only before one is known.                                               *)
EndPlace ==
    legitimateEnd => /\ status = "open" => AtEnd
                     /\ stage \in {"varint", "slow"} => asked.name = "varint"

(* After a failure the input stands between what was read before and the   *)
(* nearest limit.                                                          *)
FailedPlace ==
    status = "failed" =>
        \/ InStep /\ start <= CurrentPosition
        \/ /\ ~flat /\ BufferSize + afterLimit + overflow = 0
           /\ start <= given /\ given <= ClosestLimit

PlaceInv == CallPlace /\ EndPlace /\ FailedPlace

(* Byte p is not beyond a limit or the input.                              *)
Within(p) == p <= currentLimit /\ p <= totalLimit /\ p <= Len(content)

(* A variable-length integer of k bytes after the first p.                 *)
VarintFrom(p, k) ==
    /\ k \in 1..MaxVarint /\ p + k <= Len(content)
    /\ ~content[p + k]
    /\ \A i \in 1..(k - 1) : content[p + i]

(* The numbers of the reader, and how its position is made up of them.     *)
Counts ==
    /\ buffer \in Nat /\ bufferEnd \in Nat /\ totalRead \in Nat /\ overflow \in Nat
    /\ afterLimit \in Nat /\ given \in Nat /\ given <= Len(content) /\ Len(content) \in Nat
    /\ currentLimit \in Nat /\ totalLimit \in Nat /\ ClosestLimit \in Nat
    /\ ClosestLimit <= currentLimit /\ ClosestLimit <= totalLimit
    /\ ClosestLimit \in {currentLimit, totalLimit}
    /\ BufferSize \in Nat /\ BufferSize = bufferEnd - buffer
    /\ CurrentPosition \in Nat
    /\ CurrentPosition + BufferSize + afterLimit = totalRead
    /\ CurrentPosition <= ClosestLimit
    /\ afterLimit > 0 => totalRead - afterLimit = ClosestLimit
    /\ afterLimit = 0 => totalRead <= ClosestLimit
    /\ overflow > 0 => totalRead = IntMax
    /\ IntMax \in Nat /\ currentLimit <= IntMax /\ totalLimit <= IntMax
    /\ MaxVarint \in Nat \ {0}

LEMMA Sums == ASSUME Core, ContentOK PROVE Counts
<1>1. Numbers /\ BufferInv /\ IntMax \in Nat /\ MaxChunk \in Nat /\ Len(content) \in Nat
      /\ MaxVarint \in Nat \ {0}
  BY Constants DEF Core
<1>2. /\ buffer \in Nat /\ bufferEnd \in Nat /\ totalRead \in Nat /\ overflow \in Nat
      /\ afterLimit \in Nat /\ given \in Nat /\ given <= Len(content)
      /\ currentLimit \in Nat /\ totalLimit \in Nat /\ currentLimit <= IntMax
      /\ totalLimit <= IntMax
  BY <1>1 DEF Numbers
<1>3. /\ ClosestLimit \in Nat /\ ClosestLimit <= currentLimit /\ ClosestLimit <= totalLimit
      /\ ClosestLimit \in {currentLimit, totalLimit}
  BY <1>2 DEF ClosestLimit, Smaller
<1>4. BufferSize \in Nat /\ BufferSize = bufferEnd - buffer
  BY <1>1, <1>2 DEF BufferInv, BufferSize
<1>5. CurrentPosition \in Nat /\ CurrentPosition <= ClosestLimit
  BY <1>1, Position
<1>6. CurrentPosition + BufferSize + afterLimit = totalRead
  BY <1>2, <1>4 DEF CurrentPosition
<1>7. /\ afterLimit > 0 => totalRead - afterLimit = ClosestLimit
      /\ afterLimit = 0 => totalRead <= ClosestLimit
      /\ overflow > 0 => totalRead = IntMax
  BY <1>1, <1>2, <1>3 DEF BufferInv
<1> QED
  BY <1>1, <1>2, <1>3, <1>4, <1>5, <1>6, <1>7 DEF Counts

(* An open reader stands within its limits and its input.                  *)
LEMMA Here ==
    ASSUME Core, ContentOK, InStep
    PROVE  Within(CurrentPosition)
<1>1. flat => totalRead = Len(content)
  BY DEF Core, FlatInv
<1>2. Counts
  BY Sums
<1>3. totalRead <= Len(content)
  BY <1>1, <1>2 DEF InStep, Counts
<1> QED
  BY <1>2, <1>3 DEF Within, Counts

-----------------------------------------------------------------------------
(* What the moves of the buffer do to the position.                        *)
LEMMA AdvancePosition ==
    ASSUME Core, ContentOK, NEW n \in 0..BufferSize, Advance(n)
    PROVE  CurrentPosition' = CurrentPosition + n /\ BufferSize' = BufferSize - n
<1>1. /\ buffer' = buffer + n /\ bufferEnd' = bufferEnd /\ totalRead' = totalRead
      /\ afterLimit' = afterLimit
  BY DEF Advance, BufferKept
<1>2. Counts /\ n \in Nat
  BY Sums DEF Counts
<1>3. BufferSize' = BufferSize - n
  BY <1>1, <1>2 DEF BufferSize, Counts
<1>4. CurrentPosition' = totalRead - (BufferSize' + afterLimit)
  BY <1>1 DEF CurrentPosition
<1> QED
  BY <1>2, <1>3, <1>4 DEF Counts

LEMMA GetsPosition ==
    ASSUME Core, ContentOK, InStep, RefreshGets
    PROVE  /\ CurrentPosition' = CurrentPosition + BufferSize
           /\ ~AtStop /\ ~inputFailed /\ given < Len(content)
           /\ content' = content /\ inputFailed' = inputFailed
<1>0. PICK n \in 1..MaxChunk :
        /\ given + n <= Len(content)
        /\ buffer' = given
        /\ totalRead' = Smaller(totalRead + n, IntMax)
        /\ RecomputeBufferLimits(given + n - Larger(0, totalRead - (IntMax - n)),
                                 Smaller(totalRead + n, IntMax), currentLimit, totalLimit)
  BY DEF RefreshGets
<1> DEFINE read == Smaller(totalRead + n, IntMax)
           over == Larger(0, totalRead - (IntMax - n))
           near == Smaller(currentLimit, totalLimit)
<1>1. n \in Nat /\ n > 0 /\ totalRead \in 0..IntMax
  BY Constants DEF Core, Numbers
<1>2. ~AtStop /\ ~flat /\ ~inputFailed /\ content' = content /\ inputFailed' = inputFailed
  BY DEF RefreshGets
<1>c. Counts
  BY Sums
<1>3. overflow = 0 /\ afterLimit = 0 /\ given = totalRead
  BY <1>2, <1>c DEF AtStop, InStep, Counts
<1>4. read \in 0..IntMax /\ over \in 0..n /\ read + over = totalRead + n
  BY <1>1, Counted
<1>5. totalRead' = read /\ buffer' = given
  BY <1>0
<1>6. \/ /\ near < read /\ afterLimit' = read - near
         /\ bufferEnd' = (given + n - over) - (read - near)
      \/ ~(near < read) /\ afterLimit' = 0 /\ bufferEnd' = given + n - over
  BY <1>0, Zenon DEF RecomputeBufferLimits
<1>7. near \in Int
  BY <1>c DEF Smaller, Counts
<1> HIDE DEF read, over, near
<1>8. (bufferEnd' - buffer') + afterLimit' = n - over
  BY <1>1, <1>3, <1>4, <1>5, <1>6, <1>7, <1>c DEF Counts
<1>9. CurrentPosition' = totalRead
  <2>1. CurrentPosition' = read - (n - over)
    BY <1>5, <1>8 DEF CurrentPosition, BufferSize
  <2> QED
    BY <1>1, <1>4, <2>1
<1> QED
  BY <1>0, <1>1, <1>2, <1>3, <1>9, <1>c DEF Counts

(* No buffer comes only at a limit, or where the input ends or has failed. *)
LEMMA FailsPosition ==
    ASSUME Core, ContentOK, InStep, RefreshFails, UNCHANGED <<flat, limitVars>>
    PROVE  /\ CurrentPosition' = CurrentPosition + BufferSize /\ BufferSize' = 0
           /\ content' = content /\ (inputFailed => inputFailed')
           /\ AtEnd'
           /\ inputFailed' \/ ~Within(CurrentPosition + BufferSize + 1)
           /\ AtStop \/ inputFailed' \/ CurrentPosition + BufferSize = Len(content)
<1>1. Counts /\ currentLimit' = currentLimit /\ totalLimit' = totalLimit
      /\ (flat => currentLimit <= totalRead /\ totalRead = Len(content))
  BY Sums DEF limitVars, Core, FlatInv
<1>2. CASE RefreshStops
  <2>1. /\ buffer' = bufferEnd /\ bufferEnd' = bufferEnd /\ totalRead' = totalRead
        /\ afterLimit' = afterLimit /\ overflow' = overflow
        /\ content' = content /\ inputFailed' = inputFailed /\ AtStop
    BY <1>2 DEF RefreshStops, inputVars
  <2>2. BufferSize' = 0
    BY <1>1, <2>1 DEF BufferSize, Counts
  <2>3. CurrentPosition' = totalRead - (BufferSize' + afterLimit)
    BY <2>1 DEF CurrentPosition
  <2>4. CurrentPosition' = CurrentPosition + BufferSize
    BY <1>1, <2>2, <2>3 DEF Counts
  <2>5. AtEnd'
    BY <1>1, <2>1, <2>2 DEF AtEnd, AtStop
  <2>6. ~Within(CurrentPosition + BufferSize + 1)
    <3>1. CASE afterLimit > 0
      BY <1>1, <3>1 DEF Counts, Within
    <3>2. CASE afterLimit = 0
      <4>1. totalRead = currentLimit \/ totalRead = IntMax
        BY <1>1, <2>1, <3>2 DEF AtStop, Counts
      <4> QED
        BY <1>1, <3>2, <4>1 DEF Counts, Within
    <3> QED
      BY <1>1, <3>1, <3>2 DEF Counts
  <2> QED
    BY <2>1, <2>2, <2>4, <2>5, <2>6
<1>3. CASE RefreshMeetsEnd
  <2>1. /\ ~AtStop /\ ~flat /\ buffer' = 0 /\ bufferEnd' = 0 /\ totalRead' = totalRead
        /\ afterLimit' = afterLimit /\ content' = content /\ given' = given
        /\ \/ given = Len(content) /\ inputFailed' = inputFailed
           \/ inputFailed' = TRUE
    BY <1>3 DEF RefreshMeetsEnd
  <2>2. BufferSize' = 0 /\ afterLimit = 0 /\ given = totalRead
    BY <1>1, <2>1 DEF BufferSize, AtStop, InStep, Counts
  <2>3. CurrentPosition' = totalRead - (BufferSize' + afterLimit)
    BY <2>1 DEF CurrentPosition
  <2>4. CurrentPosition' = CurrentPosition + BufferSize
    BY <1>1, <2>2, <2>3 DEF Counts
  <2>5. AtEnd'
    BY <2>1, <2>2 DEF AtEnd
  <2>6. inputFailed' \/ CurrentPosition + BufferSize = Len(content)
    BY <1>1, <2>1, <2>2 DEF Counts
  <2>7. inputFailed' \/ ~Within(CurrentPosition + BufferSize + 1)
    BY <1>1, <2>6 DEF Within, Counts
  <2> QED
    BY <2>1, <2>2, <2>4, <2>5, <2>6, <2>7
<1>4. ~RefreshCallsNull
  <2>1. SUFFICES ASSUME flat, ~AtStop PROVE FALSE
    BY DEF RefreshCallsNull
  <2> QED
    BY <1>1, <2>1 DEF AtStop, Counts
<1> QED
  BY <1>2, <1>3, <1>4 DEF RefreshFails

(* No move of a read goes back, or loses step with the input, or finds     *)
(* more behind an end.                                                     *)
LEMMA ReadPosition ==
    ASSUME IInv, status = "open", ReadFrame, BufferMoves
    PROVE  /\ InStep' /\ content' = content /\ (inputFailed => inputFailed')
           /\ CurrentPosition' >= CurrentPosition /\ CurrentPosition' \in Int
           /\ AtEnd => AtEnd' /\ CurrentPosition' = CurrentPosition
<1>1. /\ Core /\ ContentOK /\ InStep /\ UNCHANGED <<flat, limitVars>>
      /\ Counts
  BY Sums DEF IInv, ReadFrame
<1>2. CASE UNCHANGED <<inputVars, bufferVars, nullCalled>>
  <2>1. InStep' /\ CurrentPosition' = CurrentPosition /\ (AtEnd => AtEnd')
    BY <1>1, <1>2 DEF inputVars, bufferVars, limitVars, InStep, CurrentPosition, BufferSize,
                      AtEnd, AtStop
  <2> QED
    BY <1>1, <1>2, <2>1 DEF inputVars, Counts
<1>3. ASSUME NEW n \in 0..BufferSize, Advance(n), UNCHANGED <<inputVars, nullCalled>>
      PROVE  /\ InStep' /\ CurrentPosition' >= CurrentPosition /\ CurrentPosition' \in Int
             /\ AtEnd => AtEnd' /\ CurrentPosition' = CurrentPosition
  <2>1. CurrentPosition' = CurrentPosition + n /\ BufferSize' = BufferSize - n /\ n \in Nat
    BY <1>1, <1>3, AdvancePosition DEF Counts
  <2>2. InStep'
    BY <1>1, <1>3, AdvanceMove
  <2>3. AtEnd => n = 0
    BY <1>1, <1>3 DEF AtEnd, Counts
  <2>4. /\ content' = content /\ given' = given /\ inputFailed' = inputFailed
        /\ totalRead' = totalRead /\ overflow' = overflow /\ afterLimit' = afterLimit
        /\ currentLimit' = currentLimit
    BY <1>1, <1>3 DEF Advance, BufferKept, inputVars, limitVars
  <2>5. ASSUME AtEnd PROVE AtEnd'
    <3>1. BufferSize' = 0
      BY <1>1, <2>1, <2>3, <2>5 DEF AtEnd, Counts
    <3>2. AtStop' = AtStop
      BY <2>4 DEF AtStop
    <3> QED
      BY <2>4, <2>5, <3>1, <3>2, Zenon DEF AtEnd
  <2> QED
    BY <1>1, <2>1, <2>2, <2>3, <2>5 DEF Counts
<1>4. CASE RefreshGets
  BY <1>1, <1>4, GetsPosition, RefreshGetsMove DEF AtEnd, Counts
<1>5. CASE RefreshFails
  <2>1. InStep'
    BY <1>1, <1>5, RefreshFailsMove
  <2>2. /\ CurrentPosition' = CurrentPosition + BufferSize
        /\ content' = content /\ (inputFailed => inputFailed') /\ AtEnd'
    BY <1>1, <1>5, FailsPosition
  <2> QED
    BY <1>1, <2>1, <2>2 DEF AtEnd, Counts
<1>6. CASE \E n \in 0..BufferSize : Advance(n) /\ UNCHANGED <<inputVars, nullCalled>>
  BY <1>3, <1>6 DEF inputVars
<1> QED
  BY <1>2, <1>4, <1>5, <1>6 DEF BufferMoves

(* What is in the buffer lies within the limits and the input.             *)
LEMMA InBuffer ==
    ASSUME Core, ContentOK, InStep, NEW n \in 0..BufferSize
    PROVE  Within(CurrentPosition + n)
<1>1. flat => totalRead = Len(content)
  BY DEF Core, FlatInv
<1>2. Counts
  BY Sums
<1>3. totalRead <= Len(content) /\ n \in Nat /\ n <= BufferSize
  BY <1>1, <1>2 DEF InStep, Counts
<1> QED
  BY <1>2, <1>3 DEF Within, Counts

(* The nearest bound is the least of the three.                            *)
LEMMA BoundIs ==
    ASSUME Core, ContentOK
    PROVE  /\ Reader!Bound \in Nat
           /\ \A p \in Int : p <= Reader!Bound <=> Within(p)
<1>1. Counts
  BY Sums
<1>2. currentLimit \in Nat /\ totalLimit \in Nat /\ Len(content) \in Nat
  BY <1>1 DEF Counts
<1>3. \E x \in {currentLimit, totalLimit, Len(content)} :
        \A y \in {currentLimit, totalLimit, Len(content)} : x <= y
  BY <1>2
<1>4. Reader!Bound = CHOOSE x \in {currentLimit, totalLimit, Len(content)} :
        \A y \in {currentLimit, totalLimit, Len(content)} : x <= y
  BY DEF Reader!Bound, Reader!Least
<1>5. /\ Reader!Bound \in {currentLimit, totalLimit, Len(content)}
      /\ \A y \in {currentLimit, totalLimit, Len(content)} : Reader!Bound <= y
  BY <1>3, <1>4
<1> QED
  BY <1>2, <1>5 DEF Within

(* An integer at the start of the buffer is one at the position.           *)
LEMMA VarintIs ==
    ASSUME Core, ContentOK, BufferSize > 0, NEW k \in 1..MaxVarint
    PROVE  VarintAt(k) <=> VarintFrom(CurrentPosition, k)
<1>1. Counts /\ buffer = CurrentPosition
  <2>1. Counts
    BY Sums
  <2>2. BufferSize + afterLimit > 0
    BY <2>1 DEF Counts
  <2> QED
    BY <2>1, <2>2 DEF Core, BufferInv
<1>2. buffer \in Nat /\ k \in Nat /\ MaxVarint \in Nat
  BY <1>1 DEF Counts
<1>3. (buffer + k - 1) + 1 = buffer + k
  BY <1>2
<1>4. (\A i \in 0..(k - 2) : GoesOn(buffer + i)) <=> (\A i \in 1..(k - 1) : content[buffer + i])
  <2>1. ASSUME \A i \in 0..(k - 2) : GoesOn(buffer + i), NEW i \in 1..(k - 1)
        PROVE  content[buffer + i]
    <3>1. i - 1 \in 0..(k - 2) /\ (buffer + (i - 1)) + 1 = buffer + i
      BY <1>2
    <3> QED
      BY <2>1, <3>1 DEF GoesOn
  <2>2. ASSUME \A i \in 1..(k - 1) : content[buffer + i], NEW i \in 0..(k - 2)
        PROVE  GoesOn(buffer + i)
    <3>1. i + 1 \in 1..(k - 1) /\ (buffer + i) + 1 = buffer + (i + 1)
      BY <1>2
    <3> QED
      BY <2>2, <3>1 DEF GoesOn
  <2> QED
    BY <2>1, <2>2
<1>5. GoesOn(buffer + k - 1) <=> content[buffer + k]
  BY <1>3 DEF GoesOn
<1> QED
  BY <1>1, <1>4, <1>5 DEF VarintAt, VarintFrom

-----------------------------------------------------------------------------
(* The call under way, and what its answer is to the client.               *)
AtWork == stage \in Stages \ {"idle", "create"}

LEMMA CallUnderWay ==
    ASSUME IInv, PlaceInv, AtWork
    PROVE  /\ Core /\ ContentOK /\ InStep /\ Counts /\ status = "open" /\ asked # Nothing
           /\ start \in Nat /\ start <= CurrentPosition
           /\ ReaderPosition = start
           /\ legitimateEnd => AtEnd
           /\ inputFailed \in BOOLEAN /\ legitimateEnd \in BOOLEAN
<1>1. /\ Core /\ ContentOK /\ CallInv /\ status = "open" /\ InStep /\ CallPlace /\ EndPlace
      /\ inputFailed \in BOOLEAN /\ legitimateEnd \in BOOLEAN
  BY DEF IInv, CallInv, AtWork, PlaceInv, Flags
<1>2. asked # Nothing
  BY <1>1 DEF CallPlace, AtWork
<1>3. Counts /\ start \in Nat /\ need \in Int
  BY <1>1, Sums, Constants DEF CallInv
<1>4. start <= CurrentPosition
  <2>1. CASE stage = "bytes"
    <3>1. start + asked.n = CurrentPosition + need /\ need <= asked.n /\ asked.n \in Int
      <4>1. asked \in Requests /\ asked.name = "bytes"
        BY <1>1, <1>2, <2>1 DEF CallInv, CallPlace
      <4>2. asked.n \in Sizes
        BY <4>1 DEF Requests
      <4> QED
        BY <1>1, <2>1, <4>2, CodedInputAssumption DEF CallPlace
    <3> QED
      BY <1>3, <3>1 DEF Counts
  <2>2. CASE stage \in {"skip", "varint", "tag", "direct"}
    <3>1. start = CurrentPosition
      BY <1>1, <2>2 DEF CallPlace
    <3> QED
      BY <1>3, <3>1
  <2>3. CASE stage = "slow"
    <3>1. need \in Nat /\ start + need = CurrentPosition
      BY <1>1, <1>3, <2>3 DEF CallPlace, Counts
    <3> QED
      BY <1>3, <3>1 DEF Counts
  <2> QED
    BY <2>1, <2>2, <2>3 DEF AtWork, Stages
<1> QED
  BY <1>1, <1>2, <1>3, <1>4 DEF ReaderPosition, EndPlace

LEMMA AnswersAdvance ==
    ASSUME IInv, PlaceInv, AtWork, ReadFrame, Succeeds, NEW k \in Int, Within(start + k),
           CurrentPosition' = start + k,
           UNCHANGED <<content, inputFailed, legitimateEnd>>
    PROVE  Reader!Advances(k)
<1>1. /\ Core /\ ContentOK /\ status = "open" /\ start \in Nat /\ ReaderPosition = start
  BY CallUnderWay
<1>2. status' = "open" /\ asked' = Nothing /\ UNCHANGED limitVars
  BY <1>1 DEF Succeeds, Answered, ReadFrame
<1>3. ReaderPosition' = start + k
  BY <1>2 DEF ReaderPosition
<1>4. Reader!Reads(k)
  BY <1>1, BoundIs DEF Reader!Reads
<1> QED
  BY <1>1, <1>2, <1>3, <1>4 DEF Reader!Advances, Reader!Nothing, Nothing, Request, limitVars

LEMMA AnswersFail ==
    ASSUME IInv, PlaceInv, AtWork, ReadFrame, Breaks, Reader!CannotRead,
           content' = content, inputFailed => inputFailed', legitimateEnd' \in {legitimateEnd, FALSE}
    PROVE  Reader!Fails
<1>1. /\ Core /\ ContentOK /\ status = "open" /\ start \in Nat /\ ReaderPosition = start
      /\ asked # Nothing
  BY CallUnderWay
<1>2. status' = "failed" /\ asked' = Nothing /\ UNCHANGED <<limitVars, start>>
  BY DEF Breaks, Answered, ReadFrame
<1>3. ReaderPosition' = start
  BY <1>2 DEF ReaderPosition
<1> QED
  BY <1>1, <1>2, <1>3 DEF Reader!Fails, Reader!Nothing, Nothing, Request, limitVars

LEMMA AnswersEnd ==
    ASSUME IInv, PlaceInv, AtWork, ReadFrame, Succeeds, asked.name = "tag",
           start \in {currentLimit, Len(content)} \/ inputFailed',
           CurrentPosition' = start, legitimateEnd' = TRUE,
           content' = content, inputFailed => inputFailed'
    PROVE  Reader!Ends
<1>1. /\ status = "open" /\ ReaderPosition = start
  BY CallUnderWay
<1>2. status' = "open" /\ asked' = Nothing /\ UNCHANGED limitVars
  BY <1>1 DEF Succeeds, Answered, ReadFrame
<1>3. ReaderPosition' = start
  BY <1>2 DEF ReaderPosition
<1> QED
  BY <1>1, <1>2, <1>3 DEF Reader!Ends, Reader!Nothing, Nothing, Request, limitVars

(* Until it is answered nothing seems to move.                             *)
LEMMA NothingMoves ==
    ASSUME IInv, PlaceInv, AtWork, ReadFrame, NEW s, NEW n, Goes(s, n),
           UNCHANGED <<content, inputFailed, legitimateEnd>>
    PROVE  UNCHANGED Reader!vars
<1>1. asked # Nothing /\ ReaderPosition = start
  BY CallUnderWay
<1>2. UNCHANGED <<asked, start, status, limitVars>>
  BY DEF Goes, ReadFrame
<1>3. ReaderPosition' = start
  BY <1>1, <1>2 DEF ReaderPosition
<1> QED
  BY <1>1, <1>2, <1>3 DEF Reader!vars, limitVars

(* Where an answer leaves the reader.                                      *)
LEMMA AnsweredPlace ==
    ASSUME IInv, PlaceInv, AtWork, ReadFrame, BufferMoves, Succeeds \/ Breaks,
           legitimateEnd' => legitimateEnd \/ AtEnd' \/ status' = "failed"
    PROVE  PlaceInv'
<1>1. /\ status = "open" /\ start <= CurrentPosition /\ start \in Nat /\ Counts
      /\ legitimateEnd => AtEnd
  BY CallUnderWay
<1>2. asked' = Nothing /\ stage' = "idle" /\ status' \in {"open", "failed"}
      /\ (status' = "failed" => start' = start)
  BY <1>1 DEF Succeeds, Breaks, Answered
<1>3. /\ InStep' /\ CurrentPosition' >= CurrentPosition /\ CurrentPosition' \in Int
      /\ AtEnd => AtEnd'
  BY <1>1, ReadPosition
<1>4. CallPlace'
  BY <1>2 DEF CallPlace
<1>5. EndPlace'
  BY <1>1, <1>2, <1>3 DEF EndPlace
<1>6. FailedPlace'
  <2>1. status' = "failed" => start' <= CurrentPosition'
    BY <1>1, <1>2, <1>3 DEF Counts
  <2> QED
    BY <1>3, <2>1 DEF FailedPlace
<1> QED
  BY <1>4, <1>5, <1>6 DEF PlaceInv

-----------------------------------------------------------------------------
(* Each step keeps the place and is a step of the ByteReader, or none.     *)
LEMMA AskStep ==
    ASSUME NEW r \in Requests, IInv, PlaceInv, Ask(r)
    PROVE  PlaceInv' /\ Reader!Next
<1>1. /\ Core /\ ContentOK /\ InStep /\ status = "open" /\ stage = "idle" /\ CallPlace
      /\ EndPlace /\ inputFailed \in BOOLEAN /\ legitimateEnd \in BOOLEAN
  BY DEF IInv, Ask, Idle, PlaceInv, Flags
<1>2. /\ UNCHANGED <<inputVars, flat, bufferVars, limitVars, legitimateEnd, status, nullCalled>>
      /\ asked' = r /\ stage' = r.name /\ need' = r.n /\ start' = CurrentPosition
  BY DEF Ask
<1>3. /\ r.name \in {"bytes", "skip", "varint", "tag", "direct"} /\ r.n \in Int
      /\ r # Nothing
  <2>1. Sizes \subseteq Int
    BY CodedInputAssumption
  <2>2. r.name \in {"bytes", "skip", "varint", "tag", "direct"} /\ r.n \in Int
    <3>1. CASE r \in [name : {"bytes", "skip"}, n : Sizes]
      BY <2>1, <3>1
    <3>2. CASE r \in [name : {"varint", "tag", "direct"}, n : {0}]
      BY <3>2
    <3> QED
      BY <3>1, <3>2 DEF Requests
  <2>3. Nothing.name = "none"
    BY DEF Nothing, Request
  <2> QED
    BY <2>2, <2>3
<1>4. CurrentPosition' = CurrentPosition /\ CurrentPosition \in Int /\ (AtEnd => AtEnd')
  <2>1. CurrentPosition \in Int
    BY <1>1, Sums DEF Counts
  <2> QED
    BY <1>2, <2>1 DEF inputVars, bufferVars, limitVars, CurrentPosition, BufferSize, AtEnd, AtStop
<1>5. asked = Nothing
  BY <1>1 DEF CallPlace
<1>6. PlaceInv'
  <2>1. CallPlace'
    <3>1. r.n <= r.n /\ CurrentPosition + r.n = CurrentPosition + r.n
      BY <1>3
    <3> QED
      BY <1>2, <1>3, <1>4, <3>1 DEF CallPlace
  <2>2. EndPlace'
    BY <1>1, <1>2, <1>3, <1>4 DEF EndPlace
  <2>3. FailedPlace'
    BY <1>1, <1>2 DEF FailedPlace
  <2> QED
    BY <2>1, <2>2, <2>3 DEF PlaceInv
<1>7. Reader!Ask(r)
  <2>1. ReaderPosition = CurrentPosition /\ ReaderPosition' = CurrentPosition
    BY <1>1, <1>2, <1>3, <1>5 DEF ReaderPosition
  <2> QED
    BY <1>1, <1>2, <1>5, <2>1 DEF Reader!Ask, Reader!Nothing, Nothing, Request, inputVars, limitVars
<1>8. r \in Reader!Requests
  BY DEF Reader!Requests, Requests
<1> QED
  BY <1>6, <1>7, <1>8 DEF Reader!Next

LEMMA CreateStep ==
    ASSUME IInv, PlaceInv, Create
    PROVE  PlaceInv' /\ [Reader!Next]_Reader!vars
<1>1. /\ Core /\ ContentOK /\ InStep /\ status = "open" /\ stage = "create" /\ CallPlace
      /\ EndPlace /\ inputFailed \in BOOLEAN /\ legitimateEnd \in BOOLEAN
  BY DEF IInv, CallInv, Create, PlaceInv, Flags
<1>2. /\ UNCHANGED <<flat, limitVars, legitimateEnd, asked, need, start, status>>
      /\ stage' = "idle" /\ (RefreshGets \/ RefreshFails)
  BY DEF Create
<1>3. BufferMoves /\ ReadFrame
  BY <1>2 DEF BufferMoves, ReadFrame
<1>4. asked = Nothing /\ BufferSize = 0 /\ CurrentPosition \in Int
  BY <1>1, Sums DEF CallPlace, Counts
<1>5. /\ content' = content /\ (inputFailed => inputFailed') /\ (AtEnd => AtEnd')
      /\ inputFailed' \in BOOLEAN
  BY <1>1, <1>3, <1>2, ReadPosition, RefreshLeaves
<1>6. CurrentPosition' = CurrentPosition
  BY <1>1, <1>2, <1>4, GetsPosition, FailsPosition
<1>7. PlaceInv'
  <2>1. CallPlace' /\ EndPlace' /\ FailedPlace'
    BY <1>1, <1>2, <1>4, <1>5 DEF CallPlace, EndPlace, FailedPlace
  <2> QED
    BY <2>1 DEF PlaceInv
<1>8. ReaderPosition' = ReaderPosition
  BY <1>1, <1>2, <1>4, <1>6 DEF ReaderPosition
<1>9. CASE inputFailed' = inputFailed
  BY <1>2, <1>5, <1>7, <1>8, <1>9 DEF Reader!vars, limitVars
<1>10. CASE inputFailed' # inputFailed
  <2>1. ~inputFailed /\ inputFailed' = TRUE
    BY <1>1, <1>5, <1>10
  <2>2. Reader!InputFails
    BY <1>2, <1>5, <1>8, <2>1 DEF Reader!InputFails, limitVars
  <2> QED
    BY <1>7, <2>2 DEF Reader!Next
<1> QED
  BY <1>9, <1>10

LEMMA ReadBytesStep ==
    ASSUME IInv, PlaceInv, ReadBytes
    PROVE  PlaceInv' /\ [Reader!Next]_Reader!vars
<1>1. /\ stage = "bytes" /\ AtWork /\ ReadFrame /\ legitimateEnd' = legitimateEnd
  BY DEF ReadBytes, AtWork, Stages
<1>2. /\ Core /\ ContentOK /\ InStep /\ Counts /\ status = "open" /\ asked # Nothing
      /\ start \in Nat /\ start <= CurrentPosition /\ ReaderPosition = start
      /\ legitimateEnd => AtEnd
      /\ UNCHANGED <<flat, limitVars>>
  BY <1>1, CallUnderWay DEF ReadFrame
<1>3. /\ asked \in Requests /\ asked.name = "bytes" /\ asked.n \in Int /\ need \in Int
      /\ start + asked.n = CurrentPosition + need /\ need <= asked.n
  <2>1. CallPlace /\ asked \in Requests /\ need \in Int
    BY <1>2 DEF IInv, CallInv, PlaceInv
  <2>2. asked.name = "bytes"
    BY <1>1, <2>1 DEF CallPlace
  <2>3. asked.n \in Int
    <3>1. asked.n \in Sizes
      BY <2>1, <2>2 DEF Requests
    <3> QED
      BY <3>1, CodedInputAssumption
  <2> QED
    BY <1>1, <2>1, <2>2, <2>3 DEF CallPlace
<1>4. CASE asked.n < 0 /\ Breaks /\ UNCHANGED <<inputVars, bufferVars, nullCalled>>
  <2>1. BufferMoves
    BY <1>4 DEF BufferMoves
  <2>2. PlaceInv'
    BY <1>1, <1>4, <2>1, AnsweredPlace
  <2>3. Reader!CannotRead
    BY <1>3, <1>4 DEF Reader!CannotRead
  <2>4. Reader!Fails
    BY <1>1, <1>4, <2>3, AnswersFail DEF inputVars
  <2> QED
    BY <2>2, <2>4 DEF Reader!Next, Reader!Answer
<1>5. CASE /\ need \in 0..BufferSize
           /\ Advance(need) /\ Succeeds
           /\ UNCHANGED <<inputVars, nullCalled>>
  <2>1. BufferMoves
    BY <1>5 DEF BufferMoves
  <2>2. PlaceInv'
    BY <1>1, <1>5, <2>1, AnsweredPlace
  <2>3. CurrentPosition' = start + asked.n
    BY <1>2, <1>3, <1>5, AdvancePosition
  <2>4. Within(start + asked.n)
    BY <1>2, <1>3, <1>5, InBuffer
  <2>5. Reader!Advances(asked.n)
    BY <1>1, <1>3, <1>5, <2>3, <2>4, AnswersAdvance DEF inputVars
  <2>6. asked.n >= 0
    BY <1>2, <1>3, <1>5 DEF Counts
  <2> QED
    BY <1>3, <2>2, <2>5, <2>6 DEF Reader!Next, Reader!Answer
<1>6. CASE need > BufferSize /\ RefreshGets /\ Goes("bytes", need - BufferSize)
  <2>1. /\ CurrentPosition' = CurrentPosition + BufferSize /\ ~AtEnd
        /\ content' = content /\ inputFailed' = inputFailed
    BY <1>2, <1>6, GetsPosition DEF AtEnd, Counts
  <2>2. UNCHANGED Reader!vars
    BY <1>1, <1>6, <2>1, NothingMoves
  <2>3. /\ asked' = asked /\ start' = start /\ status' = "open" /\ stage' = "bytes"
        /\ need' = need - BufferSize
    BY <1>2, <1>6 DEF Goes
  <2>4. start' + asked'.n = CurrentPosition' + need' /\ need' <= asked'.n
    BY <1>2, <1>3, <2>1, <2>3 DEF Counts
  <2>5. CallPlace'
    BY <1>2, <1>3, <2>3, <2>4 DEF CallPlace
  <2>6. EndPlace' /\ FailedPlace'
    BY <1>1, <1>2, <2>1, <2>3 DEF EndPlace, FailedPlace
  <2> QED
    BY <2>2, <2>5, <2>6 DEF PlaceInv
<1>7. CASE asked.n >= 0 /\ need > BufferSize /\ RefreshFails /\ Breaks
  <2>1. BufferMoves
    BY <1>7 DEF BufferMoves
  <2>2. PlaceInv'
    BY <1>1, <1>7, <2>1, AnsweredPlace
  <2>3. /\ content' = content /\ (inputFailed => inputFailed')
        /\ inputFailed' \/ ~Within(CurrentPosition + BufferSize + 1)
    BY <1>2, <1>7, FailsPosition
  <2>4. Within(start + asked.n) => Within(CurrentPosition + BufferSize + 1)
    BY <1>2, <1>3, <1>7 DEF Within, Counts
  <2>5. Reader!CannotRead
    BY <1>2, <1>3, <2>3, <2>4, BoundIs DEF Reader!CannotRead, Reader!Reads
  <2>6. Reader!Fails
    BY <1>1, <1>7, <2>3, <2>5, AnswersFail
  <2> QED
    BY <2>2, <2>6 DEF Reader!Next, Reader!Answer
<1> QED
  BY <1>4, <1>5, <1>6, <1>7 DEF ReadBytes

(* An integer or a tag read without a look at the end of the buffer.       *)
LEMMA FromArrayStep ==
    ASSUME IInv, PlaceInv, stage \in {"varint", "tag"}, ReadFrame,
           ReadsFromArray, ReadVarintFromArray
    PROVE  PlaceInv' /\ Reader!Next
<1>1. AtWork /\ asked.name \in {"varint", "tag"} /\ start = CurrentPosition
  BY DEF AtWork, Stages, PlaceInv, CallPlace
<1>2. /\ Core /\ ContentOK /\ InStep /\ Counts /\ status = "open"
      /\ start \in Nat /\ ReaderPosition = start
      /\ legitimateEnd => AtEnd
  BY <1>1, CallUnderWay
<1>3. BufferSize > 0 /\ ~legitimateEnd
  <2>1. BufferSize > 0
    BY <1>2 DEF ReadsFromArray, Counts
  <2> QED
    BY <1>2, <2>1 DEF AtEnd, Counts
<1>4. UNCHANGED <<inputVars, legitimateEnd, nullCalled>> /\ BufferMoves
  BY FromArrayMoves DEF ReadVarintFromArray
<1>5. CASE \E k \in 1..MaxVarint : VarintAt(k) /\ Advance(k) /\ Succeeds
  <2>1. PICK k \in 1..MaxVarint : VarintAt(k) /\ Advance(k) /\ Succeeds
    BY <1>5
  <2>2. k \in 0..BufferSize
    BY <1>2, <2>1, VarintInBuffer
  <2>3. CurrentPosition' = start + k /\ Within(start + k)
    BY <1>1, <1>2, <2>1, <2>2, AdvancePosition, InBuffer
  <2>4. Reader!Advances(k)
    BY <1>1, <1>4, <2>1, <2>2, <2>3, AnswersAdvance DEF inputVars
  <2>5. Reader!VarintHere(k)
    BY <1>1, <1>2, <1>3, <2>1, VarintIs DEF Reader!VarintHere, VarintFrom
  <2>6. PlaceInv'
    BY <1>1, <1>4, <2>1, AnsweredPlace
  <2> QED
    BY <1>1, <2>1, <2>4, <2>5, <2>6 DEF Reader!Next, Reader!Answer
<1>6. CASE (\A k \in 1..MaxVarint : ~VarintAt(k)) /\ UNCHANGED bufferVars /\ NoValue(legitimateEnd)
  <2>1. Breaks
    BY <1>3, <1>6 DEF NoValue
  <2>2. PlaceInv'
    BY <1>1, <1>4, <2>1, AnsweredPlace
  <2>3. \A k \in 1..MaxVarint : ~Reader!VarintHere(k)
    BY <1>1, <1>2, <1>3, <1>6, VarintIs DEF Reader!VarintHere, VarintFrom
  <2>4. Reader!CannotRead
    BY <1>1, <2>3 DEF Reader!CannotRead
  <2>5. Reader!Fails
    BY <1>1, <1>4, <2>1, <2>4, AnswersFail DEF inputVars
  <2> QED
    BY <2>2, <2>5 DEF Reader!Next, Reader!Answer
<1> QED
  BY <1>5, <1>6 DEF ReadVarintFromArray

LEMMA ReadVarintStep ==
    ASSUME IInv, PlaceInv, ReadVarint
    PROVE  PlaceInv' /\ [Reader!Next]_Reader!vars
<1>1. stage = "varint" /\ ReadFrame /\ AtWork
  BY DEF ReadVarint, AtWork, Stages
<1>2. CASE ReadsFromArray /\ ReadVarintFromArray
  BY <1>1, <1>2, FromArrayStep
<1>3. CASE Goes("slow", 0) /\ UNCHANGED <<inputVars, bufferVars, legitimateEnd, nullCalled>>
  <2>1. UNCHANGED Reader!vars
    BY <1>1, <1>3, NothingMoves DEF inputVars
  <2>2. /\ asked.name \in {"varint", "tag"} /\ start = CurrentPosition /\ EndPlace
        /\ Counts /\ status = "open" /\ asked # Nothing /\ (legitimateEnd => AtEnd)
    BY <1>1, CallUnderWay DEF PlaceInv, CallPlace
  <2>3. /\ asked' = asked /\ start' = start /\ status' = status /\ stage' = "slow" /\ need' = 0
        /\ content' = content /\ legitimateEnd' = legitimateEnd
    BY <1>3 DEF Goes, inputVars
  <2>4. CurrentPosition' = CurrentPosition /\ (AtEnd => AtEnd')
    BY <1>1, <1>3 DEF inputVars, bufferVars, ReadFrame, limitVars, CurrentPosition, BufferSize,
                      AtEnd, AtStop
  <2>5. CallPlace'
    <3>1. 0 \in 0..MaxVarint /\ start' + 0 = CurrentPosition' /\ 1..0 = {}
      BY <2>2, <2>3, <2>4 DEF Counts
    <3> QED
      BY <2>2, <2>3, <3>1 DEF CallPlace
  <2>6. EndPlace' /\ FailedPlace'
    BY <1>1, <2>2, <2>3, <2>4 DEF EndPlace, FailedPlace
  <2> QED
    BY <2>1, <2>5, <2>6 DEF PlaceInv
<1> QED
  BY <1>2, <1>3 DEF ReadVarint

LEMMA ReadVarintSlowStep ==
    ASSUME IInv, PlaceInv, ReadVarintSlow
    PROVE  PlaceInv' /\ [Reader!Next]_Reader!vars
<1>1. stage = "slow" /\ ReadFrame /\ AtWork /\ legitimateEnd' = legitimateEnd
  BY DEF ReadVarintSlow, AtWork, Stages
<1>2. /\ Core /\ ContentOK /\ InStep /\ Counts /\ status = "open" /\ asked # Nothing
      /\ start \in Nat /\ ReaderPosition = start
      /\ legitimateEnd => AtEnd
      /\ UNCHANGED <<flat, limitVars>>
  BY <1>1, CallUnderWay DEF ReadFrame
<1>3. /\ asked.name \in {"varint", "tag"} /\ need \in 0..MaxVarint /\ need \in Nat
      /\ start + need = CurrentPosition
      /\ \A i \in 1..need : content[start + i]
      /\ legitimateEnd => asked.name = "varint"
  BY <1>1, <1>2 DEF PlaceInv, CallPlace, EndPlace, Counts
<1>4. NoValue(legitimateEnd) => Breaks
  BY <1>3 DEF NoValue
<1>5. ASSUME NEW k \in 1..MaxVarint, Reader!VarintHere(k) PROVE k > need
  <2>1. k \in Nat /\ ~content[start + k]
    BY <1>2, <1>5 DEF Reader!VarintHere, Counts
  <2> QED
    BY <1>3, <2>1
<1>6. ASSUME Breaks, BufferMoves, Reader!CannotRead, content' = content, inputFailed => inputFailed'
      PROVE  PlaceInv' /\ Reader!Next
  <2>1. PlaceInv'
    BY <1>1, <1>6, AnsweredPlace
  <2>2. Reader!Fails
    BY <1>1, <1>6, AnswersFail
  <2> QED
    BY <2>1, <2>2 DEF Reader!Next, Reader!Answer
<1>7. CASE /\ need = MaxVarint /\ NoValue(legitimateEnd)
           /\ UNCHANGED <<inputVars, bufferVars, nullCalled>>
  <2>1. \A k \in 1..MaxVarint : ~Reader!VarintHere(k)
    BY <1>2, <1>5, <1>7 DEF Counts
  <2>2. Reader!CannotRead
    BY <1>3, <2>1 DEF Reader!CannotRead
  <2>3. BufferMoves /\ content' = content /\ inputFailed' = inputFailed
    BY <1>7 DEF BufferMoves, inputVars
  <2> QED
    BY <1>4, <1>6, <1>7, <2>2, <2>3
<1>8. CASE need < MaxVarint /\ BufferSize = 0 /\ RefreshGets /\ Goes("slow", need)
  <2>1. /\ CurrentPosition' = CurrentPosition /\ ~AtEnd
        /\ content' = content /\ inputFailed' = inputFailed
    BY <1>2, <1>8, GetsPosition DEF AtEnd, Counts
  <2>2. UNCHANGED Reader!vars
    BY <1>1, <1>8, <2>1, NothingMoves
  <2>3. /\ asked' = asked /\ start' = start /\ status' = "open" /\ stage' = "slow"
        /\ need' = need
    BY <1>2, <1>8 DEF Goes
  <2>4. CallPlace'
    BY <1>2, <1>3, <2>1, <2>3 DEF CallPlace
  <2>5. EndPlace' /\ FailedPlace'
    BY <1>1, <1>2, <2>1, <2>3 DEF EndPlace, FailedPlace
  <2> QED
    BY <2>2, <2>4, <2>5 DEF PlaceInv
<1>9. CASE need < MaxVarint /\ BufferSize = 0 /\ RefreshFails /\ NoValue(legitimateEnd)
  <2>1. /\ content' = content /\ (inputFailed => inputFailed')
        /\ inputFailed' \/ ~Within(CurrentPosition + 1)
    BY <1>2, <1>9, FailsPosition DEF Counts
  <2>2. ASSUME NEW k \in 1..MaxVarint, Reader!VarintHere(k), Reader!Reads(k)
        PROVE  Within(CurrentPosition + 1)
    <3>1. k > need /\ k \in Nat
      BY <1>2, <1>5, <2>2 DEF Counts
    <3>2. Within(start + k)
      BY <1>2, <2>2, <3>1, BoundIs DEF Reader!Reads
    <3> QED
      BY <1>2, <1>3, <3>1, <3>2 DEF Within, Counts
  <2>3. Reader!CannotRead
    BY <1>3, <2>1, <2>2 DEF Reader!CannotRead
  <2>4. BufferMoves
    BY <1>9 DEF BufferMoves
  <2> QED
    BY <1>4, <1>6, <1>9, <2>1, <2>3, <2>4
<1>10. CASE /\ need < MaxVarint /\ BufferSize # 0
            /\ Advance(1)
            /\ IF GoesOn(buffer) THEN Goes("slow", need + 1) ELSE Succeeds
            /\ UNCHANGED <<inputVars, nullCalled>>
  <2>1. /\ 1 \in 0..BufferSize /\ BufferSize > 0 /\ buffer = CurrentPosition
        /\ need + 1 \in 1..MaxVarint /\ start + (need + 1) = CurrentPosition + 1
    <3>1. BufferSize + afterLimit > 0
      BY <1>2, <1>10 DEF Counts
    <3> QED
      BY <1>2, <1>3, <1>10, <3>1 DEF Counts, Core, BufferInv
  <2>2. CurrentPosition' = start + (need + 1) /\ Within(start + (need + 1)) /\ ~legitimateEnd
    BY <1>2, <1>10, <2>1, AdvancePosition, InBuffer DEF AtEnd, Counts
  <2>3. GoesOn(buffer) <=> content[start + (need + 1)]
    BY <2>1 DEF GoesOn
  <2>4. BufferMoves /\ content' = content /\ inputFailed' = inputFailed
    BY <1>10, <2>1 DEF BufferMoves, inputVars
  <2>5. CASE GoesOn(buffer) /\ Goes("slow", need + 1)
    <3>1. UNCHANGED Reader!vars
      BY <1>1, <2>4, <2>5, NothingMoves
    <3>2. /\ asked' = asked /\ start' = start /\ status' = "open" /\ stage' = "slow"
          /\ need' = need + 1
      BY <1>2, <2>5 DEF Goes
    <3>3. \A i \in 1..(need + 1) : content[start + i]
      BY <1>3, <2>3, <2>5
    <3>4. CallPlace'
      BY <1>2, <1>3, <2>1, <2>2, <2>4, <3>2, <3>3 DEF CallPlace
    <3>5. EndPlace' /\ FailedPlace'
      BY <1>1, <2>2, <3>2 DEF EndPlace, FailedPlace
    <3> QED
      BY <3>1, <3>4, <3>5 DEF PlaceInv
  <2>6. CASE ~GoesOn(buffer) /\ Succeeds
    <3>1. Reader!Advances(need + 1)
      BY <1>1, <2>1, <2>2, <2>4, <2>6, AnswersAdvance
    <3>2. Reader!VarintHere(need + 1)
      <4>1. start + (need + 1) <= Len(content)
        BY <2>2 DEF Within
      <4>2. \A i \in 1..((need + 1) - 1) : content[start + i]
        BY <1>3
      <4>3. ~content[start + (need + 1)]
        BY <2>3, <2>6
      <4> QED
        BY <1>2, <2>1, <4>1, <4>2, <4>3, Zenon DEF Reader!VarintHere
    <3>3. PlaceInv'
      BY <1>1, <2>4, <2>6, AnsweredPlace
    <3> QED
      BY <1>3, <2>1, <3>1, <3>2, <3>3 DEF Reader!Next, Reader!Answer
  <2> QED
    BY <1>10, <2>5, <2>6
<1> QED
  BY <1>7, <1>8, <1>9, <1>10 DEF ReadVarintSlow

(* Without a byte left.                                                    *)
LEMMA NoTagStep ==
    ASSUME IInv, PlaceInv, stage = "tag", ReadFrame, BufferMoves, NoValue(legitimateEnd'),
           CurrentPosition' = start, AtEnd', content' = content, inputFailed => inputFailed',
           legitimateEnd' => start \in {currentLimit, Len(content)} \/ inputFailed',
           ~legitimateEnd' => Reader!CannotRead /\ legitimateEnd' = FALSE
    PROVE  PlaceInv' /\ Reader!Next
<1>1. AtWork /\ asked.name = "tag"
  BY DEF AtWork, Stages, PlaceInv, CallPlace
<1>2. CASE legitimateEnd' /\ Succeeds
  <2>1. PlaceInv'
    BY <1>1, <1>2, AnsweredPlace
  <2>2. Reader!Ends
    BY <1>1, <1>2, AnswersEnd
  <2> QED
    BY <2>1, <2>2 DEF Reader!Next, Reader!Answer
<1>3. CASE ~legitimateEnd' /\ Breaks
  <2>1. PlaceInv'
    BY <1>1, <1>3, AnsweredPlace
  <2>2. Reader!Fails
    BY <1>1, <1>3, AnswersFail
  <2> QED
    BY <2>1, <2>2 DEF Reader!Next, Reader!Answer
<1> QED
  BY <1>1, <1>2, <1>3 DEF NoValue

LEMMA ReadTagAtLimitStep ==
    ASSUME IInv, PlaceInv, ReadTagAtLimit
    PROVE  PlaceInv' /\ Reader!Next
<1>1. /\ stage = "tag" /\ ReadFrame /\ AtLimitForTag /\ legitimateEnd' = TRUE
      /\ NoValue(TRUE) /\ UNCHANGED <<inputVars, bufferVars, nullCalled, currentLimit>>
  BY DEF ReadTagAtLimit, ReadFrame, limitVars
<1>2. /\ Counts /\ start = CurrentPosition /\ BufferMoves
      /\ content' = content /\ inputFailed' = inputFailed
  BY <1>1, CallUnderWay DEF AtWork, Stages, PlaceInv, CallPlace, BufferMoves, inputVars
<1>3. CurrentPosition' = start /\ BufferSize = 0 /\ BufferSize' = 0 /\ AtStop'
  BY <1>1, <1>2 DEF bufferVars, CurrentPosition, BufferSize, AtStop, AtLimitForTag
<1>4. start = currentLimit
  BY <1>1, <1>2, <1>3 DEF AtLimitForTag, Counts
<1> QED
  BY <1>1, <1>2, <1>3, <1>4, NoTagStep DEF AtEnd

LEMMA ReadTagSlowStep ==
    ASSUME IInv, PlaceInv, ReadTagSlow
    PROVE  PlaceInv' /\ [Reader!Next]_Reader!vars
<1>1. /\ stage = "tag" /\ ReadFrame /\ AtWork /\ ~AtLimitForTag
      /\ asked.name = "tag" /\ start = CurrentPosition
  BY DEF ReadTagSlow, AtWork, Stages, PlaceInv, CallPlace
<1>2. /\ Core /\ ContentOK /\ InStep /\ Counts /\ status = "open" /\ asked # Nothing
      /\ start \in Nat /\ ReaderPosition = start
      /\ legitimateEnd => AtEnd
      /\ UNCHANGED <<flat, limitVars>>
  BY <1>1, CallUnderWay DEF ReadFrame
<1>3. CASE /\ BufferSize = 0 /\ RefreshFails
           /\ legitimateEnd' = (totalRead - afterLimit >= totalLimit => currentLimit = totalLimit)
           /\ NoValue(legitimateEnd')
  <2>1. /\ CurrentPosition' = start /\ AtEnd'
        /\ content' = content /\ (inputFailed => inputFailed')
        /\ inputFailed' \/ ~Within(start + 1)
        /\ AtStop \/ inputFailed' \/ start = Len(content)
    BY <1>1, <1>2, <1>3, FailsPosition DEF Counts
  <2>2. BufferMoves /\ legitimateEnd' \in BOOLEAN
    BY <1>3 DEF BufferMoves
  <2>3. ASSUME legitimateEnd' PROVE start \in {currentLimit, Len(content)} \/ inputFailed'
    <3>1. SUFFICES ASSUME AtStop PROVE start \in {currentLimit, Len(content)}
      BY <2>1
    <3>2. totalRead - afterLimit = start /\ start <= totalLimit /\ start <= currentLimit
      BY <1>1, <1>2, <1>3 DEF Counts
    <3>3. CASE start >= totalLimit
      <4>1. currentLimit = totalLimit
        BY <1>3, <2>3, <3>2, <3>3
      <4> QED
        BY <1>2, <3>2, <3>3, <4>1 DEF Counts
    <3>4. CASE ~(start >= totalLimit)
      <4>1. afterLimit = 0 /\ totalRead # currentLimit
        BY <1>1, <1>2, <1>3, <3>2, <3>4 DEF AtLimitForTag, Counts
      <4>2. totalRead = IntMax
        BY <1>2, <3>1, <4>1 DEF AtStop, Counts
      <4> QED
        BY <1>2, <3>2, <3>4, <4>1, <4>2 DEF Counts
    <3> QED
      BY <3>3, <3>4
  <2>4. Reader!CannotRead
    <3>1. ASSUME NEW k \in 1..MaxVarint, Reader!Reads(k) PROVE Within(start + 1)
      <4>1. k \in Nat /\ k >= 1
        BY <1>2 DEF Counts
      <4>2. Within(start + k)
        BY <1>2, <3>1, <4>1, BoundIs DEF Reader!Reads
      <4> QED
        BY <1>2, <4>1, <4>2 DEF Within, Counts
    <3> QED
      BY <1>1, <2>1, <3>1 DEF Reader!CannotRead
  <2> QED
    BY <1>1, <1>3, <2>1, <2>2, <2>3, <2>4, NoTagStep
<1>4. CASE BufferSize = 0 /\ RefreshGets /\ Goes("varint", 0) /\ UNCHANGED legitimateEnd
  <2>1. /\ CurrentPosition' = CurrentPosition /\ ~AtEnd
        /\ content' = content /\ inputFailed' = inputFailed
    BY <1>2, <1>4, GetsPosition DEF AtEnd, Counts
  <2>2. UNCHANGED Reader!vars
    BY <1>1, <1>4, <2>1, NothingMoves
  <2>3. /\ asked' = asked /\ start' = start /\ status' = "open" /\ stage' = "varint"
    BY <1>2, <1>4 DEF Goes
  <2>4. CallPlace' /\ EndPlace' /\ FailedPlace'
    BY <1>1, <1>2, <1>4, <2>1, <2>3 DEF CallPlace, EndPlace, FailedPlace
  <2> QED
    BY <2>2, <2>4 DEF PlaceInv
<1>5. CASE /\ BufferSize > 0 /\ Goes("varint", 0)
           /\ UNCHANGED <<inputVars, bufferVars, legitimateEnd, nullCalled>>
  <2>1. CurrentPosition' = CurrentPosition /\ ~AtEnd /\ ~legitimateEnd
    BY <1>2, <1>5 DEF bufferVars, CurrentPosition, BufferSize, AtEnd, Counts
  <2>2. UNCHANGED Reader!vars
    BY <1>1, <1>5, NothingMoves DEF inputVars
  <2>3. /\ asked' = asked /\ start' = start /\ status' = "open" /\ stage' = "varint"
    BY <1>2, <1>5 DEF Goes
  <2>4. CallPlace' /\ EndPlace' /\ FailedPlace'
    BY <1>1, <1>2, <1>5, <2>1, <2>3 DEF CallPlace, EndPlace, FailedPlace
  <2> QED
    BY <2>2, <2>4 DEF PlaceInv
<1> QED
  BY <1>3, <1>4, <1>5 DEF ReadTagSlow

LEMMA SkipPlace ==
    ASSUME IInv, PlaceInv, stage = "skip"
    PROVE  /\ AtWork /\ asked.name = "skip" /\ asked.n \in Int /\ need = asked.n
           /\ start = CurrentPosition
<1>1. AtWork /\ asked.name = "skip" /\ need = asked.n /\ start = CurrentPosition
  BY DEF AtWork, Stages, PlaceInv, CallPlace
<1>2. need \in Int
  BY DEF IInv, CallInv
<1> QED
  BY <1>1, <1>2

LEMMA SkipInBufferStep ==
    ASSUME IInv, PlaceInv, SkipInBuffer
    PROVE  PlaceInv' /\ Reader!Next
<1>1. /\ stage = "skip" /\ ReadFrame /\ need <= BufferSize
      /\ UNCHANGED <<inputVars, legitimateEnd, nullCalled>>
      /\ content' = content /\ inputFailed' = inputFailed
  BY DEF SkipInBuffer, inputVars
<1>2. /\ AtWork /\ asked.name = "skip" /\ asked.n \in Int /\ need = asked.n
      /\ start = CurrentPosition
      /\ Core /\ ContentOK /\ InStep /\ Counts
  BY <1>1, SkipPlace, CallUnderWay
<1>3. CASE need < 0 /\ Breaks /\ UNCHANGED bufferVars
  <2>1. BufferMoves
    BY <1>1, <1>3 DEF BufferMoves
  <2>2. PlaceInv'
    BY <1>1, <1>2, <1>3, <2>1, AnsweredPlace
  <2>3. Reader!CannotRead
    BY <1>2, <1>3 DEF Reader!CannotRead
  <2>4. Reader!Fails
    BY <1>1, <1>2, <1>3, <2>3, AnswersFail
  <2> QED
    BY <2>2, <2>4 DEF Reader!Next, Reader!Answer
<1>4. CASE need >= 0 /\ Advance(need) /\ Succeeds
  <2>1. need \in 0..BufferSize
    BY <1>1, <1>2, <1>4 DEF Counts
  <2>2. BufferMoves
    BY <1>1, <1>4, <2>1 DEF BufferMoves
  <2>3. PlaceInv'
    BY <1>1, <1>2, <1>4, <2>2, AnsweredPlace
  <2>4. CurrentPosition' = start + need /\ Within(start + need)
    BY <1>2, <1>4, <2>1, AdvancePosition, InBuffer
  <2>5. Reader!Advances(need)
    BY <1>1, <1>2, <1>4, <2>4, AnswersAdvance
  <2> QED
    BY <1>2, <1>4, <2>3, <2>5 DEF Reader!Next, Reader!Answer
<1> QED
  BY <1>3, <1>4 DEF SkipInBuffer

LEMMA SkipToLimitInBufferStep ==
    ASSUME IInv, PlaceInv, SkipToLimitInBuffer
    PROVE  PlaceInv' /\ Reader!Next
<1>1. /\ stage = "skip" /\ ReadFrame /\ need > BufferSize /\ afterLimit > 0
      /\ Advance(BufferSize) /\ Breaks
      /\ UNCHANGED <<inputVars, legitimateEnd, nullCalled>>
      /\ content' = content /\ inputFailed' = inputFailed
  BY DEF SkipToLimitInBuffer, inputVars
<1>2. /\ AtWork /\ asked.name = "skip" /\ asked.n \in Int /\ need = asked.n
      /\ start = CurrentPosition /\ ReaderPosition = start
      /\ Core /\ ContentOK /\ InStep /\ Counts
  BY <1>1, SkipPlace, CallUnderWay
<1>3. BufferMoves
  <2>1. BufferSize \in 0..BufferSize
    BY <1>2 DEF Counts
  <2> QED
    BY <1>1, <2>1 DEF BufferMoves
<1>4. PlaceInv'
  BY <1>1, <1>2, <1>3, AnsweredPlace
<1>5. ~Within(start + need)
  BY <1>1, <1>2 DEF Within, Counts
<1>6. Reader!CannotRead
  <2>1. start + need \in Int
    BY <1>2 DEF Counts
  <2> QED
    BY <1>2, <1>5, <2>1, BoundIs DEF Reader!CannotRead, Reader!Reads
<1>7. Reader!Fails
  BY <1>1, <1>2, <1>6, AnswersFail
<1> QED
  BY <1>4, <1>7 DEF Reader!Next, Reader!Answer

LEMMA SkipBeyondBufferStep ==
    ASSUME IInv, PlaceInv, SkipBeyondBuffer
    PROVE  PlaceInv' /\ Reader!Next
<1> DEFINE rest == need - BufferSize
           untilLimit == ClosestLimit - totalRead
<1>1. /\ stage = "skip" /\ ReadFrame /\ need > BufferSize /\ afterLimit = 0
      /\ buffer' = 0 /\ bufferEnd' = 0 /\ overflow' = overflow /\ afterLimit' = 0
      /\ content' = content /\ legitimateEnd' = legitimateEnd
      /\ flat' = flat /\ UNCHANGED limitVars /\ ClosestLimit' = ClosestLimit
  BY DEF SkipBeyondBuffer, ReadFrame, limitVars, ClosestLimit
<1>2. /\ AtWork /\ asked.name = "skip" /\ asked.n \in Int /\ need = asked.n
      /\ start = CurrentPosition /\ ReaderPosition = start
      /\ Core /\ ContentOK /\ InStep /\ Counts /\ status = "open" /\ asked # Nothing
      /\ legitimateEnd => AtEnd
  BY <1>1, SkipPlace, CallUnderWay
<1>3. \/ /\ untilLimit < rest /\ untilLimit > 0
         /\ totalRead' = ClosestLimit
         /\ (InputSkips(untilLimit) \/ InputSkipsLess(untilLimit))
         /\ Breaks
      \/ /\ untilLimit < rest /\ untilLimit <= 0 /\ Breaks
         /\ UNCHANGED <<given, lastChunk, inputFailed, totalRead, nullCalled>>
      \/ /\ rest <= untilLimit
         /\ totalRead' = totalRead + rest
         /\ \/ InputSkips(rest) /\ Succeeds
            \/ InputSkipsLess(rest) /\ Breaks
  BY DEF SkipBeyondBuffer
<1>4. /\ rest \in Int /\ rest > 0 /\ untilLimit \in Int
      /\ totalRead + untilLimit = ClosestLimit /\ start + need = totalRead + rest
      /\ start <= totalRead /\ start \in Nat /\ start + need \in Int
  BY <1>1, <1>2 DEF Counts
<1> HIDE DEF rest, untilLimit
<1>5. BufferSize' = 0 /\ CurrentPosition' = totalRead'
  <2>1. BufferSize' = 0
    BY <1>1 DEF BufferSize
  <2>2. CurrentPosition' = totalRead' - (0 + 0)
    BY <1>1, <2>1 DEF CurrentPosition
  <2>3. totalRead' \in Int
    BY <1>2, <1>3, <1>4 DEF Counts
  <2>4. \A t \in Int : t - (0 + 0) = t
    OBVIOUS
  <2> QED
    BY <2>1, <2>2, <2>3, <2>4, Zenon
<1>6. ASSUME NEW n \in Int, n > 0, n <= untilLimit, InputSkips(n) \/ InputSkipsLess(n)
      PROVE  /\ ~flat /\ overflow = 0 /\ given = totalRead
             /\ start <= given' /\ given' <= ClosestLimit /\ (inputFailed => inputFailed')
             /\ InputSkipsLess(n) => inputFailed' \/ totalRead + n > Len(content)
  <2>1. ~flat
    <3>1. flat => currentLimit <= totalRead
      BY <1>2 DEF Core, FlatInv
    <3> QED
      BY <1>2, <1>4, <1>6, <3>1 DEF Counts
  <2>2. overflow = 0 /\ given = totalRead
    <3>1. ~(overflow > 0)
      BY <1>2, <1>4, <1>6 DEF Counts
    <3> QED
      BY <1>2, <2>1, <3>1 DEF InStep, Counts
  <2>3. \/ given' = given + n /\ inputFailed' = inputFailed
        \/ given + n > Len(content) /\ given' = Len(content) /\ inputFailed' = inputFailed
        \/ given' = given /\ inputFailed' = TRUE
    BY <1>6, <2>1 DEF InputSkips, InputSkipsLess
  <2>4. start <= given' /\ given' <= ClosestLimit
    BY <1>2, <1>4, <1>6, <2>2, <2>3 DEF Counts
  <2>5. InputSkipsLess(n) => inputFailed' \/ totalRead + n > Len(content)
    BY <2>1, <2>2 DEF InputSkipsLess
  <2> QED
    BY <2>1, <2>2, <2>3, <2>4, <2>5
<1>7. ASSUME Breaks, inputFailed => inputFailed', inputFailed' \/ ~Within(start + need),
             FailedPlace'
      PROVE  PlaceInv' /\ Reader!Next
  <2>1. CallPlace' /\ EndPlace'
    BY <1>7 DEF Breaks, Answered, CallPlace, EndPlace
  <2>2. Reader!CannotRead
    BY <1>2, <1>4, <1>7, BoundIs DEF Reader!CannotRead, Reader!Reads
  <2>3. Reader!Fails
    BY <1>1, <1>2, <1>7, <2>2, AnswersFail
  <2> QED
    BY <1>7, <2>1, <2>3 DEF PlaceInv, Reader!Next, Reader!Answer
<1>8. ASSUME NEW n \in Int, n > 0, n <= untilLimit, InputSkips(n) \/ InputSkipsLess(n), Breaks
      PROVE  FailedPlace'
  <2>1. /\ ~flat' /\ BufferSize' + afterLimit' + overflow' = 0
        /\ start' <= given' /\ given' <= ClosestLimit'
    <3>1. ~flat /\ overflow = 0 /\ start <= given' /\ given' <= ClosestLimit
      BY <1>6, <1>8
    <3>2. start' = start
      BY <1>8 DEF Breaks
    <3>3. BufferSize' + afterLimit' + overflow' = 0
      BY <1>1, <1>5, <3>1
    <3> QED
      BY <1>1, <3>1, <3>2, <3>3
  <2> QED
    BY <2>1 DEF FailedPlace
<1>9. CASE /\ untilLimit < rest /\ untilLimit > 0
           /\ totalRead' = ClosestLimit
           /\ (InputSkips(untilLimit) \/ InputSkipsLess(untilLimit))
           /\ Breaks
  <2>1. ~Within(start + need)
    BY <1>2, <1>4, <1>9 DEF Within, Counts
  <2>2. untilLimit <= untilLimit
    BY <1>4
  <2> QED
    BY <1>4, <1>6, <1>7, <1>8, <1>9, <2>1, <2>2
<1>10. CASE /\ untilLimit < rest /\ untilLimit <= 0 /\ Breaks
            /\ UNCHANGED <<given, lastChunk, inputFailed, totalRead, nullCalled>>
  <2>1. ~Within(start + need)
    BY <1>2, <1>4, <1>10 DEF Within, Counts
  <2>2. InStep' /\ start' <= CurrentPosition'
    BY <1>1, <1>2, <1>4, <1>5, <1>10 DEF InStep, Breaks
  <2>3. FailedPlace' /\ inputFailed' = inputFailed
    BY <1>10, <2>2 DEF FailedPlace
  <2> QED
    BY <1>7, <1>10, <2>1, <2>3
<1>11. CASE rest <= untilLimit /\ totalRead' = totalRead + rest /\ InputSkips(rest) /\ Succeeds
  <2>1. given = totalRead /\ overflow = 0
    BY <1>4, <1>6, <1>11
  <2>2. /\ inputFailed' = inputFailed /\ ~inputFailed /\ given + rest <= Len(content)
    BY <1>11 DEF InputSkips
  <2>3. CurrentPosition' = start + need /\ Within(start + need)
    BY <1>2, <1>4, <1>5, <1>11, <2>1, <2>2 DEF Within, Counts
  <2>4. ~AtEnd
    BY <1>1, <1>2, <1>4, <1>11, <2>1, <2>2 DEF AtEnd, AtStop, Counts
  <2>5. PlaceInv'
    BY <1>1, <1>2, <1>11, <2>4 DEF Succeeds, Answered, PlaceInv, CallPlace, EndPlace, FailedPlace
  <2>6. Reader!Advances(need)
    BY <1>1, <1>2, <1>11, <2>2, <2>3, AnswersAdvance
  <2>7. need >= 0
    BY <1>1, <1>2 DEF Counts
  <2> QED
    BY <1>2, <2>5, <2>6, <2>7 DEF Reader!Next, Reader!Answer
<1>12. CASE rest <= untilLimit /\ totalRead' = totalRead + rest /\ InputSkipsLess(rest) /\ Breaks
  <2>1. /\ inputFailed => inputFailed'
        /\ inputFailed' \/ totalRead + rest > Len(content)
    BY <1>4, <1>6, <1>12
  <2>2. inputFailed' \/ ~Within(start + need)
    BY <1>2, <1>4, <2>1 DEF Within, Counts
  <2> QED
    BY <1>4, <1>7, <1>8, <1>12, <2>1, <2>2
<1> QED
  BY <1>3, <1>9, <1>10, <1>11, <1>12

LEMMA GetDirectBufferPointerStep ==
    ASSUME IInv, PlaceInv, GetDirectBufferPointer
    PROVE  PlaceInv' /\ Reader!Next
<1>1. /\ stage = "direct" /\ ReadFrame /\ AtWork /\ Succeeds /\ legitimateEnd' = legitimateEnd
      /\ asked.name = "direct" /\ start = CurrentPosition
  BY DEF GetDirectBufferPointer, AtWork, Stages, PlaceInv, CallPlace
<1>2. /\ Core /\ ContentOK /\ InStep /\ Counts /\ status = "open" /\ ReaderPosition = start
      /\ UNCHANGED <<flat, limitVars>>
  BY <1>1, CallUnderWay DEF ReadFrame
<1>3. BufferMoves
  BY DEF GetDirectBufferPointer, BufferMoves
<1>4. PlaceInv'
  BY <1>1, <1>3, AnsweredPlace
<1>5. /\ content' = content /\ (inputFailed => inputFailed')
  BY <1>1, <1>2, <1>3, ReadPosition
<1>6. CurrentPosition' = start
  <2>1. CASE UNCHANGED <<inputVars, bufferVars, nullCalled>>
    BY <1>1, <2>1 DEF bufferVars, CurrentPosition, BufferSize
  <2>2. CASE BufferSize = 0 /\ (RefreshGets \/ RefreshFails)
    BY <1>1, <1>2, <2>2, GetsPosition, FailsPosition DEF Counts
  <2> QED
    BY <2>1, <2>2 DEF GetDirectBufferPointer
<1>7. status' = "open" /\ asked' = Nothing
  BY <1>1, <1>2 DEF Succeeds, Answered
<1>8. ReaderPosition' = start
  BY <1>6, <1>7 DEF ReaderPosition
<1>9. Reader!Looks
  BY <1>1, <1>2, <1>5, <1>7, <1>8 DEF Reader!Looks, Reader!Nothing, Nothing, Request, limitVars
<1> QED
  BY <1>4, <1>9 DEF Reader!Next, Reader!Answer

-----------------------------------------------------------------------------
(* An idle reader.                                                         *)
LEMMA IdlePlace ==
    ASSUME IInv, PlaceInv, Idle
    PROVE  /\ Core /\ ContentOK /\ InStep /\ Counts /\ status = "open" /\ asked = Nothing
           /\ stage = "idle" /\ ReaderPosition = CurrentPosition
           /\ Within(CurrentPosition) /\ (legitimateEnd => AtEnd)
<1>1. /\ Core /\ ContentOK /\ InStep /\ status = "open" /\ asked = Nothing /\ stage = "idle"
      /\ legitimateEnd => AtEnd
  BY DEF IInv, Idle, PlaceInv, CallPlace, EndPlace
<1> QED
  BY <1>1, Sums, Here DEF ReaderPosition

LEMMA IdleStays ==
    ASSUME IInv, PlaceInv, Idle, UNCHANGED callVars, legitimateEnd' => AtEnd'
    PROVE  PlaceInv' /\ ReaderPosition' = CurrentPosition'
<1>1. status' = "open" /\ stage' = "idle" /\ asked' = Nothing
  BY IdlePlace DEF callVars
<1> QED
  BY <1>1 DEF PlaceInv, CallPlace, EndPlace, FailedPlace, ReaderPosition

LEMMA ExpectTagStep ==
    ASSUME IInv, PlaceInv, ExpectTag
    PROVE  PlaceInv' /\ Reader!Next
<1>1. /\ Idle /\ UNCHANGED <<content, inputFailed, currentLimit, totalLimit, oldLimits>>
      /\ UNCHANGED <<legitimateEnd, asked, status, callVars>>
  BY DEF ExpectTag, ReadFrame, inputVars, limitVars, callVars
<1>2. /\ Core /\ ContentOK /\ InStep /\ Counts /\ status = "open" /\ asked = Nothing
      /\ ReaderPosition = CurrentPosition /\ (legitimateEnd => AtEnd)
  BY <1>1, IdlePlace
<1>3. PICK k \in 1..2 : BufferSize >= k /\ VarintAt(k) /\ Advance(k)
  BY DEF ExpectTag
<1>4. k \in 0..BufferSize /\ k \in 1..MaxVarint /\ BufferSize > 0 /\ k \in Int
  BY <1>2, <1>3 DEF Counts, VarintAt
<1>5. CurrentPosition' = CurrentPosition + k /\ Within(CurrentPosition + k)
  BY <1>2, <1>3, <1>4, AdvancePosition, InBuffer
<1>6. PlaceInv' /\ ReaderPosition' = CurrentPosition + k
  BY <1>1, <1>2, <1>4, <1>5, IdleStays DEF AtEnd
<1>7. Reader!VarintHere(k)
  BY <1>2, <1>3, <1>4, VarintIs DEF Reader!VarintHere, VarintFrom
<1>8. Reader!Advances(k)
  <2>1. Reader!Reads(k)
    BY <1>2, <1>4, <1>5, BoundIs DEF Reader!Reads, Counts
  <2> QED
    BY <1>1, <1>2, <1>6, <2>1 DEF Reader!Advances, Reader!Nothing, Nothing, Request
<1>9. Reader!Expect
  BY <1>2, <1>3, <1>7, <1>8 DEF Reader!Expect, Reader!Nothing, Nothing, Request
<1> QED
  BY <1>6, <1>9 DEF Reader!Next

LEMMA ExpectAtEndStep ==
    ASSUME IInv, PlaceInv, ExpectAtEnd
    PROVE  PlaceInv' /\ Reader!Next
<1>1. /\ Idle /\ buffer = bufferEnd /\ (afterLimit # 0 \/ totalRead = currentLimit)
      /\ legitimateEnd' = TRUE /\ UNCHANGED <<inputVars, bufferVars, limitVars, callVars>>
      /\ UNCHANGED <<content, inputFailed, asked, status, currentLimit, totalLimit, oldLimits>>
  BY DEF ExpectAtEnd, ReadFrame, inputVars, limitVars, callVars
<1>2. /\ Counts /\ status = "open" /\ asked = Nothing /\ ReaderPosition = CurrentPosition
  BY <1>1, IdlePlace
<1>3. BufferSize = 0 /\ CurrentPosition \in {currentLimit, totalLimit}
  <2>1. BufferSize = 0
    BY <1>1, <1>2 DEF Counts
  <2> QED
    BY <1>1, <1>2, <2>1 DEF Counts
<1>4. CurrentPosition' = CurrentPosition /\ AtEnd'
  <2>1. AtStop
    BY <1>1, <1>2 DEF AtStop, Counts
  <2> QED
    BY <1>1, <1>3, <2>1 DEF bufferVars, CurrentPosition, BufferSize, AtEnd, AtStop
<1>5. PlaceInv' /\ ReaderPosition' = ReaderPosition
  BY <1>1, <1>2, <1>4, IdleStays
<1>6. Reader!ExpectEnd
  BY <1>1, <1>2, <1>3, <1>5 DEF Reader!ExpectEnd, Reader!Nothing, Nothing, Request
<1> QED
  BY <1>5, <1>6 DEF Reader!Next

(* A limit that moves does not move the reader.                            *)
LEMMA LimitPosition ==
    ASSUME Counts, NEW current \in Int, NEW total \in Int,
           RecomputeBufferLimits(bufferEnd + afterLimit, totalRead, current, total),
           buffer' = buffer, totalRead' = totalRead
    PROVE  /\ CurrentPosition' = CurrentPosition
           /\ BufferSize' + afterLimit' = BufferSize + afterLimit /\ BufferSize' \in Int
           /\ \/ /\ Smaller(current, total) < totalRead
                 /\ afterLimit' = totalRead - Smaller(current, total)
              \/ ~(Smaller(current, total) < totalRead) /\ afterLimit' = 0
<1> DEFINE near == Smaller(current, total)
<1>1. \/ /\ near < totalRead /\ afterLimit' = totalRead - near
         /\ bufferEnd' = (bufferEnd + afterLimit) - (totalRead - near)
      \/ ~(near < totalRead) /\ afterLimit' = 0 /\ bufferEnd' = bufferEnd + afterLimit
  BY Zenon DEF RecomputeBufferLimits
<1>2. near \in Int
  BY DEF Smaller
<1> HIDE DEF near
<1>3. bufferEnd' + afterLimit' = bufferEnd + afterLimit /\ bufferEnd' \in Int /\ afterLimit' \in Int
  BY <1>1, <1>2 DEF Counts
<1>4. BufferSize' + afterLimit' = BufferSize + afterLimit /\ BufferSize' \in Int
  <2>1. /\ buffer \in Nat /\ bufferEnd \in Nat /\ afterLimit \in Nat
        /\ BufferSize = bufferEnd - buffer
    BY DEF Counts
  <2>2. BufferSize' = bufferEnd' - buffer
    BY DEF BufferSize
  <2>3. (bufferEnd' - buffer) + afterLimit' = (bufferEnd - buffer) + afterLimit
        /\ bufferEnd' - buffer \in Int
    <3>1. totalRead \in Nat
      BY DEF Counts
    <3>2. CASE near < totalRead
      BY <1>1, <1>2, <2>1, <3>1, <3>2
    <3>3. CASE ~(near < totalRead)
      BY <1>1, <1>2, <2>1, <3>1, <3>3
    <3> QED
      BY <3>2, <3>3
  <2> QED
    BY <2>1, <2>2, <2>3, Zenon
<1>5. CurrentPosition' = CurrentPosition
  BY <1>4 DEF CurrentPosition
<1> QED
  BY <1>1, <1>4, <1>5 DEF near

LEMMA PushLimitStep ==
    ASSUME NEW n \in Sizes, IInv, PlaceInv, PushLimit(n)
    PROVE  PlaceInv' /\ Reader!Next
<1> DEFINE asks == n >= 0 /\ n <= IntMax - CurrentPosition
           new == Smaller(currentLimit, IF asks THEN CurrentPosition + n ELSE IntMax)
<1>1. /\ Idle /\ oldLimits' = Append(oldLimits, currentLimit) /\ currentLimit' = new
      /\ RecomputeBufferLimits(bufferEnd + afterLimit, totalRead, new, totalLimit)
      /\ UNCHANGED <<inputVars, flat, buffer, totalRead, overflow, totalLimit, legitimateEnd>>
      /\ UNCHANGED <<content, given, inputFailed, asked, status, callVars>>
  BY DEF PushLimit, inputVars, callVars
<1>2. /\ Counts /\ status = "open" /\ asked = Nothing /\ ReaderPosition = CurrentPosition
      /\ legitimateEnd => AtEnd
  BY <1>1, IdlePlace
<1>3. n \in Int
  BY CodedInputAssumption
<1>4. /\ new \in Int /\ CurrentPosition <= new /\ new <= currentLimit
      /\ new = IF n >= 0 /\ CurrentPosition + n <= IntMax
                 THEN Smaller(currentLimit, CurrentPosition + n) ELSE currentLimit
  BY <1>2, <1>3 DEF Smaller, Counts
<1>5. Smaller(currentLimit, CurrentPosition + n)
        = Reader!Least({currentLimit, CurrentPosition + n})
  <2>1. /\ Smaller(currentLimit, CurrentPosition + n) \in {currentLimit, CurrentPosition + n}
        /\ \A y \in {currentLimit, CurrentPosition + n} :
             Smaller(currentLimit, CurrentPosition + n) <= y
        /\ \A y \in {currentLimit, CurrentPosition + n} : y \in Int
    BY <1>2, <1>3 DEF Smaller, Counts
  <2>2. Reader!Least({currentLimit, CurrentPosition + n})
          = CHOOSE x \in {currentLimit, CurrentPosition + n} :
              \A y \in {currentLimit, CurrentPosition + n} : x <= y
    BY DEF Reader!Least
  <2>3. /\ Reader!Least({currentLimit, CurrentPosition + n}) \in {currentLimit, CurrentPosition + n}
        /\ \A y \in {currentLimit, CurrentPosition + n} :
             Reader!Least({currentLimit, CurrentPosition + n}) <= y
    BY <2>1, <2>2
  <2> QED
    BY <2>1, <2>3
<1> HIDE DEF new
<1>6. totalLimit \in Int
  BY <1>2 DEF Counts
<1>7. /\ CurrentPosition' = CurrentPosition
      /\ BufferSize' + afterLimit' = BufferSize + afterLimit /\ BufferSize' \in Int
      /\ \/ Smaller(new, totalLimit) < totalRead /\ afterLimit' = totalRead - Smaller(new, totalLimit)
         \/ ~(Smaller(new, totalLimit) < totalRead) /\ afterLimit' = 0
  BY <1>1, <1>2, <1>4, <1>6, LimitPosition
<1>8. ASSUME AtEnd PROVE AtEnd'
  <2>1. BufferSize = 0
    BY <1>8 DEF AtEnd
  <2>2. afterLimit' = afterLimit
    BY <1>2, <1>4, <1>6, <1>7, <2>1 DEF Counts, Smaller
  <2>3. BufferSize' = 0
    <3>1. afterLimit \in Nat /\ BufferSize' \in Int /\ BufferSize' + afterLimit = 0 + afterLimit
      BY <1>2, <1>7, <2>1, <2>2, Zenon DEF Counts
    <3>2. \A x \in Int, y \in Nat : x + y = 0 + y => x = 0
      OBVIOUS
    <3> QED
      BY <3>1, <3>2, Zenon
  <2>4. AtStop => AtStop'
    BY <1>1, <1>2, <1>4, <2>1, <2>2 DEF AtStop, Counts
  <2> QED
    BY <1>1, <1>8, <2>3, <2>4 DEF AtEnd
<1>9. PlaceInv' /\ ReaderPosition' = ReaderPosition
  BY <1>1, <1>2, <1>7, <1>8, IdleStays
<1>10. Reader!Push(n)
  <2>1. currentLimit' = IF n >= 0 /\ ReaderPosition + n <= IntMax
                          THEN Reader!Least({currentLimit, ReaderPosition + n}) ELSE currentLimit
    BY <1>1, <1>2, <1>4, <1>5
  <2> QED
    BY <1>1, <1>2, <1>9, <2>1 DEF Reader!Push, Reader!Nothing, Nothing, Request
<1> QED
  BY <1>9, <1>10 DEF Reader!Next

LEMMA PopLimitStep ==
    ASSUME IInv, PlaceInv, PopLimit
    PROVE  PlaceInv' /\ Reader!Next
<1> DEFINE old == oldLimits[Len(oldLimits)]
<1>1. /\ Idle /\ oldLimits # <<>> /\ currentLimit' = old /\ legitimateEnd' = FALSE
      /\ oldLimits' = SubSeq(oldLimits, 1, Len(oldLimits) - 1)
      /\ RecomputeBufferLimits(bufferEnd + afterLimit, totalRead, old, totalLimit)
      /\ UNCHANGED <<content, inputFailed, asked, status, callVars, totalLimit, buffer, totalRead>>
  BY DEF PopLimit, inputVars, callVars
<1>2. /\ Counts /\ status = "open" /\ asked = Nothing /\ ReaderPosition = CurrentPosition
  BY <1>1, IdlePlace
<1>3. old \in Int /\ totalLimit \in Int
  <2>1. oldLimits \in Seq(0..IntMax)
    BY DEF IInv, LimitsInv
  <2>2. old \in 0..IntMax
    BY <1>1, <2>1, LastOf
  <2> QED
    BY <1>2, <2>2 DEF Counts
<1> HIDE DEF old
<1>4. CurrentPosition' = CurrentPosition
  BY <1>1, <1>2, <1>3, LimitPosition
<1>5. PlaceInv' /\ ReaderPosition' = ReaderPosition
  BY <1>1, <1>2, <1>4, IdleStays
<1>6. Reader!Pop
  BY <1>1, <1>2, <1>5 DEF old, Reader!Pop, Reader!Nothing, Nothing, Request
<1> QED
  BY <1>5, <1>6 DEF Reader!Next

LEMMA SetTotalBytesLimitStep ==
    ASSUME NEW n \in Sizes, IInv, PlaceInv, SetTotalBytesLimit(n)
    PROVE  PlaceInv' /\ Reader!Next
<1> DEFINE new == Larger(CurrentPosition, n)
<1>1. /\ Idle /\ ~legitimateEnd /\ totalLimit' = new /\ legitimateEnd' = legitimateEnd
      /\ RecomputeBufferLimits(bufferEnd + afterLimit, totalRead, currentLimit, new)
      /\ UNCHANGED <<content, inputFailed, asked, status, callVars>>
      /\ UNCHANGED <<currentLimit, oldLimits, buffer, totalRead>>
  BY DEF SetTotalBytesLimit, inputVars, callVars
<1>2. /\ Counts /\ status = "open" /\ asked = Nothing /\ ReaderPosition = CurrentPosition
  BY <1>1, IdlePlace
<1>3. /\ n \in Int /\ new \in Int /\ currentLimit \in Int
      /\ new = IF n >= CurrentPosition THEN n ELSE CurrentPosition
  BY <1>2, CodedInputAssumption DEF Larger, Counts
<1> HIDE DEF new
<1>4. CurrentPosition' = CurrentPosition
  BY <1>1, <1>2, <1>3, LimitPosition
<1>5. PlaceInv' /\ ReaderPosition' = ReaderPosition
  BY <1>1, <1>2, <1>4, IdleStays
<1>6. Reader!SetTotal(n)
  BY <1>1, <1>2, <1>3, <1>5 DEF Reader!SetTotal, Reader!Nothing, Nothing, Request
<1> QED
  BY <1>5, <1>6 DEF Reader!Next

LEMMA DestroyStep ==
    ASSUME IInv, PlaceInv, Destroy
    PROVE  PlaceInv' /\ Reader!Next
<1> DEFINE aside == BufferSize + afterLimit
<1>1. /\ stage = "idle" /\ status # "closed" /\ status' = "closed" /\ asked' = asked
      /\ stage' = stage /\ flat' = flat
      /\ UNCHANGED <<limitVars, legitimateEnd, content, inputFailed>>
      /\ IF flat \/ aside + overflow <= 0
           THEN UNCHANGED <<inputVars, bufferVars>>
           ELSE given' = given - (aside + overflow)
  BY DEF Destroy, inputVars
<1>2. /\ Core /\ ContentOK /\ Counts /\ CallPlace /\ FailedPlace /\ asked = Nothing
      /\ status \in {"open", "failed"} /\ (status = "open" => InStep) /\ start \in Nat
      /\ flat \in BOOLEAN
  BY <1>1, Sums, Constants DEF IInv, CallInv, PlaceInv, CallPlace, Flags
<1>3. ReaderPosition = IF status = "failed" THEN start ELSE CurrentPosition
  BY <1>1, <1>2 DEF ReaderPosition
<1>4. ReaderPosition' = IF flat THEN CurrentPosition' ELSE given'
  BY <1>1, <1>2 DEF ReaderPosition
<1>5. aside \in Nat /\ overflow \in Nat /\ given \in Nat /\ CurrentPosition \in Nat
      /\ CurrentPosition + aside = totalRead /\ totalRead \in Nat
  BY <1>2 DEF Counts
<1>6. UNCHANGED <<inputVars, bufferVars>> => given' = given /\ CurrentPosition' = CurrentPosition
  BY DEF inputVars, bufferVars, CurrentPosition, BufferSize
<1> HIDE DEF aside
<1>7. InStep => ReaderPosition' = CurrentPosition
  <2> SUFFICES ASSUME InStep PROVE ReaderPosition' = CurrentPosition
    OBVIOUS
  <2>1. CASE flat
    BY <1>1, <1>4, <1>6, <2>1
  <2>2. CASE ~flat
    <3>1. given = totalRead + overflow
      BY <2>2 DEF InStep
    <3>2. CASE aside + overflow <= 0
      BY <1>1, <1>4, <1>5, <1>6, <2>2, <3>1, <3>2
    <3>3. CASE ~(aside + overflow <= 0)
      BY <1>1, <1>4, <1>5, <2>2, <3>1, <3>3
    <3> QED
      BY <3>2, <3>3
  <2> QED
    BY <2>1, <2>2
<1>8. /\ status = "open" => ReaderPosition' = ReaderPosition
      /\ ReaderPosition' \in ReaderPosition..Reader!Bound
  <2>1. CASE InStep /\ (status = "open" \/ start <= CurrentPosition)
    <3>1. Within(CurrentPosition)
      BY <1>2, <2>1, Here
    <3>2. CurrentPosition <= Reader!Bound /\ Reader!Bound \in Nat
      BY <1>2, <1>5, <3>1, BoundIs
    <3> QED
      BY <1>2, <1>3, <1>5, <1>7, <2>1, <3>2
  <2>2. CASE /\ status = "failed" /\ ~flat /\ BufferSize + afterLimit + overflow = 0
             /\ start <= given /\ given <= ClosestLimit
    <3>1. given' = given
      BY <1>1, <1>6, <2>2 DEF aside
    <3>2. Within(given)
      BY <1>2, <2>2 DEF Within, Counts
    <3>3. given <= Reader!Bound /\ Reader!Bound \in Nat
      BY <1>2, <1>5, <3>2, BoundIs
    <3> QED
      BY <1>2, <1>3, <1>4, <1>5, <2>2, <3>1, <3>3
  <2> QED
    BY <1>2, <2>1, <2>2 DEF FailedPlace
<1>9. PlaceInv'
  BY <1>1, <1>2 DEF PlaceInv, CallPlace, EndPlace, FailedPlace
<1>10. Reader!Close
  BY <1>1, <1>2, <1>8 DEF Reader!Close, Reader!Nothing, Nothing, Request, limitVars
<1> QED
  BY <1>9, <1>10 DEF Reader!Next

-----------------------------------------------------------------------------
LEMMA StartsAsReader == MaxFlat <= DefaultTotal /\ Init => PlaceInv /\ Reader!Init
<1> SUFFICES ASSUME MaxFlat <= DefaultTotal, Init PROVE PlaceInv /\ Reader!Init
  OBVIOUS
<1>1. Len(content) \in Nat /\ content \in Contents
  BY Constants DEF Init, ContentOK
<1>2. /\ buffer = 0 /\ afterLimit = 0 /\ bufferEnd = totalRead /\ totalRead \in Nat
      /\ asked = Nothing /\ status = "open" /\ legitimateEnd = FALSE
      /\ currentLimit \in {IntMax, Len(content)}
      /\ stage = "idle" \/ (stage = "create" /\ bufferEnd = 0)
  BY <1>1 DEF Init
<1>3. BufferSize = totalRead /\ CurrentPosition = 0
  <2>1. BufferSize = totalRead
    BY <1>2 DEF BufferSize
  <2>2. CurrentPosition = totalRead - (totalRead + 0)
    BY <1>2, <2>1 DEF CurrentPosition
  <2> QED
    BY <1>2, <2>1, <2>2
<1>4. ReaderPosition = 0
  BY <1>2, <1>3 DEF ReaderPosition
<1>5. PlaceInv
  BY <1>2, <1>3 DEF PlaceInv, CallPlace, EndPlace, FailedPlace
<1>6. Reader!Init
  BY <1>1, <1>2, <1>4 DEF Init, Reader!Init, Reader!Nothing, Nothing, Request
<1> QED
  BY <1>5, <1>6

LEMMA StepsAsReader ==
    IInv /\ PlaceInv /\ [Next]_vars => PlaceInv' /\ [Reader!Next]_Reader!vars
<1> SUFFICES ASSUME IInv, PlaceInv, [Next]_vars
             PROVE  PlaceInv' /\ [Reader!Next]_Reader!vars
  OBVIOUS
<1>1. CASE UNCHANGED vars
  <2>1. /\ UNCHANGED <<content, given, inputFailed, flat, buffer, bufferEnd, totalRead, overflow>>
        /\ UNCHANGED <<afterLimit, currentLimit, totalLimit, oldLimits, legitimateEnd>>
        /\ UNCHANGED <<asked, stage, need, start, status>>
    BY <1>1 DEF vars, inputVars, bufferVars, limitVars, callVars
  <2>2. /\ BufferSize' = BufferSize /\ CurrentPosition' = CurrentPosition
        /\ ClosestLimit' = ClosestLimit /\ (AtEnd' <=> AtEnd) /\ (InStep' <=> InStep)
    BY <2>1 DEF BufferSize, CurrentPosition, ClosestLimit, AtEnd, AtStop, InStep
  <2>3. PlaceInv'
    BY <2>1, <2>2 DEF PlaceInv, CallPlace, EndPlace, FailedPlace
  <2>4. ReaderPosition' = ReaderPosition
    BY <2>1, <2>2 DEF ReaderPosition
  <2> QED
    BY <2>1, <2>3, <2>4 DEF Reader!vars
<1>2. CASE \E r \in Requests : Ask(r)
  BY <1>2, AskStep
<1>3. ASSUME ReadTag PROVE PlaceInv' /\ Reader!Next
  BY <1>3, FromArrayStep DEF ReadTag
<1>4. CASE ReadStep
  BY <1>3, <1>4, CreateStep, ReadBytesStep, ReadVarintStep, ReadVarintSlowStep,
     ReadTagAtLimitStep, ReadTagSlowStep, SkipInBufferStep, SkipToLimitInBufferStep,
     SkipBeyondBufferStep, GetDirectBufferPointerStep DEF ReadStep
<1>5. CASE ExpectTag \/ ExpectAtEnd \/ PopLimit \/ Destroy
  BY <1>5, ExpectTagStep, ExpectAtEndStep, PopLimitStep, DestroyStep
<1>6. CASE \E n \in Sizes : PushLimit(n)
  BY <1>6, PushLimitStep
<1>7. CASE \E n \in Sizes : SetTotalBytesLimit(n)
  BY <1>7, SetTotalBytesLimitStep
<1> QED
  BY <1>1, <1>2, <1>4, <1>5, <1>6, <1>7 DEF Next

(* The reader implements ByteReader: whatever buffers the bytes arrive in, *)
(* a read that succeeds moves past exactly its bytes and past no limit, a  *)
(* read fails only for bytes that are not there, and the end of a message  *)
(* is announced only where one may end.                                    *)
THEOREM ImplementsByteReader == MaxFlat <= DefaultTotal /\ Spec => ReadsAsPromised
<1>1. MaxFlat <= DefaultTotal /\ Init => PlaceInv /\ Reader!Init
  BY StartsAsReader
<1>2. IInv /\ PlaceInv /\ [Next]_vars => PlaceInv' /\ [Reader!Next]_Reader!vars
  BY StepsAsReader
<1> QED
  BY <1>1, <1>2, Invariant, PTL DEF Spec, ReadsAsPromised, Reader!Spec
=============================================================================
