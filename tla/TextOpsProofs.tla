--------------------------- MODULE TextOpsProofs ---------------------------
(***************************************************************************)
(* What the string operations return, for every text and every place.      *)
(***************************************************************************)
EXTENDS TextOps, SequenceTheorems, TLAPS

\* substringToIndex: within the text: its first n units.
LEMMA TakeProperties ==
    ASSUME NEW S, NEW s \in Seq(S), NEW n \in 0..Len(s)
    PROVE  /\ Take(s, n) \in Seq(S)
           /\ Len(Take(s, n)) = n
           /\ \A i \in 1..n : Take(s, n)[i] = s[i]
<1>1. \A i \in 1..n : s[i] \in S
  BY ElementOfSeq
<1>2. n \in Int /\ 1 \in Int
  BY LenProperties
<1> QED BY <1>1, <1>2, SubSeqProperties DEF Take

\* substringFromIndex: within the text: all but its first n units.
LEMMA DropProperties ==
    ASSUME NEW S, NEW s \in Seq(S), NEW n \in 0..Len(s)
    PROVE  /\ Drop(s, n) \in Seq(S)
           /\ Len(Drop(s, n)) = Len(s) - n
           /\ \A i \in 1..Len(s) - n : Drop(s, n)[i] = s[n + i]
<1>0. Len(s) \in Nat /\ n \in Nat
  BY LenProperties
<1>1. \A i \in n + 1..Len(s) : s[i] \in S
  BY <1>0, ElementOfSeq
<1>2. n + 1 \in Int /\ Len(s) \in Int
  BY <1>0
<1>3. /\ SubSeq(s, n + 1, Len(s)) \in Seq(S)
      /\ Len(SubSeq(s, n + 1, Len(s))) = IF n + 1 <= Len(s) THEN Len(s) - (n + 1) + 1 ELSE 0
      /\ \A i \in 1..Len(s) - (n + 1) + 1 :
            SubSeq(s, n + 1, Len(s))[i] = s[(n + 1) + i - 1]
  BY <1>1, <1>2, SubSeqProperties
<1>4. Len(SubSeq(s, n + 1, Len(s))) = Len(s) - n
  BY <1>0, <1>3
<1>5. \A i \in 1..Len(s) - n : SubSeq(s, n + 1, Len(s))[i] = s[n + i]
  <2> TAKE i \in 1..Len(s) - n
  <2>1. i \in 1..Len(s) - (n + 1) + 1 /\ (n + 1) + i - 1 = n + i
    BY <1>0
  <2> QED BY <2>1, <1>3
<1> QED BY <1>3, <1>4, <1>5 DEF Drop

\* Three texts in a row.
LEMMA ThreeParts ==
    ASSUME NEW S, NEW a \in Seq(S), NEW b \in Seq(S), NEW c \in Seq(S)
    PROVE  /\ a \o b \o c \in Seq(S)
           /\ Len(a \o b \o c) = Len(a) + Len(b) + Len(c)
<1> DEFINE ab == a \o b
<1>1. ab \in Seq(S) /\ Len(ab) = Len(a) + Len(b)
  BY ConcatProperties
<1>2. ab \in Seq(S)
  BY <1>1
<1>3. a \o b \o c = ab \o c
  OBVIOUS
<1> HIDE DEF ab
<1>4. ab \o c \in Seq(S) /\ Len(ab \o c) = Len(ab) + Len(c)
  BY <1>2, ConcatProperties
<1> QED BY <1>1, <1>3, <1>4

\* The units of three texts in a row.
LEMMA ThreePartsUnit ==
    ASSUME NEW S, NEW a \in Seq(S), NEW b \in Seq(S), NEW c \in Seq(S),
           NEW i \in 1..Len(a) + Len(b) + Len(c)
    PROVE  (a \o b \o c)[i] = IF i <= Len(a) THEN a[i]
                              ELSE IF i <= Len(a) + Len(b) THEN b[i - Len(a)]
                              ELSE c[i - (Len(a) + Len(b))]
<1>1. Len(a) \in Nat /\ Len(b) \in Nat /\ Len(c) \in Nat /\ i \in Nat
  BY LenProperties
<1> DEFINE ab == a \o b
<1>2. ab \in Seq(S) /\ Len(ab) = Len(a) + Len(b)
  BY ConcatProperties
<1>3. \A j \in 1..Len(a) + Len(b) : ab[j] = IF j <= Len(a) THEN a[j] ELSE b[j - Len(a)]
  BY ConcatProperties
<1>4. a \o b \o c = ab \o c
  OBVIOUS
<1> HIDE DEF ab
<1>5. ab \in Seq(S)
  BY <1>2
<1>6. \A j \in 1..Len(ab) + Len(c) :
         (ab \o c)[j] = IF j <= Len(ab) THEN ab[j] ELSE c[j - Len(ab)]
  BY <1>5, ConcatProperties
<1>7. i \in 1..Len(ab) + Len(c)
  BY <1>1, <1>2
<1>8. (ab \o c)[i] = IF i <= Len(ab) THEN ab[i] ELSE c[i - Len(ab)]
  BY <1>6, <1>7
<1>9. CASE i <= Len(a) + Len(b)
  <2>1. i \in 1..Len(a) + Len(b)
    BY <1>1, <1>9
  <2>2. ab[i] = IF i <= Len(a) THEN a[i] ELSE b[i - Len(a)]
    BY <1>3, <2>1
  <2> QED BY <1>2, <1>4, <1>8, <1>9, <2>2
<1>10. CASE ~(i <= Len(a) + Len(b))
  <2>1. ~(i <= Len(a))
    BY <1>1, <1>10
  <2> QED BY <1>2, <1>4, <1>8, <1>10, <2>1
<1> QED BY <1>9, <1>10

\* An edit of the text view (and every insertion and deletion within the
\* text) yields a text.
THEOREM SpliceType ==
    ASSUME NEW S, NEW s \in Seq(S), NEW w \in Seq(S),
           NEW p \in Nat, NEW m \in Nat, p + m <= Len(s)
    PROVE  /\ Splice(s, p, m, w) \in Seq(S)
           /\ Len(Splice(s, p, m, w)) = Len(s) - m + Len(w)
<1>0. Len(s) \in Nat /\ Len(w) \in Nat
  BY LenProperties
<1>1. p \in 0..Len(s) /\ p + m \in 0..Len(s)
  BY <1>0
<1> DEFINE a == Take(s, p)
           c == Drop(s, p + m)
<1>2. a \in Seq(S) /\ Len(a) = p
  BY <1>1, TakeProperties, Zenon
<1>3. c \in Seq(S) /\ Len(c) = Len(s) - (p + m)
  BY <1>1, DropProperties, Zenon
<1>4. Splice(s, p, m, w) = a \o w \o c
  BY DEF Splice
<1> HIDE DEF a, c
<1>5. a \o w \o c \in Seq(S) /\ Len(a \o w \o c) = Len(a) + Len(w) + Len(c)
  <2>1. a \in Seq(S) /\ c \in Seq(S)
    BY <1>2, <1>3
  <2> QED BY <2>1, ThreeParts
<1>6. Len(a) + Len(w) + Len(c) = Len(s) - m + Len(w)
  BY <1>0, <1>2, <1>3
<1> QED BY <1>4, <1>5, <1>6

\* Its units: what stood before, what was put in, what stood behind.
THEOREM SpliceUnit ==
    ASSUME NEW S, NEW s \in Seq(S), NEW w \in Seq(S),
           NEW p \in Nat, NEW m \in Nat, p + m <= Len(s),
           NEW i \in 1..Len(s) - m + Len(w)
    PROVE  Splice(s, p, m, w)[i] = IF i <= p THEN s[i]
                                   ELSE IF i <= p + Len(w) THEN w[i - p]
                                   ELSE s[i - Len(w) + m]
<1>0. Len(s) \in Nat /\ Len(w) \in Nat /\ i \in Nat
  BY LenProperties
<1>1. p \in 0..Len(s) /\ p + m \in 0..Len(s)
  BY <1>0
<1> DEFINE a == Take(s, p)
           c == Drop(s, p + m)
<1>2. a \in Seq(S) /\ Len(a) = p /\ \A j \in 1..p : a[j] = s[j]
  BY <1>1, TakeProperties, Zenon
<1>3. /\ c \in Seq(S) /\ Len(c) = Len(s) - (p + m)
      /\ \A j \in 1..Len(s) - (p + m) : c[j] = s[(p + m) + j]
  BY <1>1, DropProperties, Zenon
<1>4. Splice(s, p, m, w) = a \o w \o c
  BY DEF Splice
<1> HIDE DEF a, c
<1>5. i \in 1..Len(a) + Len(w) + Len(c)
  BY <1>0, <1>2, <1>3
<1>6. (a \o w \o c)[i] = IF i <= Len(a) THEN a[i]
                         ELSE IF i <= Len(a) + Len(w) THEN w[i - Len(a)]
                         ELSE c[i - (Len(a) + Len(w))]
  <2>1. a \in Seq(S) /\ c \in Seq(S)
    BY <1>2, <1>3
  <2> QED BY <1>5, <2>1, ThreePartsUnit
<1>7. i <= p => a[i] = s[i]
  BY <1>0, <1>2
<1>8. ~(i <= p + Len(w)) => c[i - (p + Len(w))] = s[i - Len(w) + m]
  <2> SUFFICES ASSUME ~(i <= p + Len(w)) PROVE c[i - (p + Len(w))] = s[i - Len(w) + m]
    OBVIOUS
  <2>1. /\ i - (p + Len(w)) \in 1..Len(s) - (p + m)
        /\ (p + m) + (i - (p + Len(w))) = i - Len(w) + m
    BY <1>0
  <2> QED BY <1>3, <2>1
<1> QED BY <1>2, <1>4, <1>6, <1>7, <1>8

\* insertSide and insertMain yield a text when no index is out of range.
THEOREM InsertTextType ==
    ASSUME NEW S, NEW s \in Seq(S), NEW t \in Seq(S),
           NEW loc \in Nat, NEW num \in Nat, InsertFits(s, loc, num)
    PROVE  /\ InsertText(s, t, loc, num) \in Seq(S)
           /\ Len(InsertText(s, t, loc, num)) = Len(s) + Len(t)
<1>1. Len(s) \in Nat /\ Len(t) \in Nat
  BY LenProperties
<1> DEFINE p == loc - num
           none == 0
<1>2. p \in Nat /\ none \in Nat /\ p + none <= Len(s)
  BY <1>1 DEF InsertFits
<1>3. /\ InsertText(s, t, loc, num) = Splice(s, p, none, t)
      /\ Len(s) - none + Len(t) = Len(s) + Len(t)
  BY <1>1 DEF InsertText
<1> HIDE DEF p, none
<1>4. /\ Splice(s, p, none, t) \in Seq(S)
      /\ Len(Splice(s, p, none, t)) = Len(s) - none + Len(t)
  BY <1>2, SpliceType
<1> QED BY <1>3, <1>4

\* insertSide and insertMain put in what they are given, at location -
\* numChars, and change nothing else.
THEOREM InsertTextUnit ==
    ASSUME NEW S, NEW s \in Seq(S), NEW t \in Seq(S),
           NEW loc \in Nat, NEW num \in Nat, InsertFits(s, loc, num),
           NEW i \in 1..Len(s) + Len(t)
    PROVE  InsertText(s, t, loc, num)[i] =
              IF i <= loc - num THEN s[i]
              ELSE IF i <= loc - num + Len(t) THEN t[i - (loc - num)]
              ELSE s[i - Len(t)]
<1>1. Len(s) \in Nat /\ Len(t) \in Nat /\ i \in Nat
  BY LenProperties
<1> DEFINE p == loc - num
           none == 0
<1>2. p \in Nat /\ none \in Nat /\ p + none <= Len(s) /\ i \in 1..Len(s) - none + Len(t)
  BY <1>1 DEF InsertFits
<1>3. /\ InsertText(s, t, loc, num) = Splice(s, p, none, t)
      /\ i - Len(t) + none = i - Len(t)
  BY <1>1 DEF InsertText
<1> HIDE DEF p, none
<1>4. Splice(s, p, none, t)[i] = IF i <= p THEN s[i]
                                 ELSE IF i <= p + Len(t) THEN t[i - p]
                                 ELSE s[i - Len(t) + none]
  BY <1>2, SpliceUnit
<1> QED BY <1>3, <1>4 DEF p

\* deleteSide and deleteMain remove the units they are told to, and one unit
\* more exactly when a single one would be left behind them.
THEOREM DeleteTextProperties ==
    ASSUME NEW S, NEW s \in Seq(S),
           NEW loc \in Nat, NEW num \in Nat, DeleteFits(s, loc, num)
    PROVE  /\ DeleteText(s, loc, num) \in Seq(S)
           /\ Len(DeleteText(s, loc, num)) =
                 IF loc # 0 /\ loc = Len(s) - num - 1 THEN Len(s) - num - 1
                                                      ELSE Len(s) - num
<1>1. Len(s) \in Nat /\ loc + num <= Len(s)
  BY LenProperties DEF DeleteFits
<1>2. CASE loc # 0 /\ loc = Len(s) - num - 1
  <2>1. loc \in 0..Len(s)
    BY <1>1
  <2>2. Take(s, loc) \in Seq(S) /\ Len(Take(s, loc)) = loc
    BY <2>1, TakeProperties, Zenon
  <2> QED BY <1>2, <2>2 DEF DeleteText
<1>3. CASE ~(loc # 0 /\ loc = Len(s) - num - 1)
  <2>1. <<>> \in Seq(S) /\ Len(<<>>) = 0
    BY EmptySeq
  <2> DEFINE w == <<>>
  <2>2. w \in Seq(S) /\ Len(w) = 0 /\ loc + num <= Len(s)
    BY <1>1, <2>1
  <2> HIDE DEF w
  <2>3. /\ Splice(s, loc, num, w) \in Seq(S)
        /\ Len(Splice(s, loc, num, w)) = Len(s) - num + Len(w)
    BY <2>2, SpliceType, ZenonT(60)
  <2>4. DeleteText(s, loc, num) = Splice(s, loc, num, w)
    BY <1>3 DEF DeleteText, w
  <2> QED BY <1>1, <1>3, <2>2, <2>3, <2>4
<1> QED BY <1>2, <1>3

\* numChars is a natural number.
LEMMA DistanceType ==
    ASSUME NEW m \in Nat, NEW n \in Nat
    PROVE  Distance(m, n) \in Nat
BY DEF Distance

=============================================================================
