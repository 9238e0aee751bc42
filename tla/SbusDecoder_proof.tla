------------------------- MODULE SbusDecoder_proof -------------------------
(***************************************************************************)
(* Proofs about SbusDecoder: the buffer of the parser never overflows, and *)
(* a missing byte costs one frame, for every frame size and every set of   *)
(* bytes.                                                                  *)
(***************************************************************************)
EXTENDS SbusDecoder, FiniteSetTheorems, SequenceTheorems, TLAPS

USE DecoderAssumption

-----------------------------------------------------------------------------
(* What the parser does with a byte                                        *)

\* The library proves that strict inclusion of finite sets is well-founded;
\* the intervals up to the members of a set carry that over to its minimum.
LEMMA Smallest ==
  ASSUME NEW n \in Nat, NEW S \in SUBSET (1..n), S # {}
  PROVE  Min(S) \in S /\ \A j \in S : Min(S) <= j
<1> DEFINE Upto == {0..i : i \in S}
<1>1. IsWellFoundedOn(StrictSubsetOrdering(Nat), FiniteSubsetsOf(Nat))
  BY FS_StrictSubsetOrderingWellFounded
<1>2. \A i \in S : 0..i \in FiniteSubsetsOf(Nat)
  <2>1. \A i \in S : IsFiniteSet(0..i)
    BY FS_Interval
  <2> QED BY <2>1 DEF FiniteSubsetsOf
<1>3. Upto \subseteq FiniteSubsetsOf(Nat) /\ Upto # {}
  BY <1>2
<1>4. PICK x \in Upto : \A y \in Upto : <<y, x>> \notin StrictSubsetOrdering(Nat)
  <2> HIDE DEF Upto
  <2> QED BY <1>1, <1>3, WFMin
<1>5. PICK m \in S : x = 0..m
  BY <1>4
<1>6. ASSUME NEW j \in S, j < m PROVE FALSE
  <2>1. 0..j \in Upto /\ 0..j \subseteq 0..m /\ m \in 0..m /\ m \notin 0..j
    BY <1>6
  <2>2. 0..j \in SUBSET Nat /\ 0..m \in SUBSET Nat
    BY <1>6
  <2>3. <<0..j, 0..m>> \in StrictSubsetOrdering(Nat)
    BY <2>1, <2>2, Zenon DEF StrictSubsetOrdering
  <2> QED BY <2>1, <2>3, <1>4, <1>5
<1>7. m \in S /\ \A j \in S : m <= j
  BY <1>6
<1> QED BY <1>7 DEF Min

\* The recovery drops bytes at the front only, and none after a start byte.
LEMMA RecoveredSuffix ==
  ASSUME NEW b \in Seq(Byte), Len(b) = FrameSize
  PROVE  \E m \in 2..(FrameSize + 1) :
           /\ Recovered(b) = SubSeq(b, m, FrameSize)
           /\ m <= FrameSize => b[m] = SbusStartByte
           /\ \A i \in 2..FrameSize : b[i] = SbusStartByte => m <= i
<1> DEFINE starts == {i \in 2..FrameSize : b[i] = SbusStartByte}
<1>1. CASE starts = {}
  <2>1. Recovered(b) = <<>>
    BY <1>1 DEF Recovered
  <2>2. SubSeq(b, FrameSize + 1, FrameSize) = <<>>
    OBVIOUS
  <2> WITNESS FrameSize + 1 \in 2..(FrameSize + 1)
  <2> QED BY <1>1, <2>1, <2>2
<1>2. CASE starts # {}
  <2>1. starts \in SUBSET (1..FrameSize)
    OBVIOUS
  <2>2. Min(starts) \in starts /\ \A j \in starts : Min(starts) <= j
    <3> HIDE DEF starts
    <3> QED BY <1>2, <2>1, Smallest
  <2>3. Recovered(b) = SubSeq(b, Min(starts), FrameSize)
    BY <1>2 DEF Recovered
  <2>4. Min(starts) \in 2..(FrameSize + 1)
    BY <2>2
  <2> QED BY <2>2, <2>3, <2>4
<1> QED BY <1>1, <1>2

Decoded(byte) == Len(buffer) = FrameSize - 1 /\ byte \in ValidEndBytes

\* The buffer with the byte at its end, as the parser finds it.
LEMMA Appended ==
  ASSUME TypeOK, NEW byte \in Byte
  PROVE  /\ Append(buffer, byte) \in Seq(Byte)
         /\ Len(Append(buffer, byte)) = Len(buffer) + 1
         /\ Append(buffer, byte)[Len(buffer) + 1] = byte
         /\ \A i \in 1..Len(buffer) : Append(buffer, byte)[i] = buffer[i]
BY DEF TypeOK

\* What feed() leaves is the end of what it had and the byte; it leaves nothing
\* when it decodes, and goes no further than a start byte when it drops any.
LEMMA FeedKeeps ==
  ASSUME TypeOK, NEW byte \in Byte, Feed(byte)
  PROVE  \E m \in 1..(FrameSize + 1) :
           /\ m <= Len(buffer) + 2
           /\ buffer' = SubSeq(Append(buffer, byte), m, Len(buffer) + 1)
           /\ m <= Len(buffer) + 1 =>
                Append(buffer, byte)[m] = SbusStartByte /\ (m = 1 => Len(buffer) < FrameSize - 1)
           /\ \/ Decoded(byte)
              \/ \A i \in 2..(Len(buffer) + 1) :
                   Append(buffer, byte)[i] = SbusStartByte => m <= i
<1> DEFINE b == Append(buffer, byte)
<1>1. /\ b \in Seq(Byte) /\ Len(b) = Len(buffer) + 1 /\ b[Len(buffer) + 1] = byte
      /\ \A i \in 1..Len(buffer) : b[i] = buffer[i]
  BY Appended
<1>2. Len(buffer) \in Nat /\ Len(buffer) < FrameSize /\ buffer \in Seq(Byte)
  BY DEF TypeOK
<1> HIDE DEF b
<1>3. CASE buffer = <<>> /\ byte # SbusStartByte /\ UNCHANGED buffer
  <2>1. buffer' = SubSeq(b, 2, 1) /\ Len(buffer) = 0
    BY <1>3, <1>1
  <2>2. 2 \in 1..(FrameSize + 1)
    OBVIOUS
  <2> QED BY <2>1, <2>2 DEF b
<1>4. CASE b[1] = SbusStartByte /\ Len(b) < FrameSize /\ buffer' = b
  <2>1. buffer' = SubSeq(b, 1, Len(buffer) + 1)
    BY <1>4, <1>1
  <2>2. 1 \in 1..(FrameSize + 1) /\ \A i \in 2..(Len(buffer) + 1) : 1 <= i
    OBVIOUS
  <2> QED BY <1>1, <1>2, <1>4, <2>1, <2>2 DEF b
<1>5. CASE Len(b) = FrameSize /\ Decodes(b) /\ buffer' = <<>>
  <2>1. buffer' = SubSeq(b, FrameSize + 1, FrameSize) /\ Len(buffer) = FrameSize - 1
    BY <1>5, <1>1, <1>2
  <2>2. Decoded(byte)
    BY <1>5, <1>1, <2>1 DEF Decodes, Decoded
  <2>3. FrameSize + 1 \in 1..(FrameSize + 1)
    OBVIOUS
  <2> QED BY <2>1, <2>2, <2>3 DEF b
<1>6. CASE Len(b) = FrameSize /\ buffer' = Recovered(b)
  <2>1. Len(buffer) = FrameSize - 1
    BY <1>6, <1>1, <1>2
  <2>2. PICK m \in 2..(FrameSize + 1) :
           /\ Recovered(b) = SubSeq(b, m, FrameSize)
           /\ m <= FrameSize => b[m] = SbusStartByte
           /\ \A i \in 2..FrameSize : b[i] = SbusStartByte => m <= i
    BY <1>1, <1>6, RecoveredSuffix
  <2>3. Len(buffer) + 1 = FrameSize
    BY <2>1
  <2>4. buffer' = SubSeq(b, m, Len(buffer) + 1)
    BY <1>6, <2>2, <2>3
  <2>5. \A i \in 2..(Len(buffer) + 1) : b[i] = SbusStartByte => m <= i
    BY <2>2, <2>3
  <2>6. m \in 1..(FrameSize + 1) /\ m <= Len(buffer) + 2 /\ m # 1
    BY <2>3
  <2>7. m <= Len(buffer) + 1 => b[m] = SbusStartByte
    BY <2>2, <2>3
  <2> QED BY <2>4, <2>5, <2>6, <2>7 DEF b
<1> QED BY <1>3, <1>4, <1>5, <1>6 DEF Feed, b

\* Seen from its end, the buffer has moved on by the byte.
LEMMA FeedShifts ==
  ASSUME TypeOK, NEW byte \in Byte, Feed(byte)
  PROVE  /\ buffer' \in Seq(Byte) /\ Len(buffer') < FrameSize
         /\ buffer' # <<>> => buffer'[1] = SbusStartByte
         /\ Len(buffer') <= Len(buffer) + 1
         /\ \A r \in 1..Len(buffer') :
              Last(r)' = IF r = 1 THEN byte ELSE Last(r - 1)
<1>1. PICK m \in 1..(FrameSize + 1) :
        /\ m <= Len(buffer) + 2
        /\ buffer' = SubSeq(Append(buffer, byte), m, Len(buffer) + 1)
        /\ m <= Len(buffer) + 1 =>
             Append(buffer, byte)[m] = SbusStartByte /\ (m = 1 => Len(buffer) < FrameSize - 1)
  BY FeedKeeps
<1>2. /\ Append(buffer, byte) \in Seq(Byte)
      /\ Len(Append(buffer, byte)) = Len(buffer) + 1
      /\ Append(buffer, byte)[Len(buffer) + 1] = byte
      /\ \A i \in 1..Len(buffer) : Append(buffer, byte)[i] = buffer[i]
  BY Appended
<1>3. Len(buffer) \in Nat /\ Len(buffer) < FrameSize
  BY DEF TypeOK
<1> DEFINE b == Append(buffer, byte)
           n == Len(buffer)
<1> HIDE DEF b, n
<1>4. buffer' = SubSeq(b, m, n + 1) /\ b \in Seq(Byte) /\ Len(b) = n + 1 /\ n \in Nat
  BY <1>1, <1>2, <1>3 DEF b, n
<1>5. /\ buffer' \in Seq(Byte)
      /\ Len(buffer') = n + 2 - m
      /\ \A i \in 1..(n + 2 - m) : buffer'[i] = b[m + i - 1]
  <2>1. m \in 1..(Len(b) + 1) /\ n + 1 \in (m - 1)..Len(b)
    BY <1>1, <1>4 DEF n
  <2> QED BY <2>1, <1>4, SubSeqProperties
<1>6. Len(buffer') < FrameSize
  BY <1>1, <1>3, <1>5 DEF n
<1>7. ASSUME buffer' # <<>> PROVE buffer'[1] = SbusStartByte
  <2>1. n + 2 - m >= 1
    BY <1>5, <1>7, <1>4, <1>1 DEF n
  <2> QED BY <2>1, <1>1, <1>4, <1>5 DEF n, b
<1>8. ASSUME NEW r \in 1..Len(buffer')
      PROVE  Last(r)' = IF r = 1 THEN byte ELSE Last(r - 1)
  <2>1. Last(r)' = b[n + 2 - r]
    BY <1>4, <1>5 DEF Last
  <2>2. CASE r = 1
    BY <2>1, <2>2, <1>2, <1>4 DEF b, n
  <2>3. CASE r # 1
    <3>1. n + 2 - r \in 1..n
      BY <2>3, <1>4, <1>5
    <3>2. b[n + 2 - r] = buffer[n + 2 - r]
      BY <3>1, <1>2 DEF b, n
    <3>3. n + 2 - r = n + 1 - (r - 1)
      BY <1>4
    <3> QED BY <2>1, <2>3, <3>2, <3>3 DEF Last, n
  <2> QED BY <2>2, <2>3
<1>9. Len(buffer') <= n + 1
  BY <1>4, <1>5
<1> QED BY <1>5, <1>6, <1>7, <1>8, <1>9 DEF n

\* What feed() returns.
LEMMA FeedReturns ==
  ASSUME TypeOK, NEW byte \in Byte, Feed(byte)
  PROVE  /\ Decoded(byte) => /\ output' = Append(buffer, byte) /\ buffer' = <<>>
                             /\ output' \in SbusFrames
         /\ ~Decoded(byte) => output' = None
<1> DEFINE b == Append(buffer, byte)
<1>1. /\ b \in Seq(Byte) /\ Len(b) = Len(buffer) + 1 /\ b[Len(buffer) + 1] = byte
      /\ \A i \in 1..Len(buffer) : b[i] = buffer[i]
  BY Appended
<1>2. Len(buffer) \in Nat /\ buffer \in Seq(Byte) /\ (buffer # <<>> => buffer[1] = SbusStartByte)
  BY DEF TypeOK
<1>3. ASSUME Len(b) = FrameSize
      PROVE  /\ b \in [1..FrameSize -> Byte] /\ buffer # <<>>
             /\ Decodes(b) <=> Decoded(byte)
  <2>1. b \in [1..FrameSize -> Byte]
    <3> HIDE DEF b
    <3> QED BY <1>1, <1>3, LenProperties
  <2>2. Len(buffer) = FrameSize - 1 /\ buffer # <<>>
    BY <1>1, <1>2, <1>3
  <2>3. b[1] = SbusStartByte
    BY <1>1, <1>2, <2>2
  <2>4. b[FrameSize] = byte
    BY <1>1, <2>2
  <2> QED BY <2>1, <2>2, <2>3, <2>4 DEF Decodes, Decoded
<1>4. Decoded(byte) <=> Len(b) = FrameSize /\ Decodes(b)
  BY <1>1, <1>2, <1>3 DEF Decoded
<1> HIDE DEF b
<1>5. Decoded(byte) => b \in SbusFrames
  BY <1>3, <1>4 DEF SbusFrames
<1>6. ~(Len(b) = FrameSize /\ (buffer = <<>> \/ Len(b) < FrameSize))
  BY <1>3
<1>7. CASE Decoded(byte)
  BY <1>4, <1>5, <1>6, <1>7 DEF Feed, b
<1>8. CASE ~Decoded(byte)
  BY <1>4, <1>8 DEF Feed, b
<1> QED BY <1>7, <1>8 DEF b

\* A start byte that is not more than a frame back is kept, with all that follows.
LEMMA FeedKeepsStart ==
  ASSUME TypeOK, NEW byte \in Byte, Feed(byte), ~Decoded(byte),
         NEW r \in 1..(FrameSize - 1), r <= Len(buffer) + 1,
         Append(buffer, byte)[Len(buffer) + 2 - r] = SbusStartByte
  PROVE  Len(buffer') >= r
<1> DEFINE b == Append(buffer, byte)
<1>1. /\ b \in Seq(Byte) /\ Len(b) = Len(buffer) + 1 /\ b[Len(buffer) + 1] = byte
      /\ \A i \in 1..Len(buffer) : b[i] = buffer[i]
  BY Appended
<1>2. Len(buffer) \in Nat /\ Len(buffer) < FrameSize
  BY DEF TypeOK
<1>3. CASE r = Len(buffer) + 1
  <2>1. b[1] = SbusStartByte /\ Len(b) < FrameSize
    BY <1>1, <1>2, <1>3
  <2>2. ~(buffer = <<>> /\ byte # SbusStartByte) /\ Len(b) # FrameSize
    BY <1>1, <2>1
  <2>3. buffer' = b
    BY <2>1, <2>2 DEF Feed
  <2> QED BY <1>1, <1>2, <1>3, <2>3
<1>4. CASE r # Len(buffer) + 1
  <2>1. PICK m \in 1..(FrameSize + 1) :
           /\ m <= Len(buffer) + 2
           /\ buffer' = SubSeq(b, m, Len(buffer) + 1)
           /\ \A i \in 2..(Len(buffer) + 1) : b[i] = SbusStartByte => m <= i
    BY FeedKeeps
  <2>2. Len(buffer) + 2 - r \in 2..(Len(buffer) + 1)
    BY <1>2, <1>4
  <2>3. m <= Len(buffer) + 2 - r
    BY <2>1, <2>2
  <2>4. Len(buffer') = Len(buffer) + 2 - m
    <3> DEFINE n == Len(buffer)
    <3> HIDE DEF b, n
    <3>1. buffer' = SubSeq(b, m, n + 1) /\ Len(b) = n + 1 /\ n \in Nat /\ b \in Seq(Byte)
      BY <1>1, <1>2, <2>1 DEF n
    <3>2. m \in 1..(Len(b) + 1)
      BY <3>1, <2>1 DEF n
    <3>3. \A i \in m..(n + 1) : b[i] \in Byte
      BY <3>1, <3>2
    <3>4. Len(SubSeq(b, m, n + 1)) = IF m <= n + 1 THEN n + 1 - m + 1 ELSE 0
      BY <3>1, <3>2, <3>3, SubSeqProperties
    <3> QED BY <3>1, <3>2, <3>4, <2>1 DEF n
  <2> QED BY <1>2, <2>3, <2>4
<1> QED BY <1>3, <1>4

-----------------------------------------------------------------------------
(* What the buffer holds                                                   *)

\* The next byte of a frame arrives.
LEMMA ReceivedArrive ==
  ASSUME TypeOK, NEW f \in SbusFrames, NEW p \in 1..FrameSize, NEW d \in 0..2,
         ReceivedOf(f, p, d), Feed(f[p])
  PROVE  ReceivedOf(f, p + 1, d)'
<1>1. f[p] \in Byte
  BY DEF SbusFrames
<1>2. /\ Len(buffer') \in Nat /\ Len(buffer) \in Nat /\ Len(buffer') <= Len(buffer) + 1
      /\ \A r \in 1..Len(buffer') : Last(r)' = IF r = 1 THEN f[p] ELSE Last(r - 1)
  BY <1>1, FeedShifts DEF TypeOK
<1> SUFFICES ASSUME d <= 1
             PROVE  \E q \in 0..p :
               /\ q = 0 <=> d = 0
               /\ \A r \in 1..Len(buffer') :
                    /\ r < p + 1 - q => Last(r)' = f[p + 1 - r]
                    /\ p + 1 - q <= r /\ r <= p + 1 - 2 => Last(r)' = f[p + 1 - r - 1]
  BY DEF ReceivedOf
<1>3. PICK q \in 0..(p - 1) :
        /\ q = 0 <=> d = 0
        /\ \A r \in 1..Len(buffer) :
             /\ r < p - q => Last(r) = f[p - r]
             /\ p - q <= r /\ r <= p - 2 => Last(r) = f[p - r - 1]
  BY DEF ReceivedOf
<1>4. q \in 0..p
  OBVIOUS
<1>5. ASSUME NEW r \in 1..Len(buffer')
      PROVE  /\ r < p + 1 - q => Last(r)' = f[p + 1 - r]
             /\ p + 1 - q <= r /\ r <= p + 1 - 2 => Last(r)' = f[p + 1 - r - 1]
  <2>1. CASE r = 1
    <3>1. Last(r)' = f[p] /\ p + 1 - r = p /\ r < p + 1 - q
      BY <1>2, <2>1
    <3> QED BY <3>1
  <2>2. CASE r # 1
    <3>1. r - 1 \in 1..Len(buffer) /\ Last(r)' = Last(r - 1)
      BY <1>2, <2>2
    <3>2. p + 1 - r = p - (r - 1) /\ p + 1 - r - 1 = p - (r - 1) - 1
      OBVIOUS
    <3>3. r < p + 1 - q => Last(r - 1) = f[p - (r - 1)]
      BY <1>3, <3>1
    <3>4. p + 1 - q <= r /\ r <= p + 1 - 2 => Last(r - 1) = f[p - (r - 1) - 1]
      BY <1>3, <3>1
    <3> QED BY <3>1, <3>2, <3>3, <3>4
  <2> QED BY <2>1, <2>2
<1> QED BY <1>3, <1>4, <1>5

\* The first byte of a frame is lost.
LEMMA ReceivedLose ==
  ASSUME TypeOK, NEW f \in SbusFrames, NEW p \in 1..FrameSize,
         ReceivedOf(f, p, 0), UNCHANGED buffer
  PROVE  ReceivedOf(f, p + 1, 1)'
<1>1. Len(buffer) \in Nat
  BY DEF TypeOK
<1>2. PICK q \in 0..(p - 1) :
        /\ q = 0
        /\ \A r \in 1..Len(buffer) : r < p - q => Last(r) = f[p - r]
  BY DEF ReceivedOf
<1>3. ASSUME NEW r \in 1..Len(buffer'), (p + 1) - p <= r, r <= (p + 1) - 2
      PROVE  Last(r)' = f[(p + 1) - r - 1]
  <2>1. r \in 1..Len(buffer) /\ r < p - q /\ (p + 1) - r - 1 = p - r
    BY <1>1, <1>2, <1>3
  <2>2. Last(r)' = Last(r)
    BY DEF Last
  <2> QED BY <1>2, <2>1, <2>2
<1>4. \A r \in 1..Len(buffer') :
        /\ r < (p + 1) - p => Last(r)' = f[(p + 1) - r]
        /\ (p + 1) - p <= r /\ r <= (p + 1) - 2 => Last(r)' = f[(p + 1) - r - 1]
  <2>1. \A r \in 1..Len(buffer') : ~(r < (p + 1) - p)
    BY <1>1
  <2> QED BY <1>3, <2>1
<1>5. p \in 0..p /\ (p = 0 <=> 1 = 0)
  OBVIOUS
<1>6. \E k \in 0..p :
        /\ k = 0 <=> 1 = 0
        /\ \A r \in 1..Len(buffer') :
             /\ r < (p + 1) - k => Last(r)' = f[(p + 1) - r]
             /\ (p + 1) - k <= r /\ r <= (p + 1) - 2 => Last(r)' = f[(p + 1) - r - 1]
  BY <1>4, <1>5, Zenon
<1>7. 0..p = 0..((p + 1) - 1)
  OBVIOUS
<1> QED BY <1>6, <1>7, Zenon DEF ReceivedOf

\* What is left of a frame at its end misleads nobody unless its payload does:
\* a start byte at place r from the end is byte FrameSize + 1 - r of it, or the
\* byte before that if one is missing.
LEMMA Boundary ==
  ASSUME NEW f \in SbusFrames, NEW g \in SbusFrames, NEW d \in 0..1,
         NEW n, n = FrameSize + 1, ReceivedOf(f, n, d)', ~Misleads(f, g),
         Len(buffer') \in Nat, Len(buffer') < FrameSize,
         NEW r \in 1..Len(buffer'), Last(r)' = SbusStartByte
  PROVE  /\ g[FrameSize - r] \notin ValidEndBytes
         /\ d = 0 => g[FrameSize - r + 1] \notin ValidEndBytes
<1>1. /\ f[1] = SbusStartByte /\ f[FrameSize] \in ValidEndBytes
      /\ g[1] = SbusStartByte /\ g[1] \notin ValidEndBytes
      /\ f[FrameSize] # SbusStartByte
  BY DEF SbusFrames, Decodes
<1>2. PICK q \in 0..(n - 1) :
        /\ q = 0 <=> d = 0
        /\ \A s \in 1..Len(buffer') :
             /\ s < n - q => Last(s)' = f[n - s]
             /\ n - q <= s /\ s <= n - 2 => Last(s)' = f[n - s - 1]
  <2>1. d <= 1
    OBVIOUS
  <2> QED BY <2>1, Zenon DEF ReceivedOf
<1>3. \A j, k \in 2..(FrameSize - 1) :
        k \in {j - 1, j} /\ f[j] = SbusStartByte => g[k] \notin ValidEndBytes
  BY DEF Misleads
<1>4. CASE r < n - q
  <2>1. f[n - r] = SbusStartByte
    BY <1>2, <1>4
  <2>2. n - r \in 2..FrameSize /\ n - r # FrameSize
    BY <1>1, <2>1
  <2>3. n - r \in 2..(FrameSize - 1)
    BY <2>2
  <2>4. g[n - r] \notin ValidEndBytes /\ FrameSize - r + 1 = n - r
    BY <2>1, <2>3, <1>3
  <2>5. CASE FrameSize - r = 1
    BY <1>1, <2>4, <2>5
  <2>6. CASE FrameSize - r # 1
    <3>1. FrameSize - r \in 2..(FrameSize - 1) /\ FrameSize - r = n - r - 1
      BY <2>6
    <3> QED BY <1>3, <2>1, <2>3, <2>4, <3>1
  <2> QED BY <2>5, <2>6
<1>5. CASE ~(r < n - q)
  <2>1. n - q <= r /\ r <= n - 2 /\ n - r - 1 = FrameSize - r
    BY <1>5
  <2>2. f[FrameSize - r] = SbusStartByte
    BY <1>2, <2>1
  <2>3. d # 0
    BY <1>2, <2>1
  <2>4. CASE FrameSize - r = 1
    BY <1>1, <2>3, <2>4
  <2>5. CASE FrameSize - r # 1
    <3>1. FrameSize - r \in 2..(FrameSize - 1)
      BY <2>1, <2>5
    <3> QED BY <1>3, <2>2, <2>3, <3>1
  <2> QED BY <2>4, <2>5
<1> QED BY <1>4, <1>5

-----------------------------------------------------------------------------
(* Types: no byte is ever written behind the end of the buffer             *)

LEMMA FeedTyped ==
  ASSUME TypeOK, NEW byte \in Byte, Feed(byte)
  PROVE  /\ buffer' \in Seq(Byte) /\ Len(buffer') < FrameSize
         /\ buffer' # <<>> => buffer'[1] = SbusStartByte
         /\ output' \in SbusFrames \cup {None}
BY FeedShifts, FeedReturns

LEMMA AdvanceTyped ==
  ASSUME TypeOK, NEW d \in 0..2, Advance(d)
  PROVE  /\ frame' \in SbusFrames /\ position' \in 1..FrameSize
         /\ damage' \in 0..2 /\ damageBefore' \in 0..2
<1>1. CASE position < FrameSize
  BY <1>1 DEF TypeOK, Advance
<1>2. CASE ~(position < FrameSize)
  <2>1. position' = 1 /\ damage' = 0 /\ frame' \in SbusFrames /\ damageBefore' \in {2, d}
    BY <1>2 DEF Advance
  <2> QED BY <2>1
<1> QED BY <1>1, <1>2

\* The bytes of a frame are bytes.
LEMMA FrameBytes == TypeOK => frame[position] \in Byte
BY DEF TypeOK, SbusFrames

LEMMA LoseDamage ==
  TypeOK => (IF damage = 2 THEN 2 ELSE damage + 1) \in 0..2
BY DEF TypeOK

LEMMA StepTyped == TypeOK /\ [Next]_sbusVars => TypeOK'
<1> SUFFICES ASSUME TypeOK, [Next]_sbusVars PROVE TypeOK'
  OBVIOUS
<1>1. CASE Arrive
  BY <1>1, FeedTyped, AdvanceTyped, FrameBytes DEF Arrive, TypeOK
<1>2. CASE Lose
  <2> DEFINE d == IF damage = 2 THEN 2 ELSE damage + 1
  <2>1. d \in 0..2 /\ Advance(d)
    BY <1>2, LoseDamage DEF Lose
  <2> HIDE DEF d
  <2>2. /\ frame' \in SbusFrames /\ position' \in 1..FrameSize
        /\ damage' \in 0..2 /\ damageBefore' \in 0..2
    BY <2>1, AdvanceTyped
  <2>3. buffer' = buffer /\ output' = None
    BY <1>2 DEF Lose
  <2> QED BY <2>2, <2>3 DEF TypeOK
<1>3. CASE Noise
  <2>1. PICK byte \in Byte : Feed(byte)
    BY <1>3 DEF Noise
  <2>2. damage' = 2 /\ UNCHANGED <<frame, position, damageBefore>>
    BY <1>3 DEF Noise
  <2> QED BY <2>1, <2>2, FeedTyped DEF TypeOK
<1>4. CASE Restart
  BY <1>4 DEF Restart, TypeOK
<1>5. CASE UNCHANGED sbusVars
  BY <1>5 DEF sbusVars, TypeOK
<1> QED BY <1>1, <1>2, <1>3, <1>4, <1>5 DEF Next

\* Whatever arrives, the buffer has room for the next byte.
THEOREM TypeCorrect == Spec => []TypeOK
<1>1. Init => TypeOK
  BY DEF Init, TypeOK
<1> QED BY <1>1, StepTyped, PTL DEF Spec

-----------------------------------------------------------------------------
(* The parser stays in step                                                *)

\* Nothing that is not a whole frame decodes.
LEMMA NotYet ==
  ASSUME DecoderInv, damage + damageBefore <= 1,
         position < FrameSize \/ damage # 0
  PROVE  ~Decoded(frame[position])
<1> SUFFICES ASSUME Len(buffer) = FrameSize - 1, frame[position] \in ValidEndBytes
             PROVE  FALSE
  BY DEF Decoded
<1> DEFINE r == FrameSize - 1
<1>1. Last(r) = SbusStartByte /\ r \in Nat
  BY DEF DecoderInv, TypeOK, Last
<1>2. position \in 1..FrameSize /\ damage \in 0..2 /\ damageBefore \in 0..2
  BY DEF DecoderInv, TypeOK
<1>3. FrameSize - r + position - 1 = position
  BY <1>2
<1>4. CASE damage = 0
  <2>1. r \in position..Len(buffer) /\ damageBefore <= 1
    BY <1>2, <1>4
  <2>2. frame[FrameSize - r + position - 1] \notin ValidEndBytes
    BY <1>1, <1>4, <2>1 DEF DecoderInv, Clean
  <2> QED BY <1>3, <2>2
<1>5. CASE damage # 0
  <2>1. damage = 1 /\ damageBefore = 0 /\ r \in (position - 1)..Len(buffer)
    BY <1>2, <1>5
  <2>2. frame[FrameSize - r + position - 1] \notin ValidEndBytes
    BY <1>1, <2>1 DEF DecoderInv, Clean
  <2> QED BY <1>3, <2>2
<1> QED BY <1>4, <1>5

\* A whole frame decodes with its last byte.
LEMMA FrameDecodes ==
  ASSUME DecoderInv, damage = 0, damageBefore <= 1, position = FrameSize
  PROVE  Decoded(frame[position]) /\ Append(buffer, frame[position]) = frame
<1>1. /\ frame \in [1..FrameSize -> Byte] /\ frame[FrameSize] \in ValidEndBytes
      /\ frame[position] \in Byte
  BY DEF DecoderInv, TypeOK, SbusFrames, Decodes
<1>2. Len(buffer) = FrameSize - 1 /\ buffer \in Seq(Byte)
  BY DEF DecoderInv, TypeOK, Whole
<1>3. PICK q \in 0..(position - 1) :
        /\ q = 0
        /\ \A r \in 1..Len(buffer) : r < position - q => Last(r) = frame[position - r]
  BY DEF DecoderInv, Received, ReceivedOf
<1>4. ASSUME NEW i \in 1..(FrameSize - 1) PROVE buffer[i] = frame[i]
  <2>1. FrameSize - i \in 1..Len(buffer) /\ FrameSize - i < position - q
    BY <1>2, <1>3
  <2>2. Last(FrameSize - i) = frame[FrameSize - (FrameSize - i)]
    BY <1>3, <2>1
  <2>3. Last(FrameSize - i) = buffer[i]
    BY <1>2 DEF Last
  <2> QED BY <2>2, <2>3
<1> DEFINE b == Append(buffer, frame[position])
<1>5. /\ b \in Seq(Byte) /\ Len(b) = FrameSize /\ b[FrameSize] = frame[FrameSize]
      /\ \A i \in 1..(FrameSize - 1) : b[i] = frame[i]
  BY <1>1, <1>2, <1>4
<1> HIDE DEF b
<1>6. b \in [1..FrameSize -> Byte]
  BY <1>5, LenProperties
<1>7. \A i \in 1..FrameSize : b[i] = frame[i]
  BY <1>5
<1>8. b = frame
  BY <1>1, <1>6, <1>7
<1> QED BY <1>1, <1>2, <1>8 DEF Decoded, b

\* Within a frame a byte that arrives moves everything on by one place.
LEMMA ArriveWithin ==
  ASSUME DecoderInv, Arrive, position < FrameSize
  PROVE  Received' /\ Whole' /\ Clean'
<1>1. /\ position \in 1..FrameSize /\ damage \in 0..2 /\ damageBefore \in 0..2
      /\ frame \in SbusFrames /\ Len(buffer) \in Nat /\ Len(buffer) < FrameSize
      /\ TypeOK /\ frame[position] \in Byte
  BY FrameBytes DEF DecoderInv, TypeOK
<1>2. /\ Feed(frame[position]) /\ position' = position + 1 /\ damage' = damage
      /\ frame' = frame /\ damageBefore' = damageBefore
  BY DEF Arrive, Advance
<1>3. /\ Len(buffer') \in Nat /\ Len(buffer') <= Len(buffer) + 1
      /\ \A r \in 1..Len(buffer') : Last(r)' = IF r = 1 THEN frame[position] ELSE Last(r - 1)
  BY <1>1, <1>2, FeedShifts
<1>4. Received'
  <2>1. ASSUME NEW f \in SbusFrames, NEW p \in 1..FrameSize, NEW d \in 0..2,
               f = frame, p = position, d = damage
        PROVE  ReceivedOf(f, p + 1, d)'
    BY <2>1, <1>1, <1>2, ReceivedArrive DEF DecoderInv, Received
  <2>2. \A f \in SbusFrames, p \in 1..FrameSize, d \in 0..2 :
          f = frame /\ p = position /\ d = damage => ReceivedOf(f, p + 1, d)'
    BY <2>1
  <2> QED BY <2>2, <1>1, <1>2 DEF Received, ReceivedOf
<1>5. Whole'
  <2> SUFFICES ASSUME damage = 0, damageBefore <= 1 PROVE Len(buffer') >= position
    BY <1>1, <1>2 DEF Whole
  <2>1. ~Decoded(frame[position])
    BY <1>1, NotYet
  <2>2. Len(buffer) >= position - 1
    BY DEF DecoderInv, Whole
  <2>3. position \in 1..(FrameSize - 1) /\ position <= Len(buffer) + 1
    BY <1>1, <2>2
  <2>4. Append(buffer, frame[position])[Len(buffer) + 2 - position] = SbusStartByte
    <3>1. /\ Append(buffer, frame[position])[Len(buffer) + 1] = frame[position]
          /\ \A i \in 1..Len(buffer) : Append(buffer, frame[position])[i] = buffer[i]
      BY <1>1, Appended
    <3>2. frame[1] = SbusStartByte
      BY <1>1 DEF SbusFrames, Decodes
    <3>3. CASE position = 1
      BY <3>1, <3>2, <3>3, <1>1
    <3>4. CASE position # 1
      <4>1. Len(buffer) + 2 - position \in 1..Len(buffer)
        BY <3>4, <1>1, <2>3
      <4>2. PICK q \in 0..(position - 1) :
              /\ q = 0
              /\ \A r \in 1..Len(buffer) : r < position - q => Last(r) = frame[position - r]
        BY <1>1 DEF DecoderInv, Received, ReceivedOf
      <4>3. position - 1 \in 1..Len(buffer) /\ position - 1 < position - q
            /\ position - (position - 1) = 1
        BY <3>4, <1>1, <2>2, <4>2
      <4>4. Last(position - 1) = frame[1]
        BY <4>2, <4>3
      <4>5. Len(buffer) + 1 - (position - 1) = Len(buffer) + 2 - position
        BY <1>1
      <4> QED BY <3>1, <3>2, <4>1, <4>4, <4>5 DEF Last
    <3> QED BY <3>3, <3>4
  <2> QED BY <1>1, <1>2, <2>1, <2>3, <2>4, FeedKeepsStart
<1>6. Clean'
  <2>1. ASSUME NEW r \in 2..Len(buffer'), Last(r)' = SbusStartByte
        PROVE  /\ r - 1 \in 1..Len(buffer) /\ Last(r - 1) = SbusStartByte
               /\ FrameSize - r + position' - 1 = FrameSize - (r - 1) + position - 1
               /\ FrameSize - r + position' = FrameSize - (r - 1) + position
    BY <2>1, <1>1, <1>2, <1>3
  <2>2. ASSUME damage = 0, damageBefore <= 1,
               NEW r \in position'..Len(buffer'), Last(r)' = SbusStartByte
        PROVE  frame[FrameSize - r + position' - 1] \notin ValidEndBytes
    <3>1. r \in 2..Len(buffer') /\ r - 1 >= position
      BY <1>1, <1>2, <1>3, <2>2
    <3>2. r - 1 \in position..Len(buffer)
      BY <3>1, <2>1, <2>2, <1>1
    <3> QED BY <3>1, <3>2, <2>1, <2>2 DEF DecoderInv, Clean
  <2>3. ASSUME damage = 0, damageBefore = 0,
               NEW r \in position'..Len(buffer'), Last(r)' = SbusStartByte
        PROVE  frame[FrameSize - r + position'] \notin ValidEndBytes
    <3>1. r \in 2..Len(buffer') /\ r - 1 >= position
      BY <1>1, <1>2, <1>3, <2>3
    <3>2. r - 1 \in position..Len(buffer)
      BY <3>1, <2>1, <2>3, <1>1
    <3> QED BY <3>1, <3>2, <2>1, <2>3 DEF DecoderInv, Clean
  <2>4. ASSUME damage = 1, damageBefore = 0,
               NEW r \in (position' - 1)..Len(buffer'), Last(r)' = SbusStartByte
        PROVE  frame[FrameSize - r + position' - 1] \notin ValidEndBytes
    <3>1. position # 1
      BY <2>4 DEF DecoderInv, Received, ReceivedOf
    <3>2. r \in 2..Len(buffer') /\ r - 1 >= position - 1
      BY <1>1, <1>2, <1>3, <2>4, <3>1
    <3>3. r - 1 \in (position - 1)..Len(buffer)
      BY <3>2, <2>1, <2>4, <1>1
    <3> QED BY <3>2, <3>3, <2>1, <2>4 DEF DecoderInv, Clean
  <2> QED BY <1>2, <2>2, <2>3, <2>4, Zenon DEF Clean
<1> QED BY <1>4, <1>5, <1>6

\* The first byte lost of a frame leaves the buffer one place behind.
LEMMA LoseWithin ==
  ASSUME DecoderInv, Lose, position < FrameSize
  PROVE  Received' /\ Whole' /\ Clean'
<1>1. /\ position \in 1..FrameSize /\ damage \in 0..2 /\ damageBefore \in 0..2
      /\ frame \in SbusFrames /\ Len(buffer) \in Nat /\ TypeOK
  BY DEF DecoderInv, TypeOK
<1>2. /\ buffer' = buffer /\ position' = position + 1
      /\ damage' = (IF damage = 2 THEN 2 ELSE damage + 1)
      /\ frame' = frame /\ damageBefore' = damageBefore
  BY DEF Lose, Advance
<1>3. damage' # 0 /\ (damage' = 1 => damage = 0) /\ (damage' <= 1 => damage' = 1)
  BY <1>1, <1>2
<1>4. Received'
  <2>1. CASE damage' = 1
    <3>1. ASSUME NEW f \in SbusFrames, NEW p \in 1..FrameSize, f = frame, p = position
          PROVE  ReceivedOf(f, p + 1, 1)'
      BY <3>1, <2>1, <1>1, <1>2, <1>3, ReceivedLose DEF DecoderInv, Received
    <3>2. \A f \in SbusFrames, p \in 1..FrameSize :
            f = frame /\ p = position => ReceivedOf(f, p + 1, 1)'
      BY <3>1
    <3> QED BY <3>2, <2>1, <1>1, <1>2 DEF Received, ReceivedOf
  <2>2. CASE damage' # 1
    BY <2>2, <1>3 DEF Received, ReceivedOf
  <2> QED BY <2>1, <2>2
<1>5. Whole'
  BY <1>3 DEF Whole
<1>6. Clean'
  <2>1. ASSUME damage' = 1, damageBefore' = 0,
               NEW r \in (position' - 1)..Len(buffer'), Last(r)' = SbusStartByte
        PROVE  frame'[FrameSize - r + position' - 1] \notin ValidEndBytes
    <3>1. r \in position..Len(buffer) /\ damage = 0 /\ damageBefore = 0
      BY <2>1, <1>1, <1>2, <1>3
    <3>2. Last(r) = SbusStartByte
      BY <2>1, <1>2 DEF Last
    <3>3. frame[FrameSize - r + position] \notin ValidEndBytes
      BY <3>1, <3>2 DEF DecoderInv, Clean
    <3>4. FrameSize - r + position' - 1 = FrameSize - r + position
      BY <1>1, <1>2
    <3> QED BY <3>3, <3>4, <1>2
  <2> QED BY <1>3, <2>1, Zenon DEF Clean
<1> QED BY <1>4, <1>5, <1>6

\* With the last byte of a frame the next one begins, and what the buffer still
\* holds is from the frame before or it is the end of an undamaged one.
LEMMA NextFrame ==
  ASSUME DecoderInv, position = FrameSize, NEW d \in 0..2, Advance(d),
         \A f \in SbusFrames : f = frame => ReceivedOf(f, FrameSize + 1, d)',
         Len(buffer') \in Nat, Len(buffer') < FrameSize,
         d + damageBefore = 0 => buffer' = <<>>
  PROVE  Received' /\ Whole' /\ Clean'
<1>1. /\ damageBefore \in 0..2 /\ frame \in SbusFrames
  BY DEF DecoderInv, TypeOK
<1>2. /\ position' = 1 /\ damage' = 0 /\ frame' \in SbusFrames
      /\ damageBefore' = IF d + damageBefore > 0 /\ Misleads(frame, frame') THEN 2 ELSE d
  BY DEF Advance
<1>3. Received'
  BY <1>2 DEF Received, ReceivedOf
<1>4. Whole'
  BY <1>2 DEF Whole
<1>5. ASSUME damageBefore' <= 1, NEW r \in 1..Len(buffer'), Last(r)' = SbusStartByte
      PROVE  /\ frame'[FrameSize - r] \notin ValidEndBytes
             /\ damageBefore' = 0 => frame'[FrameSize - r + 1] \notin ValidEndBytes
  <2>1. d + damageBefore > 0
    BY <1>1, <1>5
  <2>2. damageBefore' = d /\ ~Misleads(frame, frame') /\ d \in 0..1
    BY <1>2, <1>5, <2>1
  <2>3. \A f, g \in SbusFrames :
          f = frame /\ ~Misleads(f, g) =>
            /\ g[FrameSize - r] \notin ValidEndBytes
            /\ d = 0 => g[FrameSize - r + 1] \notin ValidEndBytes
    <3>1. ASSUME NEW f \in SbusFrames, NEW g \in SbusFrames, f = frame, ~Misleads(f, g)
          PROVE  /\ g[FrameSize - r] \notin ValidEndBytes
                 /\ d = 0 => g[FrameSize - r + 1] \notin ValidEndBytes
      BY <3>1, <1>5, <2>2, Boundary
    <3> QED BY <3>1
  <2> QED BY <1>1, <1>2, <2>2, <2>3
<1>6. Clean'
  <2>1. \A r \in 1..Len(buffer') : /\ FrameSize - r + 1 - 1 = FrameSize - r
                                  /\ damageBefore' = 0 => damageBefore' <= 1
    OBVIOUS
  <2>2. damage' = 0 /\ damage' # 1 /\ position' = 1
    BY <1>2
  <2>3. \A r \in position'..Len(buffer') :
          damageBefore' <= 1 /\ Last(r)' = SbusStartByte =>
            frame'[FrameSize - r + position' - 1] \notin ValidEndBytes
    BY <1>5, <2>1, <2>2
  <2>4. \A r \in position'..Len(buffer') :
          damageBefore' = 0 /\ Last(r)' = SbusStartByte =>
            frame'[FrameSize - r + position'] \notin ValidEndBytes
    BY <1>5, <2>1, <2>2
  <2> QED BY <2>2, <2>3, <2>4, Zenon DEF Clean
<1> QED BY <1>3, <1>4, <1>6

\* Both ways in which a frame ends.
LEMMA ArriveLast ==
  ASSUME DecoderInv, Arrive, position = FrameSize
  PROVE  Received' /\ Whole' /\ Clean'
<1>1. /\ damage \in 0..2 /\ damageBefore \in 0..2 /\ frame \in SbusFrames
      /\ TypeOK /\ frame[position] \in Byte
  BY FrameBytes DEF DecoderInv, TypeOK
<1>2. Feed(frame[position]) /\ Advance(damage)
  BY DEF Arrive
<1>3. Len(buffer') \in Nat /\ Len(buffer') < FrameSize
  BY <1>1, <1>2, FeedShifts
<1>4. damage + damageBefore = 0 => buffer' = <<>>
  BY <1>1, <1>2, FrameDecodes, FeedReturns
<1>5. ASSUME NEW f \in SbusFrames, NEW d \in 0..2, f = frame, d = damage
      PROVE  ReceivedOf(f, FrameSize + 1, d)'
  BY <1>5, <1>1, <1>2, ReceivedArrive DEF DecoderInv, Received
<1>6. \A d \in 0..2 : d = damage => Received' /\ Whole' /\ Clean'
  BY <1>2, <1>3, <1>4, <1>5, NextFrame
<1> QED BY <1>1, <1>6

LEMMA LoseLast ==
  ASSUME DecoderInv, Lose, position = FrameSize
  PROVE  Received' /\ Whole' /\ Clean'
<1> DEFINE lost == IF damage = 2 THEN 2 ELSE damage + 1
<1>1. /\ damage \in 0..2 /\ damageBefore \in 0..2 /\ frame \in SbusFrames /\ TypeOK
      /\ Len(buffer) \in Nat /\ Len(buffer) < FrameSize
  BY DEF DecoderInv, TypeOK
<1>2. lost \in 1..2 /\ (lost <= 1 => lost = 1 /\ damage = 0)
  BY <1>1
<1>3. Advance(lost) /\ buffer' = buffer
  BY DEF Lose
<1> HIDE DEF lost
<1>4. ASSUME NEW f \in SbusFrames, NEW d \in 0..2, f = frame, d = lost
      PROVE  ReceivedOf(f, FrameSize + 1, d)'
  <2>1. CASE d = 1
    BY <1>1, <1>2, <1>3, <1>4, <2>1, ReceivedLose DEF DecoderInv, Received
  <2>2. CASE d # 1
    BY <1>2, <1>4, <2>2 DEF ReceivedOf
  <2> QED BY <2>1, <2>2
<1>5. \A d \in 0..2 : d = lost => Received' /\ Whole' /\ Clean'
  BY <1>1, <1>2, <1>3, <1>4, NextFrame
<1> QED BY <1>2, <1>5

\* Every step keeps the invariant; noise and a restart leave nothing to keep.
LEMMA StepInv == DecoderInv /\ [Next]_sbusVars => DecoderInv'
<1> SUFFICES ASSUME DecoderInv, [Next]_sbusVars PROVE Received' /\ Whole' /\ Clean'
  BY StepTyped DEF DecoderInv
<1>1. position \in 1..FrameSize
  BY DEF DecoderInv, TypeOK
<1>2. CASE Arrive
  BY <1>1, <1>2, ArriveWithin, ArriveLast
<1>3. CASE Lose
  BY <1>1, <1>3, LoseWithin, LoseLast
<1>4. CASE Noise
  <2>1. damage' = 2
    BY <1>4 DEF Noise
  <2> QED BY <2>1 DEF Received, ReceivedOf, Whole, Clean
<1>5. CASE Restart
  <2>1. /\ buffer' = <<>> /\ position' = position
        /\ damage' = (IF position = 1 THEN 0 ELSE 1) /\ damageBefore' = 0
    BY <1>5 DEF Restart
  <2>2. \A m \in 1..FrameSize : m..Len(<<>>) = {}
    OBVIOUS
  <2>3. Received'
    BY <1>1, <2>1 DEF Received, ReceivedOf
  <2>4. Whole'
    BY <1>1, <2>1 DEF Whole
  <2>5. Clean'
    BY <1>1, <2>1 DEF Clean
  <2> QED BY <2>3, <2>4, <2>5
<1>6. CASE UNCHANGED sbusVars
  BY <1>6 DEF sbusVars, DecoderInv, Received, ReceivedOf, Whole, Clean, Last
<1> QED BY <1>2, <1>3, <1>4, <1>5, <1>6 DEF Next

\* What the buffer holds, and what can still begin in it, after any history.
THEOREM DecoderInvariance == Spec => []DecoderInv
<1>1. Init => DecoderInv
  <2> SUFFICES ASSUME Init PROVE DecoderInv
    OBVIOUS
  <2>1. TypeOK /\ buffer = <<>> /\ position \in 1..FrameSize
        /\ damage = (IF position = 1 THEN 0 ELSE 1) /\ damageBefore = 0
    BY DEF Init, TypeOK
  <2>2. Received
    BY <2>1 DEF Received, ReceivedOf
  <2>3. Whole /\ Clean
    BY <2>1 DEF Whole, Clean
  <2> QED BY <2>1, <2>2, <2>3 DEF DecoderInv
<1> QED BY <1>1, StepInv, PTL DEF Spec

\* As long as at most one byte of this frame and the one before is missing, the
\* whole frames come out, each with its last byte, and nothing else does.
THEOREM StaysInStep == Spec => InStep
<1>1. DecoderInv /\ [Next]_sbusVars =>
        [Arrive /\ damage + damageBefore <= 1 =>
           output' = IF position = FrameSize /\ damage = 0 THEN frame ELSE None]_sbusVars
  <2> SUFFICES ASSUME DecoderInv, Arrive, damage + damageBefore <= 1
               PROVE  output' = IF position = FrameSize /\ damage = 0 THEN frame ELSE None
    BY DEF Next
  <2>1. /\ TypeOK /\ position \in 1..FrameSize /\ damage \in 0..2 /\ damageBefore \in 0..2
        /\ frame[position] \in Byte
    BY FrameBytes DEF DecoderInv, TypeOK
  <2>2. Feed(frame[position])
    BY DEF Arrive
  <2>3. CASE position = FrameSize /\ damage = 0
    BY <2>1, <2>2, <2>3, FrameDecodes, FeedReturns
  <2>4. CASE ~(position = FrameSize /\ damage = 0)
    <3>1. ~Decoded(frame[position])
      BY <2>1, <2>4, NotYet
    <3> QED BY <2>1, <2>2, <2>4, <3>1, FeedReturns
  <2> QED BY <2>3, <2>4
<1> QED BY <1>1, DecoderInvariance, PTL DEF Spec, InStep
=============================================================================
