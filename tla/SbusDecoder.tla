---------------------------- MODULE SbusDecoder ----------------------------
(***************************************************************************)
(* The byte parser of the receiver (robot/drivers/rc/sbus.cpp).  A frame   *)
(* is FrameSize bytes, from a start byte to an end byte; there is no       *)
(* checksum and no time-out between bytes, and the payload may contain     *)
(* both values.  The receiver sends frames without end; the serial driver  *)
(* drops bytes with a parity error (IGNPAR, SbusInput.cpp), noise may look *)
(* like bytes, and a restarted SbusInput begins with a new decoder in the  *)
(* middle of a frame.                                                      *)
(***************************************************************************)
EXTENDS Naturals, Sequences, FiniteSetsExt

CONSTANTS Byte, SbusStartByte,
          ValidEndBytes,   \* validEndByte()
          FrameSize,
          None             \* feed() returned false

ASSUME DecoderAssumption ==
  /\ SbusStartByte \in Byte /\ ValidEndBytes \subseteq Byte
  /\ SbusStartByte \notin ValidEndBytes
  /\ FrameSize \in Nat /\ FrameSize > 2

Decodes(b) == b[1] = SbusStartByte /\ b[FrameSize] \in ValidEndBytes

SbusFrames == {f \in [1..FrameSize -> Byte] : Decodes(f)}

ASSUME None \notin SbusFrames

VARIABLES
  buffer,          \* _buffer up to _count
  output,          \* the frame the last feed() returned, or None
  frame, position, \* the frame being sent, and its next byte
  damage,          \* what happened to it: bytes lost, up to 2 for more or noise
  damageBefore     \* the same of the frame before it

sbusVars == <<buffer, output, frame, position, damage, damageBefore>>

Init ==
  /\ buffer = <<>> /\ output = None
  /\ frame \in SbusFrames /\ position \in 1..FrameSize
  /\ damage = (IF position = 1 THEN 0 ELSE 1) /\ damageBefore = 0

-----------------------------------------------------------------------------
(* The decoder                                                             *)

\* recoverAfterInvalidFrame: go on with the next start byte of the buffer.
Recovered_Clears(b) == <<>>
Recovered_FromFirst(b) ==
  LET starts == {i \in 1..FrameSize : b[i] = SbusStartByte}
  IN IF starts = {} THEN <<>> ELSE SubSeq(b, Min(starts), FrameSize)
Recovered(b) ==
  LET starts == {i \in 2..FrameSize : b[i] = SbusStartByte}
  IN IF starts = {} THEN <<>> ELSE SubSeq(b, Min(starts), FrameSize)

Feed(byte) ==
  LET b == Append(buffer, byte)
  IN \/ /\ buffer = <<>> /\ byte # SbusStartByte
        /\ output' = None /\ UNCHANGED buffer
     \/ /\ b[1] = SbusStartByte /\ Len(b) < FrameSize
        /\ output' = None /\ buffer' = b
     \/ /\ Len(b) = FrameSize /\ Decodes(b)
        /\ output' = b /\ buffer' = <<>>
     \/ /\ Len(b) = FrameSize /\ ~Decodes(b)
        /\ output' = None /\ buffer' = Recovered(b)

-----------------------------------------------------------------------------
(* The receiver and the line                                               *)

\* A start byte in the payload of f could begin what looks like a frame and
\* ends in the payload of g, also when a byte is missing in between.
Misleads(f, g) ==
  \E j, k \in 2..(FrameSize - 1) :
    k \in {j - 1, j} /\ f[j] = SbusStartByte /\ g[k] \in ValidEndBytes

\* The sender goes on to the next byte; d is the damage of the frame so far.
Advance(d) ==
  IF position < FrameSize
    THEN /\ position' = position + 1 /\ damage' = d
         /\ UNCHANGED <<frame, damageBefore>>
    ELSE /\ position' = 1 /\ damage' = 0 /\ frame' \in SbusFrames
         /\ damageBefore' = IF d + damageBefore > 0 /\ Misleads(frame, frame')
                              THEN 2 ELSE d

Arrive == Feed(frame[position]) /\ Advance(damage)

Lose == /\ output' = None /\ UNCHANGED buffer
        /\ Advance(IF damage = 2 THEN 2 ELSE damage + 1)

Noise == /\ \E byte \in Byte : Feed(byte)
         /\ damage' = 2 /\ UNCHANGED <<frame, position, damageBefore>>

\* sbus_input stop and start: what was received of the frame is gone.
Restart == /\ buffer' = <<>> /\ output' = None
           /\ damage' = (IF position = 1 THEN 0 ELSE 1) /\ damageBefore' = 0
           /\ UNCHANGED <<frame, position>>

Next == Arrive \/ Lose \/ Noise \/ Restart

Spec == Init /\ [][Next]_sbusVars

-----------------------------------------------------------------------------
(* Properties                                                              *)

\* Between two bytes the buffer holds the beginning of a frame and has room for
\* the next byte, whatever was received (the index of sbus.cpp:65 stays below
\* FrameSize).
TypeOK ==
  /\ buffer \in Seq(Byte) /\ Len(buffer) < FrameSize
  /\ buffer # <<>> => buffer[1] = SbusStartByte
  /\ output \in SbusFrames \cup {None}
  /\ frame \in SbusFrames /\ position \in 1..FrameSize
  /\ damage \in 0..2 /\ damageBefore \in 0..2

\* As long as no more than one byte of this frame and the one before is missing,
\* exactly the whole frames are delivered, each with its last byte: a missing
\* byte costs one frame, not two, although the buffer that fails the test holds
\* bytes of the next (sbus.cpp:142); and a decoder that was out of step is back
\* after one whole frame, unless the payloads mislead it.
InStep ==
  [][Arrive /\ damage + damageBefore <= 1 =>
       output' = IF position = FrameSize /\ damage = 0 THEN frame ELSE None]_sbusVars
-----------------------------------------------------------------------------
(* The inductive invariant behind InStep.  The buffer is seen from its end: *)
(* a recovery drops bytes at the front, so that only there it keeps place.  *)

Last(r) == buffer[Len(buffer) + 1 - r]

\* The bytes received of f, the next one being p: all of them, or all but f[q].
ReceivedOf(f, p, d) ==
  d <= 1 => \E q \in 0..(p - 1) :
    /\ q = 0 <=> d = 0
    /\ \A r \in 1..Len(buffer) :
         /\ r < p - q => Last(r) = f[p - r]
         /\ p - q <= r /\ r <= p - 2 => Last(r) = f[p - r - 1]

Received == ReceivedOf(frame, position, damage)

\* No recovery drops the beginning of a frame that arrives whole.
Whole == damage = 0 /\ damageBefore <= 1 => Len(buffer) >= position - 1

\* A start byte left over from the frame before begins nothing that decodes: the
\* byte FrameSize - 1 places after it ends no frame, also if one more is missing.
Clean ==
  /\ damage = 0 /\ damageBefore <= 1 =>
       \A r \in position..Len(buffer) :
         Last(r) = SbusStartByte =>
           frame[FrameSize - r + position - 1] \notin ValidEndBytes
  /\ damage = 0 /\ damageBefore = 0 =>
       \A r \in position..Len(buffer) :
         Last(r) = SbusStartByte =>
           frame[FrameSize - r + position] \notin ValidEndBytes
  /\ damage = 1 /\ damageBefore = 0 =>
       \A r \in (position - 1)..Len(buffer) :
         Last(r) = SbusStartByte =>
           frame[FrameSize - r + position - 1] \notin ValidEndBytes

DecoderInv == TypeOK /\ Received /\ Whole /\ Clean
=============================================================================
