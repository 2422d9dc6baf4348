-------------------------------- MODULE Codec --------------------------------
(***************************************************************************)
(* The DShot frame and its telemetry reply: decode_frame, encode_gcr_frame    *)
(* and erpm_to_12bit of rm32/src/dshot.rs, against a transmitter that sends   *)
(* and receives as the protocol says.  The state is the 12-bit word under     *)
(* test, and it goes through all of them.                                   *)
(***************************************************************************)
EXTENDS Integers, Sequences

CONSTANTS
  BitTimes,        \* capture ticks of a bit, of an admitted frame
  FrameTimeLow,    \* the window before it is averaged, 400 ...
  FrameTimeHigh,   \* ... and 600
  LastWord         \* the last word under test, 4095

ASSUME CodecAssumption ==
  /\ BitTimes \subseteq Nat \ {0} /\ BitTimes # {}
  /\ FrameTimeLow \in Nat /\ FrameTimeHigh \in Nat /\ FrameTimeLow >= 256
  /\ \A t \in BitTimes : /\ FrameTimeLow < 15 * t + (t * 3) \div 8
                          /\ 15 * t + (t * 3) \div 4 < FrameTimeHigh
  /\ LastWord \in 0 .. 4095

VARIABLE word

(* The bits of a number, the highest first, and the number of bits. *)
BitsOf(n, size) == [i \in 1 .. size |-> (n \div (2 ^ (size - i))) % 2]

FourBits(bits, at) ==
  bits[at] * 8 + bits[at + 1] * 4 + bits[at + 2] * 2 + bits[at + 3]

FiveBits(bits, at) == bits[at] * 16 + FourBits(bits, at + 1)

ElevenBits(bits) ==
  FourBits(bits, 1) * 128 + FourBits(bits, 5) * 8
    + bits[9] * 4 + bits[10] * 2 + bits[11]

Xor(a, b) == (a + b) % 2

-----------------------------------------------------------------------------
(* The four bits that decode_frame computes from the twelve. *)
CalcCrc(bits) ==
  FourBits([i \in 1 .. 4 |-> (bits[i] + bits[i + 4] + bits[i + 8]) % 2], 1)

(* Mutant: the inverted bits are not brought back into four. *)
CheckCrcWide(crc, inverted) == IF inverted THEN 255 - crc ELSE crc

(* What is compared with them; u8 arithmetic in bidirectional mode. *)
CheckCrc(crc, inverted) ==
  IF inverted THEN ((255 - crc) + 16) % 256 ELSE crc

BadFrame == [kind |-> "bad", value |-> 0, telemetry |-> FALSE]

(* decode_frame: the widths of the sixteen pulses, and the time from the      *)
(* first edge to the last.                                                  *)
DecodeFrame(widths, frametime, inverted) ==
  LET half == frametime \div 32
      bits == [i \in 1 .. 16 |-> IF widths[i] > half THEN 1 ELSE 0]
      value == ElevenBits(bits)
  IN  IF \/ frametime <= FrameTimeLow \/ frametime >= FrameTimeHigh
         \/ CalcCrc(bits) # CheckCrc(FourBits(bits, 13), inverted)
      THEN BadFrame
      ELSE [kind |-> IF value \in 1 .. 47 THEN "command" ELSE "throttle",
            value |-> value, telemetry |-> bits[12] = 1]

(* The transmitter: a one is three quarters of a bit time, a zero three       *)
(* eighths; in bidirectional mode the checksum is inverted.                  *)
Sent(w, inverted) ==
  LET data == BitsOf(w, 12)
      crc  == CalcCrc(data)
  IN  data \o BitsOf(IF inverted THEN 15 - crc ELSE crc, 4)

Width(bit, bitTime) ==
  IF bit = 1 THEN (bitTime * 3) \div 4 ELSE (bitTime * 3) \div 8

Received(bits, bitTime, inverted) ==
  LET widths == [i \in 1 .. 16 |-> Width(bits[i], bitTime)]
  IN  DecodeFrame(widths, 15 * bitTime + widths[16], inverted)

-----------------------------------------------------------------------------
(* GCR_ENCODE_TABLE *)
GcrTable == <<25, 27, 18, 19, 29, 21, 22, 23, 26, 9, 10, 11, 30, 13, 14, 15>>

Nibble(n, i) == (n \div (16 ^ i)) % 16

(* The checksum of a reply: the three nibbles and it exclude each other to    *)
(* all ones.                                                                *)
ReplyChecksum(value) == 15 - CalcCrc(BitsOf(value, 12))

(* encode_gcr_frame: sixteen bits to twenty by the table, and those to the    *)
(* levels of the line, where a one is a change.                             *)
GcrBits(value) ==
  BitsOf(GcrTable[Nibble(value, 2) + 1], 5) \o BitsOf(GcrTable[Nibble(value, 1) + 1], 5)
    \o BitsOf(GcrTable[Nibble(value, 0) + 1], 5)
    \o BitsOf(GcrTable[ReplyChecksum(value) + 1], 5)

Levels(value) ==
  LET bits == GcrBits(value)
      level[i \in 0 .. 20] == IF i = 0 THEN 1 ELSE Xor(bits[i], level[i - 1])
  IN  <<0>> \o [i \in 1 .. 21 |-> level[i - 1]]

(* erpm_to_12bit: the exponent makes the mantissa fit nine bits ... *)
ErpmShift(period) ==
  IF period < 512 THEN 0
  ELSE (CHOOSE i \in 9 .. 15 : period \div (2 ^ i) = 1) - 8

(* ... of the time of a rotor that runs; the handler casts it to 16 bits. *)
ErpmWord(time, runs) ==
  LET period == IF runs THEN time % 2 ^ 16 ELSE 2 ^ 16 - 1
  IN  ErpmShift(period) * 512 + period \div (2 ^ ErpmShift(period))

(* The first digits of the extended telemetry that next_frame sends. *)
EdtTypes == {2, 4, 6, 14}

(* The transmitter: what the changes of the levels stand for, digit by digit. *)
Digit(code) ==
  IF \E n \in 0 .. 15 : GcrTable[n + 1] = code
  THEN CHOOSE n \in 0 .. 15 : GcrTable[n + 1] = code ELSE 0

Changes(levels) == [i \in 1 .. 20 |-> Xor(levels[i + 2], levels[i + 1])]

ReplyDigits(levels) ==
  [d \in 1 .. 4 |-> Digit(FiveBits(Changes(levels), 5 * d - 4))]

ErpmTime(w) == (w % 512) * (2 ^ (w \div 512))

-----------------------------------------------------------------------------
CodecInit == word = 0
NextWord  == word' = (word + 1) % (LastWord + 1)
CodecSpec == CodecInit /\ [][NextWord]_word

-----------------------------------------------------------------------------
(* Every frame of an admitted bit time decodes to what was sent, in both      *)
(* polarities; sent in the other polarity, or with one pulse taken for the    *)
(* other kind, it is refused (dshot.rs:46-106).                             *)
Meant ==
  [kind |-> IF word \div 2 \in 1 .. 47 THEN "command" ELSE "throttle",
   value |-> word \div 2, telemetry |-> word % 2 = 1]

FramesDecode ==
  \A inverted \in BOOLEAN :
    LET sent == Sent(word, inverted)
        time == CHOOSE t \in BitTimes : TRUE
    IN  /\ \A t \in BitTimes : Received(sent, t, inverted) = Meant
        /\ Received(sent, time, ~inverted) = BadFrame
        /\ \A i \in 1 .. 16 :
             Received([sent EXCEPT ![i] = 1 - @], time, inverted) = BadFrame

(* A reply comes back as the word that was encoded, with a checksum that      *)
(* fits, and its line never rests for more than three bits, so that the       *)
(* receiver keeps its clock; an eRPM word keeps the time to one part in 256    *)
(* and is never taken for extended telemetry (dshot.rs:116-157, edt.rs:11-21).*)
ReplyDecodes ==
  LET levels == Levels(word)
      digits == ReplyDigits(levels)
  IN  /\ digits[1] * 256 + digits[2] * 16 + digits[3] = word
      /\ digits[4] = ReplyChecksum(word)
      /\ \A i \in 1 .. 19 : \E j \in i .. i + 2 : levels[j] # levels[j + 1]

ErpmKept ==
  \A time \in {word, 16 * word, 16 * word + 15} :
    LET w == ErpmWord(time, TRUE)
    IN  /\ w \in 0 .. 4095
        /\ ErpmTime(w) <= time /\ (time - ErpmTime(w)) * 256 <= time
        /\ w \div 256 \notin EdtTypes

RepliesDecode == ReplyDecodes /\ ErpmKept

=============================================================================
