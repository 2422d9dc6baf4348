------------------------------ MODULE CodecProofs ------------------------------
(***************************************************************************)
(* That every frame and every reply comes back whole: every twelve-bit word, at  *)
(* every bit time that the window admits, in both polarities.                *)
(*                                                                         *)
(* A pulse is taken for what it is by half of an average bit, which lies between  *)
(* the two widths at every bit time; so the bits that are decoded are those that   *)
(* were sent.  Twelve of them are the word's, which is one of a kind, and the      *)
(* checksum differs as soon as one bit of a nibble, or the polarity, does.        *)
(***************************************************************************)
EXTENDS Codec, SequenceTheorems, TLAPS

Bit == {0, 1}
Words == 0 .. 4095

-----------------------------------------------------------------------------
(***************************************************************************)
(* Bits and numbers.                                                        *)
(***************************************************************************)

BitAt(n, power) == (n \div power) % 2

LEMMA TwelveBitsOf ==
  ASSUME NEW n \in Nat
  PROVE  /\ BitsOf(n, 12)[1] = BitAt(n, 2048) /\ BitsOf(n, 12)[2] = BitAt(n, 1024)
         /\ BitsOf(n, 12)[3] = BitAt(n, 512) /\ BitsOf(n, 12)[4] = BitAt(n, 256)
         /\ BitsOf(n, 12)[5] = BitAt(n, 128) /\ BitsOf(n, 12)[6] = BitAt(n, 64)
         /\ BitsOf(n, 12)[7] = BitAt(n, 32) /\ BitsOf(n, 12)[8] = BitAt(n, 16)
         /\ BitsOf(n, 12)[9] = BitAt(n, 8) /\ BitsOf(n, 12)[10] = BitAt(n, 4)
         /\ BitsOf(n, 12)[11] = BitAt(n, 2) /\ BitsOf(n, 12)[12] = BitAt(n, 1)
BY SMT DEF BitsOf, BitAt

LEMMA FiveBitsOf ==
  ASSUME NEW n \in Nat
  PROVE  /\ BitsOf(n, 5)[1] = BitAt(n, 16) /\ BitsOf(n, 5)[2] = BitAt(n, 8)
         /\ BitsOf(n, 5)[3] = BitAt(n, 4) /\ BitsOf(n, 5)[4] = BitAt(n, 2)
         /\ BitsOf(n, 5)[5] = BitAt(n, 1)
BY SMT DEF BitsOf, BitAt

LEMMA FourBitsOf ==
  ASSUME NEW n \in Nat
  PROVE  /\ BitsOf(n, 4)[1] = BitAt(n, 8) /\ BitsOf(n, 4)[2] = BitAt(n, 4)
         /\ BitsOf(n, 4)[3] = BitAt(n, 2) /\ BitsOf(n, 4)[4] = BitAt(n, 1)
BY SMT DEF BitsOf, BitAt

LEMMA BitsAre ==
  ASSUME NEW n \in Nat, NEW size \in {4, 5, 12}
  PROVE  /\ \A i \in 1 .. size : BitsOf(n, size)[i] \in Bit
         /\ BitsOf(n, size) \in Seq(Bit) /\ Len(BitsOf(n, size)) = size
<1>1. \A k \in {1, 2, 4, 8, 16, 32, 64, 128, 256, 512, 1024, 2048} : BitAt(n, k) \in Bit
  BY SMT DEF BitAt, Bit
<1>2. \A i \in 1 .. size : BitsOf(n, size)[i] \in Bit
  <2>1. /\ \A i \in 1 .. 4 : i \in {1, 2, 3, 4}
        /\ \A i \in 1 .. 5 : i \in {1, 2, 3, 4, 5}
        /\ \A i \in 1 .. 12 : i \in {1, 2, 3, 4, 5, 6, 7, 8, 9, 10, 11, 12}
    BY SMT
  <2>2. CASE size = 4
    BY <1>1, <2>1, <2>2, FourBitsOf
  <2>3. CASE size = 5
    BY <1>1, <2>1, <2>3, FiveBitsOf
  <2>4. CASE size = 12
    BY <1>1, <2>1, <2>4, TwelveBitsOf
  <2> QED BY <2>2, <2>3, <2>4
<1>3. BitsOf(n, size) \in Seq(Bit) /\ Len(BitsOf(n, size)) = size
  <2> DEFINE b == BitsOf(n, size)
  <2>1. b \in [1 .. size -> Bit] /\ size \in Nat
    BY <1>2 DEF BitsOf
  <2> HIDE DEF b
  <2>2. b \in Seq(Bit) /\ Len(b) = size
    BY <2>1
  <2> QED BY <2>2 DEF b
<1> QED BY <1>2, <1>3

LEMMA WordOfBits ==
  ASSUME NEW n \in Words
  PROVE  /\ n \div 2 = ElevenBits(BitsOf(n, 12)) /\ n % 2 = BitsOf(n, 12)[12]
<1> DEFINE b == BitsOf(n, 12)
           q2 == n \div 2
           q4 == n \div 4
           q8 == n \div 8
           q16 == n \div 16
           q32 == n \div 32
           q64 == n \div 64
           q128 == n \div 128
           q256 == n \div 256
           q512 == n \div 512
           q1024 == n \div 1024
           q2048 == n \div 2048
<1>1. n \in Nat /\ n < 4096
  BY DEF Words
<1>2. n = 2 * q2 + b[12] /\ b[12] \in Bit
  <2>1. n = 2 * (n \div 2) + (n % 2) /\ n % 2 \in Bit
    BY <1>1, SMT DEF Bit
  <2>2. BitsOf(n, 12)[12] = BitAt(n, 1)
    BY <1>1, TwelveBitsOf
  <2>3. BitAt(n, 1) = n % 2
    BY <1>1, SMT DEF BitAt
  <2> QED BY <2>1, <2>2, <2>3
<1>3. q2 = 2 * q4 + b[11] /\ b[11] \in Bit /\ q2 \in Nat
  <2>1. (n \div 2) = 2 * (n \div 4) + ((n \div 2) % 2) /\ (n \div 2) % 2 \in Bit /\ n \div 2 \in Nat
    BY <1>1, SMT DEF Bit
  <2>2. BitsOf(n, 12)[11] = BitAt(n, 2)
    BY <1>1, TwelveBitsOf
  <2> QED BY <2>1, <2>2 DEF BitAt
<1>4. q4 = 2 * q8 + b[10] /\ b[10] \in Bit /\ q4 \in Nat
  <2>1. (n \div 4) = 2 * (n \div 8) + ((n \div 4) % 2) /\ (n \div 4) % 2 \in Bit /\ n \div 4 \in Nat
    BY <1>1, SMT DEF Bit
  <2>2. BitsOf(n, 12)[10] = BitAt(n, 4)
    BY <1>1, TwelveBitsOf
  <2> QED BY <2>1, <2>2 DEF BitAt
<1>5. q8 = 2 * q16 + b[9] /\ b[9] \in Bit /\ q8 \in Nat
  <2>1. (n \div 8) = 2 * (n \div 16) + ((n \div 8) % 2) /\ (n \div 8) % 2 \in Bit /\ n \div 8 \in Nat
    BY <1>1, SMT DEF Bit
  <2>2. BitsOf(n, 12)[9] = BitAt(n, 8)
    BY <1>1, TwelveBitsOf
  <2> QED BY <2>1, <2>2 DEF BitAt
<1>6. q16 = 2 * q32 + b[8] /\ b[8] \in Bit /\ q16 \in Nat
  <2>1. (n \div 16) = 2 * (n \div 32) + ((n \div 16) % 2) /\ (n \div 16) % 2 \in Bit /\ n \div 16 \in Nat
    BY <1>1, SMT DEF Bit
  <2>2. BitsOf(n, 12)[8] = BitAt(n, 16)
    BY <1>1, TwelveBitsOf
  <2> QED BY <2>1, <2>2 DEF BitAt
<1>7. q32 = 2 * q64 + b[7] /\ b[7] \in Bit /\ q32 \in Nat
  <2>1. (n \div 32) = 2 * (n \div 64) + ((n \div 32) % 2) /\ (n \div 32) % 2 \in Bit /\ n \div 32 \in Nat
    BY <1>1, SMT DEF Bit
  <2>2. BitsOf(n, 12)[7] = BitAt(n, 32)
    BY <1>1, TwelveBitsOf
  <2> QED BY <2>1, <2>2 DEF BitAt
<1>8. q64 = 2 * q128 + b[6] /\ b[6] \in Bit /\ q64 \in Nat
  <2>1. (n \div 64) = 2 * (n \div 128) + ((n \div 64) % 2) /\ (n \div 64) % 2 \in Bit /\ n \div 64 \in Nat
    BY <1>1, SMT DEF Bit
  <2>2. BitsOf(n, 12)[6] = BitAt(n, 64)
    BY <1>1, TwelveBitsOf
  <2> QED BY <2>1, <2>2 DEF BitAt
<1>9. q128 = 2 * q256 + b[5] /\ b[5] \in Bit /\ q128 \in Nat
  <2>1. (n \div 128) = 2 * (n \div 256) + ((n \div 128) % 2) /\ (n \div 128) % 2 \in Bit /\ n \div 128 \in Nat
    BY <1>1, SMT DEF Bit
  <2>2. BitsOf(n, 12)[5] = BitAt(n, 128)
    BY <1>1, TwelveBitsOf
  <2> QED BY <2>1, <2>2 DEF BitAt
<1>10. q256 = 2 * q512 + b[4] /\ b[4] \in Bit /\ q256 \in Nat
  <2>1. (n \div 256) = 2 * (n \div 512) + ((n \div 256) % 2) /\ (n \div 256) % 2 \in Bit /\ n \div 256 \in Nat
    BY <1>1, SMT DEF Bit
  <2>2. BitsOf(n, 12)[4] = BitAt(n, 256)
    BY <1>1, TwelveBitsOf
  <2> QED BY <2>1, <2>2 DEF BitAt
<1>11. q512 = 2 * q1024 + b[3] /\ b[3] \in Bit /\ q512 \in Nat
  <2>1. (n \div 512) = 2 * (n \div 1024) + ((n \div 512) % 2) /\ (n \div 512) % 2 \in Bit /\ n \div 512 \in Nat
    BY <1>1, SMT DEF Bit
  <2>2. BitsOf(n, 12)[3] = BitAt(n, 512)
    BY <1>1, TwelveBitsOf
  <2> QED BY <2>1, <2>2 DEF BitAt
<1>12. q1024 = 2 * q2048 + b[2] /\ b[2] \in Bit /\ q1024 \in Nat
  <2>1. (n \div 1024) = 2 * (n \div 2048) + ((n \div 1024) % 2) /\ (n \div 1024) % 2 \in Bit /\ n \div 1024 \in Nat
    BY <1>1, SMT DEF Bit
  <2>2. BitsOf(n, 12)[2] = BitAt(n, 1024)
    BY <1>1, TwelveBitsOf
  <2> QED BY <2>1, <2>2 DEF BitAt
<1>13. q2048 = b[1] /\ b[1] \in Bit /\ q2048 \in Nat
  <2>0. n \div 2048 = 0 \/ n \div 2048 = 1
    BY <1>1, SMT
  <2>1. (n \div 2048) = (n \div 2048) % 2 /\ (n \div 2048) % 2 \in Bit /\ n \div 2048 \in Nat
    BY <2>0, SMT DEF Bit
  <2>2. BitsOf(n, 12)[1] = BitAt(n, 2048)
    BY <1>1, TwelveBitsOf
  <2> QED BY <2>1, <2>2 DEF BitAt
<1>14. n % 2 = b[12]
  <2>1. BitsOf(n, 12)[12] = BitAt(n, 1)
    BY <1>1, TwelveBitsOf
  <2>2. BitAt(n, 1) = n % 2
    BY <1>1, SMT DEF BitAt
  <2> QED BY <2>1, <2>2
<1> HIDE DEF b, q2, q4, q8, q16, q32, q64, q128, q256, q512, q1024, q2048
<1>15. /\ b[1] \in Int /\ b[2] \in Int /\ b[3] \in Int /\ b[4] \in Int /\ b[5] \in Int
       /\ b[6] \in Int /\ b[7] \in Int /\ b[8] \in Int /\ b[9] \in Int /\ b[10] \in Int
       /\ b[11] \in Int /\ b[12] \in Int
  <2>1. \A bit \in Bit : bit \in Int
    BY DEF Bit
  <2> QED
    BY <1>2, <1>3, <1>4, <1>5, <1>6, <1>7, <1>8, <1>9, <1>10, <1>11, <1>12, <1>13, <2>1
<1>16. q256 = b[1] * 8 + b[2] * 4 + b[3] * 2 + b[4]
  BY <1>10, <1>11, <1>12, <1>13, <1>15
<1>17. q16 = q256 * 16 + (b[5] * 8 + b[6] * 4 + b[7] * 2 + b[8])
  BY <1>6, <1>7, <1>8, <1>9, <1>10, <1>15
<1>18. q2 = q16 * 8 + b[9] * 4 + b[10] * 2 + b[11]
  BY <1>2, <1>3, <1>4, <1>5, <1>6, <1>15
<1>19. FourBits(b, 1) = q256 /\ FourBits(b, 5) = b[5] * 8 + b[6] * 4 + b[7] * 2 + b[8]
  BY <1>15, <1>16 DEF FourBits
<1>20. q2 = ElevenBits(b)
  BY <1>10, <1>15, <1>17, <1>18, <1>19 DEF ElevenBits
<1> QED BY <1>14, <1>20 DEF b, q2

(* Four bits are a number of their own.                                      *)
Four(a, b, c, d) == a * 8 + b * 4 + c * 2 + d

LEMMA FourBitsFit ==
  ASSUME NEW a \in Bit, NEW b \in Bit, NEW c \in Bit, NEW d \in Bit
  PROVE  Four(a, b, c, d) \in 0 .. 15
BY SMT DEF Bit, Four

LEMMA FourBitsBack ==
  ASSUME NEW n \in 0 .. 15
  PROVE  FourBits(BitsOf(n, 4), 1) = n
<1> DEFINE b == BitsOf(n, 4)
<1>1. b[1] = (n \div 8) % 2 /\ b[2] = (n \div 4) % 2 /\ b[3] = (n \div 2) % 2 /\ b[4] = n % 2
  BY SMT DEF BitsOf
<1> HIDE DEF b
<1>2. b[1] * 8 + b[2] * 4 + b[3] * 2 + b[4] = n
  BY <1>1, SMT
<1>3. FourBits(b, 1) = b[1] * 8 + b[2] * 4 + b[3] * 2 + b[4]
  BY DEF FourBits
<1> QED BY <1>2, <1>3 DEF b

LEMMA FiveBitsBack ==
  ASSUME NEW n \in 0 .. 31
  PROVE  FiveBits(BitsOf(n, 5), 1) = n
<1> DEFINE b == BitsOf(n, 5)
<1>1. b[1] = (n \div 16) % 2 /\ b[2] = (n \div 8) % 2 /\ b[3] = (n \div 4) % 2
      /\ b[4] = (n \div 2) % 2 /\ b[5] = n % 2
  BY SMT DEF BitsOf
<1> HIDE DEF b
<1>2. b[1] * 16 + (b[2] * 8 + b[3] * 4 + b[4] * 2 + b[5]) = n
  BY <1>1, SMT
<1>3. FiveBits(b, 1) = b[1] * 16 + (b[2] * 8 + b[3] * 4 + b[4] * 2 + b[5])
  BY DEF FiveBits, FourBits
<1> QED BY <1>2, <1>3 DEF b

-----------------------------------------------------------------------------
(***************************************************************************)
(* A pulse is taken for what it is by half of an average bit, and half lies      *)
(* between the two widths at every bit time.                                  *)
(***************************************************************************)

FrameTime(bits, bitTime) == 15 * bitTime + Width(bits[16], bitTime)

Admits(frametime) == FrameTimeLow < frametime /\ frametime < FrameTimeHigh

(* The bits that decode_frame goes on with. *)
Judged(bits) == [i \in 1 .. 16 |-> IF bits[i] = 1 THEN 1 ELSE 0]

Decoded(bits, inverted) ==
  IF CalcCrc(bits) # CheckCrc(FourBits(bits, 13), inverted)
  THEN BadFrame
  ELSE [kind |-> IF ElevenBits(bits) \in 1 .. 47 THEN "command" ELSE "throttle",
        value |-> ElevenBits(bits), telemetry |-> bits[12] = 1]

LEMMA WidthsApart ==
  ASSUME NEW bits, NEW bitTime \in Nat, FrameTime(bits, bitTime) > 256, NEW bit
  PROVE  Width(bit, bitTime) > FrameTime(bits, bitTime) \div 32 <=> bit = 1
<1> DEFINE last == Width(bits[16], bitTime)
           half == (15 * bitTime + last) \div 32
<1>1. last \in Nat /\ 4 * last <= 3 * bitTime /\ 8 * last >= 3 * bitTime - 8
  BY SMT DEF Width
<1> HIDE DEF last
<1>2. 15 * bitTime + last > 256 /\ FrameTime(bits, bitTime) \div 32 = half
  BY DEF FrameTime, last
<1>3. half \in Nat /\ 32 * half <= 15 * bitTime + last
      /\ 15 * bitTime + last < 32 * half + 32
  BY <1>1, SMT
<1> HIDE DEF half
<1>4. bitTime >= 16
  BY <1>1, <1>2, SMT
<1>5. (bitTime * 3) \div 4 > half
  BY <1>1, <1>3, <1>4, SMT
<1>6. ~((bitTime * 3) \div 8 > half)
  BY <1>1, <1>3, <1>4, SMT
<1> QED BY <1>2, <1>5, <1>6 DEF Width

LEMMA ReceivedIsDecoded ==
  ASSUME NEW bits, NEW bitTime \in Nat, NEW inverted \in BOOLEAN
  PROVE  Received(bits, bitTime, inverted) =
           IF Admits(FrameTime(bits, bitTime))
           THEN Decoded(Judged(bits), inverted) ELSE BadFrame
<1> DEFINE time == FrameTime(bits, bitTime)
           widths == [i \in 1 .. 16 |-> Width(bits[i], bitTime)]
<1>1. Received(bits, bitTime, inverted) = DecodeFrame(widths, time, inverted)
  BY DEF Received, FrameTime
<1>2. time \in Nat /\ FrameTimeLow \in Nat /\ FrameTimeHigh \in Nat
  BY CodecAssumption, SMT DEF FrameTime, Width
<1>3. CASE Admits(time)
  <2>1. time > 256 /\ ~(time <= FrameTimeLow \/ time >= FrameTimeHigh)
    BY <1>2, <1>3, CodecAssumption DEF Admits
  <2>2. [i \in 1 .. 16 |-> IF widths[i] > time \div 32 THEN 1 ELSE 0] = Judged(bits)
    <3>1. \A i \in 1 .. 16 : widths[i] > time \div 32 <=> bits[i] = 1
      BY <2>1, WidthsApart
    <3> QED BY <3>1 DEF Judged
  <2> HIDE DEF widths, time
  <2>3. DecodeFrame(widths, time, inverted) = Decoded(Judged(bits), inverted)
    BY <2>1, <2>2 DEF DecodeFrame, Decoded
  <2> QED BY <1>1, <1>3, <2>3, Zenon DEF time, widths
<1>4. CASE ~Admits(time)
  <2>1. time <= FrameTimeLow \/ time >= FrameTimeHigh
    BY <1>2, <1>4 DEF Admits
  <2> HIDE DEF widths, time
  <2>2. DecodeFrame(widths, time, inverted) = BadFrame
    BY <2>1 DEF DecodeFrame
  <2> QED BY <1>1, <1>4, <2>2, Zenon DEF time, widths
<1> QED BY <1>3, <1>4

LEMMA AssumedTimesAdmitted ==
  ASSUME NEW bits, NEW bitTime \in BitTimes
  PROVE  Admits(FrameTime(bits, bitTime)) /\ bitTime \in Nat
<1>1. /\ bitTime \in Nat /\ FrameTimeLow \in Nat /\ FrameTimeHigh \in Nat
      /\ FrameTimeLow < 15 * bitTime + (bitTime * 3) \div 8
      /\ 15 * bitTime + (bitTime * 3) \div 4 < FrameTimeHigh
  BY CodecAssumption
<1>2. (bitTime * 3) \div 8 <= (bitTime * 3) \div 4
      /\ (bitTime * 3) \div 8 \in Nat /\ (bitTime * 3) \div 4 \in Nat
  BY <1>1, SMT
<1> DEFINE short == (bitTime * 3) \div 8
           long == (bitTime * 3) \div 4
<1>3. FrameTime(bits, bitTime) \in {15 * bitTime + short, 15 * bitTime + long}
  BY DEF FrameTime, Width
<1> HIDE DEF short, long
<1>4. FrameTimeLow < 15 * bitTime + short /\ 15 * bitTime + long < FrameTimeHigh
      /\ short <= long /\ short \in Nat /\ long \in Nat
  BY <1>1, <1>2 DEF short, long
<1> QED BY <1>1, <1>3, <1>4 DEF Admits

-----------------------------------------------------------------------------
(***************************************************************************)
(* The checksum.                                                            *)
(***************************************************************************)

CrcColumn(bits, i) == (bits[i] + bits[i + 4] + bits[i + 8]) % 2

LEMMA CrcIs ==
  ASSUME NEW bits, \A i \in 1 .. 12 : bits[i] \in Bit
  PROVE  /\ CalcCrc(bits) = Four(CrcColumn(bits, 1), CrcColumn(bits, 2),
                              CrcColumn(bits, 3), CrcColumn(bits, 4))
         /\ \A i \in 1 .. 4 : CrcColumn(bits, i) \in Bit
         /\ CalcCrc(bits) \in 0 .. 15
<1> DEFINE columns == [i \in 1 .. 4 |-> (bits[i] + bits[i + 4] + bits[i + 8]) % 2]
<1>1. \A i \in 1 .. 4 : columns[i] = CrcColumn(bits, i)
  BY DEF CrcColumn
<1>2. CalcCrc(bits) = FourBits(columns, 1)
  BY DEF CalcCrc
<1>3. ASSUME NEW i \in 1 .. 4
      PROVE  CrcColumn(bits, i) \in Bit
  <2>1. bits[i] \in Bit /\ bits[i + 4] \in Bit /\ bits[i + 8] \in Bit
    <3>1. i \in 1 .. 12 /\ i + 4 \in 1 .. 12 /\ i + 8 \in 1 .. 12
      BY SMT
    <3> QED BY <3>1
  <2> QED BY <2>1, SMT DEF CrcColumn, Bit
<1> HIDE DEF columns
<1>4. CalcCrc(bits) = Four(columns[1], columns[2], columns[3], columns[4])
  BY <1>2 DEF FourBits, Four
<1>5. /\ columns[1] = CrcColumn(bits, 1) /\ columns[2] = CrcColumn(bits, 2)
      /\ columns[3] = CrcColumn(bits, 3) /\ columns[4] = CrcColumn(bits, 4)
      /\ CrcColumn(bits, 1) \in Bit /\ CrcColumn(bits, 2) \in Bit
      /\ CrcColumn(bits, 3) \in Bit /\ CrcColumn(bits, 4) \in Bit
  BY <1>1, <1>3
<1> QED BY <1>3, <1>4, <1>5, FourBitsFit

(* One data bit taken for the other changes it.                               *)
LEMMA CrcFlips ==
  ASSUME NEW bits, \A i \in 1 .. 12 : bits[i] \in Bit, NEW at \in 1 .. 12,
         NEW flipped, \A i \in 1 .. 12 : flipped[i] = IF i = at THEN 1 - bits[i] ELSE bits[i]
  PROVE  CalcCrc(flipped) # CalcCrc(bits)
<1>1. \A i \in 1 .. 12 : flipped[i] \in Bit
  BY DEF Bit
<1>2. \E i \in 1 .. 4 : CrcColumn(flipped, i) # CrcColumn(bits, i)
  <2> DEFINE column == IF at <= 4 THEN at ELSE IF at <= 8 THEN at - 4 ELSE at - 8
  <2>1. column \in 1 .. 4 /\ at \in {column, column + 4, column + 8}
        /\ column + 4 \in 1 .. 12 /\ column + 8 \in 1 .. 12 /\ column \in 1 .. 12
        /\ column # column + 4 /\ column # column + 8 /\ column + 4 # column + 8
    BY SMT
  <2> HIDE DEF column
  <2>2. bits[column] \in Bit /\ bits[column + 4] \in Bit /\ bits[column + 8] \in Bit
    BY <2>1
  <2> DEFINE a == bits[column]
             b == bits[column + 4]
             c == bits[column + 8]
  <2>3. \/ flipped[column] = 1 - a /\ flipped[column + 4] = b /\ flipped[column + 8] = c
        \/ flipped[column] = a /\ flipped[column + 4] = 1 - b /\ flipped[column + 8] = c
        \/ flipped[column] = a /\ flipped[column + 4] = b /\ flipped[column + 8] = 1 - c
    BY <2>1
  <2> HIDE DEF a, b, c
  <2>4. CrcColumn(bits, column) = (a + b + c) % 2
    BY DEF CrcColumn, a, b, c
  <2>5. a \in Bit /\ b \in Bit /\ c \in Bit
    BY <2>2 DEF a, b, c
  <2>6. /\ ((1 - a) + b + c) % 2 # (a + b + c) % 2
        /\ (a + (1 - b) + c) % 2 # (a + b + c) % 2
        /\ (a + b + (1 - c)) % 2 # (a + b + c) % 2
    BY <2>5, SMT DEF Bit
  <2>7. CrcColumn(flipped, column) # CrcColumn(bits, column)
    BY <2>3, <2>4, <2>6 DEF CrcColumn
  <2> QED BY <2>1, <2>7
<1>3. /\ CalcCrc(flipped) = Four(CrcColumn(flipped, 1), CrcColumn(flipped, 2),
                              CrcColumn(flipped, 3), CrcColumn(flipped, 4))
      /\ \A i \in 1 .. 4 : CrcColumn(flipped, i) \in Bit
  BY <1>1, CrcIs
<1>4. /\ CalcCrc(bits) = Four(CrcColumn(bits, 1), CrcColumn(bits, 2),
                           CrcColumn(bits, 3), CrcColumn(bits, 4))
      /\ \A i \in 1 .. 4 : CrcColumn(bits, i) \in Bit
  BY CrcIs
<1>5. \A i \in 1 .. 4 : i = 1 \/ i = 2 \/ i = 3 \/ i = 4
  BY SMT
<1>6. /\ 1 \in 1 .. 4 /\ 2 \in 1 .. 4 /\ 3 \in 1 .. 4 /\ 4 \in 1 .. 4
  BY SMT
<1>7. ASSUME CalcCrc(flipped) = CalcCrc(bits)
      PROVE  /\ CrcColumn(flipped, 1) = CrcColumn(bits, 1)
             /\ CrcColumn(flipped, 2) = CrcColumn(bits, 2)
             /\ CrcColumn(flipped, 3) = CrcColumn(bits, 3)
             /\ CrcColumn(flipped, 4) = CrcColumn(bits, 4)
  <2>1. Four(CrcColumn(flipped, 1), CrcColumn(flipped, 2),
             CrcColumn(flipped, 3), CrcColumn(flipped, 4))
          = Four(CrcColumn(bits, 1), CrcColumn(bits, 2), CrcColumn(bits, 3), CrcColumn(bits, 4))
    BY <1>3, <1>4, <1>7
  <2>2. /\ CrcColumn(flipped, 1) \in Bit /\ CrcColumn(flipped, 2) \in Bit
        /\ CrcColumn(flipped, 3) \in Bit /\ CrcColumn(flipped, 4) \in Bit
        /\ CrcColumn(bits, 1) \in Bit /\ CrcColumn(bits, 2) \in Bit
        /\ CrcColumn(bits, 3) \in Bit /\ CrcColumn(bits, 4) \in Bit
    BY <1>3, <1>4, <1>6
  <2> QED BY <2>1, <2>2 DEF Four, Bit
<1> QED BY <1>2, <1>5, <1>7

-----------------------------------------------------------------------------
(***************************************************************************)
(* What is sent, and what becomes of it.                                     *)
(***************************************************************************)

FrameBits == [1 .. 16 -> Bit]

LEMMA JudgedAsSent ==
  ASSUME NEW bits \in FrameBits
  PROVE  Judged(bits) = bits
<1>1. \A i \in 1 .. 16 : (IF bits[i] = 1 THEN 1 ELSE 0) = bits[i]
  BY DEF FrameBits, Bit
<1> QED BY <1>1 DEF Judged, FrameBits

LEMMA SentBits ==
  ASSUME NEW w \in Words, NEW inverted \in BOOLEAN
  PROVE  /\ Sent(w, inverted) \in FrameBits
         /\ \A i \in 1 .. 12 : Sent(w, inverted)[i] = BitsOf(w, 12)[i]
         /\ CalcCrc(BitsOf(w, 12)) \in 0 .. 15
         /\ FourBits(Sent(w, inverted), 13)
              = IF inverted THEN 15 - CalcCrc(BitsOf(w, 12)) ELSE CalcCrc(BitsOf(w, 12))
<1> DEFINE data == BitsOf(w, 12)
           crc == CalcCrc(data)
           check == IF inverted THEN 15 - crc ELSE crc
           tail == BitsOf(check, 4)
           sent == data \o tail
<1>1. /\ \A i \in 1 .. 12 : data[i] \in Bit
      /\ data \in Seq(Bit) /\ Len(data) = 12
  <2>1. w \in Nat /\ 12 \in {4, 5, 12}
    BY DEF Words
  <2> QED BY <2>1, BitsAre
<1> HIDE DEF data
<1>2. crc \in 0 .. 15
  BY <1>1, CrcIs
<1> HIDE DEF crc
<1>3. check \in 0 .. 15
  BY <1>2
<1> HIDE DEF check
<1>4. /\ \A i \in 1 .. 4 : tail[i] \in Bit
      /\ tail \in Seq(Bit) /\ Len(tail) = 4
  <2>1. check \in Nat /\ 4 \in {4, 5, 12}
    BY <1>3
  <2> QED BY <2>1, BitsAre
<1>5. FourBits(tail, 1) = check
  BY <1>3, FourBitsBack
<1> HIDE DEF tail
<1>6. /\ sent \in Seq(Bit) /\ Len(sent) = 16
      /\ \A i \in 1 .. 16 : sent[i] = IF i <= 12 THEN data[i] ELSE tail[i - 12]
  <2>1. /\ sent \in Seq(Bit) /\ Len(sent) = Len(data) + Len(tail)
        /\ \A i \in 1 .. Len(data) + Len(tail) :
             sent[i] = IF i <= Len(data) THEN data[i] ELSE tail[i - Len(data)]
    BY <1>1, <1>4, ConcatProperties, Zenon
  <2> HIDE DEF sent
  <2> QED BY <1>1, <1>4, <2>1
<1> HIDE DEF sent
<1>7. sent \in FrameBits
  <2>1. sent \in [1 .. Len(sent) -> Bit]
    BY <1>6, LenProperties, Zenon
  <2> QED BY <1>6, <2>1 DEF FrameBits
<1>8. \A i \in 1 .. 12 : sent[i] = data[i]
  BY <1>6
<1>9. FourBits(sent, 13) = check
  <2>1. sent[13] = tail[1] /\ sent[14] = tail[2] /\ sent[15] = tail[3] /\ sent[16] = tail[4]
    BY <1>6
  <2> QED BY <1>5, <2>1 DEF FourBits
<1>10. Sent(w, inverted) = sent
  BY DEF Sent, sent, tail, check, crc, data
<1> QED BY <1>2, <1>7, <1>8, <1>9, <1>10 DEF data, crc, check

LEMMA CrcOfData ==
  ASSUME NEW a, NEW b, \A i \in 1 .. 12 : a[i] = b[i]
  PROVE  CalcCrc(a) = CalcCrc(b)
<1>1. \A i \in 1 .. 4 : a[i] = b[i] /\ a[i + 4] = b[i + 4] /\ a[i + 8] = b[i + 8]
  BY SMT
<1>2. [i \in 1 .. 4 |-> (a[i] + a[i + 4] + a[i + 8]) % 2]
        = [i \in 1 .. 4 |-> (b[i] + b[i + 4] + b[i + 8]) % 2]
  BY <1>1
<1> QED BY <1>2, Zenon DEF CalcCrc

LEMMA ElevenOfData ==
  ASSUME NEW a, NEW b, \A i \in 1 .. 12 : a[i] = b[i]
  PROVE  ElevenBits(a) = ElevenBits(b) /\ a[12] = b[12]
<1>1. /\ a[1] = b[1] /\ a[2] = b[2] /\ a[3] = b[3] /\ a[4] = b[4] /\ a[5] = b[5]
      /\ a[6] = b[6] /\ a[7] = b[7] /\ a[8] = b[8] /\ a[9] = b[9] /\ a[10] = b[10]
      /\ a[11] = b[11] /\ a[12] = b[12]
  BY SMT
<1>2. FourBits(a, 1) = FourBits(b, 1) /\ FourBits(a, 5) = FourBits(b, 5)
  BY <1>1 DEF FourBits
<1> QED BY <1>1, <1>2, Zenon DEF ElevenBits

LEMMA ChecksApart ==
  ASSUME NEW crc \in 0 .. 15, NEW inverted \in BOOLEAN
  PROVE  LET check == IF inverted THEN 15 - crc ELSE crc
         IN  CheckCrc(check, inverted) = crc /\ CheckCrc(check, ~inverted) # crc
<1>1. CASE inverted
  BY <1>1, SMT DEF CheckCrc
<1>2. CASE ~inverted
  BY <1>2, SMT DEF CheckCrc
<1> QED BY <1>1, <1>2

LEMMA CheckOwn ==
  ASSUME NEW a \in 0 .. 15, NEW b \in 0 .. 15, NEW inverted \in BOOLEAN,
         CheckCrc(a, inverted) = CheckCrc(b, inverted)
  PROVE  a = b
<1>1. CASE inverted
  BY <1>1, SMT DEF CheckCrc
<1>2. CASE ~inverted
  BY <1>2 DEF CheckCrc
<1> QED BY <1>1, <1>2

LEMMA SentDecodes ==
  ASSUME word \in Words, NEW inverted \in BOOLEAN
  PROVE  /\ Decoded(Sent(word, inverted), inverted) = Meant
         /\ Decoded(Sent(word, inverted), ~inverted) = BadFrame
<1> DEFINE sent == Sent(word, inverted)
           data == BitsOf(word, 12)
           crc == CalcCrc(data)
           check == IF inverted THEN 15 - crc ELSE crc
<1>1. /\ sent \in FrameBits /\ \A i \in 1 .. 12 : sent[i] = data[i]
      /\ crc \in 0 .. 15 /\ FourBits(sent, 13) = check
  BY SentBits
<1>2. CheckCrc(check, inverted) = crc /\ CheckCrc(check, ~inverted) # crc
  BY <1>1, ChecksApart, Zenon
<1>3. word \div 2 = ElevenBits(data) /\ word % 2 = data[12]
  BY WordOfBits
<1> HIDE DEF sent, data, check
<1>4. CalcCrc(sent) = crc
  BY <1>1, CrcOfData
<1>5. ElevenBits(sent) = word \div 2 /\ sent[12] = word % 2
  BY <1>1, <1>3, ElevenOfData
<1> HIDE DEF crc
<1>6. Decoded(sent, inverted) = Meant
  BY <1>1, <1>2, <1>4, <1>5, Zenon DEF Decoded, Meant
<1>7. Decoded(sent, ~inverted) = BadFrame
  BY <1>1, <1>2, <1>4, Zenon DEF Decoded
<1> QED BY <1>6, <1>7 DEF sent

LEMMA FlippedRefused ==
  ASSUME word \in Words, NEW inverted \in BOOLEAN, NEW at \in 1 .. 16
  PROVE  /\ [Sent(word, inverted) EXCEPT ![at] = 1 - @] \in FrameBits
         /\ Decoded([Sent(word, inverted) EXCEPT ![at] = 1 - @], inverted) = BadFrame
<1> DEFINE sent == Sent(word, inverted)
           data == BitsOf(word, 12)
           crc == CalcCrc(data)
           check == IF inverted THEN 15 - crc ELSE crc
           flipped == [sent EXCEPT ![at] = 1 - @]
<1>1. /\ sent \in FrameBits /\ \A i \in 1 .. 12 : sent[i] = data[i]
      /\ crc \in 0 .. 15 /\ FourBits(sent, 13) = check
  BY SentBits
<1>2. CheckCrc(check, inverted) = crc
  BY <1>1, ChecksApart, Zenon
<1>3. check \in 0 .. 15
  BY <1>1
<1> HIDE DEF sent, data, check
<1>4. CalcCrc(sent) = crc
  BY <1>1, CrcOfData
<1> HIDE DEF crc
<1>5. \A i \in 1 .. 16 : sent[i] \in Bit
  BY <1>1 DEF FrameBits
<1>6. \A i \in 1 .. 16 : flipped[i] = IF i = at THEN 1 - sent[i] ELSE sent[i]
  BY <1>1 DEF FrameBits
<1>7. flipped \in FrameBits
  <2>1. \A bit \in Bit : 1 - bit \in Bit
    BY DEF Bit
  <2> QED BY <1>1, <1>5, <2>1 DEF FrameBits
<1> HIDE DEF flipped
<1>8. CASE at \in 1 .. 12
  <2>1. /\ \A i \in 1 .. 12 : sent[i] \in Bit
        /\ \A i \in 1 .. 12 : flipped[i] = IF i = at THEN 1 - sent[i] ELSE sent[i]
    BY <1>5, <1>6
  <2>2. CalcCrc(flipped) # crc
    BY <1>4, <1>8, <2>1, CrcFlips
  <2>3. FourBits(flipped, 13) = check
    <3>1. flipped[13] = sent[13] /\ flipped[14] = sent[14] /\ flipped[15] = sent[15]
          /\ flipped[16] = sent[16]
      BY <1>6, <1>8
    <3> QED BY <1>1, <3>1 DEF FourBits
  <2> QED BY <1>2, <1>7, <2>2, <2>3 DEF Decoded, sent, flipped
<1>9. CASE at \in 13 .. 16
  <2>1. CalcCrc(flipped) = crc
    <3>1. \A i \in 1 .. 12 : flipped[i] = sent[i]
      BY <1>6, <1>9
    <3> QED BY <1>4, <3>1, CrcOfData
  <2>2. /\ sent[13] \in Bit /\ sent[14] \in Bit /\ sent[15] \in Bit /\ sent[16] \in Bit
        /\ flipped[13] \in Bit /\ flipped[14] \in Bit /\ flipped[15] \in Bit
        /\ flipped[16] \in Bit
    BY <1>5, <1>7 DEF FrameBits
  <2>3. \/ flipped[13] # sent[13] \/ flipped[14] # sent[14] \/ flipped[15] # sent[15]
        \/ flipped[16] # sent[16]
    <3>1. flipped[at] # sent[at]
      BY <1>5, <1>6 DEF Bit
    <3>2. at = 13 \/ at = 14 \/ at = 15 \/ at = 16
      BY <1>9
    <3> QED BY <3>1, <3>2
  <2>4. /\ FourBits(flipped, 13) = Four(flipped[13], flipped[14], flipped[15], flipped[16])
        /\ FourBits(sent, 13) = Four(sent[13], sent[14], sent[15], sent[16])
    BY DEF FourBits, Four
  <2>5. Four(flipped[13], flipped[14], flipped[15], flipped[16])
          # Four(sent[13], sent[14], sent[15], sent[16])
    <3> SUFFICES ASSUME Four(flipped[13], flipped[14], flipped[15], flipped[16])
                          = Four(sent[13], sent[14], sent[15], sent[16])
                 PROVE  FALSE
      OBVIOUS
    <3>1. /\ flipped[13] = sent[13] /\ flipped[14] = sent[14] /\ flipped[15] = sent[15]
          /\ flipped[16] = sent[16]
      BY <2>2 DEF Four, Bit
    <3> QED BY <2>3, <3>1
  <2>6. FourBits(flipped, 13) # check /\ FourBits(flipped, 13) \in 0 .. 15
    BY <1>1, <2>2, <2>4, <2>5, FourBitsFit
  <2>7. CheckCrc(FourBits(flipped, 13), inverted) # crc
    BY <1>2, <1>3, <2>6, CheckOwn
  <2> QED BY <1>7, <2>1, <2>7 DEF Decoded, sent, flipped
<1> QED BY <1>8, <1>9

(* Every frame of an admitted bit time decodes to what was sent, at every bit     *)
(* time, not only at those under test; sent in the other polarity it is refused   *)
(* at all of them (dshot.rs:46-106).                                        *)
THEOREM EveryBitTimeDecodes ==
  ASSUME word \in Words, NEW bitTime \in Nat, NEW inverted \in BOOLEAN
  PROVE  /\ Admits(FrameTime(Sent(word, inverted), bitTime)) =>
              Received(Sent(word, inverted), bitTime, inverted) = Meant
         /\ Received(Sent(word, inverted), bitTime, ~inverted) = BadFrame
         /\ \A i \in 1 .. 16 :
              Received([Sent(word, inverted) EXCEPT ![i] = 1 - @], bitTime, inverted)
                = BadFrame
<1> DEFINE sent == Sent(word, inverted)
<1>1. sent \in FrameBits
  BY SentBits
<1>2. Judged(sent) = sent
  BY <1>1, JudgedAsSent
<1>3. Decoded(sent, inverted) = Meant /\ Decoded(sent, ~inverted) = BadFrame
  BY SentDecodes
<1>4. (~inverted) \in BOOLEAN
  BY Zenon
<1>5. ASSUME NEW i \in 1 .. 16
      PROVE  Received([sent EXCEPT ![i] = 1 - @], bitTime, inverted) = BadFrame
  <2> DEFINE flipped == [sent EXCEPT ![i] = 1 - @]
  <2>1. flipped \in FrameBits /\ Decoded(flipped, inverted) = BadFrame
    BY FlippedRefused
  <2> HIDE DEF flipped
  <2>2. Judged(flipped) = flipped
    BY <2>1, JudgedAsSent
  <2>3. Received(flipped, bitTime, inverted) = BadFrame
    BY <2>1, <2>2, ReceivedIsDecoded
  <2> QED BY <2>3 DEF flipped
<1> HIDE DEF sent
<1>6. Admits(FrameTime(sent, bitTime)) => Received(sent, bitTime, inverted) = Meant
  BY <1>2, <1>3, ReceivedIsDecoded
<1>7. Received(sent, bitTime, ~inverted) = BadFrame
  BY <1>2, <1>3, <1>4, ReceivedIsDecoded
<1> QED BY <1>5, <1>6, <1>7 DEF sent

LEMMA FramesAlwaysDecode == word \in Words => FramesDecode
<1> SUFFICES ASSUME word \in Words, NEW inverted \in BOOLEAN
             PROVE  LET sent == Sent(word, inverted)
                        time == CHOOSE t \in BitTimes : TRUE
                    IN  /\ \A t \in BitTimes : Received(sent, t, inverted) = Meant
                        /\ Received(sent, time, ~inverted) = BadFrame
                        /\ \A i \in 1 .. 16 :
                             Received([sent EXCEPT ![i] = 1 - @], time, inverted) = BadFrame
  BY Zenon DEF FramesDecode
<1> DEFINE time == CHOOSE t \in BitTimes : TRUE
<1>1. time \in BitTimes
  <2>1. \E t : t \in BitTimes
    BY CodecAssumption
  <2> QED BY <2>1
<1> HIDE DEF time
<1>2. \A t \in BitTimes : t \in Nat /\ Admits(FrameTime(Sent(word, inverted), t))
  BY AssumedTimesAdmitted
<1>3. \A t \in BitTimes : Received(Sent(word, inverted), t, inverted) = Meant
  BY <1>2, EveryBitTimeDecodes
<1>4. /\ Received(Sent(word, inverted), time, ~inverted) = BadFrame
      /\ \A i \in 1 .. 16 :
           Received([Sent(word, inverted) EXCEPT ![i] = 1 - @], time, inverted) = BadFrame
  BY <1>1, <1>2, EveryBitTimeDecodes
<1> QED BY <1>3, <1>4 DEF time

-----------------------------------------------------------------------------
(***************************************************************************)
(* The reply.  The levels of the line are a recursive function; that there is    *)
(* one is shown bit by bit.                                                  *)
(***************************************************************************)

LEMMA CountsUp ==
  ASSUME NEW S, 0 \in S, \A n \in 0 .. 19 : n \in S => n + 1 \in S
  PROVE  \A n \in 0 .. 20 : n \in S
<1>1. 1 \in S /\ 2 \in S /\ 3 \in S /\ 4 \in S /\ 5 \in S
  BY SMT
<1>2. 6 \in S /\ 7 \in S /\ 8 \in S /\ 9 \in S /\ 10 \in S
  BY <1>1, SMT
<1>3. 11 \in S /\ 12 \in S /\ 13 \in S /\ 14 \in S /\ 15 \in S
  BY <1>2, SMT
<1>4. 16 \in S /\ 17 \in S /\ 18 \in S /\ 19 \in S /\ 20 \in S
  BY <1>3, SMT
<1> QED BY <1>1, <1>2, <1>3, <1>4, SMT

(* f is the line's level through n bits. *)
LevelsTo(bits, f, n) ==
  f = [i \in 0 .. n |-> IF i = 0 THEN 1 ELSE Xor(bits[i], f[i - 1])]

LEMMA LineGoesOn ==
  ASSUME NEW bits, NEW n \in 0 .. 19, \E f : LevelsTo(bits, f, n)
  PROVE  \E f : LevelsTo(bits, f, n + 1)
<1>1. PICK f : LevelsTo(bits, f, n)
  OBVIOUS
<1> DEFINE g == [i \in 0 .. n + 1 |-> IF i <= n THEN f[i] ELSE Xor(bits[n + 1], f[n])]
<1>2. ASSUME NEW i \in 0 .. n + 1
      PROVE  g[i] = IF i = 0 THEN 1 ELSE Xor(bits[i], g[i - 1])
  <2>1. \A j \in 0 .. n : f[j] = IF j = 0 THEN 1 ELSE Xor(bits[j], f[j - 1])
    BY <1>1 DEF LevelsTo
  <2>2. CASE i = 0
    BY <2>1, <2>2
  <2>3. CASE i # 0 /\ i <= n
    BY <2>1, <2>3
  <2>4. CASE i = n + 1
    BY <2>4
  <2> QED BY <2>2, <2>3, <2>4
<1>3. g = [i \in 0 .. n + 1 |-> IF i = 0 THEN 1 ELSE Xor(bits[i], g[i - 1])]
  <2> DEFINE h == [i \in 0 .. n + 1 |-> IF i = 0 THEN 1 ELSE Xor(bits[i], g[i - 1])]
  <2>1. DOMAIN g = 0 .. n + 1 /\ DOMAIN h = 0 .. n + 1
    OBVIOUS
  <2>2. \A i \in 0 .. n + 1 : g[i] = h[i]
    BY <1>2
  <2> QED BY <2>2
<1> HIDE DEF g
<1>4. LevelsTo(bits, g, n + 1)
  BY <1>3, Zenon DEF LevelsTo
<1> QED BY <1>4

LEMMA LineIs ==
  ASSUME NEW bits
  PROVE  \E f : LevelsTo(bits, f, 20)
<1>0. \E f : LevelsTo(bits, f, 0)
  <2> DEFINE f == [i \in 0 .. 0 |-> 1]
  <2>1. f = [i \in 0 .. 0 |-> IF i = 0 THEN 1 ELSE Xor(bits[i], f[i - 1])]
    OBVIOUS
  <2> HIDE DEF f
  <2> QED BY <2>1, Zenon DEF LevelsTo
<1> DEFINE S == {n \in 0 .. 20 : \E f : LevelsTo(bits, f, n)}
<1>1. 0 \in S
  BY <1>0
<1>2. ASSUME NEW n \in 0 .. 19, n \in S
      PROVE  n + 1 \in S
  BY <1>2, LineGoesOn
<1> HIDE DEF S
<1>3. 20 \in S
  BY <1>1, <1>2, CountsUp
<1> QED BY <1>3 DEF S

(* Levels hands out one of them: a level is the last one, changed by a one.       *)
LEMMA LevelsAre ==
  ASSUME NEW value, \A i \in 1 .. 20 : GcrBits(value)[i] \in Bit
  PROVE  \E f : /\ f[0] = 1
                /\ \A i \in 0 .. 20 : f[i] \in Bit
                /\ \A i \in 1 .. 20 : f[i] = Xor(GcrBits(value)[i], f[i - 1])
                /\ Levels(value)[1] = 0
                /\ \A i \in 0 .. 20 : Levels(value)[i + 2] = f[i]
<1> DEFINE bits == GcrBits(value)
           level == CHOOSE f : f = [i \in 0 .. 20 |->
                                      IF i = 0 THEN 1 ELSE Xor(bits[i], f[i - 1])]
           tail == [i \in 1 .. 21 |-> level[i - 1]]
<1>1. level = [i \in 0 .. 20 |-> IF i = 0 THEN 1 ELSE Xor(bits[i], level[i - 1])]
  BY LineIs, Zenon DEF LevelsTo
<1>2. Levels(value) = <<0>> \o tail
  BY DEF Levels
<1> HIDE DEF level, bits
<1>3. level[0] = 1 /\ \A i \in 1 .. 20 : level[i] = Xor(bits[i], level[i - 1])
  BY <1>1
<1>4. \A i \in 0 .. 20 : level[i] \in Bit
  <2> DEFINE S == {i \in 0 .. 20 : level[i] \in Bit}
  <2>1. 0 \in S
    BY <1>3 DEF Bit
  <2>2. ASSUME NEW n \in 0 .. 19, n \in S
        PROVE  n + 1 \in S
    <3>1. n + 1 \in 1 .. 20 /\ n + 1 \in 0 .. 20 /\ (n + 1) - 1 = n
      OBVIOUS
    <3>2. level[n + 1] = Xor(bits[n + 1], level[n])
      BY <1>3, <3>1
    <3>3. bits[n + 1] \in Bit /\ level[n] \in Bit
      BY <2>2, <3>1 DEF bits
    <3>4. \A a \in Bit, b \in Bit : Xor(a, b) \in Bit
      BY SMT DEF Bit, Xor
    <3> QED BY <3>1, <3>2, <3>3, <3>4
  <2> HIDE DEF S
  <2>3. \A n \in 0 .. 20 : n \in S
    BY <2>1, <2>2, CountsUp
  <2> QED BY <2>3 DEF S
<1>5. /\ Levels(value)[1] = 0
      /\ \A i \in 0 .. 20 : Levels(value)[i + 2] = level[i]
  <2>1. tail \in Seq(Bit) /\ Len(tail) = 21
    <3>1. \A i \in 1 .. 21 : level[i - 1] \in Bit
      BY <1>4
    <3> QED BY <3>1
  <2>2. <<0>> \in Seq(Bit) /\ Len(<<0>>) = 1 /\ <<0>>[1] = 0
    BY DEF Bit
  <2>3. \A i \in 0 .. 20 : tail[i + 1] = level[i]
    OBVIOUS
  <2> DEFINE first == <<0>>
             all == first \o tail
  <2> HIDE DEF tail, first
  <2>4. /\ Len(all) = Len(first) + Len(tail)
        /\ \A i \in 1 .. Len(first) + Len(tail) :
             all[i] = IF i <= Len(first) THEN first[i] ELSE tail[i - Len(first)]
    BY <2>1, <2>2, ConcatProperties, Zenon DEF first
  <2> HIDE DEF all
  <2>5. \A i \in 1 .. 22 : all[i] = IF i <= 1 THEN 0 ELSE tail[i - 1]
    BY <2>1, <2>2, <2>4 DEF first
  <2>6. all[1] = 0 /\ \A i \in 0 .. 20 : all[i + 2] = tail[i + 1]
    BY <2>5
  <2> QED BY <1>2, <2>3, <2>6 DEF all, first
<1> QED BY <1>3, <1>4, <1>5 DEF bits

-----------------------------------------------------------------------------
(* The sixteen codes: no two are alike, and none holds so many zeros that the      *)
(* line could rest for three bits inside one or across two of them.              *)
Code(digit) == GcrTable[digit + 1]

LEMMA CodesAre ==
  ASSUME NEW n \in 0 .. 15
  PROVE  \/ (n = 0 /\ Code(n) = 25) \/ (n = 1 /\ Code(n) = 27)
         \/ (n = 2 /\ Code(n) = 18) \/ (n = 3 /\ Code(n) = 19)
         \/ (n = 4 /\ Code(n) = 29) \/ (n = 5 /\ Code(n) = 21)
         \/ (n = 6 /\ Code(n) = 22) \/ (n = 7 /\ Code(n) = 23)
         \/ (n = 8 /\ Code(n) = 26) \/ (n = 9 /\ Code(n) = 9)
         \/ (n = 10 /\ Code(n) = 10) \/ (n = 11 /\ Code(n) = 11)
         \/ (n = 12 /\ Code(n) = 30) \/ (n = 13 /\ Code(n) = 13)
         \/ (n = 14 /\ Code(n) = 14) \/ (n = 15 /\ Code(n) = 15)
BY SMT DEF Code, GcrTable

LEMMA DigitOfCode ==
  ASSUME NEW n \in 0 .. 15
  PROVE  Digit(Code(n)) = n
<1>1. \A m \in 0 .. 15 : Code(m) = Code(n) => m = n
  BY CodesAre, SMT
<1>2. \E m \in 0 .. 15 : Code(m) = Code(n)
  OBVIOUS
<1>3. Digit(Code(n)) = CHOOSE m \in 0 .. 15 : Code(m) = Code(n)
  BY <1>2, Zenon DEF Digit, Code
<1>4. (CHOOSE m \in 0 .. 15 : Code(m) = Code(n)) \in 0 .. 15
      /\ Code(CHOOSE m \in 0 .. 15 : Code(m) = Code(n)) = Code(n)
  BY <1>2, Zenon
<1> QED BY <1>1, <1>3, <1>4, Zenon

LEMMA CodeBits ==
  ASSUME NEW n \in 0 .. 15
  PROVE  LET c == BitsOf(Code(n), 5)
         IN  /\ c \in Seq(Bit) /\ Len(c) = 5 /\ \A i \in 1 .. 5 : c[i] \in Bit
             /\ c[1] = 1 \/ c[2] = 1
             /\ c[4] = 1 \/ c[5] = 1
             /\ c[2] = 1 \/ c[3] = 1 \/ c[4] = 1
             /\ FiveBits(c, 1) = Code(n)
<1> DEFINE c == BitsOf(Code(n), 5)
<1>1. Code(n) \in Nat /\ Code(n) \in 0 .. 31 /\ 5 \in {4, 5, 12}
  BY CodesAre, SMT
<1>2. /\ c \in Seq(Bit) /\ Len(c) = 5 /\ \A i \in 1 .. 5 : c[i] \in Bit
      /\ FiveBits(c, 1) = Code(n)
  BY <1>1, BitsAre, FiveBitsBack
<1>3. /\ c[1] = BitAt(Code(n), 16) /\ c[2] = BitAt(Code(n), 8)
      /\ c[3] = BitAt(Code(n), 4) /\ c[4] = BitAt(Code(n), 2) /\ c[5] = BitAt(Code(n), 1)
  BY <1>1, FiveBitsOf
<1> DEFINE code == Code(n)
<1>4. code \in {9, 10, 11, 13, 14, 15, 18, 19, 21, 22, 23, 25, 26, 27, 29, 30}
  BY CodesAre
<1> HIDE DEF code
<1>5. /\ BitAt(code, 16) = 1 \/ BitAt(code, 8) = 1
      /\ BitAt(code, 2) = 1 \/ BitAt(code, 1) = 1
      /\ BitAt(code, 8) = 1 \/ BitAt(code, 4) = 1 \/ BitAt(code, 2) = 1
  BY <1>4, SMT DEF BitAt
<1> HIDE DEF c
<1>6. /\ c[1] = 1 \/ c[2] = 1
      /\ c[4] = 1 \/ c[5] = 1
      /\ c[2] = 1 \/ c[3] = 1 \/ c[4] = 1
  BY <1>3, <1>5, Zenon DEF code
<1> QED BY <1>2, <1>6 DEF c

LEMMA TwoJoined ==
  ASSUME NEW s \in Seq(Bit), NEW t \in Seq(Bit)
  PROVE  /\ s \o t \in Seq(Bit) /\ Len(s \o t) = Len(s) + Len(t)
         /\ \A i \in 1 .. Len(s) : (s \o t)[i] = s[i]
         /\ \A i \in 1 .. Len(t) : (s \o t)[i + Len(s)] = t[i]
<1> DEFINE st == s \o t
<1>1. /\ st \in Seq(Bit) /\ Len(st) = Len(s) + Len(t)
      /\ \A i \in 1 .. Len(s) + Len(t) : st[i] = IF i <= Len(s) THEN s[i] ELSE t[i - Len(s)]
  BY ConcatProperties, Zenon
<1>2. Len(s) \in Nat /\ Len(t) \in Nat
  OBVIOUS
<1> HIDE DEF st
<1>3. \A i \in 1 .. Len(s) : st[i] = s[i]
  BY <1>1, <1>2
<1>4. ASSUME NEW i \in 1 .. Len(t)
      PROVE  st[i + Len(s)] = t[i]
  <2>1. /\ i + Len(s) \in 1 .. Len(s) + Len(t) /\ ~(i + Len(s) <= Len(s))
        /\ (i + Len(s)) - Len(s) = i
    BY <1>2
  <2> QED BY <1>1, <2>1
<1> QED BY <1>1, <1>3, <1>4 DEF st

(* Four sequences of five, one after the other. *)
FourIn(all, a, b, c, d) ==
  \A i \in 1 .. 5 : /\ all[i] = a[i] /\ all[i + 5] = b[i]
                    /\ all[i + 10] = c[i] /\ all[i + 15] = d[i]

Fives == {s \in Seq(Bit) : Len(s) = 5}

LEMMA FourJoined ==
  ASSUME NEW a \in Fives, NEW b \in Fives, NEW c \in Fives, NEW d \in Fives
  PROVE  FourIn(((a \o b) \o c) \o d, a, b, c, d)
<1> DEFINE ab == a \o b
           abc == ab \o c
           abcd == abc \o d
<1>0. /\ a \in Seq(Bit) /\ Len(a) = 5 /\ b \in Seq(Bit) /\ Len(b) = 5
      /\ c \in Seq(Bit) /\ Len(c) = 5 /\ d \in Seq(Bit) /\ Len(d) = 5
  BY DEF Fives
<1>1. /\ ab \in Seq(Bit) /\ Len(ab) = Len(a) + Len(b)
      /\ \A i \in 1 .. Len(a) : ab[i] = a[i]
      /\ \A i \in 1 .. Len(b) : ab[i + Len(a)] = b[i]
  BY <1>0, TwoJoined, Zenon
<1> HIDE DEF ab
<1>2. Len(ab) = 10 /\ ab \in Seq(Bit)
  BY <1>0, <1>1
<1>3. /\ abc \in Seq(Bit) /\ Len(abc) = Len(ab) + Len(c)
      /\ \A i \in 1 .. Len(ab) : abc[i] = ab[i]
      /\ \A i \in 1 .. Len(c) : abc[i + Len(ab)] = c[i]
  BY <1>0, <1>2, TwoJoined, Zenon
<1> HIDE DEF abc
<1>4. Len(abc) = 15 /\ abc \in Seq(Bit)
  BY <1>0, <1>2, <1>3
<1>5. /\ abcd \in Seq(Bit) /\ Len(abcd) = Len(abc) + Len(d)
      /\ \A i \in 1 .. Len(abc) : abcd[i] = abc[i]
      /\ \A i \in 1 .. Len(d) : abcd[i + Len(abc)] = d[i]
  BY <1>0, <1>4, TwoJoined, Zenon
<1> HIDE DEF abcd
<1>6. ASSUME NEW i \in 1 .. 5
      PROVE  abcd[i] = a[i] /\ abcd[i + 5] = b[i] /\ abcd[i + 10] = c[i] /\ abcd[i + 15] = d[i]
  <2>1. i \in 1 .. 10 /\ i + 5 \in 1 .. 10 /\ i \in 1 .. 15 /\ i + 5 \in 1 .. 15
        /\ i + 10 \in 1 .. 15
    OBVIOUS
  <2>2. ab[i] = a[i] /\ ab[i + 5] = b[i]
    BY <1>0, <1>1
  <2>3. abc[i] = ab[i] /\ abc[i + 5] = ab[i + 5] /\ abc[i + 10] = c[i]
    BY <1>0, <1>2, <1>3, <2>1
  <2>4. abcd[i] = abc[i] /\ abcd[i + 5] = abc[i + 5] /\ abcd[i + 10] = abc[i + 10]
        /\ abcd[i + 15] = d[i]
    BY <1>0, <1>4, <1>5, <2>1
  <2> QED BY <2>2, <2>3, <2>4
<1>7. FourIn(abcd, a, b, c, d)
  BY <1>6 DEF FourIn
<1> QED BY <1>7 DEF abcd, abc, ab

LEMMA NibblesOf ==
  ASSUME NEW value \in Words
  PROVE  /\ Nibble(value, 0) \in 0 .. 15 /\ Nibble(value, 1) \in 0 .. 15
         /\ Nibble(value, 2) \in 0 .. 15 /\ ReplyChecksum(value) \in 0 .. 15
         /\ Nibble(value, 2) * 256 + Nibble(value, 1) * 16 + Nibble(value, 0) = value
<1>1. value \in Nat /\ value < 4096 /\ 12 \in {4, 5, 12}
  BY DEF Words
<1>2. /\ Nibble(value, 0) = value % 16 /\ Nibble(value, 1) = (value \div 16) % 16
      /\ Nibble(value, 2) = (value \div 256) % 16
  BY <1>1, SMT DEF Nibble
<1>3. /\ value % 16 \in 0 .. 15 /\ (value \div 16) % 16 \in 0 .. 15
      /\ (value \div 256) % 16 \in 0 .. 15
      /\ ((value \div 256) % 16) * 256 + ((value \div 16) % 16) * 16 + (value % 16) = value
  BY <1>1, SMT
<1>4. ReplyChecksum(value) \in 0 .. 15
  <2>1. CalcCrc(BitsOf(value, 12)) \in 0 .. 15
    BY <1>1, BitsAre, CrcIs
  <2> QED BY <2>1 DEF ReplyChecksum
<1> QED BY <1>2, <1>3, <1>4

(* The twenty bits are those of four codes.                                    *)
LEMMA GcrBitsAre ==
  ASSUME NEW value \in Words
  PROVE  /\ \A i \in 1 .. 5 :
              /\ GcrBits(value)[i] = BitsOf(Code(Nibble(value, 2)), 5)[i]
              /\ GcrBits(value)[i + 5] = BitsOf(Code(Nibble(value, 1)), 5)[i]
              /\ GcrBits(value)[i + 10] = BitsOf(Code(Nibble(value, 0)), 5)[i]
              /\ GcrBits(value)[i + 15] = BitsOf(Code(ReplyChecksum(value)), 5)[i]
         /\ \A i \in 1 .. 20 : GcrBits(value)[i] \in Bit
<1> DEFINE a == BitsOf(Code(Nibble(value, 2)), 5)
           b == BitsOf(Code(Nibble(value, 1)), 5)
           c == BitsOf(Code(Nibble(value, 0)), 5)
           d == BitsOf(Code(ReplyChecksum(value)), 5)
           all == GcrBits(value)
<1>1. /\ a \in Seq(Bit) /\ Len(a) = 5 /\ \A i \in 1 .. 5 : a[i] \in Bit
  BY NibblesOf, CodeBits, Zenon
<1>2. /\ b \in Seq(Bit) /\ Len(b) = 5 /\ \A i \in 1 .. 5 : b[i] \in Bit
  BY NibblesOf, CodeBits, Zenon
<1>3. /\ c \in Seq(Bit) /\ Len(c) = 5 /\ \A i \in 1 .. 5 : c[i] \in Bit
  BY NibblesOf, CodeBits, Zenon
<1>4. /\ d \in Seq(Bit) /\ Len(d) = 5 /\ \A i \in 1 .. 5 : d[i] \in Bit
  BY NibblesOf, CodeBits, Zenon
<1>5. all = ((a \o b) \o c) \o d
  BY Zenon DEF GcrBits, Code
<1> HIDE DEF a, b, c, d, all
<1>6. \A i \in 1 .. 5 : /\ all[i] = a[i] /\ all[i + 5] = b[i]
                        /\ all[i + 10] = c[i] /\ all[i + 15] = d[i]
  <2>1. a \in Fives /\ b \in Fives /\ c \in Fives /\ d \in Fives
    BY <1>1, <1>2, <1>3, <1>4 DEF Fives
  <2>2. FourIn(((a \o b) \o c) \o d, a, b, c, d)
    BY <2>1, FourJoined, Zenon
  <2> QED BY <1>5, <2>2 DEF FourIn
<1>7. ASSUME NEW i \in 1 .. 20
      PROVE  all[i] \in Bit
  <2>1. CASE i \in 1 .. 5
    BY <1>1, <1>6, <2>1
  <2>2. CASE i \in 6 .. 10
    <3>1. i - 5 \in 1 .. 5 /\ (i - 5) + 5 = i
      BY <2>2
    <3> QED BY <1>2, <1>6, <3>1
  <2>3. CASE i \in 11 .. 15
    <3>1. i - 10 \in 1 .. 5 /\ (i - 10) + 10 = i
      BY <2>3
    <3> QED BY <1>3, <1>6, <3>1
  <2>4. CASE i \in 16 .. 20
    <3>1. i - 15 \in 1 .. 5 /\ (i - 15) + 15 = i
      BY <2>4
    <3> QED BY <1>4, <1>6, <3>1
  <2> QED BY <2>1, <2>2, <2>3, <2>4
<1> QED BY <1>6, <1>7 DEF a, b, c, d, all

-----------------------------------------------------------------------------
(***************************************************************************)
(* What the transmitter makes of the line.                                   *)
(***************************************************************************)

LEMMA XorTwice ==
  ASSUME NEW a \in Bit, NEW b \in Bit
  PROVE  /\ Xor(Xor(a, b), b) = a
         /\ a = 1 => Xor(a, b) # b
BY SMT DEF Bit, Xor

(* The changes of the line are the bits that were encoded, and where one of them   *)
(* is a one the line does change.                                             *)
LEMMA ChangesBack ==
  ASSUME NEW value \in Words
  PROVE  /\ \A i \in 1 .. 20 : Changes(Levels(value))[i] = GcrBits(value)[i]
         /\ Levels(value)[1] # Levels(value)[2]
         /\ \A i \in 1 .. 20 :
              GcrBits(value)[i] = 1 => Levels(value)[i + 1] # Levels(value)[i + 2]
<1> DEFINE bits == GcrBits(value)
           levels == Levels(value)
<1>1. \A i \in 1 .. 20 : bits[i] \in Bit
  BY GcrBitsAre
<1>2. PICK f : /\ f[0] = 1
               /\ \A i \in 0 .. 20 : f[i] \in Bit
               /\ \A i \in 1 .. 20 : f[i] = Xor(bits[i], f[i - 1])
               /\ levels[1] = 0
               /\ \A i \in 0 .. 20 : levels[i + 2] = f[i]
  BY <1>1, LevelsAre, Zenon
<1> HIDE DEF bits, levels
<1>3. levels[1] # levels[2]
  <2>1. levels[0 + 2] = f[0] /\ 0 + 2 = 2
    BY <1>2
  <2> QED BY <1>2, <2>1
<1>4. ASSUME NEW i \in 1 .. 20
      PROVE  /\ Changes(levels)[i] = bits[i]
             /\ bits[i] = 1 => levels[i + 1] # levels[i + 2]
  <2>1. i \in 0 .. 20 /\ i - 1 \in 0 .. 20 /\ (i - 1) + 2 = i + 1
    OBVIOUS
  <2>2. levels[i + 2] = f[i] /\ levels[i + 1] = f[i - 1] /\ f[i - 1] \in Bit
    BY <1>2, <2>1
  <2>3. f[i] = Xor(bits[i], f[i - 1]) /\ bits[i] \in Bit
    BY <1>1, <1>2
  <2>4. Changes(levels)[i] = Xor(levels[i + 2], levels[i + 1])
    BY DEF Changes
  <2> QED BY <2>2, <2>3, <2>4, XorTwice
<1> QED BY <1>3, <1>4 DEF bits, levels

LEMMA FiveOf ==
  ASSUME NEW a, NEW b, NEW m \in Nat, NEW n \in Nat,
         \A i \in 1 .. 5 : a[i + m] = b[i], n = m + 1
  PROVE  FiveBits(a, n) = FiveBits(b, 1)
<1>1. /\ a[n] = b[1] /\ a[n + 1] = b[1 + 1] /\ a[(n + 1) + 1] = b[(1 + 1) + 1]
      /\ a[(n + 1) + 2] = b[(1 + 1) + 2] /\ a[(n + 1) + 3] = b[(1 + 1) + 3]
  <2>1. /\ n = 1 + m /\ n + 1 = 2 + m /\ (n + 1) + 1 = 3 + m
        /\ (n + 1) + 2 = 4 + m /\ (n + 1) + 3 = 5 + m
        /\ 1 + 1 = 2 /\ (1 + 1) + 1 = 3 /\ (1 + 1) + 2 = 4 /\ (1 + 1) + 3 = 5
    OBVIOUS
  <2>2. a[1 + m] = b[1] /\ a[2 + m] = b[2] /\ a[3 + m] = b[3] /\ a[4 + m] = b[4]
        /\ a[5 + m] = b[5]
    OBVIOUS
  <2> QED BY <2>1, <2>2
<1> QED BY <1>1, Zenon DEF FiveBits, FourBits

LEMMA DigitsBack ==
  ASSUME NEW value \in Words
  PROVE  /\ ReplyDigits(Levels(value))[1] = Nibble(value, 2)
         /\ ReplyDigits(Levels(value))[2] = Nibble(value, 1)
         /\ ReplyDigits(Levels(value))[3] = Nibble(value, 0)
         /\ ReplyDigits(Levels(value))[4] = ReplyChecksum(value)
<1> DEFINE changes == Changes(Levels(value))
           bits == GcrBits(value)
<1>1. \A i \in 1 .. 20 : changes[i] = bits[i]
  BY ChangesBack
<1>2. /\ \A i \in 1 .. 5 : bits[i] = BitsOf(Code(Nibble(value, 2)), 5)[i]
      /\ \A i \in 1 .. 5 : bits[i + 5] = BitsOf(Code(Nibble(value, 1)), 5)[i]
      /\ \A i \in 1 .. 5 : bits[i + 10] = BitsOf(Code(Nibble(value, 0)), 5)[i]
      /\ \A i \in 1 .. 5 : bits[i + 15] = BitsOf(Code(ReplyChecksum(value)), 5)[i]
  BY GcrBitsAre
<1>3. /\ Nibble(value, 0) \in 0 .. 15 /\ Nibble(value, 1) \in 0 .. 15
      /\ Nibble(value, 2) \in 0 .. 15 /\ ReplyChecksum(value) \in 0 .. 15
  BY NibblesOf
<1>4. /\ ReplyDigits(Levels(value))[1] = Digit(FiveBits(changes, 1))
      /\ ReplyDigits(Levels(value))[2] = Digit(FiveBits(changes, 6))
      /\ ReplyDigits(Levels(value))[3] = Digit(FiveBits(changes, 11))
      /\ ReplyDigits(Levels(value))[4] = Digit(FiveBits(changes, 16))
  <2>1. 5 * 1 - 4 = 1 /\ 5 * 2 - 4 = 6 /\ 5 * 3 - 4 = 11 /\ 5 * 4 - 4 = 16
    OBVIOUS
  <2>2. ReplyDigits(Levels(value)) = [d \in 1 .. 4 |-> Digit(FiveBits(changes, 5 * d - 4))]
    BY DEF ReplyDigits
  <2> HIDE DEF changes
  <2>3. \A d \in 1 .. 4 : ReplyDigits(Levels(value))[d] = Digit(FiveBits(changes, 5 * d - 4))
    BY <2>2
  <2>4. 1 \in 1 .. 4 /\ 2 \in 1 .. 4 /\ 3 \in 1 .. 4 /\ 4 \in 1 .. 4
    OBVIOUS
  <2> QED BY <2>1, <2>3, <2>4
<1> HIDE DEF changes, bits
<1>5. /\ FiveBits(changes, 1) = FiveBits(BitsOf(Code(Nibble(value, 2)), 5), 1)
      /\ FiveBits(changes, 6) = FiveBits(BitsOf(Code(Nibble(value, 1)), 5), 1)
      /\ FiveBits(changes, 11) = FiveBits(BitsOf(Code(Nibble(value, 0)), 5), 1)
      /\ FiveBits(changes, 16) = FiveBits(BitsOf(Code(ReplyChecksum(value)), 5), 1)
  <2> DEFINE a == BitsOf(Code(Nibble(value, 2)), 5)
             b == BitsOf(Code(Nibble(value, 1)), 5)
             c == BitsOf(Code(Nibble(value, 0)), 5)
             d == BitsOf(Code(ReplyChecksum(value)), 5)
  <2> HIDE DEF a, b, c, d
  <2>1. /\ \A i \in 1 .. 5 : changes[i + 0] = a[i]
        /\ \A i \in 1 .. 5 : changes[i + 5] = b[i]
        /\ \A i \in 1 .. 5 : changes[i + 10] = c[i]
        /\ \A i \in 1 .. 5 : changes[i + 15] = d[i]
    <3>1. \A i \in 1 .. 5 : /\ i + 0 = i /\ i \in 1 .. 20 /\ i + 5 \in 1 .. 20
                            /\ i + 10 \in 1 .. 20 /\ i + 15 \in 1 .. 20
      OBVIOUS
    <3> QED BY <1>1, <1>2, <3>1 DEF a, b, c, d
  <2>2. FiveBits(changes, 1) = FiveBits(a, 1)
    BY <2>1, FiveOf
  <2>3. FiveBits(changes, 6) = FiveBits(b, 1)
    BY <2>1, FiveOf
  <2>4. FiveBits(changes, 11) = FiveBits(c, 1)
    BY <2>1, FiveOf
  <2>5. FiveBits(changes, 16) = FiveBits(d, 1)
    BY <2>1, FiveOf
  <2> QED BY <2>2, <2>3, <2>4, <2>5 DEF a, b, c, d
<1>6. \A n \in 0 .. 15 : Digit(FiveBits(BitsOf(Code(n), 5), 1)) = n
  BY CodeBits, DigitOfCode, Zenon
<1> QED BY <1>3, <1>4, <1>5, <1>6

(* Of any three bits in a row one is a one.                                      *)
LEMMA NeverThreeZeros ==
  ASSUME NEW value \in Words, NEW at \in 1 .. 18
  PROVE  GcrBits(value)[at] = 1 \/ GcrBits(value)[at + 1] = 1 \/ GcrBits(value)[at + 2] = 1
<1> DEFINE bits == GcrBits(value)
           One(i) == bits[i] = 1
<1>1. FourIn(bits, BitsOf(Code(Nibble(value, 2)), 5), BitsOf(Code(Nibble(value, 1)), 5),
                   BitsOf(Code(Nibble(value, 0)), 5), BitsOf(Code(ReplyChecksum(value)), 5))
  BY GcrBitsAre DEF FourIn
<1> DEFINE Gapless(c) == /\ c[1] = 1 \/ c[2] = 1
                         /\ c[4] = 1 \/ c[5] = 1
                         /\ c[2] = 1 \/ c[3] = 1 \/ c[4] = 1
           a == BitsOf(Code(Nibble(value, 2)), 5)
           b == BitsOf(Code(Nibble(value, 1)), 5)
           c == BitsOf(Code(Nibble(value, 0)), 5)
           d == BitsOf(Code(ReplyChecksum(value)), 5)
<1>2. Gapless(a) /\ Gapless(b) /\ Gapless(c) /\ Gapless(d)
  BY NibblesOf, CodeBits, Zenon
<1> HIDE DEF a, b, c, d, bits
<1>3. FourIn(bits, a, b, c, d)
  BY <1>1 DEF a, b, c, d
<1>4. /\ bits[1] = a[1] /\ bits[2] = a[2] /\ bits[3] = a[3] /\ bits[4] = a[4] /\ bits[5] = a[5]
      /\ bits[6] = b[1] /\ bits[7] = b[2] /\ bits[8] = b[3] /\ bits[9] = b[4] /\ bits[10] = b[5]
      /\ bits[11] = c[1] /\ bits[12] = c[2] /\ bits[13] = c[3] /\ bits[14] = c[4]
      /\ bits[15] = c[5]
      /\ bits[16] = d[1] /\ bits[17] = d[2] /\ bits[18] = d[3] /\ bits[19] = d[4]
      /\ bits[20] = d[5]
  BY <1>3, SMT DEF FourIn
<1>5. /\ One(1) \/ One(2)
      /\ One(4) \/ One(5)
      /\ One(2) \/ One(3) \/ One(4)
      /\ One(6) \/ One(7)
      /\ One(9) \/ One(10)
      /\ One(7) \/ One(8) \/ One(9)
      /\ One(11) \/ One(12)
      /\ One(14) \/ One(15)
      /\ One(12) \/ One(13) \/ One(14)
      /\ One(16) \/ One(17)
      /\ One(19) \/ One(20)
      /\ One(17) \/ One(18) \/ One(19)
  BY <1>2, <1>4
<1> HIDE DEF One
<1>6. One(at) \/ One(at + 1) \/ One(at + 2)
  <2>1. at \in {1, 2, 3, 4, 5, 6, 7, 8, 9, 10, 11, 12, 13, 14, 15, 16, 17, 18}
    OBVIOUS
  <2> QED BY <1>5, <2>1
<1> QED BY <1>6 DEF One, bits

LEMMA RepliesComeBack == word \in Words => ReplyDecodes
<1> SUFFICES ASSUME word \in Words
             PROVE  ReplyDecodes
  OBVIOUS
<1> DEFINE levels == Levels(word)
           digits == ReplyDigits(levels)
<1>1. /\ digits[1] = Nibble(word, 2) /\ digits[2] = Nibble(word, 1)
      /\ digits[3] = Nibble(word, 0) /\ digits[4] = ReplyChecksum(word)
  BY DigitsBack
<1>2. Nibble(word, 2) * 256 + Nibble(word, 1) * 16 + Nibble(word, 0) = word
  BY NibblesOf
<1>3. ASSUME NEW i \in 1 .. 19
      PROVE  \E j \in i .. i + 2 : levels[j] # levels[j + 1]
  <2>1. levels[1] # levels[2]
        /\ \A k \in 1 .. 20 : GcrBits(word)[k] = 1 => levels[k + 1] # levels[k + 2]
    BY ChangesBack
  <2> HIDE DEF levels
  <2>2. CASE i = 1
    <3>1. 1 \in i .. i + 2 /\ 1 + 1 = 2
      BY <2>2
    <3> QED BY <2>1, <3>1
  <2>3. CASE i # 1
    <3>1. i - 1 \in 1 .. 18
      BY <2>3
    <3>2. \E k \in i - 1 .. i + 1 : GcrBits(word)[k] = 1
      <4>1. GcrBits(word)[i - 1] = 1 \/ GcrBits(word)[(i - 1) + 1] = 1
            \/ GcrBits(word)[(i - 1) + 2] = 1
        BY <3>1, NeverThreeZeros
      <4>2. /\ i - 1 \in i - 1 .. i + 1 /\ (i - 1) + 1 \in i - 1 .. i + 1
            /\ (i - 1) + 2 \in i - 1 .. i + 1
        OBVIOUS
      <4> QED BY <4>1, <4>2, Zenon
    <3>3. PICK k \in i - 1 .. i + 1 : GcrBits(word)[k] = 1
      BY <3>2
    <3>4. k \in 1 .. 20 /\ k + 1 \in i .. i + 2 /\ (k + 1) + 1 = k + 2
      BY <3>1
    <3> QED BY <2>1, <3>3, <3>4
  <2> QED BY <2>2, <2>3
<1> HIDE DEF digits
<1>4. digits[1] * 256 + digits[2] * 16 + digits[3] = word /\ digits[4] = ReplyChecksum(word)
  BY <1>1, <1>2
<1> QED BY <1>3, <1>4, Zenon DEF ReplyDecodes, digits

-----------------------------------------------------------------------------
(***************************************************************************)
(* The time in an eRPM word.                                                 *)
(***************************************************************************)

KeptIn(w, time) ==
  /\ w \in 0 .. 4095
  /\ ErpmTime(w) <= time /\ (time - ErpmTime(w)) * 256 <= time
  /\ w \div 256 \notin EdtTypes

Kept(time) == KeptIn(ErpmWord(time, TRUE), time)

(* What sixteen bits hold. *)
Fits16(n) == n \in Nat /\ n < 512 * 128

LEMMA SmallModulo ==
  ASSUME NEW m \in Nat, NEW n \in 0 .. m - 1
  PROVE  n % m = n
BY SMT

LEMMA SixteenBits == 2 ^ 16 = 512 * 128
BY SMT

(* The shift is that of the highest one of the time.                             *)
ShiftedBy(period, shift, power) ==
  /\ 256 * power <= period /\ period < 512 * power
  /\ ErpmShift(period) = shift

LEMMA ShiftIs ==
  ASSUME NEW period, Fits16(period), ~(period < 512)
  PROVE  \/ ShiftedBy(period, 1, 2)
         \/ ShiftedBy(period, 2, 4)
         \/ ShiftedBy(period, 3, 8)
         \/ ShiftedBy(period, 4, 16)
         \/ ShiftedBy(period, 5, 32)
         \/ ShiftedBy(period, 6, 64)
         \/ ShiftedBy(period, 7, 128)
<1> DEFINE Fits(i) == period \div (2 ^ i) = 1
           top == CHOOSE i \in 9 .. 15 : Fits(i)
<1>0. period \in Nat /\ 512 <= period /\ period < 512 * 128
  BY DEF Fits16
<1>1. Fits(9) <=> 256 * 2 <= period /\ period < 512 * 2
  <2>1. 2 ^ 9 = 256 * 2
    BY SMT
  <2>2. period \div (256 * 2) = 1 <=> 256 * 2 <= period /\ period < 512 * 2
    BY <1>0, SMT
  <2> QED BY <2>1, <2>2, Zenon
<1>2. Fits(10) <=> 256 * 4 <= period /\ period < 512 * 4
  <2>1. 2 ^ 10 = 256 * 4
    BY SMT
  <2>2. period \div (256 * 4) = 1 <=> 256 * 4 <= period /\ period < 512 * 4
    BY <1>0, SMT
  <2> QED BY <2>1, <2>2, Zenon
<1>3. Fits(11) <=> 256 * 8 <= period /\ period < 512 * 8
  <2>1. 2 ^ 11 = 256 * 8
    BY SMT
  <2>2. period \div (256 * 8) = 1 <=> 256 * 8 <= period /\ period < 512 * 8
    BY <1>0, SMT
  <2> QED BY <2>1, <2>2, Zenon
<1>4. Fits(12) <=> 256 * 16 <= period /\ period < 512 * 16
  <2>1. 2 ^ 12 = 256 * 16
    BY SMT
  <2>2. period \div (256 * 16) = 1 <=> 256 * 16 <= period /\ period < 512 * 16
    BY <1>0, SMT
  <2> QED BY <2>1, <2>2, Zenon
<1>5. Fits(13) <=> 256 * 32 <= period /\ period < 512 * 32
  <2>1. 2 ^ 13 = 256 * 32
    BY SMT
  <2>2. period \div (256 * 32) = 1 <=> 256 * 32 <= period /\ period < 512 * 32
    BY <1>0, SMT
  <2> QED BY <2>1, <2>2, Zenon
<1>6. Fits(14) <=> 256 * 64 <= period /\ period < 512 * 64
  <2>1. 2 ^ 14 = 256 * 64
    BY SMT
  <2>2. period \div (256 * 64) = 1 <=> 256 * 64 <= period /\ period < 512 * 64
    BY <1>0, SMT
  <2> QED BY <2>1, <2>2, Zenon
<1>7. Fits(15) <=> 256 * 128 <= period /\ period < 512 * 128
  <2>1. 2 ^ 15 = 256 * 128
    BY SMT
  <2>2. period \div (256 * 128) = 1 <=> 256 * 128 <= period /\ period < 512 * 128
    BY <1>0, SMT
  <2> QED BY <2>1, <2>2, Zenon
<1>8. ErpmShift(period) = top - 8
  BY Zenon DEF ErpmShift
<1> HIDE DEF Fits
<1>9. \E i \in 9 .. 15 : Fits(i)
  <2>1. Fits(9) \/ Fits(10) \/ Fits(11) \/ Fits(12) \/ Fits(13) \/ Fits(14) \/ Fits(15)
    BY <1>0, <1>1, <1>2, <1>3, <1>4, <1>5, <1>6, <1>7
  <2>2. /\ 9 \in 9 .. 15 /\ 10 \in 9 .. 15 /\ 11 \in 9 .. 15 /\ 12 \in 9 .. 15
        /\ 13 \in 9 .. 15 /\ 14 \in 9 .. 15 /\ 15 \in 9 .. 15
    OBVIOUS
  <2> QED BY <2>1, <2>2, Zenon
<1>10. top \in 9 .. 15 /\ Fits(top)
  BY <1>9, Zenon
<1> HIDE DEF top
<1>11. top = 9 \/ top = 10 \/ top = 11 \/ top = 12 \/ top = 13 \/ top = 14 \/ top = 15
  BY <1>10
<1>12. CASE top = 9
  <2>1. Fits(9) /\ ErpmShift(period) = 1
    BY <1>8, <1>10, <1>12
  <2>2. ShiftedBy(period, 1, 2)
    BY <1>1, <2>1 DEF ShiftedBy
  <2> QED BY <2>2
<1>13. CASE top = 10
  <2>1. Fits(10) /\ ErpmShift(period) = 2
    BY <1>8, <1>10, <1>13
  <2>2. ShiftedBy(period, 2, 4)
    BY <1>2, <2>1 DEF ShiftedBy
  <2> QED BY <2>2
<1>14. CASE top = 11
  <2>1. Fits(11) /\ ErpmShift(period) = 3
    BY <1>8, <1>10, <1>14
  <2>2. ShiftedBy(period, 3, 8)
    BY <1>3, <2>1 DEF ShiftedBy
  <2> QED BY <2>2
<1>15. CASE top = 12
  <2>1. Fits(12) /\ ErpmShift(period) = 4
    BY <1>8, <1>10, <1>15
  <2>2. ShiftedBy(period, 4, 16)
    BY <1>4, <2>1 DEF ShiftedBy
  <2> QED BY <2>2
<1>16. CASE top = 13
  <2>1. Fits(13) /\ ErpmShift(period) = 5
    BY <1>8, <1>10, <1>16
  <2>2. ShiftedBy(period, 5, 32)
    BY <1>5, <2>1 DEF ShiftedBy
  <2> QED BY <2>2
<1>17. CASE top = 14
  <2>1. Fits(14) /\ ErpmShift(period) = 6
    BY <1>8, <1>10, <1>17
  <2>2. ShiftedBy(period, 6, 64)
    BY <1>6, <2>1 DEF ShiftedBy
  <2> QED BY <2>2
<1>18. CASE top = 15
  <2>1. Fits(15) /\ ErpmShift(period) = 7
    BY <1>8, <1>10, <1>18
  <2>2. ShiftedBy(period, 7, 128)
    BY <1>7, <2>1 DEF ShiftedBy
  <2> QED BY <2>2
<1> QED BY <1>11, <1>12, <1>13, <1>14, <1>15, <1>16, <1>17, <1>18, Zenon

(* The parts of an eRPM word. *)
WordIs(w, shift, mantissa) ==
  /\ w \in 0 .. 4095 /\ w \div 512 = shift /\ w % 512 = mantissa
  /\ mantissa >= 256 => w \div 256 = 2 * shift + 1
  /\ mantissa < 256 /\ shift = 0 => w \div 256 = 0

LEMMA WordParts ==
  ASSUME NEW shift \in 0 .. 7, NEW mantissa \in 0 .. 511
  PROVE  WordIs(shift * 512 + mantissa, shift, mantissa)
BY SMT DEF WordIs

(* A time, the shift, its power and what is left of the time. *)
ShiftedTo(time, shift, power, mantissa) ==
  /\ shift \in 0 .. 7 /\ power \in {1, 2, 4, 8, 16, 32, 64, 128} /\ 2 ^ shift = power
  /\ ErpmShift(time) = shift
  /\ mantissa = time \div power /\ mantissa \in Nat /\ mantissa < 512
  /\ shift = 0 \/ mantissa >= 256
  /\ mantissa * power <= time /\ (time - mantissa * power) * 256 <= time

LEMMA MantissaKeeps ==
  ASSUME NEW time, Fits16(time), NEW shift, NEW power, NEW mantissa,
         ShiftedTo(time, shift, power, mantissa)
  PROVE  Kept(time)
<1>0. /\ shift \in 0 .. 7 /\ 2 ^ shift = power
      /\ ErpmShift(time) = shift
      /\ mantissa = time \div power /\ mantissa \in Nat /\ mantissa < 512
      /\ shift = 0 \/ mantissa >= 256
      /\ mantissa * power <= time /\ (time - mantissa * power) * 256 <= time
      /\ mantissa \in 0 .. 511
  <2>1. mantissa \in Nat /\ mantissa < 512
    BY Zenon DEF ShiftedTo
  <2>2. mantissa \in 0 .. 511
    BY <2>1
  <2> QED BY <2>2, Zenon DEF ShiftedTo
<1> DEFINE w == shift * 512 + mantissa
<1>1. ErpmWord(time, TRUE) = w
  <2>1. time % 2 ^ 16 = time
    <3>1. time \in 0 .. (2 ^ 16 - 1) /\ 2 ^ 16 \in Nat
      BY SixteenBits DEF Fits16
    <3> QED BY <3>1, SmallModulo
  <2>2. ErpmWord(time, TRUE) = ErpmShift(time) * 512 + time \div (2 ^ ErpmShift(time))
    BY <2>1, Zenon DEF ErpmWord
  <2> QED BY <1>0, <2>2, Zenon
<1>2. WordIs(w, shift, mantissa)
  <2>1. shift \in 0 .. 7 /\ mantissa \in 0 .. 511
    BY <1>0, Zenon
  <2> QED BY ONLY <2>1, WordParts, Zenon DEF w
<1> HIDE DEF w
<1>3. w \div 256 \notin EdtTypes
  <2>1. /\ mantissa >= 256 => w \div 256 = 2 * shift + 1
        /\ mantissa < 256 /\ shift = 0 => w \div 256 = 0
    BY <1>2 DEF WordIs
  <2>2. mantissa >= 256 \/ (mantissa < 256 /\ shift = 0)
    BY <1>0
  <2>3. 2 * shift + 1 \notin EdtTypes /\ 0 \notin EdtTypes
    BY <1>0, SMT DEF EdtTypes
  <2> QED BY <2>1, <2>2, <2>3, Zenon
<1>4. ErpmTime(w) = mantissa * power
  <2>1. ErpmTime(w) = (w % 512) * (2 ^ (w \div 512))
    BY Zenon DEF ErpmTime
  <2>2. w % 512 = mantissa /\ w \div 512 = shift
    BY <1>2 DEF WordIs
  <2>3. 2 ^ (w \div 512) = power
    BY <1>0, <2>2, Zenon
  <2> QED BY <2>1, <2>2, <2>3, Zenon
<1>5. ErpmTime(w) <= time /\ (time - ErpmTime(w)) * 256 <= time
  BY <1>0, <1>4, Zenon
<1>6. KeptIn(w, time)
  <2>1. w \in 0 .. 4095
    BY <1>2 DEF WordIs
  <2> QED BY <1>3, <1>5, <2>1 DEF KeptIn
<1> QED BY <1>1, <1>6, Zenon DEF Kept

LEMMA EveryTimeIsKept ==
  ASSUME NEW time, Fits16(time)
  PROVE  Kept(time)
<1>0. time \in Nat
  BY DEF Fits16
<1>2. CASE time < 512
  <2>1. ErpmShift(time) = 0
    BY <1>2, Zenon DEF ErpmShift
  <2>2. 2 ^ 0 = 1 /\ time \div 1 = time
    BY <1>0, SMT
  <2>3. /\ 0 \in 0 .. 7 /\ 1 \in {1, 2, 4, 8, 16, 32, 64, 128}
        /\ time * 1 <= time /\ (time - time * 1) * 256 <= time
    BY <1>0, SMT
  <2>4. ShiftedTo(time, 0, 1, time)
    BY <1>0, <1>2, <2>1, <2>2, <2>3, Zenon DEF ShiftedTo
  <2> QED BY <2>4, MantissaKeeps
<1>3. CASE ShiftedBy(time, 1, 2)
  <2>1. /\ 256 * 2 <= time /\ time < 512 * 2 /\ ErpmShift(time) = 1
    BY <1>3 DEF ShiftedBy
  <2>2. /\ time \div 2 \in Nat /\ time \div 2 < 512 /\ time \div 2 >= 256
        /\ (time \div 2) * 2 <= time /\ (time - (time \div 2) * 2) * 256 <= time
    BY <1>0, <2>1, SMT
  <2>3. 1 \in 0 .. 7 /\ 2 \in {1, 2, 4, 8, 16, 32, 64, 128} /\ 2 ^ 1 = 2
    BY SMT
  <2>4. ShiftedTo(time, 1, 2, time \div 2)
    BY <2>1, <2>2, <2>3, Zenon DEF ShiftedTo
  <2> QED BY <2>4, MantissaKeeps
<1>4. CASE ShiftedBy(time, 2, 4)
  <2>1. /\ 256 * 4 <= time /\ time < 512 * 4 /\ ErpmShift(time) = 2
    BY <1>4 DEF ShiftedBy
  <2>2. /\ time \div 4 \in Nat /\ time \div 4 < 512 /\ time \div 4 >= 256
        /\ (time \div 4) * 4 <= time /\ (time - (time \div 4) * 4) * 256 <= time
    BY <1>0, <2>1, SMT
  <2>3. 2 \in 0 .. 7 /\ 4 \in {1, 2, 4, 8, 16, 32, 64, 128} /\ 2 ^ 2 = 4
    BY SMT
  <2>4. ShiftedTo(time, 2, 4, time \div 4)
    BY <2>1, <2>2, <2>3, Zenon DEF ShiftedTo
  <2> QED BY <2>4, MantissaKeeps
<1>5. CASE ShiftedBy(time, 3, 8)
  <2>1. /\ 256 * 8 <= time /\ time < 512 * 8 /\ ErpmShift(time) = 3
    BY <1>5 DEF ShiftedBy
  <2>2. /\ time \div 8 \in Nat /\ time \div 8 < 512 /\ time \div 8 >= 256
        /\ (time \div 8) * 8 <= time /\ (time - (time \div 8) * 8) * 256 <= time
    BY <1>0, <2>1, SMT
  <2>3. 3 \in 0 .. 7 /\ 8 \in {1, 2, 4, 8, 16, 32, 64, 128} /\ 2 ^ 3 = 8
    BY SMT
  <2>4. ShiftedTo(time, 3, 8, time \div 8)
    BY <2>1, <2>2, <2>3, Zenon DEF ShiftedTo
  <2> QED BY <2>4, MantissaKeeps
<1>6. CASE ShiftedBy(time, 4, 16)
  <2>1. /\ 256 * 16 <= time /\ time < 512 * 16 /\ ErpmShift(time) = 4
    BY <1>6 DEF ShiftedBy
  <2>2. /\ time \div 16 \in Nat /\ time \div 16 < 512 /\ time \div 16 >= 256
        /\ (time \div 16) * 16 <= time /\ (time - (time \div 16) * 16) * 256 <= time
    BY <1>0, <2>1, SMT
  <2>3. 4 \in 0 .. 7 /\ 16 \in {1, 2, 4, 8, 16, 32, 64, 128} /\ 2 ^ 4 = 16
    BY SMT
  <2>4. ShiftedTo(time, 4, 16, time \div 16)
    BY <2>1, <2>2, <2>3, Zenon DEF ShiftedTo
  <2> QED BY <2>4, MantissaKeeps
<1>7. CASE ShiftedBy(time, 5, 32)
  <2>1. /\ 256 * 32 <= time /\ time < 512 * 32 /\ ErpmShift(time) = 5
    BY <1>7 DEF ShiftedBy
  <2>2. /\ time \div 32 \in Nat /\ time \div 32 < 512 /\ time \div 32 >= 256
        /\ (time \div 32) * 32 <= time /\ (time - (time \div 32) * 32) * 256 <= time
    BY <1>0, <2>1, SMT
  <2>3. 5 \in 0 .. 7 /\ 32 \in {1, 2, 4, 8, 16, 32, 64, 128} /\ 2 ^ 5 = 32
    BY SMT
  <2>4. ShiftedTo(time, 5, 32, time \div 32)
    BY <2>1, <2>2, <2>3, Zenon DEF ShiftedTo
  <2> QED BY <2>4, MantissaKeeps
<1>8. CASE ShiftedBy(time, 6, 64)
  <2>1. /\ 256 * 64 <= time /\ time < 512 * 64 /\ ErpmShift(time) = 6
    BY <1>8 DEF ShiftedBy
  <2>2. /\ time \div 64 \in Nat /\ time \div 64 < 512 /\ time \div 64 >= 256
        /\ (time \div 64) * 64 <= time /\ (time - (time \div 64) * 64) * 256 <= time
    BY <1>0, <2>1, SMT
  <2>3. 6 \in 0 .. 7 /\ 64 \in {1, 2, 4, 8, 16, 32, 64, 128} /\ 2 ^ 6 = 64
    BY SMT
  <2>4. ShiftedTo(time, 6, 64, time \div 64)
    BY <2>1, <2>2, <2>3, Zenon DEF ShiftedTo
  <2> QED BY <2>4, MantissaKeeps
<1>9. CASE ShiftedBy(time, 7, 128)
  <2>1. /\ 256 * 128 <= time /\ time < 512 * 128 /\ ErpmShift(time) = 7
    BY <1>9 DEF ShiftedBy
  <2>2. /\ time \div 128 \in Nat /\ time \div 128 < 512 /\ time \div 128 >= 256
        /\ (time \div 128) * 128 <= time /\ (time - (time \div 128) * 128) * 256 <= time
    BY <1>0, <2>1, SMT
  <2>3. 7 \in 0 .. 7 /\ 128 \in {1, 2, 4, 8, 16, 32, 64, 128} /\ 2 ^ 7 = 128
    BY SMT
  <2>4. ShiftedTo(time, 7, 128, time \div 128)
    BY <2>1, <2>2, <2>3, Zenon DEF ShiftedTo
  <2> QED BY <2>4, MantissaKeeps
<1> QED BY <1>2, <1>3, <1>4, <1>5, <1>6, <1>7, <1>8, <1>9, ShiftIs, Zenon

LEMMA ErpmAlwaysKept == word \in Words => ErpmKept
<1>1. word \in Words => Fits16(word) /\ Fits16(16 * word) /\ Fits16(16 * word + 15)
  BY SMT DEF Words, Fits16
<1>2. word \in Words => Kept(word) /\ Kept(16 * word) /\ Kept(16 * word + 15)
  BY <1>1, EveryTimeIsKept, Zenon
<1>3. ASSUME word \in Words, NEW time \in {word, 16 * word, 16 * word + 15}
      PROVE  KeptIn(ErpmWord(time, TRUE), time)
  <2>1. time = word \/ time = 16 * word \/ time = 16 * word + 15
    BY <1>3, Zenon
  <2> QED BY <1>2, <1>3, <2>1, Zenon DEF Kept
<1> QED BY <1>3, Zenon DEF ErpmKept, KeptIn

-----------------------------------------------------------------------------
(***************************************************************************)
(* All of it, for every word that comes under test.                          *)
(***************************************************************************)

CodecType == word \in 0 .. LastWord

LEMMA WordGoesRound ==
  ASSUME CodecType, [NextWord]_word
  PROVE  CodecType'
<1>1. LastWord \in 0 .. 4095
  BY CodecAssumption
<1>2. CASE NextWord
  <2>1. (word + 1) % (LastWord + 1) \in 0 .. LastWord
    BY <1>1, SMT DEF CodecType
  <2> QED BY <1>2, <2>1 DEF NextWord, CodecType
<1>3. CASE UNCHANGED word
  BY <1>3 DEF CodecType
<1> QED BY <1>2, <1>3

(* Every frame of every word decodes to what was sent, and is refused with one      *)
(* pulse taken for the other kind or in the other polarity; every reply comes       *)
(* back as the word and the checksum that were encoded, on a line that never        *)
(* rests for more than three bits; and every commutation time of sixteen bits is     *)
(* kept to one part in 256 and never taken for extended telemetry                  *)
(* (dshot.rs:46-157, edt.rs:11-21).                                         *)
THEOREM WordsAlwaysRoundTrip ==
  CodecInit /\ [][NextWord]_word => [](FramesDecode /\ RepliesDecode)
<1>1. CodecInit => CodecType
  <2>1. LastWord \in 0 .. 4095
    BY CodecAssumption
  <2> QED BY <2>1 DEF CodecInit, CodecType
<1>2. CodecType /\ [NextWord]_word => CodecType'
  BY WordGoesRound
<1>3. CodecType => FramesDecode /\ RepliesDecode
  <2>1. ASSUME CodecType
        PROVE  word \in Words
    <3> DEFINE last == 4095
    <3>1. LastWord \in 0 .. last
      BY CodecAssumption
    <3>2. last \in Nat
      OBVIOUS
    <3> HIDE DEF last
    <3>3. word \in 0 .. last
      BY <2>1, <3>1, <3>2 DEF CodecType
    <3> QED BY <3>3 DEF Words, last
  <2> QED
    BY <2>1, FramesAlwaysDecode, RepliesComeBack, ErpmAlwaysKept, Zenon DEF RepliesDecode
<1> QED BY <1>1, <1>2, <1>3, PTL

=============================================================================
