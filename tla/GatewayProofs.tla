--------------------------- MODULE GatewayProofs ----------------------------
(***************************************************************************)
(* Theorems about the drivers of the gateways: the DALI transmitter        *)
(* implements ArcPower, for every number of channels, every set of         *)
(* requested levels, every period longer than a frame and any number of    *)
(* late interrupts and restarts; the CromaLED driver, for every set of     *)
(* numbers the lamp may send and every length of the buffers; the AS7341   *)
(* driver, for every timeout longer than two measurements.                 *)
(***************************************************************************)
EXTENDS MCGatewayDrivers, WellFoundedInduction, SequenceTheorems, TLAPS

----------------------------------------------------------------------------
(* AREA LZ7: the inductive invariant *)

(* From the first assignment of sendArc to the last, no frame is on the    *)
(* bus, and the call is about the channel whose turn it is.                *)
Prepared ==
    pc # "loop" =>
        /\ ~transmitting
        /\ frame = [address |-> nextAddress, value |-> DaliLevel(levels[nextAddress])]

(* Once assigned, and until it has been sent, the pending frame is that of *)
(* the call.                                                               *)
Armed ==
    transmitting \/ pc \in {"index", "arm"} =>
        pendingFrame = DirectArc(frame.address, frame.value)

(* What the lamp has heard starts low and holds no framing error.          *)
SoundSoFar ==
    /\ wire # <<>> => wire[1] = FALSE
    /\ \A n \in 1 .. Len(wire) :
        /\ n <= 34 /\ n % 2 = 0 => wire[n] # wire[n - 1]
        /\ n > 34 => wire[n]

DInv == TypeOK /\ Prepared /\ Armed /\ HeardIsSent /\ SoundSoFar

----------------------------------------------------------------------------
(* Bits *)

LEMMA ChannelFacts ==
    /\ ChannelCount \in Nat /\ ChannelCount >= 2
    /\ \A c \in Channels : c \in Nat /\ c <= 63 /\ 2 * c \in 0 .. 255
    BY DaliAssumption DEF Channels

LEMMA LevelFacts ==
    ASSUME NEW p \in 0 .. 100
    PROVE  DaliLevel(p) \in 0 .. 254 /\ DaliLevel(p) \in 0 .. 255
<1> DEFINE y == (p * 254 + 50) \div 100
<1>1. y \in Int /\ y >= 0 /\ y <= 254
    OBVIOUS
<1> HIDE DEF y
<1>2. y % 256 = y
    BY <1>1
<1>3. DaliLevel(p) = y
    BY <1>2 DEF DaliLevel, y
<1> QED
    BY <1>1, <1>3

LEMMA ByteFacts ==
    ASSUME NEW n \in 0 .. 255
    PROVE  /\ Byte[n] \in Bits(8)
           /\ \A i \in 0 .. 7 : Byte[n][i] = ((n \div 2 ^ i) % 2 = 1)
<1>1. Byte[n] = [i \in 0 .. 7 |-> (n \div 2 ^ i) % 2 = 1]
    BY DEF Byte
<1>2. Bits(8) = [0 .. 7 -> BOOLEAN]
    BY DEF Bits
<1>3. [i \in 0 .. 7 |-> (n \div 2 ^ i) % 2 = 1] \in [0 .. 7 -> BOOLEAN]
    OBVIOUS
<1> QED
    BY <1>1, <1>2, <1>3

(* A byte is determined by its bits. *)
LEMMA ByteInjective ==
    ASSUME NEW n \in 0 .. 255, NEW m \in 0 .. 255, \A i \in 0 .. 7 : Byte[n][i] = Byte[m][i]
    PROVE  n = m
<1>1. \A i \in 0 .. 7 : ((n \div 2 ^ i) % 2 = 1) = ((m \div 2 ^ i) % 2 = 1)
    BY ByteFacts
<1>2. /\ 2 ^ 0 = 1 /\ 2 ^ 1 = 2 /\ 2 ^ 2 = 4 /\ 2 ^ 3 = 8
      /\ 2 ^ 4 = 16 /\ 2 ^ 5 = 32 /\ 2 ^ 6 = 64 /\ 2 ^ 7 = 128
    OBVIOUS
<1>3. ((n \div 128) % 2 = 1) = ((m \div 128) % 2 = 1)
    BY <1>1, <1>2
<1>4. ((n \div 64) % 2 = 1) = ((m \div 64) % 2 = 1)
    BY <1>1, <1>2
<1>5. ((n \div 32) % 2 = 1) = ((m \div 32) % 2 = 1)
    BY <1>1, <1>2
<1>6. ((n \div 16) % 2 = 1) = ((m \div 16) % 2 = 1)
    BY <1>1, <1>2
<1>7. ((n \div 8) % 2 = 1) = ((m \div 8) % 2 = 1)
    BY <1>1, <1>2
<1>8. ((n \div 4) % 2 = 1) = ((m \div 4) % 2 = 1)
    BY <1>1, <1>2
<1>9. ((n \div 2) % 2 = 1) = ((m \div 2) % 2 = 1)
    BY <1>1, <1>2
<1>10. ((n \div 1) % 2 = 1) = ((m \div 1) % 2 = 1)
    BY <1>1, <1>2
<1>11. n \div 128 = m \div 128
    BY <1>3
<1>12. n \div 64 = m \div 64
    BY <1>4, <1>11
<1>13. n \div 32 = m \div 32
    BY <1>5, <1>12
<1>14. n \div 16 = m \div 16
    BY <1>6, <1>13
<1>15. n \div 8 = m \div 8
    BY <1>7, <1>14
<1>16. n \div 4 = m \div 4
    BY <1>8, <1>15
<1>17. n \div 2 = m \div 2
    BY <1>9, <1>16
<1> QED
    BY <1>10, <1>17

LEMMA DirectArcFacts ==
    ASSUME NEW a \in Channels, NEW v \in 0 .. 255
    PROVE  /\ DirectArc(a, v) \in Bits(16)
           /\ \A i \in 0 .. 7 : DirectArc(a, v)[i] = Byte[v][i]
           /\ \A i \in 0 .. 7 : DirectArc(a, v)[8 + i] = Byte[2 * a][i]
<1>1. Byte[2 * a] \in Bits(8) /\ Byte[v] \in Bits(8)
    BY ByteFacts, ChannelFacts
<1> QED
    BY <1>1 DEF DirectArc, Bits

LEMMA HalfBitFacts ==
    ASSUME NEW f \in Bits(16)
    PROVE  /\ \A s \in Nat : HalfBit(f, s) \in BOOLEAN
           /\ HalfBit(f, 0) = FALSE
           /\ HalfBit(f, 1) = TRUE
           /\ \A s \in Nat : s > 33 => HalfBit(f, s) = TRUE
           /\ \A i \in 0 .. 15 : HalfBit(f, 33 - 2 * i) = f[i]
<1>1. \A s \in Nat : HalfBit(f, s) \in BOOLEAN
    BY DEF HalfBit
<1>2. HalfBit(f, 0) = FALSE /\ HalfBit(f, 1) = TRUE
    BY DEF HalfBit
<1>3. \A s \in Nat : s > 33 => HalfBit(f, s) = TRUE
    BY DEF HalfBit
<1>4. ASSUME NEW i \in 0 .. 15 PROVE HalfBit(f, 33 - 2 * i) = f[i]
    <2>1. /\ 33 - 2 * i # 1 /\ 33 - 2 * i \in 2 .. 33 /\ ~ (33 - 2 * i > 33)
          /\ (33 - 2 * i) % 2 = 1 /\ 15 - ((33 - 2 * i) - 2) \div 2 = i
        OBVIOUS
    <2>2. f[i] \in BOOLEAN
        BY DEF Bits
    <2> QED
        BY <2>1, <2>2 DEF HalfBit
<1> QED
    BY <1>1, <1>2, <1>3, <1>4

----------------------------------------------------------------------------
(* The lamp *)

(* What becomes of a half bit: idle, an error, one more, or a whole frame. *)
LEMMA HearSteps ==
    ASSUME TypeOK, SoundSoFar, NEW level \in BOOLEAN, Hear(level)
    PROVE  \/ wire = <<>> /\ level /\ wire' = <<>> /\ UNCHANGED lamp
           \/ ~(wire = <<>> /\ level) /\ wire' = <<>> /\ UNCHANGED lamp
           \/ /\ ~(wire = <<>> /\ level) /\ wire' = Append(wire, level) /\ UNCHANGED lamp
              /\ ~FramingError(Append(wire, level)) /\ Len(wire) + 1 < kFrameHalfBits
           \/ /\ ~(wire = <<>> /\ level) /\ wire' = <<>>
              /\ Len(wire) + 1 = kFrameHalfBits /\ Accept(Decoded(Append(wire, level)))
<1>1. wire \in Seq(BOOLEAN) /\ Len(wire) < kFrameHalfBits
    BY DEF TypeOK
<1>2. CASE wire = <<>> /\ level
    <2>1. ~FramingError(<<>>) /\ Len(<<>>) # kFrameHalfBits
        BY DEF FramingError, kFrameHalfBits
    <2> QED
        BY <1>2, <2>1 DEF Hear
<1>3. CASE ~(wire = <<>> /\ level)
    <2> DEFINE w == Append(wire, level)
    <2>1. Len(w) = Len(wire) + 1 /\ Len(wire) \in Nat
        BY <1>1
    <2>2. IF FramingError(w)
          THEN wire' = <<>> /\ UNCHANGED lamp
          ELSE IF Len(w) = kFrameHalfBits
               THEN wire' = <<>> /\ Accept(Decoded(w))
               ELSE wire' = w /\ UNCHANGED lamp
        BY <1>3 DEF Hear
    <2> HIDE DEF w
    <2>3. CASE FramingError(w)
        BY <1>3, <2>2, <2>3
    <2>4. CASE ~FramingError(w) /\ Len(w) = kFrameHalfBits
        BY <1>3, <2>1, <2>2, <2>4 DEF w
    <2>5. CASE ~FramingError(w) /\ Len(w) # kFrameHalfBits
        BY <1>1, <1>3, <2>1, <2>2, <2>5 DEF w, kFrameHalfBits
    <2> QED
        BY <2>3, <2>4, <2>5
<1> QED
    BY <1>2, <1>3

LEMMA SoundNext ==
    ASSUME TypeOK, SoundSoFar, NEW level \in BOOLEAN, Hear(level)
    PROVE  SoundSoFar'
<1>1. CASE wire' = <<>>
    BY <1>1 DEF SoundSoFar
<1>2. CASE ~(wire = <<>> /\ level) /\ wire' = Append(wire, level) /\ ~FramingError(Append(wire, level))
    <2> DEFINE w == Append(wire, level)
    <2>1. wire \in Seq(BOOLEAN)
        BY DEF TypeOK
    <2>2. Len(w) = Len(wire) + 1 /\ Len(wire) \in Nat /\ \A n \in 1 .. Len(wire) : w[n] = wire[n]
        BY <2>1
    <2>3. w[Len(w)] = level
        BY <2>1
    <2>5. w[1] = FALSE
        <3>1. CASE wire = <<>>
            BY <1>2, <2>2, <2>3, <3>1
        <3>2. CASE wire # <<>>
            <4>1. wire[1] = FALSE /\ Len(wire) >= 1
                BY <2>1, <3>2 DEF SoundSoFar
            <4> QED
                BY <2>2, <4>1
        <3> QED
            BY <3>1, <3>2
    <2>0. ~FramingError(w)
        BY <1>2
    <2> HIDE DEF w
    <2>4. /\ Len(w) <= 34 /\ Len(w) % 2 = 0 => w[Len(w)] # w[Len(w) - 1]
          /\ Len(w) > 34 => w[Len(w)]
        <3>1. Len(w) \in Nat /\ Len(w) >= 1
            BY <2>2
        <3>2. ~(Len(w) \in 1 .. 34 /\ Len(w) % 2 = 0 /\ w[Len(w)] = w[Len(w) - 1])
            BY <2>0 DEF FramingError
        <3>3. Len(w) > 34 => w[Len(w)]
            BY <2>0, Zenon DEF FramingError
        <3>4. Len(w) <= 34 /\ Len(w) % 2 = 0 => w[Len(w)] # w[Len(w) - 1]
            <4>1. \A l \in Nat : l >= 1 /\ l <= 34 => l \in 1 .. 34
                OBVIOUS
            <4> QED
                BY <3>1, <3>2, <4>1, Zenon
        <3> QED
            BY <3>3, <3>4, Zenon
    <2>6. ASSUME NEW n \in 1 .. Len(w)
          PROVE /\ n <= 34 /\ n % 2 = 0 => w[n] # w[n - 1]
                /\ n > 34 => w[n]
        <3>1. CASE n = Len(w)
            BY <2>4, <3>1
        <3>2. CASE n # Len(w)
            <4>1. n \in 1 .. Len(wire) /\ w[n] = wire[n]
                BY <2>2, <3>2
            <4>2. n # 1 => w[n - 1] = wire[n - 1]
                BY <2>2, <4>1
            <4> QED
                BY <4>1, <4>2 DEF SoundSoFar
        <3> QED
            BY <3>1, <3>2
    <2>7. wire' = w
        BY <1>2 DEF w
    <2> QED
        BY <2>5, <2>6, <2>7 DEF SoundSoFar
<1> QED
    BY <1>1, <1>2, HearSteps

(* At the last half bit of a frame the lamp has heard all of it or nothing: *)
(* a reception begun later has met a framing error in the stop bits.       *)
LEMMA AllOrNothing ==
    ASSUME TypeOK, HeardIsSent, SoundSoFar, transmitting, halfBitIndex = kFrameHalfBits - 1
    PROVE  wire = <<>> \/ Len(wire) = kFrameHalfBits - 1
<1> SUFFICES ASSUME wire # <<>>, Len(wire) # kFrameHalfBits - 1 PROVE FALSE
    OBVIOUS
<1>1. wire \in Seq(BOOLEAN) /\ Len(wire) \in Nat /\ pendingFrame \in Bits(16)
    BY DEF TypeOK
<1>2. Len(wire) \in 1 .. 36
    <2>1. Len(wire) <= 37
        BY DEF HeardIsSent, kFrameHalfBits
    <2>2. Len(wire) # 0
        BY <1>1
    <2>3. Len(wire) # 37
        BY DEF kFrameHalfBits
    <2>4. \A l \in Nat : l <= 37 /\ l # 0 /\ l # 37 => l \in 1 .. 36
        OBVIOUS
    <2> QED
        BY <1>1, <2>1, <2>2, <2>3, <2>4
<1> DEFINE s == 37 - Len(wire)
<1>3. s \in 1 .. 36
    <2>1. \A l \in 1 .. 36 : 37 - l \in 1 .. 36
        OBVIOUS
    <2> QED
        BY <1>2, <2>1
<1>4. \A k \in 1 .. Len(wire) : wire[k] = HalfBit(pendingFrame, s + k - 1)
    BY <1>2 DEF HeardIsSent, kFrameHalfBits
<1>5. wire[1] = FALSE
    BY DEF SoundSoFar
<1> HIDE DEF s
<1>6. HalfBit(pendingFrame, s) = FALSE
    <2>1. wire[1] = HalfBit(pendingFrame, s + 1 - 1) /\ s + 1 - 1 = s
        BY <1>2, <1>3, <1>4
    <2> QED
        BY <1>5, <2>1
<1>7. s \in 2 .. 33
    <2>1. s # 1
        BY <1>1, <1>6, HalfBitFacts
    <2>2. ~(s > 33)
        <3>1. s \in Nat
            BY <1>3
        <3> QED
            BY <1>1, <1>6, <3>1, HalfBitFacts
    <2> QED
        BY <1>3, <2>1, <2>2
<1>8. \A k \in 1 .. Len(wire) : s + k - 1 > 33 => wire[k] = TRUE
    <2>1. ASSUME NEW k \in 1 .. Len(wire), s + k - 1 > 33 PROVE wire[k] = TRUE
        <3>1. s + k - 1 \in Nat
            BY <1>3, <1>2
        <3> QED
            BY <1>1, <1>4, <2>1, <3>1, HalfBitFacts
    <2> QED
        BY <2>1
<1>9. Len(wire) = 37 - s
    BY <1>1 DEF s
<1>10. CASE s % 2 = 0
    <2>1. 36 - s \in 1 .. Len(wire) /\ 35 - s \in 1 .. Len(wire) /\ (36 - s) % 2 = 0 /\ 36 - s <= 34
        BY <1>7, <1>9, <1>10
    <2>2. wire[36 - s] = TRUE /\ wire[35 - s] = TRUE
        BY <1>7, <1>8, <2>1
    <2>3. wire[36 - s] # wire[(36 - s) - 1] /\ (36 - s) - 1 = 35 - s
        BY <1>7, <2>1 DEF SoundSoFar
    <2> QED
        BY <2>2, <2>3
<1>11. CASE s % 2 = 1
    <2>1. 37 - s \in 1 .. Len(wire) /\ 36 - s \in 1 .. Len(wire) /\ (37 - s) % 2 = 0 /\ 37 - s <= 34
        BY <1>7, <1>9, <1>11
    <2>2. wire[37 - s] = TRUE /\ wire[36 - s] = TRUE
        BY <1>7, <1>8, <2>1
    <2>3. wire[37 - s] # wire[(37 - s) - 1] /\ (37 - s) - 1 = 36 - s
        BY <1>7, <2>1 DEF SoundSoFar
    <2> QED
        BY <2>2, <2>3
<1> QED
    BY <1>7, <1>10, <1>11

(* A whole frame is decoded to the frame that was armed. *)
LEMMA DecodedIsPending ==
    ASSUME TypeOK, HeardIsSent, transmitting, halfBitIndex = kFrameHalfBits - 1,
           Len(wire) = kFrameHalfBits - 1
    PROVE  Decoded(Append(wire, HalfBit(pendingFrame, halfBitIndex))) = pendingFrame
<1> DEFINE w == Append(wire, HalfBit(pendingFrame, halfBitIndex))
<1>1. pendingFrame \in Bits(16) /\ wire \in Seq(BOOLEAN) /\ Len(wire) = 37
    BY DEF TypeOK, kFrameHalfBits
<1>2. HalfBit(pendingFrame, halfBitIndex) \in BOOLEAN
    BY <1>1, HalfBitFacts DEF kFrameHalfBits
<1>3. ASSUME NEW k \in 1 .. 37 PROVE w[k] = wire[k]
    <2>1. k \in 1 .. Len(wire)
        BY <1>1
    <2> DEFINE b == HalfBit(pendingFrame, halfBitIndex)
    <2> HIDE DEF b
    <2>2. b \in BOOLEAN
        BY <1>2 DEF b
    <2>3. Append(wire, b)[k] = wire[k]
        BY <1>1, <2>1, <2>2
    <2> QED
        BY <2>3 DEF b
<1> HIDE DEF w
<1>4. \A k \in 1 .. 37 : w[k] = HalfBit(pendingFrame, k - 1)
    <2>1. ASSUME NEW k \in 1 .. 37 PROVE wire[k] = HalfBit(pendingFrame, k - 1)
        <3>1. wire[k] = HalfBit(pendingFrame, halfBitIndex - Len(wire) + k - 1)
            BY <1>1, <2>1 DEF HeardIsSent
        <3>2. halfBitIndex - Len(wire) + k - 1 = k - 1
            BY <1>1, <2>1 DEF kFrameHalfBits
        <3> QED
            BY <3>1, <3>2
    <2> QED
        BY <1>3, <2>1
<1>5. ASSUME NEW i \in 0 .. 15 PROVE w[2 + 2 * (15 - i) + 2] = pendingFrame[i]
    <2>1. 2 + 2 * (15 - i) + 2 \in 1 .. 37 /\ 2 + 2 * (15 - i) + 2 - 1 = 33 - 2 * i
        OBVIOUS
    <2>2. w[2 + 2 * (15 - i) + 2] = HalfBit(pendingFrame, 33 - 2 * i)
        BY <1>4, <2>1
    <2> QED
        BY <1>1, <2>2, HalfBitFacts
<1>6. pendingFrame = [i \in 0 .. 15 |-> pendingFrame[i]]
    BY <1>1 DEF Bits
<1>7. Decoded(w) = pendingFrame
    BY <1>5, <1>6 DEF Decoded
<1> QED
    BY <1>7 DEF w

(* A frame is accepted by the ballast it is addressed to and by no other.  *)
LEMMA AcceptedByOne ==
    ASSUME TypeOK, NEW a \in Channels, NEW v \in 0 .. 255, Accept(DirectArc(a, v))
    PROVE  lamp' = [lamp EXCEPT ![a] = Byte[v]]
<1> DEFINE f == DirectArc(a, v)
<1>1. /\ \A i \in 0 .. 7 : f[i] = Byte[v][i]
      /\ \A i \in 0 .. 7 : f[8 + i] = Byte[2 * a][i]
    BY DirectArcFacts
<1>2. lamp' = [c \in Channels |->
                IF \A i \in 0 .. 7 : f[8 + i] = Byte[2 * c][i]
                THEN [i \in 0 .. 7 |-> f[i]]
                ELSE lamp[c]]
    BY DEF Accept
<1> HIDE DEF f
<1>3. ASSUME NEW c \in Channels PROVE (\A i \in 0 .. 7 : f[8 + i] = Byte[2 * c][i]) <=> c = a
    <2>1. ASSUME \A i \in 0 .. 7 : f[8 + i] = Byte[2 * c][i] PROVE c = a
        <3>1. \A i \in 0 .. 7 : Byte[2 * a][i] = Byte[2 * c][i]
            BY <1>1, <2>1
        <3>2. 2 * a \in 0 .. 255 /\ 2 * c \in 0 .. 255 /\ a \in Nat /\ c \in Nat
            BY ChannelFacts
        <3>3. 2 * a = 2 * c
            BY <3>1, <3>2, ByteInjective
        <3> QED
            BY <3>2, <3>3
    <2> QED
        BY <1>1, <2>1
<1>4. [i \in 0 .. 7 |-> f[i]] = Byte[v]
    <2>1. Byte[v] = [i \in 0 .. 7 |-> Byte[v][i]]
        BY DEF Byte
    <2> QED
        BY <1>1, <2>1
<1>5. lamp' = [c \in Channels |-> IF c = a THEN Byte[v] ELSE lamp[c]]
    BY <1>2, <1>3, <1>4
<1>6. lamp = [c \in Channels |-> lamp[c]]
    BY DEF TypeOK
<1> QED
    BY <1>5, <1>6

----------------------------------------------------------------------------
(* The interrupt *)

LEMMA IdleStep ==
    ASSUME DInv, IdleTick
    PROVE  ~transmitting /\ wire' = <<>> /\ UNCHANGED <<lamp, shared>> /\ pin' \in BOOLEAN
<1>1. wire = <<>>
    BY DEF IdleTick, DInv, HeardIsSent
<1>2. Hear(TRUE) /\ TypeOK /\ SoundSoFar
    BY DEF IdleTick, DInv
<1>3. wire' = <<>> /\ UNCHANGED lamp
    <2>1. <<>> \notin {Append(<<>>, TRUE)}
        OBVIOUS
    <2> QED
        BY <1>1, <1>2, HearSteps
<1> QED
    BY <1>3 DEF IdleTick, PinFor

LEMMA MiddleStep ==
    ASSUME DInv, TransmitTick, halfBitIndex < kFrameHalfBits - 1
    PROVE  /\ transmitting' = TRUE /\ UNCHANGED <<pendingFrame, lamp>> /\ HeardIsSent'
           /\ halfBitIndex' = halfBitIndex + 1 /\ halfBitIndex' \in 0 .. kFrameHalfBits - 1
           /\ pin' \in BOOLEAN
           /\ wire' \in Seq(BOOLEAN) /\ Len(wire)' < kFrameHalfBits
<1> DEFINE level == HalfBit(pendingFrame, halfBitIndex)
<1>1. /\ TypeOK /\ HeardIsSent /\ SoundSoFar /\ transmitting
      /\ pendingFrame \in Bits(16) /\ halfBitIndex \in 0 .. 37 /\ halfBitIndex < 37
      /\ wire \in Seq(BOOLEAN) /\ Len(wire) \in Nat
    BY DEF DInv, TypeOK, TransmitTick, kFrameHalfBits
<1>2. level \in BOOLEAN /\ Hear(level)
    <2>1. level \in BOOLEAN
        <3>1. halfBitIndex \in Nat
            BY <1>1
        <3>2. \A n \in Nat : HalfBit(pendingFrame, n) \in BOOLEAN
            BY <1>1, HalfBitFacts
        <3> QED
            BY <3>1, <3>2, Zenon
    <2>2. Hear(level)
        BY Zenon DEF TransmitTick
    <2> QED
        BY <2>1, <2>2
<1>3. /\ halfBitIndex' = halfBitIndex + 1 /\ UNCHANGED <<transmitting, pendingFrame>>
      /\ pin' \in BOOLEAN
    <2>1. ~(halfBitIndex + 1 >= kFrameHalfBits)
        BY <1>1 DEF kFrameHalfBits
    <2>2. /\ halfBitIndex' = halfBitIndex + 1 /\ UNCHANGED <<transmitting, pendingFrame>>
          /\ pin' = PinFor(HalfBit(pendingFrame, halfBitIndex))
        BY <2>1, Zenon DEF TransmitTick
    <2>3. pin' \in BOOLEAN
        BY <2>2, Zenon DEF PinFor
    <2> QED
        BY <2>2, <2>3
<1> HIDE DEF level
<1>4. Len(wire) <= halfBitIndex
    BY <1>1 DEF HeardIsSent
<1>5. Len(wire) + 1 # kFrameHalfBits
    BY <1>1, <1>4 DEF kFrameHalfBits
<1>6. \/ wire' = <<>>
      \/ wire' = Append(wire, level)
    BY <1>1, <1>2, <1>5, HearSteps
<1>7. UNCHANGED lamp
    BY <1>1, <1>2, <1>5, HearSteps
<1>8. CASE wire' = <<>>
    <2>1. Len(wire') = 0 /\ wire' \in Seq(BOOLEAN)
        BY <1>8
    <2>2. HeardIsSent'
        BY <1>1, <1>3, <1>8, <2>1 DEF HeardIsSent
    <2> QED
        BY <1>1, <1>3, <1>7, <2>1, <2>2 DEF PinFor, kFrameHalfBits
<1>9. CASE wire' = Append(wire, level)
    <2>1. /\ Len(wire') = Len(wire) + 1 /\ wire' \in Seq(BOOLEAN)
          /\ \A k \in 1 .. Len(wire) : wire'[k] = wire[k]
          /\ wire'[Len(wire) + 1] = level
        BY <1>1, <1>2, <1>9
    <2>2. Len(wire') <= halfBitIndex' /\ Len(wire') < kFrameHalfBits
        BY <1>1, <1>3, <1>4, <2>1 DEF kFrameHalfBits
    <2>3. ASSUME NEW k \in 1 .. Len(wire')
          PROVE wire'[k] = HalfBit(pendingFrame, halfBitIndex' - Len(wire') + k - 1)
        <3>0. k \in Nat /\ k >= 1 /\ k <= Len(wire) + 1
            BY <1>1, <2>1
        <3>1. halfBitIndex' - Len(wire') + k - 1 = halfBitIndex - Len(wire) + k - 1
            BY <1>1, <1>3, <2>1, <3>0
        <3>2. CASE k = Len(wire) + 1
            <4>1. halfBitIndex - Len(wire) + k - 1 = halfBitIndex
                BY <1>1, <3>2
            <4> QED
                BY <2>1, <3>1, <3>2, <4>1 DEF level
        <3>3. CASE k # Len(wire) + 1
            <4>1. k \in 1 .. Len(wire)
                BY <1>1, <3>0, <3>3
            <4>2. wire[k] = HalfBit(pendingFrame, halfBitIndex - Len(wire) + k - 1)
                BY <1>1, <4>1 DEF HeardIsSent
            <4> QED
                BY <2>1, <3>1, <4>1, <4>2
        <3> QED
            BY <3>2, <3>3
    <2>4. HeardIsSent'
        BY <1>1, <1>3, <2>2, <2>3 DEF HeardIsSent
    <2> QED
        BY <1>1, <1>3, <1>7, <2>1, <2>2, <2>4 DEF PinFor, kFrameHalfBits
<1> QED
    BY <1>6, <1>8, <1>9

(* The last half bit: the frame has reached its ballast, or nobody.        *)
LEMMA LastStep ==
    ASSUME DInv, TransmitTick, halfBitIndex = kFrameHalfBits - 1
    PROVE  /\ transmitting' = FALSE /\ halfBitIndex' = 0 /\ UNCHANGED pendingFrame
           /\ wire' = <<>> /\ pin' \in BOOLEAN
           /\ \/ UNCHANGED lamp
              \/ lamp' = [lamp EXCEPT ![frame.address] = Byte[frame.value]]
<1> DEFINE level == HalfBit(pendingFrame, halfBitIndex)
<1>1. /\ TypeOK /\ HeardIsSent /\ SoundSoFar /\ transmitting
      /\ pendingFrame \in Bits(16) /\ halfBitIndex = 37
    BY DEF DInv, TypeOK, TransmitTick, kFrameHalfBits
<1>2. level = TRUE /\ Hear(level)
    <2>1. level = TRUE
        <3>1. 37 \in Nat /\ 37 > 33
            OBVIOUS
        <3>2. \A n \in Nat : n > 33 => HalfBit(pendingFrame, n) = TRUE
            BY <1>1, HalfBitFacts
        <3>3. HalfBit(pendingFrame, 37) = TRUE
            BY <3>1, <3>2, Zenon
        <3> QED
            BY <1>1, <3>3, Zenon
    <2>2. Hear(level)
        BY Zenon DEF TransmitTick
    <2> QED
        BY <2>1, <2>2
<1>3. /\ transmitting' = FALSE /\ halfBitIndex' = 0 /\ UNCHANGED pendingFrame
      /\ pin' \in BOOLEAN
    BY <1>1 DEF TransmitTick, kFrameHalfBits, PinFor
<1>4. frame.address \in Channels /\ frame.value \in 0 .. 255
      /\ pendingFrame = DirectArc(frame.address, frame.value)
    <2>1. frame \in [address : Channels, value : 0 .. 254]
        BY <1>1 DEF TypeOK
    <2>2. pendingFrame = DirectArc(frame.address, frame.value)
        BY <1>1 DEF DInv, Armed
    <2> QED
        BY <2>1, <2>2
<1>5. Len(wire) = kFrameHalfBits - 1 => Decoded(Append(wire, level)) = pendingFrame
    BY <1>1, DecodedIsPending DEF kFrameHalfBits
<1> HIDE DEF level
<1>6. wire = <<>> \/ Len(wire) = kFrameHalfBits - 1
    BY <1>1, AllOrNothing DEF kFrameHalfBits
<1>7. CASE wire = <<>>
    BY <1>1, <1>2, <1>3, <1>7, HearSteps
<1>8. CASE Len(wire) = kFrameHalfBits - 1 /\ wire # <<>>
    <2>1. ~(Len(wire) + 1 < kFrameHalfBits)
        BY <1>8 DEF kFrameHalfBits
    <2>2. \/ wire' = <<>> /\ UNCHANGED lamp
          \/ wire' = <<>> /\ Accept(Decoded(Append(wire, level)))
        BY <1>1, <1>2, <1>8, <2>1, HearSteps
    <2>3. Accept(Decoded(Append(wire, level)))
          => lamp' = [lamp EXCEPT ![frame.address] = Byte[frame.value]]
        BY <1>1, <1>4, <1>5, <1>8, AcceptedByOne
    <2> QED
        BY <1>3, <2>2, <2>3
<1> QED
    BY <1>6, <1>7, <1>8

----------------------------------------------------------------------------
(* The invariant is inductive *)

LEMMA DInvInit == Init => DInv
<1> SUFFICES ASSUME Init PROVE DInv
    OBVIOUS
<1>1. DirectArc(0, 0) \in Bits(16) /\ 0 \in Channels /\ 1 \in Channels
    <2>1. 0 \in Channels /\ 1 \in Channels
        BY ChannelFacts DEF Channels
    <2>2. 0 \in 0 .. 255
        OBVIOUS
    <2> QED
        BY <2>1, <2>2, DirectArcFacts
<1>2. TypeOK
    BY <1>1, DaliAssumption DEF Init, TypeOK, PinFor, kFrameHalfBits
<1>3. Prepared /\ Armed /\ HeardIsSent /\ SoundSoFar
    BY DEF Init, Prepared, Armed, HeardIsSent, SoundSoFar
<1> QED
    BY <1>2, <1>3 DEF DInv

LEMMA TimerNext ==
    ASSUME DInv, OnTimer
    PROVE  DInv'
<1>1. /\ TypeOK /\ Prepared /\ Armed /\ HeardIsSent /\ SoundSoFar
      /\ UNCHANGED <<levels, nextAddress, pc, frame, faults>>
      /\ halfBitIndex \in 0 .. kFrameHalfBits - 1
    BY DEF DInv, OnTimer, TypeOK
<1>2. elapsed' \in 0 .. Period
    BY <1>1, DaliAssumption DEF OnTimer, TypeOK
<1>3. CASE IdleTick
    <2>1. ~transmitting /\ wire' = <<>> /\ UNCHANGED <<lamp, shared>> /\ pin' \in BOOLEAN
        BY <1>3, IdleStep
    <2>2. TypeOK'
        BY <1>1, <1>2, <2>1 DEF TypeOK, shared, kFrameHalfBits
    <2>3. Prepared' /\ Armed' /\ HeardIsSent' /\ SoundSoFar'
        BY <1>1, <2>1 DEF Prepared, Armed, HeardIsSent, SoundSoFar, shared
    <2> QED
        BY <2>2, <2>3 DEF DInv
<1>4. CASE TransmitTick /\ halfBitIndex < kFrameHalfBits - 1
    <2>0. transmitting
        BY <1>4 DEF TransmitTick
    <2>1. /\ transmitting' = TRUE /\ UNCHANGED <<pendingFrame, lamp>> /\ HeardIsSent'
          /\ halfBitIndex' \in 0 .. kFrameHalfBits - 1 /\ pin' \in BOOLEAN
          /\ wire' \in Seq(BOOLEAN) /\ Len(wire)' < kFrameHalfBits
        BY <1>4, MiddleStep
    <2>2. SoundSoFar'
        <3>1. HalfBit(pendingFrame, halfBitIndex) \in BOOLEAN
            <4>1. halfBitIndex \in Nat /\ pendingFrame \in Bits(16)
                BY <1>1 DEF TypeOK, kFrameHalfBits
            <4>2. \A n \in Nat : HalfBit(pendingFrame, n) \in BOOLEAN
                BY <4>1, HalfBitFacts
            <4> QED
                BY <4>1, <4>2, Zenon
        <3>2. Hear(HalfBit(pendingFrame, halfBitIndex))
            BY <1>4, Zenon DEF TransmitTick
        <3> QED
            BY <1>1, <3>1, <3>2, SoundNext
    <2>3. TypeOK'
        BY <1>1, <1>2, <2>1 DEF TypeOK
    <2>4. Prepared' /\ Armed'
        BY <1>1, <2>0, <2>1 DEF Prepared, Armed
    <2> QED
        BY <2>1, <2>2, <2>3, <2>4 DEF DInv
<1>5. CASE TransmitTick /\ halfBitIndex = kFrameHalfBits - 1
    <2>0. transmitting
        BY <1>5 DEF TransmitTick
    <2>1. /\ transmitting' = FALSE /\ halfBitIndex' = 0 /\ UNCHANGED pendingFrame
          /\ wire' = <<>> /\ pin' \in BOOLEAN
          /\ UNCHANGED lamp \/ lamp' = [lamp EXCEPT ![frame.address] = Byte[frame.value]]
        BY <1>5, LastStep
    <2>2. lamp' \in [Channels -> Bits(8) \union {Unlit}]
        <3>1. frame.address \in Channels /\ frame.value \in 0 .. 255
            <4>1. frame \in [address : Channels, value : 0 .. 254]
                BY <1>1 DEF TypeOK
            <4> QED
                BY <4>1
        <3>2. Byte[frame.value] \in Bits(8)
            BY <3>1, ByteFacts
        <3> QED
            BY <1>1, <2>1, <3>1, <3>2 DEF TypeOK
    <2>3. TypeOK'
        <3>1. wire' \in Seq(BOOLEAN) /\ Len(wire)' < kFrameHalfBits
            <4>1. wire' = <<>>
                BY <2>1
            <4> QED
                BY <4>1 DEF kFrameHalfBits
        <3>2. halfBitIndex' \in 0 .. kFrameHalfBits - 1
            <4>1. halfBitIndex' = 0
                BY <2>1
            <4> QED
                BY <4>1 DEF kFrameHalfBits
        <3>3. transmitting' \in BOOLEAN
            BY <2>1, Zenon
        <3> QED
            BY <1>1, <1>2, <2>1, <2>2, <3>1, <3>2, <3>3 DEF TypeOK
    <2>4. Prepared' /\ Armed' /\ HeardIsSent' /\ SoundSoFar'
        BY <1>1, <2>0, <2>1 DEF Prepared, Armed, HeardIsSent, SoundSoFar
    <2> QED
        BY <2>3, <2>4 DEF DInv
<1>6. IdleTick \/ TransmitTick
    BY DEF OnTimer
<1>7. halfBitIndex < kFrameHalfBits - 1 \/ halfBitIndex = kFrameHalfBits - 1
    BY <1>1 DEF kFrameHalfBits
<1> QED
    BY <1>3, <1>4, <1>5, <1>6, <1>7

LEMMA LoopNext ==
    ASSUME DInv, Loop
    PROVE  DInv'
<1>0. TypeOK /\ Prepared /\ Armed /\ HeardIsSent /\ SoundSoFar
    BY DEF DInv
<1>1. CASE Task
    <2>1. CASE transmitting \/ nextAddress > 63
        <3>1. UNCHANGED <<levels, nextAddress, pc, frame, shared, bus, faults>> /\ elapsed' = 0
            BY <1>1, <2>1 DEF Task
        <3> QED
            BY <1>0, <3>1, DaliAssumption
            DEF DInv, TypeOK, Prepared, Armed, HeardIsSent, SoundSoFar, shared, bus
    <2>2. CASE ~(transmitting \/ nextAddress > 63)
        <3>1. /\ pc = "loop" /\ pc' = "frame" /\ elapsed' = 0
              /\ frame' = [address |-> nextAddress, value |-> DaliLevel(levels[nextAddress])]
              /\ UNCHANGED <<levels, nextAddress, shared, bus, faults>>
            BY <1>1, <2>2 DEF Task
        <3>2. frame' \in [address : Channels, value : 0 .. 254]
            BY <1>0, <3>1, LevelFacts DEF TypeOK
        <3>3. TypeOK'
            BY <1>0, <3>1, <3>2, DaliAssumption DEF TypeOK, shared, bus
        <3>4. Prepared' /\ Armed'
            BY <2>2, <3>1 DEF Prepared, Armed, shared
        <3>5. HeardIsSent' /\ SoundSoFar'
            BY <1>0, <3>1 DEF HeardIsSent, SoundSoFar, shared, bus
        <3> QED
            BY <3>3, <3>4, <3>5 DEF DInv
    <2> QED
        BY <2>1, <2>2
<1>2. CASE SetFrame
    <2>1. DirectArc(frame.address, frame.value) \in Bits(16)
        <3>1. frame.address \in Channels /\ frame.value \in 0 .. 255
            <4>1. frame \in [address : Channels, value : 0 .. 254]
                BY <1>0 DEF TypeOK
            <4> QED
                BY <4>1
        <3> QED
            BY <3>1, DirectArcFacts
    <2>2. TypeOK'
        BY <1>0, <1>2, <2>1 DEF TypeOK, SetFrame, bus
    <2>3. ~transmitting
        BY <1>0, <1>2 DEF Prepared, SetFrame
    <2>4. Prepared' /\ Armed' /\ HeardIsSent' /\ SoundSoFar'
        BY <1>0, <1>2, <2>3 DEF Prepared, Armed, HeardIsSent, SoundSoFar, SetFrame, bus
    <2> QED
        BY <2>2, <2>4 DEF DInv
<1>3. CASE SetIndex
    <2>1. TypeOK'
        BY <1>0, <1>3 DEF TypeOK, SetIndex, bus, kFrameHalfBits
    <2>2. ~transmitting
        BY <1>0, <1>3 DEF Prepared, SetIndex
    <2>3. Prepared' /\ Armed' /\ HeardIsSent' /\ SoundSoFar'
        BY <1>0, <1>3, <2>2 DEF Prepared, Armed, HeardIsSent, SoundSoFar, SetIndex, bus
    <2> QED
        BY <2>1, <2>3 DEF DInv
<1>4. CASE Arm
    <2>1. nextAddress' \in Channels
        BY <1>0, <1>4, ChannelFacts DEF Arm, TypeOK, Channels
    <2>2. TypeOK'
        BY <1>0, <1>4, <2>1 DEF TypeOK, Arm, bus
    <2>3. ~transmitting /\ wire = <<>>
        BY <1>0, <1>4 DEF Prepared, HeardIsSent, Arm
    <2>4. Prepared' /\ Armed'
        BY <1>0, <1>4 DEF Prepared, Armed, Arm
    <2>5. HeardIsSent' /\ SoundSoFar'
        <3>1. wire' = <<>> /\ halfBitIndex' = halfBitIndex /\ halfBitIndex \in Nat
            BY <1>0, <1>4, <2>3 DEF Arm, bus, TypeOK, kFrameHalfBits
        <3> QED
            BY <1>4, <3>1 DEF HeardIsSent, SoundSoFar, Arm
    <2> QED
        BY <2>2, <2>4, <2>5 DEF DInv
<1> QED
    BY <1>1, <1>2, <1>3, <1>4 DEF Loop, SendArc

(* A command finds the loop at rest, and changes levels only.              *)
Commands ==
    \/ \E oneBased \in 0 .. ChannelCount, level \in Requests : SetChannel(oneBased, level)
    \/ \E n \in {1, ChannelCount} : \E array \in [1 .. n -> Requests] : SetChannels(array)
    \/ \E level \in Requests \union {0} : SetAll(level)

LEMMA CommandSteps ==
    ASSUME DInv, Commands
    PROVE  /\ levels' \in [Channels -> 0 .. 100] /\ pc = "loop"
           /\ UNCHANGED <<nextAddress, pc, frame, elapsed, shared, bus, faults>>
<1>1. \A n \in Int : Clamped(n) \in 0 .. 100
    BY DEF Clamped
<1>2. \A n \in Requests \union {0} : Clamped(n) \in 0 .. 100
    BY <1>1, DaliAssumption
<1>3. levels \in [Channels -> 0 .. 100]
    BY DEF DInv, TypeOK
<1>4. ASSUME NEW oneBased \in 0 .. ChannelCount, NEW level \in Requests, SetChannel(oneBased, level)
      PROVE /\ levels' \in [Channels -> 0 .. 100] /\ pc = "loop"
            /\ UNCHANGED <<nextAddress, pc, frame, elapsed, shared, bus, faults>>
    BY <1>2, <1>3, <1>4 DEF SetChannel
<1>5. ASSUME NEW n \in {1, ChannelCount}, NEW array \in [1 .. n -> Requests], SetChannels(array)
      PROVE /\ levels' \in [Channels -> 0 .. 100] /\ pc = "loop"
            /\ UNCHANGED <<nextAddress, pc, frame, elapsed, shared, bus, faults>>
    <2>1. ChannelCount \in Nat /\ n \in Nat
        BY ChannelFacts
    <2>2. Len(array) = n /\ Len(array) = ChannelCount
        BY <1>5, <2>1 DEF SetChannels
    <2>3. \A c \in Channels : Clamped(array[c + 1]) \in 0 .. 100
        <3>1. ASSUME NEW c \in Channels PROVE c + 1 \in 1 .. n
            BY <2>1, <2>2 DEF Channels
        <3> QED
            BY <1>2, <3>1
    <2> QED
        BY <1>5, <2>3 DEF SetChannels
<1>6. ASSUME NEW level \in Requests \union {0}, SetAll(level)
      PROVE /\ levels' \in [Channels -> 0 .. 100] /\ pc = "loop"
            /\ UNCHANGED <<nextAddress, pc, frame, elapsed, shared, bus, faults>>
    BY <1>2, <1>6 DEF SetAll
<1> QED
    BY <1>4, <1>5, <1>6 DEF Commands

LEMMA DInvNext == DInv /\ [Next]_vars => DInv'
<1> SUFFICES ASSUME DInv, [Next]_vars PROVE DInv'
    OBVIOUS
<1>0. TypeOK /\ Prepared /\ Armed /\ HeardIsSent /\ SoundSoFar
    BY DEF DInv
<1>1. CASE UNCHANGED vars
    BY <1>0, <1>1
    DEF DInv, TypeOK, Prepared, Armed, HeardIsSent, SoundSoFar, vars, shared, bus
<1>2. CASE Masked
    <2>1. faults' \in 0 .. MaxFaults /\ wire' = <<>>
        BY <1>0, <1>2, DaliAssumption DEF Masked, TypeOK
    <2>2. TypeOK'
        BY <1>0, <1>2, <2>1, DaliAssumption DEF Masked, TypeOK, shared, kFrameHalfBits
    <2>3. Prepared' /\ Armed' /\ SoundSoFar'
        BY <1>0, <1>2, <2>1 DEF Masked, Prepared, Armed, SoundSoFar, shared
    <2>4. HeardIsSent'
        <3>1. halfBitIndex' \in Nat
            BY <2>2 DEF TypeOK, kFrameHalfBits
        <3> QED
            BY <2>1, <3>1 DEF HeardIsSent
    <2> QED
        BY <2>2, <2>3, <2>4 DEF DInv
<1>3. CASE Commands
    <2>1. /\ levels' \in [Channels -> 0 .. 100] /\ pc = "loop"
          /\ UNCHANGED <<nextAddress, pc, frame, elapsed, shared, bus, faults>>
        BY <1>3, CommandSteps
    <2> QED
        BY <1>0, <2>1 DEF DInv, TypeOK, Prepared, Armed, HeardIsSent, SoundSoFar, shared, bus
<1>4. CASE Restart
    <2>1. DirectArc(0, 0) \in Bits(16) /\ 1 \in Channels
        <3>1. 0 \in Channels /\ 1 \in Channels /\ 0 \in 0 .. 255
            BY ChannelFacts DEF Channels
        <3> QED
            BY <3>1, DirectArcFacts
    <2>2. TypeOK'
        <3>1. /\ levels' \in [Channels -> 0 .. 100] /\ nextAddress' \in Channels
              /\ pc' \in {"loop", "frame", "index", "arm"} /\ UNCHANGED <<frame, lamp>>
            BY <1>4, <2>1 DEF Restart
        <3>2. /\ elapsed' \in 0 .. Period /\ faults' \in 0 .. MaxFaults
              /\ halfBitIndex' \in 0 .. kFrameHalfBits - 1
            BY <1>0, <1>4, DaliAssumption DEF Restart, TypeOK, kFrameHalfBits
        <3>3. /\ pendingFrame' \in Bits(16) /\ transmitting' \in BOOLEAN /\ pin' \in BOOLEAN
            BY <1>4, <2>1 DEF Restart, PinFor
        <3>4. wire' \in Seq(BOOLEAN) /\ Len(wire)' < kFrameHalfBits
            BY <1>4 DEF Restart, kFrameHalfBits
        <3> QED
            BY <1>0, <3>1, <3>2, <3>3, <3>4 DEF TypeOK
    <2>3. Prepared' /\ Armed' /\ HeardIsSent' /\ SoundSoFar'
        BY <1>4 DEF Restart, Prepared, Armed, HeardIsSent, SoundSoFar
    <2> QED
        BY <2>2, <2>3 DEF DInv
<1> QED
    BY <1>1, <1>2, <1>3, <1>4, TimerNext, LoopNext DEF Next, Commands

----------------------------------------------------------------------------
(* What it gives *)

(* The lamp hears only what is being sent (onTimer): what it has received  *)
(* of a frame is a stretch of the waveform of the frame that was armed.    *)
THEOREM HeardAlwaysSent == Spec => []HeardIsSent
<1>1. DInv => HeardIsSent
    BY DEF DInv
<1> QED
    BY <1>1, DInvInit, DInvNext, PTL DEF Spec

(* Nothing touches a frame while the interrupt is sending it (sendArc and  *)
(* onTimer share three volatile variables and no lock).                    *)
THEOREM FrameAlwaysStable == Spec => FrameStable
<1>1. DInv /\ [Next]_vars => [InFlight]_vars
    <2> SUFFICES ASSUME DInv, [Next]_vars, transmitting, transmitting'
                 PROVE  /\ pendingFrame' = pendingFrame
                        /\ halfBitIndex' \in {halfBitIndex, halfBitIndex + 1}
        BY DEF InFlight
    <2>1. pc = "loop"
        BY DEF DInv, Prepared
    <2>2. CASE OnTimer
        BY <2>2 DEF OnTimer, IdleTick, TransmitTick, shared
    <2>3. CASE Loop
        BY <2>1, <2>3 DEF Loop, Task, SendArc, SetFrame, SetIndex, Arm, shared
    <2>4. CASE Commands
        BY <2>4, CommandSteps DEF shared
    <2>5. CASE Restart
        BY <2>5 DEF Restart
    <2> QED
        BY <2>2, <2>3, <2>4, <2>5 DEF Next, Commands, Masked, vars, shared
<1> QED
    BY <1>1, DInvInit, DInvNext, PTL DEF Spec, FrameStable

(* Every level a lamp shows came in one whole frame, addressed to it, with *)
(* the level of its channel when the frame was launched; the channels are  *)
(* served in turn.  No interleaving of the loop and the interrupt, no late *)
(* interrupt and no restart makes the transmitter do anything else.        *)
THEOREM ImplementsArc == Spec => ImplementsArcPower
<1> DEFINE Flying == IF transmitting
                     THEN {[address |-> frame.address, value |-> Byte[frame.value]]}
                     ELSE {}
<1>0. Arc!Channels = Channels
    BY DEF Channels, Arc!Channels
<1>1. Init => Arc!AInit
    <2> SUFFICES ASSUME Init PROVE Arc!AInit
        OBVIOUS
    <2>1. 1 \in Channels
        BY ChannelFacts DEF Channels
    <2> QED
        BY <1>0, <2>1 DEF Init, Arc!AInit
<1>2. DInv /\ [Next]_vars => [Arc!ANext]_Arc!aVars
    <2> SUFFICES ASSUME DInv, [Next]_vars
                 PROVE  Arc!ANext \/ UNCHANGED Arc!aVars
        OBVIOUS
    <2>0. TypeOK /\ Prepared
        BY DEF DInv
    <2>1. CASE UNCHANGED <<levels, nextAddress, transmitting, frame, lamp>>
        BY <2>1 DEF Arc!aVars
    <2>2. CASE OnTimer
        <3>1. CASE IdleTick
            BY <2>1, <2>2, <3>1, IdleStep DEF OnTimer, shared
        <3>2. CASE TransmitTick /\ halfBitIndex < kFrameHalfBits - 1
            <4>1. transmitting' = transmitting
                BY <2>0, <3>2, MiddleStep DEF TransmitTick, TypeOK
            <4> QED
                BY <2>1, <2>2, <3>2, <4>1, MiddleStep DEF OnTimer
        <3>3. CASE TransmitTick /\ halfBitIndex = kFrameHalfBits - 1
            <4>1. /\ transmitting /\ transmitting' = FALSE
                  /\ UNCHANGED lamp \/ lamp' = [lamp EXCEPT ![frame.address] = Byte[frame.value]]
                  /\ UNCHANGED <<levels, nextAddress>>
                BY <2>2, <3>3, LastStep DEF OnTimer, TransmitTick
            <4>2. CASE UNCHANGED lamp
                BY <4>1, <4>2 DEF Arc!ANext, Arc!Lose
            <4>3. CASE lamp' = [lamp EXCEPT ![frame.address] = Byte[frame.value]]
                BY <4>1, <4>3 DEF Arc!ANext, Arc!Deliver
            <4> QED
                BY <4>1, <4>2, <4>3
        <3>4. halfBitIndex < kFrameHalfBits - 1 \/ halfBitIndex = kFrameHalfBits - 1
            BY <2>0 DEF TypeOK, kFrameHalfBits
        <3> QED
            BY <2>2, <3>1, <3>2, <3>3, <3>4 DEF OnTimer
    <2>3. CASE Masked
        BY <2>1, <2>3 DEF Masked, shared
    <2>4. CASE Task
        <3>1. CASE transmitting \/ nextAddress > 63
            BY <2>1, <2>4, <3>1 DEF Task, shared, bus
        <3>2. CASE ~transmitting
            BY <2>4, <3>2 DEF Task, shared, bus, Arc!aVars
        <3> QED
            BY <3>1, <3>2
    <2>5. CASE SetFrame \/ SetIndex
        BY <2>1, <2>5 DEF SetFrame, SetIndex, bus
    <2>6. CASE Arm
        <3>1. ~transmitting /\ transmitting' = TRUE
              /\ frame = [address |-> nextAddress, value |-> DaliLevel(levels[nextAddress])]
              /\ frame' = frame /\ nextAddress' = (nextAddress + 1) % ChannelCount
              /\ UNCHANGED <<levels, lamp>>
            BY <2>0, <2>6 DEF Prepared, Arm, bus
        <3>2. Byte[frame.value] = ArcLevel[levels[nextAddress]]
            <4>1. levels[nextAddress] \in 0 .. 100
                BY <2>0 DEF TypeOK
            <4> QED
                BY <3>1, <4>1 DEF ArcLevel
        <3> QED
            BY <3>1, <3>2 DEF Arc!ANext, Arc!Launch
    <2>7. CASE Commands
        BY <1>0, <2>7, CommandSteps DEF Arc!ANext, Arc!Command, shared, bus
    <2>8. CASE Restart
        <3>1. 1 \in Channels
            BY ChannelFacts DEF Channels
        <3> QED
            BY <1>0, <2>8, <3>1 DEF Restart, Arc!ANext, Arc!Restart
    <2>9. CASE UNCHANGED vars
        BY <2>1, <2>9 DEF vars, shared, bus
    <2> QED
        BY <2>2, <2>3, <2>4, <2>5, <2>6, <2>7, <2>8, <2>9 DEF Next, Loop, SendArc, Commands
<1> QED
    BY <1>1, <1>2, DInvInit, DInvNext, PTL DEF Spec, ImplementsArcPower, Arc!ASpec

----------------------------------------------------------------------------
(* CromaLED: the characters a loop reads *)

(* Induction over the naturals for a set, which, unlike an operator, a     *)
(* lemma can be about.                                                     *)
LEMMA Induction ==
    ASSUME NEW S, 0 \in S, \A n \in Nat : n \in S => n + 1 \in S
    PROVE  Nat \subseteq S
<1> SUFFICES ASSUME ~(Nat \subseteq S)
             PROVE  FALSE
    OBVIOUS
<1> DEFINE T == Nat \ S
<1>1. T # {} /\ T \subseteq Nat
    OBVIOUS
<1>2. PICK x \in T : \A y \in T : ~ (<<y, x>> \in OpToRel(<, Nat))
  <2> HIDE DEF T
  <2> QED
    BY <1>1, NatLessThanWellFounded, WFMin
<1>3. x # 0 /\ x - 1 \in Nat /\ x - 1 < x
    OBVIOUS
<1>4. x - 1 \notin T
    BY <1>2, <1>3 DEF OpToRel
<1>5. x - 1 + 1 \in S
    BY <1>3, <1>4
<1> QED
    BY <1>5

(* The function by which Fed reads characters one after the other. *)
Runs(g, p, chars) ==
    g = [n \in 0 .. Len(chars) |->
            IF n = 0 THEN p ELSE Croma!Feed(g[n - 1], chars[n])]

(* Fed is the last value of that function. *)
LEMMA FedIsRun ==
    ASSUME NEW p, NEW chars
    PROVE  Croma!Fed(p, chars) = (CHOOSE g : Runs(g, p, chars))[Len(chars)]
BY DEF Croma!Fed, Runs

(* There is one, for as many characters as there are. *)
LEMMA RunExists ==
    ASSUME NEW p, NEW chars, Len(chars) \in Nat
    PROVE  \E g : Runs(g, p, chars)
<1> DEFINE To(g, m) == g = [n \in 0 .. m |->
                IF n = 0 THEN p ELSE Croma!Feed(g[n - 1], chars[n])]
           S == {m \in Nat : \E g : To(g, m)}
<1>1. 0 \in S
  <2> DEFINE g == [n \in 0 .. 0 |-> p]
  <2>1. g = [n \in 0 .. 0 |-> IF n = 0 THEN p ELSE Croma!Feed(g[n - 1], chars[n])]
    OBVIOUS
  <2> HIDE DEF g
  <2> QED
    BY <2>1
<1>2. ASSUME NEW m \in Nat, m \in S
      PROVE  m + 1 \in S
  <2>1. PICK g : To(g, m)
    BY <1>2
  <2> DEFINE h == [n \in 0 .. m + 1 |->
                IF n = m + 1 THEN Croma!Feed(g[m], chars[m + 1]) ELSE g[n]]
  <2>2. \A n \in 0 .. m + 1 :
            h[n] = IF n = 0 THEN p ELSE Croma!Feed(h[n - 1], chars[n])
    <3> SUFFICES ASSUME NEW n \in 0 .. m + 1
                 PROVE  h[n] = IF n = 0 THEN p ELSE Croma!Feed(h[n - 1], chars[n])
        OBVIOUS
    <3>1. CASE n = m + 1
      <4>1. h[n - 1] = g[m]
        BY <3>1
      <4> QED
        BY <3>1, <4>1
    <3>2. CASE n # m + 1
      <4>1. n \in 0 .. m /\ h[n] = g[n]
        BY <3>2
      <4>2. n # 0 => h[n - 1] = g[n - 1]
        BY <3>2
      <4>3. g[n] = IF n = 0 THEN p ELSE Croma!Feed(g[n - 1], chars[n])
        BY <2>1, <4>1
      <4> QED
        BY <4>1, <4>2, <4>3
    <3> QED
        BY <3>1, <3>2
  <2>3. To(h, m + 1)
    <3>1. h = [n \in 0 .. m + 1 |-> h[n]]
        OBVIOUS
    <3> HIDE DEF h
    <3> QED
        BY <2>2, <3>1
  <2> HIDE DEF h
  <2> QED
    BY <2>3
<1>3. Nat \subseteq S
  <2> HIDE DEF S
  <2> QED
    BY <1>1, <1>2, Induction
<1> QED
    BY <1>3 DEF Runs

(* Hence Fed is computed as written. *)
LEMMA FedByRun ==
    ASSUME NEW p, NEW chars, Len(chars) \in Nat
    PROVE  \E g : /\ Runs(g, p, chars)
                  /\ Croma!Fed(p, chars) = g[Len(chars)]
BY FedIsRun, RunExists

(* No character changes nothing. *)
LEMMA FedNothing ==
    ASSUME NEW p
    PROVE  Croma!Fed(p, <<>>) = p
<1>1. PICK g : Runs(g, p, <<>>) /\ Croma!Fed(p, <<>>) = g[Len(<<>>)]
    BY FedByRun
<1> QED
    BY <1>1 DEF Runs

(* A character that comes last is read last: what the loop will hear of    *)
(* the port grows by one step for each character that arrives.             *)
LEMMA FedOneMore ==
    ASSUME NEW p, NEW C, NEW chars \in Seq(C), NEW c
    PROVE  Croma!Fed(p, Append(chars, c)) = Croma!Feed(Croma!Fed(p, chars), c)
<1> DEFINE longer == Append(chars, c)
<1>1. /\ Len(chars) \in Nat /\ Len(longer) = Len(chars) + 1
      /\ \A n \in 1 .. Len(chars) : longer[n] = chars[n]
      /\ longer[Len(chars) + 1] = c
    OBVIOUS
<1> HIDE DEF longer
<1>2. PICK g : Runs(g, p, chars) /\ Croma!Fed(p, chars) = g[Len(chars)]
    BY <1>1, FedByRun
<1>3. PICK h : Runs(h, p, longer) /\ Croma!Fed(p, longer) = h[Len(longer)]
    BY <1>1, FedByRun
<1>4. \A n \in 0 .. Len(chars) :
        g[n] = IF n = 0 THEN p ELSE Croma!Feed(g[n - 1], chars[n])
    BY <1>2 DEF Runs
<1>5. \A n \in 0 .. Len(longer) :
        h[n] = IF n = 0 THEN p ELSE Croma!Feed(h[n - 1], longer[n])
    BY <1>3 DEF Runs
<1> DEFINE S == {n \in Nat : n <= Len(chars) => h[n] = g[n]}
<1>6. 0 \in S
    BY <1>1, <1>4, <1>5
<1>7. ASSUME NEW n \in Nat, n \in S
      PROVE  n + 1 \in S
  <2> SUFFICES ASSUME n + 1 <= Len(chars)
               PROVE  h[n + 1] = g[n + 1]
    OBVIOUS
  <2>1. /\ n + 1 \in 1 .. Len(chars) /\ n + 1 \in 0 .. Len(chars)
        /\ n + 1 \in 0 .. Len(longer) /\ n + 1 # 0 /\ n + 1 - 1 = n
    BY <1>1
  <2>2. h[n] = g[n]
    BY <1>1, <1>7
  <2>3. g[n + 1] = Croma!Feed(g[n], chars[n + 1])
    BY <1>4, <2>1
  <2>4. h[n + 1] = Croma!Feed(h[n], longer[n + 1])
    BY <1>5, <2>1
  <2> QED
    BY <1>1, <2>1, <2>2, <2>3, <2>4
<1>8. Nat \subseteq S
  <2> HIDE DEF S
  <2> QED
    BY <1>6, <1>7, Induction
<1>9. h[Len(chars)] = g[Len(chars)]
    BY <1>1, <1>8
<1>10. h[Len(longer)] = Croma!Feed(h[Len(chars)], c)
  <2>1. /\ Len(longer) \in 0 .. Len(longer) /\ Len(longer) # 0
        /\ Len(longer) - 1 = Len(chars) /\ longer[Len(longer)] = c
    BY <1>1
  <2> QED
    BY <1>5, <2>1
<1> QED
    BY <1>2, <1>3, <1>9, <1>10 DEF longer

----------------------------------------------------------------------------
(* CromaLED: the inductive invariant *)

(* The states of the parser. *)
Parsers == [buffer : Seq(Croma!Characters), cut : BOOLEAN,
            value : Seq(Croma!Characters) \union {Nothing}, doubtful : BOOLEAN]

(* The reported value was sent, or characters of its number were lost. *)
Sound(p) == p.doubtful \/ p.value \in Temperatures \union {Nothing}

(* What the lamp has still to say ends with the end of the line, and only  *)
(* there.                                                                  *)
Line(chars) ==
    /\ chars \in Seq(Croma!Characters \union {"end"})
    /\ chars # <<>> =>
        /\ chars[Len(chars)] = "end"
        /\ \A i \in 1 .. Len(chars) - 1 : chars[i] # "end"

(* The buffer and what is still to come make up the number. *)
Joined(number, buffer, rest) ==
    /\ Len(buffer) + Len(rest) = Len(number) + 1
    /\ \A i \in 1 .. Len(buffer) : buffer[i] = number[i]
    /\ \A i \in 1 .. Len(rest) - 1 : rest[i] = number[Len(buffer) + i]

(* Where nothing was lost, the parser has the first part of a number the   *)
(* lamp may send, and the lamp has still to say the rest.                  *)
Agrees(p, rest) ==
    \/ p.cut
    \/ rest = <<>> /\ p.buffer = <<>>
    \/ rest # <<>> /\ \E number \in Temperatures : Joined(number, p.buffer, rest)

(* The parser once it will have read all that the port holds. *)
Heard == Croma!Fed(parser, fifo)

(* Both the parser and what it will be are sound; what was lost last       *)
(* shows in what will be heard; a number under way is never ended by the   *)
(* silence; and the port is untouched until it is given to the lamp.       *)
LInv ==
    /\ lampUartActive \in BOOLEAN
    /\ fifo \in Seq(Croma!Characters \union {"end", "lost"}) 
    /\ quiet \in Nat
    /\ parser \in Parsers /\ Sound(parser)
    /\ Heard \in Parsers /\ Sound(Heard)
    /\ Line(saying)
    /\ fifo # <<>> /\ fifo[Len(fifo)] = "lost" => Heard.cut
    /\ fifo = <<>> /\ saying # <<>> => quiet = 0
    /\ IF lampUartActive
       THEN Agrees(Heard, saying)
       ELSE parser = Croma!NewParser /\ fifo = <<>> /\ quiet = 0

(* What LampNumbers says of the constants. *)
LEMMA LampFacts ==
    /\ FifoSize \in Nat /\ FifoSize > 0
    /\ Silence \in Nat /\ Silence > 0 /\ BufferSize \in Nat
    /\ "end" \notin Croma!Characters /\ "lost" \notin Croma!Characters
    /\ \A number \in Temperatures :
        /\ number \in Seq(Croma!Characters) /\ Len(number) < BufferSize
        /\ \A i \in 2 .. Len(number) : number[i] # "-"
BY LampAssumption DEF Croma!LampNumbers

(* The end of a number takes the buffer for the value. *)
LEMMA CommitFacts ==
    ASSUME NEW p \in Parsers, Sound(p),
           p.cut \/ p.buffer \in Temperatures \union {<<>>}
    PROVE  /\ Croma!Commit(p) \in Parsers /\ Sound(Croma!Commit(p))
           /\ Croma!Commit(p).buffer = <<>> /\ Croma!Commit(p).cut = p.cut
<1>1. /\ p.buffer \in Seq(Croma!Characters) /\ p.cut \in BOOLEAN /\ p.doubtful \in BOOLEAN
      /\ p.value \in Seq(Croma!Characters) \union {Nothing}
      /\ <<>> \in Seq(Croma!Characters)
    BY DEF Parsers
<1>2. CASE p.buffer \in {<<>>, <<"-">>}
  <2> DEFINE r == [p EXCEPT !.buffer = <<>>]
  <2>1. Croma!Commit(p) = r
    BY <1>2 DEF Croma!Commit
  <2>2. r \in Parsers /\ r.buffer = <<>> /\ r.cut = p.cut /\ r.value = p.value
        /\ r.doubtful = p.doubtful
    BY <1>1 DEF Parsers
  <2> HIDE DEF r
  <2> QED
    BY <2>1, <2>2 DEF Sound
<1>3. CASE p.buffer \notin {<<>>, <<"-">>}
  <2> DEFINE r == [p EXCEPT !.buffer = <<>>, !.value = p.buffer, !.doubtful = p.cut]
  <2>1. Croma!Commit(p) = r
    BY <1>3 DEF Croma!Commit
  <2>2. r \in Parsers /\ r.buffer = <<>> /\ r.cut = p.cut /\ r.value = p.buffer
        /\ r.doubtful = p.cut
    BY <1>1 DEF Parsers
  <2> HIDE DEF r
  <2> QED
    BY <1>3, <2>1, <2>2 DEF Sound
<1> QED
    BY <1>2, <1>3

(* A lost character is remembered. *)
LEMMA FeedLost ==
    ASSUME NEW p \in Parsers, Sound(p)
    PROVE  /\ Croma!Feed(p, "lost") \in Parsers /\ Sound(Croma!Feed(p, "lost"))
           /\ Croma!Feed(p, "lost").cut
<1> DEFINE r == [p EXCEPT !.cut = TRUE]
<1>1. Croma!Feed(p, "lost") = r
    BY DEF Croma!Feed
<1>2. r \in Parsers /\ r.cut /\ r.value = p.value /\ r.doubtful = p.doubtful
    BY DEF Parsers
<1> HIDE DEF r
<1> QED
    BY <1>1, <1>2 DEF Sound

(* The end of the line reports the number and begins the next. *)
LEMMA FeedEnd ==
    ASSUME NEW p \in Parsers, Sound(p), p.cut \/ p.buffer \in Temperatures
    PROVE  /\ Croma!Feed(p, "end") \in Parsers /\ Sound(Croma!Feed(p, "end"))
           /\ Croma!Feed(p, "end").buffer = <<>>
<1> DEFINE d == Croma!Commit(p)
           r == [d EXCEPT !.cut = FALSE]
<1>1. Croma!Feed(p, "end") = r
    BY DEF Croma!Feed
<1>2. d \in Parsers /\ Sound(d) /\ d.buffer = <<>>
    BY CommitFacts
<1> HIDE DEF d
<1>3. r \in Parsers /\ r.buffer = <<>> /\ r.value = d.value /\ r.doubtful = d.doubtful
    BY <1>2 DEF Parsers
<1> HIDE DEF r
<1> QED
    BY <1>1, <1>2, <1>3 DEF Sound

(* A character that is not the end goes into the buffer, if it fits. *)
LEMMA FeedDigit ==
    ASSUME NEW p \in Parsers, Sound(p), NEW char \in Croma!Characters
    PROVE  LET r == Croma!Feed(p, char)
           IN  /\ r \in Parsers /\ Sound(r) /\ r.cut = p.cut
               /\ (char # "-" \/ p.buffer = <<>>) /\ Len(p.buffer) + 1 < BufferSize
                    => r.buffer = Append(p.buffer, char)
<1>1. char # "end" /\ char # "lost"
    BY LampFacts
<1>2. CASE Croma!Feed(p, char) = p
  <2>1. ~((char # "-" \/ p.buffer = <<>>) /\ Len(p.buffer) + 1 < BufferSize)
    <3> SUFFICES ASSUME char # "-" \/ p.buffer = <<>>, Len(p.buffer) + 1 < BufferSize
                 PROVE  FALSE
        OBVIOUS
    <3>1. p = [p EXCEPT !.buffer = Append(@, char)]
      BY <1>1, <1>2 DEF Croma!Feed
    <3>2. p.buffer = Append(p.buffer, char) /\ p.buffer \in Seq(Croma!Characters)
      BY <3>1 DEF Parsers
    <3> DEFINE b == p.buffer
    <3>3. Len(Append(b, char)) = Len(b) + 1 /\ Len(b) \in Nat
      BY <3>2
    <3> QED
      BY <3>2, <3>3
  <2> QED
    BY <1>2, <2>1
<1>3. CASE Croma!Feed(p, char) # p
  <2> DEFINE r == [p EXCEPT !.buffer = Append(@, char)]
  <2>1. Croma!Feed(p, char) = r
    BY <1>1, <1>3 DEF Croma!Feed
  <2> DEFINE longer == Append(p.buffer, char)
  <2>2. longer \in Seq(Croma!Characters)
    BY DEF Parsers
  <2>3. r = [p EXCEPT !.buffer = longer]
    OBVIOUS
  <2> HIDE DEF longer
  <2>4. /\ r \in Parsers /\ r.buffer = longer /\ r.cut = p.cut
        /\ r.value = p.value /\ r.doubtful = p.doubtful
    BY <2>2, <2>3 DEF Parsers
  <2> HIDE DEF r
  <2> QED
    BY <2>1, <2>4 DEF Sound, longer
<1> QED
    BY <1>2, <1>3

(* A line without its first character. *)
LEMMA LineTail ==
    ASSUME NEW chars, Line(chars), chars # <<>>
    PROVE  Line(Tail(chars))
<1> DEFINE rest == Tail(chars)
<1>1. chars \in Seq(Croma!Characters \union {"end"}) /\ Len(chars) \in Nat
    BY DEF Line
<1>2. /\ rest \in Seq(Croma!Characters \union {"end"}) /\ Len(rest) = Len(chars) - 1
      /\ \A i \in 1 .. Len(rest) : rest[i] = chars[i + 1]
    BY <1>1, HeadTailProperties
<1> HIDE DEF rest
<1> SUFFICES ASSUME rest # <<>>
             PROVE  /\ rest[Len(rest)] = "end"
                    /\ \A i \in 1 .. Len(rest) - 1 : rest[i] # "end"
    BY <1>2 DEF Line, rest
<1>3. Len(rest) \in 1 .. Len(rest) /\ Len(rest) + 1 = Len(chars)
    BY <1>1, <1>2
<1>4. rest[Len(rest)] = chars[Len(chars)]
    BY <1>2, <1>3
<1>5. \A i \in 1 .. Len(rest) - 1 : i + 1 \in 1 .. Len(chars) - 1 /\ rest[i] = chars[i + 1]
    BY <1>1, <1>2
<1> QED
    BY <1>4, <1>5 DEF Line

(* The last of a sequence one has appended to. *)
LEMMA AppendFacts ==
    ASSUME NEW C, NEW s \in Seq(C), NEW c \in C
    PROVE  /\ Append(s, c) \in Seq(C) /\ Append(s, c) # <<>>
           /\ Append(s, c)[Len(Append(s, c))] = c
BY AppendProperties

(* What the lamp says next keeps the parser in agreement with it. *)
LEMMA HeardNext ==
    ASSUME NEW p \in Parsers, Sound(p), NEW chars, Line(chars), chars # <<>>,
           Agrees(p, chars)
    PROVE  LET r == Croma!Feed(p, Head(chars))
           IN  /\ Head(chars) \in Croma!Characters \union {"end"}
               /\ Line(Tail(chars))
               /\ r \in Parsers /\ Sound(r) /\ Agrees(r, Tail(chars))
<1> DEFINE b == p.buffer
           n == Len(b)
           c == Head(chars)
           rest == Tail(chars)
           r == Croma!Feed(p, c)
<1>1. chars \in Seq(Croma!Characters \union {"end"}) /\ p.cut \in BOOLEAN
    BY DEF Line, Parsers
<1>2. /\ Len(chars) \in Nat /\ Len(chars) > 0 /\ c = chars[1]
      /\ c \in Croma!Characters \union {"end"}
      /\ rest \in Seq(Croma!Characters \union {"end"}) /\ Len(rest) = Len(chars) - 1
      /\ \A i \in 1 .. Len(rest) : rest[i] = chars[i + 1]
      /\ (rest = <<>>) <=> (Len(chars) = 1)
  <2>1. Len(chars) \in Nat /\ Len(chars) > 0
    BY <1>1, EmptySeq
  <2>2. c = chars[1] /\ c \in Croma!Characters \union {"end"}
    BY <1>1, <2>1, HeadTailProperties, ElementOfSeq
  <2>3. /\ rest \in Seq(Croma!Characters \union {"end"}) /\ Len(rest) = Len(chars) - 1
        /\ \A i \in 1 .. Len(rest) : rest[i] = chars[i + 1]
    BY <1>1, HeadTailProperties
  <2> HIDE DEF rest, c
  <2>4. (rest = <<>>) <=> (Len(chars) = 1)
    BY <2>1, <2>3
  <2> QED
    BY <2>1, <2>2, <2>3, <2>4
<1>3. b \in Seq(Croma!Characters) /\ n \in Nat
    BY DEF Parsers
<1> HIDE DEF rest, c, r, b
<1>4. Line(rest)
    BY LineTail DEF rest
<1>5. CASE c = "end"
  <2>1. Len(chars) = 1
    <3> SUFFICES ASSUME Len(chars) # 1
                 PROVE  FALSE
        OBVIOUS
    <3>1. 1 \in 1 .. Len(chars) - 1
      BY <1>2
    <3> QED
      BY <1>2, <1>5, <3>1 DEF Line
  <2>2. rest = <<>>
    BY <1>2, <2>1
  <2>3. p.cut \/ b \in Temperatures
    <3> SUFFICES ASSUME ~p.cut
                 PROVE  b \in Temperatures
        OBVIOUS
    <3>1. PICK number \in Temperatures : Joined(number, b, chars)
      BY DEF Agrees, b
    <3>2. number \in Seq(Croma!Characters) /\ Len(number) \in Nat
      BY LampFacts
    <3>3. n = Len(number) /\ \A i \in 1 .. n : b[i] = number[i]
      BY <1>3, <2>1, <3>1, <3>2 DEF Joined
    <3>4. b = number
      BY <1>3, <3>2, <3>3, SeqEqual
    <3> QED
      BY <3>4
  <2>4. r \in Parsers /\ Sound(r) /\ r.buffer = <<>>
    BY <1>5, <2>3, FeedEnd DEF r, b
  <2> QED
    BY <1>2, <1>4, <2>2, <2>4 DEF Agrees, r, c, rest
<1>6. CASE c # "end"
  <2>1. c \in Croma!Characters
    BY <1>2, <1>6
  <2>2. /\ r \in Parsers /\ Sound(r) /\ r.cut = p.cut
        /\ (c # "-" \/ b = <<>>) /\ n + 1 < BufferSize => r.buffer = Append(b, c)
    BY <2>1, FeedDigit DEF r, b
  <2>3. Len(chars) # 1 /\ rest # <<>>
    BY <1>2, <1>6 DEF Line
  <2>4. ASSUME ~p.cut
        PROVE  \E number \in Temperatures : Joined(number, r.buffer, rest)
    <3>1. PICK number \in Temperatures : Joined(number, b, chars)
      BY <2>4 DEF Agrees, b
    <3>2. number \in Seq(Croma!Characters) /\ Len(number) \in Nat
          /\ Len(number) < BufferSize /\ BufferSize \in Nat
          /\ \A i \in 2 .. Len(number) : number[i] # "-"
      BY LampFacts
    <3>3. /\ n + Len(chars) = Len(number) + 1
          /\ \A i \in 1 .. n : b[i] = number[i]
          /\ \A i \in 1 .. Len(chars) - 1 : chars[i] = number[n + i]
      BY <3>1 DEF Joined
    <3>4. n + 1 <= Len(number) /\ c = number[n + 1]
      BY <1>2, <1>3, <2>3, <3>2, <3>3
    <3>5. c # "-" \/ b = <<>>
      <4>1. CASE n = 0
        BY <1>3, <4>1
      <4>2. CASE n # 0
        BY <1>3, <3>2, <3>4, <4>2
      <4> QED
        BY <4>1, <4>2
    <3>6. r.buffer = Append(b, c)
      BY <1>3, <2>2, <3>2, <3>4, <3>5
    <3> DEFINE d == Append(b, c)
    <3>7. Len(d) = n + 1 /\ d[n + 1] = c /\ \A i \in 1 .. n : d[i] = b[i]
      BY <1>3
    <3> HIDE DEF d, n
    <3>8. n + 1 + Len(rest) = Len(number) + 1
      BY <1>2, <1>3, <3>2, <3>3
    <3>9. \A i \in 1 .. n + 1 : d[i] = number[i]
      <4> SUFFICES ASSUME NEW i \in 1 .. n + 1
                   PROVE  d[i] = number[i]
        OBVIOUS
      <4>1. i = n + 1 \/ i \in 1 .. n
        BY <1>3
      <4> QED
        BY <3>3, <3>4, <3>7, <4>1
    <3>10. \A i \in 1 .. Len(rest) - 1 : rest[i] = number[n + 1 + i]
      <4> SUFFICES ASSUME NEW i \in 1 .. Len(rest) - 1
                   PROVE  rest[i] = number[n + 1 + i]
        OBVIOUS
      <4>1. /\ i + 1 \in 1 .. Len(chars) - 1 /\ i \in 1 .. Len(rest)
            /\ n + (i + 1) = n + 1 + i
        BY <1>2, <1>3
      <4> QED
        BY <1>2, <3>3, <4>1
    <3>11. Joined(number, d, rest)
      BY <3>7, <3>8, <3>9, <3>10 DEF Joined
    <3> QED
      BY <3>6, <3>11 DEF d
  <2>5. Agrees(r, rest)
    BY <2>2, <2>3, <2>4 DEF Agrees
  <2> QED
    BY <1>2, <1>4, <2>2, <2>5 DEF r, c, rest
<1> QED
    BY <1>5, <1>6

(* A number the lamp begins is agreed upon. *)
LEMMA BeginsLine ==
    ASSUME NEW number \in Temperatures, NEW p \in Parsers
    PROVE  LET line == Append(number, "end")
           IN  /\ Line(line) /\ line # <<>>
               /\ p.cut \/ p.buffer = <<>> => Agrees(p, line)
<1> DEFINE line == Append(number, "end")
<1>1. number \in Seq(Croma!Characters) /\ Len(number) \in Nat /\ "end" \notin Croma!Characters
    BY LampFacts
<1>2. /\ line \in Seq(Croma!Characters \union {"end"})
      /\ Len(line) = Len(number) + 1 /\ line[Len(number) + 1] = "end"
      /\ \A i \in 1 .. Len(number) : line[i] = number[i] /\ line[i] \in Croma!Characters
    BY <1>1
<1> HIDE DEF line
<1>3. line # <<>> /\ Line(line)
    BY <1>1, <1>2 DEF Line
<1>4. ASSUME p.buffer = <<>>
      PROVE  Joined(number, p.buffer, line)
    BY <1>1, <1>2, <1>4 DEF Joined
<1>5. p.cut \/ p.buffer = <<>> => Agrees(p, line)
    BY <1>3, <1>4 DEF Agrees
<1> QED
    BY <1>3, <1>5 DEF line

(* The invariant holds to begin with, and through the steps of the other   *)
(* drivers.                                                                *)
LEMMA LInvInit == MCInit => LInv
<1> SUFFICES ASSUME MCInit
             PROVE  LInv
    OBVIOUS
<1> DEFINE n == Croma!NewParser
<1>1. /\ lampUartActive = FALSE /\ fifo = <<>> /\ quiet = 0 /\ saying = <<>> /\ parser = n
    BY DEF MCInit, Croma!CInit
<1>2. n \in Parsers /\ n.value = Nothing /\ n.cut = FALSE /\ n.doubtful = FALSE
    BY DEF Parsers, Croma!NewParser
<1>3. Croma!Fed(n, <<>>) = n
    BY FedNothing
<1> HIDE DEF n
<1>4. Sound(n)
    BY <1>2 DEF Sound
<1>5. Heard = n
    BY <1>1, <1>3 DEF Heard
<1> QED
  <2>1. Line(<<>>) /\ <<>> \in Seq(Croma!Characters \union {"end", "lost"})
    BY DEF Line
  <2> QED
    BY <1>1, <1>2, <1>4, <1>5, <2>1 DEF LInv, n

LEMMA LampStill ==
    LInv /\ UNCHANGED <<lampUartActive, fifo, parser, quiet, saying>> => LInv'
<1> SUFFICES ASSUME LInv, UNCHANGED <<lampUartActive, fifo, parser, quiet, saying>>
             PROVE  LInv'
    OBVIOUS
<1>1. Heard' = Heard
    BY DEF Heard
<1> QED
    BY <1>1 DEF LInv, Sound, Line, Agrees

(* Where a step changes the driver, what is heard afterwards is to be      *)
(* shown.                                                                  *)
LEMMA LampNow ==
    ASSUME LInv, lampUartActive' \in BOOLEAN,
           fifo' \in Seq(Croma!Characters \union {"end", "lost"}),
           quiet' \in Nat, parser' \in Parsers, Sound(parser)',
           NEW q \in Parsers, Sound(q), q = Croma!Fed(parser', fifo'),
           Line(saying'),
           fifo' # <<>> /\ fifo'[Len(fifo')] = "lost" => q.cut,
           fifo' = <<>> /\ saying' # <<>> => quiet' = 0,
           IF lampUartActive' THEN Agrees(q, saying')
           ELSE parser' = Croma!NewParser /\ fifo' = <<>> /\ quiet' = 0
    PROVE  LInv'
<1>1. Heard' = q
    BY DEF Heard
<1> QED
    BY <1>1 DEF LInv, Sound, Line, Agrees

(* A character arrives, is lost, or the line is silent. *)
LEMMA TickStep == LInv /\ Croma!Tick => LInv'
<1> SUFFICES ASSUME LInv, Croma!Tick
             PROVE  LInv'
    OBVIOUS
<1>1. /\ UNCHANGED <<lampUartActive, parser>>
      /\ quiet' = IF parser.buffer # <<>> /\ quiet < Silence THEN quiet + 1 ELSE quiet
    BY DEF Croma!Tick
<1>2. /\ lampUartActive \in BOOLEAN /\ quiet \in Nat /\ parser \in Parsers /\ Sound(parser)
      /\ fifo \in Seq(Croma!Characters \union {"end", "lost"})
      /\ Heard \in Parsers /\ Sound(Heard) /\ Line(saying)
      /\ fifo # <<>> /\ fifo[Len(fifo)] = "lost" => Heard.cut
    BY DEF LInv
<1>3. quiet' \in Nat /\ (~lampUartActive => quiet' = quiet)
  <2>1. quiet' \in Nat
    BY <1>1, <1>2
  <2>2. ASSUME ~lampUartActive
        PROVE  parser.buffer = <<>>
    BY <2>2 DEF LInv, Croma!NewParser
  <2> QED
    BY <1>1, <2>1, <2>2
<1>4. CASE saying = <<>> /\ UNCHANGED <<saying, fifo>>
  <2>1. Heard = Croma!Fed(parser', fifo')
    BY <1>1, <1>4 DEF Heard
  <2> DEFINE q == Heard
  <2>2. /\ q \in Parsers /\ Sound(q) /\ q = Croma!Fed(parser', fifo')
    BY <1>2, <2>1
  <2>3. IF lampUartActive' THEN Agrees(q, saying')
        ELSE parser' = Croma!NewParser /\ fifo' = <<>> /\ quiet' = 0
    BY <1>1, <1>3, <1>4 DEF LInv
  <2> QED
    BY <1>1, <1>2, <1>3, <1>4, <2>2, <2>3, LampNow DEF Sound
<1>5. ASSUME NEW chars, Line(chars), chars # <<>>, Croma!Says(chars),
             lampUartActive => Agrees(Heard, chars)
      PROVE  LInv'
  <2>1. saying' = Tail(chars) /\ Croma!Arrives(Head(chars))
    BY <1>5 DEF Croma!Says
  <2>2. CASE ~lampUartActive
    <3>1. fifo' = fifo /\ fifo = <<>> /\ quiet = 0 /\ parser = Croma!NewParser
      BY <2>1, <2>2 DEF Croma!Arrives, LInv
    <3>2. Line(saying')
      BY <1>5, <2>1, LineTail
    <3>3. Heard = Croma!Fed(parser', fifo')
      BY <1>1, <3>1 DEF Heard
    <3> QED
      BY <1>1, <1>2, <1>3, <2>2, <3>1, <3>2, <3>3, LampNow DEF Sound
  <2>3. CASE lampUartActive
    <3> DEFINE c == Head(chars)
               r == Croma!Feed(Heard, c)
    <3>1. /\ c \in Croma!Characters \union {"end"}
          /\ Line(saying') /\ r \in Parsers /\ Sound(r) /\ Agrees(r, saying')
      BY <1>2, <1>5, <2>1, <2>3, HeardNext
    <3> HIDE DEF c
    <3>2. CASE Len(fifo) < FifoSize
      <4>1. fifo' = Append(fifo, c)
        BY <2>1, <2>3, <3>2 DEF Croma!Arrives, c
      <4>2. r = Croma!Fed(parser', fifo')
        BY <1>1, <1>2, <4>1, FedOneMore DEF Heard
      <4>3. /\ fifo' \in Seq(Croma!Characters \union {"end", "lost"})
            /\ fifo' # <<>> /\ fifo'[Len(fifo')] = c
        BY <1>2, <3>1, <4>1, AppendFacts
      <4>4. c # "lost"
        BY <3>1, LampFacts
      <4> HIDE DEF r
      <4> QED
        BY <1>1, <1>2, <1>3, <2>3, <3>1, <4>2, <4>3, <4>4, LampNow DEF Sound
    <3>3. CASE ~(Len(fifo) < FifoSize) /\ fifo[Len(fifo)] = "lost"
      <4>1. fifo # <<>>
        BY <3>3, LampFacts
      <4>2. fifo' = fifo
        BY <2>1, <2>3, <3>3 DEF Croma!Arrives, Croma!Last
      <4>3. Heard = Croma!Fed(parser', fifo') /\ Heard.cut
        BY <1>1, <1>2, <3>3, <4>1, <4>2 DEF Heard
      <4>4. Agrees(Heard, saying')
        BY <4>3 DEF Agrees
      <4> QED
        BY <1>1, <1>2, <1>3, <2>3, <3>1, <4>1, <4>2, <4>3, <4>4, LampNow DEF Sound
    <3>4. CASE ~(Len(fifo) < FifoSize) /\ fifo[Len(fifo)] # "lost"
      <4> DEFINE d == Croma!Feed(Heard, "lost")
      <4>1. fifo' = Append(fifo, "lost")
        BY <2>1, <2>3, <3>4 DEF Croma!Arrives, Croma!Last
      <4>2. d = Croma!Fed(parser', fifo')
        BY <1>1, <1>2, <4>1, FedOneMore DEF Heard
      <4>3. /\ fifo' \in Seq(Croma!Characters \union {"end", "lost"})
            /\ fifo' # <<>>
        BY <1>2, <4>1, AppendFacts
      <4>4. d \in Parsers /\ Sound(d) /\ d.cut
        BY <1>2, FeedLost
      <4>5. Agrees(d, saying')
        BY <4>4 DEF Agrees
      <4> HIDE DEF d
      <4> QED
        BY <1>1, <1>2, <1>3, <2>3, <3>1, <4>2, <4>3, <4>4, <4>5, LampNow DEF Sound
    <3> QED
      BY <3>2, <3>3, <3>4
  <2> QED
    BY <2>2, <2>3
<1>6. CASE saying # <<>> /\ Croma!Says(saying)
  <2>1. lampUartActive => Agrees(Heard, saying)
    BY DEF LInv
  <2> QED
    BY <1>2, <1>5, <1>6, <2>1
<1>7. ASSUME saying = <<>>, NEW number \in Temperatures,
             Croma!Says(Append(number, "end"))
      PROVE  LInv'
  <2> DEFINE line == Append(number, "end")
  <2>1. lampUartActive => Heard.cut \/ Heard.buffer = <<>>
    BY <1>7 DEF LInv, Agrees
  <2>2. Line(line) /\ line # <<>> /\ (lampUartActive => Agrees(Heard, line))
    BY <1>2, <1>7, <2>1, BeginsLine
  <2> HIDE DEF line
  <2> QED
    BY <1>5, <1>7, <2>2 DEF line
<1> QED
    BY <1>4, <1>6, <1>7 DEF Croma!Tick

(* The loop reads all there is, and only a silence longer than one         *)
(* between two characters ends a number.                                   *)
LEMMA LoopStep == LInv /\ Croma!LampTask => LInv'
<1> SUFFICES ASSUME LInv, Croma!LampTask
             PROVE  LInv'
    OBVIOUS
<1> DEFINE since == IF fifo = <<>> THEN quiet ELSE 0
<1>1. /\ lampUartActive /\ UNCHANGED <<lampUartActive, saying>>
      /\ parser' = IF Croma!Over(Heard, since) THEN Croma!Commit(Heard) ELSE Heard
      /\ quiet' = IF parser'.buffer = <<>> THEN 0 ELSE since
      /\ fifo' = <<>>
    BY DEF Croma!LampTask, Croma!ReadTemperature, Heard
<1>2. /\ Heard \in Parsers /\ Sound(Heard) /\ Line(saying) /\ quiet \in Nat
      /\ Agrees(Heard, saying)
      /\ fifo = <<>> /\ saying # <<>> => quiet = 0
    BY <1>1 DEF LInv
<1>3. since \in Nat /\ (saying # <<>> => since = 0)
    BY <1>2
<1> HIDE DEF since
<1>4. parser' \in Parsers /\ Sound(parser') /\ Agrees(parser', saying)
  <2>1. CASE Croma!Over(Heard, since)
    <3>1. Heard.buffer # <<>> /\ saying = <<>>
      BY <1>3, <2>1, LampFacts DEF Croma!Over
    <3>2. Heard.cut
      BY <1>2, <3>1 DEF Agrees
    <3>3. parser' = Croma!Commit(Heard)
      BY <1>1, <2>1
    <3> QED
      BY <1>2, <3>2, <3>3, CommitFacts DEF Agrees
  <2>2. CASE ~Croma!Over(Heard, since)
    BY <1>1, <1>2, <2>2
  <2> QED
    BY <2>1, <2>2
<1>5. parser' = Croma!Fed(parser', fifo')
    BY <1>1, FedNothing
<1>6. quiet' \in Nat /\ (saying' # <<>> => quiet' = 0)
    BY <1>1, <1>3
<1>7. <<>> \in Seq(Croma!Characters \union {"end", "lost"})
    OBVIOUS
<1> QED
    BY <1>1, <1>2, <1>4, <1>5, <1>6, <1>7, LampNow DEF Sound

(* The port is given to the lamp, perhaps in the middle of a number. *)
LEMMA ActivateStep == LInv /\ Croma!Activate => LInv'
<1> SUFFICES ASSUME LInv, Croma!Activate
             PROVE  LInv'
    OBVIOUS
<1> DEFINE chars == Croma!Characters \union {"end", "lost"}
<1>1. /\ ~lampUartActive /\ lampUartActive' = TRUE /\ UNCHANGED <<parser, quiet, saying>>
      /\ fifo' = IF saying # <<>> THEN <<"lost">> ELSE <<>>
    BY DEF Croma!Activate
<1>2. /\ parser = Croma!NewParser /\ quiet = 0 /\ parser \in Parsers /\ Sound(parser)
      /\ Line(saying)
    BY <1>1 DEF LInv
<1>3. CASE saying = <<>>
  <2>1. parser = Croma!Fed(parser', fifo')
    BY <1>1, <1>3, FedNothing
  <2>2. Agrees(parser, saying')
    BY <1>1, <1>2, <1>3 DEF Agrees, Croma!NewParser
  <2>3. fifo' = <<>> /\ <<>> \in Seq(chars)
    BY <1>1, <1>3
  <2> QED
    BY <1>1, <1>2, <2>1, <2>2, <2>3, LampNow DEF Sound
<1>4. CASE saying # <<>>
  <2> DEFINE r == Croma!Feed(parser, "lost")
  <2>1. fifo' = Append(<<>>, "lost") /\ <<>> \in Seq(chars) /\ "lost" \in chars
    BY <1>1, <1>4
  <2>2. fifo' \in Seq(chars) /\ fifo' # <<>>
    BY <2>1, AppendFacts
  <2>3. r = Croma!Fed(parser', fifo')
    <3>1. Croma!Fed(parser, Append(<<>>, "lost")) = Croma!Feed(Croma!Fed(parser, <<>>), "lost")
      BY <2>1, FedOneMore
    <3> QED
      BY <1>1, <2>1, <3>1, FedNothing
  <2>4. r \in Parsers /\ Sound(r) /\ r.cut
    BY <1>2, FeedLost
  <2> HIDE DEF r
  <2>5. Agrees(r, saying')
    BY <2>4 DEF Agrees
  <2> QED
    BY <1>1, <1>2, <2>2, <2>3, <2>4, <2>5, LampNow DEF Sound
<1> QED
    BY <1>3, <1>4

(* A restart forgets everything the parser held. *)
LEMMA RebootStep == LInv /\ Croma!Reboot => LInv'
<1> SUFFICES ASSUME LInv, Croma!Reboot
             PROVE  LInv'
    OBVIOUS
<1> DEFINE n == Croma!NewParser
<1>1. /\ lampUartActive' = FALSE /\ fifo' = <<>> /\ parser' = n /\ quiet' = 0
      /\ saying' = saying
    BY DEF Croma!Reboot
<1>2. n \in Parsers /\ Sound(n)
    BY DEF Parsers, Sound, Croma!NewParser
<1>3. Line(saying') /\ <<>> \in Seq(Croma!Characters \union {"end", "lost"})
    BY <1>1 DEF LInv
<1>4. n = Croma!Fed(parser', fifo')
    BY <1>1, FedNothing
<1> HIDE DEF n
<1> QED
    BY <1>1, <1>2, <1>3, <1>4, LampNow DEF Sound, n

(* Every step keeps the invariant. *)
LEMMA LInvNext == LInv /\ [MCNext]_allVars => LInv'
<1> SUFFICES ASSUME LInv, [MCNext]_allVars
             PROVE  LInv'
    OBVIOUS
<1>1. CASE UNCHANGED cromaVars
    BY <1>1, LampStill DEF cromaVars
<1>2. ASSUME NEW l, Croma!Set(l)
      PROVE  LInv'
    BY <1>2, LampStill DEF Croma!Set, Croma!port
<1>3. CASE Croma!Connection
    BY <1>3, LampStill DEF Croma!Connection, Croma!port
<1>4. CASE Croma!CNext
    BY <1>2, <1>3, <1>4, TickStep, LoopStep, ActivateStep, RebootStep
    DEF Croma!CNext, Croma!LampLoop, Croma!SetOutput, Croma!SetOutputs, Croma!SetAllOutputs
<1> QED
    BY <1>1, <1>4 DEF MCNext, Dali, Led, Spectral, Of, allVars

(* A temperature the gateway reports is one the lamp has sent, unless a    *)
(* character of its number was lost: however late the loop polls, and      *)
(* wherever in a number the port was handed over or the board restarted    *)
(* (readTemperatureNonBlocking; README.md:173).                            *)
THEOREM TemperatureAlwaysSent == MCSpec => []TemperatureWasSent
<1>1. LInv => TemperatureWasSent
    BY DEF LInv, Sound, TemperatureWasSent, Croma!TemperatureWasSent, Croma!ReportedWasSent
<1> QED
    BY <1>1, LInvInit, LInvNext, PTL DEF MCSpec

----------------------------------------------------------------------------
(* AS7341 *)

(* The buffer holds the low channels whenever the high ones are measured;  *)
(* a sample that has just come is followed by a new measurement.           *)
Paired ==
  /\ Sensor!STypeOK
  /\ sample # "mixed"
  /\ reading = "high" => "low" \in held
  /\ sample = "whole" /\ age = 0 =>
       at = "agent" /\ reading = "low" /\ integrated = 0 /\ sinceRead = 0

(* The loop and the sensor in step: the clocks run together, and the poll  *)
(* after the agent finds what the sensor has.                              *)
InStep ==
  /\ ready /\ free /\ ~hung /\ hangs = MaxHangs /\ sample = "whole"
  /\ sinceRead = age
  /\ reading = "low" => age = integrated
  /\ reading = "high" => age = Integration + integrated
  /\ at = "agent" => integrated < Integration

(* It holds to begin with, and whatever the poll finds. *)
LEMMA PairedInit == Sensor!SInit => Paired
<1> SUFFICES ASSUME Sensor!SInit PROVE Paired
  OBVIOUS
<1>1. 0 \in 0 .. ReadTimeout /\ 0 \in 0 .. Integration /\ 0 \in 0 .. Sensor!StaleAge
      /\ 0 \in 0 .. MaxHangs
  BY SensorAssumption DEF Sensor!SensorTimes, Sensor!StaleAge
<1> QED
  BY <1>1 DEF Sensor!SInit, Paired, Sensor!STypeOK

LEMMA PollPaired ==
  ASSUME Paired, Sensor!Task
  PROVE  Paired' /\ (InStep => InStep')
<1> USE SensorAssumption DEF Sensor!SensorTimes, Sensor!StaleAge
<1>0. /\ 0 \in 0 .. ReadTimeout /\ 0 \in 0 .. Integration /\ 0 \in 0 .. Sensor!StaleAge
      /\ Sensor!STypeOK
      /\ at = "task" /\ at' = "agent" /\ UNCHANGED <<ready, free, hangs>>
  BY DEF Sensor!Task, Paired
<1>1. ASSUME InStep
      PROVE  ready /\ ~Sensor!TimedOut
  BY <1>0, <1>1 DEF InStep, Sensor!TimedOut, Sensor!STypeOK
<1>2. CASE Sensor!Wait
  <2>1. UNCHANGED <<reading, held, sample, sinceRead, age, integrated, hung>>
    BY <1>2 DEF Sensor!Wait, Sensor!sensor
  <2>2. InStep => integrated < Integration
    BY <1>0, <1>2 DEF Sensor!Wait, Sensor!DataReady, InStep, Sensor!STypeOK
  <2>3. Paired'
    BY <1>0, <2>1 DEF Paired, Sensor!STypeOK
  <2> QED
    BY <1>0, <2>1, <2>2, <2>3 DEF InStep
<1>3. CASE Sensor!ReadLow
  <2>1. /\ reading = "low" /\ reading' = "high" /\ held' = {"low"} /\ integrated' = 0
        /\ hung' = FALSE /\ UNCHANGED <<sample, sinceRead, age>>
        /\ integrated >= Integration
    BY <1>3 DEF Sensor!ReadLow, Sensor!Measure, Sensor!DataReady
  <2>2. Paired'
    BY <1>0, <2>1 DEF Paired, Sensor!STypeOK
  <2>3. InStep => InStep'
    BY <1>0, <2>1 DEF InStep, Sensor!STypeOK
  <2> QED
    BY <2>2, <2>3
<1>4. CASE Sensor!Complete
  <2>1. /\ reading = "high" /\ sample' = "whole" /\ age' = 0 /\ sinceRead' = 0
        /\ reading' = "low" /\ held' = {} /\ integrated' = 0 /\ hung' = FALSE
    BY <1>4 DEF Sensor!Complete, Sensor!StartReading, Sensor!Measure, Paired
  <2>2. Paired'
    BY <1>0, <2>1 DEF Paired, Sensor!STypeOK
  <2>3. InStep => InStep'
    BY <1>0, <2>1 DEF InStep
  <2> QED
    BY <2>2, <2>3
<1>5. CASE Sensor!Expire
  <2>1. /\ sinceRead' = 0 /\ reading' = "low" /\ held' = {} /\ integrated' = 0
        /\ hung' = FALSE /\ UNCHANGED <<sample, age>>
    BY <1>5 DEF Sensor!Expire, Sensor!StartReading, Sensor!Measure
  <2>2. Paired'
    BY <1>0, <2>1 DEF Paired, Sensor!STypeOK
  <2> QED
    BY <1>1, <1>5, <2>2 DEF Sensor!Expire
<1>6. CASE ~ready
  <2>1. UNCHANGED <<reading, held, sample, sinceRead, age, integrated, hung>>
    BY <1>6 DEF Sensor!Task, Sensor!sensor
  <2>2. Paired'
    BY <1>0, <2>1 DEF Paired, Sensor!STypeOK
  <2> QED
    BY <1>1, <1>6, <2>2
<1> QED
  BY <1>2, <1>3, <1>4, <1>5, <1>6 DEF Sensor!Task

(* The agent takes its time, a tick of it once it is short. *)
LEMMA AgentPaired ==
  ASSUME Paired, NEW ticks \in 1 .. ReadTimeout, Sensor!Agent(ticks)
  PROVE  Paired' /\ (InStep => InStep')
<1> USE SensorAssumption DEF Sensor!SensorTimes, Sensor!StaleAge
<1>1. /\ at = "agent" /\ at' = "task" /\ (free => ticks = 1)
      /\ sinceRead' = (IF sinceRead + ticks < ReadTimeout THEN sinceRead + ticks ELSE ReadTimeout)
      /\ age' = (IF age + ticks < Sensor!StaleAge THEN age + ticks ELSE Sensor!StaleAge)
      /\ integrated' = (IF integrated + ticks < Integration THEN integrated + ticks ELSE Integration)
      /\ UNCHANGED <<ready, reading, held, sample, hung, free, hangs>>
  BY DEF Sensor!Agent, Sensor!AtMost
<1>2. /\ sinceRead \in 0 .. ReadTimeout /\ age \in 0 .. Sensor!StaleAge
      /\ integrated \in 0 .. Integration /\ Sensor!STypeOK
  BY DEF Paired, Sensor!STypeOK
<1>3. /\ sinceRead' \in 0 .. ReadTimeout /\ age' \in 0 .. Sensor!StaleAge
      /\ integrated' \in 0 .. Integration /\ age' # 0
  BY <1>1, <1>2
<1>4. Paired'
  BY <1>1, <1>2, <1>3 DEF Paired, Sensor!STypeOK
<1>5. ASSUME InStep PROVE InStep'
  <2>1. /\ age = sinceRead /\ integrated + 1 <= Integration
        /\ \/ reading = "low" /\ age = integrated
           \/ reading = "high" /\ age = Integration + integrated
    BY <1>1, <1>2, <1>5 DEF InStep, Sensor!STypeOK
  <2>2. age + 1 <= 2 * Integration
    BY <1>2, <2>1
  <2>3. age' = age + 1 /\ sinceRead' = age + 1 /\ integrated' = integrated + 1
    BY <1>1, <1>2, <1>5, <2>1, <2>2 DEF InStep
  <2> QED
    BY <1>1, <1>2, <1>5, <2>1, <2>3 DEF InStep
<1> QED
  BY <1>4, <1>5

(* Every step of the gateway. *)
LEMMA SensorPaired ==
  ASSUME Paired, [MCNext]_allVars
  PROVE  Paired' /\ (InStep => InStep')
<1>1. ASSUME UNCHANGED sensorVars PROVE Paired' /\ (InStep => InStep')
  BY <1>1 DEF sensorVars, Paired, Sensor!STypeOK, InStep, Sensor!StaleAge
<1>2. ASSUME Sensor!Hang PROVE Paired' /\ (InStep => InStep')
  <2>1. /\ hangs < MaxHangs /\ hangs' = hangs + 1 /\ hung' = TRUE
        /\ UNCHANGED <<ready, reading, held, sinceRead, sample, at, age, integrated, free>>
    BY <1>2 DEF Sensor!Hang, Sensor!driver
  <2>2. hangs' \in 0 .. MaxHangs /\ hangs # MaxHangs
    BY <2>1, SensorAssumption DEF Sensor!SensorTimes, Paired, Sensor!STypeOK
  <2> QED
    BY <2>1, <2>2 DEF Paired, Sensor!STypeOK, InStep, Sensor!StaleAge
<1>3. ASSUME Sensor!GetFree PROVE Paired' /\ (InStep => InStep')
  BY <1>3 DEF Sensor!GetFree, Sensor!driver, Sensor!sensor, Paired, Sensor!STypeOK, InStep,
     Sensor!StaleAge
<1>4. ASSUME Sensor!SNext PROVE Paired' /\ (InStep => InStep')
  BY <1>2, <1>3, <1>4, PollPaired, AgentPaired DEF Sensor!SNext, Sensor!Goes
<1> QED
  BY <1>1, <1>4 DEF MCNext, Dali, Led, Spectral, Of, allVars

(* No sample is put together from two, whatever was given up and begun     *)
(* again between its halves (AS7341_Device.h, checkReadingProgress).       *)
THEOREM SamplesAlwaysWhole == MCSpec => []Sensor!SamplesAreWhole
<1>1. MCInit => Paired
  BY PairedInit DEF MCInit
<1>2. Paired => Sensor!SamplesAreWhole
  BY DEF Paired, Sensor!SamplesAreWhole
<1> QED
  BY <1>1, <1>2, SensorPaired, PTL DEF MCSpec

(* From a sample on after which the agent is short and the sensor does     *)
(* not hang, each sample comes before the last one is as old as two        *)
(* measurements: the safety half of SamplesKeepComing, for every length    *)
(* of a measurement (AS7341_Device.h, kReadTimeoutMs).                     *)
THEOREM SamplesStayFresh == MCSpec => Sensor!OnceFreshStaysFresh
<1>1. MCInit => Paired
  BY PairedInit DEF MCInit
<1>2. Paired /\ Sensor!JustCame => InStep
  BY SensorAssumption DEF Paired, Sensor!JustCame, InStep, Sensor!SensorTimes
<1>3. Paired /\ InStep => sample = "whole" /\ age < Sensor!StaleAge
  <2> SUFFICES ASSUME Paired, InStep PROVE sample = "whole" /\ age < Sensor!StaleAge
    OBVIOUS
  <2>1. integrated \in 0 .. Integration /\ reading \in {"low", "high"}
    BY DEF Paired, Sensor!STypeOK
  <2> QED
    BY <2>1, SensorAssumption DEF InStep, Sensor!StaleAge, Sensor!SensorTimes
<1> QED
  BY <1>1, <1>2, <1>3, SensorPaired, PTL DEF MCSpec, Sensor!OnceFreshStaysFresh

============================================================================
