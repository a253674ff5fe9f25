--------------------------- MODULE DaliTransmitter --------------------------
(***************************************************************************)
(* The DALI direct-arc transmitter of the AREA LZ7 gateway                 *)
(* (AREA_LZ7_Device.h) and the command handlers that feed it               *)
(* (AREA_LZ7_Gateway.ino).  Two actors share volatile variables and no     *)
(* lock: the loop task, which prepares a frame in three assignments and    *)
(* arms it, and the interrupt of a hardware timer, which every half bit    *)
(* puts the next Manchester half bit on the pin.  The interrupt runs on    *)
(* the loop's core, so it is atomic for the loop but falls between any two *)
(* of its assignments.                                                     *)
(*                                                                         *)
(* The lamp at the other end of the bus is external.  It is a receiver     *)
(* that knows nothing of the transmitter's variables: a low level starts   *)
(* a frame, two equal halves of a bit or a low stop bit abandon it, and    *)
(* the ballast whose address it carries takes its level.                   *)
(*                                                                         *)
(* A frame is a function from bit numbers to Booleans.  Time is counted in *)
(* half bits; Period is the 100 ms between two frames of the loop.         *)
(***************************************************************************)
EXTENDS Integers, Sequences

CONSTANTS
    ChannelCount,   \* kChannelCount
    Requests,       \* the integers a command may carry as a level
    Period,         \* half bits in the 100 ms between two calls of sendArc
    MaxFaults,      \* bound: late interrupts and restarts of the board
    Unlit           \* what a ballast shows before any frame reached it

kFrameHalfBits == 38

ASSUME DaliAssumption ==
    /\ ChannelCount \in 2 .. 64
    /\ Requests \subseteq Int
    /\ Period \in Nat /\ Period > kFrameHalfBits
    /\ MaxFaults \in Nat

VARIABLES
    levels,         \* levels_
    nextAddress,    \* nextAddress_
    pc,             \* where the loop is in sendArc
    frame,          \* sendArc's arguments, in the current or the last call
    elapsed,        \* half bits since lastTransmitMs_, up to Period
    pendingFrame, halfBitIndex, transmitting,    \* shared with the interrupt
    pin,            \* the level of the TX pin
    wire,           \* the half bits of the frame the lamp is receiving
    lamp,           \* ballast -> the arc level it took last
    faults

shared == <<pendingFrame, halfBitIndex, transmitting>>
bus == <<pin, wire, lamp>>
vars == <<levels, nextAddress, pc, frame, elapsed, shared, bus, faults>>

Channels == 0 .. ChannelCount - 1

----------------------------------------------------------------------------
(* Conversions *)

Byte == [n \in 0 .. 255 |-> [i \in 0 .. 7 |-> (n \div 2 ^ i) % 2 = 1]]

(* daliLevel: 0 .. 100 per cent to 0 .. 254, rounded; the cast to uint8_t *)
DaliLevel(percent) == ((percent * 254 + 50) \div 100) % 256

(* The eight bits of the level a channel's frame carries *)
ArcLevel == [percent \in 0 .. 100 |-> Byte[DaliLevel(percent)]]

(* clampPercent, and the clamping of setChannel, setAll and setChannels *)
Clamped(n) == IF n < 0 THEN 0 ELSE IF n > 100 THEN 100 ELSE n

(* The frame sendArc builds: address << 1, then the level *)
DirectArc(address, value) ==
    [i \in 0 .. 15 |->
        IF i > 7 THEN Byte[2 * address][i - 8] ELSE Byte[value][i]]

(* The bus level of half bit number step of a frame *)
HalfBit(f, step) ==
    \/ step = 1
    \/ /\ step \in 2 .. 33
       /\ LET bit == f[15 - (step - 2) \div 2]
          IN  bit = (step % 2 = 1)
    \/ step > 33

(* The interface is active low *)
PinFor(level) == ~level

----------------------------------------------------------------------------
(* The lamp *)

FramingError(w) ==
    LET n == Len(w)
    IN  \/ n \in 1 .. 34 /\ n % 2 = 0 /\ w[n] = w[n - 1]
        \/ n > 34 /\ ~w[n]

Decoded(w) == [i \in 0 .. 15 |-> w[2 + 2 * (15 - i) + 2]]

Accept(f) ==
    lamp' = [c \in Channels |->
                IF \A i \in 0 .. 7 : f[8 + i] = Byte[2 * c][i]
                THEN [i \in 0 .. 7 |-> f[i]]
                ELSE lamp[c]]

Hear(level) ==
    LET w == IF wire = <<>> /\ level THEN <<>> ELSE Append(wire, level)
    IN  IF FramingError(w)
        THEN wire' = <<>> /\ UNCHANGED lamp
        ELSE IF Len(w) = kFrameHalfBits
             THEN wire' = <<>> /\ Accept(Decoded(w))
             ELSE wire' = w /\ UNCHANGED lamp

----------------------------------------------------------------------------
(* The timer interrupt *)

(* onTimer with no frame armed holds the bus idle *)
IdleTick ==
    /\ ~transmitting
    /\ pin' = PinFor(TRUE)
    /\ Hear(TRUE)
    /\ UNCHANGED shared

TransmitTick ==
    /\ transmitting
    /\ LET level == HalfBit(pendingFrame, halfBitIndex)
           next == halfBitIndex + 1
       IN  /\ Hear(level)
           /\ IF next >= kFrameHalfBits
              THEN /\ halfBitIndex' = 0
                   /\ transmitting' = FALSE
                   /\ pin' = PinFor(TRUE)
              ELSE /\ halfBitIndex' = next
                   /\ pin' = PinFor(level)
                   /\ UNCHANGED transmitting
    /\ UNCHANGED pendingFrame

OnTimer ==
    /\ IdleTick \/ TransmitTick
    /\ elapsed' = IF elapsed < Period THEN elapsed + 1 ELSE elapsed
    /\ UNCHANGED <<levels, nextAddress, pc, frame, faults>>

(* The interrupt is held off (the flash is being written) until the loop's *)
(* period is over: the lamp gives up what it was receiving.                *)
Masked ==
    /\ faults < MaxFaults
    /\ faults' = faults + 1
    /\ elapsed' = Period
    /\ wire' = <<>>
    /\ UNCHANGED <<levels, nextAddress, pc, frame, shared, pin, lamp>>

----------------------------------------------------------------------------
(* The loop task: lamp.task(), then the commands identityAgent.loop() takes *)

(* For a mutant: nextAddress_ advances although the frame was refused. *)
TaskAdvancing ==
    /\ pc = "loop"
    /\ elapsed >= Period
    /\ elapsed' = 0
    /\ IF transmitting
       THEN /\ nextAddress' = (nextAddress + 1) % ChannelCount
            /\ UNCHANGED <<pc, frame>>
       ELSE /\ pc' = "frame"
            /\ frame' = [address |-> nextAddress,
                         value |-> DaliLevel(levels[nextAddress])]
            /\ UNCHANGED nextAddress
    /\ UNCHANGED <<levels, shared, bus, faults>>

Task ==
    /\ pc = "loop"
    /\ elapsed >= Period
    /\ elapsed' = 0
    /\ IF transmitting \/ nextAddress > 63
       THEN UNCHANGED <<pc, frame>>
       ELSE /\ pc' = "frame"
            /\ frame' = [address |-> nextAddress,
                         value |-> DaliLevel(levels[nextAddress])]
    /\ UNCHANGED <<levels, nextAddress, shared, bus, faults>>

SetFrame ==
    /\ pc = "frame"
    /\ pc' = "index"
    /\ pendingFrame' = DirectArc(frame.address, frame.value)
    /\ UNCHANGED <<levels, nextAddress, frame, elapsed, halfBitIndex, transmitting,
                   bus, faults>>

SetIndex ==
    /\ pc = "index"
    /\ pc' = "arm"
    /\ halfBitIndex' = 0
    /\ UNCHANGED <<levels, nextAddress, frame, elapsed, pendingFrame, transmitting,
                   bus, faults>>

(* The last channel is left out of the turns, for a mutant *)
ArmSkipping ==
    /\ pc = "arm"
    /\ pc' = "loop"
    /\ transmitting' = TRUE
    /\ nextAddress' = (nextAddress + 1) % (ChannelCount - 1)
    /\ UNCHANGED <<levels, frame, elapsed, pendingFrame, halfBitIndex, bus, faults>>

Arm ==
    /\ pc = "arm"
    /\ pc' = "loop"
    /\ transmitting' = TRUE
    /\ nextAddress' = (nextAddress + 1) % ChannelCount
    /\ UNCHANGED <<levels, frame, elapsed, pendingFrame, halfBitIndex, bus, faults>>

SendArc == SetFrame \/ SetIndex \/ Arm

Loop == Task \/ SendArc

(* findChannel: a one-based index; anything else is refused *)
FindChannel(oneBased) == IF oneBased \in 1 .. ChannelCount THEN oneBased - 1 ELSE -1

SetChannel(oneBased, level) ==
    /\ pc = "loop"
    /\ FindChannel(oneBased) \in Channels
    /\ levels' = [levels EXCEPT ![FindChannel(oneBased)] = Clamped(level)]
    /\ UNCHANGED <<nextAddress, pc, frame, elapsed, shared, bus, faults>>

(* set_channels: one level for each channel, in order *)
SetChannels(array) ==
    /\ pc = "loop"
    /\ Len(array) = ChannelCount
    /\ levels' = [c \in Channels |-> Clamped(array[c + 1])]
    /\ UNCHANGED <<nextAddress, pc, frame, elapsed, shared, bus, faults>>

(* set_all_channels, and off with level 0 *)
SetAll(level) ==
    /\ pc = "loop"
    /\ levels' = [c \in Channels |-> Clamped(level)]
    /\ UNCHANGED <<nextAddress, pc, frame, elapsed, shared, bus, faults>>

----------------------------------------------------------------------------
(* begin and a restart: the RAM starts over, the lamp keeps its level *)

Init ==
    /\ levels = [c \in Channels |-> 0]
    /\ nextAddress = 1
    /\ pc = "loop"
    /\ frame = [address |-> 0, value |-> 0]
    /\ elapsed = 0
    /\ pendingFrame = DirectArc(0, 0)
    /\ halfBitIndex = 0
    /\ transmitting = FALSE
    /\ pin = PinFor(TRUE)
    /\ wire = <<>>
    /\ lamp = [c \in Channels |-> Unlit]
    /\ faults = 0

Restart ==
    /\ faults < MaxFaults
    /\ faults' = faults + 1
    /\ levels' = [c \in Channels |-> 0]
    /\ nextAddress' = 1
    /\ pc' = "loop"
    /\ elapsed' = 0
    /\ pendingFrame' = DirectArc(0, 0)
    /\ halfBitIndex' = 0
    /\ transmitting' = FALSE
    /\ pin' = PinFor(TRUE)
    /\ wire' = <<>>
    /\ UNCHANGED <<frame, lamp>>

Next ==
    \/ OnTimer
    \/ Masked
    \/ Loop
    \/ \E oneBased \in 0 .. ChannelCount, level \in Requests :
            SetChannel(oneBased, level)
    \/ \E n \in {1, ChannelCount} : \E array \in [1 .. n -> Requests] :
            SetChannels(array)
    \/ \E level \in Requests \union {0} : SetAll(level)
    \/ Restart

Spec == Init /\ [][Next]_vars

(* The timer is a repeating alarm, and every pass of loop() calls task().  *)
Fairness == WF_vars(OnTimer) /\ WF_vars(Loop)

FairSpec == Spec /\ Fairness

----------------------------------------------------------------------------
(* Properties *)

Bits(n) == [0 .. n - 1 -> BOOLEAN]

TypeOK ==
    /\ levels \in [Channels -> 0 .. 100]
    /\ nextAddress \in Channels
    /\ pc \in {"loop", "frame", "index", "arm"}
    /\ frame \in [address : Channels, value : 0 .. 254]
    /\ elapsed \in 0 .. Period
    /\ pendingFrame \in Bits(16)
    /\ halfBitIndex \in 0 .. kFrameHalfBits - 1
    /\ transmitting \in BOOLEAN
    /\ pin \in BOOLEAN
    /\ wire \in Seq(BOOLEAN) /\ Len(wire) < kFrameHalfBits
    /\ lamp \in [Channels -> Bits(8) \union {Unlit}]
    /\ faults \in 0 .. MaxFaults

(* While the interrupt is putting a frame on the bus nothing touches the   *)
(* frame, and the half bits come in order: a frame once armed is the frame *)
(* that is sent, however the loop and the interrupt interleave.            *)
InFlight ==
    transmitting /\ transmitting'
    => /\ pendingFrame' = pendingFrame
       /\ halfBitIndex' \in {halfBitIndex, halfBitIndex + 1}

FrameStable == [][InFlight]_vars

(* The lamp hears a frame only while one is being sent, in step with the   *)
(* transmitter's index or started after it (when an interrupt came late):  *)
(* what it has heard is always a stretch of the armed frame's waveform.    *)
HeardIsSent ==
    /\ ~transmitting => wire = <<>>
    /\ transmitting =>
        /\ Len(wire) <= halfBitIndex
        /\ \A k \in 1 .. Len(wire) :
                wire[k] = HalfBit(pendingFrame, halfBitIndex - Len(wire) + k - 1)

(* Every level a lamp shows was put there by one whole frame, addressed to *)
(* it, with the level of its channel when the frame was launched, and the  *)
(* channels are served in turn: bits, interrupts, late interrupts and      *)
(* restarts included, the transmitter implements ArcPower.                 *)
Arc == INSTANCE ArcPower WITH
    ArcLevel <- ArcLevel,
    Dark <- Unlit,
    turn <- nextAddress,
    inFlight <- IF transmitting
                THEN {[address |-> frame.address, value |-> Byte[frame.value]]}
                ELSE {}

ImplementsArcPower == Arc!ASpec

============================================================================
