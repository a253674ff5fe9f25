------------------------------ MODULE CromaLamp ------------------------------
(***************************************************************************)
(* The driver of the CromaLED lamp (CromaLED_Device.h) and the hand-over   *)
(* of UART0 to it (CromaLED_Gateway.ino): the port speaks 115200 baud to   *)
(* the station until MQTT is connected for the first time, and 9200 baud   *)
(* to the lamp from then on.  The gateway repeats a frame with the levels  *)
(* of all channels; the lamp sends its temperature, a number on a line,    *)
(* when it likes.                                                          *)
(*                                                                         *)
(* The lamp is external.  It knows nothing of the hand-over, which may     *)
(* fall into a number, and does not wait for a loop that the agent holds   *)
(* up until the receive buffer is full.  A tick is the time of a character.*)
(***************************************************************************)
EXTENDS Integers, Sequences, SequencesExt

CONSTANTS
    Outputs,        \* the channels, 1 .. kChannelCount
    Percents,       \* the integers a command may carry as a level
    Temperatures,   \* what the lamp may send: sequences of digits, after a "-" or not
    FifoSize,       \* characters the UART keeps for the loop
    BufferSize,     \* sizeof temperatureBuffer_
    Silence,        \* ticks in the 25 ms after which a number is over
    Resend,         \* ticks in the 400 ms between two frames
    MaxFaults,      \* bound: frames the lamp did not receive and restarts
    Nothing         \* no temperature; a lamp that shows nothing

VARIABLES
    lampUartActive, \* also started_
    connected,      \* identityAgent.isMqttConnected()
    percent,        \* levels_
    sinceFrame,     \* ticks since lastTransmitMs_, up to Resend
    fifo,           \* the UART's buffer; "lost" stands where characters are missing
    parser,         \* temperatureBuffer_, temperatureC_, and whether characters
                    \* of the number in each were lost
    quiet,          \* ticks since lastRxByteMs_, up to Silence, inside a number
    saying,         \* what the lamp has still to send of its number
    shown,          \* the levels the lamp shows
    mishaps

port == <<fifo, parser, quiet>>
cVars == <<lampUartActive, connected, percent, sinceFrame, port, saying, shown,
           mishaps>>

NewParser == [buffer |-> <<>>, cut |-> FALSE, value |-> Nothing, doubtful |-> FALSE]

CInit ==
    /\ lampUartActive = FALSE /\ connected = FALSE
    /\ percent = [c \in Outputs |-> 0]
    /\ sinceFrame = 0
    /\ fifo = <<>> /\ parser = NewParser /\ quiet = 0
    /\ saying = <<>>
    /\ shown = Nothing
    /\ mishaps = 0

----------------------------------------------------------------------------
(* Frames *)

(* sendFrame: every level is in it; the lamp receives it or not *)
SendFrame(levels) ==
    \/ shown' = levels /\ UNCHANGED mishaps
    \/ /\ mishaps < MaxFaults /\ mishaps' = mishaps + 1
       /\ UNCHANGED shown

(* clampPercent, and again in the driver *)
Clamp(n) == IF n < 0 THEN 0 ELSE IF n > 100 THEN 100 ELSE n

(* setChannel, setAll and setChannels *)
Set(levels) ==
    /\ connected
    /\ percent' = levels
    /\ IF lampUartActive THEN SendFrame(levels) ELSE UNCHANGED <<shown, mishaps>>
    /\ UNCHANGED <<lampUartActive, connected, sinceFrame, port, saying>>

SetOutput(c, level) == Set([percent EXCEPT ![c] = Clamp(level)])

(* set_channels: an array for all, or an object that names some of them *)
SetOutputs(levels) ==
    Set([c \in Outputs |->
            IF c \in DOMAIN levels THEN Clamp(levels[c]) ELSE percent[c]])

(* set_all_channels, and off with level 0 *)
SetAllOutputs(level) == Set([c \in Outputs |-> Clamp(level)])

----------------------------------------------------------------------------
(* Temperatures *)

(* commitTemperatureBuffer: strtol finds a number, or it finds none *)
Commit(p) ==
    IF p.buffer \in {<<>>, <<"-">>}
    THEN [p EXCEPT !.buffer = <<>>]
    ELSE [p EXCEPT !.buffer = <<>>, !.value = p.buffer, !.doubtful = p.cut]

(* One character of readTemperatureNonBlocking *)
Feed(p, char) ==
    CASE char = "lost" -> [p EXCEPT !.cut = TRUE]
      [] char = "end" -> [Commit(p) EXCEPT !.cut = FALSE]
      [] char = "-" /\ p.buffer # <<>> -> p
      [] OTHER -> IF Len(p.buffer) + 1 < BufferSize
                  THEN [p EXCEPT !.buffer = Append(@, char)]
                  ELSE p

Fed(p, chars) ==
    LET fed[n \in 0 .. Len(chars)] ==
            IF n = 0 THEN p ELSE Feed(fed[n - 1], chars[n])
    IN  fed[Len(chars)]

Over(p, since) == p.buffer # <<>> /\ since >= Silence

(* The silence is looked at before what arrived in it, for a mutant *)
ReadTemperatureLast ==
    /\ parser' = Fed(IF Over(parser, quiet) THEN Commit(parser) ELSE parser, fifo)
    /\ quiet' = IF fifo = <<>> THEN quiet ELSE 0
    /\ fifo' = <<>>

(* readTemperatureNonBlocking: all there is, then the silence *)
ReadTemperature ==
    LET since == IF fifo = <<>> THEN quiet ELSE 0
        read == Fed(parser, fifo)
    IN  /\ parser' = IF Over(read, since) THEN Commit(read) ELSE read
        /\ quiet' = IF parser'.buffer = <<>> THEN 0 ELSE since
        /\ fifo' = <<>>

----------------------------------------------------------------------------
(* The loop *)

(* lamp.task() *)
LampTask ==
    /\ lampUartActive
    /\ ReadTemperature
    /\ IF sinceFrame >= Resend
       THEN sinceFrame' = 0 /\ SendFrame(percent)
       ELSE UNCHANGED <<sinceFrame, shown, mishaps>>
    /\ UNCHANGED <<lampUartActive, connected, percent, saying>>

(* activateLampUart and begin, which drop what the port has received *)
Activate ==
    /\ ~lampUartActive /\ connected
    /\ lampUartActive' = TRUE
    /\ fifo' = IF saying # <<>> THEN <<"lost">> ELSE <<>>
    /\ SendFrame(percent)
    /\ UNCHANGED <<connected, percent, sinceFrame, parser, quiet, saying>>

(* loop() *)
LampLoop == LampTask \/ Activate

(* connectMqtt, and a connection that is lost *)
Connection ==
    /\ connected' = ~connected
    /\ UNCHANGED <<lampUartActive, percent, sinceFrame, port, saying, shown,
                   mishaps>>

Reboot ==
    /\ mishaps < MaxFaults /\ mishaps' = mishaps + 1
    /\ lampUartActive' = FALSE /\ connected' = FALSE
    /\ percent' = [c \in Outputs |-> 0]
    /\ sinceFrame' = 0
    /\ fifo' = <<>> /\ parser' = NewParser /\ quiet' = 0
    /\ UNCHANGED <<saying, shown>>

----------------------------------------------------------------------------
(* A tick: the lamp sends the next character of its number, or begins one, *)
(* or is silent; the port keeps the character if it can.                   *)

Arrives(char) ==
    fifo' = CASE ~lampUartActive -> fifo
              [] lampUartActive /\ Len(fifo) < FifoSize -> Append(fifo, char)
              [] OTHER -> IF Last(fifo) = "lost" THEN fifo ELSE Append(fifo, "lost")

Says(chars) ==
    /\ saying' = Tail(chars)
    /\ Arrives(Head(chars))

Tick ==
    /\ \/ saying # <<>> /\ Says(saying)
       \/ saying = <<>> /\ \E number \in Temperatures : Says(Append(number, "end"))
       \/ saying = <<>> /\ UNCHANGED <<saying, fifo>>
    /\ sinceFrame' = IF sinceFrame < Resend THEN sinceFrame + 1 ELSE Resend
    /\ quiet' = IF parser.buffer # <<>> /\ quiet < Silence THEN quiet + 1 ELSE quiet
    /\ UNCHANGED <<lampUartActive, connected, percent, parser, shown, mishaps>>

CNext ==
    \/ \E c \in Outputs, level \in Percents : SetOutput(c, level)
    \/ \E chosen \in SUBSET Outputs : \E levels \in [chosen -> Percents] : SetOutputs(levels)
    \/ \E level \in Percents \union {0} : SetAllOutputs(level)
    \/ LampLoop \/ Connection \/ Reboot
    \/ Tick

(* loop() is called for ever, and time passes. *)
CFairness == WF_cVars(LampLoop) /\ WF_cVars(Tick)

----------------------------------------------------------------------------
(* Properties *)

Characters == UNION {{t[i] : i \in DOMAIN t} : t \in Temperatures}

(* A number fits into the buffer, and a "-" can only begin it. *)
LampNumbers ==
    /\ FifoSize \in Nat \ {0} /\ Silence \in Nat \ {0} /\ BufferSize \in Nat
    /\ Temperatures \subseteq Seq(Characters)
    /\ Characters \intersect {"end", "lost"} = {}
    /\ \A number \in Temperatures :
        Len(number) < BufferSize /\ \A i \in 2 .. Len(number) : number[i] # "-"

CTypeOK ==
    /\ lampUartActive \in BOOLEAN /\ connected \in BOOLEAN
    /\ percent \in [Outputs -> 0 .. 100]
    /\ sinceFrame \in 0 .. Resend /\ quiet \in 0 .. Silence
    /\ fifo \in Seq(Characters \union {"end", "lost"}) /\ Len(fifo) <= FifoSize + 1
    /\ parser.buffer \in Seq(Characters) /\ Len(parser.buffer) < BufferSize
    /\ parser.cut \in BOOLEAN /\ parser.doubtful \in BOOLEAN
    /\ shown \in [Outputs -> 0 .. 100] \union {Nothing}

(* README.md:173 promises "Live lamp temperature when a valid UART         *)
(* measurement is available": a temperature the gateway reports as valid   *)
(* is one the lamp has sent.                                               *)
(* It does not hold: README, Disagreements.                              *)
ReportedWasSent == parser.value \in Temperatures \union {Nothing}

(* It holds as long as no character of that number was lost: neither a     *)
(* loop that comes late nor one that polls in the middle of a number ends  *)
(* it early, joins it with the next or mixes the two.                      *)
TemperatureWasSent == ~parser.doubtful => ReportedWasSent

(* Every channel was set to n, and the lamp shows it. *)
Commanded(n) == lampUartActive /\ percent = [c \in Outputs |-> n]
Follows(n) == shown = [c \in Outputs |-> n]

============================================================================
