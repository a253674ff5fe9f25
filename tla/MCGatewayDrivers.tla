-------------------------- MODULE MCGatewayDrivers --------------------------
(***************************************************************************)
(* The drivers of the three gateways for TLC.  A board has the firmware of *)
(* one family: family is chosen in the initial state and the other two     *)
(* drivers stand still.                                                    *)
(*                                                                         *)
(* DALI: two channels, a period one half bit longer than a frame, and a    *)
(* level out of range; "off" adds 0.  CromaLED: one channel (a frame       *)
(* carries them all), numbers of two characters, buffers that hold less    *)
(* than two of them.  AS7341: a timeout of four measurements.              *)
(***************************************************************************)
EXTENDS DaliTransmitter

CONSTANTS Outputs, Percents, Temperatures, FifoSize, BufferSize, Silence, Resend,
          Nothing, Integration, ReadTimeout, MaxHangs

VARIABLES
    lampUartActive, connected, percent, sinceFrame, fifo, parser, quiet, saying,
    shown, mishaps,
    ready, at, reading, held, sinceRead, sample, age, integrated, hung, free, hangs,
    family

cromaVars == <<lampUartActive, connected, percent, sinceFrame, fifo, parser, quiet,
               saying, shown, mishaps>>
sensorVars == <<ready, at, reading, held, sinceRead, sample, age, integrated, hung,
                free, hangs>>

Croma == INSTANCE CromaLamp
Sensor == INSTANCE SpectralSensor

ASSUME LampAssumption == Croma!LampNumbers
ASSUME SensorAssumption == Sensor!SensorTimes

MCPeriod == kFrameHalfBits + 1
MCLevels == {300}
MCTemperatures == {<<"2", "5">>, <<"-", "4">>}

allVars == <<vars, cromaVars, sensorVars, family>>

MCInit ==
    /\ Init /\ Croma!CInit /\ Sensor!SInit
    /\ family \in {"AREA LZ7", "CromaLED", "AS7341"}
    /\ ready => family = "AS7341"
Of(f, action, others) == family = f /\ action /\ UNCHANGED <<others, family>>

Dali(action) == Of("AREA LZ7", action, <<cromaVars, sensorVars>>)
Led(action) == Of("CromaLED", action, <<vars, sensorVars>>)
Spectral(action) == Of("AS7341", action, <<vars, cromaVars>>)

MCNext == Dali(Next) \/ Led(Croma!CNext) \/ Spectral(Sensor!SNext)

(* The fairness of each driver, for the one there is *)
MCSpec ==
    /\ MCInit /\ [][MCNext]_allVars
    /\ WF_allVars(Dali(OnTimer) \/ Led(Croma!Tick) \/ Spectral(Sensor!Goes))
    /\ WF_allVars(Dali(Loop) \/ Led(Croma!LampLoop))

TemperatureWasSent == Croma!TemperatureWasSent

Commanded(c, n) ==
    \/ family = "AREA LZ7" /\ levels[c] = n
    \/ family = "CromaLED" /\ Croma!Commanded(n)

Follows(c, n) ==
    \/ family = "AREA LZ7" /\ lamp[c] = ArcLevel[n]
    \/ family = "CromaLED" /\ Croma!Follows(n)

(* A level that is left alone reaches the lamp of its channel, and the     *)
(* lamp keeps it, although frames are late or lost and the level may be    *)
(* set while another frame is sent or before the lamp has its port.        *)
LampsFollow ==
    \A c \in Channels, n \in {Clamped(level) : level \in Requests} :
        <>[]Commanded(c, n) => <>[]Follows(c, n)

SamplesKeepComing == Sensor!SamplesKeepComing

============================================================================
