--------------------------- MODULE SpectralSensor ---------------------------
(***************************************************************************)
(* The driver of the AS7341 gateway (AS7341_Device.h), the asynchronous    *)
(* reading of the vendored library it polls, and the loop that calls both  *)
(* it and the identity agent (AS7341_Gateway.ino).                         *)
(*                                                                         *)
(* A sample is two measurements, of the low and of the high channels, and  *)
(* the second is started by the poll that finds the first one done.  The   *)
(* agent's part of the loop may take long (a TLS handshake, 20 s), and the *)
(* driver gives up a sample that is not complete after kReadTimeoutMs.     *)
(*                                                                         *)
(* The sensor is external: Integration ticks after it was started its data *)
(* are ready, until it is started again, unless it hangs in between.       *)
(***************************************************************************)
EXTENDS Integers

CONSTANTS
    Integration,    \* ticks of one measurement (ATIME and ASTEP)
    ReadTimeout,    \* kReadTimeoutMs, in ticks
    MaxHangs        \* bound: measurements that never end

VARIABLES
    ready,          \* ready_: the sensor answered begin()
    at,             \* the loop is before spectralSensor.task() or in the agent
    reading,        \* _readingState
    held,           \* the halves of the buffer that are of the sample under way
    sinceRead,      \* ticks since lastReadMs_, up to ReadTimeout
    sample,         \* readings_: no sample, one sample, or halves of two
    age,            \* ticks since lastSampleMs_, up to StaleAge
    integrated,     \* the sensor: ticks since the start of its measurement
    hung,           \* the sensor: the measurement will not end
    free,           \* from now on the agent's part of the loop is short
    hangs

driver == <<ready, reading, held, sinceRead, sample>>
sensor == <<integrated, hung>>
sVars == <<driver, at, age, sensor, free, hangs>>

\* More than the time of two measurements.
StaleAge == 2 * Integration + 1

AtMost(n, bound) == IF n < bound THEN n ELSE bound

----------------------------------------------------------------------------

SInit ==
    /\ ready \in BOOLEAN
    /\ at = "agent"
    /\ reading = "low" /\ held = {} /\ sinceRead = 0
    /\ sample = "none" /\ age = 0
    /\ integrated = 0 /\ hung = FALSE
    /\ free = FALSE /\ hangs = 0

(* setSMUXLowChannels and enableSpectralMeasurement: the sensor begins a   *)
(* measurement, and the data of the last one are gone                      *)
Measure == integrated' = 0 /\ hung' = FALSE

StartReading ==
    /\ reading' = "low"
    /\ held' = {}
    /\ Measure

(* getIsDataReady *)
DataReady == integrated >= Integration /\ ~hung

TimedOut == sinceRead >= ReadTimeout

(* checkReadingProgress found nothing, or the end of the first measurement *)
Wait ==
    /\ ~TimedOut /\ ~DataReady
    /\ UNCHANGED <<reading, held, sample, sinceRead, age, sensor>>

ReadLow ==
    /\ ~TimedOut /\ DataReady /\ reading = "low"
    /\ held' = {"low"}
    /\ reading' = "high"
    /\ Measure
    /\ UNCHANGED <<sample, sinceRead, age>>

(* ... or of the second: getAllChannels, and the next sample *)
Complete ==
    /\ ~TimedOut /\ DataReady /\ reading = "high"
    /\ sample' = IF "low" \in held THEN "whole" ELSE "mixed"
    /\ age' = 0
    /\ sinceRead' = 0
    /\ StartReading

(* The clock is set but the sensor is left as it is, for a mutant *)
ExpireOnly ==
    /\ TimedOut
    /\ sinceRead' = 0
    /\ UNCHANGED <<reading, held, sample, age, sensor>>

(* A sample that comes to its end in the poll that finds it late is        *)
(* discarded with the others.                                              *)
Expire ==
    /\ TimedOut
    /\ sinceRead' = 0
    /\ StartReading
    /\ UNCHANGED <<sample, age>>

Task ==
    /\ at = "task" /\ at' = "agent"
    /\ IF ready
       THEN Wait \/ ReadLow \/ Complete \/ Expire
       ELSE UNCHANGED <<reading, held, sample, sinceRead, age, sensor>>
    /\ UNCHANGED <<ready, free, hangs>>

(* identityAgent.loop() and delay(5): a tick, or as long as it takes *)
Agent(ticks) ==
    /\ at = "agent" /\ at' = "task"
    /\ free => ticks = 1
    /\ sinceRead' = AtMost(sinceRead + ticks, ReadTimeout)
    /\ age' = AtMost(age + ticks, StaleAge)
    /\ integrated' = AtMost(integrated + ticks, Integration)
    /\ UNCHANGED <<ready, reading, held, sample, hung, free, hangs>>

Hang ==
    /\ hangs < MaxHangs /\ hangs' = hangs + 1
    /\ ~hung /\ hung' = TRUE
    /\ UNCHANGED <<driver, at, age, integrated, free>>

(* The network is well again *)
GetFree ==
    /\ ~free /\ free' = TRUE
    /\ UNCHANGED <<driver, at, age, sensor, hangs>>

Goes == Task \/ \E ticks \in 1 .. ReadTimeout : Agent(ticks)

SNext ==
    \/ Goes
    \/ Hang
    \/ GetFree

(* loop() is called for ever. *)
SFairness == WF_sVars(Goes)

----------------------------------------------------------------------------
(* Properties *)

STypeOK ==
    /\ ready \in BOOLEAN /\ hung \in BOOLEAN /\ free \in BOOLEAN
    /\ at \in {"task", "agent"}
    /\ reading \in {"low", "high"} /\ held \subseteq {"low"}
    /\ sample \in {"none", "whole", "mixed"}
    /\ sinceRead \in 0 .. ReadTimeout /\ integrated \in 0 .. Integration
    /\ age \in 0 .. StaleAge /\ hangs \in 0 .. MaxHangs

(* A sample is read within the timeout when the agent is short             *)
(* (kReadTimeoutMs is four measurements).                                  *)
SensorTimes ==
    /\ Integration \in Nat \ {0} /\ ReadTimeout \in Nat /\ 2 * Integration < ReadTimeout
    /\ MaxHangs \in Nat

(* No sample is made of the low channels of one measurement and the high   *)
(* channels of another, whatever was given up and begun again in between.  *)
SamplesAreWhole == sample # "mixed"

(* A sample has just come and nothing will hold up the next one.           *)
JustCame ==
    /\ ready /\ free /\ ~hung /\ hangs = MaxHangs
    /\ sample = "whole" /\ age = 0

(* From there on each sample comes before the last one is stale: neither   *)
(* the second measurement nor the timeout gets out of step again.          *)
OnceFreshStaysFresh == [](JustCame => [](sample = "whole" /\ age < StaleAge))

(* Once the agent no longer holds up the loop, and whatever state it left  *)
(* the driver and the sensor in (a measurement that hung, a sample half    *)
(* read), every sample is one sample's low and high channels and the age   *)
(* that is published with it stays below the time of two measurements.     *)
SamplesKeepComing ==
    ready /\ free ~> [](sample = "whole" /\ age < StaleAge)

(* Samples come however long the agent takes.  This does not hold: a       *)
(* sample needs two polls within the timeout (README, Limits of the code). *)
SamplesAlwaysCome == ready ~> sample = "whole"

============================================================================
