------------------------------ MODULE ArcPower ------------------------------
(***************************************************************************)
(* What the AREA LZ7 gateway promises to its lamp, with no bits, no timer  *)
(* and no interrupt: the channels are served in turn, one direct-arc frame *)
(* is on the bus at a time, it carries the level its channel has when the  *)
(* frame is launched, and it reaches exactly the ballast it is addressed   *)
(* to, or nobody.  DaliTransmitter implements it.                          *)
(***************************************************************************)
EXTENDS Integers

CONSTANTS
    ChannelCount,   \* the short addresses are 0 .. ChannelCount - 1
    ArcLevel,       \* percentage -> its arc level, as it is on the bus
    Dark            \* what a ballast shows before any frame reached it

VARIABLES
    levels,         \* channel -> commanded percentage
    turn,           \* the channel served next
    inFlight,       \* {} or the one frame on the bus
    lamp            \* ballast -> the last arc level it accepted

Channels == 0 .. ChannelCount - 1

aVars == <<levels, turn, inFlight, lamp>>

----------------------------------------------------------------------------

AInit ==
    /\ levels = [c \in Channels |-> 0]
    /\ turn \in Channels
    /\ inFlight = {}
    /\ lamp = [c \in Channels |-> Dark]

Command ==
    /\ levels' \in [Channels -> 0 .. 100]
    /\ UNCHANGED <<turn, inFlight, lamp>>

Launch ==
    /\ inFlight = {}
    /\ inFlight' = {[address |-> turn, value |-> ArcLevel[levels[turn]]]}
    /\ turn' = (turn + 1) % ChannelCount
    /\ UNCHANGED <<levels, lamp>>

Deliver ==
    /\ \E f \in inFlight : lamp' = [lamp EXCEPT ![f.address] = f.value]
    /\ inFlight' = {}
    /\ UNCHANGED <<levels, turn>>

Lose ==
    /\ inFlight' = {}
    /\ UNCHANGED <<levels, turn, lamp>>

Restart ==
    /\ levels' = [c \in Channels |-> 0]
    /\ turn' \in Channels
    /\ inFlight' = {}
    /\ UNCHANGED lamp

ANext == Command \/ Launch \/ Deliver \/ Lose \/ Restart

ASpec == AInit /\ [][ANext]_aVars

============================================================================
