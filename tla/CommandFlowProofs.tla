-------------------------- MODULE CommandFlowProofs --------------------------
(***************************************************************************)
(* Theorems about CommandFlow, for every set of commands, every kind of    *)
(* device, every limit of unacknowledged messages and every number of lost *)
(* connections.                                                            *)
(***************************************************************************)
EXTENDS CommandFlow, FiniteSetTheorems, TLAPS

-----------------------------------------------------------------------------
(* The inductive invariant.                                                *)

\* How many of the published commands are no longer in the client's queue, and
\* where in the order of publication a command is.
Acked == Len(order) - Len(out)
PlaceIn(s, c) == CHOOSE i \in 1 .. Len(s) : s[i] = c
Place(c) == PlaceIn(order, c)

\* A command is published once, and the queue of the client is the end of what
\* has been published.
Unpublished == {"none", "check", "unavailable", "publish"}
Queued ==
  /\ Len(out) <= Len(order)
  /\ \A i \in 1 .. Len(out) : out[i] = order[Acked + i]
  /\ \A i, j \in 1 .. Len(order) : order[i] = order[j] => i = j
  /\ \A c \in Commands : thread[c] \in Unpublished => ~ Occurs(c, order)

\* What reaches the device was published, and is no further ahead of the queue
\* than the limit allows.
Reached(c) == Occurs(c, order) /\ Place(c) <= Acked + Inflight
Published ==
  /\ \A i \in 1 .. Len(toDevice) : Reached(toDevice[i])
  /\ \A i \in 1 .. Len(recent) : Reached(recent[i])
  /\ \A c \in Commands : runs[c] > 0 => Occurs(c, order)

\* What reaches the device later is no further behind than the limit allows.
Follows(c, d) == Place(d) > Place(c) - Inflight
InOrder ==
  /\ \A i, j \in 1 .. Len(toDevice) : i < j => Follows(toDevice[i], toDevice[j])
  /\ \A i, j \in 1 .. Len(recent) : i < j => Follows(recent[i], recent[j])
  /\ \A i \in 1 .. Len(recent), j \in 1 .. Len(toDevice) : Follows(recent[i], toDevice[j])

\* The simulated device remembers a command it has carried out as long as the
\* command can come again.
Comes(c) == Occurs(c, toDevice) \/ Occurs(c, out)
Remembers ==
  kind = "simulated" =>
    /\ \A i, j \in 1 .. Len(recent) : recent[i] = recent[j] => i = j
    /\ \A i \in 1 .. Len(recent) : runs[recent[i]] = 1
    /\ \A c \in Commands : runs[c] <= 1
    /\ \A c \in Commands : runs[c] = 1 /\ Comes(c) => Occurs(c, recent)

\* The other devices carry out what has arrived and is waiting, and what can
\* still come over this connection, within what the connections allow.
Times(c, s) == Cardinality({i \in 1 .. Len(s) : s[i] = c})
Due(c) == IF Occurs(c, order) /\ \A i \in taken + 1 .. Len(out) : out[i] # c THEN 0 ELSE 1
Budget ==
  kind # "simulated" =>
    \A c \in Commands : runs[c] + Times(c, toDevice) + Due(c) <= 1 + linkLosses

\* The invariant for RunsAreBounded.
IInv == TypeOK /\ Queued /\ Published /\ InOrder /\ Remembers /\ Budget

\* The place of the command for a level that was published last.
IsLevel(c) == asked[c].what = "level"
Value(c) == Clamped(asked[c].level)
LastLevel(i) ==
  /\ i \in 1 .. Len(order) /\ IsLevel(order[i])
  /\ \A j \in 1 .. Len(order) : IsLevel(order[j]) => j <= i

\* Unless a command was dropped: once the last level has been delivered over
\* this connection, it is the last to be carried out or was the last to be.
LastInQueue(i) ==
  \/ \E k \in 1 .. Len(toDevice) :
       /\ toDevice[k] = order[i]
       /\ \A l \in k + 1 .. Len(toDevice) : ~ IsLevel(toDevice[l])
  \/ /\ level = Value(order[i])
     /\ \A l \in 1 .. Len(toDevice) : ~ IsLevel(toDevice[l])
Settling ==
  kind # "simulated" /\ ~ dropped =>
    \A i \in 1 .. Acked + taken : LastLevel(i) => LastInQueue(i)

\* Unless a command was dropped: the simulated device carries the commands out
\* in the order of their publication, and has the level of the latest so far.
Ran(i) == runs[order[i]] = 1
Before(i, k) == \E l \in 1 .. k - 1 : toDevice[l] = order[i]
InTurn ==
  kind = "simulated" /\ ~ dropped =>
    /\ \A i, j \in 1 .. Len(order) : Ran(i) /\ j < i => Ran(j)
    /\ \A i \in 1 .. Acked + taken : Ran(i) \/ Before(i, Len(toDevice) + 1)
    /\ \A k \in 1 .. Len(toDevice), i \in 1 .. Len(order) :
         i < Place(toDevice[k]) => Ran(i) \/ Before(i, k)
    /\ \A i \in 1 .. Len(order) :
         /\ Ran(i) /\ IsLevel(order[i])
         /\ \A j \in 1 .. Len(order) : Ran(j) /\ IsLevel(order[j]) => j <= i
         => level = Value(order[i])

\* The invariant for SettlesOnLatest.
SInv == IInv /\ Settling /\ InTurn

-----------------------------------------------------------------------------
(* Types.                                                                  *)

LEMMA EmptyType ==
  ASSUME NEW S
  PROVE  <<>> \in Seq(S) /\ Len(<<>>) = 0
  OBVIOUS

LEMMA QueuesType ==
  ASSUME NEW S, NEW s \in Seq(S), s # <<>>
  PROVE  Head(s) \in S /\ Tail(s) \in Seq(S) /\ Len(Tail(s)) = Len(s) - 1
  OBVIOUS

LEMMA ClampedType ==
  ASSUME NEW v \in Int
  PROVE  Clamped(v) \in 0 .. 100
  BY DEF Clamped

LEMMA LevelType ==
  ASSUME TypeOK, NEW c \in Commands
  PROVE  LevelAfter(c) \in 0 .. 100
<1>1. asked[c].level \in Int
  BY ConstantsAssumption DEF TypeOK
<1>2. Clamped(asked[c].level) \in 0 .. 100
  BY <1>1, ClampedType
<1>3. QED
  BY <1>2 DEF TypeOK, LevelAfter

LEMMA EitherType ==
  ASSUME NEW P, NEW Q
  PROVE  (P \/ Q) \in BOOLEAN
  OBVIOUS

LEMMA RepliesType ==
  ASSUME TypeOK, NEW c \in Commands, NEW s \in Replies
  PROVE  /\ [cmd |-> c, status |-> s] \in Reply
         /\ Arrived([cmd |-> c, status |-> s]) \in Seq(Reply)
<1>1. [cmd |-> c, status |-> s] \in Reply
  BY DEF Reply
<1>2. QED
  BY <1>1 DEF TypeOK, Arrived

LEMMA TypeThread ==
  ASSUME TypeOK, NEW c \in Commands, Request(c) \/ Thread(c)
  PROVE  TypeOK'
<1>1. CASE Request(c)
  BY <1>1 DEF Request, TypeOK, client, device, history
<1>2. CASE Check(c)
  BY <1>2 DEF Check, TypeOK, table, client, device, history
<1>3. CASE Publish(c)
  <2>1. Append(out, c) \in Seq(Commands) /\ Append(order, c) \in Seq(Commands)
    BY DEF TypeOK
  <2>2. Len(Append(out, c)) = Len(out) + 1 /\ Len(out) \in Nat
    BY DEF TypeOK
  <2>3. taken' \in 0 .. Len(out') /\ taken' <= Inflight
    BY <1>3, <2>2, ConstantsAssumption DEF Publish, TypeOK
  <2>4. thread' \in [Commands -> {"none", "check", "unavailable", "publish", "error", "wait",
                                 "sent", "done"}]
    BY <1>3 DEF Publish, TypeOK
  <2>5. QED
    BY <1>3, <2>1, <2>3, <2>4 DEF Publish, TypeOK, table, device
<1>4. CASE Await(c)
  BY <1>4 DEF Await, TypeOK, table, client, device, history
<1>5. CASE FinishStatus(c)
  BY <1>5 DEF FinishStatus, TypeOK, client, device, history, Failures
<1>6. QED
  BY <1>1, <1>2, <1>3, <1>4, <1>5 DEF Thread

LEMMA TypeLink ==
  ASSUME TypeOK, \/ Connect \/ OnConnect \/ LoseLink \/ OnDisconnect
                 \/ StopService \/ Deliver \/ Acknowledge
  PROVE  TypeOK'
<1>1. CASE Connect
  BY <1>1 DEF Connect, TypeOK, table, device, history
<1>2. CASE OnConnect
  BY <1>2 DEF OnConnect, TypeOK, table, device, history
<1>3. CASE LoseLink
  <2>1. linkLosses' \in 0 .. LinkLosses /\ taken' \in 0 .. Len(out') /\ taken' <= Inflight
    BY <1>3, ConstantsAssumption DEF LoseLink, TypeOK
  <2>2. QED
    BY <1>3, <2>1, EmptyType DEF LoseLink, TypeOK, table, device
<1>4. CASE OnDisconnect
  BY <1>4 DEF OnDisconnect, TypeOK, table, device, history
<1>5. CASE StopService
  <2>1. linkLosses' \in 0 .. LinkLosses /\ taken' \in 0 .. Len(out') /\ taken' <= Inflight
    BY <1>5, ConstantsAssumption DEF StopService, TypeOK
  <2>2. dropped' \in BOOLEAN
    BY <1>5, EitherType DEF StopService
  <2>3. QED
    BY <1>5, <2>1, <2>2, EmptyType DEF StopService, TypeOK, table, device
<1>6. CASE Deliver
  <2>1. out[taken + 1] \in Commands
    BY <1>6 DEF Deliver, TypeOK
  <2>2. toDevice' \in Seq(Commands)
    BY <1>6, <2>1 DEF Deliver, TypeOK
  <2>3. taken' \in 0 .. Len(out) /\ taken' <= Inflight
    BY <1>6, ConstantsAssumption DEF Deliver, TypeOK
  <2>4. QED
    BY <1>6, <2>2, <2>3 DEF Deliver, TypeOK, table
<1>7. CASE Acknowledge
  <2>1. out # <<>> /\ Len(out) \in Nat
    BY <1>7 DEF Acknowledge, TypeOK
  <2>2. Tail(out) \in Seq(Commands) /\ Len(Tail(out)) = Len(out) - 1
    BY <2>1, QueuesType DEF TypeOK
  <2>3. taken' \in 0 .. Len(out') /\ taken' <= Inflight
    BY <1>7, <2>1, <2>2, ConstantsAssumption DEF Acknowledge, TypeOK
  <2>4. QED
    BY <1>7, <2>2, <2>3 DEF Acknowledge, TypeOK, table, device, history
<1>8. QED
  BY <1>1, <1>2, <1>3, <1>4, <1>5, <1>6, <1>7

LEMMA TypeSession ==
  ASSUME TypeOK, LoseSession \/ Reconnect \/ SendReply \/ ResponseLoad \/ ResponseCommit
  PROVE  TypeOK'
<1>1. CASE LoseSession
  <2>1. sessionLosses' \in 0 .. SessionLosses
    BY <1>1, ConstantsAssumption DEF LoseSession, TypeOK
  <2>2. dropped' \in BOOLEAN
    BY <1>1, EitherType DEF LoseSession
  <2>3. QED
    BY <1>1, <2>1, <2>2, EmptyType DEF LoseSession, TypeOK, table, client
<1>2. CASE Reconnect
  BY <1>2 DEF Reconnect, TypeOK, table, client, history
<1>3. CASE SendReply
  <2>1. Head(outbox) \in Reply /\ Tail(outbox) \in Seq(Reply)
    BY <1>3, QueuesType DEF SendReply, TypeOK
  <2>2. Arrived(Head(outbox)) \in Seq(Reply)
    BY <2>1 DEF Arrived, TypeOK
  <2>3. QED
    BY <1>3, <2>1, <2>2 DEF SendReply, TypeOK, table, client, history
<1>4. CASE ResponseLoad
  <2>1. Head(replies) \in Reply /\ Tail(replies) \in Seq(Reply)
    BY <1>4, QueuesType DEF ResponseLoad, TypeOK
  <2>2. QED
    BY <1>4, <2>1 DEF ResponseLoad, TypeOK, table, client, device, history
<1>5. CASE ResponseCommit
  <2>1. m.cmd \in Commands /\ m.status \in Replies
    BY <1>5 DEF ResponseCommit, TypeOK, Reply
  <2>2. QED
    BY <1>5, <2>1 DEF ResponseCommit, TypeOK, client, device, history
<1>6. QED
  BY <1>1, <1>2, <1>3, <1>4, <1>5

LEMMA RunsType ==
  ASSUME TypeOK, NEW c \in Commands
  PROVE  [runs EXCEPT ![c] = @ + 1] \in [Commands -> Nat]
  BY DEF TypeOK

LEMMA WindowType ==
  ASSUME TypeOK, NEW c \in Commands
  PROVE  Remembered(c) \in Seq(Commands) /\ Len(Remembered(c)) <= Window
<1>1. CASE Len(recent) = Window
  <2>1. recent # <<>>
    BY <1>1, ConstantsAssumption
  <2>2. Tail(recent) \in Seq(Commands) /\ Len(Tail(recent)) = Window - 1
    BY <1>1, <2>1, QueuesType DEF TypeOK
  <2>3. QED
    BY <1>1, <2>2, ConstantsAssumption DEF Remembered
<1>2. CASE Len(recent) # Window
  BY <1>2, ConstantsAssumption DEF Remembered, TypeOK
<1>3. QED
  BY <1>1, <1>2

LEMMA TypeCallback ==
  ASSUME TypeOK, Callback
  PROVE  TypeOK'
<1> DEFINE c == Head(toDevice)
<1>1. toDevice # <<>> => c \in Commands /\ Tail(toDevice) \in Seq(Commands)
  BY QueuesType DEF TypeOK
<1>2. CASE SimulatedRuns
  <2>1. c \in Commands /\ Tail(toDevice) \in Seq(Commands)
    BY <1>1, <1>2 DEF SimulatedRuns
  <2> DEFINE r == [cmd |-> c, status |-> IF ~ Occurs(c, recent) THEN "completed" ELSE "duplicate"]
  <2>2. r \in Reply
    BY <2>1 DEF Reply, Replies
  <2>3. outbox' = Append(outbox, r)
    BY <1>2 DEF SimulatedRuns
  <2>4. outbox' \in Seq(Reply)
    <3> HIDE DEF r
    <3> QED
      BY <2>2, <2>3 DEF TypeOK
  <2>5. recent' \in Seq(Commands) /\ Len(recent') <= Window
    BY <1>2, <2>1, WindowType DEF SimulatedRuns, TypeOK
  <2>6. runs' \in [Commands -> Nat]
    BY <1>2, <2>1, RunsType DEF SimulatedRuns, TypeOK
  <2>7. level' \in 0 .. 100
    BY <1>2, <2>1, LevelType DEF SimulatedRuns, TypeOK
  <2>8. QED
    BY <1>2, <2>1, <2>4, <2>5, <2>6, <2>7 DEF SimulatedRuns, TypeOK, table, client, history
<1>3. CASE DemoRuns
  <2>1. c \in Commands /\ Tail(toDevice) \in Seq(Commands)
    BY <1>1, <1>3 DEF DemoRuns
  <2>2. [cmd |-> c, status |-> "completed"] \in Reply
    BY <2>1, RepliesType DEF Replies
  <2>3. outbox' \in Seq(Reply)
    BY <1>3, <2>2 DEF DemoRuns, TypeOK
  <2>4. runs' \in [Commands -> Nat]
    BY <1>3, <2>1, RunsType DEF DemoRuns
  <2>5. level' \in 0 .. 100
    BY <1>3, <2>1, LevelType DEF DemoRuns
  <2>6. QED
    BY <1>3, <2>1, <2>3, <2>4, <2>5 DEF DemoRuns, TypeOK, table, client, history
<1>4. CASE DemoReturns
  BY <1>4 DEF DemoReturns, TypeOK, table, client, history
<1>5. CASE BoardRuns
  <2>1. c \in Commands /\ Tail(toDevice) \in Seq(Commands)
    BY <1>1, <1>5 DEF BoardRuns
  <2>2. replies' \in Seq(Reply)
    BY <1>5, <2>1, RepliesType DEF BoardRuns, Replies
  <2>3. runs' \in [Commands -> Nat]
    BY <1>5, <2>1, RunsType DEF BoardRuns
  <2>4. level' \in 0 .. 100
    BY <1>5, <2>1, LevelType DEF BoardRuns
  <2>5. QED
    BY <1>5, <2>1, <2>2, <2>3, <2>4 DEF BoardRuns, TypeOK, table, client, history
<1>6. CASE BoardRestarts
  <2> DEFINE rest == Tail(toDevice)
             d == Head(Tail(toDevice))
             r == [cmd |-> c, status |-> "completed"]
             q == [cmd |-> d, status |-> "completed"]
  <2>1. c \in Commands /\ rest \in Seq(Commands)
    BY <1>1, <1>6 DEF BoardRestarts
  <2>2. rest # <<>> => d \in Commands
    BY <2>1, QueuesType
  <2>3. r \in Reply /\ (rest # <<>> => q \in Reply)
    BY <2>1, <2>2, RepliesType DEF Replies
  <2>4. Arrived(r) \in Seq(Reply) /\ (rest # <<>> => replies \o <<r, q>> \in Seq(Reply))
    <3> HIDE DEF r, q
    <3> QED
      BY <2>3 DEF TypeOK, Arrived
  <2>5. replies' \in Seq(Reply)
    BY <1>6, <2>4 DEF BoardRestarts, TypeOK
  <2>6. runs' \in [Commands -> Nat]
    <3> DEFINE once == [runs EXCEPT ![c] = @ + 1]
    <3>1. once \in [Commands -> Nat]
      BY <2>1, RunsType
    <3>2. rest # <<>> => [once EXCEPT ![d] = @ + 1] \in [Commands -> Nat]
      <4> HIDE DEF once
      <4> QED
        BY <2>2, <3>1
    <3>3. QED
      BY <1>6, <3>1, <3>2 DEF BoardRestarts
  <2>7. toDevice' \in Seq(Commands) /\ level' \in 0 .. 100
    BY <1>6, EmptyType DEF BoardRestarts
  <2>8. session' \in BOOLEAN /\ dropped' \in BOOLEAN
    BY <1>6 DEF BoardRestarts
  <2>9. UNCHANGED <<table, thread, client, kind, recent, blocked, outbox, m,
                    linkLosses, sessionLosses, order>>
    BY <1>6 DEF BoardRestarts
  <2>10. QED
    BY <2>5, <2>6, <2>7, <2>8, <2>9 DEF TypeOK, table, client
<1>7. QED
  BY <1>2, <1>3, <1>4, <1>5, <1>6 DEF Callback

LEMMA TypeNext == TypeOK /\ [Next]_vars => TypeOK'
<1> SUFFICES ASSUME TypeOK, [Next]_vars PROVE TypeOK'
  OBVIOUS
<1>1. CASE UNCHANGED vars
  BY <1>1 DEF vars, table, client, device, history, TypeOK
<1>2. CASE \E c \in Commands : Request(c) \/ Thread(c)
  BY <1>2, TypeThread
<1>3. CASE \/ Connect \/ OnConnect \/ LoseLink \/ OnDisconnect
           \/ StopService \/ Deliver \/ Acknowledge
  BY <1>3, TypeLink
<1>4. CASE LoseSession \/ Reconnect \/ SendReply \/ ResponseLoad \/ ResponseCommit
  BY <1>4, TypeSession
<1>5. CASE Callback
  BY <1>5, TypeCallback
<1>6. QED
  BY <1>1, <1>2, <1>3, <1>4, <1>5 DEF Next

-----------------------------------------------------------------------------
(* The order of publication, and what is left of it in the queue.          *)

LEMMA PlaceIs ==
  ASSUME NEW s, NEW c, Occurs(c, s)
  PROVE  PlaceIn(s, c) \in 1 .. Len(s) /\ s[PlaceIn(s, c)] = c
<1>1. \E i \in 1 .. Len(s) : s[i] = c
  BY DEF Occurs
<1>2. QED
  BY <1>1 DEF PlaceIn

LEMMA PlaceOf ==
  ASSUME NEW s, NEW i \in 1 .. Len(s), \A j, k \in 1 .. Len(s) : s[j] = s[k] => j = k
  PROVE  Occurs(s[i], s) /\ PlaceIn(s, s[i]) = i
<1>1. Occurs(s[i], s)
  BY DEF Occurs
<1>2. QED
  BY <1>1, PlaceIs

\* A queue without its head, and with one command more.
LEMMA Shorter ==
  ASSUME NEW s \in Seq(Commands), s # <<>>
  PROVE  /\ Len(s) \in Nat \ {0} /\ s[1] = Head(s) /\ s[1] \in Commands
         /\ Tail(s) \in Seq(Commands) /\ Len(Tail(s)) = Len(s) - 1
         /\ \A i \in 1 .. Len(s) - 1 : Tail(s)[i] = s[i + 1]
  OBVIOUS

LEMMA Longer ==
  ASSUME NEW s \in Seq(Commands), NEW c \in Commands
  PROVE  /\ Append(s, c) \in Seq(Commands) /\ Len(s) \in Nat /\ Len(Append(s, c)) = Len(s) + 1
         /\ \A i \in 1 .. Len(s) : Append(s, c)[i] = s[i]
         /\ Append(s, c)[Len(s) + 1] = c
  OBVIOUS

LEMMA Delivered ==
  ASSUME TypeOK, Queued
  PROVE  /\ Acked \in Nat /\ taken \in Nat /\ Len(order) \in Nat /\ Len(out) \in Nat
         /\ Acked + Len(out) = Len(order) /\ Acked + taken \in 0 .. Len(order)
         /\ Len(toDevice) \in Nat
<1>1. taken \in 0 .. Len(out) /\ Len(order) \in Nat /\ Len(out) \in Nat /\ Len(toDevice) \in Nat
  BY DEF TypeOK
<1>2. QED
  BY <1>1 DEF Acked, Queued

\* The message delivered next, and what the device has waiting then.
LEMMA DeliverStep ==
  ASSUME TypeOK, Queued, Deliver
  PROVE  /\ taken + 1 \in 1 .. Len(out) /\ taken < Inflight /\ Inflight \in Nat
         /\ out[taken + 1] \in Commands /\ out[taken + 1] = order[Acked + taken + 1]
         /\ Acked + taken + 1 \in 1 .. Len(order)
         /\ session => /\ toDevice' = Append(toDevice, out[taken + 1])
                       /\ Len(toDevice') = Len(toDevice) + 1
                       /\ \A i \in 1 .. Len(toDevice) : toDevice'[i] = toDevice[i]
                       /\ toDevice'[Len(toDevice) + 1] = out[taken + 1]
         /\ ~ session => toDevice' = toDevice
<1>1. taken \in Nat /\ taken < Len(out) /\ taken < Inflight /\ Inflight \in Nat
  BY Delivered, ConstantsAssumption DEF Deliver
<1>2. Len(out) \in Nat /\ Acked \in Nat /\ Acked + Len(out) = Len(order) /\ Len(order) \in Nat
  BY Delivered
<1>3. taken + 1 \in 1 .. Len(out) /\ Acked + taken + 1 \in 1 .. Len(order)
      /\ Acked + (taken + 1) = Acked + taken + 1
  BY <1>1, <1>2
<1>4. out[taken + 1] \in Commands
  BY <1>3 DEF TypeOK
<1>5. out[taken + 1] = order[Acked + taken + 1]
  BY <1>3 DEF Queued
<1>6. ASSUME session
      PROVE  /\ toDevice' = Append(toDevice, out[taken + 1])
             /\ Len(toDevice') = Len(toDevice) + 1
             /\ \A i \in 1 .. Len(toDevice) : toDevice'[i] = toDevice[i]
             /\ toDevice'[Len(toDevice) + 1] = out[taken + 1]
  <2>1. toDevice' = Append(toDevice, out[taken + 1])
    BY <1>6 DEF Deliver
  <2>2. toDevice \in Seq(Commands)
    BY DEF TypeOK
  <2>3. QED
    BY <1>4, <2>1, <2>2, Longer
<1>7. ~ session => toDevice' = toDevice
  BY DEF Deliver
<1>8. QED
  BY <1>1, <1>3, <1>4, <1>5, <1>6, <1>7

\* Steps that neither publish nor acknowledge.
LEMMA QueuedStays ==
  ASSUME Queued, UNCHANGED <<out, order>>,
         \A c \in Commands : thread'[c] \in Unpublished => thread[c] \in Unpublished
  PROVE  Queued'
  BY DEF Queued, Acked

LEMMA QueuedPublish ==
  ASSUME TypeOK, Queued, NEW c \in Commands, Publish(c)
  PROVE  Queued' /\ ~ Occurs(c, order)
<1>1. ~ Occurs(c, order)
  BY DEF Publish, Queued, Unpublished
<1>2. /\ out' = Append(out, c) /\ order' = Append(order, c)
      /\ out \in Seq(Commands) /\ order \in Seq(Commands)
  BY DEF Publish, TypeOK
<1>3. /\ Len(out) \in Nat /\ Len(out') = Len(out) + 1 /\ out'[Len(out) + 1] = c
      /\ \A i \in 1 .. Len(out) : out'[i] = out[i]
  BY <1>2, Longer
<1>4. /\ Len(order) \in Nat /\ Len(order') = Len(order) + 1 /\ order'[Len(order) + 1] = c
      /\ \A i \in 1 .. Len(order) : order'[i] = order[i]
  BY <1>2, Longer
<1>5. Acked' = Acked /\ Acked \in Nat /\ Acked + Len(out) = Len(order)
  BY <1>3, <1>4 DEF Acked, Queued
<1>6. \A i \in 1 .. Len(out') : out'[i] = order'[Acked' + i]
  <2> SUFFICES ASSUME NEW i \in 1 .. Len(out') PROVE out'[i] = order'[Acked + i]
    BY <1>5
  <2>1. CASE i = Len(out) + 1
    <3>1. Acked + i = Len(order) + 1
      BY <1>3, <1>5, <2>1
    <3>2. QED
      BY <1>3, <1>4, <2>1, <3>1
  <2>2. CASE i # Len(out) + 1
    <3>1. i \in 1 .. Len(out) /\ Acked + i \in 1 .. Len(order)
      BY <1>3, <1>4, <1>5, <2>2
    <3>2. out[i] = order[Acked + i]
      BY <3>1 DEF Queued
    <3>3. QED
      BY <1>3, <1>4, <3>1, <3>2
  <2>3. QED
    BY <2>1, <2>2
<1>7. \A i, j \in 1 .. Len(order') : order'[i] = order'[j] => i = j
  BY <1>1, <1>4 DEF Queued, Occurs
<1>8. \A d \in Commands : thread'[d] \in Unpublished => ~ Occurs(d, order')
  <2> SUFFICES ASSUME NEW d \in Commands, thread'[d] \in Unpublished
               PROVE  ~ Occurs(d, order')
    OBVIOUS
  <2>1. d # c /\ thread[d] \in Unpublished
    BY DEF Publish, TypeOK, Unpublished
  <2>2. QED
    BY <1>4, <2>1 DEF Queued, Occurs
<1>9. QED
  BY <1>1, <1>3, <1>4, <1>6, <1>7, <1>8 DEF Queued

LEMMA QueuedStop ==
  ASSUME TypeOK, Queued, StopService
  PROVE  Queued' /\ Acked' = Len(order) /\ Acked <= Acked'
<1>1. out' = <<>> /\ order' = order /\ Len(out') = 0 /\ Len(order) \in Nat /\ Len(out) \in Nat
  BY DEF StopService, TypeOK
<1>2. \A c \in Commands : thread'[c] \in Unpublished => thread[c] \in Unpublished
  BY DEF StopService, Unpublished
<1>3. QED
  BY <1>1, <1>2 DEF Queued, Acked

LEMMA QueuedAcknowledge ==
  ASSUME TypeOK, Queued, Acknowledge
  PROVE  Queued' /\ Acked' = Acked + 1
<1>1. out # <<>> /\ out' = Tail(out) /\ UNCHANGED <<order, thread>>
  BY DEF Acknowledge, TypeOK, history
<1>2. /\ Len(out) \in Nat \ {0} /\ Len(out') = Len(out) - 1 /\ Len(order) \in Nat
      /\ \A i \in 1 .. Len(out) - 1 : out'[i] = out[i + 1]
  BY <1>1, Shorter DEF TypeOK
<1>3. Acked' = Acked + 1 /\ Acked \in Nat
  BY <1>1, <1>2 DEF Acked, Queued
<1>4. \A i \in 1 .. Len(out') : out'[i] = order'[Acked' + i]
  BY <1>1, <1>2, <1>3 DEF Queued
<1>5. QED
  BY <1>1, <1>2, <1>3, <1>4 DEF Queued

LEMMA QueuedNext ==
  ASSUME TypeOK, Queued, [Next]_vars
  PROVE  Queued'
<1>1. CASE \E c \in Commands : Publish(c)
  BY <1>1, QueuedPublish
<1>2. CASE StopService
  BY <1>2, QueuedStop
<1>3. CASE Acknowledge
  BY <1>3, QueuedAcknowledge
<1>4. CASE \E c \in Commands : Request(c) \/ Check(c) \/ Await(c) \/ FinishStatus(c)
  <2>1. UNCHANGED <<out, order>>
    BY <1>4 DEF Request, Check, Await, FinishStatus, client, history
  <2>2. \A c \in Commands : thread'[c] \in Unpublished => thread[c] \in Unpublished
    BY <1>4 DEF Request, Check, Await, FinishStatus, Unpublished, TypeOK
  <2>3. QED
    BY <2>1, <2>2, QueuedStays
<1>5. CASE \/ Connect \/ OnConnect \/ LoseLink \/ OnDisconnect \/ Deliver
           \/ LoseSession \/ Reconnect \/ SendReply \/ Callback
           \/ ResponseLoad \/ ResponseCommit \/ UNCHANGED vars
  <2>1. UNCHANGED <<out, order, thread>>
    BY <1>5 DEF Connect, OnConnect, LoseLink, OnDisconnect, Deliver, LoseSession, Reconnect,
       SendReply, Callback, SimulatedRuns, DemoRuns, DemoReturns, BoardRuns, BoardRestarts,
       ResponseLoad, ResponseCommit, vars, client, history
  <2>2. QED
    BY <2>1, QueuedStays
<1>6. QED
  BY <1>1, <1>2, <1>3, <1>4, <1>5 DEF Next, Thread

-----------------------------------------------------------------------------
(* What has reached the device.                                            *)

\* What the invariants are about, but for the threads.
flow == <<asked, kind, order, out, taken, toDevice, recent, level, runs, linkLosses, dropped>>

LEMMA Cases ==
  ASSUME [Next]_vars
  PROVE  \/ \E c \in Commands : Publish(c)
         \/ LoseLink \/ StopService \/ Deliver \/ Acknowledge \/ LoseSession
         \/ SimulatedRuns \/ DemoRuns \/ BoardRuns \/ BoardRestarts
         \/ UNCHANGED flow
<1>1. CASE \E c \in Commands : Request(c) \/ Check(c) \/ Await(c) \/ FinishStatus(c)
  BY <1>1 DEF Request, Check, Await, FinishStatus, flow, table, client, device, history
<1>2. CASE \/ Connect \/ OnConnect \/ OnDisconnect \/ Reconnect \/ SendReply \/ DemoReturns
           \/ ResponseLoad \/ ResponseCommit \/ UNCHANGED vars
  BY <1>2 DEF Connect, OnConnect, OnDisconnect, Reconnect, SendReply, DemoReturns, ResponseLoad,
     ResponseCommit, vars, flow, table, client, device, history
<1>3. QED
  BY <1>1, <1>2 DEF Next, Thread, Callback

\* Every command published keeps its place.
Extended == /\ Len(order) <= Len(order')
            /\ \A i \in 1 .. Len(order) : order'[i] = order[i]

LEMMA PlaceStays ==
  ASSUME order \in Seq(Commands), order' \in Seq(Commands), Queued', Extended,
         NEW c, Occurs(c, order)
  PROVE  Occurs(c, order') /\ PlaceIn(order', c) = PlaceIn(order, c)
<1> DEFINE i == PlaceIn(order, c)
<1>1. i \in 1 .. Len(order) /\ order[i] = c
  BY PlaceIs
<1> HIDE DEF i
<1>2. i \in 1 .. Len(order') /\ order'[i] = c
  <2>1. Len(order) \in Nat /\ Len(order') \in Nat
    OBVIOUS
  <2>2. QED
    BY <1>1, <2>1 DEF Extended
<1>3. \A j, k \in 1 .. Len(order') : order'[j] = order'[k] => j = k
  BY DEF Queued
<1>4. QED
  BY <1>1, <1>2, <1>3, PlaceOf DEF i

LEMMA ReachedGrows ==
  ASSUME TypeOK, TypeOK', Queued', Published, InOrder, Extended, Acked <= Acked',
         UNCHANGED <<toDevice, recent, runs>>
  PROVE  Published' /\ InOrder'
<1>1. /\ Acked \in Int /\ Acked' \in Int /\ Inflight \in Int
      /\ order \in Seq(Commands) /\ order' \in Seq(Commands)
  BY ConstantsAssumption DEF Acked, TypeOK
<1>2. \A c : Reached(c) => /\ Occurs(c, order') /\ PlaceIn(order', c) = PlaceIn(order, c)
                          /\ PlaceIn(order', c) <= Acked' + Inflight
  <2> SUFFICES ASSUME NEW c, Reached(c)
               PROVE  /\ Occurs(c, order') /\ PlaceIn(order', c) = PlaceIn(order, c)
                      /\ PlaceIn(order', c) <= Acked' + Inflight
    OBVIOUS
  <2>1. Occurs(c, order) /\ PlaceIn(order, c) <= Acked + Inflight
    BY DEF Reached, Place
  <2>2. PlaceIn(order, c) \in Int
    BY <2>1, PlaceIs DEF TypeOK
  <2>3. QED
    BY <1>1, <2>1, <2>2, PlaceStays
<1>3. Published'
  <2>1. \A c \in Commands : runs'[c] > 0 => Occurs(c, order')
    BY <1>1, PlaceStays DEF Published
  <2>2. QED
    BY <1>2, <2>1 DEF Published, Reached, Place
<1>4. InOrder'
  BY <1>2 DEF InOrder, Follows, Place, Published
<1>5. QED
  BY <1>3, <1>4

\* The device runs what has reached it.
RunsWhatCame == \A c \in Commands : runs'[c] > 0 => runs[c] > 0 \/ Occurs(c, toDevice)

LEMMA ReachedLost ==
  ASSUME TypeOK, Published, InOrder, RunsWhatCame, UNCHANGED <<order, out, recent>>,
         toDevice' = <<>>
  PROVE  Published' /\ InOrder'
<1>1. \A c \in Commands : runs'[c] > 0 => Occurs(c, order)
  BY DEF RunsWhatCame, Published, Reached, Occurs
<1>2. Len(toDevice') = 0
  OBVIOUS
<1>3. QED
  BY <1>1, <1>2 DEF Published, InOrder, Reached, Follows, Place, Acked

LEMMA ReachedTaken ==
  ASSUME TypeOK, Published, InOrder, RunsWhatCame, UNCHANGED <<order, out>>,
         toDevice # <<>>, toDevice' = Tail(toDevice),
         recent' = recent \/ recent' = Remembered(Head(toDevice))
  PROVE  Published' /\ InOrder'
<1>1. \A c \in Commands : runs'[c] > 0 => Occurs(c, order)
  BY DEF RunsWhatCame, Published, Reached, Occurs
<1>2. /\ Len(toDevice) \in Nat \ {0} /\ Len(toDevice') = Len(toDevice) - 1
      /\ Head(toDevice) = toDevice[1]
      /\ \A i \in 1 .. Len(toDevice') : toDevice'[i] = toDevice[i + 1]
  BY Shorter DEF TypeOK
<1>3. CASE recent' = recent
  BY <1>1, <1>2, <1>3 DEF Published, InOrder, Reached, Follows, Place, Acked
<1>4. CASE recent' = Remembered(Head(toDevice))
  <2> DEFINE c == toDevice[1]
             kept == IF Len(recent) = Window THEN Tail(recent) ELSE recent
             k == IF Len(recent) = Window THEN 1 ELSE 0
  <2>1. /\ kept \in Seq(Commands) /\ Len(recent) \in Nat /\ Len(kept) = Len(recent) - k
        /\ \A i \in 1 .. Len(kept) : kept[i] = recent[i + k]
    <3>1. CASE Len(recent) = Window
      <4>1. recent \in Seq(Commands) /\ recent # <<>>
        BY <3>1, ConstantsAssumption DEF TypeOK
      <4>2. QED
        BY <3>1, <4>1, Shorter
    <3>2. CASE Len(recent) # Window
      BY <3>2 DEF TypeOK
    <3>3. QED
      BY <3>1, <3>2
  <2>2. c \in Commands
    BY Shorter DEF TypeOK
  <2>3. recent' = Append(kept, c)
    BY <1>2, <1>4 DEF Remembered
  <2>4. k \in {0, 1}
    OBVIOUS
  <2> HIDE DEF kept, k
  <2>5. /\ Len(recent') = Len(recent) - k + 1
        /\ \A i \in 1 .. Len(recent) - k : recent'[i] = recent[i + k]
        /\ recent'[Len(recent) - k + 1] = c
    BY <2>1, <2>2, <2>3, Longer
  <2>6. \A i \in 1 .. Len(recent') :
          \/ i = Len(recent') /\ recent'[i] = c
          \/ i < Len(recent') /\ i + k \in 1 .. Len(recent) /\ recent'[i] = recent[i + k]
    BY <2>1, <2>4, <2>5
  <2>7. Published'
    <3>1. \A i \in 1 .. Len(recent') : Reached(recent'[i])
      BY <1>2, <2>6 DEF Published
    <3>2. \A i \in 1 .. Len(toDevice') : Reached(toDevice'[i])
      BY <1>2 DEF Published
    <3>3. QED
      BY <1>1, <3>1, <3>2 DEF Published, Reached, Place, Acked
  <2>8. \A i, j \in 1 .. Len(toDevice') : i < j => Follows(toDevice'[i], toDevice'[j])
    BY <1>2 DEF InOrder
  <2>9. \A i, j \in 1 .. Len(recent') : i < j => Follows(recent'[i], recent'[j])
    <3> SUFFICES ASSUME NEW i \in 1 .. Len(recent'), NEW j \in 1 .. Len(recent'), i < j
                 PROVE  Follows(recent'[i], recent'[j])
      OBVIOUS
    <3>1. i + k \in 1 .. Len(recent) /\ recent'[i] = recent[i + k]
      BY <2>1, <2>4, <2>5, <2>6
    <3>2. CASE recent'[j] = c
      BY <1>2, <3>1, <3>2 DEF InOrder
    <3>3. CASE recent'[j] # c
      <4>1. j + k \in 1 .. Len(recent) /\ recent'[j] = recent[j + k] /\ i + k < j + k
        BY <2>4, <2>6, <3>3
      <4>2. QED
        BY <3>1, <4>1 DEF InOrder
    <3>4. QED
      BY <3>2, <3>3
  <2>10. \A i \in 1 .. Len(recent'), j \in 1 .. Len(toDevice') :
           Follows(recent'[i], toDevice'[j])
    <3> SUFFICES ASSUME NEW i \in 1 .. Len(recent'), NEW j \in 1 .. Len(toDevice')
                 PROVE  Follows(recent'[i], toDevice'[j])
      OBVIOUS
    <3>1. j + 1 \in 1 .. Len(toDevice) /\ 1 < j + 1 /\ toDevice'[j] = toDevice[j + 1]
      BY <1>2
    <3>2. QED
      BY <1>2, <2>6, <3>1 DEF InOrder
  <2>11. QED
    BY <2>7, <2>8, <2>9, <2>10 DEF InOrder, Follows, Place
<1>5. QED
  BY <1>3, <1>4

LEMMA ReachedDelivered ==
  ASSUME TypeOK, Queued, Published, InOrder, Deliver
  PROVE  Published' /\ InOrder'
<1> DEFINE c == out[taken + 1]
<1>1. UNCHANGED <<order, out, recent, runs>>
  BY DEF Deliver
<1>2. /\ taken < Inflight /\ taken + 1 \in 1 .. Len(out) /\ taken \in Nat /\ Inflight \in Nat
      /\ Acked \in Nat /\ Acked + taken + 1 \in 1 .. Len(order) /\ c \in Commands
  BY Delivered, DeliverStep
<1>3. c = order[Acked + taken + 1]
  BY DeliverStep
<1>4. Occurs(c, order) /\ Place(c) = Acked + taken + 1
  BY <1>2, <1>3, PlaceOf DEF Queued, Place
<1>5. Reached(c)
  BY <1>1, <1>2, <1>4 DEF Reached
<1> HIDE DEF c
<1>6. \A d : Reached(d) => Follows(d, c)
  <2> SUFFICES ASSUME NEW d, Reached(d)
               PROVE  Place(d) \in Int /\ Place(d) <= Acked + Inflight
    BY <1>1, <1>2, <1>4 DEF Follows
  <2>1. QED
    BY PlaceIs DEF Reached, Place, TypeOK
<1>7. CASE ~ session
  <2>1. toDevice' = toDevice
    BY <1>7 DEF Deliver
  <2>2. QED
    BY <1>1, <2>1 DEF Published, InOrder, Reached, Follows, Place, Acked
<1>8. CASE session
  <2>1. /\ Len(toDevice) \in Nat /\ Len(toDevice') = Len(toDevice) + 1
        /\ \A i \in 1 .. Len(toDevice) : toDevice'[i] = toDevice[i]
        /\ toDevice'[Len(toDevice) + 1] = c
    BY <1>8, Delivered, DeliverStep DEF c
  <2>2. \A i \in 1 .. Len(toDevice') : Reached(toDevice'[i])
    BY <1>5, <2>1 DEF Published
  <2>3. \A i, j \in 1 .. Len(toDevice') : i < j => Follows(toDevice'[i], toDevice'[j])
    BY <1>6, <2>1 DEF InOrder, Published
  <2>4. \A i \in 1 .. Len(recent), j \in 1 .. Len(toDevice') : Follows(recent[i], toDevice'[j])
    BY <1>6, <2>1 DEF InOrder, Published
  <2>5. QED
    BY <1>1, <2>2, <2>3, <2>4 DEF Published, InOrder, Reached, Follows, Place, Acked
<1>9. QED
  BY <1>7, <1>8

LEMMA ReachedNext ==
  ASSUME TypeOK, TypeOK', Queued, Queued', Published, InOrder, [Next]_vars
  PROVE  Published' /\ InOrder'
<1>0. Acked \in Int /\ (UNCHANGED order => Extended)
  BY DEF Extended, Acked, TypeOK
<1>1. CASE \E c \in Commands : Publish(c)
  <2>1. PICK c \in Commands : Publish(c)
    BY <1>1
  <2>2. order' = Append(order, c) /\ out' = Append(out, c) /\ UNCHANGED <<toDevice, recent, runs>>
    BY <2>1 DEF Publish, device
  <2>3. Extended /\ Acked' = Acked
    BY <2>2, Longer DEF Extended, Acked, TypeOK
  <2>4. QED
    BY <1>0, <2>2, <2>3, ReachedGrows
<1>2. CASE LoseLink \/ UNCHANGED flow
  BY <1>2 DEF LoseLink, device, flow, Published, InOrder, Reached, Follows, Place, Acked
<1>3. CASE StopService
  BY <1>0, <1>3, QueuedStop, ReachedGrows DEF StopService, device
<1>4. CASE Acknowledge
  BY <1>0, <1>4, QueuedAcknowledge, ReachedGrows DEF Acknowledge, device, history
<1>5. CASE Deliver
  BY <1>5, ReachedDelivered
<1>6. CASE LoseSession
  BY <1>6, ReachedLost DEF LoseSession, client, RunsWhatCame
<1>7. CASE BoardRestarts
  <2> DEFINE rest == Tail(toDevice)
  <2>1. /\ toDevice # <<>> /\ toDevice' = <<>> /\ UNCHANGED <<order, out, recent>>
        /\ \/ runs' = [runs EXCEPT ![Head(toDevice)] = @ + 1]
           \/ /\ rest # <<>>
              /\ runs' = [[runs EXCEPT ![Head(toDevice)] = @ + 1]
                                   EXCEPT ![Head(rest)] = @ + 1]
    BY <1>7 DEF BoardRestarts, client
  <2>2. Len(toDevice) \in Nat \ {0} /\ toDevice[1] = Head(toDevice)
    BY <2>1, Shorter DEF TypeOK
  <2>3. Occurs(Head(toDevice), toDevice)
    BY <2>2 DEF Occurs
  <2>4. rest # <<>> => Occurs(Head(rest), toDevice)
    <3> SUFFICES ASSUME rest # <<>> PROVE Occurs(Head(rest), toDevice)
      OBVIOUS
    <3>1. /\ rest \in Seq(Commands) /\ Len(rest) = Len(toDevice) - 1
          /\ \A i \in 1 .. Len(toDevice) - 1 : rest[i] = toDevice[i + 1]
      BY <2>1, Shorter DEF TypeOK
    <3>2. Len(rest) \in Nat \ {0} /\ rest[1] = Head(rest)
      BY <3>1, Shorter
    <3>3. QED
      BY <2>2, <3>1, <3>2 DEF Occurs
  <2>5. RunsWhatCame
    BY <2>1, <2>3, <2>4 DEF RunsWhatCame, TypeOK
  <2>6. QED
    BY <2>1, <2>5, ReachedLost
<1>8. CASE SimulatedRuns \/ DemoRuns \/ BoardRuns
  <2>1. /\ toDevice # <<>> /\ toDevice' = Tail(toDevice) /\ UNCHANGED <<order, out>>
        /\ recent' = recent \/ recent' = Remembered(Head(toDevice))
        /\ runs' = runs \/ runs' = [runs EXCEPT ![Head(toDevice)] = @ + 1]
    BY <1>8 DEF SimulatedRuns, DemoRuns, BoardRuns, client, history
  <2>2. Len(toDevice) \in Nat \ {0} /\ toDevice[1] = Head(toDevice)
    BY <2>1, Shorter DEF TypeOK
  <2>3. Occurs(Head(toDevice), toDevice)
    BY <2>2 DEF Occurs
  <2>4. RunsWhatCame
    BY <2>1, <2>3 DEF RunsWhatCame, TypeOK
  <2>5. QED
    BY <2>1, <2>4, ReachedTaken
<1>9. QED
  BY <1>1, <1>2, <1>3, <1>4, <1>5, <1>6, <1>7, <1>8, Cases

-----------------------------------------------------------------------------
(* The simulated device's window of ids.                                   *)

\* Different numbers none of which is p, nor n or more below it: if they are
\* more than fit around p, one is n or more above it.
LEMMA Crowded ==
  ASSUME NEW n \in Nat \ {0}, NEW w \in Nat, w >= 2 * n - 1, NEW p \in Int,
         NEW f \in [1 .. w -> Int],
         \A i \in 1 .. w : f[i] > p - n /\ f[i] # p,
         \A i, j \in 1 .. w : f[i] = f[j] => i = j
  PROVE  \E i \in 1 .. w : f[i] >= p + n
<1> SUFFICES ASSUME \A i \in 1 .. w : f[i] < p + n PROVE FALSE
  OBVIOUS
<1> DEFINE T == (p - n + 1 .. p + n - 1) \ {p}
<1>1. IsFiniteSet(T) /\ Cardinality(T) = 2 * n - 2
  <2> DEFINE low == p - n + 1
             high == p + n - 1
             I == low .. high
  <2>1. low \in Int /\ high \in Int /\ low <= high /\ p \in I /\ high - low + 1 = 2 * n - 1
    OBVIOUS
  <2>2. IsFiniteSet(I) /\ Cardinality(I) = 2 * n - 1
    <3> HIDE DEF low, high
    <3>1. ~ low > high
      BY <2>1
    <3>2. QED
      BY <2>1, <3>1, FS_Interval
  <2> HIDE DEF I
  <2>3. IsFiniteSet(I \ {p}) /\ Cardinality(I \ {p}) = Cardinality(I) - 1
    BY <2>1, <2>2, FS_RemoveElement
  <2>4. QED
    BY <2>2, <2>3 DEF I
<1>2. IsFiniteSet(1 .. w) /\ Cardinality(1 .. w) = w
  BY FS_Interval
<1>3. f \in [1 .. w -> T]
  OBVIOUS
<1>4. Cardinality(T) < Cardinality(1 .. w)
  BY <1>1, <1>2
<1> HIDE DEF T
<1>5. \E i, j \in 1 .. w : i # j /\ f[i] = f[j]
  BY <1>1, <1>2, <1>3, <1>4, FS_PigeonHole
<1>6. QED
  BY <1>5

\* A command that a new one drives out of the window does not come again.
LEMMA Forgotten ==
  ASSUME TypeOK, Queued, Published, InOrder, Remembers, kind = "simulated",
         toDevice # <<>>, ~ Occurs(Head(toDevice), recent), Len(recent) = Window
  PROVE  ~ Occurs(recent[1], Tail(toDevice)) /\ ~ Occurs(recent[1], out)
<1> DEFINE d == recent[1]
           p == Place(d)
           S(i) == IF i < Window THEN recent[i + 1] ELSE toDevice[1]
           f == [i \in 1 .. Window |-> Place(S(i))]
<1>1. /\ Window \in Nat \ {0} /\ Inflight \in Nat \ {0} /\ Window >= 2 * Inflight - 1
      /\ Len(recent) = Window /\ Len(order) \in Nat /\ Len(out) \in Nat /\ Acked \in Nat
      /\ Acked + Len(out) = Len(order)
  BY ConstantsAssumption DEF TypeOK, Queued, Acked
<1>2. /\ Len(toDevice) \in Nat \ {0} /\ Head(toDevice) = toDevice[1]
      /\ Len(Tail(toDevice)) = Len(toDevice) - 1
      /\ \A k \in 1 .. Len(toDevice) - 1 : Tail(toDevice)[k] = toDevice[k + 1]
  BY Shorter DEF TypeOK
<1>3. \A c : Reached(c) => /\ Place(c) \in 1 .. Len(order) /\ order[Place(c)] = c
                          /\ Place(c) <= Acked + Inflight
  BY PlaceIs DEF Reached, Place
<1>4. Reached(d) /\ p \in 1 .. Len(order) /\ order[p] = d
  BY <1>1, <1>3 DEF Published
<1>5. \A i \in 1 .. Window : Reached(S(i)) /\ S(i) # d /\ Follows(d, S(i))
  <2> SUFFICES ASSUME NEW i \in 1 .. Window
               PROVE  Reached(S(i)) /\ S(i) # d /\ Follows(d, S(i))
    OBVIOUS
  <2>1. CASE i < Window
    <3>1. S(i) = recent[i + 1] /\ i + 1 \in 1 .. Len(recent) /\ 1 \in 1 .. Len(recent) /\ 1 < i + 1
      BY <1>1, <2>1
    <3>2. QED
      BY <3>1 DEF Published, InOrder, Remembers
  <2>2. CASE ~ i < Window
    <3>1. S(i) = toDevice[1] /\ 1 \in 1 .. Len(toDevice) /\ 1 \in 1 .. Len(recent)
      BY <1>1, <1>2, <2>2
    <3>2. S(i) # d
      BY <1>2, <3>1 DEF Occurs
    <3>3. QED
      BY <3>1, <3>2 DEF Published, InOrder
  <2>3. QED
    BY <2>1, <2>2
<1>6. \A i, j \in 1 .. Window : S(i) = S(j) => i = j
  <2> SUFFICES ASSUME NEW i \in 1 .. Window, NEW j \in 1 .. Window, S(i) = S(j)
               PROVE  i = j
    OBVIOUS
  <2>1. \A k \in 1 .. Window : recent[k] # toDevice[1]
    BY <1>1, <1>2 DEF Occurs
  <2>2. (i < Window => i + 1 \in 1 .. Window) /\ (j < Window => j + 1 \in 1 .. Window)
    BY <1>1
  <2>3. (i < Window) <=> (j < Window)
    BY <2>1, <2>2
  <2>4. CASE i < Window
    <3>1. recent[i + 1] = recent[j + 1]
      BY <2>3, <2>4
    <3>2. i + 1 = j + 1
      BY <1>1, <2>2, <2>3, <2>4, <3>1 DEF Remembers
    <3>3. QED
      BY <3>2
  <2>5. CASE ~ i < Window
    BY <1>1, <2>3, <2>5
  <2>6. QED
    BY <2>4, <2>5
<1> HIDE DEF S, d, p
<1>7. f \in [1 .. Window -> Int]
  BY <1>1, <1>3, <1>5
<1>8. \A i \in 1 .. Window : f[i] > p - Inflight /\ f[i] # p
  BY <1>1, <1>3, <1>4, <1>5 DEF Follows, p
<1>9. \A i, j \in 1 .. Window : f[i] = f[j] => i = j
  BY <1>3, <1>5, <1>6
<1>10. p \in Int
  BY <1>4
<1> HIDE DEF f
<1>11. PICK i \in 1 .. Window : f[i] >= p + Inflight
  BY <1>1, <1>7, <1>8, <1>9, <1>10, Crowded
<1>12. Place(S(i)) >= p + Inflight /\ Reached(S(i))
  BY <1>5, <1>11 DEF f
<1>13. p <= Acked
  BY <1>1, <1>3, <1>4, <1>12
<1>14. ~ Occurs(d, out)
  <2> SUFFICES ASSUME NEW k \in 1 .. Len(out), out[k] = d PROVE FALSE
    BY DEF Occurs
  <2>1. order[Acked + k] = d /\ Acked + k \in 1 .. Len(order)
    BY <1>1 DEF Queued
  <2>2. Acked + k = p
    BY <1>4, <2>1 DEF Queued
  <2>3. QED
    BY <1>1, <1>13, <2>2
<1>15. ~ Occurs(d, Tail(toDevice))
  <2> SUFFICES ASSUME NEW k \in 1 .. Len(toDevice) - 1, toDevice[k + 1] = d PROVE FALSE
    BY <1>2 DEF Occurs
  <2>1. Follows(S(i), toDevice[k + 1])
    <3>1. k + 1 \in 1 .. Len(toDevice) /\ 1 \in 1 .. Len(toDevice) /\ 1 < k + 1
      BY <1>2
    <3>2. CASE i < Window
      <4>1. S(i) = recent[i + 1] /\ i + 1 \in 1 .. Len(recent)
        BY <1>1, <3>2 DEF S
      <4>2. QED
        BY <3>1, <4>1 DEF InOrder
    <3>3. CASE ~ i < Window
      BY <3>1, <3>3 DEF InOrder, S
    <3>4. QED
      BY <3>2, <3>3
  <2>2. p > Place(S(i)) - Inflight
    BY <2>1 DEF Follows, p
  <2>3. QED
    BY <1>1, <1>3, <1>4, <1>12, <2>2
<1>16. QED
  BY <1>14, <1>15 DEF d

LEMMA RemembersLess ==
  ASSUME Remembers, UNCHANGED <<kind, recent, runs>>,
         \A c \in Commands : runs[c] = 1 /\ Comes(c)' => Comes(c)
  PROVE  Remembers'
  BY DEF Remembers, Occurs

LEMMA RemembersRun ==
  ASSUME TypeOK, Queued, Published, InOrder, Remembers, SimulatedRuns
  PROVE  Remembers'
<1> DEFINE c == Head(toDevice)
<1>1. /\ kind = "simulated" /\ kind' = kind /\ toDevice # <<>> /\ toDevice' = Tail(toDevice)
      /\ out' = out
      /\ Occurs(c, recent) => recent' = recent /\ runs' = runs
      /\ ~ Occurs(c, recent) => /\ recent' = Remembered(c)
                               /\ runs' = [runs EXCEPT ![c] = @ + 1]
  BY DEF SimulatedRuns, client
<1>2. /\ c \in Commands /\ c = toDevice[1] /\ Len(toDevice) \in Nat \ {0}
      /\ Len(toDevice') = Len(toDevice) - 1
      /\ \A k \in 1 .. Len(toDevice') : toDevice'[k] = toDevice[k + 1]
  BY <1>1, Shorter DEF TypeOK
<1>3. Occurs(c, toDevice)
  BY <1>2 DEF Occurs
<1>4. \A d : Occurs(d, toDevice') => Occurs(d, toDevice)
  BY <1>2 DEF Occurs
<1>5. CASE Occurs(c, recent)
  BY <1>1, <1>4, <1>5, RemembersLess DEF Comes
<1>6. CASE ~ Occurs(c, recent)
  <2> HIDE DEF c
  <2>1. runs[c] = 0 /\ runs \in [Commands -> Nat]
    <3>1. runs \in [Commands -> Nat]
      BY DEF TypeOK
    <3>2. runs[c] # 1 /\ runs[c] <= 1
      BY <1>1, <1>2, <1>3, <1>6 DEF Remembers, Comes
    <3>3. QED
      BY <1>2, <3>1, <3>2
  <2>2. runs'[c] = 1 /\ \A d \in Commands \ {c} : runs'[d] = runs[d]
    BY <1>1, <1>2, <1>6, <2>1
  <2> DEFINE k == IF Len(recent) = Window THEN 1 ELSE 0
             kept == IF Len(recent) = Window THEN Tail(recent) ELSE recent
  <2>3. /\ kept \in Seq(Commands) /\ Len(recent) \in Nat /\ Len(kept) = Len(recent) - k
        /\ \A i \in 1 .. Len(kept) : kept[i] = recent[i + k]
    <3>1. CASE Len(recent) = Window
      <4>1. recent \in Seq(Commands) /\ recent # <<>>
        BY <3>1, ConstantsAssumption DEF TypeOK
      <4>2. QED
        BY <3>1, <4>1, Shorter
    <3>2. CASE Len(recent) # Window
      BY <3>2 DEF TypeOK
    <3>3. QED
      BY <3>1, <3>2
  <2>4. recent' = Append(kept, c)
    BY <1>1, <1>6 DEF Remembered
  <2>5. k \in {0, 1} /\ (k = 1 => Len(recent) = Window)
    OBVIOUS
  <2> HIDE DEF k, kept
  <2>6. /\ Len(recent') = Len(recent) - k + 1
        /\ \A i \in 1 .. Len(recent) - k : recent'[i] = recent[i + k]
        /\ recent'[Len(recent) - k + 1] = c
    BY <1>2, <2>3, <2>4, Longer
  <2>7. \A i \in 1 .. Len(recent') :
          \/ i = Len(recent') /\ recent'[i] = c
          \/ i < Len(recent') /\ i + k \in 1 .. Len(recent) /\ recent'[i] = recent[i + k]
    <3> SUFFICES ASSUME NEW i \in 1 .. Len(recent'), i # Len(recent')
                 PROVE  i < Len(recent') /\ i + k \in 1 .. Len(recent) /\ recent'[i] = recent[i + k]
      BY <2>6
    <3>1. i \in 1 .. Len(recent) - k
      BY <2>3, <2>5, <2>6
    <3>2. QED
      BY <2>3, <2>5, <2>6, <3>1
  <2>8. \A i \in 1 .. Len(recent) : recent[i] # c /\ recent[i] \in Commands
    BY <1>6 DEF Occurs, TypeOK
  <2>9. \A i, j \in 1 .. Len(recent') : recent'[i] = recent'[j] => i = j
    <3> SUFFICES ASSUME NEW i \in 1 .. Len(recent'), NEW j \in 1 .. Len(recent'),
                        recent'[i] = recent'[j]
                 PROVE  i = j
      OBVIOUS
    <3>1. CASE i = Len(recent') \/ j = Len(recent')
      BY <2>7, <2>8, <3>1
    <3>2. CASE i # Len(recent') /\ j # Len(recent')
      <4>1. /\ i + k \in 1 .. Len(recent) /\ j + k \in 1 .. Len(recent)
            /\ recent[i + k] = recent[j + k]
        BY <2>7, <3>2
      <4>2. i + k = j + k
        BY <1>1, <4>1 DEF Remembers
      <4>3. QED
        BY <2>5, <4>2
    <3>3. QED
      BY <3>1, <3>2
  <2>10. \A i \in 1 .. Len(recent') : runs'[recent'[i]] = 1
    BY <1>1, <2>2, <2>7, <2>8 DEF Remembers
  <2>11. \A d \in Commands : runs'[d] <= 1
    BY <1>1, <2>2 DEF Remembers
  <2>12. ASSUME NEW d \in Commands, runs'[d] = 1, Occurs(d, toDevice') \/ Occurs(d, out)
         PROVE  Occurs(d, recent')
    <3>1. Len(recent') \in 1 .. Len(recent')
      BY <2>3, <2>5, <2>6, ConstantsAssumption
    <3>2. CASE d = c
      BY <2>6, <3>1, <3>2 DEF Occurs
    <3>3. CASE d # c
      <4>1. PICK i \in 1 .. Len(recent) : recent[i] = d
        BY <1>1, <1>4, <2>2, <2>12, <3>3 DEF Remembers, Comes, Occurs
      <4>2. ~ (k = 1 /\ i = 1)
        BY <1>1, <1>6, <2>5, <2>12, <4>1, Forgotten DEF c
      <4>3. i - k \in 1 .. Len(recent) - k /\ i - k \in 1 .. Len(recent') /\ (i - k) + k = i
        BY <2>3, <2>5, <2>6, <4>2
      <4>4. recent'[i - k] = d
        BY <2>6, <4>1, <4>3
      <4>5. QED
        BY <4>3, <4>4 DEF Occurs
    <3>4. QED
      BY <3>2, <3>3
  <2>13. QED
    BY <1>1, <2>9, <2>10, <2>11, <2>12 DEF Remembers, Comes
<1>7. QED
  BY <1>5, <1>6

LEMMA RemembersNext ==
  ASSUME TypeOK, Queued, Published, InOrder, Remembers, [Next]_vars
  PROVE  Remembers'
<1>1. CASE \E c \in Commands : Publish(c)
  <2>1. PICK c \in Commands : Publish(c)
    BY <1>1
  <2>2. out' = Append(out, c) /\ UNCHANGED <<kind, toDevice, recent, runs>>
    BY <2>1 DEF Publish, device
  <2>3. \A d \in Commands : Occurs(d, out') => d = c \/ Occurs(d, out)
    <3>1. /\ Len(out) \in Nat /\ Len(out') = Len(out) + 1 /\ out'[Len(out) + 1] = c
          /\ \A i \in 1 .. Len(out) : out'[i] = out[i]
      BY <2>2, Longer DEF TypeOK
    <3>2. QED
      BY <3>1 DEF Occurs
  <2>4. ~ runs[c] > 0
    BY <2>1, QueuedPublish DEF Published
  <2>5. QED
    BY <2>2, <2>3, <2>4, RemembersLess DEF Comes
<1>2. CASE LoseLink \/ UNCHANGED flow
  BY <1>2, RemembersLess DEF LoseLink, device, flow, Comes
<1>3. CASE StopService
  BY <1>3, RemembersLess DEF StopService, device, Comes, Occurs
<1>4. CASE Acknowledge
  <2>1. out # <<>> /\ out' = Tail(out) /\ UNCHANGED <<kind, toDevice, recent, runs>>
    BY <1>4 DEF Acknowledge, device, TypeOK
  <2>2. \A d : Occurs(d, out') => Occurs(d, out)
    <3>1. /\ Len(out) \in Nat \ {0} /\ Len(out') = Len(out) - 1
          /\ \A i \in 1 .. Len(out) - 1 : out'[i] = out[i + 1]
      BY <2>1, Shorter DEF TypeOK
    <3>2. QED
      BY <3>1 DEF Occurs
  <2>3. QED
    BY <2>1, <2>2, RemembersLess DEF Comes
<1>5. CASE Deliver
  <2>1. UNCHANGED <<out, kind, recent, runs>> /\ taken + 1 \in 1 .. Len(out)
    BY <1>5 DEF Deliver, TypeOK
  <2>2. \A d : Occurs(d, toDevice') => Occurs(d, toDevice) \/ d = out[taken + 1]
    <3>1. CASE session
      <4>1. toDevice' = Append(toDevice, out[taken + 1]) /\ out[taken + 1] \in Commands
        BY <1>5, <2>1, <3>1 DEF Deliver, TypeOK
      <4>2. /\ Len(toDevice) \in Nat /\ Len(toDevice') = Len(toDevice) + 1
            /\ \A i \in 1 .. Len(toDevice) : toDevice'[i] = toDevice[i]
            /\ toDevice'[Len(toDevice) + 1] = out[taken + 1]
        BY <4>1, Longer DEF TypeOK
      <4>3. QED
        BY <4>2 DEF Occurs
    <3>2. CASE ~ session
      BY <1>5, <3>2 DEF Deliver
    <3>3. QED
      BY <3>1, <3>2
  <2>3. Occurs(out[taken + 1], out)
    BY <2>1 DEF Occurs
  <2>4. QED
    BY <2>1, <2>2, <2>3, RemembersLess DEF Comes
<1>6. CASE LoseSession
  BY <1>6, RemembersLess DEF LoseSession, client, Comes, Occurs
<1>7. CASE DemoRuns \/ BoardRuns \/ BoardRestarts
  BY <1>7 DEF DemoRuns, BoardRuns, BoardRestarts, Remembers
<1>8. CASE SimulatedRuns
  BY <1>8, RemembersRun
<1>9. QED
  BY <1>1, <1>2, <1>3, <1>4, <1>5, <1>6, <1>7, <1>8, Cases

-----------------------------------------------------------------------------
(* What the other devices carry out.                                       *)

LEMMA TimesType ==
  ASSUME NEW s \in Seq(Commands), NEW c
  PROVE  IsFiniteSet({i \in 1 .. Len(s) : s[i] = c}) /\ Times(c, s) \in Nat
<1>1. IsFiniteSet(1 .. Len(s))
  BY FS_Interval
<1>2. {i \in 1 .. Len(s) : s[i] = c} \in SUBSET (1 .. Len(s))
  OBVIOUS
<1>3. IsFiniteSet({i \in 1 .. Len(s) : s[i] = c})
  BY <1>1, <1>2, FS_Subset
<1>4. QED
  BY <1>3, FS_CardinalityType DEF Times

LEMMA TimesEmpty ==
  ASSUME NEW c
  PROVE  Times(c, <<>>) = 0
<1>1. {i \in 1 .. Len(<<>>) : <<>>[i] = c} = {}
  OBVIOUS
<1>2. QED
  BY <1>1, FS_EmptySet DEF Times

LEMMA TimesAppend ==
  ASSUME NEW s \in Seq(Commands), NEW d \in Commands, NEW c
  PROVE  Times(c, Append(s, d)) = Times(c, s) + (IF d = c THEN 1 ELSE 0)
<1> DEFINE I == {i \in 1 .. Len(s) : s[i] = c}
           n == Len(s) + 1
           J == {i \in 1 .. Len(Append(s, d)) : Append(s, d)[i] = c}
<1>1. IsFiniteSet(I) /\ Cardinality(I) \in Nat
  BY TimesType DEF Times
<1>2. n \notin I /\ J = IF d = c THEN I \cup {n} ELSE I
  BY Longer
<1> HIDE DEF I, J, n
<1>3. Cardinality(I \cup {n}) = Cardinality(I) + 1
  BY <1>1, <1>2, FS_AddElement
<1>4. Cardinality(J) = Cardinality(I) + (IF d = c THEN 1 ELSE 0)
  BY <1>1, <1>2, <1>3
<1>5. QED
  BY <1>4 DEF I, J, Times

LEMMA TimesTail ==
  ASSUME NEW s \in Seq(Commands), s # <<>>, NEW c
  PROVE  Times(c, s) = Times(c, Tail(s)) + (IF Head(s) = c THEN 1 ELSE 0)
<1> DEFINE I == {i \in 1 .. Len(Tail(s)) : Tail(s)[i] = c}
           J == {i \in 2 .. Len(s) : s[i] = c}
           K == {i \in 1 .. Len(s) : s[i] = c}
           f == [i \in I |-> i + 1]
<1>1. /\ Len(s) \in Nat \ {0} /\ Len(Tail(s)) = Len(s) - 1 /\ s[1] = Head(s)
      /\ \A i \in 1 .. Len(s) - 1 : Tail(s)[i] = s[i + 1]
      /\ Tail(s) \in Seq(Commands)
  BY Shorter
<1>2. f \in Bijection(I, J)
  <2>1. f \in [I -> J] /\ \A i, j \in I : f[i] = f[j] => i = j
    BY <1>1
  <2>2. ASSUME NEW j \in J PROVE \E i \in I : f[i] = j
    <3>1. j - 1 \in I /\ f[j - 1] = j
      BY <1>1, <2>2
    <3>2. QED
      BY <3>1
  <2> HIDE DEF f, I, J
  <2>3. f \in Injection(I, J)
    BY <2>1 DEF Injection, IsInjective
  <2>4. f \in Surjection(I, J)
    BY <2>1, <2>2 DEF Surjection
  <2>5. QED
    BY <2>3, <2>4 DEF Bijection
<1>3. IsFiniteSet(I) /\ Cardinality(I) \in Nat
  BY <1>1, TimesType DEF Times
<1>4. 1 \notin J /\ K = IF Head(s) = c THEN J \cup {1} ELSE J
  BY <1>1
<1> HIDE DEF I, J, K, f
<1>5. IsFiniteSet(J) /\ Cardinality(J) = Cardinality(I)
  BY <1>2, <1>3, FS_Bijection DEF ExistsBijection
<1>6. Cardinality(J \cup {1}) = Cardinality(J) + 1
  BY <1>4, <1>5, FS_AddElement
<1>7. Cardinality(K) = Cardinality(I) + (IF Head(s) = c THEN 1 ELSE 0)
  BY <1>3, <1>4, <1>5, <1>6
<1>8. QED
  BY <1>7 DEF I, K, Times

LEMMA DueType ==
  ASSUME NEW c
  PROVE  Due(c) \in {0, 1} /\ Due(c)' \in {0, 1}
  BY DEF Due

LEMMA CountsType ==
  ASSUME TypeOK
  PROVE  /\ linkLosses \in Nat
         /\ \A c \in Commands : runs[c] \in Nat /\ Times(c, toDevice) \in Nat
<1>1. toDevice \in Seq(Commands) /\ runs \in [Commands -> Nat] /\ linkLosses \in Nat
  BY ConstantsAssumption DEF TypeOK
<1>2. QED
  BY <1>1, TimesType

LEMMA BudgetSpent ==
  ASSUME TypeOK, TypeOK', Budget, UNCHANGED <<kind, linkLosses>>,
         \A c \in Commands :
           runs'[c] + Times(c, toDevice') + Due(c)' <= runs[c] + Times(c, toDevice) + Due(c)
  PROVE  Budget'
<1>0. toDevice' \in Seq(Commands) /\ runs' \in [Commands -> Nat]
  BY DEF TypeOK
<1>1. \A c \in Commands : /\ runs[c] \in Nat /\ runs'[c] \in Nat /\ linkLosses \in Nat
                         /\ Times(c, toDevice) \in Nat /\ Times(c, toDevice') \in Nat
                         /\ Due(c) \in {0, 1} /\ Due(c)' \in {0, 1}
  BY <1>0, CountsType, TimesType, DueType
<1>2. CASE kind = "simulated"
  BY <1>2 DEF Budget
<1>3. CASE kind # "simulated"
  <2> SUFFICES ASSUME NEW c \in Commands
               PROVE  runs'[c] + Times(c, toDevice') + Due(c)' <= 1 + linkLosses'
    BY DEF Budget
  <2>1. runs[c] + Times(c, toDevice) + Due(c) <= 1 + linkLosses
    BY <1>3 DEF Budget
  <2>2. QED
    BY <1>1, <2>1
<1>4. QED
  BY <1>2, <1>3

\* A new connection, or a new service, can bring each command once more.
LEMMA BudgetRaised ==
  ASSUME TypeOK, Budget, UNCHANGED <<kind, runs, toDevice>>, linkLosses' = linkLosses + 1
  PROVE  Budget'
<1>1. \A c \in Commands : /\ runs[c] \in Nat /\ linkLosses \in Nat
                         /\ Times(c, toDevice) \in Nat
                         /\ Due(c) \in {0, 1} /\ Due(c)' \in {0, 1}
  BY CountsType, DueType
<1>2. CASE kind = "simulated"
  BY <1>2 DEF Budget
<1>3. CASE kind # "simulated"
  <2> SUFFICES ASSUME NEW c \in Commands
               PROVE  runs[c] + Times(c, toDevice) + Due(c)' <= 2 + linkLosses
    BY <1>1 DEF Budget
  <2>1. runs[c] + Times(c, toDevice) + Due(c) <= 1 + linkLosses
    BY <1>3 DEF Budget
  <2>2. QED
    BY <1>1, <2>1
<1>4. QED
  BY <1>2, <1>3

LEMMA BudgetPublish ==
  ASSUME TypeOK, TypeOK', Queued, Budget, NEW c \in Commands, Publish(c)
  PROVE  Budget'
<1>1. /\ out' = Append(out, c) /\ order' = Append(order, c)
      /\ UNCHANGED <<taken, kind, toDevice, runs, linkLosses>> /\ ~ Occurs(c, order)
  BY QueuedPublish DEF Publish, device
<1>2. /\ Len(out) \in Nat /\ Len(out') = Len(out) + 1 /\ out'[Len(out) + 1] = c
      /\ \A i \in 1 .. Len(out) : out'[i] = out[i]
      /\ Len(order) \in Nat /\ Len(order') = Len(order) + 1
      /\ \A i \in 1 .. Len(order) : order'[i] = order[i]
      /\ taken \in Nat
  BY <1>1, Longer DEF TypeOK
<1>3. ASSUME NEW d \in Commands PROVE Due(d)' <= Due(d)
  <2>1. CASE Due(d) = 1
    BY <2>1, DueType
  <2>2. CASE Due(d) # 1
    <3>1. Occurs(d, order) /\ \A i \in taken + 1 .. Len(out) : out[i] # d
      BY <2>2 DEF Due
    <3>2. Occurs(d, order') /\ d # c
      BY <1>1, <1>2, <3>1 DEF Occurs
    <3>3. \A i \in taken' + 1 .. Len(out') : out'[i] # d
      <4> SUFFICES ASSUME NEW i \in taken + 1 .. Len(out) + 1 PROVE out'[i] # d
        BY <1>1, <1>2
      <4>1. CASE i = Len(out) + 1
        BY <1>2, <3>2, <4>1
      <4>2. CASE i # Len(out) + 1
        <5>1. i \in taken + 1 .. Len(out) /\ i \in 1 .. Len(out)
          BY <1>2, <4>2
        <5>2. QED
          BY <1>2, <3>1, <5>1
      <4>3. QED
        BY <4>1, <4>2
    <3>4. Due(d)' = 0
      BY <3>2, <3>3 DEF Due
    <3>5. QED
      BY <3>4, DueType
  <2>3. QED
    BY <2>1, <2>2
<1>4. \A d \in Commands : runs[d] + Times(d, toDevice) \in Nat
  BY CountsType
<1>5. QED
  <2>1. \A d \in Commands :
          runs'[d] + Times(d, toDevice') + Due(d)' <= runs[d] + Times(d, toDevice) + Due(d)
    BY <1>1, <1>3, <1>4, DueType
  <2>2. QED
    BY <1>1, <2>1, BudgetSpent

LEMMA BudgetDeliver ==
  ASSUME TypeOK, TypeOK', Queued, Budget, Deliver
  PROVE  Budget'
<1> DEFINE c == out[taken + 1]
<1>1. /\ UNCHANGED <<kind, linkLosses, out, order, runs>> /\ taken' = taken + 1
      /\ taken + 1 \in 1 .. Len(out) /\ taken \in Nat /\ Len(out) \in Nat
      /\ c \in Commands /\ toDevice \in Seq(Commands)
      /\ toDevice' = toDevice \/ toDevice' = Append(toDevice, c)
  <2>1. UNCHANGED <<kind, linkLosses, out, order, runs>> /\ taken' = taken + 1
    BY DEF Deliver
  <2>2. toDevice \in Seq(Commands)
    BY DEF TypeOK
  <2>3. QED
    BY <2>1, <2>2, Delivered, DeliverStep
<1>2. Occurs(c, order) /\ \A i \in 1 .. Len(out) : out[i] = c => i = taken + 1
  <2>1. /\ Acked \in Nat /\ Len(order) \in Nat /\ Acked + Len(out) = Len(order)
        /\ \A i \in 1 .. Len(out) : out[i] = order[Acked + i]
    BY Delivered DEF Queued
  <2>2. \A i \in 1 .. Len(out) : Acked + i \in 1 .. Len(order)
    BY <1>1, <2>1
  <2>3. Occurs(c, order)
    BY <1>1, <2>1, <2>2 DEF Occurs
  <2>4. ASSUME NEW i \in 1 .. Len(out), out[i] = c PROVE i = taken + 1
    <3>1. Acked + i = Acked + (taken + 1)
      BY <1>1, <2>1, <2>2, <2>4 DEF Queued
    <3>2. QED
      BY <1>1, <2>1, <3>1
  <2>5. QED
    BY <2>3, <2>4
<1> HIDE DEF c
<1>3. ASSUME NEW d \in Commands
      PROVE  Due(d)' + (IF d = c THEN 1 ELSE 0) <= Due(d)
  <2>1. CASE d = c
    <3>1. Due(d) = 1
      BY <1>1, <2>1 DEF Due, c
    <3>2. \A i \in taken' + 1 .. Len(out') : out'[i] # d
      BY <1>1, <1>2, <2>1
    <3>3. Due(d)' = 0
      BY <1>1, <1>2, <2>1, <3>2 DEF Due
    <3>4. QED
      BY <2>1, <3>1, <3>3
  <2>2. CASE d # c
    <3>1. CASE Due(d) = 1
      BY <2>2, <3>1, DueType
    <3>2. CASE Due(d) # 1
      <4>1. Occurs(d, order) /\ \A i \in taken + 1 .. Len(out) : out[i] # d
        BY <3>2 DEF Due
      <4>2. \A i \in taken' + 1 .. Len(out') : out'[i] # d
        BY <1>1, <4>1
      <4>3. Due(d)' = 0
        BY <1>1, <4>1, <4>2 DEF Due
      <4>4. QED
        BY <2>2, <4>3, DueType
    <3>3. QED
      BY <3>1, <3>2
  <2>3. QED
    BY <2>1, <2>2
<1>4. ASSUME NEW d \in Commands
      PROVE  Times(d, toDevice') <= Times(d, toDevice) + (IF d = c THEN 1 ELSE 0)
  <2>1. Times(d, toDevice) \in Nat
    BY <1>1, TimesType
  <2>2. CASE toDevice' = toDevice
    BY <2>1, <2>2
  <2>3. CASE toDevice' = Append(toDevice, c)
    <3>1. Times(d, toDevice') = Times(d, toDevice) + (IF c = d THEN 1 ELSE 0)
      BY <1>1, <2>3, TimesAppend
    <3>2. QED
      BY <2>1, <3>1
  <2>4. QED
    BY <1>1, <2>2, <2>3
<1>5. \A d \in Commands : /\ runs[d] \in Nat /\ Times(d, toDevice) \in Nat
                         /\ Times(d, toDevice') \in Nat
  BY TimesType DEF TypeOK
<1>6. \A d \in Commands :
        runs'[d] + Times(d, toDevice') + Due(d)' <= runs[d] + Times(d, toDevice) + Due(d)
  <2> SUFFICES ASSUME NEW d \in Commands
               PROVE  runs[d] + Times(d, toDevice') + Due(d)'
                        <= runs[d] + Times(d, toDevice) + Due(d)
    BY <1>1
  <2>1. Due(d) \in Int /\ Due(d)' \in Int
    BY DueType
  <2>2. QED
    BY <1>3, <1>4, <1>5, <2>1
<1>7. QED
  BY <1>1, <1>6, BudgetSpent

LEMMA BudgetAcknowledge ==
  ASSUME TypeOK, TypeOK', Budget, Acknowledge
  PROVE  Budget'
<1>1. /\ out # <<>> /\ out' = Tail(out) /\ taken' = taken - 1 /\ taken \in Nat \ {0}
      /\ UNCHANGED <<kind, runs, toDevice, linkLosses, order>>
  BY DEF Acknowledge, device, history, TypeOK
<1>2. /\ Len(out) \in Nat \ {0} /\ Len(out') = Len(out) - 1
      /\ \A i \in 1 .. Len(out) - 1 : out'[i] = out[i + 1]
  BY <1>1, Shorter DEF TypeOK
<1>3. ASSUME NEW d \in Commands PROVE Due(d)' <= Due(d)
  <2>1. CASE Due(d) = 1
    BY <2>1, DueType
  <2>2. CASE Due(d) # 1
    <3>1. Occurs(d, order) /\ \A i \in taken + 1 .. Len(out) : out[i] # d
      BY <2>2 DEF Due
    <3>2. \A i \in taken' + 1 .. Len(out') : out'[i] # d
      BY <1>1, <1>2, <3>1
    <3>3. Due(d)' = 0
      BY <1>1, <3>1, <3>2 DEF Due
    <3>4. QED
      BY <3>3, DueType
  <2>3. QED
    BY <2>1, <2>2
<1>4. \A d \in Commands : runs[d] + Times(d, toDevice) \in Nat
  BY CountsType
<1>5. \A d \in Commands :
        runs'[d] + Times(d, toDevice') + Due(d)' <= runs[d] + Times(d, toDevice) + Due(d)
  BY <1>1, <1>3, <1>4, DueType
<1>6. QED
  BY <1>1, <1>5, BudgetSpent

\* The device carries out the first command that waits, or the first two, and
\* the others wait on or are lost.
LEMMA BudgetRuns ==
  ASSUME TypeOK, TypeOK', Budget, kind # "simulated",
         UNCHANGED <<kind, linkLosses, order, out, taken>>,
         \/ toDevice' = <<>> /\ runs' = runs
         \/ /\ toDevice # <<>> /\ toDevice' \in {<<>>, Tail(toDevice)}
            /\ runs' = [runs EXCEPT ![Head(toDevice)] = @ + 1]
         \/ /\ toDevice # <<>> /\ toDevice' = <<>> /\ Tail(toDevice) # <<>>
            /\ runs' = [[runs EXCEPT ![Head(toDevice)] = @ + 1]
                                   EXCEPT ![Head(Tail(toDevice))] = @ + 1]
  PROVE  Budget'
<1> DEFINE c == Head(toDevice)
           rest == Tail(toDevice)
<1>1. ASSUME NEW d \in Commands
      PROVE  runs'[d] + Times(d, toDevice') <= runs[d] + Times(d, toDevice)
  <2>1. /\ toDevice \in Seq(Commands) /\ runs[d] \in Nat /\ Times(d, toDevice) \in Nat
        /\ runs \in [Commands -> Nat]
    BY TimesType DEF TypeOK
  <2>2. CASE toDevice' = <<>> /\ runs' = runs
    BY <2>1, <2>2, TimesEmpty
  <2>3. CASE toDevice # <<>>
    <3>1. /\ c \in Commands /\ rest \in Seq(Commands)
          /\ Times(d, toDevice) = Times(d, rest) + (IF c = d THEN 1 ELSE 0)
          /\ Times(d, rest) \in Nat
      BY <2>1, <2>3, Shorter, TimesTail, TimesType
    <3>2. CASE /\ toDevice' \in {<<>>, rest}
               /\ runs' = [runs EXCEPT ![c] = @ + 1]
      <4>1. runs'[d] = runs[d] + (IF c = d THEN 1 ELSE 0)
        BY <2>1, <3>1, <3>2
      <4> HIDE DEF c, rest
      <4>2. Times(d, toDevice') <= Times(d, rest) /\ Times(d, toDevice') \in Nat
        <5>1. CASE toDevice' = rest
          BY <3>1, <5>1
        <5>2. CASE toDevice' = <<>>
          BY <3>1, <5>2, TimesEmpty
        <5>3. QED
          BY <3>2, <5>1, <5>2
      <4>3. QED
        BY <2>1, <3>1, <4>1, <4>2
    <3>3. CASE /\ toDevice' = <<>> /\ rest # <<>>
               /\ runs' = [[runs EXCEPT ![c] = @ + 1] EXCEPT ![Head(rest)] = @ + 1]
      <4> DEFINE e == Head(rest)
      <4> HIDE DEF rest
      <4>1. /\ e \in Commands
            /\ Times(d, rest) = Times(d, Tail(rest)) + (IF e = d THEN 1 ELSE 0)
            /\ Times(d, Tail(rest)) \in Nat
        BY <3>1, <3>3, Shorter, TimesTail, TimesType
      <4> HIDE DEF c, e
      <4>2. runs'[d] = runs[d] + (IF c = d THEN 1 ELSE 0) + (IF e = d THEN 1 ELSE 0)
        <5> DEFINE once == [runs EXCEPT ![c] = @ + 1]
        <5>1. once \in [Commands -> Nat] /\ once[d] = runs[d] + (IF c = d THEN 1 ELSE 0)
          BY <2>1, <3>1
        <5>2. runs' = [once EXCEPT ![e] = @ + 1]
          BY <3>3 DEF e
        <5> HIDE DEF once
        <5>3. QED
          BY <4>1, <5>1, <5>2
      <4>3. Times(d, toDevice') = 0
        BY <3>3, TimesEmpty
      <4>4. QED
        BY <2>1, <3>1, <4>1, <4>2, <4>3
    <3>4. CASE toDevice' = <<>> /\ runs' = runs
      BY <2>1, <3>4, TimesEmpty
    <3>5. QED
      BY <3>2, <3>3, <3>4
  <2>4. QED
    BY <2>2, <2>3
<1>2. \A d \in Commands : /\ runs[d] \in Nat /\ Times(d, toDevice) \in Nat
                         /\ runs'[d] \in Nat /\ Times(d, toDevice') \in Nat
  BY TimesType DEF TypeOK
<1>3. \A d \in Commands : Due(d)' = Due(d)
  BY DEF Due
<1>4. \A d \in Commands :
        runs'[d] + Times(d, toDevice') + Due(d)' <= runs[d] + Times(d, toDevice) + Due(d)
  BY <1>1, <1>2, <1>3, DueType
<1>5. QED
  BY <1>4, BudgetSpent

LEMMA BudgetNext ==
  ASSUME TypeOK, TypeOK', Queued, Budget, [Next]_vars
  PROVE  Budget'
<1>1. CASE \E c \in Commands : Publish(c)
  BY <1>1, BudgetPublish
<1>2. CASE LoseLink \/ StopService
  BY <1>2, BudgetRaised DEF LoseLink, StopService, device
<1>3. CASE Deliver
  BY <1>3, BudgetDeliver
<1>4. CASE Acknowledge
  BY <1>4, BudgetAcknowledge
<1>5. CASE SimulatedRuns
  BY <1>5 DEF SimulatedRuns, Budget
<1>6. CASE kind = "simulated" /\ (LoseSession \/ DemoRuns \/ BoardRuns \/ BoardRestarts)
  BY <1>6 DEF LoseSession, DemoRuns, BoardRuns, BoardRestarts, Budget
<1>7. CASE kind # "simulated" /\ LoseSession
  BY <1>7, BudgetRuns DEF LoseSession, client
<1>8. CASE kind # "simulated" /\ (DemoRuns \/ BoardRuns)
  BY <1>8, BudgetRuns DEF DemoRuns, BoardRuns, client, history
<1>9. CASE kind # "simulated" /\ BoardRestarts
  <2>1. /\ toDevice # <<>> /\ toDevice' = <<>>
        /\ UNCHANGED <<kind, linkLosses, order, out, taken>>
        /\ \/ runs' = [runs EXCEPT ![Head(toDevice)] = @ + 1]
           \/ /\ Tail(toDevice) # <<>>
              /\ runs' = [[runs EXCEPT ![Head(toDevice)] = @ + 1]
                                   EXCEPT ![Head(Tail(toDevice))] = @ + 1]
    BY <1>9 DEF BoardRestarts, client
  <2>2. QED
    BY <1>9, <2>1, BudgetRuns
<1>10. CASE UNCHANGED flow
  BY <1>10 DEF flow, Budget, Due
<1>11. QED
  BY <1>1, <1>2, <1>3, <1>4, <1>5, <1>6, <1>7, <1>8, <1>9, <1>10, Cases

-----------------------------------------------------------------------------
(* How often a command is carried out.                                     *)

LEMMA InitIInv == Init => IInv
<1> SUFFICES ASSUME Init PROVE IInv
  OBVIOUS
<1>1. TypeOK
  <2>1. /\ connected \in BOOLEAN /\ link \in BOOLEAN /\ session \in BOOLEAN
        /\ blocked \in BOOLEAN /\ dropped \in BOOLEAN
    BY DEF Init
  <2>2. /\ taken \in 0 .. Len(out) /\ taken <= Inflight /\ level \in 0 .. 100
        /\ linkLosses \in 0 .. LinkLosses /\ sessionLosses \in 0 .. SessionLosses
        /\ Len(recent) <= Window
    BY ConstantsAssumption DEF Init
  <2>3. /\ out \in Seq(Commands) /\ toDevice \in Seq(Commands) /\ recent \in Seq(Commands)
        /\ outbox \in Seq(Reply) /\ replies \in Seq(Reply) /\ order \in Seq(Commands)
    BY EmptyType DEF Init
  <2>4. QED
    BY <2>1, <2>2, <2>3 DEF Init, TypeOK
<1>2. Len(<<>>) = 0
  OBVIOUS
<1>3. Queued /\ Published /\ InOrder /\ Remembers
  BY <1>2 DEF Init, Queued, Published, InOrder, Remembers, Comes, Acked, Occurs
<1>4. Budget
  BY TimesEmpty, DueType DEF Init, Budget
<1>5. QED
  BY <1>1, <1>3, <1>4 DEF IInv

LEMMA NextIInv == IInv /\ [Next]_vars => IInv'
<1> SUFFICES ASSUME IInv, [Next]_vars PROVE IInv'
  OBVIOUS
<1>1. TypeOK /\ Queued /\ Published /\ InOrder /\ Remembers /\ Budget
  BY DEF IInv
<1>2. TypeOK'
  BY <1>1, TypeNext
<1>3. Queued'
  BY <1>1, QueuedNext
<1>4. Published' /\ InOrder'
  BY <1>1, <1>2, <1>3, ReachedNext
<1>5. Remembers'
  BY <1>1, RemembersNext
<1>6. Budget'
  BY <1>1, <1>2, BudgetNext
<1>7. QED
  BY <1>2, <1>3, <1>4, <1>5, <1>6 DEF IInv

\* Commands are sent again after every lost connection, and reordered when one
\* was dropped on its way.  The simulated device still carries each out once: its
\* window holds every id that can come again.  The others do it at most once per
\* connection of the control service.
THEOREM RunsBounded == Spec => []RunsAreBounded
<1>1. IInv => RunsAreBounded
  <2> SUFFICES ASSUME IInv, NEW c \in Commands
               PROVE  runs[c] <= IF kind = "simulated" THEN 1 ELSE 1 + linkLosses
    BY DEF RunsAreBounded
  <2>1. TypeOK /\ Remembers /\ Budget
    BY DEF IInv
  <2>2. /\ linkLosses \in Nat /\ runs[c] \in Nat /\ Times(c, toDevice) \in Nat
        /\ Due(c) \in {0, 1}
    BY <2>1, CountsType, DueType
  <2>3. CASE kind = "simulated"
    BY <2>1, <2>3 DEF Remembers
  <2>4. CASE kind # "simulated"
    <3>1. runs[c] + Times(c, toDevice) + Due(c) <= 1 + linkLosses
      BY <2>1, <2>4 DEF Budget
    <3>2. QED
      BY <2>2, <2>4, <3>1
  <2>5. QED
    BY <2>3, <2>4
<1>2. QED
  BY <1>1, InitIInv, NextIInv, PTL DEF Spec

\* Nothing the publishing thread commits takes back a response recorded in the
\* meantime.
THEOREM AnswersKept == Spec => AnswersAreKept
<1>1. [Next]_vars => answered \subseteq answered'
  <2> SUFFICES ASSUME [Next]_vars PROVE answered \subseteq answered'
    OBVIOUS
  <2>1. CASE \E c \in Commands : Request(c) \/ Thread(c)
    BY <2>1 DEF Request, Thread, Check, Publish, Await, FinishStatus, table
  <2>2. CASE \/ Connect \/ OnConnect \/ LoseLink \/ OnDisconnect
             \/ StopService \/ Deliver \/ Acknowledge
    BY <2>2 DEF Connect, OnConnect, LoseLink, OnDisconnect, StopService, Deliver, Acknowledge, table
  <2>3. CASE LoseSession \/ Reconnect \/ SendReply \/ ResponseLoad \/ ResponseCommit
    BY <2>3 DEF LoseSession, Reconnect, SendReply, ResponseLoad, ResponseCommit, table
  <2>4. CASE Callback
    BY <2>4 DEF Callback, SimulatedRuns, DemoRuns, DemoReturns, BoardRuns, BoardRestarts, table
  <2>5. CASE UNCHANGED vars
    BY <2>5 DEF vars, table
  <2>6. QED
    BY <2>1, <2>2, <2>3, <2>4, <2>5 DEF Next
<1>2. QED
  BY <1>1, PTL DEF Spec, AnswersAreKept

-----------------------------------------------------------------------------
(* A command refused for want of a connection.                             *)

Refused ==
  \A c \in Commands : status[c] = "broker-unavailable" =>
    thread[c] = "done" /\ ~ Occurs(c, order)

LEMMA RefusedNext == IInv /\ Refused /\ [Next]_vars => Refused'
<1> SUFFICES ASSUME IInv, Refused, [Next]_vars PROVE Refused'
  OBVIOUS
<1>1. TypeOK /\ Queued
  BY DEF IInv
<1>2. CASE \E c \in Commands : Publish(c)
  <2>1. PICK c \in Commands : Publish(c)
    BY <1>2
  <2>2. /\ status' = status /\ order' = Append(order, c) /\ thread[c] = "publish"
        /\ \A d \in Commands \ {c} : thread'[d] = thread[d]
    BY <1>1, <2>1 DEF Publish, table, TypeOK
  <2>3. \A d : d # c /\ Occurs(d, order') => Occurs(d, order)
    <3>1. /\ Len(order) \in Nat /\ Len(order') = Len(order) + 1
          /\ order'[Len(order) + 1] = c
          /\ \A i \in 1 .. Len(order) : order'[i] = order[i]
      BY <1>1, <2>2, Longer DEF TypeOK
    <3>2. QED
      BY <3>1 DEF Occurs
  <2>4. QED
    BY <2>2, <2>3 DEF Refused
<1>3. CASE \E c \in Commands : Request(c) \/ Check(c) \/ Await(c)
  BY <1>1, <1>3 DEF Request, Check, Await, Refused, table, history, TypeOK
<1>4. CASE \E c \in Commands : FinishStatus(c)
  <2>1. PICK c \in Commands : FinishStatus(c)
    BY <1>4
  <2>2. /\ order' = order /\ thread' = [thread EXCEPT ![c] = "done"]
        /\ \A d \in Commands \ {c} : status'[d] = status[d]
        /\ status'[c] = "broker-unavailable" => thread[c] = "unavailable"
    BY <1>1, <2>1 DEF FinishStatus, history, TypeOK
  <2>3. thread[c] = "unavailable" => ~ Occurs(c, order)
    BY <1>1 DEF Queued, Unpublished
  <2>4. QED
    BY <1>1, <2>2, <2>3 DEF Refused, TypeOK
<1>5. CASE StopService
  BY <1>1, <1>5 DEF StopService, Refused, table, TypeOK
<1>6. CASE ResponseCommit
  <2>1. m.cmd \in Commands /\ m.status \in Replies
    BY <1>1, <1>6 DEF ResponseCommit, TypeOK, Reply
  <2>2. QED
    BY <1>1, <1>6, <2>1 DEF ResponseCommit, Refused, history, TypeOK, Replies
<1>7. CASE \/ Connect \/ OnConnect \/ LoseLink \/ OnDisconnect \/ Deliver \/ Acknowledge
           \/ LoseSession \/ Reconnect \/ SendReply \/ Callback \/ ResponseLoad \/ UNCHANGED vars
  <2>1. UNCHANGED <<status, thread, order>>
    BY <1>7 DEF Connect, OnConnect, LoseLink, OnDisconnect, Deliver, Acknowledge, LoseSession,
       Reconnect, SendReply, Callback, SimulatedRuns, DemoRuns, DemoReturns, BoardRuns,
       BoardRestarts, ResponseLoad, vars, table, history
  <2>2. QED
    BY <2>1 DEF Refused
<1>8. QED
  BY <1>2, <1>3, <1>4, <1>5, <1>6, <1>7 DEF Next, Thread

\* A command answered with "the broker is not available" is never carried out
\* later, when the connection has come back.
THEOREM RefusedNeverRuns == Spec => []UnavailableNeverRuns
<1>1. Init => Refused
  BY DEF Init, Refused
<1>2. IInv /\ Refused => UnavailableNeverRuns
  <2> SUFFICES ASSUME IInv, Refused, NEW c \in Commands, status[c] = "broker-unavailable"
               PROVE  runs[c] = 0
    BY DEF UnavailableNeverRuns
  <2>1. ~ Occurs(c, order)
    BY DEF Refused
  <2>2. ~ runs[c] > 0
    BY <2>1 DEF IInv, Published
  <2>3. runs[c] \in Nat
    BY CountsType DEF IInv
  <2>4. QED
    BY <2>2, <2>3
<1>3. QED
  BY <1>1, <1>2, InitIInv, NextIInv, RefusedNext, PTL DEF Spec

-----------------------------------------------------------------------------
(* The level at rest.                                                      *)

\* Steps that leave the device alone and bring it no new command.
LEMMA SettlingStays ==
  ASSUME TypeOK, Queued, Settling, Extended, order' \in Seq(Commands),
         UNCHANGED <<asked, kind, toDevice, level>>, ~ dropped' => ~ dropped,
         Acked' + taken' \in Int, Acked' + taken' <= Acked + taken
  PROVE  Settling'
<1> SUFFICES ASSUME kind # "simulated", ~ dropped', NEW i \in 1 .. Acked' + taken', LastLevel(i)'
             PROVE  LastInQueue(i)'
  BY DEF Settling
<1>1. i \in 1 .. Acked + taken /\ i \in 1 .. Len(order)
  BY Delivered
<1>2. /\ order'[i] = order[i]
      /\ \A j \in 1 .. Len(order) : j \in 1 .. Len(order') /\ order'[j] = order[j]
  BY <1>1, Delivered DEF Extended
<1>3. LastLevel(i)
  BY <1>1, <1>2 DEF LastLevel, IsLevel
<1>4. LastInQueue(i)
  BY <1>1, <1>3 DEF Settling
<1>5. QED
  BY <1>2, <1>4 DEF LastInQueue, IsLevel, Value

LEMMA SettlingDelivered ==
  ASSUME TypeOK, Queued, Settling, Deliver
  PROVE  Settling'
<1> SUFFICES ASSUME kind # "simulated", ~ dropped', NEW i \in 1 .. Acked' + taken', LastLevel(i)'
             PROVE  LastInQueue(i)'
  BY DEF Settling, Deliver
<1> DEFINE c == out[taken + 1]
<1>0. ~ dropped /\ session
  BY DEF Deliver
<1>1. UNCHANGED <<asked, kind, order, out, level>> /\ taken' = taken + 1
  BY DEF Deliver, table
<1>2. taken + 1 \in 1 .. Len(out) /\ c \in Commands
  BY DeliverStep
<1>3. /\ Len(toDevice) \in Nat /\ Len(toDevice') = Len(toDevice) + 1
      /\ \A k \in 1 .. Len(toDevice) : toDevice'[k] = toDevice[k]
      /\ toDevice'[Len(toDevice) + 1] = c
  BY <1>0, Delivered, DeliverStep
<1>4. c = order[Acked + taken + 1] /\ Acked + taken + 1 \in 1 .. Len(order)
  BY DeliverStep
<1> HIDE DEF c
<1>5. LastLevel(i) /\ i \in 1 .. Acked + taken + 1
  BY <1>1, Delivered DEF LastLevel, IsLevel, Acked
<1>6. CASE i = Acked + taken + 1
  <2>1. toDevice'[Len(toDevice')] = order'[i] /\ Len(toDevice') \in 1 .. Len(toDevice')
    BY <1>1, <1>3, <1>4, <1>6
  <2>2. \A l \in Len(toDevice') + 1 .. Len(toDevice') : FALSE
    BY <1>3
  <2>3. QED
    BY <2>1, <2>2 DEF LastInQueue
<1>7. CASE i # Acked + taken + 1
  <2>1. LastInQueue(i)
    BY <1>0, <1>1, <1>5, <1>7, Delivered DEF Settling
  <2>2. ~ IsLevel(c)
    BY <1>4, <1>5, <1>7, Delivered DEF LastLevel
  <2>3. CASE \E k \in 1 .. Len(toDevice) :
               /\ toDevice[k] = order[i]
               /\ \A l \in k + 1 .. Len(toDevice) : ~ IsLevel(toDevice[l])
    <3>1. PICK k \in 1 .. Len(toDevice) :
            /\ toDevice[k] = order[i]
            /\ \A l \in k + 1 .. Len(toDevice) : ~ IsLevel(toDevice[l])
      BY <2>3
    <3>2. k \in 1 .. Len(toDevice') /\ toDevice'[k] = order'[i]
      BY <1>1, <1>3, <3>1
    <3>3. \A l \in k + 1 .. Len(toDevice') : ~ IsLevel(toDevice'[l])
      BY <1>3, <2>2, <3>1
    <3>4. QED
      BY <1>1, <3>2, <3>3 DEF LastInQueue, IsLevel
  <2>4. CASE /\ level = Value(order[i])
             /\ \A l \in 1 .. Len(toDevice) : ~ IsLevel(toDevice[l])
    <3>1. \A l \in 1 .. Len(toDevice') : ~ IsLevel(toDevice'[l])
      BY <1>3, <2>2, <2>4
    <3>2. QED
      BY <1>1, <2>4, <3>1 DEF LastInQueue, IsLevel, Value
  <2>5. QED
    BY <2>1, <2>3, <2>4 DEF LastInQueue
<1>8. QED
  BY <1>6, <1>7

LEMMA SettlingRuns ==
  ASSUME TypeOK, Settling, DemoRuns \/ BoardRuns
  PROVE  Settling'
<1> SUFFICES ASSUME kind # "simulated", ~ dropped', NEW i \in 1 .. Acked' + taken', LastLevel(i)'
             PROVE  LastInQueue(i)'
  BY DEF Settling, DemoRuns, BoardRuns
<1> DEFINE c == Head(toDevice)
<1>1. /\ toDevice # <<>> /\ toDevice' = Tail(toDevice) /\ level' = LevelAfter(c)
      /\ UNCHANGED <<asked, kind, order, out, taken, dropped>>
  BY DEF DemoRuns, BoardRuns, table, client, history
<1>2. /\ c = toDevice[1] /\ Len(toDevice) \in Nat \ {0}
      /\ Len(toDevice') = Len(toDevice) - 1
      /\ \A k \in 1 .. Len(toDevice') : toDevice'[k] = toDevice[k + 1]
  BY <1>1, Shorter DEF TypeOK
<1> HIDE DEF c
<1>3. LastInQueue(i)
  BY <1>1 DEF Settling, LastLevel, IsLevel, Acked
<1>4. level' = IF IsLevel(c) THEN Value(c) ELSE level
  BY <1>1 DEF LevelAfter, IsLevel, Value
<1>5. CASE \E k \in 1 .. Len(toDevice) :
             /\ toDevice[k] = order[i]
             /\ \A l \in k + 1 .. Len(toDevice) : ~ IsLevel(toDevice[l])
  <2>1. PICK k \in 1 .. Len(toDevice) :
          /\ toDevice[k] = order[i]
          /\ \A l \in k + 1 .. Len(toDevice) : ~ IsLevel(toDevice[l])
    BY <1>5
  <2>2. CASE k = 1
    <3>1. IsLevel(order[i])
      BY <1>1 DEF LastLevel, IsLevel
    <3>2. level' = Value(order[i])
      BY <1>2, <1>4, <2>1, <2>2, <3>1
    <3>3. \A l \in 1 .. Len(toDevice') : ~ IsLevel(toDevice'[l])
      BY <1>2, <2>1, <2>2
    <3>4. QED
      BY <1>1, <3>2, <3>3 DEF LastInQueue, IsLevel, Value
  <2>3. CASE k # 1
    <3>1. k - 1 \in 1 .. Len(toDevice') /\ toDevice'[k - 1] = order'[i]
      BY <1>1, <1>2, <2>1, <2>3
    <3>2. \A l \in (k - 1) + 1 .. Len(toDevice') : ~ IsLevel(toDevice'[l])
      <4> SUFFICES ASSUME NEW l \in k .. Len(toDevice') PROVE ~ IsLevel(toDevice'[l])
        OBVIOUS
      <4>1. l + 1 \in k + 1 .. Len(toDevice) /\ toDevice'[l] = toDevice[l + 1]
        BY <1>2
      <4>2. QED
        BY <2>1, <4>1
    <3>3. QED
      BY <1>1, <3>1, <3>2 DEF LastInQueue, IsLevel
  <2>4. QED
    BY <2>2, <2>3
<1>6. CASE /\ level = Value(order[i])
           /\ \A l \in 1 .. Len(toDevice) : ~ IsLevel(toDevice[l])
  <2>1. level' = Value(order[i]) /\ \A l \in 1 .. Len(toDevice') : ~ IsLevel(toDevice'[l])
    BY <1>2, <1>4, <1>6
  <2>2. QED
    BY <1>1, <2>1 DEF LastInQueue, IsLevel, Value
<1>7. QED
  BY <1>3, <1>5, <1>6 DEF LastInQueue

LEMMA InTurnStays ==
  ASSUME TypeOK, Queued, InTurn,
         UNCHANGED <<asked, kind, order, toDevice, runs, level>>, ~ dropped' => ~ dropped,
         Acked' + taken' \in Int, Acked' + taken' <= Acked + taken
  PROVE  InTurn'
<1>1. \A i \in 1 .. Acked' + taken' : i \in 1 .. Acked + taken
  BY Delivered
<1>2. QED
  BY <1>1 DEF InTurn, Ran, Before, Place, IsLevel, Value

LEMMA InTurnPublish ==
  ASSUME IInv, Queued', InTurn, NEW c \in Commands, Publish(c)
  PROVE  InTurn'
<1> SUFFICES ASSUME kind = "simulated", ~ dropped PROVE InTurn'
  BY DEF InTurn, Publish, device
<1>1. TypeOK /\ Queued /\ Published
  BY DEF IInv
<1>2. /\ order' = Append(order, c) /\ out' = Append(out, c)
      /\ UNCHANGED <<asked, kind, taken, toDevice, runs, level, dropped>>
  BY DEF Publish, table, device
<1>3. /\ Len(order) \in Nat /\ Len(order') = Len(order) + 1 /\ order'[Len(order) + 1] = c
      /\ \A i \in 1 .. Len(order) : order'[i] = order[i]
      /\ Len(out') = Len(out) + 1 /\ order' \in Seq(Commands) /\ order \in Seq(Commands)
  BY <1>1, <1>2, Longer DEF TypeOK
<1>4. Acked' + taken' = Acked + taken /\ Acked + taken \in 0 .. Len(order)
  BY <1>1, <1>2, <1>3, Delivered DEF Acked
<1>5. runs[c] # 1
  BY <1>1, QueuedPublish DEF Published
<1>6. \A i \in 1 .. Len(order') :
        /\ Ran(i)' => i \in 1 .. Len(order)
        /\ i \in 1 .. Len(order) => /\ Ran(i)' = Ran(i)
                                   /\ \A k : Before(i, k)' = Before(i, k)
  BY <1>2, <1>3, <1>5 DEF Ran, Before
<1>7. \A k \in 1 .. Len(toDevice) : Place(toDevice[k]) \in 1 .. Len(order)
                                   /\ PlaceIn(order', toDevice[k]) = Place(toDevice[k])
  <2> SUFFICES ASSUME NEW k \in 1 .. Len(toDevice)
               PROVE  /\ Place(toDevice[k]) \in 1 .. Len(order)
                      /\ PlaceIn(order', toDevice[k]) = Place(toDevice[k])
    OBVIOUS
  <2>1. Occurs(toDevice[k], order)
    BY <1>1 DEF Published, Reached
  <2>2. Extended
    BY <1>3 DEF Extended
  <2>3. QED
    BY <1>3, <2>1, <2>2, PlaceIs, PlaceStays DEF Place
<1>8. \A i, j \in 1 .. Len(order') : Ran(i)' /\ j < i => Ran(j)'
  BY <1>3, <1>6 DEF InTurn
<1>9. \A i \in 1 .. Acked' + taken' : Ran(i)' \/ Before(i, Len(toDevice) + 1)'
  BY <1>2, <1>3, <1>4, <1>6 DEF InTurn, Before
<1>10. \A k \in 1 .. Len(toDevice), i \in 1 .. Len(order') :
         i < PlaceIn(order', toDevice[k]) => Ran(i)' \/ Before(i, k)'
  <2> SUFFICES ASSUME NEW k \in 1 .. Len(toDevice), NEW i \in 1 .. Len(order'),
                      i < PlaceIn(order', toDevice[k])
               PROVE  Ran(i)' \/ Before(i, k)'
    OBVIOUS
  <2>1. i \in 1 .. Len(order) /\ i < Place(toDevice[k])
    BY <1>3, <1>7
  <2>2. Ran(i) \/ Before(i, k)
    BY <2>1 DEF InTurn
  <2>3. QED
    BY <1>6, <2>1, <2>2
<1>11. ASSUME NEW i \in 1 .. Len(order'), Ran(i)', IsLevel(order[i])',
              \A j \in 1 .. Len(order') : Ran(j)' /\ IsLevel(order[j])' => j <= i
       PROVE  level = Value(order[i])'
  <2>1. i \in 1 .. Len(order) /\ Ran(i) /\ IsLevel(order[i]) /\ Value(order[i])' = Value(order[i])
    BY <1>2, <1>3, <1>6, <1>11 DEF IsLevel, Value
  <2>2. ASSUME NEW j \in 1 .. Len(order), Ran(j), IsLevel(order[j]) PROVE j <= i
    <3>1. j \in 1 .. Len(order') /\ Ran(j)' /\ IsLevel(order[j])'
      BY <1>2, <1>3, <1>6, <2>2 DEF IsLevel
    <3>2. QED
      BY <1>11, <3>1
  <2>3. level = Value(order[i])
    BY <2>1, <2>2 DEF InTurn
  <2>4. QED
    BY <2>1, <2>3
<1>12. QED
  BY <1>2, <1>8, <1>9, <1>10, <1>11 DEF InTurn, Place

LEMMA InTurnDelivered ==
  ASSUME IInv, InTurn, Deliver
  PROVE  InTurn'
<1> SUFFICES ASSUME kind = "simulated", ~ dropped' PROVE InTurn'
  BY DEF InTurn, Deliver
<1> DEFINE c == out[taken + 1]
           p == Acked + taken + 1
<1>0. TypeOK /\ Queued /\ ~ dropped /\ session
  BY DEF IInv, Deliver
<1>1. /\ UNCHANGED <<asked, kind, order, out, runs, level>> /\ taken' = taken + 1
      /\ taken + 1 \in 1 .. Len(out) /\ c \in Commands
  <2>1. UNCHANGED <<asked, kind, order, out, runs, level>> /\ taken' = taken + 1
    BY DEF Deliver, table
  <2>2. QED
    BY <1>0, <2>1, DeliverStep
<1>2. /\ Len(toDevice) \in Nat /\ Len(toDevice') = Len(toDevice) + 1
      /\ \A k \in 1 .. Len(toDevice) : toDevice'[k] = toDevice[k]
      /\ toDevice'[Len(toDevice) + 1] = c
  BY <1>0, Delivered, DeliverStep
<1>3. c = order[p] /\ p \in 1 .. Len(order) /\ Acked' + taken' = p /\ Acked + taken = p - 1
  <2>1. c = order[p] /\ p \in 1 .. Len(order)
    BY <1>0, DeliverStep
  <2>2. QED
    BY <1>0, <1>1, <2>1, Delivered DEF Acked
<1> HIDE DEF c, p
<1>4. Place(c) = p
  BY <1>0, <1>3, PlaceOf DEF Queued, Place
<1>5. \A i, k : k \in 1 .. Len(toDevice) + 1 /\ Before(i, k) => Before(i, k)'
  BY <1>1, <1>2 DEF Before
<1>6. \A i : Ran(i)' = Ran(i)
  BY <1>1 DEF Ran
<1>7. \A i \in 1 .. p - 1 : Ran(i) \/ Before(i, Len(toDevice) + 1)
  BY <1>0, <1>3 DEF InTurn
<1>8. \A i \in 1 .. Acked' + taken' : Ran(i) \/ Before(i, Len(toDevice) + 1)'
  <2> SUFFICES ASSUME NEW i \in 1 .. p, ~ Ran(i) PROVE Before(i, Len(toDevice) + 1)'
    BY <1>3
  <2>1. CASE i = p
    <3>1. Len(toDevice) + 1 \in 1 .. Len(toDevice') /\ toDevice'[Len(toDevice) + 1] = order'[i]
      BY <1>1, <1>2, <1>3, <2>1
    <3>2. QED
      BY <1>2, <3>1 DEF Before
  <2>2. CASE i # p
    <3>1. Before(i, Len(toDevice) + 1)
      BY <1>3, <1>7, <2>2
    <3>2. PICK l \in 1 .. Len(toDevice) : toDevice[l] = order[i]
      BY <1>2, <3>1 DEF Before
    <3>3. l \in 1 .. Len(toDevice') /\ toDevice'[l] = order'[i]
      BY <1>1, <1>2, <3>2
    <3>4. QED
      BY <1>2, <3>3 DEF Before
  <2>3. QED
    BY <2>1, <2>2
<1>9. \A k \in 1 .. Len(toDevice'), i \in 1 .. Len(order) :
        i < Place(toDevice'[k]) => Ran(i) \/ Before(i, k)'
  <2> SUFFICES ASSUME NEW k \in 1 .. Len(toDevice'), NEW i \in 1 .. Len(order),
                      i < Place(toDevice'[k])
               PROVE  Ran(i) \/ Before(i, k)'
    OBVIOUS
  <2>1. CASE k = Len(toDevice) + 1
    <3>1. i \in 1 .. p - 1
      BY <1>2, <1>3, <1>4, <2>1
    <3>2. QED
      BY <1>2, <1>5, <1>7, <2>1, <3>1
  <2>2. CASE k # Len(toDevice) + 1
    <3>1. k \in 1 .. Len(toDevice) /\ toDevice'[k] = toDevice[k]
      BY <1>2, <2>2
    <3>2. Ran(i) \/ Before(i, k)
      BY <1>0, <3>1 DEF InTurn
    <3>3. QED
      BY <1>2, <1>5, <3>1, <3>2
  <2>3. QED
    BY <2>1, <2>2
<1>10. QED
  BY <1>0, <1>1, <1>6, <1>8, <1>9 DEF InTurn, Place, IsLevel, Value

LEMMA InTurnRuns ==
  ASSUME IInv, InTurn, SimulatedRuns
  PROVE  InTurn'
<1> SUFFICES ASSUME kind = "simulated", ~ dropped PROVE InTurn'
  BY DEF InTurn, SimulatedRuns, history
<1> DEFINE c == Head(toDevice)
           p == Place(c)
<1>0. TypeOK /\ Queued /\ Published /\ Remembers
  BY DEF IInv
<1>1. /\ toDevice # <<>> /\ toDevice' = Tail(toDevice)
      /\ UNCHANGED <<asked, kind, order, out, taken, dropped>>
      /\ Occurs(c, recent) => runs' = runs /\ level' = level
      /\ ~ Occurs(c, recent) => runs' = [runs EXCEPT ![c] = @ + 1] /\ level' = LevelAfter(c)
  BY DEF SimulatedRuns, table, client, history
<1>2. /\ c = toDevice[1] /\ c \in Commands /\ Len(toDevice) \in Nat \ {0}
      /\ Len(toDevice') = Len(toDevice) - 1
      /\ \A k \in 1 .. Len(toDevice') : toDevice'[k] = toDevice[k + 1]
  BY <1>0, <1>1, Shorter DEF TypeOK
<1> HIDE DEF c
<1>3. Occurs(c, order) /\ p \in 1 .. Len(order) /\ order[p] = c
  <2>1. Occurs(c, order)
    BY <1>0, <1>2 DEF Published, Reached
  <2>2. QED
    BY <2>1, PlaceIs DEF Place
<1> HIDE DEF p
<1>4. /\ \A i \in 1 .. Len(order) : order[i] \in Commands
      /\ \A i \in 1 .. Len(order) : order[i] = c => i = p
  <2>1. order \in Seq(Commands) /\ \A i, j \in 1 .. Len(order) : order[i] = order[j] => i = j
    BY <1>0 DEF Queued, TypeOK
  <2>2. QED
    BY <1>3, <2>1
\* What ran before still has, and the first command that waited has now.
<1>5. \A i \in 1 .. Len(order) : Ran(i)' <=> (Ran(i) \/ i = p)
  <2>1. CASE Occurs(c, recent)
    <3>1. Ran(p) /\ runs' = runs
      BY <1>0, <1>1, <1>3, <2>1 DEF Remembers, Occurs, Ran
    <3>2. QED
      BY <1>1, <3>1 DEF Ran
  <2>2. CASE ~ Occurs(c, recent)
    <3>1. runs \in [Commands -> Nat]
      BY <1>0 DEF TypeOK
    <3>2. Occurs(c, toDevice)
      BY <1>2 DEF Occurs
    <3>3. runs[c] # 1 /\ runs[c] <= 1
      BY <1>0, <1>2, <2>2, <3>2 DEF Remembers, Comes
    <3>4. runs'[c] = 1 /\ \A d \in Commands \ {c} : runs'[d] = runs[d]
      BY <1>1, <1>2, <2>2, <3>1, <3>3
    <3>5. QED
      BY <1>1, <1>3, <1>4, <3>4 DEF Ran
  <2>3. QED
    BY <2>1, <2>2
<1>6. \A i \in 1 .. Len(order) : i < p => Ran(i)
  <2> SUFFICES ASSUME NEW i \in 1 .. Len(order), i < p PROVE Ran(i)
    OBVIOUS
  <2>1. 1 \in 1 .. Len(toDevice) /\ i < Place(toDevice[1])
    BY <1>2 DEF p
  <2>2. Ran(i) \/ Before(i, 1)
    BY <2>1 DEF InTurn
  <2>3. QED
    BY <2>2 DEF Before
<1>7. \A i, j \in 1 .. Len(order) : Ran(i)' /\ j < i => Ran(j)'
  BY <1>5, <1>6 DEF InTurn
<1>8. ASSUME NEW i \in 1 .. Len(order), NEW k \in 1 .. Len(toDevice) + 1, Before(i, k)
      PROVE  Ran(i)' \/ \E l \in 1 .. k - 2 : toDevice'[l] = order[i]
  <2>1. PICK l \in 1 .. k - 1 : toDevice[l] = order[i]
    BY <1>8 DEF Before
  <2>2. CASE l = 1
    BY <1>2, <1>4, <1>5, <2>1, <2>2
  <2>3. CASE l # 1
    <3>1. l - 1 \in 1 .. k - 2 /\ toDevice'[l - 1] = order[i]
      BY <1>1, <1>2, <2>1, <2>3
    <3>2. QED
      BY <3>1
  <2>4. QED
    BY <2>2, <2>3
<1>9. \A i \in 1 .. Acked + taken : Ran(i)' \/ Before(i, Len(toDevice) + 1)'
  <2> SUFFICES ASSUME NEW i \in 1 .. Acked + taken
               PROVE  Ran(i)' \/ \E l \in 1 .. Len(toDevice') : toDevice'[l] = order[i]
    BY <1>1, <1>2 DEF Before
  <2>1. i \in 1 .. Len(order) /\ Len(toDevice) + 1 \in 1 .. Len(toDevice) + 1
    BY <1>0, <1>2, Delivered
  <2>2. Ran(i) \/ Before(i, Len(toDevice) + 1)
    BY DEF InTurn
  <2>3. CASE Ran(i)
    BY <1>5, <2>1, <2>3
  <2>4. CASE Before(i, Len(toDevice) + 1)
    <3>1. Ran(i)' \/ \E l \in 1 .. (Len(toDevice) + 1) - 2 : toDevice'[l] = order[i]
      BY <1>8, <2>1, <2>4
    <3>2. QED
      BY <1>2, <3>1
  <2>5. QED
    BY <2>2, <2>3, <2>4
<1>10. \A k \in 1 .. Len(toDevice'), i \in 1 .. Len(order) :
         i < Place(toDevice'[k]) => Ran(i)' \/ Before(i, k)'
  <2> SUFFICES ASSUME NEW k \in 1 .. Len(toDevice'), NEW i \in 1 .. Len(order),
                      i < Place(toDevice'[k])
               PROVE  Ran(i)' \/ Before(i, k)'
    OBVIOUS
  <2>1. k + 1 \in 1 .. Len(toDevice) /\ (k + 1) - 2 = k - 1 /\ toDevice'[k] = toDevice[k + 1]
    BY <1>2
  <2>2. Ran(i) \/ Before(i, k + 1)
    BY <2>1 DEF InTurn
  <2>3. CASE Ran(i)
    BY <1>5, <2>3
  <2>4. CASE Before(i, k + 1)
    <3>1. Ran(i)' \/ \E l \in 1 .. (k + 1) - 2 : toDevice'[l] = order[i]
      BY <1>2, <1>8, <2>1, <2>4
    <3>2. QED
      BY <1>1, <2>1, <3>1 DEF Before
  <2>5. QED
    BY <2>2, <2>3, <2>4
<1>11. ASSUME NEW i \in 1 .. Len(order), Ran(i)', IsLevel(order[i]),
              \A j \in 1 .. Len(order) : Ran(j)' /\ IsLevel(order[j]) => j <= i
       PROVE  level' = Value(order[i])
  <2>1. CASE Occurs(c, recent)
    <3>1. Ran(p) /\ level' = level
      BY <1>0, <1>1, <1>3, <2>1 DEF Remembers, Occurs, Ran
    <3>2. QED
      BY <1>5, <1>11, <3>1 DEF InTurn
  <2>2. CASE ~ Occurs(c, recent)
    <3>1. level' = IF IsLevel(c) THEN Value(c) ELSE level
      BY <1>1, <2>2 DEF LevelAfter, IsLevel, Value
    <3>2. CASE i = p
      BY <1>3, <1>11, <3>1, <3>2
    <3>3. CASE i # p
      <4>1. ~ Ran(p)
        <5>1. runs[c] # 1
          <6>1. Occurs(c, toDevice)
            BY <1>2 DEF Occurs
          <6>2. QED
            BY <1>0, <1>2, <2>2, <6>1 DEF Remembers, Comes
        <5>2. QED
          BY <1>3, <5>1 DEF Ran
      <4>2. Ran(i) /\ i < p
        <5>1. Ran(i)
          BY <1>5, <1>11, <3>3
        <5>2. ~ p < i
          BY <1>3, <4>1, <5>1 DEF InTurn
        <5>3. QED
          BY <1>3, <3>3, <5>1, <5>2
      <4>3. ~ IsLevel(c)
        BY <1>3, <1>5, <1>11, <4>2
      <4>4. level = Value(order[i])
        BY <1>5, <1>11, <4>2 DEF InTurn
      <4>5. QED
        BY <3>1, <4>3, <4>4
    <3>4. QED
      BY <3>2, <3>3
  <2>3. QED
    BY <2>1, <2>2
<1>12. QED
  BY <1>1, <1>7, <1>9, <1>10, <1>11 DEF InTurn, Place, IsLevel, Value, Acked

LEMMA NextSInv == SInv /\ [Next]_vars => SInv'
<1> SUFFICES ASSUME SInv, [Next]_vars PROVE SInv'
  OBVIOUS
<1>0. IInv /\ IInv' /\ Settling /\ InTurn
  BY NextIInv DEF SInv
<1>1. /\ TypeOK /\ Queued /\ TypeOK' /\ Queued' /\ order \in Seq(Commands)
      /\ order' \in Seq(Commands) /\ Acked + taken \in Int
      /\ UNCHANGED order => Extended
  <2>1. TypeOK /\ Queued /\ TypeOK' /\ Queued'
    BY <1>0 DEF IInv
  <2>2. order \in Seq(Commands) /\ order' \in Seq(Commands)
    BY <2>1 DEF TypeOK
  <2>3. QED
    BY <2>1, <2>2, Delivered DEF Extended
<1>2. CASE \E c \in Commands : Publish(c)
  <2>1. PICK c \in Commands : Publish(c)
    BY <1>2
  <2>2. /\ order' = Append(order, c) /\ out' = Append(out, c)
        /\ UNCHANGED <<asked, kind, taken, toDevice, level, dropped>>
    BY <2>1 DEF Publish, table, device
  <2>3. Extended /\ Acked' + taken' = Acked + taken
    BY <1>1, <2>2, Longer DEF Extended, Acked, TypeOK
  <2>4. Settling'
    BY <1>0, <1>1, <2>2, <2>3, SettlingStays
  <2>5. QED
    BY <1>0, <1>1, <2>1, <2>4, InTurnPublish DEF SInv
<1>3. CASE LoseLink \/ StopService \/ Acknowledge \/ LoseSession \/ UNCHANGED flow
  <2>1. UNCHANGED <<asked, kind, order, runs, level>> /\ (~ dropped' => ~ dropped)
    <3>1. CASE LoseLink
      BY <3>1 DEF LoseLink, table, device
    <3>2. CASE StopService
      BY <3>2 DEF StopService, table, device
    <3>3. CASE Acknowledge
      BY <3>3 DEF Acknowledge, table, device, history
    <3>4. CASE LoseSession
      BY <3>4 DEF LoseSession, table, client
    <3>5. CASE UNCHANGED flow
      BY <3>5 DEF flow
    <3>6. QED
      BY <1>3, <3>1, <3>2, <3>3, <3>4, <3>5
  <2>2. CASE dropped'
    BY <1>0, <2>2 DEF SInv, Settling, InTurn
  <2>3. CASE ~ dropped'
    <3>1. toDevice' = toDevice
      BY <1>3, <2>3 DEF LoseLink, StopService, Acknowledge, LoseSession, flow, device
    <3>2. Acked' + taken' \in Int /\ Acked' + taken' <= Acked + taken
      <4>1. CASE LoseLink
        BY <1>1, <4>1, Delivered DEF LoseLink, Acked
      <4>2. CASE StopService
        <5>1. out = <<>> /\ out' = <<>> /\ taken' = 0 /\ Len(<<>>) = 0
          BY <2>3, <4>2 DEF StopService
        <5>2. QED
          BY <1>1, <2>1, <5>1, Delivered DEF Acked
      <4>3. CASE Acknowledge
        <5>1. Acked' = Acked + 1 /\ taken' = taken - 1
          BY <1>1, <4>3, QueuedAcknowledge DEF Acknowledge
        <5>2. QED
          BY <1>1, <5>1, Delivered
      <4>4. CASE LoseSession \/ UNCHANGED flow
        BY <1>1, <4>4 DEF LoseSession, client, flow, Acked
      <4>5. QED
        BY <1>3, <4>1, <4>2, <4>3, <4>4
    <3>3. Settling' /\ InTurn'
      BY <1>0, <1>1, <2>1, <3>1, <3>2, SettlingStays, InTurnStays
    <3>4. QED
      BY <1>0, <3>3 DEF SInv
  <2>4. QED
    BY <2>2, <2>3
<1>4. CASE Deliver
  BY <1>0, <1>1, <1>4, SettlingDelivered, InTurnDelivered DEF SInv
<1>5. CASE SimulatedRuns
  <2>1. Settling'
    BY <1>5 DEF SimulatedRuns, Settling
  <2>2. QED
    BY <1>0, <1>5, <2>1, InTurnRuns DEF SInv
<1>6. CASE DemoRuns \/ BoardRuns
  <2>1. InTurn'
    BY <1>6 DEF DemoRuns, BoardRuns, InTurn
  <2>2. QED
    BY <1>0, <1>1, <1>6, <2>1, SettlingRuns DEF SInv
<1>7. CASE BoardRestarts
  BY <1>0, <1>7 DEF BoardRestarts, SInv, Settling, InTurn
<1>8. QED
  BY <1>2, <1>3, <1>4, <1>5, <1>6, <1>7, Cases

\* Once everything published has been acknowledged and carried out, and unless
\* something was dropped on its way, the device has the level of the command
\* published last: commands sent again are all sent again in order, or remembered.
THEOREM SettlesLatest == Spec => []SettlesOnLatest
<1>1. Init => SInv
  <2> SUFFICES ASSUME Init PROVE SInv
    OBVIOUS
  <2>1. Len(<<>>) = 0 /\ Acked + taken = 0
    BY DEF Init, Acked
  <2>2. QED
    BY <2>1, InitIInv DEF SInv, Init, Settling, InTurn
<1>2. SInv => SettlesOnLatest
  <2> SUFFICES ASSUME SInv, out = <<>>, toDevice = <<>>, ~ dropped, NEW i \in 1 .. Len(order),
                      IsLevel(order[i]), \A j \in 1 .. Len(order) : IsLevel(order[j]) => j <= i
               PROVE  level = Value(order[i])
    BY DEF SettlesOnLatest, IsLevel, Value
  <2>1. TypeOK /\ Queued /\ Settling /\ InTurn
    BY DEF SInv, IInv
  <2>2. Len(<<>>) = 0 /\ Acked + taken = Len(order)
    BY <2>1, Delivered
  <2>3. LastLevel(i)
    BY DEF LastLevel
  <2>4. CASE kind # "simulated"
    <3>1. LastInQueue(i)
      BY <2>1, <2>2, <2>3, <2>4 DEF Settling
    <3>2. QED
      BY <2>2, <3>1 DEF LastInQueue
  <2>5. CASE kind = "simulated"
    <3>1. \A j \in 1 .. Len(order) : Ran(j)
      BY <2>1, <2>2, <2>5 DEF InTurn, Before
    <3>2. QED
      BY <2>1, <2>5, <3>1 DEF InTurn
  <2>6. QED
    BY <2>4, <2>5
<1>3. QED
  BY <1>1, <1>2, NextSInv, PTL DEF Spec

=============================================================================
