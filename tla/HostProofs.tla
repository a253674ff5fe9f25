----------------------------- MODULE HostProofs -----------------------------
(***************************************************************************)
(* Theorems about what runs on the host beside the servers: Installation,  *)
(* for any number of addresses, killed runs and forced runs, whole files   *)
(* or torn ones; PlatformStart, for any launchers, processes and drawn     *)
(* tokens; and CrlBroker, for any certificates and crashes.                *)
(***************************************************************************)
EXTENDS Installation, MCPlatformStart, CrlBroker, SequenceTheorems, TLAPS

-----------------------------------------------------------------------------
(* The tasks of a run.  "own" identities are those no certificate of a     *)
(* service carries: the internal MQTT clients and the time signing key.    *)

Own == Internal \cup {"time"}
Plain == {"crl", "newEnv", "dropDb", "initialized", "load", "services", "endpoint",
          "rotate", "up"}
Tasks ==
  UNION {[op : {"key", "cert"}, of : Pairs], [op : {"drop"}, of : Pairs \cup {"crl"}],
         [op : {"time"}, of : {"time"}], [op : {"internal"}, of : Internal],
         [op : Plain, of : {"crl", "env", "db", "ca", "up"}]}

\* Some task of the list is an op, or about p.
Some(s, op) == \E i \in 1 .. Len(s) : s[i].op = op
About(s, p) == \E i \in 1 .. Len(s) : s[i].of = p
In(s, t) == \E i \in 1 .. Len(s) : s[i] = t
Has(t) == In(todo, t)

KeyCa == Task("key", "ca")

\* What a run removes comes first, then a new CA; a key is followed by its
\* certificate; an own identity is written at once; the start comes last.
Ordered(s) ==
  /\ s \in Seq(Tasks)
  /\ \A i \in 1 .. Len(s) :
       /\ s[i].op = "key" => i < Len(s) /\ s[i + 1] = Task("cert", s[i].of)
       /\ s[i].op = "key" /\ s[i].of \in Own => i = 1
       /\ s[i].op = "cert" => i = 1 \/ s[i - 1] = Task("key", s[i].of)
       /\ s[i].op = "up" => i = Len(s)
  /\ \A i, j \in 1 .. Len(s) : j < i =>
       /\ s[i].op = "drop" => s[j].op = "drop"
       /\ s[i].op = "dropDb" => s[j].op = "drop"
       /\ s[i] = KeyCa => s[j].op \in {"drop", "dropDb"}
  /\ \A i, j \in 1 .. Len(s) : s[i].op = "drop" => s[j].op # "up"

\* A certificate fits the key beside it, and the CA's unless it was there before.
Missing(p) == key[p] = None /\ cert[p] = None
Sound(p) ==
  Whole(cert[p]) =>
    /\ Whole(key[p]) => cert[p].key = key[p]
    /\ p \in Internal \ left /\ Whole(key["ca"]) => cert[p].issuer = key["ca"]
OwnSound == \A p \in Own : Sound(p)

CaSound ==
  Whole(cert["ca"]) /\ Whole(key["ca"]) /\ "ca" \notin left => cert["ca"].key = key["ca"]

\* Where nothing was killed and every removal done, the certificates under a CA
\* are removed before another is made.
Untouched == crashes = 0 /\ failures = 0
Gone(p) == cert[p] = None \/ Has(Task("drop", p))
Outlived ==
  Untouched =>
    /\ left = {}
    /\ key["ca"] = None \/ Has(KeyCa) \/ Some(todo, "drop") =>
         \A p \in MayOutlive : Gone(p)

\* The next task is about an own identity.
Writing ==
  todo # <<>> =>
    /\ todo[1].op = "key" /\ todo[1].of \in Own => Missing(todo[1].of)
    /\ todo[1].op = "cert" => Whole(key[todo[1].of])

AboutOwn(t) == t.op \in {"time", "internal"} \/ (t.op \in {"key", "cert"} /\ t.of \in Own)
CaBefore(i) == \E j \in 1 .. Len(todo) : j < i /\ todo[j] \in {KeyCa, Task("initialized", "ca")}
CaFirst ==
  \A i \in 1 .. Len(todo) :
    AboutOwn(todo[i]) => CaBefore(i) \/ (key["ca"] # None /\ ~Some(todo, "drop"))

Serving ==
  /\ env.ip = ip \/ Some(todo, "endpoint")
  /\ \A p \in Services : (Whole(cert[p]) => cert[p].ip = ip) \/ Has(Task("cert", p))
Starting ==
  Some(todo, "up") =>
    /\ cert["time"] # None \/ About(todo, "time")
    /\ Whole(key["ca"]) \/ Some(todo, "load")
    /\ Some(todo, "services") \/ Serving

Started ==
  up => /\ todo = <<>> /\ StackHealthy /\ cert["time"] # None /\ Whole(key["ca"])
        /\ env.ip = ip /\ \A p \in Services : cert[p].ip = ip

Types ==
  /\ key \in [Pairs -> Keys] /\ cert \in [Pairs -> Certificates] /\ crl \in Keys
  /\ env \in [exists : BOOLEAN, master : Keys, ip : Ips \union {None}]
  /\ db \in Keys /\ ip \in Ips /\ up \in BOOLEAN
  /\ left \subseteq MayOutlive /\ crashes \in Nat /\ failures \in Nat

IInv ==
  /\ Types /\ Ordered(todo)
  /\ CaSound /\ Writing /\ OwnSound /\ Outlived /\ CaFirst /\ Starting /\ Started


\* A list of tasks that removes nothing and writes no own identity but through a
\* task that checks it.
Calm(s) ==
  /\ s \in Seq(Tasks)
  /\ \A i \in 1 .. Len(s) :
       /\ s[i].op = "key" => i < Len(s) /\ s[i + 1] = Task("cert", s[i].of)
       /\ s[i].op = "cert" => i > 1 /\ s[i - 1] = Task("key", s[i].of)
       /\ s[i].op \in {"key", "cert"} => s[i].of \notin Own
       /\ s[i].op \notin {"drop", "dropDb"}
       /\ s[i] = KeyCa => i = 1
       /\ s[i].op = "up" => i = Len(s)
Without(s, op) == \A i \in 1 .. Len(s) : s[i].op # op
WithoutCa(s) == \A i \in 1 .. Len(s) : s[i] # KeyCa

\* Sequences of tasks put together.
LEMMA Concat ==
  ASSUME NEW s \in Seq(Tasks), NEW t \in Seq(Tasks)
  PROVE  /\ s \o t \in Seq(Tasks) /\ Len(s \o t) = Len(s) + Len(t)
         /\ Len(s) \in Nat /\ Len(t) \in Nat
         /\ \A i \in 1 .. Len(s) : (s \o t)[i] = s[i]
         /\ \A i \in 1 .. Len(s) + Len(t) : i > Len(s) =>
              i - Len(s) \in 1 .. Len(t) /\ (s \o t)[i] = t[i - Len(s)]
<1>1. Len(s) \in Nat /\ Len(t) \in Nat
  OBVIOUS
<1>2. /\ s \o t \in Seq(Tasks) /\ Len(s \o t) = Len(s) + Len(t)
      /\ \A i \in 1 .. Len(s) + Len(t) :
           (s \o t)[i] = IF i <= Len(s) THEN s[i] ELSE t[i - Len(s)]
  BY ConcatProperties
<1> DEFINE m == Len(s)
           n == Len(t)
           c == s \o t
<1> HIDE DEF m, n, c
<1>3. \A i \in 1 .. m : c[i] = s[i]
  BY <1>1, <1>2 DEF m, n, c
<1>4. \A i \in 1 .. m + n : i > m => i - m \in 1 .. n /\ c[i] = t[i - m]
  BY <1>1, <1>2 DEF m, n, c
<1> QED
  BY <1>1, <1>2, <1>3, <1>4 DEF m, n, c

Joins(c, s, t) == c = s \o t
Starts(c, s) == \A i \in 1 .. Len(s) : c[i] = s[i]
Ends(c, s, t) ==
  \A i \in 1 .. Len(s) + Len(t) :
    i > Len(s) => i - Len(s) \in 1 .. Len(t) /\ c[i] = t[i - Len(s)]

\* The same, of a list that goes by a name: a closed step for a list built of parts.
LEMMA Joined ==
  ASSUME NEW s \in Seq(Tasks), NEW t \in Seq(Tasks), NEW c, Joins(c, s, t)
  PROVE  c \in Seq(Tasks) /\ Len(c) = Len(s) + Len(t) /\ Starts(c, s) /\ Ends(c, s, t)
<1> DEFINE d == s \o t
<1>1. /\ d \in Seq(Tasks) /\ Len(d) = Len(s) + Len(t)
      /\ \A i \in 1 .. Len(s) : d[i] = s[i]
      /\ \A i \in 1 .. Len(s) + Len(t) : i > Len(s) =>
              i - Len(s) \in 1 .. Len(t) /\ d[i] = t[i - Len(s)]
  BY Concat
<1>2. c = d
  BY DEF Joins
<1> HIDE DEF d
<1> QED
  BY <1>1, <1>2 DEF Starts, Ends

\* Two calm lists make one, if a start ends the second only and a new CA begins
\* the first only.
LEMMA CalmConcat ==
  ASSUME NEW s, NEW t, Calm(s), Calm(t), Without(s, "up"), WithoutCa(t)
  PROVE  Calm(s \o t) /\ (Without(t, "up") => Without(s \o t, "up"))
<1>1. s \in Seq(Tasks) /\ t \in Seq(Tasks)
  BY DEF Calm
<1> DEFINE m == Len(s)
           n == Len(t)
           c == s \o t
<1>2. /\ c \in Seq(Tasks) /\ Len(c) = m + n /\ m \in Nat /\ n \in Nat
      /\ \A i \in 1 .. m : c[i] = s[i]
      /\ \A i \in 1 .. m + n : i > m => i - m \in 1 .. n /\ c[i] = t[i - m]
  BY <1>1, Concat
<1> HIDE DEF c
<1>3. ASSUME NEW i \in 1 .. Len(c)
      PROVE  /\ c[i].op = "key" => i < Len(c) /\ c[i + 1] = Task("cert", c[i].of)
             /\ c[i].op = "cert" => i > 1 /\ c[i - 1] = Task("key", c[i].of)
             /\ c[i].op \in {"key", "cert"} => c[i].of \notin Own
             /\ c[i].op \notin {"drop", "dropDb"}
             /\ c[i] = KeyCa => i = 1
             /\ c[i].op = "up" => i = Len(c) /\ ~Without(t, "up")
  <2>1. CASE i <= m
    <3>1. /\ i \in 1 .. Len(s) /\ c[i] = s[i]
          /\ (i < m => c[i + 1] = s[i + 1]) /\ (i > 1 => c[i - 1] = s[i - 1])
      BY <1>2, <2>1
    <3> QED
      BY <1>2, <3>1 DEF Calm, Without
  <2>2. CASE i > m
    <3>1. i - m \in 1 .. Len(t) /\ c[i] = t[i - m]
      BY <1>2, <2>2
    <3>2. i < m + n => c[i + 1] = t[i - m + 1]
      BY <1>2, <2>2
    <3>5. i > m + 1 => c[i - 1] = t[(i - m) - 1]
      <4> SUFFICES ASSUME i > m + 1 PROVE c[i - 1] = t[(i - m) - 1]
        OBVIOUS
      <4>1. i - 1 \in 1 .. m + n /\ i - 1 > m /\ (i - 1) - m = (i - m) - 1
        BY <1>2
      <4> QED
        BY <1>2, <4>1
    <3>6. t[i - m].op = "cert" => i > m + 1 /\ t[(i - m) - 1] = Task("key", t[i - m].of)
      BY <1>2, <2>2, <3>1 DEF Calm
    <3>3. t[i - m].op = "key" => i < m + n /\ t[i - m + 1] = Task("cert", t[i - m].of)
      BY <1>2, <3>1 DEF Calm
    <3>4. /\ t[i - m].op \in {"key", "cert"} => t[i - m].of \notin Own
          /\ t[i - m].op \notin {"drop", "dropDb"} /\ t[i - m] # KeyCa
          /\ t[i - m].op = "up" => i = m + n /\ ~Without(t, "up")
      BY <1>2, <3>1 DEF Calm, Without, WithoutCa
    <3> QED
      BY <1>2, <3>1, <3>2, <3>3, <3>4, <3>5, <3>6
  <2> QED
    BY <1>2, <2>1, <2>2
<1>4. Calm(c)
  BY <1>2, <1>3 DEF Calm
<1>5. Without(t, "up") => Without(c, "up")
  BY <1>3 DEF Without
<1> QED
  BY <1>4, <1>5 DEF c

\* The parts of the runs of setup.py and start_platform.py are calm.
LEMMA Chunks ==
  /\ \A p \in Services \cup {"ca"} : Calm(Pair(p)) /\ Without(Pair(p), "up") /\ Len(Pair(p)) = 2
  /\ \A p \in Services : WithoutCa(Pair(p))
  /\ LET s == <<Task("time", "time")>> IN
       Calm(s) /\ Without(s, "up") /\ WithoutCa(s)
  /\ Calm(InternalTasks) /\ Without(InternalTasks, "up") /\ WithoutCa(InternalTasks)
  /\ LET s == <<Task("crl", "crl"), Task("newEnv", "env")>> IN
       Calm(s) /\ Without(s, "up") /\ WithoutCa(s)
  /\ LET s == <<Task("initialized", "ca"), Task("time", "time"), Task("load", "ca")>> IN
       Calm(s) /\ Without(s, "up") /\ WithoutCa(s)
  /\ LET s == <<Task("services", "env")>> IN
       Calm(s) /\ Without(s, "up") /\ WithoutCa(s)
  /\ Calm(Launch) /\ WithoutCa(Launch)
<1> USE DEF Calm, Without, WithoutCa, Task, KeyCa, Tasks, Plain, Own, Internal, Services,
      Pairs, Signed, Pair
<1>1. ASSUME NEW p \in Services \cup {"ca"}
      PROVE  Calm(Pair(p)) /\ Without(Pair(p), "up") /\ Len(Pair(p)) = 2
  OBVIOUS
<1>2. \A p \in Services : WithoutCa(Pair(p))
  OBVIOUS
<1>3. LET s == <<Task("time", "time")>> IN Calm(s) /\ Without(s, "up") /\ WithoutCa(s)
  OBVIOUS
<1>4. Calm(InternalTasks) /\ Without(InternalTasks, "up") /\ WithoutCa(InternalTasks)
  BY DEF InternalTasks
<1>5. LET s == <<Task("crl", "crl"), Task("newEnv", "env")>> IN
       Calm(s) /\ Without(s, "up") /\ WithoutCa(s)
  OBVIOUS
<1>6. LET s == <<Task("initialized", "ca"), Task("time", "time"), Task("load", "ca")>> IN
       Calm(s) /\ Without(s, "up") /\ WithoutCa(s)
  OBVIOUS
<1>7. LET s == <<Task("services", "env")>> IN
       Calm(s) /\ Without(s, "up") /\ WithoutCa(s)
  OBVIOUS
<1>8. Calm(Launch) /\ WithoutCa(Launch)
  BY DEF Launch
<1> QED
  BY <1>1, <1>2, <1>3, <1>4, <1>5, <1>6, <1>7, <1>8

LEMMA CalmIsOrdered == ASSUME NEW s, Calm(s) PROVE Ordered(s)
<1>1. ASSUME NEW i \in 1 .. Len(s)
      PROVE  /\ s[i].op = "key" => i < Len(s) /\ s[i + 1] = Task("cert", s[i].of)
             /\ s[i].op = "cert" => s[i - 1] = Task("key", s[i].of)
             /\ ~(s[i].op = "key" /\ s[i].of \in Own)
             /\ s[i].op \notin {"drop", "dropDb"}
             /\ \A j \in 1 .. Len(s) : j < i => s[i] # KeyCa
             /\ s[i].op = "up" => i = Len(s)
  BY DEF Calm
<1> QED
  BY <1>1 DEF Calm, Ordered

\* A first element stays first, and what is in a list is in the longer one.
LEMMA Inside ==
  ASSUME NEW s \in Seq(Tasks), NEW t \in Seq(Tasks)
  PROVE  /\ s # <<>> => s \o t # <<>> /\ (s \o t)[1] = s[1]
         /\ \A i \in 1 .. Len(s) : \E k \in 1 .. Len(s \o t) : (s \o t)[k] = s[i]
         /\ \A i \in 1 .. Len(t) : \E k \in 1 .. Len(s \o t) : (s \o t)[k] = t[i]
<1>1. s # <<>> => s \o t # <<>> /\ (s \o t)[1] = s[1]
  <2> SUFFICES ASSUME s # <<>> PROVE s \o t # <<>> /\ (s \o t)[1] = s[1]
    OBVIOUS
  <2>1. 1 \in 1 .. Len(s)
    OBVIOUS
  <2>2. (s \o t)[1] = s[1] /\ s \o t # <<>>
    BY <2>1, Concat, ConcatEqualIffEmpty
  <2> QED
    BY <2>2
<1>2. \A i \in 1 .. Len(s) : i \in 1 .. Len(s \o t) /\ (s \o t)[i] = s[i]
  BY Concat
<1>3. ASSUME NEW i \in 1 .. Len(t) PROVE \E k \in 1 .. Len(s \o t) : (s \o t)[k] = t[i]
  <2>1. Len(s) + i \in 1 .. Len(s) + Len(t) /\ Len(s) + i > Len(s) /\ (Len(s) + i) - Len(s) = i
    BY Concat
  <2>2. (s \o t)[Len(s) + i] = t[i] /\ Len(s) + i \in 1 .. Len(s \o t)
    BY <2>1, Concat
  <2> QED
    BY <2>2
<1> QED
  BY <1>1, <1>2, <1>3

LEMMA InsideSome ==
  ASSUME NEW s \in Seq(Tasks), NEW t \in Seq(Tasks)
  PROVE  /\ \A op : Some(s, op) \/ Some(t, op) => Some(s \o t, op)
         /\ \A p : About(s, p) \/ About(t, p) => About(s \o t, p)
<1> DEFINE c == s \o t
<1>1. /\ \A i \in 1 .. Len(s) : \E k \in 1 .. Len(c) : c[k] = s[i]
      /\ \A i \in 1 .. Len(t) : \E k \in 1 .. Len(c) : c[k] = t[i]
  BY Inside
<1> HIDE DEF c
<1>2. \A op : Some(s, op) \/ Some(t, op) => Some(c, op)
  BY <1>1, Zenon DEF Some
<1>3. \A p : About(s, p) \/ About(t, p) => About(c, p)
  BY <1>1, Zenon DEF About
<1> QED
  BY <1>2, <1>3 DEF c

\* A calm list in front of another decides the first task.
LEMMA Lead ==
  ASSUME NEW s, NEW t, Calm(s), Without(s, "up"), s # <<>>, Calm(t), WithoutCa(t)
  PROVE  /\ Calm(s \o t) /\ (Without(t, "up") => Without(s \o t, "up"))
         /\ s \o t # <<>> /\ (s \o t)[1] = s[1]
<1>1. Calm(s \o t) /\ (Without(t, "up") => Without(s \o t, "up"))
  BY CalmConcat
<1>2. s \in Seq(Tasks) /\ t \in Seq(Tasks)
  BY DEF Calm
<1>3. s \o t # <<>> /\ (s \o t)[1] = s[1]
  BY <1>2, Inside
<1> QED
  BY <1>1, <1>3

\* setup.py on a fresh host: it begins with the key of the CA.
LEMMA FirstRunIs ==
  /\ Calm(FirstRun) /\ Without(FirstRun, "up")
  /\ FirstRun # <<>> /\ FirstRun[1] = KeyCa
<1> DEFINE a == Pair("ca")
           b == <<Task("time", "time")>>
           d == <<Task("crl", "crl"), Task("newEnv", "env")>>
           s == Pair("api") \o Pair("broker")
<1>0. "ca" \in Services \cup {"ca"} /\ "api" \in Services /\ "broker" \in Services
  BY DEF Services
<1>1. /\ Calm(a) /\ Without(a, "up") /\ Calm(b) /\ Without(b, "up") /\ WithoutCa(b)
      /\ Calm(InternalTasks) /\ Without(InternalTasks, "up") /\ WithoutCa(InternalTasks)
      /\ Calm(d) /\ Without(d, "up") /\ WithoutCa(d)
  BY <1>0, Chunks
<1>2. Calm(s) /\ Without(s, "up") /\ WithoutCa(s)
  <2>1. Calm(s) /\ Without(s, "up")
    BY <1>0, Chunks, CalmConcat
  <2>2. Pair("api") \in Seq(Tasks) /\ Pair("broker") \in Seq(Tasks)
    BY <1>0, Chunks DEF Calm
  <2>3. WithoutCa(s)
    BY <1>0, <2>2, Chunks, Concat DEF WithoutCa
  <2> QED
    BY <2>1, <2>3
<1>3. a # <<>> /\ a[1] = KeyCa
  BY DEF Pair, KeyCa
<1> HIDE DEF a, b, d, s
<1>4. Calm(a \o b) /\ Without(a \o b, "up") /\ a \o b # <<>> /\ (a \o b)[1] = KeyCa
  BY <1>1, <1>3, Lead
<1>5. /\ Calm(a \o b \o s) /\ Without(a \o b \o s, "up")
      /\ a \o b \o s # <<>> /\ (a \o b \o s)[1] = KeyCa
  <2> DEFINE x == a \o b
  <2>1. Calm(x) /\ Without(x, "up") /\ x # <<>> /\ x[1] = KeyCa
    BY <1>4
  <2> HIDE DEF x
  <2>2. Calm(x \o s) /\ Without(x \o s, "up") /\ x \o s # <<>> /\ (x \o s)[1] = KeyCa
    BY <1>2, <2>1, Lead
  <2> QED
    BY <2>2 DEF x
<1>6. /\ Calm(a \o b \o s \o InternalTasks) /\ Without(a \o b \o s \o InternalTasks, "up")
      /\ a \o b \o s \o InternalTasks # <<>> /\ (a \o b \o s \o InternalTasks)[1] = KeyCa
  <2> DEFINE x == a \o b \o s
  <2>1. Calm(x) /\ Without(x, "up") /\ x # <<>> /\ x[1] = KeyCa
    BY <1>5
  <2> HIDE DEF x
  <2>2. /\ Calm(x \o InternalTasks) /\ Without(x \o InternalTasks, "up")
        /\ x \o InternalTasks # <<>> /\ (x \o InternalTasks)[1] = KeyCa
    BY <1>1, <2>1, Lead
  <2> QED
    BY <2>2 DEF x
<1>7. FirstRun = a \o b \o s \o InternalTasks \o d
  BY DEF FirstRun, ServiceTasks, a, b, s, d
<1> DEFINE y == a \o b \o s \o InternalTasks
<1>8. Calm(y) /\ Without(y, "up") /\ y # <<>> /\ y[1] = KeyCa /\ FirstRun = y \o d
  BY <1>6, <1>7
<1> HIDE DEF y
<1> QED
  BY <1>1, <1>8, Lead

\* The lists a start begins with.
Synchronize == SyncNetwork \o Launch
Everything == FirstRun \o SyncNetwork \o Launch

\* start_platform.py, on a complete installation or a fresh host: it checks the
\* time key and the certificates of the services before it starts anything.
LEMMA StartIs ==
  ASSUME NEW s \in {Synchronize, Everything}
  PROVE  /\ Calm(s) /\ s # <<>> /\ s[1] \in {KeyCa, Task("initialized", "ca")}
         /\ (s = Synchronize => WithoutCa(s))
         /\ Some(s, "services") /\ Some(s, "load")
         /\ About(s, "time")
<1> DEFINE a == <<Task("initialized", "ca"), Task("time", "time"), Task("load", "ca")>>
           d == <<Task("services", "env")>>
           x == a \o InternalTasks
<1>1. /\ Calm(a) /\ Without(a, "up") /\ WithoutCa(a)
      /\ Calm(InternalTasks) /\ Without(InternalTasks, "up") /\ WithoutCa(InternalTasks)
      /\ Calm(d) /\ Without(d, "up") /\ WithoutCa(d)
  BY Chunks
<1>2. /\ a # <<>> /\ a[1] = Task("initialized", "ca") /\ About(a, "time") /\ Some(d, "services")
      /\ Some(a, "load")
  <2>1. /\ 2 \in 1 .. Len(a) /\ a[2].of = "time" /\ 1 \in 1 .. Len(d) /\ d[1].op = "services"
        /\ 3 \in 1 .. Len(a) /\ a[3].op = "load"
    BY DEF Task
  <2>2. About(a, "time") /\ Some(d, "services") /\ Some(a, "load")
    BY <2>1 DEF About, Some
  <2> QED
    BY <2>2 DEF Task
<1>3. SyncNetwork = x \o d
  BY DEF SyncNetwork
<1> HIDE DEF a, d
<1>4. Calm(x) /\ Without(x, "up") /\ x # <<>> /\ x[1] = Task("initialized", "ca")
  BY <1>1, <1>2, Lead
<1>5. WithoutCa(x) /\ About(x, "time") /\ Some(x, "load")
  <2>1. a \in Seq(Tasks) /\ InternalTasks \in Seq(Tasks)
    BY <1>1 DEF Calm
  <2>2. WithoutCa(x)
    BY <1>1, <2>1, Concat DEF WithoutCa
  <2>3. About(x, "time") /\ Some(x, "load")
    BY <1>2, <2>1, InsideSome
  <2> QED
    BY <2>2, <2>3
<1> HIDE DEF x
<1>6. /\ Calm(SyncNetwork) /\ Without(SyncNetwork, "up") /\ SyncNetwork # <<>>
      /\ SyncNetwork[1] = Task("initialized", "ca")
  BY <1>1, <1>3, <1>4, Lead
<1>7. /\ WithoutCa(SyncNetwork)
      /\ About(SyncNetwork, "time")
      /\ Some(SyncNetwork, "services") /\ Some(SyncNetwork, "load")
  <2>1. x \in Seq(Tasks) /\ d \in Seq(Tasks)
    BY <1>1, <1>4 DEF Calm
  <2>2. WithoutCa(SyncNetwork)
    BY <1>1, <1>3, <1>5, <2>1, Concat DEF WithoutCa
  <2> QED
    BY <1>2, <1>3, <1>5, <2>1, <2>2, InsideSome
<1>8. Calm(Launch) /\ WithoutCa(Launch)
  BY Chunks
<1>9. SyncNetwork \in Seq(Tasks) /\ Launch \in Seq(Tasks) /\ FirstRun \in Seq(Tasks)
  BY <1>6, <1>8, FirstRunIs DEF Calm
<1>10. CASE s = Synchronize
  <2>1. Calm(s) /\ s # <<>> /\ s[1] = Task("initialized", "ca")
    BY <1>6, <1>8, <1>10, Lead DEF Synchronize
  <2>2. WithoutCa(s)
    BY <1>7, <1>8, <1>9, <1>10, Concat DEF WithoutCa, Synchronize
  <2> QED
    BY <1>7, <1>9, <1>10, <2>1, <2>2, InsideSome DEF Synchronize
<1>11. CASE s = Everything
  <2> DEFINE f == FirstRun \o SyncNetwork
  <2>1. Calm(f) /\ Without(f, "up") /\ f # <<>> /\ f[1] = KeyCa
    BY <1>6, <1>7, FirstRunIs, Lead
  <2>2. /\ About(f, "time")
        /\ Some(f, "services") /\ Some(f, "load")
    BY <1>7, <1>9, InsideSome
  <2>3. s = f \o Launch
    BY <1>11 DEF Everything
  <2> HIDE DEF f
  <2>4. Calm(s) /\ s # <<>> /\ s[1] = KeyCa
    BY <1>8, <2>1, <2>3, Lead
  <2>5. f \in Seq(Tasks)
    BY <2>1 DEF Calm
  <2>6. /\ About(s, "time")
        /\ Some(s, "services") /\ Some(s, "load")
    BY <1>9, <2>2, <2>3, <2>5, InsideSome
  <2>7. s = Synchronize => WithoutCa(s)
    <3>1. s = Synchronize => s[1] = Task("initialized", "ca")
      BY <1>6, <1>8, Lead DEF Synchronize
    <3> QED
      BY <2>4, <3>1 DEF KeyCa, Task
  <2> QED
    BY <2>4, <2>6, <2>7
<1> QED
  BY <1>10, <1>11

Forced == Removals \o FirstRun

\* setup.py --force: it removes every pair, then the database, and only then
\* writes a CA; nothing of its own comes before that.
LEMMA ForcedIs ==
  /\ Ordered(Forced) /\ Forced # <<>> /\ Forced[1].op = "drop" /\ Without(Forced, "up")
  /\ Some(Forced, "dropDb")
  /\ \A p \in Pairs : \E i \in 1 .. Len(Forced) : Forced[i] = Task("drop", p)
  /\ \A i \in 1 .. Len(Forced) :
       AboutOwn(Forced[i]) => \E j \in 1 .. Len(Forced) : j < i /\ Forced[j] = KeyCa
<1> DEFINE of == <<"ca", "api", "broker", "control", "healthcheck", "crl", "time">>
           a == [n \in 1 .. 7 |-> Task("drop", of[n])]
           b == <<Task("dropDb", "db")>>
           m == Len(FirstRun)
<1>1. a \in Seq(Tasks) /\ Len(a) = 7 /\ b \in Seq(Tasks) /\ Len(b) = 1
  <2>1. a \in [1 .. 7 -> Tasks]
    BY DEF Task, Tasks, Pairs, Signed, Services, Internal
  <2> QED
    BY <2>1 DEF Task, Tasks, Plain
<1>2. /\ Removals \in Seq(Tasks) /\ Len(Removals) = 8
      /\ \A i \in 1 .. 7 : Removals[i] = Task("drop", of[i])
      /\ Removals[8] = Task("dropDb", "db")
  <2>1. Removals = a \o b
    BY DEF Removals
  <2> HIDE DEF a, b
  <2>2. /\ Removals \in Seq(Tasks) /\ Len(Removals) = 8
        /\ \A i \in 1 .. 7 : Removals[i] = a[i]
        /\ Removals[8] = b[1]
    <3>1. Joins(Removals, a, b)
      BY <2>1 DEF Joins
    <3>2. /\ Removals \in Seq(Tasks) /\ Len(Removals) = Len(a) + Len(b)
          /\ Starts(Removals, a) /\ Ends(Removals, a, b)
      BY <1>1, <3>1, Joined
    <3> QED
      BY <1>1, <3>2 DEF Starts, Ends
  <2> QED
    BY <2>2 DEF a, b
<1>3. FirstRun \in Seq(Tasks) /\ m \in Nat /\ m >= 1
  BY FirstRunIs DEF Calm
<1>3a. Len(FirstRun) = m
  OBVIOUS
<1> HIDE DEF m
<1>4. /\ Forced \in Seq(Tasks) /\ Len(Forced) = 8 + m
      /\ \A i \in 1 .. 8 : Forced[i] = Removals[i]
      /\ \A i \in 1 .. 8 + m : i > 8 => i - 8 \in 1 .. m /\ Forced[i] = FirstRun[i - 8]
  <2>1. Joins(Forced, Removals, FirstRun)
    BY DEF Forced, Joins
  <2>2. /\ Forced \in Seq(Tasks) /\ Len(Forced) = Len(Removals) + Len(FirstRun)
        /\ Starts(Forced, Removals) /\ Ends(Forced, Removals, FirstRun)
    BY <1>2, <1>3, <2>1, Joined
  <2> QED
    BY <1>2, <1>3, <1>3a, <2>2 DEF Starts, Ends
<1>5. /\ \A i \in 1 .. 7 : Forced[i] = Task("drop", of[i])
      /\ Forced[8] = Task("dropDb", "db") /\ Forced[9] = KeyCa /\ 9 \in 1 .. Len(Forced)
  BY <1>2, <1>3, <1>4, FirstRunIs
<1>6. ASSUME NEW i \in 1 .. Len(Forced), i > 8
      PROVE  /\ Forced[i].op = "key" =>
                    i < Len(Forced) /\ Forced[i + 1] = Task("cert", Forced[i].of)
             /\ Forced[i].op = "cert" => Forced[i - 1] = Task("key", Forced[i].of)
             /\ Forced[i].op \in {"key", "cert"} => Forced[i].of \notin Own
             /\ Forced[i].op \notin {"drop", "dropDb", "up"}
             /\ Forced[i] = KeyCa => i = 9
  <2>1. i - 8 \in 1 .. m /\ Forced[i] = FirstRun[i - 8]
    BY <1>4, <1>6
  <2>2. i < 8 + m => Forced[i + 1] = FirstRun[i - 8 + 1]
    <3>1. /\ i \in Int /\ (i + 1) - 8 = i - 8 + 1 /\ i + 1 > 8
          /\ i < 8 + m => i + 1 \in 1 .. 8 + m
      BY <1>3, <1>4, <1>6
    <3>2. i + 1 \in 1 .. 8 + m => Forced[i + 1] = FirstRun[(i + 1) - 8]
      BY <1>4, <3>1
    <3> QED
      BY <3>1, <3>2
  <2>3. /\ FirstRun[i - 8].op = "key" =>
             i - 8 < m /\ FirstRun[i - 8 + 1] = Task("cert", FirstRun[i - 8].of)
        /\ FirstRun[i - 8].op = "cert" =>
             i > 9 /\ FirstRun[(i - 8) - 1] = Task("key", FirstRun[i - 8].of)
        /\ FirstRun[i - 8].op \in {"key", "cert"} => FirstRun[i - 8].of \notin Own
        /\ FirstRun[i - 8].op \notin {"drop", "dropDb", "up"}
        /\ FirstRun[i - 8] = KeyCa => i - 8 = 1
    BY <2>1, FirstRunIs DEF Calm, Without, m
  <2>4. i > 9 => Forced[i - 1] = FirstRun[(i - 8) - 1]
    <3> SUFFICES ASSUME i > 9 PROVE Forced[i - 1] = FirstRun[(i - 8) - 1]
      OBVIOUS
    <3>1. i - 1 \in 1 .. 8 + m /\ i - 1 > 8 /\ (i - 1) - 8 = (i - 8) - 1
      BY <1>3, <1>4
    <3> QED
      BY <1>4, <3>1
  <2> QED
    BY <1>3, <1>4, <2>1, <2>2, <2>3, <2>4
<1>7. \A i \in 1 .. 7 : Forced[i].op = "drop"
  BY <1>5 DEF Task
<1>8. Forced[8].op = "dropDb"
  BY <1>5 DEF Task
<1>9. \A i \in 1 .. Len(Forced) : i \in 1 .. 7 \/ i = 8 \/ i > 8
  BY <1>3, <1>4
<1>10. Ordered(Forced)
  <2>1. ASSUME NEW i \in 1 .. Len(Forced)
        PROVE  /\ Forced[i].op = "key" =>
                    i < Len(Forced) /\ Forced[i + 1] = Task("cert", Forced[i].of)
               /\ Forced[i].op = "cert" => Forced[i - 1] = Task("key", Forced[i].of)
               /\ Forced[i].op \in {"key", "cert"} => Forced[i].of \notin Own
               /\ Forced[i].op # "up"
               /\ Forced[i].op = "drop" => i \in 1 .. 7
               /\ Forced[i].op = "dropDb" => i = 8
               /\ Forced[i] = KeyCa => i = 9
    BY <1>6, <1>7, <1>8, <1>9 DEF KeyCa, Task
  <2>2. ASSUME NEW i \in 1 .. Len(Forced), NEW j \in 1 .. Len(Forced), j < i
        PROVE  /\ Forced[i].op = "drop" => Forced[j].op = "drop"
               /\ Forced[i].op = "dropDb" => Forced[j].op = "drop"
               /\ Forced[i] = KeyCa => Forced[j].op \in {"drop", "dropDb"}
    <3>1. /\ i \in 1 .. 7 => j \in 1 .. 7
          /\ i = 8 => j \in 1 .. 7
          /\ i = 9 => j \in 1 .. 7 \/ j = 8
      BY <2>2
    <3> QED
      BY <1>7, <1>8, <2>1, <3>1
  <2> QED
    BY <1>4, <2>1, <2>2 DEF Ordered
<1>11. Without(Forced, "up")
  BY <1>6, <1>7, <1>8, <1>9 DEF Without
<1>12. ASSUME NEW p \in Pairs PROVE \E i \in 1 .. Len(Forced) : Forced[i] = Task("drop", p)
  <2>1. \E i \in 1 .. 7 : of[i] = p
    BY DEF Pairs, Signed, Services, Internal
  <2>2. \A i \in 1 .. 7 : i \in 1 .. Len(Forced)
    BY <1>3, <1>4
  <2> QED
    BY <1>5, <2>1, <2>2
<1>13. ASSUME NEW i \in 1 .. Len(Forced), AboutOwn(Forced[i]) PROVE 9 < i
  <2>1. i \notin 1 .. 7 /\ i # 8 /\ i # 9
    BY <1>5, <1>7, <1>8, <1>13 DEF AboutOwn, KeyCa, Task, Own, Internal
  <2> QED
    BY <2>1
<1>14. Forced # <<>> /\ Forced[1].op = "drop"
  BY <1>3, <1>4, <1>7
<1>15. Some(Forced, "dropDb")
  <2>1. 8 \in 1 .. Len(Forced) /\ Forced[8].op = "dropDb"
    BY <1>3, <1>4, <1>5 DEF Task
  <2> QED
    BY <2>1 DEF Some
<1> QED
  BY <1>5, <1>10, <1>11, <1>12, <1>13, <1>14, <1>15

\* What is left of a list without its first task.
LEMMA Tails ==
  ASSUME NEW s, Ordered(s), s # <<>>
  PROVE  /\ Tail(s) \in Seq(Tasks) /\ Len(Tail(s)) \in Nat /\ Len(s) = Len(Tail(s)) + 1
         /\ \A i \in 1 .. Len(Tail(s)) : i + 1 \in 1 .. Len(s) /\ Tail(s)[i] = s[i + 1]
         /\ Head(s) = s[1] /\ s[1] \in Tasks /\ 1 \in 1 .. Len(s)
<1>1. s \in Seq(Tasks)
  BY DEF Ordered
<1> QED
  BY <1>1, HeadTailProperties

\* What is left of an ordered list is ordered.
LEMMA Rest ==
  ASSUME NEW s, Ordered(s), s # <<>>
  PROVE  Ordered(Tail(s))
<1> DEFINE t == Tail(s)
           n == Len(t)
<1>1. /\ t \in Seq(Tasks) /\ n \in Nat /\ Len(s) = n + 1 /\ Len(t) = n
      /\ \A i \in 1 .. n : i + 1 \in 1 .. Len(s) /\ t[i] = s[i + 1]
  BY Tails
<1> HIDE DEF t, n
<1>2. ASSUME NEW i \in 1 .. n
      PROVE  /\ t[i].op = "key" => i < n /\ t[i + 1] = Task("cert", t[i].of)
             /\ ~(t[i].op = "key" /\ t[i].of \in Own)
             /\ t[i].op = "cert" => i = 1 \/ t[i - 1] = Task("key", t[i].of)
             /\ t[i].op = "up" => i = n
  <2>1. i + 1 \in 1 .. Len(s) /\ t[i] = s[i + 1] /\ i + 1 # 1
    BY <1>1
  <2>2. /\ s[i + 1].op = "key" => i + 1 < n + 1 /\ s[i + 1 + 1] = Task("cert", s[i + 1].of)
        /\ ~(s[i + 1].op = "key" /\ s[i + 1].of \in Own)
        /\ s[i + 1].op = "cert" => s[i] = Task("key", s[i + 1].of)
        /\ s[i + 1].op = "up" => i + 1 = n + 1
    BY <1>1, <2>1 DEF Ordered
  <2>3. (i < n => t[i + 1] = s[i + 1 + 1]) /\ (i # 1 => t[i - 1] = s[i])
    BY <1>1
  <2> QED
    BY <1>1, <2>1, <2>2, <2>3
<1>3. ASSUME NEW i \in 1 .. n, NEW j \in 1 .. n
      PROVE  /\ j < i =>
                 /\ t[i].op = "drop" => t[j].op = "drop"
                 /\ t[i].op = "dropDb" => t[j].op = "drop"
                 /\ t[i] = KeyCa => t[j].op \in {"drop", "dropDb"}
             /\ t[i].op = "drop" => t[j].op # "up"
  <2>1. /\ i + 1 \in 1 .. Len(s) /\ t[i] = s[i + 1] /\ j + 1 \in 1 .. Len(s) /\ t[j] = s[j + 1]
        /\ j < i => j + 1 < i + 1
    BY <1>1
  <2> QED
    BY <2>1 DEF Ordered
<1>4. Ordered(t)
  BY <1>1, <1>2, <1>3 DEF Ordered
<1> QED
  BY <1>4 DEF t

LEMMA Members ==
  ASSUME NEW s, Ordered(s), s # <<>>
  PROVE  /\ \A x : In(s, x) <=> s[1] = x \/ In(Tail(s), x)
         /\ \A op : Some(s, op) <=> s[1].op = op \/ Some(Tail(s), op)
         /\ \A p : About(s, p) <=> s[1].of = p \/ About(Tail(s), p)
<1> DEFINE t == Tail(s)
           n == Len(t)
<1>1. /\ n \in Nat /\ Len(s) = n + 1 /\ Len(t) = n
      /\ \A i \in 1 .. n : i + 1 \in 1 .. Len(s) /\ t[i] = s[i + 1]
      /\ 1 \in 1 .. Len(s)
  BY Tails
<1> HIDE DEF t, n
<1>2. \A i \in 1 .. Len(s) : i = 1 \/ \E j \in 1 .. n : s[i] = t[j]
  <2> SUFFICES ASSUME NEW i \in 1 .. Len(s), i # 1 PROVE \E j \in 1 .. n : s[i] = t[j]
    OBVIOUS
  <2>1. i - 1 \in 1 .. n /\ (i - 1) + 1 = i
    BY <1>1
  <2> QED
    BY <1>1, <2>1
<1>3. \A j \in 1 .. n : \E i \in 1 .. Len(s) : s[i] = t[j]
  BY <1>1
<1>4. \A x : In(s, x) <=> s[1] = x \/ In(t, x)
  <2>1. ASSUME NEW x, s[1] = x \/ In(t, x) PROVE In(s, x)
    BY <1>1, <1>3, <2>1 DEF In
  <2>2. ASSUME NEW x, In(s, x) PROVE s[1] = x \/ In(t, x)
    <3>1. PICK i \in 1 .. Len(s) : s[i] = x
      BY <2>2 DEF In
    <3>2. CASE i # 1
      <4>1. PICK j \in 1 .. Len(t) : s[i] = t[j]
        BY <1>1, <1>2, <3>2
      <4>2. t[j] = x
        BY <3>1, <4>1
      <4> QED
        BY <4>2 DEF In
    <3> QED
      BY <3>1, <3>2
  <2> QED
    BY <2>1, <2>2
<1>5. \A x : Some(s, x) <=> s[1].op = x \/ Some(t, x)
  <2>1. ASSUME NEW x, s[1].op = x \/ Some(t, x) PROVE Some(s, x)
    BY <1>1, <1>3, <2>1 DEF Some
  <2>2. ASSUME NEW x, Some(s, x) PROVE s[1].op = x \/ Some(t, x)
    <3>1. PICK i \in 1 .. Len(s) : s[i].op = x
      BY <2>2 DEF Some
    <3>2. CASE i # 1
      <4>1. PICK j \in 1 .. Len(t) : s[i] = t[j]
        BY <1>1, <1>2, <3>2
      <4>2. t[j].op = x
        BY <3>1, <4>1
      <4> QED
        BY <4>2 DEF Some
    <3> QED
      BY <3>1, <3>2
  <2> QED
    BY <2>1, <2>2
<1>6. \A x : About(s, x) <=> s[1].of = x \/ About(t, x)
  <2>1. ASSUME NEW x, s[1].of = x \/ About(t, x) PROVE About(s, x)
    BY <1>1, <1>3, <2>1 DEF About
  <2>2. ASSUME NEW x, About(s, x) PROVE s[1].of = x \/ About(t, x)
    <3>1. PICK i \in 1 .. Len(s) : s[i].of = x
      BY <2>2 DEF About
    <3>2. CASE i # 1
      <4>1. PICK j \in 1 .. Len(t) : s[i] = t[j]
        BY <1>1, <1>2, <3>2
      <4>2. t[j].of = x
        BY <3>1, <4>1
      <4> QED
        BY <4>2 DEF About
    <3> QED
      BY <3>1, <3>2
  <2> QED
    BY <2>1, <2>2
<1> QED
  BY <1>4, <1>5, <1>6 DEF t

\* After a task that removes nothing, nothing is removed.
LEMMA NoRemovals ==
  ASSUME NEW s, Ordered(s), s # <<>>, s[1].op # "drop"
  PROVE  /\ ~Some(s, "drop") /\ \A p : ~In(s, Task("drop", p))
         /\ ~Some(Tail(s), "drop") /\ ~Some(Tail(s), "dropDb")
         /\ s[1].op # "dropDb" => ~Some(s, "dropDb") /\ ~In(Tail(s), KeyCa)
<1>1. /\ 1 \in 1 .. Len(s)
      /\ \A i \in 1 .. Len(Tail(s)) : i + 1 \in 1 .. Len(s) /\ Tail(s)[i] = s[i + 1]
      /\ Len(Tail(s)) \in Nat /\ Len(s) = Len(Tail(s)) + 1
  BY Tails
<1>2. ASSUME NEW i \in 1 .. Len(s), i # 1
      PROVE  s[i].op # "drop" /\ s[i].op # "dropDb" /\ (s[1].op # "dropDb" => s[i] # KeyCa)
  <2>1. 1 < i
    BY <1>2
  <2> QED
    BY <1>1, <2>1 DEF Ordered
<1>3. ~Some(s, "drop") /\ \A p : ~In(s, Task("drop", p))
  BY <1>2 DEF Some, In, Task
<1>4. \A i \in 1 .. Len(Tail(s)) : i + 1 # 1
  OBVIOUS
<1>5. /\ ~Some(Tail(s), "drop") /\ ~Some(Tail(s), "dropDb")
      /\ s[1].op # "dropDb" => ~Some(s, "dropDb") /\ ~In(Tail(s), KeyCa)
  BY <1>1, <1>2, <1>4 DEF Some, In
<1> QED
  BY <1>3, <1>5

\* After a check, the list is calm.
LEMMA CalmRest ==
  ASSUME NEW s, Ordered(s), s # <<>>, s[1].op \notin {"drop", "dropDb", "key", "cert"}
  PROVE  Calm(Tail(s)) /\ WithoutCa(Tail(s))
<1> DEFINE t == Tail(s)
           n == Len(t)
<1>1. /\ t \in Seq(Tasks) /\ n \in Nat /\ Len(s) = n + 1 /\ Len(t) = n
      /\ \A i \in 1 .. n : i + 1 \in 1 .. Len(s) /\ t[i] = s[i + 1]
  BY Tails
<1>2. Ordered(t) /\ ~Some(t, "drop") /\ ~Some(t, "dropDb") /\ ~In(t, KeyCa)
  BY Rest, NoRemovals
<1> HIDE DEF t, n
<1>3. ASSUME NEW i \in 1 .. n
      PROVE  /\ t[i].op = "cert" => i > 1
             /\ t[i].op \in {"key", "cert"} => t[i].of \notin Own
  <2>1. i + 1 \in 1 .. Len(s) /\ t[i] = s[i + 1]
    BY <1>1
  <2>2. s[i + 1].op = "key" => s[i + 1].of \notin Own
    BY <2>1 DEF Ordered
  <2>3. s[i + 1].op = "cert" => s[i] = Task("key", s[i + 1].of)
    BY <2>1 DEF Ordered
  <2>4. s[i + 1].op = "cert" => i # 1
    BY <2>3 DEF Task
  <2>5. i # 1 => i \in 1 .. Len(s)
    BY <1>1
  <2>6. s[i + 1].op = "cert" => s[i + 1].of \notin Own
    <3> SUFFICES ASSUME s[i + 1].op = "cert" PROVE s[i + 1].of \notin Own
      OBVIOUS
    <3>1. i \in 1 .. Len(s) /\ i # 1 /\ s[i] = Task("key", s[i + 1].of)
      BY <2>3, <2>4, <2>5
    <3>2. s[i].op = "key" => s[i].of \notin Own
      BY <3>1 DEF Ordered
    <3> QED
      BY <3>1, <3>2 DEF Task
  <2> QED
    BY <2>1, <2>2, <2>4, <2>6
<1>4. \A i \in 1 .. n : t[i].op \notin {"drop", "dropDb"} /\ t[i] # KeyCa
  BY <1>1, <1>2 DEF Some, In
<1>5. \A i \in 1 .. n :
        /\ t[i].op = "key" => i < n /\ t[i + 1] = Task("cert", t[i].of)
        /\ t[i].op = "cert" => i = 1 \/ t[i - 1] = Task("key", t[i].of)
        /\ t[i].op = "up" => i = n
  BY <1>1, <1>2 DEF Ordered
<1>6. Calm(t) /\ WithoutCa(t)
  BY <1>1, <1>3, <1>4, <1>5 DEF Calm, WithoutCa
<1> QED
  BY <1>6 DEF t

\* An own identity still comes after the CA it depends on.
LEMMA CaFirstRest ==
  ASSUME Ordered(todo), todo # <<>>, CaFirst, todo' = Tail(todo),
         todo[1] \in {KeyCa, Task("initialized", "ca")} => key'["ca"] # None,
         todo[1].op = "drop" \/ (key["ca"] # None => key'["ca"] # None)
  PROVE  CaFirst'
<1> DEFINE t == Tail(todo)
           n == Len(t)
<1>1. /\ n \in Nat /\ Len(todo) = n + 1 /\ Len(t) = n
      /\ \A i \in 1 .. n : i + 1 \in 1 .. Len(todo) /\ t[i] = todo[i + 1]
  BY Tails
<1>2. /\ \A op : Some(t, op) => Some(todo, op)
      /\ todo[1].op = "drop" => Some(todo, "drop")
      /\ todo[1].op # "drop" => ~Some(t, "drop")
  BY Members, NoRemovals
<1>3. todo' = t
  OBVIOUS
<1> HIDE DEF t, n
<1>4. ASSUME NEW i \in 1 .. n, AboutOwn(t[i])
      PROVE  \/ \E j \in 1 .. n : j < i /\ t[j] \in {KeyCa, Task("initialized", "ca")}
             \/ key'["ca"] # None /\ ~Some(t, "drop")
  <2>1. i + 1 \in 1 .. Len(todo) /\ AboutOwn(todo[i + 1])
    BY <1>1, <1>4
  <2>2. CaBefore(i + 1) \/ (key["ca"] # None /\ ~Some(todo, "drop"))
    BY <2>1 DEF CaFirst
  <2>3. CASE key["ca"] # None /\ ~Some(todo, "drop")
    BY <1>2, <2>3
  <2>4. CASE CaBefore(i + 1)
    <3>1. PICK j \in 1 .. Len(todo) : j < i + 1 /\ todo[j] \in {KeyCa, Task("initialized", "ca")}
      BY <2>4 DEF CaBefore
    <3>2. CASE j = 1
      BY <1>2, <3>1, <3>2 DEF KeyCa, Task
    <3>3. CASE j # 1
      <4>1. j - 1 \in 1 .. n /\ j - 1 < i /\ t[j - 1] = todo[j - 1 + 1] /\ j - 1 + 1 = j
        BY <1>1, <3>1, <3>3
      <4>2. t[j - 1] \in {KeyCa, Task("initialized", "ca")}
        BY <3>1, <4>1
      <4> QED
        BY <4>1, <4>2
    <3> QED
      BY <3>2, <3>3
  <2> QED
    BY <2>2, <2>3, <2>4
<1> QED
  BY <1>1, <1>3, <1>4 DEF CaFirst, CaBefore

\* A run ends, or is killed.
LEMMA Ended ==
  ASSUME todo' = <<>>, Types', CaSound', OwnSound', Outlived', Started'
  PROVE  IInv'
<1>1. Ordered(todo')
  BY DEF Ordered
<1>2. /\ \A op : ~Some(todo', op)
      /\ \A x : ~In(todo', x)
  BY DEF Some, In
<1>3. Writing' /\ CaFirst'
  BY DEF Writing, CaFirst
<1>4. Starting'
  BY <1>2 DEF Starting
<1> QED
  BY <1>1, <1>3, <1>4 DEF IInv

\* The steps that change no identity.
LEMMA Passed ==
  ASSUME IInv, todo # <<>>, todo' = Tail(todo),
         todo[1].op \notin {"key", "cert", "drop", "dropDb", "up"},
         UNCHANGED <<key, cert, ip, left, crashes, failures, up>>, Types',
         todo[1].op = "initialized" => key["ca"] # None,
         todo[1].op = "load" => Whole(key["ca"]),
         todo[1].of = "time" => cert["time"] # None,
         todo[1].op # "services",
         env'.ip = ip \/ (env'.ip = env.ip /\ todo[1].op # "endpoint")
  PROVE  IInv'
<1> USE DEF IInv
<1> DEFINE t == Tail(todo)
<1>1. Ordered(t) /\ Calm(t) /\ WithoutCa(t)
  BY Rest, CalmRest
<1>2. /\ \A op : ~Some(t, op) => ~Some(todo, op) \/ todo[1].op = op
      /\ \A op : Some(t, op) => Some(todo, op)
      /\ \A p : About(todo, p) => todo[1].of = p \/ About(t, p)
      /\ \A x : In(todo, x) => todo[1] = x \/ In(t, x)
      /\ ~Some(todo, "drop") /\ \A p : ~In(todo, Task("drop", p))
      /\ ~Some(t, "drop") /\ ~Some(t, "dropDb") /\ ~In(t, KeyCa)
  BY Members, NoRemovals
<1>3. t # <<>> => 1 \in 1 .. Len(t)
  BY <1>1 DEF Ordered
<1>4. todo' = t
  OBVIOUS
<1>5. CaFirst'
  <2>1. todo[1] # KeyCa
    BY DEF KeyCa, Task
  <2> QED
    BY <2>1, CaFirstRest DEF Task
<1> HIDE DEF t
<1>6. Ordered(todo') /\ CaSound'
  BY <1>1, <1>4 DEF CaSound
<1>7. Writing'
  BY <1>1, <1>3, <1>4 DEF Writing, Calm
<1>8. Outlived'
  BY <1>2, <1>4 DEF Outlived, Untouched, Gone, Has
<1>9. OwnSound'
  BY DEF OwnSound, Sound
<1>10. Starting'
  <2> SUFFICES ASSUME Some(t, "up") PROVE (cert["time"] # None \/ About(t, "time"))
                 /\ (Whole(key["ca"]) \/ Some(t, "load"))
                 /\ (Some(t, "services") \/ Serving')
    BY <1>4 DEF Starting
  <2>1. /\ cert["time"] # None \/ About(todo, "time")
        /\ Whole(key["ca"]) \/ Some(todo, "load")
        /\ Some(todo, "services") \/ Serving
    BY <1>2 DEF Starting
  <2>2. \A p : In(todo, Task("cert", p)) => In(t, Task("cert", p))
    BY <1>2 DEF Task
  <2>3. Some(todo, "endpoint") => todo[1].op = "endpoint" \/ Some(t, "endpoint")
    BY <1>2
  <2>4. Serving => Serving'
    BY <1>4, <2>2, <2>3 DEF Serving, Has
  <2> QED
    BY <1>2, <2>1, <2>4
<1>11. Started'
  BY DEF Started
<1> QED
  BY <1>5, <1>6, <1>7, <1>8, <1>9, <1>10, <1>11

\* The task at the head of the list, and what it is about.
LEMMA AtHead ==
  ASSUME IInv, NEW op, At(op)
  PROVE  /\ todo # <<>> /\ Ordered(todo) /\ todo[1] \in Tasks /\ 1 \in 1 .. Len(todo)
         /\ todo[1].op = op /\ Of = todo[1].of /\ todo[1] = Task(op, Of)
         /\ op \in {"key", "cert"} => Of \in Pairs
         /\ op = "drop" => Of \in Pairs \cup {"crl"}
         /\ op = "time" => Of = "time"
         /\ op = "internal" => Of \in Internal
         /\ op \in Plain => Of \in {"crl", "env", "db", "ca", "up"}
<1>1. todo # <<>> /\ Ordered(todo)
  BY DEF At, Idle, IInv
<1>2. Head(todo) = todo[1] /\ todo[1] \in Tasks /\ 1 \in 1 .. Len(todo)
  BY <1>1, Tails
<1>3. todo[1].op = op /\ Of = todo[1].of
  BY <1>2 DEF At, Of
<1>4. todo[1] = Task(todo[1].op, todo[1].of)
  BY <1>2 DEF Tasks, Task
<1>5. /\ op \in {"key", "cert"} => Of \in Pairs
      /\ op = "drop" => Of \in Pairs \cup {"crl"}
      /\ op = "time" => Of = "time"
      /\ op = "internal" => Of \in Internal
      /\ op \in Plain => Of \in {"crl", "env", "db", "ca", "up"}
  BY <1>2, <1>3 DEF Tasks, Plain
<1> QED
  BY <1>1, <1>2, <1>3, <1>4, <1>5

\* There is a new key to draw: at most seven are in use.
LEMMA NewKeys ==
  ASSUME NEW p \in Pairs
  PROVE  NewKey(p) \in 1 .. MaxKeys /\ NewKey(p) \in Keys /\ Whole(NewKey(p))
<1> DEFINE used == {key[p], cert[p].key, crl,
                    cert["api"].issuer, cert["broker"].issuer,
                    cert["control"].issuer, cert["healthcheck"].issuer}
<1>1. InUse(p) \subseteq used
  BY DEF InUse, Signed, Services, Internal
<1>2. /\ 1 \in 1 .. MaxKeys /\ 2 \in 1 .. MaxKeys /\ 3 \in 1 .. MaxKeys /\ 4 \in 1 .. MaxKeys
      /\ 5 \in 1 .. MaxKeys /\ 6 \in 1 .. MaxKeys /\ 7 \in 1 .. MaxKeys /\ 8 \in 1 .. MaxKeys
  BY InstallationAssumption
<1>3. \E n \in 1 .. MaxKeys : n \notin InUse(p)
  BY <1>1, <1>2
<1>4. NewKey(p) \in 1 .. MaxKeys
  BY <1>3 DEF NewKey
<1> QED
  BY <1>4, InstallationAssumption DEF Keys, Whole

\* The steps that write or remove a pair.
LEMMA WriteKeyKeeps == ASSUME IInv, WriteKey PROVE IInv'
<1> USE DEF IInv
<1> DEFINE t == Tail(todo)
           p == Of
<1>1. /\ todo # <<>> /\ Ordered(todo) /\ todo[1] = Task("key", p) /\ p \in Pairs
      /\ todo[1].op = "key" /\ todo[1].of = p /\ 1 \in 1 .. Len(todo)
  BY AtHead DEF WriteKey
<1>2. /\ todo' = t /\ key' = [key EXCEPT ![p] = NewKey(p)]
      /\ left' = IF p = "ca" THEN {q \in MayOutlive : cert[q] # None} ELSE left
      /\ UNCHANGED <<cert, crl, env, db, up, ip, crashes, failures>>
  BY DEF WriteKey, Done, keep, run
<1>3. /\ Ordered(t)
      /\ \A op : Some(todo, op) => todo[1].op = op \/ Some(t, op)
      /\ \A op : Some(t, op) => Some(todo, op)
      /\ \A q : About(todo, q) => todo[1].of = q \/ About(t, q)
      /\ \A x : In(todo, x) => todo[1] = x \/ In(t, x)
      /\ ~Some(todo, "drop") /\ \A q : ~In(todo, Task("drop", q))
      /\ ~Some(t, "drop") /\ ~Some(t, "dropDb") /\ ~In(t, KeyCa)
  BY <1>1, Rest, Members, NoRemovals
<1>4. t # <<>> /\ 1 \in 1 .. Len(t) /\ t[1] = Task("cert", p)
  <2>1. 1 < Len(todo) /\ todo[1 + 1] = Task("cert", p)
    BY <1>1 DEF Ordered
  <2>2. /\ Len(t) \in Nat /\ Len(todo) = Len(t) + 1 /\ t \in Seq(Tasks)
        /\ \A i \in 1 .. Len(t) : t[i] = todo[i + 1]
    BY <1>1, Tails
  <2> HIDE DEF t
  <2>3. 1 \in 1 .. Len(t) /\ t # <<>>
    BY <2>1, <2>2
  <2>4. t[1] = todo[1 + 1]
    BY <2>2, <2>3
  <2> QED
    BY <2>1, <2>3, <2>4
<1>5. p = "ca" /\ Untouched => \A q \in MayOutlive : cert[q] = None
  <2>1. p = "ca" => In(todo, KeyCa)
    BY <1>1 DEF In, KeyCa
  <2> QED
    BY <1>3, <2>1 DEF Outlived, Gone, Has
<1>6. p \in Own => Missing(p) /\ key["ca"] # None
  <2>1. p \in Own => AboutOwn(todo[1])
    BY <1>1 DEF AboutOwn
  <2>2. ~CaBefore(1)
    BY DEF CaBefore
  <2> QED
    BY <1>1, <2>1, <2>2 DEF Writing, CaFirst
<1>7. NewKey(p) \in Keys /\ Whole(NewKey(p))
  BY <1>1, NewKeys
<1>8. /\ key' \in [Pairs -> Keys] /\ key'[p] = NewKey(p)
      /\ \A q \in Pairs : q # p => key'[q] = key[q]
  BY <1>1, <1>2, <1>7 DEF Types
<1>9. CaFirst'
  <2>1. "ca" \in Pairs
    BY DEF Pairs
  <2>2. todo[1] \in {KeyCa, Task("initialized", "ca")} => p = "ca"
    BY <1>1 DEF KeyCa, Task
  <2>3. p = "ca" => key'["ca"] # None
    BY <1>7, <1>8 DEF Whole
  <2>4. key["ca"] # None => key'["ca"] # None
    BY <1>8, <2>1, <2>3
  <2> QED
    BY <1>1, <1>2, <2>2, <2>3, <2>4, CaFirstRest
<1> HIDE DEF t, p
<1>10. Types'
  BY <1>2, <1>8 DEF Types
<1>11. Ordered(todo')
  BY <1>2, <1>3
<1>12. CaSound'
  <2>1. CASE p = "ca"
    BY <1>2, <2>1 DEF CaSound, Whole, MayOutlive
  <2>2. CASE p # "ca"
    <3>1. key'["ca"] = key["ca"]
      BY <1>8, <2>2 DEF Pairs
    <3> QED
      BY <1>2, <2>2, <3>1 DEF CaSound, Whole
  <2> QED
    BY <2>1, <2>2
<1>13. Writing'
  <2>1. t[1].op = "cert" /\ t[1].of = p
    BY <1>4 DEF Task
  <2> QED
    BY <1>2, <1>7, <1>8, <2>1 DEF Writing
<1>14. Outlived'
  <2>1. CASE p = "ca"
    BY <1>2, <1>3, <1>5, <1>7, <1>8, <2>1 DEF Outlived, Untouched, Has, Whole
  <2>2. CASE p # "ca"
    <3>1. key'["ca"] = key["ca"]
      BY <1>8, <2>2 DEF Pairs
    <3> QED
      BY <1>2, <1>3, <2>2, <3>1 DEF Outlived, Untouched, Gone, Has
  <2> QED
    BY <2>1, <2>2
<1>15. OwnSound'
  <2> SUFFICES ASSUME NEW q \in Own PROVE Sound(q)'
    BY DEF OwnSound
  <2>0. q \in Pairs /\ "ca" \in Pairs /\ q # "ca"
    BY DEF Own, Pairs, Signed, Internal
  <2>1. Sound(q)
    BY DEF OwnSound
  <2>2. CASE p = "ca"
    <3>1. key'[q] = key[q]
      BY <1>8, <2>0, <2>2
    <3>2. q \in Internal => q \in left' \/ cert[q] = None
      BY <1>2, <2>2 DEF MayOutlive
    <3> QED
      BY <1>2, <2>1, <3>1, <3>2 DEF Sound, Whole
  <2>3. CASE p = q
    BY <1>2, <1>6, <2>3 DEF Sound, Missing, Whole
  <2>4. CASE p # "ca" /\ p # q
    BY <1>2, <1>8, <2>0, <2>1, <2>4 DEF Sound
  <2> QED
    BY <2>2, <2>3, <2>4
<1>16. Starting'
  <2> SUFFICES ASSUME Some(t, "up") PROVE (cert["time"] # None \/ About(t, "time"))
                 /\ (Whole(key'["ca"]) \/ Some(t, "load"))
                 /\ (Some(t, "services") \/ Serving')
    BY <1>2 DEF Starting
  <2>1. /\ cert["time"] # None \/ About(todo, "time")
        /\ Whole(key["ca"]) \/ Some(todo, "load")
        /\ Some(todo, "services") \/ Serving
    BY <1>3 DEF Starting
  <2>2. About(todo, "time") => About(t, "time")
    <3>1. About(t, p)
      BY <1>4 DEF About, Task
    <3> QED
      BY <1>1, <1>3, <3>1
  <2>3. Some(todo, "services") => Some(t, "services")
    BY <1>1, <1>3
  <2>4. Serving => Serving'
    <3>1. \A q : In(todo, Task("cert", q)) => In(t, Task("cert", q))
      BY <1>1, <1>3 DEF Task
    <3>2. Some(todo, "endpoint") => Some(t, "endpoint")
      BY <1>1, <1>3
    <3> QED
      BY <1>2, <3>1, <3>2 DEF Serving, Has
  <2>5. Whole(key["ca"]) \/ Some(todo, "load") => Whole(key'["ca"]) \/ Some(t, "load")
    <3>1. "ca" \in Pairs
      BY DEF Pairs
    <3> QED
      BY <1>1, <1>3, <1>7, <1>8, <3>1
  <2> QED
    BY <2>1, <2>2, <2>3, <2>4, <2>5
<1>17. Started'
  BY <1>1, <1>2 DEF Started
<1> QED
  BY <1>9, <1>10, <1>11, <1>12, <1>13, <1>14, <1>15, <1>16, <1>17

LEMMA WriteCertKeeps == ASSUME IInv, WriteCert PROVE IInv'
<1> USE DEF IInv
<1> DEFINE t == Tail(todo)
           p == Of
<1>1. /\ todo # <<>> /\ Ordered(todo) /\ todo[1] = Task("cert", p) /\ p \in Pairs
      /\ todo[1].op = "cert" /\ todo[1].of = p /\ 1 \in 1 .. Len(todo)
  BY AtHead DEF WriteCert
<1>2. /\ todo' = t /\ cert' = [cert EXCEPT ![p] = Certificate(p)]
      /\ left' = left \ {p} /\ UNCHANGED <<key, crl, env, db, up, ip, crashes, failures>>
  BY DEF WriteCert, Done, keep, run
<1>3. /\ Ordered(t)
      /\ \A op : Some(todo, op) => todo[1].op = op \/ Some(t, op)
      /\ \A op : Some(t, op) => Some(todo, op)
      /\ \A q : About(todo, q) => todo[1].of = q \/ About(t, q)
      /\ \A x : In(todo, x) => todo[1] = x \/ In(t, x)
      /\ ~Some(todo, "drop") /\ \A q : ~In(todo, Task("drop", q))
      /\ ~Some(t, "drop") /\ ~Some(t, "dropDb") /\ ~In(t, KeyCa)
  BY <1>1, Rest, Members, NoRemovals
<1>4. Whole(key[p])
  BY <1>1 DEF Writing
<1>5. p \in Own => key["ca"] # None
  <2>1. p \in Own => AboutOwn(todo[1])
    BY <1>1 DEF AboutOwn
  <2>2. ~CaBefore(1)
    BY DEF CaBefore
  <2> QED
    BY <1>1, <2>1, <2>2 DEF CaFirst
<1>6. /\ Certificate(p) \in Certified
      /\ Certificate(p).key = key[p] /\ (p \in Services => Certificate(p).ip = ip)
      /\ p \in Internal => Certificate(p).issuer = key["ca"]
  <2>1. "ca" \in Pairs /\ None \in Keys
    BY DEF Pairs, Keys
  <2>2. key[p] \in Keys /\ key["ca"] \in Keys /\ ip \in Ips
    BY <1>1, <2>1 DEF Types
  <2> QED
    BY <2>1, <2>2 DEF Certificate, Certified, Internal
<1>7. Certificate(p) \in Certificates /\ Whole(Certificate(p))
  BY <1>6, FilesAssumption DEF Certificates, Whole
<1>8. /\ cert' \in [Pairs -> Certificates] /\ cert'[p] = Certificate(p)
      /\ \A q \in Pairs : q # p => cert'[q] = cert[q]
  BY <1>1, <1>2, <1>7 DEF Types
<1>9. CaFirst'
  <2>1. todo[1] \notin {KeyCa, Task("initialized", "ca")}
    BY <1>1 DEF KeyCa, Task
  <2> QED
    BY <1>1, <1>2, <2>1, CaFirstRest
<1>10. t # <<>> => t[1].op # "cert" /\ ~(t[1].op = "key" /\ t[1].of \in Own)
  <2> SUFFICES ASSUME t # <<>>
               PROVE  t[1].op # "cert" /\ ~(t[1].op = "key" /\ t[1].of \in Own)
    OBVIOUS
  <2>1. /\ Len(t) \in Nat /\ Len(todo) = Len(t) + 1 /\ t \in Seq(Tasks)
        /\ \A i \in 1 .. Len(t) : t[i] = todo[i + 1]
    BY <1>1, Tails
  <2> HIDE DEF t
  <2>2. 2 \in 1 .. Len(todo) /\ t[1] = todo[2]
    BY <2>1
  <2>3. todo[2].op = "cert" => todo[1] = Task("key", todo[2].of)
    BY <1>1, <2>2 DEF Ordered
  <2>4. todo[2].op = "key" => todo[2].of \notin Own
    BY <1>1, <2>2 DEF Ordered
  <2> QED
    BY <1>1, <2>2, <2>3, <2>4 DEF Task
<1> HIDE DEF t, p
<1>11. Types'
  BY <1>2, <1>8 DEF Types
<1>12. Ordered(todo')
  BY <1>2, <1>3
<1>13. CaSound'
  <2>0. "ca" \in Pairs
    BY DEF Pairs
  <2>1. CASE p = "ca"
    BY <1>2, <1>4, <1>6, <1>8, <2>1 DEF CaSound, Whole
  <2>2. CASE p # "ca"
    BY <1>2, <1>8, <2>0, <2>2 DEF CaSound, Pairs
  <2> QED
    BY <2>1, <2>2
<1>14. Writing'
  BY <1>2, <1>10 DEF Writing
<1>15. Outlived'
  <2> SUFFICES ASSUME Untouched
               PROVE  /\ left' = {}
                      /\ key["ca"] = None \/ In(t, KeyCa) => \A q \in MayOutlive : Gone(q)'
    BY <1>2, <1>3 DEF Outlived, Untouched, Has
  <2>1. key["ca"] = None => p \notin MayOutlive
    BY <1>4, <1>5, InstallationAssumption DEF MayOutlive, Own, Whole
  <2>2. ASSUME NEW q \in MayOutlive, key["ca"] = None PROVE Gone(q)'
    <3>1. q # p /\ q \in Pairs
      BY <2>1, <2>2 DEF MayOutlive, Pairs, Signed, Internal
    <3>2. cert[q] = None
      BY <1>3, <2>2 DEF Outlived, Gone, Has
    <3> QED
      BY <1>8, <3>1, <3>2 DEF Gone
  <2> QED
    BY <1>2, <1>3, <2>2 DEF Outlived
<1>16. OwnSound'
  <2> SUFFICES ASSUME NEW q \in Own PROVE Sound(q)'
    BY DEF OwnSound
  <2>0. q \in Pairs
    BY DEF Own, Pairs, Signed, Internal
  <2>1. Sound(q)
    BY DEF OwnSound
  <2>2. CASE p = q
    BY <1>2, <1>6, <1>8, <2>2 DEF Sound
  <2>3. CASE p # q
    BY <1>2, <1>8, <2>0, <2>1, <2>3 DEF Sound
  <2> QED
    BY <2>2, <2>3
<1>17. Starting'
  <2> SUFFICES ASSUME Some(t, "up") PROVE (cert'["time"] # None \/ About(t, "time"))
                 /\ (Whole(key'["ca"]) \/ Some(t, "load"))
                 /\ (Some(t, "services") \/ Serving')
    BY <1>2 DEF Starting
  <2>1. /\ cert["time"] # None \/ About(todo, "time")
        /\ Whole(key["ca"]) \/ Some(todo, "load")
        /\ Some(todo, "services") \/ Serving
    BY <1>3 DEF Starting
  <2>2. "time" \in Pairs
    BY DEF Pairs
  <2>3. cert'["time"] # None \/ About(t, "time")
    BY <1>1, <1>3, <1>7, <1>8, <2>1, <2>2 DEF Whole
  <2>4. Some(todo, "services") => Some(t, "services")
    BY <1>1, <1>3
  <2>5. Serving => Serving'
    <3>1. Some(todo, "endpoint") => Some(t, "endpoint")
      BY <1>1, <1>3
    <3>2. ASSUME Serving, NEW q \in Services
          PROVE  (Whole(cert'[q]) => cert'[q].ip = ip) \/ In(t, Task("cert", q))
      <4>1. (Whole(cert[q]) => cert[q].ip = ip) \/ In(todo, Task("cert", q))
        BY <3>2 DEF Serving, Has
      <4>2. q \in Pairs
        BY DEF Pairs, Signed
      <4>3. p # q => (In(todo, Task("cert", q)) => In(t, Task("cert", q)))
        BY <1>1, <1>3 DEF Task
      <4> QED
        BY <1>6, <1>8, <4>1, <4>2, <4>3
    <3> QED
      BY <1>2, <3>1, <3>2 DEF Serving, Has
  <2>6. Whole(key["ca"]) \/ Some(todo, "load") => Whole(key'["ca"]) \/ Some(t, "load")
    BY <1>1, <1>2, <1>3 DEF Whole
  <2> QED
    BY <2>1, <2>3, <2>4, <2>5, <2>6
<1>18. Started'
  BY <1>1, <1>2 DEF Started
<1> QED
  BY <1>9, <1>11, <1>12, <1>13, <1>14, <1>15, <1>16, <1>17, <1>18

LEMMA DropKeeps == ASSUME IInv, Drop PROVE IInv'
<1> USE DEF IInv
<1> DEFINE t == Tail(todo)
           p == Of
<1>1. /\ todo # <<>> /\ Ordered(todo) /\ todo[1] = Task("drop", p) /\ p \in Pairs \cup {"crl"}
      /\ todo[1].op = "drop" /\ todo[1].of = p /\ 1 \in 1 .. Len(todo)
  BY AtHead DEF Drop
<1>2. PICK stays \in SUBSET {"key", "cert"} :
        /\ failures' = IF stays = {} THEN failures ELSE failures + 1
        /\ IF p = "crl"
           THEN crl' = (IF stays = {} THEN None ELSE crl) /\ UNCHANGED <<key, cert>>
           ELSE /\ key' = IF "key" \in stays THEN key ELSE [key EXCEPT ![p] = None]
                /\ cert' = IF "cert" \in stays THEN cert ELSE [cert EXCEPT ![p] = None]
                /\ UNCHANGED crl
  BY DEF Drop
<1>2a. todo' = t /\ UNCHANGED <<env, db, up, ip, left, crashes>>
  BY DEF Drop, Done, run
<1>3. /\ Ordered(t)
      /\ \A x : In(todo, x) => todo[1] = x \/ In(t, x)
      /\ Some(todo, "drop") /\ (\A op : Some(t, op) => Some(todo, op))
      /\ \A x : In(t, x) => In(todo, x)
  BY <1>1, Rest, Members
<1>4. ~Some(todo, "up")
  <2>1. \A j \in 1 .. Len(todo) : todo[j].op # "up"
    BY <1>1 DEF Ordered
  <2> QED
    BY <2>1 DEF Some
<1>5. None \in Keys /\ None \in Certificates
  BY DEF Keys, Certificates
<1>6. /\ key' \in [Pairs -> Keys] /\ cert' \in [Pairs -> Certificates] /\ crl' \in Keys
      /\ failures' \in Nat
      /\ \A q \in Pairs : /\ key'[q] \in {None, key[q]} /\ cert'[q] \in {None, cert[q]}
                         /\ (q # p => cert'[q] = cert[q])
                         /\ (q = p /\ stays = {} => cert'[q] = None)
  <2>1. CASE p = "crl"
    BY <1>2, <1>5, <2>1 DEF Types, Pairs, Signed, Services, Internal
  <2>2. CASE p # "crl"
    <3>1. /\ key' \in [Pairs -> Keys]
          /\ \A q \in Pairs : key'[q] \in {None, key[q]}
      BY <1>1, <1>2, <1>5, <2>2 DEF Types
    <3>2. /\ cert' \in [Pairs -> Certificates]
          /\ \A q \in Pairs : cert'[q] \in {None, cert[q]} /\ (q # p => cert'[q] = cert[q])
      BY <1>1, <1>2, <1>5, <2>2 DEF Types
    <3>3. stays = {} => cert' = [cert EXCEPT ![p] = None]
      BY <1>2, <2>2
    <3>4. crl' \in Keys /\ failures' \in Nat
      BY <1>2, <2>2 DEF Types
    <3> QED
      BY <1>1, <3>1, <3>2, <3>3, <3>4 DEF Types
  <2> QED
    BY <2>1, <2>2
<1>7. CaFirst'
  BY <1>1, <1>2a, CaFirstRest DEF KeyCa, Task
<1>8. t # <<>> => t[1].op # "cert" /\ ~(t[1].op = "key" /\ t[1].of \in Own)
  <2> SUFFICES ASSUME t # <<>>
               PROVE  t[1].op # "cert" /\ ~(t[1].op = "key" /\ t[1].of \in Own)
    OBVIOUS
  <2>1. /\ Len(t) \in Nat /\ Len(todo) = Len(t) + 1 /\ t \in Seq(Tasks)
        /\ \A i \in 1 .. Len(t) : t[i] = todo[i + 1]
    BY <1>1, Tails
  <2> HIDE DEF t
  <2>2. 2 \in 1 .. Len(todo) /\ t[1] = todo[2]
    BY <2>1
  <2>3. todo[2].op = "cert" => todo[1] = Task("key", todo[2].of)
    BY <1>1, <2>2 DEF Ordered
  <2>4. todo[2].op = "key" => todo[2].of \notin Own
    BY <1>1, <2>2 DEF Ordered
  <2> QED
    BY <1>1, <2>2, <2>3, <2>4 DEF Task
<1> HIDE DEF t, p
<1>10. Types'
  BY <1>2a, <1>6 DEF Types
<1>11. Ordered(todo')
  BY <1>2a, <1>3
<1>12. CaSound'
  <2>1. "ca" \in Pairs
    BY DEF Pairs
  <2> QED
    BY <1>2a, <1>6, <2>1 DEF CaSound, Whole
<1>13. Writing'
  BY <1>2a, <1>8 DEF Writing
<1>14. Outlived'
  <2> SUFFICES ASSUME Untouched'
               PROVE  left' = {} /\ \A q \in MayOutlive : Gone(q)'
    BY DEF Outlived
  <2>1. stays = {} /\ Untouched
    BY <1>2, <1>2a DEF Types, Untouched
  <2>2. ASSUME NEW q \in MayOutlive PROVE Gone(q)'
    <3>1. Gone(q)
      BY <1>3, <2>1 DEF Outlived
    <3>2. q \in Pairs
      BY DEF MayOutlive, Pairs, Signed, Internal
    <3>3. q = p => cert'[q] = None
      BY <1>6, <2>1, <3>2
    <3>4. q # p => (Has(Task("drop", q)) => In(t, Task("drop", q)))
      BY <1>1, <1>3 DEF Has, Task
    <3> QED
      BY <1>2a, <1>6, <3>1, <3>2, <3>3, <3>4 DEF Gone, Has
  <2> QED
    BY <1>2a, <2>1, <2>2 DEF Outlived
<1>15. OwnSound'
  <2> SUFFICES ASSUME NEW q \in Own PROVE Sound(q)'
    BY DEF OwnSound
  <2>1. q \in Pairs /\ "ca" \in Pairs
    BY DEF Own, Pairs, Signed, Internal
  <2> QED
    BY <1>2a, <1>6, <2>1 DEF OwnSound, Sound, Whole
<1>16. Starting'
  BY <1>2a, <1>3, <1>4 DEF Starting
<1>17. Started'
  BY <1>1, <1>2a DEF Started
<1> QED
  BY <1>7, <1>10, <1>11, <1>12, <1>13, <1>14, <1>15, <1>16, <1>17

LEMMA DropDbKeeps == ASSUME IInv, DropDb PROVE IInv'
<1> USE DEF IInv
<1> DEFINE t == Tail(todo)
<1>1. /\ todo # <<>> /\ Ordered(todo) /\ todo[1].op = "dropDb" /\ 1 \in 1 .. Len(todo)
      /\ todo[1].of # "time"
  BY AtHead DEF DropDb, Plain
<1>2. /\ todo' = t /\ db' = None
      /\ UNCHANGED <<key, cert, crl, env, up, ip, left, crashes, failures>>
  BY DEF DropDb, Done, keep, run
<1>3. /\ Ordered(t)
      /\ \A op : Some(todo, op) => todo[1].op = op \/ Some(t, op)
      /\ \A op : Some(t, op) => Some(todo, op)
      /\ \A q : About(todo, q) => todo[1].of = q \/ About(t, q)
      /\ \A x : In(todo, x) => todo[1] = x \/ In(t, x)
      /\ \A x : In(t, x) => In(todo, x)
      /\ \A q : ~In(todo, Task("drop", q))
      /\ ~Some(t, "drop") /\ ~Some(t, "dropDb")
  BY <1>1, Rest, Members, NoRemovals
<1>5. CaFirst'
  BY <1>1, <1>2, CaFirstRest DEF KeyCa, Task
<1>6. t # <<>> => t[1].op # "cert" /\ ~(t[1].op = "key" /\ t[1].of \in Own)
  <2> SUFFICES ASSUME t # <<>>
               PROVE  t[1].op # "cert" /\ ~(t[1].op = "key" /\ t[1].of \in Own)
    OBVIOUS
  <2>1. /\ Len(t) \in Nat /\ Len(todo) = Len(t) + 1 /\ t \in Seq(Tasks)
        /\ \A i \in 1 .. Len(t) : t[i] = todo[i + 1]
    BY <1>1, Tails
  <2> HIDE DEF t
  <2>2. 2 \in 1 .. Len(todo) /\ t[1] = todo[2]
    BY <2>1
  <2>3. todo[2].op = "cert" => todo[1] = Task("key", todo[2].of)
    BY <1>1, <2>2 DEF Ordered
  <2>4. todo[2].op = "key" => todo[2].of \notin Own
    BY <1>1, <2>2 DEF Ordered
  <2> QED
    BY <1>1, <2>2, <2>3, <2>4 DEF Task
<1> HIDE DEF t
<1>7. Types'
  BY <1>2 DEF Types, Keys
<1>8. Ordered(todo') /\ CaSound'
  BY <1>2, <1>3 DEF CaSound
<1>9. Writing'
  BY <1>2, <1>6 DEF Writing
<1>10. Outlived'
  BY <1>1, <1>2, <1>3 DEF Outlived, Untouched, Gone, Has
<1>11. OwnSound'
  BY <1>2 DEF OwnSound, Sound
<1>12. Starting'
  <2> SUFFICES ASSUME Some(t, "up") PROVE (cert["time"] # None \/ About(t, "time"))
                 /\ (Whole(key'["ca"]) \/ Some(t, "load"))
                 /\ (Some(t, "services") \/ Serving')
    BY <1>2 DEF Starting
  <2>1. /\ cert["time"] # None \/ About(todo, "time")
        /\ Whole(key["ca"]) \/ Some(todo, "load")
        /\ Some(todo, "services") \/ Serving
    BY <1>3 DEF Starting
  <2>2. Serving => Serving'
    <3>1. \A q : In(todo, Task("cert", q)) => In(t, Task("cert", q))
      BY <1>1, <1>3 DEF Task
    <3>2. Some(todo, "endpoint") => Some(t, "endpoint")
      BY <1>1, <1>3
    <3> QED
      BY <1>2, <3>1, <3>2 DEF Serving, Has
  <2>3. Whole(key["ca"]) \/ Some(todo, "load") => Whole(key'["ca"]) \/ Some(t, "load")
    BY <1>1, <1>2, <1>3 DEF Whole
  <2> QED
    BY <1>1, <1>3, <2>1, <2>2, <2>3
<1>13. Started'
  BY <1>1, <1>2 DEF Started
<1> QED
  BY <1>5, <1>7, <1>8, <1>9, <1>10, <1>11, <1>12, <1>13

\* The steps that leave every identity as it is, and those that end the run.
LEMMA RaiseKeeps ==
  ASSUME IInv, Raise, UNCHANGED <<files, up, ip, left, crashes, failures>>, todo # <<>>, todo[1].op # "drop"
  PROVE  IInv'
<1> USE DEF IInv
<1>1. \A q : ~In(todo, Task("drop", q))
  BY NoRemovals
<1>2. todo' = <<>> /\ UNCHANGED <<key, cert, crl, env, db, up, ip, left, crashes, failures>>
  BY DEF Raise, files
<1>3. Types' /\ CaSound'
  BY <1>2 DEF Types, CaSound
<1>4. OwnSound' /\ Outlived'
  BY <1>1, <1>2 DEF OwnSound, Sound, Outlived, Untouched, Gone, Has, Some, In
<1>5. Started'
  BY <1>2 DEF Started
<1> QED
  BY <1>2, <1>3, <1>4, <1>5, Ended

LEMMA WritesKeep == ASSUME IInv, WriteCrl \/ WriteNewEnv \/ RewriteEnv PROVE IInv'
<1> USE DEF IInv
<1>0. None \in Keys
  BY DEF Keys
<1>1. "ca" \in Pairs
  BY DEF Pairs
<1>2. CASE WriteCrl
  <2>1. /\ todo # <<>> /\ todo[1].op = "crl" /\ todo[1].of # "time"
        /\ todo' = Tail(todo) /\ crl' = key["ca"] /\ UNCHANGED <<key, cert, env, db, up, ip, left, crashes, failures>>
    BY <1>2, AtHead DEF WriteCrl, Done, keep, run, Plain
  <2>2. Types'
    BY <1>1, <2>1 DEF Types
  <2> QED
    BY <2>1, <2>2, Passed
<1>3. CASE WriteNewEnv
  <2>1. /\ todo # <<>> /\ todo[1].op = "newEnv" /\ todo[1].of # "time"
        /\ todo' = Tail(todo) /\ env' = NewEnv /\ UNCHANGED <<key, cert, crl, db, up, ip, left, crashes, failures>>
    BY <1>3, AtHead DEF WriteNewEnv, Done, keep, run, Plain
  <2>2. NewMaster \in Keys
    <3>1. 1 \in 1 .. MaxKeys /\ 2 \in 1 .. MaxKeys /\ 3 \in 1 .. MaxKeys
      BY InstallationAssumption
    <3>2. \E n \in 1 .. MaxKeys : n \notin {db, env.master}
      BY <3>1
    <3>3. NewMaster \in 1 .. MaxKeys
      BY <3>2 DEF NewMaster
    <3> QED
      BY <3>3 DEF Keys
  <2>3. Types' /\ env'.ip = ip
    BY <2>1, <2>2 DEF Types, NewEnv
  <2> QED
    BY <2>1, <2>3, Passed
<1>4. CASE RewriteEnv
  <2>1. /\ todo # <<>> /\ todo[1].op \in {"endpoint", "rotate"} /\ todo[1].of # "time"
        /\ Head(todo).op = todo[1].op
        /\ todo' = Tail(todo) /\ env' = Updated(Head(todo).op)
        /\ UNCHANGED <<key, cert, crl, db, up, ip, left, crashes, failures>>
    BY <1>4, AtHead DEF RewriteEnv, Done, keep, run, Plain, At
  <2>2. Types' /\ (env'.ip = ip \/ (env'.ip = env.ip /\ todo[1].op # "endpoint"))
    BY <2>1 DEF Types, Updated
  <2> QED
    BY <2>1, <2>2, Passed
<1> QED
  BY <1>2, <1>3, <1>4

LEMMA ChecksKeep == ASSUME IInv, CheckInitialized \/ LoadCa PROVE IInv'
<1> USE DEF IInv
<1>1. /\ todo # <<>> /\ todo[1].op \in {"initialized", "load"} /\ todo[1].of # "time"
      /\ UNCHANGED <<key, cert, crl, env, db, up, ip, left, crashes, failures>>
      /\ UNCHANGED <<files, up, ip, left, crashes, failures>>
      /\ Raise \/ (todo' = Tail(todo) /\ (todo[1].op = "initialized" => key["ca"] # None)
                                      /\ (todo[1].op = "load" => Whole(key["ca"])))
  BY AtHead DEF CheckInitialized, LoadCa, Done, keep, run, files, Plain
<1>2. Types'
  BY <1>1 DEF Types
<1> QED
  BY <1>1, <1>2, Passed, RaiseKeeps

\* The start, after which nothing is left to do.
LEMMA BringUpKeeps == ASSUME IInv, BringUp PROVE IInv'
<1> USE DEF IInv
<1>1. /\ todo # <<>> /\ Ordered(todo) /\ todo[1].op = "up" /\ todo[1].of # "time"
      /\ 1 \in 1 .. Len(todo)
      /\ todo' = Tail(todo) /\ up' = StackHealthy /\ UNCHANGED <<key, cert, crl, env, ip, left, crashes, failures>>
      /\ db' = IF StackHealthy /\ db = None THEN env.master ELSE db
  BY AtHead DEF BringUp, Done, keep, run, Plain
<1>2. Len(todo) = 1
  BY <1>1 DEF Ordered
<1>3. todo' = <<>>
  <2>1. Tail(todo) \in Seq(Tasks) /\ Len(Tail(todo)) \in Nat /\ Len(todo) = Len(Tail(todo)) + 1
    BY <1>1, Tails
  <2>2. Len(Tail(todo)) = 0
    BY <1>2, <2>1
  <2> QED
    BY <1>1, <2>1, <2>2, EmptySeq
<1>4. \A i \in 1 .. Len(todo) : i = 1
  BY <1>2
<1>5. /\ Some(todo, "up") /\ ~Some(todo, "services") /\ ~Some(todo, "endpoint")
      /\ ~Some(todo, "load") /\ ~Some(todo, "drop")
      /\ ~About(todo, "time") /\ \A x : In(todo, x) => todo[1] = x
  BY <1>1, <1>4 DEF Some, About, In
<1>6. cert["time"] # None /\ Serving /\ Whole(key["ca"])
  BY <1>5 DEF Starting
<1>7. env.ip = ip /\ \A p \in Services : Whole(cert[p]) => cert[p].ip = ip
  <2>1. \A p : ~In(todo, Task("cert", p))
    BY <1>1, <1>5 DEF Task
  <2> QED
    BY <1>5, <1>6, <2>1 DEF Serving, Has
<1>8. StackHealthy \in BOOLEAN
  BY DEF StackHealthy
<1>9. Types' /\ CaSound'
  BY <1>1, <1>8 DEF Types, CaSound
<1>10. OwnSound' /\ Outlived'
  <2>1. \A q : ~In(todo, Task("drop", q))
    BY <1>1, NoRemovals
  <2>2. ~In(todo', KeyCa) /\ ~Some(todo', "drop")
    BY <1>3 DEF In, Some
  <2> QED
    BY <1>1, <2>1, <2>2 DEF OwnSound, Sound, Outlived, Untouched, Gone, Has
<1>11. Started'
  <2>1. StackHealthy => \A p \in Services : Whole(cert[p])
    BY DEF StackHealthy, Valid, Services
  <2>2. StackHealthy => StackHealthy'
    BY <1>1 DEF StackHealthy, Valid
  <2> QED
    BY <1>1, <1>3, <1>6, <1>7, <2>1, <2>2 DEF Started
<1> QED
  BY <1>3, <1>9, <1>10, <1>11, Ended

\* A check may put tasks of its own first.
LEMMA EnsurePairKeeps == ASSUME IInv, EnsurePair PROVE IInv'
<1> USE DEF IInv
<1> DEFINE t == Tail(todo)
           p == Of
           new == Pair(p) \o t
<1>1. /\ todo # <<>> /\ Ordered(todo) /\ todo[1].op \in {"time", "internal"} /\ todo[1].of = p
      /\ p \in Own /\ (p = "time" => todo[1].op = "time") /\ 1 \in 1 .. Len(todo)
  BY AtHead DEF EnsurePair, Own, Internal
<1>2. UNCHANGED <<files, up, ip, left, crashes, failures>> /\ UNCHANGED <<key, cert, crl, env, db, up, ip, left, crashes, failures>>
  BY DEF EnsurePair, keep, run, files
<1>3. \/ todo' = t /\ key[p] # None /\ cert[p] # None
      \/ Raise
      \/ todo' = new /\ Missing(p)
  BY DEF EnsurePair, Done, Then, Missing
<1>4. Types'
  BY <1>2 DEF Types
<1>5. CASE todo' = t /\ cert[p] # None
  BY <1>1, <1>2, <1>4, <1>5, Passed
<1>6. CASE Raise
  BY <1>1, <1>2, <1>6, RaiseKeeps
<1>7. CASE todo' = new /\ Missing(p)
  <2>1. Calm(t) /\ WithoutCa(t) /\ t \in Seq(Tasks)
    BY <1>1, CalmRest DEF Calm
  <2>2. /\ \A op : Some(todo, op) => todo[1].op = op \/ Some(t, op)
        /\ \A op : Some(t, op) => Some(todo, op)
        /\ \A q : About(todo, q) => todo[1].of = q \/ About(t, q)
        /\ \A x : In(todo, x) => todo[1] = x \/ In(t, x)
        /\ ~Some(todo, "drop") /\ \A q : ~In(todo, Task("drop", q))
    BY <1>1, Members, NoRemovals
  <2>3. /\ Pair(p) \in Seq(Tasks) /\ Len(Pair(p)) = 2
        /\ Pair(p)[1] = Task("key", p) /\ Pair(p)[2] = Task("cert", p)
    <3>1. Task("key", p) \in Tasks /\ Task("cert", p) \in Tasks
      BY <1>1 DEF Task, Tasks, Own, Pairs, Signed, Internal
    <3> QED
      BY <3>1 DEF Pair
  <2> DEFINE n == Len(t)
  <2> HIDE DEF t, p
  <2>4. Joins(new, Pair(p), t) /\ n \in Nat /\ n = Len(t)
    BY <2>1 DEF Joins
  <2>5. /\ new \in Seq(Tasks) /\ Len(new) = Len(Pair(p)) + Len(t)
        /\ Starts(new, Pair(p)) /\ Ends(new, Pair(p), t)
    BY <2>1, <2>3, <2>4, Joined
  <2>6. /\ \A op : Some(t, op) => Some(new, op)
        /\ \A q : About(Pair(p), q) \/ About(t, q) => About(new, q)
    BY <2>1, <2>3, InsideSome
  <2> HIDE DEF new, n
  <2>7. /\ Len(new) = 2 + n /\ new[1] = Task("key", p) /\ new[2] = Task("cert", p)
        /\ \A i \in 1 .. 2 + n : i > 2 => i - 2 \in 1 .. n /\ new[i] = t[i - 2]
    BY <2>3, <2>4, <2>5 DEF Starts, Ends
  <2>8. /\ new[1].op = "key" /\ new[1].of = p /\ new[2].op = "cert" /\ new[2].of = p
        /\ new[1] # KeyCa /\ new[2] # KeyCa /\ p # "ca"
    BY <1>1, <2>7 DEF Task, KeyCa, Own, Internal
  <2>9. ASSUME NEW i \in 1 .. 2 + n, i > 2
        PROVE  /\ new[i].op = "key" => i < 2 + n /\ new[i + 1] = Task("cert", new[i].of)
               /\ new[i].op = "key" => new[i].of \notin Own
               /\ new[i].op = "cert" => new[i - 1] = Task("key", new[i].of)
               /\ new[i].op = "up" => i = 2 + n
               /\ new[i].op \notin {"drop", "dropDb"} /\ new[i] # KeyCa
    <3>1. i - 2 \in 1 .. n /\ new[i] = t[i - 2]
      BY <2>7, <2>9
    <3>2. /\ t[i - 2].op = "key" => i - 2 < n /\ t[i - 2 + 1] = Task("cert", t[i - 2].of)
          /\ t[i - 2].op = "key" => t[i - 2].of \notin Own
          /\ t[i - 2].op = "cert" => i - 2 > 1 /\ t[(i - 2) - 1] = Task("key", t[i - 2].of)
          /\ t[i - 2].op = "up" => i - 2 = n
          /\ t[i - 2].op \notin {"drop", "dropDb"} /\ t[i - 2] # KeyCa
      BY <2>1, <2>4, <3>1 DEF Calm, WithoutCa
    <3>3. i < 2 + n => new[i + 1] = t[i - 2 + 1]
      <4> SUFFICES ASSUME i < 2 + n PROVE new[i + 1] = t[i - 2 + 1]
        OBVIOUS
      <4>1. i + 1 \in 1 .. 2 + n /\ i + 1 > 2 /\ (i + 1) - 2 = i - 2 + 1
        BY <2>4, <2>9
      <4> QED
        BY <2>7, <4>1
    <3>4. i > 3 => new[i - 1] = t[(i - 2) - 1]
      <4> SUFFICES ASSUME i > 3 PROVE new[i - 1] = t[(i - 2) - 1]
        OBVIOUS
      <4>1. i - 1 \in 1 .. 2 + n /\ i - 1 > 2 /\ (i - 1) - 2 = (i - 2) - 1
        BY <2>4
      <4> QED
        BY <2>7, <4>1
    <3> QED
      BY <2>4, <3>1, <3>2, <3>3, <3>4
  <2>10. \A i \in 1 .. 2 + n : i = 1 \/ i = 2 \/ i > 2
    BY <2>4
  <2>11. \A i \in 1 .. 2 + n : new[i].op \notin {"drop", "dropDb"} /\ new[i] # KeyCa
    BY <2>8, <2>9, <2>10
  <2>12. Ordered(new)
    <3>1. ASSUME NEW i \in 1 .. 2 + n
          PROVE  /\ new[i].op = "key" => i < 2 + n /\ new[i + 1] = Task("cert", new[i].of)
                 /\ new[i].op = "key" /\ new[i].of \in Own => i = 1
                 /\ new[i].op = "cert" => i = 1 \/ new[i - 1] = Task("key", new[i].of)
                 /\ new[i].op = "up" => i = 2 + n
      <4>1. CASE i = 1
        BY <2>4, <2>7, <2>8, <4>1
      <4>2. CASE i = 2
        <5>1. new[i - 1] = Task("key", new[i].of)
          BY <2>7, <2>8, <4>2
        <5> QED
          BY <2>8, <4>2, <5>1
      <4>3. CASE i > 2
        BY <2>9, <4>3
      <4> QED
        BY <2>10, <4>1, <4>2, <4>3
    <3> QED
      BY <2>5, <2>7, <2>11, <3>1 DEF Ordered
  <2>13. ~Some(new, "drop") /\ ~Some(new, "dropDb") /\ ~In(new, KeyCa)
    BY <2>7, <2>11 DEF Some, In
  <2>14. key["ca"] # None
    <3>1. AboutOwn(todo[1]) /\ ~CaBefore(1)
      BY <1>1 DEF AboutOwn, CaBefore
    <3> QED
      BY <1>1, <3>1 DEF CaFirst
  <2>15. CaSound' /\ Ordered(todo')
    BY <1>2, <1>7, <2>12 DEF CaSound
  <2>16. Writing'
    BY <1>2, <1>7, <2>8 DEF Writing, Missing
  <2>17. Outlived'
    BY <1>2, <1>7, <2>2, <2>13 DEF Outlived, Untouched, Gone, Has
  <2>18. OwnSound'
    BY <1>2 DEF OwnSound, Sound
  <2>19. CaFirst'
    BY <1>2, <1>7, <2>13, <2>14 DEF CaFirst
  <2>20. Starting'
    <3> SUFFICES ASSUME Some(new, "up") PROVE (cert["time"] # None \/ About(new, "time"))
                   /\ (Whole(key["ca"]) \/ Some(new, "load"))
                   /\ (Some(new, "services") \/ Serving')
      BY <1>2, <1>7 DEF Starting
    <3>1. Some(t, "up")
      <4>1. PICK i \in 1 .. 2 + n : new[i].op = "up"
        BY <2>7 DEF Some
      <4>2. i > 2
        BY <2>8, <2>10, <4>1
      <4>3. i - 2 \in 1 .. Len(t) /\ t[i - 2].op = "up"
        BY <2>4, <2>7, <4>1, <4>2
      <4> QED
        BY <4>3 DEF Some
    <3>2. /\ cert["time"] # None \/ About(todo, "time")
          /\ Whole(key["ca"]) \/ Some(todo, "load")
          /\ Some(todo, "services") \/ Serving
      BY <2>2, <3>1 DEF Starting
    <3>3. About(new, p)
      BY <2>4, <2>7, <2>8 DEF About
    <3>4. \A q : In(todo, Task("cert", q)) => In(new, Task("cert", q))
      <4>1. \A q : In(todo, Task("cert", q)) => In(t, Task("cert", q))
        BY <1>1, <2>2 DEF Task
      <4>2. \A i \in 1 .. n : i + 2 \in 1 .. 2 + n /\ i + 2 > 2 /\ (i + 2) - 2 = i
        BY <2>4
      <4>3. \A i \in 1 .. n : i + 2 \in 1 .. Len(new) /\ new[i + 2] = t[i]
        BY <2>7, <4>2
      <4>4. \A x : In(t, x) => In(new, x)
        BY <2>4, <4>3 DEF In
      <4> QED
        BY <4>1, <4>4
    <3>5. Serving => Serving'
      <4>1. Some(todo, "endpoint") => Some(new, "endpoint")
        BY <1>1, <2>2, <2>6
      <4> QED
        BY <1>2, <1>7, <3>4, <4>1 DEF Serving, Has
    <3> QED
      BY <1>1, <2>2, <2>6, <3>2, <3>3, <3>5
  <2>21. Started'
    BY <1>1, <1>2 DEF Started
  <2> QED
    BY <1>4, <2>15, <2>16, <2>17, <2>18, <2>19, <2>20, <2>21
<1> QED
  BY <1>3, <1>5, <1>6, <1>7

LEMMA CheckServicesKeeps == ASSUME IInv, CheckServices PROVE IInv'
<1> USE DEF IInv
<1> DEFINE t == Tail(todo)
           good == <<Task("rotate", "env")>>
           bad == ServiceTasks \o <<Task("endpoint", "env")>>
<1>1. /\ todo # <<>> /\ Ordered(todo) /\ todo[1].op = "services" /\ todo[1].of # "time"
      /\ 1 \in 1 .. Len(todo)
  BY AtHead DEF CheckServices, Plain
<1>2. UNCHANGED <<key, cert, crl, env, db, up, ip, left, crashes, failures>>
  BY DEF CheckServices, keep, run, files
<1>3. \/ todo' = good \o t /\ env.ip = ip /\ \A p \in Services : cert[p].ip = ip
      \/ todo' = bad \o t
  BY DEF CheckServices, Then, Compatible
<1>4. Calm(t) /\ WithoutCa(t) /\ t \in Seq(Tasks)
  BY <1>1, CalmRest DEF Calm
<1>5. /\ \A op : Some(t, op) => Some(todo, op)
      /\ Some(todo, "load") => Some(t, "load")
      /\ \A q : About(todo, q) => todo[1].of = q \/ About(t, q)
      /\ \A x : In(todo, x) => todo[1] = x \/ In(t, x)
      /\ ~Some(todo, "drop") /\ \A q : ~In(todo, Task("drop", q))
  BY <1>1, Members, NoRemovals
<1>6. /\ Len(t) \in Nat /\ Len(todo) = Len(t) + 1
      /\ \A i \in 1 .. Len(t) : i + 1 \in 1 .. Len(todo) /\ t[i] = todo[i + 1]
  BY <1>1, Tails
<1>7. Calm(good) /\ Without(good, "up") /\ WithoutCa(good) /\ Len(good) = 1
  BY DEF Calm, Without, WithoutCa, Task, KeyCa, Tasks, Plain
<1>8. /\ Calm(bad) /\ Without(bad, "up") /\ WithoutCa(bad) /\ Len(bad) = 5
      /\ bad[2] = Task("cert", "api") /\ bad[4] = Task("cert", "broker")
      /\ bad[5] = Task("endpoint", "env")
      /\ bad[1] = Task("key", "api") /\ bad[3] = Task("key", "broker")
  <2> DEFINE last == <<Task("endpoint", "env")>>
  <2>1. /\ Pair("api") \in Seq(Tasks) /\ Len(Pair("api")) = 2
        /\ Pair("broker") \in Seq(Tasks) /\ Len(Pair("broker")) = 2
        /\ Pair("api")[1] = Task("key", "api") /\ Pair("api")[2] = Task("cert", "api")
        /\ Pair("broker")[1] = Task("key", "broker") /\ Pair("broker")[2] = Task("cert", "broker")
        /\ last \in Seq(Tasks) /\ Len(last) = 1 /\ last[1] = Task("endpoint", "env")
    BY DEF Pair, Task, Tasks, Plain, Pairs, Signed, Services
  <2>2. Joins(ServiceTasks, Pair("api"), Pair("broker")) /\ Joins(bad, ServiceTasks, last)
    BY DEF Joins, ServiceTasks
  <2> HIDE DEF bad, last
  <2>3. /\ ServiceTasks \in Seq(Tasks)
        /\ Len(ServiceTasks) = Len(Pair("api")) + Len(Pair("broker"))
        /\ Starts(ServiceTasks, Pair("api")) /\ Ends(ServiceTasks, Pair("api"), Pair("broker"))
    BY <2>1, <2>2, Joined
  <2>4. /\ Len(ServiceTasks) = 4
        /\ ServiceTasks[1] = Task("key", "api") /\ ServiceTasks[2] = Task("cert", "api")
        /\ ServiceTasks[3] = Task("key", "broker") /\ ServiceTasks[4] = Task("cert", "broker")
    BY <2>1, <2>3 DEF Starts, Ends
  <2>5. /\ bad \in Seq(Tasks) /\ Len(bad) = Len(ServiceTasks) + Len(last)
        /\ Starts(bad, ServiceTasks) /\ Ends(bad, ServiceTasks, last)
    BY <2>1, <2>2, <2>3, Joined
  <2>6. /\ Len(bad) = 5
        /\ bad[1] = Task("key", "api") /\ bad[2] = Task("cert", "api")
        /\ bad[3] = Task("key", "broker") /\ bad[4] = Task("cert", "broker")
        /\ bad[5] = Task("endpoint", "env")
    BY <2>1, <2>4, <2>5 DEF Starts, Ends
  <2>7. \A i \in 1 .. 5 : i = 1 \/ i = 2 \/ i = 3 \/ i = 4 \/ i = 5
    OBVIOUS
  <2>8. \A i \in 1 .. 5 :
          /\ bad[i].op = "key" => i < 5 /\ bad[i + 1] = Task("cert", bad[i].of)
          /\ bad[i].op = "cert" => i > 1 /\ bad[i - 1] = Task("key", bad[i].of)
          /\ bad[i].op \in {"key", "cert"} => bad[i].of \notin Own
          /\ bad[i].op \notin {"drop", "dropDb", "up"} /\ bad[i] # KeyCa
    BY <2>6, <2>7 DEF Task, KeyCa, Own, Internal
  <2> QED
    BY <2>5, <2>6, <2>8 DEF Calm, Without, WithoutCa
<1>9. ASSUME NEW s \in {good, bad}, NEW m \in Nat, Len(s) = m, s # <<>>,
             Calm(s), Without(s, "up"), WithoutCa(s),
             \A i \in 1 .. m : ~AboutOwn(s[i]),
             todo' = s \o t,
             Serving'
      PROVE  IInv'
  <2> HIDE DEF t, good, bad
  <2> DEFINE new == s \o t
             n == Len(t)
  <2>0. s \in Seq(Tasks)
    BY <1>9 DEF Calm
  <2>1. Calm(new) /\ new # <<>> /\ new[1] = s[1] /\ s \in Seq(Tasks)
    BY <1>4, <1>9, <2>0, Lead
  <2>2. Joins(new, s, t) /\ n \in Nat /\ n = Len(t)
    BY <1>6 DEF Joins
  <2>3. /\ new \in Seq(Tasks) /\ Len(new) = Len(s) + Len(t)
        /\ Starts(new, s) /\ Ends(new, s, t)
    BY <1>4, <2>1, <2>2, Joined
  <2>4. /\ \A op : Some(t, op) => Some(new, op)
        /\ \A q : About(t, q) => About(new, q)
    BY <1>4, <2>1, InsideSome
  <2>5. todo' = new
    BY <1>9
  <2> HIDE DEF new, n
  <2>6. /\ Len(new) = m + n
        /\ \A i \in 1 .. m : new[i] = s[i]
        /\ \A i \in 1 .. m + n : i > m => i - m \in 1 .. n /\ new[i] = t[i - m]
    BY <1>9, <2>2, <2>3 DEF Starts, Ends
  <2>7. Ordered(new) /\ 1 \in 1 .. Len(new)
    BY <2>1, CalmIsOrdered DEF Calm
  <2>8. \A i \in 1 .. m + n : new[i] # KeyCa
    <3>1. ASSUME NEW i \in 1 .. m + n PROVE new[i] # KeyCa
      <4>1. CASE i <= m
        <5>1. i \in 1 .. m
          BY <1>9, <4>1
        <5> QED
          BY <1>9, <2>6, <5>1 DEF WithoutCa
      <4>2. CASE i > m
        BY <1>4, <2>2, <2>6, <4>2 DEF WithoutCa
      <4> QED
        BY <1>9, <2>2, <4>1, <4>2
    <3> QED
      BY <3>1
  <2>9. ~Some(new, "drop") /\ ~Some(new, "dropDb") /\ ~In(new, KeyCa)
    BY <2>1, <2>6, <2>8 DEF Some, In, Calm
  <2>10. Types' /\ CaSound' /\ Ordered(todo')
    BY <1>2, <2>5, <2>7 DEF Types, CaSound
  <2>11. Writing'
    <3>1. new[1].op # "cert" /\ ~(new[1].op = "key" /\ new[1].of \in Own)
      BY <2>1, <2>7 DEF Calm
    <3> QED
      BY <2>5, <3>1 DEF Writing
  <2>12. Outlived'
    BY <1>2, <1>5, <2>5, <2>9 DEF Outlived, Untouched, Gone, Has
  <2>13. OwnSound'
    BY <1>2 DEF OwnSound, Sound
  <2>14. CaFirst'
    <3> SUFFICES ASSUME NEW i \in 1 .. m + n, AboutOwn(new[i])
                 PROVE  \/ \E j \in 1 .. m + n :
                              j < i /\ new[j] \in {KeyCa, Task("initialized", "ca")}
                        \/ key["ca"] # None
      BY <1>2, <2>5, <2>6, <2>9 DEF CaFirst, CaBefore
    <3>1. i > m
      <4>1. ~(i \in 1 .. m)
        BY <1>9, <2>6
      <4> QED
        BY <1>9, <4>1
    <3>2. i - m \in 1 .. n /\ new[i] = t[i - m]
      BY <2>6, <3>1
    <3>3. i - m + 1 \in 1 .. Len(todo) /\ AboutOwn(todo[i - m + 1])
      BY <1>6, <2>2, <3>2
    <3>4. CaBefore(i - m + 1) \/ key["ca"] # None
      BY <3>3 DEF CaFirst
    <3>5. ASSUME CaBefore(i - m + 1)
          PROVE  \E j \in 1 .. m + n : j < i /\ new[j] \in {KeyCa, Task("initialized", "ca")}
      <4>1. PICK j \in 1 .. Len(todo) :
               j < i - m + 1 /\ todo[j] \in {KeyCa, Task("initialized", "ca")}
        BY <3>5 DEF CaBefore
      <4>2. j # 1
        BY <1>1, <4>1 DEF KeyCa, Task
      <4>3. j - 1 \in 1 .. n /\ (j - 1) + 1 = j
        BY <1>6, <2>2, <4>1, <4>2
      <4>4. t[j - 1] = todo[j]
        BY <1>6, <2>2, <4>3
      <4>5. m + (j - 1) \in 1 .. m + n /\ m + (j - 1) > m /\ (m + (j - 1)) - m = j - 1
            /\ m + (j - 1) < i
        BY <1>9, <2>2, <4>1, <4>3
      <4>6. new[m + (j - 1)] = t[j - 1]
        BY <2>6, <4>5
      <4> QED
        BY <4>1, <4>4, <4>5, <4>6
    <3> QED
      BY <3>4, <3>5
  <2>15. Starting'
    <3> SUFFICES ASSUME Some(new, "up")
                 PROVE  /\ cert["time"] # None \/ About(new, "time")
                        /\ Whole(key["ca"]) \/ Some(new, "load")
                        /\ Serving'
      BY <1>2, <2>5 DEF Starting
    <3>1. Some(t, "up")
      <4>1. PICK i \in 1 .. m + n : new[i].op = "up"
        BY <2>6 DEF Some
      <4>2. ~(i \in 1 .. m)
        BY <1>9, <2>6, <4>1 DEF Without
      <4>3. i > m
        BY <1>9, <4>2
      <4>4. i - m \in 1 .. Len(t) /\ t[i - m].op = "up"
        BY <2>2, <2>6, <4>1, <4>3
      <4> QED
        BY <4>4 DEF Some
    <3>2. /\ cert["time"] # None \/ About(todo, "time")
          /\ Whole(key["ca"]) \/ Some(todo, "load")
      BY <1>5, <3>1 DEF Starting
    <3> QED
      BY <1>1, <1>5, <1>9, <2>4, <3>2
  <2>16. Started'
    BY <1>1, <1>2 DEF Started
  <2> QED
    BY <2>10, <2>11, <2>12, <2>13, <2>14, <2>15, <2>16
<1>10. CASE todo' = good \o t /\ env.ip = ip /\ \A p \in Services : cert[p].ip = ip
  <2>1. \A i \in 1 .. 1 : ~AboutOwn(good[i])
    BY DEF AboutOwn, Task
  <2>2. Serving'
    BY <1>2, <1>10 DEF Serving
  <2>3. good # <<>>
    OBVIOUS
  <2> HIDE DEF good, bad, t
  <2> QED
    BY <1>7, <1>9, <1>10, <2>1, <2>2, <2>3
<1>11. CASE todo' = bad \o t
  <2>1. \A i \in 1 .. 5 : ~AboutOwn(bad[i])
    <3>1. \A i \in 1 .. 5 : i = 1 \/ i = 2 \/ i = 3 \/ i = 4 \/ i = 5
      OBVIOUS
    <3> HIDE DEF bad
    <3>2. /\ ~AboutOwn(bad[1]) /\ ~AboutOwn(bad[2]) /\ ~AboutOwn(bad[3])
          /\ ~AboutOwn(bad[4]) /\ ~AboutOwn(bad[5])
      BY <1>8 DEF AboutOwn, Task, Own, Internal
    <3> QED
      BY <3>1, <3>2
  <2> HIDE DEF good, bad, t
  <2>2. bad # <<>> /\ 5 \in Nat /\ bad \in Seq(Tasks)
    BY <1>8 DEF Calm
  <2>3. \A i \in 1 .. Len(bad) : \E k \in 1 .. Len(todo') : todo'[k] = bad[i]
    BY <1>4, <1>11, <2>2, Inside
  <2>4. 2 \in 1 .. Len(bad) /\ 4 \in 1 .. Len(bad) /\ 5 \in 1 .. Len(bad)
    BY <1>8
  <2>5. /\ In(todo', Task("cert", "api")) /\ In(todo', Task("cert", "broker"))
        /\ In(todo', Task("endpoint", "env"))
    BY <1>8, <2>3, <2>4 DEF In
  <2>6. Some(todo', "endpoint")
    BY <2>5 DEF In, Some, Task
  <2>7. Serving'
    BY <2>5, <2>6 DEF Serving, Has, Services
  <2> QED
    BY <1>8, <1>9, <1>11, <2>1, <2>2, <2>7
<1> QED
  BY <1>3, <1>10, <1>11

\* Runs begin.
LEMMA BeginKeeps == ASSUME IInv, Setup \/ SetupForce \/ StartPlatform PROVE IInv'
<1> USE DEF IInv
<1>1. /\ todo = <<>> /\ ip' \in Ips /\ up' = FALSE
      /\ UNCHANGED <<key, cert, crl, env, db, left, crashes, failures>>
      /\ \/ todo' = FirstRun /\ key["ca"] = None
         \/ todo' = Forced
         \/ todo' = Synchronize
         \/ todo' = Everything /\ key["ca"] = None
  BY DEF Setup, SetupForce, StartPlatform, Begin, Idle, files, Forced, Synchronize,
     Everything
<1>2. \A p : ~In(todo, Task("drop", p))
  BY <1>1 DEF In
<1>3. Untouched => left = {} /\ (key["ca"] = None => \A p \in MayOutlive : cert[p] = None)
  BY <1>2 DEF Outlived, Gone, Has
<1>4. Types' /\ CaSound' /\ Started'
  BY <1>1 DEF Types, CaSound, Started
<1>6. OwnSound'
  BY <1>1 DEF OwnSound, Sound
<1>7. CASE \/ todo' \in {FirstRun, Everything} /\ key["ca"] = None
           \/ todo' = Synchronize
  <2>1. /\ Calm(todo') /\ todo' # <<>> /\ todo'[1] \in {KeyCa, Task("initialized", "ca")}
        /\ key["ca"] = None \/ WithoutCa(todo')
        /\ Without(todo', "up") \/ (Some(todo', "services") /\ Some(todo', "load") /\ About(todo', "time"))
    BY <1>7, FirstRunIs, StartIs, Zenon
  <2>2. Ordered(todo') /\ 1 \in 1 .. Len(todo')
    BY <2>1, CalmIsOrdered DEF Calm
  <2>3. ~Some(todo', "drop") /\ ~Some(todo', "dropDb") /\ (WithoutCa(todo') => ~In(todo', KeyCa))
    BY <2>1 DEF Calm, Some, In, WithoutCa
  <2>4. Writing'
    <3>1. todo'[1].op # "cert" /\ ~(todo'[1].op = "key" /\ todo'[1].of \in Own)
      BY <2>1, <2>2 DEF Calm
    <3> QED
      BY <3>1 DEF Writing
  <2>5. Outlived'
    BY <1>1, <1>3, <2>1, <2>3 DEF Outlived, Untouched, Gone, Has
  <2>6. CaFirst'
    <3>1. \A i \in 1 .. Len(todo') : AboutOwn(todo'[i]) => i # 1
      BY <2>1 DEF AboutOwn, KeyCa, Task, Own, Internal
    <3>2. \A i \in 1 .. Len(todo') : i # 1 => 1 < i
      OBVIOUS
    <3> QED
      BY <2>1, <2>2, <3>1, <3>2 DEF CaFirst, CaBefore
  <2>7. Starting'
    BY <2>1 DEF Starting, Without, Some
  <2> QED
    BY <1>4, <1>6, <2>2, <2>4, <2>5, <2>6, <2>7
<1>8. CASE todo' = Forced
  <2>1. /\ Ordered(todo') /\ todo' # <<>> /\ todo'[1].op = "drop" /\ Without(todo', "up")
        /\ \A p \in Pairs : \E i \in 1 .. Len(todo') : todo'[i] = Task("drop", p)
        /\ \A i \in 1 .. Len(todo') :
             AboutOwn(todo'[i]) => \E j \in 1 .. Len(todo') : j < i /\ todo'[j] = KeyCa
    BY <1>8, ForcedIs
  <2>2. \A p \in MayOutlive : Gone(p)'
    BY <2>1 DEF Gone, Has, In, MayOutlive, Pairs, Signed, Internal
  <2>3. Writing' /\ CaFirst'
    BY <2>1 DEF Writing, CaFirst, CaBefore
  <2>4. Outlived'
    BY <1>1, <1>3, <2>2 DEF Outlived, Untouched
  <2>5. Starting'
    BY <2>1 DEF Starting, Without, Some
  <2> QED
    BY <1>4, <1>6, <2>1, <2>3, <2>4, <2>5
<1> QED
  BY <1>1, <1>7, <1>8

\* A run is killed, between two files or in the middle of one.
LEMMA KillKeeps == ASSUME IInv, Kill PROVE IInv'
<1> USE DEF IInv
<1>1. /\ todo # <<>> /\ todo' = <<>> /\ UNCHANGED <<ip, up>>
      /\ UNCHANGED <<key, cert, crl, env, db>> \/ (HalfWritten /\ UNCHANGED db)
      /\ left' = left /\ failures' = failures /\ crashes' = crashes + 1
  BY DEF Kill, files, Idle
<1>2. ~up
  BY <1>1 DEF Started
<1>3. Started'
  BY <1>1, <1>2 DEF Started
<1>4. Outlived' /\ crashes' \in Nat
  BY <1>1 DEF Types, Outlived, Untouched
<1>6. CASE UNCHANGED <<key, cert, crl, env, db>>
  <2>1. Types' /\ CaSound'
    BY <1>1, <1>4, <1>6 DEF Types, CaSound
  <2>2. OwnSound'
    BY <1>1, <1>6 DEF OwnSound, Sound
  <2> QED
    BY <1>1, <1>3, <1>4, <2>1, <2>2, Ended
<1>7. ASSUME HalfWritten, UNCHANGED db PROVE IInv'
  <2> DEFINE p == Of
  <2>0. /\ Broken \in Keys /\ None \in Keys /\ Broken \in Certificates /\ None # Broken
        /\ "ca" \in Pairs
    BY InstallationAssumption DEF Keys, Certificates, Pairs
  <2>1. CASE At("key") /\ key' = [key EXCEPT ![p] = Broken] /\ UNCHANGED <<cert, crl, env>>
    <3>1. todo[1] = Task("key", p) /\ p \in Pairs /\ 1 \in 1 .. Len(todo) /\ Ordered(todo)
      BY <2>1, AtHead
    <3> HIDE DEF p
    <3>3. /\ key' \in [Pairs -> Keys] /\ key'[p] = Broken
          /\ \A q \in Pairs : q # p => key'[q] = key[q]
      BY <2>0, <2>1, <3>1 DEF Types
    <3>4. Types'
      BY <1>1, <1>4, <1>7, <2>1, <3>3 DEF Types
    <3>5. CaSound'
      BY <1>1, <2>0, <2>1, <3>3 DEF CaSound, Whole
    <3>6. OwnSound'
      <4> SUFFICES ASSUME NEW q \in Own PROVE Sound(q)'
        BY DEF OwnSound
      <4>1. q \in Pairs /\ Sound(q)
        BY DEF OwnSound, Own, Pairs, Signed, Internal
      <4>2. \A x \in Pairs : Whole(key'[x]) => key'[x] = key[x]
        BY <3>3 DEF Whole
      <4> QED
        BY <1>1, <2>0, <2>1, <4>1, <4>2 DEF Sound
    <3> QED
      BY <1>1, <1>3, <1>4, <3>4, <3>5, <3>6, Ended
  <2>2. CASE At("cert") /\ cert' = [cert EXCEPT ![p] = Broken] /\ UNCHANGED <<key, crl, env>>
    <3>1. /\ todo[1] = Task("cert", p) /\ p \in Pairs /\ 1 \in 1 .. Len(todo) /\ Ordered(todo)
          /\ todo[1].op = "cert" /\ todo[1].of = p
      BY <2>2, AtHead
    <3> HIDE DEF p
    <3>3. /\ cert' \in [Pairs -> Certificates] /\ cert'[p] = Broken
          /\ \A q \in Pairs : q # p => cert'[q] = cert[q]
      BY <2>0, <2>2, <3>1 DEF Types
    <3>4. Types'
      BY <1>1, <1>4, <1>7, <2>2, <3>3 DEF Types
    <3>5. \A x \in Pairs : Whole(cert'[x]) => cert'[x] = cert[x]
      BY <3>3 DEF Whole
    <3>6. CaSound'
      BY <1>1, <2>0, <2>2, <3>5 DEF CaSound
    <3>7. OwnSound'
      <4>1. \A q \in Own : q \in Pairs
        BY DEF Own, Pairs, Signed, Internal
      <4> QED
        BY <1>1, <2>2, <3>5, <4>1 DEF OwnSound, Sound
    <3> QED
      BY <1>1, <1>3, <1>4, <3>4, <3>6, <3>7, Ended
  <2>3. CASE UNCHANGED <<key, cert>> /\ crl' \in Keys
             /\ env' \in [exists : BOOLEAN, master : Keys, ip : Ips \union {None}]
    <3>1. Types' /\ CaSound'
      BY <1>1, <1>4, <1>7, <2>3 DEF Types, CaSound
    <3>2. OwnSound'
      BY <1>1, <2>3 DEF OwnSound, Sound
    <3> QED
      BY <1>1, <1>3, <1>4, <3>1, <3>2, Ended
  <2>4. NewMaster \in Keys
    <3>1. 1 \in 1 .. MaxKeys /\ 2 \in 1 .. MaxKeys /\ 3 \in 1 .. MaxKeys
      BY InstallationAssumption
    <3>2. \E n \in 1 .. MaxKeys : n \notin {db, env.master}
      BY <3>1
    <3>3. NewMaster \in 1 .. MaxKeys
      BY <3>2 DEF NewMaster
    <3> QED
      BY <3>3 DEF Keys
  <2>5. \/ At("key") /\ key' = [key EXCEPT ![p] = Broken] /\ UNCHANGED <<cert, crl, env>>
        \/ At("cert") /\ cert' = [cert EXCEPT ![p] = Broken] /\ UNCHANGED <<key, crl, env>>
        \/ /\ UNCHANGED <<key, cert>> /\ crl' \in Keys
           /\ env' \in [exists : BOOLEAN, master : Keys, ip : Ips \union {None}]
    <3>1. env.master \in Keys /\ crl \in Keys
          /\ env \in [exists : BOOLEAN, master : Keys, ip : Ips \union {None}]
      BY DEF Types
    <3>2. ASSUME crl' = Broken, UNCHANGED env
          PROVE  /\ crl' \in Keys
                  /\ env' \in [exists : BOOLEAN, master : Keys, ip : Ips \union {None}]
      BY <2>0, <3>1, <3>2
    <3>3. ASSUME UNCHANGED crl,
                 NEW master \in {None, IF At("newEnv") THEN NewMaster ELSE env.master},
                 env' = [exists |-> TRUE, master |-> master, ip |-> None]
          PROVE  /\ crl' \in Keys
                  /\ env' \in [exists : BOOLEAN, master : Keys, ip : Ips \union {None}]
      <4>1. master \in Keys
        BY <2>0, <2>4, <3>1
      <4> QED
        BY <3>1, <3>3, <4>1
    <3> HIDE DEF p
    <3> QED
      BY <1>7, <3>2, <3>3 DEF HalfWritten, p
  <2> QED
    BY <2>1, <2>2, <2>3, <2>5
<1> QED
  BY <1>1, <1>6, <1>7

\* Every installation there can be to begin with.
LEMMA InitIs == Init => IInv
<1> SUFFICES ASSUME Init PROVE IInv
  OBVIOUS
<1>1. /\ todo = <<>> /\ ip \in Ips /\ left = {} /\ up = FALSE
      /\ crashes = 0 /\ failures = 0
  BY DEF Init
<1>2. PICK address \in Ips, ps \in {{}, Pairs, Pairs \ {"healthcheck", "time"}} :
        Installed(ps, address)
  BY DEF Init
<1>3. 1 \in Keys /\ 1 # None /\ 1 # Broken /\ None # Broken /\ None \in Keys
  BY InstallationAssumption DEF Keys
<1>4. /\ key = [p \in Pairs |-> IF p \in ps THEN 1 ELSE None]
      /\ \A p \in Pairs :
           /\ p \notin ps => key[p] = None /\ cert[p] = None
           /\ p \in ps => /\ key[p] = 1 /\ cert[p].key = 1 /\ cert[p] \in Certified
                          /\ p # "time" => cert[p].issuer = 1
  BY <1>2, <1>3 DEF Installed, Certified
<1>5. \A p \in ps : Whole(key[p]) /\ Whole(cert[p]) /\ p \in Pairs
  BY <1>3, <1>4, FilesAssumption DEF Whole
<1>6. "ca" \in Pairs /\ \A p \in Own : p \in Pairs
  BY DEF Own, Pairs, Signed, Internal
<1>7. (ps = {} \/ "ca" \in ps) /\ ps \subseteq Pairs
  BY <1>6
<1>8. Types
  <2>1. cert \in [Pairs -> Certificates]
    <3>1. cert = [p \in Pairs |-> cert[p]]
      BY <1>2 DEF Installed
    <3>2. \A p \in Pairs : cert[p] \in Certificates
      BY <1>4 DEF Certificates
    <3> QED
      BY <3>1, <3>2
  <2>2. key \in [Pairs -> Keys] /\ crl \in Keys /\ db \in Keys
    BY <1>2, <1>3 DEF Installed
  <2>3. env \in [exists : BOOLEAN, master : Keys, ip : Ips \union {None}]
    <3>1. (ps # {}) \in BOOLEAN
      OBVIOUS
    <3> QED
      BY <1>2, <1>3, <3>1 DEF Installed
  <2> QED
    BY <1>1, <2>1, <2>2, <2>3 DEF Types
<1>9. CaSound
  BY <1>4, <1>5, <1>6, <1>7 DEF CaSound, Whole
<1>10. OwnSound
  <2>1. ASSUME NEW p \in Own PROVE Sound(p)
    <3>1. CASE p \in ps
      <4>1. "ca" \in ps /\ (p \in Internal => p # "time")
        BY <1>7, <3>1 DEF Internal
      <4> QED
        BY <1>4, <1>5, <1>6, <3>1, <4>1 DEF Sound
    <3>2. CASE p \notin ps
      BY <1>4, <1>6, <2>1, <3>2 DEF Sound, Whole
    <3> QED
      BY <3>1, <3>2
  <2> QED
    BY <2>1 DEF OwnSound
<1>11. Ordered(todo)
  BY <1>1 DEF Ordered
<1>12. /\ \A op : ~Some(todo, op)
       /\ \A x : ~In(todo, x)
  BY <1>1 DEF Some, In
<1>13. Writing /\ CaFirst /\ Started
  BY <1>1 DEF Writing, CaFirst, Started
<1>14. Outlived /\ Starting
  <2>1. key["ca"] = None => \A p \in MayOutlive : cert[p] = None
    <3>1. key["ca"] = None => ps = {}
      BY <1>3, <1>4, <1>6, <1>7
    <3>2. \A p \in MayOutlive : p \in Pairs
      BY DEF MayOutlive, Pairs, Signed, Internal
    <3> QED
      BY <1>4, <3>1, <3>2
  <2> QED
    BY <1>1, <1>12, <2>1 DEF Outlived, Gone, Starting, Has
<1> QED
  BY <1>8, <1>9, <1>10, <1>11, <1>13, <1>14 DEF IInv

LEMMA NextKeeps == IInv /\ [Next]_vars => IInv'
<1> SUFFICES ASSUME IInv, [Next]_vars PROVE IInv'
  OBVIOUS
<1>1. CASE Step
  BY <1>1, WriteKeyKeeps, WriteCertKeeps, WritesKeep, DropKeeps, DropDbKeeps,
     EnsurePairKeeps, ChecksKeep, CheckServicesKeeps, BringUpKeeps DEF Step
<1>2. CASE UNCHANGED vars
  <2>1. UNCHANGED <<key, cert, crl, env, db, todo, ip, left, crashes, failures, up>>
    BY <1>2 DEF vars, files
  <2>2. Types' /\ Ordered(todo') /\ CaSound' /\ Started'
    BY <2>1 DEF IInv, Types, CaSound, Started, StackHealthy, Valid
  <2>3. Writing' /\ Outlived' /\ OwnSound'
    BY <2>1 DEF IInv, Writing, Outlived, Untouched, Gone, OwnSound, Missing, Has, Sound
  <2>4. CaFirst'
    BY <2>1 DEF IInv, CaFirst, CaBefore
  <2>5. Starting'
    BY <2>1 DEF IInv, Starting, Serving, Has
  <2> QED
    BY <2>2, <2>3, <2>4, <2>5 DEF IInv
<1> QED
  BY <1>1, <1>2, BeginKeeps, KillKeeps DEF Next

LEMMA SpecIs == Spec => []IInv
  BY InitIs, NextKeeps, PTL DEF Spec

\* A platform that is up serves TLS material of the address in .env, issued by
\* the CA on disk, whole and in force, whichever addresses it moved through and
\* whichever setups were killed or forced (setup.py, start_platform.py).
THEOREM Served == Spec => []ServedMaterial
<1>1. IInv => ServedMaterial
  BY DEF IInv, Started, StackHealthy, ServedMaterial, Services
<1> QED
  BY <1>1, SpecIs, PTL

\* A start that reports success leaves internal MQTT identities of the installed
\* CA, and a time key pair that fits, except those that outlived a forced run, which
\* takes a kill or a removal that failed, and those a kill left half written
\* (setup.py, start_platform.py): a key of its own is drawn only where there is no
\* pair, and signed by the CA there is.
THEOREM Identities == Spec => []IdentitiesWhole
<1>1. IInv => IdentitiesWhole
  <2> SUFFICES ASSUME IInv, up
               PROVE  /\ \A p \in Internal : \/ Valid(p) \/ Outlasted(p)
                                              \/ Broken \in {key[p], cert[p]}
                      /\ \/ cert["time"] = Broken
                         \/ Whole(cert["time"]) /\ cert["time"].key = key["time"]
    BY DEF IdentitiesWhole
  <2>1. StackHealthy /\ cert["time"] # None /\ Whole(key["ca"])
    BY DEF IInv, Started
  <2>2. \A p \in Own : Sound(p)
    BY DEF IInv, OwnSound
  <2>3. \A p \in Internal : key[p] # None /\ cert[p] # None
    BY <2>1 DEF StackHealthy, Valid, Whole, Internal
  <2>4. /\ Whole(cert["ca"]) /\ Whole(key["time"])
        /\ "ca" \notin left => cert["ca"].key = key["ca"]
    BY <2>1 DEF StackHealthy, IInv, CaSound
  <2>5. ASSUME NEW p \in Internal, p \notin left, "ca" \notin left, Broken \notin {key[p], cert[p]}
        PROVE  Valid(p)
    BY <2>1, <2>2, <2>3, <2>4, <2>5 DEF Sound, Valid, Whole, Own
  <2>6. cert["time"] # Broken => Whole(cert["time"]) /\ cert["time"].key = key["time"]
    BY <2>1, <2>2, <2>4 DEF Sound, Whole, Own
  <2>7. left # {} => crashes > 0 \/ failures > 0
    BY DEF IInv, Types, Outlived, Untouched
  <2>8. ASSUME NEW p \in Internal, ~ Outlasted(p)
        PROVE  p \notin left /\ "ca" \notin left
    BY <2>7, <2>8 DEF Outlasted
  <2> QED
    BY <2>5, <2>6, <2>8
<1> QED
  BY <1>1, SpecIs, PTL

\* No identity outlives the CA that signed it, unless a run was killed or a
\* directory could not be removed (setup.py:572): the runs that make a CA begin on
\* an empty installation, or remove every identity first.
THEOREM NoneOutlives == Spec => []NoneOutlivesTheCa
<1>1. IInv => NoneOutlivesTheCa
  BY DEF IInv, Outlived, Untouched, NoneOutlivesTheCa
<1> QED
  BY <1>1, SpecIs, PTL

\* Unless the run is forced, nothing is about to be removed, and a new CA only to
\* be made where there is none: by Ordered, the first task tells for all.
Unforced ==
  ~forcing /\ todo # <<>> =>
    todo[1].op \notin {"drop", "dropDb"} /\ (todo[1] = KeyCa => key["ca"] = None)

LEMMA StepUnforced ==
  ASSUME IInv, Unforced, Step, ~forcing'
  PROVE  Unforced' /\ (Whole(key["ca"]) => key'["ca"] = key["ca"])
<1>1. ~forcing
  BY DEF Step, WriteKey, WriteCert, WriteCrl, WriteNewEnv, RewriteEnv, Drop, DropDb,
     EnsurePair, CheckInitialized, LoadCa, CheckServices, BringUp, keep, run
<1>2. todo # <<>> /\ Ordered(todo) /\ 1 \in 1 .. Len(todo) /\ Head(todo) = todo[1]
  <2>1. todo # <<>>
    BY DEF Step, WriteKey, WriteCert, WriteCrl, WriteNewEnv, RewriteEnv, Drop, DropDb,
       EnsurePair, CheckInitialized, LoadCa, CheckServices, BringUp, At, Idle
  <2> QED
    BY <2>1, Tails DEF IInv
<1>3. todo[1].op \notin {"drop", "dropDb"} /\ (todo[1] = KeyCa => key["ca"] = None)
  BY <1>1, <1>2 DEF Unforced
<1>4. ASSUME todo' = Tail(todo) PROVE Unforced'
  <2>1. ASSUME todo' # <<>>
        PROVE  todo'[1].op \notin {"drop", "dropDb"} /\ todo'[1] # KeyCa
    <3>1. ~Some(todo', "drop") /\ ~Some(todo', "dropDb") /\ ~In(todo', KeyCa)
      BY <1>2, <1>3, <1>4, NoRemovals
    <3>2. 1 \in 1 .. Len(todo')
      BY <1>2, <1>4, <2>1, Tails
    <3> QED
      BY <3>1, <3>2 DEF Some, In
  <2> QED
    BY <2>1 DEF Unforced
<1>5. CASE WriteKey
  <2>1. todo' = Tail(todo) /\ key' = [key EXCEPT ![Of] = NewKey(Of)] /\ todo[1] = Task("key", Of)
    BY <1>5, AtHead DEF WriteKey, Done
  <2>2. CASE Of = "ca"
    BY <1>3, <1>4, <2>1, <2>2 DEF KeyCa, Whole
  <2>3. CASE Of # "ca"
    BY <1>4, <2>1, <2>3 DEF IInv, Types
  <2> QED
    BY <2>2, <2>3
<1>6. CASE Drop \/ DropDb
  BY <1>2, <1>3, <1>6 DEF Drop, DropDb, At
<1>7. CASE WriteCert \/ WriteCrl \/ WriteNewEnv \/ RewriteEnv \/ BringUp
  BY <1>4, <1>7 DEF WriteCert, WriteCrl, WriteNewEnv, RewriteEnv, BringUp, Done
<1>8. CASE CheckInitialized \/ LoadCa
  <2>1. UNCHANGED key /\ (todo' = Tail(todo) \/ todo' = <<>>)
    BY <1>8 DEF CheckInitialized, LoadCa, Done, Raise, files
  <2> QED
    BY <1>4, <2>1 DEF Unforced
<1>9. CASE EnsurePair \/ CheckServices
  <2>1. /\ UNCHANGED key
        /\ \/ todo' = Tail(todo) \/ todo' = <<>>
           \/ \E s \in Seq(Tasks) : /\ todo' = s \o Tail(todo) /\ s # <<>>
                                    /\ s[1].op \in {"key", "rotate"} /\ s[1] # KeyCa
    <3>1. ASSUME EnsurePair
          PROVE  \/ todo' = Tail(todo) \/ todo' = <<>>
                 \/ \E s \in Seq(Tasks) : /\ todo' = s \o Tail(todo) /\ s # <<>>
                                          /\ s[1].op \in {"key", "rotate"} /\ s[1] # KeyCa
      <4>1. Of \in Own
        BY <3>1, AtHead DEF EnsurePair, Own
      <4>2. /\ Pair(Of) \in Seq(Tasks) /\ Pair(Of) # <<>>
            /\ Pair(Of)[1].op = "key" /\ Pair(Of)[1] # KeyCa
        BY <4>1 DEF Pair, Task, Tasks, KeyCa, Own, Internal, Pairs, Signed
      <4> QED
        BY <3>1, <4>2 DEF EnsurePair, Done, Raise, Then
    <3>2. ASSUME CheckServices
          PROVE  \E s \in Seq(Tasks) : /\ todo' = s \o Tail(todo) /\ s # <<>>
                                       /\ s[1].op \in {"key", "rotate"} /\ s[1] # KeyCa
      <4> DEFINE good == <<Task("rotate", "env")>>
                 last == <<Task("endpoint", "env")>>
                 bad == ServiceTasks \o last
      <4>1. good \in Seq(Tasks) /\ good # <<>> /\ good[1].op = "rotate" /\ good[1] # KeyCa
        BY DEF Task, Tasks, Plain, KeyCa
      <4>2. /\ Pair("api") \in Seq(Tasks) /\ Pair("broker") \in Seq(Tasks)
            /\ last \in Seq(Tasks) /\ Pair("api") # <<>>
            /\ Pair("api")[1].op = "key" /\ Pair("api")[1] # KeyCa
        BY DEF Pair, Task, Tasks, Plain, KeyCa, Pairs, Signed, Services
      <4>3. ServiceTasks \in Seq(Tasks) /\ ServiceTasks # <<>>
            /\ ServiceTasks[1] = Pair("api")[1]
        <5> HIDE DEF last, bad
        <5>1. Pair("api") \o Pair("broker") \in Seq(Tasks)
          BY <4>2
        <5> QED
          BY <4>2, <5>1, Inside DEF ServiceTasks
      <4>4. bad \in Seq(Tasks) /\ bad # <<>> /\ bad[1] = Pair("api")[1]
        <5> HIDE DEF last
        <5>1. ServiceTasks \o last \in Seq(Tasks)
          BY <4>2, <4>3
        <5> QED
          BY <4>2, <4>3, <5>1, Inside
      <4>5. todo' = good \o Tail(todo) \/ todo' = bad \o Tail(todo)
        BY <3>2 DEF CheckServices, Then
      <4> HIDE DEF good, bad
      <4> QED
        BY <4>1, <4>2, <4>4, <4>5
    <3>3. UNCHANGED key
      BY <1>9 DEF EnsurePair, CheckServices, files
    <3> QED
      BY <1>9, <3>1, <3>2, <3>3
  <2>2. ASSUME NEW s \in Seq(Tasks), todo' = s \o Tail(todo), s # <<>>,
               s[1].op \in {"key", "rotate"}, s[1] # KeyCa
        PROVE  Unforced'
    <3>1. Tail(todo) \in Seq(Tasks)
      BY <1>2, Tails
    <3>2. todo'[1] = s[1]
      BY <2>2, <3>1, Inside
    <3> QED
      BY <2>2, <3>2 DEF Unforced
  <2> QED
    BY <1>4, <2>1, <2>2 DEF Unforced
<1> QED
  BY <1>5, <1>6, <1>7, <1>8, <1>9 DEF Step

LEMMA RunUnforced ==
  ASSUME IInv, Unforced, [Next]_vars
  PROVE  Unforced' /\ (~forcing' /\ Whole(key["ca"]) => key'["ca"] = key["ca"])
<1> SUFFICES ASSUME ~forcing'
             PROVE  Unforced' /\ (Whole(key["ca"]) => key'["ca"] = key["ca"])
  BY DEF Unforced
<1>1. CASE Setup \/ SetupForce \/ StartPlatform
  <2>1. /\ UNCHANGED key
        /\ (todo' \in {FirstRun, Everything} /\ key["ca"] = None) \/ todo' = Synchronize
    BY <1>1 DEF Setup, SetupForce, StartPlatform, Begin, files, Synchronize, Everything
  <2>2. todo'[1] \in {KeyCa, Task("initialized", "ca")}
    BY <2>1, FirstRunIs, StartIs
  <2>3. key["ca"] = None \/ todo'[1] # KeyCa
    <3>1. ASSUME todo' = Synchronize PROVE todo'[1] # KeyCa
      <4>1. WithoutCa(todo') /\ Calm(todo') /\ todo' # <<>>
        BY <3>1, StartIs
      <4>2. 1 \in 1 .. Len(todo')
        BY <4>1 DEF Calm
      <4> QED
        BY <4>1, <4>2 DEF WithoutCa
    <3> QED
      BY <2>1, <3>1
  <2> QED
    BY <2>1, <2>2, <2>3 DEF Unforced, KeyCa, Task
<1>2. CASE Kill
  <2>1. todo # <<>> /\ todo' = <<>> /\ ~forcing /\ (UNCHANGED key \/ HalfWritten)
    BY <1>2 DEF Kill, files, Idle
  <2>2. ASSUME HalfWritten, Whole(key["ca"]) PROVE key'["ca"] = key["ca"]
    <3>1. UNCHANGED key \/ (At("key") /\ key' = [key EXCEPT ![Of] = Broken])
      BY <2>2 DEF HalfWritten
    <3>2. CASE At("key") /\ key' = [key EXCEPT ![Of] = Broken]
      <4>1. todo[1] = Task("key", Of)
        BY <3>2, AtHead
      <4>2. Of # "ca"
        BY <2>1, <2>2, <4>1 DEF Unforced, KeyCa, Whole
      <4> QED
        BY <3>2, <4>2 DEF IInv, Types
    <3> QED
      BY <3>1, <3>2
  <2> QED
    BY <2>1, <2>2 DEF Unforced
<1>3. CASE UNCHANGED vars
  BY <1>3 DEF vars, files, Unforced
<1> QED
  BY <1>1, <1>2, <1>3, StepUnforced DEF Next

\* No run that is not forced replaces the CA's key, whichever runs were killed
\* before it, or in the middle of which file (setup.py, start_platform.py).
THEOREM CaStays == Spec => CaKept
<1>1. Init => Unforced
  BY DEF Init, Unforced
<1> QED
  BY <1>1, SpecIs, RunUnforced, PTL DEF Spec, CaKept

-----------------------------------------------------------------------------
(* What .env and the database hold.                                        *)

\* A list writes a new .env once, or never.
Once(s) == \A i, j \in 1 .. Len(s) : s[i].op = "newEnv" /\ s[j].op = "newEnv" => i = j

\* A run that is not forced writes a new .env only where there is none.
Secret ==
  /\ ~env.exists => env.master = None
  /\ ~forcing => Once(todo) /\ (Some(todo, "newEnv") => ~env.exists)

\* The database is under the master key of .env, or there is none; it is removed
\* before a new master key is drawn.
Encrypted ==
  /\ db \in {None, env.master}
  /\ ~env.exists => db = None /\ env.master = None
  /\ Some(todo, "newEnv") => db = None \/ Some(todo, "dropDb")
  /\ up => db = env.master

\* Two lists put together have no task that neither has.
LEMMA Parts ==
  ASSUME NEW s \in Seq(Tasks), NEW t \in Seq(Tasks), NEW op, Without(s, op)
  PROVE  /\ Some(s \o t, op) => Some(t, op)
         /\ Without(t, op) => Without(s \o t, op)
<1> DEFINE c == s \o t
           m == Len(s)
           n == Len(t)
<1>1. /\ Len(c) = m + n /\ m \in Nat /\ n \in Nat
      /\ \A i \in 1 .. m : c[i] = s[i]
      /\ \A i \in 1 .. m + n : i > m => i - m \in 1 .. n /\ c[i] = t[i - m]
  BY Concat
<1> HIDE DEF c
<1>2. ASSUME NEW i \in 1 .. Len(c), c[i].op = op
      PROVE  \E j \in 1 .. Len(t) : t[j].op = op
  <2>1. ~(i \in 1 .. m)
    BY <1>1, <1>2 DEF Without
  <2>2. i > m /\ i \in 1 .. m + n
    BY <1>1, <2>1
  <2>3. i - m \in 1 .. Len(t) /\ t[i - m].op = op
    BY <1>1, <1>2, <2>2
  <2> QED
    BY <2>3
<1>3. Some(c, op) => Some(t, op)
  BY <1>2 DEF Some
<1>4. Without(t, op) => Without(c, op)
  BY <1>2 DEF Without
<1> QED
  BY <1>3, <1>4 DEF c

\* Of two lists put together, only one writes a new .env.
LEMMA OnceIn ==
  ASSUME NEW s \in Seq(Tasks), NEW t \in Seq(Tasks),
         \/ Without(s, "newEnv") /\ Once(t)
         \/ Once(s) /\ Without(t, "newEnv")
  PROVE  Once(s \o t)
<1> DEFINE c == s \o t
           m == Len(s)
           n == Len(t)
<1>1. /\ Len(c) = m + n /\ m \in Nat /\ n \in Nat
      /\ \A i \in 1 .. m : c[i] = s[i]
      /\ \A i \in 1 .. m + n : i > m => i - m \in 1 .. n /\ c[i] = t[i - m]
  BY Concat
<1> HIDE DEF c
<1>2. ASSUME NEW i \in 1 .. Len(c), c[i].op = "newEnv"
      PROVE  \/ i \in 1 .. m /\ s[i].op = "newEnv" /\ ~Without(s, "newEnv")
             \/ i > m /\ i - m \in 1 .. n /\ t[i - m].op = "newEnv" /\ ~Without(t, "newEnv")
  <2>1. CASE i <= m
    <3>1. i \in 1 .. m
      BY <1>1, <2>1
    <3> QED
      BY <1>1, <1>2, <3>1 DEF Without
  <2>2. CASE i > m
    <3>1. i - m \in 1 .. n /\ t[i - m].op = "newEnv"
      BY <1>1, <1>2, <2>2
    <3> QED
      BY <2>2, <3>1 DEF Without
  <2> QED
    BY <1>1, <2>1, <2>2
<1>3. ASSUME NEW i \in 1 .. Len(c), NEW j \in 1 .. Len(c),
             c[i].op = "newEnv", c[j].op = "newEnv"
      PROVE  i = j
  <2>1. CASE Without(s, "newEnv") /\ Once(t)
    <3>1. /\ i - m \in 1 .. n /\ t[i - m].op = "newEnv"
          /\ j - m \in 1 .. n /\ t[j - m].op = "newEnv"
      BY <1>2, <1>3, <2>1
    <3>2. i - m = j - m
      BY <2>1, <3>1 DEF Once
    <3> QED
      BY <1>1, <3>2
  <2>2. CASE Once(s) /\ Without(t, "newEnv")
    <3>1. i \in 1 .. m /\ s[i].op = "newEnv" /\ j \in 1 .. m /\ s[j].op = "newEnv"
      BY <1>2, <1>3, <2>2
    <3> QED
      BY <2>2, <3>1 DEF Once
  <2> QED
    BY <2>1, <2>2
<1>4. Once(c)
  BY <1>3 DEF Once
<1> QED
  BY <1>4 DEF c

\* What is left of a list that writes a new .env once does so once, and not again.
LEMMA OnceRest ==
  ASSUME NEW s, Ordered(s), s # <<>>, Once(s)
  PROVE  Once(Tail(s)) /\ (s[1].op = "newEnv" => ~Some(Tail(s), "newEnv"))
<1> DEFINE t == Tail(s)
<1>1. /\ Len(t) \in Nat /\ 1 \in 1 .. Len(s)
      /\ \A i \in 1 .. Len(t) : i + 1 \in 1 .. Len(s) /\ t[i] = s[i + 1]
  BY Tails
<1> HIDE DEF t
<1>2. ASSUME NEW i \in 1 .. Len(t), NEW j \in 1 .. Len(t),
             t[i].op = "newEnv", t[j].op = "newEnv"
      PROVE  i = j
  <2>1. i + 1 = j + 1
    BY <1>1, <1>2 DEF Once
  <2> QED
    BY <2>1
<1>3. ASSUME NEW i \in 1 .. Len(t), t[i].op = "newEnv", s[1].op = "newEnv"
      PROVE  FALSE
  <2>1. i + 1 = 1
    BY <1>1, <1>3 DEF Once
  <2> QED
    BY <2>1
<1> QED
  BY <1>2, <1>3 DEF Once, Some, t

\* A start on an existing installation writes no new .env, one on a fresh host writes
\* one, and a forced run removes the database before it does.
LEMMA StartsNew ==
  /\ Without(Synchronize, "newEnv") /\ Once(FirstRun) /\ Once(Everything)
  /\ Some(Forced, "dropDb")
<1> DEFINE a == Pair("ca")
           b == <<Task("time", "time")>>
           s == Pair("api") \o Pair("broker")
           d == <<Task("crl", "crl"), Task("newEnv", "env")>>
           e == <<Task("initialized", "ca"), Task("time", "time"), Task("load", "ca")>>
           f == <<Task("services", "env")>>
           x == a \o b
           y == x \o s
           z == y \o InternalTasks
           v == e \o InternalTasks
           w == FirstRun \o SyncNetwork
<1>1. /\ a \in Seq(Tasks) /\ b \in Seq(Tasks) /\ Pair("api") \in Seq(Tasks)
      /\ Pair("broker") \in Seq(Tasks) /\ d \in Seq(Tasks) /\ InternalTasks \in Seq(Tasks)
      /\ e \in Seq(Tasks) /\ f \in Seq(Tasks) /\ Launch \in Seq(Tasks)
  BY Chunks DEF Calm, Services
<1>2. /\ Without(a, "newEnv") /\ Without(b, "newEnv") /\ Without(Pair("api"), "newEnv")
      /\ Without(Pair("broker"), "newEnv") /\ Without(InternalTasks, "newEnv")
      /\ Without(e, "newEnv") /\ Without(f, "newEnv") /\ Without(Launch, "newEnv")
  BY DEF Without, Task, InternalTasks, Launch, Pair
<1>3. Once(d)
  BY DEF Once, Task
<1>4. FirstRun = z \o d /\ SyncNetwork = v \o f /\ Everything = w \o Launch
  BY DEF FirstRun, ServiceTasks, SyncNetwork, Everything
<1> HIDE DEF a, b, d, e, f
<1>5. s \in Seq(Tasks) /\ Without(s, "newEnv") /\ x \in Seq(Tasks) /\ Without(x, "newEnv")
  BY <1>1, <1>2, Parts, Concat
<1> HIDE DEF s, x
<1>6. y \in Seq(Tasks) /\ Without(y, "newEnv")
  BY <1>5, Parts, Concat
<1> HIDE DEF y
<1>7. z \in Seq(Tasks) /\ Without(z, "newEnv") /\ v \in Seq(Tasks) /\ Without(v, "newEnv")
  BY <1>1, <1>2, <1>6, Parts, Concat
<1> HIDE DEF z, v, w
<1>8. FirstRun \in Seq(Tasks) /\ Once(FirstRun)
  BY <1>1, <1>3, <1>4, <1>7, OnceIn, Concat
<1>9. SyncNetwork \in Seq(Tasks) /\ Without(SyncNetwork, "newEnv")
  BY <1>1, <1>2, <1>4, <1>7, Parts, Concat
<1>10. Without(Synchronize, "newEnv")
  BY <1>1, <1>2, <1>9, Parts DEF Synchronize
<1>11. w \in Seq(Tasks) /\ Once(w)
  BY <1>8, <1>9, OnceIn, Concat DEF w
<1>12. Once(Everything)
  BY <1>1, <1>2, <1>4, <1>11, OnceIn
<1> QED
  BY <1>8, <1>10, <1>12, ForcedIs

\* What a step of a run leaves to do of the two tasks.
LEMMA StepTodo ==
  ASSUME IInv, Step
  PROVE  /\ Some(todo', "newEnv") => Some(todo, "newEnv")
         /\ Some(todo, "dropDb") => At("dropDb") \/ Some(todo', "dropDb")
         /\ Once(todo) => Once(todo')
<1>1. todo # <<>> /\ Ordered(todo) /\ Head(todo) = todo[1]
  <2>1. todo # <<>>
    BY DEF Step, WriteKey, WriteCert, WriteCrl, WriteNewEnv, RewriteEnv, Drop, DropDb,
       EnsurePair, CheckInitialized, LoadCa, CheckServices, BringUp, At, Idle
  <2> QED
    BY <2>1, Tails DEF IInv
<1>2. \A op : Some(todo, op) <=> todo[1].op = op \/ Some(Tail(todo), op)
  BY <1>1, Members
<1>3. ASSUME todo' = <<>> PROVE ~Some(todo', "newEnv") /\ Once(todo')
  BY <1>3 DEF Some, Once
<1>4. ASSUME todo' = Tail(todo)
      PROVE  /\ Some(todo', "newEnv") => Some(todo, "newEnv")
             /\ Some(todo, "dropDb") => At("dropDb") \/ Some(todo', "dropDb")
             /\ Once(todo) => Once(todo')
  BY <1>1, <1>2, <1>4, OnceRest DEF At, Idle
<1>5. ASSUME EnsurePair \/ CheckInitialized \/ LoadCa \/ CheckServices
      PROVE  ~Some(todo, "dropDb")
  <2>1. todo[1].op \notin {"drop", "dropDb"}
    BY <1>1, <1>5 DEF EnsurePair, CheckInitialized, LoadCa, CheckServices, At
  <2> QED
    BY <1>1, <2>1, NoRemovals
<1>6. ASSUME NEW s \in Seq(Tasks), Without(s, "newEnv"), todo' = s \o Tail(todo)
      PROVE  (Some(todo', "newEnv") => Some(todo, "newEnv")) /\ (Once(todo) => Once(todo'))
  <2>1. Tail(todo) \in Seq(Tasks)
    BY <1>1, Tails
  <2>2. Once(todo) => Once(Tail(todo))
    BY <1>1, OnceRest
  <2> DEFINE t == Tail(todo)
             new == s \o t
  <2>3. (Some(new, "newEnv") => Some(t, "newEnv")) /\ (Once(t) => Once(new))
    BY <1>6, <2>1, Parts, OnceIn
  <2>4. todo' = new
    BY <1>6
  <2> HIDE DEF new
  <2> QED
    BY <1>2, <2>2, <2>3, <2>4
<1>7. CASE EnsurePair
  <2>1. Pair(Of) \in Seq(Tasks) /\ Without(Pair(Of), "newEnv")
    <3>1. Of \in Own
      BY <1>7, AtHead DEF EnsurePair, Own
    <3> QED
      BY <3>1 DEF Pair, Task, Tasks, Own, Internal, Pairs, Signed, Without
  <2> QED
    BY <1>3, <1>4, <1>5, <1>6, <1>7, <2>1 DEF EnsurePair, Done, Raise, Then
<1>8. CASE CheckInitialized \/ LoadCa
  BY <1>3, <1>4, <1>5, <1>8 DEF CheckInitialized, LoadCa, Done, Raise
<1>9. CASE CheckServices
  <2> DEFINE good == <<Task("rotate", "env")>>
             last == <<Task("endpoint", "env")>>
  <2>1. /\ good \in Seq(Tasks) /\ last \in Seq(Tasks)
        /\ Pair("api") \in Seq(Tasks) /\ Pair("broker") \in Seq(Tasks)
    BY DEF Pair, Task, Tasks, Plain, Pairs, Signed, Services
  <2>2. /\ Without(good, "newEnv") /\ Without(last, "newEnv")
        /\ Without(Pair("api"), "newEnv") /\ Without(Pair("broker"), "newEnv")
    BY DEF Without, Pair, Task
  <2> HIDE DEF good, last
  <2>3. ServiceTasks \in Seq(Tasks) /\ Without(ServiceTasks, "newEnv")
    BY <2>1, <2>2, Concat, Parts DEF ServiceTasks
  <2>4. ServiceTasks \o last \in Seq(Tasks) /\ Without(ServiceTasks \o last, "newEnv")
    BY <2>1, <2>2, <2>3, Concat, Parts
  <2>5. todo' = good \o Tail(todo) \/ todo' = (ServiceTasks \o last) \o Tail(todo)
    BY <1>9 DEF CheckServices, Then, good, last
  <2> QED
    BY <1>5, <1>6, <1>9, <2>1, <2>2, <2>4, <2>5
<1>10. CASE WriteKey \/ WriteCert \/ WriteCrl \/ WriteNewEnv \/ RewriteEnv \/ Drop \/ DropDb
            \/ BringUp
  <2>1. todo' = Tail(todo)
    BY <1>10 DEF WriteKey, WriteCert, WriteCrl, WriteNewEnv, RewriteEnv, Drop, DropDb,
       BringUp, Done
  <2> QED
    BY <1>4, <2>1
<1> QED
  BY <1>7, <1>8, <1>9, <1>10 DEF Step

\* One step of a run, and then any step.
LEMMA StepSecret ==
  ASSUME IInv, Secret, Step
  PROVE  Secret' /\ (~forcing' /\ env.master # None => env'.master = env.master)
<1>1. UNCHANGED forcing
  BY DEF Step, WriteKey, WriteCert, WriteCrl, WriteNewEnv, RewriteEnv, Drop, DropDb,
     EnsurePair, CheckInitialized, LoadCa, CheckServices, BringUp, keep, run
<1>2. (Some(todo', "newEnv") => Some(todo, "newEnv")) /\ (Once(todo) => Once(todo'))
  BY StepTodo
<1>3. env \in [exists : BOOLEAN, master : Keys, ip : Ips \union {None}]
  BY DEF IInv, Types
<1>4. CASE WriteNewEnv
  <2>1. At("newEnv") /\ env' = NewEnv /\ todo' = Tail(todo)
    BY <1>4 DEF WriteNewEnv, Done
  <2>2. Some(todo, "newEnv") /\ todo # <<>> /\ Ordered(todo) /\ todo[1].op = "newEnv"
    BY <2>1, AtHead DEF Some
  <2>3. ~forcing => env.master = None /\ ~Some(todo', "newEnv")
    BY <2>1, <2>2, OnceRest DEF Secret
  <2>4. env'.exists
    BY <2>1 DEF NewEnv
  <2> QED
    BY <1>1, <1>2, <2>3, <2>4 DEF Secret
<1>5. CASE RewriteEnv
  <2>1. env' = Updated(Head(todo).op)
    BY <1>5 DEF RewriteEnv
  <2>2. env'.exists = env.exists /\ env'.master = env.master
    BY <1>3, <2>1 DEF Updated
  <2> QED
    BY <1>1, <1>2, <2>2 DEF Secret
<1>6. CASE Step /\ ~WriteNewEnv /\ ~RewriteEnv
  <2>1. UNCHANGED env
    BY <1>6 DEF Step, WriteKey, WriteCert, WriteCrl, Drop, DropDb,
       EnsurePair, CheckInitialized, LoadCa, CheckServices, BringUp, files
  <2> QED
    BY <1>1, <1>2, <2>1 DEF Secret
<1> QED
  BY <1>4, <1>5, <1>6

LEMMA NextSecret ==
  ASSUME IInv, Secret, [Next]_vars
  PROVE  /\ Secret'
         /\ ~forcing' /\ env.master # None /\ ~(Kill /\ HalfWritten)
              => env'.master = env.master
<1>1. CASE Setup \/ SetupForce \/ StartPlatform
  <2>1. /\ UNCHANGED env
        /\ \/ todo' \in {FirstRun, Everything} /\ ~env.exists
           \/ todo' = Forced /\ forcing'
           \/ todo' = Synchronize
    BY <1>1 DEF Setup, SetupForce, StartPlatform, Begin, files, Forced, Synchronize,
       Everything
  <2>2. ASSUME todo' = Synchronize PROVE Once(todo') /\ ~Some(todo', "newEnv")
    BY <2>2, StartsNew DEF Once, Some, Without
  <2> QED
    BY <2>1, <2>2, StartsNew DEF Secret
<1>2. CASE Kill
  <2>1. todo' = <<>> /\ (UNCHANGED env \/ HalfWritten)
    BY <1>2 DEF Kill, files
  <2>2. HalfWritten => UNCHANGED env \/ env'.exists
    BY DEF HalfWritten
  <2>3. Once(todo') /\ ~Some(todo', "newEnv")
    BY <2>1 DEF Once, Some
  <2> QED
    BY <1>2, <2>1, <2>2, <2>3 DEF Secret
<1>3. CASE UNCHANGED vars
  BY <1>3 DEF vars, files, Secret
<1> QED
  BY <1>1, <1>2, <1>3, StepSecret DEF Next

\* To begin with, the database is under the master key.
LEMMA FirstSecret ==
  ASSUME Init
  PROVE  db = env.master /\ (~env.exists => env.master = None)
<1>1. PICK address \in Ips, pairs \in {{}, Pairs, Pairs \ {"healthcheck", "time"}} :
        Installed(pairs, address)
  BY DEF Init
<1>2. /\ env = [exists |-> pairs # {},
                master |-> IF pairs = {} THEN None ELSE 1,
                ip |-> IF pairs = {} THEN None ELSE address]
      /\ db = IF pairs = {} THEN None ELSE 1
  BY <1>1 DEF Installed
<1>3. /\ env.exists = (pairs # {})
      /\ env.master = IF pairs = {} THEN None ELSE 1
  BY <1>2
<1> QED
  BY <1>2, <1>3

LEMMA SecretInit == Init => Secret
<1> SUFFICES ASSUME Init PROVE Secret
  OBVIOUS
<1>1. todo = <<>>
  BY DEF Init
<1> QED
  BY <1>1, FirstSecret DEF Secret, Once, Some

\* No run that is not forced takes the master key and the credentials out of .env,
\* whichever runs were killed before it, but one that is killed while it writes the
\* file (set_env_values, build_env).
THEOREM SecretsLostInWriting == Spec => SecretsLostHalfWritten
  BY SecretInit, SpecIs, NextSecret, PTL DEF Spec, SecretsLostHalfWritten

\* If a killed run leaves no half of a file, the secrets stay in .env until setup.py
\* --force (docs/installation.md:91).
THEOREM SecretsStay == ASSUME Torn = FALSE PROVE Spec => SecretsKept
<1>1. ASSUME IInv, Secret, [Next]_vars
      PROVE  ~forcing' /\ env.master # None => env'.master = env.master
  <2>1. Kill => UNCHANGED env
    BY DEF Kill, files
  <2> QED
    BY <1>1, <2>1, NextSecret
<1> QED
  BY <1>1, SecretInit, SpecIs, NextSecret, PTL DEF Spec, SecretsKept

\* One step: while a new .env is to be written there is no database, or it goes first.
LEMMA StepEncrypted ==
  ASSUME IInv, Encrypted, Step
  PROVE  Encrypted'
<1>1. /\ Some(todo', "newEnv") => Some(todo, "newEnv")
      /\ Some(todo, "dropDb") => At("dropDb") \/ Some(todo', "dropDb")
  BY StepTodo
<1>2. env \in [exists : BOOLEAN, master : Keys, ip : Ips \union {None}]
  BY DEF IInv, Types
<1>3. ~up
  <2>1. todo # <<>>
    BY DEF Step, WriteKey, WriteCert, WriteCrl, WriteNewEnv, RewriteEnv, Drop, DropDb,
       EnsurePair, CheckInitialized, LoadCa, CheckServices, BringUp, At, Idle
  <2> QED
    BY <2>1 DEF IInv, Started
<1>4. CASE WriteNewEnv
  <2>1. At("newEnv") /\ env' = NewEnv /\ UNCHANGED <<db, up>>
    BY <1>4 DEF WriteNewEnv
  <2>2. todo # <<>> /\ Ordered(todo) /\ todo[1].op = "newEnv" /\ Some(todo, "newEnv")
    BY <2>1, AtHead DEF Some
  <2>3. ~Some(todo, "dropDb")
    BY <2>2, NoRemovals
  <2>4. db = None
    BY <2>2, <2>3 DEF Encrypted
  <2>5. env'.exists
    BY <2>1 DEF NewEnv
  <2> QED
    BY <1>3, <2>1, <2>4, <2>5 DEF Encrypted
<1>5. CASE RewriteEnv
  <2>1. env' = Updated(Head(todo).op) /\ UNCHANGED <<db, up>> /\ ~At("dropDb")
    BY <1>5 DEF RewriteEnv, At
  <2>2. env'.exists = env.exists /\ env'.master = env.master
    BY <1>2, <2>1 DEF Updated
  <2> QED
    BY <1>1, <1>3, <2>1, <2>2 DEF Encrypted
<1>6. CASE DropDb
  BY <1>3, <1>6 DEF DropDb, Encrypted
<1>7. CASE BringUp
  <2>1. At("up") /\ UNCHANGED env /\ up' = StackHealthy
        /\ db' = IF StackHealthy /\ db = None THEN env.master ELSE db
    BY <1>7 DEF BringUp
  <2>2. todo' = <<>>
    <3>1. todo # <<>> /\ Ordered(todo) /\ todo[1].op = "up" /\ 1 \in 1 .. Len(todo)
      BY <2>1, AtHead
    <3>2. Len(todo) = 1
      BY <3>1 DEF Ordered
    <3>3. Tail(todo) \in Seq(Tasks) /\ Len(Tail(todo)) = 0
      BY <3>1, <3>2, Tails
    <3> QED
      BY <1>7, <3>3, EmptySeq DEF BringUp, Done
  <2>3. ~Some(todo', "newEnv")
    BY <2>2 DEF Some
  <2>4. ~env.exists => env.master = None
    BY DEF Encrypted
  <2> QED
    BY <2>1, <2>3, <2>4 DEF Encrypted
<1>8. CASE WriteKey \/ WriteCert \/ WriteCrl \/ Drop \/ EnsurePair \/ CheckInitialized
           \/ LoadCa \/ CheckServices
  <2>1. UNCHANGED <<env, db, up>> /\ ~At("dropDb")
    BY <1>8 DEF WriteKey, WriteCert, WriteCrl, Drop, EnsurePair, CheckInitialized, LoadCa,
       CheckServices, files, At
  <2> QED
    BY <1>1, <1>3, <2>1 DEF Encrypted
<1> QED
  BY <1>4, <1>5, <1>6, <1>7, <1>8 DEF Step

LEMMA NextEncrypted ==
  ASSUME Torn = FALSE, IInv, Encrypted, [Next]_vars
  PROVE  Encrypted'
<1>1. CASE Setup \/ SetupForce \/ StartPlatform
  <2>1. /\ UNCHANGED <<env, db>> /\ ~up'
        /\ \/ ~env.exists
           \/ todo' = Forced
           \/ todo' = Synchronize
    BY <1>1 DEF Setup, SetupForce, StartPlatform, Begin, files, Forced, Synchronize
  <2>2. todo' = Synchronize => ~Some(todo', "newEnv")
    BY StartsNew DEF Some, Without
  <2> QED
    BY <2>1, <2>2, StartsNew DEF Encrypted
<1>2. CASE Kill
  <2>1. todo' = <<>> /\ UNCHANGED <<env, db, up>>
    BY <1>2 DEF Kill, files
  <2>2. ~Some(todo', "newEnv")
    BY <2>1 DEF Some
  <2> QED
    BY <2>1, <2>2 DEF Encrypted
<1>3. CASE UNCHANGED vars
  BY <1>3 DEF vars, files, Encrypted
<1> QED
  BY <1>1, <1>2, <1>3, StepEncrypted DEF Next

\* If a killed run leaves no half of a file, a platform that is up reads its
\* database: it is under the master key of .env whichever runs were killed or forced,
\* as --force removes the database before it draws a key (setup.py).
THEOREM DatabaseStaysReadable ==
  ASSUME Torn = FALSE PROVE Spec => []DatabaseReadable
<1>1. Init => Encrypted
  <2> SUFFICES ASSUME Init PROVE Encrypted
    OBVIOUS
  <2>1. todo = <<>> /\ up = FALSE
    BY DEF Init
  <2> QED
    BY <2>1, FirstSecret DEF Encrypted, Some
<1>2. Encrypted => DatabaseReadable
  BY DEF Encrypted, DatabaseReadable
<1> QED
  BY <1>1, <1>2, SpecIs, NextEncrypted, PTL DEF Spec

-----------------------------------------------------------------------------
(* PlatformStart.                                                          *)

Launching == {"tracked", "port", "stopped", "spawn", "pidfile", "wait"}

AgentsKnown ==
  \A p \in Pids : IsAgent(p) =>
    p = pidFile \/ \E l \in Launchers : pc[l] = "pidfile" /\ child[l] = p
Stage(l) ==
  /\ pc[l] \in Launching => token[l] = envToken
  /\ pc[l] \in {"port", "stopped", "spawn", "pidfile", "stopListener"} => pidFile = Nil
  /\ pc[l] = "wait" => pidFile = child[l]
  /\ pc[l] \in {"pidfile", "wait", "docker", "verify"} =>
       \A p \in Pids : IsAgent(p) => procs[p] = envToken
  /\ pc[l] = "verify" => apiToken = envToken
Orderly ==
  /\ OneLauncher /\ AgentsKnown
  /\ \A l \in Launchers : Stage(l)

LauncherTyped ==
  /\ StartTypeOK
  /\ drawn \in 0 .. MaxTokens /\ interrupts \in Nat
  /\ \A l \in Launchers : pc[l] \in {"pidfile", "wait"} => child[l] \in Pids

LauncherStep(l) ==
  \/ Rotate(l) \/ StopTracked(l)
  \/ StopListener(l) \/ PortStopped(l)
  \/ Spawn(l) \/ WritePidFile(l) \/ WaitAgent(l)
  \/ DockerUp(l) \/ Verify(l)
  \/ DockerDown(l) \/ StopHostServices(l) \/ StopHostListener(l)
  \/ Interrupt(l)
HostStep(p) == Bind(p) \/ AgentEnds(p) \/ OtherStarts(p)

\* Ending a process keeps the types.
LEMMA Terminates ==
  ASSUME LauncherTyped, NEW p \in Pids,
         Terminate(p)
  PROVE  /\ procs' \in [Pids -> {Free, Other} \union Tokens]
         /\ listener' \in Pids \union {Nil}
         /\ listener' # Nil => procs'[listener'] # Free
  BY PlatformStartAssumption DEF Terminate, LauncherTyped, StartTypeOK, Alive,
     PlatformStartAssumption

\* So does every step of a launcher, and every step of the host.
LEMMA TypedLauncher ==
  ASSUME LauncherTyped, NEW l \in Launchers,
         LauncherStep(l)
  PROVE  LauncherTyped'
<1> USE PlatformStartAssumption DEF PlatformStartAssumption, LauncherTyped, StartTypeOK,
      Goto, host, launcher, bounds, Alive, Steps
<1>1. CASE Rotate(l)
  BY <1>1 DEF Rotate, Tokens
<1>2. CASE StopTracked(l)
  BY <1>2, Terminates DEF StopTracked
<1>3. CASE StopListener(l)
  BY <1>3, Terminates DEF StopListener, AgentFailed
<1>4. CASE PortStopped(l)
  BY <1>4 DEF PortStopped, AgentFailed
<1>5. CASE Spawn(l)
  BY <1>5 DEF Spawn, Tokens
<1>6. CASE WritePidFile(l)
  BY <1>6 DEF WritePidFile
<1>7. CASE WaitAgent(l)
  BY <1>7, Terminates DEF WaitAgent, AgentFailed
<1>8. CASE DockerUp(l)
  BY <1>8 DEF DockerUp
<1>9. CASE Verify(l)
  BY <1>9 DEF Verify
<1>10. CASE DockerDown(l)
  BY <1>10 DEF DockerDown
<1>11. CASE StopHostServices(l)
  BY <1>11, Terminates DEF StopHostServices
<1>12. CASE StopHostListener(l)
  BY <1>12, Terminates DEF StopHostListener
<1>13. CASE Interrupt(l)
  BY <1>13 DEF Interrupt
<1> QED
  BY <1>1, <1>2, <1>3, <1>4, <1>5, <1>6, <1>7, <1>8, <1>9, <1>10, <1>11, <1>12, <1>13 DEF
     LauncherStep

LEMMA TypedHost ==
  ASSUME LauncherTyped, NEW p \in Pids, HostStep(p)
  PROVE  LauncherTyped'
<1> USE PlatformStartAssumption DEF PlatformStartAssumption, LauncherTyped, StartTypeOK,
      launcher, bounds, Alive, Tokens, IsAgent
<1>1. CASE Bind(p)
  BY <1>1 DEF Bind
<1>2. CASE AgentEnds(p)
  BY <1>2 DEF AgentEnds
<1>3. CASE OtherStarts(p)
  BY <1>3 DEF OtherStarts
<1> QED
  BY <1>1, <1>2, <1>3 DEF HostStep

\* Beside the one launcher at work the others stay idle.
LEMMA OthersIdle ==
  ASSUME LauncherTyped, OneLauncher, OneLauncher', interrupts' = 0,
         NEW l \in Launchers, LauncherStep(l), NEW k \in Launchers \ {l}
  PROVE  pc[k] = "idle" /\ pc'[k] = "idle" /\ ~Interrupt(l)
<1>1. ~Interrupt(l)
  BY DEF Interrupt, LauncherTyped
<1>2. (pc[l] # "idle" \/ pc'[l] # "idle") /\ pc'[k] = pc[k]
  BY <1>1 DEF LauncherStep, LauncherTyped, StartTypeOK, Goto, Rotate, StopTracked,
     StopListener, PortStopped, Spawn, WritePidFile, WaitAgent, AgentFailed, DockerUp,
     Verify, DockerDown, StopHostServices, StopHostListener
<1> QED
  BY <1>1, <1>2 DEF OneLauncher

\* An orderly launcher leaves no agent that is not on record, and none with an
\* older token once it has passed the port.
LEMMA OrderlyLauncher ==
  ASSUME LauncherTyped, Orderly, OneLauncher',
         interrupts' = 0,
         NEW l \in Launchers, LauncherStep(l)
  PROVE  Orderly'
<1>1. \A k \in Launchers \ {l} : pc[k] = "idle" /\ pc'[k] = "idle"
  BY OthersIdle DEF Orderly
<1>2. ~Interrupt(l)
  BY DEF Interrupt, LauncherTyped
<1>3. /\ Stage(l)
      /\ \A p \in Pids : IsAgent(p) =>
           p = pidFile \/ (pc[l] = "pidfile" /\ child[l] = p)
  BY <1>1 DEF Orderly, AgentsKnown
<1>4. SUFFICES /\ Stage(l)'
               /\ \A p \in Pids : IsAgent(p)' =>
                    p = pidFile' \/ (pc'[l] = "pidfile" /\ child'[l] = p)
  BY <1>1 DEF Orderly, AgentsKnown, Stage, Launching
<1> USE PlatformStartAssumption DEF PlatformStartAssumption, LauncherTyped, StartTypeOK,
      Goto, host, Terminate, IsAgent, Alive, Stage, Launching
<1>5. CASE Rotate(l)
  BY <1>3, <1>5 DEF Rotate
<1>6. CASE StopTracked(l)
  BY <1>3, <1>6 DEF StopTracked
<1>7. CASE StopListener(l)
  BY <1>3, <1>7 DEF StopListener, AgentFailed
<1>8. CASE PortStopped(l)
  BY <1>3, <1>8 DEF PortStopped, AgentFailed
<1>9. CASE Spawn(l)
  BY <1>3, <1>9 DEF Spawn
<1>10. CASE WritePidFile(l)
  BY <1>3, <1>10 DEF WritePidFile
<1>11. CASE WaitAgent(l)
  BY <1>3, <1>11 DEF WaitAgent, AgentFailed
<1>12. CASE DockerUp(l)
  BY <1>3, <1>12 DEF DockerUp
<1>13. CASE Verify(l)
  BY <1>3, <1>13 DEF Verify
<1>14. CASE DockerDown(l)
  BY <1>3, <1>14 DEF DockerDown
<1>15. CASE StopHostServices(l)
  BY <1>3, <1>15 DEF StopHostServices
<1>16. CASE StopHostListener(l)
  BY <1>3, <1>16 DEF StopHostListener
<1> QED
  BY <1>2, <1>5, <1>6, <1>7, <1>8, <1>9, <1>10, <1>11, <1>12, <1>13, <1>14, <1>15, <1>16 DEF
     LauncherStep

LEMMA OrderlyHost ==
  ASSUME LauncherTyped, Orderly, NEW p \in Pids,
         HostStep(p)
  PROVE  Orderly'
<1> USE DEF LauncherTyped, StartTypeOK, IsAgent, launcher, bounds
<1>1. /\ UNCHANGED <<pc, child, token, pidFile, envToken, apiToken>>
      /\ \A q \in Pids : procs'[q] \notin {Free, Other} => procs'[q] = procs[q]
  <2>1. CASE Bind(p)
    BY <2>1 DEF Bind
  <2>2. CASE AgentEnds(p)
    BY <2>2 DEF AgentEnds
  <2>3. CASE OtherStarts(p)
    BY <2>3 DEF OtherStarts
  <2> QED
    BY <2>1, <2>2, <2>3 DEF HostStep
<1> QED
  BY <1>1 DEF Orderly, OneLauncher, AgentsKnown, Stage

StartInv == LauncherTyped /\ orderly \in BOOLEAN /\ (orderly => interrupts = 0 /\ Orderly)

LEMMA StartKeeps ==
  ASSUME StartInv, MCNext
  PROVE  StartInv'
<1>1. PICK x : (x \in Launchers /\ LauncherStep(x)) \/ (x \in Pids /\ HostStep(x))
  BY DEF MCNext, StartNext, LauncherStep, HostStep
<1>2. LauncherTyped'
  BY <1>1, TypedLauncher, TypedHost DEF StartInv
<1>3. orderly' = (orderly /\ interrupts' = 0 /\ OneLauncher')
  BY DEF MCNext
<1>4. ASSUME orderly' PROVE interrupts' = 0 /\ Orderly'
  <2>1. orderly /\ interrupts' = 0 /\ OneLauncher' /\ LauncherTyped /\ Orderly
    BY <1>3, <1>4 DEF StartInv
  <2> QED
    BY <1>1, <2>1, OrderlyLauncher, OrderlyHost
<1> QED
  BY <1>2, <1>3, <1>4 DEF StartInv

\* As long as one launcher runs at a time and none is interrupted, an agent that
\* listens when the launcher verifies its start has the token of the API
\* container, whatever other processes had the port or took over a PID on record
\* (start_platform.py).
THEOREM TokensAgree == MCSpec => []OrderlyTokensShared
<1>1. MCInit => StartInv
  BY PlatformStartAssumption DEF PlatformStartAssumption, MCInit, StartInit, StartInv,
     LauncherTyped, StartTypeOK, Tokens, Steps, Orderly, OneLauncher, AgentsKnown, Stage,
     Launching, IsAgent
<1>2. StartInv /\ [MCNext]_(<<startVars, orderly>>) => StartInv'
  <2>1. StartInv /\ UNCHANGED <<startVars, orderly>> => StartInv'
    BY DEF StartInv, LauncherTyped, StartTypeOK, Orderly, OneLauncher, AgentsKnown, Stage,
       IsAgent, Alive, startVars, host, launcher, bounds
  <2> QED
    BY <2>1, StartKeeps
<1>3. StartInv => OrderlyTokensShared
  BY DEF StartInv, LauncherTyped, StartTypeOK, OrderlyTokensShared, TokensShared, Orderly,
     Stage
<1> QED
  BY <1>1, <1>2, <1>3, PTL DEF MCSpec

-----------------------------------------------------------------------------
(* CrlBroker.                                                              *)

\* The CRL the watcher has seen has been the file's, which only grows.
Watched ==
  /\ mosq = "off" <=> watch = "off"
  /\ watch \notin {"off", "baselineCrl"} => seenCrl \subseteq listed

LEMMA WatchedKeeps ==
  ASSUME Watched, BrokerNext
  PROVE  /\ Watched'
         /\ \A c \in Certs : Unenforced(c)' => Unenforced(c) \/ BaselineCrl
<1> DEFINE Mended == \A c \in Certs : Unenforced(c)' => Unenforced(c) \/ BaselineCrl
<1> USE DEF Watched, Unenforced, clients, broker, watcher
<1>1. ASSUME ContainerStart
      PROVE  Watched' /\ Mended
  BY <1>1 DEF ContainerStart
<1>2. ASSUME MosquittoLoad
      PROVE  Watched' /\ Mended
  BY <1>2 DEF MosquittoLoad
<1>3. ASSUME MosquittoReload
      PROVE  Watched' /\ Mended
  BY <1>3 DEF MosquittoReload
<1>4. ASSUME MosquittoExit
      PROVE  Watched' /\ Mended
  BY <1>4 DEF MosquittoExit
<1>5. ASSUME BaselineCrl
      PROVE  Watched' /\ Mended
  BY <1>5 DEF BaselineCrl
<1>6. ASSUME BaselineRequest
      PROVE  Watched' /\ Mended
  BY <1>6 DEF BaselineRequest
<1>7. ASSUME PollCrl
      PROVE  Watched' /\ Mended
  BY <1>7 DEF PollCrl, Hup
<1>8. ASSUME PollRequest
      PROVE  Watched' /\ Mended
  BY <1>8 DEF PollRequest
<1>9. ASSUME MosquittoCrash
      PROVE  Watched' /\ Mended
  BY <1>9 DEF MosquittoCrash
<1>10. ASSUME NEW c \in Certs,
              \/ Revoke(c) \/ OpenTmp(c) \/ WriteTmp(c)
              \/ ReplaceRequest(c) \/ Connect(c) \/ Disconnect(c)
       PROVE  Watched' /\ Mended
  BY <1>10 DEF Revoke, OpenTmp, WriteTmp, ReplaceRequest, Connect, Disconnect
<1> QED
  BY <1>1, <1>2, <1>3, <1>4, <1>5, <1>6, <1>7, <1>8, <1>9, <1>10 DEF BrokerNext, Platform

\* What the watcher has seen of the CRL is in force in Mosquitto, or a SIGHUP is on
\* its way: nothing but the watcher's first look makes it otherwise, whenever
\* certificates are revoked and whatever crashes
\* (broker/docker-entrypoint-platform.sh).
THEOREM SeenCrl == BrokerSpec => SeenCrlIsInForce
<1> DEFINE Mended == \A c \in Certs : Unenforced(c)' => Unenforced(c) \/ BaselineCrl
<1>1. BrokerInit => Watched
  BY DEF BrokerInit, Watched
<1>2. Watched /\ [BrokerNext]_(brokerVars) => Watched' /\ [Mended]_(brokerVars)
  <2>1. Watched /\ UNCHANGED brokerVars => Watched'
    BY DEF Watched, brokerVars, clients, broker, watcher
  <2> QED
    BY <2>1, WatchedKeeps
<1> QED
  BY <1>1, <1>2, PTL DEF BrokerSpec, SeenCrlIsInForce

\* The content of a file is new to the watcher, or will be.
NewFile(f) ==
  /\ f # Absent
  /\ \/ file[f] # seenRequest
     \/ file[f] = Empty /\ \E c \in Certs : revocation[c] = "opened" /\ fd[c] = f

\* A thread that has truncated the temporary file leaves a new request, or has
\* still to rename the file, or to write into the one another thread has renamed.
Asks(c) ==
  revocation[c] \in {"opened", "written", "requested"} =>
    /\ tmp # Absent => NewFile(tmp)
    /\ \/ NewFile(request)
       \/ tmp = fd[c] /\ tmp # Absent /\ revocation[c] # "requested"
       \/ revocation[c] = "opened" /\ fd[c] = request

\* A file is created by the thread it is named after, and a content is written
\* by the thread it comes from, once.  An empty temporary file is being written.
Contents ==
  /\ tmp # Absent => tmp # request
  /\ \A f, g \in Certs : f # g /\ file[f] = file[g] => file[f] = Empty
  /\ tmp # Absent => file[tmp] # Empty \/ \E c \in Certs : revocation[c] = "opened" /\ fd[c] = tmp
  /\ \A c \in Certs :
       /\ revocation[c] \in {"valid", "revoked"} => tmp # c /\ request # c
       /\ revocation[c] \in {"valid", "revoked", "opened"} =>
            seenRequest # c /\ \A f \in Certs : file[f] # c
       /\ revocation[c] \in {"opened", "written"} => fd[c] # Absent

AllListed == listed = {c \in Certs : revocation[c] # "valid"}

AskInv ==
  /\ BrokerTypeOK
  /\ Contents
  /\ watch = "done" => mosq = "stopping"
  /\ mosq \in {"off", "booting"} => conn = {}
  /\ AllListed
  /\ watch \in {"baselineCrl", "baselineRequest"} => ~ hup
  /\ mosq = "up" /\ ~ Polling => conn \cap loaded = {}
  /\ Polling /\ request = Absent => seenRequest = Absent
  /\ mosq = "up" /\ Polling =>
       \A c \in listed \ missed : c \in conn \/ c \notin loaded => Asks(c)

LEMMA BrokerTypesInit == BrokerInit => BrokerTypeOK
<1> SUFFICES ASSUME BrokerInit
             PROVE  BrokerTypeOK
  OBVIOUS
<1> USE DEF BrokerInit
<1>1. revocation \in [Certs -> {"valid", "revoked", "opened", "written", "requested"}]
  OBVIOUS
<1>2. fd \in [Certs -> Files] /\ file \in [Certs -> Certs \cup {Empty}]
  BY DEF Files
<1>3. tmp \in Files /\ request \in Files /\ seenRequest \in Certs \cup {Empty, Absent}
  BY DEF Files
<1>4. mosqCrashes \in 0 .. MaxMosqCrashes
  BY BoundsAssumption
<1> QED
  BY <1>1, <1>2, <1>3, <1>4 DEF BrokerTypeOK

LEMMA BrokerTypes ==
  ASSUME BrokerTypeOK, BrokerNext
  PROVE  BrokerTypeOK'
<1> USE CertsAssumption, BoundsAssumption DEF BrokerTypeOK, Files, clients, broker, watcher
<1>1. CASE ContainerStart
  BY <1>1 DEF ContainerStart
<1>2. CASE MosquittoLoad
  BY <1>2 DEF MosquittoLoad
<1>3. CASE MosquittoReload
  BY <1>3 DEF MosquittoReload
<1>4. CASE MosquittoExit
  BY <1>4 DEF MosquittoExit
<1>5. CASE BaselineCrl
  BY <1>5 DEF BaselineCrl
<1>6. CASE BaselineRequest
  BY <1>6 DEF BaselineRequest, RequestHash, Overtaken
<1>7. CASE PollCrl
  BY <1>7 DEF PollCrl, Hup
<1>8. CASE PollRequest
  BY <1>8 DEF PollRequest, RequestHash
<1>9. CASE MosquittoCrash
  BY <1>9 DEF MosquittoCrash
<1>10. ASSUME NEW c \in Certs, Revoke(c) \/ Connect(c) \/ Disconnect(c)
       PROVE  BrokerTypeOK'
  BY <1>10 DEF Revoke, Connect, Disconnect
<1>11. ASSUME NEW c \in Certs, OpenTmp(c)
       PROVE  BrokerTypeOK'
  BY <1>11 DEF OpenTmp
<1>12. ASSUME NEW c \in Certs, WriteTmp(c)
       PROVE  BrokerTypeOK'
  BY <1>12 DEF WriteTmp
<1>13. ASSUME NEW c \in Certs, ReplaceRequest(c)
       PROVE  BrokerTypeOK'
  BY <1>13 DEF ReplaceRequest
<1> QED
  BY <1>1, <1>2, <1>3, <1>4, <1>5, <1>6, <1>7, <1>8, <1>9, <1>10, <1>11, <1>12, <1>13
  DEF BrokerNext, Platform

LEMMA AskKeeps ==
  ASSUME AskInv, BrokerNext
  PROVE  AskInv'
<1> USE DEF AskInv, AllListed, Contents, Asks, NewFile, Polling, clients, broker, watcher
<1>0. BrokerTypeOK /\ BrokerTypeOK'
  BY BrokerTypes
<1>1. CASE ContainerStart
  BY <1>0, <1>1 DEF ContainerStart
<1>2. CASE MosquittoLoad
  BY <1>0, <1>2 DEF MosquittoLoad
<1>3. CASE MosquittoReload
  BY <1>0, <1>3 DEF MosquittoReload, BrokerTypeOK
<1>4. CASE MosquittoExit
  BY <1>0, <1>4 DEF MosquittoExit
<1>5. CASE BaselineCrl
  BY <1>0, <1>5 DEF BaselineCrl
<1>6. CASE BaselineRequest
  <2>1. /\ watch = "baselineRequest" /\ watch' = "pollCrl" /\ seenRequest' = RequestHash
        /\ missed' = Overtaken
        /\ UNCHANGED <<revocation, fd, listed, file, tmp, request, mosq, hup, loaded, conn>>
    BY <1>6 DEF BaselineRequest
  <2>2. tmp # Absent => NewFile(tmp)'
    <3>1. tmp # Absent /\ file[tmp] = RequestHash =>
            \E c \in Certs : revocation[c] = "opened" /\ fd[c] = tmp
      <4>1. tmp # Absent => tmp \in Certs /\ file[tmp] # Absent
        BY <1>0, CertsAssumption DEF BrokerTypeOK, Files
      <4>2. request # Absent => request \in Certs
        BY <1>0 DEF BrokerTypeOK, Files
      <4> QED
        BY <4>1, <4>2 DEF RequestHash
    <3>2. tmp # Absent /\ file[tmp] = RequestHash => file[tmp] = Empty
      <4>1. tmp # Absent => tmp \in Certs /\ file[tmp] # Absent
        BY <1>0, CertsAssumption DEF BrokerTypeOK, Files
      <4>2. request # Absent => request \in Certs
        BY <1>0 DEF BrokerTypeOK, Files
      <4> QED
        BY <4>1, <4>2 DEF RequestHash
    <3> QED
      BY <2>1, <3>1, <3>2
  <2>3. ASSUME mosq = "up", NEW c \in listed \ missed', c \in conn \/ c \notin loaded
        PROVE  Asks(c)'
    <3>1. conn \cap loaded = {} /\ c \in Certs
      BY <1>0, <2>1, <2>3 DEF BrokerTypeOK
    <3>2. Coming(c)
      BY <2>1, <2>3, <3>1 DEF Overtaken
    <3>3. revocation[c] \in {"opened", "written"} => fd[c] # Absent
      BY <3>1
    <3> HIDE DEF NewFile
    <3> QED
      BY <2>1, <2>2, <3>2, <3>3 DEF Coming
  <2>4. Contents'
    <3>1. seenRequest' = Absent \/ (request \in Certs /\ seenRequest' = file[request])
      BY <1>0, <2>1 DEF RequestHash, BrokerTypeOK, Files
    <3> QED
      BY <1>0, <2>1, <3>1, CertsAssumption
  <2>5. request = Absent => seenRequest' = Absent
    BY <2>1 DEF RequestHash
  <2> QED
    BY <1>0, <2>1, <2>3, <2>4, <2>5
<1>7. CASE PollCrl
  BY <1>0, <1>7 DEF PollCrl, Hup, BrokerTypeOK
<1>8. CASE PollRequest
  BY <1>0, <1>8, CertsAssumption DEF PollRequest, RequestHash, NewRequest, BrokerTypeOK, Files
<1>9. CASE MosquittoCrash
  BY <1>0, <1>9 DEF MosquittoCrash
<1>10. ASSUME NEW c \in Certs, Revoke(c)
       PROVE  AskInv'
  BY <1>0, <1>10 DEF Revoke, BrokerTypeOK
<1>11. ASSUME NEW c \in Certs, Connect(c) \/ Disconnect(c)
       PROVE  AskInv'
  BY <1>0, <1>11 DEF Connect, Disconnect
<1>12. ASSUME NEW c \in Certs, OpenTmp(c)
       PROVE  AskInv'
  BY <1>0, <1>12, CertsAssumption DEF OpenTmp, BrokerTypeOK, Files
<1>13. ASSUME NEW c \in Certs, WriteTmp(c)
       PROVE  AskInv'
  BY <1>0, <1>13, CertsAssumption DEF WriteTmp, BrokerTypeOK, Files
<1>14. ASSUME NEW c \in Certs, ReplaceRequest(c)
       PROVE  AskInv'
  BY <1>0, <1>14, CertsAssumption DEF ReplaceRequest, BrokerTypeOK, Files
<1> QED
  BY <1>1, <1>2, <1>3, <1>4, <1>5, <1>6, <1>7, <1>8, <1>9, <1>10, <1>11, <1>12, <1>13, <1>14
  DEF BrokerNext, Platform

LEMMA AskAlways == BrokerSpec => []AskInv
<1>1. BrokerInit => AskInv
  <2> SUFFICES ASSUME BrokerInit
               PROVE  AskInv
    OBVIOUS
  <2>1. BrokerTypeOK
    BY BrokerTypesInit
  <2>2. Contents
    BY CertsAssumption DEF BrokerInit, Contents
  <2> QED
    BY <2>1, <2>2 DEF BrokerInit, AskInv, AllListed, Polling
<1>2. AskInv /\ [BrokerNext]_(brokerVars) => AskInv'
  <2>1. AskInv /\ UNCHANGED brokerVars => AskInv'
    BY DEF AskInv, AllListed, BrokerTypeOK, Contents, Asks, NewFile, Polling, brokerVars, clients, broker,
      watcher
  <2> QED
    BY <2>1, AskKeeps
<1> QED
  BY <1>1, <1>2, PTL DEF BrokerSpec

\* However the requests of concurrent revocations overwrite each other's
\* temporary file, and whatever crashes, a session that outlives the request to
\* end it is ended at the watcher's next look, unless the request is one a
\* thread has truncated and not written yet, or was made between Mosquitto's start
\* and the watcher's first look (_request_broker_security_restart, watch_crl).
THEOREM RestartAlwaysComes == BrokerSpec => []RestartComes
<1>1. AskInv => RestartComes
  <2> SUFFICES ASSUME AskInv, Polling, NEW c \in conn \ missed,
                      revocation[c] = "requested", mosq # "stopping", ~ Truncated
               PROVE  NewRequest
    BY DEF RestartComes
  <2>1. c \in listed /\ mosq = "up"
    BY DEF AskInv, AllListed, BrokerTypeOK, Polling
  <2>2. NewFile(request)
    BY <2>1 DEF AskInv, Asks
  <2>3. request \in Certs /\ RequestHash = file[request] /\ RequestHash # Absent
    BY <2>2, CertsAssumption DEF NewFile, AskInv, BrokerTypeOK, Files, RequestHash
  <2> QED
    BY <2>2, <2>3 DEF NewFile, NewRequest, Truncated
<1> QED
  BY <1>1, AskAlways, PTL

\* A revoked certificate without a session gets none any more once Mosquitto has
\* loaded a CRL that lists it: every later CRL lists it too (rebuild_crl_from_db).
THEOREM OutAlwaysStaysOut == BrokerSpec => OutStaysOut
<1> DEFINE Stays == \A c \in Certs :
                      revocation[c] # "valid" /\ c \in loaded \ conn => c \in loaded' \ conn'
           Listed == BrokerTypeOK /\ AllListed
<1>1. BrokerInit => Listed
  BY BrokerTypesInit DEF BrokerInit, AllListed
<1>2. Listed /\ [BrokerNext]_(brokerVars) => Listed'
  <2> SUFFICES ASSUME Listed, [BrokerNext]_(brokerVars)
               PROVE  Listed'
    OBVIOUS
  <2>1. CASE UNCHANGED brokerVars
    BY <2>1 DEF BrokerTypeOK, AllListed, brokerVars, clients, broker, watcher
  <2>2. ASSUME NEW c \in Certs,
               \/ Revoke(c) \/ OpenTmp(c) \/ WriteTmp(c)
               \/ ReplaceRequest(c) \/ Connect(c) \/ Disconnect(c)
        PROVE  AllListed'
    BY <2>2 DEF AllListed, BrokerTypeOK, Revoke, OpenTmp, WriteTmp, ReplaceRequest, Connect,
      Disconnect, clients
  <2>3. ASSUME Platform \/ MosquittoCrash
        PROVE  AllListed'
    <3>1. listed' = listed /\ revocation' = revocation
      BY <2>3 DEF Platform, ContainerStart, MosquittoLoad, MosquittoReload, MosquittoExit,
        MosquittoCrash, BaselineCrl, BaselineRequest, PollCrl, PollRequest, clients
    <3> QED
      BY <3>1 DEF AllListed
  <2> QED
    BY <2>1, <2>2, <2>3, BrokerTypes DEF BrokerNext
<1>3. Listed /\ [BrokerNext]_(brokerVars) => [Stays]_(brokerVars)
  <2> SUFFICES ASSUME Listed, BrokerNext, NEW c \in Certs, revocation[c] # "valid",
                      c \in loaded \ conn
               PROVE  c \in loaded' \ conn'
    OBVIOUS
  <2>1. c \in listed
    BY DEF AllListed
  <2>2. ASSUME NEW d \in Certs,
               \/ Revoke(d) \/ OpenTmp(d) \/ WriteTmp(d)
               \/ ReplaceRequest(d) \/ Connect(d) \/ Disconnect(d)
        PROVE  c \in loaded' \ conn'
    BY <2>2 DEF Revoke, OpenTmp, WriteTmp, ReplaceRequest, Connect, Disconnect, broker
  <2> QED
    BY <2>1, <2>2 DEF BrokerNext, Platform, ContainerStart, MosquittoLoad, MosquittoReload,
      MosquittoExit, MosquittoCrash, BaselineCrl, BaselineRequest, PollCrl, PollRequest, broker
<1> QED
  BY <1>1, <1>2, <1>3, PTL DEF BrokerSpec, OutStaysOut

=============================================================================
