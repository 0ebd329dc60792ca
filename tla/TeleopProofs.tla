---------------------------- MODULE TeleopProofs ----------------------------
(***************************************************************************)
(* Inv and StoppedAtEnd of Teleop, for every world, every size of the      *)
(* queues and every set of positions of the stick.                         *)
(*                                                                         *)
(* That nothing the program sends for its end gets lost rests on the       *)
(* order: the request that disables the notifications is the last thing    *)
(* that is handed to the bearer, the bearer writes it last, and the        *)
(* program does not go on before it is answered.  What is queued and where *)
(* the miniPRO stands are related at each statement from "exit" on         *)
(* (Stopping); once the bearer refuses what it is given, the answer never  *)
(* comes and the program does not end with 0.                              *)
(*                                                                         *)
(* All this is so until the two threads meet in the bearer: the invariant  *)
(* has this part under "met \/ ...", and StopStep wants ~ met'.  Inv holds *)
(* in any case.                                                            *)
(***************************************************************************)
EXTENDS Teleop, QueueLemmas

States == {"queued", "sent", "answered"}
StopPacket == Drive(0, 0)

(* What is ever queued without response.                                   *)
IsDrive(b) == b[6] = SetDrive /\ {b[7], b[8], b[9], b[10]} \subseteq Int
Packets ==
  {b \in Seq(Int) : \/ b \in {EnterRemoteControlMode, ExitRemoteControlMode}
                    \/ IsDrive(b)}
Robots == [remote : BOOLEAN, throttle : Int, steering : Int]
Requests == [value : {Config(0), Config(1)}, state : States]

(* What the joystick may report of the stick                               *)
Reports(e) == e.axis \in Axes /\ e.value \in Positions[e.axis]

ClientTyped ==
  /\ world \in Worlds
  /\ stage \in Stages
  /\ gatt \in {"none", "up", "freed"} /\ att \in {"none", "up", "freed"}
  /\ link \in {"none", "up", "lost", "down"}
  /\ discovery \in {"none", "going", "ok", "failed"}
  /\ ready \in BOOLEAN
  /\ promise \in {"none", "waiting", "set"}
  /\ quit \in BOOLEAN
  /\ input \in {"none", "test", "wait", "fetched", "returning", "removing", "over"}
  /\ event \in Events \union {None}
  /\ fault \in {"none", "gatt", "att", "null"}

HandlerTyped == writer \in BOOLEAN /\ met \in BOOLEAN

ProgramTyped ==
  /\ main \in Statements
  /\ result \in {"none", "ok", "error"}
  /\ should_exit \in BOOLEAN
  /\ sample \in [{"y", "x"} -> Int]
  /\ js \in {"none", "running", "ending", "over"}

StickTyped ==
  /\ axis_map \in [Axes -> Int] /\ stick \in [Axes -> Int]
  /\ \A a \in Axes : axis_map[a] \in Positions[a] /\ stick[a] \in Positions[a]
  /\ js_events \in Seq([axis : Axes, value : Int])
  /\ \A i \in DOMAIN js_events : Reports(js_events[i])
  /\ Len(js_events) <= MaxEvents

SentTyped ==
  /\ write_queue \in Seq(Packets) /\ Len(write_queue) <= MaxQueue
  /\ request \in Requests \union {None}
  /\ robot \in Robots

Typed == ClientTyped /\ HandlerTyped /\ ProgramTyped /\ StickTyped /\ SentTyped

-----------------------------------------------------------------------------
(* The object, from its constructor to its destructor, and main.           *)

InConstructor == {"none", "socket", "thread", "wait"}
InDestructor == {"quitting", "gatt_gone", "att_gone"}

MainAndStage ==
  /\ main = "construct" <=> stage \in InConstructor
  /\ main = "end" <=> stage \in {"thrown", "terminated", "destroyed"}
  /\ stage \in InDestructor => main = "destroy"

GattAndStage ==
  /\ gatt = "none" <=> stage \in {"none", "socket", "half", "thrown"}
  /\ gatt = "freed" <=> stage \in {"gatt_gone", "att_gone", "destroyed"}
  /\ att = "up" <=>
       stage \in {"thread", "wait", "terminated", "built", "quitting", "gatt_gone"}
  /\ stage \in {"none", "socket", "thrown"} => att = "none"

InputAndStage ==
  /\ input = "none" <=> stage \in {"none", "socket", "thread", "half", "thrown"}
  /\ stage = "destroyed" => input = "over"

NothingYet ==
  main = "construct" \/ stage \in {"thrown", "terminated"} =>
    write_queue = <<>> /\ request = None /\ promise = "none" /\ robot = Idle

Alive ==
  "preempts" \notin world /\ InCallback =>
    att # "freed" /\ (event = "response" => gatt # "freed")

-----------------------------------------------------------------------------
(* The request.                                                            *)

Asking == main \in {"enabling", "disabling"}
Asked ==
  /\ promise # "none" <=> Asking
  /\ request # None => gatt = "up" /\ promise = "waiting"
  /\ input = "fetched" /\ event = "response" /\ gatt # "freed" =>
       request # None /\ request.state = "answered"
  /\ ~ Accepts /\ gatt # "freed" => write_queue = <<>> /\ request = None

-----------------------------------------------------------------------------
(* How the miniPRO gets to stand still.                                    *)

StandsStill(r) == r.throttle = 0 /\ r.steering = 0
Stands == StandsStill(robot)
LastIs(b) == write_queue # <<>> /\ write_queue[Len(write_queue)] = b
Settled == write_queue = <<>> /\ robot = Idle

ExitIsLast == \A i \in DOMAIN write_queue :
  write_queue[i] = ExitRemoteControlMode =>
    /\ i = Len(write_queue) /\ main \in {"disable", "disabling"}
    /\ IF i = 1 THEN Stands ELSE write_queue[i - 1] = StopPacket

Stopping ==
  /\ robot.remote \/ Stands
  /\ main = "exit" =>
       ~ Accepts \/ (write_queue = <<>> /\ Stands) \/ LastIs(StopPacket)
  /\ main = "disable" =>
       ~ Accepts \/ Settled \/ LastIs(ExitRemoteControlMode)
  /\ main = "disabling" =>
       IF promise = "waiting" /\ request = None THEN ~ Accepts
       ELSE IF promise = "waiting" /\ request.state = "queued"
       THEN Settled \/ LastIs(ExitRemoteControlMode)
       ELSE Settled
  /\ main = "close" \/ (main = "destroy" /\ result = "none") \/ result = "ok" =>
       Settled /\ request = None
  /\ result # "none" => main \in {"destroy", "end"}
  /\ result = "ok" => main = "end"

IInv ==
  /\ Typed
  /\ MainAndStage /\ GattAndStage /\ InputAndStage /\ NothingYet /\ Alive
  /\ Asked
  /\ met \/ (ExitIsLast /\ Stopping)
  /\ PromiseKept /\ NoUseAfterFree

-----------------------------------------------------------------------------
(* What a packet of the program is, byte by byte.                          *)

Ith(s, i) == IF i \in DOMAIN s THEN s[i] ELSE 0

Sum8(f) == f[1] + f[2] + f[3] + f[4] + f[5] + f[6] + f[7] + f[8]

(* Eight integers have an integer for a sum.                               *)
LEMMA SumIsInt ==
  ASSUME NEW f \in [1 .. 8 -> Int]
  PROVE  Sum8(f) \in Int
<1>1. /\ f[1] \in Int /\ f[2] \in Int /\ f[3] \in Int /\ f[4] \in Int
      /\ f[5] \in Int /\ f[6] \in Int /\ f[7] \in Int /\ f[8] \in Int
  OBVIOUS
<1> DEFINE four == f[1] + f[2] + f[3] + f[4]
<1>2. four \in Int
  BY <1>1
<1>3. Sum8(f) = four + f[5] + f[6] + f[7] + f[8]
  BY DEF Sum8
<1> HIDE DEF four
<1> QED BY <1>1, <1>2, <1>3

(* Without one of them the sum is smaller by that one.                     *)
Less(f, g, x) ==
  x \in 1 .. 8 /\ g[x] = 0 /\ \A i \in 1 .. 8 : i # x => g[i] = f[i]

LEMMA SumWithout ==
  \A f, g \in [1 .. 8 -> Int] :
    \A x : Less(f, g, x) => Sum8(f) = Sum8(g) + f[x]
<1> SUFFICES ASSUME NEW f \in [1 .. 8 -> Int], NEW g \in [1 .. 8 -> Int],
                    NEW x \in 1 .. 8, Less(f, g, x)
             PROVE  Sum8(f) = Sum8(g) + f[x]
  BY DEF Less
<1>1. \A i \in 1 .. 8 : f[i] \in Int /\ g[i] = IF i = x THEN 0 ELSE f[i]
  BY DEF Less
<1> QED BY <1>1 DEF Sum8

(* The sum of at most eight numbers, which is what the checksum is about,  *)
(* does not depend on their order.                                         *)
LEMMA SumOfEight ==
  ASSUME NEW s \in Seq(Int), Len(s) <= 8
  PROVE  SumOf(s) =
           Ith(s, 1) + Ith(s, 2) + Ith(s, 3) + Ith(s, 4)
             + Ith(s, 5) + Ith(s, 6) + Ith(s, 7) + Ith(s, 8)
<1> DEFINE D == DOMAIN s
           First(t) == CHOOSE x \in t : TRUE
           Fits(it) == it = [t \in SUBSET D |->
                               IF t = {} THEN 0
                               ELSE it[t \ {First(t)}] + s[First(t)]]
           Of(t) == [i \in 1 .. 8 |-> IF i \in t THEN s[i] ELSE 0]
           Total(t) == Sum8(Of(t))
           Totals == [t \in SUBSET D |-> Total(t)]
           Fold == CHOOSE it : Fits(it)
<1>1. SumOf(s) = Fold[D]
  <2>1. FoldSeq(LAMBDA b, n : n + b, 0, s) = FoldFunction(LAMBDA b, n : n + b, 0, s)
    BY DEF FoldSeq
  <2>2. FoldFunction(LAMBDA b, n : n + b, 0, s)
          = FoldFunctionOnSet(LAMBDA b, n : n + b, 0, s, D)
    BY DEF FoldFunction
  <2>3. FoldFunctionOnSet(LAMBDA b, n : n + b, 0, s, D)
          = MapThenFoldSet(LAMBDA b, n : n + b, 0, LAMBDA i : s[i],
                           LAMBDA t : CHOOSE x \in t : TRUE, D)
    BY DEF FoldFunctionOnSet
  <2>4. MapThenFoldSet(LAMBDA b, n : n + b, 0, LAMBDA i : s[i],
                       LAMBDA t : CHOOSE x \in t : TRUE, D) = Fold[D]
    BY DEF MapThenFoldSet
  <2> QED BY <2>1, <2>2, <2>3, <2>4 DEF SumOf
<1>2. D \subseteq 1 .. 8 /\ D = 1 .. Len(s) /\ \A i \in D : s[i] \in Int
  <2>1. DOMAIN s = 1 .. Len(s) /\ Len(s) \in Nat
    OBVIOUS
  <2>2. \A i \in 1 .. Len(s) : i \in 1 .. 8 /\ s[i] \in Int
    BY <2>1
  <2> QED BY <2>1, <2>2
<1>3. \A t \in SUBSET D : t # {} => First(t) \in t
  OBVIOUS
<1>4. \A t \in SUBSET D, x \in D : x \in t => Total(t) = Total(t \ {x}) + s[x]
  <2> SUFFICES ASSUME NEW t \in SUBSET D, NEW x \in D, x \in t
               PROVE  Total(t) = Total(t \ {x}) + s[x]
    OBVIOUS
  <2>1. Of(t) \in [1 .. 8 -> Int] /\ Of(t \ {x}) \in [1 .. 8 -> Int]
    BY <1>2
  <2>2. x \in 1 .. 8 /\ Of(t)[x] = s[x] /\ Of(t \ {x})[x] = 0
    BY <1>2
  <2>3. \A i \in 1 .. 8 : i # x => Of(t \ {x})[i] = Of(t)[i]
    OBVIOUS
  <2> HIDE DEF Of
  <2>4. Sum8(Of(t)) = Sum8(Of(t \ {x})) + Of(t)[x]
    <3> DEFINE f == Of(t)
               g == Of(t \ {x})
    <3>1. f \in [1 .. 8 -> Int] /\ g \in [1 .. 8 -> Int] /\ Less(f, g, x)
      BY <2>1, <2>2, <2>3 DEF Less
    <3> HIDE DEF f, g
    <3>2. Sum8(f) = Sum8(g) + f[x]
      BY <3>1, SumWithout, Zenon
    <3> QED BY <3>2 DEF f, g
  <2> QED BY <2>2, <2>4
<1>5. Total({}) = 0
  BY DEF Sum8
<1>6. Total(D) = Ith(s, 1) + Ith(s, 2) + Ith(s, 3) + Ith(s, 4)
                   + Ith(s, 5) + Ith(s, 6) + Ith(s, 7) + Ith(s, 8)
  BY DEF Ith, Sum8
<1> HIDE DEF First, Total, D
<1>7. Fits(Totals)
  <2>1. \A t \in SUBSET D :
          Total(t) = IF t = {} THEN 0 ELSE Totals[t \ {First(t)}] + s[First(t)]
    <3> SUFFICES ASSUME NEW t \in SUBSET D, t # {}
                 PROVE  Total(t) = Totals[t \ {First(t)}] + s[First(t)]
      BY <1>5
    <3>1. First(t) \in t /\ t \ {First(t)} \in SUBSET D
      BY <1>3
    <3> QED BY <3>1, <1>4
  <2> QED BY <2>1
<1>8. Fits(Fold)
  BY <1>7
<1>9. Fold[D] = Total(D)
  <2> DEFINE Bad == {t \in SUBSET D : Fold[t] # Total(t)}
             Sizes == {Cardinality(t) : t \in Bad}
  <2>1. \A t \in SUBSET D :
          Fold[t] = IF t = {} THEN 0 ELSE Fold[t \ {First(t)}] + s[First(t)]
    <3> HIDE DEF Fold
    <3> QED BY <1>8
  <2> HIDE DEF Fold
  <2>2. \A t \in SUBSET D : IsFiniteSet(t)
    <3>1. IsFiniteSet(1 .. Len(s))
      BY FS_Interval
    <3> QED BY <1>2, <3>1, FS_Subset
  <2>3. SUFFICES ASSUME Bad # {} PROVE FALSE
    OBVIOUS
  <2>4. Sizes \in SUBSET Nat /\ Sizes # {}
    BY <2>2, <2>3, FS_CardinalityType
  <2>5. PICK t \in Bad : \A u \in Bad : Cardinality(t) <= Cardinality(u)
    <3>1. Min(Sizes) \in Sizes /\ \A n \in Sizes : Min(Sizes) <= n
      BY <2>4, Least
    <3>2. PICK t \in Bad : Cardinality(t) = Min(Sizes)
      BY <3>1
    <3> HIDE DEF Bad
    <3> QED BY <3>1, <3>2
  <2>6. t # {}
    BY <2>1, <1>5
  <2>7. First(t) \in t /\ t \ {First(t)} \in SUBSET D /\ First(t) \in D
    BY <2>6, <1>3
  <2>8. Cardinality(t \ {First(t)}) = Cardinality(t) - 1 /\ Cardinality(t) \in Nat
    BY <2>7, <2>2, FS_RemoveElement, FS_CardinalityType, Zenon
  <2>9. t \ {First(t)} \notin Bad
    BY <2>5, <2>8
  <2>10. Fold[t] = Fold[t \ {First(t)}] + s[First(t)]
    BY <2>1, <2>6
  <2>11. Fold[t \ {First(t)}] = Total(t \ {First(t)})
    BY <2>7, <2>9
  <2>12. Total(t) = Total(t \ {First(t)}) + s[First(t)]
    BY <2>7, <1>4
  <2>13. Fold[t] # Total(t)
    OBVIOUS
  <2> QED BY <2>10, <2>11, <2>12, <2>13, Zenon
<1> QED BY <1>1, <1>6, <1>9

Low(n) == U16(n) % 256
High(n) == U16(n) \div 256

(* Two bytes of a 16-bit number                                            *)
LEMMA BytesAre ==
  ASSUME NEW n \in Int
  PROVE  /\ Bytes(n) \in Seq(Int) /\ Len(Bytes(n)) = 2
         /\ Bytes(n)[1] = Low(n) /\ Bytes(n)[2] = High(n)
         /\ U16(n) \in Int /\ S16(n) \in Int
BY DEF Bytes, U16, S16, Low, High

(* Three pieces, one behind the other                                      *)
LEMMA ThreePieces ==
  ASSUME NEW a \in Seq(Int), NEW p \in Seq(Int), NEW c \in Seq(Int)
  PROVE  /\ a \o p \o c \in Seq(Int)
         /\ Len(a \o p \o c) = Len(a) + Len(p) + Len(c)
         /\ \A i \in 1 .. Len(a) : (a \o p \o c)[i] = a[i]
         /\ \A i \in 1 .. Len(p) : (a \o p \o c)[Len(a) + i] = p[i]
         /\ \A i \in 1 .. Len(c) : (a \o p \o c)[Len(a) + Len(p) + i] = c[i]
<1> DEFINE ap == a \o p
<1>1. Len(a) \in Nat /\ Len(p) \in Nat /\ Len(c) \in Nat
  OBVIOUS
<1>2. /\ ap \in Seq(Int) /\ Len(ap) = Len(a) + Len(p)
      /\ \A i \in 1 .. Len(a) + Len(p) :
           ap[i] = IF i <= Len(a) THEN a[i] ELSE p[i - Len(a)]
  BY ConcatProperties
<1> HIDE DEF ap
<1>3. /\ ap \o c \in Seq(Int) /\ Len(ap \o c) = Len(ap) + Len(c)
      /\ \A i \in 1 .. Len(ap) + Len(c) :
           (ap \o c)[i] = IF i <= Len(ap) THEN ap[i] ELSE c[i - Len(ap)]
  <2>1. ap \in Seq(Int)
    BY <1>2
  <2> QED BY <2>1, ConcatProperties
<1>4. ap \o c \in Seq(Int) /\ Len(ap \o c) = Len(a) + Len(p) + Len(c)
  BY <1>1, <1>2, <1>3
<1> DEFINE w == ap \o c
<1> HIDE DEF w
<1>5. \A i \in 1 .. Len(a) + Len(p) + Len(c) :
        w[i] = IF i <= Len(a) + Len(p) THEN ap[i] ELSE c[i - (Len(a) + Len(p))]
  <2>1. Len(ap) = Len(a) + Len(p)
    BY <1>2
  <2>2. w = ap \o c
    BY DEF w
  <2> QED BY <1>3, <2>1, <2>2, Zenon
<1>6. \A i \in 1 .. Len(a) : w[i] = a[i]
  <2> SUFFICES ASSUME NEW i \in 1 .. Len(a) PROVE w[i] = a[i]
    OBVIOUS
  <2>1. i \in 1 .. Len(a) + Len(p) /\ i \in 1 .. Len(a) + Len(p) + Len(c)
    BY <1>1
  <2>2. w[i] = ap[i] /\ ap[i] = a[i]
    BY <1>1, <1>2, <1>5, <2>1
  <2> QED BY <2>2
<1>7. \A i \in 1 .. Len(p) : w[Len(a) + i] = p[i]
  <2> SUFFICES ASSUME NEW i \in 1 .. Len(p) PROVE w[Len(a) + i] = p[i]
    OBVIOUS
  <2>1. w[Len(a) + i] = ap[Len(a) + i]
    <3>1. /\ Len(a) + i \in 1 .. Len(a) + Len(p) + Len(c)
          /\ Len(a) + i <= Len(a) + Len(p)
      BY <1>1
    <3> QED BY <3>1, <1>5, Zenon
  <2>2. /\ (Len(a) + i) - Len(a) = i /\ Len(a) + i \in 1 .. Len(a) + Len(p)
        /\ ~ (Len(a) + i <= Len(a))
    BY <1>1
  <2>3. ap[Len(a) + i] = p[(Len(a) + i) - Len(a)]
    BY <2>2, <1>2, Zenon
  <2> QED BY <2>1, <2>2, <2>3
<1>8. \A i \in 1 .. Len(c) : w[Len(a) + Len(p) + i] = c[i]
  <2> SUFFICES ASSUME NEW i \in 1 .. Len(c) PROVE w[Len(a) + Len(p) + i] = c[i]
    OBVIOUS
  <2>1. /\ (Len(a) + Len(p) + i) - (Len(a) + Len(p)) = i
        /\ Len(a) + Len(p) + i \in 1 .. Len(a) + Len(p) + Len(c)
        /\ ~ (Len(a) + Len(p) + i <= Len(a) + Len(p))
    BY <1>1
  <2>2. w[Len(a) + Len(p) + i] = c[(Len(a) + Len(p) + i) - (Len(a) + Len(p))]
    BY <2>1, <1>5, Zenon
  <2> QED BY <2>1, <2>2
<1> QED BY <1>4, <1>6, <1>7, <1>8 DEF w, ap

(* What the checksum of a packet is taken of                               *)
PacketSum(parameter, payload) ==
  Len(payload) + 15 + parameter
    + (Ith(payload, 1) + Ith(payload, 2) + Ith(payload, 3) + Ith(payload, 4)
         + Ith(payload, 5) + Ith(payload, 6) + Ith(payload, 7) + Ith(payload, 8))

HasParts(packet, parameter, payload) ==
  /\ packet \in Seq(Int) /\ Len(packet) = Len(payload) + 8
  /\ packet[1] = 85 /\ packet[2] = 170 /\ packet[3] = Len(payload) + 2
  /\ packet[4] = 10 /\ packet[5] = 3 /\ packet[6] = parameter
  /\ \A i \in DOMAIN payload : packet[6 + i] = payload[i]
  /\ LET check == Bytes(65535 - U16(PacketSum(parameter, payload)))
     IN packet[Len(payload) + 7] = check[1] /\ packet[Len(payload) + 8] = check[2]

(* A packet is its head, its parameter, its payload and its checksum.      *)
LEMMA GetBytesIs ==
  ASSUME NEW parameter \in Int, NEW payload \in Seq(Int), Len(payload) <= 8,
         NEW packet, packet = GetBytes(parameter, payload),
         NEW sum, sum = PacketSum(parameter, payload)
  PROVE  HasParts(packet, parameter, payload) /\ sum \in Int
<1> DEFINE ps == Ith(payload, 1) + Ith(payload, 2) + Ith(payload, 3)
                   + Ith(payload, 4) + Ith(payload, 5) + Ith(payload, 6)
                   + Ith(payload, 7) + Ith(payload, 8)
           start == <<85, 170, Len(payload) + 2, Command, ControlDriveBase,
                      parameter>>
           end == Bytes(65535 - U16(sum))
           total == Len(payload) + 2 + Command + ControlDriveBase + parameter
                      + SumOf(payload)
<1>1. SumOf(payload) = ps
  BY SumOfEight
<1>2. /\ Len(payload) \in Nat /\ DOMAIN payload = 1 .. Len(payload)
      /\ \A i \in 1 .. Len(payload) : payload[i] \in Int
  OBVIOUS
<1>3. ps \in Int
  <2>1. \A i \in 1 .. 8 : Ith(payload, i) \in Int
    BY <1>2 DEF Ith
  <2> DEFINE f == [i \in 1 .. 8 |-> Ith(payload, i)]
  <2>2. f \in [1 .. 8 -> Int]
    BY <2>1
  <2>3. ps = Sum8(f)
    BY DEF Sum8
  <2> HIDE DEF f, ps
  <2> QED BY <2>2, <2>3, SumIsInt, Zenon
<1>4. GetBytes(parameter, payload) = start \o payload \o Bytes(65535 - U16(total))
  BY DEF GetBytes
<1> HIDE DEF ps
<1>5. total = sum /\ sum \in Int
  <2>1. sum = Len(payload) + 15 + parameter + ps
    BY DEF PacketSum, ps
  <2> QED BY <1>1, <1>2, <1>3, <2>1 DEF Command, ControlDriveBase
<1> HIDE DEF total
<1>6. end \in Seq(Int) /\ Len(end) = 2
  <2>1. 65535 - U16(sum) \in Int
    BY <1>5 DEF U16
  <2> QED BY <2>1, BytesAre
<1>7. start \in Seq(Int) /\ Len(start) = 6
  BY <1>2 DEF Command, ControlDriveBase
<1>8. GetBytes(parameter, payload) = start \o payload \o end
  BY <1>4, <1>5
<1> HIDE DEF end
<1>9. /\ start[1] = 85 /\ start[2] = 170 /\ start[3] = Len(payload) + 2
      /\ start[4] = 10 /\ start[5] = 3 /\ start[6] = parameter
  BY DEF Command, ControlDriveBase
<1> HIDE DEF start
<1> DEFINE b == start \o payload \o end
<1>10. /\ b \in Seq(Int) /\ Len(b) = Len(start) + Len(payload) + Len(end)
       /\ \A i \in 1 .. Len(start) : b[i] = start[i]
       /\ \A i \in 1 .. Len(payload) : b[Len(start) + i] = payload[i]
       /\ \A i \in 1 .. Len(end) : b[Len(start) + Len(payload) + i] = end[i]
  <2>1. start \in Seq(Int) /\ payload \in Seq(Int) /\ end \in Seq(Int)
    BY <1>6, <1>7
  <2> HIDE DEF b
  <2>2. b = start \o payload \o end
    BY DEF b
  <2>3. /\ b \in Seq(Int) /\ Len(b) = Len(start) + Len(payload) + Len(end)
        /\ \A i \in 1 .. Len(start) : b[i] = start[i]
    BY <2>1, <2>2, ThreePieces
  <2>4. \A i \in 1 .. Len(payload) : b[Len(start) + i] = payload[i]
    BY <2>1, <2>2, ThreePieces
  <2>5. \A i \in 1 .. Len(end) : b[Len(start) + Len(payload) + i] = end[i]
    BY <2>1, <2>2, ThreePieces
  <2> QED BY <2>3, <2>4, <2>5
<1> HIDE DEF b
<1>11. /\ Len(b) = Len(payload) + 8
       /\ b[1] = 85 /\ b[2] = 170 /\ b[3] = Len(payload) + 2
       /\ b[4] = 10 /\ b[5] = 3 /\ b[6] = parameter
       /\ b[Len(payload) + 7] = end[1] /\ b[Len(payload) + 8] = end[2]
  <2>1. 6 + Len(payload) + 2 = Len(payload) + 8 /\ 6 + Len(payload) + 1 = Len(payload) + 7
    BY <1>2
  <2>2. b[6 + Len(payload) + 1] = end[1] /\ b[6 + Len(payload) + 2] = end[2]
    BY <1>6, <1>7, <1>10
  <2>3. \A i \in 1 .. 6 : b[i] = start[i]
    BY <1>7, <1>10
  <2>4. Len(b) = Len(payload) + 8
    BY <1>2, <1>6, <1>7, <1>10
  <2> QED BY <1>9, <2>1, <2>2, <2>3, <2>4
<1>12. \A i \in DOMAIN payload : b[6 + i] = payload[i]
  BY <1>2, <1>7, <1>10
<1>13. b = packet
  BY <1>8 DEF b
<1> QED BY <1>5, <1>10, <1>11, <1>12, <1>13 DEF end, HasParts

(* The sum of six and of eight bytes of a packet, from the third on        *)
LEMMA SumFromThird ==
  ASSUME NEW b \in Seq(Int), NEW n \in {6, 8}, Len(b) = n + 4
  PROVE  /\ n = 6 => SumOf(SubSeq(b, 3, Len(b) - 2)) =
                        b[3] + b[4] + b[5] + b[6] + b[7] + b[8]
         /\ n = 8 => SumOf(SubSeq(b, 3, Len(b) - 2)) =
                        b[3] + b[4] + b[5] + b[6] + b[7] + b[8] + b[9] + b[10]
<1> DEFINE s == SubSeq(b, 3, Len(b) - 2)
<1>1. s \in Seq(Int) /\ Len(s) = n /\ \A i \in 1 .. n : s[i] = b[i + 2]
  BY SubSeqProperties
<1>2. \A i \in 1 .. n + 4 : b[i] \in Int
  OBVIOUS
<1> HIDE DEF s
<1>3. SumOf(s) = Ith(s, 1) + Ith(s, 2) + Ith(s, 3) + Ith(s, 4)
                   + Ith(s, 5) + Ith(s, 6) + Ith(s, 7) + Ith(s, 8)
  BY <1>1, SumOfEight
<1>4. \A i \in 1 .. 8 : Ith(s, i) = IF i <= n THEN b[i + 2] ELSE 0
  BY <1>1 DEF Ith
<1>5. ASSUME n = 6
      PROVE  SumOf(s) = b[3] + b[4] + b[5] + b[6] + b[7] + b[8]
  <2>1. /\ Ith(s, 1) = b[3] /\ Ith(s, 2) = b[4] /\ Ith(s, 3) = b[5]
        /\ Ith(s, 4) = b[6] /\ Ith(s, 5) = b[7] /\ Ith(s, 6) = b[8]
        /\ Ith(s, 7) = 0 /\ Ith(s, 8) = 0
    BY <1>5, <1>4
  <2>2. /\ b[3] \in Int /\ b[4] \in Int /\ b[5] \in Int
        /\ b[6] \in Int /\ b[7] \in Int /\ b[8] \in Int
    BY <1>5, <1>2
  <2> DEFINE three == b[3] + b[4] + b[5]
  <2>3. SumOf(s) = three + b[6] + b[7] + b[8] + 0 + 0
    BY <2>1, <1>3, Zenon
  <2>4. three \in Int
    BY <2>2
  <2> HIDE DEF three
  <2>5. SumOf(s) = three + b[6] + b[7] + b[8]
    BY <2>2, <2>3, <2>4
  <2> QED BY <2>5 DEF three
<1>6. ASSUME n = 8
      PROVE  SumOf(s) = b[3] + b[4] + b[5] + b[6] + b[7] + b[8] + b[9] + b[10]
  <2>1. /\ Ith(s, 1) = b[3] /\ Ith(s, 2) = b[4] /\ Ith(s, 3) = b[5]
        /\ Ith(s, 4) = b[6] /\ Ith(s, 5) = b[7] /\ Ith(s, 6) = b[8]
        /\ Ith(s, 7) = b[9] /\ Ith(s, 8) = b[10]
    BY <1>6, <1>4
  <2> QED BY <2>1, <1>3, Zenon
<1> QED BY <1>5, <1>6 DEF s

(* ... of the ten bytes of a packet ...                                    *)
LEMMA SumOfSix ==
  ASSUME NEW b \in Seq(Int), Len(b) = 10
  PROVE  SumOf(SubSeq(b, 3, Len(b) - 2)) = b[3] + b[4] + b[5] + b[6] + b[7] + b[8]
<1> DEFINE n == 6
<1>1. n \in {6, 8} /\ n = 6 /\ Len(b) = n + 4
  OBVIOUS
<1> HIDE DEF n
<1> QED BY <1>1, SumFromThird

(* ... and of the twelve of another                                        *)
LEMMA SumOfEightMore ==
  ASSUME NEW b \in Seq(Int), Len(b) = 12
  PROVE  SumOf(SubSeq(b, 3, Len(b) - 2)) =
           b[3] + b[4] + b[5] + b[6] + b[7] + b[8] + b[9] + b[10]
<1> DEFINE n == 8
<1>1. n \in {6, 8} /\ n = 8 /\ Len(b) = n + 4
  OBVIOUS
<1> HIDE DEF n
<1> QED BY <1>1, SumFromThird

(* EnterRemoteControlMode and ExitRemoteControlMode                        *)
LEMMA ModePackets ==
  ASSUME NEW mode \in {0, 1}, NEW b, b = GetBytes(EnableRemoteControl, Bytes(mode))
  PROVE  /\ b \in Seq(Int) /\ Len(b) = 10 /\ WellFormed(b)
         /\ b[6] = EnableRemoteControl /\ Word(b, 7) = mode
<1> DEFINE payload == Bytes(mode)
           check == 65535 - U16(139 + mode)
<1>1. /\ payload \in Seq(Int) /\ Len(payload) = 2 /\ DOMAIN payload = 1 .. 2
      /\ payload[1] = mode /\ payload[2] = 0
  <2>1. Low(mode) = mode /\ High(mode) = 0
    BY DEF Low, High, U16
  <2>2. /\ payload \in Seq(Int) /\ Len(payload) = 2
        /\ payload[1] = Low(mode) /\ payload[2] = High(mode)
    <3>1. mode \in Int
      OBVIOUS
    <3> QED BY <3>1, BytesAre
  <2> HIDE DEF payload
  <2> QED BY <2>1, <2>2
<1> HIDE DEF payload
<1>2. /\ Ith(payload, 1) = mode /\ Ith(payload, 2) = 0
      /\ \A i \in 3 .. 8 : Ith(payload, i) = 0
  BY <1>1 DEF Ith
<1> DEFINE sum == PacketSum(EnableRemoteControl, payload)
<1>3. sum = 139 + mode
  BY <1>1, <1>2 DEF EnableRemoteControl, PacketSum
<1>4. EnableRemoteControl \in Int
  BY DEF EnableRemoteControl
<1>5. /\ b \in Seq(Int) /\ Len(b) = 10 /\ b[1] = 85 /\ b[2] = 170 /\ b[3] = 4
      /\ b[4] = 10 /\ b[5] = 3 /\ b[6] = EnableRemoteControl
      /\ b[7] = mode /\ b[8] = 0
      /\ b[9] = Bytes(check)[1] /\ b[10] = Bytes(check)[2]
  <2>1. b = GetBytes(EnableRemoteControl, payload)
    BY DEF payload
  <2>2. /\ b \in Seq(Int) /\ Len(b) = Len(payload) + 8
        /\ b[1] = 85 /\ b[2] = 170 /\ b[3] = Len(payload) + 2
        /\ b[4] = 10 /\ b[5] = 3 /\ b[6] = EnableRemoteControl
        /\ \A i \in DOMAIN payload : b[6 + i] = payload[i]
        /\ b[Len(payload) + 7] = Bytes(check)[1]
        /\ b[Len(payload) + 8] = Bytes(check)[2]
    <3>1. Len(payload) <= 8
      BY <1>1
    <3>2. payload \in Seq(Int)
      BY <1>1
    <3>3. HasParts(b, EnableRemoteControl, payload)
      BY <2>1, <3>1, <3>2, <1>4, GetBytesIs
    <3> QED BY <3>3, <1>3 DEF HasParts
  <2>3. b[6 + 1] = payload[1] /\ b[6 + 2] = payload[2]
    BY <1>1, <2>2
  <2> HIDE DEF check
  <2> QED BY <1>1, <2>2, <2>3
<1>6. check \in Int /\ U16(139 + mode) = 139 + mode
      /\ ((check % 65536) % 256) + 256 * ((check % 65536) \div 256) = 65396 - mode
  <2>1. CASE mode = 0 BY <2>1 DEF U16
  <2>2. CASE mode = 1 BY <2>2 DEF U16
  <2> QED BY <2>1, <2>2
<1> HIDE DEF check
<1>7. b[9] + 256 * b[10] = 65396 - mode
  <2>1. Bytes(check)[1] = Low(check) /\ Bytes(check)[2] = High(check)
    <3>1. check \in Int
      BY <1>6
    <3> QED BY <3>1, BytesAre
  <2> QED BY <1>5, <1>6, <2>1 DEF Low, High, U16
<1>8. SumOf(SubSeq(b, 3, Len(b) - 2)) = 139 + mode
  <2>1. SumOf(SubSeq(b, 3, Len(b) - 2)) =
          b[3] + b[4] + b[5] + b[6] + b[7] + b[8]
    BY <1>5, SumOfSix
  <2>2. /\ b[3] = 4 /\ b[4] = 10 /\ b[5] = 3 /\ b[6] = 122
        /\ b[7] = mode /\ b[8] = 0 /\ mode \in Int
    BY <1>5 DEF EnableRemoteControl
  <2> QED BY <2>1, <2>2
<1>9. WellFormed(b)
  <2>1. b[Len(b) - 1] = b[9] /\ b[Len(b)] = b[10]
    BY <1>5
  <2>2. U16(b[9] + 256 * b[10] + SumOf(SubSeq(b, 3, Len(b) - 2))) = 65535
    BY <1>7, <1>8 DEF U16
  <2> QED BY <1>5, <2>1, <2>2 DEF WellFormed
<1>10. Word(b, 7) = mode
  <2>1. Word(b, 7) = S16(b[7] + 256 * b[8])
    BY DEF Word
  <2>2. b[7] + 256 * b[8] = mode
    BY <1>5
  <2> QED BY <2>1, <2>2 DEF S16, U16
<1> QED BY <1>5, <1>9, <1>10

(* Drive                                                                   *)
LEMMA DrivePacket ==
  ASSUME NEW throttle \in Int, NEW steering \in Int,
         NEW b, b = Drive(throttle, steering)
  PROVE  /\ b \in Seq(Int) /\ Len(b) = 12
         /\ IsDrive(b)
         /\ throttle = 0 /\ steering = 0 =>
              WellFormed(b) /\ Word(b, 7) = 0 /\ Word(b, 9) = 0
<1> DEFINE forward == Bytes(S16(throttle))
           turn == Bytes(S16(steering))
           payload == forward \o turn
<1>1. /\ forward \in Seq(Int) /\ Len(forward) = 2
      /\ forward[1] = Low(S16(throttle)) /\ forward[2] = High(S16(throttle))
  <2>1. S16(throttle) \in Int
    BY DEF S16, U16
  <2> QED BY <2>1, BytesAre
<1>2. /\ turn \in Seq(Int) /\ Len(turn) = 2
      /\ turn[1] = Low(S16(steering)) /\ turn[2] = High(S16(steering))
  <2>1. S16(steering) \in Int
    BY DEF S16, U16
  <2> QED BY <2>1, BytesAre
<1> HIDE DEF forward, turn
<1>3. /\ payload \in Seq(Int) /\ Len(payload) = 4 /\ DOMAIN payload = 1 .. 4
      /\ payload[1] = forward[1] /\ payload[2] = forward[2]
      /\ payload[3] = turn[1] /\ payload[4] = turn[2]
  <2>1. /\ payload \in Seq(Int) /\ Len(payload) = Len(forward) + Len(turn)
        /\ \A i \in 1 .. Len(forward) + Len(turn) :
             payload[i] = IF i <= Len(forward) THEN forward[i]
                          ELSE turn[i - Len(forward)]
    BY <1>1, <1>2, ConcatProperties
  <2> HIDE DEF payload
  <2> QED BY <2>1, <1>1, <1>2
<1> DEFINE sum == PacketSum(SetDrive, payload)
<1>4. b = GetBytes(SetDrive, payload)
  BY DEF Drive, forward, turn
<1> HIDE DEF payload
<1>5. HasParts(b, SetDrive, payload)
  <2>1. SetDrive \in Int /\ Len(payload) <= 8 /\ payload \in Seq(Int)
    BY <1>3 DEF SetDrive
  <2> QED BY <2>1, <1>4, GetBytesIs
<1>6. /\ b \in Seq(Int) /\ Len(b) = 12
      /\ b[1] = 85 /\ b[2] = 170 /\ b[3] = 6 /\ b[4] = 10 /\ b[5] = 3
      /\ b[6] = SetDrive
      /\ b[7] = forward[1] /\ b[8] = forward[2] /\ b[9] = turn[1] /\ b[10] = turn[2]
      /\ b[11] = Bytes(65535 - U16(sum))[1] /\ b[12] = Bytes(65535 - U16(sum))[2]
  <2>1. /\ b[6 + 1] = payload[1] /\ b[6 + 2] = payload[2]
        /\ b[6 + 3] = payload[3] /\ b[6 + 4] = payload[4]
    BY <1>3, <1>5 DEF HasParts
  <2> HIDE DEF sum
  <2> QED BY <2>1, <1>3, <1>5 DEF HasParts, sum
<1>7. IsDrive(b)
  <2>1. b[7] \in Int /\ b[8] \in Int /\ b[9] \in Int /\ b[10] \in Int
    <3>1. b \in Seq(Int) /\ Len(b) = 12
      BY <1>6
    <3>2. \A i \in 1 .. 12 : b[i] \in Int
      BY <3>1, ElementOfSeq
    <3> QED BY <3>2
  <2> QED BY <1>6, <2>1 DEF IsDrive
<1>8. ASSUME throttle = 0, steering = 0
      PROVE  WellFormed(b) /\ Word(b, 7) = 0 /\ Word(b, 9) = 0
  <2>1. b[7] = 0 /\ b[8] = 0 /\ b[9] = 0 /\ b[10] = 0
    BY <1>1, <1>2, <1>6, <1>8 DEF Low, High, S16, U16
  <2>2. /\ Ith(payload, 1) = 0 /\ Ith(payload, 2) = 0
        /\ Ith(payload, 3) = 0 /\ Ith(payload, 4) = 0
        /\ \A i \in 5 .. 8 : Ith(payload, i) = 0
    BY <1>3, <1>6, <2>1 DEF Ith
  <2>3. sum = 142
    BY <1>3, <2>2 DEF PacketSum, SetDrive
  <2>4. b[11] + 256 * b[12] = 65393
    <3>1. 65535 - U16(sum) = 65393
      BY <2>3 DEF U16
    <3> DEFINE check == 65535 - U16(sum)
    <3>2. check \in Int
      BY <3>1
    <3> HIDE DEF check
    <3>3. Bytes(check)[1] = Low(check) /\ Bytes(check)[2] = High(check)
      BY <3>2, BytesAre
    <3>4. b[11] = Low(check) /\ b[12] = High(check)
      BY <3>3, <1>6 DEF check
    <3>5. check = 65393
      BY <3>1 DEF check
    <3> QED BY <3>4, <3>5 DEF Low, High, U16
  <2>5. SumOf(SubSeq(b, 3, Len(b) - 2)) = 142
    <3>1. SumOf(SubSeq(b, 3, Len(b) - 2)) =
            b[3] + b[4] + b[5] + b[6] + b[7] + b[8] + b[9] + b[10]
      <4>1. b \in Seq(Int) /\ Len(b) = 12
        BY <1>6
      <4> QED BY <4>1, SumOfEightMore, Zenon
    <3> QED BY <3>1, <1>6, <2>1 DEF SetDrive
  <2>6. WellFormed(b)
    <3>1. b[Len(b) - 1] = b[11] /\ b[Len(b)] = b[12]
      BY <1>6
    <3>2. U16(b[11] + 256 * b[12] + SumOf(SubSeq(b, 3, Len(b) - 2))) = 65535
      BY <2>4, <2>5 DEF U16
    <3> QED BY <1>6, <3>1, <3>2 DEF WellFormed
  <2>7. Word(b, 7) = S16(b[7] + 256 * b[8]) /\ Word(b, 9) = S16(b[9] + 256 * b[10])
    BY DEF Word
  <2>8. b[7] + 256 * b[8] = 0 /\ b[9] + 256 * b[10] = 0
    BY <2>1
  <2> QED BY <2>6, <2>7, <2>8 DEF S16, U16
<1> QED BY <1>6, <1>7, <1>8

(* A configuration value is no packet.                                     *)
LEMMA ConfigIsNone ==
  ASSUME NEW v \in {0, 1}
  PROVE  ~ WellFormed(Config(v)) /\ Config(v) \in Seq(Nat)
<1>1. Bytes(v) \in Seq(Nat) /\ Len(Bytes(v)) = 2
  BY DEF Bytes, U16
<1> DEFINE w == Bytes(v)
<1> HIDE DEF w
<1>2. Reverse(w) \in Seq(Nat) /\ Len(Reverse(w)) = 2
  <2>1. /\ Reverse(w) = [j \in 1 .. 2 |-> w[2 - j + 1]]
        /\ \A j \in 1 .. 2 : w[j] \in Nat
    BY <1>1 DEF Reverse, w
  <2> QED BY <2>1
<1>3. Config(v) = Reverse(w)
  BY DEF Config, w
<1>4. Config(v) \in Seq(Nat) /\ Len(Config(v)) = 2
  BY <1>2, <1>3, Zenon
<1>5. ~ (Len(Config(v)) >= 8)
  BY <1>4
<1>6. WellFormed(Config(v)) => Len(Config(v)) >= 8
  BY DEF WellFormed
<1> QED BY <1>4, <1>5, <1>6, Zenon

-----------------------------------------------------------------------------
(* What they make of the miniPRO                                           *)

(* The packets of the program are packets.                                 *)
LEMMA PacketsOfProgram ==
  /\ EnterRemoteControlMode \in Packets /\ ExitRemoteControlMode \in Packets
  /\ \A t, s \in Int : Drive(t, s) \in Packets /\ Drive(t, s) # ExitRemoteControlMode
  /\ EnterRemoteControlMode # ExitRemoteControlMode
<1>1. /\ EnterRemoteControlMode \in Seq(Int) /\ Word(EnterRemoteControlMode, 7) = 1
      /\ EnterRemoteControlMode[6] = EnableRemoteControl
  BY ModePackets DEF EnterRemoteControlMode
<1>2. /\ ExitRemoteControlMode \in Seq(Int) /\ Word(ExitRemoteControlMode, 7) = 0
      /\ ExitRemoteControlMode[6] = EnableRemoteControl
  BY ModePackets DEF ExitRemoteControlMode
<1>3. ASSUME NEW t \in Int, NEW s \in Int
      PROVE  Drive(t, s) \in Packets /\ Drive(t, s) # ExitRemoteControlMode
  <2>1. Drive(t, s) \in Seq(Int) /\ IsDrive(Drive(t, s))
    BY DrivePacket
  <2> QED BY <2>1, <1>2 DEF Packets, IsDrive, SetDrive, EnableRemoteControl
<1> QED BY <1>1, <1>2, <1>3 DEF Packets

(* Only the packet that ends the remote control makes it stand still no    *)
(* longer by remote control.                                               *)
LEMMA ObeyPacket ==
  ASSUME NEW r \in Robots, NEW b \in Packets
  PROVE  /\ Obey(r, b) \in Robots
         /\ b # ExitRemoteControlMode /\ (r.remote \/ StandsStill(r)) =>
              Obey(r, b).remote \/ StandsStill(Obey(r, b))
<1>1. Word(EnterRemoteControlMode, 7) = 1
  BY ModePackets DEF EnterRemoteControlMode
<1>2. CASE ~ WellFormed(b)
  BY <1>2 DEF Obey
<1>3. CASE WellFormed(b) /\ b[6] = EnableRemoteControl
  <2>1. Obey(r, b) = [r EXCEPT !.remote = Word(b, 7) = 1]
    BY <1>3 DEF Obey
  <2>2. b \in {EnterRemoteControlMode, ExitRemoteControlMode}
    BY <1>3 DEF Packets, IsDrive, SetDrive, EnableRemoteControl
  <2> QED BY <2>1, <2>2, <1>1 DEF Robots, StandsStill
<1>4. CASE WellFormed(b) /\ b[6] # EnableRemoteControl
  <2>1. IsDrive(b)
    BY <1>4, ModePackets DEF Packets, EnterRemoteControlMode, ExitRemoteControlMode
  <2>2. Word(b, 7) \in Int /\ Word(b, 9) \in Int
    <3>1. /\ b[7] \in Int /\ b[8] \in Int /\ b[9] \in Int /\ b[10] \in Int
          /\ Word(b, 7) = S16(b[7] + 256 * b[8])
          /\ Word(b, 9) = S16(b[9] + 256 * b[10])
      BY <2>1 DEF Word, IsDrive
    <3> QED BY <3>1 DEF S16, U16
  <2>3. Obey(r, b) = IF r.remote
                     THEN [r EXCEPT !.throttle = Word(b, 7), !.steering = Word(b, 9)]
                     ELSE r
    BY <1>4, <2>1 DEF Obey, IsDrive, SetDrive
  <2> QED BY <2>2, <2>3 DEF Robots, StandsStill
<1> QED BY <1>2, <1>3, <1>4

(* Stop makes it stand still ...                                           *)
LEMMA ObeyStop ==
  ASSUME NEW r \in Robots, r.remote \/ StandsStill(r)
  PROVE  StandsStill(Obey(r, StopPacket))
<1>1. /\ WellFormed(StopPacket) /\ StopPacket[6] = SetDrive
      /\ Word(StopPacket, 7) = 0 /\ Word(StopPacket, 9) = 0
  BY DrivePacket DEF StopPacket, IsDrive
<1>2. Obey(r, StopPacket) = IF r.remote
                            THEN [r EXCEPT !.throttle = 0, !.steering = 0] ELSE r
  <2>1. StopPacket[6] # EnableRemoteControl
    BY <1>1 DEF SetDrive, EnableRemoteControl
  <2> QED BY <1>1, <2>1, Zenon DEF Obey
<1> QED BY <1>2 DEF Robots, StandsStill

(* ... and the end of remote control, once it stands still, is the end.    *)
LEMMA ObeyExit ==
  ASSUME NEW r \in Robots, StandsStill(r)
  PROVE  Obey(r, ExitRemoteControlMode) = Idle
<1>1. /\ WellFormed(ExitRemoteControlMode) /\ Word(ExitRemoteControlMode, 7) = 0
      /\ ExitRemoteControlMode[6] = EnableRemoteControl
  BY ModePackets DEF ExitRemoteControlMode
<1>2. Obey(r, ExitRemoteControlMode) = [r EXCEPT !.remote = FALSE]
  <2>1. (Word(ExitRemoteControlMode, 7) = 1) = FALSE
    BY <1>1
  <2>2. Obey(r, ExitRemoteControlMode) =
          [r EXCEPT !.remote = Word(ExitRemoteControlMode, 7) = 1]
    BY <1>1, Zenon DEF Obey
  <2> QED BY <2>1, <2>2, Zenon
<1> QED BY <1>2 DEF Robots, StandsStill, Idle

-----------------------------------------------------------------------------
(* The steps of the program, one by one                                    *)
LEMMA NextCases ==
  ASSUME [Next]_vars
  PROVE  \/ Constructs /\ Connect
         \/ Constructs /\ Create
         \/ Constructs /\ StartThread
         \/ Constructs /\ Constructed
         \/ Constructs /\ GiveUp
         \/ Enable
         \/ Waits("enabling", "enter")
         \/ EnterRemote
         \/ OpenJoystick
         \/ TestExit
         \/ Sample("throttle", "steering", "y")
         \/ Sample("steering", "drive", "x")
         \/ SendDrive
         \/ Sleep
         \/ Stop
         \/ ExitRemote
         \/ Disable
         \/ Waits("disabling", "close")
         \/ CloseJoystick
         \/ Destroys /\ Quit
         \/ Destroys /\ UnrefGatt
         \/ Destroys /\ UnrefAtt
         \/ Destroys /\ Join
         \/ Interrupt
         \/ ReadJoystick
         \/ EndJoystick
         \/ (\E a \in Axes : \E p \in Positions[a] : Move(a, p))
         \/ Unplug
         \/ Writes
         \/ Test /\ Others
         \/ Wake /\ Others
         \/ EnterFreed /\ Others
         \/ Return /\ Others
         \/ DispatchNothing /\ Others
         \/ DispatchResponse /\ Others
         \/ DispatchDiscovered /\ Others
         \/ DispatchNotification /\ Others
         \/ DispatchHangup /\ Others
         \/ Answer /\ Others
         \/ Drop /\ Others
         \/ (\E e \in Events : Fetch(e)) /\ Others
         \/ RemoveWriter /\ Others
         \/ UNCHANGED vars
BY Zenon DEF Next, Main, Constructs, Construct, Destroys, Destruct, Input

(* main keeps to the life of the object, and so does the input thread.     *)
LEMMA LifeStep ==
  ASSUME ClientTypeOK, main \in Statements, result \in {"none", "ok", "error"},
         MainAndStage, GattAndStage, InputAndStage, [Next]_vars
  PROVE  MainAndStage' /\ GattAndStage' /\ InputAndStage'
<1> USE DEF Only, Others, At, Runs, client, objects, bearer, handler, loop, program,
     joystick, person, Enter, ClientTypeOK, Stages, Statements, Loop,
     InConstructor, InDestructor, MainAndStage, GattAndStage, InputAndStage,
     Events
<1>1. CASE Constructs /\ Connect
  BY <1>1 DEF Constructs, Connect
<1>2. CASE Constructs /\ Create
  BY <1>2 DEF Constructs, Create
<1>3. CASE Constructs /\ StartThread
  BY <1>3 DEF Constructs, StartThread
<1>4. CASE Constructs /\ Constructed
  BY <1>4 DEF Constructs, Constructed
<1>5. CASE Constructs /\ GiveUp
  BY <1>5 DEF Constructs, GiveUp
<1>6. CASE Enable
  BY <1>6 DEF Enable, WriteRequest
<1>7. CASE Waits("enabling", "enter")
  BY <1>7 DEF Waits, Written
<1>8. CASE EnterRemote
  BY <1>8 DEF EnterRemote, WriteCommand
<1>9. CASE OpenJoystick
  BY <1>9 DEF OpenJoystick
<1>10. CASE TestExit
  BY <1>10 DEF TestExit
<1>11. CASE Sample("throttle", "steering", "y")
  BY <1>11 DEF Sample
<1>12. CASE Sample("steering", "drive", "x")
  BY <1>12 DEF Sample
<1>13. CASE SendDrive
  BY <1>13 DEF SendDrive, WriteCommand
<1>14. CASE Sleep
  BY <1>14 DEF Sleep
<1>15. CASE Stop
  BY <1>15 DEF Stop, WriteCommand
<1>16. CASE ExitRemote
  BY <1>16 DEF ExitRemote, WriteCommand
<1>17. CASE Disable
  BY <1>17 DEF Disable, WriteRequest
<1>18. CASE Waits("disabling", "close")
  BY <1>18 DEF Waits, Written
<1>19. CASE CloseJoystick
  BY <1>19 DEF CloseJoystick
<1>20. CASE Destroys /\ Quit
  BY <1>20 DEF Destroys, Destruct, Quit
<1>21. CASE Destroys /\ UnrefGatt
  BY <1>21 DEF Destroys, Destruct, UnrefGatt, Undisturbed, InCallback
<1>22. CASE Destroys /\ UnrefAtt
  BY <1>22 DEF Destroys, Destruct, UnrefAtt, Undisturbed, InCallback
<1>23. CASE Destroys /\ Join
  BY <1>23 DEF Destroys, Destruct, Join
<1>24. CASE Interrupt
  BY <1>24 DEF Interrupt
<1>25. CASE ReadJoystick
  BY <1>25 DEF ReadJoystick
<1>26. CASE EndJoystick
  BY <1>26 DEF EndJoystick
<1>27. CASE \E a \in Axes : \E p \in Positions[a] : Move(a, p)
  BY <1>27 DEF Move
<1>28. CASE Unplug
  BY <1>28 DEF Unplug
<1>29. CASE Writes
  BY <1>29 DEF Writes, DispatchWrite
<1>30. CASE Test /\ Others
  BY <1>30 DEF Test
<1>31. CASE Wake /\ Others
  BY <1>31 DEF Wake
<1>32. CASE EnterFreed /\ Others
  BY <1>32 DEF EnterFreed
<1>33. CASE Return /\ Others
  BY <1>33 DEF Return
<1>34. CASE DispatchNothing /\ Others
  BY <1>34 DEF DispatchNothing
<1>35. CASE DispatchResponse /\ Others
  BY <1>35 DEF DispatchResponse
<1>36. CASE DispatchDiscovered /\ Others
  BY <1>36 DEF DispatchDiscovered
<1>37. CASE DispatchNotification /\ Others
  BY <1>37 DEF DispatchNotification
<1>38. CASE DispatchHangup /\ Others
  BY <1>38 DEF DispatchHangup
<1>39. CASE Answer /\ Others
  BY <1>39 DEF Answer
<1>40. CASE Drop /\ Others
  BY <1>40 DEF Drop
<1>41. CASE (\E e \in Events : Fetch(e)) /\ Others
  BY <1>41 DEF Fetch, Happens, Watched
<1>42. CASE RemoveWriter /\ Others
  BY <1>42 DEF RemoveWriter
<1>43. CASE UNCHANGED vars
  BY <1>43 DEF vars
<1> HIDE DEF Only, Others, At, Runs, client, objects, bearer, handler, loop, program,
     joystick, person, Enter, ClientTypeOK, Stages, Statements, Loop,
     InConstructor, InDestructor, MainAndStage, GattAndStage, InputAndStage,
     Events
<1> QED BY <1>1, <1>2, <1>3, <1>4, <1>5, <1>6, <1>7, <1>8, <1>9, <1>10, <1>11,
     <1>12, <1>13, <1>14, <1>15, <1>16, <1>17, <1>18, <1>19, <1>20, <1>21,
     <1>22, <1>23, <1>24, <1>25, <1>26, <1>27, <1>28, <1>29, <1>30, <1>31,
     <1>32, <1>33, <1>34, <1>35, <1>36, <1>37, <1>38, <1>39, <1>40, <1>41,
     <1>42, <1>43, NextCases

(* A request is not None.                                                  *)
LEMMA RequestIsSome ==
  /\ \A r \in Requests : r # None
  /\ \A v \in {0, 1}, s \in States : [value |-> Config(v), state |-> s] \in Requests
<1>1. Config(0) \in Seq(Nat) /\ Config(1) \in Seq(Nat)
  BY ConfigIsNone
<1>2. Requests \subseteq [value : Seq(Nat), state : {"queued", "sent", "answered"}]
  BY <1>1 DEF Requests, States
<1>3. \A r \in Requests : r # None
  BY <1>2, LEClientConstantsOK
<1> QED BY <1>3 DEF Requests

(* What the input thread is about to use is there, unless the destructor   *)
(* overtakes it.                                                           *)
LEMMA AliveStep ==
  ASSUME ClientTypeOK, MainAndStage, GattAndStage, InputAndStage,
         Asked, Alive, NoUseAfterFree, [Next]_vars
  PROVE  Alive' /\ NoUseAfterFree'
<1> USE DEF Only, Others, At, Runs, client, objects, bearer, handler, loop, program,
     joystick, person, Enter, ClientTypeOK, Events, GattAndStage,
     InputAndStage, Asked, Alive, NoUseAfterFree, InCallback
<1>1. CASE Constructs /\ Connect
  BY <1>1 DEF Constructs, Connect
<1>2. CASE Constructs /\ Create
  BY <1>2 DEF Constructs, Create
<1>3. CASE Constructs /\ StartThread
  BY <1>3 DEF Constructs, StartThread
<1>4. CASE Constructs /\ Constructed
  BY <1>4 DEF Constructs, Constructed
<1>5. CASE Constructs /\ GiveUp
  BY <1>5 DEF Constructs, GiveUp
<1>6. CASE Enable
  BY <1>6 DEF Enable, WriteRequest, HandOver
<1>7. CASE Waits("enabling", "enter")
  BY <1>7 DEF Waits, Written
<1>8. CASE EnterRemote
  BY <1>8 DEF EnterRemote, WriteCommand, HandOver
<1>9. CASE OpenJoystick
  BY <1>9 DEF OpenJoystick
<1>10. CASE TestExit
  BY <1>10 DEF TestExit
<1>11. CASE Sample("throttle", "steering", "y")
  BY <1>11 DEF Sample
<1>12. CASE Sample("steering", "drive", "x")
  BY <1>12 DEF Sample
<1>13. CASE SendDrive
  BY <1>13 DEF SendDrive, WriteCommand, HandOver
<1>14. CASE Sleep
  BY <1>14 DEF Sleep
<1>15. CASE Stop
  BY <1>15 DEF Stop, WriteCommand, HandOver
<1>16. CASE ExitRemote
  BY <1>16 DEF ExitRemote, WriteCommand, HandOver
<1>17. CASE Disable
  BY <1>17 DEF Disable, WriteRequest, HandOver
<1>18. CASE Waits("disabling", "close")
  BY <1>18 DEF Waits, Written
<1>19. CASE CloseJoystick
  BY <1>19 DEF CloseJoystick
<1>20. CASE Destroys /\ Quit
  BY <1>20 DEF Destroys, Destruct, Quit
<1>21. CASE Destroys /\ UnrefGatt
  BY <1>21 DEF Destroys, Destruct, UnrefGatt, Undisturbed
<1>22. CASE Destroys /\ UnrefAtt
  BY <1>22 DEF Destroys, Destruct, UnrefAtt, Undisturbed
<1>23. CASE Destroys /\ Join
  BY <1>23 DEF Destroys, Destruct, Join
<1>24. CASE Interrupt
  BY <1>24 DEF Interrupt
<1>25. CASE ReadJoystick
  BY <1>25 DEF ReadJoystick
<1>26. CASE EndJoystick
  BY <1>26 DEF EndJoystick
<1>27. CASE \E a \in Axes : \E p \in Positions[a] : Move(a, p)
  BY <1>27 DEF Move
<1>28. CASE Unplug
  BY <1>28 DEF Unplug
<1>29. CASE Writes
  BY <1>29 DEF Writes, DispatchWrite
<1>30. CASE Test /\ Others
  BY <1>30 DEF Test
<1>31. CASE Wake /\ Others
  BY <1>31 DEF Wake
<1>32. CASE EnterFreed /\ Others
  BY <1>32 DEF EnterFreed
<1>33. CASE Return /\ Others
  BY <1>33 DEF Return
<1>34. CASE DispatchNothing /\ Others
  BY <1>34 DEF DispatchNothing
<1>35. CASE DispatchResponse /\ Others
  BY <1>35 DEF DispatchResponse
<1>36. CASE DispatchDiscovered /\ Others
  BY <1>36 DEF DispatchDiscovered
<1>37. CASE DispatchNotification /\ Others
  BY <1>37 DEF DispatchNotification
<1>38. CASE DispatchHangup /\ Others
  BY <1>38 DEF DispatchHangup
<1>39. CASE Answer /\ Others
  BY <1>39 DEF Answer
<1>40. CASE Drop /\ Others
  BY <1>40 DEF Drop
<1>41. CASE (\E e \in Events : Fetch(e)) /\ Others
  BY <1>41 DEF Fetch, Happens, Watched
<1>42. CASE RemoveWriter /\ Others
  BY <1>42 DEF RemoveWriter
<1>43. CASE UNCHANGED vars
  BY <1>43 DEF vars
<1> HIDE DEF Only, Others, At, Runs, client, objects, bearer, handler, loop, program,
     joystick, person, Enter, ClientTypeOK, Events, GattAndStage,
     InputAndStage, Asked, Alive, NoUseAfterFree, InCallback
<1> QED BY <1>1, <1>2, <1>3, <1>4, <1>5, <1>6, <1>7, <1>8, <1>9, <1>10, <1>11,
     <1>12, <1>13, <1>14, <1>15, <1>16, <1>17, <1>18, <1>19, <1>20, <1>21,
     <1>22, <1>23, <1>24, <1>25, <1>26, <1>27, <1>28, <1>29, <1>30, <1>31,
     <1>32, <1>33, <1>34, <1>35, <1>36, <1>37, <1>38, <1>39, <1>40, <1>41,
     <1>42, <1>43, NextCases

(* Nothing is asked of the bearer before the constructor has returned.     *)
LEMMA NothingYetStep ==
  ASSUME ClientTypeOK, main \in Statements, MainAndStage, GattAndStage,
       InputAndStage,
         Asked, NothingYet, [Next]_vars
  PROVE  NothingYet'
<1> USE DEF Only, Others, At, Runs, client, objects, bearer, handler, loop, program,
     joystick, person, Enter, ClientTypeOK, Stages, Statements, Loop,
     InConstructor, InDestructor, MainAndStage, GattAndStage, Asked,
     NothingYet, Asking, Accepts
<1>1. CASE Constructs /\ Connect
  BY <1>1 DEF Constructs, Connect
<1>2. CASE Constructs /\ Create
  BY <1>2 DEF Constructs, Create
<1>3. CASE Constructs /\ StartThread
  BY <1>3 DEF Constructs, StartThread
<1>4. CASE Constructs /\ Constructed
  BY <1>4 DEF Constructs, Constructed
<1>5. CASE Constructs /\ GiveUp
  BY <1>5 DEF Constructs, GiveUp
<1>6. CASE Enable
  BY <1>6 DEF Enable, WriteRequest
<1>7. CASE Waits("enabling", "enter")
  BY <1>7 DEF Waits, Written
<1>8. CASE EnterRemote
  BY <1>8 DEF EnterRemote, WriteCommand
<1>9. CASE OpenJoystick
  BY <1>9 DEF OpenJoystick
<1>10. CASE TestExit
  BY <1>10 DEF TestExit
<1>11. CASE Sample("throttle", "steering", "y")
  BY <1>11 DEF Sample
<1>12. CASE Sample("steering", "drive", "x")
  BY <1>12 DEF Sample
<1>13. CASE SendDrive
  BY <1>13 DEF SendDrive, WriteCommand
<1>14. CASE Sleep
  BY <1>14 DEF Sleep
<1>15. CASE Stop
  BY <1>15 DEF Stop, WriteCommand
<1>16. CASE ExitRemote
  BY <1>16 DEF ExitRemote, WriteCommand
<1>17. CASE Disable
  BY <1>17 DEF Disable, WriteRequest
<1>18. CASE Waits("disabling", "close")
  BY <1>18 DEF Waits, Written
<1>19. CASE CloseJoystick
  BY <1>19 DEF CloseJoystick
<1>20. CASE Destroys /\ Quit
  BY <1>20 DEF Destroys, Destruct, Quit
<1>21. CASE Destroys /\ UnrefGatt
  BY <1>21 DEF Destroys, Destruct, UnrefGatt, Undisturbed, InCallback
<1>22. CASE Destroys /\ UnrefAtt
  BY <1>22 DEF Destroys, Destruct, UnrefAtt, Undisturbed, InCallback
<1>23. CASE Destroys /\ Join
  BY <1>23 DEF Destroys, Destruct, Join
<1>24. CASE Interrupt
  BY <1>24 DEF Interrupt
<1>25. CASE ReadJoystick
  BY <1>25 DEF ReadJoystick
<1>26. CASE EndJoystick
  BY <1>26 DEF EndJoystick
<1>27. CASE \E a \in Axes : \E p \in Positions[a] : Move(a, p)
  BY <1>27 DEF Move
<1>28. CASE Unplug
  BY <1>28 DEF Unplug
<1>29. CASE Writes
  BY <1>29 DEF Writes, DispatchWrite
<1>30. CASE Test /\ Others
  BY <1>30 DEF Test
<1>31. CASE Wake /\ Others
  BY <1>31 DEF Wake
<1>32. CASE EnterFreed /\ Others
  BY <1>32 DEF EnterFreed
<1>33. CASE Return /\ Others
  BY <1>33 DEF Return
<1>34. CASE DispatchNothing /\ Others
  BY <1>34 DEF DispatchNothing
<1>35. CASE DispatchResponse /\ Others
  BY <1>35 DEF DispatchResponse
<1>36. CASE DispatchDiscovered /\ Others
  BY <1>36 DEF DispatchDiscovered
<1>37. CASE DispatchNotification /\ Others
  BY <1>37 DEF DispatchNotification
<1>38. CASE DispatchHangup /\ Others
  BY <1>38 DEF DispatchHangup
<1>39. CASE Answer /\ Others
  BY <1>39 DEF Answer
<1>40. CASE Drop /\ Others
  BY <1>40 DEF Drop
<1>41. CASE (\E e \in Events : Fetch(e)) /\ Others
  BY <1>41 DEF Fetch, Happens, Watched
<1>42. CASE RemoveWriter /\ Others
  BY <1>42 DEF RemoveWriter
<1>43. CASE UNCHANGED vars
  BY <1>43 DEF vars
<1> HIDE DEF Only, Others, At, Runs, client, objects, bearer, handler, loop, program,
     joystick, person, Enter, ClientTypeOK, Stages, Statements, Loop,
     InConstructor, InDestructor, MainAndStage, GattAndStage, Asked,
     NothingYet, Asking, Accepts
<1> QED BY <1>1, <1>2, <1>3, <1>4, <1>5, <1>6, <1>7, <1>8, <1>9, <1>10, <1>11,
     <1>12, <1>13, <1>14, <1>15, <1>16, <1>17, <1>18, <1>19, <1>20, <1>21,
     <1>22, <1>23, <1>24, <1>25, <1>26, <1>27, <1>28, <1>29, <1>30, <1>31,
     <1>32, <1>33, <1>34, <1>35, <1>36, <1>37, <1>38, <1>39, <1>40, <1>41,
     <1>42, <1>43, NextCases

(* A request and its promise belong together, at every statement.          *)
LEMMA AskedStep ==
  ASSUME ClientTypeOK, main \in Statements, request \in Requests \union {None},
         write_queue \in Seq(Packets), MainAndStage, GattAndStage,
         NothingYet, Asked, PromiseKept, [Next]_vars
  PROVE  Asked' /\ PromiseKept'
<1> USE DEF Only, Others, At, Runs, client, objects, bearer, handler, loop, program,
     joystick, person, Enter, ClientTypeOK, Stages, Statements, Loop,
     InConstructor, InDestructor, MainAndStage, GattAndStage, NothingYet,
     Asked, PromiseKept, Asking, Accepts, Requests, States
<1>1. CASE Constructs /\ Connect
  BY <1>1, RequestIsSome DEF Constructs, Connect
<1>2. CASE Constructs /\ Create
  BY <1>2, RequestIsSome DEF Constructs, Create
<1>3. CASE Constructs /\ StartThread
  BY <1>3, RequestIsSome DEF Constructs, StartThread
<1>4. CASE Constructs /\ Constructed
  BY <1>4, RequestIsSome DEF Constructs, Constructed
<1>5. CASE Constructs /\ GiveUp
  BY <1>5, RequestIsSome DEF Constructs, GiveUp
<1>6. CASE Enable
  <2>1. [value |-> Config(1), state |-> "queued"] # None
    BY RequestIsSome, Zenon DEF States
  <2> QED BY <1>6, <2>1 DEF Enable, WriteRequest
<1>7. CASE Waits("enabling", "enter")
  BY <1>7, RequestIsSome DEF Waits, Written
<1>8. CASE EnterRemote
  BY <1>8, RequestIsSome DEF EnterRemote, WriteCommand
<1>9. CASE OpenJoystick
  BY <1>9, RequestIsSome DEF OpenJoystick
<1>10. CASE TestExit
  BY <1>10, RequestIsSome DEF TestExit
<1>11. CASE Sample("throttle", "steering", "y")
  BY <1>11, RequestIsSome DEF Sample
<1>12. CASE Sample("steering", "drive", "x")
  BY <1>12, RequestIsSome DEF Sample
<1>13. CASE SendDrive
  BY <1>13, RequestIsSome DEF SendDrive, WriteCommand
<1>14. CASE Sleep
  BY <1>14, RequestIsSome DEF Sleep
<1>15. CASE Stop
  BY <1>15, RequestIsSome DEF Stop, WriteCommand
<1>16. CASE ExitRemote
  BY <1>16, RequestIsSome DEF ExitRemote, WriteCommand
<1>17. CASE Disable
  <2>1. [value |-> Config(0), state |-> "queued"] # None
    BY RequestIsSome, Zenon DEF States
  <2> QED BY <1>17, <2>1 DEF Disable, WriteRequest
<1>18. CASE Waits("disabling", "close")
  BY <1>18, RequestIsSome DEF Waits, Written
<1>19. CASE CloseJoystick
  BY <1>19, RequestIsSome DEF CloseJoystick
<1>20. CASE Destroys /\ Quit
  BY <1>20, RequestIsSome DEF Destroys, Destruct, Quit
<1>21. CASE Destroys /\ UnrefGatt
  BY <1>21, RequestIsSome DEF Destroys, Destruct, UnrefGatt, Undisturbed,
       InCallback
<1>22. CASE Destroys /\ UnrefAtt
  BY <1>22, RequestIsSome DEF Destroys, Destruct, UnrefAtt, Undisturbed,
       InCallback
<1>23. CASE Destroys /\ Join
  BY <1>23, RequestIsSome DEF Destroys, Destruct, Join
<1>24. CASE Interrupt
  BY <1>24, RequestIsSome DEF Interrupt
<1>25. CASE ReadJoystick
  BY <1>25, RequestIsSome DEF ReadJoystick
<1>26. CASE EndJoystick
  BY <1>26, RequestIsSome DEF EndJoystick
<1>27. CASE \E a \in Axes : \E p \in Positions[a] : Move(a, p)
  BY <1>27, RequestIsSome DEF Move
<1>28. CASE Unplug
  BY <1>28, RequestIsSome DEF Unplug
<1>29. CASE Writes
  BY <1>29, RequestIsSome DEF Writes, DispatchWrite
<1>30. CASE Test /\ Others
  BY <1>30, RequestIsSome DEF Test
<1>31. CASE Wake /\ Others
  BY <1>31, RequestIsSome DEF Wake
<1>32. CASE EnterFreed /\ Others
  BY <1>32, RequestIsSome DEF EnterFreed
<1>33. CASE Return /\ Others
  BY <1>33, RequestIsSome DEF Return
<1>34. CASE DispatchNothing /\ Others
  BY <1>34, RequestIsSome DEF DispatchNothing
<1>35. CASE DispatchResponse /\ Others
  BY <1>35, RequestIsSome DEF DispatchResponse
<1>36. CASE DispatchDiscovered /\ Others
  BY <1>36, RequestIsSome DEF DispatchDiscovered
<1>37. CASE DispatchNotification /\ Others
  BY <1>37, RequestIsSome DEF DispatchNotification
<1>38. CASE DispatchHangup /\ Others
  BY <1>38, RequestIsSome DEF DispatchHangup
<1>39. CASE Answer /\ Others
  BY <1>39, RequestIsSome DEF Answer
<1>40. CASE Drop /\ Others
  BY <1>40, RequestIsSome DEF Drop
<1>41. CASE (\E e \in Events : Fetch(e)) /\ Others
  BY <1>41, RequestIsSome DEF Fetch, Happens, Watched
<1>42. CASE RemoveWriter /\ Others
  BY <1>42, RequestIsSome DEF RemoveWriter
<1>43. CASE UNCHANGED vars
  BY <1>43, RequestIsSome DEF vars
<1> HIDE DEF Only, Others, At, Runs, client, objects, bearer, handler, loop, program,
     joystick, person, Enter, ClientTypeOK, Stages, Statements, Loop,
     InConstructor, InDestructor, MainAndStage, GattAndStage, NothingYet,
     Asked, PromiseKept, Asking, Accepts, Requests, States
<1> QED BY <1>1, <1>2, <1>3, <1>4, <1>5, <1>6, <1>7, <1>8, <1>9, <1>10, <1>11,
     <1>12, <1>13, <1>14, <1>15, <1>16, <1>17, <1>18, <1>19, <1>20, <1>21,
     <1>22, <1>23, <1>24, <1>25, <1>26, <1>27, <1>28, <1>29, <1>30, <1>31,
     <1>32, <1>33, <1>34, <1>35, <1>36, <1>37, <1>38, <1>39, <1>40, <1>41,
     <1>42, <1>43, NextCases

(* The types of the client ...                                             *)
LEMMA ClientTypedStep ==
  ASSUME ClientTyped, [Next]_vars
  PROVE  ClientTyped'
<1> USE DEF Only, Others, At, Runs, client, objects, bearer, handler, loop, program,
     joystick, person, Enter, ClientTyped, Stages, Events
<1>1. CASE Constructs /\ Connect
  BY <1>1 DEF Constructs, Connect
<1>2. CASE Constructs /\ Create
  BY <1>2 DEF Constructs, Create
<1>3. CASE Constructs /\ StartThread
  BY <1>3 DEF Constructs, StartThread
<1>4. CASE Constructs /\ Constructed
  BY <1>4 DEF Constructs, Constructed
<1>5. CASE Constructs /\ GiveUp
  BY <1>5 DEF Constructs, GiveUp
<1>6. CASE Enable
  BY <1>6 DEF Enable, WriteRequest, HandOver
<1>7. CASE Waits("enabling", "enter")
  BY <1>7 DEF Waits, Written
<1>8. CASE EnterRemote
  BY <1>8 DEF EnterRemote, WriteCommand, HandOver
<1>9. CASE OpenJoystick
  BY <1>9 DEF OpenJoystick
<1>10. CASE TestExit
  BY <1>10 DEF TestExit
<1>11. CASE Sample("throttle", "steering", "y")
  BY <1>11 DEF Sample
<1>12. CASE Sample("steering", "drive", "x")
  BY <1>12 DEF Sample
<1>13. CASE SendDrive
  BY <1>13 DEF SendDrive, WriteCommand, HandOver
<1>14. CASE Sleep
  BY <1>14 DEF Sleep
<1>15. CASE Stop
  BY <1>15 DEF Stop, WriteCommand, HandOver
<1>16. CASE ExitRemote
  BY <1>16 DEF ExitRemote, WriteCommand, HandOver
<1>17. CASE Disable
  BY <1>17 DEF Disable, WriteRequest, HandOver
<1>18. CASE Waits("disabling", "close")
  BY <1>18 DEF Waits, Written
<1>19. CASE CloseJoystick
  BY <1>19 DEF CloseJoystick
<1>20. CASE Destroys /\ Quit
  BY <1>20 DEF Destroys, Destruct, Quit
<1>21. CASE Destroys /\ UnrefGatt
  BY <1>21 DEF Destroys, Destruct, UnrefGatt, Undisturbed, InCallback
<1>22. CASE Destroys /\ UnrefAtt
  BY <1>22 DEF Destroys, Destruct, UnrefAtt, Undisturbed, InCallback
<1>23. CASE Destroys /\ Join
  BY <1>23 DEF Destroys, Destruct, Join
<1>24. CASE Interrupt
  BY <1>24 DEF Interrupt
<1>25. CASE ReadJoystick
  BY <1>25 DEF ReadJoystick
<1>26. CASE EndJoystick
  BY <1>26 DEF EndJoystick
<1>27. CASE \E a \in Axes : \E p \in Positions[a] : Move(a, p)
  BY <1>27 DEF Move
<1>28. CASE Unplug
  BY <1>28 DEF Unplug
<1>29. CASE Writes
  BY <1>29 DEF Writes, DispatchWrite
<1>30. CASE Test /\ Others
  BY <1>30 DEF Test
<1>31. CASE Wake /\ Others
  BY <1>31 DEF Wake
<1>32. CASE EnterFreed /\ Others
  BY <1>32 DEF EnterFreed
<1>33. CASE Return /\ Others
  BY <1>33 DEF Return
<1>34. CASE DispatchNothing /\ Others
  BY <1>34 DEF DispatchNothing
<1>35. CASE DispatchResponse /\ Others
  BY <1>35 DEF DispatchResponse
<1>36. CASE DispatchDiscovered /\ Others
  <2>1. CASE discovery' = "ok" /\ ready' = TRUE
    BY <1>36, <2>1 DEF DispatchDiscovered
  <2>2. CASE discovery' = "failed" /\ UNCHANGED ready
    BY <1>36, <2>2 DEF DispatchDiscovered
  <2> QED BY <1>36, <2>1, <2>2 DEF DispatchDiscovered
<1>37. CASE DispatchNotification /\ Others
  BY <1>37 DEF DispatchNotification
<1>38. CASE DispatchHangup /\ Others
  BY <1>38 DEF DispatchHangup
<1>39. CASE Answer /\ Others
  BY <1>39 DEF Answer
<1>40. CASE Drop /\ Others
  BY <1>40 DEF Drop
<1>41. CASE (\E e \in Events : Fetch(e)) /\ Others
  BY <1>41 DEF Fetch, Happens, Watched
<1>42. CASE RemoveWriter /\ Others
  BY <1>42 DEF RemoveWriter
<1>43. CASE UNCHANGED vars
  BY <1>43 DEF vars
<1> HIDE DEF Only, Others, At, Runs, client, objects, bearer, handler, loop, program,
     joystick, person, Enter, ClientTyped, Stages, Events
<1> QED BY <1>1, <1>2, <1>3, <1>4, <1>5, <1>6, <1>7, <1>8, <1>9, <1>10, <1>11,
     <1>12, <1>13, <1>14, <1>15, <1>16, <1>17, <1>18, <1>19, <1>20, <1>21,
     <1>22, <1>23, <1>24, <1>25, <1>26, <1>27, <1>28, <1>29, <1>30, <1>31,
     <1>32, <1>33, <1>34, <1>35, <1>36, <1>37, <1>38, <1>39, <1>40, <1>41,
     <1>42, <1>43, NextCases

(* ... of its write handler, also when the two threads meet ...            *)
LEMMA HandOverTyped ==
  ASSUME HandlerTyped, HandOver
  PROVE  HandlerTyped'
<1>1. writer' \in BOOLEAN
  BY Zenon DEF HandlerTyped, HandOver, WakeUp
<1>2. met' \in BOOLEAN
  BY Zenon DEF HandOver
<1> QED BY <1>1, <1>2 DEF HandlerTyped

LEMMA HandlerTypedStep ==
  ASSUME HandlerTyped, [Next]_vars
  PROVE  HandlerTyped'
<1> USE DEF Only, Others, At, Runs, client, objects, bearer, handler, loop, program,
     joystick, person, Enter, HandlerTyped
<1>1. CASE Constructs /\ Connect
  BY <1>1 DEF Constructs, Connect
<1>2. CASE Constructs /\ Create
  BY <1>2 DEF Constructs, Create
<1>3. CASE Constructs /\ StartThread
  BY <1>3 DEF Constructs, StartThread
<1>4. CASE Constructs /\ Constructed
  BY <1>4 DEF Constructs, Constructed
<1>5. CASE Constructs /\ GiveUp
  BY <1>5 DEF Constructs, GiveUp
<1>6. CASE Enable
  <2>1. HandOver \/ UNCHANGED handler
    BY <1>6, Zenon DEF Enable, WriteRequest
  <2> QED BY <2>1, HandOverTyped
<1>7. CASE Waits("enabling", "enter")
  BY <1>7 DEF Waits, Written
<1>8. CASE EnterRemote
  <2>1. HandOver \/ UNCHANGED handler
    BY <1>8, Zenon DEF EnterRemote, WriteCommand
  <2> QED BY <2>1, HandOverTyped
<1>9. CASE OpenJoystick
  BY <1>9 DEF OpenJoystick
<1>10. CASE TestExit
  BY <1>10 DEF TestExit
<1>11. CASE Sample("throttle", "steering", "y")
  BY <1>11 DEF Sample
<1>12. CASE Sample("steering", "drive", "x")
  BY <1>12 DEF Sample
<1>13. CASE SendDrive
  <2>1. HandOver \/ UNCHANGED handler
    BY <1>13, Zenon DEF SendDrive, WriteCommand
  <2> QED BY <2>1, HandOverTyped
<1>14. CASE Sleep
  BY <1>14 DEF Sleep
<1>15. CASE Stop
  <2>1. HandOver \/ UNCHANGED handler
    BY <1>15, Zenon DEF Stop, WriteCommand
  <2> QED BY <2>1, HandOverTyped
<1>16. CASE ExitRemote
  <2>1. HandOver \/ UNCHANGED handler
    BY <1>16, Zenon DEF ExitRemote, WriteCommand
  <2> QED BY <2>1, HandOverTyped
<1>17. CASE Disable
  <2>1. HandOver \/ UNCHANGED handler
    BY <1>17, Zenon DEF Disable, WriteRequest
  <2> QED BY <2>1, HandOverTyped
<1>18. CASE Waits("disabling", "close")
  BY <1>18 DEF Waits, Written
<1>19. CASE CloseJoystick
  BY <1>19 DEF CloseJoystick
<1>20. CASE Destroys /\ Quit
  BY <1>20 DEF Destroys, Destruct, Quit
<1>21. CASE Destroys /\ UnrefGatt
  BY <1>21 DEF Destroys, Destruct, UnrefGatt, Undisturbed
<1>22. CASE Destroys /\ UnrefAtt
  BY <1>22 DEF Destroys, Destruct, UnrefAtt, Undisturbed
<1>23. CASE Destroys /\ Join
  BY <1>23 DEF Destroys, Destruct, Join
<1>24. CASE Interrupt
  BY <1>24 DEF Interrupt
<1>25. CASE ReadJoystick
  BY <1>25 DEF ReadJoystick
<1>26. CASE EndJoystick
  BY <1>26 DEF EndJoystick
<1>27. CASE \E a \in Axes : \E p \in Positions[a] : Move(a, p)
  BY <1>27 DEF Move
<1>28. CASE Unplug
  BY <1>28 DEF Unplug
<1>29. CASE Writes
  BY <1>29 DEF Writes, DispatchWrite
<1>30. CASE Test /\ Others
  BY <1>30 DEF Test
<1>31. CASE Wake /\ Others
  BY <1>31 DEF Wake
<1>32. CASE EnterFreed /\ Others
  BY <1>32 DEF EnterFreed
<1>33. CASE Return /\ Others
  BY <1>33 DEF Return
<1>34. CASE DispatchNothing /\ Others
  BY <1>34 DEF DispatchNothing
<1>35. CASE DispatchResponse /\ Others
  <2>1. writer' \in {writer, TRUE} /\ met' = met
    BY <1>35, Zenon DEF DispatchResponse, WakeUp
  <2> QED BY <2>1
<1>36. CASE DispatchDiscovered /\ Others
  BY <1>36 DEF DispatchDiscovered
<1>37. CASE DispatchNotification /\ Others
  BY <1>37 DEF DispatchNotification
<1>38. CASE DispatchHangup /\ Others
  BY <1>38 DEF DispatchHangup
<1>39. CASE Answer /\ Others
  BY <1>39 DEF Answer
<1>40. CASE Drop /\ Others
  BY <1>40 DEF Drop
<1>41. CASE (\E e \in Events : Fetch(e)) /\ Others
  BY <1>41 DEF Fetch, Happens, Watched
<1>42. CASE RemoveWriter /\ Others
  <2>1. writer' \in {FALSE, writer} /\ met' = met
    BY <1>42, Zenon DEF RemoveWriter
  <2> QED BY <2>1
<1>43. CASE UNCHANGED vars
  BY <1>43 DEF vars
<1> HIDE DEF Only, Others, At, Runs, client, objects, bearer, handler, loop, program,
     joystick, person, Enter, HandlerTyped
<1> QED BY <1>1, <1>2, <1>3, <1>4, <1>5, <1>6, <1>7, <1>8, <1>9, <1>10, <1>11,
     <1>12, <1>13, <1>14, <1>15, <1>16, <1>17, <1>18, <1>19, <1>20, <1>21,
     <1>22, <1>23, <1>24, <1>25, <1>26, <1>27, <1>28, <1>29, <1>30, <1>31,
     <1>32, <1>33, <1>34, <1>35, <1>36, <1>37, <1>38, <1>39, <1>40, <1>41,
     <1>42, <1>43, NextCases

(* ... of the program, whose samples are numbers ...                       *)
LEMMA ProgramTypedStep ==
  ASSUME ProgramTyped, axis_map \in [Axes -> Int], [Next]_vars
  PROVE  ProgramTyped'
<1> USE DEF Only, Others, At, Runs, client, objects, bearer, handler, loop, program,
     joystick, person, Enter, ProgramTyped, Statements, Loop
<1>1. CASE Constructs /\ Connect
  BY <1>1 DEF Constructs, Connect
<1>2. CASE Constructs /\ Create
  BY <1>2 DEF Constructs, Create
<1>3. CASE Constructs /\ StartThread
  BY <1>3 DEF Constructs, StartThread
<1>4. CASE Constructs /\ Constructed
  BY <1>4 DEF Constructs, Constructed
<1>5. CASE Constructs /\ GiveUp
  BY <1>5 DEF Constructs, GiveUp
<1>6. CASE Enable
  BY <1>6 DEF Enable, WriteRequest
<1>7. CASE Waits("enabling", "enter")
  BY <1>7 DEF Waits, Written
<1>8. CASE EnterRemote
  BY <1>8 DEF EnterRemote, WriteCommand
<1>9. CASE OpenJoystick
  BY <1>9 DEF OpenJoystick
<1>10. CASE TestExit
  BY <1>10 DEF TestExit
<1>11. CASE Sample("throttle", "steering", "y")
  <2>1. FromAxis(axis_map["y"]) \in Int
    <3>1. axis_map["y"] \in Int
      BY DEF Axes
    <3> QED BY <3>1 DEF FromAxis
  <2>2. sample' \in [{"y", "x"} -> Int]
    BY <1>11, <2>1 DEF Sample
  <2> QED BY <1>11, <2>2 DEF Sample
<1>12. CASE Sample("steering", "drive", "x")
  <2>1. FromAxis(axis_map["x"]) \in Int
    <3>1. axis_map["x"] \in Int
      BY DEF Axes
    <3> QED BY <3>1 DEF FromAxis
  <2>2. sample' \in [{"y", "x"} -> Int]
    BY <1>12, <2>1 DEF Sample
  <2> QED BY <1>12, <2>2 DEF Sample
<1>13. CASE SendDrive
  BY <1>13 DEF SendDrive, WriteCommand
<1>14. CASE Sleep
  BY <1>14 DEF Sleep
<1>15. CASE Stop
  BY <1>15 DEF Stop, WriteCommand
<1>16. CASE ExitRemote
  BY <1>16 DEF ExitRemote, WriteCommand
<1>17. CASE Disable
  BY <1>17 DEF Disable, WriteRequest
<1>18. CASE Waits("disabling", "close")
  BY <1>18 DEF Waits, Written
<1>19. CASE CloseJoystick
  BY <1>19 DEF CloseJoystick
<1>20. CASE Destroys /\ Quit
  BY <1>20 DEF Destroys, Destruct, Quit
<1>21. CASE Destroys /\ UnrefGatt
  BY <1>21 DEF Destroys, Destruct, UnrefGatt, Undisturbed, InCallback
<1>22. CASE Destroys /\ UnrefAtt
  BY <1>22 DEF Destroys, Destruct, UnrefAtt, Undisturbed, InCallback
<1>23. CASE Destroys /\ Join
  BY <1>23 DEF Destroys, Destruct, Join
<1>24. CASE Interrupt
  BY <1>24 DEF Interrupt
<1>25. CASE ReadJoystick
  BY <1>25 DEF ReadJoystick
<1>26. CASE EndJoystick
  BY <1>26 DEF EndJoystick
<1>27. CASE \E a \in Axes : \E p \in Positions[a] : Move(a, p)
  BY <1>27 DEF Move
<1>28. CASE Unplug
  BY <1>28 DEF Unplug
<1>29. CASE Writes
  BY <1>29 DEF Writes, DispatchWrite
<1>30. CASE Test /\ Others
  BY <1>30 DEF Test
<1>31. CASE Wake /\ Others
  BY <1>31 DEF Wake
<1>32. CASE EnterFreed /\ Others
  BY <1>32 DEF EnterFreed
<1>33. CASE Return /\ Others
  BY <1>33 DEF Return
<1>34. CASE DispatchNothing /\ Others
  BY <1>34 DEF DispatchNothing
<1>35. CASE DispatchResponse /\ Others
  BY <1>35 DEF DispatchResponse
<1>36. CASE DispatchDiscovered /\ Others
  BY <1>36 DEF DispatchDiscovered
<1>37. CASE DispatchNotification /\ Others
  BY <1>37 DEF DispatchNotification
<1>38. CASE DispatchHangup /\ Others
  BY <1>38 DEF DispatchHangup
<1>39. CASE Answer /\ Others
  BY <1>39 DEF Answer
<1>40. CASE Drop /\ Others
  BY <1>40 DEF Drop
<1>41. CASE (\E e \in Events : Fetch(e)) /\ Others
  BY <1>41 DEF Fetch, Happens, Watched
<1>42. CASE RemoveWriter /\ Others
  BY <1>42 DEF RemoveWriter
<1>43. CASE UNCHANGED vars
  BY <1>43 DEF vars
<1> HIDE DEF Only, Others, At, Runs, client, objects, bearer, handler, loop, program,
     joystick, person, Enter, ProgramTyped, Statements, Loop
<1> QED BY <1>1, <1>2, <1>3, <1>4, <1>5, <1>6, <1>7, <1>8, <1>9, <1>10, <1>11,
     <1>12, <1>13, <1>14, <1>15, <1>16, <1>17, <1>18, <1>19, <1>20, <1>21,
     <1>22, <1>23, <1>24, <1>25, <1>26, <1>27, <1>28, <1>29, <1>30, <1>31,
     <1>32, <1>33, <1>34, <1>35, <1>36, <1>37, <1>38, <1>39, <1>40, <1>41,
     <1>42, <1>43, NextCases

(* Positions are numbers, 0 among them.                                     *)
LEMMA PositionsAre ==
  /\ MaxEvents \in Nat
  /\ \A a \in Axes : 0 \in Positions[a] /\ \A p \in Positions[a] : p \in Int
BY TeleopConstantsOK

(* ... of what is sent, and of the miniPRO ...                             *)
LEMMA SentTypedStep ==
  ASSUME SentTyped, sample \in [{"y", "x"} -> Int], [Next]_vars
  PROVE  SentTyped'
<1> USE DEF Only, Others, At, Runs, client, objects, bearer, handler, loop, program,
     joystick, person, Enter, SentTyped
<1>1. CASE Constructs /\ Connect
  BY <1>1 DEF Constructs, Connect
<1>2. CASE Constructs /\ Create
  BY <1>2 DEF Constructs, Create
<1>3. CASE Constructs /\ StartThread
  BY <1>3 DEF Constructs, StartThread
<1>4. CASE Constructs /\ Constructed
  BY <1>4 DEF Constructs, Constructed
<1>5. CASE Constructs /\ GiveUp
  BY <1>5 DEF Constructs, GiveUp
<1>6. CASE Enable
  <2>1. [value |-> Config(1), state |-> "queued"] \in Requests
    BY RequestIsSome, Zenon DEF States
  <2>2. /\ UNCHANGED <<write_queue, robot>>
        /\ request' \in {[value |-> Config(1), state |-> "queued"], None}
    BY <1>6 DEF Enable, WriteRequest
  <2> QED BY <2>1, <2>2
<1>7. CASE Waits("enabling", "enter")
  BY <1>7 DEF Waits, Written
<1>8. CASE EnterRemote
  <2>1. EnterRemoteControlMode \in Packets
    BY PacketsOfProgram
  <2> DEFINE packet == EnterRemoteControlMode
             longer == Append(write_queue, packet)
  <2> HIDE DEF packet
  <2>2. packet \in Packets
    BY <2>1 DEF packet
  <2>3. Len(write_queue) < MaxQueue =>
          longer \in Seq(Packets) /\ Len(longer) <= MaxQueue
    BY <2>2, LEClientConstantsOK
  <2> HIDE DEF longer
  <2>4. /\ Len(write_queue) < MaxQueue
        /\ write_queue' = longer \/ write_queue' = write_queue
        /\ UNCHANGED <<request, robot>>
    BY <1>8 DEF EnterRemote, WriteCommand, longer, packet
  <2> QED BY <2>3, <2>4
<1>9. CASE OpenJoystick
  BY <1>9 DEF OpenJoystick
<1>10. CASE TestExit
  BY <1>10 DEF TestExit
<1>11. CASE Sample("throttle", "steering", "y")
  BY <1>11 DEF Sample
<1>12. CASE Sample("steering", "drive", "x")
  BY <1>12 DEF Sample
<1>13. CASE SendDrive
  <2>1. Drive(sample.y, sample.x) \in Packets
    BY PacketsOfProgram, sample.y \in Int, sample.x \in Int
  <2> DEFINE packet == Drive(sample.y, sample.x)
             longer == Append(write_queue, packet)
  <2> HIDE DEF packet
  <2>2. packet \in Packets
    BY <2>1 DEF packet
  <2>3. Len(write_queue) < MaxQueue =>
          longer \in Seq(Packets) /\ Len(longer) <= MaxQueue
    BY <2>2, LEClientConstantsOK
  <2> HIDE DEF longer
  <2>4. /\ Len(write_queue) < MaxQueue
        /\ write_queue' = longer \/ write_queue' = write_queue
        /\ UNCHANGED <<request, robot>>
    BY <1>13 DEF SendDrive, WriteCommand, longer, packet
  <2> QED BY <2>3, <2>4
<1>14. CASE Sleep
  BY <1>14 DEF Sleep
<1>15. CASE Stop
  <2>1. Drive(0, 0) \in Packets
    BY PacketsOfProgram
  <2> DEFINE packet == Drive(0, 0)
             longer == Append(write_queue, packet)
  <2> HIDE DEF packet
  <2>2. packet \in Packets
    BY <2>1 DEF packet
  <2>3. Len(write_queue) < MaxQueue =>
          longer \in Seq(Packets) /\ Len(longer) <= MaxQueue
    BY <2>2, LEClientConstantsOK
  <2> HIDE DEF longer
  <2>4. /\ Len(write_queue) < MaxQueue
        /\ write_queue' = longer \/ write_queue' = write_queue
        /\ UNCHANGED <<request, robot>>
    BY <1>15 DEF Stop, WriteCommand, longer, packet
  <2> QED BY <2>3, <2>4
<1>16. CASE ExitRemote
  <2>1. ExitRemoteControlMode \in Packets
    BY PacketsOfProgram
  <2> DEFINE packet == ExitRemoteControlMode
             longer == Append(write_queue, packet)
  <2> HIDE DEF packet
  <2>2. packet \in Packets
    BY <2>1 DEF packet
  <2>3. Len(write_queue) < MaxQueue =>
          longer \in Seq(Packets) /\ Len(longer) <= MaxQueue
    BY <2>2, LEClientConstantsOK
  <2> HIDE DEF longer
  <2>4. /\ Len(write_queue) < MaxQueue
        /\ write_queue' = longer \/ write_queue' = write_queue
        /\ UNCHANGED <<request, robot>>
    BY <1>16 DEF ExitRemote, WriteCommand, longer, packet
  <2> QED BY <2>3, <2>4
<1>17. CASE Disable
  <2>1. [value |-> Config(0), state |-> "queued"] \in Requests
    BY RequestIsSome, Zenon DEF States
  <2>2. /\ UNCHANGED <<write_queue, robot>>
        /\ request' \in {[value |-> Config(0), state |-> "queued"], None}
    BY <1>17 DEF Disable, WriteRequest
  <2> QED BY <2>1, <2>2
<1>18. CASE Waits("disabling", "close")
  BY <1>18 DEF Waits, Written
<1>19. CASE CloseJoystick
  BY <1>19 DEF CloseJoystick
<1>20. CASE Destroys /\ Quit
  BY <1>20 DEF Destroys, Destruct, Quit
<1>21. CASE Destroys /\ UnrefGatt
  BY <1>21 DEF Destroys, Destruct, UnrefGatt, Undisturbed, InCallback
<1>22. CASE Destroys /\ UnrefAtt
  <2>1. write_queue' \in {<<>>, write_queue} /\ request' \in {None, request}
    BY <1>22 DEF Destroys, Destruct, UnrefAtt
  <2>2. <<>> \in Seq(Packets) /\ Len(<<>>) <= MaxQueue
    BY LEClientConstantsOK
  <2> QED BY <1>22, <2>1, <2>2 DEF Destroys, Destruct, UnrefAtt
<1>23. CASE Destroys /\ Join
  BY <1>23 DEF Destroys, Destruct, Join
<1>24. CASE Interrupt
  BY <1>24 DEF Interrupt
<1>25. CASE ReadJoystick
  BY <1>25 DEF ReadJoystick
<1>26. CASE EndJoystick
  BY <1>26 DEF EndJoystick
<1>27. CASE \E a \in Axes : \E p \in Positions[a] : Move(a, p)
  BY <1>27 DEF Move
<1>28. CASE Unplug
  BY <1>28 DEF Unplug
<1>29. CASE Writes
  <2>1. PICK pdu \in Pdus : DispatchWrite(pdu) /\ robot' = Obey(robot, pdu)
    BY <1>29 DEF Writes
  <2>2. CASE write_queue # <<>>
    <3>1. /\ pdu = Head(write_queue) /\ write_queue' = Tail(write_queue)
          /\ UNCHANGED request
      BY <2>1, <2>2 DEF DispatchWrite
    <3>2. /\ pdu \in Packets
          /\ write_queue' \in Seq(Packets) /\ Len(write_queue') <= MaxQueue
      BY <2>2, <3>1, LEClientConstantsOK
    <3>3. robot' \in Robots
      BY <2>1, <3>2, ObeyPacket
    <3> QED BY <3>1, <3>2, <3>3
  <2>3. CASE write_queue = <<>>
    <3>1. /\ request # None /\ pdu = request.value
          /\ request' = [request EXCEPT !.state = "sent"] /\ UNCHANGED
               write_queue
      BY <2>1, <2>3 DEF DispatchWrite
    <3>2. pdu \in {Config(0), Config(1)} /\ request' \in Requests
      BY <3>1 DEF Requests, States
    <3>3. ~ WellFormed(pdu)
      BY <3>2, ConfigIsNone
    <3>4. robot' = robot
      BY <2>1, <3>3 DEF Obey
    <3> QED BY <3>1, <3>2, <3>4
  <2> QED BY <2>2, <2>3
<1>30. CASE Test /\ Others
  BY <1>30 DEF Test
<1>31. CASE Wake /\ Others
  BY <1>31 DEF Wake
<1>32. CASE EnterFreed /\ Others
  BY <1>32 DEF EnterFreed
<1>33. CASE Return /\ Others
  BY <1>33 DEF Return
<1>34. CASE DispatchNothing /\ Others
  BY <1>34 DEF DispatchNothing
<1>35. CASE DispatchResponse /\ Others
  BY <1>35 DEF DispatchResponse
<1>36. CASE DispatchDiscovered /\ Others
  BY <1>36 DEF DispatchDiscovered
<1>37. CASE DispatchNotification /\ Others
  BY <1>37 DEF DispatchNotification
<1>38. CASE DispatchHangup /\ Others
  <2>1. write_queue' \in {<<>>, write_queue} /\ request' \in {None, request}
    BY <1>38 DEF DispatchHangup
  <2>2. <<>> \in Seq(Packets) /\ Len(<<>>) <= MaxQueue
    BY LEClientConstantsOK
  <2> QED BY <1>38, <2>1, <2>2 DEF DispatchHangup
<1>39. CASE Answer /\ Others
  <2>1. request' = [request EXCEPT !.state = "answered"] /\ request \in Requests
    BY <1>39 DEF Answer
  <2>2. request' \in Requests
    BY <2>1 DEF Requests, States
  <2> QED BY <1>39, <2>2 DEF Answer
<1>40. CASE Drop /\ Others
  BY <1>40 DEF Drop
<1>41. CASE (\E e \in Events : Fetch(e)) /\ Others
  BY <1>41 DEF Fetch, Happens, Watched
<1>42. CASE RemoveWriter /\ Others
  BY <1>42 DEF RemoveWriter
<1>43. CASE UNCHANGED vars
  BY <1>43 DEF vars
<1> HIDE DEF Only, Others, At, Runs, client, objects, bearer, handler, loop, program,
     joystick, person, Enter, SentTyped
<1> QED BY <1>1, <1>2, <1>3, <1>4, <1>5, <1>6, <1>7, <1>8, <1>9, <1>10, <1>11,
     <1>12, <1>13, <1>14, <1>15, <1>16, <1>17, <1>18, <1>19, <1>20, <1>21,
     <1>22, <1>23, <1>24, <1>25, <1>26, <1>27, <1>28, <1>29, <1>30, <1>31,
     <1>32, <1>33, <1>34, <1>35, <1>36, <1>37, <1>38, <1>39, <1>40, <1>41,
     <1>42, <1>43, NextCases

(* ... and of the stick and the joystick: both say only where it may be.   *)
LEMMA StickTypedStep ==
  ASSUME StickTyped, [Next]_vars
  PROVE  StickTyped'
<1> USE DEF Only, Others, At, Runs, client, objects, bearer, handler, loop, program,
     joystick, person, Enter, StickTyped
<1>1. CASE Constructs /\ Connect
  BY <1>1 DEF Constructs, Connect
<1>2. CASE Constructs /\ Create
  BY <1>2 DEF Constructs, Create
<1>3. CASE Constructs /\ StartThread
  BY <1>3 DEF Constructs, StartThread
<1>4. CASE Constructs /\ Constructed
  BY <1>4 DEF Constructs, Constructed
<1>5. CASE Constructs /\ GiveUp
  BY <1>5 DEF Constructs, GiveUp
<1>6. CASE Enable
  BY <1>6 DEF Enable, WriteRequest
<1>7. CASE Waits("enabling", "enter")
  BY <1>7 DEF Waits, Written
<1>8. CASE EnterRemote
  BY <1>8 DEF EnterRemote, WriteCommand
<1>9. CASE OpenJoystick
  BY <1>9 DEF OpenJoystick
<1>10. CASE TestExit
  BY <1>10 DEF TestExit
<1>11. CASE Sample("throttle", "steering", "y")
  BY <1>11 DEF Sample
<1>12. CASE Sample("steering", "drive", "x")
  BY <1>12 DEF Sample
<1>13. CASE SendDrive
  BY <1>13 DEF SendDrive, WriteCommand
<1>14. CASE Sleep
  BY <1>14 DEF Sleep
<1>15. CASE Stop
  BY <1>15 DEF Stop, WriteCommand
<1>16. CASE ExitRemote
  BY <1>16 DEF ExitRemote, WriteCommand
<1>17. CASE Disable
  BY <1>17 DEF Disable, WriteRequest
<1>18. CASE Waits("disabling", "close")
  BY <1>18 DEF Waits, Written
<1>19. CASE CloseJoystick
  BY <1>19 DEF CloseJoystick
<1>20. CASE Destroys /\ Quit
  BY <1>20 DEF Destroys, Destruct, Quit
<1>21. CASE Destroys /\ UnrefGatt
  BY <1>21 DEF Destroys, Destruct, UnrefGatt, Undisturbed, InCallback
<1>22. CASE Destroys /\ UnrefAtt
  BY <1>22 DEF Destroys, Destruct, UnrefAtt, Undisturbed, InCallback
<1>23. CASE Destroys /\ Join
  BY <1>23 DEF Destroys, Destruct, Join
<1>24. CASE Interrupt
  BY <1>24 DEF Interrupt
<1>25. CASE ReadJoystick
  <2> DEFINE e == Head(js_events)
  <2>1. /\ js_events # <<>> /\ js_events' = Tail(js_events) /\ UNCHANGED stick
        /\ axis_map' = [axis_map EXCEPT ![e.axis] = e.value]
    BY <1>25 DEF ReadJoystick
  <2>2. e = js_events[1] /\ Reports(e) /\ e.axis \in Axes /\ e.value \in Int
    <3>1. 1 \in DOMAIN js_events /\ e = js_events[1]
      <4>1. Len(js_events) \in Nat /\ DOMAIN js_events = 1 .. Len(js_events)
        OBVIOUS
      <4>2. Len(js_events) # 0
        BY <2>1, EmptySeq
      <4> QED BY <4>1, <4>2
    <3>2. js_events[1] \in [axis : Axes, value : Int]
      <4>1. 1 \in 1 .. Len(js_events) /\ js_events \in Seq([axis : Axes, value
           : Int])
        BY <3>1
      <4> QED BY <4>1, ElementOfSeq
    <3> HIDE DEF e
    <3> QED BY <3>1, <3>2
  <2>3. /\ js_events' \in Seq([axis : Axes, value : Int])
        /\ Len(js_events') = Len(js_events) - 1 /\ Len(js_events) \in Nat
        /\ \A i \in DOMAIN js_events' : js_events'[i] = js_events[i + 1]
        /\ \A i \in DOMAIN js_events' : i + 1 \in DOMAIN js_events
    BY <2>1
  <2>4. \A i \in DOMAIN js_events' : Reports(js_events'[i])
    BY <2>3
  <2>5. Len(js_events') <= MaxEvents
    <3>1. MaxEvents \in Nat
      BY PositionsAre
    <3>2. Len(js_events) <= MaxEvents
      OBVIOUS
    <3> QED BY <2>3, <3>1, <3>2
  <2> HIDE DEF e
  <2>6. /\ axis_map' \in [Axes -> Int]
        /\ \A a \in Axes : axis_map'[a] \in Positions[a]
    BY <2>1, <2>2 DEF Reports
  <2> QED BY <2>1, <2>3, <2>4, <2>5, <2>6
<1>26. CASE EndJoystick
  BY <1>26 DEF EndJoystick
<1>27. CASE \E a \in Axes : \E p \in Positions[a] : Move(a, p)
  <2>0. PICK a \in Axes : \E p \in Positions[a] : Move(a, p)
    BY <1>27
  <2>1. PICK p \in Positions[a] : Move(a, p)
    BY <2>0
  <2>2. p \in Int
    BY PositionsAre
  <2>3. /\ stick' = [stick EXCEPT ![a] = p] /\ UNCHANGED axis_map
        /\ \/ UNCHANGED js_events
           \/ /\ Len(js_events) < MaxEvents
              /\ js_events' = Append(js_events, [axis |-> a, value |-> p])
    BY <2>1 DEF Move
  <2>4. stick' \in [Axes -> Int] /\ \A b \in Axes : stick'[b] \in Positions[b]
    BY <2>2, <2>3
  <2>5. /\ js_events' \in Seq([axis : Axes, value : Int])
        /\ \A i \in DOMAIN js_events' : Reports(js_events'[i])
        /\ Len(js_events') <= MaxEvents
    <3> DEFINE e == [axis |-> a, value |-> p]
               longer == Append(js_events, e)
    <3>1. e \in [axis : Axes, value : Int] /\ Reports(e)
      BY <2>2 DEF Reports
    <3> HIDE DEF e
    <3>2. /\ longer \in Seq([axis : Axes, value : Int])
          /\ Len(longer) = Len(js_events) + 1
          /\ \A i \in DOMAIN longer :
               \/ i \in DOMAIN js_events /\ longer[i] = js_events[i]
               \/ longer[i] = e
      BY <3>1
    <3>3. \A i \in DOMAIN longer : Reports(longer[i])
      BY <3>1, <3>2
    <3>4. js_events' = js_events \/ (Len(js_events) < MaxEvents /\ js_events'
         = longer)
      BY <2>3 DEF e
    <3>5. Len(js_events) < MaxEvents => Len(longer) <= MaxEvents
      <4>1. MaxEvents \in Nat /\ Len(js_events) \in Nat
        BY PositionsAre
      <4> HIDE DEF longer
      <4> QED BY <3>2, <4>1
    <3> HIDE DEF longer
    <3> QED BY <3>2, <3>3, <3>4, <3>5
  <2> QED BY <2>3, <2>4, <2>5
<1>28. CASE Unplug
  BY <1>28 DEF Unplug
<1>29. CASE Writes
  BY <1>29 DEF Writes, DispatchWrite
<1>30. CASE Test /\ Others
  BY <1>30 DEF Test
<1>31. CASE Wake /\ Others
  BY <1>31 DEF Wake
<1>32. CASE EnterFreed /\ Others
  BY <1>32 DEF EnterFreed
<1>33. CASE Return /\ Others
  BY <1>33 DEF Return
<1>34. CASE DispatchNothing /\ Others
  BY <1>34 DEF DispatchNothing
<1>35. CASE DispatchResponse /\ Others
  BY <1>35 DEF DispatchResponse
<1>36. CASE DispatchDiscovered /\ Others
  BY <1>36 DEF DispatchDiscovered
<1>37. CASE DispatchNotification /\ Others
  BY <1>37 DEF DispatchNotification
<1>38. CASE DispatchHangup /\ Others
  BY <1>38 DEF DispatchHangup
<1>39. CASE Answer /\ Others
  BY <1>39 DEF Answer
<1>40. CASE Drop /\ Others
  BY <1>40 DEF Drop
<1>41. CASE (\E e \in Events : Fetch(e)) /\ Others
  BY <1>41 DEF Fetch, Happens, Watched
<1>42. CASE RemoveWriter /\ Others
  BY <1>42 DEF RemoveWriter
<1>43. CASE UNCHANGED vars
  BY <1>43 DEF vars
<1> HIDE DEF Only, Others, At, Runs, client, objects, bearer, handler, loop, program,
     joystick, person, Enter, StickTyped
<1> QED BY <1>1, <1>2, <1>3, <1>4, <1>5, <1>6, <1>7, <1>8, <1>9, <1>10, <1>11,
     <1>12, <1>13, <1>14, <1>15, <1>16, <1>17, <1>18, <1>19, <1>20, <1>21,
     <1>22, <1>23, <1>24, <1>25, <1>26, <1>27, <1>28, <1>29, <1>30, <1>31,
     <1>32, <1>33, <1>34, <1>35, <1>36, <1>37, <1>38, <1>39, <1>40, <1>41,
     <1>42, <1>43, NextCases

(* ... taken together.                                                     *)
LEMMA TypedStep ==
  ASSUME Typed, [Next]_vars
  PROVE  Typed'
<1>1. axis_map \in [Axes -> Int] /\ sample \in [{"y", "x"} -> Int]
  BY DEF Typed, StickTyped, ProgramTyped
<1>2. ClientTyped'
  BY ClientTypedStep DEF Typed
<1>3. HandlerTyped' /\ ProgramTyped'
  BY <1>1, HandlerTypedStep, ProgramTypedStep DEF Typed
<1>4. StickTyped'
  BY StickTypedStep DEF Typed
<1>5. SentTyped'
  BY <1>1, SentTypedStep DEF Typed
<1> QED BY <1>2, <1>3, <1>4, <1>5 DEF Typed

(* The type invariants of the two modules follow.                          *)
LEMMA TypedIsTypeOK ==
  ASSUME Typed
  PROVE  ClientTypeOK /\ TypeOK
<1>1. /\ {gatt, att} \subseteq {"none", "up", "freed"} /\ world \in Worlds
      /\ request # None => request.state \in {"queued", "sent", "answered"}
  BY DEF Typed, ClientTyped, SentTyped, Requests, States
<1>2. ClientTypeOK
  BY <1>1 DEF Typed, ClientTyped, HandlerTyped, SentTyped, ClientTypeOK
<1>3. /\ {sample.y, sample.x} \subseteq Int
      /\ \A a \in Axes : {axis_map[a], stick[a]} \subseteq Positions[a]
      /\ robot.remote \in BOOLEAN /\ {robot.throttle, robot.steering} \subseteq Int
  BY DEF Typed, ProgramTyped, StickTyped, SentTyped, Robots
<1> QED BY <1>2, <1>3 DEF Typed, ProgramTyped, StickTyped, TypeOK

(* A queue with one more packet ...                                        *)
LEMMA LongerQueue ==
  ASSUME NEW q \in Seq(Packets), NEW b \in Packets
  PROVE  /\ Append(q, b) # <<>> /\ Len(Append(q, b)) = Len(q) + 1
         /\ Len(q) \in Nat
         /\ DOMAIN Append(q, b) = 1 .. Len(q) + 1
         /\ DOMAIN q = 1 .. Len(q)
         /\ \A i \in 1 .. Len(q) : Append(q, b)[i] = q[i]
         /\ Append(q, b)[Len(q) + 1] = b
OBVIOUS

(* ... and without its first                                               *)
LEMMA ShorterQueue ==
  ASSUME NEW q \in Seq(Packets), q # <<>>
  PROVE  /\ Head(q) = q[1] /\ Head(q) \in Packets
         /\ Len(q) \in Nat /\ Len(q) # 0
         /\ DOMAIN q = 1 .. Len(q)
         /\ Len(Tail(q)) = Len(q) - 1
         /\ DOMAIN Tail(q) = 1 .. Len(q) - 1
         /\ \A i \in 1 .. Len(q) - 1 : Tail(q)[i] = q[i + 1]
         /\ Tail(q) = <<>> <=> Len(q) = 1
<1>1. /\ Len(q) \in Nat \ {0} /\ Tail(q) \in Seq(Packets)
      /\ Len(Tail(q)) = Len(q) - 1
  BY EmptySeq
<1>2. Tail(q) = <<>> <=> Len(Tail(q)) = 0
  BY <1>1, EmptySeq
<1>3. /\ DOMAIN Tail(q) = 1 .. Len(q) - 1
      /\ \A i \in 1 .. Len(q) - 1 : Tail(q)[i] = q[i + 1]
      /\ Head(q) = q[1] /\ DOMAIN q = 1 .. Len(q)
  BY <1>1
<1>4. Head(q) \in Packets
  BY <1>1, <1>3, ElementOfSeq
<1> QED BY <1>1, <1>2, <1>3, <1>4

(* What the two threads have done to the bearer stays.                     *)
LEMMA MetStays ==
  ASSUME [Next]_vars
  PROVE  met => met'
<1> USE DEF Only, Others, At, Runs, client, objects, bearer, handler, loop, program,
     joystick, person, Enter
<1>1. CASE Constructs /\ Connect
  BY <1>1 DEF Constructs, Connect
<1>2. CASE Constructs /\ Create
  BY <1>2 DEF Constructs, Create
<1>3. CASE Constructs /\ StartThread
  BY <1>3 DEF Constructs, StartThread
<1>4. CASE Constructs /\ Constructed
  BY <1>4 DEF Constructs, Constructed
<1>5. CASE Constructs /\ GiveUp
  BY <1>5 DEF Constructs, GiveUp
<1>6. CASE Enable
  BY <1>6 DEF Enable, WriteRequest, HandOver
<1>7. CASE Waits("enabling", "enter")
  BY <1>7 DEF Waits, Written
<1>8. CASE EnterRemote
  BY <1>8 DEF EnterRemote, WriteCommand, HandOver
<1>9. CASE OpenJoystick
  BY <1>9 DEF OpenJoystick
<1>10. CASE TestExit
  BY <1>10 DEF TestExit
<1>11. CASE Sample("throttle", "steering", "y")
  BY <1>11 DEF Sample
<1>12. CASE Sample("steering", "drive", "x")
  BY <1>12 DEF Sample
<1>13. CASE SendDrive
  BY <1>13 DEF SendDrive, WriteCommand, HandOver
<1>14. CASE Sleep
  BY <1>14 DEF Sleep
<1>15. CASE Stop
  BY <1>15 DEF Stop, WriteCommand, HandOver
<1>16. CASE ExitRemote
  BY <1>16 DEF ExitRemote, WriteCommand, HandOver
<1>17. CASE Disable
  BY <1>17 DEF Disable, WriteRequest, HandOver
<1>18. CASE Waits("disabling", "close")
  BY <1>18 DEF Waits, Written
<1>19. CASE CloseJoystick
  BY <1>19 DEF CloseJoystick
<1>20. CASE Destroys /\ Quit
  BY <1>20 DEF Destroys, Destruct, Quit
<1>21. CASE Destroys /\ UnrefGatt
  BY <1>21 DEF Destroys, Destruct, UnrefGatt
<1>22. CASE Destroys /\ UnrefAtt
  BY <1>22 DEF Destroys, Destruct, UnrefAtt
<1>23. CASE Destroys /\ Join
  BY <1>23 DEF Destroys, Destruct, Join
<1>24. CASE Interrupt
  BY <1>24 DEF Interrupt
<1>25. CASE ReadJoystick
  BY <1>25 DEF ReadJoystick
<1>26. CASE EndJoystick
  BY <1>26 DEF EndJoystick
<1>27. CASE \E a \in Axes : \E p \in Positions[a] : Move(a, p)
  BY <1>27 DEF Move
<1>28. CASE Unplug
  BY <1>28 DEF Unplug
<1>29. CASE Writes
  BY <1>29 DEF Writes, DispatchWrite
<1>30. CASE Test /\ Others
  BY <1>30 DEF Test
<1>31. CASE Wake /\ Others
  BY <1>31 DEF Wake
<1>32. CASE EnterFreed /\ Others
  BY <1>32 DEF EnterFreed
<1>33. CASE Return /\ Others
  BY <1>33 DEF Return
<1>34. CASE DispatchNothing /\ Others
  BY <1>34 DEF DispatchNothing
<1>35. CASE DispatchResponse /\ Others
  BY <1>35 DEF DispatchResponse
<1>36. CASE DispatchDiscovered /\ Others
  BY <1>36 DEF DispatchDiscovered
<1>37. CASE DispatchNotification /\ Others
  BY <1>37 DEF DispatchNotification
<1>38. CASE DispatchHangup /\ Others
  BY <1>38 DEF DispatchHangup
<1>39. CASE Answer /\ Others
  BY <1>39 DEF Answer
<1>40. CASE Drop /\ Others
  BY <1>40 DEF Drop
<1>41. CASE (\E e \in Events : Fetch(e)) /\ Others
  BY <1>41 DEF Fetch, Happens, Watched
<1>42. CASE RemoveWriter /\ Others
  BY <1>42 DEF RemoveWriter
<1>43. CASE UNCHANGED vars
  BY <1>43 DEF vars
<1> HIDE DEF Only, Others, At, Runs, client, objects, bearer, handler, loop, program,
     joystick, person, Enter
<1> QED BY <1>1, <1>2, <1>3, <1>4, <1>5, <1>6, <1>7, <1>8, <1>9, <1>10, <1>11,
     <1>12, <1>13, <1>14, <1>15, <1>16, <1>17, <1>18, <1>19, <1>20, <1>21,
     <1>22, <1>23, <1>24, <1>25, <1>26, <1>27, <1>28, <1>29, <1>30, <1>31,
     <1>32, <1>33, <1>34, <1>35, <1>36, <1>37, <1>38, <1>39, <1>40, <1>41,
     <1>42, <1>43, NextCases

(* How the miniPRO gets to stand still, as long as the two threads have    *)
(* not met in the bearer.                                                  *)
LEMMA StopStep ==
  ASSUME ProgramTyped, SentTyped, MainAndStage, GattAndStage, NothingYet,
         Asked, ExitIsLast, Stopping, ~ met', [Next]_vars
  PROVE  ExitIsLast' /\ Stopping'
<1> USE DEF Only, Others, At, Runs, client, objects, bearer, handler, loop, program,
     joystick, person, Enter, SentTyped, MainAndStage, GattAndStage,
     NothingYet, Asked, ExitIsLast, Stopping, Accepts, LastIs, Settled,
     Stands, StandsStill, Asking, InConstructor, InDestructor, Idle
<1>1. CASE Constructs /\ Connect
  BY <1>1, RequestIsSome DEF Constructs, Connect
<1>2. CASE Constructs /\ Create
  BY <1>2, RequestIsSome DEF Constructs, Create
<1>3. CASE Constructs /\ StartThread
  BY <1>3, RequestIsSome DEF Constructs, StartThread
<1>4. CASE Constructs /\ Constructed
  BY <1>4, RequestIsSome DEF Constructs, Constructed
<1>5. CASE Constructs /\ GiveUp
  BY <1>5, RequestIsSome DEF Constructs, GiveUp
<1>6. CASE Enable
  BY <1>6, RequestIsSome DEF Enable, WriteRequest
<1>7. CASE Waits("enabling", "enter")
  BY <1>7, RequestIsSome DEF Waits, Written
<1>8. CASE EnterRemote
  <2> DEFINE packet == EnterRemoteControlMode
             longer == Append(write_queue, packet)
  <2>1. packet # ExitRemoteControlMode
    BY PacketsOfProgram
  <2> HIDE DEF packet
  <2>2. /\ longer # <<>> /\ Len(longer) = Len(write_queue) + 1
        /\ Len(write_queue) \in Nat
        /\ DOMAIN longer = 1 .. Len(write_queue) + 1
        /\ DOMAIN write_queue = 1 .. Len(write_queue)
        /\ \A i \in 1 .. Len(write_queue) : longer[i] = write_queue[i]
        /\ longer[Len(write_queue) + 1] = packet
    <3>1. write_queue \in Seq(Packets)
      OBVIOUS
    <3>2. packet \in Packets
      BY PacketsOfProgram DEF packet
    <3> QED BY <3>1, <3>2, LongerQueue, Zenon
  <2> HIDE DEF longer
  <2>3. /\ write_queue' = IF Accepts THEN longer ELSE write_queue
        /\ UNCHANGED <<request, robot, promise, gatt, link, stage, result>>
    BY <1>8 DEF EnterRemote, WriteCommand, longer, packet
  <2>4. CASE ~ Accepts
    BY <1>8, <2>3, <2>4 DEF EnterRemote
  <2>5. CASE Accepts
    <3>1. \A i \in DOMAIN write_queue : write_queue[i] # ExitRemoteControlMode
      BY <1>8 DEF EnterRemote
    <3>2. \A i \in DOMAIN longer : longer[i] # ExitRemoteControlMode
      <4> SUFFICES ASSUME NEW i \in DOMAIN longer PROVE longer[i] #
           ExitRemoteControlMode
        OBVIOUS
      <4>1. CASE i = Len(write_queue) + 1 BY <2>1, <2>2, <4>1
      <4>2. CASE i # Len(write_queue) + 1
        <5>1. i \in DOMAIN write_queue /\ longer[i] = write_queue[i]
          BY <2>2, <4>2
        <5> QED BY <3>1, <5>1
      <4> QED BY <4>1, <4>2
    <3> QED BY <1>8, <2>1, <2>2, <2>3, <2>5, <3>2 DEF EnterRemote
  <2> QED BY <2>4, <2>5
<1>9. CASE OpenJoystick
  BY <1>9, RequestIsSome DEF OpenJoystick
<1>10. CASE TestExit
  BY <1>10, RequestIsSome DEF TestExit
<1>11. CASE Sample("throttle", "steering", "y")
  BY <1>11, RequestIsSome DEF Sample
<1>12. CASE Sample("steering", "drive", "x")
  BY <1>12, RequestIsSome DEF Sample
<1>13. CASE SendDrive
  <2> DEFINE packet == Drive(sample.y, sample.x)
             longer == Append(write_queue, packet)
  <2>1. packet # ExitRemoteControlMode
    <3>1. sample.y \in Int /\ sample.x \in Int
      BY DEF ProgramTyped
    <3> QED BY <3>1, PacketsOfProgram
  <2> HIDE DEF packet
  <2>2. /\ longer # <<>> /\ Len(longer) = Len(write_queue) + 1
        /\ Len(write_queue) \in Nat
        /\ DOMAIN longer = 1 .. Len(write_queue) + 1
        /\ DOMAIN write_queue = 1 .. Len(write_queue)
        /\ \A i \in 1 .. Len(write_queue) : longer[i] = write_queue[i]
        /\ longer[Len(write_queue) + 1] = packet
    <3>1. write_queue \in Seq(Packets)
      OBVIOUS
    <3>2. packet \in Packets
      BY PacketsOfProgram, sample.y \in Int, sample.x \in Int DEF packet,
           ProgramTyped
    <3> QED BY <3>1, <3>2, LongerQueue, Zenon
  <2> HIDE DEF longer
  <2>3. /\ write_queue' = IF Accepts THEN longer ELSE write_queue
        /\ UNCHANGED <<request, robot, promise, gatt, link, stage, result>>
    BY <1>13 DEF SendDrive, WriteCommand, longer, packet
  <2>4. CASE ~ Accepts
    BY <1>13, <2>3, <2>4 DEF SendDrive
  <2>5. CASE Accepts
    <3>1. \A i \in DOMAIN write_queue : write_queue[i] # ExitRemoteControlMode
      BY <1>13 DEF SendDrive
    <3>2. \A i \in DOMAIN longer : longer[i] # ExitRemoteControlMode
      <4> SUFFICES ASSUME NEW i \in DOMAIN longer PROVE longer[i] #
           ExitRemoteControlMode
        OBVIOUS
      <4>1. CASE i = Len(write_queue) + 1 BY <2>1, <2>2, <4>1
      <4>2. CASE i # Len(write_queue) + 1
        <5>1. i \in DOMAIN write_queue /\ longer[i] = write_queue[i]
          BY <2>2, <4>2
        <5> QED BY <3>1, <5>1
      <4> QED BY <4>1, <4>2
    <3> QED BY <1>13, <2>1, <2>2, <2>3, <2>5, <3>2 DEF SendDrive
  <2> QED BY <2>4, <2>5
<1>14. CASE Sleep
  BY <1>14, RequestIsSome DEF Sleep
<1>15. CASE Stop
  <2> DEFINE packet == Drive(0, 0)
             longer == Append(write_queue, packet)
  <2>1. packet = StopPacket /\ packet # ExitRemoteControlMode
    BY PacketsOfProgram DEF StopPacket
  <2> HIDE DEF packet
  <2>2. /\ longer # <<>> /\ Len(longer) = Len(write_queue) + 1
        /\ Len(write_queue) \in Nat
        /\ DOMAIN longer = 1 .. Len(write_queue) + 1
        /\ DOMAIN write_queue = 1 .. Len(write_queue)
        /\ \A i \in 1 .. Len(write_queue) : longer[i] = write_queue[i]
        /\ longer[Len(write_queue) + 1] = packet
    <3>1. write_queue \in Seq(Packets)
      OBVIOUS
    <3>2. packet \in Packets
      BY PacketsOfProgram DEF packet
    <3> QED BY <3>1, <3>2, LongerQueue, Zenon
  <2> HIDE DEF longer
  <2>3. /\ write_queue' = IF Accepts THEN longer ELSE write_queue
        /\ UNCHANGED <<request, robot, promise, gatt, link, stage, result>>
    BY <1>15 DEF Stop, WriteCommand, longer, packet
  <2>4. CASE ~ Accepts
    BY <1>15, <2>3, <2>4 DEF Stop
  <2>5. CASE Accepts
    <3>1. \A i \in DOMAIN write_queue : write_queue[i] # ExitRemoteControlMode
      BY <1>15 DEF Stop
    <3>2. \A i \in DOMAIN longer : longer[i] # ExitRemoteControlMode
      <4> SUFFICES ASSUME NEW i \in DOMAIN longer PROVE longer[i] #
           ExitRemoteControlMode
        OBVIOUS
      <4>1. CASE i = Len(write_queue) + 1 BY <2>1, <2>2, <4>1
      <4>2. CASE i # Len(write_queue) + 1
        <5>1. i \in DOMAIN write_queue /\ longer[i] = write_queue[i]
          BY <2>2, <4>2
        <5> QED BY <3>1, <5>1
      <4> QED BY <4>1, <4>2
    <3> QED BY <1>15, <2>1, <2>2, <2>3, <2>5, <3>2 DEF Stop
  <2> QED BY <2>4, <2>5
<1>16. CASE ExitRemote
  <2> DEFINE packet == ExitRemoteControlMode
             longer == Append(write_queue, packet)
  <2>1. packet = ExitRemoteControlMode
    OBVIOUS
  <2> HIDE DEF packet
  <2>2. /\ longer # <<>> /\ Len(longer) = Len(write_queue) + 1
        /\ Len(write_queue) \in Nat
        /\ DOMAIN longer = 1 .. Len(write_queue) + 1
        /\ DOMAIN write_queue = 1 .. Len(write_queue)
        /\ \A i \in 1 .. Len(write_queue) : longer[i] = write_queue[i]
        /\ longer[Len(write_queue) + 1] = packet
    <3>1. write_queue \in Seq(Packets)
      OBVIOUS
    <3>2. packet \in Packets
      BY PacketsOfProgram DEF packet
    <3> QED BY <3>1, <3>2, LongerQueue, Zenon
  <2> HIDE DEF longer
  <2>3. /\ write_queue' = IF Accepts THEN longer ELSE write_queue
        /\ UNCHANGED <<request, robot, promise, gatt, link, stage, result>>
    BY <1>16 DEF ExitRemote, WriteCommand, longer, packet
  <2>4. CASE ~ Accepts
    BY <1>16, <2>3, <2>4 DEF ExitRemote
  <2>5. CASE Accepts
    <3>1. \A i \in DOMAIN write_queue : write_queue[i] # ExitRemoteControlMode
      BY <1>16 DEF ExitRemote
    <3>2. IF write_queue = <<>> THEN StandsStill(robot)
          ELSE write_queue[Len(write_queue)] = StopPacket
      BY <1>16, <2>5 DEF ExitRemote
    <3>3. Len(write_queue) = 0 <=> write_queue = <<>>
      OBVIOUS
    <3>4. ExitIsLast'
      <4> SUFFICES ASSUME NEW i \in DOMAIN longer, longer[i] =
           ExitRemoteControlMode
                   PROVE  /\ i = Len(longer)
                          /\ IF i = 1 THEN Stands ELSE longer[i - 1] =
                               StopPacket
        BY <1>16, <2>3, <2>5 DEF ExitRemote
      <4>1. i = Len(write_queue) + 1
        BY <2>2, <3>1
      <4>2. CASE i = 1 BY <4>1, <4>2, <2>2, <3>2, <3>3
      <4>3. CASE i # 1
        <5>1. i - 1 \in DOMAIN write_queue /\ i - 1 = Len(write_queue)
          BY <4>1, <4>3, <2>2
        <5> QED BY <5>1, <4>1, <4>3, <2>2, <3>2, <3>3
      <4> QED BY <4>1, <4>2, <4>3, <2>2
    <3>5. LastIs(ExitRemoteControlMode)'
      BY <2>1, <2>2, <2>3, <2>5
    <3> QED BY <1>16, <2>3, <3>4, <3>5 DEF ExitRemote
  <2> QED BY <2>4, <2>5
<1>17. CASE Disable
  <2> DEFINE new == [value |-> Config(0), state |-> "queued"]
  <2>1. new # None /\ new.state = "queued"
    BY RequestIsSome, Zenon DEF States
  <2> HIDE DEF new
  <2>2. /\ request' = IF Accepts THEN new ELSE None
        /\ promise' = "waiting"
        /\ UNCHANGED <<write_queue, robot, gatt, link, stage, result>>
    BY <1>17 DEF Disable, WriteRequest, new
  <2> QED BY <1>17, <2>1, <2>2 DEF Disable
<1>18. CASE Waits("disabling", "close")
  BY <1>18, RequestIsSome DEF Waits, Written
<1>19. CASE CloseJoystick
  BY <1>19, RequestIsSome DEF CloseJoystick
<1>20. CASE Destroys /\ Quit
  BY <1>20, RequestIsSome DEF Destroys, Destruct, Quit
<1>21. CASE Destroys /\ UnrefGatt
  BY <1>21, RequestIsSome DEF Destroys, Destruct, UnrefGatt, Undisturbed,
       InCallback
<1>22. CASE Destroys /\ UnrefAtt
  BY <1>22, RequestIsSome DEF Destroys, Destruct, UnrefAtt, Undisturbed,
       InCallback
<1>23. CASE Destroys /\ Join
  BY <1>23, RequestIsSome DEF Destroys, Destruct, Join
<1>24. CASE Interrupt
  BY <1>24, RequestIsSome DEF Interrupt
<1>25. CASE ReadJoystick
  BY <1>25, RequestIsSome DEF ReadJoystick
<1>26. CASE EndJoystick
  BY <1>26, RequestIsSome DEF EndJoystick
<1>27. CASE \E a \in Axes : \E p \in Positions[a] : Move(a, p)
  BY <1>27, RequestIsSome DEF Move
<1>28. CASE Unplug
  BY <1>28, RequestIsSome DEF Unplug
<1>29. CASE Writes
  <2>1. PICK pdu \in Pdus : DispatchWrite(pdu) /\ robot' = Obey(robot, pdu)
    BY <1>29 DEF Writes
  <2>2. UNCHANGED <<main, result, promise, gatt, link, stage>>
    BY <1>29, <2>1 DEF Writes, DispatchWrite
  <2>3. CASE write_queue # <<>>
    <3>1. /\ pdu = Head(write_queue) /\ write_queue' = Tail(write_queue)
          /\ UNCHANGED request
      BY <2>1, <2>3 DEF DispatchWrite
    <3>2. /\ pdu = write_queue[1] /\ pdu \in Packets
          /\ Len(write_queue) \in Nat /\ Len(write_queue) # 0
          /\ DOMAIN write_queue = 1 .. Len(write_queue)
          /\ Len(write_queue') = Len(write_queue) - 1
          /\ DOMAIN write_queue' = 1 .. Len(write_queue) - 1
          /\ \A i \in 1 .. Len(write_queue) - 1 : write_queue'[i] =
               write_queue[i + 1]
          /\ write_queue' = <<>> <=> Len(write_queue) = 1
      <4>1. write_queue \in Seq(Packets)
        OBVIOUS
      <4> QED BY <3>1, <2>3, <4>1, ShorterQueue, Zenon
    <3>3. robot' \in Robots
      BY <2>1, <3>2, ObeyPacket
    <3>4. pdu = ExitRemoteControlMode =>
            /\ write_queue' = <<>> /\ robot' = Idle
            /\ main \in {"disable", "disabling"}
      <4> SUFFICES ASSUME pdu = ExitRemoteControlMode
                   PROVE  /\ write_queue' = <<>> /\ robot' = Idle
                          /\ main \in {"disable", "disabling"}
        OBVIOUS
      <4>1. /\ 1 = Len(write_queue) /\ main \in {"disable", "disabling"}
            /\ StandsStill(robot)
        BY <3>2
      <4>2. robot' = Idle
        BY <2>1, <4>1, ObeyExit
      <4> QED BY <3>2, <4>1, <4>2
    <3>5. robot'.remote \/ StandsStill(robot')
      <4>1. CASE pdu = ExitRemoteControlMode
        BY <3>4, <4>1
      <4>2. CASE pdu # ExitRemoteControlMode
        BY <2>1, <3>2, <4>2, ObeyPacket
      <4> QED BY <4>1, <4>2
    <3>6. pdu = StopPacket => StandsStill(robot')
      BY <2>1, ObeyStop
    <3>7. \A b : LastIs(b) => IF Len(write_queue) = 1 THEN pdu = b ELSE
         LastIs(b)'
      <4> SUFFICES ASSUME NEW b, LastIs(b)
                   PROVE  IF Len(write_queue) = 1 THEN pdu = b ELSE LastIs(b)'
        OBVIOUS
      <4>1. CASE Len(write_queue) = 1 BY <3>2, <4>1
      <4>2. CASE Len(write_queue) # 1
        <5>1. /\ Len(write_queue) - 1 \in 1 .. Len(write_queue) - 1
              /\ (Len(write_queue) - 1) + 1 = Len(write_queue)
          BY <3>2, <4>2
        <5> QED BY <3>2, <4>2, <5>1
      <4> QED BY <4>1, <4>2
    <3>8. ExitIsLast'
      <4> SUFFICES ASSUME NEW i \in DOMAIN write_queue',
                          write_queue'[i] = ExitRemoteControlMode
                   PROVE  /\ i = Len(write_queue')
                          /\ main \in {"disable", "disabling"}
                          /\ IF i = 1 THEN StandsStill(robot')
                             ELSE write_queue'[i - 1] = StopPacket
        BY <2>2
      <4>1. /\ i \in 1 .. Len(write_queue) - 1 /\ i + 1 \in DOMAIN write_queue
            /\ write_queue[i + 1] = ExitRemoteControlMode
        BY <3>2
      <4>2. /\ i + 1 = Len(write_queue) /\ main \in {"disable", "disabling"}
            /\ write_queue[(i + 1) - 1] = StopPacket /\ (i + 1) - 1 = i
        BY <4>1
      <4>3. CASE i = 1
        BY <4>2, <4>3, <3>2, <3>6
      <4>4. CASE i # 1
        <5>1. i - 1 \in 1 .. Len(write_queue) - 1 /\ (i - 1) + 1 = i
          BY <4>1, <4>4, <3>2
        <5>2. write_queue'[i - 1] = write_queue[i]
          BY <5>1, <3>2
        <5> QED BY <4>2, <4>4, <5>2, <3>2
      <4> QED BY <4>2, <4>3, <4>4, <3>2
    <3>9. Stopping'
      <4>1. main = "exit" => \/ ~ Accepts \/ LastIs(StopPacket)'
                             \/ write_queue' = <<>> /\ StandsStill(robot')
        BY <2>3, <3>2, <3>6, <3>7
      <4>2. LastIs(ExitRemoteControlMode) =>
              \/ LastIs(ExitRemoteControlMode)'
              \/ write_queue' = <<>> /\ robot' = Idle
        BY <3>2, <3>4, <3>7
      <4> HIDE DEF LastIs
      <4> QED BY <2>2, <2>3, <3>1, <3>5, <4>1, <4>2
    <3> QED BY <3>8, <3>9
  <2>4. CASE write_queue = <<>>
    <3>1. /\ request # None /\ request.state = "queued" /\ pdu = request.value
          /\ request' = [request EXCEPT !.state = "sent"] /\ UNCHANGED
               write_queue
      BY <2>1, <2>4 DEF DispatchWrite
    <3>2. /\ pdu \in {Config(0), Config(1)} /\ request' \in Requests
          /\ request'.state = "sent"
      BY <3>1 DEF Requests, States
    <3>3. ~ WellFormed(pdu) /\ request' # None
      BY <3>2, ConfigIsNone, RequestIsSome
    <3>4. robot' = robot
      BY <2>1, <3>3 DEF Obey
    <3> QED BY <2>2, <2>4, <3>1, <3>2, <3>3, <3>4
  <2> QED BY <2>3, <2>4
<1>30. CASE Test /\ Others
  BY <1>30, RequestIsSome DEF Test
<1>31. CASE Wake /\ Others
  BY <1>31, RequestIsSome DEF Wake
<1>32. CASE EnterFreed /\ Others
  BY <1>32, RequestIsSome DEF EnterFreed
<1>33. CASE Return /\ Others
  BY <1>33, RequestIsSome DEF Return
<1>34. CASE DispatchNothing /\ Others
  BY <1>34, RequestIsSome DEF DispatchNothing
<1>35. CASE DispatchResponse /\ Others
  BY <1>35, RequestIsSome DEF DispatchResponse
<1>36. CASE DispatchDiscovered /\ Others
  BY <1>36, RequestIsSome DEF DispatchDiscovered
<1>37. CASE DispatchNotification /\ Others
  BY <1>37, RequestIsSome DEF DispatchNotification
<1>38. CASE DispatchHangup /\ Others
  BY <1>38, RequestIsSome DEF DispatchHangup
<1>39. CASE Answer /\ Others
  <2>1. /\ request \in Requests /\ request.state = "sent"
        /\ request' = [request EXCEPT !.state = "answered"]
    BY <1>39 DEF Answer
  <2>2. request' \in Requests /\ request'.state = "answered"
    BY <2>1 DEF Requests, States
  <2>3. request' # None /\ request # None
    BY <2>1, <2>2, RequestIsSome
  <2>4. UNCHANGED <<write_queue, robot, gatt, link, stage, result, main,
       promise>>
    BY <1>39 DEF Answer
  <2> QED BY <2>1, <2>2, <2>3, <2>4
<1>40. CASE Drop /\ Others
  BY <1>40, RequestIsSome DEF Drop
<1>41. CASE (\E e \in Events : Fetch(e)) /\ Others
  BY <1>41, RequestIsSome DEF Fetch, Happens, Watched
<1>42. CASE RemoveWriter /\ Others
  BY <1>42, RequestIsSome DEF RemoveWriter
<1>43. CASE UNCHANGED vars
  BY <1>43, RequestIsSome DEF vars
<1> HIDE DEF Only, Others, At, Runs, client, objects, bearer, handler, loop, program,
     joystick, person, Enter, SentTyped, MainAndStage, GattAndStage,
     NothingYet, Asked, ExitIsLast, Stopping, Accepts, LastIs, Settled,
     Stands, StandsStill, Asking, InConstructor, InDestructor, Idle
<1> QED BY <1>1, <1>2, <1>3, <1>4, <1>5, <1>6, <1>7, <1>8, <1>9, <1>10, <1>11,
     <1>12, <1>13, <1>14, <1>15, <1>16, <1>17, <1>18, <1>19, <1>20, <1>21,
     <1>22, <1>23, <1>24, <1>25, <1>26, <1>27, <1>28, <1>29, <1>30, <1>31,
     <1>32, <1>33, <1>34, <1>35, <1>36, <1>37, <1>38, <1>39, <1>40, <1>41,
     <1>42, <1>43, NextCases

-----------------------------------------------------------------------------
(* The invariant holds at first ...                                        *)
LEMMA InitIInv == Init => IInv
<1> SUFFICES ASSUME Init PROVE IInv
  OBVIOUS
<1> USE DEF Init, ClientInit
<1>1. ClientTyped
  BY DEF ClientTyped, Stages
<1>2. HandlerTyped /\ ProgramTyped
  <2>1. sample \in [{"y", "x"} -> Int]
    OBVIOUS
  <2> QED BY <2>1 DEF HandlerTyped, ProgramTyped, Statements
<1>3. StickTyped
  <2>1. stick \in [Axes -> Int] /\ axis_map \in [Axes -> Int]
    BY PositionsAre
  <2>2. \A a \in Axes : axis_map[a] \in Positions[a] /\ stick[a] \in Positions[a]
    BY PositionsAre
  <2> QED BY <2>1, <2>2, PositionsAre DEF StickTyped
<1>4. SentTyped
  BY LEClientConstantsOK DEF SentTyped, Idle, Robots
<1>5. MainAndStage /\ GattAndStage /\ InputAndStage
  BY DEF MainAndStage, GattAndStage, InputAndStage, InConstructor, InDestructor
<1>6. NothingYet /\ Alive /\ Asked /\ PromiseKept /\ NoUseAfterFree
  BY DEF NothingYet, Alive, Asked, PromiseKept, NoUseAfterFree, Asking, InCallback
<1>7. ExitIsLast /\ Stopping
  BY DEF ExitIsLast, Stopping, Stands, StandsStill, Idle
<1> QED BY <1>1, <1>2, <1>3, <1>4, <1>5, <1>6, <1>7 DEF IInv, Typed

(* ... and each step keeps it.                                             *)
LEMMA NextIInv == IInv /\ [Next]_vars => IInv'
<1> SUFFICES ASSUME IInv, [Next]_vars PROVE IInv'
  OBVIOUS
<1> USE DEF IInv
<1>1. /\ ClientTypeOK /\ main \in Statements /\ result \in {"none", "ok", "error"}
      /\ request \in Requests \union {None} /\ write_queue \in Seq(Packets)
      /\ ProgramTyped /\ SentTyped
  BY TypedIsTypeOK DEF Typed, ProgramTyped, SentTyped
<1>2. Typed'
  BY TypedStep
<1>3. MainAndStage' /\ GattAndStage' /\ InputAndStage'
  BY <1>1, LifeStep
<1>4. Alive' /\ NoUseAfterFree'
  BY <1>1, AliveStep
<1>5. NothingYet'
  BY <1>1, NothingYetStep
<1>6. Asked' /\ PromiseKept'
  BY <1>1, AskedStep
<1>7. met' \/ (ExitIsLast' /\ Stopping')
  <2>1. CASE met
    BY <2>1, MetStays
  <2>2. CASE met'
    BY <2>2
  <2>3. CASE ~ met /\ ~ met'
    BY <1>1, <2>3, StopStep
  <2> QED BY <2>1, <2>2, <2>3
<1> QED BY <1>2, <1>3, <1>4, <1>5, <1>6, <1>7

(* Every reachable state has the types, a promise is only left open when   *)
(* the client or the link is gone, and the input thread uses nothing that  *)
(* the destructor freed unless the destructor overtakes a callback: of     *)
(* LEClient as t_minipro uses it, also when the two threads meet in the    *)
(* bearer.                                                                 *)
THEOREM Correct == Spec => []Inv
<1>1. IInv => Inv
  BY TypedIsTypeOK DEF IInv, Inv
<1> QED BY <1>1, InitIInv, NextIInv, PTL DEF Spec

(* A program that ends with 0 has stopped the miniPRO and brought it back  *)
(* to its normal mode, whatever the stick, the link and the peer did:      *)
(* unless main has handed an operation to the bearer while the input       *)
(* thread was in its write handler, which nothing in the code prevents     *)
(* (le_client.cpp:481 and :486 take no lock).                              *)
THEOREM Stopped == Spec => []StoppedAtEnd
<1>1. IInv => StoppedAtEnd
  BY DEF IInv, Stopping, Settled, StoppedAtEnd
<1> QED BY <1>1, InitIInv, NextIInv, PTL DEF Spec

=============================================================================
