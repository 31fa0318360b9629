----------------------------- MODULE LinkProofs -----------------------------
(***************************************************************************)
(* What the fixtures of the tests may conclude, for every set of sequences *)
(* and regions, every size of the buffers and any number of other clients. *)
(***************************************************************************)
EXTENDS Link, VehicleProofs, WellFoundedInduction

-----------------------------------------------------------------------------
(* The buffers.                                                            *)

LEMMA ArrivedIs ==
  ASSUME NEW S, NEW b \in Seq(S), NEW d \in S, Len(b) <= Buffer
  PROVE  /\ Arrived(b, d) \in Seq(S) /\ Len(Arrived(b, d)) <= Buffer
         /\ Range(Arrived(b, d)) \subseteq Range(b) \cup {d}
         /\ \A i \in 1..Len(Arrived(b, d)) :
               \/ i \in 1..Len(b) /\ Arrived(b, d)[i] = b[i]
               \/ i = Len(b) + 1 /\ Arrived(b, d)[i] = d
<1>1. Buffer \in Nat /\ Len(b) \in Nat
  BY LinkAssumption DEF LinkAssumption
<1>2. CASE Len(b) < Buffer
  <2> DEFINE a == Append(b, d)
  <2>1. a \in Seq(S) /\ Len(a) = Len(b) + 1
    OBVIOUS
  <2>2. \A i \in 1..Len(a) : (i \in 1..Len(b) /\ a[i] = b[i]) \/ (i = Len(b) + 1 /\ a[i] = d)
    BY <1>1
  <2>3. DOMAIN a = 1..Len(a) /\ DOMAIN b = 1..Len(b)
    BY <2>1
  <2> HIDE DEF a
  <2>4. Range(a) \subseteq Range(b) \cup {d}
    BY <2>2, <2>3 DEF Range
  <2>5. Arrived(b, d) = a
    BY <1>2 DEF Arrived, a
  <2> QED BY <1>1, <1>2, <2>1, <2>2, <2>4, <2>5
<1>3. CASE ~ (Len(b) < Buffer)
  BY <1>1, <1>3 DEF Arrived
<1> QED BY <1>2, <1>3

LEMMA TailIs ==
  ASSUME NEW S, NEW s \in Seq(S), s # <<>>
  PROVE  /\ Tail(s) \in Seq(S) /\ Len(Tail(s)) = Len(s) - 1 /\ Len(s) \in Nat \ {0}
         /\ Head(s) = s[1] /\ Head(s) \in S /\ Head(s) \in Range(s)
         /\ \A i \in 1..Len(Tail(s)) : i + 1 \in 1..Len(s) /\ Tail(s)[i] = s[i + 1]
         /\ Range(Tail(s)) \subseteq Range(s)
<1>1. Len(s) \in Nat \ {0} /\ DOMAIN s = 1..Len(s)
  BY EmptySeq
<1>2. Tail(s) \in Seq(S) /\ Len(Tail(s)) = Len(s) - 1
  OBVIOUS
<1>3. Head(s) = s[1] /\ 1 \in DOMAIN s
  BY <1>1
<1>4. Head(s) \in S /\ Head(s) \in Range(s)
  BY <1>1, <1>3 DEF Range
<1>5. \A i \in 1..Len(Tail(s)) : i + 1 \in 1..Len(s) /\ Tail(s)[i] = s[i + 1]
  BY <1>1, <1>2
<1>6. DOMAIN Tail(s) = 1..Len(Tail(s))
  BY <1>2
<1>7. Range(Tail(s)) \subseteq Range(s)
  BY <1>1, <1>5, <1>6 DEF Range
<1> QED BY <1>1, <1>2, <1>3, <1>4, <1>5, <1>7

LEMMA AppendIs ==
  ASSUME NEW S, NEW s \in Seq(S), NEW d \in S
  PROVE  Append(s, d) \in Seq(S) /\ Range(Append(s, d)) = Range(s) \cup {d}
<1> DEFINE a == Append(s, d)
<1>1. a \in Seq(S) /\ Len(a) = Len(s) + 1 /\ Len(s) \in Nat
  OBVIOUS
<1>2. \A i \in 1..Len(a) : (i \in 1..Len(s) /\ a[i] = s[i]) \/ (i = Len(s) + 1 /\ a[i] = d)
  OBVIOUS
<1>3. (\A i \in 1..Len(s) : i \in 1..Len(a) /\ a[i] = s[i])
      /\ a[Len(s) + 1] = d /\ Len(s) + 1 \in 1..Len(a)
  BY <1>1
<1>4. DOMAIN a = 1..Len(a) /\ DOMAIN s = 1..Len(s)
  BY <1>1
<1> HIDE DEF a
<1>5. Range(a) = Range(s) \cup {d}
  BY <1>2, <1>3, <1>4 DEF Range
<1> QED BY <1>1, <1>5 DEF a

LEMMA RemoveAtIs ==
  ASSUME NEW S, NEW s \in Seq(S), NEW i \in DOMAIN s
  PROVE  RemoveAt(s, i) \in Seq(S) /\ Range(RemoveAt(s, i)) \subseteq Range(s)
<1> DEFINE a == SubSeq(s, 1, i - 1)
           b == SubSeq(s, i + 1, Len(s))
<1>1. i \in 1..Len(s) /\ Len(s) \in Nat /\ DOMAIN s = 1..Len(s)
  OBVIOUS
<1>2. a \in Seq(S) /\ b \in Seq(S)
  BY <1>1, SubSeqProperties
<1>3. Len(a) = i - 1 /\ Len(b) = Len(s) - i
  BY <1>1, SubSeqProperties
<1>4. /\ \A k \in 1..Len(a) : a[k] = s[k]
      /\ \A k \in 1..Len(b) : b[k] = s[k + i]
  <2>1. \A k \in 1..(i - 1) : a[k] = s[1 + k - 1]
    BY <1>1, SubSeqProperties
  <2>2. \A k \in 1..(Len(s) - (i + 1) + 1) : b[k] = s[i + 1 + k - 1]
    BY <1>1, SubSeqProperties
  <2> HIDE DEF a, b
  <2>3. \A k \in 1..Len(a) : 1 + k - 1 = k
    BY <1>3, <1>1
  <2>4. \A k \in 1..Len(b) : i + 1 + k - 1 = k + i
    BY <1>3, <1>1
  <2> QED BY <1>1, <1>3, <2>1, <2>2, <2>3, <2>4
<1>5. DOMAIN a = 1..Len(a) /\ DOMAIN b = 1..Len(b)
  BY <1>2
<1> HIDE DEF a, b
<1>6. Range(a) \subseteq Range(s) /\ Range(b) \subseteq Range(s)
  <2>1. \A k \in DOMAIN a : k \in DOMAIN s /\ a[k] = s[k]
    BY <1>1, <1>3, <1>4, <1>5
  <2>2. \A k \in DOMAIN b : k + i \in DOMAIN s /\ b[k] = s[k + i]
    BY <1>1, <1>3, <1>4, <1>5
  <2>3. Range(a) \subseteq Range(s)
    BY <2>1 DEF Range
  <2>4. Range(b) \subseteq Range(s)
    BY <2>2 DEF Range
  <2> QED BY <2>3, <2>4
<1>7. a \o b \in Seq(S) /\ Len(a \o b) = Len(a) + Len(b)
  BY <1>2
<1>8. \A k \in 1..Len(a \o b) : (a \o b)[k] = IF k <= Len(a) THEN a[k] ELSE b[k - Len(a)]
  BY <1>2, <1>7
<1> DEFINE r == a \o b
<1>9. Range(a \o b) \subseteq Range(a) \cup Range(b)
  <2>1. DOMAIN r = 1..Len(r) /\ Len(r) = Len(a) + Len(b) /\ Len(a) \in Nat /\ Len(b) \in Nat
    BY <1>2, <1>7
  <2>2. \A k \in 1..Len(r) : r[k] = IF k <= Len(a) THEN a[k] ELSE b[k - Len(a)]
    BY <1>8
  <2> HIDE DEF r
  <2>3. ASSUME NEW k \in 1..Len(r), k <= Len(a) PROVE r[k] \in Range(a)
    BY <2>1, <2>2, <2>3, <1>5 DEF Range
  <2>4. ASSUME NEW k \in 1..Len(r), ~(k <= Len(a)) PROVE r[k] \in Range(b)
    <3>1. k - Len(a) \in 1..Len(b) /\ r[k] = b[k - Len(a)]
      BY <2>1, <2>2, <2>4
    <3> QED BY <3>1, <1>5 DEF Range
  <2>5. \A k \in DOMAIN r : r[k] \in Range(a) \cup Range(b)
    BY <2>1, <2>3, <2>4
  <2>6. Range(r) \subseteq Range(a) \cup Range(b)
    BY <2>5 DEF Range
  <2> QED BY <2>6 DEF r
<1> QED BY <1>6, <1>7, <1>9 DEF RemoveAt, a, b

LEMMA RangeOfNone == Range(<<>>) = {}
  BY DEF Range

LEMMA RangeOfOne == ASSUME NEW d PROVE Range(<<d>>) = {d}
  BY DEF Range

-----------------------------------------------------------------------------
(* Type correctness.                                                       *)

Goals == DOMAIN Expected \cup {"register", "free", "failed"}

\* What LinkTypeOK leaves out: the shapes of the datagram being dispatched and of the
\* test, and which handlers a datagram still has to reach.
Shaped ==
    /\ client \in [goal : Goals, pc : {"send", "recv"}, cmd : RxCommands \cup {NoCommand},
                   env : {<<>>} \cup { <<d>> : d \in EnvironmentData }, sent : SUBSET RxCommands]
    /\ rx \in [datagram : {<<>>} \cup { <<d>> : d \in Requests },
               left : Seq({"Environment", "Thermal"}) \cup {<<"StateRequest">>, <<"KinematicsRequest">>}]
    /\ \A h \in {"StateRequest", "KinematicsRequest"} :
           rx.left = <<h>> => Head(rx.datagram).id = h
    /\ rx.left # <<>> /\ Head(rx.left) \in {"Environment", "Thermal"} =>
           Head(rx.datagram).id = "EnvironmentData" /\ rx.left \in Seq({"Environment", "Thermal"})
    /\ client.goal = "ack" => client.env # <<>>

Typed == LinkTypeOK /\ Shaped

LEMMA RequestIs ==
  ASSUME NEW d \in Requests
  PROVE  /\ d.id = "MotorSequence" => d.body \in RxCommands
         /\ d.id = "EnvironmentData" => d.body \in EnvironmentData
         /\ d.from \in {"test", "other"}
         /\ d.id \in {"StateRequest", "KinematicsRequest", "MotorSequence", "EnvironmentData", "none"}
BY DEF Requests

LEMMA DatagramIs ==
  /\ Datagram("other", "none", <<>>) \in Requests
  /\ \A id \in {"none", "StateRequest", "KinematicsRequest"} : Datagram("test", id, <<>>) \in Requests
  /\ \A c \in RxCommands : Datagram("test", "MotorSequence", c) \in Requests
  /\ \A d \in EnvironmentData : Datagram("test", "EnvironmentData", d) \in Requests
BY DEF Requests, Datagram

LEMMA LinkInitTypes == LinkInit => Typed
<1> SUFFICES ASSUME LinkInit PROVE LinkTypeOK /\ Shaped
  BY DEF Typed
<1>1. TypeOK
  BY InitTypes DEF LinkInit
<1>2. /\ toApp \in Seq(Requests) /\ Len(toApp) <= Buffer
      /\ toClient \in Seq(Answer) /\ Len(toClient) <= Buffer
      /\ reply \in Seq(Answer) /\ Len(reply) <= 1 /\ kept \in Seq(Answer)
  BY LinkAssumption DEF LinkInit, LinkAssumption
<1>3. LinkTypeOK
  BY <1>1, <1>2 DEF LinkInit, LinkTypeOK, Initially
<1>4. Shaped
  BY DEF LinkInit, Shaped, Goals
<1> QED BY <1>3, <1>4

\* What the simulator does is a step of Vehicle in which nothing is received; the
\* receiver's thread enters the motor only with a sequence it has received.
LEMMA SimulatorSteps ==
  ASSUME TypeOK, Simulator
  PROVE  Next /\ UNCHANGED link /\ (Free("rx") => Free("rx")')
<1>1. Next /\ UNCHANGED link
  BY DEF Simulator, Next
<1>2. SUFFICES ASSUME Free("rx") PROVE Free("rx")'
  BY <1>1
<1>3. CASE MotorSequence("clock")
  BY <1>2, <1>3 DEF MotorSequence, Publish, Free, TypeOK, Thread
<1>4. CASE MotorSequence("rx")
  BY <1>2, <1>4 DEF MotorSequence, Free
<1>5. CASE MotorAdvances
  BY <1>2, <1>5 DEF MotorAdvances, Publish, Free
<1>6. CASE MotorReturn
  BY <1>2, <1>6 DEF MotorReturn, Free, None, TypeOK
<1>7. CASE StateHears \/ PowerHears \/ KinematicsHears
  BY <1>2, <1>7 DEF StateHears, PowerHears, KinematicsHears, Hears, Free, TypeOK
<1>8. CASE \E c \in AutoCommands : AutoCommand(c)
  BY <1>2, <1>8 DEF AutoCommand, Issue, Free, TypeOK, Thread
<1>9. CASE UNCHANGED <<pending, report>>
  BY <1>2, <1>9 DEF Free
<1> QED
  BY <1>3, <1>4, <1>5, <1>6, <1>7, <1>8, <1>9
     DEF Simulator, ClockStep, MotorTick, ReportStep, Sample, AutoTick, PowerTick,
         KinematicsTick, MotorIgnores, MotorCounts

-----------------------------------------------------------------------------
(* The receiver.                                                           *)

LEMMA ReceiveType ==
  ASSUME Typed, Recvfrom
  PROVE  /\ Head(toApp) \in Requests
         /\ [Next]_vars
         /\ toApp' \in Seq(Requests) /\ Len(toApp') <= Buffer
         /\ \/ UNCHANGED vars
            \/ UNCHANGED rx /\ rx.datagram = <<>>
<1> DEFINE d == Head(toApp)
<1>1. toApp \in Seq(Requests) /\ toApp # <<>> /\ toApp' = Tail(toApp)
  BY DEF Recvfrom, Typed, LinkTypeOK
<1>2. d \in Requests
  BY <1>1, TailIs
<1>3. toApp' \in Seq(Requests) /\ Len(toApp') = Len(toApp) - 1
  BY <1>1, TailIs
<1>4. Len(toApp') <= Buffer
  BY <1>1, <1>3, LinkAssumption DEF Typed, LinkTypeOK, LinkAssumption
<1>5. CASE d.id = "MotorSequence"
  <2>1. Receive(d.body) /\ d.body \in RxCommands /\ UNCHANGED rx
    BY <1>2, <1>5, RequestIs DEF Recvfrom
  <2>2. Next
    BY <2>1 DEF Next, PeerStep
  <2> QED BY <1>2, <1>3, <1>4, <2>1, <2>2 DEF Recvfrom, RxIdle
<1>6. CASE d.id # "MotorSequence"
  BY <1>2, <1>3, <1>4, <1>6 DEF Recvfrom
<1> QED BY <1>5, <1>6

LEMMA RecvfromTypes == ASSUME Typed, Recvfrom PROVE Typed'
<1> DEFINE d == Head(toApp)
           H == Seq({"Environment", "Thermal"})
<1>1. /\ d \in Requests /\ TypeOK' /\ toApp' \in Seq(Requests) /\ Len(toApp') <= Buffer
      /\ d.from \in {"test", "other"}
  BY ReceiveType, RequestIs, StepTypes DEF Typed, LinkTypeOK
<1>2. UNCHANGED <<toClient, reply, cache, ambient, client, kept, knows, strays>> /\ peer' = d.from
  BY DEF Recvfrom, Peer
<1>3. rx.datagram = <<>> /\ rx.left = <<>> /\ Free("rx")
  BY DEF Recvfrom, RxIdle, Typed, LinkTypeOK
<1>4. /\ DataOrder \in H /\ DataOrder # <<>>
      /\ Head(DataOrder) \in {"Environment", "Thermal"}
  BY LinkAssumption DEF LinkAssumption
<1> HIDE DEF H
<1>5. \/ UNCHANGED rx
      \/ UNCHANGED vars /\ d.id = "EnvironmentData" /\ rx' = [datagram |-> <<d>>, left |-> DataOrder]
      \/ /\ UNCHANGED vars /\ d.id \in {"StateRequest", "KinematicsRequest"}
         /\ rx' = [datagram |-> <<d>>, left |-> <<d.id>>]
  BY DEF Recvfrom
<1>6. UNCHANGED vars => Free("rx")'
  BY <1>3 DEF Free, vars
<1>7. LinkTypeOK'
  <2>1. (rx'.left # <<>> <=> rx'.datagram # <<>>)
        /\ (rx'.datagram # <<>> => Head(rx'.datagram) \in Requests /\ Free("rx")')
    BY <1>1, <1>3, <1>4, <1>5, <1>6
  <2> QED BY <1>1, <1>2, <2>1 DEF Typed, LinkTypeOK
<1>8. Shaped'
  <2> DEFINE L == H \cup {<<"StateRequest">>, <<"KinematicsRequest">>}
             D == {<<>>} \cup { <<r>> : r \in Requests }
  <2>1. rx \in [datagram : D, left : L]
    BY DEF Typed, Shaped, H
  <2>2. rx' \in [datagram : D, left : L]
    BY <1>1, <1>4, <1>5, <2>1
  <2>3. \A h \in {"StateRequest", "KinematicsRequest"} : rx'.left = <<h>> => Head(rx'.datagram).id = h
    BY <1>3, <1>4, <1>5
  <2>4. rx'.left # <<>> /\ Head(rx'.left) \in {"Environment", "Thermal"} =>
           Head(rx'.datagram).id = "EnvironmentData" /\ rx'.left \in H
    BY <1>3, <1>4, <1>5
  <2> QED BY <1>2, <2>2, <2>3, <2>4 DEF Typed, Shaped, H
<1> QED BY <1>7, <1>8 DEF Typed
LEMMA HandlesTypes ==
  ASSUME Typed, NEW h, Handles(h)
  PROVE  /\ rx.datagram # <<>> /\ Head(rx.datagram) \in Requests /\ rx.datagram = <<Head(rx.datagram)>>
         /\ h \in {"StateRequest", "KinematicsRequest"} => Head(rx.datagram).id = h
         /\ h \in {"Environment", "Thermal"} => Head(rx.datagram).body \in EnvironmentData
         /\ rx' \in [datagram : {<<>>} \cup { <<r>> : r \in Requests },
                     left : Seq({"Environment", "Thermal"}) \cup {<<"StateRequest">>, <<"KinematicsRequest">>}]
         /\ rx'.datagram \in {<<>>, rx.datagram} /\ (rx'.left # <<>> <=> rx'.datagram # <<>>)
         /\ rx'.left # <<>> => rx'.left \in Seq({"Environment", "Thermal"})
                               /\ Head(rx.datagram).id = "EnvironmentData" /\ rx'.left = Tail(rx.left)
<1> DEFINE H == Seq({"Environment", "Thermal"})
           L == H \cup {<<"StateRequest">>, <<"KinematicsRequest">>}
           D == {<<>>} \cup { <<r>> : r \in Requests }
<1>1. rx \in [datagram : D, left : L] /\ rx.left # <<>> /\ Head(rx.left) = h
  BY DEF Typed, Shaped, Handles
<1>2. rx.datagram # <<>> /\ Head(rx.datagram) \in Requests /\ rx.datagram = <<Head(rx.datagram)>>
  BY <1>1 DEF Typed, LinkTypeOK
<1>3. ASSUME h \in {"StateRequest", "KinematicsRequest"}
      PROVE  Head(rx.datagram).id = h /\ rx.left = <<h>>
  <2>1. rx.left \notin H
    <3> SUFFICES ASSUME rx.left \in H PROVE FALSE
      OBVIOUS
    <3>1. Head(rx.left) \in {"Environment", "Thermal"}
      BY <1>1, TailIs
    <3> QED BY <1>1, <1>3, <3>1
  <2>2. rx.left = <<h>>
    BY <1>1, <2>1
  <2> QED BY <1>3, <2>2 DEF Typed, Shaped
<1>4. ASSUME h \in {"Environment", "Thermal"}
      PROVE  /\ Head(rx.datagram).id = "EnvironmentData" /\ Head(rx.datagram).body \in EnvironmentData
             /\ rx.left \in H
  <2>1. Head(rx.datagram).id = "EnvironmentData" /\ rx.left \in H
    BY <1>1, <1>4 DEF Typed, Shaped
  <2> QED BY <1>2, <2>1, RequestIs
<1>5. h \in {"StateRequest", "KinematicsRequest", "Environment", "Thermal"}
  <2>1. ASSUME rx.left \in H PROVE h \in {"Environment", "Thermal"}
    BY <1>1, <2>1, TailIs
  <2> QED BY <1>1, <2>1
<1>6. CASE Len(rx.left) = 1
  <2>1. rx' = [datagram |-> <<>>, left |-> <<>>]
    BY <1>6 DEF Handles
  <2>2. rx' \in [datagram : D, left : L] /\ rx'.left = <<>> /\ rx'.datagram = <<>>
    BY <2>1
  <2> QED BY <1>2, <1>3, <1>4, <2>2
<1>7. CASE Len(rx.left) # 1
  <2>1. h \in {"Environment", "Thermal"} /\ rx.left \in H
    <3>1. h \notin {"StateRequest", "KinematicsRequest"}
      <4>1. Len(<<h>>) = 1
        OBVIOUS
      <4> QED BY <1>3, <1>7, <4>1
    <3> QED BY <1>4, <1>5, <3>1
  <2>2. rx' = [rx EXCEPT !.left = Tail(rx.left)]
    BY <1>7 DEF Handles
  <2>3. Tail(rx.left) \in H /\ Len(Tail(rx.left)) # 0
    BY <1>1, <1>7, <2>1, TailIs
  <2>4. Tail(rx.left) # <<>>
    BY <2>3, EmptySeq
  <2> HIDE DEF H
  <2>5. rx' \in [datagram : D, left : L] /\ rx'.left = Tail(rx.left) /\ rx'.datagram = rx.datagram
    BY <1>1, <2>2, <2>3
  <2>6. rx'.left \in H
    BY <2>3, <2>5
  <2> QED BY <1>2, <1>4, <2>1, <2>4, <2>5, <2>6 DEF H
<1> QED BY <1>6, <1>7

\* A handler of the datagram that leaves the simulator, the buffers and the test alone.
LEMMA HandlerTypes ==
  ASSUME Typed, NEW h, Handles(h), reply' \in Seq(Answer), Len(reply') <= 1,
         UNCHANGED <<vars, toApp, toClient, peer, client, kept, knows, strays>>,
         DOMAIN cache' \subseteq { d.region : d \in EnvironmentData }, ambient' \in Nat
  PROVE  Typed'
<1>1. TypeOK' /\ Free("rx")'
  <2>1. Free("rx")
    BY HandlesTypes DEF Typed, LinkTypeOK
  <2> QED BY <2>1, StepTypes DEF Typed, LinkTypeOK, Free, vars
<1>2. LinkTypeOK'
  BY <1>1, HandlesTypes DEF Typed, LinkTypeOK
<1>3. Shaped'
  <2>1. \A g \in {"StateRequest", "KinematicsRequest"} : rx'.left # <<g>>
    <3> SUFFICES ASSUME NEW g \in {"StateRequest", "KinematicsRequest"}, rx'.left = <<g>> PROVE FALSE
      OBVIOUS
    <3>1. rx'.left \in Seq({"Environment", "Thermal"}) /\ rx'.left # <<>>
      BY HandlesTypes
    <3>2. Head(rx'.left) \in {"Environment", "Thermal"}
      BY <3>1, TailIs
    <3> QED BY <3>2
  <2>2. rx'.left # <<>> => Head(rx'.datagram).id = "EnvironmentData" /\ rx'.left \in Seq({"Environment", "Thermal"})
    BY HandlesTypes
  <2>3. /\ rx' \in [datagram : {<<>>} \cup { <<r>> : r \in Requests },
                    left : Seq({"Environment", "Thermal"}) \cup {<<"StateRequest">>, <<"KinematicsRequest">>}]
        /\ UNCHANGED client
    BY HandlesTypes
  <2> QED BY <2>1, <2>2, <2>3 DEF Typed, Shaped
<1> QED BY <1>2, <1>3 DEF Typed

LEMMA AnswerIs ==
  /\ \A st \in {"Ready", "Executing"} : [id |-> "StateData", st |-> st] \in Answer
  /\ \A c \in Ids, e \in 0..(Wrap - 1) : [id |-> "KinematicsData", cmd_id |-> c, elapsed |-> e] \in Answer
  /\ \A r \in Nat : [id |-> "EnvironmentAck", region |-> r] \in Answer
BY DEF Answer

LEMMA OneAnswer == ASSUME NEW m \in Answer PROVE <<m>> \in Seq(Answer) /\ Len(<<m>>) <= 1
  OBVIOUS

LEMMA BridgeTypes ==
  ASSUME Typed, StateAnswers \/ KinematicsAnswers \/ EnvironmentTakes \/ ThermalTakes \/ Forward
  PROVE  Typed'
<1>1. CASE StateAnswers
  <2>1. state.st \in {"Ready", "Executing"}
    BY DEF Typed, LinkTypeOK, TypeOK
  <2>2. reply' \in Seq(Answer) /\ Len(reply') <= 1
    BY <1>1, <2>1, AnswerIs, OneAnswer DEF StateAnswers, Answers
  <2> QED BY <1>1, <2>2, HandlerTypes DEF StateAnswers, Answers, Typed, LinkTypeOK
<1>2. CASE KinematicsAnswers
  <2>1. kin.cmd_id \in Ids /\ kin.elapsed \in 0..(Wrap - 1)
    BY DEF Typed, LinkTypeOK, TypeOK
  <2>2. reply' \in Seq(Answer) /\ Len(reply') <= 1
    BY <1>2, <2>1, AnswerIs, OneAnswer DEF KinematicsAnswers, Answers
  <2> QED BY <1>2, <2>2, HandlerTypes DEF KinematicsAnswers, Answers, Typed, LinkTypeOK
<1>3. CASE EnvironmentTakes
  <2> DEFINE d == Head(rx.datagram).body
  <2>1. d \in EnvironmentData /\ d.region \in Nat
    BY <1>3, HandlesTypes, LinkAssumption DEF EnvironmentTakes, LinkAssumption
  <2>2. reply' \in Seq(Answer) /\ Len(reply') <= 1
    BY <1>3, <2>1, AnswerIs, OneAnswer DEF EnvironmentTakes
  <2>3. DOMAIN cache' = DOMAIN cache \cup {d.region}
    BY <1>3 DEF EnvironmentTakes, Remembered
  <2>4. DOMAIN cache' \subseteq { e.region : e \in EnvironmentData }
    BY <2>1, <2>3 DEF Typed, LinkTypeOK
  <2> QED BY <1>3, <2>2, <2>4, HandlerTypes DEF EnvironmentTakes, Typed, LinkTypeOK
<1>4. CASE ThermalTakes
  <2>1. Head(rx.datagram).body \in EnvironmentData
    BY <1>4, HandlesTypes DEF ThermalTakes
  <2>2. ambient' \in Nat
    BY <1>4, <2>1, LinkAssumption DEF ThermalTakes, LinkAssumption
  <2> QED BY <1>4, <2>2, HandlerTypes DEF ThermalTakes, Typed, LinkTypeOK
<1>5. CASE Forward
  <2>1. reply \in Seq(Answer) /\ reply # <<>> /\ toClient \in Seq(Answer) /\ Len(toClient) <= Buffer
    BY <1>5 DEF Forward, Typed, LinkTypeOK
  <2>2. Head(reply) \in Answer
    BY <2>1, TailIs
  <2>3. toClient' \in Seq(Answer) /\ Len(toClient') <= Buffer
    BY <1>5, <2>1, <2>2, ArrivedIs DEF Forward, Forwarded
  <2>4. reply' = <<>> /\ UNCHANGED <<vars, toApp, peer, rx, cache, ambient, client, kept, knows, strays>>
    BY <1>5 DEF Forward
  <2>5. TypeOK' /\ (Free("rx") => Free("rx")')
    BY <2>4, StepTypes DEF Typed, LinkTypeOK, Free, vars
  <2>6. LinkTypeOK'
    BY <2>3, <2>4, <2>5 DEF Typed, LinkTypeOK
  <2>7. Shaped'
    BY <2>4 DEF Typed, Shaped
  <2> QED BY <2>6, <2>7 DEF Typed
<1> QED BY <1>1, <1>2, <1>3, <1>4, <1>5
-----------------------------------------------------------------------------
(* The fixtures.                                                           *)

\* A step of the test: it may send one datagram, take answers it has received, and go on.
LEMMA FixtureTypes ==
  ASSUME Typed, UNCHANGED <<vars, peer, rx, reply, cache, ambient>>,
         toApp' \in Seq(Requests), Len(toApp') <= Buffer,
         toClient' \in Seq(Answer), Len(toClient') <= Buffer, kept' \in Seq(Answer),
         client' \in [goal : Goals, pc : {"send", "recv"}, cmd : RxCommands \cup {NoCommand},
                      env : {<<>>} \cup { <<d>> : d \in EnvironmentData }, sent : SUBSET RxCommands],
         client'.goal = "ack" => client'.env # <<>>
  PROVE  Typed'
<1>1. TypeOK' /\ (Free("rx") => Free("rx")')
  BY StepTypes DEF Typed, LinkTypeOK, Free, vars
<1>2. LinkTypeOK'
  BY <1>1 DEF Typed, LinkTypeOK, Shaped, Goals
<1>3. Shaped'
  BY DEF Typed, Shaped
<1> QED BY <1>2, <1>3 DEF Typed

LEMMA SendsTypes ==
  ASSUME Typed, NEW id, NEW body, Datagram("test", id, body) \in Requests, Sends(id, body)
  PROVE  toApp' \in Seq(Requests) /\ Len(toApp') <= Buffer
BY ArrivedIs DEF Typed, LinkTypeOK, Sends

\* The names the tables of the fixtures use.
LEMMA Tables ==
  /\ DOMAIN Request = {"connect", "accept", "start", "complete"}
  /\ DOMAIN Expected = {"connect", "accept", "start", "complete", "ack"}
  /\ \A g \in DOMAIN Request : Request[g] \in {"StateRequest", "KinematicsRequest"}
  /\ \A g \in DOMAIN Request : Follows[g] \subseteq {"free", "start", "complete"}
  /\ "register" \in Goals /\ "free" \in Goals /\ "failed" \in Goals /\ DOMAIN Expected \subseteq Goals
BY DEF Request, Expected, Follows, Goals

\* What a fixture keeps of itself when it has looked at an answer.
LEMMA ExaminesIs ==
  ASSUME Typed, Receiving, NEW m, Examines(m)
  PROVE  /\ client'.goal \in Goals \ {"register"} /\ client'.pc \in {"send", "recv"}
         /\ client'.goal = "ack" => client.goal = "ack"
         /\ client' = [client EXCEPT !.goal = client'.goal, !.pc = client'.pc]
<1>1. client \in [goal : Goals, pc : {"send", "recv"}, cmd : RxCommands \cup {NoCommand},
                  env : {<<>>} \cup { <<d>> : d \in EnvironmentData }, sent : SUBSET RxCommands]
  BY DEF Typed, Shaped
<1>2. client.goal \in {"connect", "accept", "start", "complete", "ack"}
  BY Tables DEF Receiving
<1>3. \/ \E g \in {"free", "start", "complete"} : client' = [client EXCEPT !.goal = g, !.pc = "send"]
      \/ \E g \in {"free", "failed"} : client' = [client EXCEPT !.goal = g]
      \/ client' = [client EXCEPT !.pc = "send"]
  BY <1>2, Tables DEF Examines, Fails
<1>4. \A g \in {"free", "failed", "start", "complete"} : g \in Goals /\ g # "register" /\ g # "ack"
  BY DEF Goals, Expected
<1>5. client.goal \in Goals /\ client.goal # "register"
  BY <1>1, <1>2
<1> DEFINE answered(c) == [client EXCEPT !.goal = c.goal, !.pc = c.pc]
<1>6. ASSUME NEW g \in {"free", "start", "complete"}, client' = [client EXCEPT !.goal = g, !.pc = "send"]
      PROVE  client'.goal = g /\ client'.pc = "send" /\ client' = answered(client')
  BY <1>1, <1>6
<1>7. ASSUME NEW g \in {"free", "failed"}, client' = [client EXCEPT !.goal = g]
      PROVE  client'.goal = g /\ client'.pc = client.pc /\ client' = answered(client')
  BY <1>1, <1>7
<1>8. ASSUME client' = [client EXCEPT !.pc = "send"]
      PROVE  client'.goal = client.goal /\ client'.pc = "send" /\ client' = answered(client')
  BY <1>1, <1>8
<1>9. client.pc \in {"send", "recv"}
  BY <1>1
<1> HIDE DEF answered
<1>10. /\ client'.goal \in Goals /\ client'.goal # "register" /\ client'.pc \in {"send", "recv"}
       /\ client'.goal = "ack" => client.goal = "ack"
       /\ client' = answered(client')
  BY <1>3, <1>4, <1>5, <1>6, <1>7, <1>8, <1>9
<1> QED BY <1>10 DEF answered

LEMMA WaitingIs ==
  ASSUME Typed, Waiting # {}
  PROVE  LET i == CHOOSE k \in Waiting : \A j \in Waiting : k <= j
         IN  i \in DOMAIN kept /\ kept[i] \in Range(kept) /\ Wanted(kept[i])
                /\ RemoveAt(kept, i) \in Seq(Answer) /\ Range(RemoveAt(kept, i)) \subseteq Range(kept)
<1> DEFINE P(k) == \A j \in Waiting : k <= j
           i == CHOOSE k \in Waiting : P(k)
<1>1. Waiting \subseteq 1..Len(kept) /\ kept \in Seq(Answer) /\ DOMAIN kept = 1..Len(kept)
  BY DEF Waiting, Typed, LinkTypeOK
<1>2. \E k \in Waiting : P(k)
  <2>1. Waiting \subseteq Nat
    BY <1>1
  <2>2. PICK k \in Waiting : \A j \in Waiting : <<j, k>> \notin OpToRel(<, Nat)
    BY <2>1, WFMin, NatLessThanWellFounded
  <2>3. \A j \in Waiting : ~ (j < k)
    BY <2>1, <2>2 DEF OpToRel
  <2> QED BY <2>1, <2>3
<1>3. i \in Waiting
  BY <1>2
<1> QED BY <1>1, <1>3, RemoveAtIs DEF Waiting, Range
\* The test's own steps.
Fixtures ==
    \/ Register \/ Poll \/ GiveUp \/ TakeKept \/ RecvMsg \/ Timeout \/ AwaitCompletion
    \/ (\E c \in RxCommands : Dispatch(c)) \/ (\E d \in EnvironmentData : SetEnvironment(d))

LEMMA FixturesTypes == ASSUME Typed, Fixtures PROVE Typed'
<1> DEFINE C == [goal : Goals, pc : {"send", "recv"}, cmd : RxCommands \cup {NoCommand},
                 env : {<<>>} \cup { <<d>> : d \in EnvironmentData }, sent : SUBSET RxCommands]
<1>0. /\ client \in C /\ toApp \in Seq(Requests) /\ Len(toApp) <= Buffer
      /\ toClient \in Seq(Answer) /\ Len(toClient) <= Buffer /\ kept \in Seq(Answer)
      /\ Buffer \in Nat
  BY LinkAssumption DEF Typed, LinkTypeOK, Shaped, LinkAssumption
<1>1. CASE Register
  <2>1. toApp' \in Seq(Requests) /\ Len(toApp') <= Buffer
    BY <1>1, DatagramIs, SendsTypes DEF Register
  <2>2. client' \in C /\ client'.goal # "ack"
    BY <1>0, <1>1, Tables DEF Register
  <2> QED BY <1>0, <1>1, <2>1, <2>2, FixtureTypes DEF Register
<1>2. CASE Poll
  <2>1. Request[client.goal] \in {"StateRequest", "KinematicsRequest"}
    BY <1>2, Tables DEF Poll, Polling
  <2>2. toApp' \in Seq(Requests) /\ Len(toApp') <= Buffer
    BY <1>2, <2>1, DatagramIs, SendsTypes DEF Poll
  <2>3. client' \in C /\ client'.goal = client.goal /\ client.goal # "ack"
    BY <1>0, <1>2, Tables DEF Poll, Polling
  <2>4. toClient' \in Seq(Answer) /\ Len(toClient') <= Buffer /\ kept' \in Seq(Answer)
    <3>1. Drain /\ <<>> \in Seq(Answer) /\ Len(<<>>) <= Buffer
      BY <1>0, <1>2 DEF Poll
    <3> QED BY <1>0, <3>1 DEF Drain
  <2> QED BY <1>2, <2>2, <2>3, <2>4, FixtureTypes DEF Poll
<1>3. CASE GiveUp
  <2>1. client' \in C /\ client'.goal # "ack"
    BY <1>0, <1>3, Tables DEF GiveUp, Fails
  <2> QED BY <1>0, <1>3, <2>1, FixtureTypes DEF GiveUp
<1>4. ASSUME NEW m, Receiving, Examines(m)
      PROVE  client' \in C /\ (client'.goal = "ack" => client'.env # <<>>)
  <2>1. /\ client'.goal \in Goals /\ client'.pc \in {"send", "recv"}
        /\ client'.goal = "ack" => client.goal = "ack"
        /\ client' = [client EXCEPT !.goal = client'.goal, !.pc = client'.pc]
    BY <1>4, ExaminesIs
  <2>2. client' \in C /\ client'.env = client.env
    BY <1>0, <2>1
  <2> QED BY <2>1, <2>2 DEF Typed, Shaped
<1>5. CASE TakeKept
  <2> DEFINE i == CHOOSE k \in Waiting : \A j \in Waiting : k <= j
  <2>1. Receiving /\ Waiting # {} /\ Examines(kept[i]) /\ kept' = RemoveAt(kept, i)
    BY <1>5 DEF TakeKept
  <2>2. kept' \in Seq(Answer)
    BY <2>1, WaitingIs
  <2>3. client' \in C /\ (client'.goal = "ack" => client'.env # <<>>)
    BY <1>4, <2>1
  <2> QED BY <1>0, <1>5, <2>2, <2>3, FixtureTypes DEF TakeKept
<1>6. CASE RecvMsg
  <2> DEFINE m == Head(toClient)
  <2>1. toClient # <<>> /\ toClient' = Tail(toClient) /\ Receiving
    BY <1>6 DEF RecvMsg
  <2>2. m \in Answer /\ toClient' \in Seq(Answer) /\ Len(toClient') <= Buffer
    BY <1>0, <2>1, TailIs
  <2>3. CASE Wanted(m)
    <3>1. Examines(m) /\ UNCHANGED kept
      BY <1>6, <2>3 DEF RecvMsg
    <3>2. client' \in C /\ (client'.goal = "ack" => client'.env # <<>>)
      BY <1>4, <2>1, <3>1
    <3> QED BY <1>0, <1>6, <2>2, <3>1, <3>2, FixtureTypes DEF RecvMsg
  <2>4. CASE ~ Wanted(m)
    <3>1. kept' = Append(kept, m) /\ UNCHANGED client
      BY <1>6, <2>4 DEF RecvMsg
    <3>2. kept' \in Seq(Answer)
      BY <1>0, <2>2, <3>1
    <3>3. client.goal = "ack" => client.env # <<>>
      BY DEF Typed, Shaped
    <3> QED BY <1>0, <1>6, <2>2, <3>1, <3>2, <3>3, FixtureTypes DEF RecvMsg
  <2> QED BY <2>3, <2>4
<1>7. CASE Timeout
  <2>1. client' \in C /\ client'.goal # "ack"
    BY <1>0, <1>7, Tables DEF Timeout, Fails
  <2> QED BY <1>0, <1>7, <2>1, FixtureTypes DEF Timeout
<1>8. CASE AwaitCompletion
  <2>1. client' \in C /\ client'.goal # "ack"
    BY <1>0, <1>8, Tables DEF AwaitCompletion
  <2> QED BY <1>0, <1>8, <2>1, FixtureTypes DEF AwaitCompletion
<1>9. ASSUME NEW c \in RxCommands, Dispatch(c) PROVE Typed'
  <2>1. toApp' \in Seq(Requests) /\ Len(toApp') <= Buffer
    BY <1>9, DatagramIs, SendsTypes DEF Dispatch
  <2>2. client' \in C /\ client'.goal # "ack"
    <3>1. PICK next \in {"free", "accept"} :
              client' = [client EXCEPT !.goal = next, !.pc = "send", !.cmd = c, !.sent = client.sent \cup {c}]
      BY <1>9 DEF Dispatch
    <3>2. next \in Goals /\ next # "ack" /\ client.sent \cup {c} \in SUBSET RxCommands
      BY <1>0, Tables
    <3> QED BY <1>0, <3>1, <3>2
  <2> QED BY <1>0, <1>9, <2>1, <2>2, FixtureTypes DEF Dispatch
<1>10. ASSUME NEW d \in EnvironmentData, SetEnvironment(d) PROVE Typed'
  <2>1. toApp' \in Seq(Requests) /\ Len(toApp') <= Buffer
    BY <1>10, DatagramIs, SendsTypes DEF SetEnvironment
  <2>2. client' \in C /\ client'.env # <<>>
    BY <1>0, <1>10, Tables DEF SetEnvironment
  <2> QED BY <1>0, <1>10, <2>1, <2>2, FixtureTypes DEF SetEnvironment
<1> QED BY <1>1, <1>2, <1>3, <1>5, <1>6, <1>7, <1>8, <1>9, <1>10 DEF Fixtures

LEMMA StrayTypes == ASSUME Typed, Stray PROVE Typed'
<1>1. toApp' \in Seq(Requests) /\ Len(toApp') <= Buffer
  BY DatagramIs, ArrivedIs DEF Stray, Typed, LinkTypeOK
<1>2. TypeOK' /\ (Free("rx") => Free("rx")')
  BY StepTypes DEF Stray, Typed, LinkTypeOK, Free, vars
<1>3. LinkTypeOK'
  BY <1>1, <1>2 DEF Stray, Typed, LinkTypeOK
<1>4. Shaped'
  BY DEF Stray, Typed, Shaped
<1> QED BY <1>3, <1>4 DEF Typed

LEMMA SimulatorTypes == ASSUME Typed, Simulator PROVE Typed'
<1>1. Next /\ UNCHANGED link /\ (Free("rx") => Free("rx")')
  BY SimulatorSteps DEF Typed, LinkTypeOK
<1>2. TypeOK'
  BY <1>1, StepTypes DEF Typed, LinkTypeOK
<1>3. LinkTypeOK'
  BY <1>1, <1>2 DEF link, Typed, LinkTypeOK
<1>4. Shaped'
  BY <1>1 DEF link, Typed, Shaped
<1> QED BY <1>3, <1>4 DEF Typed

\* What every step is.
LEMMA LinkCases ==
  ASSUME [LinkNext]_linkVars
  PROVE  \/ Recvfrom \/ StateAnswers \/ KinematicsAnswers \/ EnvironmentTakes \/ ThermalTakes \/ Forward
         \/ Stray \/ Fixtures \/ Simulator \/ UNCHANGED linkVars
BY DEF LinkNext, Bridge, Waits, Test, Over, Fixtures

LEMMA LinkStepTypes == ASSUME Typed, [LinkNext]_linkVars PROVE Typed'
<1>1. CASE UNCHANGED linkVars
  <2>1. UNCHANGED <<vars, toApp, toClient, peer, rx, reply, cache, ambient, client, kept>>
    BY <1>1 DEF linkVars, link
  <2> QED BY <2>1, FixtureTypes DEF Typed, LinkTypeOK, Shaped
<1> QED BY <1>1, LinkCases, RecvfromTypes, BridgeTypes, StrayTypes, FixturesTypes, SimulatorTypes

\* LinkTypesHold: the buffers hold no more than they can, the receiver runs the handlers of a
\* datagram only for a datagram it has and while its thread is in none of the motor's, and
\* only answers of the three kinds reach the test.
THEOREM LinkTypesHold == LinkSpec => []LinkTypeOK
<1>1. LinkInit => Typed
  BY LinkInitTypes
<1>2. Typed /\ [LinkNext]_linkVars => Typed'
  BY LinkStepTypes
<1>3. Typed => LinkTypeOK
  BY DEF Typed
<1> QED BY <1>1, <1>2, <1>3, PTL DEF LinkSpec

LEMMA LinkStepsVehicle == ASSUME Typed, [LinkNext]_linkVars PROVE [Next]_vars
<1>1. CASE Recvfrom
  BY <1>1, ReceiveType
<1>2. CASE Simulator
  BY <1>2, SimulatorSteps DEF Typed, LinkTypeOK
<1>3. CASE ~ Recvfrom /\ ~ Simulator
  BY <1>3, LinkCases
     DEF StateAnswers, KinematicsAnswers, Answers, EnvironmentTakes, ThermalTakes, Forward, Stray,
         Fixtures, Register, Poll, GiveUp, TakeKept, RecvMsg, Timeout, AwaitCompletion, Dispatch,
         SetEnvironment, linkVars
<1> QED BY <1>1, <1>2, <1>3

\* LinkIsVehicle: whatever the test and other clients send and lose, the program behind the
\* bridge behaves as Vehicle says, so that all that is proved of Vehicle holds here too.
THEOREM LinkIsVehicle == LinkSpec => Spec
<1>1. LinkInit => Typed /\ Init
  BY LinkInitTypes DEF LinkInit
<1>2. Typed /\ [LinkNext]_linkVars => Typed' /\ [Next]_vars
  BY LinkStepTypes, LinkStepsVehicle
<1> QED BY <1>1, <1>2, PTL DEF LinkSpec, Spec
-----------------------------------------------------------------------------
(* What an acceptance shows.  The id of the last sequence is in no answer  *)
(* and in no service before the motor has taken that sequence; and then no *)
(* other is left that the motor could take after it.                       *)

\* The answers the test may still look at.
Answered == Range(reply) \cup Range(toClient) \cup Range(kept)

\* An id that some service or some answer has; a report in progress has the motor's.
Shows(id) ==
    \/ id \in {motor.cmd.cmd_id, state.cmd_id, tick.cmd_id, kin.cmd_id}
    \/ \E m \in Answered : m.id = "KinematicsData" /\ m.cmd_id = id

IsSequence(d) == d.id = "MotorSequence"

\* Sequences on their way have been sent, and so has every id that shows.
Known ==
    /\ \A d \in Range(toApp) : IsSequence(d) => d.body \in client.sent
    /\ \A c \in Range(pending["rx"]) : c \in client.sent
    /\ pending["clock"] = <<>>
    /\ \A id \in Ids : Shows(id) => id = 0 \/ \E c \in client.sent : id = c.cmd_id
    /\ client.cmd = NoCommand => client.sent = {}
    /\ client.cmd # NoCommand => client.cmd \in client.sent

Taken == motor.cmd = Normalised(client.cmd)

\* The last sequence sent is behind all others, and once its id shows the motor has it.
LastSent ==
    /\ \A i, j \in 1..Len(toApp) :
           i < j /\ IsSequence(toApp[i]) /\ IsSequence(toApp[j]) => toApp[i].body # client.cmd
    /\ client.cmd \in Range(pending["rx"]) => \A d \in Range(toApp) : ~IsSequence(d)
    /\ Shows(client.cmd.cmd_id) =>
           Taken /\ pending["rx"] = <<>> /\ \A d \in Range(toApp) : ~IsSequence(d)

\* AcceptedWasTaken, and what it rests on.
Accepted == Known /\ LastSent /\ ("taken" \in knows => Taken)

LEMMA NormalisedId ==
  /\ \A c : Normalised(c).cmd_id = c.cmd_id
  /\ Normalised(NoCommand) = NoCommand
<1>1. \A c : Normalised(c).cmd_id = c.cmd_id
  BY DEF Normalised
<1>2. NoCommand.num_steps = 0 /\ kMaxSubCmds \in Nat
  BY VehicleAssumption DEF NoCommand, VehicleAssumption
<1>3. Least(NoCommand.num_steps, kMaxSubCmds) = 0
  BY <1>2 DEF Least
<1>4. \A i \in 1..kMaxSubCmds :
          [rpm |-> IF i <= 0 THEN Clamp(NoCommand.steps[i].rpm) ELSE NoCommand.steps[i].rpm,
           dur |-> NoCommand.steps[i].dur] = NoStep
  BY <1>2 DEF NoCommand, NoStep
<1>5. Normalised(NoCommand) = [cmd_id |-> 0, num_steps |-> 0, steps |-> [i \in 1..kMaxSubCmds |->
          [rpm |-> IF i <= 0 THEN Clamp(NoCommand.steps[i].rpm) ELSE NoCommand.steps[i].rpm,
           dur |-> NoCommand.steps[i].dur]]]
  BY <1>3 DEF Normalised, NoCommand
<1>6. [i \in 1..kMaxSubCmds |->
          [rpm |-> IF i <= 0 THEN Clamp(NoCommand.steps[i].rpm) ELSE NoCommand.steps[i].rpm,
           dur |-> NoCommand.steps[i].dur]] = [i \in 1..kMaxSubCmds |-> NoStep]
  BY <1>4
<1>7. NoCommand = [cmd_id |-> 0, num_steps |-> 0, steps |-> [i \in 1..kMaxSubCmds |-> NoStep]]
  BY DEF NoCommand
<1> QED BY <1>1, <1>5, <1>6, <1>7

\* What a step of Vehicle other than taking a sequence does to the ids.
LEMMA IdsSpread ==
  ASSUME TypeOK, Reporting, [Next]_vars, \A t \in Thread : ~ MotorSequence(t)
  PROVE  /\ motor'.cmd = motor.cmd
         /\ state'.cmd_id \in {state.cmd_id, motor.cmd.cmd_id}
         /\ tick'.cmd_id \in {tick.cmd_id, state.cmd_id}
         /\ kin'.cmd_id \in {kin.cmd_id, tick.cmd_id, motor.cmd.cmd_id}
<1>1. CASE PeerStep \/ (\E c \in AutoCommands : AutoCommand(c)) \/ UNCHANGED vars
  BY <1>1 DEF PeerStep, Receive, ReceiveAuto, AutoCommand, vars
<1>2. CASE MotorReturn \/ MotorIgnores \/ AutoTick \/ PowerTick
  <2>1. UNCHANGED tick \/ \E x : Takes(x)
    BY <1>2 DEF MotorReturn, MotorIgnores, AutoTick, PowerTick
  <2>2. tick'.cmd_id = tick.cmd_id
    BY <2>1, TakesKeeps
  <2> QED BY <1>2, <2>2 DEF MotorReturn, MotorIgnores, AutoTick, PowerTick
<1>3. CASE Sample
  BY <1>3 DEF Sample
<1>4. CASE KinematicsTick
  <2>1. tick'.cmd_id = tick.cmd_id /\ kin'.cmd_id = tick.cmd_id
    BY <1>4, TakesKeeps DEF KinematicsTick
  <2> QED BY <1>4, <2>1 DEF KinematicsTick
<1>5. CASE MotorCounts \/ MotorAdvances
  <2>1. tick'.cmd_id = tick.cmd_id
    BY <1>5, TakesKeeps DEF MotorCounts, MotorAdvances
  <2>2. motor'.cmd = motor.cmd /\ UNCHANGED <<state, kin>>
    BY <1>5 DEF MotorCounts, MotorAdvances, TypeOK, MotorOK
  <2> QED BY <2>1, <2>2
<1>6. CASE StateHears
  BY <1>6, HearsKeeps DEF StateHears
<1>7. CASE PowerHears
  BY <1>7 DEF PowerHears
<1>8. CASE KinematicsHears
  <2>1. report.status.cmd_id = motor.cmd.cmd_id
    BY <1>8, HearsKeeps DEF KinematicsHears
  <2>2. kin'.cmd_id \in {kin.cmd_id, report.status.cmd_id}
    BY <1>8 DEF KinematicsHears, TypeOK
  <2> QED BY <1>8, <2>1, <2>2 DEF KinematicsHears
<1> QED
  BY <1>1, <1>2, <1>3, <1>4, <1>5, <1>6, <1>7, <1>8
     DEF Next, ClockStep, MotorTick, ReportStep, Thread

\* What t has under these ids it has from s, in the same order.
Carries(s, t, ids) ==
    \E k \in {0, 1} : \A i \in 1..Len(t) : t[i].id \in ids => i + k \in 1..Len(s) /\ t[i] = s[i + k]

LEMMA CarriesMost ==
  ASSUME NEW S, NEW s \in Seq(S), NEW t, NEW d \in S, NEW ids, Len(s) <= Buffer,
         \/ t = s
         \/ t = <<>>
         \/ s # <<>> /\ t = Tail(s)
         \/ d.id \notin ids /\ t = Arrived(s, d)
  PROVE  Carries(s, t, ids)
<1>1. Len(s) \in Nat
  OBVIOUS
<1>2. CASE t = s
  <2>1. \A i \in 1..Len(t) : i + 0 = i
    BY <1>1, <1>2
  <2> QED BY <1>2, <2>1 DEF Carries
<1>3. CASE t = <<>>
  BY <1>3 DEF Carries
<1>4. CASE s # <<>> /\ t = Tail(s)
  <2>1. \A i \in 1..Len(t) : i + 1 \in 1..Len(s) /\ t[i] = s[i + 1]
    BY <1>4, TailIs
  <2> QED BY <2>1 DEF Carries
<1>5. CASE d.id \notin ids /\ t = Arrived(s, d)
  <2>1. \A i \in 1..Len(t) : (i \in 1..Len(s) /\ t[i] = s[i]) \/ t[i] = d
    BY <1>5, ArrivedIs
  <2>2. \A i \in 1..Len(s) : i + 0 = i
    BY <1>1
  <2> QED BY <1>5, <2>1, <2>2 DEF Carries
<1> QED BY <1>2, <1>3, <1>4, <1>5

LEMMA CarriesRange ==
  ASSUME NEW S, NEW s \in Seq(S), NEW t \in Seq(S), NEW ids, Carries(s, t, ids)
  PROVE  \A d \in Range(t) : d.id \in ids => d \in Range(s)
<1> SUFFICES ASSUME NEW i \in 1..Len(t), t[i].id \in ids PROVE t[i] \in Range(s)
  BY DEF Range
<1>1. PICK k \in 1..Len(s) : t[i] = s[k]
  BY DEF Carries
<1> QED BY <1>1 DEF Range

\* No sequence is put into the buffer of the bridge.
NoneSent == Carries(toApp, toApp', {"MotorSequence"})

LEMMA NoneSentByOthers ==
  ASSUME Typed, NEW d \in Requests,
         \/ toApp' = toApp
         \/ toApp # <<>> /\ toApp' = Tail(toApp)
         \/ ~ IsSequence(d) /\ toApp' = Arrived(toApp, d)
  PROVE  NoneSent
<1>1. toApp \in Seq(Requests) /\ Len(toApp) <= Buffer
  BY DEF Typed, LinkTypeOK
<1>2. d.id \in {"MotorSequence"} <=> IsSequence(d)
  BY DEF IsSequence
<1> QED BY <1>1, <1>2, CarriesMost DEF NoneSent

\* A step that sends no sequence and in which the motor takes none.
LEMMA AcceptedKept ==
  ASSUME Typed, Typed', Accepted, NoneSent,
         UNCHANGED pending, client'.cmd = client.cmd, client'.sent = client.sent,
         motor'.cmd = motor.cmd,
         \A id \in Ids : Shows(id)' => Shows(id),
         "taken" \in knows' => "taken" \in knows \/ Shows(client.cmd.cmd_id)
  PROVE  Accepted'
<1>1. toApp \in Seq(Requests) /\ toApp' \in Seq(Requests)
  BY DEF Typed, LinkTypeOK
<1>2. \A d \in Range(toApp') : IsSequence(d) => d \in Range(toApp)
  BY <1>1, CarriesRange DEF NoneSent, IsSequence
<1>3. client.cmd.cmd_id \in Ids
  <2>1. client.cmd \in RxCommands \cup {NoCommand}
    BY DEF Typed, Shaped
  <2> QED BY <2>1 DEF Ids, Command, NoCommand
<1>4. Known'
  BY <1>2 DEF Accepted, Known
<1>5. LastSent'
  <2>1. ASSUME NEW i \in 1..Len(toApp'), NEW j \in 1..Len(toApp'), i < j,
               IsSequence(toApp'[i]), IsSequence(toApp'[j])
        PROVE  toApp'[i].body # client'.cmd
    <3>1. PICK k \in {0, 1} : /\ i + k \in 1..Len(toApp) /\ toApp'[i] = toApp[i + k]
                              /\ j + k \in 1..Len(toApp) /\ toApp'[j] = toApp[j + k]
      BY <2>1 DEF NoneSent, Carries, IsSequence
    <3>2. i + k < j + k
      BY <2>1
    <3> QED BY <2>1, <3>1, <3>2 DEF Accepted, LastSent
  <2>2. client'.cmd \in Range(pending'["rx"]) => \A d \in Range(toApp') : ~IsSequence(d)
    BY <1>2 DEF Accepted, LastSent
  <2>3. Shows(client.cmd.cmd_id)' =>
           Taken' /\ pending'["rx"] = <<>> /\ \A d \in Range(toApp') : ~IsSequence(d)
    BY <1>2, <1>3 DEF Accepted, LastSent, Taken
  <2> QED BY <2>1, <2>2, <2>3 DEF LastSent
<1>6. "taken" \in knows' => Taken'
  BY DEF Accepted, LastSent, Taken
<1> QED BY <1>4, <1>5, <1>6 DEF Accepted
\* Who looks at an answer learns what its fixture is there for.
LEMMA ExaminesKnows ==
  ASSUME NEW m, Examines(m)
  PROVE  \/ knows' = knows
         \/ client.goal = "ack" /\ knows' = knows \cup {"acked"}
         \/ client.goal # "ack" /\ Satisfies(m) /\ knows' = knows \cup {Learns[client.goal]}
BY Zenon DEF Examines, Fails

\* An answer that shows that time has passed under the id of the last sequence.
Shown(k) == k.cmd_id = client.cmd.cmd_id /\ k.elapsed > 0

SaysReady(m) == m.id = "StateData" /\ m.st = "Ready"

LEMMA LearnsFrom ==
  ASSUME Typed, Receiving, NEW m, Wanted(m), Examines(m)
  PROVE  /\ "taken" \in knows' /\ "taken" \notin knows =>
                client.goal = "accept" /\ m.id = "KinematicsData" /\ m.cmd_id = client.cmd.cmd_id
         /\ "moving" \in knows' /\ "moving" \notin knows =>
                client.goal = "start" /\ m.id = "KinematicsData" /\ Shown(m)
         /\ "finished" \in knows' /\ "finished" \notin knows =>
                client.goal = "complete" /\ "moving" \in knows /\ SaysReady(m)
         /\ knows \subseteq knows'
         /\ client'.cmd = client.cmd /\ client'.sent = client.sent
<1>1. client.goal \in {"connect", "accept", "start", "complete", "ack"}
  BY Tables DEF Receiving
<1>2. /\ Learns["connect"] = "connected" /\ Learns["accept"] = "taken" /\ Learns["start"] = "moving"
      /\ Learns["complete"] = IF "moving" \in knows THEN "finished" ELSE "ready"
  BY DEF Learns
<1>3. knows \subseteq knows'
  BY ExaminesKnows
<1>4. ASSUME NEW k \in {"taken", "moving", "finished"}, k \in knows', k \notin knows
      PROVE  client.goal # "ack" /\ Satisfies(m) /\ Learns[client.goal] = k
  <2>1. k \notin knows \cup {"acked"}
    BY <1>4
  <2> QED BY <1>4, <2>1, ExaminesKnows
<1>5. "taken" \in knows' /\ "taken" \notin knows => client.goal = "accept" /\ Satisfies(m)
  BY <1>1, <1>2, <1>4
<1>6. "moving" \in knows' /\ "moving" \notin knows => client.goal = "start" /\ Satisfies(m)
  BY <1>1, <1>2, <1>4
<1>7. "finished" \in knows' /\ "finished" \notin knows =>
          client.goal = "complete" /\ Satisfies(m) /\ "moving" \in knows
  BY <1>1, <1>2, <1>4
<1>8. client'.cmd = client.cmd /\ client'.sent = client.sent
  <2>1. client' = [client EXCEPT !.goal = client'.goal, !.pc = client'.pc]
    BY ExaminesIs
  <2> QED BY <2>1 DEF Typed, Shaped
<1>9. client.goal = "accept" /\ Satisfies(m) => m.id = "KinematicsData" /\ m.cmd_id = client.cmd.cmd_id
  BY DEF Satisfies, Wanted, Expected
<1>10. client.goal = "start" /\ Satisfies(m) => m.id = "KinematicsData" /\ Shown(m)
  BY DEF Satisfies, Wanted, Expected, Shown
<1>11. client.goal = "complete" /\ Satisfies(m) => SaysReady(m)
  BY DEF Satisfies, Wanted, Expected, SaysReady
<1>12. "taken" \in knows' /\ "taken" \notin knows =>
           client.goal = "accept" /\ m.id = "KinematicsData" /\ m.cmd_id = client.cmd.cmd_id
  BY <1>5, <1>9
<1>13. "moving" \in knows' /\ "moving" \notin knows =>
           client.goal = "start" /\ m.id = "KinematicsData" /\ Shown(m)
  BY <1>6, <1>10
<1>14. "finished" \in knows' /\ "finished" \notin knows =>
           client.goal = "complete" /\ "moving" \in knows /\ SaysReady(m)
  BY <1>7, <1>11
<1> QED BY <1>3, <1>8, <1>12, <1>13, <1>14

\* A fixture other than dispatch_sequence forgets nothing of the sequence, and what it
\* learns it learns from an answer it has looked at.
LEMMA FixturesLearn ==
  ASSUME Typed, Fixtures, ~ \E c \in RxCommands : Dispatch(c)
  PROVE  /\ client'.cmd = client.cmd /\ client'.sent = client.sent
         /\ \/ knows' \in {knows, knows \ {"acked"}}
            \/ \E m \in Range(toClient) \cup Range(kept) : Receiving /\ Wanted(m) /\ Examines(m)
<1>1. CASE Register \/ Poll \/ GiveUp \/ Timeout \/ AwaitCompletion
               \/ \E d \in EnvironmentData : SetEnvironment(d)
  BY <1>1 DEF Typed, Shaped, Register, Poll, GiveUp, Timeout, AwaitCompletion, SetEnvironment, Fails
<1>2. CASE TakeKept
  <2> DEFINE i == CHOOSE k \in Waiting : \A j \in Waiting : k <= j
  <2>1. Receiving /\ Waiting # {} /\ Examines(kept[i])
    BY <1>2 DEF TakeKept
  <2>2. kept[i] \in Range(kept) /\ Wanted(kept[i])
    BY <2>1, WaitingIs
  <2> HIDE DEF i
  <2> QED BY <2>1, <2>2, LearnsFrom
<1>3. CASE RecvMsg
  <2>1. toClient \in Seq(Answer) /\ toClient # <<>> /\ Receiving
    BY <1>3 DEF RecvMsg, Typed, LinkTypeOK
  <2>2. Head(toClient) \in Range(toClient)
    BY <2>1, TailIs
  <2>3. (Wanted(Head(toClient)) /\ Examines(Head(toClient))) \/ UNCHANGED <<client, knows>>
    BY <1>3 DEF RecvMsg
  <2> QED BY <2>1, <2>2, <2>3, LearnsFrom
<1> QED BY <1>1, <1>2, <1>3 DEF Fixtures

\* No fixture makes up an answer.
LEMMA FixturesAnswers ==
  ASSUME Typed, Fixtures
  PROVE  Range(reply') = Range(reply) /\ Range(toClient') \cup Range(kept') \subseteq Range(toClient) \cup Range(kept)
<1>1. CASE Poll
  BY <1>1, RangeOfNone DEF Poll, Drain
<1>2. CASE TakeKept
  BY <1>2, WaitingIs DEF TakeKept
<1>3. CASE RecvMsg
  <2>1. toClient \in Seq(Answer) /\ toClient # <<>> /\ toClient' = Tail(toClient) /\ kept \in Seq(Answer)
    BY <1>3 DEF RecvMsg, Typed, LinkTypeOK
  <2>2. Head(toClient) \in Answer /\ Head(toClient) \in Range(toClient) /\ Range(toClient') \subseteq Range(toClient)
    BY <2>1, TailIs
  <2>3. kept' = kept \/ kept' = Append(kept, Head(toClient))
    BY <1>3 DEF RecvMsg
  <2>4. Range(kept') \subseteq Range(kept) \cup {Head(toClient)}
    <3>1. Range(Append(kept, Head(toClient))) = Range(kept) \cup {Head(toClient)}
      BY <2>1, <2>2, AppendIs
    <3> QED BY <2>3, <3>1
  <2> QED BY <1>3, <2>2, <2>4 DEF RecvMsg
<1>4. CASE ~ Poll /\ ~ TakeKept /\ ~ RecvMsg
  BY <1>4 DEF Fixtures, Register, GiveUp, Timeout, AwaitCompletion, Dispatch, SetEnvironment
<1> QED BY <1>1, <1>2, <1>3, <1>4 DEF Poll, TakeKept, RecvMsg

\* The bridge adds at most one answer, of what the services have.
LEMMA BridgeAnswers ==
  ASSUME Typed, StateAnswers \/ KinematicsAnswers \/ EnvironmentTakes \/ ThermalTakes \/ Forward
  PROVE  /\ \A m \in Answered' :
               \/ m \in Answered
               \/ m.id = "StateData" /\ m.st = state.st
               \/ m.id = "KinematicsData" /\ m.cmd_id = kin.cmd_id /\ m.elapsed = kin.elapsed
               \/ m.id = "EnvironmentAck"
         /\ UNCHANGED <<vars, toApp, client, kept, knows>>
<1>1. UNCHANGED <<vars, toApp, client, kept, knows>>
  BY DEF StateAnswers, KinematicsAnswers, Answers, EnvironmentTakes, ThermalTakes, Forward
<1>2. CASE StateAnswers \/ KinematicsAnswers \/ EnvironmentTakes
  <2>1. PICK m : /\ reply' = <<m>> /\ UNCHANGED <<toClient, kept>>
                 /\ \/ m.id = "StateData" /\ m.st = state.st
                    \/ m.id = "KinematicsData" /\ m.cmd_id = kin.cmd_id /\ m.elapsed = kin.elapsed
                    \/ m.id = "EnvironmentAck"
    BY <1>2 DEF StateAnswers, KinematicsAnswers, Answers, EnvironmentTakes
  <2> QED BY <1>1, <2>1, RangeOfOne DEF Answered
<1>3. CASE ThermalTakes
  BY <1>1, <1>3 DEF ThermalTakes, Answered
<1>4. CASE Forward
  <2>1. /\ reply \in Seq(Answer) /\ reply # <<>> /\ toClient \in Seq(Answer) /\ Len(toClient) <= Buffer
        /\ toClient' = Forwarded(Head(reply)) /\ reply' = <<>>
    BY <1>4 DEF Forward, Typed, LinkTypeOK
  <2>2. Head(reply) \in Answer /\ Head(reply) \in Range(reply)
    BY <2>1, TailIs
  <2>3. Range(toClient') \subseteq Range(toClient) \cup {Head(reply)}
    BY <2>1, <2>2, ArrivedIs DEF Forwarded
  <2> QED BY <1>1, <2>1, <2>2, <2>3, RangeOfNone DEF Answered
<1> QED BY <1>2, <1>3, <1>4

\* Nothing that the bridge or the fixtures do lets an id show that did not.
LEMMA ShowsKept ==
  ASSUME UNCHANGED vars,
         \A m \in Answered' : m \in Answered \/ (m.id = "KinematicsData" => m.cmd_id = kin.cmd_id)
  PROVE  \A id \in Ids : Shows(id)' => Shows(id)
BY DEF Shows, vars

LEMMA AcceptedBridge ==
  ASSUME Typed, Typed', Accepted,
         StateAnswers \/ KinematicsAnswers \/ EnvironmentTakes \/ ThermalTakes \/ Forward
  PROVE  Accepted'
<1>1. UNCHANGED <<vars, toApp, client, knows>>
  BY BridgeAnswers
<1>2. \A m \in Answered' : m \in Answered \/ (m.id = "KinematicsData" => m.cmd_id = kin.cmd_id)
  BY BridgeAnswers
<1>3. \A id \in Ids : Shows(id)' => Shows(id)
  BY <1>1, <1>2, ShowsKept
<1>4. NoneSent
  BY <1>1, NoneSentByOthers, DatagramIs
<1> QED BY <1>1, <1>3, <1>4, AcceptedKept DEF vars

LEMMA AcceptedStray ==
  ASSUME Typed, Typed', Accepted, Stray
  PROVE  Accepted'
<1>1. UNCHANGED <<vars, toClient, reply, kept, client, knows>>
  BY DEF Stray
<1>2. \A id \in Ids : Shows(id)' => Shows(id)
  BY <1>1, ShowsKept DEF Answered
<1>3. NoneSent
  <2> DEFINE d == Datagram("other", "none", <<>>)
  <2>1. d \in Requests /\ ~ IsSequence(d) /\ toApp' = Arrived(toApp, d)
    BY DatagramIs DEF Datagram, IsSequence, Stray
  <2> QED BY <2>1, NoneSentByOthers
<1> QED BY <1>1, <1>2, <1>3, AcceptedKept DEF vars

LEMMA AcceptedRecvfrom ==
  ASSUME OwnIds, Typed, Typed', Accepted, Recvfrom
  PROVE  Accepted'
<1> DEFINE d == Head(toApp)
<1>1. /\ toApp \in Seq(Requests) /\ toApp # <<>> /\ toApp' = Tail(toApp) /\ d \in Requests
      /\ UNCHANGED <<toClient, reply, kept, client, knows>>
  BY ReceiveType DEF Recvfrom, Typed, LinkTypeOK
<1>2. NoneSent
  BY <1>1, NoneSentByOthers
<1>3. CASE ~ IsSequence(d)
  <2>1. UNCHANGED vars
    BY <1>3 DEF Recvfrom, IsSequence
  <2>2. \A id \in Ids : Shows(id)' => Shows(id)
    BY <1>1, <2>1, ShowsKept DEF Answered
  <2> QED BY <1>1, <1>2, <2>1, <2>2, AcceptedKept DEF vars
<1>4. CASE IsSequence(d)
  <2>1. Receive(d.body) /\ d.body \in RxCommands
    BY <1>1, <1>4, RequestIs DEF Recvfrom, IsSequence
  <2>2. UNCHANGED <<motor, state, kin, tick>> /\ pending' = [pending EXCEPT !["rx"] = <<d.body>>]
    BY <2>1 DEF Receive, Issue
  <2>3. pending'["rx"] = <<d.body>> /\ pending'["clock"] = pending["clock"]
    BY <2>2 DEF Typed, LinkTypeOK, TypeOK, Thread
  <2>4. \A id : Shows(id)' = Shows(id)
    BY <1>1, <2>2 DEF Shows, Answered
  <2>5. /\ Len(toApp) \in Nat /\ 1 \in 1..Len(toApp) /\ d = toApp[1] /\ d \in Range(toApp)
        /\ \A i \in 1..Len(toApp') : i + 1 \in 1..Len(toApp) /\ toApp'[i] = toApp[i + 1]
        /\ Range(toApp') \subseteq Range(toApp) /\ toApp' \in Seq(Requests)
    BY <1>1, TailIs
  <2>6. Known'
    <3>1. d.body \in client.sent
      BY <1>4, <2>5 DEF Accepted, Known
    <3>2. \A e \in Range(toApp') : IsSequence(e) => e.body \in client'.sent
      BY <1>1, <2>5 DEF Accepted, Known
    <3>3. \A c \in Range(pending'["rx"]) : c \in client'.sent
      BY <1>1, <2>3, <3>1, RangeOfOne
    <3> QED BY <1>1, <2>3, <2>4, <3>2, <3>3 DEF Accepted, Known
  <2>7. LastSent'
    <3>1. ~ Shows(client.cmd.cmd_id)
      BY <1>4, <2>5 DEF Accepted, LastSent
    <3>2. ASSUME NEW i \in 1..Len(toApp'), NEW j \in 1..Len(toApp'), i < j,
                 IsSequence(toApp'[i]), IsSequence(toApp'[j])
          PROVE  toApp'[i].body # client.cmd
      <4>1. i + 1 < j + 1 /\ i + 1 \in 1..Len(toApp) /\ j + 1 \in 1..Len(toApp)
        BY <2>5, <3>2
      <4> QED BY <2>5, <3>2, <4>1 DEF Accepted, LastSent
    <3>3. ASSUME client.cmd = d.body, NEW i \in 1..Len(toApp') PROVE ~ IsSequence(toApp'[i])
      <4>1. 1 < i + 1 /\ i + 1 \in 1..Len(toApp) /\ toApp'[i] = toApp[i + 1]
        BY <2>5
      <4> QED BY <1>4, <2>5, <3>3, <4>1 DEF Accepted, LastSent
    <3>4. client.cmd \in Range(pending'["rx"]) => \A e \in Range(toApp') : ~IsSequence(e)
      BY <2>3, <2>5, <3>3, RangeOfOne DEF Range
    <3> QED BY <1>1, <2>4, <3>1, <3>2, <3>4 DEF LastSent
  <2> QED BY <1>1, <2>2, <2>6, <2>7 DEF Accepted, Taken
<1> QED BY <1>3, <1>4

\* The id of a sequence that has not been sent does not show.
LEMMA DispatchesNew ==
  ASSUME OwnIds, Typed, Accepted, NEW c \in RxCommands, Dispatch(c)
  PROVE  ~ Shows(c.cmd_id)
<1>1. c \notin client.sent /\ client.sent \subseteq RxCommands /\ c.cmd_id # 0 /\ c.cmd_id \in Ids
  BY DEF Dispatch, OwnIds, Typed, Shaped, Ids, Command
<1>2. SUFFICES ASSUME Shows(c.cmd_id) PROVE FALSE
  OBVIOUS
<1>3. PICK e \in client.sent : c.cmd_id = e.cmd_id
  BY <1>1, <1>2 DEF Accepted, Known
<1> QED BY <1>1, <1>3 DEF OwnIds

LEMMA AcceptedFixtures ==
  ASSUME OwnIds, Typed, Typed', Accepted, Fixtures
  PROVE  Accepted'
<1>1. UNCHANGED vars /\ \A id \in Ids : Shows(id)' => Shows(id)
  <2>1. UNCHANGED vars
    BY DEF Fixtures, Register, Poll, GiveUp, TakeKept, RecvMsg, Timeout, AwaitCompletion, Dispatch,
           SetEnvironment
  <2>2. \A m \in Answered' : m \in Answered
    BY FixturesAnswers DEF Answered
  <2> QED BY <2>1, <2>2, ShowsKept
<1>2. client \in [goal : Goals, pc : {"send", "recv"}, cmd : RxCommands \cup {NoCommand},
                  env : {<<>>} \cup { <<d>> : d \in EnvironmentData }, sent : SUBSET RxCommands]
  BY DEF Typed, Shaped
<1>3. ASSUME ~ \E c \in RxCommands : Dispatch(c)
      PROVE  /\ client'.cmd = client.cmd /\ client'.sent = client.sent
             /\ "taken" \in knows' => "taken" \in knows \/ Shows(client.cmd.cmd_id)
  <2>1. ASSUME NEW m \in Range(toClient) \cup Range(kept), Receiving, Wanted(m), Examines(m),
               "taken" \in knows', "taken" \notin knows
        PROVE  Shows(client.cmd.cmd_id)
    BY <2>1, LearnsFrom DEF Shows, Answered
  <2> QED BY <1>3, <2>1, FixturesLearn
<1>4. ASSUME NEW d \in Requests, ~ IsSequence(d), toApp' \in {toApp, Arrived(toApp, d)},
             ~ \E c \in RxCommands : Dispatch(c)
      PROVE  Accepted'
  <2>1. NoneSent
    BY <1>4, NoneSentByOthers
  <2> QED BY <1>1, <1>3, <1>4, <2>1, AcceptedKept DEF vars
<1>5. CASE Register
  <2> DEFINE d == Datagram("test", "none", <<>>)
  <2>1. d \in Requests /\ ~ IsSequence(d) /\ toApp' = Arrived(toApp, d)
    BY <1>5, DatagramIs DEF Register, Sends, Datagram, IsSequence
  <2>2. ~ \E c \in RxCommands : Dispatch(c)
    BY <1>5 DEF Register, Dispatch
  <2> QED BY <1>4, <2>1, <2>2
<1>6. CASE Poll
  <2> DEFINE d == Datagram("test", Request[client.goal], <<>>)
  <2>1. client.goal \in DOMAIN Request /\ toApp' = Arrived(toApp, d)
    BY <1>6 DEF Poll, Polling, Sends
  <2>2. d \in Requests /\ ~ IsSequence(d)
    BY <2>1, Tables, DatagramIs DEF Datagram, IsSequence
  <2>3. ~ \E c \in RxCommands : Dispatch(c)
    BY <2>1, Tables DEF Dispatch
  <2> QED BY <1>4, <2>1, <2>2, <2>3
<1>7. ASSUME NEW e \in EnvironmentData, SetEnvironment(e), ~ \E c \in RxCommands : Dispatch(c)
      PROVE  Accepted'
  <2> DEFINE d == Datagram("test", "EnvironmentData", e)
  <2>1. d \in Requests /\ ~ IsSequence(d) /\ toApp' = Arrived(toApp, d)
    BY <1>7, DatagramIs DEF SetEnvironment, Sends, Datagram, IsSequence
  <2> QED BY <1>4, <1>7, <2>1
<1>8. CASE (GiveUp \/ TakeKept \/ RecvMsg \/ Timeout \/ AwaitCompletion)
             /\ ~ \E c \in RxCommands : Dispatch(c)
  <2> DEFINE d == Datagram("other", "none", <<>>)
  <2>1. d \in Requests /\ ~ IsSequence(d) /\ toApp' = toApp
    BY <1>8, DatagramIs DEF GiveUp, TakeKept, RecvMsg, Timeout, AwaitCompletion, Datagram, IsSequence
  <2> QED BY <1>4, <1>8, <2>1
<1>9. ASSUME NEW c \in RxCommands, Dispatch(c) PROVE Accepted'
  <2> DEFINE d == Datagram("test", "MotorSequence", c)
  <2>1. /\ c \notin client.sent /\ toApp' = Arrived(toApp, d)
        /\ knows' = knows \cap {"connected", "acked"}
        /\ d \in Requests /\ d.body = c
    BY <1>9, DatagramIs DEF Dispatch, Sends, Datagram
  <2>2. client'.cmd = c /\ client'.sent = client.sent \cup {c} /\ c # NoCommand /\ c.cmd_id \in Ids
    BY <1>2, <1>9 DEF Dispatch, OwnIds, NoCommand, Ids, Command
  <2>3. ~ Shows(c.cmd_id)
    BY <1>9, DispatchesNew
  <2>4. /\ Range(toApp') \subseteq Range(toApp) \cup {d}
        /\ \A i \in 1..Len(toApp') :
              \/ i \in 1..Len(toApp) /\ toApp'[i] = toApp[i]
              \/ i = Len(toApp) + 1 /\ toApp'[i] = d
        /\ toApp \in Seq(Requests)
    <3>1. toApp \in Seq(Requests) /\ Len(toApp) <= Buffer
      BY DEF Typed, LinkTypeOK
    <3> HIDE DEF d
    <3> QED BY <2>1, <3>1, ArrivedIs
  <2>5. Known'
    BY <1>1, <2>1, <2>2, <2>4 DEF Accepted, Known, vars
  <2>6. LastSent'
    <3>1. ASSUME NEW i \in 1..Len(toApp'), NEW j \in 1..Len(toApp'), i < j,
                 IsSequence(toApp'[i]), IsSequence(toApp'[j])
          PROVE  toApp'[i].body # c
      <4>1. i \in 1..Len(toApp) /\ toApp'[i] = toApp[i]
        BY <2>4, <3>1
      <4>2. toApp[i] \in Range(toApp)
        BY <2>4, <4>1 DEF Range
      <4> QED BY <2>1, <3>1, <4>1, <4>2 DEF Accepted, Known
    <3>2. c \notin Range(pending'["rx"])
      BY <1>1, <2>1 DEF Accepted, Known, vars
    <3>3. ~ Shows(c.cmd_id)'
      BY <1>1, <2>2, <2>3
    <3> QED BY <2>2, <3>1, <3>2, <3>3 DEF LastSent
  <2> QED BY <2>1, <2>5, <2>6 DEF Accepted
<1> QED
  BY <1>5, <1>6, <1>7, <1>8, <1>9 DEF Fixtures

LEMMA AcceptedSimulator ==
  ASSUME OwnIds, Typed, Typed', Reporting, Accepted, Simulator
  PROVE  Accepted'
<1>1. Next /\ UNCHANGED link /\ TypeOK
  BY SimulatorSteps DEF Typed, LinkTypeOK
<1>2. UNCHANGED <<toApp, client, knows, Answered>>
  BY <1>1 DEF link, Answered
<1>3. CASE MotorSequence("rx")
  <2> DEFINE c == Head(pending["rx"])
  <2>1. /\ pending["rx"] # <<>> /\ pending["rx"] = <<c>> /\ c \in Command
        /\ motor'.cmd = Normalised(c) /\ UNCHANGED <<state, kin, tick>>
        /\ pending' = [pending EXCEPT !["rx"] = <<>>]
    BY <1>1, <1>3 DEF MotorSequence, TypeOK, Thread
  <2>2. pending'["rx"] = <<>> /\ pending'["clock"] = <<>>
    BY <1>1, <2>1 DEF TypeOK, Thread, Accepted, Known
  <2>3. c \in client.sent /\ c \in Range(pending["rx"])
    BY <2>1, RangeOfOne DEF Accepted, Known
  <2>4. \A id : Shows(id)' => Shows(id) \/ id = c.cmd_id
    BY <1>2, <2>1, NormalisedId DEF Shows
  <2>5. ~ Shows(client.cmd.cmd_id)
    BY <2>1 DEF Accepted, LastSent
  <2>6. client.cmd \in client.sent /\ client.sent \subseteq RxCommands
    BY <2>3 DEF Accepted, Known, Typed, Shaped
  <2>7. client.cmd.cmd_id = c.cmd_id => client.cmd = c
    BY <2>3, <2>6 DEF OwnIds
  <2>8. Known'
    BY <1>2, <2>2, <2>3, <2>4, RangeOfNone DEF Accepted, Known
  <2>9. LastSent'
    <3>1. Shows(client.cmd.cmd_id)' => client.cmd = c /\ Taken'
      BY <1>2, <2>1, <2>4, <2>5, <2>7 DEF Taken
    <3>2. client.cmd \notin Range(pending'["rx"])
      BY <2>2, RangeOfNone
    <3>3. \A d \in Range(toApp) : Shows(client.cmd.cmd_id)' => ~IsSequence(d)
      BY <2>3, <3>1 DEF Accepted, LastSent
    <3> QED BY <1>2, <2>2, <3>1, <3>2, <3>3 DEF Accepted, LastSent
  <2>10. "taken" \notin knows
    <3>1. Taken => Shows(client.cmd.cmd_id)
      BY NormalisedId DEF Taken, Shows
    <3> QED BY <2>5, <3>1 DEF Accepted
  <2> QED BY <1>2, <2>8, <2>9, <2>10 DEF Accepted
<1>4. CASE ~ MotorSequence("rx")
  <2>1. ~ MotorSequence("clock") /\ ~ \E d \in AutoCommands : AutoCommand(d)
    BY DEF MotorSequence, Accepted, Known, OwnIds
  <2>2. UNCHANGED pending
    BY <1>4, <2>1
       DEF Simulator, ClockStep, MotorTick, ReportStep, Sample, AutoTick, PowerTick, KinematicsTick,
           MotorIgnores, MotorCounts, MotorAdvances, StateHears, PowerHears, KinematicsHears, MotorReturn
  <2>3. /\ motor'.cmd = motor.cmd
        /\ state'.cmd_id \in {state.cmd_id, motor.cmd.cmd_id}
        /\ tick'.cmd_id \in {tick.cmd_id, state.cmd_id}
        /\ kin'.cmd_id \in {kin.cmd_id, tick.cmd_id, motor.cmd.cmd_id}
    BY <1>1, <1>4, <2>1, IdsSpread DEF Thread
  <2>4. \A id \in Ids : Shows(id)' => Shows(id)
    BY <1>2, <2>3 DEF Shows
  <2>5. NoneSent
    BY <1>2, NoneSentByOthers, DatagramIs
  <2> QED BY <1>2, <2>2, <2>3, <2>4, <2>5, AcceptedKept
<1> QED BY <1>3, <1>4

LEMMA AcceptedInit == OwnIds /\ LinkInit => Accepted
<1> SUFFICES ASSUME OwnIds, LinkInit PROVE Known /\ LastSent /\ "taken" \notin knows
  BY DEF Accepted
<1>1. /\ toApp = <<>> /\ pending["rx"] = <<>> /\ pending["clock"] = <<>> /\ reply = <<>>
      /\ toClient = <<>> /\ kept = <<>> /\ knows = {}
      /\ client.cmd = NoCommand /\ client.sent = {}
  BY DEF LinkInit, Init, Thread
<1>2. motor.cmd = NoCommand /\ state.cmd_id = 0 /\ tick.cmd_id = 0 /\ kin.cmd_id = 0
  BY DEF LinkInit, Init
<1>3. \A id : Shows(id) => id = 0
  <2>1. Answered = {}
    BY <1>1, RangeOfNone DEF Answered
  <2> QED BY <1>2, <2>1 DEF Shows, NoCommand
<1>4. Taken
  BY <1>1, <1>2, NormalisedId DEF Taken
<1>5. Range(toApp) = {} /\ Range(pending["rx"]) = {} /\ Len(toApp) = 0
  BY <1>1, RangeOfNone
<1> QED BY <1>1, <1>3, <1>4, <1>5 DEF Known, LastSent

\* The invariant behind AcceptedWasTaken.
AInv == Typed /\ Reporting /\ Accepted

LEMMA AInvKept == ASSUME OwnIds, AInv, [LinkNext]_linkVars PROVE AInv'
<1>1. Typed /\ Reporting /\ Accepted /\ Typed' /\ [Next]_vars
  BY LinkStepTypes, LinkStepsVehicle DEF AInv
<1>2. Reporting'
  BY <1>1, StepReports DEF Typed, LinkTypeOK
<1>3. CASE UNCHANGED linkVars
  <2>1. UNCHANGED <<vars, toApp, toClient, reply, kept, client, knows>>
    BY <1>3 DEF linkVars, link
  <2>2. \A id \in Ids : Shows(id)' => Shows(id)
    BY <2>1, ShowsKept DEF Answered
  <2>3. NoneSent
    BY <1>1, <2>1, NoneSentByOthers, DatagramIs
  <2>4. Accepted'
    BY <1>1, <2>1, <2>2, <2>3, AcceptedKept DEF vars
  <2> QED BY <1>1, <1>2, <2>4 DEF AInv
<1>4. CASE Recvfrom
  BY <1>1, <1>2, <1>4, AcceptedRecvfrom DEF AInv
<1>5. CASE StateAnswers \/ KinematicsAnswers \/ EnvironmentTakes \/ ThermalTakes \/ Forward
  BY <1>1, <1>2, <1>5, AcceptedBridge DEF AInv
<1>6. CASE Stray
  BY <1>1, <1>2, <1>6, AcceptedStray DEF AInv
<1>7. CASE Fixtures
  BY <1>1, <1>2, <1>7, AcceptedFixtures DEF AInv
<1>8. CASE Simulator
  BY <1>1, <1>2, <1>8, AcceptedSimulator DEF AInv
<1> QED BY <1>3, <1>4, <1>5, <1>6, <1>7, <1>8, LinkCases

\* AcceptanceMeansTaken (AcceptedWasTaken): if each sequence of the test has an id of its own,
\* a test that has seen its sequence accepted can rely on the motor having taken it and no
\* other since, whatever answers were lost, late or kept from an earlier fixture.
THEOREM AcceptanceMeansTaken == ASSUME OwnIds PROVE LinkSpec => []AcceptedWasTaken
<1>1. LinkInit => AInv
  BY LinkInitTypes, InitReports, AcceptedInit DEF AInv, LinkInit
<1>2. AInv /\ [LinkNext]_linkVars => AInv'
  BY AInvKept
<1>3. AInv => AcceptedWasTaken
  BY DEF AInv, Accepted, Taken, AcceptedWasTaken
<1> QED BY <1>1, <1>2, <1>3, PTL DEF LinkSpec
-----------------------------------------------------------------------------
(* What an acknowledgement shows.  A call of set_environment has one token *)
(* that passes from the test to the bridge and back: its datagram, the     *)
(* dispatch of it, the reply, the acknowledgement.                         *)

IsData(d) == d.id = "EnvironmentData"
IsAck(m) == m.id = "EnvironmentAck"

Sent == \E d \in Range(toApp) : IsData(d)
Arriving == rx.left = <<"Environment", "Thermal">>
Replied == \E m \in Range(reply) : IsAck(m)
Acked == \E m \in Range(toClient) : IsAck(m)

\* There is only one token, and none between two calls.
OneCall ==
    /\ \A m \in Range(kept) : ~IsAck(m)
    /\ client.goal \notin {"ack", "failed"} => ~Sent /\ ~Arriving /\ ~Replied /\ ~Acked
    /\ client.goal = "ack" => "acked" \notin knows
    /\ \A i, j \in 1..Len(toApp) : IsData(toApp[i]) /\ IsData(toApp[j]) => i = j
    /\ \A i, j \in 1..Len(toClient) : IsAck(toClient[i]) /\ IsAck(toClient[j]) => i = j
    /\ Sent => ~Arriving /\ ~Replied /\ ~Acked
    /\ Arriving => ~Replied /\ ~Acked
    /\ Replied => ~Acked

InCache(d) == d.region \in DOMAIN cache /\ cache[d.region] = d.temp

\* ThermalService is only told of what EnvironmentService has taken.
CachedFirst ==
    /\ rx.left \in {<<>>, <<"StateRequest">>, <<"KinematicsRequest">>,
                    <<"Environment", "Thermal">>, <<"Thermal">>}
    /\ rx.left = <<"Thermal">> => InCache(Head(rx.datagram).body)

\* The services work with d, or ThermalService is about to be told of it.
TakenOver(d) ==
    /\ InCache(d)
    /\ rx.left = <<"Thermal">> => Head(rx.datagram).body = d
    /\ ambient = d.temp \/ rx.left = <<"Thermal">>

TakesOver ==
    /\ OneCall
    /\ \A d \in Range(toApp) : IsData(d) => <<d.body>> = client.env
    /\ Arriving => <<Head(rx.datagram).body>> = client.env
    /\ Replied \/ Acked \/ "acked" \in knows => client.env # <<>> /\ TakenOver(Head(client.env))

\* What the dispatch of a datagram has left, one handler after the other.
LEMMA LeftIs ==
  /\ Head(<<"Environment", "Thermal">>) = "Environment" /\ Tail(<<"Environment", "Thermal">>) = <<"Thermal">>
  /\ Len(<<"Environment", "Thermal">>) = 2
  /\ \A h : Head(<<h>>) = h /\ Len(<<h>>) = 1 /\ <<h>> # <<>> /\ <<h>> # <<"Environment", "Thermal">>
OBVIOUS

LEMMA HandlesLeft ==
  ASSUME CachedFirst, rx.left # <<>>, NEW h, Handles(h)
  PROVE  /\ h = "Environment" => rx.left = <<"Environment", "Thermal">> /\ rx' = [rx EXCEPT !.left = <<"Thermal">>]
         /\ h # "Environment" => rx.left = <<h>> /\ rx' = [datagram |-> <<>>, left |-> <<>>]
<1>1. CASE rx.left = <<"Environment", "Thermal">>
  BY <1>1, LeftIs DEF Handles
<1>2. CASE rx.left # <<"Environment", "Thermal">>
  <2>1. rx.left = <<h>> /\ h # "Environment"
    BY <1>2, LeftIs DEF Handles, CachedFirst
  <2> QED BY <2>1, LeftIs DEF Handles
<1> QED BY <1>1, <1>2

LEMMA CachedFirstKept ==
  ASSUME EnvironmentFirst, Typed, CachedFirst, [LinkNext]_linkVars
  PROVE  CachedFirst'
<1>1. CASE Recvfrom
  <2>1. UNCHANGED cache /\ rx.left = <<>>
    BY <1>1 DEF Recvfrom, RxIdle, Typed, LinkTypeOK
  <2>2. rx' = rx \/ rx'.left \in {<<"StateRequest">>, <<"KinematicsRequest">>, <<"Environment", "Thermal">>}
    BY <1>1 DEF Recvfrom, EnvironmentFirst
  <2>3. rx'.left # <<"Thermal">>
    BY <2>1, <2>2, LeftIs
  <2> QED BY <2>1, <2>2, <2>3 DEF CachedFirst
<1>2. CASE StateAnswers \/ KinematicsAnswers \/ ThermalTakes
  <2>1. PICK h \in {"StateRequest", "KinematicsRequest", "Thermal"} : Handles(h)
    BY <1>2 DEF StateAnswers, KinematicsAnswers, ThermalTakes
  <2>2. rx'.left = <<>>
    BY <2>1, HandlesLeft DEF Handles
  <2>3. <<>> # <<"Thermal">>
    BY LeftIs
  <2> QED BY <2>2, <2>3 DEF CachedFirst
<1>3. CASE EnvironmentTakes
  <2>1. Handles("Environment") /\ cache' = Remembered(Head(rx.datagram).body)
    BY <1>3 DEF EnvironmentTakes
  <2>2. rx' = [rx EXCEPT !.left = <<"Thermal">>]
    BY <2>1, HandlesLeft DEF Handles
  <2>3. rx'.left = <<"Thermal">> /\ rx'.datagram = rx.datagram
    BY <2>2 DEF Typed, Shaped
  <2>4. InCache(Head(rx.datagram).body)'
    BY <2>1, <2>3 DEF InCache, Remembered
  <2> QED BY <2>3, <2>4 DEF CachedFirst
<1>4. CASE Forward \/ Stray \/ Fixtures
  <2>1. UNCHANGED <<rx, cache>>
    BY <1>4 DEF Forward, Stray, Fixtures, Register, Poll, GiveUp, TakeKept, RecvMsg, Timeout,
                AwaitCompletion, Dispatch, SetEnvironment
  <2> QED BY <2>1 DEF CachedFirst, InCache
<1>5. CASE Simulator \/ UNCHANGED linkVars
  BY <1>5 DEF Simulator, linkVars, link, CachedFirst, InCache
<1> QED BY <1>1, <1>2, <1>3, <1>4, <1>5, LinkCases

LEMMA CachedFirstInit == LinkInit => CachedFirst
<1> SUFFICES ASSUME LinkInit PROVE CachedFirst
  OBVIOUS
<1>1. rx.left = <<>> /\ <<>> # <<"Thermal">>
  BY LeftIs DEF LinkInit
<1> QED BY <1>1 DEF CachedFirst

\* AcknowledgedBeforeApplied (AckedBeforeApplied): if the wiring calls EnvironmentService before
\* ThermalService, the ambient temperature only ever becomes one that is in the cache, after
\* the acknowledgement has been handed to the socket.
THEOREM AcknowledgedBeforeApplied == ASSUME EnvironmentFirst PROVE LinkSpec => AckedBeforeApplied
<1>1. LinkInit => Typed /\ CachedFirst
  BY LinkInitTypes, CachedFirstInit
<1>2. Typed /\ CachedFirst /\ [LinkNext]_linkVars => (Typed /\ CachedFirst)'
  BY LinkStepTypes, CachedFirstKept
<1>3. Typed /\ CachedFirst /\ [LinkNext]_linkVars
        => [ambient' # ambient => ambient' \in Range(cache) /\ reply = <<>>]_linkVars
  <2> SUFFICES ASSUME Typed, CachedFirst, [LinkNext]_linkVars, ambient' # ambient
               PROVE  ambient' \in Range(cache) /\ reply = <<>>
    OBVIOUS
  <2>1. ThermalTakes
    BY LinkCases
       DEF Recvfrom, StateAnswers, KinematicsAnswers, Answers, EnvironmentTakes, Forward, Stray, Simulator,
           Fixtures, Register, Poll, GiveUp, TakeKept, RecvMsg, Timeout, AwaitCompletion, Dispatch,
           SetEnvironment, linkVars, link
  <2>2. Handles("Thermal") /\ ambient' = Head(rx.datagram).body.temp /\ reply = <<>> /\ rx.left # <<>>
    BY <2>1 DEF ThermalTakes, Handles
  <2>3. rx.left = <<"Thermal">>
    BY <2>2, HandlesLeft
  <2>4. InCache(Head(rx.datagram).body)
    BY <2>3 DEF CachedFirst
  <2> QED BY <2>2, <2>4 DEF InCache, Range
<1> QED BY <1>1, <1>2, <1>3, PTL DEF LinkSpec, AckedBeforeApplied
\* A step in which the token does not move, and no new call begins.
LEMMA TakesOverKept ==
  ASSUME Typed, Typed', TakesOver,
         Carries(toApp, toApp', {"EnvironmentData"}), Carries(toClient, toClient', {"EnvironmentAck"}),
         \A m \in Range(kept') : ~IsAck(m), Replied' => Replied,
         UNCHANGED <<cache, ambient>>, client'.env = client.env,
         \/ UNCHANGED rx
         \/ \A l \in {rx.left, rx'.left} : l # <<"Environment", "Thermal">> /\ l # <<"Thermal">>,
         client'.goal = "ack" => client.goal = "ack",
         client'.goal \notin {"ack", "failed"} => client.goal \notin {"ack", "failed"},
         "acked" \in knows' => "acked" \in knows
  PROVE  TakesOver'
<1>1. /\ \A d \in Range(toApp') : IsData(d) => d \in Range(toApp)
      /\ \A m \in Range(toClient') : IsAck(m) => m \in Range(toClient)
  BY CarriesRange DEF Typed, LinkTypeOK, IsData, IsAck
<1>2. (Sent' => Sent) /\ (Acked' => Acked) /\ (Arriving' => Arriving /\ rx' = rx)
  BY <1>1 DEF Sent, Acked, Arriving
<1>3. \A i, j \in 1..Len(toApp') : IsData(toApp'[i]) /\ IsData(toApp'[j]) => i = j
  <2> SUFFICES ASSUME NEW i \in 1..Len(toApp'), NEW j \in 1..Len(toApp'), IsData(toApp'[i]), IsData(toApp'[j])
               PROVE  i = j
    OBVIOUS
  <2>1. PICK k \in {0, 1} : /\ i + k \in 1..Len(toApp) /\ toApp'[i] = toApp[i + k]
                            /\ j + k \in 1..Len(toApp) /\ toApp'[j] = toApp[j + k]
    BY DEF Carries, IsData
  <2>2. i + k = j + k
    BY <2>1 DEF TakesOver, OneCall
  <2> QED BY <2>2
<1>4. \A i, j \in 1..Len(toClient') : IsAck(toClient'[i]) /\ IsAck(toClient'[j]) => i = j
  <2> SUFFICES ASSUME NEW i \in 1..Len(toClient'), NEW j \in 1..Len(toClient'),
                      IsAck(toClient'[i]), IsAck(toClient'[j])
               PROVE  i = j
    OBVIOUS
  <2>1. PICK k \in {0, 1} : /\ i + k \in 1..Len(toClient) /\ toClient'[i] = toClient[i + k]
                            /\ j + k \in 1..Len(toClient) /\ toClient'[j] = toClient[j + k]
    BY DEF Carries, IsAck
  <2>2. i + k = j + k
    BY <2>1 DEF TakesOver, OneCall
  <2> QED BY <2>2
<1>5. OneCall'
  BY <1>2, <1>3, <1>4 DEF TakesOver, OneCall
<1>6. \A d : TakenOver(d) => TakenOver(d)'
  BY DEF TakenOver, InCache
<1>7. Replied' \/ Acked' \/ "acked" \in knows' => client'.env # <<>> /\ TakenOver(Head(client.env))'
  BY <1>2, <1>6 DEF TakesOver
<1> QED BY <1>1, <1>2, <1>5, <1>7 DEF TakesOver

\* The buffers in a step that puts at most datagrams and answers of other kinds into them.
LEMMA NoTokenSent ==
  ASSUME Typed, NEW d \in Requests, ~ IsData(d),
         \/ toApp' = toApp
         \/ toApp # <<>> /\ toApp' = Tail(toApp)
         \/ toApp' = Arrived(toApp, d)
  PROVE  Carries(toApp, toApp', {"EnvironmentData"})
<1>1. toApp \in Seq(Requests) /\ Len(toApp) <= Buffer
  BY DEF Typed, LinkTypeOK
<1>2. d.id \notin {"EnvironmentData"}
  BY DEF IsData
<1> QED BY <1>1, <1>2, CarriesMost

LEMMA NoTokenBack ==
  ASSUME Typed, NEW m \in Answer, ~ IsAck(m),
         \/ toClient' = toClient
         \/ toClient' = <<>>
         \/ toClient # <<>> /\ toClient' = Tail(toClient)
         \/ toClient' = Arrived(toClient, m)
  PROVE  Carries(toClient, toClient', {"EnvironmentAck"})
<1>1. toClient \in Seq(Answer) /\ Len(toClient) <= Buffer
  BY DEF Typed, LinkTypeOK
<1>2. m.id \notin {"EnvironmentAck"}
  BY DEF IsAck
<1> QED BY <1>1, <1>2, CarriesMost

\* A datagram and an answer of another kind.
Plain == Datagram("other", "none", <<>>)
Other == [id |-> "StateData", st |-> "Ready"]

LEMMA PlainIs == Plain \in Requests /\ ~ IsData(Plain) /\ Other \in Answer /\ ~ IsAck(Other)
BY DatagramIs, AnswerIs DEF Plain, Other, Datagram, IsData, IsAck

LEMMA TakesOverRecvfrom ==
  ASSUME EnvironmentFirst, Typed, Typed', CachedFirst, TakesOver, Recvfrom
  PROVE  TakesOver'
<1> DEFINE d == Head(toApp)
<1>1. /\ toApp \in Seq(Requests) /\ toApp # <<>> /\ toApp' = Tail(toApp) /\ d \in Requests
      /\ UNCHANGED <<toClient, reply, cache, ambient, kept, client, knows>>
      /\ rx.left = <<>> /\ reply = <<>>
  BY ReceiveType DEF Recvfrom, RxIdle, Typed, LinkTypeOK
<1>2. /\ Carries(toApp, toApp', {"EnvironmentData"}) /\ Carries(toClient, toClient', {"EnvironmentAck"})
      /\ (Replied' => Replied) /\ ~ Replied
  <2>1. Carries(toApp, toApp', {"EnvironmentData"})
    BY <1>1, NoTokenSent, PlainIs
  <2>2. Carries(toClient, toClient', {"EnvironmentAck"})
    BY <1>1, NoTokenBack, PlainIs
  <2> QED BY <1>1, <2>1, <2>2, RangeOfNone DEF Replied
<1>3. CASE ~ IsData(d)
  <2>1. rx' = rx \/ rx'.left = <<"StateRequest">> \/ rx'.left = <<"KinematicsRequest">>
    BY <1>3 DEF Recvfrom, IsData
  <2>2. \A l \in {<<>>, <<"StateRequest">>, <<"KinematicsRequest">>} :
            l # <<"Environment", "Thermal">> /\ l # <<"Thermal">>
    BY LeftIs
  <2>3. (\A m \in Range(kept') : ~IsAck(m))
        /\ (UNCHANGED rx \/ \A l \in {rx.left, rx'.left} : l # <<"Environment", "Thermal">> /\ l # <<"Thermal">>)
    BY <1>1, <2>1, <2>2 DEF TakesOver, OneCall
  <2> QED BY <1>1, <1>2, <2>3, TakesOverKept
<1>4. CASE IsData(d)
  <2>1. /\ Len(toApp) \in Nat /\ 1 \in 1..Len(toApp) /\ d = toApp[1] /\ d \in Range(toApp)
        /\ \A i \in 1..Len(toApp') : i + 1 \in 1..Len(toApp) /\ toApp'[i] = toApp[i + 1]
        /\ toApp' \in Seq(Requests)
    BY <1>1, TailIs
  <2>2. ASSUME NEW i \in 1..Len(toApp') PROVE ~ IsData(toApp'[i])
    <3>1. i + 1 \in 1..Len(toApp) /\ toApp'[i] = toApp[i + 1] /\ i + 1 # 1
      BY <2>1
    <3> QED BY <1>4, <2>1, <3>1 DEF TakesOver, OneCall
  <2>3. \A e \in Range(toApp') : ~ IsData(e)
    BY <2>1, <2>2 DEF Range
  <2>4. rx' = [datagram |-> <<d>>, left |-> <<"Environment", "Thermal">>]
    BY <1>4 DEF Recvfrom, IsData, EnvironmentFirst
  <2>5. Sent /\ ~ Acked /\ ~ Replied' /\ ~ Acked' /\ ~ Sent' /\ Arriving'
    BY <1>1, <1>2, <1>4, <2>1, <2>3, <2>4 DEF Sent, TakesOver, OneCall, Acked, Arriving
  <2>6. <<d.body>> = client.env /\ client.goal \in {"ack", "failed"}
    BY <1>4, <2>1, <2>5 DEF TakesOver, OneCall
  <2>7. OneCall'
    BY <1>1, <2>2, <2>5, <2>6 DEF TakesOver, OneCall
  <2>8. "acked" \in knows' => client.env # <<>> /\ TakenOver(Head(client.env))'
    <3>1. rx'.left # <<"Thermal">> /\ UNCHANGED <<cache, ambient, knows, client>>
      BY <1>1, <2>4, LeftIs
    <3>2. \A e : TakenOver(e) /\ rx.left # <<"Thermal">> => TakenOver(e)'
      BY <3>1 DEF TakenOver, InCache
    <3>3. rx.left # <<"Thermal">>
      BY <1>1, LeftIs
    <3> QED BY <3>1, <3>2, <3>3 DEF TakesOver
  <2> QED BY <1>1, <2>3, <2>4, <2>5, <2>6, <2>7, <2>8 DEF TakesOver
<1> QED BY <1>3, <1>4
LEMMA TakesOverBridge ==
  ASSUME Typed, Typed', CachedFirst, TakesOver, StateAnswers \/ KinematicsAnswers \/ EnvironmentTakes \/ ThermalTakes
  PROVE  TakesOver'
<1>1. /\ UNCHANGED <<toApp, toClient, client, kept, knows>> /\ reply = <<>> /\ rx.left # <<>>
      /\ Carries(toApp, toApp', {"EnvironmentData"}) /\ Carries(toClient, toClient', {"EnvironmentAck"})
      /\ \A m \in Range(kept') : ~IsAck(m)
  <2>1. UNCHANGED <<toApp, toClient, client, kept, knows>> /\ reply = <<>> /\ rx.left # <<>>
    BY DEF StateAnswers, KinematicsAnswers, Answers, EnvironmentTakes, ThermalTakes, Handles
  <2>2. Carries(toApp, toApp', {"EnvironmentData"})
    BY <2>1, NoTokenSent, PlainIs
  <2>3. Carries(toClient, toClient', {"EnvironmentAck"})
    BY <2>1, NoTokenBack, PlainIs
  <2> QED BY <2>1, <2>2, <2>3 DEF TakesOver, OneCall
<1>2. CASE StateAnswers \/ KinematicsAnswers
  <2>1. PICK h \in {"StateRequest", "KinematicsRequest"} : Handles(h)
    BY <1>2 DEF StateAnswers, KinematicsAnswers
  <2>2. rx.left = <<h>> /\ rx'.left = <<>>
    BY <1>1, <2>1, HandlesLeft
  <2>3. \A l \in {rx.left, rx'.left} : l # <<"Environment", "Thermal">> /\ l # <<"Thermal">>
    BY <2>2, LeftIs
  <2>4. PICK m : reply' = <<m>> /\ ~ IsAck(m)
    BY <1>2 DEF StateAnswers, KinematicsAnswers, Answers, IsAck
  <2>5. ~ Replied'
    BY <2>4, RangeOfOne DEF Replied
  <2>6. UNCHANGED <<cache, ambient>>
    BY <1>2 DEF StateAnswers, KinematicsAnswers, Answers
  <2> QED BY <1>1, <2>3, <2>5, <2>6, TakesOverKept
<1>3. CASE EnvironmentTakes
  <2> DEFINE d == Head(rx.datagram).body
  <2>1. Handles("Environment") /\ cache' = Remembered(d) /\ UNCHANGED ambient
    BY <1>3 DEF EnvironmentTakes
  <2>2. rx.left = <<"Environment", "Thermal">> /\ rx' = [rx EXCEPT !.left = <<"Thermal">>]
    BY <1>1, <2>1, HandlesLeft
  <2>3. rx'.left = <<"Thermal">> /\ rx'.datagram = rx.datagram
    BY <2>2 DEF Typed, Shaped
  <2>4. Arriving /\ ~ Arriving' /\ ~ Replied /\ ~ Acked /\ ~ Sent /\ <<d>> = client.env
    BY <2>2, <2>3, LeftIs DEF TakesOver, OneCall, Arriving
  <2>5. (Sent' = Sent) /\ (Acked' = Acked) /\ (client.goal \in {"ack", "failed"})
    BY <1>1, <2>4 DEF Sent, Acked, TakesOver, OneCall
  <2>6. OneCall'
    BY <1>1, <2>4, <2>5 DEF TakesOver, OneCall
  <2>7. InCache(d)'
    BY <2>1, <2>3 DEF InCache, Remembered
  <2>8. Head(client'.env) = d /\ client'.env # <<>>
    BY <1>1, <2>4
  <2>9. TakenOver(Head(client.env))'
    BY <2>3, <2>7, <2>8 DEF TakenOver, InCache
  <2> QED BY <1>1, <2>4, <2>5, <2>6, <2>8, <2>9 DEF TakesOver
<1>4. CASE ThermalTakes
  <2> DEFINE d == Head(rx.datagram).body
  <2>1. Handles("Thermal") /\ ambient' = d.temp /\ UNCHANGED <<cache, reply>>
    BY <1>4 DEF ThermalTakes
  <2>2. rx.left = <<"Thermal">> /\ rx'.left = <<>>
    BY <1>1, <2>1, HandlesLeft
  <2>3. rx'.left # <<"Thermal">> /\ ~ Arriving' /\ rx'.left # <<"Environment", "Thermal">>
    BY <2>2, LeftIs DEF Arriving
  <2>4. (Sent' = Sent) /\ (Acked' = Acked) /\ (Replied' = Replied)
    BY <1>1, <2>1 DEF Sent, Acked, Replied
  <2>5. OneCall'
    BY <1>1, <2>3, <2>4 DEF TakesOver, OneCall
  <2>6. ASSUME NEW e, TakenOver(e) PROVE TakenOver(e)'
    BY <2>1, <2>2, <2>3, <2>6 DEF TakenOver, InCache
  <2>7. Replied' \/ Acked' \/ "acked" \in knows' => client'.env # <<>> /\ TakenOver(Head(client.env))'
    BY <1>1, <2>4, <2>6 DEF TakesOver
  <2> QED BY <1>1, <2>3, <2>4, <2>5, <2>7 DEF TakesOver
<1> QED BY <1>2, <1>3, <1>4

LEMMA TakesOverForward ==
  ASSUME Typed, Typed', TakesOver, Forward
  PROVE  TakesOver'
<1> DEFINE m == Head(reply)
<1>1. /\ reply \in Seq(Answer) /\ reply # <<>> /\ toClient \in Seq(Answer) /\ Len(toClient) <= Buffer
      /\ toClient' \in {toClient, Arrived(toClient, m)} /\ reply' = <<>>
      /\ UNCHANGED <<toApp, rx, cache, ambient, client, kept, knows>>
  BY DEF Forward, Forwarded, Typed, LinkTypeOK
<1>2. m \in Answer /\ m \in Range(reply)
  BY <1>1, TailIs
<1>3. ~ Replied' /\ Carries(toApp, toApp', {"EnvironmentData"}) /\ \A a \in Range(kept') : ~IsAck(a)
  BY <1>1, RangeOfNone, NoTokenSent, PlainIs DEF Replied, TakesOver, OneCall
<1>4. CASE ~ IsAck(m)
  <2>1. Carries(toClient, toClient', {"EnvironmentAck"})
    BY <1>1, <1>2, <1>4, NoTokenBack
  <2> QED BY <1>1, <1>3, <2>1, TakesOverKept
<1>5. CASE IsAck(m)
  <2>1. Replied /\ ~ Acked /\ ~ Arriving /\ ~ Sent /\ client.goal \in {"ack", "failed"}
    BY <1>2, <1>5 DEF Replied, TakesOver, OneCall
  <2>2. ~ Sent' /\ ~ Arriving'
    BY <1>1, <2>1 DEF Sent, Arriving
  <2>3. \A i \in 1..Len(toClient') : IsAck(toClient'[i]) => i = Len(toClient) + 1
    <3> SUFFICES ASSUME NEW i \in 1..Len(toClient'), IsAck(toClient'[i]), i # Len(toClient) + 1 PROVE FALSE
      OBVIOUS
    <3>1. i \in 1..Len(toClient) /\ toClient'[i] = toClient[i]
      <4>1. CASE toClient' = toClient
        BY <4>1
      <4>2. CASE toClient' = Arrived(toClient, m)
        <5> HIDE DEF m
        <5>1. \A k \in 1..Len(Arrived(toClient, m)) :
                 \/ k \in 1..Len(toClient) /\ Arrived(toClient, m)[k] = toClient[k]
                 \/ k = Len(toClient) + 1 /\ Arrived(toClient, m)[k] = m
          BY <1>1, <1>2, ArrivedIs
        <5> QED BY <4>2, <5>1
      <4> QED BY <1>1, <4>1, <4>2
    <3>2. toClient[i] \in Range(toClient)
      BY <1>1, <3>1 DEF Range
    <3> QED BY <2>1, <3>1, <3>2 DEF Acked
  <2>4. OneCall'
    BY <1>1, <1>3, <2>1, <2>2, <2>3 DEF TakesOver, OneCall
  <2>5. client.env # <<>> /\ TakenOver(Head(client.env))
    BY <2>1 DEF TakesOver
  <2>6. TakenOver(Head(client.env))'
    BY <1>1, <2>5 DEF TakenOver, InCache
  <2> QED BY <1>1, <2>2, <2>4, <2>5, <2>6 DEF TakesOver
<1> QED BY <1>4, <1>5

LEMMA TakesOverStray ==
  ASSUME Typed, Typed', TakesOver, Stray \/ Simulator \/ UNCHANGED linkVars
  PROVE  TakesOver'
<1>1. /\ UNCHANGED <<toClient, reply, rx, cache, ambient, client, kept, knows>>
      /\ toApp' \in {toApp, Arrived(toApp, Plain)}
  BY DEF Stray, Simulator, linkVars, link, Plain
<1>2. /\ Carries(toApp, toApp', {"EnvironmentData"}) /\ Carries(toClient, toClient', {"EnvironmentAck"})
      /\ (Replied' => Replied) /\ \A a \in Range(kept') : ~IsAck(a)
  BY <1>1, NoTokenSent, NoTokenBack, PlainIs DEF Replied, TakesOver, OneCall
<1> QED BY <1>1, <1>2, TakesOverKept
\* Only the fixture of set_environment learns of an acknowledgement.
LEMMA OthersLearn ==
  ASSUME Typed, Receiving, client.goal # "ack", NEW m, Examines(m)
  PROVE  /\ client'.env = client.env /\ client'.goal # "ack"
         /\ "acked" \in knows' => "acked" \in knows
<1>1. client' = [client EXCEPT !.goal = client'.goal, !.pc = client'.pc] /\ client'.goal # "ack"
  BY ExaminesIs
<1>2. client.goal \in {"connect", "accept", "start", "complete"}
  BY Tables DEF Receiving
<1>3. \A g \in {"connect", "accept", "start", "complete"} : Learns[g] # "acked"
  BY DEF Learns
<1>4. "acked" \in knows' => "acked" \in knows
  BY <1>2, <1>3, ExaminesKnows
<1> QED BY <1>1, <1>4 DEF Typed, Shaped

LEMMA TakesOverFixtures ==
  ASSUME Typed, Typed', TakesOver, Fixtures
  PROVE  TakesOver'
<1>0. /\ UNCHANGED <<reply, rx, cache, ambient>>
      /\ client \in [goal : Goals, pc : {"send", "recv"}, cmd : RxCommands \cup {NoCommand},
                     env : {<<>>} \cup { <<d>> : d \in EnvironmentData }, sent : SUBSET RxCommands]
      /\ toApp \in Seq(Requests) /\ Len(toApp) <= Buffer
      /\ toClient \in Seq(Answer) /\ kept \in Seq(Answer) /\ \A a \in Range(kept) : ~IsAck(a)
  BY DEF Fixtures, Register, Poll, GiveUp, TakeKept, RecvMsg, Timeout, AwaitCompletion, Dispatch,
         SetEnvironment, Typed, Shaped, LinkTypeOK, TakesOver, OneCall
<1>1. ASSUME NEW d \in Requests, ~ IsData(d), toApp' = toApp \/ toApp' = Arrived(toApp, d),
             \/ toClient' = toClient
             \/ toClient' = <<>>
             \/ toClient # <<>> /\ toClient' = Tail(toClient),
             \A a \in Range(kept') : ~IsAck(a), client'.env = client.env,
             client'.goal = "ack" => client.goal = "ack",
             client'.goal \notin {"ack", "failed"} => client.goal \notin {"ack", "failed"},
             "acked" \in knows' => "acked" \in knows
      PROVE  TakesOver'
  <2>1. Carries(toApp, toApp', {"EnvironmentData"})
    BY <1>1, NoTokenSent
  <2>2. Carries(toClient, toClient', {"EnvironmentAck"})
    BY <1>1, NoTokenBack, PlainIs
  <2>3. Replied' = Replied
    BY <1>0 DEF Replied
  <2> QED BY <1>0, <1>1, <2>1, <2>2, <2>3, TakesOverKept
<1>2. CASE Register
  <2> DEFINE d == Datagram("test", "none", <<>>)
  <2>1. d \in Requests /\ ~ IsData(d) /\ toApp' = Arrived(toApp, d)
    BY <1>2, DatagramIs DEF Register, Sends, Datagram, IsData
  <2>2. UNCHANGED <<toClient, kept, knows>> /\ client' = [client EXCEPT !.goal = "connect"]
        /\ client.goal = "register"
    BY <1>2 DEF Register
  <2> HIDE DEF d
  <2> QED BY <1>0, <1>1, <2>1, <2>2
<1>3. CASE Poll
  <2> DEFINE d == Datagram("test", Request[client.goal], <<>>)
  <2>1. client.goal \in DOMAIN Request /\ toApp' = Arrived(toApp, d)
    BY <1>3 DEF Poll, Polling, Sends
  <2>2. d \in Requests /\ ~ IsData(d)
    BY <2>1, Tables, DatagramIs DEF Datagram, IsData
  <2>3. (toClient' = toClient \/ toClient' = <<>>) /\ (kept' = kept \/ kept' = <<>>)
        /\ UNCHANGED knows /\ client' = [client EXCEPT !.pc = "recv"]
    BY <1>3 DEF Poll, Drain
  <2>4. \A a \in Range(kept') : ~IsAck(a)
    BY <1>0, <2>3, RangeOfNone
  <2> HIDE DEF d
  <2> QED BY <1>0, <1>1, <2>1, <2>2, <2>3, <2>4
<1>4. CASE GiveUp \/ AwaitCompletion
  <2>1. UNCHANGED <<toApp, toClient, kept, knows>> /\ client'.env = client.env
        /\ client.goal # "failed" /\ client.goal # "ack" /\ client'.goal # "ack"
    BY <1>0, <1>4, Tables DEF GiveUp, AwaitCompletion, Polling, Fails
  <2> QED BY <1>0, <1>1, <2>1, PlainIs
<1>5. CASE Timeout
  <2>1. UNCHANGED <<toApp, toClient, kept, knows>> /\ client'.env = client.env
        /\ client'.goal \in {"failed", client.goal}
    BY <1>0, <1>5 DEF Timeout, Fails
  <2> QED BY <1>0, <1>1, <2>1, PlainIs
<1>6. ASSUME NEW c \in RxCommands, Dispatch(c) PROVE TakesOver'
  <2> DEFINE d == Datagram("test", "MotorSequence", c)
  <2>1. d \in Requests /\ ~ IsData(d) /\ toApp' = Arrived(toApp, d)
    BY <1>6, DatagramIs DEF Dispatch, Sends, Datagram, IsData
  <2>2. UNCHANGED <<toClient, kept>> /\ knows' \subseteq knows /\ client'.env = client.env
        /\ client.goal = "free" /\ client'.goal # "ack"
    BY <1>0, <1>6 DEF Dispatch
  <2> HIDE DEF d
  <2> QED BY <1>0, <1>1, <2>1, <2>2
<1>7. CASE TakeKept
  <2> DEFINE i == CHOOSE k \in Waiting : \A j \in Waiting : k <= j
  <2>1. /\ Receiving /\ Waiting # {} /\ Examines(kept[i]) /\ kept' = RemoveAt(kept, i)
        /\ UNCHANGED <<toApp, toClient>>
    BY <1>7 DEF TakeKept
  <2>2. kept[i] \in Range(kept) /\ Wanted(kept[i]) /\ Range(kept') \subseteq Range(kept)
    BY <2>1, WaitingIs
  <2> HIDE DEF i
  <2>3. client.goal # "ack" /\ client.goal # "failed"
    BY <1>0, <2>1, <2>2, Tables DEF Wanted, Expected, IsAck, Receiving
  <2>4. client'.env = client.env /\ client'.goal # "ack" /\ ("acked" \in knows' => "acked" \in knows)
    BY <2>1, <2>3, OthersLearn
  <2> QED BY <1>0, <1>1, <2>1, <2>2, <2>3, <2>4, PlainIs
<1>8. CASE RecvMsg
  <2> DEFINE m == Head(toClient)
  <2>1. /\ Receiving /\ toClient # <<>> /\ toClient' = Tail(toClient) /\ UNCHANGED toApp
        /\ IF Wanted(m) THEN Examines(m) /\ UNCHANGED kept
           ELSE kept' = Append(kept, m) /\ UNCHANGED <<client, knows>>
    BY <1>8 DEF RecvMsg
  <2>2. /\ m \in Answer /\ m \in Range(toClient) /\ m = toClient[1] /\ Len(toClient) \in Nat \ {0}
        /\ \A k \in 1..Len(toClient') : k + 1 \in 1..Len(toClient) /\ toClient'[k] = toClient[k + 1]
        /\ toClient' \in Seq(Answer)
    BY <1>0, <2>1, TailIs
  <2>3. client.goal \in {"connect", "accept", "start", "complete", "ack"}
    BY <2>1, Tables DEF Receiving
  <2> HIDE DEF m
  <2>4. CASE ~ Wanted(m)
    <3>1. kept' = Append(kept, m) /\ UNCHANGED <<client, knows>>
      BY <2>1, <2>4
    <3>2. ~ IsAck(m)
      <4>1. client.goal = "ack" => ~ IsAck(m)
        BY <2>4 DEF Wanted, Expected, IsAck
      <4>2. client.goal # "ack" => ~ Acked
        BY <2>3 DEF TakesOver, OneCall
      <4> QED BY <2>2, <4>1, <4>2 DEF Acked
    <3>3. Range(kept') = Range(kept) \cup {m}
      BY <1>0, <2>2, <3>1, AppendIs
    <3> QED BY <1>0, <1>1, <2>1, <3>1, <3>2, <3>3, PlainIs
  <2>5. CASE Wanted(m) /\ client.goal # "ack"
    <3>1. Examines(m) /\ UNCHANGED kept
      BY <2>1, <2>5
    <3>2. client'.env = client.env /\ client'.goal # "ack" /\ ("acked" \in knows' => "acked" \in knows)
      BY <2>1, <2>5, <3>1, OthersLearn
    <3> QED BY <1>0, <1>1, <2>1, <2>3, <2>5, <3>1, <3>2, PlainIs
  <2>6. CASE Wanted(m) /\ client.goal = "ack"
    <3>1. IsAck(m)
      BY <2>6 DEF Wanted, Expected, IsAck
    <3>2. Acked /\ ~ Sent /\ ~ Arriving /\ ~ Replied
      BY <2>2, <3>1 DEF Acked, TakesOver, OneCall
    <3>3. \A k \in 1..Len(toClient') : ~ IsAck(toClient'[k])
      <4> SUFFICES ASSUME NEW k \in 1..Len(toClient'), IsAck(toClient'[k]) PROVE FALSE
        OBVIOUS
      <4>1. k + 1 \in 1..Len(toClient) /\ IsAck(toClient[k + 1]) /\ 1 \in 1..Len(toClient) /\ k + 1 # 1
        BY <2>2
      <4> QED BY <2>2, <3>1, <4>1 DEF TakesOver, OneCall
    <3>4. ~ Acked' /\ ~ Sent' /\ ~ Arriving' /\ ~ Replied'
      <4>1. ~ Acked'
        BY <2>2, <3>3 DEF Acked, Range
      <4> QED BY <1>0, <2>1, <3>2, <4>1 DEF Sent, Arriving, Replied
    <3>5. Examines(m) /\ UNCHANGED kept
      BY <2>1, <2>6
    <3>6. client'.goal \in {"free", "failed"} /\ client'.env = client.env
      BY <1>0, <2>6, <3>5 DEF Examines, Fails
    <3>7. client.env # <<>> /\ TakenOver(Head(client.env))'
      <4>1. \A d : TakenOver(d)' = TakenOver(d)
        BY <1>0 DEF TakenOver, InCache
      <4> QED BY <1>0, <3>2, <3>6, <4>1 DEF TakesOver
    <3>8. OneCall'
      BY <1>0, <2>1, <3>3, <3>4, <3>5, <3>6 DEF TakesOver, OneCall
    <3>9. \A d \in Range(toApp') : IsData(d) => <<d.body>> = client'.env
      BY <3>4 DEF Sent
    <3> QED BY <3>4, <3>6, <3>7, <3>8, <3>9 DEF TakesOver
  <2> QED BY <2>4, <2>5, <2>6
<1>9. ASSUME NEW e \in EnvironmentData, SetEnvironment(e) PROVE TakesOver'
  <2> DEFINE d == Datagram("test", "EnvironmentData", e)
  <2>1. d \in Requests /\ d.body = e /\ toApp' = Arrived(toApp, d)
    BY <1>9, DatagramIs DEF SetEnvironment, Sends, Datagram
  <2>2. /\ UNCHANGED <<toClient, kept>> /\ client.goal = "free" /\ knows' = knows \ {"acked"}
        /\ client'.goal = "ack" /\ client'.env = <<e>>
    BY <1>0, <1>9 DEF SetEnvironment
  <2>3. ~ Sent /\ ~ Arriving /\ ~ Replied /\ ~ Acked
    BY <2>2 DEF TakesOver, OneCall
  <2>4. ~ Arriving' /\ ~ Replied' /\ ~ Acked'
    BY <1>0, <2>2, <2>3 DEF Arriving, Replied, Acked
  <2> HIDE DEF d
  <2>5. /\ Range(toApp') \subseteq Range(toApp) \cup {d}
        /\ \A k \in 1..Len(toApp') :
              \/ k \in 1..Len(toApp) /\ toApp'[k] = toApp[k]
              \/ k = Len(toApp) + 1 /\ toApp'[k] = d
    <3>1. toApp \in Seq(Requests) /\ Len(toApp) <= Buffer /\ d \in Requests /\ toApp' = Arrived(toApp, d)
      BY <1>0, <2>1
    <3> QED BY ONLY <3>1, ArrivedIs
  <2>6. \A k \in 1..Len(toApp') : IsData(toApp'[k]) => k = Len(toApp) + 1
    <3>1. \A k \in 1..Len(toApp) : ~ IsData(toApp[k])
      BY <1>0, <2>3 DEF Sent, Range
    <3> QED BY <2>5, <3>1
  <2>7. OneCall'
    BY <1>0, <2>2, <2>3, <2>4, <2>6 DEF TakesOver, OneCall
  <2>8. \A a \in Range(toApp') : IsData(a) => <<a.body>> = client'.env
    BY <2>1, <2>2, <2>3, <2>5 DEF Sent
  <2> QED BY <2>2, <2>4, <2>7, <2>8 DEF TakesOver
<1> QED BY <1>2, <1>3, <1>4, <1>5, <1>6, <1>7, <1>8, <1>9 DEF Fixtures

LEMMA TakesOverInit == LinkInit => TakesOver
<1> SUFFICES ASSUME LinkInit PROVE TakesOver
  OBVIOUS
<1>1. /\ toApp = <<>> /\ toClient = <<>> /\ reply = <<>> /\ kept = <<>> /\ rx.left = <<>>
      /\ knows = {} /\ client.goal = "register"
  BY DEF LinkInit
<1>2. ~ Sent /\ ~ Replied /\ ~ Acked /\ ~ Arriving
  BY <1>1, LeftIs, RangeOfNone DEF Sent, Replied, Acked, Arriving
<1>3. Range(kept) = {} /\ Len(toApp) = 0 /\ Len(toClient) = 0
  BY <1>1, RangeOfNone
<1> QED BY <1>1, <1>2, <1>3, RangeOfNone DEF TakesOver, OneCall

\* AcknowledgedIsTakenOver (EnvironmentTakenOver): if the wiring calls EnvironmentService before
\* ThermalService, a test whose set_environment has returned finds both services working with
\* what it has set, or ThermalService about to: no acknowledgement of an earlier call is left
\* that it could have been given instead.
THEOREM AcknowledgedIsTakenOver == ASSUME EnvironmentFirst PROVE LinkSpec => []EnvironmentTakenOver
<1>1. LinkInit => Typed /\ CachedFirst /\ TakesOver
  BY LinkInitTypes, CachedFirstInit, TakesOverInit
<1>2. Typed /\ CachedFirst /\ TakesOver /\ [LinkNext]_linkVars => (Typed /\ CachedFirst /\ TakesOver)'
  <2> SUFFICES ASSUME Typed, CachedFirst, TakesOver, [LinkNext]_linkVars
               PROVE  Typed' /\ CachedFirst' /\ TakesOver'
    OBVIOUS
  <2>1. Typed' /\ CachedFirst'
    BY LinkStepTypes, CachedFirstKept
  <2> QED
    BY <2>1, LinkCases, TakesOverRecvfrom, TakesOverBridge, TakesOverForward, TakesOverFixtures, TakesOverStray
<1>3. TakesOver => EnvironmentTakenOver
  <2> SUFFICES ASSUME TakesOver, "acked" \in knows PROVE EnvironmentTakenOver
    BY DEF EnvironmentTakenOver
  <2>1. TakenOver(Head(client.env))
    BY DEF TakesOver
  <2>2. rx.left = <<"Thermal">> => "Thermal" \in Range(rx.left)
    BY RangeOfOne
  <2> QED BY <2>1, <2>2 DEF TakenOver, InCache, EnvironmentTakenOver
<1> QED BY <1>1, <1>2, <1>3, PTL DEF LinkSpec
-----------------------------------------------------------------------------
(* What a start shows.  Time under the id of the last sequence comes from  *)
(* a tick that was sampled when StateService had heard of it.              *)

Heard == state.cmd_id = client.cmd.cmd_id

\* The test knows that its sequence has started, or what it may still look at says so.
Evidence ==
    \/ Shown(kin)
    \/ \E m \in Answered : m.id = "KinematicsData" /\ Shown(m)
    \/ "moving" \in knows

HeardFirst ==
    /\ tick.cmd_id = client.cmd.cmd_id => Heard
    /\ Heard /\ motor.active => state.st = "Executing"
    /\ Evidence => Heard

\* Only a tick makes evidence, and it is of the sequence that was the last when it was
\* sampled.
LEMMA EvidenceArises ==
  ASSUME OwnIds, AInv, AInv', [LinkNext]_linkVars, Evidence'
  PROVE  /\ Evidence \/ (KinematicsTick /\ tick.cmd_id = client.cmd.cmd_id)
         /\ client'.cmd = client.cmd
<1>1. Typed /\ Accepted /\ TypeOK /\ Reporting
  BY DEF AInv, Typed, LinkTypeOK
<1>2. ASSUME client'.cmd = client.cmd, kin' = kin, "moving" \in knows' => Evidence,
             \A m \in Answered' : \/ m \in Answered
                                  \/ m.id = "KinematicsData" => m.cmd_id = kin.cmd_id /\ m.elapsed = kin.elapsed
      PROVE  Evidence
  <2>1. CASE Shown(kin)'
    BY <1>2, <2>1 DEF Evidence, Shown
  <2>2. CASE "moving" \in knows'
    BY <1>2, <2>2
  <2>3. CASE \E m \in Answered' : m.id = "KinematicsData" /\ Shown(m)'
    <3>1. PICK m \in Answered' : m.id = "KinematicsData" /\ m.cmd_id = client.cmd.cmd_id /\ m.elapsed > 0
      BY <1>2, <2>3 DEF Shown
    <3> QED BY <1>2, <3>1 DEF Evidence, Shown
  <2> QED BY <2>1, <2>2, <2>3 DEF Evidence
<1>3. CASE Recvfrom
  <2>1. UNCHANGED <<kin, toClient, reply, kept, client, knows>>
    BY <1>1, <1>3, ReceiveType DEF Recvfrom, Receive, vars
  <2> QED BY <1>2, <2>1 DEF Answered, Evidence
<1>4. CASE StateAnswers \/ KinematicsAnswers \/ EnvironmentTakes \/ ThermalTakes \/ Forward
  <2>1. UNCHANGED <<kin, client, knows>>
    BY <1>1, <1>4, BridgeAnswers DEF vars
  <2>2. \A m \in Answered' : \/ m \in Answered
                             \/ m.id = "KinematicsData" => m.cmd_id = kin.cmd_id /\ m.elapsed = kin.elapsed
    BY <1>1, <1>4, BridgeAnswers
  <2> QED BY <1>2, <2>1, <2>2 DEF Evidence
<1>5. CASE Stray \/ UNCHANGED linkVars
  <2>1. UNCHANGED <<kin, toClient, reply, kept, client, knows>>
    BY <1>5 DEF Stray, linkVars, link, vars
  <2> QED BY <1>2, <2>1 DEF Answered, Evidence
<1>6. CASE Fixtures /\ ~ \E c \in RxCommands : Dispatch(c)
  <2>1. UNCHANGED kin /\ \A m \in Answered' : m \in Answered
    <3>1. UNCHANGED vars
      BY <1>6 DEF Fixtures, Register, Poll, GiveUp, TakeKept, RecvMsg, Timeout, AwaitCompletion, SetEnvironment
    <3> QED BY <1>1, <1>6, <3>1, FixturesAnswers DEF Answered, vars
  <2>2. client'.cmd = client.cmd
    BY <1>1, <1>6, FixturesLearn
  <2>3. "moving" \in knows' => Evidence
    <3>1. SUFFICES ASSUME "moving" \in knows', "moving" \notin knows PROVE Evidence
      BY DEF Evidence
    <3>2. PICK m \in Range(toClient) \cup Range(kept) : Receiving /\ Wanted(m) /\ Examines(m)
      BY <1>1, <1>6, <3>1, FixturesLearn
    <3> QED BY <1>1, <3>1, <3>2, LearnsFrom DEF Evidence, Answered
  <2> QED BY <1>2, <2>1, <2>2, <2>3
<1>7. ASSUME NEW c \in RxCommands, Dispatch(c) PROVE FALSE
  <2>1. ~ Shows(c.cmd_id) /\ "moving" \notin knows' /\ UNCHANGED <<kin, toClient, reply, kept>>
    BY <1>1, <1>7, DispatchesNew DEF Dispatch, vars
  <2>2. client'.cmd = c
    BY <1>1, <1>7 DEF Dispatch, Typed, Shaped
  <2> QED BY <2>1, <2>2 DEF Evidence, Shown, Shows, Answered
<1>8. CASE Simulator
  <2>1. Next /\ UNCHANGED <<client, knows, Answered>>
    BY <1>1, <1>8, SimulatorSteps DEF link, Answered
  <2>2. CASE KinematicsTick
    <3>1. kin'.cmd_id = tick.cmd_id
      BY <2>2 DEF KinematicsTick
    <3> QED BY <2>1, <2>2, <3>1 DEF Evidence, Shown
  <2>3. CASE KinematicsHears
    <3>1. (kin'.cmd_id = kin.cmd_id /\ kin'.elapsed = kin.elapsed) \/ kin'.elapsed = 0
      BY <1>1, <2>3 DEF KinematicsHears, TypeOK
    <3> QED BY <2>1, <3>1 DEF Evidence, Shown
  <2>4. CASE ~ KinematicsTick /\ ~ KinematicsHears
    <3>1. UNCHANGED kin
      BY <1>8, <2>4
         DEF Simulator, ClockStep, MotorTick, ReportStep, Sample, AutoTick, PowerTick, MotorIgnores,
             MotorCounts, MotorAdvances, MotorSequence, AutoCommand, StateHears, PowerHears, MotorReturn
    <3> QED BY <2>1, <3>1 DEF Evidence, Shown
  <2> QED BY <2>2, <2>3, <2>4
<1> QED BY <1>3, <1>4, <1>5, <1>6, <1>7, <1>8, LinkCases

\* Once StateService has heard of the last sequence, the motor takes no other.
LEMMA NoneIsTaken ==
  ASSUME AInv, Heard, [Next]_vars
  PROVE  Shows(client.cmd.cmd_id) /\ Taken /\ (\A t \in Thread : ~ MotorSequence(t))
         /\ state'.cmd_id = client.cmd.cmd_id /\ motor.cmd.cmd_id = client.cmd.cmd_id
         /\ (motor'.active => motor.active)
<1>1. Typed /\ Accepted /\ TypeOK /\ Reporting
  BY DEF AInv, Typed, LinkTypeOK
<1>2. Shows(client.cmd.cmd_id)
  BY DEF Heard, Shows
<1>3. Taken /\ pending["rx"] = <<>> /\ pending["clock"] = <<>>
  BY <1>1, <1>2 DEF Accepted, Known, LastSent
<1>4. \A t \in Thread : ~ MotorSequence(t)
  BY <1>3 DEF Thread, MotorSequence
<1>5. motor.cmd.cmd_id = client.cmd.cmd_id
  BY <1>3, NormalisedId DEF Taken
<1>6. state'.cmd_id = client.cmd.cmd_id
  BY <1>1, <1>4, <1>5, IdsSpread DEF Heard
<1>7. motor'.active => motor.active
  <2>1. UNCHANGED motor \/ MotorCounts \/ MotorAdvances
    BY <1>4 DEF Next, ClockStep, MotorTick, ReportStep, PeerStep, vars, Receive, ReceiveAuto, AutoCommand,
           Sample, MotorReturn, AutoTick, PowerTick, KinematicsTick, MotorIgnores,
           StateHears, PowerHears, KinematicsHears, Thread
  <2> QED BY <1>1, <2>1 DEF MotorCounts, MotorAdvances, Applies, TypeOK, MotorOK
<1> QED BY <1>2, <1>3, <1>4, <1>5, <1>6, <1>7

LEMMA HeardFirstKept ==
  ASSUME OwnIds, AInv, AInv', HeardFirst, [LinkNext]_linkVars
  PROVE  HeardFirst'
<1>1. Typed /\ Accepted /\ TypeOK /\ Reporting /\ [Next]_vars
  BY LinkStepsVehicle DEF AInv, Typed, LinkTypeOK
<1>2. CASE client'.cmd = client.cmd
  <2>1. Heard => Heard'
    BY <1>1, <1>2, NoneIsTaken DEF Heard
  <2>2. tick'.cmd_id = client.cmd.cmd_id => Heard
    <3>1. CASE \E t \in Thread : MotorSequence(t)
      BY <3>1 DEF MotorSequence, HeardFirst
    <3>2. CASE \A t \in Thread : ~ MotorSequence(t)
      BY <1>1, <3>2, IdsSpread DEF HeardFirst, Heard
    <3> QED BY <3>1, <3>2
  <2>3. Evidence' => Heard
    BY EvidenceArises DEF HeardFirst
  <2>4. ASSUME Heard', motor'.active PROVE state'.st = "Executing"
    <3>1. CASE StateHears
      BY <1>1, <2>4, <3>1, HearsKeeps DEF StateHears
    <3>2. CASE ~ StateHears
      <4>1. UNCHANGED state
        BY <1>1, <3>2
           DEF Next, ClockStep, MotorTick, ReportStep, PeerStep, vars, Receive, ReceiveAuto, AutoCommand,
               MotorSequence, MotorReturn, Sample, AutoTick, PowerTick, KinematicsTick, MotorIgnores,
               MotorCounts, MotorAdvances, PowerHears, KinematicsHears
      <4>2. Heard
        BY <1>2, <2>4, <4>1 DEF Heard
      <4>3. motor.active
        BY <1>1, <2>4, <4>2, NoneIsTaken
      <4> QED BY <4>1, <4>2, <4>3 DEF HeardFirst
    <3> QED BY <3>1, <3>2
  <2> QED BY <1>2, <2>1, <2>2, <2>3, <2>4 DEF HeardFirst
<1>3. CASE client'.cmd # client.cmd
  <2>1. ~ Evidence'
    BY <1>3, EvidenceArises
  <2>2. PICK c \in RxCommands : Dispatch(c)
    <3>1. \/ UNCHANGED client
          \/ Fixtures
      BY LinkCases
         DEF Recvfrom, StateAnswers, KinematicsAnswers, Answers, EnvironmentTakes, ThermalTakes, Forward,
             Stray, Simulator, linkVars, link
    <3> QED BY <1>1, <1>3, <3>1, FixturesLearn
  <2>3. ~ Shows(c.cmd_id) /\ UNCHANGED <<state, tick>>
    BY <1>1, <2>2, DispatchesNew DEF Dispatch, vars
  <2>4. client'.cmd = c
    BY <1>1, <2>2 DEF Dispatch, Typed, Shaped
  <2>5. ~ Heard' /\ tick'.cmd_id # client'.cmd.cmd_id
    BY <2>3, <2>4 DEF Shows, Heard
  <2> QED BY <2>1, <2>5 DEF HeardFirst
<1> QED BY <1>2, <1>3

LEMMA HeardFirstInit == LinkInit => HeardFirst
BY DEF LinkInit, Init, HeardFirst, Heard, NoCommand
\* A running motor that has ended no step has at most the time of its first step left.
Counting == motor.active => motor.idx > 0 \/ motor.remaining <= motor.cmd.steps[1].dur

LEMMA MotorTimes ==
  ASSUME TypeOK
  PROVE  motor.remaining \in Nat /\ motor.cmd.steps[1].dur \in Nat /\ kTickUs \in Nat \ {0}
<1>1. kMaxSubCmds \in Nat \ {0} /\ kTickUs \in Nat \ {0}
  BY VehicleAssumption DEF VehicleAssumption
<1>2. 1 \in 1..kMaxSubCmds
  BY <1>1
<1>3. motor.remaining \in Nat /\ motor.cmd \in MotorSequencePayload
  BY DEF TypeOK, MotorOK
<1>4. motor.cmd.steps \in [1..kMaxSubCmds -> MotorSubCmd]
  BY <1>3 DEF MotorSequencePayload
<1>5. motor.cmd.steps[1] \in MotorSubCmd
  BY <1>2, <1>4
<1> QED BY <1>1, <1>3, <1>5 DEF MotorSubCmd

LEMMA CountingKept == ASSUME TypeOK, Counting, [Next]_vars PROVE Counting'
<1>1. ASSUME NEW t \in Thread, MotorSequence(t) PROVE Counting'
  <2> DEFINE d == Head(pending[t])
             c == Normalised(d)
  <2>1. d \in Command
    BY <1>1 DEF MotorSequence, TypeOK
  <2>2. c.steps[1].dur = d.steps[1].dur /\ d.steps[1].dur \in Nat
    BY <2>1, NormalisedStarts
  <2>3. motor'.cmd = c /\ (motor'.active => motor'.remaining = c.steps[1].dur)
    BY <1>1 DEF MotorSequence
  <2> HIDE DEF c, d
  <2> QED BY <2>2, <2>3 DEF Counting
<1>2. CASE MotorCounts
  <2>1. /\ motor'.active = motor.active /\ motor'.cmd = motor.cmd /\ motor'.idx = motor.idx
        /\ motor'.remaining = motor.remaining - kTickUs /\ motor.active
    BY <1>2 DEF MotorCounts, Applies, TypeOK, MotorOK
  <2> QED BY <2>1, MotorTimes DEF Counting
<1>3. CASE MotorAdvances
  <2>1. motor'.idx = motor.idx + 1 /\ motor.idx \in Nat
    BY <1>3 DEF MotorAdvances, TypeOK, MotorOK
  <2> QED BY <2>1 DEF Counting
<1>4. CASE UNCHANGED motor
  BY <1>4 DEF Counting
<1> QED
  BY <1>1, <1>2, <1>3, <1>4
     DEF Next, ClockStep, MotorTick, ReportStep, PeerStep, vars, Receive, ReceiveAuto, AutoCommand,
         Sample, MotorReturn, AutoTick, PowerTick, KinematicsTick, MotorIgnores,
         StateHears, PowerHears, KinematicsHears, Thread

\* While the motor runs a sequence it goes on having been given a tick of it.
LEMMA TickedKept ==
  ASSUME TypeOK, Counting, motor.active, Ticked, [Next]_vars, \A t \in Thread : ~ MotorSequence(t)
  PROVE  Ticked'
<1>1. CASE MotorCounts
  <2>1. /\ motor'.cmd = motor.cmd /\ motor'.idx = motor.idx
        /\ motor'.remaining = motor.remaining - kTickUs
    BY <1>1 DEF MotorCounts, TypeOK, MotorOK
  <2> QED BY <2>1, MotorTimes DEF Counting, Ticked
<1>2. CASE MotorAdvances
  <2>1. motor'.idx = motor.idx + 1 /\ motor.idx \in Nat
    BY <1>2 DEF MotorAdvances, TypeOK, MotorOK
  <2> QED BY <2>1 DEF Ticked
<1>3. CASE Sample
  <2>1. Range(tick.left) = {} /\ UNCHANGED motor
    BY <1>3, RangeOfNone DEF Sample
  <2> QED BY <2>1 DEF Ticked
<1>4. CASE MotorIgnores
  <2>1. tick.cmd_id # motor.cmd.cmd_id /\ UNCHANGED motor
    BY <1>4 DEF MotorIgnores, Applies
  <2> QED BY <2>1 DEF Ticked
<1>5. CASE AutoTick \/ PowerTick \/ KinematicsTick
  <2>1. PICK x : Takes(x) /\ x # "Motor"
    BY <1>5 DEF AutoTick, PowerTick, KinematicsTick
  <2>2. tick'.cmd_id = tick.cmd_id /\ ("Motor" \in Range(tick.left) => "Motor" \in Range(tick'.left))
    BY <2>1, TakesKeeps, TakenOnly
  <2>3. UNCHANGED motor
    BY <1>5 DEF AutoTick, PowerTick, KinematicsTick
  <2> QED BY <2>2, <2>3 DEF Ticked
<1>6. CASE UNCHANGED <<motor, tick>>
  BY <1>6 DEF Ticked
<1> QED
  BY <1>1, <1>2, <1>3, <1>4, <1>5, <1>6
     DEF Next, ClockStep, MotorTick, ReportStep, PeerStep, vars, Receive, ReceiveAuto, AutoCommand,
         MotorReturn, StateHears, PowerHears, KinematicsHears, Thread

\* The tick that has reached Kinematics goes on to the motor.
LEMMA MotorIsNext ==
  ASSUME TypeOK, LastTaken, KinematicsTick
  PROVE  "Motor" \in Range(tick'.left)
<1> DEFINE S == {"Autonomous", "Power", "Kinematics", "Motor"}
           n == Len(tick.left)
<1>1. tick.left \in Seq(S) /\ tick.left # <<>> /\ Takes("Kinematics") /\ tick.left[1] = "Kinematics"
  BY DEF KinematicsTick, Takes, TypeOK
<1>2. n \in Nat \ {0} /\ DOMAIN tick.left = 1..n
  BY <1>1, EmptySeq
<1>3. tick.left[n] = "Motor"
  BY <1>2 DEF LastTaken
<1>4. "Motor" \in Range(tick.left)
  BY <1>2, <1>3 DEF Range
<1> QED BY <1>1, <1>4, TakenOnly

TickedFirst == Counting /\ LastTaken /\ (Evidence /\ motor.active => Ticked)

LEMMA TickedFirstKept ==
  ASSUME OwnIds, MotorIsLast, AInv, AInv', HeardFirst, TickedFirst, [LinkNext]_linkVars
  PROVE  TickedFirst'
<1>1. Typed /\ TypeOK /\ [Next]_vars
  BY LinkStepsVehicle DEF AInv, Typed, LinkTypeOK
<1>2. Counting' /\ LastTaken'
  BY <1>1, CountingKept, LastTakenKept DEF TickedFirst
<1>3. ASSUME Evidence', motor'.active PROVE Ticked'
  <2>1. /\ Evidence \/ (KinematicsTick /\ tick.cmd_id = client.cmd.cmd_id)
        /\ Heard
    BY <1>3, EvidenceArises DEF HeardFirst
  <2>2. /\ \A t \in Thread : ~ MotorSequence(t)
        /\ motor.active /\ motor.cmd.cmd_id = client.cmd.cmd_id
    BY <1>1, <1>3, <2>1, NoneIsTaken
  <2>3. CASE Evidence
    BY <1>1, <2>2, <2>3, TickedKept DEF TickedFirst
  <2>4. CASE KinematicsTick /\ tick.cmd_id = client.cmd.cmd_id
    <3>1. "Motor" \in Range(tick'.left)
      BY <1>1, <2>4, MotorIsNext DEF TickedFirst
    <3>2. tick'.cmd_id = tick.cmd_id /\ UNCHANGED motor
      BY <1>1, <2>4, TakesKeeps DEF KinematicsTick
    <3> QED BY <2>2, <2>4, <3>1, <3>2 DEF Ticked
  <2> QED BY <2>1, <2>3, <2>4
<1> QED BY <1>2, <1>3 DEF TickedFirst

LEMMA TickedFirstInit == LinkInit => TickedFirst
<1> SUFFICES ASSUME LinkInit PROVE TickedFirst
  OBVIOUS
<1>1. ~ motor.active /\ Len(tick.left) = 0
  BY DEF LinkInit, Init
<1> QED BY <1>1 DEF TickedFirst, Counting, LastTaken

\* StartMeansMoving (StartedIsMoving): if each sequence has an id of its own and the motor is the
\* last to take a tick, a test that has seen its sequence start can rely on the motor having
\* counted a tick of this very sequence or being about to, for as long as the motor runs: time
\* that an earlier sequence has left under the new id is no evidence.
THEOREM StartMeansMoving == ASSUME OwnIds, MotorIsLast PROVE LinkSpec => []StartedIsMoving
<1> DEFINE SInv == AInv /\ HeardFirst /\ TickedFirst
<1>1. LinkInit => SInv
  BY LinkInitTypes, InitReports, AcceptedInit, HeardFirstInit, TickedFirstInit DEF AInv, LinkInit
<1>2. SInv /\ [LinkNext]_linkVars => SInv'
  BY AInvKept, HeardFirstKept, TickedFirstKept
<1>3. SInv => StartedIsMoving
  BY DEF TickedFirst, Evidence, StartedIsMoving
<1> QED BY <1>1, <1>2, <1>3, PTL DEF LinkSpec
-----------------------------------------------------------------------------
(* What the end of the three loops shows.  Behind the last sequence the    *)
(* test asks only for the kinematics until it has seen it start; so when   *)
(* the loop for the completion drains its buffers, no answer about the     *)
(* state before the sequence is left, nor any request for one.             *)

AsksState(d) == d.id = "StateRequest"

TellsState(m) == m.id = "StateData"

\* Nobody waits for the state.
Unasked ==
    /\ \A d \in Range(toApp) \cup Range(rx.datagram) : ~ AsksState(d)
    /\ \A m \in Range(reply) : ~ TellsState(m)

\* The motor has the last sequence, or the receiver is handing it over.
Delivered == Shows(client.cmd.cmd_id) \/ client.cmd \in Range(pending["rx"])

\* No request for the state is behind the last sequence.
NoneBehind ==
    \A i, j \in 1..Len(toApp) :
        i < j /\ IsSequence(toApp[i]) /\ toApp[i].body = client.cmd => ~ AsksState(toApp[j])

AskedBefore == client.goal \in {"accept", "start"} => NoneBehind /\ (Delivered => Unasked)

Awaiting == client.goal = "complete" /\ client.pc = "recv"

\* What the loop for the completion may look at was asked for when the sequence ran.
NoneReady ==
    "moving" \in knows /\ motor.active =>
        /\ \A m \in Range(reply) : ~ SaysReady(m)
        /\ Awaiting => \A m \in Range(toClient) \cup Range(kept) : ~ SaysReady(m)

FinishedKnown == "finished" \in knows => "moving" \in knows /\ ~ motor.active

\* The sequence is only delivered by a step of the bridge that takes it from the buffer.
LEMMA DeliveredBy ==
  ASSUME OwnIds, AInv, AInv', [LinkNext]_linkVars, client'.cmd = client.cmd, Delivered'
  PROVE  Delivered \/ (Recvfrom /\ IsSequence(Head(toApp)) /\ Head(toApp).body = client.cmd)
<1>1. Typed /\ Accepted /\ TypeOK /\ Reporting
  BY DEF AInv, Typed, LinkTypeOK
<1>2. client.cmd.cmd_id \in Ids
  BY <1>1 DEF Typed, Shaped, Ids, Command, NoCommand
<1>3. CASE Recvfrom
  <2>1. UNCHANGED <<toClient, reply, kept>>
    BY <1>3 DEF Recvfrom
  <2>2. CASE IsSequence(Head(toApp))
    <3>1. Receive(Head(toApp).body)
      BY <1>3, <2>2 DEF Recvfrom, IsSequence
    <3>2. pending'["rx"] = <<Head(toApp).body>> /\ UNCHANGED <<motor, state, kin, tick>>
      BY <1>1, <3>1 DEF Receive, Issue, TypeOK, Thread
    <3>3. Shows(client.cmd.cmd_id)' => Shows(client.cmd.cmd_id)
      BY <2>1, <3>2 DEF Shows, Answered
    <3> QED BY <1>3, <2>2, <3>2, <3>3, RangeOfOne DEF Delivered
  <2>3. CASE ~ IsSequence(Head(toApp))
    <3>1. UNCHANGED vars
      BY <1>3, <2>3 DEF Recvfrom, IsSequence
    <3> QED BY <2>1, <3>1 DEF Delivered, Shows, Answered, vars
  <2> QED BY <2>2, <2>3
<1>4. CASE StateAnswers \/ KinematicsAnswers \/ EnvironmentTakes \/ ThermalTakes \/ Forward
  <2>1. UNCHANGED vars /\ \A m \in Answered' : m \in Answered \/ (m.id = "KinematicsData" => m.cmd_id = kin.cmd_id)
    BY <1>1, <1>4, BridgeAnswers
  <2> QED BY <1>2, <2>1, ShowsKept DEF Delivered, vars
<1>5. CASE Stray \/ UNCHANGED linkVars
  <2>1. UNCHANGED <<vars, toClient, reply, kept>>
    BY <1>5 DEF Stray, linkVars, link
  <2> QED BY <2>1 DEF Delivered, Shows, Answered, vars
<1>6. CASE Fixtures
  <2>1. UNCHANGED vars
    BY <1>6 DEF Fixtures, Register, Poll, GiveUp, TakeKept, RecvMsg, Timeout, AwaitCompletion, Dispatch,
                SetEnvironment
  <2>2. \A m \in Answered' : m \in Answered
    BY <1>1, <1>6, FixturesAnswers DEF Answered
  <2> QED BY <1>2, <2>1, <2>2, ShowsKept DEF Delivered, vars
<1>7. CASE Simulator
  <2>1. Next /\ UNCHANGED <<client, Answered>>
    BY <1>1, <1>7, SimulatorSteps DEF link, Answered
  <2>2. CASE MotorSequence("rx")
    <3> DEFINE c == Head(pending["rx"])
    <3>1. /\ pending["rx"] = <<c>> /\ c \in client.sent /\ motor'.cmd = Normalised(c)
          /\ pending'["rx"] = <<>>
      <4>1. pending["rx"] # <<>> /\ pending["rx"] = <<c>>
        BY <1>1, <2>2 DEF MotorSequence, TypeOK, Thread
      <4>2. c \in Range(pending["rx"])
        BY <4>1, RangeOfOne
      <4> QED BY <1>1, <2>2, <4>1, <4>2 DEF MotorSequence, TypeOK, Thread, Accepted, Known
    <3>2. Shows(client.cmd.cmd_id)'
      BY <3>1, RangeOfNone DEF Delivered
    <3>3. Normalised(client.cmd) = Normalised(c)
      BY <2>1, <3>1, <3>2 DEF AInv, Accepted, LastSent, Taken
    <3>4. client.cmd.cmd_id = c.cmd_id
      BY <3>3, NormalisedId
    <3>5. client.cmd = c
      BY <1>1, <3>1, <3>4 DEF Accepted, Known, OwnIds, Typed, Shaped
    <3> QED BY <3>1, <3>5, RangeOfOne DEF Delivered
  <2>3. CASE ~ MotorSequence("rx")
    <3>1. ~ MotorSequence("clock") /\ ~ \E d \in AutoCommands : AutoCommand(d)
      BY <1>1 DEF MotorSequence, Accepted, Known, OwnIds
    <3>2. UNCHANGED pending
      BY <1>7, <2>3, <3>1
         DEF Simulator, ClockStep, MotorTick, ReportStep, Sample, AutoTick, PowerTick, KinematicsTick,
             MotorIgnores, MotorCounts, MotorAdvances, StateHears, PowerHears, KinematicsHears, MotorReturn
    <3>3. Shows(client.cmd.cmd_id)' => Shows(client.cmd.cmd_id)
      BY <1>1, <2>1, <2>3, <3>1, IdsSpread DEF Thread, Shows
    <3> QED BY <2>1, <3>2, <3>3 DEF Delivered
  <2> QED BY <2>2, <2>3
<1> QED BY <1>3, <1>4, <1>5, <1>6, <1>7, LinkCases
\* The buffer of the bridge in a step that puts neither a sequence nor a request for the
\* state into it.
Quiet == Carries(toApp, toApp', {"MotorSequence", "StateRequest"})

LEMMA QuietIs ==
  ASSUME Typed, Typed', Quiet, client'.cmd = client.cmd, NoneBehind
  PROVE  NoneBehind' /\ \A d \in Range(toApp') : AsksState(d) => d \in Range(toApp)
<1>1. \A d \in Range(toApp') : AsksState(d) => d \in Range(toApp)
  BY CarriesRange DEF Typed, LinkTypeOK, Quiet, AsksState
<1>2. ASSUME NEW i \in 1..Len(toApp'), NEW j \in 1..Len(toApp'), i < j,
             IsSequence(toApp'[i]), toApp'[i].body = client.cmd, AsksState(toApp'[j])
      PROVE  FALSE
  <2>1. PICK k \in {0, 1} : /\ i + k \in 1..Len(toApp) /\ toApp'[i] = toApp[i + k]
                            /\ j + k \in 1..Len(toApp) /\ toApp'[j] = toApp[j + k]
    BY <1>2 DEF Quiet, Carries, IsSequence, AsksState
  <2>2. i + k < j + k
    BY <1>2
  <2> QED BY <1>2, <2>1, <2>2 DEF NoneBehind
<1> QED BY <1>1, <1>2 DEF NoneBehind

LEMMA QuietBy ==
  ASSUME Typed, NEW d \in Requests, ~ IsSequence(d), ~ AsksState(d),
         \/ toApp' = toApp
         \/ toApp # <<>> /\ toApp' = Tail(toApp)
         \/ toApp' = Arrived(toApp, d)
  PROVE  Quiet
<1>1. toApp \in Seq(Requests) /\ Len(toApp) <= Buffer
  BY DEF Typed, LinkTypeOK
<1>2. d.id \notin {"MotorSequence", "StateRequest"}
  BY DEF IsSequence, AsksState
<1> QED BY <1>1, <1>2, CarriesMost DEF Quiet

LEMMA PlainIsQuiet == Plain \in Requests /\ ~ IsSequence(Plain) /\ ~ AsksState(Plain)
BY DatagramIs DEF Plain, Datagram, IsSequence, AsksState

LEMMA AskedRecvfrom ==
  ASSUME Typed, Typed', AskedBefore, Recvfrom,
         Delivered' => Delivered \/ (IsSequence(Head(toApp)) /\ Head(toApp).body = client.cmd)
  PROVE  AskedBefore'
<1> DEFINE d == Head(toApp)
<1>1. /\ toApp \in Seq(Requests) /\ toApp # <<>> /\ toApp' = Tail(toApp) /\ d \in Requests
      /\ UNCHANGED <<reply, client>> /\ rx.datagram = <<>> /\ reply = <<>>
      /\ rx' = rx \/ rx'.datagram = <<d>>
      /\ IsSequence(d) => rx' = rx
  BY ReceiveType DEF Recvfrom, RxIdle, Typed, LinkTypeOK, IsSequence
<1>2. /\ Len(toApp) \in Nat /\ 1 \in 1..Len(toApp) /\ d = toApp[1] /\ d \in Range(toApp)
      /\ \A i \in 1..Len(toApp') : i + 1 \in 1..Len(toApp) /\ toApp'[i] = toApp[i + 1]
      /\ toApp' \in Seq(Requests) /\ Range(toApp') \subseteq Range(toApp)
  BY <1>1, TailIs
<1> SUFFICES ASSUME client.goal \in {"accept", "start"}
             PROVE  NoneBehind' /\ (Delivered' => Unasked')
  BY <1>1 DEF AskedBefore
<1>3. NoneBehind /\ (Delivered => Unasked)
  BY DEF AskedBefore
<1>4. NoneBehind'
  BY <1>1, <1>3, QuietBy, QuietIs, PlainIsQuiet
<1>5. \A m \in Range(reply') : ~ TellsState(m)
  BY <1>1, RangeOfNone
<1>6. CASE Delivered
  <2>1. \A e \in Range(toApp) : ~ AsksState(e)
    BY <1>3, <1>6 DEF Unasked
  <2>2. \A e \in Range(rx'.datagram) : ~ AsksState(e)
    <3>1. CASE rx'.datagram = <<d>>
      <4>1. Range(rx'.datagram) = {d}
        BY <3>1, RangeOfOne
      <4> QED BY <1>2, <2>1, <4>1
    <3>2. CASE rx'.datagram = <<>>
      BY <3>2, RangeOfNone
    <3> QED BY <1>1, <3>1, <3>2
  <2> QED BY <1>2, <1>4, <1>5, <2>1, <2>2 DEF Unasked
<1>7. CASE IsSequence(d) /\ d.body = client.cmd
  <2>1. \A i \in 1..Len(toApp') : ~ AsksState(toApp'[i])
    <3> SUFFICES ASSUME NEW i \in 1..Len(toApp') PROVE ~ AsksState(toApp'[i])
      OBVIOUS
    <3>1. i + 1 \in 1..Len(toApp) /\ toApp'[i] = toApp[i + 1] /\ 1 < i + 1
      BY <1>2
    <3> QED BY <1>2, <1>3, <1>7, <3>1 DEF NoneBehind
  <2>2. \A e \in Range(toApp') : ~ AsksState(e)
    BY <1>2, <2>1 DEF Range
  <2>3. \A e \in Range(rx'.datagram) : ~ AsksState(e)
    BY <1>1, <1>7, RangeOfNone
  <2> QED BY <1>4, <1>5, <2>2, <2>3 DEF Unasked
<1> QED BY <1>1, <1>4, <1>6, <1>7

LEMMA AskedBridge ==
  ASSUME Typed, Typed', AskedBefore, Delivered' => Delivered,
         StateAnswers \/ KinematicsAnswers \/ EnvironmentTakes \/ ThermalTakes \/ Forward
  PROVE  AskedBefore'
<1>1. UNCHANGED <<toApp, client>>
  BY BridgeAnswers
<1> SUFFICES ASSUME client.goal \in {"accept", "start"}
             PROVE  NoneBehind' /\ (Delivered' => Unasked')
  BY <1>1 DEF AskedBefore
<1>2. NoneBehind /\ (Delivered => Unasked)
  BY DEF AskedBefore
<1>3. NoneBehind'
  BY <1>1, <1>2 DEF NoneBehind
<1>4. ASSUME Unasked PROVE Unasked'
  <2>1. CASE Forward
    BY <1>1, <1>4, <2>1, RangeOfNone DEF Forward, Unasked
  <2>2. ASSUME NEW h \in {"StateRequest", "KinematicsRequest", "Environment", "Thermal"}, Handles(h)
        PROVE  /\ h # "StateRequest"
               /\ \A e \in Range(rx'.datagram) : ~ AsksState(e)
    <3>1. rx.datagram = <<Head(rx.datagram)>> /\ rx'.datagram \in {<<>>, rx.datagram}
          /\ (h = "StateRequest" => Head(rx.datagram).id = h)
      BY <2>2, HandlesTypes
    <3>2. Head(rx.datagram) \in Range(rx.datagram)
      BY <3>1, RangeOfOne
    <3> QED BY <1>4, <3>1, <3>2, RangeOfNone DEF Unasked, AsksState
  <2>3. CASE KinematicsAnswers \/ EnvironmentTakes
    <3>1. \A e \in Range(rx'.datagram) : ~ AsksState(e)
      BY <2>2, <2>3 DEF KinematicsAnswers, EnvironmentTakes
    <3>2. PICK m : reply' = <<m>> /\ ~ TellsState(m)
      BY <2>3 DEF KinematicsAnswers, Answers, EnvironmentTakes, TellsState
    <3> QED BY <1>1, <1>4, <3>1, <3>2, RangeOfOne DEF Unasked
  <2>4. CASE ThermalTakes
    <3>1. (\A e \in Range(rx'.datagram) : ~ AsksState(e)) /\ UNCHANGED reply
      BY <2>2, <2>4 DEF ThermalTakes
    <3> QED BY <1>1, <1>4, <3>1 DEF Unasked
  <2>5. ~ StateAnswers
    BY <2>2 DEF StateAnswers
  <2> QED BY <2>1, <2>3, <2>4, <2>5
<1> QED BY <1>2, <1>3, <1>4

LEMMA AskedOthers ==
  ASSUME Typed, Typed', AskedBefore, Delivered' => Delivered, NEW d \in Requests, ~ IsSequence(d), ~ AsksState(d),
         toApp' = toApp \/ toApp' = Arrived(toApp, d), UNCHANGED <<rx, reply>>, client'.cmd = client.cmd,
         client'.goal \in {"accept", "start"} => client.goal \in {"accept", "start"}
  PROVE  AskedBefore'
<1> SUFFICES ASSUME client.goal \in {"accept", "start"}
             PROVE  NoneBehind' /\ (Delivered' => Unasked')
  BY DEF AskedBefore
<1>1. NoneBehind /\ (Delivered => Unasked)
  BY DEF AskedBefore
<1>2. NoneBehind' /\ \A e \in Range(toApp') : AsksState(e) => e \in Range(toApp)
  BY <1>1, QuietBy, QuietIs
<1> QED BY <1>1, <1>2 DEF Unasked

LEMMA AskedFixtures ==
  ASSUME OwnIds, AInv, AInv', AskedBefore, Fixtures,
         client'.cmd = client.cmd => (Delivered' => Delivered)
  PROVE  AskedBefore'
<1>1. Typed /\ Typed' /\ Accepted /\ UNCHANGED <<vars, rx, reply>>
  BY DEF AInv, Fixtures, Register, Poll, GiveUp, TakeKept, RecvMsg, Timeout, AwaitCompletion, Dispatch,
         SetEnvironment
<1>2. client \in [goal : Goals, pc : {"send", "recv"}, cmd : RxCommands \cup {NoCommand},
                  env : {<<>>} \cup { <<d>> : d \in EnvironmentData }, sent : SUBSET RxCommands]
  BY <1>1 DEF Typed, Shaped
<1>3. ASSUME NEW c \in RxCommands, Dispatch(c) PROVE AskedBefore'
  <2> DEFINE d == Datagram("test", "MotorSequence", c)
  <2>1. /\ d \in Requests /\ toApp' = Arrived(toApp, d) /\ client'.cmd = c /\ c \notin client.sent
        /\ UNCHANGED <<toClient, kept>>
    BY <1>2, <1>3, DatagramIs DEF Dispatch, Sends
  <2>2. toApp \in Seq(Requests) /\ Len(toApp) <= Buffer
    BY <1>1 DEF Typed, LinkTypeOK
  <2>3. \A k \in 1..Len(toApp') :
            \/ k \in 1..Len(toApp) /\ toApp'[k] = toApp[k]
            \/ k = Len(toApp) + 1 /\ toApp'[k] = d
    <3> HIDE DEF d
    <3>1. toApp \in Seq(Requests) /\ Len(toApp) <= Buffer /\ d \in Requests /\ toApp' = Arrived(toApp, d)
      BY <2>1, <2>2
    <3> QED BY ONLY <3>1, ArrivedIs
  <2>4. ASSUME NEW i \in 1..Len(toApp'), IsSequence(toApp'[i]), toApp'[i].body = c
        PROVE  i = Len(toApp) + 1
    <3>1. SUFFICES ASSUME i \in 1..Len(toApp), toApp'[i] = toApp[i] PROVE FALSE
      BY <2>3
    <3>2. toApp[i] \in Range(toApp)
      BY <2>2, <3>1 DEF Range
    <3> QED BY <1>1, <2>1, <2>4, <3>1, <3>2 DEF Accepted, Known
  <2>5. NoneBehind'
    <3> SUFFICES ASSUME NEW i \in 1..Len(toApp'), NEW j \in 1..Len(toApp'), i < j,
                        IsSequence(toApp'[i]), toApp'[i].body = c
                 PROVE  FALSE
      BY <2>1 DEF NoneBehind
    <3>1. i = Len(toApp) + 1
      BY <2>4
    <3> QED BY <2>2, <2>3, <3>1
  <2>6. ~ Delivered'
    <3>1. ~ Shows(c.cmd_id) /\ c \notin Range(pending["rx"])
      BY <1>1, <1>3, <2>1, DispatchesNew DEF Accepted, Known
    <3> QED BY <1>1, <2>1, <3>1 DEF Delivered, Shows, Answered, vars
  <2> QED BY <2>5, <2>6 DEF AskedBefore
<1>4. CASE Poll
  <2> DEFINE d == Datagram("test", Request[client.goal], <<>>)
  <2>1. client.goal \in DOMAIN Request /\ toApp' = Arrived(toApp, d) /\ client'.goal = client.goal
        /\ client'.cmd = client.cmd
    BY <1>2, <1>4 DEF Poll, Polling, Sends
  <2>2. CASE client.goal \in {"accept", "start"}
    <3>1. d \in Requests /\ ~ IsSequence(d) /\ ~ AsksState(d)
      BY <2>2, DatagramIs DEF Request, Datagram, IsSequence, AsksState
    <3> HIDE DEF d
    <3> QED BY <1>1, <2>1, <3>1, AskedOthers
  <2>3. CASE client.goal \notin {"accept", "start"}
    BY <2>1, <2>3 DEF AskedBefore
  <2> QED BY <2>2, <2>3
<1>5. CASE Register \/ AwaitCompletion \/ \E e \in EnvironmentData : SetEnvironment(e)
  BY <1>2, <1>5 DEF Register, AwaitCompletion, SetEnvironment, AskedBefore
<1>6. CASE (GiveUp \/ TakeKept \/ RecvMsg \/ Timeout) /\ ~ \E c \in RxCommands : Dispatch(c)
  <2>1. toApp' = toApp /\ client'.cmd = client.cmd
    BY <1>1, <1>6, FixturesLearn DEF GiveUp, TakeKept, RecvMsg, Timeout, Fixtures
  <2>2. ASSUME NEW m, Receiving, Examines(m), client'.goal \in {"accept", "start"}
        PROVE  client.goal \in {"accept", "start"}
    <3>1. client.goal \in {"connect", "accept", "start", "complete", "ack"}
      BY <2>2, Tables DEF Receiving
    <3>2. CASE client.goal = "ack"
      BY <1>2, <2>2, <3>2 DEF Examines, Fails
    <3>3. CASE client.goal \in {"connect", "complete"}
      <4>1. Follows[client.goal] = {"free"}
        BY <3>3 DEF Follows
      <4>2. client' = [client EXCEPT !.goal = "free", !.pc = "send"] \/ client' = [client EXCEPT !.pc = "send"]
        BY <2>2, <3>3, <4>1 DEF Examines
      <4> QED BY <1>2, <2>2, <3>3, <4>2
    <3> QED BY <3>1, <3>2, <3>3
  <2>3. client'.goal \in {"accept", "start"} => client.goal \in {"accept", "start"}
    <3>1. CASE GiveUp \/ Timeout
      BY <1>2, <3>1 DEF GiveUp, Timeout, Fails
    <3>2. CASE TakeKept
      BY <2>2, <3>2 DEF TakeKept
    <3>3. CASE RecvMsg
      <4>1. Receiving /\ (Examines(Head(toClient)) \/ UNCHANGED client)
        BY <3>3 DEF RecvMsg
      <4> QED BY <2>2, <4>1
    <3> QED BY <1>6, <3>1, <3>2, <3>3
  <2> QED BY <1>1, <2>1, <2>3, AskedOthers, PlainIsQuiet
<1> QED BY <1>3, <1>4, <1>5, <1>6 DEF Fixtures

LEMMA AskedBeforeKept ==
  ASSUME OwnIds, AInv, AInv', AskedBefore, [LinkNext]_linkVars
  PROVE  AskedBefore'
<1>1. Typed /\ Typed'
  BY DEF AInv
<1>2. CASE Recvfrom
  <2>1. client'.cmd = client.cmd
    BY <1>2 DEF Recvfrom
  <2> QED BY <1>1, <1>2, <2>1, DeliveredBy, AskedRecvfrom
<1>3. CASE ~ Recvfrom /\ Fixtures
  BY <1>3, DeliveredBy, AskedFixtures
<1>4. CASE ~ Recvfrom /\ (StateAnswers \/ KinematicsAnswers \/ EnvironmentTakes \/ ThermalTakes \/ Forward)
  <2>1. client'.cmd = client.cmd
    BY <1>1, <1>4, BridgeAnswers
  <2> QED BY <1>1, <1>4, <2>1, DeliveredBy, AskedBridge
<1>5. CASE ~ Recvfrom /\ (Stray \/ Simulator \/ UNCHANGED linkVars)
  <2>1. UNCHANGED <<rx, reply, client>> /\ toApp' \in {toApp, Arrived(toApp, Plain)}
    BY <1>5 DEF Stray, Simulator, linkVars, link, Plain
  <2>2. Delivered' => Delivered
    BY <1>5, <2>1, DeliveredBy
  <2> QED BY <1>1, <2>1, <2>2, AskedOthers, PlainIsQuiet
<1> QED BY <1>2, <1>3, <1>4, <1>5, LinkCases
LEMMA NoneReadyKept ==
  ASSUME OwnIds, AInv, AInv', HeardFirst, AskedBefore, NoneReady, [LinkNext]_linkVars
  PROVE  NoneReady'
<1>1. Typed /\ Typed' /\ TypeOK /\ [Next]_vars
  BY LinkStepsVehicle DEF AInv, Typed, LinkTypeOK
<1> SUFFICES ASSUME "moving" \in knows', motor'.active
             PROVE  /\ \A m \in Range(reply') : ~ SaysReady(m)
                    /\ Awaiting' => \A m \in Range(toClient') \cup Range(kept') : ~ SaysReady(m)
  BY DEF NoneReady
<1>2. Heard /\ client'.cmd = client.cmd
  BY EvidenceArises DEF Evidence, HeardFirst
<1>3. motor.active /\ Shows(client.cmd.cmd_id) /\ state.st = "Executing"
  BY <1>1, <1>2, NoneIsTaken DEF HeardFirst
<1>4. ASSUME "moving" \in knows
      PROVE  /\ \A m \in Range(reply) : ~ SaysReady(m)
             /\ Awaiting => \A m \in Range(toClient) \cup Range(kept) : ~ SaysReady(m)
  BY <1>3, <1>4 DEF NoneReady
<1>5. CASE Recvfrom \/ Stray \/ Simulator \/ UNCHANGED linkVars
  <2>1. UNCHANGED <<reply, toClient, kept, client, knows>>
    BY <1>5 DEF Recvfrom, Stray, Simulator, linkVars, link
  <2> QED BY <1>4, <2>1 DEF Awaiting
<1>6. CASE StateAnswers \/ KinematicsAnswers \/ EnvironmentTakes
  <2>1. PICK m : reply' = <<m>> /\ ~ SaysReady(m)
    BY <1>3, <1>6 DEF StateAnswers, KinematicsAnswers, Answers, EnvironmentTakes, SaysReady
  <2>2. UNCHANGED <<toClient, kept, client, knows>>
    BY <1>6 DEF StateAnswers, KinematicsAnswers, Answers, EnvironmentTakes
  <2>3. \A a \in Range(reply') : ~ SaysReady(a)
    BY <2>1, RangeOfOne
  <2> QED BY <1>4, <2>2, <2>3 DEF Awaiting
<1>7. CASE ThermalTakes
  <2>1. UNCHANGED <<reply, toClient, kept, client, knows>>
    BY <1>7 DEF ThermalTakes
  <2> QED BY <1>4, <2>1 DEF Awaiting
<1>8. CASE Forward
  <2>1. /\ reply \in Seq(Answer) /\ reply # <<>> /\ toClient \in Seq(Answer) /\ Len(toClient) <= Buffer
        /\ toClient' = Forwarded(Head(reply)) /\ reply' = <<>> /\ UNCHANGED <<kept, client, knows>>
    BY <1>1, <1>8 DEF Forward, Typed, LinkTypeOK
  <2>2. Head(reply) \in Answer /\ Head(reply) \in Range(reply)
    BY <2>1, TailIs
  <2>3. Range(toClient') \subseteq Range(toClient) \cup {Head(reply)}
    BY <2>1, <2>2, ArrivedIs DEF Forwarded
  <2>4. Range(reply') = {}
    BY <2>1, RangeOfNone
  <2> QED BY <1>4, <2>1, <2>2, <2>3, <2>4 DEF Awaiting
<1>9. CASE Fixtures
  <2>1. ~ \E c \in RxCommands : Dispatch(c)
    <3> SUFFICES ASSUME NEW c \in RxCommands, Dispatch(c) PROVE FALSE
      OBVIOUS
    <3> QED BY DEF Dispatch
  <2>2. UNCHANGED reply /\ Range(toClient') \cup Range(kept') \subseteq Range(toClient) \cup Range(kept)
    BY <1>1, <1>9, FixturesAnswers
       DEF Fixtures, Register, Poll, GiveUp, TakeKept, RecvMsg, Timeout, AwaitCompletion, Dispatch, SetEnvironment
  <2>3. client \in [goal : Goals, pc : {"send", "recv"}, cmd : RxCommands \cup {NoCommand},
                    env : {<<>>} \cup { <<d>> : d \in EnvironmentData }, sent : SUBSET RxCommands]
    BY <1>1 DEF Typed, Shaped
  <2>4. ASSUME NEW m, Receiving, Examines(m) PROVE ~ Awaiting'
    <3>1. \/ client.goal = "ack" /\ client'.goal \in {"free", "failed"}
          \/ client'.pc = "send"
      BY <2>3, <2>4 DEF Examines, Fails
    <3> QED BY <3>1 DEF Awaiting
  <2>5. CASE "moving" \in knows
    <3>1. CASE Poll
      <4>1. Awaiting' => toClient' = <<>> /\ kept' = <<>>
        BY <2>3, <3>1 DEF Poll, Drain, Awaiting
      <4> QED BY <1>4, <2>2, <2>5, <4>1, RangeOfNone
    <3>2. CASE ~ Poll
      <4>1. Awaiting' => Awaiting
        <5>1. CASE Register \/ GiveUp \/ Timeout \/ AwaitCompletion \/ \E e \in EnvironmentData : SetEnvironment(e)
          BY <2>3, <5>1 DEF Register, GiveUp, Timeout, AwaitCompletion, SetEnvironment, Fails, Awaiting
        <5>2. CASE TakeKept
          BY <2>4, <5>2 DEF TakeKept
        <5>3. CASE RecvMsg
          <6>1. Receiving /\ (Examines(Head(toClient)) \/ UNCHANGED client)
            BY <5>3 DEF RecvMsg
          <6> QED BY <2>4, <6>1 DEF Awaiting
        <5> QED BY <1>9, <2>1, <3>2, <5>1, <5>2, <5>3 DEF Fixtures
      <4> QED BY <1>4, <2>2, <2>5, <4>1
    <3> QED BY <3>1, <3>2
  <2>6. CASE "moving" \notin knows
    <3>1. PICK m \in Range(toClient) \cup Range(kept) : Receiving /\ Wanted(m) /\ Examines(m)
      BY <1>1, <1>9, <2>1, <2>6, FixturesLearn
    <3>2. client.goal = "start"
      BY <1>1, <2>6, <3>1, LearnsFrom
    <3>3. Unasked
      BY <1>3, <3>2 DEF AskedBefore, Delivered
    <3> QED BY <2>2, <2>4, <3>1, <3>3 DEF Unasked, TellsState, SaysReady
  <2> QED BY <2>5, <2>6
<1> QED BY <1>5, <1>6, <1>7, <1>8, <1>9, LinkCases

LEMMA FinishedKnownKept ==
  ASSUME OwnIds, AInv, AInv', HeardFirst, NoneReady, FinishedKnown, [LinkNext]_linkVars
  PROVE  FinishedKnown'
<1>1. Typed /\ [Next]_vars
  BY LinkStepsVehicle DEF AInv
<1> SUFFICES ASSUME "finished" \in knows'
             PROVE  "moving" \in knows' /\ ~ motor'.active
  BY DEF FinishedKnown
<1>2. CASE ~ Fixtures
  <2>1. UNCHANGED knows
    BY <1>2, LinkCases
       DEF Recvfrom, StateAnswers, KinematicsAnswers, Answers, EnvironmentTakes, ThermalTakes, Forward,
           Stray, Simulator, linkVars, link
  <2>2. "moving" \in knows /\ ~ motor.active
    BY <2>1 DEF FinishedKnown
  <2>3. Heard
    BY <2>2 DEF HeardFirst, Evidence
  <2> QED BY <1>1, <2>1, <2>2, <2>3, NoneIsTaken
<1>3. CASE Fixtures
  <2>1. ~ \E c \in RxCommands : Dispatch(c)
    <3> SUFFICES ASSUME NEW c \in RxCommands, Dispatch(c) PROVE FALSE
      OBVIOUS
    <3> QED BY DEF Dispatch
  <2>2. UNCHANGED motor
    BY <1>3 DEF Fixtures, Register, Poll, GiveUp, TakeKept, RecvMsg, Timeout, AwaitCompletion, Dispatch,
                SetEnvironment, vars
  <2>3. CASE knows' \in {knows, knows \ {"acked"}}
    BY <2>2, <2>3 DEF FinishedKnown
  <2>4. ASSUME NEW m \in Range(toClient) \cup Range(kept), Receiving, Wanted(m), Examines(m)
        PROVE  "moving" \in knows' /\ ~ motor.active
    <3>1. CASE "finished" \in knows
      BY <1>1, <2>4, <3>1, LearnsFrom DEF FinishedKnown
    <3>2. CASE "finished" \notin knows
      <4>1. client.goal = "complete" /\ "moving" \in knows /\ SaysReady(m) /\ "moving" \in knows'
        BY <1>1, <2>4, <3>2, LearnsFrom
      <4>2. Awaiting
        BY <2>4, <4>1 DEF Awaiting, Receiving
      <4> QED BY <2>4, <4>1, <4>2 DEF NoneReady
    <3> QED BY <3>1, <3>2
  <2> QED BY <1>1, <1>3, <2>1, <2>2, <2>3, <2>4, FixturesLearn
<1> QED BY <1>2, <1>3

LEMMA FinishInit == LinkInit => AskedBefore /\ NoneReady /\ FinishedKnown
BY DEF LinkInit, AskedBefore, NoneReady, FinishedKnown

\* CompletionMeansFinished (CompletedIsFinished): if each sequence has an id of its own, a test
\* that has waited for all three finds its own sequence in the motor and the motor at rest:
\* "Ready" was not said of the time before the sequence, nor kept from it.
THEOREM CompletionMeansFinished == ASSUME OwnIds PROVE LinkSpec => []CompletedIsFinished
<1> DEFINE CInv == AInv /\ HeardFirst /\ AskedBefore /\ NoneReady /\ FinishedKnown
<1>1. LinkInit => CInv
  BY LinkInitTypes, InitReports, AcceptedInit, HeardFirstInit, FinishInit DEF AInv, LinkInit
<1>2. CInv /\ [LinkNext]_linkVars => CInv'
  BY AInvKept, HeardFirstKept, AskedBeforeKept, NoneReadyKept, FinishedKnownKept
<1>3. CInv => CompletedIsFinished
  <2> SUFFICES ASSUME CInv, "finished" \in knows PROVE Taken /\ ~ motor.active
    BY DEF CompletedIsFinished, Taken
  <2>1. Heard /\ ~ motor.active
    BY DEF FinishedKnown, HeardFirst, Evidence
  <2> QED BY <2>1 DEF Heard, Shows, AInv, Accepted, LastSent
<1> QED BY <1>1, <1>2, <1>3, PTL DEF LinkSpec
=============================================================================
