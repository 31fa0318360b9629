-------------------------------- MODULE Link --------------------------------
(***************************************************************************)
(* The program and a test that drives it over UDP: the receiver of         *)
(* UdpBridge, the socket buffers between the two, and the fixtures of the  *)
(* tests.  A request is not numbered: a test sends one, takes the next     *)
(* answer of the right type for its own, and sends another if none comes.  *)
(*                                                                         *)
(* On the loopback interface datagrams stay in order and are lost when the *)
(* buffer they arrive in is full, or when they go to another client: the   *)
(* bridge answers whoever sent last.  Forwarded log entries, which share   *)
(* the buffer with the answers, are left out; the buffer is small instead. *)
(***************************************************************************)
EXTENDS Vehicle, SequencesExt

CONSTANTS
    EnvironmentData,  \* what the test says of the environment: a region and its temperature
    DataOrder,        \* the subscribers of EnvironmentData, in the order of dispatch
    Buffer,           \* datagrams that fit in a socket's buffer
    MaxStrays         \* bound: the datagrams of other clients

ASSUME LinkAssumption ==
    /\ EnvironmentData \subseteq [region : Nat, temp : Nat]
    /\ DataOrder \in Seq({"Environment", "Thermal"}) /\ DataOrder # <<>>
    /\ Buffer \in Nat \ {0} /\ MaxStrays \in Nat

VARIABLES
    toApp,     \* the buffer of the bridge's socket
    toClient,  \* the buffer of the test's socket
    peer,      \* UdpBridge::peer_: "test", "other", or none yet
    rx,        \* the datagram the receiver dispatches, and who has yet to take it
    reply,     \* the answer a handler has filled in and not yet published: <<>> or <<m>>
    cache,     \* EnvironmentService::cache_: the temperature of each region known
    ambient,   \* ThermalService::ambient_temp_c_
    client,    \* the test: the fixture it is in, and what it has done
    kept,      \* UdpClient._queue: the answers received and not asked for yet
    knows,     \* what the fixtures that have returned told the test
    strays

link == <<toApp, toClient, peer, rx, reply, cache, ambient, client, kept, knows, strays>>

linkVars == <<vars, link>>

\* 20 degrees until told otherwise.
Initially == 20

LinkInit ==
    /\ Init
    /\ toApp = <<>> /\ toClient = <<>> /\ peer = None
    /\ rx = [datagram |-> <<>>, left |-> <<>>] /\ reply = <<>>
    /\ cache = <<>> /\ ambient = Initially
    /\ client = [goal |-> "register", pc |-> "send", cmd |-> NoCommand, env |-> <<>>, sent |-> {}]
    /\ kept = <<>> /\ knows = {} /\ strays = 0

\* The buffer after a datagram has arrived, or has been lost.
Arrived(buffer, d) == IF Len(buffer) < Buffer THEN Append(buffer, d) ELSE buffer

Datagram(from, id, body) == [from |-> from, id |-> id, body |-> body]

-----------------------------------------------------------------------------
(***************************************************************************)
(* UdpBridge::rx_loop and the handlers it runs.                            *)
(***************************************************************************)
RxIdle == Free("rx") /\ rx.datagram = <<>> /\ reply = <<>>

\* Mutant: the bridge keeps the first client it has heard of.
Peer_First(from) == IF peer = None THEN from ELSE peer

\* Every sender is the new peer, whatever it sent.
Peer(from) == from

\* A datagram too short for an id, or of an id or a size the bridge does not let
\* through, has no further effect; one of a sequence goes to the motor, one of the
\* environment to its subscribers, a request to the service that answers it.
Recvfrom ==
    /\ RxIdle /\ toApp # <<>>
    /\ toApp' = Tail(toApp)
    /\ LET d == Head(toApp)
       IN  /\ peer' = Peer(d.from)
           /\ IF d.id = "MotorSequence"
              THEN Receive(d.body) /\ UNCHANGED rx
              ELSE /\ UNCHANGED vars
                   /\ rx' = CASE d.id = "EnvironmentData" -> [datagram |-> <<d>>, left |-> DataOrder]
                              [] d.id \in {"StateRequest", "KinematicsRequest"} ->
                                     [datagram |-> <<d>>, left |-> <<d.id>>]
                              [] OTHER -> rx
    /\ UNCHANGED <<toClient, reply, cache, ambient, client, kept, knows, strays>>

\* Mutant: what a handler publishes is sent later, when the dispatch has gone on.
Handles_Overlaps(h) ==
    /\ rx.left # <<>> /\ Head(rx.left) = h
    /\ rx' = IF Len(rx.left) = 1 THEN [datagram |-> <<>>, left |-> <<>>]
             ELSE [rx EXCEPT !.left = Tail(@)]

\* The next handler of the datagram runs; the last one returns to select.
Handles(h) ==
    /\ reply = <<>> /\ rx.left # <<>> /\ Head(rx.left) = h
    /\ rx' = IF Len(rx.left) = 1 THEN [datagram |-> <<>>, left |-> <<>>]
             ELSE [rx EXCEPT !.left = Tail(@)]

\* The handlers of the requests copy the state under their lock and publish the
\* copy after they have released it.
Answers(m) ==
    /\ reply' = <<m>>
    /\ UNCHANGED <<vars, toApp, toClient, peer, cache, ambient, client, kept, knows, strays>>

StateAnswers ==
    Handles("StateRequest") /\ Answers([id |-> "StateData", st |-> state.st])

KinematicsAnswers ==
    Handles("KinematicsRequest")
        /\ Answers([id |-> "KinematicsData", cmd_id |-> kin.cmd_id, elapsed |-> kin.elapsed])

Remembered(d) == [r \in DOMAIN cache \cup {d.region} |-> IF r = d.region THEN d.temp ELSE cache[r]]

\* EnvironmentService::on_message(EnvironmentPayload)
EnvironmentTakes ==
    /\ Handles("Environment")
    /\ cache' = Remembered(Head(rx.datagram).body)
    /\ reply' = <<[id |-> "EnvironmentAck", region |-> Head(rx.datagram).body.region]>>
    /\ UNCHANGED <<vars, toApp, toClient, peer, ambient, client, kept, knows, strays>>

\* ThermalService::on_message(EnvironmentPayload)
ThermalTakes ==
    /\ Handles("Thermal")
    /\ ambient' = Head(rx.datagram).body.temp
    /\ UNCHANGED <<vars, toApp, toClient, peer, reply, cache, client, kept, knows, strays>>

\* forward_to_udp
Forwarded(m) == IF peer = "test" THEN Arrived(toClient, m) ELSE toClient

Forward ==
    /\ reply # <<>>
    /\ toClient' = Forwarded(Head(reply))
    /\ reply' = <<>>
    /\ UNCHANGED <<vars, toApp, peer, rx, cache, ambient, client, kept, knows, strays>>

\* Another client registers.
Stray ==
    /\ strays < MaxStrays /\ strays' = strays + 1
    /\ toApp' = Arrived(toApp, Datagram("other", "none", <<>>))
    /\ UNCHANGED <<vars, toClient, peer, rx, reply, cache, ambient, client, kept, knows>>

Bridge == Recvfrom \/ StateAnswers \/ KinematicsAnswers \/ EnvironmentTakes \/ ThermalTakes \/ Forward

-----------------------------------------------------------------------------
(***************************************************************************)
(* The fixtures.  `register' and `connect' are udp; `accept', `start' and `complete' are   *)
(* the loops of dispatch_sequence, the last also called by itself; `ack'   *)
(* is set_environment; `free' is the test between two calls.               *)
(***************************************************************************)
Request == [connect |-> "StateRequest", accept |-> "KinematicsRequest",
            start |-> "KinematicsRequest", complete |-> "StateRequest"]

Expected == [connect |-> "StateData", accept |-> "KinematicsData", start |-> "KinematicsData",
             complete |-> "StateData", ack |-> "EnvironmentAck"]

Polling == client.goal \in DOMAIN Request

Sends(id, body) == toApp' = Arrived(toApp, Datagram("test", id, body))

\* An empty datagram, which only tells the bridge whom to answer.
Register ==
    /\ client.goal = "register"
    /\ Sends("none", <<>>)
    /\ client' = [client EXCEPT !.goal = "connect"]
    /\ UNCHANGED <<vars, toClient, peer, rx, reply, cache, ambient, kept, knows, strays>>

\* Mutant: the loop for the end of a sequence does not drain.
Drain_Never == UNCHANGED <<toClient, kept>>

\* UdpClient.drain, at the head of the loop for the end of a sequence.
Drain ==
    IF client.goal = "complete" THEN toClient' = <<>> /\ kept' = <<>>
    ELSE UNCHANGED <<toClient, kept>>

\* Another round of a loop: the request is sent, and an answer awaited.
Poll ==
    /\ Polling /\ client.pc = "send"
    /\ Drain
    /\ Sends(Request[client.goal], <<>>)
    /\ client' = [client EXCEPT !.pc = "recv"]
    /\ UNCHANGED <<vars, peer, rx, reply, cache, ambient, knows, strays>>

\* The deadline of the loop, or the failure of a test.
Fails == client' = [client EXCEPT !.goal = "failed"] /\ UNCHANGED knows

GiveUp ==
    /\ Polling /\ client.pc = "send"
    /\ Fails
    /\ UNCHANGED <<vars, toApp, toClient, peer, rx, reply, cache, ambient, kept, strays>>

\* Mutant: any kinematics will do.
Satisfies_AnyId(m) ==
    CASE client.goal \in {"connect", "complete"} -> m.st = "Ready"
      [] client.goal = "accept" -> TRUE
      [] client.goal = "start" -> m.elapsed > 0

\* What the loop waits for.
Satisfies(m) ==
    CASE client.goal \in {"connect", "complete"} -> m.st = "Ready"
      [] client.goal = "accept" -> m.cmd_id = client.cmd.cmd_id
      [] client.goal = "start" -> m.cmd_id = client.cmd.cmd_id /\ m.elapsed > 0

Learns == [connect |-> "connected", accept |-> "taken", start |-> "moving",
           complete |-> IF "moving" \in knows THEN "finished" ELSE "ready"]

\* dispatch_sequence goes on to the next loop, or returns.
Follows == [connect |-> {"free"}, accept |-> {"free", "start"},
            start |-> {"free", "complete"}, complete |-> {"free"}]

\* The answer that recv_msg returns.
Examines(m) ==
    IF client.goal = "ack"
    THEN IF m.region = Head(client.env).region
         THEN client' = [client EXCEPT !.goal = "free"] /\ knows' = knows \cup {"acked"}
         ELSE Fails
    ELSE IF Satisfies(m)
    THEN \E next \in Follows[client.goal] :
             /\ client' = [client EXCEPT !.goal = next, !.pc = "send"]
             /\ knows' = knows \cup {Learns[client.goal]}
    ELSE client' = [client EXCEPT !.pc = "send"] /\ UNCHANGED knows

Receiving == client.goal \in DOMAIN Expected /\ client.pc = "recv"

Wanted(m) == m.id = Expected[client.goal]

Waiting == { i \in DOMAIN kept : Wanted(kept[i]) }

\* recv_msg: an answer that has been kept comes first,
TakeKept ==
    /\ Receiving /\ Waiting # {}
    /\ LET i == CHOOSE k \in Waiting : \A j \in Waiting : k <= j
       IN  Examines(kept[i]) /\ kept' = RemoveAt(kept, i)
    /\ UNCHANGED <<vars, toApp, toClient, peer, rx, reply, cache, ambient, strays>>

\* then the socket; what is not expected is kept.
RecvMsg ==
    /\ Receiving /\ Waiting = {} /\ toClient # <<>>
    /\ toClient' = Tail(toClient)
    /\ LET m == Head(toClient)
       IN  IF Wanted(m) THEN Examines(m) /\ UNCHANGED kept
           ELSE kept' = Append(kept, m) /\ UNCHANGED <<client, knows>>
    /\ UNCHANGED <<vars, toApp, peer, rx, reply, cache, ambient, strays>>

\* Mutant: set_environment does not ask whether there was an acknowledgement.
Timeout_Returns ==
    /\ Receiving /\ Waiting = {} /\ toClient = <<>>
    /\ IF client.goal = "ack" THEN client' = [client EXCEPT !.goal = "free"] /\ knows' = knows \cup {"acked"}
       ELSE client' = [client EXCEPT !.pc = "send"] /\ UNCHANGED knows
    /\ UNCHANGED <<vars, toApp, toClient, peer, rx, reply, cache, ambient, kept, strays>>

\* The timeout of the socket; a loop goes on, set_environment fails.
Timeout ==
    /\ Receiving /\ Waiting = {} /\ toClient = <<>>
    /\ IF client.goal = "ack" THEN Fails
       ELSE client' = [client EXCEPT !.pc = "send"] /\ UNCHANGED knows
    /\ UNCHANGED <<vars, toApp, toClient, peer, rx, reply, cache, ambient, kept, strays>>

\* dispatch_sequence of a sequence with an id of its own, to wait for it or not.
Dispatch(c) ==
    /\ client.goal = "free" /\ c \notin client.sent
    /\ Sends("MotorSequence", c)
    /\ \E next \in {"free", "accept"} :
           client' = [client EXCEPT !.goal = next, !.pc = "send", !.cmd = c, !.sent = @ \cup {c}]
    /\ knows' = knows \cap {"connected", "acked"}
    /\ UNCHANGED <<vars, toClient, peer, rx, reply, cache, ambient, kept, strays>>

\* wait_for_sequence_completion, called by itself.
AwaitCompletion ==
    /\ client.goal = "free" /\ client.sent # {} /\ "ready" \notin knows
    /\ client' = [client EXCEPT !.goal = "complete", !.pc = "send"]
    /\ UNCHANGED <<vars, toApp, toClient, peer, rx, reply, cache, ambient, kept, knows, strays>>

SetEnvironment(d) ==
    /\ client.goal = "free" /\ <<d>> # client.env
    /\ Sends("EnvironmentData", d)
    /\ client' = [client EXCEPT !.goal = "ack", !.pc = "recv", !.env = <<d>>]
    /\ knows' = knows \ {"acked"}
    /\ UNCHANGED <<vars, toClient, peer, rx, reply, cache, ambient, kept, strays>>

Waits == Poll \/ TakeKept \/ RecvMsg \/ Timeout

Test == Register \/ (\E c \in RxCommands : Dispatch(c)) \/ AwaitCompletion
        \/ \E d \in EnvironmentData : SetEnvironment(d)

-----------------------------------------------------------------------------
\* The simulator itself: the clock, and the motor on either thread.
Simulator == (ClockStep \/ ReportStep \/ MotorSequence("rx")) /\ UNCHANGED link

\* A test that has failed is over, and its fixtures terminate the program.
Failed == client.goal = "failed"

Over == Failed /\ UNCHANGED linkVars

LinkNext ==
    \/ ~Failed /\ (Bridge \/ Stray \/ Waits \/ GiveUp \/ Test \/ Simulator)
    \/ Over

LinkSpec == LinkInit /\ [][LinkNext]_linkVars

\* The two threads; each delivers the reports of the motor it has called.
Delivers(t) == report.owner = t /\ ReportStep

ReceiverThread == Bridge \/ ((MotorSequence("rx") \/ Delivers("rx")) /\ UNCHANGED link)

ClockThread == (ClockStep \/ Delivers("clock")) /\ UNCHANGED link

\* An answer to the poll is on its way: the request, or the answer itself.
InFlight ==
    \/ \E i \in DOMAIN toApp : toApp[i].id = Request[client.goal]
    \/ rx.datagram # <<>> /\ Head(rx.datagram).id = Request[client.goal]
    \/ reply # <<>> /\ Wanted(Head(reply))

(***************************************************************************)
(* The threads and the test go on, deadlines apart; and in the end a       *)
(* timeout means that the request or the answer is lost, and not that it   *)
(* is late: the program answers in microseconds, the sockets of the tests  *)
(* wait for a second, and for a millisecond before the first answer.       *)
(***************************************************************************)
Punctual == <>[][Timeout /\ Polling => ~InFlight]_linkVars

LinkFairSpec ==
    /\ LinkSpec
    /\ WF_linkVars(~Failed /\ ReceiverThread) /\ WF_linkVars(~Failed /\ ClockThread)
    /\ WF_linkVars(~Failed /\ Waits)
    /\ Punctual
-----------------------------------------------------------------------------
Requests == [from : {"test"}, id : {"StateRequest", "KinematicsRequest"}, body : {<<>>}]
            \cup [from : {"test"}, id : {"MotorSequence"}, body : RxCommands]
            \cup [from : {"test"}, id : {"EnvironmentData"}, body : EnvironmentData]
            \cup [from : {"test", "other"}, id : {"none"}, body : {<<>>}]

Answer == [id : {"StateData"}, st : {"Ready", "Executing"}]
          \cup [id : {"KinematicsData"}, cmd_id : Ids, elapsed : 0..(Wrap - 1)]
          \cup [id : {"EnvironmentAck"}, region : Nat]

\* LinkTypeOK: the buffers hold no more than they can, and the receiver runs handlers
\* only for a datagram it has.
LinkTypeOK ==
    /\ TypeOK
    /\ toApp \in Seq(Requests) /\ Len(toApp) <= Buffer
    /\ toClient \in Seq(Answer) /\ Len(toClient) <= Buffer
    /\ peer \in {None, "test", "other"}
    /\ rx.left # <<>> <=> rx.datagram # <<>>
    /\ rx.datagram # <<>> => Head(rx.datagram) \in Requests /\ Free("rx")
    /\ reply \in Seq(Answer) /\ Len(reply) <= 1
    /\ DOMAIN cache \subseteq { d.region : d \in EnvironmentData }
    /\ ambient \in Nat
    /\ client.goal \in DOMAIN Expected \cup {"register", "free", "failed"}
    /\ kept \in Seq(Answer)

\* The tests give each sequence an id of its own, other than the 0 of a motor that has
\* never had one, and drive no mission meanwhile.
OwnIds ==
    /\ AutoCommands = {}
    /\ \A c \in RxCommands : c.cmd_id # 0
    /\ \A c, d \in RxCommands : c.cmd_id = d.cmd_id => c = d

\* AcceptedWasTaken: when dispatch_sequence has seen its sequence accepted, the motor has
\* taken this sequence: the id comes back only through the clock or the motor's report.
AcceptedWasTaken == "taken" \in knows => motor.cmd = Normalised(client.cmd)

\* The motor has counted a tick of its sequence, or is about to be given one.
Ticked ==
    \/ motor.idx > 0 \/ motor.remaining < motor.cmd.steps[1].dur
    \/ tick.cmd_id = motor.cmd.cmd_id /\ "Motor" \in Range(tick.left)

\* StartedIsMoving: when it has seen it start, the vehicle has been moved by it.  The
\* elapsed time it looks at may be that of the sequence before.
StartedIsMoving == "moving" \in knows => (motor.active => Ticked)

\* CompletedIsFinished: when it has waited for all three, the sequence is over: a late
\* answer to an earlier poll would be in the buffer before the one that showed the
\* acceptance, and is drained before the state is asked for.
CompletedIsFinished == "finished" \in knows => motor.cmd = Normalised(client.cmd) /\ ~motor.active

\* The order in which the wiring calls the subscribers of EnvironmentData.
EnvironmentFirst == DataOrder = <<"Environment", "Thermal">>

\* EnvironmentTakenOver: when set_environment has returned, the services work with what
\* was set, or the receiver is about to tell ThermalService before it takes another
\* datagram.
EnvironmentTakenOver ==
    "acked" \in knows =>
        LET d == Head(client.env)
        IN  /\ d.region \in DOMAIN cache /\ cache[d.region] = d.temp
            /\ ambient = d.temp \/ "Thermal" \in Range(rx.left)

\* AckedBeforeApplied: new environmental factors are acknowledged before they affect the
\* thermal model.
AckedBeforeApplied == [][ambient' # ambient => ambient' \in Range(cache) /\ reply = <<>>]_linkVars

OnItsWay ==
    \/ \E i \in DOMAIN toApp : toApp[i].id = "MotorSequence"
    \/ pending["rx"] # <<>> \/ motor.cmd = Normalised(client.cmd)

\* In a loop that has what it needs to end.
InLoop ==
    \/ client.goal \in {"connect", "complete"}
    \/ client.goal = "accept" /\ OnItsWay

\* PollingEnds: the loops come to their end, however many requests and answers were lost
\* and whoever else registered with the bridge in between; the loop for the
\* acceptance, unless the sequence itself was lost, which is sent only once.
PollingEnds == InLoop ~> ~InLoop
=============================================================================
