----------------------------- MODULE Lifecycle -----------------------------
(***************************************************************************)
(* The life of the process: services are constructed, threads started, a   *)
(* signal stops the main thread, and the services are destroyed one by one *)
(* while those that come later in the tuple still run.  With it the queue  *)
(* of LogService, which three threads fill and one drains.                 *)
(*                                                                         *)
(* A sleep on a condition variable is three steps: the predicate is        *)
(* evaluated, the thread falls asleep, it is woken.  Whoever changes what  *)
(* the predicate reads without the mutex may do so between the first two.  *)
(***************************************************************************)
EXTENDS SilTopology, FiniteSets

CONSTANT MaxLog   \* bound: the entries each thread logs

Threads == {"clock", "worker", "rx", "heartbeat"}

Loggers == {"clock", "rx", "heartbeat"}

ASSUME LifecycleAssumption == MaxLog \in [Loggers -> Nat]

VARIABLES
    main,       \* where main is, and which service it is at
    alive,      \* the services constructed and not yet destroyed
    running,    \* g_running, the running_ flags; for UdpBridge: no byte in the wake pipe
    thread,     \* where each thread is
    queue,      \* LogService::queue_
    batch,      \* to_process, the entries the worker has taken
    logged,     \* how many entries each thread has logged
    published   \* the entries published, in order

vars == <<main, alive, running, thread, queue, batch, logged, published>>

NServices == Len(AppServices)

ThreadOf == [s \in {"State", "Log", "UdpBridge"} |->
    CASE s = "State" -> "clock" [] s = "Log" -> "worker" [] s = "UdpBridge" -> "rx"]

Flags == {"main"} \cup DOMAIN ThreadOf

At(pc, i) == [pc |-> pc, at |-> i]

Init ==
    /\ main = At("construct", NServices)
    /\ alive = {}
    /\ running = [f \in Flags |-> TRUE]
    /\ thread = [t \in Threads |-> "none"]
    /\ queue = <<>> /\ batch = <<>> /\ published = <<>>
    /\ logged = [t \in Loggers |-> 0]

Up == main.pc # "crashed"

GoesTo(t, pc) == thread' = [thread EXCEPT ![t] = pc]

Enters(t) == CASE t = "clock" -> "top" [] t = "worker" -> "check"
               [] t = "rx" -> "select" [] t = "heartbeat" -> "check"

\* The worker has the mutex of LogService between its predicate and its sleep.
LogFree == thread["worker"] # "drowsy"

-----------------------------------------------------------------------------
(***************************************************************************)
(* The main thread.                                                        *)
(***************************************************************************)
\* Mutant: the thread of a service is started by its constructor.
Construct_Starts ==
    /\ main.pc = "construct"
    /\ alive' = alive \cup {AppServices[main.at]}
    /\ main' = IF main.at > 1 THEN At("construct", main.at - 1) ELSE At("start", 1)
    /\ IF AppServices[main.at] = "State" THEN GoesTo("clock", "top") ELSE UNCHANGED thread
    /\ UNCHANGED <<running, queue, batch, logged, published>>

\* The last member of the tuple is constructed first; a constructor subscribes.
Construct ==
    /\ main.pc = "construct"
    /\ alive' = alive \cup {AppServices[main.at]}
    /\ main' = IF main.at > 1 THEN At("construct", main.at - 1) ELSE At("start", 1)
    /\ UNCHANGED <<running, thread, queue, batch, logged, published>>

Start ==
    /\ main.pc = "start"
    /\ IF AppServices[main.at] \in DOMAIN ThreadOf
       THEN LET t == ThreadOf[AppServices[main.at]] IN GoesTo(t, Enters(t))
       ELSE UNCHANGED thread
    /\ main' = IF main.at < NServices THEN At("start", main.at + 1) ELSE At("spawn", 1)
    /\ UNCHANGED <<alive, running, queue, batch, logged, published>>

SpawnHeartbeat ==
    /\ main.pc = "spawn"
    /\ GoesTo("heartbeat", "check")
    /\ main' = At("wait", 1)
    /\ UNCHANGED <<alive, running, queue, batch, logged, published>>

\* SIGTERM or SIGINT, on whatever thread it finds.
Signal ==
    /\ Up /\ main.pc # "exited" /\ running["main"]
    /\ running' = [running EXCEPT !["main"] = FALSE]
    /\ UNCHANGED <<main, alive, thread, queue, batch, logged, published>>

\* g_running.wait(true)
Wait ==
    /\ main.pc = "wait" /\ ~running["main"]
    /\ main' = At("notify", 1)
    /\ UNCHANGED <<alive, running, thread, queue, batch, logged, published>>

\* hb_cv.notify_all, without hb_mu.
NotifyHeartbeat ==
    /\ main.pc = "notify"
    /\ main' = At("join", 1)
    /\ IF thread["heartbeat"] = "asleep" THEN GoesTo("heartbeat", "again") ELSE UNCHANGED thread
    /\ UNCHANGED <<alive, running, queue, batch, logged, published>>

JoinHeartbeat ==
    /\ main.pc = "join" /\ thread["heartbeat"] = "done"
    /\ main' = At("destroy", 1)
    /\ UNCHANGED <<alive, running, thread, queue, batch, logged, published>>

Dying == AppServices[main.at]

NextDestructor == IF main.at < NServices THEN At("destroy", main.at + 1) ELSE At("exited", 1)

\* A service without a destructor of its own.
Destroy ==
    /\ main.pc = "destroy" /\ Dying \notin DOMAIN ThreadOf
    /\ alive' = alive \ {Dying}
    /\ main' = NextDestructor
    /\ UNCHANGED <<running, thread, queue, batch, logged, published>>

\* Mutant: ~LogService does not take the mutex.
StopService_NoLock ==
    /\ main.pc = "destroy" /\ Dying \in DOMAIN ThreadOf
    /\ running' = [running EXCEPT ![Dying] = FALSE]
    /\ main' = At("wake", main.at)
    /\ UNCHANGED <<alive, thread, queue, batch, logged, published>>

\* running_ = false, under the mutex in ~LogService and without it in
\* ~StateService; ~UdpBridge writes to the wake pipe.
StopService ==
    /\ main.pc = "destroy" /\ Dying \in DOMAIN ThreadOf
    /\ Dying = "Log" => LogFree
    /\ running' = [running EXCEPT ![Dying] = FALSE]
    /\ main' = At("wake", main.at)
    /\ UNCHANGED <<alive, thread, queue, batch, logged, published>>

\* cv_.notify_all; the pipe has woken the receiver already.
WakeService ==
    /\ main.pc = "wake"
    /\ main' = At("await", main.at)
    /\ LET t == ThreadOf[Dying]
       IN  IF thread[t] = "asleep"
           THEN GoesTo(t, Enters(t))
           ELSE UNCHANGED thread
    /\ UNCHANGED <<alive, running, queue, batch, logged, published>>

JoinService ==
    /\ main.pc = "await" /\ thread[ThreadOf[Dying]] = "done"
    /\ alive' = alive \ {Dying}
    /\ main' = NextDestructor
    /\ UNCHANGED <<running, thread, queue, batch, logged, published>>

Main == \/ Construct \/ Start \/ SpawnHeartbeat \/ Wait \/ NotifyHeartbeat \/ JoinHeartbeat
        \/ Destroy \/ StopService \/ WakeService \/ JoinService

-----------------------------------------------------------------------------
(***************************************************************************)
(* LogService::log, on the thread of whoever logs.                         *)
(***************************************************************************)
Stays == UNCHANGED <<main, alive, running>>

\* Where a thread calls log: the heartbeat at its place, the others anywhere
\* in a dispatch.
MayLog(t) == Up /\ thread[t] = (IF t = "heartbeat" THEN "beat" ELSE "dispatch")

Push(t) ==
    /\ MayLog(t) /\ LogFree /\ logged[t] < MaxLog[t]
    /\ logged' = [logged EXCEPT ![t] = @ + 1]
    /\ queue' = Append(queue, <<t, logged'[t]>>)
    /\ GoesTo(t, "notify")
    /\ Stays /\ UNCHANGED <<batch, published>>

\* cv_.notify_one, after the mutex has been released.
Notify(t) ==
    /\ Up /\ thread[t] = "notify"
    /\ thread' = [thread EXCEPT
                    ![t] = IF t = "heartbeat" THEN "check" ELSE "dispatch",
                    !["worker"] = IF @ = "asleep" THEN "check" ELSE @]
    /\ Stays /\ UNCHANGED <<queue, batch, logged, published>>

(***************************************************************************)
(* LogService::worker_loop.                                                *)
(***************************************************************************)
\* Mutant: the worker leaves as soon as it is told to.
Swap_Leaves ==
    /\ Up /\ thread["worker"] = "check"
    /\ IF ~running["Log"]
       THEN GoesTo("worker", "done") /\ UNCHANGED <<queue, batch>>
       ELSE IF queue = <<>>
            THEN GoesTo("worker", "drowsy") /\ UNCHANGED <<queue, batch>>
            ELSE GoesTo("worker", "publish") /\ batch' = queue /\ queue' = <<>>
    /\ Stays /\ UNCHANGED <<logged, published>>

\* The predicate holds if there is an entry, or none will come; else it will sleep.
Swap ==
    /\ Up /\ thread["worker"] = "check"
    /\ IF queue # <<>>
       THEN GoesTo("worker", "publish") /\ batch' = queue /\ queue' = <<>>
       ELSE /\ GoesTo("worker", IF running["Log"] THEN "drowsy" ELSE "done")
            /\ UNCHANGED <<queue, batch>>
    /\ Stays /\ UNCHANGED <<logged, published>>

\* Mutant: the batch is published from its end.
PublishEntry_Last ==
    /\ Up /\ thread["worker"] = "publish"
    /\ published' = Append(published, batch[Len(batch)])
    /\ batch' = SubSeq(batch, 1, Len(batch) - 1)
    /\ GoesTo("worker", IF batch' = <<>> THEN "check" ELSE "publish")
    /\ Stays /\ UNCHANGED <<queue, logged>>

PublishEntry ==
    /\ Up /\ thread["worker"] = "publish"
    /\ published' = Append(published, Head(batch))
    /\ batch' = Tail(batch)
    /\ GoesTo("worker", IF batch' = <<>> THEN "check" ELSE "publish")
    /\ Stays /\ UNCHANGED <<queue, logged>>

\* The wait releases the mutex and sleeps in one step.
FallAsleep(t) ==
    /\ Up /\ thread[t] = "drowsy"
    /\ GoesTo(t, "asleep")
    /\ Stays /\ UNCHANGED <<queue, batch, logged, published>>

Worker == Swap \/ PublishEntry \/ FallAsleep("worker")

-----------------------------------------------------------------------------
(***************************************************************************)
(* The heartbeat of main, and the clock of StateService: two timed waits,  *)
(* whose flag is cleared without their mutex.                              *)
(***************************************************************************)
Moves(t, from, to) ==
    /\ Up /\ thread[t] = from
    /\ GoesTo(t, to)
    /\ Stays /\ UNCHANGED <<queue, batch, logged, published>>

\* Mutant: the waits have no time limit.
Timeout_Never(t) == FALSE

Timeout(t) == Moves(t, "asleep", IF t = "heartbeat" THEN "again" ELSE "top")

Heartbeat ==
    \/ Moves("heartbeat", "check", IF running["main"] THEN "drowsy" ELSE "again")
    \/ FallAsleep("heartbeat")
    \/ Timeout("heartbeat")
    \/ Moves("heartbeat", "again", IF running["main"] THEN "beat" ELSE "done")
    \/ Push("heartbeat")
    \/ logged["heartbeat"] = MaxLog["heartbeat"] /\ Moves("heartbeat", "beat", "check")
    \/ Notify("heartbeat")

\* The tick is dispatched; the clock then sleeps unless that took a period.
Clock ==
    \/ Moves("clock", "top", IF running["State"] THEN "dispatch" ELSE "done")
    \/ Push("clock")
    \/ Notify("clock")
    \/ Moves("clock", "dispatch", "top")
    \/ Moves("clock", "dispatch", IF running["State"] THEN "drowsy" ELSE "top")
    \/ FallAsleep("clock")
    \/ Timeout("clock")

(***************************************************************************)
(* UdpBridge::rx_loop.                                                     *)
(***************************************************************************)
\* select has found a datagram, and nothing in the pipe.
Datagram == running["UdpBridge"] /\ Moves("rx", "select", "dispatch")

Receiver ==
    \/ ~running["UdpBridge"] /\ Moves("rx", "select", "done")
    \/ Push("rx")
    \/ Notify("rx")
    \/ Moves("rx", "dispatch", "select")

-----------------------------------------------------------------------------
(***************************************************************************)
(* What a dispatch can call, by the wiring: every handler of the message,  *)
(* of the messages these publish, and so on.                               *)
(***************************************************************************)
Reached[n \in 0..Cardinality(SilMsg), ms \in SUBSET SilMsg] ==
    LET further == UNION { UNION { PublishedBy(h) : h \in SeqSet(SilSubscribers[m]) } : m \in ms }
    IN  IF n = 0 \/ further \subseteq ms THEN ms ELSE Reached[n - 1, ms \cup further]

Calls(ms) ==
    { h[1] : h \in UNION { SeqSet(SilSubscribers[m]) : m \in Reached[Cardinality(SilMsg), ms] } }
        \ {"main"}

Reach == "clock" :> Calls({"PhysicsTick"}) @@
         "rx" :> Calls({id \in RxIds : Authorized(id)}) @@
         "worker" :> Calls({"Log"}) @@
         "heartbeat" :> Calls({"log"})

\* In a dispatch, or in a call of LogService::log.
Calling(t) == thread[t] \in {"dispatch", "beat", "notify", "publish"}

\* The services whose members own memory: the others, destroyed, are still there.
OwnMemory == {"Environment", "Autonomous", "Log"}

\* A call of a destroyed service is undefined: it does what it did, or the process dies.
Crash ==
    /\ Up
    /\ \E t \in Threads : Calling(t) /\ ~(Reach[t] \cap OwnMemory \subseteq alive)
    /\ main' = At("crashed", 1)
    /\ UNCHANGED <<alive, running, thread, queue, batch, logged, published>>

Ended == main.pc \in {"exited", "crashed"}

Terminated == Ended /\ UNCHANGED vars

Next == Main \/ Signal \/ Worker \/ Heartbeat \/ Clock \/ Receiver \/ Datagram \/ Crash
        \/ Terminated

Fairness == WF_vars(Main) /\ WF_vars(Worker) /\ WF_vars(Heartbeat) /\ WF_vars(Clock)
            /\ WF_vars(Receiver)

Spec == Init /\ [][Next]_vars /\ Fairness
-----------------------------------------------------------------------------
Entry == UNION { {t} \X (1..MaxLog[t]) : t \in Loggers }

MainAt == { At(pc, i) : pc \in {"construct", "start", "destroy", "wake", "await"}, i \in 1..NServices }
          \cup { At(pc, 1) : pc \in {"spawn", "wait", "notify", "join", "exited", "crashed"} }

Places(t) ==
    CASE t = "clock" -> {"none", "top", "dispatch", "notify", "drowsy", "asleep", "done"}
      [] t = "worker" -> {"none", "check", "drowsy", "asleep", "publish", "done"}
      [] t = "rx" -> {"none", "select", "dispatch", "notify", "done"}
      [] t = "heartbeat" -> {"none", "check", "drowsy", "asleep", "again", "beat", "notify", "done"}

\* Every variable has a value of the program: the steps of main are at a service
\* of the tuple, the worker publishes only while it has an entry left.
TypeOK ==
    /\ main \in MainAt
    /\ main.pc \in {"wake", "await"} => Dying \in DOMAIN ThreadOf
    /\ alive \subseteq SeqSet(AppServices)
    /\ running \in [Flags -> BOOLEAN]
    /\ DOMAIN thread = Threads /\ \A t \in Threads : thread[t] \in Places(t)
    /\ queue \in Seq(Entry) /\ batch \in Seq(Entry) /\ published \in Seq(Entry)
    /\ logged \in [Loggers -> Nat]
    /\ thread["worker"] = "publish" <=> batch # <<>>

\* A worker that sleeps although there is an entry to publish, or although it is
\* to stop, is about to be notified.
NoMissedWakeup ==
    Up /\ thread["worker"] = "asleep" =>
        /\ queue # <<>> => \E t \in Loggers : thread[t] = "notify"
        /\ ~running["Log"] => main.pc = "wake" /\ Dying = "Log"

Destructing == main.pc \in {"destroy", "wake", "await"}

\* The services destroyed before the clock has stopped; they own no memory.
BeforeTheClock == {"Motor", "Kinematics", "Power"}

\* What the wiring must give for the order of destruction to be enough: only services are
\* called, and the worker calls none that is destroyed before it has stopped.
CallsLaterServices ==
    /\ \A t \in Threads : Reach[t] \subseteq SeqSet(AppServices)
    /\ Reach["worker"] \subseteq {"Log", "UdpBridge"}

\* What a thread calls is constructed and subscribed, and not destroyed: save, once the
\* heartbeat has been joined, what the clock calls of the services destroyed before it
\* stops, and what the receiver calls other than the bridge.
ServedByTheLiving ==
    Up => \A t \in Threads : Calling(t) =>
        Reach[t] \ (CASE Destructing /\ t = "clock" -> BeforeTheClock
                      [] Destructing /\ t = "rx" -> SeqSet(AppServices) \ {"UdpBridge"}
                      [] OTHER -> {}) \subseteq alive

\* When the process has ended in order, every entry of the heartbeat and of the
\* clock has been published, those logged after the signal included.
LastWords ==
    main.pc = "exited" =>
        \A t \in {"heartbeat", "clock"} : \A n \in 1..logged[t] : <<t, n>> \in SeqSet(published)

Log == INSTANCE LogFifo WITH
    pending <- IF thread["worker"] = "done" \/ ~Up THEN <<>> ELSE batch \o queue,
    out <- published,
    phase <- CASE ~Up -> "dead" [] Up /\ thread["worker"] = "done" -> "closed" [] OTHER -> "open"

\* LogService is a log: entries come out once, in order and at last, until the
\* worker has left.
LogService == Log!Spec

\* A signalled process ends, although the clock and the heartbeat can miss the
\* notification and the receiver can be kept busy.
Exits == (main.pc = "wait" /\ ~running["main"]) ~> Ended
=============================================================================
