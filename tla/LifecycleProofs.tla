-------------------------- MODULE LifecycleProofs --------------------------
(***************************************************************************)
(* The end of the process for any number of log entries: what the order of *)
(* destruction and the mutex of LogService guarantee, and that its queue   *)
(* implements the log.                                                     *)
(***************************************************************************)
EXTENDS Lifecycle, TLAPS

\* A worker about to sleep has seen the predicate false, and nobody can have
\* changed that since.
DrowsyOK == Up /\ thread["worker"] = "drowsy" => queue = <<>> /\ running["Log"]

\* Which threads have not been started, by how far main has come.
Unstarted ==
    /\ main.pc = "construct" \/ (main.pc = "start" /\ main.at <= 4) => thread["clock"] = "none"
    /\ main.pc = "construct" \/ (main.pc = "start" /\ main.at <= 8) => thread["worker"] = "none"
    /\ main.pc \in {"construct", "start"} => thread["rx"] = "none"
    /\ main.pc \in {"construct", "start", "spawn"} => thread["heartbeat"] = "none"

\* Which threads are over, by how far main has come.
Joined ==
    /\ main.pc \in {"destroy", "wake", "await", "exited"} => thread["heartbeat"] = "done"
    /\ (Destructing /\ main.at > 4) \/ main.pc = "exited" => thread["clock"] = "done"
    /\ (Destructing /\ main.at > 8) \/ main.pc = "exited" => thread["worker"] = "done"
    /\ ~running["Log"] => (Destructing /\ main.at >= 8) \/ main.pc \in {"exited", "crashed"}
    /\ thread["worker"] = "done" =>
          ~running["Log"] /\ thread["heartbeat"] = "done" /\ thread["clock"] = "done"

LoggedBy(t) == { <<t, n>> : n \in 1..logged[t] }

\* No entry is lost on its way; those of the threads joined before the worker are out
\* when it leaves.
Accounted ==
    /\ \A t \in Loggers : LoggedBy(t) \subseteq SeqSet(published) \cup SeqSet(batch) \cup SeqSet(queue)
    /\ thread["worker"] = "done" =>
          \A t \in {"heartbeat", "clock"} : LoggedBy(t) \subseteq SeqSet(published)

IInv == TypeOK /\ DrowsyOK /\ NoMissedWakeup /\ Unstarted /\ Joined /\ Accounted

-----------------------------------------------------------------------------
LEMMA Services ==
    /\ NServices = 9
    /\ \A i \in 1..9 : AppServices[i] \in SeqSet(AppServices)
    /\ \A i \in 1..9 : AppServices[i] \in DOMAIN ThreadOf <=> i \in {4, 8, 9}
    /\ AppServices[4] = "State" /\ AppServices[8] = "Log" /\ AppServices[9] = "UdpBridge"
    /\ ThreadOf["State"] = "clock" /\ ThreadOf["Log"] = "worker" /\ ThreadOf["UdpBridge"] = "rx"
BY DEF NServices, AppServices, SeqSet, ThreadOf

LEMMA SetOfEmpty == SeqSet(<<>>) = {}
BY DEF SeqSet

LEMMA SetOfAppend ==
    ASSUME NEW S, NEW s \in Seq(S), NEW e \in S
    PROVE  SeqSet(Append(s, e)) = SeqSet(s) \cup {e}
<1> DEFINE a == Append(s, e)
<1>1. \A i \in DOMAIN a : a[i] = e \/ (i \in DOMAIN s /\ a[i] = s[i])
  OBVIOUS
<1>2. \A i \in DOMAIN s : i \in DOMAIN a /\ a[i] = s[i]
  OBVIOUS
<1>3. Len(s) + 1 \in DOMAIN a /\ a[Len(s) + 1] = e
  OBVIOUS
<1> HIDE DEF a
<1>4. SeqSet(a) \subseteq SeqSet(s) \cup {e}
  BY <1>1 DEF SeqSet
<1>5. SeqSet(s) \cup {e} \subseteq SeqSet(a)
  BY <1>2, <1>3 DEF SeqSet
<1> QED BY <1>4, <1>5 DEF a

LEMMA SetOfParts ==
    ASSUME NEW S, NEW s \in Seq(S), s # <<>>
    PROVE  SeqSet(s) = {Head(s)} \cup SeqSet(Tail(s))
<1>1. \A i \in DOMAIN s : i = 1 \/ (i - 1 \in DOMAIN Tail(s) /\ Tail(s)[i - 1] = s[i])
  OBVIOUS
<1>2. \A i \in DOMAIN Tail(s) : i + 1 \in DOMAIN s /\ Tail(s)[i] = s[i + 1]
  OBVIOUS
<1>3. 1 \in DOMAIN s /\ Head(s) = s[1]
  OBVIOUS
<1>4. SeqSet(s) \subseteq {Head(s)} \cup SeqSet(Tail(s))
  BY <1>1, <1>3 DEF SeqSet
<1>5. {Head(s)} \cup SeqSet(Tail(s)) \subseteq SeqSet(s)
  BY <1>2, <1>3 DEF SeqSet
<1> QED BY <1>4, <1>5

LEMMA EntryOf ==
    ASSUME NEW t \in Loggers, NEW n \in 1..MaxLog[t]
    PROVE  <<t, n>> \in Entry
BY DEF Entry

-----------------------------------------------------------------------------
\* A step of a thread by itself: it neither leaves the list of loggers about to notify
\* nor comes back from its end.
LEMMA MovesKeep ==
    ASSUME IInv, NEW t \in Loggers, NEW from, NEW to, Moves(t, from, to),
           to \in Places(t), from \notin {"none", "notify", "done"}
    PROVE  IInv'
<1> USE DEF Moves, GoesTo, Stays, Loggers, Threads
<1>1. /\ thread["worker"]' = thread["worker"]
      /\ thread[t] = from /\ thread'[t] = to
      /\ \A x \in Threads \ {t} : thread'[x] = thread[x]
      /\ DOMAIN thread' = Threads
  BY DEF IInv, TypeOK
<1>2. TypeOK'
  <2>1. \A x \in Threads : thread'[x] \in Places(x)
    BY <1>1 DEF IInv, TypeOK
  <2> QED BY <1>1, <2>1 DEF IInv, TypeOK, Dying
<1>3. DrowsyOK'
  BY <1>1 DEF IInv, DrowsyOK, Up
<1>4. NoMissedWakeup'
  BY <1>1 DEF IInv, NoMissedWakeup, Up, Dying
<1>5. Unstarted' /\ Joined'
  BY <1>1 DEF IInv, Unstarted, Joined, Destructing
<1>6. Accounted'
  BY <1>1 DEF IInv, Accounted, LoggedBy
<1> QED BY <1>2, <1>3, <1>4, <1>5, <1>6 DEF IInv

\* The steps of the clock, the receiver and the heartbeat that log nothing.
LEMMA ThreadsMove ==
    ASSUME IInv, Heartbeat \/ Clock \/ Receiver \/ Datagram,
           ~ \E t \in Loggers : Push(t) \/ Notify(t)
    PROVE  IInv'
<1> DEFINE Mover(t, from, to) ==
        Moves(t, from, to) /\ to \in Places(t) /\ from \notin {"none", "notify", "done"}
<1>1. \E t \in Loggers : \E from, to : Mover(t, from, to)
  <2> "heartbeat" \in Loggers /\ "clock" \in Loggers /\ "rx" \in Loggers
    BY DEF Loggers
  <2>1. CASE Heartbeat
    <3>1. \E from, to : Mover("heartbeat", from, to)
      BY <2>1 DEF Heartbeat, Timeout, FallAsleep, Moves, Places
    <3> QED BY <3>1
  <2>2. CASE Clock
    <3>1. \E from, to : Mover("clock", from, to)
      BY <2>2 DEF Clock, Timeout, FallAsleep, Moves, Places
    <3> QED BY <3>1
  <2>3. CASE Receiver \/ Datagram
    <3>1. \E from, to : Mover("rx", from, to)
      BY <2>3 DEF Receiver, Datagram, Moves, Places
    <3> QED BY <3>1
  <2> QED BY <2>1, <2>2, <2>3
<1> QED BY <1>1, MovesKeep

LEMMA PushKeeps ==
    ASSUME IInv, NEW t \in Loggers, Push(t)
    PROVE  IInv'
<1> DEFINE e == <<t, logged'[t]>>
<1> USE DEF Push, GoesTo, Stays, Loggers, Threads
<1>1. /\ thread["worker"]' = thread["worker"] /\ thread["worker"] # "drowsy"
      /\ thread[t] \notin {"none", "notify", "done"} /\ thread'[t] = "notify"
      /\ \A x \in Threads \ {t} : thread'[x] = thread[x]
      /\ DOMAIN thread' = Threads
  BY DEF IInv, TypeOK, LogFree, MayLog
<1>2. /\ logged'[t] = logged[t] + 1 /\ logged'[t] \in 1..MaxLog[t]
      /\ \A x \in Loggers \ {t} : logged'[x] = logged[x]
      /\ logged' \in [Loggers -> Nat]
  <2>1. logged \in [Loggers -> Nat] /\ logged' = [logged EXCEPT ![t] = @ + 1]
    BY DEF IInv, TypeOK
  <2>2. logged[t] \in Nat /\ MaxLog[t] \in Nat /\ logged[t] < MaxLog[t]
    BY <2>1, LifecycleAssumption
  <2>3. logged[t] + 1 \in Nat /\ logged[t] + 1 \in 1..MaxLog[t]
    BY <2>2
  <2> HIDE DEF Push, Loggers
  <2> QED BY <2>1, <2>3
<1>3. e \in Entry
  BY <1>2, EntryOf
<1>4. TypeOK'
  <2>1. \A x \in Threads : thread'[x] \in Places(x)
    BY <1>1 DEF IInv, TypeOK, Places, MayLog
  <2>2. queue' \in Seq(Entry)
    BY <1>3 DEF IInv, TypeOK
  <2> QED BY <1>1, <1>2, <2>1, <2>2 DEF IInv, TypeOK, Dying
<1>5. DrowsyOK'
  BY <1>1 DEF DrowsyOK
<1>6. NoMissedWakeup'
  BY <1>1 DEF IInv, NoMissedWakeup, Up, Dying
<1>7. Unstarted' /\ Joined'
  BY <1>1 DEF IInv, Unstarted, Joined, Destructing
<1>8. Accounted'
  <2>1. SeqSet(queue') = SeqSet(queue) \cup {e}
    <3>1. queue \in Seq(Entry) /\ queue' = Append(queue, e)
      BY DEF IInv, TypeOK
    <3> QED BY ONLY <1>3, <3>1, SetOfAppend
  <2>2. LoggedBy(t)' = LoggedBy(t) \cup {e}
    BY <1>2 DEF LoggedBy, IInv, TypeOK
  <2>3. \A x \in Loggers \ {t} : LoggedBy(x)' = LoggedBy(x)
    BY <1>2 DEF LoggedBy
  <2>4. thread["worker"] = "done" => t \notin {"heartbeat", "clock"}
    BY <1>1 DEF IInv, Joined
  <2> QED BY <1>1, <2>1, <2>2, <2>3, <2>4 DEF IInv, Accounted
<1> QED BY <1>4, <1>5, <1>6, <1>7, <1>8 DEF IInv

LEMMA NotifyKeeps ==
    ASSUME IInv, NEW t \in Loggers, Notify(t)
    PROVE  IInv'
<1> USE DEF Notify, Stays, Loggers, Threads
<1>1. /\ thread'["worker"] = (IF thread["worker"] = "asleep" THEN "check" ELSE thread["worker"])
      /\ thread[t] = "notify" /\ thread'[t] \in {"check", "dispatch"}
      /\ thread'[t] \in Places(t)
      /\ \A x \in Threads \ {t, "worker"} : thread'[x] = thread[x]
      /\ DOMAIN thread' = Threads
  BY DEF IInv, TypeOK, Places
<1>2. TypeOK'
  <2>1. \A x \in Threads : thread'[x] \in Places(x)
    BY <1>1 DEF IInv, TypeOK, Places
  <2> QED BY <1>1, <2>1 DEF IInv, TypeOK, Dying
<1>3. DrowsyOK'
  BY <1>1 DEF IInv, DrowsyOK, Up
<1>4. NoMissedWakeup'
  BY <1>1 DEF NoMissedWakeup
<1>5. Unstarted' /\ Joined'
  BY <1>1 DEF IInv, Unstarted, Joined, Destructing
<1>6. Accounted'
  BY <1>1 DEF IInv, Accounted, LoggedBy
<1> QED BY <1>2, <1>3, <1>4, <1>5, <1>6 DEF IInv

-----------------------------------------------------------------------------
\* The worker stands still at the end only when nothing is left: the queue is empty,
\* and so is the batch.
LEMMA WorkerKeeps ==
    ASSUME IInv, Worker
    PROVE  IInv'
<1> USE DEF GoesTo, Stays, Threads
<1>1. CASE Swap
  <2> USE <1>1 DEF Swap
  <2>1. /\ thread'["worker"] \in {"publish", "drowsy", "done"} /\ thread["worker"] = "check"
        /\ \A x \in Threads \ {"worker"} : thread'[x] = thread[x]
        /\ DOMAIN thread' = Threads
        /\ batch = <<>>
    BY DEF IInv, TypeOK
  <2>2. TypeOK'
    <3>1. \A x \in Threads : thread'[x] \in Places(x)
      BY <2>1 DEF IInv, TypeOK, Places
    <3>2. batch' \in Seq(Entry) /\ queue' \in Seq(Entry)
      BY DEF IInv, TypeOK
    <3>3. thread'["worker"] = "publish" <=> batch' # <<>>
      BY <2>1 DEF IInv, TypeOK
    <3> QED BY <2>1, <3>1, <3>2, <3>3 DEF IInv, TypeOK, Dying
  <2>3. DrowsyOK'
    BY <2>1 DEF DrowsyOK, IInv, TypeOK
  <2>4. NoMissedWakeup'
    BY <2>1 DEF NoMissedWakeup
  <2>5. thread'["worker"] = "done" =>
            queue = <<>> /\ ~running["Log"] /\ thread["heartbeat"] = "done" /\ thread["clock"] = "done"
    <3>1. thread'["worker"] = "done" => queue = <<>> /\ ~running["Log"]
      BY DEF IInv, TypeOK
    <3>2. ~running["Log"] => (Destructing /\ main.at >= 8) \/ main.pc = "exited"
      BY DEF IInv, Joined, Up
    <3>3. Destructing /\ main.at >= 8 => main.at > 4
      BY DEF Destructing, IInv, TypeOK, MainAt, At, NServices
    <3> QED BY <3>1, <3>2, <3>3 DEF IInv, Joined, Destructing
  <2>6. Unstarted' /\ Joined'
    BY <2>1, <2>5 DEF IInv, Unstarted, Joined, Destructing
  <2>7. Accounted'
    <3>1. SeqSet(batch') \cup SeqSet(queue') = SeqSet(batch) \cup SeqSet(queue)
      BY <2>1, SetOfEmpty
    <3>2. thread'["worker"] = "done" => SeqSet(batch) \cup SeqSet(queue) = {}
      BY <2>1, <2>5, SetOfEmpty
    <3> QED BY <3>1, <3>2 DEF IInv, Accounted, LoggedBy, Loggers
  <2> QED BY <2>2, <2>3, <2>4, <2>6, <2>7 DEF IInv
<1>2. CASE PublishEntry
  <2> USE <1>2 DEF PublishEntry
  <2>1. /\ thread'["worker"] \in {"publish", "check"} /\ thread["worker"] = "publish"
        /\ \A x \in Threads \ {"worker"} : thread'[x] = thread[x]
        /\ DOMAIN thread' = Threads
    BY DEF IInv, TypeOK
  <2>2. batch \in Seq(Entry) /\ batch # <<>> /\ Head(batch) \in Entry /\ published \in Seq(Entry)
    BY <2>1 DEF IInv, TypeOK
  <2>3. TypeOK'
    <3>1. \A x \in Threads : thread'[x] \in Places(x)
      BY <2>1 DEF IInv, TypeOK, Places
    <3>2. batch' \in Seq(Entry) /\ published' \in Seq(Entry)
      BY <2>2
    <3>3. thread'["worker"] = "publish" <=> batch' # <<>>
      BY <2>1 DEF IInv, TypeOK
    <3> QED BY <2>1, <3>1, <3>2, <3>3 DEF IInv, TypeOK, Dying
  <2>4. DrowsyOK' /\ NoMissedWakeup'
    BY <2>1 DEF DrowsyOK, NoMissedWakeup
  <2>5. Unstarted' /\ Joined'
    BY <2>1 DEF IInv, Unstarted, Joined, Destructing
  <2>6. Accounted'
    <3>1. SeqSet(published') = SeqSet(published) \cup {Head(batch)}
      BY <2>2, SetOfAppend
    <3>2. SeqSet(batch) = {Head(batch)} \cup SeqSet(batch')
      BY <2>2, SetOfParts
    <3> QED BY <2>1, <3>1, <3>2 DEF IInv, Accounted, LoggedBy
  <2> QED BY <2>3, <2>4, <2>5, <2>6 DEF IInv
<1>3. CASE FallAsleep("worker")
  <2> USE <1>3 DEF FallAsleep
  <2>1. /\ thread'["worker"] = "asleep" /\ thread["worker"] = "drowsy"
        /\ \A x \in Threads \ {"worker"} : thread'[x] = thread[x]
        /\ DOMAIN thread' = Threads
    BY DEF IInv, TypeOK
  <2>2. TypeOK'
    <3>1. \A x \in Threads : thread'[x] \in Places(x)
      BY <2>1 DEF IInv, TypeOK, Places
    <3> QED BY <2>1, <3>1 DEF IInv, TypeOK, Dying
  <2>3. DrowsyOK' /\ NoMissedWakeup'
    BY <2>1 DEF IInv, DrowsyOK, NoMissedWakeup, Up
  <2>4. Unstarted' /\ Joined'
    BY <2>1 DEF IInv, Unstarted, Joined, Destructing
  <2>5. Accounted'
    BY <2>1 DEF IInv, Accounted, LoggedBy
  <2> QED BY <2>2, <2>3, <2>4, <2>5 DEF IInv
<1> QED BY <1>1, <1>2, <1>3 DEF Worker

LEMMA SignalKeeps ==
    ASSUME IInv, Signal
    PROVE  IInv'
<1> USE DEF Signal
<1>1. running'["Log"] = running["Log"] /\ running' \in [Flags -> BOOLEAN]
  BY DEF IInv, TypeOK, Flags
<1> QED BY <1>1 DEF IInv, TypeOK, DrowsyOK, NoMissedWakeup, Unstarted, Joined, Accounted,
                    LoggedBy, Destructing, Dying, Up

LEMMA CrashKeeps ==
    ASSUME IInv, Crash
    PROVE  IInv'
<1> USE DEF Crash
<1>1. main' = [pc |-> "crashed", at |-> 1] /\ main' \in MainAt
  BY DEF At, MainAt
<1>2. TypeOK'
  BY <1>1 DEF IInv, TypeOK
<1>3. DrowsyOK' /\ NoMissedWakeup'
  BY <1>1 DEF DrowsyOK, NoMissedWakeup, Up
<1>4. Unstarted' /\ Joined'
  BY <1>1 DEF IInv, Unstarted, Joined, Destructing
<1>5. Accounted'
  BY DEF IInv, Accounted, LoggedBy
<1> QED BY <1>2, <1>3, <1>4, <1>5 DEF IInv

-----------------------------------------------------------------------------
\* What a step of main leaves alone is as sound as it was.
LEMMA MainAccounted ==
    ASSUME IInv, UNCHANGED <<queue, batch, logged, published>>,
           thread'["worker"] = "done" => thread["worker"] = "done"
    PROVE  Accounted'
BY DEF IInv, Accounted, LoggedBy

LEMMA MainPlace ==
    /\ \A pc \in {"construct", "start", "destroy", "wake", "await"}, i \in 1..9 : At(pc, i) \in MainAt
    /\ \A pc \in {"spawn", "wait", "notify", "join", "exited", "crashed"} : At(pc, 1) \in MainAt
    /\ \A pc, i : At(pc, i).pc = pc /\ At(pc, i).at = i
<1>1. NServices = 9
  BY Services
<1> QED BY <1>1 DEF At, MainAt

LEMMA MainIndex ==
    ASSUME IInv
    PROVE  main.at \in 1..9
<1>1. NServices = 9
  BY Services
<1> QED BY <1>1 DEF IInv, TypeOK, MainAt, At

\* Before the destructors: nobody has been told to stop but the heartbeat, and a thread
\* that is started has not been running.
LEMMA MainStarts ==
    ASSUME IInv, Construct \/ Start \/ SpawnHeartbeat \/ Wait \/ NotifyHeartbeat
    PROVE  IInv'
<1> USE MainIndex, Services DEF Threads
<1> DEFINE Kept(x) == thread'[x] = thread[x]
           Begins(x) == thread[x] \in {"none", "asleep"} /\ thread'[x] \in {"top", "check", "select", "again"}
<1>1. /\ main.pc \in {"construct", "start", "spawn", "wait", "notify"}
      /\ main'.pc \in {"construct", "start", "spawn", "wait", "notify", "join"}
      /\ main' \in MainAt
      /\ alive' \subseteq SeqSet(AppServices)
  BY MainPlace DEF Construct, Start, SpawnHeartbeat, Wait, NotifyHeartbeat, IInv, TypeOK
<1>2. UNCHANGED <<running, queue, batch, logged, published>>
  BY DEF Construct, Start, SpawnHeartbeat, Wait, NotifyHeartbeat
<1>3. running["Log"] /\ thread["worker"] # "done"
  BY <1>1 DEF IInv, Joined, Destructing
<1>4. /\ DOMAIN thread' = Threads /\ Unstarted'
      /\ Kept("clock") \/ (Begins("clock") /\ thread'["clock"] = "top")
      /\ Kept("worker") \/ (thread["worker"] = "none" /\ thread'["worker"] = "check")
      /\ Kept("rx") \/ (Begins("rx") /\ thread'["rx"] = "select")
      /\ Kept("heartbeat") \/ (Begins("heartbeat") /\ thread'["heartbeat"] \in {"check", "again"})
  <2>1. CASE Start
    <3>1. CASE main.at = 4
      BY <2>1, <3>1, MainPlace DEF Start, GoesTo, Enters, IInv, TypeOK, Unstarted
    <3>2. CASE main.at = 8
      BY <2>1, <3>2, MainPlace DEF Start, GoesTo, Enters, IInv, TypeOK, Unstarted
    <3>3. CASE main.at = 9
      BY <2>1, <3>3, MainPlace DEF Start, GoesTo, Enters, IInv, TypeOK, Unstarted
    <3>4. CASE main.at \notin {4, 8, 9}
      BY <2>1, <3>4, MainPlace DEF Start, IInv, TypeOK, Unstarted
    <3> QED BY <3>1, <3>2, <3>3, <3>4
  <2>2. CASE Construct \/ Wait
    BY <2>2, MainPlace DEF Construct, Wait, IInv, TypeOK, Unstarted
  <2>3. CASE SpawnHeartbeat \/ NotifyHeartbeat
    BY <2>3, MainPlace DEF SpawnHeartbeat, NotifyHeartbeat, GoesTo, IInv, TypeOK, Unstarted
  <2> QED BY <2>1, <2>2, <2>3
<1>5. TypeOK'
  <2>1. \A x \in Threads : thread'[x] \in Places(x)
    BY <1>4 DEF IInv, TypeOK, Places
  <2>2. thread'["worker"] = "publish" <=> thread["worker"] = "publish"
    BY <1>4
  <2> QED BY <1>1, <1>2, <1>4, <2>1, <2>2 DEF IInv, TypeOK
<1>6. DrowsyOK' /\ NoMissedWakeup'
  BY <1>1, <1>2, <1>3, <1>4 DEF IInv, DrowsyOK, NoMissedWakeup, Up, Loggers
<1>7. Joined'
  BY <1>1, <1>2, <1>3, <1>4 DEF Joined, Destructing
<1>8. Accounted'
  BY <1>2, <1>3, <1>4, MainAccounted
<1> QED BY <1>4, <1>5, <1>6, <1>7, <1>8 DEF IInv

LEMMA HeartbeatJoined ==
    ASSUME IInv, JoinHeartbeat
    PROVE  IInv'
<1> USE MainIndex, MainPlace DEF JoinHeartbeat
<1>1. TypeOK'
  BY DEF IInv, TypeOK
<1>2. DrowsyOK' /\ NoMissedWakeup'
  BY DEF IInv, DrowsyOK, NoMissedWakeup, Up
<1>3. Unstarted' /\ Joined'
  BY DEF IInv, Unstarted, Joined, Destructing
<1>4. Accounted'
  BY MainAccounted
<1> QED BY <1>1, <1>2, <1>3, <1>4 DEF IInv

LEMMA NextPlace ==
    ASSUME IInv, main.pc \in {"destroy", "await"}, main' = NextDestructor
    PROVE  /\ main' \in MainAt
           /\ \/ main.at < 9 /\ main'.pc = "destroy" /\ main'.at = main.at + 1
              \/ main.at = 9 /\ main'.pc = "exited" /\ main'.at = 1
<1>1. NServices = 9
  BY Services
<1> QED BY <1>1, MainIndex, MainPlace DEF NextDestructor

\* The next destructor: the clock and the worker are joined in theirs.
LEMMA DestructorEnds ==
    ASSUME IInv, main' = NextDestructor,
           UNCHANGED <<running, thread, queue, batch, logged, published>>,
           alive' \subseteq alive,
           \/ main.pc = "destroy" /\ Dying \notin DOMAIN ThreadOf
           \/ main.pc = "await" /\ thread[ThreadOf[Dying]] = "done"
    PROVE  IInv'
<1>1. /\ main' \in MainAt /\ main.at \in 1..9
      /\ \/ main.at < 9 /\ main'.pc = "destroy" /\ main'.at = main.at + 1
         \/ main.at = 9 /\ main'.pc = "exited" /\ main'.at = 1
  BY NextPlace, MainIndex
<1>2. /\ main.at = 4 => thread["clock"] = "done"
      /\ main.at = 8 => thread["worker"] = "done"
      /\ main.at = 9 => main.pc = "await"
  <2>1. main.at \in {4, 8, 9} => Dying \in DOMAIN ThreadOf
    BY Services DEF Dying
  <2>2. main.at = 4 => ThreadOf[Dying] = "clock"
    BY Services DEF Dying
  <2>3. main.at = 8 => ThreadOf[Dying] = "worker"
    BY Services DEF Dying
  <2> QED BY <2>1, <2>2, <2>3
<1>3. TypeOK'
  BY <1>1 DEF IInv, TypeOK
<1>4. DrowsyOK' /\ NoMissedWakeup'
  BY <1>1, <1>2 DEF IInv, DrowsyOK, NoMissedWakeup, Up
<1>5. Unstarted' /\ Joined'
  BY <1>1, <1>2 DEF IInv, Unstarted, Joined, Destructing
<1>6. Accounted'
  BY MainAccounted
<1> QED BY <1>3, <1>4, <1>5, <1>6 DEF IInv

\* The flag of LogService is cleared only when the worker is not about to sleep.
LEMMA StopKeeps ==
    ASSUME IInv, StopService
    PROVE  IInv'
<1> USE MainIndex, MainPlace DEF StopService
<1>1. /\ running' \in [Flags -> BOOLEAN]
      /\ Dying = "Log" => main.at = 8 /\ thread["worker"] # "drowsy"
      /\ Dying # "Log" => running'["Log"] = running["Log"]
      /\ main.at \in {4, 8, 9}
  <2>1. Dying \in {"State", "Log", "UdpBridge"} /\ main.at \in {4, 8, 9}
    BY Services DEF Dying, ThreadOf
  <2>2. Dying = "Log" => main.at = 8
    BY <2>1, Services DEF Dying
  <2> QED BY <2>1, <2>2 DEF IInv, TypeOK, Flags, ThreadOf, LogFree
<1>2. TypeOK'
  BY <1>1 DEF IInv, TypeOK, Dying
<1>3. DrowsyOK' /\ NoMissedWakeup'
  BY <1>1 DEF IInv, DrowsyOK, NoMissedWakeup, Up, Dying
<1>4. Unstarted' /\ Joined'
  BY <1>1 DEF IInv, Unstarted, Joined, Destructing
<1>5. Accounted'
  BY MainAccounted
<1> QED BY <1>2, <1>3, <1>4, <1>5 DEF IInv

LEMMA WakeKeeps ==
    ASSUME IInv, WakeService
    PROVE  IInv'
<1> USE MainIndex, MainPlace DEF WakeService
<1> DEFINE t == ThreadOf[Dying]
<1>1. /\ Dying \in DOMAIN ThreadOf /\ t \in {"clock", "worker", "rx"}
      /\ Dying = "Log" <=> t = "worker"
  BY DEF IInv, TypeOK, ThreadOf
<1>2. /\ DOMAIN thread' = Threads
      /\ \A x \in Threads \ {t} : thread'[x] = thread[x]
      /\ thread'[t] = (IF thread[t] = "asleep" THEN Enters(t) ELSE thread[t])
  BY <1>1 DEF IInv, TypeOK, GoesTo, Threads
<1>3. /\ thread'["worker"] = (IF Dying = "Log" /\ thread["worker"] = "asleep" THEN "check" ELSE thread["worker"])
      /\ thread'["clock"] = thread["clock"] \/ (thread["clock"] = "asleep" /\ thread'["clock"] = "top")
      /\ thread'["rx"] = thread["rx"] \/ (thread["rx"] = "asleep" /\ thread'["rx"] = "select")
      /\ thread'["heartbeat"] = thread["heartbeat"]
  BY <1>1, <1>2 DEF Enters, Threads
<1> HIDE DEF t
<1>4. TypeOK'
  <2>1. \A x \in Threads : thread'[x] \in Places(x)
    BY <1>3 DEF IInv, TypeOK, Places, Threads
  <2>2. Dying' = Dying
    BY DEF Dying
  <2> QED BY <1>1, <1>2, <1>3, <2>1, <2>2 DEF IInv, TypeOK
<1>5. DrowsyOK' /\ NoMissedWakeup'
  BY <1>3 DEF IInv, DrowsyOK, NoMissedWakeup, Up, Loggers
<1>6. Unstarted' /\ Joined'
  BY <1>3 DEF IInv, Unstarted, Joined, Destructing
<1>7. Accounted'
  BY <1>3, MainAccounted
<1> QED BY <1>4, <1>5, <1>6, <1>7 DEF IInv

LEMMA MainKeeps ==
    ASSUME IInv, Main
    PROVE  IInv'
<1>1. CASE Construct \/ Start \/ SpawnHeartbeat \/ Wait \/ NotifyHeartbeat
  BY <1>1, MainStarts
<1>2. CASE JoinHeartbeat
  BY <1>2, HeartbeatJoined
<1>3. CASE Destroy
  BY <1>3, DestructorEnds DEF Destroy
<1>4. CASE StopService
  BY <1>4, StopKeeps
<1>5. CASE WakeService
  BY <1>5, WakeKeeps
<1>6. CASE JoinService
  BY <1>6, DestructorEnds DEF JoinService
<1> QED BY <1>1, <1>2, <1>3, <1>4, <1>5, <1>6 DEF Main
-----------------------------------------------------------------------------
LEMMA InitOK == Init => IInv
<1> SUFFICES ASSUME Init PROVE IInv
  OBVIOUS
<1> USE DEF Init
<1>1. main = At("construct", 9) /\ main \in MainAt /\ main.pc = "construct" /\ main.at = 9
  BY Services, MainPlace
<1>2. TypeOK
  BY <1>1 DEF TypeOK, Places, Threads
<1>3. DrowsyOK /\ NoMissedWakeup /\ Unstarted
  BY <1>1 DEF DrowsyOK, NoMissedWakeup, Unstarted, Threads
<1>4. Joined
  <2>1. running["Log"]
    BY DEF Flags, ThreadOf
  <2> QED BY <1>1, <2>1 DEF Joined, Destructing, Threads
<1>5. Accounted
  BY <1>1 DEF Accounted, LoggedBy, Threads
<1> QED BY <1>2, <1>3, <1>4, <1>5 DEF IInv

LEMMA Stutters ==
    ASSUME IInv, UNCHANGED vars
    PROVE  IInv'
BY DEF vars, IInv, TypeOK, DrowsyOK, NoMissedWakeup, Unstarted, Joined, Accounted,
       LoggedBy, Destructing, Dying, Up

LEMMA Inductive == IInv /\ [Next]_vars => IInv'
<1> SUFFICES ASSUME IInv, [Next]_vars PROVE IInv'
  OBVIOUS
<1>1. CASE Main
  BY <1>1, MainKeeps
<1>2. CASE Signal
  BY <1>2, SignalKeeps
<1>3. CASE Worker
  BY <1>3, WorkerKeeps
<1>4. CASE \E t \in Loggers : Push(t) \/ Notify(t)
  BY <1>4, PushKeeps, NotifyKeeps
<1>5. CASE (Heartbeat \/ Clock \/ Receiver \/ Datagram) /\ ~ \E t \in Loggers : Push(t) \/ Notify(t)
  BY <1>5, ThreadsMove
<1>6. CASE Crash
  BY <1>6, CrashKeeps
<1>7. CASE Terminated \/ UNCHANGED vars
  BY <1>7, Stutters DEF Terminated
<1> QED BY <1>1, <1>2, <1>3, <1>4, <1>5, <1>6, <1>7 DEF Next

LEMMA Invariance == Spec => []IInv
<1> QED BY InitOK, Inductive, PTL DEF Spec

\* The variables have values of the program: main is at a service of the tuple, and the
\* worker of log_service.cpp publishes only while it has an entry left.
THEOREM Typed == Spec => []TypeOK
<1>1. IInv => TypeOK
  BY DEF IInv
<1> QED BY <1>1, Invariance, PTL

\* LogService::worker_loop never sleeps past an entry or past its end: whoever gave it
\* one, or told it to stop, is about to notify it.
THEOREM WorkerIsWoken == Spec => []NoMissedWakeup
<1>1. IInv => NoMissedWakeup
  BY DEF IInv
<1> QED BY <1>1, Invariance, PTL

\* Once main has returned, everything the heartbeat and the clock ever logged is out:
\* both are joined before LogService::~LogService, whose worker empties the queue.
THEOREM LastWordsHeard == Spec => []LastWords
<1>1. IInv => LastWords
  <2> SUFFICES ASSUME IInv, main.pc = "exited"
               PROVE  \A t \in {"heartbeat", "clock"} : LoggedBy(t) \subseteq SeqSet(published)
    BY DEF LastWords, LoggedBy
  <2>1. thread["worker"] = "done"
    BY DEF IInv, Joined
  <2> QED BY <2>1 DEF IInv, Accounted
<1> QED BY <1>1, Invariance, PTL
-----------------------------------------------------------------------------
(***************************************************************************)
(* The order of destruction: what a thread can still call is still alive.  *)
(***************************************************************************)
From(i) == { AppServices[j] : j \in i..9 }

\* The services that are there, by how far main has come.
Surviving ==
    CASE main.pc = "construct" -> From(main.at + 1)
      [] Destructing -> From(main.at)
      [] main.pc = "exited" -> {}
      [] OTHER -> From(1)

Alive == Up => Surviving \subseteq alive

\* The receiver is joined by the last destructor.
ReceiverJoined == main.pc = "exited" => thread["rx"] = "done"

SInv == IInv /\ Alive /\ ReceiverJoined

LEMMA DistinctServices ==
    \A i, j \in 1..9 : AppServices[i] = AppServices[j] => i = j
BY DEF AppServices

LEMMA AllServices == From(1) = SeqSet(AppServices)
<1>1. DOMAIN AppServices = 1..9
  BY DEF AppServices
<1> QED BY <1>1 DEF From, SeqSet

LEMMA FromNext ==
    ASSUME NEW i \in 1..9
    PROVE  /\ From(i) = From(i + 1) \cup {AppServices[i]}
           /\ AppServices[i] \notin From(i + 1)
           /\ From(10) = {}
<1>1. i..9 = (i + 1)..9 \cup {i} /\ i \notin (i + 1)..9 /\ (i + 1)..9 \subseteq 1..9
  OBVIOUS
<1>2. 10..9 = {}
  OBVIOUS
<1>3. \A j \in (i + 1)..9 : AppServices[j] # AppServices[i]
  BY <1>1, DistinctServices
<1> QED BY <1>1, <1>2, <1>3 DEF From

\* The threads run on without constructing or destroying anything, and a receiver that
\* is over stays so.
LEMMA ThreadsSurvive ==
    ASSUME SInv, Signal \/ Worker \/ Heartbeat \/ Clock \/ Receiver \/ Datagram
    PROVE  Alive' /\ ReceiverJoined'
<1>1. UNCHANGED <<main, alive>>
  BY DEF Signal, Worker, Swap, PublishEntry, FallAsleep, Heartbeat, Clock, Receiver, Datagram,
         Push, Notify, Moves, Timeout, Stays
<1>2. thread["rx"] = "done" => thread'["rx"] = "done"
  <2>1. DOMAIN thread = Threads
    BY DEF SInv, IInv, TypeOK
  <2> USE <2>1 DEF GoesTo, Threads
  <2>2. CASE Signal
    BY <2>2 DEF Signal
  <2>3. CASE Worker
    BY <2>3 DEF Worker, Swap, PublishEntry, FallAsleep
  <2>4. CASE Heartbeat
    BY <2>4 DEF Heartbeat, FallAsleep, Timeout, Moves, Push, Notify
  <2>5. CASE Clock
    BY <2>5 DEF Clock, FallAsleep, Timeout, Moves, Push, Notify
  <2>6. CASE Receiver \/ Datagram
    BY <2>6 DEF Receiver, Datagram, Moves, Push, Notify, MayLog
  <2> QED BY <2>2, <2>3, <2>4, <2>5, <2>6
<1>3. Alive'
  BY <1>1 DEF SInv, Alive, Up, Surviving, Destructing
<1> QED BY <1>1, <1>2, <1>3 DEF SInv, ReceiverJoined

\* A constructor adds the service main is at; all are there when the threads start.
LEMMA MainBuilds ==
    ASSUME SInv, Construct \/ Start \/ SpawnHeartbeat \/ Wait \/ NotifyHeartbeat \/ JoinHeartbeat
    PROVE  Alive' /\ ReceiverJoined'
<1> USE MainIndex, MainPlace, Services DEF SInv
<1>1. CASE Construct
  <2>1. Surviving = From(main.at + 1) /\ main.at \in 1..9 /\ Up
    <3>1. main.pc = "construct" /\ main.at \in 1..9
      BY <1>1 DEF Construct
    <3> QED BY ONLY <3>1 DEF Surviving, Destructing, Up
  <2>2. From(main.at) = From(main.at + 1) \cup {AppServices[main.at]}
    BY <2>1, FromNext
  <2>3. Surviving' = From(main.at) /\ main'.pc # "exited"
    <3>1. \/ main'.pc = "construct" /\ main'.at + 1 = main.at
          \/ main'.pc = "start" /\ main.at = 1
      BY <1>1, <2>1 DEF Construct
    <3> QED BY ONLY <3>1 DEF Surviving, Destructing
  <2>4. alive' = alive \cup {AppServices[main.at]}
    BY <1>1 DEF Construct
  <2> QED BY <2>1, <2>2, <2>3, <2>4 DEF Alive, ReceiverJoined
<1>2. CASE Start \/ SpawnHeartbeat \/ Wait \/ NotifyHeartbeat \/ JoinHeartbeat
  <2>1. /\ main.pc \in {"start", "spawn", "wait", "notify", "join"}
        /\ main'.pc \in {"start", "spawn", "wait", "notify", "join"}
              \/ (main'.pc = "destroy" /\ main'.at = 1)
        /\ alive' = alive
    BY <1>2 DEF Start, SpawnHeartbeat, Wait, NotifyHeartbeat, JoinHeartbeat
  <2>2. Surviving = From(1) /\ Surviving' = From(1) /\ main'.pc # "exited" /\ Up
    BY <2>1 DEF Surviving, Destructing, Up
  <2> QED BY <2>1, <2>2 DEF Alive, ReceiverJoined
<1> QED BY <1>1, <1>2

\* A destructor takes away the service main is at and leaves those behind it; the last
\* one has joined the receiver.
LEMMA MainDestroys ==
    ASSUME SInv, Destroy \/ StopService \/ WakeService \/ JoinService
    PROVE  Alive' /\ ReceiverJoined'
<1> USE MainIndex, MainPlace, Services DEF SInv
<1>1. CASE Destroy \/ JoinService
  <2>1. main.pc \in {"destroy", "await"} /\ main.at \in 1..9 /\ main' = NextDestructor
    BY <1>1 DEF Destroy, JoinService
  <2>2. \/ main.at < 9 /\ main'.pc = "destroy" /\ main'.at = main.at + 1
        \/ main.at = 9 /\ main'.pc = "exited" /\ main'.at = 1
    BY <2>1, NextPlace
  <2>3. Surviving = From(main.at) /\ Up
    BY <2>1 DEF Surviving, Destructing, Up
  <2>4. /\ From(main.at) = From(main.at + 1) \cup {AppServices[main.at]}
        /\ AppServices[main.at] \notin From(main.at + 1)
    BY <2>1, FromNext
  <2>5. alive' = alive \ {AppServices[main.at]}
    BY <1>1 DEF Destroy, JoinService, Dying
  <2>6. Surviving' \subseteq From(main.at + 1)
    BY <2>2 DEF Surviving, Destructing
  <2>7. Alive'
    BY <2>3, <2>4, <2>5, <2>6 DEF Alive
  <2>8. main.at = 9 => thread'["rx"] = "done"
    <3>1. main.at = 9 => Dying = "UdpBridge" /\ Dying \in DOMAIN ThreadOf
      BY DEF Dying
    <3> QED BY <1>1, <3>1 DEF Destroy, JoinService
  <2> QED BY <2>2, <2>7, <2>8 DEF ReceiverJoined
<1>2. CASE StopService \/ WakeService
  <2>1. /\ main.pc \in {"destroy", "wake"} /\ main'.pc \in {"wake", "await"}
        /\ main'.at = main.at /\ alive' = alive
    BY <1>2 DEF StopService, WakeService
  <2>2. Surviving' = Surviving /\ Up
    BY <2>1 DEF Surviving, Destructing, Up
  <2> QED BY <2>1, <2>2 DEF Alive, ReceiverJoined
<1> QED BY <1>1, <1>2

LEMMA SurvivalInit == Init => SInv
<1> SUFFICES ASSUME Init PROVE SInv
  OBVIOUS
<1>1. main.pc = "construct" /\ main.at = 9
  BY Services, MainPlace DEF Init
<1>2. Surviving = {}
  <2>1. From(10) = {}
    BY FromNext
  <2>2. main.at + 1 = 10
    BY <1>1
  <2>3. Surviving = From(main.at + 1)
    BY <1>1 DEF Surviving, Destructing
  <2> QED BY <2>1, <2>2, <2>3
<1> QED BY <1>1, <1>2, InitOK DEF SInv, Alive, ReceiverJoined

LEMMA SurvivalInductive == SInv /\ [Next]_vars => SInv'
<1> SUFFICES ASSUME SInv, [Next]_vars PROVE SInv'
  OBVIOUS
<1>1. IInv'
  BY Inductive DEF SInv
<1>2. Alive' /\ ReceiverJoined'
  <2>1. CASE Main
    BY <2>1, MainBuilds, MainDestroys DEF Main
  <2>2. CASE Signal \/ Worker \/ Heartbeat \/ Clock \/ Receiver \/ Datagram
    BY <2>2, ThreadsSurvive
  <2>3. CASE Crash
    BY <2>3, MainPlace DEF Crash, Alive, ReceiverJoined, Up
  <2>4. CASE Terminated \/ UNCHANGED vars
    BY <2>4 DEF Terminated, vars, SInv, Alive, ReceiverJoined, Up, Surviving, Destructing
  <2> QED BY <2>1, <2>2, <2>3, <2>4 DEF Next
<1> QED BY <1>1, <1>2 DEF SInv

\* What a thread in a call needs is in Surviving, by what is over when main gets there.
LEMMA LastCalls ==
    ASSUME SInv, CallsLaterServices, Up, NEW t \in Threads, Calling(t)
    PROVE  Reach[t] \ (CASE Destructing /\ t = "clock" -> BeforeTheClock
                         [] Destructing /\ t = "rx" -> SeqSet(AppServices) \ {"UdpBridge"}
                         [] OTHER -> {}) \subseteq Surviving
<1> USE DEF SInv
<1>1. Reach[t] \subseteq From(1)
  BY AllServices DEF CallsLaterServices
<1>2. thread[t] \notin {"none", "done"}
  BY DEF Calling
<1>3. main.pc # "construct"
  BY <1>2 DEF IInv, Unstarted, Threads
<1>4. main.pc # "exited"
  BY <1>2 DEF IInv, Joined, ReceiverJoined, Threads
<1>5. CASE ~Destructing
  BY <1>1, <1>3, <1>4, <1>5 DEF Surviving
<1>6. CASE Destructing
  <2>1. Surviving = From(main.at) /\ main.at \in 1..9
    BY <1>6, MainIndex DEF Surviving, Destructing
  <2>2. t # "heartbeat"
    BY <1>2, <1>6 DEF IInv, Joined, Destructing
  <2>3. CASE t = "clock"
    <3>1. main.at <= 4
      BY <1>2, <1>6, <2>1, <2>3 DEF IInv, Joined
    <3>2. From(1) \ BeforeTheClock \subseteq From(main.at)
      <4>1. \A i \in 1..3 : AppServices[i] \in BeforeTheClock
        BY DEF AppServices, BeforeTheClock
      <4>2. \A i \in 1..9 : i \in 1..3 \/ i \in main.at..9
        BY <2>1, <3>1
      <4> QED BY <4>1, <4>2 DEF From
    <3> QED BY <1>1, <1>6, <2>1, <2>3, <3>2
  <2>4. CASE t = "worker"
    <3>1. main.at <= 8
      BY <1>2, <1>6, <2>1, <2>4 DEF IInv, Joined
    <3>2. "Log" \in From(main.at) /\ "UdpBridge" \in From(main.at)
      <4>1. 8 \in main.at..9 /\ 9 \in main.at..9
        BY <2>1, <3>1
      <4> QED BY <4>1, Services DEF From
    <3> QED BY <2>1, <2>4, <3>2 DEF CallsLaterServices
  <2>5. CASE t = "rx"
    <3>1. "UdpBridge" \in From(main.at)
      <4>1. 9 \in main.at..9
        BY <2>1
      <4> QED BY <4>1, Services DEF From
    <3> QED BY <1>1, <1>6, <2>1, <2>5, <3>1, AllServices
  <2> QED BY <2>2, <2>3, <2>4, <2>5 DEF Threads
<1> QED BY <1>5, <1>6

\* No thread calls a service before it is constructed, and after its destructor only what
\* main.cpp leaves open: the order of AppServices destroys the callers first, the clock,
\* the worker and the receiver being joined in their destructors.
THEOREM CallsAreServed ==
    ASSUME CallsLaterServices
    PROVE  Spec => []ServedByTheLiving
<1>1. SInv => ServedByTheLiving
  <2> SUFFICES ASSUME SInv, Up, NEW t \in Threads, Calling(t)
               PROVE  Reach[t] \ (CASE Destructing /\ t = "clock" -> BeforeTheClock
                                    [] Destructing /\ t = "rx" -> SeqSet(AppServices) \ {"UdpBridge"}
                                    [] OTHER -> {}) \subseteq alive
    BY DEF ServedByTheLiving
  <2>1. Surviving \subseteq alive
    BY DEF SInv, Alive
  <2> QED BY <2>1, LastCalls
<1> QED BY <1>1, SurvivalInit, SurvivalInductive, PTL DEF Spec
-----------------------------------------------------------------------------
(***************************************************************************)
(* The queue of LogService implements the log: its safety, without the     *)
(* fairness of the worker, is                                              *)
(***************************************************************************)
LogSafely == Log!Init /\ [][Log!Next]_Log!vars

LEMMA TailOfConcat ==
    ASSUME NEW S, NEW s \in Seq(S), NEW r \in Seq(S), s # <<>>
    PROVE  s \o r # <<>> /\ Head(s \o r) = Head(s) /\ Tail(s \o r) = Tail(s) \o r
<1>1. Len(s) > 0 /\ Len(s \o r) = Len(s) + Len(r)
  OBVIOUS
<1>2. s \o r # <<>> /\ Head(s \o r) = Head(s)
  BY <1>1
<1>3. Len(Tail(s \o r)) = Len(Tail(s) \o r)
  BY <1>1
<1>4. \A i \in 1..Len(Tail(s \o r)) : Tail(s \o r)[i] = (Tail(s) \o r)[i]
  BY <1>1
<1>5. Tail(s \o r) \in Seq(S) /\ Tail(s) \o r \in Seq(S)
  BY <1>1, <1>2
<1> QED BY <1>2, <1>3, <1>4, <1>5

LEMMA ConcatAppend ==
    ASSUME NEW S, NEW s \in Seq(S), NEW r \in Seq(S), NEW e \in S
    PROVE  s \o Append(r, e) = Append(s \o r, e)
<1>1. Len(s \o Append(r, e)) = Len(Append(s \o r, e))
  OBVIOUS
<1>2. \A i \in 1..Len(s \o Append(r, e)) : (s \o Append(r, e))[i] = Append(s \o r, e)[i]
  OBVIOUS
<1>3. s \o Append(r, e) \in Seq(S) /\ Append(s \o r, e) \in Seq(S)
  OBVIOUS
<1> QED BY <1>1, <1>2, <1>3

LEMMA EmptyConcat ==
    ASSUME NEW S, NEW s \in Seq(S)
    PROVE  <<>> \o s = s /\ s \o <<>> = s
OBVIOUS

LEMMA LogStarts == Init => Log!Init
<1> SUFFICES ASSUME Init PROVE Log!Init
  OBVIOUS
<1>1. main.pc = "construct"
  BY Services, MainPlace DEF Init
<1>2. thread["worker"] = "none" /\ batch \o queue = <<>> /\ published = <<>>
  BY EmptyConcat DEF Init, Threads
<1> QED BY <1>1, <1>2 DEF Log!Init, Up

\* A step that leaves the queue and the end of the worker alone is none of the log.
LEMMA LogStutters ==
    ASSUME UNCHANGED <<queue, batch, published>>, Up' = Up,
           (thread["worker"] = "done")' = (thread["worker"] = "done")
    PROVE  [Log!Next]_Log!vars
BY DEF Log!vars, Up

LEMMA MainIsSilent ==
    ASSUME IInv, Main
    PROVE  /\ UNCHANGED <<queue, batch, published>> /\ Up /\ Up'
           /\ (thread["worker"] = "done")' = (thread["worker"] = "done")
<1> USE MainIndex, MainPlace, Services DEF Up
<1>1. CASE Start
  <2> USE <1>1 DEF Start
  <2>1. CASE main.at = 4
    BY <2>1 DEF GoesTo, Threads, IInv, TypeOK
  <2>2. CASE main.at = 8
    BY <2>2 DEF GoesTo, Enters, Threads, IInv, TypeOK, Unstarted
  <2>3. CASE main.at = 9
    BY <2>3 DEF GoesTo, Threads, IInv, TypeOK
  <2>4. CASE main.at \notin {4, 8, 9}
    BY <2>4
  <2> QED BY <2>1, <2>2, <2>3, <2>4
<1>2. CASE Construct \/ Wait \/ JoinHeartbeat \/ StopService
  BY <1>2 DEF Construct, Wait, JoinHeartbeat, StopService
<1>3. CASE SpawnHeartbeat \/ NotifyHeartbeat
  BY <1>3 DEF SpawnHeartbeat, NotifyHeartbeat, GoesTo, Threads, IInv, TypeOK
<1>4. CASE Destroy \/ JoinService
  BY <1>4, NextPlace DEF Destroy, JoinService
<1>5. CASE WakeService
  <2>1. Dying \in DOMAIN ThreadOf
    BY <1>5 DEF WakeService, IInv, TypeOK
  <2>2. ThreadOf[Dying] \in {"clock", "worker", "rx"}
    BY <2>1 DEF ThreadOf
  <2> QED BY <1>5, <2>2 DEF WakeService, GoesTo, Enters, Threads, IInv, TypeOK
<1> QED BY <1>1, <1>2, <1>3, <1>4, <1>5 DEF Main

\* The receiver, once the worker has left, logs in vain.
LEMMA PushLogs ==
    ASSUME IInv, NEW t \in Loggers, Push(t)
    PROVE  [Log!Next]_Log!vars
<1> DEFINE e == <<t, logged'[t]>>
<1> USE DEF Push, MayLog, Stays, Up
<1>1. thread'["worker"] = thread["worker"]
  BY DEF GoesTo, Threads, Loggers, IInv, TypeOK
<1>2. e \in Entry
  <2>1. logged[t] \in Nat /\ MaxLog[t] \in Nat /\ logged'[t] = logged[t] + 1
    BY LifecycleAssumption DEF IInv, TypeOK
  <2>2. logged'[t] \in 1..MaxLog[t]
    BY <2>1
  <2> QED BY <2>2, EntryOf
<1>3. CASE thread["worker"] = "done"
  BY <1>1, <1>3 DEF Log!vars
<1>4. CASE thread["worker"] # "done"
  <2>1. batch \o queue' = Append(batch \o queue, e)
    BY <1>2, ConcatAppend DEF IInv, TypeOK
  <2>2. Log!Log(e)
    BY <1>1, <1>4, <2>1 DEF Log!Log
  <2> QED BY <1>2, <2>2 DEF Log!Next
<1> QED BY <1>3, <1>4

LEMMA WorkerLogs ==
    ASSUME IInv, Worker
    PROVE  [Log!Next]_Log!vars
<1> USE DEF GoesTo, Stays, Threads, Up
<1>1. CASE Swap
  <2> USE <1>1 DEF Swap
  <2>1. thread["worker"] = "check" /\ batch = <<>> /\ queue \in Seq(Entry)
    BY DEF IInv, TypeOK
  <2>2. CASE queue # <<>>
    <3>1. thread'["worker"] = "publish" /\ batch' \o queue' = batch \o queue
      BY <2>1, <2>2, EmptyConcat DEF IInv, TypeOK
    <3> QED BY <2>1, <3>1 DEF Log!vars
  <2>3. CASE queue = <<>> /\ running["Log"]
    BY <2>1, <2>3 DEF Log!vars, IInv, TypeOK
  <2>4. CASE queue = <<>> /\ ~running["Log"]
    <3>1. thread'["worker"] = "done" /\ batch \o queue = <<>>
      BY <2>1, <2>4, EmptyConcat DEF IInv, TypeOK
    <3>2. Log!Close
      BY <2>1, <3>1 DEF Log!Close
    <3> QED BY <3>2 DEF Log!Next
  <2> QED BY <2>2, <2>3, <2>4
<1>2. CASE PublishEntry
  <2> USE <1>2 DEF PublishEntry
  <2>1. thread["worker"] = "publish" /\ thread'["worker"] \in {"publish", "check"}
    BY DEF IInv, TypeOK
  <2>2. batch \in Seq(Entry) /\ batch # <<>> /\ queue \in Seq(Entry)
    BY <2>1 DEF IInv, TypeOK
  <2>3. /\ batch \o queue # <<>> /\ Head(batch \o queue) = Head(batch)
        /\ Tail(batch \o queue) = Tail(batch) \o queue
    BY <2>2, TailOfConcat
  <2>4. Log!Emit
    BY <2>1, <2>3 DEF Log!Emit
  <2> QED BY <2>4 DEF Log!Next
<1>3. CASE FallAsleep("worker")
  BY <1>3 DEF FallAsleep, Log!vars, IInv, TypeOK
<1> QED BY <1>1, <1>2, <1>3 DEF Worker

LEMMA OthersAreSilent ==
    ASSUME IInv, Heartbeat \/ Clock \/ Receiver \/ Datagram, ~ \E t \in Loggers : Push(t)
    PROVE  /\ UNCHANGED <<queue, batch, published>> /\ Up' = Up
           /\ (thread["worker"] = "done")' = (thread["worker"] = "done")
<1>1. \/ \E t \in Loggers : Notify(t)
      \/ \E t \in Loggers : \E from, to : Moves(t, from, to)
  BY DEF Heartbeat, Clock, Receiver, Datagram, Timeout, FallAsleep, Moves, Loggers
<1>2. CASE \E t \in Loggers : Notify(t)
  BY <1>2 DEF Notify, Stays, Loggers, Threads, Up, IInv, TypeOK
<1>3. CASE \E t \in Loggers : \E from, to : Moves(t, from, to)
  BY <1>3 DEF Moves, GoesTo, Stays, Loggers, Threads, Up, IInv, TypeOK
<1> QED BY <1>1, <1>2, <1>3

LEMMA LogSteps == IInv /\ [Next]_vars => [Log!Next]_Log!vars
<1> SUFFICES ASSUME IInv, [Next]_vars PROVE [Log!Next]_Log!vars
  OBVIOUS
<1>1. CASE Main
  BY <1>1, MainIsSilent, LogStutters
<1>2. CASE Signal
  BY <1>2, LogStutters DEF Signal, Up
<1>3. CASE Worker
  BY <1>3, WorkerLogs
<1>4. CASE \E t \in Loggers : Push(t)
  BY <1>4, PushLogs
<1>5. CASE (Heartbeat \/ Clock \/ Receiver \/ Datagram) /\ ~ \E t \in Loggers : Push(t)
  BY <1>5, OthersAreSilent, LogStutters
<1>6. CASE Crash
  <2>1. Up /\ ~Up'
    BY <1>6, MainPlace DEF Crash, Up
  <2>2. Log!Die
    BY <1>6, <2>1 DEF Log!Die, Crash
  <2> QED BY <2>2 DEF Log!Next
<1>7. CASE Terminated \/ UNCHANGED vars
  BY <1>7, LogStutters DEF Terminated, vars, Up
<1> QED BY <1>1, <1>2, <1>3, <1>4, <1>5, <1>6, <1>7 DEF Next

\* LogService emits what is logged once and in its order, and its worker leaves only when
\* nothing is pending (log_service.cpp): the liveness of LogFifo is left to TLC.
THEOREM LogImplements == Spec => LogSafely
<1>1. Init => Log!Init
  BY LogStarts
<1>2. IInv /\ [Next]_vars => [Log!Next]_Log!vars
  BY LogSteps
<1> QED BY <1>1, <1>2, Invariance, PTL DEF Spec, LogSafely
=============================================================================
