# Verification of the SIL simulator

TLA+ modules, TLC configurations and TLAPS proofs about `sil_app`, the C++ simulator in
`src/src/`, which a Python test harness drives over UDP.

## 1. The system

`sil_app` is one process. Nine services share one `MessageBus`. `MessageBus::publish` calls
every subscriber of a message, one after the other, **on the thread that publishes**, and takes
no lock. Each service has one mutex, which its handlers take with a guard; several handlers
publish while they hold it. All concurrency comes from the few threads that publish first:

| thread | loop | what it publishes |
|---|---|---|
| clock | `StateService::clock_loop` | a `PhysicsTick` every 10 ms |
| rx | `UdpBridge::rx_loop` | what a datagram carries, if its id is authorized |
| worker | `LogService::worker_loop` | the queued log entries |
| heartbeat | `main` | nothing; calls `LogService::log` every 500 ms |

### Components

| component | state | operations | what makes it correct | hard because |
|---|---|---|---|---|
| `MessageBus`, `component.h` | handlers by id, fixed after start-up | subscribe, publish, authorized injection | every publish returns; handlers are called in one order | handlers nest on the publisher's stack with all its locks |
| `MotorService` | current sequence, step, remaining time, active | `MotorSequence`, `PhysicsTick`, `advance_step` | steps in order, each for its time; preemption; reports in order | commands and ticks come from two threads; publishes under its lock |
| `StateService` | last report, Ready/Executing, clock | `MotorStatus`, `StateRequest`, `clock_loop` | the tick carries what the motor does | the clock copies its state, unlocks, then publishes |
| `KinematicsService` | id, elapsed time, position, speed | `PhysicsTick`, `MotorStatus`, request | still when Ready; times and ids of the sequence | takes ticks and reports in any interleaving |
| `PowerService` | id, voltage, current, charge | same three | same | same |
| `ThermalService` | three temperatures | tick, `EnvironmentData`, request | stays between ambient and equilibrium | floating point |
| `EnvironmentService` | regions (shared pointers), time of last request | `EnvironmentData`, `InternalEnvRequest` | a hit is shared, a miss is asked for at most every 500 ms | regions are overwritten while shared; publishes under its lock |
| `AutonomousService` | route, node, region, telemetry | five handlers | nodes in order, one stop for each route | replies come back inside its own publish (recursive mutex) |
| `LogService`, `ComponentLogger` | queue, running flag | `log`, `worker_loop`, destructor | every entry published once, in order | called under every other lock; drain at exit |
| `UdpBridge` | socket, last peer | `rx_loop`, `forward_to_udp` | only authorized ids get in | datagrams lost, late, duplicated; one peer |
| `AppServicesContainer`, `main` | construction and start order | start, signal, join, destroy | subscriptions before threads; clean exit | services are destroyed while threads still dispatch |
| `messages/` | none: the payload of each id, and its fields | | both sides agree on every byte | padding, nesting, arrays |
| `generator/` | what has been printed so far | `generate_struct`, `collect_msg_edges`, `emit_md_payload_section` | the Python classes are the C++ structs, the document is true | recursion over types, running offsets |
| `tests/python` | socket, kept answers, what the test has learnt | `recv_msg`, `drain`, the polling fixtures | what a fixture concludes is true of the program; its loops end | no request numbers, lost and late answers, one peer |

`PROJECT.json` lists them with their status, and the hazards of this code with the
properties that watch each.

## 2. Modules

```
Dispatch ──── SilDispatch ── MCDispatch          threads, call stacks, locks
   │             │
   │          SilTopology ─┐                     who subscribes, locks and publishes
   │                       │
Executor ─(refined by)─ Vehicle ── MCVehicle     motor, state, clock, kinematics, power
                           │  └─ VehicleTiming ── MCVehicleTiming
                           │
                          Link ── MCLink         UDP, the bridge and the tests' fixtures

Route ──(refined by)── Mission ── MCMission      routes, regions, telemetry
                          │           │
                    MissionHistory ── MCMissionHistory

SilTopology ── Lifecycle ── MCLifecycle          construction, threads, log, shutdown
                   │
LogFifo ─(refined by)─┘

Messages ── Bindings ─┐
   └─ Docs ── Generators ── MCGenerators         the two code and document generators
SilTopology ─┘
```

| proofs | about | with |
|---|---|---|
| `DispatchProofs` | `Dispatch`, `SilDispatch` | |
| `VehicleProofs` | `Vehicle`, `Executor` | |
| `TimingProofs` | `VehicleTiming` | `VehicleProofs` |
| `LinkProofs` | `Link` | `VehicleProofs` |
| `MissionProofs` | `Mission`, `MissionHistory`, `Route` | |
| `LifecycleProofs` | `Lifecycle`, `LogFifo` | |
| `GeneratorsProofs` | `Generators` | |
| `WireProofs` | `Generators`, `Messages` | `GeneratorsProofs` |

The MC modules `MCVehicleTiming`, `MCLink`, `MCLifecycle` and `MCGenerators` also have TLC evaluate,
for the program's own wiring and messages, what the theorems ask of their parameters.

### Dispatch: the bus, the threads and the locks

One variable, `stack`: the call stack of each thread. A frame is a handler with its phase
(before, under and after its lock guard), the messages it has still to publish in each phase,
and the handlers `dispatch` has still to call for the message being published. The actions are
`Start` (the next iteration of a thread's loop), `Publish`, `Call`, `Lock`, `Unlock` and
`Return`. The locks of a thread are not a variable: they are the mutexes of its frames in
phase `held`, exactly as with scoped guards. `Blocks` distinguishes `std::mutex`, on which a
thread also blocks itself, from `std::recursive_mutex`.

The wiring is a parameter, so that what is proved is proved of every wiring. `SilTopology`
gives the wiring of the application, handler by handler: the `Subscribes` lists as in the
headers; the order of dispatch, which is the reverse of the tuple `AppServices` because
libstdc++ constructs a tuple from its last member (this is observed when the tuple is built
with that library, and the C++ standard leaves it open); and `Paths`, one triple of message
sequences for each way through a handler's conditions. The data behind the conditions is left
out, which only adds behaviours. `SilDispatch` states the lock order the code follows without
naming it:

    hb < auto < env < motor < kinematics, power, state, thermal < log, peer

### Vehicle: one command from the peer to the wheels

Motor, State (with its clock), Kinematics and Power, driven by two threads. A handler that
publishes nothing under its lock is one action; this is sound because every access to a
service's state is under its mutex, and `Dispatch` shows that the handler gets it. The motor
publishes `MotorStatus` under its lock, so that taking a command (`MotorSequence`) and
advancing a step (`MotorAdvances`) only begin a `report`; `StateHears`, `KinematicsHears` and
`PowerHears` deliver it, and `MotorReturn` releases the lock. In between, the other thread
takes any step that needs no lock of the motor. A `PhysicsTick` is sampled (`Sample`) in one
step and taken by its subscribers in later ones, in the order of dispatch, so commands and
reports fall anywhere into it. `AutonomousService` appears as a source of commands in the two
places where the code makes them: inside the clock's tick (`AutoCommand`) and inside a handler
on the receiver (`ReceiveAuto`), under its lock `mission`.

| in the code | in `Vehicle` |
|---|---|
| `MotorService::active_, current_cmd_, current_step_idx_, step_remaining_us_` | `motor` |
| `StateService::state_, last_cmd_id_, last_rpm_, last_active_` | `state` |
| `KinematicsService::cmd_id_, elapsed_us_, position_m_, speed_mps_` | `kin` (position in rpm x time) |
| `PowerService::cmd_id_, current_a_` | `power` (`load` = idle part + speed) |
| the `PhysicsTickPayload` being dispatched | `tick` and the services left |
| the `MotorStatusPayload` being dispatched, `MotorService::mu_` | `report` |
| a `MotorSequencePayload` a thread is about to hand to the motor | `pending` |
| `AutonomousService::mu_` while it publishes a sequence | `mission` |
| nothing: counts the commands issued, a bound | `issued` |

`VehicleTiming` adds three history variables (ticks integrated since the step began and since
the sequence was accepted, and whether the sequence reused an id), which no action of `Vehicle`
reads. `Executor` is the abstract specification: commands are accepted, steps advance one by
one, and a sequence that is not preempted ends.

### Mission: routes and regions

`AutonomousService` and `EnvironmentService`, driven by the clock and the receiver. A tick is a
chain of calls on one stack: `AutoTick` (asks for the position), `CheckRegion`, `Hit` or `Miss`
in `EnvironmentService`, `Underway`, `ReachNode` or `ReachLast`, `AskPower`, and then `Move`, where
Kinematics and the motor take the tick. While a thread is in the middle of such a chain it has
`AutonomousService::mu_` (`AutoFree`); `KinematicsData` that the peer asks for go through the same
actions on the receiver's thread, with the position that was copied before the lock was taken
(`RxPosition`, `TellPosition`). `EnvironmentData` for a region that is cached overwrite it in two
steps, under `EnvironmentService::mu_` (`EnvFree`); in between, whoever reads through the shared
pointer sees any mixture of old and new fields (`Seen`). The motor of `Vehicle` is reduced to one
step that is taken at once, since its reports are treated there.

| in the code | in `Mission` |
|---|---|
| `cmd_, current_node_idx_, route_active_`, `current_env_ptr_` | `auto.cmd`, `.idx`, `.active`, `.env` (the place in the cache, 0 for null) |
| `status_.node_stats`, `used_envs_` | `auto.stats`, `auto.used` |
| `current_total_energy_j_, node_start_energy_j_, node_start_pos_m_, last_pos_m_` | `auto.energy`, `.start_energy`, `.start_pos`, `.last_pos` |
| `EnvironmentService::cache_`, `last_request_time_` | `cache`, `since` (periods since then) |
| the assignment `**it = env` in progress | `update` |
| `MotorService`, with one step; `position_m_` | `motor`, `pos` |
| the `PhysicsTickPayload` being dispatched | `tick` |
| the calls on each thread's stack, `AutonomousService::mu_` | `job` |
| an `EnvironmentRequest` not yet answered | `request` |
| nothing: statuses sent for the route; datagrams the peer sent | `sent`, `issued` |

Energy counts `PowerData`; the amount of each is data. `Route` is the abstract specification:
nodes are reached one by one and a route is reported complete once. `MissionHistory` adds where
the vehicle has been since the route was accepted, whether the service knew the position
at that moment.

### Lifecycle: from construction to the last destructor

`main` constructs the services, starts three threads, spawns the heartbeat, waits for a signal,
joins the heartbeat, and destroys the services in the order of the tuple, while those that come
later in it still run. `LogService` is modelled in full with it, since its queue is what four of
the threads meet at and its drain is what an orderly end is for. Each thread is at one of a few
places; a sleep on a condition variable is three of them (the predicate has been evaluated, the
thread sleeps, it is awake), so that a notification can fall between the first two. In
`LogService` the worker holds the mutex there (`LogFree`); `~StateService` and `main` clear their
flags without it, and their notification may be missed. What a dispatch calls is computed from
the wiring (`Reach`), transitively.

| in the code | in `Lifecycle` |
|---|---|
| the place in `main`, in `AppServicesContainer` and in the destructors | `main` |
| the members of `services` that exist | `alive` |
| `g_running`, `StateService::running_`, `LogService::running_`, an empty `wake_` pipe | `running` |
| the place of each thread, `LogService::mu_` while the worker is about to sleep | `thread` |
| `queue_`, `to_process` | `queue`, `batch` |
| nothing: entries logged by each thread (a bound), entries published | `logged`, `published` |

`Crash` says what a call of a destroyed service may do if the service owns memory: the process
may die. `LogFifo` is the abstract specification: an entry logged while the log is open comes out
once, in order and in the end; the log closes only when it is empty.

### Link: a test and the program

`Link` extends `Vehicle` by the receiver's handlers that answer requests, the two socket buffers,
and a test. The test is free to call the fixtures in any order; each fixture is its
loop of requests, answers and timeouts. Answers are matched by type; what does not match is kept
for later (`kept`). Buffers drop what does not fit, and another client may take the peer (`Stray`),
after which answers are lost. Log entries that the bridge forwards would share the client's
buffer; instead the buffer is small.

| in the code | in `Link` |
|---|---|
| the buffers of the two sockets | `toApp`, `toClient` |
| `UdpBridge::peer_`, `peer_valid_` | `peer` |
| the datagram in `rx_loop` and the calls left in its dispatch | `rx` |
| the payload a handler has filled in and not yet published | `reply` |
| `EnvironmentService::cache_`, `ThermalService::ambient_temp_c_` | `cache`, `ambient` |
| the call stack of the test | `client` (the fixture, its place, the sequence or region sent) |
| `UdpClient._queue` | `kept` |
| nothing: what fixtures that have returned stand for; datagrams of others (a bound) | `knows`, `strays` |

### Generators: bindings and document

`Messages` is the message headers as data, with the layout a compiler gives them; `Memory` is the
image of a payload, byte by byte, each byte named after the value it is part of.
`Bindings` is `generate_bindings`: the recursion of `generate_struct` as a stack of frames
(`stack`), the names begun (`visited`), the format not yet flushed and `current_offset` in the
frame, and the printed classes (`classes`) with the code of `pack_wire` and `unpack_wire` as
data, which `Packed` and `Unpacked` then run; `Parses` says that what the code of `unpack_wire`
reads it assigns to something. `Docs` is `generate_docs`: `edges`, `inbound` and
`outbound` are the edge map and the two sets of names, `tables` the recursion of
`emit_field_table`, `described` the set `visited` of a section, `sections` the output.
`Generators` runs one after the other and relates their outputs to memory, to the wiring and to
each other.

## 3. What the runs check

| run | properties | shows |
|---|---|---|
| `drivers` | `NoCircularWait`, `NoReentry`, `DeclaredOrder`, `StatusSerialised`, `DispatchReturns` | Clock and receiver, any id in a datagram: no deadlock, no recursion, the lock order above, status reports of the two threads that never overlap, and every tick and datagram ends. |
| `vehicle` | `TypeOK`, `StatusCached`, `FinishedIsReported`, `StepsLastTheirTime`, `Executes`, `EchoSettles` | Commands preempting each other anywhere in a tick or report: `Vehicle` implements `Executor`, liveness included; the ids the services echo settle. |
| `ready` | `ReadyIsStill` (violated) | A client that has seen Ready may read the old speed. |
| `elapsed` | `ElapsedSinceStart` (violated) | A tick that overtakes a report keeps `elapsed_us_` from being reset. |
| `msafety` | `TypeOK`, `MissionStops`, `RouteFollowed`, `ReachedOnTheWay` | `Mission` implements `Route` whatever the peer does meanwhile; the motor runs no mission sequence after the route; nodes are reached only where the vehicle has been. |
| `mlive` | `Reacquires` | Outside the known regions a mission asks until it has one, over a lossy link. |
| `stats` | `NodeStatistics` (violated) | The start of a node is never recorded after the first. |
| `route` | `ReachedOnRoute` (violated) | A stale last position makes a node count as passed. |
| `region` | `SpeedOfARegion` (violated) | A region that is overwritten while it is read gives the motor a speed that no version of it asks for. |
| `shutdown` | `NoMissedWakeup`, `ServedByTheLiving`, `LastWords`, `LogService`, `Exits` | A signal at any moment: the process ends although notifications are missed and the receiver is kept busy; the log implements `LogFifo`; no thread calls what is not there, but for the calls named below. |
| `link` | `AcceptedWasTaken`, `StartedIsMoving`, `CompletedIsFinished`, `EnvironmentTakenOver`, `AckedBeforeApplied`, `PollingEnds` | What the fixtures of the tests conclude is true of the services, whatever was lost, late, or taken by another client; their loops end. |
| `generators` | `TypeOK`, `DefinedBeforeUse`, `PacksMemory`, `UnpacksMemory`, `TrafficDrawn`, `SectionsStandAlone`, `DocumentedWhereWritten` | For all messages of the program, the Python classes are the C++ structs byte by byte, they parse and import in order, and the document shows the traffic across the bridge and inside, and the layout. |

`ReachedOnTheWay` is `ReachedOnRoute` for the routes at whose start the service knew the position.

### Disagreements without a run

The code disagrees with what is written about it in these places too. Each shows in the models,
and none needs more than two steps of thought, so that they have no run of their own.

- `doc/arch/autonomous_service.md:38` describes `AutonomousService` as a thread of its own, so
  that mission logic does not block other components. It runs on the thread that publishes
  (`autonomous_service.cpp:127`), and a mission received over UDP makes the clock wait for its lock.
- `messages/simulation_msgs.h:34` says that a `KinematicsData` reflects the state since the
  start of the sequence. `position_m_` is never reset (`kinematics_service.cpp:29`).
- Mission sequences all have `cmd_id` 999, and the motor tells stale ticks by their id only: the
  tick in which a node starts was sampled for the one before and counts down the new sequence,
  which ends a period early (`motor_service.cpp:37`). `StepsLastTheirTime` therefore excludes
  commands that reuse an id.
- `doc/arch/autonomous_service.md:21` says that segment speed limits are respected. Performance
  mode drives at 1.10 times the limit (`autonomous_service.cpp:151`).
- `doc/arch/autonomous_service.md:22` gives routes a life cycle. A node whose timeout ends before
  the vehicle is there leaves the route active for ever (`autonomous_service.cpp:172`).
- `doc/arch/autonomous_service.md:32` has power integrated into the energy of a maneuver. It is
  integrated once per `PowerData`, those that answer a request of the peer included
  (`autonomous_service.cpp:58`): a peer that asks for the power adds to the account.
- `messages/core_msgs.h:8` says that log messages are emitted by any component at any time. What
  the receiver's handlers log after the worker has left is never published, and after
  `~LogService` the sink of `ComponentLogger` dangles (`component_logger.cpp:20`).
- `UdpBridge` is the last service to be destroyed, and its receiver dispatches datagrams until
  then: to services that no longer exist. The clock does the same to the three services before
  `StateService`, whose destructors free nothing. `ServedByTheLiving` names exactly these calls,
  and `Crash` is what they may lead to.
- `messages/simulation_msgs.h:16` promises up to 10 sub-commands; there is room for 5
  (`kMaxSubCmds`).
- `generator/generate_docs.cpp:77` prints that payloads are packed without padding, and line 86
  that the bus has a listener thread. Payloads are sent as they lie in memory, padding included,
  and the bus has no thread.
- `doc/ipc/ipc_flow.dot:128` has the harness send `KinematicsData` and `PowerData`, which the
  bridge does not let in, and line 157 has it receive `MotorSequence`, `KinematicsRequest` and
  `PowerRequest`, which the bridge does not forward: `collect_msg_edges` draws a message both ways
  as soon as the bridge has to do with it. The edges of the same messages between services
  (`AutonomousService` to `MotorService`, for one) are missing, though `README.md:99` speaks of a
  complete topology graph. `TrafficDrawn` asks that all traffic with the harness is drawn, and for
  messages that stay inside that nothing else is; it asks for none of the missing edges.
- A format that is padding alone, as before an aligned struct after another, would print an
  assignment to nothing (`python_code_generator.h:142`), and the module would not parse. No struct
  of the program has such padding (`PaddingShared`).
- `pack_wire` goes through the list it is given (`python_code_generator.h:224`): a short list makes
  a short datagram, which the bridge drops. The tests fill their lists up
  (`tests/python/fixtures_ipc.py:32`), and `Given` says so.
- `generate_struct` gives an enumeration of four bytes the format `?` (`python_code_generator.h:76`)
  and an `InternalEnvData` a class that packs no byte of its 16; no such enumeration exists, and
  that message stays inside.
- `wait_for_sequence_completion`, called by itself, returns on a Ready from before the
  sequence was taken (`fixtures_ipc.py:171`). `CompletedIsFinished` is about
  `dispatch_sequence(wait_complete=True)`, which waits for the acceptance first.

### Bounds

- `Dispatch`: the wiring is the full one in every run; `RxIds` are the ids the peer sends. In
  `drivers` it is every id, those the bridge refuses included. Clock and receiver are the two
  threads whose lock chains have more than one lock besides the log's; the worker and the
  heartbeat hold at most one lock at a time, and `Lifecycle` has them. `MaxDrain` (log entries in
  one batch) concerns only the worker.
- `Vehicle`: `kMaxSubCmds = 2` in place of 5, with a command of 3 steps, so that the clamp acts;
  `kTickUs = 2`, with durations 0, 1, 2, 3, 4 and 5, below, at and between multiples of the
  period; `MaxRpm = 5` with a speed of -7. The commands are two sequences, a stop and an empty one from the
  peer; two legs that share an id and a stop with id 0 from the mission. `MaxAccepts` commands
  in a behaviour, 3 in `vehicle`: one preempts another while a third waits.
  `Wrap` (2^32 for `elapsed_us_`) is 8, so that it wraps during a sequence; it is 100 in
  `elapsed`, where a wrap would hide what is asked.

- `Mission`: positions in cm on a track of two regions that overlap, with nodes in each and in the
  overlap; Performance, Eco and ManualTuning, with and without tuning, with the second region
  steep; in `msafety` also a second version of the first region with other bounds and speed, and
  driving by hand. `MaxIssued` bounds the datagrams sent unasked (answers of the peer do not
  count): 3 in `msafety`, such as a route, a request for the position and a second route.
  `Throttle` is 1 or 2 periods in place of 50, so that both a request that is held back and one
  that is repeated fit into one node; `MaxEnvs = 1`, so that a second region finds the slots
  full; `MaxStats = 2` is the number of nodes. `MaxEnergy` saturates the energy, which only
  `stats` asks about. In `region` there are two versions of one region, flat and slow or steep and
  fast, and one route in Eco mode, whose speed depends on both.
- `Lifecycle`: `MaxLog` is the number of entries a thread logs: two of the heartbeat, so that one
  can be queued while another is published, one each of the clock and the receiver, so that
  entries of different threads meet in one batch. The wiring is the full one; `RxIds` are three
  ids that lead through all services. Ticks, datagrams and heartbeats are not bounded.
- `Link`: one sequence of the test, with the clamp and the normalisation of `Vehicle`; after it, or
  before, anything the fixtures can do, any number of times. `Buffer = 2` datagrams in place of
  hundreds, so that buffers overflow; `MaxStrays = 1`: the peer is taken once, and a
  client that polls takes it back. `Wrap = 4`. Kinematics, State and the motor take ticks and reports; Power
  and the mission, which answer nothing the fixtures ask, are left out.
- `Generators`: no bounds; the messages are those of the program.

Position is unbounded in the code only by the length of the run; here by the number of commands and their
durations.

### Fairness

`Dispatch`: a thread that can run does (weak fairness), and one that waits for a mutex that is
free again and again gets it (strong fairness of `Lock`). A `std::mutex` does not promise
the latter. The threads of this program spend most of their time asleep (`wait_for`, `select`,
`wait`), which leaves the mutexes free, and that is what the assumption stands for.
`Vehicle`: the clock keeps ticking, a report is delivered, and a command that was received is
handed to the motor; nothing obliges the peer to send anything.
`Mission`: the clock goes on; the receiver finishes what it began, with strong fairness since
it waits for `AutonomousService::mu_`, for the reason given for `Dispatch`; and of requests made
again and again one is answered in the end (`SF_vars(Answers)`): any request and any answer may
be lost, but not all of them.
`Lifecycle`: every thread goes on, the timed waits included, which have a limit in the code; that
a datagram arrives is not assumed, nor that none does. `Worker`'s wait has no limit and gets none.
`Link`: the receiver, the clock and the test go on. A loop's deadline may fire at any time but
need not. `Punctual` says that from some point on a timeout means that the request or its answer
was lost: the program answers in microseconds and the sockets wait for a millisecond at least.
Before that point any answer may be late; without it, a client that always gives up a moment too early would
never end its loop.

## 4. What is proved

TLAPS proves these for all values of the constants.

`DispatchProofs`, of every wiring and every set of threads:

- `TypeInv`, on which the others rest: `TypeOK`, and what each frame below the top needs to be
  resumed (its phase's guards and plan are intact).
- `Exclusion`: no two threads own the same mutex. Locks are a function of the stacks, so the
  proof is that each step changes what one thread owns by at most the mutex it locks.
- `LocksDeclared`: if the wiring is `LockOrdered`, `HeldAsDeclared` is invariant: what a handler
  *needs* is always locked on its thread and what is locked is among what it *may* find.
- `DeadlockFree`: then no set of threads is stuck. A thread that waits for `m` owns only
  mutexes ranked below `m` (or `m` itself, recursively); the member of the set that waits for
  the highest mutex is blocked by an owner that waits for a higher one.
- `NeverReentered`: if calls climb in level, so do the stacks.

The last three have `LockOrdered` and `CallsClimb` as hypotheses about the wiring.
`DeclaredOrder` in run `drivers` evaluates both on the application's wiring; the theorems
then cover any number of threads over it, of which TLC runs two.

and of the application's wiring, under the same premise (`SilLockOrdered`):

- `OrderKept` (`DeclaredOrder`): `LocksDeclared` for this wiring.
- `ReportsSerialised` (`StatusSerialised`): whoever is inside a handler of `MotorStatus` has the
  motor's mutex on its thread (`ReportNeedsMotor`), and by `Exclusion` only one thread has it.

`LifecycleProofs`, of any number of log entries (`MaxLog`) and any ids the peer sends:

- `WorkerIsWoken` (`NoMissedWakeup`), `LastWordsHeard` (`LastWords`) and `LogImplements`
  (each step is a step of `LogFifo` or a stutter) follow from one inductive invariant, `IInv`. Besides
  types and `NoMissedWakeup` it says where the worker and the others can be: `DrowsyOK`, that a worker about to
  sleep has found the queue empty and the flag set, which nobody can change while it holds the
  mutex; `Unstarted`, which threads have not been started, by how far `main` has come; `Joined`,
  which threads are over, and that the worker is over only after the heartbeat and the clock;
  and `Accounted`, that every entry logged is published, in the batch or in
  the queue, and those of the heartbeat and the clock published when the worker leaves. `NoMissedWakeup` alone is not inductive: it needs `DrowsyOK` for
  the step in which the worker falls asleep. `LastWords` needs `Joined`: the clock and the heartbeat are
  joined before the worker is told to stop, so none of their entries can come after it has left.
- `CallsAreServed` (`ServedByTheLiving`), if `CallsLaterServices`: only services are called, and the
  worker calls none but the log and the bridge. What the wiring reaches is its transitive closure,
  which is out of the prover's reach; TLC evaluates the premise in run `shutdown`. The rest is
  about time: by how far `main` has come, `Surviving` says which services exist; `Joined` and
  `ReceiverJoined` say which threads can still be in a call; and each of these calls what is left.

`VehicleProofs`, of all commands, orders of dispatch and bounds that satisfy
`VehicleAssumption`:

- `TypesHold`: `TypeOK` is inductive; its core is `MotorOK`: an active motor stands on a slot that exists.
- `ClockSeesTheMotor` (`StatusCached`): from `Reporting`, which says that the report in progress
  is of the motor's present state, that none is left when the lock is free, and that State has
  either yet to hear it or has cached it. Without the first part `StatusCached` is not
  inductive.
- `EndIsReported` (`FinishedIsReported`), if the motor is the last to take a tick
  (`MotorTicksLast`, which holds of the order of dispatch used in the runs): from `FInv`. The
  hard case is a tick sampled before the end. `LastTaken` says that the motor is behind every
  other service in the tick in flight, so the tick that ends the sequence has been taken by
  all; `Followed`, that Kinematics has then taken its id; `Settled`, that any later tick was
  sampled at rest.
- `MotorExecutes`: each step of `Vehicle` is a step of `Executor` or a stutter.

`TimingProofs`, of all commands, durations and periods, if the motor takes each tick last and no
service takes it twice (`MotorTicksLast`, `TickedOnce`; TLC evaluates both in `vehicle`):

- `StepsInTime` (`StepsLastTheirTime`), from `Counting`: the ticks driven in a step and the periods
  that remain of it add up to the periods of its duration, plus one while Kinematics has taken a
  tick that the motor has still to count. That is an invariant only if every tick under the
  sequence's id drives at the speed of the present step (`TickFits`), for which the copy the clock
  samples must be of another sequence as long as it is stale (`StateOld`). Both fail for a sequence that
  reuses the id before it, which is why the property leaves these out.

`LinkProofs`, of all sequences, regions, sizes of buffers, numbers of other clients and orders of dispatch:

- `LinkIsVehicle`: each step of `Link` is a step of `Vehicle` or
  leaves it alone, so that all that is proved of `Vehicle` holds here.
- `AcceptanceMeansTaken` (`AcceptedWasTaken`), if every sequence of the tests has an id of its own
  (`OwnIds`). From `Accepted`: an id that some service or answer has (`Shows`) was sent with a sequence (`Known`);
  and when that of the last sequence shows, the motor has taken it and no other is left that it could take
  after it (`LastSent`).
- `StartMeansMoving` (`StartedIsMoving`), if also the motor is the last to take a tick
  (`MotorIsLast`). Evidence of a start is an elapsed time under the sequence's id. `HeardFirst`
  says that there is none before State has heard the report, for only then does a tick carry the id;
  `TickedFirst`, that whoever has the evidence while the motor still runs finds the tick counted or in flight.
- `CompletionMeansFinished` (`CompletedIsFinished`), under `OwnIds`. The danger is a Ready from before
  the sequence. `AskedBefore` says that while the test waits for the acceptance or the start, nothing
  behind the sequence in the bridge's buffer asks for the state; `NoneReady`, that while the sequence
  runs no reply says Ready, nor, when the loop for the completion looks, any answer it may find:
  older ones were drained.
- `AcknowledgedBeforeApplied` (`AckedBeforeApplied`) and `AcknowledgedIsTakenOver`
  (`EnvironmentTakenOver`), if `EnvironmentData` goes to `EnvironmentService` before `ThermalService`
  (`EnvironmentFirst`). From `OneCall`: a call of `set_environment` has one token, which is its
  datagram, the dispatch of that, the reply or the acknowledgement, and there is none between two calls; a test
  whose call has failed makes no other. `TakesOver` adds that the token becomes a reply only when the
  cache has what was set and `ThermalService` has it or is told next.

The premises are about the tests and the order of dispatch; TLC evaluates them in `link`.

`MissionProofs`, of all routes, regions and commands of the peer that satisfy
`MissionAssumption`:

- `TypesHold`: `TypeOK`. `Turns` strengthens it: only one thread is inside `AutonomousService`, and
  one that is past the first check is on an active route, so that the node it reaches exists;
  and `Writing`, that the receiver overwrites only what `update` names.
- `MissionFollowsRoute` (`RouteFollowed`): each step of `Mission` is a step of `Route` or a stutter.
- `MissionEnds` (`MissionStops`), if no sequence of the peer has the id of missions. The code
  does not enforce that: a peer that sends `cmd_id` 999 drives under the name of the mission.
- `NodesAreReached` (`ReachedOnTheWay`). From `HInv`: every position a thread carries to
  `AutonomousService` (`Told`) and the last one it remembers (`LastOnSpan`) lie on the span covered
  since the route was accepted at a known position, and the node a thread compares with is the one
  the route has come to (`Aimed`). `LastOnSpan` is what the routes of run `route` lack.

`GeneratorsProofs`, of all structs, messages and declarations of services:

- `ClassesInOrder`, a lemma for `BindingsImport` below, if structs are nested without being part of
  themselves (`WellNested`). `generate_struct` marks a struct as visited before it has printed it, so that
  visited does not mean printed. `BegunIsKnown` says that what is visited is printed or on the stack, and
  `Descends` that the structs on the stack are nested less and less deeply (`Depth`): so what a
  field names is not further down the stack, and it is printed.
- `DiagramShowsTraffic` (`TrafficDrawn`), if also each service declares what its handlers publish and
  the bridge what it lets in (`DeclaredAsSent`): a message that has had its turn has the edges
  `collect_msg_edges` gives it, and no edge is there but those. So the finished diagram has the edges to
  and from the bridge for what crosses it, and for what never does exactly those from senders to
  receivers. No edge between services is claimed for a message that also crosses, and there are
  exchanges without one (see the disagreements above).
- `SectionsAreComplete` (`SectionsStandAlone`), if also four rounds find all that a payload needs and
  it is not part of itself (`SelfContained`). From `SectionOK`: what a class in the section needs is shown or
  its table is still in progress, and a table in progress has shown what its rows so far need.

`WireProofs`, of all structs that are also `Formattable`: the compiler finds a layout for each, the names
of its fields are distinct, and on the wire each value has a format character of its size and kind
(`Encodable`), each array is one of bytes or of objects, and nothing refers to what stays inside; and
padding stands beside a field that goes into the same format (`PaddingShared`), without which the
printed module would not parse. The lists packed are filled up (`Given`).

- `BindingsImport` (`DefinedBeforeUse`), from `ClassesInOrder` and, for the lines that read a format,
  `NamedFrame`: a format that is pending has a field to be read into, unless it is padding before a
  field that is about to join it (`PaddedIsNamed`, `CodeIsNamed`).
- `ClassesPackMemory` (`PacksMemory`) and `ClassesUnpackMemory` (`UnpacksMemory`), from `WInv`. It says of a
  call of `generate_struct` that its code and pending format write the memory of the struct up to
  `current_offset` (`WiredFrame`), and of a printed class that its code writes all of it, provided that the
  classes it calls write theirs (`WiredClass`). What a field adds is the image of the field, by kind
  (`FieldIsWritten`); what `Padded` adds is padding in memory too, since fields do not overlap
  (`FieldsAscend`, `PaddingIsMemory`). `Packed` and `Unpacked` then reach in each round the
  classes that the compiler lays out in it (`RoundReaches`), so that three are enough.
- `DocumentFitsBindings` (`DocumentedWhereWritten`), from `WInv` and `PInv`: the section in progress
  starts with the table of its payload, whose rows are where the compiler puts the fields; what is
  written there is memory, in which a byte has the name of the field it lies in
  (`MemoryIsNamed`); and distinct names keep the fields apart.
- `GeneratorsTyped` (`TypeOK`), under all four premises: `WInv` for `current_offset`, which counts the bytes
  of the code because each item and each object has the length of its field; the invariants of
  `GeneratorsProofs` and `PInv` for the rest.

Layouts, flattened formats and the ends of fields are recursive functions. Their proofs are by
induction over `Nat`, which the library states for an operator; `Induction` states it for a
set, and derives it from the well-foundedness of `<`.

TLC evaluates the premises in `generators`, for the messages and the wiring of the program; the
proofs do not look into these tables.

Only model-checked:

- everything that needs fairness: `DispatchReturns`, the liveness half of `Executes` and of
  `LogService`, `EchoSettles`, `Reacquires`, `Exits` and `PollingEnds`. The prover does not handle
  fairness, which contains `ENABLED`.
- the premises about the program's own wiring and messages named above, which TLC evaluates.

## 5. Not modelled

- The floating-point models: voltage and state of charge of `PowerService`, the heat balance of
  `ThermalService`, friction and temperature in routes. Their properties are inequalities between
  rounded reals, out of reach of both tools; the ambient temperature, which is only copied, is in
  `Link`.
- `_wait_for_state` and the single queries of `fixtures_ipc.py`: loops and requests of the forms that
  `Link` has, on other messages. The test cases themselves are straight-line uses of them.
- The text that is logged and printed, the styling of the diagram, the tables of enumerators and
  the list of components in the document.
- Spurious wakeups: every wait of the code has a predicate, so that one more evaluation of it
  changes nothing. Failures of `socket`, `bind` and `select` at start-up.
- `num_nodes` beyond the eight nodes of a route: what lies behind the array is not a state of
  the program (`MissionAssumption`).

## 6. Running

    tlc -workers 2 -config MCVehicle_safety.cfg MCVehicleTiming
    tlapm VehicleProofs.tla

`PROJECT.json` names the module of each configuration, the mutants (definitions of a plausible bug
beside each property's code, which TLC must catch) and the source lines of each definition.
