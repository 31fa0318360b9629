------------------------------ MODULE Dispatch ------------------------------
(***************************************************************************)
(* The in-process message bus as the threads of the application use it.    *)
(*                                                                         *)
(* MessageBus::dispatch calls the handlers of a message one after the      *)
(* other, on the thread that publishes, and takes no lock of its own.  A   *)
(* handler takes the mutex of its service with a guard object, and may     *)
(* publish before it takes the mutex, while it holds it, and after it has  *)
(* released it.  A handler that publishes is therefore suspended, with     *)
(* whatever it holds, until every handler of that message has returned:    *)
(* the locks of a thread are those of the handlers on its call stack.      *)
(*                                                                         *)
(* The services are parameters: which mutex a handler takes, who           *)
(* subscribes to a message and in what order, and the sequences of         *)
(* messages a handler may publish in each of its three phases (one `path'  *)
(* per way through its conditions).  SilTopology gives them the values of  *)
(* the application.  A direct call that takes a mutex, such as             *)
(* LogService::log, is a message with that one handler.                    *)
(***************************************************************************)
EXTENDS Naturals, Sequences, Functions

CONSTANTS
    Thread,       \* the threads of the process
    Handler,      \* handlers, directly called functions and thread loops
    Msg,          \* bus messages and direct calls
    Mutex,        \* the mutexes of the services
    Recursive,    \* those of type std::recursive_mutex
    MutexOf,      \* the mutex the body of a handler takes
    Subscribers,  \* the handlers of a message, in the order of subscription
    Paths,        \* what a handler may publish before, under and after its lock
    Root          \* the loop body a thread runs again and again

Phase == {"pre", "held", "post"}

Path == [Phase -> Seq(Msg)]

ASSUME WiringAssumption ==
    /\ Recursive \subseteq Mutex
    /\ MutexOf \in [Handler -> Mutex]
    /\ Subscribers \in [Msg -> Seq(Handler)]
    /\ DOMAIN Paths = Handler
    /\ \A h \in Handler : Paths[h] \subseteq Path
    /\ \A t \in Thread : Root[t] \in Handler

VARIABLE stack    \* the handlers each thread is in, the innermost last

vars == <<stack>>

(***************************************************************************)
(* An activation of a handler: its phase, the messages it still publishes  *)
(* in each phase, and the handlers dispatch still has to call for the      *)
(* message being published.                                                *)
(***************************************************************************)
Frame == [h : Handler, phase : Phase, plan : Path, calls : Seq(Handler)]

Enter(h, p) == [h |-> h, phase |-> "pre", plan |-> p, calls |-> <<>>]

Top(t) == stack[t][Len(stack[t])]

\* The innermost handler has nothing left to publish or call in its phase.
Drained(f) == f.calls = <<>> /\ f.plan[f.phase] = <<>>

\* The mutexes whose guards the first i - 1 handlers of a call stack are in.
Below(s, i) == { MutexOf[s[j].h] : j \in {k \in 1..(i - 1) : s[k].phase = "held"} }

Owned(s) == Below(s, Len(s) + 1)

Holds(t, m) == m \in Owned(stack[t])

\* Thread t is about to lock the mutex of the handler it has entered.
Locking(t) == stack[t] # <<>> /\ Top(t).phase = "pre" /\ Drained(Top(t))

Wanted(t) == MutexOf[Top(t).h]

\* u keeps t from locking: u owns the mutex t is about to lock; a thread keeps
\* itself from locking a mutex it owns, unless that is a recursive_mutex.
Blocks(u, t) ==
    /\ Locking(t)
    /\ Holds(u, Wanted(t))
    /\ u = t => Wanted(t) \notin Recursive

SetTop(t, f) == stack' = [stack EXCEPT ![t] = [@ EXCEPT ![Len(@)] = f]]

Push(t, f) == stack' = [stack EXCEPT ![t] = Append(@, f)]

-----------------------------------------------------------------------------
Init == stack = [t \in Thread |-> <<>>]

\* The thread starts the next iteration of its loop.
Start(t) ==
    /\ stack[t] = <<>>
    /\ \E p \in Paths[Root[t]] : Push(t, Enter(Root[t], p))

\* MessageBus::publish: dispatch looks up the handlers of the next message.
Publish(t) ==
    /\ stack[t] # <<>>
    /\ LET f == Top(t) IN
       /\ f.calls = <<>>
       /\ f.plan[f.phase] # <<>>
       /\ SetTop(t, [f EXCEPT !.plan[f.phase] = Tail(@),
                              !.calls = Subscribers[Head(f.plan[f.phase])]])

\* Mutant: the loop does not move on to the next handler.
Call_Again(t) ==
    /\ stack[t] # <<>>
    /\ LET f == Top(t)
           g == Head(f.calls) IN
       /\ f.calls # <<>>
       /\ \E p \in Paths[g] : Push(t, Enter(g, p))

\* The loop of MessageBus::dispatch calls the next handler.
Call(t) ==
    /\ stack[t] # <<>>
    /\ LET f == Top(t)
           g == Head(f.calls) IN
       /\ f.calls # <<>>
       /\ \E p \in Paths[g] :
             stack' = [stack EXCEPT ![t] =
                         Append([@ EXCEPT ![Len(@)] = [f EXCEPT !.calls = Tail(@)]],
                                Enter(g, p))]

\* The handler constructs its lock guard.
Lock(t) ==
    /\ Locking(t)
    /\ ~ \E u \in Thread : Blocks(u, t)
    /\ SetTop(t, [Top(t) EXCEPT !.phase = "held"])

\* The lock guard goes out of scope.
Unlock(t) ==
    /\ stack[t] # <<>>
    /\ Top(t).phase = "held"
    /\ Drained(Top(t))
    /\ SetTop(t, [Top(t) EXCEPT !.phase = "post"])

\* The handler returns to dispatch, or the loop body ends.
Return(t) ==
    /\ stack[t] # <<>>
    /\ Top(t).phase = "post"
    /\ Drained(Top(t))
    /\ stack' = [stack EXCEPT ![t] = SubSeq(@, 1, Len(@) - 1)]

Step(t) == Publish(t) \/ Call(t) \/ Lock(t) \/ Unlock(t) \/ Return(t)

Next == \E t \in Thread : Start(t) \/ Step(t)

Spec == Init /\ [][Next]_vars

(***************************************************************************)
(* A thread that can run does.  A std::mutex promises no order among the   *)
(* threads that wait for it; what keeps the others from being starved is   *)
(* that a thread that takes a service's lock spends most of its time       *)
(* asleep (the clock in wait_for, the receiver in select, the worker in    *)
(* wait), which SF of Lock stands for.                                     *)
(***************************************************************************)
Fairness == \A t \in Thread :
    /\ WF_vars(Start(t) \/ Publish(t) \/ Call(t) \/ Unlock(t) \/ Return(t))
    /\ SF_vars(Lock(t))

FairSpec == Spec /\ Fairness

-----------------------------------------------------------------------------
(***************************************************************************)
(* A discipline for the wiring: a handler declares the mutexes its caller  *)
(* must hold (Needs) and those it may hold (May), both carried along every *)
(* call, and takes its own mutex only above everything its caller may      *)
(* hold, except a recursive_mutex that it takes again.                     *)
(***************************************************************************)
Callees(h, ph) ==
    { g \in Handler : \E p \in Paths[h] : \E m \in Range(p[ph]) : g \in Range(Subscribers[m]) }

Own(h, ph) == IF ph = "held" THEN {MutexOf[h]} ELSE {}

LockOrdered(Rank, Needs, May) ==
    /\ Rank \in [Mutex -> Nat]
    /\ \E top \in Range(Rank) : \A m \in Mutex : Rank[m] <= top
    /\ Needs \in [Handler -> SUBSET Mutex]
    /\ May \in [Handler -> SUBSET Mutex]
    /\ \A t \in Thread : Needs[Root[t]] = {}
    /\ \A h \in Handler : \A ph \in Phase : \A g \in Callees(h, ph) :
          /\ Needs[g] \subseteq Needs[h] \cup Own(h, ph)
          /\ May[h] \cup Own(h, ph) \subseteq May[g]
    /\ \A h \in Handler :
          \/ MutexOf[h] \in Needs[h] \cap Recursive
          \/ \A m \in May[h] :
                \/ Rank[m] < Rank[MutexOf[h]]
                \/ m \in Recursive /\ m = MutexOf[h]

\* Calls only lead from a handler to handlers of a higher level.
CallsClimb(Level) ==
    /\ Level \in [Handler -> Nat]
    /\ \A h \in Handler : \A ph \in Phase : \A g \in Callees(h, ph) : Level[h] < Level[g]

\* What a handler finds locked on its own thread is what it declares.
HeldAsDeclared(Needs, May) ==
    \A t \in Thread : \A i \in 1..Len(stack[t]) :
        /\ Needs[stack[t][i].h] \subseteq Below(stack[t], i)
        /\ Below(stack[t], i) \subseteq May[stack[t][i].h]

-----------------------------------------------------------------------------
\* TypeOK: every stack holds well-formed activations, and a thread that is busy is
\* in its own loop body.
TypeOK ==
    /\ stack \in [Thread -> Seq(Frame)]
    /\ \A t \in Thread : stack[t] # <<>> => stack[t][1].h = Root[t]

\* MutualExclusion: two threads never own the same mutex, recursive or not.
MutualExclusion ==
    \A t, u \in Thread : \A m \in Mutex : Holds(t, m) /\ Holds(u, m) => t = u

\* NoCircularWait: no set of threads is stuck with each of them waiting for a
\* mutex that one of them owns; with one thread in the set, no handler locks
\* a std::mutex its own caller holds.  Each handler alone looks harmless: it is
\* the chain of handlers that publishing under a lock strings together that
\* could close the circle.
NoCircularWait ==
    ~ \E S \in (SUBSET Thread) \ {{}} : \A t \in S : \E u \in S : Blocks(u, t)

\* NoReentry: no chain of publications leads back into a handler that has not
\* returned, which would recurse without end.
NoReentry ==
    \A t \in Thread : \A i, j \in 1..Len(stack[t]) :
        stack[t][i].h = stack[t][j].h => i = j

\* DispatchReturns: every loop body ends: no thread stays for ever in a publish.
DispatchReturns == \A t \in Thread : stack[t] # <<>> ~> stack[t] = <<>>
=============================================================================
