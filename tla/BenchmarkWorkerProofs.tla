------------------------- MODULE BenchmarkWorkerProofs -------------------------
(***************************************************************************)
(* Benchmarks with a timeout, for any number of threads, workers and calls.*)
(* The argument has four layers.  Base: who holds the lock and what the    *)
(* runner's fields mean then.  Numbers: a task id belongs to one call,     *)
(* wherever its request has got to.  Pipes: what is left in a worker's     *)
(* pipes when nobody waits for it.  Known: who stops a worker that runs.   *)
(***************************************************************************)
EXTENDS BenchmarkWorker, SequenceTheorems, TLAPS

Places == {"idle", "lock", "start", "accept", "send", "wait", "terminate",
           "reap", "leave"}
Job == [task : Nat, payload : Nat]
TypeInv == TypeOK /\ job \in [Workers -> Job]

\* The lock is held by the thread that is past it.
Mutex == \A t \in Threads : (pc[t] \notin {"idle", "lock"}) <=> (lock = t)

\* The runner's worker is the one its caller talks to, or there is none; one
\* that has not connected is alone with its caller.
Held ==
  \A t \in Threads :
    /\ pc[t] \notin {"idle", "lock", "start"} => mine[t] \in Workers
    /\ pc[t] \in {"send", "wait", "terminate"} => worker \in {NoWorker, mine[t]}
    /\ pc[t] \in {"accept", "reap", "leave"} => worker = NoWorker
    /\ pc[t] = "accept" =>
         /\ mine[t] \notin open /\ proc[mine[t]] \in {"dead", "starting"}
         /\ toWorker[mine[t]] = <<>> /\ toParent[mine[t]] = <<>>

\* The worker that atexit stops is nobody else's.
Exiting ==
  /\ exit = "no" => last = NoWorker
  /\ last # NoWorker => last \in open /\ worker # last
  /\ \A t \in Threads : pc[t] = "reap" => mine[t] # last

Base == TypeInv /\ Mutex /\ Held /\ Exiting

\* The requests and answers that are in a worker's pipes, or that it works on.
Ticket(m) == [task |-> m.task, payload |-> m.payload]
Sent(s) == {Ticket(s[i]) : i \in {j \in DOMAIN s : ~s[j].stop}}
Answered(s) == {Ticket(s[i]) : i \in DOMAIN s}
Running(w) == IF proc[w] = "busy" THEN {job[w]} ELSE {}
Carried(w) == Sent(toWorker[w]) \cup Running(w) \cup Answered(toParent[w])

\* Ids are given once: what carries the id of a call has its payload.
Numbers ==
  /\ \A w \in Workers : \A m \in Carried(w) : m.task < nextTask
  /\ \A t \in Threads : pc[t] = "wait" =>
       /\ task[t] < nextTask
       /\ \A w \in Workers : \A m \in Carried(w) :
            m.task = task[t] => m.payload = payload[t]

\* A worker that the next benchmark may use has nothing in its pipes, and one
\* that a caller waits for nothing but that caller's request or its answer.
NoStop(w) == \A i \in DOMAIN toWorker[w] : ~toWorker[w][i].stop
Empty(w) == toWorker[w] = <<>> /\ toParent[w] = <<>> /\ proc[w] # "busy"
One(w) ==
  \/ toWorker[w] = <<>> /\ toParent[w] = <<>>
  \/ Len(toWorker[w]) = 1 /\ toParent[w] = <<>> /\ proc[w] # "busy"
  \/ toWorker[w] = <<>> /\ Len(toParent[w]) = 1 /\ proc[w] # "busy"
Waited == \E t \in Threads : pc[t] \in {"wait", "terminate"}
Pipes ==
  /\ worker # NoWorker => NoStop(worker) /\ (worker \notin stale => One(worker))
  /\ worker \notin stale \cup {NoWorker} /\ ~Waited => Carried(worker) = {}
  /\ \A t \in Threads : mine[t] \in open \ stale =>
       /\ pc[t] = "send" => Carried(mine[t]) = {}
       /\ pc[t] = "wait" => \A m \in Carried(mine[t]) : m.task = task[t]

\* A worker that has connected and that nobody has tried to kill is the
\* runner's, or atexit stops it.
Known ==
  \A w \in Workers :
    proc[w] \in {"ready", "busy"} /\ w \notin signalled /\ exit # "done" =>
      w \in {worker, last}
-----------------------------------------------------------------------------
(* Base *)

\* A function whose value at one argument is replaced.
LEMMA Updated ==
  ASSUME NEW D, NEW R, NEW f \in [D -> R], NEW d \in D, NEW v \in R
  PROVE  [f EXCEPT ![d] = v] \in [D -> R]
OBVIOUS

\* A call from Python begins without the lock.
LEMMA CallBase == ASSUME Base, NEW t \in Threads, Call(t) PROVE Base'
<1> USE WorkerAssumption DEF Base
<1>1. TypeInv'
  BY DEF Call, At, Goto, caller, process, pipes, Held, TypeInv, TypeOK, Job
<1>2. Mutex'
  BY DEF Call, At, Goto, caller, process, pipes, Mutex, TypeInv, TypeOK
<1>3. Held'
  BY DEF Call, At, Goto, caller, process, pipes, Mutex, Held, TypeInv, TypeOK
<1>4. Exiting'
  BY DEF Call, At, Goto, caller, process, pipes, Mutex, Held, Exiting, TypeInv, TypeOK
<1> QED BY <1>1, <1>2, <1>3, <1>4

\* The lock that is taken was free, so its new holder is the only thread past it.
LEMMA AcquireBase == ASSUME Base, NEW t \in Threads, Acquire(t) PROVE Base'
<1> USE WorkerAssumption DEF Base
<1>1. TypeInv'
  BY DEF Acquire, At, Goto, caller, process, pipes, Held, TypeInv, TypeOK, Job
<1>2. Mutex'
  BY DEF Acquire, At, Goto, caller, process, pipes, Mutex, TypeInv, TypeOK
<1>3. Held'
  BY DEF Acquire, At, Goto, caller, process, pipes, Mutex, Held, TypeInv, TypeOK
<1>4. Exiting'
  BY DEF Acquire, At, Goto, caller, process, pipes, Mutex, Held, Exiting, TypeInv, TypeOK
<1> QED BY <1>1, <1>2, <1>3, <1>4

\* The caller talks to the worker that the runner kept.
LEMMA ReuseBase == ASSUME Base, NEW t \in Threads, Reuse(t) PROVE Base'
<1> USE WorkerAssumption DEF Base
<1>1. TypeInv'
  BY DEF Reuse, At, Goto, caller, process, pipes, Held, TypeInv, TypeOK, Job
<1>2. Mutex'
  BY DEF Reuse, At, Goto, caller, process, pipes, Mutex, TypeInv, TypeOK
<1>3. Held'
  BY DEF Reuse, At, Goto, caller, process, pipes, Mutex, Held, TypeInv, TypeOK
<1>4. Exiting'
  BY DEF Reuse, At, Goto, caller, process, pipes, Mutex, Held, Exiting, TypeInv, TypeOK
<1> QED BY <1>1, <1>2, <1>3, <1>4

\* A worker that died is forgotten with its connection.
LEMMA DiscardBase == ASSUME Base, NEW t \in Threads, Discard(t) PROVE Base'
<1> USE WorkerAssumption DEF Base
<1>1. TypeInv'
  BY DEF Discard, At, Goto, caller, process, pipes, Held, TypeInv, TypeOK, Job
<1>2. Mutex'
  BY DEF Discard, At, Goto, caller, process, pipes, Mutex, TypeInv, TypeOK
<1>3. Held'
  BY DEF Discard, At, Goto, caller, process, pipes, Mutex, Held, TypeInv, TypeOK
<1>4. Exiting'
  BY DEF Discard, At, Goto, caller, process, pipes, Mutex, Held, Exiting, TypeInv, TypeOK
<1> QED BY <1>1, <1>2, <1>3, <1>4

\* A worker that is started has empty pipes and is its caller's alone.
LEMMA SpawnBase == ASSUME Base, NEW t \in Threads, Spawn(t) PROVE Base'
<1> USE WorkerAssumption DEF Base
<1>1. TypeInv'
  <2>1. PICK w \in Workers :
          /\ proc' = [proc EXCEPT ![w] = "starting"]
          /\ mine' = [mine EXCEPT ![t] = w]
          /\ signalled' = signalled \ {w} /\ stale' = stale \ {w}
          /\ toWorker' = [toWorker EXCEPT ![w] = <<>>]
          /\ toParent' = [toParent EXCEPT ![w] = <<>>]
    BY DEF Spawn
  <2>2. pc' = [pc EXCEPT ![t] = "accept"]
    BY DEF Spawn, Goto
  <2>3. UNCHANGED <<lock, payload, result, task, calls, worker, nextTask, job,
                    open, last, exit>>
    BY DEF Spawn
  <2>4. toWorker' \in [Workers -> Seq(Request \cup {Stop})]
    BY <2>1, Updated, EmptySeq DEF TypeInv, TypeOK
  <2>5. toParent' \in [Workers -> Seq(Answer)]
    BY <2>1, Updated, EmptySeq DEF TypeInv, TypeOK
  <2>6. /\ pc' \in [Threads -> Places]
        /\ proc' \in [Workers -> {"dead", "starting", "ready", "busy"}]
        /\ mine' \in [Threads -> Workers \cup {NoWorker}]
    BY <2>1, <2>2 DEF TypeInv, TypeOK, Places
  <2>7. signalled' \subseteq Workers /\ stale' \subseteq Workers
    BY <2>1 DEF TypeInv, TypeOK
  <2> QED BY <2>3, <2>4, <2>5, <2>6, <2>7 DEF TypeInv, TypeOK, Places
<1>2. Mutex'
  BY DEF Spawn, At, Goto, Dead, caller, process, pipes, Mutex, TypeInv, TypeOK
<1>3. Held'
  BY DEF Spawn, At, Goto, Dead, caller, process, pipes, Mutex, Held, TypeInv, TypeOK
<1>4. Exiting'
  BY DEF Spawn, At, Goto, Dead, caller, process, pipes, Mutex, Held, Exiting, TypeInv, TypeOK
<1> QED BY <1>1, <1>2, <1>3, <1>4

\* The worker that connects becomes the runner's, and its connection is open.
LEMMA AcceptBase == ASSUME Base, NEW t \in Threads, Accept(t) PROVE Base'
<1> USE WorkerAssumption DEF Base
<1>1. TypeInv'
  BY DEF Accept, At, Goto, caller, process, pipes, Held, TypeInv, TypeOK, Job
<1>2. Mutex'
  BY DEF Accept, At, Goto, caller, process, pipes, Mutex, TypeInv, TypeOK
<1>3. Held'
  BY DEF Accept, At, Goto, caller, process, pipes, Mutex, Held, TypeInv, TypeOK
<1>4. Exiting'
  BY DEF Accept, At, Goto, caller, process, pipes, Mutex, Held, Exiting, TypeInv, TypeOK
<1> QED BY <1>1, <1>2, <1>3, <1>4

\* When no worker connects, its caller returns without one.
LEMMA AcceptFailsBase == ASSUME Base, NEW t \in Threads, AcceptFails(t) PROVE Base'
<1> USE WorkerAssumption DEF Base
<1>1. TypeInv'
  BY DEF AcceptFails, At, Goto, Leave, Unwanted, Dead, caller, process, pipes, Held, TypeInv, TypeOK, Job
<1>2. Mutex'
  BY DEF AcceptFails, At, Goto, Leave, Unwanted, Dead, caller, process, pipes, Mutex, TypeInv, TypeOK
<1>3. Held'
  BY DEF AcceptFails, At, Goto, Leave, Unwanted, Dead, caller, process, pipes, Mutex, Held, TypeInv, TypeOK
<1>4. Exiting'
  BY DEF AcceptFails, At, Goto, Leave, Unwanted, Dead, caller, process, pipes, Mutex, Held, Exiting, TypeInv, TypeOK
<1> QED BY <1>1, <1>2, <1>3, <1>4

\* The caller puts its request with the next id into its own worker's pipe.
LEMMA SendBase == ASSUME Base, NEW t \in Threads, Send(t) PROVE Base'
<1> USE WorkerAssumption DEF Base
<1> DEFINE w == mine[t]
           r == [stop |-> FALSE, task |-> nextTask, payload |-> payload[t]]
<1>1. pc[t] = "send" /\ w \in Workers /\ r \in Request /\ worker \in {NoWorker, w}
  BY DEF Send, At, Held, TypeInv, TypeOK, Request
<1>2. PICK at \in {"wait", "terminate", "idle"} :
        /\ pc' = [pc EXCEPT ![t] = at]
        /\ lock' = IF at = "idle" THEN NoThread ELSE lock
        /\ at # "terminate" \/ worker \in {NoWorker, w}
  BY <1>1 DEF Send, Goto, Leave
<1>3. toWorker' = toWorker \/ toWorker' = [toWorker EXCEPT ![w] = Append(@, r)]
  BY DEF Send
<1>4. /\ nextTask' = nextTask + 1 /\ task' = [task EXCEPT ![t] = nextTask]
      /\ UNCHANGED <<payload, result, mine, calls, worker, proc, job, signalled,
                     open, toParent, stale, last, exit>>
  BY DEF Send, NextId, process
<1>5. toWorker' \in [Workers -> Seq(Request \cup {Stop})]
  <2>1. toWorker[w] \in Seq(Request \cup {Stop}) /\ r \in Request \cup {Stop}
    BY <1>1 DEF TypeInv, TypeOK
  <2>2. Append(toWorker[w], r) \in Seq(Request \cup {Stop})
    BY <2>1, AppendProperties
  <2>3. [toWorker EXCEPT ![w] = Append(@, r)] \in [Workers -> Seq(Request \cup {Stop})]
    BY <1>1, <2>2, Updated DEF TypeInv, TypeOK
  <2> QED BY <1>3, <2>3 DEF TypeInv, TypeOK
<1>6. TypeInv'
  <2>1. pc' \in [Threads -> Places] /\ lock' \in Threads \cup {NoThread}
    BY <1>2 DEF TypeInv, TypeOK, Places
  <2>2. task' \in [Threads -> Nat] /\ nextTask' \in Nat
    BY <1>4 DEF TypeInv, TypeOK
  <2> QED BY <1>4, <1>5, <2>1, <2>2 DEF TypeInv, TypeOK, Places
<1>7. Mutex'
  BY <1>1, <1>2 DEF Mutex, TypeInv, TypeOK
<1>8. Held'
  <2>1. \A u \in Threads \ {t} : pc[u] \in {"idle", "lock"}
    BY <1>1 DEF Mutex
  <2> QED BY <1>1, <1>2, <1>4, <2>1 DEF Held, TypeInv, TypeOK
<1>9. Exiting'
  BY <1>2, <1>4 DEF Exiting, TypeInv, TypeOK
<1> QED BY <1>6, <1>7, <1>8, <1>9


\* After a timeout the caller keeps the lock until it has stopped the worker.
LEMMA TimeoutBase == ASSUME Base, NEW t \in Threads, Timeout(t) PROVE Base'
<1> USE WorkerAssumption DEF Base
<1>1. TypeInv'
  BY DEF Timeout, At, Goto, AfterTimeout, caller, process, pipes, Held, TypeInv, TypeOK, Job
<1>2. Mutex'
  BY DEF Timeout, At, Goto, AfterTimeout, caller, process, pipes, Mutex, TypeInv, TypeOK
<1>3. Held'
  BY DEF Timeout, At, Goto, AfterTimeout, caller, process, pipes, Mutex, Held, TypeInv, TypeOK
<1>4. Exiting'
  BY DEF Timeout, At, Goto, AfterTimeout, caller, process, pipes, Mutex, Held, Exiting, TypeInv, TypeOK
<1> QED BY <1>1, <1>2, <1>3, <1>4

\* An interrupted caller returns; what its worker does goes on.
LEMMA InterruptBase == ASSUME Base, NEW t \in Threads, Interrupt(t) PROVE Base'
<1> USE WorkerAssumption DEF Base
<1>1. TypeInv'
  BY DEF Interrupt, At, Goto, Leave, caller, process, pipes, Held, TypeInv, TypeOK, Job
<1>2. Mutex'
  BY DEF Interrupt, At, Goto, Leave, caller, process, pipes, Mutex, TypeInv, TypeOK
<1>3. Held'
  BY DEF Interrupt, At, Goto, Leave, caller, process, pipes, Mutex, Held, TypeInv, TypeOK
<1>4. Exiting'
  BY DEF Interrupt, At, Goto, Leave, caller, process, pipes, Mutex, Held, Exiting, TypeInv, TypeOK
<1> QED BY <1>1, <1>2, <1>3, <1>4

\* An answer is read from the caller's own worker; the lock is released with it.
LEMMA ReceiveBase == ASSUME Base, NEW t \in Threads, Receive(t) PROVE Base'
<1> USE WorkerAssumption DEF Base
<1> DEFINE w == mine[t]
<1>1. pc[t] = "wait" /\ w \in Workers /\ worker \in {NoWorker, w}
  BY DEF Receive, At, Held
<1>2. PICK at \in {"terminate", "idle"} :
        /\ pc' = [pc EXCEPT ![t] = at]
        /\ lock' = IF at = "idle" THEN NoThread ELSE lock
  BY DEF Receive, Goto, Leave
<1>3. UNCHANGED <<payload, task, mine, calls, worker, nextTask, proc, job, signalled,
                  open, toWorker, stale, last, exit>>
  BY DEF Receive, process
<1>4. \/ result' = result /\ toParent' = toParent
      \/ /\ toParent[w] # <<>> /\ toParent' = [toParent EXCEPT ![w] = Tail(@)]
         /\ result' = result \/ result' = [result EXCEPT ![t] = Head(toParent[w]).payload]
  BY DEF Receive
<1>5. toParent' \in [Workers -> Seq(Answer)] /\ result' \in [Threads -> Nat]
  <2>1. toParent[w] \in Seq(Answer)
    BY <1>1 DEF TypeInv, TypeOK
  <2>2. toParent[w] # <<>> => Tail(toParent[w]) \in Seq(Answer) /\ Head(toParent[w]) \in Answer
    BY <2>1, HeadTailProperties
  <2>3. toParent' \in [Workers -> Seq(Answer)]
    <3>1. toParent \in [Workers -> Seq(Answer)]
      BY DEF TypeInv, TypeOK
    <3>2. toParent[w] # <<>> =>
            [toParent EXCEPT ![w] = Tail(@)] \in [Workers -> Seq(Answer)]
      BY <1>1, <2>2, <3>1, Updated
    <3> QED BY <1>4, <3>1, <3>2
  <2>4. \A a \in Answer : a.payload \in Nat
    BY DEF Answer
  <2>5. result' \in [Threads -> Nat]
    BY <1>4, <2>2, <2>4 DEF TypeInv, TypeOK
  <2> QED BY <2>3, <2>5
<1>6. TypeInv'
  BY <1>2, <1>3, <1>5 DEF TypeInv, TypeOK
<1>7. Mutex'
  BY <1>1, <1>2 DEF Mutex, TypeInv, TypeOK
<1>8. Held'
  <2>1. \A u \in Threads \ {t} : pc[u] \in {"idle", "lock"}
    BY <1>1 DEF Mutex
  <2> QED BY <1>1, <1>2, <1>3, <2>1 DEF Held, TypeInv, TypeOK
<1>9. Exiting'
  BY <1>2, <1>3 DEF Exiting, TypeInv, TypeOK
<1> QED BY <1>6, <1>7, <1>8, <1>9


\* A worker that is stopped for its timeout is the runner's no longer.
LEMMA TerminateBase == ASSUME Base, NEW t \in Threads, Terminate(t) PROVE Base'
<1> USE WorkerAssumption DEF Base
<1>1. TypeInv'
  <2>1. pc' = [pc EXCEPT ![t] = "leave"] \/ pc' = [pc EXCEPT ![t] = "reap"]
    BY DEF Terminate, Goto
  <2>2. worker' \in {worker, NoWorker} /\ signalled' \subseteq Workers
    BY DEF Terminate, Forgotten, Unwanted, TypeInv, TypeOK
  <2>3. UNCHANGED <<lock, payload, result, task, mine, calls, nextTask, proc, job, open,
                    toWorker, toParent, stale, last, exit>>
    BY DEF Terminate, caller, pipes
  <2> QED BY <2>1, <2>2, <2>3 DEF TypeInv, TypeOK
<1>2. Mutex'
  BY DEF Terminate, At, Goto, Forgotten, Unwanted, Dead, caller, process, pipes, Mutex, TypeInv, TypeOK
<1>3. Held'
  BY DEF Terminate, At, Goto, Forgotten, Unwanted, Dead, caller, process, pipes, Mutex, Held, TypeInv, TypeOK
<1>4. Exiting'
  BY DEF Terminate, At, Goto, Forgotten, Unwanted, Dead, caller, process, pipes, Mutex, Held, Exiting, TypeInv, TypeOK
<1> QED BY <1>1, <1>2, <1>3, <1>4

\* A worker that its caller has waited for is gone; atexit's is another one.
LEMMA ReapBase == ASSUME Base, NEW t \in Threads, Reap(t) PROVE Base'
<1> USE WorkerAssumption DEF Base
<1>1. TypeInv'
  BY DEF Reap, At, Goto, caller, process, pipes, Held, TypeInv, TypeOK, Job
<1>2. Mutex'
  BY DEF Reap, At, Goto, caller, process, pipes, Mutex, TypeInv, TypeOK
<1>3. Held'
  BY DEF Reap, At, Goto, caller, process, pipes, Mutex, Held, TypeInv, TypeOK
<1>4. Exiting'
  BY DEF Reap, At, Goto, caller, process, pipes, Mutex, Held, Exiting, TypeInv, TypeOK
<1> QED BY <1>1, <1>2, <1>3, <1>4

\* A failure releases the lock of the thread that holds it.
LEMMA RaiseBase == ASSUME Base, NEW t \in Threads, Raise(t) PROVE Base'
<1> USE WorkerAssumption DEF Base
<1>1. TypeInv'
  BY DEF Raise, At, Goto, Leave, caller, process, pipes, Held, TypeInv, TypeOK, Job
<1>2. Mutex'
  BY DEF Raise, At, Goto, Leave, caller, process, pipes, Mutex, TypeInv, TypeOK
<1>3. Held'
  BY DEF Raise, At, Goto, Leave, caller, process, pipes, Mutex, Held, TypeInv, TypeOK
<1>4. Exiting'
  BY DEF Raise, At, Goto, Leave, caller, process, pipes, Mutex, Held, Exiting, TypeInv, TypeOK
<1> QED BY <1>1, <1>2, <1>3, <1>4

\* At the exit of the process the runner's worker becomes the one atexit stops.
LEMMA AtExitBase == ASSUME Base, AtExit PROVE Base'
<1> USE WorkerAssumption DEF Base
<1>1. TypeInv'
  BY DEF AtExit, Forgotten, Dead, Stop, caller, process, pipes, Exiting, TypeInv, TypeOK, Job
<1>2. Mutex'
  BY DEF AtExit, Forgotten, Dead, Stop, caller, process, pipes, Mutex, TypeInv, TypeOK
<1>3. Held'
  BY DEF AtExit, Forgotten, Dead, Stop, caller, process, pipes, Mutex, Held, TypeInv, TypeOK
<1>4. Exiting'
  BY DEF AtExit, Forgotten, Dead, Stop, caller, process, pipes, Mutex, Held, Exiting, TypeInv, TypeOK
<1> QED BY <1>1, <1>2, <1>3, <1>4

\* atexit ends with the worker that it stops.
LEMMA StoppedBase == ASSUME Base, Stopped PROVE Base'
<1> USE WorkerAssumption DEF Base
<1>1. TypeInv'
  BY DEF Stopped, Killed, Unwanted, Dead, caller, process, pipes, Exiting, TypeInv, TypeOK, Job
<1>2. Mutex'
  BY DEF Stopped, Killed, Unwanted, Dead, caller, process, pipes, Mutex, TypeInv, TypeOK
<1>3. Held'
  BY DEF Stopped, Killed, Unwanted, Dead, caller, process, pipes, Mutex, Held, TypeInv, TypeOK
<1>4. Exiting'
  BY DEF Stopped, Killed, Unwanted, Dead, caller, process, pipes, Mutex, Held, Exiting, TypeInv, TypeOK
<1> QED BY <1>1, <1>2, <1>3, <1>4

\* With the end of the process no worker is kept and no connection is open.
LEMMA EndedBase == ASSUME Base, Ended PROVE Base'
<1> USE WorkerAssumption DEF Base
<1>1. TypeInv'
  BY DEF Ended, caller, process, pipes, Exiting, TypeInv, TypeOK, Job
<1>2. Mutex'
  BY DEF Ended, caller, process, pipes, Mutex, TypeInv, TypeOK
<1>3. Held'
  BY DEF Ended, caller, process, pipes, Mutex, Held, TypeInv, TypeOK
<1>4. Exiting'
  BY DEF Ended, caller, process, pipes, Mutex, Held, Exiting, TypeInv, TypeOK
<1> QED BY <1>1, <1>2, <1>3, <1>4

\* What a worker takes from its pipe is a request or the word to stop.
LEMMA TakeBase == ASSUME Base, NEW w \in Workers, Take(w) PROVE Base'
<1> USE WorkerAssumption DEF Base
<1>1. TypeInv'
  <2>1. toWorker[w] \in Seq(Request \cup {Stop}) /\ toWorker[w] # <<>>
    BY DEF Take, TypeInv, TypeOK
  <2>2. /\ Tail(toWorker[w]) \in Seq(Request \cup {Stop})
        /\ Head(toWorker[w]) \in Request \cup {Stop}
    BY <2>1, HeadTailProperties
  <2>3. [task |-> Head(toWorker[w]).task, payload |-> Head(toWorker[w]).payload] \in Job
    <3>1. Head(toWorker[w]).task \in Nat /\ Head(toWorker[w]).payload \in Nat
      <4>1. CASE Head(toWorker[w]) \in Request
        BY <4>1 DEF Request
      <4>2. CASE Head(toWorker[w]) = Stop
        BY <4>2 DEF Stop
      <4> QED BY <2>2, <4>1, <4>2
    <3> QED BY <3>1 DEF Job
  <2>4. proc' \in [Workers -> {"dead", "starting", "ready", "busy"}]
    <3>1. proc' = [proc EXCEPT ![w] = "dead"] \/ proc' = [proc EXCEPT ![w] = "busy"]
      BY DEF Take, Become
    <3> QED BY <3>1 DEF TypeInv, TypeOK
  <2>5. job' = job \/ job' = [job EXCEPT ![w] =
           [task |-> Head(toWorker[w]).task, payload |-> Head(toWorker[w]).payload]]
    BY DEF Take
  <2>6. proc' \in [Workers -> {"dead", "starting", "ready", "busy"}] /\ job' \in [Workers -> Job]
    BY <2>3, <2>4, <2>5 DEF TypeInv
  <2>7. toWorker' \in [Workers -> Seq(Request \cup {Stop})]
    <3>1. toWorker' = [toWorker EXCEPT ![w] = Tail(toWorker[w])]
      BY DEF Take
    <3> QED BY <2>2, <3>1, Updated DEF TypeInv, TypeOK
  <2>8. UNCHANGED <<lock, pc, payload, result, task, mine, calls, worker, nextTask,
                    signalled, open, toParent, stale, last, exit>>
    BY DEF Take, caller
  <2> QED BY <2>6, <2>7, <2>8 DEF TypeInv, TypeOK, Job
<1>2. Mutex'
  BY DEF Take, Become, Request, Stop, caller, process, pipes, Mutex, TypeInv, TypeOK
<1>3. Held'
  BY DEF Take, Become, Request, Stop, caller, process, pipes, Mutex, Held, TypeInv, TypeOK
<1>4. Exiting'
  BY DEF Take, Become, Request, Stop, caller, process, pipes, Mutex, Held, Exiting, TypeInv, TypeOK
<1> QED BY <1>1, <1>2, <1>3, <1>4

\* What a worker answers has the id and the payload of its job.
LEMMA FinishBase == ASSUME Base, NEW w \in Workers, Finish(w) PROVE Base'
<1> USE WorkerAssumption DEF Base
<1>1. TypeInv'
  <2>1. proc' \in [Workers -> {"dead", "starting", "ready", "busy"}] /\ job' \in [Workers -> Job]
    BY DEF Finish, Become, NoJob, TypeInv, TypeOK, Job
  <2>2. toParent[w] \in Seq(Answer)
    BY DEF TypeInv, TypeOK
  <2>3. \A ok \in BOOLEAN : [task |-> job[w].task, ok |-> ok, payload |-> job[w].payload] \in Answer
    BY DEF TypeInv, Job, Answer
  <2>4. \A a \in Answer : Append(toParent[w], a) \in Seq(Answer)
    BY <2>2, AppendProperties
  <2>5. toParent' = toParent \/ \E a \in Answer : toParent' = [toParent EXCEPT ![w] = Append(@, a)]
    BY <2>3 DEF Finish
  <2>6. toParent' \in [Workers -> Seq(Answer)]
    <3>1. CASE toParent' = toParent
      BY <3>1 DEF TypeInv, TypeOK
    <3>2. ASSUME NEW a \in Answer, toParent' = [toParent EXCEPT ![w] = Append(@, a)]
          PROVE  toParent' \in [Workers -> Seq(Answer)]
      <4>1. Append(toParent[w], a) \in Seq(Answer)
        BY <2>4
      <4> QED BY <3>2, <4>1 DEF TypeInv, TypeOK
    <3> QED BY <2>5, <3>1, <3>2
  <2>7. UNCHANGED <<lock, pc, payload, result, task, mine, calls, worker, nextTask,
                    signalled, open, toWorker, stale, last, exit>>
    BY DEF Finish, caller
  <2> QED BY <2>1, <2>6, <2>7 DEF TypeInv, TypeOK, Job
<1>2. Mutex'
  BY DEF Finish, Become, NoJob, Answer, caller, process, pipes, Mutex, TypeInv, TypeOK
<1>3. Held'
  BY DEF Finish, Become, NoJob, Answer, caller, process, pipes, Mutex, Held, TypeInv, TypeOK
<1>4. Exiting'
  BY DEF Finish, Become, NoJob, Answer, caller, process, pipes, Mutex, Held, Exiting, TypeInv, TypeOK
<1> QED BY <1>1, <1>2, <1>3, <1>4

\* A worker may die wherever it is; its callers find out later.
LEMMA DieBase == ASSUME Base, NEW w \in Workers, Die(w) PROVE Base'
<1> USE WorkerAssumption DEF Base
<1>1. TypeInv'
  BY DEF Die, Become, Dead, NoJob, caller, process, pipes, TypeInv, TypeOK, Job
<1>2. Mutex'
  BY DEF Die, Become, Dead, NoJob, caller, process, pipes, Mutex, TypeInv, TypeOK
<1>3. Held'
  BY DEF Die, Become, Dead, NoJob, caller, process, pipes, Mutex, Held, TypeInv, TypeOK
<1>4. Exiting'
  BY DEF Die, Become, Dead, NoJob, caller, process, pipes, Mutex, Held, Exiting, TypeInv, TypeOK
<1> QED BY <1>1, <1>2, <1>3, <1>4

\* Every step preserves Base.
LEMMA BaseStep == ASSUME Base, [Next]_vars PROVE Base'
<1>1. CASE Next
  <2>1. ASSUME NEW t \in Threads, Call(t) \/ Acquire(t) \/ Work(t) \/ Interrupt(t)
        PROVE  Base'
    BY <2>1, CallBase, AcquireBase, ReuseBase, DiscardBase, SpawnBase, AcceptBase,
       AcceptFailsBase, SendBase, TimeoutBase, ReceiveBase, TerminateBase, ReapBase,
       RaiseBase, InterruptBase DEF Work
  <2>2. ASSUME NEW w \in Workers, Take(w) \/ Finish(w) \/ Die(w) PROVE Base'
    BY <2>2, TakeBase, FinishBase, DieBase
  <2> QED BY <1>1, <2>1, <2>2, AtExitBase, StoppedBase, EndedBase DEF Next
<1>2. CASE UNCHANGED vars
  BY <1>2 DEF vars, caller, process, pipes, Base, TypeInv, TypeOK, Mutex, Held, Exiting
<1> QED BY <1>1, <1>2

\* It holds before the first call.
LEMMA InitBase == Init => Base
<1> SUFFICES ASSUME Init PROVE Base
  OBVIOUS
<1> USE WorkerAssumption DEF Init
<1>1. TypeInv
  <2>1. /\ toWorker \in [Workers -> Seq(Request \cup {Stop})]
        /\ toParent \in [Workers -> Seq(Answer)]
    BY EmptySeq
  <2> QED BY <2>1 DEF TypeInv, TypeOK, Job, NoJob
<1>2. Mutex
  BY DEF Mutex
<1>3. Held /\ Exiting
  BY DEF Held, Exiting
<1> QED BY <1>1, <1>2, <1>3 DEF Base

-----------------------------------------------------------------------------
(* What is in the pipes *)

\* A request that is sent is added, one that is taken was there.
LEMMA SentProperties ==
  ASSUME NEW s \in Seq(Request \cup {Stop})
  PROVE  /\ \A r \in Request : Sent(Append(s, r)) \subseteq Sent(s) \cup {Ticket(r)}
         /\ Sent(Append(s, Stop)) \subseteq Sent(s)
         /\ s # <<>> => /\ Sent(Tail(s)) \subseteq Sent(s)
                        /\ ~Head(s).stop => Ticket(Head(s)) \in Sent(s)
<1>1. \A r \in Request \cup {Stop} :
        /\ DOMAIN Append(s, r) = DOMAIN s \cup {Len(s) + 1}
        /\ Append(s, r)[Len(s) + 1] = r
        /\ \A i \in DOMAIN s : Append(s, r)[i] = s[i]
  BY AppendProperties, LenProperties
<1>2. \A r \in Request : Sent(Append(s, r)) \subseteq Sent(s) \cup {Ticket(r)}
  BY <1>1 DEF Sent
<1>3. Sent(Append(s, Stop)) \subseteq Sent(s)
  BY <1>1 DEF Sent, Stop
<1>4. ASSUME s # <<>>
      PROVE  Sent(Tail(s)) \subseteq Sent(s) /\ (~Head(s).stop => Ticket(Head(s)) \in Sent(s))
  <2>1. /\ \A i \in DOMAIN Tail(s) : i + 1 \in DOMAIN s /\ Tail(s)[i] = s[i + 1]
        /\ Head(s) = s[1] /\ 1 \in DOMAIN s
    BY <1>4, HeadTailProperties, LenProperties
  <2> QED BY <2>1 DEF Sent
<1> QED BY <1>2, <1>3, <1>4

\* The same for answers.
LEMMA AnsweredProperties ==
  ASSUME NEW s \in Seq(Answer)
  PROVE  /\ \A a \in Answer : Answered(Append(s, a)) \subseteq Answered(s) \cup {Ticket(a)}
         /\ s # <<>> => /\ Answered(Tail(s)) \subseteq Answered(s)
                        /\ Ticket(Head(s)) \in Answered(s)
<1>1. \A a \in Answer :
        /\ DOMAIN Append(s, a) = DOMAIN s \cup {Len(s) + 1}
        /\ Append(s, a)[Len(s) + 1] = a
        /\ \A i \in DOMAIN s : Append(s, a)[i] = s[i]
  BY AppendProperties, LenProperties
<1>2. \A a \in Answer : Answered(Append(s, a)) \subseteq Answered(s) \cup {Ticket(a)}
  BY <1>1 DEF Answered
<1>3. ASSUME s # <<>>
      PROVE  Answered(Tail(s)) \subseteq Answered(s) /\ Ticket(Head(s)) \in Answered(s)
  <2>1. /\ \A i \in DOMAIN Tail(s) : i + 1 \in DOMAIN s /\ Tail(s)[i] = s[i + 1]
        /\ Head(s) = s[1] /\ 1 \in DOMAIN s
    BY <1>3, HeadTailProperties, LenProperties
  <2> QED BY <2>1 DEF Answered
<1> QED BY <1>2, <1>3

\* What a worker carries are tickets.
LEMMA CarriedType ==
  ASSUME TypeInv, NEW w \in Workers
  PROVE  Carried(w) \subseteq Job
<1>1. toWorker[w] \in Seq(Request \cup {Stop}) /\ toParent[w] \in Seq(Answer) /\ job[w] \in Job
  BY DEF TypeInv, TypeOK
<1>2. \A i \in DOMAIN toWorker[w] : ~toWorker[w][i].stop => Ticket(toWorker[w][i]) \in Job
  <2> SUFFICES ASSUME NEW i \in DOMAIN toWorker[w], ~toWorker[w][i].stop
               PROVE  Ticket(toWorker[w][i]) \in Job
    OBVIOUS
  <2>1. toWorker[w][i] \in Request \cup {Stop}
    BY <1>1, ElementOfSeq, LenProperties
  <2>2. toWorker[w][i] \in Request
    BY <2>1 DEF Stop
  <2> QED BY <2>2 DEF Request, Ticket, Job
<1>3. \A i \in DOMAIN toParent[w] : Ticket(toParent[w][i]) \in Job
  <2> SUFFICES ASSUME NEW i \in DOMAIN toParent[w] PROVE Ticket(toParent[w][i]) \in Job
    OBVIOUS
  <2>1. toParent[w][i] \in Answer
    BY <1>1, ElementOfSeq, LenProperties
  <2> QED BY <2>1 DEF Answer, Ticket, Job
<1> QED BY <1>1, <1>2, <1>3 DEF Carried, Sent, Answered, Running

\* Only a caller that sends its request, and then waits, adds to what a worker
\* carries.
LEMMA CarriedStep ==
  ASSUME Base, [Next]_vars, NEW w \in Workers
  PROVE  \/ Carried(w)' \subseteq Carried(w)
         \/ \E t \in Threads :
              /\ Send(t) /\ pc'[t] = "wait" /\ w = mine[t]
              /\ Carried(w)' \subseteq
                   Carried(w) \cup {[task |-> nextTask, payload |-> payload[t]]}
<1>t. /\ toWorker[w] \in Seq(Request \cup {Stop}) /\ toParent[w] \in Seq(Answer)
      /\ job[w] \in Job
      /\ toWorker \in [Workers -> Seq(Request \cup {Stop})]
      /\ toParent \in [Workers -> Seq(Answer)]
      /\ job \in [Workers -> Job]
      /\ proc \in [Workers -> {"dead", "starting", "ready", "busy"}]
  BY DEF Base, TypeInv, TypeOK
<1>1. CASE UNCHANGED <<proc, job, toWorker, toParent>>
  BY <1>1 DEF Carried, Running
<1>2. ASSUME NEW t \in Threads, Spawn(t) PROVE Carried(w)' \subseteq Carried(w)
  <2>1. PICK x \in Workers :
          /\ proc' = [proc EXCEPT ![x] = "starting"]
          /\ toWorker' = [toWorker EXCEPT ![x] = <<>>]
          /\ toParent' = [toParent EXCEPT ![x] = <<>>]
          /\ job' = job
    BY <1>2 DEF Spawn
  <2>2. Sent(<<>>) = {} /\ Answered(<<>>) = {}
    BY DEF Sent, Answered
  <2> QED BY <2>1, <2>2, <1>t DEF Carried, Running
<1>3. ASSUME NEW t \in Threads, Accept(t) PROVE Carried(w)' \subseteq Carried(w)
  <2>1. /\ proc' = [proc EXCEPT ![mine[t]] = "ready"]
        /\ UNCHANGED <<job, toWorker, toParent>>
    BY <1>3 DEF Accept, pipes
  <2> QED BY <2>1, <1>t DEF Carried, Running
<1>4. ASSUME NEW t \in Threads, Send(t)
      PROVE  \/ Carried(w)' \subseteq Carried(w)
             \/ /\ pc'[t] = "wait" /\ w = mine[t]
                /\ Carried(w)' \subseteq
                     Carried(w) \cup {[task |-> nextTask, payload |-> payload[t]]}
  <2> DEFINE r == [stop |-> FALSE, task |-> nextTask, payload |-> payload[t]]
  <2>1. proc' = proc /\ job' = job /\ toParent' = toParent
    BY <1>4 DEF Send, process
  <2>2. r \in Request /\ Ticket(r) = [task |-> nextTask, payload |-> payload[t]]
    BY DEF Base, TypeInv, TypeOK, Request, Ticket
  <2>3. CASE toWorker' = toWorker
    BY <2>1, <2>3 DEF Carried, Running
  <2>4. CASE toWorker' # toWorker
    <3>1. pc'[t] = "wait" /\ toWorker' = [toWorker EXCEPT ![mine[t]] = Append(@, r)]
      BY <1>4, <2>4 DEF Send, Goto, Base, TypeInv, TypeOK
    <3>2. w # mine[t] => toWorker'[w] = toWorker[w]
      BY <3>1, <1>t
    <3>3. w = mine[t] => Sent(toWorker'[w]) \subseteq Sent(toWorker[w]) \cup {Ticket(r)}
      <4>1. w = mine[t] => toWorker'[w] = Append(toWorker[w], r)
        BY <3>1, <1>t
      <4> HIDE DEF r
      <4>2. Sent(Append(toWorker[w], r)) \subseteq Sent(toWorker[w]) \cup {Ticket(r)}
        BY <2>2, <1>t, SentProperties
      <4> QED BY <4>1, <4>2
    <3> HIDE DEF r
    <3> QED BY <2>1, <2>2, <3>1, <3>2, <3>3 DEF Carried, Running
  <2> QED BY <2>3, <2>4
<1>5. ASSUME NEW t \in Threads, Receive(t) PROVE Carried(w)' \subseteq Carried(w)
  <2>1. proc' = proc /\ job' = job /\ toWorker' = toWorker
    BY <1>5 DEF Receive, process
  <2>2. \/ toParent' = toParent
        \/ toParent[mine[t]] # <<>> /\ toParent' = [toParent EXCEPT ![mine[t]] = Tail(@)]
    BY <1>5 DEF Receive
  <2>3. \/ toParent'[w] = toParent[w]
        \/ toParent[w] # <<>> /\ toParent'[w] = Tail(toParent[w])
    BY <2>2, <1>t
  <2>4. Answered(toParent'[w]) \subseteq Answered(toParent[w])
    BY <2>3, <1>t, AnsweredProperties
  <2> QED BY <2>1, <2>4 DEF Carried, Running
<1>6. CASE AtExit
  <2>1. proc' = proc /\ job' = job /\ toParent' = toParent
    BY <1>6 DEF AtExit, process
  <2>2. toWorker'[w] \in {toWorker[w], Append(toWorker[w], Stop)}
    BY <1>6 DEF AtExit
  <2>3. Sent(toWorker'[w]) \subseteq Sent(toWorker[w])
    BY <2>2, <1>t, SentProperties
  <2> QED BY <2>1, <2>3 DEF Carried, Running
<1>7. ASSUME NEW x \in Workers, Take(x) PROVE Carried(w)' \subseteq Carried(w)
  <2>1. /\ toParent' = toParent /\ toWorker' = [toWorker EXCEPT ![x] = Tail(@)]
        /\ toWorker[x] # <<>>
    BY <1>7 DEF Take
  <2>2. CASE w # x
    <3>1. proc'[w] = proc[w] /\ job'[w] = job[w] /\ toWorker'[w] = toWorker[w]
      BY <1>7, <2>2, <1>t DEF Take, Become
    <3> QED BY <2>1, <3>1 DEF Carried, Running
  <2>3. CASE w = x
    <3>1. /\ toWorker'[w] = Tail(toWorker[w])
          /\ Sent(Tail(toWorker[w])) \subseteq Sent(toWorker[w])
          /\ ~Head(toWorker[w]).stop => Ticket(Head(toWorker[w])) \in Sent(toWorker[w])
      BY <2>1, <2>3, <1>t, SentProperties
    <3>2. CASE Head(toWorker[w]).stop
      <4>1. proc'[w] = "dead"
        BY <1>7, <2>3, <3>2, <1>t DEF Take, Become
      <4> QED BY <2>1, <3>1, <4>1 DEF Carried, Running
    <3>3. CASE ~Head(toWorker[w]).stop
      <4>1. job'[w] = Ticket(Head(toWorker[w]))
        BY <1>7, <2>3, <3>3, <1>t DEF Take, Ticket
      <4> QED BY <2>1, <3>1, <3>3, <4>1 DEF Carried, Running
    <3> QED BY <3>2, <3>3
  <2> QED BY <2>2, <2>3
<1>8. ASSUME NEW x \in Workers, Finish(x) PROVE Carried(w)' \subseteq Carried(w)
  <2>1. toWorker' = toWorker /\ proc[x] = "busy"
    BY <1>8 DEF Finish
  <2>2. CASE w # x
    <3>1. proc'[w] = proc[w] /\ job'[w] = job[w] /\ toParent'[w] = toParent[w]
      BY <1>8, <2>2, <1>t DEF Finish, Become
    <3> QED BY <2>1, <3>1 DEF Carried, Running
  <2>3. CASE w = x
    <3>1. proc'[w] \in {"ready", "dead"}
      BY <1>8, <2>3, <1>t DEF Finish, Become
    <3>2. \/ toParent'[w] = toParent[w]
          \/ \E ok \in BOOLEAN : toParent'[w] = Append(toParent[w],
               [task |-> job[w].task, ok |-> ok, payload |-> job[w].payload])
      BY <1>8, <2>3, <1>t DEF Finish
    <3>3. \A ok \in BOOLEAN :
            LET a == [task |-> job[w].task, ok |-> ok, payload |-> job[w].payload]
            IN a \in Answer /\ Ticket(a) = job[w]
      BY <1>t DEF Job, Answer, Ticket
    <3>4. Answered(toParent'[w]) \subseteq Answered(toParent[w]) \cup {job[w]}
      <4>1. toParent'[w] = toParent[w] \/
              \E a \in Answer : Ticket(a) = job[w] /\ toParent'[w] = Append(toParent[w], a)
        BY <3>2, <3>3
      <4>2. \A a \in Answer : Answered(Append(toParent[w], a)) \subseteq
                              Answered(toParent[w]) \cup {Ticket(a)}
        BY <1>t, AnsweredProperties
      <4> QED BY <4>1, <4>2
    <3> QED BY <2>1, <2>3, <3>1, <3>4 DEF Carried, Running
  <2> QED BY <2>2, <2>3
<1>9. ASSUME NEW x \in Workers, Die(x) PROVE Carried(w)' \subseteq Carried(w)
  <2>1. /\ toWorker' = toWorker /\ toParent' = toParent
        /\ proc' = [proc EXCEPT ![x] = "dead"] /\ job' = [job EXCEPT ![x] = NoJob]
    BY <1>9 DEF Die, Become, pipes
  <2> QED BY <2>1, <1>t DEF Carried, Running
<1>10. ASSUME NEW t \in Threads,
              \/ Call(t) \/ Acquire(t) \/ Reuse(t) \/ Discard(t) \/ AcceptFails(t)
              \/ Timeout(t) \/ Interrupt(t) \/ Terminate(t) \/ Reap(t) \/ Raise(t)
       PROVE  UNCHANGED <<proc, job, toWorker, toParent>>
  BY <1>10 DEF Call, Acquire, Reuse, Discard, AcceptFails, Timeout, Interrupt, Terminate,
               Reap, Raise, process, pipes
<1>11. Stopped \/ Ended \/ UNCHANGED vars => UNCHANGED <<proc, job, toWorker, toParent>>
  BY DEF Stopped, Ended, vars, process, pipes
<1> QED BY <1>1, <1>2, <1>3, <1>4, <1>5, <1>6, <1>7, <1>8, <1>9, <1>10, <1>11
        DEF Next, Work

-----------------------------------------------------------------------------
(* Numbers *)

\* Who waits after a step did so before it, for the same task, or has just
\* sent its request.
LEMMA WaitingStep ==
  ASSUME Base, [Next]_vars
  PROVE  /\ \A t \in Threads : pc'[t] = "wait" =>
              \/ pc[t] = "wait" /\ task'[t] = task[t] /\ payload'[t] = payload[t]
              \/ Send(t)
         /\ nextTask' \in {nextTask, nextTask + 1}
         /\ \A u \in Threads : Send(u) =>
              /\ nextTask' = nextTask + 1 /\ payload' = payload
              /\ task' = [task EXCEPT ![u] = nextTask]
<1>t. /\ pc \in [Threads -> Places] /\ task \in [Threads -> Nat]
      /\ payload \in [Threads -> Nat] /\ nextTask \in Nat
  BY DEF Base, TypeInv, TypeOK, Places
<1>1. ASSUME NEW u \in Threads, Send(u)
      PROVE  /\ nextTask' = nextTask + 1 /\ payload' = payload
             /\ task' = [task EXCEPT ![u] = nextTask]
             /\ pc[u] = "send"
             /\ \E at \in Places : pc' = [pc EXCEPT ![u] = at]
  BY <1>1 DEF Send, NextId, At, Goto, Leave, Places
<1>2. ASSUME NEW u \in Threads, Call(u)
      PROVE  /\ task' = task /\ nextTask' = nextTask /\ pc' = [pc EXCEPT ![u] = "lock"]
             /\ \A x \in Threads \ {u} : payload'[x] = payload[x]
  BY <1>2, <1>t DEF Call, Goto
<1>3. ASSUME NEW u \in Threads,
             \/ Acquire(u) \/ Reuse(u) \/ Discard(u) \/ Spawn(u) \/ Accept(u)
             \/ AcceptFails(u) \/ Timeout(u) \/ Interrupt(u) \/ Receive(u)
             \/ Terminate(u) \/ Reap(u) \/ Raise(u)
      PROVE  /\ task' = task /\ payload' = payload /\ nextTask' = nextTask
             /\ \E at \in Places \ {"wait"} : pc' = pc \/ pc' = [pc EXCEPT ![u] = at]
  BY <1>3 DEF Acquire, Reuse, Discard, Spawn, Accept, AcceptFails, Timeout, AfterTimeout,
     Interrupt, Receive, Terminate, Reap, Raise, Goto, Leave, Places, caller
<1>4. ASSUME NEW x \in Workers, Take(x) \/ Finish(x) \/ Die(x)
      PROVE  task' = task /\ payload' = payload /\ nextTask' = nextTask /\ pc' = pc
  BY <1>4 DEF Take, Finish, Die, caller
<1>5. AtExit \/ Stopped \/ Ended \/ UNCHANGED vars =>
        task' = task /\ payload' = payload /\ nextTask' = nextTask /\ pc' = pc
  BY DEF AtExit, Stopped, Ended, vars, caller
<1>6. \A t \in Threads : pc'[t] = "wait" =>
        \/ pc[t] = "wait" /\ task'[t] = task[t] /\ payload'[t] = payload[t]
        \/ Send(t)
  <2> SUFFICES ASSUME NEW t \in Threads, pc'[t] = "wait", ~Send(t)
               PROVE  pc[t] = "wait" /\ task'[t] = task[t] /\ payload'[t] = payload[t]
    OBVIOUS
  <2>1. ASSUME NEW u \in Threads, Send(u)
        PROVE  pc[t] = "wait" /\ task'[t] = task[t] /\ payload'[t] = payload[t]
    BY <2>1, <1>1, <1>t
  <2>2. ASSUME NEW u \in Threads, Call(u)
        PROVE  pc[t] = "wait" /\ task'[t] = task[t] /\ payload'[t] = payload[t]
    BY <2>2, <1>2, <1>t
  <2>3. ASSUME NEW u \in Threads,
               \/ Acquire(u) \/ Reuse(u) \/ Discard(u) \/ Spawn(u) \/ Accept(u)
               \/ AcceptFails(u) \/ Timeout(u) \/ Interrupt(u) \/ Receive(u)
               \/ Terminate(u) \/ Reap(u) \/ Raise(u)
        PROVE  pc[t] = "wait" /\ task'[t] = task[t] /\ payload'[t] = payload[t]
    BY <2>3, <1>3, <1>t
  <2> QED BY <2>1, <2>2, <2>3, <1>4, <1>5 DEF Next, Work
<1>7. nextTask' \in {nextTask, nextTask + 1}
  BY <1>1, <1>2, <1>3, <1>4, <1>5 DEF Next, Work
<1> QED BY <1>1, <1>6, <1>7

\* Ids stay given once.
LEMMA NumbersStep == ASSUME Base, Numbers, [Next]_vars PROVE Numbers'
<1>t. nextTask \in Nat /\ task \in [Threads -> Nat] /\ payload \in [Threads -> Nat]
  BY DEF Base, TypeInv, TypeOK
<1>n. \A w \in Workers : \A m \in Carried(w) : m.task \in Nat
  BY CarriedType DEF Base, Job
<1>1. ASSUME NEW w \in Workers, NEW m \in Carried(w)'
      PROVE  \/ m \in Carried(w)
             \/ \E t \in Threads : /\ Send(t) /\ m.task = nextTask /\ m.payload = payload[t]
  BY CarriedStep
<1>2. \A w \in Workers : \A m \in Carried(w)' : m.task < nextTask'
  <2> SUFFICES ASSUME NEW w \in Workers, NEW m \in Carried(w)' PROVE m.task < nextTask'
    OBVIOUS
  <2>1. CASE m \in Carried(w)
    <3>1. m.task < nextTask /\ m.task \in Nat
      BY <2>1, <1>n DEF Numbers
    <3>2. nextTask' \in {nextTask, nextTask + 1}
      BY WaitingStep
    <3> QED BY <3>1, <3>2, <1>t
  <2>2. ASSUME NEW t \in Threads, Send(t), m.task = nextTask PROVE m.task < nextTask'
    BY <2>2, <1>t, WaitingStep
  <2> QED BY <1>1, <2>1, <2>2
<1>4. ASSUME NEW t \in Threads, pc'[t] = "wait"
      PROVE  /\ task'[t] < nextTask'
             /\ \A w \in Workers : \A m \in Carried(w)' :
                  m.task = task'[t] => m.payload = payload'[t]
  <2>1. CASE Send(t)
    <3>1. nextTask' = nextTask + 1 /\ payload' = payload /\ task'[t] = nextTask
      BY <2>1, <1>t, WaitingStep
    <3>2. ASSUME NEW w \in Workers, NEW m \in Carried(w)', m.task = nextTask
          PROVE  m.payload = payload[t]
      <4>1. m \notin Carried(w)
        BY <3>2, <1>t DEF Numbers
      <4>2. PICK u \in Threads : Send(u) /\ m.payload = payload[u]
        BY <4>1, <1>1
      <4>3. u = t
        BY <2>1, <4>2 DEF Send, At, Base, Mutex
      <4> QED BY <4>2, <4>3
    <3> QED BY <3>1, <3>2, <1>t
  <2>2. CASE pc[t] = "wait" /\ task'[t] = task[t] /\ payload'[t] = payload[t]
    <3>1. task[t] < nextTask /\ nextTask' \in {nextTask, nextTask + 1}
      BY <2>2, WaitingStep DEF Numbers
    <3>2. ASSUME NEW w \in Workers, NEW m \in Carried(w)', m.task = task[t]
          PROVE  m.payload = payload[t]
      <4>1. m.task # nextTask
        BY <3>1, <3>2, <1>t
      <4>2. m \in Carried(w)
        BY <1>1, <4>1
      <4> QED BY <2>2, <3>2, <4>2 DEF Numbers
    <3> QED BY <2>2, <3>1, <3>2, <1>t
  <2> QED BY <1>4, <2>1, <2>2, WaitingStep
<1> QED BY <1>2, <1>4 DEF Numbers

\* A time that is returned is one of the call's own kernel.
LEMMA OwnTimeStep == ASSUME Base, Numbers, OwnTime, [Next]_vars PROVE OwnTime'
<1>t. /\ result \in [Threads -> Nat] /\ payload \in [Threads -> Nat]
  BY DEF Base, TypeInv, TypeOK
<1>1. ASSUME NEW t \in Threads, Call(t) PROVE OwnTime'
  BY <1>1, <1>t DEF Call, OwnTime
<1>2. ASSUME NEW t \in Threads, Receive(t) PROVE OwnTime'
  <2>1. payload' = payload /\ mine[t] \in Workers /\ pc[t] = "wait"
    BY <1>2 DEF Receive, At, Base, Held
  <2>2. CASE result' = result
    BY <2>1, <2>2 DEF OwnTime
  <2>3. CASE result' # result
    <3>1. /\ toParent[mine[t]] # <<>> /\ Head(toParent[mine[t]]).task = task[t]
          /\ result' = [result EXCEPT ![t] = Head(toParent[mine[t]]).payload]
      BY <1>2, <2>3 DEF Receive, Accepts
    <3>2. toParent[mine[t]] \in Seq(Answer)
      BY <2>1 DEF Base, TypeInv, TypeOK
    <3>3. Ticket(Head(toParent[mine[t]])) \in Carried(mine[t])
      BY <3>1, <3>2, AnsweredProperties DEF Carried
    <3>4. Head(toParent[mine[t]]).payload = payload[t]
      BY <2>1, <3>1, <3>3 DEF Numbers, Ticket
    <3> QED BY <2>1, <3>1, <3>4, <1>t DEF OwnTime
  <2> QED BY <2>2, <2>3
<1>3. ASSUME NEW t \in Threads,
             \/ Acquire(t) \/ Reuse(t) \/ Discard(t) \/ Spawn(t) \/ Accept(t)
             \/ AcceptFails(t) \/ Send(t) \/ Timeout(t) \/ Interrupt(t)
             \/ Terminate(t) \/ Reap(t) \/ Raise(t)
      PROVE  result' = result /\ payload' = payload
  BY <1>3 DEF Acquire, Reuse, Discard, Spawn, Accept, AcceptFails, Send, Timeout,
     Interrupt, Terminate, Reap, Raise, caller
<1>4. ASSUME NEW x \in Workers, Take(x) \/ Finish(x) \/ Die(x)
      PROVE  result' = result /\ payload' = payload
  BY <1>4 DEF Take, Finish, Die, caller
<1>5. AtExit \/ Stopped \/ Ended \/ UNCHANGED vars => result' = result /\ payload' = payload
  BY DEF AtExit, Stopped, Ended, vars, caller
<1>6. result' = result /\ payload' = payload => OwnTime'
  BY DEF OwnTime
<1> QED BY <1>1, <1>2, <1>3, <1>4, <1>5, <1>6 DEF Next, Work

\* There are no requests before the first call.
LEMMA InitNumbers == Init => Numbers /\ OwnTime
<1> SUFFICES ASSUME Init PROVE Numbers /\ OwnTime
  OBVIOUS
<1>1. \A w \in Workers : Carried(w) = {}
  BY DEF Init, Carried, Sent, Answered, Running
<1> QED BY <1>1 DEF Init, Numbers, OwnTime

-----------------------------------------------------------------------------
(* Pipes *)

\* A worker with empty pipes carries nothing, and the other way around if it
\* has not been asked to stop.
LEMMA EmptyPipes ==
  ASSUME TypeInv, NEW w \in Workers
  PROVE  /\ Empty(w) => Carried(w) = {} /\ One(w)
         /\ Carried(w) = {} /\ NoStop(w) => Empty(w)
<1>1. /\ toWorker[w] \in Seq(Request \cup {Stop}) /\ toParent[w] \in Seq(Answer)
      /\ DOMAIN toWorker[w] = 1 .. Len(toWorker[w]) /\ Len(toWorker[w]) \in Nat
      /\ DOMAIN toParent[w] = 1 .. Len(toParent[w]) /\ Len(toParent[w]) \in Nat
  BY LenProperties DEF TypeInv, TypeOK
<1>2. ASSUME Empty(w) PROVE Carried(w) = {} /\ One(w)
  <2>1. DOMAIN <<>> = {}
    OBVIOUS
  <2> QED BY <1>2, <2>1 DEF Empty, One, Carried, Sent, Answered, Running
<1>3. ASSUME Carried(w) = {}, NoStop(w) PROVE Empty(w)
  <2>1. proc[w] # "busy"
    BY <1>3 DEF Carried, Running
  <2>2. toWorker[w] = <<>>
    <3>1. 1 \notin DOMAIN toWorker[w]
      BY <1>3 DEF NoStop, Carried, Sent
    <3>2. Len(toWorker[w]) = 0
      BY <3>1, <1>1
    <3> QED BY <3>2, <1>1, EmptySeq
  <2>3. toParent[w] = <<>>
    <3>1. 1 \notin DOMAIN toParent[w]
      BY <1>3 DEF Carried, Answered
    <3>2. Len(toParent[w]) = 0
      BY <3>1, <1>1
    <3> QED BY <3>2, <1>1, EmptySeq
  <2> QED BY <2>1, <2>2, <2>3 DEF Empty
<1> QED BY <1>2, <1>3

\* Sequences of one element.
LEMMA OneElement ==
  ASSUME NEW S
  PROVE  /\ \A e \in S : Len(Append(<<>>, e)) = 1
         /\ \A s \in Seq(S) : Len(s) = 1 => s # <<>> /\ Tail(s) = <<>>
<1>1. \A e \in S : Len(Append(<<>>, e)) = 1
  BY EmptySeq, AppendProperties
<1>2. ASSUME NEW s \in Seq(S), Len(s) = 1 PROVE s # <<>> /\ Tail(s) = <<>>
  <2>1. s # <<>>
    BY <1>2, EmptySeq
  <2>2. Tail(s) \in Seq(S) /\ Len(Tail(s)) = 0
    BY <1>2, <2>1, HeadTailProperties
  <2> QED BY <2>1, <2>2, EmptySeq
<1> QED BY <1>1, <1>2

\* Callers change only while they hold the lock, one after the other.
LEMMA Alone ==
  ASSUME Base, NEW t \in Threads, NEW u \in Threads,
         pc[t] \notin {"idle", "lock"}, pc[u] \notin {"idle", "lock"}
  PROVE  t = u
BY DEF Base, Mutex

\* A worker becomes the runner's by connecting; what is opened then has empty
\* pipes, and what is taken from stale is not open.
LEMMA FieldsStep ==
  ASSUME Base, [Next]_vars
  PROVE  /\ \/ worker' \in {worker, NoWorker}
            \/ \E t \in Threads : Accept(t) /\ worker' = mine[t]
         /\ \A w \in open' \ open : \E t \in Threads : Accept(t) /\ w = mine[t]
         /\ \A w \in open' \ stale' : w \notin stale
<1>1. ASSUME NEW t \in Threads, Accept(t)
      PROVE  worker' = mine[t] /\ open' = open \cup {mine[t]} /\ stale' = stale
  BY <1>1 DEF Accept
<1>2. ASSUME NEW t \in Threads, Spawn(t)
      PROVE  /\ worker' = worker /\ open' = open
             /\ \E w \in Workers \ open : stale' = stale \ {w}
  BY <1>2 DEF Spawn
<1>3. ASSUME NEW t \in Threads,
             \/ Call(t) \/ Acquire(t) \/ Reuse(t) \/ Discard(t) \/ AcceptFails(t) \/ Send(t)
             \/ Timeout(t) \/ Interrupt(t) \/ Receive(t) \/ Terminate(t) \/ Reap(t) \/ Raise(t)
      PROVE  worker' \in {worker, NoWorker} /\ open' \subseteq open /\ stale \subseteq stale'
  BY <1>3 DEF Call, Acquire, Reuse, Discard, AcceptFails, Send, Timeout, Interrupt, Receive,
     Terminate, Forgotten, Reap, Raise, process
<1>4. ASSUME NEW w \in Workers, Take(w) \/ Finish(w) \/ Die(w)
      PROVE  worker' = worker /\ open' = open /\ stale' = stale
  BY <1>4 DEF Take, Finish, Die
<1>5. AtExit \/ Stopped \/ Ended \/ UNCHANGED vars =>
        worker' \in {worker, NoWorker} /\ open' \subseteq open /\ stale' = stale
  BY DEF AtExit, Stopped, Ended, Forgotten, vars, process
<1>6. CASE \E t \in Threads : Accept(t)
  BY <1>6, <1>1
<1>7. CASE \E t \in Threads : Spawn(t)
  BY <1>7, <1>2
<1> QED BY <1>3, <1>4, <1>5, <1>6, <1>7 DEF Next, Work

\* How a thread comes to send, to wait, and out of it.
LEMMA ThreadStep ==
  ASSUME Base, [Next]_vars, NEW t \in Threads
  PROVE  /\ pc'[t] = "send" => \/ pc[t] = "send" /\ mine'[t] = mine[t]
                               \/ Reuse(t) /\ mine'[t] = worker
                               \/ Accept(t) /\ mine'[t] = mine[t]
         /\ pc'[t] = "wait" => \/ pc[t] = "wait" /\ mine'[t] = mine[t] /\ task'[t] = task[t]
                               \/ Send(t) /\ mine'[t] = mine[t]
         /\ pc[t] \in {"wait", "terminate"} /\ pc'[t] \notin {"wait", "terminate"} =>
              \/ Interrupt(t) /\ mine[t] \in stale'
              \/ Receive(t)
              \/ Terminate(t) /\ worker' = NoWorker
<1>t. /\ pc \in [Threads -> Places] /\ task \in [Threads -> Nat]
      /\ mine \in [Threads -> Workers \cup {NoWorker}]
  BY DEF Base, TypeInv, TypeOK, Places
<1> DEFINE Stays == pc'[t] = pc[t] /\ mine'[t] = mine[t] /\ task'[t] = task[t]
<1>1. ASSUME NEW u \in Threads \ {t},
             \/ Call(u) \/ Acquire(u) \/ Work(u) \/ Interrupt(u)
      PROVE  Stays
  BY <1>1, <1>t DEF Call, Acquire, Work, Reuse, Discard, Spawn, Accept, AcceptFails, Send,
     Timeout, Interrupt, Receive, Terminate, Reap, Raise, Goto, Leave, caller
<1>2. ASSUME NEW w \in Workers, Take(w) \/ Finish(w) \/ Die(w) PROVE Stays
  BY <1>2 DEF Take, Finish, Die, caller
<1>3. AtExit \/ Stopped \/ Ended \/ UNCHANGED vars => Stays
  BY DEF AtExit, Stopped, Ended, vars, caller
<1>4. CASE Reuse(t)
  BY <1>4, <1>t DEF Reuse, At, Goto
<1>5. CASE Accept(t)
  BY <1>5, <1>t DEF Accept, At, Goto, caller
<1>6. CASE Send(t)
  BY <1>6, <1>t DEF Send, At, Goto, Leave
<1>7. CASE Interrupt(t)
  BY <1>7, <1>t DEF Interrupt, At, Goto, Leave
<1>8. CASE Receive(t)
  BY <1>8, <1>t DEF Receive, At, Goto, Leave
<1>9. CASE Terminate(t)
  BY <1>9, <1>t DEF Terminate, Forgotten, At, Goto
<1>10. CASE \/ Call(t) \/ Acquire(t) \/ Discard(t) \/ Spawn(t) \/ AcceptFails(t)
            \/ Timeout(t) \/ Reap(t) \/ Raise(t)
  BY <1>10, <1>t DEF Call, Acquire, Discard, Spawn, AcceptFails, Timeout, AfterTimeout, Reap,
     Raise, At, Goto, Leave, caller
<1> QED BY <1>1, <1>2, <1>3, <1>4, <1>5, <1>6, <1>7, <1>8, <1>9, <1>10 DEF Next, Work

\* What happens to the pipes of a worker that stays the runner's: it is not
\* asked to stop, and gets a request only when its pipes are empty.
LEMMA WorkerPipes ==
  ASSUME Base, [Next]_vars, NEW w \in Workers, worker = w, worker' = w, NoStop(w)
  PROVE  /\ NoStop(w)'
         /\ One(w) /\ (\A t \in Threads : Send(t) /\ mine[t] = w => Empty(w)) => One(w)'
<1>t. /\ toWorker[w] \in Seq(Request \cup {Stop}) /\ toParent[w] \in Seq(Answer)
      /\ toWorker \in [Workers -> Seq(Request \cup {Stop})]
      /\ toParent \in [Workers -> Seq(Answer)]
      /\ proc \in [Workers -> {"dead", "starting", "ready", "busy"}]
      /\ w \in open /\ w # NoWorker
  BY WorkerAssumption DEF Base, TypeInv, TypeOK
<1>0. CASE toWorker'[w] = toWorker[w] /\ toParent'[w] = toParent[w] /\ proc'[w] = proc[w]
  BY <1>0 DEF One, NoStop
<1>1. ASSUME NEW t \in Threads, Send(t), toWorker'[w] # toWorker[w]
      PROVE  mine[t] = w /\ NoStop(w)' /\ (Empty(w) => One(w)')
  <2>1. PICK r \in Request :
          /\ toWorker' = [toWorker EXCEPT ![mine[t]] = Append(@, r)]
          /\ toParent' = toParent /\ proc' = proc
    <3>1. [stop |-> FALSE, task |-> nextTask, payload |-> payload[t]] \in Request
      BY DEF Base, TypeInv, TypeOK, Request
    <3> QED BY <1>1, <3>1 DEF Send, process
  <2>2. mine[t] = w /\ toWorker'[w] = Append(toWorker[w], r)
    BY <2>1, <1>1, <1>t
  <2>3. Empty(w) => One(w)'
    BY <2>1, <2>2, OneElement DEF Empty, One
  <2>4. /\ DOMAIN toWorker'[w] = DOMAIN toWorker[w] \cup {Len(toWorker[w]) + 1}
        /\ toWorker'[w][Len(toWorker[w]) + 1] = r
        /\ \A i \in DOMAIN toWorker[w] : toWorker'[w][i] = toWorker[w][i]
    BY <2>2, <1>t, AppendProperties, LenProperties
  <2>5. NoStop(w)'
    BY <2>4 DEF NoStop, Request
  <2> QED BY <2>2, <2>3, <2>5
<1>2. ASSUME NEW t \in Threads, Receive(t) PROVE NoStop(w)' /\ (One(w) => One(w)')
  <2>1. /\ proc' = proc /\ toWorker' = toWorker
        /\ \/ toParent' = toParent
           \/ toParent[mine[t]] # <<>> /\ toParent' = [toParent EXCEPT ![mine[t]] = Tail(@)]
    BY <1>2 DEF Receive, process
  <2>2. \/ toParent'[w] = toParent[w]
        \/ toParent[w] # <<>> /\ toParent'[w] = Tail(toParent[w])
    <3>1. CASE toParent' = toParent
      BY <3>1
    <3>2. CASE mine[t] = w
      BY <2>1, <3>2, <1>t
    <3>3. CASE mine[t] # w
      BY <2>1, <3>3, <1>t
    <3> QED BY <3>1, <3>2, <3>3
  <2>3. One(w) => One(w)'
    BY <2>1, <2>2, <1>t, OneElement DEF One
  <2> QED BY <2>1, <2>3 DEF NoStop
<1>3. ASSUME Take(w) PROVE NoStop(w)' /\ (One(w) => One(w)')
  <2>1. /\ toWorker[w] # <<>> /\ toWorker'[w] = Tail(toWorker[w]) /\ toParent' = toParent
    BY <1>3, <1>t DEF Take
  <2>2. \A i \in DOMAIN Tail(toWorker[w]) :
          i + 1 \in DOMAIN toWorker[w] /\ Tail(toWorker[w])[i] = toWorker[w][i + 1]
    BY <2>1, <1>t, HeadTailProperties, LenProperties
  <2>3. NoStop(w)'
    BY <2>1, <2>2 DEF NoStop
  <2>4. One(w) => One(w)'
    BY <2>1, <1>t, OneElement DEF One
  <2> QED BY <2>3, <2>4
<1>4. ASSUME Finish(w) PROVE NoStop(w)' /\ (One(w) => One(w)')
  <2>1. /\ toWorker' = toWorker /\ proc[w] = "busy" /\ proc' = [proc EXCEPT ![w] = "ready"]
        /\ \E ok \in BOOLEAN : toParent' = [toParent EXCEPT ![w] = Append(@,
             [task |-> job[w].task, ok |-> ok, payload |-> job[w].payload])]
    BY <1>4, <1>t DEF Finish, Become
  <2>2. \A ok \in BOOLEAN :
          [task |-> job[w].task, ok |-> ok, payload |-> job[w].payload] \in Answer
    BY DEF Base, TypeInv, Job, Answer
  <2>3. PICK a \in Answer : toParent'[w] = Append(toParent[w], a)
    BY <2>1, <2>2, <1>t
  <2>4. proc'[w] = "ready"
    BY <2>1, <1>t
  <2>5. One(w) => One(w)'
    BY <2>1, <2>3, <2>4, OneElement DEF One
  <2> QED BY <2>1, <2>5 DEF NoStop
<1>5. ASSUME Die(w) PROVE NoStop(w)' /\ (One(w) => One(w)')
  <2>1. toWorker' = toWorker /\ toParent' = toParent /\ proc'[w] = "dead"
    BY <1>5, <1>t DEF Die, Become, pipes
  <2> QED BY <2>1 DEF NoStop, One
<1>6. ASSUME NEW x \in Workers \ {w}, Take(x) \/ Finish(x) \/ Die(x)
      PROVE  toWorker'[w] = toWorker[w] /\ toParent'[w] = toParent[w] /\ proc'[w] = proc[w]
  BY <1>6, <1>t DEF Take, Finish, Die, Become, pipes
<1>7. ASSUME NEW t \in Threads, Send(t), toWorker'[w] = toWorker[w]
      PROVE  toParent'[w] = toParent[w] /\ proc'[w] = proc[w]
  BY <1>7 DEF Send, process
<1>8. ASSUME NEW t \in Threads,
             \/ Call(t) \/ Acquire(t) \/ Reuse(t) \/ Discard(t) \/ AcceptFails(t)
             \/ Timeout(t) \/ Interrupt(t) \/ Terminate(t) \/ Reap(t) \/ Raise(t)
      PROVE  UNCHANGED <<proc, toWorker, toParent>>
  BY <1>8 DEF Call, Acquire, Reuse, Discard, AcceptFails, Timeout, Interrupt, Terminate,
              Reap, Raise, process, pipes
<1>9. \A t \in Threads : ~Spawn(t) /\ ~Accept(t)
  BY <1>t DEF Spawn, Accept, At, Base, Held
<1>10. ~AtExit
  BY <1>t DEF AtExit, Forgotten
<1>11. Stopped \/ Ended \/ UNCHANGED vars => UNCHANGED <<proc, toWorker, toParent>>
  BY DEF Stopped, Ended, vars, process, pipes
<1> QED BY <1>0, <1>1, <1>2, <1>3, <1>4, <1>5, <1>6, <1>7, <1>8, <1>9, <1>10, <1>11
        DEF Next, Work

\* A worker that has just connected has nothing in its pipes.
LEMMA AcceptedPipes ==
  ASSUME Base, NEW t \in Threads, Accept(t)
  PROVE  /\ mine[t] \in Workers /\ worker' = mine[t] /\ UNCHANGED <<toWorker, toParent, mine>>
         /\ NoStop(mine[t]) /\ Carried(mine[t]) = {} /\ Carried(mine[t])' = {}
         /\ One(mine[t])'
<1>1. /\ mine[t] \in Workers /\ proc[mine[t]] # "busy"
      /\ toWorker[mine[t]] = <<>> /\ toParent[mine[t]] = <<>>
      /\ worker' = mine[t] /\ UNCHANGED <<toWorker, toParent, mine, job>>
      /\ proc' = [proc EXCEPT ![mine[t]] = "ready"]
  BY DEF Accept, At, Base, Held, pipes, caller
<1>2. proc'[mine[t]] = "ready"
  BY <1>1 DEF Base, TypeInv, TypeOK
<1>3. DOMAIN <<>> = {} /\ Len(<<>>) = 0
  OBVIOUS
<1>4. NoStop(mine[t]) /\ Carried(mine[t]) = {}
  BY <1>1, <1>3 DEF NoStop, Carried, Sent, Answered, Running
<1>5. Carried(mine[t])' = {}
  BY <1>1, <1>2, <1>3 DEF Carried, Sent, Answered, Running
<1>7. One(mine[t])'
  BY <1>1 DEF One
<1> QED BY <1>1, <1>4, <1>5, <1>7

\* What the next benchmark finds stays empty, and what a caller waits for its
\* own.
LEMMA PipesStep == ASSUME Base, Pipes, [Next]_vars PROVE Pipes'
<1>b. Base'
  BY BaseStep
<1>t. worker \in Workers \cup {NoWorker} /\ worker' \in Workers \cup {NoWorker}
  BY <1>b DEF Base, TypeInv, TypeOK
<1>s. ASSUME worker' = worker, worker # NoWorker, worker \notin stale'
      PROVE  worker \in open /\ worker \notin stale
  <2>1. worker \in open /\ worker \in open'
    BY <1>s, <1>b DEF Base, TypeInv, TypeOK
  <2> QED BY <2>1, <1>s, FieldsStep
<1>a. ASSUME NEW t \in Threads, Accept(t), worker' = mine[t]
      PROVE  NoStop(worker)' /\ One(worker)' /\ Carried(worker)' = {}
  <2>1. PICK w : w = mine[t]
    OBVIOUS
  <2>2. w = worker' /\ NoStop(w) /\ UNCHANGED toWorker /\ One(w)' /\ Carried(w)' = {}
    BY <1>a, <2>1, AcceptedPipes
  <2> QED BY <2>2 DEF NoStop, One, Carried, Running
<1>1. ASSUME worker' # NoWorker
      PROVE  NoStop(worker)' /\ (worker' \notin stale' => One(worker)')
  <2>1. CASE \E t \in Threads : Accept(t) /\ worker' = mine[t]
    BY <2>1, <1>a
  <2>2. CASE worker' = worker
    <3>1. PICK w \in Workers : w = worker
      BY <1>1, <2>2, <1>t
    <3>2. NoStop(w) /\ (w \notin stale => One(w))
      BY <3>1, <1>1, <2>2 DEF Pipes
    <3>3. NoStop(w)'
      BY <3>1, <3>2, <2>2, WorkerPipes
    <3>4. ASSUME w \notin stale' PROVE One(w)'
      <4>1. w \in open \ stale
        BY <3>1, <3>4, <1>1, <2>2, <1>s
      <4>2. ASSUME NEW t \in Threads, Send(t), mine[t] = w PROVE Empty(w)
        <5>1. pc[t] = "send"
          BY <4>2 DEF Send, At
        <5>2. Carried(w) = {}
          BY <4>1, <4>2, <5>1 DEF Pipes
        <5> QED BY <5>2, <3>2, EmptyPipes DEF Base
      <4> QED BY <3>1, <3>2, <2>2, <4>1, <4>2, WorkerPipes
    <3> QED BY <3>1, <3>3, <3>4, <2>2 DEF NoStop, One
  <2> QED BY <1>1, <2>1, <2>2, FieldsStep
<1>2. ASSUME worker' \notin stale' \cup {NoWorker}, ~Waited' PROVE Carried(worker)' = {}
  <2>1. CASE \E t \in Threads : Accept(t) /\ worker' = mine[t]
    BY <2>1, <1>a
  <2>2. CASE worker' = worker
    <3>1. PICK w \in Workers : w = worker
      BY <1>2, <2>2, <1>t
    <3>2. w \in open \ stale
      BY <3>1, <1>2, <2>2, <1>s
    <3>3. CASE ~Waited
      <4>1. Carried(w) = {}
        BY <3>1, <3>2, <3>3, <1>t, <1>2, <2>2 DEF Pipes
      <4>2. ~ \E t \in Threads : pc'[t] = "wait"
        BY <1>2 DEF Waited
      <4>3. Carried(w)' = {}
        BY <4>1, <4>2, CarriedStep
      <4> QED BY <3>1, <4>3, <2>2 DEF Carried, Running
    <3>4. CASE Waited
      <4>1. PICK t \in Threads : pc[t] \in {"wait", "terminate"}
        BY <3>4 DEF Waited
      <4>2. pc'[t] \notin {"wait", "terminate"}
        BY <1>2 DEF Waited
      <4>3. mine[t] = w
        BY <4>1, <3>1, <3>2, <1>t, <1>2, <2>2 DEF Base, Held
      <4>4. Receive(t)
        <5>1. worker' # NoWorker /\ mine[t] \notin stale'
          BY <3>1, <4>3, <1>2, <2>2
        <5> QED BY <4>1, <4>2, <5>1, ThreadStep
      <4>5. /\ toParent[w] # <<>> /\ toParent' = [toParent EXCEPT ![w] = Tail(@)]
            /\ toWorker' = toWorker /\ proc' = proc /\ job' = job
        <5>1. pc'[t] # "terminate"
          BY <4>2
        <5>2. pc \in [Threads -> Places]
          BY DEF Base, TypeInv, TypeOK, Places
        <5> QED BY <4>3, <4>4, <5>1, <5>2, <3>2 DEF Receive, Goto, process
      <4>6. One(w)
        BY <3>1, <3>2, <1>2, <2>2 DEF Pipes
      <4>7. toParent[w] \in Seq(Answer) /\ toParent \in [Workers -> Seq(Answer)]
        BY DEF Base, TypeInv, TypeOK
      <4>8. toWorker[w] = <<>> /\ Len(toParent[w]) = 1 /\ proc[w] # "busy"
        BY <4>5, <4>6 DEF One
      <4>9. toParent'[w] = <<>>
        BY <4>5, <4>7, <4>8, OneElement
      <4>10. DOMAIN <<>> = {}
        OBVIOUS
      <4>11. Carried(w)' = {}
        BY <4>5, <4>8, <4>9, <4>10 DEF Carried, Sent, Answered, Running
      <4> QED BY <3>1, <4>11, <2>2 DEF Carried, Running
    <3> QED BY <3>3, <3>4
  <2> QED BY <1>2, <2>1, <2>2, FieldsStep
<1>3. ASSUME NEW t \in Threads, mine'[t] \in open' \ stale', pc'[t] = "send"
      PROVE  Carried(mine[t])' = {}
  <2>1. PICK w \in Workers : w = mine'[t]
    BY <1>3, <1>b DEF Base, TypeInv, TypeOK
  <2>n. w \notin stale
    BY <1>3, <2>1, FieldsStep
  <2>2. CASE pc[t] = "send" /\ mine'[t] = mine[t]
    <3>1. w \in open
      <4>1. ASSUME NEW u \in Threads, Accept(u), w = mine[u] PROVE FALSE
        <5>1. u = t
          BY <2>2, <4>1, Alone DEF Accept, At
        <5> QED BY <2>2, <4>1, <5>1 DEF Accept, At
      <4> QED BY <1>3, <2>1, <4>1, FieldsStep
    <3>2. Carried(w) = {}
      BY <2>1, <2>2, <2>n, <3>1 DEF Pipes
    <3>3. ASSUME NEW u \in Threads, Send(u), pc'[u] = "wait" PROVE FALSE
      <4>1. u = t
        BY <2>2, <3>3, Alone DEF Send, At
      <4> QED BY <1>3, <3>3, <4>1
    <3>4. Carried(w)' = {}
      BY <3>2, <3>3, CarriedStep
    <3> QED BY <2>1, <3>4 DEF Carried, Running
  <2>3. CASE Reuse(t) /\ mine'[t] = worker
    <3>1. worker # NoWorker /\ pc[t] = "start" /\ UNCHANGED <<proc, job, toWorker, toParent>>
      BY <2>3 DEF Reuse, At, process, pipes
    <3>2. ~Waited
      <4>1. ASSUME NEW u \in Threads, pc[u] \in {"wait", "terminate"} PROVE FALSE
        BY <3>1, <4>1, Alone
      <4> QED BY <4>1 DEF Waited
    <3>3. Carried(w) = {}
      BY <2>1, <2>3, <2>n, <3>1, <3>2 DEF Pipes
    <3>4. Carried(w)' = {}
      BY <3>1, <3>3 DEF Carried, Running
    <3> QED BY <2>1, <3>4 DEF Carried, Running
  <2>4. CASE Accept(t) /\ mine'[t] = mine[t]
    <3>1. Carried(w)' = {}
      BY <2>1, <2>4, AcceptedPipes
    <3> QED BY <2>1, <3>1 DEF Carried, Running
  <2> QED BY <1>3, <2>2, <2>3, <2>4, ThreadStep
<1>4. ASSUME NEW t \in Threads, mine'[t] \in open' \ stale', pc'[t] = "wait"
      PROVE  \A m \in Carried(mine[t])' : m.task = task'[t]
  <2>1. PICK w \in Workers : w = mine'[t]
    BY <1>4, <1>b DEF Base, TypeInv, TypeOK
  <2>n. w \notin stale
    BY <1>4, <2>1, FieldsStep
  <2>2. pc[t] \in {"wait", "send"} /\ mine[t] = w
    BY <1>4, <2>1, ThreadStep DEF Send, At
  <2>3. w \in open
    <3>1. ASSUME NEW u \in Threads, Accept(u), w = mine[u] PROVE FALSE
      <4>1. u = t
        BY <2>2, <3>1, Alone DEF Accept, At
      <4> QED BY <2>2, <3>1, <4>1 DEF Accept, At
    <3> QED BY <1>4, <2>1, <3>1, FieldsStep
  <2>4. CASE Send(t)
    <3>1. Carried(w) = {} /\ task'[t] = nextTask
      <4>1. pc[t] = "send" /\ task \in [Threads -> Nat]
        BY <2>4 DEF Send, At, Base, TypeInv, TypeOK
      <4> QED BY <2>2, <2>3, <2>4, <2>n, <4>1, WaitingStep DEF Pipes
    <3>2. \A m \in Carried(w)' : m.task = nextTask
      BY <3>1, CarriedStep
    <3> QED BY <2>1, <3>1, <3>2 DEF Carried, Running
  <2>5. CASE pc[t] = "wait" /\ task'[t] = task[t]
    <3>1. \A m \in Carried(w) : m.task = task[t]
      BY <2>2, <2>3, <2>5, <2>n DEF Pipes
    <3>2. ASSUME NEW u \in Threads, Send(u) PROVE FALSE
      <4>1. u = t
        BY <2>5, <3>2, Alone DEF Send, At
      <4> QED BY <2>5, <3>2, <4>1 DEF Send, At
    <3>3. Carried(w)' \subseteq Carried(w)
      BY <3>2, CarriedStep
    <3> QED BY <2>1, <2>5, <3>1, <3>3 DEF Carried, Running
  <2> QED BY <1>4, <2>4, <2>5, ThreadStep
<1> QED BY <1>1, <1>2, <1>3, <1>4 DEF Pipes

\* Pipes are empty before the first call.
LEMMA InitPipes == Init => Pipes /\ Known
BY DEF Init, Pipes, Waited, Known, NoStop

-----------------------------------------------------------------------------
(* Processes *)

\* A worker is forgotten only when it is dead or has been signalled.
LEMMA KnownStep == ASSUME Base, Known, [Next]_vars PROVE Known'
<1>t. /\ proc \in [Workers -> {"dead", "starting", "ready", "busy"}]
      /\ worker \in open \cup {NoWorker} /\ open \subseteq Workers
      /\ NoWorker \notin Workers
  BY WorkerAssumption DEF Base, TypeInv, TypeOK
<1>1. ASSUME NEW t \in Threads, Spawn(t) PROVE Known'
  BY <1>1, <1>t DEF Spawn, Known
<1>2. ASSUME NEW t \in Threads, Accept(t) PROVE Known'
  <2>1. /\ worker = NoWorker /\ worker' = mine[t] /\ proc' = [proc EXCEPT ![mine[t]] = "ready"]
        /\ UNCHANGED <<signalled, last, exit>>
    BY <1>2 DEF Accept, At, Base, Held
  <2> QED BY <2>1, <1>t DEF Known
<1>3. ASSUME NEW t \in Threads, Discard(t) PROVE Known'
  BY <1>3, <1>t DEF Discard, Dead, Known
<1>4. ASSUME NEW t \in Threads, Terminate(t) PROVE Known'
  BY <1>4, <1>t DEF Terminate, Forgotten, Unwanted, Dead, Known
<1>5. CASE AtExit
  BY <1>5, <1>t DEF AtExit, Forgotten, process, Known, Base, Exiting
<1>6. CASE Stopped
  BY <1>6, <1>t DEF Stopped, Killed, Unwanted, Dead, Known
<1>7. CASE Ended
  BY <1>7 DEF Ended, Known
<1>8. ASSUME NEW w \in Workers, Take(w) \/ Finish(w) \/ Die(w) PROVE Known'
  <2>1. /\ UNCHANGED <<worker, last, signalled, exit>>
        /\ proc[w] \notin {"ready", "busy"} => proc'[w] \notin {"ready", "busy"}
        /\ \A x \in Workers \ {w} : proc'[x] = proc[x]
    BY <1>8, <1>t DEF Take, Finish, Die, Become, Dead
  <2> QED BY <2>1, <1>t DEF Known
<1>9. ASSUME NEW t \in Threads,
             \/ Call(t) \/ Acquire(t) \/ Reuse(t) \/ Send(t) \/ Timeout(t)
             \/ Interrupt(t) \/ Receive(t) \/ Reap(t) \/ Raise(t)
      PROVE  UNCHANGED <<worker, last, signalled, exit, proc>>
  BY <1>9 DEF Call, Acquire, Reuse, Send, Timeout, Interrupt, Receive, Reap, Raise, process
<1>10. ASSUME NEW t \in Threads, AcceptFails(t)
       PROVE  UNCHANGED <<worker, last, exit, proc>> /\ signalled \subseteq signalled'
  BY <1>10 DEF AcceptFails, Unwanted
<1>11. UNCHANGED vars => UNCHANGED <<worker, last, signalled, exit, proc>>
  BY DEF vars, process
<1>12. UNCHANGED <<worker, last, exit, proc>> /\ signalled \subseteq signalled' => Known'
  BY DEF Known
<1> QED BY <1>1, <1>2, <1>3, <1>4, <1>5, <1>6, <1>7, <1>8, <1>9, <1>10, <1>11, <1>12
        DEF Next, Work

-----------------------------------------------------------------------------
IndInv == Base /\ Numbers /\ OwnTime /\ Pipes /\ Known

\* The layers together are inductive.
LEMMA IndInvHolds == Spec => []IndInv
<1>1. Init => IndInv
  BY InitBase, InitNumbers, InitPipes DEF IndInv
<1>2. IndInv /\ [Next]_vars => IndInv'
  BY BaseStep, NumbersStep, OwnTimeStep, PipesStep, KnownStep DEF IndInv
<1> QED BY <1>1, <1>2, PTL DEF Spec

\* The runner's state is of its type: the worker it keeps is one whose
\* connection is open.
THEOREM TypeCorrect == Spec => []TypeOK
<1>1. IndInv => TypeOK
  BY DEF IndInv, Base, TypeInv
<1> QED BY <1>1, IndInvHolds, PTL

\* However many benchmarks time out, crash or are interrupted before, the time
\* that a benchmark returns is that of its own kernel.
THEOREM OwnTimes == Spec => []OwnTime
<1>1. IndInv => OwnTime
  BY DEF IndInv
<1> QED BY <1>1, IndInvHolds, PTL

\* Nothing but an interrupt leaves an answer in a pipe that a later benchmark
\* reads.
THEOREM StaleByInterrupt == Spec => []StaleOnlyByInterrupt
<1>1. IndInv => StaleOnlyByInterrupt
  <2> SUFFICES ASSUME IndInv, NEW t \in Threads, pc[t] = "wait", mine[t] \in open \ stale,
                      NEW i \in 1..Len(toParent[mine[t]])
               PROVE  toParent[mine[t]][i].task = task[t]
    BY DEF StaleOnlyByInterrupt
  <2>1. mine[t] \in Workers /\ toParent[mine[t]] \in Seq(Answer)
    BY DEF IndInv, Base, TypeInv, TypeOK
  <2>2. i \in DOMAIN toParent[mine[t]]
    BY <2>1, LenProperties
  <2>3. Ticket(toParent[mine[t]][i]) \in Carried(mine[t])
    BY <2>2 DEF Carried, Answered
  <2>4. Ticket(toParent[mine[t]][i]).task = task[t]
    BY <2>3 DEF IndInv, Pipes
  <2> QED BY <2>4 DEF Ticket
<1> QED BY <1>1, IndInvHolds, PTL

\* No worker process runs that nobody knows of and nobody has tried to kill.
THEOREM NoStrays == Spec => []NoStrayWorker
<1>1. IndInv => NoStrayWorker
  <2> SUFFICES ASSUME IndInv, NEW w \in Workers, ~Dead(w), w \notin signalled, exit # "done"
               PROVE  \/ w \in {worker, last}
                      \/ Orphaned(w)
                      \/ lock # NoThread /\ mine[lock] = w
    BY DEF NoStrayWorker
  <2>1. proc[w] \in {"starting", "ready", "busy"}
    BY DEF IndInv, Base, TypeInv, TypeOK, Dead
  <2>2. CASE proc[w] \in {"ready", "busy"}
    BY <2>2 DEF IndInv, Known
  <2>3. CASE proc[w] = "starting"
    <3>1. CASE \A t \in Threads : ~(At(t, "accept") /\ mine[t] = w)
      BY <2>3, <3>1 DEF Orphaned
    <3>2. ASSUME NEW t \in Threads, At(t, "accept"), mine[t] = w
          PROVE  lock # NoThread /\ mine[lock] = w
      BY <3>2, WorkerAssumption DEF At, IndInv, Base, Mutex
    <3> QED BY <3>1, <3>2
  <2> QED BY <2>1, <2>2, <2>3
<1> QED BY <1>1, IndInvHolds, PTL
=============================================================================
