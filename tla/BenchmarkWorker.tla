---------------------------- MODULE BenchmarkWorker ----------------------------
(***************************************************************************)
(* Benchmarks with a timeout, cuda/tile/tune/_tune_utils.py.  A kernel is  *)
(* run in a worker process, so that one that never ends can be killed.     *)
(* The process has one runner and one worker at a time, started when it is *)
(* needed and kept for the next benchmark; _timed_benchmark_lock lets one  *)
(* thread use it at a time.  Requests and answers carry a task id.         *)
(*                                                                         *)
(* At exit, _terminate_timed_benchmark_runner stops the worker without     *)
(* taking the lock; Python runs it when all threads but the daemons have   *)
(* ended.                                                                  *)
(***************************************************************************)
EXTENDS Integers, Sequences

CONSTANTS Threads, NoThread,
          Daemons,     \* the threads the interpreter does not wait for
          Workers, NoWorker,
          MaxCalls     \* bound: calls of benchmark_with_timeout

ASSUME WorkerAssumption ==
  /\ NoThread \notin Threads /\ Daemons \subseteq Threads
  /\ NoWorker \notin Workers
  /\ MaxCalls \in Nat

VARIABLES
  lock,       \* _timed_benchmark_lock
  pc,
  payload,    \* payload[t]: the call whose kernel t benchmarks
  result,     \* result[t]: the call whose time it returned, 0 for none
  task,       \* task_id
  mine,       \* the worker t talks to
  worker,     \* self._worker
  last,       \* the worker that terminate stops at exit
  nextTask,   \* self._next_task_id
  calls,
  proc, job,  \* state of each worker process, and its request
  signalled,  \* the processes that were sent SIGTERM or SIGKILL
  open,       \* the connections the parent has not closed
  toWorker, toParent,
  stale,      \* the workers that a caller left with a request
  exit        \* "no", "stopping", "done"

caller == <<payload, result, task, mine, calls>>
process == <<proc, job, signalled, open>>
pipes == <<toWorker, toParent>>
vars == <<lock, pc, caller, worker, last, nextTask, process, pipes, stale,
          exit>>

Request == [stop : {FALSE}, task : Nat, payload : Nat]
Stop == [stop |-> TRUE, task |-> 0, payload |-> 0]   \* (_WORKER_STOP,)
Answer == [task : Nat, ok : BOOLEAN, payload : Nat]
NoJob == [task |-> 0, payload |-> 0]

Init ==
  /\ lock = NoThread
  /\ pc = [t \in Threads |-> "idle"]
  /\ payload = [t \in Threads |-> 0]
  /\ result = [t \in Threads |-> 0]
  /\ task = [t \in Threads |-> 0]
  /\ mine = [t \in Threads |-> NoWorker]
  /\ worker = NoWorker /\ last = NoWorker
  /\ nextTask = 0
  /\ calls = 0
  /\ proc = [w \in Workers |-> "dead"]
  /\ job = [w \in Workers |-> NoJob]
  /\ signalled = {}
  /\ open = {}
  /\ toWorker = [w \in Workers |-> <<>>]
  /\ toParent = [w \in Workers |-> <<>>]
  /\ stale = {}
  /\ exit = "no"

Dead(w) == proc[w] = "dead"

\* the step of a thread of the parent
At(t, where) == pc[t] = where /\ exit # "done"
Goto(t, where) == pc' = [pc EXCEPT ![t] = where]

\* benchmark_with_timeout returns, or raises
Leave(t) == Goto(t, "idle") /\ lock' = NoThread

-----------------------------------------------------------------------------
(* benchmark_with_timeout and _get_or_start_worker *)

\* Without a payload (IPC is not supported) the kernel runs in this process.
Call(t) ==
  /\ At(t, "idle")
  /\ exit = "no" \/ t \in Daemons
  /\ calls < MaxCalls
  /\ calls' = calls + 1
  /\ payload' = [payload EXCEPT ![t] = calls']
  /\ result' = [result EXCEPT ![t] = 0]
  /\ Goto(t, "lock")
  /\ UNCHANGED <<lock, task, mine, worker, nextTask, process, pipes, stale,
                 last, exit>>

Acquire(t) ==
  /\ At(t, "lock")
  /\ lock = NoThread
  /\ lock' = t
  /\ Goto(t, "start")
  /\ UNCHANGED <<caller, worker, nextTask, process, pipes, stale, last, exit>>

Reuse(t) ==
  /\ At(t, "start")
  /\ worker # NoWorker /\ ~Dead(worker)
  /\ mine' = [mine EXCEPT ![t] = worker]
  /\ Goto(t, "send")
  /\ UNCHANGED <<lock, payload, result, task, worker, nextTask, calls,
                 process, pipes, stale, last, exit>>

\* the worker died since the last benchmark
Discard(t) ==
  /\ At(t, "start")
  /\ worker # NoWorker /\ Dead(worker)
  /\ worker' = NoWorker
  /\ open' = open \ {worker}
  /\ UNCHANGED <<lock, pc, caller, nextTask, proc, job, signalled, pipes,
                 stale, last, exit>>

Spawn(t) ==
  /\ At(t, "start")
  /\ worker = NoWorker
  /\ \E w \in Workers :
       /\ Dead(w) /\ w \notin open
       /\ proc' = [proc EXCEPT ![w] = "starting"]
       /\ mine' = [mine EXCEPT ![t] = w]
       /\ signalled' = signalled \ {w}
       /\ stale' = stale \ {w}
       /\ toWorker' = [toWorker EXCEPT ![w] = <<>>]
       /\ toParent' = [toParent EXCEPT ![w] = <<>>]
  /\ Goto(t, "accept")
  /\ UNCHANGED <<lock, payload, result, task, calls, worker, nextTask, job,
                 open, last, exit>>

Accept(t) ==
  /\ At(t, "accept")
  /\ LET w == mine[t]
     IN /\ proc[w] = "starting"
        /\ proc' = [proc EXCEPT ![w] = "ready"]
        /\ open' = open \cup {w}
        /\ worker' = w
  /\ Goto(t, "send")
  /\ UNCHANGED <<lock, caller, nextTask, job, signalled, pipes, stale,
                 last, exit>>

\* Mutant: a worker that connects too late is left alone.
Unwanted_Left(w) == signalled

Unwanted(w) == IF Dead(w) THEN signalled ELSE signalled \cup {w}

\* _WORKER_START_TIMEOUT_SEC passes, or accept raises
AcceptFails(t) ==
  /\ At(t, "accept")
  /\ signalled' = Unwanted(mine[t])
  /\ Leave(t)
  /\ UNCHANGED <<caller, worker, nextTask, proc, job, open, pipes, stale,
                 last, exit>>

-----------------------------------------------------------------------------
(* run *)

NextId == nextTask + 1

\* A broken pipe is reported and the worker terminated; the connection that
\* the end of the process closed raises an OSError that nobody catches.
Send(t) ==
  /\ At(t, "send")
  /\ nextTask' = NextId
  /\ task' = [task EXCEPT ![t] = nextTask]
  /\ LET w == mine[t]
     IN \/ /\ w \in open /\ ~Dead(w)
           /\ toWorker' = [toWorker EXCEPT ![w] = Append(@,
                [stop |-> FALSE, task |-> nextTask, payload |-> payload[t]])]
           /\ Goto(t, "wait")
           /\ UNCHANGED lock
        \/ /\ w \in open /\ Dead(w)
           /\ Goto(t, "terminate")
           /\ UNCHANGED <<lock, toWorker>>
        \/ /\ w \notin open
           /\ Leave(t)
           /\ UNCHANGED toWorker
  /\ UNCHANGED <<payload, result, mine, calls, worker, process, toParent,
                 stale, last, exit>>

\* wait() sees an answer, or the end of the connection
Ready(w) == toParent[w] # <<>> \/ Dead(w) \/ w \notin open

\* Mutants: no timeout, or the worker goes on after it.
TimesOut_Never(t) == FALSE
AfterTimeout_Keep == "leave"

TimesOut(t) == ~Ready(mine[t])
AfterTimeout == "terminate"

Timeout(t) ==
  /\ At(t, "wait")
  /\ TimesOut(t)
  /\ Goto(t, AfterTimeout)
  /\ UNCHANGED <<lock, caller, worker, nextTask, process, pipes, stale,
                 last, exit>>

\* The user interrupts a benchmark: the worker keeps its request, and one that
\* has not connected finds the listener closed.
Interrupt(t) ==
  /\ \/ At(t, "wait") /\ stale' = stale \cup {mine[t]}
     \/ At(t, "accept") /\ UNCHANGED stale
  /\ Leave(t)
  /\ UNCHANGED <<caller, worker, nextTask, process, pipes, last, exit>>

\* Mutant: the id of the answer is not looked at.
Accepts_Any(t, a) == a.ok
Accepts(t, a) == a.task = task[t] /\ a.ok

Receive(t) ==
  /\ At(t, "wait")
  /\ Ready(mine[t])
  /\ LET w == mine[t]
     IN IF w \notin open
        THEN Leave(t) /\ UNCHANGED <<result, toParent>>
        ELSE IF toParent[w] = <<>>
        THEN Goto(t, "terminate") /\ UNCHANGED <<lock, result, toParent>>
        ELSE LET a == Head(toParent[w])
             IN /\ toParent' = [toParent EXCEPT ![w] = Tail(@)]
                /\ IF Accepts(t, a)
                   THEN /\ result' = [result EXCEPT ![t] = a.payload]
                        /\ Leave(t)
                   ELSE Goto(t, "terminate") /\ UNCHANGED <<lock, result>>
  /\ UNCHANGED <<payload, task, mine, calls, worker, nextTask, process,
                 toWorker, stale, last, exit>>

-----------------------------------------------------------------------------
(* terminate *)

Forgotten == NoWorker

\* process.terminate(), unless the end of the process was faster
Terminate(t) ==
  /\ At(t, "terminate")
  /\ IF worker = NoWorker
     THEN Goto(t, "leave") /\ UNCHANGED <<worker, signalled>>
     ELSE /\ worker' = Forgotten
          /\ signalled' = Unwanted(worker)
          /\ Goto(t, "reap")
  /\ UNCHANGED <<lock, caller, nextTask, proc, job, open, pipes, stale,
                 last, exit>>

\* the process ended, or did not within the timeouts of wait; kill was tried
Reap(t) ==
  /\ At(t, "reap")
  /\ open' = open \ {mine[t]}
  /\ Goto(t, "leave")
  /\ UNCHANGED <<lock, caller, worker, nextTask, proc, job, signalled, pipes,
                 stale, last, exit>>

Raise(t) ==
  /\ At(t, "leave")
  /\ Leave(t)
  /\ UNCHANGED <<caller, worker, nextTask, process, pipes, stale, last, exit>>

-----------------------------------------------------------------------------
(* _terminate_timed_benchmark_runner, and the end of the process *)

AtExit ==
  /\ exit = "no"
  /\ \A t \in Threads \ Daemons : pc[t] = "idle"
  /\ exit' = "stopping"
  /\ last' = worker
  /\ worker' = Forgotten
  /\ toWorker' = [w \in Workers |-> IF w = worker /\ w \in open /\ ~Dead(w)
                                    THEN Append(toWorker[w], Stop)
                                    ELSE toWorker[w]]
  /\ UNCHANGED <<lock, pc, caller, nextTask, process, toParent, stale>>

\* Mutant: the worker is asked to stop and not killed.
Killed_Not == signalled
Killed == Unwanted(last)

\* the worker stopped, or did not within a second
Stopped ==
  /\ exit = "stopping"
  /\ last # NoWorker
  /\ signalled' = Killed
  /\ open' = open \ {last}
  /\ last' = NoWorker
  /\ UNCHANGED <<lock, pc, caller, worker, nextTask, proc, job, pipes, stale,
                 exit>>

\* the process ends as soon as the runner is dropped
Ended ==
  /\ exit = "stopping"
  /\ last = NoWorker
  /\ exit' = "done"
  /\ worker' = NoWorker
  /\ open' = {}
  /\ UNCHANGED <<lock, pc, caller, nextTask, proc, job, signalled, pipes, last,
                 stale>>

-----------------------------------------------------------------------------
(* _benchmark_worker_main, in the worker process *)

Become(w, state) == proc' = [proc EXCEPT ![w] = state]

Take(w) ==
  /\ proc[w] = "ready"
  /\ toWorker[w] # <<>>
  /\ LET m == Head(toWorker[w])
     IN IF m.stop
        THEN Become(w, "dead") /\ UNCHANGED job
        ELSE /\ Become(w, "busy")
             /\ job' = [job EXCEPT ![w] = [task |-> m.task,
                                           payload |-> m.payload]]
  /\ toWorker' = [toWorker EXCEPT ![w] = Tail(@)]
  /\ UNCHANGED <<lock, pc, caller, worker, nextTask, signalled, open,
                 toParent, stale, last, exit>>

\* The kernel ended, or raised; a parent that is gone makes send fail.
Finish(w) ==
  /\ proc[w] = "busy"
  /\ IF w \in open
     THEN /\ \E ok \in BOOLEAN :
               toParent' = [toParent EXCEPT ![w] = Append(@,
                 [task |-> job[w].task, ok |-> ok, payload |-> job[w].payload])]
          /\ Become(w, "ready")
     ELSE Become(w, "dead") /\ UNCHANGED toParent
  /\ job' = [job EXCEPT ![w] = NoJob]
  /\ UNCHANGED <<lock, pc, caller, worker, nextTask, signalled, open,
                 toWorker, stale, last, exit>>

\* EOF: the parent closed the connection
Orphaned(w) ==
  \/ proc[w] = "ready" /\ toWorker[w] = <<>> /\ w \notin open
  \/ proc[w] = "starting"
     /\ \A t \in Threads : ~(At(t, "accept") /\ mine[t] = w)

\* the process ends: on its own, by a signal, or because it crashed
Die(w) ==
  /\ ~Dead(w)
  /\ Become(w, "dead")
  /\ job' = [job EXCEPT ![w] = NoJob]
  /\ UNCHANGED <<lock, pc, caller, worker, nextTask, signalled, open, pipes,
                 stale, last, exit>>

End(w) == (Orphaned(w) \/ w \in signalled) /\ Die(w)

-----------------------------------------------------------------------------
Work(t) == \/ Reuse(t) \/ Discard(t) \/ Spawn(t)
           \/ Accept(t) \/ AcceptFails(t)
           \/ Send(t) \/ Timeout(t) \/ Receive(t)
           \/ Terminate(t) \/ Reap(t) \/ Raise(t)

Next == \/ \E t \in Threads : Call(t) \/ Acquire(t) \/ Work(t) \/ Interrupt(t)
        \/ AtExit \/ Stopped \/ Ended
        \/ \E w \in Workers : Take(w) \/ Finish(w) \/ Die(w)

Spec == Init /\ [][Next]_vars

\* Timeouts end every wait of the parent, and threads that ask for the lock
\* get it in the end.  A worker reads its pipe and dies of signals; that a
\* kernel ends is not assumed.
FairSpec == /\ Spec
            /\ \A t \in Threads : SF_vars(Acquire(t)) /\ WF_vars(Work(t))
            /\ WF_vars(Stopped) /\ WF_vars(Ended)
            /\ \A w \in Workers : WF_vars(Take(w)) /\ WF_vars(End(w))

-----------------------------------------------------------------------------
(* Properties *)

TypeOK ==
  /\ lock \in Threads \cup {NoThread}
  /\ pc \in [Threads -> {"idle", "lock", "start", "accept", "send", "wait",
                         "terminate", "reap", "leave"}]
  /\ payload \in [Threads -> Nat] /\ result \in [Threads -> Nat]
  /\ task \in [Threads -> Nat]
  /\ mine \in [Threads -> Workers \cup {NoWorker}]
  /\ worker \in open \cup {NoWorker} /\ last \in Workers \cup {NoWorker}
  /\ nextTask \in Nat /\ calls \in 0..MaxCalls
  /\ proc \in [Workers -> {"dead", "starting", "ready", "busy"}]
  /\ \A w \in Workers : job[w].task \in Nat /\ job[w].payload \in Nat
  /\ signalled \subseteq Workers /\ open \subseteq Workers
  /\ toWorker \in [Workers -> Seq(Request \cup {Stop})]
  /\ toParent \in [Workers -> Seq(Answer)]
  /\ stale \subseteq Workers
  /\ exit \in {"no", "stopping", "done"}

\* A benchmark returns the time of its own kernel, never one that a call that
\* timed out or was interrupted left in the pipe.
OwnTime == \A t \in Threads : result[t] \in {0, payload[t]}

\* Only an interrupt leaves an answer behind: after a timeout, an error or a
\* crash the next benchmark does not fail because of it.
StaleOnlyByInterrupt ==
  \A t \in Threads : pc[t] = "wait" /\ mine[t] \in open \ stale =>
    \A i \in 1..Len(toParent[mine[t]]) :
      toParent[mine[t]][i].task = task[t]

\* A worker process that nobody has tried to kill is the runner's, or
\* atexit stops it, or its connection is closed or about to be opened or closed
\* by the lock's holder.
NoStrayWorker ==
  \A w \in Workers : ~Dead(w) /\ w \notin signalled /\ exit # "done" =>
    \/ w \in {worker, last}
    \/ Orphaned(w)
    \/ lock # NoThread /\ mine[lock] = w

\* A call returns even when its kernel never does.
CallReturns ==
  \A t \in Threads : pc[t] # "idle" ~> pc[t] = "idle" \/ exit = "done"

\* When the process ends, its worker ends, also one that runs a kernel that
\* never does.
WorkersGone == \A w \in Workers : w = last ~> Dead(w)
=============================================================================
