------------------------------- MODULE WorkQueue -------------------------------
(***************************************************************************)
(* Laboratory 9, part 2: a keyboard interrupt handler that leaves its work *)
(* to a workqueue, and the module that loads and unloads it.               *)
(*                                                                         *)
(* The kernel is modelled from how the code uses it.  queue_work() drops a *)
(* work that is pending, appends it to the queue of the interrupt's        *)
(* processor or, while the work is running, of the processor that runs it. *)
(* A worker takes the first work and clears its pending bit before the     *)
(* function starts.  A workqueue that is being destroyed, and a work that  *)
(* is not initialised, lose what is queued; a queue that does not exist is *)
(* an oops, after which nothing is said about the system.                  *)
(***************************************************************************)
EXTENDS Integers, Sequences, FiniteSets

CONSTANTS
  Cpus,       \* the processors
  Codes,      \* the scan codes of the keyboard
  MaxPresses  \* bound: the number of interrupts

ASSUME WorkQueueAssumption == Codes \subseteq Nat /\ MaxPresses \in Nat

Works == {"fWork", "sWork"}
None  == "none"

VARIABLES
  stage,      \* the next call of work_queue_init() or work_queue_exit()
  registered, \* is handler() registered for the interrupt?
  workQueue,  \* "NULL", "live" or "freed"
  inited,     \* the works that INIT_WORK has been applied to
  pending,    \* the works whose pending bit is set
  queue,      \* the queue of each processor
  running,    \* the work each worker executes
  waiting,    \* what flush_workqueue() still waits for
  handler,    \* the work handler() is about to queue
  cpu,        \* the processor it runs on
  port,       \* what inb(0x60) would read, -1 before the first key
  simbol,     \* the code whose name simbol points to, -1 for NULL
  slept,      \* has the running fWork read the port?
  presses,
  heard,      \* ghost: has the loaded module been told of the last key?
  oops

moduleVars == <<stage, registered, workQueue, inited, waiting>>
queueVars  == <<pending, queue, running, slept>>
keyVars    == <<handler, cpu, port, presses, heard>>
vars == <<moduleVars, queueVars, keyVars, simbol, oops>>

\* The module is at one of its calls and every queue holds its works.
TypeOK ==
  /\ stage \in {"out", "create", "free", "initF", "initS", "loaded", "flush",
                "destroy", "drain", "free_irq"}
  /\ registered \in BOOLEAN
  /\ workQueue \in {"NULL", "live", "freed"}
  /\ inited \subseteq Works
  /\ pending \subseteq Works
  /\ queue \in [Cpus -> Seq(Works)]
  /\ running \in [Cpus -> Works \cup {None}]
  /\ waiting \subseteq Works \X {"pending", "running"}
  /\ handler \in Works \cup {None}
  /\ cpu \in Cpus
  /\ port \in Codes \cup {-1}
  /\ simbol \in {code \in Codes : code < 84} \cup {-1}
  /\ slept \in BOOLEAN
  /\ presses \in 0 .. MaxPresses
  /\ heard \in BOOLEAN
  /\ oops \in BOOLEAN

Init ==
  /\ stage = "out"
  /\ registered = FALSE
  /\ workQueue = "NULL"
  /\ inited = {}
  /\ pending = {}
  /\ queue = [k \in Cpus |-> <<>>]
  /\ running = [k \in Cpus |-> None]
  /\ waiting = {}
  /\ handler = None
  /\ cpu \in Cpus
  /\ port = -1
  /\ simbol = -1
  /\ slept = FALSE
  /\ presses = 0
  /\ heard = FALSE
  /\ oops = FALSE

Queued  == {w \in Works : \E k \in Cpus : \E n \in DOMAIN queue[k] : queue[k][n] = w}
Running == {w \in Works : \E k \in Cpus : running[k] = w}
Idle    == Queued = {} /\ Running = {}

-------------------------------------------------------------------------------
(* work_queue_init() *)

\* insmod and request_irq(); without the interrupt nothing is loaded.  The
\* static data of the module are zero.
RequestIrq ==
  /\ stage = "out"
  /\ stage' = "create"
  /\ registered' = TRUE
  /\ workQueue' = "NULL"
  /\ inited' = {}
  /\ pending' = {}
  /\ queue' = [k \in Cpus |-> <<>>]
  /\ simbol' = -1
  /\ heard' = FALSE
  /\ UNCHANGED <<waiting, running, slept, handler, cpu, port, presses, oops>>

\* create_workqueue() succeeds, or does not.
CreateWorkqueue ==
  /\ stage = "create"
  /\ \/ /\ workQueue' = "live"
        /\ stage' = "initF"
     \/ /\ stage' = "free"
        /\ UNCHANGED workQueue
  /\ UNCHANGED <<registered, inited, waiting, queueVars, keyVars, simbol, oops>>

\* Seeded fault of FreeIrq: the interrupt stays registered.
FreeIrqForgotten ==
  /\ stage \in {"free", "free_irq"}
  /\ handler = None
  /\ stage' = "out"
  /\ UNCHANGED <<registered, workQueue, inited, waiting, queueVars, keyVars, simbol, oops>>

\* free_irq() waits for a running handler; the module is gone after it.
FreeIrq ==
  /\ stage \in {"free", "free_irq"}
  /\ handler = None
  /\ registered' = FALSE
  /\ stage' = "out"
  /\ UNCHANGED <<workQueue, inited, waiting, queueVars, keyVars, simbol, oops>>

\* INIT_WORK(&fWork) and INIT_WORK(&sWork) clear the pending bit.
InitWork(w, from, to) ==
  /\ stage = from
  /\ stage' = to
  /\ inited' = inited \cup {w}
  /\ pending' = pending \ {w}
  /\ UNCHANGED <<registered, workQueue, waiting, queue, running, slept, keyVars, simbol, oops>>

-------------------------------------------------------------------------------
(* work_queue_exit() *)

\* flush_workqueue() waits for what is queued or running when it is called.
Flush ==
  /\ stage = "loaded"
  /\ stage' = "flush"
  /\ waiting' = (Queued \X {"pending"}) \cup (Running \X {"running"})
  /\ UNCHANGED <<registered, workQueue, inited, queueVars, keyVars, simbol, oops>>

Flushed ==
  /\ stage = "flush"
  /\ waiting = {}
  /\ stage' = "destroy"
  /\ UNCHANGED <<registered, workQueue, inited, waiting, queueVars, keyVars, simbol, oops>>

\* destroy_workqueue() lets the queues run empty and takes nothing new.
Destroy ==
  /\ stage = "destroy"
  /\ stage' = "drain"
  /\ UNCHANGED <<registered, workQueue, inited, waiting, queueVars, keyVars, simbol, oops>>

Destroyed ==
  /\ stage = "drain"
  /\ Idle
  /\ workQueue' = "freed"
  /\ stage' = "free_irq"
  /\ UNCHANGED <<registered, inited, waiting, queueVars, keyVars, simbol, oops>>

-------------------------------------------------------------------------------
(* handler() *)

\* A key: the controller's byte can be read until the next one comes.
Press(code, k) ==
  /\ registered
  /\ handler = None
  /\ presses < MaxPresses
  /\ presses' = presses + 1
  /\ port' = code
  /\ cpu' = k
  /\ handler' = "fWork"
  /\ heard' = (stage = "loaded")
  /\ UNCHANGED <<moduleVars, queueVars, simbol, oops>>

\* The processor on which queue_work() puts a work.
Target(w) == IF w \in Running THEN CHOOSE k \in Cpus : running[k] = w ELSE cpu

\* The handler goes on to its other work or returns.
Handled == handler' = IF handler = "fWork" THEN "sWork" ELSE None

\* Seeded fault of QueueWork: fWork is not queued while it is running.
QueueWorkUnlessRunning ==
  /\ handler # None
  /\ Handled
  /\ IF /\ workQueue = "live" /\ stage # "drain"
        /\ handler \in inited \ (pending \cup Running)
     THEN /\ queue' = [queue EXCEPT ![Target(handler)] = Append(@, handler)]
          /\ pending' = pending \cup {handler}
     ELSE UNCHANGED <<pending, queue>>
  /\ UNCHANGED <<moduleVars, running, slept, cpu, port, presses, heard, simbol, oops>>

\* queue_work(workQueue, &fWork), then queue_work(workQueue, &sWork).
QueueWork ==
  /\ handler # None
  /\ \/ /\ workQueue = "live"
        /\ Handled
        /\ pending' = pending \cup {handler}
        /\ IF handler \in inited \ pending /\ stage # "drain"
           THEN queue' = [queue EXCEPT ![Target(handler)] = Append(@, handler)]
           ELSE UNCHANGED queue
        /\ UNCHANGED oops
     \/ /\ workQueue # "live"
        /\ oops' = TRUE
        /\ UNCHANGED <<handler, pending, queue>>
  /\ UNCHANGED <<moduleVars, running, slept, cpu, port, presses, heard, simbol>>

-------------------------------------------------------------------------------
(* The workers *)

\* A worker takes the first work of its processor.
Start(k) ==
  /\ running[k] = None
  /\ queue[k] # <<>>
  /\ LET w == Head(queue[k])
     IN  /\ running' = [running EXCEPT ![k] = w]
         /\ pending' = pending \ {w}
         /\ waiting' = IF <<w, "pending">> \in waiting
                       THEN (waiting \ {<<w, "pending">>}) \cup {<<w, "running">>}
                       ELSE waiting
         /\ slept' = IF w = "fWork" THEN FALSE ELSE slept
  /\ queue' = [queue EXCEPT ![k] = Tail(@)]
  /\ UNCHANGED <<stage, registered, workQueue, inited, keyVars, simbol, oops>>

\* queue_functionF() up to msleep(): the last code of the port, if it is the
\* code of a key that was pressed.
ReadPort(k) ==
  /\ running[k] = "fWork"
  /\ ~slept
  /\ slept' = TRUE
  /\ simbol' = IF port < 84 THEN port ELSE simbol
  /\ UNCHANGED <<moduleVars, pending, queue, running, keyVars, oops>>

\* queue_functionF() returns after msleep(10), or queue_functionS().
Return(k) ==
  /\ running[k] # None
  /\ running[k] = "fWork" => slept
  /\ running' = [running EXCEPT ![k] = None]
  /\ waiting' = waiting \ {<<running[k], "running">>}
  /\ UNCHANGED <<stage, registered, workQueue, inited, pending, queue, slept, keyVars, simbol, oops>>

Halted == oops /\ UNCHANGED vars

ModuleStep ==
  \/ CreateWorkqueue \/ FreeIrq
  \/ InitWork("fWork", "initF", "initS") \/ InitWork("sWork", "initS", "loaded")
  \/ Flushed \/ Destroy \/ Destroyed

Next ==
  \/ /\ ~oops
     /\ \/ RequestIrq \/ ModuleStep \/ Flush \/ QueueWork
        \/ \E k \in Cpus : \/ Start(k) \/ ReadPort(k) \/ Return(k)
                           \/ \E code \in Codes : Press(code, k)
  \/ Halted

Spec == Init /\ [][Next]_vars

\* The handler, the workers and a module that is loading or leaving go on.
FairSpec ==
  /\ Spec
  /\ WF_vars(~oops /\ ModuleStep)
  /\ WF_vars(~oops /\ QueueWork)
  /\ \A k \in Cpus : WF_vars(~oops /\ (Start(k) \/ ReadPort(k) \/ Return(k)))

-------------------------------------------------------------------------------
(* Properties *)

\* Keys may come faster than fWork runs, but the last one is never missed: when
\* nothing is left to do, simbol is the key whose code is in the port.  A key
\* pressed before both works are initialised is lost.
LastKeyWins ==
  stage = "loaded" /\ heard /\ Idle /\ handler = None /\ port < 84 => simbol = port

\* Nothing of the module is used once it has left the kernel, or has failed to
\* enter it: no handler, no queued work, and no work that is still asleep.
NothingOutlivesModule ==
  stage = "out" => ~registered /\ handler = None /\ Running = {} /\ Queued = {}

\* rmmod ends, however fast the keys are pressed while it waits, unless one of
\* them comes when the queue has been freed.
UnloadEnds == stage = "flush" ~> (stage = "out" \/ oops)

===============================================================================
