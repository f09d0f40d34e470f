-------------------------------- MODULE Tasklet --------------------------------
(***************************************************************************)
(* Laboratory 9, part 1: a keyboard interrupt that schedules a tasklet,    *)
(* which logs the key; a /proc file that prints the log; and the module    *)
(* that loads and unloads them.                                            *)
(*                                                                         *)
(* The kernel is modelled from how the code uses it.  tasklet_schedule()   *)
(* does nothing while the SCHED bit is set; the bit is cleared before the  *)
(* function runs, which never runs twice at a time.  tasklet_kill() takes  *)
(* the bit, waits for a running function and gives the bit back.  A use of *)
(* memory or text that has been freed is a fault, after which nothing is   *)
(* said about the system.                                                  *)
(***************************************************************************)
EXTENDS Integers, Sequences, FiniteSets

CONSTANTS
  Keys,     \* scan codes; from 84 on they are no keys of the table
  POS_MAX,  \* the entries of simbol
  MaxKeys   \* bound: the number of interrupts

ASSUME TaskletAssumption == Keys \subseteq Nat /\ POS_MAX \in Nat \ {0} /\ MaxKeys \in Nat

NULL == -1

VARIABLES
  step,       \* the next call of my_tasklet_init() or my_tasklet_exit()
  irq, entry, \* is my_handler() registered, is the /proc file there?
  my_tasklet, \* its memory: "none", "live" or "freed"
  sched,      \* the SCHED bit: "no", "queued", or "taken" by tasklet_kill()
  func,       \* where my_tasklet_function() is: "no", "begun" or "read"
  code,       \* what it has read
  log,        \* the array simbol
  pos_simbol,
  i, shown,   \* the loop of f(), NULL outside, and what it has printed
  calm,       \* ghost: has nothing been logged since f() began?
  key,        \* what inb(0x60) would read
  told,       \* ghost: did my_handler() hear of this key?
  keys,       \* how many were pressed
  dangling,   \* what failed loads have left behind
  late,       \* ghost: did a key come after tasklet_kill(), or a reader after kfree()?
  fault

loadVars == <<step, irq, entry, my_tasklet, dangling>>
runVars  == <<sched, func, code, log, pos_simbol>>
readVars == <<i, shown, calm>>
kbdVars  == <<key, told, keys, late>>
taskletVars == <<loadVars, runVars, readVars, kbdVars, fault>>

TaskletTypeOK ==
  /\ step \in {"out", "irq", "proc", "loaded", "kill", "wait", "kfree", "free_irq", "remove"}
  /\ irq \in BOOLEAN /\ entry \in BOOLEAN /\ calm \in BOOLEAN
  /\ told \in BOOLEAN /\ late \in BOOLEAN /\ fault \in BOOLEAN
  /\ my_tasklet \in {"none", "live", "freed"}
  /\ sched \in {"no", "queued", "taken"}
  /\ func \in {"no", "begun", "read"}
  /\ code \in Keys \cup {NULL} /\ key \in Keys \cup {NULL}
  /\ log \in [0 .. POS_MAX - 1 -> Keys \cup {NULL}]
  /\ pos_simbol \in 0 .. POS_MAX
  /\ i \in {NULL} \cup 0 .. POS_MAX + 1
  /\ shown \in Seq(Keys \cup {NULL})
  /\ keys \in 0 .. MaxKeys
  /\ dangling \subseteq {"handler", "file"}

TaskletInit ==
  /\ step = "out" /\ irq = FALSE /\ entry = FALSE /\ my_tasklet = "none" /\ dangling = {}
  /\ sched = "no" /\ func = "no" /\ code = NULL
  /\ log = [n \in 0 .. POS_MAX - 1 |-> NULL] /\ pos_simbol = 0
  /\ i = NULL /\ shown = <<>> /\ calm = TRUE
  /\ key = NULL /\ told = FALSE /\ keys = 0 /\ late = FALSE
  /\ fault = FALSE

-------------------------------------------------------------------------------
(* my_tasklet_init() *)

\* insmod, kmalloc() and tasklet_init(); the module's data are zero.
Alloc ==
  /\ step = "out" /\ sched = "no" /\ func = "no" /\ i = NULL
  /\ step' = "irq"
  /\ my_tasklet' = "live"
  /\ log' = [n \in 0 .. POS_MAX - 1 |-> NULL]
  /\ pos_simbol' = 0
  /\ told' = FALSE
  /\ UNCHANGED <<irq, entry, dangling, sched, func, code, readVars, key, keys, late, fault>>

\* request_irq(), whose result is kept for the end.
RequestHandler ==
  /\ step = "irq"
  /\ step' = "proc"
  /\ irq' \in BOOLEAN
  /\ UNCHANGED <<entry, my_tasklet, dangling, runVars, readVars, kbdVars, fault>>

\* proc_create(), tried even without the interrupt.  It fails when the name is
\* taken.  A load that fails here or after it leaves what it has registered.
ProcCreate ==
  /\ step = "proc"
  /\ \E created \in BOOLEAN :
       /\ created => "file" \notin dangling
       /\ IF created /\ irq
          THEN /\ step' = "loaded" /\ entry' = TRUE
               /\ UNCHANGED <<irq, my_tasklet, dangling>>
          ELSE /\ step' = "out" /\ irq' = FALSE /\ my_tasklet' = "none"
               /\ dangling' = dangling \cup {x \in {"handler"} : irq} \cup {x \in {"file"} : created}
               /\ UNCHANGED entry
  /\ UNCHANGED <<runVars, readVars, kbdVars, fault>>

-------------------------------------------------------------------------------
(* my_tasklet_exit() *)

Moves(from, to) == step = from /\ step' = to

\* rmmod, and synchronize_irq(): the handler runs in one piece here.
Rmmod ==
  /\ Moves("loaded", "kill")
  /\ UNCHANGED <<irq, entry, my_tasklet, dangling, runVars, readVars, kbdVars, fault>>

\* tasklet_kill() waits for a scheduled tasklet and takes its bit ...
KillTakes ==
  /\ Moves("kill", "wait")
  /\ sched = "no"
  /\ sched' = "taken"
  /\ UNCHANGED <<irq, entry, my_tasklet, dangling, func, code, log, pos_simbol, readVars, kbdVars, fault>>

\* Seeded fault of KillWaits: the running function is not waited for.
KillWaitsNot ==
  /\ Moves("wait", "kfree")
  /\ sched' = "no"
  /\ UNCHANGED <<irq, entry, my_tasklet, dangling, func, code, log, pos_simbol, readVars, kbdVars, fault>>

\* ... and waits for a running one.
KillWaits ==
  /\ Moves("wait", "kfree")
  /\ func = "no"
  /\ sched' = "no"
  /\ UNCHANGED <<irq, entry, my_tasklet, dangling, func, code, log, pos_simbol, readVars, kbdVars, fault>>

Kfree ==
  /\ Moves("kfree", "free_irq")
  /\ my_tasklet' = "freed"
  /\ UNCHANGED <<irq, entry, dangling, runVars, readVars, kbdVars, fault>>

FreeHandler ==
  /\ Moves("free_irq", "remove")
  /\ irq' = FALSE
  /\ UNCHANGED <<entry, my_tasklet, dangling, runVars, readVars, kbdVars, fault>>

\* remove_proc_entry() waits for a reader inside f().
RemoveEntry ==
  /\ Moves("remove", "out")
  /\ i = NULL
  /\ entry' = FALSE
  /\ UNCHANGED <<irq, my_tasklet, dangling, runVars, readVars, kbdVars, fault>>

-------------------------------------------------------------------------------
(* The keyboard, my_handler() and my_tasklet_function() *)

\* tasklet_schedule(), while the handler is registered.
Scheduled == IF irq /\ sched = "no" THEN "queued" ELSE sched

\* A key: my_handler() reads the tasklet's state and schedules it.
KeyIrq(k) ==
  /\ keys < MaxKeys
  /\ keys' = keys + 1
  /\ key' = k
  /\ told' = irq
  /\ fault' = ("handler" \in dangling \/ (irq /\ my_tasklet # "live"))
  /\ sched' = Scheduled
  /\ late' = (late \/ (irq /\ step \in {"kfree", "free_irq"}))
  /\ UNCHANGED <<loadVars, func, code, log, pos_simbol, readVars>>

\* The text of the module, and the tasklet, are still there.
Usable == step # "out" /\ my_tasklet = "live"

\* Seeded fault of Begin: the bit stays, and the function runs again.
BeginKeepsBit ==
  /\ sched = "queued" /\ func = "no"
  /\ fault' = ~Usable
  /\ func' = "begun"
  /\ UNCHANGED <<loadVars, sched, code, log, pos_simbol, readVars, kbdVars>>

\* The softirq clears the bit and calls the function.
Begin ==
  /\ sched = "queued" /\ func = "no"
  /\ fault' = ~Usable
  /\ sched' = "no"
  /\ func' = "begun"
  /\ UNCHANGED <<loadVars, code, log, pos_simbol, readVars, kbdVars>>

Inb ==
  /\ func = "begun"
  /\ fault' = ~Usable
  /\ func' = "read"
  /\ code' = key
  /\ UNCHANGED <<loadVars, sched, log, pos_simbol, readVars, kbdVars>>

\* The key is logged; in a full log it is dropped, and the log starts again.
Log ==
  /\ func = "read"
  /\ fault' = ~Usable
  /\ func' = "no"
  /\ CASE code >= 84 -> UNCHANGED <<log, pos_simbol, calm>>
       [] code < 84 /\ pos_simbol < POS_MAX ->
            /\ log' = [log EXCEPT ![pos_simbol] = code]
            /\ pos_simbol' = pos_simbol + 1
            /\ calm' = FALSE
       [] OTHER -> pos_simbol' = 0 /\ calm' = FALSE /\ UNCHANGED log
  /\ UNCHANGED <<loadVars, sched, code, i, shown, kbdVars>>

-------------------------------------------------------------------------------
(* f(), behind the /proc file *)

\* f() first reads my_tasklet->count.  Until remove_proc_entry() is called the file
\* lets readers in, and the file that a failed load has left leads into freed text.
OpenLog ==
  /\ i = NULL
  /\ entry \/ "file" \in dangling
  /\ fault' = (~entry \/ my_tasklet # "live")
  /\ late' = (late \/ (entry /\ step \in {"free_irq", "remove"}))
  /\ i' = 0 /\ shown' = <<>> /\ calm' = TRUE
  /\ UNCHANGED <<loadVars, runVars, key, told, keys>>

\* Seeded fault of EntryAt: i is counted up before the entry is printed.
EntryAtNext(n) == IF n + 1 < POS_MAX THEN log[n + 1] ELSE NULL

\* simbol[n]; what lies behind the array is as good as nothing.
EntryAt(n) == IF n < POS_MAX THEN log[n] ELSE NULL

\* pos_simbol is read again for every entry, and its own entry is printed too.
Show ==
  /\ i # NULL /\ i <= pos_simbol
  /\ shown' = Append(shown, EntryAt(i))
  /\ i' = i + 1
  /\ UNCHANGED <<loadVars, runVars, calm, kbdVars, fault>>

EndOfLog ==
  /\ i > pos_simbol
  /\ i' = NULL /\ shown' = <<>>
  /\ UNCHANGED <<loadVars, runVars, calm, kbdVars, fault>>

-------------------------------------------------------------------------------
LoadStep   == Alloc \/ Rmmod
ModuleMoves == RequestHandler \/ ProcCreate \/ KillTakes \/ KillWaits \/ Kfree \/ FreeHandler \/ RemoveEntry
SoftIrq    == Begin \/ Inb \/ Log
Reading    == Show \/ EndOfLog

TaskletNext ==
  \/ /\ ~fault
     /\ LoadStep \/ ModuleMoves \/ SoftIrq \/ Reading \/ OpenLog \/ \E k \in Keys : KeyIrq(k)
  \/ fault /\ UNCHANGED taskletVars

\* A load or unload that has begun, the softirqs and a reader go on.
TaskletSpec ==
  /\ TaskletInit /\ [][TaskletNext]_taskletVars
  /\ WF_taskletVars(~fault /\ ModuleMoves)
  /\ WF_taskletVars(~fault /\ SoftIrq)
  /\ WF_taskletVars(~fault /\ Reading)

-------------------------------------------------------------------------------
(* Properties *)

\* Keys may come faster than the tasklet runs, but the last one is never missed:
\* when nothing is left to do it is the last of the log, or the one for which a
\* full log was started again.
LastKeyLogged ==
  step = "loaded" /\ ~fault /\ told /\ sched = "no" /\ func = "no" /\ key < 84 =>
    IF pos_simbol > 0 THEN log[pos_simbol - 1] = key ELSE log[POS_MAX - 1] # NULL

\* Freed memory is used only because of a key between tasklet_kill() and
\* free_irq(), of a reader that enters f() between kfree() and remove_proc_entry(),
\* or after a load that failed half-way: a tasklet that is scheduled or running when
\* rmmod comes, and a reader that is inside f() by then, are waited for.
FreedOnlyByLatecomers == fault => late \/ dangling # {}

\* A reader that nothing is logged under gets the whole log, and one entry more
\* that belongs to no key of it.
ReaderShowsLog ==
  i > pos_simbol /\ calm =>
    /\ Len(shown) = pos_simbol + 1
    /\ \A n \in 1 .. pos_simbol : shown[n] = log[n - 1]

\* rmmod ends, however many keys are pressed and readers come.
RmmodEnds == step = "kill" ~> (step = "out" \/ fault)

===============================================================================
