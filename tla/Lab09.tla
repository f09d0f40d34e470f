-------------------------------- MODULE Lab09 --------------------------------
(***************************************************************************)
(* The two modules of laboratory 9 in one behaviour: the workqueue or the  *)
(* tasklet is loaded.  They share no data, only the interrupt line.        *)
(***************************************************************************)
EXTENDS WorkQueue, Tasklet

VARIABLE part   \* which of the two is used

lab09Vars == <<vars, taskletVars, part>>

\* The processor of WorkQueue's first interrupt does not matter to the tasklet.
Lab09Init ==
  /\ Init /\ TaskletInit
  /\ part \in {1, 2}
  /\ part = 1 => cpu = CHOOSE k \in Cpus : TRUE

Part1(A) == part = 1 /\ A /\ UNCHANGED <<vars, part>>
Part2(A) == part = 2 /\ A /\ UNCHANGED <<taskletVars, part>>

Lab09Next == Part1(TaskletNext) \/ Part2(Next)

\* The fairness of both specifications, for the module that is used.
Lab09Spec ==
  /\ Lab09Init /\ [][Lab09Next]_lab09Vars
  /\ WF_lab09Vars(Part1(~fault /\ ModuleMoves))
  /\ WF_lab09Vars(Part1(~fault /\ SoftIrq))
  /\ WF_lab09Vars(Part1(~fault /\ Reading))
  /\ WF_lab09Vars(Part2(~oops /\ ModuleStep))
  /\ WF_lab09Vars(Part2(~oops /\ QueueWork))
  /\ \A k \in Cpus : WF_lab09Vars(Part2(~oops /\ (Start(k) \/ ReadPort(k) \/ Return(k))))

-------------------------------------------------------------------------------
(* Properties of both parts *)

\* Interrupts may come faster than the deferred work runs and be dropped while it
\* is pending, but the last key is never missed.
LastKeySeen == LastKeyWins /\ LastKeyLogged

\* rmmod ends, however many keys are pressed.
ModulesUnload == UnloadEnds /\ RmmodEnds

===============================================================================
