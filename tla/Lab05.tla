-------------------------------- MODULE Lab05 --------------------------------
(***************************************************************************)
(* The programs of laboratory 5 in one behaviour: app2_threads.c, or one   *)
(* of those that pass the file through two buffers.  Each runs alone.      *)
(***************************************************************************)
EXTENDS AlphabetThreads, StdioStreams

VARIABLE threads   \* is it app2_threads.c that is started?

lab05Vars == <<vars, streamVars, threads>>

\* What the other programs would find does not matter to app2_threads.c.
Lab05Init ==
  /\ Init /\ StreamsInit
  /\ threads \in BOOLEAN
  /\ threads => program = "app1" /\ old = <<>>

Lab05Next ==
  /\ UNCHANGED threads
  /\ \/ threads /\ Next /\ UNCHANGED streamVars
     \/ ~threads /\ StreamsNext /\ UNCHANGED vars

AlphabetRuns(A) == threads /\ A /\ UNCHANGED <<streamVars, threads>>
StreamsRun(A)   == ~threads /\ A /\ UNCHANGED <<vars, threads>>

\* The fairness of both specifications, for the program that is started.
Lab05Spec ==
  /\ Lab05Init /\ [][Lab05Next]_lab05Vars
  /\ WF_lab05Vars(AlphabetRuns(CreateThread \/ CreateFails))
  /\ WF_lab05Vars(AlphabetRuns(Join))
  /\ \A t \in Threads : WF_lab05Vars(AlphabetRuns(Step(t)))
  /\ WF_lab05Vars(StreamsRun(MainStep)) /\ WF_lab05Vars(StreamsRun(StreamStep(2)))

\* Every program ends: no thread waits for ever for the mutex or for the other
\* thread, and the loop over two streams ends with the later of them.
EveryProgramEnds == <>(IF threads THEN pc["main"] = "end" ELSE Over)

===============================================================================
