-------------------------------- MODULE Lab08 --------------------------------
(***************************************************************************)
(* The two client-server programs of laboratory 8 in one behaviour: either *)
(* the select() server and its clients run, or the AF_UNIX servers and     *)
(* theirs.  Neither touches what the other one uses.                       *)
(***************************************************************************)
EXTENDS SelectServer, UnixServer

VARIABLE part   \* which of the two is started

lab08Vars == <<vars, unixVars, part>>

Lab08Init ==
  /\ Init /\ UnixInit
  /\ part \in {1, 2}
  \* The limit of the part that is not started does not matter.
  /\ part = 1 => maxOpen = CHOOSE m \in MaxOpens : TRUE
  /\ part = 2 => limit = CHOOSE m \in Limits : TRUE

Lab08Next ==
  /\ UNCHANGED part
  /\ \/ part = 1 /\ UnixNext /\ UNCHANGED vars
     \/ part = 2 /\ Next /\ UNCHANGED unixVars

\* The fairness of FairSpec and of UnixSpec, for the part that is started.
Lab08Spec ==
  /\ Lab08Init /\ [][Lab08Next]_lab08Vars
  /\ WF_lab08Vars(part = 2 /\ Server /\ UNCHANGED <<unixVars, part>>)
  /\ \A s \in Servers : WF_lab08Vars(part = 1 /\ ServerStep(s) /\ UNCHANGED <<vars, part>>)
  /\ \A c \in Peers : WF_lab08Vars(part = 1 /\ ClientStep(c) /\ UNCHANGED <<vars, part>>)

-------------------------------------------------------------------------------
(* Properties of both parts *)

\* A server prints what the client it is serving has sent, never what buf still
\* holds of an earlier one, although part 1 does not look at what recv() returned
\* and part 2 takes its error for data.
PrintsOwnText == PrintsOwnRequest /\ PrintsOwnMessage

\* A client that is in a slot, or connected, is served, however many others come
\* and go, unless a process was stopped or a table is full.
ClientsAreServed == EverySlotIsServed /\ EveryClientIsAnswered

===============================================================================
