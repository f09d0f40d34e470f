----------------------------- MODULE SelectServer -----------------------------
(***************************************************************************)
(* Laboratory 8, part 2: the server that multiplexes its clients with      *)
(* select() (server.c) and the clients that send it one number after the   *)
(* other and wait for each answer (client.c).                              *)
(*                                                                         *)
(* TCP is modelled from how the two programs use it: a client's request    *)
(* and the server's answer are one segment each, in order; a client that   *)
(* ends sends FIN, or RST when an answer lies unread in its socket; a      *)
(* segment sent to a client that is gone is answered with RST.  What the   *)
(* user types does not matter to the control flow: a request is known by   *)
(* its client.                                                             *)
(***************************************************************************)
EXTENDS Integers, Sequences, FiniteSets

CONSTANTS
  Clients,        \* the client processes, each with its one connection
  None,           \* no client: a 0 in arr_sock, or a buf nothing was received in
  MAX_COUNT_SOCK,
  Backlog,        \* connections the kernel holds for accept(): listen(sock, 1)
  MaxOpens        \* bound: how many connections a descriptor table may hold

ASSUME SelectAssumption ==
  /\ None \notin Clients
  /\ ({MAX_COUNT_SOCK, Backlog} \cup MaxOpens) \subseteq Nat \ {0}

Slots == 1 .. MAX_COUNT_SOCK

VARIABLES
  client,   \* where each client is in main()
  owed,     \* the requests a client has sent less the answers sent to it
  unread,   \* is an answer waiting in the client's socket?
  backlog,  \* connected clients that wait for accept()
  inq,      \* is a request waiting in the server's socket?
  fin, rst, \* has the client's FIN, its RST arrived?
  pc,       \* the server's next call
  arr_sock, \* the client of each slot
  lost,     \* accepted clients that no slot had room for
  set,      \* what select() has found readable
  i,        \* the slot of the scan
  buf,      \* whose request the server's buf holds
  maxOpen   \* the connections the server's descriptor table holds (ulimit -n)

clientVars == <<client, unread>>
wireVars   == <<backlog, inq, fin, rst>>
serverVars == <<pc, arr_sock, lost, set, i, buf, maxOpen>>
vars == <<clientVars, owed, wireVars, serverVars>>

\* In the set of select() the listening socket is written as None.
TypeOK ==
  /\ client \in [Clients -> {"off", "prompt", "wait", "gone"}]
  /\ owed \in [Clients -> Int]
  /\ unread \in [Clients -> BOOLEAN]
  /\ backlog \in Seq(Clients)
  /\ inq \in [Clients -> BOOLEAN]
  /\ fin \in [Clients -> BOOLEAN]
  /\ rst \in [Clients -> BOOLEAN]
  /\ pc \in {"select", "accept", "scan", "send", "dead"}
  /\ arr_sock \in [Slots -> Clients \cup {None}]
  /\ lost \subseteq Clients
  /\ set \subseteq Clients \cup {None}
  /\ i \in 1 .. MAX_COUNT_SOCK + 1
  /\ buf \in Clients \cup {None}
  /\ maxOpen \in MaxOpens

Init ==
  /\ client = [c \in Clients |-> "off"]
  /\ owed = [c \in Clients |-> 0]
  /\ unread = [c \in Clients |-> FALSE]
  /\ backlog = <<>>
  /\ inq = [c \in Clients |-> FALSE]
  /\ fin = [c \in Clients |-> FALSE]
  /\ rst = [c \in Clients |-> FALSE]
  /\ pc = "select"
  /\ arr_sock = [s \in Slots |-> None]
  /\ lost = {}
  /\ set = {}
  /\ i = 1
  /\ buf = None
  /\ maxOpen \in MaxOpens

Served == {arr_sock[s] : s \in Slots} \ {None}
Dead   == pc = "dead"

\* A recv() on the connection returns at once.
Readable(c) == inq[c] \/ fin[c] \/ rst[c]

-------------------------------------------------------------------------------
(* client.c *)

\* socket() and connect(): it waits while the backlog is full.
Connect(c) ==
  /\ client[c] = "off"
  /\ ~Dead
  /\ Len(backlog) < Backlog
  /\ client' = [client EXCEPT ![c] = "prompt"]
  /\ backlog' = Append(backlog, c)
  /\ UNCHANGED <<unread, owed, inq, fin, rst, serverVars>>

\* The user types, the client sends.  Towards a server that has ended the
\* request is lost.
Send(c) ==
  /\ client[c] = "prompt"
  /\ client' = [client EXCEPT ![c] = "wait"]
  /\ IF Dead THEN UNCHANGED <<inq, owed>>
             ELSE /\ inq' = [inq EXCEPT ![c] = TRUE]
                  /\ owed' = [owed EXCEPT ![c] = @ + 1]
  /\ UNCHANGED <<unread, backlog, fin, rst, serverVars>>

\* recv() of the answer; after the end of the server it returns without one,
\* and the client prints what is in bufServer and goes on.
Receive(c) ==
  /\ client[c] = "wait"
  /\ unread[c] \/ Dead
  /\ client' = [client EXCEPT ![c] = "prompt"]
  /\ unread' = [unread EXCEPT ![c] = FALSE]
  /\ UNCHANGED <<owed, wireVars, serverVars>>

\* The client is killed, or dies of SIGPIPE when it sends to a server that has
\* ended.
End(c) ==
  /\ client[c] \in {"prompt", "wait"}
  /\ client' = [client EXCEPT ![c] = "gone"]
  /\ unread' = [unread EXCEPT ![c] = FALSE]
  /\ IF unread[c] THEN rst' = [rst EXCEPT ![c] = TRUE] /\ UNCHANGED fin
                  ELSE fin' = [fin EXCEPT ![c] = TRUE] /\ UNCHANGED rst
  /\ UNCHANGED <<owed, backlog, inq, serverVars>>

-------------------------------------------------------------------------------
(* server.c: one round of the loop is select(), at most one accept() and a *)
(* scan of all slots.                                                      *)

\* select() blocks until the listening socket or a stored one is readable.
Select ==
  /\ pc = "select"
  /\ set' = {c \in Served : Readable(c)} \cup {x \in {None} : backlog # <<>>}
  /\ set' # {}
  /\ pc' = "accept"
  /\ UNCHANGED <<clientVars, wireVars, arr_sock, lost, i, buf, owed, maxOpen>>

\* The scan begins with the first slot.
StartScan == pc' = "scan" /\ i' = 1

\* Seeded fault of Store: the flag is not cleared, so every free slot gets the
\* new socket.
StoreInEverySlot(c) ==
  /\ arr_sock' = [s \in Slots |-> IF arr_sock[s] = None THEN c ELSE arr_sock[s]]
  /\ UNCHANGED lost

\* Seeded fault of Store: a client without a slot takes the place of another.
StoreOverLast(c) ==
  LET free == {s \in Slots : arr_sock[s] = None} \cup {MAX_COUNT_SOCK}
  IN  /\ arr_sock' = [arr_sock EXCEPT ![CHOOSE s \in free : \A t \in free : s <= t] = c]
      /\ UNCHANGED lost

\* The first free slot gets the connection; without one it is forgotten.
Store(c) ==
  LET free == {s \in Slots : arr_sock[s] = None}
  IN  IF free = {} THEN /\ lost' = lost \cup {c}
                        /\ UNCHANGED arr_sock
      ELSE /\ arr_sock' = [arr_sock EXCEPT ![CHOOSE s \in free : \A t \in free : s <= t] = c]
           /\ UNCHANGED lost

\* accept() of one new client, if there is one.  A client that finds all slots
\* taken stays connected and is forgotten.
Accept ==
  /\ pc = "accept"
  /\ \/ /\ None \notin set
        /\ UNCHANGED <<backlog, arr_sock, lost, maxOpen>>
     \/ /\ None \in set
        /\ Cardinality(Served \cup lost) < maxOpen
        /\ backlog' = Tail(backlog)
        /\ Store(Head(backlog))
  /\ StartScan
  /\ UNCHANGED <<clientVars, owed, inq, fin, rst, set, buf, maxOpen>>

\* accept() fails when the descriptor table is full; the server returns -1.
AcceptFails ==
  /\ pc = "accept"
  /\ None \in set
  /\ Cardinality(Served \cup lost) >= maxOpen
  /\ pc' = "dead"
  /\ UNCHANGED <<clientVars, wireVars, arr_sock, lost, set, i, buf, owed, maxOpen>>

\* Seeded fault of LastSlot: the scan ends before the last slot.
LastSlotShort == MAX_COUNT_SOCK - 1

\* The end of the scan: the loops count to MAX_COUNT_SOCK.
LastSlot == MAX_COUNT_SOCK

\* Is there something to do in slot i?
InSet == i <= LastSlot /\ arr_sock[i] # None /\ arr_sock[i] \in set

\* The next slot.
SkipSlot ==
  /\ pc = "scan"
  /\ ~InSet
  /\ IF i <= LastSlot THEN i' = i + 1 /\ UNCHANGED pc
                    ELSE pc' = "select" /\ i' = 1
  /\ UNCHANGED <<clientVars, wireVars, arr_sock, lost, set, buf, owed, maxOpen>>

\* recv() returns a request: rv > 0.
RecvRequest ==
  /\ pc = "scan"
  /\ InSet
  /\ inq[arr_sock[i]]
  /\ inq' = [inq EXCEPT ![arr_sock[i]] = FALSE]
  /\ buf' = arr_sock[i]
  /\ pc' = "send"
  /\ UNCHANGED <<clientVars, backlog, fin, rst, arr_sock, lost, set, i, owed, maxOpen>>

\* Seeded fault of RecvEnd: 0 is taken for data, as any other value.
RecvEndAnswered ==
  /\ pc = "scan"
  /\ InSet
  /\ ~inq[arr_sock[i]]
  /\ fin[arr_sock[i]]
  /\ pc' = "send"
  /\ UNCHANGED <<clientVars, wireVars, arr_sock, lost, set, i, buf, owed, maxOpen>>

\* recv() returns 0, also when a RST has followed the FIN: close() and a free
\* slot.
RecvEnd ==
  /\ pc = "scan"
  /\ InSet
  /\ ~inq[arr_sock[i]]
  /\ fin[arr_sock[i]]
  /\ arr_sock' = [arr_sock EXCEPT ![i] = None]
  /\ i' = i + 1
  /\ UNCHANGED <<clientVars, wireVars, pc, lost, set, buf, owed, maxOpen>>

\* recv() fails with ECONNRESET: the code takes every rv but 0 for a request,
\* and works on what buf holds from before.
RecvError ==
  /\ pc = "scan"
  /\ InSet
  /\ ~inq[arr_sock[i]]
  /\ ~fin[arr_sock[i]]
  /\ rst[arr_sock[i]]
  /\ pc' = "send"
  /\ UNCHANGED <<clientVars, wireVars, arr_sock, lost, set, i, buf, owed, maxOpen>>

\* Seeded fault of Addressee: the answer goes to the client in the first slot.
AddresseeFirst == IF arr_sock[1] # None THEN arr_sock[1] ELSE arr_sock[i]

\* Whom the answer goes to.
Addressee == arr_sock[i]

\* The result is printed and the server's pid is sent.  A client that is gone
\* answers with RST.
Answer ==
  /\ pc = "send"
  /\ LET c == Addressee
     IN  /\ ~rst[c]
         /\ owed' = [owed EXCEPT ![c] = @ - 1]
         /\ unread' = [unread EXCEPT ![c] = client[c] # "gone"]
         /\ rst' = [rst EXCEPT ![c] = client[c] = "gone"]
  /\ pc' = "scan"
  /\ i' = i + 1
  /\ UNCHANGED <<client, backlog, inq, fin, arr_sock, lost, set, buf, maxOpen>>

\* send() on a connection that was reset raises SIGPIPE, which nobody handles.
SigPipe ==
  /\ pc = "send"
  /\ rst[Addressee]
  /\ pc' = "dead"
  /\ UNCHANGED <<clientVars, wireVars, arr_sock, lost, set, i, buf, owed, maxOpen>>

Server ==
  \/ Select \/ Accept \/ AcceptFails \/ SkipSlot
  \/ RecvRequest \/ RecvEnd \/ RecvError \/ Answer \/ SigPipe

Next ==
  \/ Server
  \/ \E c \in Clients : Connect(c) \/ Send(c) \/ Receive(c) \/ End(c)

Spec == Init /\ [][Next]_vars

\* The server process is scheduled; the clients and their users need not be.
FairSpec == Spec /\ WF_vars(Server)

-------------------------------------------------------------------------------
(* Properties *)

\* The server never waits for one client: when it calls recv() the socket is
\* readable, although set is as old as the select() of the round and accept()
\* has changed arr_sock since.
RecvNeverBlocks == pc = "scan" /\ InSet => Readable(arr_sock[i])

\* A client has at most one slot, and an accepted client that has not been
\* closed is in a slot or among the lost.
OneSlotEach ==
  /\ \A s, t \in Slots : arr_sock[s] = arr_sock[t] /\ arr_sock[s] # None => s = t
  /\ Served \cap lost = {}
  /\ ~Dead => \A c \in Clients :
       client[c] \in {"prompt", "wait"} =>
         c \in Served \cup lost \cup {backlog[n] : n \in DOMAIN backlog}

\* No request is lost and none is answered twice: while client and server are
\* there, a client that waits has its request under way, or its answer.
AnswersMatchRequests ==
  \A c \in Clients :
    /\ owed[c] >= 0
    /\ client[c] = "wait" /\ ~Dead =>
         \/ owed[c] = 0 /\ unread[c]
         \/ /\ owed[c] = 1
            /\ \/ inq[c]
               \/ pc = "send" /\ arr_sock[i] = c

\* What the server prints about a client was sent by this client, except after
\* a reset connection, when it is what another one sent before.
PrintsOwnRequest ==
  pc = "send" => buf = arr_sock[i] \/ rst[arr_sock[i]]

\* Only a client that ends with an unread answer, or a full descriptor table,
\* takes the server down: the answer to a client that is already gone does not.
DiesOnlyOfResetOrFullTable ==
  Dead => \/ \E c \in Served : rst[c] /\ ~fin[c]
          \/ Cardinality(Served \cup lost) >= maxOpen

\* Whatever the others send meanwhile, a client in a slot gets the server's
\* attention: its request is taken, and the slot of one that has ended is freed.
EverySlotIsServed ==
  \A c \in Clients : (c \in Served /\ Readable(c)) ~> (~Readable(c) \/ c \notin Served \/ Dead)

===============================================================================
