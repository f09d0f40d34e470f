------------------------------ MODULE Lab08Proofs ------------------------------
(***************************************************************************)
(* Proofs about the two client-server programs of laboratory 8, for every  *)
(* number of clients, servers, slots, backlogs and descriptors: the        *)
(* select() server waits for nobody, answers every request once and prints *)
(* what its client sent; the name of the AF_UNIX socket follows the server *)
(* that has it.                                                            *)
(***************************************************************************)
EXTENDS Lab08, WellFoundedInduction, TLAPS

\* A set of natural numbers that is not empty has a least one: what the loop that
\* looks for a free slot finds.
LEMMA Least ==
  ASSUME NEW T, T \subseteq Nat, T # {}
  PROVE  \E x \in T : \A y \in T : x <= y
<1> DEFINE R == {ss \in Nat \X Nat : ss[1] < ss[2]}
<1>1. IsWellFoundedOn(R, Nat)
  BY NatLessThanWellFounded, Zenon DEF OpToRel
<1>2. PICK x \in T : \A y \in T : <<y, x>> \notin R
  <2> HIDE DEF R
  <2> QED BY <1>1, WFMin
<1>3. \A y \in T : ~(y < x)
  BY <1>2
<1> QED
  BY <1>3

-------------------------------------------------------------------------------
(* The select() server: its inductive invariant *)

\* The server is between recv() and send() of client c.
Sending(c) == pc = "send" /\ arr_sock[i] = c

\* A client is in one slot at most, and then not among the lost.
SlotsInv ==
  /\ \A s, t \in Slots : arr_sock[s] = arr_sock[t] /\ arr_sock[s] # None => s = t
  /\ \A s \in Slots : arr_sock[s] \notin lost

\* A client that waits for accept() does so once and is nowhere else.
QueueInv ==
  /\ \A m, n \in 1 .. Len(backlog) : backlog[m] = backlog[n] => m = n
  /\ \A n \in 1 .. Len(backlog) :
       /\ backlog[n] \notin lost
       /\ client[backlog[n]] # "off"
       /\ \A s \in Slots : arr_sock[s] # backlog[n]

\* A client that has not called connect() is not known to the server.
OffInv ==
  \A c \in Clients : client[c] = "off" => c \notin lost /\ \A s \in Slots : arr_sock[s] # c

\* A connected client is in a slot, lost, or in the backlog.
PresentInv ==
  ~Dead => \A c \in Clients : client[c] \in {"prompt", "wait"} =>
       \/ \E s \in Slots : arr_sock[s] = c
       \/ c \in lost
       \/ \E n \in 1 .. Len(backlog) : backlog[n] = c

\* A request is in one place: in the server's socket, between recv() and send(),
\* or it has become the answer in the client's socket.  FIN and RST come from
\* clients that are gone, and RST never while a request waits.
RequestInv(c) ==
  /\ owed[c] \in 0 .. 1
  /\ rst[c] \/ fin[c] => client[c] = "gone"
  /\ client[c] = "off" => ~inq[c] /\ owed[c] = 0
  /\ unread[c] => ~inq[c] /\ owed[c] = 0 /\ client[c] = "wait"
  /\ inq[c] => owed[c] = 1 /\ ~rst[c]
  /\ ~Dead /\ client[c] = "prompt" => owed[c] = 0
  /\ ~Dead /\ client[c] = "wait" => \/ owed[c] = 0 /\ unread[c]
                                    \/ owed[c] = 1 /\ (inq[c] \/ Sending(c))
RequestsInv == \A c \in Clients : RequestInv(c)

\* Between recv() and send() the slot has its client, and the request in buf is
\* this client's unless recv() has failed.
SendInv ==
  pc = "send" =>
    /\ i \in Slots
    /\ arr_sock[i] \in Clients
    /\ ~inq[arr_sock[i]]
    /\ \/ rst[arr_sock[i]] /\ ~fin[arr_sock[i]]
       \/ /\ ~rst[arr_sock[i]] /\ owed[arr_sock[i]] = 1 /\ buf = arr_sock[i]
          /\ client[arr_sock[i]] \in {"wait", "gone"}

\* What select() found stays readable until the scan has been there, and what
\* accept() puts into a slot is not in the set.
ScanInv ==
  /\ pc = "accept" =>
       /\ \A c \in set \ {None} : Readable(c) /\ \E s \in Slots : arr_sock[s] = c
       /\ None \in set => backlog # <<>>
  /\ pc \in {"scan", "send"} =>
       \A s \in Slots :
         (s > i \/ (s = i /\ pc = "scan")) /\ arr_sock[s] # None /\ arr_sock[s] \in set =>
            Readable(arr_sock[s])

\* A dead server keeps the reason of its end.
DeadInv ==
  Dead => \/ \E s \in Slots : arr_sock[s] \in Clients /\ rst[arr_sock[s]] /\ ~fin[arr_sock[s]]
          \/ Cardinality(Served \cup lost) >= maxOpen

SelectInv ==
  /\ TypeOK /\ SlotsInv /\ QueueInv /\ OffInv /\ PresentInv
  /\ RequestsInv /\ SendInv /\ ScanInv /\ DeadInv

\* The table of sockets has a place.
LEMMA SlotCount == MAX_COUNT_SOCK \in Nat /\ MAX_COUNT_SOCK > 0
  BY SelectAssumption

\* The invariant holds before the select() server binds its socket.
LEMMA SelectInit == Init => SelectInv
<1> SUFFICES ASSUME Init PROVE SelectInv
  OBVIOUS
<1>1. TypeOK
  BY SlotCount DEF Init, TypeOK
<1>2. SlotsInv /\ OffInv /\ PresentInv
  BY SelectAssumption DEF Init, SlotsInv, OffInv, PresentInv
<1>3. QueueInv
  BY DEF Init, QueueInv
<1>4. RequestsInv
  BY DEF Init, RequestsInv, RequestInv
<1>5. SendInv /\ ScanInv /\ DeadInv
  BY DEF Init, SendInv, ScanInv, DeadInv, Dead
<1> QED
  BY <1>1, <1>2, <1>3, <1>4, <1>5 DEF SelectInv

-------------------------------------------------------------------------------
(* The select() server: one lemma per action *)

\* socket() and connect(): the client joins the end of the backlog.
LEMMA ConnectStep ==
  ASSUME SelectInv, NEW c \in Clients, Connect(c)
  PROVE  SelectInv'
<1>1. TypeOK'
  BY SelectAssumption DEF SelectInv, TypeOK, SendInv, Slots, serverVars, Connect
<1>2. SlotsInv'
  BY SelectAssumption DEF SelectInv, SlotsInv, TypeOK, SendInv, Slots, serverVars,
    Connect
<1>3. QueueInv'
  BY SelectAssumption DEF SelectInv, QueueInv, TypeOK, SendInv, OffInv, Slots,
    serverVars, Connect
<1>4. OffInv'
  BY SelectAssumption DEF SelectInv, OffInv, TypeOK, SendInv, QueueInv, Slots,
    serverVars, Connect
<1>5. PresentInv'
  <2>1. /\ Len(backlog') = Len(backlog) + 1
        /\ backlog'[Len(backlog) + 1] = c
        /\ \A n \in 1 .. Len(backlog) : backlog'[n] = backlog[n]
    BY DEF SelectInv, TypeOK, Connect
  <2>2. Len(backlog) \in Nat
    BY DEF SelectInv, TypeOK
  <2> QED
    BY <2>1, <2>2, SelectAssumption DEF SelectInv, PresentInv, Dead, TypeOK,
      SendInv, RequestsInv, RequestInv, Slots, serverVars, Connect
<1>6. RequestsInv'
  BY SelectAssumption DEF SelectInv, RequestsInv, RequestInv, Dead, Sending,
    TypeOK, SlotsInv, SendInv, Slots, serverVars, Connect
<1>7. SendInv'
  BY SelectAssumption DEF SelectInv, SendInv, TypeOK, SlotsInv, RequestsInv,
    RequestInv, ScanInv, Readable, Slots, serverVars, Connect
<1>8. ScanInv'
  BY SelectAssumption DEF SelectInv, ScanInv, Readable, TypeOK, SlotsInv,
    RequestsInv, RequestInv, SendInv, Slots, serverVars, Connect
<1>9. DeadInv'
  BY SelectAssumption DEF SelectInv, DeadInv, Dead, Served, TypeOK, RequestsInv,
    RequestInv, SendInv, Slots, serverVars, Connect
<1> QED
  BY <1>1, <1>2, <1>3, <1>4, <1>5, <1>6, <1>7, <1>8, <1>9 DEF SelectInv

\* send(): only a client at its prompt sends, and nothing of it is under way.
LEMMA SendStep ==
  ASSUME SelectInv, NEW c \in Clients, Send(c)
  PROVE  SelectInv'
<1>1. TypeOK'
  <2>1. client' \in [Clients -> {"off", "prompt", "wait", "gone"}]
    BY DEF SelectInv, TypeOK, Send
  <2>2. owed' \in [Clients -> Int] /\ inq' \in [Clients -> BOOLEAN]
    <3>1. CASE Dead
      BY <3>1 DEF SelectInv, TypeOK, Send
    <3>2. CASE ~Dead
      <4>1. owed' = [owed EXCEPT ![c] = owed[c] + 1] /\ inq' = [inq EXCEPT ![c] = TRUE]
        BY <3>2 DEF Send
      <4> QED
        BY <4>1 DEF SelectInv, TypeOK
    <3> QED
      BY <3>1, <3>2
  <2> QED
    BY <2>1, <2>2 DEF SelectInv, TypeOK, Send, serverVars
<1>2. SlotsInv'
  BY SelectAssumption DEF SelectInv, SlotsInv, TypeOK, SendInv, Slots, serverVars,
    Send
<1>3. QueueInv'
  BY SelectAssumption DEF SelectInv, QueueInv, TypeOK, SendInv, OffInv, Slots,
    serverVars, Send
<1>4. OffInv'
  BY SelectAssumption DEF SelectInv, OffInv, TypeOK, SendInv, QueueInv, Slots,
    serverVars, Send
<1>5. PresentInv'
  BY SelectAssumption DEF SelectInv, PresentInv, Dead, TypeOK, SendInv,
    RequestsInv, RequestInv, Slots, serverVars, Send
<1>6. RequestsInv'
  BY SelectAssumption DEF SelectInv, RequestsInv, RequestInv, Dead, Sending,
    TypeOK, SlotsInv, SendInv, Slots, serverVars, Send
<1>7. SendInv'
  BY SelectAssumption DEF SelectInv, SendInv, TypeOK, SlotsInv, RequestsInv,
    RequestInv, ScanInv, Readable, Slots, serverVars, Send
<1>8. ScanInv'
  <2>1. \A d \in Clients : Readable(d) => Readable(d)'
    BY DEF SelectInv, TypeOK, Readable, Send
  <2>2. UNCHANGED <<pc, set, arr_sock, backlog, i>>
    BY DEF Send, serverVars
  <2>3. set \ {None} \subseteq Clients /\ \A s \in Slots : arr_sock[s] \in Clients \cup {None}
    BY DEF SelectInv, TypeOK, Slots
  <2> QED
    BY <2>1, <2>2, <2>3 DEF SelectInv, ScanInv
<1>9. DeadInv'
  BY SelectAssumption DEF SelectInv, DeadInv, Dead, Served, TypeOK, RequestsInv,
    RequestInv, SendInv, Slots, serverVars, Send
<1> QED
  BY <1>1, <1>2, <1>3, <1>4, <1>5, <1>6, <1>7, <1>8, <1>9 DEF SelectInv

\* recv() of the answer.
LEMMA ReceiveStep ==
  ASSUME SelectInv, NEW c \in Clients, Receive(c)
  PROVE  SelectInv'
<1>1. TypeOK'
  BY SelectAssumption DEF SelectInv, TypeOK, SendInv, Slots, wireVars, serverVars,
    Receive
<1>2. SlotsInv'
  BY SelectAssumption DEF SelectInv, SlotsInv, TypeOK, SendInv, Slots, wireVars,
    serverVars, Receive
<1>3. QueueInv'
  BY SelectAssumption DEF SelectInv, QueueInv, TypeOK, SendInv, OffInv, Slots,
    wireVars, serverVars, Receive
<1>4. OffInv'
  BY SelectAssumption DEF SelectInv, OffInv, TypeOK, SendInv, QueueInv, Slots,
    wireVars, serverVars, Receive
<1>5. PresentInv'
  BY SelectAssumption DEF SelectInv, PresentInv, Dead, TypeOK, SendInv,
    RequestsInv, RequestInv, Slots, wireVars, serverVars, Receive
<1>6. RequestsInv'
  BY SelectAssumption DEF SelectInv, RequestsInv, RequestInv, Dead, Sending,
    TypeOK, SlotsInv, SendInv, Slots, wireVars, serverVars, Receive
<1>7. SendInv'
  <2> SUFFICES ASSUME pc = "send"
             PROVE  SendInv'
    BY DEF SendInv, Receive, serverVars
  <2> DEFINE a == arr_sock[i]
  <2>1. a \in Clients /\ i \in Slots
    BY DEF SelectInv, SendInv
  <2>2. UNCHANGED <<pc, i, arr_sock, buf, inq, rst, fin, owed>>
    BY DEF Receive, serverVars, wireVars
  <2>3. a # c
    BY <2>1 DEF SelectInv, SendInv, RequestsInv, RequestInv, Receive, Dead
  <2>4. client'[a] = client[a]
    BY <2>1, <2>3 DEF SelectInv, TypeOK, Receive
  <2> QED
    BY <2>1, <2>2, <2>4 DEF SelectInv, SendInv
<1>8. ScanInv'
  BY SelectAssumption DEF SelectInv, ScanInv, Readable, TypeOK, SlotsInv,
    RequestsInv, RequestInv, SendInv, Slots, wireVars, serverVars, Receive
<1>9. DeadInv'
  BY SelectAssumption DEF SelectInv, DeadInv, Dead, Served, TypeOK, RequestsInv,
    RequestInv, SendInv, Slots, wireVars, serverVars, Receive
<1> QED
  BY <1>1, <1>2, <1>3, <1>4, <1>5, <1>6, <1>7, <1>8, <1>9 DEF SelectInv

\* The end of a client, which leaves FIN or RST in the server's socket.
LEMMA EndStep ==
  ASSUME SelectInv, NEW c \in Clients, End(c)
  PROVE  SelectInv'
<1>1. TypeOK'
  BY SelectAssumption DEF SelectInv, TypeOK, SendInv, Slots, serverVars, End
<1>2. SlotsInv'
  BY SelectAssumption DEF SelectInv, SlotsInv, TypeOK, SendInv, Slots, serverVars,
    End
<1>3. QueueInv'
  BY SelectAssumption DEF SelectInv, QueueInv, TypeOK, SendInv, OffInv, Slots,
    serverVars, End
<1>4. OffInv'
  BY SelectAssumption DEF SelectInv, OffInv, TypeOK, SendInv, QueueInv, Slots,
    serverVars, End
<1>5. PresentInv'
  BY SelectAssumption DEF SelectInv, PresentInv, Dead, TypeOK, SendInv,
    RequestsInv, RequestInv, Slots, serverVars, End
<1>6. RequestsInv'
  BY SelectAssumption DEF SelectInv, RequestsInv, RequestInv, Dead, Sending,
    TypeOK, SlotsInv, SendInv, Slots, serverVars, End
<1>7. SendInv'
  <2> SUFFICES ASSUME pc = "send"
             PROVE  SendInv'
    BY DEF SendInv, End, serverVars
  <2> DEFINE a == arr_sock[i]
  <2>1. a \in Clients /\ i \in Slots
    BY DEF SelectInv, SendInv
  <2>2. UNCHANGED <<pc, i, arr_sock, buf, inq, owed>>
    BY DEF End, serverVars, wireVars
  <2>3. CASE a = c
    <3>1. ~unread[c] /\ ~rst[c] /\ owed[c] = 1 /\ buf = c /\ ~inq[c]
      BY <2>1, <2>3 DEF SelectInv, SendInv, RequestsInv, RequestInv, End
    <3>2. rst' = rst /\ client'[c] = "gone"
      BY <3>1 DEF SelectInv, TypeOK, End
    <3> QED
      BY <2>1, <2>2, <2>3, <3>1, <3>2 DEF SendInv
  <2>4. CASE a # c
    <3>1. client'[a] = client[a] /\ rst'[a] = rst[a] /\ fin'[a] = fin[a]
      BY <2>1, <2>4 DEF SelectInv, TypeOK, End
    <3> QED
      BY <2>1, <2>2, <3>1 DEF SelectInv, SendInv
  <2> QED
    BY <2>3, <2>4
<1>8. ScanInv'
  <2>1. \A d \in Clients : Readable(d) => Readable(d)'
    BY DEF SelectInv, TypeOK, Readable, End
  <2>2. UNCHANGED <<pc, set, arr_sock, backlog, i>>
    BY DEF End, serverVars
  <2>3. set \ {None} \subseteq Clients /\ \A s \in Slots : arr_sock[s] \in Clients \cup {None}
    BY DEF SelectInv, TypeOK, Slots
  <2> QED
    BY <2>1, <2>2, <2>3 DEF SelectInv, ScanInv
<1>9. DeadInv'
  <2>1. \A d \in Clients : rst[d] /\ ~fin[d] => (rst[d] /\ ~fin[d])'
    BY DEF SelectInv, TypeOK, RequestsInv, RequestInv, End
  <2>2. UNCHANGED <<pc, arr_sock, lost, maxOpen>>
    BY DEF End, serverVars
  <2> QED
    BY <2>1, <2>2 DEF SelectInv, DeadInv, Dead, Served
<1> QED
  BY <1>1, <1>2, <1>3, <1>4, <1>5, <1>6, <1>7, <1>8, <1>9 DEF SelectInv

\* select() makes the set that the round works on.
LEMMA SelectStep ==
  ASSUME SelectInv, Select
  PROVE  SelectInv'
<1>1. TypeOK'
  BY SelectAssumption DEF SelectInv, TypeOK, SendInv, Slots, clientVars, wireVars,
    Select, Served
<1>2. SlotsInv'
  BY SelectAssumption DEF SelectInv, SlotsInv, TypeOK, SendInv, Slots, clientVars,
    wireVars, Select, Served
<1>3. QueueInv'
  BY SelectAssumption DEF SelectInv, QueueInv, TypeOK, SendInv, OffInv, Slots,
    clientVars, wireVars, Select, Served
<1>4. OffInv'
  BY SelectAssumption DEF SelectInv, OffInv, TypeOK, SendInv, QueueInv, Slots,
    clientVars, wireVars, Select, Served
<1>5. PresentInv'
  BY SelectAssumption DEF SelectInv, PresentInv, Dead, TypeOK, SendInv,
    RequestsInv, RequestInv, Slots, clientVars, wireVars, Select, Served
<1>6. RequestsInv'
  BY SelectAssumption DEF SelectInv, RequestsInv, RequestInv, Dead, Sending,
    TypeOK, SlotsInv, SendInv, Slots, clientVars, wireVars, Select, Served
<1>7. SendInv'
  BY SelectAssumption DEF SelectInv, SendInv, TypeOK, SlotsInv, RequestsInv,
    RequestInv, ScanInv, Readable, Slots, clientVars, wireVars, Select, Served
<1>8. ScanInv'
  BY SelectAssumption DEF SelectInv, ScanInv, Readable, TypeOK, SlotsInv,
    RequestsInv, RequestInv, SendInv, Slots, clientVars, wireVars, Select,
    Served
<1>9. DeadInv'
  BY SelectAssumption DEF SelectInv, DeadInv, Dead, Served, TypeOK, RequestsInv,
    RequestInv, SendInv, Slots, clientVars, wireVars, Select
<1> QED
  BY <1>1, <1>2, <1>3, <1>4, <1>5, <1>6, <1>7, <1>8, <1>9 DEF SelectInv

\* accept() with a full descriptor table.
LEMMA AcceptFailsStep ==
  ASSUME SelectInv, AcceptFails
  PROVE  SelectInv'
<1>1. TypeOK'
  BY SelectAssumption DEF SelectInv, TypeOK, SendInv, Slots, clientVars, wireVars,
    AcceptFails
<1>2. SlotsInv'
  BY SelectAssumption DEF SelectInv, SlotsInv, TypeOK, SendInv, Slots, clientVars,
    wireVars, AcceptFails
<1>3. QueueInv'
  BY SelectAssumption DEF SelectInv, QueueInv, TypeOK, SendInv, OffInv, Slots,
    clientVars, wireVars, AcceptFails
<1>4. OffInv'
  BY SelectAssumption DEF SelectInv, OffInv, TypeOK, SendInv, QueueInv, Slots,
    clientVars, wireVars, AcceptFails
<1>5. PresentInv'
  BY SelectAssumption DEF SelectInv, PresentInv, Dead, TypeOK, SendInv,
    RequestsInv, RequestInv, Slots, clientVars, wireVars, AcceptFails
<1>6. RequestsInv'
  BY SelectAssumption DEF SelectInv, RequestsInv, RequestInv, Dead, Sending,
    TypeOK, SlotsInv, SendInv, Slots, clientVars, wireVars, AcceptFails
<1>7. SendInv'
  BY SelectAssumption DEF SelectInv, SendInv, TypeOK, SlotsInv, RequestsInv,
    RequestInv, ScanInv, Readable, Slots, clientVars, wireVars, AcceptFails
<1>8. ScanInv'
  BY SelectAssumption DEF SelectInv, ScanInv, Readable, TypeOK, SlotsInv,
    RequestsInv, RequestInv, SendInv, Slots, clientVars, wireVars, AcceptFails
<1>9. DeadInv'
  BY SelectAssumption DEF SelectInv, DeadInv, Dead, Served, TypeOK, RequestsInv,
    RequestInv, SendInv, Slots, clientVars, wireVars, AcceptFails
<1> QED
  BY <1>1, <1>2, <1>3, <1>4, <1>5, <1>6, <1>7, <1>8, <1>9 DEF SelectInv

\* A slot with nothing to do, and the end of the scan.
LEMMA SkipSlotStep ==
  ASSUME SelectInv, SkipSlot
  PROVE  SelectInv'
<1>1. TypeOK'
  <2>1. i' \in 1 .. MAX_COUNT_SOCK + 1
    BY SlotCount DEF SelectInv, TypeOK, SkipSlot, LastSlot
  <2>2. pc' \in {"scan", "select"}
    BY DEF SkipSlot
  <2> QED
    BY <2>1, <2>2 DEF SelectInv, TypeOK, SkipSlot, clientVars, wireVars
<1>2. SlotsInv'
  BY SelectAssumption DEF SelectInv, SlotsInv, TypeOK, SendInv, Slots, clientVars,
    wireVars, SkipSlot, InSet, LastSlot
<1>3. QueueInv'
  BY SelectAssumption DEF SelectInv, QueueInv, TypeOK, SendInv, OffInv, Slots,
    clientVars, wireVars, SkipSlot, InSet, LastSlot
<1>4. OffInv'
  BY SelectAssumption DEF SelectInv, OffInv, TypeOK, SendInv, QueueInv, Slots,
    clientVars, wireVars, SkipSlot, InSet, LastSlot
<1>5. PresentInv'
  BY SelectAssumption DEF SelectInv, PresentInv, Dead, TypeOK, SendInv,
    RequestsInv, RequestInv, Slots, clientVars, wireVars, SkipSlot, InSet,
    LastSlot
<1>6. RequestsInv'
  BY SelectAssumption DEF SelectInv, RequestsInv, RequestInv, Dead, Sending,
    TypeOK, SlotsInv, SendInv, Slots, clientVars, wireVars, SkipSlot, InSet,
    LastSlot
<1>7. SendInv'
  BY SelectAssumption DEF SelectInv, SendInv, TypeOK, SlotsInv, RequestsInv,
    RequestInv, ScanInv, Readable, Slots, clientVars, wireVars, SkipSlot,
    InSet, LastSlot
<1>8. ScanInv'
  BY SelectAssumption DEF SelectInv, ScanInv, Readable, TypeOK, SlotsInv,
    RequestsInv, RequestInv, SendInv, Slots, clientVars, wireVars, SkipSlot,
    InSet, LastSlot
<1>9. DeadInv'
  BY SelectAssumption DEF SelectInv, DeadInv, Dead, Served, TypeOK, RequestsInv,
    RequestInv, SendInv, Slots, clientVars, wireVars, SkipSlot, InSet,
    LastSlot
<1> QED
  BY <1>1, <1>2, <1>3, <1>4, <1>5, <1>6, <1>7, <1>8, <1>9 DEF SelectInv

\* recv() of a request.
LEMMA RecvRequestStep ==
  ASSUME SelectInv, RecvRequest
  PROVE  SelectInv'
<1>1. TypeOK'
  BY SelectAssumption DEF SelectInv, TypeOK, SendInv, Slots, clientVars,
    RecvRequest, InSet, LastSlot
<1>2. SlotsInv'
  BY SelectAssumption DEF SelectInv, SlotsInv, TypeOK, SendInv, Slots, clientVars,
    RecvRequest, InSet, LastSlot
<1>3. QueueInv'
  BY SelectAssumption DEF SelectInv, QueueInv, TypeOK, SendInv, OffInv, Slots,
    clientVars, RecvRequest, InSet, LastSlot
<1>4. OffInv'
  BY SelectAssumption DEF SelectInv, OffInv, TypeOK, SendInv, QueueInv, Slots,
    clientVars, RecvRequest, InSet, LastSlot
<1>5. PresentInv'
  BY SelectAssumption DEF SelectInv, PresentInv, Dead, TypeOK, SendInv,
    RequestsInv, RequestInv, Slots, clientVars, RecvRequest, InSet, LastSlot
<1>6. RequestsInv'
  BY SelectAssumption DEF SelectInv, RequestsInv, RequestInv, Dead, Sending,
    TypeOK, SlotsInv, SendInv, Slots, clientVars, RecvRequest, InSet, LastSlot
<1>7. SendInv'
  <2> DEFINE a == arr_sock[i]
  <2>1. a \in Clients /\ i \in Slots /\ inq[a]
    BY SlotCount DEF SelectInv, TypeOK, RecvRequest, InSet, LastSlot, Slots
  <2>2. owed[a] = 1 /\ ~rst[a] /\ client[a] \in {"wait", "gone"}
    BY <2>1 DEF SelectInv, TypeOK, RequestsInv, RequestInv, RecvRequest, Dead
  <2>3. /\ UNCHANGED <<i, arr_sock, owed, rst, client>> /\ buf' = a
        /\ inq' = [inq EXCEPT ![a] = FALSE]
    BY DEF RecvRequest, clientVars
  <2>4. ~inq'[a]
    BY <2>1, <2>3 DEF SelectInv, TypeOK
  <2> QED
    BY <2>1, <2>2, <2>3, <2>4 DEF SendInv
<1>8. ScanInv'
  BY SelectAssumption DEF SelectInv, ScanInv, Readable, TypeOK, SlotsInv,
    RequestsInv, RequestInv, SendInv, Slots, clientVars, RecvRequest, InSet,
    LastSlot
<1>9. DeadInv'
  BY SelectAssumption DEF SelectInv, DeadInv, Dead, Served, TypeOK, RequestsInv,
    RequestInv, SendInv, Slots, clientVars, RecvRequest, InSet, LastSlot
<1> QED
  BY <1>1, <1>2, <1>3, <1>4, <1>5, <1>6, <1>7, <1>8, <1>9 DEF SelectInv

\* recv() of the end of a connection, which frees the slot.
LEMMA RecvEndStep ==
  ASSUME SelectInv, RecvEnd
  PROVE  SelectInv'
<1>1. TypeOK'
  <2>1. i' \in 1 .. MAX_COUNT_SOCK + 1
    BY SlotCount DEF SelectInv, TypeOK, RecvEnd, InSet, LastSlot
  <2>2. arr_sock' \in [Slots -> Clients \cup {None}]
    BY DEF SelectInv, TypeOK, RecvEnd
  <2> QED
    BY <2>1, <2>2 DEF SelectInv, TypeOK, RecvEnd, clientVars, wireVars
<1>2. SlotsInv'
  BY SelectAssumption DEF SelectInv, SlotsInv, TypeOK, SendInv, Slots, clientVars,
    wireVars, RecvEnd, InSet, LastSlot
<1>3. QueueInv'
  BY SelectAssumption DEF SelectInv, QueueInv, TypeOK, SendInv, OffInv, Slots,
    clientVars, wireVars, RecvEnd, InSet, LastSlot
<1>4. OffInv'
  BY SelectAssumption DEF SelectInv, OffInv, TypeOK, SendInv, QueueInv, Slots,
    clientVars, wireVars, RecvEnd, InSet, LastSlot
<1>5. PresentInv'
  BY SelectAssumption DEF SelectInv, PresentInv, Dead, TypeOK, SendInv,
    RequestsInv, RequestInv, Slots, clientVars, wireVars, RecvEnd, InSet,
    LastSlot
<1>6. RequestsInv'
  BY SelectAssumption DEF SelectInv, RequestsInv, RequestInv, Dead, Sending,
    TypeOK, SlotsInv, SendInv, Slots, clientVars, wireVars, RecvEnd, InSet,
    LastSlot
<1>7. SendInv'
  BY SelectAssumption DEF SelectInv, SendInv, TypeOK, SlotsInv, RequestsInv,
    RequestInv, ScanInv, Readable, Slots, clientVars, wireVars, RecvEnd,
    InSet, LastSlot
<1>8. ScanInv'
  BY SelectAssumption DEF SelectInv, ScanInv, Readable, TypeOK, SlotsInv,
    RequestsInv, RequestInv, SendInv, Slots, clientVars, wireVars, RecvEnd,
    InSet, LastSlot
<1>9. DeadInv'
  BY SelectAssumption DEF SelectInv, DeadInv, Dead, Served, TypeOK, RequestsInv,
    RequestInv, SendInv, Slots, clientVars, wireVars, RecvEnd, InSet, LastSlot
<1> QED
  BY <1>1, <1>2, <1>3, <1>4, <1>5, <1>6, <1>7, <1>8, <1>9 DEF SelectInv

\* recv() on a connection that was reset.
LEMMA RecvErrorStep ==
  ASSUME SelectInv, RecvError
  PROVE  SelectInv'
<1>1. TypeOK'
  BY SelectAssumption DEF SelectInv, TypeOK, SendInv, Slots, clientVars, wireVars,
    RecvError, InSet, LastSlot
<1>2. SlotsInv'
  BY SelectAssumption DEF SelectInv, SlotsInv, TypeOK, SendInv, Slots, clientVars,
    wireVars, RecvError, InSet, LastSlot
<1>3. QueueInv'
  BY SelectAssumption DEF SelectInv, QueueInv, TypeOK, SendInv, OffInv, Slots,
    clientVars, wireVars, RecvError, InSet, LastSlot
<1>4. OffInv'
  BY SelectAssumption DEF SelectInv, OffInv, TypeOK, SendInv, QueueInv, Slots,
    clientVars, wireVars, RecvError, InSet, LastSlot
<1>5. PresentInv'
  BY SelectAssumption DEF SelectInv, PresentInv, Dead, TypeOK, SendInv,
    RequestsInv, RequestInv, Slots, clientVars, wireVars, RecvError, InSet,
    LastSlot
<1>6. RequestsInv'
  BY SelectAssumption DEF SelectInv, RequestsInv, RequestInv, Dead, Sending,
    TypeOK, SlotsInv, SendInv, Slots, clientVars, wireVars, RecvError, InSet,
    LastSlot
<1>7. SendInv'
  BY SelectAssumption DEF SelectInv, SendInv, TypeOK, SlotsInv, RequestsInv,
    RequestInv, ScanInv, Readable, Slots, clientVars, wireVars, RecvError,
    InSet, LastSlot
<1>8. ScanInv'
  BY SelectAssumption DEF SelectInv, ScanInv, Readable, TypeOK, SlotsInv,
    RequestsInv, RequestInv, SendInv, Slots, clientVars, wireVars, RecvError,
    InSet, LastSlot
<1>9. DeadInv'
  BY SelectAssumption DEF SelectInv, DeadInv, Dead, Served, TypeOK, RequestsInv,
    RequestInv, SendInv, Slots, clientVars, wireVars, RecvError, InSet,
    LastSlot
<1> QED
  BY <1>1, <1>2, <1>3, <1>4, <1>5, <1>6, <1>7, <1>8, <1>9 DEF SelectInv

\* send() of the answer.
LEMMA AnswerStep ==
  ASSUME SelectInv, Answer
  PROVE  SelectInv'
<1>1. TypeOK'
  <2>1. i' \in 1 .. MAX_COUNT_SOCK + 1
    BY SlotCount DEF SelectInv, TypeOK, SendInv, Slots, Answer
  <2>2. owed' \in [Clients -> Int]
    <3>1. owed' = [owed EXCEPT ![Addressee] = owed[Addressee] - 1] /\ Addressee \in Clients
      BY DEF SelectInv, SendInv, Answer, Addressee
    <3> QED
      BY <3>1 DEF SelectInv, TypeOK
  <2>3. unread' \in [Clients -> BOOLEAN] /\ rst' \in [Clients -> BOOLEAN]
    BY DEF SelectInv, TypeOK, Answer
  <2> QED
    BY <2>1, <2>2, <2>3 DEF SelectInv, TypeOK, Answer
<1>2. SlotsInv'
  BY SelectAssumption DEF SelectInv, SlotsInv, TypeOK, SendInv, Slots, Answer,
    Addressee
<1>3. QueueInv'
  BY SelectAssumption DEF SelectInv, QueueInv, TypeOK, SendInv, OffInv, Slots,
    Answer, Addressee
<1>4. OffInv'
  BY SelectAssumption DEF SelectInv, OffInv, TypeOK, SendInv, QueueInv, Slots,
    Answer, Addressee
<1>5. PresentInv'
  BY SelectAssumption DEF SelectInv, PresentInv, Dead, TypeOK, SendInv,
    RequestsInv, RequestInv, Slots, Answer, Addressee
<1>6. RequestsInv'
  <2> DEFINE a == arr_sock[i]
  <2>1. /\ a \in Clients
        /\ ~inq[a] /\ ~rst[a] /\ owed[a] = 1 /\ client[a] \in {"wait", "gone"}
    BY DEF SelectInv, SendInv, Answer, Addressee
  <2>2. /\ owed' = [owed EXCEPT ![a] = owed[a] - 1]
        /\ unread' = [unread EXCEPT ![a] = client[a] # "gone"]
        /\ rst' = [rst EXCEPT ![a] = client[a] = "gone"]
        /\ pc = "send" /\ pc' = "scan" /\ UNCHANGED <<client, inq, fin>>
    BY DEF Answer, Addressee
  <2> HIDE DEF a
  <2> SUFFICES ASSUME NEW d \in Clients PROVE RequestInv(d)'
    BY DEF RequestsInv
  <2>3. RequestInv(d)
    BY DEF SelectInv, RequestsInv
  <2>4. CASE d = a
    <3>1. owed'[d] = 0 /\ ~inq'[d] /\ client'[d] = client[d] /\ fin'[d] = fin[d]
      BY <2>1, <2>2, <2>4 DEF SelectInv, TypeOK
    <3>2. CASE client[d] = "wait"
      <4>1. unread'[d] /\ ~rst'[d]
        BY <2>1, <2>2, <2>4, <3>2 DEF SelectInv, TypeOK
      <4>2. ~fin'[d]
        BY <2>3, <3>1, <3>2 DEF RequestInv
      <4> QED
        BY <3>1, <3>2, <4>1, <4>2 DEF RequestInv
    <3>3. CASE client[d] = "gone"
      <4>1. ~unread'[d]
        BY <2>1, <2>2, <2>4, <3>3 DEF SelectInv, TypeOK
      <4> QED
        BY <3>1, <3>3, <4>1 DEF RequestInv
    <3> QED
      BY <2>1, <2>4, <3>2, <3>3
  <2>5. CASE d # a
    <3>1. ~Sending(d)
      BY <2>5 DEF Sending, a
    <3> QED
      BY <2>1, <2>2, <2>3, <2>5, <3>1 DEF SelectInv, TypeOK, RequestInv, Dead
  <2> QED
    BY <2>4, <2>5
<1>7. SendInv'
  BY SelectAssumption DEF SelectInv, SendInv, TypeOK, SlotsInv, RequestsInv,
    RequestInv, ScanInv, Readable, Slots, Answer, Addressee
<1>8. ScanInv'
  BY SelectAssumption DEF SelectInv, ScanInv, Readable, TypeOK, SlotsInv,
    RequestsInv, RequestInv, SendInv, Slots, Answer, Addressee
<1>9. DeadInv'
  BY SelectAssumption DEF SelectInv, DeadInv, Dead, Served, TypeOK, RequestsInv,
    RequestInv, SendInv, Slots, Answer, Addressee
<1> QED
  BY <1>1, <1>2, <1>3, <1>4, <1>5, <1>6, <1>7, <1>8, <1>9 DEF SelectInv

\* send() on a connection that was reset.
LEMMA SigPipeStep ==
  ASSUME SelectInv, SigPipe
  PROVE  SelectInv'
<1>1. TypeOK'
  BY SelectAssumption DEF SelectInv, TypeOK, SendInv, Slots, clientVars, wireVars,
    SigPipe, Addressee
<1>2. SlotsInv'
  BY SelectAssumption DEF SelectInv, SlotsInv, TypeOK, SendInv, Slots, clientVars,
    wireVars, SigPipe, Addressee
<1>3. QueueInv'
  BY SelectAssumption DEF SelectInv, QueueInv, TypeOK, SendInv, OffInv, Slots,
    clientVars, wireVars, SigPipe, Addressee
<1>4. OffInv'
  BY SelectAssumption DEF SelectInv, OffInv, TypeOK, SendInv, QueueInv, Slots,
    clientVars, wireVars, SigPipe, Addressee
<1>5. PresentInv'
  BY SelectAssumption DEF SelectInv, PresentInv, Dead, TypeOK, SendInv,
    RequestsInv, RequestInv, Slots, clientVars, wireVars, SigPipe, Addressee
<1>6. RequestsInv'
  BY SelectAssumption DEF SelectInv, RequestsInv, RequestInv, Dead, Sending,
    TypeOK, SlotsInv, SendInv, Slots, clientVars, wireVars, SigPipe, Addressee
<1>7. SendInv'
  BY SelectAssumption DEF SelectInv, SendInv, TypeOK, SlotsInv, RequestsInv,
    RequestInv, ScanInv, Readable, Slots, clientVars, wireVars, SigPipe,
    Addressee
<1>8. ScanInv'
  BY SelectAssumption DEF SelectInv, ScanInv, Readable, TypeOK, SlotsInv,
    RequestsInv, RequestInv, SendInv, Slots, clientVars, wireVars, SigPipe,
    Addressee
<1>9. DeadInv'
  BY SelectAssumption DEF SelectInv, DeadInv, Dead, Served, TypeOK, RequestsInv,
    RequestInv, SendInv, Slots, clientVars, wireVars, SigPipe, Addressee
<1> QED
  BY <1>1, <1>2, <1>3, <1>4, <1>5, <1>6, <1>7, <1>8, <1>9 DEF SelectInv

\* The slot that Store takes is free.
LEMMA StoreTakesFreeSlot ==
  ASSUME NEW c \in Clients, Store(c)
  PROVE  \/ lost' = lost \cup {c} /\ arr_sock' = arr_sock
         \/ /\ lost' = lost
            /\ \E s \in Slots : /\ arr_sock[s] = None
                                /\ arr_sock' = [arr_sock EXCEPT ![s] = c]
<1> DEFINE free == {s \in Slots : arr_sock[s] = None}
           least == CHOOSE s \in free : \A t \in free : s <= t
<1>1. CASE free = {}
  BY <1>1 DEF Store
<1>2. CASE free # {}
  <2>1. free \subseteq Nat
    BY DEF Slots
  <2>2. \E s \in free : \A t \in free : s <= t
    <3> HIDE DEF free
    <3> QED BY <1>2, <2>1, Least
  <2>3. least \in free
    <3> HIDE DEF free
    <3> QED BY <2>2
  <2>4. arr_sock' = [arr_sock EXCEPT ![least] = c] /\ lost' = lost
    BY <1>2 DEF Store
  <2> QED
    BY <2>3, <2>4
<1> QED
  BY <1>1, <1>2

\* accept(), and the first free slot or none: the client leaves the head of the
\* backlog, so it is nowhere else, and it is not in the set of this round.
LEMMA AcceptStep ==
  ASSUME SelectInv, Accept
  PROVE  SelectInv'
<1>0. /\ pc = "accept" /\ pc' = "scan" /\ i' = 1
      /\ UNCHANGED <<client, unread, owed, inq, fin, rst, set, buf, maxOpen>>
  BY DEF Accept, StartScan, clientVars
<1>1. CASE None \notin set
  <2>1. UNCHANGED <<backlog, arr_sock, lost>>
    BY <1>1 DEF Accept
  <2>2. TypeOK'
    BY <1>0, <2>1, SlotCount DEF SelectInv, TypeOK
  <2>3. SlotsInv' /\ QueueInv' /\ OffInv'
    BY <1>0, <2>1 DEF SelectInv, SlotsInv, QueueInv, OffInv
  <2>4. PresentInv'
    BY <1>0, <2>1 DEF SelectInv, PresentInv, Dead
  <2>5. RequestsInv'
    BY <1>0, <2>1 DEF SelectInv, RequestsInv, RequestInv, Dead, Sending
  <2>6. SendInv' /\ DeadInv'
    BY <1>0 DEF SendInv, DeadInv, Dead
  <2>7. ScanInv'
    BY <1>0, <2>1 DEF SelectInv, ScanInv, Readable
  <2> QED
    BY <2>2, <2>3, <2>4, <2>5, <2>6, <2>7 DEF SelectInv
<1>2. CASE None \in set
  <2> DEFINE c == Head(backlog)
  <2>1. backlog \in Seq(Clients) /\ backlog # <<>>
    BY <1>0, <1>2 DEF SelectInv, TypeOK, ScanInv
  <2>2. backlog' = Tail(backlog) /\ Store(c)
    BY <1>2 DEF Accept
  <2>3. /\ c \in Clients /\ c = backlog[1] /\ Len(backlog) \in Nat /\ Len(backlog) > 0
        /\ backlog' \in Seq(Clients) /\ Len(backlog') = Len(backlog) - 1
        /\ \A n \in 1 .. Len(backlog') : n + 1 \in 1 .. Len(backlog) /\ backlog'[n] = backlog[n + 1]
    BY <2>1, <2>2
  <2>4. /\ c # None /\ c \notin lost /\ client[c] # "off"
        /\ \A s \in Slots : arr_sock[s] # c
        /\ \A n \in 1 .. Len(backlog') : backlog'[n] # c
    BY <2>3, SelectAssumption DEF SelectInv, QueueInv
  <2>5. c \notin set
    BY <1>0, <2>4 DEF SelectInv, ScanInv
  <2> HIDE DEF c
  <2>a. \A m, n \in 1 .. Len(backlog') : backlog'[m] = backlog'[n] => m = n
    BY <2>3 DEF SelectInv, QueueInv
  <2>b. \A n \in 1 .. Len(backlog') :
          /\ backlog'[n] \notin lost
          /\ client[backlog'[n]] # "off"
          /\ \A s \in Slots : arr_sock[s] # backlog'[n]
    <3> TAKE n \in 1 .. Len(backlog')
    <3>1. n + 1 \in 1 .. Len(backlog) /\ backlog'[n] = backlog[n + 1]
      BY <2>3
    <3> QED
      BY <3>1 DEF SelectInv, QueueInv
  <2>6. QueueInv /\ SlotsInv /\ OffInv /\ PresentInv /\ TypeOK /\ RequestsInv /\ ScanInv
    BY DEF SelectInv
  <2>7. RequestsInv'
    BY <1>0 DEF SelectInv, RequestsInv, RequestInv, Dead, Sending
  <2>8. SendInv' /\ DeadInv'
    BY <1>0 DEF SendInv, DeadInv, Dead
  <2>9. CASE lost' = lost \cup {c} /\ arr_sock' = arr_sock
    <3>1. TypeOK'
      BY <1>0, <2>3, <2>6, <2>9, SlotCount DEF TypeOK
    <3>2. SlotsInv'
      BY <2>4, <2>6, <2>9 DEF SlotsInv
    <3>3. QueueInv'
      BY <1>0, <2>4, <2>a, <2>b, <2>9 DEF QueueInv
    <3>4. OffInv'
      BY <1>0, <2>4, <2>6, <2>9 DEF OffInv
    <3>5. PresentInv'
      <4> SUFFICES ASSUME NEW d \in Clients, client[d] \in {"prompt", "wait"}
                   PROVE  \/ \E s \in Slots : arr_sock'[s] = d
                          \/ d \in lost'
                          \/ \E n \in 1 .. Len(backlog') : backlog'[n] = d
        BY <1>0 DEF PresentInv
      <4>1. CASE \E n \in 1 .. Len(backlog) : backlog[n] = d
        <5>1. PICK n \in 1 .. Len(backlog) : backlog[n] = d
          BY <4>1
        <5>2. CASE n = 1
          BY <2>3, <2>9, <5>1, <5>2
        <5>3. CASE n # 1
          <6>1. n - 1 \in 1 .. Len(backlog') /\ backlog'[n - 1] = d
            BY <2>3, <5>1, <5>3
          <6> QED
            BY <6>1
        <5> QED
          BY <5>2, <5>3
      <4> QED
        BY <1>0, <2>6, <2>9, <4>1 DEF PresentInv, Dead
    <3>6. ScanInv'
      BY <1>0, <2>6, <2>9 DEF ScanInv, Readable
    <3> QED
      BY <2>7, <2>8, <3>1, <3>2, <3>3, <3>4, <3>5, <3>6 DEF SelectInv
  <2>10. CASE /\ lost' = lost
              /\ \E s \in Slots : arr_sock[s] = None /\ arr_sock' = [arr_sock EXCEPT ![s] = c]
    <3>0. PICK s \in Slots : arr_sock[s] = None /\ arr_sock' = [arr_sock EXCEPT ![s] = c]
      BY <2>10
    <3>a. /\ arr_sock' \in [Slots -> Clients \cup {None}]
          /\ arr_sock'[s] = c
          /\ \A t \in Slots : t # s => arr_sock'[t] = arr_sock[t]
      BY <2>3, <2>6, <3>0 DEF TypeOK
    <3>1. TypeOK'
      BY <1>0, <2>3, <2>6, <2>10, <3>a, SlotCount DEF TypeOK
    <3>2. SlotsInv'
      BY <2>4, <2>6, <2>10, <3>a DEF SlotsInv
    <3>3. QueueInv'
      BY <1>0, <2>4, <2>a, <2>b, <2>10, <3>a DEF QueueInv
    <3>4. OffInv'
      BY <1>0, <2>4, <2>6, <2>10, <3>a DEF OffInv
    <3>5. PresentInv'
      <4> SUFFICES ASSUME NEW d \in Clients, client[d] \in {"prompt", "wait"}
                   PROVE  \/ \E t \in Slots : arr_sock'[t] = d
                          \/ d \in lost'
                          \/ \E n \in 1 .. Len(backlog') : backlog'[n] = d
        BY <1>0 DEF PresentInv
      <4>1. CASE \E n \in 1 .. Len(backlog) : backlog[n] = d
        <5>1. PICK n \in 1 .. Len(backlog) : backlog[n] = d
          BY <4>1
        <5>2. CASE n = 1
          BY <2>3, <3>a, <5>1, <5>2
        <5>3. CASE n # 1
          <6>1. n - 1 \in 1 .. Len(backlog') /\ backlog'[n - 1] = d
            BY <2>3, <5>1, <5>3
          <6> QED
            BY <6>1
        <5> QED
          BY <5>2, <5>3
      <4>2. CASE \E t \in Slots : arr_sock[t] = d
        BY <3>0, <3>a, <4>2, SelectAssumption
      <4> QED
        BY <1>0, <2>6, <2>10, <4>1, <4>2 DEF PresentInv, Dead
    <3>6. ScanInv'
      BY <1>0, <2>5, <2>6, <3>a DEF ScanInv, Readable
    <3> QED
      BY <2>7, <2>8, <3>1, <3>2, <3>3, <3>4, <3>5, <3>6 DEF SelectInv
  <2> QED
    BY <2>2, <2>3, <2>9, <2>10, StoreTakesFreeSlot
<1> QED
  BY <1>1, <1>2

\* Every step of the select() server, its clients and the kernel keeps it.
LEMMA SelectServerStep == SelectInv /\ [Next]_vars => SelectInv'
<1> SUFFICES ASSUME SelectInv, [Next]_vars PROVE SelectInv'
  OBVIOUS
<1>1. CASE UNCHANGED vars
  <2>1. /\ UNCHANGED <<client, unread, owed, backlog, inq, fin, rst>>
        /\ UNCHANGED <<pc, arr_sock, lost, set, i, buf, maxOpen>>
    BY <1>1 DEF vars, clientVars, wireVars, serverVars
  <2>2. TypeOK' /\ SlotsInv' /\ QueueInv' /\ OffInv'
    BY <2>1 DEF SelectInv, TypeOK, SlotsInv, QueueInv, OffInv
  <2>3. PresentInv' /\ RequestsInv'
    BY <2>1 DEF SelectInv, PresentInv, RequestsInv, RequestInv, Dead, Sending
  <2>4. SendInv' /\ ScanInv' /\ DeadInv'
    BY <2>1 DEF SelectInv, SendInv, ScanInv, DeadInv, Readable, Dead, Served
  <2> QED
    BY <2>2, <2>3, <2>4 DEF SelectInv
<1>2. CASE \E c \in Clients : Connect(c) \/ Send(c) \/ Receive(c) \/ End(c)
  BY <1>2, ConnectStep, SendStep, ReceiveStep, EndStep
<1>3. CASE Server
  BY <1>3, SelectStep, AcceptStep, AcceptFailsStep, SkipSlotStep,
     RecvRequestStep, RecvEndStep, RecvErrorStep, AnswerStep, SigPipeStep DEF Server
<1> QED
  BY <1>1, <1>2, <1>3 DEF Next

-------------------------------------------------------------------------------
(* The AF_UNIX server: its inductive invariant *)

\* A server that has accepted works on a client; what is in its buf when it
\* answers is this client's message, or send() will find the client gone.
MessageInv ==
  \A s \in Servers :
    /\ at[s] \in {"recv", "send", "print"} => newsock[s] \in Peers
    /\ at[s] = "send" => text[s] = newsock[s] \/ Left(newsock[s])
    /\ at[s] = "print" => text[s] = newsock[s]

UnixInv == UnixTypeOK /\ NameFollowsServer /\ MessageInv

\* The invariant of part 1 holds before bind().
LEMMA UnixInitial == UnixInit => UnixInv
BY UnixAssumption DEF UnixInit, UnixInv, UnixTypeOK, NameFollowsServer, MessageInv, Bound

\* bind() creates the name only where it is free.
LEMMA BindStep ==
  ASSUME UnixInv, NEW s \in Servers, Bind(s)
  PROVE  UnixInv'
<1>1. UnixTypeOK'
  BY DEF UnixInv, UnixTypeOK, MessageInv, Bind, Goto, Bound, Stopped, Ended
<1>2. NameFollowsServer'
  BY UnixAssumption DEF UnixInv, UnixTypeOK, NameFollowsServer, Bind, Goto, Bound, Stopped
<1>3. MessageInv'
  BY DEF UnixInv, UnixTypeOK, MessageInv, Left, Ended, Bind, Goto
<1> QED
  BY <1>1, <1>2, <1>3 DEF UnixInv

\* signal(); where it fails the server removes the name and ends.
LEMMA SignalStep ==
  ASSUME UnixInv, NEW s \in Servers, Signal(s)
  PROVE  UnixInv'
<1>1. UnixTypeOK'
  BY DEF UnixInv, UnixTypeOK, MessageInv, Signal, Goto, Bound, Stopped, Ended
<1>2. NameFollowsServer'
  BY UnixAssumption DEF UnixInv, UnixTypeOK, NameFollowsServer, Signal, Goto, Bound, Stopped
<1>3. MessageInv'
  BY DEF UnixInv, UnixTypeOK, MessageInv, Left, Ended, Signal, Goto
<1> QED
  BY <1>1, <1>2, <1>3 DEF UnixInv

\* listen() or its failure keeps the invariant.
LEMMA ListenStep ==
  ASSUME UnixInv, NEW s \in Servers, Listen(s)
  PROVE  UnixInv'
<1>1. UnixTypeOK'
  BY DEF UnixInv, UnixTypeOK, MessageInv, Listen, Goto, Bound, Stopped, Ended
<1>2. NameFollowsServer'
  BY UnixAssumption DEF UnixInv, UnixTypeOK, NameFollowsServer, Listen, Goto, Bound, Stopped
<1>3. MessageInv'
  BY DEF UnixInv, UnixTypeOK, MessageInv, Left, Ended, Listen, Goto
<1> QED
  BY <1>1, <1>2, <1>3 DEF UnixInv

\* accept() takes the first client of the queue.
LEMMA AcceptPeerStep ==
  ASSUME UnixInv, NEW s \in Servers, AcceptPeer(s)
  PROVE  UnixInv'
<1>a. queue[s] \in Seq(Peers) /\ Head(queue[s]) \in Peers /\ Tail(queue[s]) \in Seq(Peers)
  BY DEF UnixInv, UnixTypeOK, AcceptPeer
<1>b. \/ /\ newsock' = [newsock EXCEPT ![s] = Head(queue[s])]
         /\ opened' = [opened EXCEPT ![s] = opened[s] \cup {Head(queue[s])}]
         /\ queue' = [queue EXCEPT ![s] = Tail(queue[s])]
         /\ at' = [at EXCEPT ![s] = "recv"]
      \/ at' = [at EXCEPT ![s] = "full"] /\ UNCHANGED <<newsock, opened, queue>>
  BY DEF AcceptPeer, Goto
<1>c. UNCHANGED <<path, text, peer, host, sent, answer, limit>>
  BY DEF AcceptPeer
<1>1. UnixTypeOK'
  <2>1. at' \in [Servers -> {"bind", "unlink"} \cup Bound \cup Stopped]
    BY <1>b DEF UnixInv, UnixTypeOK, Bound, Stopped
  <2>2. newsock' \in [Servers -> Peers \cup {Nobody}]
    BY <1>a, <1>b DEF UnixInv, UnixTypeOK
  <2>4. opened' \in [Servers -> SUBSET Peers]
    <3>1. opened[s] \cup {Head(queue[s])} \in SUBSET Peers
      BY <1>a DEF UnixInv, UnixTypeOK
    <3> QED
      BY <1>b, <3>1 DEF UnixInv, UnixTypeOK
  <2>3. queue' \in [Servers -> Seq(Peers)]
    BY <1>a, <1>b DEF UnixInv, UnixTypeOK
  <2> QED
    BY <1>c, <2>1, <2>2, <2>3, <2>4 DEF UnixInv, UnixTypeOK
<1>2. NameFollowsServer'
  BY UnixAssumption DEF UnixInv, UnixTypeOK, NameFollowsServer, AcceptPeer, Goto, Bound, Stopped
<1>3. MessageInv'
  BY <1>a, <1>b, <1>c DEF UnixInv, UnixTypeOK, MessageInv, Left
<1> QED
  BY <1>1, <1>2, <1>3 DEF UnixInv

\* recv() of the request, or of the end of a client that has died.
LEMMA RecvStep ==
  ASSUME UnixInv, NEW s \in Servers, Recv(s)
  PROVE  UnixInv'
<1>1. UnixTypeOK'
  BY DEF UnixInv, UnixTypeOK, MessageInv, Recv, Goto, Left, Bound, Stopped, Ended
<1>2. NameFollowsServer'
  BY UnixAssumption DEF UnixInv, UnixTypeOK, NameFollowsServer, Recv, Goto, Bound, Stopped
<1>3. MessageInv'
  BY DEF UnixInv, UnixTypeOK, MessageInv, Left, Ended, Recv, Goto
<1> QED
  BY <1>1, <1>2, <1>3 DEF UnixInv

\* send() of the answer to the client that has been accepted.
LEMMA RespondStep ==
  ASSUME UnixInv, NEW s \in Servers, Respond(s)
  PROVE  UnixInv'
<1>1. UnixTypeOK'
  BY DEF UnixInv, UnixTypeOK, MessageInv, Respond, Goto, Left, Bound, Stopped, Ended
<1>2. NameFollowsServer'
  BY UnixAssumption DEF UnixInv, UnixTypeOK, NameFollowsServer, Respond, Goto, Bound, Stopped
<1>3. MessageInv'
  BY DEF UnixInv, UnixTypeOK, MessageInv, Left, Ended, Respond, Goto
<1> QED
  BY <1>1, <1>2, <1>3 DEF UnixInv

\* printf() of the message that was received.
LEMMA PrintMessageStep ==
  ASSUME UnixInv, NEW s \in Servers, PrintMessage(s)
  PROVE  UnixInv'
<1>1. UnixTypeOK'
  BY DEF UnixInv, UnixTypeOK, MessageInv, PrintMessage, Goto, Bound, Stopped, Ended
<1>2. NameFollowsServer'
  BY UnixAssumption DEF UnixInv, UnixTypeOK, NameFollowsServer, PrintMessage, Goto, Bound, Stopped
<1>3. MessageInv'
  BY DEF UnixInv, UnixTypeOK, MessageInv, Left, Ended, PrintMessage, Goto
<1> QED
  BY <1>1, <1>2, <1>3 DEF UnixInv

\* SIGINT may come at any step of the server.
LEMMA InterruptStep ==
  ASSUME UnixInv, NEW s \in Servers, Interrupt(s)
  PROVE  UnixInv'
<1>1. UnixTypeOK'
  BY DEF UnixInv, UnixTypeOK, MessageInv, Interrupt, Goto, Bound, Stopped, Ended
<1>2. NameFollowsServer'
  BY UnixAssumption DEF UnixInv, UnixTypeOK, NameFollowsServer, Interrupt, Goto, Bound, Stopped
<1>3. MessageInv'
  BY DEF UnixInv, UnixTypeOK, MessageInv, Left, Ended, Interrupt, Goto
<1> QED
  BY <1>1, <1>2, <1>3 DEF UnixInv

\* unlink() in the handler takes the name away, or finds none.
LEMMA UnlinkStep ==
  ASSUME UnixInv, NEW s \in Servers, Unlink(s)
  PROVE  UnixInv'
<1>1. UnixTypeOK'
  BY DEF UnixInv, UnixTypeOK, MessageInv, Unlink, Goto, Bound, Stopped, Ended
<1>2. NameFollowsServer'
  BY UnixAssumption DEF UnixInv, UnixTypeOK, NameFollowsServer, Unlink, Goto, Bound, Stopped
<1>3. MessageInv'
  BY DEF UnixInv, UnixTypeOK, MessageInv, Left, Ended, Unlink, Goto
<1> QED
  BY <1>1, <1>2, <1>3 DEF UnixInv

\* connect() joins the queue, or fails.
LEMMA ConnectPeerStep ==
  ASSUME UnixInv, NEW c \in Peers, ConnectPeer(c)
  PROVE  UnixInv'
<1>1. UnixTypeOK'
  <2>1. UNCHANGED <<at, newsock, opened, text, limit, path, sent, answer>>
    BY DEF ConnectPeer, ownVars
  <2>2. peer' \in [Peers -> {"connect", "send", "recv"} \cup Ended]
    BY DEF UnixInv, UnixTypeOK, ConnectPeer, Ended
  <2>3. host' \in [Peers -> Servers \cup {Nobody}]
    BY DEF UnixInv, UnixTypeOK, ConnectPeer
  <2>4. queue' \in [Servers -> Seq(Peers)]
    <3>1. CASE queue' = queue
      BY <3>1 DEF UnixInv, UnixTypeOK
    <3>2. CASE path \in Servers /\ queue' = [queue EXCEPT ![path] = Append(queue[path], c)]
      <4>1. Append(queue[path], c) \in Seq(Peers)
        BY <3>2 DEF UnixInv, UnixTypeOK
      <4> QED
        BY <3>2, <4>1 DEF UnixInv, UnixTypeOK
    <3> QED
      BY <3>1, <3>2 DEF UnixInv, UnixTypeOK, ConnectPeer
  <2> QED
    BY <2>1, <2>2, <2>3, <2>4 DEF UnixInv, UnixTypeOK
<1>2. NameFollowsServer'
  BY UnixAssumption DEF UnixInv, UnixTypeOK, NameFollowsServer, ConnectPeer, ownVars, Bound, Stopped
<1>3. MessageInv'
  BY DEF UnixInv, UnixTypeOK, MessageInv, Left, Ended, ConnectPeer, ownVars
<1> QED
  BY <1>1, <1>2, <1>3 DEF UnixInv

\* send() of the client.
LEMMA SendMessageStep ==
  ASSUME UnixInv, NEW c \in Peers, SendMessage(c)
  PROVE  UnixInv'
<1>1. UnixTypeOK'
  BY DEF UnixInv, UnixTypeOK, SendMessage, ownVars, Bound, Stopped, Ended
<1>2. NameFollowsServer'
  BY UnixAssumption DEF UnixInv, UnixTypeOK, NameFollowsServer, SendMessage, ownVars, Bound, Stopped
<1>3. MessageInv'
  BY DEF UnixInv, UnixTypeOK, MessageInv, Left, Ended, SendMessage, ownVars
<1> QED
  BY <1>1, <1>2, <1>3 DEF UnixInv

\* recv() of the client.
LEMMA ReceiveAnswerStep ==
  ASSUME UnixInv, NEW c \in Peers, ReceiveAnswer(c)
  PROVE  UnixInv'
<1>1. UnixTypeOK'
  BY DEF UnixInv, UnixTypeOK, ReceiveAnswer, ownVars, Bound, Stopped, Ended
<1>2. NameFollowsServer'
  BY UnixAssumption DEF UnixInv, UnixTypeOK, NameFollowsServer, ReceiveAnswer, ownVars, Bound, Stopped
<1>3. MessageInv'
  BY DEF UnixInv, UnixTypeOK, MessageInv, Left, Ended, ReceiveAnswer, ownVars
<1> QED
  BY <1>1, <1>2, <1>3 DEF UnixInv

\* A client may be killed at any step.
LEMMA KillPeerStep ==
  ASSUME UnixInv, NEW c \in Peers, KillPeer(c)
  PROVE  UnixInv'
<1>1. UnixTypeOK'
  BY DEF UnixInv, UnixTypeOK, KillPeer, ownVars, Bound, Stopped, Ended
<1>2. NameFollowsServer'
  BY UnixAssumption DEF UnixInv, UnixTypeOK, NameFollowsServer, KillPeer, ownVars, Bound, Stopped
<1>3. MessageInv'
  BY DEF UnixInv, UnixTypeOK, MessageInv, Left, Ended, KillPeer, ownVars
<1> QED
  BY <1>1, <1>2, <1>3 DEF UnixInv

\* Somebody removes the name from the file system.
LEMMA RemoveNameStep ==
  ASSUME UnixInv, RemoveName
  PROVE  UnixInv'
<1>1. UnixTypeOK'
  BY DEF UnixInv, UnixTypeOK, RemoveName, ownVars, Bound, Stopped, Ended
<1>2. NameFollowsServer'
  BY UnixAssumption DEF UnixInv, UnixTypeOK, NameFollowsServer, RemoveName, ownVars, Bound, Stopped
<1>3. MessageInv'
  BY DEF UnixInv, UnixTypeOK, MessageInv, Left, Ended, RemoveName, ownVars
<1> QED
  BY <1>1, <1>2, <1>3 DEF UnixInv

\* Every step of part 1 keeps its invariant.
LEMMA UnixServerStep == UnixInv /\ [UnixNext]_unixVars => UnixInv'
<1> SUFFICES ASSUME UnixInv, [UnixNext]_unixVars PROVE UnixInv'
  OBVIOUS
<1>1. CASE UNCHANGED unixVars
  <2>1. UNCHANGED <<at, newsock, opened, text, limit, path, queue, peer, host, sent, answer>>
    BY <1>1 DEF unixVars, ownVars
  <2> QED
    BY <2>1 DEF UnixInv, UnixTypeOK, NameFollowsServer, MessageInv, Left
<1>2. CASE \E s \in Servers : ServerStep(s) \/ Interrupt(s)
  BY <1>2, BindStep, SignalStep, ListenStep, AcceptPeerStep, RecvStep, RespondStep,
     PrintMessageStep, InterruptStep, UnlinkStep DEF ServerStep
<1>3. CASE \E c \in Peers : ClientStep(c) \/ KillPeer(c)
  BY <1>3, ConnectPeerStep, SendMessageStep, ReceiveAnswerStep, KillPeerStep DEF ClientStep
<1> QED
  BY <1>1, <1>2, <1>3, RemoveNameStep DEF UnixNext

-------------------------------------------------------------------------------
(* Both parts *)

\* Both invariants hold of the two programs side by side.
LEMMA Lab08Invariant == Lab08Spec => []SelectInv /\ []UnixInv
<1>1. Lab08Init => SelectInv /\ UnixInv
  BY SelectInit, UnixInitial DEF Lab08Init
<1>2. [Lab08Next]_lab08Vars => [Next]_vars /\ [UnixNext]_unixVars
  BY DEF Lab08Next, lab08Vars
<1> QED
  BY <1>1, <1>2, SelectServerStep, UnixServerStep, PTL DEF Lab08Spec

\* Type correctness: sockets, slots, queues and calls are what they are meant to be.
THEOREM Lab08Types == Lab08Spec => [](TypeOK /\ UnixTypeOK)
BY Lab08Invariant, PTL DEF SelectInv, UnixInv

\* recv() of the select() server never blocks: what select() found readable still
\* is when the scan reaches its slot.
THEOREM ServerNeverBlocks == Lab08Spec => []RecvNeverBlocks
<1>1. SelectInv => RecvNeverBlocks
  BY DEF SelectInv, TypeOK, ScanInv, RecvNeverBlocks, InSet, LastSlot, Slots
<1> QED
  BY <1>1, Lab08Invariant, PTL

\* A connected client has exactly one place: a slot, the backlog, or among the lost.
THEOREM OnePlaceEach == Lab08Spec => []OneSlotEach
<1>1. SelectInv => OneSlotEach
  <2> SUFFICES ASSUME SelectInv PROVE OneSlotEach
    OBVIOUS
  <2>1. \A c \in Clients : (\E s \in Slots : arr_sock[s] = c) => c \in Served
    BY SelectAssumption DEF Served
  <2>2. DOMAIN backlog = 1 .. Len(backlog)
    BY DEF SelectInv, TypeOK
  <2> QED
    BY <2>1, <2>2 DEF SelectInv, SlotsInv, PresentInv, OneSlotEach, Served
<1> QED
  BY <1>1, Lab08Invariant, PTL

\* No request is lost and none is answered twice.
THEOREM RequestsAreAnsweredOnce == Lab08Spec => []AnswersMatchRequests
<1>1. SelectInv => AnswersMatchRequests
  BY DEF SelectInv, RequestsInv, RequestInv, AnswersMatchRequests, Sending
<1> QED
  BY <1>1, Lab08Invariant, PTL

\* The select() server ends only because of a client that died with an answer
\* unread, or of a full descriptor table.
THEOREM ReasonsToDie == Lab08Spec => []DiesOnlyOfResetOrFullTable
<1>1. SelectInv => DiesOnlyOfResetOrFullTable
  BY SelectAssumption DEF SelectInv, DeadInv, DiesOnlyOfResetOrFullTable, Served
<1> QED
  BY <1>1, Lab08Invariant, PTL

\* Both servers print what the client they serve has sent, part 2 unless the
\* connection was reset, although neither checks what recv() returned.
THEOREM PrintsWhatWasSent == Lab08Spec => []PrintsOwnText
<1>1. SelectInv /\ UnixInv => PrintsOwnText
  BY DEF SelectInv, SendInv, UnixInv, MessageInv, PrintsOwnText, PrintsOwnRequest, PrintsOwnMessage
<1> QED
  BY <1>1, Lab08Invariant, PTL

\* From bind() to its own unlink() the name is the server's, whatever the others do.
THEOREM NameIsKept == Lab08Spec => []NameFollowsServer
BY Lab08Invariant, PTL DEF UnixInv

===============================================================================
