------------------------------ MODULE UnixServer ------------------------------
(***************************************************************************)
(* Laboratory 8, part 1: servers and clients that meet at the name         *)
(* SOCK_NAME of an AF_UNIX stream socket (server.c, client.c).  A client   *)
(* sends one message and waits for one answer.  The server takes one       *)
(* connection after the other and never closes one; the name in the file   *)
(* system outlives a server that does not end through its SIGINT handler,  *)
(* and bind() of the next one fails.                                       *)
(*                                                                         *)
(* The kernel's sockets are modelled from how the two programs use them: a *)
(* connection waits in the backlog until it is accepted; the end of a      *)
(* process closes its sockets; what was sent before stays readable; recv() *)
(* on a connection whose other end is closed returns without data; send()  *)
(* on it raises SIGPIPE.  A message is known by its client.                *)
(***************************************************************************)
EXTENDS Integers, Sequences, FiniteSets

CONSTANTS
  Servers, Peers, \* server processes and client processes; each runs main() once
  Nobody,         \* no process
  Waiting,        \* connections the kernel holds for accept(): listen(sock, 1)
  Limits          \* bound: how many accepted sockets a descriptor table may hold

ASSUME UnixAssumption ==
  /\ Nobody \notin Servers \cup Peers
  /\ ({Waiting} \cup Limits) \subseteq Nat \ {0}

VARIABLES
  at,      \* the server's next call, or how it has ended
  path,    \* the server whose socket SOCK_NAME refers to, or Nobody
  queue,   \* clients that wait for accept() at each server
  newsock, \* the client of the server's last accept()
  opened,  \* the clients it has accepted: no newsock is ever closed
  text,    \* whose message the server's buf holds
  peer,    \* where each client is in main(), or how it has ended
  host,    \* the server a client is connected to
  sent,    \* is its message waiting in the server's socket?
  answer,  \* is an answer waiting in its socket?
  limit    \* the accepted sockets a descriptor table holds (ulimit -n)

ownVars  == <<at, newsock, opened, text, limit>>
unixVars == <<ownVars, path, queue, peer, host, sent, answer>>

\* The calls of a server; from "signal" on its socket has the name.
Bound   == {"signal", "listen", "accept", "recv", "send", "print"}
Stopped == {"refused", "interrupted", "exited", "nosignal", "unheard", "full", "pipe"}
Ended   == {"refused", "answered", "reset", "killed"}

UnixTypeOK ==
  /\ at \in [Servers -> {"bind", "unlink"} \cup Bound \cup Stopped]
  /\ path \in Servers \cup {Nobody}
  /\ queue \in [Servers -> Seq(Peers)]
  /\ newsock \in [Servers -> Peers \cup {Nobody}]
  /\ opened \in [Servers -> SUBSET Peers]
  /\ text \in [Servers -> Peers \cup {Nobody}]
  /\ peer \in [Peers -> {"connect", "send", "recv"} \cup Ended]
  /\ host \in [Peers -> Servers \cup {Nobody}]
  /\ sent \in [Peers -> BOOLEAN]
  /\ answer \in [Peers -> BOOLEAN]
  /\ limit \in Limits

UnixInit ==
  /\ at = [s \in Servers |-> "bind"]
  /\ path = Nobody
  /\ queue = [s \in Servers |-> <<>>]
  /\ newsock = [s \in Servers |-> Nobody]
  /\ opened = [s \in Servers |-> {}]
  /\ text = [s \in Servers |-> Nobody]
  /\ peer = [c \in Peers |-> "connect"]
  /\ host = [c \in Peers |-> Nobody]
  /\ sent = [c \in Peers |-> FALSE]
  /\ answer = [c \in Peers |-> FALSE]
  /\ limit \in Limits

\* Has the other end of the connection been closed?
Hungup(c) == host[c] # Nobody /\ at[host[c]] \in Stopped \cup {"unlink"}
Left(c)   == peer[c] \in Ended

Goto(s, where) == at' = [at EXCEPT ![s] = where]

-------------------------------------------------------------------------------
(* server.c *)

\* Seeded fault of Bind: a server whose bind() failed cleans up on its way out.
BindCleansUp(s) ==
  /\ at[s] = "bind"
  /\ IF path = Nobody THEN Goto(s, "signal") /\ path' = s
                    ELSE Goto(s, "refused") /\ path' = Nobody
  /\ UNCHANGED <<newsock, opened, text, queue, peer, host, sent, answer, limit>>

\* socket() and bind(), which fails when the name exists, whoever it belongs to.
Bind(s) ==
  /\ at[s] = "bind"
  /\ IF path = Nobody THEN Goto(s, "signal") /\ path' = s
                    ELSE Goto(s, "refused") /\ UNCHANGED path
  /\ UNCHANGED <<newsock, opened, text, queue, peer, host, sent, answer, limit>>

\* signal(); when it fails the server cleans up and ends.
Signal(s) ==
  /\ at[s] = "signal"
  /\ \/ Goto(s, "listen") /\ UNCHANGED path
     \/ Goto(s, "nosignal") /\ path' = Nobody
  /\ UNCHANGED <<newsock, opened, text, queue, peer, host, sent, answer, limit>>

\* listen(); when it fails the server ends without cleanup.
Listen(s) ==
  /\ at[s] = "listen"
  /\ Goto(s, "accept") \/ Goto(s, "unheard")
  /\ UNCHANGED <<path, newsock, opened, text, queue, peer, host, sent, answer, limit>>

\* accept(), which fails when the descriptor table is full.
AcceptPeer(s) ==
  /\ at[s] = "accept"
  /\ queue[s] # <<>>
  /\ IF Cardinality(opened[s]) < limit
     THEN LET c == Head(queue[s])
          IN  /\ newsock' = [newsock EXCEPT ![s] = c]
              /\ opened' = [opened EXCEPT ![s] = @ \cup {c}]
              /\ queue' = [queue EXCEPT ![s] = Tail(@)]
              /\ Goto(s, "recv")
     ELSE Goto(s, "full") /\ UNCHANGED <<newsock, opened, queue>>
  /\ UNCHANGED <<path, text, peer, host, sent, answer, limit>>

\* recv(): the message, or 0 when the client left without one.  Nobody looks at
\* the result, and buf keeps what it held.
Recv(s) ==
  LET c == newsock[s]
  IN  /\ at[s] = "recv"
      /\ sent[c] \/ Left(c)
      /\ text' = [text EXCEPT ![s] = IF sent[c] THEN c ELSE @]
      /\ sent' = [sent EXCEPT ![c] = FALSE]
      /\ Goto(s, "send")
      /\ UNCHANGED <<path, newsock, opened, queue, peer, host, answer, limit>>

\* Seeded fault of Respond: a failed send() neither kills nor ends the server.
RespondOrNot(s) ==
  /\ at[s] = "send"
  /\ answer' = [answer EXCEPT ![newsock[s]] = ~Left(newsock[s])]
  /\ Goto(s, "print")
  /\ UNCHANGED <<path, newsock, opened, text, queue, peer, host, sent, limit>>

\* send() of the server's pid: SIGPIPE when the client has left.
Respond(s) ==
  /\ at[s] = "send"
  /\ IF Left(newsock[s])
     THEN Goto(s, "pipe") /\ UNCHANGED answer
     ELSE Goto(s, "print") /\ answer' = [answer EXCEPT ![newsock[s]] = TRUE]
  /\ UNCHANGED <<path, newsock, opened, text, queue, peer, host, sent, limit>>

\* printf() of buf, and the next connection.
PrintMessage(s) ==
  /\ at[s] = "print"
  /\ Goto(s, "accept")
  /\ UNCHANGED <<path, newsock, opened, text, queue, peer, host, sent, answer, limit>>

\* SIGINT, at any moment: its handler closes the socket; before signal() it has
\* the default action, and the name stays.
Interrupt(s) ==
  /\ at[s] \in Bound
  /\ Goto(s, IF at[s] = "signal" THEN "interrupted" ELSE "unlink")
  /\ UNCHANGED <<path, newsock, opened, text, queue, peer, host, sent, answer, limit>>

\* The end of the handler: unlink() and exit(0).
Unlink(s) ==
  /\ at[s] = "unlink"
  /\ path' = Nobody
  /\ Goto(s, "exited")
  /\ UNCHANGED <<newsock, opened, text, queue, peer, host, sent, answer, limit>>

-------------------------------------------------------------------------------
(* client.c *)

\* connect(): refused without the name or without a server that listens at it;
\* it waits while the backlog is full.
ConnectPeer(c) ==
  /\ peer[c] = "connect"
  /\ IF path # Nobody /\ at[path] \in Bound \ {"signal", "listen"}
     THEN /\ Len(queue[path]) < Waiting
          /\ queue' = [queue EXCEPT ![path] = Append(@, c)]
          /\ host' = [host EXCEPT ![c] = path]
          /\ peer' = [peer EXCEPT ![c] = "send"]
     ELSE /\ peer' = [peer EXCEPT ![c] = "refused"]
          /\ UNCHANGED <<queue, host>>
  /\ UNCHANGED <<ownVars, path, sent, answer>>

\* send(); towards a server that has ended it kills the client.
SendMessage(c) ==
  /\ peer[c] = "send"
  /\ peer' = [peer EXCEPT ![c] = IF Hungup(c) THEN "reset" ELSE "recv"]
  /\ sent' = [sent EXCEPT ![c] = ~Hungup(c)]
  /\ UNCHANGED <<ownVars, path, queue, host, answer>>

\* recv() of the answer; when the server has ended without one the client
\* prints its bufServer, which nothing has been written to.
ReceiveAnswer(c) ==
  /\ peer[c] = "recv"
  /\ answer[c] \/ Hungup(c)
  /\ peer' = [peer EXCEPT ![c] = IF answer[c] THEN "answered" ELSE "reset"]
  /\ UNCHANGED <<ownVars, path, queue, host, sent, answer>>

\* The client is killed.
KillPeer(c) ==
  /\ peer[c] \in {"send", "recv"}
  /\ peer' = [peer EXCEPT ![c] = "killed"]
  /\ UNCHANGED <<ownVars, path, queue, host, sent, answer>>

\* Somebody removes the name a server left behind: what the code leaves to its
\* user.
RemoveName ==
  /\ path # Nobody
  /\ at[path] \in Stopped
  /\ path' = Nobody
  /\ UNCHANGED <<ownVars, queue, peer, host, sent, answer>>

-------------------------------------------------------------------------------
ServerStep(s) ==
  \/ Bind(s) \/ Signal(s) \/ Listen(s) \/ AcceptPeer(s) \/ Recv(s) \/ Respond(s)
  \/ PrintMessage(s) \/ Unlink(s)

ClientStep(c) == ConnectPeer(c) \/ SendMessage(c) \/ ReceiveAnswer(c)

UnixNext ==
  \/ \E s \in Servers : ServerStep(s) \/ Interrupt(s)
  \/ \E c \in Peers : ClientStep(c) \/ KillPeer(c)
  \/ RemoveName

\* Both programs run without waiting for a user.
UnixFairness ==
  /\ \A s \in Servers : WF_unixVars(ServerStep(s))
  /\ \A c \in Peers : WF_unixVars(ClientStep(c))

UnixSpec == UnixInit /\ [][UnixNext]_unixVars /\ UnixFairness

-------------------------------------------------------------------------------
(* Properties *)

\* SOCK_NAME belongs to the server that is running: from bind() on it keeps its
\* name until its own unlink(), whoever else starts or ends; and a name without
\* a server was left by one that did not end through its handler or cleanup().
NameFollowsServer ==
  /\ \A s \in Servers : at[s] \in Bound \cup {"unlink"} => path = s
  /\ path # Nobody => at[path] \notin {"bind", "refused", "exited", "nosignal"}

\* The server prints the message of the client it has just served, although it
\* never looks at what recv() returned and its buf keeps the last message.
PrintsOwnMessage ==
  \A s \in Servers : at[s] = "print" => text[s] = newsock[s]

\* A client that is connected gets its answer, unless somebody stopped a process:
\* the client itself, its server, or, through SIGPIPE, another client; or unless
\* the sockets that are never closed have filled the server's descriptor table.
EveryClientIsAnswered ==
  \A c \in Peers :
    (peer[c] = "send") ~>
      \/ peer[c] \in {"answered", "killed"}
      \/ \E s \in Servers :
           /\ host[c] = s
           /\ \/ at[s] \in {"exited", "full"}
              \/ at[s] = "pipe" /\ \E d \in Peers : peer[d] = "killed"

===============================================================================
