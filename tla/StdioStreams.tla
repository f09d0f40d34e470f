----------------------------- MODULE StdioStreams -----------------------------
(***************************************************************************)
(* Laboratory 5: the programs that open one file twice and pass its        *)
(* characters through two buffers.  app1.c and app1_threads.c put two      *)
(* stdio streams on one descriptor, so that both share its offset; app2.c  *)
(* and app2_threads_right.c open the file twice and read single            *)
(* characters; app3.c and app3_threads.c write it through two streams.     *)
(*                                                                         *)
(* No program looks at the result of an open(), fdopen() or fopen().       *)
(* read() and write() are atomic, as they are for one description of a     *)
(* regular file, and do not fail once it is open.  A character is its      *)
(* number in alphabet.txt.                                                 *)
(***************************************************************************)
EXTENDS Integers, Sequences, FiniteSets

CONSTANTS
  Length,     \* characters of alphabet.txt, and letters of the alphabet
  BUFF_SIZE   \* the size setvbuf() gives the buffers of app1.c

ASSUME StreamsAssumption == Length \in Nat /\ BUFF_SIZE \in Nat \ {0}

Programs == {"app1", "app1_threads", "app2", "app2_threads_right", "app3", "app3_threads"}
Streams  == {1, 2}   \* in the programs with threads, 1 is main()'s

VARIABLES
  program, \* the program that runs
  at,      \* the next statement for each stream
  turn,    \* without threads: the stream that comes next
  mutex,   \* the stream whose thread holds it, or 0
  ready,   \* is the stream's file open?
  off,     \* the offsets of the open file descriptions
  buf,     \* the characters in the buffers
  held,    \* the character of fscanf() or read(), or 0
  printed, \* the terminal: streams and their characters, 0 for a newline
  file,    \* what is in the file of app3
  old      \* what was in it before

streamVars == <<program, at, turn, mutex, ready, off, buf, held, printed, file, old>>

Shared   == program \in {"app1", "app1_threads"}
Threaded == program \in {"app1_threads", "app2_threads_right", "app3_threads"}
Reads    == program \notin {"app3", "app3_threads"}

Places == {"create", "lock", "newline", "scan", "peek", "print", "eof", "unlock",
            "open", "fill", "close", "join", "none", "end", "crash"}

StreamsTypeOK ==
  /\ program \in Programs
  /\ at \in [Streams -> Places]
  /\ turn \in Streams
  /\ mutex \in Streams \cup {0}
  /\ ready \in [Streams -> BOOLEAN]
  /\ off \in [Streams -> 0 .. Length]
  /\ buf \in [Streams -> Seq(1 .. Length)]
  /\ held \in [Streams -> 0 .. Length]
  /\ printed \in Seq(Streams \X (0 .. Length))
  /\ file \in Seq(0 .. Length)
  /\ old \in Seq(0 .. Length)

StreamsInit ==
  /\ program \in Programs
  /\ at = [f \in Streams |-> IF f = 2 /\ Threaded THEN "none"
                             ELSE IF program = "app3_threads" THEN "create" ELSE "open"]
  /\ turn = 1 /\ mutex = 0
  /\ ready = [f \in Streams |-> FALSE]
  /\ off = [f \in Streams |-> 0]
  /\ buf = [f \in Streams |-> <<>>]
  /\ held = [f \in Streams |-> 0]
  /\ printed = <<>>
  /\ old \in {<<>>, <<0>>}
  /\ file = old

\* Statement f is at from; without threads it is its turn, which may pass on.
From(f, from) == at[f] = from /\ (Threaded \/ turn = f)
To(f, where)  == at' = [at EXCEPT ![f] = where]
Pass == turn' = IF Threaded THEN turn ELSE 3 - turn

\* A NULL stream is used: the program is killed with its threads.
Crash ==
  /\ at' = [f \in Streams |-> "crash"]
  /\ UNCHANGED <<program, turn, mutex, ready, off, buf, held, printed, file, old>>

-------------------------------------------------------------------------------
(* Opening *)

\* app1.c and app1_threads.c: open() and fdopen() twice; setvbuf() of a stream that
\* could not be opened crashes.
OpenShared ==
  /\ Shared /\ at[1] = "open"
  /\ \/ /\ ready' = [f \in Streams |-> TRUE]
        /\ at' = IF Threaded THEN [at EXCEPT ![1] = "create"] ELSE [f \in Streams |-> "scan"]
        /\ UNCHANGED <<program, turn, mutex, off, buf, held, printed, file, old>>
     \/ Crash

\* app2.c and app2_threads_right.c: open() for each, which may fail.
OpenOwn(f) ==
  /\ Reads /\ ~Shared /\ From(f, "open")
  /\ \E ok \in BOOLEAN : ready' = [ready EXCEPT ![f] = ok]
  /\ To(f, IF ~Threaded THEN "scan" ELSE IF f = 1 THEN "create" ELSE "lock") /\ Pass
  /\ UNCHANGED <<program, mutex, off, buf, held, printed, file, old>>

-------------------------------------------------------------------------------
(* Threads *)

\* pthread_create() of app1_threads.c, whose result nobody looks at.
CreateUnchecked ==
  /\ program = "app1_threads" /\ at[1] = "create"
  /\ \/ at' = [f \in Streams |-> "scan"]
     \/ To(1, "scan")
  /\ UNCHANGED <<program, turn, mutex, ready, off, buf, held, printed, file, old>>

\* pthread_create() of the others: when it fails main() returns.
CreateChecked ==
  /\ program \in {"app2_threads_right", "app3_threads"} /\ at[1] = "create"
  /\ \/ /\ program = "app3_threads"
        /\ at' = [f \in Streams |-> "open"]
     \/ /\ program = "app2_threads_right"
        /\ at' = [f \in Streams |-> IF f = 1 THEN "newline" ELSE "open"]
     \/ To(1, "end")
  /\ UNCHANGED <<program, turn, mutex, ready, off, buf, held, printed, file, old>>

\* main() of app2_threads_right.c writes a newline before it locks the mutex.
Newline ==
  /\ at[1] = "newline"
  /\ printed' = Append(printed, <<1, 0>>)
  /\ To(1, "lock")
  /\ UNCHANGED <<program, turn, mutex, ready, off, buf, held, file, old>>

\* Seeded fault of Acquire: the mutex is never locked.
AcquireNot(f) ==
  /\ at[f] = "lock"
  /\ To(f, "scan")
  /\ UNCHANGED <<program, turn, mutex, ready, off, buf, held, printed, file, old>>

Acquire(f) ==
  /\ at[f] = "lock" /\ mutex = 0
  /\ mutex' = f
  /\ To(f, "scan")
  /\ UNCHANGED <<program, turn, ready, off, buf, held, printed, file, old>>

Release(f) ==
  /\ at[f] = "unlock"
  /\ mutex' = 0
  /\ To(f, IF f = 1 THEN "join" ELSE "end")
  /\ UNCHANGED <<program, turn, ready, off, buf, held, printed, file, old>>

\* The thread has ended, or its tid was never set.
Joined == at[2] \in {"end", "none"}

\* pthread_join(); of a tid that was never set anything may come.
JoinThread ==
  /\ at[1] = "join" /\ Joined
  /\ \/ To(1, "end")
     \/ at[2] = "none" /\ at' = [f \in Streams |-> "crash"]
  /\ UNCHANGED <<program, turn, mutex, ready, off, buf, held, printed, file, old>>

-------------------------------------------------------------------------------
(* Reading *)

\* Seeded fault of Desc: one open() for each stream of app1.c.
DescOfEach(f) == f

\* The open file description under stream f.
Desc(f) == IF Shared THEN 1 ELSE f

\* What the stream's buffer holds after read(), if it was empty.  The descriptor of
\* a file that could not be opened gives nothing, like the end of the file.
Filled(f) ==
  LET size == IF Shared THEN BUFF_SIZE ELSE 1
      from == off[Desc(f)]
      to   == IF from + size < Length THEN from + size ELSE Length
  IN  IF buf[f] # <<>> \/ ~ready[f] THEN buf[f] ELSE [k \in 1 .. to - from |-> from + k]

Refill(f) == off' = IF buf[f] # <<>> THEN off ELSE [off EXCEPT ![Desc(f)] = @ + Len(Filled(f))]

\* The end of the file, or of what can be read: a thread leaves its loop, the loop
\* without threads ends when both streams are at their end.
EndOfFile(f) ==
  CASE program = "app2_threads_right" -> To(f, "unlock")
    [] program = "app1_threads" -> To(f, IF f = 1 THEN "join" ELSE "end")
    [] OTHER -> IF f = 2 /\ at[1] = "eof" THEN at' = [g \in Streams |-> "end"] ELSE To(f, "eof")

\* fscanf(), or read() of one character.
Scan(f) ==
  /\ From(f, "scan") \/ From(f, "eof")
  /\ Refill(f)
  /\ IF Filled(f) = <<>>
     THEN EndOfFile(f) /\ Pass /\ UNCHANGED <<buf, held>>
     ELSE /\ held' = [held EXCEPT ![f] = Head(Filled(f))]
          /\ buf' = [buf EXCEPT ![f] = Tail(Filled(f))]
          /\ To(f, IF program = "app1_threads" THEN "peek" ELSE "print")
          /\ UNCHANGED turn
  /\ UNCHANGED <<program, mutex, ready, printed, file, old>>

\* The "\n" of app1_threads.c's format looks for more blanks, which fills an
\* empty buffer before the character is printed.
Peek(f) ==
  /\ From(f, "peek")
  /\ Refill(f)
  /\ buf' = [buf EXCEPT ![f] = Filled(f)]
  /\ To(f, "print")
  /\ UNCHANGED <<program, turn, mutex, ready, held, printed, file, old>>

Output(f) ==
  /\ From(f, "print")
  /\ printed' = Append(printed, <<f, held[f]>>)
  /\ held' = [held EXCEPT ![f] = 0]
  /\ To(f, "scan") /\ Pass
  /\ UNCHANGED <<program, mutex, ready, off, buf, file, old>>

-------------------------------------------------------------------------------
(* Writing *)

\* Every second letter: A, C, ... or B, D, ...
Letters(f) ==
  LET first == IF program = "app3" THEN f ELSE 3 - f
  IN  [k \in 1 .. (Length + 2 - first) \div 2 |-> first + 2 * (k - 1)]

\* Seeded fault of Appends: fopen(FILE_OUT, "w") in both programs.
AppendsNot == FALSE

\* app3_threads.c opens the file with "a", app3.c with "w".
Appends == program = "app3_threads"

\* ftell() of a stream that fopen() could not open crashes.
FOpen(f) ==
  /\ ~Reads /\ From(f, "open")
  /\ \/ /\ ready' = [ready EXCEPT ![f] = TRUE]
        /\ file' = IF Appends THEN file ELSE <<>>
        /\ To(f, "fill") /\ Pass
        /\ UNCHANGED <<program, mutex, off, buf, held, printed, old>>
     \/ Crash

\* All the fprintf() of a stream: its letters fit into its buffer.
Fill(f) ==
  /\ From(f, "fill")
  /\ buf' = [buf EXCEPT ![f] = Letters(f)]
  /\ To(f, "close") /\ Pass
  /\ UNCHANGED <<program, mutex, ready, off, held, printed, file, old>>

\* fclose() writes the buffer: at the end of the file, or over its beginning.
FClose(f) ==
  /\ From(f, "close")
  /\ file' = IF Appends THEN file \o buf[f]
                        ELSE buf[f] \o SubSeq(file, Len(buf[f]) + 1, Len(file))
  /\ buf' = [buf EXCEPT ![f] = <<>>]
  /\ To(f, IF Threaded /\ f = 1 THEN "join" ELSE "end") /\ Pass
  /\ UNCHANGED <<program, mutex, ready, off, held, printed, old>>

-------------------------------------------------------------------------------
StreamStep(f) ==
  \/ Acquire(f) \/ Release(f) \/ Scan(f) \/ Peek(f) \/ Output(f)
  \/ OpenOwn(f) \/ FOpen(f) \/ Fill(f) \/ FClose(f)

MainStep == OpenShared \/ CreateUnchecked \/ CreateChecked \/ Newline \/ JoinThread \/ StreamStep(1)

Over == at[1] = "crash" \/ (at[1] = "end" /\ (Threaded \/ at[2] = "end"))

StreamsNext == MainStep \/ StreamStep(2) \/ (Over /\ UNCHANGED streamVars)

StreamsSpec ==
  /\ StreamsInit /\ [][StreamsNext]_streamVars
  /\ WF_streamVars(MainStep) /\ WF_streamVars(StreamStep(2))

-------------------------------------------------------------------------------
(* Properties *)

\* The characters that stream f has printed, and all it has taken from the file:
\* printed, held or in its buffer.
Shown(f) == {printed[i][2] : i \in {j \in DOMAIN printed : printed[j][1] = f}} \ {0}
Taken(f) == Shown(f) \cup ({held[f]} \ {0}) \cup {buf[f][k] : k \in DOMAIN buf[f]}

\* Stream f keeps the order of the file and shows no character twice: what it
\* holds comes behind what it has printed, and its buffer behind both.
Ascending(f) ==
  /\ \A i, j \in DOMAIN printed :
       i < j /\ printed[i][1] = f /\ printed[j][1] = f /\ printed[j][2] # 0 =>
         printed[i][2] < printed[j][2]
  /\ held[f] # 0 => \A n \in Shown(f) : n < held[f]
  /\ \A k \in DOMAIN buf[f] :
       /\ \A n \in Shown(f) \cup {held[f]} : n < buf[f][k]
       /\ \A l \in 1 .. k - 1 : buf[f][l] < buf[f][k]

\* Two streams on one descriptor share the file between them, two descriptors
\* read it twice: every character read is in one place only, and each stream
\* keeps the order of the file.  A program that ends after its thread was created
\* has printed all of it: once through a shared descriptor, otherwise once for each
\* descriptor that could be opened.
EveryCharacterOnce ==
  Reads =>
    /\ \A f \in Streams : Ascending(f)
    /\ IF Shared THEN Taken(1) \cup Taken(2) = 1 .. off[1] /\ Taken(1) \cap Taken(2) = {}
                 ELSE \A f \in Streams : Taken(f) = 1 .. off[f]
    /\ at[1] = "end" /\ Over /\ at[2] # "none" =>
         IF Shared THEN Shown(1) \cup Shown(2) = 1 .. Length
                   ELSE \A f \in Streams : ready[f] => Shown(f) = 1 .. Length

\* With the mutex held for the whole file the copies of app2_threads_right.c come
\* one after the other, whatever happens to the newline; app2.c prints each
\* character twice in a row if both its descriptors are open.
CopiesDoNotMix ==
  /\ program = "app2_threads_right" =>
       \A i, j, k \in DOMAIN printed :
         /\ i < j /\ j < k /\ printed[i][1] = printed[k][1]
         /\ 0 \notin {printed[i][2], printed[j][2], printed[k][2]}
         => printed[j][1] = printed[i][1]
  /\ program = "app2" /\ ready[1] /\ ready[2] =>
       \A n \in DOMAIN printed : n % 2 = 0 => printed[n][2] = printed[n - 1][2]

\* Opened with "a" the file keeps what was in it, and both buffers one after the
\* other; opened with "w" the stream that is closed last overwrites the other.
BuffersReachFile ==
  /\ program = "app3_threads" =>
       \E f \in Streams :
         file \in {old, old \o Letters(f), old \o Letters(f) \o Letters(3 - f)}
  /\ at[1] = "end" /\ Over /\ at[2] # "none" =>
       CASE program = "app3_threads" -> Len(file) = Len(old) + Length
         [] program = "app3" -> SubSeq(file, 1, Length \div 2) = Letters(2)
         [] OTHER -> TRUE

===============================================================================
