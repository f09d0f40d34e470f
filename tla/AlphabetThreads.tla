---------------------------- MODULE AlphabetThreads ----------------------------
(***************************************************************************)
(* Laboratory 5, app2_threads.c: two threads print one file between them.  *)
(* Each has opened the file for itself, so each has its own file offset;   *)
(* the shared filePos says which character is next, and a mutex is held    *)
(* from the lseek() to the increment.  A character is known by its         *)
(* position in the file, 0 to N - 1.                                       *)
(***************************************************************************)
EXTENDS Integers, Sequences

CONSTANT N   \* the number of characters in alphabet.txt

ASSUME AlphabetAssumption == N \in Nat

Threads == {"main", "thr_fn"}

\* The colour of threadNum 1 is red, that of 2 green.
Colour == [t \in Threads |-> IF t = "main" THEN "red" ELSE "green"]

VARIABLES
  pc,       \* the next statement of each thread, "new" before it exists
  holder,   \* the thread that has locked the mutex
  filePos,
  opened,   \* did the thread's open() succeed?
  offset,   \* the file offset of each thread's descriptor
  rc,       \* what the thread's last read() returned
  c,        \* the character it has read
  colour,   \* the colour the terminal writes in
  out       \* what has been written: characters and their colours

vars == <<pc, holder, filePos, opened, offset, rc, c, colour, out>>

Section == {"lseek", "read", "paint", "write", "reset", "advance", "unlock"}
Stages  == {"new", "open", "create", "lock", "sleep", "join", "end"} \cup Section

\* Every thread is at one of its statements.
TypeOK ==
  /\ pc \in [Threads -> Stages]
  /\ holder \in Threads \cup {"nobody"}
  /\ filePos \in 0 .. N + 2
  /\ opened \in [Threads -> BOOLEAN]
  /\ offset \in [Threads -> 0 .. N + 2]
  /\ rc \in [Threads -> {-1, 0, 1}]
  /\ c \in [Threads -> -1 .. N - 1]
  /\ colour \in {"none", "red", "green"}
  /\ out \in Seq([char : 0 .. N - 1, colour : {"none", "red", "green"}])

Init ==
  /\ pc = [t \in Threads |-> IF t = "main" THEN "open" ELSE "new"]
  /\ holder = "nobody"
  /\ filePos = 0
  /\ opened = [t \in Threads |-> FALSE]
  /\ offset = [t \in Threads |-> 0]
  /\ rc = [t \in Threads |-> 1]
  /\ c = [t \in Threads |-> -1]
  /\ colour = "none"
  /\ out = <<>>

Goto(t, from, to) ==
  /\ pc[t] = from
  /\ pc' = [pc EXCEPT ![t] = to]

-------------------------------------------------------------------------------
(* main() and thr_fn() *)

\* open() of alphabet.txt, whose result nobody looks at.
Open(t) ==
  /\ Goto(t, "open", IF t = "main" THEN "create" ELSE "lock")
  /\ \E ok \in BOOLEAN : opened' = [opened EXCEPT ![t] = ok]
  /\ UNCHANGED <<holder, filePos, offset, rc, c, colour, out>>

\* pthread_create(); when it fails the program ends.
CreateThread ==
  /\ pc["main"] = "create"
  /\ pc' = [t \in Threads |-> IF t = "main" THEN "lock" ELSE "open"]
  /\ UNCHANGED <<holder, filePos, opened, offset, rc, c, colour, out>>

CreateFails ==
  /\ Goto("main", "create", "end")
  /\ UNCHANGED <<holder, filePos, opened, offset, rc, c, colour, out>>

\* After sleep(1) the loop goes on as long as the last read() was good.
Sleep(t) ==
  /\ Goto(t, "sleep", IF rc[t] = 1 THEN "lock"
                      ELSE IF t = "main" THEN "join" ELSE "end")
  /\ UNCHANGED <<holder, filePos, opened, offset, rc, c, colour, out>>

\* pthread_join(), and the line is ended.
Join ==
  /\ pc["thr_fn"] = "end"
  /\ Goto("main", "join", "end")
  /\ UNCHANGED <<holder, filePos, opened, offset, rc, c, colour, out>>

-------------------------------------------------------------------------------
(* outputFile() *)

\* Seeded fault of Lock: the mutex is not taken.
LockNot(t) ==
  /\ Goto(t, "lock", "lseek")
  /\ UNCHANGED <<holder, filePos, opened, offset, rc, c, colour, out>>

Lock(t) ==
  /\ Goto(t, "lock", "lseek")
  /\ holder = "nobody"
  /\ holder' = t
  /\ UNCHANGED <<filePos, opened, offset, rc, c, colour, out>>

\* Seeded fault of Lseek: the position is not restored, as without filePos.
LseekNot(t) ==
  /\ Goto(t, "lseek", "read")
  /\ UNCHANGED <<holder, filePos, opened, offset, rc, c, colour, out>>

\* lseek(fd, filePos, SEEK_SET), beyond the end of the file too.
Lseek(t) ==
  /\ Goto(t, "lseek", "read")
  /\ offset' = [offset EXCEPT ![t] = IF opened[t] THEN filePos ELSE @]
  /\ UNCHANGED <<holder, filePos, opened, rc, c, colour, out>>

\* rc = read(fd, &c, 1): -1 without a file, 0 at its end.
Read(t) ==
  /\ pc[t] = "read"
  /\ \/ /\ opened[t] /\ offset[t] < N
        /\ rc' = [rc EXCEPT ![t] = 1]
        /\ c' = [c EXCEPT ![t] = offset[t]]
        /\ offset' = [offset EXCEPT ![t] = @ + 1]
        /\ Goto(t, "read", "paint")
     \/ /\ ~(opened[t] /\ offset[t] < N)
        /\ rc' = [rc EXCEPT ![t] = IF opened[t] THEN 0 ELSE -1]
        /\ Goto(t, "read", "advance")
        /\ UNCHANGED <<c, offset>>
  /\ UNCHANGED <<holder, filePos, opened, colour, out>>

\* printf() of the thread's colour; stdout has no buffer.
Paint(t) ==
  /\ Goto(t, "paint", "write")
  /\ colour' = Colour[t]
  /\ UNCHANGED <<holder, filePos, opened, offset, rc, c, out>>

\* write(1, &c, 1).
Write(t) ==
  /\ Goto(t, "write", "reset")
  /\ out' = Append(out, [char |-> c[t], colour |-> colour])
  /\ UNCHANGED <<holder, filePos, opened, offset, rc, c, colour>>

\* printf(RESET).
Reset(t) ==
  /\ Goto(t, "reset", "advance")
  /\ colour' = "none"
  /\ UNCHANGED <<holder, filePos, opened, offset, rc, c, out>>

\* Seeded fault of Advance: filePos moves twice.
AdvanceTwice(t) ==
  /\ Goto(t, "advance", "unlock")
  /\ filePos' = filePos + 2
  /\ UNCHANGED <<holder, opened, offset, rc, c, colour, out>>

\* filePos++, whether or not a character was read.
Advance(t) ==
  /\ Goto(t, "advance", "unlock")
  /\ filePos' = filePos + 1
  /\ UNCHANGED <<holder, opened, offset, rc, c, colour, out>>

\* Seeded fault of Unlock: an early return forgets the mutex at the end of the
\* file.
UnlockForgotten(t) ==
  /\ Goto(t, "unlock", "sleep")
  /\ holder' = IF rc[t] = 1 THEN "nobody" ELSE holder
  /\ UNCHANGED <<filePos, opened, offset, rc, c, colour, out>>

Unlock(t) ==
  /\ Goto(t, "unlock", "sleep")
  /\ holder' = "nobody"
  /\ UNCHANGED <<filePos, opened, offset, rc, c, colour, out>>

Step(t) ==
  \/ Open(t) \/ Sleep(t) \/ Lock(t) \/ Lseek(t) \/ Read(t)
  \/ Paint(t) \/ Write(t) \/ Reset(t) \/ Advance(t) \/ Unlock(t)

Ended == pc["main"] = "end" /\ UNCHANGED vars

Next == CreateThread \/ CreateFails \/ Join \/ Ended \/ \E t \in Threads : Step(t)

Spec == Init /\ [][Next]_vars

\* Both threads are scheduled.  The mutex need not be fair: a thread that has
\* met the end of the file does not come back to it.
FairSpec ==
  /\ Spec
  /\ WF_vars(CreateThread \/ CreateFails) /\ WF_vars(Join)
  /\ \A t \in Threads : WF_vars(Step(t))

-------------------------------------------------------------------------------
(* Properties *)

\* No character is written twice and none before an earlier one, whichever
\* thread writes it and whichever open() failed.
InOrder ==
  \A i, j \in DOMAIN out : i < j => out[i].char < out[j].char

\* Every character has the colour of the thread that has just read it: between
\* a thread's printf() and its write() the other one prints nothing.
OwnColour ==
  \A t \in Threads :
    /\ pc[t] = "write" => colour = Colour[t]
    /\ pc[t] = "paint" => colour = "none"

\* When main() ends after both threads have had the file, all of it has been
\* written.
AllWritten ==
  pc["main"] = "end" /\ (\A t \in Threads : opened[t]) => Len(out) = N

\* The program ends: no thread waits for ever for the mutex or the other one.
Ends == <>(pc["main"] = "end")

===============================================================================
