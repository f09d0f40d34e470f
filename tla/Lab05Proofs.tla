------------------------------ MODULE Lab05Proofs ------------------------------
(***************************************************************************)
(* Proofs about laboratory 5, for a file of any length and buffers of any  *)
(* size: first app2_threads.c (AlphabetThreads), then the programs with    *)
(* two buffers (StdioStreams), and what follows for Lab05.                 *)
(*                                                                         *)
(* What the mutex of app2_threads.c protects is stated as four facts that  *)
(* only the holder can disturb: who is inside (Mutex), where the           *)
(* terminal's colour comes from (Painted), where filePos and what has been *)
(* read stand to each other (Reading, Spent), and what has been written so *)
(* far (Written).                                                          *)
(***************************************************************************)
EXTENDS Lab05, SequenceTheorems, TLAPS

\* The mutex is held exactly by the thread between Lock and Unlock.
Mutex == \A t \in Threads : pc[t] \in Section <=> holder = t

\* The thread does not exist before main() has created it.
Created == pc["main"] \in {"open", "create"} => pc["thr_fn"] = "new"

\* The terminal has a colour only while a thread is about to write or to reset.
Painted ==
  /\ \A t \in Threads : pc[t] \in {"write", "reset"} => colour = Colour[t]
  /\ (\A t \in Threads : pc[t] \notin {"write", "reset"}) => colour = "none"

\* The thread inside has read the character at filePos, or has met the end.
Reading ==
  \A t \in Threads :
    /\ pc[t] \in {"new", "open"} => ~opened[t]
    /\ pc[t] \in Stages \ {"advance", "unlock", "sleep", "join", "end"} => rc[t] = 1
    /\ pc[t] = "read" /\ opened[t] => offset[t] = filePos
    /\ pc[t] \in {"paint", "write", "reset", "advance"} /\ rc[t] = 1 =>
         c[t] = filePos
    /\ opened[t] /\ rc[t] # 1 => filePos >= N
    /\ pc[t] = "join" => rc[t] # 1

\* A thread moves filePos past the end of the file at most once.
Spent(t) ==
  IF rc[t] # 1 /\ pc[t] \in {"unlock", "sleep", "join", "end"} THEN 1 ELSE 0
Bounded  == filePos <= N + Spent("main") + Spent("thr_fn")

\* Has the thread inside written the character at filePos?
Ahead == \E t \in Threads : pc[t] = "reset" \/ (pc[t] = "advance" /\ rc[t] = 1)

\* What is written lies before filePos, apart from the character just written.
Written ==
  /\ \A i \in DOMAIN out : out[i].char \in 0 .. filePos
  /\ ~Ahead => \A i \in DOMAIN out : out[i].char < filePos
  /\ InOrder

IInv == TypeOK /\ Created /\ Mutex /\ Painted /\ Reading /\ Bounded /\ Written

-------------------------------------------------------------------------------
(* Each part of the invariant is preserved by every step of a thread. *)

\* main() does not go back to its beginning.
LEMMA CreatedStep ==
  ASSUME IInv, [Next]_vars PROVE Created'
<1> USE DEF IInv, TypeOK, Threads, Stages, Section, Goto, Created
<1>1. ASSUME CreateThread PROVE Created'
  BY <1>1 DEF CreateThread
<1>2. ASSUME CreateFails PROVE Created'
  BY <1>2 DEF CreateFails
<1>3. ASSUME Join PROVE Created'
  BY <1>3 DEF Join
<1>4. ASSUME NEW t \in Threads, Open(t) PROVE Created'
  BY <1>4 DEF Open
<1>5. ASSUME NEW t \in Threads, Sleep(t) PROVE Created'
  BY <1>5 DEF Sleep
<1>6. ASSUME NEW t \in Threads, Lock(t) PROVE Created'
  BY <1>6 DEF Lock
<1>7. ASSUME NEW t \in Threads, Lseek(t) PROVE Created'
  BY <1>7 DEF Lseek
<1>8. ASSUME NEW t \in Threads, Read(t) PROVE Created'
  BY <1>8 DEF Read
<1>9. ASSUME NEW t \in Threads, Paint(t) PROVE Created'
  BY <1>9 DEF Paint
<1>10. ASSUME NEW t \in Threads, Write(t) PROVE Created'
  BY <1>10 DEF Write
<1>11. ASSUME NEW t \in Threads, Reset(t) PROVE Created'
  BY <1>11 DEF Reset
<1>12. ASSUME NEW t \in Threads, Advance(t) PROVE Created'
  BY <1>12 DEF Advance
<1>13. ASSUME NEW t \in Threads, Unlock(t) PROVE Created'
  BY <1>13 DEF Unlock
<1>14. CASE UNCHANGED vars
  BY <1>14 DEF vars
<1>15. QED
  BY <1>1, <1>2, <1>3, <1>4, <1>5, <1>6, <1>7, <1>8, <1>9, <1>10, <1>11, <1>12,
     <1>13, <1>14
  DEF Next, Step, Ended

\* Lock and Unlock are the only steps into and out of the section.
LEMMA MutexStep ==
  ASSUME IInv, [Next]_vars PROVE Mutex'
<1> USE AlphabetAssumption
    DEF IInv, TypeOK, Threads, Stages, Section, Goto, Mutex
<1>1. ASSUME CreateThread PROVE Mutex'
  BY <1>1 DEF CreateThread, Created
<1>2. ASSUME CreateFails PROVE Mutex'
  BY <1>2 DEF CreateFails
<1>3. ASSUME Join PROVE Mutex'
  BY <1>3 DEF Join
<1>4. ASSUME NEW t \in Threads, Open(t) PROVE Mutex'
  BY <1>4 DEF Open
<1>5. ASSUME NEW t \in Threads, Sleep(t) PROVE Mutex'
  BY <1>5 DEF Sleep
<1>6. ASSUME NEW t \in Threads, Lock(t) PROVE Mutex'
  BY <1>6 DEF Lock
<1>7. ASSUME NEW t \in Threads, Lseek(t) PROVE Mutex'
  BY <1>7 DEF Lseek
<1>8. ASSUME NEW t \in Threads, Read(t) PROVE Mutex'
  BY <1>8 DEF Read
<1>9. ASSUME NEW t \in Threads, Paint(t) PROVE Mutex'
  BY <1>9 DEF Paint
<1>10. ASSUME NEW t \in Threads, Write(t) PROVE Mutex'
  BY <1>10 DEF Write
<1>11. ASSUME NEW t \in Threads, Reset(t) PROVE Mutex'
  BY <1>11 DEF Reset
<1>12. ASSUME NEW t \in Threads, Advance(t) PROVE Mutex'
  BY <1>12 DEF Advance
<1>13. ASSUME NEW t \in Threads, Unlock(t) PROVE Mutex'
  BY <1>13 DEF Unlock
<1>14. CASE UNCHANGED vars
  BY <1>14 DEF vars
<1>15. QED
  BY <1>1, <1>2, <1>3, <1>4, <1>5, <1>6, <1>7, <1>8, <1>9, <1>10, <1>11, <1>12,
     <1>13, <1>14
  DEF Next, Step, Ended

\* Only the holder of the mutex prints a colour.
LEMMA PaintedStep ==
  ASSUME IInv, [Next]_vars PROVE Painted'
<1> USE AlphabetAssumption
    DEF IInv, TypeOK, Threads, Stages, Section, Goto, Mutex, Painted, Colour
<1>1. ASSUME CreateThread PROVE Painted'
  BY <1>1 DEF CreateThread, Created
<1>2. ASSUME CreateFails PROVE Painted'
  BY <1>2 DEF CreateFails
<1>3. ASSUME Join PROVE Painted'
  BY <1>3 DEF Join
<1>4. ASSUME NEW t \in Threads, Open(t) PROVE Painted'
  BY <1>4 DEF Open
<1>5. ASSUME NEW t \in Threads, Sleep(t) PROVE Painted'
  BY <1>5 DEF Sleep
<1>6. ASSUME NEW t \in Threads, Lock(t) PROVE Painted'
  BY <1>6 DEF Lock
<1>7. ASSUME NEW t \in Threads, Lseek(t) PROVE Painted'
  BY <1>7 DEF Lseek
<1>8. ASSUME NEW t \in Threads, Read(t) PROVE Painted'
  BY <1>8 DEF Read
<1>9. ASSUME NEW t \in Threads, Paint(t) PROVE Painted'
  BY <1>9 DEF Paint
<1>10. ASSUME NEW t \in Threads, Write(t) PROVE Painted'
  BY <1>10 DEF Write
<1>11. ASSUME NEW t \in Threads, Reset(t) PROVE Painted'
  BY <1>11 DEF Reset
<1>12. ASSUME NEW t \in Threads, Advance(t) PROVE Painted'
  BY <1>12 DEF Advance
<1>13. ASSUME NEW t \in Threads, Unlock(t) PROVE Painted'
  BY <1>13 DEF Unlock
<1>14. CASE UNCHANGED vars
  BY <1>14 DEF vars
<1>15. QED
  BY <1>1, <1>2, <1>3, <1>4, <1>5, <1>6, <1>7, <1>8, <1>9, <1>10, <1>11, <1>12,
     <1>13, <1>14
  DEF Next, Step, Ended

\* Between lseek() and the increment nobody else moves filePos.
LEMMA ReadingStep ==
  ASSUME IInv, [Next]_vars PROVE Reading'
<1> USE AlphabetAssumption
    DEF IInv, TypeOK, Threads, Stages, Section, Goto, Mutex, Reading
<1>1. ASSUME CreateThread PROVE Reading'
  BY <1>1 DEF CreateThread, Created
<1>2. ASSUME CreateFails PROVE Reading'
  BY <1>2 DEF CreateFails
<1>3. ASSUME Join PROVE Reading'
  BY <1>3 DEF Join
<1>4. ASSUME NEW t \in Threads, Open(t) PROVE Reading'
  BY <1>4 DEF Open
<1>5. ASSUME NEW t \in Threads, Sleep(t) PROVE Reading'
  BY <1>5 DEF Sleep
<1>6. ASSUME NEW t \in Threads, Lock(t) PROVE Reading'
  BY <1>6 DEF Lock
<1>7. ASSUME NEW t \in Threads, Lseek(t) PROVE Reading'
  BY <1>7 DEF Lseek
<1>8. ASSUME NEW t \in Threads, Read(t) PROVE Reading'
  BY <1>8 DEF Read
<1>9. ASSUME NEW t \in Threads, Paint(t) PROVE Reading'
  BY <1>9 DEF Paint
<1>10. ASSUME NEW t \in Threads, Write(t) PROVE Reading'
  BY <1>10 DEF Write
<1>11. ASSUME NEW t \in Threads, Reset(t) PROVE Reading'
  BY <1>11 DEF Reset
<1>12. ASSUME NEW t \in Threads, Advance(t) PROVE Reading'
  BY <1>12 DEF Advance
<1>13. ASSUME NEW t \in Threads, Unlock(t) PROVE Reading'
  BY <1>13 DEF Unlock
<1>14. CASE UNCHANGED vars
  BY <1>14 DEF vars
<1>15. QED
  BY <1>1, <1>2, <1>3, <1>4, <1>5, <1>6, <1>7, <1>8, <1>9, <1>10, <1>11, <1>12,
     <1>13, <1>14
  DEF Next, Step, Ended

\* A thread that has met the end of the file does not come back.
LEMMA BoundedStep ==
  ASSUME IInv, [Next]_vars PROVE Bounded'
<1> USE AlphabetAssumption
    DEF IInv, TypeOK, Threads, Stages, Section, Goto, Reading, Bounded, Spent
<1>1. ASSUME CreateThread PROVE Bounded'
  BY <1>1 DEF CreateThread, Created
<1>2. ASSUME CreateFails PROVE Bounded'
  BY <1>2 DEF CreateFails
<1>3. ASSUME Join PROVE Bounded'
  BY <1>3 DEF Join
<1>4. ASSUME NEW t \in Threads, Open(t) PROVE Bounded'
  BY <1>4 DEF Open
<1>5. ASSUME NEW t \in Threads, Sleep(t) PROVE Bounded'
  BY <1>5 DEF Sleep
<1>6. ASSUME NEW t \in Threads, Lock(t) PROVE Bounded'
  BY <1>6 DEF Lock
<1>7. ASSUME NEW t \in Threads, Lseek(t) PROVE Bounded'
  BY <1>7 DEF Lseek
<1>8. ASSUME NEW t \in Threads, Read(t) PROVE Bounded'
  BY <1>8 DEF Read
<1>9. ASSUME NEW t \in Threads, Paint(t) PROVE Bounded'
  BY <1>9 DEF Paint
<1>10. ASSUME NEW t \in Threads, Write(t) PROVE Bounded'
  BY <1>10 DEF Write
<1>11. ASSUME NEW t \in Threads, Reset(t) PROVE Bounded'
  BY <1>11 DEF Reset
<1>12. ASSUME NEW t \in Threads, Advance(t) PROVE Bounded'
  BY <1>12 DEF Advance
<1>13. ASSUME NEW t \in Threads, Unlock(t) PROVE Bounded'
  BY <1>13 DEF Unlock
<1>14. CASE UNCHANGED vars
  BY <1>14 DEF vars
<1>15. QED
  BY <1>1, <1>2, <1>3, <1>4, <1>5, <1>6, <1>7, <1>8, <1>9, <1>10, <1>11, <1>12,
     <1>13, <1>14
  DEF Next, Step, Ended

\* The next character comes behind all that have been written.
LEMMA WrittenStep ==
  ASSUME IInv, [Next]_vars PROVE Written'
<1> USE AlphabetAssumption
    DEF IInv, TypeOK, Threads, Stages, Section, Goto, Mutex, Reading,
        Written, Ahead, InOrder
<1>1. ASSUME CreateThread PROVE Written'
  BY <1>1 DEF CreateThread, Created
<1>2. ASSUME CreateFails PROVE Written'
  BY <1>2 DEF CreateFails
<1>3. ASSUME Join PROVE Written'
  BY <1>3 DEF Join
<1>4. ASSUME NEW t \in Threads, Open(t) PROVE Written'
  BY <1>4 DEF Open
<1>5. ASSUME NEW t \in Threads, Sleep(t) PROVE Written'
  BY <1>5 DEF Sleep
<1>6. ASSUME NEW t \in Threads, Lock(t) PROVE Written'
  BY <1>6 DEF Lock
<1>7. ASSUME NEW t \in Threads, Lseek(t) PROVE Written'
  BY <1>7 DEF Lseek
<1>8. ASSUME NEW t \in Threads, Read(t) PROVE Written'
  BY <1>8 DEF Read
<1>9. ASSUME NEW t \in Threads, Paint(t) PROVE Written'
  BY <1>9 DEF Paint
<1>10. ASSUME NEW t \in Threads, Write(t) PROVE Written'
  <2>1. out' = Append(out, [char |-> filePos, colour |-> colour]) /\ UNCHANGED filePos
    BY <1>10 DEF Write
  <2>2. \A i \in DOMAIN out : out[i].char < filePos
    BY <1>10 DEF Write
  <2>3. Ahead'
    BY <1>10 DEF Write
  <2>4. \A i \in DOMAIN out' : out'[i].char \in 0 .. filePos'
    BY <2>1, <2>2
  <2>5. InOrder'
    <3> SUFFICES ASSUME NEW i \in DOMAIN out', NEW j \in DOMAIN out', i < j
                 PROVE  out'[i].char < out'[j].char
      OBVIOUS
    <3>1. i \in DOMAIN out /\ out'[i] = out[i]
      BY <2>1
    <3>2. CASE j \in DOMAIN out
      <4>1. out'[j] = out[j]
        BY <2>1, <3>2
      <4>2. QED
        BY <3>1, <3>2, <4>1
    <3>3. CASE j \notin DOMAIN out
      <4>1. out'[j].char = filePos
        BY <2>1, <3>3
      <4>2. QED
        BY <2>2, <3>1, <4>1
    <3>4. QED
      BY <3>2, <3>3
  <2>6. QED
    BY <2>3, <2>4, <2>5
<1>11. ASSUME NEW t \in Threads, Reset(t) PROVE Written'
  BY <1>11 DEF Reset
<1>12. ASSUME NEW t \in Threads, Advance(t) PROVE Written'
  <2>1. filePos' = filePos + 1 /\ UNCHANGED out
    BY <1>12 DEF Advance
  <2>2. filePos \in Nat /\ \A i \in DOMAIN out : out[i].char \in 0 .. filePos
    OBVIOUS
  <2>3. \A i \in DOMAIN out : out[i].char < filePos + 1
    BY <2>2
  <2>4. QED
    BY <2>1, <2>3
<1>13. ASSUME NEW t \in Threads, Unlock(t) PROVE Written'
  BY <1>13 DEF Unlock
<1>14. CASE UNCHANGED vars
  BY <1>14 DEF vars
<1>15. QED
  BY <1>1, <1>2, <1>3, <1>4, <1>5, <1>6, <1>7, <1>8, <1>9, <1>10, <1>11, <1>12,
     <1>13, <1>14
  DEF Next, Step, Ended

\* Every variable stays in its range; that of filePos follows from Bounded.
LEMMA TypeStep ==
  ASSUME IInv, [Next]_vars PROVE TypeOK'
<1> USE AlphabetAssumption
    DEF IInv, TypeOK, Threads, Stages, Section, Goto, Reading
<1>1. ASSUME CreateThread PROVE TypeOK'
  BY <1>1 DEF CreateThread
<1>2. ASSUME CreateFails PROVE TypeOK'
  BY <1>2 DEF CreateFails
<1>3. ASSUME Join PROVE TypeOK'
  BY <1>3 DEF Join
<1>4. ASSUME NEW t \in Threads, Open(t) PROVE TypeOK'
  BY <1>4 DEF Open
<1>5. ASSUME NEW t \in Threads, Sleep(t) PROVE TypeOK'
  BY <1>5 DEF Sleep
<1>6. ASSUME NEW t \in Threads, Lock(t) PROVE TypeOK'
  BY <1>6 DEF Lock
<1>7. ASSUME NEW t \in Threads, Lseek(t) PROVE TypeOK'
  BY <1>7 DEF Lseek
<1>8. ASSUME NEW t \in Threads, Read(t) PROVE TypeOK'
  BY <1>8 DEF Read
<1>9. ASSUME NEW t \in Threads, Paint(t) PROVE TypeOK'
  BY <1>9 DEF Paint, Colour
<1>10. ASSUME NEW t \in Threads, Write(t) PROVE TypeOK'
  BY <1>10 DEF Write
<1>11. ASSUME NEW t \in Threads, Reset(t) PROVE TypeOK'
  BY <1>11 DEF Reset
<1>12. ASSUME NEW t \in Threads, Advance(t) PROVE TypeOK'
  BY <1>12, BoundedStep DEF Advance, Bounded, Spent
<1>13. ASSUME NEW t \in Threads, Unlock(t) PROVE TypeOK'
  BY <1>13 DEF Unlock
<1>14. CASE UNCHANGED vars
  BY <1>14 DEF vars
<1>15. QED
  BY <1>1, <1>2, <1>3, <1>4, <1>5, <1>6, <1>7, <1>8, <1>9, <1>10, <1>11, <1>12,
     <1>13, <1>14
  DEF Next, Step, Ended

-------------------------------------------------------------------------------
(* The theorems *)

\* The inductive invariant holds for a file of any length, whichever calls fail.
THEOREM AlphabetInvariant == Spec => []IInv
<1>1. Init => IInv
  <2> SUFFICES ASSUME Init PROVE IInv
    OBVIOUS
  <2> USE AlphabetAssumption DEF Init, Threads
  <2>1. TypeOK
    BY DEF TypeOK, Stages
  <2>2. Created /\ Mutex /\ Painted
    BY DEF Created, Mutex, Painted, Section
  <2>3. Reading /\ Bounded
    BY DEF Reading, Bounded, Spent
  <2>4. Written
    BY DEF Written, InOrder
  <2>5. QED
    BY <2>1, <2>2, <2>3, <2>4 DEF IInv
<1>2. IInv /\ [Next]_vars => IInv'
  BY TypeStep, CreatedStep, MutexStep, PaintedStep, ReadingStep, BoundedStep,
     WrittenStep
  DEF IInv
<1>3. QED
  BY <1>1, <1>2, PTL DEF Spec

\* Both threads stay at statements of the program, and filePos passes the end of
\* the file by at most one step of each.
THEOREM AlphabetTypeOK == Spec => []TypeOK
<1>1. IInv => TypeOK
  BY DEF IInv
<1>2. QED
  BY <1>1, AlphabetInvariant, PTL

\* No character is written twice and none before an earlier one.
THEOREM AlphabetInOrder == Spec => []InOrder
<1>1. IInv => InOrder
  BY DEF IInv, Written
<1>2. QED
  BY <1>1, AlphabetInvariant, PTL

\* Every character is written in the colour of the thread that has read it.
THEOREM AlphabetOwnColour == Spec => []OwnColour
<1>1. IInv => OwnColour
  BY DEF IInv, TypeOK, Mutex, Painted, OwnColour, Section
<1>2. QED
  BY <1>1, AlphabetInvariant, PTL

-------------------------------------------------------------------------------
(* Nothing is left out when both threads have the file. *)

\* main() ends before its thread only when there is none.
MainJoined ==
  pc["main"] = "end" =>
    pc["thr_fn"] = "new" \/ (pc["thr_fn"] = "end" /\ rc["main"] # 1)

\* As long as no open() has failed, everything before filePos has been written.
Caught ==
  (\A t \in Threads : opened[t] \/ pc[t] \in {"new", "open"}) =>
    Len(out) = (IF filePos < N THEN filePos ELSE N) + (IF Ahead THEN 1 ELSE 0)

\* pthread_join() returns when the thread has ended.
LEMMA MainJoinedStep ==
  ASSUME IInv, MainJoined, [Next]_vars PROVE MainJoined'
<1> USE AlphabetAssumption
    DEF IInv, TypeOK, Threads, Stages, Section, Goto, Created, Reading, MainJoined
<1>1. ASSUME CreateThread PROVE MainJoined'
  BY <1>1 DEF CreateThread
<1>2. ASSUME CreateFails PROVE MainJoined'
  BY <1>2 DEF CreateFails
<1>3. ASSUME Join PROVE MainJoined'
  BY <1>3 DEF Join
<1>4. ASSUME NEW t \in Threads, Open(t) PROVE MainJoined'
  BY <1>4 DEF Open
<1>5. ASSUME NEW t \in Threads, Sleep(t) PROVE MainJoined'
  BY <1>5 DEF Sleep
<1>6. ASSUME NEW t \in Threads, Lock(t) PROVE MainJoined'
  BY <1>6 DEF Lock
<1>7. ASSUME NEW t \in Threads, Lseek(t) PROVE MainJoined'
  BY <1>7 DEF Lseek
<1>8. ASSUME NEW t \in Threads, Read(t) PROVE MainJoined'
  BY <1>8 DEF Read
<1>9. ASSUME NEW t \in Threads, Paint(t) PROVE MainJoined'
  BY <1>9 DEF Paint
<1>10. ASSUME NEW t \in Threads, Write(t) PROVE MainJoined'
  BY <1>10 DEF Write
<1>11. ASSUME NEW t \in Threads, Reset(t) PROVE MainJoined'
  BY <1>11 DEF Reset
<1>12. ASSUME NEW t \in Threads, Advance(t) PROVE MainJoined'
  BY <1>12 DEF Advance
<1>13. ASSUME NEW t \in Threads, Unlock(t) PROVE MainJoined'
  BY <1>13 DEF Unlock
<1>14. CASE UNCHANGED vars
  BY <1>14 DEF vars
<1>15. QED
  BY <1>1, <1>2, <1>3, <1>4, <1>5, <1>6, <1>7, <1>8, <1>9, <1>10, <1>11, <1>12,
     <1>13, <1>14
  DEF Next, Step, Ended

\* Each increment before the end of the file follows a character written.
LEMMA CaughtStep ==
  ASSUME IInv, Caught, [Next]_vars PROVE Caught'
<1> USE AlphabetAssumption
    DEF IInv, TypeOK, Threads, Stages, Section, Goto, Created, Mutex, Reading,
        Ahead, Caught
<1>1. ASSUME CreateThread PROVE Caught'
  BY <1>1 DEF CreateThread
<1>2. ASSUME CreateFails PROVE Caught'
  BY <1>2 DEF CreateFails
<1>3. ASSUME Join PROVE Caught'
  BY <1>3 DEF Join
<1>4. ASSUME NEW t \in Threads, Open(t) PROVE Caught'
  BY <1>4 DEF Open
<1>5. ASSUME NEW t \in Threads, Sleep(t) PROVE Caught'
  BY <1>5 DEF Sleep
<1>6. ASSUME NEW t \in Threads, Lock(t) PROVE Caught'
  BY <1>6 DEF Lock
<1>7. ASSUME NEW t \in Threads, Lseek(t) PROVE Caught'
  BY <1>7 DEF Lseek
<1>8. ASSUME NEW t \in Threads, Read(t) PROVE Caught'
  <2>1. UNCHANGED <<filePos, opened, out>>
    BY <1>8 DEF Read
  <2>2. Ahead' <=> Ahead
    BY <1>8 DEF Read
  <2>3. \A u \in Threads : pc'[u] \in {"new", "open"} => pc[u] \in {"new", "open"}
    BY <1>8 DEF Read
  <2> HIDE DEF TypeOK, Ahead, Reading, Mutex, Created, IInv, Threads
  <2>4. QED
    BY <2>1, <2>2, <2>3
<1>9. ASSUME NEW t \in Threads, Paint(t) PROVE Caught'
  BY <1>9 DEF Paint
<1>10. ASSUME NEW t \in Threads, Write(t) PROVE Caught'
  BY <1>10 DEF Write
<1>11. ASSUME NEW t \in Threads, Reset(t) PROVE Caught'
  BY <1>11 DEF Reset
<1>12. ASSUME NEW t \in Threads, Advance(t) PROVE Caught'
  <2>1. filePos' = filePos + 1 /\ UNCHANGED out /\ ~Ahead'
    BY <1>12 DEF Advance
  <2>2. CASE rc[t] = 1
    <3>1. Ahead /\ filePos < N
      BY <1>12, <2>2 DEF Advance
    <3>2. QED
      BY <1>12, <2>1, <3>1 DEF Advance
  <2>3. CASE rc[t] # 1
    <3>1. ~Ahead /\ (opened[t] => filePos >= N)
      BY <1>12, <2>3 DEF Advance
    <3>2. QED
      BY <1>12, <2>1, <3>1 DEF Advance
  <2>4. QED
    BY <2>2, <2>3
<1>13. ASSUME NEW t \in Threads, Unlock(t) PROVE Caught'
  BY <1>13 DEF Unlock
<1>14. CASE UNCHANGED vars
  BY <1>14 DEF vars
<1>15. QED
  BY <1>1, <1>2, <1>3, <1>4, <1>5, <1>6, <1>7, <1>8, <1>9, <1>10, <1>11, <1>12,
     <1>13, <1>14
  DEF Next, Step, Ended

\* When both threads have had the file and main() has ended, the whole file has
\* been written, whatever its length.
THEOREM AlphabetAllWritten == Spec => []AllWritten
<1>1. Init => MainJoined /\ Caught
  BY AlphabetAssumption DEF Init, MainJoined, Caught, Ahead, Threads
<1>2. IInv /\ MainJoined /\ Caught /\ [Next]_vars => MainJoined' /\ Caught'
  BY MainJoinedStep, CaughtStep
<1>3. IInv /\ MainJoined /\ Caught => AllWritten
  BY AlphabetAssumption
  DEF IInv, TypeOK, Reading, Ahead, MainJoined, Caught, AllWritten, Threads,
      Stages, Section
<1>4. QED
  BY <1>1, <1>2, <1>3, AlphabetInvariant, PTL DEF Spec


-------------------------------------------------------------------------------
(* The programs with two buffers                                            *)
(*                                                                          *)
(* TakenInv is EveryCharacterOnce without its end.  It is kept by the steps *)
(* of one stream only because a descriptor's offset tells what has been     *)
(* taken through it; DoneInv and PlaceInv add what a program that is over   *)
(* has read, and CopyInv, PairInv, AppendInv and OverwriteInv how each      *)
(* program comes by its output.                                             *)

\* Which program and which thread each place belongs to: main() creates the
\* thread first and ends after it, both are killed together, and two streams on
\* one descriptor go on only when they have it.
PlaceInv ==
  /\ at[1] # "none" /\ at[2] \notin {"create", "newline", "join"}
  /\ at[1] = "create" => at[2] = "none"
  /\ at[2] = "none" =>
       /\ Threaded
       /\ at[1] \in {"create", "end"} \/ (Reads /\ at[1] = "open") \/ program = "app1_threads"
  /\ Threaded /\ Reads /\ at[1] = "open" => at[2] = "none"
  /\ Threaded /\ at[1] = "end" => at[2] \in {"end", "none"}
  /\ at[1] = "crash" <=> at[2] = "crash"
  /\ at[1] = "crash" => program \notin {"app2", "app2_threads_right"}
  /\ Shared /\ at[1] = "open" => at[2] \in {"open", "none"}
  /\ Shared /\ at[1] \notin {"open", "crash"} => ready[1] /\ ready[2]
  /\ \A f \in Streams :
       /\ Reads => at[f] \notin {"fill", "close"}
       /\ at[f] \in {"scan", "print", "eof"} => Reads
       /\ at[f] = "peek" => program = "app1_threads"
       /\ at[f] = "eof" => program \in {"app1", "app2"}
       /\ at[f] \in {"newline", "lock", "unlock"} => program = "app2_threads_right"
       /\ at[f] \in {"create", "join"} => Threaded
       /\ Reads /\ ~Threaded /\ at[f] = "end" => at[1] = at[2]

\* fscanf() or read() has left a character only until it is printed.
HeldInv == \A f \in Streams : held[f] # 0 <=> at[f] \in {"peek", "print"}

\* A stream leaves its loop with nothing in its buffer, at the end of the file if
\* it could be opened.
DoneInv ==
  Reads /\ at[2] # "none" =>
    \A f \in Streams :
      at[f] \in {"eof", "unlock", "join", "end"} =>
        buf[f] = <<>> /\ (ready[f] => off[Desc(f)] = Length)

\* Everything taken from the file, in its place and in its order.
TakenInv ==
  Reads =>
    /\ \A f \in Streams : Ascending(f)
    /\ IF Shared THEN Taken(1) \cup Taken(2) = 1 .. off[1] /\ Taken(1) \cap Taken(2) = {}
                 ELSE \A f \in Streams : Taken(f) = 1 .. off[f]

\* A copy is written by the thread that holds the mutex; it has written none of
\* it before it has locked it, and nobody else comes in until it is complete.
CopyInv ==
  program = "app2_threads_right" =>
    /\ \A f \in Streams :
         /\ at[f] \in {"scan", "print", "unlock"} <=> mutex = f
         /\ at[f] \in {"open", "create", "newline", "lock", "none"} =>
              \A i \in DOMAIN printed : printed[i][1] = f => printed[i][2] = 0
         /\ at[f] \in {"scan", "print"} => \A i, j \in DOMAIN printed :
              i < j /\ printed[i][1] = f /\ printed[i][2] # 0 /\ printed[j][2] # 0 =>
                printed[j][1] = f
    /\ \A i, j, k \in DOMAIN printed :
         /\ i < j /\ j < k /\ printed[i][1] = printed[k][1]
         /\ 0 \notin {printed[i][2], printed[j][2], printed[k][2]}
         => printed[j][1] = printed[i][1]

\* The two descriptors of app2.c take turns: how far the second is behind.
Paired ==
  /\ \A f \in Streams : buf[f] = <<>>
  /\ \A n \in DOMAIN printed : n % 2 = 0 => printed[n][2] = printed[n - 1][2]
  /\ \/ /\ turn = 1 /\ at[1] = "scan" /\ at[2] = "scan"
        /\ off[1] = off[2] /\ Len(printed) % 2 = 0
     \/ /\ turn = 1 /\ at[1] = "print" /\ at[2] = "scan"
        /\ off[1] = off[2] + 1 /\ held[1] = off[1] /\ Len(printed) % 2 = 0
     \/ /\ turn = 2 /\ at[1] = "scan" /\ at[2] = "scan"
        /\ off[1] = off[2] + 1 /\ Len(printed) % 2 = 1
        /\ printed[Len(printed)][2] = off[1]
     \/ /\ turn = 2 /\ at[1] = "scan" /\ at[2] = "print"
        /\ off[1] = off[2] /\ held[2] = off[2] /\ Len(printed) % 2 = 1
        /\ printed[Len(printed)][2] = off[2]
     \/ turn = 2 /\ at[1] = "eof" /\ at[2] = "scan" /\ off[1] = off[2]
     \/ at[1] = "end" /\ at[2] = "end"

\* app2.c: the two files are opened one after the other; if both are open the
\* descriptors take turns, and a line is complete before the first reads on.
PairInv ==
  program = "app2" =>
    /\ at[1] = "open" => at[2] = "open"
    /\ at[2] = "open" =>
         /\ ~ready[2] /\ printed = <<>> /\ off[1] = off[2] /\ \A f \in Streams : buf[f] = <<>>
         /\ (turn = 1 /\ at[1] = "open") \/ (turn = 2 /\ at[1] = "scan")
    /\ ready[1] /\ ready[2] => Paired

\* What a stream of app3 has printed is in its buffer until it is closed.
Closed(f) == at[f] \in {"join", "end"}

LettersInv == ~Reads => \A f \in Streams : at[f] = "close" => buf[f] = Letters(f)

\* app3_threads.c: the file grows by one buffer at a time, until the thread that
\* could not open it takes the other with it.
AppendInv ==
  program = "app3_threads" =>
    /\ at[2] = "none" => file = old
    /\ at[2] = "crash" => file \in {old, old \o Letters(1), old \o Letters(2)}
    /\ at[2] \notin {"none", "crash"} =>
         /\ ~Closed(1) /\ ~Closed(2) => file = old
         /\ Closed(1) /\ ~Closed(2) => file = old \o Letters(1)
         /\ ~Closed(1) /\ Closed(2) => file = old \o Letters(2)
         /\ Closed(1) /\ Closed(2) =>
              \/ file = (old \o Letters(1)) \o Letters(2)
              \/ file = (old \o Letters(2)) \o Letters(1)

\* app3.c: both streams are opened, filled and closed in turn, and the second is
\* written over what the first has left.
OverwriteInv ==
  program = "app3" /\ at[2] # "crash" =>
    /\ \/ turn = 1 /\ at[1] = at[2]
       \/ turn = 2 /\ <<at[1], at[2]>> \in {<<"fill", "open">>, <<"close", "fill">>, <<"end", "close">>}
    /\ at[2] \in {"fill", "close"} /\ at[1] # "end" => file = <<>>
    /\ at[2] = "close" /\ at[1] = "end" => file = Letters(1)
    /\ at[2] = "end" => SubSeq(file, 1, Length \div 2) = Letters(2)

StreamsInv ==
  /\ StreamsTypeOK /\ PlaceInv /\ HeldInv /\ DoneInv /\ TakenInv
  /\ CopyInv /\ PairInv /\ LettersInv /\ AppendInv /\ OverwriteInv

\* read() fills an empty buffer from where its descriptor stands, and leaves it
\* empty only at the end of the file, or if there is no file.
LEMMA FilledFacts ==
  ASSUME StreamsTypeOK, NEW f \in Streams
  PROVE  /\ Filled(f) \in Seq(1 .. Length)
         /\ Filled(f) = <<>> => buf[f] = <<>> /\ (ready[f] => off[Desc(f)] = Length)
         /\ buf[f] # <<>> => Filled(f) = buf[f]
         /\ buf[f] = <<>> =>
              \E m \in Nat :
                /\ off[Desc(f)] + m <= Length
                /\ ~Shared => m <= 1
                /\ Len(Filled(f)) = m
                /\ \A k \in 1 .. m : Filled(f)[k] = off[Desc(f)] + k
<1> USE StreamsAssumption DEF StreamsTypeOK, Streams
<1>1. Desc(f) \in Streams
  BY DEF Desc
<1> DEFINE size == IF Shared THEN BUFF_SIZE ELSE 1
<1> DEFINE from == off[Desc(f)]
<1> DEFINE to == IF from + size < Length THEN from + size ELSE Length
<1>2. from \in 0 .. Length /\ size \in Nat \ {0}
  BY <1>1
<1>3. to \in from .. Length /\ (to = from => from = Length) /\ (~Shared => to <= from + 1)
  <2>1. ~Shared => size = 1
    OBVIOUS
  <2> HIDE DEF size, from
  <2>2. QED
    BY <1>2, <2>1
<1> DEFINE m == IF ready[f] THEN to - from ELSE 0
<1>4. /\ m \in Nat /\ from + m <= Length /\ (~Shared => m <= 1)
      /\ m = 0 /\ ready[f] => from = Length
  <2> HIDE DEF from, to
  <2> QED BY <1>2, <1>3
<1> HIDE DEF size, from, to, m
<1>5. [k \in 1 .. m |-> from + k] \in Seq(1 .. Length)
  BY <1>2, <1>4
<1>6. Len([k \in 1 .. m |-> from + k]) = m
  BY <1>4
<1>7. Filled(f) = IF buf[f] # <<>> THEN buf[f] ELSE [k \in 1 .. m |-> from + k]
  <2>1. CASE ready[f] \/ buf[f] # <<>>
    BY <2>1 DEF Filled, size, from, to, m
  <2>2. CASE ~ready[f] /\ buf[f] = <<>>
    <3>1. m = 0 /\ Filled(f) = <<>>
      BY <2>2 DEF Filled, m
    <3>2. [k \in 1 .. m |-> from + k] = <<>>
      BY <1>5, <1>6, <3>1, EmptySeq
    <3>3. QED
      BY <2>2, <3>1, <3>2
  <2>3. QED
    BY <2>1, <2>2
<1>8. CASE buf[f] # <<>>
  <2>1. buf[f] \in Seq(1 .. Length)
    OBVIOUS
  <2>2. QED
    BY <1>7, <1>8, <2>1
<1>9. CASE buf[f] = <<>>
  <2>1. Filled(f) = [k \in 1 .. m |-> from + k]
    BY <1>7, <1>9
  <2>2. \A k \in 1 .. m : Filled(f)[k] = from + k
    BY <2>1
  <2>3. Filled(f) \in Seq(1 .. Length) /\ Len(Filled(f)) = m
    BY <2>1, <1>5, <1>6
  <2>4. Filled(f) = <<>> => m = 0
    BY <2>3
  <2>5. from = off[Desc(f)]
    BY DEF from
  <2>6. QED
    BY <1>4, <1>9, <2>2, <2>3, <2>4, <2>5
<1>10. QED
  BY <1>8, <1>9

\* What has been taken depends on the streams alone.
LEMMA TakenSame ==
  ASSUME TakenInv, UNCHANGED <<program, off, buf, held, printed>>
  PROVE  TakenInv'
<1>1. \A f \in Streams : Shown(f)' = Shown(f)
  BY DEF Shown
<1>2. \A f \in Streams : Taken(f)' = Taken(f)
  BY <1>1 DEF Taken
<1>3. \A f \in Streams : Ascending(f)' = Ascending(f)
  BY <1>1 DEF Ascending
<1>4. Reads' = Reads /\ Shared' = Shared
  BY DEF Reads, Shared
<1>5. QED
  BY <1>2, <1>3, <1>4 DEF TakenInv, Streams

\* Every second letter, and all of them in the end.
LEMMA LettersFacts ==
  /\ \A f \in Streams : Letters(f) \in Seq(1 .. Length)
  /\ Len(Letters(1)) + Len(Letters(2)) = Length
  /\ program = "app3" => Len(Letters(2)) = Length \div 2
<1> USE StreamsAssumption DEF Streams
<1>1. ASSUME NEW first \in 1 .. 2
      PROVE  /\ (Length + 2 - first) \div 2 \in Nat
             /\ \A k \in 1 .. (Length + 2 - first) \div 2 : first + 2 * (k - 1) \in 1 .. Length
  OBVIOUS
<1> DEFINE L(first) == [k \in 1 .. (Length + 2 - first) \div 2 |-> first + 2 * (k - 1)]
<1>2. ASSUME NEW first \in 1 .. 2
      PROVE  L(first) \in Seq(1 .. Length) /\ Len(L(first)) = (Length + 2 - first) \div 2
  BY <1>1
<1>3. \A f \in Streams : Letters(f) = L(IF program = "app3" THEN f ELSE 3 - f)
  BY DEF Letters
<1> HIDE DEF L
<1>4. \A f \in Streams : (IF program = "app3" THEN f ELSE 3 - f) \in 1 .. 2
  OBVIOUS
<1>5. \A f \in Streams : Letters(f) \in Seq(1 .. Length)
  BY <1>2, <1>3, <1>4
<1>6. Len(L(1)) = (Length + 1) \div 2 /\ Len(L(2)) = Length \div 2
  BY <1>2
<1>7. Len(L(1)) + Len(L(2)) = Length
  BY <1>6
<1>8. L(1) \in Seq(1 .. Length) /\ L(2) \in Seq(1 .. Length)
  BY <1>2
<1>9. CASE program = "app3"
  <2>1. Letters(1) = L(1) /\ Letters(2) = L(2)
    BY <1>3, <1>9
  <2>2. QED
    BY <1>5, <1>6, <1>7, <2>1
<1>10. CASE program # "app3"
  <2>1. Letters(1) = L(2) /\ Letters(2) = L(1)
    BY <1>3, <1>10
  <2>2. QED
    BY <1>5, <1>7, <1>8, <1>10, <2>1
<1>11. QED
  BY <1>9, <1>10

\* A descriptor at the end of the file stays there.
LEMMA EndStays ==
  ASSUME StreamsTypeOK, NEW f \in Streams, Refill(f), NEW d \in Streams, off[d] = Length
  PROVE  off'[d] = Length
<1>1. CASE buf[f] # <<>>
  BY <1>1 DEF Refill
<1>2. CASE buf[f] = <<>>
  <2>1. PICK m \in Nat : off[Desc(f)] + m <= Length /\ Len(Filled(f)) = m
    BY <1>2, FilledFacts
  <2>2. off' = [off EXCEPT ![Desc(f)] = @ + m]
    BY <1>2, <2>1 DEF Refill
  <2>3. CASE d = Desc(f)
    BY <2>1, <2>2, <2>3, StreamsAssumption DEF StreamsTypeOK
  <2>4. QED
    BY <2>2, <2>3 DEF StreamsTypeOK
<1>3. QED
  BY <1>1, <1>2

\* Reading moves an offset forward within the file.
LEMMA RefillType ==
  ASSUME StreamsTypeOK, NEW f \in Streams, Refill(f)
  PROVE  off' \in [Streams -> 0 .. Length]
<1>1. off \in [Streams -> 0 .. Length] /\ Desc(f) \in Streams
  BY DEF StreamsTypeOK, Desc, Streams
<1>2. CASE buf[f] # <<>>
  BY <1>1, <1>2 DEF Refill
<1>3. CASE buf[f] = <<>>
  <2>1. PICK m \in Nat : off[Desc(f)] + m <= Length /\ Len(Filled(f)) = m
    BY <1>3, FilledFacts
  <2>2. off[Desc(f)] + m \in 0 .. Length
    BY <1>1, <2>1, StreamsAssumption
  <2>3. off' = [off EXCEPT ![Desc(f)] = off[Desc(f)] + m]
    BY <1>3, <2>1 DEF Refill
  <2>4. QED
    BY <1>1, <2>2, <2>3
<1>4. QED
  BY <1>2, <1>3

\* The first character is one of the file, and so are the others.
LEMMA HeadFacts ==
  ASSUME StreamsTypeOK, NEW f \in Streams, Filled(f) # <<>>
  PROVE  /\ Head(Filled(f)) = Filled(f)[1] /\ Head(Filled(f)) \in 1 .. Length
         /\ Tail(Filled(f)) \in Seq(1 .. Length) /\ Len(Tail(Filled(f))) = Len(Filled(f)) - 1
         /\ \A k \in 1 .. Len(Filled(f)) - 1 : Tail(Filled(f))[k] = Filled(f)[k + 1]
         /\ Len(Filled(f)) \in Nat \ {0}
<1>1. Filled(f) \in Seq(1 .. Length)
  BY FilledFacts
<1>2. Len(Filled(f)) \in Nat \ {0}
  BY <1>1
<1>3. Head(Filled(f)) = Filled(f)[1]
  BY <1>1
<1>4. Head(Filled(f)) \in 1 .. Length
  BY <1>1, HeadTailProperties
<1>5. /\ Tail(Filled(f)) \in Seq(1 .. Length)
      /\ Len(Tail(Filled(f))) = Len(Filled(f)) - 1
      /\ \A k \in 1 .. Len(Tail(Filled(f))) : Tail(Filled(f))[k] = Filled(f)[k + 1]
  BY <1>1, HeadTailProperties
<1>6. QED
  BY <1>2, <1>3, <1>4, <1>5

\* Printing changes nothing of what has been printed.
LEMMA PrintedFacts ==
  ASSUME StreamsTypeOK, NEW e \in Streams \X (0 .. Length), printed' = Append(printed, e)
  PROVE  /\ Len(printed) \in Nat /\ DOMAIN printed = 1 .. Len(printed)
         /\ Len(printed') = Len(printed) + 1 /\ DOMAIN printed' = 1 .. Len(printed) + 1
         /\ \A i \in 1 .. Len(printed) : printed'[i] = printed[i]
         /\ printed'[Len(printed) + 1] = e
<1>1. printed \in Seq(Streams \X (0 .. Length))
  BY DEF StreamsTypeOK
<1>2. QED
  BY <1>1

\* Where the streams of app3_threads.c stand matters only as far as they are closed.
LEMMA AppendSame ==
  ASSUME AppendInv, UNCHANGED <<program, old, file>>,
         at'[2] = "none" <=> at[2] = "none", at'[2] = "crash" <=> at[2] = "crash",
         \A g \in Streams : at'[g] \in {"join", "end"} <=> at[g] \in {"join", "end"}
  PROVE  AppendInv'
<1>1. Letters(1)' = Letters(1) /\ Letters(2)' = Letters(2)
  BY DEF Letters
<1>2. QED
  BY <1>1 DEF AppendInv, Closed, Streams

\* The stream that is not f.
LEMMA OtherStream ==
  ASSUME NEW f \in Streams PROVE 3 - f \in Streams /\ 3 - f # f /\ Streams = {f, 3 - f}
BY DEF Streams

\* What a stream would have taken with a full buffer: the next characters of the
\* file are behind all that its descriptor has given so far.
Filling(f) ==
  Shown(f) \cup ({held[f]} \ {0}) \cup {Filled(f)[k] : k \in DOMAIN Filled(f)}

\* A refill hands out the next stretch of the file, from its cursor on.
LEMMA FillingFacts ==
  ASSUME StreamsTypeOK, TakenInv, Reads, NEW f \in Streams, Refill(f)
  PROVE  /\ Shared => /\ Filling(f) \cup Taken(3 - f) = 1 .. off'[1]
                      /\ Filling(f) \cap Taken(3 - f) = {}
         /\ ~Shared => Filling(f) = 1 .. off'[f] /\ off'[3 - f] = off[3 - f]
         /\ \A k \in DOMAIN Filled(f) :
              /\ \A n \in Shown(f) \cup {held[f]} : n < Filled(f)[k]
              /\ \A l \in 1 .. k - 1 : Filled(f)[l] < Filled(f)[k]
<1>1. 3 - f \in Streams /\ 3 - f # f /\ Streams = {1, 2} /\ Streams = {f, 3 - f}
  BY OtherStream DEF Streams
<1>2. /\ \A g \in Streams : Ascending(g)
      /\ Shared => Taken(f) \cup Taken(3 - f) = 1 .. off[1] /\ Taken(f) \cap Taken(3 - f) = {}
      /\ ~Shared => \A g \in Streams : Taken(g) = 1 .. off[g]
  BY <1>1 DEF TakenInv
<1>3. CASE buf[f] # <<>>
  <2>1. Filled(f) = buf[f] /\ off' = off
    BY <1>3, FilledFacts DEF Refill
  <2>2. Filling(f) = Taken(f)
    BY <2>1 DEF Filling, Taken
  <2>3. Ascending(f)
    BY <1>2
  <2>4. QED
    BY <1>1, <1>2, <2>1, <2>2, <2>3 DEF Ascending
<1>4. CASE buf[f] = <<>>
  <2> DEFINE from == off[Desc(f)]
  <2>1. PICK m \in Nat : /\ from + m <= Length /\ Len(Filled(f)) = m
                         /\ \A k \in 1 .. m : Filled(f)[k] = from + k
    BY <1>4, FilledFacts
  <2>2. Desc(f) \in Streams /\ (Shared => Desc(f) = 1) /\ (~Shared => Desc(f) = f)
    BY <1>1 DEF Desc
  <2>3. from \in Nat
    BY <2>2 DEF StreamsTypeOK
  <2>4. /\ off' = [off EXCEPT ![Desc(f)] = from + m]
        /\ off'[Desc(f)] = from + m /\ (~Shared => off'[3 - f] = off[3 - f])
    BY <1>1, <1>4, <2>1, <2>2 DEF Refill, StreamsTypeOK
  <2>5. DOMAIN Filled(f) = 1 .. m
    <3>1. Filled(f) \in Seq(1 .. Length)
      BY FilledFacts
    <3>2. QED
      BY <2>1, <3>1, LenProperties
  <2>6. \A n : n \in Taken(f) <=> n \in Shown(f) \cup ({held[f]} \ {0})
    BY <1>4 DEF Taken
  <2>7. \A n : n \in Filling(f) <=> n \in Taken(f) \/ n \in from + 1 .. from + m
    <3>1. \A n : (\E k \in 1 .. m : n = Filled(f)[k]) <=> n \in from + 1 .. from + m
      <4>1. ASSUME NEW n \in from + 1 .. from + m PROVE \E k \in 1 .. m : n = Filled(f)[k]
        <5>1. n - from \in 1 .. m /\ n = from + (n - from)
          BY <2>1, <2>3
        <5>2. QED
          BY <2>1, <5>1
      <4>2. ASSUME NEW k \in 1 .. m PROVE Filled(f)[k] \in from + 1 .. from + m
        BY <2>1, <2>3
      <4>3. QED
        BY <4>1, <4>2
    <3>2. \A n : n \in Filling(f) <=> \/ n \in Shown(f) \cup ({held[f]} \ {0})
                                       \/ \E k \in 1 .. m : n = Filled(f)[k]
      BY <2>5 DEF Filling
    <3>3. QED
      BY <2>6, <3>1, <3>2
  <2> HIDE DEF from
  <2>8. \A n \in Taken(f) : n \in 1 .. from
    BY <1>1, <1>2, <2>2 DEF from
  <2>9. ASSUME NEW k \in 1 .. m
        PROVE  /\ \A n \in Shown(f) \cup {held[f]} : n < Filled(f)[k]
               /\ \A l \in 1 .. k - 1 : Filled(f)[l] < Filled(f)[k]
    <3>1. Filled(f)[k] = from + k /\ k \in Nat \ {0}
      BY <2>1
    <3>2. \A n \in Shown(f) \cup {held[f]} : n \in 0 .. from
      BY <2>3, <2>6, <2>8
    <3>3. \A l \in 1 .. k - 1 : l \in 1 .. m /\ l < k /\ Filled(f)[l] = from + l
      BY <2>1
    <3>4. QED
      BY <2>3, <3>1, <3>2, <3>3
  <2>10. ASSUME Shared
         PROVE  Filling(f) \cup Taken(3 - f) = 1 .. off'[1] /\ Filling(f) \cap Taken(3 - f) = {}
    <3>1. off'[1] = from + m /\ off[1] = from
      BY <2>2, <2>4, <2>10 DEF from
    <3>2. \A n \in Taken(3 - f) : n \in 1 .. from /\ n \notin Taken(f)
      BY <1>2, <2>10, <3>1
    <3>3. \A n \in 1 .. from : n \in Taken(f) \/ n \in Taken(3 - f)
      BY <1>2, <2>10, <3>1
    <3>4. \A n : n \in Filling(f) \cup Taken(3 - f) <=> n \in 1 .. from + m
      BY <2>1, <2>3, <2>7, <2>8, <3>2, <3>3
    <3>5. \A n \in Taken(3 - f) : n \notin Filling(f)
      BY <2>3, <2>7, <3>2
    <3>6. QED
      BY <3>1, <3>4, <3>5
  <2>11. ASSUME ~Shared PROVE Filling(f) = 1 .. off'[f] /\ off'[3 - f] = off[3 - f]
    <3>1. off'[f] = from + m /\ off[f] = from
      BY <2>2, <2>4, <2>11 DEF from
    <3>2. \A n : n \in Taken(f) <=> n \in 1 .. from
      BY <1>2, <2>11, <3>1
    <3>3. \A n : n \in Filling(f) <=> n \in 1 .. from + m
      BY <2>1, <2>3, <2>7, <3>2
    <3>4. QED
      BY <2>4, <2>11, <3>1, <3>3
  <2>12. QED
    BY <2>5, <2>9, <2>10, <2>11
<1>5. QED
  BY <1>3, <1>4

\* What the other stream has taken is nobody else's.
LEMMA OtherTaken ==
  ASSUME NEW g \in Streams, held'[g] = held[g], buf'[g] = buf[g], Shown(g)' = Shown(g)
  PROVE  Taken(g)' = Taken(g)
BY DEF Taken

\* What has been read stays the same while no thread takes a character.
LEMMA ShownSame ==
  ASSUME UNCHANGED printed PROVE \A g \in Streams : Shown(g)' = Shown(g)
BY DEF Shown

\* The invariant for two streams, one of them f.
LEMMA TakenParts ==
  ASSUME NEW f \in Streams
  PROVE  TakenInv <=>
           (Reads => /\ Ascending(f) /\ Ascending(3 - f)
                     /\ Shared => /\ Taken(f) \cup Taken(3 - f) = 1 .. off[1]
                                  /\ Taken(f) \cap Taken(3 - f) = {}
                     /\ ~Shared => Taken(f) = 1 .. off[f] /\ Taken(3 - f) = 1 .. off[3 - f])
<1>1. CASE f = 1
  BY <1>1 DEF TakenInv, Streams
<1>2. CASE f = 2
  BY <1>2 DEF TakenInv, Streams
<1>3. QED
  BY <1>1, <1>2 DEF Streams

\* A step that reads keeps the invariant when the stream has what it has filled.
LEMMA TakenAfterRefill ==
  ASSUME StreamsTypeOK, TakenInv, Reads, NEW f \in Streams, Refill(f),
         UNCHANGED <<program, printed>>, buf'[3 - f] = buf[3 - f], held'[3 - f] = held[3 - f],
         Taken(f)' = Filling(f), Ascending(f)'
  PROVE  TakenInv'
<1>1. 3 - f \in Streams /\ 3 - f # f
  BY OtherStream
<1>2. Shown(3 - f)' = Shown(3 - f)
  BY <1>1, ShownSame
<1>3. Taken(3 - f)' = Taken(3 - f)
  BY <1>1, <1>2, OtherTaken
<1>4. Ascending(3 - f)'
  <2>1. Ascending(3 - f)
    BY TakenParts
  <2>2. QED
    BY <1>2, <2>1 DEF Ascending
<1>5. (Reads' <=> Reads) /\ (Shared' <=> Shared)
  BY DEF Reads, Shared
<1>6. /\ Shared => /\ Filling(f) \cup Taken(3 - f) = 1 .. off'[1]
                   /\ Filling(f) \cap Taken(3 - f) = {}
      /\ ~Shared => Filling(f) = 1 .. off'[f] /\ off'[3 - f] = off[3 - f]
  BY FillingFacts
<1>7. ~Shared => Taken(3 - f) = 1 .. off[3 - f]
  BY TakenParts
<1>8. /\ Ascending(f)' /\ Ascending(3 - f)'
      /\ Shared => /\ Taken(f)' \cup Taken(3 - f)' = 1 .. off'[1]
                   /\ Taken(f)' \cap Taken(3 - f)' = {}
      /\ ~Shared => Taken(f)' = 1 .. off'[f] /\ Taken(3 - f)' = 1 .. off'[3 - f]
  BY <1>3, <1>4, <1>6, <1>7
<1>9. CASE f = 1
  BY <1>5, <1>8, <1>9 DEF TakenInv, Streams
<1>10. CASE f = 2
  BY <1>5, <1>8, <1>10 DEF TakenInv, Streams
<1>11. QED
  BY <1>9, <1>10 DEF Streams


\* Every step keeps each variable in its range.
LEMMA StreamsTypeStep ==
  ASSUME StreamsInv, [StreamsNext]_streamVars PROVE StreamsTypeOK'
<1> USE StreamsAssumption DEF StreamsInv, StreamsTypeOK, Streams, From, To, Pass, Shared, Threaded, Reads, Programs, Places
<1>1. ASSUME CreateUnchecked PROVE StreamsTypeOK'
  BY <1>1 DEF CreateUnchecked
<1>2. ASSUME CreateChecked PROVE StreamsTypeOK'
  BY <1>2 DEF CreateChecked
<1>3. ASSUME Newline PROVE StreamsTypeOK'
  BY <1>3 DEF Newline
<1>4. ASSUME JoinThread PROVE StreamsTypeOK'
  BY <1>4 DEF JoinThread, Joined
<1>5. ASSUME NEW f \in Streams, Acquire(f) PROVE StreamsTypeOK'
  BY <1>5 DEF Acquire
<1>6. ASSUME NEW f \in Streams, Release(f) PROVE StreamsTypeOK'
  BY <1>6 DEF Release
<1>7. ASSUME NEW f \in Streams, Scan(f) PROVE StreamsTypeOK'
  <2>1. Filled(f) \in Seq(1 .. Length)
    BY FilledFacts DEF StreamsInv
  <2>2. off' \in [Streams -> 0 .. Length]
    BY <1>7, RefillType DEF Scan, StreamsInv
  <2>3. CASE Filled(f) = <<>>
    BY <1>7, <2>2, <2>3 DEF Scan, EndOfFile
  <2>4. CASE Filled(f) # <<>>
    <3>1. Head(Filled(f)) \in 1 .. Length /\ Tail(Filled(f)) \in Seq(1 .. Length)
      BY <2>4, HeadFacts DEF StreamsInv
    <3>2. /\ held' = [held EXCEPT ![f] = Head(Filled(f))]
          /\ buf' = [buf EXCEPT ![f] = Tail(Filled(f))]
      BY <1>7, <2>4 DEF Scan
    <3>5. held' \in [Streams -> 0 .. Length] /\ buf' \in [Streams -> Seq(1 .. Length)]
      <4>1. held \in [Streams -> 0 .. Length] /\ buf \in [Streams -> Seq(1 .. Length)]
        OBVIOUS
      <4>2. held' \in [Streams -> 0 .. Length]
        <5>1. Head(Filled(f)) \in 0 .. Length
          BY <3>1
        <5> HIDE DEF StreamsTypeOK
        <5>2. QED
          BY <3>2, <4>1, <5>1
      <4>3. buf' \in [Streams -> Seq(1 .. Length)]
        BY <3>1, <3>2, <4>1
      <4>4. QED
        BY <4>2, <4>3
    <3>3. at' \in [Streams -> Places] /\ off' \in [Streams -> 0 .. Length] /\ UNCHANGED turn
      BY <1>7, <2>2, <2>4 DEF Scan
    <3>4. QED
      BY <1>7, <3>5, <3>3 DEF Scan
  <2>5. QED
    BY <2>3, <2>4
<1>8. ASSUME NEW f \in Streams, Peek(f) PROVE StreamsTypeOK'
  <2>1. Filled(f) \in Seq(1 .. Length)
    BY FilledFacts DEF StreamsInv
  <2>2. off' \in [Streams -> 0 .. Length]
    BY <1>8, RefillType DEF Peek, StreamsInv
  <2>3. QED
    BY <1>8, <2>1, <2>2 DEF Peek
<1>9. ASSUME NEW f \in Streams, Output(f) PROVE StreamsTypeOK'
  BY <1>9 DEF Output
<1>10. ASSUME NEW f \in Streams, FOpen(f) PROVE StreamsTypeOK'
  <2>1. turn' \in Streams /\ at' \in [Streams -> Places]
    BY <1>10 DEF FOpen, Crash
  <2>2. <<>> \in Seq(0 .. Length) /\ file \in Seq(0 .. Length)
    OBVIOUS
  <2>3. file' = file \/ file' = <<>>
    BY <1>10 DEF FOpen, Crash
  <2>4. file' \in Seq(0 .. Length)
    BY <2>2, <2>3
  <2>5. ready' \in [Streams -> BOOLEAN]
    BY <1>10 DEF FOpen, Crash
  <2>6. UNCHANGED <<program, mutex, off, buf, held, printed, old>>
    BY <1>10 DEF FOpen, Crash
  <2>7. QED
    BY <2>1, <2>4, <2>5, <2>6
<1>11. ASSUME NEW f \in Streams, Fill(f) PROVE StreamsTypeOK'
  <2>1. turn' \in Streams /\ at' \in [Streams -> Places]
    BY <1>11 DEF Fill
  <2>2. buf' \in [Streams -> Seq(1 .. Length)]
    BY <1>11, LettersFacts DEF Fill
  <2>3. QED
    BY <1>11, <2>1, <2>2 DEF Fill
<1>12. ASSUME NEW f \in Streams, FClose(f) PROVE StreamsTypeOK'
  <2>1. turn' \in Streams /\ at' \in [Streams -> Places]
    BY <1>12 DEF FClose
  <2>2. buf' \in [Streams -> Seq(1 .. Length)]
    BY <1>12 DEF FClose
  <2>3. buf[f] \in Seq(0 .. Length) /\ file \in Seq(0 .. Length)
    <3>1. Seq(1 .. Length) \subseteq Seq(0 .. Length)
      BY SeqMonotonic
    <3>2. QED
      BY <3>1
  <2>4. SubSeq(file, Len(buf[f]) + 1, Len(file)) \in Seq(0 .. Length)
    <3>1. Len(buf[f]) + 1 \in Int /\ Len(file) \in Int /\ Len(buf[f]) \in Nat
      BY <2>3
    <3>2. \A k \in Len(buf[f]) + 1 .. Len(file) : file[k] \in 0 .. Length
      <4> HIDE DEF StreamsTypeOK
      <4> SUFFICES ASSUME NEW k \in Len(buf[f]) + 1 .. Len(file) PROVE file[k] \in 0 .. Length
        OBVIOUS
      <4>1. k \in 1 .. Len(file)
        BY <3>1
      <4>2. QED
        BY <2>3, <4>1
    <3>3. QED
      BY <3>1, <3>2, SubSeqProperties
  <2>5. file \o buf[f] \in Seq(0 .. Length)
    BY <2>3
  <2>6. buf[f] \o SubSeq(file, Len(buf[f]) + 1, Len(file)) \in Seq(0 .. Length)
    BY <2>3, <2>4
  <2>7. file' \in Seq(0 .. Length)
    BY <1>12, <2>5, <2>6 DEF FClose
  <2>8. QED
    BY <1>12, <2>1, <2>2, <2>7 DEF FClose
<1>13. ASSUME OpenShared PROVE StreamsTypeOK'
  BY <1>13 DEF OpenShared, Crash
<1>14. ASSUME NEW f \in Streams, OpenOwn(f) PROVE StreamsTypeOK'
  BY <1>14 DEF OpenOwn
<1>15. CASE UNCHANGED streamVars
  BY <1>15 DEF streamVars
<1>16. QED
  BY <1>1, <1>2, <1>3, <1>4, <1>5, <1>6, <1>7, <1>8, <1>9, <1>10, <1>11, <1>12, <1>13, <1>14,
     <1>15
  DEF StreamsNext, MainStep, StreamStep, Streams

\* Every step leads to a place of its program and thread.
LEMMA PlaceStep ==
  ASSUME StreamsInv, [StreamsNext]_streamVars PROVE PlaceInv'
<1> USE DEF StreamsInv, StreamsTypeOK, Streams, From, To, Pass, Shared, Threaded, Reads, Programs, Places, PlaceInv
<1>1. ASSUME CreateUnchecked PROVE PlaceInv'
  BY <1>1 DEF CreateUnchecked
<1>2. ASSUME CreateChecked PROVE PlaceInv'
  BY <1>2 DEF CreateChecked
<1>3. ASSUME Newline PROVE PlaceInv'
  BY <1>3 DEF Newline
<1>4. ASSUME JoinThread PROVE PlaceInv'
  BY <1>4 DEF JoinThread, Joined
<1>5. ASSUME NEW f \in Streams, Acquire(f) PROVE PlaceInv'
  BY <1>5 DEF Acquire
<1>6. ASSUME NEW f \in Streams, Release(f) PROVE PlaceInv'
  BY <1>6 DEF Release
<1>7. ASSUME NEW f \in Streams, Scan(f) PROVE PlaceInv'
  <2>1. CASE Filled(f) = <<>>
    BY <1>7, <2>1 DEF Scan, EndOfFile
  <2>2. CASE Filled(f) # <<>>
    BY <1>7, <2>2 DEF Scan
  <2>3. QED
    BY <2>1, <2>2
<1>8. ASSUME NEW f \in Streams, Peek(f) PROVE PlaceInv'
  BY <1>8 DEF Peek
<1>9. ASSUME NEW f \in Streams, Output(f) PROVE PlaceInv'
  BY <1>9 DEF Output
<1>10. ASSUME NEW f \in Streams, FOpen(f) PROVE PlaceInv'
  BY <1>10 DEF FOpen, Crash
<1>11. ASSUME NEW f \in Streams, Fill(f) PROVE PlaceInv'
  BY <1>11 DEF Fill
<1>12. ASSUME NEW f \in Streams, FClose(f) PROVE PlaceInv'
  BY <1>12 DEF FClose
<1>13. ASSUME OpenShared PROVE PlaceInv'
  BY <1>13 DEF OpenShared, Crash
<1>14. ASSUME NEW f \in Streams, OpenOwn(f) PROVE PlaceInv'
  BY <1>14 DEF OpenOwn
<1>15. CASE UNCHANGED streamVars
  BY <1>15 DEF streamVars
<1>16. QED
  BY <1>1, <1>2, <1>3, <1>4, <1>5, <1>6, <1>7, <1>8, <1>9, <1>10, <1>11, <1>12, <1>13, <1>14,
     <1>15
  DEF StreamsNext, MainStep, StreamStep, Streams

\* Only fscanf() or read() takes a character, only the output gives it away.
LEMMA HeldStep ==
  ASSUME StreamsInv, [StreamsNext]_streamVars PROVE HeldInv'
<1> USE DEF StreamsInv, StreamsTypeOK, Streams, From, To, Pass, Shared, Threaded, Reads, Programs, Places, HeldInv, PlaceInv
<1>1. ASSUME CreateUnchecked PROVE HeldInv'
  BY <1>1 DEF CreateUnchecked
<1>2. ASSUME CreateChecked PROVE HeldInv'
  BY <1>2 DEF CreateChecked
<1>3. ASSUME Newline PROVE HeldInv'
  BY <1>3 DEF Newline
<1>4. ASSUME JoinThread PROVE HeldInv'
  BY <1>4 DEF JoinThread, Joined
<1>5. ASSUME NEW f \in Streams, Acquire(f) PROVE HeldInv'
  BY <1>5 DEF Acquire
<1>6. ASSUME NEW f \in Streams, Release(f) PROVE HeldInv'
  BY <1>6 DEF Release
<1>7. ASSUME NEW f \in Streams, Scan(f) PROVE HeldInv'
  <2>1. CASE Filled(f) = <<>>
    BY <1>7, <2>1 DEF Scan, EndOfFile
  <2>2. CASE Filled(f) # <<>>
    <3>1. Head(Filled(f)) \in 1 .. Length
      BY <2>2, HeadFacts DEF StreamsInv
    <3>2. held' = [held EXCEPT ![f] = Head(Filled(f))]
      BY <1>7, <2>2 DEF Scan
    <3>3. held'[f] # 0
      BY <3>1, <3>2
    <3>4. QED
      BY <1>7, <2>2, <3>2, <3>3 DEF Scan
  <2>3. QED
    BY <2>1, <2>2
<1>8. ASSUME NEW f \in Streams, Peek(f) PROVE HeldInv'
  BY <1>8 DEF Peek
<1>9. ASSUME NEW f \in Streams, Output(f) PROVE HeldInv'
  BY <1>9 DEF Output
<1>10. ASSUME NEW f \in Streams, FOpen(f) PROVE HeldInv'
  BY <1>10 DEF FOpen, Crash
<1>11. ASSUME NEW f \in Streams, Fill(f) PROVE HeldInv'
  BY <1>11 DEF Fill
<1>12. ASSUME NEW f \in Streams, FClose(f) PROVE HeldInv'
  BY <1>12 DEF FClose
<1>13. ASSUME OpenShared PROVE HeldInv'
  BY <1>13 DEF OpenShared, Crash
<1>14. ASSUME NEW f \in Streams, OpenOwn(f) PROVE HeldInv'
  BY <1>14 DEF OpenOwn
<1>15. CASE UNCHANGED streamVars
  BY <1>15 DEF streamVars
<1>16. QED
  BY <1>1, <1>2, <1>3, <1>4, <1>5, <1>6, <1>7, <1>8, <1>9, <1>10, <1>11, <1>12, <1>13, <1>14,
     <1>15
  DEF StreamsNext, MainStep, StreamStep, Streams

\* Nothing can be read behind the end of the file.
LEMMA DoneStep ==
  ASSUME StreamsInv, [StreamsNext]_streamVars PROVE DoneInv'
<1> USE StreamsAssumption DEF StreamsInv, StreamsTypeOK, Streams, From, To, Pass, Shared, Threaded, Reads, Programs, Places, DoneInv, PlaceInv, HeldInv, Desc
<1>1. ASSUME CreateUnchecked PROVE DoneInv'
  BY <1>1 DEF CreateUnchecked
<1>2. ASSUME CreateChecked PROVE DoneInv'
  BY <1>2 DEF CreateChecked
<1>3. ASSUME Newline PROVE DoneInv'
  BY <1>3 DEF Newline
<1>4. ASSUME JoinThread PROVE DoneInv'
  BY <1>4 DEF JoinThread, Joined
<1>5. ASSUME NEW f \in Streams, Acquire(f) PROVE DoneInv'
  BY <1>5 DEF Acquire
<1>6. ASSUME NEW f \in Streams, Release(f) PROVE DoneInv'
  BY <1>6 DEF Release
<1>7. ASSUME NEW f \in Streams, Scan(f) PROVE DoneInv'
  <2>1. \A d \in Streams : off[d] = Length => off'[d] = Length
    BY <1>7, EndStays DEF Scan, StreamsInv
  <2>2. CASE Filled(f) = <<>>
    <3>1. buf[f] = <<>> /\ (ready[f] => off[Desc(f)] = Length)
      BY <2>2, FilledFacts DEF StreamsInv
    <3>2. /\ UNCHANGED <<program, ready, buf>> /\ at[f] \in {"scan", "eof"}
          /\ \/ \A g \in Streams : g # f => at'[g] = at[g]
             \/ f = 2 /\ at[1] = "eof" /\ at'[2] # "none"
      BY <1>7, <2>2 DEF Scan, EndOfFile
    <3>3. \A g \in Streams : Desc(g)' = Desc(g) /\ Desc(g) \in Streams
      BY <3>2
    <3>4. at'[2] = "none" <=> at[2] = "none"
      BY <1>7, <2>2, <3>2 DEF Scan, EndOfFile
    <3> HIDE DEF StreamsTypeOK, Programs, Places, PlaceInv, HeldInv, Desc, Shared
    <3>5. QED
      BY <2>1, <3>1, <3>2, <3>3, <3>4 DEF StreamsInv
  <2>3. CASE Filled(f) # <<>>
    <3>1. /\ at' = [at EXCEPT ![f] = IF program = "app1_threads" THEN "peek" ELSE "print"]
          /\ buf' = [buf EXCEPT ![f] = Tail(Filled(f))] /\ UNCHANGED <<program, ready>>
      BY <1>7, <2>3 DEF Scan
    <3>2. \A g \in Streams : g # f => at'[g] = at[g] /\ buf'[g] = buf[g]
      BY <3>1
    <3>3. at'[f] \in {"peek", "print"} /\ (at'[2] = "none" <=> at[2] = "none")
      BY <1>7, <3>1 DEF Scan
    <3>4. \A g \in Streams : Desc(g)' = Desc(g) /\ Desc(g) \in Streams
      BY <3>1
    <3> HIDE DEF StreamsTypeOK, Programs, Places, Streams, PlaceInv, HeldInv, Desc, Shared
    <3>5. QED
      BY <2>1, <3>1, <3>2, <3>3, <3>4 DEF StreamsInv
  <2>4. QED
    BY <2>2, <2>3
<1>8. ASSUME NEW f \in Streams, Peek(f) PROVE DoneInv'
  <2>1. \A d \in Streams : off[d] = Length => off'[d] = Length
    BY <1>8, EndStays DEF Peek, StreamsInv
  <2>2. QED
    BY <1>8, <2>1 DEF Peek
<1>9. ASSUME NEW f \in Streams, Output(f) PROVE DoneInv'
  BY <1>9 DEF Output
<1>10. ASSUME NEW f \in Streams, FOpen(f) PROVE DoneInv'
  BY <1>10 DEF FOpen, Crash
<1>11. ASSUME NEW f \in Streams, Fill(f) PROVE DoneInv'
  BY <1>11 DEF Fill
<1>12. ASSUME NEW f \in Streams, FClose(f) PROVE DoneInv'
  BY <1>12 DEF FClose
<1>13. ASSUME OpenShared PROVE DoneInv'
  BY <1>13 DEF OpenShared, Crash
<1>14. ASSUME NEW f \in Streams, OpenOwn(f) PROVE DoneInv'
  BY <1>14 DEF OpenOwn
<1>15. CASE UNCHANGED streamVars
  BY <1>15 DEF streamVars
<1>16. QED
  BY <1>1, <1>2, <1>3, <1>4, <1>5, <1>6, <1>7, <1>8, <1>9, <1>10, <1>11, <1>12, <1>13, <1>14,
     <1>15
  DEF StreamsNext, MainStep, StreamStep, Streams

\* Nobody prints a copy while another has the mutex.
LEMMA CopyStep ==
  ASSUME StreamsInv, [StreamsNext]_streamVars PROVE CopyInv'
<1> USE DEF StreamsInv, StreamsTypeOK, Streams, From, To, Pass, Shared, Threaded, Reads, Programs, Places, CopyInv, PlaceInv, HeldInv
<1>1. ASSUME CreateUnchecked PROVE CopyInv'
  BY <1>1 DEF CreateUnchecked
<1>2. ASSUME CreateChecked PROVE CopyInv'
  BY <1>2 DEF CreateChecked
<1>3. ASSUME Newline PROVE CopyInv'
  <2>1. UNCHANGED <<program, mutex>> /\ at' = [at EXCEPT ![1] = "lock"] /\ at[1] = "newline"
    BY <1>3 DEF Newline
  <2>2. <<1, 0>> \in Streams \X (0 .. Length) /\ printed' = Append(printed, <<1, 0>>)
    BY <1>3, StreamsAssumption DEF Newline
  <2> DEFINE n == Len(printed)
  <2>3. /\ n \in Nat /\ DOMAIN printed = 1 .. n /\ DOMAIN printed' = 1 .. n + 1
        /\ \A i \in 1 .. n : printed'[i] = printed[i]
        /\ printed'[n + 1] = <<1, 0>>
    BY <2>2, PrintedFacts DEF StreamsInv
  <2> HIDE DEF StreamsTypeOK, Programs, Places, n
  <2>4. \A i \in DOMAIN printed' : printed'[i][2] # 0 => i \in DOMAIN printed
    BY <2>3
  <2>5. QED
    BY <1>3, <2>1, <2>3, <2>4
<1>4. ASSUME JoinThread PROVE CopyInv'
  BY <1>4 DEF JoinThread, Joined
<1>5. ASSUME NEW f \in Streams, Acquire(f) PROVE CopyInv'
  BY <1>5 DEF Acquire
<1>6. ASSUME NEW f \in Streams, Release(f) PROVE CopyInv'
  BY <1>6 DEF Release
<1>7. ASSUME NEW f \in Streams, Scan(f) PROVE CopyInv'
  <2> SUFFICES ASSUME program = "app2_threads_right" PROVE CopyInv'
    BY <1>7 DEF Scan
  <2>1. at[f] = "scan" /\ UNCHANGED <<program, mutex, printed>>
    BY <1>7 DEF Scan
  <2>2. at' = [at EXCEPT ![f] = "unlock"] \/ at' = [at EXCEPT ![f] = "print"]
    BY <1>7 DEF Scan, EndOfFile
  <2>3. \A g \in Streams : g # f => at'[g] = at[g]
    BY <2>2
  <2>4. at'[f] \in {"unlock", "print"}
    BY <2>2
  <2> HIDE DEF StreamsTypeOK, Programs, Places, Streams, PlaceInv, HeldInv
  <2>5. QED
    BY <2>1, <2>3, <2>4
<1>8. ASSUME NEW f \in Streams, Peek(f) PROVE CopyInv'
  BY <1>8 DEF Peek
<1>9. ASSUME NEW f \in Streams, Output(f) PROVE CopyInv'
  <2> SUFFICES ASSUME program = "app2_threads_right" PROVE CopyInv'
    BY <1>9 DEF Output
  <2>1. /\ at[f] = "print" /\ at' = [at EXCEPT ![f] = "scan"]
        /\ UNCHANGED <<program, mutex>> /\ at \in [Streams -> Places]
    BY <1>9 DEF Output
  <2>2. <<f, held[f]>> \in Streams \X (0 .. Length) /\ printed' = Append(printed, <<f, held[f]>>)
    BY <1>9 DEF Output
  <2> DEFINE n == Len(printed)
  <2>3. /\ n \in Nat /\ DOMAIN printed = 1 .. n /\ DOMAIN printed' = 1 .. n + 1
        /\ \A i \in 1 .. n : printed'[i] = printed[i]
        /\ printed'[n + 1][1] = f
    BY <2>2, PrintedFacts DEF StreamsInv
  <2> HIDE DEF StreamsTypeOK, Programs, Places, n
  <2>4. /\ mutex = f
        /\ \A i, j \in 1 .. n :
             i < j /\ printed[i][1] = f /\ printed[i][2] # 0 /\ printed[j][2] # 0 =>
               printed[j][1] = f
    BY <2>1, <2>3
  <2>5. \A g \in Streams : /\ at'[g] \in {"scan", "print", "unlock"} <=> mutex' = g
                           /\ at'[g] \in {"scan", "print"} => g = f
                           /\ g # f => at'[g] = at[g]
                           /\ at'[f] = "scan"
    BY <2>1, <2>4
  <2>6. \A g \in Streams : at[g] \in {"open", "create", "newline", "lock", "none"} =>
          \A i \in 1 .. n : printed[i][1] = g => printed[i][2] = 0
    BY <2>3
  <2>7. \A i, j, k \in 1 .. n :
          /\ i < j /\ j < k /\ printed[i][1] = printed[k][1]
          /\ 0 \notin {printed[i][2], printed[j][2], printed[k][2]}
          => printed[j][1] = printed[i][1]
    BY <2>3
  <2>8. ASSUME NEW g \in Streams, at'[g] \in {"open", "create", "newline", "lock", "none"},
               NEW i \in 1 .. n + 1, printed'[i][1] = g
        PROVE  printed'[i][2] = 0
    BY <2>3, <2>5, <2>6, <2>8
  <2>9. ASSUME NEW i \in 1 .. n + 1, NEW j \in 1 .. n + 1, i < j,
               printed'[i][1] = f, printed'[i][2] # 0, printed'[j][2] # 0
        PROVE  printed'[j][1] = f
    BY <2>3, <2>4, <2>9
  <2>10. ASSUME NEW i \in 1 .. n + 1, NEW j \in 1 .. n + 1, NEW k \in 1 .. n + 1,
               i < j, j < k, printed'[i][1] = printed'[k][1],
               0 \notin {printed'[i][2], printed'[j][2], printed'[k][2]}
        PROVE  printed'[j][1] = printed'[i][1]
    <3>1. i \in 1 .. n /\ j \in 1 .. n
      BY <2>3, <2>10
    <3>2. CASE k \in 1 .. n
      BY <2>3, <2>7, <2>10, <3>1, <3>2
    <3>3. CASE k = n + 1
      BY <2>3, <2>4, <2>10, <3>1, <3>3
    <3>4. QED
      BY <2>3, <3>2, <3>3
  <2>11. /\ \A g \in Streams :
              /\ at'[g] \in {"scan", "print", "unlock"} <=> mutex' = g
              /\ at'[g] \in {"open", "create", "newline", "lock", "none"} =>
                   \A i \in DOMAIN printed' : printed'[i][1] = g => printed'[i][2] = 0
              /\ at'[g] \in {"scan", "print"} => \A i, j \in DOMAIN printed' :
                   i < j /\ printed'[i][1] = g /\ printed'[i][2] # 0 /\ printed'[j][2] # 0 =>
                     printed'[j][1] = g
         /\ \A i, j, k \in DOMAIN printed' :
              /\ i < j /\ j < k /\ printed'[i][1] = printed'[k][1]
              /\ 0 \notin {printed'[i][2], printed'[j][2], printed'[k][2]}
              => printed'[j][1] = printed'[i][1]
    BY <2>3, <2>5, <2>8, <2>9, <2>10
  <2>12. QED
    BY <2>11 DEF CopyInv
<1>10. ASSUME NEW f \in Streams, FOpen(f) PROVE CopyInv'
  BY <1>10 DEF FOpen, Crash
<1>11. ASSUME NEW f \in Streams, Fill(f) PROVE CopyInv'
  BY <1>11 DEF Fill
<1>12. ASSUME NEW f \in Streams, FClose(f) PROVE CopyInv'
  BY <1>12 DEF FClose
<1>13. ASSUME OpenShared PROVE CopyInv'
  BY <1>13 DEF OpenShared, Crash
<1>14. ASSUME NEW f \in Streams, OpenOwn(f) PROVE CopyInv'
  BY <1>14 DEF OpenOwn
<1>15. CASE UNCHANGED streamVars
  BY <1>15 DEF streamVars
<1>16. QED
  BY <1>1, <1>2, <1>3, <1>4, <1>5, <1>6, <1>7, <1>8, <1>9, <1>10, <1>11, <1>12, <1>13, <1>14,
     <1>15
  DEF StreamsNext, MainStep, StreamStep, Streams

\* The two streams of app2.c stay one character apart at most.
LEMMA PairStep ==
  ASSUME StreamsInv, [StreamsNext]_streamVars PROVE PairInv'
<1> USE DEF StreamsInv, StreamsTypeOK, Streams, From, To, Pass, Shared, Threaded, Reads, Programs, Places, PairInv, Paired, PlaceInv
<1>1. ASSUME CreateUnchecked PROVE PairInv'
  BY <1>1 DEF CreateUnchecked
<1>2. ASSUME CreateChecked PROVE PairInv'
  BY <1>2 DEF CreateChecked
<1>3. ASSUME Newline PROVE PairInv'
  BY <1>3 DEF Newline
<1>4. ASSUME JoinThread PROVE PairInv'
  BY <1>4 DEF JoinThread, Joined
<1>5. ASSUME NEW f \in Streams, Acquire(f) PROVE PairInv'
  BY <1>5 DEF Acquire
<1>6. ASSUME NEW f \in Streams, Release(f) PROVE PairInv'
  BY <1>6 DEF Release
<1>7. ASSUME NEW f \in Streams, Scan(f) PROVE PairInv'
  <2> SUFFICES ASSUME program = "app2" PROVE PairInv'
    BY <1>7 DEF Scan
  <2>1. UNCHANGED <<program, printed, ready>> /\ Refill(f) /\ turn = f
    BY <1>7 DEF Scan
  <2>2. at[1] # "open" /\ at[2] # "open"
    BY <1>7, <2>1 DEF Scan
  <2>3. at'[1] # "open" /\ at'[2] # "open"
    BY <1>7, <2>2 DEF Scan, EndOfFile
  <2> SUFFICES ASSUME ready[1], ready[2] PROVE Paired'
    <3> HIDE DEF Paired
    <3> QED BY <2>1, <2>3
  <2>4. buf[f] = <<>> /\ at[f] = "scan"
    BY <1>7, <2>1 DEF Scan
  <2>5. PICK m \in Nat : /\ off[f] + m <= Length /\ m <= 1 /\ Len(Filled(f)) = m
                         /\ \A k \in 1 .. m : Filled(f)[k] = off[f] + k
    <3>1. Desc(f) = f /\ ~Shared /\ StreamsTypeOK
      BY DEF Desc, StreamsInv
    <3> HIDE DEF StreamsTypeOK, Shared
    <3>2. QED
      BY <2>4, <3>1, FilledFacts
  <2>6. off' = [off EXCEPT ![f] = off[f] + m]
    BY <2>1, <2>4, <2>5 DEF Refill, Desc
  <2>7. CASE Filled(f) = <<>>
    <3>1. m = 0 /\ off[f] = Length
      BY <2>5, <2>7, FilledFacts DEF Desc, StreamsInv
    <3>2. off[1] \in 0 .. Length /\ off[2] \in 0 .. Length
      OBVIOUS
    <3>3. off'[1] = off[1] /\ off'[2] = off[2] /\ UNCHANGED <<buf, held>> /\ turn' = 3 - f
      BY <1>7, <2>6, <2>7, <3>1, <3>2 DEF Scan
    <3>4. CASE f = 1
      <4>1. at' = [at EXCEPT ![1] = "eof"] /\ at[2] = "scan" /\ off[1] = off[2]
        BY <1>7, <2>1, <2>4, <2>7, <3>4 DEF Scan, EndOfFile
      <4>2. turn' = 2 /\ at'[1] = "eof" /\ at'[2] = "scan"
        BY <3>3, <3>4, <4>1
      <4>3. QED
        BY <2>1, <3>3, <4>1, <4>2
    <3>5. CASE f = 2
      <4>1. at[1] = "eof"
        BY <2>1, <2>4, <3>1, <3>2, <3>5, StreamsAssumption
      <4>2. at' = [g \in Streams |-> "end"]
        BY <1>7, <2>7, <3>5, <4>1 DEF Scan, EndOfFile
      <4>3. QED
        BY <2>1, <3>3, <4>2
    <3>6. QED
      BY <3>4, <3>5
  <2>8. CASE Filled(f) # <<>>
    <3>1. m = 1 /\ Head(Filled(f)) = off[f] + 1 /\ Tail(Filled(f)) = <<>>
      <4>1. m = 1
        BY <2>5, <2>8, HeadFacts DEF StreamsInv
      <4>2. Len(Tail(Filled(f))) = 0 /\ Tail(Filled(f)) \in Seq(1 .. Length)
        BY <2>5, <2>8, <4>1, HeadFacts DEF StreamsInv
      <4>3. Tail(Filled(f)) = <<>>
        BY <4>2, EmptySeq
      <4>4. Head(Filled(f)) = Filled(f)[1]
        BY <2>8, HeadFacts DEF StreamsInv
      <4>5. QED
        BY <2>5, <4>1, <4>3, <4>4
    <3>2. /\ held' = [held EXCEPT ![f] = Head(Filled(f))]
          /\ buf' = [buf EXCEPT ![f] = Tail(Filled(f))]
          /\ at' = [at EXCEPT ![f] = "print"] /\ UNCHANGED turn
      BY <1>7, <2>8 DEF Scan
    <3>3. at[1] # "eof" /\ at[1] # "end"
      <4>1. at[1] = "eof" => off[1] = Length
        BY DEF StreamsInv, DoneInv, Desc
      <4>2. at[1] = "eof" => f = 2 /\ off[1] = off[2]
        BY <2>1, <2>4
      <4>3. off[f] + 1 <= Length /\ off[f] \in Nat
        BY <2>5, <3>1
      <4>4. QED
        BY <2>1, <2>4, <4>1, <4>2, <4>3, StreamsAssumption
    <3>4. /\ off[1] \in Nat /\ off[2] \in Nat /\ held'[f] = off[f] + 1
          /\ off'[f] = off[f] + 1 /\ \A g \in Streams : g # f => off'[g] = off[g]
          /\ \A g \in Streams : buf'[g] = <<>>
      <4>1. /\ off \in [Streams -> 0 .. Length] /\ held \in [Streams -> 0 .. Length]
            /\ DOMAIN buf = Streams /\ \A g \in Streams : buf[g] = <<>>
        OBVIOUS
      <4> HIDE DEF StreamsTypeOK, Programs, Places
      <4>2. off'[f] = off[f] + 1 /\ \A g \in Streams : g # f => off'[g] = off[g]
        BY <2>6, <3>1, <4>1
      <4>3. held'[f] = off[f] + 1 /\ \A g \in Streams : buf'[g] = <<>>
        BY <3>1, <3>2, <4>1
      <4>4. QED
        BY <4>1, <4>2, <4>3
    <3>5. CASE f = 1
      BY <2>1, <2>4, <3>2, <3>3, <3>4, <3>5
    <3>6. CASE f = 2
      BY <2>1, <2>4, <3>2, <3>3, <3>4, <3>6
    <3>7. QED
      BY <3>5, <3>6
  <2>9. QED
    BY <2>7, <2>8
<1>8. ASSUME NEW f \in Streams, Peek(f) PROVE PairInv'
  BY <1>8 DEF Peek
<1>9. ASSUME NEW f \in Streams, Output(f) PROVE PairInv'
  <2> SUFFICES ASSUME program = "app2" PROVE PairInv'
    BY <1>9 DEF Output
  <2>1. /\ at[f] = "print" /\ turn = f /\ at' = [at EXCEPT ![f] = "scan"] /\ turn' = 3 - f
        /\ UNCHANGED <<program, buf, off, ready>> /\ held' = [held EXCEPT ![f] = 0]
    BY <1>9 DEF Output
  <2>2. at[1] # "open" /\ at[2] # "open" /\ at'[1] # "open" /\ at'[2] # "open"
    BY <2>1
  <2> SUFFICES ASSUME ready[1], ready[2] PROVE Paired'
    <3> HIDE DEF Paired
    <3> QED BY <2>1, <2>2
  <2>3. <<f, held[f]>> \in Streams \X (0 .. Length) /\ printed' = Append(printed, <<f, held[f]>>)
    BY <1>9 DEF Output
  <2> DEFINE n == Len(printed)
  <2>4. /\ n \in Nat /\ DOMAIN printed = 1 .. n /\ DOMAIN printed' = 1 .. n + 1
        /\ Len(printed') = n + 1
        /\ \A i \in 1 .. n : printed'[i] = printed[i]
        /\ printed'[n + 1][2] = held[f]
    BY <2>3, PrintedFacts DEF StreamsInv
  <2>5. off[1] \in Int /\ off[2] \in Int /\ at \in [Streams -> Places]
    OBVIOUS
  <2>6. /\ \A i \in 1 .. n : i % 2 = 0 => printed[i][2] = printed[i - 1][2]
        /\ \A g \in Streams : buf[g] = <<>>
    BY <2>4
  <2>7. \/ /\ f = 1 /\ at[2] = "scan" /\ n % 2 = 0
           /\ off[1] = off[2] + 1 /\ held[1] = off[1]
        \/ /\ f = 2 /\ at[1] = "scan" /\ n % 2 = 1 /\ printed[n][2] = off[2]
           /\ off[1] = off[2] /\ held[2] = off[2]
    BY <2>1
  <2> HIDE DEF StreamsTypeOK, Programs, Places, n
  <2>8. CASE n % 2 = 0
    <3>1. (n + 1) % 2 = 1 /\ f = 1
      BY <2>4, <2>7, <2>8
    <3>2. \A i \in 1 .. n + 1 : i % 2 = 0 => i \in 1 .. n /\ i - 1 \in 1 .. n
      BY <2>4, <3>1
    <3>3. \A i \in 1 .. n + 1 : i % 2 = 0 => printed'[i][2] = printed'[i - 1][2]
      BY <2>4, <2>6, <3>2
    <3>4. turn' = 2 /\ at'[1] = "scan" /\ at'[2] = "scan" /\ off'[1] = off'[2] + 1
      BY <2>1, <2>5, <2>7, <2>8, <3>1
    <3>5. printed'[n + 1][2] = off'[1]
      BY <2>1, <2>4, <2>7, <3>1
    <3>6. QED
      BY <2>1, <2>4, <2>6, <3>1, <3>3, <3>4, <3>5 DEF Paired
  <2>9. CASE n % 2 = 1
    <3>1. (n + 1) % 2 = 0 /\ f = 2 /\ n \in 1 .. n
      BY <2>4, <2>7, <2>9
    <3>2. \A i \in 1 .. n : i % 2 = 0 => i - 1 \in 1 .. n
      BY <2>4
    <3>3. \A i \in 1 .. n : i % 2 = 0 => printed'[i][2] = printed'[i - 1][2]
      BY <2>4, <2>6, <3>2
    <3>4. printed'[n + 1][2] = off[2] /\ printed'[n][2] = off[2] /\ (n + 1) - 1 = n
      BY <2>4, <2>7, <3>1
    <3>5. \A i \in 1 .. n + 1 : i % 2 = 0 => printed'[i][2] = printed'[i - 1][2]
      <4>1. \A i \in 1 .. n + 1 : i \in 1 .. n \/ i = n + 1
        BY <2>4
      <4>2. printed'[n + 1][2] = printed'[(n + 1) - 1][2]
        BY <3>4
      <4>3. QED
        BY <3>3, <4>1, <4>2
    <3>6. turn' = 1 /\ at'[1] = "scan" /\ at'[2] = "scan" /\ off'[1] = off'[2]
      BY <2>1, <2>5, <2>7, <3>1
    <3>7. QED
      BY <2>1, <2>4, <2>6, <3>1, <3>5, <3>6 DEF Paired
  <2>10. QED
    BY <2>7, <2>8, <2>9
<1>10. ASSUME NEW f \in Streams, FOpen(f) PROVE PairInv'
  BY <1>10 DEF FOpen, Crash
<1>11. ASSUME NEW f \in Streams, Fill(f) PROVE PairInv'
  BY <1>11 DEF Fill
<1>12. ASSUME NEW f \in Streams, FClose(f) PROVE PairInv'
  BY <1>12 DEF FClose
<1>13. ASSUME OpenShared PROVE PairInv'
  BY <1>13 DEF OpenShared, Crash
<1>14. ASSUME NEW f \in Streams, OpenOwn(f) PROVE PairInv'
  <2> SUFFICES ASSUME program = "app2" PROVE PairInv'
    BY <1>14 DEF OpenOwn
  <2>1. /\ at[f] = "open" /\ turn = f /\ at' = [at EXCEPT ![f] = "scan"] /\ turn' = 3 - f
        /\ UNCHANGED <<program, off, buf, held, printed>>
        /\ \A g \in Streams : g # f => ready'[g] = ready[g]
    BY <1>14 DEF OpenOwn
  <2>2. at[2] = "open" /\ at \in [Streams -> Places]
    BY <2>1
  <2>3. CASE f = 1
    <3>1. at'[1] = "scan" /\ at'[2] = "open" /\ turn' = 2 /\ ~ready'[2]
      BY <2>1, <2>2, <2>3
    <3>2. QED
      BY <2>1, <2>2, <3>1
  <2>4. CASE f = 2
    <3>1. at'[1] = "scan" /\ at'[2] = "scan" /\ turn' = 1 /\ off'[1] = off'[2] /\ printed' = <<>>
      BY <2>1, <2>2, <2>4
    <3>2. Len(printed') % 2 = 0 /\ DOMAIN printed' = {} /\ \A g \in Streams : buf'[g] = <<>>
      BY <2>1, <2>2, <3>1
    <3>3. Paired'
      BY <3>1, <3>2
    <3> HIDE DEF Paired
    <3>4. QED
      BY <3>1, <3>3
  <2>5. QED
    BY <2>3, <2>4
<1>15. CASE UNCHANGED streamVars
  BY <1>15 DEF streamVars
<1>16. QED
  BY <1>1, <1>2, <1>3, <1>4, <1>5, <1>6, <1>7, <1>8, <1>9, <1>10, <1>11, <1>12, <1>13, <1>14,
     <1>15
  DEF StreamsNext, MainStep, StreamStep, Streams

\* A character that is read goes behind all that its stream has taken.
LEMMA TakenStep ==
  ASSUME StreamsInv, [StreamsNext]_streamVars PROVE TakenInv'
<1> USE DEF StreamsInv, StreamsTypeOK, Streams, From, To, Pass, Shared, Threaded, Reads, Programs, Places, PlaceInv
<1>1. ASSUME CreateUnchecked PROVE TakenInv'
  BY <1>1, TakenSame DEF CreateUnchecked
<1>2. ASSUME CreateChecked PROVE TakenInv'
  BY <1>2, TakenSame DEF CreateChecked
<1>3. ASSUME Newline PROVE TakenInv'
  <2> HIDE DEF Shared, Reads, Programs, Places, Threaded
  <2>1. /\ <<1, 0>> \in Streams \X (0 .. Length) /\ printed' = Append(printed, <<1, 0>>)
        /\ UNCHANGED <<program, off, buf, held>>
    BY <1>3, StreamsAssumption DEF Newline
  <2> DEFINE n == Len(printed)
  <2>2. /\ n \in Nat /\ DOMAIN printed = 1 .. n /\ DOMAIN printed' = 1 .. n + 1
        /\ \A i \in 1 .. n : printed'[i] = printed[i]
        /\ printed'[n + 1][1] = 1 /\ printed'[n + 1][2] = 0
    BY <2>1, PrintedFacts
  <2> HIDE DEF n, StreamsTypeOK
  <2>3. \A g \in Streams : Shown(g)' = Shown(g)
    <3> SUFFICES ASSUME NEW g \in Streams PROVE Shown(g)' = Shown(g)
      OBVIOUS
    <3>1. \A x : x \in Shown(g)' <=> x \in Shown(g)
      BY <2>2 DEF Shown
    <3>2. QED
      BY <3>1
  <2>4. \A g \in Streams : Taken(g)' = Taken(g)
    BY <2>1, <2>3, OtherTaken
  <2>5. ASSUME NEW g \in Streams, Ascending(g) PROVE Ascending(g)'
    <3>1. \A i, j \in 1 .. n + 1 :
            i < j /\ printed'[i][1] = g /\ printed'[j][1] = g /\ printed'[j][2] # 0 =>
              printed'[i][2] < printed'[j][2]
      BY <2>2, <2>5 DEF Ascending
    <3>2. QED
      BY <2>1, <2>2, <2>3, <2>5, <3>1 DEF Ascending
  <2>6. QED
    BY <2>1, <2>4, <2>5 DEF TakenInv, Reads, Shared
<1>4. ASSUME JoinThread PROVE TakenInv'
  BY <1>4, TakenSame DEF JoinThread, Joined
<1>5. ASSUME NEW f \in Streams, Acquire(f) PROVE TakenInv'
  BY <1>5, TakenSame DEF Acquire
<1>6. ASSUME NEW f \in Streams, Release(f) PROVE TakenInv'
  BY <1>6, TakenSame DEF Release
<1>7. ASSUME NEW f \in Streams, Scan(f) PROVE TakenInv'
  <2> HIDE DEF Shared, Programs, Places, Threaded
  <2>1. /\ Reads /\ Refill(f) /\ UNCHANGED <<program, printed>> /\ held[f] = 0
        /\ DOMAIN buf = Streams /\ DOMAIN held = Streams
    BY <1>7 DEF Scan, HeldInv
  <2>2. 3 - f \in Streams /\ 3 - f # f
    BY OtherStream
  <2> HIDE DEF Reads, From, PlaceInv
  <2>3. CASE Filled(f) = <<>>
    <3>1. UNCHANGED <<buf, held>>
      BY <1>7, <2>3 DEF Scan
    <3>2. buf[f] = <<>>
      BY <2>3, FilledFacts
    <3> HIDE DEF StreamsTypeOK
    <3>3. Taken(f)' = Filling(f)
      BY <2>1, <2>3, <3>1, <3>2, ShownSame DEF Taken, Filling
    <3>4. Ascending(f)
      BY <2>1, TakenParts
    <3>5. Ascending(f)'
      BY <2>1, <3>1, <3>4 DEF Ascending, Shown
    <3>6. QED
      BY <2>1, <2>2, <3>1, <3>3, <3>5, TakenAfterRefill
  <2>4. CASE Filled(f) # <<>>
    <3>1. /\ held' = [held EXCEPT ![f] = Head(Filled(f))]
          /\ buf' = [buf EXCEPT ![f] = Tail(Filled(f))]
      BY <1>7, <2>4 DEF Scan
    <3> DEFINE m == Len(Filled(f))
    <3>2. /\ m \in Nat \ {0} /\ DOMAIN Filled(f) = 1 .. m
          /\ Head(Filled(f)) = Filled(f)[1] /\ Head(Filled(f)) # 0
          /\ DOMAIN Tail(Filled(f)) = 1 .. m - 1
          /\ \A k \in 1 .. m - 1 : Tail(Filled(f))[k] = Filled(f)[k + 1]
      <4>1. Filled(f) \in Seq(1 .. Length)
        BY FilledFacts
      <4> HIDE DEF StreamsTypeOK
      <4>2. QED
        BY <2>4, <4>1, HeadFacts, LenProperties DEF StreamsInv
    <3>3. \A k \in 1 .. m : Filled(f)[k] \in 1 .. Length
      <4>1. Filled(f) \in Seq(1 .. Length)
        BY FilledFacts
      <4> HIDE DEF StreamsTypeOK
      <4>2. QED
        BY <4>1, ElementOfSeq
    <3> HIDE DEF StreamsTypeOK, m
    <3>4. /\ held'[f] = Filled(f)[1] /\ held'[3 - f] = held[3 - f]
          /\ buf'[f] = Tail(Filled(f)) /\ buf'[3 - f] = buf[3 - f] /\ Shown(f)' = Shown(f)
      BY <2>1, <2>2, <3>1, <3>2, ShownSame
    <3>5. Taken(f)' = Filling(f)
      <4> HIDE DEF StreamsInv
      <4>1. /\ DOMAIN buf'[f] = 1 .. m - 1 /\ held'[f] # 0
            /\ \A k \in 1 .. m - 1 : buf'[f][k] = Filled(f)[k + 1]
        BY <3>2, <3>4
      <4>2. \A x : x \in Taken(f)' <=>
              \/ x \in Shown(f) \/ x = held'[f] \/ \E k \in 1 .. m - 1 : x = buf'[f][k]
        BY <3>4, <4>1 DEF Taken
      <4>3. \A x : x \in Filling(f) <=> x \in Shown(f) \/ \E k \in 1 .. m : x = Filled(f)[k]
        BY <2>1, <3>2 DEF Filling
      <4>4. /\ \A k \in 1 .. m : k = 1 \/ (k - 1 \in 1 .. m - 1 /\ k = (k - 1) + 1)
            /\ 1 \in 1 .. m /\ \A k \in 1 .. m - 1 : k + 1 \in 1 .. m
        BY <3>2
      <4>5. \A x : (\E k \in 1 .. m : x = Filled(f)[k]) <=>
                    \/ x = held'[f] \/ \E k \in 1 .. m - 1 : x = buf'[f][k]
        <5>1. ASSUME NEW k \in 1 .. m
              PROVE  Filled(f)[k] = held'[f] \/ \E l \in 1 .. m - 1 : Filled(f)[k] = buf'[f][l]
          <6>1. CASE k = 1
            BY <3>4, <6>1
          <6>2. CASE k # 1
            <7>1. k - 1 \in 1 .. m - 1 /\ (k - 1) + 1 = k
              BY <4>4, <6>2
            <7>2. QED
              BY <4>1, <7>1
          <6>3. QED
            BY <6>1, <6>2
        <5>2. \E k \in 1 .. m : held'[f] = Filled(f)[k]
          BY <3>4, <4>4
        <5>3. \A l \in 1 .. m - 1 : \E k \in 1 .. m : buf'[f][l] = Filled(f)[k]
          BY <4>1, <4>4
        <5>4. QED
          BY <5>1, <5>2, <5>3
      <4>6. \A x : x \in Taken(f)' <=> x \in Filling(f)
        BY <4>2, <4>3, <4>5
      <4>7. QED
        BY <4>6
    <3>6. Ascending(f)
      BY <2>1, TakenParts
    <3>7. \A k \in 1 .. m : /\ \A x \in Shown(f) \cup {held[f]} : x < Filled(f)[k]
                            /\ \A l \in 1 .. k - 1 : Filled(f)[l] < Filled(f)[k]
      BY <2>1, <3>2, FillingFacts
    <3>8. Ascending(f)'
      <4>1. 1 \in 1 .. m /\ \A x \in Shown(f) : x < held'[f]
        BY <3>2, <3>4, <3>7
      <4>2. ASSUME NEW k \in 1 .. m - 1
            PROVE  /\ \A x \in Shown(f) \cup {held'[f]} : x < buf'[f][k]
                   /\ \A l \in 1 .. k - 1 : buf'[f][l] < buf'[f][k]
        <5>1. k + 1 \in 1 .. m /\ 1 \in 1 .. (k + 1) - 1 /\ buf'[f][k] = Filled(f)[k + 1]
          BY <3>2, <3>4
        <5>2. \A l \in 1 .. k - 1 : l + 1 \in 1 .. (k + 1) - 1 /\ buf'[f][l] = Filled(f)[l + 1]
          BY <3>2, <3>4
        <5>3. QED
          BY <3>4, <3>7, <5>1, <5>2
      <4>3. QED
        BY <2>1, <3>2, <3>4, <3>6, <4>1, <4>2 DEF Ascending
    <3>9. QED
      BY <2>1, <2>2, <3>4, <3>5, <3>8, TakenAfterRefill
  <2>5. QED
    BY <2>3, <2>4
<1>8. ASSUME NEW f \in Streams, Peek(f) PROVE TakenInv'
  <2> HIDE DEF Shared, Programs, Places, Threaded
  <2>1. /\ Reads /\ Refill(f) /\ UNCHANGED <<program, printed, held>>
        /\ buf' = [buf EXCEPT ![f] = Filled(f)] /\ DOMAIN buf = Streams
    BY <1>8 DEF Peek
  <2> HIDE DEF StreamsTypeOK, Reads
  <2>2. 3 - f \in Streams /\ 3 - f # f
    BY OtherStream
  <2>3. buf'[f] = Filled(f) /\ buf'[3 - f] = buf[3 - f] /\ Shown(f)' = Shown(f)
    BY <2>1, <2>2, ShownSame
  <2>4. Taken(f)' = Filling(f)
    BY <2>1, <2>3 DEF Taken, Filling
  <2>5. Ascending(f)
    BY <2>1, TakenParts
  <2>6. Ascending(f)'
    BY <2>1, <2>3, <2>5, FillingFacts DEF Ascending
  <2>7. QED
    BY <2>1, <2>2, <2>3, <2>4, <2>6, TakenAfterRefill
<1>9. ASSUME NEW f \in Streams, Output(f) PROVE TakenInv'
  <2> HIDE DEF Shared, Reads, Programs, Places, Threaded
  <2>1. /\ <<f, held[f]>> \in Streams \X (0 .. Length) /\ printed' = Append(printed, <<f, held[f]>>)
        /\ UNCHANGED <<program, off, buf>> /\ held' = [held EXCEPT ![f] = 0] /\ held[f] # 0
        /\ held \in [Streams -> 0 .. Length] /\ buf \in [Streams -> Seq(1 .. Length)]
    BY <1>9 DEF Output, HeldInv, From
  <2> DEFINE n == Len(printed)
  <2>2. /\ n \in Nat /\ DOMAIN printed = 1 .. n /\ DOMAIN printed' = 1 .. n + 1
        /\ \A i \in 1 .. n : printed'[i] = printed[i]
        /\ printed'[n + 1][1] = f /\ printed'[n + 1][2] = held[f]
    BY <2>1, PrintedFacts
  <2> HIDE DEF n, StreamsTypeOK
  <2>3. 3 - f \in Streams /\ 3 - f # f
    BY OtherStream
  <2>4. \A x : x \in Shown(f)' <=> x \in Shown(f) \/ x = held[f]
    <3>1. \A x : x \in Shown(f) <=> x # 0 /\ \E i \in 1 .. n : printed[i][1] = f /\ printed[i][2] = x
      BY <2>2 DEF Shown
    <3>2. \A x : x \in Shown(f)' <=>
            x # 0 /\ \E i \in 1 .. n + 1 : printed'[i][1] = f /\ printed'[i][2] = x
      BY <2>2 DEF Shown
    <3>3. \A i \in 1 .. n + 1 : i \in 1 .. n \/ i = n + 1
      BY <2>2
    <3>4. \A i \in 1 .. n : i \in 1 .. n + 1
      BY <2>2
    <3>5. n + 1 \in 1 .. n + 1
      BY <2>2
    <3>6. QED
      BY <2>1, <2>2, <3>1, <3>2, <3>3, <3>4, <3>5
  <2>5. Shown(3 - f)' = Shown(3 - f)
    <3>1. \A x : x \in Shown(3 - f)' <=> x \in Shown(3 - f)
      BY <2>2, <2>3 DEF Shown
    <3>2. QED
      BY <3>1
  <2>6. /\ held'[f] = 0 /\ held'[3 - f] = held[3 - f] /\ UNCHANGED buf
    BY <2>1, <2>3
  <2>7. Taken(f)' = Taken(f) /\ Taken(3 - f)' = Taken(3 - f)
    <3>1. \A x : x \in Taken(f)' <=> x \in Taken(f)
      BY <2>1, <2>4, <2>6 DEF Taken
    <3>2. QED
      BY <2>3, <2>5, <2>6, <3>1, OtherTaken
  <2>8. ASSUME Ascending(f) PROVE Ascending(f)'
    <3>1. \A i \in 1 .. n : printed[i][1] = f => printed[i][2] < held[f]
      <4>1. \A i \in 1 .. n : printed[i][1] = f /\ printed[i][2] # 0 => printed[i][2] \in Shown(f)
        BY <2>2 DEF Shown
      <4>2. held[f] \in Nat \ {0} /\ \A x \in Shown(f) : x < held[f]
        BY <2>1, <2>8 DEF Ascending
      <4>3. QED
        BY <4>1, <4>2
    <3>2. \A i, j \in 1 .. n + 1 :
            i < j /\ printed'[i][1] = f /\ printed'[j][1] = f /\ printed'[j][2] # 0 =>
              printed'[i][2] < printed'[j][2]
      <4>1. ASSUME NEW i \in 1 .. n + 1, NEW j \in 1 .. n + 1, i < j,
                   printed'[i][1] = f, printed'[j][1] = f, printed'[j][2] # 0
            PROVE  printed'[i][2] < printed'[j][2]
        <5>1. i \in 1 .. n /\ (j \in 1 .. n \/ j = n + 1)
          BY <2>2, <4>1
        <5>2. QED
          BY <2>2, <2>8, <3>1, <4>1, <5>1 DEF Ascending
      <4>2. QED
        BY <4>1
    <3>3. \A k \in DOMAIN buf[f] :
            /\ \A x \in Shown(f)' \cup {0} : x < buf[f][k]
            /\ \A l \in 1 .. k - 1 : buf[f][l] < buf[f][k]
      <4>1. \A k \in DOMAIN buf[f] : buf[f][k] \in 1 .. Length
        <5>1. buf[f] \in Seq(1 .. Length)
          BY <2>1
        <5>2. DOMAIN buf[f] = 1 .. Len(buf[f])
          BY <5>1, LenProperties
        <5>3. QED
          BY <5>1, <5>2, ElementOfSeq
      <4>2. QED
        BY <2>4, <2>8, <4>1 DEF Ascending
    <3>4. QED
      BY <2>2, <2>6, <3>2, <3>3 DEF Ascending
  <2>9. ASSUME Ascending(3 - f) PROVE Ascending(3 - f)'
    <3>1. \A i, j \in 1 .. n + 1 :
            i < j /\ printed'[i][1] = 3 - f /\ printed'[j][1] = 3 - f /\ printed'[j][2] # 0 =>
              printed'[i][2] < printed'[j][2]
      BY <2>2, <2>3, <2>9 DEF Ascending
    <3>2. QED
      BY <2>2, <2>5, <2>6, <2>9, <3>1 DEF Ascending
  <2>10. (Reads' <=> Reads) /\ (Shared' <=> Shared) /\ off' = off
    BY <2>1 DEF Reads, Shared
  <2>11. Reads => /\ Ascending(f)' /\ Ascending(3 - f)'
                  /\ Shared => /\ Taken(f)' \cup Taken(3 - f)' = 1 .. off'[1]
                               /\ Taken(f)' \cap Taken(3 - f)' = {}
                  /\ ~Shared => Taken(f)' = 1 .. off'[f] /\ Taken(3 - f)' = 1 .. off'[3 - f]
    BY <2>7, <2>8, <2>9, <2>10, TakenParts
  <2>12. QED
    BY <2>3, <2>10, <2>11 DEF TakenInv, Streams
<1>10. ASSUME NEW f \in Streams, FOpen(f) PROVE TakenInv'
  <2>1. ~Reads /\ UNCHANGED program
    BY <1>10 DEF FOpen, Crash
  <2>2. QED
    BY <2>1 DEF TakenInv
<1>11. ASSUME NEW f \in Streams, Fill(f) PROVE TakenInv'
  <2>1. ~Reads /\ UNCHANGED program
    BY <1>11 DEF Fill
  <2>2. QED
    BY <2>1 DEF TakenInv
<1>12. ASSUME NEW f \in Streams, FClose(f) PROVE TakenInv'
  <2>1. ~Reads /\ UNCHANGED program
    BY <1>12 DEF FClose
  <2>2. QED
    BY <2>1 DEF TakenInv
<1>13. ASSUME OpenShared PROVE TakenInv'
  BY <1>13, TakenSame DEF OpenShared, Crash
<1>14. ASSUME NEW f \in Streams, OpenOwn(f) PROVE TakenInv'
  BY <1>14, TakenSame DEF OpenOwn
<1>15. CASE UNCHANGED streamVars
  BY <1>15, TakenSame DEF streamVars, StreamsInv
<1>16. QED
  BY <1>1, <1>2, <1>3, <1>4, <1>5, <1>6, <1>7, <1>8, <1>9, <1>10, <1>11, <1>12, <1>13, <1>14,
     <1>15
  DEF StreamsNext, MainStep, StreamStep, Streams

\* A buffer keeps its letters until it is closed.
LEMMA LettersStep ==
  ASSUME StreamsInv, [StreamsNext]_streamVars PROVE LettersInv'
<1> USE DEF StreamsInv, StreamsTypeOK, Streams, From, To, Pass, Shared, Threaded, Reads, Programs, Places, LettersInv, PlaceInv, Letters
<1>1. ASSUME CreateUnchecked PROVE LettersInv'
  BY <1>1 DEF CreateUnchecked
<1>2. ASSUME CreateChecked PROVE LettersInv'
  BY <1>2 DEF CreateChecked
<1>3. ASSUME Newline PROVE LettersInv'
  BY <1>3 DEF Newline
<1>4. ASSUME JoinThread PROVE LettersInv'
  BY <1>4 DEF JoinThread, Joined
<1>5. ASSUME NEW f \in Streams, Acquire(f) PROVE LettersInv'
  BY <1>5 DEF Acquire
<1>6. ASSUME NEW f \in Streams, Release(f) PROVE LettersInv'
  BY <1>6 DEF Release
<1>7. ASSUME NEW f \in Streams, Scan(f) PROVE LettersInv'
  BY <1>7 DEF Scan, EndOfFile
<1>8. ASSUME NEW f \in Streams, Peek(f) PROVE LettersInv'
  BY <1>8 DEF Peek
<1>9. ASSUME NEW f \in Streams, Output(f) PROVE LettersInv'
  BY <1>9 DEF Output
<1>10. ASSUME NEW f \in Streams, FOpen(f) PROVE LettersInv'
  <2>1. /\ UNCHANGED program /\ UNCHANGED buf
        /\ at' = [at EXCEPT ![f] = "fill"] \/ at' = [g \in Streams |-> "crash"]
    BY <1>10 DEF FOpen, Crash
  <2>2. at \in [Streams -> Places] /\ DOMAIN buf = Streams
    OBVIOUS
  <2>3. \A g \in Streams : Letters(g)' = Letters(g)
    BY <2>1 DEF Letters
  <2> HIDE DEF Streams, Places, Programs, StreamsTypeOK, PlaceInv
  <2>4. QED
    BY <2>1, <2>2, <2>3 DEF StreamsInv
<1>11. ASSUME NEW f \in Streams, Fill(f) PROVE LettersInv'
  <2>1. /\ UNCHANGED program /\ buf' = [buf EXCEPT ![f] = Letters(f)]
        /\ at' = [at EXCEPT ![f] = "close"]
    BY <1>11 DEF Fill
  <2>2. at \in [Streams -> Places] /\ DOMAIN buf = Streams
    OBVIOUS
  <2>3. \A g \in Streams : Letters(g)' = Letters(g)
    BY <2>1 DEF Letters
  <2> HIDE DEF Streams, Places, Programs, StreamsTypeOK, PlaceInv
  <2>4. QED
    BY <2>1, <2>2, <2>3 DEF StreamsInv
<1>12. ASSUME NEW f \in Streams, FClose(f) PROVE LettersInv'
  <2>1. /\ UNCHANGED program /\ buf' = [buf EXCEPT ![f] = <<>>]
        /\ at' = [at EXCEPT ![f] = IF Threaded /\ f = 1 THEN "join" ELSE "end"]
    BY <1>12 DEF FClose
  <2>2. at \in [Streams -> Places] /\ DOMAIN buf = Streams
    OBVIOUS
  <2>3. \A g \in Streams : Letters(g)' = Letters(g)
    BY <2>1 DEF Letters
  <2> HIDE DEF Streams, Places, Programs, StreamsTypeOK, PlaceInv
  <2>4. QED
    BY <2>1, <2>2, <2>3 DEF StreamsInv
<1>13. ASSUME OpenShared PROVE LettersInv'
  BY <1>13 DEF OpenShared, Crash
<1>14. ASSUME NEW f \in Streams, OpenOwn(f) PROVE LettersInv'
  BY <1>14 DEF OpenOwn
<1>15. CASE UNCHANGED streamVars
  <2>1. \A g \in Streams : Letters(g)' = Letters(g)
    BY <1>15 DEF Letters, streamVars
  <2>2. QED
    BY <1>15, <2>1 DEF streamVars
<1>16. QED
  BY <1>1, <1>2, <1>3, <1>4, <1>5, <1>6, <1>7, <1>8, <1>9, <1>10, <1>11, <1>12, <1>13, <1>14,
     <1>15
  DEF StreamsNext, MainStep, StreamStep, Streams

\* A buffer that is closed goes to the end of the file.
LEMMA AppendStep ==
  ASSUME StreamsInv, [StreamsNext]_streamVars PROVE AppendInv'
<1> USE DEF StreamsInv, StreamsTypeOK, Streams, From, To, Pass, Shared, Threaded, Reads, Programs, Places, LettersInv, AppendInv, PlaceInv, Closed
<1>1. ASSUME CreateUnchecked PROVE AppendInv'
  BY <1>1 DEF CreateUnchecked
<1>2. ASSUME CreateChecked PROVE AppendInv'
  BY <1>2 DEF CreateChecked
<1>3. ASSUME Newline PROVE AppendInv'
  BY <1>3 DEF Newline
<1>4. ASSUME JoinThread PROVE AppendInv'
  <2>1. UNCHANGED <<program, old, file>> /\ at' \in {[at EXCEPT ![1] = "end"], [f \in Streams |-> "crash"]}
    BY <1>4 DEF JoinThread, Joined
  <2>2. program = "app3_threads" => at' = [at EXCEPT ![1] = "end"] /\ at[1] = "join"
    BY <1>4 DEF JoinThread, Joined
  <2>3. QED
    BY <2>1, <2>2, AppendSame
<1>5. ASSUME NEW f \in Streams, Acquire(f) PROVE AppendInv'
  BY <1>5 DEF Acquire
<1>6. ASSUME NEW f \in Streams, Release(f) PROVE AppendInv'
  BY <1>6 DEF Release
<1>7. ASSUME NEW f \in Streams, Scan(f) PROVE AppendInv'
  BY <1>7 DEF Scan, EndOfFile
<1>8. ASSUME NEW f \in Streams, Peek(f) PROVE AppendInv'
  BY <1>8 DEF Peek
<1>9. ASSUME NEW f \in Streams, Output(f) PROVE AppendInv'
  BY <1>9 DEF Output
<1>10. ASSUME NEW f \in Streams, FOpen(f) PROVE AppendInv'
  <2> SUFFICES ASSUME program = "app3_threads" PROVE AppendInv'
    BY <1>10 DEF FOpen, Crash
  <2>1. /\ UNCHANGED <<program, old, file>> /\ at[f] = "open"
        /\ at' = [at EXCEPT ![f] = "fill"] \/ at' = [g \in Streams |-> "crash"]
    BY <1>10 DEF FOpen, Appends, Crash
  <2>2. CASE at' = [at EXCEPT ![f] = "fill"]
    BY <2>1, <2>2, AppendSame
  <2>3. CASE at' = [g \in Streams |-> "crash"]
    <3>1. at[2] \notin {"none", "crash"} /\ (~Closed(1) \/ ~Closed(2)) /\ at'[2] = "crash"
      BY <2>1, <2>3
    <3>2. file \in {old, old \o Letters(1), old \o Letters(2)}
      <4> HIDE DEF PlaceInv, StreamsTypeOK, Closed
      <4> QED BY <3>1
    <3>3. Letters(1)' = Letters(1) /\ Letters(2)' = Letters(2)
      BY <2>1 DEF Letters
    <3>4. QED
      BY <2>1, <3>1, <3>2, <3>3
  <2>4. QED
    BY <2>1, <2>2, <2>3
<1>11. ASSUME NEW f \in Streams, Fill(f) PROVE AppendInv'
  <2>1. UNCHANGED <<program, old, file>> /\ at' = [at EXCEPT ![f] = "close"] /\ at[f] = "fill"
    BY <1>11 DEF Fill
  <2>2. QED
    BY <2>1, AppendSame
<1>12. ASSUME NEW f \in Streams, FClose(f) PROVE AppendInv'
  <2> SUFFICES ASSUME program' = "app3_threads" PROVE AppendInv'
    BY DEF AppendInv
  <2>1. program = "app3_threads"
    BY <1>12 DEF FClose
  <2>2. /\ at[f] = "close" /\ UNCHANGED <<program, old>>
        /\ file' = file \o buf[f]
        /\ at' = [at EXCEPT ![f] = IF f = 1 THEN "join" ELSE "end"]
    BY <1>12, <2>1 DEF FClose, Appends
  <2>3. /\ at[2] \notin {"none", "crash"} /\ at \in [Streams -> Places] /\ buf[f] = Letters(f)
    BY <2>1, <2>2
  <2>4. Letters(1)' = Letters(1) /\ Letters(2)' = Letters(2)
    BY <2>2 DEF Letters
  <2>5. /\ at'[f] \in {"join", "end"} /\ \A g \in Streams : g # f => at'[g] = at[g]
        /\ at[f] \notin {"join", "end"} /\ at'[2] \notin {"none", "crash"}
    BY <2>2, <2>3
  <2>6. CASE f = 1
    <3>1. file' = file \o Letters(1)
      BY <2>1, <2>2, <2>3, <2>6
    <3>2. /\ at'[1] \in {"join", "end"} /\ at[1] \notin {"join", "end"}
          /\ at'[2] = at[2]
      BY <2>5, <2>6
    <3>3. IF at[2] \in {"join", "end"} THEN file = old \o Letters(2) ELSE file = old
      BY <2>1, <2>3, <3>2
    <3> HIDE DEF StreamsTypeOK, Places, Programs
    <3>4. IF at[2] \in {"join", "end"} THEN file' = (old \o Letters(2)) \o Letters(1)
                                      ELSE file' = old \o Letters(1)
      BY <3>1, <3>3
    <3>5. QED
      BY <2>1, <2>2, <2>4, <2>5, <3>2, <3>4
  <2>7. CASE f = 2
    <3>1. file' = file \o Letters(2)
      BY <2>1, <2>2, <2>3, <2>7
    <3>2. /\ at'[2] \in {"join", "end"} /\ at[2] \notin {"join", "end"}
          /\ at'[1] = at[1]
      BY <2>5, <2>7
    <3>3. IF at[1] \in {"join", "end"} THEN file = old \o Letters(1) ELSE file = old
      BY <2>1, <2>3, <3>2
    <3> HIDE DEF StreamsTypeOK, Places, Programs
    <3>4. IF at[1] \in {"join", "end"} THEN file' = (old \o Letters(1)) \o Letters(2)
                                      ELSE file' = old \o Letters(2)
      BY <3>1, <3>3
    <3>5. QED
      BY <2>1, <2>2, <2>4, <2>5, <3>2, <3>4
  <2> HIDE DEF StreamsTypeOK, Places, Programs, AppendInv
  <2>8. QED
    BY <2>6, <2>7
<1>13. ASSUME OpenShared PROVE AppendInv'
  BY <1>13 DEF OpenShared, Crash
<1>14. ASSUME NEW f \in Streams, OpenOwn(f) PROVE AppendInv'
  BY <1>14 DEF OpenOwn
<1>15. CASE UNCHANGED streamVars
  BY <1>15, AppendSame DEF streamVars
<1>16. QED
  BY <1>1, <1>2, <1>3, <1>4, <1>5, <1>6, <1>7, <1>8, <1>9, <1>10, <1>11, <1>12, <1>13, <1>14,
     <1>15
  DEF StreamsNext, MainStep, StreamStep, Streams

\* The streams of app3.c follow each other.
LEMMA OverwriteStep ==
  ASSUME StreamsInv, [StreamsNext]_streamVars PROVE OverwriteInv'
<1> USE DEF StreamsInv, StreamsTypeOK, Streams, From, To, Pass, Shared, Threaded, Reads, Programs, Places, LettersInv, OverwriteInv, PlaceInv
<1>1. ASSUME CreateUnchecked PROVE OverwriteInv'
  BY <1>1 DEF CreateUnchecked
<1>2. ASSUME CreateChecked PROVE OverwriteInv'
  BY <1>2 DEF CreateChecked
<1>3. ASSUME Newline PROVE OverwriteInv'
  BY <1>3 DEF Newline
<1>4. ASSUME JoinThread PROVE OverwriteInv'
  BY <1>4 DEF JoinThread, Joined
<1>5. ASSUME NEW f \in Streams, Acquire(f) PROVE OverwriteInv'
  BY <1>5 DEF Acquire
<1>6. ASSUME NEW f \in Streams, Release(f) PROVE OverwriteInv'
  BY <1>6 DEF Release
<1>7. ASSUME NEW f \in Streams, Scan(f) PROVE OverwriteInv'
  BY <1>7 DEF Scan, EndOfFile
<1>8. ASSUME NEW f \in Streams, Peek(f) PROVE OverwriteInv'
  BY <1>8 DEF Peek
<1>9. ASSUME NEW f \in Streams, Output(f) PROVE OverwriteInv'
  BY <1>9 DEF Output
<1>10. ASSUME NEW f \in Streams, FOpen(f) PROVE OverwriteInv'
  <2> SUFFICES ASSUME program = "app3" PROVE OverwriteInv'
    BY <1>10 DEF FOpen, Crash
  <2>1. CASE at' = [g \in Streams |-> "crash"]
    BY <2>1
  <2>2. CASE at' # [g \in Streams |-> "crash"]
    <3>1. /\ at[f] = "open" /\ turn = f /\ turn' = 3 - f /\ file' = <<>>
          /\ at' = [at EXCEPT ![f] = "fill"] /\ UNCHANGED program
      BY <1>10, <2>2 DEF FOpen, Appends, Crash
    <3>2. at \in [Streams -> Places] /\ (f = 2 => at[1] = "fill") /\ (f = 1 => at[2] = "open")
      BY <3>1
    <3>3. QED
      BY <3>1, <3>2
  <2>3. QED
    BY <2>1, <2>2
<1>11. ASSUME NEW f \in Streams, Fill(f) PROVE OverwriteInv'
  BY <1>11 DEF Fill
<1>12. ASSUME NEW f \in Streams, FClose(f) PROVE OverwriteInv'
  <2> SUFFICES ASSUME program = "app3" PROVE OverwriteInv'
    BY <1>12 DEF FClose
  <2>1. /\ at[f] = "close" /\ turn = f /\ turn' = 3 - f
        /\ file' = Letters(f) \o SubSeq(file, Len(Letters(f)) + 1, Len(file))
        /\ at' = [at EXCEPT ![f] = "end"] /\ UNCHANGED program
    BY <1>12 DEF FClose, Appends
  <2>2. at \in [Streams -> Places]
    OBVIOUS
  <2>3. Letters(1) \in Seq(1 .. Length) /\ Letters(2) \in Seq(1 .. Length)
    BY LettersFacts
  <2>4. Letters(1)' = Letters(1) /\ Letters(2)' = Letters(2)
    BY <2>1 DEF Letters
  <2>5. CASE f = 1
    <3>1. file = <<>> /\ at[2] = "close"
      BY <2>1, <2>5
    <3>2. SubSeq(file, Len(Letters(1)) + 1, Len(file)) = <<>>
      <4>1. Len(Letters(1)) \in Nat
        BY <2>3
      <4>2. Len(Letters(1)) + 1 \in Int /\ Len(file) \in Int /\ Len(file) < Len(Letters(1)) + 1
        BY <3>1, <4>1
      <4>3. QED
        BY <4>2, SubSeqEmpty
    <3>3. file' = Letters(1)
      BY <2>1, <2>3, <2>5, <3>2, ConcatEmptySeq
    <3>4. QED
      BY <2>1, <2>2, <2>4, <2>5, <3>1, <3>3
  <2>6. CASE f = 2
    <3>1. file = Letters(1) /\ at[1] = "end"
      BY <2>1, <2>6
    <3> DEFINE rest == SubSeq(file, Len(Letters(2)) + 1, Len(file))
    <3>2. rest \in Seq(1 .. Length)
      <4>1. Len(Letters(2)) + 1 \in Int /\ Len(file) \in Int /\ Len(Letters(2)) \in Nat
        BY <2>3, <3>1
      <4>2. \A k \in Len(Letters(2)) + 1 .. Len(file) : file[k] \in 1 .. Length
        <5> HIDE DEF StreamsTypeOK
        <5> SUFFICES ASSUME NEW k \in Len(Letters(2)) + 1 .. Len(file) PROVE file[k] \in 1 .. Length
          OBVIOUS
        <5>1. k \in 1 .. Len(file) /\ file \in Seq(1 .. Length)
          BY <2>3, <3>1, <4>1
        <5>2. QED
          BY <5>1, ElementOfSeq
      <4>3. QED
        BY <4>1, <4>2, SubSeqProperties
    <3>3. SubSeq(Letters(2) \o rest, 1, Len(Letters(2))) = Letters(2)
      <4> HIDE DEF rest
      <4> QED BY <2>3, <3>2, SubSeqOfConcat1
    <3>4. SubSeq(file', 1, Length \div 2) = Letters(2)
      BY <2>1, <2>6, <3>3, LettersFacts
    <3>5. at' = [at EXCEPT ![2] = "end"] /\ at'[2] = "end" /\ at'[1] = "end" /\ turn' = 1
      BY <2>1, <2>2, <2>6, <3>1
    <3>6. QED
      <4> HIDE DEF StreamsTypeOK, Places
      <4> QED BY <2>1, <2>4, <3>4, <3>5
  <2>7. QED
    BY <2>5, <2>6
<1>13. ASSUME OpenShared PROVE OverwriteInv'
  BY <1>13 DEF OpenShared, Crash
<1>14. ASSUME NEW f \in Streams, OpenOwn(f) PROVE OverwriteInv'
  BY <1>14 DEF OpenOwn
<1>15. CASE UNCHANGED streamVars
  <2>1. Letters(1)' = Letters(1) /\ Letters(2)' = Letters(2)
    BY <1>15 DEF Letters, streamVars
  <2>2. QED
    BY <1>15, <2>1 DEF streamVars
<1>16. QED
  BY <1>1, <1>2, <1>3, <1>4, <1>5, <1>6, <1>7, <1>8, <1>9, <1>10, <1>11, <1>12, <1>13, <1>14,
     <1>15
  DEF StreamsNext, MainStep, StreamStep, Streams

-------------------------------------------------------------------------------
(* The invariant holds at first, through every step, and has the properties. *)

\* The invariant holds before the first call of app1.c to app3_threads.c.
LEMMA StreamsInvInit == StreamsInit => StreamsInv
<1> SUFFICES ASSUME StreamsInit PROVE StreamsInv
  OBVIOUS
<1> USE StreamsAssumption DEF StreamsInit, Streams, Programs, Threaded, Reads
<1>1. StreamsTypeOK
  <2>1. old \in Seq(0 .. Length) /\ file \in Seq(0 .. Length)
    <3>1. <<>> \in Seq(0 .. Length) /\ <<0>> \in Seq(0 .. Length)
      BY IsASeq, EmptySeq
    <3>2. QED
      BY <3>1
  <2>2. <<>> \in Seq(1 .. Length) /\ <<>> \in Seq(Streams \X (0 .. Length))
    OBVIOUS
  <2>3. QED
    BY <2>1, <2>2 DEF StreamsTypeOK, Places
<1>2. PlaceInv /\ HeldInv
  BY DEF PlaceInv, HeldInv, Shared
<1>3. DoneInv /\ LettersInv
  BY DEF DoneInv, LettersInv
<1>4. TakenInv
  <2>1. \A f \in Streams : Shown(f) = {} /\ Taken(f) = {} /\ Ascending(f)
    BY DEF Shown, Taken, Ascending
  <2>2. 1 .. 0 = {}
    OBVIOUS
  <2>3. QED
    BY <2>1, <2>2 DEF TakenInv, Shared
<1>5. CopyInv /\ PairInv
  BY DEF CopyInv, PairInv
<1>6. AppendInv /\ OverwriteInv
  BY DEF AppendInv, OverwriteInv, Closed
<1>7. QED
  BY <1>1, <1>2, <1>3, <1>4, <1>5, <1>6 DEF StreamsInv

\* Every statement of the programs keeps the invariant.
LEMMA StreamsInvStep == StreamsInv /\ [StreamsNext]_streamVars => StreamsInv'
BY StreamsTypeStep, PlaceStep, HeldStep, DoneStep, CopyStep, PairStep, TakenStep,
   LettersStep, AppendStep, OverwriteStep
DEF StreamsInv

\* When a program has ended, each stream that could be opened is at the end of the
\* file, and all that it has taken is on the terminal.
LEMMA InvOnce == StreamsInv => EveryCharacterOnce
<1> SUFFICES ASSUME StreamsInv, Reads PROVE EveryCharacterOnce
  BY DEF EveryCharacterOnce
<1>1. ASSUME at[1] = "end", Over, at[2] # "none"
      PROVE  IF Shared THEN Shown(1) \cup Shown(2) = 1 .. Length
                       ELSE \A f \in Streams : ready[f] => Shown(f) = 1 .. Length
  <2>1. at[1] = "end" /\ at[2] = "end"
    BY <1>1 DEF StreamsInv, PlaceInv, Over, StreamsTypeOK
  <2>2. \A f \in Streams :
          (ready[f] => off[Desc(f)] = Length) /\ buf[f] = <<>> /\ held[f] = 0
    BY <1>1, <2>1 DEF StreamsInv, DoneInv, HeldInv, Streams
  <2>3. \A f \in Streams : Taken(f) = Shown(f)
    BY <2>2 DEF Taken
  <2>4. Shared => ready[1] /\ ready[2]
    BY <2>1 DEF StreamsInv, PlaceInv
  <2>5. QED
    BY <2>2, <2>3, <2>4 DEF StreamsInv, TakenInv, Desc, Streams
<1>2. QED
  BY <1>1 DEF EveryCharacterOnce, StreamsInv, TakenInv

\* The invariant contains what CopiesDoNotMix says of the two copies.
LEMMA InvCopies == StreamsInv => CopiesDoNotMix
BY DEF StreamsInv, CopyInv, PairInv, Paired, CopiesDoNotMix

\* The invariant implies that the buffers reach the file.
LEMMA InvBuffers == StreamsInv => BuffersReachFile
<1> SUFFICES ASSUME StreamsInv PROVE BuffersReachFile
  OBVIOUS
<1> USE DEF StreamsInv
<1>1. /\ 1 \in Streams /\ 2 \in Streams /\ 3 - 1 = 2 /\ 3 - 2 = 1
      /\ old \in Seq(0 .. Length)
  BY DEF Streams, StreamsTypeOK
<1>2. ASSUME program = "app3_threads"
      PROVE  \/ file = old \/ file = old \o Letters(1) \/ file = old \o Letters(2)
             \/ file = (old \o Letters(1)) \o Letters(2)
             \/ file = (old \o Letters(2)) \o Letters(1)
  BY <1>2 DEF AppendInv
<1>3. ASSUME program = "app3_threads"
      PROVE  \E f \in Streams :
               file \in {old, old \o Letters(f), (old \o Letters(f)) \o Letters(3 - f)}
  BY <1>1, <1>2, <1>3
<1>4. ASSUME program = "app3_threads", at[1] = "end", Over, at[2] # "none"
      PROVE  Len(file) = Len(old) + Length
  <2>1. Closed(1) /\ Closed(2) /\ at[2] # "crash"
    BY <1>4 DEF PlaceInv, Over, Closed, Threaded
  <2>2. \/ file = (old \o Letters(1)) \o Letters(2)
        \/ file = (old \o Letters(2)) \o Letters(1)
    BY <1>4, <2>1 DEF AppendInv
  <2>3. Letters(1) \in Seq(0 .. Length) /\ Letters(2) \in Seq(0 .. Length)
    <3>1. Seq(1 .. Length) \subseteq Seq(0 .. Length)
      BY StreamsAssumption, SeqMonotonic
    <3>2. QED
      BY <1>1, <3>1, LettersFacts
  <2>4. /\ Len((old \o Letters(1)) \o Letters(2)) = Len(old) + Len(Letters(1)) + Len(Letters(2))
        /\ Len((old \o Letters(2)) \o Letters(1)) = Len(old) + Len(Letters(2)) + Len(Letters(1))
    BY <1>1, <2>3, ConcatProperties
  <2>5. /\ Len(old) \in Nat /\ Len(Letters(1)) \in Nat /\ Len(Letters(2)) \in Nat
        /\ Len(Letters(1)) + Len(Letters(2)) = Length
    BY <1>1, <2>3, LettersFacts, LenProperties
  <2>6. QED
    BY <2>2, <2>4, <2>5
<1>5. ASSUME program = "app3", at[1] = "end", Over
      PROVE  SubSeq(file, 1, Length \div 2) = Letters(2)
  BY <1>5 DEF PlaceInv, Over, OverwriteInv, Threaded
<1>6. QED
  BY <1>3, <1>4, <1>5 DEF BuffersReachFile

-------------------------------------------------------------------------------
(* Laboratory 5 as it is checked: whichever program is started, the others  *)
(* do not move, and the invariants of both modules hold together.           *)

\* Each step of lab_05 is a step of its own component or leaves it alone.
LEMMA Lab05Step ==
  ASSUME [Lab05Next]_lab05Vars PROVE [Next]_vars /\ [StreamsNext]_streamVars
BY DEF Lab05Next, lab05Vars

\* The inductive invariant of the programs with streams, for any length of file
\* and any size of buffer.
THEOREM StreamsInvariant == Lab05Spec => []StreamsInv
<1>1. Lab05Init => StreamsInv
  BY StreamsInvInit DEF Lab05Init
<1>2. StreamsInv /\ [Lab05Next]_lab05Vars => StreamsInv'
  BY Lab05Step, StreamsInvStep
<1>3. QED
  BY <1>1, <1>2, PTL DEF Lab05Spec

\* Offsets stay within a file of any length, buffers hold its characters only.
THEOREM StreamsTypes == Lab05Spec => []StreamsTypeOK
<1>1. StreamsInv => StreamsTypeOK
  BY DEF StreamsInv
<1>2. QED
  BY <1>1, StreamsInvariant, PTL

\* Every character read is in one place and in its order, and a program that ends
\* has printed the whole file from every descriptor it could open, whatever the
\* sizes of file and buffer.
THEOREM StreamsReadEachOnce == Lab05Spec => []EveryCharacterOnce
<1>1. QED
  BY InvOnce, StreamsInvariant, PTL

\* The copies of app2_threads_right.c follow each other whichever of its open() have
\* failed; those of app2.c alternate when neither has.
THEOREM StreamsCopies == Lab05Spec => []CopiesDoNotMix
<1>1. QED
  BY InvCopies, StreamsInvariant, PTL

\* What app3.c and app3_threads.c have printed reaches the file, or is written over
\* in the one way two streams opened with "w" allow.
THEOREM StreamsBuffers == Lab05Spec => []BuffersReachFile
<1>1. QED
  BY InvBuffers, StreamsInvariant, PTL

\* The order, the colours and the completeness of app2_threads.c's output do not
\* depend on the other programs being there.
THEOREM Lab05Alphabet == Lab05Spec => [](InOrder /\ OwnColour /\ AllWritten)
<1>1. Lab05Init /\ [][Lab05Next]_lab05Vars => Init /\ [][Next]_vars
  <2>1. Lab05Init => Init
    BY DEF Lab05Init
  <2>2. [Lab05Next]_lab05Vars => [Next]_vars
    BY Lab05Step
  <2>3. QED
    BY <2>1, <2>2, PTL
<1>2. QED
  BY <1>1, AlphabetInOrder, AlphabetOwnColour, AlphabetAllWritten, PTL DEF Lab05Spec, Spec

===============================================================================
