----------------------------- MODULE FortuneCycle -----------------------------
(***************************************************************************)
(* What the fortune modules of laboratory 4 promise their users: fortunes  *)
(* are kept in the order of their writes, and successive readers are given *)
(* one whole fortune each, in that order, starting again with the first    *)
(* when the last has been given.  FortuneProc (fortune.c) and FortuneSeq   *)
(* (seqfile.c) implement it with a byte buffer and two indices.            *)
(***************************************************************************)
EXTENDS Naturals, Sequences

CONSTANT Fortunes   \* the texts a user may write

VARIABLES
  shelf,    \* the fortunes, oldest first
  cursor,   \* the position of the fortune to give next, Len(shelf) + 1 at the end
  given     \* the fortune given last, <<>> before the first

vars == <<shelf, cursor, given>>

Init ==
  /\ shelf = <<>>
  /\ cursor = 1
  /\ given = <<>>

AtEnd == cursor = Len(shelf) + 1

\* A user writes a fortune.
Put(f) ==
  /\ shelf' = Append(shelf, f)
  /\ UNCHANGED <<cursor, given>>

\* A reader is given the fortune under the cursor.
Take ==
  /\ ~AtEnd
  /\ given' = shelf[cursor]
  /\ cursor' = cursor + 1
  /\ UNCHANGED shelf

\* fortune.c: the reader that finds nothing new starts the next round.
Rewind ==
  /\ shelf # <<>>
  /\ AtEnd
  /\ cursor' = 1
  /\ UNCHANGED <<shelf, given>>

\* seqfile.c: that reader is given the first fortune, which stays the next one.
RewindAndShow ==
  /\ shelf # <<>>
  /\ AtEnd
  /\ given' = shelf[1]
  /\ cursor' = 1
  /\ UNCHANGED shelf

ProcNext == Take \/ Rewind \/ \E f \in Fortunes : Put(f)
SeqNext  == Take \/ RewindAndShow \/ \E f \in Fortunes : Put(f)

ProcSpec == Init /\ [][ProcNext]_vars
SeqSpec  == Init /\ [][SeqNext]_vars

===============================================================================
