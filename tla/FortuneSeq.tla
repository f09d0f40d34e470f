------------------------------- MODULE FortuneSeq -------------------------------
(***************************************************************************)
(* seqfile.c as a whole: the buffer of FortuneStore and showFortune(),     *)
(* which seq_read() calls once for each open() of the file and which       *)
(* measures the fortune before it has decided which one to print.          *)
(***************************************************************************)
EXTENDS FortuneStore

CONSTANT Hasty   \* the readers that do not wait for the end of a write

ASSUME SeqAssumption == Hasty \subseteq Readers

VARIABLES
  spc,     \* the next access of each reader
  len,     \* showFortune()'s local
  shown,   \* the text printed last
  serial   \* is every handler called after the end of the last?

showVars == <<spc, len, shown, serial>>
seqVars  == <<storeVars, showVars>>

\* The store is well formed and every reader is at a statement of showFortune().
SeqTypeOK ==
  /\ StoreTypeOK
  /\ spc \in [Readers -> {"closed", "open", "wrap", "print", "advance", "shown"}]
  /\ len \in [Readers -> 0 .. Size]

SeqInit ==
  /\ StoreInit
  /\ setup = "done"
  /\ spc = [r \in Readers |-> "closed"]
  /\ len = [r \in Readers |-> 0]
  /\ shown = <<>>
  /\ serial \in BOOLEAN

ShowGoes(r, from, to) ==
  /\ spc[r] = from
  /\ spc' = [spc EXCEPT ![r] = to]

-------------------------------------------------------------------------------
\* single_open()
SingleOpen(r) ==
  /\ ShowGoes(r, "closed", "open")
  /\ UNCHANGED <<storeVars, len, shown>>

\* single_release(), whether or not anything has been read.
SingleRelease(r) ==
  /\ spc[r] \in {"open", "shown"}
  /\ spc' = [spc EXCEPT ![r] = "closed"]
  /\ UNCHANGED <<storeVars, len, shown>>

\* The first read() of a descriptor: strlen(buffer + readInd), which runs out
\* of the buffer when no '\0' stops it.
ShowMeasure(r) ==
  /\ spc[r] = "open"
  /\ \/ /\ EndsAt(readInd) # {}
        /\ len' = [len EXCEPT ![r] = Len(TextAt(readInd))]
        /\ ShowGoes(r, "open", "wrap")
        /\ UNCHANGED storeVars
     \/ /\ EndsAt(readInd) = {}
        /\ Oops
        /\ UNCHANGED <<writeVars, spc, len>>
  /\ UNCHANGED shown

\* Seeded fault of ShowWrap: ">" for ">=" in line 45.
ShowWrapLate(r) ==
  /\ ShowGoes(r, "wrap", "print")
  /\ readInd' = IF readInd > writeInd THEN 0 ELSE readInd
  /\ UNCHANGED <<mem, writeInd, setup, oops, writeVars, len, shown>>

\* Start again with the first fortune (45-48).
ShowWrap(r) ==
  /\ ShowGoes(r, "wrap", "print")
  /\ readInd' = IF readInd >= writeInd THEN 0 ELSE readInd
  /\ UNCHANGED <<mem, writeInd, setup, oops, writeVars, len, shown>>

\* seq_printf(seqFile, buffer + readInd): a page is room enough for any string
\* that ends in the buffer, so seq_read() does not call showFortune() again.
ShowPrint(r) ==
  /\ spc[r] = "print"
  /\ \/ /\ EndsAt(readInd) # {}
        /\ shown' = TextAt(readInd)
        /\ ShowGoes(r, "print", "advance")
        /\ UNCHANGED storeVars
     \/ /\ EndsAt(readInd) = {}
        /\ Oops
        /\ UNCHANGED <<writeVars, spc, shown>>
  /\ UNCHANGED len

\* Seeded fault of ShowAdvance: the '\0' is not skipped.
ShowAdvanceShort(r) ==
  /\ ShowGoes(r, "advance", "shown")
  /\ readInd' = readInd + len[r]
  /\ len' = [len EXCEPT ![r] = 0]
  /\ UNCHANGED <<mem, writeInd, setup, oops, writeVars, shown>>

\* if (len > 0) readInd += len + 1; the next read() is at the end of the file.
ShowAdvance(r) ==
  /\ ShowGoes(r, "advance", "shown")
  /\ readInd' = readInd + (IF len[r] > 0 THEN len[r] + 1 ELSE 0)
  /\ len' = [len EXCEPT ![r] = 0]
  /\ UNCHANGED <<mem, writeInd, setup, oops, writeVars, shown>>

ShowStep(r) ==
  \/ SingleOpen(r) \/ SingleRelease(r)
  \/ ShowMeasure(r) \/ ShowWrap(r) \/ ShowPrint(r) \/ ShowAdvance(r)

SeqHalted == oops /\ UNCHANGED seqVars

ShowIdle(r) == spc[r] \in {"closed", "open", "shown"}

\* One after the other, as a shell calls them, or one reader and the writer at
\* the same time.
MayWrite   == serial => \A r \in Readers : ShowIdle(r)
MayShow(r) == IF serial THEN WritersIdle /\ \A q \in Readers \ {r} : ShowIdle(q)
                        ELSE r \in Hasty

SeqNext ==
  \/ ~oops /\ MayWrite /\ StoreStep /\ UNCHANGED showVars
  \/ ~oops /\ \E r \in Readers : MayShow(r) /\ ShowStep(r) /\ UNCHANGED serial
  \/ SeqHalted

SeqSpec == SeqInit /\ [][SeqNext]_seqVars

-------------------------------------------------------------------------------
(* Properties *)

\* The refinement: showFortune() changes readInd before and after it prints.
\* When it measured nothing it was at the end of a round, and counts as there
\* until it has printed the first fortune; otherwise it counts as moved on once
\* it has printed.
Position ==
  IF \E r \in Readers : spc[r] = "print" /\ len[r] = 0 THEN writeInd
  ELSE IF \E r \in Readers : spc[r] = "advance" /\ len[r] > 0
       THEN readInd + 1 + len[CHOOSE r \in Readers : spc[r] = "advance"]
       ELSE readInd

SeqCycle == INSTANCE FortuneCycle WITH
  Fortunes <- {TextOf(c) : c \in Calls},
  shelf    <- IF serial THEN Shelf ELSE <<>>,
  cursor   <- IF serial THEN Rank(Position) ELSE 1,
  given    <- IF serial THEN shown ELSE <<>>

\* Called one after the other, the handlers give whole fortunes in the order of
\* the writes, the first one twice in a round: it is printed when the round
\* ends, and its length, measured before, is then nothing.  Handlers that overlap
\* promise no order, and map to no step.
ShowsInCycle == SeqCycle!SeqSpec

\* Even while a write is under way, and wherever readInd has come to, only the
\* bytes of finished writes are printed, once there is a finished write.
ShowsOnlyPublished ==
  [][\A r \in Readers :
       spc[r] = "print" /\ spc'[r] = "advance" /\ writeInd > 0 => readInd < writeInd]_seqVars

===============================================================================
