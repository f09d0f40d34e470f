------------------------------ MODULE FortuneProc ------------------------------
(***************************************************************************)
(* fortune.c as a whole: the buffer of FortuneStore and readFortune(),     *)
(* which gives its caller one fortune per open() through the static        *)
(* tmpBuffer.                                                              *)
(***************************************************************************)
EXTENDS FortuneStore

VARIABLES
  tmpBuffer,
  rpc,       \* the next access of each reader
  fPos,      \* the file position of each reader's descriptor
  reg,       \* its register: writeInd, then the offset of the fortune it prints
  readLen,   \* readFortune()'s local
  given      \* the text that has been copied to a user last

readVars == <<tmpBuffer, rpc, fPos, reg, readLen, given>>
vars     == <<storeVars, readVars>>

\* The store is well formed and every reader is at a statement of readFortune().
TypeOK ==
  /\ StoreTypeOK
  /\ tmpBuffer \in [Offsets -> Cells]
  /\ rpc \in [Readers -> {"closed", "open", "wrap", "format", "copy", "advance"}]
  /\ fPos \in [Readers -> Nat]
  /\ reg \in [Readers -> Nat]
  /\ readLen \in [Readers -> Nat]

\* initFortune() has ended, or the file is visible and it is before line 216.
Init ==
  /\ StoreInit
  /\ setup \in {"done", "visible"}
  /\ tmpBuffer = [i \in Offsets |-> NUL]
  /\ rpc = [r \in Readers |-> "closed"]
  /\ fPos = [r \in Readers |-> 0]
  /\ reg = [r \in Readers |-> 0]
  /\ readLen = [r \in Readers |-> 0]
  /\ given = <<>>

ReaderGoes(r, from, to) ==
  /\ rpc[r] = from
  /\ rpc' = [rpc EXCEPT ![r] = to]

-------------------------------------------------------------------------------
OpenFortune(r) ==
  /\ ReaderGoes(r, "closed", "open")
  /\ fPos' = [fPos EXCEPT ![r] = 0]
  /\ UNCHANGED <<storeVars, tmpBuffer, reg, readLen, given>>

ReleaseFortune(r) ==
  /\ ReaderGoes(r, "open", "closed")
  /\ UNCHANGED <<storeVars, tmpBuffer, fPos, reg, readLen, given>>

\* read(fd, buf, len), whatever len is: nothing after the first successful read
\* of a descriptor, and nothing from an empty buffer (104).
ReadCheck(r) ==
  /\ rpc[r] = "open"
  /\ \/ /\ fPos[r] > 0 \/ writeInd = 0
        /\ UNCHANGED <<rpc, reg>>
     \/ /\ fPos[r] = 0 /\ writeInd > 0
        /\ ReaderGoes(r, "open", "wrap")
        /\ reg' = [reg EXCEPT ![r] = writeInd]
  /\ UNCHANGED <<storeVars, tmpBuffer, fPos, readLen, given>>

\* Seeded fault of ReadWrap: ">" for ">=" in line 112.
ReadWrapLate(r) ==
  /\ ReaderGoes(r, "wrap", "format")
  /\ readInd' = IF readInd > reg[r] THEN 0 ELSE readInd
  /\ reg' = [reg EXCEPT ![r] = readInd']
  /\ UNCHANGED <<mem, writeInd, setup, oops, writeVars>>
  /\ UNCHANGED <<tmpBuffer, fPos, readLen, given>>

\* The round is over: start again with the first fortune (112-115).  writeInd
\* is compared as the check has read it.
ReadWrap(r) ==
  /\ ReaderGoes(r, "wrap", "format")
  /\ readInd' = IF readInd >= reg[r] THEN 0 ELSE readInd
  /\ reg' = [reg EXCEPT ![r] = readInd']
  /\ UNCHANGED <<mem, writeInd, setup, oops, writeVars>>
  /\ UNCHANGED <<tmpBuffer, fPos, readLen, given>>

\* snprintf(tmpBuffer, COOKIE_MAX_BUF_SIZE, "%s\n", ...): it returns the length
\* of the whole text, and cuts off what does not fit together with a '\0'.
Printed(s) ==
  LET kept == IF Len(s) < Size THEN Len(s) ELSE Size - 1
  IN  [i \in Offsets |-> CASE i < kept -> s[i + 1]
                          [] i = kept -> NUL
                          [] i > kept -> tmpBuffer[i]]

ReadFormat(r) ==
  /\ rpc[r] = "format"
  /\ \/ /\ EndsAt(reg[r]) # {}
        /\ LET s == Append(TextAt(reg[r]), NL)
           IN  /\ tmpBuffer' = Printed(s)
               /\ readLen' = [readLen EXCEPT ![r] = Len(s)]
        /\ ReaderGoes(r, "format", "copy")
        /\ UNCHANGED storeVars
     \/ /\ EndsAt(reg[r]) = {}
        /\ Oops
        /\ UNCHANGED <<writeVars, tmpBuffer, readLen, rpc>>
  /\ UNCHANGED <<fPos, reg, given>>

\* copy_to_user(buf, tmpBuffer, readLen), or EFAULT.
ReadCopy(r) ==
  /\ rpc[r] = "copy"
  /\ \/ /\ given' = [n \in 1 .. readLen[r] |-> tmpBuffer[n - 1]]
        /\ ReaderGoes(r, "copy", "advance")
        /\ UNCHANGED readLen
     \/ /\ ReaderGoes(r, "copy", "open")
        /\ readLen' = [readLen EXCEPT ![r] = 0]
        /\ UNCHANGED given
  /\ UNCHANGED <<storeVars, tmpBuffer, fPos, reg>>

\* Seeded fault of ReadAdvance: only the text is skipped, not its '\0'.
ReadAdvanceShort(r) ==
  /\ ReaderGoes(r, "advance", "open")
  /\ readInd' = readInd + readLen[r] - 1
  /\ fPos' = [fPos EXCEPT ![r] = @ + readLen[r]]
  /\ readLen' = [readLen EXCEPT ![r] = 0]
  /\ UNCHANGED <<mem, writeInd, setup, oops, writeVars>>
  /\ UNCHANGED <<tmpBuffer, reg, given>>

\* readInd += readLen, *fPos += readLen, return readLen: the '\n' that snprintf
\* added stands for the '\0' behind the fortune.
ReadAdvance(r) ==
  /\ ReaderGoes(r, "advance", "open")
  /\ readInd' = readInd + readLen[r]
  /\ fPos' = [fPos EXCEPT ![r] = @ + readLen[r]]
  /\ readLen' = [readLen EXCEPT ![r] = 0]
  /\ UNCHANGED <<mem, writeInd, setup, oops, writeVars>>
  /\ UNCHANGED <<tmpBuffer, reg, given>>

ReadStep(r) ==
  \/ OpenFortune(r) \/ ReleaseFortune(r)
  \/ ReadCheck(r) \/ ReadWrap(r) \/ ReadFormat(r) \/ ReadCopy(r) \/ ReadAdvance(r)

Halted == oops /\ UNCHANGED vars

Next ==
  \/ ~oops /\ StoreStep /\ UNCHANGED readVars
  \/ ~oops /\ \E r \in Readers : ReadStep(r)
  \/ Halted

Spec == Init /\ [][Next]_vars

-------------------------------------------------------------------------------
(* Properties *)

\* With one reader and one writer the code needs no lock: readInd is always at
\* the start of a published fortune or at the end of all, although the handlers
\* overlap in any way and copies to and from the users fail.  It needs that the
\* first call comes after initFortune().
CursorAtFortune ==
  setup = "done" =>
    /\ readInd <= writeInd
    /\ readInd = 0 \/ mem[readInd - 1] = NUL
    /\ writeInd = 0 \/ mem[writeInd - 1] = NUL

\* However initFortune(), one writer and the readers overlap, every string that
\* starts below writeInd ends inside the buffer: a writer that goes on across
\* the reset of the indices does not publish what it has not terminated.
PublishedEnds == \A i \in 0 .. writeInd - 1 : EndsAt(i) # {}

\* The refinement: a reader that has its fortune but has not moved readInd yet
\* counts as moved, and one that has found the round over as back at the start.
Moved ==
  IF \E r \in Readers : rpc[r] = "wrap" /\ readInd >= reg[r] THEN 0
  ELSE readInd + (IF \E r \in Readers : rpc[r] = "advance"
                  THEN readLen[CHOOSE r \in Readers : rpc[r] = "advance"]
                  ELSE 0)

Cycle == INSTANCE FortuneCycle WITH
  Fortunes <- {TextOf(c) : c \in Calls},
  shelf    <- IF setup = "done" THEN Shelf ELSE <<>>,
  cursor   <- IF setup = "done" THEN Rank(Moved) ELSE 1,
  given    <- IF setup = "done" /\ given # <<>> THEN SubSeq(given, 1, Len(given) - 1)
                                                ELSE <<>>

\* One reader and one writer see the fortunes in the order of the writes, each
\* one whole and once in a round (the comment at 110): until a byte outside the
\* buffer is touched, fortune.c implements FortuneCycle.  A module that is used
\* before initFortune() has ended promises nothing, and maps to no step.
ReadsInCycle == Cycle!ProcSpec

\* What line 64 says of the check that follows it: there is room enough for a
\* fortune that passes it.
FortuneFits == ~oops

===============================================================================
