----------------------------- MODULE FortuneStore -----------------------------
(***************************************************************************)
(* Laboratory 4, part 2: the fortune buffer that fortune.c and seqfile.c   *)
(* share, statement for statement: COOKIE_MAX_BUF_SIZE bytes of vmalloc()  *)
(* memory, the indices readInd and writeInd, and writeFortune().  Nothing  *)
(* is locked, so a handler is cut into the accesses that other handlers    *)
(* can see between.  The data races are resolved as gcc -O2 compiles the   *)
(* functions: an index stays in a register until the next call, and the    *)
(* two assignments to writeInd of lines 82 and 86 become one store, after  *)
(* those to the buffer.  The line numbers are fortune.c's.                 *)
(*                                                                         *)
(* A byte is the text it belongs to, NL or NUL.  A byte outside the buffer *)
(* is in a page that vmalloc() leaves unmapped: touching it is an oops,    *)
(* after which nothing is said about the system.                           *)
(***************************************************************************)
EXTENDS Integers, Sequences, FiniteSets

CONSTANTS
  Size,         \* COOKIE_MAX_BUF_SIZE
  Writers,      \* processes that call write()
  Readers,      \* processes that open and read fortune_file
  Texts,        \* what a fortune is made of
  Lens,         \* the lengths a write() may ask for
  FailedCopies, \* how many bytes a copy_from_user() that fails has copied
  NL, NUL       \* '\n' and '\0'

ASSUME StoreAssumption ==
  /\ Size \in Nat \ {0}
  /\ Lens \subseteq Nat
  /\ FailedCopies \subseteq Nat
  /\ NL \notin Texts /\ NUL \notin Texts /\ NL # NUL

VARIABLES
  mem,      \* cookieBuffer
  readInd,
  writeInd,
  setup,    \* initFortune() has set the indices before the first call ("done"),
            \* is still to set them ("visible"), or set them in between ("late")
  oops,     \* has a byte outside cookieBuffer been touched?
  wpc,      \* the next access of each writer
  arg,      \* the text and length of each writer's call
  at,       \* the writer's register: writeInd, then writeInd plus its length
  reply     \* what the writer's last call returned

writeVars == <<wpc, arg, at, reply>>
storeVars == <<mem, readInd, writeInd, setup, oops, wpc, arg, at, reply>>

Cells   == Texts \cup {NL, NUL}
Offsets == 0 .. Size - 1
Calls   == [text : Texts, len : Lens]
NoCall  == [text |-> NUL, len |-> 0]

\* The indices stay within the buffer as long as nothing outside it is touched.
StoreTypeOK ==
  /\ mem \in [Offsets -> Cells]
  /\ readInd \in Nat
  /\ writeInd \in 0 .. Size
  /\ setup \in {"done", "visible", "late"}
  /\ oops \in BOOLEAN
  /\ wpc \in [Writers -> {"idle", "copy", "load", "terminate", "publish"}]
  /\ arg \in [Writers -> Calls \cup {NoCall}]
  /\ at \in [Writers -> Nat]
  /\ reply \in [Writers -> {"none", "len", "ENOSPC", "EFAULT"}]

\* vmalloc(), memset(0): the buffer when the file becomes visible.
StoreInit ==
  /\ mem = [i \in Offsets |-> NUL]
  /\ readInd = 0
  /\ writeInd = 0
  /\ oops = FALSE
  /\ wpc = [w \in Writers |-> "idle"]
  /\ arg = [w \in Writers |-> NoCall]
  /\ at = [w \in Writers |-> 0]
  /\ reply = [w \in Writers |-> "none"]

WriterGoes(w, from, to) ==
  /\ wpc[w] = from
  /\ wpc' = [wpc EXCEPT ![w] = to]

\* The call ends, and its parameters and locals with it.
Return(w, r) ==
  /\ wpc' = [wpc EXCEPT ![w] = "idle"]
  /\ arg' = [arg EXCEPT ![w] = NoCall]
  /\ at' = [at EXCEPT ![w] = 0]
  /\ reply' = [reply EXCEPT ![w] = r]

Oops ==
  /\ oops' = TRUE
  /\ UNCHANGED <<mem, readInd, writeInd, setup>>

\* The NUL that ends the string at offset i: {} when it is outside the buffer.
EndsAt(i) ==
  {j \in Offsets : i <= j /\ mem[j] = NUL /\ \A k \in Offsets : i <= k /\ k < j => mem[k] # NUL}

-------------------------------------------------------------------------------
(* initFortune() after the file has become visible *)

\* readInd = 0, writeInd = 0 (216-217).
ResetIndices ==
  /\ setup = "visible"
  /\ setup' = "late"
  /\ readInd' = 0
  /\ writeInd' = 0
  /\ UNCHANGED <<mem, oops, writeVars>>

-------------------------------------------------------------------------------
(* writeFortune() *)

\* The room that the check of line 65 finds for a fortune.
Room == Size - writeInd + 1

\* write(fd, buf, c.len): refused with ENOSPC when it does not fit.
WriteCheck(w, c) ==
  /\ wpc[w] = "idle"
  /\ \/ /\ c.len <= Room
        /\ WriterGoes(w, "idle", "copy")
        /\ arg' = [arg EXCEPT ![w] = c]
        /\ at' = [at EXCEPT ![w] = writeInd]
        /\ UNCHANGED reply
     \/ /\ c.len > Room
        /\ Return(w, "ENOSPC")
  /\ UNCHANGED <<mem, readInd, writeInd, setup, oops>>

\* The first n bytes from offset i on become the text, the rest up to len zero.
Copied(i, n, c) ==
  [j \in Offsets |-> IF i <= j /\ j < i + n THEN c.text
                     ELSE IF i + n <= j /\ j < i + c.len THEN NUL
                     ELSE mem[j]]

\* copy_from_user(&cookieBuffer[writeInd], buf, len).  When the user's memory
\* cannot be read to its end the kernel clears what is missing, and the call
\* fails with EFAULT.
WriteCopy(w) ==
  /\ wpc[w] = "copy"
  /\ \/ /\ at[w] + arg[w].len <= Size
        /\ \/ /\ mem' = Copied(at[w], arg[w].len, arg[w])
              /\ WriterGoes(w, "copy", "load")
              /\ UNCHANGED <<arg, at, reply>>
           \/ /\ \E n \in FailedCopies :
                   n < arg[w].len /\ mem' = Copied(at[w], n, arg[w])
              /\ Return(w, "EFAULT")
        /\ UNCHANGED <<readInd, writeInd, setup, oops>>
     \/ /\ at[w] + arg[w].len > Size
        /\ Oops
        /\ UNCHANGED writeVars

\* The processor reads writeInd for line 82.
WriteLoad(w) ==
  /\ WriterGoes(w, "load", "terminate")
  /\ at' = [at EXCEPT ![w] = writeInd + arg[w].len]
  /\ UNCHANGED <<arg, reply, mem, readInd, writeInd, setup, oops>>

\* '\n' over the last byte, '\0' behind it (83, 85).
WriteTerminate(w) ==
  /\ wpc[w] = "terminate"
  /\ \/ /\ at[w] > 0 /\ at[w] < Size
        /\ mem' = [mem EXCEPT ![at[w] - 1] = NL, ![at[w]] = NUL]
        /\ WriterGoes(w, "terminate", "publish")
        /\ UNCHANGED <<readInd, writeInd, setup, oops>>
     \/ /\ at[w] = 0 \/ at[w] >= Size
        /\ Oops
        /\ UNCHANGED wpc
  /\ UNCHANGED <<arg, at, reply>>

\* Seeded fault of WritePublish: line 86 adds two.
WritePublishLong(w) ==
  /\ wpc[w] = "publish"
  /\ writeInd' = at[w] + 2
  /\ Return(w, "len")
  /\ UNCHANGED <<mem, readInd, setup, oops>>

\* writeInd gets its new value (82, 86), and the call returns len.
WritePublish(w) ==
  /\ wpc[w] = "publish"
  /\ writeInd' = at[w] + 1
  /\ Return(w, "len")
  /\ UNCHANGED <<mem, readInd, setup, oops>>

\* Everything that happens to the buffer from the writing side.
StoreStep ==
  \/ ResetIndices
  \/ \E w \in Writers :
       \/ \E c \in Calls : WriteCheck(w, c)
       \/ WriteCopy(w) \/ WriteLoad(w) \/ WriteTerminate(w) \/ WritePublish(w)

WritersIdle == \A w \in Writers : wpc[w] = "idle"

-------------------------------------------------------------------------------
(* The fortunes in the buffer *)

\* The offsets at which a published fortune starts.
Starts == {i \in 0 .. writeInd - 1 : i = 0 \/ mem[i - 1] = NUL}

\* The place of offset i among them.
Rank(i) == 1 + Cardinality({s \in Starts : s < i})

\* The string at offset i, which must end inside the buffer.
TextAt(i) ==
  LET end == CHOOSE j \in EndsAt(i) : TRUE
  IN  [n \in 1 .. end - i |-> mem[i + n - 1]]

\* The published fortunes in the order of the buffer.
Shelf ==
  [k \in 1 .. Cardinality(Starts) |->
     TextAt(CHOOSE i \in Starts : Rank(i) = k)]

\* What a write of c puts there.
TextOf(c) == [n \in 1 .. c.len |-> IF n < c.len THEN c.text ELSE NL]

===============================================================================
