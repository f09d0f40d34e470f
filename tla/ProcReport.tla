------------------------------ MODULE ProcReport ------------------------------
(***************************************************************************)
(* Laboratory 4, part 1: a report on another process from its files under  *)
(* /proc (main.c, lib/output_funcs.c), section by section, while the other *)
(* process may end at any moment.                                          *)
(*                                                                         *)
(* Text is a sequence of numbers.  In a file that is copied the number n   *)
(* stands for its n-th byte, -n for the same byte when it is NUL.  In maps *)
(* the numbers below Base are the hexadecimal digits, and only what the    *)
(* scanner tells apart has a number besides.  Names and formats are left   *)
(* out, of a line about a page all but its address.  When the scanner has  *)
(* left its buffer, nothing is said about the program any more.            *)
(***************************************************************************)
EXTENDS Integers, Sequences, FiniteSets

CONSTANTS
  BUF_SIZE,
  Lengths,    \* bound: how long the files are
  MapLists,   \* bound: the mappings of the other process, with the length of the name
  Silences,   \* bound: the sets of pages that pread() of pagemap fails for
  Base        \* of the addresses: 16 in the code

Addresses == 0 .. Base * Base - 1   \* bound: two digits
Mappings  == [low : Addresses, high : Addresses, name : Nat]

ASSUME ReportAssumption ==
  /\ BUF_SIZE \in Nat \ {0} /\ Lengths \subseteq Nat /\ Base \in 2 .. 16
  /\ MapLists \subseteq Seq(Mappings)

\* The sections in the order of main(): how they are read, and whether they are
\* about the other process.
Section(kind, own) == [kind |-> kind, own |-> own]
Plan == <<
  Section("copy", TRUE), Section("copy", TRUE), Section("links", TRUE),
  Section("stat", TRUE), Section("statm", TRUE), Section("copy", TRUE),
  Section("link", TRUE), Section("link", TRUE), Section("link", TRUE),
  Section("copy", TRUE), Section("list", TRUE),
  Section("copy", FALSE), Section("list", FALSE), Section("copy", FALSE),
  Section("copy", FALSE), Section("copy", FALSE),
  Section("copy", TRUE), Section("copy", TRUE), Section("pagemap", TRUE)>>

NUL == 0
Newline == 101   Dash == 102   Blank == 103   Letter == 104
Junk == -1   \* what lies behind a buffer, or was in it before

VARIABLES
  phase,    \* the next step, or how the program has ended
  section,  \* the section of Plan it is about
  alive,    \* is the other process still there?
  text,     \* what is in the file that is read
  rest,     \* what has not been read of it
  buf,      \* buf or buffer of the function
  length, i, \* the scanner's range: what the last read() returned, and where it is
  out,      \* what the section has printed
  maps,     \* the mappings of the pagemap section
  silent,   \* the pages that pread() fails for, or gets nothing of
  reported  \* the pages the section has printed a line about

pageVars == <<maps, silent, reported>>
vars == <<phase, section, alive, text, rest, buf, length, i, out, pageVars>>

Cells == 0 .. BUF_SIZE - 1
Kind  == Plan[section].kind

TypeOK ==
  /\ phase \in {"start", "open", "read", "scan", "end", "done", "failed", "crash", "overrun"}
  /\ section \in DOMAIN Plan
  /\ alive \in BOOLEAN
  /\ {text, rest, out} \subseteq Seq(Int)
  /\ buf \in [Cells -> Int]
  /\ length \in 0 .. BUF_SIZE /\ i \in 0 .. BUF_SIZE
  /\ maps \in MapLists \cup {<<>>}
  /\ reported \subseteq Int

Init ==
  /\ phase = "start" /\ section = 1 /\ alive = TRUE
  /\ text = <<>> /\ rest = <<>> /\ out = <<>>
  /\ maps = <<>> /\ silent = {} /\ reported = {}
  /\ buf = [k \in Cells |-> NUL]
  /\ length = 0 /\ i = 0

\* A file under /proc/PID can be opened and read while the process is there.
Readable == alive \/ ~Plan[section].own

Finish(how) == phase' = how

-------------------------------------------------------------------------------
(* preparePrint() and main() *)

\* The line of /proc/PID/maps about a mapping: range, permissions, offset,
\* device, inode and name.
MapsLine(m) ==
  <<m.low \div Base, m.low % Base, Dash, m.high \div Base, m.high % Base, Blank,
    Dash, Letter, Blank, 0, Blank, Letter, Blank, 1, Blank>>
  \o [n \in 1 .. m.name |-> Letter] \o <<Newline>>

\* The text of /proc/PID/maps up to each of its lines.
TextUpTo(list) ==
  LET t[n \in 0 .. Len(list)] == IF n = 0 THEN <<>> ELSE t[n - 1] \o MapsLine(list[n])
  IN  t

MapsText(list) == TextUpTo(list)[Len(list)]

\* The text of a file: at most one of its bytes is NUL.
Texts == UNION {{[n \in 1 .. l |-> IF n = z THEN -n ELSE n] : z \in 0 .. l} : l \in Lengths}

\* main() opens the report for writing.
Start ==
  /\ phase = "start"
  /\ Finish("open") \/ Finish("failed")
  /\ UNCHANGED <<section, alive, text, rest, buf, length, i, out, pageVars>>

\* A section begins to read a file.
Opened ==
  /\ Readable
  /\ Finish("read")
  /\ rest' = text'
  /\ out' = <<>> /\ reported' = {} /\ length' = 0 /\ i' = 0
  /\ UNCHANGED <<section, alive>>

\* Both files are opened and the heading printed.  preparePrint() compares with
\* NULL the addresses of its caller's pointers and not the pointers, so without
\* one of the files a NULL stream is used.
OpenSection ==
  /\ phase = "open" /\ Kind # "pagemap"
  /\ \/ /\ text' \in IF Kind = "copy" THEN Texts ELSE {<<>>}
        /\ buf' = [k \in Cells |-> NUL]
        /\ maps' = <<>> /\ UNCHANGED silent
        /\ Opened
     \/ /\ Finish("crash")
        /\ UNCHANGED <<section, alive, text, rest, buf, length, i, out, pageVars>>

\* fprintPagemap() ends the program without its files, and does not initialise
\* its buffer.
OpenPagemap ==
  /\ phase = "open" /\ Kind = "pagemap"
  /\ \/ /\ maps' \in MapLists /\ silent' \in Silences
        /\ text' = MapsText(maps')
        /\ buf' \in {[k \in Cells |-> c] : c \in {NUL, Junk}}
        /\ Opened
     \/ /\ Finish("failed")
        /\ UNCHANGED <<section, alive, text, rest, buf, length, i, out, pageVars>>

NextSection ==
  /\ phase = "end"
  /\ IF section = Len(Plan) THEN Finish("done") /\ UNCHANGED section
                            ELSE Finish("open") /\ section' = section + 1
  /\ UNCHANGED <<alive, text, rest, buf, length, i, out, pageVars>>

ProcessEnds ==
  /\ alive
  /\ alive' = FALSE
  /\ UNCHANGED <<phase, section, text, rest, buf, length, i, out, pageVars>>

-------------------------------------------------------------------------------
(* The sections that are copied *)

\* A "%s" of the buffer, which without a NUL runs on into what lies behind it.
Strings(b) ==
  LET ends == {k \in Cells : b[k] <= 0}
      Upto(n) == [k \in 1 .. n |-> b[k - 1]]
  IN  IF ends = {} THEN {Upto(BUF_SIZE), Upto(BUF_SIZE) \o <<Junk>>}
      ELSE {Upto(CHOOSE k \in ends : \A e \in ends : k <= e)}

\* The beginning of the buffer is overwritten, the rest stays.
Over(b, s) == [k \in Cells |-> IF k < Len(s) THEN s[k + 1] ELSE b[k]]

\* Seeded fault of Shown: a NUL in the text is left as it is.
ShownAsIs(n) == n

\* NULs become newlines.
Shown(n) == IF n < 0 THEN -n ELSE n

\* infoFromFile(): fread() of a chunk, and the whole buffer is printed.
CopyChunk ==
  /\ phase = "read" /\ Kind = "copy"
  /\ Readable /\ rest # <<>>
  /\ LET n == IF Len(rest) < BUF_SIZE THEN Len(rest) ELSE BUF_SIZE
     IN  /\ buf' = Over(buf, [k \in 1 .. n |-> Shown(rest[k])])
         /\ rest' = SubSeq(rest, n + 1, Len(rest))
  /\ \E s \in Strings(buf') : out' = out \o s
  /\ UNCHANGED <<phase, section, alive, text, length, i, pageVars>>

\* opendir() is not checked, and readdir() of a directory that has gone since
\* fopen() crashes.
Entries(kind) ==
  /\ phase = "read" /\ Kind = kind
  /\ Finish(IF Readable THEN "end" ELSE "crash")
  /\ UNCHANGED <<section, alive, text, rest, buf, length, i, out, pageVars>>

FolderNames == Entries("list")
FolderLinks == Entries("links")

\* infoProcessStat(): a program's name with a blank in it gives stat more fields
\* than meanings[] has.
Fields ==
  /\ phase = "read" /\ Kind \in {"stat", "statm"}
  /\ Finish("end") \/ (Kind = "stat" /\ Finish("crash"))
  /\ UNCHANGED <<section, alive, text, rest, buf, length, i, out, pageVars>>

\* infoProcessFromFileLink() prints what readlink() gives, or nothing.
Link ==
  /\ phase = "read" /\ Kind = "link"
  /\ Finish("end")
  /\ UNCHANGED <<section, alive, text, rest, buf, length, i, out, pageVars>>

\* A read that gets nothing, of a file that is over or a process that has ended.
EndOfText ==
  /\ phase = "read" /\ Kind \in {"copy", "pagemap"}
  /\ rest = <<>> \/ ~Readable
  /\ Finish("end")
  /\ UNCHANGED <<section, alive, text, rest, buf, length, i, out, pageVars>>

-------------------------------------------------------------------------------
(* fprintPagemap() *)

\* read() into the buffer; offset is always 0.
ReadMaps ==
  /\ phase = "read" /\ Kind = "pagemap"
  /\ Readable /\ rest # <<>>
  /\ length' = IF Len(rest) < BUF_SIZE THEN Len(rest) ELSE BUF_SIZE
  /\ buf' = Over(buf, SubSeq(rest, 1, length'))
  /\ rest' = SubSeq(rest, length' + 1, Len(rest))
  /\ i' = 0
  /\ Finish("scan")
  /\ UNCHANGED <<section, alive, text, out, pageVars>>

\* The first cell from x on that holds c.  Without one the code reads the byte
\* behind the buffer, before it looks at x; this place stands for all behind it.
SkipTo(x, c) ==
  LET at == {k \in Cells : k >= x /\ buf[k] = c}
  IN  IF at = {} THEN BUF_SIZE ELSE CHOOSE k \in at : \A a \in at : k <= a

\* The cell after the last newline before x.
LineStart(x) ==
  LET at == {k \in Cells : k < x /\ buf[k] = Newline}
  IN  IF at = {} THEN 0 ELSE 1 + CHOOSE k \in at : \A a \in at : a <= k

\* The first cell from x on that is not a digit, or the place behind the buffer.
DigitsEnd(x) ==
  LET ends == {k \in Cells : k >= x /\ buf[k] \notin 0 .. Base - 1}
  IN  IF ends = {} THEN BUF_SIZE ELSE CHOOSE k \in ends : \A e \in ends : k <= e

\* The values of the digits from x to each cell before end.
Values(x, end) ==
  LET v[k \in x - 1 .. end - 1] == IF k < x THEN 0 ELSE v[k - 1] * Base + buf[k]
  IN  v

\* The digits from x up to the character stop: their value, and where they end.
\* Another character ends them too, when the value has been multiplied already.
Number(x, stop) ==
  LET end   == DigitsEnd(x)
      value == Values(x, end)[end - 1]
  IN  IF x >= BUF_SIZE THEN [value |-> 0, end |-> BUF_SIZE]
      ELSE IF end = BUF_SIZE \/ buf[end] = stop THEN [value |-> value, end |-> end]
      ELSE [value |-> value * Base, end |-> end + 1]

\* The range and the name in the line that ends at x.
Low(x)  == Number(LineStart(x), Dash)
High(x) == Number(SkipTo(Low(x).end, Dash) + 1, Blank)
\* The end of the field behind the blank in y.
NextField(y) == SkipTo(y + 1, Blank)

\* Seeded fault of NameEnd: the loop over the fields runs once more.
NameEndFieldMore(x) ==
  SkipTo(NextField(NextField(NextField(NextField(NextField(High(x).end))))), Newline)

\* Behind the range come four fields, then the name up to a newline.
NameEnd(x) ==
  SkipTo(NextField(NextField(NextField(NextField(High(x).end)))), Newline)

\* Seeded fault of Restored: the NUL at the end of the name stays.
RestoredNot(y) == [buf EXCEPT ![y] = NUL]

\* The NUL behind the name is a newline again.
Restored(y) == [buf EXCEPT ![y] = Newline]

\* The pages of the range that pagemap_get_entry() succeeds for.
PagesOf(x) == (Low(x).value .. High(x).value - 1) \ silent

\* A line for each of them, while the process is there: it may end before any.
AskPages(x) ==
  \/ alive /\ reported' = reported \cup PagesOf(x) /\ UNCHANGED alive
  \/ /\ alive /\ alive' = FALSE
     /\ \E p \in PagesOf(x) : reported' = reported \cup {q \in PagesOf(x) : q < p}
  \/ ~alive /\ UNCHANGED <<alive, reported>>

\* The next newline but one in cell 0: a line for every page of its range.
ScanLine ==
  LET x == SkipTo(IF i = 0 THEN 1 ELSE i, Newline)
  IN  /\ phase = "scan"
      /\ x < length
      /\ NameEnd(x) \in Cells
      /\ AskPages(x)
      /\ buf' = Restored(NameEnd(x))
      /\ i' = x + 1
      /\ UNCHANGED <<phase, section, text, rest, length, out, maps, silent>>

\* No newline follows the fields: the NUL, and the newline after it, are written
\* behind the buffer.
ScanOver ==
  LET x == SkipTo(IF i = 0 THEN 1 ELSE i, Newline)
  IN  /\ phase = "scan"
      /\ x < length
      /\ NameEnd(x) \notin Cells
      /\ Finish("overrun")
      /\ i' = x + 1
      /\ UNCHANGED <<section, alive, text, rest, buf, length, out, pageVars>>

EndOfBuffer ==
  /\ phase = "scan"
  /\ SkipTo(IF i = 0 THEN 1 ELSE i, Newline) >= length
  /\ Finish("read")
  /\ UNCHANGED <<section, alive, text, rest, buf, length, i, out, pageVars>>

-------------------------------------------------------------------------------
Ended == phase \in {"done", "failed", "crash", "overrun"} /\ UNCHANGED vars

Next ==
  \/ Start \/ OpenSection \/ OpenPagemap \/ NextSection \/ ProcessEnds
  \/ CopyChunk \/ FolderNames \/ FolderLinks \/ Fields \/ Link \/ EndOfText
  \/ ReadMaps \/ ScanLine \/ ScanOver \/ EndOfBuffer
  \/ Ended

Spec == Init /\ [][Next]_vars

-------------------------------------------------------------------------------
(* Properties *)

\* A file that was read to its end is in the report: exactly, if it is shorter
\* than the buffer; a longer one with repetitions of what the chunk before has
\* left in the buffer, and with Junk, but without a gap and each byte first in its
\* place.
FilesAreCopied ==
  phase = "end" /\ Kind = "copy" /\ rest = <<>> =>
    /\ Len(text) < BUF_SIZE => out = [n \in 1 .. Len(text) |-> n]
    /\ \A n \in 1 .. Len(text) : \E k \in DOMAIN out :
         out[k] = n /\ \A j \in 1 .. k - 1 : out[j] < n

\* Where the line of the n-th mapping ends in maps, and whether it is in one read.
LineEnd(n)   == Len(TextUpTo(maps)[n])
InOneRead(n) == LineEnd(n - 1) \div BUF_SIZE = (LineEnd(n) - 1) \div BUF_SIZE

ScannedAll == phase = "end" /\ Kind = "pagemap" /\ alive
Pages(m) == m.low .. m.high - 1

\* Of a mapping whose line does not lie across two reads every page is reported
\* that pread() answers for, whatever has become of the lines around it.
WholeLinesAreReported ==
  ScannedAll => \A n \in DOMAIN maps : InOneRead(n) => Pages(maps[n]) \ silent \subseteq reported

\* The scanner leaves its buffer only while it works on the rest of a line whose
\* beginning was in the read before, never on a line that is all in the buffer,
\* also the last one, with nothing or remains of older reads behind it.
OverrunsNeedCutLines ==
  phase = "overrun" => \A n \in DOMAIN maps :
    LineEnd(n) = Len(text) - Len(rest) - length + i => ~InOneRead(n)

\* "Get info about all pages in this page range": of every mapping, if pread()
\* answers.
PagesOfMaps ==
  ScannedAll => \A n \in DOMAIN maps : Pages(maps[n]) \ silent \subseteq reported

===============================================================================
