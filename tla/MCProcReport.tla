----------------------------- MODULE MCProcReport -----------------------------
(* Instance of ProcReport: up to three mappings; the length of the first name *)
(* moves the end of the buffer over every place of a line.  After a line that *)
(* is longer than the buffer there may be no other newline in it.             *)
EXTENDS ProcReport

Mapping(low, high, name) == [low |-> low, high |-> high, name |-> name]

Lists ==
  {<<>>} \cup {<<Mapping(1, 3, n)>> : n \in {20, 30, 40}} \cup
  {<<Mapping(1, 3, n), Mapping(6, 7, m), Mapping(9, 11, 2)>> : n \in 0 .. 40, m \in {0, 5}}

\* pread() answers always, or not for the last mapping, as with vsyscall, or not for
\* a page in the middle.
Silent == {{}, {9, 10}, {2}}

===============================================================================
