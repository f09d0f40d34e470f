--------------------------- MODULE ProcReportProofs ---------------------------
(***************************************************************************)
(* Proof that the report loses nothing of a file that is copied, and names *)
(* the pages of every mapping whose line is in one read, which never lets  *)
(* the scanner out of its buffer, for every size of the buffer, every      *)
(* length of the file, any number of mappings and whatever pread() fails.  *)
(***************************************************************************)
EXTENDS ProcReport, SequenceTheorems, WellFoundedInduction, TLAPS

\* How much of the text has been read.
Taken == Len(text) - Len(rest)

\* Byte n of the file is shown as n.
TextInv == text \in Seq(Int) /\ \A n \in 1 .. Len(text) : Shown(text[n]) = n

\* What has not been read is the end of the text.
RestInv ==
  /\ rest \in Seq(Int) /\ Len(rest) <= Len(text)
  /\ \A k \in 1 .. Len(rest) : rest[k] = text[Taken + k]

\* Nothing is in the buffer that has not been read.
BufInv == buf \in [Cells -> Int] /\ \A k \in Cells : buf[k] <= Taken

\* Every byte that was read is in the report, the first time behind smaller ones only.
OutInv ==
  /\ out \in Seq(Int)
  /\ \A k \in 1 .. Len(out) : out[k] <= Taken
  /\ \A n \in 1 .. Taken : \E k \in 1 .. Len(out) :
       out[k] = n /\ \A j \in 1 .. k - 1 : out[j] < n

\* A file that fits in the buffer is read at once, into an empty one.
ShortInv ==
  Len(text) < BUF_SIZE =>
    \/ Taken = 0 /\ out = <<>> /\ \A k \in Cells : buf[k] = NUL
    \/ Taken = Len(text) /\ out = [n \in 1 .. Len(text) |-> n]

ChunkInv == TextInv /\ RestInv /\ BufInv /\ OutInv /\ ShortInv

CopyInv == phase \in {"read", "end"} /\ Kind = "copy" => ChunkInv

\* A set of natural numbers that is not empty has a least one.
LEMMA Least ==
  ASSUME NEW T, T \subseteq Nat, T # {}
  PROVE  \E x \in T : \A y \in T : x <= y
<1> DEFINE R == {ss \in Nat \X Nat : ss[1] < ss[2]}
<1>1. IsWellFoundedOn(R, Nat)
  BY NatLessThanWellFounded, Zenon DEF OpToRel
<1>2. PICK x \in T : \A y \in T : <<y, x>> \notin R
  <2> HIDE DEF R
  <2> QED BY <1>1, WFMin
<1>3. \A y \in T : ~(y < x)
  BY <1>2
<1> QED
  BY <1>3

\* The buffer has a cell.
LEMMA SizeIsNat == BUF_SIZE \in Nat /\ BUF_SIZE > 0
BY ReportAssumption

\* A text of the model is numbered.
LEMMA TextsAreNumbered ==
  ASSUME NEW t \in Texts
  PROVE  t \in Seq(Int) /\ \A n \in 1 .. Len(t) : Shown(t[n]) = n
<1>1. PICK l \in Lengths : t \in {[n \in 1 .. l |-> IF n = z THEN -n ELSE n] : z \in 0 .. l}
  BY DEF Texts
<1>2. l \in Nat
  BY ReportAssumption
<1>3. PICK z \in 0 .. l : t = [n \in 1 .. l |-> IF n = z THEN -n ELSE n]
  BY <1>1
<1>4. t \in [1 .. l -> Int] /\ \A n \in 1 .. l : t[n] = IF n = z THEN -n ELSE n
  BY <1>2, <1>3
<1>5. t \in Seq(Int) /\ Len(t) = l
  BY <1>2, <1>4
<1> QED
  BY <1>2, <1>4, <1>5 DEF Shown

\* Two texts one behind the other.
LEMMA Joined ==
  ASSUME NEW u \in Seq(Int), NEW v \in Seq(Int)
  PROVE  /\ u \o v \in Seq(Int) /\ Len(u \o v) = Len(u) + Len(v)
         /\ \A k \in 1 .. Len(u) : (u \o v)[k] = u[k]
         /\ \A k \in 1 .. Len(v) : (u \o v)[Len(u) + k] = v[k]
<1>1. /\ u \o v \in Seq(Int) /\ Len(u \o v) = Len(u) + Len(v)
      /\ \A k \in 1 .. Len(u) + Len(v) :
           (u \o v)[k] = IF k <= Len(u) THEN u[k] ELSE v[k - Len(u)]
  BY ConcatProperties
<1>2. Len(u) \in Nat /\ Len(v) \in Nat
  OBVIOUS
<1>3. ASSUME NEW k \in 1 .. Len(u) PROVE (u \o v)[k] = u[k]
  <2>1. k \in 1 .. Len(u) + Len(v) /\ k <= Len(u)
    BY <1>2
  <2> QED
    BY <1>1, <2>1
<1>4. ASSUME NEW k \in 1 .. Len(v) PROVE (u \o v)[Len(u) + k] = v[k]
  <2>1. Len(u) + k \in 1 .. Len(u) + Len(v) /\ ~(Len(u) + k <= Len(u)) /\ Len(u) + k - Len(u) = k
    BY <1>2
  <2> QED
    BY <1>1, <2>1
<1> QED
  BY <1>1, <1>3, <1>4

\* What "%s" prints of a buffer whose first n cells are not NUL: these cells, and
\* behind them nothing but other cells and Junk.
LEMMA StringOfBuffer ==
  ASSUME NEW b \in [Cells -> Int], NEW n \in 0 .. BUF_SIZE, \A k \in Cells : k < n => b[k] > 0,
         NEW s \in Strings(b)
  PROVE  /\ s \in Seq(Int) /\ Len(s) >= n
         /\ \A k \in 1 .. n : s[k] = b[k - 1]
         /\ \A k \in 1 .. Len(s) : s[k] = Junk \/ \E c \in Cells : s[k] = b[c]
         /\ n < BUF_SIZE /\ b[n] <= 0 => Len(s) = n
<1> DEFINE ends    == {k \in Cells : b[k] <= 0}
           Upto(m) == [k \in 1 .. m |-> b[k - 1]]
           end     == CHOOSE k \in ends : \A e \in ends : k <= e
<1>1. BUF_SIZE \in Nat /\ n \in Nat /\ n <= BUF_SIZE
  BY SizeIsNat
<1>2. ASSUME NEW m \in 0 .. BUF_SIZE
      PROVE  Upto(m) \in Seq(Int) /\ Len(Upto(m)) = m /\ \A k \in 1 .. m : Upto(m)[k] = b[k - 1]
  <2>1. \A k \in 1 .. m : k - 1 \in Cells
    BY <1>1, <1>2 DEF Cells
  <2>2. Upto(m) \in [1 .. m -> Int] /\ m \in Nat
    BY <1>1, <1>2, <2>1
  <2> QED
    BY <2>2
<1>3. \A m \in 0 .. BUF_SIZE : \A k \in 1 .. m : k - 1 \in Cells
  BY <1>1 DEF Cells
<1>4. CASE ends = {}
  <2>1. s = Upto(BUF_SIZE) \/ s = Upto(BUF_SIZE) \o <<Junk>>
    BY <1>4 DEF Strings
  <2>2. ~(n < BUF_SIZE /\ b[n] <= 0)
    BY <1>1, <1>4 DEF Cells
  <2>3. BUF_SIZE \in 0 .. BUF_SIZE /\ Junk \in Int
    BY <1>1 DEF Junk
  <2>4. \A k \in 1 .. BUF_SIZE : k - 1 \in Cells
    BY <1>3, <2>3
  <2> DEFINE u == Upto(BUF_SIZE)
  <2>5. u \in Seq(Int) /\ Len(u) = BUF_SIZE /\ \A k \in 1 .. BUF_SIZE : u[k] = b[k - 1]
    BY <1>2, <2>3
  <2>6. s = u \/ s = u \o <<Junk>>
    BY <2>1
  <2> HIDE DEF u
  <2>7. CASE s = u
    BY <1>1, <2>2, <2>4, <2>5, <2>7
  <2>8. CASE s = u \o <<Junk>>
    <3> DEFINE v == <<Junk>>
    <3>1. v \in Seq(Int) /\ Len(v) = 1 /\ v[1] = Junk
      BY <2>3
    <3> HIDE DEF v
    <3>2. s = u \o v
      BY <2>8 DEF v
    <3>j. /\ u \o v \in Seq(Int) /\ Len(u \o v) = Len(u) + Len(v)
          /\ \A k \in 1 .. Len(u) : (u \o v)[k] = u[k]
          /\ \A k \in 1 .. Len(v) : (u \o v)[Len(u) + k] = v[k]
      BY <2>5, <3>1, Joined
    <3>3. /\ s \in Seq(Int) /\ Len(s) = BUF_SIZE + 1 /\ s[BUF_SIZE + 1] = Junk
          /\ \A k \in 1 .. BUF_SIZE : s[k] = u[k]
      BY <1>1, <2>5, <3>1, <3>2, <3>j
    <3>4. \A k \in 1 .. Len(s) : k \in 1 .. BUF_SIZE \/ k = BUF_SIZE + 1
      BY <1>1, <3>3
    <3> QED
      BY <1>1, <2>2, <2>4, <2>5, <3>3, <3>4
  <2> QED
    BY <2>6, <2>7, <2>8
<1>5. CASE ends # {}
  <2>1. \E k \in ends : \A e \in ends : k <= e
    <3>1. ends \subseteq Nat
      BY <1>1 DEF Cells
    <3> HIDE DEF ends
    <3> QED
      BY <1>5, <3>1, Least
  <2>2. end \in ends /\ \A e \in ends : end <= e
    BY <2>1
  <2>3. s = Upto(end)
    BY <1>5 DEF Strings
  <2> HIDE DEF end
  <2>4. end \in Cells /\ b[end] <= 0 /\ \A e \in Cells : b[e] <= 0 => end <= e
    BY <2>2
  <2>5. end \in 0 .. BUF_SIZE /\ end >= n
    <3>1. end \in Nat /\ end < BUF_SIZE
      BY <1>1, <2>4 DEF Cells
    <3>2. ~(b[end] > 0)
      <4>1. b[end] \in Int
        BY <2>4
      <4> QED
        BY <2>4, <4>1
    <3> QED
      BY <1>1, <2>4, <3>1, <3>2
  <2>6. n < BUF_SIZE /\ b[n] <= 0 => end = n
    <3>1. n < BUF_SIZE => n \in Cells
      BY <1>1 DEF Cells
    <3> QED
      BY <1>1, <2>4, <2>5, <3>1
  <2>7. /\ s \in Seq(Int) /\ Len(s) = end /\ \A k \in 1 .. end : s[k] = b[k - 1]
        /\ \A k \in 1 .. end : k - 1 \in Cells
    BY <1>2, <1>3, <2>3, <2>5
  <2> QED
    BY <1>1, <2>5, <2>6, <2>7
<1> QED
  BY <1>4, <1>5

\* One chunk: what is read goes to the buffer and into the report.
LEMMA ChunkIsCopied ==
  ASSUME ChunkInv, CopyChunk
  PROVE  ChunkInv'
<1> DEFINE n == IF Len(rest) < BUF_SIZE THEN Len(rest) ELSE BUF_SIZE
           c == [k \in 1 .. n |-> Shown(rest[k])]
<1>1. /\ rest # <<>> /\ UNCHANGED <<text, phase, section>>
      /\ buf' = Over(buf, c) /\ rest' = SubSeq(rest, n + 1, Len(rest))
  BY DEF CopyChunk
<1>2. PICK s \in Strings(buf') : out' = out \o s
  BY DEF CopyChunk
<1>3. /\ text \in Seq(Int) /\ rest \in Seq(Int) /\ out \in Seq(Int)
      /\ Len(text) \in Nat /\ Len(rest) \in Nat /\ Len(rest) > 0 /\ Len(out) \in Nat
      /\ BUF_SIZE \in Nat /\ BUF_SIZE > 0
  BY <1>1, SizeIsNat DEF ChunkInv, TextInv, RestInv, OutInv
<1>4. /\ n \in Nat /\ n > 0 /\ n <= BUF_SIZE /\ n <= Len(rest)
      /\ n < BUF_SIZE => n = Len(rest)
  BY <1>3
<1>5. Taken \in Nat /\ Taken + Len(rest) = Len(text)
  BY <1>3 DEF Taken, ChunkInv, RestInv
<1> HIDE DEF n
<1>6. ASSUME NEW k \in 1 .. n PROVE c[k] = Taken + k
  <2>1. k \in 1 .. Len(rest) /\ Taken + k \in 1 .. Len(text)
    BY <1>3, <1>4, <1>5
  <2>2. rest[k] = text[Taken + k] /\ Shown(text[Taken + k]) = Taken + k
    BY <2>1 DEF ChunkInv, RestInv, TextInv
  <2> QED
    BY <2>2
<1>7. c \in [1 .. n -> Int] /\ c \in Seq(Int) /\ Len(c) = n
  <2>1. \A k \in 1 .. n : c[k] \in Int
    BY <1>4, <1>5, <1>6
  <2>2. c \in [1 .. n -> Int]
    BY <2>1
  <2> HIDE DEF c
  <2> QED
    BY <1>4, <2>2
<1> HIDE DEF c
<1>8. /\ rest' \in Seq(Int) /\ Len(rest') = Len(rest) - n
      /\ \A k \in 1 .. Len(rest) - n : rest'[k] = rest[n + k]
  <2>1. n + 1 \in 1 .. Len(rest) + 1 /\ Len(rest) \in n .. Len(rest)
    BY <1>3, <1>4
  <2>2. \A k \in n + 1 .. Len(rest) : rest[k] \in Int
    BY <1>3, <1>4
  <2>3. rest' = [k \in 1 .. Len(rest) - n |-> rest[n + k]]
    BY <1>1, <1>3, <1>4
  <2>4. rest' \in [1 .. Len(rest) - n -> Int] /\ Len(rest) - n \in Nat
    BY <1>3, <1>4, <2>2, <2>3
  <2> QED
    BY <2>3, <2>4
<1>9. Taken' = Taken + n
  <2>1. Taken' = Len(text) - Len(rest')
    BY <1>1 DEF Taken
  <2>2. Taken = Len(text) - Len(rest)
    BY DEF Taken
  <2>3. Taken' = Len(text) - (Len(rest) - n)
    BY <1>8, <2>1
  <2> QED
    BY <1>3, <1>4, <2>2, <2>3
<1>10. RestInv'
  <2>1. Len(rest') <= Len(text)
    BY <1>3, <1>4, <1>5, <1>8
  <2>2. ASSUME NEW k \in 1 .. Len(rest) - n PROVE rest'[k] = text[Taken + n + k]
    <3>1. n + k \in 1 .. Len(rest) /\ Taken + (n + k) = Taken + n + k
      BY <1>3, <1>4, <1>5
    <3> QED
      BY <1>8, <3>1 DEF ChunkInv, RestInv
  <2> QED
    BY <1>1, <1>8, <1>9, <2>1, <2>2 DEF RestInv
<1>11. /\ \A k \in Cells : buf'[k] = IF k < n THEN Taken + k + 1 ELSE buf[k]
       /\ buf' \in [Cells -> Int]
  <2>1. ASSUME NEW k \in Cells PROVE buf'[k] = IF k < n THEN Taken + k + 1 ELSE buf[k]
    <3>1. k < n => k + 1 \in 1 .. n
      BY <1>3, <1>4 DEF Cells
    <3> QED
      BY <1>1, <1>5, <1>6, <1>7, <3>1 DEF Over, Cells
  <2>2. ASSUME NEW k \in Cells PROVE buf'[k] \in Int
    <3>1. buf[k] \in Int
      BY DEF ChunkInv, BufInv
    <3>2. Taken + k + 1 \in Int
      BY <1>3, <1>5 DEF Cells
    <3> QED
      BY <2>1, <3>1, <3>2
  <2> QED
    BY <1>1, <2>1, <2>2 DEF Over
<1>12. BufInv'
  BY <1>4, <1>5, <1>9, <1>11 DEF ChunkInv, BufInv, Cells
<1>13. /\ s \in Seq(Int) /\ Len(s) \in Nat /\ Len(s) >= n
       /\ \A k \in 1 .. n : s[k] = Taken + k
       /\ \A k \in 1 .. Len(s) : s[k] <= Taken + n
       /\ n < BUF_SIZE /\ buf'[n] <= 0 => Len(s) = n
  <2>1. n \in 0 .. BUF_SIZE /\ \A k \in Cells : k < n => buf'[k] > 0
    BY <1>3, <1>4, <1>5, <1>11 DEF Cells
  <2>2. /\ s \in Seq(Int) /\ Len(s) >= n
        /\ \A k \in 1 .. n : s[k] = buf'[k - 1]
        /\ \A k \in 1 .. Len(s) : s[k] = Junk \/ \E e \in Cells : s[k] = buf'[e]
        /\ n < BUF_SIZE /\ buf'[n] <= 0 => Len(s) = n
    BY <1>11, <2>1, StringOfBuffer
  <2>3. ASSUME NEW k \in 1 .. n PROVE s[k] = Taken + k
    <3>1. k - 1 \in Cells /\ k - 1 < n /\ Taken + (k - 1) + 1 = Taken + k
      BY <1>3, <1>4, <1>5 DEF Cells
    <3> QED
      BY <1>11, <2>2, <3>1
  <2>4. \A k \in 1 .. Len(s) : s[k] <= Taken + n
    BY <1>4, <1>5, <1>9, <1>12, <2>2 DEF BufInv, Junk
  <2> QED
    BY <2>2, <2>3, <2>4
<1>14. /\ out' \in Seq(Int) /\ Len(out') = Len(out) + Len(s)
       /\ \A k \in 1 .. Len(out) : out'[k] = out[k]
       /\ \A k \in 1 .. Len(s) : out'[Len(out) + k] = s[k]
  BY <1>2, <1>3, <1>13, Joined
<1>15. OutInv'
  <2>1. ASSUME NEW k \in 1 .. Len(out') PROVE out'[k] <= Taken + n
    <3>1. CASE k <= Len(out)
      <4>1. out'[k] = out[k] /\ out[k] <= Taken /\ out[k] \in Int
        BY <1>3, <1>14, <3>1 DEF ChunkInv, OutInv
      <4> QED
        BY <1>4, <1>5, <4>1
    <3>2. CASE k > Len(out)
      <4>1. k - Len(out) \in 1 .. Len(s) /\ Len(out) + (k - Len(out)) = k
        BY <1>3, <1>13, <1>14, <3>2
      <4> QED
        BY <1>13, <1>14, <4>1
    <3> QED
      BY <1>3, <1>14, <3>1, <3>2
  <2>2. ASSUME NEW m \in 1 .. Taken + n
        PROVE  \E k \in 1 .. Len(out') : out'[k] = m /\ \A j \in 1 .. k - 1 : out'[j] < m
    <3>1. CASE m <= Taken
      <4>1. PICK k \in 1 .. Len(out) : out[k] = m /\ \A j \in 1 .. k - 1 : out[j] < m
        BY <1>4, <1>5, <3>1 DEF ChunkInv, OutInv
      <4>2. k \in 1 .. Len(out') /\ out'[k] = m
        BY <1>3, <1>13, <1>14, <4>1
      <4>3. ASSUME NEW j \in 1 .. k - 1 PROVE out'[j] < m
        <5>1. j \in 1 .. Len(out)
          BY <1>3
        <5> QED
          BY <1>14, <4>1, <5>1
      <4> QED
        BY <4>2, <4>3
    <3>2. CASE m > Taken
      <4>1. PICK d \in 1 .. n : Taken + d = m
        <5>1. m - Taken \in 1 .. n /\ Taken + (m - Taken) = m
          BY <1>4, <1>5, <3>2
        <5> QED
          BY <5>1
      <4>2. d \in 1 .. Len(s)
        BY <1>4, <1>13
      <4>3. PICK k \in 1 .. Len(out') : k = Len(out) + d
        <5>1. Len(out) + d \in 1 .. Len(out')
          BY <1>3, <1>13, <1>14, <4>2
        <5> QED
          BY <5>1
      <4>4. out'[k] = m
        BY <1>13, <1>14, <4>1, <4>2, <4>3
      <4>5. ASSUME NEW j \in 1 .. k - 1 PROVE out'[j] < m
        <5>1. CASE j <= Len(out)
          <6>1. j \in 1 .. Len(out)
            BY <5>1
          <6>2. out'[j] = out[j] /\ out[j] <= Taken /\ out[j] \in Int
            BY <1>14, <6>1 DEF ChunkInv, OutInv
          <6> QED
            BY <1>5, <3>2, <6>2
        <5>2. CASE j > Len(out)
          <6>1. PICK e \in 1 .. n : Len(out) + e = j /\ e < d
            <7>1. j - Len(out) \in 1 .. n /\ Len(out) + (j - Len(out)) = j /\ j - Len(out) < d
              BY <1>3, <1>4, <4>3, <5>2
            <7> QED
              BY <7>1
          <6>2. e \in 1 .. Len(s)
            BY <1>4, <1>13
          <6>3. out'[j] = Taken + e
            BY <1>13, <1>14, <6>1, <6>2
          <6> QED
            BY <1>4, <1>5, <4>1, <6>1, <6>3
        <5> QED
          BY <1>3, <5>1, <5>2
      <4> QED
        BY <4>4, <4>5
    <3> QED
      BY <1>4, <1>5, <3>1, <3>2
  <2> QED
    BY <1>9, <1>14, <2>1, <2>2 DEF OutInv
<1>16. ShortInv'
  <2> SUFFICES ASSUME Len(text) < BUF_SIZE
               PROVE  Taken' = Len(text) /\ out' = [k \in 1 .. Len(text) |-> k]
    BY <1>1 DEF ShortInv
  <2>1. Taken = 0 /\ out = <<>> /\ \A k \in Cells : buf[k] = NUL
    BY <1>3, <1>5 DEF ChunkInv, ShortInv
  <2>2. n = Len(text) /\ n < BUF_SIZE
    BY <1>3, <1>4, <1>5, <2>1
  <2>3. n \in Cells /\ buf'[n] <= 0
    <3>1. n \in Cells
      BY <1>3, <1>4, <2>2 DEF Cells
    <3> QED
      BY <1>4, <1>11, <2>1, <3>1 DEF NUL
  <2>4. Len(s) = n
    BY <1>13, <2>2, <2>3
  <2>5. /\ Len(out) = 0 /\ Len(out') = n
        /\ \A k \in 1 .. n : out'[k] = k
    <3>1. Len(out) = 0
      BY <2>1
    <3>2. Len(out') = n
      BY <1>4, <1>14, <2>4, <3>1
    <3>3. ASSUME NEW k \in 1 .. n PROVE out'[k] = k
      <4>1. k \in 1 .. Len(s) /\ Len(out) + k = k /\ Taken + k = k
        BY <1>4, <2>1, <2>4, <3>1
      <4> QED
        BY <1>13, <1>14, <4>1
    <3> QED
      BY <3>1, <3>2, <3>3
  <2>6. out' = [k \in 1 .. n |-> k]
    BY <1>14, <2>5
  <2> QED
    BY <1>4, <1>9, <2>1, <2>2, <2>6
<1>17. TextInv'
  BY <1>1 DEF ChunkInv, TextInv
<1> QED
  BY <1>10, <1>12, <1>15, <1>16, <1>17 DEF ChunkInv

\* What the scanner is in: only the last section has one.
ScanInv == phase \in {"scan", "overrun"} => Kind = "pagemap"

IInv == section \in DOMAIN Plan /\ ScanInv /\ CopyInv

\* A section that begins has copied nothing.
LEMMA SectionBegins ==
  ASSUME text' \in Texts, rest' = text', out' = <<>>, buf' = [k \in Cells |-> NUL]
  PROVE  ChunkInv'
<1>1. TextInv'
  BY TextsAreNumbered DEF TextInv
<1>2. text' \in Seq(Int) /\ Len(text') \in Nat
  BY <1>1 DEF TextInv
<1>3. Taken' = 0
  BY <1>2 DEF Taken
<1>4. RestInv'
  BY <1>2, <1>3 DEF RestInv
<1>5. BufInv'
  BY <1>3 DEF BufInv, NUL
<1>6. OutInv'
  BY <1>3 DEF OutInv
<1>7. ShortInv'
  BY <1>3 DEF ShortInv
<1> QED
  BY <1>1, <1>4, <1>5, <1>6, <1>7 DEF ChunkInv

\* A step that leaves the file and its copy alone keeps the invariant of the copy.
LEMMA ChunkStays ==
  ASSUME ChunkInv, UNCHANGED <<text, rest, buf, out>>
  PROVE  ChunkInv'
BY DEF ChunkInv, TextInv, RestInv, BufInv, OutInv, ShortInv, Taken

\* The sections that are copied, at any point of the report.
THEOREM CopyInvariant == Spec => []IInv
<1>1. Init => IInv
  BY DEF Init, IInv, ScanInv, CopyInv, Plan
<1>2. IInv /\ [Next]_vars => IInv'
  <2> SUFFICES ASSUME IInv, [Next]_vars
               PROVE  IInv'
    OBVIOUS
  <2>1. CASE Start
    BY <2>1 DEF Start, Finish, IInv, ScanInv, CopyInv
  <2>2. CASE OpenSection
    <3>1. CASE phase' = "read"
      <4>1. section' = section /\ Kind' = Kind
        BY <2>2, <3>1 DEF OpenSection, Opened, Finish, Kind
      <4>2. Kind = "copy" => ChunkInv'
        BY <2>2, <3>1, SectionBegins DEF OpenSection, Opened, Finish
      <4> QED
        BY <3>1, <4>1, <4>2 DEF IInv, ScanInv, CopyInv
    <3>2. CASE phase' = "crash" /\ UNCHANGED section
      BY <3>2 DEF IInv, ScanInv, CopyInv
    <3> QED
      BY <2>2, <3>1, <3>2 DEF OpenSection, Opened, Finish
  <2>3. CASE OpenPagemap
    BY <2>3 DEF OpenPagemap, Opened, Finish, IInv, ScanInv, CopyInv, Kind
  <2>4. CASE NextSection
    <3>1. Len(Plan) \in Nat /\ DOMAIN Plan = 1 .. Len(Plan)
      BY DEF Plan
    <3> QED
      BY <2>4, <3>1 DEF NextSection, Finish, IInv, ScanInv, CopyInv
  <2>5. CASE CopyChunk
    BY <2>5, ChunkIsCopied DEF CopyChunk, IInv, ScanInv, CopyInv, Kind
  <2>6. CASE ProcessEnds \/ EndOfText
    BY <2>6, ChunkStays DEF ProcessEnds, EndOfText, Finish, IInv, ScanInv, CopyInv, Kind
  <2>7. CASE FolderNames \/ FolderLinks \/ Fields \/ Link
    BY <2>7 DEF FolderNames, FolderLinks, Entries, Fields, Link, Finish, IInv, ScanInv, CopyInv, Kind
  <2>8. CASE ReadMaps
    BY <2>8 DEF ReadMaps, Finish, IInv, ScanInv, CopyInv, Kind
  <2>9. CASE ScanLine \/ ScanOver
    BY <2>9 DEF ScanLine, ScanOver, Finish, IInv, ScanInv, CopyInv, Kind
  <2>10. CASE EndOfBuffer
    BY <2>10 DEF EndOfBuffer, Finish, IInv, ScanInv, CopyInv, Kind
  <2>11. CASE UNCHANGED vars
    BY <2>11, ChunkStays DEF vars, IInv, ScanInv, CopyInv, Kind
  <2> QED
    BY <2>1, <2>2, <2>3, <2>4, <2>5, <2>6, <2>7, <2>8, <2>9, <2>10, <2>11 DEF Next, Ended
<1> QED
  BY <1>1, <1>2, PTL DEF Spec

\* A file that is read to its end is in the report, without a gap, for a buffer of
\* any size, files of any length and another process that ends at any moment.
THEOREM ReportCopiesFiles == Spec => []FilesAreCopied
<1>1. IInv => FilesAreCopied
  <2> SUFFICES ASSUME IInv, phase = "end", Kind = "copy", rest = <<>>
               PROVE  /\ Len(text) < BUF_SIZE => out = [n \in 1 .. Len(text) |-> n]
                      /\ \A n \in 1 .. Len(text) : \E k \in DOMAIN out :
                           out[k] = n /\ \A j \in 1 .. k - 1 : out[j] < n
    BY DEF FilesAreCopied
  <2>1. ChunkInv
    BY DEF IInv, CopyInv
  <2>2. Len(text) \in Nat /\ Taken = Len(text)
    BY <2>1 DEF ChunkInv, TextInv, Taken
  <2>3. Len(text) < BUF_SIZE => out = [n \in 1 .. Len(text) |-> n]
    <3>1. Len(text) = 0 => <<>> = [n \in 1 .. Len(text) |-> n]
      OBVIOUS
    <3> QED
      BY <2>1, <2>2, <3>1 DEF ChunkInv, ShortInv
  <2>4. DOMAIN out = 1 .. Len(out)
    BY <2>1 DEF ChunkInv, OutInv
  <2> QED
    BY <2>1, <2>2, <2>3, <2>4 DEF ChunkInv, OutInv
<1> QED
  BY <1>1, CopyInvariant, PTL

-------------------------------------------------------------------------------
(* Recursion *)

\* g is what the steps F make of s, from a on.
Follows(g, F, s, a, b) == g[a] = s /\ \A n \in a + 1 .. b : g[n] = F[n][g[n - 1]]

\* A function that a recursion describes exists.
LEMMA RecursionExists ==
  ASSUME NEW S, NEW s \in S, NEW a \in Int, NEW b \in Int, a <= b,
         NEW F \in [a .. b -> [S -> S]]
  PROVE  \E g \in [a .. b -> S] : Follows(g, F, s, a, b)
<1> DEFINE Good(g, c) == /\ g \in [a .. c -> S] /\ g[a] = s
                         /\ \A n \in a + 1 .. c : g[n] = F[n][g[n - 1]]
           Bad == {m \in Nat : a + m <= b /\ ~\E g : Good(g, a + m)}
<1>1. Bad = {}
  <2> SUFFICES ASSUME Bad # {} PROVE FALSE
    OBVIOUS
  <2>1. PICK m \in Bad : \A y \in Bad : m <= y
    <3>1. Bad \subseteq Nat
      OBVIOUS
    <3> HIDE DEF Bad
    <3> QED
      BY <3>1, Least
  <2>2. m \in Nat /\ a + m <= b /\ ~\E g : Good(g, a + m)
    BY <2>1
  <2>3. CASE m = 0
    <3> DEFINE g == [n \in a .. a + m |-> s]
    <3>1. Good(g, a + m)
      BY <2>2, <2>3
    <3> QED
      BY <2>2, <3>1
  <2>4. CASE m > 0
    <3>1. m - 1 \in Nat /\ a + (m - 1) <= b /\ m - 1 \notin Bad
      <4>1. m - 1 \in Nat /\ ~(m <= m - 1)
        BY <2>2, <2>4
      <4>2. m - 1 \notin Bad
        BY <2>1, <4>1
      <4> QED
        BY <2>2, <4>1, <4>2
    <3>2. PICK g : Good(g, a + (m - 1))
      BY <3>1
    <3> DEFINE c == a + m
               h == [n \in a .. c |-> IF n = c THEN F[c][g[c - 1]] ELSE g[n]]
    <3>3. c \in Int /\ c \in a + 1 .. b /\ c - 1 = a + (m - 1) /\ c - 1 \in a .. c - 1
      BY <2>2, <2>4
    <3>4. /\ g \in [a .. c - 1 -> S] /\ g[a] = s
          /\ \A n \in a + 1 .. c - 1 : g[n] = F[n][g[n - 1]]
      BY <3>2, <3>3
    <3> HIDE DEF c
    <3>5. F[c][g[c - 1]] \in S
      <4>1. F[c] \in [S -> S]
        BY <3>3
      <4> QED
        BY <3>3, <3>4, <4>1
    <3>6. \A n \in a .. c : n # c => n \in a .. c - 1
      BY <3>3
    <3>7. h \in [a .. c -> S]
      BY <3>4, <3>5, <3>6
    <3>8. h[a] = s
      BY <3>3, <3>4
    <3>9. ASSUME NEW n \in a + 1 .. c PROVE h[n] = F[n][h[n - 1]]
      <4>1. n \in a .. c /\ n - 1 \in a .. c /\ n - 1 # c
        BY <3>3
      <4>2. h[n - 1] = g[n - 1]
        BY <4>1
      <4>3. CASE n = c
        BY <4>1, <4>2, <4>3
      <4>4. CASE n # c
        <5>1. n \in a + 1 .. c - 1
          BY <3>3, <4>4
        <5> QED
          BY <3>4, <4>1, <4>2, <4>4, <5>1
      <4> QED
        BY <4>3, <4>4
    <3>10. Good(h, c)
      BY <3>7, <3>8, <3>9
    <3> QED
      BY <2>2, <3>10 DEF c
  <2> QED
    BY <2>2, <2>3, <2>4
<1>2. b - a \in Nat /\ a + (b - a) = b
  OBVIOUS
<1>3. PICK g : Good(g, b)
  <2>1. \E g : Good(g, a + (b - a))
    <3>1. b - a \notin Bad
      BY <1>1
    <3> HIDE DEF Good
    <3> QED
      BY <1>2, <3>1
  <2> HIDE DEF Good
  <2> QED
    BY <1>2, <2>1
<1> QED
  BY <1>3 DEF Follows

\* Two digits of a number that has no more.
LEMMA QuotientOf ==
  ASSUME NEW b \in Nat \ {0}, NEW v \in 0 .. b * b - 1
  PROVE  /\ v \div b \in 0 .. b - 1 /\ v % b \in 0 .. b - 1
         /\ (v \div b) * b + (v % b) = v
<1> DEFINE q == v \div b
<1>1. /\ q \in Int /\ v % b \in 0 .. b - 1 /\ v = b * q + (v % b)
  OBVIOUS
<1>2. b * b \in Int /\ v < b * b
  OBVIOUS
<1> HIDE DEF q
<1>3. q >= 0
  <2>1. ASSUME q <= -1 PROVE b * q <= -b
    BY <1>1, <2>1
  <2> QED
    BY <1>1, <2>1
<1>4. q <= b - 1
  <2>1. ASSUME q >= b PROVE b * q >= b * b
    BY <1>1, <2>1
  <2> QED
    BY <1>1, <1>2, <2>1
<1>5. q * b = b * q
  BY <1>1
<1> QED
  BY <1>1, <1>3, <1>4, <1>5 DEF q

\* A line of maps: the digits of both addresses, and no newline but the last.
LEMMA LineOfMaps ==
  ASSUME NEW m \in Mappings, NEW l, l = MapsLine(m)
  PROVE  /\ l \in Seq(Int) /\ Len(l) = 16 + m.name
         /\ l[1] \in 0 .. Base - 1 /\ l[2] \in 0 .. Base - 1 /\ l[1] * Base + l[2] = m.low
         /\ l[3] = Dash
         /\ l[4] \in 0 .. Base - 1 /\ l[5] \in 0 .. Base - 1 /\ l[4] * Base + l[5] = m.high
         /\ l[6] = Blank /\ l[9] = Blank /\ l[11] = Blank /\ l[13] = Blank /\ l[15] = Blank
         /\ l[16 + m.name] = Newline
         /\ \A k \in 1 .. 15 + m.name : l[k] # Newline
<1>1. m.low \in 0 .. Base * Base - 1 /\ m.high \in 0 .. Base * Base - 1 /\ m.name \in Nat
  BY DEF Mappings, Addresses
<1>2. Base \in 2 .. 16
  BY ReportAssumption
<1>3. ASSUME NEW v \in 0 .. Base * Base - 1
      PROVE  /\ v \div Base \in 0 .. Base - 1 /\ v % Base \in 0 .. Base - 1
             /\ (v \div Base) * Base + (v % Base) = v
  BY <1>2, QuotientOf
<1> DEFINE u == <<m.low \div Base, m.low % Base, Dash, m.high \div Base, m.high % Base, Blank,
                  Dash, Letter, Blank, 0, Blank, Letter, Blank, 1, Blank>>
           v == [n \in 1 .. m.name |-> Letter]
           w == <<Newline>>
<1>4. /\ u \in Seq(Int) /\ Len(u) = 15
      /\ u[1] \in 0 .. Base - 1 /\ u[2] \in 0 .. Base - 1 /\ u[1] * Base + u[2] = m.low
      /\ u[3] = Dash
      /\ u[4] \in 0 .. Base - 1 /\ u[5] \in 0 .. Base - 1 /\ u[4] * Base + u[5] = m.high
      /\ u[6] = Blank /\ u[9] = Blank /\ u[11] = Blank /\ u[13] = Blank /\ u[15] = Blank
  <2>1. m.low \div Base \in Int /\ m.low % Base \in Int /\ m.high \div Base \in Int /\ m.high % Base \in Int
    BY <1>1, <1>2, <1>3
  <2> QED
    BY <1>1, <1>3, <2>1 DEF Dash, Blank, Letter
<1>5. \A k \in 1 .. 15 : u[k] # Newline
  <2>1. m.low \div Base # Newline /\ m.low % Base # Newline /\ m.high \div Base # Newline /\ m.high % Base # Newline
    BY <1>1, <1>2, <1>3 DEF Newline
  <2> QED
    BY <2>1 DEF Newline, Dash, Blank, Letter
<1>6. v \in Seq(Int) /\ Len(v) = m.name /\ \A k \in 1 .. m.name : v[k] # Newline
  BY <1>1 DEF Letter, Newline
<1>7. w \in Seq(Int) /\ Len(w) = 1 /\ w[1] = Newline
  BY DEF Newline
<1>8. MapsLine(m) = u \o v \o w
  BY DEF MapsLine
<1> HIDE DEF u, v, w
<1>9. PICK uv : /\ uv = u \o v
                /\ uv \in Seq(Int) /\ Len(uv) = 15 + m.name
                /\ \A k \in 1 .. 15 : uv[k] = u[k]
                /\ \A k \in 1 .. m.name : uv[15 + k] = v[k]
  <2>1. /\ u \o v \in Seq(Int) /\ Len(u \o v) = Len(u) + Len(v)
        /\ \A k \in 1 .. Len(u) : (u \o v)[k] = u[k]
        /\ \A k \in 1 .. Len(v) : (u \o v)[Len(u) + k] = v[k]
    BY <1>4, <1>6, Joined
  <2>2. /\ Len(u) = 15 /\ Len(v) = m.name /\ 1 .. Len(v) = 1 .. m.name /\ 1 .. Len(u) = 1 .. 15
    BY <1>4, <1>6
  <2>3. /\ u \o v \in Seq(Int) /\ Len(u \o v) = 15 + m.name
        /\ \A k \in 1 .. 15 : (u \o v)[k] = u[k]
        /\ \A k \in 1 .. m.name : (u \o v)[15 + k] = v[k]
    BY <2>1, <2>2
  <2> QED
    BY <2>3
<1>10. /\ l \in Seq(Int) /\ Len(l) = 15 + m.name + 1
       /\ \A k \in 1 .. 15 + m.name : l[k] = uv[k]
       /\ l[15 + m.name + 1] = Newline
  <2>1. /\ uv \o w \in Seq(Int) /\ Len(uv \o w) = Len(uv) + Len(w)
        /\ \A k \in 1 .. Len(uv) : (uv \o w)[k] = uv[k]
        /\ \A k \in 1 .. Len(w) : (uv \o w)[Len(uv) + k] = w[k]
    BY <1>7, <1>9, Joined
  <2>2. 1 \in 1 .. Len(w) /\ Len(uv) + 1 = 15 + m.name + 1
    BY <1>1, <1>7, <1>9
  <2>3. l = uv \o w
    BY <1>8, <1>9
  <2> QED
    BY <1>7, <1>9, <2>1, <2>2, <2>3
<1>12. \A k \in 1 .. 15 : k \in 1 .. 15 + m.name
  BY <1>1
<1>13. ASSUME NEW k \in 1 .. 15 + m.name PROVE l[k] # Newline
  <2>1. CASE k <= 15
    <3>1. k \in 1 .. 15
      BY <1>1, <2>1
    <3> QED
      BY <1>5, <1>9, <1>10, <3>1
  <2>2. CASE k > 15
    <3>1. k - 15 \in 1 .. m.name /\ 15 + (k - 15) = k
      BY <1>1, <2>2
    <3>2. l[k] = uv[k]
      BY <1>10
    <3>3. uv[k] = v[k - 15]
      BY <1>9, <3>1
    <3> QED
      BY <1>6, <3>1, <3>2, <3>3
  <2> QED
    BY <1>1, <2>1, <2>2
<1>14. 15 + m.name + 1 = 16 + m.name
  BY <1>1
<1>15. \A k \in 1 .. 15 : l[k] = u[k]
  BY <1>9, <1>10, <1>12
<1>16. /\ l[1] = u[1] /\ l[2] = u[2] /\ l[3] = u[3] /\ l[4] = u[4] /\ l[5] = u[5] /\ l[6] = u[6]
       /\ l[9] = u[9] /\ l[11] = u[11] /\ l[13] = u[13] /\ l[15] = u[15]
  BY <1>15
<1>17. l \in Seq(Int) /\ Len(l) = 16 + m.name /\ l[16 + m.name] = Newline
  BY <1>10, <1>14
<1> QED
  BY <1>4, <1>13, <1>16, <1>17

\* The text of maps: each of its prefixes is the one before and a line.
LEMMA PrefixesOfMaps ==
  ASSUME NEW list \in Seq(Mappings), NEW t, t = TextUpTo(list)
  PROVE  /\ t \in [0 .. Len(list) -> Seq(Int)] /\ t[0] = <<>>
         /\ \A n \in 1 .. Len(list) : t[n] = t[n - 1] \o MapsLine(list[n])
<1> DEFINE N == Len(list)
           P(g) == g = [n \in 0 .. N |-> IF n = 0 THEN <<>> ELSE g[n - 1] \o MapsLine(list[n])]
           F == [n \in 0 .. N |-> [u \in Seq(Int) |-> IF n = 0 THEN u ELSE u \o MapsLine(list[n])]]
<1>1. N \in Nat /\ \A n \in 1 .. N : list[n] \in Mappings
  OBVIOUS
<1>2. \A n \in 1 .. N : MapsLine(list[n]) \in Seq(Int)
  BY <1>1, LineOfMaps
<1>3. \A n \in 1 .. N, u \in Seq(Int) : u \o MapsLine(list[n]) \in Seq(Int)
  BY <1>2, Joined
<1>4. \A n \in 0 .. N : n # 0 => n \in 1 .. N
  BY <1>1
<1>5. \E g : P(g)
  <2>1. F \in [0 .. N -> [Seq(Int) -> Seq(Int)]]
    BY <1>3, <1>4
  <2>2. <<>> \in Seq(Int) /\ 0 \in Int /\ N \in Int /\ 0 <= N
    BY <1>1
  <2>3. \A n \in 0 .. N, u \in Seq(Int) : n # 0 => F[n][u] = u \o MapsLine(list[n])
    OBVIOUS
  <2> HIDE DEF F, N
  <2>4. PICK g \in [0 .. N -> Seq(Int)] : Follows(g, F, <<>>, 0, N)
    BY <2>1, <2>2, RecursionExists
  <2>5. \A n \in 0 .. N : n # 0 => g[n - 1] \in Seq(Int)
    BY <2>2
  <2>6. \A n \in 0 .. N : n # 0 => F[n][g[n - 1]] = g[n - 1] \o MapsLine(list[n])
    BY <2>3, <2>5
  <2>7. \A n \in 0 .. N : g[n] = IF n = 0 THEN <<>> ELSE g[n - 1] \o MapsLine(list[n])
    <3>1. g[0] = <<>> /\ \A n \in 1 .. N : g[n] = F[n][g[n - 1]]
      BY <2>4 DEF Follows
    <3>2. \A n \in 0 .. N : n # 0 => g[n] = g[n - 1] \o MapsLine(list[n])
      BY <1>4, <2>6, <3>1
    <3> QED
      BY <3>1, <3>2
  <2>8. P(g)
    BY <2>7
  <2> QED
    BY <2>8
<1>6. t = CHOOSE g : P(g)
  BY DEF TextUpTo
<1> HIDE DEF P
<1>7. P(t)
  BY <1>5, <1>6
<1>8. t = [n \in 0 .. N |-> IF n = 0 THEN <<>> ELSE t[n - 1] \o MapsLine(list[n])]
  BY <1>7 DEF P
<1> HIDE DEF N, F
<1>9. t[0] = <<>> /\ \A n \in 1 .. N : t[n] = t[n - 1] \o MapsLine(list[n])
  <2>1. 0 \in 0 .. N /\ \A n \in 1 .. N : n \in 0 .. N /\ n # 0
    BY <1>1
  <2> QED
    BY <1>8, <2>1
<1>10. \A n \in 0 .. N : t[n] \in Seq(Int)
  <2> DEFINE Bad == {n \in 0 .. N : t[n] \notin Seq(Int)}
  <2> SUFFICES ASSUME Bad # {} PROVE FALSE
    OBVIOUS
  <2>1. PICK n \in Bad : \A y \in Bad : n <= y
    <3>1. Bad \subseteq Nat
      BY <1>1
    <3> HIDE DEF Bad
    <3> QED
      BY <3>1, Least
  <2>2. n \in 1 .. N
    <3>1. n \in 0 .. N /\ t[n] \notin Seq(Int)
      BY <2>1
    <3>2. n # 0
      <4>1. <<>> \in Seq(Int)
        OBVIOUS
      <4> QED
        BY <1>9, <3>1, <4>1
    <3> QED
      BY <1>1, <3>1, <3>2
  <2>3. n - 1 \in 0 .. N /\ ~(n <= n - 1)
    BY <1>1, <2>2
  <2>4. t[n - 1] \in Seq(Int)
    BY <2>1, <2>3
  <2> QED
    BY <1>3, <1>9, <2>1, <2>2, <2>4
<1> QED
  BY <1>8, <1>9, <1>10 DEF N

\* Where the lines are in the text.
LEMMA PlacesOfLines ==
  ASSUME NEW list \in Seq(Mappings), NEW t, t = TextUpTo(list)
  PROVE  /\ \A n \in 0 .. Len(list) : Len(t[n]) \in Nat /\ Len(t[n]) <= Len(t[Len(list)])
         /\ Len(t[0]) = 0
         /\ \A n \in 1 .. Len(list) :
              /\ Len(t[n]) = Len(t[n - 1]) + 16 + list[n].name
              /\ \A k \in 1 .. 16 + list[n].name :
                   t[Len(list)][Len(t[n - 1]) + k] = MapsLine(list[n])[k]
<1> DEFINE N == Len(list)
           Name(n) == list[n].name
<1>1. /\ t \in [0 .. N -> Seq(Int)] /\ t[0] = <<>>
      /\ \A n \in 1 .. N : t[n] = t[n - 1] \o MapsLine(list[n])
  BY PrefixesOfMaps
<1>2. N \in Nat /\ \A n \in 1 .. N : list[n] \in Mappings /\ Name(n) \in Nat
  <2>1. N \in Nat /\ \A n \in 1 .. N : list[n] \in Mappings
    OBVIOUS
  <2>2. \A m \in Mappings : m.name \in Nat
    BY DEF Mappings
  <2> QED
    BY <2>1, <2>2
<1> HIDE DEF N
<1>3. \A n \in 0 .. N : t[n] \in Seq(Int) /\ Len(t[n]) \in Nat
  BY <1>1
<1>4. ASSUME NEW n \in 1 .. N
      PROVE  /\ n - 1 \in 0 .. N
             /\ Len(t[n]) = Len(t[n - 1]) + 16 + Name(n)
             /\ \A k \in 1 .. Len(t[n - 1]) : t[n][k] = t[n - 1][k]
             /\ \A k \in 1 .. 16 + Name(n) : t[n][Len(t[n - 1]) + k] = MapsLine(list[n])[k]
  <2>1. n - 1 \in 0 .. N /\ t[n - 1] \in Seq(Int) /\ Len(t[n - 1]) \in Nat /\ Name(n) \in Nat
    BY <1>2, <1>3
  <2>2. PICK l : l = MapsLine(list[n]) /\ l \in Seq(Int) /\ Len(l) = 16 + Name(n)
    BY <1>2, LineOfMaps
  <2> HIDE DEF Name
  <2>3. PICK u : u = t[n - 1] /\ u \in Seq(Int)
    BY <2>1
  <2>4. /\ Len(u \o l) = Len(u) + Len(l)
        /\ \A k \in 1 .. Len(u) : (u \o l)[k] = u[k]
        /\ \A k \in 1 .. Len(l) : (u \o l)[Len(u) + k] = l[k]
    BY <2>2, <2>3, Joined
  <2>5. t[n] = u \o l
    BY <1>1, <2>2, <2>3
  <2>6. Len(u) + (16 + Name(n)) = Len(u) + 16 + Name(n)
    BY <2>1, <2>3
  <2> QED
    BY <2>1, <2>2, <2>3, <2>4, <2>5, <2>6
<1> HIDE DEF Name
<1>5. \A m \in 0 .. N : \A n \in 0 .. m : /\ Len(t[n]) <= Len(t[m])
                                          /\ \A k \in 1 .. Len(t[n]) : t[m][k] = t[n][k]
  <2> DEFINE Fits(n, m) == Len(t[n]) <= Len(t[m]) /\ \A k \in 1 .. Len(t[n]) : t[m][k] = t[n][k]
             Bad == {m \in 0 .. N : ~\A n \in 0 .. m : Fits(n, m)}
  <2> SUFFICES ASSUME Bad # {} PROVE FALSE
    OBVIOUS
  <2>1. PICK m \in Bad : \A y \in Bad : m <= y
    <3>1. Bad \subseteq Nat
      BY <1>2
    <3> HIDE DEF Bad
    <3> QED
      BY <3>1, Least
  <2>2. m \in 0 .. N
    BY <2>1
  <2>3. PICK n \in 0 .. m : ~Fits(n, m)
    BY <2>1
  <2>4. n \in 0 .. N /\ n # m
    <3>1. Fits(m, m)
      BY <1>3, <2>2
    <3> QED
      BY <1>2, <2>2, <2>3, <3>1
  <2>5. m \in 1 .. N /\ m - 1 \in 0 .. N /\ n \in 0 .. m - 1 /\ ~(m <= m - 1)
    BY <1>2, <2>2, <2>3, <2>4
  <2>6. m - 1 \notin Bad
    BY <2>1, <2>5
  <2>7. Fits(n, m - 1)
    BY <2>5, <2>6
  <2>8. /\ Len(t[m]) = Len(t[m - 1]) + 16 + Name(m) /\ Name(m) \in Nat
        /\ \A k \in 1 .. Len(t[m - 1]) : t[m][k] = t[m - 1][k]
    BY <1>2, <1>4, <2>5
  <2>9. Len(t[n]) \in Nat /\ Len(t[m - 1]) \in Nat /\ Len(t[m]) \in Nat
    BY <1>3, <2>4, <2>5
  <2>10. Len(t[n]) <= Len(t[m])
    BY <2>7, <2>8, <2>9
  <2>11. \A k \in 1 .. Len(t[n]) : k \in 1 .. Len(t[m - 1])
    BY <2>7, <2>9
  <2>12. \A k \in 1 .. Len(t[n]) : t[m][k] = t[n][k]
    BY <2>7, <2>8, <2>11
  <2> QED
    BY <2>3, <2>10, <2>12
<1>6. N \in 0 .. N
  BY <1>2
<1>7. ASSUME NEW n \in 1 .. N, NEW k \in 1 .. 16 + Name(n)
      PROVE  t[N][Len(t[n - 1]) + k] = MapsLine(list[n])[k]
  <2>1. n \in 0 .. N /\ Len(t[n - 1]) \in Nat /\ Name(n) \in Nat
    BY <1>2, <1>3, <1>4
  <2>2. Len(t[n - 1]) + k \in 1 .. Len(t[n])
    BY <1>4, <2>1
  <2>3. t[N][Len(t[n - 1]) + k] = t[n][Len(t[n - 1]) + k]
    BY <1>5, <1>6, <2>1, <2>2
  <2> QED
    BY <1>4, <2>3
<1>8. Len(t[0]) = 0
  BY <1>1
<1>9. \A n \in 0 .. N : Len(t[n]) <= Len(t[N])
  BY <1>5, <1>6
<1>10. \A n \in 1 .. N : Len(t[n]) = Len(t[n - 1]) + 16 + Name(n)
  BY <1>4
<1> QED
  BY <1>3, <1>7, <1>8, <1>9, <1>10 DEF N, Name

-------------------------------------------------------------------------------
(* The scanner *)

\* The values of the digits from x on.
LEMMA ValuesOfDigits ==
  ASSUME buf \in [Cells -> Int], NEW x \in Nat, NEW e \in Nat, x <= e, e <= BUF_SIZE,
         NEW v, v = Values(x, e)
  PROVE  /\ \A k \in x - 1 .. e - 1 : v[k] \in Int
         /\ v[x - 1] = 0
         /\ \A k \in x .. e - 1 : v[k] = v[k - 1] * Base + buf[k]
<1> DEFINE P(g) == g = [k \in x - 1 .. e - 1 |-> IF k < x THEN 0 ELSE g[k - 1] * Base + buf[k]]
           F == [k \in x - 1 .. e - 1 |-> [u \in Int |-> IF k < x THEN u ELSE u * Base + buf[k]]]
<1>1. Base \in Int /\ BUF_SIZE \in Nat
  BY ReportAssumption
<1>2. \A k \in x .. e - 1 : k \in Cells /\ buf[k] \in Int
  BY <1>1 DEF Cells
<1>3. \A k \in x - 1 .. e - 1 : (k < x /\ k = x - 1) \/ (~(k < x) /\ k # x - 1 /\ k \in x .. e - 1)
  OBVIOUS
<1>4. \A k \in x .. e - 1, u \in Int : u * Base + buf[k] \in Int
  BY <1>1, <1>2
<1>5. \E g : P(g)
  <2>1. F \in [x - 1 .. e - 1 -> [Int -> Int]]
    BY <1>3, <1>4
  <2>2. 0 \in Int /\ x - 1 \in Int /\ e - 1 \in Int /\ x - 1 <= e - 1
    OBVIOUS
  <2>3. \A k \in x - 1 .. e - 1, u \in Int : ~(k < x) => F[k][u] = u * Base + buf[k]
    OBVIOUS
  <2> HIDE DEF F
  <2>4. PICK g \in [x - 1 .. e - 1 -> Int] : Follows(g, F, 0, x - 1, e - 1)
    BY <2>1, <2>2, RecursionExists
  <2>5. g[x - 1] = 0 /\ \A k \in x .. e - 1 : g[k] = F[k][g[k - 1]]
    BY <2>4 DEF Follows
  <2>6. \A k \in x .. e - 1 : k - 1 \in x - 1 .. e - 1 /\ k \in x - 1 .. e - 1 /\ ~(k < x)
    OBVIOUS
  <2>7. \A k \in x .. e - 1 : g[k] = g[k - 1] * Base + buf[k]
    BY <2>3, <2>4, <2>5, <2>6
  <2>8. \A k \in x - 1 .. e - 1 : g[k] = IF k < x THEN 0 ELSE g[k - 1] * Base + buf[k]
    BY <1>3, <2>5, <2>7
  <2>9. P(g)
    BY <2>8
  <2> QED
    BY <2>9
<1>6. v = CHOOSE g : P(g)
  BY DEF Values
<1> HIDE DEF P
<1>7. P(v)
  BY <1>5, <1>6
<1>8. v = [k \in x - 1 .. e - 1 |-> IF k < x THEN 0 ELSE v[k - 1] * Base + buf[k]]
  BY <1>7 DEF P
<1> HIDE DEF F
<1>9. v[x - 1] = 0 /\ \A k \in x .. e - 1 : v[k] = v[k - 1] * Base + buf[k]
  <2>1. x - 1 \in x - 1 .. e - 1 /\ x - 1 < x
    OBVIOUS
  <2>2. \A k \in x .. e - 1 : k \in x - 1 .. e - 1 /\ ~(k < x)
    OBVIOUS
  <2> QED
    BY <1>8, <2>1, <2>2
<1>10. \A k \in x - 1 .. e - 1 : v[k] \in Int
  <2> DEFINE Bad == {m \in Nat : x - 1 + m <= e - 1 /\ v[x - 1 + m] \notin Int}
  <2>1. Bad = {}
    <3> SUFFICES ASSUME Bad # {} PROVE FALSE
      OBVIOUS
    <3>1. PICK m \in Bad : \A y \in Bad : m <= y
      <4>1. Bad \subseteq Nat
        OBVIOUS
      <4> HIDE DEF Bad
      <4> QED
        BY <4>1, Least
    <3>2. m \in Nat /\ x - 1 + m <= e - 1 /\ v[x - 1 + m] \notin Int
      BY <3>1
    <3>3. m # 0
      <4>1. x - 1 + 0 = x - 1
        OBVIOUS
      <4> QED
        BY <1>9, <3>2, <4>1
    <3>4. m - 1 \in Nat /\ ~(m <= m - 1) /\ x - 1 + (m - 1) <= e - 1
      BY <3>2, <3>3
    <3>5. v[x - 1 + (m - 1)] \in Int
      BY <3>1, <3>4
    <3>6. x - 1 + m \in x .. e - 1 /\ x - 1 + m - 1 = x - 1 + (m - 1)
      BY <3>2, <3>3
    <3> QED
      BY <1>4, <1>9, <3>2, <3>5, <3>6
  <2>2. ASSUME NEW k \in x - 1 .. e - 1 PROVE v[k] \in Int
    <3>1. k - (x - 1) \in Nat /\ x - 1 + (k - (x - 1)) = k /\ k <= e - 1
      OBVIOUS
    <3>2. k - (x - 1) \notin Bad
      BY <2>1
    <3> QED
      BY <3>1, <3>2
  <2> QED
    BY <2>2
<1> QED
  BY <1>9, <1>10

\* What SkipTo() finds.
LEMMA Skipped ==
  ASSUME NEW x, NEW c, NEW s, s = SkipTo(x, c)
  PROVE  \/ s = BUF_SIZE /\ \A k \in Cells : ~(k >= x /\ buf[k] = c)
         \/ s \in Cells /\ s >= x /\ buf[s] = c /\ \A k \in Cells : k >= x /\ buf[k] = c => s <= k
<1> DEFINE at == {k \in Cells : k >= x /\ buf[k] = c}
           y == CHOOSE k \in at : \A a \in at : k <= a
<1>1. CASE at = {}
  BY <1>1 DEF SkipTo
<1>2. CASE at # {}
  <2>1. at \subseteq Nat
    BY SizeIsNat DEF Cells
  <2>2. \E k \in at : \A a \in at : k <= a
    <3> HIDE DEF at
    <3> QED
      BY <1>2, <2>1, Least
  <2>3. s = y
    BY <1>2 DEF SkipTo
  <2>4. y \in at /\ \A a \in at : y <= a
    BY <2>2
  <2> HIDE DEF y
  <2> QED
    BY <2>3, <2>4
<1> QED
  BY <1>1, <1>2

\* It does not go past the character it looks for.
LEMMA SkippedTo ==
  ASSUME NEW k \in Cells, NEW z \in Nat, z <= k, NEW s, s = SkipTo(z, buf[k])
  PROVE  s \in Cells /\ z <= s /\ s <= k
<1>1. k >= z /\ BUF_SIZE \notin Cells
  BY SizeIsNat DEF Cells
<1>2. s \in Cells /\ s >= z /\ s <= k
  BY <1>1, Skipped
<1> QED
  BY <1>2, SizeIsNat DEF Cells

\* The name's end is a newline already, so the buffer is as it was read.
LEMMA NothingToRestore ==
  ASSUME buf \in [Cells -> Int], NEW x, NameEnd(x) \in Cells
  PROVE  Restored(NameEnd(x)) = buf
<1>1. PICK z : NameEnd(x) = SkipTo(z, Newline)
  BY DEF NameEnd
<1>2. PICK y \in Cells : y = NameEnd(x)
  OBVIOUS
<1>3. BUF_SIZE \notin Cells
  BY SizeIsNat DEF Cells
<1>4. buf[y] = Newline
  BY <1>1, <1>2, <1>3, Skipped
<1>5. Restored(y) = buf
  BY <1>4 DEF Restored
<1> QED
  BY <1>2, <1>5

\* A set of numbers that has a bound has a greatest one.
LEMMA Greatest ==
  ASSUME NEW T, T \subseteq Nat, T # {}, NEW b \in Nat, \A y \in T : y <= b
  PROVE  \E x \in T : \A y \in T : y <= x
<1> DEFINE R == {m \in Nat : m <= b /\ b - m \in T}
<1>1. R # {} /\ R \subseteq Nat
  <2>1. PICK y \in T : TRUE
    OBVIOUS
  <2>2. b - y \in Nat /\ b - y <= b /\ b - (b - y) = y
    BY <2>1
  <2>3. b - y \in R
    BY <2>1, <2>2
  <2> QED
    BY <2>3
<1>2. PICK m \in R : \A n \in R : m <= n
  <2> HIDE DEF R
  <2> QED
    BY <1>1, Least
<1>3. ASSUME NEW y \in T PROVE y <= b - m
  <2>1. b - y \in Nat /\ b - y <= b /\ b - (b - y) = y /\ m \in Nat
    BY <1>2
  <2>2. b - y \in R
    BY <2>1
  <2>3. m <= b - y
    BY <1>2, <2>2
  <2> QED
    BY <2>1, <2>3
<1>4. b - m \in T
  BY <1>2
<1> QED
  BY <1>3, <1>4

\* Where a line begins.
LEMMA Started ==
  ASSUME NEW x \in Nat, NEW s, s = LineStart(x)
  PROVE  \/ s = 0 /\ \A k \in Cells : ~(k < x /\ buf[k] = Newline)
         \/ /\ s \in Nat /\ s - 1 \in Cells /\ s - 1 < x /\ buf[s - 1] = Newline
            /\ \A k \in Cells : k < x /\ buf[k] = Newline => k < s
<1> DEFINE at == {k \in Cells : k < x /\ buf[k] = Newline}
           y == CHOOSE k \in at : \A a \in at : a <= k
<1>1. CASE at = {}
  BY <1>1 DEF LineStart
<1>2. CASE at # {}
  <2>1. at \subseteq Nat /\ \A k \in at : k <= x
    BY SizeIsNat DEF Cells
  <2>2. \E k \in at : \A a \in at : a <= k
    <3> HIDE DEF at
    <3> QED
      BY <1>2, <2>1, Greatest
  <2>3. s = 1 + y
    BY <1>2 DEF LineStart
  <2>4. y \in at /\ \A a \in at : a <= y
    BY <2>2
  <2>5. y \in Nat
    BY <2>1, <2>4
  <2> HIDE DEF y
  <2>6. s \in Nat /\ s - 1 = y
    BY <2>3, <2>5
  <2>7. \A k \in Cells : k < x /\ buf[k] = Newline => k < s
    <3>1. \A k \in at : k < s
      BY <2>1, <2>3, <2>4, <2>5
    <3> QED
      BY <3>1
  <2> QED
    BY <2>4, <2>6, <2>7
<1> QED
  BY <1>1, <1>2

\* The digits end at the first cell that is none.
LEMMA DigitsEnded ==
  ASSUME NEW x \in Nat, x < BUF_SIZE, NEW d, d = DigitsEnd(x)
  PROVE  /\ d \in Nat /\ x <= d /\ d <= BUF_SIZE
         /\ \A k \in Cells : k >= x /\ buf[k] \notin 0 .. Base - 1 => d <= k
         /\ d = BUF_SIZE \/ buf[d] \notin 0 .. Base - 1
<1> DEFINE ends == {k \in Cells : k >= x /\ buf[k] \notin 0 .. Base - 1}
           y == CHOOSE k \in ends : \A e \in ends : k <= e
<1>1. CASE ends = {}
  BY <1>1, SizeIsNat DEF DigitsEnd
<1>2. CASE ends # {}
  <2>1. ends \subseteq Nat
    BY SizeIsNat DEF Cells
  <2>2. \E k \in ends : \A e \in ends : k <= e
    <3> HIDE DEF ends
    <3> QED
      BY <1>2, <2>1, Least
  <2>3. d = y
    BY <1>2 DEF DigitsEnd
  <2>4. y \in ends /\ \A e \in ends : y <= e
    BY <2>2
  <2> HIDE DEF y
  <2>5. d \in Nat /\ x <= d /\ d <= BUF_SIZE /\ buf[d] \notin 0 .. Base - 1
    BY <2>3, <2>4, SizeIsNat DEF Cells
  <2> QED
    BY <2>3, <2>4, <2>5
<1> QED
  BY <1>1, <1>2

\* A number and its end.
LEMMA NumberIs ==
  ASSUME NEW x \in Nat, x < BUF_SIZE, NEW stop, NEW d, d = DigitsEnd(x)
  PROVE  IF d = BUF_SIZE \/ buf[d] = stop
         THEN Number(x, stop) = [value |-> Values(x, d)[d - 1], end |-> d]
         ELSE Number(x, stop) = [value |-> Values(x, d)[d - 1] * Base, end |-> d + 1]
<1>1. ~(x >= BUF_SIZE)
  BY SizeIsNat
<1> QED
  BY <1>1 DEF Number

\* It is a number, whatever is in the buffer.
LEMMA NumbersAreNumbers ==
  ASSUME buf \in [Cells -> Int], NEW x \in Nat, NEW stop
  PROVE  Number(x, stop).value \in Int /\ Number(x, stop).end \in Nat
<1>1. CASE x < BUF_SIZE
  <2>1. PICK d : d = DigitsEnd(x)
    OBVIOUS
  <2>2. d \in Nat /\ x <= d /\ d <= BUF_SIZE
    BY <1>1, <2>1, DigitsEnded
  <2>3. PICK w : w = Values(x, d)[d - 1]
    OBVIOUS
  <2>4. w \in Int
    <3>1. d - 1 \in x - 1 .. d - 1
      BY <2>2
    <3> QED
      BY <2>2, <2>3, <3>1, ValuesOfDigits
  <2>5. \/ Number(x, stop) = [value |-> w, end |-> d]
        \/ Number(x, stop) = [value |-> w * Base, end |-> d + 1]
    BY <1>1, <2>1, <2>3, NumberIs
  <2>6. Base \in Int
    BY ReportAssumption
  <2> QED
    BY <2>2, <2>4, <2>5, <2>6
<1>2. CASE ~(x < BUF_SIZE)
  <2>1. x >= BUF_SIZE
    BY <1>2, SizeIsNat
  <2> QED
    BY <2>1, SizeIsNat DEF Number
<1> QED
  BY <1>1, <1>2

\* A number of two digits.
LEMMA TwoDigits ==
  ASSUME buf \in [Cells -> Int], NEW x \in Nat, x + 2 < BUF_SIZE,
         buf[x] \in 0 .. Base - 1, buf[x + 1] \in 0 .. Base - 1,
         NEW stop, stop \notin 0 .. Base - 1, buf[x + 2] = stop
  PROVE  Number(x, stop) = [value |-> buf[x] * Base + buf[x + 1], end |-> x + 2]
<1>1. PICK d : d = DigitsEnd(x)
  OBVIOUS
<1>2. BUF_SIZE \in Nat /\ x < BUF_SIZE /\ Base \in Int
  BY ReportAssumption, SizeIsNat
<1>3. d = x + 2
  <2>1. d \in Nat /\ x <= d /\ d <= BUF_SIZE /\ (d = BUF_SIZE \/ buf[d] \notin 0 .. Base - 1)
    BY <1>1, <1>2, DigitsEnded
  <2>2. d <= x + 2
    <3>1. x + 2 \in Cells /\ x + 2 >= x
      BY <1>2 DEF Cells
    <3> QED
      BY <1>1, <1>2, <3>1, DigitsEnded
  <2>3. d # x /\ d # x + 1
    BY <1>2, <2>1
  <2> QED
    BY <2>1, <2>2, <2>3
<1>4. PICK v : v = Values(x, d)
  OBVIOUS
<1>5. v[x + 1] = buf[x] * Base + buf[x + 1]
  <2>1. d \in Nat /\ x <= d /\ d <= BUF_SIZE /\ x \in x .. d - 1 /\ x + 1 \in x .. d - 1
    BY <1>2, <1>3
  <2>2. v[x - 1] = 0 /\ \A k \in x .. d - 1 : v[k] = v[k - 1] * Base + buf[k]
    BY <1>4, <2>1, ValuesOfDigits
  <2>3. v[x] = 0 * Base + buf[x]
    BY <2>1, <2>2
  <2>4. v[x] = buf[x]
    BY <1>2, <2>3
  <2>5. x + 1 - 1 = x
    OBVIOUS
  <2> QED
    BY <2>1, <2>2, <2>4, <2>5
<1>6. Number(x, stop) = [value |-> v[d - 1], end |-> d]
  BY <1>1, <1>2, <1>3, <1>4, NumberIs
<1>7. d - 1 = x + 1
  BY <1>3
<1> QED
  BY <1>3, <1>5, <1>6, <1>7

\* What is printed about a line is about pages.
LEMMA PagesAreNumbers ==
  ASSUME buf \in [Cells -> Int], NEW x \in Nat
  PROVE  PagesOf(x) \subseteq Int
<1>1. PICK lo \in Int : lo = Low(x).value
  <2>1. LineStart(x) \in Nat
    BY Started
  <2> QED
    BY <2>1, NumbersAreNumbers DEF Low
<1>2. PICK hi \in Int : hi = High(x).value
  <2>1. SkipTo(Low(x).end, Dash) + 1 \in Nat
    <3>1. SkipTo(Low(x).end, Dash) = BUF_SIZE \/ SkipTo(Low(x).end, Dash) \in Cells
      BY Skipped
    <3> QED
      BY <3>1, SizeIsNat DEF Cells
  <2> QED
    BY <2>1, NumbersAreNumbers DEF High
<1>3. PagesOf(x) = (lo .. hi - 1) \ silent
  BY <1>1, <1>2 DEF PagesOf
<1> QED
  BY <1>3

\* All pages of a mapping are among those of the line that ends at x.
Names(x, m) == Pages(m) \ silent \subseteq PagesOf(x)

\* A line that is whole in the buffer is parsed as it was written, whatever is
\* around it.
LEMMA LineIsParsed ==
  ASSUME buf \in [Cells -> Int], NEW m \in Mappings,
         NEW s \in Nat, s + 15 + m.name < BUF_SIZE,
         \A k \in 1 .. 16 + m.name : buf[s + k - 1] = MapsLine(m)[k],
         s = 0 \/ buf[s - 1] = Newline,
         NEW x, x = s + 15 + m.name
  PROVE  Names(x, m) /\ NameEnd(x) \in Cells
<1>1. /\ BUF_SIZE \in Nat /\ Base \in Nat /\ m.name \in Nat /\ m.low \in Int /\ m.high \in Int
      /\ x \in Nat /\ x >= s + 15 /\ x < BUF_SIZE
  <2>1. Base \in 2 .. 16
    BY ReportAssumption
  <2>2. m.name \in Nat /\ m.low \in 0 .. Base * Base - 1 /\ m.high \in 0 .. Base * Base - 1
    BY DEF Mappings, Addresses
  <2> QED
    BY <2>1, <2>2, SizeIsNat
<1>2. PICK l : /\ l = MapsLine(m)
               /\ l[1] \in 0 .. Base - 1 /\ l[2] \in 0 .. Base - 1 /\ l[1] * Base + l[2] = m.low
               /\ l[3] = Dash
               /\ l[4] \in 0 .. Base - 1 /\ l[5] \in 0 .. Base - 1 /\ l[4] * Base + l[5] = m.high
               /\ l[6] = Blank /\ l[9] = Blank /\ l[11] = Blank /\ l[13] = Blank /\ l[15] = Blank
               /\ l[16 + m.name] = Newline
               /\ \A k \in 1 .. 15 + m.name : l[k] # Newline
  BY LineOfMaps
<1>3. \A k \in 1 .. 16 + m.name : buf[s + k - 1] = l[k]
  BY <1>2
<1>4. /\ buf[s] = l[1] /\ buf[s + 1] = l[2] /\ buf[s + 2] = l[3]
      /\ buf[s + 3] = l[4] /\ buf[s + 4] = l[5] /\ buf[s + 5] = l[6]
  <2>1. /\ 1 \in 1 .. 16 + m.name /\ 2 \in 1 .. 16 + m.name /\ 3 \in 1 .. 16 + m.name
        /\ 4 \in 1 .. 16 + m.name /\ 5 \in 1 .. 16 + m.name /\ 6 \in 1 .. 16 + m.name
    BY <1>1
  <2>2. /\ s + 1 - 1 = s /\ s + 2 - 1 = s + 1 /\ s + 3 - 1 = s + 2
        /\ s + 4 - 1 = s + 3 /\ s + 5 - 1 = s + 4 /\ s + 6 - 1 = s + 5
    OBVIOUS
  <2>3. /\ buf[s + 1 - 1] = l[1] /\ buf[s + 2 - 1] = l[2] /\ buf[s + 3 - 1] = l[3]
        /\ buf[s + 4 - 1] = l[4] /\ buf[s + 5 - 1] = l[5] /\ buf[s + 6 - 1] = l[6]
    BY <1>3, <2>1
  <2> QED
    BY <2>2, <2>3
<1>5. LineStart(x) = s
  <2>1. PICK y : y = LineStart(x)
    OBVIOUS
  <2>2. \A k \in Cells : k < x /\ buf[k] = Newline => k < s
    <3> SUFFICES ASSUME NEW k \in Cells, k < x, k >= s PROVE buf[k] # Newline
      BY <1>1 DEF Cells
    <3>1. k - s + 1 \in 1 .. 15 + m.name /\ k - s + 1 \in 1 .. 16 + m.name /\ s + (k - s + 1) - 1 = k
      <4>1. k \in Int /\ k < s + 15 + m.name
        BY <1>1 DEF Cells
      <4> QED
        BY <1>1, <4>1
    <3>2. buf[k] = l[k - s + 1]
      BY <1>3, <3>1
    <3> QED
      BY <1>2, <3>1, <3>2
  <2>3. s # 0 => s - 1 \in Cells /\ s - 1 < x
    BY <1>1 DEF Cells
  <2>4. CASE y = 0 /\ \A k \in Cells : ~(k < x /\ buf[k] = Newline)
    BY <2>1, <2>3, <2>4
  <2>5. CASE /\ y \in Nat /\ y - 1 \in Cells /\ y - 1 < x /\ buf[y - 1] = Newline
             /\ \A k \in Cells : k < x /\ buf[k] = Newline => k < y
    <3>1. y - 1 < s
      BY <2>2, <2>5
    <3>2. s # 0 => s - 1 < y
      BY <2>3, <2>5
    <3> QED
      BY <2>1, <2>5, <3>1, <3>2
  <2> QED
    BY <1>1, <2>1, <2>4, <2>5, Started
<1>6. Dash \notin 0 .. Base - 1 /\ Blank \notin 0 .. Base - 1
  BY ReportAssumption DEF Dash, Blank
<1>7. Low(x) = [value |-> m.low, end |-> s + 2]
  <2>1. Number(s, Dash) = [value |-> buf[s] * Base + buf[s + 1], end |-> s + 2]
    <3>1. s + 2 < BUF_SIZE
      BY <1>1
    <3> QED
      BY <1>2, <1>4, <1>6, <3>1, TwoDigits
  <2> QED
    BY <1>2, <1>4, <1>5, <2>1 DEF Low
<1>8. SkipTo(s + 2, Dash) = s + 2
  <2>1. PICK y : y = SkipTo(s + 2, Dash)
    OBVIOUS
  <2>2. s + 2 \in Cells /\ s + 2 >= s + 2 /\ buf[s + 2] = Dash
    BY <1>1, <1>2, <1>4 DEF Cells
  <2>3. y \in Cells /\ y >= s + 2 /\ y <= s + 2
    BY <2>1, <2>2, Skipped
  <2> QED
    BY <1>1, <2>1, <2>3 DEF Cells
<1>9. High(x) = [value |-> m.high, end |-> s + 5]
  <2>1. PICK z \in Nat : z = s + 3
    OBVIOUS
  <2>2. z + 1 = s + 4 /\ z + 2 = s + 5 /\ z + 2 < BUF_SIZE
    BY <1>1, <2>1
  <2>3. Number(z, Blank) = [value |-> buf[z] * Base + buf[z + 1], end |-> z + 2]
    BY <1>2, <1>4, <1>6, <2>1, <2>2, TwoDigits
  <2>4. SkipTo(Low(x).end, Dash) + 1 = z
    BY <1>7, <1>8, <2>1
  <2> QED
    BY <1>2, <1>4, <2>1, <2>2, <2>3, <2>4 DEF High
<1>10. Names(x, m)
  <2>1. PagesOf(x) = (m.low .. m.high - 1) \ silent
    BY <1>7, <1>9 DEF PagesOf
  <2> QED
    BY <2>1 DEF Names, Pages
<1>11. /\ buf[s + 8] = Blank /\ buf[s + 10] = Blank /\ buf[s + 12] = Blank /\ buf[s + 14] = Blank
       /\ buf[x] = Newline
  <2>1. /\ 9 \in 1 .. 16 + m.name /\ 11 \in 1 .. 16 + m.name /\ 13 \in 1 .. 16 + m.name
        /\ 15 \in 1 .. 16 + m.name /\ 16 + m.name \in 1 .. 16 + m.name
    BY <1>1
  <2>2. /\ s + 9 - 1 = s + 8 /\ s + 11 - 1 = s + 10 /\ s + 13 - 1 = s + 12 /\ s + 15 - 1 = s + 14
        /\ s + (16 + m.name) - 1 = x
    BY <1>1
  <2>3. /\ buf[s + 9 - 1] = l[9] /\ buf[s + 11 - 1] = l[11] /\ buf[s + 13 - 1] = l[13]
        /\ buf[s + 15 - 1] = l[15] /\ buf[s + (16 + m.name) - 1] = l[16 + m.name]
    BY <1>3, <2>1
  <2> QED
    BY <1>2, <2>2, <2>3
<1>12. /\ s + 8 \in Cells /\ s + 10 \in Cells /\ s + 12 \in Cells /\ s + 14 \in Cells /\ x \in Cells
  BY <1>1 DEF Cells
<1>13. \A k \in Cells : k \in Nat
  BY SizeIsNat DEF Cells
<1>14. PICK a \in Nat : a = NextField(s + 5) /\ a <= s + 8
  <2>1. s + 5 + 1 \in Nat /\ s + 5 + 1 <= s + 8
    OBVIOUS
  <2>2. NextField(s + 5) = SkipTo(s + 5 + 1, buf[s + 8])
    BY <1>11 DEF NextField
  <2>3. NextField(s + 5) \in Cells /\ NextField(s + 5) <= s + 8
    BY <1>12, <2>1, <2>2, SkippedTo
  <2> QED
    BY <1>13, <2>3
<1>15. PICK b \in Nat : b = NextField(a) /\ b <= s + 10
  <2>1. a + 1 \in Nat /\ a + 1 <= s + 10
    BY <1>14
  <2>2. NextField(a) = SkipTo(a + 1, buf[s + 10])
    BY <1>11 DEF NextField
  <2>3. NextField(a) \in Cells /\ NextField(a) <= s + 10
    BY <1>12, <2>1, <2>2, SkippedTo
  <2> QED
    BY <1>13, <2>3
<1>16. PICK c \in Nat : c = NextField(b) /\ c <= s + 12
  <2>1. b + 1 \in Nat /\ b + 1 <= s + 12
    BY <1>15
  <2>2. NextField(b) = SkipTo(b + 1, buf[s + 12])
    BY <1>11 DEF NextField
  <2>3. NextField(b) \in Cells /\ NextField(b) <= s + 12
    BY <1>12, <2>1, <2>2, SkippedTo
  <2> QED
    BY <1>13, <2>3
<1>17. PICK d \in Nat : d = NextField(c) /\ d <= s + 14
  <2>1. c + 1 \in Nat /\ c + 1 <= s + 14
    BY <1>16
  <2>2. NextField(c) = SkipTo(c + 1, buf[s + 14])
    BY <1>11 DEF NextField
  <2>3. NextField(c) \in Cells /\ NextField(c) <= s + 14
    BY <1>12, <2>1, <2>2, SkippedTo
  <2> QED
    BY <1>13, <2>3
<1>18. NameEnd(x) \in Cells
  <2>1. d <= x
    BY <1>1, <1>17
  <2>2. SkipTo(d, Newline) \in Cells
    BY <1>11, <1>12, <2>1, SkippedTo
  <2>3. NameEnd(x) = SkipTo(d, Newline)
    BY <1>9, <1>14, <1>15, <1>16, <1>17 DEF NameEnd
  <2> QED
    BY <2>2, <2>3
<1> QED
  BY <1>10, <1>18

-------------------------------------------------------------------------------
(* Types *)

\* A text from which the beginning is taken.
LEMMA Shortened ==
  ASSUME NEW u \in Seq(Int), NEW n \in 0 .. Len(u), NEW v, v = SubSeq(u, n + 1, Len(u))
  PROVE  /\ v \in Seq(Int) /\ Len(v) = Len(u) - n
         /\ \A k \in 1 .. Len(u) - n : v[k] = u[n + k]
<1>1. Len(u) \in Nat /\ n \in Nat /\ n <= Len(u)
  OBVIOUS
<1>2. v = [k \in 1 .. Len(u) - n |-> u[n + k]]
  BY <1>1
<1>3. \A k \in 1 .. Len(u) - n : u[n + k] \in Int
  <2>1. \A k \in 1 .. Len(u) - n : n + k \in 1 .. Len(u)
    BY <1>1
  <2> QED
    BY <2>1
<1>4. PICK d \in Nat : d = Len(u) - n
  BY <1>1
<1>5. v = [k \in 1 .. d |-> u[n + k]] /\ \A k \in 1 .. d : u[n + k] \in Int
  BY <1>2, <1>3, <1>4
<1>6. v \in [1 .. d -> Int]
  BY <1>5
<1>7. v \in Seq(Int) /\ Len(v) = d /\ \A k \in 1 .. d : v[k] = u[n + k]
  BY <1>5, <1>6
<1> QED
  BY <1>4, <1>7

\* The beginning that is taken.
LEMMA Begun ==
  ASSUME NEW u \in Seq(Int), NEW n \in 0 .. Len(u), NEW v, v = SubSeq(u, 1, n)
  PROVE  v \in Seq(Int) /\ Len(v) = n /\ \A k \in 1 .. n : v[k] = u[k]
<1>1. n \in Nat /\ \A k \in 1 .. n : u[k] \in Int
  OBVIOUS
<1>2. v = [k \in 1 .. n |-> u[k]]
  BY <1>1
<1>3. v \in [1 .. n -> Int]
  BY <1>1, <1>2
<1> QED
  BY <1>1, <1>2, <1>3

\* Every cell of a buffer that is overwritten holds a number.
LEMMA OverTypes ==
  ASSUME NEW b \in [Cells -> Int], NEW s \in Seq(Int)
  PROVE  Over(b, s) \in [Cells -> Int]
<1>1. \A k \in Cells : k < Len(s) => s[k + 1] \in Int
  <2> SUFFICES ASSUME NEW k \in Cells, k < Len(s) PROVE s[k + 1] \in Int
    OBVIOUS
  <2>1. k + 1 \in 1 .. Len(s)
    BY SizeIsNat DEF Cells
  <2> QED
    BY <2>1
<1> QED
  BY <1>1 DEF Over

\* Types, whatever the report reads and whenever the other process ends.
THEOREM ReportTypeOK == Spec => []TypeOK
<1>1. Init => TypeOK
  <2> SUFFICES ASSUME Init PROVE TypeOK
    OBVIOUS
  <2>1. <<>> \in Seq(Int) /\ 1 \in DOMAIN Plan
    BY DEF Plan
  <2>2. 0 \in 0 .. BUF_SIZE
    BY SizeIsNat
  <2> QED
    BY <2>1, <2>2 DEF Init, TypeOK, NUL
<1>2. TypeOK /\ [Next]_vars => TypeOK'
  <2> SUFFICES ASSUME TypeOK, [Next]_vars
               PROVE  TypeOK'
    OBVIOUS
  <2> USE SizeIsNat
  <2> USE DEF pageVars
  <2>0. /\ text \in Seq(Int) /\ rest \in Seq(Int) /\ out \in Seq(Int) /\ <<>> \in Seq(Int)
        /\ buf \in [Cells -> Int] /\ length \in 0 .. BUF_SIZE /\ i \in 0 .. BUF_SIZE
        /\ 0 \in 0 .. BUF_SIZE /\ reported \subseteq Int /\ {} \subseteq Int
    BY DEF TypeOK
  <2>1. CASE Start
    BY <2>1 DEF Start, Finish, TypeOK
  <2>2. CASE OpenSection
    <3>1. text' \in Texts \cup {<<>>, text} => text' \in Seq(Int)
      BY <2>0, TextsAreNumbered
    <3>2. [k \in Cells |-> NUL] \in [Cells -> Int]
      BY DEF NUL
    <3> QED
      BY <2>0, <2>2, <3>1, <3>2 DEF OpenSection, Opened, Finish, TypeOK
  <2>3. CASE OpenPagemap
    <3>1. CASE /\ maps' \in MapLists /\ text' = MapsText(maps')
               /\ buf' \in {[k \in Cells |-> c] : c \in {NUL, Junk}}
               /\ Opened
      <4>1. text' \in Seq(Int)
        <5>1. PICK list \in Seq(Mappings) : list = maps'
          BY <3>1, ReportAssumption
        <5>2. PICK t : t = TextUpTo(list)
          OBVIOUS
        <5>3. t \in [0 .. Len(list) -> Seq(Int)] /\ Len(list) \in 0 .. Len(list)
          <6>1. Len(list) \in Nat
            BY <5>1
          <6>2. t \in [0 .. Len(list) -> Seq(Int)]
            BY <5>2, PrefixesOfMaps
          <6> QED
            BY <6>1, <6>2
        <5> QED
          BY <3>1, <5>1, <5>2, <5>3 DEF MapsText
      <4>2. buf' \in [Cells -> Int]
        BY <3>1 DEF NUL, Junk
      <4> QED
        BY <2>0, <3>1, <4>1, <4>2 DEF Opened, Finish, TypeOK
    <3>2. CASE Finish("failed") /\ UNCHANGED <<section, alive, text, rest, buf, length, i, out, pageVars>>
      BY <3>2 DEF Finish, TypeOK
    <3> QED
      BY <2>3, <3>1, <3>2 DEF OpenPagemap
  <2>4. CASE NextSection
    <3>1. Len(Plan) \in Nat /\ DOMAIN Plan = 1 .. Len(Plan)
      BY DEF Plan
    <3> QED
      BY <2>4, <3>1 DEF NextSection, Finish, TypeOK
  <2>5. CASE CopyChunk
    <3> DEFINE n == IF Len(rest) < BUF_SIZE THEN Len(rest) ELSE BUF_SIZE
               c == [k \in 1 .. n |-> Shown(rest[k])]
    <3>1. n \in 0 .. Len(rest) /\ n \in Nat
      BY <2>0
    <3>2. buf' = Over(buf, c) /\ rest' = SubSeq(rest, n + 1, Len(rest))
      BY <2>5 DEF CopyChunk
    <3>3. PICK s \in Strings(buf') : out' = out \o s
      BY <2>5 DEF CopyChunk
    <3> HIDE DEF n
    <3>4. c \in Seq(Int)
      <4>1. \A k \in 1 .. n : Shown(rest[k]) \in Int
        BY <2>0, <3>1 DEF Shown
      <4>2. c \in [1 .. n -> Int]
        BY <4>1
      <4> QED
        BY <3>1, <4>2
    <3> HIDE DEF c
    <3>5. buf' \in [Cells -> Int]
      BY <2>0, <3>2, <3>4, OverTypes
    <3>6. s \in Seq(Int)
      <4>1. 0 \in 0 .. BUF_SIZE /\ \A k \in Cells : k < 0 => buf'[k] > 0
        BY DEF Cells
      <4> QED
        BY <3>3, <3>5, <4>1, StringOfBuffer
    <3>7. rest' \in Seq(Int) /\ out' \in Seq(Int)
      BY <2>0, <3>1, <3>2, <3>3, <3>6, Shortened, Joined
    <3> QED
      BY <2>0, <2>5, <3>5, <3>7 DEF CopyChunk, TypeOK
  <2>6. CASE ProcessEnds \/ EndOfText
    BY <2>6 DEF ProcessEnds, EndOfText, Finish, TypeOK
  <2>7. CASE FolderNames \/ FolderLinks \/ Fields \/ Link
    BY <2>7 DEF FolderNames, FolderLinks, Entries, Fields, Link, Finish, TypeOK
  <2>8. CASE ReadMaps
    <3>1. length' \in 0 .. BUF_SIZE /\ length' \in 0 .. Len(rest) /\ Len(rest) \in Nat
      BY <2>0, <2>8 DEF ReadMaps
    <3>2. PICK s : s = SubSeq(rest, 1, length') /\ s \in Seq(Int)
      BY <2>0, <3>1, Begun
    <3>3. buf' \in [Cells -> Int]
      BY <2>0, <2>8, <3>2, OverTypes DEF ReadMaps
    <3>4. rest' \in Seq(Int)
      BY <2>0, <2>8, <3>1, Shortened DEF ReadMaps
    <3> QED
      BY <2>0, <2>8, <3>1, <3>3, <3>4 DEF ReadMaps, Finish, TypeOK
  <2>9. CASE ScanLine
    <3>1. PICK x : /\ x = SkipTo(IF i = 0 THEN 1 ELSE i, Newline) /\ x < length
                   /\ NameEnd(x) \in Cells /\ AskPages(x)
                   /\ buf' = Restored(NameEnd(x)) /\ i' = x + 1
      BY <2>9 DEF ScanLine
    <3>2. x = BUF_SIZE \/ x \in Cells
      BY <3>1, Skipped
    <3>3. x \in Nat /\ i' \in 0 .. BUF_SIZE
      BY <2>0, <3>1, <3>2 DEF Cells
    <3>4. reported' \subseteq Int /\ alive' \in BOOLEAN
      <4>1. PagesOf(x) \subseteq Int
        BY <2>0, <3>3, PagesAreNumbers
      <4>2. alive \in BOOLEAN
        BY DEF TypeOK
      <4> QED
        BY <2>0, <3>1, <4>1, <4>2 DEF AskPages
    <3>5. buf' = buf
      BY <2>0, <3>1, NothingToRestore
    <3> QED
      BY <2>0, <2>9, <3>3, <3>4, <3>5 DEF ScanLine, TypeOK
  <2>12. CASE ScanOver
    <3>1. PICK x : x = SkipTo(IF i = 0 THEN 1 ELSE i, Newline) /\ x < length /\ i' = x + 1
      BY <2>12 DEF ScanOver
    <3>2. x = BUF_SIZE \/ x \in Cells
      BY <3>1, Skipped
    <3>3. i' \in 0 .. BUF_SIZE
      BY <2>0, <3>1, <3>2 DEF Cells
    <3> QED
      BY <2>0, <2>12, <3>3 DEF ScanOver, Finish, TypeOK
  <2>10. CASE EndOfBuffer
    BY <2>10 DEF EndOfBuffer, Finish, TypeOK
  <2>11. CASE UNCHANGED vars
    BY <2>11 DEF vars, TypeOK
  <2> QED
    BY <2>1, <2>2, <2>3, <2>4, <2>5, <2>6, <2>7, <2>8, <2>9, <2>10, <2>11, <2>12 DEF Next, Ended
<1> QED
  BY <1>1, <1>2, PTL DEF Spec

-------------------------------------------------------------------------------
(* The mappings *)

\* Of the text up to a place all lines that are in one read have been reported, if
\* the process is there.
Reports(upto) ==
  alive => \A n \in DOMAIN maps :
    InOneRead(n) /\ LineEnd(n) <= upto => Pages(maps[n]) \ silent \subseteq reported

\* Where the buffer begins in the text.
From == Taken - length

\* The buffer holds a piece of the text that begins at a multiple of its size, and the
\* lines in it up to the scanner's place have been reported.
BufferInv ==
  /\ \E c \in Nat : From = c * BUF_SIZE
  /\ length = BUF_SIZE \/ rest = <<>>
  /\ \A k \in 0 .. length - 1 : buf[k] = text[From + k + 1]
  /\ i <= length
  /\ Reports(From + i)

\* Between two reads so have all that were read.
ReadInv ==
  /\ rest = <<>> \/ \E c \in Nat : Taken = c * BUF_SIZE
  /\ Reports(Taken)

\* maps is read piece by piece, each scanned to its end, or up to a line that lies
\* across two reads.
MapsInv ==
  /\ OverrunsNeedCutLines
  /\ phase \in {"read", "scan", "end"} /\ Kind = "pagemap" =>
       /\ maps \in MapLists /\ text = MapsText(maps)
       /\ RestInv
       /\ phase = "scan" => BufferInv
       /\ phase # "scan" => ReadInv
       /\ phase = "end" /\ alive => rest = <<>>

\* The lines of the mappings, one behind the other.
LEMMA LinesOfText ==
  ASSUME maps \in MapLists, text = MapsText(maps)
  PROVE  /\ text \in Seq(Int) /\ LineEnd(0) = 0
         /\ \A n \in DOMAIN maps :
              /\ maps[n] \in Mappings /\ n \in Nat /\ n >= 1
              /\ LineEnd(n - 1) \in Nat
              /\ LineEnd(n) = LineEnd(n - 1) + 16 + maps[n].name
              /\ LineEnd(n) <= Len(text)
              /\ \A k \in 1 .. 16 + maps[n].name : text[LineEnd(n - 1) + k] = MapsLine(maps[n])[k]
              /\ text[LineEnd(n)] = Newline
              /\ n = 1 \/ n - 1 \in DOMAIN maps
<1>1. PICK list \in Seq(Mappings) : list = maps
  BY ReportAssumption
<1>2. PICK t : t = TextUpTo(list)
  OBVIOUS
<1>3. PICK N \in Nat : N = Len(list) /\ DOMAIN maps = 1 .. N
  BY <1>1
<1>4. text = t[N] /\ \A n : LineEnd(n) = Len(t[n])
  BY <1>1, <1>2, <1>3 DEF MapsText, LineEnd
<1>5. t[N] \in Seq(Int)
  <2>1. t \in [0 .. Len(list) -> Seq(Int)]
    BY <1>2, PrefixesOfMaps
  <2>2. N \in 0 .. Len(list)
    BY <1>3
  <2> QED
    BY <2>1, <2>2
<1>6. /\ \A n \in 0 .. N : Len(t[n]) \in Nat /\ Len(t[n]) <= Len(t[N])
      /\ Len(t[0]) = 0
      /\ \A n \in 1 .. N :
           /\ Len(t[n]) = Len(t[n - 1]) + 16 + list[n].name
           /\ \A k \in 1 .. 16 + list[n].name :
                t[N][Len(t[n - 1]) + k] = MapsLine(list[n])[k]
  <2>1. /\ \A n \in 0 .. Len(list) : Len(t[n]) \in Nat /\ Len(t[n]) <= Len(t[Len(list)])
        /\ Len(t[0]) = 0
        /\ \A n \in 1 .. Len(list) :
             /\ Len(t[n]) = Len(t[n - 1]) + 16 + list[n].name
             /\ \A k \in 1 .. 16 + list[n].name :
                  t[Len(list)][Len(t[n - 1]) + k] = MapsLine(list[n])[k]
    BY <1>2, PlacesOfLines, Zenon
  <2>2. Len(list) = N
    BY <1>3
  <2> QED
    BY <2>1, <2>2, Zenon
<1>7. ASSUME NEW n \in 1 .. N
      PROVE  /\ maps[n] \in Mappings /\ n \in Nat /\ n >= 1
             /\ LineEnd(n - 1) \in Nat
             /\ LineEnd(n) = LineEnd(n - 1) + 16 + maps[n].name
             /\ LineEnd(n) <= Len(text)
             /\ \A k \in 1 .. 16 + maps[n].name : text[LineEnd(n - 1) + k] = MapsLine(maps[n])[k]
             /\ text[LineEnd(n)] = Newline
             /\ n = 1 \/ n - 1 \in 1 .. N
  <2>1. n \in 0 .. N /\ n - 1 \in 0 .. N /\ n \in Nat /\ n >= 1 /\ (n = 1 \/ n - 1 \in 1 .. N)
    OBVIOUS
  <2>2. maps[n] = list[n] /\ maps[n] \in Mappings
    BY <1>1, <1>3
  <2>3. /\ LineEnd(n - 1) \in Nat
        /\ LineEnd(n) = LineEnd(n - 1) + 16 + maps[n].name
        /\ LineEnd(n) <= Len(text)
        /\ \A k \in 1 .. 16 + maps[n].name : text[LineEnd(n - 1) + k] = MapsLine(maps[n])[k]
    BY <1>4, <1>6, <2>1, <2>2
  <2>4. text[LineEnd(n)] = Newline
    <3>1. MapsLine(maps[n])[16 + maps[n].name] = Newline
      BY <2>2, LineOfMaps
    <3>2. maps[n].name \in Nat
      BY <2>2 DEF Mappings
    <3>3. 16 + maps[n].name \in 1 .. 16 + maps[n].name
      BY <3>2
    <3>4. LineEnd(n - 1) + (16 + maps[n].name) = LineEnd(n)
      <4>1. LineEnd(n - 1) \in Nat
        BY <2>3
      <4>2. LineEnd(n) = LineEnd(n - 1) + 16 + maps[n].name
        BY <2>3
      <4>3. \A a, b \in Nat : a + (16 + b) = a + 16 + b
        OBVIOUS
      <4> QED
        BY <3>2, <4>1, <4>2, <4>3
    <3>5. text[LineEnd(n - 1) + (16 + maps[n].name)] = MapsLine(maps[n])[16 + maps[n].name]
      BY <2>3, <3>3
    <3> QED
      BY <3>1, <3>4, <3>5
  <2> QED
    BY <2>1, <2>2, <2>3, <2>4
<1>8. text \in Seq(Int) /\ LineEnd(0) = 0
  BY <1>4, <1>5, <1>6
<1>9. \A n \in DOMAIN maps : n \in 1 .. N
  BY <1>3
<1> QED
  BY <1>3, <1>7, <1>8, <1>9

\* Which read a place is in.
LEMMA Block ==
  ASSUME NEW a \in Nat, NEW b \in Nat \ {0}, NEW c \in Nat
  PROVE  (a \div b = c) <=> (c * b <= a /\ a < c * b + b)
<1> DEFINE q == a \div b
           r == a % b
<1>1. q \in Int /\ r \in 0 .. b - 1 /\ a = b * q + r
  OBVIOUS
<1> HIDE DEF q, r
<1>2. b * q = q * b /\ c * b \in Int /\ q * b \in Int
  BY <1>1
<1>3. ASSUME q = c PROVE c * b <= a /\ a < c * b + b
  BY <1>1, <1>2, <1>3
<1>4. ASSUME c * b <= a, a < c * b + b PROVE q = c
  <2>1. ASSUME q >= c + 1 PROVE FALSE
    <3>1. q * b >= (c + 1) * b /\ (c + 1) * b = c * b + b
      BY <1>1, <2>1
    <3> QED
      BY <1>1, <1>2, <1>4, <3>1
  <2>2. ASSUME q + 1 <= c PROVE FALSE
    <3>1. (q + 1) * b <= c * b /\ (q + 1) * b = q * b + b
      BY <1>1, <2>2
    <3> QED
      BY <1>1, <1>2, <1>4, <3>1
  <2> QED
    BY <1>1, <2>1, <2>2
<1> QED
  BY <1>3, <1>4 DEF q

\* A line that is in one read, and the scanner has not come to its end.
LEMMA LineInBuffer ==
  ASSUME TypeOK, maps \in MapLists, text = MapsText(maps), RestInv, BufferInv,
         NEW n \in DOMAIN maps, InOneRead(n),
         From + i < LineEnd(n), LineEnd(n) <= From + length,
         NEW s, s = LineEnd(n - 1) - From
  PROVE  /\ s \in Nat /\ maps[n] \in Mappings /\ s + 15 + maps[n].name < length
         /\ s + 15 + maps[n].name >= i
         /\ LineEnd(n) = From + s + 16 + maps[n].name
         /\ \A k \in 1 .. 16 + maps[n].name : buf[s + k - 1] = MapsLine(maps[n])[k]
         /\ s = 0 \/ buf[s - 1] = Newline
         /\ buf[s + 15 + maps[n].name] = Newline
<1>1. /\ BUF_SIZE \in Nat \ {0} /\ length \in Nat /\ length <= BUF_SIZE /\ i \in Nat /\ i <= length
  BY SizeIsNat DEF TypeOK, BufferInv
<1>2. PICK c \in Nat : From = c * BUF_SIZE
  BY DEF BufferInv
<1>3. From \in Nat
  BY <1>1, <1>2
<1>4. PICK b \in Nat : b = maps[n].name
  <2>1. maps[n] \in Mappings
    BY LinesOfText
  <2> QED
    BY <2>1 DEF Mappings
<1>5. PICK p \in Nat, e \in Nat : p = LineEnd(n - 1) /\ e = LineEnd(n) /\ e = p + 16 + b
  <2>1. PICK p \in Nat : p = LineEnd(n - 1)
    BY LinesOfText
  <2>2. LineEnd(n) = p + 16 + b
    BY <1>4, <2>1, LinesOfText
  <2> QED
    BY <2>1, <2>2
<1>6. From + i < e /\ e <= From + length
  BY <1>5
<1>7. (e - 1) \div BUF_SIZE = c
  <2>1. e - 1 \in Nat /\ c * BUF_SIZE <= e - 1 /\ e - 1 < c * BUF_SIZE + BUF_SIZE
    BY <1>1, <1>2, <1>3, <1>5, <1>6
  <2> QED
    BY <1>1, <2>1, Block
<1>8. From <= p
  <2>1. p \div BUF_SIZE = c
    BY <1>5, <1>7 DEF InOneRead
  <2> QED
    BY <1>1, <1>2, <2>1, Block
<1>9. /\ s \in Nat /\ s = p - From /\ s + 15 + b < length /\ s + 15 + b >= i /\ e = From + s + 16 + b
  BY <1>1, <1>3, <1>5, <1>6, <1>8
<1>10. \A k \in 0 .. length - 1 : buf[k] = text[From + k + 1]
  BY DEF BufferInv
<1>11. ASSUME NEW k \in 1 .. 16 + b PROVE buf[s + k - 1] = MapsLine(maps[n])[k]
  <2>1. s + k - 1 \in 0 .. length - 1 /\ From + (s + k - 1) + 1 = p + k
    BY <1>1, <1>3, <1>5, <1>9
  <2>2. text[p + k] = MapsLine(maps[n])[k]
    BY <1>4, <1>5, LinesOfText
  <2> QED
    BY <1>10, <2>1, <2>2
<1>12. ASSUME s # 0 PROVE buf[s - 1] = Newline
  <2>1. p # 0
    BY <1>3, <1>8, <1>9, <1>12
  <2>2. n # 1
    BY <1>5, <2>1, LinesOfText
  <2>3. n - 1 \in DOMAIN maps
    BY <2>2, LinesOfText
  <2>4. text[p] = Newline
    BY <1>5, <2>3, LinesOfText
  <2>5. s - 1 \in 0 .. length - 1 /\ From + (s - 1) + 1 = p
    BY <1>1, <1>3, <1>5, <1>9, <1>12
  <2> QED
    BY <1>10, <2>4, <2>5
<1>13. buf[s + 15 + b] = Newline
  <2>1. s + 15 + b \in 0 .. length - 1 /\ From + (s + 15 + b) + 1 = e
    BY <1>1, <1>3, <1>5, <1>9
  <2>2. text[e] = Newline
    BY <1>5, LinesOfText
  <2> QED
    BY <1>10, <2>1, <2>2
<1>14. maps[n] \in Mappings
  BY LinesOfText
<1> QED
  BY <1>4, <1>5, <1>9, <1>11, <1>12, <1>13, <1>14

\* A line that the scanner comes to the end of is parsed, if it was in one read.
LEMMA LineIsFound ==
  ASSUME TypeOK, maps \in MapLists, text = MapsText(maps), RestInv, BufferInv,
         NEW x, x = SkipTo(IF i = 0 THEN 1 ELSE i, Newline), x < length,
         NEW n \in DOMAIN maps, InOneRead(n), From + i < LineEnd(n), LineEnd(n) <= From + (x + 1)
  PROVE  LineEnd(n) = From + x + 1 /\ Names(x, maps[n]) /\ NameEnd(x) \in Cells
<1>1. /\ BUF_SIZE \in Nat \ {0} /\ length \in Nat /\ length <= BUF_SIZE /\ i \in Nat /\ i <= length
      /\ buf \in [Cells -> Int]
  BY SizeIsNat DEF TypeOK, BufferInv
<1>2. x \in Nat /\ x < BUF_SIZE /\ x >= i
  <2>1. x = BUF_SIZE \/ (x \in Cells /\ x >= IF i = 0 THEN 1 ELSE i)
    BY Skipped
  <2> QED
    BY <1>1, <2>1 DEF Cells
<1>3. From \in Nat
  <2>1. PICK c \in Nat : From = c * BUF_SIZE
    BY DEF BufferInv
  <2> QED
    BY <1>1, <2>1
<1>4. LineEnd(n) <= From + length
  <2>1. LineEnd(n) \in Int
    <3>1. LineEnd(n - 1) \in Nat /\ maps[n] \in Mappings /\ LineEnd(n) = LineEnd(n - 1) + 16 + maps[n].name
      BY LinesOfText
    <3>2. maps[n].name \in Nat
      BY <3>1 DEF Mappings
    <3> QED
      BY <3>1, <3>2
  <2> QED
    BY <1>1, <1>2, <1>3, <2>1
<1>5. PICK s : s = LineEnd(n - 1) - From
  OBVIOUS
<1>6. /\ s \in Nat /\ maps[n] \in Mappings /\ s + 15 + maps[n].name < length
      /\ s + 15 + maps[n].name >= i
      /\ LineEnd(n) = From + s + 16 + maps[n].name
      /\ \A k \in 1 .. 16 + maps[n].name : buf[s + k - 1] = MapsLine(maps[n])[k]
      /\ s = 0 \/ buf[s - 1] = Newline
      /\ buf[s + 15 + maps[n].name] = Newline
  BY <1>4, <1>5, LineInBuffer
<1>7. PICK m \in Mappings : m = maps[n] /\ m.name \in Nat
  BY <1>6 DEF Mappings
<1>8. PICK y \in Nat : y = s + 15 + m.name
  BY <1>6, <1>7
<1>9. y \in Cells /\ y >= 1 /\ y >= i /\ buf[y] = Newline
  BY <1>1, <1>6, <1>7, <1>8 DEF Cells
<1>10. x <= y
  <2>1. y >= IF i = 0 THEN 1 ELSE i
    BY <1>9
  <2>2. BUF_SIZE \notin Cells
    BY <1>1 DEF Cells
  <2> QED
    BY <1>2, <1>9, <2>1, <2>2, Skipped
<1>11. y <= x
  <2>1. From + s + 16 + m.name <= From + (x + 1)
    BY <1>6, <1>7
  <2> QED
    BY <1>2, <1>3, <1>6, <1>7, <1>8, <2>1
<1>12. x = y
  BY <1>2, <1>10, <1>11
<1>13. LineEnd(n) = From + x + 1
  BY <1>3, <1>6, <1>7, <1>8, <1>12
<1>14. /\ s + 15 + m.name < BUF_SIZE /\ x = s + 15 + m.name
       /\ \A k \in 1 .. 16 + m.name : buf[s + k - 1] = MapsLine(m)[k]
       /\ s = 0 \/ buf[s - 1] = Newline
  BY <1>2, <1>6, <1>7, <1>8, <1>12
<1>15. Names(x, m) /\ NameEnd(x) \in Cells
  BY <1>1, <1>6, <1>14, LineIsParsed
<1> QED
  BY <1>7, <1>13, <1>15

\* It is reported then, if the process is there.
LEMMA LineIsScanned ==
  ASSUME TypeOK, maps \in MapLists, text = MapsText(maps), RestInv, BufferInv, ScanLine
  PROVE  BufferInv' /\ RestInv'
<1> USE DEF pageVars
<1>1. PICK x : /\ x = SkipTo(IF i = 0 THEN 1 ELSE i, Newline) /\ x < length
               /\ NameEnd(x) \in Cells /\ AskPages(x)
               /\ buf' = Restored(NameEnd(x)) /\ i' = x + 1
               /\ UNCHANGED <<phase, section, text, rest, length, maps, silent>>
  BY DEF ScanLine
<1>2. /\ BUF_SIZE \in Nat \ {0} /\ length \in Nat /\ length <= BUF_SIZE /\ i \in Nat /\ i <= length
      /\ buf \in [Cells -> Int] /\ alive \in BOOLEAN
  BY SizeIsNat DEF TypeOK, BufferInv
<1>3. x \in Nat /\ x < BUF_SIZE /\ x >= i
  <2>1. x = BUF_SIZE \/ (x \in Cells /\ x >= IF i = 0 THEN 1 ELSE i)
    BY <1>1, Skipped
  <2> QED
    BY <1>1, <1>2, <2>1 DEF Cells
<1>4. buf' = buf
  BY <1>1, <1>2, NothingToRestore
<1>5. alive' => alive /\ reported' = reported \cup PagesOf(x)
  BY <1>1 DEF AskPages
<1>6. From' = From /\ From \in Nat
  <2>1. From' = From
    BY <1>1 DEF From, Taken
  <2>2. PICK c \in Nat : From = c * BUF_SIZE
    BY DEF BufferInv
  <2>3. From \in Nat
    BY <1>2, <2>2
  <2> QED
    BY <2>1, <2>3
<1>7. ASSUME alive', NEW n \in DOMAIN maps, InOneRead(n), LineEnd(n) <= From + (x + 1)
      PROVE  Pages(maps[n]) \ silent \subseteq reported'
  <2>1. CASE LineEnd(n) <= From + i
    <3>1. Pages(maps[n]) \ silent \subseteq reported
      BY <1>5, <1>7, <2>1 DEF BufferInv, Reports
    <3> QED
      BY <1>5, <1>7, <3>1
  <2>2. CASE From + i < LineEnd(n)
    <3>1. Names(x, maps[n])
      BY <1>1, <1>7, <2>2, LineIsFound
    <3> QED
      BY <1>5, <1>7, <3>1 DEF Names
  <2> QED
    <3>1. LineEnd(n) \in Int
      <4>1. LineEnd(n - 1) \in Nat /\ maps[n] \in Mappings /\ LineEnd(n) = LineEnd(n - 1) + 16 + maps[n].name
        BY LinesOfText
      <4>2. maps[n].name \in Nat
        BY <4>1 DEF Mappings
      <4> QED
        BY <4>1, <4>2
    <3> QED
      BY <1>2, <1>6, <2>1, <2>2, <3>1
<1>8. Reports(From + i)'
  <2>1. \A n : LineEnd(n)' = LineEnd(n) /\ InOneRead(n)' = InOneRead(n) /\ Pages(maps[n])' = Pages(maps[n])
    BY <1>1 DEF LineEnd, InOneRead, Pages
  <2> QED
    BY <1>1, <1>6, <1>7, <2>1 DEF Reports
<1>9. i' <= length'
  BY <1>1, <1>2, <1>3
<1>10. RestInv'
  BY <1>1 DEF RestInv, Taken
<1>11. \A k \in 0 .. length' - 1 : buf'[k] = text'[From' + k + 1]
  BY <1>1, <1>4, <1>6 DEF BufferInv
<1> QED
  BY <1>1, <1>6, <1>8, <1>9, <1>10, <1>11 DEF BufferInv

\* The scanner leaves the buffer at the end of a line that is not in one read.
LEMMA OverrunIsOfCutLine ==
  ASSUME TypeOK, maps \in MapLists, text = MapsText(maps), RestInv, BufferInv, ScanOver
  PROVE  OverrunsNeedCutLines'
<1> USE DEF pageVars
<1>1. PICK x : /\ x = SkipTo(IF i = 0 THEN 1 ELSE i, Newline) /\ x < length
               /\ NameEnd(x) \notin Cells /\ i' = x + 1
               /\ UNCHANGED <<text, rest, length, maps>>
  BY DEF ScanOver
<1>2. length \in Nat /\ i \in Nat /\ length <= BUF_SIZE
  BY SizeIsNat DEF TypeOK
<1>3. x \in Nat /\ x >= i
  <2>1. x = BUF_SIZE \/ (x \in Cells /\ x >= IF i = 0 THEN 1 ELSE i)
    BY <1>1, Skipped
  <2> QED
    BY <1>1, <1>2, <2>1, SizeIsNat DEF Cells
<1>4. From \in Nat
  <2>1. PICK c \in Nat : From = c * BUF_SIZE
    BY DEF BufferInv
  <2> QED
    BY <2>1, SizeIsNat
<1>5. ASSUME NEW n \in DOMAIN maps, LineEnd(n) = From + (x + 1)
      PROVE  ~InOneRead(n)
  <2> SUFFICES ASSUME InOneRead(n) PROVE FALSE
    OBVIOUS
  <2>1. From + i < LineEnd(n) /\ LineEnd(n) <= From + (x + 1)
    BY <1>2, <1>3, <1>4, <1>5
  <2> QED
    BY <1>1, <2>1, LineIsFound
<1>6. \A n : LineEnd(n)' = LineEnd(n) /\ InOneRead(n)' = InOneRead(n)
  BY <1>1 DEF LineEnd, InOneRead
<1>7. (Len(text) - Len(rest) - length + i)' = From + (x + 1)
  BY <1>1 DEF From, Taken
<1> QED
  BY <1>1, <1>5, <1>6, <1>7 DEF OverrunsNeedCutLines

\* At the end of the buffer all lines in it that were in one read are reported.
LEMMA BufferIsScanned ==
  ASSUME TypeOK, maps \in MapLists, text = MapsText(maps), RestInv, BufferInv,
         SkipTo(IF i = 0 THEN 1 ELSE i, Newline) >= length
  PROVE  ReadInv
<1>1. /\ BUF_SIZE \in Nat \ {0} /\ length \in Nat /\ length <= BUF_SIZE /\ i \in Nat /\ i <= length
  BY SizeIsNat DEF TypeOK, BufferInv
<1>2. PICK c \in Nat : From = c * BUF_SIZE
  BY DEF BufferInv
<1>3. From \in Nat /\ Taken = From + length
  <2>1. From \in Nat
    BY <1>1, <1>2
  <2>2. Taken \in Int /\ From = Taken - length
    <3>1. Len(text) \in Nat /\ Len(rest) \in Nat
      BY LinesOfText DEF RestInv
    <3> QED
      BY <3>1 DEF Taken, From
  <2> QED
    BY <1>1, <2>1, <2>2
<1>4. rest = <<>> \/ \E d \in Nat : Taken = d * BUF_SIZE
  <2> SUFFICES ASSUME length = BUF_SIZE PROVE \E d \in Nat : Taken = d * BUF_SIZE
    BY DEF BufferInv
  <2>1. c + 1 \in Nat /\ (c + 1) * BUF_SIZE = c * BUF_SIZE + BUF_SIZE
    BY <1>1
  <2>2. Taken = (c + 1) * BUF_SIZE
    BY <1>2, <1>3, <2>1
  <2> QED
    BY <2>1, <2>2
<1>5. ASSUME alive, NEW n \in DOMAIN maps, InOneRead(n), LineEnd(n) <= Taken
      PROVE  Pages(maps[n]) \ silent \subseteq reported
  <2>1. LineEnd(n) \in Int
    <3>1. LineEnd(n - 1) \in Nat /\ maps[n] \in Mappings /\ LineEnd(n) = LineEnd(n - 1) + 16 + maps[n].name
      BY LinesOfText
    <3>2. maps[n].name \in Nat
      BY <3>1 DEF Mappings
    <3> QED
      BY <3>1, <3>2
  <2>2. CASE LineEnd(n) <= From + i
    BY <1>5, <2>2 DEF BufferInv, Reports
  <2>3. CASE From + i < LineEnd(n)
    <3>1. PICK s : s = LineEnd(n - 1) - From
      OBVIOUS
    <3>2. /\ s \in Nat /\ maps[n] \in Mappings /\ s + 15 + maps[n].name < length
          /\ s + 15 + maps[n].name >= i
          /\ buf[s + 15 + maps[n].name] = Newline
      BY <1>3, <1>5, <2>3, <3>1, LineInBuffer
    <3>3. PICK y \in Nat : y = s + 15 + maps[n].name
      BY <3>2 DEF Mappings
    <3>4. maps[n].name \in Nat
      BY <3>2 DEF Mappings
    <3>5. y \in Cells /\ y >= IF i = 0 THEN 1 ELSE i
      BY <1>1, <3>2, <3>3, <3>4 DEF Cells
    <3>6. PICK x : x = SkipTo(IF i = 0 THEN 1 ELSE i, Newline)
      OBVIOUS
    <3>7. x \in Cells /\ x <= y
      BY <3>2, <3>3, <3>5, <3>6, Skipped
    <3>8. x >= length
      BY <3>6
    <3> QED
      BY <1>1, <3>2, <3>3, <3>7, <3>8 DEF Cells
  <2> QED
    BY <1>1, <1>3, <2>1, <2>2, <2>3
<1> QED
  BY <1>4, <1>5 DEF ReadInv, Reports

\* A read puts the next piece of the text in the buffer.
LEMMA BufferIsRead ==
  ASSUME TypeOK, maps \in MapLists, text = MapsText(maps), RestInv, ReadInv, ReadMaps
  PROVE  BufferInv' /\ RestInv'
<1>1. /\ rest # <<>> /\ i' = 0 /\ UNCHANGED <<section, alive, text, out, maps, silent, reported>>
      /\ length' = IF Len(rest) < BUF_SIZE THEN Len(rest) ELSE BUF_SIZE
      /\ buf' = Over(buf, SubSeq(rest, 1, length'))
      /\ rest' = SubSeq(rest, length' + 1, Len(rest))
  BY DEF ReadMaps, pageVars
<1>2. /\ BUF_SIZE \in Nat \ {0} /\ text \in Seq(Int) /\ rest \in Seq(Int)
      /\ Len(text) \in Nat /\ Len(rest) \in Nat /\ Len(rest) <= Len(text)
  BY SizeIsNat DEF TypeOK, RestInv
<1>3. PICK n \in Nat, m \in Nat : /\ n = length' /\ m = Len(rest) /\ n <= m
                                   /\ n <= BUF_SIZE /\ (n = BUF_SIZE \/ n = m)
  BY <1>1, <1>2
<1>4. PICK r : r = rest' /\ r \in Seq(Int) /\ Len(r) = m - n /\ \A k \in 1 .. m - n : r[k] = rest[n + k]
  <2>1. n \in 0 .. Len(rest) /\ rest' = SubSeq(rest, n + 1, Len(rest))
    BY <1>1, <1>3
  <2>2. /\ rest' \in Seq(Int) /\ Len(rest') = Len(rest) - n
        /\ \A k \in 1 .. Len(rest) - n : rest'[k] = rest[n + k]
    BY <1>2, <2>1, Shortened
  <2> QED
    BY <1>3, <2>2
<1>5. PICK s : s = SubSeq(rest, 1, n) /\ s \in Seq(Int) /\ Len(s) = n /\ \A k \in 1 .. n : s[k] = rest[k]
  <2>1. n \in 0 .. Len(rest)
    BY <1>3
  <2>2. PICK s : s = SubSeq(rest, 1, n)
    OBVIOUS
  <2>3. s \in Seq(Int) /\ Len(s) = n /\ \A k \in 1 .. n : s[k] = rest[k]
    BY <1>2, <2>1, <2>2, Begun
  <2> QED
    BY <2>2, <2>3
<1>6. PICK t \in Nat : t = Taken /\ t + m = Len(text)
  BY <1>2, <1>3 DEF Taken
<1>7. Taken' = t + n /\ From' = t
  <2>1. Taken' = Len(text) - Len(r)
    BY <1>1, <1>4 DEF Taken
  <2>2. Taken' = (t + m) - (m - n)
    BY <1>4, <1>6, <2>1
  <2>3. Taken' = t + n
    BY <1>3, <1>6, <2>2
  <2>4. From' = Taken' - n
    BY <1>3 DEF From
  <2>5. t + n - n = t
    OBVIOUS
  <2> QED
    BY <2>3, <2>4, <2>5
<1>8. RestInv'
  <2>1. Len(r) <= Len(text)
    BY <1>2, <1>3, <1>4
  <2>2. ASSUME NEW k \in 1 .. Len(r) PROVE r[k] = text[t + n + k]
    <3>1. k \in 1 .. m - n /\ n + k \in 1 .. Len(rest) /\ t + (n + k) = t + n + k
      <4>1. k \in 1 .. m - n
        BY <1>4
      <4>2. n + k \in 1 .. m /\ t + (n + k) = t + n + k
        <5>1. n <= m
          BY <1>3
        <5> QED
          BY <4>1, <5>1
      <4> QED
        BY <1>3, <4>1, <4>2
    <3>2. r[k] = rest[n + k]
      BY <1>4, <3>1
    <3>3. rest[n + k] = text[t + (n + k)]
      BY <1>6, <3>1 DEF RestInv
    <3> QED
      BY <3>1, <3>2, <3>3
  <2> QED
    BY <1>1, <1>4, <1>7, <2>1, <2>2 DEF RestInv
<1>9. \E c \in Nat : From' = c * BUF_SIZE
  BY <1>1, <1>6, <1>7 DEF ReadInv
<1>10. length' = BUF_SIZE \/ rest' = <<>>
  <2>1. n = m => Len(r) = 0
    BY <1>3, <1>4
  <2>2. Len(r) = 0 => r = <<>>
    BY <1>4
  <2> QED
    BY <1>3, <1>4, <2>1, <2>2
<1>11. ASSUME NEW k \in 0 .. n - 1 PROVE buf'[k] = text[t + k + 1]
  <2>1. k \in Cells /\ k < n /\ k + 1 \in 1 .. n /\ k + 1 \in 1 .. Len(rest) /\ t + (k + 1) = t + k + 1
    <3>1. k \in Int /\ 0 <= k /\ k < n
      OBVIOUS
    <3>2. k + 1 \in 1 .. n /\ k + 1 \in 1 .. m /\ k <= BUF_SIZE - 1 /\ t + (k + 1) = t + k + 1
      BY <1>2, <1>3, <1>6, <3>1
    <3> QED
      BY <1>2, <1>3, <3>1, <3>2 DEF Cells
  <2>2. buf' = Over(buf, s)
    BY <1>1, <1>3, <1>5
  <2>3. buf'[k] = s[k + 1]
    BY <1>5, <2>1, <2>2 DEF Over
  <2>4. s[k + 1] = rest[k + 1]
    BY <1>5, <2>1
  <2>5. rest[k + 1] = text[t + (k + 1)]
    BY <1>6, <2>1 DEF RestInv
  <2> QED
    BY <2>1, <2>3, <2>4, <2>5
<1>12. Reports(From + i)'
  <2>1. \A z : LineEnd(z)' = LineEnd(z) /\ InOneRead(z)' = InOneRead(z)
    BY <1>1 DEF LineEnd, InOneRead
  <2>2. (From + i)' = t
    BY <1>1, <1>6, <1>7
  <2>3. \A z : Pages(maps[z])' = Pages(maps[z])
    BY <1>1 DEF Pages
  <2> QED
    BY <1>1, <1>6, <2>1, <2>2, <2>3 DEF Reports, ReadInv
<1>13. i' <= length'
  BY <1>1, <1>3
<1>14. \A k \in 0 .. length' - 1 : buf'[k] = text'[From' + k + 1]
  BY <1>1, <1>3, <1>7, <1>11
<1> QED
  BY <1>8, <1>9, <1>10, <1>12, <1>13, <1>14 DEF BufferInv

\* A section about the mappings begins with nothing to report.
LEMMA MapsBegin ==
  ASSUME maps' \in MapLists, text' = MapsText(maps'), rest' = text'
  PROVE  RestInv' /\ ReadInv'
<1> DEFINE t == TextUpTo(maps')
<1>0. PICK list \in Seq(Mappings) : list = maps'
  BY ReportAssumption
<1>1. text' \in Seq(Int) /\ Len(text') \in Nat
  <2>1. t \in [0 .. Len(list) -> Seq(Int)]
    BY <1>0, PrefixesOfMaps
  <2>2. Len(list) \in 0 .. Len(list)
    <3>1. Len(list) \in Nat
      OBVIOUS
    <3> QED
      BY <3>1
  <2>3. t[Len(list)] \in Seq(Int)
    BY <2>1, <2>2
  <2>4. text' = t[Len(list)]
    BY <1>0 DEF MapsText
  <2> QED
    BY <2>3, <2>4
<1>2. Taken' = 0
  BY <1>1 DEF Taken
<1>3. RestInv'
  BY <1>1, <1>2 DEF RestInv
<1>4. \A n \in DOMAIN maps' : ~(LineEnd(n)' <= 0)
  <2> SUFFICES ASSUME NEW n \in DOMAIN maps' PROVE ~(LineEnd(n)' <= 0)
    OBVIOUS
  <2> HIDE DEF t
  <2>1. n \in 1 .. Len(list)
    BY <1>0
  <2>2. LineEnd(n)' = Len(t[n])
    BY DEF LineEnd, t
  <2>3. Len(t[n]) = Len(t[n - 1]) + 16 + list[n].name
    BY <1>0, <2>1, PlacesOfLines DEF t
  <2>4. Len(t[n - 1]) \in Nat
    <3>1. n - 1 \in 0 .. Len(list)
      BY <1>0, <2>1
    <3> QED
      BY <1>0, <3>1, PlacesOfLines DEF t
  <2>5. list[n].name \in Nat
    <3>1. list[n] \in Mappings
      BY <2>1
    <3> QED
      BY <3>1 DEF Mappings
  <2> QED
    BY <2>2, <2>3, <2>4, <2>5
<1>5. 0 \in Nat /\ 0 = 0 * BUF_SIZE
  BY SizeIsNat
<1> QED
  BY <1>2, <1>3, <1>4, <1>5 DEF ReadInv, Reports

\* A piece of the text that is left as it is.
LEMMA ReadStays ==
  ASSUME ReadInv, RestInv, UNCHANGED <<text, rest, maps, silent, reported>>, alive' => alive
  PROVE  ReadInv' /\ RestInv'
<1>1. Taken' = Taken /\ RestInv'
  BY DEF Taken, RestInv
<1>2. \A n : LineEnd(n)' = LineEnd(n) /\ InOneRead(n)' = InOneRead(n) /\ Pages(maps[n])' = Pages(maps[n])
  BY DEF LineEnd, InOneRead, Pages
<1> QED
  BY <1>1, <1>2 DEF ReadInv, Reports

\* So is a buffer.
LEMMA BufferStays ==
  ASSUME BufferInv, UNCHANGED <<text, rest, buf, length, i, maps, silent, reported>>, alive' => alive
  PROVE  BufferInv'
<1>1. From' = From /\ (From + i)' = From + i
  BY DEF From, Taken
<1>2. \A n : LineEnd(n)' = LineEnd(n) /\ InOneRead(n)' = InOneRead(n) /\ Pages(maps[n])' = Pages(maps[n])
  BY DEF LineEnd, InOneRead, Pages
<1>3. Reports(From + i)'
  BY <1>1, <1>2 DEF BufferInv, Reports
<1> QED
  BY <1>1, <1>3 DEF BufferInv

\* Where the buffer is in the text and what has been reported of it, at any point of
\* the report.
THEOREM MapsInvariant == Spec => []MapsInv
<1> USE DEF pageVars
<1>1. Init => MapsInv
  BY DEF Init, MapsInv, OverrunsNeedCutLines
<1>2. TypeOK /\ ScanInv /\ MapsInv /\ [Next]_vars => OverrunsNeedCutLines'
  <2> SUFFICES ASSUME TypeOK, ScanInv, MapsInv, [Next]_vars, phase' = "overrun"
               PROVE  OverrunsNeedCutLines'
    BY DEF OverrunsNeedCutLines
  <2>1. CASE ScanOver
    <3>1. phase = "scan" /\ Kind = "pagemap"
      BY <2>1 DEF ScanOver, ScanInv
    <3>2. maps \in MapLists /\ text = MapsText(maps) /\ RestInv /\ BufferInv
      BY <3>1 DEF MapsInv
    <3> QED
      BY <2>1, <3>2, OverrunIsOfCutLine
  <2>2. CASE UNCHANGED <<phase, text, rest, length, i, maps>>
    <3>1. \A n : LineEnd(n)' = LineEnd(n) /\ InOneRead(n)' = InOneRead(n)
      BY <2>2 DEF LineEnd, InOneRead
    <3>2. OverrunsNeedCutLines
      BY DEF MapsInv
    <3> QED
      BY <2>2, <3>1, <3>2 DEF OverrunsNeedCutLines
  <2>3. ScanOver \/ UNCHANGED <<phase, text, rest, length, i, maps>>
    <3>1. CASE UNCHANGED vars
      BY <3>1 DEF vars
    <3>2. CASE ProcessEnds
      BY <3>2 DEF ProcessEnds
    <3>3. CASE Start \/ OpenSection \/ OpenPagemap \/ NextSection
      BY <3>3 DEF Start, OpenSection, OpenPagemap, Opened, NextSection, Finish
    <3>4. CASE CopyChunk \/ FolderNames \/ FolderLinks \/ Fields \/ Link \/ EndOfText
      BY <3>4 DEF CopyChunk, FolderNames, FolderLinks, Entries, Fields, Link, EndOfText, Finish
    <3>5. CASE ReadMaps \/ ScanLine \/ EndOfBuffer
      BY <3>5 DEF ReadMaps, ScanLine, EndOfBuffer, Finish
    <3> QED
      BY <3>1, <3>2, <3>3, <3>4, <3>5 DEF Next, Ended
  <2> QED
    BY <2>1, <2>2, <2>3
<1>3. TypeOK /\ ScanInv /\ MapsInv /\ [Next]_vars => MapsInv'
  <2> SUFFICES ASSUME TypeOK, ScanInv, MapsInv, [Next]_vars,
                      phase' \in {"read", "scan", "end"}, Kind' = "pagemap"
               PROVE  /\ maps' \in MapLists /\ text' = MapsText(maps')
                      /\ RestInv'
                      /\ phase' = "scan" => BufferInv'
                      /\ phase' # "scan" => ReadInv'
                      /\ phase' = "end" /\ alive' => rest' = <<>>
    BY <1>2 DEF MapsInv
  <2>1. CASE Start
    BY <2>1 DEF Start, Finish
  <2>2. CASE OpenSection
    BY <2>2 DEF OpenSection, Opened, Finish, Kind
  <2>3. CASE OpenPagemap
    <3>1. /\ maps' \in MapLists /\ text' = MapsText(maps') /\ rest' = text' /\ phase' = "read"
      BY <2>3 DEF OpenPagemap, Opened, Finish
    <3> QED
      BY <3>1, MapsBegin
  <2>4. CASE NextSection
    BY <2>4 DEF NextSection, Finish
  <2>5. CASE CopyChunk
    BY <2>5 DEF CopyChunk, Kind
  <2>6. CASE ProcessEnds \/ UNCHANGED vars
    <3>1. /\ phase' = phase /\ phase \in {"read", "scan", "end"} /\ Kind = "pagemap"
          /\ UNCHANGED <<text, rest, buf, length, i, maps, silent, reported>>
          /\ alive' => alive
      BY <2>6 DEF ProcessEnds, vars, Kind
    <3>2. /\ maps \in MapLists /\ text = MapsText(maps) /\ RestInv
          /\ phase = "scan" => BufferInv
          /\ phase # "scan" => ReadInv
          /\ phase = "end" /\ alive => rest = <<>>
      BY <3>1 DEF MapsInv
    <3>3. RestInv'
      BY <3>1, <3>2 DEF RestInv, Taken
    <3>4. phase' = "scan" => BufferInv'
      BY <3>1, <3>2, BufferStays
    <3>5. phase' # "scan" => ReadInv'
      BY <3>1, <3>2, ReadStays
    <3> QED
      BY <3>1, <3>2, <3>3, <3>4, <3>5
  <2>7. CASE FolderNames \/ FolderLinks \/ Fields \/ Link
    BY <2>7 DEF FolderNames, FolderLinks, Entries, Fields, Link, Kind
  <2>8. CASE EndOfText
    <3>1. /\ phase = "read" /\ phase' = "end" /\ Kind = "pagemap"
          /\ UNCHANGED <<text, rest, maps, silent, reported>> /\ alive' = alive
          /\ rest = <<>> \/ ~alive
      BY <2>8 DEF EndOfText, Finish, Readable, Kind
    <3>2. maps \in MapLists /\ text = MapsText(maps) /\ RestInv /\ ReadInv
      BY <3>1 DEF MapsInv
    <3>3. RestInv' /\ ReadInv'
      BY <3>1, <3>2, ReadStays
    <3> QED
      BY <3>1, <3>2, <3>3
  <2>9. CASE ReadMaps
    <3>1. /\ phase = "read" /\ phase' = "scan" /\ Kind = "pagemap" /\ UNCHANGED <<text, maps>>
      BY <2>9 DEF ReadMaps, Finish, Kind
    <3>2. maps \in MapLists /\ text = MapsText(maps) /\ RestInv /\ ReadInv
      BY <3>1 DEF MapsInv
    <3>3. BufferInv' /\ RestInv'
      BY <2>9, <3>2, BufferIsRead
    <3> QED
      BY <3>1, <3>2, <3>3
  <2>10. CASE ScanLine
    <3>1. /\ phase = "scan" /\ phase' = "scan" /\ Kind = "pagemap" /\ UNCHANGED <<text, maps>>
      BY <2>10 DEF ScanLine, Kind
    <3>2. maps \in MapLists /\ text = MapsText(maps) /\ RestInv /\ BufferInv
      BY <3>1 DEF MapsInv
    <3>3. BufferInv' /\ RestInv'
      BY <2>10, <3>2, LineIsScanned
    <3> QED
      BY <3>1, <3>2, <3>3
  <2>11. CASE ScanOver
    BY <2>11 DEF ScanOver, Finish
  <2>12. CASE EndOfBuffer
    <3>1. /\ phase = "scan" /\ phase' = "read" /\ Kind = "pagemap" /\ alive' = alive
          /\ UNCHANGED <<text, rest, maps, silent, reported>>
          /\ SkipTo(IF i = 0 THEN 1 ELSE i, Newline) >= length
      BY <2>12 DEF EndOfBuffer, Finish, Kind
    <3>2. maps \in MapLists /\ text = MapsText(maps) /\ RestInv /\ BufferInv
      BY <3>1 DEF MapsInv
    <3>3. ReadInv
      BY <3>1, <3>2, BufferIsScanned
    <3>4. RestInv' /\ ReadInv'
      BY <3>1, <3>2, <3>3, ReadStays
    <3> QED
      BY <3>1, <3>2, <3>4
  <2> QED
    BY <2>1, <2>2, <2>3, <2>4, <2>5, <2>6, <2>7, <2>8, <2>9, <2>10, <2>11, <2>12 DEF Next, Ended
<1>4. IInv => ScanInv
  BY DEF IInv
<1> QED
  BY <1>1, <1>3, <1>4, ReportTypeOK, CopyInvariant, PTL DEF Spec

\* The pages that pread() answers for, of every mapping whose line is in one read,
\* are reported, for any number of mappings, lengths of names and size of the buffer,
\* whatever the lines that lie across two reads are taken for.
THEOREM ReportNamesPages == Spec => []WholeLinesAreReported
<1>1. MapsInv => WholeLinesAreReported
  <2> SUFFICES ASSUME MapsInv, ScannedAll, NEW n \in DOMAIN maps, InOneRead(n)
               PROVE  Pages(maps[n]) \ silent \subseteq reported
    BY DEF WholeLinesAreReported
  <2>1. /\ maps \in MapLists /\ text = MapsText(maps) /\ ReadInv /\ rest = <<>> /\ alive
    BY DEF MapsInv, ScannedAll
  <2>2. text \in Seq(Int) /\ LineEnd(n) <= Len(text)
    BY <2>1, LinesOfText
  <2>3. Taken = Len(text)
    BY <2>1, <2>2 DEF Taken
  <2> QED
    BY <2>1, <2>2, <2>3 DEF ReadInv, Reports
<1> QED
  BY <1>1, MapsInvariant, PTL

\* A line that is in one read never lets the scanner out of its buffer, for any
\* mappings, lengths of names and size of the buffer, whatever was in it before and
\* whenever the other process ends.
THEOREM OverrunsOnlyAtCutLines == Spec => []OverrunsNeedCutLines
<1>1. MapsInv => OverrunsNeedCutLines
  BY DEF MapsInv
<1> QED
  BY <1>1, MapsInvariant, PTL

===============================================================================
