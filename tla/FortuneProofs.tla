----------------------------- MODULE FortuneProofs -----------------------------
(***************************************************************************)
(* Proofs about fortune.c and seqfile.c for every size of the buffer, every *)
(* set of texts and every length of a write() but 0: which strings end in   *)
(* the buffer, where readInd stands, and that both give their readers the   *)
(* fortunes of FortuneCycle in its order.                                   *)
(***************************************************************************)
EXTENDS FortuneProc, FortuneSeq, FiniteSetTheorems, FunctionTheorems, SequenceTheorems,
  WellFoundedInduction, TLAPS

\* A set of natural numbers that is not empty has a least one.
LEMMA Least ==
  ASSUME NEW T, T \subseteq Nat, T # {}
  PROVE  \E x \in T : \A y \in T : x <= y
<1> DEFINE R == {ss \in Nat \X Nat : ss[1] < ss[2]}
<1>1. IsWellFoundedOn(R, Nat)
  BY NatLessThanWellFounded, Zenon DEF OpToRel
<1>2. PICK x \in T : \A y \in T : <<y, x>> \notin R
  <2> HIDE DEF R
  <2> QED BY <1>1, WFMin
<1>3. \A y \in T : ~(y < x)
  BY <1>2
<1> QED
  BY <1>3

\* What the code needs in place of a lock.  A write() of no bytes ends the text
\* before it with '\n', and its '\0' is gone.
OneWriter == (\A v, w \in Writers : v = w) /\ 0 \notin Lens
OneReader == \A q, r \in Readers : q = r

-------------------------------------------------------------------------------
(* fortune.c: types, for any number of readers and writers *)

\* What is published lies in the buffer.
PublishInv == \A w \in Writers : wpc[w] = "publish" => at[w] < Size

\* cookieBuffer has a byte.
LEMMA SizeIsNat == Size \in Nat /\ Size > 0
  BY StoreAssumption

\* A call's length and text; an idle writer's are 0 and NUL.
LEMMA CallParts ==
  ASSUME NEW c \in Calls \cup {NoCall}
  PROVE  /\ c.len \in Nat /\ c.text \in Cells
         /\ c \in Calls => c.len \in Lens
<1>1. CASE c \in Calls
  <2>1. c.len \in Lens /\ c.text \in Texts
    BY <1>1 DEF Calls
  <2> QED
    BY <2>1, StoreAssumption DEF Cells
<1>2. CASE c = NoCall
  <2>1. c.len = 0 /\ c.text = NUL
    BY <1>2 DEF NoCall
  <2>2. c \in Calls => c.len \in Lens
    BY DEF Calls
  <2> QED
    BY <2>1, <2>2 DEF Cells
<1> QED
  BY <1>1, <1>2

\* Byte j of the buffer is the end of the string at offset k.
LEMMA EndsAtMember ==
  ASSUME NEW k, NEW j \in EndsAt(k)
  PROVE  /\ j \in Offsets /\ k <= j /\ mem[j] = NUL
         /\ \A l \in Offsets : k <= l /\ l < j => mem[l] # NUL
BY DEF EndsAt

\* The string at offset k, and the offset of its end.
LEMMA TextAtIsText ==
  ASSUME StoreTypeOK, NEW k \in Nat, EndsAt(k) # {}
  PROVE  \E j \in EndsAt(k) : /\ TextAt(k) \in Seq(Cells)
                              /\ Len(TextAt(k)) = j - k
<1> DEFINE end == CHOOSE j \in EndsAt(k) : TRUE
<1>1. end \in EndsAt(k)
  OBVIOUS
<1> HIDE DEF end
<1>2. end \in Offsets /\ k <= end
  BY <1>1, EndsAtMember
<1>3. end - k \in Nat /\ \A n \in 1 .. end - k : k + n - 1 \in Offsets
  BY <1>2, StoreAssumption DEF Offsets
<1>4. TextAt(k) = [n \in 1 .. end - k |-> mem[k + n - 1]]
  BY DEF TextAt, end
<1>5. \A n \in 1 .. end - k : mem[k + n - 1] \in Cells
  BY <1>3 DEF StoreTypeOK
<1>6. [n \in 1 .. end - k |-> mem[k + n - 1]] \in Seq(Cells)
  BY <1>3, <1>5
<1>7. Len([n \in 1 .. end - k |-> mem[k + n - 1]]) = end - k
  BY <1>3
<1> QED
  BY <1>1, <1>4, <1>6, <1>7

\* One lemma per access of writeFortune() and readFortune().
LEMMA ResetIndicesTypes ==
  ASSUME StoreTypeOK, PublishInv, ResetIndices
  PROVE  StoreTypeOK' /\ PublishInv'
<1>1. StoreTypeOK'
  BY StoreAssumption DEF StoreTypeOK, PublishInv, ResetIndices, writeVars
<1>2. PublishInv'
  BY StoreAssumption DEF StoreTypeOK, PublishInv, ResetIndices, WriterGoes, Return,
    Oops, writeVars
<1> QED
  BY <1>1, <1>2

\* The check of the room in writeFortune() keeps the types.
LEMMA WriteCheckTypes ==
  ASSUME StoreTypeOK, PublishInv, NEW w \in Writers, NEW c \in Calls, WriteCheck(w, c)
  PROVE  StoreTypeOK' /\ PublishInv'
<1>1. StoreTypeOK'
  BY StoreAssumption DEF StoreTypeOK, PublishInv, WriteCheck, WriterGoes, Return,
    Calls, NoCall, Room
<1>2. PublishInv'
  BY StoreAssumption DEF StoreTypeOK, PublishInv, WriteCheck, WriterGoes, Return,
    Oops, writeVars
<1> QED
  BY <1>1, <1>2

\* copy_from_user() in writeFortune() keeps the types.
LEMMA WriteCopyTypes ==
  ASSUME StoreTypeOK, PublishInv, NEW w \in Writers, WriteCopy(w)
  PROVE  StoreTypeOK' /\ PublishInv'
<1>1. StoreTypeOK'
  <2>1. arg[w].len \in Nat /\ arg[w].text \in Cells /\ at[w] \in Nat
    BY CallParts DEF StoreTypeOK
  <2>2. \A n \in Nat : Copied(at[w], n, arg[w]) \in [Offsets -> Cells]
    BY <2>1 DEF StoreTypeOK, Copied, Cells
  <2>3. mem' \in [Offsets -> Cells]
    BY <2>1, <2>2, StoreAssumption DEF StoreTypeOK, WriteCopy, Oops
  <2>4. UNCHANGED <<readInd, writeInd, setup>> /\ oops' \in BOOLEAN
    BY DEF StoreTypeOK, WriteCopy, Oops
  <2>5. /\ wpc' \in [Writers -> {"idle", "copy", "load", "terminate", "publish"}]
        /\ reply' \in [Writers -> {"none", "len", "ENOSPC", "EFAULT"}]
    BY DEF StoreTypeOK, WriteCopy, WriterGoes, Return, writeVars
  <2>6. at' \in [Writers -> Nat] /\ arg' \in [Writers -> Calls \cup {NoCall}]
    BY DEF StoreTypeOK, WriteCopy, Return, writeVars
  <2> QED
    BY <2>3, <2>4, <2>5, <2>6 DEF StoreTypeOK
<1>2. PublishInv'
  BY StoreAssumption DEF StoreTypeOK, PublishInv, WriteCopy, WriterGoes, Return,
    Oops, writeVars
<1> QED
  BY <1>1, <1>2

\* Reading writeInd before the terminator keeps the types.
LEMMA WriteLoadTypes ==
  ASSUME StoreTypeOK, PublishInv, NEW w \in Writers, WriteLoad(w)
  PROVE  StoreTypeOK' /\ PublishInv'
<1>1. StoreTypeOK'
  <2>1. arg[w].len \in Nat
    BY CallParts DEF StoreTypeOK
  <2>2. at' \in [Writers -> Nat]
    BY <2>1 DEF StoreTypeOK, WriteLoad
  <2>3. wpc' \in [Writers -> {"idle", "copy", "load", "terminate", "publish"}]
    BY DEF StoreTypeOK, WriteLoad, WriterGoes
  <2> QED
    BY <2>2, <2>3 DEF StoreTypeOK, WriteLoad
<1>2. PublishInv'
  BY StoreAssumption DEF StoreTypeOK, PublishInv, WriteLoad, WriterGoes, Return,
    Oops, writeVars
<1> QED
  BY <1>1, <1>2

\* Storing the terminator keeps the types.
LEMMA WriteTerminateTypes ==
  ASSUME StoreTypeOK, PublishInv, NEW w \in Writers, WriteTerminate(w)
  PROVE  StoreTypeOK' /\ PublishInv'
<1>1. StoreTypeOK'
  <2>1. mem' \in [Offsets -> Cells]
    <3>1. CASE mem' = mem
      BY <3>1 DEF StoreTypeOK
    <3>2. CASE mem' = [mem EXCEPT ![at[w] - 1] = NL, ![at[w]] = NUL]
      BY <3>2 DEF StoreTypeOK, Cells
    <3> QED
      BY <3>1, <3>2 DEF WriteTerminate, Oops
  <2>2. wpc' \in [Writers -> {"idle", "copy", "load", "terminate", "publish"}]
    BY DEF StoreTypeOK, WriteTerminate, WriterGoes
  <2>3. oops' \in BOOLEAN /\ UNCHANGED <<arg, at, reply, readInd, writeInd, setup>>
    BY DEF StoreTypeOK, WriteTerminate, Oops
  <2> QED
    BY <2>1, <2>2, <2>3 DEF StoreTypeOK
<1>2. PublishInv'
  BY StoreAssumption DEF StoreTypeOK, PublishInv, WriteTerminate, WriterGoes,
    Return, Oops, writeVars
<1> QED
  BY <1>1, <1>2

\* Advancing writeInd keeps the types.
LEMMA WritePublishTypes ==
  ASSUME StoreTypeOK, PublishInv, NEW w \in Writers, WritePublish(w)
  PROVE  StoreTypeOK' /\ PublishInv'
<1>1. StoreTypeOK'
  BY StoreAssumption DEF StoreTypeOK, PublishInv, WritePublish, Return
<1>2. PublishInv'
  BY StoreAssumption DEF StoreTypeOK, PublishInv, WritePublish, WriterGoes, Return,
    Oops, writeVars
<1> QED
  BY <1>1, <1>2

\* openFortune() keeps the types.
LEMMA OpenFortuneTypes ==
  ASSUME TypeOK, PublishInv, NEW r \in Readers, OpenFortune(r)
  PROVE  TypeOK' /\ PublishInv'
<1>1. TypeOK'
  BY DEF TypeOK, StoreTypeOK, OpenFortune, ReaderGoes, storeVars, writeVars
<1>2. PublishInv'
  BY DEF PublishInv, OpenFortune, ReaderGoes, Oops, storeVars, writeVars
<1> QED
  BY <1>1, <1>2

\* releaseFortune() keeps the types.
LEMMA ReleaseFortuneTypes ==
  ASSUME TypeOK, PublishInv, NEW r \in Readers, ReleaseFortune(r)
  PROVE  TypeOK' /\ PublishInv'
<1>1. TypeOK'
  BY DEF TypeOK, StoreTypeOK, ReleaseFortune, ReaderGoes, storeVars, writeVars
<1>2. PublishInv'
  BY DEF PublishInv, ReleaseFortune, ReaderGoes, Oops, storeVars, writeVars
<1> QED
  BY <1>1, <1>2

\* The test of *fPos and writeInd in readFortune() keeps the types.
LEMMA ReadCheckTypes ==
  ASSUME TypeOK, PublishInv, NEW r \in Readers, ReadCheck(r)
  PROVE  TypeOK' /\ PublishInv'
<1>1. TypeOK'
  BY DEF TypeOK, StoreTypeOK, ReadCheck, ReaderGoes, storeVars, writeVars
<1>2. PublishInv'
  BY DEF PublishInv, ReadCheck, ReaderGoes, Oops, storeVars, writeVars
<1> QED
  BY <1>1, <1>2

\* Wrapping readInd keeps the types.
LEMMA ReadWrapTypes ==
  ASSUME TypeOK, PublishInv, NEW r \in Readers, ReadWrap(r)
  PROVE  TypeOK' /\ PublishInv'
<1>1. TypeOK'
  BY DEF TypeOK, StoreTypeOK, ReadWrap, ReaderGoes, storeVars, writeVars
<1>2. PublishInv'
  BY DEF PublishInv, ReadWrap, ReaderGoes, Oops, storeVars, writeVars
<1> QED
  BY <1>1, <1>2

\* snprintf() of a fortune keeps the types.
LEMMA ReadFormatTypes ==
  ASSUME TypeOK, PublishInv, NEW r \in Readers, ReadFormat(r)
  PROVE  TypeOK' /\ PublishInv'
<1>1. TypeOK'
  <2>1. CASE EndsAt(reg[r]) # {}
    <3> DEFINE s == Append(TextAt(reg[r]), NL)
    <3>1. UNCHANGED <<storeVars, fPos, reg>> /\ rpc' = [rpc EXCEPT ![r] = "copy"]
      BY <2>1 DEF ReadFormat, ReaderGoes
    <3>2. tmpBuffer' = Printed(s) /\ readLen' = [readLen EXCEPT ![r] = Len(s)]
      BY <2>1 DEF ReadFormat
    <3>3. TextAt(reg[r]) \in Seq(Cells)
      BY <2>1, TextAtIsText DEF TypeOK
    <3>4. s \in Seq(Cells) /\ Len(s) \in Nat
      BY <3>3 DEF Cells
    <3> HIDE DEF s
    <3>5. Printed(s) \in [Offsets -> Cells]
      <4> DEFINE kept == IF Len(s) < Size THEN Len(s) ELSE Size - 1
      <4>1. kept \in Nat /\ kept <= Len(s)
        BY <3>4, StoreAssumption
      <4> SUFFICES ASSUME NEW j \in Offsets
                   PROVE  (CASE j < kept -> s[j + 1]
                             [] j = kept -> NUL
                             [] j > kept -> tmpBuffer[j]) \in Cells
        BY DEF Printed
      <4>2. j \in Nat
        BY DEF Offsets
      <4> HIDE DEF kept
      <4>3. CASE j < kept
        <5>1. s[j + 1] \in Cells
          BY <3>4, <4>1, <4>2, <4>3
        <5> QED
          BY <4>1, <4>2, <4>3, <5>1
      <4>4. CASE j = kept
        BY <4>1, <4>2, <4>4 DEF Cells
      <4>5. CASE j > kept
        BY <4>1, <4>2, <4>5 DEF TypeOK
      <4> QED
        BY <4>1, <4>2, <4>3, <4>4, <4>5
    <3> QED
      BY <3>1, <3>2, <3>4, <3>5 DEF TypeOK, StoreTypeOK, storeVars
  <2>2. CASE EndsAt(reg[r]) = {}
    BY <2>2 DEF ReadFormat, Oops, writeVars, TypeOK, StoreTypeOK
  <2> QED
    BY <2>1, <2>2
<1>2. PublishInv'
  BY DEF PublishInv, ReadFormat, ReaderGoes, Oops, storeVars, writeVars
<1> QED
  BY <1>1, <1>2

\* copy_to_user() of tmpBuffer keeps the types.
LEMMA ReadCopyTypes ==
  ASSUME TypeOK, PublishInv, NEW r \in Readers, ReadCopy(r)
  PROVE  TypeOK' /\ PublishInv'
<1>1. TypeOK'
  <2>1. readLen' \in [Readers -> Nat]
    BY DEF TypeOK, ReadCopy
  <2>2. rpc' \in [Readers -> {"closed", "open", "wrap", "format", "copy", "advance"}]
    BY DEF TypeOK, ReadCopy, ReaderGoes
  <2> QED
    BY <2>1, <2>2 DEF TypeOK, StoreTypeOK, ReadCopy, storeVars
<1>2. PublishInv'
  BY DEF PublishInv, ReadCopy, ReaderGoes, Oops, storeVars, writeVars
<1> QED
  BY <1>1, <1>2

\* Advancing readInd keeps the types.
LEMMA ReadAdvanceTypes ==
  ASSUME TypeOK, PublishInv, NEW r \in Readers, ReadAdvance(r)
  PROVE  TypeOK' /\ PublishInv'
<1>1. TypeOK'
  BY DEF TypeOK, StoreTypeOK, ReadAdvance, ReaderGoes, storeVars, writeVars
<1>2. PublishInv'
  BY DEF PublishInv, ReadAdvance, ReaderGoes, Oops, storeVars, writeVars
<1> QED
  BY <1>1, <1>2

\* The steps of the writers and of initFortune() keep the types.
LEMMA StoreStepTypes ==
  ASSUME StoreTypeOK, PublishInv, StoreStep
  PROVE  StoreTypeOK' /\ PublishInv'
BY ResetIndicesTypes, WriteCheckTypes, WriteCopyTypes, WriteLoadTypes, WriteTerminateTypes,
   WritePublishTypes DEF StoreStep

\* Every step keeps the types.
LEMMA TypesStep == TypeOK /\ PublishInv /\ [Next]_vars => TypeOK' /\ PublishInv'
<1> SUFFICES ASSUME TypeOK, PublishInv, [Next]_vars PROVE TypeOK' /\ PublishInv'
  OBVIOUS
<1>1. CASE UNCHANGED vars
  BY <1>1 DEF vars, storeVars, readVars, TypeOK, StoreTypeOK, PublishInv
<1>2. CASE StoreStep /\ UNCHANGED readVars
  <2>1. StoreTypeOK' /\ PublishInv'
    BY <1>2, StoreStepTypes DEF TypeOK
  <2> QED
    BY <1>2, <2>1 DEF TypeOK, readVars
<1>3. CASE \E r \in Readers : ReadStep(r)
  BY <1>3, OpenFortuneTypes, ReleaseFortuneTypes, ReadCheckTypes, ReadWrapTypes,
     ReadFormatTypes, ReadCopyTypes, ReadAdvanceTypes DEF ReadStep
<1> QED
  BY <1>1, <1>2, <1>3 DEF Next, Halted

\* The types hold when the module is loaded.
LEMMA TypesInit == Init => TypeOK /\ PublishInv
<1> SUFFICES ASSUME Init PROVE TypeOK /\ PublishInv
  OBVIOUS
<1>1. PublishInv
  BY DEF Init, StoreInit, PublishInv
<1>3. StoreTypeOK
  <2>1. mem \in [Offsets -> Cells] /\ writeInd \in 0 .. Size
    BY SizeIsNat DEF Init, StoreInit, Cells
  <2>2. /\ wpc \in [Writers -> {"idle", "copy", "load", "terminate", "publish"}]
        /\ arg \in [Writers -> Calls \cup {NoCall}]
    BY DEF Init, StoreInit
  <2> QED
    BY <2>1, <2>2 DEF Init, StoreInit, StoreTypeOK
<1>2. tmpBuffer \in [Offsets -> Cells]
  BY DEF Init, Cells
<1> QED
  BY <1>1, <1>2, <1>3 DEF Init, TypeOK

-------------------------------------------------------------------------------
(* The shelf, as a function of the buffer and of what is published of it *)

\* The place of i among the members of a set of numbers.
RankOf(S, i) == 1 + Cardinality({s \in S : s < i})

\* The definitions of FortuneStore for a buffer m of which n bytes are published.
EndsIn(m, i) ==
  {j \in Offsets : i <= j /\ m[j] = NUL /\ \A k \in Offsets : i <= k /\ k < j => m[k] # NUL}
TextIn(m, i) ==
  LET end == CHOOSE j \in EndsIn(m, i) : TRUE
  IN  [k \in 1 .. end - i |-> m[i + k - 1]]
StartsIn(m, n) == {i \in 0 .. n - 1 : i = 0 \/ m[i - 1] = NUL}
ShelfIn(m, n) ==
  [k \in 1 .. Cardinality(StartsIn(m, n)) |->
     TextIn(m, CHOOSE i \in StartsIn(m, n) : RankOf(StartsIn(m, n), i) = k)]

\* A buffer with n published bytes, the last of which is '\0'.
Published(m, n) == m \in [Offsets -> Cells] /\ n \in 0 .. Size /\ (n = 0 \/ m[n - 1] = NUL)

\* A rank is one more than the number of smaller members.
LEMMA RankBounds ==
  ASSUME NEW S, S \subseteq Nat, IsFiniteSet(S), NEW i \in Nat
  PROVE  /\ RankOf(S, i) \in 1 .. Cardinality(S) + 1
         /\ (\A s \in S : s < i) => RankOf(S, i) = Cardinality(S) + 1
         /\ IsFiniteSet({s \in S : s < i}) /\ Cardinality({s \in S : s < i}) \in Nat
<1> DEFINE T == {s \in S : s < i}
<1>1. IsFiniteSet(T) /\ Cardinality(T) <= Cardinality(S)
  BY FS_Subset
<1>2. Cardinality(T) \in Nat /\ Cardinality(S) \in Nat
  BY <1>1, FS_CardinalityType
<1>3. (\A s \in S : s < i) => T = S
  OBVIOUS
<1> QED
  BY <1>1, <1>2, <1>3 DEF RankOf

\* What lies between two numbers makes the difference of their ranks.
LEMMA RankNext ==
  ASSUME NEW S, S \subseteq Nat, IsFiniteSet(S), NEW i \in S, NEW j \in Nat, i < j,
         \A s \in S : ~(i < s /\ s < j)
  PROVE  RankOf(S, j) = RankOf(S, i) + 1
<1> DEFINE T(k) == {s \in S : s < k}
<1>0. i \in Nat /\ \A s \in S : s \in Nat
  OBVIOUS
<1>1. T(j) = T(i) \cup {i} /\ i \notin T(i) /\ i \in Nat
  <2>1. \A s \in S : s < j <=> s < i \/ s = i
    BY <1>0
  <2> QED
    BY <1>0, <2>1
<1>2. IsFiniteSet(T(i)) /\ Cardinality(T(i)) \in Nat
  BY <1>1, RankBounds
<1>3. Cardinality(T(j)) = Cardinality(T(i)) + 1
  BY <1>1, <1>2, FS_AddElement
<1> QED
  BY <1>2, <1>3 DEF RankOf

\* A member comes before every greater number.
LEMMA RankGrows ==
  ASSUME NEW S, S \subseteq Nat, IsFiniteSet(S), NEW i \in S, NEW j \in Nat, i < j
  PROVE  RankOf(S, i) < RankOf(S, j)
<1> DEFINE T(k) == {s \in S : s < k}
<1>0. i \in Nat /\ \A s \in S : s \in Nat
  OBVIOUS
<1>1. T(i) \cup {i} \subseteq T(j) /\ i \notin T(i) /\ i \in Nat
  <2>1. \A s \in S : s < i \/ s = i => s < j
    BY <1>0
  <2>2. i \notin T(i)
    BY <1>0
  <2>3. ASSUME NEW s \in T(i) \cup {i} PROVE s \in T(j)
    BY <2>1
  <2> QED
    BY <1>0, <2>2, <2>3
<1>2. /\ IsFiniteSet(T(i)) /\ Cardinality(T(i)) \in Nat
      /\ IsFiniteSet(T(j)) /\ Cardinality(T(j)) \in Nat
  BY <1>1, RankBounds
<1>3. Cardinality(T(i) \cup {i}) = Cardinality(T(i)) + 1
  BY <1>1, <1>2, FS_AddElement
<1>4. Cardinality(T(i) \cup {i}) <= Cardinality(T(j))
  BY <1>1, <1>2, FS_Subset
<1> QED
  BY <1>2, <1>3, <1>4 DEF RankOf

\* The members have the ranks from 1 on, each of them one.
LEMMA RankOnto ==
  ASSUME NEW S, S \subseteq Nat, IsFiniteSet(S)
  PROVE  /\ \A i \in S : RankOf(S, i) \in 1 .. Cardinality(S)
         /\ \A i, j \in S : RankOf(S, i) = RankOf(S, j) => i = j
         /\ \A k \in 1 .. Cardinality(S) : \E i \in S : RankOf(S, i) = k
<1> DEFINE N == Cardinality(S)
           f == [i \in S |-> RankOf(S, i)]
<1>1. N \in Nat
  BY FS_CardinalityType
<1>2. ASSUME NEW i \in S PROVE RankOf(S, i) \in 1 .. N
  <2> DEFINE T == {s \in S : s < i}
  <2>1. i \in Nat /\ T \in SUBSET S /\ T # S
    OBVIOUS
  <2>2. Cardinality(T) <= N /\ Cardinality(T) # N
    BY <2>1, FS_Subset
  <2>3. Cardinality(T) \in Nat
    BY <2>1, RankBounds
  <2> QED
    BY <1>1, <2>2, <2>3 DEF RankOf
<1>3. ASSUME NEW i \in S, NEW j \in S, RankOf(S, i) = RankOf(S, j) PROVE i = j
  <2>1. i \in Nat /\ j \in Nat /\ RankOf(S, i) \in Nat
    BY <1>1, <1>2
  <2>2. ~(i < j)
    <3>1. i < j => RankOf(S, i) < RankOf(S, j)
      BY <2>1, RankGrows
    <3> QED
      BY <1>3, <2>1, <3>1
  <2>3. ~(j < i)
    <3>1. j < i => RankOf(S, j) < RankOf(S, i)
      BY <2>1, RankGrows
    <3> QED
      BY <1>3, <2>1, <3>1
  <2> QED
    BY <2>1, <2>2, <2>3
<1>4. f \in Injection(S, 1 .. N)
  BY <1>2, <1>3 DEF Injection, IsInjective
<1>5. IsFiniteSet(1 .. N) /\ Cardinality(1 .. N) = N
  BY <1>1, FS_Interval
<1>6. f \in Surjection(S, 1 .. N)
  BY <1>4, <1>5, FS_Injection
<1>7. \A k \in 1 .. N : \E i \in S : f[i] = k
  BY <1>6 DEF Surjection
<1> QED
  BY <1>2, <1>3, <1>7

\* Starts are numbers below n.
LEMMA StartsFacts ==
  ASSUME NEW m, NEW n \in Nat
  PROVE  /\ StartsIn(m, n) \subseteq Nat /\ IsFiniteSet(StartsIn(m, n))
         /\ \A i \in StartsIn(m, n) : i < n
         /\ Cardinality(StartsIn(m, n)) \in Nat
<1>1. StartsIn(m, n) \subseteq 0 .. n - 1 /\ IsFiniteSet(0 .. n - 1)
  BY FS_Interval DEF StartsIn
<1>2. IsFiniteSet(StartsIn(m, n))
  BY <1>1, FS_Subset
<1> QED
  BY <1>1, <1>2, FS_CardinalityType

\* Each fortune is on the shelf at the rank of its start, and nothing else is.
LEMMA ShelfFacts ==
  ASSUME NEW m, NEW n \in Nat
  PROVE  /\ DOMAIN ShelfIn(m, n) = 1 .. Cardinality(StartsIn(m, n))
         /\ \A i \in StartsIn(m, n) :
              ShelfIn(m, n)[RankOf(StartsIn(m, n), i)] = TextIn(m, i)
<1> DEFINE S == StartsIn(m, n)
           nth(k) == CHOOSE i \in S : RankOf(S, i) = k
<1>1. /\ \A i \in S : RankOf(S, i) \in 1 .. Cardinality(S)
      /\ \A i, j \in S : RankOf(S, i) = RankOf(S, j) => i = j
  BY StartsFacts, RankOnto
<1>2. ASSUME NEW i \in S PROVE nth(RankOf(S, i)) = i
  <2>1. nth(RankOf(S, i)) \in S /\ RankOf(S, nth(RankOf(S, i))) = RankOf(S, i)
    OBVIOUS
  <2> QED
    BY <1>1, <2>1
<1>3. ShelfIn(m, n) = [k \in 1 .. Cardinality(S) |-> TextIn(m, nth(k))]
  BY DEF ShelfIn
<1> HIDE DEF nth, S
<1> QED
  BY <1>1, <1>2, <1>3 DEF S

\* The first '\0' from i on, and the text before it.
LEMMA EndFacts ==
  ASSUME NEW m \in [Offsets -> Cells], NEW i \in Nat, NEW j \in EndsIn(m, i)
  PROVE  /\ EndsIn(m, i) = {j}
         /\ j \in Offsets /\ i <= j /\ m[j] = NUL
         /\ \A k \in Offsets : i <= k /\ k < j => m[k] # NUL
         /\ TextIn(m, i) = [k \in 1 .. j - i |-> m[i + k - 1]]
<1>1. /\ j \in Offsets /\ i <= j /\ m[j] = NUL
      /\ \A k \in Offsets : i <= k /\ k < j => m[k] # NUL
  BY DEF EndsIn
<1>2. ASSUME NEW l \in EndsIn(m, i) PROVE l = j
  <2>1. /\ l \in Offsets /\ i <= l /\ m[l] = NUL
        /\ \A k \in Offsets : i <= k /\ k < l => m[k] # NUL
    BY DEF EndsIn
  <2>2. l \in Int /\ j \in Int
    BY <1>1, <2>1 DEF Offsets
  <2> QED
    BY <1>1, <2>1, <2>2
<1>3. EndsIn(m, i) = {j}
  BY <1>2
<1>4. (CHOOSE l \in EndsIn(m, i) : TRUE) = j
  BY <1>3
<1> QED
  BY <1>1, <1>3, <1>4 DEF TextIn

\* What starts in the published part ends in it.
LEMMA EndsInside ==
  ASSUME NEW m, NEW n, Published(m, n), NEW i \in Nat, i < n
  PROVE  \E j \in EndsIn(m, i) : j < n
<1> DEFINE T == {j \in Offsets : i <= j /\ m[j] = NUL}
<1>1. n \in Nat /\ n - 1 \in Offsets /\ m[n - 1] = NUL
  BY SizeIsNat DEF Published, Offsets
<1>2. T \subseteq Nat /\ n - 1 \in T
  BY <1>1 DEF Offsets
<1>3. PICK j \in T : \A l \in T : j <= l
  <2> HIDE DEF T
  <2> QED BY <1>2, Least
<1>4. j \in EndsIn(m, i)
  <2>1. ASSUME NEW k \in Offsets, i <= k, k < j PROVE m[k] # NUL
    <3>1. j \in Nat /\ k \in Nat
      BY <1>2 DEF Offsets
    <3>2. k \notin T
      BY <1>3, <2>1, <3>1
    <3> QED
      BY <2>1, <3>2
  <2> QED
    BY <1>3, <2>1 DEF EndsIn
<1>5. j < n
  BY <1>1, <1>2, <1>3
<1> QED
  BY <1>4, <1>5

\* Bytes behind the published ones do not matter: neither to a text ...
LEMMA TextSame ==
  ASSUME NEW m, NEW m2, NEW n, Published(m, n), m2 \in [Offsets -> Cells],
         \A j \in Offsets : j < n => m2[j] = m[j], NEW i \in Nat, i < n
  PROVE  TextIn(m2, i) = TextIn(m, i)
<1>1. PICK j \in EndsIn(m, i) : j < n
  BY EndsInside
<1>2. m \in [Offsets -> Cells] /\ n \in Nat /\ n <= Size
  BY SizeIsNat DEF Published
<1>3. /\ j \in Offsets /\ i <= j /\ m[j] = NUL /\ \A k \in Offsets : i <= k /\ k < j => m[k] # NUL
      /\ TextIn(m, i) = [k \in 1 .. j - i |-> m[i + k - 1]]
  BY <1>2, EndFacts
<1>4. j \in Nat /\ \A k \in Offsets : k < j => k < n
  BY <1>1, <1>2, <1>3 DEF Offsets
<1>5. j \in EndsIn(m2, i)
  BY <1>1, <1>3, <1>4 DEF EndsIn
<1>6. TextIn(m2, i) = [k \in 1 .. j - i |-> m2[i + k - 1]]
  BY <1>5, EndFacts
<1>7. ASSUME NEW k \in 1 .. j - i PROVE m2[i + k - 1] = m[i + k - 1]
  <2>1. i + k - 1 \in Offsets /\ i + k - 1 < n
    BY <1>1, <1>2, <1>4, SizeIsNat DEF Offsets
  <2> QED
    BY <2>1
<1> QED
  BY <1>3, <1>6, <1>7

\* ... nor to the shelf.
LEMMA ShelfSame ==
  ASSUME NEW m, NEW m2, NEW n, Published(m, n), m2 \in [Offsets -> Cells],
         \A j \in Offsets : j < n => m2[j] = m[j]
  PROVE  StartsIn(m2, n) = StartsIn(m, n) /\ ShelfIn(m2, n) = ShelfIn(m, n)
<1>1. n \in Nat /\ n <= Size
  BY SizeIsNat DEF Published
<1>2. StartsIn(m2, n) = StartsIn(m, n)
  <2>1. ASSUME NEW i \in 0 .. n - 1, i # 0 PROVE m2[i - 1] = m[i - 1]
    <3>1. i - 1 \in Offsets /\ i - 1 < n
      BY <1>1, <2>1, SizeIsNat DEF Offsets
    <3> QED
      BY <3>1
  <2> QED
    BY <2>1 DEF StartsIn
<1> DEFINE S == StartsIn(m, n)
           nth(k) == CHOOSE i \in S : RankOf(S, i) = k
<1>3. \A k \in 1 .. Cardinality(S) : \E i \in S : RankOf(S, i) = k
  BY <1>1, StartsFacts, RankOnto
<1>4. ASSUME NEW k \in 1 .. Cardinality(S) PROVE TextIn(m2, nth(k)) = TextIn(m, nth(k))
  <2>1. nth(k) \in S
    BY <1>3
  <2>2. nth(k) \in Nat /\ nth(k) < n
    BY <1>1, <2>1, StartsFacts
  <2> QED
    BY <2>2, TextSame
<1>5. /\ ShelfIn(m, n) = [k \in 1 .. Cardinality(S) |-> TextIn(m, nth(k))]
      /\ ShelfIn(m2, n) = [k \in 1 .. Cardinality(S) |-> TextIn(m2, nth(k))]
  BY <1>2 DEF ShelfIn
<1> QED
  BY <1>2, <1>4, <1>5

\* The shelf is a sequence of texts.
LEMMA ShelfIsSeq ==
  ASSUME NEW m, NEW n \in Nat
  PROVE  /\ ShelfIn(m, n) \in Seq({TextIn(m, i) : i \in Nat})
         /\ Len(ShelfIn(m, n)) = Cardinality(StartsIn(m, n))
<1> DEFINE S == StartsIn(m, n)
           nth(k) == CHOOSE i \in S : RankOf(S, i) = k
<1>1. Cardinality(S) \in Nat /\ \A k \in 1 .. Cardinality(S) : \E i \in S : RankOf(S, i) = k
  BY StartsFacts, RankOnto
<1>2. \A k \in 1 .. Cardinality(S) : nth(k) \in Nat
  BY <1>1, StartsFacts
<1>3. ShelfIn(m, n) = [k \in 1 .. Cardinality(S) |-> TextIn(m, nth(k))]
  BY DEF ShelfIn
<1> HIDE DEF nth, S
<1>4. ShelfIn(m, n) \in [1 .. Cardinality(S) -> {TextIn(m, i) : i \in Nat}]
  BY <1>2, <1>3
<1> QED
  BY <1>1, <1>4 DEF S

\* The fortune behind the last one comes on the shelf when it is published.
LEMMA ShelfGrows ==
  ASSUME NEW m, NEW n, Published(m, n), NEW size \in Nat, n + size < Size,
         m[n + size] = NUL, \A k \in 1 .. size : m[n + k - 1] # NUL
  PROVE  /\ Published(m, n + size + 1)
         /\ TextIn(m, n) = [k \in 1 .. size |-> m[n + k - 1]]
         /\ ShelfIn(m, n + size + 1) = Append(ShelfIn(m, n), TextIn(m, n))
         /\ \A i \in 0 .. n : RankOf(StartsIn(m, n + size + 1), i) = RankOf(StartsIn(m, n), i)
<1> DEFINE n2 == n + size + 1
           S  == StartsIn(m, n)
           S2 == StartsIn(m, n2)
<1>1. n \in Nat /\ n2 \in Nat /\ m \in [Offsets -> Cells] /\ n2 - 1 = n + size
  BY SizeIsNat DEF Published
<1>2. Published(m, n2)
  BY <1>1, SizeIsNat DEF Published
<1>3. TextIn(m, n) = [k \in 1 .. size |-> m[n + k - 1]]
  <2>1. n + size \in Offsets
    BY <1>1, SizeIsNat DEF Offsets
  <2>2. ASSUME NEW k \in Offsets, n <= k, k < n + size PROVE m[k] # NUL
    <3>1. k - n + 1 \in 1 .. size /\ n + (k - n + 1) - 1 = k
      BY <1>1, <2>2 DEF Offsets
    <3> QED
      BY <3>1
  <2>3. n + size \in EndsIn(m, n)
    BY <1>1, <2>1, <2>2 DEF EndsIn
  <2>4. (n + size) - n = size
    BY <1>1
  <2> QED
    BY <1>1, <2>3, <2>4, EndFacts
<1>4. S2 = S \cup {n} /\ n \notin S
  <2>1. ASSUME NEW i \in n + 1 .. n2 - 1 PROVE m[i - 1] # NUL
    <3>1. i - n \in 1 .. size /\ n + (i - n) - 1 = i - 1
      BY <1>1
    <3> QED
      BY <3>1
  <2>2. \A i \in 0 .. n2 - 1 : i \in 0 .. n - 1 \/ i = n \/ (i \in n + 1 .. n2 - 1 /\ i # 0)
    BY <1>1
  <2>3. n \in 0 .. n2 - 1 /\ 0 .. n - 1 \subseteq 0 .. n2 - 1 /\ n \notin 0 .. n - 1
    BY <1>1
  <2>4. n = 0 \/ m[n - 1] = NUL
    BY DEF Published
  <2> QED
    BY <2>1, <2>2, <2>3, <2>4 DEF StartsIn
<1>5. S \subseteq Nat /\ IsFiniteSet(S) /\ Cardinality(S) \in Nat /\ \A i \in S : i < n
  BY <1>1, StartsFacts
<1>6. Cardinality(S2) = Cardinality(S) + 1
  BY <1>4, <1>5, FS_AddElement
<1>7. ASSUME NEW i \in 0 .. n PROVE RankOf(S2, i) = RankOf(S, i)
  <2>1. {s \in S2 : s < i} = {s \in S : s < i}
    BY <1>1, <1>4
  <2> QED
    BY <2>1 DEF RankOf
<1>8. RankOf(S2, n) = Cardinality(S) + 1
  BY <1>1, <1>5, <1>7, RankBounds
<1>9. ASSUME NEW k \in 1 .. Cardinality(S) PROVE ShelfIn(m, n2)[k] = ShelfIn(m, n)[k]
  <2>1. PICK i \in S : RankOf(S, i) = k
    BY <1>5, RankOnto
  <2>2. i \in 0 .. n /\ i \in S2
    BY <1>1, <1>4, <1>5
  <2>3. ShelfIn(m, n)[k] = TextIn(m, i)
    BY <1>1, <2>1, ShelfFacts
  <2>4. ShelfIn(m, n2)[k] = TextIn(m, i)
    BY <1>1, <1>7, <2>1, <2>2, ShelfFacts
  <2> QED
    BY <2>3, <2>4
<1>10. ShelfIn(m, n2)[Cardinality(S) + 1] = TextIn(m, n)
  BY <1>1, <1>4, <1>8, ShelfFacts
<1>11. /\ ShelfIn(m, n) \in Seq({TextIn(m, i) : i \in Nat}) /\ Len(ShelfIn(m, n)) = Cardinality(S)
       /\ ShelfIn(m, n2) \in Seq({TextIn(m, i) : i \in Nat})
       /\ Len(ShelfIn(m, n2)) = Cardinality(S) + 1
       /\ TextIn(m, n) \in {TextIn(m, i) : i \in Nat}
  BY <1>1, <1>6, ShelfIsSeq
<1> HIDE DEF S, S2, n2
<1>12. ShelfIn(m, n2) = Append(ShelfIn(m, n), TextIn(m, n))
  BY <1>5, <1>9, <1>10, <1>11
<1> QED
  BY <1>2, <1>3, <1>7, <1>12 DEF S, S2, n2

\* The fortune at a start is on the shelf at its rank, and the next one begins
\* behind its end.
LEMMA ShelfAtStart ==
  ASSUME NEW m, NEW n, Published(m, n), NEW i \in StartsIn(m, n), NEW j \in EndsIn(m, i)
  PROVE  /\ RankOf(StartsIn(m, n), i) \in 1 .. Len(ShelfIn(m, n))
         /\ ShelfIn(m, n)[RankOf(StartsIn(m, n), i)] = TextIn(m, i)
         /\ RankOf(StartsIn(m, n), j + 1) = RankOf(StartsIn(m, n), i) + 1
<1> DEFINE S == StartsIn(m, n)
<1>1. n \in Nat /\ m \in [Offsets -> Cells]
  BY DEF Published
<1>2. S \subseteq Nat /\ IsFiniteSet(S)
  BY <1>1, StartsFacts
<1>3. RankOf(S, i) \in 1 .. Len(ShelfIn(m, n)) /\ ShelfIn(m, n)[RankOf(S, i)] = TextIn(m, i)
  BY <1>1, <1>2, RankOnto, ShelfFacts, ShelfIsSeq
<1>4. i \in Nat /\ j \in Offsets /\ i <= j /\ \A k \in Offsets : i <= k /\ k < j => m[k] # NUL
  BY <1>1, <1>2, EndFacts
<1>5. j \in Nat /\ j < Size
  BY <1>4, SizeIsNat DEF Offsets
<1>6. ASSUME NEW s \in S, i < s, s < j + 1 PROVE FALSE
  <2>1. s \in Nat /\ s # 0 /\ m[s - 1] = NUL
    BY <1>2, <1>4, <1>6 DEF StartsIn
  <2>2. s - 1 \in Offsets /\ i <= s - 1 /\ s - 1 < j
    BY <1>4, <1>5, <1>6, <2>1, SizeIsNat DEF Offsets
  <2> QED
    BY <1>4, <2>1, <2>2
<1>7. RankOf(S, j + 1) = RankOf(S, i) + 1
  BY <1>2, <1>4, <1>5, <1>6, RankNext
<1> QED
  BY <1>3, <1>7

\* The first place on the shelf, and the one behind the last.
LEMMA ShelfEnds ==
  ASSUME NEW m, NEW n \in Nat
  PROVE  /\ RankOf(StartsIn(m, n), 0) = 1
         /\ RankOf(StartsIn(m, n), n) = Len(ShelfIn(m, n)) + 1
         /\ n = 0 => ShelfIn(m, n) = <<>>
         /\ n > 0 => ShelfIn(m, n) # <<>> /\ 0 \in StartsIn(m, n)
<1> DEFINE S == StartsIn(m, n)
<1>1. S \subseteq Nat /\ IsFiniteSet(S) /\ \A i \in S : i < n
  BY StartsFacts
<1>2. RankOf(S, 0) = 1
  <2>1. {s \in S : s < 0} = {}
    BY <1>1
  <2> QED
    BY <2>1, FS_EmptySet DEF RankOf
<1>3. RankOf(S, n) = Len(ShelfIn(m, n)) + 1
  BY <1>1, RankBounds, ShelfIsSeq
<1>4. n = 0 => ShelfIn(m, n) = <<>>
  <2>1. n = 0 => S = {}
    BY <1>1
  <2>2. n = 0 => Len(ShelfIn(m, n)) = 0
    BY <2>1, ShelfIsSeq, FS_EmptySet
  <2> QED
    BY <2>2, ShelfIsSeq, EmptySeq
<1>5. n > 0 => ShelfIn(m, n) # <<>> /\ 0 \in S
  <2>1. n > 0 => 0 \in S
    BY DEF StartsIn
  <2>2. n > 0 => Len(ShelfIn(m, n)) > 0
    <3> SUFFICES ASSUME n > 0 PROVE Cardinality(S) > 0
      BY ShelfIsSeq
    <3>1. RankOf(S, 0) \in 1 .. Cardinality(S) /\ Cardinality(S) \in Nat
      BY <1>1, <2>1, RankOnto, StartsFacts
    <3> QED
      BY <3>1
  <2> QED
    BY <2>1, <2>2
<1> QED
  BY <1>2, <1>3, <1>4, <1>5

-------------------------------------------------------------------------------
(* One writer *)

\* The writer is behind what is published, and has ended what it publishes next.
WriterInv(w) ==
  /\ wpc[w] \in {"copy", "load"} => arg[w] \in Calls
  /\ wpc[w] = "copy" => at[w] >= writeInd
  /\ wpc[w] = "terminate" => at[w] > writeInd
  /\ wpc[w] = "publish" => at[w] >= writeInd /\ mem[at[w]] = NUL

\* What is published ends with '\0'.
LastInv == writeInd = 0 \/ mem[writeInd - 1] = NUL

WriteInv == LastInv /\ \A w \in Writers : WriterInv(w)

\* What a step of the writer or of initFortune() leaves alone: the bytes that are
\* published, and the indices that the reader works with.
StoreKeeps ==
  /\ \A j \in Offsets : j < writeInd => mem'[j] = mem[j]
  /\ setup' = "done" => setup = "done" /\ readInd' = readInd /\ writeInd <= writeInd'

\* Setting both indices to 0 keeps what has been published.
LEMMA ResetIndicesKeeps ==
  ASSUME OneWriter, StoreTypeOK, PublishInv, WriteInv, ResetIndices
  PROVE  WriteInv' /\ StoreKeeps
<1>1. writeInd' = 0 /\ setup' = "late" /\ UNCHANGED <<mem, wpc, arg, at>>
  BY DEF ResetIndices, writeVars
<1> QED
  BY <1>1 DEF StoreTypeOK, WriteInv, WriterInv, LastInv, StoreKeeps

\* The check of the room in writeFortune() keeps what has been published.
LEMMA WriteCheckKeeps ==
  ASSUME OneWriter, StoreTypeOK, PublishInv, WriteInv, NEW w \in Writers, NEW c \in Calls, WriteCheck(w, c)
  PROVE  WriteInv' /\ StoreKeeps
<1>1. arg[w] \in Calls \cup {NoCall} /\ writeInd \in Nat
  BY DEF StoreTypeOK
<1>2. UNCHANGED <<mem, readInd, writeInd, setup>>
  BY DEF WriteCheck
<1>3. CASE wpc' = [wpc EXCEPT ![w] = "idle"]
  BY <1>2, <1>3 DEF StoreTypeOK, OneWriter, WriteInv, WriterInv, LastInv, StoreKeeps
<1>4. CASE /\ wpc' = [wpc EXCEPT ![w] = "copy"]
           /\ arg' = [arg EXCEPT ![w] = c] /\ at' = [at EXCEPT ![w] = writeInd]
  <2>1. WriterInv(w)'
    BY <1>1, <1>2, <1>4 DEF StoreTypeOK, WriterInv
  <2> QED
    BY <1>1, <1>2, <2>1 DEF OneWriter, WriteInv, LastInv, StoreKeeps
<1> QED
  BY <1>3, <1>4 DEF WriteCheck, WriterGoes, Return

\* copy_from_user() in writeFortune() keeps what has been published.
LEMMA WriteCopyKeeps ==
  ASSUME OneWriter, StoreTypeOK, PublishInv, WriteInv, NEW w \in Writers, WriteCopy(w)
  PROVE  WriteInv' /\ StoreKeeps
<1>1. arg[w] \in Calls /\ at[w] \in Nat /\ writeInd \in Nat /\ at[w] >= writeInd
  BY DEF StoreTypeOK, WriteInv, WriterInv, WriteCopy
<1>2. UNCHANGED <<readInd, writeInd, setup>>
  BY DEF WriteCopy, Oops
<1>3. \A j \in Offsets : j < writeInd => mem'[j] = mem[j]
  <2> SUFFICES ASSUME NEW j \in Offsets, j < writeInd PROVE mem'[j] = mem[j]
    OBVIOUS
  <2>1. j \in Nat /\ j < at[w]
    BY <1>1 DEF Offsets
  <2>2. arg[w].len \in Nat
    BY <1>1, CallParts
  <2>3. \A n \in Nat : Copied(at[w], n, arg[w])[j] = mem[j]
    BY <1>1, <2>1, <2>2 DEF Copied
  <2> QED
    BY <2>2, <2>3, StoreAssumption DEF WriteCopy, Oops
<1>4. LastInv'
  BY <1>1, <1>2, <1>3, SizeIsNat DEF WriteInv, LastInv, StoreTypeOK, Offsets
<1>5. WriterInv(w)'
  <2>1. CASE wpc' = [wpc EXCEPT ![w] = "load"] /\ arg' = arg
    BY <1>1, <2>1 DEF StoreTypeOK, WriterInv
  <2>2. CASE wpc' = [wpc EXCEPT ![w] = "idle"]
    BY <2>2 DEF StoreTypeOK, WriterInv
  <2>3. CASE UNCHANGED <<writeVars, mem>>
    BY <1>2, <2>3 DEF writeVars, WriteInv, WriterInv
  <2> QED
    BY <2>1, <2>2, <2>3 DEF WriteCopy, WriterGoes, Return, Oops
<1> QED
  BY <1>1, <1>2, <1>3, <1>4, <1>5 DEF OneWriter, WriteInv, StoreKeeps

\* Reading writeInd before the terminator keeps what has been published.
LEMMA WriteLoadKeeps ==
  ASSUME OneWriter, StoreTypeOK, PublishInv, WriteInv, NEW w \in Writers, WriteLoad(w)
  PROVE  WriteInv' /\ StoreKeeps
<1>1. arg[w] \in Calls /\ writeInd \in Nat
  BY DEF StoreTypeOK, WriteInv, WriterInv, WriteLoad, WriterGoes
<1>2. arg[w].len \in Nat /\ arg[w].len > 0
  BY <1>1, CallParts DEF OneWriter
<1>3. UNCHANGED <<mem, readInd, writeInd, setup>>
  BY DEF WriteLoad
<1>4. wpc'[w] = "terminate" /\ at'[w] > writeInd
  BY <1>1, <1>2 DEF StoreTypeOK, WriteLoad, WriterGoes
<1> QED
  BY <1>1, <1>3, <1>4 DEF OneWriter, WriteInv, WriterInv, LastInv, StoreKeeps

\* Storing the terminator keeps what has been published.
LEMMA WriteTerminateKeeps ==
  ASSUME OneWriter, StoreTypeOK, PublishInv, WriteInv, NEW w \in Writers, WriteTerminate(w)
  PROVE  WriteInv' /\ StoreKeeps
<1>1. at[w] \in Nat /\ writeInd \in Nat /\ at[w] > writeInd
  BY DEF StoreTypeOK, WriteInv, WriterInv, WriteTerminate
<1>2. UNCHANGED <<arg, at, readInd, writeInd, setup>>
  BY DEF WriteTerminate, Oops
<1>3. \A j \in Offsets : j < writeInd => mem'[j] = mem[j]
  BY <1>1, SizeIsNat DEF StoreTypeOK, WriteTerminate, Oops, Offsets
<1>4. LastInv'
  BY <1>1, <1>2, <1>3, SizeIsNat DEF WriteInv, LastInv, StoreTypeOK, Offsets
<1>5. WriterInv(w)'
  <2>1. CASE /\ at[w] < Size /\ mem' = [mem EXCEPT ![at[w] - 1] = NL, ![at[w]] = NUL]
             /\ wpc' = [wpc EXCEPT ![w] = "publish"]
    <3>1. mem'[at[w]] = NUL
      BY <1>1, <2>1, SizeIsNat DEF StoreTypeOK, Offsets
    <3> QED
      BY <1>1, <1>2, <2>1, <3>1 DEF StoreTypeOK, WriterInv
  <2>2. CASE UNCHANGED <<mem, wpc>>
    BY <1>2, <2>2 DEF WriteInv, WriterInv
  <2> QED
    BY <2>1, <2>2 DEF WriteTerminate, WriterGoes, Oops
<1> QED
  BY <1>1, <1>2, <1>3, <1>4, <1>5 DEF OneWriter, WriteInv, StoreKeeps

\* Advancing writeInd keeps what has been published.
LEMMA WritePublishKeeps ==
  ASSUME OneWriter, StoreTypeOK, PublishInv, WriteInv, NEW w \in Writers, WritePublish(w)
  PROVE  WriteInv' /\ StoreKeeps
<1>1. /\ at[w] \in Nat /\ writeInd \in Nat /\ at[w] >= writeInd
      /\ mem[at[w]] = NUL /\ writeInd' = at[w] + 1
      /\ UNCHANGED <<mem, readInd, setup>>
  BY DEF StoreTypeOK, WriteInv, WriterInv, WritePublish
<1>2. LastInv'
  BY <1>1 DEF LastInv
<1>3. WriterInv(w)'
  BY DEF StoreTypeOK, WriterInv, WritePublish, Return
<1> QED
  BY <1>1, <1>2, <1>3 DEF OneWriter, WriteInv, StoreKeeps

\* The steps of the writers keep it.
LEMMA StoreStepKeeps ==
  ASSUME OneWriter, StoreTypeOK, PublishInv, WriteInv, StoreStep
  PROVE  WriteInv' /\ StoreKeeps
BY ResetIndicesKeeps, WriteCheckKeeps, WriteCopyKeeps, WriteLoadKeeps, WriteTerminateKeeps,
   WritePublishKeeps DEF StoreStep

\* Readers do not touch what the writer works on.
LEMMA ReadLeavesStore ==
  ASSUME NEW r \in Readers, ReadStep(r)
  PROVE  UNCHANGED <<mem, writeInd, setup, wpc, arg, at>>
BY DEF ReadStep, OpenFortune, ReleaseFortune, ReadCheck, ReadWrap, ReadFormat, ReadCopy,
   ReadAdvance, Oops, storeVars, writeVars

\* Every step, of a writer or a reader, keeps WriteInv.
LEMMA WriteInvStep ==
  ASSUME OneWriter
  PROVE  TypeOK /\ PublishInv /\ WriteInv /\ [Next]_vars => WriteInv'
<1> SUFFICES ASSUME TypeOK, PublishInv, WriteInv, [Next]_vars PROVE WriteInv'
  OBVIOUS
<1>1. CASE StoreStep
  BY <1>1, StoreStepKeeps DEF TypeOK
<1>2. CASE UNCHANGED <<mem, writeInd, setup, wpc, arg, at>>
  BY <1>2 DEF WriteInv, WriterInv, LastInv
<1> QED
  BY <1>1, <1>2, ReadLeavesStore DEF Next, Halted, vars, storeVars

\* The empty buffer satisfies it.
LEMMA WriteInvInit == Init => WriteInv
BY DEF Init, StoreInit, WriteInv, WriterInv, LastInv

\* A string that starts below writeInd ends below it.
LEMMA EndsBelow ==
  ASSUME StoreTypeOK, LastInv, NEW k \in Nat, k < writeInd
  PROVE  EndsAt(k) # {} /\ \A j \in EndsAt(k) : j < writeInd
<1>1. Published(mem, writeInd) /\ EndsAt(k) = EndsIn(mem, k)
  BY DEF StoreTypeOK, LastInv, Published, EndsAt, EndsIn
<1>2. PICK j \in EndsIn(mem, k) : j < writeInd
  BY <1>1, EndsInside
<1>3. EndsIn(mem, k) = {j}
  BY <1>1, EndFacts DEF Published
<1> QED
  BY <1>1, <1>2, <1>3

\* Types and WriteInv hold in every state.
LEMMA StoreInvariant ==
  ASSUME OneWriter
  PROVE  Spec => [](TypeOK /\ PublishInv /\ WriteInv)
<1>1. Init => TypeOK /\ PublishInv /\ WriteInv
  BY TypesInit, WriteInvInit
<1>2. TypeOK /\ PublishInv /\ WriteInv /\ [Next]_vars => (TypeOK /\ PublishInv /\ WriteInv)'
  BY TypesStep, WriteInvStep
<1> QED
  BY <1>1, <1>2, PTL DEF Spec

-------------------------------------------------------------------------------
(* One writer and one reader *)

\* readInd is at the start of a fortune or behind the last one.
CursorInv == readInd <= writeInd /\ (readInd = 0 \/ mem[readInd - 1] = NUL)

\* What a reader holds in its register between its accesses is still true of the
\* buffer, although the writer has gone on.
ReaderInv(r) ==
  /\ rpc[r] = "wrap" => 0 < reg[r] /\ reg[r] <= writeInd
  /\ rpc[r] = "format" => reg[r] = readInd /\ readInd < writeInd
  /\ rpc[r] \in {"copy", "advance"} =>
       /\ readLen[r] > 0
       /\ readInd + readLen[r] <= writeInd
       /\ mem[readInd + readLen[r] - 1] = NUL

ReadInv == setup = "done" => CursorInv /\ \A r \in Readers : ReaderInv(r)

\* A step of the writer leaves the reader's registers true.
LEMMA StoreStepKeepsReaders ==
  ASSUME TypeOK, PublishInv, WriteInv, ReadInv, TypeOK', StoreKeeps, UNCHANGED readVars
  PROVE  ReadInv'
<1> SUFFICES ASSUME setup' = "done"
             PROVE  CursorInv' /\ \A r \in Readers : ReaderInv(r)'
  BY DEF ReadInv
<1>1. /\ CursorInv /\ \A r \in Readers : ReaderInv(r)
      /\ readInd' = readInd /\ writeInd <= writeInd'
      /\ \A j \in Offsets : j < writeInd => mem'[j] = mem[j]
      /\ UNCHANGED <<rpc, reg, readLen>>
  BY DEF StoreKeeps, ReadInv, readVars
<1>2. /\ readInd \in Nat /\ writeInd \in Nat /\ writeInd' \in Nat /\ writeInd <= Size /\ Size \in Nat
      /\ \A r \in Readers : reg[r] \in Nat /\ readLen[r] \in Nat
  BY SizeIsNat DEF TypeOK, StoreTypeOK
<1>3. CursorInv'
  BY <1>1, <1>2 DEF CursorInv, Offsets
<1>4. ASSUME NEW r \in Readers PROVE ReaderInv(r)'
  <2>1. rpc[r] \in {"copy", "advance"} => readInd + readLen[r] - 1 \in Offsets
    BY <1>1, <1>2 DEF ReaderInv, Offsets
  <2> QED
    BY <1>1, <1>2, <2>1 DEF ReaderInv
<1> QED
  BY <1>3, <1>4

\* A step of the one reader keeps its cursor at a fortune.
LEMMA ReadStepKeeps ==
  ASSUME OneReader, TypeOK, WriteInv, ReadInv, NEW r \in Readers, ReadStep(r)
  PROVE  ReadInv'
<1> SUFFICES ASSUME setup = "done"
             PROVE  CursorInv' /\ \A q \in Readers : ReaderInv(q)'
  BY ReadLeavesStore DEF ReadInv
<1>1. /\ CursorInv /\ ReaderInv(r) /\ \A q \in Readers : q = r
      /\ UNCHANGED <<mem, writeInd>>
  BY ReadLeavesStore DEF ReadInv, OneReader
<1>2. /\ readInd \in Nat /\ writeInd \in Nat /\ reg[r] \in Nat /\ readLen[r] \in Nat
      /\ rpc \in [Readers -> {"closed", "open", "wrap", "format", "copy", "advance"}]
      /\ reg \in [Readers -> Nat] /\ readLen \in [Readers -> Nat]
  BY DEF TypeOK, StoreTypeOK
<1> SUFFICES CursorInv' /\ ReaderInv(r)'
  BY <1>1
<1>3. CASE OpenFortune(r) \/ ReleaseFortune(r)
  BY <1>1, <1>2, <1>3
     DEF OpenFortune, ReleaseFortune, ReaderGoes, storeVars, CursorInv, ReaderInv
<1>4. CASE ReadCheck(r)
  BY <1>1, <1>2, <1>4 DEF ReadCheck, ReaderGoes, storeVars, CursorInv, ReaderInv
<1>5. CASE ReadWrap(r)
  <2>1. /\ rpc[r] = "wrap" /\ rpc'[r] = "format"
        /\ readInd' = (IF readInd >= reg[r] THEN 0 ELSE readInd)
        /\ reg'[r] = readInd'
    BY <1>2, <1>5 DEF ReadWrap, ReaderGoes
  <2> QED
    BY <1>1, <1>2, <2>1 DEF CursorInv, ReaderInv
<1>6. CASE ReadFormat(r)
  <2>1. rpc[r] = "format" /\ reg[r] = readInd /\ readInd < writeInd /\ UNCHANGED <<readInd, reg>>
    BY <1>1, <1>6 DEF ReadFormat, ReaderInv, storeVars, Oops
  <2>2. EndsAt(reg[r]) # {} /\ \A j \in EndsAt(reg[r]) : j < writeInd
    BY <1>2, <2>1, EndsBelow DEF TypeOK, WriteInv
  <2>3. PICK j \in EndsAt(reg[r]) : TextAt(reg[r]) \in Seq(Cells) /\ Len(TextAt(reg[r])) = j - reg[r]
    BY <1>2, <2>2, TextAtIsText DEF TypeOK
  <2>4. j \in Nat /\ reg[r] <= j /\ mem[j] = NUL /\ j < writeInd
    BY <2>2, EndsAtMember DEF Offsets
  <2>5. rpc'[r] = "copy" /\ readLen'[r] = j - reg[r] + 1
    <3>1. Len(Append(TextAt(reg[r]), NL)) = j - reg[r] + 1
      BY <1>2, <2>3, <2>4 DEF Cells
    <3> QED
      BY <1>2, <1>6, <2>2, <3>1 DEF ReadFormat, ReaderGoes
  <2> QED
    BY <1>1, <1>2, <2>1, <2>4, <2>5 DEF CursorInv, ReaderInv
<1>7. CASE ReadCopy(r)
  BY <1>1, <1>2, <1>7 DEF ReadCopy, ReaderGoes, storeVars, CursorInv, ReaderInv
<1>8. CASE ReadAdvance(r)
  <2>1. rpc[r] = "advance" /\ rpc'[r] = "open" /\ readInd' = readInd + readLen[r]
    BY <1>2, <1>8 DEF ReadAdvance, ReaderGoes
  <2> QED
    BY <1>1, <1>2, <2>1 DEF CursorInv, ReaderInv
<1> QED
  BY <1>3, <1>4, <1>5, <1>6, <1>7, <1>8 DEF ReadStep

\* So does every step of a writer.
LEMMA ReadInvStep ==
  ASSUME OneWriter, OneReader
  PROVE  TypeOK /\ PublishInv /\ WriteInv /\ ReadInv /\ [Next]_vars => ReadInv'
<1> SUFFICES ASSUME TypeOK, PublishInv, WriteInv, ReadInv, [Next]_vars PROVE ReadInv'
  OBVIOUS
<1>1. CASE StoreStep /\ UNCHANGED readVars
  BY <1>1, StoreStepKeeps, StoreStepKeepsReaders, TypesStep DEF TypeOK
<1>2. CASE \E r \in Readers : ReadStep(r)
  BY <1>2, ReadStepKeeps
<1>3. CASE UNCHANGED vars
  BY <1>3 DEF vars, storeVars, readVars, ReadInv, ReaderInv, CursorInv
<1> QED
  BY <1>1, <1>2, <1>3 DEF Next, Halted

\* The cursor begins at the first fortune.
LEMMA ReadInvInit == Init => ReadInv
BY DEF Init, StoreInit, ReadInv, ReaderInv, CursorInv

-------------------------------------------------------------------------------
(* What a fortune of one writer is, and what one reader has copied of it *)

\* Behind writeInd is the writer's text, as far as it has been copied.
BytesInv(w) ==
  /\ wpc[w] # "idle" => arg[w] \in Calls
  /\ wpc[w] \in {"copy", "load"} => at[w] = writeInd
  /\ wpc[w] \in {"terminate", "publish"} => at[w] = writeInd + arg[w].len
  /\ wpc[w] \in {"load", "terminate"} =>
       /\ writeInd + arg[w].len <= Size
       /\ \A k \in 1 .. arg[w].len : mem[writeInd + k - 1] = arg[w].text
  /\ wpc[w] = "publish" =>
       \A k \in 1 .. arg[w].len : mem[writeInd + k - 1] = TextOf(arg[w])[k]

\* tmpBuffer holds the fortune under the cursor.
CopyInv(r) ==
  rpc[r] = "copy" =>
    /\ readInd + readLen[r] - 1 \in EndsAt(readInd)
    /\ \A k \in 1 .. readLen[r] - 1 : tmpBuffer[k - 1] = mem[readInd + k - 1]

TextInv ==
  setup = "done" => (\A w \in Writers : BytesInv(w)) /\ (\A r \in Readers : CopyInv(r))

\* A call that goes on is a call of write().
LEMMA ArgParts ==
  ASSUME StoreTypeOK, NEW w \in Writers, arg[w] \in Calls
  PROVE  arg[w].len \in Nat /\ arg[w].len \in Lens /\ arg[w].text \in Texts
BY StoreAssumption DEF Calls

\* Each access of the writer leaves behind writeInd what the next one relies on.
LEMMA BytesStep ==
  ASSUME OneWriter, StoreTypeOK, NEW w \in Writers, BytesInv(w),
         \/ \E c \in Calls : WriteCheck(w, c)
         \/ WriteCopy(w) \/ WriteLoad(w) \/ WriteTerminate(w) \/ WritePublish(w)
  PROVE  BytesInv(w)'
<1> USE DEF StoreTypeOK
<1>1. CASE \E c \in Calls : WriteCheck(w, c)
  BY <1>1 DEF BytesInv, WriteCheck, WriterGoes, Return
<1>2. CASE WriteCopy(w)
  <2>1. /\ wpc[w] = "copy" /\ arg[w] \in Calls /\ at[w] = writeInd
        /\ UNCHANGED <<writeInd>> /\ writeInd \in Nat
    BY <1>2 DEF BytesInv, WriteCopy, Oops
  <2>2. arg[w].len \in Nat
    BY <2>1, ArgParts
  <2>3. CASE /\ at[w] + arg[w].len <= Size
             /\ mem' = Copied(at[w], arg[w].len, arg[w])
             /\ WriterGoes(w, "copy", "load")
             /\ UNCHANGED <<arg, at, reply>>
    <3>1. ASSUME NEW k \in 1 .. arg[w].len PROVE mem'[writeInd + k - 1] = arg[w].text
      <4>1. /\ writeInd + k - 1 \in Offsets
            /\ at[w] <= writeInd + k - 1 /\ writeInd + k - 1 < at[w] + arg[w].len
        BY <2>1, <2>2, <2>3, SizeIsNat DEF Offsets
      <4> QED
        BY <2>3, <4>1 DEF Copied
    <3>2. wpc'[w] = "load"
      BY <2>3 DEF WriterGoes
    <3> QED
      BY <2>1, <2>2, <2>3, <3>1, <3>2 DEF BytesInv
  <2>4. CASE wpc' = [wpc EXCEPT ![w] = "idle"]
    BY <2>4 DEF BytesInv
  <2>5. CASE UNCHANGED <<mem, writeVars>>
    BY <2>1, <2>5 DEF BytesInv, writeVars
  <2> QED
    BY <1>2, <2>3, <2>4, <2>5 DEF WriteCopy, Return, Oops
<1>3. CASE WriteLoad(w)
  <2>1. /\ wpc[w] = "load" /\ wpc'[w] = "terminate" /\ at'[w] = writeInd + arg[w].len
        /\ UNCHANGED <<arg, mem, writeInd>>
    BY <1>3 DEF WriteLoad, WriterGoes
  <2> QED
    BY <2>1 DEF BytesInv
<1>4. CASE WriteTerminate(w)
  <2>1. /\ wpc[w] = "terminate" /\ arg[w] \in Calls /\ at[w] = writeInd + arg[w].len
        /\ UNCHANGED <<writeInd, arg, at>> /\ writeInd \in Nat
        /\ \A k \in 1 .. arg[w].len : mem[writeInd + k - 1] = arg[w].text
    BY <1>4 DEF BytesInv, WriteTerminate, Oops
  <2>2. arg[w].len \in Nat
    BY <2>1, ArgParts
  <2>3. CASE /\ at[w] > 0 /\ at[w] < Size
             /\ mem' = [mem EXCEPT ![at[w] - 1] = NL, ![at[w]] = NUL]
             /\ WriterGoes(w, "terminate", "publish")
    <3>1. ASSUME NEW k \in 1 .. arg[w].len PROVE mem'[writeInd + k - 1] = TextOf(arg[w])[k]
      <4>1. writeInd + k - 1 \in Offsets /\ writeInd + k - 1 # at[w]
        BY <2>1, <2>2, <2>3, SizeIsNat DEF Offsets
      <4>2. at[w] - 1 \in Offsets /\ at[w] \in Offsets
        BY <2>1, <2>2, <2>3, SizeIsNat DEF Offsets
      <4>3. writeInd + k - 1 = at[w] - 1 <=> k = arg[w].len
        BY <2>1, <2>2
      <4>4. mem'[writeInd + k - 1] = IF k = arg[w].len THEN NL ELSE mem[writeInd + k - 1]
        BY <2>3, <4>1, <4>2, <4>3
      <4>5. TextOf(arg[w])[k] = IF k < arg[w].len THEN arg[w].text ELSE NL
        BY <2>2 DEF TextOf
      <4> QED
        BY <2>1, <2>2, <4>4, <4>5
    <3>2. wpc'[w] = "publish"
      BY <2>3 DEF WriterGoes
    <3> QED
      BY <2>1, <3>1, <3>2 DEF BytesInv
  <2>4. CASE UNCHANGED <<mem, wpc>>
    BY <2>1, <2>4 DEF BytesInv
  <2> QED
    BY <1>4, <2>3, <2>4 DEF WriteTerminate, Oops
<1>5. CASE WritePublish(w)
  BY <1>5 DEF BytesInv, WritePublish, Return
<1> QED
  BY <1>1, <1>2, <1>3, <1>4, <1>5

\* The writer does not change what the reader has copied.
LEMMA StoreStepKeepsCopy ==
  ASSUME TypeOK, PublishInv, WriteInv, ReadInv, setup = "done", StoreKeeps, UNCHANGED readVars,
         readInd' = readInd, NEW r \in Readers, CopyInv(r)
  PROVE  CopyInv(r)'
<1> SUFFICES ASSUME rpc[r] = "copy" PROVE CopyInv(r)'
  BY DEF CopyInv, readVars
<1>1. /\ readInd \in Nat /\ readLen[r] \in Nat /\ readLen[r] > 0
      /\ readInd + readLen[r] <= writeInd /\ writeInd \in Nat
      /\ UNCHANGED <<rpc, tmpBuffer, readLen>>
  BY DEF TypeOK, StoreTypeOK, ReadInv, ReaderInv, readVars
<1>2. readInd + readLen[r] - 1 \in EndsAt(readInd)
      /\ \A k \in 1 .. readLen[r] - 1 : tmpBuffer[k - 1] = mem[readInd + k - 1]
  BY DEF CopyInv
<1>3. \A j \in Offsets : j < writeInd => mem'[j] = mem[j]
  BY DEF StoreKeeps
<1>4. readInd + readLen[r] - 1 < writeInd
  BY <1>1
<1>5. \A k \in Offsets : k < readInd + readLen[r] - 1 => mem'[k] = mem[k]
  BY <1>1, <1>3, <1>4 DEF Offsets
<1>6. (readInd + readLen[r] - 1 \in EndsAt(readInd))'
  BY <1>1, <1>2, <1>3, <1>4, <1>5 DEF EndsAt
<1>7. ASSUME NEW k \in 1 .. readLen[r] - 1 PROVE mem'[readInd + k - 1] = mem[readInd + k - 1]
  <2>1. readInd + k - 1 \in Offsets
    BY <1>1, SizeIsNat DEF TypeOK, StoreTypeOK, Offsets
  <2> QED
    BY <1>1, <1>5, <2>1
<1> QED
  BY <1>1, <1>2, <1>6, <1>7 DEF CopyInv

\* snprintf() copies the text at the cursor; nothing else writes to tmpBuffer.
LEMMA ReadStepKeepsCopy ==
  ASSUME OneReader, TypeOK, WriteInv, ReadInv, setup = "done", NEW r \in Readers, CopyInv(r),
         ReadStep(r)
  PROVE  CopyInv(r)'
<1>1. CASE OpenFortune(r) \/ ReleaseFortune(r) \/ ReadCheck(r)
  BY <1>1 DEF TypeOK, OpenFortune, ReleaseFortune, ReadCheck, ReaderGoes, CopyInv, storeVars, EndsAt
<1>2. CASE ReadWrap(r) \/ ReadCopy(r) \/ ReadAdvance(r)
  BY <1>2 DEF TypeOK, ReadWrap, ReadCopy, ReadAdvance, ReaderGoes, CopyInv
<1>3. CASE ReadFormat(r)
  <2>1. rpc[r] = "format" /\ reg[r] = readInd /\ readInd < writeInd /\ readInd \in Nat
        /\ UNCHANGED <<readInd, mem, reg, writeInd>>
    BY <1>3 DEF ReadInv, ReaderInv, ReadFormat, storeVars, Oops, TypeOK, StoreTypeOK
  <2>2. Published(mem, writeInd) /\ EndsAt(readInd) = EndsIn(mem, readInd)
        /\ TextAt(readInd) = TextIn(mem, readInd)
    BY DEF TypeOK, StoreTypeOK, WriteInv, LastInv, Published, EndsAt, EndsIn, TextAt, TextIn
  <2>3. PICK j \in EndsIn(mem, readInd) : j < writeInd
    BY <2>1, <2>2, EndsInside
  <2>4. /\ j \in Offsets /\ readInd <= j
        /\ TextIn(mem, readInd) = [k \in 1 .. j - readInd |-> mem[readInd + k - 1]]
    BY <2>1, <2>2, EndFacts DEF Published
  <2> DEFINE text == [k \in 1 .. j - readInd |-> mem[readInd + k - 1]]
             s    == Append(text, NL)
             size  == j - readInd + 1
  <2>5. j \in Nat /\ j < Size /\ size \in Nat /\ size > 0 /\ size <= Size /\ Size \in Nat
    BY <2>1, <2>4, SizeIsNat DEF Offsets
  <2>6. text \in Seq(Cells) /\ Len(text) = size - 1
    <3>1. \A k \in 1 .. j - readInd : readInd + k - 1 \in Offsets
      BY <2>1, <2>5 DEF Offsets
    <3>2. text \in [1 .. j - readInd -> Cells]
      BY <3>1 DEF TypeOK, StoreTypeOK
    <3>3. j - readInd \in Nat
      BY <2>1, <2>4, <2>5
    <3>4. size - 1 = j - readInd
      BY <2>1, <2>5
    <3> HIDE DEF text, size
    <3> QED
      BY <3>2, <3>3, <3>4
  <2>7. Len(s) = size /\ \A k \in 1 .. size - 1 : s[k] = text[k]
    <3>1. NL \in Cells
      BY DEF Cells
    <3> HIDE DEF text, size
    <3> QED
      BY <2>5, <2>6, <3>1
  <2>8. s = Append(TextAt(reg[r]), NL) /\ EndsAt(reg[r]) # {}
    BY <2>1, <2>2, <2>3, <2>4
  <2>9. /\ tmpBuffer' = Printed(s) /\ readLen' = [readLen EXCEPT ![r] = Len(s)]
        /\ rpc' = [rpc EXCEPT ![r] = "copy"]
    BY <1>3, <2>8 DEF ReadFormat, ReaderGoes
  <2>10. readLen'[r] = size /\ rpc'[r] = "copy"
    BY <2>7, <2>9 DEF TypeOK
  <2>11. ASSUME NEW k \in 1 .. size - 1 PROVE tmpBuffer'[k - 1] = mem'[readInd + k - 1]
    <3>1. /\ k - 1 \in Offsets /\ k - 1 < (IF Len(s) < Size THEN Len(s) ELSE Size - 1)
          /\ (IF Len(s) < Size THEN Len(s) ELSE Size - 1) \in Nat
      <4> HIDE DEF s, size
      <4> QED BY <2>5, <2>7 DEF Offsets
    <3>2. Printed(s)[k - 1] = s[k]
      <4> HIDE DEF s, size
      <4>1. k - 1 + 1 = k
        BY <2>5
      <4>2. \A kept \in Nat : k - 1 < kept =>
               (CASE k - 1 < kept -> s[k - 1 + 1] [] k - 1 = kept -> NUL
                  [] k - 1 > kept -> tmpBuffer[k - 1]) = s[k]
        BY <3>1, <4>1 DEF Offsets
      <4> QED
        BY <3>1, <4>2 DEF Printed
    <3>3. text[k] = mem[readInd + k - 1]
      BY <2>1, <2>5
    <3> QED
      BY <2>1, <2>7, <2>9, <3>2, <3>3
  <2>12. (readInd + readLen[r] - 1 \in EndsAt(readInd))'
    <3>1. readInd + size - 1 = j
      BY <2>1, <2>5
    <3>2. EndsAt(readInd)' = EndsIn(mem, readInd)
      BY <2>1, <2>2 DEF EndsAt, EndsIn
    <3> QED
      BY <2>1, <2>3, <2>10, <3>1, <3>2
  <2> QED
    BY <2>1, <2>10, <2>11, <2>12 DEF CopyInv
<1> QED
  BY <1>1, <1>2, <1>3 DEF ReadStep

\* Every step keeps TextInv.
LEMMA TextInvStep ==
  ASSUME OneWriter, OneReader
  PROVE  TypeOK /\ PublishInv /\ WriteInv /\ ReadInv /\ TextInv /\ [Next]_vars => TextInv'
<1> SUFFICES ASSUME TypeOK, PublishInv, WriteInv, ReadInv, TextInv, [Next]_vars, setup' = "done"
             PROVE  (\A w \in Writers : BytesInv(w)') /\ (\A r \in Readers : CopyInv(r)')
  BY DEF TextInv
<1>1. CASE StoreStep /\ UNCHANGED readVars
  <2>1. StoreKeeps /\ setup = "done" /\ readInd' = readInd
    BY <1>1, StoreStepKeeps DEF StoreKeeps, TypeOK
  <2>2. \A r \in Readers : CopyInv(r)'
    BY <1>1, <2>1, StoreStepKeepsCopy DEF TextInv
  <2>3. ASSUME NEW w \in Writers PROVE BytesInv(w)'
    <3>1. ~ResetIndices
      BY DEF ResetIndices
    <3>2. \/ \E c \in Calls : WriteCheck(w, c)
          \/ WriteCopy(w) \/ WriteLoad(w) \/ WriteTerminate(w) \/ WritePublish(w)
      BY <1>1, <3>1 DEF StoreStep, OneWriter
    <3> QED
      BY <2>1, <3>2, BytesStep DEF TypeOK, TextInv
  <2> QED
    BY <2>2, <2>3
<1>2. CASE \E r \in Readers : ReadStep(r)
  <2>1. PICK r \in Readers : ReadStep(r)
    BY <1>2
  <2>2. UNCHANGED <<mem, writeInd, setup, wpc, arg, at>>
    BY <2>1, ReadLeavesStore
  <2>3. CopyInv(r)'
    BY <2>1, <2>2, ReadStepKeepsCopy DEF TextInv
  <2> QED
    BY <2>2, <2>3 DEF TextInv, BytesInv, OneReader
<1>3. CASE UNCHANGED vars
  BY <1>3 DEF vars, storeVars, writeVars, readVars, TextInv, BytesInv, CopyInv, EndsAt
<1> QED
  BY <1>1, <1>2, <1>3 DEF Next, Halted

\* Nothing has been written or read at first.
LEMMA TextInvInit == Init => TextInv
BY DEF Init, StoreInit, TextInv, BytesInv, CopyInv

-------------------------------------------------------------------------------
(* The step simulation of FortuneCycle *)

\* The shelf and the cursor of a state, through the functions above.
LEMMA ShelfIsShelfIn ==
  /\ Shelf = ShelfIn(mem, writeInd)
  /\ \A i : Rank(i) = RankOf(StartsIn(mem, writeInd), i)
  /\ \A i : TextAt(i) = TextIn(mem, i) /\ EndsAt(i) = EndsIn(mem, i)
BY DEF Shelf, Starts, Rank, RankOf, StartsIn, ShelfIn, TextAt, TextIn, EndsAt, EndsIn

\* The same of the next state.
LEMMA ShelfIsShelfInNext ==
  /\ Shelf' = ShelfIn(mem', writeInd')
  /\ \A i : Rank(i)' = RankOf(StartsIn(mem', writeInd'), i)
BY DEF Shelf, Starts, Rank, RankOf, StartsIn, ShelfIn, TextAt, TextIn, EndsAt, EndsIn

\* Moved as a function of the readers' registers.
MovedOf(pc, ind, regs, lens) ==
  IF \E r \in Readers : pc[r] = "wrap" /\ ind >= regs[r] THEN 0
  ELSE ind + (IF \E r \in Readers : pc[r] = "advance"
              THEN lens[CHOOSE r \in Readers : pc[r] = "advance"]
              ELSE 0)

\* Moved is this function, now and in the next state.
LEMMA MovedIsMovedOf ==
  /\ Moved = MovedOf(rpc, readInd, reg, readLen)
  /\ Moved' = MovedOf(rpc', readInd', reg', readLen')
BY DEF Moved, MovedOf

\* Only the one reader's place matters.
LEMMA MovedOfReader ==
  ASSUME OneReader, NEW r \in Readers, NEW pc, NEW ind \in Nat, NEW regs, NEW lens
  PROVE  MovedOf(pc, ind, regs, lens) =
           IF pc[r] = "wrap" /\ ind >= regs[r] THEN 0
           ELSE IF pc[r] = "advance" THEN ind + lens[r] ELSE ind
<1>1. \A q \in Readers : q = r
  BY DEF OneReader
<1>2. pc[r] = "advance" => (CHOOSE q \in Readers : pc[q] = "advance") = r
  BY <1>1
<1>3. (\E q \in Readers : pc[q] = "advance") <=> pc[r] = "advance"
  BY <1>1
<1>4. (\E q \in Readers : pc[q] = "wrap" /\ ind >= regs[q]) <=> pc[r] = "wrap" /\ ind >= regs[r]
  BY <1>1
<1>5. CASE pc[r] = "wrap" /\ ind >= regs[r]
  BY <1>4, <1>5 DEF MovedOf
<1>6. CASE ~(pc[r] = "wrap" /\ ind >= regs[r]) /\ pc[r] = "advance"
  BY <1>2, <1>3, <1>4, <1>6 DEF MovedOf
<1>7. CASE ~(pc[r] = "wrap" /\ ind >= regs[r]) /\ pc[r] # "advance"
  BY <1>3, <1>4, <1>7 DEF MovedOf
<1> QED
  BY <1>5, <1>6, <1>7

\* The rank of the cursor.
LEMMA RankMoved ==
  /\ Rank(Moved) = RankOf(StartsIn(mem, writeInd), Moved)
  /\ Rank(Moved)' = RankOf(StartsIn(mem', writeInd'), Moved')
BY DEF Rank, RankOf, Starts, StartsIn

\* The cursor of the mapping is in the published part.
LEMMA MovedInside ==
  ASSUME OneReader, TypeOK, ReadInv, setup = "done"
  PROVE  Moved \in 0 .. writeInd
<1>1. readInd \in Nat /\ writeInd \in Nat /\ readInd <= writeInd
  BY DEF TypeOK, StoreTypeOK, ReadInv, CursorInv
<1>2. CASE Readers = {}
  BY <1>1, <1>2 DEF Moved
<1>3. ASSUME NEW r \in Readers PROVE Moved \in 0 .. writeInd
  <2>1. readLen[r] \in Nat /\ (rpc[r] = "advance" => readInd + readLen[r] <= writeInd)
    BY DEF TypeOK, ReadInv, ReaderInv
  <2>2. Moved = IF rpc[r] = "wrap" /\ readInd >= reg[r] THEN 0
                ELSE IF rpc[r] = "advance" THEN readInd + readLen[r] ELSE readInd
    BY <1>1, MovedIsMovedOf, MovedOfReader
  <2> QED
    BY <1>1, <2>1, <2>2
<1> QED
  BY <1>2, <1>3

\* A step on the writing side puts one fortune on the shelf, or nothing, and moves
\* no fortune.
LEMMA ShelfStoreStep ==
  ASSUME OneWriter, StoreTypeOK, PublishInv, WriteInv, \A w \in Writers : BytesInv(w),
         StoreTypeOK', StoreStep, setup' = "done"
  PROVE  /\ \/ Shelf' = Shelf
            \/ \E c \in Calls : Shelf' = Append(Shelf, TextOf(c))
         /\ \A i \in 0 .. writeInd : RankOf(StartsIn(mem', writeInd'), i)
                                        = RankOf(StartsIn(mem, writeInd), i)
<1>1. /\ setup = "done" /\ readInd' = readInd
      /\ \A j \in Offsets : j < writeInd => mem'[j] = mem[j]
  BY StoreStepKeeps DEF StoreKeeps
<1>2. Published(mem, writeInd) /\ mem' \in [Offsets -> Cells] /\ writeInd \in Nat
  BY <1>1 DEF StoreTypeOK, WriteInv, LastInv, Published
<1>3. CASE writeInd' = writeInd
  <2>1. StartsIn(mem', writeInd') = StartsIn(mem, writeInd)
        /\ ShelfIn(mem', writeInd') = ShelfIn(mem, writeInd)
    BY <1>1, <1>2, <1>3, ShelfSame
  <2> QED
    BY <2>1, ShelfIsShelfIn, ShelfIsShelfInNext
<1>4. CASE writeInd' # writeInd
  <2>1. PICK w \in Writers : WritePublish(w)
    BY <1>1, <1>4 DEF StoreStep, ResetIndices, WriteCheck, WriteCopy, WriteLoad, WriteTerminate, Oops
  <2> DEFINE c == arg[w]
  <2>2. /\ wpc[w] = "publish" /\ c \in Calls /\ at[w] = writeInd + c.len
        /\ \A k \in 1 .. c.len : mem[writeInd + k - 1] = TextOf(c)[k]
        /\ mem[at[w]] = NUL /\ at[w] < Size
        /\ mem' = mem /\ writeInd' = at[w] + 1
    BY <2>1 DEF WritePublish, BytesInv, WriteInv, WriterInv, PublishInv
  <2>3. c.len \in Nat /\ c.text \in Texts
    BY <2>2, ArgParts
  <2>4. TextOf(c) = [k \in 1 .. c.len |-> IF k < c.len THEN c.text ELSE NL]
    BY DEF TextOf
  <2> HIDE DEF c
  <2>5. \A k \in 1 .. c.len : mem[writeInd + k - 1] # NUL
    BY <2>2, <2>3, <2>4, StoreAssumption
  <2>6. writeInd' = writeInd + c.len + 1 /\ mem[writeInd + c.len] = NUL /\ writeInd + c.len < Size
    BY <2>2
  <2>7. /\ TextIn(mem, writeInd) = [k \in 1 .. c.len |-> mem[writeInd + k - 1]]
        /\ ShelfIn(mem, writeInd + c.len + 1) = Append(ShelfIn(mem, writeInd), TextIn(mem, writeInd))
        /\ \A i \in 0 .. writeInd : RankOf(StartsIn(mem, writeInd + c.len + 1), i)
                                      = RankOf(StartsIn(mem, writeInd), i)
    <3> DEFINE size == c.len
    <3>1. size \in Nat /\ writeInd + size < Size /\ mem[writeInd + size] = NUL
      BY <2>3, <2>6
    <3>2. \A k \in 1 .. size : mem[writeInd + k - 1] # NUL
      BY <2>5
    <3>3. Published(mem, writeInd)
      BY <1>2
    <3> HIDE DEF size
    <3>4. /\ TextIn(mem, writeInd) = [k \in 1 .. size |-> mem[writeInd + k - 1]]
          /\ ShelfIn(mem, writeInd + size + 1) = Append(ShelfIn(mem, writeInd), TextIn(mem, writeInd))
          /\ \A i \in 0 .. writeInd : RankOf(StartsIn(mem, writeInd + size + 1), i)
                                        = RankOf(StartsIn(mem, writeInd), i)
      BY <3>1, <3>2, <3>3, ShelfGrows
    <3> QED
      BY <3>4 DEF size
  <2>8. TextIn(mem, writeInd) = TextOf(c)
    BY <2>2, <2>4, <2>7
  <2>9. Shelf' = Append(Shelf, TextOf(c))
    BY <2>2, <2>6, <2>7, <2>8, ShelfIsShelfIn, ShelfIsShelfInNext
  <2> QED
    BY <2>2, <2>6, <2>7, <2>9
<1> QED
  BY <1>3, <1>4

\* The mapping sees of a step on the writing side what it does to the shelf.
LEMMA StoreSimulates ==
  ASSUME OneWriter, OneReader, TypeOK, PublishInv, WriteInv, ReadInv, TextInv, TypeOK',
         StoreStep, UNCHANGED readVars, setup' = "done"
  PROVE  /\ setup = "done" /\ Rank(Moved)' = Rank(Moved)
         /\ \/ Shelf' = Shelf
            \/ \E c \in Calls : Shelf' = Append(Shelf, TextOf(c))
<1>1. setup = "done" /\ readInd' = readInd
  BY StoreStepKeeps DEF StoreKeeps, TypeOK
<1>2. Moved' = Moved /\ Moved \in 0 .. writeInd
  BY <1>1, MovedInside, MovedIsMovedOf DEF readVars
<1>3. /\ \/ Shelf' = Shelf
         \/ \E c \in Calls : Shelf' = Append(Shelf, TextOf(c))
      /\ \A i \in 0 .. writeInd : RankOf(StartsIn(mem', writeInd'), i)
                                     = RankOf(StartsIn(mem, writeInd), i)
  BY <1>1, ShelfStoreStep DEF TypeOK, TextInv
<1> QED
  BY <1>1, <1>2, <1>3, RankMoved

\* What a reader was given last, without the '\n' that snprintf() has added.
Given == IF given # <<>> THEN SubSeq(given, 1, Len(given) - 1) ELSE <<>>

\* The steps of readFortune() up to copy_to_user(): only the one that finds the
\* round over moves the cursor.
LEMMA ReadMoves ==
  ASSUME OneReader, TypeOK, WriteInv, ReadInv, setup = "done", NEW r \in Readers,
         OpenFortune(r) \/ ReleaseFortune(r) \/ ReadCheck(r) \/ ReadWrap(r) \/ ReadFormat(r)
           \/ ReadAdvance(r)
  PROVE  /\ given' = given
         /\ \/ Moved' = Moved
            \/ Moved = writeInd /\ Moved' = 0 /\ writeInd > 0
<1>1. /\ readInd \in Nat /\ readInd' \in Nat /\ writeInd \in Nat /\ readInd <= writeInd
      /\ readLen[r] \in Nat /\ reg[r] \in Nat
  BY TypesStep DEF TypeOK, StoreTypeOK, ReadInv, CursorInv, OpenFortune, ReleaseFortune, ReadCheck,
    ReadWrap, ReadFormat, ReadAdvance, storeVars, Oops
<1>2. Moved = IF rpc[r] = "wrap" /\ readInd >= reg[r] THEN 0
              ELSE IF rpc[r] = "advance" THEN readInd + readLen[r] ELSE readInd
  <2>1. readInd \in Nat
    BY <1>1
  <2>2. MovedOf(rpc, readInd, reg, readLen) =
          IF rpc[r] = "wrap" /\ readInd >= reg[r] THEN 0
          ELSE IF rpc[r] = "advance" THEN readInd + readLen[r] ELSE readInd
    BY <2>1, MovedOfReader
  <2> QED
    BY <2>2, MovedIsMovedOf, Zenon
<1>3. Moved' = IF rpc'[r] = "wrap" /\ readInd' >= reg'[r] THEN 0
               ELSE IF rpc'[r] = "advance" THEN readInd' + readLen'[r] ELSE readInd'
  BY <1>1, MovedIsMovedOf, MovedOfReader
<1>4. rpc \in [Readers -> {"closed", "open", "wrap", "format", "copy", "advance"}]
      /\ reg \in [Readers -> Nat] /\ readLen \in [Readers -> Nat]
  BY DEF TypeOK
<1>5. CASE OpenFortune(r) \/ ReleaseFortune(r)
  <2>1. /\ rpc[r] \in {"open", "closed"} /\ rpc'[r] \in {"open", "closed"}
        /\ readInd' = readInd /\ given' = given
    BY <1>4, <1>5 DEF OpenFortune, ReleaseFortune, ReaderGoes, storeVars
  <2> QED
    BY <1>2, <1>3, <2>1
<1>6. CASE ReadCheck(r)
  <2>1. /\ rpc[r] = "open" /\ readInd' = readInd /\ given' = given
        /\ \/ rpc'[r] = "open"
           \/ rpc'[r] = "wrap" /\ reg'[r] = writeInd /\ writeInd > 0
    BY <1>4, <1>6 DEF ReadCheck, ReaderGoes, storeVars
  <2> QED
    BY <1>1, <1>2, <1>3, <2>1
<1>7. CASE ReadWrap(r)
  <2>1. /\ rpc[r] = "wrap" /\ rpc'[r] = "format" /\ given' = given
        /\ readInd' = IF readInd >= reg[r] THEN 0 ELSE readInd
    BY <1>4, <1>7 DEF ReadWrap, ReaderGoes
  <2> QED
    BY <1>2, <1>3, <2>1
<1>8. CASE ReadFormat(r)
  <2>1. rpc[r] = "format" /\ rpc'[r] \in {"format", "copy"} /\ readInd' = readInd /\ given' = given
    BY <1>4, <1>8 DEF ReadFormat, ReaderGoes, storeVars, Oops
  <2> QED
    BY <1>2, <1>3, <2>1
<1>9. CASE ReadAdvance(r)
  <2>1. /\ rpc[r] = "advance" /\ rpc'[r] = "open" /\ readInd' = readInd + readLen[r]
        /\ given' = given
    BY <1>4, <1>9 DEF ReadAdvance, ReaderGoes
  <2> QED
    BY <1>2, <1>3, <2>1
<1> QED
  BY <1>5, <1>6, <1>7, <1>8, <1>9

\* copy_to_user() gives the fortune under the cursor, whole, and the cursor counts
\* as moved; a copy that fails gives nothing.
LEMMA CopyTakes ==
  ASSUME OneReader, TypeOK, WriteInv, ReadInv, TextInv, setup = "done", NEW r \in Readers,
         ReadCopy(r)
  PROVE  \/ given' = given /\ Moved' = Moved
         \/ /\ Moved \in StartsIn(mem, writeInd)
            /\ \E j \in EndsIn(mem, Moved) : Moved' = j + 1
            /\ Given' = TextIn(mem, Moved)
<1>1. /\ rpc[r] = "copy" /\ readInd' = readInd
      /\ readInd \in Nat /\ writeInd \in Nat /\ readLen[r] \in Nat /\ readLen[r] > 0
      /\ readInd <= writeInd /\ (readInd = 0 \/ mem[readInd - 1] = NUL)
      /\ readInd + readLen[r] <= writeInd
      /\ rpc \in [Readers -> {"closed", "open", "wrap", "format", "copy", "advance"}]
      /\ readLen \in [Readers -> Nat]
  BY DEF TypeOK, StoreTypeOK, ReadInv, CursorInv, ReaderInv, ReadCopy, storeVars
<1>2. /\ readInd + readLen[r] - 1 \in EndsAt(readInd)
      /\ \A k \in 1 .. readLen[r] - 1 : tmpBuffer[k - 1] = mem[readInd + k - 1]
  BY <1>1 DEF TextInv, CopyInv
<1>3. Moved = readInd
  BY <1>1, MovedIsMovedOf, MovedOfReader
<1>4. Moved' = IF rpc'[r] = "wrap" /\ readInd' >= reg'[r] THEN 0
               ELSE IF rpc'[r] = "advance" THEN readInd' + readLen'[r] ELSE readInd'
  BY <1>1, MovedIsMovedOf, MovedOfReader
<1>5. CASE rpc'[r] = "open" /\ given' = given
  BY <1>1, <1>3, <1>4, <1>5
<1>6. CASE /\ rpc'[r] = "advance" /\ readLen' = readLen
           /\ given' = [k \in 1 .. readLen[r] |-> tmpBuffer[k - 1]]
  <2> DEFINE size == readLen[r]
             j   == readInd + readLen[r] - 1
  <2>1. Moved' = j + 1
    BY <1>1, <1>4, <1>6
  <2>2. j \in EndsIn(mem, readInd)
    BY <1>2, ShelfIsShelfIn
  <2>3. readInd \in StartsIn(mem, writeInd)
    BY <1>1 DEF StartsIn
  <2>4. TextIn(mem, readInd) = [k \in 1 .. j - readInd |-> mem[readInd + k - 1]]
    BY <1>1, <2>2, EndFacts DEF TypeOK, StoreTypeOK
  <2>5. Given' = [k \in 1 .. size - 1 |-> tmpBuffer[k - 1]]
    <3>1. size <= Size /\ Size \in Nat
      BY <1>1, SizeIsNat DEF TypeOK, StoreTypeOK
    <3>2. \A k \in 1 .. size : k - 1 \in Offsets
      BY <1>1, <3>1 DEF Offsets
    <3>3. given' \in [1 .. size -> Cells]
      BY <1>6, <3>2 DEF TypeOK
    <3>4. given' \in Seq(Cells) /\ Len(given') = size
      BY <1>1, <3>3
    <3>5. SubSeq(given', 1, size - 1) = [k \in 1 .. size - 1 |-> given'[k]]
      <4>1. /\ SubSeq(given', 1, size - 1) \in Seq(Cells)
            /\ Len(SubSeq(given', 1, size - 1)) = size - 1
            /\ \A k \in 1 .. size - 1 : SubSeq(given', 1, size - 1)[k] = given'[k]
        BY <1>1, <3>4
      <4> QED
        BY <4>1
    <3>6. given' # <<>>
      BY <1>1, <3>4
    <3>7. \A k \in 1 .. size - 1 : given'[k] = tmpBuffer[k - 1]
      BY <1>1, <1>6
    <3> QED
      BY <3>4, <3>5, <3>6, <3>7 DEF Given
  <2>6. j - readInd = size - 1
    BY <1>1
  <2>7. Given' = TextIn(mem, readInd)
    BY <1>2, <2>4, <2>5, <2>6
  <2> QED
    BY <1>3, <2>1, <2>2, <2>3, <2>7
<1> QED
  BY <1>1, <1>5, <1>6 DEF ReadCopy, ReaderGoes

\* A step of the reader takes the fortune under the cursor, starts a new round, or
\* changes nothing that the mapping sees.
LEMMA ReadSimulates ==
  ASSUME OneReader, TypeOK, WriteInv, ReadInv, TextInv, setup = "done", NEW r \in Readers,
         ReadStep(r)
  PROVE  /\ Shelf' = Shelf
         /\ \/ Given' = Given /\ Rank(Moved)' = Rank(Moved)
            \/ /\ Shelf # <<>> /\ Rank(Moved) = Len(Shelf) + 1
               /\ Rank(Moved)' = 1 /\ Given' = Given
            \/ /\ Rank(Moved) # Len(Shelf) + 1
               /\ Given' = Shelf[Rank(Moved)] /\ Rank(Moved)' = Rank(Moved) + 1
<1>1. UNCHANGED <<mem, writeInd>> /\ writeInd \in Nat
  BY ReadLeavesStore DEF TypeOK, StoreTypeOK
<1>2. Shelf' = Shelf /\ Shelf = ShelfIn(mem, writeInd)
  BY <1>1, ShelfIsShelfIn, ShelfIsShelfInNext
<1>3. Published(mem, writeInd)
  BY DEF TypeOK, StoreTypeOK, WriteInv, LastInv, Published
<1>4. /\ Rank(Moved) = RankOf(StartsIn(mem, writeInd), Moved)
      /\ Rank(Moved)' = RankOf(StartsIn(mem, writeInd), Moved')
  BY <1>1, RankMoved
<1>5. CASE ~ReadCopy(r)
  <2>1. /\ given' = given
        /\ \/ Moved' = Moved
           \/ Moved = writeInd /\ Moved' = 0 /\ writeInd > 0
    BY <1>5, ReadMoves DEF ReadStep
  <2> QED
    BY <1>1, <1>2, <1>4, <2>1, ShelfEnds DEF Given
<1>6. CASE ReadCopy(r)
  <2>1. CASE given' = given /\ Moved' = Moved
    BY <1>2, <1>4, <2>1 DEF Given
  <2>2. CASE /\ Moved \in StartsIn(mem, writeInd)
             /\ \E j \in EndsIn(mem, Moved) : Moved' = j + 1
             /\ Given' = TextIn(mem, Moved)
    <3>1. PICK j \in EndsIn(mem, Moved) : Moved' = j + 1
      BY <2>2
    <3>2. /\ RankOf(StartsIn(mem, writeInd), Moved) \in 1 .. Len(ShelfIn(mem, writeInd))
          /\ ShelfIn(mem, writeInd)[RankOf(StartsIn(mem, writeInd), Moved)] = TextIn(mem, Moved)
          /\ RankOf(StartsIn(mem, writeInd), j + 1) = RankOf(StartsIn(mem, writeInd), Moved) + 1
      BY <1>3, <2>2, <3>1, ShelfAtStart
    <3>3. Len(ShelfIn(mem, writeInd)) \in Nat
      BY <1>1, ShelfIsSeq
    <3> QED
      BY <1>2, <1>4, <2>2, <3>1, <3>2, <3>3
  <2> QED
    BY <1>6, <2>1, <2>2, CopyTakes
<1> QED
  BY <1>5, <1>6

-------------------------------------------------------------------------------
(* fortune.c: what is proved *)

\* Type correctness, for any number of readers and writers: the indices are
\* natural numbers, writeInd stays in the buffer.
THEOREM FortuneTypes == Spec => []TypeOK
BY TypesInit, TypesStep, PTL DEF Spec

\* With one writer every string that starts below writeInd ends in the buffer,
\* whatever the readers do and whenever initFortune() resets the indices.
THEOREM EveryTextEnds ==
  ASSUME OneWriter
  PROVE  Spec => []PublishedEnds
<1>1. TypeOK /\ WriteInv => PublishedEnds
  <2> SUFFICES ASSUME TypeOK, WriteInv, NEW k \in 0 .. writeInd - 1 PROVE EndsAt(k) # {}
    BY DEF PublishedEnds
  <2>1. k \in Nat /\ k < writeInd
    BY DEF TypeOK, StoreTypeOK
  <2> QED
    BY <2>1, EndsBelow DEF TypeOK, WriteInv
<1> QED
  BY <1>1, StoreInvariant, PTL

\* With one writer the bytes of a published fortune are never written again:
\* what a reader finds below writeInd it finds there as long as it looks.
THEOREM PublishedBytesStay ==
  ASSUME OneWriter
  PROVE  Spec => [][\A j \in Offsets : j < writeInd => mem'[j] = mem[j]]_vars
<1>1. TypeOK /\ PublishInv /\ WriteInv /\ [Next]_vars
        => [\A j \in Offsets : j < writeInd => mem'[j] = mem[j]]_vars
  BY StoreStepKeeps, ReadLeavesStore DEF Next, Halted, TypeOK, StoreKeeps
<1> QED
  BY <1>1, StoreInvariant, PTL DEF Spec

\* With one writer, and one reader that comes after initFortune(), readInd always
\* is at the start of a published fortune or behind the last one: no lock is
\* needed.
THEOREM CursorStaysAtFortune ==
  ASSUME OneWriter, OneReader
  PROVE  Spec => []CursorAtFortune
<1>1. Spec => []ReadInv
  BY StoreInvariant, ReadInvStep, ReadInvInit, PTL DEF Spec
<1>2. WriteInv /\ ReadInv => CursorAtFortune
  BY DEF WriteInv, LastInv, ReadInv, CursorInv, CursorAtFortune
<1> QED
  BY <1>1, <1>2, StoreInvariant, PTL

-------------------------------------------------------------------------------
\* The refinement: with one writer, and one reader that comes after initFortune(),
\* readFortune() and writeFortune() together are a shelf of fortunes with a cursor,
\* for every size of the buffer and however the two overlap.
THEOREM FortunesInCycle ==
  ASSUME OneWriter, OneReader
  PROVE  Spec => ReadsInCycle
<1> DEFINE Inv == TypeOK /\ PublishInv /\ WriteInv /\ ReadInv /\ TextInv
<1>1. Spec => []Inv
  <2>1. Init => Inv
    BY TypesInit, WriteInvInit, ReadInvInit, TextInvInit
  <2>2. Inv /\ [Next]_vars => Inv'
    BY TypesStep, WriteInvStep, ReadInvStep, TextInvStep
  <2> QED
    BY <2>1, <2>2, PTL DEF Spec
<1>2. Init => Cycle!Init
  <2> SUFFICES ASSUME Init PROVE Cycle!Init
    OBVIOUS
  <2>1. writeInd = 0 /\ readInd = 0 /\ given = <<>> /\ \A r \in Readers : rpc[r] = "closed"
    BY DEF Init, StoreInit
  <2>2. Shelf = <<>> /\ Rank(0) = 1
    BY <2>1, ShelfIsShelfIn, ShelfEnds
  <2>3. Moved = 0
    BY <2>1 DEF Moved
  <2> QED
    BY <2>1, <2>2, <2>3 DEF Cycle!Init
<1>3. Inv /\ Inv' /\ [Next]_vars => [Cycle!ProcNext]_(Cycle!vars)
  <2> SUFFICES ASSUME Inv, Inv', [Next]_vars PROVE [Cycle!ProcNext]_(Cycle!vars)
    OBVIOUS
  <2> USE DEF Cycle!ProcNext, Cycle!vars, Cycle!Put, Cycle!Take, Cycle!Rewind, Cycle!AtEnd
  <2>1. CASE setup' # "done"
    <3>1. setup # "done"
      <4>1. setup' = setup \/ setup = "visible"
        BY ReadLeavesStore DEF Next, StoreStep, ResetIndices, WriteCheck, WriteCopy, WriteLoad,
          WriteTerminate, WritePublish, Oops, Halted, vars, storeVars
      <4> QED
        BY <2>1, <4>1
    <3> QED
      BY <2>1, <3>1
  <2>2. CASE setup' = "done" /\ StoreStep /\ UNCHANGED readVars
    <3>1. /\ setup = "done" /\ Rank(Moved)' = Rank(Moved)
          /\ \/ Shelf' = Shelf
             \/ \E c \in Calls : Shelf' = Append(Shelf, TextOf(c))
      BY <2>2, StoreSimulates
    <3>2. given' = given
      BY <2>2 DEF readVars
    <3> QED
      BY <2>2, <3>1, <3>2
  <2>3. CASE setup' = "done" /\ \E r \in Readers : ReadStep(r)
    <3>1. PICK r \in Readers : ReadStep(r)
      BY <2>3
    <3>2. setup = "done"
      BY <2>3, <3>1, ReadLeavesStore
    <3>3. /\ Shelf' = Shelf
          /\ \/ Given' = Given /\ Rank(Moved)' = Rank(Moved)
             \/ /\ Shelf # <<>> /\ Rank(Moved) = Len(Shelf) + 1
                /\ Rank(Moved)' = 1 /\ Given' = Given
             \/ /\ Rank(Moved) # Len(Shelf) + 1
                /\ Given' = Shelf[Rank(Moved)] /\ Rank(Moved)' = Rank(Moved) + 1
      BY <3>1, <3>2, ReadSimulates
    <3>4. /\ (IF setup = "done" /\ given # <<>> THEN SubSeq(given, 1, Len(given) - 1) ELSE <<>>)
             = Given
          /\ (IF setup' = "done" /\ given' # <<>> THEN SubSeq(given', 1, Len(given') - 1) ELSE <<>>)
             = Given'
      BY <2>3, <3>2 DEF Given
    <3> QED
      BY <2>3, <3>2, <3>3, <3>4
  <2>4. CASE UNCHANGED vars
    <3>1. Shelf' = Shelf /\ Rank(Moved)' = Rank(Moved) /\ setup' = setup /\ given' = given
      BY <2>4, ShelfIsShelfIn, ShelfIsShelfInNext, RankMoved, MovedIsMovedOf
        DEF vars, storeVars, readVars
    <3> QED
      BY <3>1
  <2> QED
    BY <2>1, <2>2, <2>3, <2>4 DEF Next, Halted
<1> QED
  BY <1>1, <1>2, <1>3, PTL DEF Spec, ReadsInCycle, Cycle!ProcSpec

-------------------------------------------------------------------------------
(* seqfile.c: types, for any number of readers and writers *)

\* showFortune() leaves the writers and their bytes alone.
LEMMA ShowLeavesStore ==
  ASSUME NEW r \in Readers, ShowStep(r)
  PROVE  UNCHANGED <<mem, writeInd, setup, wpc, arg, at, reply>>
BY DEF ShowStep, SingleOpen, SingleRelease, ShowMeasure, ShowWrap, ShowPrint, ShowAdvance,
   Oops, storeVars, writeVars

\* Measuring gives the distance to the end of the string.
LEMMA MeasureIsDistance ==
  ASSUME SeqTypeOK, NEW r \in Readers, ShowMeasure(r), EndsAt(readInd) # {}
  PROVE  /\ len'[r] \in 0 .. Size /\ readInd + len'[r] \in EndsAt(readInd)
         /\ spc' = [spc EXCEPT ![r] = "wrap"] /\ len' = [len EXCEPT ![r] = len'[r]]
         /\ UNCHANGED storeVars /\ UNCHANGED shown
<1>1. PICK j \in EndsAt(readInd) : Len(TextAt(readInd)) = j - readInd
  BY TextAtIsText DEF SeqTypeOK, StoreTypeOK
<1>2. /\ len' = [len EXCEPT ![r] = Len(TextAt(readInd))]
      /\ spc' = [spc EXCEPT ![r] = "wrap"] /\ UNCHANGED storeVars /\ UNCHANGED shown
  BY DEF ShowMeasure, ShowGoes
<1>3. len'[r] = j - readInd
  BY <1>1, <1>2 DEF SeqTypeOK
<1>4. j \in Nat /\ j < Size /\ readInd <= j /\ readInd \in Nat /\ Size \in Nat
  BY <1>1, EndsAtMember, SizeIsNat DEF SeqTypeOK, StoreTypeOK, Offsets
<1>5. len'[r] \in 0 .. Size /\ readInd + len'[r] = j
  BY <1>3, <1>4
<1>6. len' = [len EXCEPT ![r] = len'[r]]
  BY <1>2 DEF SeqTypeOK
<1> QED
  BY <1>1, <1>2, <1>5, <1>6

\* A step of showFortune() keeps the types.
LEMMA ShowStepTypes ==
  ASSUME SeqTypeOK, NEW r \in Readers, ShowStep(r)
  PROVE  SeqTypeOK'
<1>1. /\ mem' \in [Offsets -> Cells] /\ writeInd' \in 0 .. Size
      /\ setup' \in {"done", "visible", "late"}
      /\ wpc' \in [Writers -> {"idle", "copy", "load", "terminate", "publish"}]
      /\ arg' \in [Writers -> Calls \cup {NoCall}]
      /\ at' \in [Writers -> Nat]
      /\ reply' \in [Writers -> {"none", "len", "ENOSPC", "EFAULT"}]
  BY ShowLeavesStore DEF SeqTypeOK, StoreTypeOK
<1>2. Size \in Nat /\ readInd \in Nat /\ oops \in BOOLEAN
      /\ spc \in [Readers -> {"closed", "open", "wrap", "print", "advance", "shown"}]
      /\ len \in [Readers -> 0 .. Size]
  BY SizeIsNat DEF SeqTypeOK, StoreTypeOK
<1> SUFFICES /\ readInd' \in Nat /\ oops' \in BOOLEAN
             /\ spc' \in [Readers -> {"closed", "open", "wrap", "print", "advance", "shown"}]
             /\ len' \in [Readers -> 0 .. Size]
  BY <1>1 DEF SeqTypeOK, StoreTypeOK
<1>3. CASE SingleOpen(r) \/ SingleRelease(r)
  BY <1>2, <1>3 DEF SingleOpen, SingleRelease, ShowGoes, storeVars
<1>4. CASE ShowMeasure(r)
  <2>1. CASE EndsAt(readInd) # {}
    BY <1>2, <1>4, <2>1, MeasureIsDistance DEF storeVars
  <2>2. CASE EndsAt(readInd) = {}
    BY <1>2, <1>4, <2>2 DEF ShowMeasure, Oops
  <2> QED
    BY <2>1, <2>2
<1>5. CASE ShowWrap(r)
  BY <1>2, <1>5 DEF ShowWrap, ShowGoes
<1>6. CASE ShowPrint(r)
  BY <1>2, <1>6 DEF ShowPrint, ShowGoes, Oops, storeVars
<1>7. CASE ShowAdvance(r)
  <2>1. len[r] \in Nat
    BY <1>2
  <2> QED
    BY <1>2, <1>7, <2>1 DEF ShowAdvance, ShowGoes
<1> QED
  BY <1>3, <1>4, <1>5, <1>6, <1>7 DEF ShowStep

\* Every step keeps the types.
LEMMA SeqTypesStep == SeqTypeOK /\ PublishInv /\ [SeqNext]_seqVars => SeqTypeOK' /\ PublishInv'
<1> SUFFICES ASSUME SeqTypeOK, PublishInv, [SeqNext]_seqVars PROVE SeqTypeOK' /\ PublishInv'
  OBVIOUS
<1>1. CASE UNCHANGED seqVars
  BY <1>1 DEF seqVars, storeVars, writeVars, showVars, SeqTypeOK, StoreTypeOK, PublishInv
<1>2. CASE StoreStep /\ UNCHANGED showVars
  <2>1. StoreTypeOK' /\ PublishInv'
    BY <1>2, StoreStepTypes DEF SeqTypeOK
  <2> QED
    BY <1>2, <2>1 DEF SeqTypeOK, showVars
<1>3. CASE \E r \in Readers : ShowStep(r)
  BY <1>3, ShowStepTypes, ShowLeavesStore DEF PublishInv
<1> QED
  BY <1>1, <1>2, <1>3 DEF SeqNext, SeqHalted

\* The types hold before the first call.
LEMMA SeqTypesInit == SeqInit => SeqTypeOK /\ PublishInv
<1> SUFFICES ASSUME SeqInit PROVE SeqTypeOK /\ PublishInv
  OBVIOUS
<1>1. Size \in Nat
  BY SizeIsNat
<1>2. writeInd \in 0 .. Size /\ mem \in [Offsets -> Cells]
  BY <1>1 DEF SeqInit, StoreInit, Cells
<1>3. StoreTypeOK /\ PublishInv
  BY <1>2 DEF SeqInit, StoreInit, StoreTypeOK, PublishInv
<1>4. 0 \in 0 .. Size
  BY <1>1
<1> QED
  BY <1>3, <1>4 DEF SeqInit, SeqTypeOK

-------------------------------------------------------------------------------
(* seqfile.c: who is at work *)

\* Nobody else reads while a write may be under way.
OneHasty == \A q, r \in Hasty : q = r

\* One handler after the other, or those readers only that do not wait.
TurnInv ==
  /\ serial => /\ \A q, r \in Readers : ~ShowIdle(q) /\ ~ShowIdle(r) => q = r
               /\ WritersIdle \/ \A r \in Readers : ShowIdle(r)
  /\ ~serial => \A r \in Readers \ Hasty : spc[r] = "closed"

\* The reader that prints has compared readInd with a writeInd that has only grown.
PrintInv == \A r \in Readers : spc[r] = "print" => readInd < writeInd \/ readInd = 0

\* Of the readers only the one that takes a step moves.
LEMMA ShowMovesOne ==
  ASSUME SeqTypeOK, NEW r \in Readers, ShowStep(r), NEW q \in Readers, q # r
  PROVE  spc'[q] = spc[q] /\ len'[q] = len[q]
BY DEF SeqTypeOK, ShowStep, SingleOpen, SingleRelease, ShowMeasure, ShowWrap, ShowPrint,
   ShowAdvance, ShowGoes

\* Every step leaves the handlers in their order.
LEMMA TurnInvStep == SeqTypeOK /\ TurnInv /\ [SeqNext]_seqVars => TurnInv'
<1> SUFFICES ASSUME SeqTypeOK, TurnInv, [SeqNext]_seqVars PROVE TurnInv'
  OBVIOUS
<1>1. CASE MayWrite /\ StoreStep /\ UNCHANGED showVars
  BY <1>1 DEF MayWrite, TurnInv, ShowIdle, WritersIdle, showVars
<1>2. ASSUME NEW r \in Readers, MayShow(r), ShowStep(r), UNCHANGED serial PROVE TurnInv'
  <2>1. wpc' = wpc /\ \A q \in Readers \ {r} : spc'[q] = spc[q]
    BY <1>2, ShowLeavesStore, ShowMovesOne
  <2>2. CASE serial
    <3>1. WritersIdle /\ \A q \in Readers \ {r} : ShowIdle(q)
      BY <1>2, <2>2 DEF MayShow
    <3>2. WritersIdle' /\ \A q \in Readers \ {r} : ShowIdle(q)'
      BY <2>1, <3>1 DEF WritersIdle, ShowIdle
    <3> QED
      BY <1>2, <2>2, <3>2 DEF TurnInv
  <2>3. CASE ~serial
    <3>1. r \in Hasty
      BY <1>2, <2>3 DEF MayShow
    <3> QED
      BY <1>2, <2>1, <2>3, <3>1 DEF TurnInv
  <2> QED
    BY <2>2, <2>3
<1>3. CASE UNCHANGED seqVars
  BY <1>3 DEF seqVars, storeVars, writeVars, showVars, TurnInv, ShowIdle, WritersIdle
<1> QED
  BY <1>1, <1>2, <1>3 DEF SeqNext, SeqHalted

\* With one reader that does not wait, the others are between two calls while one
\* is in showFortune().
LEMMA OneShows ==
  ASSUME OneHasty, TurnInv, NEW q \in Readers, NEW r \in Readers, ~ShowIdle(q), ~ShowIdle(r)
  PROVE  q = r
BY DEF OneHasty, TurnInv, ShowIdle

\* The store, which the readers do not touch.
SeqStoreInv == SeqTypeOK /\ PublishInv /\ WriteInv /\ setup = "done"

\* Every step keeps it.
LEMMA SeqStoreInvStep ==
  ASSUME OneWriter
  PROVE  SeqStoreInv /\ [SeqNext]_seqVars => SeqStoreInv'
<1> SUFFICES ASSUME SeqStoreInv, [SeqNext]_seqVars PROVE WriteInv' /\ setup' = "done"
  BY SeqTypesStep DEF SeqStoreInv
<1>1. CASE StoreStep
  <2>1. WriteInv'
    BY <1>1, StoreStepKeeps DEF SeqStoreInv, SeqTypeOK
  <2>2. setup' = setup
    BY <1>1 DEF SeqStoreInv, StoreStep, ResetIndices, WriteCheck, WriteCopy, WriteLoad,
      WriteTerminate, WritePublish, Oops
  <2> QED
    BY <2>1, <2>2 DEF SeqStoreInv
<1>2. CASE UNCHANGED <<mem, writeInd, setup, wpc, arg, at>>
  BY <1>2 DEF SeqStoreInv, WriteInv, WriterInv, LastInv
<1> QED
  BY <1>1, <1>2, ShowLeavesStore DEF SeqNext, SeqHalted, seqVars, storeVars, writeVars

\* It holds before the first call.
LEMMA SeqStoreInvInit == SeqInit => SeqStoreInv
BY SeqTypesInit DEF SeqStoreInv, SeqInit, StoreInit, WriteInv, WriterInv, LastInv

\* A write does not move readInd or take bytes back.
LEMMA SeqStoreKeeps ==
  ASSUME OneWriter, SeqStoreInv, SeqStoreInv', StoreStep
  PROVE  /\ readInd' = readInd /\ writeInd <= writeInd'
         /\ \A j \in Offsets : j < writeInd => mem'[j] = mem[j]
BY StoreStepKeeps DEF SeqStoreInv, SeqTypeOK, StoreKeeps

\* Every step keeps PrintInv.
LEMMA PrintInvStep ==
  ASSUME OneWriter, OneHasty
  PROVE  SeqStoreInv /\ SeqStoreInv' /\ TurnInv /\ PrintInv /\ [SeqNext]_seqVars => PrintInv'
<1> SUFFICES ASSUME SeqStoreInv, SeqStoreInv', TurnInv, PrintInv, [SeqNext]_seqVars,
                    NEW r \in Readers, spc'[r] = "print"
             PROVE  readInd' < writeInd' \/ readInd' = 0
  BY DEF PrintInv
<1>1. readInd \in Nat /\ writeInd \in Nat /\ writeInd' \in Nat
      /\ spc \in [Readers -> {"closed", "open", "wrap", "print", "advance", "shown"}]
  BY DEF SeqStoreInv, SeqTypeOK, StoreTypeOK
<1>2. CASE StoreStep /\ UNCHANGED showVars
  BY <1>1, <1>2, SeqStoreKeeps DEF showVars, PrintInv
<1>3. ASSUME NEW q \in Readers, ShowStep(q) PROVE readInd' < writeInd' \/ readInd' = 0
  <2>1. writeInd' = writeInd
    BY <1>3, ShowLeavesStore
  <2>2. CASE q # r
    <3>1. spc[r] = "print"
      BY <1>3, <2>2, ShowMovesOne DEF SeqStoreInv
    <3>2. ShowIdle(q)
      BY <2>2, <3>1, OneShows DEF ShowIdle
    <3>3. readInd' = readInd
      BY <1>3, <3>2 DEF ShowIdle, ShowStep, SingleOpen, SingleRelease, ShowMeasure, ShowWrap,
        ShowPrint, ShowAdvance, ShowGoes, Oops, storeVars
    <3> QED
      BY <2>1, <3>1, <3>3 DEF PrintInv
  <2>3. CASE q = r /\ ShowWrap(r)
    BY <1>1, <2>1, <2>3 DEF ShowWrap
  <2>4. CASE q = r /\ ~ShowWrap(r)
    <3>1. spc[r] = "print" /\ readInd' = readInd
      BY <1>1, <1>3, <2>4 DEF ShowStep, SingleOpen, SingleRelease, ShowMeasure, ShowPrint,
        ShowAdvance, ShowGoes, Oops, storeVars
    <3> QED
      BY <2>1, <3>1 DEF PrintInv
  <2> QED
    BY <2>2, <2>3, <2>4
<1>4. CASE UNCHANGED seqVars
  BY <1>4 DEF seqVars, storeVars, showVars, PrintInv
<1> QED
  BY <1>2, <1>3, <1>4 DEF SeqNext, SeqHalted

-------------------------------------------------------------------------------
(* seqfile.c: one handler after the other *)

\* A copy that fails leaves nothing behind writeInd.
WholeCopies == FailedCopies \subseteq {0}

\* Behind writeInd and the text that is being written there are only zeros.
TailInv ==
  \A j \in Offsets :
    /\ j >= writeInd
    /\ \A w \in Writers : wpc[w] \in {"load", "terminate", "publish"} => j >= writeInd + arg[w].len
    => mem[j] = NUL

\* No fortune is empty.
FullInv == \A i \in StartsIn(mem, writeInd) : mem[i] # NUL

\* Where len is measured is where the text ends that will be printed; a reader that
\* measured nothing prints the first fortune.
ShowInv(r) ==
  /\ spc[r] \in {"closed", "open", "shown"} => len[r] = 0
  /\ spc[r] = "wrap" => readInd + len[r] \in EndsAt(readInd)
  /\ spc[r] \in {"print", "advance"} =>
       IF len[r] = 0 THEN readInd = 0
       ELSE readInd < writeInd /\ readInd + len[r] \in EndsAt(readInd)

CycleInv ==
  serial =>
    /\ CursorInv
    /\ \A w \in Writers : BytesInv(w)
    /\ TailInv /\ FullInv
    /\ \A r \in Readers : ShowInv(r)
    /\ writeInd = 0 => shown = <<>>

\* The writer leaves zeros behind its text.
LEMMA TailStep ==
  ASSUME OneWriter, WholeCopies, StoreTypeOK, NEW w \in Writers, BytesInv(w), TailInv,
         \/ \E c \in Calls : WriteCheck(w, c)
         \/ WriteCopy(w) \/ WriteLoad(w) \/ WriteTerminate(w) \/ WritePublish(w)
  PROVE  TailInv'
<1> SUFFICES ASSUME NEW j \in Offsets, j >= writeInd',
                    \A v \in Writers : wpc'[v] \in {"load", "terminate", "publish"}
                                         => j >= writeInd' + arg'[v].len
             PROVE  mem'[j] = NUL
  BY DEF TailInv
<1>1. /\ j \in Nat /\ writeInd \in Nat /\ at[w] \in Nat /\ j < Size
      /\ wpc \in [Writers -> {"idle", "copy", "load", "terminate", "publish"}]
      /\ arg[w].len \in Nat /\ \A v \in Writers : v = w
  BY SizeIsNat, CallParts DEF StoreTypeOK, Offsets, OneWriter
<1>2. /\ j >= writeInd
      /\ wpc[w] \in {"load", "terminate", "publish"} => j >= writeInd + arg[w].len
      => mem[j] = NUL
  BY <1>1 DEF TailInv
<1>3. CASE \E c \in Calls : WriteCheck(w, c)
  BY <1>2, <1>3 DEF WriteCheck
<1>4. CASE WriteCopy(w)
  <2>1. wpc[w] = "copy" /\ at[w] = writeInd /\ writeInd' = writeInd
    BY <1>4 DEF BytesInv, WriteCopy, Oops
  <2>2. mem[j] = NUL
    BY <1>2, <2>1
  <2>3. CASE mem' = Copied(at[w], arg[w].len, arg[w]) /\ WriterGoes(w, "copy", "load") /\ arg' = arg
    <3>1. wpc'[w] = "load"
      BY <1>1, <2>3 DEF WriterGoes
    <3>2. j >= at[w] + arg[w].len
      BY <2>1, <2>3, <3>1
    <3> QED
      BY <1>1, <2>2, <2>3, <3>2 DEF Copied
  <2>4. CASE mem' = Copied(at[w], 0, arg[w])
    BY <1>1, <2>2, <2>4 DEF Copied
  <2>5. CASE mem' = mem
    BY <2>2, <2>5
  <2> QED
    BY <1>4, <2>3, <2>4, <2>5 DEF WriteCopy, Oops, WholeCopies
<1>5. CASE WriteLoad(w)
  BY <1>1, <1>2, <1>5 DEF WriteLoad, WriterGoes
<1>6. CASE WriteTerminate(w)
  <2>1. /\ wpc[w] = "terminate" /\ at[w] = writeInd + arg[w].len
        /\ writeInd' = writeInd /\ arg' = arg
    BY <1>6 DEF BytesInv, WriteTerminate, Oops
  <2>2. wpc'[w] \in {"terminate", "publish"}
    BY <1>1, <1>6 DEF WriteTerminate, WriterGoes, Oops
  <2>3. j >= at[w] /\ mem[j] = NUL
    BY <1>1, <1>2, <2>1, <2>2
  <2>4. CASE mem' = [mem EXCEPT ![at[w] - 1] = NL, ![at[w]] = NUL]
    BY <1>1, <2>3, <2>4 DEF StoreTypeOK
  <2> QED
    BY <1>6, <2>3, <2>4 DEF WriteTerminate, Oops
<1>7. CASE WritePublish(w)
  <2>1. wpc[w] = "publish" /\ writeInd' = writeInd + arg[w].len + 1 /\ mem' = mem
    BY <1>7 DEF BytesInv, WritePublish
  <2> QED
    BY <1>1, <1>2, <2>1
<1> QED
  BY <1>3, <1>4, <1>5, <1>6, <1>7

\* A fortune that is published has a first byte.
LEMMA FullStep ==
  ASSUME OneWriter, StoreTypeOK, StoreTypeOK', NEW w \in Writers, BytesInv(w), FullInv,
         writeInd <= writeInd', \A j \in Offsets : j < writeInd => mem'[j] = mem[j],
         \/ \E c \in Calls : WriteCheck(w, c)
         \/ WriteCopy(w) \/ WriteLoad(w) \/ WriteTerminate(w) \/ WritePublish(w)
  PROVE  FullInv'
<1> SUFFICES ASSUME NEW i, i \in 0 .. writeInd' - 1, i = 0 \/ mem'[i - 1] = NUL
             PROVE  mem'[i] # NUL
  BY Zenon DEF FullInv, StartsIn
<1>1. /\ writeInd \in Nat /\ writeInd' \in Nat /\ writeInd' <= Size /\ Size \in Nat
      /\ i \in Nat /\ i < writeInd'
  <2>1. writeInd \in Nat
    BY SizeIsNat DEF StoreTypeOK
  <2>2. writeInd' \in Nat /\ writeInd' <= Size /\ Size \in Nat
    BY SizeIsNat DEF StoreTypeOK
  <2>3. \A n \in Nat : i \in 0 .. n - 1 => i \in Nat /\ i < n
    OBVIOUS
  <2> QED
    BY <2>1, <2>2, <2>3
<1>2. CASE i < writeInd
  <2>1. mem'[i] = mem[i] /\ (i > 0 => mem'[i - 1] = mem[i - 1])
    BY <1>1, <1>2 DEF Offsets
  <2>2. i \in StartsIn(mem, writeInd)
    BY <1>1, <1>2, <2>1 DEF StartsIn
  <2> QED
    BY <2>1, <2>2 DEF FullInv
<1>3. CASE ~(i < writeInd)
  <2>1. writeInd' # writeInd
    BY <1>1, <1>3
  <2>2. WritePublish(w)
    BY <2>1 DEF WriteCheck, WriteCopy, WriteLoad, WriteTerminate, Oops
  <2> DEFINE c == arg[w]
  <2>3. /\ c \in Calls /\ writeInd' = writeInd + c.len + 1 /\ mem' = mem
        /\ \A k \in 1 .. c.len : mem[writeInd + k - 1] = TextOf(c)[k]
    BY <2>2 DEF BytesInv, WritePublish
  <2>4. c.len \in Nat /\ c.len > 0 /\ c.text \in Texts
    BY <2>3, ArgParts DEF OneWriter
  <2> HIDE DEF c
  <2>5. ASSUME NEW k \in 1 .. c.len PROVE mem[writeInd + k - 1] # NUL
    <3>1. TextOf(c)[k] = IF k < c.len THEN c.text ELSE NL
      BY DEF TextOf
    <3> QED
      BY <2>3, <2>4, <3>1, StoreAssumption
  <2>6. CASE i = writeInd
    BY <1>1, <2>3, <2>4, <2>5, <2>6
  <2>7. CASE i > writeInd
    <3>1. i - writeInd \in 1 .. c.len /\ writeInd + (i - writeInd) - 1 = i - 1 /\ i # 0
      BY <1>1, <2>3, <2>4, <2>7
    <3> QED
      BY <1>1, <2>3, <2>5, <3>1
  <2> QED
    BY <1>1, <1>3, <2>6, <2>7
<1> QED
  BY <1>2, <1>3

\* A write between two reads keeps what the readers rely on.
LEMMA WriteKeepsCycle ==
  ASSUME OneWriter, WholeCopies, SeqStoreInv, SeqStoreInv', CycleInv, serial, MayWrite, StoreStep,
         UNCHANGED showVars
  PROVE  CycleInv'
<1>1. /\ readInd' = readInd /\ writeInd <= writeInd'
      /\ \A j \in Offsets : j < writeInd => mem'[j] = mem[j]
  BY SeqStoreKeeps
<1>2. /\ readInd \in Nat /\ writeInd \in Nat /\ writeInd' \in Nat /\ writeInd <= Size /\ Size \in Nat
  BY SizeIsNat DEF SeqStoreInv, SeqTypeOK, StoreTypeOK
<1>3. PICK w \in Writers :
        \/ \E c \in Calls : WriteCheck(w, c)
        \/ WriteCopy(w) \/ WriteLoad(w) \/ WriteTerminate(w) \/ WritePublish(w)
  BY DEF StoreStep, ResetIndices, SeqStoreInv
<1>4. /\ CursorInv /\ BytesInv(w) /\ TailInv /\ FullInv
      /\ \A r \in Readers : ShowInv(r)
      /\ writeInd = 0 => shown = <<>>
  BY DEF CycleInv
<1>5. CursorInv'
  BY <1>1, <1>2, <1>4 DEF CursorInv, Offsets
<1>6. \A v \in Writers : BytesInv(v)'
  BY <1>3, <1>4, BytesStep DEF SeqStoreInv, SeqTypeOK, OneWriter
<1>7. TailInv' /\ FullInv'
  BY <1>1, <1>3, <1>4, TailStep, FullStep DEF SeqStoreInv, SeqTypeOK
<1>8. ASSUME NEW r \in Readers PROVE ShowInv(r)'
  <2>1. ShowIdle(r) /\ ShowInv(r) /\ spc' = spc /\ len' = len
    BY <1>4 DEF MayWrite, showVars
  <2> QED
    BY <2>1 DEF ShowIdle, ShowInv
<1>9. writeInd' = 0 => shown' = <<>>
  BY <1>1, <1>2, <1>4 DEF showVars
<1> QED
  BY <1>5, <1>6, <1>7, <1>8, <1>9 DEF CycleInv

\* What a reader finds while nobody writes: zeros behind writeInd, and a text
\* wherever readInd is below it.
LEMMA ReaderFinds ==
  ASSUME SeqStoreInv, CycleInv, serial, WritersIdle
  PROVE  /\ readInd \in Nat /\ writeInd \in Nat /\ readInd <= writeInd
         /\ readInd = 0 \/ mem[readInd - 1] = NUL
         /\ readInd = writeInd => \A j \in EndsAt(readInd) : j = readInd
         /\ readInd < writeInd => \A j \in EndsAt(readInd) : readInd < j /\ j < writeInd
         /\ \A j \in EndsAt(readInd) : j \in Nat /\ mem[j] = NUL
<1>1. readInd \in Nat /\ writeInd \in Nat
  BY DEF SeqStoreInv, SeqTypeOK, StoreTypeOK
<1>2. readInd <= writeInd /\ (readInd = 0 \/ mem[readInd - 1] = NUL)
  BY DEF CycleInv, CursorInv
<1>3. \A j \in Offsets : j >= writeInd => mem[j] = NUL
  BY DEF CycleInv, TailInv, WritersIdle
<1>4. ASSUME NEW j \in EndsAt(readInd), readInd = writeInd PROVE j = readInd
  <2>1. /\ j \in Offsets /\ readInd <= j
        /\ \A l \in Offsets : readInd <= l /\ l < j => mem[l] # NUL
    BY EndsAtMember
  <2>2. j \in Nat /\ readInd \in Offsets
    BY <1>1, <2>1, SizeIsNat DEF Offsets
  <2> QED
    BY <1>1, <1>3, <1>4, <2>1, <2>2
<1>5. ASSUME NEW j \in EndsAt(readInd), readInd < writeInd PROVE readInd < j /\ j < writeInd
  <2>1. readInd \in StartsIn(mem, writeInd)
    BY <1>1, <1>2, <1>5 DEF StartsIn
  <2>2. mem[readInd] # NUL
    BY <2>1 DEF CycleInv, FullInv
  <2>3. j \in Offsets /\ readInd <= j /\ mem[j] = NUL
    BY EndsAtMember
  <2>4. j < writeInd
    BY <1>1, <1>5, EndsBelow DEF SeqStoreInv, SeqTypeOK, WriteInv
  <2>5. j \in Nat
    BY <2>3 DEF Offsets
  <2> QED
    BY <1>1, <2>2, <2>3, <2>4, <2>5
<1>6. \A j \in EndsAt(readInd) : j \in Nat /\ mem[j] = NUL
  BY EndsAtMember DEF Offsets
<1> QED
  BY <1>1, <1>2, <1>4, <1>5, <1>6

\* From an empty buffer only the empty string is printed.
LEMMA NothingToShow ==
  ASSUME SeqStoreInv, CycleInv, serial, WritersIdle, writeInd = 0, EndsAt(readInd) # {}
  PROVE  TextAt(readInd) = <<>>
<1>1. PICK j \in EndsAt(readInd) :
        TextAt(readInd) \in Seq(Cells) /\ Len(TextAt(readInd)) = j - readInd
  BY ReaderFinds, TextAtIsText DEF SeqStoreInv, SeqTypeOK
<1>2. readInd = writeInd /\ j = readInd /\ readInd \in Nat
  BY ReaderFinds
<1> QED
  BY <1>1, <1>2

\* Each access of showFortune() leaves what the next one relies on.
LEMMA ShowKeepsCycle ==
  ASSUME SeqStoreInv, SeqStoreInv', CycleInv, serial, NEW r \in Readers,
         WritersIdle, \A q \in Readers \ {r} : ShowIdle(q), ShowStep(r)
  PROVE  CycleInv'
<1>1. /\ UNCHANGED <<mem, writeInd, setup, wpc, arg, at>>
      /\ \A q \in Readers \ {r} : spc'[q] = spc[q] /\ len'[q] = len[q]
  BY ShowLeavesStore, ShowMovesOne DEF SeqStoreInv
<1>2. (\A w \in Writers : BytesInv(w)') /\ TailInv' /\ FullInv'
  BY <1>1 DEF CycleInv, BytesInv, TailInv, FullInv
<1>3. ASSUME NEW q \in Readers \ {r} PROVE ShowInv(q)'
  BY <1>1 DEF CycleInv, ShowInv, ShowIdle
<1>4. /\ readInd \in Nat /\ writeInd \in Nat /\ len[r] \in Nat /\ len'[r] \in Nat
      /\ spc \in [Readers -> {"closed", "open", "wrap", "print", "advance", "shown"}]
      /\ len \in [Readers -> 0 .. Size]
  BY SizeIsNat DEF SeqStoreInv, SeqTypeOK, StoreTypeOK
<1>5. /\ CursorInv /\ ShowInv(r) /\ (writeInd = 0 => shown = <<>>)
  BY DEF CycleInv
<1> SUFFICES CursorInv' /\ ShowInv(r)' /\ (writeInd = 0 => shown' = <<>>)
  BY <1>1, <1>2, <1>3 DEF CycleInv
<1>6. EndsAt(readInd)' = EndsIn(mem, readInd') /\ EndsAt(readInd) = EndsIn(mem, readInd)
  BY <1>1 DEF EndsAt, EndsIn
<1>7. CASE SingleOpen(r) \/ SingleRelease(r)
  <2>1. /\ spc[r] \in {"closed", "open", "shown"} /\ spc'[r] \in {"closed", "open", "shown"}
        /\ readInd' = readInd /\ len' = len /\ shown' = shown
    BY <1>4, <1>7 DEF SingleOpen, SingleRelease, ShowGoes, storeVars
  <2> QED
    BY <1>1, <1>5, <2>1 DEF CursorInv, ShowInv
<1>8. CASE ShowMeasure(r)
  <2>1. CASE EndsAt(readInd) # {}
    <3>1. /\ readInd + len'[r] \in EndsAt(readInd) /\ spc'[r] = "wrap"
          /\ readInd' = readInd /\ shown' = shown
      BY <1>4, <1>8, <2>1, MeasureIsDistance DEF SeqStoreInv, storeVars
    <3>2. (readInd + len[r] \in EndsAt(readInd))'
      BY <1>6, <3>1
    <3> QED
      BY <1>1, <1>5, <3>1, <3>2 DEF CursorInv, ShowInv
  <2>2. CASE EndsAt(readInd) = {}
    <3>1. UNCHANGED <<readInd, spc, len, shown>>
      BY <1>8, <2>2 DEF ShowMeasure, Oops
    <3> QED
      BY <1>1, <1>5, <1>6, <3>1 DEF CursorInv, ShowInv
  <2> QED
    BY <2>1, <2>2
<1>9. CASE ShowWrap(r)
  <2>1. /\ spc[r] = "wrap" /\ spc'[r] = "print" /\ len' = len /\ shown' = shown
        /\ readInd' = IF readInd >= writeInd THEN 0 ELSE readInd
    BY <1>4, <1>9 DEF ShowWrap, ShowGoes
  <2>2. readInd + len[r] \in EndsAt(readInd)
    BY <1>5, <2>1 DEF ShowInv
  <2>3. CASE readInd = writeInd
    <3>1. len'[r] = 0 /\ readInd' = 0
      BY <1>4, <2>1, <2>2, <2>3, ReaderFinds
    <3> QED
      BY <1>1, <1>4, <1>5, <2>1, <3>1 DEF CursorInv, ShowInv
  <2>4. CASE readInd < writeInd
    <3>1. len'[r] # 0 /\ readInd' = readInd
      BY <1>4, <2>1, <2>2, <2>4, ReaderFinds
    <3>2. (readInd + len[r] \in EndsAt(readInd))'
      BY <1>6, <2>1, <2>2, <3>1
    <3> QED
      BY <1>1, <1>5, <2>1, <2>4, <3>1, <3>2 DEF CursorInv, ShowInv
  <2> QED
    BY <1>4, <1>5, <2>3, <2>4 DEF CursorInv
<1>10. CASE ShowPrint(r)
  <2>1. readInd' = readInd /\ len' = len /\ spc[r] = "print" /\ spc'[r] \in {"print", "advance"}
    BY <1>4, <1>10 DEF ShowPrint, ShowGoes, Oops, storeVars
  <2>2. writeInd = 0 => shown' = <<>>
    <3>1. CASE EndsAt(readInd) # {}
      BY <1>10, <3>1, NothingToShow DEF ShowPrint
    <3>2. CASE EndsAt(readInd) = {}
      BY <1>5, <1>10, <3>2 DEF ShowPrint
    <3> QED
      BY <3>1, <3>2
  <2>3. CursorInv' /\ ShowInv(r)'
    BY <1>1, <1>5, <1>6, <2>1 DEF CursorInv, ShowInv
  <2> QED
    BY <2>2, <2>3
<1>11. CASE ShowAdvance(r)
  <2>1. /\ spc[r] = "advance" /\ spc'[r] = "shown" /\ len'[r] = 0 /\ shown' = shown
        /\ readInd' = readInd + (IF len[r] > 0 THEN len[r] + 1 ELSE 0)
    BY <1>4, <1>11 DEF ShowAdvance, ShowGoes
  <2>2. CASE len[r] = 0
    BY <1>1, <1>4, <1>5, <2>1, <2>2 DEF CursorInv, ShowInv
  <2>3. CASE len[r] > 0
    <3>1. readInd < writeInd /\ readInd + len[r] \in EndsAt(readInd)
      BY <1>5, <2>1, <2>3 DEF ShowInv
    <3>2. readInd + len[r] < writeInd /\ mem[readInd + len[r]] = NUL
      BY <3>1, ReaderFinds
    <3>3. readInd' = readInd + len[r] + 1 /\ readInd' - 1 = readInd + len[r]
      BY <1>4, <2>1, <2>3
    <3> QED
      BY <1>1, <1>4, <1>5, <2>1, <3>2, <3>3 DEF CursorInv, ShowInv
  <2> QED
    BY <1>4, <2>2, <2>3
<1> QED
  BY <1>7, <1>8, <1>9, <1>10, <1>11 DEF ShowStep

\* Every step keeps CycleInv.
LEMMA CycleInvStep ==
  ASSUME OneWriter, WholeCopies
  PROVE  SeqStoreInv /\ SeqStoreInv' /\ CycleInv /\ [SeqNext]_seqVars => CycleInv'
<1> SUFFICES ASSUME SeqStoreInv, SeqStoreInv', CycleInv, [SeqNext]_seqVars, serial'
             PROVE  CycleInv'
  BY DEF CycleInv
<1>1. CASE MayWrite /\ StoreStep /\ UNCHANGED showVars
  BY <1>1, WriteKeepsCycle DEF showVars
<1>2. CASE \E r \in Readers : MayShow(r) /\ ShowStep(r) /\ UNCHANGED serial
  BY <1>2, ShowKeepsCycle DEF MayShow
<1>3. CASE UNCHANGED seqVars
  BY <1>3 DEF seqVars, storeVars, writeVars, showVars, CycleInv, CursorInv, BytesInv, TailInv,
    FullInv, ShowInv, EndsAt
<1> QED
  BY <1>1, <1>2, <1>3 DEF SeqNext, SeqHalted

\* It holds before the first call.
LEMMA CycleInvInit == SeqInit => CycleInv
<1> SUFFICES ASSUME SeqInit PROVE CycleInv
  OBVIOUS
<1>1. StartsIn(mem, writeInd) = {}
  BY DEF SeqInit, StoreInit, StartsIn
<1> QED
  BY <1>1 DEF SeqInit, StoreInit, CycleInv, CursorInv, BytesInv, TailInv, FullInv, ShowInv

-------------------------------------------------------------------------------
(* seqfile.c: the step simulation *)

\* Position as a function of the readers' registers.
PositionOf(pc, ls, ind, n) ==
  IF \E r \in Readers : pc[r] = "print" /\ ls[r] = 0 THEN n
  ELSE IF \E r \in Readers : pc[r] = "advance" /\ ls[r] > 0
       THEN ind + 1 + ls[CHOOSE r \in Readers : pc[r] = "advance"]
       ELSE ind

\* Position is this function, now and in the next state.
LEMMA PositionIsPositionOf ==
  /\ Position = PositionOf(spc, len, readInd, writeInd)
  /\ Position' = PositionOf(spc', len', readInd', writeInd')
BY DEF Position, PositionOf

\* Between two reads it is readInd.
LEMMA PositionIdle ==
  ASSUME NEW pc, NEW ls, NEW ind, NEW n, \A q \in Readers : pc[q] \in {"closed", "open", "shown"}
  PROVE  PositionOf(pc, ls, ind, n) = ind
<1>1. \A q \in Readers : pc[q] # "print" /\ pc[q] # "advance"
  OBVIOUS
<1> QED
  BY <1>1 DEF PositionOf

\* Else the place of the one reader that is at work decides.
LEMMA PositionOfReader ==
  ASSUME NEW r \in Readers, NEW pc, NEW ls, NEW ind, NEW n,
         \A q \in Readers \ {r} : pc[q] \in {"closed", "open", "shown"}
  PROVE  PositionOf(pc, ls, ind, n) =
           IF pc[r] = "print" /\ ls[r] = 0 THEN n
           ELSE IF pc[r] = "advance" /\ ls[r] > 0 THEN ind + 1 + ls[r]
           ELSE ind
<1>1. \A q \in Readers : pc[q] = "print" \/ pc[q] = "advance" => q = r
  OBVIOUS
<1>2. pc[r] = "advance" => (CHOOSE q \in Readers : pc[q] = "advance") = r
  BY <1>1
<1>3. (\E q \in Readers : pc[q] = "print" /\ ls[q] = 0) <=> pc[r] = "print" /\ ls[r] = 0
  BY <1>1
<1>4. (\E q \in Readers : pc[q] = "advance" /\ ls[q] > 0) <=> pc[r] = "advance" /\ ls[r] > 0
  BY <1>1
<1>5. CASE pc[r] = "print" /\ ls[r] = 0
  BY <1>3, <1>5 DEF PositionOf
<1>6. CASE ~(pc[r] = "print" /\ ls[r] = 0) /\ pc[r] = "advance" /\ ls[r] > 0
  BY <1>2, <1>3, <1>4, <1>6 DEF PositionOf
<1>7. CASE ~(pc[r] = "print" /\ ls[r] = 0) /\ ~(pc[r] = "advance" /\ ls[r] > 0)
  BY <1>3, <1>4, <1>7 DEF PositionOf
<1> QED
  BY <1>5, <1>6, <1>7

\* The rank of the position.
LEMMA RankPosition ==
  /\ Rank(Position) = RankOf(StartsIn(mem, writeInd), Position)
  /\ Rank(Position)' = RankOf(StartsIn(mem', writeInd'), Position')
BY DEF Rank, RankOf, Starts, StartsIn

\* A write between two reads puts one fortune on the shelf, or nothing.
LEMMA WriteSimulates ==
  ASSUME OneWriter, SeqStoreInv, SeqStoreInv', CycleInv, serial, MayWrite, StoreStep,
         UNCHANGED showVars
  PROVE  /\ Rank(Position)' = Rank(Position)
         /\ \/ Shelf' = Shelf
            \/ \E c \in Calls : Shelf' = Append(Shelf, TextOf(c))
<1>1. readInd' = readInd /\ readInd \in Nat /\ writeInd \in Nat /\ readInd <= writeInd
  BY SeqStoreKeeps DEF SeqStoreInv, SeqTypeOK, StoreTypeOK, CycleInv, CursorInv
<1>2. /\ \A r \in Readers : spc[r] \in {"closed", "open", "shown"}
      /\ \A r \in Readers : spc'[r] \in {"closed", "open", "shown"}
  BY DEF MayWrite, ShowIdle, showVars
<1>3. Position = readInd /\ Position' = readInd'
  BY <1>2, PositionIsPositionOf, PositionIdle
<1>4. /\ \/ Shelf' = Shelf
         \/ \E c \in Calls : Shelf' = Append(Shelf, TextOf(c))
      /\ \A i \in 0 .. writeInd : RankOf(StartsIn(mem', writeInd'), i)
                                     = RankOf(StartsIn(mem, writeInd), i)
  BY ShelfStoreStep DEF SeqStoreInv, SeqTypeOK, CycleInv
<1> QED
  BY <1>1, <1>3, <1>4, RankPosition

\* Only seq_printf() changes what the mapping sees of showFortune().
LEMMA ShowMoves ==
  ASSUME SeqStoreInv, CycleInv, serial, NEW r \in Readers,
         WritersIdle, \A q \in Readers \ {r} : ShowIdle(q), ShowStep(r), ~ShowPrint(r)
  PROVE  Position' = Position /\ shown' = shown
<1>1. /\ writeInd' = writeInd
      /\ \A q \in Readers \ {r} : spc[q] \in {"closed", "open", "shown"}
      /\ \A q \in Readers \ {r} : spc'[q] \in {"closed", "open", "shown"}
  BY ShowLeavesStore, ShowMovesOne DEF SeqStoreInv, ShowIdle
<1>2. Position = IF spc[r] = "print" /\ len[r] = 0 THEN writeInd
                 ELSE IF spc[r] = "advance" /\ len[r] > 0 THEN readInd + 1 + len[r]
                 ELSE readInd
  <2>1. PositionOf(spc, len, readInd, writeInd)
          = IF spc[r] = "print" /\ len[r] = 0 THEN writeInd
            ELSE IF spc[r] = "advance" /\ len[r] > 0 THEN readInd + 1 + len[r]
            ELSE readInd
    BY <1>1, PositionOfReader
  <2> QED
    BY <2>1, PositionIsPositionOf, Zenon
<1>3. Position' = IF spc'[r] = "print" /\ len'[r] = 0 THEN writeInd'
                  ELSE IF spc'[r] = "advance" /\ len'[r] > 0 THEN readInd' + 1 + len'[r]
                  ELSE readInd'
  <2>1. PositionOf(spc', len', readInd', writeInd')
          = IF spc'[r] = "print" /\ len'[r] = 0 THEN writeInd'
            ELSE IF spc'[r] = "advance" /\ len'[r] > 0 THEN readInd' + 1 + len'[r]
            ELSE readInd'
    BY <1>1, PositionOfReader
  <2> QED
    BY <2>1, PositionIsPositionOf, Zenon
<1>4. /\ readInd \in Nat /\ writeInd \in Nat /\ len[r] \in Nat
      /\ spc \in [Readers -> {"closed", "open", "wrap", "print", "advance", "shown"}]
      /\ len \in [Readers -> 0 .. Size]
  BY SizeIsNat DEF SeqStoreInv, SeqTypeOK, StoreTypeOK
<1>5. CASE SingleOpen(r) \/ SingleRelease(r)
  <2>1. /\ spc[r] \in {"closed", "open", "shown"} /\ spc'[r] \in {"closed", "open", "shown"}
        /\ readInd' = readInd /\ shown' = shown
    BY <1>4, <1>5 DEF SingleOpen, SingleRelease, ShowGoes, storeVars
  <2> QED
    BY <1>2, <1>3, <2>1
<1>6. CASE ShowMeasure(r)
  <2>1. /\ spc[r] = "open" /\ spc'[r] \in {"open", "wrap"} /\ readInd' = readInd /\ shown' = shown
    BY <1>4, <1>6 DEF ShowMeasure, ShowGoes, Oops, storeVars
  <2> QED
    BY <1>2, <1>3, <2>1
<1>7. CASE ShowWrap(r)
  <2>1. /\ spc[r] = "wrap" /\ spc'[r] = "print" /\ len' = len /\ shown' = shown
        /\ readInd' = IF readInd >= writeInd THEN 0 ELSE readInd
    BY <1>4, <1>7 DEF ShowWrap, ShowGoes
  <2>2. readInd + len[r] \in EndsAt(readInd)
    BY <2>1 DEF CycleInv, ShowInv
  <2>3. (len[r] = 0 <=> readInd = writeInd) /\ readInd <= writeInd
    BY <1>4, <2>2, ReaderFinds
  <2> QED
    BY <1>1, <1>2, <1>3, <1>4, <2>1, <2>3
<1>8. CASE ShowAdvance(r)
  <2>1. /\ spc[r] = "advance" /\ spc'[r] = "shown" /\ shown' = shown
        /\ readInd' = readInd + (IF len[r] > 0 THEN len[r] + 1 ELSE 0)
    BY <1>4, <1>8 DEF ShowAdvance, ShowGoes
  <2> QED
    BY <1>2, <1>3, <1>4, <2>1
<1> QED
  BY <1>5, <1>6, <1>7, <1>8 DEF ShowStep

\* seq_printf() prints the fortune at readInd: the one under the cursor, or the first
\* one when there is none.
LEMMA PrintMoves ==
  ASSUME SeqStoreInv, CycleInv, serial, NEW r \in Readers,
         WritersIdle, \A q \in Readers \ {r} : ShowIdle(q), ShowPrint(r)
  PROVE  \/ Position' = Position /\ shown' = shown
         \/ /\ Position = writeInd /\ Position' = 0 /\ writeInd > 0
            /\ shown' = TextIn(mem, 0) /\ EndsIn(mem, 0) # {}
         \/ /\ Position \in StartsIn(mem, writeInd) /\ shown' = TextIn(mem, Position)
            /\ \E j \in EndsIn(mem, Position) : Position' = j + 1
<1>1. /\ UNCHANGED <<writeInd, readInd, len, mem>>
      /\ \A q \in Readers \ {r} : spc[q] \in {"closed", "open", "shown"}
      /\ \A q \in Readers \ {r} : spc'[q] \in {"closed", "open", "shown"}
  BY ShowMovesOne DEF SeqStoreInv, ShowIdle, ShowPrint, storeVars, Oops, ShowStep
<1>2. /\ readInd \in Nat /\ writeInd \in Nat /\ len[r] \in Nat
      /\ spc \in [Readers -> {"closed", "open", "wrap", "print", "advance", "shown"}]
  BY SizeIsNat DEF SeqStoreInv, SeqTypeOK, StoreTypeOK
<1>3. CASE EndsAt(readInd) = {}
  BY <1>1, <1>3, PositionIsPositionOf DEF ShowPrint
<1>4. CASE EndsAt(readInd) # {}
  <2>1. /\ spc[r] = "print" /\ spc'[r] = "advance" /\ shown' = TextIn(mem, readInd)
        /\ EndsIn(mem, readInd) = EndsAt(readInd)
    BY <1>2, <1>4, ShelfIsShelfIn DEF ShowPrint, ShowGoes
  <2>2. Position = IF len[r] = 0 THEN writeInd ELSE readInd
    <3>1. PositionOf(spc, len, readInd, writeInd) = IF len[r] = 0 THEN writeInd ELSE readInd
      BY <1>1, <2>1, PositionOfReader
    <3> QED
      BY <3>1, PositionIsPositionOf, Zenon
  <2>3. Position' = IF len[r] > 0 THEN readInd + 1 + len[r] ELSE readInd
    <3>1. PositionOf(spc', len', readInd', writeInd')
            = IF len[r] > 0 THEN readInd + 1 + len[r] ELSE readInd
      BY <1>1, <2>1, PositionOfReader
    <3> QED
      BY <3>1, PositionIsPositionOf, Zenon
  <2>4. IF len[r] = 0 THEN readInd = 0
        ELSE readInd < writeInd /\ readInd + len[r] \in EndsAt(readInd)
    BY <2>1 DEF CycleInv, ShowInv
  <2>5. CASE len[r] = 0 /\ writeInd = 0
    <3>1. TextAt(readInd) = <<>> /\ shown = <<>> /\ shown' = TextAt(readInd)
      BY <1>4, <2>5, NothingToShow DEF CycleInv, ShowPrint
    <3> QED
      BY <2>2, <2>3, <2>4, <2>5, <3>1
  <2>6. CASE len[r] = 0 /\ writeInd > 0
    BY <1>4, <2>1, <2>2, <2>3, <2>4, <2>6
  <2>7. CASE len[r] > 0
    <3>1. /\ Position = readInd /\ readInd < writeInd
          /\ readInd + len[r] \in EndsIn(mem, readInd) /\ Position' = readInd + len[r] + 1
      BY <1>2, <2>1, <2>2, <2>3, <2>4, <2>7
    <3>2. readInd \in StartsIn(mem, writeInd)
      BY <1>2, <3>1, ReaderFinds DEF StartsIn
    <3> QED
      BY <2>1, <3>1, <3>2
  <2> QED
    BY <1>2, <2>5, <2>6, <2>7
<1> QED
  BY <1>3, <1>4

\* A step of showFortune() takes the fortune under the cursor, gives the first one
\* at the end of a round, or changes nothing that the mapping sees.
LEMMA ShowSimulates ==
  ASSUME SeqStoreInv, CycleInv, serial, NEW r \in Readers,
         WritersIdle, \A q \in Readers \ {r} : ShowIdle(q), ShowStep(r)
  PROVE  /\ Shelf' = Shelf
         /\ \/ shown' = shown /\ Rank(Position)' = Rank(Position)
            \/ /\ Shelf # <<>> /\ Rank(Position) = Len(Shelf) + 1
               /\ Rank(Position)' = 1 /\ shown' = Shelf[1]
            \/ /\ Rank(Position) # Len(Shelf) + 1
               /\ shown' = Shelf[Rank(Position)] /\ Rank(Position)' = Rank(Position) + 1
<1>1. UNCHANGED <<mem, writeInd>> /\ writeInd \in Nat
  BY ShowLeavesStore DEF SeqStoreInv, SeqTypeOK, StoreTypeOK
<1>2. Shelf' = Shelf /\ Shelf = ShelfIn(mem, writeInd)
  BY <1>1, ShelfIsShelfIn, ShelfIsShelfInNext
<1>3. Published(mem, writeInd)
  BY DEF SeqStoreInv, SeqTypeOK, StoreTypeOK, WriteInv, LastInv, Published
<1>4. /\ Rank(Position) = RankOf(StartsIn(mem, writeInd), Position)
      /\ Rank(Position)' = RankOf(StartsIn(mem, writeInd), Position')
  BY <1>1, RankPosition
<1>5. CASE Position' = Position /\ shown' = shown
  BY <1>2, <1>4, <1>5
<1>6. CASE /\ Position = writeInd /\ Position' = 0 /\ writeInd > 0
           /\ shown' = TextIn(mem, 0) /\ EndsIn(mem, 0) # {}
  <2>1. /\ RankOf(StartsIn(mem, writeInd), 0) = 1
        /\ RankOf(StartsIn(mem, writeInd), writeInd) = Len(ShelfIn(mem, writeInd)) + 1
        /\ ShelfIn(mem, writeInd) # <<>> /\ 0 \in StartsIn(mem, writeInd)
    BY <1>1, <1>6, ShelfEnds
  <2>2. PICK j \in EndsIn(mem, 0) : TRUE
    BY <1>6
  <2>3. ShelfIn(mem, writeInd)[1] = TextIn(mem, 0)
    BY <1>3, <2>1, <2>2, ShelfAtStart
  <2> QED
    BY <1>2, <1>4, <1>6, <2>1, <2>3
<1>7. CASE /\ Position \in StartsIn(mem, writeInd) /\ shown' = TextIn(mem, Position)
           /\ \E j \in EndsIn(mem, Position) : Position' = j + 1
  <2>1. PICK j \in EndsIn(mem, Position) : Position' = j + 1
    BY <1>7
  <2>2. /\ RankOf(StartsIn(mem, writeInd), Position) \in 1 .. Len(ShelfIn(mem, writeInd))
        /\ ShelfIn(mem, writeInd)[RankOf(StartsIn(mem, writeInd), Position)] = TextIn(mem, Position)
        /\ RankOf(StartsIn(mem, writeInd), j + 1) = RankOf(StartsIn(mem, writeInd), Position) + 1
    BY <1>3, <1>7, <2>1, ShelfAtStart
  <2>3. Len(ShelfIn(mem, writeInd)) \in Nat
    BY <1>1, ShelfIsSeq
  <2> QED
    BY <1>2, <1>4, <1>7, <2>1, <2>2, <2>3
<1> QED
  BY <1>5, <1>6, <1>7, ShowMoves, PrintMoves

-------------------------------------------------------------------------------
(* seqfile.c: what is proved *)

\* Type correctness, for any number of readers and writers.
THEOREM SeqTypes == SeqSpec => []SeqTypeOK
BY SeqTypesInit, SeqTypesStep, PTL DEF SeqSpec

\* With one writer and one reader that does not wait for it, what is printed always
\* begins below writeInd once there is a finished write: a write() that is under way
\* is never shown, although readInd is compared with writeInd before it is used.
THEOREM OnlyPublishedShown ==
  ASSUME OneWriter, OneHasty
  PROVE  SeqSpec => ShowsOnlyPublished
<1> DEFINE Inv == SeqStoreInv /\ TurnInv /\ PrintInv
<1>1. SeqInit => Inv
  BY SeqStoreInvInit DEF SeqInit, StoreInit, TurnInv, PrintInv, ShowIdle
<1>2. Inv /\ [SeqNext]_seqVars => Inv'
  BY SeqStoreInvStep, TurnInvStep, PrintInvStep DEF SeqStoreInv
<1>3. Inv => [\A r \in Readers :
                spc[r] = "print" /\ spc'[r] = "advance" /\ writeInd > 0
                  => readInd < writeInd]_seqVars
  BY DEF PrintInv
<1> QED
  BY <1>1, <1>2, <1>3, PTL DEF SeqSpec, ShowsOnlyPublished

\* The refinement: called one after the other, with one writer whose copies fail as a
\* whole or not at all, showFortune() and writeFortune() are a shelf of fortunes that
\* gives the first one twice in a round, for every size of the buffer and any number
\* of readers.
THEOREM FortunesShownInCycle ==
  ASSUME OneWriter, WholeCopies
  PROVE  SeqSpec => ShowsInCycle
<1> DEFINE Inv == SeqStoreInv /\ CycleInv
<1>1. SeqSpec => []Inv
  <2>1. SeqInit => Inv
    BY SeqStoreInvInit, CycleInvInit
  <2>2. Inv /\ [SeqNext]_seqVars => Inv'
    BY SeqStoreInvStep, CycleInvStep
  <2> QED
    BY <2>1, <2>2, PTL DEF SeqSpec
<1>2. SeqInit => SeqCycle!Init
  <2> SUFFICES ASSUME SeqInit PROVE SeqCycle!Init
    OBVIOUS
  <2>1. writeInd = 0 /\ readInd = 0 /\ shown = <<>> /\ \A r \in Readers : spc[r] = "closed"
    BY DEF SeqInit, StoreInit
  <2>2. Shelf = <<>> /\ Rank(0) = 1
    BY <2>1, ShelfIsShelfIn, ShelfEnds
  <2>3. Position = 0
    BY <2>1 DEF Position
  <2> QED
    BY <2>1, <2>2, <2>3 DEF SeqCycle!Init
<1>3. Inv /\ Inv' /\ [SeqNext]_seqVars => [SeqCycle!SeqNext]_(SeqCycle!vars)
  <2> SUFFICES ASSUME Inv, Inv', [SeqNext]_seqVars PROVE [SeqCycle!SeqNext]_(SeqCycle!vars)
    OBVIOUS
  <2> USE DEF SeqCycle!SeqNext, SeqCycle!vars, SeqCycle!Put, SeqCycle!Take,
        SeqCycle!RewindAndShow, SeqCycle!AtEnd
  <2>1. serial' = serial
    BY DEF SeqNext, SeqHalted, seqVars, showVars
  <2>2. CASE ~serial
    BY <2>1, <2>2
  <2>3. CASE serial /\ MayWrite /\ StoreStep /\ UNCHANGED showVars
    <3>1. /\ Rank(Position)' = Rank(Position)
          /\ \/ Shelf' = Shelf
             \/ \E c \in Calls : Shelf' = Append(Shelf, TextOf(c))
      BY <2>3, WriteSimulates
    <3>2. shown' = shown
      BY <2>3 DEF showVars
    <3> QED
      BY <2>1, <2>3, <3>1, <3>2
  <2>4. CASE serial /\ \E r \in Readers : MayShow(r) /\ ShowStep(r)
    <3>1. PICK r \in Readers : MayShow(r) /\ ShowStep(r)
      BY <2>4
    <3>2. /\ Shelf' = Shelf
          /\ \/ shown' = shown /\ Rank(Position)' = Rank(Position)
             \/ /\ Shelf # <<>> /\ Rank(Position) = Len(Shelf) + 1
                /\ Rank(Position)' = 1 /\ shown' = Shelf[1]
             \/ /\ Rank(Position) # Len(Shelf) + 1
                /\ shown' = Shelf[Rank(Position)] /\ Rank(Position)' = Rank(Position) + 1
      BY <2>4, <3>1, ShowSimulates DEF MayShow
    <3> QED
      BY <2>1, <2>4, <3>2
  <2>5. CASE UNCHANGED seqVars
    <3>1. Shelf' = Shelf /\ Rank(Position)' = Rank(Position) /\ serial' = serial /\ shown' = shown
      BY <2>5, ShelfIsShelfIn, ShelfIsShelfInNext, RankPosition, PositionIsPositionOf
        DEF seqVars, storeVars, showVars
    <3> QED
      BY <3>1
  <2> QED
    BY <2>2, <2>3, <2>4, <2>5 DEF SeqNext, SeqHalted
<1> QED
  BY <1>1, <1>2, <1>3, PTL DEF SeqSpec, ShowsInCycle, SeqCycle!SeqSpec

===============================================================================
