------------------------- MODULE FastSpinlockProofs -------------------------
(***************************************************************************)
(* FastSpinlock implements a readers/writer lock, for any number of        *)
(* threads below 2048.  The invariant relates the word to the threads that *)
(* have announced themselves in it (FlagExact); the two tests of the code  *)
(* on the result of InterlockedAdd then say something about all threads.   *)
(***************************************************************************)
EXTENDS FastSpinlock, FiniteSetTheorems, TLAPS

LEMMA FieldsOfFlag ==
  ASSUME NEW w \in Nat, NEW r \in Nat, w < WriterBits, r < LF_WRITE_FLAG
  PROVE  /\ Writers(LF_WRITE_FLAG * w + r) = w
         /\ Readers(LF_WRITE_FLAG * w + r) = r
         /\ LF_WRITE_FLAG * w + r \in 0 .. LONG_MAX
<1>1. (1048576 * w + r) \div 1048576 = w
  BY SMT DEF LF_WRITE_FLAG
<1>2. (1048576 * w + r) % 1048576 = r
  BY SMT DEF LF_WRITE_FLAG
<1>3. w % 2048 = w
  BY SMT DEF WriterBits
<1>4. 1048576 * w + r \in 0 .. LONG_MAX
  <2>1. w <= 2047 /\ r <= 1048575
    BY SMT DEF WriterBits, LF_WRITE_FLAG
  <2>2. 1048576 * w <= 2146435072
    BY <2>1, SMT
  <2>3. 1048576 * w + r \in Nat /\ 1048576 * w + r <= LONG_MAX
    BY <2>1, <2>2, SMT DEF LONG_MAX
  <2>4. LONG_MAX \in Nat
    BY SMT DEF LONG_MAX
  <2> QED
    BY <2>3, <2>4, SMT
<1> QED
  BY <1>1, <1>2, <1>3, <1>4, SMT DEF Writers, Readers, LF_WRITE_FLAG, WriterBits

\* A set of threads is finite and smaller than either field of the word.
LEMMA ThreadSets ==
  ASSUME NEW S \in SUBSET Thread
  PROVE  /\ IsFiniteSet(S) /\ Cardinality(S) \in Nat
         /\ Cardinality(S) < WriterBits /\ Cardinality(S) < LF_WRITE_FLAG
<1>1. IsFiniteSet(Thread) /\ Cardinality(Thread) \in Nat /\ Cardinality(Thread) < WriterBits
  BY ThreadAssumption, FS_CardinalityType
<1>2. IsFiniteSet(S) /\ Cardinality(S) <= Cardinality(Thread)
  BY <1>1, FS_Subset
<1>3. Cardinality(S) \in Nat
  BY <1>2, FS_CardinalityType
<1> QED
  BY <1>1, <1>2, <1>3, SMT DEF WriterBits, LF_WRITE_FLAG

LEMMA CountStep ==
  ASSUME NEW S \in SUBSET Thread, NEW t \in Thread
  PROVE  /\ Cardinality(S \union {t}) = IF t \in S THEN Cardinality(S) ELSE Cardinality(S) + 1
         /\ Cardinality(S \ {t}) = IF t \in S THEN Cardinality(S) - 1 ELSE Cardinality(S)
BY ThreadSets, FS_AddElement, FS_RemoveElement

\* What a step of thread t does to the two sets of announcements.
LEMMA AnnouncementStep ==
  ASSUME TypeOK, NEW t \in Thread, NEW from, NEW to \in Label, Goto(t, from, to)
  PROVE  /\ AnnouncedWriters' = IF to \in {"wundo", "drain", "writing"}
                                  THEN AnnouncedWriters \union {t} ELSE AnnouncedWriters \ {t}
         /\ AnnouncedReaders' = IF to \in {"rundo", "reading"}
                                  THEN AnnouncedReaders \union {t} ELSE AnnouncedReaders \ {t}
         /\ pc' \in [Thread -> Label] /\ pc'[t] = to
         /\ \A u \in Thread : u # t => pc'[u] = pc[u]
BY DEF TypeOK, Goto, AnnouncedWriters, AnnouncedReaders

\* What the word says about the threads.
LEMMA FlagMeaning ==
  ASSUME IndInv
  PROVE  /\ Writers(mLockFlag) = Cardinality(AnnouncedWriters)
         /\ Readers(mLockFlag) = Cardinality(AnnouncedReaders)
         /\ Cardinality(AnnouncedWriters) \in Nat /\ Cardinality(AnnouncedReaders) \in Nat
<1> DEFINE w == Cardinality(AnnouncedWriters)
           r == Cardinality(AnnouncedReaders)
<1>1. w \in Nat /\ r \in Nat /\ w < WriterBits /\ r < LF_WRITE_FLAG
  BY ThreadSets DEF AnnouncedWriters, AnnouncedReaders
<1>2. mLockFlag = LF_WRITE_FLAG * w + r
  BY DEF IndInv, FlagExact
<1> HIDE DEF w, r
<1>3. Writers(mLockFlag) = w /\ Readers(mLockFlag) = r
  BY <1>1, <1>2, FieldsOfFlag
<1> QED
  BY <1>1, <1>3 DEF w, r

WriterLabel == {"wundo", "drain", "writing"}
ReaderLabel == {"rundo", "reading"}
Counts(label, labels) == IF label \in labels THEN 1 ELSE 0

\* What a step between two labels must add to the word.
Delta(from, to) ==
  LF_WRITE_FLAG * (Counts(to, WriterLabel) - Counts(from, WriterLabel))
    + (Counts(to, ReaderLabel) - Counts(from, ReaderLabel))

\* A step that adds to the word what its labels say keeps the word exact.
LEMMA FlagStep ==
  ASSUME IndInv, NEW t \in Thread, NEW from \in Label, NEW to \in Label, Goto(t, from, to),
         mLockFlag' = mLockFlag + Delta(from, to)
  PROVE  FlagExact' /\ TypeOK'
<1> DEFINE w == Cardinality(AnnouncedWriters)
           r == Cardinality(AnnouncedReaders)
           dw == Counts(to, WriterLabel) - Counts(from, WriterLabel)
           dr == Counts(to, ReaderLabel) - Counts(from, ReaderLabel)
<1>1. AnnouncedWriters \in SUBSET Thread /\ AnnouncedReaders \in SUBSET Thread
  BY DEF AnnouncedWriters, AnnouncedReaders
<1>2. w \in Nat /\ r \in Nat /\ dw \in Int /\ dr \in Int
  BY <1>1, ThreadSets DEF Counts
<1>3. w' = w + dw
  <2>1. t \in AnnouncedWriters <=> from \in WriterLabel
    BY DEF Goto, AnnouncedWriters, WriterLabel
  <2>2. AnnouncedWriters' = IF to \in WriterLabel
                              THEN AnnouncedWriters \union {t} ELSE AnnouncedWriters \ {t}
    BY AnnouncementStep DEF IndInv, WriterLabel
  <2>3. /\ Cardinality(AnnouncedWriters \union {t}) = IF t \in AnnouncedWriters THEN w ELSE w + 1
        /\ Cardinality(AnnouncedWriters \ {t}) = IF t \in AnnouncedWriters THEN w - 1 ELSE w
    BY <1>1, CountStep, Zenon
  <2>4. CASE to \in WriterLabel
    BY <1>2, <2>1, <2>2, <2>3, <2>4 DEF Counts
  <2>5. CASE to \notin WriterLabel
    BY <1>2, <2>1, <2>2, <2>3, <2>5 DEF Counts
  <2> QED
    BY <2>4, <2>5
<1>4. r' = r + dr
  <2>1. t \in AnnouncedReaders <=> from \in ReaderLabel
    BY DEF Goto, AnnouncedReaders, ReaderLabel
  <2>2. AnnouncedReaders' = IF to \in ReaderLabel
                              THEN AnnouncedReaders \union {t} ELSE AnnouncedReaders \ {t}
    BY AnnouncementStep DEF IndInv, ReaderLabel
  <2>3. /\ Cardinality(AnnouncedReaders \union {t}) = IF t \in AnnouncedReaders THEN r ELSE r + 1
        /\ Cardinality(AnnouncedReaders \ {t}) = IF t \in AnnouncedReaders THEN r - 1 ELSE r
    BY <1>1, CountStep, Zenon
  <2>4. CASE to \in ReaderLabel
    BY <1>2, <2>1, <2>2, <2>3, <2>4 DEF Counts
  <2>5. CASE to \notin ReaderLabel
    BY <1>2, <2>1, <2>2, <2>3, <2>5 DEF Counts
  <2> QED
    BY <2>4, <2>5
<1>5. mLockFlag = LF_WRITE_FLAG * w + r
  BY DEF IndInv, FlagExact
<1>6. mLockFlag' = mLockFlag + (LF_WRITE_FLAG * dw + dr)
  BY DEF Delta
<1>7. w' \in Nat /\ r' \in Nat /\ w' < WriterBits /\ r' < LF_WRITE_FLAG
  <2>1. AnnouncedWriters' \in SUBSET Thread /\ AnnouncedReaders' \in SUBSET Thread
    BY DEF AnnouncedWriters, AnnouncedReaders
  <2> QED
    BY <2>1, ThreadSets
<1> HIDE DEF w, r, dw, dr
<1>8. mLockFlag' = LF_WRITE_FLAG * w' + r'
  BY <1>2, <1>3, <1>4, <1>5, <1>6, SMT DEF LF_WRITE_FLAG
<1>9. mLockFlag' \in 0 .. LONG_MAX
  BY <1>7, <1>8, FieldsOfFlag
<1>10. pc' \in [Thread -> Label]
  BY AnnouncementStep DEF IndInv
<1> QED
  BY <1>8, <1>9, <1>10 DEF FlagExact, TypeOK, w, r

\* A writer whose announcement is the only one finds no other writer, and one
\* that sees no reader finds none.
LEMMA NobodyAnnounced ==
  ASSUME IndInv
  PROVE  /\ Writers(mLockFlag) = 0 => AnnouncedWriters = {}
         /\ Readers(mLockFlag) = 0 => AnnouncedReaders = {}
<1>1. AnnouncedWriters \in SUBSET Thread /\ AnnouncedReaders \in SUBSET Thread
  BY DEF AnnouncedWriters, AnnouncedReaders
<1>2. IsFiniteSet(AnnouncedWriters) /\ IsFiniteSet(AnnouncedReaders)
  BY <1>1, ThreadSets
<1> QED
  BY <1>2, FlagMeaning, FS_EmptySet

\* The steps that no other thread has to be looked at for: nobody enters.
LEMMA PlainStep ==
  ASSUME IndInv, NEW t \in Thread,
         NEW from \in Label, NEW to \in Label \ {"drain", "writing", "reading"},
         Goto(t, from, to),
         mLockFlag' = mLockFlag + Delta(from, to)
  PROVE  IndInv'
<1>1. TypeOK /\ OneWriter /\ NoReaderWhileWriting
  BY DEF IndInv
<1>2. FlagExact' /\ TypeOK'
  BY FlagStep
<1>3. OneWriter' /\ NoReaderWhileWriting'
  BY <1>1 DEF TypeOK, Goto, OneWriter, NoReaderWhileWriting
<1> QED
  BY <1>2, <1>3 DEF IndInv

\* What the successful tests of the code find.
LEMMA WriteAddStep ==
  ASSUME IndInv, NEW t \in Thread, WriteAdd(t)
  PROVE  IndInv'
<1>1. mLockFlag \in 0 .. LONG_MAX /\ TypeOK /\ OneWriter /\ NoReaderWhileWriting
  BY DEF IndInv, TypeOK
<1>2. mLockFlag' = mLockFlag + LF_WRITE_FLAG
  BY DEF WriteAdd, InterlockedAdd
<1> DEFINE to == IF Writers(mLockFlag + LF_WRITE_FLAG) = 1 THEN "drain" ELSE "wundo"
<1>3. Goto(t, "wadd", to) /\ to \in {"drain", "wundo"}
  BY DEF WriteAdd
<1>4. FlagExact' /\ TypeOK'
  <2>1. /\ Counts(to, WriterLabel) = 1 /\ Counts("wadd", WriterLabel) = 0
        /\ Counts(to, ReaderLabel) = 0 /\ Counts("wadd", ReaderLabel) = 0
    BY <1>3 DEF Counts, WriterLabel, ReaderLabel
  <2>2. mLockFlag' = mLockFlag + Delta("wadd", to)
    BY <1>1, <1>2, <2>1, SMT DEF Delta, LF_WRITE_FLAG
  <2>3. to \in Label /\ "wadd" \in Label
    BY <1>3 DEF Label
  <2> HIDE DEF to
  <2> QED
    BY <1>3, <2>2, <2>3, FlagStep
<1>5. to = "drain" => AnnouncedWriters = {}
  <2> DEFINE w == Cardinality(AnnouncedWriters)
             r == Cardinality(AnnouncedReaders)
  <2>1. AnnouncedWriters \in SUBSET Thread /\ AnnouncedReaders \in SUBSET Thread
    BY DEF AnnouncedWriters, AnnouncedReaders
  <2>2. IsFiniteSet(AnnouncedWriters) /\ w \in Nat /\ r \in Nat /\ r < LF_WRITE_FLAG
    BY <2>1, ThreadSets
  <2>3. w < WriterBits - 1 => Writers(mLockFlag + LF_WRITE_FLAG) = w + 1
    <3>1. mLockFlag = LF_WRITE_FLAG * w + r
      BY DEF IndInv, FlagExact
    <3> HIDE DEF w, r
    <3>2. mLockFlag + LF_WRITE_FLAG = LF_WRITE_FLAG * (w + 1) + r
      BY <2>2, <3>1, SMT DEF LF_WRITE_FLAG
    <3>3. w + 1 \in Nat /\ (w < WriterBits - 1 => w + 1 < WriterBits)
      BY <2>2, SMT DEF WriterBits
    <3> QED
      BY <2>2, <3>2, <3>3, FieldsOfFlag
  <2>4. w + 1 < WriterBits
    <3>1. t \notin AnnouncedWriters
      BY <1>3 DEF Goto, AnnouncedWriters
    <3>2. Cardinality(AnnouncedWriters \union {t}) = w + 1
      BY <2>1, <3>1, CountStep
    <3>3. AnnouncedWriters \union {t} \in SUBSET Thread
      BY <2>1
    <3> QED
      BY <3>2, <3>3, ThreadSets
  <2>5. to = "drain" => w = 0
    BY <2>2, <2>3, <2>4, SMT DEF WriterBits
  <2> QED
    BY <2>2, <2>5, FS_EmptySet
<1>6. OneWriter' /\ NoReaderWhileWriting'
  <2>1. \A u \in Thread : to = "drain" => pc[u] \notin {"drain", "writing"}
    BY <1>5 DEF AnnouncedWriters
  <2>2. pc' = [pc EXCEPT ![t] = to]
    BY <1>3 DEF Goto
  <2> HIDE DEF to
  <2> QED
    BY <1>1, <1>3, <2>1, <2>2 DEF TypeOK, OneWriter, NoReaderWhileWriting
<1> QED
  BY <1>4, <1>6 DEF IndInv

LEMMA WriteDrainStep ==
  ASSUME IndInv, NEW t \in Thread, WriteDrain(t)
  PROVE  IndInv'
<1>1. TypeOK /\ OneWriter /\ NoReaderWhileWriting
  BY DEF IndInv
<1>2. Goto(t, "drain", "writing") /\ mLockFlag' = mLockFlag /\ Readers(mLockFlag) = 0
  BY DEF WriteDrain
<1>3. FlagExact' /\ TypeOK'
  <2>1. /\ Counts("writing", WriterLabel) = 1 /\ Counts("drain", WriterLabel) = 1
        /\ Counts("writing", ReaderLabel) = 0 /\ Counts("drain", ReaderLabel) = 0
    BY DEF Counts, WriterLabel, ReaderLabel
  <2>2. mLockFlag \in 0 .. LONG_MAX
    BY <1>1 DEF TypeOK
  <2>3. mLockFlag' = mLockFlag + Delta("drain", "writing")
    BY <1>2, <2>1, <2>2, SMT DEF Delta, LF_WRITE_FLAG
  <2>4. "drain" \in Label /\ "writing" \in Label
    BY DEF Label
  <2> QED
    BY <1>2, <2>3, <2>4, FlagStep
<1>4. \A u \in Thread : pc[u] # "reading"
  BY <1>2, NobodyAnnounced DEF AnnouncedReaders
<1>5. OneWriter' /\ NoReaderWhileWriting'
  BY <1>1, <1>2, <1>4 DEF TypeOK, Goto, OneWriter, NoReaderWhileWriting
<1> QED
  BY <1>3, <1>5 DEF IndInv

\* A reader that has seen no writer in the result of its InterlockedAdd finds
\* that no writer is announced.
LEMMA ReaderEnters ==
  ASSUME IndInv, NEW t \in Thread, pc[t] = "radd", Writers(mLockFlag + 1) = 0
  PROVE  AnnouncedWriters = {}
<1> DEFINE w == Cardinality(AnnouncedWriters)
           r == Cardinality(AnnouncedReaders)
<1>1. AnnouncedWriters \in SUBSET Thread /\ AnnouncedReaders \in SUBSET Thread
  BY DEF AnnouncedWriters, AnnouncedReaders
<1>2. IsFiniteSet(AnnouncedWriters) /\ w \in Nat /\ r \in Nat /\ w < WriterBits
  BY <1>1, ThreadSets
<1>3. r + 1 < LF_WRITE_FLAG
  <2>1. t \notin AnnouncedReaders
    BY DEF AnnouncedReaders
  <2>2. Cardinality(AnnouncedReaders \union {t}) = r + 1
    BY <1>1, <2>1, CountStep
  <2>3. AnnouncedReaders \union {t} \in SUBSET Thread
    BY <1>1
  <2> QED
    BY <2>2, <2>3, ThreadSets
<1>4. Writers(mLockFlag + 1) = w
  <2>1. mLockFlag = LF_WRITE_FLAG * w + r
    BY DEF IndInv, FlagExact
  <2> HIDE DEF w, r
  <2>2. mLockFlag + 1 = LF_WRITE_FLAG * w + (r + 1)
    BY <1>2, <2>1, SMT DEF LF_WRITE_FLAG
  <2>3. r + 1 \in Nat
    BY <1>2
  <2> QED
    BY <1>2, <1>3, <2>2, <2>3, FieldsOfFlag
<1> QED
  BY <1>2, <1>4, FS_EmptySet

LEMMA ReadAddStep ==
  ASSUME IndInv, NEW t \in Thread, ReadAdd(t)
  PROVE  IndInv'
<1>1. mLockFlag \in 0 .. LONG_MAX /\ TypeOK /\ OneWriter /\ NoReaderWhileWriting
  BY DEF IndInv, TypeOK
<1>2. mLockFlag' = mLockFlag + 1
  BY DEF ReadAdd, InterlockedAdd
<1> DEFINE to == IF Writers(mLockFlag + 1) = 0 THEN "reading" ELSE "rundo"
<1>3. Goto(t, "radd", to) /\ to \in {"reading", "rundo"}
  BY DEF ReadAdd
<1>4. FlagExact' /\ TypeOK'
  <2>1. /\ Counts(to, WriterLabel) = 0 /\ Counts("radd", WriterLabel) = 0
        /\ Counts(to, ReaderLabel) = 1 /\ Counts("radd", ReaderLabel) = 0
    BY <1>3 DEF Counts, WriterLabel, ReaderLabel
  <2>2. mLockFlag' = mLockFlag + Delta("radd", to)
    BY <1>1, <1>2, <2>1, SMT DEF Delta, LF_WRITE_FLAG
  <2>3. to \in Label /\ "radd" \in Label
    BY <1>3 DEF Label
  <2> HIDE DEF to
  <2> QED
    BY <1>3, <2>2, <2>3, FlagStep
<1>5. to = "reading" => AnnouncedWriters = {}
  BY <1>3, ReaderEnters DEF Goto
<1>6. OneWriter' /\ NoReaderWhileWriting'
  <2>1. \A u \in Thread : to = "reading" => pc[u] \notin {"drain", "writing"}
    BY <1>5 DEF AnnouncedWriters
  <2>2. pc' = [pc EXCEPT ![t] = to]
    BY <1>3 DEF Goto
  <2> HIDE DEF to
  <2> QED
    BY <1>1, <1>3, <2>1, <2>2 DEF TypeOK, OneWriter, NoReaderWhileWriting
<1> QED
  BY <1>4, <1>6 DEF IndInv

\* The other eight steps.
LEMMA OtherStep ==
  ASSUME IndInv, NEW t \in Thread,
         \/ CallWrite(t) \/ WriteSpin(t) \/ WriteUndo(t) \/ LeaveWriteLock(t)
         \/ CallRead(t) \/ ReadSpin(t) \/ ReadUndo(t) \/ LeaveReadLock(t)
  PROVE  IndInv'
<1>1. mLockFlag \in Int
  BY DEF IndInv, TypeOK
<1>2. CASE CallWrite(t)
  <2>1. Goto(t, "outside", "wspin") /\ mLockFlag' = mLockFlag + (0)
    BY <1>1, <1>2, SMT DEF CallWrite, InterlockedAdd, LF_WRITE_FLAG
  <2>2. Delta("outside", "wspin") = 0
    BY SMT DEF Delta, Counts, WriterLabel, ReaderLabel, LF_WRITE_FLAG
  <2>3. "outside" \in Label /\ "wspin" \in Label \ {"drain", "writing", "reading"}
    BY DEF Label
  <2> QED
    BY <1>1, <2>1, <2>2, <2>3, PlainStep
<1>3. CASE WriteSpin(t)
  <2>1. Goto(t, "wspin", "wadd") /\ mLockFlag' = mLockFlag + (0)
    BY <1>1, <1>3, SMT DEF WriteSpin, InterlockedAdd, LF_WRITE_FLAG
  <2>2. Delta("wspin", "wadd") = 0
    BY SMT DEF Delta, Counts, WriterLabel, ReaderLabel, LF_WRITE_FLAG
  <2>3. "wspin" \in Label /\ "wadd" \in Label \ {"drain", "writing", "reading"}
    BY DEF Label
  <2> QED
    BY <1>1, <2>1, <2>2, <2>3, PlainStep
<1>4. CASE WriteUndo(t)
  <2>1. Goto(t, "wundo", "wspin") /\ mLockFlag' = mLockFlag + (-LF_WRITE_FLAG)
    BY <1>1, <1>4, SMT DEF WriteUndo, InterlockedAdd, LF_WRITE_FLAG
  <2>2. Delta("wundo", "wspin") = -LF_WRITE_FLAG
    BY SMT DEF Delta, Counts, WriterLabel, ReaderLabel, LF_WRITE_FLAG
  <2>3. "wundo" \in Label /\ "wspin" \in Label \ {"drain", "writing", "reading"}
    BY DEF Label
  <2> QED
    BY <1>1, <2>1, <2>2, <2>3, PlainStep
<1>5. CASE LeaveWriteLock(t)
  <2>1. Goto(t, "writing", "outside") /\ mLockFlag' = mLockFlag + (-LF_WRITE_FLAG)
    BY <1>1, <1>5, SMT DEF LeaveWriteLock, InterlockedAdd, LF_WRITE_FLAG
  <2>2. Delta("writing", "outside") = -LF_WRITE_FLAG
    BY SMT DEF Delta, Counts, WriterLabel, ReaderLabel, LF_WRITE_FLAG
  <2>3. "writing" \in Label /\ "outside" \in Label \ {"drain", "writing", "reading"}
    BY DEF Label
  <2> QED
    BY <1>1, <2>1, <2>2, <2>3, PlainStep
<1>6. CASE CallRead(t)
  <2>1. Goto(t, "outside", "rspin") /\ mLockFlag' = mLockFlag + (0)
    BY <1>1, <1>6, SMT DEF CallRead, InterlockedAdd, LF_WRITE_FLAG
  <2>2. Delta("outside", "rspin") = 0
    BY SMT DEF Delta, Counts, WriterLabel, ReaderLabel, LF_WRITE_FLAG
  <2>3. "outside" \in Label /\ "rspin" \in Label \ {"drain", "writing", "reading"}
    BY DEF Label
  <2> QED
    BY <1>1, <2>1, <2>2, <2>3, PlainStep
<1>7. CASE ReadSpin(t)
  <2>1. Goto(t, "rspin", "radd") /\ mLockFlag' = mLockFlag + (0)
    BY <1>1, <1>7, SMT DEF ReadSpin, InterlockedAdd, LF_WRITE_FLAG
  <2>2. Delta("rspin", "radd") = 0
    BY SMT DEF Delta, Counts, WriterLabel, ReaderLabel, LF_WRITE_FLAG
  <2>3. "rspin" \in Label /\ "radd" \in Label \ {"drain", "writing", "reading"}
    BY DEF Label
  <2> QED
    BY <1>1, <2>1, <2>2, <2>3, PlainStep
<1>8. CASE ReadUndo(t)
  <2>1. Goto(t, "rundo", "rspin") /\ mLockFlag' = mLockFlag + (-1)
    BY <1>1, <1>8, SMT DEF ReadUndo, InterlockedAdd, LF_WRITE_FLAG
  <2>2. Delta("rundo", "rspin") = -1
    BY SMT DEF Delta, Counts, WriterLabel, ReaderLabel, LF_WRITE_FLAG
  <2>3. "rundo" \in Label /\ "rspin" \in Label \ {"drain", "writing", "reading"}
    BY DEF Label
  <2> QED
    BY <1>1, <2>1, <2>2, <2>3, PlainStep
<1>9. CASE LeaveReadLock(t)
  <2>1. Goto(t, "reading", "outside") /\ mLockFlag' = mLockFlag + (-1)
    BY <1>1, <1>9, SMT DEF LeaveReadLock, InterlockedAdd, LF_WRITE_FLAG
  <2>2. Delta("reading", "outside") = -1
    BY SMT DEF Delta, Counts, WriterLabel, ReaderLabel, LF_WRITE_FLAG
  <2>3. "reading" \in Label /\ "outside" \in Label \ {"drain", "writing", "reading"}
    BY DEF Label
  <2> QED
    BY <1>1, <2>1, <2>2, <2>3, PlainStep
<1> QED
  BY <1>2, <1>3, <1>4, <1>5, <1>6, <1>7, <1>8, <1>9

-----------------------------------------------------------------------------
\* The word counts the announcements, at most one writer has announced itself
\* successfully, and no thread reads while one writes, in every reachable
\* state of EnterWriteLock, LeaveWriteLock, EnterReadLock and LeaveReadLock.
THEOREM InductiveInvariant == Spec => []IndInv
<1>1. Init => IndInv
  <2> SUFFICES ASSUME Init PROVE IndInv
    OBVIOUS
  <2>1. AnnouncedWriters = {} /\ AnnouncedReaders = {}
    BY DEF Init, AnnouncedWriters, AnnouncedReaders
  <2>2. Cardinality(AnnouncedWriters) = 0 /\ Cardinality(AnnouncedReaders) = 0
    BY <2>1, FS_EmptySet
  <2>3. FlagExact
    BY <2>2, SMT DEF Init, FlagExact, LF_WRITE_FLAG
  <2>4. LONG_MAX \in Nat
    BY SMT DEF LONG_MAX
  <2>5. TypeOK
    BY <2>4 DEF Init, TypeOK, Label
  <2>6. OneWriter /\ NoReaderWhileWriting
    BY DEF Init, OneWriter, NoReaderWhileWriting
  <2> QED
    BY <2>3, <2>5, <2>6 DEF IndInv
<1>2. IndInv /\ [Next]_vars => IndInv'
  <2>1. ASSUME IndInv, UNCHANGED vars PROVE IndInv'
    BY <2>1 DEF IndInv, TypeOK, FlagExact, OneWriter, NoReaderWhileWriting,
                AnnouncedWriters, AnnouncedReaders, vars
  <2>2. ASSUME IndInv, NEW t \in Thread,
               \/ EnterWriteLock(t) \/ LeaveWriteLock(t)
               \/ EnterReadLock(t) \/ LeaveReadLock(t)
        PROVE  IndInv'
    BY <2>2, WriteAddStep, WriteDrainStep, ReadAddStep, OtherStep DEF EnterWriteLock, EnterReadLock
  <2> QED
    BY <2>1, <2>2 DEF Next
<1> QED
  BY <1>1, <1>2, PTL DEF Spec

\* mLockFlag stays a non-negative long: no InterlockedAdd wraps, as long as
\* there are fewer than 2048 threads.
THEOREM WordInRange == Spec => []TypeOK
<1>1. IndInv => TypeOK
  BY DEF IndInv
<1> QED
  BY <1>1, InductiveInvariant, PTL

\* Every InterlockedAdd that could not be used has been undone: the word counts
\* the announcements of the writers in its upper half and those of the readers
\* in its lower half, so neither side ever finds an announcement nobody made.
THEOREM WordCountsAnnouncements == Spec => []FlagExact
<1>1. IndInv => FlagExact
  BY DEF IndInv
<1> QED
  BY <1>1, InductiveInvariant, PTL

\* While a writer waits in EnterWriteLock for the readers to drain, no
\* EnterReadLock returns.
THEOREM ReadersWait == Spec => NoReaderOvertakes
<1>1. ASSUME IndInv, [Next]_vars, NEW t \in Thread, NEW u \in Thread,
             pc[t] = "drain", pc[u] # "reading"
      PROVE  pc'[u] # "reading"
  <2>1. CASE UNCHANGED vars
    BY <1>1, <2>1 DEF vars
  <2>2. ASSUME NEW v \in Thread, ReadAdd(v) PROVE pc'[u] # "reading"
    <3>1. Writers(mLockFlag + 1) # 0
      BY <1>1, <2>2, ReaderEnters DEF ReadAdd, Goto, AnnouncedWriters
    <3> QED
      BY <1>1, <2>2, <3>1 DEF ReadAdd, Goto, IndInv, TypeOK
  <2>3. ASSUME NEW v \in Thread, NEW from, NEW to, Goto(v, from, to), to # "reading"
        PROVE  pc'[u] # "reading"
    BY <1>1, <2>3 DEF Goto, IndInv, TypeOK
  <2>4. ASSUME NEW v \in Thread, WriteAdd(v) PROVE pc'[u] # "reading"
    BY <2>3, <2>4 DEF WriteAdd
  <2>5. ASSUME NEW v \in Thread,
               \/ CallWrite(v) \/ WriteSpin(v) \/ WriteUndo(v) \/ WriteDrain(v) \/ LeaveWriteLock(v)
               \/ CallRead(v) \/ ReadSpin(v) \/ ReadUndo(v) \/ LeaveReadLock(v)
        PROVE  pc'[u] # "reading"
    BY <2>3, <2>5 DEF CallWrite, WriteSpin, WriteUndo, WriteDrain, LeaveWriteLock,
                      CallRead, ReadSpin, ReadUndo, LeaveReadLock
  <2> QED
    BY <1>1, <2>1, <2>2, <2>4, <2>5 DEF Next, EnterWriteLock, EnterReadLock
<1>2. IndInv /\ [Next]_vars
        => [\A t, u \in Thread :
              pc[t] = "drain" /\ pc[u] # "reading" => pc'[u] # "reading"]_vars
  BY <1>1
<1> QED
  BY <1>2, InductiveInvariant, PTL DEF Spec, NoReaderOvertakes

\* The word implements a readers/writer lock.
THEOREM LockIsReadersWriter == Spec => ImplementsLock
<1> DEFINE X == {t \in Thread : pc[t] = "writing"}
           S == {t \in Thread : pc[t] = "reading"}
<1>1. Init => RW!Init
  BY DEF Init, RW!Init
<1>2. IndInv /\ [Next]_vars => [RW!Next]_<<X, S>>
  <2> SUFFICES ASSUME IndInv, [Next]_vars PROVE [RW!Next]_<<X, S>>
    OBVIOUS
  <2> USE DEF IndInv, TypeOK
  <2>1. CASE UNCHANGED vars
    BY <2>1 DEF vars
  <2>2. ASSUME NEW t \in Thread, WriteDrain(t) PROVE RW!AcquireExclusive(t)
    <3>1. S = {}
      BY <2>2, NobodyAnnounced DEF WriteDrain, AnnouncedReaders
    <3>2. X = {} /\ X' = {t} /\ S' = S
      BY <2>2 DEF WriteDrain, Goto, OneWriter
    <3> QED
      BY <3>1, <3>2 DEF RW!AcquireExclusive
  <2>3. ASSUME NEW t \in Thread, ReadAdd(t) PROVE RW!AcquireShared(t) \/ UNCHANGED <<X, S>>
    <3>1. CASE Writers(mLockFlag + 1) = 0
      <4>1. X = {}
        BY <2>3, <3>1, ReaderEnters DEF ReadAdd, Goto, AnnouncedWriters
      <4>2. t \notin S /\ S' = S \union {t} /\ X' = X
        BY <2>3, <3>1 DEF ReadAdd, Goto
      <4> QED
        BY <4>1, <4>2 DEF RW!AcquireShared
    <3>2. CASE Writers(mLockFlag + 1) # 0
      BY <2>3, <3>2 DEF ReadAdd, Goto
    <3> QED
      BY <3>1, <3>2
  <2>4. ASSUME NEW t \in Thread, LeaveWriteLock(t) \/ LeaveReadLock(t) PROVE RW!Release(t)
    <3>1. t \in X \union S /\ X' = X \ {t} /\ S' = S \ {t}
      BY <2>4 DEF LeaveWriteLock, LeaveReadLock, Goto
    <3> QED
      BY <3>1 DEF RW!Release
  <2>5. ASSUME NEW t \in Thread, NEW from, NEW to, Goto(t, from, to),
               from \notin {"writing", "reading"}, to \notin {"writing", "reading"}
        PROVE  UNCHANGED <<X, S>>
    BY <2>5 DEF Goto
  <2>6. ASSUME NEW t \in Thread, WriteAdd(t) PROVE UNCHANGED <<X, S>>
    BY <2>5, <2>6 DEF WriteAdd
  <2>7. ASSUME NEW t \in Thread,
               \/ CallWrite(t) \/ WriteSpin(t) \/ WriteUndo(t)
               \/ CallRead(t) \/ ReadSpin(t) \/ ReadUndo(t)
        PROVE  UNCHANGED <<X, S>>
    BY <2>5, <2>7 DEF CallWrite, WriteSpin, WriteUndo, CallRead, ReadSpin, ReadUndo
  <2> QED
    BY <2>1, <2>2, <2>3, <2>4, <2>6, <2>7 DEF Next, EnterWriteLock, EnterReadLock, RW!Next
<1> QED
  BY <1>1, <1>2, InductiveInvariant, PTL DEF Spec, ImplementsLock, RW!Spec
=============================================================================
