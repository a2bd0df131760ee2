---------------------------- MODULE FastSpinlock ----------------------------
(***************************************************************************)
(* The reader/writer spin lock of Homework4 (FastSpinlock.cpp).  One word  *)
(* holds the number of threads that have announced themselves as writers   *)
(* (bits 20 to 30) and as readers (bits 0 to 19).  A thread spins until no *)
(* writer is announced, announces itself with an InterlockedAdd, and looks *)
(* at the result: if it came too late it takes the announcement back and   *)
(* spins again.  A successful writer then waits for the readers to drain.  *)
(*                                                                         *)
(* Every access to mLockFlag is a step of its own.  A turn of a spin loop  *)
(* that finds the lock taken changes nothing.                              *)
(***************************************************************************)
EXTENDS Integers, FiniteSets

CONSTANT Thread

LF_WRITE_FLAG == 1048576         \* 0x00100000
WriterBits == 2048               \* LF_WRITE_MASK has 11 bits
LONG_MAX == 2147483647

\* Every thread has at most one announcement, so the fields do not overflow.
ASSUME ThreadAssumption == IsFiniteSet(Thread) /\ Cardinality(Thread) < WriterBits

VARIABLES mLockFlag,
          pc                     \* where each thread is

vars == <<mLockFlag, pc>>

\* mLockFlag & LF_WRITE_MASK, in units of LF_WRITE_FLAG
Writers(flag) == (flag \div LF_WRITE_FLAG) % WriterBits

\* mLockFlag & LF_READ_MASK
Readers(flag) == flag % LF_WRITE_FLAG

Label == {"outside", "wspin", "wadd", "wundo", "drain", "writing",
          "rspin", "radd", "rundo", "reading"}

Init ==
  /\ mLockFlag = 0
  /\ pc = [t \in Thread |-> "outside"]

Goto(t, from, to) == pc[t] = from /\ pc' = [pc EXCEPT ![t] = to]

InterlockedAdd(n) == mLockFlag' = mLockFlag + n

-----------------------------------------------------------------------------
\* Exclusive mode.
CallWrite(t) == Goto(t, "outside", "wspin") /\ UNCHANGED mLockFlag

WriteSpin(t) ==
  /\ Writers(mLockFlag) = 0
  /\ Goto(t, "wspin", "wadd") /\ UNCHANGED mLockFlag

\* Mutant: any announcement succeeds.
WriteAddUnchecked(t) ==
  /\ InterlockedAdd(LF_WRITE_FLAG)
  /\ Goto(t, "wadd", "drain")

WriteAdd(t) ==
  /\ InterlockedAdd(LF_WRITE_FLAG)
  /\ Goto(t, "wadd", IF Writers(mLockFlag + LF_WRITE_FLAG) = 1 THEN "drain" ELSE "wundo")

WriteUndo(t) == Goto(t, "wundo", "wspin") /\ InterlockedAdd(-LF_WRITE_FLAG)

WriteDrain(t) ==
  /\ Readers(mLockFlag) = 0
  /\ Goto(t, "drain", "writing") /\ UNCHANGED mLockFlag

EnterWriteLock(t) ==
  CallWrite(t) \/ WriteSpin(t) \/ WriteAdd(t) \/ WriteUndo(t) \/ WriteDrain(t)

\* Mutant: the writer leaves its announcement behind.
LeaveWriteLockKeepsFlag(t) == Goto(t, "writing", "outside") /\ UNCHANGED mLockFlag

LeaveWriteLock(t) == Goto(t, "writing", "outside") /\ InterlockedAdd(-LF_WRITE_FLAG)

-----------------------------------------------------------------------------
\* Shared mode.
CallRead(t) == Goto(t, "outside", "rspin") /\ UNCHANGED mLockFlag

ReadSpin(t) ==
  /\ Writers(mLockFlag) = 0
  /\ Goto(t, "rspin", "radd") /\ UNCHANGED mLockFlag

\* Mutant: the reader trusts its earlier look at the writers.
ReadAddUnchecked(t) ==
  /\ InterlockedAdd(1)
  /\ Goto(t, "radd", "reading")

ReadAdd(t) ==
  /\ InterlockedAdd(1)
  /\ Goto(t, "radd", IF Writers(mLockFlag + 1) = 0 THEN "reading" ELSE "rundo")

\* Mutant: a reader that came too late takes back a writer's announcement.
ReadUndoWrongField(t) == Goto(t, "rundo", "rspin") /\ InterlockedAdd(-LF_WRITE_FLAG)

\* Mutant: a reader that came too late stays announced.
ReadUndoMissing(t) == Goto(t, "rundo", "rspin") /\ UNCHANGED mLockFlag

ReadUndo(t) == Goto(t, "rundo", "rspin") /\ InterlockedAdd(-1)

EnterReadLock(t) == CallRead(t) \/ ReadSpin(t) \/ ReadAdd(t) \/ ReadUndo(t)

LeaveReadLock(t) == Goto(t, "reading", "outside") /\ InterlockedAdd(-1)

-----------------------------------------------------------------------------
Next ==
  \E t \in Thread : \/ EnterWriteLock(t) \/ LeaveWriteLock(t)
                    \/ EnterReadLock(t) \/ LeaveReadLock(t)

Spec == Init /\ [][Next]_vars

\* A thread that has called keeps running; the code between Enter and Leave
\* ends.  Nothing makes a thread call.
Continue(t) ==
  \/ WriteSpin(t) \/ WriteAdd(t) \/ WriteUndo(t) \/ WriteDrain(t) \/ LeaveWriteLock(t)
  \/ ReadSpin(t) \/ ReadAdd(t) \/ ReadUndo(t) \/ LeaveReadLock(t)

FairSpec == Spec /\ \A t \in Thread : WF_vars(Continue(t))

-----------------------------------------------------------------------------
\* The word stays a non-negative long, so no InterlockedAdd ever wraps or
\* borrows from the other field.
TypeOK ==
  /\ mLockFlag \in 0 .. LONG_MAX
  /\ pc \in [Thread -> Label]

AnnouncedWriters == {t \in Thread : pc[t] \in {"wundo", "drain", "writing"}}
AnnouncedReaders == {t \in Thread : pc[t] \in {"rundo", "reading"}}

\* The two fields count the announcements.
FlagExact ==
  mLockFlag = LF_WRITE_FLAG * Cardinality(AnnouncedWriters) + Cardinality(AnnouncedReaders)

\* At most one announcement of a writer is the successful one.
OneWriter ==
  \A t, u \in Thread : pc[t] \in {"drain", "writing"} /\ pc[u] \in {"drain", "writing"} => t = u

\* No thread reads while one writes.
NoReaderWhileWriting ==
  \A t, u \in Thread : ~(pc[t] = "writing" /\ pc[u] = "reading")

IndInv == TypeOK /\ FlagExact /\ OneWriter /\ NoReaderWhileWriting

\* The protocol on the word implements a readers/writer lock: the threads that
\* have returned from EnterWriteLock and EnterReadLock are its holders.
RW == INSTANCE ReadersWriterLock WITH
        exclusive <- {t \in Thread : pc[t] = "writing"},
        shared <- {t \in Thread : pc[t] = "reading"}

ImplementsLock == RW!Spec

\* While a writer waits for the readers to drain no new reader gets in, even
\* one that found no writer when it looked.
NoReaderOvertakes ==
  [][\A t, u \in Thread :
       pc[t] = "drain" /\ pc[u] # "reading" => pc'[u] # "reading"]_vars

\* A writer that waits for the readers to drain gets the lock.
DrainEnds == \A t \in Thread : pc[t] = "drain" ~> pc[t] = "writing"

\* The threads that come too late and try again do not keep each other out
\* for ever: while somebody wants the lock, somebody gets it.
LockProgress ==
  (\E t \in Thread : pc[t] \in {"wspin", "rspin"})
     ~> (\E t \in Thread : pc[t] \in {"writing", "reading"})
=============================================================================
