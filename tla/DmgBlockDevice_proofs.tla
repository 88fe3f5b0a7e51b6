------------------------ MODULE DmgBlockDevice_proofs ------------------------
(***************************************************************************)
(* For any number of devices on one image, any length of the data fork and  *)
(* any faults: no write reaches the trailer, a checksum that does not match *)
(* has a known cause, a clean Close repairs it, and no file stays open.     *)
(***************************************************************************)
EXTENDS DmgBlockDevice, TLAPS

------------------------------------------------------------------------------
(* Facts about the operators *)

\* What passes the tests of WriteAt and is accepted by the operating system ends
\* within the data fork: the sum can only wrap for offsets it refuses.
LEMMA FitsInFork ==
  ASSUME NEW off \in Offsets, NEW len \in 1..MaxLen, Fits(off, len), off <= OsMax
  PROVE  off \in Nat /\ off + len <= Fork
BY DeviceAssumption DEF Offsets, Fits, Wrap

\* A write that took n units changes units of the fork only.
LEMMA StoredInFork ==
  ASSUME NEW off \in Offsets, NEW len \in 1..MaxLen, NEW v \in Vals, NEW n \in 0..len,
         Fits(off, len), off > OsMax => n = 0, TypeOK, file[Fork] = Koly
  PROVE  /\ Stored(off, n, v) \in [0..Fork -> Vals \cup {Koly}]
         /\ Stored(off, n, v)[Fork] = Koly
         /\ [i \in Units |-> Stored(off, n, v)[i]] \in ForkContents
         /\ n = 0 => Stored(off, n, v) = file
<1>1. Fork \in Nat \ {0} /\ OsMax \in Nat /\ MaxLen \in Nat
  BY DeviceAssumption
<1>2. off \in Int /\ n \in Nat /\ off + n <= off + len
  BY <1>1, DeviceAssumption DEF Offsets
<1>3. n > 0 => off \in Nat /\ off + n <= Fork
  BY <1>1, <1>2, FitsInFork
<1>4. \A i \in Units : i \in 0..Fork /\ file[i] \in Vals
  <2>1. \A i \in Units : fork[i] \in Vals
    BY DEF TypeOK, ForkContents
  <2> QED
    BY <2>1, <1>1 DEF fork, Units
<1>5. Stored(off, n, v) \in [0..Fork -> Vals \cup {Koly}]
  BY DEF Stored, TypeOK
<1>6. Stored(off, n, v)[Fork] = Koly
  BY <1>1, <1>2, <1>3 DEF Stored
<1>7. [i \in Units |-> Stored(off, n, v)[i]] \in ForkContents
  BY <1>4 DEF Stored, ForkContents
<1>8. n = 0 => Stored(off, n, v) = file
  BY <1>1, <1>2 DEF Stored, TypeOK
<1> QED
  BY <1>5, <1>6, <1>7, <1>8

------------------------------------------------------------------------------
(* The inductive invariant *)

\* Which stages belong to a device that was written to.
Stages ==
  \A d \in Devs :
    /\ pc[d] \in {"closed", "check"} => d \notin dirty
    /\ pc[d] \in {"sync", "rread", "rwrite"} => d \in dirty

\* Unless devices were written to at once, only one is.
Lone == ~mixed => \A d, e \in dirty : d = e

\* What a refresh has read is what it will have to cover.
SeenIsFork == \A d \in Devs : pc[d] = "rwrite" /\ ~mixed => seen[d] = fork

\* A device that was written to and is done has refreshed the checksum, or its
\* failure was noted.
DoneCovered ==
  \A d \in Devs : pc[d] = "done" /\ d \in dirty => Readable \/ faulted \/ mixed

IndInv ==
  /\ TypeOK
  /\ TrailerUntouched
  /\ HandlesReturned
  /\ Stages
  /\ Lone
  /\ SeenIsFork
  /\ DoneCovered
  /\ ChecksumCovered
  /\ NilCloseHeals

\* The invariant holds before the first device is opened.
LEMMA InitInd == Init => IndInv
<1> SUFFICES ASSUME Init PROVE IndInv
  OBVIOUS
<1>1. PICK v \in Vals : crc = [i \in Units |-> v]
  BY DEF Init
<1>2. crc \in ForkContents
  BY <1>1 DEF ForkContents
<1>3. Fork \in Nat /\ \A i \in Units : i \in 0..Fork /\ i # Fork
  BY DeviceAssumption DEF Units
<1>4. file[Fork] = Koly
  BY <1>3 DEF Init
<1>5. fork = crc
  BY <1>2, <1>3 DEF Init, fork, ForkContents
<1>6. file \in [0..Fork -> Vals \cup {Koly}]
  <2>1. \A i \in 0..Fork : i # Fork => i \in Units
    BY <1>3 DEF Units
  <2> QED
    BY <2>1, <1>2 DEF Init, ForkContents
<1>7. TypeOK
  <2>1. io \in [len : Int, n : Int, end : Int]
    BY DEF Init, NoIO
  <2>2. pc \in [Devs -> PCs] /\ seen \in [Devs -> ForkContents]
    BY <1>2 DEF Init, PCs
  <2> QED
    BY <1>2, <1>5, <1>6, <2>1, <2>2 DEF Init, TypeOK
<1>8. TrailerUntouched
  BY <1>3, <1>4 DEF Init, TrailerUntouched, NoIO
<1>9. HandlesReturned /\ Stages /\ Lone /\ SeenIsFork /\ DoneCovered
  BY DEF Init, HandlesReturned, Stages, Lone, SeenIsFork, DoneCovered
<1>10. ChecksumCovered /\ NilCloseHeals
  BY <1>5 DEF Init, ChecksumCovered, NilCloseHeals, Readable
<1> QED
  BY <1>7, <1>8, <1>9, <1>10 DEF IndInv

\* Device d has written n of the len units of its buffer.
Took(d, off, len, v, n) ==
  /\ off > OsMax => n = 0
  /\ file' = Stored(off, n, v)
  /\ dirty' = IF MarksDirty(n, len) THEN dirty \cup {d} ELSE dirty
  /\ mixed' = (mixed \/ (n > 0 /\ dirty \ {d} # {}))

\* Every step keeps the types, the trailer and the bounds of ReadAt.
LEMMA TypeStep == IndInv /\ [Next]_vars => TypeOK' /\ TrailerUntouched'
<1> SUFFICES ASSUME IndInv, [Next]_vars PROVE TypeOK' /\ TrailerUntouched'
  OBVIOUS
<1> USE DEF PCs
<1>i. TypeOK /\ TrailerUntouched
  BY DEF IndInv
<1>n. Fork \in Nat /\ NoIO \in [len : Int, n : Int, end : Int] /\ NoIO.n <= NoIO.len /\ NoIO.end <= Fork
  BY DeviceAssumption DEF NoIO
<1>f. file' = file => fork' = fork
  BY DEF fork
<1>0. CASE UNCHANGED vars
  BY <1>0, <1>i, <1>f DEF vars, TypeOK, TrailerUntouched
<1>1. ASSUME NEW d \in Devs, Open(d) PROVE TypeOK' /\ TrailerUntouched'
  BY <1>1, <1>i, <1>n, <1>f DEF Open, Refuse, Goto, Answer, TypeOK, TrailerUntouched
<1>2. ASSUME NEW d \in Devs, CheckTrailer(d) PROVE TypeOK' /\ TrailerUntouched'
  BY <1>2, <1>i, <1>n, <1>f DEF CheckTrailer, TrailerChecked, StatFails, TooShort, KolyUnread,
         BadMagic, ForkNotAtZero, LengthDisagrees, GiveUp, Goto, Answer, TypeOK, TrailerUntouched
<1>3. ASSUME NEW d \in Devs, ReadAt(d) PROVE TypeOK' /\ TrailerUntouched'
  <2>1. PICK off \in Offsets, len \in 0..MaxLen :
          io' = IF off < 0 \/ off >= Fork
                  THEN [len |-> len, n |-> 0, end |-> 0]
                  ELSE LET n == IF len > Fork - off THEN Fork - off ELSE len
                       IN  [len |-> len, n |-> n, end |-> off + n]
    BY <1>3 DEF ReadAt
  <2>2. off \in Int /\ len \in Nat
    BY DeviceAssumption DEF Offsets
  <2>3. io' \in [len : Int, n : Int, end : Int] /\ io'.n <= io'.len /\ io'.end <= Fork
    BY <2>1, <2>2, <1>n
  <2> QED
    BY <1>3, <1>i, <1>f, <2>3 DEF ReadAt, TypeOK, TrailerUntouched
<1>4. ASSUME NEW d \in Devs, WriteAt(d) PROVE TypeOK' /\ TrailerUntouched'
  <2>0. PICK off \in Offsets, len \in 1..MaxLen, v \in Vals :
          Fits(off, len) /\ \E n \in 0..len : Took(d, off, len, v, n)
    BY <1>4 DEF WriteAt, Took
  <2>1. PICK n \in 0..len : Took(d, off, len, v, n)
    BY <2>0
  <2>2. /\ file' \in [0..Fork -> Vals \cup {Koly}]
        /\ file'[Fork] = Koly
        /\ fork' \in ForkContents
    BY <2>0, <2>1, <1>i, StoredInFork DEF TrailerUntouched, fork, Took
  <2>3. dirty' \in SUBSET Devs /\ mixed' \in BOOLEAN
    BY <2>1, <1>i DEF TypeOK, Took
  <2> QED
    BY <1>4, <1>i, <1>n, <2>2, <2>3 DEF WriteAt, TypeOK, TrailerUntouched
<1>5. ASSUME NEW d \in Devs, StartClose(d) PROVE TypeOK' /\ TrailerUntouched'
  BY <1>5, <1>i, <1>n, <1>f DEF StartClose, Goto, Answer, TypeOK, TrailerUntouched
<1>6. ASSUME NEW d \in Devs, SyncFile(d) PROVE TypeOK' /\ TrailerUntouched'
  BY <1>6, <1>i, <1>n, <1>f DEF SyncFile, CloseReturns, Goto, TypeOK, TrailerUntouched
<1>7. ASSUME NEW d \in Devs, CloseFile(d) PROVE TypeOK' /\ TrailerUntouched'
  BY <1>7, <1>i, <1>n, <1>f DEF CloseFile, CloseReturns, Goto, TypeOK, TrailerUntouched
<1>8. ASSUME NEW d \in Devs, RefreshRead(d) PROVE TypeOK' /\ TrailerUntouched'
  BY <1>8, <1>i, <1>n, <1>f DEF RefreshRead, Goto, TypeOK, TrailerUntouched
<1>9. ASSUME NEW d \in Devs, RefreshWrite(d) PROVE TypeOK' /\ TrailerUntouched'
  BY <1>9, <1>i, <1>n, <1>f DEF RefreshWrite, CloseReturns, Goto, TypeOK, TrailerUntouched
<1>10. ASSUME NEW d \in Devs, RefreshFails(d) PROVE TypeOK' /\ TrailerUntouched'
  BY <1>10, <1>i, <1>n, <1>f DEF RefreshFails, CloseReturns, Goto, TypeOK, TrailerUntouched
<1>11. ASSUME NEW d \in Devs, Return(d) PROVE TypeOK' /\ TrailerUntouched'
  BY <1>11, <1>i, <1>n, <1>f DEF Return, Goto, TypeOK, TrailerUntouched
<1>12. ASSUME NEW d \in Devs, Crash(d) PROVE TypeOK' /\ TrailerUntouched'
  BY <1>12, <1>i, <1>n, <1>f DEF Crash, Goto, Answer, TypeOK, TrailerUntouched
<1> QED
  BY <1>0, <1>1, <1>2, <1>3, <1>4, <1>5, <1>6, <1>7, <1>8, <1>9, <1>10, <1>11, <1>12
  DEF Next

\* WriteAt as a fact about the number of units written.
LEMMA WriteTook ==
  ASSUME IndInv, NEW d \in Devs, WriteAt(d)
  PROVE  /\ pc[d] = "open"
         /\ \/ file' = file /\ dirty' = dirty /\ mixed' = mixed
            \/ dirty' = dirty \cup {d} /\ (~mixed' => ~mixed /\ dirty \subseteq {d})
         /\ UNCHANGED <<crc, pc, job, fds, seen, told, faulted>>
<1>0. PICK off \in Offsets, len \in 1..MaxLen, v \in Vals :
        Fits(off, len) /\ \E n \in 0..len : Took(d, off, len, v, n)
  BY DEF WriteAt, Took
<1>1. PICK n \in 0..len : Took(d, off, len, v, n)
  BY <1>0
<1>2. CASE n = 0
  <2>1. file' = file
    BY <1>0, <1>1, <1>2, StoredInFork DEF IndInv, TrailerUntouched, Took
  <2>2. mixed' = mixed /\ dirty' = dirty
    BY <1>1, <1>2 DEF Took, MarksDirty, IndInv, TypeOK
  <2> QED
    BY <2>1, <2>2 DEF WriteAt
<1>3. CASE n > 0
  BY <1>1, <1>3 DEF WriteAt, Took, MarksDirty
<1> QED
  BY <1>2, <1>3, DeviceAssumption

\* Every step keeps the bookkeeping of open files and written devices.
LEMMA StagesStep == IndInv /\ [Next]_vars => HandlesReturned' /\ Stages' /\ Lone'
<1> SUFFICES ASSUME IndInv, [Next]_vars PROVE HandlesReturned' /\ Stages' /\ Lone'
  OBVIOUS
<1> USE DEF HandlesReturned, Stages, Lone
<1>i. TypeOK /\ HandlesReturned /\ Stages /\ Lone
  BY DEF IndInv
<1>0. CASE UNCHANGED vars
  BY <1>0, <1>i DEF vars
<1>1. ASSUME NEW d \in Devs, Open(d) PROVE HandlesReturned' /\ Stages' /\ Lone'
  BY <1>1, <1>i DEF Open, Refuse, Goto, Answer, TypeOK
<1>2. ASSUME NEW d \in Devs, CheckTrailer(d) PROVE HandlesReturned' /\ Stages' /\ Lone'
  BY <1>2, <1>i DEF CheckTrailer, TrailerChecked, StatFails, TooShort, KolyUnread,
         BadMagic, ForkNotAtZero, LengthDisagrees, GiveUp, Goto, Answer, TypeOK
<1>3. ASSUME NEW d \in Devs, ReadAt(d) PROVE HandlesReturned' /\ Stages' /\ Lone'
  BY <1>3, <1>i DEF ReadAt, TypeOK
<1>4. ASSUME NEW d \in Devs, WriteAt(d) PROVE HandlesReturned' /\ Stages' /\ Lone'
  <2>1. CASE file' = file /\ dirty' = dirty /\ mixed' = mixed
    BY <1>4, <1>i, <2>1, WriteTook
  <2>2. CASE dirty' = dirty \cup {d} /\ (~mixed' => ~mixed /\ dirty \subseteq {d})
    BY <1>4, <1>i, <2>2, WriteTook
  <2> QED
    BY <1>4, <2>1, <2>2, WriteTook
<1>5. ASSUME NEW d \in Devs, StartClose(d) PROVE HandlesReturned' /\ Stages' /\ Lone'
  BY <1>5, <1>i DEF StartClose, Goto, Answer, TypeOK
<1>6. ASSUME NEW d \in Devs, SyncFile(d) PROVE HandlesReturned' /\ Stages' /\ Lone'
  BY <1>6, <1>i DEF SyncFile, CloseReturns, Goto, TypeOK
<1>7. ASSUME NEW d \in Devs, CloseFile(d) PROVE HandlesReturned' /\ Stages' /\ Lone'
  BY <1>7, <1>i DEF CloseFile, CloseReturns, Goto, TypeOK
<1>8. ASSUME NEW d \in Devs, RefreshRead(d) PROVE HandlesReturned' /\ Stages' /\ Lone'
  BY <1>8, <1>i DEF RefreshRead, Goto, TypeOK
<1>9. ASSUME NEW d \in Devs, RefreshWrite(d) PROVE HandlesReturned' /\ Stages' /\ Lone'
  BY <1>9, <1>i DEF RefreshWrite, CloseReturns, Goto, TypeOK
<1>10. ASSUME NEW d \in Devs, RefreshFails(d) PROVE HandlesReturned' /\ Stages' /\ Lone'
  BY <1>10, <1>i DEF RefreshFails, CloseReturns, Goto, TypeOK
<1>11. ASSUME NEW d \in Devs, Return(d) PROVE HandlesReturned' /\ Stages' /\ Lone'
  BY <1>11, <1>i DEF Return, Goto, TypeOK
<1>12. ASSUME NEW d \in Devs, Crash(d) PROVE HandlesReturned' /\ Stages' /\ Lone'
  BY <1>12, <1>i DEF Crash, Goto, Answer, TypeOK
<1> QED
  BY <1>0, <1>1, <1>2, <1>3, <1>4, <1>5, <1>6, <1>7, <1>8, <1>9, <1>10, <1>11, <1>12
  DEF Next

\* Every step keeps track of what the checksum covers.
Covered == SeenIsFork /\ DoneCovered /\ ChecksumCovered /\ NilCloseHeals
LEMMA CoveredStep == IndInv /\ [Next]_vars => Covered'
<1> SUFFICES ASSUME IndInv, [Next]_vars PROVE Covered'
  OBVIOUS
<1> USE DEF Covered, SeenIsFork, DoneCovered, ChecksumCovered, NilCloseHeals, Readable
<1>i. TypeOK /\ Stages /\ Lone /\ Covered
  BY DEF IndInv
<1>f. file' = file => fork' = fork
  BY DEF fork
<1>0. CASE UNCHANGED vars
  BY <1>0, <1>i, <1>f DEF vars
<1>1. ASSUME NEW d \in Devs, Open(d) PROVE Covered'
  BY <1>1, <1>i, <1>f DEF Open, Refuse, Goto, Answer, TypeOK, Stages, Lone
<1>2. ASSUME NEW d \in Devs, CheckTrailer(d) PROVE Covered'
  BY <1>2, <1>i, <1>f DEF CheckTrailer, TrailerChecked, StatFails, TooShort, KolyUnread,
         BadMagic, ForkNotAtZero, LengthDisagrees, GiveUp, Goto, Answer, TypeOK, Stages, Lone
<1>3. ASSUME NEW d \in Devs, ReadAt(d) PROVE Covered'
  BY <1>3, <1>i, <1>f DEF ReadAt, TypeOK, Stages, Lone
<1>4. ASSUME NEW d \in Devs, WriteAt(d) PROVE Covered'
  <2>1. CASE file' = file /\ dirty' = dirty /\ mixed' = mixed
    BY <1>4, <1>i, <1>f, <2>1, WriteTook
  <2>2. CASE dirty' = dirty \cup {d} /\ (~mixed' => ~mixed /\ dirty \subseteq {d})
    BY <1>4, <1>i, <2>2, WriteTook DEF Stages
  <2> QED
    BY <1>4, <2>1, <2>2, WriteTook
<1>5. ASSUME NEW d \in Devs, StartClose(d) PROVE Covered'
  BY <1>5, <1>i, <1>f DEF StartClose, Goto, Answer, TypeOK, Stages, Lone
<1>6. ASSUME NEW d \in Devs, SyncFile(d) PROVE Covered'
  BY <1>6, <1>i, <1>f DEF SyncFile, CloseReturns, Goto, TypeOK, Stages, Lone
<1>7. ASSUME NEW d \in Devs, CloseFile(d) PROVE Covered'
  BY ZenonT(60), <1>7, <1>i, <1>f DEF CloseFile, CloseReturns, Goto, TypeOK, Stages, Lone
<1>8. ASSUME NEW d \in Devs, RefreshRead(d) PROVE Covered'
  BY <1>8, <1>i, <1>f DEF RefreshRead, Goto, TypeOK, Stages, Lone
<1>9. ASSUME NEW d \in Devs, RefreshWrite(d) PROVE Covered'
  BY <1>9, <1>i, <1>f DEF RefreshWrite, CloseReturns, Goto, TypeOK, Stages, Lone
<1>10. ASSUME NEW d \in Devs, RefreshFails(d) PROVE Covered'
  BY <1>10, <1>i, <1>f DEF RefreshFails, CloseReturns, Goto, TypeOK, Stages, Lone
<1>11. ASSUME NEW d \in Devs, Return(d) PROVE Covered'
  BY <1>11, <1>i, <1>f DEF Return, Goto, TypeOK, Stages, Lone
<1>12. ASSUME NEW d \in Devs, Crash(d) PROVE Covered'
  <2>1. CASE d \in dirty
    <3>1. faulted' /\ fork' = fork
      BY <1>12, <1>f, <2>1 DEF Crash
    <3>2. mixed \/ \A e \in Devs : e # d => e \notin dirty
      BY <1>i, <2>1 DEF Lone
    <3> QED
      BY <1>12, <1>i, <3>1, <3>2, <2>1 DEF Crash, Goto, Answer, TypeOK, Stages
  <2>2. CASE d \notin dirty
    <3>1. dirty' = dirty /\ fork' = fork /\ faulted' = faulted
      BY <1>12, <1>i, <1>f, <2>2 DEF Crash, TypeOK
    <3> QED
      BY <1>12, <1>i, <3>1 DEF Crash, Goto, Answer, TypeOK
  <2> QED
    BY <2>1, <2>2
<1> QED
  BY <1>0, <1>1, <1>2, <1>3, <1>4, <1>5, <1>6, <1>7, <1>8, <1>9, <1>10, <1>11, <1>12
  DEF Next

------------------------------------------------------------------------------
(* The theorems *)

\* Whatever devices do with one image, in any interleaving, the invariant holds.
THEOREM IndInvariant == Spec => []IndInv
<1>1. IndInv /\ [Next]_vars => IndInv'
  BY TypeStep, StagesStep, CoveredStep DEF IndInv, Covered
<1> QED
  BY InitInd, <1>1, PTL DEF Spec

\* Every variable keeps its type.
THEOREM TypeCorrect == Spec => []TypeOK
<1>1. IndInv => TypeOK
  BY DEF IndInv
<1> QED
  BY IndInvariant, <1>1, PTL

\* WriteAt and ReadAt never cross the end of the data fork, overflow included.
THEOREM TrailerSafe == Spec => []TrailerUntouched
<1>1. IndInv => TrailerUntouched
  BY DEF IndInv
<1> QED
  BY IndInvariant, <1>1, PTL

\* A checksum that does not match is accounted for: by a written device that is
\* open, by a crash or a failed Close, or by two devices written to at once.
THEOREM ChecksumAccounted == Spec => []ChecksumCovered
<1>1. IndInv => ChecksumCovered
  BY DEF IndInv
<1> QED
  BY IndInvariant, <1>1, PTL

\* Close repairs the checksum whenever it tells its caller that all is well.
THEOREM CleanCloseHeals == Spec => []NilCloseHeals
<1>1. IndInv => NilCloseHeals
  BY DEF IndInv
<1> QED
  BY IndInvariant, <1>1, PTL

\* No way out of openDMGBlockDevice or Close leaves a file open.
THEOREM NoHandleLeaks == Spec => []HandlesReturned
<1>1. IndInv => HandlesReturned
  BY DEF IndInv
<1> QED
  BY IndInvariant, <1>1, PTL
==============================================================================
