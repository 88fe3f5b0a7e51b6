------------------------- MODULE FileSession_proofs -------------------------
(***************************************************************************)
(* For any number of callers, paths, temporary files and faults: the types *)
(* of FileSession are kept, temporary files are accounted for, sessions     *)
(* that do not overlap never lose each other's writes, the sessions          *)
(* implement SnapshotStore, and WriteFile fails only where it must.          *)
(***************************************************************************)
EXTENDS FileSession, TLAPS

------------------------------------------------------------------------------
(* Facts about the driver operators *)

\* A driver call yields a tree.
LEMMA EffectType ==
  ASSUME NEW fs \in Tree, NEW rq \in Requests
  PROVE  DriverEffect(fs, rq) \in Tree
<1>1. rq.path \in Paths /\ rq.to \in Paths /\ (rq.op = "WriteFile" => rq.data \in Data)
  BY DEF Requests
<1>2. fs[rq.path] \in Node
  BY <1>1 DEF Tree
<1>3. Absent \in Node /\ Dir \in Node /\ Data \subseteq Node
  BY DEF Node
<1> QED
  BY <1>1, <1>2, <1>3 DEF DriverEffect, Tree

\* A driver call leaves alone every path outside Touched.
LEMMA EffectOutside ==
  ASSUME NEW fs \in Tree, NEW rq \in Requests, NEW q \in Paths, q \notin Touched(rq)
  PROVE  DriverEffect(fs, rq)[q] = fs[q]
<1>1. rq.path \in Paths /\ rq.to \in Paths /\ rq.op \in OpNames
  BY DEF Requests
<1> QED
  BY <1>1 DEF DriverEffect, Touched, Tree, OpNames, ReadOps, WriteOps

\* WriteFile puts its data at its path.
LEMMA EffectOfWrite ==
  ASSUME NEW fs \in Tree, NEW rq \in Requests, rq.op = "WriteFile"
  PROVE  DriverEffect(fs, rq)[rq.path] = rq.data /\ Touched(rq) = {rq.path}
<1>1. rq.path \in Paths
  BY DEF Requests
<1> QED
  BY <1>1 DEF DriverEffect, Touched, Tree

\* The request of ensureParentDirs for component d.
MkDirReq(d) == [op |-> "MkDir", path |-> d, data |-> NoData, to |-> d]

\* MkDir of a missing component changes that path only.
LEMMA MkDirEffect ==
  ASSUME NEW fs \in Tree, NEW d \in Paths, DriverAccepts(fs, MkDirReq(d))
  PROVE  /\ MkDirReq(d) \in Requests
         /\ fs[d] = Absent
         /\ \A q \in Paths : q # d => DriverEffect(fs, MkDirReq(d))[q] = fs[q]
<1>1. MkDirReq(d) \in Requests
  BY DEF MkDirReq, Requests, OpNames, WriteOps
<1>2. fs[d] = Absent
  BY DEF DriverAccepts, MkDirReq
<1>3. \A q \in Paths : q # d => DriverEffect(fs, MkDirReq(d))[q] = fs[q]
  BY DEF DriverEffect, MkDirReq, Tree
<1> QED
  BY <1>1, <1>2, <1>3

------------------------------------------------------------------------------
(* The inductive invariant *)

\* Which stages hold a temporary file, which have something left to make, and
\* when the answer can already be nil.
Stages ==
  /\ image = Torn => IsUDIF
  /\ \A p \in Procs :
       /\ pc[p] \in {"probe", "pack", "remove"} => tmp[p] # NoTemp
       /\ pc[p] \in {"idle", "detect", "unpack", "done"} => tmp[p] = NoTemp
       /\ tmp[p] # NoTemp => IsUDIF
       /\ pc[p] \in InSession /\ IsUDIF => tmp[p] # NoTemp
       /\ pc[p] \in {"mkdir", "restat"} => todo[p] # <<>>
       /\ res[p] = "nil" => pc[p] \in {"close", "pack", "remove", "done"}

\* Who owns which temporary file.
Holdings ==
  /\ \A p \in Procs : tmp[p] # NoTemp => files[tmp[p]] \in Tree
  /\ \A p, o \in Procs : p # o /\ tmp[p] = tmp[o] => tmp[p] = NoTemp
  /\ \A t \in leaked : files[t] = Leftover
  /\ \A t \in Temps : files[t] # NoTree => t \in leaked \/ \E p \in Procs : tmp[p] = t

\* A copy that is not outdated holds every write callers rely on, except where
\* the session's own operation has replaced it, and it holds its own write.
CopyOK(p) ==
  pc[p] \in InSession /\ tmp[p] # NoTemp =>
    /\ p \notin stale =>
         \A q \in Paths : owed[q] # NoData =>
           \/ files[tmp[p]][q] = owed[q]
           \/ res[p] = "nil" /\ q \in Touched(req[p])
    /\ res[p] = "nil" /\ req[p].op = "WriteFile" =>
         files[tmp[p]][req[p].path] = req[p].data
Copies == \A p \in Procs : CopyOK(p)

IndInv == TypeOK /\ Stages /\ Holdings /\ Copies /\ OwedWritesSurvive

\* The invariant holds before the first operation.
LEMMA InitInd == Init => IndInv
<1> SUFFICES ASSUME Init PROVE IndInv
  OBVIOUS
<1>1. EmptyTree \in Tree
  BY DEF EmptyTree, Tree, Node
<1>2. TypeOK
  BY <1>1 DEF Init, TypeOK, PCs
<1>3. Stages
  BY <1>1, SessionAssumption DEF Init, Stages, InSession
<1>4. Holdings
  BY DEF Init, Holdings
<1>5. Copies
  BY DEF Init, Copies, CopyOK, InSession
<1>6. OwedWritesSurvive
  BY DEF Init, OwedWritesSurvive
<1> QED
  BY <1>2, <1>3, <1>4, <1>5, <1>6 DEF IndInv

\* The file a session's driver works on is a filesystem.
LEMMA WorkIsTree ==
  ASSUME IndInv, NEW p \in Procs, pc[p] \in InSession
  PROVE  Work(p) \in Tree
BY DEF IndInv, TypeOK, Stages, Holdings, Work

\* UnpackToTemp leaves a well-formed set of temporary files.
FilesOK == files \in [Temps -> Tree \cup {NoTree, Leftover}]
TmpOK == tmp \in [Procs -> Temps \cup {NoTemp}]

\* UnpackToTemp keeps the types of the temporary files.
LEMMA UnpackedType ==
  ASSUME IndInv, NEW p \in Procs, NEW t \in FreeTemps, Unpacked(p, t)
  PROVE  FilesOK' /\ TmpOK'
<1>1. image \in Tree /\ t \in Temps
  BY DEF IndInv, TypeOK, Unpacked, FreeTemps
<1> QED
  BY <1>1 DEF IndInv, TypeOK, Unpacked, FilesOK, TmpOK

\* Every step keeps the types.
LEMMA TypeStep == IndInv /\ [Next]_vars => TypeOK'
<1> SUFFICES ASSUME IndInv, [Next]_vars PROVE TypeOK'
  OBVIOUS
<1>0. CASE UNCHANGED vars
  BY <1>0 DEF vars, session, IndInv, TypeOK
<1>1. ASSUME NEW p \in Procs, Call(p) \/ Step(p) \/ Crash(p) PROVE TypeOK'
  <2>1. CASE Call(p)
    BY ZenonT(60), <2>1 DEF Call, IndInv, TypeOK, Goto, Answer, PCs
  <2>2. CASE DetectFilesystem(p)
    <3>1. FilesOK' /\ TmpOK'
      <4>1. CASE \E t \in FreeTemps : Unpacked(p, t)
        BY <4>1, UnpackedType
      <4>2. CASE UNCHANGED <<files, tmp>>
        BY <4>2 DEF IndInv, TypeOK, FilesOK, TmpOK
      <4> QED
        BY <2>2, <4>1, <4>2 DEF DetectFilesystem
    <3> QED
      BY <2>2, <3>1 DEF DetectFilesystem, FilesOK, TmpOK, IndInv, TypeOK, Goto, PCs
  <2>3. CASE DetectDone(p)
    BY ZenonT(60), <2>3 DEF RemoveCopy, DetectDone, Abandon, Stages, IndInv, TypeOK, Goto, Answer, PCs
  <2>4. CASE OpenImage(p)
    <3>1. FilesOK' /\ TmpOK'
      <4>1. CASE \E t \in FreeTemps : Unpacked(p, t)
        BY <4>1, UnpackedType
      <4>2. CASE UNCHANGED <<files, tmp>>
        BY <4>2 DEF IndInv, TypeOK, FilesOK, TmpOK
      <4> QED
        BY <2>4, <4>1, <4>2 DEF OpenImage
    <3>2. base' \in [Procs -> Tree \cup {NoTree}]
      BY <2>4 DEF OpenImage, Unpacked, IndInv, TypeOK
    <3>3. stale' \in SUBSET Procs
      BY <2>4 DEF OpenImage, IndInv, TypeOK
    <3>4. pc' = [pc EXCEPT ![p] = "open"] /\ pc[p] = "unpack"
      BY <2>4 DEF OpenImage, Goto
    <3>5. UNCHANGED <<medium, image, req, todo, res, owed, leaked>>
      BY <2>4 DEF OpenImage
    <3> QED
      BY <3>1, <3>2, <3>3, <3>4, <3>5 DEF FilesOK, TmpOK, IndInv, TypeOK, PCs
  <2>5. CASE OpenImageFails(p)
    BY <2>5 DEF OpenImageFails, IndInv, TypeOK, Goto, Answer, PCs
  <2>6. CASE OpenDriver(p)
    BY <2>6 DEF OpenDriver, IndInv, TypeOK, Goto, Answer, PCs
  <2>7. CASE OpenDriverFails(p)
    BY <2>7 DEF OpenDriverFails, Abandon, IndInv, TypeOK, Goto, Answer, PCs
  <2>8. CASE OpSucceeds(p)
    <3>1. Work(p) \in Tree /\ req[p] \in Requests
      BY <2>8, WorkIsTree DEF OpSucceeds, InSession, IndInv, TypeOK
    <3>2. DriverEffect(Work(p), req[p]) \in Tree
      BY <3>1, EffectType
    <3>3. owed' \in [Paths -> Data \cup {NoData}]
      BY <2>8, <3>1 DEF OpSucceeds, Settled, IndInv, TypeOK, Requests
    <3> QED
      BY <2>8, <3>2, <3>3 DEF OpSucceeds, SetWork, IndInv, TypeOK, Goto, Answer, PCs
  <2>9. CASE OpFails(p)
    <3>1. Ancestors[req[p].path] \in Seq(Paths)
      BY <2>9, TreeAssumption DEF OpFails, IndInv, TypeOK, Requests
    <3> QED
      BY <2>9, <3>1 DEF OpFails, IndInv, TypeOK, Goto, Answer, PCs
  <2>10. CASE EnsureParentDirs(p)
    <3>1. todo[p] \in Seq(Paths)
      BY DEF IndInv, TypeOK
    <3>2. todo[p] # <<>> => Tail(todo[p]) \in Seq(Paths)
      BY <3>1
    <3>3. todo' \in [Procs -> Seq(Paths)]
      BY <2>10, <3>2 DEF EnsureParentDirs, IndInv, TypeOK, Stages
    <3> QED
      BY <2>10, <3>3 DEF EnsureParentDirs, IndInv, TypeOK, Goto, PCs
  <2>11. CASE MkDirComponent(p)
    <3>1. Work(p) \in Tree /\ todo[p] # <<>> /\ todo[p] \in Seq(Paths)
      BY <2>11, WorkIsTree DEF MkDirComponent, InSession, IndInv, TypeOK, Stages
    <3>2. Head(todo[p]) \in Paths /\ Tail(todo[p]) \in Seq(Paths)
      BY <3>1
    <3>3. DriverAccepts(Work(p), MkDirReq(Head(todo[p]))) =>
            DriverEffect(Work(p), MkDirReq(Head(todo[p]))) \in Tree
      BY <3>1, <3>2, MkDirEffect, EffectType
    <3> QED
      BY ZenonT(60), <2>11, <3>2, <3>3 DEF MkDirComponent, MkDirReq, SetWork, IndInv, TypeOK, Goto, Answer, PCs
  <2>12. CASE RestatComponent(p)
    <3>1. todo[p] \in Seq(Paths)
      BY DEF IndInv, TypeOK
    <3>2. todo[p] # <<>> => Tail(todo[p]) \in Seq(Paths)
      BY <3>1
    <3>3. todo' \in [Procs -> Seq(Paths)]
      BY <2>12, <3>2 DEF RestatComponent, IndInv, TypeOK, Stages
    <3> QED
      BY <2>12, <3>3 DEF RestatComponent, IndInv, TypeOK, Goto, PCs
  <2>13. CASE CloseDriver(p)
    BY <2>13 DEF CloseDriver, IndInv, TypeOK, Goto, Answer, PCs
  <2>14. CASE Pack(p)
    <3>1. files[tmp[p]] \in Tree /\ req[p] \in Requests
      BY <2>14 DEF Pack, IndInv, TypeOK, Stages, Holdings
    <3>2. owed' \in [Paths -> Data \cup {NoData}]
      BY <2>14, <3>1 DEF Pack, Settled, IndInv, TypeOK, Requests
    <3> QED
      BY <2>14, <3>1, <3>2 DEF Pack, Outdate, IndInv, TypeOK, Goto, Answer, PCs
  <2>15. CASE PackFails(p)
    BY <2>15 DEF PackFails, MaybeTear, Outdate, Abandon, IndInv, TypeOK, Goto, Answer, PCs
  <2>16. CASE RemoveTemp(p)
    BY ZenonT(60), <2>16 DEF RemoveCopy, RemoveTemp, Abandon, Stages, IndInv, TypeOK, Goto, Answer, PCs
  <2>17. CASE Return(p)
    BY <2>17 DEF Return, IndInv, TypeOK, Goto, Answer, PCs
  <2>18. CASE Crash(p)
    BY <2>18 DEF Crash, MaybeTear, Outdate, Abandon, IndInv, TypeOK, Goto, Answer, PCs
  <2> QED
    BY <1>1, <2>1, <2>2, <2>3, <2>4, <2>5, <2>6, <2>7, <2>8, <2>9, <2>10, <2>11, <2>12, <2>13, <2>14, <2>15, <2>16, <2>17, <2>18 DEF Step
<1> QED
  BY <1>0, <1>1 DEF Next

\* What a successful driver call works on and leaves.
LEMMA OpResult ==
  ASSUME IndInv, NEW p \in Procs, OpSucceeds(p)
  PROVE  /\ Work(p) \in Tree
         /\ req[p] \in Requests
         /\ DriverEffect(Work(p), req[p]) \in Tree
<1>1. Work(p) \in Tree /\ req[p] \in Requests
  BY WorkIsTree DEF OpSucceeds, InSession, IndInv, TypeOK
<1> QED
  BY <1>1, EffectType

\* A MkDir of ensureParentDirs replaces nothing that exists.
LEMMA MkDirResult ==
  ASSUME IndInv, NEW p \in Procs, MkDirComponent(p)
  PROVE  \/ UNCHANGED <<image, files>>
         \/ \E fs \in Tree :
              /\ SetWork(p, fs)
              /\ \A q \in Paths : Work(p)[q] # Absent => fs[q] = Work(p)[q]
<1> DEFINE rq == MkDirReq(Head(todo[p]))
<1>1. Work(p) \in Tree /\ todo[p] # <<>> /\ todo[p] \in Seq(Paths)
  BY WorkIsTree DEF MkDirComponent, InSession, IndInv, TypeOK, Stages
<1>2. Head(todo[p]) \in Paths
  BY <1>1
<1>3. CASE DriverAccepts(Work(p), rq) /\ SetWork(p, DriverEffect(Work(p), rq))
  <2>1. /\ rq \in Requests
        /\ \A q \in Paths : Work(p)[q] # Absent => DriverEffect(Work(p), rq)[q] = Work(p)[q]
    BY <1>1, <1>2, <1>3, MkDirEffect
  <2>2. DriverEffect(Work(p), rq) \in Tree
    BY <1>1, <2>1, EffectType
  <2> QED
    BY <1>3, <2>1, <2>2
<1>4. CASE UNCHANGED <<image, files>>
  BY <1>4
<1> QED
  BY <1>3, <1>4 DEF MkDirComponent, MkDirReq

\* Changing the working file keeps the ownership of temporary files.
LEMMA SetWorkHoldings ==
  ASSUME IndInv, NEW p \in Procs, NEW fs \in Tree, SetWork(p, fs),
         UNCHANGED <<tmp, leaked>>
  PROVE  Holdings'
<1>1. CASE tmp[p] = NoTemp
  BY <1>1 DEF SetWork, IndInv, Holdings
<1>2. CASE tmp[p] # NoTemp
  <2>1. tmp[p] \in Temps /\ tmp[p] \notin leaked /\ files[tmp[p]] # NoTree
    BY <1>2, SessionAssumption DEF IndInv, TypeOK, Holdings
  <2>2. files' = [files EXCEPT ![tmp[p]] = fs]
    BY <1>2 DEF SetWork
  <2> QED
    BY <2>1, <2>2 DEF IndInv, TypeOK, Holdings
<1> QED
  BY <1>1, <1>2

\* UnpackToTemp hands out a file nobody owns.
LEMMA UnpackedHoldings ==
  ASSUME IndInv, NEW p \in Procs, NEW t \in FreeTemps, Unpacked(p, t),
         tmp[p] = NoTemp, UNCHANGED leaked
  PROVE  Holdings'
<1>1. image \in Tree /\ t \in Temps /\ files[t] = NoTree
  BY DEF IndInv, TypeOK, Unpacked, FreeTemps
<1>2. files' = [files EXCEPT ![t] = image] /\ tmp' = [tmp EXCEPT ![p] = t]
  BY DEF Unpacked
<1>3. t \notin leaked
  BY <1>1, SessionAssumption DEF IndInv, Holdings
<1>4. \A o \in Procs : tmp[o] # t
  BY <1>1, SessionAssumption DEF IndInv, Holdings
<1>5. t # NoTemp
  BY <1>1, SessionAssumption
<1>6. \A o \in Procs : tmp'[o] # NoTemp => files'[tmp'[o]] \in Tree
  BY <1>1, <1>2, <1>4 DEF IndInv, TypeOK, Holdings
<1>7. \A o, r \in Procs : o # r /\ tmp'[o] = tmp'[r] => tmp'[o] = NoTemp
  BY <1>2, <1>4 DEF IndInv, TypeOK, Holdings
<1>8. \A u \in leaked' : files'[u] = Leftover
  BY <1>1, <1>2, <1>3 DEF IndInv, TypeOK, Holdings
<1>9. \A u \in Temps : files'[u] # NoTree => u \in leaked' \/ \E o \in Procs : tmp'[o] = u
  <2> TAKE u \in Temps
  <2>1. CASE u = t
    BY <2>1, <1>2 DEF IndInv, TypeOK
  <2>2. CASE u # t
    BY <2>2, <1>2, SessionAssumption DEF IndInv, TypeOK, Holdings
  <2> QED
    BY <2>1, <2>2
<1> QED
  BY <1>6, <1>7, <1>8, <1>9 DEF Holdings

\* os.Remove of a session's file.
LEMMA RemovedHoldings ==
  ASSUME IndInv, NEW p \in Procs, tmp[p] # NoTemp, UNCHANGED leaked,
         files' = [files EXCEPT ![tmp[p]] = NoTree],
         tmp' = [tmp EXCEPT ![p] = NoTemp]
  PROVE  Holdings'
<1>1. tmp[p] \in Temps /\ tmp[p] \notin leaked
  BY SessionAssumption DEF IndInv, TypeOK, Holdings
<1>2. \A o \in Procs : tmp'[o] # NoTemp => o # p /\ tmp'[o] = tmp[o] /\ tmp[o] # tmp[p]
  BY DEF IndInv, TypeOK, Holdings
<1>3. \A o \in Procs : tmp'[o] # NoTemp => files'[tmp'[o]] \in Tree
  BY <1>1, <1>2 DEF IndInv, TypeOK, Holdings
<1>4. \A o, r \in Procs : o # r /\ tmp'[o] = tmp'[r] => tmp'[o] = NoTemp
  BY <1>2 DEF IndInv, TypeOK, Holdings
<1>5. \A u \in leaked' : files'[u] = Leftover
  BY <1>1 DEF IndInv, TypeOK, Holdings
<1>6. \A u \in Temps : files'[u] # NoTree => u \in leaked' \/ \E o \in Procs : tmp'[o] = u
  BY <1>1 DEF IndInv, TypeOK, Holdings
<1> QED
  BY <1>3, <1>4, <1>5, <1>6 DEF Holdings

\* A file that is abandoned is recorded as such.
LEMMA AbandonedHoldings ==
  ASSUME IndInv, NEW p \in Procs, Abandon(p)
  PROVE  Holdings'
<1>1. files \in [Temps -> Tree \cup {NoTree, Leftover}] /\ tmp \in [Procs -> Temps \cup {NoTemp}]
      /\ leaked \in SUBSET Temps
  BY DEF IndInv, TypeOK
<1>2. \A o \in Procs : tmp'[o] # NoTemp => o # p /\ tmp'[o] = tmp[o] /\ tmp[o] # tmp[p]
  BY <1>1 DEF Abandon, IndInv, Holdings
<1>3. \A o \in Procs : tmp'[o] # NoTemp => files'[tmp'[o]] \in Tree
  BY <1>1, <1>2 DEF Abandon, IndInv, Holdings
<1>4. \A o, r \in Procs : o # r /\ tmp'[o] = tmp'[r] => tmp'[o] = NoTemp
  BY <1>2 DEF IndInv, Holdings
<1>5. \A u \in leaked' : files'[u] = Leftover
  BY <1>1 DEF Abandon, IndInv, Holdings
<1>6. \A u \in Temps : files'[u] # NoTree => u \in leaked' \/ \E o \in Procs : tmp'[o] = u
  <2> SUFFICES ASSUME NEW u \in Temps, files'[u] # NoTree
               PROVE  u \in leaked' \/ \E o \in Procs : tmp'[o] = u
    OBVIOUS
  <2>1. CASE u = tmp[p]
    BY <2>1, SessionAssumption DEF Abandon
  <2>2. CASE u # tmp[p]
    BY <1>1, <2>2 DEF Abandon, IndInv, Holdings
  <2> QED
    BY <2>1, <2>2
<1> QED
  BY <1>3, <1>4, <1>5, <1>6 DEF Holdings

\* Every step keeps the relation between stages and temporary files.
LEMMA StagesStep == IndInv /\ [Next]_vars => Stages'
<1> SUFFICES ASSUME IndInv, [Next]_vars PROVE Stages'
  OBVIOUS
<1>0. CASE UNCHANGED vars
  BY <1>0 DEF vars, session, IndInv, Stages, IsUDIF
<1>1. ASSUME NEW p \in Procs, Call(p) \/ Step(p) \/ Crash(p) PROVE Stages'
  <2>1. CASE Call(p)
    BY <2>1 DEF Call, IndInv, TypeOK, Stages, IsUDIF, InSession, Goto, Answer
  <2>2. CASE DetectFilesystem(p)
    <3>1. CASE \E t \in FreeTemps : Unpacked(p, t) /\ Goto(p, "probe") /\ IsUDIF
      BY <2>2, <3>1, SessionAssumption
      DEF DetectFilesystem, Unpacked, FreeTemps, IndInv, TypeOK, Stages, IsUDIF, InSession, Goto
    <3>2. CASE UNCHANGED <<files, tmp>> /\ Goto(p, "unpack")
      BY <2>2, <3>2 DEF DetectFilesystem, IndInv, TypeOK, Stages, IsUDIF, InSession, Goto
    <3> QED
      BY <2>2, <3>1, <3>2 DEF DetectFilesystem
  <2>3. CASE DetectDone(p)
    <3>1. tmp' = [tmp EXCEPT ![p] = NoTemp]
      BY <2>3 DEF DetectDone, RemoveCopy, Abandon
    <3>2. (\E l \in {"unpack", "done"} : pc' = [pc EXCEPT ![p] = l])
      BY <2>3 DEF DetectDone, Goto
    <3> QED
      BY <2>3, <3>1, <3>2 DEF DetectDone, IndInv, TypeOK, Stages, IsUDIF, InSession
  <2>4. CASE OpenImage(p)
    BY <2>4, SessionAssumption DEF OpenImage, Unpacked, FreeTemps, IndInv, TypeOK, Stages, IsUDIF, InSession, Goto, Answer
  <2>5. CASE OpenImageFails(p)
    BY <2>5 DEF OpenImageFails, IndInv, TypeOK, Stages, IsUDIF, InSession, Goto, Answer
  <2>6. CASE OpenDriver(p)
    BY <2>6 DEF OpenDriver, IndInv, TypeOK, Stages, IsUDIF, InSession, Goto, Answer
  <2>7. CASE OpenDriverFails(p)
    BY <2>7 DEF OpenDriverFails, Abandon, IndInv, TypeOK, Stages, IsUDIF, InSession, Goto, Answer
  <2>8. CASE OpSucceeds(p)
    <3>1. image' = Torn => IsUDIF'
      BY <2>8, OpResult, SessionAssumption DEF OpSucceeds, SetWork, IndInv, Stages, IsUDIF
    <3> QED
      BY <2>8, <3>1 DEF OpSucceeds, IndInv, TypeOK, Stages, IsUDIF, InSession, Goto, Answer
  <2>9. CASE OpFails(p)
    BY <2>9 DEF OpFails, IndInv, TypeOK, Stages, IsUDIF, InSession, Goto, Answer
  <2>10. CASE EnsureParentDirs(p)
    BY <2>10 DEF EnsureParentDirs, IndInv, TypeOK, Stages, IsUDIF, InSession, Goto, Answer
  <2>11. CASE MkDirComponent(p)
    <3>1. image' = Torn => IsUDIF'
      BY <2>11, MkDirResult, SessionAssumption DEF MkDirComponent, SetWork, IndInv, Stages, IsUDIF
    <3> QED
      BY <2>11, <3>1 DEF MkDirComponent, IndInv, TypeOK, Stages, IsUDIF, InSession, Goto, Answer
  <2>12. CASE RestatComponent(p)
    BY <2>12 DEF RestatComponent, IndInv, TypeOK, Stages, IsUDIF, InSession, Goto, Answer
  <2>13. CASE CloseDriver(p)
    BY <2>13 DEF CloseDriver, IndInv, TypeOK, Stages, IsUDIF, InSession, Goto, Answer
  <2>14. CASE Pack(p)
    BY <2>14 DEF Pack, Outdate, IndInv, TypeOK, Stages, IsUDIF, InSession, Goto, Answer
  <2>15. CASE PackFails(p)
    BY <2>15 DEF PackFails, MaybeTear, Outdate, Abandon, IndInv, TypeOK, Stages, IsUDIF, InSession, Goto, Answer
  <2>16. CASE RemoveTemp(p)
    <3>1. tmp' = [tmp EXCEPT ![p] = NoTemp]
      BY <2>16 DEF RemoveTemp, RemoveCopy, Abandon
    <3>2. pc' = [pc EXCEPT ![p] = "done"]
      BY <2>16 DEF RemoveTemp, Goto
    <3> QED
      BY <2>16, <3>1, <3>2 DEF RemoveTemp, IndInv, TypeOK, Stages, IsUDIF, InSession
  <2>17. CASE Return(p)
    BY <2>17 DEF Return, IndInv, TypeOK, Stages, IsUDIF, InSession, Goto, Answer
  <2>18. CASE Crash(p)
    BY <2>18 DEF Crash, MaybeTear, Outdate, Abandon, IndInv, TypeOK, Stages, IsUDIF, InSession, Goto, Answer
  <2> QED
    BY <1>1, <2>1, <2>2, <2>3, <2>4, <2>5, <2>6, <2>7, <2>8, <2>9, <2>10, <2>11, <2>12, <2>13, <2>14, <2>15, <2>16, <2>17, <2>18 DEF Step
<1> QED
  BY <1>0, <1>1 DEF Next


\* Every step keeps the ownership of temporary files.
LEMMA HoldingsStep == IndInv /\ [Next]_vars => Holdings'
<1> SUFFICES ASSUME IndInv, [Next]_vars PROVE Holdings'
  OBVIOUS
<1>0. CASE UNCHANGED vars
  BY <1>0 DEF vars, session, IndInv, Holdings
<1>1. ASSUME NEW p \in Procs, Call(p) \/ Step(p) \/ Crash(p) PROVE Holdings'
  <2>1. CASE Call(p)
    BY <2>1 DEF Call, IndInv, Holdings
  <2>2. CASE DetectFilesystem(p)
    <3>1. tmp[p] = NoTemp /\ UNCHANGED leaked
      BY <2>2 DEF DetectFilesystem, IndInv, Stages
    <3>2. CASE \E t \in FreeTemps : Unpacked(p, t)
      BY <3>1, <3>2, UnpackedHoldings
    <3>3. CASE UNCHANGED <<files, tmp>>
      BY <3>1, <3>3 DEF IndInv, Holdings
    <3> QED
      BY <2>2, <3>2, <3>3 DEF DetectFilesystem
  <2>3. CASE DetectDone(p)
    BY <2>3, RemovedHoldings, AbandonedHoldings DEF RemoveCopy, DetectDone, IndInv, Stages
  <2>4. CASE OpenImage(p)
    <3>1. tmp[p] = NoTemp /\ UNCHANGED leaked
      BY <2>4 DEF OpenImage, IndInv, Stages
    <3>2. CASE \E t \in FreeTemps : Unpacked(p, t)
      BY <3>1, <3>2, UnpackedHoldings
    <3>3. CASE UNCHANGED <<files, tmp>>
      BY <3>1, <3>3 DEF IndInv, Holdings
    <3> QED
      BY <2>4, <3>2, <3>3 DEF OpenImage
  <2>5. CASE OpenImageFails(p)
    BY <2>5 DEF OpenImageFails, IndInv, Holdings
  <2>6. CASE OpenDriver(p)
    BY <2>6 DEF OpenDriver, IndInv, Holdings
  <2>7. CASE OpenDriverFails(p)
    BY <2>7, AbandonedHoldings DEF OpenDriverFails
  <2>8. CASE OpSucceeds(p)
    BY <2>8, OpResult, SetWorkHoldings DEF OpSucceeds
  <2>9. CASE OpFails(p)
    BY <2>9 DEF OpFails, IndInv, Holdings
  <2>10. CASE EnsureParentDirs(p)
    BY <2>10 DEF EnsureParentDirs, IndInv, Holdings
  <2>11. CASE MkDirComponent(p)
    <3>1. CASE UNCHANGED <<image, files>>
      BY <2>11, <3>1 DEF MkDirComponent, IndInv, Holdings
    <3>2. CASE \E fs \in Tree : SetWork(p, fs)
      BY <2>11, <3>2, SetWorkHoldings DEF MkDirComponent
    <3> QED
      BY <2>11, <3>1, <3>2, MkDirResult
  <2>12. CASE RestatComponent(p)
    BY <2>12 DEF RestatComponent, IndInv, Holdings
  <2>13. CASE CloseDriver(p)
    BY <2>13 DEF CloseDriver, IndInv, Holdings
  <2>14. CASE Pack(p)
    BY <2>14 DEF Pack, IndInv, Holdings
  <2>15. CASE PackFails(p)
    BY <2>15, AbandonedHoldings DEF PackFails
  <2>16. CASE RemoveTemp(p)
    BY <2>16, RemovedHoldings, AbandonedHoldings DEF RemoveCopy, RemoveTemp, IndInv, Stages
  <2>17. CASE Return(p)
    BY <2>17 DEF Return, IndInv, Holdings
  <2>18. CASE Crash(p)
    BY <2>18, AbandonedHoldings DEF Crash
  <2> QED
    BY <1>1, <2>1, <2>2, <2>3, <2>4, <2>5, <2>6, <2>7, <2>8, <2>9, <2>10, <2>11, <2>12, <2>13, <2>14, <2>15, <2>16, <2>17, <2>18 DEF Step
<1> QED
  BY <1>0, <1>1 DEF Next

\* A write callers rely on is data, and an untorn image on a raw medium.
LEMMA OwedFacts ==
  ASSUME IndInv, NEW q \in Paths, owed[q] # NoData
  PROVE  owed[q] \in Data /\ owed[q] # Absent /\ image \in Tree /\ image[q] = owed[q]
BY TreeAssumption DEF IndInv, TypeOK, OwedWritesSurvive

\* No step loses a write that callers rely on.
LEMMA OwedStep == IndInv /\ [Next]_vars => OwedWritesSurvive'
<1> SUFFICES ASSUME IndInv, [Next]_vars PROVE OwedWritesSurvive'
  OBVIOUS
<1>0. CASE UNCHANGED vars
  BY <1>0 DEF vars, session, IndInv, OwedWritesSurvive
<1>1. ASSUME NEW p \in Procs, Call(p) \/ Step(p) \/ Crash(p) PROVE OwedWritesSurvive'
  <2>1. CASE Call(p)
    BY <2>1 DEF Call, IndInv, OwedWritesSurvive
  <2>2. CASE DetectFilesystem(p)
    BY <2>2 DEF DetectFilesystem, IndInv, OwedWritesSurvive
  <2>3. CASE DetectDone(p)
    BY <2>3 DEF RemoveCopy, DetectDone, IndInv, OwedWritesSurvive
  <2>4. CASE OpenImage(p)
    BY <2>4 DEF OpenImage, IndInv, OwedWritesSurvive
  <2>5. CASE OpenImageFails(p)
    BY <2>5 DEF OpenImageFails, IndInv, OwedWritesSurvive
  <2>6. CASE OpenDriver(p)
    BY <2>6 DEF OpenDriver, IndInv, OwedWritesSurvive
  <2>7. CASE OpenDriverFails(p)
    BY <2>7 DEF OpenDriverFails, IndInv, OwedWritesSurvive
  <2>8. CASE OpSucceeds(p)
    <3>1. /\ Work(p) \in Tree
          /\ req[p] \in Requests
          /\ DriverEffect(Work(p), req[p]) \in Tree
      BY <2>8, OpResult
    <3>2. CASE tmp[p] # NoTemp
      BY <2>8, <3>2 DEF OpSucceeds, SetWork, IndInv, OwedWritesSurvive
    <3>3. CASE tmp[p] = NoTemp
      <4>1. image' = DriverEffect(image, req[p]) /\ owed' = Settled(req[p], "nil", FALSE)
            /\ image \in Tree
        BY <2>8, <3>1, <3>3 DEF OpSucceeds, SetWork, Work
      <4> SUFFICES ASSUME NEW q \in Paths, owed'[q] # NoData
                   PROVE  image' # Torn /\ image'[q] = owed'[q]
        BY DEF OwedWritesSurvive
      <4>2. image' # Torn
        BY <3>1, <3>3, <4>1, SessionAssumption DEF Work
      <4>3. CASE q \in Touched(req[p])
        <5>1. req[p].op = "WriteFile" /\ owed'[q] = req[p].data
          BY <4>1, <4>3 DEF Settled
        <5>2. q = req[p].path
          BY <3>1, <4>1, <4>3, <5>1, EffectOfWrite
        <5> QED
          BY <3>1, <4>1, <4>2, <5>1, <5>2, EffectOfWrite
      <4>4. CASE q \notin Touched(req[p])
        <5>1. owed'[q] = owed[q]
          BY <4>1, <4>4 DEF Settled
        <5> QED
          BY <3>1, <4>1, <4>2, <4>4, <5>1, EffectOutside, OwedFacts
      <4> QED
        BY <4>3, <4>4
    <3> QED
      BY <3>2, <3>3
  <2>9. CASE OpFails(p)
    BY <2>9 DEF OpFails, IndInv, OwedWritesSurvive
  <2>10. CASE EnsureParentDirs(p)
    BY <2>10 DEF EnsureParentDirs, IndInv, OwedWritesSurvive
  <2>11. CASE MkDirComponent(p)
    <3>1. owed' = owed
      BY <2>11 DEF MkDirComponent
    <3>2. CASE UNCHANGED <<image, files>>
      BY <3>1, <3>2 DEF IndInv, OwedWritesSurvive
    <3>3. ASSUME NEW fs \in Tree, SetWork(p, fs),
                 \A q \in Paths : Work(p)[q] # Absent => fs[q] = Work(p)[q]
          PROVE  OwedWritesSurvive'
      <4>1. CASE tmp[p] # NoTemp
        BY <3>1, <3>3, <4>1 DEF SetWork, IndInv, OwedWritesSurvive
      <4>2. CASE tmp[p] = NoTemp
        BY <3>1, <3>3, <4>2, OwedFacts, SessionAssumption DEF SetWork, Work, OwedWritesSurvive
      <4> QED
        BY <4>1, <4>2
    <3> QED
      BY <2>11, <3>2, <3>3, MkDirResult
  <2>12. CASE RestatComponent(p)
    BY <2>12 DEF RestatComponent, IndInv, OwedWritesSurvive
  <2>13. CASE CloseDriver(p)
    BY <2>13 DEF CloseDriver, IndInv, OwedWritesSurvive
  <2>14. CASE Pack(p)
    <3>1. /\ image' = files[tmp[p]]
          /\ owed' = Settled(req[p], res[p], p \in stale)
          /\ files[tmp[p]] \in Tree
          /\ req[p] \in Requests
          /\ CopyOK(p)
          /\ pc[p] \in InSession /\ tmp[p] # NoTemp
      BY <2>14 DEF Pack, IndInv, TypeOK, Stages, Holdings, Copies, InSession
    <3> SUFFICES ASSUME NEW q \in Paths, owed'[q] # NoData
                 PROVE  image' # Torn /\ image'[q] = owed'[q]
      BY DEF OwedWritesSurvive
    <3>2. image' # Torn
      BY <3>1, SessionAssumption
    <3>3. CASE res[p] = "nil" /\ q \in Touched(req[p])
      <4>1. req[p].op = "WriteFile" /\ owed'[q] = req[p].data
        BY <3>1, <3>3 DEF Settled
      <4>2. q = req[p].path
        BY <3>1, <3>3, <4>1, EffectOfWrite
      <4> QED
        BY <3>1, <3>2, <3>3, <4>1, <4>2 DEF CopyOK
    <3>4. CASE ~(res[p] = "nil" /\ q \in Touched(req[p]))
      <4>1. p \notin stale /\ owed'[q] = owed[q]
        BY <3>1, <3>4 DEF Settled
      <4> QED
        BY <3>1, <3>2, <3>4, <4>1 DEF CopyOK
    <3> QED
      BY <3>3, <3>4
  <2>15. CASE PackFails(p)
    <3>1. CASE UNCHANGED <<image, owed>>
      BY <3>1 DEF IndInv, OwedWritesSurvive
    <3>2. CASE owed' = [q \in Paths |-> NoData]
      BY <3>2 DEF OwedWritesSurvive
    <3> QED
      BY <2>15, <3>1, <3>2 DEF PackFails, MaybeTear
  <2>16. CASE RemoveTemp(p)
    BY <2>16 DEF RemoveCopy, RemoveTemp, IndInv, OwedWritesSurvive
  <2>17. CASE Return(p)
    BY <2>17 DEF Return, IndInv, OwedWritesSurvive
  <2>18. CASE Crash(p)
    <3>1. CASE UNCHANGED <<image, owed>>
      BY <3>1 DEF IndInv, OwedWritesSurvive
    <3>2. CASE owed' = [q \in Paths |-> NoData]
      BY <3>2 DEF OwedWritesSurvive
    <3> QED
      BY <2>18, <3>1, <3>2 DEF Crash, MaybeTear
  <2> QED
    BY <1>1, <2>1, <2>2, <2>3, <2>4, <2>5, <2>6, <2>7, <2>8, <2>9, <2>10, <2>11, <2>12, <2>13, <2>14, <2>15, <2>16, <2>17, <2>18 DEF Step
<1> QED
  BY <1>0, <1>1 DEF Next

\* The copy of a caller the step does not concern stays as good as it was.
LEMMA CopyKept ==
  ASSUME IndInv, NEW p \in Procs, NEW o \in Procs, o # p,
         pc'[o] = pc[o], tmp'[o] = tmp[o], req'[o] = req[o], res'[o] = res[o],
         o \in stale => o \in stale',
         tmp[o] # NoTemp /\ tmp[o] # tmp[p] => files'[tmp[o]] = files[tmp[o]],
         pc[o] \in InSession /\ tmp[o] # NoTemp => owed' = owed \/ o \in stale'
  PROVE  CopyOK(o)'
<1>1. CASE pc[o] \in InSession /\ tmp[o] # NoTemp
  <2>1. tmp[o] # tmp[p] /\ CopyOK(o)
    BY <1>1 DEF IndInv, Holdings, Copies
  <2> QED
    BY <1>1, <2>1 DEF CopyOK
<1>2. CASE ~(pc[o] \in InSession /\ tmp[o] # NoTemp)
  BY <1>2 DEF CopyOK
<1> QED
  BY <1>1, <1>2

\* Every step keeps the unpacked copies up to date or marks them outdated.
LEMMA CopiesStep == IndInv /\ [Next]_vars => Copies'
<1> SUFFICES ASSUME IndInv, [Next]_vars PROVE Copies'
  OBVIOUS
<1>0. CASE UNCHANGED vars
  BY <1>0 DEF vars, session, IndInv, Copies, CopyOK
<1>1. ASSUME NEW p \in Procs, Call(p) \/ Step(p) \/ Crash(p) PROVE Copies'
  <2>1. CASE Call(p)
    <3>1. CopyOK(p)'
      BY <2>1 DEF Call, CopyOK, Copies, InSession, IndInv, TypeOK, Goto, Answer
    <3>2. ASSUME NEW o \in Procs, o # p PROVE CopyOK(o)'
      BY <2>1, <3>2, CopyKept DEF Call, IndInv, TypeOK, Goto, Answer
    <3> QED
      BY <3>1, <3>2 DEF Copies
  <2>2. CASE DetectFilesystem(p)
    <3>1. CopyOK(p)'
      BY <2>2 DEF DetectFilesystem, CopyOK, InSession, IndInv, TypeOK, Goto, Answer
    <3>2. ASSUME NEW o \in Procs, o # p PROVE CopyOK(o)'
      BY <2>2, <3>2, CopyKept, SessionAssumption DEF DetectFilesystem, Unpacked, FreeTemps, Holdings, IndInv, TypeOK, Goto, Answer
    <3> QED
      BY <3>1, <3>2 DEF Copies
  <2>3. CASE DetectDone(p)
    <3>1. CopyOK(p)'
      BY <2>3 DEF RemoveCopy, DetectDone, Abandon, CopyOK, InSession, IndInv, TypeOK, Goto, Answer
    <3>2. ASSUME NEW o \in Procs, o # p PROVE CopyOK(o)'
      BY <2>3, <3>2, CopyKept DEF RemoveCopy, DetectDone, Abandon, Stages, IndInv, TypeOK, Goto, Answer
    <3> QED
      BY <3>1, <3>2 DEF Copies
  <2>4. CASE OpenImage(p)
    <3>1. CopyOK(p)'
      <4>1. CASE \E t \in FreeTemps : Unpacked(p, t)
        <5>1. PICK t \in FreeTemps : Unpacked(p, t)
          BY <4>1
        <5>2. tmp'[p] = t /\ files'[t] = image /\ owed' = owed /\ res'[p] = "err"
          BY <2>4, <5>1 DEF OpenImage, Unpacked, FreeTemps, Stages, IndInv, TypeOK
        <5> QED
          BY <5>2, OwedFacts DEF CopyOK
      <4>2. CASE UNCHANGED <<files, tmp>> /\ ~IsUDIF
        BY <2>4, <4>2 DEF OpenImage, Stages, IndInv, CopyOK
      <4> QED
        BY <2>4, <4>1, <4>2 DEF OpenImage
    <3>2. ASSUME NEW o \in Procs, o # p PROVE CopyOK(o)'
      <4>1. tmp[o] # NoTemp => files'[tmp[o]] = files[tmp[o]]
        BY <2>4, SessionAssumption DEF OpenImage, Unpacked, FreeTemps, Holdings, IndInv, TypeOK
      <4>2. pc'[o] = pc[o] /\ tmp'[o] = tmp[o]
        BY <2>4, <3>2 DEF OpenImage, Unpacked, Goto, IndInv, TypeOK
      <4>3. UNCHANGED <<req, res, owed>> /\ (o \in stale => o \in stale')
        BY <2>4, <3>2 DEF OpenImage
      <4> QED
        BY <3>2, <4>1, <4>2, <4>3, CopyKept
    <3> QED
      BY <3>1, <3>2 DEF Copies
  <2>5. CASE OpenImageFails(p)
    <3>1. CopyOK(p)'
      BY <2>5 DEF OpenImageFails, CopyOK, Copies, InSession, IndInv, TypeOK, Goto, Answer
    <3>2. ASSUME NEW o \in Procs, o # p PROVE CopyOK(o)'
      BY <2>5, <3>2, CopyKept DEF OpenImageFails, IndInv, TypeOK, Goto, Answer
    <3> QED
      BY <3>1, <3>2 DEF Copies
  <2>6. CASE OpenDriver(p)
    <3>1. CopyOK(p)'
      BY <2>6 DEF OpenDriver, CopyOK, Copies, InSession, IndInv, TypeOK, Goto, Answer
    <3>2. ASSUME NEW o \in Procs, o # p PROVE CopyOK(o)'
      BY <2>6, <3>2, CopyKept DEF OpenDriver, IndInv, TypeOK, Goto, Answer
    <3> QED
      BY <3>1, <3>2 DEF Copies
  <2>7. CASE OpenDriverFails(p)
    <3>1. CopyOK(p)'
      BY <2>7 DEF OpenDriverFails, Abandon, CopyOK, InSession, IndInv, TypeOK, Goto, Answer
    <3>2. ASSUME NEW o \in Procs, o # p PROVE CopyOK(o)'
      BY <2>7, <3>2, CopyKept DEF OpenDriverFails, Abandon, IndInv, TypeOK, Goto, Answer
    <3> QED
      BY <3>1, <3>2 DEF Copies
  <2>8. CASE OpSucceeds(p)
    <3>1. /\ Work(p) \in Tree
          /\ req[p] \in Requests
          /\ DriverEffect(Work(p), req[p]) \in Tree
      BY <2>8, OpResult
    <3>2. CASE tmp[p] = NoTemp
      <4>1. \A o \in Procs : tmp'[o] = NoTemp
        BY <2>8, <3>2 DEF OpSucceeds, InSession, IndInv, Stages
      <4> QED
        BY <4>1 DEF Copies, CopyOK
    <3>3. CASE tmp[p] # NoTemp
      <4>1. /\ files' = [files EXCEPT ![tmp[p]] = DriverEffect(files[tmp[p]], req[p])]
            /\ UNCHANGED <<owed, tmp, req, stale>>
            /\ tmp[p] \in Temps /\ files[tmp[p]] \in Tree
            /\ res[p] = "err" /\ CopyOK(p) /\ pc[p] \in InSession
        BY <2>8, <3>1, <3>3 DEF OpSucceeds, SetWork, Work, InSession, Copies, Stages, IndInv, TypeOK
      <4>2. files'[tmp[p]] = DriverEffect(files[tmp[p]], req[p])
        BY <4>1 DEF IndInv, TypeOK
      <4>3. \A q \in Paths : q \notin Touched(req[p]) => files'[tmp[p]][q] = files[tmp[p]][q]
        BY <3>1, <4>1, <4>2, EffectOutside
      <4>4. req[p].op = "WriteFile" => files'[tmp[p]][req[p].path] = req[p].data
        BY <3>1, <4>1, <4>2, EffectOfWrite
      <4>5. res'[p] = "nil"
        BY <2>8 DEF OpSucceeds, Answer, IndInv, TypeOK
      <4>6. CopyOK(p)'
        BY <3>3, <4>1, <4>3, <4>4, <4>5 DEF CopyOK
      <4>7. ASSUME NEW o \in Procs, o # p PROVE CopyOK(o)'
        BY <2>8, <4>1, <4>7, CopyKept DEF OpSucceeds, IndInv, TypeOK, Goto, Answer
      <4> QED
        BY <4>6, <4>7 DEF Copies
    <3> QED
      BY <3>2, <3>3
  <2>9. CASE OpFails(p)
    <3>1. CopyOK(p)'
      BY <2>9 DEF OpFails, CopyOK, Copies, InSession, IndInv, TypeOK, Goto, Answer
    <3>2. ASSUME NEW o \in Procs, o # p PROVE CopyOK(o)'
      BY <2>9, <3>2, CopyKept DEF OpFails, IndInv, TypeOK, Goto, Answer
    <3> QED
      BY <3>1, <3>2 DEF Copies
  <2>10. CASE EnsureParentDirs(p)
    <3>1. CopyOK(p)'
      BY <2>10 DEF EnsureParentDirs, CopyOK, Copies, InSession, IndInv, TypeOK, Goto, Answer
    <3>2. ASSUME NEW o \in Procs, o # p PROVE CopyOK(o)'
      BY <2>10, <3>2, CopyKept DEF EnsureParentDirs, IndInv, TypeOK, Goto, Answer
    <3> QED
      BY <3>1, <3>2 DEF Copies
  <2>11. CASE MkDirComponent(p)
    <3>1. /\ UNCHANGED <<owed, tmp, req, stale, res>>
          /\ pc[p] \in InSession /\ res[p] = "err" /\ CopyOK(p)
          /\ \A o \in Procs \ {p} : pc'[o] = pc[o]
      BY <2>11 DEF MkDirComponent, Goto, InSession, Copies, Stages, IndInv, TypeOK
    <3>2. CASE UNCHANGED <<image, files>>
      <4>1. CopyOK(p)'
        BY <3>1, <3>2 DEF CopyOK
      <4>2. ASSUME NEW o \in Procs, o # p PROVE CopyOK(o)'
        BY <3>1, <3>2, <4>2, CopyKept
      <4> QED
        BY <4>1, <4>2 DEF Copies
    <3>3. ASSUME NEW fs \in Tree, SetWork(p, fs),
                 \A q \in Paths : Work(p)[q] # Absent => fs[q] = Work(p)[q]
          PROVE  Copies'
      <4>1. CASE tmp[p] = NoTemp
        <5>1. \A o \in Procs : tmp'[o] = NoTemp
          BY <3>1, <4>1 DEF IndInv, Stages
        <5> QED
          BY <5>1 DEF Copies, CopyOK
      <4>2. CASE tmp[p] # NoTemp
        <5>1. files' = [files EXCEPT ![tmp[p]] = fs] /\ tmp[p] \in Temps /\ files'[tmp[p]] = fs
          BY <3>3, <4>2 DEF SetWork, IndInv, TypeOK
        <5>2. \A q \in Paths : owed[q] # NoData /\ files[tmp[p]][q] = owed[q] => fs[q] = owed[q]
          BY <3>3, <4>2, OwedFacts DEF Work
        <5>3. CopyOK(p)'
          BY <3>1, <4>2, <5>1, <5>2 DEF CopyOK
        <5>4. ASSUME NEW o \in Procs, o # p PROVE CopyOK(o)'
          BY <3>1, <5>1, <5>4, CopyKept DEF IndInv, TypeOK
        <5> QED
          BY <5>3, <5>4 DEF Copies
      <4> QED
        BY <4>1, <4>2
    <3> QED
      BY <2>11, <3>2, <3>3, MkDirResult
  <2>12. CASE RestatComponent(p)
    <3>1. CopyOK(p)'
      BY <2>12 DEF RestatComponent, CopyOK, Copies, InSession, IndInv, TypeOK, Goto, Answer
    <3>2. ASSUME NEW o \in Procs, o # p PROVE CopyOK(o)'
      BY <2>12, <3>2, CopyKept DEF RestatComponent, IndInv, TypeOK, Goto, Answer
    <3> QED
      BY <3>1, <3>2 DEF Copies
  <2>13. CASE CloseDriver(p)
    <3>1. CopyOK(p)'
      BY <2>13 DEF CloseDriver, CopyOK, Copies, InSession, IndInv, TypeOK, Goto, Answer
    <3>2. ASSUME NEW o \in Procs, o # p PROVE CopyOK(o)'
      BY <2>13, <3>2, CopyKept DEF CloseDriver, IndInv, TypeOK, Goto, Answer
    <3> QED
      BY <3>1, <3>2 DEF Copies
  <2>14. CASE Pack(p)
    <3>1. CopyOK(p)'
      BY <2>14 DEF Pack, CopyOK, InSession, IndInv, TypeOK, Goto, Answer
    <3>2. ASSUME NEW o \in Procs, o # p PROVE CopyOK(o)'
      BY <2>14, <3>2, CopyKept DEF Pack, Outdate, IndInv, TypeOK, Goto, Answer
    <3> QED
      BY <3>1, <3>2 DEF Copies
  <2>15. CASE PackFails(p)
    <3>1. CopyOK(p)'
      BY <2>15 DEF PackFails, Abandon, CopyOK, InSession, IndInv, TypeOK, Goto, Answer
    <3>2. ASSUME NEW o \in Procs, o # p PROVE CopyOK(o)'
      BY <2>15, <3>2, CopyKept DEF PackFails, MaybeTear, Outdate, Abandon, IndInv, TypeOK, Goto, Answer
    <3> QED
      BY <3>1, <3>2 DEF Copies
  <2>16. CASE RemoveTemp(p)
    <3>1. CopyOK(p)'
      BY <2>16 DEF RemoveCopy, RemoveTemp, Abandon, CopyOK, InSession, IndInv, TypeOK, Goto, Answer
    <3>2. ASSUME NEW o \in Procs, o # p PROVE CopyOK(o)'
      BY <2>16, <3>2, CopyKept DEF RemoveCopy, RemoveTemp, Abandon, IndInv, TypeOK, Goto, Answer
    <3> QED
      BY <3>1, <3>2 DEF Copies
  <2>17. CASE Return(p)
    <3>1. CopyOK(p)'
      BY <2>17 DEF Return, CopyOK, InSession, IndInv, TypeOK, Goto, Answer
    <3>2. ASSUME NEW o \in Procs, o # p PROVE CopyOK(o)'
      BY <2>17, <3>2, CopyKept DEF Return, IndInv, TypeOK, Goto, Answer
    <3> QED
      BY <3>1, <3>2 DEF Copies
  <2>18. CASE Crash(p)
    <3>1. CopyOK(p)'
      BY <2>18 DEF Crash, Abandon, CopyOK, InSession, IndInv, TypeOK, Goto, Answer
    <3>2. ASSUME NEW o \in Procs, o # p PROVE CopyOK(o)'
      BY <2>18, <3>2, CopyKept DEF Crash, MaybeTear, Outdate, Abandon, IndInv, TypeOK, Goto, Answer
    <3> QED
      BY <3>1, <3>2 DEF Copies
  <2> QED
    BY <1>1, <2>1, <2>2, <2>3, <2>4, <2>5, <2>6, <2>7, <2>8, <2>9, <2>10, <2>11, <2>12, <2>13, <2>14, <2>15, <2>16, <2>17, <2>18 DEF Step
<1> QED
  BY <1>0, <1>1 DEF Next


------------------------------------------------------------------------------
(* The theorems *)

\* Every step of openFS, the operations, ensureParentDirs and dmgwrapper.Close
\* keeps the inductive invariant, however callers interleave, fail or die.
THEOREM IndInvariant == Spec => []IndInv
<1>1. IndInv /\ [Next]_vars => IndInv'
  BY TypeStep, StagesStep, HoldingsStep, OwedStep, CopiesStep DEF IndInv
<1> QED
  BY <1>1, InitInd, PTL DEF Spec

\* The types of FileSession are kept.
THEOREM TypeCorrect == Spec => []TypeOK
<1>1. IndInv => TypeOK
  BY DEF IndInv
<1> QED
  BY <1>1, IndInvariant, PTL

\* Sessions that do not overlap never lose each other's writes, whatever fails:
\* openFS, ensureParentDirs and dmgwrapper.Close for any number of callers.
THEOREM WritesSurvive == Spec => []OwedWritesSurvive
<1>1. IndInv => OwedWritesSurvive
  BY DEF IndInv
<1> QED
  BY <1>1, IndInvariant, PTL

\* Every temporary file of openFS and detectFilesystemInUDIF is accounted for.
THEOREM NoUnknownTemps == Spec => []TempsAccounted
<1>1. IndInv => TempsAccounted
  <2> SUFFICES ASSUME IndInv PROVE TempsAccounted
    OBVIOUS
  <2>1. \A p, o \in Procs : p # o /\ tmp[p] = tmp[o] => tmp[p] = NoTemp
    BY DEF IndInv, Holdings
  <2>2. \A t \in leaked : t \in Temps /\ files[t] # NoTree
    BY SessionAssumption DEF IndInv, TypeOK, Holdings
  <2>3. \A p \in Procs : tmp[p] # NoTemp => tmp[p] \in Temps /\ files[tmp[p]] # NoTree
    BY SessionAssumption DEF IndInv, TypeOK, Holdings
  <2>4. {t \in Temps : files[t] # NoTree} = leaked \cup ({tmp[p] : p \in Procs} \ {NoTemp})
    <3>1. ASSUME NEW t \in Temps, files[t] # NoTree
          PROVE  t \in leaked \cup ({tmp[p] : p \in Procs} \ {NoTemp})
      BY <3>1, SessionAssumption DEF IndInv, Holdings
    <3> QED
      BY <2>2, <2>3, <3>1
  <2>5. \A p \in Procs : tmp[p] \notin leaked
    BY SessionAssumption DEF IndInv, TypeOK, Holdings
  <2>6. \A p \in Procs : pc[p] = "done" => tmp[p] = NoTemp
    BY DEF IndInv, Stages
  <2> QED
    BY <2>1, <2>4, <2>5, <2>6 DEF TempsAccounted
<1> QED
  BY <1>1, IndInvariant, PTL

------------------------------------------------------------------------------
(* The snapshot store, first: its operators and the parents made so far *)

\* The snapshot store has its own instance of FsTree: the drivers are the same.
LEMMA SameAccepts ==
  ASSUME NEW fs, NEW rq
  PROVE  Snapshots!DriverAccepts(fs, rq) <=> DriverAccepts(fs, rq)
BY DEF Snapshots!DriverAccepts, DriverAccepts, Snapshots!HasParent, HasParent,
       Snapshots!IsEmpty, IsEmpty, Snapshots!Below, Below

\* A driver call does the same to the tree in the snapshot store.
LEMMA SameEffect ==
  ASSUME NEW fs, NEW rq
  PROVE  Snapshots!DriverEffect(fs, rq) = DriverEffect(fs, rq)
BY DEF Snapshots!DriverEffect, DriverEffect, Snapshots!Below, Below

\* The trees and the requests are the same in the snapshot store.
LEMMA SameTypes == Snapshots!Tree = Tree /\ Snapshots!Requests = Requests
BY DEF Snapshots!Tree, Tree, Snapshots!Node, Node, Snapshots!Requests, Requests,
       Snapshots!OpNames, OpNames, Snapshots!ReadOps, ReadOps, Snapshots!WriteOps, WriteOps

\* fs with the first n ancestors of the request's path, and how many those are.
Parents(fs, rq, n) == Snapshots!WithParents(fs, rq, n)
Depth(rq) == Len(Ancestors[rq.path])

\* The components ensureParentDirs visits are paths.
LEMMA DepthType ==
  ASSUME NEW rq \in Requests
  PROVE  /\ Depth(rq) \in Nat
         /\ \A i \in 1..Depth(rq) : Ancestors[rq.path][i] \in Paths
<1>1. Ancestors[rq.path] \in Seq(Paths)
  BY TreeAssumption DEF Requests
<1> QED
  BY <1>1 DEF Depth

\* With no component visited the tree is as it was.
LEMMA NoParents ==
  ASSUME NEW fs \in Tree, NEW rq
  PROVE  Parents(fs, rq, 0) = fs
BY DEF Parents, Snapshots!WithParents, Tree

\* One round of the loop of ensureParentDirs: an existing component changes
\* nothing, a missing one is made by MkDir.
LEMMA NextParent ==
  ASSUME NEW fs \in Tree, NEW rq \in Requests, NEW n \in Nat, n < Depth(rq)
  PROVE  LET d == Ancestors[rq.path][n + 1]
         IN  /\ Parents(fs, rq, n)[d] # Absent => Parents(fs, rq, n + 1) = Parents(fs, rq, n)
             /\ Parents(fs, rq, n)[d] = Absent =>
                  Parents(fs, rq, n + 1) = DriverEffect(Parents(fs, rq, n), MkDirReq(d))
<1> DEFINE d == Ancestors[rq.path][n + 1]
           a == Ancestors[rq.path]
<1>0. d \in Paths
  BY DepthType
<1>1. ASSUME NEW q \in Paths, q # d
      PROVE  (\E i \in 1..(n + 1) : a[i] = q) <=> (\E i \in 1..n : a[i] = q)
  BY <1>1
<1>2. \E i \in 1..(n + 1) : a[i] = d
  OBVIOUS
<1>3. ASSUME NEW q \in Paths, q # d
      PROVE  Parents(fs, rq, n + 1)[q] = Parents(fs, rq, n)[q]
  BY <1>1, <1>3 DEF Parents, Snapshots!WithParents
<1>4. Parents(fs, rq, n + 1)[d] = IF fs[d] = Absent THEN Dir ELSE fs[d]
  BY <1>0, <1>2 DEF Parents, Snapshots!WithParents
<1>5. Parents(fs, rq, n)[d] = IF fs[d] = Absent /\ \E i \in 1..n : a[i] = d THEN Dir ELSE fs[d]
  BY <1>0 DEF Parents, Snapshots!WithParents
<1>6. /\ Parents(fs, rq, n) = [q \in Paths |-> Parents(fs, rq, n)[q]]
      /\ Parents(fs, rq, n + 1) = [q \in Paths |-> Parents(fs, rq, n + 1)[q]]
  BY DEF Parents, Snapshots!WithParents
<1>7. Parents(fs, rq, n)[d] # Absent => Parents(fs, rq, n + 1)[d] = Parents(fs, rq, n)[d]
  BY <1>4, <1>5
<1>8. Parents(fs, rq, n)[d] = Absent => Parents(fs, rq, n + 1)[d] = Dir
  BY <1>4, <1>5, TreeAssumption
<1>9. Parents(fs, rq, n)[d] # Absent => Parents(fs, rq, n + 1) = Parents(fs, rq, n)
  BY <1>3, <1>6, <1>7, <1>0
<1>10. Parents(fs, rq, n)[d] = Absent =>
         Parents(fs, rq, n + 1) = [Parents(fs, rq, n) EXCEPT ![d] = Dir]
  BY <1>3, <1>6, <1>8, <1>0
<1>11. DriverEffect(Parents(fs, rq, n), MkDirReq(d)) = [Parents(fs, rq, n) EXCEPT ![d] = Dir]
  BY DEF DriverEffect, MkDirReq
<1> QED
  BY <1>9, <1>10, <1>11

\* What ensureParentDirs got to, with or without the driver call after it, is an
\* outcome the snapshot store allows.
LEMMA PartOutcome ==
  ASSUME NEW fs \in Tree, NEW rq \in Requests, NEW n \in 0..Depth(rq),
         n = 0 \/ rq.op = "WriteFile"
  PROVE  /\ Snapshots!Outcome(fs, rq, Parents(fs, rq, n))
         /\ DriverAccepts(Parents(fs, rq, n), rq) =>
              Snapshots!Outcome(fs, rq, DriverEffect(Parents(fs, rq, n), rq))
BY SameAccepts, SameEffect DEF Snapshots!Outcome, Depth, Parents
------------------------------------------------------------------------------
(* The snapshot store, second: the place in the list and the copy *)

\* The stages of ensureParentDirs.
Walking == {"mkdirs", "mkdir", "restat"}

\* How many ancestors ensureParentDirs has passed.
Visited(p) == Depth(req[p]) - Len(todo[p])

\* What is left to visit is the rest of the ancestors of the path.
Walk(p) ==
  pc[p] \in Walking =>
    /\ req[p].op = "WriteFile"
    /\ Visited(p) \in Nat
    /\ \A i \in 1..Len(todo[p]) : todo[p][i] = Ancestors[req[p].path][Visited(p) + i]
Walks == \A p \in Procs : Walk(p)

\* A session's copy is what it unpacked with the parents made so far and, after
\* the driver call, its effect.
Copied(p) ==
  /\ base[p] # NoTree <=> tmp[p] # NoTemp /\ pc[p] \in InSession
  /\ base[p] # NoTree =>
       /\ pc[p] \in {"open", "op"} => files[tmp[p]] = base[p]
       /\ pc[p] \in Walking => files[tmp[p]] = Parents(base[p], req[p], Visited(p))
       /\ pc[p] = "retry" =>
            /\ req[p].op = "WriteFile"
            /\ files[tmp[p]] = Parents(base[p], req[p], Depth(req[p]))
       /\ Snapshots!Outcome(base[p], req[p], files[tmp[p]])

\* What the refinement rests on.
RefInv == IndInv /\ Walks /\ \A p \in Procs : Copied(p)

\* The head of todo is the next ancestor, its tail the ones after that.
LEMMA WalkOn ==
  ASSUME IndInv, NEW p \in Procs, Walk(p), pc[p] \in Walking, todo[p] # <<>>
  PROVE  /\ req[p] \in Requests /\ req[p].op = "WriteFile"
         /\ Visited(p) \in Nat /\ Visited(p) < Depth(req[p])
         /\ Head(todo[p]) = Ancestors[req[p].path][Visited(p) + 1]
         /\ Depth(req[p]) - Len(Tail(todo[p])) = Visited(p) + 1
         /\ \A i \in 1..Len(Tail(todo[p])) :
              Tail(todo[p])[i] = Ancestors[req[p].path][Visited(p) + 1 + i]
<1>1. req[p] \in Requests /\ todo[p] \in Seq(Paths)
  BY DEF IndInv, TypeOK, Walking
<1>2. Depth(req[p]) \in Nat
  BY <1>1, DepthType
<1> DEFINE t == todo[p]
<1>3. Len(t) \in Nat /\ Len(t) > 0 /\ Head(t) = t[1] /\ Len(Tail(t)) = Len(t) - 1
      /\ \A i \in 1..Len(Tail(t)) : Tail(t)[i] = t[i + 1]
  BY <1>1
<1>4. \A i \in 1..Len(t) : t[i] = Ancestors[req[p].path][Visited(p) + i]
  BY DEF Walk
<1>5. \A i \in 1..Len(Tail(t)) : i + 1 \in 1..Len(t) /\ Visited(p) + (i + 1) = Visited(p) + 1 + i
  BY <1>3 DEF Walk
<1>6. \A i \in 1..Len(Tail(t)) : Tail(t)[i] = Ancestors[req[p].path][Visited(p) + 1 + i]
  BY <1>3, <1>4, <1>5
<1>7. Visited(p) \in Nat /\ req[p].op = "WriteFile"
  BY DEF Walk
<1> QED
  BY <1>1, <1>2, <1>3, <1>4, <1>6, <1>7 DEF Visited

\* Every step keeps the place of ensureParentDirs in its list.
LEMMA WalkStep == RefInv /\ [Next]_vars => Walks'
<1> SUFFICES ASSUME RefInv, [Next]_vars PROVE Walks'
  OBVIOUS
<1>0. CASE UNCHANGED vars
  BY <1>0 DEF vars, session, RefInv, Walks, Walk, Visited
<1>1. ASSUME NEW p \in Procs, Call(p) \/ Step(p) \/ Crash(p) PROVE Walks'
  <2>1. ASSUME NEW o \in Procs, o # p PROVE Walk(o)'
    <3>1. pc'[o] = pc[o] /\ req'[o] = req[o] /\ todo'[o] = todo[o]
      BY <1>1, <2>1 DEF RemoveCopy, Step, Call, DetectFilesystem, DetectDone, OpenImage, OpenImageFails,
           OpenDriver, OpenDriverFails, OpSucceeds, OpFails, EnsureParentDirs, MkDirComponent,
           RestatComponent, CloseDriver, Pack, PackFails, RemoveTemp, Return, Crash, Goto,
           RefInv, IndInv, TypeOK
    <3> QED
      BY <3>1 DEF RefInv, Walks, Walk, Visited
  <2>2. CASE pc'[p] \notin Walking
    BY <2>1, <2>2 DEF Walks, Walk
  <2>3. CASE pc'[p] \in Walking
    <3>1. \/ OpFails(p) /\ pc[p] = "op"
          \/ EnsureParentDirs(p) \/ MkDirComponent(p) \/ RestatComponent(p)
      BY <1>1, <2>3 DEF RemoveCopy, Step, Call, DetectFilesystem, DetectDone, OpenImage, OpenImageFails,
           OpenDriver, OpenDriverFails, OpSucceeds, OpFails, CloseDriver, Pack, PackFails,
           RemoveTemp, Return, Crash, Goto, RefInv, IndInv, TypeOK, Walking
    <3>2. UNCHANGED req
      BY <3>1 DEF OpFails, EnsureParentDirs, MkDirComponent, RestatComponent
    <3>3. CASE OpFails(p) /\ pc[p] = "op"
      <4>1. req[p].op = "WriteFile" /\ todo'[p] = Ancestors[req[p].path] /\ req[p] \in Requests
        BY <2>3, <3>3 DEF OpFails, Goto, RefInv, IndInv, TypeOK, Walking
      <4>2. Depth(req[p]) \in Nat
        BY <4>1, DepthType
      <4>3. Visited(p)' = 0 /\ req'[p] = req[p]
        BY <3>2, <4>1, <4>2 DEF Visited, Depth
      <4>4. \A i \in 1..Len(todo'[p]) : todo'[p][i] = Ancestors[req'[p].path][0 + i]
        BY <4>1, <4>3
      <4>5. Walk(p)'
        BY <4>1, <4>3, <4>4 DEF Walk
      <4> QED
        BY <2>1, <4>5 DEF Walks
    <3>4. CASE UNCHANGED todo /\ (EnsureParentDirs(p) \/ MkDirComponent(p) \/ RestatComponent(p))
      BY <2>1, <3>2, <3>4 DEF EnsureParentDirs, MkDirComponent, RestatComponent, RefInv, Walks, Walk, Visited, Walking
    <3>5. CASE /\ todo' = [todo EXCEPT ![p] = Tail(@)]
               /\ EnsureParentDirs(p) \/ MkDirComponent(p) \/ RestatComponent(p)
               /\ todo[p] # <<>>
      <4>1. pc[p] \in Walking /\ todo'[p] = Tail(todo[p])
        BY <3>5 DEF EnsureParentDirs, MkDirComponent, RestatComponent, RefInv, IndInv, TypeOK, Walking
      <4>2. Walk(p) /\ IndInv
        BY DEF RefInv, Walks
      <4>3. /\ req[p].op = "WriteFile" /\ Visited(p) \in Nat
            /\ Depth(req[p]) - Len(Tail(todo[p])) = Visited(p) + 1
            /\ \A i \in 1..Len(Tail(todo[p])) :
                 Tail(todo[p])[i] = Ancestors[req[p].path][Visited(p) + 1 + i]
        BY <3>5, <4>1, <4>2, WalkOn
      <4>4. Visited(p)' = Visited(p) + 1 /\ req'[p] = req[p]
        BY <3>2, <4>1, <4>3 DEF Visited, Depth
      <4>5. \A i \in 1..Len(todo'[p]) : todo'[p][i] = Ancestors[req'[p].path][Visited(p)' + i]
        BY <4>1, <4>3, <4>4
      <4>6. Visited(p)' \in Nat /\ req'[p].op = "WriteFile"
        BY <4>3, <4>4
      <4>7. Walk(p)'
        BY <4>5, <4>6 DEF Walk
      <4> QED
        BY <2>1, <4>7 DEF Walks
    <3>6. MkDirComponent(p) \/ RestatComponent(p) => todo[p] # <<>>
      BY DEF MkDirComponent, RestatComponent, RefInv, IndInv, Stages
    <3> QED
      BY <3>1, <3>3, <3>4, <3>5, <3>6 DEF EnsureParentDirs, MkDirComponent, RestatComponent
  <2> QED
    BY <2>2, <2>3
<1> QED
  BY <1>0, <1>1 DEF Next

\* A step of p leaves the locals and the copy of every other caller alone.
LEMMA OthersKept ==
  ASSUME IndInv, NEW p \in Procs, Call(p) \/ Step(p) \/ Crash(p), NEW o \in Procs, o # p
  PROVE  /\ pc'[o] = pc[o] /\ req'[o] = req[o] /\ tmp'[o] = tmp[o] /\ todo'[o] = todo[o]
         /\ base'[o] = base[o] /\ res'[o] = res[o]
         /\ tmp[o] # NoTemp => files'[tmp[o]] = files[tmp[o]]
<1> USE DEF Goto
<1>1. pc'[o] = pc[o] /\ req'[o] = req[o] /\ todo'[o] = todo[o] /\ res'[o] = res[o]
  BY DEF RemoveCopy, Answer, Step, Call, DetectFilesystem, DetectDone, OpenImage, OpenImageFails,
     OpenDriver, OpenDriverFails, OpSucceeds, OpFails, EnsureParentDirs, MkDirComponent,
     RestatComponent, CloseDriver, Pack, PackFails, RemoveTemp, Return, Crash, IndInv, TypeOK
<1>2. tmp'[o] = tmp[o] /\ base'[o] = base[o]
  BY ZenonT(60) DEF RemoveCopy, Step, Call, DetectFilesystem, DetectDone, OpenImage, OpenImageFails,
     OpenDriver, OpenDriverFails, OpSucceeds, OpFails, EnsureParentDirs, MkDirComponent,
     RestatComponent, CloseDriver, Pack, PackFails, RemoveTemp, Return, Crash, IndInv, TypeOK,
     Unpacked, Abandon
<1>3. ASSUME tmp[o] # NoTemp PROVE files'[tmp[o]] = files[tmp[o]]
  <2>1. tmp[o] \in Temps /\ files[tmp[o]] # NoTree /\ tmp[o] # tmp[p]
    BY <1>3, SessionAssumption DEF IndInv, TypeOK, Holdings
  <2>2. CASE UNCHANGED files
    BY <2>2
  <2>3. CASE \E t \in FreeTemps : Unpacked(p, t)
    BY <2>1, <2>3 DEF Unpacked, FreeTemps, IndInv, TypeOK
  <2>4. CASE \E fs : files' = [files EXCEPT ![tmp[p]] = fs]
    BY <2>1, <2>4 DEF IndInv, TypeOK
  <2>5. CASE Abandon(p)
    BY <2>1, <2>5 DEF Abandon
  <2>6. CASE \E fs : SetWork(p, fs)
    BY <2>2, <2>4, <2>6 DEF SetWork
  <2> QED
    BY <2>2, <2>3, <2>4, <2>5, <2>6
    DEF RemoveCopy, Step, Call, DetectFilesystem, DetectDone, OpenImage, OpenImageFails,
     OpenDriver, OpenDriverFails, OpSucceeds, OpFails, EnsureParentDirs, MkDirComponent,
     RestatComponent, CloseDriver, Pack, PackFails, RemoveTemp, Return, Crash
<1> QED
  BY <1>1, <1>2, <1>3

\* A step of p keeps the relation of p's own copy to what p unpacked.
LEMMA WriterCopied ==
  ASSUME RefInv, NEW p \in Procs, Call(p) \/ Step(p) \/ Crash(p)
  PROVE  Copied(p)'
<1> USE DEF Goto
<1>0. Copied(p) /\ Walk(p) /\ IndInv
  BY DEF RefInv, Walks
<1>a. CASE Abandon(p) /\ pc'[p] \notin InSession
  BY <1>a, <1>0 DEF Abandon, Copied, IndInv, TypeOK
<1>b. CASE UNCHANGED base /\ pc[p] \notin InSession /\ pc'[p] \notin InSession
  BY <1>b, <1>0 DEF Copied
<1>1. CASE Call(p) \/ DetectFilesystem(p) \/ OpenImageFails(p) \/ Return(p)
  <2>1. UNCHANGED base /\ pc[p] \notin InSession /\ pc'[p] \notin InSession
    BY <1>0, <1>1 DEF Call, DetectFilesystem, OpenImageFails, Return, InSession, IndInv, TypeOK
  <2> QED
    BY <2>1, <1>b
<1>2. CASE OpenDriverFails(p) \/ PackFails(p) \/ Crash(p)
  <2>1. Abandon(p) /\ pc'[p] \notin InSession
    BY <1>0, <1>2 DEF OpenDriverFails, PackFails, Crash, InSession, IndInv, TypeOK
  <2> QED
    BY <2>1, <1>a
<1>3. CASE RemoveTemp(p) \/ DetectDone(p)
  <2>1. pc[p] \notin InSession /\ pc'[p] \notin InSession
    BY <1>0, <1>3 DEF DetectDone, RemoveTemp, InSession, IndInv, TypeOK
  <2>2. UNCHANGED base \/ Abandon(p)
    BY <1>3 DEF RemoveCopy, DetectDone, RemoveTemp
  <2> QED
    BY <2>1, <2>2, <1>a, <1>b
<1>4. CASE Pack(p)
  <2>1. base'[p] = NoTree /\ pc'[p] \notin InSession
    BY <1>0, <1>4 DEF Pack, InSession, IndInv, TypeOK
  <2> QED
    BY <2>1 DEF Copied
<1>5. CASE OpenImage(p)
  <2>1. req'[p] = req[p] /\ req[p] \in Requests /\ pc'[p] = "open"
    BY <1>0, <1>5 DEF OpenImage, IndInv, TypeOK
  <2>2. CASE ~IsUDIF
    BY <1>0, <1>5, <2>2 DEF OpenImage, Copied, IndInv, TypeOK, Stages, IsUDIF, InSession
  <2>3. CASE IsUDIF
    <3>1. PICK t \in FreeTemps : Unpacked(p, t)
      BY <1>5, <2>3 DEF OpenImage
    <3>2. image \in Tree /\ t # NoTemp /\ tmp'[p] = t /\ files'[t] = image
      BY <1>0, <3>1, SessionAssumption DEF Unpacked, FreeTemps, IndInv, TypeOK
    <3>3. base'[p] = image
      BY <1>0, <1>5, <2>3 DEF OpenImage, IndInv, TypeOK
    <3>4. Snapshots!Outcome(image, req[p], image)
      <4>1. 0 \in 0..Depth(req[p])
        BY <2>1, DepthType
      <4> QED
        BY <2>1, <3>2, <4>1, PartOutcome, NoParents
    <3> QED
      BY <2>1, <3>2, <3>3, <3>4, SessionAssumption DEF Copied, InSession, Walking
  <2> QED
    BY <2>2, <2>3
\* the steps of a running session
<1>6. ASSUME pc[p] \in InSession, pc'[p] \in InSession, UNCHANGED <<base, tmp, req, files>>,
             pc'[p] \in {"op", "close", "pack"}, pc'[p] = "op" => pc[p] = "open"
      PROVE  Copied(p)'
  BY <1>0, <1>6 DEF Copied, Walking
<1>7. CASE OpenDriver(p) \/ CloseDriver(p)
  <2>1. CASE pc'[p] = "done"
    <3>1. base[p] = NoTree /\ base' = base
      BY <1>0, <1>7, <2>1 DEF OpenDriver, CloseDriver, Copied, IndInv, TypeOK
    <3> QED
      BY <2>1, <3>1 DEF Copied, InSession
  <2>2. CASE pc'[p] # "done"
    BY <1>0, <1>6, <1>7, <2>2 DEF OpenDriver, CloseDriver, InSession, IndInv, TypeOK
  <2> QED
    BY <2>1, <2>2
<1>8. ASSUME pc[p] \in InSession, tmp[p] = NoTemp, UNCHANGED <<base, tmp>>
      PROVE  Copied(p)'
  BY <1>0, <1>8 DEF Copied
<1>9. ASSUME pc[p] \in InSession, tmp[p] # NoTemp
      PROVE  /\ base[p] \in Tree /\ base[p] # NoTree
             /\ req[p] \in Requests /\ Depth(req[p]) \in Nat
             /\ Work(p) = files[tmp[p]] /\ files[tmp[p]] \in Tree /\ tmp[p] \in Temps
  <2>1. base[p] \in Tree /\ base[p] # NoTree /\ req[p] \in Requests
    BY <1>0, <1>9 DEF Copied, IndInv, TypeOK, InSession
  <2>2. Work(p) = files[tmp[p]] /\ files[tmp[p]] \in Tree /\ tmp[p] \in Temps
    BY <1>0, <1>9 DEF Work, IndInv, TypeOK, Holdings
  <2> QED
    BY <2>1, <2>2, DepthType
<1>10. CASE OpSucceeds(p)
  <2>1. pc[p] \in {"op", "retry"} /\ pc[p] \in InSession /\ pc'[p] = "close" /\ UNCHANGED <<base, tmp, req>>
    BY <1>0, <1>10 DEF OpSucceeds, InSession, IndInv, TypeOK
  <2>2. CASE tmp[p] # NoTemp
    <3>1. files'[tmp[p]] = DriverEffect(files[tmp[p]], req[p]) /\ DriverAccepts(files[tmp[p]], req[p])
      BY <1>0, <1>9, <1>10, <2>1, <2>2 DEF OpSucceeds, SetWork, IndInv, TypeOK
    <3>2. Snapshots!Outcome(base[p], req[p], DriverEffect(files[tmp[p]], req[p]))
      <4>1. CASE pc[p] = "op"
        <5>1. files[tmp[p]] = Parents(base[p], req[p], 0)
          BY <1>0, <1>9, <2>1, <2>2, <4>1, NoParents DEF Copied
        <5> QED
          BY <1>9, <2>1, <2>2, <3>1, <5>1, PartOutcome
      <4>2. CASE pc[p] = "retry"
        <5>1. files[tmp[p]] = Parents(base[p], req[p], Depth(req[p])) /\ req[p].op = "WriteFile"
          BY <1>0, <1>9, <2>1, <2>2, <4>2 DEF Copied
        <5> QED
          BY <1>9, <2>1, <2>2, <3>1, <5>1, PartOutcome
      <4> QED
        BY <2>1, <4>1, <4>2
    <3> QED
      BY <1>9, <2>1, <2>2, <3>1, <3>2 DEF Copied, InSession, Walking
  <2> QED
    BY <1>8, <2>1, <2>2
<1>11. CASE OpFails(p)
  <2>1. /\ pc[p] \in {"op", "retry"} /\ pc[p] \in InSession /\ UNCHANGED <<base, tmp, req, files>>
        /\ \/ pc'[p] = "close"
           \/ pc'[p] = "mkdirs" /\ pc[p] = "op" /\ todo'[p] = Ancestors[req[p].path]
    BY <1>0, <1>11 DEF OpFails, InSession, IndInv, TypeOK
  <2>2. CASE pc'[p] = "close"
    BY <1>6, <2>1, <2>2 DEF InSession
  <2>3. CASE pc'[p] = "mkdirs" /\ tmp[p] # NoTemp
    <3>1. Visited(p)' = 0
      BY <1>9, <2>1, <2>3 DEF Visited, Depth
    <3>2. files[tmp[p]] = Parents(base[p], req[p], 0)
      BY <1>0, <1>9, <2>1, <2>3, NoParents DEF Copied
    <3> QED
      BY <1>0, <1>9, <2>1, <2>3, <3>1, <3>2 DEF Copied, InSession, Walking
  <2> QED
    BY <1>8, <2>1, <2>2, <2>3
<1>12. ASSUME pc[p] \in Walking, todo[p] # <<>>, todo'[p] = Tail(todo[p]), tmp[p] # NoTemp,
              UNCHANGED <<base, tmp, req>>, pc'[p] = "mkdirs",
              \/ files' = files /\ Work(p)[Head(todo[p])] # Absent
              \/ /\ DriverAccepts(Work(p), MkDirReq(Head(todo[p])))
                 /\ SetWork(p, DriverEffect(Work(p), MkDirReq(Head(todo[p]))))
       PROVE  Copied(p)'
  <2> DEFINE n == Visited(p)
             d == Ancestors[req[p].path][n + 1]
  <2>1. /\ req[p].op = "WriteFile" /\ n \in Nat /\ n < Depth(req[p])
        /\ Head(todo[p]) = d
        /\ Depth(req[p]) - Len(Tail(todo[p])) = n + 1
    BY <1>0, <1>12, WalkOn
  <2>2. Visited(p)' = n + 1
    BY <1>12, <2>1 DEF Visited, Depth
  <2>3. pc[p] \in InSession
    BY <1>12 DEF InSession, Walking
  <2>4. files[tmp[p]] = Parents(base[p], req[p], n)
    BY <1>0, <1>9, <1>12, <2>3 DEF Copied
  <2>5. files'[tmp[p]] = Parents(base[p], req[p], n + 1)
    <3>1. CASE files' = files /\ Work(p)[d] # Absent
      BY <1>9, <1>12, <2>1, <2>3, <2>4, <3>1, NextParent
    <3>2. CASE DriverAccepts(Work(p), MkDirReq(d)) /\ SetWork(p, DriverEffect(Work(p), MkDirReq(d)))
      <4>1. Work(p)[d] = Absent
        BY <3>2 DEF DriverAccepts, MkDirReq
      <4>2. files'[tmp[p]] = DriverEffect(Work(p), MkDirReq(d))
        BY <1>0, <1>9, <1>12, <2>3, <3>2 DEF SetWork, IndInv, TypeOK
      <4> QED
        BY <1>9, <1>12, <2>1, <2>3, <2>4, <4>1, <4>2, NextParent
    <3> QED
      BY <1>12, <2>1, <3>1, <3>2
  <2>6. Snapshots!Outcome(base[p], req[p], files'[tmp[p]])
    BY <1>9, <1>12, <2>1, <2>3, <2>5, PartOutcome
  <2> QED
    BY <1>9, <1>12, <2>2, <2>3, <2>5, <2>6 DEF Copied, InSession, Walking
<1>13. ASSUME pc[p] \in Walking, pc'[p] \in Walking, UNCHANGED <<base, tmp, req, files, todo>>
       PROVE  Copied(p)'
  BY <1>0, <1>13 DEF Copied, Walking, InSession, Visited
<1>14. CASE EnsureParentDirs(p)
  <2>1. pc[p] \in Walking /\ pc[p] \in InSession /\ UNCHANGED <<base, tmp, req, files>>
    BY <1>14 DEF EnsureParentDirs, Walking, InSession
  <2>2. CASE todo[p] = <<>> /\ pc'[p] = "retry" /\ tmp[p] # NoTemp
    <3>1. Visited(p) = Depth(req[p])
      BY <1>9, <2>1, <2>2 DEF Visited
    <3> QED
      BY <1>0, <1>9, <2>1, <2>2, <3>1 DEF Copied, Walk, InSession, Walking
  <2>3. CASE pc'[p] = "mkdir" /\ UNCHANGED todo
    BY <1>13, <2>1, <2>3 DEF Walking
  <2>4. CASE UNCHANGED pc /\ todo'[p] = Tail(todo[p]) /\ todo[p] # <<>> /\ Work(p)[Head(todo[p])] # Absent
    BY <1>8, <1>12, <1>14, <2>1, <2>4 DEF EnsureParentDirs
  <2>5. \/ todo[p] = <<>> /\ pc'[p] = "retry"
        \/ pc'[p] = "mkdir" /\ UNCHANGED todo
        \/ UNCHANGED pc /\ todo'[p] = Tail(todo[p]) /\ todo[p] # <<>> /\ Work(p)[Head(todo[p])] # Absent
    BY <1>0, <1>14 DEF EnsureParentDirs, IndInv, TypeOK
  <2> QED
    BY <1>8, <2>1, <2>2, <2>3, <2>4, <2>5
<1>15. CASE MkDirComponent(p)
  <2>1. /\ pc[p] \in Walking /\ pc[p] \in InSession /\ todo[p] # <<>>
        /\ UNCHANGED <<base, tmp, req>>
        /\ \/ /\ DriverAccepts(Work(p), MkDirReq(Head(todo[p])))
              /\ SetWork(p, DriverEffect(Work(p), MkDirReq(Head(todo[p]))))
              /\ todo'[p] = Tail(todo[p])
              /\ pc'[p] = "mkdirs"
           \/ pc'[p] = "restat" /\ UNCHANGED <<files, todo>>
    BY <1>0, <1>15 DEF MkDirComponent, MkDirReq, Walking, InSession, IndInv, TypeOK, Stages
  <2> QED
    BY <1>8, <1>12, <1>13, <2>1 DEF Walking
<1>16. CASE RestatComponent(p)
  <2>1. /\ pc[p] \in Walking /\ pc[p] \in InSession /\ todo[p] # <<>>
        /\ UNCHANGED <<base, tmp, req, files>>
        /\ \/ Work(p)[Head(todo[p])] # Absent /\ todo'[p] = Tail(todo[p]) /\ pc'[p] = "mkdirs"
           \/ pc'[p] = "close" /\ UNCHANGED todo
    BY <1>0, <1>16 DEF RestatComponent, Walking, InSession, IndInv, TypeOK, Stages
  <2> QED
    BY <1>6, <1>8, <1>12, <2>1 DEF InSession
<1> QED
  BY <1>1, <1>2, <1>3, <1>4, <1>5, <1>7, <1>10, <1>11, <1>14, <1>15, <1>16 DEF Step

\* Every step keeps the invariant the refinement rests on.
LEMMA RefStep == RefInv /\ [Next]_vars => RefInv'
<1> SUFFICES ASSUME RefInv, [Next]_vars PROVE RefInv'
  OBVIOUS
<1>1. IndInv'
  BY TypeStep, StagesStep, HoldingsStep, OwedStep, CopiesStep DEF IndInv, RefInv
<1>2. Walks'
  BY WalkStep
<1>3. ASSUME NEW o \in Procs PROVE Copied(o)'
  <2>1. CASE UNCHANGED vars
    BY <2>1 DEF vars, session, RefInv, Copied, Visited
  <2>2. ASSUME NEW p \in Procs, Call(p) \/ Step(p) \/ Crash(p), p # o PROVE Copied(o)'
    <3>1. Copied(o) /\ IndInv
      BY DEF RefInv
    <3>2. /\ pc'[o] = pc[o] /\ req'[o] = req[o] /\ tmp'[o] = tmp[o] /\ todo'[o] = todo[o]
          /\ base'[o] = base[o]
          /\ tmp[o] # NoTemp => files'[tmp[o]] = files[tmp[o]]
      BY <2>2, <3>1, OthersKept
    <3> QED
      BY <3>1, <3>2 DEF Copied, Visited
  <2>3. CASE \E p \in Procs : Call(p) \/ Step(p) \/ Crash(p)
    BY <2>2, <2>3, WriterCopied
  <2> QED
    BY <2>1, <2>3 DEF Next
<1> QED
  BY <1>1, <1>2, <1>3 DEF RefInv

\* It holds before the first operation.
LEMMA InitRef == Init => RefInv
<1> SUFFICES ASSUME Init PROVE RefInv
  OBVIOUS
<1>1. IndInv
  BY InitInd
<1>2. Walks
  BY DEF Init, Walks, Walk, Walking
<1>3. \A p \in Procs : Copied(p)
  BY DEF Init, Copied
<1> QED
  BY <1>1, <1>2, <1>3 DEF RefInv

\* The request the snapshot store sees.
Want == [p \in Procs |-> IF base[p] = NoTree THEN NoReq ELSE req[p]]

\* Every step is one of the snapshot store, or invisible there: openFS begins, a
\* PackFromTemp that succeeds commits, a failed open or pack and a crash abort,
\* and on a raw image a driver call takes effect directly.
LEMMA AbstractStep ==
  ASSUME RefInv, NEW p \in Procs, Call(p) \/ Step(p) \/ Crash(p)
  PROVE  \/ Snapshots!Begin(p) \/ Snapshots!Commit(p) \/ Snapshots!Abort(p) \/ Snapshots!Direct(p)
         \/ UNCHANGED <<~IsUDIF, image, base, Want>>
<1>0. /\ Copied(p) /\ IndInv
      /\ base \in [Procs -> Tree \cup {NoTree}] /\ req \in [Procs -> Requests \cup {NoReq}]
      /\ pc \in [Procs -> PCs]
      /\ pc[p] # "idle" => req[p] \in Requests
  BY DEF RefInv, IndInv, TypeOK
<1>1. (~IsUDIF)' = (~IsUDIF)
  BY DEF RemoveCopy, Step, Call, DetectFilesystem, DetectDone, OpenImage, OpenImageFails,
     OpenDriver, OpenDriverFails, OpSucceeds, OpFails, EnsureParentDirs, MkDirComponent,
     RestatComponent, CloseDriver, Pack, PackFails, RemoveTemp, Return, Crash, IsUDIF
<1>2. \A o \in Procs \ {p} : req'[o] = req[o] /\ base'[o] = base[o]
  BY <1>0, OthersKept
<1>a. ASSUME UNCHANGED base, base[p] = NoTree \/ UNCHANGED req
      PROVE  Want' = Want
  BY <1>2, <1>a DEF Want
<1>b. ASSUME base' = [base EXCEPT ![p] = NoTree]
      PROVE  Want' = [Want EXCEPT ![p] = NoReq]
  BY <1>0, <1>2, <1>b DEF Want
<1>c. ASSUME base' = [base EXCEPT ![p] = NoTree], base[p] = NoTree
      PROVE  base' = base /\ Want' = Want
  BY <1>0, <1>2, <1>c DEF Want
<1>3. CASE Call(p) \/ DetectFilesystem(p) \/ OpenImageFails(p) \/ OpenDriver(p)
           \/ OpFails(p) \/ EnsureParentDirs(p) \/ RestatComponent(p) \/ CloseDriver(p) \/ Return(p)
  <2>1. UNCHANGED <<image, base>>
    BY <1>3 DEF Call, DetectFilesystem, OpenImageFails, OpenDriver,
         OpFails, EnsureParentDirs, RestatComponent, CloseDriver, Return
  <2>2. base[p] = NoTree \/ UNCHANGED req
    BY <1>0, <1>3 DEF Call, DetectFilesystem, OpenImageFails, OpenDriver,
         OpFails, EnsureParentDirs, RestatComponent, CloseDriver, Return, Copied, InSession
  <2> QED
    BY <1>1, <1>a, <2>1, <2>2
<1>4. CASE OpenImage(p)
  <2>1. UNCHANGED <<image, req>> /\ base[p] = NoTree /\ req[p] \in Requests
    BY <1>0, <1>4 DEF OpenImage, Copied, InSession
  <2>2. CASE ~IsUDIF
    BY <1>1, <1>4, <1>a, <2>1, <2>2 DEF OpenImage
  <2>3. CASE IsUDIF
    <3>1. image \in Tree /\ image # Torn /\ base' = [base EXCEPT ![p] = image]
      BY <1>0, <1>4, <2>3 DEF OpenImage, Unpacked, IndInv, TypeOK
    <3>2. Want' = [Want EXCEPT ![p] = req[p]]
      BY <1>0, <1>2, <2>1, <3>1, SessionAssumption DEF Want
    <3>3. Snapshots!Begin(p)
      BY <1>1, <2>1, <2>3, <3>1, <3>2, SameTypes DEF Snapshots!Begin, Want
    <3> QED
      BY <3>3
  <2> QED
    BY <2>2, <2>3
<1>d. ASSUME NEW rq \in Requests, pc[p] \in InSession, DriverAccepts(Work(p), rq),
             SetWork(p, DriverEffect(Work(p), rq)), UNCHANGED <<base, req>>
      PROVE  Snapshots!Direct(p) \/ UNCHANGED <<~IsUDIF, image, base, Want>>
  <2>1. Want' = Want
    BY <1>a, <1>d
  <2>2. CASE tmp[p] # NoTemp
    BY <1>1, <1>d, <2>1, <2>2 DEF SetWork
  <2>3. CASE tmp[p] = NoTemp
    <3>1. ~IsUDIF /\ Work(p) = image
      BY <1>0, <1>d, <2>3 DEF IndInv, Stages, Work
    <3>2. image' = DriverEffect(image, rq) /\ DriverAccepts(image, rq)
      BY <1>d, <2>3, <3>1 DEF SetWork
    <3>3. Snapshots!DriverAccepts(image, rq) /\ image' = Snapshots!DriverEffect(image, rq)
      BY <3>2, SameAccepts, SameEffect
    <3>4. Snapshots!Direct(p)
      BY <1>1, <1>d, <2>1, <3>1, <3>3, SameTypes DEF Snapshots!Direct, Want
    <3> QED
      BY <3>4
  <2> QED
    BY <2>2, <2>3
<1>5. CASE OpSucceeds(p)
  BY <1>0, <1>5, <1>d DEF OpSucceeds, InSession
<1>6. CASE MkDirComponent(p)
  <2>1. todo[p] # <<>> /\ todo[p] \in Seq(Paths) /\ pc[p] \in InSession /\ UNCHANGED <<base, req>>
    BY <1>0, <1>6 DEF MkDirComponent, IndInv, TypeOK, Stages, InSession
  <2>2. MkDirReq(Head(todo[p])) \in Requests
    <3>1. Head(todo[p]) \in Paths
      BY <2>1
    <3> QED
      BY <3>1 DEF MkDirReq, Requests, OpNames, WriteOps
  <2>3. CASE UNCHANGED image
    BY <1>1, <1>a, <2>1, <2>3
  <2> QED
    BY <1>6, <1>d, <2>1, <2>2, <2>3 DEF MkDirComponent, MkDirReq
<1>7. CASE Pack(p)
  <2>1. /\ base[p] # NoTree /\ base[p] \in Tree
        /\ files[tmp[p]] \in Tree
        /\ Snapshots!Outcome(base[p], req[p], files[tmp[p]])
    BY <1>0, <1>7 DEF Pack, Copied, InSession, IndInv, Stages, Holdings
  <2>2. image' = files[tmp[p]] /\ base' = [base EXCEPT ![p] = NoTree]
    BY <1>7 DEF Pack
  <2>3. Want' = [Want EXCEPT ![p] = NoReq] /\ Want[p] = req[p]
    BY <1>b, <2>1, <2>2 DEF Want
  <2>4. Snapshots!End(p)
    BY <1>1, <2>2, <2>3 DEF Snapshots!End, Want
  <2>5. Snapshots!Commit(p)
    BY <2>1, <2>2, <2>3, <2>4, SameTypes DEF Snapshots!Commit, Want
  <2> QED
    BY <2>5
<1>8. CASE OpenDriverFails(p) \/ PackFails(p) \/ RemoveTemp(p) \/ Crash(p)
  <2>1. CASE UNCHANGED base
    <3>1. CASE RemoveTemp(p) /\ UNCHANGED image
      BY <1>1, <1>a, <2>1, <3>1 DEF RemoveCopy, RemoveTemp
    <3>2. CASE base' = [base EXCEPT ![p] = NoTree] /\ base[p] = NoTree
      <4>1. UNCHANGED image
        BY <1>0, <1>8, <3>2 DEF RemoveCopy, OpenDriverFails, PackFails, RemoveTemp, Crash, Copied, InSession, IndInv, Stages
      <4> QED
        BY <1>1, <1>c, <3>2, <4>1
    <3> QED
      BY <1>0, <1>8, <2>1, <3>1, <3>2 DEF RemoveCopy, OpenDriverFails, PackFails, RemoveTemp, Crash, Abandon
  <2>2. CASE base # base'
    <3>1. base' = [base EXCEPT ![p] = NoTree] /\ base[p] # NoTree
      BY <1>0, <1>8, <2>2, <1>c DEF RemoveCopy, OpenDriverFails, PackFails, RemoveTemp, Crash, Abandon
    <3>2. image' \in {image, Torn}
      BY <1>8 DEF RemoveCopy, OpenDriverFails, PackFails, RemoveTemp, Crash, MaybeTear
    <3>3. Want' = [Want EXCEPT ![p] = NoReq]
      BY <1>b, <3>1
    <3>4. Snapshots!Abort(p)
      BY <1>1, <3>1, <3>2, <3>3 DEF Snapshots!Abort, Snapshots!End, Want
    <3> QED
      BY <3>4
  <2> QED
    BY <2>1, <2>2
<1>9. CASE DetectDone(p)
  <2>1. UNCHANGED <<image, req>> /\ base[p] = NoTree
    BY <1>0, <1>9 DEF DetectDone, Copied, InSession
  <2>2. CASE UNCHANGED base
    BY <1>1, <1>a, <2>1, <2>2
  <2>3. CASE Abandon(p)
    <3>1. base' = [base EXCEPT ![p] = NoTree]
      BY <2>3 DEF Abandon
    <3> QED
      BY <1>1, <1>c, <2>1, <3>1
  <2> QED
    BY <1>9, <2>2, <2>3 DEF DetectDone, RemoveCopy
<1> QED
  BY <1>3, <1>4, <1>5, <1>6, <1>7, <1>8, <1>9 DEF Step

\* The sessions of fileops.go implement the snapshot store for any number of
\* callers, whatever fails: a UDIF image only ever becomes what one session unpacked
\* plus the effect of its request, a raw one changes by one driver call at a time.
THEOREM Refinement == Spec => ImplementsSnapshotStore
<1>1. Init => Snapshots!Init
  BY DEF Init, Snapshots!Init, EmptyTree
<1>2. RefInv /\ [Next]_vars => [Snapshots!Next]_<<~IsUDIF, image, base, Want>>
  <2> SUFFICES ASSUME RefInv, [Next]_vars
               PROVE  [Snapshots!Next]_<<~IsUDIF, image, base, Want>>
    OBVIOUS
  <2>1. CASE UNCHANGED vars
    BY <2>1 DEF vars, session, Want, IsUDIF
  <2>2. ASSUME NEW p \in Procs, Call(p) \/ Step(p) \/ Crash(p)
        PROVE  [Snapshots!Next]_<<~IsUDIF, image, base, Want>>
    BY <2>2, AbstractStep DEF Snapshots!Next
  <2> QED
    BY <2>1, <2>2 DEF Next
<1>3. Spec => []RefInv
  BY InitRef, RefStep, PTL DEF Spec
<1> QED
  BY <1>1, <1>2, <1>3, PTL DEF Spec, ImplementsSnapshotStore, Snapshots!Spec, Want

------------------------------------------------------------------------------
(* WriteFile and ensureParentDirs among other callers *)

\* Nothing is deleted and no driver call fails by itself.
Quiet == Ops \cap {"DeleteFile", "DeleteDir", "Rename"} = {} /\ "io" \notin Faults

\* Directories stay directories and files stay files.
Grown(fs, new) ==
  \A q \in Paths : (fs[q] = Dir => new[q] = Dir) /\ (fs[q] \in Data => new[q] \in Data)

\* Why a WriteFile cannot succeed.
Conflict(p) ==
  \/ Work(p)[req[p].path] = Dir
  \/ \E q \in Paths : Below(q, req[p].path) /\ Work(p)[q] \in Data

\* The components that were visited exist, a MkDir that failed had a reason that
\* lasts, and so does a WriteFile that gave up.
Ensured(p) ==
  /\ pc[p] # "idle" => req[p].op \in Ops
  /\ pc[p] \in Walking =>
       \A i \in 1..Visited(p) : Work(p)[Ancestors[req[p].path][i]] # Absent
  /\ pc[p] = "restat" =>
       \/ Work(p)[Head(todo[p])] # Absent
       \/ \E i \in 1..Visited(p) : Work(p)[Ancestors[req[p].path][i]] \in Data
  /\ pc[p] = "retry" =>
       /\ req[p].op = "WriteFile"
       /\ \A i \in 1..Depth(req[p]) : Work(p)[Ancestors[req[p].path][i]] # Absent
  /\ pc[p] = "close" /\ req[p].op = "WriteFile" /\ res[p] = "err" => Conflict(p)
AllEnsured == \A p \in Procs : Ensured(p)

\* A driver call that deletes and moves nothing only adds to the tree.
LEMMA EffectGrows ==
  ASSUME NEW fs \in Tree, NEW rq \in Requests, DriverAccepts(fs, rq),
         rq.op \notin {"DeleteFile", "DeleteDir", "Rename"}
  PROVE  Grown(fs, DriverEffect(fs, rq))
<1>1. rq.path \in Paths /\ rq.op \in OpNames /\ (rq.op = "WriteFile" => rq.data \in Data)
  BY DEF Requests
<1>2. CASE rq.op = "WriteFile"
  <2>1. DriverEffect(fs, rq) = [fs EXCEPT ![rq.path] = rq.data] /\ fs[rq.path] # Dir
    BY <1>2 DEF DriverEffect, DriverAccepts
  <2> QED
    BY <1>1, <1>2, <2>1 DEF Grown, Tree
<1>3. CASE rq.op = "MkDir"
  <2>1. DriverEffect(fs, rq) = [fs EXCEPT ![rq.path] = Dir] /\ fs[rq.path] = Absent
    BY <1>3 DEF DriverEffect, DriverAccepts
  <2> QED
    BY <1>1, <2>1, TreeAssumption DEF Grown, Tree
<1>4. CASE rq.op \in ReadOps
  <2>1. DriverEffect(fs, rq) = fs
    BY <1>4 DEF DriverEffect, ReadOps
  <2> QED
    BY <2>1 DEF Grown
<1> QED
  BY <1>1, <1>2, <1>3, <1>4 DEF OpNames, WriteOps

\* What exists in a tree exists in one grown from it.
LEMMA GrownExists ==
  ASSUME NEW fs \in Tree, NEW new \in Tree, Grown(fs, new), NEW q \in Paths, fs[q] # Absent
  PROVE  new[q] # Absent
<1>1. fs[q] = Dir \/ fs[q] \in Data
  BY DEF Tree, Node
<1> QED
  BY <1>1, TreeAssumption DEF Grown

\* Another caller's step leaves what o works on, or adds to it.
LEMMA WorkGrows ==
  ASSUME Quiet, IndInv, IndInv', AllEnsured, NEW p \in Procs, Call(p) \/ Step(p) \/ Crash(p),
         NEW o \in Procs, o # p, pc[o] \in InSession
  PROVE  Work(o)' \in Tree /\ Work(o) \in Tree /\ Grown(Work(o), Work(o)')
<1>1. /\ pc'[o] = pc[o] /\ tmp'[o] = tmp[o]
      /\ tmp[o] # NoTemp => files'[tmp[o]] = files[tmp[o]]
  BY OthersKept
<1>2. Work(o) \in Tree
  BY WorkIsTree
<1>3. Work(o)' \in Tree
  BY <1>1 DEF IndInv, TypeOK, Stages, Holdings, Work
<1>4. CASE tmp[o] # NoTemp
  BY <1>1, <1>2, <1>3, <1>4 DEF Work, Grown
<1>5. CASE tmp[o] = NoTemp
  <2>1. ~IsUDIF /\ image \in Tree /\ Work(o) = image /\ Work(o)' = image' /\ tmp[p] = NoTemp
    BY <1>1, <1>2, <1>5 DEF IndInv, Stages, Work
  <2> SUFFICES Grown(image, image')
    BY <1>2, <1>3, <2>1
  <2>2. CASE UNCHANGED image
    BY <2>2 DEF Grown
  <2>3. ASSUME NEW rq \in Requests, rq.op \notin {"DeleteFile", "DeleteDir", "Rename"},
               DriverAccepts(Work(p), rq), SetWork(p, DriverEffect(Work(p), rq))
        PROVE  Grown(image, image')
    BY <2>1, <2>3, EffectGrows DEF Work, SetWork
  <2>4. CASE OpSucceeds(p)
    <3>1. req[p] \in Requests /\ req[p].op \in Ops
      BY <2>4 DEF OpSucceeds, AllEnsured, Ensured, IndInv, TypeOK
    <3> QED
      BY <2>1, <2>3, <2>4, <3>1 DEF OpSucceeds, Quiet
  <2>5. CASE MkDirComponent(p)
    <3>1. todo[p] # <<>> /\ todo[p] \in Seq(Paths)
      BY <2>5 DEF MkDirComponent, IndInv, TypeOK, Stages
    <3>2. Head(todo[p]) \in Paths
      BY <3>1
    <3>3. MkDirReq(Head(todo[p])) \in Requests /\ MkDirReq(Head(todo[p])).op = "MkDir"
      BY <3>2 DEF MkDirReq, Requests, OpNames, WriteOps
    <3> QED
      BY <2>1, <2>2, <2>3, <2>5, <3>3 DEF MkDirComponent, MkDirReq
  <2>6. CASE UNCHANGED image \/ pc[p] = "pack"
    BY <2>1, <2>2, <2>6 DEF IndInv, Stages
  <2> QED
    BY <2>1, <2>2, <2>4, <2>5, <2>6
    DEF RemoveCopy, Step, Call, DetectFilesystem, DetectDone, OpenImage, OpenImageFails,
     OpenDriver, OpenDriverFails, OpFails, EnsureParentDirs,
     RestatComponent, CloseDriver, Pack, PackFails, RemoveTemp, Return, Crash
<1> QED
  BY <1>4, <1>5

\* A reason to go on or to give up outlasts the steps of other callers.
LEMMA EnsuredKept ==
  ASSUME IndInv, NEW o \in Procs, Walk(o), Ensured(o),
         pc'[o] = pc[o], req'[o] = req[o], todo'[o] = todo[o], res'[o] = res[o],
         pc[o] \in InSession =>
           Work(o)' \in Tree /\ Work(o) \in Tree /\ Grown(Work(o), Work(o)')
  PROVE  Ensured(o)'
<1>1. CASE pc[o] \notin InSession
  BY <1>1 DEF Ensured, InSession, Walking
<1>2. CASE pc[o] \in InSession
  <2>1. /\ req[o] \in Requests /\ todo[o] \in Seq(Paths)
        /\ req[o].path \in Paths
    BY <1>2 DEF IndInv, TypeOK, InSession, Requests
  <2>2. \A i \in 1..Depth(req[o]) : Ancestors[req[o].path][i] \in Paths
    BY <2>1, DepthType
  <2>3. Visited(o)' = Visited(o) /\ (pc[o] \in Walking => \A i \in 1..Visited(o) : i \in 1..Depth(req[o]))
    BY <2>1, DepthType DEF Visited, Depth, Walk
  <2>4. \A q \in Paths : Work(o)[q] # Absent => Work(o)'[q] # Absent
    BY <1>2, GrownExists
  <2>5. \A q \in Paths : Work(o)[q] \in Data => Work(o)'[q] \in Data
    BY <1>2 DEF Grown
  <2>6. Work(o)[req[o].path] = Dir => Work(o)'[req[o].path] = Dir
    BY <1>2, <2>1 DEF Grown
  <2>7. pc[o] = "restat" => Head(todo[o]) \in Paths
    BY <2>1 DEF IndInv, Stages
  <2>8. Conflict(o) => Conflict(o)'
    BY <2>5, <2>6 DEF Conflict
  <2>9. pc[o] \in Walking =>
          \A i \in 1..Visited(o) : Work(o)'[Ancestors[req[o].path][i]] # Absent
    BY <2>2, <2>3, <2>4 DEF Ensured
  <2>10. pc[o] = "restat" =>
           \/ Work(o)'[Head(todo[o])] # Absent
           \/ \E i \in 1..Visited(o) : Work(o)'[Ancestors[req[o].path][i]] \in Data
    BY <2>2, <2>3, <2>4, <2>5, <2>7 DEF Ensured, Walking
  <2>11. pc[o] = "retry" =>
           \A i \in 1..Depth(req[o]) : Work(o)'[Ancestors[req[o].path][i]] # Absent
    BY <2>2, <2>4 DEF Ensured
  <2> QED
    BY <2>3, <2>8, <2>9, <2>10, <2>11 DEF Ensured
<1> QED
  BY <1>1, <1>2

\* The steps of ensureParentDirs and of the second write establish it.
LEMMA WriterEnsured ==
  ASSUME Quiet, RefInv, RefInv', AllEnsured, NEW p \in Procs, Call(p) \/ Step(p) \/ Crash(p)
  PROVE  Ensured(p)'
<1> USE DEF Goto
<1>0. IndInv /\ Walk(p) /\ Ensured(p) /\ pc \in [Procs -> PCs]
  BY DEF RefInv, Walks, AllEnsured, IndInv, TypeOK
<1>1. pc'[p] # "idle" => req'[p].op \in Ops
  BY <1>0 DEF RemoveCopy, Ensured, Step, Call, DetectFilesystem, DetectDone, OpenImage, OpenImageFails,
     OpenDriver, OpenDriverFails, OpSucceeds, OpFails, EnsureParentDirs, MkDirComponent,
     RestatComponent, CloseDriver, Pack, PackFails, RemoveTemp, Return, Crash, IndInv, TypeOK
<1>2. CASE pc'[p] \notin Walking \cup {"retry", "close"}
  BY <1>1, <1>2 DEF Ensured, Walking
<1>3. CASE pc'[p] \in Walking \cup {"retry", "close"}
  <2>1. OpSucceeds(p) \/ OpFails(p) \/ EnsureParentDirs(p) \/ MkDirComponent(p) \/ RestatComponent(p)
    BY <1>0, <1>3 DEF RemoveCopy, Walking, Step, Call, DetectFilesystem, DetectDone, OpenImage, OpenImageFails,
     OpenDriver, OpenDriverFails, CloseDriver, Pack, PackFails, RemoveTemp, Return, Crash
  <2>2. /\ req[p] \in Requests /\ todo[p] \in Seq(Paths) /\ Work(p) \in Tree
        /\ req' = req /\ tmp' = tmp /\ res \in [Procs -> {"nil", "err"}]
    BY <1>0, <2>1, WorkIsTree DEF IndInv, TypeOK, InSession, OpSucceeds, OpFails,
         EnsureParentDirs, MkDirComponent, RestatComponent
  <2>3. /\ req[p].path \in Paths /\ Depth(req[p]) \in Nat
        /\ \A i \in 1..Depth(req[p]) : Ancestors[req[p].path][i] \in Paths
    BY <2>2, DepthType DEF Requests
  <2>4. CASE OpSucceeds(p)
    <3>1. pc'[p] = "close" /\ res'[p] = "nil"
      BY <1>0, <2>2, <2>4 DEF OpSucceeds, Answer
    <3> QED
      BY <1>1, <3>1 DEF Ensured, Walking
  <2>5. ASSUME \/ OpFails(p) \/ EnsureParentDirs(p) \/ RestatComponent(p)
               \/ MkDirComponent(p) /\ UNCHANGED <<image, files>>
        PROVE  Work(p)' = Work(p)
    BY <2>2, <2>5 DEF Work, OpFails, EnsureParentDirs, RestatComponent
  <2>6. CASE OpFails(p)
    <3>1. CASE pc'[p] = "mkdirs"
      <4>1. todo'[p] = Ancestors[req[p].path]
        BY <1>0, <2>6, <3>1 DEF OpFails, IndInv, TypeOK
      <4>2. Visited(p)' = 0
        BY <2>2, <2>3, <4>1 DEF Visited, Depth
      <4> QED
        BY <1>1, <3>1, <4>2 DEF Ensured, Walking
    <3>2. CASE pc'[p] = "close"
      <4>1. ASSUME req[p].op = "WriteFile" PROVE Conflict(p)
        <5>1. pc[p] = "retry" /\ ~DriverAccepts(Work(p), req[p])
          BY <1>0, <2>6, <3>2, <4>1 DEF OpFails, Quiet
        <5>2. CASE Work(p)[req[p].path] = Dir
          BY <5>2 DEF Conflict
        <5>3. CASE ~HasParent(Work(p), req[p].path)
          <6>1. PICK i \in 1..Depth(req[p]) : Work(p)[Ancestors[req[p].path][i]] # Dir
            BY <5>3 DEF HasParent, Depth
          <6>2. Work(p)[Ancestors[req[p].path][i]] \in Data
            BY <1>0, <2>2, <2>3, <5>1, <6>1 DEF Ensured, Tree, Node
          <6> QED
            BY <2>3, <6>2 DEF Conflict, Below, Depth
        <5> QED
          BY <4>1, <5>1, <5>2, <5>3 DEF DriverAccepts
      <4>2. req[p].op = "WriteFile" => Conflict(p)'
        BY <2>2, <2>5, <2>6, <4>1 DEF Conflict
      <4> QED
        BY <1>1, <2>2, <3>2, <4>2 DEF Ensured, Walking
    <3> QED
      BY <1>0, <2>6, <3>1, <3>2 DEF OpFails
  \* one more component exists
  <2>7. ASSUME pc[p] \in Walking, todo[p] # <<>>, todo'[p] = Tail(todo[p]), pc'[p] = "mkdirs",
               Work(p)' \in Tree, Grown(Work(p), Work(p)'), Work(p)'[Head(todo[p])] # Absent
        PROVE  Ensured(p)'
    <3>1. /\ Visited(p) \in Nat /\ Visited(p) < Depth(req[p])
          /\ Head(todo[p]) = Ancestors[req[p].path][Visited(p) + 1]
          /\ Depth(req[p]) - Len(Tail(todo[p])) = Visited(p) + 1
      BY <1>0, <2>7, WalkOn
    <3>2. Visited(p)' = Visited(p) + 1
      BY <2>2, <2>7, <3>1 DEF Visited, Depth
    <3>3. ASSUME NEW i \in 1..(Visited(p) + 1) PROVE Work(p)'[Ancestors[req[p].path][i]] # Absent
      <4>1. CASE i = Visited(p) + 1
        BY <2>7, <3>1, <4>1
      <4>2. CASE i # Visited(p) + 1
        <5>1. i \in 1..Visited(p) /\ i \in 1..Depth(req[p])
          BY <2>3, <3>1, <4>2
        <5> QED
          BY <1>0, <2>2, <2>3, <2>7, <5>1, GrownExists DEF Ensured
      <4> QED
        BY <4>1, <4>2
    <3> QED
      BY <1>1, <2>2, <2>7, <3>2, <3>3 DEF Ensured, Walking
  <2>8. Grown(Work(p), Work(p))
    BY DEF Grown
  <2>9. CASE EnsureParentDirs(p)
    <3>1. pc[p] = "mkdirs" /\ Work(p)' = Work(p)
      BY <2>5, <2>9 DEF EnsureParentDirs
    <3>2. CASE todo[p] = <<>> /\ pc'[p] = "retry"
      <4>1. Visited(p) = Depth(req[p])
        BY <2>3, <3>2 DEF Visited
      <4> QED
        BY <1>0, <1>1, <2>2, <3>1, <3>2, <4>1 DEF Ensured, Walk, Walking
    <3>3. CASE pc'[p] = "mkdir" /\ todo' = todo
      BY <1>0, <1>1, <2>2, <3>1, <3>3 DEF Ensured, Walking, Visited
    <3>4. CASE pc' = pc /\ todo'[p] = Tail(todo[p]) /\ todo[p] # <<>> /\ Work(p)[Head(todo[p])] # Absent
      BY <2>2, <2>7, <2>8, <3>1, <3>4 DEF Walking
    <3> QED
      BY <1>0, <2>9, <3>2, <3>3, <3>4 DEF EnsureParentDirs, IndInv, TypeOK
  <2>10. CASE RestatComponent(p)
    <3>1. pc[p] = "restat" /\ Work(p)' = Work(p) /\ todo[p] # <<>>
      BY <1>0, <2>5, <2>10 DEF RestatComponent, IndInv, Stages
    <3>2. CASE todo'[p] = Tail(todo[p]) /\ pc'[p] = "mkdirs" /\ Work(p)[Head(todo[p])] # Absent
      BY <2>2, <2>7, <2>8, <3>1, <3>2 DEF Walking
    <3>3. CASE pc'[p] = "close" /\ Work(p)[Head(todo[p])] = Absent
      <4>1. PICK i \in 1..Visited(p) : Work(p)[Ancestors[req[p].path][i]] \in Data
        BY <1>0, <3>1, <3>3 DEF Ensured
      <4>2. i \in 1..Depth(req[p])
        BY <1>0, <3>1, WalkOn, <2>3 DEF Walking
      <4>3. Conflict(p)
        BY <2>3, <4>1, <4>2 DEF Conflict, Below, Depth
      <4>4. Conflict(p)'
        BY <2>2, <3>1, <4>3 DEF Conflict
      <4> QED
        BY <1>1, <3>3, <4>4 DEF Ensured, Walking
    <3> QED
      BY <1>0, <2>10, <3>2, <3>3 DEF RestatComponent, IndInv, TypeOK, Quiet
  <2>11. CASE MkDirComponent(p)
    <3> DEFINE d == Head(todo[p])
    <3>1. pc[p] = "mkdir" /\ todo[p] # <<>> /\ pc[p] \in Walking
      BY <1>0, <2>11 DEF MkDirComponent, IndInv, Stages, Walking
    <3>2. d \in Paths
      BY <2>2, <3>1
    <3>3. CASE /\ DriverAccepts(Work(p), MkDirReq(d)) /\ SetWork(p, DriverEffect(Work(p), MkDirReq(d)))
               /\ todo'[p] = Tail(todo[p]) /\ pc'[p] = "mkdirs"
      <4>1. MkDirReq(d) \in Requests /\ MkDirReq(d).op = "MkDir"
        BY <3>2, <2>2, <3>3, MkDirEffect DEF MkDirReq
      <4>2. DriverEffect(Work(p), MkDirReq(d)) \in Tree
        BY <2>2, <4>1, EffectType
      <4>3. Work(p)' = DriverEffect(Work(p), MkDirReq(d))
        BY <1>0, <2>2, <3>3 DEF SetWork, Work, IndInv, TypeOK
      <4>4. Grown(Work(p), Work(p)')
        BY <2>2, <3>3, <4>1, <4>3, EffectGrows
      <4>5. Work(p)'[d] = Dir
        BY <2>2, <3>2, <4>3 DEF DriverEffect, MkDirReq, Tree
      <4> QED
        BY <2>7, <3>1, <3>3, <4>2, <4>3, <4>4, <4>5, TreeAssumption
    <3>4. CASE ~DriverAccepts(Work(p), MkDirReq(d)) /\ pc'[p] = "restat" /\ UNCHANGED <<image, files, todo>>
      <4>1. Work(p)' = Work(p)
        BY <2>5, <2>11, <3>4
      <4>2. /\ Visited(p) \in Nat /\ Visited(p) < Depth(req[p])
            /\ d = Ancestors[req[p].path][Visited(p) + 1]
        BY <1>0, <3>1, WalkOn
      <4>3. ASSUME Work(p)[d] = Absent
            PROVE  \E i \in 1..Visited(p) : Work(p)[Ancestors[req[p].path][i]] \in Data
        <5>1. ~HasParent(Work(p), d)
          BY <3>4, <4>3 DEF DriverAccepts, MkDirReq
        <5>2. PICK i \in 1..Len(Ancestors[d]) : Work(p)[Ancestors[d][i]] # Dir
          BY <5>1 DEF HasParent
        <5>3. Ancestors[d] = SubSeq(Ancestors[req[p].path], 1, Visited(p))
          <6> DEFINE k == Visited(p) + 1
          <6>1. k \in 1..Len(Ancestors[req[p].path]) /\ k - 1 = Visited(p) /\ d = Ancestors[req[p].path][k]
            BY <2>3, <4>2 DEF Depth
          <6> HIDE DEF k
          <6>2. Ancestors[Ancestors[req[p].path][k]] = SubSeq(Ancestors[req[p].path], 1, k - 1)
            BY <2>3, <6>1, TreeAssumption
          <6> QED
            BY <6>1, <6>2
        <5>4. i \in 1..Visited(p) /\ i \in 1..Depth(req[p]) /\ Ancestors[d][i] = Ancestors[req[p].path][i]
          <6>1. Ancestors[req[p].path] \in Seq(Paths)
            BY <2>3, TreeAssumption
          <6> QED
            BY <4>2, <5>2, <5>3, <6>1 DEF Depth
        <5>5. Work(p)[Ancestors[req[p].path][i]] # Absent
          BY <1>0, <3>1, <5>4 DEF Ensured
        <5>6. Work(p)[Ancestors[req[p].path][i]] \in Data
          BY <2>2, <2>3, <5>2, <5>4, <5>5 DEF Tree, Node
        <5> QED
          BY <5>4, <5>6
      <4> QED
        BY <1>0, <1>1, <2>2, <3>1, <3>4, <4>1, <4>3 DEF Ensured, Walking, Visited
    <3> QED
      BY <1>0, <2>11, <3>3, <3>4 DEF MkDirComponent, MkDirReq, IndInv, TypeOK, Quiet
  <2> QED
    BY <2>1, <2>4, <2>6, <2>9, <2>10, <2>11
<1> QED
  BY <1>2, <1>3

\* Every step keeps what ensureParentDirs has established.
LEMMA EnsuredStep ==
  ASSUME Quiet, RefInv, RefInv', AllEnsured, [Next]_vars
  PROVE  AllEnsured'
<1>0. CASE UNCHANGED vars
  BY <1>0 DEF vars, session, AllEnsured, Ensured, Visited, Work, Conflict
<1>1. ASSUME NEW p \in Procs, Call(p) \/ Step(p) \/ Crash(p), NEW o \in Procs, o # p
      PROVE  Ensured(o)'
  <2>1. IndInv /\ IndInv' /\ Walk(o) /\ Ensured(o)
    BY DEF RefInv, Walks, AllEnsured
  <2> QED
    BY <1>1, <2>1, OthersKept, WorkGrows, EnsuredKept
<1> QED
  BY <1>0, <1>1, WriterEnsured DEF Next, AllEnsured

\* When nothing is deleted and no driver call fails by itself, WriteFile gives up
\* only because of a directory at its path or a file among its ancestors, however
\* many callers run ensureParentDirs on the same directories.
THEOREM WriteConflicts == Spec => []WriteFailsOnlyOnConflict
<1>1. Init => RefInv /\ (Quiet => AllEnsured)
  BY InitRef DEF Init, AllEnsured, Ensured, Walking
<1>2. RefInv /\ (Quiet => AllEnsured) /\ [Next]_vars => RefInv' /\ (Quiet => AllEnsured)'
  BY RefStep, EnsuredStep
<1>3. (Quiet => AllEnsured) => WriteFailsOnlyOnConflict
  BY DEF AllEnsured, Ensured, WriteFailsOnlyOnConflict, Conflict, Quiet
<1> QED
  BY <1>1, <1>2, <1>3, PTL DEF Spec
=============================================================================
