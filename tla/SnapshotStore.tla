---------------------------- MODULE SnapshotStore ----------------------------
(***************************************************************************)
(* What the file operations of fileops.go amount to.  On a UDIF image      *)
(* every operation takes a snapshot of the whole image, works on it alone, *)
(* and ends by putting the whole result back, or by giving up.  There is   *)
(* no lock and no check that the image is still the one the snapshot was   *)
(* taken of: the last one to commit wins.  On a raw image every driver     *)
(* call takes effect in place.                                             *)
(***************************************************************************)
EXTENDS FsTree

CONSTANTS Procs, Torn, NoTree, NoReq

VARIABLES
  inPlace, \* the image is raw; it never changes shape
  store,   \* the contents of the image, or Torn
  base,    \* the snapshot of each open transaction, or NoTree
  want     \* its request, or NoReq

Init ==
  /\ inPlace \in BOOLEAN
  /\ store = [q \in Paths |-> Absent]
  /\ base = [p \in Procs |-> NoTree]
  /\ want = [p \in Procs |-> NoReq]

Begin(p) ==
  /\ ~inPlace
  /\ base[p] = NoTree
  /\ store # Torn
  /\ base' = [base EXCEPT ![p] = store]
  /\ \E rq \in Requests : want' = [want EXCEPT ![p] = rq]
  /\ UNCHANGED <<inPlace, store>>

\* The first n ancestors of the path exist.
WithParents(fs, rq, n) ==
  [q \in Paths |->
     IF fs[q] = Absent /\ \E i \in 1..n : Ancestors[rq.path][i] = q
       THEN Dir ELSE fs[q]]

\* What an operation may leave: nothing new, its full effect, and for WriteFile
\* some or all of the missing parent directories, with or without the file.
Outcome(fs, rq, new) ==
  \E n \in 0..Len(Ancestors[rq.path]) :
    LET made == WithParents(fs, rq, n)
    IN  /\ n = 0 \/ rq.op = "WriteFile"
        /\ \/ new = made
           \/ DriverAccepts(made, rq) /\ new = DriverEffect(made, rq)

End(p) ==
  /\ UNCHANGED inPlace
  /\ base' = [base EXCEPT ![p] = NoTree]
  /\ want' = [want EXCEPT ![p] = NoReq]

Commit(p) ==
  /\ base[p] # NoTree
  /\ store' \in Tree
  /\ Outcome(base[p], want[p], store')
  /\ End(p)

Abort(p) ==
  /\ base[p] # NoTree
  /\ store' \in {store, Torn}
  /\ End(p)

\* One driver call on a raw image.
Direct(p) ==
  /\ inPlace
  /\ \E rq \in Requests :
       /\ DriverAccepts(store, rq)
       /\ store' = DriverEffect(store, rq)
  /\ UNCHANGED <<inPlace, base, want>>

Next == \E p \in Procs : Begin(p) \/ Commit(p) \/ Abort(p) \/ Direct(p)

Spec == Init /\ [][Next]_<<inPlace, store, base, want>>
=============================================================================
