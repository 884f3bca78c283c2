--------------------------- MODULE UpdaterProofs ----------------------------
(***************************************************************************)
(* Proofs about Updater, for any number of processes that update, repair,  *)
(* overlap and die, and whatever fails.                                    *)
(*                                                                         *)
(* The argument.  A step that can throw changes of the user away comes     *)
(* after the one that stashes them, and no change is made while a          *)
(* bootstrap is alive.  A process that ends has dropped the locks it       *)
(* counts and given up its marker: every way out goes through finish, or   *)
(* comes before there is anything to give up.                              *)
(* What is reported, and that nothing is done under a running application, *)
(* rests on one bootstrap at work at a time; the first also on a build     *)
(* that can be undone from every step between its first rename and its     *)
(* end, the second on an application that is not started in between.       *)
(***************************************************************************)
EXTENDS Updater, TLAPS

(* The lock file names a process only while it has a lock to drop.         *)
Holding ==
  \A p \in Process :
    /\ pc[p] \in {"idle", "enter", "take", "done"} => holds[p] = 0
    /\ pc[p] \in {"claim", "read", "write"} => holds[p] \in {0, 1}
    /\ pc[p] = "drop" => holds[p] # 0
    /\ lock = p => holds[p] # 0
    /\ marker = p
         => pc[p] \notin {"idle", "enter", "take", "claim", "drop", "done"}

(* Past the stash there is a commit to return to, and nothing to lose.     *)
Stashing ==
  /\ edits # "lost"
  /\ \A p \in Process :
       /\ pc[p] \in {"resolve", "aside", "apply", "build", "building"}
            => edits # "tree" /\ previous[p] \in Builds
       /\ pc[p] \in {"aside", "apply"} => target[p] \in Builds

(* The inductive invariant.                                                *)
IInv == TypeOK /\ Holding /\ Stashing

TreeOK ==
  /\ head \in Builds
  /\ output \in [Dirs -> Builds \cup {Partial, None}]
  /\ backup \in [Dirs -> Builds \cup {Partial, None}]
  /\ edits \in {"none", "tree", "stash", "lost"}

-----------------------------------------------------------------------------
LEMMA InitInv == Init => IInv
<1> SUFFICES ASSUME Init PROVE IInv
  OBVIOUS
<1>1. 1 \in Builds
  BY UpdaterAssumption DEF Builds
<1>2. TypeOK
  <2>1. holds \in [Process -> 0..2] /\ published \in Builds /\ head \in Builds
    <3>1. holds = [p \in Process |-> 0] /\ published = 1 /\ head = 1
      BY DEF Init
    <3> QED
      BY <1>1, <3>1
  <2> QED
    BY <1>1, <2>1 DEF Init, TypeOK, STAGES
<1> QED
  BY <1>2, UpdaterAssumption DEF Init, IInv, Holding, Stashing

(* Every way out but that of a refused installer.                          *)
LEMMA FinishInv ==
  ASSUME IInv, NEW p \in Process, NEW told \in {"ok", "failed", "restored",
           "aborted", "untouched", "skipped"}, NEW relaunch \in BOOLEAN,
         pc[p] \notin {"idle", "enter", "take", "claim", "done", "drop", "dead"},
         TreeOK', edits' # "lost", edits' = "tree" => edits = "tree",
         Finish(p, told, relaunch)
  PROVE  IInv'
<1> USE DEF IInv
<1>1. /\ UNCHANGED <<lock, kind, awaits, previous, target, saved, holds, published>>
      /\ result' = told /\ outcome' = [outcome EXCEPT ![p] = told]
      /\ marker' = Unmark(p) /\ pc' = [pc EXCEPT ![p] = Leaves(p)]
      /\ desktop' \in {"running", desktop}
  BY DEF Finish, Goto, Relaunched
<1>2. TypeOK'
  <2>1. Leaves(p) \in STAGES
    BY DEF Leaves, STAGES
  <2> QED
    BY <1>1, <2>1 DEF TypeOK, TreeOK, Unmark
<1>3. Holding'
  BY <1>1, UpdaterAssumption DEF TypeOK, Holding, Unmark, Leaves
<1>4. Stashing'
  BY <1>1 DEF TypeOK, Stashing, Leaves
<1> QED
  BY <1>2, <1>3, <1>4

(* What a restore leaves is a tree, also where a backup is stuck.          *)
LEMMA RestoreTree ==
  ASSUME IInv, NEW p \in Process,
         NEW b \in [Dirs -> Builds \cup {Partial, None}], Restore(p, b)
  PROVE  /\ output' \in [Dirs -> Builds \cup {Partial, None}]
         /\ backup' \in [Dirs -> Builds \cup {Partial, None}]
  BY DEF Restore, Without

LEMMA RollbackTree ==
  ASSUME IInv, NEW p \in Process, previous[p] \in Builds, edits # "tree", Rollback(p)
  PROVE  TreeOK' /\ edits' # "lost" /\ (edits' = "tree" => edits = "tree")
<1>1. CASE UNCHANGED tree
  BY <1>1 DEF IInv, TypeOK, TreeOK, Stashing, tree
<1>2. CASE head' = previous[p] /\ edits' = Discarded(edits) /\ Restore(p, backup)
  BY <1>2, RestoreTree DEF IInv, TypeOK, TreeOK, Stashing, Discarded
<1> QED
  BY <1>1, <1>2 DEF Rollback

LEMMA LockInv ==
  ASSUME IInv, NEW p \in Process,
         \/ InstallerReads(p) \/ InstallerTakes(p) \/ InstallerRefused(p)
         \/ WriteMarker(p) \/ UpdateReads(p) \/ UpdateTakes(p) \/ UpdateRefused(p)
         \/ DropLock(p)
  PROVE  IInv'
<1> USE DEF IInv
<1>1. CASE InstallerReads(p) \/ UpdateReads(p)
  <2>1. PICK from \in {"enter", "read"}, to \in {"take", "write"} :
          /\ ReadLock(p, from, to)
          /\ from = "enter" <=> to = "take"
    BY <1>1 DEF InstallerReads, UpdateReads
  <2>2. TypeOK'
    BY <2>1 DEF ReadLock, Goto, TypeOK, STAGES, mine, tree
  <2>3. Holding'
    BY <2>1, UpdaterAssumption DEF ReadLock, Goto, TypeOK, Holding, mine
  <2>4. Stashing'
    BY <2>1 DEF ReadLock, Goto, TypeOK, Stashing, mine, tree
  <2> QED
    BY <2>2, <2>3, <2>4
<1>2. CASE InstallerTakes(p) \/ UpdateTakes(p)
  <2>1. PICK from \in {"take", "write"}, to \in {"claim", "wait"} :
          /\ WriteLock(p, from, to)
          /\ from = "take" => to = "claim"
          /\ from = "write" => to = "wait"
    BY <1>2 DEF InstallerTakes, UpdateTakes
  <2>2. holds[p] \in {0, 1} /\ (from = "take" => holds[p] = 0)
    BY <2>1 DEF WriteLock, Holding, TypeOK
  <2>3. /\ pc' = [pc EXCEPT ![p] = to] /\ lock' = p
        /\ holds' = [holds EXCEPT ![p] = @ + 1] /\ holds' \in [Process -> 0..2]
    <3>1. /\ pc' = [pc EXCEPT ![p] = to] /\ lock' = p
          /\ holds' = [holds EXCEPT ![p] = @ + 1] /\ holds \in [Process -> 0..2]
      BY <2>1 DEF WriteLock, Goto, TypeOK
    <3> QED
      BY <2>2, <3>1
  <2>4. TypeOK'
    BY <2>1, <2>3 DEF WriteLock, TypeOK, STAGES, tree
  <2>5. Holding'
    <3>1. /\ pc[p] = from /\ pc'[p] = to /\ marker' = marker
          /\ \A q \in Process \ {p} : pc'[q] = pc[q] /\ holds'[q] = holds[q]
      BY <2>1, <2>3 DEF WriteLock, TypeOK
    <3>2. holds'[p] # 0 /\ (to = "claim" => holds'[p] \in {0, 1})
      <4>1. holds'[p] = holds[p] + 1
        BY <2>3 DEF TypeOK
      <4>2. CASE from = "take"
        BY <2>2, <4>1, <4>2
      <4>3. CASE from = "write"
        BY <2>1, <2>2, <4>1, <4>3
      <4> QED
        BY <4>2, <4>3
    <3> QED
      BY <2>1, <2>3, <3>1, <3>2 DEF Holding
  <2>6. Stashing'
    BY <2>1, <2>3 DEF WriteLock, TypeOK, Stashing, tree
  <2> QED
    BY <2>4, <2>5, <2>6
<1>3. CASE InstallerRefused(p)
  <2>1. lock # p
    BY <1>3 DEF InstallerRefused, Judge
  <2> QED
    BY <1>3, <2>1 DEF InstallerRefused, Goto, TypeOK, Holding, Stashing, STAGES,
                      mine, files, tree
<1>4. CASE WriteMarker(p)
  BY <1>4 DEF WriteMarker, Goto, TypeOK, Holding, Stashing, STAGES, mine, tree
<1>5. CASE UpdateRefused(p)
  <2>1. TreeOK' /\ edits' # "lost" /\ (edits' = "tree" => edits = "tree")
    BY <1>5 DEF UpdateRefused, TypeOK, TreeOK, Stashing, tree
  <2> QED
    BY <1>5, <2>1, FinishInv DEF UpdateRefused
<1>6. CASE DropLock(p)
  <2>1. holds[p] \in {1, 2}
    <3>1. holds[p] \in 0..2 /\ holds[p] # 0
      BY <1>6 DEF DropLock, Holding, TypeOK
    <3> QED
      BY <3>1
  <2>2. pc'[p] \in {"drop", "done"} /\ \A q \in Process \ {p} : pc'[q] = pc[q]
    BY <1>6 DEF DropLock, Goto, TypeOK
  <2>3. /\ holds' = [holds EXCEPT ![p] = @ - 1] /\ holds' \in [Process -> 0..2]
        /\ pc' \in [Process -> STAGES] /\ lock' = None
        /\ pc'[p] = IF holds[p] = 1 THEN "done" ELSE "drop"
    <3>1. /\ holds' = [holds EXCEPT ![p] = @ - 1] /\ holds \in [Process -> 0..2]
      BY <1>6 DEF DropLock, TypeOK
    <3>2. holds' \in [Process -> 0..2]
      BY <2>1, <3>1
    <3>3. /\ pc' \in [Process -> STAGES] /\ lock' = None
          /\ pc'[p] = IF holds[p] = 1 THEN "done" ELSE "drop"
      BY <1>6 DEF DropLock, Goto, TypeOK, STAGES
    <3> QED
      BY <3>1, <3>2, <3>3
  <2>4. TypeOK'
    BY <1>6, <2>3 DEF DropLock, TypeOK, tree
  <2>6. Holding'
    <3>1. /\ pc[p] = "drop" /\ marker' = marker
          /\ \A q \in Process \ {p} : holds'[q] = holds[q]
      BY <1>6, <2>3 DEF DropLock, TypeOK
    <3>2. /\ pc'[p] = "drop" => holds'[p] # 0
          /\ pc'[p] = "done" => holds'[p] = 0
      <4>1. holds'[p] = holds[p] - 1
        BY <2>3 DEF TypeOK
      <4>2. CASE holds[p] = 1
        BY <2>3, <4>1, <4>2
      <4>3. CASE holds[p] = 2
        BY <2>3, <4>1, <4>3
      <4> QED
        BY <2>1, <4>2, <4>3
    <3>3. lock' \notin Process
      BY <2>3, UpdaterAssumption
    <3> QED
      BY <2>2, <3>1, <3>2, <3>3 DEF Holding
  <2>5. Stashing'
    BY <1>6, <2>2 DEF DropLock, TypeOK, Stashing, tree
  <2> QED
    BY <2>4, <2>5, <2>6
<1> QED
  BY <1>1, <1>2, <1>3, <1>4, <1>5, <1>6

LEMMA PrepareInv ==
  ASSUME IInv, NEW p \in Process,
         \/ Exited(p) \/ NeverExited(p) \/ ClearRoot(p)
         \/ Record(p) \/ CannotStash(p) \/ Unusable(p) \/ UpToDate(p) \/ Newer(p)
  PROVE  IInv'
<1> USE DEF IInv
<1>1. CASE Exited(p)
  BY <1>1 DEF Exited, Goto, TypeOK, Holding, Stashing, STAGES, mine, files, tree
<1>2. CASE NeverExited(p) \/ CannotStash(p) \/ Unusable(p) \/ UpToDate(p)
  <2>1. TreeOK' /\ edits' # "lost" /\ (edits' = "tree" => edits = "tree")
    BY <1>2 DEF NeverExited, CannotStash, Unusable, UpToDate, TypeOK, TreeOK,
                Stashing, tree
  <2> QED
    BY <1>2, <2>1, FinishInv DEF NeverExited, CannotStash, Unusable, UpToDate
<1>3. CASE ClearRoot(p)
  BY <1>3 DEF ClearRoot, Goto, TypeOK, Holding, Stashing, STAGES, files, tree
<1>4. CASE Record(p)
  <2>1. edits' \in {"none", "stash"}
    BY <1>4 DEF Record, Stashed, TypeOK, Stashing
  <2> QED
    BY <1>4, <2>1 DEF Record, Goto, TypeOK, Holding, Stashing, STAGES, files
<1>5. CASE Newer(p)
  BY <1>5 DEF Newer, Goto, TypeOK, Holding, Stashing, STAGES, files, tree
<1> QED
  BY <1>1, <1>2, <1>3, <1>4, <1>5

LEMMA BuildInv ==
  ASSUME IInv, NEW p \in Process,
         \/ MoveAside(p) \/ Snapshot(p) \/ CannotMove(p) \/ Apply(p) \/ CannotApply(p)
         \/ Build(p) \/ Built(p) \/ BuildFails(p) \/ Discard(p) \/ Succeed(p)
  PROVE  IInv'
<1> USE DEF IInv
<1>1. CASE MoveAside(p)
  <2>1. NextDir \in Dirs
    BY DEF NextDir, Dirs
  <2> QED
    BY <1>1, <2>1 DEF MoveAside, TypeOK, Holding, Stashing, files
<1>2. CASE Snapshot(p)
  BY <1>2 DEF Snapshot, Goto, TypeOK, Holding, Stashing, STAGES, mine, files, tree
<1>3. CASE CannotMove(p)
  <2>1. TreeOK' /\ edits' # "lost" /\ (edits' = "tree" => edits = "tree")
    <3>1. PICK b \in {backup, Without(backup, {NextDir})} : Restore(p, b)
      BY <1>3 DEF CannotMove
    <3>2. b \in [Dirs -> Builds \cup {Partial, None}]
      BY DEF TypeOK, Without
    <3> QED
      BY <1>3, <3>1, <3>2, RestoreTree DEF CannotMove, TypeOK, TreeOK, Stashing
  <2> QED
    BY <1>3, <2>1, FinishInv DEF CannotMove
<1>4. CASE Apply(p)
  BY <1>4 DEF Apply, Goto, TypeOK, Holding, Stashing, STAGES, mine, files
<1>5. CASE CannotApply(p) \/ BuildFails(p)
  <2>1. previous[p] \in Builds /\ edits # "tree" /\ Rollback(p)
    BY <1>5 DEF CannotApply, BuildFails, Stashing
  <2> QED
    BY <1>5, <2>1, RollbackTree, FinishInv DEF CannotApply, BuildFails
<1>6. CASE Build(p) \/ Built(p)
  <2>1. PICK to \in {"building", "discard"} :
          /\ pc[p] \in {"build", "building"} /\ pc' = [pc EXCEPT ![p] = to]
          /\ output' \in [Dirs -> Builds \cup {Partial, None}]
          /\ UNCHANGED <<mine, files, head, backup, edits, published, desktop>>
    BY <1>6 DEF Build, Built, Goto, TypeOK
  <2> QED
    BY <2>1 DEF TypeOK, Holding, Stashing, STAGES, mine, files
<1>7. CASE Discard(p)
  BY <1>7 DEF Discard, Without, Goto, TypeOK, Holding, Stashing, STAGES, mine, files
<1>8. CASE Succeed(p)
  <2>1. TreeOK' /\ edits' # "lost" /\ (edits' = "tree" => edits = "tree")
    BY <1>8 DEF Succeed, TypeOK, TreeOK, Stashing, tree
  <2> QED
    BY <1>8, <2>1, FinishInv DEF Succeed
<1> QED
  BY <1>1, <1>2, <1>3, <1>4, <1>5, <1>6, <1>7, <1>8

LEMMA OutsideInv ==
  ASSUME IInv,
         \/ World
         \/ \E p \in Process : StartUpdate(p) \/ RunInstaller(p) \/ Die(p)
  PROVE  IInv'
<1> USE DEF IInv
<1>1. CASE \E p \in Process : StartUpdate(p) \/ RunInstaller(p) \/ Die(p)
  <2>1. PICK p \in Process : StartUpdate(p) \/ RunInstaller(p) \/ Die(p)
    BY <1>1
  <2>2. CASE StartUpdate(p)
    BY <2>2, UpdaterAssumption DEF StartUpdate, Goto, TypeOK, Holding, Stashing,
                                   STAGES, tree
  <2>3. CASE RunInstaller(p)
    BY <2>3 DEF RunInstaller, Goto, TypeOK, Holding, Stashing, STAGES, files, tree
  <2>4. CASE Die(p)
    BY <2>4 DEF Die, Alive, Goto, TypeOK, Holding, Stashing, STAGES, mine, files,
                tree
  <2> QED
    BY <2>1, <2>2, <2>3, <2>4
<1>2. CASE AskStatus \/ Consume \/ Quit \/ Open
  <2>1. /\ UNCHANGED <<pc, kind, previous, target, saved, outcome, holds, lock,
                       tree, published>>
        /\ marker' \in {marker, None} /\ result' \in {result, None}
        /\ awaits' \in {awaits, {}} /\ desktop' \in {"running", "gone", desktop}
    BY <1>2 DEF AskStatus, Consume, Quit, Open, mine, files
  <2> QED
    <3>1. TypeOK'
      BY <2>1 DEF TypeOK, tree
    <3>2. Holding' /\ Stashing'
      BY <2>1, UpdaterAssumption DEF Holding, Stashing, tree
    <3> QED
      BY <3>1, <3>2
<1>3. CASE Edit
  <2>1. \A p \in Process : pc[p] \in {"idle", "done", "dead"}
    BY <1>3 DEF Edit, Alive
  <2>2. /\ edits' = "tree"
        /\ UNCHANGED <<pc, mine, files, head, output, backup, published, desktop>>
    BY <1>3 DEF Edit
  <2> QED
    BY <2>1, <2>2 DEF TypeOK, Holding, Stashing, mine, files
<1>4. CASE Publish
  <2>1. published' \in Builds
    <3>1. published \in 1..Releases /\ published < Releases
          /\ published' = published + 1 /\ Releases \in Nat
      BY <1>4, UpdaterAssumption DEF Publish, TypeOK, Builds
    <3> QED
      BY <3>1 DEF Builds
  <2> QED
    BY <1>4, <2>1 DEF Publish, TypeOK, Holding, Stashing, mine, files, tree
<1> QED
  BY <1>1, <1>2, <1>3, <1>4 DEF World

LEMMA NextInv == IInv /\ [Next]_vars => IInv'
<1> SUFFICES ASSUME IInv, [Next]_vars PROVE IInv'
  OBVIOUS
<1>1. CASE UNCHANGED vars
  BY <1>1 DEF vars, mine, files, tree, IInv, TypeOK, Holding, Stashing
<1> QED
  BY <1>1, LockInv, PrepareInv, BuildInv, OutsideInv DEF Next, Step

(* Every variable of the model keeps to its type.                          *)
THEOREM Typed == Spec => []TypeOK
<1>1. IInv => TypeOK
  BY DEF IInv
<1> QED
  BY InitInv, NextInv, <1>1, PTL DEF Spec

(* What the user changed in the checkout is never thrown away, whatever    *)
(* overlaps, fails or dies.                                                *)
THEOREM EditsAreKept == Spec => []EditsKept
<1>1. IInv => EditsKept
  BY DEF IInv, Stashing, EditsKept
<1> QED
  BY InitInv, NextInv, <1>1, PTL DEF Spec

(* A process that ended has left neither its lock nor its marker.          *)
THEOREM AllReleased == Spec => []Released
<1>1. IInv => Released
  BY DEF IInv, Holding, Released
<1> QED
  BY InitInv, NextInv, <1>1, PTL DEF Spec

-----------------------------------------------------------------------------
(* Two bootstraps at most, and none between another's reading and writing  *)
(* of the lock; where Faults = {}, none killed in the middle of its build  *)
(* either, and a reset that works.  A third could start while the second   *)
(* works: a repair drops two Lock values, and the second drop removes      *)
(* whatever lock is there.                                                 *)

TwoRuns == \A p, q, r \in Process : p = q \/ q = r \/ p = r

Inside == {"wait", "clear", "inspect", "resolve", "aside", "apply", "build",
           "building", "discard", "finish"}

(* Whose lock it is, and who is about to make it his.                      *)
Owns(p) ==
  \/ pc[p] \in Inside
  \/ pc[p] \in {"claim", "read"} /\ holds[p] # 0
  \/ pc[p] = "drop" /\ holds[p] = 2

Writes(p) == pc[p] \in {"take", "write"}

Exclusive ==
  /\ \A p \in Process :
       Owns(p) => lock = p \/ \A q \in Process \ {p} : pc[q] = "done"
  /\ \A p, q \in Process : Writes(p) /\ (Writes(q) \/ Owns(q)) => p = q

(* The steps between the first rename and the end of the build.            *)
Moving == {"aside", "apply", "build", "building"}

AtRest == (\A p \in Process : pc[p] \notin Moving) => Whole
Gone == output["dist"] \notin Builds => desktop = "gone"

(* What it takes to undo the update of p from where it stands.             *)
Undoable(p) ==
  /\ pc[p] \in {"idle", "enter", "take", "claim", "read", "write", "wait",
                "clear", "inspect", "resolve"} => saved[p] = {}
  /\ pc[p] \in {"resolve", "aside"} => previous[p] = head
  /\ pc[p] \in Moving => \A d \in saved[p] : backup[d] = previous[p]
  /\ pc[p] = "aside"
       => \A d \in Dirs : output[d] = IF d \in saved[p] THEN None ELSE head
  /\ pc[p] \in {"apply", "build", "building"}
       => saved[p] = Dirs /\ output["dist"] \notin Builds

Sound == AtRest /\ Gone /\ \A p \in Process : Undoable(p)

LEMMA Alone ==
  ASSUME Exclusive, NEW p \in Process, NEW q \in Process, Owns(p), Owns(q)
  PROVE  p = q
  BY DEF Exclusive, Owns, Inside

(* A step that leaves the lock alone and makes nobody its owner.           *)
LEMMA ExclusiveFrame ==
  ASSUME TypeOK, Exclusive, NEW p \in Process, NEW s \in STAGES,
         UNCHANGED <<lock, holds>>, pc' = [pc EXCEPT ![p] = s],
         pc[p] # "done", Owns(p)' => Owns(p), s \notin {"take", "write"}
  PROVE  Exclusive'
<1>1. pc'[p] = s /\ \A q \in Process \ {p} : pc'[q] = pc[q]
  BY DEF TypeOK
<1>2. \A q \in Process \ {p} : Owns(q)' <=> Owns(q)
  BY <1>1 DEF Owns
<1>3. \A q \in Process : Owns(q)' => Owns(q)
  BY <1>2
<1>4. \A q \in Process : Writes(q)' => q # p /\ Writes(q)
  BY <1>1 DEF Writes
<1>5. \A q, r \in Process :
        Writes(q)' /\ (Writes(r)' \/ Owns(r)') => q = r
  BY <1>3, <1>4 DEF Exclusive
<1>6. \A q \in Process :
        Owns(q)' => lock' = q \/ \A r \in Process \ {q} : pc'[r] = "done"
  BY <1>1, <1>3 DEF Exclusive
<1> QED
  BY <1>5, <1>6 DEF Exclusive

LEMMA ReadExclusive ==
  ASSUME "overlap" \notin Faults, TwoRuns, IInv, Exclusive, NEW p \in Process,
         NEW from \in {"enter", "read"}, NEW to \in {"take", "write"},
         ReadLock(p, from, to)
  PROVE  Exclusive'
<1>1. /\ pc[p] = from /\ lock' = None /\ holds' = holds
      /\ pc'[p] = to /\ \A q \in Process \ {p} : pc'[q] = pc[q]
      /\ lock = p \/ ~ Alive(lock)
      /\ \A q \in Process \ {p} : ~ Writes(q)
  BY DEF ReadLock, Goto, Judge, OneAtOnce, Writes, mine, IInv, TypeOK
<1>2. \A q \in Process \ {p} : ~ Owns(q)
  <2> SUFFICES ASSUME NEW q \in Process \ {p}, Owns(q) PROVE FALSE
    OBVIOUS
  <2>1. Alive(q)
    BY DEF Owns, Inside, Alive
  <2>2. lock = q
    BY <1>1 DEF Exclusive
  <2> QED
    BY <1>1, <2>1, <2>2
<1>3. \A q \in Process : ~ Owns(q)'
  BY <1>1, <1>2 DEF Owns, Inside
<1>4. \A q \in Process : Writes(q)' => q = p
  BY <1>1 DEF Writes
<1> QED
  BY <1>3, <1>4 DEF Exclusive

LEMMA WriteExclusive ==
  ASSUME IInv, Exclusive, NEW p \in Process,
         NEW from \in {"take", "write"}, NEW to \in {"claim", "wait"},
         WriteLock(p, from, to)
  PROVE  Exclusive'
<1>1. /\ Writes(p) /\ lock' = p /\ pc'[p] = to
      /\ \A q \in Process \ {p} : pc'[q] = pc[q] /\ holds'[q] = holds[q]
  BY DEF WriteLock, Goto, Writes, IInv, TypeOK
<1>2. \A q \in Process \ {p} : ~ Owns(q)' /\ ~ Writes(q)'
  BY <1>1 DEF Owns, Writes, Exclusive
<1>3. ~ Writes(p)'
  BY <1>1 DEF Writes
<1> QED
  BY <1>1, <1>2, <1>3 DEF Exclusive

LEMMA DropExclusive ==
  ASSUME TwoRuns, IInv, Exclusive, NEW p \in Process, DropLock(p)
  PROVE  Exclusive'
<1>1. /\ pc[p] = "drop" /\ pc'[p] = (IF holds[p] = 1 THEN "done" ELSE "drop")
      /\ \A q \in Process \ {p} : pc'[q] = pc[q] /\ holds'[q] = holds[q]
      /\ holds'[p] = holds[p] - 1 /\ holds[p] \in {1, 2}
  <2>1. holds[p] \in 0..2 /\ holds[p] # 0 /\ pc[p] = "drop"
    BY DEF DropLock, IInv, TypeOK, Holding
  <2>2. holds[p] \in {1, 2}
    BY <2>1
  <2> QED
    BY <2>1, <2>2 DEF DropLock, Goto, IInv, TypeOK
<1>2. ~ Owns(p)' /\ ~ Writes(p)'
  BY <1>1 DEF Owns, Writes, Inside
<1>3. ASSUME NEW q \in Process \ {p}, Owns(q)'
      PROVE  \A r \in Process \ {q} : pc'[r] = "done"
  <2>1. Owns(q)
    BY <1>1, <1>3 DEF Owns
  <2>2. holds[p] = 1
    BY <1>1, <1>3, <2>1, Alone DEF Owns
  <2>3. \A r \in Process \ {q} : r = p
    BY <1>3 DEF TwoRuns
  <2> QED
    BY <1>1, <2>2, <2>3
<1>4. \A q, r \in Process : Writes(q)' /\ (Writes(r)' \/ Owns(r)') => q = r
  BY <1>1, <1>2 DEF Writes, Owns, Exclusive
<1> QED
  BY <1>2, <1>3, <1>4 DEF Exclusive

LEMMA FinishExclusive ==
  ASSUME IInv, Exclusive, NEW p \in Process, NEW told, NEW relaunch,
         pc[p] \in Inside \cup {"read"}, Finish(p, told, relaunch)
  PROVE  Exclusive'
<1>1. /\ UNCHANGED <<lock, holds>> /\ pc' = [pc EXCEPT ![p] = Leaves(p)]
      /\ Leaves(p) \in {"done", "drop"}
  BY DEF Finish, Goto, Leaves
<1>2. pc[p] # "done" /\ Leaves(p) \in STAGES
  BY <1>1 DEF Inside, STAGES
<1>3. Owns(p)' => Owns(p)
  <2>1. pc'[p] = Leaves(p) /\ holds'[p] = holds[p]
    BY <1>1 DEF IInv, TypeOK
  <2>2. Owns(p)' => holds[p] = 2
    BY <1>1, <2>1 DEF Owns, Inside
  <2>3. holds[p] = 2 => holds[p] # 0
    OBVIOUS
  <2> QED
    BY <2>2, <2>3 DEF Owns
<1> QED
  BY <1>1, <1>2, <1>3, ExclusiveFrame DEF IInv

LEMMA StepExclusive ==
  ASSUME "overlap" \notin Faults, TwoRuns, IInv, Exclusive, NEW p \in Process,
         StartUpdate(p) \/ RunInstaller(p) \/ Step(p) \/ Die(p)
  PROVE  Exclusive'
<1> USE DEF IInv
<1>1. CASE InstallerReads(p) \/ UpdateReads(p)
  BY <1>1, ReadExclusive DEF InstallerReads, UpdateReads
<1>2. CASE InstallerTakes(p) \/ UpdateTakes(p)
  BY <1>2, WriteExclusive DEF InstallerTakes, UpdateTakes
<1>3. CASE DropLock(p)
  BY <1>3, DropExclusive
<1>4. CASE \/ UpdateRefused(p) \/ NeverExited(p) \/ CannotStash(p) \/ Unusable(p)
           \/ UpToDate(p) \/ CannotMove(p) \/ CannotApply(p) \/ BuildFails(p)
           \/ Succeed(p)
  <2>1. pc[p] \in Inside \cup {"read"}
    BY <1>4 DEF UpdateRefused, NeverExited, CannotStash, Unusable, UpToDate,
                CannotMove, CannotApply, BuildFails, Succeed, Inside
  <2> QED
    BY <1>4, <2>1, FinishExclusive
       DEF UpdateRefused, NeverExited, CannotStash, Unusable, UpToDate, CannotMove,
           CannotApply, BuildFails, Succeed
<1>5. CASE \/ Exited(p) \/ ClearRoot(p) \/ Record(p) \/ Newer(p) \/ Snapshot(p)
           \/ Apply(p) \/ Build(p) \/ Built(p) \/ Discard(p)
  <2>1. PICK s \in Inside : pc' = [pc EXCEPT ![p] = s] /\ UNCHANGED <<lock, holds>>
    BY <1>5 DEF Exited, ClearRoot, Record, Newer, Snapshot, Apply, Build, Built,
                Discard, Goto, Inside, mine, files
  <2>2. Owns(p) /\ pc[p] # "done"
    BY <1>5 DEF Exited, ClearRoot, Record, Newer, Snapshot, Apply, Build, Built,
                Discard, Owns, Inside
  <2>3. s \in STAGES /\ s \notin {"take", "write"}
    BY DEF Inside, STAGES
  <2> QED
    BY <2>1, <2>2, <2>3, ExclusiveFrame
<1>6. CASE MoveAside(p)
  BY <1>6 DEF MoveAside, files, Exclusive, Owns, Writes
<1>7. CASE WriteMarker(p)
  <2>1. /\ UNCHANGED <<lock, holds>> /\ pc[p] = "claim"
        /\ pc' = [pc EXCEPT ![p] = "read"]
    BY <1>7 DEF WriteMarker, Goto, mine
  <2>2. Owns(p)' => Owns(p)
    BY <2>1 DEF Owns, Inside, TypeOK
  <2> QED
    BY <2>1, <2>2, ExclusiveFrame DEF STAGES
<1>8. CASE StartUpdate(p) \/ RunInstaller(p) \/ InstallerRefused(p) \/ Die(p)
  <2>1. PICK s \in {"claim", "enter", "done", "dead"} :
          /\ UNCHANGED <<lock, holds>> /\ pc' = [pc EXCEPT ![p] = s]
          /\ s = "claim" => holds[p] = 0
    BY <1>8 DEF StartUpdate, RunInstaller, InstallerRefused, Die, Goto, mine, files,
                Holding
  <2>2. pc[p] # "done"
    BY <1>8 DEF StartUpdate, RunInstaller, InstallerRefused, Die, Alive
  <2>3. ~ Owns(p)'
    BY <2>1 DEF Owns, Inside, TypeOK
  <2> QED
    BY <2>1, <2>2, <2>3, ExclusiveFrame DEF STAGES
<1> QED
  BY <1>1, <1>2, <1>3, <1>4, <1>5, <1>6, <1>7, <1>8 DEF Step

LEMMA NextExclusive ==
  ASSUME "overlap" \notin Faults, TwoRuns, IInv, Exclusive, [Next]_vars
  PROVE  Exclusive'
<1>1. CASE World \/ UNCHANGED vars
  <2>1. UNCHANGED <<pc, lock, holds>>
    BY <1>1 DEF World, AskStatus, Consume, Quit, Open, Edit, Publish, vars, mine,
                files
  <2> QED
    BY <2>1 DEF Exclusive, Owns, Writes
<1> QED
  BY <1>1, StepExclusive DEF Next

-----------------------------------------------------------------------------
Early == {"idle", "enter", "take", "claim", "read", "write", "wait", "clear",
          "inspect", "resolve"}

(* A step outside the build that leaves the tree alone.                    *)
LEMMA SoundFrame ==
  ASSUME TypeOK, Sound, NEW p \in Process, NEW s,
         pc' = [pc EXCEPT ![p] = s],
         UNCHANGED <<previous, saved, head, output, backup>>,
         pc[p] \notin Moving, s \notin Moving \cup {"resolve"},
         s \in Early => pc[p] \in Early,
         desktop' = "gone" \/ desktop' = desktop \/ output["dist"] \in Builds
  PROVE  Sound'
<1>1. pc'[p] = s /\ \A q \in Process \ {p} : pc'[q] = pc[q]
  BY DEF TypeOK
<1>2. Whole' <=> Whole
  BY DEF Whole
<1>3. AtRest' /\ Gone'
  BY <1>1, <1>2 DEF Sound, AtRest, Gone
<1>4. \A q \in Process \ {p} : Undoable(q)'
  BY <1>1 DEF Sound, Undoable
<1>5. Undoable(p)'
  BY <1>1 DEF Sound, Undoable, Early, Moving
<1> QED
  BY <1>3, <1>4, <1>5 DEF Sound

LEMMA Others ==
  ASSUME Exclusive, NEW p \in Process, pc[p] \in Inside
  PROVE  \A q \in Process \ {p} : pc[q] \notin Inside
  BY Alone DEF Owns

(* A step of the only process inside, after which the build is whole.      *)
LEMMA SoundWhole ==
  ASSUME TypeOK, Exclusive, Sound, NEW p \in Process, NEW s,
         pc[p] \in Inside, pc' = [pc EXCEPT ![p] = s], Whole', head' \in Builds,
         UNCHANGED <<previous, saved>>, s \notin Early \cup Moving
  PROVE  Sound'
<1>1. pc'[p] = s /\ \A q \in Process \ {p} : pc'[q] = pc[q] /\ pc'[q] \notin Inside
  BY Others DEF TypeOK
<1>2. AtRest' /\ Gone'
  BY DEF AtRest, Gone, Whole, Dirs
<1>3. \A q \in Process \ {p} : Undoable(q)'
  BY <1>1 DEF Sound, Undoable, Inside, Moving
<1>4. Undoable(p)'
  BY <1>1 DEF Undoable, Early, Moving
<1> QED
  BY <1>2, <1>3, <1>4 DEF Sound

(* A step of the only process inside, after which it is in its build.      *)
LEMMA SoundMoving ==
  ASSUME TypeOK, Exclusive, Sound, NEW p \in Process, NEW s \in Moving,
         pc[p] \in Inside, pc' = [pc EXCEPT ![p] = s],
         \A q \in Process \ {p} : saved'[q] = saved[q],
         Undoable(p)', output'["dist"] \in Builds \/ desktop' = "gone"
  PROVE  Sound'
<1>1. pc'[p] = s /\ \A q \in Process \ {p} : pc'[q] = pc[q] /\ pc'[q] \notin Inside
  BY Others DEF TypeOK
<1>2. AtRest' /\ Gone'
  BY <1>1 DEF AtRest, Gone
<1>3. \A q \in Process \ {p} : Undoable(q)'
  BY <1>1 DEF Sound, Undoable, Inside, Moving
<1> QED
  BY <1>2, <1>3 DEF Sound

LEMMA WholeInside ==
  ASSUME Exclusive, Sound, NEW p \in Process, pc[p] \in Inside \ Moving
  PROVE  Whole
<1>1. \A q \in Process : pc[q] \notin Moving
  BY Others DEF Inside, Moving
<1> QED
  BY <1>1 DEF Sound, AtRest

(* Where no file is held fast, every backup is put back.                   *)
LEMMA RestoreAll ==
  ASSUME Faults = {}, NEW p, NEW b, Restore(p, b)
  PROVE  \A d \in Dirs : output'[d] = IF d \in saved[p] THEN backup[d] ELSE output[d]
  BY DEF Restore, Stuck

(* A rollback returns to the commit and the build the update started from. *)
LEMMA RollbackWhole ==
  ASSUME Faults = {}, IInv, Sound, NEW p \in Process,
         pc[p] \in {"apply", "build", "building"}, Rollback(p)
  PROVE  Whole' /\ head' = previous[p] /\ head' \in Builds
<1>1. /\ head' = previous[p] /\ Restore(p, backup)
      /\ previous[p] \in Builds
  BY DEF Rollback, IInv, Stashing
<1>2. saved[p] = Dirs /\ \A d \in Dirs : backup[d] = previous[p]
  BY DEF Sound, Undoable, Moving
<1> QED
  BY <1>1, <1>2, RestoreAll DEF Whole

LEMMA RestoredWhole ==
  ASSUME Faults = {}, IInv, Sound, NEW p \in Process, CannotMove(p)
  PROVE  Whole' /\ head' = head
<1>1. /\ pc[p] = "aside" /\ Restore(p, Without(backup, {NextDir}))
      /\ head' = head /\ previous[p] = head
  BY DEF CannotMove, Sound, Undoable
<1>2. \A d \in Dirs : IF d \in saved[p] THEN backup[d] = head ELSE output[d] = head
  BY <1>1 DEF Sound, Undoable, Moving
<1> QED
  BY <1>1, <1>2, RestoreAll DEF Whole

(* The steps after which there is a whole build, told or not.              *)
Completes(p) ==
  \/ NeverExited(p) \/ CannotStash(p) \/ Unusable(p) \/ UpToDate(p)
  \/ CannotMove(p) \/ CannotApply(p) \/ BuildFails(p) \/ Succeed(p)
  \/ Built(p) \/ Discard(p)

LEMMA CompletesWhole ==
  ASSUME Faults = {}, IInv, Exclusive, Sound, NEW p \in Process, Completes(p)
  PROVE  Whole' /\ pc[p] \in Inside /\ head' \in Builds
<1> USE DEF IInv
<1>1. CASE \/ NeverExited(p) \/ CannotStash(p) \/ Unusable(p) \/ UpToDate(p)
           \/ Succeed(p) \/ Discard(p)
  <2>1. pc[p] \in Inside \ Moving /\ UNCHANGED <<head, output>>
    BY <1>1 DEF NeverExited, CannotStash, Unusable, UpToDate, Succeed, Discard, tree,
                Inside, Moving
  <2>2. Whole'
    BY <2>1, WholeInside DEF Whole
  <2> QED
    BY <2>1, <2>2 DEF TypeOK
<1>2. CASE CannotMove(p)
  BY <1>2, RestoredWhole DEF CannotMove, TypeOK, Inside
<1>3. CASE CannotApply(p) \/ BuildFails(p)
  <2>1. pc[p] \in {"apply", "build", "building"} /\ Rollback(p)
    BY <1>3 DEF CannotApply, BuildFails
  <2> QED
    BY <2>1, RollbackWhole DEF Inside
<1>4. CASE Built(p)
  BY <1>4 DEF Built, Whole, TypeOK, Inside
<1> QED
  BY <1>1, <1>2, <1>3, <1>4 DEF Completes

LEMMA CompletesSound ==
  ASSUME Faults = {}, IInv, Exclusive, Sound, NEW p \in Process, Completes(p)
  PROVE  Sound'
<1>1. PICK s \in {"done", "drop", "discard", "finish"} :
        pc' = [pc EXCEPT ![p] = s] /\ UNCHANGED <<previous, saved>>
  BY DEF Completes, NeverExited, CannotStash, Unusable, UpToDate, CannotMove,
         CannotApply, BuildFails, Succeed, Built, Discard, Finish, Leaves, Goto, mine
<1> QED
  BY <1>1, CompletesWhole, SoundWhole DEF IInv, Early, Moving

LEMMA BuildSound ==
  ASSUME IInv, Exclusive, Sound, NEW p \in Process,
         Newer(p) \/ MoveAside(p) \/ Snapshot(p) \/ Apply(p) \/ Build(p)
  PROVE  Sound'
<1> USE DEF IInv
<1>1. CASE Newer(p)
  <2>1. /\ pc[p] = "resolve" /\ pc' = [pc EXCEPT ![p] = "aside"]
        /\ UNCHANGED <<saved, previous, head, output, backup, desktop>>
    BY <1>1 DEF Newer, Goto, tree
  <2>2. Whole /\ saved[p] = {} /\ previous[p] = head
    BY <2>1, WholeInside DEF Inside, Moving, Sound, Undoable
  <2>3. Undoable(p)'
    BY <2>1, <2>2 DEF Undoable, Whole, TypeOK
  <2>4. output'["dist"] \in Builds
    BY <2>1, <2>2 DEF Whole, Dirs, TypeOK
  <2> QED
    BY <2>1, <2>3, <2>4, SoundMoving DEF Inside, Moving
<1>2. CASE MoveAside(p)
  <2> DEFINE d == NextDir
  <2>1. /\ pc[p] = "aside" /\ pc' = pc /\ head' = head /\ previous' = previous
        /\ output' = [output EXCEPT ![d] = None]
        /\ backup' = [backup EXCEPT ![d] = output[d]]
        /\ saved' = [saved EXCEPT ![p] = @ \cup {d}]
        /\ desktop' = desktop /\ (d = "dist" => desktop = "gone")
    BY <1>2 DEF MoveAside, Movable
  <2>2. d \in Dirs /\ output[d] # None
    BY <1>2 DEF MoveAside, AllAside, NextDir, Dirs
  <2>3. /\ d \notin saved[p] /\ output[d] = head /\ previous[p] = head
        /\ \A e \in saved[p] : backup[e] = previous[p]
        /\ \A e \in Dirs : output[e] = IF e \in saved[p] THEN None ELSE head
    BY <2>1, <2>2 DEF Sound, Undoable, Moving
  <2>4. /\ saved'[p] = saved[p] \cup {d}
        /\ \A e \in Dirs : output'[e] = IF e = d THEN None ELSE output[e]
        /\ \A e \in Dirs : backup'[e] = IF e = d THEN output[d] ELSE backup[e]
    BY <2>1, <2>2 DEF TypeOK
  <2>5. Undoable(p)'
    <3>1. \A e \in saved'[p] : backup'[e] = previous'[p]
      BY <2>1, <2>2, <2>3, <2>4 DEF TypeOK
    <3>2. \A e \in Dirs : output'[e] = IF e \in saved'[p] THEN None ELSE head'
      BY <2>1, <2>3, <2>4
    <3> HIDE DEF d
    <3> QED
      BY <2>1, <2>3, <3>1, <3>2 DEF Undoable
  <2>6. output'["dist"] \in Builds \/ desktop' = "gone"
    BY <2>1, <2>2, <2>4 DEF Sound, Gone, Dirs
  <2>7. pc' = [pc EXCEPT ![p] = "aside"] /\ \A q \in Process \ {p} : saved'[q] = saved[q]
    BY <2>1 DEF TypeOK
  <2> QED
    BY <2>1, <2>5, <2>6, <2>7, SoundMoving DEF Inside, Moving
<1>3. CASE Snapshot(p)
  <2>1. /\ pc[p] = "aside" /\ pc' = [pc EXCEPT ![p] = "apply"]
        /\ UNCHANGED <<saved, previous, head, output, backup, desktop>>
        /\ \A d \in Dirs : output[d] = None
    BY <1>3 DEF Snapshot, Goto, AllAside, mine, tree
  <2>2. /\ \A d \in Dirs : output[d] = IF d \in saved[p] THEN None ELSE head
        /\ \A d \in saved[p] : backup[d] = previous[p]
        /\ saved[p] \subseteq Dirs /\ head \in Builds
    BY <2>1 DEF Sound, Undoable, Moving, TypeOK
  <2>3. None \notin Builds
    BY UpdaterAssumption DEF Builds
  <2>4. saved[p] = Dirs
    BY <2>1, <2>2, <2>3
  <2>5. "dist" \in Dirs
    BY DEF Dirs
  <2>6. output["dist"] \notin Builds /\ desktop = "gone"
    BY <2>1, <2>3, <2>5 DEF Sound, Gone
  <2>7. pc'[p] = "apply"
    BY <2>1 DEF TypeOK
  <2>8. Undoable(p)'
    BY <2>1, <2>2, <2>4, <2>6, <2>7 DEF Undoable
  <2> QED
    BY <2>1, <2>6, <2>8, SoundMoving DEF Inside, Moving
<1>4. CASE Apply(p) \/ Build(p)
  <2>1. PICK s \in {"build", "building"} :
          /\ pc[p] \in {"apply", "build"} /\ pc' = [pc EXCEPT ![p] = s]
          /\ UNCHANGED <<saved, previous, backup, desktop>>
          /\ output' = output \/ output' = [d \in Dirs |-> Partial]
    BY <1>4 DEF Apply, Build, Goto, mine
  <2>2. /\ saved[p] = Dirs /\ output["dist"] \notin Builds /\ desktop = "gone"
        /\ \A d \in saved[p] : backup[d] = previous[p]
    BY <2>1 DEF Sound, Undoable, Gone, Moving
  <2>3. output'["dist"] \notin Builds
    BY <2>1, <2>2 DEF Dirs, Partial, Builds
  <2>4. pc'[p] = s
    BY <2>1 DEF TypeOK
  <2>5. Undoable(p)'
    BY <2>1, <2>2, <2>3, <2>4 DEF Undoable
  <2> QED
    BY <2>1, <2>2, <2>5, SoundMoving DEF Inside, Moving
<1> QED
  BY <1>1, <1>2, <1>3, <1>4

LEMMA RecordSound ==
  ASSUME IInv, Exclusive, Sound, NEW p \in Process, Record(p)
  PROVE  Sound'
<1>1. /\ pc[p] = "inspect" /\ pc' = [pc EXCEPT ![p] = "resolve"]
      /\ previous' = [previous EXCEPT ![p] = head]
      /\ UNCHANGED <<saved, head, output, desktop>>
  BY DEF Record, Goto
<1>2. /\ pc'[p] = "resolve" /\ previous'[p] = head'
      /\ \A q \in Process \ {p} : pc'[q] = pc[q] /\ pc'[q] \notin Inside
  BY <1>1, Others DEF IInv, TypeOK, Inside
<1>3. AtRest' /\ Gone'
  BY <1>1, WholeInside DEF AtRest, Gone, Whole, Sound, Inside, Moving
<1>4. \A q \in Process \ {p} : Undoable(q)'
  BY <1>1, <1>2 DEF Sound, Undoable, Inside, Moving
<1>5. Undoable(p)'
  BY <1>1, <1>2 DEF Sound, Undoable, Moving
<1> QED
  BY <1>3, <1>4, <1>5 DEF Sound

(* The steps before the build, and those that tell nothing.                *)
LEMMA OutsideSound ==
  ASSUME Faults = {}, IInv, Sound, NEW p \in Process,
         \/ StartUpdate(p) \/ RunInstaller(p) \/ Die(p) \/ DropLock(p)
         \/ InstallerReads(p) \/ InstallerTakes(p) \/ InstallerRefused(p)
         \/ WriteMarker(p) \/ UpdateReads(p) \/ UpdateTakes(p) \/ UpdateRefused(p)
         \/ Exited(p) \/ ClearRoot(p)
  PROVE  Sound'
<1> USE DEF IInv
<1>1. CASE \/ StartUpdate(p) \/ RunInstaller(p) \/ InstallerReads(p)
           \/ InstallerTakes(p) \/ WriteMarker(p) \/ UpdateReads(p)
           \/ UpdateTakes(p) \/ Exited(p) \/ ClearRoot(p)
  <2>1. PICK s \in {"claim", "enter", "take", "read", "write", "wait", "clear",
                    "inspect"} :
          /\ pc' = [pc EXCEPT ![p] = s] /\ pc[p] \in Early
          /\ UNCHANGED <<previous, saved, head, output, backup>>
    BY <1>1 DEF StartUpdate, RunInstaller, InstallerReads, InstallerTakes,
                WriteMarker, UpdateReads, UpdateTakes, Exited, ClearRoot, ReadLock,
                WriteLock, Goto, Early, mine, tree
  <2>2. output["dist"] \in Builds \/ desktop' \in {"gone", desktop}
    BY <1>1 DEF StartUpdate, RunInstaller, InstallerReads, InstallerTakes,
                WriteMarker, UpdateReads, UpdateTakes, Exited, ClearRoot, ReadLock,
                WriteLock, Sound, Gone
  <2>3. pc[p] \notin Moving /\ s \notin Moving \cup {"resolve"}
    BY <2>1 DEF Early, Moving
  <2> QED
    BY <2>1, <2>2, <2>3, SoundFrame
<1>2. CASE InstallerRefused(p) \/ UpdateRefused(p) \/ Die(p)
  <2>1. PICK s \in {"done", "drop", "dead"} :
          /\ pc' = [pc EXCEPT ![p] = s]
          /\ UNCHANGED <<previous, saved, head, output, backup>>
    BY <1>2 DEF InstallerRefused, UpdateRefused, Die, Finish, Leaves, Goto, mine,
                tree
  <2>2. pc[p] \notin Moving /\ s \notin Moving \cup Early \cup {"resolve"}
    BY <1>2, <2>1 DEF InstallerRefused, UpdateRefused, Die, Midway, Early, Moving
  <2>3. desktop' = desktop
    BY <1>2 DEF InstallerRefused, UpdateRefused, Die, Finish, Relaunched
  <2> QED
    BY <2>1, <2>2, <2>3, SoundFrame
<1>3. CASE DropLock(p)
  <2>1. PICK s \in {"done", "drop"} :
          /\ pc' = [pc EXCEPT ![p] = s] /\ pc[p] = "drop"
          /\ UNCHANGED <<previous, saved, head, output, backup, desktop>>
    BY <1>3 DEF DropLock, Goto, TypeOK, tree
  <2> QED
    BY <2>1, SoundFrame DEF Moving, Early
<1> QED
  BY <1>1, <1>2, <1>3

LEMMA WorldSound ==
  ASSUME Sound, World \/ UNCHANGED vars
  PROVE  Sound'
<1>1. /\ UNCHANGED <<pc, previous, saved, head, output>>
      /\ desktop' \in {"gone", desktop} \/ output["dist"] \in Builds
  BY DEF World, AskStatus, Consume, Quit, Open, Edit, Publish, vars, mine, files, tree
<1>2. backup' = backup
  BY DEF World, AskStatus, Consume, Quit, Open, Edit, Publish, vars, mine, files, tree
<1> QED
  BY <1>1, <1>2 DEF Sound, AtRest, Gone, Undoable, Whole

LEMMA NextSound ==
  ASSUME Faults = {}, IInv, Exclusive, Sound, [Next]_vars
  PROVE  Sound'
<1> QED
  BY WorldSound, OutsideSound, RecordSound, BuildSound, CompletesSound
     DEF Next, Step, Completes

LEMMA InitSound == Init => Exclusive /\ Sound
<1> SUFFICES ASSUME Init PROVE Exclusive /\ Sound
  OBVIOUS
<1>1. \A p \in Process : pc[p] = "idle" /\ saved[p] = {}
  BY DEF Init
<1>2. head = 1 /\ \A d \in Dirs : output[d] = head
  BY DEF Init
<1>3. head \in Builds
  BY <1>2, UpdaterAssumption DEF Builds
<1>4. Exclusive
  BY <1>1 DEF Exclusive, Owns, Writes, Inside
<1>5. Sound
  BY <1>1, <1>2, <1>3 DEF Sound, AtRest, Gone, Undoable, Whole, Dirs, Moving
<1> QED
  BY <1>4, <1>5

(* One bootstrap works at a time, and what it has begun can be undone from *)
(* where it stands: the lock (singleton.rs) and the snapshot (update.rs).  *)
THEOREM Orderly ==
  ASSUME Faults = {}, TwoRuns
  PROVE  Spec => [](IInv /\ Exclusive /\ Sound)
<1>1. IInv /\ Exclusive /\ Sound /\ [Next]_vars => (IInv /\ Exclusive /\ Sound)'
  BY NextInv, NextExclusive, NextSound
<1> QED
  BY InitInv, InitSound, <1>1, PTL DEF Spec

(* What a process reports is so: once it says that the update succeeded,   *)
(* was undone or was not begun, there is the application of the commit     *)
(* checked out, and undone means the commit it started from.               *)
THEOREM Honestly ==
  ASSUME Faults = {}, TwoRuns
  PROVE  Spec => Honest
<1>1. ASSUME IInv, Exclusive, Sound, [Next]_vars, NEW p \in Process,
             Ends(p), outcome'[p] \in {"ok", "restored", "untouched"}
      PROVE  Whole' /\ (outcome'[p] = "restored" => head' = previous[p])
  <2>1. outcome'[p] # outcome[p]
    BY <1>1 DEF Ends
  <2>2. PICK q \in Process : StartUpdate(q) \/ RunInstaller(q) \/ Step(q) \/ Die(q)
    BY <1>1, <2>1 DEF Next, World, AskStatus, Consume, Quit, Open, Edit, Publish,
                      vars, mine
  <2>3. UpdateRefused(q) \/ Completes(q)
    BY <2>1, <2>2 DEF Step, Completes, StartUpdate, RunInstaller, Die,
         InstallerReads, InstallerTakes, InstallerRefused, WriteMarker, UpdateReads,
         UpdateTakes, ReadLock, WriteLock, DropLock, Exited, ClearRoot, Record,
         Newer, MoveAside, Snapshot, Apply, Build, mine
  <2>4. PICK told : /\ outcome' = [outcome EXCEPT ![q] = told]
                    /\ told = "restored" => CannotApply(q) \/ BuildFails(q)
                    /\ UpdateRefused(q) => told = "aborted"
    BY <2>1, <2>3 DEF UpdateRefused, Completes, NeverExited, CannotStash, Unusable,
         UpToDate, CannotMove, CannotApply, BuildFails, Succeed, Built, Discard,
         Finish, mine
  <2>5. p = q /\ told = outcome'[p]
    BY <1>1, <2>1, <2>4 DEF IInv, TypeOK
  <2>6. Completes(q)
    BY <1>1, <2>3, <2>4, <2>5
  <2>7. Whole'
    BY <1>1, <2>6, CompletesWhole
  <2>8. ASSUME outcome'[p] = "restored" PROVE head' = previous[p]
    <3>1. pc[p] \in {"apply", "build", "building"} /\ Rollback(p)
      BY <2>4, <2>5, <2>8 DEF CannotApply, BuildFails
    <3> QED
      BY <1>1, <3>1, RollbackWhole
  <2> QED
    BY <2>7, <2>8
<1>2. IInv /\ Exclusive /\ Sound /\ [Next]_vars =>
        [\A p \in Process :
           Ends(p) /\ outcome'[p] \in {"ok", "restored", "untouched"} =>
             /\ Whole'
             /\ outcome'[p] = "restored" => head' = previous[p]]_vars
  BY <1>1
<1> QED
  BY Orderly, <1>2, PTL DEF Spec, Honest

-----------------------------------------------------------------------------
(* What keeps a running application undisturbed survives a bootstrap that  *)
(* is killed in its build and a reset that fails: nothing is said of the   *)
(* backups or of the commit, only of the directory that is started.        *)
Calm(p) ==
  /\ pc[p] \in Early => saved[p] = {}
  /\ pc[p] = "aside" /\ "dist" \in saved[p] => output["dist"] \notin Builds
  /\ pc[p] \in {"apply", "build", "building"} => output["dist"] \notin Builds

Steady == Gone /\ \A p \in Process : Calm(p)

(* A step that leaves the application where it is.                         *)
LEMMA SteadyFrame ==
  ASSUME TypeOK, Steady, NEW p \in Process, NEW s,
         pc' = [pc EXCEPT ![p] = s], UNCHANGED <<saved, output>>, Calm(p)',
         desktop' \in {"gone", desktop} \/ output["dist"] \in Builds
  PROVE  Steady'
<1>1. \A q \in Process \ {p} : pc'[q] = pc[q]
  BY DEF TypeOK
<1>2. Gone'
  BY DEF Steady, Gone
<1>3. \A q \in Process \ {p} : Calm(q)'
  BY <1>1 DEF Steady, Calm
<1> QED
  BY <1>2, <1>3 DEF Steady

(* A step of the only process inside.                                      *)
LEMMA SteadyInside ==
  ASSUME TypeOK, Exclusive, Steady, NEW p \in Process, NEW s, pc[p] \in Inside,
         pc' = [pc EXCEPT ![p] = s], Calm(p)', Gone',
         \A q \in Process \ {p} : saved'[q] = saved[q]
  PROVE  Steady'
<1>1. \A q \in Process \ {p} : pc'[q] = pc[q] /\ pc'[q] \notin Inside
  BY Others DEF TypeOK
<1>2. \A q \in Process \ {p} : Calm(q)'
  BY <1>1 DEF Steady, Calm, Inside
<1> QED
  BY <1>2 DEF Steady

LEMMA MoveSteady ==
  ASSUME IInv, Exclusive, Steady, NEW p \in Process, MoveAside(p)
  PROVE  Steady' /\ head' = head
                 /\ (desktop = "running" => output'["dist"] = output["dist"])
<1> USE DEF IInv
<1> DEFINE d == NextDir
<1>1. /\ pc[p] = "aside" /\ pc' = [pc EXCEPT ![p] = "aside"] /\ pc'[p] = "aside"
      /\ output' = [output EXCEPT ![d] = None] /\ desktop' = desktop
      /\ head' = head /\ saved' = [saved EXCEPT ![p] = @ \cup {d}]
      /\ d = "dist" => desktop = "gone"
  BY DEF MoveAside, Movable, TypeOK
<1>2. d \in Dirs /\ None \notin Builds /\ "dist" \in Dirs
  BY UpdaterAssumption DEF NextDir, Dirs, Builds
<1>3. /\ saved'[p] = saved[p] \cup {d}
      /\ \A q \in Process \ {p} : saved'[q] = saved[q]
      /\ output'["dist"] = IF d = "dist" THEN None ELSE output["dist"]
  BY <1>1, <1>2 DEF TypeOK
<1> HIDE DEF d
<1>4. Gone'
  BY <1>1, <1>3 DEF Steady, Gone
<1>5. Calm(p)'
  BY <1>1, <1>2, <1>3 DEF Steady, Calm, Early
<1>6. Steady'
  BY <1>1, <1>3, <1>4, <1>5, SteadyInside DEF Inside
<1>7. desktop = "running" => output'["dist"] = output["dist"]
  BY <1>1, <1>3
<1> QED
  BY <1>1, <1>6, <1>7

(* The undo of a snapshot: what it puts back was not there to be started.  *)
LEMMA CannotMoveSteady ==
  ASSUME IInv, Exclusive, Steady, NEW p \in Process, CannotMove(p)
  PROVE  Steady' /\ head' = head
                 /\ (desktop = "running" => output'["dist"] = output["dist"])
<1> USE DEF IInv
<1>1. /\ pc[p] = "aside" /\ pc' = [pc EXCEPT ![p] = Leaves(p)] /\ head' = head
      /\ Leaves(p) \in {"done", "drop"} /\ saved' = saved
      /\ desktop' = desktop \/ output'["dist"] \in Builds
  BY DEF CannotMove, Finish, Goto, Leaves, Relaunched
<1>2. "dist" \notin saved[p] => output'["dist"] = output["dist"]
  <2>1. PICK b : Restore(p, b)
    BY DEF CannotMove
  <2> QED
    BY <2>1 DEF Restore, Stuck, Dirs
<1>3. "dist" \in saved[p] => output["dist"] \notin Builds /\ desktop = "gone"
  BY <1>1 DEF Steady, Calm, Gone
<1>4. Gone'
  BY <1>1, <1>2, <1>3 DEF Steady, Gone
<1>5. Calm(p)'
  BY <1>1 DEF Calm, Early, TypeOK
<1>6. pc[p] \in Inside /\ \A q \in Process \ {p} : saved'[q] = saved[q]
  BY <1>1 DEF Inside
<1>7. Steady'
  BY <1>1, <1>4, <1>5, <1>6, SteadyInside
<1> QED
  BY <1>1, <1>2, <1>3, <1>7

(* The steps with the application set aside: no desktop runs before them.  *)
LEMMA BuildSteady ==
  ASSUME IInv, Exclusive, Steady, NEW p \in Process,
         Apply(p) \/ CannotApply(p) \/ Build(p) \/ Built(p) \/ BuildFails(p)
  PROVE  Steady' /\ desktop = "gone"
<1> USE DEF IInv
<1>1. pc[p] \in {"apply", "build", "building"}
  BY DEF Apply, CannotApply, Build, Built, BuildFails
<1>2. desktop = "gone" /\ output["dist"] \notin Builds
  BY <1>1 DEF Steady, Calm, Gone
<1>3. PICK s \in {"build", "building", "discard", "done", "drop"} :
        /\ pc' = [pc EXCEPT ![p] = s] /\ saved' = saved
        /\ desktop' = desktop \/ output'["dist"] \in Builds
        /\ s \in {"build", "building"} => output'["dist"] \notin Builds
  <2>1. CASE Apply(p)
    BY <1>2, <2>1 DEF Apply, Goto, mine
  <2>2. CASE Build(p)
    BY <2>2 DEF Build, Goto, mine, Dirs, Partial, Builds
  <2>3. CASE Built(p)
    BY <2>3 DEF Built, Goto, mine
  <2>4. CASE CannotApply(p) \/ BuildFails(p)
    BY <2>4 DEF CannotApply, BuildFails, Finish, Goto, Leaves, Relaunched
  <2> QED
    BY <2>1, <2>2, <2>3, <2>4
<1>4. Gone'
  BY <1>2, <1>3 DEF Gone
<1>5. Calm(p)'
  BY <1>3 DEF Calm, Early, TypeOK
<1>6. pc[p] \in Inside /\ \A q \in Process \ {p} : saved'[q] = saved[q]
  BY <1>1, <1>3 DEF Inside
<1> QED
  BY <1>2, <1>3, <1>4, <1>5, <1>6, SteadyInside

(* Every other step of a process leaves the built directories alone.       *)
Spares(p) ==
  \/ StartUpdate(p) \/ RunInstaller(p) \/ Die(p) \/ DropLock(p)
  \/ InstallerReads(p) \/ InstallerTakes(p) \/ InstallerRefused(p)
  \/ WriteMarker(p) \/ UpdateReads(p) \/ UpdateTakes(p) \/ UpdateRefused(p)
  \/ Exited(p) \/ NeverExited(p) \/ ClearRoot(p) \/ Record(p) \/ CannotStash(p)
  \/ Unusable(p) \/ UpToDate(p) \/ Newer(p) \/ Snapshot(p) \/ Discard(p)
  \/ Succeed(p)

LEMMA RestSteady ==
  ASSUME IInv, Steady, NEW p \in Process, Spares(p)
  PROVE  Steady' /\ UNCHANGED <<head, output>>
<1> USE DEF IInv
<1>1. UNCHANGED <<saved, head, output>>
  BY DEF Spares, StartUpdate, RunInstaller, Die, DropLock, InstallerReads,
         InstallerTakes, InstallerRefused, WriteMarker, UpdateReads, UpdateTakes,
         ReadLock, WriteLock, UpdateRefused, Exited, NeverExited, ClearRoot,
         Record, CannotStash, Unusable, UpToDate, Newer, Snapshot, Discard,
         Succeed, Finish, mine, tree
<1>2. desktop' \in {"gone", desktop} \/ output["dist"] \in Builds
  BY <1>1 DEF Spares, StartUpdate, RunInstaller, Die, DropLock,
         InstallerReads, InstallerTakes, InstallerRefused, WriteMarker,
         UpdateReads, UpdateTakes, ReadLock, WriteLock, UpdateRefused, Exited,
         NeverExited, ClearRoot, Record, CannotStash, Unusable, UpToDate, Newer,
         Snapshot, Discard, Succeed, Finish, Relaunched, Steady, Gone
<1>3. CASE \/ StartUpdate(p) \/ RunInstaller(p) \/ InstallerReads(p)
           \/ InstallerTakes(p) \/ WriteMarker(p) \/ UpdateReads(p)
           \/ UpdateTakes(p) \/ Exited(p) \/ ClearRoot(p) \/ Record(p)
  <2>1. PICK s \in Early : pc' = [pc EXCEPT ![p] = s] /\ pc[p] \in Early
    BY <1>3 DEF StartUpdate, RunInstaller, InstallerReads, InstallerTakes,
         WriteMarker, UpdateReads, UpdateTakes, Exited, ClearRoot, Record,
         ReadLock, WriteLock, Goto, Early
  <2>2. Calm(p)'
    BY <1>1, <2>1 DEF Steady, Calm, Early, TypeOK
  <2> QED
    BY <1>1, <1>2, <2>1, <2>2, SteadyFrame
<1>4. CASE Newer(p) \/ Snapshot(p)
  <2>1. PICK s \in {"aside", "apply"} : pc' = [pc EXCEPT ![p] = s]
    BY <1>4 DEF Newer, Snapshot, Goto
  <2>2. ASSUME Newer(p) PROVE Calm(p)'
    <3>1. pc[p] \in Early /\ pc'[p] = "aside"
      BY <2>2 DEF Newer, Goto, Early, TypeOK
    <3> QED
      BY <1>1, <3>1 DEF Steady, Calm, Early
  <2>3. ASSUME Snapshot(p) PROVE Calm(p)'
    <3>1. output["dist"] = None /\ None \notin Builds
      BY <2>3, UpdaterAssumption DEF Snapshot, AllAside, Dirs, Builds
    <3> QED
      BY <1>1, <2>3, <3>1 DEF Snapshot, Goto, Calm, Early, TypeOK
  <2> QED
    BY <1>1, <1>2, <1>4, <2>1, <2>2, <2>3, SteadyFrame
<1>5. CASE \/ Die(p) \/ DropLock(p) \/ InstallerRefused(p) \/ UpdateRefused(p)
           \/ NeverExited(p) \/ CannotStash(p) \/ Unusable(p) \/ UpToDate(p)
           \/ Discard(p) \/ Succeed(p)
  <2>1. PICK s \in {"dead", "done", "drop", "finish"} : pc' = [pc EXCEPT ![p] = s]
    BY <1>5 DEF Die, DropLock, InstallerRefused, UpdateRefused, NeverExited,
         CannotStash, Unusable, UpToDate, Discard, Succeed, Finish, Leaves, Goto,
         TypeOK
  <2>2. Calm(p)'
    BY <2>1 DEF Calm, Early, TypeOK
  <2> QED
    BY <1>1, <1>2, <2>1, <2>2, SteadyFrame
<1> QED
  BY <1>1, <1>3, <1>4, <1>5 DEF Spares

LEMMA NextSteady ==
  ASSUME IInv, Exclusive, Steady, [Next]_vars
  PROVE  /\ Steady'
         /\ desktop = "running" /\ desktop' = "running"
              => UNCHANGED <<head, output["dist"]>>
<1>1. CASE World \/ UNCHANGED vars
  <2>1. /\ UNCHANGED <<pc, saved, head, output>>
        /\ desktop' \in {"gone", desktop} \/ output["dist"] \in Builds
    BY <1>1 DEF World, AskStatus, Consume, Quit, Open, Edit, Publish, vars, mine,
                files, tree
  <2> QED
    BY <2>1 DEF Steady, Gone, Calm
<1>2. ASSUME NEW p \in Process,
             StartUpdate(p) \/ RunInstaller(p) \/ Step(p) \/ Die(p)
      PROVE  /\ Steady'
             /\ desktop = "running" /\ desktop' = "running"
                  => UNCHANGED <<head, output["dist"]>>
  <2>1. \/ MoveAside(p) \/ CannotMove(p) \/ Spares(p)
        \/ Apply(p) \/ CannotApply(p) \/ Build(p) \/ Built(p) \/ BuildFails(p)
    BY <1>2 DEF Step, Spares
  <2> QED
    BY <2>1, MoveSteady, CannotMoveSteady, RestSteady, BuildSteady
<1> QED
  BY <1>1, <1>2 DEF Next

(* A running application keeps its files and its checkout, also when a     *)
(* bootstrap is killed in its build or a reset of its rollback fails       *)
(* (update.rs); the lock (singleton.rs) has to keep the second one out.    *)
THEOREM NotDisturbed ==
  ASSUME "overlap" \notin Faults, TwoRuns
  PROVE  Spec => Undisturbed
<1>1. Init => IInv /\ Exclusive /\ Steady
  BY InitInv, InitSound DEF Sound, Steady, Undoable, Calm, Early, Init
<1>2. IInv /\ Exclusive /\ Steady /\ [Next]_vars => (IInv /\ Exclusive /\ Steady)'
  BY NextInv, NextExclusive, NextSteady
<1>3. IInv /\ Exclusive /\ Steady /\ [Next]_vars =>
        [desktop = "running" /\ desktop' = "running"
           => UNCHANGED <<head, output["dist"]>>]_vars
  BY NextSteady
<1> QED
  BY <1>1, <1>2, <1>3, PTL DEF Spec, Undisturbed
=============================================================================
