------------------------------- MODULE Updater -------------------------------
(***************************************************************************)
(* The in-place updater: run_update (apps/updater/.../update.rs), the lock *)
(* of installers (singleton.rs), the marker of an update in progress       *)
(* (marker.rs), the installer that repairs a checkout by updating it       *)
(* (install.rs) and the desktop that hands over to it (updater.ts).        *)
(*                                                                         *)
(* Every process is one run of the bootstrap; the files are shared.  The   *)
(* checkout is its commit, each built directory is the commit it was built *)
(* from.  Messages, progress lines, signatures and the download of release *)
(* assets are left out.                                                    *)
(***************************************************************************)
EXTENDS Integers, FiniteSets

CONSTANTS
  Process,    \* the runs of the bootstrap, each started once
  Releases,   \* bound on the commits origin publishes
  None,       \* no file, or no build
  Faults      \* what may go wrong besides a step that reports its failure:
              \* "midway"  a process killed between snapshot and discard
              \* "overlap" two processes between reading and writing the lock
              \* "reset"   git reset --hard failing in a rollback
              \* "files"   a backup that cannot be put back or removed

Dirs == {"out", "dist"}                     \* OUT_DIR, DIST_DIR
Partial == 0                                \* a build that was not finished

ASSUME UpdaterAssumption ==
  /\ IsFiniteSet(Process) /\ Releases \in Nat \ {0}
  /\ None \notin Process \cup (0..Releases)
  /\ Faults \subseteq {"midway", "overlap", "reset", "files"}

VARIABLES
  pc, kind,   \* where a process stands; whether it updates or repairs
  awaits,     \* the desktop whose exit the process waits for is still alive
  previous,   \* the commit to return to, None before it is recorded
  target,     \* the commit resolve_target fetched
  saved,      \* the backups snapshot_build_output returned
  outcome,    \* what the process reports
  holds,      \* how many Lock values the process has to drop
  lock,       \* bootstrap.lock: the pid in it
  marker,     \* .marvi-update-in-progress: the pid in it
  result,     \* the result file for the desktop
  head,       \* the commit checked out
  output,     \* the built directories
  backup,     \* their .marvi-bak
  edits,      \* the user's changes: none, in the tree, in a stash, or lost
  published,  \* the newest commit of origin
  desktop     \* running, quitting or gone

mine  == <<kind, awaits, previous, target, saved, outcome, holds>>
files == <<lock, marker, result>>
tree  == <<head, output, backup, edits>>
vars  == <<pc, mine, files, tree, published, desktop>>

Builds == 1..Releases
STAGES == {"idle", "enter", "take", "claim", "read", "write", "wait", "clear",
           "inspect", "resolve", "aside", "apply", "build", "building",
           "discard", "finish", "drop", "done", "dead"}

TypeOK ==
  /\ pc \in [Process -> STAGES] /\ kind \in [Process -> {"update", "repair"}]
  /\ awaits \subseteq Process
  /\ previous \in [Process -> Builds \cup {None}]
  /\ target \in [Process -> Builds \cup {None}]
  /\ saved \in [Process -> SUBSET Dirs] /\ holds \in [Process -> 0..2]
  /\ outcome \in [Process -> {"", "ok", "failed", "restored", "aborted",
                              "untouched", "skipped"}]
  /\ lock \in Process \cup {None} /\ marker \in Process \cup {None}
  /\ result \in {None, "ok", "failed", "restored", "aborted", "untouched",
                 "skipped"}
  /\ head \in Builds /\ published \in Builds
  /\ output \in [Dirs -> Builds \cup {Partial, None}]
  /\ backup \in [Dirs -> Builds \cup {Partial, None}]
  /\ edits \in {"none", "tree", "stash", "lost"}
  /\ desktop \in {"running", "quitting", "gone"}

Init ==
  /\ pc = [p \in Process |-> "idle"] /\ kind = [p \in Process |-> "update"]
  /\ awaits = {} /\ previous = [p \in Process |-> None] /\ target = previous
  /\ saved = [p \in Process |-> {}] /\ outcome = [p \in Process |-> ""]
  /\ holds = [p \in Process |-> 0]
  /\ lock = None /\ marker = None /\ result = None
  /\ head = 1 /\ output = [d \in Dirs |-> 1] /\ backup = [d \in Dirs |-> None]
  /\ edits = "none" /\ published = 1 /\ desktop = "running"

Alive(p) == p \in Process /\ pc[p] \notin {"idle", "done", "dead"}
Goto(p, s) == pc' = [pc EXCEPT ![p] = s]

-----------------------------------------------------------------------------
(* The desktop, the user and origin.                                       *)

\* startUpdate, from the window or a second instance's argument, until quit.
StartUpdate(p) ==
  /\ pc[p] = "idle" /\ desktop # "gone"
  /\ ~ Alive(marker)
  /\ marker' = None /\ desktop' = "quitting"
  /\ Goto(p, "claim") /\ kind' = [kind EXCEPT ![p] = "update"]
  /\ awaits' = awaits \cup {p}
  /\ UNCHANGED <<previous, target, saved, outcome, holds, lock, result, tree,
                 published>>

\* The installer, run over a checkout that exists.
RunInstaller(p) ==
  /\ pc[p] = "idle"
  /\ Goto(p, "enter") /\ kind' = [kind EXCEPT ![p] = "repair"]
  /\ UNCHANGED <<awaits, previous, target, saved, outcome, holds, files, tree,
                 published, desktop>>

\* updateInProgress, when the window asks for the status.
AskStatus ==
  /\ desktop # "gone" /\ marker # None /\ ~ Alive(marker) /\ marker' = None
  /\ UNCHANGED <<pc, mine, lock, result, tree, published, desktop>>

\* consumeUpdateResult.
Consume ==
  /\ desktop # "gone" /\ result # None /\ result' = None
  /\ UNCHANGED <<pc, mine, lock, marker, tree, published, desktop>>

Quit ==
  /\ desktop # "gone" /\ desktop' = "gone" /\ awaits' = {}
  /\ UNCHANGED <<pc, kind, previous, target, saved, outcome, holds, files, tree,
                 published>>

\* The user opens Marvi; a build cut short does not start.
Open ==
  /\ desktop = "gone" /\ output["dist"] \in Builds /\ desktop' = "running"
  /\ UNCHANGED <<pc, mine, files, tree, published>>

\* The user changes a file of the checkout, with no bootstrap running.
Edit ==
  /\ edits = "none" /\ (\A p \in Process : ~ Alive(p))
  /\ edits' = "tree"
  /\ UNCHANGED <<pc, mine, files, head, output, backup, published, desktop>>

Publish ==
  /\ published < Releases /\ published' = published + 1
  /\ UNCHANGED <<pc, mine, files, tree, desktop>>

-----------------------------------------------------------------------------
(* singleton::acquire: the file is read, judged and removed; then written. *)

Judge(p) == lock = p \/ ~ Alive(lock)

\* The window between the two is open to every process in the code; a run
\* without the fault "overlap" lets one process through it at a time.
OneAtOnce(p) == "overlap" \in Faults
                \/ \A q \in Process \ {p} : pc[q] \notin {"take", "write"}

ReadLock(p, from, to) ==
  /\ pc[p] = from /\ Judge(p) /\ OneAtOnce(p)
  /\ lock' = None /\ Goto(p, to)
  /\ UNCHANGED <<mine, marker, result, tree, published, desktop>>

WriteLock(p, from, to) ==
  /\ pc[p] = from /\ Goto(p, to)
  /\ lock' = p /\ holds' = [holds EXCEPT ![p] = @ + 1]
  /\ UNCHANGED <<kind, awaits, previous, target, saved, outcome, marker, result,
                 tree, published, desktop>>

\* Drop for Lock: whatever the file says.
DropLock(p) ==
  /\ pc[p] = "drop" /\ lock' = None
  /\ holds' = [holds EXCEPT ![p] = @ - 1]
  /\ IF holds[p] = 1 THEN Goto(p, "done") ELSE UNCHANGED pc
  /\ UNCHANGED <<kind, awaits, previous, target, saved, outcome, marker, result,
                 tree, published, desktop>>

-----------------------------------------------------------------------------
(* install and run_update, in the order of their steps.                    *)

InstallerReads(p)  == ReadLock(p, "enter", "take")
InstallerTakes(p)  == WriteLock(p, "take", "claim")
InstallerRefused(p) ==
  /\ pc[p] = "enter" /\ ~ Judge(p) /\ Goto(p, "done")
  /\ UNCHANGED <<mine, files, tree, published, desktop>>

WriteMarker(p) ==
  /\ pc[p] = "claim" /\ marker' = p /\ Goto(p, "read")
  /\ UNCHANGED <<mine, lock, result, tree, published, desktop>>

UpdateReads(p) == ReadLock(p, "read", "write")
UpdateTakes(p) == WriteLock(p, "write", "wait")

\* finish and the return: the result, the marker if it is ours, the relaunch
\* of an executable that is there.
Unmark(p) == IF marker = p THEN None ELSE marker
Relaunched(p, relaunch) ==
  IF relaunch /\ output'["dist"] \in Builds THEN "running" ELSE desktop

\* The locks in scope are dropped, none when the lock was refused.
Leaves(p) == IF holds[p] = 0 THEN "done" ELSE "drop"

Finish(p, told, relaunch) ==
  /\ result' = told /\ outcome' = [outcome EXCEPT ![p] = told]
  /\ marker' = Unmark(p)
  /\ \E launch \in {relaunch, relaunch /\ kind[p] = "update"} :
       desktop' = Relaunched(p, launch)
  /\ Goto(p, Leaves(p))
  /\ UNCHANGED <<lock, kind, awaits, previous, target, saved, holds, published>>

\* bug: refused, the process returns without finish.
RefusedSilently(p) ==
  /\ pc[p] = "read" /\ ~ Judge(p) /\ Goto(p, Leaves(p))
  /\ UNCHANGED <<mine, files, tree, published, desktop>>
UpdateRefused(p) ==
  /\ pc[p] = "read" /\ ~ Judge(p)
  /\ UNCHANGED tree /\ Finish(p, "aborted", FALSE)

\* wait_for_exit, its sixty seconds, and an installer that waits for nobody.
Exited(p) ==
  /\ pc[p] = "wait" /\ p \notin awaits /\ Goto(p, "clear")
  /\ UNCHANGED <<mine, files, tree, published, desktop>>
NeverExited(p) ==
  /\ pc[p] = "wait" /\ p \in awaits
  /\ UNCHANGED tree /\ Finish(p, "untouched", FALSE)

\* clear_install_root: what runs from the install is killed, or is not.
ClearRoot(p) ==
  /\ pc[p] = "clear" /\ Goto(p, "inspect")
  /\ \/ desktop' = "gone" /\ awaits' = {}
     \/ UNCHANGED <<desktop, awaits>>
  /\ UNCHANGED <<kind, previous, target, saved, outcome, holds, files, tree,
                 published>>

\* set_aside_local_changes.  Backups an interrupted run left are untracked
\* files, so they are stashed with the rest.
Dirty == edits = "tree" \/ \E d \in Dirs : backup[d] # None
Stashed(e) == IF e = "tree" THEN "stash" ELSE e

Record(p) ==
  /\ pc[p] = "inspect" /\ Goto(p, "resolve")
  /\ previous' = [previous EXCEPT ![p] = head]
  /\ edits' = Stashed(edits) /\ backup' = [d \in Dirs |-> None]
  /\ UNCHANGED <<kind, awaits, target, saved, outcome, holds, files, head,
                 output, published, desktop>>
\* bug: an update that could not stash goes on.
GoesOn(p) ==
  /\ pc[p] = "inspect" /\ Dirty /\ Goto(p, "resolve")
  /\ previous' = [previous EXCEPT ![p] = head]
  /\ UNCHANGED <<kind, awaits, target, saved, outcome, holds, files, tree,
                 published, desktop>>
CannotStash(p) ==
  /\ pc[p] = "inspect" /\ Dirty
  /\ UNCHANGED tree /\ Finish(p, "skipped", TRUE)

\* No checkout, an unreadable commit, an unreachable origin, a bad signature.
Unusable(p) ==
  /\ pc[p] \in {"inspect", "resolve"}
  /\ UNCHANGED tree /\ Finish(p, "failed", TRUE)

UpToDate(p) ==
  /\ pc[p] = "resolve" /\ published = previous[p]
  /\ UNCHANGED tree /\ Finish(p, "ok", TRUE)
Newer(p) ==
  /\ pc[p] = "resolve" /\ published # previous[p] /\ Goto(p, "aside")
  /\ target' = [target EXCEPT ![p] = published]
  /\ UNCHANGED <<kind, awaits, previous, saved, outcome, holds, files, tree,
                 published, desktop>>

\* The backups a process made, but for those the fault "files" holds fast:
\* remove_dir_all and rename may fail, and nobody reads that they did.
Stuck(p) == {s \in SUBSET saved[p] : s = {} \/ "files" \in Faults}
Without(b, dirs) == [d \in Dirs |-> IF d \in dirs THEN None ELSE b[d]]

\* restore_build_output, with b the backups found: a directory whose backup
\* is stuck is what it was, a part of it, or gone.
Spoilt(d) == {output[d], None} \cup (IF output[d] = None THEN {} ELSE {Partial})
Restore(p, b) ==
  \E stuck \in Stuck(p) :
    /\ backup' = Without(b, saved[p] \ stuck)
    /\ output' \in [Dirs -> Builds \cup {Partial, None}]
    /\ \A d \in Dirs \ stuck :
         output'[d] = IF d \in saved[p] THEN backup[d] ELSE output[d]
    /\ \A d \in stuck : output'[d] \in Spoilt(d)

\* snapshot_build_output, out before dist.  A directory that is not there is
\* skipped; one a running desktop holds cannot be renamed.
NextDir   == IF output["out"] # None THEN "out" ELSE "dist"
AllAside      == \A d \in Dirs : output[d] = None
Movable(d) == d = "dist" => desktop = "gone"

MoveAside(p) ==
  LET d == NextDir IN
  /\ pc[p] = "aside" /\ ~ AllAside /\ Movable(d)
  /\ output' = [output EXCEPT ![d] = None]
  /\ backup' = [backup EXCEPT ![d] = output[d]]
  /\ saved' = [saved EXCEPT ![p] = @ \cup {d}]
  /\ UNCHANGED <<pc, kind, awaits, previous, target, outcome, holds, files,
                 head, edits, published, desktop>>
Snapshot(p) ==
  /\ pc[p] = "aside" /\ AllAside /\ Goto(p, "apply")
  /\ UNCHANGED <<mine, files, tree, published, desktop>>
\* bug: a directory that cannot be moved is passed over.
PassesOver(p) ==
  /\ pc[p] = "aside" /\ ~ AllAside /\ Goto(p, "apply")
  /\ UNCHANGED <<mine, files, tree, published, desktop>>
CannotMove(p) ==
  /\ pc[p] = "aside" /\ ~ AllAside
  /\ \/ Restore(p, Without(backup, {NextDir}))
     \/ "files" \in Faults /\ Restore(p, backup)
  /\ UNCHANGED <<head, edits>> /\ Finish(p, "untouched", TRUE)

\* rollback: a reset that fails leaves the build output where it was, and
\* run_update ignores that it did.
Discarded(e) == IF e = "tree" THEN "lost" ELSE e
\* bug: only the commit is restored.
RollbackCommit(p) ==
  /\ head' = previous[p] /\ edits' = Discarded(edits)
  /\ UNCHANGED <<output, backup>>
Rollback(p) ==
  \/ /\ head' = previous[p] /\ edits' = Discarded(edits)
     /\ Restore(p, backup)
  \/ "reset" \in Faults /\ UNCHANGED tree

\* apply_target; one that fails may have checked main out already, which is
\* undone with the rest.
Apply(p) ==
  /\ pc[p] = "apply" /\ head' = target[p] /\ Goto(p, "build")
  /\ UNCHANGED <<mine, files, output, backup, edits, published, desktop>>
CannotApply(p) ==
  /\ pc[p] = "apply" /\ Rollback(p) /\ Finish(p, "restored", TRUE)

\* build_with_toolchain: the build fills the directories, and the smoke test
\* accepts what it produced.
Build(p) ==
  /\ pc[p] = "build" /\ Goto(p, "building")
  /\ output' = [d \in Dirs |-> Partial]
  /\ UNCHANGED <<mine, files, head, backup, edits, published, desktop>>
Built(p) ==
  /\ pc[p] = "building" /\ Goto(p, "discard")
  /\ output' = [d \in Dirs |-> head]
  /\ UNCHANGED <<mine, files, head, backup, edits, published, desktop>>
BuildFails(p) ==
  /\ pc[p] \in {"build", "building"}
  /\ Rollback(p) /\ Finish(p, "restored", TRUE)

\* discard_backups, and what is refreshed after it.
Discard(p) ==
  /\ pc[p] = "discard"
  /\ \E stuck \in Stuck(p) : backup' = Without(backup, saved[p] \ stuck)
  /\ Goto(p, "finish")
  /\ UNCHANGED <<mine, files, head, output, edits, published, desktop>>
Succeed(p) ==
  /\ pc[p] = "finish" /\ UNCHANGED tree /\ Finish(p, "ok", TRUE)

\* The process is killed.  "midway" names the steps whose undo dies with it.
Midway == {"aside", "apply", "build", "building"}
Die(p) ==
  /\ Alive(p) /\ (pc[p] \in Midway => "midway" \in Faults)
  /\ Goto(p, "dead")
  /\ UNCHANGED <<mine, files, tree, published, desktop>>

-----------------------------------------------------------------------------
Step(p) ==
  \/ InstallerReads(p) \/ InstallerTakes(p) \/ InstallerRefused(p)
  \/ WriteMarker(p) \/ UpdateReads(p) \/ UpdateTakes(p) \/ UpdateRefused(p)
  \/ Exited(p) \/ NeverExited(p) \/ ClearRoot(p)
  \/ Record(p) \/ CannotStash(p) \/ Unusable(p) \/ UpToDate(p) \/ Newer(p)
  \/ MoveAside(p) \/ Snapshot(p) \/ CannotMove(p)
  \/ Apply(p) \/ CannotApply(p)
  \/ Build(p) \/ Built(p) \/ BuildFails(p) \/ Discard(p) \/ Succeed(p)
  \/ DropLock(p)

World == AskStatus \/ Consume \/ Quit \/ Open \/ Edit \/ Publish

Next ==
  \/ \E p \in Process : StartUpdate(p) \/ RunInstaller(p) \/ Step(p) \/ Die(p)
  \/ World

\* Each process runs; its waits and its commands have time limits.
Fairness == \A p \in Process : WF_vars(Step(p))

Spec == Init /\ [][Next]_vars /\ Fairness

-----------------------------------------------------------------------------
(* Properties.                                                             *)

\* The built application is that of the commit checked out.
Whole == \A d \in Dirs : output[d] = head

\* What a process reports is so: after "ok", "the previous version was
\* restored" and "left untouched" there is an application, and it is that of
\* the commit checked out; restored, that is the commit it started from.
\* Not so with the faults "reset" and "files", which nobody looks at.
Ends(p) == outcome[p] = "" /\ outcome'[p] # ""
Honest ==
  [][\A p \in Process : Ends(p) /\ outcome'[p] \in {"ok", "restored", "untouched"} =>
       /\ Whole'
       /\ outcome'[p] = "restored" => head' = previous[p]]_vars

\* The user's changes are never thrown away, whatever step fails.
EditsKept == edits # "lost"

\* An application that is running keeps its files and its checkout.
Undisturbed ==
  [][desktop = "running" /\ desktop' = "running"
       => UNCHANGED <<head, output["dist"]>>]_vars

\* No process that ended leaves its marker or its lock behind; one that was
\* killed leaves them, and they bind nobody.
Released ==
  \A p \in Process : pc[p] = "done" => p \notin {lock, marker}

\* An update that went past the desktop's exit opens Marvi again, or died.
OpensAgain ==
  \A p \in Process :
    pc[p] = "clear" /\ kind[p] = "update"
      ~> (desktop = "running" \/ pc[p] = "dead")
=============================================================================
