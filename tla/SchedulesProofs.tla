-------------------------- MODULE SchedulesProofs ---------------------------
(***************************************************************************)
(* Proofs about Schedules, for every set of jobs, threads that fire and    *)
(* threads that edit, and any number of crashes.                           *)
(*                                                                         *)
(* The first argument: a thread that is past its claim has its job in      *)
(* _running, so a claim that finds the job free finds no thread past one;  *)
(* and the ledger follows the threads at work.  It needs nothing           *)
(* of the timer objects.  The second, about the timer objects, is for a    *)
(* single thread that edits: while a reload is under way nothing else      *)
(* touches the timer, and what is enabled can only become less.            *)
(***************************************************************************)
EXTENDS Schedules, FiniteSetTheorems, TLAPS

Working(j) == {f \in Runner : job[f] = j /\ pc[f] = "work"}

(* A thread that is firing has a job; past its claim, a claimed one.       *)
Claimed ==
  \A f \in Runner : /\ pc[f] # "idle" => job[f] \in Job
                    /\ InRun(f) => job[f] \in _running

(* The inductive invariant of the first argument.                          *)
IInv == TypeOK /\ Claimed /\ NoOverlap /\ Ledger

(* What a step that starts and ends no work leaves of the ledger.          *)
SameLedger ==
  /\ UNCHANGED <<running, lost>>
  /\ \A j \in Job : row'[j] = "removed" <=> row[j] = "removed"
  /\ \A j \in Job : Working(j)' = Working(j)

-----------------------------------------------------------------------------
(* The ledger.                                                             *)

\* What the ledger should say of a job.
Open(j) == IF row[j] = "removed" THEN 0 ELSE lost[j] + Cardinality(Working(j))

LEMMA LedgerIsCount ==
  Ledger <=> \A j \in Job : running[j] = Open(j)
  BY DEF Ledger, Working, Open

LEMMA LedgerKept ==
  ASSUME Ledger, SameLedger
  PROVE  Ledger'
<1>1. \A j \in Job : Open(j)' = Open(j)
  BY DEF SameLedger, Open
<1> QED
  BY <1>1, LedgerIsCount DEF SameLedger, Ledger, Open, Working

LEMMA WorkingIsFinite ==
  ASSUME NEW j \in Job
  PROVE  IsFiniteSet(Working(j)) /\ Cardinality(Working(j)) \in Nat
<1>1. Working(j) \subseteq Runner /\ IsFiniteSet(Runner)
  BY SchedulesAssumption DEF Working
<1>2. IsFiniteSet(Working(j))
  BY <1>1, FS_Subset
<1> QED
  BY <1>2, FS_CardinalityType

(* execution_start writes a row for the work it begins, or is refused.     *)
LEMMA StartLedger ==
  ASSUME IInv, NEW f \in Runner, execution_start(f)
  PROVE  Ledger' /\ running' \in [Job -> Nat]
<1> USE DEF IInv
<1>1. /\ pc[f] = "start" /\ job[f] \in Job /\ lost' = lost /\ row' = row
      /\ pc \in [Runner -> {"idle", "get", "claim", "start", "work", "discard"}]
      /\ running \in [Job -> Nat] /\ lost \in [Job -> Nat]
      /\ job \in [Runner -> Job \cup {None}]
  BY DEF execution_start, Claimed, TypeOK, plan, crashed
<1>2. CASE row[job[f]] = "there"
  <2>1. /\ job' = job
        /\ running' = [running EXCEPT ![job[f]] = @ + 1]
        /\ pc' = [pc EXCEPT ![f] = "work"]
    BY <1>2 DEF execution_start, Goes
  <2> SUFFICES ASSUME NEW j \in Job
               PROVE  running'[j] = Open(j)' /\ running'[j] \in Nat
    BY <1>1, <2>1 DEF Ledger, Working, Open
  <2>2. running[j] = Open(j)
    BY LedgerIsCount
  <2>3. CASE j = job[f]
    <3>1. Working(j)' = Working(j) \cup {f} /\ f \notin Working(j)
      BY <1>1, <2>1, <2>3 DEF Working
    <3>2. Cardinality(Working(j)') = Cardinality(Working(j)) + 1
      BY <3>1, WorkingIsFinite, FS_AddElement
    <3>3. row'[j] # "removed" /\ row[j] # "removed" /\ lost'[j] = lost[j]
      BY <1>1, <1>2, <2>3
    <3>4. running'[j] = running[j] + 1 /\ running[j] \in Nat /\ lost[j] \in Nat
      BY <1>1, <2>1, <2>3
    <3> QED
      BY <2>2, <3>2, <3>3, <3>4, WorkingIsFinite DEF Open
  <2>4. CASE j # job[f]
    <3>1. Working(j)' = Working(j)
      BY <1>1, <2>1, <2>4 DEF Working
    <3> QED
      BY <1>1, <2>1, <2>2, <2>4, <3>1 DEF Open
  <2> QED
    BY <2>3, <2>4
<1>3. CASE row[job[f]] = "removed"
  <2>1. /\ running' = running
        /\ job' = [job EXCEPT ![f] = None] /\ pc' = [pc EXCEPT ![f] = "idle"]
    BY <1>3 DEF execution_start, Ends, Goes
  <2>2. \A j \in Job : Working(j)' = Working(j)
    BY <1>1, <2>1 DEF Working
  <2> QED
    BY <1>1, <2>1, <2>2, LedgerKept DEF SameLedger
<1> QED
  BY <1>2, <1>3 DEF execution_start

(* execution_finish closes it, if it is still there.                       *)
LEMMA FinishLedger ==
  ASSUME IInv, NEW f \in Runner, execution_finish(f)
  PROVE  Ledger' /\ running' \in [Job -> Nat]
<1> USE DEF IInv
<1>1. /\ pc[f] = "work" /\ job[f] \in Job /\ job' = job /\ lost' = lost
      /\ row' = row
      /\ running' = [running EXCEPT ![job[f]] = Closed(job[f], @)]
      /\ pc' = [pc EXCEPT ![f] = "discard"]
      /\ pc \in [Runner -> {"idle", "get", "claim", "start", "work", "discard"}]
      /\ running \in [Job -> Nat] /\ lost \in [Job -> Nat]
  BY DEF execution_finish, Goes, Claimed, TypeOK, runners, crashed, plan
<1>2. ASSUME NEW j \in Job
      PROVE  running'[j] = Open(j)' /\ running'[j] \in Nat
  <2>1. running[j] = Open(j)
    BY LedgerIsCount
  <2>2. CASE j = job[f] /\ row[j] # "removed"
    <3>1. Working(j)' = Working(j) \ {f} /\ f \in Working(j)
      BY <1>1, <2>2 DEF Working
    <3>2. Cardinality(Working(j)') = Cardinality(Working(j)) - 1
      BY <3>1, WorkingIsFinite, FS_RemoveElement
    <3>3. Working(j) # {} /\ Cardinality(Working(j)) # 0
      BY <3>1, WorkingIsFinite, FS_EmptySet
    <3>4. running'[j] = running[j] - 1 /\ lost[j] \in Nat /\ lost'[j] = lost[j]
      BY <1>1, <2>2 DEF Closed
    <3>5. running[j] = lost[j] + Cardinality(Working(j)) /\ row'[j] # "removed"
      BY <1>1, <2>1, <2>2 DEF Open
    <3> QED
      BY <3>2, <3>3, <3>4, <3>5, WorkingIsFinite DEF Open
  <2>3. CASE j = job[f] /\ row[j] = "removed"
    BY <1>1, <2>1, <2>3 DEF Open, Closed
  <2>4. CASE j # job[f]
    <3>1. Working(j)' = Working(j)
      BY <1>1, <2>4 DEF Working
    <3> QED
      BY <1>1, <2>1, <2>4, <3>1 DEF Open
  <2> QED
    BY <2>2, <2>3, <2>4
<1>3. Ledger'
  BY <1>2 DEF Ledger, Working, Open
<1>4. running' \in [Job -> Nat]
  BY <1>1, <1>2
<1> QED
  BY <1>3, <1>4

(* remove takes the rows of the ledger away, those of a run in progress    *)
(* too; the other changes leave it as it is.                               *)
LEMMA EditLedger ==
  ASSUME IInv, NEW e \in Editor, Edit(e)
  PROVE  Ledger' /\ running' \in [Job -> Nat]
<1> USE DEF IInv
<1>1. UNCHANGED <<pc, job, lost>> /\ \A j \in Job : Working(j)' = Working(j)
  BY DEF Edit, add, set_enabled, update, remove, Changes, runners, crashed, Working
<1>2. PICK k \in Job :
        add(e, k) \/ set_enabled(e, k) \/ update(e, k) \/ remove(e, k)
  BY DEF Edit
<1>3. CASE add(e, k) \/ set_enabled(e, k) \/ update(e, k)
  <2>1. running' = running /\ \A j \in Job : row'[j] = "removed" <=> row[j] = "removed"
    BY <1>3 DEF add, set_enabled, update, plan, TypeOK
  <2> QED
    BY <1>1, <2>1, LedgerKept DEF SameLedger, TypeOK
<1>4. CASE remove(e, k)
  <2>1. /\ row' = [row EXCEPT ![k] = "removed"] /\ running' = [running EXCEPT ![k] = 0]
        /\ row \in [Job -> {"new", "there", "removed"}] /\ running \in [Job -> Nat]
    BY <1>4 DEF remove, TypeOK
  <2>2. ASSUME NEW j \in Job
        PROVE  running'[j] = Open(j)'
    <3>1. running[j] = Open(j)
      BY LedgerIsCount
    <3> QED
      BY <1>1, <2>1, <3>1 DEF Open
  <2> QED
    BY <2>1, <2>2 DEF Ledger, Working, Open
<1> QED
  BY <1>2, <1>3, <1>4

(* A crash leaves every row as it stands, and no thread.                   *)
LEMMA CrashLedger ==
  ASSUME IInv, Crash
  PROVE  Ledger'
<1> SUFFICES ASSUME NEW j \in Job
             PROVE  running'[j] = Open(j)'
  BY DEF Ledger, Working, Open
<1>1. Working(j)' = {}
  BY DEF Crash, Working
<1>2. /\ running' = running /\ lost' = running /\ running[j] \in Nat
      /\ row' = row
  BY DEF Crash, rows, plan, IInv, TypeOK
<1>3. running[j] = Open(j)
  BY LedgerIsCount DEF IInv
<1> QED
  BY <1>1, <1>2, <1>3, FS_EmptySet DEF Open

-----------------------------------------------------------------------------
(* What each step leaves of the invariant.                                 *)

LEMMA InitInv == Init => IInv
<1> SUFFICES ASSUME Init PROVE IInv
  OBVIOUS
<1>1. TypeOK
  <2>1. /\ completed_runs \in [Job -> 0..MaxRuns] /\ running \in [Job -> Nat]
        /\ crashes \in 0..MaxCrashes /\ lost \in [Job -> Nat]
    BY SchedulesAssumption DEF Init
  <2>2. /\ row \in [Job -> {"new", "there", "removed"}]
        /\ enabled \subseteq {j \in Job : row[j] = "there"}
        /\ once \subseteq Job /\ repeat_count \subseteq Job /\ _running \subseteq Job
        /\ due \in [Job -> {"ahead", "now", "late"}]
    BY DEF Init
  <2>3. /\ _scheduler \in ticking \cup {None} /\ ticking \subseteq Timer
        /\ armed \in [Timer -> SUBSET Job]
        /\ building \in [Editor -> SUBSET Job] /\ up \in BOOLEAN
    BY DEF Init
  <2>4. /\ pc \in [Runner -> {"idle", "get", "claim", "start", "work", "discard"}]
        /\ job \in [Runner -> Job \cup {None}] /\ by \in [Runner -> FIRED_BY]
        /\ at \in [Editor -> {"idle", "stop", "start", "publish"}]
    BY DEF Init, FIRED_BY
  <2> QED
    BY <2>1, <2>2, <2>3, <2>4 DEF TypeOK
<1>2. Claimed /\ NoOverlap
  BY DEF Init, Claimed, NoOverlap, InRun
<1>3. Ledger
  <2>1. \A j \in Job : Working(j) = {} /\ running[j] = 0 /\ lost[j] = 0
    BY DEF Init, Working
  <2> QED
    BY <2>1, LedgerIsCount, FS_EmptySet DEF Open
<1> QED
  BY <1>1, <1>2, <1>3 DEF IInv

LEMMA FiresInv ==
  ASSUME IInv, NEW f \in Runner, NEW j \in Job,
         \/ \E s \in Timer : Trigger(f, s, j)
         \/ \E source \in SOURCES : Request(f, j, source)
  PROVE  IInv'
<1> USE DEF IInv
<1>1. PICK s \in SOURCES \cup Timer : Fires(f, j, s)
  BY DEF Trigger, Request
<1>2. /\ UNCHANGED <<rows, due, _running, _scheduler, ticking, editors, crashed>>
      /\ armed' \in [Timer -> SUBSET Job]
  BY DEF Trigger, Request, timers, TypeOK
<1>3. TypeOK'
  BY <1>1, <1>2 DEF TypeOK, Fires, Goes, FIRED_BY, rows, plan, editors, crashed
<1>4. Claimed' /\ NoOverlap'
  BY <1>1, <1>2 DEF TypeOK, Claimed, NoOverlap, InRun, Fires, Goes, rows, plan
<1>5. SameLedger
  BY <1>1, <1>2
     DEF TypeOK, SameLedger, Working, Fires, Goes, rows, plan, crashed
<1> QED
  BY <1>3, <1>4, <1>5, LedgerKept

LEMMA ClaimInv ==
  ASSUME IInv, NEW f \in Runner, Skip(f) \/ Get(f) \/ Claim(f) \/ Discard(f)
  PROVE  IInv'
<1> USE DEF IInv
<1>1. UNCHANGED <<rows, due, timers, editors, crashed>>
  BY DEF Skip, Get, Claim, Discard
<1>2. TypeOK'
  <2>1. /\ pc' \in [Runner -> {"idle", "get", "claim", "start", "work", "discard"}]
        /\ job' \in [Runner -> Job \cup {None}] /\ by' \in [Runner -> FIRED_BY]
        /\ _running' \subseteq Job
    BY DEF TypeOK, Claimed, Skip, Get, Claim, Discard, Ends, Goes, FIRED_BY
  <2> QED
    BY <1>1, <2>1 DEF TypeOK, rows, plan, timers, editors, crashed
<1>3. row' = row
  BY <1>1 DEF rows, plan
<1>4. Claimed' /\ NoOverlap'
  <2>1. CASE Skip(f)
    BY <1>3, <2>1 DEF TypeOK, Claimed, NoOverlap, InRun, Skip, Ends, Goes
  <2>2. CASE Get(f)
    BY <1>3, <2>2 DEF TypeOK, Claimed, NoOverlap, InRun, Get, Goes
  <2>3. CASE Claim(f)
    BY <1>3, <2>3 DEF TypeOK, Claimed, NoOverlap, InRun, Claim, Goes
  <2>4. CASE Discard(f)
    BY <1>3, <2>4 DEF TypeOK, Claimed, NoOverlap, InRun, Discard, Ends, Goes
  <2> QED
    BY <2>1, <2>2, <2>3, <2>4
<1>5. SameLedger
  <2>1. CASE Skip(f) \/ Discard(f)
    BY <1>1, <1>3, <2>1 DEF TypeOK, SameLedger, Working, Skip, Discard, Ends, Goes,
                      rows, crashed
  <2>2. CASE Get(f) \/ Claim(f)
    BY <1>1, <1>3, <2>2 DEF TypeOK, SameLedger, Working, Get, Claim, Goes, rows,
                      crashed
  <2> QED
    BY <2>1, <2>2
<1> QED
  BY <1>2, <1>4, <1>5, LedgerKept

LEMMA WorkInv ==
  ASSUME IInv, NEW f \in Runner, execution_start(f) \/ execution_finish(f)
  PROVE  IInv'
<1> USE DEF IInv
<1>1. CASE execution_start(f)
  <2>1. /\ UNCHANGED <<plan, enabled, completed_runs, due, _running, timers,
                       editors, crashed>>
        /\ pc[f] = "start"
    BY <1>1 DEF execution_start
  <2>2. \/ /\ pc' = [pc EXCEPT ![f] = "work"] /\ UNCHANGED <<job, by>>
        \/ /\ row[job[f]] = "removed" /\ pc' = [pc EXCEPT ![f] = "idle"]
           /\ job' = [job EXCEPT ![f] = None] /\ by' = [by EXCEPT ![f] = None]
    BY <1>1 DEF execution_start, Ends, Goes
  <2>3. TypeOK'
    BY <1>1, <2>1, <2>2, StartLedger
       DEF TypeOK, Claimed, plan, timers, editors, crashed, FIRED_BY
  <2>4. Claimed' /\ NoOverlap'
    BY <2>1, <2>2 DEF TypeOK, Claimed, NoOverlap, InRun, plan
  <2> QED
    BY <1>1, <2>3, <2>4, StartLedger
<1>2. CASE execution_finish(f)
  <2>1. /\ UNCHANGED <<plan, due, _running, timers, job, by, editors, crashed>>
        /\ pc[f] = "work" /\ pc' = [pc EXCEPT ![f] = "discard"]
        /\ enabled' \subseteq enabled
        /\ completed_runs' = [completed_runs EXCEPT ![job[f]] = Counted(job[f], @)]
    BY <1>2 DEF execution_finish, Goes
  <2>2. completed_runs' \in [Job -> 0..MaxRuns]
    <3>1. \A n \in 0..MaxRuns : Counted(job[f], n) \in 0..MaxRuns
      BY SchedulesAssumption DEF Counted
    <3> QED
      BY <2>1, <3>1 DEF TypeOK
  <2>3. TypeOK'
    BY <1>2, <2>1, <2>2, FinishLedger
       DEF TypeOK, plan, timers, editors, crashed
  <2>4. Claimed' /\ NoOverlap'
    BY <2>1 DEF TypeOK, Claimed, NoOverlap, InRun, plan
  <2> QED
    BY <1>2, <2>3, <2>4, FinishLedger
<1> QED
  BY <1>1, <1>2

LEMMA EditInv ==
  ASSUME IInv, NEW e \in Editor, Edit(e)
  PROVE  IInv'
<1> USE DEF IInv
<1>1. UNCHANGED <<completed_runs, _running, timers, runners, crashed>>
  BY DEF Edit, add, set_enabled, update, remove, Changes
<1>2. at' = [at EXCEPT ![e] = "stop"] /\ building' = building
  BY DEF Edit, add, set_enabled, update, remove, Changes, ThenReload, Moves
<1>3. PICK j \in Job :
        add(e, j) \/ set_enabled(e, j) \/ update(e, j) \/ remove(e, j)
  BY DEF Edit
<1>4. /\ row' \in [Job -> {"new", "there", "removed"}]
      /\ enabled' \subseteq {k \in Job : row'[k] = "there"}
      /\ once' \subseteq Job /\ repeat_count' \subseteq Job
      /\ due' \in [Job -> {"ahead", "now", "late"}]
  <2>1. CASE add(e, j)
    BY <2>1 DEF TypeOK, add, When
  <2>2. CASE set_enabled(e, j)
    BY <2>2 DEF TypeOK, set_enabled, plan
  <2>3. CASE update(e, j)
    BY <2>3 DEF TypeOK, update, When
  <2>4. CASE remove(e, j)
    BY <2>4 DEF TypeOK, remove
  <2> QED
    BY <1>3, <2>1, <2>2, <2>3, <2>4
<1>5. TypeOK'
  BY <1>1, <1>2, <1>4, EditLedger DEF TypeOK, timers, runners, crashed
<1>6. Claimed'
  BY <1>1 DEF Claimed, InRun, runners
<1>7. NoOverlap'
  <2>1. \A k \in Job : row[k] = "removed" => row'[k] = "removed"
    BY <1>3 DEF add, set_enabled, update, remove, plan, TypeOK
  <2> QED
    BY <1>1, <2>1 DEF NoOverlap, InRun, runners, TypeOK
<1> QED
  BY <1>5, <1>6, <1>7, EditLedger

LEMMA ReloadInv ==
  ASSUME IInv, NEW e \in Editor, Reload(e)
  PROVE  IInv'
<1> USE DEF IInv
<1>1. UNCHANGED <<plan, completed_runs, running, due, _running, pc, job, crashes, lost>>
  BY DEF Reload, stop, start, Publish, rows, runners, crashed
<1>2. /\ at' \in [Editor -> {"idle", "stop", "start", "publish"}]
      /\ building' \in [Editor -> SUBSET Job]
      /\ enabled' \subseteq enabled /\ up' \in BOOLEAN
  <2>1. CASE stop(e)
    BY <2>1 DEF TypeOK, stop, Moves, rows, crashed
  <2>2. CASE start(e)
    BY <2>2 DEF TypeOK, start, Moves, rows, crashed
  <2>3. CASE Publish(e)
    BY <2>3 DEF TypeOK, Publish, Moves, rows
  <2> QED
    BY <2>1, <2>2, <2>3 DEF Reload
<1>3. /\ _scheduler' \in ticking' \cup {None} /\ ticking' \subseteq Timer
      /\ armed' \in [Timer -> SUBSET Job]
  <2>1. CASE stop(e)
    BY <2>1 DEF TypeOK, stop
  <2>2. CASE start(e)
    BY <2>2 DEF TypeOK, start, timers
  <2>3. CASE Publish(e)
    <3>1. PICK s \in Timer : /\ ticking' = ticking \cup {s} /\ _scheduler' = s
                             /\ armed' = [armed EXCEPT ![s] = building[e]]
      BY <2>3 DEF TypeOK, Publish
    <3> QED
      BY <3>1 DEF TypeOK
  <2> QED
    BY <2>1, <2>2, <2>3 DEF Reload
<1>4. by' \in [Runner -> FIRED_BY]
  BY DEF Reload, stop, start, Publish, TypeOK, FIRED_BY, runners
<1>5. TypeOK'
  BY <1>1, <1>2, <1>3, <1>4 DEF TypeOK, plan
<1>6. Claimed' /\ NoOverlap' /\ SameLedger
  BY <1>1 DEF Claimed, NoOverlap, InRun, SameLedger, Working, plan
<1> QED
  BY <1>5, <1>6, LedgerKept

LEMMA TimeInv ==
  ASSUME IInv, NEW j \in Job, ComesDue(j) \/ Passes(j)
  PROVE  IInv'
<1> USE DEF IInv
<1>1. /\ UNCHANGED <<rows, _running, timers, runners, editors, crashed>>
      /\ due' \in [Job -> {"ahead", "now", "late"}]
  BY DEF ComesDue, Passes, TypeOK
<1>2. TypeOK'
  BY <1>1 DEF TypeOK, rows, plan, timers, runners, editors, crashed
<1>3. Claimed' /\ NoOverlap' /\ SameLedger
  BY <1>1 DEF Claimed, NoOverlap, InRun, SameLedger, Working, runners, rows,
              plan, crashed
<1> QED
  BY <1>2, <1>3, LedgerKept

LEMMA CrashInv ==
  ASSUME IInv, Crash
  PROVE  IInv'
<1> USE DEF IInv
<1>1. due' \in [Job -> {"ahead", "now", "late"}]
  BY DEF Crash, TypeOK
<1>2. crashes' \in 0..MaxCrashes
  BY SchedulesAssumption DEF Crash, TypeOK
<1>3. TypeOK'
  BY <1>1, <1>2 DEF Crash, TypeOK, rows, plan, FIRED_BY
<1>4. Claimed' /\ NoOverlap'
  BY DEF Crash, Claimed, NoOverlap, InRun
<1> QED
  BY <1>3, <1>4, CrashLedger

LEMMA NextInv == IInv /\ [Next]_vars => IInv'
<1> SUFFICES ASSUME IInv, [Next]_vars PROVE IInv'
  OBVIOUS
<1>1. ASSUME NEW f \in Runner, Run(f) PROVE IInv'
  BY <1>1, ClaimInv, WorkInv DEF Run
<1>2. CASE UNCHANGED vars
  <2>1. /\ TypeOK' /\ Claimed' /\ NoOverlap'
        /\ SameLedger
    BY <1>2 DEF vars, rows, plan, timers, runners, editors, crashed, IInv, TypeOK,
                Claimed, NoOverlap, InRun, SameLedger, Working
  <2> QED
    BY <2>1, LedgerKept DEF IInv
<1> QED
  BY <1>1, <1>2, FiresInv, EditInv, ReloadInv, TimeInv, CrashInv DEF Next

(* Claims, runs and rows of the ledger agree, and every variable keeps its *)
(* type, through any interleaving of fires, edits, reloads and crashes.    *)
THEOREM Invariance == Spec => []IInv
  BY InitInv, NextInv, PTL DEF Spec

(* Every variable of the model keeps to its type.                          *)
THEOREM Typed == Spec => []TypeOK
  BY Invariance, PTL DEF IInv

(* fire never runs a job twice at the same time, however many triggers,    *)
(* requests and reloads meet; and no job that has not been removed stays   *)
(* claimed when its run is over.                                           *)
THEOREM NeverOverlaps == Spec => []NoOverlap
  BY Invariance, PTL DEF IInv

(* The ledger has a running row for each run in progress and for each one  *)
(* a crash cut short, of a job that has not been removed, and for no other.*)
THEOREM LedgerIsTrue == Spec => []Ledger
  BY Invariance, PTL DEF IInv

-----------------------------------------------------------------------------
(* The timer objects, with one thread that edits and reloads.              *)

(* What is on and still to come: the jobs that a timer object must have a  *)
(* trigger of.                                                             *)
ToCome == {j \in enabled : j \in once => due[j] = "ahead"}

(* A reload ticks nothing while it builds, and what it builds has all that *)
(* is to come: nothing is switched on, and no time set, before it is over. *)
Reloading ==
  /\ ticking = {_scheduler} \ {None}
  /\ at[Boot] = "idle" => _scheduler # None /\ ToCome \subseteq armed[_scheduler]
  /\ at[Boot] \in {"start", "publish"} => _scheduler = None
  /\ at[Boot] = "publish" => ToCome \subseteq building[Boot]

LEMMA ReloadingStep ==
  ASSUME Editor = {Boot}, TypeOK, TypeOK', Reloading, [Next]_vars
  PROVE  Reloading'
<1> SUFFICES ASSUME Next PROVE Reloading'
  BY DEF vars, plan, rows, timers, editors, crashed, Reloading, ToCome
<1>1. ASSUME NEW f \in Runner, Run(f)
      PROVE  Reloading'
  <2>1. /\ enabled' \subseteq enabled
        /\ UNCHANGED <<once, due, timers, editors>>
    BY <1>1 DEF Run, Skip, Get, Claim, execution_start, execution_finish, Discard,
                rows, plan
  <2> QED
    BY <2>1 DEF Reloading, ToCome, timers, editors
<1>2. ASSUME NEW f \in Runner, NEW j \in Job, NEW s \in Timer, Trigger(f, s, j)
      PROVE  Reloading'
  <2>1. /\ UNCHANGED <<enabled, once, due, _scheduler, ticking, editors>>
        /\ armed' = [armed EXCEPT ![s] = @ \ ({j} \cap once)]
        /\ j \in once => due[j] = "now"
    BY <1>2 DEF Trigger, rows, plan
  <2>2. \A r \in Timer : armed[r] \cap ToCome \subseteq armed'[r]
    BY <2>1 DEF TypeOK, ToCome
  <2> QED
    BY <2>1, <2>2 DEF Reloading, ToCome, TypeOK, editors
<1>3. ASSUME NEW f \in Runner, NEW j \in Job, NEW source \in SOURCES,
             Request(f, j, source)
      PROVE  Reloading'
  BY <1>3 DEF Request, Reloading, ToCome, rows, plan, timers, editors
<1>4. ASSUME NEW e \in Editor, Edit(e)
      PROVE  Reloading'
  <2>1. e = Boot /\ at'[Boot] = "stop" /\ UNCHANGED timers
    BY <1>4 DEF Edit, add, set_enabled, update, remove, Changes, ThenReload, Moves,
                TypeOK
  <2> QED
    BY <2>1 DEF Reloading, timers
<1>5. ASSUME NEW e \in Editor, stop(e)
      PROVE  Reloading'
  <2>1. e = Boot /\ at'[Boot] = "start"
        /\ ticking' = ticking \ {_scheduler} /\ _scheduler' = None
    BY <1>5 DEF stop, Moves, TypeOK
  <2> QED
    BY <2>1 DEF Reloading
<1>6. ASSUME NEW e \in Editor, start(e)
      PROVE  Reloading'
  <2>1. e = Boot /\ at[Boot] = "start" /\ UNCHANGED <<once, due, timers>>
    BY <1>6 DEF start, rows, plan
  <2>2. _scheduler = None
    BY <2>1 DEF Reloading
  <2>3. at' = [at EXCEPT ![Boot] = "publish"] /\ at'[Boot] = "publish"
    BY <1>6, <2>1, <2>2 DEF start, Moves, TypeOK
  <2>4. building' = [building EXCEPT ![Boot] = enabled']
    BY <1>6, <2>1, <2>2 DEF start
  <2>5. enabled' = building'[Boot]
    BY <2>1, <2>4 DEF TypeOK
  <2> QED
    BY <2>1, <2>3, <2>5 DEF Reloading, ToCome, timers
<1>7. ASSUME NEW e \in Editor, Publish(e)
      PROVE  Reloading'
  <2>1. e = Boot /\ at[Boot] = "publish" /\ at'[Boot] = "idle"
        /\ UNCHANGED <<enabled, once, due>>
    BY <1>7 DEF Publish, Moves, TypeOK, rows, plan
  <2>2. PICK s \in Timer : /\ ticking' = ticking \cup {s} /\ _scheduler' = s
                           /\ armed' = [armed EXCEPT ![s] = building[Boot]]
    BY <1>7, <2>1 DEF Publish, TypeOK
  <2> QED
    BY <2>1, <2>2, SchedulesAssumption DEF Reloading, ToCome, TypeOK
<1>8. ASSUME NEW j \in Job, ComesDue(j) \/ Passes(j)
      PROVE  Reloading'
  <2>1. /\ UNCHANGED <<enabled, once, timers, editors>>
        /\ \A k \in Job : due'[k] = "ahead" => due[k] = "ahead"
    BY <1>8 DEF ComesDue, Passes, rows, plan, TypeOK
  <2> QED
    BY <2>1 DEF Reloading, ToCome, TypeOK, timers, editors
<1>9. CASE Crash
  <2>1. at'[Boot] = "start" /\ ticking' = {} /\ _scheduler' = None
    BY <1>9, SchedulesAssumption DEF Crash
  <2> QED
    BY <2>1 DEF Reloading
<1> QED
  BY <1>1, <1>2, <1>3, <1>4, <1>5, <1>6, <1>7, <1>8, <1>9 DEF Next, Reload

LEMMA ReloadingInit == Editor = {Boot} /\ Init => Reloading
  BY SchedulesAssumption DEF Init, Reloading

(* Without a second thread that edits, a change never waits for a restart, *)
(* and no reload leaves a timer object behind.                             *)
THEOREM AllArmed ==
  ASSUME Editor = {Boot}
  PROVE  Spec => []Armed
<1>1. Init => Reloading
  BY ReloadingInit
<1>2. TypeOK /\ TypeOK' /\ Reloading /\ [Next]_vars => Reloading'
  BY ReloadingStep
<1>3. Reloading => Armed
  BY SchedulesAssumption DEF Reloading, Armed, Settled, ToCome
<1> QED
  BY <1>1, <1>2, <1>3, Typed, PTL DEF Spec
=============================================================================
