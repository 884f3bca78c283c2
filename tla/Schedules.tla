----------------------------- MODULE Schedules ------------------------------
(***************************************************************************)
(* Scheduled jobs (schedule.py) and the routes and the tool that change    *)
(* and run them (app.py): the rows in SQLite, the claims and the ledger of *)
(* executions, and the timer objects that reload builds and shuts down.    *)
(*                                                                         *)
(* A job is one-shot or recurrent; a one-shot lies ahead, is due, or is    *)
(* more than two minutes late.  A repeat_count is 1, which a one-shot gets *)
(* when it is added, or none.                                              *)
(***************************************************************************)
EXTENDS Naturals, FiniteSets

CONSTANTS
  Job,            \* the jobs
  Runner,         \* threads that fire: of the timer's pool, routes, the tool
  Editor,         \* threads that change jobs and reload
  Boot,           \* the editor that starts the scheduler with the Gateway
  Timer,          \* the BackgroundScheduler objects there may be at a time
  None,
  MaxRuns,        \* bound on the runs counted for a job
  MaxCrashes

ASSUME SchedulesAssumption ==
  /\ Boot \in Editor /\ None \notin Timer \cup Job
  /\ {"dashboard", "tool", "stopped"} \cap Timer = {}
  /\ IsFiniteSet(Runner) /\ IsFiniteSet(Timer)
  /\ MaxRuns \in Nat \ {0} /\ MaxCrashes \in Nat

VARIABLES
  row,            \* of a job: not made yet, there, or removed
  enabled, once, repeat_count,    \* the jobs on, of kind once, to run once
  completed_runs,
  due,            \* when a one-shot runs: ahead, now or late
  running,        \* rows of the ledger that say running, for each job
  _running,       \* the jobs claimed
  _scheduler,     \* the timer object the Scheduler knows
  ticking, armed, \* the timer objects started; the jobs each has a trigger of
  pc, job, by,    \* of a runner: its step, its job, and what fired it
  at, building,   \* of an editor: its step, and the timer object it builds
  up,             \* lifespan has started the scheduler: requests are served
  crashes, lost   \* crashes, and ledger rows whose thread died

plan    == <<row, once, repeat_count>>
rows    == <<plan, enabled, completed_runs, running>>
timers  == <<_scheduler, ticking, armed>>
runners == <<pc, job, by>>
editors == <<at, building>>
crashed == <<up, crashes, lost>>
vars    == <<rows, due, _running, timers, runners, editors, crashed>>

SOURCES == {"dashboard", "tool"}
FIRED_BY == SOURCES \cup Timer \cup {None, "stopped"}

TypeOK ==
  /\ row \in [Job -> {"new", "there", "removed"}]
  /\ enabled \subseteq {j \in Job : row[j] = "there"}
  /\ once \subseteq Job /\ repeat_count \subseteq Job
  /\ completed_runs \in [Job -> 0..MaxRuns]
  /\ due \in [Job -> {"ahead", "now", "late"}]
  /\ running \in [Job -> Nat]
  /\ _running \subseteq Job
  /\ _scheduler \in ticking \cup {None} /\ ticking \subseteq Timer
  /\ armed \in [Timer -> SUBSET Job]
  /\ pc \in [Runner -> {"idle", "get", "claim", "start", "work", "discard"}]
  /\ job \in [Runner -> Job \cup {None}] /\ by \in [Runner -> FIRED_BY]
  /\ at \in [Editor -> {"idle", "stop", "start", "publish"}]
  /\ building \in [Editor -> SUBSET Job]
  /\ up \in BOOLEAN /\ crashes \in 0..MaxCrashes /\ lost \in [Job -> Nat]

Init ==
  /\ row = [j \in Job |-> "new"] /\ enabled = {} /\ once = {} /\ repeat_count = {}
  /\ completed_runs = [j \in Job |-> 0] /\ due = [j \in Job |-> "ahead"]
  /\ running = [j \in Job |-> 0] /\ _running = {}
  /\ _scheduler = None /\ ticking = {} /\ armed = [s \in Timer |-> {}]
  /\ pc = [f \in Runner |-> "idle"] /\ job = [f \in Runner |-> None]
  /\ by = [f \in Runner |-> None]
  /\ at = [e \in Editor |-> IF e = Boot THEN "start" ELSE "idle"]
  /\ building = [e \in Editor |-> {}]
  /\ up = FALSE /\ crashes = 0 /\ lost = [j \in Job |-> 0]

----------------------------------------------------------------------------
(* fire                                                                    *)

Goes(f, to) == pc' = [pc EXCEPT ![f] = to]

Ends(f) ==
  /\ Goes(f, "idle")
  /\ job' = [job EXCEPT ![f] = None] /\ by' = [by EXCEPT ![f] = None]

Fires(f, j, source) ==
  /\ pc[f] = "idle"
  /\ Goes(f, "get")
  /\ job' = [job EXCEPT ![f] = j] /\ by' = [by EXCEPT ![f] = source]

\* A trigger is due: a timer object runs a job once at a time, and drops the
\* trigger of a one-shot.
Trigger(f, s, j) ==
  /\ s \in ticking /\ j \in armed[s]
  /\ j \in once => due[j] = "now"
  /\ \A g \in Runner : ~(job[g] = j /\ by[g] = s)
  /\ Fires(f, j, s)
  /\ armed' = [armed EXCEPT ![s] = @ \ ({j} \cap once)]
  /\ UNCHANGED <<rows, due, _running, _scheduler, ticking, editors, crashed>>

\* Run now, on the dashboard or through the cronjob tool.
Request(f, j, source) ==
  /\ up /\ row[j] # "new"
  /\ Fires(f, j, source)
  /\ UNCHANGED <<rows, due, _running, timers, editors, crashed>>

\* A job removed or paused is skipped; the dashboard runs a paused one.
Skip(f) ==
  /\ \/ pc[f] = "get" /\ row[job[f]] # "there"
     \/ pc[f] = "get" /\ job[f] \notin enabled /\ by[f] # "dashboard"
     \/ pc[f] = "claim" /\ job[f] \in _running
  /\ Ends(f)
  /\ UNCHANGED <<rows, due, _running, timers, editors, crashed>>

Get(f) ==
  /\ pc[f] = "get" /\ row[job[f]] = "there"
  /\ job[f] \in enabled \/ by[f] = "dashboard"
  /\ Goes(f, "claim")
  /\ UNCHANGED <<rows, due, _running, timers, job, by, editors, crashed>>

Claim(f) ==
  /\ pc[f] = "claim" /\ job[f] \notin _running
  /\ _running' = _running \cup {job[f]}
  /\ Goes(f, "start")
  /\ UNCHANGED <<rows, due, timers, job, by, editors, crashed>>

\* The foreign key refuses a row of the ledger for a job removed since it was
\* read: fire raises before its try, and the claim stays.
execution_start(f) ==
  /\ pc[f] = "start"
  /\ \/ /\ row[job[f]] = "there"
        /\ running' = [running EXCEPT ![job[f]] = @ + 1]
        /\ Goes(f, "work") /\ UNCHANGED <<job, by>>
     \/ /\ row[job[f]] = "removed"
        /\ Ends(f) /\ UNCHANGED running
  /\ UNCHANGED <<plan, enabled, completed_runs, due, _running, timers, editors,
                 crashed>>

Counted(j, n) == IF row[j] = "there" /\ n < MaxRuns THEN n + 1 ELSE n

\* Removing the job has removed its rows of the ledger, open ones too.
Closed(j, n) == IF row[j] = "removed" THEN n ELSE n - 1

Spent(j) == j \in repeat_count /\ row[j] = "there"

\* fault: a failed run leaves its ledger row as it is.
execution_finish_if_ok(f) ==
  LET j == job[f]
  IN  /\ pc[f] = "work"
      /\ \E ok \in BOOLEAN :
           running' = [running EXCEPT ![j] = IF ok THEN Closed(j, @) ELSE @]
      /\ completed_runs' = [completed_runs EXCEPT ![j] = Counted(j, @)]
      /\ enabled' = IF Spent(j) THEN enabled \ {j} ELSE enabled
      /\ Goes(f, "discard")
      /\ UNCHANGED <<plan, due, _running, timers, job, by, editors, crashed>>

\* The action or the agent has run, and what it returned is delivered, or one
\* of them raised.  One transaction closes the ledger row, counts the run, and
\* disables a job that has had its repeat_count, whoever asked for the run.
execution_finish(f) ==
  LET j == job[f]
  IN  /\ pc[f] = "work"
      /\ running' = [running EXCEPT ![j] = Closed(j, @)]
      /\ completed_runs' = [completed_runs EXCEPT ![j] = Counted(j, @)]
      /\ enabled' = IF Spent(j) THEN enabled \ {j} ELSE enabled
      /\ Goes(f, "discard")
      /\ UNCHANGED <<plan, due, _running, timers, job, by, editors, crashed>>

\* fault: only a run of the schedule gives its claim back.
DiscardOwn(f) ==
  /\ pc[f] = "discard"
  /\ _running' = IF by[f] \in Timer THEN _running \ {job[f]} ELSE _running
  /\ Ends(f)
  /\ UNCHANGED <<rows, due, timers, editors, crashed>>

Discard(f) ==
  /\ pc[f] = "discard"
  /\ _running' = _running \ {job[f]}
  /\ Ends(f)
  /\ UNCHANGED <<rows, due, timers, editors, crashed>>

Run(f) ==
  \/ Skip(f) \/ Get(f) \/ Claim(f) \/ execution_start(f)
  \/ execution_finish(f) \/ Discard(f)

----------------------------------------------------------------------------
(* Changing jobs, and reload.                                              *)

Moves(e, to) == at' = [at EXCEPT ![e] = to]

\* Every change is followed by a reload.
ThenReload(e) == Moves(e, "stop") /\ UNCHANGED building

Changes(e) ==
  /\ up /\ at[e] = "idle" /\ ThenReload(e)
  /\ UNCHANGED <<completed_runs, _running, timers, runners, crashed>>

\* parse_when: a moment that lies ahead, or something recurrent.
When(j) ==
  /\ due' = [due EXCEPT ![j] = "ahead"]
  /\ once' \in {once \cup {j}, once \ {j}}

add(e, j) ==
  /\ row[j] = "new"
  /\ row' = [row EXCEPT ![j] = "there"] /\ enabled' = enabled \cup {j}
  /\ When(j)
  /\ repeat_count' = repeat_count \cup ({j} \cap once')
  /\ Changes(e) /\ UNCHANGED running

set_enabled(e, j) ==
  /\ row[j] = "there"
  /\ enabled' \in {enabled \cup {j}, enabled \ {j}}
  /\ Changes(e) /\ UNCHANGED <<plan, due, running>>

\* A new time.  Whether the job is on, and how often it may run, stays.
update(e, j) ==
  /\ row[j] = "there"
  /\ When(j)
  /\ Changes(e) /\ UNCHANGED <<row, repeat_count, enabled, running>>

\* The rows of the ledger go with the job (ON DELETE CASCADE), that of a run in
\* progress too.
remove(e, j) ==
  /\ row[j] = "there"
  /\ row' = [row EXCEPT ![j] = "removed"] /\ enabled' = enabled \ {j}
  /\ running' = [running EXCEPT ![j] = 0]
  /\ Changes(e) /\ UNCHANGED <<once, repeat_count, due>>

Edit(e) ==
  \E j \in Job : add(e, j) \/ set_enabled(e, j) \/ update(e, j) \/ remove(e, j)

\* fault: the timer object is forgotten and ticks on.
Forget(e) ==
  /\ at[e] = "stop"
  /\ _scheduler' = None
  /\ Moves(e, "start")
  /\ UNCHANGED <<rows, due, _running, ticking, armed, runners, building, crashed>>

\* stop: jobs that are running are not waited for.
stop(e) ==
  /\ at[e] = "stop"
  /\ ticking' = ticking \ {_scheduler}
  /\ armed' = [s \in Timer |-> IF s = _scheduler THEN {} ELSE armed[s]]
  /\ _scheduler' = None
  /\ by' = [f \in Runner |-> IF by[f] \in Timer /\ by[f] = _scheduler
                              THEN "stopped" ELSE by[f]]
  /\ Moves(e, "start")
  /\ UNCHANGED <<rows, due, _running, pc, job, building, crashed>>

\* fault: a one-shot that is due gets no trigger.
startAhead(e) ==
  LET late == {j \in once : due[j] = "late"}
  IN  /\ at[e] = "start"
      /\ IF _scheduler # None THEN Moves(e, "idle") /\ UNCHANGED <<enabled, building>>
         ELSE /\ building' = [building EXCEPT
                   ![e] = {j \in enabled \ late : j \in once => due[j] = "ahead"}]
              /\ enabled' = enabled \ late
              /\ Moves(e, "publish")
      /\ UNCHANGED <<plan, completed_runs, running, due, _running, timers,
                     runners, crashed>>

\* start: nothing to do if another thread has started a timer object; else a
\* trigger for every enabled job, and a one-shot more than two minutes late is
\* disabled.  (A job whose registration raises, which gets a failed run in the
\* ledger and no trigger, is left out: parse_when has accepted them all.)
start(e) ==
  LET late == {j \in once : due[j] = "late"}
  IN  /\ at[e] = "start"
      /\ IF _scheduler # None THEN Moves(e, "idle") /\ UNCHANGED <<enabled, building>>
         ELSE /\ building' = [building EXCEPT ![e] = enabled \ late]
              /\ enabled' = enabled \ late
              /\ Moves(e, "publish")
      /\ UNCHANGED <<plan, completed_runs, running, due, _running, timers,
                     runners, crashed>>

Publish(e) ==
  /\ at[e] = "publish" /\ ticking # Timer
  /\ LET s == CHOOSE s \in Timer : s \notin ticking
     IN
       /\ ticking' = ticking \cup {s}
       /\ armed' = [armed EXCEPT ![s] = building[e]]
       /\ _scheduler' = s
  /\ building' = [building EXCEPT ![e] = {}]
  /\ up' = TRUE
  /\ Moves(e, "idle")
  /\ UNCHANGED <<rows, due, _running, runners, crashes, lost>>

Reload(e) ==
  stop(e) \/ start(e) \/ Publish(e)

----------------------------------------------------------------------------
(* Time and crashes.                                                       *)

ComesDue(j) ==
  /\ j \in once /\ due[j] = "ahead" /\ row[j] = "there"
  /\ due' = [due EXCEPT ![j] = "now"]
  /\ UNCHANGED <<rows, _running, timers, runners, editors, crashed>>

\* Two minutes are longer than a reload, or than a trigger that is due waits
\* for a thread; so are the five (misfire_grace_time) after which a trigger is
\* dropped, which a machine asleep exceeds.  Sleep is left out.
Passes(j) ==
  /\ due[j] = "now" /\ \A e \in Editor : at[e] = "idle"
  /\ \A s \in ticking : j \notin armed[s]
  /\ due' = [due EXCEPT ![j] = "late"]
  /\ UNCHANGED <<rows, _running, timers, runners, editors, crashed>>

\* The rows survive, those of the ledger that say running too; nothing
\* corrects them.  The Gateway may stay down for long.
Crash ==
  /\ crashes < MaxCrashes /\ crashes' = crashes + 1
  /\ \/ due' = [j \in Job |-> IF due[j] = "now" THEN "late" ELSE due[j]]
     \/ UNCHANGED due
  /\ lost' = running
  /\ up' = FALSE
  /\ _running' = {} /\ _scheduler' = None /\ ticking' = {}
  /\ armed' = [s \in Timer |-> {}]
  /\ pc' = [f \in Runner |-> "idle"] /\ job' = [f \in Runner |-> None]
  /\ by' = [f \in Runner |-> None]
  /\ at' = [e \in Editor |-> IF e = Boot THEN "start" ELSE "idle"]
  /\ building' = [e \in Editor |-> {}]
  /\ UNCHANGED rows

Next ==
  \/ \E f \in Runner :
       \/ Run(f)
       \/ \E j \in Job : \/ \E s \in Timer : Trigger(f, s, j)
                         \/ \E source \in SOURCES : Request(f, j, source)
  \/ \E e \in Editor : Edit(e) \/ Reload(e)
  \/ \E j \in Job : ComesDue(j) \/ Passes(j)
  \/ Crash

\* A run ends: the model and the tools carry time limits.  A reload has
\* nothing to wait for.  The one-shot that is due fires at once when a timer
\* object is up: changes to the jobs do not follow each other that fast.
Fairness ==
  /\ \A f \in Runner : WF_vars(Run(f))
  /\ \A e \in Editor : WF_vars(Reload(e))
  /\ \A j \in Job : SF_vars(\E f \in Runner, s \in Timer :
                              j \in once /\ Trigger(f, s, j))

Spec == Init /\ [][Next]_vars /\ Fairness

----------------------------------------------------------------------------
(* Properties.                                                             *)

InRun(f) == pc[f] \in {"start", "work", "discard"}

\* A job never runs twice at the same time, whether two triggers, the
\* dashboard and the tool fire it, and whatever is reloaded meanwhile.  Nor is
\* it skipped as running when it is not: the claim of a job that has not been
\* removed is that of a run, and goes with it.  (A removed job's may stay; the
\* row numbers are not used again.)
NoOverlap ==
  /\ \A f, g \in Runner : InRun(f) /\ InRun(g) /\ job[f] = job[g] => f = g
  /\ \A j \in _running :
       row[j] # "removed" => \E f \in Runner : InRun(f) /\ job[f] = j

\* The ledger is true: a row says running for each run in progress, and for
\* each run a crash cut short, and for no other; a removed job has no row.
Ledger ==
  \A j \in Job :
    running[j] = IF row[j] = "removed" THEN 0
                 ELSE lost[j]
                      + Cardinality({f \in Runner : job[f] = j /\ pc[f] = "work"})

Settled == \A e \in Editor : at[e] = "idle"

\* What is enabled will fire, and fire once: when every reload is over, one
\* timer object ticks, and it has a trigger of every job that is on and still
\* to come.  None is left behind that would fire every job again.
Armed ==
  Settled =>
    /\ ticking = {_scheduler}
    /\ \A j \in enabled : (j \in once => due[j] = "ahead") => j \in armed[_scheduler]

\* A one-shot that has not run, and is on when it comes due, is fired, unless
\* it is changed or switched off, or the Gateway was down until it was late: a
\* reload at that very moment does not lose it.
DueFires ==
  \A j \in Job :
    (j \in enabled \cap once /\ due[j] = "now" /\ completed_runs[j] = 0)
      ~> (j \notin enabled \cap once \/ due[j] = "ahead"
            \/ \E f \in Runner : job[f] = j)
=============================================================================
