----------------------------- MODULE SubAgents -----------------------------
(***************************************************************************)
(* The sub-agent runner (services/gateway/.../subagents.py, acp_coders.py) *)
(* with the confirmation tokens its jobs wait on and the surfaces that     *)
(* settle them (app.py).                                                   *)
(*                                                                         *)
(* A job has a thread: a loop of rounds for the Gateway's own sub-agents,  *)
(* one ACP session for an outside coder.  A tool call that needs the owner *)
(* becomes a token and a wait.  A sub-agent's thread does its own waiting, *)
(* so it waits on one token at a time; an outside coder's permission       *)
(* requests are each given a thread (asyncio.to_thread), so it may wait on *)
(* several.  Runner._lock is held across a step where the code holds it.   *)
(*                                                                         *)
(* The store is the one of TokenStore with expiry in one step;             *)
(* Confirmations.tla looks at that path more closely.                      *)
(***************************************************************************)
EXTENDS TokenStore, Sequences

CONSTANTS
  Job,         \* the jobs a behaviour can start
  Coder,       \* those of them that are outside coders' (_start_outside)
  Single,      \* the jobs of one agent in SINGLE
  Settler,     \* the surfaces that can be settling a token at once
  MaxRunning,  \* MAX_RUNNING
  Rounds,      \* Job.rounds
  Calls,       \* bound on the tool calls of one round
  Repeats      \* REPEATS

ASSUME JobAssumption == Coder \subseteq Job /\ Single \subseteq Job \ Coder
ASSUME BoundAssumption ==
  /\ MaxRunning \in Nat \ {0} /\ Rounds \in Nat \ {0}
  /\ Calls \in Nat \ {0} /\ Repeats \in Nat \ {0}

VARIABLES
  state,     \* Job.state, "none" before the start
  report,    \* Job.exit_reason; "none" while finished_at is zero
  stop,      \* Job.stop
  token,     \* Job.token
  answered,  \* Job.answered
  outcome,   \* Job.outcome
  pc,        \* where the job's thread stands
  round,     \* the round it is in
  calls,     \* tool calls left in this round
  fails,     \* identical failures in a row
  wait,      \* where the wait on each token stands
  by,        \* the job that waits on each token
  told,      \* what the wait on each token came back with
  waiting,   \* Runner._waiting
  settling,  \* Runner._settling
  settler,   \* each settling surface: where it stands, token, result
  ending,    \* calls of _end in progress, by the owner's stop or the watcher
  watching,  \* Runner._watching
  seen,      \* the watcher's list of jobs still to look at
  ran        \* history: what was executed under each token

jobVars    == <<state, report, stop, token, answered, outcome>>
threadVars == <<pc, round, calls, fails>>
waitVars   == <<wait, by, told, waiting, settling>>
watchVars  == <<ending, watching, seen>>
vars == <<storeVars, jobVars, threadVars, waitVars, settler, watchVars, ran>>

State   == {"none", "running", "awaiting_approval",
            "completed", "failed", "interrupted"}
Report  == {"none", "completed", "stopped", "stalled", "error"}
Outcome == {"none", "executed", "failed", "denied", "expired", "stopped"}
JobPc   == {"new", "round", "model", "tools", "acting", "asking",
            "worked", "failed", "turn", "done"}
WaitPc  == {"none", "issued", "waiting", "gone", "closing", "done", "broken"}
IdleSettler == [pc |-> "idle", tok |-> None, result |-> "none"]

TypeOK ==
  /\ StoreTypeOK
  /\ state \in [Job -> State] /\ report \in [Job -> Report]
  /\ stop \in [Job -> BOOLEAN]
  /\ token \in [Job -> Token \cup {None}]
  /\ answered \in [Job -> BOOLEAN] /\ outcome \in [Job -> Outcome]
  /\ pc \in [Job -> JobPc] /\ round \in [Job -> Nat]
  /\ calls \in [Job -> 0..Calls] /\ fails \in [Job -> 0..Repeats]
  /\ wait \in [Token -> WaitPc] /\ by \in [Token -> Job \cup {None}]
  /\ told \in [Token -> Outcome]
  /\ waiting \subseteq Token /\ settling \subseteq Token
  /\ settler \in [Settler -> [pc : {"idle", "taken", "run", "answer"},
                              tok : Token \cup {None}, result : Outcome]]
  /\ ending \subseteq Job \X {"stopped", "stalled"}
  /\ watching \in BOOLEAN /\ seen \subseteq Job
  /\ ran \in [Token -> Seq(Act)]

Init ==
  /\ StoreInit
  /\ state = [j \in Job |-> "none"] /\ report = [j \in Job |-> "none"]
  /\ stop = [j \in Job |-> FALSE]
  /\ token = [j \in Job |-> None]
  /\ answered = [j \in Job |-> FALSE] /\ outcome = [j \in Job |-> "none"]
  /\ pc = [j \in Job |-> "new"] /\ round = [j \in Job |-> 0]
  /\ calls = [j \in Job |-> 0] /\ fails = [j \in Job |-> 0]
  /\ wait = [t \in Token |-> "none"] /\ by = [t \in Token |-> None]
  /\ told = [t \in Token |-> "none"]
  /\ waiting = {} /\ settling = {}
  /\ settler = [s \in Settler |-> IdleSettler]
  /\ ending = {} /\ watching = FALSE /\ seen = {}
  /\ ran = [t \in Token |-> <<>>]

-----------------------------------------------------------------------------
Live(j) == state[j] \in {"running", "awaiting_approval"}

(* Fault: the last caller's verdict stands.                                *)
EndAgain(j, s, reason) ==
  state' = [state EXCEPT ![j] = s] /\ report' = [report EXCEPT ![j] = reason]

(* _end: the first caller's verdict stands.                                *)
End(j, s, reason) ==
  IF report[j] # "none" THEN UNCHANGED <<state, report>>
  ELSE /\ state'  = [state EXCEPT ![j] = s]
       /\ report' = [report EXCEPT ![j] = reason]

At(j, place) == pc' = [pc EXCEPT ![j] = place]

(* A job is refused when MAX_RUNNING are live.                             *)
RoomForAnother == Cardinality({k \in Job : Live(k)}) <= MaxRunning   \* fault
Room == Cardinality({k \in Job : Live(k)}) < MaxRunning

(* _watch: a watcher is started unless there is one.                       *)
WatchOwn(j) == watching' = (watching \/ j \notin Coder)   \* fault: no coder's
Watch(j) == watching' = TRUE

(* Runner.start and _start_outside.                                        *)
Start(j) ==
  /\ state[j] = "none"
  /\ j \in Single => \A k \in Single : ~ Live(k)
  /\ Room
  /\ state' = [state EXCEPT ![j] = "running"]
  /\ Watch(j)
  /\ At(j, IF j \in Coder THEN "turn" ELSE "round")
  /\ UNCHANGED <<storeVars, report, stop, token, answered, outcome,
                 round, calls, fails, waitVars, settler, ending, seen, ran>>

-----------------------------------------------------------------------------
(* A sub-agent's thread: Runner._run.                                      *)

Stopped(j) == stop[j] \/ ~ Live(j)

RoundStart(j) ==
  /\ pc[j] = "round"
  /\ \/ /\ round[j] <= Rounds /\ ~ Stopped(j)
        /\ At(j, "model") /\ UNCHANGED <<state, report>>
     \/ /\ round[j] <= Rounds /\ Stopped(j)
        /\ End(j, "interrupted", "stopped") /\ At(j, "done")
     \/ /\ round[j] > Rounds
        /\ End(j, "completed", "completed") /\ At(j, "done")
  /\ UNCHANGED <<storeVars, stop, token, answered, outcome, round, calls,
                 fails, waitVars, settler, watchVars, ran>>

(* The model answers with a report, with calls, or by raising.             *)
ModelReturns(j) ==
  /\ pc[j] = "model"
  /\ \/ /\ Stopped(j) /\ End(j, "interrupted", "stopped")
        /\ At(j, "done") /\ UNCHANGED calls
     \/ /\ ~ Stopped(j) /\ End(j, "completed", "completed")
        /\ At(j, "done") /\ UNCHANGED calls
     \/ /\ End(j, "failed", "error") /\ At(j, "done") /\ UNCHANGED calls
     \/ /\ ~ Stopped(j) /\ At(j, "tools")
        /\ \E n \in 1..Calls : calls' = [calls EXCEPT ![j] = n]
        /\ UNCHANGED <<state, report>>
  /\ UNCHANGED <<storeVars, stop, token, answered, outcome, round, fails,
                 waitVars, settler, watchVars, ran>>

(* One call has its result: on to the next call, or the next round.        *)
Called(j) ==
  /\ calls' = [calls EXCEPT ![j] = @ - 1]
  /\ IF calls[j] = 1
     THEN At(j, "round") /\ round' = [round EXCEPT ![j] = @ + 1]
     ELSE At(j, "tools") /\ UNCHANGED round

Worked(j) ==
  /\ Called(j)
  /\ fails' = [fails EXCEPT ![j] = 0]
  /\ UNCHANGED <<state, report>>

(* A failure may repeat the last one or be another.                        *)
Failed(j) ==
  \E n \in {1, fails[j] + 1} :
    /\ fails' = [fails EXCEPT ![j] = n]
    /\ IF n >= Repeats
       THEN At(j, "done") /\ End(j, "failed", "error") /\ UNCHANGED <<calls, round>>
       ELSE Called(j) /\ UNCHANGED <<state, report>>

(* _tool: nothing is sent once the job was stopped; a call that is refused *)
(* fails at once; the others are dispatched.                               *)
ToolCall(j) ==
  /\ pc[j] = "tools"
  /\ \/ stop[j] /\ Worked(j)
     \/ ~ stop[j] /\ Failed(j)
     \/ ~ stop[j] /\ At(j, "acting") /\ UNCHANGED <<round, calls, fails, state, report>>
  /\ UNCHANGED <<storeVars, stop, token, answered, outcome, waitVars, settler,
                 watchVars, ran>>

(* A dispatched call that needed no confirmation returns or raises.        *)
ToolReturns(j) ==
  /\ pc[j] = "acting"
  /\ \/ Worked(j)
     \/ Failed(j)
     \/ At(j, "done") /\ End(j, "failed", "error") /\ UNCHANGED <<round, calls, fails>>
  /\ UNCHANGED <<storeVars, stop, token, answered, outcome, waitVars, settler,
                 watchVars, ran>>

(* The dispatched call needed confirmation: issue_confirmation ran, and    *)
(* from here the owner can answer.                                         *)
Ask(j, t) ==
  /\ pc[j] = IF j \in Coder THEN "turn" ELSE "acting"
  /\ \E a \in Act : Issue(t, a)
  /\ wait' = [wait EXCEPT ![t] = "issued"]
  /\ by' = [by EXCEPT ![t] = j]
  /\ IF j \in Coder THEN UNCHANGED pc ELSE At(j, "asking")
  /\ UNCHANGED <<jobVars, round, calls, fails, told, waiting, settling, settler,
                 watchVars, ran>>

-----------------------------------------------------------------------------
(* An outside coder's thread: acp_coders._session.                         *)

(* The session ends, with whatever reason the coder gives, or fails.       *)
TurnEnds(j) ==
  /\ pc[j] = "turn"
  /\ \/ End(j, "completed", "completed")
     \/ stop[j] /\ End(j, "interrupted", "stopped")
     \/ End(j, "failed", "error")
  /\ At(j, "done")
  /\ UNCHANGED <<storeVars, stop, token, answered, outcome, round, calls,
                 fails, waitVars, settler, watchVars, ran>>

(* TIMEOUT passes: the job is over, the session is only asked to cancel.   *)
(* A stop raised since the last look does not hide that it is late.        *)
TurnLate(j) ==
  /\ pc[j] = "turn" /\ report[j] = "none"
  /\ End(j, "failed", "stalled")
  /\ UNCHANGED <<storeVars, stop, token, answered, outcome, threadVars,
                 waitVars, settler, watchVars, ran>>

-----------------------------------------------------------------------------
(* Waiting for the owner: _await_approval(job, ..., t).                    *)

(* A new wait starts with no answer.                                       *)
OldAnswer(j) == UNCHANGED <<answered, outcome>>   \* fault: with the last one
Unanswered(j) ==
  /\ answered' = [answered EXCEPT ![j] = FALSE]
  /\ outcome' = [outcome EXCEPT ![j] = "none"]

Register(t) ==
  LET j == by[t] IN
  /\ wait[t] = "issued"
  /\ wait' = [wait EXCEPT ![t] = "waiting"]
  /\ state' = [state EXCEPT ![j] = "awaiting_approval"]
  /\ token' = [token EXCEPT ![j] = t]
  /\ Unanswered(j)
  /\ waiting' = waiting \cup {t}
  /\ UNCHANGED <<storeVars, report, stop, threadVars, by, told, settling,
                 settler, watchVars, ran>>

(* The ways out of the polling loop, in the order it looks.                *)
LeaveAtOnce(t, said) ==       \* fault: out of the wait, past its last section
  /\ wait' = [wait EXCEPT ![t] = "done"]
  /\ told' = [told EXCEPT ![t] = said]
  /\ UNCHANGED <<storeVars, jobVars, threadVars, by, waiting, settling, settler,
                 watchVars, ran>>
Leave(t, said) ==
  /\ wait' = [wait EXCEPT ![t] = "closing"]
  /\ told' = [told EXCEPT ![t] = said]
  /\ UNCHANGED <<storeVars, jobVars, threadVars, by, waiting, settling, settler,
                 watchVars, ran>>

Polling(t) == wait[t] \in {"waiting", "gone"}
Gone(t)    == t \notin settling /\ t \notin pending

HearAnswer(t) == Polling(t) /\ answered[by[t]] /\ Leave(t, "none")
HearStop(t)   == Polling(t) /\ ~ answered[by[t]] /\ stop[by[t]] /\ Leave(t, "stopped")

(* The token is neither pending nor being settled, or is again.            *)
Notice(t) ==
  /\ Polling(t) /\ ~ answered[by[t]] /\ ~ stop[by[t]]
  /\ wait[t] = (IF Gone(t) THEN "waiting" ELSE "gone")
  /\ wait' = [wait EXCEPT ![t] = IF Gone(t) THEN "gone" ELSE "waiting"]
  /\ UNCHANGED <<storeVars, jobVars, threadVars, by, told, waiting, settling,
                 settler, watchVars, ran>>

(* It stayed gone for APPROVAL_GRACE.  The timing assumption is that a      *)
(* surface that has taken a token needs far less than that for all it does *)
(* but run the action.                                                     *)
GiveUp(t) ==
  /\ wait[t] = "gone" /\ Gone(t)
  /\ ~ answered[by[t]] /\ ~ stop[by[t]]
  /\ \A s \in Settler : settler[s].tok = t => settler[s].pc = "run"
  /\ Leave(t, "expired")

(* self.pending looks for what has expired, and raises when a token it     *)
(* found was taken meanwhile: the wait is left without its last section.   *)
(* A sub-agent's thread ends its job with the error; an outside coder's    *)
(* loses only the thread that asked.                                       *)
PendingRaises(t) ==
  LET j == by[t] IN
  /\ Polling(t) /\ ~ answered[j] /\ ~ stop[j] /\ t \notin settling
  /\ \E u \in Token : u \notin Fresh /\ u \notin pending
  /\ wait' = [wait EXCEPT ![t] = "broken"]
  /\ IF j \in Coder THEN UNCHANGED <<pc, state, report>>
     ELSE At(j, "done") /\ End(j, "failed", "error")
  /\ UNCHANGED <<storeVars, stop, token, answered, outcome, round, calls, fails,
                 by, told, waiting, settling, settler, watchVars, ran>>

(* The last section under the lock: an outcome of its own, or the one left *)
(* on the job.                                                             *)
Close(t) ==
  LET j == by[t]
      said == IF told[t] = "none" THEN outcome[j] ELSE told[t] IN
  /\ wait[t] = "closing"
  /\ wait' = [wait EXCEPT ![t] = "done"]
  /\ told' = [told EXCEPT ![t] = said]
  /\ waiting' = waiting \ {t}
  /\ settling' = settling \ {t}
  /\ token' = [token EXCEPT ![j] = None]
  /\ state' = [state EXCEPT ![j] = IF @ = "awaiting_approval"
                                   THEN "running" ELSE @]
  /\ IF j \in Coder THEN UNCHANGED pc
     ELSE At(j, IF said = "failed" THEN "failed" ELSE "worked")
  /\ UNCHANGED <<storeVars, report, stop, answered, outcome, round, calls, fails,
                 by, settler, watchVars, ran>>

(* Back in _run with what a confirmed call came to.                        *)
Resume(j) ==
  /\ \/ pc[j] = "worked" /\ Worked(j)
     \/ pc[j] = "failed" /\ Failed(j)
  /\ UNCHANGED <<storeVars, stop, token, answered, outcome, waitVars,
                 settler, watchVars, ran>>

-----------------------------------------------------------------------------
(* Settling: POST /confirmations, settle_for_channel, delegate_approve.    *)

Settling(s, place) == settler' = [settler EXCEPT ![s].pc = place]

SettleTake(s, t, yes) ==
  /\ settler[s].pc = "idle"
  /\ t \notin overdue /\ Pop(t)
  /\ settler' = [settler EXCEPT ![s] =
       [pc |-> "taken", tok |-> t, result |-> IF yes THEN "executed" ELSE "denied"]]
  /\ UNCHANGED <<jobVars, threadVars, waitVars, watchVars, ran>>

(* Runner.settling: only a token somebody waits on is marked.              *)
SettleMark(s) ==
  /\ settler[s].pc = "taken"
  /\ settling' = settling \cup ({settler[s].tok} \cap waiting)
  /\ Settling(s, IF settler[s].result = "denied" THEN "answer" ELSE "run")
  /\ UNCHANGED <<storeVars, jobVars, threadVars, wait, by, told, waiting,
                 watchVars, ran>>

(* run_tool: the approved action is executed here, not by the job.         *)
SettleRun(s) ==
  /\ settler[s].pc = "run"
  /\ LET t == settler[s].tok IN ran' = [ran EXCEPT ![t] = Append(@, asked[t])]
  /\ \E result \in {"executed", "failed"} :
       settler' = [settler EXCEPT ![s].pc = "answer", ![s].result = result]
  /\ UNCHANGED <<storeVars, jobVars, threadVars, waitVars, watchVars>>

(* Runner.settled looks for the job that waits on the token.               *)
HeardIfRun(s) ==              \* fault: a refusal wakes nobody
  settler[s].tok \in waiting /\ settler[s].result # "denied"
Heard(s) == settler[s].tok \in waiting

(* The outcome goes to the job under the lock and the event is set right   *)
(* after it: one step, since nothing the wait can do in that instant       *)
(* (closing, a round of the model, a new question) is as fast.             *)
SettleAnswer(s) ==
  /\ settler[s].pc = "answer"
  /\ IF Heard(s)
     THEN LET j == by[settler[s].tok]
          IN  /\ outcome' = [outcome EXCEPT ![j] = settler[s].result]
              /\ answered' = [answered EXCEPT ![j] = TRUE]
     ELSE UNCHANGED <<outcome, answered>>
  /\ settler' = [settler EXCEPT ![s] = IdleSettler]
  /\ UNCHANGED <<storeVars, state, report, stop, token, threadVars, waitVars,
                 watchVars, ran>>

(* CONFIRMATION_TTL_SECONDS, and the next look at the store.               *)
Tick(t) ==
  /\ Age(t)
  /\ UNCHANGED <<jobVars, threadVars, waitVars, settler, watchVars, ran>>

Expire(t) ==
  /\ t \in overdue /\ Pop(t)
  /\ UNCHANGED <<jobVars, threadVars, waitVars, settler, watchVars, ran>>

-----------------------------------------------------------------------------
(* Stopping and watching.                                                  *)

(* The flag is raised, then _end is called.                                *)
Signal(j, reason) ==          \* fault: _end is left to the job's thread
  stop' = [stop EXCEPT ![j] = TRUE] /\ UNCHANGED ending
Halt(j, reason) ==
  stop' = [stop EXCEPT ![j] = TRUE] /\ ending' = ending \cup {<<j, reason>>}

(* Runner.stop.                                                            *)
Stop(j) ==
  /\ Live(j)
  /\ Halt(j, "stopped")
  /\ UNCHANGED <<storeVars, state, report, token, answered, outcome,
                 threadVars, waitVars, settler, watching, seen, ran>>

EndCall(j, reason) ==
  /\ <<j, reason>> \in ending
  /\ ending' = ending \ {<<j, reason>>}
  /\ End(j, IF reason = "stopped" THEN "interrupted" ELSE "failed", reason)
  /\ UNCHANGED <<storeVars, stop, token, answered, outcome, threadVars,
                 waitVars, settler, watching, seen, ran>>

(* _watcher, each WATCH_EVERY: with nothing live it goes, under the lock.  *)
WatchScan ==
  /\ watching /\ seen = {}
  /\ seen' = {j \in Job : Live(j)}
  /\ watching' = (seen' # {})
  /\ UNCHANGED <<storeVars, jobVars, threadVars, waitVars, settler, ending, ran>>

WatchPass(j) ==
  /\ j \in seen
  /\ seen' = seen \ {j}
  /\ UNCHANGED <<storeVars, jobVars, threadVars, waitVars, settler, ending,
                 watching, ran>>

(* STALL_SECONDS, or STALL_IN_TOOL, without a sign of life: Job.active is  *)
(* not modelled, so any running job may be found silent.                   *)
WatchStall(j) ==
  /\ j \in seen /\ state[j] = "running"
  /\ seen' = seen \ {j}
  /\ Halt(j, "stalled")
  /\ UNCHANGED <<storeVars, state, report, token, answered, outcome,
                 threadVars, waitVars, settler, watching, ran>>

-----------------------------------------------------------------------------
Thread(j) == RoundStart(j) \/ ToolCall(j) \/ Resume(j)
Waits(t)  == Register(t) \/ HearAnswer(t) \/ HearStop(t) \/ Notice(t)
             \/ GiveUp(t) \/ Close(t)
Settles(s) == SettleMark(s) \/ SettleRun(s) \/ SettleAnswer(s)
Ends(j)    == \E reason \in {"stopped", "stalled"} : EndCall(j, reason)

Next ==
  \/ \E j \in Job : \/ Start(j) \/ Stop(j) \/ Ends(j)
                    \/ WatchPass(j) \/ WatchStall(j)
                    \/ Thread(j) \/ ModelReturns(j) \/ ToolReturns(j)
                    \/ TurnEnds(j) \/ TurnLate(j)
                    \/ \E t \in Token : Ask(j, t)
  \/ \E t \in Token : Waits(t) \/ PendingRaises(t) \/ Tick(t) \/ Expire(t)
  \/ \E s \in Settler : \/ Settles(s)
                        \/ \E t \in Token, yes \in BOOLEAN : SettleTake(s, t, yes)
  \/ WatchScan

Spec == Init /\ [][Next]_vars

(* Threads and the watcher run, time passes, and an approved action        *)
(* returns.  A model or a tool the job itself called may never return; the *)
(* watcher does not pass for ever over a job that stays blocked in one.    *)
Blocked(j) == pc[j] \in {"model", "acting", "turn"}

Fairness ==
  /\ \A j \in Job : /\ WF_vars(Thread(j)) /\ WF_vars(Ends(j))
                     /\ WF_vars(WatchPass(j)) /\ WF_vars(TurnLate(j))
                     /\ SF_vars(Blocked(j) /\ WatchStall(j))
  /\ \A t \in Token : WF_vars(Waits(t)) /\ WF_vars(Tick(t)) /\ WF_vars(Expire(t))
  /\ \A s \in Settler : WF_vars(Settles(s))
  /\ WF_vars(WatchScan)

FairSpec == Spec /\ Fairness

-----------------------------------------------------------------------------
(* What the runner promises.                                               *)

Unfinished(j) == state[j] # "none" /\ report[j] = "none"

(* Watched: while a job has no reported end the watcher runs; its exit and *)
(* a start cannot miss each other (_watch, _watcher).                      *)
Watched == (\E j \in Job : Unfinished(j)) => watching

(* HonestAnswer: what a sub-agent is told of a confirmed action is what    *)
(* happened to it: an execution it hears of took place, once and as asked, *)
(* and an action it hears was denied has not run and cannot                *)
(* (_await_approval, settled).                                             *)
HonestAnswer ==
  \A t \in Token : wait[t] = "done" =>
    /\ told[t] # "none"
    /\ told[t] \in {"executed", "failed"} => ran[t] = <<asked[t]>>
    /\ told[t] = "denied" => ran[t] = <<>> /\ t \notin pending

(* Capacity: no more jobs are unfinished than MAX_RUNNING, and of an agent *)
(* in SINGLE no more than one (start).                                     *)
Capacity ==
  /\ Cardinality({j \in Job : Unfinished(j)}) <= MaxRunning
  /\ Cardinality({j \in Single : Unfinished(j)}) <= 1

(* FirstVerdict: however the owner's stop, the watcher and the job's own   *)
(* thread race to end a job, its first reported end stands (_end).         *)
FirstVerdict ==
  [][\A j \in Job : report[j] # "none" => report'[j] = report[j]]_vars

(* Reports: every job that starts comes to a reported end, even when a     *)
(* model or a tool never returns (subagents.py, "The contract").           *)
Reports == \A j \in Job : Unfinished(j) ~> ~ Unfinished(j)

(* NotParked: a job does not wait for the owner for ever; an answer or the *)
(* token's expiry takes it on, or an error ends the wait.                  *)
NotParked == \A t \in Token : wait[t] # "none" ~> wait[t] \in {"done", "broken"}

(* Exempt: the watcher passes over a job that awaits the owner ("Waiting   *)
(* on the owner is not being stuck"), so a sub-agent's job that has no end *)
(* yet stands so only while its thread is in a wait of its own: whichever  *)
(* way the wait is left, an error in it included, the job is watched again *)
(* or over (_await_approval, _run, _watcher).  An outside coder's is left  *)
(* out: its wait may break off and the job go on as it stood, until the    *)
(* coder ends its turn or TIMEOUT passes.                                  *)
Exempt ==
  \A j \in Job \ Coder : Unfinished(j) /\ state[j] = "awaiting_approval" =>
    \E t \in waiting : by[t] = j /\ wait[t] \in {"waiting", "gone", "closing"}

-----------------------------------------------------------------------------
(* The abstract request behind each token.                                 *)
Held(t, place) == \E s \in Settler : settler[s].tok = t /\ settler[s].pc = place
StatusOf(t) ==
  IF t \in Fresh THEN "new"
  ELSE IF t \in pending THEN "asked"
  ELSE IF ran[t] # <<>> THEN "ran"
  ELSE IF Held(t, "taken") THEN "answering"
  ELSE IF Held(t, "run") THEN "approved"
  ELSE "closed"

Abstract == INSTANCE Approval WITH
              status <- [t \in Token |-> StatusOf(t)], ask <- asked, effect <- ran

(* Implements: every behaviour of the runner, as to the tokens its jobs    *)
(* wait on, is one of Approval's.                                          *)
Implements == Abstract!ASpec
=============================================================================
