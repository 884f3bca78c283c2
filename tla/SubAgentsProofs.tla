-------------------------- MODULE SubAgentsProofs --------------------------
(***************************************************************************)
(* Proofs about SubAgents, for every set of jobs, tokens and surfaces:     *)
(* what start, _end, _await_approval and the watcher make of a job's end   *)
(* and place, whatever its thread does.                                    *)
(*                                                                         *)
(* The argument.  A wait can set the state of a job that has ended back to *)
(* a live one, but never the report of its end, so what is counted and     *)
(* watched is the jobs without a report.  Those are live, since _end       *)
(* writes both fields at once, and a wait belongs to a job that was        *)
(* started.  So only a start adds to them, and a start looks at the live   *)
(* jobs and sees to the watcher in one section of the lock, as the         *)
(* watcher does when it leaves.                                            *)
(*                                                                         *)
(* Three more invariants follow the first, each resting on those before    *)
(* it: who holds a token (Custody), which gives the refinement; the types, *)
(* with what a round has left and that a sub-agent's thread has one wait   *)
(* open (TInv); and what each wait may be told (Answers).                  *)
(***************************************************************************)
EXTENDS SubAgents, FiniteSetTheorems, TLAPS

Started == {j \in Job : state[j] # "none"}

(* A job that was started and has not ended is live.                       *)
Ended ==
  /\ state \in [Job -> State]
  /\ report \in [Job -> Report]
  /\ \A j \in Job : Unfinished(j) => Live(j)

(* A thread that is under way is that of a job that was started.           *)
Places ==
  /\ pc \in [Job -> JobPc]
  /\ \A j \in Job : pc[j] # "new" => state[j] # "none"

(* So is the one that waits on a token.                                    *)
Askers ==
  /\ wait \in [Token -> WaitPc]
  /\ by \in [Token -> Job \cup {None}]
  /\ \A t \in Token : wait[t] # "none" => by[t] \in Started

(* The inductive invariant.  That few jobs were started is an invariant    *)
(* and not an assumption: Job may be infinite.                             *)
IInv ==
  /\ Ended
  /\ Places
  /\ Askers
  /\ IsFiniteSet(Started)
  /\ Watched
  /\ Capacity

(* What every step but a start does to the jobs.                           *)
Stands == \A j \in Job : report[j] # "none" => report'[j] = report[j]
Verdicts ==
  /\ Ended'
  /\ Stands
  /\ IsFiniteSet(Started')
  /\ \A j \in Job : /\ state[j] # "none" => state'[j] # "none"
                    /\ Unfinished(j)' => Unfinished(j)

-----------------------------------------------------------------------------
LEMMA InitInv == Init => IInv
<1> SUFFICES ASSUME Init PROVE IInv
  OBVIOUS
<1>1. /\ state = [j \in Job |-> "none"] /\ report = [j \in Job |-> "none"]
      /\ pc = [j \in Job |-> "new"]
      /\ wait = [t \in Token |-> "none"] /\ by = [t \in Token |-> None]
  BY DEF Init
<1>2. \A j \in Job : ~ Unfinished(j)
  BY <1>1 DEF Unfinished
<1>3. Ended
  BY <1>1, <1>2 DEF Ended, State, Report
<1>4. Places /\ Askers
  BY <1>1 DEF Places, Askers, JobPc, WaitPc
<1>5. Started = {}
  BY <1>1 DEF Started
<1>6. /\ {j \in Job : Unfinished(j)} = {}
      /\ {j \in Single : Unfinished(j)} = {}
  BY <1>2, JobAssumption
<1>7. Capacity
  BY <1>6, FS_EmptySet, BoundAssumption DEF Capacity
<1> QED BY <1>2, <1>3, <1>4, <1>5, <1>7, FS_EmptySet DEF IInv, Watched

(* _end leaves a reported end alone, and reports no job that it does not   *)
(* end.                                                                    *)
LEMMA EndStep ==
  ASSUME IInv, NEW j \in Job,
         NEW s \in {"completed", "failed", "interrupted"},
         NEW reason \in Report \ {"none"}, End(j, s, reason)
  PROVE  Verdicts
<1>1. /\ state \in [Job -> State] /\ report \in [Job -> Report]
      /\ \A k \in Job : Unfinished(k) => Live(k)
  BY DEF IInv, Ended
<1>2. CASE report[j] # "none"
  BY <1>1, <1>2 DEF IInv, End, Verdicts, Ended, Stands, Unfinished, Live, Started
<1>3. CASE report[j] = "none"
  <2>1. /\ state' = [state EXCEPT ![j] = s]
        /\ report' = [report EXCEPT ![j] = reason]
    BY <1>3 DEF End
  <2>2. state' \in [Job -> State] /\ report' \in [Job -> Report]
    BY <1>1, <2>1 DEF State
  <2>3. \A k \in Job : k # j => state'[k] = state[k] /\ report'[k] = report[k]
    BY <1>1, <2>1
  <2>4. state'[j] = s /\ report'[j] # "none"
    BY <1>1, <2>1
  <2>5. \A k \in Job : Unfinished(k)' => k # j /\ Unfinished(k)
    BY <2>3, <2>4 DEF Unfinished
  <2>6. \A k \in Job : Unfinished(k)' => Live(k)'
    BY <1>1, <2>3, <2>5 DEF Live
  <2>7. IsFiniteSet(Started')
    <3>1. Started' \in SUBSET (Started \cup {j})
      BY <2>3 DEF Started
    <3>2. IsFiniteSet(Started \cup {j})
      BY FS_AddElement DEF IInv
    <3> QED BY <3>1, <3>2, FS_Subset
  <2>8. Stands
    BY <1>3, <2>3 DEF Stands
  <2>9. \A k \in Job : state[k] # "none" => state'[k] # "none"
    BY <2>3, <2>4
  <2> QED BY <2>2, <2>5, <2>6, <2>7, <2>8, <2>9 DEF Verdicts, Ended
<1> QED BY <1>2, <1>3

LEMMA NoEndStep ==
  ASSUME IInv, UNCHANGED <<state, report>>
  PROVE  Verdicts
BY DEF IInv, Verdicts, Ended, Stands, Unfinished, Live, Started

(* The jobs keep the invariant when none of them begins.                   *)
LEMMA CountStep ==
  ASSUME IInv, Verdicts
  PROVE  Capacity'
<1> DEFINE U == {j \in Job : Unfinished(j)}
           S == {j \in Single : Unfinished(j)}
<1>1. U \in SUBSET Started
  BY DEF Unfinished, Started
<1>2. IsFiniteSet(U)
  BY <1>1, FS_Subset DEF IInv
<1>3. S \in SUBSET U
  BY JobAssumption
<1>4. IsFiniteSet(S)
  BY <1>2, <1>3, FS_Subset
<1>5. U' \in SUBSET U /\ S' \in SUBSET S
  BY JobAssumption DEF Verdicts
<1>6. /\ Cardinality(U') <= Cardinality(U) /\ IsFiniteSet(U')
      /\ Cardinality(S') <= Cardinality(S) /\ IsFiniteSet(S')
  BY <1>2, <1>4, <1>5, FS_Subset
<1>7. /\ Cardinality(U) \in Nat /\ Cardinality(U') \in Nat
      /\ Cardinality(S) \in Nat /\ Cardinality(S') \in Nat
  BY <1>2, <1>4, <1>6, FS_CardinalityType
<1>8. Cardinality(U) <= MaxRunning /\ Cardinality(S) <= 1
  BY DEF IInv, Capacity
<1>9. Cardinality(U') <= MaxRunning /\ Cardinality(S') <= 1
  BY <1>6, <1>7, <1>8, BoundAssumption
<1> QED BY <1>9 DEF Capacity

LEMMA StepInv ==
  ASSUME IInv, Verdicts, Places', Askers', watching' = watching
  PROVE  IInv'
<1>1. Watched'
  BY DEF IInv, Watched, Verdicts
<1>2. Ended' /\ IsFiniteSet(Started')
  BY DEF Verdicts
<1> QED BY <1>1, <1>2, CountStep DEF IInv

(* Threads and waits that stay where they are, or move on.                 *)
LEMMA PlaceStep ==
  ASSUME IInv, Verdicts, NEW j \in Job, state[j] # "none",
         NEW place \in JobPc, At(j, place)
  PROVE  Places'
BY DEF IInv, Verdicts, Places, At

LEMMA SamePlaces ==
  ASSUME IInv, Verdicts, UNCHANGED pc
  PROVE  Places'
BY DEF IInv, Verdicts, Places

LEMMA SameAskers ==
  ASSUME IInv, Verdicts, UNCHANGED <<wait, by>>
  PROVE  Askers'
<1>1. Started \subseteq Started'
  BY DEF Started, Verdicts
<1> QED BY <1>1 DEF IInv, Askers

LEMMA WaitStep ==
  ASSUME IInv, Verdicts, NEW t \in Token, wait[t] # "none", NEW w \in WaitPc,
         wait' = [wait EXCEPT ![t] = w], UNCHANGED by
  PROVE  Askers'
<1>1. Started \subseteq Started'
  BY DEF Started, Verdicts
<1> QED BY <1>1 DEF IInv, Askers

-----------------------------------------------------------------------------
(* The job's own thread.                                                   *)

Ending(j) == \E s \in {"completed", "failed", "interrupted"},
                reason \in Report \ {"none"} : End(j, s, reason)
ThreadMove(j) ==
  /\ pc[j] # "new"
  /\ Ending(j) \/ UNCHANGED <<state, report>>
  /\ \E place \in JobPc : At(j, place)
  /\ UNCHANGED <<waitVars, watchVars>>

LEMMA EndingVerdicts ==
  ASSUME IInv, NEW j \in Job, Ending(j) \/ UNCHANGED <<state, report>>
  PROVE  Verdicts
BY EndStep, NoEndStep DEF Ending

LEMMA ThreadMoveInv ==
  ASSUME IInv, NEW j \in Job, ThreadMove(j)
  PROVE  IInv' /\ Stands
<1>1. Verdicts
  BY EndingVerdicts DEF ThreadMove
<1>2. state[j] # "none"
  BY DEF ThreadMove, IInv, Places
<1>3. Places'
  BY <1>1, <1>2, PlaceStep DEF ThreadMove
<1>4. Askers'
  BY <1>1, SameAskers DEF ThreadMove, waitVars
<1>5. watching' = watching
  BY DEF ThreadMove, watchVars
<1> QED BY <1>1, <1>3, <1>4, <1>5, StepInv DEF Verdicts

LEMMA CalledMoves ==
  ASSUME NEW j \in Job, Called(j)
  PROVE  \E place \in JobPc : At(j, place)
BY DEF Called, JobPc

LEMMA WorkedMoves ==
  ASSUME NEW j \in Job, Worked(j)
  PROVE  UNCHANGED <<state, report>> /\ \E place \in JobPc : At(j, place)
BY CalledMoves DEF Worked

LEMMA FailedMoves ==
  ASSUME NEW j \in Job, Failed(j)
  PROVE  /\ Ending(j) \/ UNCHANGED <<state, report>>
         /\ \E place \in JobPc : At(j, place)
<1>1. PICK n \in {1, fails[j] + 1} :
         IF n >= Repeats
         THEN At(j, "done") /\ End(j, "failed", "error") /\ UNCHANGED <<calls, round>>
         ELSE Called(j) /\ UNCHANGED <<state, report>>
  BY DEF Failed
<1>2. CASE n >= Repeats
  <2>1. At(j, "done") /\ End(j, "failed", "error")
    BY <1>1, <1>2
  <2> QED BY <2>1 DEF Ending, Report, JobPc
<1>3. CASE ~ (n >= Repeats)
  BY <1>1, <1>3, CalledMoves
<1> QED BY <1>2, <1>3

LEMMA ThreadMoves ==
  ASSUME NEW j \in Job,
         RoundStart(j) \/ ModelReturns(j) \/ ToolCall(j) \/ ToolReturns(j)
           \/ Resume(j) \/ TurnEnds(j)
  PROVE  ThreadMove(j)
<1> USE DEF ThreadMove
<1>1. CASE RoundStart(j)
  BY <1>1 DEF RoundStart, Ending, Report, JobPc
<1>2. CASE ModelReturns(j)
  BY <1>2 DEF ModelReturns, Ending, Report, JobPc
<1>3. CASE ToolCall(j)
  <2>1. pc[j] = "tools" /\ UNCHANGED <<waitVars, watchVars>>
    BY <1>3 DEF ToolCall
  <2>2. \/ Worked(j) \/ Failed(j)
        \/ At(j, "acting") /\ UNCHANGED <<state, report>>
    BY <1>3 DEF ToolCall
  <2> QED BY <2>1, <2>2, WorkedMoves, FailedMoves DEF JobPc
<1>4. CASE ToolReturns(j)
  <2>1. pc[j] = "acting" /\ UNCHANGED <<waitVars, watchVars>>
    BY <1>4 DEF ToolReturns
  <2>2. \/ Worked(j) \/ Failed(j)
        \/ At(j, "done") /\ End(j, "failed", "error")
    BY <1>4 DEF ToolReturns
  <2> QED BY <2>1, <2>2, WorkedMoves, FailedMoves DEF JobPc, Ending, Report
<1>5. CASE Resume(j)
  <2>1. pc[j] # "new" /\ UNCHANGED <<waitVars, watchVars>>
    BY <1>5 DEF Resume
  <2>2. Worked(j) \/ Failed(j)
    BY <1>5 DEF Resume
  <2> QED BY <2>1, <2>2, WorkedMoves, FailedMoves
<1>6. CASE TurnEnds(j)
  BY <1>6 DEF TurnEnds, Ending, Report, JobPc
<1> QED BY <1>1, <1>2, <1>3, <1>4, <1>5, <1>6

-----------------------------------------------------------------------------
(* Ends from outside, and the steps that touch no job.                     *)

LEMMA OutsideEndInv ==
  ASSUME IInv, NEW j \in Job,
         TurnLate(j) \/ \E reason \in {"stopped", "stalled"} : EndCall(j, reason)
  PROVE  IInv' /\ Stands
<1>1. /\ Ending(j)
      /\ UNCHANGED <<threadVars, waitVars>> /\ watching' = watching
  BY DEF TurnLate, EndCall, Ending, Report, watchVars
<1>2. Verdicts
  BY <1>1, EndingVerdicts
<1>3. Places' /\ Askers'
  BY <1>1, <1>2, SamePlaces, SameAskers DEF threadVars, waitVars
<1> QED BY <1>1, <1>2, <1>3, StepInv DEF Verdicts

LEMMA QuietInv ==
  ASSUME IInv, UNCHANGED <<state, report, pc, wait, by, watching>>
  PROVE  IInv' /\ Stands
<1>1. Verdicts
  BY NoEndStep
<1>2. Places' /\ Askers'
  BY <1>1, SamePlaces, SameAskers
<1> QED BY <1>1, <1>2, StepInv DEF Verdicts

-----------------------------------------------------------------------------
(* Waits.                                                                  *)

LEMMA AskInv ==
  ASSUME IInv, NEW j \in Job, NEW t \in Token, Ask(j, t)
  PROVE  IInv' /\ Stands
<1>1. Verdicts
  BY NoEndStep DEF Ask, jobVars
<1>2. state[j] # "none" /\ state'[j] # "none"
  BY <1>1 DEF Ask, IInv, Places, Verdicts
<1>3. Places'
  <2>1. CASE j \in Coder
    BY <1>1, <2>1, SamePlaces DEF Ask
  <2>2. CASE j \notin Coder
    BY <1>1, <1>2, <2>2, PlaceStep DEF Ask, JobPc
  <2> QED BY <2>1, <2>2
<1>4. Askers'
  <2>1. /\ wait' = [wait EXCEPT ![t] = "issued"]
        /\ by' = [by EXCEPT ![t] = j]
    BY DEF Ask
  <2>2. Started \subseteq Started' /\ j \in Started'
    BY <1>1, <1>2 DEF Started, Verdicts
  <2> QED BY <2>1, <2>2 DEF IInv, Askers, WaitPc
<1>5. watching' = watching
  BY DEF Ask, watchVars
<1> QED BY <1>1, <1>3, <1>4, <1>5, StepInv DEF Verdicts

(* A wait begins, or ends: the job may have ended, and its report stands.  *)
LEMMA StateStep ==
  ASSUME IInv, NEW j \in Started, NEW s \in {"running", "awaiting_approval"},
         state' = [state EXCEPT ![j] = s], UNCHANGED report
  PROVE  Verdicts
<1>1. /\ state \in [Job -> State] /\ report \in [Job -> Report]
      /\ \A k \in Job : Unfinished(k) => Live(k)
  BY DEF IInv, Ended
<1>2. j \in Job /\ state[j] # "none"
  BY DEF Started
<1>3. state' \in [Job -> State]
  BY <1>1 DEF State
<1>4. \A k \in Job : (k # j => state'[k] = state[k]) /\ state'[j] = s
  BY <1>1, <1>2
<1>5. \A k \in Job : Unfinished(k)' => Unfinished(k) /\ Live(k)'
  BY <1>1, <1>2, <1>4 DEF Unfinished, Live
<1>6. Started' = Started
  BY <1>2, <1>4 DEF Started
<1> QED BY <1>1, <1>3, <1>2, <1>4, <1>5, <1>6 DEF Verdicts, Ended, Stands, IInv

LEMMA RegisterInv ==
  ASSUME IInv, NEW t \in Token, Register(t)
  PROVE  IInv' /\ Stands
<1>1. /\ wait[t] = "issued" /\ wait' = [wait EXCEPT ![t] = "waiting"]
      /\ state' = [state EXCEPT ![by[t]] = "awaiting_approval"]
      /\ UNCHANGED <<report, by, pc, watching>>
  BY DEF Register, threadVars, watchVars
<1>2. by[t] \in Started
  BY <1>1 DEF IInv, Askers
<1>3. Verdicts
  BY <1>1, <1>2, StateStep
<1>4. Places'
  BY <1>1, <1>3, SamePlaces
<1>5. Askers'
  BY <1>1, <1>3, WaitStep DEF WaitPc
<1> QED BY <1>1, <1>3, <1>4, <1>5, StepInv DEF Verdicts

LEMMA PollInv ==
  ASSUME IInv, NEW t \in Token,
         HearAnswer(t) \/ HearStop(t) \/ Notice(t) \/ GiveUp(t)
  PROVE  IInv' /\ Stands
<1>1. /\ wait[t] # "none"
      /\ \E w \in WaitPc : wait' = [wait EXCEPT ![t] = w]
      /\ UNCHANGED <<state, report, pc, by, watching>>
  BY DEF HearAnswer, HearStop, Notice, GiveUp, Leave, Polling, WaitPc,
         jobVars, threadVars, watchVars
<1>2. Verdicts
  BY <1>1, NoEndStep
<1>3. Places' /\ Askers'
  BY <1>1, <1>2, SamePlaces, WaitStep
<1> QED BY <1>1, <1>2, <1>3, StepInv DEF Verdicts

(* The wait is left with an error, and a sub-agent's job ends with it.     *)
LEMMA RaisesInv ==
  ASSUME IInv, NEW t \in Token, PendingRaises(t)
  PROVE  IInv' /\ Stands
<1> DEFINE j == by[t]
<1>1. /\ wait[t] # "none" /\ wait' = [wait EXCEPT ![t] = "broken"]
      /\ \/ UNCHANGED <<pc, state, report>>
         \/ At(j, "done") /\ End(j, "failed", "error")
      /\ UNCHANGED <<by, watching>>
  BY DEF PendingRaises, Polling, watchVars
<1>2. j \in Job /\ state[j] # "none"
  BY <1>1 DEF IInv, Askers, Started
<1>3. Verdicts
  BY <1>1, <1>2, EndStep, NoEndStep DEF Report
<1>4. Places'
  BY <1>1, <1>2, <1>3, SamePlaces, PlaceStep DEF JobPc
<1>5. Askers'
  BY <1>1, <1>3, WaitStep DEF WaitPc
<1> QED BY <1>1, <1>3, <1>4, <1>5, StepInv DEF Verdicts

LEMMA CloseInv ==
  ASSUME IInv, NEW t \in Token, Close(t)
  PROVE  IInv' /\ Stands
<1> DEFINE j == by[t]
<1>1. /\ wait[t] = "closing" /\ wait' = [wait EXCEPT ![t] = "done"]
      /\ state' = [state EXCEPT ![j] = IF @ = "awaiting_approval"
                                       THEN "running" ELSE @]
      /\ UNCHANGED <<report, by, watching>>
      /\ UNCHANGED pc \/ \E place \in JobPc : At(j, place)
  BY DEF Close, watchVars, JobPc
<1>2. j \in Started
  BY <1>1 DEF IInv, Askers
<1>3. Verdicts
  <2>1. CASE state[j] = "awaiting_approval"
    <3>1. state' = [state EXCEPT ![j] = "running"]
      BY <1>1, <2>1
    <3> QED BY <1>1, <1>2, <3>1, StateStep
  <2>2. CASE state[j] # "awaiting_approval"
    <3>1. state' = state
      BY <1>1, <2>2 DEF IInv, Ended
    <3> QED BY <1>1, <3>1, NoEndStep
  <2> QED BY <2>1, <2>2
<1>4. Places'
  BY <1>1, <1>2, <1>3, SamePlaces, PlaceStep DEF Started
<1>5. Askers'
  BY <1>1, <1>3, WaitStep DEF WaitPc
<1> QED BY <1>1, <1>3, <1>4, <1>5, StepInv DEF Verdicts

-----------------------------------------------------------------------------
(* The start and the watcher.                                              *)

(* The watcher leaves only when it has seen, in one section of the lock,   *)
(* that no job is live.                                                    *)
LEMMA WatchScanInv ==
  ASSUME IInv, WatchScan
  PROVE  IInv' /\ Stands
<1>1. UNCHANGED <<state, report, pc, wait, by>>
  BY DEF WatchScan, jobVars, threadVars, waitVars
<1>2. Verdicts
  BY <1>1, NoEndStep
<1>3. Places' /\ Askers'
  BY <1>1, <1>2, SamePlaces, SameAskers
<1>4. Watched'
  <2> SUFFICES ASSUME NEW j \in Job, Unfinished(j)' PROVE watching'
    BY DEF Watched
  <2>1. Live(j)
    BY <1>2 DEF IInv, Ended, Verdicts
  <2>2. seen' # {} /\ watching' = (seen' # {})
    BY <2>1 DEF WatchScan
  <2> QED BY <2>2
<1> QED BY <1>2, <1>3, <1>4, CountStep DEF IInv, Verdicts

(* A start adds one job to those that are unfinished, and it has counted   *)
(* the live ones, which are no fewer.                                      *)
LEMMA StartInv ==
  ASSUME IInv, NEW j \in Job, Start(j)
  PROVE  IInv' /\ Stands
<1> DEFINE U == {k \in Job : Unfinished(k)}
           L == {k \in Job : Live(k)}
           S == {k \in Single : Unfinished(k)}
<1>1. /\ state \in [Job -> State] /\ report \in [Job -> Report]
      /\ \A k \in Job : Unfinished(k) => Live(k)
  BY DEF IInv, Ended
<1>2. /\ state[j] = "none" /\ state' = [state EXCEPT ![j] = "running"]
      /\ watching' /\ UNCHANGED <<report, wait, by>>
      /\ At(j, IF j \in Coder THEN "turn" ELSE "round")
  BY DEF Start, Watch, waitVars
<1>3. \A k \in Job : (k # j => state'[k] = state[k]) /\ state'[j] = "running"
  BY <1>1, <1>2
<1>4. \A k \in Job : k # j => Unfinished(k)' = Unfinished(k) /\ Live(k)' = Live(k)
  BY <1>2, <1>3 DEF Unfinished, Live
<1>5. Live(j)'
  BY <1>3 DEF Live
<1>6. Ended'
  <2>1. state' \in [Job -> State] /\ report' \in [Job -> Report]
    BY <1>1, <1>2 DEF State
  <2> QED BY <1>1, <1>4, <1>5, <2>1 DEF Ended
<1>7. Started' = Started \cup {j}
  BY <1>3 DEF Started
<1>8. IsFiniteSet(Started')
  BY <1>7, FS_AddElement DEF IInv
<1>9. Places'
  BY <1>2, <1>3 DEF IInv, Places, At, JobPc
<1>10. Askers'
  BY <1>2, <1>7 DEF IInv, Askers
<1>11. Watched'
  BY <1>2 DEF Watched
<1>12. Capacity'
  <2>1. L \in SUBSET Started /\ U \in SUBSET L
    BY <1>1 DEF Started, Live
  <2>2. IsFiniteSet(L)
    BY <2>1, FS_Subset DEF IInv
  <2>3. IsFiniteSet(U) /\ Cardinality(U) <= Cardinality(L)
    BY <2>1, <2>2, FS_Subset
  <2>4. Cardinality(L) \in Nat /\ Cardinality(U) \in Nat
    BY <2>2, <2>3, FS_CardinalityType
  <2>5. Cardinality(L) < MaxRunning
    BY DEF Start, Room
  <2>6. U' \in SUBSET (U \cup {j})
    BY <1>4
  <2>7. /\ IsFiniteSet(U \cup {j})
        /\ Cardinality(U \cup {j}) <= Cardinality(U) + 1
    <3>1. /\ IsFiniteSet(U \cup {j})
          /\ Cardinality(U \cup {j}) = IF j \in U THEN Cardinality(U)
                                       ELSE Cardinality(U) + 1
      BY <2>3, FS_AddElement
    <3> HIDE DEF U
    <3> QED BY <2>4, <3>1
  <2>8. IsFiniteSet(U') /\ Cardinality(U') <= Cardinality(U \cup {j})
    BY <2>6, <2>7, FS_Subset
  <2>9. Cardinality(U') \in Nat /\ Cardinality(U \cup {j}) \in Nat
    BY <2>7, <2>8, FS_CardinalityType
  <2>10. Cardinality(U') <= MaxRunning
    BY <2>3, <2>4, <2>5, <2>7, <2>8, <2>9, BoundAssumption
  <2>11. Cardinality(S') <= 1
    <3>1. CASE j \in Single
      <4>1. \A k \in Single : ~ Unfinished(k)
        BY <1>1, <3>1, JobAssumption DEF Start
      <4>2. S' \in SUBSET {j}
        BY <1>4, <4>1, JobAssumption
      <4>3. IsFiniteSet({j}) /\ Cardinality({j}) = 1
        BY FS_Singleton
      <4> QED BY <4>2, <4>3, FS_Subset
    <3>2. CASE j \notin Single
      <4>1. S' = S
        BY <1>4, <3>2, JobAssumption
      <4> QED BY <4>1 DEF IInv, Capacity
    <3> QED BY <3>1, <3>2
  <2> QED BY <2>10, <2>11 DEF Capacity
<1>13. Stands
  BY <1>2 DEF Stands
<1> QED BY <1>6, <1>8, <1>9, <1>10, <1>11, <1>12, <1>13 DEF IInv

-----------------------------------------------------------------------------
LEMMA NextInv == IInv /\ [Next]_vars => IInv' /\ Stands
<1> SUFFICES ASSUME IInv, [Next]_vars PROVE IInv' /\ Stands
  OBVIOUS
<1> DEFINE Same == UNCHANGED <<state, report, pc, wait, by, watching>>
<1>1. ASSUME NEW j \in Job, Start(j) PROVE IInv' /\ Stands
  BY <1>1, StartInv
<1>2. ASSUME NEW j \in Job, Thread(j) \/ ModelReturns(j) \/ ToolReturns(j) \/ TurnEnds(j)
      PROVE  IInv' /\ Stands
  BY <1>2, ThreadMoves, ThreadMoveInv DEF Thread
<1>3. ASSUME NEW j \in Job, TurnLate(j) \/ Ends(j) PROVE IInv' /\ Stands
  BY <1>3, OutsideEndInv DEF Ends
<1>4. ASSUME NEW j \in Job, Stop(j) \/ WatchPass(j) \/ WatchStall(j)
      PROVE  IInv' /\ Stands
  <2>1. Same
    BY <1>4 DEF Stop, WatchPass, WatchStall, jobVars, threadVars, waitVars
  <2> QED BY <2>1, QuietInv
<1>5. ASSUME NEW j \in Job, NEW t \in Token, Ask(j, t) PROVE IInv' /\ Stands
  BY <1>5, AskInv
<1>6. ASSUME NEW t \in Token, Waits(t) \/ PendingRaises(t) PROVE IInv' /\ Stands
  BY <1>6, RegisterInv, PollInv, CloseInv, RaisesInv DEF Waits
<1>7. ASSUME NEW t \in Token, Tick(t) \/ Expire(t) PROVE IInv' /\ Stands
  <2>1. Same
    BY <1>7 DEF Tick, Expire, jobVars, threadVars, waitVars, watchVars
  <2> QED BY <2>1, QuietInv
<1>8. ASSUME NEW s \in Settler,
             Settles(s) \/ \E t \in Token, yes \in BOOLEAN : SettleTake(s, t, yes)
      PROVE  IInv' /\ Stands
  <2>1. Same
    BY <1>8 DEF Settles, SettleTake, SettleMark, SettleRun, SettleAnswer,
                jobVars, threadVars, waitVars, watchVars
  <2> QED BY <2>1, QuietInv
<1>9. CASE WatchScan
  BY <1>9, WatchScanInv
<1>10. CASE UNCHANGED vars
  <2>1. Same
    BY <1>10 DEF vars, jobVars, threadVars, waitVars, watchVars
  <2> QED BY <2>1, QuietInv
<1> QED BY <1>1, <1>2, <1>3, <1>4, <1>5, <1>6, <1>7, <1>8, <1>9, <1>10 DEF Next

(* The invariant holds of every reachable state.                           *)
THEOREM Invariance == Spec => []IInv
<1>1. IInv /\ [Next]_vars => IInv'
  BY NextInv
<1> QED BY <1>1, InitInv, PTL DEF Spec

(* While a job has no reported end there is a watcher: it leaves and a job *)
(* starts in sections of one lock, and nothing else makes a job unfinished *)
(* (_watch, _watcher).                                                     *)
THEOREM WatchedHolds == Spec => []Watched
<1>1. IInv => Watched
  BY DEF IInv
<1> QED BY <1>1, Invariance, PTL

(* However many jobs are started, ended, stopped and made to wait at once, *)
(* those without a reported end are no more than MAX_RUNNING, and one of   *)
(* an agent in SINGLE (start, _start_outside).                             *)
THEOREM CapacityHolds == Spec => []Capacity
<1>1. IInv => Capacity
  BY DEF IInv
<1> QED BY <1>1, Invariance, PTL

(* The first reported end of a job stands, whoever else ends it (_end).    *)
THEOREM FirstVerdictHolds == Spec => FirstVerdict
<1>1. IInv /\ [Next]_vars => [Stands]_vars
  BY NextInv
<1> QED BY <1>1, Invariance, PTL DEF Spec, FirstVerdict, Stands

-----------------------------------------------------------------------------
(* Tokens and the surfaces that settle them.                               *)

(* A token was issued before it is pending; a surface that settles one has *)
(* taken it from the store, alone, and knows what became of its action.    *)
Busy(s) == settler[s].pc # "idle"

SettlerTypes ==
  /\ settler \in [Settler -> [pc : {"idle", "taken", "run", "answer"},
                              tok : Token \cup {None}, result : Outcome]]
  /\ ran \in [Token -> Seq(Act)]

Knows(s) ==
  LET t == settler[s].tok IN
  /\ t \in Token /\ t \notin Fresh /\ t \notin pending
  /\ settler[s].result \in {"executed", "failed", "denied"}
  /\ settler[s].pc = "taken" => settler[s].result # "failed"
  /\ settler[s].pc = "run" => settler[s].result = "executed"
  /\ ran[t] = IF settler[s].pc = "answer" /\ settler[s].result # "denied"
              THEN <<asked[t]>> ELSE <<>>

Custody ==
  /\ StoreTypeOK /\ SettlerTypes
  /\ pending \cap Fresh = {}
  /\ \A t \in Token : \/ ran[t] = <<>>
                      \/ /\ ran[t] = <<asked[t]>>
                         /\ t \notin Fresh /\ t \notin pending
  /\ \A s \in Settler : Busy(s) => Knows(s)
  /\ \A r, s \in Settler : Busy(r) /\ Busy(s) /\ settler[r].tok = settler[s].tok => r = s

(* The waits of the sub-agents' own threads, one at a time, and what each  *)
(* call of a round leaves to do.                                           *)
Types ==
  /\ stop \in [Job -> BOOLEAN] /\ token \in [Job -> Token \cup {None}]
  /\ answered \in [Job -> BOOLEAN] /\ outcome \in [Job -> Outcome]
  /\ round \in [Job -> Nat]
  /\ calls \in [Job -> 0..Calls] /\ fails \in [Job -> 0..Repeats]
  /\ told \in [Token -> Outcome]
  /\ waiting \subseteq Token /\ settling \subseteq Token
  /\ ending \subseteq Job \X {"stopped", "stalled"}
  /\ watching \in BOOLEAN /\ seen \subseteq Job

Working == {"tools", "acting", "asking", "worked", "failed"}
Counts ==
  \A j \in Job :
    /\ pc[j] \in Working => calls[j] >= 1
    /\ pc[j] # "done" => fails[j] < Repeats

Open(t) == wait[t] \in {"issued", "waiting", "gone", "closing"} /\ by[t] \notin Coder
Broken(t) == wait[t] = "broken" /\ by[t] \notin Coder
Asking ==
  /\ \A t \in Token : Open(t) => pc[by[t]] = "asking"
  /\ \A t \in Token : Broken(t) => pc[by[t]] = "done"
  /\ \A t, u \in Token : Open(t) /\ Open(u) /\ by[t] = by[u] => t = u

TInv == Types /\ Counts /\ Asking

(* What a wait of a sub-agent's own thread may be told.                    *)
Unheld(t) == t \notin pending /\ \A s \in Settler : Busy(s) => settler[s].tok # t
Agrees(t, said) ==
  /\ said \in {"executed", "failed"} => ran[t] = <<asked[t]>>
  /\ said = "denied" => ran[t] = <<>> /\ Unheld(t)

Answers ==
  \A t \in Token :
    /\ wait[t] # "none" => t \notin Fresh
    /\ wait[t] \in {"waiting", "gone", "closing"} => t \in waiting
    /\ t \in waiting => wait[t] \in {"waiting", "gone", "closing", "broken"}
    /\ wait[t] = "done" => told[t] # "none" /\ Agrees(t, told[t])
    /\ wait[t] # "done" => told[t] \in {"none", "stopped", "expired"}
    /\ wait[t] = "closing" /\ told[t] = "none" => answered[by[t]]
    /\ wait[t] \in {"waiting", "gone", "closing"}
         => /\ answered[by[t]] => outcome[by[t]] # "none"
            /\ Agrees(t, outcome[by[t]])

-----------------------------------------------------------------------------
(* The store and the surfaces keep custody of the tokens.                  *)

Elsewhere == UNCHANGED <<storeVars, settler, ran>>

(* Only the store's own steps and those of a surface touch what they hold. *)
LEMMA StepElsewhere ==
  ASSUME [Next]_vars
  PROVE  \/ Elsewhere
         \/ \E j \in Job, t \in Token : Ask(j, t)
         \/ \E t \in Token : Tick(t) \/ Expire(t)
         \/ \E s \in Settler :
              Settles(s) \/ \E t \in Token, yes \in BOOLEAN : SettleTake(s, t, yes)
<1> USE DEF Elsewhere
<1>1. ASSUME NEW j \in Job,
             Start(j) \/ Stop(j) \/ Ends(j) \/ WatchPass(j) \/ WatchStall(j)
               \/ Thread(j) \/ ModelReturns(j) \/ ToolReturns(j)
               \/ TurnEnds(j) \/ TurnLate(j)
      PROVE  Elsewhere
  BY <1>1 DEF Start, Stop, Ends, EndCall, WatchPass, WatchStall, Thread, RoundStart,
              ToolCall, Resume, ModelReturns, ToolReturns, TurnEnds, TurnLate
<1>2. ASSUME NEW t \in Token, Waits(t) \/ PendingRaises(t) PROVE Elsewhere
  BY <1>2 DEF Waits, Register, HearAnswer, HearStop, Notice, GiveUp, Close, Leave,
              PendingRaises
<1>3. CASE WatchScan
  BY <1>3 DEF WatchScan
<1>4. CASE UNCHANGED vars
  BY <1>4 DEF vars
<1> QED BY <1>1, <1>2, <1>3, <1>4 DEF Next

LEMMA CustodyInit == Init => Custody
<1> SUFFICES ASSUME Init PROVE Custody
  OBVIOUS
<1>1. /\ pending = {} /\ overdue = {} /\ asked = [t \in Token |-> None]
      /\ settler = [s \in Settler |-> IdleSettler]
      /\ ran = [t \in Token |-> <<>>]
  BY DEF Init, StoreInit
<1>2. StoreTypeOK /\ SettlerTypes
  BY <1>1 DEF StoreTypeOK, SettlerTypes, IdleSettler, Outcome
<1>3. \A s \in Settler : ~ Busy(s)
  BY <1>1 DEF Busy, IdleSettler
<1> QED BY <1>1, <1>2, <1>3 DEF Custody

LEMMA CustodySame ==
  ASSUME Custody, Elsewhere
  PROVE  Custody'
BY DEF Elsewhere, Custody, storeVars, StoreTypeOK, SettlerTypes, Fresh, Busy, Knows

(* A token is issued: it was held by nobody, and nothing ran under it.     *)
LEMMA AskCustody ==
  ASSUME Custody, NEW j \in Job, NEW t \in Token, Ask(j, t)
  PROVE  Custody'
<1>1. PICK a \in Act : Issue(t, a)
  BY DEF Ask
<1>2. /\ t \in Fresh /\ pending' = pending \cup {t} /\ overdue' = overdue
      /\ asked' = [asked EXCEPT ![t] = a] /\ UNCHANGED <<settler, ran>>
  BY <1>1 DEF Issue, Ask
<1>3. StoreTypeOK' /\ SettlerTypes'
  BY <1>2 DEF Custody, StoreTypeOK, SettlerTypes
<1>4. /\ \A u \in Token : u # t => asked'[u] = asked[u]
      /\ asked'[t] = a
      /\ Fresh' = Fresh \ {t}
  BY <1>2, StoreAssumption DEF Custody, StoreTypeOK, Fresh
<1>5. ran[t] = <<>>
  BY <1>2 DEF Custody
<1>6. ASSUME NEW s \in Settler, Busy(s) PROVE Knows(s)'
  <2>1. Knows(s)
    BY <1>6 DEF Custody
  <2>2. settler[s].tok \in Token /\ settler[s].tok # t
    BY <1>2, <2>1 DEF Knows
  <2> QED BY <1>2, <1>4, <2>1, <2>2 DEF Knows
<1>7. \A u \in Token : \/ ran'[u] = <<>>
                       \/ ran'[u] = <<asked'[u]>> /\ u \notin Fresh' /\ u \notin pending'
  BY <1>2, <1>4, <1>5 DEF Custody
<1> QED BY <1>2, <1>3, <1>4, <1>6, <1>7 DEF Custody, Busy

(* A token leaves the store.                                               *)
LEMMA PopCustody ==
  ASSUME Custody, NEW t \in Token, Pop(t), UNCHANGED <<settler, ran>>
  PROVE  Custody'
<1>1. t \in pending /\ pending' = pending \ {t} /\ overdue' = overdue \ {t} /\ asked' = asked
  BY DEF Pop
<1> QED BY <1>1 DEF Custody, StoreTypeOK, SettlerTypes, Fresh, Busy, Knows

LEMMA TickCustody ==
  ASSUME Custody, NEW t \in Token, Tick(t)
  PROVE  Custody'
<1>1. /\ t \in pending /\ overdue' = overdue \cup {t}
      /\ UNCHANGED <<pending, asked, settler, ran>>
  BY DEF Tick, Age
<1> QED BY <1>1 DEF Custody, StoreTypeOK, SettlerTypes, Fresh, Busy, Knows

(* One surface moves on with the token it holds, or takes one.             *)
LEMMA SettlerStep ==
  ASSUME Custody, NEW s \in Settler,
         NEW new \in [pc : {"idle", "taken", "run", "answer"},
                      tok : Token \cup {None}, result : Outcome],
         settler' = [settler EXCEPT ![s] = new]
  PROVE  /\ settler' \in [Settler -> [pc : {"idle", "taken", "run", "answer"},
                              tok : Token \cup {None}, result : Outcome]]
         /\ \A r \in Settler : settler'[r] = IF r = s THEN new ELSE settler[r]
BY DEF Custody, SettlerTypes

LEMMA TakeCustody ==
  ASSUME Custody, NEW s \in Settler, NEW t \in Token, NEW yes \in BOOLEAN,
         SettleTake(s, t, yes)
  PROVE  Custody'
<1> DEFINE new == [pc |-> "taken", tok |-> t,
                   result |-> IF yes THEN "executed" ELSE "denied"]
<1>1. /\ settler[s].pc = "idle" /\ settler' = [settler EXCEPT ![s] = new]
      /\ t \in pending /\ pending' = pending \ {t} /\ overdue' = overdue \ {t}
      /\ UNCHANGED <<asked, ran>>
  BY DEF SettleTake, Pop
<1>2. new \in [pc : {"idle", "taken", "run", "answer"},
               tok : Token \cup {None}, result : Outcome]
  BY DEF Outcome
<1>3. /\ SettlerTypes'
      /\ \A r \in Settler : settler'[r] = IF r = s THEN new ELSE settler[r]
  <2> HIDE DEF new
  <2> QED BY <1>1, <1>2, SettlerStep DEF SettlerTypes, Custody
<1>4. StoreTypeOK' /\ Fresh' = Fresh
  BY <1>1 DEF Custody, StoreTypeOK, Fresh
<1>5. ran[t] = <<>> /\ t \notin Fresh
  BY <1>1 DEF Custody
<1>6. Knows(s)'
  BY <1>1, <1>3, <1>4, <1>5 DEF Knows
<1>7. ASSUME NEW r \in Settler, r # s, Busy(r)
      PROVE  Knows(r)' /\ settler[r].tok # t
  BY <1>1, <1>3, <1>4, <1>7 DEF Custody, Knows
<1>8. \A r \in Settler : r # s => Busy(r)' = Busy(r) /\ settler'[r].tok = settler[r].tok
  BY <1>3 DEF Busy
<1>9. settler'[s].tok = t
  BY <1>3
<1>10. \A r \in Settler : Busy(r)' => Knows(r)'
  BY <1>6, <1>7, <1>8
<1>11. \A r, q \in Settler : Busy(r)' /\ Busy(q)' /\ settler'[r].tok = settler'[q].tok => r = q
  BY <1>7, <1>8, <1>9 DEF Custody
<1>12. \A u \in Token : \/ ran'[u] = <<>>
                        \/ ran'[u] = <<asked'[u]>> /\ u \notin Fresh' /\ u \notin pending'
  BY <1>1, <1>4 DEF Custody
<1>13. pending' \cap Fresh' = {}
  BY <1>1, <1>4 DEF Custody
<1> QED BY <1>3, <1>4, <1>10, <1>11, <1>12, <1>13 DEF Custody

(* What a surface does with the token it holds.                            *)
LEMMA HeldCustody ==
  ASSUME Custody, NEW s \in Settler, Busy(s), UNCHANGED storeVars,
         NEW new \in [pc : {"idle", "taken", "run", "answer"},
                      tok : Token \cup {None}, result : Outcome],
         settler' = [settler EXCEPT ![s] = new],
         new.pc = "idle" \/ (new.tok = settler[s].tok /\ Knows(s)'),
         ran' = ran \/ ran' = [ran EXCEPT ![settler[s].tok] = <<asked[settler[s].tok]>>]
  PROVE  Custody'
<1> DEFINE t == settler[s].tok
<1>1. pending' = pending /\ overdue' = overdue /\ asked' = asked
  BY DEF storeVars
<1>2. t \in Token /\ t \notin Fresh /\ t \notin pending /\ asked[t] \in Act
  BY DEF Custody, Knows, StoreTypeOK, Fresh
<1>3. \A r \in Settler : settler'[r] = IF r = s THEN new ELSE settler[r]
  BY SettlerStep
<1>4. StoreTypeOK' /\ Fresh' = Fresh
  BY <1>1 DEF Custody, StoreTypeOK, Fresh
<1>5. SettlerTypes'
  <2>1. <<asked[t]>> \in Seq(Act)
    BY <1>2
  <2>2. ran' \in [Token -> Seq(Act)]
    BY <1>2, <2>1 DEF Custody, SettlerTypes
  <2> QED BY SettlerStep, <2>2 DEF SettlerTypes
<1>6. /\ \A u \in Token : u # t => ran'[u] = ran[u]
      /\ ran'[t] \in {ran[t], <<asked[t]>>}
  BY <1>2 DEF Custody, SettlerTypes
<1>7. \A u \in Token : \/ ran'[u] = <<>>
                       \/ ran'[u] = <<asked'[u]>> /\ u \notin Fresh' /\ u \notin pending'
  <2> HIDE DEF t
  <2> QED BY <1>1, <1>2, <1>4, <1>6 DEF Custody
<1>8. ASSUME NEW r \in Settler, r # s
      PROVE  /\ Busy(r)' = Busy(r) /\ settler'[r].tok = settler[r].tok
             /\ Busy(r) => settler[r].tok # t /\ Knows(r)'
  BY <1>1, <1>3, <1>4, <1>6, <1>8 DEF Custody, Busy, Knows
<1>9. Busy(s)' => settler'[s].tok = t /\ Knows(s)'
  BY <1>3 DEF Busy
<1>10. \A r \in Settler : Busy(r)' => Knows(r)'
  BY <1>8, <1>9
<1>11. \A r, q \in Settler : Busy(r)' /\ Busy(q)' /\ settler'[r].tok = settler'[q].tok => r = q
  <2> HIDE DEF t
  <2> QED BY <1>8, <1>9 DEF Custody
<1> QED BY <1>1, <1>4, <1>5, <1>7, <1>10, <1>11 DEF Custody

LEMMA MarkCustody ==
  ASSUME Custody, NEW s \in Settler, SettleMark(s)
  PROVE  Custody'
<1> DEFINE place == IF settler[s].result = "denied" THEN "answer" ELSE "run"
           new == [settler[s] EXCEPT !.pc = place]
<1>1. /\ settler[s].pc = "taken" /\ settler' = [settler EXCEPT ![s] = new]
      /\ UNCHANGED storeVars /\ ran' = ran
  BY DEF SettleMark, Settling
<1>2. Busy(s) /\ Knows(s)
  BY <1>1 DEF Busy, Custody
<1>3. settler[s] \in [pc : {"idle", "taken", "run", "answer"},
                      tok : Token \cup {None}, result : Outcome]
  BY DEF Custody, SettlerTypes
<1>4. /\ new \in [pc : {"idle", "taken", "run", "answer"},
                  tok : Token \cup {None}, result : Outcome]
      /\ new.tok = settler[s].tok /\ new.result = settler[s].result /\ new.pc = place
  BY <1>3
<1>5. settler'[s] = new
  BY <1>1 DEF Custody, SettlerTypes
<1>6. Knows(s)'
  <2> HIDE DEF new
  <2> QED BY <1>1, <1>2, <1>4, <1>5 DEF Knows, storeVars, Fresh
<1> HIDE DEF new
<1> QED BY <1>1, <1>2, <1>4, <1>6, HeldCustody

(* The approved action runs once: whoever runs it holds the token.         *)
LEMMA RunOnce ==
  ASSUME Custody, NEW s \in Settler, SettleRun(s)
  PROVE  /\ Busy(s) /\ Knows(s)
         /\ ran[settler[s].tok] = <<>>
         /\ ran' = [ran EXCEPT ![settler[s].tok] = <<asked[settler[s].tok]>>]
<1> DEFINE t == settler[s].tok
<1>1. settler[s].pc = "run" /\ ran' = [ran EXCEPT ![t] = Append(@, asked[t])]
  BY DEF SettleRun
<1>2. Busy(s) /\ Knows(s)
  BY <1>1 DEF Busy, Custody
<1>3. ran[t] = <<>> /\ t \in Token /\ asked[t] \in Act
  BY <1>1, <1>2 DEF Knows, Custody, StoreTypeOK, Fresh
<1>4. Append(ran[t], asked[t]) = <<asked[t]>>
  BY <1>3
<1> QED BY <1>1, <1>2, <1>3, <1>4 DEF Custody, SettlerTypes

LEMMA RunCustody ==
  ASSUME Custody, NEW s \in Settler, SettleRun(s)
  PROVE  Custody'
<1>1. PICK result \in {"executed", "failed"} :
        settler' = [settler EXCEPT ![s].pc = "answer", ![s].result = result]
  BY DEF SettleRun
<1> DEFINE new == [settler[s] EXCEPT !.pc = "answer", !.result = result]
<1>2. settler' = [settler EXCEPT ![s] = new] /\ UNCHANGED storeVars
  BY <1>1 DEF SettleRun, Custody, SettlerTypes
<1>3. /\ Busy(s) /\ Knows(s)
      /\ ran' = [ran EXCEPT ![settler[s].tok] = <<asked[settler[s].tok]>>]
  BY RunOnce
<1>4. settler[s] \in [pc : {"idle", "taken", "run", "answer"},
                      tok : Token \cup {None}, result : Outcome]
  BY DEF Custody, SettlerTypes
<1>5. /\ new \in [pc : {"idle", "taken", "run", "answer"},
                  tok : Token \cup {None}, result : Outcome]
      /\ new.tok = settler[s].tok /\ new.result = result /\ new.pc = "answer"
  BY <1>4 DEF Outcome
<1>6. settler'[s] = new
  BY <1>2 DEF Custody, SettlerTypes
<1>7. ran'[settler[s].tok] = <<asked[settler[s].tok]>>
  BY <1>3 DEF Custody, SettlerTypes, Knows
<1>8. Knows(s)'
  <2> HIDE DEF new
  <2> QED BY <1>2, <1>3, <1>5, <1>6, <1>7 DEF Knows, storeVars, Fresh
<1> HIDE DEF new
<1> QED BY <1>2, <1>3, <1>5, <1>8, HeldCustody

LEMMA AnswerCustody ==
  ASSUME Custody, NEW s \in Settler, SettleAnswer(s)
  PROVE  Custody'
<1>1. /\ Busy(s) /\ settler' = [settler EXCEPT ![s] = IdleSettler]
      /\ UNCHANGED storeVars /\ ran' = ran
  BY DEF SettleAnswer, Busy
<1>2. IdleSettler \in [pc : {"idle", "taken", "run", "answer"},
                       tok : Token \cup {None}, result : Outcome]
  BY DEF IdleSettler, Outcome
<1>3. IdleSettler.pc = "idle"
  BY DEF IdleSettler
<1> QED BY <1>1, <1>2, <1>3, HeldCustody

(* The steps of a job's thread, of its waits and of the watcher.           *)
LEMMA NextCustody ==
  ASSUME Custody, [Next]_vars
  PROVE  Custody'
<1>1. ASSUME NEW j \in Job, NEW t \in Token, Ask(j, t) PROVE Custody'
  BY <1>1, AskCustody
<1>2. ASSUME NEW t \in Token, Expire(t) PROVE Custody'
  BY <1>2, PopCustody DEF Expire
<1>3. ASSUME NEW t \in Token, Tick(t) PROVE Custody'
  BY <1>3, TickCustody
<1>4. ASSUME NEW s \in Settler,
             Settles(s) \/ \E t \in Token, yes \in BOOLEAN : SettleTake(s, t, yes)
      PROVE  Custody'
  BY <1>4, TakeCustody, MarkCustody, RunCustody, AnswerCustody DEF Settles
<1>5. CASE Elsewhere
  BY <1>5, CustodySame
<1> QED BY <1>1, <1>2, <1>3, <1>4, <1>5, StepElsewhere

-----------------------------------------------------------------------------
(* A step of the code is a step of Approval, or none.                      *)

Same(t) == StatusOf(t)' = StatusOf(t)
Holds(s, t) == settler[s].tok = t /\ settler[s].pc \in {"taken", "run"}

LEMMA SameToken ==
  ASSUME NEW t \in Token, asked'[t] = asked[t], t \in pending' <=> t \in pending,
         ran'[t] = ran[t],
         \A s \in Settler : \/ settler'[s] = settler[s]
                            \/ ~ Holds(s, t) /\ ~ Holds(s, t)'
  PROVE  Same(t)
<1>1. Held(t, "taken")' = Held(t, "taken") /\ Held(t, "run")' = Held(t, "run")
  BY DEF Held, Holds
<1> QED BY <1>1 DEF Same, StatusOf, Fresh

LEMMA QuietRefines ==
  ASSUME UNCHANGED <<asked, ran>>, \A t \in Token : Same(t)
  PROVE  [Abstract!ANext]_Abstract!avars
BY DEF Same, Abstract!avars

LEMMA MoveRefines ==
  ASSUME NEW t \in Token, NEW from, NEW to, UNCHANGED <<asked, ran>>,
         StatusOf(t) = from, StatusOf(t)' = to, \A u \in Token \ {t} : Same(u)
  PROVE  Abstract!Move(t, from, to)
BY DEF Same, Abstract!Move

LEMMA AskRefines ==
  ASSUME Custody, NEW j \in Job, NEW t \in Token, Ask(j, t)
  PROVE  Abstract!ANext
<1>1. PICK a \in Act : Issue(t, a)
  BY DEF Ask
<1>2. /\ t \in Fresh /\ t \in pending' /\ asked' = [asked EXCEPT ![t] = a]
      /\ UNCHANGED <<settler, ran>>
      /\ \A u \in Token \ {t} : asked'[u] = asked[u] /\ (u \in pending' <=> u \in pending)
      /\ asked'[t] = a
  BY <1>1 DEF Issue, Ask, Custody, StoreTypeOK, Fresh
<1>3. StatusOf(t) = "new" /\ StatusOf(t)' = "asked"
  BY <1>2, StoreAssumption DEF StatusOf, Fresh
<1>4. \A u \in Token \ {t} : Same(u)
  BY <1>2, SameToken
<1>5. Abstract!Ask(t, a)
  BY <1>2, <1>3, <1>4 DEF Same, Abstract!Ask
<1> QED BY <1>5 DEF Abstract!ANext

LEMMA ExpireRefines ==
  ASSUME Custody, NEW t \in Token, Expire(t)
  PROVE  Abstract!ANext
<1>1. /\ t \in pending /\ pending' = pending \ {t} /\ UNCHANGED <<asked, settler, ran>>
  BY DEF Expire, Pop
<1>2. t \notin Fresh /\ ran[t] = <<>>
  BY <1>1 DEF Custody
<1>3. ~ Held(t, "taken") /\ ~ Held(t, "run")
  BY <1>1 DEF Held, Custody, Busy, Knows
<1>4. StatusOf(t) = "asked"
  BY <1>1, <1>2 DEF StatusOf
<1>5. StatusOf(t)' = "closed"
  <2>1. t \notin Fresh' /\ ~ Held(t, "taken")' /\ ~ Held(t, "run")'
    BY <1>1, <1>2, <1>3 DEF Fresh, Held
  <2> QED BY <1>1, <1>2, <2>1 DEF StatusOf
<1>6. \A u \in Token \ {t} : Same(u)
  BY <1>1, SameToken
<1> DEFINE T == {t}
<1>7. T \in SUBSET Token /\ (\A u \in T : u = t) /\ (\A u \in Token \ T : Same(u))
  BY <1>6
<1> HIDE DEF T
<1>8. Abstract!Lapse(T)
  BY <1>1, <1>4, <1>5, <1>7 DEF Same, Abstract!Lapse
<1> QED BY <1>7, <1>8 DEF Abstract!ANext

(* A step of one surface on the token it holds concerns no other token.    *)
LEMMA OthersSame ==
  ASSUME Custody, NEW s \in Settler, NEW t \in Token, UNCHANGED asked,
         \A r \in Settler \ {s} : settler'[r] = settler[r],
         Busy(s) => settler[s].tok = t,
         settler'[s].pc # "idle" => settler'[s].tok = t,
         \A u \in Token \ {t} : ran'[u] = ran[u] /\ (u \in pending' <=> u \in pending)
  PROVE  \A u \in Token \ {t} : Same(u)
BY SameToken DEF Holds, Busy

LEMMA TakeRefines ==
  ASSUME Custody, NEW s \in Settler, NEW t \in Token, NEW yes \in BOOLEAN,
         SettleTake(s, t, yes)
  PROVE  Abstract!ANext
<1>1. /\ settler[s].pc = "idle"
      /\ settler'[s].pc = "taken" /\ settler'[s].tok = t
      /\ \A r \in Settler \ {s} : settler'[r] = settler[r]
  BY DEF SettleTake, Custody, SettlerTypes
<1>2. t \in pending /\ pending' = pending \ {t} /\ UNCHANGED <<asked, ran>>
  BY DEF SettleTake, Pop
<1>3. t \notin Fresh /\ ran[t] = <<>>
  BY <1>2 DEF Custody
<1>4. StatusOf(t) = "asked"
  BY <1>2, <1>3 DEF StatusOf
<1>5. StatusOf(t)' = "answering"
  <2>1. t \notin Fresh' /\ Held(t, "taken")'
    BY <1>1, <1>2, <1>3 DEF Fresh, Held
  <2> QED BY <1>2, <1>3, <2>1 DEF StatusOf
<1>6. \A u \in Token \ {t} : Same(u)
  BY <1>1, <1>2, OthersSame DEF Busy
<1>7. Abstract!Answer(t)
  BY <1>2, <1>4, <1>5, <1>6, MoveRefines DEF Abstract!Answer
<1> QED BY <1>7 DEF Abstract!ANext

LEMMA MarkRefines ==
  ASSUME Custody, NEW s \in Settler, SettleMark(s)
  PROVE  Abstract!ANext
<1> DEFINE place == IF settler[s].result = "denied" THEN "answer" ELSE "run"
<1>0. PICK t \in Token : t = settler[s].tok
  BY DEF SettleMark, Custody, Busy, Knows
<1>1. /\ settler[s].pc = "taken"
      /\ settler'[s].pc = place /\ settler'[s].tok = t
      /\ \A r \in Settler \ {s} : settler'[r] = settler[r]
      /\ UNCHANGED <<pending, asked, ran>>
  BY <1>0 DEF SettleMark, Settling, Custody, SettlerTypes, storeVars
<1>2. /\ Busy(s) /\ t \in Token /\ t \notin Fresh /\ t \notin pending /\ ran[t] = <<>>
  BY <1>0, <1>1 DEF Busy, Custody, Knows
<1>3. \A r \in Settler : r # s /\ Busy(r) => settler[r].tok # t
  BY <1>0, <1>2 DEF Custody
<1>4. StatusOf(t) = "answering"
  <2>1. Held(t, "taken")
    BY <1>0, <1>1 DEF Held
  <2> QED BY <1>2, <2>1 DEF StatusOf
<1>5. t \notin Fresh' /\ t \notin pending' /\ ran'[t] = <<>>
  BY <1>1, <1>2 DEF Fresh
<1>6. ~ Held(t, "taken")'
  BY <1>1, <1>3 DEF Held, Busy
<1>7. \A u \in Token \ {t} : Same(u)
  BY <1>0, <1>1, <1>2, OthersSame
<1>8. CASE settler[s].result = "denied"
  <2>1. ~ Held(t, "run")'
    BY <1>1, <1>3, <1>8 DEF Held, Busy
  <2>2. StatusOf(t)' = "closed"
    BY <1>5, <1>6, <2>1 DEF StatusOf
  <2>3. Abstract!Refuse(t)
    BY <1>1, <1>2, <1>4, <1>7, <2>2, MoveRefines DEF Abstract!Refuse
  <2> QED BY <1>2, <2>3 DEF Abstract!ANext
<1>9. CASE settler[s].result # "denied"
  <2>1. Held(t, "run")'
    BY <1>1, <1>9 DEF Held
  <2>2. StatusOf(t)' = "approved"
    BY <1>5, <1>6, <2>1 DEF StatusOf
  <2>3. Abstract!Approve(t)
    BY <1>1, <1>2, <1>4, <1>7, <2>2, MoveRefines DEF Abstract!Approve
  <2> QED BY <1>2, <2>3 DEF Abstract!ANext
<1> QED BY <1>8, <1>9

LEMMA RunRefines ==
  ASSUME Custody, NEW s \in Settler, SettleRun(s)
  PROVE  Abstract!ANext
<1>0. PICK t \in Token : t = settler[s].tok
  BY RunOnce DEF Knows
<1>1. /\ settler[s].pc = "run"
      /\ settler'[s].pc = "answer" /\ settler'[s].tok = t
      /\ \A r \in Settler \ {s} : settler'[r] = settler[r]
      /\ UNCHANGED <<pending, asked>>
  BY <1>0 DEF SettleRun, Custody, SettlerTypes, storeVars
<1>2. /\ Busy(s) /\ t \in Token /\ t \notin Fresh /\ t \notin pending
      /\ ran[t] = <<>> /\ ran' = [ran EXCEPT ![t] = <<asked[t]>>]
      /\ asked[t] \in Act
  <2>1. Busy(s) /\ Knows(s)
    BY RunOnce
  <2>2. ran[t] = <<>> /\ ran' = [ran EXCEPT ![t] = <<asked[t]>>]
    BY <1>0, RunOnce
  <2>3. t \notin Fresh /\ t \notin pending
    BY <1>0, <2>1 DEF Knows
  <2> QED BY <2>1, <2>2, <2>3 DEF Custody, StoreTypeOK, Fresh
<1>3. ran' = [ran EXCEPT ![t] = Append(@, asked[t])]
  BY <1>0 DEF SettleRun
<1>4. \A r \in Settler : r # s /\ Busy(r) => settler[r].tok # t
  BY <1>0, <1>2 DEF Custody
<1>5. StatusOf(t) = "approved"
  <2>1. Held(t, "run") /\ ~ Held(t, "taken")
    BY <1>0, <1>1, <1>4 DEF Held, Busy
  <2> QED BY <1>2, <2>1 DEF StatusOf
<1>6. StatusOf(t)' = "ran"
  <2>1. ran'[t] # <<>>
    BY <1>2 DEF Custody, SettlerTypes
  <2>2. t \notin Fresh' /\ t \notin pending'
    BY <1>1, <1>2 DEF Fresh
  <2> QED BY <2>1, <2>2 DEF StatusOf
<1>7. \A u \in Token \ {t} : ran'[u] = ran[u]
  BY <1>2 DEF Custody, SettlerTypes
<1>8. \A u \in Token \ {t} : Same(u)
  BY <1>0, <1>1, <1>2, <1>7, OthersSame
<1>9. Abstract!Run(t)
  BY <1>1, <1>3, <1>5, <1>6, <1>8 DEF Same, Abstract!Run
<1> QED BY <1>2, <1>9 DEF Abstract!ANext

LEMMA AnswerRefines ==
  ASSUME Custody, NEW s \in Settler, SettleAnswer(s)
  PROVE  [Abstract!ANext]_Abstract!avars
<1>1. /\ settler[s].pc = "answer" /\ settler'[s].pc = "idle"
      /\ \A r \in Settler \ {s} : settler'[r] = settler[r]
      /\ UNCHANGED <<pending, asked, ran>>
  BY DEF SettleAnswer, IdleSettler, Custody, SettlerTypes, storeVars
<1>2. \A t \in Token : Same(t)
  BY <1>1, SameToken DEF Holds
<1> QED BY <1>1, <1>2, QuietRefines

LEMMA NextRefines ==
  ASSUME Custody, [Next]_vars
  PROVE  [Abstract!ANext]_Abstract!avars
<1>1. ASSUME NEW t \in Token, Tick(t) PROVE [Abstract!ANext]_Abstract!avars
  <2>1. UNCHANGED <<pending, asked, settler, ran>>
    BY <1>1 DEF Tick, Age
  <2> QED BY <2>1, SameToken, QuietRefines
<1>2. CASE Elsewhere
  <2>1. UNCHANGED <<pending, asked, settler, ran>>
    BY <1>2 DEF Elsewhere, storeVars
  <2> QED BY <2>1, SameToken, QuietRefines
<1>3. ASSUME NEW s \in Settler,
             Settles(s) \/ \E t \in Token, yes \in BOOLEAN : SettleTake(s, t, yes)
      PROVE  [Abstract!ANext]_Abstract!avars
  BY <1>3, TakeRefines, MarkRefines, RunRefines, AnswerRefines DEF Settles
<1> QED BY <1>1, <1>2, <1>3, AskRefines, ExpireRefines, StepElsewhere

LEMMA InitRefines == Init => Abstract!AInit
<1> SUFFICES ASSUME Init PROVE Abstract!AInit
  OBVIOUS
<1>1. asked = [t \in Token |-> None] /\ ran = [t \in Token |-> <<>>]
  BY DEF Init, StoreInit
<1>2. \A t \in Token : StatusOf(t) = "new"
  BY <1>1 DEF StatusOf, Fresh
<1> QED BY <1>1, <1>2 DEF Abstract!AInit

LEMMA CustodyInvariance == Spec => []Custody
<1>1. Custody /\ [Next]_vars => Custody'
  BY NextCustody
<1> QED BY <1>1, CustodyInit, PTL DEF Spec

(* The runner and the surfaces implement the abstract approval as to every *)
(* token a job waits on: whatever the waits, the watcher and the owner do, *)
(* an action runs once, after a yes, as it was asked for (settle_for_      *)
(* channel, settled, _await_approval).                                     *)
THEOREM Refinement == Spec => Implements
<1>1. Custody /\ [Next]_vars => [Abstract!ANext]_Abstract!avars
  BY NextRefines
<1> QED BY <1>1, InitRefines, CustodyInvariance, PTL
        DEF Spec, Implements, Abstract!ASpec

-----------------------------------------------------------------------------
(* Types, the calls a round has left, and one wait at a time.              *)

LEMMA InitTInv == Init => TInv
<1> SUFFICES ASSUME Init PROVE TInv
  OBVIOUS
<1>1. Types
  <2>1. 0 \in 0..Calls /\ 0 \in 0..Repeats /\ 0 \in Nat
    BY BoundAssumption
  <2> QED BY <2>1 DEF Init, Types, Outcome
<1>2. Counts
  BY BoundAssumption DEF Init, Counts, Working
<1>3. Asking
  BY DEF Init, Asking, Open, Broken
<1> QED BY <1>1, <1>2, <1>3 DEF TInv

LEMMA Typed ==
  ASSUME TInv, NEW j \in Job
  PROVE  /\ round[j] \in Nat /\ calls[j] \in 0..Calls /\ fails[j] \in 0..Repeats
         /\ pc[j] \in Working => calls[j] >= 1
         /\ pc[j] # "done" => fails[j] < Repeats
<1>1. Types /\ Counts
  BY DEF TInv
<1>2. round[j] \in Nat /\ calls[j] \in 0..Calls /\ fails[j] \in 0..Repeats
  BY <1>1 DEF Types
<1>3. /\ pc[j] \in Working => calls[j] >= 1
      /\ pc[j] # "done" => fails[j] < Repeats
  BY <1>1 DEF Counts
<1> QED BY <1>2, <1>3

(* A thread goes to a place with that many calls to make and failures      *)
(* behind it.                                                              *)
Goes(j, place, c, f) ==
  /\ At(j, place)
  /\ calls' = [calls EXCEPT ![j] = c] /\ fails' = [fails EXCEPT ![j] = f]
  /\ place \in Working => c >= 1
  /\ place # "done" => f < Repeats
Proceeds(j) ==
  /\ \E place \in JobPc \ {"asking"}, c \in 0..Calls, f \in 0..Repeats : Goes(j, place, c, f)
  /\ round' \in [Job -> Nat]

LEMMA ProceedsInv ==
  ASSUME IInv, TInv, NEW j \in Job, pc[j] \notin {"asking", "done"}, Proceeds(j),
         UNCHANGED <<stop, token, answered, outcome, waitVars, ending, seen>>,
         watching' \in BOOLEAN
  PROVE  TInv'
<1>1. PICK place \in JobPc \ {"asking"}, c \in 0..Calls, f \in 0..Repeats : Goes(j, place, c, f)
  BY DEF Proceeds
<1>2. pc \in [Job -> JobPc] /\ \A t \in Token : wait[t] # "none" => by[t] \in Job
  BY DEF IInv, Places, Askers, Started
<1>3. UNCHANGED <<wait, by, told, waiting, settling>>
  BY DEF waitVars
<1>4. Types'
  BY <1>1, <1>3 DEF TInv, Types, Goes, Proceeds
<1>5. \A k \in Job : /\ pc'[k] = IF k = j THEN place ELSE pc[k]
                     /\ calls'[k] = IF k = j THEN c ELSE calls[k]
                     /\ fails'[k] = IF k = j THEN f ELSE fails[k]
  BY <1>1, <1>2 DEF Goes, At, TInv, Types
<1>6. Counts'
  BY <1>1, <1>5 DEF Goes, TInv, Counts
<1>7. ASSUME NEW t \in Token, Open(t) \/ Broken(t) PROVE by[t] \in Job /\ by[t] # j
  BY <1>2, <1>7 DEF TInv, Asking, Open, Broken
<1>8. Asking'
  BY <1>3, <1>5, <1>7 DEF TInv, Asking, Open, Broken
<1> QED BY <1>4, <1>6, <1>8 DEF TInv

LEMMA StartTInv ==
  ASSUME IInv, TInv, NEW j \in Job, Start(j)
  PROVE  TInv'
<1>1. pc[j] = "new"
  BY DEF Start, IInv, Places
<1> DEFINE place == IF j \in Coder THEN "turn" ELSE "round"
<1>2. /\ At(j, place) /\ place \in JobPc \ ({"asking"} \cup Working)
      /\ UNCHANGED <<calls, fails, round>>
  BY DEF Start, JobPc, Working
<1>3. Goes(j, place, calls[j], fails[j])
  BY <1>1, <1>2, Typed DEF Goes, TInv, Types
<1>4. Proceeds(j)
  BY <1>2, <1>3, Typed DEF Proceeds, TInv, Types
<1>5. watching' \in BOOLEAN
  BY DEF Start, Watch
<1> QED BY <1>1, <1>4, <1>5, ProceedsInv DEF Start

(* The call is done: with its failures counted, or none.                   *)
LEMMA CalledProceeds ==
  ASSUME IInv, TInv, NEW j \in Job, pc[j] \in Working, Called(j),
         NEW f \in 0..Repeats, f < Repeats, fails' = [fails EXCEPT ![j] = f]
  PROVE  Proceeds(j)
<1>1. calls[j] \in 1..Calls /\ round[j] \in Nat
  BY Typed, BoundAssumption
<1>2. round' \in [Job -> Nat]
  BY <1>1 DEF Called, TInv, Types
<1>3. calls' = [calls EXCEPT ![j] = calls[j] - 1] /\ calls[j] - 1 \in 0..Calls
  BY <1>1, BoundAssumption DEF Called
<1>4. CASE calls[j] = 1
  <2>1. Goes(j, "round", calls[j] - 1, f)
    BY <1>3, <1>4 DEF Called, Goes, Working
  <2> QED BY <1>2, <1>3, <2>1 DEF Proceeds, JobPc
<1>5. CASE calls[j] # 1
  <2>1. Goes(j, "tools", calls[j] - 1, f)
    BY <1>1, <1>3, <1>5, BoundAssumption DEF Called, Goes
  <2> QED BY <1>2, <1>3, <2>1 DEF Proceeds, JobPc
<1> QED BY <1>4, <1>5

LEMMA WorkedProceeds ==
  ASSUME IInv, TInv, NEW j \in Job, pc[j] \in Working, Worked(j)
  PROVE  Proceeds(j)
<1>1. 0 \in 0..Repeats /\ 0 < Repeats
  BY BoundAssumption
<1> QED BY <1>1, CalledProceeds DEF Worked

LEMMA MovesProceeds ==
  ASSUME TInv, NEW j \in Job, NEW place \in JobPc \ {"asking"}, At(j, place),
         UNCHANGED <<round, calls, fails>>, pc[j] # "done",
         place \in Working => pc[j] \in Working
  PROVE  Proceeds(j)
<1>1. /\ calls[j] \in 0..Calls /\ fails[j] \in 0..Repeats /\ fails[j] < Repeats
      /\ place \in Working => calls[j] >= 1
  BY Typed
<1>2. calls' = [calls EXCEPT ![j] = calls[j]] /\ fails' = [fails EXCEPT ![j] = fails[j]]
  BY DEF TInv, Types
<1>3. Goes(j, place, calls[j], fails[j])
  BY <1>1, <1>2 DEF Goes
<1> QED BY <1>1, <1>3 DEF Proceeds, TInv, Types

LEMMA FailedProceeds ==
  ASSUME IInv, TInv, NEW j \in Job, pc[j] \in Working, Failed(j)
  PROVE  Proceeds(j)
<1>1. PICK n \in {1, fails[j] + 1} :
         /\ fails' = [fails EXCEPT ![j] = n]
         /\ IF n >= Repeats
            THEN At(j, "done") /\ End(j, "failed", "error") /\ UNCHANGED <<calls, round>>
            ELSE Called(j) /\ UNCHANGED <<state, report>>
  BY DEF Failed
<1>2. fails[j] \in 0..Repeats /\ fails[j] < Repeats /\ calls[j] \in 0..Calls
  BY Typed DEF Working
<1>3. n \in 0..Repeats
  BY <1>1, <1>2, BoundAssumption
<1>4. CASE n >= Repeats
  <2>1. calls' = [calls EXCEPT ![j] = calls[j]]
    BY <1>1, <1>4 DEF TInv, Types
  <2>2. Goes(j, "done", calls[j], n)
    BY <1>1, <1>4, <2>1 DEF Goes, Working
  <2> QED BY <1>1, <1>2, <1>3, <1>4, <2>2 DEF Proceeds, JobPc, TInv, Types
<1>5. CASE ~ (n >= Repeats)
  <2>1. n < Repeats
    BY <1>3, <1>5, BoundAssumption
  <2> QED BY <1>1, <1>3, <1>5, <2>1, CalledProceeds
<1> QED BY <1>4, <1>5

LEMMA ModelProceeds ==
  ASSUME IInv, TInv, NEW j \in Job, ModelReturns(j)
  PROVE  Proceeds(j)
<1>1. pc[j] = "model" /\ UNCHANGED <<round, fails>>
  BY DEF ModelReturns
<1>2. CASE At(j, "done") /\ UNCHANGED calls
  BY <1>1, <1>2, MovesProceeds DEF JobPc, Working
<1>3. ASSUME NEW n \in 1..Calls, At(j, "tools"), calls' = [calls EXCEPT ![j] = n]
      PROVE  Proceeds(j)
  <2>1. /\ fails[j] \in 0..Repeats /\ fails[j] < Repeats
        /\ fails' = [fails EXCEPT ![j] = fails[j]] /\ round' \in [Job -> Nat]
    BY <1>1, Typed DEF TInv, Types
  <2>2. Goes(j, "tools", n, fails[j])
    BY <1>3, <2>1 DEF Goes
  <2>3. n \in 0..Calls
    BY BoundAssumption
  <2> QED BY <2>1, <2>2, <2>3 DEF Proceeds, JobPc
<1> QED BY <1>2, <1>3 DEF ModelReturns

LEMMA ThreadTInv ==
  ASSUME IInv, TInv, NEW j \in Job,
         RoundStart(j) \/ ModelReturns(j) \/ ToolCall(j) \/ ToolReturns(j)
           \/ Resume(j) \/ TurnEnds(j)
  PROVE  TInv'
<1>1. CASE RoundStart(j)
  <2>1. Proceeds(j)
    BY <1>1, MovesProceeds DEF RoundStart, JobPc, Working
  <2> QED BY <1>1, <2>1, ProceedsInv DEF RoundStart, watchVars, TInv, Types
<1>2. CASE ModelReturns(j)
  BY <1>2, ModelProceeds, ProceedsInv DEF ModelReturns, watchVars, TInv, Types
<1>3. CASE ToolCall(j)
  <2>1. pc[j] = "tools" /\ pc[j] \in Working
    BY <1>3 DEF ToolCall, Working
  <2>2. \/ Worked(j) \/ Failed(j)
        \/ At(j, "acting") /\ UNCHANGED <<round, calls, fails, state, report>>
    BY <1>3 DEF ToolCall
  <2>3. Proceeds(j)
    BY <2>1, <2>2, WorkedProceeds, FailedProceeds, MovesProceeds DEF JobPc
  <2> QED BY <1>3, <2>1, <2>3, ProceedsInv DEF ToolCall, watchVars, TInv, Types
<1>4. CASE ToolReturns(j)
  <2>1. pc[j] = "acting" /\ pc[j] \in Working
    BY <1>4 DEF ToolReturns, Working
  <2>2. \/ Worked(j) \/ Failed(j)
        \/ At(j, "done") /\ End(j, "failed", "error") /\ UNCHANGED <<round, calls, fails>>
    BY <1>4 DEF ToolReturns
  <2>3. Proceeds(j)
    BY <2>1, <2>2, WorkedProceeds, FailedProceeds, MovesProceeds DEF JobPc
  <2> QED BY <1>4, <2>1, <2>3, ProceedsInv DEF ToolReturns, watchVars, TInv, Types
<1>5. CASE Resume(j)
  <2>1. pc[j] # "asking" /\ pc[j] \in Working /\ (Worked(j) \/ Failed(j))
    BY <1>5 DEF Resume, Working
  <2>2. Proceeds(j)
    BY <2>1, WorkedProceeds, FailedProceeds
  <2> QED BY <1>5, <2>1, <2>2, ProceedsInv DEF Resume, watchVars, TInv, Types
<1>6. CASE TurnEnds(j)
  <2>1. Proceeds(j)
    BY <1>6, MovesProceeds DEF TurnEnds, JobPc, Working
  <2> QED BY <1>6, <2>1, ProceedsInv DEF TurnEnds, watchVars, TInv, Types
<1> QED BY <1>1, <1>2, <1>3, <1>4, <1>5, <1>6

(* Steps that leave threads and waits where they are.                      *)
LEMMA QuietTInv ==
  ASSUME TInv, Types', UNCHANGED <<pc, calls, fails, wait, by>>
  PROVE  TInv'
BY DEF TInv, Counts, Asking, Open, Broken

LEMMA AskTInv ==
  ASSUME IInv, TInv, NEW j \in Job, NEW t \in Token, Ask(j, t)
  PROVE  TInv'
<1>1. /\ wait' = [wait EXCEPT ![t] = "issued"] /\ by' = [by EXCEPT ![t] = j]
      /\ UNCHANGED <<stop, token, answered, outcome, round, calls, fails, told,
                     waiting, settling, ending, watching, seen>>
  BY DEF Ask, jobVars, watchVars
<1>2. /\ pc \in [Job -> JobPc] /\ wait \in [Token -> WaitPc]
      /\ by \in [Token -> Job \cup {None}]
      /\ \A u \in Token : wait[u] # "none" => by[u] \in Job
  BY DEF IInv, Places, Askers, Started
<1>3. Types'
  BY <1>1 DEF TInv, Types
<1>4. /\ wait'[t] = "issued" /\ by'[t] = j
      /\ \A u \in Token \ {t} : wait'[u] = wait[u] /\ by'[u] = by[u]
  BY <1>1, <1>2
<1>5. CASE j \in Coder
  <2>1. /\ pc' = pc /\ ~ Open(t)' /\ ~ Broken(t)'
        /\ \A u \in Token \ {t} : Open(u)' = Open(u) /\ Broken(u)' = Broken(u)
    BY <1>4, <1>5 DEF Ask, Open, Broken
  <2> QED BY <1>1, <1>3, <1>4, <2>1 DEF TInv, Counts, Asking
<1>6. CASE j \notin Coder
  <2>1. pc[j] = "acting" /\ pc' = [pc EXCEPT ![j] = "asking"]
    BY <1>6 DEF Ask, At
  <2>2. \A k \in Job : pc'[k] = IF k = j THEN "asking" ELSE pc[k]
    BY <1>2, <2>1
  <2>3. Counts'
    BY <1>1, <2>1, <2>2 DEF TInv, Counts, Working
  <2>4. ASSUME NEW u \in Token \ {t}, Open(u)'
        PROVE  Open(u) /\ by[u] \in Job /\ by[u] # j
    BY <1>2, <1>4, <2>1, <2>4 DEF TInv, Asking, Open
  <2>5. \A u \in Token : Broken(u)' => Broken(u) /\ by'[u] = by[u] /\ by[u] \in Job
    BY <1>2, <1>4 DEF Broken
  <2>6. Asking'
    BY <1>4, <2>1, <2>2, <2>4, <2>5 DEF TInv, Asking
  <2> QED BY <1>3, <2>3, <2>6 DEF TInv
<1> QED BY <1>5, <1>6

(* A wait that goes on is still open, and was.                             *)
LEMMA GoesOn ==
  ASSUME IInv, TInv, Types', NEW t \in Token, wait[t] \notin {"none", "done", "broken"},
         NEW w \in {"waiting", "gone", "closing"}, wait' = [wait EXCEPT ![t] = w],
         UNCHANGED <<pc, calls, fails, by>>
  PROVE  TInv'
<1>1. wait \in [Token -> WaitPc]
  BY DEF IInv, Askers
<1>2. \A u \in Token : Open(u)' = Open(u) /\ Broken(u)' = Broken(u)
  BY <1>1 DEF Open, Broken, WaitPc
<1> QED BY <1>2 DEF TInv, Counts, Asking

LEMMA WaitsTInv ==
  ASSUME IInv, TInv, NEW t \in Token,
         Register(t) \/ HearAnswer(t) \/ HearStop(t) \/ Notice(t) \/ GiveUp(t)
  PROVE  TInv'
<1>1. \A u \in Token : wait[u] # "none" => by[u] \in Job
  BY DEF IInv, Askers, Started
<1>2. CASE Register(t)
  <2>1. /\ wait[t] = "issued" /\ wait' = [wait EXCEPT ![t] = "waiting"]
        /\ token' = [token EXCEPT ![by[t]] = t]
        /\ answered' = [answered EXCEPT ![by[t]] = FALSE]
        /\ outcome' = [outcome EXCEPT ![by[t]] = "none"]
        /\ waiting' = waiting \cup {t}
        /\ UNCHANGED <<stop, pc, round, calls, fails, by, told, settling,
                       ending, watching, seen>>
    BY <1>2 DEF Register, Unanswered, threadVars, watchVars
  <2>2. Types'
    BY <1>1, <2>1 DEF TInv, Types, Outcome
  <2> QED BY <2>1, <2>2, GoesOn
<1>3. CASE HearAnswer(t) \/ HearStop(t) \/ GiveUp(t)
  <2>1. PICK said \in {"none", "stopped", "expired"} : Leave(t, said)
    BY <1>3 DEF HearAnswer, HearStop, GiveUp
  <2>2. wait[t] \notin {"none", "done", "broken"}
    BY <1>3 DEF HearAnswer, HearStop, GiveUp, Polling
  <2>3. /\ wait' = [wait EXCEPT ![t] = "closing"] /\ told' = [told EXCEPT ![t] = said]
        /\ UNCHANGED <<stop, token, answered, outcome, pc, round, calls, fails, by,
                       waiting, settling, ending, watching, seen>>
    BY <2>1 DEF Leave, jobVars, threadVars, watchVars
  <2>4. Types'
    BY <2>3 DEF TInv, Types, Outcome
  <2> QED BY <2>2, <2>3, <2>4, GoesOn
<1>4. CASE Notice(t)
  <2>1. PICK w \in {"waiting", "gone"} : wait' = [wait EXCEPT ![t] = w]
    BY <1>4 DEF Notice
  <2>2. /\ wait[t] \notin {"none", "done", "broken"}
        /\ UNCHANGED <<stop, token, answered, outcome, pc, round, calls, fails, by, told,
                       waiting, settling, ending, watching, seen>>
    BY <1>4 DEF Notice, Polling, jobVars, threadVars, watchVars
  <2>3. Types'
    BY <2>2 DEF TInv, Types
  <2> QED BY <2>1, <2>2, <2>3, GoesOn
<1> QED BY <1>2, <1>3, <1>4

LEMMA RaisesTInv ==
  ASSUME IInv, TInv, NEW t \in Token, PendingRaises(t)
  PROVE  TInv'
<1> DEFINE j == by[t]
<1>1. /\ wait[t] \in {"waiting", "gone"} /\ wait' = [wait EXCEPT ![t] = "broken"]
      /\ UNCHANGED <<stop, token, answered, outcome, round, calls, fails, by, told,
                     waiting, settling, ending, watching, seen>>
  BY DEF PendingRaises, Polling, watchVars
<1>2. /\ pc \in [Job -> JobPc] /\ wait \in [Token -> WaitPc]
      /\ \A u \in Token : wait[u] # "none" => by[u] \in Job
  BY DEF IInv, Places, Askers, Started
<1>3. Types'
  BY <1>1 DEF TInv, Types
<1>4. /\ \A u \in Token : Open(u)' = (Open(u) /\ u # t)
      /\ \A u \in Token \ {t} : Broken(u)' = Broken(u)
  BY <1>1, <1>2 DEF Open, Broken
<1>5. CASE j \in Coder
  BY <1>1, <1>3, <1>4, <1>5 DEF PendingRaises, TInv, Counts, Asking, Broken
<1>6. CASE j \notin Coder
  <2>1. pc' = [pc EXCEPT ![j] = "done"] /\ j \in Job
    BY <1>1, <1>2, <1>6 DEF PendingRaises, At
  <2>2. \A k \in Job : pc'[k] = IF k = j THEN "done" ELSE pc[k]
    BY <1>2, <2>1
  <2>3. pc[j] = "asking" /\ \A u \in Token : Open(u)' => Open(u) /\ by[u] # j
    BY <1>1, <1>4, <1>6 DEF TInv, Asking, Open
  <2>4. Counts'
    BY <1>1, <2>2 DEF TInv, Counts, Working
  <2>5. \A u \in Token : Open(u)' => by'[u] = by[u] /\ pc'[by[u]] = pc[by[u]]
    BY <1>1, <1>2, <2>2, <2>3 DEF Open
  <2>6. \A u \in Token : Broken(u)' => pc'[by'[u]] = "done"
    BY <1>1, <1>2, <1>4, <2>2 DEF TInv, Asking, Broken
  <2>7. Asking'
    BY <1>1, <2>3, <2>5, <2>6 DEF TInv, Asking
  <2> QED BY <1>3, <2>4, <2>7 DEF TInv
<1> QED BY <1>5, <1>6

LEMMA CloseTInv ==
  ASSUME IInv, TInv, NEW t \in Token, Close(t)
  PROVE  TInv'
<1> DEFINE j == by[t]
           said == IF told[t] = "none" THEN outcome[j] ELSE told[t]
<1>1. /\ wait[t] = "closing" /\ wait' = [wait EXCEPT ![t] = "done"]
      /\ told' = [told EXCEPT ![t] = said]
      /\ waiting' = waiting \ {t} /\ settling' = settling \ {t}
      /\ token' = [token EXCEPT ![j] = None]
      /\ UNCHANGED <<stop, answered, outcome, round, calls, fails, by,
                     ending, watching, seen>>
  BY DEF Close, watchVars
<1>2. /\ pc \in [Job -> JobPc] /\ wait \in [Token -> WaitPc]
      /\ \A u \in Token : wait[u] # "none" => by[u] \in Job
  BY DEF IInv, Places, Askers, Started
<1>3. j \in Job /\ said \in Outcome
  BY <1>1, <1>2 DEF TInv, Types
<1>4. Types'
  <2> HIDE DEF said, j
  <2> QED BY <1>1, <1>3 DEF TInv, Types
<1>5. \A u \in Token : Open(u)' = (Open(u) /\ u # t) /\ Broken(u)' = Broken(u)
  BY <1>1, <1>2 DEF Open, Broken
<1>6. CASE j \in Coder
  BY <1>1, <1>4, <1>5, <1>6 DEF Close, TInv, Counts, Asking
<1>7. CASE j \notin Coder
  <2>1. PICK place \in {"worked", "failed"} : pc' = [pc EXCEPT ![j] = place]
    BY <1>7 DEF Close, At
  <2>2. \A k \in Job : pc'[k] = IF k = j THEN place ELSE pc[k]
    BY <1>2, <2>1
  <2>3. Open(t)
    BY <1>1, <1>7 DEF Open
  <2>4. pc[j] = "asking" /\ \A u \in Token : Open(u)' => Open(u) /\ by[u] # j
    BY <1>5, <2>3 DEF TInv, Asking
  <2>5. Counts'
    BY <1>1, <1>3, <2>2, <2>4 DEF TInv, Counts, Working
  <2>6. \A u \in Token : Open(u)' => by'[u] = by[u] /\ pc'[by[u]] = pc[by[u]]
    BY <1>1, <1>2, <2>2, <2>4 DEF Open
  <2>7. \A u \in Token : Broken(u)' => by'[u] = by[u] /\ pc'[by[u]] = "done"
    BY <1>1, <1>2, <1>5, <2>2, <2>4 DEF TInv, Asking, Broken
  <2>8. Asking'
    BY <1>1, <2>4, <2>6, <2>7 DEF TInv, Asking
  <2> QED BY <1>4, <2>5, <2>8 DEF TInv
<1> QED BY <1>6, <1>7

LEMMA SettlesTInv ==
  ASSUME Custody, TInv, NEW s \in Settler,
         Settles(s) \/ \E t \in Token, yes \in BOOLEAN : SettleTake(s, t, yes)
  PROVE  TInv'
<1>1. CASE SettleMark(s)
  <2>1. settling' \subseteq Token
    BY <1>1 DEF SettleMark, TInv, Types
  <2> QED BY <1>1, <2>1, QuietTInv
          DEF SettleMark, jobVars, threadVars, watchVars, TInv, Types
<1>2. CASE SettleRun(s)
  BY <1>2, QuietTInv DEF SettleRun, jobVars, threadVars, waitVars, watchVars, TInv, Types
<1>3. CASE SettleAnswer(s)
  <2>1. settler[s].result \in Outcome
    BY DEF Custody, SettlerTypes
  <2>2. outcome' \in [Job -> Outcome] /\ answered' \in [Job -> BOOLEAN]
    BY <1>3, <2>1 DEF SettleAnswer, TInv, Types
  <2> QED BY <1>3, <2>2, QuietTInv DEF SettleAnswer, threadVars, waitVars, watchVars, TInv, Types
<1>4. ASSUME NEW t \in Token, NEW yes \in BOOLEAN, SettleTake(s, t, yes) PROVE TInv'
  BY <1>4, QuietTInv DEF SettleTake, jobVars, threadVars, waitVars, watchVars, TInv, Types
<1> QED BY <1>1, <1>2, <1>3, <1>4 DEF Settles

LEMMA OthersTInv ==
  ASSUME IInv, TInv,
         \/ \E j \in Job : Stop(j) \/ Ends(j) \/ WatchPass(j) \/ WatchStall(j) \/ TurnLate(j)
         \/ \E t \in Token : Tick(t) \/ Expire(t)
         \/ WatchScan \/ UNCHANGED vars
  PROVE  TInv'
<1>1. UNCHANGED <<token, answered, outcome, pc, round, calls, fails, wait, by, told,
                  waiting, settling>>
  BY DEF Stop, Ends, EndCall, WatchPass, WatchStall, TurnLate, Tick, Expire, WatchScan,
         vars, jobVars, threadVars, waitVars, watchVars
<1> DEFINE OthersTyped == /\ stop' \in [Job -> BOOLEAN] /\ watching' \in BOOLEAN
                     /\ ending' \subseteq Job \X {"stopped", "stalled"} /\ seen' \subseteq Job
<1>2. OthersTyped
  <2> USE DEF jobVars, watchVars, TInv, Types
  <2>1. ASSUME NEW j \in Job, Stop(j) \/ WatchStall(j) PROVE OthersTyped
    <3>1. PICK reason \in {"stopped", "stalled"} : Halt(j, reason)
      BY <2>1 DEF Stop, WatchStall
    <3>2. stop' \in [Job -> BOOLEAN] /\ ending' \subseteq Job \X {"stopped", "stalled"}
      BY <3>1 DEF Halt
    <3>3. watching' \in BOOLEAN /\ seen' \subseteq Job
      BY <2>1 DEF Stop, WatchStall
    <3> QED BY <3>2, <3>3
  <2>2. ASSUME NEW j \in Job, Ends(j) \/ WatchPass(j) \/ TurnLate(j) PROVE OthersTyped
    BY <2>2 DEF Ends, EndCall, WatchPass, TurnLate
  <2>3. CASE WatchScan
    BY <2>3 DEF WatchScan
  <2>4. ASSUME NEW t \in Token, Tick(t) \/ Expire(t) PROVE OthersTyped
    BY <2>4 DEF Tick, Expire
  <2>5. CASE UNCHANGED vars
    BY <2>5 DEF vars
  <2> QED BY <2>1, <2>2, <2>3, <2>4, <2>5
<1>3. Types'
  BY <1>1, <1>2 DEF TInv, Types
<1> QED BY <1>1, <1>3, QuietTInv

LEMMA NextTInv ==
  ASSUME IInv, Custody, TInv, [Next]_vars
  PROVE  TInv'
<1>1. ASSUME NEW j \in Job, Start(j) PROVE TInv'
  BY <1>1, StartTInv
<1>2. ASSUME NEW j \in Job, Thread(j) \/ ModelReturns(j) \/ ToolReturns(j) \/ TurnEnds(j)
      PROVE  TInv'
  BY <1>2, ThreadTInv DEF Thread
<1>3. ASSUME NEW j \in Job, NEW t \in Token, Ask(j, t) PROVE TInv'
  BY <1>3, AskTInv
<1>4. ASSUME NEW t \in Token, Waits(t) \/ PendingRaises(t) PROVE TInv'
  BY <1>4, WaitsTInv, CloseTInv, RaisesTInv DEF Waits
<1>5. ASSUME NEW s \in Settler,
             Settles(s) \/ \E t \in Token, yes \in BOOLEAN : SettleTake(s, t, yes)
      PROVE  TInv'
  BY <1>5, SettlesTInv
<1> QED BY <1>1, <1>2, <1>3, <1>4, <1>5, OthersTInv DEF Next

LEMMA TInvariance == Spec => []TInv
<1>1. IInv /\ Custody /\ TInv /\ [Next]_vars => TInv'
  BY NextTInv
<1> QED BY <1>1, InitTInv, Invariance, CustodyInvariance, PTL DEF Spec

(* Every variable keeps its type: a round never makes more calls than it   *)
(* has left, and no thread goes on after REPEATS failures (_run).          *)
THEOREM TypesHold == Spec => []TypeOK
<1>1. IInv /\ Custody /\ TInv => TypeOK
  BY DEF TypeOK, IInv, Ended, Places, Askers, Custody, SettlerTypes, TInv, Types
<1> QED BY <1>1, Invariance, CustodyInvariance, TInvariance, PTL

-----------------------------------------------------------------------------
(* What a wait is told, when every job is a sub-agent's own.               *)

(* What is true of an issued token stays true of it.                       *)
Kept == \A t \in Token \ Fresh : /\ t \notin Fresh'
                                 /\ \A said \in Outcome : Agrees(t, said) => Agrees(t, said)'

LEMMA ElsewhereKept ==
  ASSUME Elsewhere
  PROVE  Kept
<1>1. UNCHANGED <<pending, asked, settler, ran>>
  BY DEF Elsewhere, storeVars
<1> QED BY <1>1 DEF Kept, Agrees, Unheld, Busy, Fresh

LEMMA StoreKept ==
  ASSUME Custody, NEW t \in Token,
         (\E j \in Job : Ask(j, t)) \/ Tick(t) \/ Expire(t)
  PROVE  Kept
<1>1. CASE \E j \in Job : Ask(j, t)
  <2>1. PICK a \in Act : Issue(t, a) /\ UNCHANGED <<settler, ran>>
    BY <1>1 DEF Ask
  <2>2. /\ t \in Fresh /\ pending' = pending \cup {t}
        /\ \A u \in Token \ {t} : asked'[u] = asked[u]
    BY <2>1 DEF Issue, Custody, StoreTypeOK
  <2> QED BY <2>1, <2>2 DEF Kept, Agrees, Unheld, Busy, Fresh
<1>2. CASE Tick(t) \/ Expire(t)
  <2>1. pending' \subseteq pending /\ UNCHANGED <<asked, settler, ran>>
    BY <1>2 DEF Tick, Age, Expire, Pop
  <2> QED BY <2>1 DEF Kept, Agrees, Unheld, Busy, Fresh
<1> QED BY <1>1, <1>2

LEMMA SettlesKept ==
  ASSUME Custody, NEW s \in Settler,
         Settles(s) \/ \E t \in Token, yes \in BOOLEAN : SettleTake(s, t, yes)
  PROVE  Kept
<1>1. ASSUME NEW t \in Token, NEW yes \in BOOLEAN, SettleTake(s, t, yes) PROVE Kept
  <2>1. /\ t \in pending /\ pending' \subseteq pending /\ UNCHANGED <<asked, ran>>
        /\ settler'[s].tok = t /\ \A r \in Settler \ {s} : settler'[r] = settler[r]
    BY <1>1 DEF SettleTake, Pop, Custody, SettlerTypes
  <2> QED BY <2>1 DEF Kept, Agrees, Unheld, Busy, Fresh
<1>2. CASE SettleMark(s)
  <2>1. /\ UNCHANGED <<pending, asked, ran>> /\ Busy(s)
        /\ \A r \in Settler : settler'[r].tok = settler[r].tok /\ Busy(r)' = Busy(r)
    BY <1>2 DEF SettleMark, Settling, storeVars, Custody, SettlerTypes, Busy
  <2> QED BY <2>1 DEF Kept, Agrees, Unheld, Fresh
<1>3. CASE SettleRun(s)
  <2>1. PICK t \in Token : t = settler[s].tok
    BY <1>3, RunOnce DEF Knows
  <2>2. /\ UNCHANGED <<pending, asked>> /\ Busy(s)
        /\ \A r \in Settler : settler'[r].tok = settler[r].tok /\ Busy(r)' = Busy(r)
    BY <1>3 DEF SettleRun, storeVars, Custody, SettlerTypes, Busy
  <2>3. ran[t] = <<>> /\ \A u \in Token \ {t} : ran'[u] = ran[u]
    BY <1>3, <2>1, RunOnce DEF Custody, SettlerTypes
  <2>4. \A said \in Outcome : Agrees(t, said) => said \notin {"executed", "failed", "denied"}
    BY <2>1, <2>2, <2>3 DEF Agrees, Unheld
  <2>5. \A said \in Outcome : Agrees(t, said) => Agrees(t, said)'
    BY <2>4 DEF Agrees
  <2>6. ASSUME NEW u \in Token \ {t}, NEW said \in Outcome, Agrees(u, said)
        PROVE  Agrees(u, said)'
    BY <2>2, <2>3, <2>6 DEF Agrees, Unheld
  <2> QED BY <2>2, <2>5, <2>6 DEF Kept, Fresh
<1>4. CASE SettleAnswer(s)
  <2>1. /\ UNCHANGED <<pending, asked, ran>> /\ settler'[s].pc = "idle"
        /\ \A r \in Settler \ {s} : settler'[r] = settler[r]
    BY <1>4 DEF SettleAnswer, IdleSettler, storeVars, Custody, SettlerTypes
  <2> QED BY <2>1 DEF Kept, Agrees, Unheld, Busy, Fresh
<1> QED BY <1>1, <1>2, <1>3, <1>4 DEF Settles

LEMMA NextKept ==
  ASSUME Custody, [Next]_vars
  PROVE  Kept
BY StepElsewhere, ElsewhereKept, StoreKept, SettlesKept

-----------------------------------------------------------------------------
(* An answer reaches the wait it is for: with one wait at a time, the      *)
(* outcome on the job is that of the token it waits on.                    *)

LEMMA InitAnswers == Init => Answers
BY DEF Init, StoreInit, Answers, Agrees, Fresh

LEMMA Waiter ==
  ASSUME IInv, TInv, Answers, Coder = {}, NEW t \in Token, wait[t] # "none"
  PROVE  /\ by[t] \in Job /\ outcome[by[t]] \in Outcome /\ told[t] \in Outcome
         /\ t \notin Fresh
         /\ \A u \in Token : by[u] = by[t] /\ u # t
               /\ wait[t] \in {"issued", "waiting", "gone", "closing"}
                => wait[u] \notin {"issued", "waiting", "gone", "closing"} /\ u \notin waiting
         /\ wait[t] = "broken" => \A u \in Token : by[u] = by[t]
                => wait[u] \notin {"issued", "waiting", "gone", "closing"}
<1>1. by[t] \in Job /\ t \notin Fresh
  BY DEF IInv, Askers, Started, Answers
<1>2. outcome[by[t]] \in Outcome /\ told[t] \in Outcome
  BY <1>1 DEF TInv, Types
<1>3. \A u \in Token : u \in waiting
        => wait[u] \in {"issued", "waiting", "gone", "closing", "broken"}
  BY DEF Answers
<1>4. \A u \in Token : by[u] = by[t] /\ u # t
               /\ wait[t] \in {"issued", "waiting", "gone", "closing"}
                => wait[u] \notin {"issued", "waiting", "gone", "closing", "broken"}
  BY DEF TInv, Asking, Open, Broken
<1>5. wait[t] = "broken" => \A u \in Token : by[u] = by[t]
                => wait[u] \notin {"issued", "waiting", "gone", "closing"}
  BY DEF TInv, Asking, Open, Broken
<1> QED BY <1>1, <1>2, <1>3, <1>4, <1>5

(* The claims of Answers about one token.                                  *)
Answered(t) ==
  /\ wait[t] # "none" => t \notin Fresh
  /\ wait[t] \in {"waiting", "gone", "closing"} => t \in waiting
  /\ t \in waiting => wait[t] \in {"waiting", "gone", "closing", "broken"}
  /\ wait[t] = "done" => told[t] # "none" /\ Agrees(t, told[t])
  /\ wait[t] # "done" => told[t] \in {"none", "stopped", "expired"}
  /\ wait[t] = "closing" /\ told[t] = "none" => answered[by[t]]
  /\ wait[t] \in {"waiting", "gone", "closing"}
       => /\ answered[by[t]] => outcome[by[t]] # "none"
          /\ Agrees(t, outcome[by[t]])

LEMMA SameAnswered ==
  ASSUME IInv, TInv, Answers, Coder = {}, Kept, NEW t \in Token,
         wait'[t] = wait[t], by'[t] = by[t], told'[t] = told[t],
         t \in waiting' <=> t \in waiting,
         wait[t] \in {"waiting", "gone", "closing"}
           => answered'[by[t]] = answered[by[t]] /\ outcome'[by[t]] = outcome[by[t]]
  PROVE  Answered(t)'
<1>1. Answered(t)
  BY DEF Answers, Answered
<1>2. CASE wait[t] = "none"
  BY <1>1, <1>2 DEF Answered
<1>3. CASE wait[t] # "none"
  <2>1. PICK a \in Outcome, o \in Outcome : a = told[t] /\ o = outcome[by[t]]
    BY <1>3, Waiter
  <2>2. /\ t \notin Fresh'
        /\ Agrees(t, a) => Agrees(t, a)'
        /\ Agrees(t, o) => Agrees(t, o)'
    BY <1>3, Waiter DEF Kept
  <2>3. wait[t] = "done" => told'[t] # "none" /\ Agrees(t, told[t])'
    BY <1>1, <2>1, <2>2 DEF Answered, Agrees
  <2>4. wait[t] \in {"waiting", "gone", "closing"} => Agrees(t, outcome[by[t]])'
    BY <1>1, <2>1, <2>2 DEF Answered, Agrees
  <2> QED BY <1>1, <2>2, <2>3, <2>4 DEF Answered
<1> QED BY <1>2, <1>3

LEMMA EachAnswered ==
  ASSUME \A t \in Token : Answered(t)'
  PROVE  Answers'
BY DEF Answers, Answered

LEMMA QuietAnswers ==
  ASSUME IInv, TInv, Answers, Coder = {}, Kept,
         UNCHANGED <<wait, by, told, waiting, answered, outcome>>
  PROVE  Answers'
BY SameAnswered, EachAnswered

LEMMA AskAnswers ==
  ASSUME IInv, Custody, TInv, Answers, Coder = {}, Kept,
         NEW j \in Job, NEW t \in Token, Ask(j, t)
  PROVE  Answers'
<1>1. /\ wait' = [wait EXCEPT ![t] = "issued"] /\ by' = [by EXCEPT ![t] = j]
      /\ UNCHANGED <<told, waiting, answered, outcome>>
  BY DEF Ask, jobVars
<1>2. /\ wait'[t] = "issued"
      /\ \A u \in Token \ {t} : wait'[u] = wait[u] /\ by'[u] = by[u]
  BY <1>1 DEF IInv, Askers
<1>3. PICK a \in Act : t \in Fresh /\ asked' = [asked EXCEPT ![t] = a]
  BY DEF Ask, Issue
<1>4. asked'[t] = a
  BY <1>3 DEF Custody, StoreTypeOK
<1>5. t \notin Fresh' /\ wait[t] = "none" /\ t \notin waiting
  <2>1. t \notin Fresh'
    BY <1>4, StoreAssumption DEF Fresh
  <2>2. wait[t] = "none"
    BY <1>3 DEF Answers
  <2> QED BY <2>1, <2>2 DEF Answers
<1>6. Answered(t)'
  BY <1>1, <1>2, <1>5 DEF Answered, Answers
<1>7. \A u \in Token \ {t} : Answered(u)'
  BY <1>1, <1>2, SameAnswered
<1> QED BY <1>6, <1>7, EachAnswered

(* A wait begins without an answer, and no other wait of its job is open.  *)
LEMMA RegisterAnswers ==
  ASSUME IInv, TInv, Answers, Coder = {}, Kept, NEW t \in Token, Register(t)
  PROVE  Answers'
<1>0. PICK j \in Job : j = by[t]
  BY Waiter DEF Register
<1>1. /\ wait[t] = "issued" /\ wait' = [wait EXCEPT ![t] = "waiting"]
      /\ answered' = [answered EXCEPT ![j] = FALSE]
      /\ outcome' = [outcome EXCEPT ![j] = "none"]
      /\ waiting' = waiting \cup {t} /\ UNCHANGED <<by, told>>
  BY <1>0 DEF Register, Unanswered
<1>2. /\ wait'[t] = "waiting" /\ \A u \in Token \ {t} : wait'[u] = wait[u]
  BY <1>1 DEF IInv, Askers
<1>3. /\ answered'[j] = FALSE /\ outcome'[j] = "none"
      /\ \A k \in Job \ {j} : answered'[k] = answered[k] /\ outcome'[k] = outcome[k]
  BY <1>1 DEF TInv, Types
<1>4. Answered(t)'
  <2>1. t \notin Fresh' /\ told[t] \in {"none", "stopped", "expired"}
    BY <1>1, Waiter DEF Kept, Answers
  <2> QED BY <1>0, <1>1, <1>2, <1>3, <2>1 DEF Answered, Agrees
<1>5. ASSUME NEW u \in Token \ {t} PROVE Answered(u)'
  <2>1. wait[u] \in {"waiting", "gone", "closing"} => by[u] \in Job \ {j}
    BY <1>0, <1>1, <1>5, Waiter DEF Answers
  <2> QED BY <1>1, <1>2, <1>3, <2>1, SameAnswered
<1> QED BY <1>4, <1>5, EachAnswered

LEMMA PollAnswers ==
  ASSUME IInv, TInv, Answers, Coder = {}, Kept, NEW t \in Token,
         HearAnswer(t) \/ HearStop(t) \/ GiveUp(t) \/ Notice(t)
  PROVE  Answers'
<1>1. PICK w \in {"waiting", "gone", "closing"}, said \in {"none", "stopped", "expired"} :
        /\ wait[t] \in {"waiting", "gone"} /\ wait' = [wait EXCEPT ![t] = w]
        /\ told' = [told EXCEPT ![t] = said]
        /\ w = "closing" /\ said = "none" => answered[by[t]]
        /\ UNCHANGED <<by, waiting, answered, outcome>>
  <2>1. CASE Notice(t)
    <3>1. PICK w \in {"waiting", "gone"} : wait' = [wait EXCEPT ![t] = w]
      BY <2>1 DEF Notice
    <3>2. told' = [told EXCEPT ![t] = told[t]]
      BY <2>1 DEF Notice, TInv, Types
    <3>3. wait[t] \in {"waiting", "gone"} /\ told[t] \in {"none", "stopped", "expired"}
      BY <2>1 DEF Notice, Polling, Answers
    <3> QED BY <2>1, <3>1, <3>2, <3>3 DEF Notice, jobVars
  <2>2. CASE HearAnswer(t)
    BY <2>2 DEF HearAnswer, Leave, Polling, jobVars
  <2>3. CASE HearStop(t)
    BY <2>3 DEF HearStop, Leave, Polling, jobVars
  <2>4. CASE GiveUp(t)
    BY <2>4 DEF GiveUp, Leave, jobVars
  <2> QED BY <2>1, <2>2, <2>3, <2>4
<1>2. /\ wait'[t] = w /\ told'[t] = said
      /\ \A u \in Token \ {t} : wait'[u] = wait[u] /\ told'[u] = told[u]
  BY <1>1 DEF IInv, Askers, TInv, Types
<1>3. PICK o \in Outcome : o = outcome[by[t]]
  BY <1>1, Waiter
<1>4. t \notin Fresh' /\ t \in waiting /\ (answered[by[t]] => o # "none") /\ Agrees(t, o)
  BY <1>1, <1>3, Waiter DEF Kept, Answers
<1>5. Agrees(t, o)'
  BY <1>1, <1>4, Waiter DEF Kept
<1>6. Agrees(t, outcome[by[t]])'
  BY <1>1, <1>3, <1>5 DEF Agrees
<1>7. Answered(t)'
  BY <1>1, <1>2, <1>3, <1>4, <1>6 DEF Answered
<1>8. \A u \in Token \ {t} : Answered(u)'
  BY <1>1, <1>2, SameAnswered
<1> QED BY <1>7, <1>8, EachAnswered

LEMMA RaisesAnswers ==
  ASSUME IInv, TInv, Answers, Coder = {}, Kept, NEW t \in Token, PendingRaises(t)
  PROVE  Answers'
<1>1. /\ wait[t] \in {"waiting", "gone"} /\ wait' = [wait EXCEPT ![t] = "broken"]
      /\ UNCHANGED <<by, told, waiting, answered, outcome>>
  BY DEF PendingRaises, Polling
<1>2. wait'[t] = "broken" /\ \A u \in Token \ {t} : wait'[u] = wait[u]
  BY <1>1 DEF IInv, Askers
<1>3. t \notin Fresh' /\ told[t] \in {"none", "stopped", "expired"}
  BY <1>1, Waiter DEF Kept, Answers
<1>4. Answered(t)'
  BY <1>1, <1>2, <1>3 DEF Answered
<1>5. \A u \in Token \ {t} : Answered(u)'
  BY <1>1, <1>2, SameAnswered
<1> QED BY <1>4, <1>5, EachAnswered

(* The wait comes back with what it was told, or with the outcome of the   *)
(* token it was for.                                                       *)
LEMMA CloseAnswers ==
  ASSUME IInv, TInv, Answers, Coder = {}, Kept, NEW t \in Token, Close(t)
  PROVE  Answers'
<1>1. PICK said \in Outcome :
        /\ said = IF told[t] = "none" THEN outcome[by[t]] ELSE told[t]
        /\ wait[t] = "closing" /\ wait' = [wait EXCEPT ![t] = "done"]
        /\ told' = [told EXCEPT ![t] = said]
        /\ waiting' = waiting \ {t} /\ UNCHANGED <<by, answered, outcome>>
  BY Waiter DEF Close
<1>2. /\ wait'[t] = "done" /\ told'[t] = said
      /\ \A u \in Token \ {t} : wait'[u] = wait[u] /\ told'[u] = told[u]
  BY <1>1 DEF IInv, Askers, TInv, Types
<1>3. said # "none" /\ Agrees(t, said)
  <2>1. CASE told[t] = "none"
    BY <1>1, <2>1 DEF Answers
  <2>2. CASE told[t] # "none"
    BY <1>1, <2>2 DEF Answers, Agrees
  <2> QED BY <2>1, <2>2
<1>4. t \notin Fresh' /\ Agrees(t, said)'
  BY <1>1, <1>3, Waiter DEF Kept
<1>5. Agrees(t, told[t])'
  BY <1>2, <1>4 DEF Agrees
<1>6. Answered(t)'
  BY <1>1, <1>2, <1>3, <1>4, <1>5 DEF Answered
<1>7. \A u \in Token \ {t} : Answered(u)'
  BY <1>1, <1>2, SameAnswered
<1> QED BY <1>6, <1>7, EachAnswered

(* The result on the job is that of the token its only wait is for.        *)
LEMMA AnswerAnswers ==
  ASSUME IInv, Custody, TInv, Answers, Coder = {}, Kept, NEW s \in Settler, SettleAnswer(s)
  PROVE  Answers'
<1>0. PICK t \in Token : t = settler[s].tok
  BY DEF SettleAnswer, Custody, Busy, Knows
<1>1. UNCHANGED <<wait, by, told, waiting>>
  BY DEF SettleAnswer, waitVars
<1>2. CASE t \notin waiting
  BY <1>0, <1>1, <1>2, QuietAnswers DEF SettleAnswer, Heard
<1>3. CASE t \in waiting
  <2>1. wait[t] \in {"waiting", "gone", "closing", "broken"}
    BY <1>3 DEF Answers
  <2>2. PICK j \in Job : j = by[t]
    BY <2>1, Waiter
  <2>3. PICK o \in {"executed", "failed", "denied"} : o = settler[s].result
    BY DEF SettleAnswer, Custody, Busy, Knows
  <2>4. outcome' = [outcome EXCEPT ![j] = o] /\ answered' = [answered EXCEPT ![j] = TRUE]
    BY <1>0, <1>3, <2>2, <2>3 DEF SettleAnswer, Heard
  <2>5. /\ outcome'[j] = o /\ answered'[j] = TRUE
        /\ \A k \in Job \ {j} : outcome'[k] = outcome[k] /\ answered'[k] = answered[k]
    BY <2>4 DEF TInv, Types
  <2>6. Agrees(t, o)'
    <3>1. /\ UNCHANGED <<pending, asked, ran>> /\ settler'[s].pc = "idle"
          /\ \A r \in Settler \ {s} : settler'[r] = settler[r]
      BY DEF SettleAnswer, IdleSettler, storeVars, Custody, SettlerTypes
    <3>2. Busy(s) /\ settler[s].pc = "answer" /\ Knows(s)
      BY DEF SettleAnswer, Busy, Custody
    <3>3. /\ t \notin pending /\ ran[t] = IF o # "denied" THEN <<asked[t]>> ELSE <<>>
      BY <1>0, <2>3, <3>2 DEF Knows
    <3>4. \A r \in Settler \ {s} : Busy(r) => settler[r].tok # t
      BY <1>0, <3>2 DEF Custody
    <3> QED BY <3>1, <3>3, <3>4 DEF Agrees, Unheld, Busy
  <2>7. Agrees(t, outcome[by[t]])'
    BY <1>1, <2>2, <2>5, <2>6 DEF Agrees
  <2>8. Answered(t)'
    <3>1. t \notin Fresh' /\ wait[t] # "done" /\ told[t] \in {"none", "stopped", "expired"}
      BY <2>1, Waiter DEF Kept, Answers
    <3> QED BY <1>1, <1>3, <2>1, <2>2, <2>5, <2>7, <3>1 DEF Answered
  <2>9. ASSUME NEW u \in Token \ {t} PROVE Answered(u)'
    <3>1. wait[u] \in {"waiting", "gone", "closing"} => by[u] \in Job \ {j}
      BY <2>1, <2>2, <2>9, Waiter DEF Answers
    <3> QED BY <1>1, <2>5, <3>1, SameAnswered
  <2> QED BY <2>8, <2>9, EachAnswered
<1> QED BY <1>2, <1>3

LEMMA NextAnswers ==
  ASSUME IInv, Custody, TInv, Answers, Coder = {}, [Next]_vars
  PROVE  Answers'
<1> DEFINE Idle == UNCHANGED <<wait, by, told, waiting, answered, outcome>>
<1>0. Kept
  BY NextKept
<1>1. ASSUME NEW j \in Job,
             Start(j) \/ Stop(j) \/ Ends(j) \/ WatchPass(j) \/ WatchStall(j)
               \/ Thread(j) \/ ModelReturns(j) \/ ToolReturns(j)
               \/ TurnEnds(j) \/ TurnLate(j)
      PROVE  Idle
  <2> USE DEF jobVars, waitVars
  <2>1. CASE Start(j) \/ Stop(j) \/ Ends(j) \/ WatchPass(j) \/ WatchStall(j)
    BY <2>1 DEF Start, Stop, Ends, EndCall, WatchPass, WatchStall
  <2>2. CASE RoundStart(j) \/ ToolCall(j) \/ Resume(j)
    BY <2>2 DEF RoundStart, ToolCall, Resume
  <2>3. CASE ModelReturns(j) \/ ToolReturns(j) \/ TurnEnds(j) \/ TurnLate(j)
    BY <2>3 DEF ModelReturns, ToolReturns, TurnEnds, TurnLate
  <2> QED BY <1>1, <2>1, <2>2, <2>3 DEF Thread
<1>2. ASSUME NEW j \in Job, NEW t \in Token, Ask(j, t) PROVE Answers'
  BY <1>0, <1>2, AskAnswers
<1>3. ASSUME NEW t \in Token, Waits(t) \/ PendingRaises(t) PROVE Answers'
  BY <1>0, <1>3, RegisterAnswers, PollAnswers, CloseAnswers, RaisesAnswers DEF Waits
<1>4. ASSUME NEW t \in Token, Tick(t) \/ Expire(t) PROVE Idle
  BY <1>4 DEF Tick, Expire, jobVars, waitVars
<1>5. ASSUME NEW s \in Settler, SettleMark(s) \/ SettleRun(s)
             \/ \E t \in Token, yes \in BOOLEAN : SettleTake(s, t, yes)
      PROVE  Idle
  BY <1>5 DEF SettleMark, SettleRun, SettleTake, jobVars, waitVars
<1>6. CASE WatchScan \/ UNCHANGED vars
  BY <1>6, <1>0, QuietAnswers DEF WatchScan, vars, jobVars, waitVars
<1>7. ASSUME NEW s \in Settler,
             Settles(s) \/ \E t \in Token, yes \in BOOLEAN : SettleTake(s, t, yes)
      PROVE  Answers'
  BY <1>0, <1>5, <1>7, AnswerAnswers, QuietAnswers DEF Settles
<1> QED BY <1>0, <1>1, <1>2, <1>3, <1>4, <1>6, <1>7, QuietAnswers DEF Next

(* A sub-agent is told of its confirmed action what happened to it, for    *)
(* every number of jobs, tokens and surfaces: its thread waits on one      *)
(* token at a time, so the outcome left on the job is that token's.  An    *)
(* outside coder's job may wait on several, and is left out               *)
(* (_await_approval, settled).                                             *)
THEOREM HonestAnswerHolds ==
  ASSUME Coder = {}
  PROVE  Spec => []HonestAnswer
<1>1. Answers => HonestAnswer
  <2> SUFFICES ASSUME Answers, NEW t \in Token, wait[t] = "done"
               PROVE  /\ told[t] # "none"
                      /\ told[t] \in {"executed", "failed"} => ran[t] = <<asked[t]>>
                      /\ told[t] = "denied" => ran[t] = <<>> /\ t \notin pending
    BY DEF HonestAnswer
  <2> QED BY DEF Answers, Agrees, Unheld
<1>2. IInv /\ Custody /\ TInv /\ Answers /\ [Next]_vars => Answers'
  BY NextAnswers
<1> QED BY <1>1, <1>2, InitAnswers, Invariance, CustodyInvariance, TInvariance, PTL DEF Spec

-----------------------------------------------------------------------------
(* A job the watcher passes over is in a wait.                             *)

Attended(t) == t \in waiting /\ wait[t] \in {"waiting", "gone", "closing"}
Attends(j)  == \E t \in Token : by[t] = j /\ Attended(t)
Excused ==
  /\ \A t \in Token : wait[t] # "none" => t \notin Fresh
  /\ \A j \in Job \ Coder :
       Unfinished(j) /\ state[j] = "awaiting_approval" => Attends(j)

LEMMA ExcusedInit == Init => Excused
BY DEF Init, Excused, Unfinished

(* No job is newly found to wait, and the waits stay.                      *)
Calm ==
  /\ UNCHANGED <<wait, by, waiting>>
  /\ Fresh' \subseteq Fresh
  /\ \A j \in Job : Unfinished(j)' /\ state'[j] = "awaiting_approval"
                      => Unfinished(j) /\ state[j] = "awaiting_approval"

LEMMA CalmExcused ==
  ASSUME Excused, Calm
  PROVE  Excused'
BY DEF Excused, Calm, Attends, Attended

LEMMA EndCalm ==
  ASSUME IInv, NEW j \in Job,
         (\E s \in {"completed", "failed", "interrupted"}, reason \in Report \ {"none"} :
            End(j, s, reason))
           \/ UNCHANGED <<state, report>>,
         UNCHANGED <<wait, by, waiting, asked>>
  PROVE  Calm
BY DEF End, Calm, Unfinished, Fresh, IInv, Ended

LEMMA NextCalm ==
  ASSUME IInv, Custody, [Next]_vars
  PROVE  \/ Calm
         \/ \E j \in Job, t \in Token : Ask(j, t)
         \/ \E t \in Token : Waits(t) \/ PendingRaises(t)
<1> USE DEF storeVars, jobVars, waitVars
<1>1. ASSUME NEW j \in Job, Start(j) PROVE Calm
  <2>1. /\ state' = [state EXCEPT ![j] = "running"]
        /\ UNCHANGED <<report, wait, by, waiting, asked>>
    BY <1>1 DEF Start
  <2> QED BY <2>1 DEF Calm, Unfinished, Fresh, IInv, Ended
<1>2. ASSUME NEW j \in Job, Thread(j) \/ ModelReturns(j) \/ ToolReturns(j) \/ TurnEnds(j)
      PROVE  Calm
  <2>1. ThreadMove(j)
    BY <1>2, ThreadMoves DEF Thread
  <2>2. UNCHANGED asked
    BY <1>2 DEF Thread, RoundStart, ToolCall, Resume, ModelReturns, ToolReturns, TurnEnds
  <2> QED BY <2>1, <2>2, EndCalm DEF ThreadMove, Ending
<1>3. ASSUME NEW j \in Job, TurnLate(j) \/ Ends(j) PROVE Calm
  <2>1. /\ \E s \in {"completed", "failed", "interrupted"}, reason \in Report \ {"none"} :
             End(j, s, reason)
        /\ UNCHANGED <<wait, by, waiting, asked>>
    BY <1>3 DEF TurnLate, Ends, EndCall, Report
  <2> QED BY <2>1, EndCalm
<1>4. ASSUME NEW j \in Job, Stop(j) \/ WatchPass(j) \/ WatchStall(j) PROVE Calm
  BY <1>4 DEF Stop, WatchPass, WatchStall, Calm, Unfinished, Fresh
<1>5. ASSUME NEW t \in Token, Tick(t) \/ Expire(t) PROVE Calm
  BY <1>5 DEF Tick, Age, Expire, Pop, Calm, Unfinished, Fresh
<1>6. ASSUME NEW s \in Settler,
             Settles(s) \/ \E t \in Token, yes \in BOOLEAN : SettleTake(s, t, yes)
      PROVE  Calm
  BY <1>6 DEF Settles, SettleTake, SettleMark, SettleRun, SettleAnswer, Pop,
              Calm, Unfinished, Fresh
<1>7. CASE WatchScan \/ UNCHANGED vars
  BY <1>7 DEF WatchScan, vars, Calm, Unfinished, Fresh
<1> QED BY <1>1, <1>2, <1>3, <1>4, <1>5, <1>6, <1>7 DEF Next

LEMMA AskExcused ==
  ASSUME IInv, Custody, Excused, NEW j \in Job, NEW t \in Token, Ask(j, t)
  PROVE  Excused'
<1>1. /\ wait' = [wait EXCEPT ![t] = "issued"] /\ by' = [by EXCEPT ![t] = j]
      /\ UNCHANGED <<waiting, state, report>>
  BY DEF Ask, jobVars
<1>2. PICK a \in Act : t \in Fresh /\ asked' = [asked EXCEPT ![t] = a]
  BY DEF Ask, Issue
<1>3. Fresh' = Fresh \ {t}
  BY <1>2, StoreAssumption DEF Custody, StoreTypeOK, Fresh
<1>4. wait[t] = "none" /\ ~ Attended(t)
  BY <1>2 DEF Excused, Attended
<1>5. \A u \in Token \ {t} : wait'[u] = wait[u] /\ by'[u] = by[u]
  BY <1>1 DEF IInv, Askers
<1>6. ASSUME NEW k \in Job, Attends(k) PROVE Attends(k)'
  BY <1>1, <1>4, <1>5, <1>6 DEF Attends, Attended
<1> QED BY <1>1, <1>3, <1>5, <1>6 DEF Excused, Unfinished

(* One wait moves on: the jobs of the others stay as they were, and its    *)
(* own waits still, or is not excused any more.                            *)
LEMMA OneWait ==
  ASSUME IInv, Excused, NEW t \in Token, wait[t] # "none",
         NEW w \in WaitPc, wait' = [wait EXCEPT ![t] = w],
         UNCHANGED <<by, asked>>, waiting \ {t} \subseteq waiting',
         \A k \in Job : k # by[t] /\ Unfinished(k)' /\ state'[k] = "awaiting_approval"
                          => Unfinished(k) /\ state[k] = "awaiting_approval",
         \/ w \in {"waiting", "gone", "closing"} /\ t \in waiting'
         \/ by[t] \in Coder
         \/ ~ (Unfinished(by[t])' /\ state'[by[t]] = "awaiting_approval")
  PROVE  Excused'
<1>1. wait'[t] = w /\ \A u \in Token \ {t} : wait'[u] = wait[u]
  BY DEF IInv, Askers
<1>2. ASSUME NEW k \in Job \ {by[t]}, Attends(k) PROVE Attends(k)'
  BY <1>1, <1>2 DEF Attends, Attended
<1>3. w \in {"waiting", "gone", "closing"} /\ t \in waiting' => Attends(by[t])'
  BY <1>1 DEF Attends, Attended
<1>4. \A u \in Token : wait'[u] # "none" => u \notin Fresh'
  BY <1>1 DEF Excused, Fresh
<1>5. ASSUME NEW k \in Job \ Coder, Unfinished(k)', state'[k] = "awaiting_approval"
      PROVE  Attends(k)'
  BY <1>2, <1>3, <1>5 DEF Excused
<1> QED BY <1>4, <1>5 DEF Excused

LEMMA WaitsExcused ==
  ASSUME IInv, Excused, NEW t \in Token, Waits(t) \/ PendingRaises(t)
  PROVE  Excused'
<1> USE DEF storeVars, WaitPc
<1>0. /\ \A u \in Token : wait[u] # "none" => by[u] \in Job
      /\ state \in [Job -> State] /\ report \in [Job -> Report]
  BY DEF IInv, Askers, Started, Ended
<1>1. CASE Register(t)
  <2>1. /\ wait[t] # "none" /\ wait' = [wait EXCEPT ![t] = "waiting"]
        /\ state' = [state EXCEPT ![by[t]] = "awaiting_approval"]
        /\ waiting' = waiting \cup {t} /\ UNCHANGED <<by, asked, report>>
    BY <1>1 DEF Register
  <2>2. \A k \in Job : k # by[t] => state'[k] = state[k]
    BY <1>0, <2>1
  <2> QED BY <2>1, <2>2, OneWait DEF Unfinished
<1>2. CASE HearAnswer(t) \/ HearStop(t) \/ Notice(t) \/ GiveUp(t)
  <2>1. PICK w \in {"waiting", "gone", "closing"} :
          /\ wait[t] \in {"waiting", "gone"} /\ wait' = [wait EXCEPT ![t] = w]
          /\ UNCHANGED <<by, asked, waiting, state, report>>
    BY <1>2 DEF HearAnswer, HearStop, Notice, GiveUp, Leave, Polling, jobVars
  <2>2. CASE t \in waiting
    BY <2>1, <2>2, OneWait DEF Unfinished
  <2>3. CASE t \notin waiting
    <3>1. \A k \in Job : Attends(k) => Attends(k)'
      BY <2>1, <2>3 DEF Attends, Attended, IInv, Askers
    <3>2. \A u \in Token : wait'[u] # "none" => u \notin Fresh'
      BY <2>1 DEF Excused, Fresh, IInv, Askers
    <3> QED BY <2>1, <3>1, <3>2 DEF Excused, Unfinished
  <2> QED BY <2>2, <2>3
<1>3. CASE Close(t)
  <2>1. /\ wait[t] # "none" /\ wait' = [wait EXCEPT ![t] = "done"]
        /\ state' = [state EXCEPT ![by[t]] = IF @ = "awaiting_approval"
                                             THEN "running" ELSE @]
        /\ waiting' = waiting \ {t} /\ UNCHANGED <<by, asked, report>>
    BY <1>3 DEF Close
  <2>2. \A k \in Job : k # by[t] => state'[k] = state[k]
    BY <1>0, <2>1
  <2>3. state'[by[t]] # "awaiting_approval"
    BY <1>0, <2>1
  <2> QED BY <2>1, <2>2, <2>3, OneWait DEF Unfinished
<1>4. CASE PendingRaises(t)
  <2>1. /\ wait[t] # "none" /\ wait' = [wait EXCEPT ![t] = "broken"]
        /\ UNCHANGED <<by, asked, waiting>>
        /\ \/ by[t] \in Coder /\ UNCHANGED <<state, report>>
           \/ End(by[t], "failed", "error")
    BY <1>4 DEF PendingRaises, Polling
  <2>2. \A k \in Job : k # by[t] => state'[k] = state[k] /\ report'[k] = report[k]
    BY <1>0, <2>1 DEF End
  <2>3. by[t] \in Coder \/ ~ Unfinished(by[t])'
    BY <1>0, <2>1 DEF End, Unfinished
  <2> QED BY <2>1, <2>2, <2>3, OneWait DEF Unfinished
<1> QED BY <1>1, <1>2, <1>3, <1>4 DEF Waits

(* However its wait goes on or breaks off, a sub-agent's job that is       *)
(* passed over as awaiting the owner is in a wait, for every number of     *)
(* jobs, tokens and surfaces (_await_approval, _run, _watcher).            *)
THEOREM ExemptHolds == Spec => []Exempt
<1>1. IInv /\ Custody /\ Excused /\ [Next]_vars => Excused'
  BY NextCalm, CalmExcused, AskExcused, WaitsExcused
<1>2. Excused => Exempt
  BY DEF Excused, Exempt, Attends, Attended
<1> QED BY <1>1, <1>2, ExcusedInit, Invariance, CustodyInvariance, PTL DEF Spec
=============================================================================
