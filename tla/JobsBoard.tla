------------------------------ MODULE JobsBoard ------------------------------
(***************************************************************************)
(* The jobs board (services/gateway/.../jobs.py), the sub-agent jobs that  *)
(* keep a card on it (subagents.py) and the window that follows it         *)
(* (app.py's GET /jobs, jobs-board.tsx).                                   *)
(*                                                                         *)
(* A write takes the lock and bumps the revision in one step - the bump is *)
(* evaluated before the statement it is a parameter of - and executes and  *)
(* commits in another.  Reads take no lock.  A crash loses what is not     *)
(* committed, the revision and the jobs; the rows stay.  Titles, bodies    *)
(* and the event log are left out.                                         *)
(***************************************************************************)
EXTENDS Integers, FiniteSets, FiniteSetsExt

CONSTANTS
  Card,       \* the jobs, each with its card
  Choice,     \* the statuses a card is moved to by hand
  Moves,      \* bound on what the owner changes by hand
  Crashes     \* bound on crashes

STATES == {"todo", "running", "awaiting_approval", "blocked",
           "done", "failed", "cancelled"}

ASSUME BoardAssumption ==
  /\ IsFiniteSet(Card) /\ Card # {}
  /\ Choice \subseteq STATES
  /\ Moves \in Nat /\ Crashes \in Nat

VARIABLES
  status,     \* tasks.status, "none" when there is no row
  attempt,    \* task_runs: none, open, finished, or finished by restart
  stamp,      \* tasks.revision
  note,       \* the owner's comment: none, a note, or a steer not yet sent
  revision,   \* JobsStore._revision
  writing,    \* the write that holds JobsStore._lock, NoWrite when none
  job,        \* where Runner.start stands with each job
  over,       \* whether the job is over: no, finish_run still to come, yes,
              \* or before it had a run to finish
  comment,    \* a comment between its reading of the card and its writing
  win,        \* where the window's poll stands
  after,      \* the revision the window last saw, -1 before the first
  fresh,      \* whether the rows it shows are still the board's
  up,         \* whether a Gateway is running
  moved,      \* history: cards the owner or the model moved by hand
  moves, crashes

rows  == <<status, attempt, stamp, note>>
store == <<revision, writing>>
poll  == <<win, after, fresh>>
vars  == <<rows, store, job, over, comment, poll, up, moved, moves, crashes>>

LIVE   == {"todo", "running", "awaiting_approval", "blocked"}
NoWrite == [op |-> "none"]
NoComment == [card |-> "none"]

Write == [op : {"add", "start", "remove"}, card : Card]
           \cup [op : {"finish", "set"}, card : Card, to : STATES]
           \cup [op : {"comment"}, card : Card, steering : BOOLEAN]

TypeOK ==
  /\ status \in [Card -> STATES \cup {"none"}]
  /\ attempt \in [Card -> {"none", "open", "finished", "restart"}]
  /\ stamp \in [Card -> Nat] /\ revision \in Nat
  /\ \A c \in Card : stamp[c] <= revision \/ ~ up
  /\ note \in [Card -> {"none", "note", "steer"}]
  /\ writing \in Write \cup {NoWrite}
  /\ job \in [Card -> {"none", "registered", "added", "running", "gone"}]
  /\ over \in [Card -> {"no", "ending", "over", "early"}]
  /\ comment \in [card : Card, steering : BOOLEAN] \cup {NoComment}
  /\ win \in {"waiting", "read", "rows"} /\ after \in Nat \cup {-1}
  /\ fresh \in BOOLEAN
  /\ up \in BOOLEAN /\ moved \subseteq Card
  /\ moves \in 0..Moves /\ crashes \in 0..Crashes

Init ==
  /\ status = [c \in Card |-> "none"] /\ attempt = [c \in Card |-> "none"]
  /\ stamp = [c \in Card |-> 0] /\ note = [c \in Card |-> "none"]
  /\ revision = 0 /\ writing = NoWrite
  /\ job = [c \in Card |-> "none"] /\ over = [c \in Card |-> "no"]
  /\ comment = NoComment
  /\ win = "waiting" /\ after = -1 /\ fresh = TRUE
  /\ up = TRUE /\ moved = {} /\ moves = 0 /\ crashes = 0

-----------------------------------------------------------------------------
(* The store.                                                              *)

Set(f, c, v) == [f EXCEPT ![c] = v]

(* A write takes the lock and _bump wakes the polls.                       *)
Begin(w) ==
  /\ up /\ writing = NoWrite
  /\ writing' = w
  /\ revision' = IF w.op = "remove" THEN revision ELSE revision + 1
  /\ UNCHANGED <<rows, poll, up, moved, crashes>>

(* Fault: the attempt is finished and the card is not.                     *)
OldStatus(w) == status[w.card]

(* finish_run: the card lands where its attempt did.                       *)
Verdict(w) == w.to

(* add, start_run, finish_run, set_status, comment and remove.  A row that *)
(* has been removed takes no update; its attempt does.                     *)
Land(w) ==
  LET c == w.card
      Update(s) == IF status[c] = "none" THEN status ELSE Set(status, c, s) IN
  /\ status' = CASE w.op = "add"     -> Set(status, c, "todo")
                 [] w.op = "start"   -> Update("running")
                 [] w.op = "remove"  -> Set(status, c, "none")
                 [] w.op = "finish"  -> Update(Verdict(w))
                 [] w.op = "set"     -> Update(w.to)
                 [] w.op = "comment" -> status
  /\ attempt' = CASE w.op = "start"  -> Set(attempt, c, "open")
                  [] w.op = "finish" -> Set(attempt, c, "finished")
                  [] OTHER           -> attempt

Steers(w) == IF w.steering THEN "steer" ELSE "note"

Commit ==
  /\ writing # NoWrite
  /\ Land(writing)
  /\ stamp' = IF writing.op = "remove" THEN Set(stamp, writing.card, 0)
              ELSE IF status'[writing.card] = "none" THEN stamp
              ELSE Set(stamp, writing.card, revision)
  /\ note' = IF writing.op = "comment"
             THEN Set(note, writing.card, Steers(writing)) ELSE note
  /\ revision' = IF writing.op = "remove" THEN revision + 1 ELSE revision
  /\ job' = CASE writing.op = "add"   -> Set(job, writing.card, "added")
              [] writing.op = "start" -> Set(job, writing.card, "running")
              [] OTHER                -> job
  /\ over' = IF writing.op = "finish" THEN Set(over, writing.card, "over")
             ELSE over
  /\ writing' = NoWrite
  /\ fresh' = (fresh /\ status' = status)
  /\ UNCHANGED <<comment, win, after, up, moved, moves, crashes>>

-----------------------------------------------------------------------------
(* A sub-agent job: Runner.start, _card and _end.                          *)

Register(c) ==
  /\ up /\ job[c] = "none"
  /\ job' = Set(job, c, "registered")
  /\ UNCHANGED <<rows, store, over, comment, poll, up, moved, moves, crashes>>

\* A job has its run_id from the moment its run is written, and the card is
\* taken to be still there when add reads it back: in the code an owner who
\* removes it in between leaves a job without a card.
PutOnBoard(c) ==
  /\ \/ job[c] = "registered" /\ Begin([op |-> "add", card |-> c])
     \/ job[c] = "added" /\ Begin([op |-> "start", card |-> c])
  /\ UNCHANGED <<job, over, comment, moves>>

(* _end: by the job's thread, the watcher or the owner's stop.  With no    *)
(* run_id yet there is nothing to finish.                                  *)
End(c) ==
  /\ up /\ job[c] \in {"registered", "added", "running"} /\ over[c] = "no"
  /\ over' = Set(over, c, IF job[c] = "running" THEN "ending" ELSE "early")
  /\ UNCHANGED <<rows, store, job, comment, poll, up, moved, moves, crashes>>

FinishRun(c) ==
  /\ job[c] = "running" /\ over[c] = "ending"
  /\ \E landed \in {"done", "failed"} :
       Begin([op |-> "finish", card |-> c, to |-> landed])
  /\ UNCHANGED <<job, over, comment, moves>>

-----------------------------------------------------------------------------
(* The owner, and the model through job_update.                            *)

ByHand(c) == moves < Moves /\ moves' = moves + 1 /\ status[c] # "none"

Move(c) ==
  /\ up /\ ByHand(c) /\ writing = NoWrite
  /\ \/ \E s \in Choice :
          writing' = [op |-> "set", card |-> c, to |-> s]
            /\ revision' = revision + 1
     \/ writing' = [op |-> "remove", card |-> c] /\ UNCHANGED revision
  /\ moved' = moved \cup {c}
  /\ UNCHANGED <<rows, job, over, comment, poll, up, crashes>>

(* comment: the card is read without the lock, then the comment written.   *)
ReadCard(c) ==
  /\ up /\ comment = NoComment /\ ByHand(c)
  /\ comment' = [card |-> c, steering |-> status[c] \in LIVE]
  /\ UNCHANGED <<rows, store, job, over, poll, up, moved, crashes>>

Comment ==
  /\ comment # NoComment
  /\ Begin([op |-> "comment", card |-> comment.card,
            steering |-> comment.steering])
  /\ comment' = NoComment
  /\ UNCHANGED <<job, over, moves>>

-----------------------------------------------------------------------------
(* The window's long poll: GET /jobs?after=, wait, the two reads of board, *)
(* and the next poll.                                                      *)

PollVars(w) == win' = w /\ UNCHANGED <<rows, store, job, over, comment, up,
                                       moved, moves, crashes>>

(* Fault: wait has no time-out.                                            *)
WaitsForEver == revision > after

(* wait answers at once past `after`, on the next change, or after its     *)
(* time-out with none; the first poll, with no `after`, does not wait.     *)
WaitIsOver == TRUE

Wake ==
  /\ up /\ win = "waiting"
  /\ WaitIsOver
  /\ PollVars("read") /\ UNCHANGED <<after, fresh>>

ReadRows ==
  /\ up /\ win = "read"
  /\ PollVars("rows") /\ fresh' = TRUE /\ UNCHANGED after

ReadRevision ==
  /\ up /\ win = "rows"
  /\ PollVars("waiting") /\ after' = revision /\ UNCHANGED fresh

-----------------------------------------------------------------------------
(* A crash, and the start of the next Gateway: __init__ and recover.       *)

Crash ==
  /\ up /\ crashes < Crashes
  /\ up' = FALSE /\ crashes' = crashes + 1
  /\ writing' = NoWrite /\ comment' = NoComment
  /\ job' = [c \in Card |-> IF job[c] = "none" THEN "none" ELSE "gone"]
  /\ win' = "waiting"
  /\ UNCHANGED <<rows, revision, over, after, fresh, moved, moves>>

LastStamp == Max({stamp[c] : c \in Card})

Interrupted(c) == status[c] \in {"running", "awaiting_approval"}

Restart ==
  /\ ~ up /\ up' = TRUE
  /\ LET lost == {c \in Card : Interrupted(c)}
         last == LastStamp + Cardinality(lost) IN
     /\ revision' = last
     /\ status' = [c \in Card |-> IF c \in lost THEN "failed" ELSE status[c]]
     /\ attempt' = [c \in Card |->
                      IF c \in lost /\ attempt[c] = "open" THEN "restart"
                      ELSE attempt[c]]
     /\ stamp' = [c \in Card |-> IF c \in lost THEN last ELSE stamp[c]]
  /\ fresh' = (fresh /\ status' = status)
  /\ UNCHANGED <<note, writing, job, over, comment, win, after, moved, moves,
                 crashes>>

-----------------------------------------------------------------------------
JobStep(c) == PutOnBoard(c) \/ FinishRun(c)
Polling == Wake \/ ReadRows \/ ReadRevision

Next ==
  \/ \E c \in Card : \/ Register(c) \/ JobStep(c) \/ End(c)
                     \/ Move(c) \/ ReadCard(c)
  \/ Commit \/ Comment \/ Polling \/ Crash \/ Restart

(* The threads go on, the window goes on asking, and a Gateway that died   *)
(* is started again.                                                       *)
Fairness ==
  /\ \A c \in Card : SF_vars(JobStep(c))
  /\ WF_vars(Commit) /\ SF_vars(Comment)
  /\ WF_vars(Polling) /\ WF_vars(Restart)

Spec == Init /\ [][Next]_vars /\ Fairness

-----------------------------------------------------------------------------
(* A card that says running when nothing is running is the most misleading *)
(* thing a board can show (jobs.py:367).  With a Gateway up, a card nobody *)
(* moved by hand says running, and its attempt is open, only while its job *)
(* is alive or its end is being written - or its job was ended before it   *)
(* had a run to finish, which _end leaves to the next restart.             *)
SaysRunning ==
  up => \A c \in Card \ moved :
          status[c] = "running" \/ attempt[c] = "open"
            => job[c] = "running" /\ over[c] # "over"

(* The window catches up with the board: a bump that is seen before the    *)
(* change it announces, or a revision that went back with a crash, costs   *)
(* it one time-out of the poll and no more.                                *)
WindowCatchesUp == <>[]fresh
=============================================================================
