-------------------------- MODULE JobsBoardProofs ---------------------------
(***************************************************************************)
(* A proof about JobsBoard, for any number of jobs, moves by hand and      *)
(* crashes: a card nobody moved says running only while its job is alive.  *)
(*                                                                         *)
(* The argument.  A card and its attempt are opened by one write and       *)
(* closed by one, so the board never has the one without the other, not    *)
(* even in the rows a crash leaves: what recover looks for, an open        *)
(* attempt under a card that says running, is all there is.  And the write *)
(* that opens them is that of a job which has not ended before.            *)
(***************************************************************************)
EXTENDS JobsBoard, FiniteSetTheorems, WellFoundedInduction, TLAPS

(* The rows, and what becomes of them.                                     *)
Typed ==
  /\ status \in [Card -> STATES \cup {"none"}]
  /\ attempt \in [Card -> {"none", "open", "finished", "restart"}]
  /\ job \in [Card -> {"none", "registered", "added", "running", "gone"}]
  /\ over \in [Card -> {"no", "ending", "over", "early"}]
  /\ up \in BOOLEAN

(* The write that holds the lock fits the job it is about.                 *)
Writing ==
  LET w == writing IN
  w # NoWrite =>
    /\ up /\ w.card \in Card
    /\ w.op \in {"add", "start", "finish", "set", "comment", "remove"}
    /\ w.op = "add" => job[w.card] = "registered"
    /\ w.op = "start" => job[w.card] = "added"
    /\ w.op = "finish" => /\ job[w.card] = "running" /\ over[w.card] = "ending"
                          /\ w.to \in {"done", "failed"}
    /\ w.op \in {"set", "remove"} => w.card \in moved /\ (w.op = "set" => w.to \in STATES)

(* What the rows and the job of a card are to each other: a job has a     *)
(* card from its first write on and a run from its second, an attempt is   *)
(* open under a card that says running, and that under a job that runs.    *)
Fits(c, s, a, j, o) ==
  /\ ~ up => j \in {"none", "gone"}
  /\ j \in {"none", "registered", "added"} => a # "open" /\ o \in {"no", "early"}
  /\ c \notin moved =>
       /\ j \in {"added", "running"} => s # "none"
       /\ a = "open" => s = "running"
       /\ up /\ s = "running" => j = "running" /\ o # "over"

Agree == \A c \in Card : Fits(c, status[c], attempt[c], job[c], over[c])

(* The inductive invariant.                                                *)
IInv ==
  /\ Typed /\ Writing /\ Agree
  /\ comment # NoComment => comment.card \in Card

-----------------------------------------------------------------------------
LEMMA InitInv == Init => IInv
  BY DEF Init, IInv, Typed, Writing, Agree, Fits, STATES

(* A write that begins changes no row.                                     *)
LEMMA BeginInv ==
  ASSUME IInv, NEW w, Begin(w), UNCHANGED <<job, over>>, w # NoWrite,
         w.card \in Card,
         w.op \in {"add", "start", "finish", "set", "comment", "remove"},
         w.op = "add" => job[w.card] = "registered",
         w.op = "start" => job[w.card] = "added",
         w.op = "finish" => /\ job[w.card] = "running" /\ over[w.card] = "ending"
                            /\ w.to \in {"done", "failed"},
         w.op \notin {"set", "remove"},
         comment' \in {comment, NoComment}
  PROVE  IInv'
  BY DEF Begin, rows, IInv, Typed, Writing, Agree, Fits

(* What a write does to its card, and that this fits.                      *)
Lands(c, s, a, j, o) ==
  /\ s \in STATES \cup {"none"}
  /\ a \in {"none", "open", "finished", "restart"}
  /\ j \in {"none", "registered", "added", "running", "gone"}
  /\ o \in {"no", "ending", "over", "early"}
  /\ status' = Set(status, c, s) /\ attempt' = Set(attempt, c, a)
  /\ job' = Set(job, c, j) /\ over' = Set(over, c, o)
  /\ Fits(c, s, a, j, o)

LEMMA CommitLands ==
  ASSUME IInv, Commit
  PROVE  \E s, a, j, o : Lands(writing.card, s, a, j, o)
<1> DEFINE w == writing
           c == w.card
<1>1. /\ c \in Card /\ up /\ Commit
      /\ w.op \in {"add", "start", "finish", "set", "comment", "remove"}
  BY DEF IInv, Commit, Writing
<1>2. /\ status = Set(status, c, status[c]) /\ attempt = Set(attempt, c, attempt[c])
      /\ job = Set(job, c, job[c]) /\ over = Set(over, c, over[c])
  BY <1>1 DEF IInv, Typed, Set
<1>3. /\ Fits(c, status[c], attempt[c], job[c], over[c]) /\ Writing /\ w # NoWrite
      /\ status[c] \in STATES \cup {"none"}
      /\ attempt[c] \in {"none", "open", "finished", "restart"}
      /\ job[c] \in {"none", "registered", "added", "running", "gone"}
      /\ over[c] \in {"no", "ending", "over", "early"}
  BY <1>1 DEF IInv, Agree, Typed, Commit
<1>4. CASE w.op = "add"
  <2>1. /\ status' = Set(status, c, "todo") /\ attempt' = attempt
        /\ job' = Set(job, c, "added") /\ over' = over
    BY <1>1, <1>4 DEF Commit, Land
  <2>2. Fits(c, "todo", attempt[c], "added", over[c])
    BY <1>1, <1>3, <1>4 DEF Fits, Writing
  <2>3. Lands(c, "todo", attempt[c], "added", over[c])
    BY <1>1, <1>2, <1>3, <1>4, <2>1, <2>2 DEF Lands, STATES, Writing
  <2> QED
    BY <2>3
<1>5. CASE w.op = "start"
  <2> DEFINE s == IF status[c] = "none" THEN "none" ELSE "running"
  <2>1. /\ status' = Set(status, c, s) /\ attempt' = Set(attempt, c, "open")
        /\ job' = Set(job, c, "running") /\ over' = over
    BY <1>1, <1>2, <1>5 DEF Commit, Land
  <2>2. Fits(c, s, "open", "running", over[c])
    BY <1>1, <1>2, <1>3, <1>5, <2>1 DEF Fits, Writing
  <2>3. Lands(c, s, "open", "running", over[c])
    BY <1>1, <1>2, <1>3, <1>5, <2>1, <2>2 DEF Lands, STATES, Writing
  <2> QED
    BY <2>3
<1>6. CASE w.op = "finish"
  <2> DEFINE s == IF status[c] = "none" THEN "none" ELSE w.to
  <2>1. /\ status' = Set(status, c, s) /\ attempt' = Set(attempt, c, "finished")
        /\ job' = job /\ over' = Set(over, c, "over")
    BY <1>1, <1>2, <1>6 DEF Commit, Land, Verdict
  <2>2. Fits(c, s, "finished", job[c], "over")
    BY <1>1, <1>2, <1>3, <1>6, <2>1 DEF Fits, Writing
  <2>3. Lands(c, s, "finished", job[c], "over")
    BY <1>1, <1>2, <1>3, <1>6, <2>1, <2>2 DEF Lands, STATES, Writing
  <2> QED
    BY <2>3
<1>7. CASE w.op \in {"set", "remove"}
  <2> DEFINE s == IF status[c] = "none" \/ w.op = "remove" THEN "none" ELSE w.to
  <2>1. /\ status' = Set(status, c, s) /\ attempt' = attempt
        /\ job' = job /\ over' = over
    BY <1>1, <1>2, <1>7 DEF Commit, Land
  <2>2. Fits(c, s, attempt[c], job[c], over[c])
    BY <1>1, <1>2, <1>3, <1>7, <2>1 DEF Fits, Writing
  <2>3. Lands(c, s, attempt[c], job[c], over[c])
    BY <1>1, <1>2, <1>3, <1>7, <2>1, <2>2 DEF Lands, STATES, Writing
  <2> QED
    BY <2>3
<1>8. CASE w.op = "comment"
  <2>1. UNCHANGED <<status, attempt, job, over>>
    BY <1>1, <1>8 DEF Commit, Land
  <2>2. Fits(c, status[c], attempt[c], job[c], over[c])
    BY <1>1, <1>2, <1>3, <2>1 DEF Fits, Writing
  <2>3. Lands(c, status[c], attempt[c], job[c], over[c])
    BY <1>1, <1>2, <1>3, <2>1, <2>2 DEF Lands, STATES, Writing
  <2> QED
    BY <2>3
<1> QED
  BY <1>1, <1>4, <1>5, <1>6, <1>7, <1>8

LEMMA CommitInv ==
  ASSUME IInv, Commit
  PROVE  IInv'
<1>1. PICK c \in Card : c = writing.card
  BY DEF IInv, Commit, Writing
<1>2. UNCHANGED <<up, moved, comment>> /\ writing' = NoWrite
  BY DEF Commit
<1>3. PICK s, a, j, o : Lands(c, s, a, j, o)
  BY <1>1, CommitLands
<1>4. Typed'
  BY <1>2, <1>3 DEF IInv, Typed, Lands, Set
<1>5. /\ status'[c] = s /\ attempt'[c] = a /\ job'[c] = j /\ over'[c] = o
      /\ \A d \in Card \ {c} : /\ status'[d] = status[d] /\ attempt'[d] = attempt[d]
                               /\ job'[d] = job[d] /\ over'[d] = over[d]
  BY <1>2, <1>3 DEF IInv, Typed, Lands, Set
<1>6. Agree'
  <2>1. Fits(c, s, a, j, o)'
    BY <1>2, <1>3 DEF Lands, Fits
  <2> QED
    BY <1>2, <1>5, <2>1 DEF IInv, Agree, Fits
<1> QED
  BY <1>2, <1>4, <1>6 DEF IInv, Writing

LEMMA JobInv ==
  ASSUME IInv, NEW c \in Card, Register(c) \/ JobStep(c) \/ End(c)
  PROVE  IInv'
<1>1. CASE Register(c)
  BY <1>1 DEF Register, Set, rows, store, IInv, Typed, Writing, Agree, Fits
<1>2. CASE PutOnBoard(c)
  <2>1. PICK w \in {[op |-> "add", card |-> c], [op |-> "start", card |-> c]} :
          /\ Begin(w) /\ UNCHANGED <<job, over, comment>>
          /\ w.op = "add" => job[c] = "registered"
          /\ w.op = "start" => job[c] = "added"
    BY <1>2 DEF PutOnBoard
  <2>2. w # NoWrite /\ w.card = c /\ w.op \in {"add", "start"}
    BY <2>1 DEF NoWrite
  <2> QED
    BY <2>1, <2>2, BeginInv
<1>3. CASE FinishRun(c)
  <2>1. PICK to \in {"done", "failed"} :
          Begin([op |-> "finish", card |-> c, to |-> to])
    BY <1>3 DEF FinishRun
  <2>2. over[c] = "ending" /\ up /\ UNCHANGED <<job, over, comment>>
    BY <1>3, <2>1 DEF FinishRun, Begin
  <2>3. job[c] = "running"
    BY <1>3 DEF FinishRun
  <2> DEFINE w == [op |-> "finish", card |-> c, to |-> to]
  <2>4. w # NoWrite /\ w.card = c /\ w.op = "finish" /\ w.to = to
    BY DEF NoWrite
  <2> HIDE DEF w
  <2> QED
    BY <2>1, <2>2, <2>3, <2>4, BeginInv DEF w
<1>4. CASE End(c)
  BY <1>4 DEF End, Set, rows, store, IInv, Typed, Writing, Agree, Fits
<1> QED
  BY <1>1, <1>2, <1>3, <1>4 DEF JobStep

LEMMA OwnerInv ==
  ASSUME IInv, (\E c \in Card : Move(c) \/ ReadCard(c)) \/ Comment
  PROVE  IInv'
<1>1. ASSUME NEW c \in Card, Move(c)
      PROVE  IInv'
  <2>1. PICK w : /\ writing' = w /\ w # NoWrite /\ w.card = c
                 /\ w.op \in {"set", "remove"}
                 /\ w.op = "set" => w.to \in Choice
    <3>1. CASE writing' = [op |-> "remove", card |-> c]
      BY <3>1 DEF NoWrite
    <3>2. CASE \E s \in Choice : writing' = [op |-> "set", card |-> c, to |-> s]
      BY <3>2 DEF NoWrite
    <3> QED
      BY <1>1, <3>1, <3>2 DEF Move
  <2>2. /\ up /\ moved' = moved \cup {c} /\ UNCHANGED <<rows, job, over, comment, up>>
    BY <1>1 DEF Move
  <2>3. Writing'
    BY <2>1, <2>2, BoardAssumption DEF Writing
  <2> QED
    BY <2>2, <2>3 DEF rows, IInv, Typed, Agree, Fits
<1>2. ASSUME NEW c \in Card, ReadCard(c)
      PROVE  IInv'
  BY <1>2 DEF ReadCard, rows, store, IInv, Typed, Writing, Agree, Fits
<1>3. CASE Comment
  <2> DEFINE w == [op |-> "comment", card |-> comment.card,
                   steering |-> comment.steering]
  <2>1. /\ Begin(w) /\ UNCHANGED <<job, over>> /\ comment' = NoComment
        /\ comment.card \in Card
    BY <1>3 DEF Comment, IInv
  <2>2. w # NoWrite /\ w.card = comment.card /\ w.op = "comment"
    BY DEF NoWrite
  <2> HIDE DEF w
  <2> QED
    BY <2>1, <2>2, BeginInv
<1> QED
  BY <1>1, <1>2, <1>3

LEMMA CrashInv ==
  ASSUME IInv, Crash
  PROVE  IInv'
  BY DEF Crash, rows, IInv, Typed, Writing, Agree, Fits, NoComment

LEMMA RestartInv ==
  ASSUME IInv, Restart
  PROVE  IInv'
<1>1. /\ ~ up /\ up' /\ UNCHANGED <<writing, job, over, comment, moved>>
      /\ status' = [c \in Card |-> IF Interrupted(c) THEN "failed" ELSE status[c]]
      /\ attempt' = [c \in Card |->
                       IF Interrupted(c) /\ attempt[c] = "open" THEN "restart"
                       ELSE attempt[c]]
  BY DEF Restart, IInv, Typed
<1>2. Typed'
  BY <1>1 DEF IInv, Typed, STATES
<1>3. Writing'
  BY <1>1 DEF IInv, Writing
<1>4. Agree'
  BY <1>1 DEF IInv, Agree, Fits, Interrupted, Typed
<1> QED
  BY <1>1, <1>2, <1>3, <1>4 DEF IInv

LEMMA NextInv == IInv /\ [Next]_vars => IInv'
<1> SUFFICES ASSUME IInv, [Next]_vars PROVE IInv'
  OBVIOUS
<1>1. CASE UNCHANGED vars \/ Polling
  <2>1. UNCHANGED <<rows, writing, job, over, comment, up, moved>>
    BY <1>1 DEF vars, store, Polling, Wake, ReadRows, ReadRevision, PollVars
  <2> QED
    BY <2>1 DEF rows, IInv, Typed, Writing, Agree, Fits
<1> QED
  BY <1>1, CommitInv, JobInv, OwnerInv, CrashInv, RestartInv DEF Next

(* With a Gateway up, a card that nobody moved by hand says running, and   *)
(* has an open attempt, only while its job is alive or its end is being    *)
(* written.                                                                *)
THEOREM RunningIsRunning == Spec => []SaysRunning
<1>1. IInv => SaysRunning
  BY DEF IInv, Agree, Fits, SaysRunning
<1> QED
  BY InitInv, NextInv, <1>1, PTL DEF Spec

-----------------------------------------------------------------------------
(* The rest of the types.  No stamp is newer than the board's revision: a  *)
(* write takes its revision before it stamps, and a restart counts on from *)
(* the newest stamp it finds.                                              *)
Stamped ==
  /\ stamp \in [Card -> Nat] /\ revision \in Nat
  /\ \A c \in Card : stamp[c] <= revision
Rest ==
  /\ Stamped
  /\ note \in [Card -> {"none", "note", "steer"}]
  /\ writing \in Write \cup {NoWrite}
  /\ comment \in [card : Card, steering : BOOLEAN] \cup {NoComment}
  /\ win \in {"waiting", "read", "rows"} /\ after \in Nat \cup {-1}
  /\ fresh \in BOOLEAN
  /\ moved \subseteq Card
  /\ moves \in 0..Moves /\ crashes \in 0..Crashes

LEMMA NewestIn ==
  ASSUME NEW n \in Nat, NEW S, S \subseteq 0..n, S # {}
  PROVE  Max(S) \in S /\ \A y \in S : y <= Max(S)
<1> DEFINE T == {k \in Nat : n - k \in S}
<1>1. T # {}
  <2>1. PICK i \in S : TRUE
    OBVIOUS
  <2>2. n - i \in Nat /\ n - (n - i) = i
    BY <2>1
  <2> QED
    BY <2>1, <2>2
<1>2. PICK k \in T : \A l \in T : ~ (<<l, k>> \in OpToRel(<, Nat))
  BY <1>1, WFMin, NatLessThanWellFounded, Zenon
<1>3. \A l \in T : ~ (l < k)
  BY <1>2, Zenon DEF OpToRel
<1> DEFINE x == n - k
<1>4. x \in S /\ \A y \in S : x >= y
  <2>1. x \in S
    BY <1>2
  <2>2. ASSUME NEW y \in S PROVE x >= y
    <3>1. n - y \in Nat /\ n - (n - y) = y
      OBVIOUS
    <3>2. n - y \in T
      BY <3>1
    <3> QED
      BY <1>3, <3>1, <3>2
  <2> QED
    BY <2>1, <2>2
<1> QED
  BY <1>4 DEF Max

LEMMA BeginRest ==
  ASSUME Rest, NEW w \in Write, Begin(w)
  PROVE  /\ Stamped' /\ writing' \in Write
         /\ UNCHANGED <<note, poll, moved, crashes>>
<1>1. revision' \in {revision, revision + 1} /\ stamp' = stamp
  BY DEF Begin, rows
<1>2. Stamped'
  BY <1>1 DEF Rest, Stamped
<1> QED
  BY <1>2 DEF Begin, rows

LEMMA CommitRest ==
  ASSUME IInv, Rest, Commit
  PROVE  Rest'
<1>1. /\ writing \in Write /\ writing.card \in Card
      /\ writing.op = "comment" => writing.steering \in BOOLEAN
  BY DEF Commit, Rest, IInv, Writing, Write, NoWrite
<1>2. Stamped'
  <2>1. \/ stamp' = Set(stamp, writing.card, 0)
        \/ stamp' = stamp
        \/ stamp' = Set(stamp, writing.card, revision)
    BY DEF Commit
  <2>2. revision' \in {revision, revision + 1}
    BY DEF Commit
  <2> QED
    BY <1>1, <2>1, <2>2 DEF Rest, Stamped, Set
<1>3. note' \in [Card -> {"none", "note", "steer"}]
  BY <1>1 DEF Commit, Rest, Set, Steers
<1>4. fresh' \in BOOLEAN
  BY DEF Commit, Rest
<1> QED
  BY <1>2, <1>3, <1>4 DEF Commit, Rest

LEMMA RestartRest ==
  ASSUME IInv, Rest, Restart
  PROVE  Rest'
<1> DEFINE lost   == {c \in Card : Interrupted(c)}
           last   == LastStamp + Cardinality(lost)
           stamps == {stamp[c] : c \in Card}
<1>1. stamps \subseteq 0..revision /\ stamps # {} /\ revision \in Nat
  BY BoardAssumption DEF Rest, Stamped
<1>2. LastStamp \in Nat /\ \A c \in Card : stamp[c] <= LastStamp
  <2>1. Max(stamps) \in stamps /\ \A y \in stamps : y <= Max(stamps)
    BY <1>1, NewestIn
  <2> QED
    BY <1>1, <2>1 DEF LastStamp
<1>3. Cardinality(lost) \in Nat
  <2>1. IsFiniteSet(lost)
    BY FS_Subset, BoardAssumption
  <2> QED
    BY <2>1, FS_CardinalityType
<1>4. /\ revision' = last
      /\ stamp' = [c \in Card |-> IF c \in lost THEN last ELSE stamp[c]]
  BY DEF Restart
<1>5. Stamped'
  BY <1>2, <1>3, <1>4 DEF Rest, Stamped
<1>6. fresh' \in BOOLEAN
  BY DEF Restart, Rest
<1> QED
  BY <1>5, <1>6 DEF Restart, Rest

LEMMA NextRest == IInv /\ Rest /\ [Next]_vars => Rest'
<1> SUFFICES ASSUME IInv, Rest, [Next]_vars PROVE Rest'
  OBVIOUS
<1>1. CASE \E c \in Card : Register(c) \/ End(c)
  BY <1>1 DEF Register, End, rows, store, poll, Rest, Stamped
<1>2. ASSUME NEW c \in Card, JobStep(c)
      PROVE  Rest'
  <2>1. PICK w \in Write : Begin(w) /\ UNCHANGED <<comment, moves>>
    <3>1. /\ [op |-> "add", card |-> c] \in Write
          /\ [op |-> "start", card |-> c] \in Write
      BY DEF Write
    <3>2. \A to \in STATES : [op |-> "finish", card |-> c, to |-> to] \in Write
      BY DEF Write
    <3> QED
      BY <1>2, <3>1, <3>2 DEF JobStep, PutOnBoard, FinishRun, STATES
  <2> QED
    BY <2>1, BeginRest DEF Rest, poll
<1>3. ASSUME NEW c \in Card, Move(c)
      PROVE  Rest'
  <2>1. writing' \in Write
    BY <1>3, BoardAssumption DEF Move, Write
  <2>2. Stamped'
    <3>1. revision' \in {revision, revision + 1} /\ stamp' = stamp
      BY <1>3 DEF Move, rows
    <3> QED
      BY <3>1 DEF Rest, Stamped
  <2>3. moves' \in 0..Moves /\ moved' \subseteq Card
    BY <1>3, BoardAssumption DEF Move, ByHand, Rest
  <2> QED
    BY <1>3, <2>1, <2>2, <2>3 DEF Move, rows, poll, Rest
<1>4. ASSUME NEW c \in Card, ReadCard(c)
      PROVE  Rest'
  <2>1. comment' \in [card : Card, steering : BOOLEAN]
    BY <1>4 DEF ReadCard
  <2>2. moves' \in 0..Moves
    BY <1>4, BoardAssumption DEF ReadCard, ByHand, Rest
  <2> QED
    BY <1>4, <2>1, <2>2 DEF ReadCard, rows, store, poll, Rest, Stamped
<1>5. CASE Comment
  <2>1. comment \in [card : Card, steering : BOOLEAN]
    BY <1>5 DEF Comment, Rest
  <2> DEFINE w == [op |-> "comment", card |-> comment.card,
                   steering |-> comment.steering]
  <2>2. w \in Write /\ Begin(w)
    BY <1>5, <2>1 DEF Comment, Write
  <2>3. comment' = NoComment /\ moves' = moves
    BY <1>5 DEF Comment
  <2> HIDE DEF w
  <2> QED
    BY <2>2, <2>3, BeginRest DEF Rest, poll
<1>6. CASE Polling
  <2>1. UNCHANGED <<stamp, revision, note, writing, comment, moved, moves, crashes>>
    BY <1>6 DEF Polling, Wake, ReadRows, ReadRevision, PollVars, rows, store
  <2>2. win' \in {"waiting", "read", "rows"} /\ after' \in Nat \cup {-1}
    BY <1>6 DEF Polling, Wake, ReadRows, ReadRevision, PollVars, Rest, Stamped
  <2>3. fresh' \in BOOLEAN
    BY <1>6 DEF Polling, Wake, ReadRows, ReadRevision, Rest
  <2> QED
    BY <2>1, <2>2, <2>3 DEF Rest, Stamped
<1>7. CASE Crash
  <2>1. crashes' \in 0..Crashes
    BY <1>7, BoardAssumption DEF Crash, Rest
  <2> QED
    BY <1>7, <2>1 DEF Crash, rows, Rest, Stamped
<1>8. CASE UNCHANGED vars
  BY <1>8 DEF vars, rows, store, poll, Rest, Stamped
<1> QED
  BY <1>1, <1>2, <1>3, <1>4, <1>5, <1>6, <1>7, <1>8, CommitRest, RestartRest DEF Next

(* Every variable of the board, its jobs and the window keeps its type,    *)
(* and no card carries a stamp from the future of the board's revision.    *)
THEOREM WellTyped == Spec => []TypeOK
<1>1. Init => Rest
  BY BoardAssumption DEF Init, Rest, Stamped
<1>2. IInv /\ Rest => TypeOK
  BY DEF IInv, Typed, Rest, Stamped, TypeOK
<1> QED
  BY <1>1, <1>2, InitInv, NextInv, NextRest, PTL DEF Spec
=============================================================================
