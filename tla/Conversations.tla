--------------------------- MODULE Conversations ---------------------------
(***************************************************************************)
(* The conversations of chat.py: the messages of every thread in one       *)
(* table, the leaf of the branch that is on screen, the summary of what    *)
(* has scrolled out of the window, and the turns that read and write them. *)
(*                                                                         *)
(* Turns run on threads of their own and share one SQLite connection, so   *)
(* a commit makes durable what every one of them has written, and a crash  *)
(* takes back whatever no commit has followed.  Message ids are the        *)
(* positions of a sequence: AUTOINCREMENT hands none out twice.  A deleted *)
(* message keeps its position and belongs to no thread.  Branch names,     *)
(* titles, models and attachments are left out: history follows parents.   *)
(***************************************************************************)
EXTENDS Naturals, Sequences, FiniteSetsExt

CONSTANTS
  Thread,           \* conversations, in the order they were created
  Turn,             \* threads of execution that serve turns
  HISTORY_TURNS,
  HISTORY_ROWS,
  TRANSCRIPT_ROWS,  \* messages that always fit what a summary's model is shown
  MAX_TOOL_ROUNDS,
  MaxRows,          \* bound on the messages ever written
  MaxRestarts

None == 0           \* no thread, no parent, no leaf

ASSUME ConversationsAssumption ==
  /\ Thread \subseteq Nat \ {None} /\ IsFiniteSet(Thread) /\ Thread # {}
  /\ HISTORY_TURNS \in Nat \ {0} /\ HISTORY_ROWS \in Nat \ {0}
  /\ TRANSCRIPT_ROWS \in Nat \ {0} /\ MAX_TOOL_ROUNDS \in Nat \ {0}
  /\ MaxRows \in Nat /\ MaxRestarts \in Nat

VARIABLES
  messages,         \* the table, in the order of the ids
  live,             \* rows of the table of threads
  active,           \* active_message_id of each thread
  through, summary, \* thread_summaries: through_id, and the messages told of
  disk,             \* the five above, at the last commit
  pc, on,           \* of a turn: its step, and its conversation
  role, parent, new,\* of an append: what it writes, under what, and as what
  round,            \* tool rounds of the turn
  kept, told, drop, \* of a compaction: kept_from, held, dropped
  sweeping,         \* the conversation the event loop is clearing or deleting
  restarts,
  lost,             \* history: messages folded that no model was shown
  alone, clean      \* history: no other turn here meanwhile; folded since

store == <<messages, live, active, through, summary>>
local == <<role, parent, new, round, kept, told, drop>>
ghost == <<lost, alone, clean>>
vars  == <<store, disk, pc, on, local, sweeping, restarts, ghost>>

ROLES == {"user", "assistant", "tool"}
STEPS == {"idle", "insert", "link", "model", "fold", "gather", "distil"}
Ids == 1..Len(messages)
Message == [thread : Thread \cup {None}, role : ROLES, parent : Nat]

TypeOK ==
  /\ messages \in Seq(Message) /\ Len(messages) <= MaxRows
  /\ live \subseteq Thread
  /\ active \in [Thread -> Nat]
  /\ through \in [Thread -> Nat] /\ summary \in [Thread -> SUBSET Nat]
  /\ pc \in [Turn -> STEPS]
  /\ on \in [Turn -> Thread \cup {None}]
  /\ role \in [Turn -> ROLES \cup {"none"}]
  /\ parent \in [Turn -> Nat] /\ new \in [Turn -> Nat]
  /\ round \in [Turn -> 0..MAX_TOOL_ROUNDS]
  /\ kept \in [Turn -> Nat]
  /\ told \in [Turn -> SUBSET Nat] /\ drop \in [Turn -> SUBSET Nat]
  /\ sweeping \in Thread \cup {None} /\ restarts \in 0..MaxRestarts
  /\ lost \in [Thread -> SUBSET Nat]
  /\ alone \in [Turn -> BOOLEAN] /\ clean \in [Thread -> BOOLEAN]

-----------------------------------------------------------------------------
(* Reading the store.                                                      *)

Stored == [messages |-> messages, live |-> live, active |-> active,
           through |-> through, summary |-> summary]
Commit == disk' = Stored'

Of(th) == {i \in Ids : messages[i].thread = th}

(* the branch on screen: the leaf, its parent and so on, as far as the     *)
(* rows are there; only the leaf is asked for its thread.  A parent is     *)
(* older than its child, so the set stands for the sequence.               *)
Chain ==
  LET chain[i \in 0..Len(messages)] ==
        IF i \in Ids /\ messages[i].thread # None
        THEN {i} \cup chain[messages[i].parent] ELSE {}
  IN  chain
History(th) == IF active[th] \in Of(th) THEN Chain[active[th]] ELSE {}

(* history, with the limit compact gives it: the newest rows of the branch *)
Newest(rows, n) == {i \in rows : Cardinality({j \in rows : j >= i}) <= n}
Recent(th) == Newest(History(th), HISTORY_ROWS)

Users(rows) == {i \in Ids : i \in rows /\ messages[i].role = "user"}
Talk(rows) == {i \in rows : messages[i].role \in {"user", "assistant"}}

(* the turns no longer fit; the question that is the first of those kept   *)
Scrolled(th) == Cardinality(Users(Recent(th))) > HISTORY_TURNS
StartsWindow(th, u) ==
  Cardinality({v \in Users(Recent(th)) : v >= u}) = HISTORY_TURNS

DroppedQuestions(th, kept_from, since) ==      \* bug: the answers are left out
  {i \in Users(Of(th)) : since < i /\ i < kept_from}
DroppedRows(th, kept_from, since) ==
  {i \in Talk(Of(th)) : since < i /\ i < kept_from}

Init ==
  /\ messages = <<>> /\ live = Thread
  /\ active = [th \in Thread |-> None]
  /\ through = [th \in Thread |-> 0] /\ summary = [th \in Thread |-> {}]
  /\ disk = Stored
  /\ pc = [t \in Turn |-> "idle"] /\ on = [t \in Turn |-> None]
  /\ role = [t \in Turn |-> "none"]
  /\ parent = [t \in Turn |-> None] /\ new = [t \in Turn |-> None]
  /\ round = [t \in Turn |-> 0]
  /\ kept = [t \in Turn |-> None]
  /\ told = [t \in Turn |-> {}] /\ drop = [t \in Turn |-> {}]
  /\ sweeping = None /\ restarts = 0
  /\ lost = [th \in Thread |-> {}]
  /\ alone = [t \in Turn |-> TRUE] /\ clean = [th \in Thread |-> TRUE]

-----------------------------------------------------------------------------
(* A turn begins: with a new message, an edited one, an answer to be given *)
(* again, or, by hand, with nothing but the compaction.  An append starts  *)
(* by reading the leaf its row is to hang under.                           *)

Enter(t, th) ==
  /\ pc[t] = "idle" /\ th \in live
  /\ on' = [on EXCEPT ![t] = th]
  /\ alone' = [u \in Turn |-> IF u = t THEN \A v \in Turn : on[v] # th
                              ELSE alone[u] /\ on[u] # th]
  /\ clean' = [clean EXCEPT ![th] = FALSE]
  /\ UNCHANGED <<restarts, sweeping, lost>>

Ask(t, th) ==
  /\ Enter(t, th)
  /\ parent' = [parent EXCEPT ![t] = active[th]]
  /\ pc' = [pc EXCEPT ![t] = "insert"]
  /\ role' = [role EXCEPT ![t] = "user"]
  /\ UNCHANGED <<store, disk, new, round, kept, told, drop>>

(* fork_user: beside the edited message, under the same parent             *)
Edit(t, th) ==
  /\ Enter(t, th)
  /\ \E m \in Users(Of(th)) : parent' = [parent EXCEPT ![t] = messages[m].parent]
  /\ pc' = [pc EXCEPT ![t] = "insert"]
  /\ role' = [role EXCEPT ![t] = "user"]
  /\ UNCHANGED <<store, disk, new, round, kept, told, drop>>

(* prepare_regenerate: the nearest question above the message              *)
Question(m) == Max(Users(Chain[m]))
Regenerate(t, th) ==
  /\ Enter(t, th)
  /\ \E m \in Ids :
       /\ Users(Chain[m]) # {} /\ Question(m) \in Users(Of(th))
       /\ active' = [active EXCEPT ![th] = Question(m)]
  /\ pc' = [pc EXCEPT ![t] = "model"]
  /\ UNCHANGED <<messages, live, through, summary, local>>
  /\ Commit

Compress(t, th) ==
  /\ Enter(t, th)
  /\ pc' = [pc EXCEPT ![t] = "fold"]
  /\ UNCHANGED <<store, disk, local>>

-----------------------------------------------------------------------------
(* append, from there: insert the row and make it the leaf.  Between the   *)
(* two the first message of a thread is shown to a model for a title.      *)

(* how a turn ends, having folded what there was to fold or not            *)
End(t, folded) ==
  /\ pc' = [pc EXCEPT ![t] = "idle"] /\ on' = [on EXCEPT ![t] = None]
  /\ kept' = [kept EXCEPT ![t] = None]
  /\ told' = [told EXCEPT ![t] = {}] /\ drop' = [drop EXCEPT ![t] = {}]
  /\ role' = [role EXCEPT ![t] = "none"] /\ round' = [round EXCEPT ![t] = 0]
  /\ parent' = [parent EXCEPT ![t] = None]
  /\ new' = [new EXCEPT ![t] = None]
  /\ alone' = [alone EXCEPT ![t] = TRUE]
  /\ clean' = [clean EXCEPT ![on[t]] = folded /\ alone[t]]

(* every call resolves the thread first: a deleted one raises KeyError     *)
UnknownThread(t) ==
  /\ pc[t] \in {"model", "fold", "gather", "distil"}
  /\ on[t] \notin live
  /\ End(t, FALSE)
  /\ UNCHANGED <<store, disk, sweeping, restarts, lost>>

Insert(t) ==
  /\ pc[t] = "insert" /\ Len(messages) < MaxRows
  /\ messages' = Append(messages, [thread |-> on[t], role |-> role[t],
                                   parent |-> parent[t]])
  /\ new' = [new EXCEPT ![t] = Len(messages) + 1]
  /\ parent' = [parent EXCEPT ![t] = None]
  /\ pc' = [pc EXCEPT ![t] = "link"]
  /\ UNCHANGED <<live, active, through, summary, disk, on, role, round, kept,
                 told, drop, sweeping, restarts, ghost>>

(* after a question and after a tool's result the model is asked; after    *)
(* the answer the window is told, and the turn compacts                    *)
Link(t) ==
  /\ pc[t] = "link"
  /\ active' = IF on[t] \in live THEN [active EXCEPT ![on[t]] = new[t]]
               ELSE active
  /\ UNCHANGED <<messages, live, through, summary>>
  /\ Commit
  /\ pc' = [pc EXCEPT ![t] = IF role[t] = "assistant" THEN "fold" ELSE "model"]
  /\ round' = [round EXCEPT ![t] = IF role[t] = "tool" THEN @ + 1 ELSE 0]
  /\ role' = [role EXCEPT ![t] = "none"] /\ new' = [new EXCEPT ![t] = None]
  /\ UNCHANGED <<on, parent, kept, told, drop, sweeping, restarts, lost, alone,
                 clean>>

-----------------------------------------------------------------------------
(* A round: the model answers or calls a tool, whose result is appended.   *)
(* A round here makes one call.                                            *)

Write(t, what) ==
  /\ pc[t] = "model" /\ on[t] \in live
  /\ pc' = [pc EXCEPT ![t] = "insert"]
  /\ role' = [role EXCEPT ![t] = what]
  /\ parent' = [parent EXCEPT ![t] = active[on[t]]]
  /\ UNCHANGED <<store, disk, on, new, round, kept, told, drop,
                 sweeping, restarts, ghost>>

Reply(t) == Write(t, "assistant")

(* the last round is offered no tools                                      *)
CallTool(t) == round[t] + 1 < MAX_TOOL_ROUNDS /\ Write(t, "tool")

(* cancelled, a provider that fails, or an action that waits for a yes     *)
GiveUp(t) ==
  /\ pc[t] = "model" /\ on[t] \in live
  /\ pc' = [pc EXCEPT ![t] = "fold"]
  /\ round' = [round EXCEPT ![t] = 0]
  /\ UNCHANGED <<store, disk, on, role, parent, new, kept, told, drop, sweeping,
                 restarts, ghost>>

-----------------------------------------------------------------------------
(* compact: where the window begins, what is before it and not yet told    *)
(* of, a model's summary of both, and the write.                           *)

NothingScrolled(t) ==
  /\ pc[t] = "fold" /\ on[t] \in live /\ ~Scrolled(on[t])
  /\ End(t, TRUE)
  /\ UNCHANGED <<store, disk, sweeping, restarts, lost>>

Measure(t) ==
  /\ pc[t] = "fold" /\ on[t] \in live /\ Scrolled(on[t])
  /\ \E u \in Users(Recent(on[t])) :
       StartsWindow(on[t], u) /\ kept' = [kept EXCEPT ![t] = u]
  /\ pc' = [pc EXCEPT ![t] = "gather"]
  /\ UNCHANGED <<store, disk, on, role, parent, new, round, told, drop,
                 sweeping, restarts, ghost>>

Dropped(t) == DroppedRows(on[t], kept[t], through[on[t]])

NothingDropped(t) ==
  /\ pc[t] = "gather" /\ on[t] \in live /\ Dropped(t) = {}
  /\ End(t, TRUE)
  /\ UNCHANGED <<store, disk, sweeping, restarts, lost>>

GatherAnew(t) ==                 \* bug: the summary so far is not handed on
  /\ pc[t] = "gather" /\ on[t] \in live /\ Dropped(t) # {}
  /\ drop' = [drop EXCEPT ![t] = Dropped(t)]
  /\ kept' = [kept EXCEPT ![t] = None]
  /\ pc' = [pc EXCEPT ![t] = "distil"]
  /\ UNCHANGED <<store, disk, on, role, parent, new, round, told, sweeping,
                 restarts, ghost>>
Gather(t) ==
  /\ pc[t] = "gather" /\ on[t] \in live /\ Dropped(t) # {}
  /\ told' = [told EXCEPT ![t] = summary[on[t]]]
  /\ drop' = [drop EXCEPT ![t] = Dropped(t)]
  /\ kept' = [kept EXCEPT ![t] = None]
  /\ pc' = [pc EXCEPT ![t] = "distil"]
  /\ UNCHANGED <<store, disk, on, role, parent, new, round, sweeping, restarts,
                 ghost>>

SetSummary(th, id, covers) ==
  /\ through' = [through EXCEPT ![th] = id]
  /\ summary' = [summary EXCEPT ![th] = covers]
  /\ UNCHANGED <<messages, live, active>>
  /\ Commit

(* What the model is shown after the summary so far: the oldest rows, up   *)
(* to a number of characters.  A row cut short in it counts as not shown.  *)
Shown(rows) ==
  {read \in SUBSET rows :
     /\ \A i \in read, j \in rows : j < i => j \in read
     /\ read = rows \/ Cardinality(read) >= TRANSCRIPT_ROWS}

(* what it was not shown is covered by through_id all the same             *)
Fold(t) ==
  /\ pc[t] = "distil" /\ on[t] \in live
  /\ \E read \in Shown(drop[t]) :
       /\ SetSummary(on[t], Max(drop[t]), told[t] \cup read)
       /\ lost' = [lost EXCEPT ![on[t]] = @ \cup (drop[t] \ read)]
  /\ End(t, TRUE)
  /\ UNCHANGED <<sweeping, restarts>>

(* distil.earlier without an answer gives back the summary it was handed,  *)
(* and compact saves that under the newest id it meant to add to it        *)
FoldFails(t) ==
  /\ pc[t] = "distil" /\ on[t] \in live
  /\ IF told[t] = {} THEN UNCHANGED <<store, disk, lost>>
     ELSE /\ SetSummary(on[t], Max(drop[t]), told[t])
          /\ lost' = [lost EXCEPT ![on[t]] = @ \cup drop[t]]
  /\ End(t, FALSE)
  /\ UNCHANGED <<sweeping, restarts>>

-----------------------------------------------------------------------------
(* clear and delete_thread, on the event loop: the rows, then the leaf or  *)
(* the thread.  Neither touches the summary.                               *)

DeleteMessages(th) ==
  /\ sweeping = None /\ th \in live
  /\ messages' = [i \in Ids |-> IF i \in Of(th)
                                THEN [messages[i] EXCEPT !.thread = None]
                                ELSE messages[i]]
  /\ sweeping' = th
  /\ UNCHANGED <<live, active, through, summary, disk, pc, on, local, restarts,
                 ghost>>

Clear ==
  /\ sweeping # None
  /\ active' = [active EXCEPT ![sweeping] = None]
  /\ UNCHANGED <<messages, live, through, summary>>
  /\ Commit
  /\ sweeping' = None
  /\ UNCHANGED <<pc, on, local, restarts, ghost>>

(* resolve would make a new conversation for the last one deleted          *)
DeleteThread ==
  /\ sweeping # None /\ live # {sweeping}
  /\ live' = live \ {sweeping}
  /\ UNCHANGED <<messages, active, through, summary>>
  /\ Commit
  /\ sweeping' = None
  /\ UNCHANGED <<pc, on, local, restarts, ghost>>

-----------------------------------------------------------------------------
(* The Gateway ends, however it ends, and starts: what was not committed   *)
(* is gone, and _migrate goes over the oldest conversation.                *)

(* every row without a parent gets the row before it, and the newest row   *)
(* becomes the leaf                                                        *)
RelinkedAll(rows, th) ==                \* bug: rows of every conversation
  LET own == {i \in DOMAIN rows : rows[i].thread # None}
      before(i) == {j \in own : j < i}
  IN  [i \in DOMAIN rows |->
         IF i \in own /\ rows[i].parent = None /\ before(i) # {}
         THEN [rows[i] EXCEPT !.parent = Max(before(i))] ELSE rows[i]]
Relinked(rows, th) ==
  LET own == {i \in DOMAIN rows : rows[i].thread = th}
      before(i) == {j \in own : j < i}
  IN  [i \in DOMAIN rows |->
         IF i \in own /\ rows[i].parent = None /\ before(i) # {}
         THEN [rows[i] EXCEPT !.parent = Max(before(i))] ELSE rows[i]]

Restart ==
  /\ restarts < MaxRestarts /\ restarts' = restarts + 1
  /\ LET oldest == Min(disk.live)
         own == {i \in DOMAIN disk.messages : disk.messages[i].thread = oldest}
     IN  /\ messages' = Relinked(disk.messages, oldest)
         /\ active' = IF own = {} THEN disk.active
                      ELSE [disk.active EXCEPT ![oldest] = Max(own)]
  /\ live' = disk.live /\ through' = disk.through /\ summary' = disk.summary
  /\ Commit
  /\ pc' = [t \in Turn |-> "idle"] /\ on' = [t \in Turn |-> None]
  /\ role' = [t \in Turn |-> "none"]
  /\ parent' = [t \in Turn |-> None] /\ new' = [t \in Turn |-> None]
  /\ round' = [t \in Turn |-> 0]
  /\ kept' = [t \in Turn |-> None]
  /\ told' = [t \in Turn |-> {}] /\ drop' = [t \in Turn |-> {}]
  /\ sweeping' = None
  /\ alone' = [t \in Turn |-> TRUE] /\ clean' = [th \in Thread |-> FALSE]
  /\ UNCHANGED lost

-----------------------------------------------------------------------------
TurnStep(t) ==
  \/ UnknownThread(t) \/ Insert(t) \/ Link(t)
  \/ Reply(t) \/ CallTool(t) \/ GiveUp(t)
  \/ NothingScrolled(t) \/ Measure(t) \/ NothingDropped(t) \/ Gather(t)
  \/ Fold(t) \/ FoldFails(t)

Next ==
  \/ \E t \in Turn : TurnStep(t)
  \/ \E t \in Turn, th \in Thread :
       Ask(t, th) \/ Edit(t, th) \/ Regenerate(t, th) \/ Compress(t, th)
  \/ \E th \in Thread : DeleteMessages(th)
  \/ Clear \/ DeleteThread
  \/ Restart

Spec == Init /\ [][Next]_vars

-----------------------------------------------------------------------------
(* Ancestry: whatever turns, edits, clearings and restarts do to one       *)
(* conversation, no branch of it can lead into another: every parent is an *)
(* older row of the same conversation or one that was deleted, and so is   *)
(* every leaf.  history asks only the leaf for its thread.                 *)
Ancestry ==
  /\ \A i \in Ids :
       /\ messages[i].parent < i
       /\ messages[i].thread # None /\ messages[i].parent # None =>
            messages[messages[i].parent].thread
              \in {messages[i].thread, None}
  /\ \A th \in live :
       active[th] # None =>
         /\ active[th] \in Ids
         /\ messages[active[th]].thread \in {th, None}

(* CoversThrough: through_id is the newest message the summary covers      *)
(* (chat.py:193): what is before it has been told of.                      *)
CoversThrough ==
  \A th \in live : \A i \in Talk(Of(th)) : i <= through[th] => i \in summary[th]

(* Accounted: through_id passes over no message: what is before it was     *)
(* handed to a fold, and the summary tells of it unless that fold failed   *)
(* or its model was not shown it, however compactions, edits, clearings    *)
(* and restarts are interleaved.                                           *)
Accounted ==
  \A th \in live : \A i \in Talk(Of(th)) :
    i <= through[th] => i \in summary[th] \cup lost[th]

(* Folded: when the last turn of a conversation has folded, and none ran   *)
(* beside it, every message of the branch before the window of compact,    *)
(* also one older than the rows it read, has been handed to a fold.  It    *)
(* says nothing where those rows hold too few questions for a window.      *)
Folded ==
  \A th \in live :
    clean[th] /\ Scrolled(th) =>
      \A u \in Users(Recent(th)), i \in Talk(History(th)) :
        StartsWindow(th, u) /\ i < u => i \in summary[th] \cup lost[th]
=============================================================================
