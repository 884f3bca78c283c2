------------------------ MODULE ConversationsProofs -------------------------
(***************************************************************************)
(* What the conversations keep for any number of threads, turns, messages  *)
(* and restarts.  The invariant says the same of the tables and of what is *)
(* on disk, for a crash puts one in the place of the other, and of what a  *)
(* turn holds between reading a table and writing to it.                   *)
(*                                                                         *)
(* That a conversation is folded rests on more: the branch on screen is a  *)
(* function of its own rows, which only its own turns add to, so what a    *)
(* turn that is alone has measured and gathered stays enough.              *)
(***************************************************************************)
EXTENDS Conversations, FiniteSetTheorems, WellFoundedInduction, TLAPS

TalkIn(m, th) ==
  {i \in DOMAIN m : m[i].thread = th /\ m[i].role \in {"user", "assistant"}}

Typed(d) ==
  /\ d.messages \in Seq(Message)
  /\ d.live \subseteq Thread /\ d.live # {}
  /\ d.active \in [Thread -> Nat]
  /\ d.through \in [Thread -> Nat] /\ d.summary \in [Thread -> SUBSET Nat]

Linked(m) ==
  \A i \in DOMAIN m :
    /\ m[i].parent < i
    /\ m[i].thread # None /\ m[i].parent # None =>
         m[m[i].parent].thread \in {m[i].thread, None}

(* a message of the conversation, or one that was deleted                  *)
Own(m, i, th) == i \in DOMAIN m /\ m[i].thread \in {th, None}

Leaves(d) ==
  \A th \in d.live : d.active[th] # None => Own(d.messages, d.active[th], th)

Told(d, gone) ==
  \A th \in d.live :
    /\ d.through[th] <= Len(d.messages)
    /\ \A i \in TalkIn(d.messages, th) :
         i <= d.through[th] => i \in d.summary[th] \cup gone[th]

Sound(d, gone) == Typed(d) /\ Linked(d.messages) /\ Leaves(d) /\ Told(d, gone)

Shape ==
  /\ pc \in [Turn -> STEPS] /\ on \in [Turn -> Thread \cup {None}]
  /\ role \in [Turn -> ROLES \cup {"none"}]
  /\ parent \in [Turn -> Nat] /\ new \in [Turn -> Nat]
  /\ round \in [Turn -> 0..MAX_TOOL_ROUNDS] /\ kept \in [Turn -> Nat]
  /\ told \in [Turn -> SUBSET Nat] /\ drop \in [Turn -> SUBSET Nat]
  /\ sweeping \in Thread \cup {None}
  /\ lost \in [Thread -> SUBSET Nat]

(* what a turn holds: where its row goes, and what it is about to tell of  *)
Holds(t) ==
  /\ pc[t] # "idle" => on[t] \in Thread
  /\ pc[t] = "insert" =>
       /\ role[t] \in ROLES
       /\ parent[t] # None => Own(messages, parent[t], on[t])
  /\ pc[t] = "link" => Own(messages, new[t], on[t])
  /\ pc[t] \in {"insert", "link"} /\ role[t] = "tool" =>
       round[t] + 1 < MAX_TOOL_ROUNDS
  /\ pc[t] = "distil" =>
       /\ drop[t] # {} /\ drop[t] \subseteq DOMAIN messages
       /\ \A x \in drop[t] : \A i \in TalkIn(messages, on[t]) :
            i <= x => i \in told[t] \cup drop[t] \cup lost[on[t]]

IInv ==
  /\ Sound(Stored, lost) /\ Sound(disk, lost)
  /\ Shape
  /\ \A t \in Turn : Holds(t)

(* Messages only grow in number and lose their thread; what was lost once  *)
(* stays counted as lost.                                                  *)
Grows ==
  /\ messages \in Seq(Message) /\ messages' \in Seq(Message)
  /\ Len(messages) <= Len(messages')
  /\ \A i \in DOMAIN messages :
       /\ messages'[i].thread \in {messages[i].thread, None}
       /\ messages'[i].role = messages[i].role
  /\ \A th \in Thread : lost[th] \subseteq lost'[th]

Stays(t) ==
  /\ pc'[t] = pc[t] /\ on'[t] = on[t] /\ role'[t] = role[t]
  /\ parent'[t] = parent[t] /\ new'[t] = new[t]
  /\ round'[t] = round[t] /\ told'[t] = told[t] /\ drop'[t] = drop[t]

-----------------------------------------------------------------------------
LEMMA SmallestIn ==
  ASSUME NEW S, S \subseteq Nat, S # {}
  PROVE  /\ Min(S) \in S
         /\ \A j \in S : Min(S) <= j
<1>1. PICK x \in S : \A y \in S : ~ (<<y, x>> \in OpToRel(<, Nat))
  BY WFMin, NatLessThanWellFounded, Zenon
<1>2. \A y \in S : ~ (y < x)
  BY <1>1, Zenon DEF OpToRel
<1>3. \A y \in S : x =< y
  BY <1>2
<1> QED
  BY <1>3 DEF Min

LEMMA NewestIn ==
  ASSUME NEW n \in Nat, NEW S, S \subseteq 0..n, S # {}
  PROVE  Max(S) \in S
<1> DEFINE T == {k \in Nat : n - k \in S}
<1>1. T # {}
  <2>1. PICK i \in S : TRUE
    OBVIOUS
  <2>2. n - i \in Nat /\ n - (n - i) = i
    BY <2>1
  <2> QED
    BY <2>1, <2>2
<1>2. Min(T) \in T /\ \A j \in T : Min(T) <= j
  BY <1>1, SmallestIn
<1> DEFINE x == n - Min(T)
<1>3. x \in S /\ \A y \in S : x >= y
  <2>1. x \in S
    BY <1>2
  <2>2. ASSUME NEW y \in S PROVE x >= y
    <3>1. n - y \in Nat /\ n - (n - y) = y
      OBVIOUS
    <3>2. n - y \in T
      BY <3>1
    <3> QED
      BY <1>2, <3>1, <3>2
  <2> QED
    BY <2>1, <2>2
<1> QED
  BY <1>3 DEF Max

LEMMA RowsAre ==
  ASSUME NEW m \in Seq(Message)
  PROVE  /\ DOMAIN m = 1..Len(m) /\ Len(m) \in Nat
         /\ \A i \in DOMAIN m : /\ m[i] \in Message /\ i \in Nat \ {0}
                                /\ m[i].thread \in Thread \cup {None}
                                /\ m[i].role \in ROLES /\ m[i].parent \in Nat
<1>1. DOMAIN m = 1..Len(m) /\ Len(m) \in Nat
  OBVIOUS
<1>2. ASSUME NEW i \in DOMAIN m PROVE m[i] \in Message /\ i \in Nat \ {0}
  BY <1>1
<1> QED
  BY <1>1, <1>2 DEF Message

(* What a turn holds outlives the steps of the others.                     *)
LEMMA OthersHold ==
  ASSUME IInv, Grows, NEW u \in Turn, Stays(u)
  PROVE  Holds(u)'
<1>1. \A i \in DOMAIN messages : i \in DOMAIN messages'
  BY RowsAre DEF Grows
<1>2. \A i, th : Own(messages, i, th) => Own(messages', i, th)
  BY <1>1 DEF Own, Grows
<1>3. \A th \in Thread : \A i \in TalkIn(messages', th) :
        i \in DOMAIN messages => i \in TalkIn(messages, th)
  BY ConversationsAssumption DEF TalkIn, Grows, None
<1>4. \A i \in DOMAIN messages', x \in DOMAIN messages :
        i <= x => i \in DOMAIN messages
  BY RowsAre DEF Grows
<1>5. pc[u] = "distil" =>
        \A x \in drop[u] : \A i \in TalkIn(messages', on[u]) :
          i <= x => i \in told[u] \cup drop[u] \cup lost'[on[u]]
  <2> SUFFICES ASSUME pc[u] = "distil", NEW x \in drop[u],
                      NEW i \in TalkIn(messages', on[u]), i <= x
               PROVE  i \in told[u] \cup drop[u] \cup lost'[on[u]]
    OBVIOUS
  <2>1. on[u] \in Thread /\ x \in DOMAIN messages
    BY DEF IInv, Holds
  <2>2. i \in TalkIn(messages, on[u])
    BY <1>3, <1>4, <2>1 DEF TalkIn
  <2> QED
    BY <2>1, <2>2 DEF IInv, Holds, Grows
<1> QED
  BY <1>1, <1>2, <1>5 DEF IInv, Holds, Stays

(* Every turn holds what it should after a step of one of them.            *)
LEMMA AllHold ==
  ASSUME IInv, Grows, NEW t \in Turn, Holds(t)',
         \A u \in Turn \ {t} : Stays(u)
  PROVE  \A u \in Turn : Holds(u)'
  BY OthersHold

-----------------------------------------------------------------------------
LEMMA InitIInv == Init => IInv
<1> SUFFICES ASSUME Init PROVE IInv
  OBVIOUS
<1> USE DEF Init
<1>1. messages \in Seq(Message) /\ DOMAIN messages = {} /\ Len(messages) = 0
  OBVIOUS
<1>2. Sound(Stored, lost)
  BY <1>1, ConversationsAssumption
  DEF Sound, Typed, Linked, Leaves, Told, TalkIn, Stored, None
<1>3. Shape
  <2>1. /\ pc \in [Turn -> STEPS] /\ role \in [Turn -> ROLES \cup {"none"}]
        /\ on \in [Turn -> Thread \cup {None}]
    BY DEF STEPS
  <2>2. /\ parent \in [Turn -> Nat] /\ new \in [Turn -> Nat]
        /\ told \in [Turn -> SUBSET Nat] /\ drop \in [Turn -> SUBSET Nat]
        /\ lost \in [Thread -> SUBSET Nat]
    BY DEF None
  <2>3. round \in [Turn -> 0..MAX_TOOL_ROUNDS] /\ kept \in [Turn -> Nat]
    BY ConversationsAssumption DEF None
  <2> QED
    BY <2>1, <2>2, <2>3 DEF Shape
<1> QED
  BY <1>2, <1>3 DEF IInv, Holds

(* Steps that write nothing: the tables are as they were.                  *)
LEMMA Unwritten ==
  ASSUME IInv, UNCHANGED store,
         lost' \in [Thread -> SUBSET Nat],
         \A th \in Thread : lost[th] \subseteq lost'[th]
  PROVE  Sound(Stored, lost)' /\ Grows
<1>1. Stored' = Stored
  BY DEF Stored, store
<1>2. Sound(Stored, lost')
  BY DEF IInv, Sound, Told, Typed
<1> QED
  BY <1>1, <1>2 DEF IInv, Sound, Typed, Grows, store, Stored

LEMMA DiskStays ==
  ASSUME IInv, UNCHANGED disk,
         lost' \in [Thread -> SUBSET Nat],
         \A th \in Thread : lost[th] \subseteq lost'[th]
  PROVE  Sound(disk, lost)'
<1>1. Sound(disk, lost')
  BY DEF IInv, Sound, Told, Typed
<1> QED
  BY <1>1

LEMMA Committed ==
  ASSUME Sound(Stored, lost)', Commit
  PROVE  Sound(disk, lost)'
  BY DEF Commit

-----------------------------------------------------------------------------
(* A turn begins.                                                          *)
LEMMA AskStep ==
  ASSUME IInv, NEW t \in Turn, NEW th \in Thread, Ask(t, th)
  PROVE  IInv'
<1> USE DEF Ask, Enter
<1>1. Sound(Stored, lost)' /\ Grows /\ Sound(disk, lost)'
  BY Unwritten, DiskStays DEF IInv, Shape
<1>2. Holds(t)'
  <2>1. active[th] # None => Own(messages, active[th], th)
    BY DEF IInv, Sound, Leaves, Stored
  <2> QED
    BY <2>1 DEF Holds, IInv, Shape, ROLES, Own, store
<1>3. \A u \in Turn \ {t} : Stays(u)
  BY DEF Stays, IInv, Shape
<1>4. Shape'
  BY DEF Shape, IInv, ROLES, STEPS, Sound, Typed, Stored
<1> QED
  BY <1>1, <1>2, <1>3, <1>4, AllHold DEF IInv

LEMMA EditStep ==
  ASSUME IInv, NEW t \in Turn, NEW th \in Thread, Edit(t, th)
  PROVE  IInv'
<1> USE DEF Edit, Enter
<1>1. Sound(Stored, lost)' /\ Grows /\ Sound(disk, lost)'
  BY Unwritten, DiskStays DEF IInv, Shape
<1>2. PICK m \in Users(Of(th)) :
        parent' = [parent EXCEPT ![t] = messages[m].parent]
  OBVIOUS
<1>3. /\ m \in DOMAIN messages /\ messages[m].thread = th
      /\ messages[m].parent \in Nat /\ messages \in Seq(Message)
  BY <1>2, RowsAre DEF Users, Of, Ids, IInv, Sound, Typed, Stored
<1>4. messages[m].parent # None => Own(messages, messages[m].parent, th)
  <2>1. messages[m].parent < m /\ m \in 1..Len(messages)
    BY <1>3, RowsAre DEF IInv, Sound, Linked, Stored
  <2>2. messages[m].parent # None =>
          messages[messages[m].parent].thread \in {th, None}
    BY <1>3, ConversationsAssumption DEF IInv, Sound, Linked, Stored, None
  <2> QED
    BY <1>3, <2>1, <2>2, RowsAre DEF Own, None
<1>5. Holds(t)'
  BY <1>2, <1>4 DEF Holds, IInv, Shape, ROLES, Own, store
<1>6. \A u \in Turn \ {t} : Stays(u)
  BY <1>2 DEF Stays, IInv, Shape
<1>7. Shape'
  BY <1>2, <1>3 DEF Shape, IInv, ROLES, STEPS
<1> QED
  BY <1>1, <1>5, <1>6, <1>7, AllHold DEF IInv

LEMMA RegenerateStep ==
  ASSUME IInv, NEW t \in Turn, NEW th \in Thread, Regenerate(t, th)
  PROVE  IInv'
<1> USE DEF Regenerate, Enter
<1>1. PICK q \in Users(Of(th)) : active' = [active EXCEPT ![th] = q]
  OBVIOUS
<1>2. Own(messages, q, th) /\ q \in Nat /\ messages \in Seq(Message)
  BY <1>1, RowsAre DEF Users, Of, Ids, Own, IInv, Sound, Typed, Stored
<1>3. Sound(Stored, lost)'
  <2>1. Typed(Stored)' /\ Linked(messages)'
    BY <1>1, <1>2 DEF IInv, Sound, Typed, Stored
  <2>2. Leaves(Stored)'
    BY <1>1, <1>2 DEF IInv, Sound, Typed, Leaves, Stored
  <2>3. Told(Stored, lost)'
    BY DEF IInv, Sound, Told, Stored
  <2> QED
    BY <2>1, <2>2, <2>3 DEF Sound, Stored
<1>4. Sound(disk, lost)'
  BY <1>3, Committed
<1>5. Grows
  BY <1>2 DEF Grows
<1>6. Holds(t)'
  BY DEF Holds, IInv, Shape
<1>7. \A u \in Turn \ {t} : Stays(u)
  BY DEF Stays, IInv, Shape, local
<1>8. Shape'
  BY DEF Shape, IInv, STEPS, local
<1> QED
  BY <1>3, <1>4, <1>5, <1>6, <1>7, <1>8, AllHold DEF IInv

LEMMA CompressStep ==
  ASSUME IInv, NEW t \in Turn, NEW th \in Thread, Compress(t, th)
  PROVE  IInv'
<1> USE DEF Compress, Enter
<1>1. Sound(Stored, lost)' /\ Grows /\ Sound(disk, lost)'
  BY Unwritten, DiskStays DEF IInv, Shape
<1>2. Holds(t)'
  BY DEF Holds, IInv, Shape
<1>3. \A u \in Turn \ {t} : Stays(u)
  BY DEF Stays, IInv, Shape, local
<1>4. Shape'
  BY DEF Shape, IInv, STEPS, local
<1> QED
  BY <1>1, <1>2, <1>3, <1>4, AllHold DEF IInv

-----------------------------------------------------------------------------
(* A turn writes a message.                                                *)
LEMMA InsertStep ==
  ASSUME IInv, NEW t \in Turn, Insert(t)
  PROVE  IInv'
<1> USE DEF Insert
<1> DEFINE row == [thread |-> on[t], role |-> role[t], parent |-> parent[t]]
           n   == Len(messages)
<1>1. /\ messages \in Seq(Message) /\ n \in Nat /\ DOMAIN messages = 1..n
      /\ row \in Message /\ on[t] \in Thread /\ row.thread # None
  BY RowsAre, ConversationsAssumption
  DEF IInv, Sound, Typed, Stored, Holds, Shape, Message, None
<1>2. /\ messages' \in Seq(Message) /\ Len(messages') = n + 1
      /\ DOMAIN messages' = 1..(n + 1) /\ messages'[n + 1] = row
      /\ \A i \in 1..n : messages'[i] = messages[i]
  BY <1>1
<1>3. Grows
  BY <1>1, <1>2 DEF Grows, ghost
<1>4. Own(messages, parent[t], on[t]) \/ parent[t] = None
  BY DEF IInv, Holds
<1>5. Linked(messages')
  <2>1. ASSUME NEW i \in 1..n
        PROVE  /\ messages'[i].parent < i
               /\ messages'[i].thread # None /\ messages'[i].parent # None =>
                    messages'[messages'[i].parent].thread
                      \in {messages'[i].thread, None}
    <3>1. messages[i].parent \in Nat
      BY <1>1, RowsAre
    <3>2. messages[i].parent < i
      BY <1>1 DEF IInv, Sound, Linked, Stored
    <3>3. messages[i].parent # None => messages[i].parent \in 1..n
      BY <3>1, <3>2 DEF None
    <3> QED
      BY <1>1, <1>2, <3>2, <3>3 DEF IInv, Sound, Linked, Stored
  <2>2. /\ parent[t] < n + 1
        /\ parent[t] # None => messages'[parent[t]].thread \in {on[t], None}
    BY <1>1, <1>2, <1>4 DEF Own, None
  <2>3. row.parent = parent[t] /\ row.thread = on[t]
    OBVIOUS
  <2>4. ASSUME NEW i \in 1..(n + 1)
        PROVE  /\ messages'[i].parent < i
               /\ messages'[i].thread # None /\ messages'[i].parent # None =>
                    messages'[messages'[i].parent].thread
                      \in {messages'[i].thread, None}
    <3>1. CASE i = n + 1
      BY <1>2, <2>2, <2>3, <3>1
    <3>2. CASE i \in 1..n
      BY <2>1, <3>2
    <3>3. i = n + 1 \/ i \in 1..n
      BY <1>1, n \in Nat
    <3> QED
      BY <3>1, <3>2, <3>3
  <2> QED
    BY <1>2, <2>4 DEF Linked
<1>6. Sound(Stored, lost)'
  <2>1. Typed(Stored)'
    BY <1>2 DEF IInv, Sound, Typed, Stored
  <2>2. Leaves(Stored)'
    BY <1>1, <1>2 DEF IInv, Sound, Leaves, Own, Stored
  <2>3. Told(Stored, lost)'
    <3> SUFFICES ASSUME NEW h \in live
                 PROVE  /\ through[h] <= n + 1
                        /\ \A i \in TalkIn(messages', h) :
                             i <= through[h] => i \in summary[h] \cup lost[h]
      BY <1>2 DEF Told, Stored, ghost
    <3>1. through[h] <= n /\ through[h] \in Nat
      BY DEF IInv, Sound, Typed, Told, Stored
    <3>2. \A i \in TalkIn(messages', h) :
            i <= through[h] => i \in TalkIn(messages, h)
      BY <1>1, <1>2, <3>1 DEF TalkIn
    <3> QED
      BY <1>1, <3>1, <3>2 DEF IInv, Sound, Told, Stored
  <2> QED
    BY <1>5, <2>1, <2>2, <2>3 DEF Sound, Stored
<1>7. Sound(disk, lost)'
  BY DiskStays DEF ghost, IInv, Shape
<1>8. Holds(t)'
  BY <1>1, <1>2 DEF Holds, IInv, Shape, Own
<1>9. \A u \in Turn \ {t} : Stays(u)
  BY DEF Stays, IInv, Shape
<1>10. Shape'
  BY <1>1 DEF Shape, IInv, STEPS, None, ghost
<1> QED
  BY <1>3, <1>6, <1>7, <1>8, <1>9, <1>10, AllHold DEF IInv

LEMMA LinkStep ==
  ASSUME IInv, NEW t \in Turn, Link(t)
  PROVE  IInv'
<1> USE DEF Link
<1>1. messages \in Seq(Message) /\ on[t] \in Thread /\ Own(messages, new[t], on[t])
  BY DEF IInv, Sound, Typed, Stored, Holds
<1>2. Sound(Stored, lost)'
  <2>1. Typed(Stored)' /\ Linked(messages)'
    BY <1>1 DEF IInv, Sound, Typed, Stored, Shape
  <2>2. Leaves(Stored)'
    BY <1>1 DEF IInv, Sound, Typed, Leaves, Stored
  <2>3. Told(Stored, lost)'
    BY DEF IInv, Sound, Told, Stored
  <2> QED
    BY <2>1, <2>2, <2>3 DEF Sound, Stored
<1>3. Sound(disk, lost)'
  BY <1>2, Committed
<1>4. Grows
  BY <1>1 DEF Grows
<1>5. Holds(t)'
  BY <1>1 DEF Holds, IInv, Shape
<1>6. \A u \in Turn \ {t} : Stays(u)
  BY DEF Stays, IInv, Shape
<1>7. Shape'
  <2>1. \A u \in Turn : round[u] \in 0..MAX_TOOL_ROUNDS
    BY DEF IInv, Shape
  <2>2. round' \in [Turn -> 0..MAX_TOOL_ROUNDS]
    BY <2>1, ConversationsAssumption DEF IInv, Shape, Holds
  <2> QED
    BY <2>2 DEF Shape, IInv, STEPS, None
<1> QED
  BY <1>2, <1>3, <1>4, <1>5, <1>6, <1>7, AllHold DEF IInv

LEMMA WriteStep ==
  ASSUME IInv, NEW t \in Turn, Reply(t) \/ CallTool(t)
  PROVE  IInv'
<1>1. PICK what \in {"assistant", "tool"} :
        Write(t, what) /\ (what = "tool" => round[t] + 1 < MAX_TOOL_ROUNDS)
  BY DEF Reply, CallTool
<1> USE DEF Write
<1>2. Sound(Stored, lost)' /\ Grows /\ Sound(disk, lost)'
  BY <1>1, Unwritten, DiskStays DEF IInv, Shape, ghost
<1>3. on[t] \in Thread /\ active[on[t]] \in Nat
  BY <1>1 DEF IInv, Holds, Sound, Typed, Stored
<1>4. Holds(t)'
  <2>1. active[on[t]] # None => Own(messages, active[on[t]], on[t])
    BY <1>1 DEF IInv, Sound, Leaves, Stored
  <2> QED
    BY <1>1, <1>3, <2>1 DEF Holds, IInv, Shape, ROLES, Own, store
<1>5. \A u \in Turn \ {t} : Stays(u)
  BY <1>1 DEF Stays, IInv, Shape
<1>6. Shape'
  BY <1>1, <1>3 DEF Shape, IInv, ROLES, STEPS, ghost
<1> QED
  BY <1>2, <1>4, <1>5, <1>6, AllHold DEF IInv

-----------------------------------------------------------------------------
(* A turn compacts, or ends.                                               *)
LEMMA QuietStep ==
  ASSUME IInv, NEW t \in Turn, GiveUp(t) \/ Measure(t)
  PROVE  IInv'
<1> USE DEF GiveUp, Measure
<1>1. Sound(Stored, lost)' /\ Grows /\ Sound(disk, lost)'
  BY Unwritten, DiskStays DEF IInv, Shape, ghost
<1>2. Holds(t)'
  BY DEF Holds, IInv, Shape
<1>3. \A u \in Turn \ {t} : Stays(u)
  BY DEF Stays, IInv, Shape
<1>4. Shape'
  <2>1. \A u \in Users(Recent(on[t])) : u \in Nat
    BY RowsAre DEF Users, Ids, IInv, Sound, Typed, Stored
  <2>2. /\ round' \in [Turn -> 0..MAX_TOOL_ROUNDS]
        /\ kept' \in [Turn -> Nat] /\ pc' \in [Turn -> STEPS]
    BY <2>1, ConversationsAssumption DEF IInv, Shape, STEPS
  <2> QED
    BY <2>2 DEF Shape, IInv, ghost
<1> QED
  BY <1>1, <1>2, <1>3, <1>4, AllHold DEF IInv

(* a turn that has ended holds nothing, and touches no other               *)
LEMMA EndHolds ==
  ASSUME IInv, NEW t \in Turn, NEW f, End(t, f), UNCHANGED sweeping,
         lost' \in [Thread -> SUBSET Nat]
  PROVE  Holds(t)' /\ Shape' /\ \A u \in Turn \ {t} : Stays(u)
<1>1. Holds(t)'
  BY DEF End, Holds, IInv, Shape
<1>2. Shape'
  <2>1. round' \in [Turn -> 0..MAX_TOOL_ROUNDS] /\ kept' \in [Turn -> Nat]
    BY ConversationsAssumption DEF End, IInv, Shape, None
  <2> QED
    BY <2>1 DEF End, Shape, IInv, STEPS, None
<1>3. \A u \in Turn \ {t} : Stays(u)
  BY DEF End, Stays, IInv, Shape
<1> QED
  BY <1>1, <1>2, <1>3

LEMMA EndStep ==
  ASSUME IInv, NEW t \in Turn,
         UnknownThread(t) \/ NothingScrolled(t) \/ NothingDropped(t)
  PROVE  IInv'
<1>1. /\ End(t, FALSE) \/ End(t, TRUE)
      /\ UNCHANGED <<store, disk, sweeping, restarts, lost>>
  BY DEF UnknownThread, NothingScrolled, NothingDropped
<1>2. Sound(Stored, lost)' /\ Grows /\ Sound(disk, lost)'
  BY <1>1, Unwritten, DiskStays DEF IInv, Shape
<1>3. Holds(t)' /\ Shape' /\ \A u \in Turn \ {t} : Stays(u)
  BY <1>1, EndHolds DEF IInv, Shape
<1> QED
  BY <1>2, <1>3, AllHold DEF IInv

LEMMA GatherStep ==
  ASSUME IInv, NEW t \in Turn, Gather(t)
  PROVE  IInv'
<1> USE DEF Gather
<1>1. Sound(Stored, lost)' /\ Grows /\ Sound(disk, lost)'
  BY Unwritten, DiskStays DEF IInv, Shape, ghost
<1>2. /\ messages \in Seq(Message) /\ on[t] \in Thread
      /\ DOMAIN messages = 1..Len(messages) /\ Len(messages) \in Nat
      /\ summary[on[t]] \subseteq Nat /\ through[on[t]] \in Nat
  BY RowsAre DEF IInv, Sound, Typed, Stored, Holds
<1>3. Dropped(t) \subseteq TalkIn(messages, on[t])
  BY DEF Dropped, DroppedRows, Talk, Of, Ids, TalkIn
<1>4. ASSUME NEW x \in Dropped(t), NEW i \in TalkIn(messages, on[t]), i <= x
      PROVE  i \in summary[on[t]] \cup Dropped(t) \cup lost[on[t]]
  <2>1. CASE i <= through[on[t]]
    BY <1>2, <2>1 DEF IInv, Sound, Told, Stored
  <2>2. CASE ~ (i <= through[on[t]])
    <3>1. i \in 1..Len(messages) /\ x \in 1..Len(messages)
      BY <1>2, <1>3 DEF TalkIn
    <3>2. x < kept[t] /\ kept[t] \in Nat
      BY DEF Dropped, DroppedRows, IInv, Shape
    <3>3. i \in Talk(Of(on[t])) /\ through[on[t]] < i
      BY <1>2, <2>2, <3>1 DEF TalkIn, Talk, Of, Ids
    <3>4. i < kept[t]
      BY <1>4, <3>1, <3>2
    <3> QED
      BY <3>3, <3>4 DEF Dropped, DroppedRows
  <2> QED
    BY <2>1, <2>2
<1>5. Holds(t)'
  <2>1. told'[t] = summary[on[t]] /\ drop'[t] = Dropped(t)
    BY DEF IInv, Shape
  <2>2. Dropped(t) \subseteq DOMAIN messages
    BY <1>3 DEF TalkIn
  <2>3. pc'[t] = "distil" /\ on'[t] = on[t] /\ messages' = messages /\ lost' = lost
    BY DEF IInv, Shape, store, ghost
  <2> QED
    BY <1>2, <1>4, <2>1, <2>2, <2>3 DEF Holds
<1>6. \A u \in Turn \ {t} : Stays(u)
  BY DEF Stays, IInv, Shape
<1>7. Shape'
  <2>1. Dropped(t) \subseteq Nat
    BY <1>2, <1>3 DEF TalkIn
  <2>2. kept' \in [Turn -> Nat]
    BY DEF IInv, Shape, None
  <2> QED
    BY <1>2, <2>1, <2>2 DEF Shape, IInv, STEPS, ghost
<1> QED
  BY <1>1, <1>5, <1>6, <1>7, AllHold DEF IInv

(* A summary that stands for what was gathered, by itself or, when it      *)
(* failed, with what is lost, keeps the tables sound.                      *)
LEMMA SummarySound ==
  ASSUME IInv, NEW t \in Turn, pc[t] = "distil", on[t] \in live,
         NEW covers \in SUBSET Nat, SetSummary(on[t], Max(drop[t]), covers),
         lost' \in [Thread -> SUBSET Nat],
         \A th \in Thread : lost[th] \subseteq lost'[th],
         told[t] \cup drop[t] \subseteq covers \cup lost'[on[t]]
  PROVE  Sound(Stored, lost)' /\ Sound(disk, lost)' /\ Grows
<1> USE DEF SetSummary
<1>1. /\ messages \in Seq(Message) /\ on[t] \in Thread
      /\ DOMAIN messages = 1..Len(messages) /\ Len(messages) \in Nat
      /\ live \subseteq Thread
  BY RowsAre DEF IInv, Sound, Typed, Stored, Holds
<1>2. Max(drop[t]) \in drop[t] /\ Max(drop[t]) \in 1..Len(messages)
  <2>1. drop[t] # {} /\ drop[t] \subseteq 1..Len(messages)
    BY <1>1 DEF IInv, Holds
  <2>2. drop[t] \subseteq 0..Len(messages)
    BY <1>1, <2>1
  <2> QED
    BY <1>1, <2>1, <2>2, NewestIn
<1>3. Typed(Stored)'
  BY <1>1, <1>2 DEF IInv, Sound, Typed, Stored
<1>4. Linked(messages)' /\ Leaves(Stored)'
  BY DEF IInv, Sound, Leaves, Stored
<1>5. Told(Stored, lost)'
  <2> SUFFICES ASSUME NEW h \in live
               PROVE  /\ through'[h] <= Len(messages)
                      /\ \A i \in TalkIn(messages, h) :
                           i <= through'[h] => i \in summary'[h] \cup lost'[h]
    BY DEF Told, Stored
  <2>1. h \in Thread
    BY <1>1
  <2>2. CASE h = on[t]
    <3>1. through'[h] = Max(drop[t]) /\ summary'[h] = covers
      BY <2>1, <2>2 DEF IInv, Sound, Typed, Stored
    <3>2. \A i \in TalkIn(messages, h) :
            i <= Max(drop[t]) => i \in told[t] \cup drop[t] \cup lost[h]
      BY <1>2, <2>2 DEF IInv, Holds
    <3> QED
      BY <1>1, <1>2, <2>1, <2>2, <3>1, <3>2
  <2>3. CASE h # on[t]
    <3>1. through'[h] = through[h] /\ summary'[h] = summary[h]
      BY <2>1, <2>3 DEF IInv, Sound, Typed, Stored
    <3> QED
      BY <2>1, <3>1 DEF IInv, Sound, Told, Stored
  <2> QED
    BY <2>2, <2>3
<1>6. Sound(Stored, lost)'
  BY <1>3, <1>4, <1>5 DEF Sound, Stored
<1>7. Sound(disk, lost)'
  BY <1>6, Committed
<1>8. Grows
  BY <1>1 DEF Grows
<1> QED
  BY <1>6, <1>7, <1>8

LEMMA FoldStep ==
  ASSUME IInv, NEW t \in Turn, Fold(t)
  PROVE  IInv'
<1>1. PICK read \in SUBSET drop[t] :
        /\ SetSummary(on[t], Max(drop[t]), told[t] \cup read)
        /\ lost' = [lost EXCEPT ![on[t]] = @ \cup (drop[t] \ read)]
  BY DEF Fold, Shown
<1>2. /\ told[t] \cup read \in SUBSET Nat /\ drop[t] \subseteq Nat
      /\ on[t] \in Thread
  BY DEF IInv, Shape, Holds, Fold
<1>3. /\ lost' \in [Thread -> SUBSET Nat]
      /\ \A th \in Thread : lost[th] \subseteq lost'[th]
      /\ drop[t] \ read \subseteq lost'[on[t]]
  BY <1>1, <1>2 DEF IInv, Shape
<1>4. Sound(Stored, lost)' /\ Sound(disk, lost)' /\ Grows
  BY <1>1, <1>2, <1>3, SummarySound DEF Fold
<1>5. Holds(t)' /\ Shape' /\ \A u \in Turn \ {t} : Stays(u)
  BY <1>3, EndHolds DEF Fold
<1> QED
  BY <1>4, <1>5, AllHold DEF IInv

LEMMA FoldFailsStep ==
  ASSUME IInv, NEW t \in Turn, FoldFails(t)
  PROVE  IInv'
<1>1. told[t] \subseteq Nat /\ drop[t] \subseteq Nat /\ on[t] \in Thread
  BY DEF IInv, Shape, Holds, FoldFails
<1>2. /\ lost' \in [Thread -> SUBSET Nat]
      /\ \A th \in Thread : lost[th] \subseteq lost'[th]
  BY <1>1 DEF FoldFails, IInv, Shape
<1>3. Sound(Stored, lost)' /\ Sound(disk, lost)' /\ Grows
  <2>1. CASE told[t] = {}
    BY <1>2, <2>1, Unwritten, DiskStays DEF FoldFails
  <2>2. CASE told[t] # {}
    <3>1. drop[t] \subseteq lost'[on[t]]
      BY <1>1, <2>2 DEF FoldFails, IInv, Shape
    <3> QED
      BY <1>1, <1>2, <2>2, <3>1, SummarySound DEF FoldFails
  <2> QED
    BY <2>1, <2>2
<1>4. Holds(t)' /\ Shape' /\ \A u \in Turn \ {t} : Stays(u)
  BY <1>2, EndHolds DEF FoldFails
<1> QED
  BY <1>3, <1>4, AllHold DEF IInv

-----------------------------------------------------------------------------
(* Conversations are cleared and deleted, and the Gateway starts again.    *)
LEMMA DeleteMessagesStep ==
  ASSUME IInv, NEW th \in Thread, DeleteMessages(th)
  PROVE  IInv'
<1> USE DEF DeleteMessages
<1>1. /\ messages \in Seq(Message) /\ Len(messages) \in Nat
      /\ DOMAIN messages = 1..Len(messages) /\ Ids = DOMAIN messages
      /\ \A i \in DOMAIN messages : messages[i] \in Message
  BY RowsAre DEF IInv, Sound, Typed, Stored, Ids
<1>2. ASSUME NEW i \in DOMAIN messages
      PROVE  /\ messages'[i] \in Message
             /\ messages'[i].thread =
                  IF messages[i].thread = th THEN None ELSE messages[i].thread
             /\ messages'[i].role = messages[i].role
             /\ messages'[i].parent = messages[i].parent
  BY <1>1 DEF Message, Of
<1>3. /\ messages' \in Seq(Message) /\ Len(messages') = Len(messages)
      /\ DOMAIN messages' = DOMAIN messages
  BY <1>1, <1>2
<1>4. Grows
  BY <1>1, <1>2, <1>3 DEF Grows, ghost
<1>5. Linked(messages')
  <2> SUFFICES ASSUME NEW i \in DOMAIN messages
               PROVE  /\ messages'[i].parent < i
                      /\ messages'[i].thread # None /\ messages'[i].parent # None
                           => messages'[messages'[i].parent].thread
                                \in {messages'[i].thread, None}
    BY <1>3 DEF Linked
  <2>1. /\ messages[i].parent < i
        /\ messages[i].thread # None /\ messages[i].parent # None =>
             messages[messages[i].parent].thread \in {messages[i].thread, None}
    BY DEF IInv, Sound, Linked, Stored
  <2>2. messages[i].parent # None => messages[i].parent \in DOMAIN messages
    BY <1>1, <2>1, RowsAre DEF None
  <2> QED
    BY <1>2, <2>1, <2>2
<1>6. Sound(Stored, lost)'
  <2>1. Typed(Stored)'
    BY <1>3 DEF IInv, Sound, Typed, Stored
  <2>2. Leaves(Stored)'
    <3>1. \A i, h : Own(messages, i, h) => Own(messages', i, h)
      BY <1>3, <1>4 DEF Own, Grows
    <3>2. \A h \in live : active[h] # None => Own(messages, active[h], h)
      BY DEF IInv, Sound, Leaves, Stored
    <3> QED
      BY <3>1, <3>2 DEF Leaves, Stored
  <2>3. ASSUME NEW h \in Thread
        PROVE  TalkIn(messages', h) \subseteq TalkIn(messages, h)
    <3>1. h # None
      BY ConversationsAssumption
    <3>2. \A i \in DOMAIN messages :
            /\ messages'[i].thread \in {messages[i].thread, None}
            /\ messages'[i].role = messages[i].role
      BY <1>4 DEF Grows
    <3> QED
      BY <1>3, <3>1, <3>2 DEF TalkIn
  <2>4. Told(Stored, lost)'
    BY <1>3, <2>3 DEF IInv, Sound, Typed, Told, Stored, ghost
  <2> QED
    BY <1>5, <2>1, <2>2, <2>4 DEF Sound, Stored
<1>7. Sound(disk, lost)'
  BY DiskStays DEF ghost, IInv, Shape
<1>8. \A u \in Turn : Stays(u)
  BY DEF Stays, local
<1>9. Shape'
  BY DEF Shape, IInv, local, ghost
<1> QED
  BY <1>4, <1>6, <1>7, <1>8, <1>9, OthersHold DEF IInv

LEMMA SweptStep ==
  ASSUME IInv, Clear \/ DeleteThread
  PROVE  IInv'
<1> USE DEF Clear, DeleteThread
<1>1. sweeping \in Thread
  BY DEF IInv, Shape
<1>2. /\ messages \in Seq(Message) /\ live \subseteq Thread
      /\ live' \subseteq live /\ live' # {}
  BY DEF IInv, Sound, Typed, Stored
<1>3. Sound(Stored, lost)'
  <2>1. Typed(Stored)' /\ Linked(messages)'
    <3>1. active' \in [Thread -> Nat]
      <4>1. active \in [Thread -> Nat] /\ None \in Nat
        BY DEF IInv, Sound, Typed, Stored, None
      <4>2. CASE Clear
        BY <4>1, <4>2
      <4>3. CASE DeleteThread
        BY <4>1, <4>3
      <4> QED
        BY <4>2, <4>3
    <3>2. live' \subseteq Thread /\ live' # {}
      BY <1>2
    <3> QED
      BY <3>1, <3>2 DEF IInv, Sound, Typed, Stored
  <2>2. Leaves(Stored)'
    BY <1>1, <1>2 DEF IInv, Sound, Typed, Leaves, Stored
  <2>3. Told(Stored, lost)'
    BY <1>2 DEF IInv, Sound, Told, Stored, ghost
  <2> QED
    BY <2>1, <2>2, <2>3 DEF Sound, Stored
<1>4. Sound(disk, lost)'
  BY <1>3, Committed
<1>5. Grows
  BY <1>2 DEF Grows, ghost
<1>6. \A u \in Turn : Stays(u)
  BY DEF Stays, local
<1>7. Shape'
  BY DEF Shape, IInv, local, ghost
<1> QED
  BY <1>3, <1>4, <1>5, <1>6, <1>7, OthersHold DEF IInv

(* _migrate over the oldest conversation: the rows it links are its own.   *)
LEMMA RelinkedIs ==
  ASSUME NEW m \in Seq(Message), Linked(m), NEW th \in Thread
  PROVE  /\ Relinked(m, th) \in Seq(Message) /\ Linked(Relinked(m, th))
         /\ DOMAIN Relinked(m, th) = DOMAIN m /\ Len(Relinked(m, th)) = Len(m)
         /\ \A i \in DOMAIN m : /\ Relinked(m, th)[i].thread = m[i].thread
                                /\ Relinked(m, th)[i].role = m[i].role
<1> DEFINE own       == {i \in DOMAIN m : m[i].thread = th}
           before(i) == {j \in own : j < i}
           r         == Relinked(m, th)
           moved(i)  == i \in own /\ m[i].parent = None /\ before(i) # {}
<1>1. /\ DOMAIN m = 1..Len(m) /\ Len(m) \in Nat
      /\ \A i \in DOMAIN m : m[i] \in Message /\ m[i].parent \in Nat
  BY RowsAre
<1>2. r = [i \in DOMAIN m |-> IF moved(i)
                              THEN [m[i] EXCEPT !.parent = Max(before(i))]
                              ELSE m[i]]
  BY DEF Relinked
<1>3. ASSUME NEW i \in DOMAIN m, moved(i)
      PROVE  Max(before(i)) \in own /\ Max(before(i)) < i /\ Max(before(i)) \in Nat
  <2>1. before(i) \subseteq 0..Len(m) /\ before(i) # {}
    BY <1>1, <1>3
  <2>2. Max(before(i)) \in before(i)
    BY <1>1, <2>1, NewestIn
  <2> QED
    BY <1>1, <2>2
<1>4. ASSUME NEW i \in DOMAIN m
      PROVE  /\ r[i] \in Message /\ r[i].thread = m[i].thread
             /\ r[i].role = m[i].role
             /\ r[i].parent = IF moved(i) THEN Max(before(i)) ELSE m[i].parent
  <2>1. CASE moved(i)
    <3>1. r[i] = [m[i] EXCEPT !.parent = Max(before(i))]
      BY <1>2, <2>1
    <3>2. m[i] \in Message /\ Max(before(i)) \in Nat
      BY <1>1, <1>3, <2>1
    <3> QED
      BY <2>1, <3>1, <3>2 DEF Message
  <2>2. CASE ~ moved(i)
    BY <1>1, <1>2, <2>2
  <2> QED
    BY <2>1, <2>2
<1> HIDE DEF r, moved, before, own
<1>5. DOMAIN r = DOMAIN m
  BY <1>2
<1>6. r \in Seq(Message) /\ Len(r) = Len(m)
  BY <1>1, <1>2, <1>4, <1>5
<1>7. Linked(r)
  <2> SUFFICES ASSUME NEW i \in DOMAIN m
               PROVE  /\ r[i].parent < i
                      /\ r[i].thread # None /\ r[i].parent # None =>
                           r[r[i].parent].thread \in {r[i].thread, None}
    BY <1>5 DEF Linked
  <2>1. CASE moved(i)
    <3>1. Max(before(i)) \in DOMAIN m /\ m[Max(before(i))].thread = th
      BY <1>3, <2>1 DEF own
    <3>2. m[i].thread = th
      BY <2>1 DEF moved, own
    <3> QED
      BY <1>3, <1>4, <2>1, <3>1, <3>2
  <2>2. CASE ~ moved(i)
    <3>1. /\ m[i].parent < i
          /\ m[i].thread # None /\ m[i].parent # None =>
               m[m[i].parent].thread \in {m[i].thread, None}
      BY DEF Linked
    <3>2. m[i].parent # None => m[i].parent \in DOMAIN m
      BY <1>1, <3>1 DEF None
    <3> QED
      BY <1>4, <2>2, <3>1, <3>2
  <2> QED
    BY <2>1, <2>2
<1> QED
  BY <1>4, <1>5, <1>6, <1>7 DEF r

LEMMA RestartStep ==
  ASSUME IInv, Restart
  PROVE  IInv'
<1> USE DEF Restart
<1> DEFINE d   == disk
           old == Min(disk.live)
           own == {i \in DOMAIN disk.messages : disk.messages[i].thread = old}
<1>1. /\ Typed(d) /\ Linked(d.messages) /\ Leaves(d) /\ Told(d, lost)
      /\ d.messages \in Seq(Message)
      /\ DOMAIN d.messages = 1..Len(d.messages) /\ Len(d.messages) \in Nat
  BY RowsAre DEF IInv, Sound, Typed
<1>2. old \in d.live /\ old \in Thread
  BY <1>1, SmallestIn, ConversationsAssumption DEF Typed
<1>3. messages' = Relinked(d.messages, old)
  OBVIOUS
<1>4. /\ messages' \in Seq(Message) /\ Linked(messages')
      /\ DOMAIN messages' = DOMAIN d.messages
      /\ Len(messages') = Len(d.messages)
      /\ \A i \in DOMAIN d.messages :
           /\ messages'[i].thread = d.messages[i].thread
           /\ messages'[i].role = d.messages[i].role
  BY <1>1, <1>2, <1>3, RelinkedIs
<1>5. own # {} => Max(own) \in own /\ Max(own) \in Nat
  <2> SUFFICES ASSUME own # {} PROVE Max(own) \in own /\ Max(own) \in Nat
    OBVIOUS
  <2>1. own \subseteq 0..Len(d.messages)
    BY <1>1
  <2> HIDE DEF own
  <2>2. Max(own) \in own
    BY <1>1, <2>1, NewestIn
  <2>3. \A x \in own : x \in Nat
    BY <1>1, <2>1
  <2> QED
    BY <2>2, <2>3, Zenon
<1>6. active' = IF own = {} THEN d.active ELSE [d.active EXCEPT ![old] = Max(own)]
  OBVIOUS
<1>7. live' = d.live /\ through' = d.through /\ summary' = d.summary /\ lost' = lost
  OBVIOUS
<1> HIDE DEF Restart, old
<1>8. Sound(Stored, lost)'
  <2>1. Typed(Stored)'
    <3>1. active' \in [Thread -> Nat]
      BY <1>1, <1>2, <1>5, <1>6 DEF Typed
    <3> QED
      BY <1>1, <1>4, <1>7, <3>1 DEF Typed, Stored
  <2>2. ASSUME NEW th \in d.live, active'[th] # None
        PROVE  Own(messages', active'[th], th)
    <3>1. th \in Thread
      BY <1>1 DEF Typed
    <3>2. CASE own # {} /\ th = old
      <4>1. active'[th] = Max(own)
        BY <1>1, <1>2, <1>6, <3>2 DEF Typed
      <4>2. Max(own) \in DOMAIN d.messages /\ d.messages[Max(own)].thread = th
        BY <1>5, <3>2
      <4> QED
        BY <1>4, <4>1, <4>2 DEF Own
    <3>3. CASE own = {} \/ th # old
      <4>1. active'[th] = d.active[th]
        BY <1>1, <1>6, <3>1, <3>3 DEF Typed
      <4>2. Own(d.messages, d.active[th], th)
        BY <1>1, <2>2, <4>1 DEF Leaves
      <4> QED
        BY <1>4, <4>1, <4>2 DEF Own
    <3> QED
      BY <3>2, <3>3
  <2>3. Leaves(Stored)'
    BY <1>7, <2>2 DEF Leaves, Stored
  <2>4. \A th : TalkIn(messages', th) = TalkIn(d.messages, th)
    BY <1>4 DEF TalkIn
  <2>5. Told(Stored, lost)'
    BY <1>1, <1>4, <1>7, <2>4 DEF Told, Stored
  <2> QED
    BY <1>4, <2>1, <2>3, <2>5 DEF Sound, Stored
<1>9. Sound(disk, lost)'
  BY <1>8, Committed DEF Restart
<1>10. Shape'
  BY ConversationsAssumption DEF Restart, Shape, IInv, STEPS, None
<1>11. \A t \in Turn : Holds(t)'
  BY DEF Restart, Holds
<1> QED
  BY <1>8, <1>9, <1>10, <1>11 DEF IInv

LEMMA StutterStep == IInv /\ UNCHANGED vars => IInv'
<1> SUFFICES ASSUME IInv, UNCHANGED vars PROVE IInv'
  OBVIOUS
<1>1. Stored' = Stored /\ disk' = disk /\ lost' = lost
  BY DEF vars, store, ghost, Stored
<1>2. Sound(Stored, lost)' /\ Sound(disk, lost)'
  BY <1>1 DEF IInv
<1>3. Shape'
  BY DEF IInv, Shape, vars, local, ghost
<1>4. \A t \in Turn : Holds(t)'
  BY DEF IInv, Holds, vars, store, local, ghost, Own, TalkIn
<1> QED
  BY <1>2, <1>3, <1>4 DEF IInv

LEMMA NextStep == IInv /\ [Next]_vars => IInv'
<1> SUFFICES ASSUME IInv, [Next]_vars PROVE IInv'
  OBVIOUS
<1>1. CASE \E t \in Turn : TurnStep(t)
  <2>1. PICK t \in Turn : TurnStep(t)
    BY <1>1
  <2>2. CASE UnknownThread(t) \/ NothingScrolled(t) \/ NothingDropped(t)
    BY <2>2, EndStep
  <2>3. CASE Insert(t)
    BY <2>3, InsertStep
  <2>4. CASE Link(t)
    BY <2>4, LinkStep
  <2>5. CASE Reply(t) \/ CallTool(t)
    BY <2>5, WriteStep
  <2>6. CASE GiveUp(t) \/ Measure(t)
    BY <2>6, QuietStep
  <2>7. CASE Gather(t)
    BY <2>7, GatherStep
  <2>8. CASE Fold(t)
    BY <2>8, FoldStep
  <2>9. CASE FoldFails(t)
    BY <2>9, FoldFailsStep
  <2> QED
    BY <2>1, <2>2, <2>3, <2>4, <2>5, <2>6, <2>7, <2>8, <2>9 DEF TurnStep
<1>2. CASE \E t \in Turn, th \in Thread :
             Ask(t, th) \/ Edit(t, th) \/ Regenerate(t, th) \/ Compress(t, th)
  BY <1>2, AskStep, EditStep, RegenerateStep, CompressStep
<1>3. CASE \E th \in Thread : DeleteMessages(th)
  BY <1>3, DeleteMessagesStep
<1>4. CASE Clear \/ DeleteThread
  BY <1>4, SweptStep
<1>5. CASE Restart
  BY <1>5, RestartStep
<1>6. CASE UNCHANGED vars
  BY <1>6, StutterStep
<1> QED
  BY <1>1, <1>2, <1>3, <1>4, <1>5, <1>6 DEF Next

-----------------------------------------------------------------------------
(* The tables, what is on disk and what every turn holds stay sound        *)
(* through any interleaving of turns, clearings, deletions and restarts.   *)
THEOREM Invariance == Spec => []IInv
<1>1. Init => IInv
  BY InitIInv
<1>2. IInv /\ [Next]_vars => IInv'
  BY NextStep
<1> QED
  BY <1>1, <1>2, PTL DEF Spec

(* No branch of one conversation leads into another (history, chat.py).    *)
THEOREM BranchesApart == Spec => []Ancestry
<1>1. IInv => Ancestry
  <2> SUFFICES ASSUME IInv PROVE Ancestry
    OBVIOUS
  <2>1. Ids = DOMAIN messages
    BY RowsAre DEF IInv, Sound, Typed, Stored, Ids
  <2>2. Linked(messages) /\ Leaves(Stored)
    BY DEF IInv, Sound, Stored
  <2> QED
    BY <2>1, <2>2 DEF Ancestry, Linked, Leaves, Own, Stored
<1> QED
  BY <1>1, Invariance, PTL

(* What is before through_id was handed to a fold, and is told of in the   *)
(* summary unless that fold failed or cut it off (compact, chat.py:1237;   *)
(* earlier, distil.py:193).                                                *)
THEOREM NothingSkipped == Spec => []Accounted
<1>1. IInv => Accounted
  <2> SUFFICES ASSUME IInv, NEW th \in live, NEW i \in Talk(Of(th)),
                      i <= through[th]
               PROVE  i \in summary[th] \cup lost[th]
    BY DEF Accounted
  <2>1. i \in TalkIn(messages, th)
    BY RowsAre DEF IInv, Sound, Typed, Stored, Talk, Of, Ids, TalkIn
  <2> QED
    BY <2>1 DEF IInv, Sound, Told, Stored
<1> QED
  BY <1>1, Invariance, PTL

-----------------------------------------------------------------------------
(* The rest of the types: the bounds of the model and its history.         *)
Bounded ==
  /\ Len(messages) <= MaxRows /\ Len(disk.messages) <= MaxRows
  /\ restarts \in 0..MaxRestarts
  /\ alone \in [Turn -> BOOLEAN] /\ clean \in [Thread -> BOOLEAN]

LEMMA EndBounded ==
  ASSUME IInv, Bounded, NEW t \in Turn, NEW folded \in BOOLEAN, End(t, folded)
  PROVE  alone' \in [Turn -> BOOLEAN] /\ clean' \in [Thread -> BOOLEAN]
<1>1. alone' = [alone EXCEPT ![t] = TRUE]
  BY DEF End
<1>2. clean' = [clean EXCEPT ![on[t]] = folded /\ alone[t]]
  BY DEF End
<1>3. alone[t] \in BOOLEAN /\ (folded /\ alone[t]) \in BOOLEAN
  BY DEF Bounded
<1> QED
  BY <1>1, <1>2, <1>3, Zenon DEF Bounded

LEMMA TurnBounded ==
  ASSUME IInv, Bounded, NEW t \in Turn, TurnStep(t)
  PROVE  Bounded'
<1>1. CASE UnknownThread(t) \/ NothingScrolled(t) \/ NothingDropped(t)
  <2>1. \/ End(t, TRUE)
        \/ End(t, FALSE)
    BY <1>1 DEF UnknownThread, NothingScrolled, NothingDropped
  <2>2. alone' \in [Turn -> BOOLEAN] /\ clean' \in [Thread -> BOOLEAN]
    BY <2>1, EndBounded
  <2>3. UNCHANGED <<messages, disk, restarts>>
    BY <1>1 DEF UnknownThread, NothingScrolled, NothingDropped, store
  <2> QED
    BY <2>2, <2>3 DEF Bounded
<1>2. CASE Fold(t) \/ FoldFails(t)
  <2>1. \/ End(t, TRUE)
        \/ End(t, FALSE)
    BY <1>2 DEF Fold, FoldFails
  <2>2. alone' \in [Turn -> BOOLEAN] /\ clean' \in [Thread -> BOOLEAN]
    BY <2>1, EndBounded
  <2>3. /\ UNCHANGED <<messages, restarts>>
        /\ UNCHANGED disk \/ Commit
    BY <1>2 DEF Fold, FoldFails, SetSummary, store
  <2> QED
    BY <2>2, <2>3 DEF Bounded, Commit, Stored
<1>3. CASE Insert(t)
  <2>1. messages \in Seq(Message)
    BY DEF IInv, Sound, Typed, Stored
  <2>2. Len(messages') <= MaxRows
    BY <1>3, <2>1, ConversationsAssumption DEF Insert
  <2> QED
    BY <1>3, <2>2 DEF Insert, Bounded, ghost
<1>4. CASE Link(t)
  BY <1>4 DEF Link, Bounded, Commit, Stored
<1>5. CASE Reply(t) \/ CallTool(t) \/ GiveUp(t) \/ Measure(t) \/ Gather(t)
  BY <1>5 DEF Reply, CallTool, Write, GiveUp, Measure, Gather, Bounded, store, ghost
<1> QED
  BY <1>1, <1>2, <1>3, <1>4, <1>5 DEF TurnStep

LEMMA EnterBounded ==
  ASSUME IInv, Bounded, NEW t \in Turn, NEW th \in Thread,
         Ask(t, th) \/ Edit(t, th) \/ Regenerate(t, th) \/ Compress(t, th)
  PROVE  Bounded'
<1>1. Enter(t, th)
  BY DEF Ask, Edit, Regenerate, Compress
<1>2. alone' \in [Turn -> BOOLEAN]
  <2>1. \A u \in Turn : alone[u] \in BOOLEAN
    BY DEF Bounded
  <2> QED
    BY <1>1, <2>1, Zenon DEF Enter
<1>3. clean' \in [Thread -> BOOLEAN]
  BY <1>1 DEF Enter, Bounded
<1>4. UNCHANGED <<messages, restarts>> /\ (UNCHANGED disk \/ Commit)
  BY <1>1 DEF Enter, Ask, Edit, Regenerate, Compress, store
<1> QED
  BY <1>2, <1>3, <1>4 DEF Bounded, Commit, Stored

LEMMA NextBounded == IInv /\ Bounded /\ [Next]_vars => Bounded'
<1> SUFFICES ASSUME IInv, Bounded, [Next]_vars PROVE Bounded'
  OBVIOUS
<1>1. CASE \E th \in Thread : DeleteMessages(th)
  <2>1. PICK th \in Thread : DeleteMessages(th)
    BY <1>1
  <2>2. messages \in Seq(Message)
    BY DEF IInv, Sound, Typed, Stored
  <2>3. Len(messages') = Len(messages)
    BY <2>1, <2>2, RowsAre DEF DeleteMessages, Ids
  <2> QED
    BY <2>1, <2>3 DEF DeleteMessages, Bounded, ghost
<1>2. CASE Clear \/ DeleteThread
  BY <1>2 DEF Clear, DeleteThread, Bounded, Commit, Stored, ghost
<1>3. CASE Restart
  <2>1. /\ disk.messages \in Seq(Message) /\ Linked(disk.messages)
        /\ Min(disk.live) \in Thread
    BY SmallestIn, ConversationsAssumption DEF IInv, Sound, Typed
  <2>2. Len(messages') = Len(disk.messages)
    BY <1>3, <2>1, RelinkedIs DEF Restart
  <2>3. restarts' \in 0..MaxRestarts
    BY <1>3, ConversationsAssumption DEF Restart, Bounded
  <2> QED
    BY <1>3, <2>2, <2>3 DEF Restart, Bounded, Commit, Stored
<1>4. CASE UNCHANGED vars
  BY <1>4 DEF vars, store, ghost, Bounded
<1> QED
  BY <1>1, <1>2, <1>3, <1>4, TurnBounded, EnterBounded DEF Next

(* Every variable keeps its type.                                          *)
THEOREM WellTyped == Spec => []TypeOK
<1>1. Init => Bounded
  BY ConversationsAssumption DEF Init, Bounded, Stored
<1>2. IInv /\ Bounded => TypeOK
  BY DEF IInv, Bounded, Shape, Sound, Typed, Stored, TypeOK
<1> QED
  BY <1>1, <1>2, NextBounded, Invariance, PTL DEF Spec


-----------------------------------------------------------------------------
(* The branch that ends in a row, as a table over any rows: a parent is    *)
(* older than its child, so there is such a table.                         *)
Walk(m, f, n) ==
  f = [i \in 0..n |-> IF i \in 1..Len(m) /\ m[i].thread # None
                      THEN {i} \cup f[m[i].parent] ELSE {}]

ChainOf(m) == CHOOSE f : Walk(m, f, Len(m))

LEMMA ChainIs == Chain = ChainOf(messages) /\ Chain' = ChainOf(messages')
<1>1. Chain = ChainOf(messages)
  BY Zenon DEF Chain, ChainOf, Walk, Ids
<1>2. Chain' = ChainOf(messages')
  BY Zenon DEF Chain, ChainOf, Walk, Ids
<1> QED
  BY <1>1, <1>2

LEMMA WalkExists ==
  ASSUME NEW m \in Seq(Message), Linked(m), NEW n \in 0..Len(m)
  PROVE  \E f : Walk(m, f, n)
<1> DEFINE Bad == {k \in Nat : k <= Len(m) /\ ~ \E f : Walk(m, f, k)}
<1> SUFFICES ASSUME Bad # {} PROVE FALSE
  BY RowsAre
<1>1. PICK b \in Bad : \A k \in Bad : b <= k
  BY SmallestIn
<1>2. CASE b = 0
  <2> DEFINE f == [i \in 0..0 |-> {}]
  <2>1. Walk(m, f, 0)
    BY RowsAre DEF Walk
  <2> QED
    BY <1>1, <1>2, <2>1
<1>3. CASE b # 0
  <2>1. /\ b - 1 \in 0..Len(m) /\ b - 1 \notin Bad
        /\ b \in 1..Len(m) /\ Len(m) \in Nat
    <3>1. b \in Nat /\ b <= Len(m) /\ Len(m) \in Nat
      BY <1>1, RowsAre
    <3>2. b - 1 \in Nat /\ ~ (b <= b - 1)
      BY <1>3, <3>1
    <3> QED
      BY <1>1, <1>3, <3>1, <3>2
  <2>2. PICK f : Walk(m, f, b - 1)
    BY <2>1
  <2> DEFINE Own1(i, h) == IF i \in 1..Len(m) /\ m[i].thread # None
                           THEN {i} \cup h[m[i].parent] ELSE {}
  <2> DEFINE g == [i \in 0..b |-> Own1(i, f)]
  <2>3. \A i \in 0..(b - 1) : f[i] = Own1(i, f)
    BY <2>2 DEF Walk
  <2>4. \A i \in 0..(b - 1) : g[i] = f[i]
    <3>1. \A i \in 0..(b - 1) : i \in 0..b
      BY <2>1
    <3>2. \A i \in 0..b : g[i] = Own1(i, f)
      OBVIOUS
    <3> QED
      BY <2>3, <3>1, <3>2
  <2>5. ASSUME NEW i \in 0..b PROVE g[i] = Own1(i, g)
    <3>1. CASE i \in 1..Len(m)
      <4>1. m[i].parent < i /\ m[i].parent \in Nat
        BY <3>1, RowsAre DEF Linked
      <4>2. m[i].parent \in 0..(b - 1)
        BY <2>1, <4>1
      <4>3. g[m[i].parent] = f[m[i].parent]
        BY <2>4, <4>2
      <4> QED
        BY <4>3
    <3>2. CASE i \notin 1..Len(m)
      BY <3>2
    <3> QED
      BY <3>1, <3>2
  <2> HIDE DEF g
  <2>6. g = [i \in 0..b |-> Own1(i, g)]
    <3>1. g = [i \in 0..b |-> Own1(i, f)]
      BY DEF g
    <3> QED
      BY <2>5, <3>1, Zenon
  <2>7. Walk(m, g, b)
    BY <2>6 DEF Walk
  <2> QED
    BY <1>1, <2>7
<1> QED
  BY <1>2, <1>3

LEMMA ChainAt ==
  ASSUME NEW m \in Seq(Message), Linked(m)
  PROVE  /\ ChainOf(m)[0] = {}
         /\ \A i \in 1..Len(m) :
              ChainOf(m)[i] = IF m[i].thread # None
                              THEN {i} \cup ChainOf(m)[m[i].parent] ELSE {}
<1>1. Len(m) \in Nat
  BY RowsAre
<1>2. \E f : Walk(m, f, Len(m))
  BY <1>1, WalkExists
<1>3. Walk(m, ChainOf(m), Len(m))
  BY <1>2 DEF ChainOf
<1>4. \A i \in 0..Len(m) :
        ChainOf(m)[i] = IF i \in 1..Len(m) /\ m[i].thread # None
                        THEN {i} \cup ChainOf(m)[m[i].parent] ELSE {}
  BY <1>3 DEF Walk
<1>5. 0 \in 0..Len(m) /\ 0 \notin 1..Len(m) /\ 1..Len(m) \subseteq 0..Len(m)
  BY <1>1
<1>6. ChainOf(m)[0] = {}
  BY <1>4, <1>5
<1>7. \A i \in 1..Len(m) :
        ChainOf(m)[i] = IF m[i].thread # None
                        THEN {i} \cup ChainOf(m)[m[i].parent] ELSE {}
  BY <1>4, <1>5
<1> QED
  BY <1>6, <1>7

(* A branch of one conversation has no row of another.                     *)
LEMMA ChainStays ==
  ASSUME NEW m \in Seq(Message), Linked(m), NEW th \in Thread,
         NEW i \in 1..Len(m), m[i].thread = th
  PROVE  \A j \in ChainOf(m)[i] : j \in 1..Len(m) /\ m[j].thread = th
<1> DEFINE Bad == {k \in Nat : /\ k \in 1..Len(m) /\ m[k].thread = th
                               /\ \E j \in ChainOf(m)[k] :
                                    ~ (j \in 1..Len(m) /\ m[j].thread = th)}
<1> SUFFICES ASSUME Bad # {} PROVE FALSE
  BY RowsAre
<1>1. PICK b \in Bad : \A k \in Bad : b <= k
  BY SmallestIn
<1> DEFINE p == m[b].parent
<1>2. /\ p \in Nat /\ p < b /\ th # None
      /\ m[b].thread # None /\ p # None => m[p].thread \in {th, None}
  BY <1>1, RowsAre, ConversationsAssumption DEF Linked, None
<1>3. ChainOf(m)[b] = {b} \cup ChainOf(m)[p]
  BY <1>1, <1>2, ChainAt
<1>4. CASE p = 0
  BY <1>1, <1>3, <1>4, ChainAt
<1>5. CASE p # 0
  <2>1. p \in 1..Len(m) /\ m[p].thread \in {th, None}
    BY <1>1, <1>2, <1>5 DEF None
  <2>2. CASE m[p].thread = None
    BY <1>1, <1>3, <2>1, <2>2, ChainAt
  <2>3. CASE m[p].thread = th
    <3>1. p \notin Bad
      BY <1>1, <1>2
    <3> QED
      BY <1>1, <1>3, <2>1, <2>3, <3>1
  <2> QED
    BY <2>1, <2>2, <2>3
<1> QED
  BY <1>2, <1>4, <1>5

(* It is the same branch in rows that have kept its threads and parents.   *)
LEMMA SameChain ==
  ASSUME NEW m \in Seq(Message), Linked(m),
         NEW n \in Seq(Message), Linked(n), Len(m) <= Len(n),
         NEW th \in Thread,
         \A k \in 1..Len(m) :
           /\ m[k].thread = th =>
                n[k].thread = th /\ n[k].parent = m[k].parent
           /\ m[k].thread = None => n[k].thread = None,
         NEW i \in 1..Len(m), m[i].thread = th
  PROVE  ChainOf(n)[i] = ChainOf(m)[i]
<1> DEFINE Bad == {k \in Nat : /\ k \in 1..Len(m) /\ m[k].thread = th
                               /\ ChainOf(n)[k] # ChainOf(m)[k]}
<1> SUFFICES ASSUME Bad # {} PROVE FALSE
  BY RowsAre
<1>1. PICK b \in Bad : \A k \in Bad : b <= k
  BY SmallestIn
<1> DEFINE p == m[b].parent
<1>2. /\ p \in Nat /\ p < b /\ th # None
      /\ m[b].thread # None /\ p # None => m[p].thread \in {th, None}
      /\ Len(n) \in Nat /\ Len(m) \in Nat
  BY <1>1, RowsAre, ConversationsAssumption DEF Linked, None
<1>3. b \in 1..Len(n) /\ n[b].thread = th /\ n[b].parent = p
  BY <1>1, <1>2
<1>4. /\ ChainOf(m)[b] = {b} \cup ChainOf(m)[p]
      /\ ChainOf(n)[b] = {b} \cup ChainOf(n)[p]
  <2>1. ChainOf(m)[b] = {b} \cup ChainOf(m)[p]
    BY <1>1, <1>2, ChainAt
  <2>2. ChainOf(n)[b] = {b} \cup ChainOf(n)[n[b].parent]
    BY <1>2, <1>3, ChainAt
  <2> QED
    BY <1>3, <2>1, <2>2
<1>5. CASE p = 0
  BY <1>1, <1>4, <1>5, ChainAt
<1>6. CASE p # 0
  <2>1. p \in 1..Len(m) /\ p \in 1..Len(n) /\ m[p].thread \in {th, None}
    BY <1>1, <1>2, <1>6 DEF None
  <2>2. CASE m[p].thread = None
    <3>1. ChainOf(m)[p] = {}
      BY <2>1, <2>2, ChainAt
    <3>2. n[p].thread = None
      BY <2>1, <2>2
    <3>3. ChainOf(n)[p] = {}
      BY <2>1, <3>2, ChainAt
    <3> QED
      BY <1>1, <1>4, <3>1, <3>3
  <2>3. CASE m[p].thread = th
    <3>1. p \notin Bad
      BY <1>1, <1>2
    <3>2. ChainOf(n)[p] = ChainOf(m)[p]
      BY <1>2, <2>1, <2>3, <3>1
    <3> QED
      BY <1>1, <1>4, <3>2
  <2> QED
    BY <2>1, <2>2, <2>3
<1> QED
  BY <1>2, <1>5, <1>6


(* What is on screen, for any rows and leaves.                             *)
RowsOf(m, th) == {i \in 1..Len(m) : m[i].thread = th}
Screen(m, a, th) == IF a[th] \in RowsOf(m, th) THEN ChainOf(m)[a[th]] ELSE {}

LEMMA HistoryIs ==
  ASSUME NEW th \in Thread
  PROVE  /\ History(th) = Screen(messages, active, th)
         /\ History(th)' = Screen(messages', active', th)
<1>1. History(th) = Screen(messages, active, th)
  BY ChainIs DEF History, Of, Ids, Screen, RowsOf
<1>2. History(th)' = Screen(messages', active', th)
  BY ChainIs DEF History, Of, Ids, Screen, RowsOf
<1> QED
  BY <1>1, <1>2

LEMMA OnScreen ==
  ASSUME IInv, NEW th \in Thread
  PROVE  History(th) \subseteq Of(th)
<1>1. messages \in Seq(Message) /\ Linked(messages)
  BY DEF IInv, Sound, Typed, Stored
<1>2. \A i \in RowsOf(messages, th) : \A j \in ChainOf(messages)[i] :
        j \in 1..Len(messages) /\ messages[j].thread = th
  BY <1>1, ChainStays DEF RowsOf
<1> QED
  BY <1>2, HistoryIs DEF Screen, Of, Ids

(* The screen has the same rows after a step, in the same roles, or none.  *)
LessShown(th) ==
  \/ History(th)' = {}
  \/ /\ History(th)' = History(th)
     /\ \A i \in History(th) :
          i \in Ids /\ i \in Ids' /\ messages'[i].role = messages[i].role

LEMMA Shrinks ==
  ASSUME NEW th \in Thread, LessShown(th)
  PROVE  /\ Scrolled(th)' => Scrolled(th)
         /\ \A i \in Talk(History(th))' : i \in Talk(History(th))
         /\ \A u \in Users(Recent(th))' :
              /\ u \in Users(Recent(th))
              /\ StartsWindow(th, u)' => StartsWindow(th, u)
<1>1. CASE History(th)' = {}
  <2>1. Users(Recent(th))' = {} /\ Talk(History(th))' = {}
    BY <1>1 DEF Recent, Newest, Users, Talk
  <2>2. Cardinality({}) = 0
    BY FS_EmptySet
  <2>3. ~ Scrolled(th)'
    BY <2>1, <2>2, ConversationsAssumption DEF Scrolled
  <2> QED
    BY <2>1, <2>3
<1>2. CASE /\ History(th)' = History(th)
           /\ \A i \in History(th) :
                i \in Ids /\ i \in Ids' /\ messages'[i].role = messages[i].role
  <2>0. Recent(th)' = Recent(th) /\ Recent(th) \subseteq History(th)
    BY <1>2 DEF Recent, Newest
  <2>1. Users(Recent(th))' = Users(Recent(th))
    BY <1>2, <2>0 DEF Users
  <2>2. Talk(History(th))' = Talk(History(th))
    BY <1>2 DEF Talk
  <2>3. Scrolled(th)' <=> Scrolled(th)
    BY <2>1 DEF Scrolled
  <2>4. \A u : StartsWindow(th, u)' <=> StartsWindow(th, u)
    BY <2>1 DEF StartsWindow
  <2> QED
    BY <2>1, <2>2, <2>3, <2>4
<1> QED
  BY <1>1, <1>2 DEF LessShown

(* A step that leaves the leaf and the rows of a conversation alone leaves *)
(* its screen alone.                                                       *)
LEMMA ScreenStays ==
  ASSUME IInv, IInv', NEW th \in live, active'[th] = active[th],
         Len(messages) <= Len(messages'),
         \A k \in 1..Len(messages) :
           /\ messages[k].thread = th =>
                /\ messages'[k].thread = th
                /\ messages'[k].parent = messages[k].parent
                /\ messages'[k].role = messages[k].role
           /\ messages[k].thread = None => messages'[k].thread = None
  PROVE  LessShown(th)
<1> DEFINE a == active[th]
<1>1. /\ messages \in Seq(Message) /\ Linked(messages) /\ th \in Thread
      /\ DOMAIN messages = 1..Len(messages) /\ Len(messages) \in Nat
      /\ th # None
  BY RowsAre, ConversationsAssumption DEF IInv, Sound, Typed, Stored, None
<1>2. /\ messages' \in Seq(Message) /\ Linked(messages')
      /\ Len(messages') \in Nat
  BY RowsAre DEF IInv, Sound, Typed, Stored
<1>3. 1..Len(messages) \subseteq 1..Len(messages')
  BY <1>1, <1>2
<1>4. a # None => a \in 1..Len(messages) /\ messages[a].thread \in {th, None}
  BY <1>1 DEF IInv, Sound, Leaves, Own, Stored
<1>5. 0 \notin 1..Len(messages) /\ 0 \notin 1..Len(messages')
  OBVIOUS
<1>6. CASE a \in RowsOf(messages, th)
  <2>1. a \in 1..Len(messages) /\ messages[a].thread = th
    BY <1>6 DEF RowsOf
  <2>2. ChainOf(messages')[a] = ChainOf(messages)[a]
    BY <1>1, <1>2, <2>1, SameChain
  <2>3. a \in RowsOf(messages', th)
    BY <1>3, <2>1 DEF RowsOf
  <2>4. History(th)' = History(th)
    BY <1>1, <1>6, <2>2, <2>3, HistoryIs DEF Screen
  <2>5. \A i \in History(th) : i \in 1..Len(messages) /\ messages[i].thread = th
    BY <1>1, OnScreen DEF Of, Ids
  <2> QED
    BY <1>3, <2>4, <2>5 DEF LessShown, Ids
<1>7. CASE a \notin RowsOf(messages, th)
  <2>1. a \notin RowsOf(messages', th)
    BY <1>1, <1>4, <1>5, <1>7 DEF RowsOf, None
  <2> QED
    BY <1>1, <2>1, HistoryIs DEF Screen, LessShown
<1> QED
  BY <1>6, <1>7

(* Only a turn of its own adds to what a conversation shows: by making its *)
(* row the leaf, or by going back to a question.                           *)
LEMMA OthersShowNothing ==
  ASSUME IInv, IInv', Next, ~ Restart, NEW th \in live
  PROVE  \/ LessShown(th)
         \/ \E t \in Turn : Link(t) /\ on[t] = th
         \/ \E t \in Turn : Regenerate(t, th)
<1>1. /\ messages \in Seq(Message) /\ DOMAIN messages = 1..Len(messages)
      /\ Len(messages) \in Nat /\ active \in [Thread -> Nat] /\ th \in Thread
      /\ th # None
  BY RowsAre, ConversationsAssumption DEF IInv, Sound, Typed, Stored, None
<1>2. CASE messages' = messages /\ active'[th] = active[th]
  BY <1>1, <1>2, ScreenStays
<1>3. CASE \E t \in Turn : Insert(t)
  <2>1. PICK t \in Turn : Insert(t)
    BY <1>3
  <2>2. /\ Len(messages') = Len(messages) + 1
        /\ \A k \in 1..Len(messages) : messages'[k] = messages[k]
        /\ active' = active
    BY <1>1, <2>1 DEF Insert
  <2>3. Len(messages) <= Len(messages')
    BY <1>1, <2>2
  <2> QED
    BY <2>2, <2>3, ScreenStays
<1>4. CASE \E t \in Turn : Link(t)
  <2>1. PICK t \in Turn : Link(t)
    BY <1>4
  <2>2. messages' = messages /\ (on[t] # th => active'[th] = active[th])
    BY <1>1, <2>1 DEF Link
  <2> QED
    BY <1>2, <2>1, <2>2
<1>5. CASE \E t \in Turn, h \in Thread : Regenerate(t, h)
  <2>1. PICK t \in Turn, h \in Thread : Regenerate(t, h)
    BY <1>5
  <2>2. messages' = messages /\ (h # th => active'[th] = active[th])
    BY <1>1, <2>1 DEF Regenerate
  <2> QED
    BY <1>2, <2>1, <2>2
<1>6. CASE \E h \in Thread : DeleteMessages(h)
  <2>1. PICK h \in Thread : DeleteMessages(h)
    BY <1>6
  <2>2. /\ active' = active /\ Len(messages') = Len(messages)
        /\ \A k \in 1..Len(messages) :
             messages'[k] = IF k \in Of(h)
                            THEN [messages[k] EXCEPT !.thread = None]
                            ELSE messages[k]
    BY <1>1, <2>1 DEF DeleteMessages, Ids
  <2>3. \A k \in 1..Len(messages) : k \in Of(h) <=> messages[k].thread = h
    BY DEF Of, Ids
  <2>4. \A k \in 1..Len(messages) : messages[k] \in Message
    BY <1>1, RowsAre
  <2>5. CASE h # th
    <3>1. ASSUME NEW k \in 1..Len(messages)
          PROVE  /\ messages[k].thread = th => messages'[k] = messages[k]
                 /\ messages[k].thread = None => messages'[k].thread = None
      BY <2>2, <2>3, <2>4, <2>5 DEF Message
    <3>2. Len(messages) <= Len(messages')
      BY <1>1, <2>2
    <3> QED
      BY <2>2, <3>1, <3>2, ScreenStays
  <2>6. CASE h = th
    <3>1. ASSUME NEW k \in 1..Len(messages')
          PROVE  messages'[k].thread # th
      BY <1>1, <2>2, <2>3, <2>4, <2>6 DEF Message
    <3>2. RowsOf(messages', th) = {}
      BY <3>1 DEF RowsOf
    <3> QED
      BY <1>1, <3>2, HistoryIs DEF Screen, LessShown
  <2> QED
    BY <2>5, <2>6
<1>7. CASE Clear
  <2>1. CASE sweeping = th
    <3>1. active'[th] = 0
      BY <1>1, <1>7, <2>1 DEF Clear, None
    <3>2. active'[th] \notin RowsOf(messages', th)
      BY <3>1 DEF RowsOf
    <3> QED
      BY <1>1, <3>2, HistoryIs DEF Screen, LessShown
  <2>2. CASE sweeping # th
    BY <1>1, <1>2, <1>7, <2>2 DEF Clear
  <2> QED
    BY <2>1, <2>2
<1>8. CASE DeleteThread
  BY <1>2, <1>8 DEF DeleteThread
<1>9. CASE \E t \in Turn, h \in Thread : Ask(t, h) \/ Edit(t, h) \/ Compress(t, h)
  BY <1>2, <1>9 DEF Ask, Edit, Compress, store
<1>10. CASE \E t \in Turn : UnknownThread(t) \/ Reply(t) \/ CallTool(t) \/ GiveUp(t)
  BY <1>2, <1>10 DEF UnknownThread, Reply, CallTool, Write, GiveUp, store
<1>11. CASE \E t \in Turn : NothingScrolled(t) \/ Measure(t) \/ NothingDropped(t)
  BY <1>2, <1>11 DEF NothingScrolled, Measure, NothingDropped, store
<1>12. CASE \E t \in Turn : Gather(t) \/ Fold(t) \/ FoldFails(t)
  BY <1>2, <1>12 DEF Gather, Fold, FoldFails, SetSummary, store
<1> QED
  BY <1>3, <1>4, <1>5, <1>6, <1>7, <1>8, <1>9, <1>10, <1>11, <1>12
  DEF Next, TurnStep


-----------------------------------------------------------------------------
(* The window.  A turn that is alone measures it, gathers what is before   *)
(* it and folds that; as nobody else adds to the screen meanwhile, what it *)
(* holds stays enough.                                                     *)
Begins(th, k) ==
  \A u \in Users(Recent(th)) : StartsWindow(th, u) => u <= k

Covers(th, rows) ==
  \A u \in Users(Recent(th)), i \in Talk(History(th)) :
    StartsWindow(th, u) /\ i < u => i \in rows

Apart ==
  /\ \A t \in Turn, u \in Turn :
       alone[t] /\ on[t] # None /\ on[u] = on[t] => u = t
  /\ \A th \in Thread, t \in Turn : clean[th] => on[t] # th

FoldedAt(th) ==
  clean[th] /\ Scrolled(th) => Covers(th, summary[th] \cup lost[th])

Ready(t) ==
  alone[t] /\ on[t] \in live =>
    /\ pc[t] = "gather" => Begins(on[t], kept[t])
    /\ pc[t] = "distil" => Covers(on[t], told[t] \cup drop[t] \cup lost[on[t]])

FInv ==
  /\ Apart
  /\ \A th \in live : FoldedAt(th)
  /\ \A t \in Turn : Ready(t)

(* A window of so many questions begins at one question only.              *)
LEMMA OneBeginning ==
  ASSUME IInv, NEW th \in Thread,
         NEW u \in Users(Recent(th)), NEW v \in Users(Recent(th)),
         StartsWindow(th, u), StartsWindow(th, v)
  PROVE  u = v
<1> DEFINE From(x) == {w \in Users(Recent(th)) : w >= x}
<1>1. Users(Recent(th)) \subseteq 1..Len(messages) /\ Len(messages) \in Nat
  BY RowsAre DEF Users, Ids, IInv, Sound, Typed, Stored
<1>2. \A x : IsFiniteSet(From(x)) /\ Cardinality(From(x)) \in Nat
  <2> SUFFICES ASSUME NEW x
               PROVE  IsFiniteSet(From(x)) /\ Cardinality(From(x)) \in Nat
    OBVIOUS
  <2>1. From(x) \in SUBSET (1..Len(messages)) /\ IsFiniteSet(1..Len(messages))
    BY <1>1, FS_Interval
  <2>2. IsFiniteSet(From(x))
    BY <2>1, FS_Subset
  <2> QED
    BY <2>2, FS_CardinalityType
<1>3. Cardinality(From(u)) = Cardinality(From(v))
  BY DEF StartsWindow
<1>4. ASSUME NEW x \in Users(Recent(th)), NEW y \in Users(Recent(th)), x < y,
             Cardinality(From(x)) = Cardinality(From(y))
      PROVE  FALSE
  <2>1. x \in Nat /\ y \in Nat
    BY <1>1
  <2>2. From(y) \in SUBSET From(x)
    BY <1>1, <1>4, <2>1
  <2>3. From(x) = From(y)
    BY <1>2, <1>4, <2>2, FS_Subset
  <2>4. x \in From(x) /\ x \notin From(y)
    BY <1>4, <2>1
  <2> QED
    BY <2>3, <2>4
<1>5. u \in Nat /\ v \in Nat
  BY <1>1
<1>6. ~ (u < v) /\ ~ (v < u)
  BY <1>3, <1>4
<1> QED
  BY <1>5, <1>6

(* What was folded, and what a turn holds, is enough for what is left.     *)
LEMMA StillFolded ==
  ASSUME NEW th \in Thread, LessShown(th), FoldedAt(th), clean[th],
         summary'[th] = summary[th], lost[th] \subseteq lost'[th]
  PROVE  FoldedAt(th)'
  BY Shrinks DEF FoldedAt, Covers

LEMMA StillReady ==
  ASSUME IInv, NEW t \in Turn, Ready(t), alone'[t] => alone[t],
         live' \subseteq live,
         alone'[t] /\ on'[t] \in live' => LessShown(on[t]),
         pc'[t] = pc[t], on'[t] = on[t], kept'[t] = kept[t],
         told'[t] = told[t], drop'[t] = drop[t],
         \A th \in Thread : lost[th] \subseteq lost'[th]
  PROVE  Ready(t)'
<1> SUFFICES ASSUME alone'[t], on'[t] \in live'
             PROVE  /\ pc'[t] = "gather" => Begins(on[t], kept[t])'
                    /\ pc'[t] = "distil" =>
                         Covers(on[t], told[t] \cup drop[t] \cup lost[on[t]])'
  BY DEF Ready
<1> DEFINE th == on[t]
<1>1. /\ alone[t] /\ th \in live /\ th \in Thread /\ LessShown(th)
      /\ lost[th] \subseteq lost'[th]
  BY DEF IInv, Sound, Typed, Stored
<1>2. /\ \A i \in Talk(History(th))' : i \in Talk(History(th))
      /\ \A u \in Users(Recent(th))' :
           u \in Users(Recent(th)) /\ (StartsWindow(th, u)' => StartsWindow(th, u))
  BY <1>1, Shrinks
<1> QED
  BY <1>1, <1>2 DEF Ready, Begins, Covers

-----------------------------------------------------------------------------
(* Who is where: turns come by Enter and go by End.                        *)
LEMMA ComeAndGo ==
  ASSUME Next
  PROVE  \/ \E t \in Turn, th \in Thread : Enter(t, th)
         \/ \E t \in Turn : End(t, TRUE) \/ End(t, FALSE)
         \/ Restart
         \/ UNCHANGED <<on, alone, clean>>
<1>1. CASE \E t \in Turn, th \in Thread :
             Ask(t, th) \/ Edit(t, th) \/ Regenerate(t, th) \/ Compress(t, th)
  BY <1>1 DEF Ask, Edit, Regenerate, Compress
<1>2. CASE \E t \in Turn : UnknownThread(t) \/ NothingScrolled(t)
                           \/ NothingDropped(t) \/ Fold(t) \/ FoldFails(t)
  BY <1>2 DEF UnknownThread, NothingScrolled, NothingDropped, Fold, FoldFails
<1>3. CASE \E t \in Turn : Insert(t) \/ Link(t) \/ Reply(t) \/ CallTool(t)
                           \/ GiveUp(t) \/ Measure(t) \/ Gather(t)
  BY <1>3 DEF Insert, Link, Reply, CallTool, Write, GiveUp, Measure, Gather, ghost
<1>4. CASE (\E th \in Thread : DeleteMessages(th)) \/ Clear \/ DeleteThread
  BY <1>4 DEF DeleteMessages, Clear, DeleteThread, ghost
<1> QED
  BY <1>1, <1>2, <1>3, <1>4 DEF Next, TurnStep

LEMMA ApartStep ==
  ASSUME IInv, Bounded, Apart, Next
  PROVE  Apart'
<1>1. CASE \E t \in Turn, th \in Thread : Enter(t, th)
  <2>1. PICK t \in Turn, th \in Thread : Enter(t, th)
    BY <1>1
  <2>2. /\ on'[t] = th /\ ~ clean'[th]
        /\ \A u \in Turn \ {t} : on'[u] = on[u]
        /\ \A h \in Thread \ {th} : clean'[h] = clean[h]
    BY <2>1 DEF Enter, IInv, Shape, Bounded
  <2>3. /\ alone'[t] => \A v \in Turn : on[v] # th
        /\ \A u \in Turn \ {t} : alone'[u] => alone[u] /\ on[u] # th
    BY <2>1 DEF Enter
  <2> QED
    BY <2>2, <2>3 DEF Apart
<1>2. CASE \E t \in Turn : End(t, TRUE) \/ End(t, FALSE)
  <2>1. PICK t \in Turn : End(t, TRUE) \/ End(t, FALSE)
    BY <1>2
  <2>2. /\ on'[t] = None
        /\ \A u \in Turn \ {t} : on'[u] = on[u] /\ alone'[u] = alone[u]
        /\ \A h \in Thread : clean'[h] => clean[h] \/ (h = on[t] /\ alone[t])
    <3>1. on'[t] = None /\ \A u \in Turn \ {t} : on'[u] = on[u]
      BY <2>1 DEF End, IInv, Shape
    <3>2. \A u \in Turn \ {t} : alone'[u] = alone[u]
      BY <2>1 DEF End, Bounded
    <3>3. \A h \in Thread : clean'[h] => clean[h] \/ (h = on[t] /\ alone[t])
      BY <2>1, Zenon DEF End, Bounded
    <3> QED
      BY <3>1, <3>2, <3>3
  <2>3. \A h \in Thread : h # None
    BY ConversationsAssumption DEF None
  <2> QED
    BY <2>2, <2>3 DEF Apart
<1>3. CASE Restart
  <2>1. (\A t \in Turn : on'[t] = None) /\ (\A th \in Thread : ~ clean'[th])
    BY <1>3 DEF Restart
  <2> QED
    BY <2>1 DEF Apart
<1>4. CASE UNCHANGED <<on, alone, clean>>
  BY <1>4 DEF Apart
<1> QED
  BY <1>1, <1>2, <1>3, <1>4, ComeAndGo


-----------------------------------------------------------------------------
(* What no step does to a conversation without a turn of its own.          *)
LEMMA Keeps ==
  ASSUME Next, ~ Restart, IInv
  PROVE  /\ live' \subseteq live
         /\ \A th \in Thread : lost[th] \subseteq lost'[th]
         /\ \A th \in Thread :
              summary'[th] = summary[th] \/ \E t \in Turn : on[t] = th
<1>0. lost \in [Thread -> SUBSET Nat] /\ summary \in [Thread -> SUBSET Nat]
  BY DEF IInv, Shape, Sound, Typed, Stored
<1>1. CASE \E t \in Turn, th \in Thread :
             Ask(t, th) \/ Edit(t, th) \/ Regenerate(t, th) \/ Compress(t, th)
  BY <1>1 DEF Enter, Ask, Edit, Regenerate, Compress, store
<1>2. CASE \E t \in Turn : UnknownThread(t) \/ NothingScrolled(t) \/ NothingDropped(t)
  BY <1>2 DEF UnknownThread, NothingScrolled, NothingDropped, store
<1>3. CASE \E t \in Turn : Insert(t) \/ Link(t) \/ Reply(t) \/ CallTool(t)
                           \/ GiveUp(t) \/ Measure(t) \/ Gather(t)
  BY <1>3 DEF Insert, Link, Reply, CallTool, Write, GiveUp, Measure, Gather,
              ghost, store
<1>4. CASE \E t \in Turn : Fold(t)
  <2>1. PICK t \in Turn : Fold(t)
    BY <1>4
  <2>2. /\ live' = live /\ \A th \in Thread : lost[th] \subseteq lost'[th]
    BY <1>0, <2>1 DEF Fold, SetSummary
  <2>3. \A th \in Thread : summary'[th] = summary[th] \/ on[t] = th
    BY <1>0, <2>1 DEF Fold, SetSummary
  <2> QED
    BY <2>2, <2>3
<1>5. CASE \E t \in Turn : FoldFails(t)
  <2>1. PICK t \in Turn : FoldFails(t)
    BY <1>5
  <2>2. live' = live
    BY <2>1 DEF FoldFails, SetSummary, store
  <2>3. \A th \in Thread : lost[th] \subseteq lost'[th]
    BY <1>0, <2>1 DEF FoldFails
  <2>4. \A th \in Thread : summary'[th] = summary[th] \/ on[t] = th
    BY <1>0, <2>1 DEF FoldFails, SetSummary, store
  <2> QED
    BY <2>2, <2>3, <2>4
<1>6. CASE (\E th \in Thread : DeleteMessages(th)) \/ Clear \/ DeleteThread
  BY <1>6 DEF DeleteMessages, Clear, DeleteThread, ghost
<1> QED
  BY <1>1, <1>2, <1>3, <1>4, <1>5, <1>6 DEF Next, TurnStep

LEMMA SameScreen ==
  ASSUME IInv, IInv', NEW th \in live, UNCHANGED <<messages, active>>
  PROVE  LessShown(th)
<1>1. Len(messages) \in Nat
  BY RowsAre DEF IInv, Sound, Typed, Stored
<1> QED
  BY <1>1, ScreenStays

(* What is gathered, with the summary so far, covers what the branch has   *)
(* before the window.                                                      *)
LEMMA Gathered ==
  ASSUME IInv, NEW t \in Turn, Ready(t), alone[t], on[t] \in live, pc[t] = "gather"
  PROVE  Covers(on[t], summary[on[t]] \cup Dropped(t) \cup lost[on[t]])
<1> DEFINE th == on[t]
<1> SUFFICES ASSUME NEW u \in Users(Recent(th)), NEW i \in Talk(History(th)),
                    StartsWindow(th, u), i < u
             PROVE  i \in summary[th] \cup Dropped(t) \cup lost[th]
  BY DEF Covers
<1>1. /\ th \in Thread /\ messages \in Seq(Message) /\ Len(messages) \in Nat
      /\ DOMAIN messages = 1..Len(messages)
      /\ through[th] \in Nat /\ kept[t] \in Nat
  BY RowsAre DEF IInv, Shape, Sound, Typed, Stored
<1>2. u <= kept[t]
  BY DEF Ready, Begins
<1>3. /\ i \in Of(th) /\ i \in Talk(Of(th))
      /\ i \in 1..Len(messages) /\ u \in 1..Len(messages)
  BY <1>1, OnScreen DEF Talk, Of, Ids, Users
<1>4. i < kept[t]
  BY <1>1, <1>2, <1>3
<1>5. CASE through[th] < i
  BY <1>3, <1>4, <1>5 DEF Dropped, DroppedRows
<1>6. CASE i <= through[th]
  <2>1. i \in TalkIn(messages, th)
    BY <1>1, <1>3 DEF TalkIn, Talk, Of, Ids
  <2> QED
    BY <1>6, <2>1 DEF IInv, Sound, Told, Stored
<1> QED
  BY <1>1, <1>3, <1>5, <1>6

-----------------------------------------------------------------------------
(* A turn that ends having folded leaves its conversation folded.          *)
LEMMA EndFolds ==
  ASSUME IInv, IInv', FInv, NEW t \in Turn, alone[t],
         NEW th \in Thread, th \in live, on[t] = th,
         NothingScrolled(t) \/ NothingDropped(t) \/ Fold(t)
  PROVE  FoldedAt(th)'
<1>1. Ready(t) /\ summary \in [Thread -> SUBSET Nat]
  BY DEF IInv, Sound, Typed, Stored, FInv
<1>2. /\ UNCHANGED <<messages, active>>
      /\ NothingScrolled(t) \/ NothingDropped(t) => lost' = lost
  BY DEF NothingScrolled, NothingDropped, Fold, SetSummary, store
<1>3. LessShown(th)
  BY <1>2, SameScreen
<1>4. CASE NothingScrolled(t)
  BY <1>3, <1>4, Shrinks DEF NothingScrolled, FoldedAt
<1>5. CASE NothingDropped(t)
  <2>1. Covers(th, summary[th] \cup lost[th])
    BY <1>1, <1>5, Gathered DEF NothingDropped, Covers
  <2>2. summary' = summary /\ lost' = lost
    BY <1>2, <1>5 DEF NothingDropped, store
  <2>3. summary'[th] \cup lost'[th] = summary[th] \cup lost[th]
    BY <2>2
  <2> QED
    BY <1>3, <2>1, <2>3, Shrinks DEF FoldedAt, Covers
<1>6. CASE Fold(t)
  <2>1. Covers(th, told[t] \cup drop[t] \cup lost[th])
    BY <1>1, <1>6 DEF Fold, Ready
  <2>2. PICK read \in SUBSET drop[t] :
          /\ SetSummary(th, Max(drop[t]), told[t] \cup read)
          /\ lost' = [lost EXCEPT ![th] = @ \cup (drop[t] \ read)]
    BY <1>6 DEF Fold, Shown
  <2>3. /\ summary'[th] = told[t] \cup read
        /\ lost'[th] = lost[th] \cup (drop[t] \ read)
    BY <1>1, <2>2 DEF SetSummary, IInv, Shape
  <2>4. told[t] \cup drop[t] \cup lost[th] \subseteq summary'[th] \cup lost'[th]
    BY <2>3
  <2> QED
    BY <1>3, <2>1, <2>4, Shrinks DEF FoldedAt, Covers
<1> QED
  BY <1>4, <1>5, <1>6

LEMMA WhoFolds ==
  ASSUME Next, ~ Restart, Bounded, IInv, NEW th \in Thread, ~ clean[th], clean'[th]
  PROVE  \E t \in Turn : /\ on[t] = th /\ alone[t]
                         /\ NothingScrolled(t) \/ NothingDropped(t) \/ Fold(t)
<1>1. CASE \E t \in Turn, h \in Thread : Enter(t, h)
  BY <1>1 DEF Enter, Bounded
<1>2. CASE \E t \in Turn : End(t, FALSE)
  BY <1>2 DEF End, Bounded
<1>3. CASE UNCHANGED clean
  BY <1>3
<1>4. ASSUME NEW t \in Turn, NothingScrolled(t) \/ NothingDropped(t) \/ Fold(t)
      PROVE  on[t] = th /\ alone[t]
  <2>1. clean' = [clean EXCEPT ![on[t]] = TRUE /\ alone[t]]
    BY <1>4 DEF NothingScrolled, NothingDropped, Fold, End
  <2>2. \A h \in Thread : h # on[t] => clean'[h] = clean[h]
    BY <2>1 DEF Bounded
  <2>3. on[t] = th
    BY <2>2
  <2>4. clean'[th] = (TRUE /\ alone[t])
    BY <2>1, <2>3, Zenon DEF Bounded
  <2> QED
    BY <2>3, <2>4
<1>5. CASE \E t \in Turn : UnknownThread(t) \/ FoldFails(t)
  BY <1>2, <1>5 DEF UnknownThread, FoldFails
<1>6. CASE \E t \in Turn : Insert(t) \/ Link(t) \/ Reply(t) \/ CallTool(t)
                           \/ GiveUp(t) \/ Measure(t) \/ Gather(t)
  BY <1>3, <1>6 DEF Insert, Link, Reply, CallTool, Write, GiveUp, Measure,
                    Gather, ghost
<1>7. CASE (\E h \in Thread : DeleteMessages(h)) \/ Clear \/ DeleteThread
  BY <1>3, <1>7 DEF DeleteMessages, Clear, DeleteThread, ghost
<1>8. CASE \E t \in Turn, h \in Thread :
             Ask(t, h) \/ Edit(t, h) \/ Regenerate(t, h) \/ Compress(t, h)
  BY <1>1, <1>8 DEF Ask, Edit, Regenerate, Compress
<1> QED
  BY <1>4, <1>5, <1>6, <1>7, <1>8 DEF Next, TurnStep

LEMMA FoldedStep ==
  ASSUME IInv, IInv', Bounded, FInv, Next, ~ Restart, NEW th \in live'
  PROVE  FoldedAt(th)'
<1>1. th \in live /\ th \in Thread /\ lost[th] \subseteq lost'[th]
  BY Keeps DEF IInv, Sound, Typed, Stored
<1>2. CASE ~ clean'[th]
  BY <1>2 DEF FoldedAt
<1>3. CASE clean'[th] /\ ~ clean[th]
  BY <1>1, <1>3, WhoFolds, EndFolds
<1>4. CASE clean'[th] /\ clean[th]
  <2>1. \A t \in Turn : on[t] # th
    BY <1>1, <1>4 DEF FInv, Apart
  <2>2. summary'[th] = summary[th]
    BY <1>1, <2>1, Keeps
  <2>3. \A t \in Turn : ~ Regenerate(t, th)
    BY <1>1, <1>4 DEF Regenerate, Enter, Bounded
  <2>4. LessShown(th)
    BY <1>1, <2>1, <2>3, OthersShowNothing
  <2> QED
    BY <1>1, <1>4, <2>2, <2>4, StillFolded DEF FInv
<1> QED
  BY <1>2, <1>3, <1>4


-----------------------------------------------------------------------------
(* A turn that is alone is ready for its next step.                        *)
LEMMA OthersLeave ==
  ASSUME IInv, Bounded, Next, ~ Restart, NEW u \in Turn, ~ TurnStep(u),
         \A th \in Thread :
           ~ (Ask(u, th) \/ Edit(u, th) \/ Regenerate(u, th) \/ Compress(u, th))
  PROVE  /\ pc'[u] = pc[u] /\ on'[u] = on[u] /\ kept'[u] = kept[u]
         /\ told'[u] = told[u] /\ drop'[u] = drop[u]
         /\ alone'[u] => alone[u]
<1> USE DEF IInv, Shape, Bounded
<1>1. CASE \E t \in Turn, th \in Thread :
             Ask(t, th) \/ Edit(t, th) \/ Regenerate(t, th) \/ Compress(t, th)
  <2>1. PICK t \in Turn, th \in Thread :
               Ask(t, th) \/ Edit(t, th) \/ Regenerate(t, th) \/ Compress(t, th)
    BY <1>1
  <2>2. u # t /\ Enter(t, th)
    BY <2>1 DEF Ask, Edit, Regenerate, Compress
  <2>3. on'[u] = on[u] /\ (alone'[u] => alone[u])
    BY <2>2 DEF Enter
  <2>4. UNCHANGED <<kept, told, drop>> /\ pc'[u] = pc[u]
    BY <2>1, <2>2 DEF Ask, Edit, Regenerate, Compress, local
  <2> QED
    BY <2>3, <2>4
<1>2. CASE \E t \in Turn : \/ UnknownThread(t) \/ NothingScrolled(t)
                           \/ NothingDropped(t) \/ Fold(t) \/ FoldFails(t)
  <2>1. PICK t \in Turn : \/ UnknownThread(t) \/ NothingScrolled(t)
                          \/ NothingDropped(t) \/ Fold(t) \/ FoldFails(t)
    BY <1>2
  <2>2. u # t /\ (End(t, TRUE) \/ End(t, FALSE))
    BY <2>1 DEF UnknownThread, NothingScrolled, NothingDropped, Fold, FoldFails,
                TurnStep
  <2> QED
    BY <2>2 DEF End
<1>3. CASE \E t \in Turn : Insert(t) \/ Link(t) \/ Reply(t) \/ CallTool(t) \/ GiveUp(t)
  <2>1. PICK t \in Turn : Insert(t) \/ Link(t) \/ Reply(t) \/ CallTool(t) \/ GiveUp(t)
    BY <1>3
  <2>2. u # t
    BY <2>1 DEF TurnStep
  <2> QED
    BY <2>1, <2>2 DEF Insert, Link, Reply, CallTool, Write, GiveUp, ghost
<1>4. CASE \E t \in Turn : Measure(t) \/ Gather(t)
  <2>1. PICK t \in Turn : Measure(t) \/ Gather(t)
    BY <1>4
  <2>2. u # t
    BY <2>1 DEF TurnStep
  <2> QED
    BY <2>1, <2>2 DEF Measure, Gather, ghost
<1>5. CASE (\E th \in Thread : DeleteMessages(th)) \/ Clear \/ DeleteThread
  BY <1>5 DEF DeleteMessages, Clear, DeleteThread, ghost, local
<1> QED
  BY <1>1, <1>2, <1>3, <1>4, <1>5 DEF Next, TurnStep

LEMMA ElsewhereReady ==
  ASSUME IInv, IInv', Bounded, FInv, Next, ~ Restart, NEW u \in Turn, ~ TurnStep(u),
         \A th \in Thread :
           ~ (Ask(u, th) \/ Edit(u, th) \/ Regenerate(u, th) \/ Compress(u, th))
  PROVE  Ready(u)'
<1>1. /\ pc'[u] = pc[u] /\ on'[u] = on[u] /\ kept'[u] = kept[u]
      /\ told'[u] = told[u] /\ drop'[u] = drop[u]
      /\ alone'[u] => alone[u]
  BY OthersLeave
<1>2. ASSUME alone'[u], on'[u] \in live' PROVE LessShown(on[u])
  <2>1. alone[u] /\ on[u] \in live /\ on[u] \in Thread /\ on[u] # None
    BY <1>1, <1>2, Keeps, ConversationsAssumption
    DEF IInv, Sound, Typed, Stored, None
  <2>2. \A t \in Turn : ~ (Link(t) /\ on[t] = on[u])
    BY <2>1 DEF FInv, Apart, TurnStep
  <2>3. \A t \in Turn : ~ Regenerate(t, on[u])
    BY <1>2 DEF Regenerate, Enter
  <2> QED
    BY <2>1, <2>2, <2>3, OthersShowNothing
<1> QED
  BY <1>1, <1>2, Keeps, StillReady DEF FInv

LEMMA ReadyStep ==
  ASSUME IInv, IInv', Bounded, FInv, Next, ~ Restart, NEW u \in Turn
  PROVE  Ready(u)'
<1> USE DEF IInv, Shape
<1>1. CASE \E th \in Thread :
             Ask(u, th) \/ Edit(u, th) \/ Regenerate(u, th) \/ Compress(u, th)
  <2>1. pc'[u] \in {"insert", "model", "fold"}
    BY <1>1 DEF Ask, Edit, Regenerate, Compress
  <2> QED
    BY <2>1 DEF Ready
<1>2. CASE UnknownThread(u) \/ NothingScrolled(u) \/ NothingDropped(u)
           \/ Fold(u) \/ FoldFails(u)
  <2>1. pc'[u] = "idle"
    BY <1>2 DEF UnknownThread, NothingScrolled, NothingDropped, Fold, FoldFails, End
  <2> QED
    BY <2>1 DEF Ready
<1>3. CASE Insert(u) \/ Link(u) \/ Reply(u) \/ CallTool(u) \/ GiveUp(u)
  <2>1. pc'[u] \in {"insert", "link", "model", "fold"}
    BY <1>3 DEF Insert, Link, Reply, CallTool, Write, GiveUp
  <2> QED
    BY <2>1 DEF Ready
<1>4. CASE Measure(u)
  <2> DEFINE th == on[u]
  <2>1. /\ pc'[u] = "gather" /\ on' = on /\ th \in Thread
        /\ UNCHANGED <<messages, active, live>> /\ th \in live
    BY <1>4 DEF Measure, Sound, Typed, Stored, store
  <2>2. PICK k \in Users(Recent(th)) : StartsWindow(th, k) /\ kept'[u] = k
    BY <1>4 DEF Measure
  <2>3. k \in Nat
    BY RowsAre DEF Users, Ids, Sound, Typed, Stored
  <2>4. \A v \in Users(Recent(th)) : StartsWindow(th, v) => v <= k
    BY <2>1, <2>2, <2>3, OneBeginning
  <2>5. LessShown(th)
    BY <2>1, SameScreen
  <2>6. \A h \in Thread : LessShown(h) =>
          \A v \in Users(Recent(h))' :
            v \in Users(Recent(h)) /\ (StartsWindow(h, v)' => StartsWindow(h, v))
    BY Shrinks
  <2>7. on'[u] = th
    BY <2>1
  <2>8. \A v \in Users(Recent(th))' : StartsWindow(th, v)' => v <= k
    BY <2>1, <2>4, <2>5, <2>6
  <2> QED
    BY <2>1, <2>2, <2>8 DEF Ready, Begins
<1>5. CASE Gather(u)
  <2>1. PICK th \in Thread : th = on[u] /\ th \in live
    BY <1>5 DEF Gather, Sound, Typed, Stored
  <2>2. /\ pc'[u] = "distil" /\ on' = on
        /\ UNCHANGED <<messages, active, live, lost>>
        /\ told'[u] = summary[th] /\ drop'[u] = Dropped(u)
    BY <1>5, <2>1 DEF Gather, store, ghost
  <2>3. alone'[u] => Covers(th, summary[th] \cup Dropped(u) \cup lost[th])
    BY <1>5, <2>1, Gathered DEF Gather, ghost, FInv
  <2>4. /\ \A i \in Talk(History(th))' : i \in Talk(History(th))
        /\ \A v \in Users(Recent(th))' :
             v \in Users(Recent(th)) /\ (StartsWindow(th, v)' => StartsWindow(th, v))
    BY <2>1, <2>2, SameScreen, Shrinks
  <2>5. alone'[u] => \A v \in Users(Recent(th))', i \in Talk(History(th))' :
          StartsWindow(th, v)' /\ i < v =>
            i \in told'[u] \cup drop'[u] \cup lost'[th]
    BY <2>2, <2>3, <2>4 DEF Covers
  <2> QED
    BY <2>1, <2>2, <2>5 DEF Ready, Covers
<1> QED
  BY <1>1, <1>2, <1>3, <1>4, <1>5, ElsewhereReady DEF TurnStep

LEMMA FStep == IInv /\ IInv' /\ Bounded /\ FInv /\ [Next]_vars => FInv'
<1> SUFFICES ASSUME IInv, IInv', Bounded, FInv, [Next]_vars PROVE FInv'
  OBVIOUS
<1>1. CASE Next /\ ~ Restart
  BY <1>1, ApartStep, FoldedStep, ReadyStep DEF FInv
<1>2. CASE Restart
  <2>1. /\ \A t \in Turn : on'[t] = None /\ pc'[t] = "idle"
        /\ \A th \in Thread : ~ clean'[th]
    BY <1>2 DEF Restart
  <2>2. live' \subseteq Thread
    BY DEF IInv, Sound, Typed, Stored
  <2> QED
    BY <2>1, <2>2 DEF FInv, Apart, FoldedAt, Ready
<1>3. CASE UNCHANGED vars
  <2> USE <1>3 DEF vars, store, local, ghost
  <2>1. \A th \in live : LessShown(th) /\ th \in Thread
    BY SameScreen DEF IInv, Sound, Typed, Stored
  <2>2. \A th \in live' : FoldedAt(th)'
    <3> SUFFICES ASSUME NEW th \in live' PROVE FoldedAt(th)'
      OBVIOUS
    <3>1. CASE clean[th]
      BY <2>1, <3>1, StillFolded DEF FInv
    <3>2. CASE ~ clean[th]
      BY <3>2 DEF FoldedAt
    <3> QED
      BY <3>1, <3>2
  <2>3. \A t \in Turn : Ready(t)'
    BY <2>1, StillReady DEF FInv
  <2>4. Apart'
    BY DEF FInv, Apart
  <2> QED
    BY <2>2, <2>3, <2>4 DEF FInv
<1> QED
  BY <1>1, <1>2, <1>3

(* When the last turn of a conversation has folded, and none ran beside    *)
(* it, every message of the branch before the window compact measured has  *)
(* been handed to a fold, whatever rows compact reads and whatever a model *)
(* is shown: compact passes none over, and no later step of another        *)
(* conversation, no clearing and no deletion leaves one before the window  *)
(* (compact, history and earlier; chat.py and distil.py).                  *)
THEOREM WindowIsTold == Spec => []Folded
<1>1. Init => Bounded
  BY ConversationsAssumption DEF Init, Bounded, Stored
<1>2. Init => FInv
  <2> SUFFICES ASSUME Init PROVE FInv
    OBVIOUS
  <2>1. \A th \in Thread : History(th) = {}
    BY DEF Init, History, Of, Ids
  <2>2. \A th \in Thread : Users(Recent(th)) = {}
    BY <2>1 DEF Recent, Newest, Users
  <2> QED
    BY <2>2, ConversationsAssumption
    DEF Init, FInv, Apart, FoldedAt, Covers, Ready, None
<1>3. IInv /\ FInv => Folded
  BY DEF FInv, FoldedAt, Covers, Folded
<1> QED
  BY <1>1, <1>2, <1>3, NextBounded, FStep, Invariance, PTL DEF Spec
=============================================================================
