------------------------- MODULE ComputerUseProofs --------------------------
(***************************************************************************)
(* Proofs about ComputerUse, for every set of calling threads, browser     *)
(* sessions and readers, and one control call at a time.                   *)
(*                                                                         *)
(* The argument.  The barrier counts whoever is watching, the retirement   *)
(* that kept an observation included.  Whoever was told that its input is  *)
(* private and has not left since has been in _private since the count was *)
(* seen at 0, and nobody enters while _private has a member; a session     *)
(* that was left while it waited holds nothing when it is answered.  A     *)
(* call holds the slot until it ends or its worker's retirement does, so   *)
(* the worker executes for one caller at most.  With two control calls at  *)
(* once the first argument fails: the one resumes what the other is about  *)
(* to be told.                                                             *)
(* What computer use keeps closed its state shows, for the state and the   *)
(* barrier change in one locked section or with the control call between.  *)
(* The barrier by itself keeps its promise whatever its owners do.         *)
(***************************************************************************)
EXTENDS ComputerUse, FiniteSetTheorems, TLAPS

OneControl == \A c, d \in Control : c = d

CU == "computer-use"

(* The slot belongs to one call, and then to its worker's retirement.      *)
Slot ==
  /\ \A a \in Agent :
       agent[a] # "idle" => /\ active /\ lease = None
                            /\ \A b \in Agent : agent[b] # "idle" => b = a
  /\ acting \subseteq {a \in Agent : agent[a] = "native"} \cup {lease}

(* Computer use closes the barrier before it waits.  A browser session     *)
(* that asks does not show the answer to an earlier command.               *)
Shut ==
  /\ \A b \in Browser : asking[b] # "no" => browser[b] # "private"
  /\ \A c \in Control :
       /\ control[c] \in {"wait", "late", "hide"} => CU \in private
       /\ control[c] # "idle" => state # "private" /\ closing = "no"
  /\ state = "private" => CU \in private
  /\ closing # "no" => state # "private"

Waits == \E c \in Control : control[c] \in {"wait", "late"}

(* And nobody has entered since it saw that nobody was there.              *)
Quiet ==
  /\ \A b \in private \cap Browser :
       asking[b] = "entered" \/ browser[b] = "private" => observers = 0
  /\ CU \in private => Waits \/ observers = 0

(* With no control call in progress a closed barrier shows, and whoever    *)
(* gave the wait up has opened it.                                         *)
Shown ==
  /\ (\A c \in Control : control[c] = "idle") /\ CU \in private
       => state \in {"paused", "private", "stopping"}
  /\ \A c \in Control : control[c] \in {"left", "shown"} => CU \notin private

Counted ==
  /\ IsFiniteSet(Watching)
  /\ observers = Cardinality(Watching)

(* The inductive invariant.                                                *)
IInv == TypeOK /\ Slot /\ Shut /\ Quiet /\ Shown /\ Counted

-----------------------------------------------------------------------------
(* The count.                                                              *)

LEMMA WatchingIsFinite ==
  ASSUME TypeOK
  PROVE  IsFiniteSet(Watching)
<1>1. Watching \subseteq Agent \cup Screen
  BY DEF Watching, TypeOK
<1>2. IsFiniteSet(Agent \cup Screen)
  BY ActorAssumption, FS_Union
<1> QED
  BY <1>1, <1>2, FS_Subset

LEMMA Same ==
  ASSUME Counted, observers' = observers, Watching' = Watching
  PROVE  Counted' /\ observers' \in Nat
  BY FS_CardinalityType DEF Counted

LEMMA Enters ==
  ASSUME Counted, AdmitReader,
         NEW r, r \notin Watching, Watching' = Watching \cup {r}
  PROVE  Counted' /\ observers' \in Nat
  BY FS_AddElement, FS_CardinalityType DEF Counted, AdmitReader

LEMMA Goes ==
  ASSUME Counted, DropReader,
         NEW r, r \in Watching, Watching' = Watching \ {r}
  PROVE  Counted' /\ observers' \in Nat
<1>1. /\ IsFiniteSet(Watching \ {r})
      /\ Cardinality(Watching \ {r}) = Cardinality(Watching) - 1
  BY FS_RemoveElement DEF Counted
<1>2. Cardinality(Watching \ {r}) \in Nat
  BY <1>1, FS_CardinalityType
<1> QED
  BY <1>1, <1>2 DEF Counted, DropReader

LEMMA Present ==
  ASSUME Counted, Watching # {}
  PROVE  observers # 0
  BY FS_EmptySet DEF Counted

LEMMA Absent ==
  ASSUME Counted, observers = 0
  PROVE  Watching = {}
  BY FS_EmptySet DEF Counted

-----------------------------------------------------------------------------
LEMMA InitInv == Init => IInv
<1> SUFFICES ASSUME Init PROVE IInv
  OBVIOUS
<1>1. Watching = {}
  BY DEF Init, Watching
<1>2. Counted
  BY <1>1, FS_EmptySet DEF Init, Counted
<1>3. TypeOK
  BY DEF Init, TypeOK, State, AgentPc, ControlPc, BrowserState, Asking
<1> QED
  BY <1>2, <1>3 DEF Init, IInv, Slot, Shut, Quiet, Shown

LEMMA AgentInv ==
  ASSUME IInv, NEW a \in Agent,
         Admit(a, "asked") \/ Admit(a, "listing") \/ AgentStep(a)
  PROVE  IInv'
<1> USE DEF IInv, browserVars
<1>1. CASE Admit(a, "asked") \/ Admit(a, "listing")
  <2>1. PICK place \in {"asked", "listing"} : Admit(a, place)
    BY <1>1
  <2>2. Watching' = Watching
    BY <2>1 DEF Admit, At, Watching, TypeOK
  <2>3. Counted'
    BY <2>1, <2>2, Same DEF Admit
  <2> QED
    BY <2>1, <2>3
       DEF Admit, Free, At, TypeOK, Slot, Shut, Quiet, Shown, Waits, State,
                      AgentPc
<1>2. CASE Submit(a) \/ List(a)
  <2>1. agent[a] \in {"asked", "listing"} /\ a \notin Watching
    BY <1>2, ActorAssumption DEF Submit, List, Watching, TypeOK, Slot
  <2>2. Watching' = Watching \cup {a} /\ AdmitReader
    BY <1>2, <2>1 DEF Submit, List, At, Watching, TypeOK, serviceVars
  <2>3. Counted' /\ observers' \in Nat
    BY <2>1, <2>2, Enters
  <2>4. Quiet'
    BY <1>2, <2>2 DEF Submit, List, AdmitReader, Quiet, Shut
  <2> QED
    BY <1>2, <2>3, <2>4 DEF Submit, List, At, TypeOK, Slot, Shut, Shown,
                            AgentPc, serviceVars
<1>3. CASE Refused(a)
  <2>1. Watching' = Watching
    BY <1>3 DEF Refused, At, Watching, TypeOK, serviceVars
  <2>2. Counted'
    BY <1>3, <2>1, Same DEF Refused
  <2> QED
    BY <1>3, <2>2 DEF Refused, At, TypeOK, Slot, Shut, Quiet, Shown, Waits, AgentPc,
                      serviceVars
<1>4. CASE Returned(a)
  <2>1. Watching' = Watching
    BY <1>4 DEF Returned, At, Watching, TypeOK, serviceVars
  <2>2. Counted'
    BY <1>4, <2>1, Same DEF Returned
  <2> QED
    BY <1>4, <2>2
       DEF Returned, At, TypeOK, Slot, Shut, Quiet, Shown, Waits, AgentPc,
                      serviceVars
<1>5. CASE Delivered(a)
  <2>1. a \in Watching /\ DropReader /\ Watching' = Watching \ {a}
    BY <1>5, ActorAssumption DEF Delivered, At, Watching, TypeOK, Slot, serviceVars
  <2>2. Counted' /\ observers' \in Nat
    BY <2>1, Goes
  <2>3. observers # 0
    BY <2>1, Present
  <2>4. Quiet'
    BY <1>5, <2>3 DEF Delivered, Quiet, Waits
  <2> QED
    BY <1>5, <2>2, <2>4 DEF Delivered, At, TypeOK, Slot, Shut, Shown,
                            AgentPc, serviceVars
<1>6. CASE Finish(a)
  <2>1. Watching' = Watching
    BY <1>6 DEF Finish, At, Watching, TypeOK
  <2>2. Counted'
    BY <1>6, <2>1, Same DEF Finish
  <2>3. /\ state' \in State /\ (state' = "private" => state = "private")
    BY <1>6 DEF Finish, TypeOK, State
  <2>4. Slot'
    BY <1>6 DEF Finish, At, TypeOK, Slot
  <2> QED
    BY <1>6, <2>2, <2>3, <2>4
       DEF Finish, At, TypeOK, Shut, Quiet, Shown, Waits, AgentPc
<1>7. CASE Outrun(a)
  <2>1. a \in Watching /\ Watching' = Watching /\ lease' = a /\ lease = None
    BY <1>7, ActorAssumption DEF Outrun, Retire, At, Watching, TypeOK, Slot
  <2>2. Counted' /\ observers' = observers
    BY <1>7, <2>1, Same DEF Outrun, Retire
  <2>3. Slot'
    BY <1>7, ActorAssumption DEF Outrun, Retire, At, TypeOK, Slot
  <2> QED
    BY <1>7, <2>2, <2>3 DEF Outrun, Retire, At, TypeOK, Shut, Quiet, Shown, Waits,
                            AgentPc, State
<1> QED
  BY <1>1, <1>2, <1>3, <1>4, <1>5, <1>6, <1>7 DEF AgentStep

LEMMA RetireInv ==
  ASSUME IInv, Drained \/ DrainFailed
  PROVE  IInv'
<1> USE DEF IInv, browserVars
<1>1. lease \in Agent /\ lease \in Watching /\ \A a \in Agent : agent[a] = "idle"
  BY DEF Drained, DrainFailed, TypeOK, Slot, Watching
<1>2. CASE Drained
  <2>1. DropReader /\ Watching' = Watching \ {lease}
    BY <1>1, <1>2, ActorAssumption DEF Drained, Watching, TypeOK
  <2>2. Counted' /\ observers' \in Nat
    BY <1>1, <2>1, Goes
  <2>3. observers # 0
    BY <1>1, Present
  <2>4. Shown'
    BY <1>2, <2>3 DEF Drained, Shown, Quiet, Waits
  <2> QED
    BY <1>1, <1>2, <2>2, <2>3, <2>4 DEF Drained, TypeOK, Slot, Shut, Quiet, Waits,
                                        State
<1>3. CASE DrainFailed
  <2>1. Watching' = Watching
    BY <1>3 DEF DrainFailed, Watching
  <2>2. Counted'
    BY <1>3, <2>1, Same DEF DrainFailed
  <2>3. observers # 0
    BY <1>1, Present
  <2>4. Shown'
    BY <1>3, <2>3 DEF DrainFailed, Shown, Quiet, Waits
  <2> QED
    BY <1>1, <1>3, <2>2, <2>4
       DEF DrainFailed, TypeOK, Slot, Shut, Quiet, Waits, State
<1> QED
  BY <1>2, <1>3

LEMMA ControlInv ==
  ASSUME IInv, OneControl, NEW c \in Control,
         Resume(c) \/ Stop(c) \/ Private(c) \/ ControlStep(c) \/ TimedOut(c)
  PROVE  IInv'
<1> USE DEF IInv, browserVars
<1>1. /\ UNCHANGED <<observers, active, lease, stopped, closing, agent,
                     reading, browserVars, acting>>
      /\ closing = "no"
  BY DEF Resume, Stop, Private, Heeds, ControlStep, Block, Entered, GiveUp,
         NotStarted, Started, TimedOut, serviceVars, Shut
<1>2. Counted' /\ Slot'
  <2>1. Watching' = Watching
    BY <1>1 DEF Watching
  <2> QED
    BY <1>1, <2>1, Same DEF Slot
<1>3. CASE Resume(c) \/ Stop(c) \/ Private(c)
  BY <1>1, <1>2, <1>3, ActorAssumption
     DEF Resume, Stop, Private, Heeds, OpenFor, Halted, Stands, OneControl, TypeOK,
         Shut, Quiet, Shown, Waits, State, ControlPc, CU
<1>4. CASE Block(c) \/ Entered(c) \/ TimedOut(c)
  BY <1>1, <1>2, <1>4, ActorAssumption
     DEF Block, Entered, TimedOut, CloseFor, NoReader, Stands, OneControl, TypeOK,
         Shut, Quiet, Shown, Waits, ControlPc, serviceVars, CU
<1>5. CASE GiveUp(c)
  BY <1>1, <1>2, <1>5, ActorAssumption
    
        DEF GiveUp, OpenFor, Stands, OneControl, TypeOK, Shut, Quiet, Shown,
            Waits, ControlPc,
         serviceVars, CU
<1>6. CASE NotStarted(c) \/ Started(c)
  BY <1>1, <1>2, <1>6
    
        DEF NotStarted, Started, Stands, OneControl, TypeOK, Shut, Quiet, Shown,
            Waits, State,
         ControlPc, CU
<1> QED
  BY <1>3, <1>4, <1>5, <1>6 DEF ControlStep

LEMMA CloseInv ==
  ASSUME IInv, Close \/ Closed
  PROVE  IInv'
<1> USE DEF IInv, browserVars
<1>1. CASE Close
  <2>1. Watching' = Watching
    BY <1>1 DEF Close, Watching
  <2>2. Counted'
    BY <1>1, <2>1, Same DEF Close
  <2> QED
    BY <1>1, <2>2 DEF Close, TypeOK, Slot, Shut, Quiet, Shown, Waits, State
<1>2. CASE Closed
  <2>1. CASE lease # None /\ lease' = None
    <3>1. lease \in Watching /\ DropReader /\ Watching' = Watching \ {lease}
      BY <1>2, <2>1, ActorAssumption DEF Closed, Watching, TypeOK, Slot
    <3>2. Counted' /\ observers' \in Nat /\ observers # 0
      BY <3>1, Goes, Present
    <3> QED
      BY <1>2, <2>1, <3>2
         DEF Closed, OpenFor, TypeOK, Slot, Shut, Quiet, Shown, Waits, CU
  <2>2. CASE lease' = lease /\ observers' = observers
    <3>1. Watching' = Watching
      BY <1>2, <2>2 DEF Closed, Watching
    <3>2. Counted'
      BY <2>2, <3>1, Same
    <3> QED
      BY <1>2, <2>2, <3>2, ActorAssumption
         DEF Closed, OpenFor, TypeOK, Slot, Shut, Quiet, Shown, Waits, CU
  <2> QED
    BY <1>2, <2>1, <2>2 DEF Closed
<1> QED
  BY <1>1, <1>2

LEMMA ScreenInv ==
  ASSUME IInv, NEW s \in Screen, Look(s) \/ LookEnds(s)
  PROVE  IInv'
<1> USE DEF IInv, browserVars
<1>1. s \notin Agent
  BY ActorAssumption
<1>2. CASE Look(s)
  <2>1. s \notin Watching /\ AdmitReader /\ Watching' = Watching \cup {s}
    BY <1>1, <1>2 DEF Look, Watching, TypeOK, serviceVars
  <2>2. Counted' /\ observers' \in Nat
    BY <2>1, Enters
  <2> QED
    BY <1>2, <2>2
       DEF Look, AdmitReader, TypeOK, Slot, Shut, Quiet, Shown, serviceVars
<1>3. CASE LookEnds(s)
  <2>1. s \in Watching /\ DropReader /\ Watching' = Watching \ {s}
    BY <1>1, <1>3 DEF LookEnds, Watching, TypeOK, serviceVars
  <2>2. Counted' /\ observers' \in Nat /\ observers # 0
    BY <2>1, Goes, Present
  <2> QED
    BY <1>3, <2>2 DEF LookEnds, TypeOK, Slot, Shut, Quiet, Shown, Waits, serviceVars
<1> QED
  BY <1>2, <1>3

LEMMA BrowserInv ==
  ASSUME IInv, NEW b \in Browser, BrowserStep(b)
  PROVE  IInv'
<1> USE DEF IInv
<1>1. UNCHANGED elsewhere
  BY DEF BrowserStep, BrowserPrivate, BrowserEnter, BrowserEntered,
         BrowserTimedOut, BrowserAbandoned, BrowserStarted, BrowserGivesUp,
         BrowserHalts, BrowserResumed, BrowserOperated, BrowserClosed
<1>2. Counted' /\ Slot'
  <2>1. Watching' = Watching
    BY <1>1 DEF Watching, elsewhere, serviceVars
  <2> QED
    BY <1>1, <2>1, Same DEF Slot, elsewhere, serviceVars
<1>3. b # CU /\ (CU \in private' <=> CU \in private)
  BY ActorAssumption
     DEF BrowserStep, BrowserPrivate, BrowserEnter, BrowserEntered,
         BrowserTimedOut, BrowserAbandoned, BrowserStarted, BrowserGivesUp,
         BrowserHalts, BrowserResumed, BrowserOperated, BrowserClosed,
         CloseFor, OpenFor, CU
<1>4. \A o \in Browser \ {b} : /\ o \in private' <=> o \in private
                              /\ browser'[o] = browser[o]
                              /\ asking'[o] = asking[o]
  BY DEF BrowserStep, BrowserPrivate, BrowserEnter, BrowserEntered,
         BrowserTimedOut, BrowserAbandoned, BrowserStarted, BrowserGivesUp,
         BrowserHalts, BrowserResumed, BrowserOperated, BrowserClosed,
         CloseFor, OpenFor, Shows, Asks, TypeOK
<1>5. TypeOK'
  BY <1>1, <1>2
     DEF BrowserStep, BrowserPrivate, BrowserEnter, BrowserEntered,
         BrowserTimedOut, BrowserAbandoned, BrowserStarted, BrowserGivesUp,
         BrowserHalts, BrowserResumed, BrowserOperated, BrowserClosed, Kept,
         CloseFor, OpenFor, Shows, Asks, TypeOK, BrowserState, Asking,
         elsewhere, serviceVars
<1>6. /\ asking'[b] # "no" => browser'[b] # "private"
      /\ b \in private' /\ (asking'[b] = "entered" \/ browser'[b] = "private")
           => observers = 0
  <2>1. CASE BrowserPrivate(b) \/ BrowserEnter(b) \/ BrowserEntered(b)
    BY <2>1 DEF BrowserPrivate, BrowserEnter, BrowserEntered, CloseFor, NoReader,
                Shows, Asks, TypeOK, Shut, Quiet
  <2>2. CASE BrowserTimedOut(b) \/ BrowserAbandoned(b) \/ BrowserStarted(b)
    BY <2>2 DEF BrowserTimedOut, BrowserAbandoned, BrowserStarted,
                Shows, Asks, TypeOK, Shut, Quiet
  <2>3. CASE BrowserHalts(b) \/ BrowserOperated(b)
    BY <2>3 DEF BrowserHalts, BrowserOperated, Kept, Shows, Asks, TypeOK, Shut,
                Quiet
  <2>4. CASE BrowserGivesUp(b) \/ BrowserResumed(b) \/ BrowserClosed(b)
    BY <2>4 DEF BrowserGivesUp, BrowserResumed, BrowserClosed, OpenFor, Shows,
                Asks, TypeOK, Shut, Quiet
  <2> QED
    BY <2>1, <2>2, <2>3, <2>4 DEF BrowserStep
<1>7. Shut' /\ Quiet'
  BY <1>1, <1>3, <1>4, <1>6 DEF Shut, Quiet, Waits, elsewhere, serviceVars
<1>8. Shown'
  BY <1>1, <1>3 DEF Shown, elsewhere, serviceVars
<1> QED
  BY <1>2, <1>5, <1>7, <1>8

LEMMA NextInv == OneControl /\ IInv /\ [Next]_vars => IInv'
<1> SUFFICES ASSUME OneControl, IInv, [Next]_vars PROVE IInv'
  OBVIOUS
<1>1. CASE UNCHANGED vars
  <2>1. Watching' = Watching
    BY <1>1 DEF vars, serviceVars, Watching
  <2> QED
    BY <1>1, <2>1, Same
       DEF vars, serviceVars, browserVars, IInv, TypeOK, Slot, Shut, Quiet, Shown, Waits
<1> QED
  BY <1>1, AgentInv, RetireInv, ControlInv, CloseInv, ScreenInv, BrowserInv
     DEF Next

(* Types, the slot, the barrier, who has drained, and what is shown, with  *)
(* one control call at a time.                                             *)
THEOREM Invariance ==
  ASSUME OneControl
  PROVE  Spec => []IInv
<1>1. IInv /\ [Next]_vars => IInv'
  BY NextInv
<1> QED
  BY InitInv, <1>1, PTL DEF Spec

(* Every variable of the model keeps to its type.                          *)
THEOREM Typed ==
  ASSUME OneControl
  PROVE  Spec => []TypeOK
<1>1. IInv => TypeOK
  BY DEF IInv
<1> QED
  BY Invariance, <1>1, PTL

(* While somebody has been told that its input is private and has not left *)
(* since, nobody takes or delivers a frame, and no native call can still   *)
(* be running.                                                             *)
THEOREM PrivateStays ==
  ASSUME OneControl
  PROVE  Spec => []PrivateIsPrivate
<1>1. IInv => PrivateIsPrivate
  <2> SUFFICES ASSUME IInv, Held # {} PROVE Watching = {} /\ acting = {}
    BY DEF PrivateIsPrivate
  <2>1. observers = 0
    BY DEF IInv, Shut, Quiet, Waits, Held, CU, OneControl
  <2>2. Watching = {}
    BY <2>1, Absent DEF IInv
  <2>3. acting \subseteq Watching
    BY ActorAssumption DEF IInv, TypeOK, Slot, Watching
  <2> QED
    BY <2>2, <2>3
<1> QED
  BY Invariance, <1>1, PTL

(* A barrier that computer use left closed shows in its state: the owner   *)
(* sees paused, private or stopping, and resume is what opens it.          *)
THEOREM ClosedShows ==
  ASSUME OneControl
  PROVE  Spec => []ClosedIsShown
<1>1. IInv => ClosedIsShown
  BY DEF IInv, Shown, ClosedIsShown, CU
<1> QED
  BY Invariance, <1>1, PTL

(* The worker executes for one caller at most, one that gave up included.  *)
THEOREM OneActs ==
  ASSUME OneControl
  PROVE  Spec => []OneAtATime
<1>1. IInv => OneAtATime
  <2> SUFFICES ASSUME IInv PROVE Cardinality(acting) <= 1
    BY DEF OneAtATime
  <2>1. \A a, b \in acting : a = b
    BY ActorAssumption DEF IInv, TypeOK, Slot
  <2>2. acting = {} \/ \E a : acting = {a}
    BY <2>1
  <2>3. Cardinality(acting) \in {0, 1}
    BY <2>2, FS_EmptySet, FS_Singleton
  <2> QED
    BY <2>3
<1> QED
  BY Invariance, <1>1, PTL

-----------------------------------------------------------------------------
(* Every step is one of the barrier's, or none.                            *)

Waiters == {b \in Browser : asking[b] = "waiting"}
            \cup {o \in {"computer-use"} : \E c \in Control : control[c] = "wait"}

BarrierStep ==
  \/ UNCHANGED <<private, observers, Watching, Waiters, Held>>
  \/ Barrier!Next

LEMMA ObserveStep ==
  ASSUME NEW r \in Agent \cup Screen, r \notin Watching, AdmitReader,
         Watching' = Watching \cup {r}, UNCHANGED <<private, Waiters, Held>>
  PROVE  BarrierStep
<1>1. Barrier!Observe(r)
  BY DEF Barrier!Observe, AdmitReader, Waiters
<1> QED
  BY <1>1 DEF BarrierStep, Barrier!Next

LEMMA ReleaseStep ==
  ASSUME NEW r \in Agent \cup Screen, r \in Watching, DropReader,
         Watching' = Watching \ {r}, UNCHANGED <<private, Waiters, Held>>
  PROVE  BarrierStep
<1>1. Barrier!Release(r)
  BY DEF Barrier!Release, DropReader, Waiters
<1> QED
  BY <1>1 DEF BarrierStep, Barrier!Next

LEMMA WithdrawStep ==
  ASSUME NEW o \in Browser \cup {"computer-use"}, Held' = Held \ {o},
         UNCHANGED <<private, observers, Watching, Waiters>>
  PROVE  BarrierStep
<1>1. Barrier!Withdraw(o)
  BY DEF Barrier!Withdraw, Waiters
<1> QED
  BY <1>1 DEF BarrierStep, Barrier!Next

LEMMA LeaveStep ==
  ASSUME NEW o \in Browser \cup {"computer-use"},
         private' = private \ {o}, Held' = Held \ {o},
         UNCHANGED <<observers, Watching, Waiters>>
  PROVE  BarrierStep
<1>1. Barrier!Leave(o)
  BY DEF Barrier!Leave, Waiters
<1> QED
  BY <1>1 DEF BarrierStep, Barrier!Next

LEMMA AgentRefines ==
  ASSUME IInv, NEW a \in Agent,
         Admit(a, "asked") \/ Admit(a, "listing") \/ AgentStep(a)
  PROVE  BarrierStep
<1> USE DEF IInv, browserVars
<1>1. UNCHANGED <<private, control, reading, browserVars>>
  BY
     DEF Admit, AgentStep, Submit, List, Refused, Returned, Outrun, Delivered,
         Finish
<1>2. Waiters' = Waiters
  BY <1>1 DEF Waiters
<1>3. CASE Submit(a) \/ List(a)
  <2>1. a \notin Watching
    BY <1>3, ActorAssumption DEF Submit, List, Watching, TypeOK, Slot
  <2>2. Watching' = Watching \cup {a} /\ AdmitReader /\ Held' = Held
    BY <1>3, <2>1 DEF Submit, List, At, Watching, Held, TypeOK, serviceVars
  <2> QED
    BY <1>1, <1>2, <2>1, <2>2, ObserveStep
<1>4. CASE Delivered(a)
  <2>1. a \in Watching /\ DropReader /\ Watching' = Watching \ {a} /\ Held' = Held
    BY <1>4, ActorAssumption
       DEF Delivered, At, Watching, Held, TypeOK, Slot, serviceVars
  <2> QED
    BY <1>1, <1>2, <2>1, ReleaseStep
<1>5. CASE \/ Admit(a, "asked") \/ Admit(a, "listing") \/ Refused(a)
           \/ Returned(a) \/ Finish(a)
  <2>1. Watching' = Watching /\ observers' = observers
    BY <1>5 DEF Admit, Refused, Returned, Finish, At, Watching, TypeOK, serviceVars
  <2>2. Held' = Held
    <3>1. state' = "private" <=> state = "private"
      BY <1>5 DEF Admit, Free, Refused, Returned, Finish, serviceVars
    <3> QED
      BY <1>1, <3>1 DEF Held
  <2> QED
    BY <1>1, <1>2, <2>1, <2>2 DEF BarrierStep
<1>6. CASE Outrun(a)
  <2>1. a \in Watching /\ Watching' = Watching /\ observers' = observers
    BY <1>6, ActorAssumption DEF Outrun, Retire, At, Watching, TypeOK, Slot
  <2>2. observers # 0
    BY <2>1, Present
  <2>3. Held' = Held
    BY <1>1, <1>6, <2>2 DEF Outrun, Retire, Held, Shut, Quiet, Waits, CU
  <2> QED
    BY <1>1, <1>2, <2>1, <2>3 DEF BarrierStep
<1> QED
  BY <1>3, <1>4, <1>5, <1>6 DEF AgentStep

LEMMA RetireRefines ==
  ASSUME IInv, Drained \/ DrainFailed
  PROVE  BarrierStep
<1> USE DEF IInv, browserVars
<1>1. lease \in Agent /\ lease \in Watching /\ \A a \in Agent : agent[a] = "idle"
  BY DEF Drained, DrainFailed, TypeOK, Slot, Watching
<1>2. observers # 0
  BY <1>1, Present
<1>3. /\ UNCHANGED <<private, control, browserVars>> /\ Waiters' = Waiters
      /\ state' # "private"
  BY DEF Drained, DrainFailed, Waiters
<1>4. Held' = Held
  BY <1>2, <1>3 DEF Held, Shut, Quiet, Waits, CU
<1>5. CASE Drained
  <2>1. DropReader /\ Watching' = Watching \ {lease}
    BY <1>1, <1>5, ActorAssumption DEF Drained, Watching, TypeOK
  <2> QED
    BY <1>1, <1>3, <1>4, <2>1, ReleaseStep
<1>6. CASE DrainFailed
  <2>1. Watching' = Watching /\ observers' = observers
    BY <1>6 DEF DrainFailed, Watching
  <2> QED
    BY <1>3, <1>4, <2>1 DEF BarrierStep
<1> QED
  BY <1>5, <1>6

LEMMA ControlRefines ==
  ASSUME IInv, OneControl, NEW c \in Control,
         Resume(c) \/ Stop(c) \/ Private(c) \/ ControlStep(c) \/ TimedOut(c)
  PROVE  BarrierStep
<1> USE DEF IInv, browserVars
<1>1. /\ UNCHANGED <<observers, browserVars>> /\ Watching' = Watching
  BY DEF Resume, Stop, Private, ControlStep, Block, Entered, GiveUp, NotStarted,
         Started, TimedOut, serviceVars, Watching
<1>2. CASE Resume(c)
  <2>1. CU \notin Waiters /\ Waiters' = Waiters /\ Held' = Held \ {CU}
        /\ private' = private \ {CU}
    BY <1>1, <1>2, ActorAssumption
       DEF Resume, Heeds, OpenFor, Waiters, Held, OneControl, CU
  <2> QED
    BY <1>1, <2>1, LeaveStep DEF CU
<1>3. CASE Stop(c) \/ Private(c)
  <2>1. Waiters' = Waiters /\ Held' = Held \ {CU} /\ private' = private
    BY <1>1, <1>3, ActorAssumption
      
          DEF Stop, Private, Heeds, Halted, Stands, Waiters, Held, OneControl,
              TypeOK, CU
  <2> QED
    BY <1>1, <2>1, WithdrawStep DEF CU
<1>4. CASE Block(c)
  <2>1. /\ CU \notin Waiters /\ private' = private \cup {CU}
        /\ Waiters' = Waiters \cup {CU} /\ Held' = Held \ {CU}
    BY <1>1, <1>4, ActorAssumption
       DEF Block, CloseFor, Stands, Waiters, Held, OneControl, TypeOK, Shut, CU,
           serviceVars
  <2>2. Barrier!Enter(CU)
    BY <1>1, <2>1 DEF Barrier!Enter, Waiters, CU
  <2> QED
    BY <2>2 DEF BarrierStep, Barrier!Next, CU
<1>5. CASE Entered(c)
  <2>1. /\ CU \in Waiters /\ observers = 0 /\ private' = private
        /\ Waiters' = Waiters \ {CU} /\ Held' = Held \cup ({CU} \cap private)
    BY <1>1, <1>5, ActorAssumption
       DEF Entered, NoReader, Stands, Waiters, Held, OneControl, TypeOK, Shut,
           CU, serviceVars
  <2>2. Barrier!Entered(CU)
    BY <1>1, <2>1 DEF Barrier!Entered, Waiters, CU
  <2> QED
    BY <2>2 DEF BarrierStep, Barrier!Next, CU
<1>6. CASE TimedOut(c)
  <2>1. /\ CU \in Waiters /\ private' = private /\ Held' = Held
        /\ Waiters' = Waiters \ {CU}
    BY <1>1, <1>6, ActorAssumption
       DEF TimedOut, Stands, Waiters, Held, OneControl, TypeOK, CU, serviceVars
  <2>2. Barrier!TimedOut(CU)
    BY <1>1, <2>1 DEF Barrier!TimedOut, Waiters, CU
  <2> QED
    BY <2>2 DEF BarrierStep, Barrier!Next, CU
<1>7. CASE GiveUp(c)
  <2>1. CU \notin Waiters /\ Waiters' = Waiters /\ Held' = Held \ {CU}
        /\ private' = private \ {CU}
    BY <1>1, <1>7, ActorAssumption
       DEF GiveUp, OpenFor, Stands, Waiters, Held, OneControl, TypeOK, Shut, CU,
           serviceVars
  <2> QED
    BY <1>1, <2>1, LeaveStep DEF CU
<1>8. CASE NotStarted(c) \/ Started(c)
  <2>1. Waiters' = Waiters /\ Held' = Held /\ private' = private
    BY <1>1, <1>8
       DEF NotStarted, Started, Stands, Waiters, Held, OneControl, TypeOK, Shut
  <2> QED
    BY <1>1, <2>1 DEF BarrierStep
<1> QED
  BY <1>2, <1>3, <1>4, <1>5, <1>6, <1>7, <1>8 DEF ControlStep

LEMMA CloseRefines ==
  ASSUME IInv, Close \/ Closed
  PROVE  BarrierStep
<1> USE DEF IInv, browserVars
<1>1. CASE Close
  <2>1. /\ UNCHANGED <<private, observers>> /\ Watching' = Watching
        /\ Waiters' = Waiters /\ Held' = Held \ {CU}
    BY <1>1, ActorAssumption DEF Close, Watching, Waiters, Held, CU
  <2> QED
    BY <2>1, WithdrawStep DEF CU
<1>2. CASE Closed
  <2>1. /\ \A c \in Control : control[c] = "idle"
        /\ state # "private" /\ private' = private \ {CU}
        /\ UNCHANGED <<state, agent, control, reading, browserVars>>
    BY <1>2 DEF Closed, OpenFor, Shut, TypeOK, CU
  <2>2. CU \notin Waiters /\ Waiters' = Waiters /\ Held' = Held /\ Held' = Held \ {CU}
    BY <2>1, ActorAssumption DEF Waiters, Held, CU
  <2>3. CASE lease # None /\ lease' = None
    <3>1. lease \in Watching /\ DropReader /\ Watching' = Watching \ {lease}
          /\ lease \in Agent
      BY <1>2, <2>3, ActorAssumption DEF Closed, Watching, TypeOK, Slot
    <3>2. private' = private
      BY <2>1, <3>1, Present DEF Quiet, Waits
    <3> QED
      BY <2>2, <3>1, <3>2, ReleaseStep
  <2>4. CASE lease' = lease /\ observers' = observers
    <3>1. Watching' = Watching
      BY <2>1, <2>4 DEF Watching
    <3> QED
      BY <2>1, <2>2, <2>4, <3>1, LeaveStep DEF CU
  <2> QED
    BY <1>2, <2>3, <2>4 DEF Closed
<1> QED
  BY <1>1, <1>2

LEMMA ScreenRefines ==
  ASSUME IInv, NEW s \in Screen, Look(s) \/ LookEnds(s)
  PROVE  BarrierStep
<1> USE DEF IInv, browserVars
<1>1. s \notin Agent
  BY ActorAssumption
<1>2. UNCHANGED <<private, Waiters, Held>>
  BY DEF Look, LookEnds, Waiters, Held, serviceVars
<1>3. CASE Look(s)
  <2>1. s \notin Watching /\ AdmitReader /\ Watching' = Watching \cup {s}
    BY <1>1, <1>3 DEF Look, Watching, TypeOK, serviceVars
  <2> QED
    BY <1>2, <2>1, ObserveStep
<1>4. CASE LookEnds(s)
  <2>1. s \in Watching /\ DropReader /\ Watching' = Watching \ {s}
    BY <1>1, <1>4 DEF LookEnds, Watching, TypeOK, serviceVars
  <2> QED
    BY <1>2, <2>1, ReleaseStep
<1> QED
  BY <1>3, <1>4

LEMMA BrowserRefines ==
  ASSUME IInv, NEW b \in Browser, BrowserStep(b)
  PROVE  BarrierStep
<1> USE DEF IInv
<1>1. /\ UNCHANGED <<observers, state, control>> /\ Watching' = Watching
      /\ b # CU
  BY ActorAssumption
     DEF BrowserStep, BrowserPrivate, BrowserEnter, BrowserEntered,
         BrowserTimedOut, BrowserAbandoned, BrowserStarted, BrowserGivesUp,
         BrowserHalts, BrowserResumed, BrowserOperated, BrowserClosed, Watching,
         elsewhere, serviceVars, CU
<1>2. CASE BrowserPrivate(b)
  <2>1. /\ private' = private \cup {b} /\ Waiters' = Waiters
        /\ Held' = Held \ {b}
    BY <1>1, <1>2 DEF BrowserPrivate, CloseFor, Shows, Asks, Waiters, Held,
                      TypeOK, CU
  <2>2. Barrier!Block(b)
    BY <1>1, <2>1 DEF Barrier!Block, Waiters
  <2> QED
    BY <2>2 DEF BarrierStep, Barrier!Next
<1>3. CASE BrowserEnter(b)
  <2>1. /\ b \notin Waiters /\ private' = private \cup {b}
        /\ Waiters' = Waiters \cup {b} /\ Held' = Held \ {b}
    BY <1>1, <1>3 DEF BrowserEnter, CloseFor, Asks, Waiters, Held, TypeOK, Shut,
                      CU
  <2>2. Barrier!Enter(b)
    BY <1>1, <2>1 DEF Barrier!Enter, Waiters
  <2> QED
    BY <2>2 DEF BarrierStep, Barrier!Next
<1>4. CASE BrowserEntered(b)
  <2>1. /\ b \in Waiters /\ observers = 0 /\ private' = private
        /\ Waiters' = Waiters \ {b} /\ Held' = Held \cup ({b} \cap private)
    BY <1>1, <1>4 DEF BrowserEntered, NoReader, Asks, Waiters, Held, TypeOK, CU
  <2>2. Barrier!Entered(b)
    BY <1>1, <2>1 DEF Barrier!Entered, Waiters
  <2> QED
    BY <2>2 DEF BarrierStep, Barrier!Next
<1>5. CASE \/ BrowserTimedOut(b)
           \/ asking[b] = "waiting" /\ BrowserAbandoned(b)
  <2>1. /\ b \in Waiters /\ private' = private /\ Held' = Held
        /\ Waiters' = Waiters \ {b}
    BY <1>1, <1>5 DEF BrowserTimedOut, BrowserAbandoned, Asks, Waiters, Held,
                      TypeOK, CU
  <2>2. Barrier!TimedOut(b)
    BY <1>1, <2>1 DEF Barrier!TimedOut, Waiters
  <2> QED
    BY <2>2 DEF BarrierStep, Barrier!Next
<1>6. CASE asking[b] # "waiting" /\ BrowserAbandoned(b)
  <2>1. private' = private /\ Waiters' = Waiters /\ Held' = Held \ {b}
    BY <1>1, <1>6 DEF BrowserAbandoned, Asks, Waiters, Held, TypeOK, Shut, CU
  <2> QED
    BY <1>1, <2>1, WithdrawStep
<1>7. CASE BrowserStarted(b)
  <2>1. private' = private /\ Waiters' = Waiters /\ Held' = Held
    BY <1>1, <1>7 DEF BrowserStarted, Shows, Asks, Waiters, Held, TypeOK, CU
  <2> QED
    BY <1>1, <2>1 DEF BarrierStep
<1>8. CASE BrowserHalts(b) \/ BrowserOperated(b)
  <2>1. private' = private /\ Waiters' = Waiters
    BY <1>8 DEF BrowserHalts, BrowserOperated, Waiters, elsewhere
  <2>2. Held' = Held \/ Held' = Held \ {b}
    <3>1. CASE browser'[b] = browser[b]
      BY <1>1, <1>8, <3>1 DEF BrowserHalts, BrowserOperated, Shows, Held, TypeOK, CU
    <3>2. CASE browser[b] = "private" /\ browser'[b] # "private"
      BY <1>1, <1>8, <3>2
         DEF BrowserHalts, BrowserOperated, Shows, Held, TypeOK, Shut, CU
    <3>3. CASE browser[b] # "private" /\ browser'[b] # "private"
      BY <1>1, <1>8, <3>3 DEF BrowserHalts, BrowserOperated, Shows, Held, TypeOK, CU
    <3> QED
      BY <1>8, <3>1, <3>2, <3>3
         DEF BrowserHalts, BrowserOperated, Kept, Shows, TypeOK
  <2> QED
    BY <1>1, <2>1, <2>2, WithdrawStep DEF BarrierStep
<1>9. CASE BrowserGivesUp(b) \/ BrowserResumed(b) \/ BrowserClosed(b)
  <2>1. /\ private' = private \ {b} /\ Waiters' = Waiters
        /\ Held' = Held \ {b}
    BY <1>1, <1>9 DEF BrowserGivesUp, BrowserResumed, BrowserClosed, OpenFor,
                      Shows, Asks, Waiters, Held, TypeOK, CU
  <2> QED
    BY <1>1, <2>1, LeaveStep
<1> QED
  BY <1>2, <1>3, <1>4, <1>5, <1>6, <1>7, <1>8, <1>9 DEF BrowserStep

(* Computer use, the browser and the screen tools keep to the protocol of  *)
(* the capture barrier, so they inherit what CaptureBarrier promises.      *)
THEOREM Refines ==
  ASSUME OneControl
  PROVE  Spec => Implements
<1>1. Init => Barrier!Init
  BY DEF Init, Barrier!Init, Watching, Held
<1>2. IInv /\ [Next]_vars => [Barrier!Next]_(Barrier!barrierVars)
  <2> SUFFICES ASSUME IInv, [Next]_vars
               PROVE  [Barrier!Next]_(Barrier!barrierVars)
    OBVIOUS
  <2>1. BarrierStep
    <3>1. CASE UNCHANGED vars
      BY <3>1 DEF vars, serviceVars, browserVars, BarrierStep, Watching,
                  Waiters, Held
    <3> QED
      BY <3>1, AgentRefines, RetireRefines, ControlRefines, CloseRefines,
         ScreenRefines, BrowserRefines DEF Next
  <2> QED
    BY <2>1 DEF BarrierStep, Barrier!barrierVars, Waiters
<1> QED
  BY Invariance, <1>1, <1>2, PTL DEF Spec, Implements, Barrier!Spec

-----------------------------------------------------------------------------
(* What the barrier itself promises, for any owners and readers: the count *)
(* is that of the readers inside, an owner whose wait is over has seen it  *)
(* at 0, and since then admission was closed.                              *)
CONSTANTS Owner, Reader
VARIABLES watching, waiting, held

Contract == INSTANCE CaptureBarrier

(* The instance has a copy of its own of the library's definition.         *)
LEMMA SameFinite ==
  ASSUME NEW S
  PROVE  Contract!IsFiniteSet(S) <=> IsFiniteSet(S)
  BY DEF Contract!IsFiniteSet, IsFiniteSet

BarrierInv ==
  /\ Contract!TypeOK
  /\ observers = Cardinality(watching)
  /\ held \subseteq private
  /\ Contract!NobodyWatches

LEMMA BarrierStarts == Contract!Init => BarrierInv
  BY FS_EmptySet, SameFinite
    DEF Contract!Init, BarrierInv, Contract!TypeOK, Contract!NobodyWatches

LEMMA OwnerKeeps ==
  ASSUME BarrierInv, NEW o \in Owner,
         \/ Contract!Block(o) \/ Contract!Enter(o) \/ Contract!Entered(o)
         \/ Contract!TimedOut(o) \/ Contract!Withdraw(o) \/ Contract!Leave(o)
  PROVE  BarrierInv'
<1>1. CASE Contract!Entered(o)
  <2>1. watching = {}
    BY <1>1, FS_EmptySet, SameFinite
    DEF Contract!Entered, BarrierInv, Contract!TypeOK
  <2> QED
    BY <1>1, <2>1
    DEF Contract!Entered, BarrierInv, Contract!TypeOK, Contract!NobodyWatches
<1>2. CASE \/ Contract!Block(o) \/ Contract!Enter(o) \/ Contract!TimedOut(o)
           \/ Contract!Withdraw(o) \/ Contract!Leave(o)
  BY <1>2 DEF Contract!Block, Contract!Enter, Contract!TimedOut,
              Contract!Withdraw, Contract!Leave,
              BarrierInv, Contract!TypeOK, Contract!NobodyWatches
<1> QED
  BY <1>1, <1>2

LEMMA ReaderKeeps ==
  ASSUME BarrierInv, NEW r \in Reader, Contract!Observe(r) \/ Contract!Release(r)
  PROVE  BarrierInv'
<1>1. CASE Contract!Observe(r)
  <2>1. /\ IsFiniteSet(watching')
        /\ Cardinality(watching') = Cardinality(watching) + 1
    BY <1>1, FS_AddElement, SameFinite
    DEF Contract!Observe, BarrierInv, Contract!TypeOK
  <2> QED
    BY <1>1, <2>1, SameFinite
    DEF Contract!Observe, BarrierInv, Contract!TypeOK, Contract!NobodyWatches
<1>2. CASE Contract!Release(r)
  <2>1. /\ IsFiniteSet(watching')
        /\ Cardinality(watching') = Cardinality(watching) - 1
    BY <1>2, FS_RemoveElement, SameFinite
    DEF Contract!Release, BarrierInv, Contract!TypeOK
  <2> QED
    BY <1>2, <2>1, SameFinite
    DEF Contract!Release, BarrierInv, Contract!TypeOK, Contract!NobodyWatches
<1> QED
  BY <1>1, <1>2

LEMMA BarrierSteps ==
  BarrierInv /\ [Contract!Next]_(Contract!barrierVars) => BarrierInv'
<1> SUFFICES ASSUME BarrierInv, [Contract!Next]_(Contract!barrierVars)
             PROVE  BarrierInv'
  OBVIOUS
<1>1. CASE UNCHANGED Contract!barrierVars
  BY <1>1
    DEF Contract!barrierVars, BarrierInv, Contract!TypeOK, Contract!NobodyWatches
<1> QED
  BY <1>1, OwnerKeeps, ReaderKeeps DEF Contract!Next

(* While an owner has been told that its input is private and has not left *)
(* since, no reader is between taking a frame and having delivered it.     *)
THEOREM NobodyEverWatches == Contract!Spec => []Contract!NobodyWatches
<1>1. BarrierInv => Contract!NobodyWatches
  BY DEF BarrierInv
<1> QED
  BY BarrierStarts, BarrierSteps, <1>1, PTL DEF Contract!Spec
=============================================================================
