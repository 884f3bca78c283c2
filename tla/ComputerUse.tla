----------------------------- MODULE ComputerUse -----------------------------
(***************************************************************************)
(* Computer use (services/gateway/.../computer.py) and the others that     *)
(* share its capture barrier: browser sessions that ask for private input  *)
(* (browser_workspace.py) and the tools that read the screen (screen.py).  *)
(*                                                                         *)
(* Every locked section of ComputerUse and of the barrier is one action;   *)
(* what runs between two of them - the native call, the vision call, the   *)
(* wait for the readers, the cursor clean-up - separates two actions.  The *)
(* revision that status polls wait on and the visible cursor are left out; *)
(* so are a second private command of a session whose first is under way,  *)
(* and the shutdown of the browser workspace.                              *)
(***************************************************************************)
EXTENDS Integers, FiniteSets

CONSTANTS
  Agent,      \* threads that call computer_action and computer_tools
  Control,    \* threads inside ComputerUse.control
  Screen,     \* calls of read_screen
  Browser,    \* browser sessions
  None

ASSUME ActorAssumption ==
  /\ Agent \cap Screen = {}
  /\ IsFiniteSet(Agent) /\ IsFiniteSet(Screen)
  /\ "computer-use" \notin Browser
  /\ None \notin Agent

VARIABLES
  private,    \* CaptureBarrier._private
  observers,  \* CaptureBarrier._observers
  state,      \* ComputerUse._state
  active,     \* ComputerUse._active
  lease,      \* _retirement_lease: whose observation it kept
  stopped,    \* _retire's local: the owner had stopped the action
  closing,    \* where close() stands; _closed from its first section on
  agent,      \* where each calling thread stands
  control,    \* where each controlling thread stands
  reading,    \* the calls of read_screen inside the barrier
  browser,    \* what each browser session's state says
  asking,     \* where each session's private command stands
  window,     \* the sessions in BrowserWorkspace._contexts
  acting      \* external: whose native call the worker may be executing

serviceVars == <<state, active, lease, stopped, closing>>
browserVars == <<browser, asking, window>>
vars == <<private, observers, serviceVars, agent, control, reading,
          browserVars, acting>>

State == {"idle", "running", "paused", "private", "stopping",
          "unavailable", "unknown"}
AgentPc == {"idle", "asked", "listing", "native", "delivering", "finishing"}
ControlPc == {"idle", "block", "wait", "late", "left", "hide", "shown"}

(* "private" as the private command writes it; "kept" is the same word,    *)
(* written by a pause or a stop because the barrier is closed for the      *)
(* session; "open" stands for every state but these and stopping.          *)
BrowserState == {"open", "stopping", "private", "kept"}
Asking == {"no", "blocked", "waiting", "entered", "late"}

TypeOK ==
  /\ private \subseteq Browser \cup {"computer-use"}
  /\ observers \in Nat
  /\ state \in State /\ active \in BOOLEAN /\ stopped \in BOOLEAN
  /\ lease \in Agent \cup {None}
  /\ closing \in {"no", "draining", "closed"}
  /\ agent \in [Agent -> AgentPc] /\ control \in [Control -> ControlPc]
  /\ reading \subseteq Screen /\ acting \subseteq Agent
  /\ browser \in [Browser -> BrowserState]
  /\ asking \in [Browser -> Asking]
  /\ window \subseteq Browser

Init ==
  /\ private = {} /\ observers = 0
  /\ state = "idle" /\ active = FALSE /\ lease = None /\ stopped = FALSE
  /\ closing = "no"
  /\ agent = [a \in Agent |-> "idle"]
  /\ control = [c \in Control |-> "idle"]
  /\ reading = {} /\ acting = {}
  /\ browser = [b \in Browser |-> "open"]
  /\ asking = [b \in Browser |-> "no"]
  /\ window = Browser

-----------------------------------------------------------------------------
(* The barrier, as computer use, the browser and the screen call it.       *)
CloseFor(o) == private' = private \cup {o}
OpenFor(o) == private' = private \ {o}
AdmitAnyone == observers' = observers + 1   \* fault: admission stays open
AdmitReader == private = {} /\ observers' = observers + 1
DropReader == observers' = observers - 1
Quietly == TRUE   \* fault: a wait that ran out answers all the same
NoReader == observers = 0

At(a, place) == agent' = [agent EXCEPT ![a] = place]
Stands(c, place) == control' = [control EXCEPT ![c] = place]

-----------------------------------------------------------------------------
(* ComputerUse.action and catalog.                                         *)

(* Fault: a worker that could not be retired is forgotten.                 *)
FreeSlot == /\ closing = "no" /\ ~ active
            /\ state \notin {"paused", "private", "stopping", "unavailable"}

Free == /\ closing = "no" /\ ~ active /\ lease = None
        /\ state \notin {"paused", "private", "stopping", "unavailable"}

(* _admit.                                                                 *)
Admit(a, place) ==
  /\ agent[a] = "idle"
  /\ Free
  /\ active' = TRUE /\ state' = "running"
  /\ At(a, place)
  /\ UNCHANGED <<private, observers, lease, stopped, closing, control,
                 reading, browserVars, acting>>

(* observe admits the call, and it is submitted to the worker.             *)
Submit(a) ==
  /\ agent[a] = "asked"
  /\ AdmitReader
  /\ At(a, "native") /\ acting' = acting \cup {a}
  /\ UNCHANGED <<private, serviceVars, control, reading, browserVars>>

List(a) ==
  /\ agent[a] = "listing"
  /\ AdmitReader
  /\ At(a, "delivering")
  /\ UNCHANGED <<private, serviceVars, control, reading, browserVars, acting>>

(* Fault: the refusal skips _finish.                                       *)
RefusedOutright(a) ==
  /\ agent[a] \in {"asked", "listing"}
  /\ private # {}
  /\ At(a, "idle")
  /\ UNCHANGED <<private, observers, serviceVars, control, reading,
                 browserVars, acting>>

(* observe refuses: nothing was dispatched.                                *)
Refused(a) ==
  /\ agent[a] \in {"asked", "listing"}
  /\ private # {}
  /\ At(a, "finishing")
  /\ UNCHANGED <<private, observers, serviceVars, control, reading,
                 browserVars, acting>>

(* The worker answers in time; its frame is still to be delivered.         *)
Returned(a) ==
  /\ agent[a] = "native"
  /\ At(a, "delivering") /\ acting' = acting \ {a}
  /\ UNCHANGED <<private, observers, serviceVars, control, reading,
                 browserVars>>

(* The observation ends with the `with watching` block.                    *)
Delivered(a) ==
  /\ agent[a] = "delivering"
  /\ DropReader
  /\ At(a, "finishing")
  /\ UNCHANGED <<private, serviceVars, control, reading, browserVars, acting>>

(* _finish.                                                                *)
Finish(a) ==
  /\ agent[a] = "finishing"
  /\ active' = FALSE
  /\ state' = CASE state = "running"  -> "idle"
                [] state = "stopping" -> "paused"
                [] OTHER              -> state
  /\ At(a, "idle")
  /\ UNCHANGED <<private, observers, lease, stopped, closing, control,
                 reading, browserVars, acting>>

(* _retire: the observation passes to the worker's retirement, and the     *)
(* call that timed out answers without _finish.                            *)
Retire(a) ==
  /\ stopped' = (state = "stopping")
  /\ state' = "stopping"
  /\ lease' = a
  /\ UNCHANGED observers

Outrun(a) ==
  /\ agent[a] = "native"
  /\ Retire(a)
  /\ At(a, "idle")
  /\ UNCHANGED <<private, active, closing, control, reading, browserVars,
                 acting>>

(* retire(): the worker's shutdown is acknowledged, or fails and the lease *)
(* stays.                                                                  *)
Drained ==
  /\ lease # None /\ active /\ closing # "closed"
  /\ state' = IF stopped THEN "paused" ELSE "unknown"
  /\ active' = FALSE
  /\ DropReader /\ lease' = None
  /\ acting' = acting \ {lease}
  /\ UNCHANGED <<private, stopped, closing, agent, control, reading,
                 browserVars>>

DrainFailed ==
  /\ lease # None /\ active /\ closing # "closed"
  /\ state' = "unavailable"
  /\ active' = FALSE
  /\ UNCHANGED <<private, observers, lease, stopped, closing, agent, control,
                 reading, browserVars, acting>>

-----------------------------------------------------------------------------
(* ComputerUse.control.                                                    *)

(* Its first check: a failed recovery refuses every command.  The server   *)
(* takes no request once the service is being closed (app.py's lifespan).  *)
Heeds(c) == /\ control[c] = "idle" /\ closing = "no"
            /\ lease = None \/ active

Resume(c) ==
  /\ Heeds(c)
  /\ ~ active /\ state # "stopping" /\ lease = None
  /\ OpenFor("computer-use")
  /\ state' = "idle"
  /\ UNCHANGED <<observers, active, lease, stopped, closing, agent, control,
                 reading, browserVars, acting>>

Halted == IF active THEN "stopping" ELSE "paused"

Stop(c) ==
  /\ Heeds(c)
  /\ state' = Halted
  /\ UNCHANGED <<private, observers, active, lease, stopped, closing, agent,
                 control, reading, browserVars, acting>>

Private(c) ==
  /\ Heeds(c)
  /\ state' = Halted
  /\ Stands(c, "block")
  /\ UNCHANGED <<private, observers, active, lease, stopped, closing, agent,
                 reading, browserVars, acting>>

(* enter: block, then the wait for the readers.                            *)
Block(c) ==
  /\ control[c] = "block"
  /\ CloseFor("computer-use")
  /\ Stands(c, "wait")
  /\ UNCHANGED <<observers, serviceVars, agent, reading, browserVars, acting>>

Entered(c) ==
  /\ control[c] = "wait"
  /\ NoReader
  /\ Stands(c, "hide")
  /\ UNCHANGED <<private, observers, serviceVars, agent, reading,
                 browserVars, acting>>

TimedOut(c) ==
  /\ control[c] = "wait"
  /\ ~ NoReader
  /\ Stands(c, "late")
  /\ UNCHANGED <<private, observers, serviceVars, agent, reading,
                 browserVars, acting>>

(* Fault: enter's TimeoutError is answered without the leave.              *)
AnswerLate(c) ==
  /\ control[c] \in {"late", "hide"}
  /\ Stands(c, IF control[c] = "late" THEN "left" ELSE "shown")
  /\ UNCHANGED <<private, observers, serviceVars, agent, reading,
                 browserVars, acting>>

(* leave, after the time-out (501) or when the cursor cannot be hidden.    *)
GiveUp(c) ==
  /\ control[c] \in {"late", "hide"}
  /\ OpenFor("computer-use")
  /\ Stands(c, IF control[c] = "late" THEN "left" ELSE "shown")
  /\ UNCHANGED <<observers, serviceVars, agent, reading, browserVars, acting>>

NotStarted(c) ==
  /\ control[c] \in {"left", "shown"}
  /\ state' = CASE control[c] = "shown" -> "paused"
                [] control[c] = "left" /\ active -> "running"
                [] OTHER -> "idle"
  /\ Stands(c, "idle")
  /\ UNCHANGED <<private, observers, active, lease, stopped, closing, agent,
                 reading, browserVars, acting>>

Started(c) ==
  /\ control[c] = "hide"
  /\ state' = "private"
  /\ Stands(c, "idle")
  /\ UNCHANGED <<private, observers, active, lease, stopped, closing, agent,
                 reading, browserVars, acting>>

-----------------------------------------------------------------------------
(* close, after the server's last request: its locked section; then the    *)
(* worker's shutdown and the end of the lease, or the shutdown's failure.  *)

Close ==
  /\ closing = "no" /\ \A c \in Control : control[c] = "idle"
  /\ closing' = "draining" /\ state' = "stopping"
  /\ UNCHANGED <<private, observers, active, lease, stopped, agent, control,
                 reading, browserVars, acting>>

Closed ==
  /\ closing = "draining" /\ closing' = "closed"
  /\ OpenFor("computer-use")
  /\ \/ /\ acting' = {} /\ lease' = None
        /\ IF lease = None THEN UNCHANGED observers ELSE DropReader
     \/ UNCHANGED <<acting, lease, observers>>
  /\ UNCHANGED <<state, active, stopped, agent, control, reading, browserVars>>

-----------------------------------------------------------------------------
(* The others at the barrier.                                              *)

(* guarded_read_screen.                                                    *)
Look(s) ==
  /\ s \notin reading
  /\ AdmitReader
  /\ reading' = reading \cup {s}
  /\ UNCHANGED <<private, serviceVars, agent, control, browserVars, acting>>

LookEnds(s) ==
  /\ s \in reading
  /\ DropReader
  /\ reading' = reading \ {s}
  /\ UNCHANGED <<private, serviceVars, agent, control, browserVars, acting>>

-----------------------------------------------------------------------------
(* BrowserWorkspace.control, on its event loop.  A private command closes  *)
(* the barrier at once, drains the browsers, hands enter to a thread and   *)
(* awaits it; between two of these steps every other command may run, and  *)
(* so may the end of any session's operation (which of them have one is    *)
(* not tracked).                                                           *)
Shows(b, s) == browser' = [browser EXCEPT ![b] = s]
Asks(b, place) == asking' = [asking EXCEPT ![b] = place]
elsewhere == <<observers, serviceVars, agent, control, reading, acting>>

BrowserPrivate(b) ==
  /\ b \in window /\ asking[b] = "no"
  /\ CloseFor(b)
  /\ Shows(b, "stopping") /\ Asks(b, "blocked")
  /\ UNCHANGED <<window, elsewhere>>

(* enter, in its thread: it blocks again, then waits for the readers.      *)
BrowserEnter(b) ==
  /\ asking[b] = "blocked"
  /\ CloseFor(b)
  /\ Asks(b, "waiting")
  /\ UNCHANGED <<browser, window, elsewhere>>

BrowserEntered(b) ==
  /\ asking[b] = "waiting"
  /\ NoReader
  /\ Asks(b, "entered")
  /\ UNCHANGED <<private, browser, window, elsewhere>>

BrowserTimedOut(b) ==
  /\ asking[b] = "waiting"
  /\ ~ NoReader
  /\ Asks(b, "late")
  /\ UNCHANGED <<private, browser, window, elsewhere>>

(* The desktop host does not answer, or the 60 seconds of submit are over: *)
(* the command ends where it stands, and what it closed stays closed.      *)
BrowserAbandoned(b) ==
  /\ asking[b] # "no"
  /\ Asks(b, "no")
  /\ UNCHANGED <<private, browser, window, elsewhere>>

BrowserStarted(b) ==
  /\ asking[b] = "entered"
  /\ Shows(b, "private") /\ Asks(b, "no")
  /\ UNCHANGED <<private, window, elsewhere>>

BrowserGivesUp(b) ==
  /\ asking[b] = "late"
  /\ OpenFor(b)
  /\ Shows(b, "open") /\ Asks(b, "no")
  /\ UNCHANGED <<window, elsewhere>>

(* pause and stop: the session's operation is waited for, if it has one;   *)
(* then the state says private when the barrier is closed for the session, *)
(* whether or not its enter has been answered.                             *)
Kept(b) == IF b \notin private THEN "open"
           ELSE IF browser[b] = "private" THEN "private" ELSE "kept"

BrowserHalts(b) ==
  /\ \E s \in {"stopping", Kept(b)} : Shows(b, s)
  /\ UNCHANGED <<private, asking, window, elsewhere>>

(* resume: it checks the state and the barrier, then awaits the desktop    *)
(* host, so that nothing it has checked need still hold when it leaves.    *)
BrowserResumed(b) ==
  /\ OpenFor(b) /\ Shows(b, "open")
  /\ UNCHANGED <<asking, window, elsewhere>>

(* An operation of the session ends, or another session's private command  *)
(* stops it and waits for its end.                                         *)
BrowserOperated(b) ==
  /\ \E s \in {"stopping", "open"} : Shows(b, s)
  /\ UNCHANGED <<private, asking, window, elsewhere>>

(* _closed: by the close command, or whenever the browser goes away.       *)
BrowserClosed(b) ==
  /\ window' = window \ {b}
  /\ OpenFor(b) /\ Shows(b, "open")
  /\ UNCHANGED <<asking, elsewhere>>

-----------------------------------------------------------------------------
AgentStep(a) ==
  \/ Submit(a) \/ List(a) \/ Refused(a)
  \/ Returned(a) \/ Outrun(a) \/ Delivered(a) \/ Finish(a)

ControlStep(c) ==
  \/ Block(c) \/ Entered(c) \/ GiveUp(c) \/ NotStarted(c) \/ Started(c)

BrowserStep(b) ==
  \/ BrowserPrivate(b) \/ BrowserEnter(b) \/ BrowserEntered(b)
  \/ BrowserTimedOut(b) \/ BrowserAbandoned(b) \/ BrowserStarted(b)
  \/ BrowserGivesUp(b) \/ BrowserHalts(b) \/ BrowserOperated(b)
  \/ BrowserResumed(b) \/ BrowserClosed(b)

Next ==
  \/ \E a \in Agent : Admit(a, "asked") \/ Admit(a, "listing") \/ AgentStep(a)
  \/ Drained \/ DrainFailed
  \/ \E c \in Control : \/ Resume(c) \/ Stop(c) \/ Private(c)
                        \/ ControlStep(c) \/ TimedOut(c)
  \/ Close \/ Closed
  \/ \E s \in Screen : Look(s) \/ LookEnds(s)
  \/ \E b \in Browser : BrowserStep(b)

(* A thread that has begun goes on; the worker's shutdown is answered one  *)
(* way or the other.  Nothing is assumed of the owner, of new calls, or of *)
(* the time-outs of a wait for private input.                              *)
Fairness ==
  /\ \A a \in Agent : WF_vars(AgentStep(a))
  /\ WF_vars(Drained \/ DrainFailed)
  /\ \A c \in Control : WF_vars(ControlStep(c))
  /\ WF_vars(Closed)
  /\ \A s \in Screen : WF_vars(LookEnds(s))
  /\ \A b \in Browser : WF_vars(BrowserEntered(b))

Spec == Init /\ [][Next]_vars /\ Fairness

-----------------------------------------------------------------------------
(* Who is watching: the calls inside the barrier, and the one whose        *)
(* observation a retirement keeps.                                         *)
Watching == {a \in Agent : agent[a] \in {"native", "delivering"}}
              \cup ({lease} \ {None}) \cup reading

(* Whom enter has answered, their input still private: a browser session   *)
(* that has been told so since it asked and has not been left since.       *)
Held == {b \in private \cap Browser :
            asking[b] = "entered" \/ browser[b] = "private"}
          \cup {o \in {"computer-use"} :
                  state = "private" \/ \E c \in Control : control[c] = "hide"}

(* Private input is private (browser_privacy.py:28): once computer use or  *)
(* a browser session has been answered so, and until it leaves, no frame   *)
(* is being taken or delivered and no native call, not even one that timed *)
(* out, can still be running.                                              *)
PrivateIsPrivate ==
  Held # {} => Watching = {} /\ acting = {}

(* One native call at a time: a caller that gave up does not make room for *)
(* the next while the worker may still be executing for it.                *)
OneAtATime == Cardinality(acting) <= 1

(* The barrier is not left closed behind the owner's back: with no control *)
(* call in progress, computer use that keeps every reader out says paused, *)
(* private or stopping (computer.py:498).                                  *)
ClosedIsShown ==
  (\A c \in Control : control[c] = "idle") /\ "computer-use" \in private
    => state \in {"paused", "private", "stopping"}

(* The slot comes back: an admitted call ends, or its worker's retirement  *)
(* does, and another can be admitted or is told why not.                   *)
SlotComesBack == active ~> (~ active \/ closing = "closed")

(* Readers that keep coming do not starve private input: whoever waits and *)
(* is not left by others in the meantime gets it, or a worker that outran  *)
(* its call is still holding the screen.                                   *)
NotStarved ==
  /\ \A c \in Control :
       control[c] = "wait" ~> (control[c] # "wait" \/ lease # None)
  /\ \A b \in Browser :
       asking[b] = "waiting" /\ b \in private
         ~> (asking[b] # "waiting" \/ b \notin private \/ lease # None)

(* The service and its neighbours use the barrier as it is meant to be     *)
(* used, so they inherit what it promises.                                 *)
Barrier == INSTANCE CaptureBarrier WITH
  Owner    <- Browser \cup {"computer-use"},
  Reader   <- Agent \cup Screen,
  watching <- Watching,
  waiting  <- {b \in Browser : asking[b] = "waiting"}
                \cup {o \in {"computer-use"} :
                        \E c \in Control : control[c] = "wait"},
  held     <- Held

Implements == Barrier!Spec
=============================================================================
