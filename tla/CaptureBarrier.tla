--------------------------- MODULE CaptureBarrier ---------------------------
(***************************************************************************)
(* The capture barrier (services/gateway/.../browser_privacy.py): what it  *)
(* promises to the owners of private input and to the readers of the       *)
(* screen.  Closing admission and waiting for the readers are separate     *)
(* locked sections of enter, so they are separate actions.                 *)
(***************************************************************************)
EXTENDS Integers, FiniteSets

CONSTANTS
  Owner,    \* who can ask for private input
  Reader    \* who can be reading the screen

VARIABLES
  private,    \* CaptureBarrier._private
  observers,  \* CaptureBarrier._observers
  watching,   \* the readers inside `with observe()`
  waiting,    \* the owners inside wait_for
  held        \* the owners that enter has answered, input still private

barrierVars == <<private, observers, watching, waiting, held>>

TypeOK ==
  /\ private \subseteq Owner
  /\ observers \in Int
  /\ watching \subseteq Reader /\ IsFiniteSet(watching)
  /\ waiting \subseteq Owner
  /\ held \subseteq Owner

Init ==
  /\ private = {} /\ observers = 0
  /\ watching = {} /\ waiting = {} /\ held = {}

(* block: admission closes.  What an owner held before counts no more once *)
(* it asks again.                                                          *)
Block(o) ==
  /\ private' = private \cup {o}
  /\ held' = held \ {o}
  /\ UNCHANGED <<observers, watching, waiting>>

(* enter: block, then the wait for the readers.                            *)
Enter(o) ==
  /\ o \notin waiting
  /\ private' = private \cup {o}
  /\ waiting' = waiting \cup {o}
  /\ held' = held \ {o}
  /\ UNCHANGED <<observers, watching>>

(* The wait is over.  Whoever was left in the meantime holds nothing.      *)
Entered(o) ==
  /\ o \in waiting
  /\ observers = 0
  /\ waiting' = waiting \ {o}
  /\ held' = held \cup ({o} \cap private)
  /\ UNCHANGED <<private, observers, watching>>

(* enter raises TimeoutError, or its caller waits for it no more;          *)
(* admission stays closed until the leave.                                 *)
TimedOut(o) ==
  /\ o \in waiting
  /\ waiting' = waiting \ {o}
  /\ UNCHANGED <<private, observers, watching, held>>

(* An owner stops relying on what enter told it, the barrier still closed. *)
Withdraw(o) ==
  /\ held' = held \ {o}
  /\ UNCHANGED <<private, observers, watching, waiting>>

(* leave, on behalf of the owner, also while it waits.                     *)
Leave(o) ==
  /\ private' = private \ {o}
  /\ held' = held \ {o}
  /\ UNCHANGED <<observers, watching, waiting>>

(* observe: entering and leaving the block.                                *)
Observe(r) ==
  /\ private = {}
  /\ r \notin watching
  /\ observers' = observers + 1
  /\ watching' = watching \cup {r}
  /\ UNCHANGED <<private, waiting, held>>

Release(r) ==
  /\ r \in watching
  /\ observers' = observers - 1
  /\ watching' = watching \ {r}
  /\ UNCHANGED <<private, waiting, held>>

Next ==
  \/ \E o \in Owner :
       \/ Block(o) \/ Enter(o) \/ Entered(o)
       \/ TimedOut(o) \/ Withdraw(o) \/ Leave(o)
  \/ \E r \in Reader : Observe(r) \/ Release(r)

Spec == Init /\ [][Next]_barrierVars

(* While an owner has been told that its input is private and has not left *)
(* since, no reader is between taking a frame and having delivered it      *)
(* (browser_privacy.py:28).                                                *)
NobodyWatches == held # {} => watching = {}
=============================================================================
