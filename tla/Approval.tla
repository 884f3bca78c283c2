------------------------------ MODULE Approval ------------------------------
(***************************************************************************)
(* What a confirmation promises, with none of the machinery that keeps the *)
(* promise.  A request names one exact action.  It is answered once, by    *)
(* the owner, or lapses once, by time, by a changed mode or by arguments   *)
(* that are not the ones it was made for.  Its action takes effect at most *)
(* once, only after a yes, and it is the action that was asked for.        *)
(*                                                                         *)
(* docs/ARCHITECTURE.md describes the protocol; Confirmations.tla and      *)
(* SubAgents.tla are the code's two views of it, and both implement this   *)
(* specification.                                                          *)
(***************************************************************************)
EXTENDS Sequences

CONSTANTS
  Token,    \* the requests that can be made
  Act,      \* exact actions: a tool with its arguments
  None      \* no action

VARIABLES
  status,   \* where each request stands
  ask,      \* the action each request was made for
  effect    \* the actions that took effect under each request, in order

avars == <<status, ask, effect>>

Status == {"new", "asked", "answering", "approved", "ran", "closed"}

AInit ==
  /\ status = [t \in Token |-> "new"]
  /\ ask    = [t \in Token |-> None]
  /\ effect = [t \in Token |-> <<>>]

Ask(t, a) ==
  /\ status[t] = "new"
  /\ status' = [status EXCEPT ![t] = "asked"]
  /\ ask'    = [ask EXCEPT ![t] = a]
  /\ UNCHANGED effect

Move(t, from, to) ==
  /\ status[t] = from
  /\ status' = [status EXCEPT ![t] = to]
  /\ UNCHANGED <<ask, effect>>

(* One answer wins the request; what it says is decided while it is held.  *)
Answer(t)  == Move(t, "asked", "answering")
Approve(t) == Move(t, "answering", "approved")
Refuse(t)  == Move(t, "answering", "closed")

(* Requests lapse together when the mode changes, so the step is on a set. *)
Lapse(T) ==
  /\ \A t \in T : status[t] = "asked"
  /\ status' = [t \in Token |-> IF t \in T THEN "closed" ELSE status[t]]
  /\ UNCHANGED <<ask, effect>>

Run(t) ==
  /\ status[t] = "approved"
  /\ status' = [status EXCEPT ![t] = "ran"]
  /\ effect' = [effect EXCEPT ![t] = Append(@, ask[t])]
  /\ UNCHANGED ask

ANext ==
  \/ \E t \in Token : \/ \E a \in Act : Ask(t, a)
                      \/ Answer(t) \/ Approve(t) \/ Refuse(t) \/ Run(t)
  \/ \E T \in SUBSET Token : Lapse(T)

ASpec == AInit /\ [][ANext]_avars

=============================================================================
