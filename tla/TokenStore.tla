----------------------------- MODULE TokenStore -----------------------------
(***************************************************************************)
(* RuntimeStore._pending (services/gateway/.../runtime.py): the tokens of  *)
(* the confirmations that have been asked for and not answered.            *)
(*                                                                         *)
(* A token is fresh until it is issued and is never issued again           *)
(* (token_urlsafe(24)).  Time is the set of tokens older than              *)
(* CONFIRMATION_TTL_SECONDS: Age moves one token past its limit, at any    *)
(* moment, and expire_confirmations is what notices.                       *)
(***************************************************************************)
EXTENDS Naturals, FiniteSets

CONSTANTS
  Token,    \* the tokens a behaviour can issue: the bound on its length
  Act,      \* exact actions: a tool with its canonical arguments
  None      \* neither a token nor an action

ASSUME StoreAssumption == None \notin Token /\ None \notin Act

VARIABLES
  pending,  \* the keys of _pending
  overdue,  \* the pending tokens whose time to live has passed
  asked     \* what each token was issued for: PendingConfirmation.fingerprint

storeVars == <<pending, overdue, asked>>

StoreTypeOK ==
  /\ pending \subseteq Token
  /\ overdue \subseteq pending
  /\ asked \in [Token -> Act \cup {None}]

StoreInit ==
  /\ pending = {}
  /\ overdue = {}
  /\ asked = [t \in Token |-> None]

Fresh == {t \in Token : asked[t] = None}

(* The dictionary insertion of issue_confirmation.                         *)
Issue(t, a) ==
  /\ t \in Fresh
  /\ pending' = pending \cup {t}
  /\ asked' = [asked EXCEPT ![t] = a]
  /\ UNCHANGED overdue

(* Fault: a token that is read and left in place.                          *)
Peek(t) == t \in pending /\ UNCHANGED storeVars

(* _pending.pop(token): atomic, so one caller gets the token.              *)
Pop(t) ==
  /\ t \in pending
  /\ pending' = pending \ {t}
  /\ overdue' = overdue \ {t}
  /\ UNCHANGED asked

(* CONFIRMATION_TTL_SECONDS pass since the token was issued.               *)
Age(t) ==
  /\ t \in pending \ overdue
  /\ overdue' = overdue \cup {t}
  /\ UNCHANGED <<pending, asked>>
=============================================================================
